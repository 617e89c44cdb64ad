------------------------------ MODULE LLMClient ------------------------------
(***************************************************************************)
(* LLMClient.complete_text: one request over ordered providers, each tried *)
(* a bounded number of times.  How an attempt ends decides whether the     *)
(* provider is tried again, the next one is, or the request is over.       *)
(***************************************************************************)
EXTENDS Integers, Sequences, FiniteSets

CONSTANT Backends,   \* "cli" and "api"
         LLMRetries  \* max_retries

ASSUME LLMAssumption == Backends \subseteq {"cli", "api"} /\ LLMRetries \in Nat

(* confirmed and unverified answers; failures to be retried, with a delay  *)
(* that is longer than an attempt's budget, final for the provider, fatal. *)
Outcomes == {"confirmed", "unverified", "transient", "throttled", "refused", "fatal"}
Texts    == {"confirmed", "unverified"}

VARIABLES
    order,      \* the configuration's providers, api first when the request says so
    configured, \* is_configured
    prefer,     \* prefer_search
    turn,        \* the provider it is at
    calls,      \* the attempts made, each with its provider and outcome
    unverified, \* the provider of the answer kept back, or none
    answer      \* the provider whose text is returned, "failed", or "none" before the end

llmVars == <<order, configured, prefer, turn, calls, unverified, answer>>

Orders == {<<"cli", "api">>, <<"api", "cli">>}
Call == [provider : Backends, outcome : Outcomes]

LLMTypeOK ==
    /\ order \in Orders /\ configured \subseteq Backends /\ prefer \in BOOLEAN
    /\ turn \in 1..Len(order) + 1
    /\ calls \in Seq(Call) /\ Len(calls) <= Len(order) * (LLMRetries + 1)
    /\ unverified \in Backends \cup {"none"}
    /\ answer \in Backends \cup {"none", "failed"}

LLMInit ==
    /\ order \in Orders /\ configured \in SUBSET Backends /\ prefer \in BOOLEAN
    /\ turn = 1 /\ calls = <<>> /\ unverified = "none"
    /\ answer = IF configured = {} THEN "failed" ELSE "none"

Trying == answer = "none" /\ turn <= Len(order)
CallsOf(p) == {i \in 1..Len(calls) : calls[i].provider = p}

SkipUnconfigured ==
    /\ Trying /\ order[turn] \notin configured
    /\ turn' = turn + 1
    /\ UNCHANGED <<order, configured, prefer, calls, unverified, answer>>

(* An answer without search evidence is kept while later providers may do  *)
(* better.                                                                 *)
Good(outcome)  == outcome = "confirmed" \/ (outcome = "unverified" /\ ~prefer)
AgainOnceLess(p, outcome) == outcome = "transient" /\ Cardinality(CallsOf(p)) + 1 < LLMRetries
Again(p, outcome) == outcome = "transient" /\ Cardinality(CallsOf(p)) < LLMRetries

TryProvider ==
    /\ Trying /\ order[turn] \in configured
    /\ \E outcome \in Outcomes :
         LET p == order[turn] IN
         /\ calls' = Append(calls, [provider |-> p, outcome |-> outcome])
         /\ answer' = IF Good(outcome) THEN p ELSE IF outcome = "fatal" THEN "failed" ELSE "none"
         /\ unverified' = IF outcome = "unverified" /\ prefer /\ unverified = "none" THEN p ELSE unverified
         /\ turn' = IF Good(outcome) \/ outcome = "fatal" \/ Again(p, outcome) THEN turn ELSE turn + 1
    /\ UNCHANGED <<order, configured, prefer>>

Conclude ==
    /\ answer = "none" /\ turn > Len(order)
    /\ answer' = IF unverified # "none" THEN unverified ELSE "failed"
    /\ UNCHANGED <<order, configured, prefer, turn, calls, unverified>>

LLMNext == SkipUnconfigured \/ TryProvider \/ Conclude

LLMSpec == LLMInit /\ [][LLMNext]_llmVars

(***************************************************************************)
(* Properties                                                              *)
(***************************************************************************)
Outcome(i)   == calls[i].outcome
Exhausted(p) ==
    /\ CallsOf(p) # {}
    /\ Cardinality(CallsOf(p)) = LLMRetries + 1 \/ \E i \in CallsOf(p) : Outcome(i) # "transient"

(* docs/llm.md: a provider is given up only when its failure is final or   *)
(* its retries are spent and is not asked again after a final one, a       *)
(* request is answered by the first search-confirmed text or, after every  *)
(* provider had its chance, by the first text there was, and fails only    *)
(* when there was none or at once on a fatal error.                        *)
FallsBackInOrder ==
    /\ \A i \in 1..Len(calls) - 1 :
         /\ ~Good(Outcome(i)) /\ Outcome(i) # "fatal"
         /\ IF calls[i].provider # calls[i + 1].provider THEN Exhausted(calls[i].provider)
            ELSE Outcome(i) = "transient"
    /\ answer \in Backends =>
         LET texts == {i \in 1..Len(calls) : Outcome(i) \in Texts} IN
         \E i \in texts : /\ calls[i].provider = answer
                          /\ Good(Outcome(i)) \/ ( /\ \A j \in texts : i <= j /\ ~Good(Outcome(j))
                                                   /\ \A p \in configured : Exhausted(p))
    /\ answer = "failed" =>
         \/ calls # <<>> /\ Outcome(Len(calls)) = "fatal"
         \/ /\ \A p \in configured : Exhausted(p)
            /\ \A i \in 1..Len(calls) : Outcome(i) \notin Texts
=============================================================================
