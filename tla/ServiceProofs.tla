---------------------------- MODULE ServiceProofs ----------------------------
(***************************************************************************)
(* What the smaller services promise, for any number of processes,         *)
(* symbols, messages and viewers: the market feed of the A shares, the     *)
(* noise control of notifications, the fallback of the language models,    *)
(* the previews of research, the intraday confirmation, the daily          *)
(* synchronisation, the releases of models and the portfolio.  One part    *)
(* per component: what its property rests on, a lemma per step that needs  *)
(* one, the theorem.                                                       *)
(***************************************************************************)
EXTENDS NoiseControl, CnFeed, Confirmation, Previews, LLMClient, DailySync, QuantReleases, Portfolio,
        FiniteSetTheorems, WellFoundedInduction, TLAPS

-----------------------------------------------------------------------------
(* CnFeed                                                                  *)

(* What the properties of CnFeed rest on: the pool treats one symbol at a  *)
(* time, a symbol whose cache was read has no state yet, and the poll      *)
(* writes only for state objects that exist.                               *)
CnInv ==
    /\ CnTypeOK /\ WindowsAreOwned
    /\ pool.step \in {"forget", "read"} => \A s, t \in pool.at : s = t
    /\ pool.step = "read" => \A s \in pool.at : owner[s] = 0
    /\ poll.step \in {"publish", "finish"} => \A s \in poll.at : poll.owners[s] # 0

LEMMA CnStarts == CnInit => CnInv
  <1> USE CnAssumption DEF CnInit, CnInv, Bars, NoPoll, NoChange
  <1> SUFFICES ASSUME CnInit PROVE CnInv
      OBVIOUS
  <1>1. CnTypeOK
        BY DEF CnTypeOK
  <1>2. WindowsAreOwned
        BY DEF WindowsAreOwned, WindowsAreTracked, PublishedForOwner, Mastered
  <1> QED BY <1>1, <1>2

LEMMA CnKept == CnInv /\ [CnNext]_cnVars => CnInv'
  <1> USE CnAssumption DEF CnInv, Bars, WindowsAreOwned, WindowsAreTracked, PublishedForOwner,
          Mastered, Tracked, Left
  <1> SUFFICES ASSUME CnInv, [CnNext]_cnVars PROVE CnInv'
      OBVIOUS
  <1> USE DEF CnTypeOK
  <1>1. CASE BarCloses
        BY <1>1 DEF BarCloses
  <1>2. CASE StartPoll
    <2> DEFINE inSession == closed < LastBar
               askedFor(asked) == [s \in Symbols |-> IF s \in asked THEN owner[s] ELSE 0]
    <2>1. PICK asked \in SUBSET Due :
            poll' = [NoPoll EXCEPT !.step = "treat", !.active = inSession, !.expected = closed,
                        !.owners = askedFor(asked)]
          BY <1>2 DEF StartPoll
    <2>2. inSession \in BOOLEAN /\ askedFor(asked) \in [Symbols -> 0 .. created]
          OBVIOUS
    <2> HIDE DEF inSession, askedFor
    <2>3. poll' = [step |-> "treat", owners |-> askedFor(asked), active |-> inSession,
                   expected |-> closed, at |-> {}, got |-> 0, saved |-> FALSE]
          BY <2>1 DEF NoPoll
    <2>4. poll'.step = "treat" /\ poll'.at = {}
          BY <2>3
    <2>5. UNCHANGED <<closed, targets, owner, created, settled, window, cache, pool,
                      reconciles, cnFaults>>
          BY <1>2 DEF StartPoll
    <2>6. poll' \in [step : {"idle", "treat", "publish", "finish"}, owners : [Symbols -> 0..created],
                     active : BOOLEAN, expected : Bars, at : SUBSET Symbols, got : Bars,
                     saved : BOOLEAN]
          BY <2>2, <2>3
    <2>7. CnTypeOK'
          BY <2>5, <2>6
    <2> QED
        BY SMTT(60), <2>4, <2>5, <2>7
  <1>3. CASE PublishWindow
    <2>1. PICK saved \in BOOLEAN :
            /\ IF saved THEN UNCHANGED cnFaults
               ELSE cnFaults < MaxCnFaults /\ cnFaults' = cnFaults + 1
            /\ poll' = [poll EXCEPT !.step = "finish", !.saved = saved]
            /\ \E s \in poll.at :
                 cache' = IF saved THEN [cache EXCEPT ![s] = poll.got] ELSE cache
          BY <1>3 DEF PublishWindow
    <2>2. poll.step = "publish" /\ UNCHANGED <<closed, targets, owner, created, settled, window,
                                              pool, reconciles>>
          BY <1>3 DEF PublishWindow
    <2>3. cnFaults' \in 0 .. MaxCnFaults /\ cache' \in [Symbols -> Bars]
          BY <2>1
    <2>4. CnTypeOK'
          BY <2>1, <2>2, <2>3
    <2> QED
        BY <2>1, <2>2, <2>4
  <1>4. CASE FinishSymbol
    <2>1. PICK s \in poll.at :
            /\ poll' = [poll EXCEPT !.step = "treat", !.owners[s] = 0, !.at = {}]
            /\ settled' = IF Final THEN [settled EXCEPT ![s] = poll.expected] ELSE settled
          BY <1>4 DEF FinishSymbol
    <2>2. poll'.step = "treat" /\ UNCHANGED <<closed, targets, owner, created, window, cache, pool,
                                             reconciles, cnFaults>>
          BY <1>4, <2>1 DEF FinishSymbol
    <2>3. settled' \in [Symbols -> Bars]
          BY <2>1
    <2>4. poll' \in [step : {"idle", "treat", "publish", "finish"}, owners : [Symbols -> 0..created],
                     active : BOOLEAN, expected : Bars, at : SUBSET Symbols, got : Bars,
                     saved : BOOLEAN]
      <3> DEFINE left == [poll.owners EXCEPT ![s] = 0]
      <3>1. left \in [Symbols -> 0 .. created]
            OBVIOUS
      <3>2. poll' = [poll EXCEPT !.step = "treat", !.owners = left, !.at = {}]
            BY <2>1
      <3> QED BY <3>1, <3>2
    <2>5. CnTypeOK'
          BY <2>2, <2>3, <2>4
    <2> QED
        BY <2>2, <2>5
  <1>5. CASE EndPoll
        BY <1>5 DEF EndPoll, NoPoll
  <1>6. CASE SetTargets
        BY <1>6 DEF SetTargets
  <1>7. CASE EndReconcile
        BY <1>7 DEF EndReconcile, NoChange
  <1>8. ASSUME NEW wanted \in SUBSET Symbols, StartReconcile(wanted)
        PROVE  CnInv'
    <2>1. /\ pool.step = "idle" /\ reconciles < MaxReconciles /\ reconciles' = reconciles + 1
          /\ pool' = [step |-> "remove", wanted |-> wanted, at |-> {}, cached |-> 0]
          /\ UNCHANGED <<closed, targets, owner, created, settled, window, cache, poll, cnFaults>>
          BY <1>8 DEF StartReconcile, NoChange
    <2>2. CnTypeOK'
          BY <2>1
    <2> QED
        BY <2>1, <2>2
  <1>9. ASSUME NEW s \in Symbols, SkipSymbol(s) PROVE CnInv'
        BY <1>9 DEF SkipSymbol
  <1>10. ASSUME NEW s \in Symbols, DropState(s) PROVE CnInv'
    <2>1. /\ pool.step = "remove" /\ owner' = [owner EXCEPT ![s] = 0]
          /\ pool' = [pool EXCEPT !.step = "forget", !.at = {s}]
          /\ settled' = [settled EXCEPT ![s] = 0]
          /\ UNCHANGED <<closed, targets, created, window, cache, poll, reconciles, cnFaults>>
          BY <1>10 DEF DropState
    <2>2. CnTypeOK'
      <3>1. owner' \in [Symbols -> 0 .. created] /\ settled' \in [Symbols -> Bars]
            BY <2>1
      <3>2. pool' \in [step : {"idle", "remove", "forget", "add", "read"}, wanted : SUBSET Symbols,
                       at : SUBSET Symbols, cached : Bars]
            BY <2>1
      <3> QED BY <2>1, <3>1, <3>2
    <2>3. pool'.step = "forget" /\ pool'.at = {s}
          BY <2>1
    <2>4. owner'[s] = 0 /\ \A t \in Symbols \ {s} : owner'[t] = owner[t]
          BY <2>1
    <2>5. WindowsAreTracked'
          BY <2>1, <2>3, <2>4
    <2>6. PublishedForOwner'
          BY <2>1, <2>3, <2>4
    <2> QED
        BY <2>1, <2>2, <2>3, <2>5, <2>6
  <1>11. ASSUME NEW s \in Symbols, ForgetWindow(s) PROVE CnInv'
    <2>1. /\ pool.step = "forget" /\ s \in pool.at /\ ~Mastered(s)
          /\ window' = [window EXCEPT ![s] = 0]
          /\ pool' = [pool EXCEPT !.step = "remove", !.at = {}]
          /\ UNCHANGED <<closed, targets, owner, created, settled, cache, poll, reconciles,
                         cnFaults>>
          BY <1>11 DEF ForgetWindow
    <2>2. CnTypeOK'
      <3>1. window' \in [Symbols -> Bars]
            BY <2>1
      <3>2. pool' \in [step : {"idle", "remove", "forget", "add", "read"}, wanted : SUBSET Symbols,
                       at : SUBSET Symbols, cached : Bars]
            BY <2>1
      <3> QED BY <2>1, <3>1, <3>2
    <2>3. pool'.step = "remove"
          BY <2>1
    <2>4. pool.at = {s} /\ window'[s] = 0 /\ \A t \in Symbols \ {s} : window'[t] = window[t]
          BY <2>1
    <2>5. WindowsAreTracked'
          BY <2>1, <2>4
    <2>6. PublishedForOwner'
          BY <2>1, <2>4
    <2> QED
        BY <2>1, <2>2, <2>3, <2>5, <2>6
  <1>12. ASSUME NEW s \in Symbols, ReadCache(s) PROVE CnInv'
        BY <1>12 DEF ReadCache
  <1>13. ASSUME NEW s \in Symbols, AddState(s) PROVE CnInv'
    <2>1. /\ pool.step = "read" /\ s \in pool.at /\ created' = created + 1
          /\ owner' = [owner EXCEPT ![s] = created + 1]
          /\ window' = IF pool.cached # 0 THEN [window EXCEPT ![s] = pool.cached] ELSE window
          /\ pool' = [pool EXCEPT !.step = "add", !.at = {}, !.cached = 0]
          /\ UNCHANGED <<closed, targets, settled, cache, poll, reconciles, cnFaults>>
          BY <1>13 DEF AddState
    <2>2. /\ 0 .. created \subseteq 0 .. created' /\ created + 1 \in 0 .. created'
          /\ created' \in Nat /\ created + 1 # 0
          BY <2>1
    <2>3. owner' \in [Symbols -> 0 .. created'] /\ window' \in [Symbols -> Bars]
          BY <2>1, <2>2
    <2>4. poll'.owners \in [Symbols -> 0 .. created']
          BY <2>1, <2>2
    <2>5. CnTypeOK'
      <3>1. poll' \in [step : {"idle", "treat", "publish", "finish"},
                       owners : [Symbols -> 0..created'], active : BOOLEAN, expected : Bars,
                       at : SUBSET Symbols, got : Bars, saved : BOOLEAN]
            BY <2>1, <2>4
      <3> QED BY <2>1, <2>2, <2>3, <3>1
    <2>6. pool'.step = "add" /\ pool'.at = {}
          BY <2>1
    <2>7. owner'[s] # 0 /\ \A t \in Symbols \ {s} : owner'[t] = owner[t] /\ window'[t] = window[t]
          BY <2>1, <2>2
    <2>8. ~Mastered(s)
          (* The poll's state object for it would be none. *)
          BY <2>1
    <2>9. WindowsAreTracked'
          BY <2>1, <2>7
    <2>10. PublishedForOwner'
           BY <2>1, <2>7, <2>8
    <2> QED
        BY <2>1, <2>5, <2>6, <2>9, <2>10
  <1>14. ASSUME NEW s \in Symbols, KeysExpire(s) PROVE CnInv'
        BY <1>14 DEF KeysExpire
  <1>15. ASSUME NEW s \in Symbols, NEW got \in 0 .. LastBar, ReplaceWindow(s, got)
         PROVE  CnInv'
         BY <1>15 DEF ReplaceWindow
  <1>16. CASE UNCHANGED cnVars
         BY <1>16 DEF cnVars
  <1> QED
      BY <1>1, <1>2, <1>3, <1>4, <1>5, <1>6, <1>7, <1>8, <1>9, <1>10, <1>11, <1>12, <1>13,
         <1>14, <1>15, <1>16 DEF CnNext

(* cn_feed.py: whatever the pool and the poll do at the same time, a       *)
(* stored window is of a tracked symbol, or one whose removal is under     *)
(* way.                                                                    *)
THEOREM WindowsOwned == CnSpec => []WindowsAreOwned
  <1>1. CnInv => WindowsAreOwned
        BY DEF CnInv
  <1> QED BY CnStarts, CnKept, <1>1, PTL DEF CnSpec

-----------------------------------------------------------------------------
(* NoiseControl                                                            *)

(* A reservation belongs to a sender at work, from the start of its send   *)
(* and for InFlight.                                                       *)
ReservedBy(p, k) == Uses(p, k) /\ holds[k].until = since[p] + InFlight

NoiseInv ==
    /\ NoiseTypeOK /\ OneInFlight
    /\ \A p \in Senders : since[p] <= now /\ (untried[p] # {} => sending[p] # Nothing)
    /\ \A k \in Keys : holds[k].token # Nobody => ReservedBy(holds[k].token, k)
    (* Who is not overdue still holds the keys it uses.                    *)
    /\ \A p \in Senders, k \in Keys :
         Uses(p, k) => holds[k].token = p \/ since[p] + InFlight <= now
    (* What was sent is in the history, and so is what closed a key.       *)
    /\ \A p \in Senders, k \in Keys :
         Uses(p, k) /\ sent[p] => \E t \in 0 .. now : <<k, t>> \in pushes
    /\ \A k \in Keys : marks[k] > now => \E t \in 0 .. now : <<k, t>> \in pushes

LEMMA KeysAndLengths ==
    /\ \A m \in Messages : KeysOf(m) \subseteq Keys
    /\ \A k : Length(k) \in Nat
  BY NoiseAssumption DEF KeysOf, Keys, DedupKeys, CooldownKeys, Length

LEMMA NoiseStarts == NoiseInit => NoiseInv
  BY NoiseAssumption, NobodyAssumption
  DEF NoiseInit, NoiseInv, NoiseTypeOK, OneInFlight, Uses, Free

(* Dropping what has expired and giving back what is one's own takes       *)
(* nothing from the others.                                                *)
LEMMA LiveEntries ==
    ASSUME NoiseInv
    PROVE  /\ LiveHolds \in [Keys -> [until : Nat, token : Senders \cup {Nobody}]]
           /\ LiveMarks \in [Keys -> Nat]
           /\ \A k \in Keys : LiveHolds[k] = Free \/ LiveHolds[k] = holds[k]
           /\ \A k \in Keys : LiveHolds[k] = holds[k] \/ holds[k].until <= now
           /\ \A k \in Keys : LiveMarks[k] = 0 \/ LiveMarks[k] = marks[k]
  BY DEF NoiseInv, NoiseTypeOK, LiveHolds, LiveMarks, Free

LEMMA Returned ==
    ASSUME NoiseInv, NEW p \in Senders, NEW table, table \in {holds, LiveHolds}
    PROVE  /\ GivenBack(p, table) \in [Keys -> [until : Nat, token : Senders \cup {Nobody}]]
           /\ \A k \in Keys : GivenBack(p, table)[k].token # p
           /\ \A k \in Keys : GivenBack(p, table)[k].token # Nobody =>
                                GivenBack(p, table)[k] = holds[k]
           /\ \A k \in Keys : \/ GivenBack(p, table)[k].token = holds[k].token
                              \/ holds[k].token = p \/ holds[k].until <= now
  <1>1. table \in [Keys -> [until : Nat, token : Senders \cup {Nobody}]]
        BY LiveEntries DEF NoiseInv, NoiseTypeOK
  <1>2. \A k \in Keys : table[k] = Free \/ table[k] = holds[k]
        BY LiveEntries
  <1>3. \A k \in Keys : table[k] = holds[k] \/ holds[k].until <= now
        BY LiveEntries
  <1>4. Free \in [until : Nat, token : Senders \cup {Nobody}] /\ Free.token = Nobody /\ p # Nobody
        BY NobodyAssumption DEF Free
  <1> QED BY <1>1, <1>2, <1>3, <1>4 DEF GivenBack

(* A sender whose send is over, or that gave up, no longer uses its keys.  *)
LEMMA SendEnds ==
    ASSUME NoiseInv, NEW p \in Senders, NEW table, table \in {holds, LiveHolds},
           holds' = GivenBack(p, table), sending' = [sending EXCEPT ![p] = Nothing],
           UNCHANGED <<now, since, untried, sent, pushes>>, untried[p] = {}, marks' \in [Keys -> Nat],
           \A k \in Keys : marks'[k] > now => \E t \in 0 .. now : <<k, t>> \in pushes
    PROVE  NoiseInv'
  <1> USE DEF NoiseInv, NoiseTypeOK
  <1>1. NoiseTypeOK'
        BY Returned
  <1>2. \A q \in Senders, k \in Keys : Uses(q, k)' <=> Uses(q, k) /\ q # p
        BY DEF Uses
  <1>3. OneInFlight'
        BY <1>2 DEF OneInFlight
  <1>4. ASSUME NEW k \in Keys, holds'[k].token # Nobody
        PROVE  ReservedBy(holds[k].token, k)'
    <2>1. holds'[k] = holds[k] /\ holds[k].token # p
          BY <1>4, Returned
    <2>2. holds[k].token \in Senders /\ ReservedBy(holds[k].token, k)
          BY <1>4, <2>1
    <2> QED BY <1>2, <2>1, <2>2 DEF ReservedBy
  <1>5. ASSUME NEW q \in Senders, NEW k \in Keys, Uses(q, k)'
        PROVE  holds'[k].token = q \/ since'[q] + InFlight <= now'
    <2>1. Uses(q, k) /\ q # p
          BY <1>2, <1>5
    <2>2. CASE holds[k].token = q /\ ~(since[q] + InFlight <= now)
      <3>1. holds[k].until = since[q] + InFlight
            BY <2>2, NobodyAssumption DEF ReservedBy
      <3> QED BY <2>1, <2>2, <3>1, Returned
    <2> QED BY <2>1, <2>2
  <1>6. \A q \in Senders, k \in Keys :
          Uses(q, k)' /\ sent'[q] => \E t \in 0 .. now : <<k, t>> \in pushes
        BY <1>2
  <1> QED BY <1>1, <1>3, <1>4, <1>5, <1>6

LEMMA EvaluateKeeps == ASSUME NoiseInv, NEW p \in Senders, NEW m \in Messages, Evaluate(p, m)
                       PROVE  NoiseInv'
  <1> USE NoiseAssumption DEF NoiseInv, NoiseTypeOK
  <1>1. marks' = LiveMarks /\ sending[p] = Nothing /\ UNCHANGED <<now, pushes>>
        BY DEF Evaluate
  <1>2. \A k \in Keys : marks'[k] > now' => \E t \in 0 .. now' : <<k, t>> \in pushes'
    <2>1. \A k \in Keys : marks'[k] > now => marks'[k] = marks[k]
          BY <1>1, LiveEntries
    <2> QED BY <1>1, <2>1
  <1>3. CASE \E k \in KeysOf(m) : Closed(k)
    <2>1. holds' = LiveHolds /\ UNCHANGED <<sending, since, untried, sent>>
          BY <1>3 DEF Evaluate
    <2>2. NoiseTypeOK'
          BY <1>1, <2>1, LiveEntries
    <2>3. \A q, k : Uses(q, k)' <=> Uses(q, k)
          BY <2>1 DEF Uses
    <2>4. \A k \in Keys : holds'[k].token # Nobody => holds'[k] = holds[k]
          BY <2>1, LiveEntries DEF Free
    <2>5. \A k \in Keys : holds'[k].token # Nobody => ReservedBy(holds[k].token, k)'
          BY <2>1, <2>3, <2>4 DEF ReservedBy
    <2>6. ASSUME NEW q \in Senders, NEW k \in Keys, Uses(q, k), ~(since[q] + InFlight <= now)
          PROVE  holds'[k].token = q
      <3>1. holds[k].token = q /\ holds[k].until = since[q] + InFlight
            BY <2>6, NobodyAssumption DEF ReservedBy
      <3> QED BY <2>1, <2>6, <3>1, LiveEntries
    <2>7. OneInFlight'
          BY <2>1, <2>3 DEF OneInFlight
    <2> QED BY <1>1, <1>2, <2>1, <2>2, <2>3, <2>4, <2>5, <2>6, <2>7
  <1>4. CASE ~\E k \in KeysOf(m) : Closed(k)
    <2> DEFINE used(k) == k \in KeysOf(m) /\ Length(k) > 0
    <2>1. /\ holds' = [k \in Keys |-> IF used(k) THEN [until |-> now + InFlight, token |-> p]
                                      ELSE LiveHolds[k]]
          /\ sending' = [sending EXCEPT ![p] = m] /\ since' = [since EXCEPT ![p] = now]
          /\ untried' = [untried EXCEPT ![p] = Channels] /\ sent' = [sent EXCEPT ![p] = FALSE]
          BY <1>4 DEF Evaluate
    <2>2. \A k \in KeysOf(m) : used(k) => holds[k].until <= now
          BY <1>4, KeysAndLengths DEF Closed
    <2>3. m # Nothing
          BY NobodyAssumption
    <2>4. /\ \A k \in Keys : Uses(p, k)' <=> used(k)
          /\ \A q \in Senders \ {p}, k \in Keys : Uses(q, k)' <=> Uses(q, k)
          /\ \A k \in Keys : ~Uses(p, k)
          BY <1>1, <2>1, <2>3 DEF Uses
    <2> HIDE DEF used
    <2>5. NoiseTypeOK'
          BY <1>1, <2>1, LiveEntries
    <2>6. /\ since'[p] = now /\ \A q \in Senders \ {p} : since'[q] = since[q]
          /\ ~sent'[p] /\ \A q \in Senders \ {p} : sent'[q] = sent[q]
          BY <2>1
    (* Whoever else uses one of its keys is overdue.                       *)
    <2>7. ASSUME NEW q \in Senders \ {p}, NEW k \in Keys, Uses(q, k), used(k)
          PROVE  since[q] + InFlight <= now
      <3>1. holds[k].until <= now
            BY <2>2, <2>7 DEF used
      <3> QED BY <2>7, <3>1, NobodyAssumption DEF ReservedBy
    <2>8. OneInFlight'
      <3> SUFFICES ASSUME NEW q \in Senders, NEW r \in Senders, NEW k \in Keys,
                          q # r, Uses(q, k)', Uses(r, k)'
                   PROVE  since'[r] >= since'[q] + InFlight \/ since'[q] >= since'[r] + InFlight
          BY DEF OneInFlight
      <3>1. CASE q = p
            BY <2>4, <2>6, <2>7, <3>1
      <3>2. CASE r = p
            BY <2>4, <2>6, <2>7, <3>2
      <3>3. CASE q # p /\ r # p
            BY <2>4, <2>6, <3>3 DEF OneInFlight
      <3> QED BY <3>1, <3>2, <3>3
    <2>9. \A q \in Senders : since'[q] <= now'
          BY <1>1, <2>6
    <2>10. ASSUME NEW k \in Keys, holds'[k].token # Nobody
           PROVE  ReservedBy(holds[k].token, k)'
      <3>1. CASE used(k)
        <4>1. holds'[k] = [until |-> now + InFlight, token |-> p]
              BY <2>1, <3>1
        <4>2. holds'[k].until = now + InFlight /\ holds'[k].token = p
              BY <4>1
        <4> QED BY <2>4, <2>6, <3>1, <4>2 DEF ReservedBy
      <3>2. CASE ~used(k)
        <4>1. holds'[k] = holds[k] /\ holds[k].token \in Senders
              BY <2>1, <2>10, <3>2, LiveEntries DEF Free
        <4>2. ReservedBy(holds[k].token, k) /\ holds[k].token # p
              BY <2>4, <2>10, <4>1 DEF ReservedBy
        <4>3. Uses(holds[k].token, k)' /\ since'[holds[k].token] = since[holds[k].token]
              BY <2>4, <2>6, <4>1, <4>2 DEF ReservedBy
        <4>4. holds'[k].until = since'[holds[k].token] + InFlight
              BY <4>1, <4>2, <4>3 DEF ReservedBy
        <4> QED BY <4>1, <4>3, <4>4 DEF ReservedBy
      <3> QED BY <3>1, <3>2
    <2>11. ASSUME NEW q \in Senders, NEW k \in Keys, Uses(q, k)'
           PROVE  holds'[k].token = q \/ since'[q] + InFlight <= now'
      <3>1. CASE q = p
            BY <2>1, <2>4, <2>11, <3>1
      <3>2. CASE q # p /\ used(k)
            BY <1>1, <2>4, <2>6, <2>7, <2>11, <3>2
      <3>3. CASE q # p /\ ~used(k) /\ ~(since[q] + InFlight <= now)
        <4>1. Uses(q, k)
              BY <2>4, <2>11, <3>3
        <4>2. holds[k].token = q /\ holds[k].until = since[q] + InFlight
              BY <3>3, <4>1, NobodyAssumption DEF ReservedBy
        <4> QED BY <2>1, <3>3, <4>2, LiveEntries
      <3> QED BY <1>1, <2>6, <3>1, <3>2, <3>3
    <2>12. \A q \in Senders, k \in Keys :
             Uses(q, k)' /\ sent'[q] => \E t \in 0 .. now' : <<k, t>> \in pushes'
           BY <1>1, <2>4, <2>6
    <2>13. \A q \in Senders : untried'[q] # {} => sending'[q] # Nothing
           BY <2>1, <2>3
    <2> QED BY <1>2, <2>5, <2>8, <2>9, <2>10, <2>11, <2>12, <2>13
  <1> QED BY <1>3, <1>4

LEMMA NoiseKept == NoiseInv /\ [NoiseNext]_noiseVars => NoiseInv'
  <1> USE NoiseAssumption DEF NoiseInv, NoiseTypeOK
  <1> SUFFICES ASSUME NoiseInv, [NoiseNext]_noiseVars PROVE NoiseInv'
      OBVIOUS
  <1>1. CASE Tick
    <2>1. \A q, k : Uses(q, k)' <=> Uses(q, k)
          BY <1>1 DEF Tick, Uses
    <2>2. now' = now + 1 /\ now' \in 0 .. MaxTime
          /\ UNCHANGED <<marks, holds, sending, since, untried, sent, pushes>>
          BY <1>1 DEF Tick
    <2>3. NoiseTypeOK' /\ OneInFlight'
          BY <2>1, <2>2 DEF OneInFlight
    <2>4. \A k \in Keys : holds'[k].token # Nobody => ReservedBy(holds[k].token, k)'
          BY <2>1, <2>2 DEF ReservedBy
    <2>5. \A q \in Senders : since'[q] <= now' /\ (untried'[q] # {} => sending'[q] # Nothing)
          BY <2>2
    <2>6. \A q \in Senders, k \in Keys :
            Uses(q, k)' => holds'[k].token = q \/ since'[q] + InFlight <= now'
          BY <2>1, <2>2
    <2>7. 0 .. now \subseteq 0 .. now' /\ \A k \in Keys : marks'[k] > now' => marks[k] > now
          BY <2>2
    <2> QED BY <2>1, <2>2, <2>3, <2>4, <2>5, <2>6, <2>7
  <1>2. ASSUME NEW p \in Senders, NEW m \in Messages, Evaluate(p, m) PROVE NoiseInv'
        BY <1>2, EvaluateKeeps
  <1>3. ASSUME NEW p \in Senders, NEW c \in Channels, TryChannel(p, c) PROVE NoiseInv'
    <2>1. PICK took \in BOOLEAN :
            /\ sent' = [sent EXCEPT ![p] = @ \/ took]
            /\ pushes' = IF took THEN pushes \cup (KeysOf(sending[p]) \X {now}) ELSE pushes
          BY <1>3 DEF TryChannel
    <2>2. UNCHANGED <<now, marks, holds, sending, since>>
          BY <1>3 DEF TryChannel
    <2>3. sent' \in [Senders -> BOOLEAN] /\ (sent'[p] => sent[p] \/ took)
          /\ \A q \in Senders \ {p} : sent'[q] = sent[q]
          BY <2>1
    <2>4. \A q, k : Uses(q, k)' <=> Uses(q, k)
          BY <2>2 DEF Uses
    <2>5. pushes' \subseteq Keys \X (0 .. MaxTime) /\ pushes \subseteq pushes'
      <3>1. sending[p] \in Messages
            BY <1>3 DEF TryChannel
      <3> QED BY <2>1, <3>1, KeysAndLengths
    <2>6. untried' \in [Senders -> SUBSET Channels]
          /\ \A q \in Senders : untried'[q] # {} => untried[q] # {}
          BY <1>3 DEF TryChannel
    <2>7. ASSUME NEW q \in Senders, NEW k \in Keys, Uses(q, k), sent'[q]
          PROVE  \E t \in 0 .. now : <<k, t>> \in pushes'
      <3>1. CASE q = p /\ took
            BY <2>1, <2>7, <3>1 DEF Uses
      <3>2. CASE sent[q]
            BY <2>5, <2>7, <3>2
      <3> QED BY <2>3, <2>7, <3>1, <3>2
    <2> QED BY <2>2, <2>3, <2>4, <2>5, <2>6, <2>7 DEF OneInFlight, ReservedBy
  <1>4. ASSUME NEW p \in Senders, RenderingRaises(p) PROVE NoiseInv'
    <2>1. \A q, k : Uses(q, k)' <=> Uses(q, k)
          BY <1>4 DEF RenderingRaises, Uses
    <2> QED BY <1>4, <2>1 DEF RenderingRaises, OneInFlight, ReservedBy
  <1>5. ASSUME NEW p \in Senders, RecordSent(p) PROVE NoiseInv'
    <2>1. \A k \in Keys : Uses(p, k) => \E t \in 0 .. now : <<k, t>> \in pushes
          BY <1>5 DEF RecordSent
    <2>2. marks' = [k \in Keys |-> IF k \in KeysOf(sending[p]) /\ Length(k) > 0
                                   THEN now + Length(k) ELSE LiveMarks[k]]
          /\ sending[p] # Nothing
          BY <1>5 DEF RecordSent, Done
    <2>3. marks' \in [Keys -> Nat]
      <3>1. \A k \in Keys : now + Length(k) \in Nat /\ LiveMarks[k] \in Nat
            BY LiveEntries, KeysAndLengths
      <3> QED BY <2>2, <3>1
    <2>4. ASSUME NEW k \in Keys, marks'[k] > now
          PROVE  \E t \in 0 .. now : <<k, t>> \in pushes
      <3>1. CASE Uses(p, k)
            BY <2>1, <3>1
      <3>2. CASE ~Uses(p, k)
        <4>1. marks'[k] = LiveMarks[k]
              BY <2>2, <3>2 DEF Uses
        <4>2. marks[k] > now
              BY SMTT(60), <2>4, <4>1, LiveEntries
        <4> QED BY <4>2
      <3> QED BY <3>1, <3>2
    <2> QED BY <1>5, <2>3, <2>4, SendEnds DEF RecordSent, Done
  <1>6. ASSUME NEW p \in Senders, GiveBack(p) PROVE NoiseInv'
        BY <1>6, SendEnds DEF GiveBack, Done
  <1>7. CASE UNCHANGED noiseVars
    <2>1. \A q, k : Uses(q, k)' <=> Uses(q, k)
          BY <1>7 DEF noiseVars, Uses
    <2> QED BY <1>7, <2>1 DEF noiseVars, OneInFlight, ReservedBy
  <1> QED BY <1>1, <1>2, <1>3, <1>4, <1>5, <1>6, <1>7 DEF NoiseNext

(* A report is suppressed only by one that went out or is going out, for   *)
(* any senders, messages, channels and windows (NotificationNoiseControl). *)
THEOREM NoiseControlled == NoiseSpec => []NoiseIsControlled
  <1>1. NoiseInv => NoiseIsControlled
        BY DEF NoiseInv, NoiseIsControlled, MarksAreEarned, ReservedBy
  <1> QED BY NoiseStarts, NoiseKept, <1>1, PTL DEF NoiseSpec

-----------------------------------------------------------------------------
(* LLMClient                                                               *)

Named == {"cli", "api"}

(* Behind the provider of now lie exhausted ones; as long as there is no   *)
(* answer, all the provider of now has had is failures to be retried, and  *)
(* the answer kept back is the first of all texts.                         *)
LLMInv ==
    /\ LLMTypeOK /\ FallsBackInOrder
    /\ Len(calls) = Cardinality(CallsOf("cli")) + Cardinality(CallsOf("api"))
    /\ \A p \in Named : Cardinality(CallsOf(p)) <= LLMRetries + 1
    /\ \A i \in 1 .. Len(calls) :
         /\ calls[i].provider \in configured
         /\ \E j \in 1 .. turn : j <= 2 /\ calls[i].provider = order[j]
    /\ \A i \in 1 .. Len(calls) - 1 :
         calls[i].provider # calls[i + 1].provider =>
           \E j \in 1 .. turn - 1 : calls[i].provider = order[j]
    /\ \A p \in configured, j \in 1 .. turn - 1 : p = order[j] => Exhausted(p)
    /\ answer = "none" =>
         /\ \A i \in 1 .. Len(calls) : ~Good(Outcome(i)) /\ Outcome(i) # "fatal"
         /\ turn <= 2 => /\ Cardinality(CallsOf(order[turn])) <= LLMRetries
                         /\ \A i \in CallsOf(order[turn]) : Outcome(i) = "transient"
         /\ IF unverified = "none" THEN \A i \in 1 .. Len(calls) : Outcome(i) \notin Texts
            ELSE \E i \in 1 .. Len(calls) :
                   /\ Outcome(i) \in Texts /\ calls[i].provider = unverified
                   /\ \A j \in 1 .. Len(calls) : Outcome(j) \in Texts => i <= j

LEMMA TwoProviders ==
    ASSUME order \in Orders
    PROVE  /\ Len(order) = 2 /\ order[1] \in Named /\ order[2] \in Named /\ order[1] # order[2]
           /\ Named = {order[1], order[2]}
  BY DEF Orders, Named

LEMMA CallsAreFinite ==
    ASSUME calls \in Seq(Call), NEW p
    PROVE  /\ IsFiniteSet(CallsOf(p)) /\ Cardinality(CallsOf(p)) \in Nat
           /\ CallsOf(p) \subseteq 1 .. Len(calls)
  <1>1. IsFiniteSet(1 .. Len(calls))
        BY FS_Interval
  <1> QED BY <1>1, FS_Subset, FS_CardinalityType DEF CallsOf

LEMMA LLMStarts == LLMInit => LLMInv
  <1> SUFFICES ASSUME LLMInit PROVE LLMInv
      OBVIOUS
  <1>1. calls = <<>> /\ turn = 1 /\ unverified = "none" /\ order \in Orders
        /\ configured \subseteq Backends /\ prefer \in BOOLEAN
        /\ answer = IF configured = {} THEN "failed" ELSE "none"
        BY DEF LLMInit
  <1>2. \A p : CallsOf(p) = {} /\ Cardinality(CallsOf(p)) = 0
        BY <1>1, FS_EmptySet DEF CallsOf
  <1>3. LLMTypeOK
        BY <1>1, LLMAssumption, TwoProviders DEF LLMTypeOK
  <1>4. FallsBackInOrder
        BY <1>1, LLMAssumption DEF FallsBackInOrder
  <1> QED BY <1>1, <1>2, <1>3, <1>4, LLMAssumption DEF LLMInv

(* One more call, of p.                                                    *)
LEMMA OneMoreCall ==
    ASSUME calls \in Seq(Call), NEW p \in Backends, NEW outcome \in Outcomes,
           calls' = Append(calls, [provider |-> p, outcome |-> outcome])
    PROVE  /\ calls' \in Seq(Call) /\ Len(calls') = Len(calls) + 1
           /\ \A i \in 1 .. Len(calls) : calls'[i] = calls[i]
           /\ calls'[Len(calls) + 1].provider = p /\ calls'[Len(calls) + 1].outcome = outcome
           /\ CallsOf(p)' = CallsOf(p) \cup {Len(calls) + 1}
           /\ Cardinality(CallsOf(p))' = Cardinality(CallsOf(p)) + 1
           /\ \A q : q # p => CallsOf(q)' = CallsOf(q)
           /\ \A q : q # p /\ Exhausted(q) => Exhausted(q)'
  <1>1. /\ calls' \in Seq(Call) /\ Len(calls') = Len(calls) + 1
        /\ \A i \in 1 .. Len(calls) : calls'[i] = calls[i]
        /\ calls'[Len(calls) + 1] = [provider |-> p, outcome |-> outcome]
        BY DEF Call
  <1>2. /\ calls'[Len(calls) + 1].provider = p /\ calls'[Len(calls) + 1].outcome = outcome
        BY <1>1
  <1>3. CallsOf(p)' = CallsOf(p) \cup {Len(calls) + 1}
        BY <1>1, <1>2 DEF CallsOf
  <1>4. Cardinality(CallsOf(p) \cup {Len(calls) + 1}) = Cardinality(CallsOf(p)) + 1
    <2>1. Len(calls) + 1 \notin CallsOf(p)
          BY CallsAreFinite
    <2> QED BY <2>1, CallsAreFinite, FS_AddElement
  <1>5. \A q : q # p => CallsOf(q)' = CallsOf(q)
        BY <1>1, <1>2 DEF CallsOf
  <1>6. ASSUME NEW q, q # p, Exhausted(q) PROVE Exhausted(q)'
        BY <1>1, <1>5, <1>6, CallsAreFinite DEF Exhausted, Outcome
  <1> QED BY <1>1, <1>2, <1>3, <1>4, <1>5, <1>6

LEMMA TryKeeps == ASSUME LLMInv, TryProvider PROVE LLMInv'
  <1>0. /\ order \in Orders /\ configured \subseteq Backends /\ turn \in 1 .. Len(order) + 1
        /\ calls \in Seq(Call) /\ Len(calls) \in Nat /\ prefer \in BOOLEAN
        /\ unverified \in Backends \cup {"none"} /\ Backends \subseteq Named
        /\ Len(order) = 2 /\ order[1] \in Named /\ order[2] \in Named /\ order[1] # order[2]
        BY LLMAssumption, TwoProviders DEF LLMInv, LLMTypeOK, Named
  <1> USE LLMAssumption DEF LLMInv
  <1>1. PICK p \in Backends, n \in Nat, outcome \in Outcomes :
          /\ p = order[turn] /\ n = Len(calls)
          /\ calls' = Append(calls, [provider |-> p, outcome |-> outcome])
          /\ answer' = IF Good(outcome) THEN p ELSE IF outcome = "fatal" THEN "failed" ELSE "none"
          /\ unverified' = IF outcome = "unverified" /\ prefer /\ unverified = "none"
                           THEN p ELSE unverified
          /\ turn' = IF Good(outcome) \/ outcome = "fatal" \/ Again(p, outcome)
                     THEN turn ELSE turn + 1
    <2>1. order[turn] \in Backends /\ Len(calls) \in Nat
          BY <1>0 DEF TryProvider
    <2> QED BY <2>1 DEF TryProvider
  <1>2. /\ answer = "none" /\ turn \in {1, 2} /\ p \in configured /\ p \in Named
        /\ UNCHANGED <<order, configured, prefer>>
    <2>1. answer = "none" /\ turn <= Len(order) /\ p \in configured
          /\ UNCHANGED <<order, configured, prefer>>
          BY <1>1 DEF TryProvider, Trying
    <2>2. turn \in {1, 2}
          BY <1>0, <2>1
    <2> QED BY <1>0, <2>1, <2>2
  <1>4. /\ calls' \in Seq(Call) /\ Len(calls') = n + 1
        /\ \A i \in 1 .. n : calls'[i] = calls[i]
        /\ calls'[n + 1].provider = p /\ calls'[n + 1].outcome = outcome
        /\ CallsOf(p)' = CallsOf(p) \cup {n + 1}
        /\ Cardinality(CallsOf(p))' = Cardinality(CallsOf(p)) + 1
        /\ \A q : q # p => CallsOf(q)' = CallsOf(q)
        /\ \A q : q # p /\ Exhausted(q) => Exhausted(q)'
        BY <1>0, <1>1, <1>2, OneMoreCall
  <1>5. /\ \A i \in 1 .. n : Outcome(i)' = Outcome(i)
        /\ Outcome(n + 1)' = outcome /\ \A o : Good(o)' <=> Good(o)
        BY <1>1, <1>2, <1>4 DEF Outcome, Good
  <1>6. /\ Cardinality(CallsOf(p)) <= LLMRetries /\ Cardinality(CallsOf(p)) \in Nat
        /\ \A i \in CallsOf(p) : Outcome(i) = "transient"
        /\ CallsOf(p) \subseteq 1 .. n
        BY <1>0, <1>1, <1>2, CallsAreFinite
  <1>7. turn' = turn \/ turn' = turn + 1
        BY <1>1
  <1>15. /\ 1 .. Len(calls') = 1 .. n \cup {n + 1} /\ 1 .. Len(calls') - 1 = 1 .. n
         /\ 1 .. turn \subseteq 1 .. turn' /\ 1 .. turn - 1 \subseteq 1 .. turn' - 1
         BY <1>0, <1>1, <1>4, <1>7
  <1>8. ~(Good(outcome) \/ outcome = "fatal") => answer' = "none"
        BY <1>1
  (* The provider is left only when it is exhausted.                       *)
  <1>9. turn' = turn + 1 => Exhausted(p)'
    <2> SUFFICES ASSUME turn' = turn + 1 PROVE Exhausted(p)'
        OBVIOUS
    <2>1. ~Good(outcome) /\ outcome # "fatal" /\ ~Again(p, outcome)
          BY <1>1, <1>2
    <2>2. CASE outcome # "transient"
          BY <1>1, <1>4, <1>5, <2>2 DEF Exhausted
    <2>3. CASE outcome = "transient"
      <3>1. Cardinality(CallsOf(p)) = LLMRetries
            BY <1>6, <2>1, <2>3 DEF Again
      <3> QED BY <1>1, <1>4, <3>1 DEF Exhausted
    <2> QED BY <2>2, <2>3
  <1>10. \A j \in 1 .. turn - 1 : order[j] # p
         BY <1>0, <1>1, <1>2
  <1>11. \A q \in configured', j \in 1 .. turn' - 1 : q = order'[j] => Exhausted(q)'
    <2> SUFFICES ASSUME NEW q \in configured, NEW j \in 1 .. turn' - 1, q = order[j]
                 PROVE  Exhausted(q)'
        BY <1>0, <1>1, <1>2
    <2>1. CASE j = turn
          BY <1>0, <1>1, <1>2, <1>7, <1>9, <2>1
    <2>2. CASE j # turn
      <3>1. j \in 1 .. turn - 1
            BY <1>0, <1>1, <1>2, <1>7, <2>2
      <3> QED BY <1>1, <1>4, <1>10, <3>1
    <2> QED BY <2>1, <2>2
  <1>12. \A i \in 1 .. Len(calls') :
           /\ calls'[i].provider \in configured'
           /\ \E j \in 1 .. turn' : j <= 2 /\ calls'[i].provider = order'[j]
    <2> TAKE i \in 1 .. Len(calls')
    <2>1. CASE i = n + 1
      <3>1. turn \in 1 .. turn' /\ turn <= 2 /\ calls'[i].provider = order'[turn]
            BY <1>0, <1>1, <1>2, <1>4, <1>7, <2>1
      <3> QED BY <1>1, <1>2, <1>4, <2>1, <3>1
    <2>2. CASE i \in 1 .. n
          BY SMTT(60), <1>0, <1>1, <1>2, <1>4, <1>7, <2>2
    <2> QED BY <1>15, <2>1, <2>2
  (* Where the provider changes, the earlier one is behind.                *)
  <1>13. \A i \in 1 .. Len(calls') - 1 :
           calls'[i].provider # calls'[i + 1].provider =>
             \E j \in 1 .. turn' - 1 : calls'[i].provider = order'[j]
    <2> SUFFICES ASSUME NEW i \in 1 .. n, calls'[i].provider # calls'[i + 1].provider
                 PROVE  \E j \in 1 .. turn - 1 : calls'[i].provider = order[j]
        BY <1>2, <1>15
    <2>1. CASE i = n
      <3>1. PICK j \in 1 .. turn : j <= 2 /\ calls[n].provider = order[j]
            BY <1>1, <2>1
      <3>2. calls[n].provider # p
            BY <1>1, <1>4, <2>1
      <3>3. j # turn
            BY <1>1, <3>1, <3>2
      <3> QED BY <1>0, <1>1, <1>2, <1>4, <2>1, <3>1, <3>3
    <2>2. CASE i # n
      <3>1. i \in 1 .. n - 1 /\ i + 1 \in 1 .. n
            BY <1>1, <2>2
      <3> QED BY ZenonT(60), <1>1, <1>4, <3>1
    <2> QED BY <2>1, <2>2
  <1>14. \A i \in 1 .. Len(calls') - 1 :
           /\ ~Good(Outcome(i))' /\ Outcome(i)' # "fatal"
           /\ IF calls'[i].provider # calls'[i + 1].provider THEN Exhausted(calls[i].provider)'
              ELSE Outcome(i)' = "transient"
    <2> SUFFICES ASSUME NEW i \in 1 .. n
                 PROVE  /\ ~Good(Outcome(i))' /\ Outcome(i)' # "fatal"
                        /\ IF calls'[i].provider # calls'[i + 1].provider
                           THEN Exhausted(calls[i].provider)' ELSE Outcome(i)' = "transient"
        BY SMTT(60), <1>1, <1>4
    <2>1. ~Good(Outcome(i))' /\ Outcome(i)' # "fatal"
          BY <1>0, <1>1, <1>2, <1>5
    <2>2. CASE calls'[i].provider # calls'[i + 1].provider
      <3>1. PICK j \in 1 .. turn' - 1 : calls'[i].provider = order'[j]
            BY <1>13, <1>15, <2>2
      <3>2. PICK q \in configured : q = calls'[i].provider
            BY <1>1, <1>4
      <3>3. Exhausted(q)'
            BY <1>2, <1>11, <3>1, <3>2
      <3> QED BY ZenonT(60), <2>1, <2>2, <3>2, <3>3 DEF Exhausted, CallsOf, Outcome
    <2>3. CASE calls'[i].provider = calls'[i + 1].provider /\ i = n
      <3>1. i \in CallsOf(p)
            BY <1>1, <1>4, <2>3 DEF CallsOf
      <3> QED BY <1>5, <1>6, <2>1, <2>3, <3>1
    <2>4. CASE calls'[i].provider = calls'[i + 1].provider /\ i # n
      <3>1. i \in 1 .. n - 1 /\ i + 1 \in 1 .. n
            BY <1>1, <2>4
      <3>2. Outcome(i) = "transient"
            BY <1>1, <1>4, <2>4, <3>1 DEF FallsBackInOrder
      <3> QED BY <1>5, <2>1, <2>4, <3>2
    <2> QED BY <2>1, <2>2, <2>3, <2>4
  <1>16. /\ Len(calls') = Cardinality(CallsOf("cli"))' + Cardinality(CallsOf("api"))'
         /\ \A q \in Named : Cardinality(CallsOf(q))' \in 0 .. LLMRetries + 1
    <2>1. CallsOf("cli")' = CallsOf("cli") \/ p = "cli"
          BY <1>4
    <2>2. CallsOf("api")' = CallsOf("api") \/ p = "api"
          BY <1>4
    <2>3. /\ Cardinality(CallsOf("cli")) \in Nat /\ Cardinality(CallsOf("api")) \in Nat
          /\ Cardinality(CallsOf("cli")) <= LLMRetries + 1
          /\ Cardinality(CallsOf("api")) <= LLMRetries + 1
          BY <1>0, CallsAreFinite DEF Named
    <2>4. CASE p = "cli"
      <3>1. Cardinality(CallsOf("cli"))' = Cardinality(CallsOf("cli")) + 1
            BY <1>4, <2>4
      <3>2. Cardinality(CallsOf("api"))' = Cardinality(CallsOf("api"))
            BY <2>2, <2>4
      <3> QED BY <1>1, <1>4, <1>6, <2>3, <2>4, <3>1, <3>2 DEF Named
    <2>5. CASE p = "api"
      <3>1. Cardinality(CallsOf("api"))' = Cardinality(CallsOf("api")) + 1
            BY <1>4, <2>5
      <3>2. Cardinality(CallsOf("cli"))' = Cardinality(CallsOf("cli"))
            BY <2>1, <2>5
      <3> QED BY <1>1, <1>4, <1>6, <2>3, <2>5, <3>1, <3>2 DEF Named
    <2> QED BY <1>2, <2>4, <2>5 DEF Named
  <1>17. LLMTypeOK'
    <2>1. Len(calls') <= 2 * (LLMRetries + 1)
      <3>1. Cardinality(CallsOf("cli"))' \in 0 .. LLMRetries + 1
            /\ Cardinality(CallsOf("api"))' \in 0 .. LLMRetries + 1
            BY <1>16 DEF Named
      <3> QED BY <1>16, <3>1
    <2>2. turn' \in 1 .. Len(order') + 1
      <3>1. turn' \in 1 .. 3
            BY <1>2, <1>7
      <3>2. order' = order
            BY <1>2
      <3>3. Len(order) = 2
            BY <1>0
      <3> QED BY <3>1, <3>2, <3>3
    <2>3. unverified' \in Backends \cup {"none"} /\ answer' \in Backends \cup {"none", "failed"}
          BY <1>0, <1>1
    <2> QED BY <1>0, <1>2, <1>4, <2>1, <2>2, <2>3 DEF LLMTypeOK
  <1>18. ASSUME answer' = "none"
         PROVE  /\ \A i \in 1 .. Len(calls') : ~Good(Outcome(i))' /\ Outcome(i)' # "fatal"
                /\ turn' <= 2 => /\ Cardinality(CallsOf(order[turn]))' <= LLMRetries
                                 /\ \A i \in CallsOf(order[turn])' : Outcome(i)' = "transient"
                /\ IF unverified' = "none" THEN \A i \in 1 .. Len(calls') : Outcome(i)' \notin Texts
                   ELSE \E i \in 1 .. Len(calls') :
                          /\ Outcome(i)' \in Texts /\ calls'[i].provider = unverified'
                          /\ \A j \in 1 .. Len(calls') : Outcome(j)' \in Texts => i <= j
    <2>1. p # "none" /\ p # "failed"
          BY <1>0 DEF Named
    <2>2. ~Good(outcome) /\ outcome # "fatal"
          BY <1>1, <1>18, <2>1
    <2>3. \A i \in 1 .. Len(calls') : ~Good(Outcome(i))' /\ Outcome(i)' # "fatal"
          BY SMTT(60), <1>1, <1>2, <1>5, <1>15, <2>2
    <2>4. ASSUME turn' <= 2
          PROVE  /\ Cardinality(CallsOf(order[turn]))' <= LLMRetries
                 /\ \A i \in CallsOf(order[turn])' : Outcome(i)' = "transient"
      <3>1. PICK q \in Named : q = order'[turn']
            BY <1>0, <1>2, <1>7, <2>4
      <3>2. /\ Cardinality(CallsOf(q))' <= LLMRetries
            /\ \A i \in CallsOf(q)' : Outcome(i)' = "transient"
        <4>1. CASE turn' = turn
          <5>1. q = p /\ Again(p, outcome)
                BY <1>0, <1>1, <1>2, <2>2, <3>1, <4>1
          <5>2. outcome = "transient" /\ Cardinality(CallsOf(p)) < LLMRetries
                BY <5>1 DEF Again
          <5>3. Cardinality(CallsOf(p))' <= LLMRetries
                BY <1>4, <1>6, <5>2
          <5>4. \A i \in CallsOf(p)' : Outcome(i)' = "transient"
                BY <1>4, <1>5, <1>6, <5>2
          <5> QED BY <5>1, <5>3, <5>4
        <4>2. CASE turn' = turn + 1
          (* Nothing has asked the next provider yet.                      *)
          <5>1. turn = 1 /\ q = order[2] /\ p = order[1]
                BY <1>0, <1>1, <1>2, <2>4, <3>1, <4>2
          <5>2. \A i \in 1 .. n : calls[i].provider = order[1]
                BY SMTT(60), <1>1, <5>1
          <5>3. CallsOf(q) = {} /\ q # p
                BY <1>0, <1>1, <5>1, <5>2 DEF CallsOf
          <5>4. CallsOf(q)' = {}
                BY <1>4, <5>3
          <5>5. Cardinality(CallsOf(q)') = 0
                BY <5>4, FS_EmptySet
          <5> QED BY <5>4, <5>5
        <4> QED BY <1>7, <4>1, <4>2
      <3> QED BY <3>1, <3>2 DEF CallsOf
    <2>5. CASE outcome = "unverified" /\ prefer /\ unverified = "none"
      <3>1. unverified' = p /\ \A i \in 1 .. n : Outcome(i) \notin Texts
            BY <1>1, <1>2, <2>5
      <3>2. \A i \in 1 .. Len(calls') : Outcome(i)' \in Texts => i = n + 1
            BY <1>5, <1>15, <3>1
      <3>3. n + 1 \in 1 .. Len(calls') /\ Outcome(n + 1)' \in Texts
            /\ calls'[n + 1].provider = p
            BY <1>1, <1>4, <1>5, <2>5 DEF Texts
      <3> QED BY <1>1, <2>1, <2>3, <2>4, <3>1, <3>2, <3>3
    <2>6. CASE ~(outcome = "unverified" /\ prefer /\ unverified = "none")
      <3>1. unverified' = unverified
            BY <1>1, <2>6
      <3>2. CASE unverified = "none"
        <4>1. outcome \notin Texts
              BY <2>2, <2>6, <3>2, <1>0 DEF Good, Texts
        <4>2. \A i \in 1 .. Len(calls') : Outcome(i)' \notin Texts
              BY <1>1, <1>2, <1>5, <1>15, <3>2, <4>1
        <4> QED BY <2>3, <2>4, <3>1, <3>2, <4>2
      <3>3. CASE unverified # "none"
        <4>1. PICK i \in 1 .. n :
                /\ Outcome(i) \in Texts /\ calls[i].provider = unverified
                /\ \A j \in 1 .. n : Outcome(j) \in Texts => i <= j
              BY <1>1, <1>2, <3>3
        <4>2. /\ i \in 1 .. Len(calls') /\ Outcome(i)' \in Texts
              /\ calls'[i].provider = unverified'
              BY <1>1, <1>4, <1>5, <1>15, <3>1, <4>1
        <4>3. \A j \in 1 .. Len(calls') : Outcome(j)' \in Texts => i <= j
              BY <1>1, <1>5, <1>15, <4>1
        <4> QED BY <2>3, <2>4, <3>1, <3>3, <4>2, <4>3
      <3> QED BY <3>2, <3>3
    <2> QED BY <2>5, <2>6
  <1>19. FallsBackInOrder'
    <2>1. p # "none" /\ p # "failed"
          BY <1>0 DEF Named
    <2>2. n + 1 \in 1 .. Len(calls') /\ n + 1 = Len(calls') /\ calls' # <<>>
          BY <1>1, <1>4
    <2>3. CASE Good(outcome)
      <3>1. answer' = p /\ Good(Outcome(n + 1))' /\ Outcome(n + 1)' \in Texts
            /\ calls'[n + 1].provider = p
            BY <1>1, <1>4, <1>5, <2>3 DEF Good, Texts
      <3> QED BY <1>14, <2>1, <2>2, <3>1 DEF FallsBackInOrder
    <2>4. CASE outcome = "fatal"
      <3>1. answer' = "failed" /\ Outcome(Len(calls))' = "fatal"
            BY <1>1, <1>5, <2>2, <2>4 DEF Good
      <3>2. "failed" \notin Backends
            BY <1>0 DEF Named
      <3> QED BY <1>2, <1>14, <2>2, <3>1, <3>2 DEF FallsBackInOrder
    <2>5. CASE ~Good(outcome) /\ outcome # "fatal"
      <3>1. answer' = "none" /\ "none" \notin Backends
            BY <1>0, <1>1, <2>5 DEF Named
      <3> QED BY <1>2, <1>14, <3>1 DEF FallsBackInOrder
    <2> QED BY <2>3, <2>4, <2>5
  <1> QED BY <1>11, <1>12, <1>13, <1>16, <1>17, <1>18, <1>19

LEMMA LLMKept == LLMInv /\ [LLMNext]_llmVars => LLMInv'
  <1> SUFFICES ASSUME LLMInv, [LLMNext]_llmVars PROVE LLMInv'
      OBVIOUS
  <1>0. /\ order \in Orders /\ configured \subseteq Backends /\ turn \in 1 .. 3
        /\ calls \in Seq(Call) /\ Len(calls) \in Nat
        /\ Len(order) = 2 /\ order[1] # order[2] /\ Named = {order[1], order[2]}
        /\ Backends \subseteq Named
    <2>1. order \in Orders /\ configured \subseteq Backends /\ turn \in 1 .. Len(order) + 1
          /\ calls \in Seq(Call) /\ Backends \subseteq Named
          BY LLMAssumption DEF LLMInv, LLMTypeOK, Named
    <2>2. Len(order) = 2 /\ order[1] # order[2] /\ Named = {order[1], order[2]}
          BY <2>1, TwoProviders
    <2> QED BY <2>1, <2>2
  <1>1. CASE SkipUnconfigured
    <2>1. /\ turn \in {1, 2} /\ order[turn] \notin configured /\ turn' = turn + 1 /\ answer = "none"
          /\ UNCHANGED <<order, configured, prefer, calls, unverified, answer>>
          BY <1>0, <1>1 DEF SkipUnconfigured, Trying
    <2>2. LLMTypeOK'
      <3>1. order' = order /\ turn' \in 1 .. Len(order) + 1
        <4>1. Len(order) = 2
              BY <1>0
        <4> QED BY <2>1, <4>1
      <3> QED BY <2>1, <3>1 DEF LLMInv, LLMTypeOK
    <2>3. /\ \A p : CallsOf(p)' = CallsOf(p) /\ (Exhausted(p)' <=> Exhausted(p))
          /\ \A i : Outcome(i)' = Outcome(i) /\ \A o : Good(o)' <=> Good(o)
          BY <2>1 DEF Good, Outcome, Exhausted, CallsOf
    <2>4. FallsBackInOrder'
          BY <2>1, <2>3 DEF LLMInv, FallsBackInOrder
    (* It is not configured, so nothing has asked it.                      *)
    <2>5. 1 .. turn \subseteq 1 .. turn' /\ 1 .. turn - 1 \subseteq 1 .. turn' - 1
          /\ \A j \in 1 .. turn' - 1 : j = turn \/ j \in 1 .. turn - 1
          BY <2>1
    <2>6. ASSUME turn' <= 2
          PROVE  CallsOf(order[turn])' = {}
      <3>1. PICK q : q = order'[turn']
            OBVIOUS
      <3>2. turn = 1 /\ q = order[2]
            BY <2>1, <2>6, <3>1
      <3>3. \A i \in 1 .. Len(calls) : calls[i].provider = order[1]
            BY <3>2 DEF LLMInv
      <3>4. CallsOf(q) = {}
            BY <1>0, <3>2, <3>3 DEF CallsOf
      <3> QED BY ZenonT(60), <2>3, <3>1, <3>4 DEF CallsOf
    <2>7. turn' <= 2 => /\ Cardinality(CallsOf(order[turn])') <= LLMRetries
                        /\ \A i \in CallsOf(order[turn])' : Outcome(i)' = "transient"
          BY <2>6, FS_EmptySet, LLMAssumption
    <2>8. \A p \in configured', j \in 1 .. turn' - 1 : p = order'[j] => Exhausted(p)'
          BY <2>1, <2>3, <2>5 DEF LLMInv
    <2>9. /\ \A i \in 1 .. Len(calls') :
               /\ calls'[i].provider \in configured'
               /\ \E j \in 1 .. turn' : j <= 2 /\ calls'[i].provider = order'[j]
          /\ \A i \in 1 .. Len(calls') - 1 :
               calls'[i].provider # calls'[i + 1].provider =>
                 \E j \in 1 .. turn' - 1 : calls'[i].provider = order'[j]
          BY <2>1, <2>5 DEF LLMInv
    <2>10. answer' = "none" =>
             /\ \A i \in 1 .. Len(calls') : ~Good(Outcome(i))' /\ Outcome(i)' # "fatal"
             /\ IF unverified' = "none" THEN \A i \in 1 .. Len(calls') : Outcome(i)' \notin Texts
                ELSE \E i \in 1 .. Len(calls') :
                       /\ Outcome(i)' \in Texts /\ calls'[i].provider = unverified'
                       /\ \A j \in 1 .. Len(calls') : Outcome(j)' \in Texts => i <= j
           BY <2>1, <2>3 DEF LLMInv, Good
    <2>11. /\ Len(calls') = Cardinality(CallsOf("cli"))' + Cardinality(CallsOf("api"))'
           /\ \A p \in Named : Cardinality(CallsOf(p))' <= LLMRetries + 1
           BY <2>1, <2>3 DEF LLMInv
    <2> QED BY <2>2, <2>4, <2>7, <2>8, <2>9, <2>10, <2>11 DEF LLMInv
  <1>2. CASE TryProvider
        BY <1>2, TryKeeps
  <1>3. CASE Conclude
    <2>1. /\ answer = "none" /\ turn > 2
          /\ answer' = IF unverified # "none" THEN unverified ELSE "failed"
          /\ UNCHANGED <<order, configured, prefer, turn, calls, unverified>>
          BY <1>0, <1>3 DEF Conclude
    <2>2. answer' # "none" /\ answer' \in Backends \cup {"failed"}
          BY <2>1 DEF LLMInv, LLMTypeOK
    <2>3. /\ \A p : CallsOf(p)' = CallsOf(p) /\ (Exhausted(p)' <=> Exhausted(p))
          /\ \A i : Outcome(i)' = Outcome(i) /\ \A o : Good(o)' <=> Good(o)
          BY <2>1 DEF Good, Outcome, Exhausted, CallsOf
    <2>4. LLMTypeOK'
          BY <2>1, <2>2 DEF LLMInv, LLMTypeOK
    (* Everyone has had a chance.                                          *)
    <2>5. \A p \in configured : Exhausted(p)
      <3> SUFFICES ASSUME NEW p \in configured PROVE Exhausted(p)
          OBVIOUS
      <3>1. PICK j \in 1 .. 2 : p = order[j]
            BY <1>0
      <3>2. j \in 1 .. turn - 1
            BY <1>0, <2>1
      <3> QED BY <3>1, <3>2 DEF LLMInv
    <2>6. FallsBackInOrder'
      <3>1. CASE unverified = "none"
        <4>1. answer' = "failed" /\ \A i \in 1 .. Len(calls) : Outcome(i) \notin Texts
              BY <2>1, <3>1 DEF LLMInv
        <4>2. "failed" \notin Backends
              BY <1>0 DEF Named
        <4> QED BY <2>1, <2>3, <2>5, <4>1, <4>2 DEF LLMInv, FallsBackInOrder
      <3>2. CASE unverified # "none"
        <4>1. PICK i \in 1 .. Len(calls) :
                /\ Outcome(i) \in Texts /\ calls[i].provider = unverified
                /\ \A j \in 1 .. Len(calls) : Outcome(j) \in Texts => i <= j
              BY <2>1, <3>2 DEF LLMInv
        <4>2. \A j \in 1 .. Len(calls) : ~Good(Outcome(j))
              BY <2>1 DEF LLMInv
        <4>3. answer' = unverified /\ unverified # "failed"
              BY <1>0, <2>1, <3>2 DEF LLMInv, LLMTypeOK, Named
        <4> QED BY <2>1, <2>3, <2>5, <4>1, <4>2, <4>3 DEF LLMInv, FallsBackInOrder
      <3> QED BY <3>1, <3>2
    <2> QED BY <2>1, <2>2, <2>3, <2>4, <2>6 DEF LLMInv
  <1>4. CASE UNCHANGED llmVars
    <2>1. /\ \A p : CallsOf(p)' = CallsOf(p) /\ (Exhausted(p)' <=> Exhausted(p))
          /\ \A i : Outcome(i)' = Outcome(i) /\ \A o : Good(o)' <=> Good(o)
          BY <1>4 DEF llmVars, Good, Outcome, Exhausted, CallsOf
    <2>2. FallsBackInOrder' /\ LLMTypeOK'
          BY <1>4, <2>1 DEF llmVars, LLMInv, FallsBackInOrder, LLMTypeOK
    <2> QED BY <1>4, <2>1, <2>2 DEF llmVars, LLMInv
  <1> QED BY <1>1, <1>2, <1>3, <1>4 DEF LLMNext

(* A request's answer, or its failure, is the one its calls lead to, for   *)
(* any number of retries (LLMClient.complete_text).                        *)
THEOREM FallbackInOrder == LLMSpec => []FallsBackInOrder
  <1>1. LLMInv => FallsBackInOrder
        BY DEF LLMInv
  <1> QED BY LLMStarts, LLMKept, <1>1, PTL DEF LLMSpec

-----------------------------------------------------------------------------
(* Previews                                                                *)

(* A viewer between its two selects shares the lock, so that the header it *)
(* has read is still the stored one.                                       *)
PreviewInv ==
    /\ PreviewTypeOK /\ OnePublication
    /\ \A g, h \in batch : g = h
    /\ \A p \in Publishers : publish[p].rows \cap publish[p].failures = {}
    /\ \A v \in Viewers :
         view[v].header # {} /\ ~view[v].done => v \in sharing /\ view[v].header \subseteq batch

LEMMA PreviewStarts == PreviewInit => PreviewInv
  <1> SUFFICES ASSUME PreviewInit PROVE PreviewInv
      OBVIOUS
  <1>1. Cardinality({}) = 0
        BY FS_EmptySet
  <1> QED
      BY <1>1, PreviewAssumption DEF PreviewInit, PreviewInv, PreviewTypeOK, OnePublication,
         NoPublication, NoView

(* What a publication stores fits, whether it merges or replaces.          *)
LEMMA PublicationFits ==
    ASSUME PreviewInv, NEW p \in Publishers, ~OlderPublication(p)
    PROVE  Fit([at |-> publish[p].at, failures |-> MergedFailures(p)],
               Kept(p) \cup {[stock |-> s, at |-> publish[p].at] : s \in publish[p].rows})
  <1> DEFINE h == [at |-> publish[p].at, failures |-> MergedFailures(p)]
             new == {[stock |-> s, at |-> publish[p].at] : s \in publish[p].rows}
  <1>1. /\ publish[p].at \in 0 .. LastTime /\ publish[p].rows \cap publish[p].failures = {}
        /\ h.at = publish[p].at /\ h.failures = MergedFailures(p)
        BY DEF PreviewInv, PreviewTypeOK
  <1>2. ASSUME NEW e \in new
        PROVE  e.at = publish[p].at /\ e.stock \in publish[p].rows /\ e.stock \notin h.failures
        BY <1>1, <1>2 DEF MergedFailures
  <1>3. ASSUME NEW e \in Kept(p)
        PROVE  /\ e.at <= publish[p].at /\ Dated(e.at) = Dated(publish[p].at)
               /\ e.stock \notin h.failures /\ e.stock \notin publish[p].rows
    <2>1. e \in entries /\ Merges(p) /\ e.stock \notin publish[p].rows \cup publish[p].failures
          BY <1>3 DEF Kept
    <2>2. PICK g \in batch : Dated(g.at) = Dated(publish[p].at)
          BY <2>1 DEF Merges
    <2>3. batch = {g} /\ g.at <= publish[p].at /\ g.at \in 0 .. LastTime /\ Fit(g, entries)
      <3>1. g.at \in 0 .. LastTime
            BY <2>2 DEF PreviewInv, PreviewTypeOK, Headers
      <3>2. g.at <= publish[p].at
            BY <1>1, <2>2, <3>1 DEF OlderPublication
      <3> QED BY <2>2, <3>1, <3>2 DEF PreviewInv, OnePublication
    <2>4. e.at <= g.at /\ Dated(e.at) = Dated(g.at) /\ e.stock \notin g.failures
          BY <2>1, <2>3 DEF Fit
    <2>5. e.at \in 0 .. LastTime
          BY <2>1 DEF PreviewInv, PreviewTypeOK, Entries
    <2>6. e.stock \notin MergedFailures(p)
          BY <2>1, <2>3, <2>4 DEF MergedFailures
    <2> QED BY <1>1, <2>1, <2>2, <2>3, <2>4, <2>5, <2>6
  <1>4. \A e, f \in Kept(p) : e.stock = f.stock => e = f
    <2> SUFFICES ASSUME NEW e \in Kept(p), NEW f \in Kept(p), e.stock = f.stock PROVE e = f
        OBVIOUS
    <2>1. e \in entries /\ f \in entries /\ \E g \in batch : TRUE
          BY DEF Kept, Merges
    <2> QED BY <2>1 DEF PreviewInv, OnePublication, Fit
  <1>5. \A e, f \in new : e.stock = f.stock => e = f
        OBVIOUS
  <1> HIDE DEF h, new
  <1>6. Fit(h, Kept(p) \cup new)
        BY <1>1, <1>2, <1>3, <1>4, <1>5 DEF Fit
  <1> QED BY <1>6 DEF h, new

LEMMA PreviewKept == PreviewInv /\ [PreviewNext]_previewVars => PreviewInv'
  <1> SUFFICES ASSUME PreviewInv, [PreviewNext]_previewVars PROVE PreviewInv'
      OBVIOUS
  <1> USE PreviewAssumption DEF PreviewInv, PreviewTypeOK, OnePublication
  <1>1. CASE PassTime
        BY <1>1 DEF PassTime, Fit
  <1>2. ASSUME NEW p \in Publishers, Prepare(p) PROVE PreviewInv'
    <2>1. PICK rows \in SUBSET Stocks, failures \in SUBSET Stocks, merge \in BOOLEAN :
            /\ rows \cap failures = {}
            /\ publish' = [publish EXCEPT ![p] = [busy |-> TRUE, at |-> time, rows |-> rows,
                                                  failures |-> failures, merge |-> merge]]
          BY <1>2 DEF Prepare
    <2>2. UNCHANGED <<time, batch, entries, view, sharing>>
          BY <1>2 DEF Prepare
    <2> QED BY <2>1, <2>2 DEF Fit
  <1>3. ASSUME NEW p \in Publishers, Publication(p) PROVE PreviewInv'
    <2>1. /\ publish' = [publish EXCEPT ![p] = NoPublication]
          /\ sharing = {} /\ UNCHANGED <<time, view, sharing>>
          BY <1>3 DEF Publication
    <2>2. /\ publish' \in [Publishers -> [busy : BOOLEAN, at : 0..LastTime, rows : SUBSET Stocks,
                                          failures : SUBSET Stocks, merge : BOOLEAN]]
          /\ \A q \in Publishers : publish'[q].rows \cap publish'[q].failures = {}
          BY <2>1 DEF NoPublication
    <2>3. CASE OlderPublication(p)
          BY <1>3, <2>1, <2>2, <2>3 DEF Publication, Fit
    <2>4. CASE ~OlderPublication(p)
      <3> DEFINE h == [at |-> publish[p].at, failures |-> MergedFailures(p)]
                 rows == Kept(p) \cup {[stock |-> s, at |-> publish[p].at] : s \in publish[p].rows}
      <3>1. batch' = {h} /\ entries' = rows
            BY <1>3, <2>4 DEF Publication
      <3>2. h \in Headers
            BY DEF Headers, MergedFailures
      <3>3. rows \subseteq Entries
            BY DEF Kept, Entries
      <3>4. Fit(h, rows)
            BY <2>4, PublicationFits
      <3> HIDE DEF h, rows
      <3>5. Cardinality({h}) = 1
            BY FS_Singleton
      <3>6. PreviewTypeOK'
            BY <2>1, <2>2, <3>1, <3>2, <3>3, <3>5
      <3>7. \A g \in batch' : Fit(g, entries)'
            BY <3>1, <3>4 DEF Fit
      <3>8. \A v \in Viewers : view'[v].done => \A g \in view'[v].header : Fit(g, view[v].rows)'
            BY <2>1 DEF Fit
      <3> QED BY <2>1, <2>2, <3>1, <3>6, <3>7, <3>8
    <2> QED BY <2>3, <2>4
  <1>4. ASSUME NEW p \in Publishers, AbandonPublication(p) PROVE PreviewInv'
        BY <1>4 DEF AbandonPublication, NoPublication, Fit
  <1>5. ASSUME NEW v \in Viewers, ReadHeader(v) PROVE PreviewInv'
        BY <1>5 DEF ReadHeader, NoView, Fit
  <1>6. ASSUME NEW v \in Viewers, ReadRows(v) PROVE PreviewInv'
        BY <1>6 DEF ReadRows, Fit
  <1>7. ASSUME NEW v \in Viewers, Answer(v) PROVE PreviewInv'
        BY <1>7 DEF Answer, NoView, Fit
  <1>8. CASE UNCHANGED previewVars
        BY <1>8 DEF previewVars, Fit
  <1> QED BY <1>1, <1>2, <1>3, <1>4, <1>5, <1>6, <1>7, <1>8 DEF PreviewNext

(* What is stored and what is answered with is one publication, for any    *)
(* publishers, viewers and stocks (PreviewRepository).                     *)
THEOREM PreviewsAreWhole == PreviewSpec => []OnePublication
  <1>1. PreviewInv => OnePublication
        BY DEF PreviewInv
  <1> QED BY PreviewStarts, PreviewKept, <1>1, PTL DEF PreviewSpec

-----------------------------------------------------------------------------
(* Confirmation                                                            *)

Seens == [minuteBar : MinuteBars \cup {0}, proposed : Verdicts, time : Nat]
Jobs  == [at : {"idle", "loaded", "evaluated", "returns"}, revision : Nat, item : Items,
          seen : Seens]
Documents == [revision : Nat, item : Items, returns : Nat, generated : Nat]

(* A run's document is what its revision of the stored one leads to; as    *)
(* long as that revision is the stored one, saving it loses nothing.       *)
Faithful(job) ==
    /\ job.at \in {"loaded", "evaluated"} => job.revision \in 1 .. stored.revision
    /\ job.at = "loaded" /\ job.revision = stored.revision => job.item = stored.item
    /\ job.at = "evaluated" /\ job.revision = stored.revision =>
         job.item = Stabilize(stored.item, job.seen)

OneHolder == dayLock = {} \/ \E e \in Evaluators : dayLock = {e}

ConfirmInv ==
    /\ ConfirmTypeOK /\ DocumentIsHistory /\ OneHolder
    /\ \A e \in Evaluators : Faithful(work[e])

(* One observation leaves a well formed item with the first confirmation   *)
(* it had.                                                                 *)
LEMMA StabilizeTyped ==
    ASSUME NEW item \in Items, NEW obs \in Seens
    PROVE  /\ Stabilize(item, obs) \in Items
           /\ item.first # 0 => Stabilize(item, obs).first = item.first
  <1> DEFINE newer == obs.minuteBar > item.last
             next == CASE item.state = "FAILED" -> item
                       [] item.state # "FAILED" /\ newer ->
                            IF obs.proposed # "WAIT" /\ obs.proposed # item.state
                            THEN Counted(item, obs) ELSE Cleared(item)
                       [] OTHER -> IF obs.proposed = "WAIT" THEN Cleared(item) ELSE item
  <1> USE ConfirmationAssumption DEF Items, Seens, MinuteBars, Verdicts
  <1>1. Counted(item, obs) \in Items /\ Counted(item, obs).first = item.first
    <2> DEFINE streak == item.pending = obs.proposed /\ item.last # 0
                         /\ obs.minuteBar - item.last <= ObservationGap
               count == IF streak THEN item.count + 1 ELSE 1
               begun == IF streak THEN item.since ELSE obs.minuteBar
    <2>1. count \in Nat /\ begun \in MinuteBars \cup {0}
          OBVIOUS
    <2> HIDE DEF count, begun
    <2>2. /\ [item EXCEPT !.state = obs.proposed, !.pending = "none", !.count = 0, !.since = 0]
               \in Items
          /\ [item EXCEPT !.pending = obs.proposed, !.count = count, !.since = begun] \in Items
          BY <2>1
    <2>3. Counted(item, obs) \in
            {[item EXCEPT !.state = obs.proposed, !.pending = "none", !.count = 0, !.since = 0],
             [item EXCEPT !.pending = obs.proposed, !.count = count, !.since = begun]}
          BY DEF Counted, count, begun
    <2> QED BY <2>2, <2>3
  <1>2. Cleared(item) \in Items /\ Cleared(item).first = item.first
        BY DEF Cleared
  <1>3. next \in {item, Counted(item, obs), Cleared(item)}
        OBVIOUS
  <1>4. next \in Items /\ next.first = item.first
        BY <1>1, <1>2, <1>3
  <1> HIDE DEF next
  <1> DEFINE last == IF newer THEN obs.minuteBar ELSE next.last
             first == IF next.first = 0 /\ next.state = "CONFIRMED" THEN obs.time ELSE next.first
  <1>5. last \in MinuteBars \cup {0} /\ first \in Nat /\ (item.first # 0 => first = item.first)
        BY <1>4
  <1>6. Stabilize(item, obs) = [next EXCEPT !.last = last, !.first = first]
        BY DEF Stabilize, next
  <1> HIDE DEF last, first
  <1> QED BY <1>4, <1>5, <1>6

LEMMA RestIsJob == Rest \in Jobs /\ Rest.at = "idle" /\ Fresh \in Items /\ Fresh.first = 0
  <1>1. Fresh \in Items /\ Fresh.first = 0
        BY DEF Fresh, Items, Verdicts
  <1>2. NoSeen \in Seens
        BY DEF NoSeen, Seens, Verdicts
  <1> QED BY <1>1, <1>2 DEF Rest, Jobs

LEMMA ConfirmTypes ==
    ConfirmTypeOK <=>
      /\ minuteBar \in 0 .. LastMinuteBar + 1
      /\ stored \in Documents
      /\ work \in [Evaluators -> Jobs]
      /\ dayLock \subseteq Evaluators /\ Cardinality(dayLock) <= 1
      /\ replayed \in Items /\ evalFaults \in 0 .. MaxEvalFaults
  BY DEF ConfirmTypeOK, Seens, Jobs, Documents

LEMMA ConfirmStarts == ConfirmInit => ConfirmInv
  <1> SUFFICES ASSUME ConfirmInit PROVE ConfirmInv
      OBVIOUS
  <1>1. Cardinality({}) = 0
        BY FS_EmptySet
  <1>2. stored \in Documents
        BY RestIsJob DEF ConfirmInit, Documents
  <1>3. ConfirmTypeOK
        BY <1>1, <1>2, RestIsJob, ConfirmTypes, ConfirmationAssumption DEF ConfirmInit
  <1> QED
      BY <1>3, RestIsJob DEF ConfirmInit, ConfirmInv, DocumentIsHistory, Faithful, OneHolder

(* A step of one run that leaves the document alone.                       *)
LEMMA RunMoves ==
    ASSUME ConfirmInv, NEW e \in Evaluators, NEW job \in Jobs, Faithful(job),
           work' = [work EXCEPT ![e] = job], UNCHANGED <<minuteBar, stored, replayed>>,
           OneHolder',
           evalFaults' \in 0 .. MaxEvalFaults
    PROVE  ConfirmInv'
  <1>1. work \in [Evaluators -> Jobs]
        BY ConfirmTypes DEF ConfirmInv
  <1>2. ConfirmTypeOK'
    <2>1. dayLock' \subseteq Evaluators /\ Cardinality(dayLock') <= 1
      <3>1. Cardinality({}) = 0 /\ \A f \in Evaluators : Cardinality({f}) = 1
            BY FS_EmptySet, FS_Singleton
      <3> QED BY <3>1 DEF OneHolder
    <2> QED BY <1>1, <2>1 DEF ConfirmInv, ConfirmTypeOK, Jobs, Seens
  <1>3. \A f \in Evaluators : work'[f] = IF f = e THEN job ELSE work[f]
        BY <1>1
  <1>4. \A f \in Evaluators : Faithful(work[f])'
        BY <1>3 DEF ConfirmInv, Faithful
  <1> QED BY <1>2, <1>4 DEF ConfirmInv, DocumentIsHistory

(* A step that writes the document, after which the run is at rest.        *)
LEMMA DocumentWritten ==
    ASSUME ConfirmInv, NEW e \in Evaluators, work' = [work EXCEPT ![e] = Rest],
           stored' \in Documents,
           stored'.revision > stored.revision, replayed' \in Items, DocumentIsHistory',
           UNCHANGED <<minuteBar, evalFaults>>, OneHolder'
    PROVE  ConfirmInv'
  <1>1. work \in [Evaluators -> Jobs] /\ stored.revision \in Nat
        BY ConfirmTypes DEF ConfirmInv, Documents
  <1>2. ConfirmTypeOK'
    <2>1. dayLock' \subseteq Evaluators /\ Cardinality(dayLock') <= 1
      <3>1. Cardinality({}) = 0 /\ \A f \in Evaluators : Cardinality({f}) = 1
            BY FS_EmptySet, FS_Singleton
      <3> QED BY <3>1 DEF OneHolder
    <2>2. work' \in [Evaluators -> Jobs]
          BY <1>1, RestIsJob
    <2> QED BY <2>1, <2>2 DEF ConfirmInv, ConfirmTypeOK, Jobs, Seens, Documents
  <1>3. ASSUME NEW f \in Evaluators PROVE Faithful(work[f])'
    <2>1. CASE f = e
          BY <1>1, <2>1, RestIsJob DEF Faithful
    <2>2. CASE f # e
      <3>1. work'[f] = work[f] /\ Faithful(work[f]) /\ work[f].revision \in Nat
            BY <1>1, <2>2 DEF ConfirmInv, Jobs
      <3>2. stored'.revision \in Nat /\ stored.revision \in Nat /\ stored'.revision > stored.revision
            BY <1>1 DEF Documents
      <3> QED BY <3>1, <3>2 DEF Faithful
    <2> QED BY <2>1, <2>2
  <1> QED BY <1>2, <1>3 DEF ConfirmInv

(* An evaluation that still has the stored revision.                       *)
LEMMA SaveKeeps ==
    ASSUME ConfirmInv, NEW e \in Evaluators, Save(e)
    PROVE  ConfirmInv'
  <1>0. /\ work \in [Evaluators -> Jobs] /\ stored \in Documents
        /\ stored.item = replayed /\ stored.returns \in {0, replayed.first} /\ replayed \in Items
        BY ConfirmTypes DEF ConfirmInv, DocumentIsHistory
  <1>1. work' = [work EXCEPT ![e] = Rest] /\ UNCHANGED <<minuteBar, evalFaults>>
        BY DEF Save, Leave
  <1>2. OneHolder'
        BY DEF Save, Leave, ConfirmInv, OneHolder
  <1>3. CASE ~Accepted(e)
    <2>1. UNCHANGED <<stored, replayed>>
          BY <1>3 DEF Save
    <2> QED BY <1>0, <1>1, <1>2, <2>1, RestIsJob, RunMoves DEF Faithful, ConfirmInv, ConfirmTypeOK
  <1>4. CASE Accepted(e)
    <2> DEFINE item == Stabilize(stored.item, work[e].seen)
    <2>1. work[e].at = "evaluated" /\ work[e].item = item
          BY <1>4 DEF Save, Accepted, Current, ConfirmInv, Faithful
    <2>2. item \in Items /\ (stored.item.first # 0 => item.first = stored.item.first)
          BY <1>0, StabilizeTyped DEF Jobs
    <2>3. /\ stored' = [stored EXCEPT !.revision = @ + 1, !.item = Merge(@, work[e].item),
                                      !.generated = work[e].seen.time]
          /\ replayed' = Stabilize(replayed, work[e].seen)
          BY <1>4 DEF Save
    <2>4. replayed' = item
          BY <1>0, <2>3
    <2> HIDE DEF item
    <2>5. Merge(stored.item, item) = item
          BY <1>0, <2>2 DEF Merge, Items
    <2>6. stored' = [stored EXCEPT !.revision = @ + 1, !.item = item, !.generated = work[e].seen.time]
          BY <2>1, <2>3, <2>5
    <2>7. /\ stored' \in Documents
          /\ stored'.revision > stored.revision
          /\ stored'.item = item /\ stored'.returns = stored.returns
      <3>1. stored' = [revision |-> stored.revision + 1, item |-> item, returns |-> stored.returns,
                       generated |-> work[e].seen.time]
            BY <1>0, <2>6 DEF Documents
      <3>2. stored.revision \in Nat /\ stored.returns \in Nat /\ work[e].seen.time \in Nat
            BY <1>0 DEF Documents, Jobs, Seens
      <3> QED BY <2>2, <3>1, <3>2 DEF Documents
    <2>8. DocumentIsHistory'
          (* Returns are there only once the first confirmation is.        *)
          BY <1>0, <2>2, <2>4, <2>7 DEF DocumentIsHistory
    <2> QED BY <1>1, <1>2, <2>2, <2>4, <2>7, <2>8, DocumentWritten
  <1> QED BY <1>3, <1>4

LEMMA ConfirmKept == ConfirmInv /\ [ConfirmNext]_confirmVars => ConfirmInv'
  <1> SUFFICES ASSUME ConfirmInv, [ConfirmNext]_confirmVars PROVE ConfirmInv'
      OBVIOUS
  <1>0. /\ work \in [Evaluators -> Jobs] /\ stored \in Documents
        /\ stored.item = replayed /\ stored.returns \in {0, replayed.first} /\ replayed \in Items
        /\ minuteBar \in 0 .. LastMinuteBar + 1 /\ evalFaults \in 0 .. MaxEvalFaults /\ OneHolder
        BY ConfirmTypes DEF ConfirmInv, DocumentIsHistory
  <1>1. CASE CloseBar
    <2>1. minuteBar' \in 0 .. LastMinuteBar + 1
          BY <1>0, <1>1, ConfirmationAssumption DEF CloseBar
    <2> QED BY <1>1, <2>1 DEF CloseBar, ConfirmInv, ConfirmTypeOK, DocumentIsHistory, Faithful, OneHolder
  <1>2. ASSUME NEW e \in Evaluators, Freeze(e) PROVE ConfirmInv'
    <2>1. /\ stored' = IF stored.revision = 0 THEN [stored EXCEPT !.revision = 1] ELSE stored
          /\ UNCHANGED <<minuteBar, work, dayLock, replayed, evalFaults>>
          BY <1>2 DEF Freeze
    <2>2. CASE stored.revision # 0
          BY <2>1, <2>2 DEF ConfirmInv, ConfirmTypeOK, DocumentIsHistory, Faithful, OneHolder
    <2>3. CASE stored.revision = 0
      <3>1. /\ stored' \in Documents /\ stored'.revision = 1
            /\ stored'.item = stored.item /\ stored'.returns = stored.returns
            BY <1>0, <2>1, <2>3 DEF Documents
      <3>2. \A f \in Evaluators : work[f].at \notin {"loaded", "evaluated"}
            BY <2>3 DEF ConfirmInv, Faithful
      <3> QED BY <2>1, <3>1, <3>2 DEF ConfirmInv, ConfirmTypeOK, DocumentIsHistory, Faithful, OneHolder
    <2> QED BY <2>2, <2>3
  <1>3. ASSUME NEW e \in Evaluators, Load(e) PROVE ConfirmInv'
    <2> DEFINE job == [Rest EXCEPT !.at = "loaded", !.revision = stored.revision,
                                   !.item = stored.item]
    <2>1. /\ work' = [work EXCEPT ![e] = job] /\ dayLock' = {e} /\ stored.revision \in 1 .. MaxRevision - 1
          /\ UNCHANGED <<minuteBar, stored, replayed, evalFaults>>
          BY <1>3 DEF Load
    <2>2. /\ job \in Jobs /\ job.at = "loaded" /\ job.revision = stored.revision
          /\ job.item = stored.item
          BY <1>0, RestIsJob DEF Jobs, Documents
    <2>3. Faithful(job)
          BY <1>0, <2>1, <2>2 DEF Faithful
    <2> HIDE DEF job
    <2> QED BY <1>0, <2>1, <2>2, <2>3, RunMoves DEF OneHolder
  <1>4. ASSUME NEW e \in Evaluators, Collect(e) PROVE ConfirmInv'
    <2>1. PICK obs \in Observations(e) :
            work' = [work EXCEPT ![e].at = "evaluated", ![e].seen = obs,
                                 ![e].item = Stabilize(@, obs)]
          BY <1>4, Zenon DEF Collect
    <2>2. work[e].at = "loaded" /\ UNCHANGED <<minuteBar, stored, dayLock, replayed, evalFaults>>
          BY <1>4 DEF Collect
    <2> DEFINE job == [work[e] EXCEPT !.at = "evaluated", !.seen = obs,
                                      !.item = Stabilize(work[e].item, obs)]
    <2>3. obs \in Seens
      <3>1. ClockSkew[e] \in Nat /\ minuteBar \in Nat
            BY <1>0, ConfirmationAssumption
      <3>2. minuteBar .. minuteBar + ClockSkew[e] \subseteq Nat
            BY <3>1
      <3> QED BY <3>2 DEF Observations, ReadyBars, Seens
    <2>4. work' = [work EXCEPT ![e] = job]
          BY <1>0, <2>1 DEF Jobs
    <2>5. Stabilize(work[e].item, obs) \in Items
          BY <1>0, <2>3, StabilizeTyped DEF Jobs
    <2>6. /\ job \in Jobs /\ job.at = "evaluated" /\ job.revision = work[e].revision
          /\ job.seen = obs /\ job.item = Stabilize(work[e].item, obs)
          BY <1>0, <2>3, <2>5 DEF Jobs
    <2>7. Faithful(work[e])
          BY DEF ConfirmInv
    <2> HIDE DEF job
    <2>8. Faithful(job)
          BY <2>2, <2>6, <2>7 DEF Faithful
    <2> QED BY <1>0, <2>2, <2>4, <2>6, <2>8, RunMoves DEF OneHolder
  <1>5. ASSUME NEW e \in Evaluators, Save(e) PROVE ConfirmInv'
        BY <1>5, SaveKeeps
  <1>6. ASSUME NEW e \in Evaluators, LoadReturns(e) PROVE ConfirmInv'
    <2> DEFINE job == [Rest EXCEPT !.at = "returns", !.item = stored.item]
    <2>1. work' = [work EXCEPT ![e] = job] /\ UNCHANGED <<minuteBar, stored, dayLock, replayed, evalFaults>>
          BY <1>6 DEF LoadReturns
    <2>2. job \in Jobs /\ job.at = "returns"
          BY <1>0, RestIsJob DEF Jobs
    <2> HIDE DEF job
    <2> QED BY <1>0, <2>1, <2>2, RunMoves DEF Faithful, OneHolder
  <1>7. ASSUME NEW e \in Evaluators, SaveReturns(e) PROVE ConfirmInv'
    <2> DEFINE returns == IF stored.returns = 0 /\ work[e].item.first = stored.item.first
                          THEN work[e].item.first ELSE stored.returns
    <2>1. /\ stored' = [stored EXCEPT !.revision = @ + 1, !.returns = returns]
          /\ work' = [work EXCEPT ![e] = Rest] /\ UNCHANGED <<minuteBar, dayLock, replayed, evalFaults>>
          BY <1>7 DEF SaveReturns
    <2>2. returns \in Nat /\ returns \in {0, replayed.first}
          BY <1>0 DEF Items
    <2> HIDE DEF returns
    <2>3. /\ stored' \in Documents
          /\ stored'.revision > stored.revision
          /\ stored'.item = stored.item /\ stored'.returns = returns
      <3>1. stored' = [revision |-> stored.revision + 1, item |-> stored.item, returns |-> returns,
                       generated |-> stored.generated]
            BY <1>0, <2>1 DEF Documents
      <3>2. stored.revision \in Nat /\ stored.item \in Items /\ stored.generated \in Nat
            BY <1>0 DEF Documents
      <3> QED BY <2>2, <3>1, <3>2 DEF Documents
    <2> QED BY <1>0, <2>1, <2>2, <2>3, DocumentWritten DEF DocumentIsHistory, OneHolder
  <1>8. ASSUME NEW e \in Evaluators, Kill(e) PROVE ConfirmInv'
    <2>1. /\ work' = [work EXCEPT ![e] = Rest] /\ dayLock' = dayLock \ {e}
          /\ UNCHANGED <<minuteBar, stored, replayed>> /\ evalFaults' \in 0 .. MaxEvalFaults
          BY <1>0, <1>8, ConfirmationAssumption DEF Kill, Leave, EvalFault
    <2> QED BY <1>0, <2>1, RestIsJob, RunMoves DEF Faithful, OneHolder
  <1>9. ASSUME NEW e \in Evaluators, LoseDayLock(e) PROVE ConfirmInv'
    <2>1. dayLock' = {} /\ UNCHANGED <<minuteBar, stored, work, replayed>>
          /\ evalFaults' \in 0 .. MaxEvalFaults
          BY <1>0, <1>9, ConfirmationAssumption DEF LoseDayLock, EvalFault
    <2>2. Cardinality({}) = 0
          BY FS_EmptySet
    <2> QED BY <2>1, <2>2 DEF ConfirmInv, ConfirmTypeOK, DocumentIsHistory, Faithful, OneHolder
  <1>10. CASE UNCHANGED confirmVars
         BY <1>10 DEF confirmVars, ConfirmInv, ConfirmTypeOK, DocumentIsHistory, Faithful, OneHolder
  <1> QED
      BY <1>1, <1>2, <1>3, <1>4, <1>5, <1>6, <1>7, <1>8, <1>9, <1>10 DEF ConfirmNext

(* No evaluation is lost or counted twice, for any evaluators, bars and    *)
(* faults (ConfirmationStore.save, refresh_returns).                       *)
THEOREM DocumentFollowsHistory == ConfirmSpec => []DocumentIsHistory
  <1>1. ConfirmInv => DocumentIsHistory
        BY DEF ConfirmInv
  <1> QED BY ConfirmStarts, ConfirmKept, <1>1, PTL DEF ConfirmSpec

-----------------------------------------------------------------------------
(* DailySync                                                               *)

Window(s) == {d \in 1..s : d > s - RefreshDays}

(* The rows are of one basis, and the window of the next run meets enough  *)
(* of them to notice another.                                              *)
Uniform == \A d, e \in Stored : dailyRows[d] = dailyRows[e]
Meets(s) == Window(s) # 1..s => Cardinality(Stored \cap Window(s)) >= ScaleMinDates

(* What a run asks for.                                                    *)
Asks ==
    /\ pass = "idle" => horizon = {} /\ requested = {}
    /\ pass # "idle" => /\ horizon = 1..session
                        /\ requested \in {horizon, Window(session)}
                        /\ mode = "full" \/ Stored = {} => requested = horizon

(* What it is answered.                                                    *)
AnswerRouted ==
    /\ routed.flawed => routed.error
    /\ Cardinality(routed.sources) <= 1
    /\ pass \in {"fetched", "refetched"} => routed.basis # 0

(* What the rows are when answers are whole windows.                       *)
WholeAnswers ==
    /\ Uniform
    /\ Stored # {} => Meets(session)
    /\ routed.days # {} /\ pass = "fetched" => routed.days = requested
    /\ routed.days # {} /\ pass = "refetched" => routed.days = horizon
    /\ pass = "checked" /\ scaleVerdict = "success" /\ routed.days # {}
         => \A d \in Stored : dailyRows[d] = routed.basis

RoutedType == [days : SUBSET (1..session), sources : SUBSET Providers, basis : 0..MaxBases,
               error : BOOLEAN, flawed : BOOLEAN]

SyncInv ==
    /\ SyncTypeOK /\ routed \in RoutedType
    /\ Stored \subseteq 1..session
    /\ Asks /\ AnswerRouted
    /\ whole => WholeAnswers

-----------------------------------------------------------------------------
(* Numbers and sets of sessions.                                           *)

LEMMA SyncNumbers ==
    /\ LastSession \in Nat /\ RefreshDays \in Nat /\ ScaleMinDates \in Nat
    /\ MaxBases \in Nat /\ MaxSyncs \in Nat
    /\ 3 <= LastSession /\ 1 <= ScaleMinDates /\ ScaleMinDates < RefreshDays /\ 1 <= MaxBases
  BY DailySyncAssumption

LEMMA LeastSession ==
    ASSUME NEW s \in Nat, NEW S \in SUBSET (1..s), S # {}
    PROVE  Least(S) \in S /\ \A d \in S : Least(S) <= d
  <1> DEFINE R == {ss \in Nat \X Nat : ss[1] < ss[2]}
  <1>1. IsWellFoundedOn(R, Nat)
        BY NatLessThanWellFounded DEF OpToRel
  <1>2. \A x, y \in Nat : <<y, x>> \in R <=> y < x
        OBVIOUS
  <1>3. S \in SUBSET Nat
        OBVIOUS
  <1> HIDE DEF R
  <1>4. PICK x \in S : \A y \in S : ~ (<<y, x>> \in R)
        BY <1>1, <1>3, WFMin
  <1>5. \A y \in S : x <= y
    <2> TAKE y \in S
    <2>1. x \in Nat /\ y \in Nat
          BY <1>3
    <2>2. ~ (y < x)
          BY <1>2, <1>4, <2>1
    <2> QED BY <2>1, <2>2
  <1> QED BY <1>5 DEF Least

LEMMA SessionsCount ==
    ASSUME NEW s \in Nat, NEW S \in SUBSET (1..s)
    PROVE  /\ IsFiniteSet(S) /\ Cardinality(S) \in Nat
           /\ \A T \in SUBSET S : IsFiniteSet(T) /\ Cardinality(T) \in Nat /\ Cardinality(T) <= Cardinality(S)
  <1>1. IsFiniteSet(1..s)
        BY FS_Interval
  <1>2. IsFiniteSet(S)
        BY <1>1, FS_Subset
  <1> QED BY <1>2, FS_Subset, FS_CardinalityType

(* A window that is not everything is as long as it should be.             *)
LEMMA WindowIsLong ==
    ASSUME NEW s \in Nat, Window(s) # 1..s
    PROVE  Cardinality(Window(s)) >= ScaleMinDates
  <1>1. RefreshDays \in Nat /\ ScaleMinDates \in Nat /\ ScaleMinDates < RefreshDays
        BY SyncNumbers
  <1>2. s > RefreshDays
    <2>1. PICK d \in 1..s : ~(d > s - RefreshDays)
          BY DEF Window
    <2> QED BY <1>1, <2>1
  <1>3. Window(s) = (s - RefreshDays + 1)..s
        BY <1>1, <1>2 DEF Window
  <1>4. Cardinality((s - RefreshDays + 1)..s) = RefreshDays
    <2>1. s - RefreshDays + 1 \in Int /\ s \in Int /\ s - RefreshDays + 1 <= s
          BY <1>1, <1>2
    <2>2. Cardinality((s - RefreshDays + 1)..s) = s - (s - RefreshDays + 1) + 1
          BY <2>1, FS_Interval
    <2> QED BY <1>1, <2>2
  <1> QED BY <1>1, <1>3, <1>4

-----------------------------------------------------------------------------
(* Downloads.                                                              *)

LEMMA AnswersAre ==
    ASSUME NEW days, NEW y \in Answered(days)
    PROVE  /\ y.days \in SUBSET days /\ y.error \in BOOLEAN
           /\ whole => y.days \in {{}, days}
  BY DEF Answered

LEMMA AlpacaIs ==
    ASSUME NEW days, NEW y, y.days \in SUBSET days, y.error \in BOOLEAN,
           NEW a, a = Alpaca(days, y)
    PROVE  /\ a.days \in {{}, y.days} /\ a.error \in BOOLEAN
           /\ a.days # {} => ~a.error /\ \A d \in days : d >= Least(a.days) => d \in a.days
  <1>1. PICK bad \in BOOLEAN :
          bad <=> (y.error \/ (y.days # {} /\ \E d \in days : d >= Least(y.days) /\ d \notin y.days))
        OBVIOUS
  <1>2. CASE bad
    <2>1. a = [days |-> {}, error |-> TRUE]
          BY <1>1, <1>2 DEF Alpaca
    <2> QED BY <2>1
  <1>3. CASE ~bad
    <2>1. a = [days |-> y.days, error |-> FALSE]
          BY <1>1, <1>3 DEF Alpaca
    <2> QED BY <1>1, <1>3, <2>1
  <1> QED BY <1>2, <1>3

LEMMA RoutedIs ==
    ASSUME NEW d \in SUBSET (1..session), NEW s \in SUBSET Providers, NEW b \in 0..MaxBases,
           NEW e \in BOOLEAN, NEW f \in BOOLEAN
    PROVE  [days |-> d, sources |-> s, basis |-> b, error |-> e, flawed |-> f] \in RoutedType
  BY Zenon DEF RoutedType

LEMMA RouteIs ==
    ASSUME SyncTypeOK, NEW days \in SUBSET (1..session),
           NEW y, y.days \in SUBSET days, y.error \in BOOLEAN,
           NEW a, a.days \in SUBSET days, a.error \in BOOLEAN, a.days # {} => ~a.error,
           NEW r, r = Route(a, y)
    PROVE  /\ r \in RoutedType /\ r.basis = basis
           /\ r.flawed => r.error
           /\ \/ a.days # {} /\ r.days = a.days /\ r.sources = {"alpaca"}
              \/ a.days = {} /\ r.days = y.days /\ r.sources \subseteq {"yfinance"}
  <1>1. basis \in 0..MaxBases
        BY SyncNumbers DEF SyncTypeOK
  <1>2. "alpaca" \in Providers /\ "yfinance" \in Providers
        BY DEF Providers
  <1>5. PICK b \in 0..MaxBases : b = basis
        BY <1>1
  <1>3. CASE a.days # {}
    <2>1. PICK d \in SUBSET (1..session) : d = a.days
          OBVIOUS
    <2>2. a.error = FALSE
          BY <1>3
    <2>3. r = [days |-> d, sources |-> {"alpaca"}, basis |-> b, error |-> FALSE, flawed |-> FALSE]
          BY <1>3, <1>5, <2>1, <2>2 DEF Route
    <2>4. r \in RoutedType
      <3>1. {"alpaca"} \in SUBSET Providers
            BY <1>2
      <3> QED BY <2>3, <3>1, RoutedIs
    <2>5. r.basis = b /\ r.flawed = FALSE /\ r.days = d /\ r.sources = {"alpaca"}
          BY <2>3
    <2> QED BY <1>3, <1>5, <2>1, <2>4, <2>5
  <1>4. CASE a.days = {}
    <2>1. PICK e \in BOOLEAN : e = IF y.days # {} /\ ~y.error THEN FALSE ELSE a.error \/ y.error
          OBVIOUS
    <2>2. PICK s \in SUBSET {"yfinance"} : s = IF y.days = {} THEN {} ELSE {"yfinance"}
          OBVIOUS
    <2>8. PICK got \in SUBSET (1..session) : got = y.days
          OBVIOUS
    <2>9. PICK failed \in BOOLEAN : failed = y.error
          OBVIOUS
    <2>3. r = [days |-> got, sources |-> s, basis |-> b, error |-> e, flawed |-> failed]
      <3>1. Route(a, y) =
              [days |-> y.days, sources |-> IF y.days = {} THEN {} ELSE {"yfinance"}, basis |-> basis,
               error |-> IF y.days # {} /\ ~y.error THEN FALSE ELSE a.error \/ y.error, flawed |-> y.error]
            BY <1>4 DEF Route
      <3> QED BY <1>5, <2>1, <2>2, <2>8, <2>9, <3>1
    <2>4. failed => e
          BY <2>1, <2>9
    <2>5. s \in SUBSET Providers
          BY <1>2, <2>2
    <2>6. r \in RoutedType
          BY <2>3, <2>5, RoutedIs
    <2>7. r.basis = b /\ r.flawed = failed /\ r.error = e /\ r.days = got /\ r.sources = s
          BY <2>3
    <2> QED BY <1>4, <1>5, <2>2, <2>4, <2>6, <2>7, <2>8
  <1> QED BY <1>3, <1>4

LEMMA PatchedIs ==
    ASSUME NEW r \in RoutedType, r.sources \subseteq {"yfinance"}, r.flawed => r.error,
           NEW y, y.days \in SUBSET (1..session), y.error \in BOOLEAN,
           NEW t, t = Patched(r, y)
    PROVE  /\ t \in RoutedType /\ t.basis = r.basis /\ t.days = r.days \cup y.days
           /\ t.flawed => t.error
           /\ t.sources \subseteq {"yfinance"}
  <1>1. CASE y.days = {} /\ ~y.error
    <2>1. t = r
          BY <1>1 DEF Patched
    <2> QED BY <1>1, <2>1
  <1>2. CASE ~(y.days = {} /\ ~y.error)
    <2>1. PICK e \in BOOLEAN : e = (r.error \/ y.error)
          BY DEF RoutedType
    <2>2. PICK f \in BOOLEAN : f = (r.flawed \/ y.error)
          BY DEF RoutedType
    <2>3. PICK s : s = IF y.days = {} THEN r.sources ELSE r.sources \cup {"yfinance"}
          OBVIOUS
    <2>4. s \subseteq {"yfinance"} /\ s \subseteq Providers
          BY <2>3 DEF Providers
    <2>5. t = [r EXCEPT !.days = r.days \cup y.days, !.sources = s, !.error = e, !.flawed = f]
          BY <1>2, <2>1, <2>2, <2>3 DEF Patched
    <2>6. t = [days |-> r.days \cup y.days, sources |-> s, basis |-> r.basis, error |-> e, flawed |-> f]
          BY <2>5 DEF RoutedType
    <2>7. r.days \cup y.days \in SUBSET (1..session) /\ r.basis \in 0..MaxBases
          BY DEF RoutedType
    <2>8. f => e
          BY <2>1, <2>2
    <2>9. t \in RoutedType
          BY <2>4, <2>6, <2>7 DEF RoutedType
    <2> QED BY <2>4, <2>6, <2>8, <2>9
  <1> QED BY <1>1, <1>2

LEMMA AtMostOne ==
    ASSUME NEW S, NEW x, S \subseteq {x}
    PROVE  Cardinality(S) <= 1
  <1>1. S = {} \/ S = {x}
        OBVIOUS
  <1>2. Cardinality({}) = 0
        BY FS_EmptySet
  <1>3. Cardinality({x}) = 1
        BY FS_Singleton
  <1> QED BY <1>1, <1>2, <1>3

(* A download has one provider, and is whole if answers are.               *)
DownloadOf(days) ==
    /\ routed' \in RoutedType /\ routed'.basis = basis /\ routed'.days \subseteq days
    /\ routed'.flawed => routed'.error
    /\ Cardinality(routed'.sources) <= 1
    /\ whole => routed'.days \in {{}, days}

LEMMA AnsweredIs ==
    ASSUME SyncTypeOK, NEW days \in SUBSET (1..session),
           NEW x \in Answered(days), NEW a, a = Alpaca(days, x),
           NEW y \in Answered(days), NEW r, r = Route(a, y)
    PROVE  /\ r \in RoutedType /\ r.basis = basis /\ r.days \subseteq days
           /\ r.flawed => r.error
           /\ Cardinality(r.sources) <= 1
           /\ whole => r.days \in {{}, days}
           /\ (\E d \in days : r.days # {} /\ d >= Least(r.days) /\ d \notin r.days)
                => r.sources \subseteq {"yfinance"}
  <1>1. /\ x.days \in SUBSET days /\ x.error \in BOOLEAN /\ (whole => x.days \in {{}, days})
        /\ y.days \in SUBSET days /\ y.error \in BOOLEAN /\ (whole => y.days \in {{}, days})
        BY AnswersAre
  <1>4. /\ a.days \in {{}, x.days} /\ a.error \in BOOLEAN
        /\ a.days # {} => ~a.error /\ \A d \in days : d >= Least(a.days) => d \in a.days
        BY <1>1, AlpacaIs
  <1>5. /\ r \in RoutedType /\ r.basis = basis
        /\ r.flawed => r.error
        /\ \/ a.days # {} /\ r.days = a.days /\ r.sources = {"alpaca"}
           \/ a.days = {} /\ r.days = y.days /\ r.sources \subseteq {"yfinance"}
    <2>1. a.days \in SUBSET days
          BY <1>1, <1>4
    <2> QED BY SMTT(60), <1>1, <1>4, <2>1, RouteIs
  <1>6. r.days \subseteq days /\ (whole => r.days \in {{}, days})
        BY <1>1, <1>4, <1>5
  <1>7. Cardinality(r.sources) <= 1
    <2>1. PICK S : S = r.sources
          OBVIOUS
    <2>2. S \subseteq {"alpaca"} \/ S \subseteq {"yfinance"}
          BY <1>5, <2>1
    <2>3. Cardinality(S) <= 1
          BY <2>2, AtMostOne
    <2> QED BY <2>1, <2>3
  <1>8. (\E d \in days : r.days # {} /\ d >= Least(r.days) /\ d \notin r.days)
           => r.sources \subseteq {"yfinance"}
        BY <1>4, <1>5
  <1> QED BY <1>5, <1>6, <1>7, <1>8

LEMMA PlainDownload ==
    ASSUME SyncTypeOK, NEW days \in SUBSET (1..session), Download(days, FALSE)
    PROVE  DownloadOf(days)
  <1>1. \E alpaca \in {Alpaca(days, bars) : bars \in Answered(days)} :
        \E r \in {Route(alpaca, yahoo) : yahoo \in Answered(days)} : routed' = r
        BY DEF Download
  <1>2. PICK x \in Answered(days), y \in Answered(days) : routed' = Route(Alpaca(days, x), y)
        BY <1>1
  <1>3. PICK a : a = Alpaca(days, x)
        OBVIOUS
  <1>4. PICK r : r = Route(a, y)
        OBVIOUS
  <1>5. /\ r \in RoutedType /\ r.basis = basis /\ r.days \subseteq days
        /\ r.flawed => r.error
        /\ Cardinality(r.sources) <= 1
        /\ whole => r.days \in {{}, days}
        BY <1>3, <1>4, AnsweredIs
  <1>6. routed' = r
        BY <1>2, <1>3, <1>4
  <1> QED BY <1>5, <1>6 DEF DownloadOf

LEMMA PatchedDownload ==
    ASSUME SyncTypeOK, NEW days \in SUBSET (1..session), Download(days, TRUE)
    PROVE  DownloadOf(days)
  <1>1. \E alpaca \in {Alpaca(days, bars) : bars \in Answered(days)} :
        \E r \in {Route(alpaca, yahoo) : yahoo \in Answered(days)} :
            \E observed \in {r.days, days} :
              LET gaps == GapsOf(r, days, observed) IN
              IF gaps = {} THEN routed' = r
              ELSE \E yahoo \in [days : SUBSET gaps, error : BOOLEAN] : routed' = Patched(r, yahoo)
        BY DEF Download
  <1>2. PICK a \in {Alpaca(days, bars) : bars \in Answered(days)} :
          \E r \in {Route(a, yahoo) : yahoo \in Answered(days)} :
            \E observed \in {r.days, days} :
              LET gaps == GapsOf(r, days, observed) IN
              IF gaps = {} THEN routed' = r
              ELSE \E yahoo \in [days : SUBSET gaps, error : BOOLEAN] : routed' = Patched(r, yahoo)
        BY <1>1
  <1>3. PICK r \in {Route(a, yahoo) : yahoo \in Answered(days)} :
            \E observed \in {r.days, days} :
              LET gaps == GapsOf(r, days, observed) IN
              IF gaps = {} THEN routed' = r
              ELSE \E yahoo \in [days : SUBSET gaps, error : BOOLEAN] : routed' = Patched(r, yahoo)
        BY <1>2
  <1>4. PICK observed \in {r.days, days} :
              LET gaps == GapsOf(r, days, observed) IN
              IF gaps = {} THEN routed' = r
              ELSE \E yahoo \in [days : SUBSET gaps, error : BOOLEAN] : routed' = Patched(r, yahoo)
        BY <1>3
  <1>8. PICK gaps : gaps = GapsOf(r, days, observed)
        OBVIOUS
  <1>5. /\ r \in RoutedType /\ r.basis = basis /\ r.days \subseteq days
        /\ r.flawed => r.error
        /\ Cardinality(r.sources) <= 1
        /\ whole => r.days \in {{}, days}
        /\ (\E d \in days : r.days # {} /\ d >= Least(r.days) /\ d \notin r.days)
             => r.sources \subseteq {"yfinance"}
    <2>1. PICK x \in Answered(days) : a = Alpaca(days, x)
          BY <1>2
    <2>2. PICK y \in Answered(days) : r = Route(a, y)
          BY <1>3
    <2> QED BY <2>1, <2>2, AnsweredIs
  <1>6. CASE gaps = {}
    <2>1. routed' = r
          BY <1>4, <1>6, <1>8
    <2> QED BY <1>5, <2>1 DEF DownloadOf
  <1>7. CASE gaps # {}
    <2>1. PICK z \in [days : SUBSET gaps, error : BOOLEAN] : routed' = Patched(r, z)
          BY <1>4, <1>7, <1>8
    <2>2. PICK g : g \in gaps
          BY <1>7
    <2>3. gaps \subseteq days /\ r.days # {} /\ g \in days /\ g >= Least(r.days) /\ g \notin r.days
          BY <1>8, <2>2 DEF GapsOf
    <2>4. r.sources \subseteq {"yfinance"} /\ ~whole
          BY <1>5, <2>3
    <2>5. PICK t : t = Patched(r, z)
          OBVIOUS
    <2>6. z.days \in SUBSET (1..session) /\ z.days \subseteq days /\ z.error \in BOOLEAN
          BY <2>1, <2>3
    <2>7. /\ t \in RoutedType /\ t.basis = r.basis /\ t.days = r.days \cup z.days
          /\ t.flawed => t.error
          /\ t.sources \subseteq {"yfinance"}
          BY <1>5, <2>4, <2>5, <2>6, PatchedIs
    <2>8. Cardinality(t.sources) <= 1
      <3>1. PICK S : S = t.sources
            OBVIOUS
      <3>2. Cardinality(S) <= 1
            BY <2>7, <3>1, AtMostOne
      <3> QED BY <3>1, <3>2
    <2>9. t.days \subseteq days
          BY <1>5, <2>6, <2>7
    <2>10. routed' = t /\ t.basis = basis
          BY <1>5, <2>1, <2>5, <2>7
    <2> QED BY <2>4, <2>7, <2>8, <2>9, <2>10 DEF DownloadOf
  <1> QED BY <1>6, <1>7

-----------------------------------------------------------------------------
(* Writing the rows.                                                       *)

LEMMA StoredIs == /\ \A d : d \in Stored <=> d \in Sessions /\ dailyRows[d] # 0
                  /\ \A d : d \in Stored' <=> d \in Sessions /\ dailyRows'[d] # 0
  BY DEF Stored

LEMMA RoutedTypes ==
    ASSUME SyncInv
    PROVE  /\ routed.days \subseteq 1..session /\ routed.days \subseteq Sessions
           /\ routed.days \subseteq horizon
           /\ routed.basis \in 0..MaxBases /\ routed.error \in BOOLEAN /\ routed.flawed \in BOOLEAN
           /\ session \in 1..LastSession /\ session \in Nat
  <1>1. session \in 1..LastSession /\ LastSession \in Nat
        BY SyncNumbers DEF SyncInv, SyncTypeOK, Sessions
  <1> QED BY <1>1 DEF SyncInv, SyncTypeOK, RoutedType, Sessions

LEMMA ReplacedRows ==
    ASSUME SyncInv, pass \in {"fetched", "refetched"}, dailyRows' = ReplaceHistory(routed)
    PROVE  /\ dailyRows' \in [Sessions -> 0..MaxBases]
           /\ Stored' = routed.days
           /\ \A d \in Stored' : dailyRows'[d] = routed.basis
  <1>1. routed.basis \in 0..MaxBases /\ routed.basis # 0
        BY RoutedTypes DEF SyncInv, AnswerRouted
  <1>2. routed.days \subseteq Sessions /\ 0 \in 0..MaxBases
        BY RoutedTypes, SyncNumbers
  <1>3. \A d \in Sessions : dailyRows'[d] = IF d \in routed.days THEN routed.basis ELSE 0
        BY DEF ReplaceHistory
  <1>4. dailyRows' \in [Sessions -> 0..MaxBases]
        BY <1>1, <1>2 DEF ReplaceHistory
  <1>5. \A d : d \in Stored' <=> d \in routed.days
        BY <1>1, <1>2, <1>3, StoredIs
  <1>6. Stored' = routed.days
        BY <1>5
  <1> QED BY <1>2, <1>3, <1>4, <1>6

LEMMA UpsertedRows ==
    ASSUME SyncInv, pass \in {"fetched", "refetched"}, dailyRows' = UpsertRows(routed)
    PROVE  /\ dailyRows' \in [Sessions -> 0..MaxBases]
           /\ Stored' = Stored \cup routed.days
           /\ \A d \in routed.days : dailyRows'[d] = routed.basis
           /\ \A d \in Stored \ routed.days : dailyRows'[d] = dailyRows[d]
  <1>1. routed.basis \in 0..MaxBases /\ routed.basis # 0
        BY RoutedTypes DEF SyncInv, AnswerRouted
  <1>2. routed.days \subseteq Sessions /\ dailyRows \in [Sessions -> 0..MaxBases]
        BY RoutedTypes DEF SyncInv, SyncTypeOK
  <1>3. \A d \in Sessions : dailyRows'[d] = IF d \in routed.days THEN routed.basis ELSE dailyRows[d]
        BY DEF UpsertRows
  <1>4. dailyRows' \in [Sessions -> 0..MaxBases]
        BY <1>1, <1>2 DEF UpsertRows
  <1>5. \A d : d \in Stored' <=> d \in Stored \/ d \in routed.days
        BY <1>1, <1>2, <1>3, StoredIs
  <1>6. Stored' = Stored \cup routed.days
        BY <1>5
  <1> QED BY <1>2, <1>3, <1>4, <1>6, StoredIs

(* Rows of another basis would have made the run a full refresh.           *)
LEMMA OverlapAgrees ==
    ASSUME SyncInv, whole, pass = "fetched", ~Upgrades, mode = "incremental",
           routed.days # {}, requested # horizon
    PROVE  \A d \in Stored : dailyRows[d] = routed.basis
  <1>1. /\ horizon = 1..session /\ requested = Window(session) /\ routed.days = Window(session)
        /\ Window(session) # 1..session /\ Stored # {}
        BY DEF SyncInv, Asks, WholeAnswers
  <1>2. /\ session \in Nat /\ Stored \in SUBSET (1..session)
        /\ Uniform /\ Meets(session)
        BY <1>1, RoutedTypes DEF SyncInv, WholeAnswers
  <1>3. PICK overlap : overlap = Stored \cap Window(session)
        OBVIOUS
  <1>4. Cardinality(overlap) >= ScaleMinDates
        BY <1>1, <1>2, <1>3 DEF Meets
  <1>5. overlap # {}
    <2>1. Cardinality({}) = 0 /\ 1 <= ScaleMinDates /\ ScaleMinDates \in Nat
          BY FS_EmptySet, SyncNumbers
    <2> QED BY <1>4, <2>1
  <1>6. overlap \in SUBSET (1..session) /\ overlap \subseteq Stored
        BY <1>2, <1>3
  <1>7. Least(overlap) \in overlap
        BY <1>2, <1>5, <1>6, LeastSession
  <1>8. SUFFICES ASSUME NEW d \in Stored, dailyRows[d] # routed.basis
                 PROVE  FALSE
        OBVIOUS
  <1>9. \A e \in overlap : dailyRows[e] # routed.basis /\ dailyRows[e] = dailyRows[Least(overlap)]
        BY <1>2, <1>6, <1>7, <1>8 DEF Uniform
  <1>10. {e \in overlap : \A f \in overlap :
            f <= e => dailyRows[f] # routed.basis /\ dailyRows[f] = dailyRows[Least(overlap)]} = overlap
         BY <1>9
  <1>11. Cardinality(routed.days) >= ScaleMinDates
         BY <1>1, <1>2, WindowIsLong
  <1>12. ScaleChanged
    <2>1. Stored \cap routed.days = overlap
          BY <1>1, <1>3
    <2> QED BY <1>4, <1>10, <1>11, <2>1 DEF ScaleChanged
  <1> QED BY <1>12 DEF Upgrades

LEMMA WindowMeets ==
    ASSUME NEW s \in Nat, NEW S \in SUBSET (1..s), Window(s) \subseteq S
    PROVE  Window(s) # 1..s => Cardinality(S \cap Window(s)) >= ScaleMinDates
  <1>1. S \cap Window(s) = Window(s)
        OBVIOUS
  <1> QED BY <1>1, WindowIsLong

(* What a completed pass leaves.                                           *)
Checked ==
    /\ pass' = "checked" /\ routed' = routed
    /\ scaleVerdict' \in {"success", "partial", "failed"}
    /\ \/ dailyRows' = dailyRows /\ (scaleVerdict' = "success" => routed.days = {})
       \/ /\ routed.days # {} /\ Stored' # {} /\ Stored' \subseteq 1..session
          /\ dailyRows' \in [Sessions -> 0..MaxBases]
          /\ whole => /\ \A d \in Stored' : dailyRows'[d] = routed.basis
                      /\ Window(session) \subseteq Stored'
    /\ routed.flawed => Stored \subseteq Stored'

LEMMA PersistedWhole ==
    ASSUME SyncInv, NEW days, Persist(TRUE, days),
           \/ pass = "fetched" /\ mode = "full"
           \/ pass = "refetched"
    PROVE  Checked
  <1>1. /\ pass' = "checked" /\ routed' = routed
        /\ \/ /\ routed.error \/ routed.days = {}
              /\ scaleVerdict' = IF routed.error THEN "failed" ELSE "success"
              /\ dailyRows' = dailyRows
           \/ /\ ~routed.error /\ routed.days # {}
              /\ dailyRows' = ReplaceHistory(routed)
              /\ scaleVerdict' = "success"
        BY DEF Persist, Refused
  <1>2. CASE dailyRows' = dailyRows /\ (routed.error \/ routed.days = {})
               /\ scaleVerdict' = IF routed.error THEN "failed" ELSE "success"
    <2>1. Stored' = Stored
          BY <1>2 DEF Stored
    <2>2. scaleVerdict' \in {"success", "partial", "failed"} /\ (scaleVerdict' = "success" => routed.days = {})
          BY <1>2
    <2> QED BY <1>1, <1>2, <2>1, <2>2 DEF Checked
  <1>3. CASE ~routed.error /\ routed.days # {} /\ dailyRows' = ReplaceHistory(routed) /\ scaleVerdict' = "success"
    <2>1. /\ dailyRows' \in [Sessions -> 0..MaxBases]
          /\ Stored' = routed.days
          /\ \A d \in Stored' : dailyRows'[d] = routed.basis
          BY <1>3, ReplacedRows
    <2>2. Stored' \subseteq 1..session
          BY <2>1, RoutedTypes
    <2>3. whole => routed.days = 1..session
          BY <1>3 DEF SyncInv, WholeAnswers, Asks
    <2>4. whole => Window(session) \subseteq Stored'
          BY <2>1, <2>3 DEF Window
    <2>5. ~routed.flawed
          BY <1>3 DEF SyncInv, AnswerRouted
    <2> QED BY <1>1, <1>3, <2>1, <2>2, <2>4, <2>5 DEF Checked
  <1> QED BY <1>1, <1>2, <1>3

LEMMA PersistedRows ==
    ASSUME SyncInv, NEW days, Persist(FALSE, days), pass = "fetched", ~Upgrades
    PROVE  Checked
  <1>1. /\ pass' = "checked" /\ routed' = routed
        /\ \/ /\ routed.days = {}
              /\ scaleVerdict' = IF routed.error THEN "failed" ELSE "success"
              /\ dailyRows' = dailyRows
           \/ /\ routed.days # {}
              /\ dailyRows' = UpsertRows(routed)
              /\ scaleVerdict' \in {"partial", "success"}
        BY DEF Persist, Refused
  <1>2. CASE dailyRows' = dailyRows /\ routed.days = {}
               /\ scaleVerdict' = IF routed.error THEN "failed" ELSE "success"
    <2>1. Stored' = Stored
          BY <1>2 DEF Stored
    <2>2. scaleVerdict' \in {"success", "partial", "failed"}
          BY <1>2
    <2> QED BY <1>1, <1>2, <2>1, <2>2 DEF Checked
  <1>3. CASE routed.days # {} /\ dailyRows' = UpsertRows(routed) /\ scaleVerdict' \in {"partial", "success"}
    <2>1. /\ dailyRows' \in [Sessions -> 0..MaxBases]
          /\ Stored' = Stored \cup routed.days
          /\ \A d \in routed.days : dailyRows'[d] = routed.basis
          /\ \A d \in Stored \ routed.days : dailyRows'[d] = dailyRows[d]
          BY <1>3, UpsertedRows
    <2>2. Stored' \subseteq 1..session
          BY <2>1, RoutedTypes DEF SyncInv
    <2>3. ASSUME whole
          PROVE  (\A d \in Stored' : dailyRows'[d] = routed.basis) /\ Window(session) \subseteq Stored'
      <3>1. /\ routed.days = requested /\ horizon = 1..session /\ requested \in {horizon, Window(session)}
            /\ Stored \subseteq 1..session
            BY <1>3, <2>3 DEF SyncInv, Asks, WholeAnswers
      <3>2. Window(session) \subseteq 1..session
            BY DEF Window
      <3>3. Window(session) \subseteq Stored'
            BY <2>1, <3>1, <3>2
      <3>4. CASE requested = horizon
            BY <2>1, <3>1, <3>3, <3>4
      <3>5. CASE requested # horizon
        <4>1. mode = "incremental"
              BY <3>5 DEF SyncInv, Asks, SyncTypeOK
        <4>2. \A d \in Stored : dailyRows[d] = routed.basis
              BY <1>3, <2>3, <3>5, <4>1, OverlapAgrees
        <4> QED BY <2>1, <3>3, <4>2
      <3> QED BY <3>4, <3>5
    <2> QED BY <1>1, <1>3, <2>1, <2>2, <2>3 DEF Checked
  <1> QED BY <1>1, <1>2, <1>3

LEMMA CheckedIsSound ==
    ASSUME SyncInv, Checked, pass \in {"fetched", "refetched"},
           UNCHANGED <<session, basis, mode, retrying, requested, horizon, whole, syncs>>
    PROVE  SyncInv'
  <1>1. /\ pass' = "checked" /\ routed' = routed /\ session' = session /\ mode' = mode
        /\ requested' = requested /\ horizon' = horizon /\ whole' = whole
        /\ basis' = basis /\ retrying' = retrying /\ syncs' = syncs
        BY DEF Checked
  <1>2. Stored' \subseteq 1..session /\ dailyRows' \in [Sessions -> 0..MaxBases]
    <2>1. CASE dailyRows' = dailyRows
      <3>1. Stored' = Stored
            BY <2>1 DEF Stored
      <3> QED BY <2>1, <3>1 DEF SyncInv, SyncTypeOK
    <2>2. CASE dailyRows' # dailyRows
          BY <2>2 DEF Checked
    <2> QED BY <2>1, <2>2
  <1>3. SyncTypeOK'
        BY <1>1, <1>2 DEF SyncInv, SyncTypeOK, Checked
  <1>4. RoutedType' = RoutedType
        BY <1>1 DEF RoutedType
  <1>5. (Stored \subseteq 1..session)'
        BY <1>1, <1>2
  <1>6. Asks'
    <2>1. Stored' = {} => Stored = {}
          BY DEF Checked, Stored
    <2>2. Window(session)' = Window(session)
          BY <1>1 DEF Window
    <2> QED BY <1>1, <2>1, <2>2 DEF SyncInv, Asks
  <1>7. AnswerRouted'
        BY <1>1 DEF SyncInv, AnswerRouted
  <1>8. ASSUME whole
        PROVE  WholeAnswers'
    <2>1. CASE dailyRows' = dailyRows /\ (scaleVerdict' = "success" => routed.days = {})
      <3>1. Stored' = Stored
            BY <2>1 DEF Stored
      <3>2. Uniform'
            BY <1>8, <2>1, <3>1 DEF SyncInv, WholeAnswers, Uniform
      <3>3. Stored' # {} => Meets(session)'
            BY <1>1, <1>8, <3>1 DEF SyncInv, WholeAnswers, Meets, Window
      <3> QED BY <1>1, <2>1, <3>2, <3>3 DEF WholeAnswers
    <2>2. CASE /\ \A d \in Stored' : dailyRows'[d] = routed.basis
               /\ Window(session) \subseteq Stored'
      <3>1. Uniform'
            BY <2>2 DEF Uniform
      <3>5. PICK S : S = Stored'
            OBVIOUS
      <3>6. PICK n \in Nat : n = session
            BY RoutedTypes
      <3>2. S = Stored' /\ n = session
            BY <3>5, <3>6
      <3>3. Window(n) # 1..n => Cardinality(S \cap Window(n)) >= ScaleMinDates
            BY <1>2, <2>2, <3>2, WindowMeets
      <3>4. Meets(session)'
            BY <1>1, <3>2, <3>3 DEF Meets, Window
      <3> QED BY <1>1, <2>2, <3>1, <3>4 DEF WholeAnswers
    <2> QED BY <1>8, <2>1, <2>2 DEF Checked
  <1> QED BY <1>1, <1>3, <1>4, <1>5, <1>6, <1>7, <1>8 DEF SyncInv

-----------------------------------------------------------------------------
(* The steps of a run.                                                     *)

LEMMA DownloadIsSound ==
    ASSUME SyncInv, NEW days \in SUBSET horizon, DownloadOf(days),
           UNCHANGED <<session, basis, dailyRows, mode, retrying, requested, horizon,
                       scaleVerdict, whole, syncs>>,
           \/ pass' = "fetched" /\ days = requested
           \/ pass' = "refetched" /\ days = horizon,
           pass # "idle"
    PROVE  SyncInv'
  <1>1. /\ session' = session /\ mode' = mode /\ dailyRows' = dailyRows /\ scaleVerdict' = scaleVerdict
        /\ requested' = requested /\ horizon' = horizon /\ whole' = whole
        /\ basis' = basis /\ retrying' = retrying /\ syncs' = syncs
        OBVIOUS
  <1>2. Stored' = Stored
        BY <1>1 DEF Stored
  <1>3. SyncTypeOK'
    <2>1. /\ routed'.days \subseteq horizon /\ routed'.sources \subseteq Providers
          /\ routed'.basis \in 0..MaxBases /\ routed'.error \in BOOLEAN /\ routed'.flawed \in BOOLEAN
          BY DEF DownloadOf, RoutedType
    <2> QED BY <1>1, <2>1 DEF SyncInv, SyncTypeOK
  <1>4. (routed \in RoutedType)'
        BY <1>1 DEF DownloadOf, RoutedType
  <1>5. Asks'
        BY <1>1, <1>2 DEF SyncInv, Asks, Window
  <1>6. AnswerRouted'
    <2>1. basis # 0
          BY SyncNumbers DEF SyncInv, SyncTypeOK
    <2> QED BY <1>1, <2>1 DEF DownloadOf, AnswerRouted
  <1>7. ASSUME whole
        PROVE  WholeAnswers'
    <2>1. Uniform' /\ (Stored' # {} => Meets(session)')
          BY <1>1, <1>2, <1>7 DEF SyncInv, WholeAnswers, Uniform, Meets, Window
    <2>2. routed'.days \in {{}, days}
          BY <1>7 DEF DownloadOf
    <2> QED BY <1>1, <2>1, <2>2 DEF WholeAnswers
  <1> QED BY <1>1, <1>2, <1>3, <1>4, <1>5, <1>6, <1>7 DEF SyncInv

(* A step that leaves the rows and the download alone.                     *)
LEMMA AloneIsSound ==
    ASSUME SyncInv, SyncTypeOK', Asks',
           UNCHANGED <<dailyRows, routed, whole, session>>,
           pass' \in {"idle", "fetch"} \/ UNCHANGED <<pass, requested, horizon, scaleVerdict>>
    PROVE  SyncInv'
  <1>1. Stored' = Stored /\ session' = session /\ routed' = routed /\ whole' = whole /\ dailyRows' = dailyRows
        BY DEF Stored
  <1>2. (routed \in RoutedType)' /\ (Stored \subseteq 1..session)'
        BY <1>1 DEF SyncInv, RoutedType
  <1>3. AnswerRouted'
        BY <1>1 DEF SyncInv, AnswerRouted
  <1>4. ASSUME whole
        PROVE  WholeAnswers'
    <2>1. Uniform' /\ (Stored' # {} => Meets(session)')
          BY <1>1, <1>4 DEF SyncInv, WholeAnswers, Uniform, Meets, Window
    <2> QED BY <1>1, <1>4, <2>1 DEF SyncInv, WholeAnswers
  <1> QED BY <1>1, <1>2, <1>3, <1>4 DEF SyncInv

LEMMA NewSessionIsSound ==
    ASSUME SyncInv, NewSession
    PROVE  SyncInv'
  <1>1. /\ session \in 1..LastSession /\ LastSession \in Nat /\ RefreshDays \in Nat /\ ScaleMinDates \in Nat
        /\ session < LastSession
        BY SyncNumbers, RoutedTypes DEF NewSession
  <1>2. /\ session' = session + 1 /\ pass' = pass /\ pass = "idle" /\ routed' = routed
        /\ dailyRows' = dailyRows /\ mode' = mode /\ requested' = requested /\ horizon' = horizon
        /\ whole' = whole /\ scaleVerdict' = scaleVerdict
        /\ basis' = basis /\ retrying' = retrying /\ syncs' = syncs
        BY DEF NewSession
  <1>3. Stored' = Stored
        BY <1>2 DEF Stored
  <1>4. horizon = {} /\ requested = {} /\ Stored \subseteq 1..session
        BY <1>2 DEF SyncInv, Asks
  <1>5. 1..session \subseteq 1..(session + 1)
        BY <1>1
  <1>6. SyncTypeOK'
    <2>1. session' \in Sessions
          BY <1>1, <1>2 DEF Sessions
    <2> QED BY <1>2, <1>4, <2>1 DEF SyncInv, SyncTypeOK
  <1>7. (routed \in RoutedType)'
        BY <1>2, <1>5 DEF SyncInv, RoutedType
  <1>8. Asks' /\ AnswerRouted'
        BY <1>2, <1>4 DEF SyncInv, Asks, AnswerRouted
  <1>9. ASSUME Stored # {}
        PROVE  Meets(session + 1)
    <2>1. PICK T : T = Stored \cap ((session + 2 - RefreshDays)..session)
          OBVIOUS
    <2>2. Cardinality(T) >= ScaleMinDates
          BY <1>9, <2>1 DEF NewSession
    <2>3. PICK U : U = Stored \cap Window(session + 1)
          OBVIOUS
    <2>4. T \subseteq U
      <3>1. \A d \in T : d \in Stored /\ d \in 1..(session + 1) /\ d > session + 1 - RefreshDays
            BY <1>1, <1>4, <1>5, <2>1
      <3>2. PICK k : k = session + 1
            OBVIOUS
      <3>4. \A d \in T : d \in 1..k /\ d > k - RefreshDays
            BY <1>1, <3>1, <3>2
      <3>5. Window(k) = {e \in 1..k : e > k - RefreshDays}
            BY DEF Window
      <3> QED BY <2>3, <3>1, <3>2, <3>4, <3>5
    <2>5. PICK n \in Nat : n = session
          BY <1>1
    <2>6. U \in SUBSET (1..n)
          BY <1>4, <2>3, <2>5
    <2>7. Cardinality(T) <= Cardinality(U) /\ Cardinality(T) \in Nat /\ Cardinality(U) \in Nat
          BY <2>4, <2>5, <2>6, SessionsCount
    <2>8. Cardinality(U) >= ScaleMinDates
          BY <1>1, <2>2, <2>7
    <2> QED BY <2>3, <2>8 DEF Meets
  <1>10. ASSUME whole
         PROVE  WholeAnswers'
    <2>1. Uniform'
          BY <1>2, <1>3, <1>10 DEF SyncInv, WholeAnswers, Uniform
    <2>2. Stored' # {} => Meets(session)'
          BY <1>2, <1>3, <1>9 DEF Meets, Window
    <2> QED BY <1>2, <2>1, <2>2 DEF WholeAnswers
  <1> QED BY <1>2, <1>3, <1>4, <1>5, <1>6, <1>7, <1>8, <1>10 DEF SyncInv

LEMMA StartIsSound ==
    ASSUME SyncInv, NEW m \in {"incremental", "full"}, StartSync(m)
    PROVE  SyncInv'
  <1>1. /\ session' = session /\ routed' = routed /\ dailyRows' = dailyRows /\ whole' = whole /\ basis' = basis
        /\ pass' = "fetch" /\ mode' = m /\ retrying' = FALSE /\ scaleVerdict' = "none"
        /\ horizon' = 1..session /\ syncs' = syncs + 1 /\ syncs < MaxSyncs
        /\ requested' = IF m = "incremental" /\ Stored # {} THEN Window(session) ELSE 1..session
        BY DEF StartSync, Window
  <1>2. requested' \subseteq horizon'
        BY <1>1 DEF Window
  <1>3. SyncTypeOK'
    <2>1. syncs' \in 0..MaxSyncs
          BY <1>1, SyncNumbers DEF SyncInv, SyncTypeOK
    <2>2. routed.days \subseteq 1..session
          BY RoutedTypes
    <2> QED BY <1>1, <1>2, <2>1, <2>2 DEF SyncInv, SyncTypeOK
  <1>4. Stored' = Stored /\ Window(session)' = Window(session)
        BY <1>1 DEF Stored, Window
  <1>5. Asks'
        BY <1>1, <1>4 DEF Asks
  <1> QED BY <1>1, <1>3, <1>5, AloneIsSound

LEMMA FinishIsSound ==
    ASSUME SyncInv, FinishSync
    PROVE  SyncInv'
  <1>1. /\ session' = session /\ routed' = NoDownload /\ dailyRows' = dailyRows /\ whole' = whole /\ basis' = basis
        /\ pass' = "idle" /\ mode' = mode /\ retrying' = FALSE /\ scaleVerdict' \in {scaleVerdict, "partial"}
        /\ horizon' = {} /\ requested' = {} /\ syncs' = syncs
        BY DEF FinishSync
  <1>2. Stored' = Stored
        BY <1>1 DEF Stored
  <1>3. 0 \in 0..MaxBases
        BY SyncNumbers
  <1>4. /\ routed'.days = {} /\ routed'.sources = {} /\ routed'.basis = 0 /\ routed'.error = FALSE
        /\ routed'.flawed = FALSE
        BY <1>1 DEF NoDownload
  <1>5. SyncTypeOK'
        BY <1>1, <1>3, <1>4 DEF SyncInv, SyncTypeOK
  <1>6. (routed \in RoutedType)'
    <2>1. NoDownload \in RoutedType
          BY <1>3, RoutedIs DEF NoDownload
    <2> QED BY <1>1, <2>1 DEF RoutedType
  <1>7. Asks'
        BY <1>1 DEF Asks
  <1>8. AnswerRouted'
        BY <1>1, <1>4, FS_EmptySet DEF AnswerRouted
  <1>9. ASSUME whole
        PROVE  WholeAnswers'
    <2>1. Uniform' /\ (Stored' # {} => Meets(session)')
          BY <1>1, <1>2, <1>9 DEF SyncInv, WholeAnswers, Uniform, Meets, Window
    <2> QED BY <1>1, <2>1 DEF WholeAnswers
  <1> QED BY <1>1, <1>2, <1>5, <1>6, <1>7, <1>8, <1>9 DEF SyncInv

LEMMA FetchIsSound ==
    ASSUME SyncInv, Fetch
    PROVE  SyncInv'
  <1>1. /\ pass = "fetch" /\ pass' = "fetched"
        /\ UNCHANGED <<session, basis, dailyRows, mode, retrying, requested, horizon,
                       scaleVerdict, whole, syncs>>
        BY DEF Fetch
  <1>2. PICK days : days = requested
        OBVIOUS
  <1>3. days \in SUBSET horizon /\ days \in SUBSET (1..session) /\ SyncTypeOK
        BY <1>2 DEF SyncInv, SyncTypeOK
  <1>4. DownloadOf(days)
    <2>1. CASE Replacing
      <3>1. Download(requested, FALSE)
            BY <2>1 DEF Fetch
      <3> QED BY <1>2, <1>3, <3>1, PlainDownload
    <2>2. CASE ~Replacing
      <3>1. Download(requested, TRUE)
            BY <2>2 DEF Fetch
      <3> QED BY <1>2, <1>3, <3>1, PatchedDownload
    <2> QED BY <2>1, <2>2
  <1> QED BY <1>1, <1>2, <1>3, <1>4, DownloadIsSound

LEMMA UpgradeIsSound ==
    ASSUME SyncInv, Upgrade
    PROVE  SyncInv'
  <1>1. /\ pass = "fetched" /\ pass' = "refetched" /\ Download(horizon, FALSE)
        /\ UNCHANGED <<session, basis, dailyRows, mode, retrying, requested, horizon,
                       scaleVerdict, whole, syncs>>
        BY DEF Upgrade
  <1>2. PICK days : days = horizon
        OBVIOUS
  <1>3. days \in SUBSET horizon /\ days \in SUBSET (1..session) /\ SyncTypeOK
        BY <1>2 DEF SyncInv, SyncTypeOK
  <1>4. DownloadOf(days)
        BY <1>1, <1>2, <1>3, PlainDownload
  <1> QED BY <1>1, <1>2, <1>3, <1>4, DownloadIsSound

(* Every writing step leaves a checked pass.                               *)
LEMMA PersistIsChecked ==
    ASSUME SyncInv, PersistFetched \/ PersistRefresh
    PROVE  /\ Checked /\ pass \in {"fetched", "refetched"}
           /\ UNCHANGED <<session, basis, mode, retrying, requested, horizon, whole, syncs>>
  <1>1. CASE PersistFetched
    <2>1. /\ pass = "fetched" /\ ~Upgrades
          /\ UNCHANGED <<session, basis, mode, retrying, requested, horizon, whole, syncs>>
          BY <1>1 DEF PersistFetched
    <2>2. Checked
      <3>1. CASE Replacing
        <4>1. Persist(TRUE, requested)
              BY <1>1, <3>1 DEF PersistFetched
        <4>2. mode = "full"
              BY <3>1 DEF Replacing
        <4> QED BY <2>1, <4>1, <4>2, PersistedWhole
      <3>2. CASE ~Replacing
        <4>1. Persist(FALSE, requested)
          <5>1. Replacing = FALSE
                BY <3>2 DEF Replacing
          <5> QED BY <1>1, <5>1, Zenon DEF PersistFetched
        <4> QED BY <2>1, <4>1, PersistedRows
      <3> QED BY <3>1, <3>2
    <2> QED BY <2>1, <2>2
  <1>2. CASE PersistRefresh
    <2>1. /\ pass = "refetched" /\ Persist(TRUE, horizon)
          /\ UNCHANGED <<session, basis, mode, retrying, requested, horizon, whole, syncs>>
          BY <1>2 DEF PersistRefresh
    <2>2. Checked
          BY <2>1, PersistedWhole
    <2> QED BY <2>1, <2>2
  <1> QED BY <1>1, <1>2

LEMMA SyncStep ==
    ASSUME SyncInv, [SyncNext]_syncVars
    PROVE  SyncInv'
  <1>1. CASE NewSession
        BY <1>1, NewSessionIsSound
  <1>2. CASE Adjust
    <2>1. SyncTypeOK'
          BY <1>2, SyncNumbers DEF Adjust, SyncInv, SyncTypeOK, Stored
    <2>2. Asks'
          BY <1>2 DEF Adjust, SyncInv, Asks, Stored, Window
    <2> QED BY <1>2, <2>1, <2>2, AloneIsSound DEF Adjust
  <1>3. ASSUME NEW m \in {"incremental", "full"}, StartSync(m)
        PROVE  SyncInv'
        BY <1>3, StartIsSound
  <1>4. CASE Fetch
        BY <1>4, FetchIsSound
  <1>5. CASE PersistFetched \/ PersistRefresh
        BY <1>5, PersistIsChecked, CheckedIsSound
  <1>6. CASE Upgrade
        BY <1>6, UpgradeIsSound
  <1>7. CASE RetryMissing
    <2>1. SyncTypeOK'
          BY <1>7 DEF RetryMissing, SyncInv, SyncTypeOK
    <2>2. Asks'
          BY <1>7 DEF RetryMissing, SyncInv, Asks, Stored, Window
    <2> QED BY <1>7, <2>1, <2>2, AloneIsSound DEF RetryMissing
  <1>8. CASE FinishSync
        BY <1>8, FinishIsSound
  <1>9. CASE UNCHANGED syncVars
    <2>1. SyncTypeOK' /\ Asks'
          BY <1>9 DEF syncVars, SyncInv, SyncTypeOK, Asks, Stored, Window
    <2> QED BY <1>9, <2>1, AloneIsSound DEF syncVars
  <1> QED BY <1>1, <1>2, <1>3, <1>4, <1>5, <1>6, <1>7, <1>8, <1>9 DEF SyncNext

LEMMA SyncStart ==
    ASSUME SyncInit
    PROVE  SyncInv
  <1>1. PICK n \in {0, 3} : dailyRows = [d \in Sessions |-> IF d <= n THEN 1 ELSE 0]
        BY DEF SyncInit
  <1>2. /\ session = 3 /\ basis = 1 /\ pass = "idle" /\ mode = "incremental" /\ retrying = FALSE
        /\ requested = {} /\ horizon = {} /\ routed = NoDownload /\ scaleVerdict = "none"
        /\ whole \in BOOLEAN /\ syncs = 0
        BY DEF SyncInit
  <1>3. /\ LastSession \in Nat /\ 3 <= LastSession /\ MaxBases \in Nat /\ 1 <= MaxBases /\ MaxSyncs \in Nat
        BY SyncNumbers
  <1>4. /\ routed.days = {} /\ routed.sources = {} /\ routed.basis = 0 /\ routed.error = FALSE
        /\ routed.flawed = FALSE
        BY <1>2 DEF NoDownload
  <1>5. \A d \in Sessions : dailyRows[d] = IF d <= n THEN 1 ELSE 0
        BY <1>1
  <1>6. Stored = 1..n
    <2>1. \A d : d \in Stored <=> d \in 1..n
          BY <1>3, <1>5, StoredIs DEF Sessions
    <2> QED BY <2>1
  <1>7. dailyRows \in [Sessions -> 0..MaxBases]
        BY <1>1, <1>3
  <1>8. SyncTypeOK
    <2>1. session \in Sessions
          BY <1>2, <1>3 DEF Sessions
    <2>2. basis \in 1..MaxBases /\ syncs \in 0..MaxSyncs /\ routed.basis \in 0..MaxBases
          BY <1>2, <1>3, <1>4
    <2>3. requested \subseteq horizon /\ horizon \subseteq 1..session /\ routed.days \subseteq horizon
          BY <1>2, <1>4
    <2>4. routed.sources \subseteq Providers /\ {routed.error, routed.flawed} \subseteq BOOLEAN
          BY <1>4
    <2> QED BY <1>2, <1>7, <2>1, <2>2, <2>3, <2>4 DEF SyncTypeOK
  <1>9. routed \in RoutedType
    <2>1. 0 \in 0..MaxBases
          BY <1>3
    <2> QED BY <1>2, <2>1, RoutedIs DEF NoDownload
  <1>10. Asks /\ AnswerRouted
         BY <1>2, <1>4, FS_EmptySet DEF Asks, AnswerRouted
  <1>11. WholeAnswers
    <2>1. Uniform
          BY <1>3, <1>5, <1>6 DEF Uniform, Sessions
    <2>2. Stored # {} => Meets(session)
      <3>1. CASE n = 0
            BY <1>6, <3>1
      <3>2. CASE n = 3
        <4>1. Stored = 1..session /\ session \in Nat /\ Window(session) \subseteq 1..session
              BY <1>2, <1>6, <3>2 DEF Window
        <4> QED BY <4>1, WindowMeets DEF Meets
      <3> QED BY <3>1, <3>2
    <2> QED BY <1>2, <1>4, <2>1, <2>2 DEF WholeAnswers
  <1>12. Stored \subseteq 1..session
         BY <1>2, <1>6
  <1> QED BY <1>8, <1>9, <1>10, <1>11, <1>12 DEF SyncInv

(* Stored sessions leave by an answer without an error, a run that ends    *)
(* well leaves one basis, and no answer joins two providers: for calendars *)
(* and windows of every length (_persist_daily_result,                     *)
(* _has_adjustment_scale_change, _route_bars).                             *)
THEOREM HistoryKept == SyncSpec => HistoryIsSound
  <1>1. SyncInit => SyncInv
        BY SyncStart
  <1>2. SyncInv /\ [SyncNext]_syncVars => SyncInv'
        BY SyncStep
  <1>3. SyncInv => OneProvider
        BY DEF SyncInv, AnswerRouted, OneProvider
  <1>4. SyncInv /\ [SyncNext]_syncVars => [routed.flawed => Stored \subseteq Stored']_syncVars
    <2> SUFFICES ASSUME SyncInv, SyncNext, routed.flawed
                 PROVE  Stored \subseteq Stored'
        OBVIOUS
    <2>1. CASE PersistFetched \/ PersistRefresh
          BY <2>1, PersistIsChecked DEF Checked
    <2>2. CASE ~(PersistFetched \/ PersistRefresh)
      <3>1. dailyRows' = dailyRows
            BY <2>2 DEF SyncNext, NewSession, Adjust, StartSync, Fetch, Upgrade, RetryMissing, FinishSync
      <3> QED BY <3>1 DEF Stored
    <2> QED BY <2>1, <2>2
  <1>5. SyncInv /\ [SyncNext]_syncVars =>
          [ pass = "checked" /\ pass' = "idle" /\ whole /\ scaleVerdict' = "success" /\ routed.days # {}
              => \A d \in Stored : dailyRows[d] = routed.basis ]_syncVars
    <2> SUFFICES ASSUME SyncInv, SyncNext, pass = "checked", pass' = "idle", whole,
                        scaleVerdict' = "success", routed.days # {}
                 PROVE  \A d \in Stored : dailyRows[d] = routed.basis
        OBVIOUS
    <2>1. FinishSync
          BY DEF SyncNext, NewSession, Adjust, StartSync, Fetch, PersistFetched, PersistRefresh, Persist,
                 Upgrade, RetryMissing
    <2>2. scaleVerdict = "success"
          BY <2>1 DEF FinishSync
    <2> QED BY <2>2 DEF SyncInv, WholeAnswers
  <1> QED BY <1>1, <1>2, <1>3, <1>4, <1>5, PTL DEF SyncSpec, HistoryIsSound, RowsLeaveCleanly, OneBasis

-----------------------------------------------------------------------------
(* QuantReleases                                                           *)

(* Accepted models have their files until their row is gone; releases and  *)
(* what executions froze only name models that are accepted for good.      *)
RelInv ==
    /\ RelTypeOK
    /\ active = {} \/ \E p \in Pairs : active = {p}
    /\ \A m \in unlinking : model[m] = "deleted"
    /\ \A m \in Models : model[m] \in Released => m \in artifacts
    /\ \A e \in Readers : reading[e] \subseteq releases
    /\ \A m \in Parts(releases) : model[m] \in {"production", "retired"}
    /\ ProductionIsRelease

LEMMA PartIsModels == \A p \in Pairs : Part(p) \subseteq Models
  BY DEF Pairs, Part, Models

LEMMA RelInvInit == RelInit => RelInv
<1> SUFFICES ASSUME RelInit PROVE RelInv
  OBVIOUS
<1>1. Cardinality({}) = 0
  BY FS_EmptySet
<1>2. QED
  BY <1>1 DEF RelInit, RelInv, RelTypeOK, ProductionIsRelease, Parts, Released

LEMMA PublishStep == ASSUME RelInv, NEW p \in Pairs, PublishRelease(p) PROVE RelInv'
<1> USE DEF RelInv, RelTypeOK, PublishRelease
<1>1. CASE ~Publishable(p)
  BY <1>1 DEF ProductionIsRelease
<1>2. CASE Publishable(p)
  <2>1. /\ model' = [m \in Models |->
                       IF m \in Part(p) THEN "production"
                       ELSE IF model[m] = "production" THEN "retired" ELSE model[m]]
        /\ releases' = releases \cup {p} /\ active' = {p}
        /\ UNCHANGED <<artifacts, unlinking, reading>> /\ checked' = checked \ {p}
    BY <1>2
  <2>2. Part(p) \subseteq Models
    BY PartIsModels
  <2>3. \A m \in Part(p) : model[m] \in Released
    BY <1>2 DEF Publishable
  <2>4. Cardinality(active') <= 1
    <3>1. Cardinality({p}) = 1
      BY FS_Singleton
    <3>2. QED
      BY <2>1, <3>1
  <2>5. RelTypeOK'
    BY <2>1, <2>4 DEF Released
  <2>6. \A m \in unlinking' : model'[m] = "deleted"
    (* The files that go next are not those of the pair. *)
    BY <2>1, <2>3 DEF Released
  <2>7. \A m \in Models : model'[m] \in Released => m \in artifacts'
    BY <2>1, <2>3 DEF Released
  <2>8. Parts(releases') = Parts(releases) \cup Part(p)
    BY <2>1 DEF Parts
  <2>9. \A m \in Parts(releases') : model'[m] \in {"production", "retired"}
    <3>1. Parts(releases) \subseteq Models
      BY PartIsModels DEF Parts
    <3>2. QED
      BY <2>1, <2>2, <2>8, <3>1
  <2>10. ProductionIsRelease'
    <3>1. Parts(active') = Part(p)
      BY <2>1 DEF Parts
    <3>2. {m \in Models : model'[m] = "production"} = Part(p)
      BY <2>1, <2>2
    <3>3. QED
      BY <3>1, <3>2 DEF ProductionIsRelease
  <2>11. QED
    BY <2>1, <2>5, <2>6, <2>7, <2>9, <2>10
<1>3. QED
  BY <1>1, <1>2

LEMMA RelInvNext == RelInv /\ [RelNext]_relVars => RelInv'
<1> SUFFICES ASSUME RelInv, [RelNext]_relVars PROVE RelInv'
  OBVIOUS
<1> USE DEF RelInv, RelTypeOK, ProductionIsRelease
<1>0. Parts(releases) \subseteq Models /\ Parts(active) \subseteq Parts(releases)
  BY PartIsModels DEF Parts
<1>1. ASSUME NEW m \in Models, TrainingEnds(m) PROVE RelInv'
  <2>1. model[m] = "training" /\ m \notin Parts(releases)
    BY <1>0, <1>1 DEF TrainingEnds
  <2>2. PICK to \in {"candidate", "failed"} :
          /\ model' = [model EXCEPT ![m] = to] /\ artifacts' \in {artifacts, artifacts \cup {m}}
          /\ to = "candidate" => artifacts' = artifacts \cup {m}
    BY <1>1 DEF TrainingEnds
  <2>3. {n \in Models : model'[n] = "production"} = {n \in Models : model[n] = "production"}
    BY <2>1, <2>2
  <2>4. QED
    BY <1>0, <1>1, <2>1, <2>2, <2>3 DEF TrainingEnds, Released
<1>2. ASSUME NEW m \in Models, DeleteModel(m) PROVE RelInv'
  <2>1. model[m] \in {"candidate", "retired", "failed"} /\ m \notin Parts(releases)
    BY <1>2 DEF DeleteModel, Deletable
  <2>2. model' = [model EXCEPT ![m] = "deleted"] /\ unlinking' \subseteq unlinking \cup {m}
    BY <1>2 DEF DeleteModel
  <2>3. {n \in Models : model'[n] = "production"} = {n \in Models : model[n] = "production"}
    BY <2>1, <2>2
  <2>4. QED
    BY <1>0, <1>2, <2>1, <2>2, <2>3 DEF DeleteModel, Released
<1>3. ASSUME NEW m \in Models, RemoveArtifact(m) PROVE RelInv'
  BY <1>3 DEF RemoveArtifact, Released
<1>4. ASSUME NEW p \in Pairs, CheckFiles(p) PROVE RelInv'
  BY <1>4 DEF CheckFiles
<1>5. ASSUME NEW p \in Pairs, PublishRelease(p) PROVE RelInv'
  BY <1>5, PublishStep
<1>6. ASSUME NEW e \in Readers, FreezeRelease(e) PROVE RelInv'
  BY <1>6 DEF FreezeRelease
<1>7. ASSUME NEW e \in Readers, ReadEnds(e) PROVE RelInv'
  BY <1>7 DEF ReadEnds
<1>8. CASE UNCHANGED relVars
  BY <1>8 DEF relVars
<1>9. QED
  BY <1>1, <1>2, <1>3, <1>4, <1>5, <1>6, <1>7, <1>8 DEF RelNext

(* Whatever a release or an execution names stays accepted and keeps its   *)
(* files, and the production models are the active release's, for any      *)
(* models and executions.  (publish_release, delete_model_run,             *)
(* _remove_artifact)                                                       *)
THEOREM ReleasesKept == RelSpec => []ReleasesAreKept
<1>1. RelInv => ReleasesAreKept
  <2> SUFFICES ASSUME RelInv, NEW m \in Parts(releases) \cup UNION {Parts(reading[e]) : e \in Readers}
               PROVE  m \in artifacts /\ model[m] \in {"production", "retired"} /\ m \notin unlinking
    BY DEF ReleasesAreKept, ReleasedIsKept, RelInv
  <2>1. m \in Parts(releases)
    BY DEF RelInv, Parts
  <2>2. m \in Models
    BY <2>1, PartIsModels DEF RelInv, RelTypeOK, Parts
  <2>3. QED
    BY <2>1, <2>2 DEF RelInv, Released
<1>2. QED
  BY <1>1, RelInvInit, RelInvNext, PTL DEF RelSpec

-----------------------------------------------------------------------------
(* Portfolio                                                               *)

LEMMA LeastOne ==
    ASSUME NEW S \in SUBSET Nat, S # {}
    PROVE  \E x \in S : \A y \in S : x <= y
  <1> DEFINE R == {ss \in Nat \X Nat : ss[1] < ss[2]}
  <1>1. IsWellFoundedOn(R, Nat)
        BY NatLessThanWellFounded DEF OpToRel
  <1>2. \A x, y \in Nat : <<y, x>> \in R <=> y < x
        OBVIOUS
  <1> HIDE DEF R
  <1>3. PICK x \in S : \A y \in S : ~ (<<y, x>> \in R)
        BY <1>1, WFMin
  <1>4. \A y \in S : x <= y
    <2> TAKE y \in S
    <2>1. x \in Nat /\ y \in Nat
          OBVIOUS
    <2>2. ~ (<<y, x>> \in R)
          BY <1>3
    <2>3. ~ (y < x)
          BY <1>2, <2>1, <2>2
    <2> QED BY <2>1, <2>3
  <1> QED BY <1>4

LEMMA LeastOfNaturals ==
    ASSUME NEW S \in SUBSET Nat, S # {}
    PROVE  Min(S) \in S
  BY LeastOne DEF Min

---------------------------------------------------------------------------
(* Finite sums.  The sum over a set unfolds by taking one element after    *)
(* the other; that it does not depend on which is a least counterexample   *)
(* away, and so is that it exists.                                         *)

(* Of a family of finite sets one is the smallest.                         *)
LEMMA SmallestOne ==
    ASSUME NEW F, F # {}, \A S \in F : IsFiniteSet(S)
    PROVE  \E S \in F : \A T \in F : Cardinality(S) <= Cardinality(T)
  <1> DEFINE sizes == {Cardinality(S) : S \in F}
  <1>1. sizes \in SUBSET Nat /\ sizes # {}
        BY FS_CardinalityType
  <1>2. PICK n \in sizes : \A m \in sizes : n <= m
        BY <1>1, LeastOne
  <1>3. PICK S \in F : n = Cardinality(S)
        BY <1>2
  <1> QED BY <1>2, <1>3

LEMMA FewerLeft ==
    ASSUME NEW S, IsFiniteSet(S), NEW x \in S
    PROVE  /\ IsFiniteSet(S \ {x})
           /\ Cardinality(S) \in Nat /\ Cardinality(S \ {x}) \in Nat
           /\ Cardinality(S) = Cardinality(S \ {x}) + 1
  <1>1. IsFiniteSet(S \ {x}) /\ Cardinality(S \ {x}) = Cardinality(S) - 1
        BY FS_RemoveElement
  <1>2. Cardinality(S) \in Nat /\ Cardinality(S \ {x}) \in Nat
        BY <1>1, FS_CardinalityType
  <1> QED BY <1>1, <1>2

One(s) == CHOOSE x \in s : TRUE

LEMMA OneIn == ASSUME NEW s, s # {} PROVE One(s) \in s
  BY DEF One

(* A sum of f over the subsets of S.                                       *)
Sums(f, S, g) ==
    g = [s \in SUBSET S |-> IF s = {} THEN 0 ELSE f[One(s)] + g[s \ {One(s)}]]
Sum(f, S) == (CHOOSE g : Sums(f, S, g))[S]

LEMMA SumsAt ==
    ASSUME NEW f, NEW S, NEW g, Sums(f, S, g), NEW s \in SUBSET S
    PROVE  IF s = {} THEN g[s] = 0 ELSE g[s] = f[One(s)] + g[s \ {One(s)}]
  BY DEF Sums

LEMMA SumsAgree ==
    ASSUME NEW f, NEW S, NEW T, NEW g, NEW h, Sums(f, S, g), Sums(f, T, h),
           NEW u, u \subseteq S, u \subseteq T, IsFiniteSet(u)
    PROVE  g[u] = h[u]
  <1> DEFINE bad == {s \in SUBSET u : g[s] # h[s]}
  <1>1. SUFFICES ASSUME bad # {} PROVE FALSE
        OBVIOUS
  <1>2. \A s \in bad : IsFiniteSet(s)
        BY FS_Subset
  <1>3. PICK s \in bad : \A t \in bad : Cardinality(s) <= Cardinality(t)
        BY <1>1, <1>2, SmallestOne
  <1>4. s # {}
        BY SumsAt
  <1>5. One(s) \in s /\ IsFiniteSet(s)
        BY <1>2, <1>4, OneIn
  <1>6. s \ {One(s)} \notin bad
    <2>1. /\ Cardinality(s) \in Nat /\ Cardinality(s \ {One(s)}) \in Nat
          /\ Cardinality(s) = Cardinality(s \ {One(s)}) + 1
          BY <1>5, FewerLeft
    <2>2. ~ (Cardinality(s) <= Cardinality(s \ {One(s)}))
          BY <2>1
    <2> HIDE DEF bad
    <2> QED BY <1>3, <2>2
  <1>7. g[s \ {One(s)}] = h[s \ {One(s)}]
        BY <1>6
  <1>8. g[s] = f[One(s)] + g[s \ {One(s)}] /\ h[s] = f[One(s)] + h[s \ {One(s)}]
        BY <1>4, SumsAt
  <1> QED BY <1>7, <1>8

LEMMA SumsExist ==
    ASSUME NEW f, NEW U, IsFiniteSet(U)
    PROVE  \E g : Sums(f, U, g)
  <1> DEFINE bad == {S \in SUBSET U : ~ \E g : Sums(f, S, g)}
  <1>1. SUFFICES ASSUME bad # {} PROVE FALSE
        OBVIOUS
  <1>2. \A S \in bad : IsFiniteSet(S)
        BY FS_Subset
  <1>3. PICK S \in bad : \A T \in bad : Cardinality(S) <= Cardinality(T)
        BY <1>1, <1>2, SmallestOne
  <1> DEFINE at(t) == (CHOOSE h : Sums(f, t, h))
             g == [s \in SUBSET S |-> IF s = {} THEN 0 ELSE f[One(s)] + at(s \ {One(s)})[s \ {One(s)}]]
  <1>4. \A t \in SUBSET S : t # S => Sums(f, t, at(t))
    <2> SUFFICES ASSUME NEW t \in SUBSET S, t # S PROVE \E h : Sums(f, t, h)
        OBVIOUS
    <2>1. PICK x \in S : x \notin t
          OBVIOUS
    <2>2. IsFiniteSet(S)
          BY <1>2
    <2>3. Cardinality(t) <= Cardinality(S \ {x})
          BY <2>1, <2>2, FewerLeft, FS_Subset
    <2>4. Cardinality(t) < Cardinality(S)
          BY <2>2, <2>3, FewerLeft, FS_Subset, FS_CardinalityType
    <2>5. t \notin bad
          BY <1>3, <2>2, <2>4, FS_Subset, FS_CardinalityType
    <2> QED BY <2>5
  <1> HIDE DEF at
  <1>5. \A s \in SUBSET S : s # {} => s \ {One(s)} \in SUBSET S /\ s \ {One(s)} # S
        BY OneIn
  <1>6. \A t \in SUBSET S : t # S => g[t] = at(t)[t]
    <2> SUFFICES ASSUME NEW t \in SUBSET S, t # S PROVE g[t] = at(t)[t]
        OBVIOUS
    <2>1. Sums(f, t, at(t))
          BY <1>4
    <2>2. CASE t = {}
          BY <2>1, <2>2, SumsAt
    <2>3. CASE t # {}
      <3> DEFINE r == t \ {One(t)}
      <3>1. r \in SUBSET S /\ r # S /\ r \subseteq t
            BY <1>5, <2>3
      <3>2. Sums(f, r, at(r))
            BY <1>4, <3>1
      <3>3. IsFiniteSet(r)
            BY <1>2, <3>1, FS_Subset
      <3>4. at(t)[r] = at(r)[r]
            BY <2>1, <3>1, <3>2, <3>3, SumsAgree
      <3>5. at(t)[t] = f[One(t)] + at(t)[r]
            BY <2>1, <2>3, SumsAt
      <3> QED BY <2>3, <3>4, <3>5
    <2> QED BY <2>2, <2>3
  <1>7. \A s \in SUBSET S : g[s] = IF s = {} THEN 0 ELSE f[One(s)] + g[s \ {One(s)}]
    <2> SUFFICES ASSUME NEW s \in SUBSET S, s # {} PROVE g[s] = f[One(s)] + g[s \ {One(s)}]
        OBVIOUS
    <2>1. g[s \ {One(s)}] = at(s \ {One(s)})[s \ {One(s)}]
          BY <1>5, <1>6
    <2> QED BY <2>1
  <1>8. g = [s \in SUBSET S |-> g[s]]
        OBVIOUS
  <1>9. Sums(f, S, g)
    <2> HIDE DEF g
    <2>1. [s \in SUBSET S |-> g[s]] = [s \in SUBSET S |-> IF s = {} THEN 0 ELSE f[One(s)] + g[s \ {One(s)}]]
          BY <1>7
    <2> QED BY <1>8, <2>1 DEF Sums
  <1> QED BY <1>9

LEMMA SumIs ==
    ASSUME NEW f, NEW S, IsFiniteSet(S), NEW g, Sums(f, S, g)
    PROVE  Sum(f, S) = g[S]
  <1>1. Sums(f, S, CHOOSE h : Sums(f, S, h))
        OBVIOUS
  <1> QED BY <1>1, SumsAgree DEF Sum

LEMMA SumOfNone == ASSUME NEW f PROVE Sum(f, {}) = 0
  <1>1. IsFiniteSet({})
        BY FS_EmptySet
  <1>2. PICK g : Sums(f, {}, g)
        BY <1>1, SumsExist
  <1> QED BY <1>1, <1>2, SumIs, SumsAt

LEMMA SumFirst ==
    ASSUME NEW f, NEW S, IsFiniteSet(S), S # {}
    PROVE  Sum(f, S) = f[One(S)] + Sum(f, S \ {One(S)})
  <1> DEFINE T == S \ {One(S)}
  <1>1. IsFiniteSet(T)
        BY FS_Subset
  <1>2. PICK g : Sums(f, S, g)
        BY SumsExist
  <1>3. PICK h : Sums(f, T, h)
        BY <1>1, SumsExist
  <1>4. g[T] = h[T]
        BY <1>1, <1>2, <1>3, SumsAgree
  <1>5. Sum(f, S) = g[S] /\ Sum(f, T) = h[T]
        BY <1>1, <1>2, <1>3, SumIs
  <1>6. g[S] = f[One(S)] + g[T]
        BY <1>2, SumsAt
  <1> QED BY <1>4, <1>5, <1>6

(* A sum of natural numbers is one, in whatever order they are added.      *)
LEMMA SumIsNat ==
    ASSUME NEW D, NEW f \in [D -> Nat], NEW S \in SUBSET D, IsFiniteSet(S)
    PROVE  Sum(f, S) \in Nat
  <1> DEFINE bad == {T \in SUBSET S : Sum(f, T) \notin Nat}
  <1>1. SUFFICES ASSUME bad # {} PROVE FALSE
        OBVIOUS
  <1>2. \A T \in bad : IsFiniteSet(T)
        BY FS_Subset
  <1>3. PICK T \in bad : \A R \in bad : Cardinality(T) <= Cardinality(R)
        BY <1>1, <1>2, SmallestOne
  <1>4. T # {}
        BY <1>3, SumOfNone
  <1>5. One(T) \in T /\ IsFiniteSet(T)
        BY <1>2, <1>4, OneIn
  <1>6. T \ {One(T)} \notin bad
    <2>1. /\ Cardinality(T) \in Nat /\ Cardinality(T \ {One(T)}) \in Nat
          /\ Cardinality(T) = Cardinality(T \ {One(T)}) + 1
          BY <1>5, FewerLeft
    <2> QED BY <1>3, <2>1
  <1>7. Sum(f, T \ {One(T)}) \in Nat /\ f[One(T)] \in Nat
        BY <1>5, <1>6
  <1> QED BY <1>4, <1>5, <1>7, SumFirst

LEMMA SumWithout ==
    ASSUME NEW D, NEW f \in [D -> Nat], NEW S \in SUBSET D, IsFiniteSet(S), NEW x \in S
    PROVE  Sum(f, S) = f[x] + Sum(f, S \ {x})
  <1> DEFINE bad == {T \in SUBSET S : \E y \in T : Sum(f, T) # f[y] + Sum(f, T \ {y})}
  <1>1. SUFFICES ASSUME bad # {} PROVE FALSE
        OBVIOUS
  <1>2. \A T \in bad : IsFiniteSet(T)
        BY FS_Subset
  <1>3. PICK T \in bad : \A R \in bad : Cardinality(T) <= Cardinality(R)
        BY <1>1, <1>2, SmallestOne
  <1>4. PICK y \in T : Sum(f, T) # f[y] + Sum(f, T \ {y})
        BY <1>3
  <1> DEFINE z == One(T)
  <1>5. z \in T /\ IsFiniteSet(T)
        BY <1>2, OneIn
  <1>6. Sum(f, T) = f[z] + Sum(f, T \ {z})
        BY <1>5, SumFirst
  <1> HIDE DEF z
  <1>7. y # z
        BY <1>4, <1>6
  <1>8. ASSUME NEW w \in T PROVE T \ {w} \in SUBSET S /\ T \ {w} \notin bad /\ IsFiniteSet(T \ {w})
    <2>1. /\ Cardinality(T) \in Nat /\ Cardinality(T \ {w}) \in Nat
          /\ Cardinality(T) = Cardinality(T \ {w}) + 1 /\ IsFiniteSet(T \ {w})
          BY <1>5, FewerLeft
    <2>2. ~ (Cardinality(T) <= Cardinality(T \ {w}))
          BY <2>1
    <2>3. T \ {w} \in SUBSET S
          BY <1>3
    <2> HIDE DEF bad
    <2> QED BY <1>3, <2>1, <2>2, <2>3
  <1>9. Sum(f, T \ {z}) = f[y] + Sum(f, (T \ {z}) \ {y})
        BY <1>5, <1>7, <1>8
  <1>10. Sum(f, T \ {y}) = f[z] + Sum(f, (T \ {y}) \ {z})
        BY <1>5, <1>7, <1>8
  <1>11. (T \ {z}) \ {y} = (T \ {y}) \ {z}
        OBVIOUS
  <1>12. f[y] \in Nat /\ f[z] \in Nat /\ Sum(f, (T \ {y}) \ {z}) \in Nat
    <2>1. IsFiniteSet((T \ {y}) \ {z})
          BY <1>5, FS_Subset
    <2> QED BY <1>5, <2>1, SumIsNat
  <1>13. Sum(f, T) = f[z] + (f[y] + Sum(f, (T \ {y}) \ {z}))
        BY <1>6, <1>9, <1>11
  <1>14. f[y] + Sum(f, T \ {y}) = f[y] + (f[z] + Sum(f, (T \ {y}) \ {z}))
        BY <1>10
  <1>15. f[z] + (f[y] + Sum(f, (T \ {y}) \ {z})) = f[y] + (f[z] + Sum(f, (T \ {y}) \ {z}))
        BY <1>12
  <1> QED BY <1>4, <1>13, <1>14, <1>15

LEMMA SumWith ==
    ASSUME NEW D, NEW f \in [D -> Nat], NEW S \in SUBSET D, IsFiniteSet(S), NEW x \in D, x \notin S
    PROVE  Sum(f, S \cup {x}) = f[x] + Sum(f, S)
  <1>1. IsFiniteSet(S \cup {x}) /\ (S \cup {x}) \ {x} = S
        BY FS_AddElement
  <1> QED BY <1>1, SumWithout

LEMMA SumOfBoth ==
    ASSUME NEW D, NEW f \in [D -> Nat], NEW S \in SUBSET D, NEW T \in SUBSET D,
           IsFiniteSet(S), IsFiniteSet(T), S \cap T = {}
    PROVE  Sum(f, S \cup T) = Sum(f, S) + Sum(f, T)
  <1> DEFINE bad == {R \in SUBSET T : Sum(f, S \cup R) # Sum(f, S) + Sum(f, R)}
  <1>1. SUFFICES ASSUME bad # {} PROVE FALSE
        OBVIOUS
  <1>2. \A R \in bad : IsFiniteSet(R)
        BY FS_Subset
  <1>3. PICK R \in bad : \A Q \in bad : Cardinality(R) <= Cardinality(Q)
        BY <1>1, <1>2, SmallestOne
  <1>4. Sum(f, S) \in Nat
        BY SumIsNat
  <1>5. R # {}
    <2>1. ASSUME R = {} PROVE FALSE
      <3>1. S \cup R = S /\ Sum(f, R) = 0
            BY <2>1, SumOfNone
      <3> QED BY <1>3, <1>4, <3>1
    <2> QED BY <2>1
  <1>6. PICK x \in R : TRUE
        BY <1>5
  <1> DEFINE Q == R \ {x}
  <1>7. IsFiniteSet(R) /\ IsFiniteSet(Q) /\ Q \notin bad
    <2>1. IsFiniteSet(R)
          BY <1>2
    <2>2. /\ Cardinality(R) \in Nat /\ Cardinality(Q) \in Nat
          /\ Cardinality(R) = Cardinality(Q) + 1 /\ IsFiniteSet(Q)
          BY <2>1, FewerLeft
    <2> QED BY <1>3, <2>1, <2>2
  <1>8. Sum(f, S \cup Q) = Sum(f, S) + Sum(f, Q)
        BY <1>7
  <1>9. S \cup R = (S \cup Q) \cup {x} /\ x \notin S \cup Q /\ IsFiniteSet(S \cup Q)
        BY <1>7, FS_Union
  <1>10. Sum(f, S \cup R) = f[x] + Sum(f, S \cup Q)
        BY <1>9, SumWith
  <1>11. Sum(f, R) = f[x] + Sum(f, Q)
        BY <1>7, SumWithout
  <1>12. Sum(f, Q) \in Nat /\ f[x] \in Nat
        BY <1>7, SumIsNat
  <1> QED BY <1>3, <1>4, <1>8, <1>10, <1>11, <1>12

---------------------------------------------------------------------------

Pending(t) == step[t] \in {"account", "read", "position", "write", "commit"}

(* Who is past its account lock is alone there.                            *)
HoldsAccount(t) ==
    /\ step[t] \in {"read", "write", "commit"} => account = {t}
    /\ step[t] = "read" => Kind[t] = "buy"
    /\ step[t] = "position" => Kind[t] = "sell"

(* A sale keeps the position it has locked as it saw it.                   *)
SaleIsLocked(t) ==
    Kind[t] = "sell" /\ step[t] \in {"account", "write", "commit"} =>
      /\ target[t] \in open /\ locked[target[t]] = {t}
      /\ seen[t] = quantity[target[t]] /\ Quantity[t] <= seen[t]

(* A buy has read its position without a lock, but nobody else gets as far *)
(* as a commit while it holds the account.                                 *)
BuyIsCurrent(t) ==
    Kind[t] = "buy" /\ step[t] \in {"write", "commit"} =>
      /\ target[t] = 0 => open = {} /\ seen[t] = 0
      /\ target[t] # 0 => target[t] \in open /\ seen[t] = quantity[target[t]]

FlushedIsLocked(t) ==
    Kind[t] # "cash" /\ step[t] = "commit" /\ target[t] # 0 => locked[target[t]] = {t}

(* Receipts.                                                               *)
Claimed(t) ==
    /\ Pending(t) <=> t \in pfClaims
    /\ t \in pfClaims => \A r \in receipts : r[1] # OperationId[t]
    /\ step[t] = "ok" => \E r \in receipts : r[1] = OperationId[t]

ReceiptsAreKept ==
    /\ \A r \in receipts : \E v \in Txns : step[v] = "ok" /\ r = <<OperationId[v], Request(v)>>
    /\ \A t, u \in pfClaims : OperationId[t] = OperationId[u] => t = u

PfTypes ==
    /\ step \in [Txns -> Answers \cup {"new", "account", "read", "position", "write", "commit"}]
    /\ target \in [Txns -> Positions \cup {0}]
    /\ seen \in [Txns -> Nat]
    /\ account \subseteq Txns /\ locked \in [Positions -> SUBSET Txns]
    /\ pfClaims \subseteq Txns
    /\ quantity \in [Positions -> Nat] /\ open \subseteq Positions

OpenIsHeld == (\A p, q \in open : p = q) /\ \A p \in Positions : p \in open <=> quantity[p] # 0

PfInv ==
    /\ PfTypes /\ ReceiptsAreKept /\ OpenIsHeld /\ BookedOnce
    /\ \A t \in Txns : /\ HoldsAccount(t) /\ SaleIsLocked(t) /\ BuyIsCurrent(t)
                       /\ FlushedIsLocked(t) /\ Claimed(t)

LEMMA PfStarts == PfInit => PfInv
  <1> SUFFICES ASSUME PfInit PROVE PfInv
      OBVIOUS
  <1> USE DEF PfInit
  <1>1. PfTypes
        BY DEF PfTypes
  <1>2. ReceiptsAreKept /\ OpenIsHeld
        BY DEF ReceiptsAreKept, OpenIsHeld
  <1>3. BookedOnce
        BY DEF BookedOnce
  <1>4. \A t \in Txns : HoldsAccount(t) /\ SaleIsLocked(t) /\ BuyIsCurrent(t) /\ FlushedIsLocked(t)
        BY DEF HoldsAccount, SaleIsLocked, BuyIsCurrent, FlushedIsLocked
  <1>5. \A t \in Txns : Claimed(t)
        BY DEF Claimed, Pending
  <1> QED BY <1>1, <1>2, <1>3, <1>4, <1>5 DEF PfInv

---------------------------------------------------------------------------
(* One lemma per statement.                                                *)

(* A statement of t that leaves the rows alone.                            *)
LEMMA OnlyMoves ==
    ASSUME PfInv, NEW t \in Txns, NEW to,
           step' = [step EXCEPT ![t] = to],
           to \in Answers \cup {"new", "account", "read", "position", "write", "commit"},
           step[t] \notin Answers, to # "ok",
           to = "replayed" => \E v \in Txns : step[v] = "ok" /\ OperationId[v] = OperationId[t]
                                              /\ Request(v) = Request(t),
           target' \in [Txns -> Positions \cup {0}], seen' \in [Txns -> Nat],
           \A u \in Txns \ {t} : target'[u] = target[u] /\ seen'[u] = seen[u],
           account' \subseteq Txns, locked' \in [Positions -> SUBSET Txns],
           \A u \in Txns \ {t} : account = {u} => account' = {u},
           \A u \in Txns \ {t} : \A p \in Positions : locked[p] = {u} => locked'[p] = {u},
           pfClaims' \subseteq Txns,
           \A u \in Txns \ {t} : u \in pfClaims' <=> u \in pfClaims,
           UNCHANGED pfRows,
           HoldsAccount(t)', SaleIsLocked(t)', BuyIsCurrent(t)', FlushedIsLocked(t)', Claimed(t)',
           t \in pfClaims' => t \in pfClaims \/ \A u \in pfClaims : OperationId[u] # OperationId[t]
    PROVE  PfInv'
  <1> USE DEF pfRows
  <1>1. PfTypes'
        BY DEF PfInv, PfTypes
  <1>2. \A u \in Txns \ {t} : step'[u] = step[u]
        BY DEF PfInv, PfTypes
  <1>3. step'[t] = to
        BY DEF PfInv, PfTypes
  <1>4. \A u \in Txns : step'[u] = "ok" <=> step[u] = "ok"
        BY <1>2, <1>3 DEF Answers
  <1>5. ReceiptsAreKept'
    <2>1. \A r \in receipts' : \E v \in Txns : step'[v] = "ok" /\ r = <<OperationId[v], Request(v)>>
          BY <1>4 DEF PfInv, ReceiptsAreKept
    <2>2. \A u, v \in pfClaims' : OperationId[u] = OperationId[v] => u = v
          BY DEF PfInv, ReceiptsAreKept
    <2> QED BY <2>1, <2>2 DEF ReceiptsAreKept, Request
  <1>6. OpenIsHeld'
        BY DEF PfInv, OpenIsHeld
  <1>7. BookedOnce'
    <2>1. \A u \in Txns : step'[u] = "replayed" =>
            \E v \in Txns : step[v] = "ok" /\ OperationId[v] = OperationId[u] /\ Request(v) = Request(u)
          BY <1>2, <1>3 DEF PfInv, BookedOnce
    <2>2. \A u, v \in Txns : OperationId[u] = OperationId[v] /\ u # v => ~(step'[u] = "ok" /\ step'[v] = "ok")
          BY <1>4 DEF PfInv, BookedOnce
    <2> QED BY <1>4, <2>1, <2>2 DEF BookedOnce, Request
  <1>8. ASSUME NEW u \in Txns \ {t}
        PROVE  HoldsAccount(u)' /\ SaleIsLocked(u)' /\ BuyIsCurrent(u)' /\ FlushedIsLocked(u)' /\ Claimed(u)'
    <2>1. step'[u] = step[u] /\ target'[u] = target[u] /\ seen'[u] = seen[u]
          BY <1>2
    <2>2. HoldsAccount(u)'
          BY <2>1 DEF PfInv, HoldsAccount
    <2>3. target[u] \in Positions \/ target[u] = 0
          BY DEF PfInv, PfTypes
    <2>4. open \subseteq Positions
          BY DEF PfInv, PfTypes
    <2>5. \A p \in Positions : locked[p] = {u} => locked'[p] = {u}
          OBVIOUS
    <2>10. target'[u] = target[u] /\ open' = open /\ quantity' = quantity
          BY <2>1
    <2>11. SaleIsLocked(u) /\ FlushedIsLocked(u)
          BY DEF PfInv
    <2>7. SaleIsLocked(u)'
          BY <2>1, <2>4, <2>5, <2>10, <2>11 DEF SaleIsLocked
    <2>8. BuyIsCurrent(u)'
          BY <2>1 DEF PfInv, BuyIsCurrent
    <2>9. FlushedIsLocked(u)'
          BY <2>1, <2>3, <2>5, <2>11 DEF FlushedIsLocked
    <2>6. Claimed(u)'
          BY <2>1 DEF PfInv, Claimed, Pending
    <2> QED BY <2>2, <2>6, <2>7, <2>8, <2>9
  <1> QED BY <1>1, <1>5, <1>6, <1>7, <1>8 DEF PfInv

LEMMA ReleasesRows ==
    ASSUME PfTypes, NEW t \in Txns, PfRelease(t)
    PROVE  /\ account' \subseteq Txns /\ locked' \in [Positions -> SUBSET Txns]
           /\ pfClaims' \subseteq Txns /\ t \notin pfClaims'
           /\ \A u \in Txns \ {t} :
                /\ account = {u} => account' = {u}
                /\ \A p \in Positions : locked[p] = {u} => locked'[p] = {u}
                /\ u \in pfClaims' <=> u \in pfClaims
  BY DEF PfTypes, PfRelease

(* A transaction that ends without a commit.                               *)
LEMMA EndKeeps ==
    ASSUME PfInv, NEW t \in Txns, step[t] \notin Answers, NEW to \in {"refused", "aborted"},
           step' = [step EXCEPT ![t] = to], PfRelease(t), UNCHANGED <<target, seen, pfRows>>
    PROVE  PfInv'
  <1>1. step'[t] = to
        BY DEF PfInv, PfTypes
  <1>2. t \notin pfClaims'
        BY ReleasesRows DEF PfInv
  <1>3. HoldsAccount(t)' /\ SaleIsLocked(t)' /\ BuyIsCurrent(t)' /\ FlushedIsLocked(t)' /\ Claimed(t)'
        BY <1>1, <1>2 DEF HoldsAccount, SaleIsLocked, BuyIsCurrent, FlushedIsLocked, Claimed, Pending
  <1>4. to \in Answers /\ to # "ok" /\ to # "replayed"
        BY DEF Answers
  <1>5. target' \in [Txns -> Positions \cup {0}] /\ seen' \in [Txns -> Nat]
        BY DEF PfInv, PfTypes
  <1> QED BY <1>2, <1>3, <1>4, <1>5, ReleasesRows, OnlyMoves DEF PfInv

LEMMA ReceiptKeeps ==
    ASSUME PfInv, NEW t \in Txns, InsertReceipt(t)
    PROVE  PfInv'
  <1>1. /\ step[t] = "new" /\ UNCHANGED <<target, seen, account, locked, pfRows>>
        /\ \A u \in pfClaims : OperationId[u] # OperationId[t]
        BY DEF InsertReceipt, To
  <1>2. /\ target' \in [Txns -> Positions \cup {0}] /\ seen' \in [Txns -> Nat]
        /\ account' \subseteq Txns /\ locked' \in [Positions -> SUBSET Txns]
        /\ pfClaims \subseteq Txns /\ step[t] \notin Answers /\ t \notin pfClaims
        BY <1>1 DEF PfInv, PfTypes, Answers, Claimed, Pending
  <1>3. CASE \E r \in receipts : r[1] = OperationId[t]
    <2>1. PICK to \in {"replayed", "conflict"} :
            to = IF <<OperationId[t], Request(t)>> \in receipts THEN "replayed" ELSE "conflict"
          OBVIOUS
    <2>2. step' = [step EXCEPT ![t] = to] /\ pfClaims' = pfClaims
          BY <1>3, <2>1 DEF InsertReceipt, To
    <2>3. step'[t] = to
          BY <2>2 DEF PfInv, PfTypes
    <2>4. to = "replayed" => \E v \in Txns : step[v] = "ok" /\ OperationId[v] = OperationId[t]
                                             /\ Request(v) = Request(t)
      <3> HAVE to = "replayed"
      <3>1. <<OperationId[t], Request(t)>> \in receipts
            BY <2>1
      <3>2. PICK v \in Txns : step[v] = "ok" /\ <<OperationId[t], Request(t)>> = <<OperationId[v], Request(v)>>
            BY <3>1 DEF PfInv, ReceiptsAreKept
      <3> QED BY <3>2
    <2>5. HoldsAccount(t)' /\ SaleIsLocked(t)' /\ BuyIsCurrent(t)' /\ FlushedIsLocked(t)' /\ Claimed(t)'
          BY <1>2, <2>2, <2>3
          DEF HoldsAccount, SaleIsLocked, BuyIsCurrent, FlushedIsLocked, Claimed, Pending
    <2>6. to \in Answers /\ to # "ok"
          BY DEF Answers
    <2> QED BY <1>1, <1>2, <2>2, <2>4, <2>5, <2>6, OnlyMoves
  <1>4. CASE ~ \E r \in receipts : r[1] = OperationId[t]
    <2>1. PICK to \in {"position", "account"} : to = IF Kind[t] = "sell" THEN "position" ELSE "account"
          OBVIOUS
    <2>2. step' = [step EXCEPT ![t] = to] /\ pfClaims' = pfClaims \cup {t}
          BY <1>4, <2>1 DEF InsertReceipt, To
    <2>3. step'[t] = to
          BY <2>2 DEF PfInv, PfTypes
    <2>4. Claimed(t)'
          BY <1>1, <1>4, <2>2, <2>3 DEF Claimed, Pending, pfRows
    <2>5. HoldsAccount(t)' /\ SaleIsLocked(t)' /\ BuyIsCurrent(t)' /\ FlushedIsLocked(t)'
          BY <2>1, <2>3 DEF HoldsAccount, SaleIsLocked, BuyIsCurrent, FlushedIsLocked
    <2>6. pfClaims' \subseteq Txns /\ \A u \in Txns \ {t} : u \in pfClaims' <=> u \in pfClaims
          BY <1>2, <2>2
    <2> QED BY <1>1, <1>2, <2>1, <2>2, <2>4, <2>5, <2>6, OnlyMoves
  <1> QED BY <1>3, <1>4

LEMMA AccountKeeps ==
    ASSUME PfInv, NEW t \in Txns, LockAccount(t)
    PROVE  PfInv'
  <1>1. PICK to \in {"read", "write"} : to = IF Kind[t] = "buy" THEN "read" ELSE "write"
        OBVIOUS
  <1>2. /\ step[t] = "account" /\ step' = [step EXCEPT ![t] = to] /\ account = {} /\ account' = {t}
        /\ UNCHANGED <<target, seen, locked, pfClaims, pfRows>>
        BY <1>1 DEF LockAccount, To
  <1>3. /\ target' \in [Txns -> Positions \cup {0}] /\ seen' \in [Txns -> Nat]
        /\ locked' \in [Positions -> SUBSET Txns]
        /\ pfClaims' \subseteq Txns /\ step[t] \notin Answers /\ step'[t] = to
        BY <1>2 DEF PfInv, PfTypes, Answers
  <1>4. Claimed(t)'
        BY <1>2, <1>3 DEF PfInv, Claimed, Pending, pfRows
  <1>5. HoldsAccount(t)' /\ BuyIsCurrent(t)' /\ FlushedIsLocked(t)'
        BY <1>1, <1>2, <1>3 DEF HoldsAccount, BuyIsCurrent, FlushedIsLocked
  <1>6. SaleIsLocked(t)'
        BY <1>2, <1>3 DEF PfInv, SaleIsLocked, pfRows
  <1> QED BY <1>2, <1>3, <1>4, <1>5, <1>6, OnlyMoves

LEMMA ReadKeeps ==
    ASSUME PfInv, NEW t \in Txns, ReadPosition(t)
    PROVE  PfInv'
  <1>1. /\ step[t] = "read" /\ step' = [step EXCEPT ![t] = "write"]
        /\ UNCHANGED <<account, locked, pfClaims, pfRows>>
        BY DEF ReadPosition, To
  <1>2. /\ account' \subseteq Txns /\ locked' \in [Positions -> SUBSET Txns]
        /\ pfClaims' \subseteq Txns /\ step[t] \notin Answers /\ step'[t] = "write"
        BY <1>1 DEF PfInv, PfTypes, Answers
  <1>3. PICK p \in Positions \cup {0}, n \in Nat :
          /\ target' = [target EXCEPT ![t] = p] /\ seen' = [seen EXCEPT ![t] = n]
          /\ p = 0 => open = {} /\ n = 0
          /\ p # 0 => p \in open /\ n = quantity[p]
    <2>1. open \subseteq Positions /\ 0 \notin Positions /\ \A p \in open : quantity[p] \in Nat
          BY PortfolioAssumption DEF PfInv, PfTypes
    <2>2. CASE open = {}
          BY <2>2 DEF ReadPosition
    <2>3. CASE open # {}
      <3>1. PICK p \in open : target' = [target EXCEPT ![t] = p] /\ seen' = [seen EXCEPT ![t] = quantity[p]]
            BY <2>3 DEF ReadPosition
      <3> QED BY <2>1, <3>1
    <2> QED BY <2>2, <2>3
  <1>4. /\ target' \in [Txns -> Positions \cup {0}] /\ seen' \in [Txns -> Nat]
        /\ target'[t] = p /\ seen'[t] = n
        /\ \A u \in Txns \ {t} : target'[u] = target[u] /\ seen'[u] = seen[u]
        BY <1>3 DEF PfInv, PfTypes
  <1>5. Claimed(t)'
        BY <1>1, <1>2 DEF PfInv, Claimed, Pending, pfRows
  <1>6. Kind[t] = "buy"
        BY <1>1 DEF PfInv, HoldsAccount
  <1>7. HoldsAccount(t)'
        BY <1>1, <1>2 DEF PfInv, HoldsAccount
  <1>8. BuyIsCurrent(t)'
        BY <1>1, <1>3, <1>4 DEF BuyIsCurrent, pfRows
  <1>9. SaleIsLocked(t)' /\ FlushedIsLocked(t)'
        BY <1>2, <1>6 DEF SaleIsLocked, FlushedIsLocked
  <1> QED BY <1>1, <1>2, <1>4, <1>5, <1>7, <1>8, <1>9, OnlyMoves

LEMMA LockKeeps ==
    ASSUME PfInv, NEW t \in Txns, NEW p \in Positions, LockPosition(t, p)
    PROVE  PfInv'
  <1>1. step[t] = "position" /\ step[t] \notin Answers /\ locked[p] = {} /\ UNCHANGED pfRows
        BY DEF LockPosition, To, Answers
  <1>2. CASE p \in open /\ Quantity[t] <= quantity[p]
    <2>1. /\ step' = [step EXCEPT ![t] = "account"] /\ locked' = [locked EXCEPT ![p] = {t}]
          /\ target' = [target EXCEPT ![t] = p] /\ seen' = [seen EXCEPT ![t] = quantity[p]]
          /\ UNCHANGED <<account, pfClaims>>
          BY <1>2 DEF LockPosition, To
    <2>2. /\ step'[t] = "account" /\ target'[t] = p /\ seen'[t] = quantity[p] /\ locked'[p] = {t}
          /\ target' \in [Txns -> Positions \cup {0}] /\ seen' \in [Txns -> Nat]
          /\ account' \subseteq Txns /\ locked' \in [Positions -> SUBSET Txns] /\ pfClaims' \subseteq Txns
          /\ \A u \in Txns \ {t} : target'[u] = target[u] /\ seen'[u] = seen[u]
          BY <2>1 DEF PfInv, PfTypes
    <2>3. \A u \in Txns \ {t} : \A q \in Positions : locked[q] = {u} => locked'[q] = {u}
          BY <1>1, <2>1 DEF PfInv, PfTypes
    <2>4. Claimed(t)'
          BY <1>1, <2>1, <2>2 DEF PfInv, Claimed, Pending, pfRows
    <2>5. HoldsAccount(t)' /\ BuyIsCurrent(t)' /\ FlushedIsLocked(t)'
          BY <2>2 DEF HoldsAccount, BuyIsCurrent, FlushedIsLocked
    <2>6. SaleIsLocked(t)'
          BY <1>1, <1>2, <2>2 DEF SaleIsLocked, pfRows
    <2> QED BY <1>1, <2>1, <2>2, <2>3, <2>4, <2>5, <2>6, OnlyMoves
  <1>3. CASE ~(p \in open /\ Quantity[t] <= quantity[p])
    <2>1. /\ step' = [step EXCEPT ![t] = "refused"] /\ PfRelease(t) /\ UNCHANGED <<target, seen>>
          BY <1>3 DEF LockPosition, To
    <2> QED BY <1>1, <2>1, EndKeeps
  <1> QED BY <1>2, <1>3

LEMMA FlushKeeps ==
    ASSUME PfInv, NEW t \in Txns, Flush(t)
    PROVE  PfInv'
  <1>1. /\ step[t] = "write" /\ step' = [step EXCEPT ![t] = "commit"]
        /\ UNCHANGED <<target, seen, account, pfClaims, pfRows>>
        BY DEF Flush, To
  <1>2. /\ account' \subseteq Txns /\ pfClaims' \subseteq Txns /\ step[t] \notin Answers
        /\ step'[t] = "commit" /\ target' \in [Txns -> Positions \cup {0}] /\ seen' \in [Txns -> Nat]
        /\ target[t] \in Positions \cup {0} /\ 0 \notin Positions
        BY <1>1, PortfolioAssumption DEF PfInv, PfTypes, Answers
  <1>3. PICK p : p = target[t]
        OBVIOUS
  <1>4. /\ locked' \in [Positions -> SUBSET Txns] /\ (p # 0 => locked'[p] = {t})
        /\ \A u \in Txns \ {t} : \A q \in Positions : locked[q] = {u} => locked'[q] = {u}
    <2>1. CASE p = 0
          BY <1>3, <2>1 DEF Flush, PfInv, PfTypes
    <2>2. CASE p # 0
      <3>1. p \in Positions /\ locked[p] \subseteq {t} /\ locked' = [locked EXCEPT ![p] = {t}]
            BY <1>2, <1>3, <2>2 DEF Flush
      <3> QED BY <3>1 DEF PfInv, PfTypes
    <2> QED BY <2>1, <2>2
  <1>5. Claimed(t)' /\ HoldsAccount(t)'
        BY <1>1, <1>2 DEF PfInv, Claimed, Pending, HoldsAccount, pfRows
  <1>6. FlushedIsLocked(t)'
        BY <1>1, <1>3, <1>4 DEF FlushedIsLocked
  <1>7. BuyIsCurrent(t)'
        BY <1>1, <1>2 DEF PfInv, BuyIsCurrent, pfRows
  <1>8. SaleIsLocked(t)'
    <2>1. SaleIsLocked(t) /\ open \subseteq Positions
          BY DEF PfInv, PfTypes
    <2>2. target'[t] = p /\ seen'[t] = seen[t] /\ open' = open /\ quantity' = quantity
          BY <1>1, <1>3 DEF pfRows
    <2> QED BY <1>1, <1>2, <1>3, <1>4, <2>1, <2>2 DEF SaleIsLocked
  <1> QED BY <1>1, <1>2, <1>4, <1>5, <1>6, <1>7, <1>8, OnlyMoves

---------------------------------------------------------------------------
(* A commit.                                                               *)

(* Nobody else is past its account lock.                                   *)
LEMMA AloneAtCommit ==
    ASSUME PfInv, NEW t \in Txns, step[t] = "commit"
    PROVE  \A u \in Txns \ {t} : step[u] \notin {"read", "write", "commit"}
  BY DEF PfInv, HoldsAccount

(* What it was seen to have is what the position has, and nobody else has  *)
(* it locked.                                                              *)
LEMMA CommitBooks ==
    ASSUME PfInv, NEW t \in Txns, Commit(t), Kind[t] # "cash"
    PROVE  \E p \in Positions, n \in Nat :
             /\ quantity' = [quantity EXCEPT ![p] = n] /\ open' = IF n = 0 THEN {} ELSE {p}
             /\ open = {} \/ (open = {p} /\ locked[p] = {t})
             /\ Kind[t] = "buy" => n = (IF open = {} THEN 0 ELSE quantity[p]) + Quantity[t]
             /\ Kind[t] = "sell" => /\ open = {p} /\ Quantity[t] <= quantity[p]
                                    /\ n = quantity[p] - Quantity[t]
             /\ cash' = cash
  <1>1. /\ step[t] = "commit" /\ Quantity[t] \in Nat \ {0} /\ Positions \subseteq Nat \ {0}
        /\ quantity \in [Positions -> Nat] /\ open \subseteq Positions /\ target[t] \in Positions \cup {0}
        /\ \A p, q \in open : p = q
        BY PortfolioAssumption DEF PfInv, PfTypes, OpenIsHeld, Commit, To
  <1>2. CASE Kind[t] = "buy"
    <2>1. Bought(t)
          BY <1>2 DEF Commit
    <2>2. PICK p \in Positions :
            /\ p = IF target[t] = 0 THEN NewPosition ELSE target[t]
            /\ open = {} \/ (open = {p} /\ locked[p] = {t})
            /\ seen[t] = IF open = {} THEN 0 ELSE quantity[p]
      <3>1. CASE target[t] = 0
        <4>1. Unused # {} /\ Unused \in SUBSET Nat
              BY <1>1, <2>1, <3>1 DEF Bought, Unused
        <4>2. NewPosition \in Positions
              BY <4>1, LeastOfNaturals DEF NewPosition, Unused
        <4>3. open = {} /\ seen[t] = 0
              BY <1>1, <1>2, <3>1 DEF PfInv, BuyIsCurrent
        <4> QED BY <3>1, <4>2, <4>3
      <3>2. CASE target[t] # 0
        <4>1. target[t] \in open /\ seen[t] = quantity[target[t]]
              BY <1>1, <1>2, <3>2 DEF PfInv, BuyIsCurrent
        <4>2. locked[target[t]] = {t}
              BY <1>1, <1>2, <3>2 DEF PfInv, FlushedIsLocked
        <4>3. open = {target[t]}
              BY <1>1, <4>1
        <4> QED BY <1>1, <3>2, <4>1, <4>2, <4>3
      <3> QED BY <3>1, <3>2
    <2>3. PICK n \in Nat : n = seen[t] + Quantity[t] /\ n # 0
          BY <1>1 DEF PfInv, PfTypes
    <2>4. quantity' = [quantity EXCEPT ![p] = n] /\ open' = open \cup {p} /\ cash' = cash
          BY <2>1, <2>2, <2>3 DEF Bought
    <2>5. open' = {p}
          BY <2>2, <2>4
    <2> QED BY <1>2, <2>2, <2>3, <2>4, <2>5
  <1>3. CASE Kind[t] = "sell"
    <2>1. /\ target[t] \in open /\ locked[target[t]] = {t}
          /\ seen[t] = quantity[target[t]] /\ Quantity[t] <= seen[t]
          BY <1>1, <1>3 DEF PfInv, SaleIsLocked
    <2>2. PICK p \in Positions : p = target[t] /\ open = {p}
          BY ZenonT(60), <1>1, <2>1
    <2>3. PICK n \in Nat : n = quantity[p] - Quantity[t]
          BY <1>1, <2>1, <2>2
    <2>4. Sold(t)
          BY <1>3 DEF Commit
    <2>5. quantity' = [quantity EXCEPT ![p] = n] /\ cash' = cash
          BY <2>1, <2>2, <2>3, <2>4 DEF Sold
    <2>6. open' = IF quantity[p] = Quantity[t] THEN open \ {p} ELSE open
          BY <2>1, <2>2, <2>4 DEF Sold
    <2>7. n = 0 <=> quantity[p] = Quantity[t]
          BY <1>1, <2>3
    <2> QED BY <1>3, <2>1, <2>2, <2>3, <2>5, <2>6, <2>7
  <1> QED BY <1>2, <1>3, PortfolioAssumption

LEMMA CommitKeeps ==
    ASSUME PfInv, NEW t \in Txns, Commit(t)
    PROVE  PfInv'
  <1>1. /\ step[t] = "commit" /\ step' = [step EXCEPT ![t] = "ok"] /\ PfRelease(t)
        /\ receipts' = receipts \cup {<<OperationId[t], Request(t)>>} /\ UNCHANGED <<target, seen>>
        BY DEF Commit, To
  <1>2. /\ step'[t] = "ok" /\ \A u \in Txns \ {t} : step'[u] = step[u]
        BY <1>1 DEF PfInv, PfTypes
  <1>3. /\ account' \subseteq Txns /\ locked' \in [Positions -> SUBSET Txns]
        /\ pfClaims' \subseteq Txns /\ t \notin pfClaims'
        /\ \A u \in Txns \ {t} :
             /\ \A p \in Positions : locked[p] = {u} => locked'[p] = {u}
             /\ u \in pfClaims' <=> u \in pfClaims
        BY <1>1, ReleasesRows DEF PfInv
  <1>4. t \in pfClaims /\ \A r \in receipts : r[1] # OperationId[t]
        BY <1>1 DEF PfInv, Claimed, Pending
  (* The rows.                                                             *)
  <1>5. /\ quantity' \in [Positions -> Nat] /\ open' \subseteq Positions /\ OpenIsHeld'
        /\ \A u \in Txns \ {t} : SaleIsLocked(u)'
    <2>1. CASE Kind[t] = "cash"
      <3>1. UNCHANGED <<quantity, open>>
            BY <2>1 DEF Commit
      <3>2. \A u \in Txns \ {t} : SaleIsLocked(u)'
        <4> TAKE u \in Txns \ {t}
        <4>1. SaleIsLocked(u) /\ open \subseteq Positions
              BY DEF PfInv, PfTypes
        <4>2. /\ step'[u] = step[u] /\ target'[u] = target[u] /\ seen'[u] = seen[u]
              /\ \A p \in Positions : locked[p] = {u} => locked'[p] = {u}
              BY <1>1, <1>2, <1>3
        <4> QED BY <3>1, <4>1, <4>2 DEF SaleIsLocked
      <3> QED BY <3>1, <3>2 DEF PfInv, PfTypes, OpenIsHeld
    <2>2. CASE Kind[t] # "cash"
      <3>1. PICK p \in Positions, n \in Nat :
              /\ quantity' = [quantity EXCEPT ![p] = n] /\ open' = IF n = 0 THEN {} ELSE {p}
              /\ open = {} \/ (open = {p} /\ locked[p] = {t})
            BY <2>2, CommitBooks
      <3>2. quantity' \in [Positions -> Nat] /\ open' \subseteq Positions
            BY <3>1 DEF PfInv, PfTypes
      <3>3. OpenIsHeld'
        <4>1. \A q \in Positions : q # p => quantity'[q] = 0 /\ q \notin open'
          <5> SUFFICES ASSUME NEW q \in Positions, q # p PROVE quantity'[q] = 0 /\ q \notin open'
              OBVIOUS
          <5>1. quantity'[q] = quantity[q] /\ q \notin open /\ q \notin open'
                BY <3>1 DEF PfInv, PfTypes
          <5> QED BY <5>1 DEF PfInv, OpenIsHeld
        <4>2. quantity'[p] = n /\ (p \in open' <=> n # 0)
              BY <3>1 DEF PfInv, PfTypes
        <4>3. \A q, r \in open' : q = r
              BY <3>1
        <4> QED BY <4>1, <4>2, <4>3 DEF OpenIsHeld
      <3>4. \A u \in Txns \ {t} : SaleIsLocked(u)'
        <4> TAKE u \in Txns \ {t}
        <4>1. SaleIsLocked(u) /\ step'[u] = step[u]
              BY <1>2 DEF PfInv
        <4>2. ~(Kind[u] = "sell" /\ step[u] \in {"account", "write", "commit"})
              BY <3>1, <4>1 DEF SaleIsLocked
        <4> QED BY <4>1, <4>2 DEF SaleIsLocked
      <3> QED BY <3>2, <3>3, <3>4
    <2> QED BY <2>1, <2>2
  <1>6. PfTypes'
    <2>1. step' \in [Txns -> Answers \cup {"new", "account", "read", "position", "write", "commit"}]
          BY <1>1 DEF PfInv, PfTypes, Answers
    <2> QED BY <1>1, <1>3, <1>5, <2>1 DEF PfInv, PfTypes
  <1>7. ReceiptsAreKept'
    <2>1. ASSUME NEW r \in receipts'
          PROVE  \E v \in Txns : step'[v] = "ok" /\ r = <<OperationId[v], Request(v)>>
      <3>1. CASE r \in receipts
        <4>1. PICK v \in Txns : step[v] = "ok" /\ r = <<OperationId[v], Request(v)>>
              BY <3>1 DEF PfInv, ReceiptsAreKept
        <4>2. step'[v] = "ok"
              BY <1>2, <4>1
        <4> QED BY <4>1, <4>2
      <3>2. CASE r = <<OperationId[t], Request(t)>>
            BY <1>2, <3>2
      <3> QED BY <1>1, <3>1, <3>2
    <2>2. \A u, v \in pfClaims' : OperationId[u] = OperationId[v] => u = v
          BY <1>3 DEF PfInv, PfTypes, ReceiptsAreKept
    <2> QED BY <2>1, <2>2 DEF ReceiptsAreKept, Request
  (* Its operation has had no trade yet.                                   *)
  <1>8. BookedOnce'
    <2>1. \A u \in Txns \ {t} : step[u] = "ok" => OperationId[u] # OperationId[t]
          BY <1>4 DEF PfInv, Claimed
    <2>2. \A u, v \in Txns : OperationId[u] = OperationId[v] /\ u # v => ~(step'[u] = "ok" /\ step'[v] = "ok")
          BY <1>2, <2>1 DEF PfInv, BookedOnce
    <2>3. \A u \in Txns : step'[u] = "replayed" =>
            \E v \in Txns : step[v] = "ok" /\ OperationId[v] = OperationId[u] /\ Request(v) = Request(u)
          BY <1>2 DEF PfInv, BookedOnce
    <2>4. \A v \in Txns : step[v] = "ok" => step'[v] = "ok"
          BY <1>2
    <2> QED BY <2>2, <2>3, <2>4 DEF BookedOnce, Request
  <1>9. ASSUME NEW u \in Txns \ {t}
        PROVE  HoldsAccount(u)' /\ BuyIsCurrent(u)' /\ FlushedIsLocked(u)' /\ Claimed(u)'
    <2>1. step'[u] = step[u] /\ step[u] \notin {"read", "write", "commit"}
          BY <1>1, <1>2, AloneAtCommit
    <2>2. HoldsAccount(u)' /\ BuyIsCurrent(u)' /\ FlushedIsLocked(u)'
          BY <2>1 DEF PfInv, HoldsAccount, BuyIsCurrent, FlushedIsLocked
    <2>3. Claimed(u)'
      <3>1. u \in pfClaims => OperationId[u] # OperationId[t]
            BY <1>4 DEF PfInv, PfTypes, ReceiptsAreKept
      <3>2. u \in pfClaims' <=> u \in pfClaims
            BY <1>3
      <3>3. u \in pfClaims => \A r \in receipts' : r[1] # OperationId[u]
            BY <1>1, <3>1 DEF PfInv, Claimed
      <3> QED BY <1>1, <2>1, <3>2, <3>3 DEF PfInv, Claimed, Pending
    <2> QED BY <2>2, <2>3
  <1>10. HoldsAccount(t)' /\ SaleIsLocked(t)' /\ BuyIsCurrent(t)' /\ FlushedIsLocked(t)'
         BY <1>2 DEF HoldsAccount, SaleIsLocked, BuyIsCurrent, FlushedIsLocked
  <1>11. Claimed(t)'
    <2>1. <<OperationId[t], Request(t)>> \in receipts' /\ <<OperationId[t], Request(t)>>[1] = OperationId[t]
          BY <1>1
    <2> QED BY <1>2, <1>3, <2>1 DEF Claimed, Pending
  <1> QED BY <1>5, <1>6, <1>7, <1>8, <1>9, <1>10, <1>11 DEF PfInv

LEMMA PfKept == PfInv /\ [PfNext]_pfVars => PfInv'
  <1> SUFFICES ASSUME PfInv, [PfNext]_pfVars PROVE PfInv'
      OBVIOUS
  <1>1. ASSUME NEW t \in Txns, Abort(t) PROVE PfInv'
        BY <1>1, EndKeeps DEF Abort
  <1>2. CASE UNCHANGED pfVars
        BY <1>2 DEF pfVars, PfInv, PfTypes, ReceiptsAreKept, OpenIsHeld, BookedOnce, HoldsAccount,
                    SaleIsLocked, BuyIsCurrent, FlushedIsLocked, Claimed, Pending, Request
  <1> QED BY <1>1, <1>2, ReceiptKeeps, AccountKeeps, ReadKeeps, LockKeeps, FlushKeeps, CommitKeeps
          DEF PfNext

---------------------------------------------------------------------------
(* Every step is one of the ledger or leaves it as it is.                  *)
LEMMA PfRefines == PfInv /\ [PfNext]_pfVars => [Serial!LedgerNext]_Serial!ledgerVars
  <1> SUFFICES ASSUME PfInv, [PfNext]_pfVars PROVE [Serial!LedgerNext]_Serial!ledgerVars
      OBVIOUS
  <1>1. ASSUME UNCHANGED <<receipts, quantity, open, cash>> PROVE UNCHANGED Serial!ledgerVars
        BY <1>1 DEF Serial!ledgerVars, Held
  <1>2. ASSUME NEW t \in Txns, Commit(t) PROVE Serial!LedgerNext
    <2>1. Serial!Enter(t) /\ Serial!Unbooked(t)
          BY <1>2 DEF Commit, To, Serial!Enter, Serial!Unbooked, Request, PfInv, Claimed, Pending
    <2>2. CASE Kind[t] = "cash"
      <3>1. Held' = Held /\ cash' = Quantity[t]
            BY <1>2, <2>2 DEF Commit, Held
      <3> QED BY <2>1, <2>2, <3>1 DEF Serial!LedgerNext, Serial!BookCash
    <2>3. CASE Kind[t] # "cash"
      <3>1. PICK p \in Positions, n \in Nat :
             /\ quantity' = [quantity EXCEPT ![p] = n] /\ open' = IF n = 0 THEN {} ELSE {p}
             /\ open = {} \/ open = {p}
             /\ Kind[t] = "buy" => n = (IF open = {} THEN 0 ELSE quantity[p]) + Quantity[t]
             /\ Kind[t] = "sell" => /\ open = {p} /\ Quantity[t] <= quantity[p]
                                    /\ n = quantity[p] - Quantity[t]
             /\ cash' = cash
            BY <1>2, <2>3, CommitBooks
      <3>2. (CHOOSE x \in {p} : TRUE) = p
            OBVIOUS
      <3>3. Held = IF open = {} THEN 0 ELSE quantity[p]
            BY <3>1, <3>2 DEF Held
      <3>4. quantity'[p] = n
            BY <3>1 DEF PfInv, PfTypes
      <3>5. Held' = n
            BY <3>1, <3>2, <3>4 DEF Held
      <3>6. CASE Kind[t] = "buy"
        <4>1. Held' = Held + Quantity[t]
              BY <3>1, <3>3, <3>5, <3>6
        <4> QED BY <2>1, <3>1, <3>6, <4>1 DEF Serial!LedgerNext, Serial!BookBuy
      <3>7. CASE Kind[t] = "sell"
        <4>1. Held' = Held - Quantity[t] /\ Quantity[t] <= Held
              BY <3>1, <3>3, <3>5, <3>7
        <4> QED BY <2>1, <3>1, <3>7, <4>1 DEF Serial!LedgerNext, Serial!BookSale
      <3> QED BY <2>3, <3>6, <3>7, PortfolioAssumption
    <2> QED BY <2>2, <2>3
  <1>3. ASSUME NEW t \in Txns,
               InsertReceipt(t) \/ LockAccount(t) \/ ReadPosition(t) \/ Flush(t) \/ Abort(t)
               \/ \E p \in Positions : LockPosition(t, p)
        PROVE  UNCHANGED <<receipts, quantity, open, cash>>
        BY <1>3 DEF InsertReceipt, LockAccount, ReadPosition, Flush, Abort, LockPosition, pfRows
  <1>4. CASE UNCHANGED pfVars
        BY <1>1, <1>4 DEF pfVars
  <1> QED BY <1>1, <1>2, <1>3, <1>4 DEF PfNext

(* PortfolioService: buys, sales and cash updates that overlap, wait for   *)
(* each other's row locks or are aborted, and requests that are repeated,  *)
(* leave the committed rows as booking the requests one by one would: the  *)
(* holding never lost an update, and no operation is booked twice.         *)
THEOREM BookedOneByOne == PfSpec => SerialLedger
  <1>1. PfInit => Serial!LedgerInit
        BY DEF PfInit, Serial!LedgerInit, Held
  <1> QED BY <1>1, PfStarts, PfKept, PfRefines, PTL DEF PfSpec, SerialLedger, Serial!LedgerSpec

(* An account has one open position in a symbol, open exactly while its    *)
(* quantity is not zero; an operation has one trade, and a replay answers  *)
(* for a request that was booked.                                          *)
THEOREM OnePosition ==
    PfSpec => [](OneOpenPosition /\ BookedOnce /\ \A p \in Positions : p \in open <=> quantity[p] # 0)
  <1>1. PfInv => OneOpenPosition
    <2> SUFFICES ASSUME PfInv PROVE Cardinality(open) <= 1
        BY DEF OneOpenPosition
    <2>1. open = {} \/ \E p \in open : open = {p}
          BY DEF PfInv, OpenIsHeld
    <2>2. Cardinality({}) = 0 /\ \A p \in open : Cardinality({p}) = 1
          BY FS_EmptySet, FS_Singleton
    <2> QED BY <2>1, <2>2
  <1>2. PfInv => OneOpenPosition /\ BookedOnce /\ \A p \in Positions : p \in open <=> quantity[p] # 0
        BY <1>1 DEF PfInv, OpenIsHeld
  <1> QED BY <1>2, PfStarts, PfKept, PTL DEF PfSpec

---------------------------------------------------------------------------
(* The lots.                                                               *)

LotType == [id : Nat, position : Positions, txn : Txns, left : Nat, role : {"CORE", "ADDON"}]
LeftOf  == [l \in LotType |-> l.left]
Asked   == [t \in Txns |-> Quantity[t]]

LEMMA LotsAreNumbers == /\ LeftOf \in [LotType -> Nat] /\ \A l \in LotType : LeftOf[l] = l.left
                        /\ Asked \in [Txns -> Nat] /\ \A t \in Txns : Asked[t] = Quantity[t]
  BY PortfolioAssumption DEF LeftOf, LotType, Asked

LEMMA LotSumIs ==
    ASSUME NEW S \in SUBSET LotType, IsFiniteSet(S)
    PROVE  LotSum(S) = Sum(LeftOf, S)
  <1> DEFINE body(h) == [s \in SUBSET S |-> IF s = {} THEN 0 ELSE One(s).left + h[s \ {One(s)}]]
             iter == CHOOSE h : h = body(h)
  <1>1. LotSum(S) = iter[S]
        BY DEF LotSum, MapThenSumSet, MapThenFoldSet, One
  <1>2. ASSUME NEW h PROVE h = body(h) <=> Sums(LeftOf, S, h)
    <2>1. \A s \in SUBSET S : s # {} => One(s).left = LeftOf[One(s)]
      <3> SUFFICES ASSUME NEW s \in SUBSET S, s # {} PROVE One(s).left = LeftOf[One(s)]
          OBVIOUS
      <3>1. One(s) \in LotType
            BY OneIn
      <3> QED BY <3>1, LotsAreNumbers
    <2>2. body(h) = [s \in SUBSET S |-> IF s = {} THEN 0 ELSE LeftOf[One(s)] + h[s \ {One(s)}]]
          BY <2>1
    <2> HIDE DEF body
    <2> QED BY <2>2 DEF Sums
  <1>3. PICK g : Sums(LeftOf, S, g)
        BY SumsExist
  <1>4. iter = body(iter)
    <2>1. g = body(g)
          BY <1>2, <1>3
    <2> HIDE DEF body
    <2> QED BY <2>1
  <1>5. Sums(LeftOf, S, iter)
        BY <1>2, <1>4
  <1> HIDE DEF iter
  <1> QED BY <1>1, <1>5, SumIs

LEMMA QuantitySumIs ==
    ASSUME NEW S \in SUBSET Txns, IsFiniteSet(S)
    PROVE  QuantitySum(S) = Sum(Asked, S)
  <1> DEFINE body(h) == [s \in SUBSET S |-> IF s = {} THEN 0 ELSE Quantity[One(s)] + h[s \ {One(s)}]]
             iter == CHOOSE h : h = body(h)
  <1>1. QuantitySum(S) = iter[S]
        BY DEF QuantitySum, MapThenSumSet, MapThenFoldSet, One
  <1>2. ASSUME NEW h PROVE h = body(h) <=> Sums(Asked, S, h)
    <2>1. \A s \in SUBSET S : s # {} => Quantity[One(s)] = Asked[One(s)]
      <3> SUFFICES ASSUME NEW s \in SUBSET S, s # {} PROVE Quantity[One(s)] = Asked[One(s)]
          OBVIOUS
      <3>1. One(s) \in Txns
            BY OneIn
      <3> QED BY <3>1, LotsAreNumbers
    <2>2. body(h) = [s \in SUBSET S |-> IF s = {} THEN 0 ELSE Asked[One(s)] + h[s \ {One(s)}]]
          BY <2>1
    <2> HIDE DEF body
    <2> QED BY <2>2 DEF Sums
  <1>3. PICK g : Sums(Asked, S, g)
        BY SumsExist
  <1>4. iter = body(iter)
    <2>1. g = body(g)
          BY <1>2, <1>3
    <2> HIDE DEF body
    <2> QED BY <2>1
  <1>5. Sums(Asked, S, iter)
        BY <1>2, <1>4
  <1> HIDE DEF iter
  <1> QED BY <1>1, <1>5, SumIs

(* The order in which a sale takes lots is total where ids are.            *)
Ided(L) == \A l, k \in L : l.id = k.id => l = k

LEMMA BeforeOrders ==
    ASSUME NEW L \in SUBSET LotType, Ided(L)
    PROVE  /\ \A l \in L : ~Before(l, l)
           /\ \A l, k \in L : l # k => Before(l, k) \/ Before(k, l)
           /\ \A l, k \in L : Before(l, k) => ~Before(k, l)
           /\ \A l, k, m \in L : Before(l, k) /\ Before(k, m) => Before(l, m)
  <1>1. \A l \in L : When[l.txn] \in Nat /\ l.id \in Nat /\ l.role \in {"CORE", "ADDON"}
        BY PortfolioAssumption DEF LotType
  <1> QED BY <1>1 DEF Before, Ided

LEMMA LastLot ==
    ASSUME NEW L \in SUBSET LotType, Ided(L), IsFiniteSet(L), L # {}
    PROVE  \E l \in L : \A k \in L \ {l} : Before(k, l)
  <1> DEFINE ends(S) == \E l \in S : \A k \in S \ {l} : Before(k, l)
             bad == {S \in SUBSET L : S # {} /\ ~ends(S)}
  <1>1. SUFFICES ASSUME bad # {} PROVE FALSE
        OBVIOUS
  <1>2. \A S \in bad : IsFiniteSet(S)
        BY FS_Subset
  <1>3. PICK S \in bad : \A T \in bad : Cardinality(S) <= Cardinality(T)
        BY <1>1, <1>2, SmallestOne
  <1>4. PICK x \in S : TRUE
        BY <1>3
  <1>5. S \ {x} \notin bad
    <2>1. /\ Cardinality(S) \in Nat /\ Cardinality(S \ {x}) \in Nat
          /\ Cardinality(S) = Cardinality(S \ {x}) + 1
          BY <1>2, FewerLeft
    <2>2. ~ (Cardinality(S) <= Cardinality(S \ {x}))
          BY <2>1
    <2> HIDE DEF bad
    <2> QED BY <1>3, <2>2
  <1>6. S \ {x} # {}
    <2>1. ASSUME S \ {x} = {} PROVE ends(S)
          BY <2>1
    <2> QED BY <2>1
  <1>7. PICK y \in S \ {x} : \A k \in (S \ {x}) \ {y} : Before(k, y)
        BY <1>5, <1>6
  <1>8. Before(x, y) \/ Before(y, x)
        BY <1>4, <1>7, BeforeOrders
  <1>9. CASE Before(x, y)
    <2>1. \A k \in S \ {y} : Before(k, y)
          BY <1>7, <1>9
    <2> QED BY <2>1
  <1>10. CASE Before(y, x)
    <2>1. \A k \in S \ {x} : Before(k, x)
      <3> TAKE k \in S \ {x}
      <3>1. k = y \/ Before(k, y)
            BY <1>7
      <3> QED BY <1>4, <1>7, <1>10, <3>1, BeforeOrders
    <2> QED BY <2>1
  <1> QED BY <1>8, <1>9, <1>10

(* What a sale of q leaves of a lot.                                       *)
Ahead(L, l)   == LotSum({k \in L : Before(k, l)})
Taken(L, q, l) == LET rest == IF q > Ahead(L, l) THEN q - Ahead(L, l) ELSE 0
                  IN  IF rest < l.left THEN rest ELSE l.left
Cut(L, q, l)  == [l EXCEPT !.left = @ - Taken(L, q, l)]

LEMMA TakenIs ==
    ASSUME NEW L \in SUBSET LotType, IsFiniteSet(L), NEW q \in Nat, NEW l \in L
    PROVE  /\ Ahead(L, l) \in Nat
           /\ Taken(L, q, l) \in Nat /\ Taken(L, q, l) <= l.left
           /\ Cut(L, q, l) \in LotType /\ Cut(L, q, l).left = l.left - Taken(L, q, l)
           /\ Cut(L, q, l).id = l.id /\ Cut(L, q, l).position = l.position
  <1>1. Ahead(L, l) \in Nat
    <2>1. {k \in L : Before(k, l)} \in SUBSET LotType /\ IsFiniteSet({k \in L : Before(k, l)})
          BY FS_Subset
    <2> QED BY <2>1, LotSumIs, SumIsNat, LotsAreNumbers DEF Ahead
  <1>2. l.left \in Nat
        BY DEF LotType
  <1>3. Taken(L, q, l) \in Nat /\ Taken(L, q, l) <= l.left
        BY <1>1, <1>2 DEF Taken
  <1> DEFINE n == l.left - Taken(L, q, l)
  <1>4. n \in Nat
        BY <1>2, <1>3
  <1>5. Cut(L, q, l) = [l EXCEPT !.left = n]
        BY DEF Cut
  <1> HIDE DEF n
  <1>6. [l EXCEPT !.left = n] \in LotType /\ [l EXCEPT !.left = n].left = n
        /\ [l EXCEPT !.left = n].id = l.id /\ [l EXCEPT !.left = n].position = l.position
        BY <1>4 DEF LotType
  <1>7. n = l.left - Taken(L, q, l)
        BY DEF n
  <1> QED BY <1>1, <1>3, <1>5, <1>6, <1>7

(* The sale takes what is asked for, or all there is: true of the lots up  *)
(* to any of them, and so of all.                                          *)
LEMMA CutSum ==
    ASSUME NEW L \in SUBSET LotType, IsFiniteSet(L), Ided(L), NEW q \in Nat
    PROVE  /\ Sum(LeftOf, {Cut(L, q, l) : l \in L}) =
                Sum(LeftOf, L) - (IF q < Sum(LeftOf, L) THEN q ELSE Sum(LeftOf, L))
           /\ IsFiniteSet({Cut(L, q, l) : l \in L})
  <1> DEFINE cuts(S) == {Cut(L, q, l) : l \in S}
             total(S) == Sum(LeftOf, S)
             fair(S) == /\ total(cuts(S)) = total(S) - (IF q < total(S) THEN q ELSE total(S))
                        /\ IsFiniteSet(cuts(S))
             bad == {S \in SUBSET L : /\ \A l \in S, k \in L : Before(k, l) => k \in S
                                      /\ ~fair(S)}
  <1>1. SUFFICES ASSUME bad # {} PROVE FALSE
    <2>1. L \in bad \/ fair(L)
          OBVIOUS
    <2> QED BY <2>1
  <1>2. \A S \in bad : IsFiniteSet(S)
        BY FS_Subset
  <1>3. PICK S \in bad : \A T \in bad : Cardinality(S) <= Cardinality(T)
        BY <1>1, <1>2, SmallestOne
  <1>4. S # {}
    <2>1. ASSUME S = {} PROVE fair(S)
      <3>1. cuts(S) = {} /\ total({}) = 0 /\ IsFiniteSet({})
            BY <2>1, SumOfNone, FS_EmptySet
      <3> QED BY <2>1, <3>1
    <2> QED BY <1>3, <2>1
  <1>5. S \subseteq L /\ IsFiniteSet(S) /\ Ided(S)
        BY <1>2, <1>3 DEF Ided
  <1>6. PICK m \in S : \A k \in S \ {m} : Before(k, m)
        BY <1>4, <1>5, LastLot
  <1> DEFINE T == S \ {m}
  <1>7. IsFiniteSet(T) /\ T \subseteq L /\ T \notin bad
    <2>1. /\ Cardinality(S) \in Nat /\ Cardinality(T) \in Nat
          /\ Cardinality(S) = Cardinality(T) + 1 /\ IsFiniteSet(T)
          BY <1>5, FewerLeft
    <2>2. ~ (Cardinality(S) <= Cardinality(T))
          BY <2>1
    <2>3. T \subseteq L
          BY <1>5
    <2> HIDE DEF bad, T
    <2> QED BY <1>3, <2>1, <2>2, <2>3
  <1>8. \A l \in T, k \in L : Before(k, l) => k \in T
    <2> SUFFICES ASSUME NEW l \in T, NEW k \in L, Before(k, l) PROVE k \in T
        OBVIOUS
    <2>1. k \in S
          BY <1>3
    <2>2. k # m
          BY <1>5, <1>6, BeforeOrders
    <2> QED BY <2>1, <2>2
  <1>9. fair(T)
        BY <1>7, <1>8
  <1>10. Ahead(L, m) = total(T)
    <2>1. {k \in L : Before(k, m)} = T
          BY <1>3, <1>5, <1>6, BeforeOrders
    <2> QED BY <1>7, <2>1, LotSumIs DEF Ahead
  <1>11. total(T) \in Nat /\ m.left \in Nat
        BY <1>5, <1>7, SumIsNat, LotsAreNumbers DEF LotType
  <1>12. total(S) = m.left + total(T)
        BY <1>5, SumWithout, LotsAreNumbers
  <1>13. total(cuts(S)) = Cut(L, q, m).left + total(cuts(T)) /\ IsFiniteSet(cuts(S))
    <2>1. cuts(S) = cuts(T) \cup {Cut(L, q, m)}
          OBVIOUS
    <2>2. cuts(T) \in SUBSET LotType /\ Cut(L, q, m) \in LotType
          BY <1>5, TakenIs
    <2>3. Cut(L, q, m) \notin cuts(T)
      <3> SUFFICES ASSUME NEW l \in T, Cut(L, q, m) = Cut(L, q, l) PROVE FALSE
          OBVIOUS
      <3>1. l \in L /\ m \in L
            BY <1>5
      <3>2. Cut(L, q, l).id = l.id
            BY <3>1, TakenIs
      <3>3. Cut(L, q, m).id = m.id
            BY <3>1, TakenIs
      <3>4. l = m
            BY <3>1, <3>2, <3>3 DEF Ided
      <3> QED BY <3>4
    <2>4. IsFiniteSet(cuts(T))
          BY <1>9
    <2> HIDE DEF cuts, T
    <2> QED BY <2>1, <2>2, <2>3, <2>4, SumWith, LotsAreNumbers, FS_AddElement
  <1>14. /\ Cut(L, q, m).left = m.left - Taken(L, q, m)
         /\ Taken(L, q, m) = LET rest == IF q > total(T) THEN q - total(T) ELSE 0
                             IN  IF rest < m.left THEN rest ELSE m.left
         BY <1>5, <1>10, TakenIs DEF Taken
  <1>15. total(cuts(T)) = total(T) - (IF q < total(T) THEN q ELSE total(T))
        BY <1>9
  <1> DEFINE a == total(T)
             b == total(S)
             c == total(cuts(T))
             d == total(cuts(S))
             e == Taken(L, q, m)
  <1>16. /\ a \in Nat /\ m.left \in Nat /\ b = m.left + a /\ d = (m.left - e) + c
         /\ e = (LET rest == IF q > a THEN q - a ELSE 0 IN IF rest < m.left THEN rest ELSE m.left)
         /\ c = a - (IF q < a THEN q ELSE a)
        BY <1>11, <1>12, <1>13, <1>14, <1>15
  <1>17. d = b - (IF q < b THEN q ELSE b)
    <2> HIDE DEF a, b, c, d, e
    <2> QED BY <1>16
  <1>18. fair(S)
        BY <1>13, <1>17
  <1> QED BY <1>3, <1>18

(* What is there to book in.                                               *)
At(L, p)   == {l \in L : l.position = p}
Shelved(L) == /\ L \in SUBSET LotType /\ IsFiniteSet(L)
              /\ Ided(L) /\ \A l \in L : l.id <= Cardinality(L)

LEMMA ShelvedAt ==
    ASSUME NEW L, Shelved(L), NEW p
    PROVE  At(L, p) \in SUBSET LotType /\ IsFiniteSet(At(L, p)) /\ Ided(At(L, p))
  <1>1. At(L, p) \subseteq L
        BY DEF At
  <1> QED BY <1>1, FS_Subset DEF Shelved, Ided

(* A lot that is bought.                                                   *)
LEMMA LotBought ==
    ASSUME NEW L, Shelved(L), NEW m \in LotType, m.id = Cardinality(L) + 1
    PROVE  /\ Shelved(L \cup {m})
           /\ Sum(LeftOf, L \cup {m}) = m.left + Sum(LeftOf, L)
           /\ Sum(LeftOf, At(L \cup {m}, m.position)) = m.left + Sum(LeftOf, At(L, m.position))
           /\ \A p : p # m.position => At(L \cup {m}, p) = At(L, p)
  <1>1. Cardinality(L) \in Nat /\ \A l \in L : l.id \in Nat /\ l.id <= Cardinality(L)
        BY FS_CardinalityType DEF Shelved, LotType
  <1>2. m \notin L
        BY <1>1
  <1>3. IsFiniteSet(L \cup {m}) /\ Cardinality(L \cup {m}) = Cardinality(L) + 1
        BY <1>2, FS_AddElement DEF Shelved
  <1>4. Shelved(L \cup {m})
    <2>1. L \cup {m} \in SUBSET LotType
          BY DEF Shelved
    <2>2. Ided(L \cup {m})
      <3>1. \A l \in L : l.id # m.id
            BY <1>1
      <3> QED BY <3>1 DEF Shelved, Ided
    <2>3. \A l \in L \cup {m} : l.id <= Cardinality(L \cup {m})
          BY <1>1, <1>3
    <2> QED BY <1>3, <2>1, <2>2, <2>3 DEF Shelved
  <1>5. Sum(LeftOf, L \cup {m}) = m.left + Sum(LeftOf, L)
        BY <1>2, SumWith, LotsAreNumbers DEF Shelved
  <1>6. At(L \cup {m}, m.position) = At(L, m.position) \cup {m} /\ m \notin At(L, m.position)
        BY <1>2 DEF At
  <1>7. Sum(LeftOf, At(L, m.position) \cup {m}) = m.left + Sum(LeftOf, At(L, m.position))
        BY <1>6, ShelvedAt, SumWith, LotsAreNumbers
  <1>8. \A p : p # m.position => At(L \cup {m}, p) = At(L, p)
        BY DEF At
  <1> QED BY <1>4, <1>5, <1>6, <1>7, <1>8

(* Lots that are sold from.                                                *)
AfterSale(L, p, q) == (L \ At(L, p)) \cup {Cut(At(L, p), q, l) : l \in At(L, p)}

LEMMA LotsSold ==
    ASSUME NEW L, Shelved(L), NEW p, NEW q \in Nat, q <= Sum(LeftOf, At(L, p)),
           NEW M, M = AfterSale(L, p, q)
    PROVE  /\ Shelved(M)
           /\ Sum(LeftOf, M) = Sum(LeftOf, L) - q
           /\ Sum(LeftOf, At(M, p)) = Sum(LeftOf, At(L, p)) - q
           /\ \A r : r # p => At(M, r) = At(L, r)
  <1> DEFINE A == At(L, p)
             C == {Cut(A, q, l) : l \in A}
             R == L \ A
  <1>1. /\ A \in SUBSET LotType /\ IsFiniteSet(A) /\ Ided(A) /\ A \subseteq L
        /\ \A l \in A : l.position = p
        BY ShelvedAt DEF At
  <1>2. \A l \in A : /\ Cut(A, q, l) \in LotType /\ Cut(A, q, l).id = l.id
                     /\ Cut(A, q, l).position = l.position
        BY <1>1, TakenIs
  <1>3. Sum(LeftOf, C) = Sum(LeftOf, A) - (IF q < Sum(LeftOf, A) THEN q ELSE Sum(LeftOf, A))
        BY <1>1, CutSum
  <1>4. Sum(LeftOf, A) \in Nat
        BY <1>1, SumIsNat, LotsAreNumbers
  <1>5. Sum(LeftOf, C) = Sum(LeftOf, A) - q
        BY <1>3, <1>4
  <1>6. Cardinality(C) = Cardinality(A) /\ IsFiniteSet(C)
    <2> DEFINE F == [l \in A |-> Cut(A, q, l)]
    <2>1. F \in [A -> C]
          OBVIOUS
    <2>2. \A l, k \in A : F[l] = F[k] => l = k
      <3> SUFFICES ASSUME NEW l \in A, NEW k \in A, F[l] = F[k] PROVE l = k
          OBVIOUS
      <3>1. Cut(A, q, l) = Cut(A, q, k)
            OBVIOUS
      <3>2. l.id = k.id
            BY <1>2, <3>1
      <3> QED BY <1>1, <3>2 DEF Ided
    <2>3. \A c \in C : \E l \in A : F[l] = c
          OBVIOUS
    <2>4. F \in Bijection(A, C)
      <3> HIDE DEF F, C
      <3> QED BY <2>1, <2>2, <2>3 DEF Bijection, Injection, IsInjective, Surjection
    <2>5. ExistsBijection(A, C)
          BY <2>4 DEF ExistsBijection
    <2> QED BY <1>1, <2>5, FS_Bijection
  <1>7. \A c \in C : \E l \in A : c.id = l.id /\ c.position = p /\ c \in LotType
        BY <1>1, <1>2
  <1>8. R \cap C = {} /\ R \cap A = {} /\ M = R \cup C /\ L = R \cup A
    <2>1. R \cap C = {}
          BY <1>7 DEF At
    <2>2. L = R \cup A
          BY <1>1
    <2> QED BY <2>1, <2>2 DEF AfterSale
  <1>9. IsFiniteSet(R) /\ IsFiniteSet(L) /\ R \in SUBSET LotType /\ C \in SUBSET LotType
    <2>1. C \in SUBSET LotType
          BY <1>7
    <2> QED BY <2>1, FS_Subset DEF Shelved
  <1> HIDE DEF C, R, A
  <1>10. IsFiniteSet(M) /\ Cardinality(M) = Cardinality(L)
    <2>1. Cardinality({}) = 0
          BY FS_EmptySet
    <2>2. Cardinality(R \cup C) = Cardinality(R) + Cardinality(C) - Cardinality(R \cap C)
          BY <1>6, <1>9, FS_Union
    <2>3. Cardinality(R \cup A) = Cardinality(R) + Cardinality(A) - Cardinality(R \cap A)
          BY <1>1, <1>9, FS_Union
    <2>4. IsFiniteSet(R \cup C)
          BY <1>6, <1>9, FS_Union
    <2> QED BY <1>6, <1>8, <2>2, <2>3, <2>4
  <1>11. Shelved(M)
    <2>1. M \in SUBSET LotType
          BY <1>8, <1>9
    <2>2. \A m \in M : \E l \in L : m.id = l.id /\ (m \in R => l = m) /\ (m \in C => l \in A)
      <3> TAKE m \in M
      <3>1. CASE m \in R
            BY <1>8, <3>1
      <3>2. CASE m \in C
            BY <1>1, <1>7, <1>8, <3>2
      <3> QED BY <1>8, <3>1, <3>2
    <2>3. \A m \in M : m.id <= Cardinality(M)
          BY <1>10, <2>2 DEF Shelved
    <2>4. Ided(M)
      <3> SUFFICES ASSUME NEW m \in M, NEW k \in M, m.id = k.id PROVE m = k
          BY DEF Ided
      <3>1. Ided(L) /\ R \subseteq L
            BY DEF Shelved, R
      <3>2. ASSUME NEW x \in R, NEW y \in C PROVE x.id # y.id
        <4>1. PICK l \in A : y.id = l.id
              BY <1>7
        <4>2. x # l /\ x \in L /\ l \in L
              BY <1>8, <4>1
        <4> QED BY <3>1, <4>1, <4>2 DEF Ided
      <3>3. ASSUME NEW x \in C, NEW y \in C, x.id = y.id PROVE x = y
        <4>1. PICK l \in A : x = Cut(A, q, l)
              BY DEF C
        <4>2. PICK o \in A : y = Cut(A, q, o)
              BY DEF C
        <4>3. x.id = l.id /\ y.id = o.id
              BY <1>2, <4>1, <4>2
        <4>4. l = o
              BY <1>1, <3>3, <4>3 DEF Ided
        <4> QED BY <4>1, <4>2, <4>4
      <3>4. m \in R \/ m \in C
            BY <1>8
      <3>5. k \in R \/ k \in C
            BY <1>8
      <3>6. CASE m \in R /\ k \in R
            BY <3>1, <3>6 DEF Ided
      <3>7. CASE m \in C /\ k \in C
            BY <3>3, <3>7
      <3> QED BY <3>2, <3>4, <3>5, <3>6, <3>7
    <2> QED BY <1>10, <2>1, <2>3, <2>4 DEF Shelved
  <1>12. Sum(LeftOf, M) = Sum(LeftOf, L) - q
    <2>1. Sum(LeftOf, R \cup C) = Sum(LeftOf, R) + Sum(LeftOf, C)
          BY <1>6, <1>8, <1>9, SumOfBoth, LotsAreNumbers
    <2>2. Sum(LeftOf, R \cup A) = Sum(LeftOf, R) + Sum(LeftOf, A)
          BY <1>1, <1>8, <1>9, SumOfBoth, LotsAreNumbers
    <2>3. Sum(LeftOf, R) \in Nat
          BY <1>9, SumIsNat, LotsAreNumbers
    <2>4. Sum(LeftOf, M) = Sum(LeftOf, R) + Sum(LeftOf, C)
          BY <1>8, <2>1
    <2>5. Sum(LeftOf, L) = Sum(LeftOf, R) + Sum(LeftOf, A)
          BY <1>8, <2>2
    <2> QED BY <1>4, <1>5, <2>3, <2>4, <2>5
  <1>13. At(M, p) = C
    <2>1. \A m \in R : m.position # p
          BY DEF R, A, At
    <2>2. \A m \in M : m.position = p <=> m \in C
          BY <1>7, <1>8, <2>1
    <2> QED BY <1>8, <2>2 DEF At
  <1>14. \A r : r # p => At(M, r) = At(L, r)
    <2> SUFFICES ASSUME NEW r, r # p PROVE At(M, r) = At(L, r)
        OBVIOUS
    <2>1. \A m \in C : m.position # r
          BY <1>7
    <2>2. \A m \in A : m.position # r
          BY <1>1
    <2> QED BY <1>8, <2>1, <2>2 DEF At
  <1>15. Sum(LeftOf, At(M, p)) = Sum(LeftOf, A) - q
        BY <1>5, <1>13
  <1> QED BY <1>11, <1>12, <1>14, <1>15 DEF A

BuysBooked == {t \in trades : Kind[t] = "buy"}
SalesBooked   == {t \in trades : Kind[t] = "sell"}
OneAtMost(S) == \A x, y \in S : x = y

LotsInv ==
    /\ Shelved(lots)
    /\ \A p \in Positions : quantity[p] = Sum(LeftOf, At(lots, p))
    /\ trades \in SUBSET Txns /\ IsFiniteSet(trades) /\ \A t \in trades : step[t] = "ok"
    /\ Sum(LeftOf, lots) + Sum(Asked, SalesBooked) = Sum(Asked, BuysBooked)
    /\ cash \in Nat
    /\ OneAtMost(account) /\ \A p \in Positions : OneAtMost(locked[p])

LEMMA LotsStart == PfInit => LotsInv
  <1> SUFFICES ASSUME PfInit PROVE LotsInv
      OBVIOUS
  <1> USE DEF PfInit
  <1>1. Shelved(lots)
        BY FS_EmptySet DEF Shelved, Ided
  <1>2. Sum(LeftOf, {}) = 0 /\ Sum(Asked, {}) = 0
        BY SumOfNone
  <1>3. lots = {} /\ SalesBooked = {} /\ BuysBooked = {} /\ \A p \in Positions : At(lots, p) = {}
        BY DEF SalesBooked, BuysBooked, At
  <1>4. \A p \in Positions : quantity[p] = Sum(LeftOf, At(lots, p))
        BY <1>2, <1>3
  <1>5. Sum(LeftOf, lots) + Sum(Asked, SalesBooked) = Sum(Asked, BuysBooked)
        BY <1>2, <1>3
  <1>6. IsFiniteSet(trades) /\ cash \in Nat /\ OneAtMost(account) /\ \A p \in Positions : OneAtMost(locked[p])
        BY FS_EmptySet DEF OneAtMost
  <1> QED BY <1>1, <1>4, <1>5, <1>6 DEF LotsInv

(* A statement of t that leaves the rows alone.                            *)
LEMMA LotsStay ==
    ASSUME PfInv, LotsInv, NEW t \in Txns, NEW to, step[t] # "ok",
           step' = [step EXCEPT ![t] = to], UNCHANGED pfRows,
           OneAtMost(account'), \A p \in Positions : OneAtMost(locked'[p])
    PROVE  LotsInv'
  <1>1. UNCHANGED <<quantity, lots, trades, cash>>
        BY DEF pfRows
  <1>2. \A u \in trades' : step'[u] = "ok"
        BY <1>1 DEF LotsInv, PfInv, PfTypes
  <1>3. SalesBooked' = SalesBooked /\ BuysBooked' = BuysBooked
        BY <1>1 DEF SalesBooked, BuysBooked
  <1>4. Shelved(lots)' /\ \A p \in Positions : quantity'[p] = Sum(LeftOf, At(lots, p))
        BY <1>1 DEF LotsInv
  <1> QED BY <1>1, <1>2, <1>3, <1>4 DEF LotsInv, OneAtMost

LEMMA LocksReleased ==
    ASSUME PfInv, LotsInv, NEW t \in Txns, PfRelease(t)
    PROVE  OneAtMost(account') /\ \A p \in Positions : OneAtMost(locked'[p])
  BY DEF PfInv, PfTypes, LotsInv, OneAtMost, PfRelease

(* What a buy and a sale commit.                                           *)
LEMMA BuyBooks ==
    ASSUME PfInv, LotsInv, NEW t \in Txns, Commit(t), Kind[t] = "buy"
    PROVE  \E m \in LotType :
             /\ m.id = Cardinality(lots) + 1 /\ m.left = Quantity[t] /\ m.position \in Positions
             /\ lots' = lots \cup {m} /\ cash' = cash
             /\ quantity' = [quantity EXCEPT ![m.position] = @ + Quantity[t]]
  <1>1. /\ step[t] = "commit" /\ Quantity[t] \in Nat \ {0} /\ Positions \subseteq Nat \ {0}
        /\ quantity \in [Positions -> Nat] /\ open \subseteq Positions /\ target[t] \in Positions \cup {0}
        BY PortfolioAssumption DEF PfInv, PfTypes, Commit, To
  <1>2. Bought(t)
        BY DEF Commit
  <1>3. PICK p \in Positions : /\ p = IF target[t] = 0 THEN NewPosition ELSE target[t]
                               /\ seen[t] = quantity[p]
    <2>1. CASE target[t] = 0
      <3>1. Unused # {} /\ Unused \in SUBSET Nat
            BY <1>1, <1>2, <2>1 DEF Bought, Unused
      <3>2. NewPosition \in Positions
            BY <3>1, LeastOfNaturals DEF NewPosition, Unused
      <3>3. open = {} /\ seen[t] = 0
            BY <1>1, <2>1 DEF PfInv, BuyIsCurrent
      <3>4. quantity[NewPosition] = 0
            BY <3>2, <3>3 DEF PfInv, OpenIsHeld
      <3> QED BY <2>1, <3>2, <3>3, <3>4
    <2>2. CASE target[t] # 0
          BY <1>1, <2>2 DEF PfInv, BuyIsCurrent
    <2> QED BY <2>1, <2>2
  <1>4. PICK r \in {"CORE", "ADDON"} : r = IF seen[t] = 0 THEN "CORE" ELSE "ADDON"
        OBVIOUS
  <1>5. PICK i : i = Cardinality(lots)
        OBVIOUS
  <1>6. i \in Nat
        BY <1>5, FS_CardinalityType DEF LotsInv, Shelved
  <1> DEFINE m == [id |-> i + 1, position |-> p, txn |-> t, left |-> Quantity[t], role |-> r]
  <1>7. m \in LotType
        BY <1>1, <1>3, <1>6 DEF LotType
  <1>8. lots' = lots \cup {m} /\ cash' = cash
        BY <1>2, <1>3, <1>4, <1>5 DEF Bought
  <1>9. quantity' = [quantity EXCEPT ![p] = quantity[p] + Quantity[t]]
        BY <1>2, <1>3 DEF Bought
  <1>10. m.id = i + 1 /\ m.left = Quantity[t] /\ m.position = p
        OBVIOUS
  <1> HIDE DEF m
  <1> QED BY <1>3, <1>5, <1>7, <1>8, <1>9, <1>10

LEMMA SaleBooks ==
    ASSUME PfInv, LotsInv, NEW t \in Txns, Commit(t), Kind[t] = "sell"
    PROVE  \E p \in Positions :
             /\ Quantity[t] <= quantity[p] /\ cash' = cash
             /\ quantity' = [quantity EXCEPT ![p] = @ - Quantity[t]]
             /\ lots' = AfterSale(lots, p, Quantity[t])
  <1>1. step[t] = "commit" /\ Sold(t) /\ open \subseteq Positions
        BY DEF PfInv, PfTypes, Commit, To
  <1>2. target[t] \in open /\ seen[t] = quantity[target[t]] /\ Quantity[t] <= seen[t]
        BY <1>1 DEF PfInv, SaleIsLocked
  <1>3. PICK p \in Positions : p = target[t]
        BY <1>1, <1>2
  <1>4. quantity' = [quantity EXCEPT ![p] = quantity[p] - Quantity[t]] /\ cash' = cash
        BY <1>1, <1>2, <1>3 DEF Sold
  <1>5. Lots(p) = At(lots, p)
        BY DEF Lots, At
  <1>6. lots' = (lots \ Lots(p)) \cup SellFrom(p, Quantity[t])
        BY <1>1, <1>3 DEF Sold
  <1>7. SellFrom(p, Quantity[t]) = {Cut(At(lots, p), Quantity[t], l) : l \in At(lots, p)}
        BY <1>5 DEF SellFrom, Cut, Taken, Ahead
  <1>8. lots' = AfterSale(lots, p, Quantity[t])
        BY <1>5, <1>6, <1>7 DEF AfterSale
  <1> QED BY <1>2, <1>3, <1>4, <1>8

(* A trade of t enters one side of the balance.                            *)
LEMMA TradeEnters ==
    ASSUME PfInv, LotsInv, NEW t \in Txns, Commit(t), Kind[t] # "cash"
    PROVE  /\ Kind[t] = "buy"  => /\ Sum(Asked, BuysBooked') = Quantity[t] + Sum(Asked, BuysBooked)
                                  /\ SalesBooked' = SalesBooked
           /\ Kind[t] = "sell" => /\ Sum(Asked, SalesBooked') = Quantity[t] + Sum(Asked, SalesBooked)
                                  /\ BuysBooked' = BuysBooked
  <1>1. trades' = trades \cup {t} /\ t \notin trades
        BY DEF Commit, To, LotsInv
  <1>2. PICK B : B = BuysBooked
        OBVIOUS
  <1>3. PICK S : S = SalesBooked
        OBVIOUS
  <1>4. B \in SUBSET Txns /\ IsFiniteSet(B) /\ t \notin B
        BY <1>1, <1>2, FS_Subset DEF LotsInv, BuysBooked
  <1>5. S \in SUBSET Txns /\ IsFiniteSet(S) /\ t \notin S
        BY <1>1, <1>3, FS_Subset DEF LotsInv, SalesBooked
  <1>6. Sum(Asked, B \cup {t}) = Quantity[t] + Sum(Asked, B)
        BY <1>4, SumWith, LotsAreNumbers
  <1>7. Sum(Asked, S \cup {t}) = Quantity[t] + Sum(Asked, S)
        BY <1>5, SumWith, LotsAreNumbers
  <1>8. Kind[t] = "buy" => BuysBooked' = B \cup {t} /\ SalesBooked' = S
        BY <1>1, <1>2, <1>3 DEF BuysBooked, SalesBooked
  <1>9. Kind[t] = "sell" => SalesBooked' = S \cup {t} /\ BuysBooked' = B
        BY <1>1, <1>2, <1>3 DEF BuysBooked, SalesBooked
  <1> QED BY <1>2, <1>3, <1>6, <1>7, <1>8, <1>9

LEMMA BalanceIs ==
    ASSUME LotsInv
    PROVE  /\ Sum(LeftOf, lots) \in Nat /\ Sum(Asked, SalesBooked) \in Nat /\ Sum(Asked, BuysBooked) \in Nat
           /\ Sum(LeftOf, lots) + Sum(Asked, SalesBooked) = Sum(Asked, BuysBooked)
  <1>1. /\ lots \in SUBSET LotType /\ IsFiniteSet(lots)
        /\ BuysBooked \in SUBSET Txns /\ IsFiniteSet(BuysBooked)
        /\ SalesBooked \in SUBSET Txns /\ IsFiniteSet(SalesBooked)
        BY FS_Subset DEF LotsInv, Shelved, BuysBooked, SalesBooked
  <1>2. \A S \in SUBSET LotType : IsFiniteSet(S) => Sum(LeftOf, S) \in Nat
        BY SumIsNat, LotsAreNumbers
  <1>3. \A S \in SUBSET Txns : IsFiniteSet(S) => Sum(Asked, S) \in Nat
        BY SumIsNat, LotsAreNumbers
  <1> QED BY <1>1, <1>2, <1>3 DEF LotsInv

LEMMA CommitShelves ==
    ASSUME PfInv, LotsInv, NEW t \in Txns, Commit(t)
    PROVE  LotsInv'
  <1>1. /\ OneAtMost(account') /\ \A p \in Positions : OneAtMost(locked'[p])
        BY LocksReleased DEF Commit
  <1>2. /\ trades' \in SUBSET Txns /\ IsFiniteSet(trades') /\ \A u \in trades' : step'[u] = "ok"
    <2>1. step' = [step EXCEPT ![t] = "ok"] /\ (trades' = trades \/ trades' = trades \cup {t})
          BY DEF Commit, To
    <2>2. IsFiniteSet(trades \cup {t})
          BY FS_AddElement DEF LotsInv
    <2> QED BY <2>1, <2>2 DEF LotsInv, PfInv, PfTypes
  <1>3. /\ Quantity[t] \in Nat /\ quantity \in [Positions -> Nat] /\ cash \in Nat
        /\ \A p \in Positions : quantity[p] = Sum(LeftOf, At(lots, p))
        BY PortfolioAssumption DEF PfInv, PfTypes, LotsInv
  <1>4. PICK L : L = lots
        OBVIOUS
  <1>5. PICK M : M = lots'
        OBVIOUS
  <1>6. Shelved(L)
        BY <1>4 DEF LotsInv
  <1>7. CASE Kind[t] = "buy"
    <2>1. PICK m \in LotType :
            /\ m.id = Cardinality(lots) + 1 /\ m.left = Quantity[t] /\ m.position \in Positions
            /\ lots' = lots \cup {m} /\ cash' = cash
            /\ quantity' = [quantity EXCEPT ![m.position] = @ + Quantity[t]]
          BY <1>7, BuyBooks
    <2>2. m.id = Cardinality(L) + 1 /\ M = L \cup {m}
          BY <1>4, <1>5, <2>1
    <2>3. /\ Shelved(M)
          /\ Sum(LeftOf, M) = Quantity[t] + Sum(LeftOf, L)
          /\ Sum(LeftOf, At(M, m.position)) = Quantity[t] + Sum(LeftOf, At(L, m.position))
          /\ \A p : p # m.position => At(M, p) = At(L, p)
          BY <1>6, <2>1, <2>2, LotBought
    <2>4. \A p \in Positions : quantity'[p] = Sum(LeftOf, At(M, p))
      <3> TAKE p \in Positions
      <3>1. quantity[p] = Sum(LeftOf, At(L, p)) /\ quantity[p] \in Nat
            BY <1>3, <1>4
      <3>2. CASE p = m.position
        <4>1. quantity'[p] = quantity[p] + Quantity[t]
              BY <1>3, <2>1, <3>2
        <4> QED BY <1>3, <2>3, <3>1, <3>2, <4>1
      <3>3. CASE p # m.position
        <4>1. quantity'[p] = quantity[p] /\ At(M, p) = At(L, p)
              BY <1>3, <2>1, <2>3, <3>3
        <4> QED BY <3>1, <4>1
      <3> QED BY <3>2, <3>3
    <2>5. Sum(LeftOf, M) + Sum(Asked, SalesBooked') = Sum(Asked, BuysBooked')
      <3>1. Sum(Asked, BuysBooked') = Quantity[t] + Sum(Asked, BuysBooked) /\ SalesBooked' = SalesBooked
            BY <1>7, TradeEnters
      <3>2. /\ Sum(LeftOf, L) \in Nat /\ Sum(Asked, SalesBooked) \in Nat /\ Sum(Asked, BuysBooked) \in Nat
            /\ Sum(LeftOf, L) + Sum(Asked, SalesBooked) = Sum(Asked, BuysBooked)
            BY <1>4, BalanceIs
      <3> QED BY <1>3, <2>3, <3>1, <3>2
    <2> QED BY <1>1, <1>2, <1>3, <1>5, <2>1, <2>3, <2>4, <2>5 DEF LotsInv
  <1>8. CASE Kind[t] = "sell"
    <2>1. PICK p \in Positions :
            /\ Quantity[t] <= quantity[p] /\ cash' = cash
            /\ quantity' = [quantity EXCEPT ![p] = @ - Quantity[t]]
            /\ lots' = AfterSale(lots, p, Quantity[t])
          BY <1>8, SaleBooks
    <2>2. PICK q \in Nat : q = Quantity[t]
          BY <1>3
    <2>3. M = AfterSale(L, p, q) /\ q <= Sum(LeftOf, At(L, p))
          BY <1>3, <1>4, <1>5, <2>1, <2>2
    <2>4. /\ Shelved(M)
          /\ Sum(LeftOf, M) = Sum(LeftOf, L) - Quantity[t]
          /\ Sum(LeftOf, At(M, p)) = Sum(LeftOf, At(L, p)) - Quantity[t]
          /\ \A r : r # p => At(M, r) = At(L, r)
          BY <1>6, <2>2, <2>3, LotsSold
    <2>5. \A r \in Positions : quantity'[r] = Sum(LeftOf, At(M, r))
      <3> TAKE r \in Positions
      <3>1. quantity[r] = Sum(LeftOf, At(L, r)) /\ quantity[r] \in Nat
            BY <1>3, <1>4
      <3>2. CASE r = p
        <4>1. quantity'[r] = quantity[r] - Quantity[t]
              BY <1>3, <2>1, <3>2
        <4> QED BY <1>3, <2>4, <3>1, <3>2, <4>1
      <3>3. CASE r # p
        <4>1. quantity'[r] = quantity[r] /\ At(M, r) = At(L, r)
              BY <1>3, <2>1, <2>4, <3>3
        <4> QED BY <3>1, <4>1
      <3> QED BY <3>2, <3>3
    <2>6. Sum(LeftOf, M) + Sum(Asked, SalesBooked') = Sum(Asked, BuysBooked')
      <3>1. Sum(Asked, SalesBooked') = Quantity[t] + Sum(Asked, SalesBooked) /\ BuysBooked' = BuysBooked
            BY <1>8, TradeEnters
      <3>2. /\ Sum(LeftOf, L) \in Nat /\ Sum(Asked, SalesBooked) \in Nat /\ Sum(Asked, BuysBooked) \in Nat
            /\ Sum(LeftOf, L) + Sum(Asked, SalesBooked) = Sum(Asked, BuysBooked)
            BY <1>4, BalanceIs
      <3> QED BY <1>3, <2>4, <3>1, <3>2
    <2> QED BY <1>1, <1>2, <1>3, <1>5, <2>1, <2>4, <2>5, <2>6 DEF LotsInv
  <1>9. CASE Kind[t] = "cash"
    <2>1. UNCHANGED <<quantity, lots, trades>> /\ cash' \in Nat
          BY <1>3, <1>9 DEF Commit
    <2>2. SalesBooked' = SalesBooked /\ BuysBooked' = BuysBooked
          BY <2>1 DEF SalesBooked, BuysBooked
    <2> QED BY <1>1, <1>2, <2>1, <2>2 DEF LotsInv
  <1> QED BY <1>7, <1>8, <1>9, PortfolioAssumption

LEMMA LotsKept == PfInv /\ LotsInv /\ [PfNext]_pfVars => LotsInv'
  <1> SUFFICES ASSUME PfInv, LotsInv, [PfNext]_pfVars PROVE LotsInv'
      OBVIOUS
  <1>1. ASSUME NEW t \in Txns, InsertReceipt(t) \/ LockAccount(t) \/ ReadPosition(t) \/ Flush(t) PROVE LotsInv'
    <2>1. \E to : step' = [step EXCEPT ![t] = to]
          BY <1>1 DEF InsertReceipt, LockAccount, ReadPosition, Flush, To
    <2>2. step[t] # "ok" /\ UNCHANGED pfRows
          BY <1>1 DEF InsertReceipt, LockAccount, ReadPosition, Flush, To
    <2>3. OneAtMost(account')
          BY <1>1 DEF InsertReceipt, LockAccount, ReadPosition, Flush, LotsInv, OneAtMost
    <2>4. \A p \in Positions : OneAtMost(locked'[p])
      <3>1. CASE UNCHANGED locked
            BY <3>1 DEF LotsInv
      <3>2. CASE \E p \in Positions : locked' = [locked EXCEPT ![p] = {t}]
            BY <3>2 DEF LotsInv, OneAtMost, PfInv, PfTypes
      <3>3. target[t] # 0 => target[t] \in Positions
            BY DEF PfInv, PfTypes
      <3> QED BY <1>1, <3>1, <3>2, <3>3 DEF InsertReceipt, LockAccount, ReadPosition, Flush
    <2> QED BY <2>1, <2>2, <2>3, <2>4, LotsStay
  <1>2. ASSUME NEW t \in Txns, NEW p \in Positions, LockPosition(t, p) PROVE LotsInv'
    <2>1. PICK to \in {"account", "refused"} : step' = [step EXCEPT ![t] = to]
          BY <1>2 DEF LockPosition, To
    <2>2. step[t] # "ok" /\ UNCHANGED pfRows
          BY <1>2 DEF LockPosition, To
    <2>3. OneAtMost(account') /\ \A q \in Positions : OneAtMost(locked'[q])
      <3>1. CASE PfRelease(t)
            BY <3>1, LocksReleased
      <3>2. CASE locked' = [locked EXCEPT ![p] = {t}] /\ UNCHANGED account
            BY <3>2 DEF LotsInv, OneAtMost, PfInv, PfTypes
      <3> QED BY <1>2, <3>1, <3>2 DEF LockPosition
    <2> QED BY <2>1, <2>2, <2>3, LotsStay
  <1>3. ASSUME NEW t \in Txns, Abort(t) PROVE LotsInv'
    <2>1. step' = [step EXCEPT ![t] = "aborted"] /\ PfRelease(t) /\ UNCHANGED pfRows /\ step[t] # "ok"
          BY <1>3 DEF Abort, Answers
    <2> QED BY <2>1, LocksReleased, LotsStay
  <1>4. CASE UNCHANGED pfVars
        BY <1>4 DEF pfVars, LotsInv, BuysBooked, SalesBooked
  <1> QED BY <1>1, <1>2, <1>3, <1>4, CommitShelves DEF PfNext

(* However buys and sales interleave, wait for each other's row locks, are *)
(* aborted or repeated, no update of a position is lost: its quantity is   *)
(* what its lots have left, all that was ever bought less all that was     *)
(* sold is what the lots have left together, it is open exactly while it   *)
(* holds something, and no operation is in it twice.                       *)
THEOREM LotsAddUp == PfSpec => []LedgerAgrees
  <1>1. PfInv /\ LotsInv => LedgerAgrees
    <2> SUFFICES ASSUME PfInv, LotsInv PROVE LedgerAgrees
        OBVIOUS
    <2>1. \A p \in Positions : quantity[p] = LotSum(Lots(p)) /\ (p \in open <=> quantity[p] # 0)
      <3> TAKE p \in Positions
      <3>1. PICK L : L = lots
            OBVIOUS
      <3>2. At(L, p) \in SUBSET LotType /\ IsFiniteSet(At(L, p))
            BY <3>1, ShelvedAt DEF LotsInv
      <3>3. LotSum(At(L, p)) = Sum(LeftOf, At(L, p))
            BY <3>2, LotSumIs
      <3>4. Lots(p) = At(L, p) /\ quantity[p] = Sum(LeftOf, At(L, p))
            BY <3>1 DEF Lots, At, LotsInv
      <3> QED BY <3>3, <3>4 DEF PfInv, OpenIsHeld
    <2>2. LotSum(lots) = QuantitySum({t \in trades : Kind[t] = "buy"})
                         - QuantitySum({t \in trades : Kind[t] = "sell"})
      <3>1. LotSum(lots) = Sum(LeftOf, lots)
            BY LotSumIs DEF LotsInv, Shelved
      <3>2. \A S \in SUBSET Txns : IsFiniteSet(S) => QuantitySum(S) = Sum(Asked, S)
            BY QuantitySumIs
      <3>3. BuysBooked \in SUBSET Txns /\ IsFiniteSet(BuysBooked) /\ SalesBooked \in SUBSET Txns /\ IsFiniteSet(SalesBooked)
            BY FS_Subset DEF LotsInv, BuysBooked, SalesBooked
      <3>4. LotSum(lots) = QuantitySum(BuysBooked) - QuantitySum(SalesBooked)
            BY <3>1, <3>2, <3>3, BalanceIs
      <3> QED BY <3>4 DEF BuysBooked, SalesBooked
    <2>3. OneOpenPosition
      <3>1. open = {} \/ \E p \in open : open = {p}
            BY DEF PfInv, OpenIsHeld
      <3>2. Cardinality({}) = 0 /\ \A p \in open : Cardinality({p}) = 1
            BY FS_EmptySet, FS_Singleton
      <3> QED BY <3>1, <3>2 DEF OneOpenPosition
    <2> QED BY <2>1, <2>2, <2>3 DEF LedgerAgrees, PfInv
  <1> QED BY <1>1, PfStarts, PfKept, LotsStart, LotsKept, PTL DEF PfSpec

LEMMA PfTyping == PfInv /\ LotsInv => PfTypeOK
  <1> SUFFICES ASSUME PfInv, LotsInv PROVE PfTypeOK
      OBVIOUS
  <1>1. ASSUME NEW S, OneAtMost(S) PROVE Cardinality(S) <= 1
    <2>1. S = {} \/ \E x \in S : S = {x}
          BY <1>1 DEF OneAtMost
    <2>2. Cardinality({}) = 0 /\ \A x \in S : Cardinality({x}) = 1
          BY FS_EmptySet, FS_Singleton
    <2> QED BY <2>1, <2>2
  <1>2. Cardinality(account) <= 1 /\ \A p \in Positions : Cardinality(locked[p]) <= 1
        BY <1>1 DEF LotsInv
  <1>3. lots \subseteq [id : Nat, position : Positions, txn : Txns, left : Nat, role : {"CORE", "ADDON"}]
        BY DEF LotsInv, Shelved, LotType
  <1> QED BY <1>2, <1>3 DEF PfInv, PfTypes, PfTypeOK, LotsInv
=============================================================================
