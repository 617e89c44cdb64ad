---------------------------- MODULE NoiseControl ----------------------------
(***************************************************************************)
(* NotificationService.send in the threads of one process: the message is  *)
(* persisted, the noise control decides under its lock whether it is       *)
(* pushed, the channels are tried one after the other, and the outcome is  *)
(* recorded or the reservation given back.  Nothing is locked while the    *)
(* channels are tried, which may take longer than a reservation lives.     *)
(***************************************************************************)
EXTENDS Integers, FiniteSets

CONSTANTS
    Senders,        \* threads that send
    Messages,       \* messages, of one route and severity each
    DedupKey,       \* the dedup state key of a message
    CooldownKey,    \* its cooldown state key
    Muted,          \* messages below NOTIFICATION_MIN_SEVERITY
    Channels,       \* the channels of the route
    DedupTTL,       \* NOTIFICATION_DEDUP_TTL_SECONDS, 0 when unset
    Cooldown,       \* NOTIFICATION_COOLDOWN_SECONDS, 0 when unset
    InFlight,       \* _INFLIGHT_RESERVATION_SECONDS
    MinutesPerDay, QuietFrom, QuietTo, \* the day's length, NOTIFICATION_QUIET_HOURS
    MaxTime         \* bound on the clock

ASSUME NoiseAssumption ==
    /\ DedupTTL \in Nat /\ Cooldown \in Nat /\ InFlight \in Nat \ {0}
    /\ MinutesPerDay \in Nat \ {0} /\ MaxTime \in Nat
    /\ \A m \in Messages : DedupKey[m] # CooldownKey[m]

VARIABLES
    now,      \* the clock
    marks,    \* _dedup_expires_at and _cooldown_expires_at, 0 when absent
    holds,    \* the reservations: their expiry and their token
    sending,  \* per sender, the message it has been allowed to push
    since,    \* when that was
    untried,  \* the channels it has still to try
    sent,     \* a channel took it
    pushes    \* history: when which key was pushed, with an outcome

noiseVars == <<now, marks, holds, sending, since, untried, sent, pushes>>

Nobody  == "nobody"
Nothing == "nothing"
ASSUME NobodyAssumption == Nobody \notin Senders /\ Nothing \notin Messages

DedupKeys    == {DedupKey[m] : m \in Messages}
CooldownKeys == {CooldownKey[m] : m \in Messages}
Keys         == DedupKeys \cup CooldownKeys
KeysOf(m)    == {DedupKey[m], CooldownKey[m]}

(* How long a key is closed after a push; a key of length 0 is not used.   *)
Length(k) == IF k \in DedupKeys THEN DedupTTL ELSE Cooldown

Free == [until |-> 0, token |-> Nobody]

NoiseTypeOK ==
    /\ now \in 0..MaxTime
    /\ marks \in [Keys -> Nat]
    /\ holds \in [Keys -> [until : Nat, token : Senders \cup {Nobody}]]
    /\ sending \in [Senders -> Messages \cup {Nothing}]
    /\ since \in [Senders -> 0..MaxTime]
    /\ untried \in [Senders -> SUBSET Channels]
    /\ sent \in [Senders -> BOOLEAN]
    /\ pushes \subseteq Keys \X (0..MaxTime)

NoiseInit ==
    /\ now = 0
    /\ marks = [k \in Keys |-> 0]
    /\ holds = [k \in Keys |-> Free]
    /\ sending = [p \in Senders |-> Nothing]
    /\ since = [p \in Senders |-> 0]
    /\ untried = [p \in Senders |-> {}]
    /\ sent = [p \in Senders |-> FALSE]
    /\ pushes = {}

(* is_time_in_quiet_hours: an interval may pass midnight, an empty one is  *)
(* no interval.                                                            *)
InQuietHours(t) ==
    LET minute == t % MinutesPerDay IN
    \/ QuietFrom < QuietTo /\ QuietFrom <= minute /\ minute < QuietTo
    \/ QuietFrom > QuietTo /\ (minute >= QuietFrom \/ minute < QuietTo)

(* A key in use is closed by a mark or a reservation that has not expired. *)
Closed(k) == Length(k) > 0 /\ (marks[k] > now \/ holds[k].until > now)

LiveMarks == [k \in Keys |-> IF marks[k] <= now THEN 0 ELSE marks[k]]
LiveHolds == [k \in Keys |-> IF holds[k].until <= now THEN Free ELSE holds[k]]

(* evaluate_notification_noise: expired entries go, and unless the message *)
(* is suppressed both of its keys are reserved under one fresh token.      *)
Evaluate(p, m) ==
    /\ sending[p] = Nothing
    /\ m \notin Muted /\ ~InQuietHours(now) /\ Channels # {}
    /\ marks' = LiveMarks
    /\ IF \E k \in KeysOf(m) : Closed(k)
       THEN holds' = LiveHolds /\ UNCHANGED <<sending, since, untried, sent>>
       ELSE /\ holds' = [k \in Keys |->
                           IF k \in KeysOf(m) /\ Length(k) > 0
                           THEN [until |-> now + InFlight, token |-> p]
                           ELSE LiveHolds[k]]
            /\ sending' = [sending EXCEPT ![p] = m]
            /\ since' = [since EXCEPT ![p] = now]
            /\ untried' = [untried EXCEPT ![p] = Channels]
            /\ sent' = [sent EXCEPT ![p] = FALSE]
    /\ UNCHANGED <<now, pushes>>

(* One channel takes every part of the message, or refuses or raises.      *)
TryChannel(p, c) ==
    /\ c \in untried[p]
    /\ untried' = [untried EXCEPT ![p] = @ \ {c}]
    /\ \E took \in BOOLEAN :
         /\ sent' = [sent EXCEPT ![p] = @ \/ took]
         /\ pushes' = IF took THEN pushes \cup (KeysOf(sending[p]) \X {now}) ELSE pushes
    /\ UNCHANGED <<now, marks, holds, sending, since>>

(* The rendering before the channels raises: nothing was tried.            *)
RenderingRaises(p) ==
    /\ sending[p] # Nothing /\ untried[p] = Channels
    /\ untried' = [untried EXCEPT ![p] = {}]
    /\ UNCHANGED <<now, marks, holds, sending, since, sent, pushes>>

(* A reservation is given back only if it is still this sender's.          *)
GivenBack(p, table) == [k \in Keys |-> IF table[k].token = p THEN Free ELSE table[k]]

Done(p) == sending[p] # Nothing /\ untried[p] = {}

RecordAttempted(p) ==
    /\ Done(p)
    /\ holds' = GivenBack(p, LiveHolds)
    /\ marks' = [k \in Keys |-> IF k \in KeysOf(sending[p]) /\ Length(k) > 0
                                THEN now + Length(k) ELSE LiveMarks[k]]
    /\ sending' = [sending EXCEPT ![p] = Nothing]
    /\ UNCHANGED <<now, since, untried, sent, pushes>>

(* record_notification_noise and release_notification_noise                *)
RecordSent(p) ==
    /\ Done(p) /\ sent[p]
    /\ holds' = GivenBack(p, LiveHolds)
    /\ marks' = [k \in Keys |-> IF k \in KeysOf(sending[p]) /\ Length(k) > 0
                                THEN now + Length(k) ELSE LiveMarks[k]]
    /\ sending' = [sending EXCEPT ![p] = Nothing]
    /\ UNCHANGED <<now, since, untried, sent, pushes>>

GiveBack(p) ==
    /\ Done(p) /\ ~sent[p]
    /\ holds' = GivenBack(p, holds)
    /\ sending' = [sending EXCEPT ![p] = Nothing]
    /\ UNCHANGED <<now, marks, since, untried, sent, pushes>>

Tick ==
    /\ now < MaxTime
    /\ now' = now + 1
    /\ UNCHANGED <<marks, holds, sending, since, untried, sent, pushes>>

NoiseNext ==
    \/ Tick
    \/ \E p \in Senders :
         \/ \E m \in Messages : Evaluate(p, m)
         \/ \E c \in Channels : TryChannel(p, c)
         \/ RenderingRaises(p) \/ RecordSent(p) \/ GiveBack(p)

NoiseSpec == NoiseInit /\ [][NoiseNext]_noiseVars

Uses(p, k) == sending[p] # Nothing /\ k \in KeysOf(sending[p]) /\ Length(k) > 0

(* Two threads push under one key only when the first has been at it for   *)
(* longer than its reservation: no release or record of a third, or of an  *)
(* overdue one, opens the key that a later sender holds.                   *)
OneInFlight ==
    \A p, q \in Senders, k \in Keys :
      p # q /\ Uses(p, k) /\ Uses(q, k) =>
        \/ since[q] >= since[p] + InFlight
        \/ since[p] >= since[q] + InFlight

(* A key is closed only after a push under it that a channel took, or      *)
(* while its sender is still at work: a send that failed suppresses no     *)
(* retry of it, so the last failure report of a task is dropped only after *)
(* an earlier one went out.                                                *)
MarksAreEarned ==
    \A k \in Keys :
      /\ marks[k] > now => \E t \in 0..now : <<k, t>> \in pushes
      /\ holds[k].token # Nobody => Uses(holds[k].token, k)

(* A report is suppressed only by one that went out or is going out.       *)
NoiseIsControlled == OneInFlight /\ MarksAreEarned
=============================================================================
