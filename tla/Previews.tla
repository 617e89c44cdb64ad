------------------------------ MODULE Previews ------------------------------
(***************************************************************************)
(* PreviewRepository: the latest preview of one scope, as the options scan *)
(* uses it.  A publication replaces the last one or, for a checkpoint of   *)
(* the same session, is merged into it.  Writers lock the batch row, a     *)
(* reader shares that lock between its two selects.                        *)
(***************************************************************************)
EXTENDS Integers, FiniteSets

CONSTANTS
    Publishers, \* processes that scan and publish
    Viewers,    \* requests that read
    Stocks,     \* symbols
    SessionLength, \* a trade date's stretch of the clock; a preview expires with it
    LastTime    \* bound of the clock

ASSUME PreviewAssumption == SessionLength \in Nat \ {0} /\ LastTime \in Nat

Dated(t) == t \div SessionLength
Expiry(t) == (Dated(t) + 1) * SessionLength

VARIABLES
    time,
    batch,   \* ResearchPreview: observed_at, trade_date, failures; an empty set without one
    entries, \* ResearchPreviewItem: key and when it was observed
    publish, \* per publisher: where it is and what it publishes
    view,    \* per viewer: where it is, the header and the rows it has read
    sharing  \* viewers that hold the row's shared lock

previewVars == <<time, batch, entries, publish, view, sharing>>

Headers  == [at : 0..LastTime, failures : SUBSET Stocks]
Entries  == [stock : Stocks, at : 0..LastTime]

PreviewTypeOK ==
    /\ time \in 0..LastTime
    /\ batch \subseteq Headers /\ Cardinality(batch) <= 1
    /\ entries \subseteq Entries
    /\ publish \in [Publishers -> [busy : BOOLEAN, at : 0..LastTime, rows : SUBSET Stocks,
                                   failures : SUBSET Stocks, merge : BOOLEAN]]
    /\ view \in [Viewers -> [header : SUBSET Headers, rows : SUBSET Entries, done : BOOLEAN]]
    /\ sharing \subseteq Viewers

NoPublication == [busy |-> FALSE, at |-> 0, rows |-> {}, failures |-> {}, merge |-> FALSE]
NoView == [header |-> {}, rows |-> {}, done |-> FALSE]

PreviewInit ==
    /\ time = 0 /\ batch = {} /\ entries = {}
    /\ publish = [p \in Publishers |-> NoPublication]
    /\ view = [v \in Viewers |-> NoView] /\ sharing = {}

PassTime ==
    /\ time < LastTime /\ time' = time + 1
    /\ UNCHANGED <<batch, entries, publish, view, sharing>>

(* save_preview: observed now; the first of a scan replaces, its           *)
(* checkpoints merge.                                                      *)
Prepare(p) ==
    /\ ~publish[p].busy
    /\ \E rows, failures \in SUBSET Stocks, merge \in BOOLEAN :
         /\ rows \cap failures = {}
         /\ publish' = [publish EXCEPT ![p] = [busy |-> TRUE, at |-> time, rows |-> rows,
                                               failures |-> failures, merge |-> merge]]
    /\ UNCHANGED <<time, batch, entries, view, sharing>>

(***************************************************************************)
(* publish: one transaction under the row's lock.  An older observation is *)
(* refused; what had expired by then, or belongs to another session, is    *)
(* not merged into.                                                        *)
(***************************************************************************)
OlderPublication(p) == \E h \in batch : h.at > publish[p].at

MergesAnySession(p) == publish[p].merge /\ batch # {}

Merges(p) ==
    publish[p].merge /\ \E h \in batch : Dated(h.at) = Dated(publish[p].at) /\ Expiry(h.at) > publish[p].at

Kept(p) == {e \in entries : Merges(p) /\ e.stock \notin publish[p].rows \cup publish[p].failures}

MergedFailures(p) ==
    publish[p].failures \cup UNION {h.failures \ publish[p].rows : h \in {h \in batch : Merges(p)}}

Publication(p) ==
    /\ publish[p].busy /\ sharing = {}
    /\ IF OlderPublication(p) THEN UNCHANGED <<batch, entries>>
       ELSE /\ batch' = {[at |-> publish[p].at, failures |-> MergedFailures(p)]}
            /\ entries' = Kept(p) \cup {[stock |-> s, at |-> publish[p].at] : s \in publish[p].rows}
    /\ publish' = [publish EXCEPT ![p] = NoPublication]
    /\ UNCHANGED <<time, view, sharing>>

(* The connection breaks: nothing is published.                            *)
AbandonPublication(p) ==
    /\ publish[p].busy /\ publish' = [publish EXCEPT ![p] = NoPublication]
    /\ UNCHANGED <<time, batch, entries, view, sharing>>

(* read: the header, under a shared lock, then its rows.                   *)
ReadHeader(v) ==
    LET valid == {h \in batch : Expiry(h.at) > time} IN
    /\ view[v] = NoView
    /\ view' = [view EXCEPT ![v] = [header |-> valid, rows |-> {}, done |-> valid = {}]]
    /\ sharing' = IF valid = {} THEN sharing ELSE sharing \cup {v}
    /\ UNCHANGED <<time, batch, entries, publish>>

ReadRows(v) ==
    /\ view[v].header # {} /\ ~view[v].done
    /\ view' = [view EXCEPT ![v].rows = entries, ![v].done = TRUE]
    /\ sharing' = sharing \ {v}
    /\ UNCHANGED <<time, batch, entries, publish>>

Answer(v) ==
    /\ view[v].done /\ view' = [view EXCEPT ![v] = NoView]
    /\ UNCHANGED <<time, batch, entries, publish, sharing>>

PreviewNext ==
    \/ PassTime
    \/ \E p \in Publishers : Prepare(p) \/ Publication(p) \/ AbandonPublication(p)
    \/ \E v \in Viewers : ReadHeader(v) \/ ReadRows(v) \/ Answer(v)

PreviewSpec == PreviewInit /\ [][PreviewNext]_previewVars

(***************************************************************************)
(* Properties                                                              *)
(***************************************************************************)
(* A header and rows fit: one row per symbol, none newer than the header,  *)
(* none of another session, and no symbol both shown and reported failed.  *)
Fit(h, rows) ==
    /\ \A e \in rows : e.at <= h.at /\ Dated(e.at) = Dated(h.at) /\ e.stock \notin h.failures
    /\ \A e, f \in rows : e.stock = f.stock => e = f

(* "Hold a shared batch lock so two bounded SELECTs see one publication":  *)
(* whatever scans publish late, merge or replace, the stored preview and   *)
(* every preview a request answers with are one coherent publication.      *)
OnePublication ==
    /\ \A h \in batch : Fit(h, entries)
    /\ \A v \in Viewers : view[v].done => \A h \in view[v].header : Fit(h, view[v].rows)
=============================================================================
