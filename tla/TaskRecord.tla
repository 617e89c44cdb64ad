----------------------------- MODULE TaskRecord -----------------------------
(***************************************************************************)
(* The row of the `task` table, and the one-transaction writes that        *)
(* TaskLifecycleService makes to it through TaskRecordRepository.  Every   *)
(* write selects the row FOR UPDATE (or inserts it and falls back to the   *)
(* update when another session inserted first), so each is a function from *)
(* the old row to the new one.                                             *)
(*                                                                         *)
(* started, finished and error hold the attempt (1, 2, ...) that last      *)
(* wrote the column, 0 standing for NULL.  An absent row is Blank: the     *)
(* repository builds a new row and applies the same write to it.           *)
(***************************************************************************)
EXTENDS Naturals

Active   == {"pending", "processing"}
Terminal == {"completed", "failed", "partial", "skipped", "cancelled"}
Statuses == {"absent"} \cup Active \cup Terminal

Record == [status   : Statuses,
           progress : {0, 10, 50, 100},
           retries  : Nat,
           started  : Nat,
           finished : Nat,
           error    : Nat]

Blank == [status |-> "absent", progress |-> 0, retries |-> 0,
          started |-> 0, finished |-> 0, error |-> 0]

(* Mutants of CanApplyStatus: every status applies; the first terminal     *)
(* status wins.                                                            *)
CanApplyAnyStatus(current, new) == TRUE
CanApplyUntilTerminal(current, new) == current = new \/ current \notin Terminal

(* A terminal status yields only to another terminal status.               *)
CanApplyStatus(current, new) ==
    current = new \/ current \notin Terminal \/ new \in Terminal

Applied(current, new) == IF CanApplyStatus(current, new) THEN new ELSE current

-----------------------------------------------------------------------------
(* create_pending: the metadata is written whether or not the status is.   *)
EnsurePending(r, n) ==
    [r EXCEPT !.status = Applied(r.status, "pending"), !.progress = 0, !.retries = n]

(* mark_processing: started_at keeps the first attempt's time.             *)
MarkProcessing(r, n) ==
    [r EXCEPT !.status   = Applied(r.status, "processing"),
              !.progress = 10,
              !.retries  = n,
              !.started  = IF @ = 0 THEN n + 1 ELSE @]

(* mark_progress carries no task_type, so it never creates a row.          *)
MarkProgress(r) ==
    IF r.status = "absent" THEN r
    ELSE [r EXCEPT !.status = Applied(r.status, "processing"), !.progress = 50]

(* Mutant of MarkFinal: finished_at is forgotten.                          *)
MarkFinalUnfinished(r, s, n) ==
    [r EXCEPT !.status   = Applied(r.status, s),
              !.progress = 100,
              !.error    = IF s \in {"failed", "partial"} THEN n + 1 ELSE @]

(* mark_completed, mark_outcome, mark_skipped, mark_failed and the         *)
(* cancellation of a refused submission.  error is set, never cleared.     *)
MarkFinal(r, s, n) ==
    [r EXCEPT !.status   = Applied(r.status, s),
              !.progress = 100,
              !.finished = n + 1,
              !.error    = IF s \in {"failed", "partial"} THEN n + 1 ELSE @]
=============================================================================
