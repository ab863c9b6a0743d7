------------------------------ MODULE RunRows ------------------------------
(***************************************************************************)
(* One row of the `runs` table and what each repository operation of       *)
(* db/repositories/runs.py makes of it, and the status of an experiment    *)
(* that db/repositories/experiments.py derives from its runs.              *)
(*                                                                         *)
(* Nothing here has state: RunQueue and Worker apply these operators.      *)
(* Time is abstracted to what the queries compare: lease_expires_at is     *)
(* NULL, later than now ("live") or not later than now ("expired").        *)
(***************************************************************************)
EXTENDS Naturals

CONSTANTS Workers,       \* worker ids (RCP_WORKER_ID of each simulator)
          Exps,          \* experiments
          Keys,          \* Idempotency-Key header values
          Fingerprints,  \* hashes of request bodies
          None,          \* SQL NULL
          MaxAttempts    \* lease_attempt_limit of the worker

ASSUME MaxAttemptsAssumption == MaxAttempts \in Nat \ {0}

-----------------------------------------------------------------------------
(* The status vocabulary.                                                  *)

TerminalRunStatuses == {"completed", "completed_with_errors", "cancelled", "failed"}
LeasedStatuses == {"claimed", "running"}
HeartbeatStatuses == {"claimed", "running", "cancelling"}
\* "lease_expired" is a legal value of the column, but requeue_expired_leases
\* overwrites it before it flushes: no transaction ever commits it.
RunStatuses == TerminalRunStatuses \cup HeartbeatStatuses \cup {"queued"}

ExperimentStatuses ==
  {"draft", "queued", "running", "completed", "completed_with_errors", "cancelled", "failed"}

\* A row; exp = None stands for "no such row yet".
Row == [status  : RunStatuses,
        owner   : Workers \cup {None},
        lease   : {"null", "live", "expired"},
        attempt : Nat,
        exp     : Exps \cup {None},
        key     : Keys \cup {None},
        fp      : Fingerprints \cup {None}]

ASSUME NoneAssumption ==
  None \notin Workers \cup Exps \cup Keys \cup Fingerprints \cup Row
             \cup TerminalRunStatuses \cup ExperimentStatuses

NoRow == [status |-> "queued", owner |-> None, lease |-> "null", attempt |-> 0,
          exp |-> None, key |-> None, fp |-> None]

Exists(row) == row.exp # None
Terminal(row) == row.status \in TerminalRunStatuses

-----------------------------------------------------------------------------
(* Repository operations on one row.                                       *)

\* create_queued_run
QueuedRow(e, k, f) == [NoRow EXCEPT !.exp = e, !.key = k, !.fp = f]

\* Mutant of Reclaimable: the lease is not compared with now.
ReclaimableEarly(row) == Exists(row) /\ row.status \in LeasedStatuses

\* Mutant of Reclaimable: only the claimed runs are selected.
ReclaimableClaimed(row) == Exists(row) /\ row.status = "claimed" /\ row.lease = "expired"

\* The rows that requeue_expired_leases selects.  A run that is being
\* cancelled is not among them, whatever its lease.
Reclaimable(row) ==
  /\ Exists(row)
  /\ row.status \in LeasedStatuses
  /\ row.lease = "expired"

\* Mutant of Requeued: the transitional status is left in the row.
RequeuedHalfway(row) == [row EXCEPT !.status = "lease_expired", !.owner = None, !.lease = "null"]

\* Mutant of Requeued: one attempt too many.
RequeuedOnceMore(row) ==
  [row EXCEPT !.status = IF row.attempt <= MaxAttempts THEN "queued" ELSE "failed",
              !.owner = None, !.lease = "null"]

\* The loop body of requeue_expired_leases.
Requeued(row) ==
  [row EXCEPT !.status = IF row.attempt < MaxAttempts THEN "queued" ELSE "failed",
              !.owner = None, !.lease = "null"]

\* The tail of claim_next_run.
ClaimedBy(row, w) ==
  [row EXCEPT !.status = "claimed", !.owner = w, !.lease = "live", !.attempt = @ + 1]

\* Mutant of CancelRequested: a leased run is cancelled at once.
CancelledAtOnce(row) == [row EXCEPT !.status = "cancelled", !.owner = None, !.lease = "null"]

\* Mutant of CancelRequested: a queued run waits for a worker to observe it.
CancellingAlways(row) == [row EXCEPT !.status = "cancelling"]

\* request_run_cancellation, on a row that is not terminal.
CancelRequested(row) ==
  CASE row.status = "queued"             -> [row EXCEPT !.status = "cancelled",
                                                        !.owner = None, !.lease = "null"]
    [] row.status \in LeasedStatuses     -> [row EXCEPT !.status = "cancelling"]
    [] OTHER                             -> row

\* heartbeat_run accepts the row from worker w.
MayHeartbeat(row, w) ==
  /\ Exists(row)
  /\ row.status \in HeartbeatStatuses
  /\ row.owner = w

Heartbeaten(row) == [row EXCEPT !.lease = "live"]

-----------------------------------------------------------------------------
(* mark_run_running, complete_run and _release_lease load the row without  *)
(* a lock, decide on what they loaded (`seen`) and flush an UPDATE of the  *)
(* columns they changed.  Under READ COMMITTED that UPDATE is applied to   *)
(* the row as it is by then (`row`), which another transaction may have    *)
(* changed: the columns not written keep the newer values.                 *)

\* mark_run_running
StartedOver(row) == [row EXCEPT !.status = "running"]

\* complete_run: a column that already was NULL when loaded is not written.
CompletedOver(row, seen, status) ==
  [row EXCEPT !.status = status,
              !.owner = IF seen.owner = None THEN @ ELSE None,
              !.lease = IF seen.lease = "null" THEN @ ELSE "null"]

\* Mutant of ReleasedOver: whatever the row said, the run is queued again.
ReleasedAnyway(row, seen) == [row EXCEPT !.status = "queued", !.owner = None, !.lease = "null"]

\* release_owned_lease, on a loaded row that the worker owns and that is not
\* terminal.  Its SELECT ... FOR UPDATE locks the row but does not refresh
\* the instance that _release_lease already loaded in the same session.
ReleasedOver(row, seen) ==
  [row EXCEPT !.status = IF seen.status = "cancelling" THEN "cancelled" ELSE "queued",
              !.owner = None, !.lease = "null"]

-----------------------------------------------------------------------------
(* derive_experiment_status: `statuses` are those of the experiment's      *)
(* runs, `trialFailed` says that one of its trials is failed.              *)

DeriveExperimentStatus(current, statuses, trialFailed) ==
  IF statuses = {}                                THEN current
  ELSE IF statuses \cap HeartbeatStatuses # {}    THEN "running"
  ELSE IF "queued" \in statuses                   THEN "queued"
  ELSE IF "failed" \in statuses                   THEN "failed"
  ELSE IF statuses \subseteq {"cancelled"}        THEN "cancelled"
  ELSE IF \/ "completed_with_errors" \in statuses
          \/ trialFailed
          \/ "cancelled" \in statuses             THEN "completed_with_errors"
  ELSE "completed"
=============================================================================
