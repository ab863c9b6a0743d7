--------------------------- MODULE RunQueueLease ---------------------------
(* RunQueue implements RunLease when leases expire only under dead workers. *)
EXTENDS RunQueue

StateOf(row) ==
  IF ~Exists(row)                          THEN "absent"
  ELSE IF row.status = "queued"            THEN "waiting"
  ELSE IF row.status \in HeartbeatStatuses THEN "leased"
  ELSE "ended"

WorkerOf(r) ==
  IF \E w \in Workers : held[w] = r THEN CHOOSE w \in Workers : held[w] = r ELSE None

Lease == INSTANCE RunLease WITH
           Runs    <- RunIds,
           state   <- [r \in RunIds |-> StateOf(runs[r])],
           worker  <- [r \in RunIds |-> WorkerOf(r)],
           attempt <- [r \in RunIds |-> runs[r].attempt]

\* The queue of runs.py and worker.py keeps the promise of RunLease: one worker
\* per run, every claim an attempt, leases taken only from the dead, ended runs
\* left alone, whatever transactions and failures interleave.
ImplementsLease == Lease!Spec
=============================================================================
