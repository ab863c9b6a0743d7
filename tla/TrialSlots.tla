----------------------------- MODULE TrialSlots -----------------------------
(***************************************************************************)
(* The trial rows of one experiment, and the runs that work through them:  *)
(* _execute_slots and the transactions it is made of (worker.py) on the    *)
(* tables `trials`, `trial_events` and `artifacts`.  Several runs of the   *)
(* experiment may be in hand at once, each of one worker at a time, which  *)
(* is what RunLease promises; the run rows are only as detailed as that.   *)
(*                                                                         *)
(* A transaction reads, and later writes and commits in one step: other    *)
(* sessions see a write only with its commit, and a row that two sessions  *)
(* write makes the second wait, not read again.  SQLAlchemy writes the     *)
(* columns that differ from what it has read; the CHECK constraints judge  *)
(* the row that results.                                                   *)
(***************************************************************************)
EXTENDS Naturals, Sequences, FiniteSets

CONSTANTS Runs,
          NumSlots,        \* memberships times scenarios
          ErrorBudget,     \* system_error_budget
          MaxAttempts,     \* lease_attempt_limit
          NumEvents,       \* events of a trial that is executed to its end
          MaxFaults        \* bound: crashes, shutdowns, failing simulations and transactions

ASSUME SlotsAssumption ==
  /\ NumSlots \in Nat /\ ErrorBudget \in Nat \ {0} /\ MaxAttempts \in Nat \ {0}
  /\ NumEvents \in Nat \ {0} /\ MaxFaults \in Nat

VARIABLES run,         \* status of each run row
          attempt,     \* and how often it was claimed
          at,          \* where the worker is that has the run in hand, or "none"
          slot,        \* the position in its list of slots
          failedCount, \* its count of failed trials
          work,        \* what it is to write about the trial: events, and artifacts or not
          seen,        \* what its open transaction has read
          trials,      \* the trial rows
          events,      \* of each trial, by ordinal: who recorded the event
          artifacts,   \* of each trial: whose files the artifact rows describe
          files,       \* of each trial: whose files are in the store
          overlapped,  \* two runs have been in hand at once
          faults

runVars == <<run, attempt>>
workerVars == <<at, slot, failedCount, work>>
tables == <<trials, events, artifacts>>
vars == <<run, attempt, at, slot, failedCount, work, seen, trials, events, artifacts,
          files, overlapped, faults>>

Slots == 1..NumSlots
Nobody == <<>>
Author(r) == <<r, attempt[r]>>

LeasedRunStatuses == {"claimed", "running", "cancelling"}
TrialStatuses == {"absent", "pending", "running", "completed", "failed", "cancelled"}
TerminalTrialStatuses == {"completed", "failed", "cancelled"}
OpenTrialStatuses == {"pending", "running"}

\* The columns that say how a trial ended, and (a ghost) who wrote them.
TrialRow(status, outcome, success, by) ==
  [status |-> status, outcome |-> outcome, success |-> success, by |-> by]
Absent == TrialRow("absent", "null", "null", Nobody)
Pending == TrialRow("pending", "null", "null", Nobody)

\* Mutant of Checked: the database has no such constraints.
Unchecked(row) == TRUE

\* The CHECK constraints of the table `trials`.
Checked(row) ==
  /\ row.outcome # "null" <=> row.status \in {"completed", "failed"}
  /\ row.status = "failed" => row.outcome = "system_error"
  /\ row.success # "null" <=> row.status = "completed"

\* UPDATE: `row` is in the table by now, `was` was read, `new` is to be.
Updated(row, was, new) ==
  [c \in DOMAIN row |-> IF new[c] = was[c] THEN row[c] ELSE new[c]]

NotSeen == [open |-> FALSE, cancelling |-> FALSE, trials |-> [t \in Slots |-> Absent], used |-> 0]

Init ==
  /\ run = [r \in Runs |-> "absent"]
  /\ attempt = [r \in Runs |-> 0]
  /\ at = [r \in Runs |-> "none"]
  /\ slot = [r \in Runs |-> 1]
  /\ failedCount = [r \in Runs |-> 0]
  /\ work = [r \in Runs |-> [events |-> 0, artifacts |-> FALSE]]
  /\ seen = [r \in Runs |-> NotSeen]
  /\ trials = [t \in Slots |-> Absent]
  /\ events = [t \in Slots |-> <<>>]
  /\ artifacts = [t \in Slots |-> Nobody]
  /\ files = [t \in Slots |-> Nobody]
  /\ overlapped = FALSE
  /\ faults = 0

Goes(r, place) == at' = [at EXCEPT ![r] = place]

\* The worker is done with the run.
LetGo(r) ==
  /\ at' = [at EXCEPT ![r] = "none"]
  /\ slot' = [slot EXCEPT ![r] = 1]
  /\ failedCount' = [failedCount EXCEPT ![r] = 0]
  /\ work' = [work EXCEPT ![r] = [events |-> 0, artifacts |-> FALSE]]
  /\ seen' = [seen EXCEPT ![r] = NotSeen]

Fault == faults < MaxFaults /\ faults' = faults + 1

-----------------------------------------------------------------------------
(* The run rows: requests, claims and expired leases.                      *)

Submit(r) ==
  /\ run[r] = "absent"
  /\ run' = [run EXCEPT ![r] = "queued"]
  /\ UNCHANGED <<attempt, workerVars, seen, tables, files, overlapped, faults>>

RequestCancel(r) ==
  /\ run[r] \in {"queued", "claimed", "running"}
  /\ run' = [run EXCEPT ![r] = IF @ = "queued" THEN "cancelled" ELSE "cancelling"]
  /\ UNCHANGED <<attempt, workerVars, seen, tables, files, overlapped, faults>>

Claim(r) ==
  /\ run[r] = "queued" /\ at[r] = "none"
  /\ run' = [run EXCEPT ![r] = "claimed"]
  /\ attempt' = [attempt EXCEPT ![r] = @ + 1]
  /\ Goes(r, "starting")
  /\ overlapped' = (overlapped \/ \E o \in Runs \ {r} : at[o] # "none")
  /\ UNCHANGED <<slot, failedCount, work, seen, tables, files, faults>>

\* The lease of a dead worker expires: requeue_expired_leases.
Reclaim(r) ==
  /\ run[r] \in {"claimed", "running"} /\ at[r] = "none"
  /\ run' = [run EXCEPT ![r] = IF attempt[r] < MaxAttempts THEN "queued" ELSE "failed"]
  /\ UNCHANGED <<attempt, workerVars, seen, tables, files, overlapped, faults>>

\* _mark_run_running: a run that is not claimed (any more) is given back.
Start(r) ==
  /\ at[r] = "starting"
  /\ run' = [run EXCEPT ![r] = IF @ = "claimed" THEN "running" ELSE @]
  /\ Goes(r, IF run[r] = "claimed" THEN "ensuring" ELSE "releasing")
  /\ UNCHANGED <<attempt, slot, failedCount, work, seen, tables, files, overlapped, faults>>

-----------------------------------------------------------------------------
(* The loop over the slots.                                                *)

\* _ensure_trials, INSERT ... ON CONFLICT DO NOTHING in one transaction.
Ensure(r) ==
  /\ at[r] = "ensuring"
  /\ trials' = [t \in Slots |-> IF trials[t] = Absent THEN Pending ELSE trials[t]]
  /\ Goes(r, "counting")
  /\ UNCHANGED <<runVars, slot, failedCount, work, seen, events, artifacts, files,
                 overlapped, faults>>

\* _failed_trial_count
CountFailed(r) ==
  /\ at[r] = "counting"
  /\ failedCount' = [failedCount EXCEPT ![r] =
                       Cardinality({t \in Slots : trials[t].status = "failed"})]
  /\ Goes(r, "next")
  /\ UNCHANGED <<runVars, slot, work, seen, tables, files, overlapped, faults>>

\* _trial_status: an ended trial is not executed again.
Skip(r) ==
  /\ at[r] = "next" /\ slot[r] \in Slots
  /\ trials[slot[r]].status \in TerminalTrialStatuses
  /\ slot' = [slot EXCEPT ![r] = @ + 1]
  /\ UNCHANGED <<runVars, at, failedCount, work, seen, tables, files, overlapped, faults>>

\* Mutant of Take: whatever the status.
TakeAny(r) ==
  /\ at[r] = "next" /\ slot[r] \in Slots
  /\ Goes(r, "deciding")
  /\ UNCHANGED <<runVars, slot, failedCount, work, seen, tables, files, overlapped, faults>>

Take(r) ==
  /\ at[r] = "next" /\ slot[r] \in Slots
  /\ trials[slot[r]].status \notin TerminalTrialStatuses
  /\ Goes(r, "deciding")
  /\ UNCHANGED <<runVars, slot, failedCount, work, seen, tables, files, overlapped, faults>>

\* _is_cancelling and the budget, before the trial and, without it, after the last.
Decide(r) ==
  /\ at[r] = "deciding" \/ (at[r] = "next" /\ slot[r] > NumSlots)
  /\ Goes(r, CASE run[r] = "cancelling" -> "cancelling_open"
               [] run[r] # "cancelling" /\ slot[r] > NumSlots -> "finishing"
               [] run[r] # "cancelling" /\ slot[r] \in Slots ->
                    IF failedCount[r] >= ErrorBudget THEN "exhausting" ELSE "marking")
  /\ UNCHANGED <<runVars, slot, failedCount, work, seen, tables, files, overlapped, faults>>

\* A shutdown is noticed between two trials, or by the probe: TrialInterrupted.  What
\* the attempt has stored by then stays.
Stop(r) ==
  /\ at[r] \in {"next", "executing", "stored"} /\ slot[r] \in Slots
  /\ Fault
  /\ Goes(r, "releasing")
  /\ UNCHANGED <<runVars, slot, failedCount, work, seen, tables, files, overlapped>>

-----------------------------------------------------------------------------
(* The executor, as far as its result goes: which events, whose files.     *)

ToWrite(r, number, stored) ==
  work' = [work EXCEPT ![r] = [events |-> number, artifacts |-> stored]]

\* TrialCancelled, from the probe.
SeeCancelled(r) ==
  /\ at[r] \in {"executing", "stored"} /\ run[r] = "cancelling"
  /\ \E n \in 1..NumEvents : ToWrite(r, n, FALSE)
  /\ Goes(r, "cancelling_one")
  /\ UNCHANGED <<runVars, slot, failedCount, seen, tables, files, overlapped, faults>>

\* The files of the trial, the first of them while it is executed; a key that is taken is
\* a conflict.
Store(r) ==
  /\ at[r] = "executing" /\ files[slot[r]] = Nobody
  /\ files' = [files EXCEPT ![slot[r]] = Author(r)]
  /\ Goes(r, "stored")
  /\ UNCHANGED <<runVars, slot, failedCount, work, seen, tables, overlapped, faults>>

\* TrialExecutionFailure, and _quarantine of what this attempt has stored.
Fail(r) ==
  /\ \/ at[r] \in {"executing", "stored"} /\ Fault
     \/ at[r] = "executing" /\ files[slot[r]] # Nobody /\ UNCHANGED faults
  /\ files' = [files EXCEPT ![slot[r]] = IF at[r] = "stored" THEN Nobody ELSE @]
  /\ \E n \in 1..NumEvents : ToWrite(r, n, FALSE)
  /\ Goes(r, "failing")
  /\ UNCHANGED <<runVars, slot, failedCount, seen, tables, overlapped>>

\* The result: a task outcome, or one that makes the trial fail with its artifacts.
Return(r) ==
  /\ at[r] = "stored"
  /\ ToWrite(r, NumEvents, TRUE)
  /\ \/ Goes(r, "completing") /\ UNCHANGED faults
     \/ Goes(r, "failing") /\ Fault
  /\ UNCHANGED <<runVars, slot, failedCount, seen, tables, files, overlapped>>

-----------------------------------------------------------------------------
(* The transactions: what they read first.                                 *)

OfOneTrial == {"marking", "cancelling_one", "completing", "failing"}
OfAllTrials == {"cancelling_open", "finishing", "releasing"}
Transactions == OfOneTrial \cup OfAllTrials

\* The rows that the transaction loads; _release_lease loads them for a cancellation only.
Loads(r, t) ==
  \/ at[r] \in OfOneTrial /\ t = slot[r]
  \/ at[r] \in OfAllTrials /\ (at[r] = "releasing" => run[r] = "cancelling")

Read(r) ==
  /\ at[r] \in Transactions /\ ~seen[r].open
  /\ seen' = [seen EXCEPT ![r] =
       [open |-> TRUE,
        cancelling |-> at[r] = "releasing" /\ run[r] = "cancelling",
        trials |-> [t \in Slots |-> IF Loads(r, t) THEN trials[t] ELSE Absent],
        used |-> IF at[r] \in OfOneTrial THEN Len(events[slot[r]]) ELSE 0]]
  /\ UNCHANGED <<runVars, workerVars, tables, files, overlapped, faults>>

InTransaction(r, op) == at[r] = op /\ seen[r].open

\* `rows` is to replace what the transaction has read.
RowsAfter(r, rows) == [t \in Slots |-> Updated(trials[t], seen[r].trials[t], rows[t])]
Accepted(rows) == \A t \in Slots : Checked(rows[t])

\* What the transaction makes of the row of the trial in hand.
NewRow(r, row) == [seen[r].trials EXCEPT ![slot[r]] = row]
Marked(r) ==
  IF seen[r].trials[slot[r]].status = "pending"
  THEN NewRow(r, [seen[r].trials[slot[r]] EXCEPT !.status = "running"])
  ELSE seen[r].trials
Completed(r) == NewRow(r, TrialRow("completed", "task", "set", Author(r)))
Failed(r) == NewRow(r, TrialRow("failed", "system_error", "null", Author(r)))

\* mark_trial_cancelled leaves what has ended alone.
CancelledRow(row) ==
  IF row.status \in OpenTrialStatuses
  THEN [row EXCEPT !.status = "cancelled", !.outcome = "null", !.success = "null"]
  ELSE row
CancelledOne(r) == NewRow(r, CancelledRow(seen[r].trials[slot[r]]))
CancelledOpen(r) == [t \in Slots |-> CancelledRow(seen[r].trials[t])]

\* _insert_events: the ordinals that are not used; one that another session used
\* since is refused by the unique constraint.
Inserts(r) == work[r].events > seen[r].used
Collides(r) == Inserts(r) /\ Len(events[slot[r]]) > seen[r].used
EventsAfter(r) ==
  IF Inserts(r)
  THEN [events EXCEPT ![slot[r]] = @ \o [i \in 1..(work[r].events - seen[r].used) |-> Author(r)]]
  ELSE events
\* create_artifact_if_absent
ArtifactsAfter(r) ==
  IF work[r].artifacts /\ artifacts[slot[r]] = Nobody
  THEN [artifacts EXCEPT ![slot[r]] = Author(r)] ELSE artifacts

Ends(r, status) == run' = [run EXCEPT ![r] = status] /\ LetGo(r) /\ UNCHANGED attempt

CommitMark(r) ==
  /\ InTransaction(r, "marking") /\ Accepted(RowsAfter(r, Marked(r)))
  /\ trials' = RowsAfter(r, Marked(r))
  /\ seen' = [seen EXCEPT ![r] = NotSeen]
  /\ Goes(r, "executing")
  /\ UNCHANGED <<runVars, slot, failedCount, work, events, artifacts, files, overlapped, faults>>

CommitTrial(r, rows) ==
  /\ Accepted(rows) /\ ~Collides(r)
  /\ trials' = rows
  /\ events' = EventsAfter(r)
  /\ seen' = [seen EXCEPT ![r] = NotSeen]
  /\ ToWrite(r, 0, FALSE)
  /\ UNCHANGED <<runVars, files, overlapped, faults>>

\* _cancel_trial
CommitCancelledTrial(r) ==
  /\ InTransaction(r, "cancelling_one")
  /\ CommitTrial(r, RowsAfter(r, CancelledOne(r)))
  /\ Goes(r, "cancelling_open")
  /\ UNCHANGED <<slot, failedCount, artifacts>>

\* _commit_success
CommitSuccess(r) ==
  /\ InTransaction(r, "completing")
  /\ CommitTrial(r, RowsAfter(r, Completed(r)))
  /\ artifacts' = ArtifactsAfter(r)
  /\ Goes(r, "next")
  /\ slot' = [slot EXCEPT ![r] = @ + 1]
  /\ UNCHANGED failedCount

\* _fail_trial
CommitFailure(r) ==
  /\ InTransaction(r, "failing")
  /\ CommitTrial(r, RowsAfter(r, Failed(r)))
  /\ artifacts' = ArtifactsAfter(r)
  /\ failedCount' = [failedCount EXCEPT ![r] = @ + 1]
  /\ Goes(r, IF failedCount[r] + 1 >= ErrorBudget THEN "exhausting" ELSE "next")
  /\ slot' = [slot EXCEPT ![r] = @ + 1]

\* Mutant of CommitCancelOpen: only pending trials are cancelled.
CommitCancelPending(r) ==
  /\ InTransaction(r, "cancelling_open")
  /\ trials' = RowsAfter(r, [t \in Slots |-> IF seen[r].trials[t].status = "pending"
                                            THEN CancelledRow(seen[r].trials[t])
                                            ELSE seen[r].trials[t]])
  /\ seen' = [seen EXCEPT ![r] = NotSeen]
  /\ Goes(r, "cancelled")
  /\ UNCHANGED <<runVars, slot, failedCount, work, events, artifacts, files, overlapped, faults>>

\* _cancel_open_trials
CommitCancelOpen(r) ==
  /\ InTransaction(r, "cancelling_open") /\ Accepted(RowsAfter(r, CancelledOpen(r)))
  /\ trials' = RowsAfter(r, CancelledOpen(r))
  /\ seen' = [seen EXCEPT ![r] = NotSeen]
  /\ Goes(r, "cancelled")
  /\ UNCHANGED <<runVars, slot, failedCount, work, events, artifacts, files, overlapped, faults>>

\* _complete_run of a cancelled run, or of one out of budget, and _complete_from_trials
Complete(r) ==
  /\ \/ at[r] = "cancelled" /\ Ends(r, "cancelled")
     \/ at[r] = "exhausting" /\ Ends(r, "failed")
     \/ /\ InTransaction(r, "finishing")
        /\ Ends(r, IF \E t \in Slots : seen[r].trials[t].status = "failed"
                   THEN "completed_with_errors" ELSE "completed")
  /\ UNCHANGED <<tables, files, overlapped, faults>>

\* Mutant of Release: the trials of a run that is cancelled are forgotten.
ReleaseOnly(r) ==
  /\ InTransaction(r, "releasing")
  /\ Ends(r, IF seen[r].cancelling THEN "cancelled" ELSE "queued")
  /\ UNCHANGED <<tables, files, overlapped, faults>>

\* _release_lease
Release(r) ==
  /\ InTransaction(r, "releasing")
  /\ IF seen[r].cancelling
     THEN /\ Accepted(RowsAfter(r, CancelledOpen(r)))
          /\ trials' = RowsAfter(r, CancelledOpen(r))
          /\ Ends(r, "cancelled")
     ELSE UNCHANGED trials /\ Ends(r, "queued")
  /\ UNCHANGED <<events, artifacts, files, overlapped, faults>>

-----------------------------------------------------------------------------
(* What goes wrong.                                                        *)

\* The constraint that refuses the transaction.
Refused(r) ==
  \/ InTransaction(r, "marking") /\ ~Accepted(RowsAfter(r, Marked(r)))
  \/ at[r] \in {"cancelling_one", "completing", "failing"} /\ seen[r].open /\ Collides(r)
  \/ InTransaction(r, "cancelling_one") /\ ~Accepted(RowsAfter(r, CancelledOne(r)))
  \/ InTransaction(r, "completing") /\ ~Accepted(RowsAfter(r, Completed(r)))
  \/ InTransaction(r, "failing") /\ ~Accepted(RowsAfter(r, Failed(r)))
  \/ InTransaction(r, "cancelling_open") /\ ~Accepted(RowsAfter(r, CancelledOpen(r)))
  \/ InTransaction(r, "releasing") /\ seen[r].cancelling
       /\ ~Accepted(RowsAfter(r, CancelledOpen(r)))

\* DatabaseUnavailable, which an IntegrityError also becomes: nothing is written, and
\* the worker tries to give the run back; when that fails it leaves it as it is.
DatabaseFails(r) ==
  /\ at[r] # "none" /\ at[r] \notin {"executing", "stored"}
  /\ \/ Fault
     \/ Refused(r) /\ UNCHANGED faults
  /\ IF at[r] = "releasing"
     THEN LetGo(r)
     ELSE /\ Goes(r, "releasing")
          /\ seen' = [seen EXCEPT ![r] = NotSeen]
          /\ UNCHANGED <<slot, failedCount, work>>
  /\ UNCHANGED <<runVars, tables, files, overlapped>>

\* The process dies; what it has stored stays.
Crash(r) ==
  /\ at[r] # "none" /\ Fault
  /\ LetGo(r)
  /\ UNCHANGED <<runVars, tables, files, overlapped>>

Next ==
  \E r \in Runs :
    \/ Submit(r) \/ RequestCancel(r) \/ Claim(r) \/ Reclaim(r) \/ Start(r)
    \/ Ensure(r) \/ CountFailed(r) \/ Skip(r) \/ Take(r) \/ Decide(r) \/ Stop(r)
    \/ SeeCancelled(r) \/ Store(r) \/ Fail(r) \/ Return(r)
    \/ Read(r) \/ CommitMark(r) \/ CommitCancelledTrial(r) \/ CommitSuccess(r)
    \/ CommitFailure(r) \/ CommitCancelOpen(r) \/ Complete(r) \/ Release(r)
    \/ DatabaseFails(r) \/ Crash(r)

Spec == Init /\ [][Next]_vars

-----------------------------------------------------------------------------
(* Properties.  `overlapped` separates what holds of any runs from what    *)
(* holds as long as the runs of the experiment take turns.                 *)

Authors == Runs \X Nat
Rows == [status : TrialStatuses, outcome : {"null", "task", "system_error"},
         success : {"null", "set"}, by : Authors \cup {Nobody}]
Places == {"none", "starting", "ensuring", "counting", "next", "deciding", "executing",
           "stored", "cancelled", "exhausting"} \cup Transactions

\* Every variable has a value of its kind, and every row of the table `trials`, and
\* every row that a transaction has read, satisfies the constraints of the table.
TypeOK ==
  /\ run \in [Runs -> LeasedRunStatuses \cup
               {"absent", "queued", "cancelled", "failed", "completed", "completed_with_errors"}]
  /\ attempt \in [Runs -> Nat]
  /\ at \in [Runs -> Places]
  /\ slot \in [Runs -> 1..(NumSlots + 1)]
  /\ failedCount \in [Runs -> Nat]
  /\ work \in [Runs -> [events : 0..NumEvents, artifacts : BOOLEAN]]
  /\ seen \in [Runs -> [open : BOOLEAN, cancelling : BOOLEAN,
                        trials : [Slots -> {row \in Rows : Checked(row)}], used : Nat]]
  /\ trials \in [Slots -> {row \in Rows : Checked(row)}]
  /\ events \in [Slots -> Seq(Authors)]
  /\ artifacts \in [Slots -> Authors \cup {Nobody}]
  /\ files \in [Slots -> Authors \cup {Nobody}]
  /\ overlapped \in BOOLEAN
  /\ faults \in 0..MaxFaults

\* What is recorded of a trial (events and artifact rows) is of one attempt as long as
\* the runs take turns, and a completed trial has all of it, written by the attempt that
\* completed it: _insert_events skips used ordinals, and create_artifact_if_absent used
\* kinds, but neither ever has to.
OneAttemptsEvidence ==
  \A t \in Slots :
    LET authors == {events[t][i] : i \in DOMAIN events[t]}
                     \cup ({artifacts[t]} \ {Nobody})
    IN  ~overlapped =>
          /\ Cardinality(authors) <= 1
          /\ trials[t].status = "completed" =>
               /\ authors = {trials[t].by} /\ files[t] = trials[t].by
               /\ Len(events[t]) = NumEvents /\ artifacts[t] # Nobody

\* Whoever overlaps: a completed or failed trial is never open or cancelled again.  No
\* function of trials.py checks the status it replaces under a lock; the CHECK
\* constraints refuse the mixed row that a late writer would produce.
RecordedNeverReopens ==
  [][\A t \in Slots :
       trials[t].status \in {"completed", "failed"} =>
         trials'[t].status \in {"completed", "failed"}]_vars

\* The status that the worker in hand gives a run when it ends it is true of its trials, as
\* long as the runs take turns: nothing is left open by a run that was completed or
\* cancelled, errors are reported if and only if there are any, and a run is failed for
\* its budget only when so many trials have failed.
EndsTruthfully ==
  [][\A r \in Runs :
       at[r] # "none" /\ run'[r] # run[r] /\ ~overlapped' =>
         LET failed == {t \in Slots : trials'[t].status = "failed"}
             open   == {t \in Slots : trials'[t].status \notin TerminalTrialStatuses}
         IN  CASE run'[r] = "completed"             -> open = {} /\ failed = {}
               [] run'[r] = "completed_with_errors" -> open = {} /\ failed # {}
               [] run'[r] = "failed"                -> Cardinality(failed) >= ErrorBudget
               [] run'[r] = "cancelled" ->
                    \A t \in Slots : trials'[t].status \notin OpenTrialStatuses
               [] OTHER -> TRUE]_vars

\* While the runs take turns, a trial is stranded (open, with no run left to come to it)
\* only when a run is cancelled that waits, when the attempts of one are used up, or when
\* one is out of its error budget: a worker that cancels or completes its run strands none.
Stranded == /\ \E t \in Slots : trials[t].status \in OpenTrialStatuses
            /\ \A r \in Runs : run[r] \notin LeasedRunStatuses \cup {"queued"}
StrandedOnlyUnworked ==
  [][(~Stranded /\ Stranded' /\ ~overlapped') =>
       \E r \in Runs : \/ run'[r] = "cancelled" /\ run[r] = "queued"
                       \/ run'[r] = "failed" /\ run[r] # "failed"]_vars

=============================================================================
