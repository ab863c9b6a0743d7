------------------------------ MODULE RunQueue ------------------------------
(***************************************************************************)
(* The run queue: API requests that start and cancel runs, and simulator   *)
(* workers that claim, execute, finish and release them, all through short *)
(* transactions on the tables `runs` and `experiments`.                    *)
(*                                                                         *)
(* A transaction is at most three steps, with those of other sessions      *)
(* between them:                                                           *)
(*   read     rows are loaded without a lock and a decision is taken;      *)
(*   flushed  the UPDATE or INSERT ran (or SELECT ... FOR UPDATE and then  *)
(*            UPDATE): the rows are locked and the new versions are seen   *)
(*            by this session only; sync_experiment_status ran as well;    *)
(*   and the commit.  PostgreSQL runs it at READ COMMITTED, its default.   *)
(* tx[s].writes maps the rows that session s has locked to their new       *)
(* versions, and the others to None.                                       *)
(*                                                                         *)
(* The execution of the trials is one state, "executing", that ends with   *)
(* one of the outcomes of _execute_slots.  A worker that stalls, crashes,  *)
(* is stopped, or loses the database may do so between any two steps.      *)
(***************************************************************************)
EXTENDS RunRows

CONSTANTS Requests,       \* API requests, each sent once
          NumRuns,        \* bound: rows of the table `runs`
          MaxCrashes,     \* bound: crashes and database failures of workers
          MaxStops,       \* bound: SIGTERMs
          HasErrorBudget, \* a system_error_budget is configured
          Timely          \* no lease expires under the live worker that holds it

ASSUME RequestsAssumption == Requests \cap (Workers \cup {None}) = {}

ASSUME BoundsAssumption ==
  /\ NumRuns \in Nat
  /\ MaxCrashes \in Nat
  /\ MaxStops \in Nat
  /\ HasErrorBudget \in BOOLEAN
  /\ Timely \in BOOLEAN

Sessions == Workers \cup Requests
RunIds == 1..NumRuns      \* in creation order: claim_next_run takes the least
NoRun == 0

VARIABLES runs,           \* the committed rows of `runs`
          exps,           \* the committed status of each experiment
          failedTrials,   \* whether an experiment has a trial of status failed
          tx,             \* the open transaction of each session
          pc,             \* where each worker is in run() and _process_run()
          held,           \* the run_id that _process_run() of each worker has
          req,            \* each API request and the reply its client has
          crashes, stops  \* faults so far

vars == <<runs, exps, failedTrials, tx, pc, held, req, crashes, stops>>

Outcomes == {"finished", "cancelled", "budget"}   \* of _execute_slots
WorkerPcs == {"down", "idle", "starting", "executing", "releasing"} \cup Outcomes
Replies == {"none", "ok", "conflict", "refused", "terminal", "error"}

NoWrites == [r \in RunIds |-> None]

NoTx == [phase |-> "none", run |-> NoRun, seen |-> NoRow, end |-> None,
         writes |-> NoWrites, exp |-> None, expTo |-> None]

NoRequest == [op |-> "none", exp |-> None, key |-> None, fp |-> None,
              expSeen |-> None, run |-> NoRun, reply |-> "none"]

Init ==
  /\ runs = [r \in RunIds |-> NoRow]
  /\ exps = [e \in Exps |-> "draft"]
  /\ failedTrials = [e \in Exps |-> FALSE]
  /\ tx = [s \in Sessions |-> NoTx]
  /\ pc = [w \in Workers |-> "idle"]
  /\ held = [w \in Workers |-> NoRun]
  /\ req = [q \in Requests |-> NoRequest]
  /\ crashes = 0
  /\ stops = 0

-----------------------------------------------------------------------------
(* Transactions.                                                           *)

\* The row lock that an UPDATE, an INSERT or SELECT ... FOR UPDATE takes.
Locked(r) == \E s \in Sessions : tx[s].writes[r] # None

\* The table as a session that has flushed `writes` sees it.
Visible(writes) ==
  [r \in RunIds |-> IF writes[r] = None THEN runs[r] ELSE writes[r]]

Statuses(e, rows) == {rows[r].status : r \in {i \in RunIds : rows[i].exp = e}}

\* Mutant of Synced: the session's own writes are not flushed before its SELECT.
SyncedBeforeFlush(e, current, writes) ==
  LET derived == DeriveExperimentStatus(current, Statuses(e, runs), failedTrials[e])
  IN  IF derived = current THEN None ELSE derived

\* sync_experiment_status: the status to write, None when it is unchanged.
Synced(e, current, writes) ==
  LET derived == DeriveExperimentStatus(current, Statuses(e, Visible(writes)),
                                        failedTrials[e])
  IN  IF derived = current THEN None ELSE derived

\* Session s flushes `writes` and then syncs experiment e, loaded as `current`.
Flush(s, r, writes, e, current) ==
  tx' = [tx EXCEPT ![s] = [@ EXCEPT !.phase = "flushed", !.run = r,
                                    !.writes = writes, !.exp = e,
                                    !.expTo = Synced(e, current, writes)]]

FlushRow(s, r, row) ==
  Flush(s, r, [NoWrites EXCEPT ![r] = row], row.exp, exps[row.exp])

Apply(s) ==
  /\ runs' = Visible(tx[s].writes)
  /\ exps' = [e \in Exps |->
                IF tx[s].expTo # None /\ tx[s].exp = e THEN tx[s].expTo ELSE exps[e]]

Discard == UNCHANGED <<runs, exps>>

Close(s) == tx' = [tx EXCEPT ![s] = NoTx]

Goto(w, where) == pc' = [pc EXCEPT ![w] = where]

\* run() of worker w returns or raises and the process ends.
Down(w) == /\ Goto(w, "down")
           /\ held' = [held EXCEPT ![w] = NoRun]

Untouched == UNCHANGED <<failedTrials, req, crashes, stops>>

-----------------------------------------------------------------------------
(* A worker claims a run.  claim_next_run locks what it selects and skips  *)
(* what others have locked; _claim_run syncs the experiment of the run it  *)
(* claimed and of no other.                                                *)

ExpiredWrites ==
  [r \in RunIds |-> IF Reclaimable(runs[r]) /\ ~Locked(r) THEN Requeued(runs[r]) ELSE None]

Claimable(rows) ==
  {r \in RunIds : Exists(rows[r]) /\ rows[r].status = "queued" /\ ~Locked(r)}

ClaimOldest(w) ==
  /\ pc[w] = "idle" /\ tx[w].phase = "none"
  /\ LET rows == Visible(ExpiredWrites)
     IN  \E r \in Claimable(rows) :
           /\ \A i \in Claimable(rows) : r <= i
           /\ Flush(w, r, [ExpiredWrites EXCEPT ![r] = ClaimedBy(rows[r], w)],
                    rows[r].exp, exps[rows[r].exp])
  /\ UNCHANGED <<runs, exps, pc, held>> /\ Untouched

\* Nothing to claim: exhausted runs may still have been failed.
ClaimNothing(w) ==
  /\ pc[w] = "idle" /\ tx[w].phase = "none"
  /\ Claimable(Visible(ExpiredWrites)) = {}
  /\ tx' = [tx EXCEPT ![w] = [@ EXCEPT !.phase = "flushed", !.writes = ExpiredWrites]]
  /\ UNCHANGED <<runs, exps, pc, held>> /\ Untouched

CommitClaim(w) ==
  /\ pc[w] = "idle" /\ tx[w].phase = "flushed"
  /\ Apply(w) /\ Close(w)
  /\ Goto(w, IF tx[w].run = NoRun THEN "idle" ELSE "starting")
  /\ held' = [held EXCEPT ![w] = tx[w].run]
  /\ Untouched

-----------------------------------------------------------------------------
(* _mark_run_running                                                       *)

ReadToStart(w) ==
  /\ pc[w] = "starting" /\ tx[w].phase = "none"
  /\ \/ /\ runs[held[w]].status = "claimed"
        /\ tx' = [tx EXCEPT ![w] = [@ EXCEPT !.phase = "read", !.run = held[w],
                                             !.seen = runs[held[w]]]]
        /\ UNCHANGED pc
     \/ \* InvalidLeaseStateError leaves _process_run through its finally.
        /\ runs[held[w]].status # "claimed"
        /\ Goto(w, "releasing")
        /\ UNCHANGED tx
  /\ UNCHANGED <<runs, exps, held>> /\ Untouched

FlushStart(w) ==
  /\ pc[w] = "starting" /\ tx[w].phase = "read"
  /\ ~Locked(held[w])
  /\ FlushRow(w, held[w], StartedOver(runs[held[w]]))
  /\ UNCHANGED <<runs, exps, pc, held>> /\ Untouched

CommitStart(w) ==
  /\ pc[w] = "starting" /\ tx[w].phase = "flushed"
  /\ Apply(w) /\ Close(w)
  /\ Goto(w, "executing")
  /\ UNCHANGED held /\ Untouched

-----------------------------------------------------------------------------
(* _execute_slots, and the heartbeat task beside it.                       *)

\* _fail_trial committed a failed trial.
TrialFails(w) ==
  /\ pc[w] = "executing"
  /\ failedTrials' = [failedTrials EXCEPT ![runs[held[w]].exp] = TRUE]
  /\ UNCHANGED <<runs, exps, tx, pc, held, req, crashes, stops>>

\* The last _is_cancelling, or the error budget, decides the outcome.
Conclude(w) ==
  /\ pc[w] = "executing"
  /\ \/ runs[held[w]].status = "cancelling" /\ Goto(w, "cancelled")
     \/ runs[held[w]].status # "cancelling" /\ Goto(w, "finished")
     \/ HasErrorBudget /\ failedTrials[runs[held[w]].exp] /\ Goto(w, "budget")
  /\ UNCHANGED <<runs, exps, tx, held>> /\ Untouched

\* _heartbeat_loop: it runs until _process_run sets _heartbeat_stop, and
\* _db_lock keeps it out while the main task has a transaction open.
Heartbeat(w) ==
  /\ pc[w] \in {"starting", "executing"} \cup Outcomes /\ tx[w].phase = "none"
  /\ ~Locked(held[w])
  /\ MayHeartbeat(runs[held[w]], w)
  /\ runs' = [runs EXCEPT ![held[w]] = Heartbeaten(@)]
  /\ UNCHANGED <<exps, tx, pc, held>> /\ Untouched

-----------------------------------------------------------------------------
(* _complete_run and _complete_from_trials.                                *)

RunStatusFor(outcome, trialFailed) ==
  CASE outcome = "cancelled" -> "cancelled"
    [] outcome = "budget"    -> "failed"
    [] OTHER                 -> IF trialFailed THEN "completed_with_errors" ELSE "completed"

ReadToComplete(w) ==
  /\ pc[w] \in Outcomes /\ tx[w].phase = "none"
  /\ LET row == runs[held[w]]
     IN  \/ /\ ~Terminal(row)
            /\ tx' = [tx EXCEPT ![w] =
                        [@ EXCEPT !.phase = "read", !.run = held[w], !.seen = row,
                                  !.end = RunStatusFor(pc[w], failedTrials[row.exp])]]
            /\ UNCHANGED pc
         \/ /\ Terminal(row)                       \* InvalidLeaseStateError
            /\ Goto(w, "releasing")
            /\ UNCHANGED tx
  /\ UNCHANGED <<runs, exps, held>> /\ Untouched

FlushComplete(w) ==
  /\ pc[w] \in Outcomes /\ tx[w].phase = "read"
  /\ ~Locked(held[w])
  /\ FlushRow(w, held[w], CompletedOver(runs[held[w]], tx[w].seen, tx[w].end))
  /\ UNCHANGED <<runs, exps, pc, held>> /\ Untouched

CommitComplete(w) ==
  /\ pc[w] \in Outcomes /\ tx[w].phase = "flushed"
  /\ Apply(w) /\ Close(w)
  /\ Goto(w, "idle")
  /\ held' = [held EXCEPT ![w] = NoRun]
  /\ Untouched

-----------------------------------------------------------------------------
(* _release_lease.  Whatever led here (a stop, a lost database, an error)  *)
(* also ends the loop of run(), so the process ends after it.              *)

ReadToRelease(w) ==
  /\ pc[w] = "releasing" /\ tx[w].phase = "none"
  /\ \/ /\ runs[held[w]].owner = w
        /\ tx' = [tx EXCEPT ![w] = [@ EXCEPT !.phase = "read", !.run = held[w],
                                             !.seen = runs[held[w]]]]
        /\ UNCHANGED <<pc, held>>
     \/ /\ runs[held[w]].owner # w
        /\ Down(w)
        /\ UNCHANGED tx
  /\ UNCHANGED <<runs, exps>> /\ Untouched

\* A run that was loaded as terminal is left as it is, and its experiment synced.
FlushRelease(w) ==
  /\ pc[w] = "releasing" /\ tx[w].phase = "read"
  /\ ~Locked(held[w])
  /\ LET row == runs[held[w]]
     IN  IF Terminal(tx[w].seen)
           THEN Flush(w, held[w], NoWrites, row.exp, exps[row.exp])
           ELSE FlushRow(w, held[w], ReleasedOver(row, tx[w].seen))
  /\ UNCHANGED <<runs, exps, pc, held>> /\ Untouched

CommitRelease(w) ==
  /\ pc[w] = "releasing" /\ tx[w].phase = "flushed"
  /\ Apply(w) /\ Close(w)
  /\ Down(w)
  /\ Untouched

-----------------------------------------------------------------------------
(* Faults of workers, and time.                                            *)

\* SIGTERM: the loop ends when idle, and the trials stop between two states.
Stop(w) ==
  /\ stops < MaxStops /\ stops' = stops + 1
  /\ tx[w].phase = "none"
  /\ \/ pc[w] = "idle" /\ Down(w)
     \/ pc[w] = "executing" /\ Goto(w, "releasing") /\ UNCHANGED held
  /\ UNCHANGED <<runs, exps, failedTrials, tx, req, crashes>>

\* DatabaseUnavailable.  When the connection is lost during the commit, the
\* transaction may have been applied all the same.
DatabaseFails(w) ==
  /\ crashes < MaxCrashes /\ crashes' = crashes + 1
  /\ pc[w] # "down"
  /\ \/ Discard
     \/ tx[w].phase = "flushed" /\ Apply(w)
  /\ Close(w)
  /\ \/ pc[w] \in {"idle", "releasing"} /\ Down(w)
     \/ pc[w] \notin {"idle", "releasing"} /\ Goto(w, "releasing") /\ UNCHANGED held
  /\ UNCHANGED <<failedTrials, req, stops>>

\* The process dies; the database rolls back what it had open.
Crash(w) ==
  /\ crashes < MaxCrashes /\ crashes' = crashes + 1
  /\ pc[w] # "down"
  /\ Close(w) /\ Down(w) /\ Discard
  /\ UNCHANGED <<failedTrials, req, stops>>

\* A worker starts, under the RCP_WORKER_ID it always has.
Restart(w) ==
  /\ pc[w] = "down"
  /\ Goto(w, "idle")
  /\ UNCHANGED <<runs, exps, tx, held>> /\ Untouched

\* Time passes lease_expires_at.
LeaseExpires(r) ==
  /\ runs[r].lease = "live" /\ ~Locked(r)
  /\ Timely => ~\E w \in Workers : held[w] = r /\ runs[r].owner = w
  /\ runs' = [runs EXCEPT ![r].lease = "expired"]
  /\ UNCHANGED <<exps, tx, pc, held>> /\ Untouched

-----------------------------------------------------------------------------
(* The API: start_run and cancel_run.                                      *)

Reply(q, r, what) == req' = [req EXCEPT ![q].run = r, ![q].reply = what]

\* start_run: the guard on the experiment and get_run_by_idempotency_key.
ReadToQueue(q, e, k, f) ==
  /\ req[q].op = "none"
  /\ LET same == {r \in RunIds : runs[r].exp = e /\ runs[r].key = k}
         asked == [NoRequest EXCEPT !.op = "start", !.exp = e, !.key = k, !.fp = f,
                                    !.expSeen = exps[e]]
     IN  \/ /\ exps[e] \in {"cancelled", "failed"}
            /\ req' = [req EXCEPT ![q] = [asked EXCEPT !.reply = "refused"]]
            /\ UNCHANGED tx
         \/ /\ exps[e] \notin {"cancelled", "failed"}
            /\ \E r \in same : runs[r].fp # f
            /\ req' = [req EXCEPT ![q] = [asked EXCEPT !.reply = "conflict"]]
            /\ UNCHANGED tx
         \/ /\ exps[e] \notin {"cancelled", "failed"}
            /\ \A r \in same : runs[r].fp = f
            /\ req' = [req EXCEPT ![q] = asked]
            /\ tx' = [tx EXCEPT ![q] =
                        [@ EXCEPT !.phase = "read", !.exp = e,
                                  !.run = IF same = {} THEN NoRun
                                          ELSE CHOOSE r \in same : TRUE]]
  /\ UNCHANGED <<runs, exps, failedTrials, pc, held, crashes, stops>>

\* The key was there already: no row is written.
FlushExisting(q) ==
  /\ req[q].op = "start" /\ tx[q].phase = "read" /\ tx[q].run # NoRun
  /\ Flush(q, tx[q].run, NoWrites, tx[q].exp, req[q].expSeen)
  /\ UNCHANGED <<runs, exps, pc, held>> /\ Untouched

\* new_id never returns an id that a client knows already.
Unused(r) == ~Exists(runs[r]) /\ ~Locked(r) /\ \A q \in Requests : req[q].run # r

SameKey(row, q) == row.exp = req[q].exp /\ row.key = req[q].key

\* Mutant of FlushNew: the table has no unique constraint.
FlushNewUnconstrained(q) ==
  /\ req[q].op = "start" /\ tx[q].phase = "read" /\ tx[q].run = NoRun
  /\ \E r \in RunIds :
       /\ Unused(r) /\ \A i \in RunIds : i < r => ~Unused(i)
       /\ Flush(q, r, [NoWrites EXCEPT ![r] = QueuedRow(req[q].exp, req[q].key, req[q].fp)],
                req[q].exp, req[q].expSeen)
  /\ UNCHANGED <<runs, exps, pc, held>> /\ Untouched

\* create_queued_run.  The unique constraint on (experiment_id,
\* idempotency_key) makes the INSERT wait for one in flight with its key.
FlushNew(q) ==
  /\ req[q].op = "start" /\ tx[q].phase = "read" /\ tx[q].run = NoRun
  /\ ~\E s \in Sessions, r \in RunIds :
        tx[s].writes[r] # None /\ ~Exists(runs[r]) /\ SameKey(tx[s].writes[r], q)
  /\ ~\E r \in RunIds : SameKey(runs[r], q)
  /\ \E r \in RunIds :
       /\ Unused(r) /\ \A i \in RunIds : i < r => ~Unused(i)
       /\ Flush(q, r, [NoWrites EXCEPT ![r] = QueuedRow(req[q].exp, req[q].key, req[q].fp)],
                req[q].exp, req[q].expSeen)
  /\ UNCHANGED <<runs, exps, pc, held>> /\ Untouched

\* The other INSERT has committed: IntegrityError, which no handler maps.
InsertFails(q) ==
  /\ req[q].op = "start" /\ tx[q].phase = "read" /\ tx[q].run = NoRun
  /\ \E r \in RunIds : SameKey(runs[r], q)
  /\ Close(q)
  /\ Reply(q, NoRun, "error")
  /\ UNCHANGED <<runs, exps, failedTrials, pc, held, crashes, stops>>

\* Mutant of FlushCancel: the row is loaded without FOR UPDATE.
FlushCancelUnlocked(q, r) ==
  /\ req[q].op = "none"
  /\ Exists(runs[r]) /\ ~Terminal(runs[r])
  /\ req' = [req EXCEPT ![q] = [@ EXCEPT !.op = "cancel", !.run = r]]
  /\ FlushRow(q, r, CancelRequested(runs[r]))
  /\ UNCHANGED <<runs, exps, failedTrials, pc, held, crashes, stops>>

\* cancel_run: SELECT ... FOR UPDATE reads the newest committed row.
FlushCancel(q, r) ==
  /\ req[q].op = "none"
  /\ Exists(runs[r]) /\ ~Locked(r)
  /\ \/ /\ Terminal(runs[r])                       \* RunAlreadyTerminalError
        /\ req' = [req EXCEPT ![q] = [@ EXCEPT !.op = "cancel", !.run = r,
                                               !.reply = "terminal"]]
        /\ UNCHANGED tx
     \/ /\ ~Terminal(runs[r])
        /\ req' = [req EXCEPT ![q] = [@ EXCEPT !.op = "cancel", !.run = r]]
        /\ FlushRow(q, r, CancelRequested(runs[r]))
  /\ UNCHANGED <<runs, exps, failedTrials, pc, held, crashes, stops>>

\* The endpoint has returned.  get_db_session commits after its yield: since
\* FastAPI 0.118 that is after the response was sent, before 0.118 it was
\* before.  The project allows both versions, so both orders are possible.
Respond(q) ==
  /\ tx[q].phase = "flushed" /\ req[q].reply = "none"
  /\ Reply(q, tx[q].run, "ok")
  /\ UNCHANGED <<runs, exps, failedTrials, tx, pc, held, crashes, stops>>

CommitRequest(q) ==
  /\ tx[q].phase = "flushed"
  /\ Apply(q) /\ Close(q)
  /\ Reply(q, tx[q].run, "ok")
  /\ UNCHANGED <<failedTrials, pc, held, crashes, stops>>

\* The API process or its connection fails.  The transaction may have been
\* committed although the client is told that it failed, or lost although
\* the client has its response.
RequestFails(q) ==
  /\ tx[q].phase # "none"
  /\ \/ Discard
     \/ tx[q].phase = "flushed" /\ Apply(q)
  /\ Close(q)
  /\ IF req[q].reply = "ok" THEN UNCHANGED req ELSE Reply(q, NoRun, "error")
  /\ UNCHANGED <<failedTrials, pc, held, crashes, stops>>

-----------------------------------------------------------------------------

\* The steps of a worker that meets no fault; Progress are those that it
\* takes sooner or later (its trials end, by their step limits).
Progress(w) ==
  \/ ClaimOldest(w) \/ ClaimNothing(w) \/ CommitClaim(w)
  \/ ReadToStart(w) \/ FlushStart(w) \/ CommitStart(w)
  \/ Conclude(w)
  \/ ReadToComplete(w) \/ FlushComplete(w) \/ CommitComplete(w)
  \/ ReadToRelease(w) \/ FlushRelease(w) \/ CommitRelease(w)

Fault(w) == Stop(w) \/ DatabaseFails(w) \/ Crash(w)

WorkerNext(w) == Progress(w) \/ TrialFails(w) \/ Heartbeat(w) \/ Restart(w) \/ Fault(w)

Answer(q) == FlushExisting(q) \/ FlushNew(q) \/ InsertFails(q) \/ CommitRequest(q)

RequestNext(q) ==
  \/ \E e \in Exps, k \in Keys, f \in Fingerprints : ReadToQueue(q, e, k, f)
  \/ \E r \in RunIds : FlushCancel(q, r)
  \/ Answer(q) \/ Respond(q)
  \/ RequestFails(q)

Next ==
  \/ \E w \in Workers : WorkerNext(w)
  \/ \E q \in Requests : RequestNext(q)
  \/ \E r \in RunIds : LeaseExpires(r)

Spec == Init /\ [][Next]_vars

\* Workers keep running and are restarted, open requests are answered, and
\* time passes.  Nothing obliges a client to send a request.
Fairness ==
  /\ \A w \in Workers : WF_vars(Progress(w)) /\ WF_vars(Restart(w))
  /\ \A q \in Requests : WF_vars(Answer(q))
  /\ \A r \in RunIds : WF_vars(LeaseExpires(r))

FairSpec == Spec /\ Fairness

-----------------------------------------------------------------------------
(* Properties.                                                             *)

TxType ==
  [phase : {"none", "read", "flushed"}, run : RunIds \cup {NoRun}, seen : Row,
   end : TerminalRunStatuses \cup {None}, writes : [RunIds -> Row \cup {None}],
   exp : Exps \cup {None}, expTo : ExperimentStatuses \cup {None}]

RequestType ==
  [op : {"none", "start", "cancel"}, exp : Exps \cup {None}, key : Keys \cup {None},
   fp : Fingerprints \cup {None}, expSeen : ExperimentStatuses \cup {None},
   run : RunIds \cup {NoRun}, reply : Replies]

\* Every variable holds a value of its type; the runs table, the worker loop and
\* the transactions of runs.py, experiments.py and worker.py stay in their
\* vocabularies, and the fault bounds are kept.
TypeOK ==
  /\ runs \in [RunIds -> Row]
  /\ exps \in [Exps -> ExperimentStatuses]
  /\ failedTrials \in [Exps -> BOOLEAN]
  /\ tx \in [Sessions -> TxType]
  /\ pc \in [Workers -> WorkerPcs]
  /\ held \in [Workers -> RunIds \cup {NoRun}]
  /\ req \in [Requests -> RequestType]
  /\ crashes \in 0..MaxCrashes
  /\ stops \in 0..MaxStops

\* No two workers process the same run, from the commit of the claim to the end
\* of the release (worker.py _process_run), whatever crashes, is cancelled or
\* reclaimed meanwhile.
Exclusive ==
  \A w1, w2 \in Workers : w1 # w2 /\ held[w1] # NoRun => held[w1] # held[w2]

\* A worker that has not begun to release its run is the lease_owner of a row
\* that accepts its heartbeats: nobody reclaimed, finished or released the run
\* under it.
HolderOwns ==
  \A w \in Workers : pc[w] \in {"starting", "executing"} \cup Outcomes =>
                       MayHeartbeat(runs[held[w]], w)

\* Only a leased run has an owner and an expiry, and a leased run has both: none
\* is stranded where requeue_expired_leases, which needs lease_expires_at, and
\* claim_next_run, which needs status queued, both pass it by.
LeaseColumns ==
  \A r \in RunIds :
    LET row == runs[r]
    IN  /\ row.status \in HeartbeatStatuses <=> row.owner # None
        /\ row.owner # None <=> row.lease # "null"

\* However requests race and fail, one experiment has one run per Idempotency-Key,
\* and the run named in a successful answer was created for that very request body.
IdempotentStart ==
  /\ \A r1, r2 \in RunIds : (Exists(runs[r1]) /\ r1 # r2) =>
       <<runs[r1].exp, runs[r1].key>> # <<runs[r2].exp, runs[r2].key>>
  /\ \A q \in Requests :
       LET row == runs[req[q].run]
       IN  (req[q].op = "start" /\ req[q].reply = "ok" /\ Exists(row)) =>
             SameKey(row, q) /\ row.fp = req[q].fp

\* When every run of an experiment has ended and no transaction is open, the
\* experiment shows it: sync_experiment_status left no stale status behind.
SettledExperiment ==
  (\A s \in Sessions : tx[s].phase = "none") =>
    \A e \in Exps :
      LET statuses == Statuses(e, runs)
      IN  statuses # {} /\ statuses \subseteq TerminalRunStatuses =>
            exps[e] = DeriveExperimentStatus(exps[e], statuses, failedTrials[e])

\* The status of an experiment goes stale only with a run that was failed for want of
\* attempts, at the claim of a run of another experiment or of none (_claim_run).
StaleOnlyExhausted ==
  (\A s \in Sessions : tx[s].phase = "none") =>
    \A e \in Exps :
      LET mine     == {r \in RunIds : runs[r].exp = e}
          statuses == Statuses(e, runs)
      IN  \/ statuses = {} \/ ~statuses \subseteq TerminalRunStatuses
          \/ exps[e] = DeriveExperimentStatus(exps[e], statuses, failedTrials[e])
          \/ \E r \in mine : runs[r].status = "failed" /\ runs[r].attempt >= MaxAttempts

\* A terminal run stays as it is: no late UPDATE of a worker, a reclaim or a
\* cancellation revives it or changes how it ended (RunAlreadyTerminalError).
TerminalStable ==
  [][\A r \in RunIds : Terminal(runs[r]) => runs'[r] = runs[r]]_vars

\* At lease_attempt_limit a leased run gets to another claim only when its own worker
\* gives it back (release_owned_lease keeps the count): when the lease runs out, the
\* run is failed, whoever collects it and even if that worker claims it at once.
LimitPassedByRelease ==
  [][\A r \in RunIds :
       /\ runs[r].lease # "null" /\ runs[r].attempt >= MaxAttempts
       /\ runs'[r].status = "queued" \/ runs'[r].attempt # runs[r].attempt
       => \E w \in Workers : pc[w] = "releasing" /\ held[w] = r]_vars

\* A run that was to be cancelled runs on, or is queued again, only through a worker
\* whose transaction had read the row before it was cancelling: nobody who knows of
\* the cancellation revives the run (mark_run_running, release_owned_lease).
RevivedUnseen ==
  [][\A r \in RunIds :
       runs[r].status = "cancelling" /\ runs'[r].status \in {"running", "queued"} =>
         \E w \in Workers : /\ held[w] = r /\ tx[w].phase = "flushed"
                            /\ tx[w].seen.status \in {"claimed", "running"}]_vars

\* Every queued run comes to an end, through crashes, reclaims, stops and restarts.
EveryRunEnds == \A r \in RunIds : Exists(runs[r]) ~> Terminal(runs[r])

\* requeue_expired_leases gets to every lease that ran out (runs.py: expired
\* leases are requeued while attempts remain, otherwise the run fails).
ExpiredLeasesEnd == \A r \in RunIds : runs[r].lease = "expired" ~> runs[r].lease # "expired"
=============================================================================
