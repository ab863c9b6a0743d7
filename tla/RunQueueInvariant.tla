------------------------- MODULE RunQueueInvariant -------------------------
(***************************************************************************)
(* The inductive invariants of RunQueue.  WellFormed strengthens TypeOK    *)
(* and Keyed strengthens IdempotentStart, in every environment; Inductive  *)
(* is what makes leases exclusive when they expire only under dead workers *)
(* (Timely).                                                               *)
(***************************************************************************)
EXTENDS RunQueueLease

Busy == {"starting", "executing", "releasing"} \cup Outcomes

\* A request that starts a run carries its arguments.
AskedFor(q) ==
  req[q].op = "start" => /\ req[q].exp \in Exps /\ req[q].key \in Keys
                         /\ req[q].fp \in Fingerprints
                         /\ req[q].expSeen \in ExperimentStatuses

\* The order of the transaction's steps, and what each has established.
TxShape(s) ==
  /\ tx[s].phase = "none" => tx[s] = NoTx
  /\ tx[s].phase # "flushed" => tx[s].writes = NoWrites
  /\ s \in Workers =>
       /\ pc[s] \in {"down", "executing"} => tx[s].phase = "none"
       /\ pc[s] = "idle" => tx[s].phase # "read"
       /\ pc[s] \in Outcomes /\ tx[s].phase = "read" => tx[s].end # None
  /\ s \in Requests /\ tx[s].phase # "none" => req[s].op # "none"

\* A write is a row, never an absence of one.
WritesExist ==
  \A s \in Sessions, r \in RunIds : tx[s].writes[r] # None => Exists(tx[s].writes[r])

\* A worker has a run from the commit of its claim until it is done with it.
HasRun(w) ==
  /\ pc[w] \in Busy => held[w] # NoRun /\ Exists(runs[held[w]])
  /\ pc[w] \in {"down", "idle"} => held[w] = NoRun
  /\ pc[w] = "idle" /\ tx[w].run # NoRun =>
       tx[w].phase = "flushed" /\ tx[w].writes[tx[w].run] # None

WellFormed ==
  /\ TypeOK
  /\ \A q \in Requests : AskedFor(q)
  /\ \A s \in Sessions : TxShape(s)
  /\ WritesExist
  /\ \A w \in Workers : HasRun(w)

-----------------------------------------------------------------------------

\* A row is locked by one session.
OneLock ==
  \A s, t \in Sessions, r \in RunIds :
    tx[s].writes[r] # None /\ tx[t].writes[r] # None => s = t

\* What a session has flushed is what its operation makes of the committed row,
\* which nobody else can have changed since.
ClaimWrite(w, r) ==
  LET row == runs[r]  new == tx[w].writes[r]
  IN  \/ r # tx[w].run /\ Reclaimable(row) /\ new = Requeued(row)
      \/ /\ r = tx[w].run
         /\ \/ row.status = "queued" /\ Exists(row) /\ new = ClaimedBy(row, w)
            \/ /\ Reclaimable(row) /\ row.attempt < MaxAttempts
               /\ new = ClaimedBy(Requeued(row), w)

WorkerWrite(w, r) ==
  LET row == runs[r]  new == tx[w].writes[r]
  IN  \/ pc[w] = "idle" /\ ClaimWrite(w, r)
      \/ pc[w] = "starting" /\ r = held[w] /\ new = StartedOver(row)
      \/ /\ pc[w] \in Outcomes /\ r = held[w] /\ tx[w].end # None
         /\ new = [row EXCEPT !.status = tx[w].end, !.owner = None, !.lease = "null"]
      \/ pc[w] = "releasing" /\ r = held[w] /\ new = ReleasedOver(row, tx[w].seen)

RequestWrite(q, r) ==
  LET row == runs[r]  new == tx[q].writes[r]
  IN  \/ /\ req[q].op = "start" /\ ~Exists(row)
         /\ new = QueuedRow(req[q].exp, req[q].key, req[q].fp)
      \/ req[q].op = "cancel" /\ Exists(row) /\ ~Terminal(row) /\ new = CancelRequested(row)

WritesApply ==
  /\ \A w \in Workers, r \in RunIds : tx[w].writes[r] # None => WorkerWrite(w, r)
  /\ \A q \in Requests, r \in RunIds : tx[q].writes[r] # None => RequestWrite(q, r)

\* What a worker loaded to start, complete or release its run.
SeenRow(w) ==
  /\ pc[w] = "starting" /\ tx[w].phase # "none" => tx[w].seen.status = "claimed"
  /\ pc[w] \in Outcomes /\ tx[w].phase = "read" =>
       tx[w].seen.owner = w /\ tx[w].seen.lease # "null"
  /\ pc[w] = "releasing" /\ tx[w].phase # "none" => tx[w].seen.status \in HeartbeatStatuses

\* A worker that has a run owns its row, under a live lease; or the row is
\* terminal, because it completed the run without learning that it had.
Holds(w) ==
  \/ MayHeartbeat(runs[held[w]], w) /\ runs[held[w]].lease = "live"
  \/ pc[w] = "releasing" /\ tx[w].phase = "none" /\ Terminal(runs[held[w]])

\* A row that does not exist yet is blank.
Blank == \A r \in RunIds : ~Exists(runs[r]) => runs[r] = NoRow

Inductive ==
  /\ OneLock
  /\ WritesApply
  /\ \A w \in Workers : SeenRow(w)
  /\ \A w \in Workers : held[w] # NoRun => Holds(w)
  /\ Exclusive
  /\ LeaseColumns
  /\ Blank

-----------------------------------------------------------------------------

\* What a request asks for, and the columns of its row that no UPDATE writes.
Ids(row) == <<row.exp, row.key, row.fp>>
Asked(q) == <<req[q].exp, req[q].key, req[q].fp>>
Names == (Exps \cup {None}) \X (Keys \cup {None}) \X (Fingerprints \cup {None})

\* A version of row r, committed or flushed, carries n.
Named(r, n) ==
  \/ Exists(runs[r]) /\ Ids(runs[r]) = n
  \/ \E s \in Sessions : tx[s].writes[r] # None /\ Ids(tx[s].writes[r]) = n

\* Every version of a row carries the same, and no two rows have one key.
OneName == \A r \in RunIds, n, m \in Names : Named(r, n) /\ Named(r, m) => n = m

OneKey ==
  \A r1, r2 \in RunIds, n, m \in Names :
    r1 # r2 /\ Named(r1, n) /\ Named(r2, m) => <<n[1], n[2]>> # <<m[1], m[2]>>

\* The run that request q found, or inserted, is the one that it asked for; and the
\* run that it was answered with is that one, or was rolled back and is no one's.
Found(q) ==
  LET r == tx[q].run
  IN  \/ Exists(runs[r]) /\ Ids(runs[r]) = Asked(q)
      \/ tx[q].writes[r] # None /\ Ids(tx[q].writes[r]) = Asked(q)

OwnAnswer(q) ==
  /\ tx[q].phase # "none" /\ tx[q].run # NoRun => Found(q)
  /\ tx[q].phase = "flushed" => tx[q].run # NoRun
  /\ req[q].reply = "ok" =>
       req[q].run # NoRun /\ \A n \in Names : Named(req[q].run, n) => n = Asked(q)

\* The strengthening of IdempotentStart: what carries a key, in the table or in a
\* transaction in flight (services/runs.py start_run, cancel_run).
Keyed ==
  /\ OneLock
  /\ OneName
  /\ OneKey
  /\ \A q \in Requests : req[q].op = "start" => OwnAnswer(q)

-----------------------------------------------------------------------------
(* The behaviours in which at most one request starts a run of an          *)
(* experiment, and what keeps the experiment's status current in them.     *)

OneStart ==
  \A q, p \in Requests :
    req'[q].op = "start" /\ req'[p].op = "start" /\ req'[q].exp = req'[p].exp => p = q

OneStartSafe == Init /\ [][Next /\ OneStart]_vars

Lone ==
  \A q, p \in Requests :
    req[q].op = "start" /\ req[p].op = "start" /\ req[q].exp = req[p].exp => p = q

\* Row r is of experiment e, or will be when its INSERT is committed.
Carries(r, e) ==
  \/ Exists(runs[r]) /\ runs[r].exp = e
  \/ \E q \in Requests : tx[q].writes[r] # None /\ req[q].op = "start" /\ req[q].exp = e

\* A row comes from a request that will insert no other.
Begun ==
  \A r \in RunIds, e \in Exps : Carries(r, e) =>
    \E q \in Requests : req[q].op = "start" /\ req[q].exp = e /\ tx[q].phase # "read"

OneRun ==
  \A r1, r2 \in RunIds, e \in Exps : Carries(r1, e) /\ Carries(r2, e) => r1 = r2

\* Without crashes, the owner of a row has the run, and its lease does not run out.
Handed ==
  MaxCrashes = 0 =>
    \A r \in RunIds : /\ runs[r].lease # "expired"
                      /\ runs[r].owner # None => held[runs[r].owner] = r

\* What completes or releases a run writes its row.
Written(w) ==
  pc[w] \in Outcomes \cup {"releasing"} /\ tx[w].phase = "flushed" =>
    tx[w].writes[held[w]] # None

\* A row that was failed for want of attempts: the sync left it out.
Exhausted(row) == MaxCrashes > 0 /\ row.status = "failed" /\ row.attempt >= MaxAttempts

\* The only run of its experiment has ended, and the experiment's status tells so.
Told(row, status) ==
  Terminal(row) /\ ~Exhausted(row) =>
    status = DeriveExperimentStatus("draft", {row.status}, failedTrials[row.exp])

\* The status of experiment e when session s has committed.
StatusAfter(s, e) == IF tx[s].expTo # None /\ tx[s].exp = e THEN tx[s].expTo ELSE exps[e]

ToldByRows == \A r \in RunIds : Exists(runs[r]) => Told(runs[r], exps[runs[r].exp])

ToldByWrites(s) ==
  \A r \in RunIds :
    tx[s].writes[r] # None => Told(tx[s].writes[r], StatusAfter(s, tx[s].writes[r].exp))

\* A session syncs an experiment together with a run of it that it has written.
SyncsItsOwn(s) ==
  tx[s].expTo # None =>
    \E r \in RunIds : tx[s].writes[r] # None /\ tx[s].writes[r].exp = tx[s].exp

Fresh ==
  /\ ToldByRows
  /\ \A s \in Sessions : ToldByWrites(s) /\ SyncsItsOwn(s)

\* The strengthening of StaleOnlyExhausted and SettledExperiment in those behaviours
\* (experiments.py sync_experiment_status, worker.py _claim_run).
Settling == Lone /\ Begun /\ OneRun /\ Handed /\ (\A w \in Workers : Written(w)) /\ Fresh

-----------------------------------------------------------------------------

\* The strengthening of the safety properties: every part of the queue's
\* bookkeeping agrees with the transactions in flight (runs.py, worker.py).
IInv == WellFormed /\ (Timely => Inductive)
=============================================================================
