--------------------------- MODULE RunQueueProofs ---------------------------
(***************************************************************************)
(* Proofs about RunQueue for every set of workers, requests, experiments,  *)
(* keys, every number of rows, every attempt limit and any number of       *)
(* faults.  First type correctness (WellFormed is inductive without any    *)
(* assumption on time).  Then what leases guarantee when none of them      *)
(* expires under the live worker that holds it (Timely: heartbeats come in *)
(* time): IInv is inductive, and the safety properties of the run queue    *)
(* follow from it.                                                         *)
(***************************************************************************)
EXTENDS RunQueueInvariant, TLAPS

Writes == [RunIds -> Row \cup {None}]

\* The step leaves the tables well typed and loses no row.
TablesKept ==
  /\ runs' \in [RunIds -> Row]
  /\ \A r \in RunIds : Exists(runs[r]) => Exists(runs'[r])
  /\ exps' \in [Exps -> ExperimentStatuses]

CountersKept ==
  /\ failedTrials' \in [Exps -> BOOLEAN]
  /\ crashes' \in 0..MaxCrashes /\ stops' \in 0..MaxStops

\* The step gives worker w the transaction t, the place p and the run h.
WorkerMoves(w, t, p, h) ==
  /\ tx' = [tx EXCEPT ![w] = t] /\ pc' = [pc EXCEPT ![w] = p]
  /\ held' = [held EXCEPT ![w] = h] /\ req' = req

-----------------------------------------------------------------------------
(* Lemmas about the operators of RunRows.                                  *)

\* request_run_cancellation makes a row of a row.
LEMMA CancelIsRow ==
  ASSUME NEW row \in Row
  PROVE  CancelRequested(row) \in Row /\ CancelRequested(row).exp = row.exp
BY DEF CancelRequested, Row, RunStatuses, HeartbeatStatuses, TerminalRunStatuses

\* The operations of runs.py make rows of rows, and keep experiment and key.
LEMMA RowOperations ==
  ASSUME NEW row \in Row, NEW w \in Workers, NEW seen \in Row
  PROVE  /\ Requeued(row) \in Row /\ Requeued(row).exp = row.exp
         /\ ClaimedBy(row, w) \in Row /\ ClaimedBy(row, w).exp = row.exp
         /\ Heartbeaten(row) \in Row /\ Heartbeaten(row).exp = row.exp
         /\ StartedOver(row) \in Row /\ StartedOver(row).exp = row.exp
         /\ ReleasedOver(row, seen) \in Row /\ ReleasedOver(row, seen).exp = row.exp
         /\ [row EXCEPT !.lease = "expired"] \in Row
<1>1. Requeued(row) \in Row /\ Requeued(row).exp = row.exp
  BY DEF Requeued, Row, RunStatuses, TerminalRunStatuses
<1>2. ClaimedBy(row, w) \in Row /\ ClaimedBy(row, w).exp = row.exp
  <2>1. row.attempt + 1 \in Nat
    BY DEF Row
  <2>2. QED
    BY <2>1 DEF ClaimedBy, Row, RunStatuses, HeartbeatStatuses
<1>4. Heartbeaten(row) \in Row /\ Heartbeaten(row).exp = row.exp
  BY DEF Heartbeaten, Row
<1>5. StartedOver(row) \in Row /\ StartedOver(row).exp = row.exp
  BY DEF StartedOver, Row, RunStatuses, HeartbeatStatuses
<1>6. ReleasedOver(row, seen) \in Row /\ ReleasedOver(row, seen).exp = row.exp
  <2>1. CASE seen.status = "cancelling"
    BY <2>1 DEF ReleasedOver, Row, RunStatuses, TerminalRunStatuses
  <2>2. CASE seen.status # "cancelling"
    BY <2>2 DEF ReleasedOver, Row, RunStatuses, TerminalRunStatuses
  <2>3. QED
    BY <2>1, <2>2
<1>7. [row EXCEPT !.lease = "expired"] \in Row
  BY DEF Row
<1>8. QED
  BY <1>1, <1>2, <1>4, <1>5, <1>6, <1>7

\* complete_run makes a row of a row when it is given a terminal status.
LEMMA CompletionIsRow ==
  ASSUME NEW row \in Row, NEW seen \in Row, NEW status \in TerminalRunStatuses
  PROVE  /\ CompletedOver(row, seen, status) \in Row
         /\ CompletedOver(row, seen, status).exp = row.exp
<1>1. status \in RunStatuses
  BY DEF RunStatuses
<1>2. /\ (IF seen.owner = None THEN row.owner ELSE None) \in Workers \cup {None}
      /\ (IF seen.lease = "null" THEN row.lease ELSE "null") \in {"null", "live", "expired"}
  BY DEF Row
<1>3. QED
  BY <1>1, <1>2 DEF CompletedOver, Row

\* A row that create_queued_run inserts is a row of its experiment.
LEMMA NewRowIsRow ==
  /\ NoRow \in Row
  /\ \A e \in Exps, k \in Keys, f \in Fingerprints :
       QueuedRow(e, k, f) \in Row /\ QueuedRow(e, k, f).exp = e
BY DEF NoRow, QueuedRow, Row, RunStatuses

\* derive_experiment_status yields a status of an experiment.
LEMMA DerivedIsStatus ==
  ASSUME NEW current \in ExperimentStatuses, NEW statuses, NEW failed
  PROVE  DeriveExperimentStatus(current, statuses, failed) \in ExperimentStatuses
BY DEF DeriveExperimentStatus, ExperimentStatuses

\* What sync_experiment_status writes is a status of an experiment, if anything.
LEMMA SyncedIsStatus ==
  ASSUME NEW e, NEW current \in ExperimentStatuses, NEW writes
  PROVE  Synced(e, current, writes) \in ExperimentStatuses \cup {None}
BY DerivedIsStatus DEF Synced

-----------------------------------------------------------------------------
(* Lemmas about transactions.                                              *)

\* None marks a row that is not written: it is no row itself.
LEMMA NoneIsNoRow == None \notin Row
BY NoneAssumption

\* A session sees the rows that it wrote and the committed others.
LEMMA VisibleRows ==
  ASSUME NEW writes \in Writes, runs \in [RunIds -> Row]
  PROVE  /\ Visible(writes) \in [RunIds -> Row]
         /\ \A r \in RunIds : Visible(writes)[r] = IF writes[r] = None THEN runs[r] ELSE writes[r]
BY DEF Visible, Writes

\* What Flush leaves in the transaction of its session.
LEMMA FlushEffect ==
  ASSUME NEW s \in Sessions, NEW r \in RunIds \cup {NoRun}, NEW writes \in Writes,
         NEW e \in Exps \cup {None}, NEW current \in ExperimentStatuses,
         tx \in [Sessions -> TxType], Flush(s, r, writes, e, current)
  PROVE  \E t \in TxType :
           /\ tx' = [tx EXCEPT ![s] = t]
           /\ t.phase = "flushed" /\ t.run = r /\ t.writes = writes
           /\ t.seen = tx[s].seen /\ t.end = tx[s].end
<1> DEFINE t == [tx[s] EXCEPT !.phase = "flushed", !.run = r, !.writes = writes,
                              !.exp = e, !.expTo = Synced(e, current, writes)]
<1>1. Synced(e, current, writes) \in ExperimentStatuses \cup {None}
  BY SyncedIsStatus
<1>2. tx[s] \in TxType
  OBVIOUS
<1>3. t \in TxType
  BY <1>1, <1>2 DEF TxType, Writes
<1>4. /\ t.phase = "flushed" /\ t.run = r /\ t.writes = writes
      /\ t.seen = tx[s].seen /\ t.end = tx[s].end
  BY <1>2 DEF TxType
<1>5. tx' = [tx EXCEPT ![s] = t]
  BY DEF Flush
<1>6. QED
  BY <1>3, <1>4, <1>5

\* A session without a transaction has written nothing.
LEMMA NoTxIsTx ==
  /\ NoTx \in TxType /\ NoWrites \in Writes
  /\ NoTx.phase = "none" /\ NoTx.run = NoRun /\ NoTx.writes = NoWrites
  /\ \A r \in RunIds : NoWrites[r] = None
BY NewRowIsRow DEF NoTx, TxType, NoWrites, Writes, NoRun

\* A commit keeps the tables well typed and loses no row.
LEMMA ApplyEffect ==
  ASSUME WellFormed, NEW s \in Sessions, Apply(s)
  PROVE  /\ TablesKept
         /\ \A r \in RunIds : runs'[r] = IF tx[s].writes[r] = None THEN runs[r]
                                          ELSE tx[s].writes[r]
<1>1. tx[s] \in TxType /\ runs \in [RunIds -> Row] /\ exps \in [Exps -> ExperimentStatuses]
  BY DEF WellFormed, TypeOK
<1>2. tx[s].writes \in Writes /\ tx[s].expTo \in ExperimentStatuses \cup {None}
  BY <1>1 DEF TxType, Writes
<1>3. /\ runs' \in [RunIds -> Row]
      /\ \A r \in RunIds : runs'[r] = IF tx[s].writes[r] = None THEN runs[r]
                                       ELSE tx[s].writes[r]
  BY <1>1, <1>2, VisibleRows DEF Apply
<1>4. exps' \in [Exps -> ExperimentStatuses]
  BY <1>1, <1>2 DEF Apply
<1>5. \A r \in RunIds : Exists(runs[r]) => Exists(runs'[r])
  BY <1>3 DEF WellFormed, WritesExist
<1>6. QED
  BY <1>3, <1>4, <1>5 DEF TablesKept

\* A step that commits nothing keeps the tables.
LEMMA TablesUntouched ==
  ASSUME WellFormed, UNCHANGED <<runs, exps>>
  PROVE  TablesKept
BY DEF WellFormed, TypeOK, TablesKept

\* A step that leaves the counters alone keeps their types.
LEMMA CountersUntouched ==
  ASSUME WellFormed, UNCHANGED <<failedTrials, crashes, stops>>
  PROVE  CountersKept
BY DEF WellFormed, TypeOK, CountersKept

-----------------------------------------------------------------------------
(* A step of one session keeps WellFormed when what it makes of that       *)
(* session's own variables is well formed.                                 *)

\* The step of a worker (worker.py), given by the new values of its own variables.
LEMMA WorkerKeepsWellFormed ==
  ASSUME WellFormed, NEW w \in Workers,
         NEW t \in TxType, NEW p \in WorkerPcs, NEW h \in RunIds \cup {NoRun},
         TablesKept, CountersKept, WorkerMoves(w, t, p, h),
         t.phase = "none" => t = NoTx, t.phase # "flushed" => t.writes = NoWrites,
         p \in {"down", "executing"} => t.phase = "none",
         p = "idle" => t.phase # "read",
         p \in Outcomes /\ t.phase = "read" => t.end # None,
         \A r \in RunIds : t.writes[r] # None => Exists(t.writes[r]),
         p \in Busy => h # NoRun /\ Exists(runs'[h]),
         p \in {"down", "idle"} => h = NoRun,
         p = "idle" /\ t.run # NoRun => t.phase = "flushed" /\ t.writes[t.run] # None
  PROVE  WellFormed'
<1> USE DEF TablesKept, CountersKept, WorkerMoves
<1>1. w \in Sessions /\ w \notin Requests
  BY RequestsAssumption DEF Sessions
<1>2. TypeOK
  BY DEF WellFormed
<1>3. TypeOK'
  BY <1>1, <1>2 DEF TypeOK
<1>4. \A q \in Requests : AskedFor(q)'
  BY DEF WellFormed, AskedFor
<1>5. ASSUME NEW s \in Sessions PROVE TxShape(s)'
  <2>1. CASE s = w
    BY <1>1, <1>2, <2>1 DEF TxShape, TypeOK
  <2>2. CASE s # w
    BY <1>1, <1>2, <2>2 DEF TxShape, TypeOK, WellFormed
  <2>3. QED
    BY <2>1, <2>2
<1>6. WritesExist'
  BY <1>1, <1>2 DEF WritesExist, TypeOK, WellFormed
<1>7. ASSUME NEW v \in Workers PROVE HasRun(v)'
  <2>1. CASE v = w
    BY <1>1, <1>2, <2>1 DEF HasRun, TypeOK
  <2>2. CASE v # w
    <3>1. HasRun(v) /\ v \in Sessions
      BY DEF WellFormed, Sessions
    <3>2. pc'[v] = pc[v] /\ held'[v] = held[v] /\ tx'[v] = tx[v]
      BY <1>1, <1>2, <2>2, <3>1 DEF TypeOK
    <3>3. held[v] # NoRun => held[v] \in RunIds
      BY <1>2 DEF TypeOK
    <3>4. QED
      BY <3>1, <3>2, <3>3 DEF HasRun
  <2>3. QED
    BY <2>1, <2>2
<1>8. QED
  BY <1>3, <1>4, <1>5, <1>6, <1>7 DEF WellFormed

\* The step of a request (services/runs.py), given in the same way.
LEMMA RequestKeepsWellFormed ==
  ASSUME WellFormed, NEW q \in Requests, NEW t \in TxType, NEW a \in RequestType,
         TablesKept,
         UNCHANGED <<failedTrials, pc, held, crashes, stops>>,
         tx' = [tx EXCEPT ![q] = t], req' = [req EXCEPT ![q] = a],
         t.phase = "none" => t = NoTx, t.phase # "flushed" => t.writes = NoWrites,
         t.phase # "none" => a.op # "none",
         \A r \in RunIds : t.writes[r] # None => Exists(t.writes[r]),
         a.op = "start" => /\ a.exp \in Exps /\ a.key \in Keys /\ a.fp \in Fingerprints
                           /\ a.expSeen \in ExperimentStatuses
  PROVE  WellFormed'
<1> USE DEF TablesKept
<1>1. q \in Sessions /\ q \notin Workers
  BY RequestsAssumption DEF Sessions
<1>2. TypeOK
  BY DEF WellFormed
<1>3. TypeOK'
  BY <1>1, <1>2 DEF TypeOK
<1>4. ASSUME NEW x \in Requests PROVE AskedFor(x)'
  BY <1>2 DEF WellFormed, AskedFor, TypeOK
<1>5. ASSUME NEW s \in Sessions PROVE TxShape(s)'
  <2>1. CASE s = q
    BY <1>1, <1>2, <2>1 DEF TxShape, TypeOK
  <2>2. CASE s # q
    BY <1>1, <1>2, <2>2 DEF TxShape, TypeOK, WellFormed
  <2>3. QED
    BY <2>1, <2>2
<1>6. WritesExist'
  BY <1>1, <1>2 DEF WritesExist, TypeOK, WellFormed
<1>7. ASSUME NEW v \in Workers PROVE HasRun(v)'
  <2>1. HasRun(v) /\ v \in Sessions /\ v # q
    BY <1>1 DEF WellFormed, Sessions
  <2>2. pc'[v] = pc[v] /\ held'[v] = held[v] /\ tx'[v] = tx[v]
    BY <1>1, <1>2, <2>1 DEF TypeOK
  <2>3. held[v] # NoRun => held[v] \in RunIds
    BY <1>2 DEF TypeOK
  <2>4. QED
    BY <2>1, <2>2, <2>3 DEF HasRun
<1>8. QED
  BY <1>3, <1>4, <1>5, <1>6, <1>7 DEF WellFormed

-----------------------------------------------------------------------------
(* WellFormed is preserved by every action.                                *)

\* What WellFormed says of one worker.
LEMMA WorkerFacts ==
  ASSUME WellFormed, NEW w \in Workers
  PROVE  /\ w \in Sessions /\ tx[w] \in TxType /\ tx[w].writes \in Writes
         /\ pc[w] \in WorkerPcs /\ held[w] \in RunIds \cup {NoRun}
         /\ pc[w] \in Busy => /\ held[w] \in RunIds /\ Exists(runs[held[w]])
                             /\ runs[held[w]] \in Row /\ runs[held[w]].exp \in Exps
                             /\ exps[runs[held[w]].exp] \in ExperimentStatuses
         /\ pc[w] \in {"down", "idle"} => held[w] = NoRun
         /\ runs \in [RunIds -> Row] /\ exps \in [Exps -> ExperimentStatuses]
         /\ failedTrials \in [Exps -> BOOLEAN] /\ tx \in [Sessions -> TxType]
         /\ crashes \in 0..MaxCrashes /\ stops \in 0..MaxStops
         /\ TxShape(w) /\ HasRun(w)
         /\ \A r \in RunIds : tx[w].writes[r] # None => Exists(tx[w].writes[r])
         /\ pc = [pc EXCEPT ![w] = pc[w]] /\ held = [held EXCEPT ![w] = held[w]]
         /\ tx = [tx EXCEPT ![w] = tx[w]]
<1>1. /\ w \in Sessions /\ TypeOK /\ TxShape(w) /\ HasRun(w) /\ WritesExist
  BY DEF Sessions, WellFormed
<1>2. /\ tx[w] \in TxType /\ pc[w] \in WorkerPcs /\ held[w] \in RunIds \cup {NoRun}
      /\ pc = [pc EXCEPT ![w] = pc[w]] /\ held = [held EXCEPT ![w] = held[w]]
      /\ tx = [tx EXCEPT ![w] = tx[w]]
      /\ runs \in [RunIds -> Row] /\ exps \in [Exps -> ExperimentStatuses]
      /\ failedTrials \in [Exps -> BOOLEAN] /\ tx \in [Sessions -> TxType]
      /\ crashes \in 0..MaxCrashes /\ stops \in 0..MaxStops
  BY <1>1 DEF TypeOK
<1>3. tx[w].writes \in Writes
  BY <1>2 DEF TxType, Writes
<1>4. ASSUME pc[w] \in Busy
      PROVE  /\ held[w] \in RunIds /\ Exists(runs[held[w]])
             /\ runs[held[w]] \in Row /\ runs[held[w]].exp \in Exps
             /\ exps[runs[held[w]].exp] \in ExperimentStatuses
  <2>1. held[w] \in RunIds /\ Exists(runs[held[w]])
    BY <1>1, <1>2, <1>4 DEF HasRun
  <2>2. runs[held[w]] \in Row
    BY <1>2, <2>1
  <2>3. runs[held[w]].exp \in Exps
    BY <2>1, <2>2 DEF Row, Exists
  <2>4. QED
    BY <1>2, <2>1, <2>2, <2>3
<1>5. QED
  BY <1>1, <1>2, <1>3, <1>4 DEF HasRun, WritesExist

\* What flushing one row leaves in the transaction of its session.
LEMMA FlushRowEffect ==
  ASSUME NEW s \in Sessions, NEW r \in RunIds, NEW row \in Row, row.exp \in Exps,
         tx \in [Sessions -> TxType], exps \in [Exps -> ExperimentStatuses],
         FlushRow(s, r, row)
  PROVE  \E t \in TxType :
           /\ tx' = [tx EXCEPT ![s] = t]
           /\ t.phase = "flushed" /\ t.run = r
           /\ t.seen = tx[s].seen /\ t.end = tx[s].end
           /\ t.writes[r] = row
           /\ \A i \in RunIds \ {r} : t.writes[i] = None
<1> DEFINE ws == [NoWrites EXCEPT ![r] = row]
<1>1. /\ ws \in Writes /\ ws[r] = row
      /\ \A i \in RunIds \ {r} : ws[i] = None
  BY DEF Writes, NoWrites
<1>2. Flush(s, r, ws, row.exp, exps[row.exp])
  BY DEF FlushRow
<1>3. exps[row.exp] \in ExperimentStatuses /\ row.exp \in Exps \cup {None}
      /\ r \in RunIds \cup {NoRun}
  OBVIOUS
<1> HIDE DEF ws
<1>4. \E t \in TxType :
        /\ tx' = [tx EXCEPT ![s] = t]
        /\ t.phase = "flushed" /\ t.run = r /\ t.writes = ws
        /\ t.seen = tx[s].seen /\ t.end = tx[s].end
  BY <1>1, <1>2, <1>3, FlushEffect
<1>5. QED
  BY <1>1, <1>4

\* The writes of a claim: what requeue_expired_leases makes of expired rows.
LEMMA ExpiredRows ==
  ASSUME runs \in [RunIds -> Row]
  PROVE  /\ ExpiredWrites \in Writes
         /\ \A r \in RunIds : ExpiredWrites[r] # None =>
              Reclaimable(runs[r]) /\ ~Locked(r) /\ ExpiredWrites[r] = Requeued(runs[r])
         /\ \A r \in RunIds : ExpiredWrites[r] # None => Exists(ExpiredWrites[r])
<1>1. ASSUME NEW r \in RunIds PROVE Requeued(runs[r]) \in Row /\ Requeued(runs[r]).exp = runs[r].exp
  <2>1. runs[r] \in Row
    OBVIOUS
  <2>2. Requeued(runs[r]) \in Row /\ Requeued(runs[r]).exp = runs[r].exp
    BY <2>1 DEF Requeued, Row, RunStatuses, TerminalRunStatuses
  <2>3. QED
    BY <2>2
<1>2. QED
  BY <1>1 DEF ExpiredWrites, Writes, Reclaimable, Exists

\* claim_next_run that claims a run.
LEMMA ClaimOldestWellFormed ==
  ASSUME WellFormed, NEW w \in Workers, ClaimOldest(w)
  PROVE  WellFormed'
<1> DEFINE rows == Visible(ExpiredWrites)
<1>1. PICK r \in Claimable(rows) :
         Flush(w, r, [ExpiredWrites EXCEPT ![r] = ClaimedBy(rows[r], w)],
               rows[r].exp, exps[rows[r].exp])
  BY DEF ClaimOldest
<1> DEFINE ws == [ExpiredWrites EXCEPT ![r] = ClaimedBy(rows[r], w)]
<1>2. r \in RunIds /\ rows[r] \in Row /\ rows[r].exp \in Exps
  <2>1. r \in RunIds /\ Exists(rows[r])
    BY DEF Claimable
  <2>2. rows \in [RunIds -> Row]
    BY WorkerFacts, ExpiredRows, VisibleRows
  <2>3. QED
    BY <2>1, <2>2 DEF Exists, Row
<1>3. ClaimedBy(rows[r], w) \in Row /\ ClaimedBy(rows[r], w).exp = rows[r].exp
  BY <1>2, RowOperations
<1>4. Exists(ClaimedBy(rows[r], w)) /\ ClaimedBy(rows[r], w) # None
  BY <1>2, <1>3, NoneAssumption DEF Exists
<1>5. /\ ws \in Writes /\ ws[r] # None
      /\ \A i \in RunIds : ws[i] # None => Exists(ws[i])
  <2>1. /\ ExpiredWrites \in Writes
        /\ \A i \in RunIds : ExpiredWrites[i] # None => Exists(ExpiredWrites[i])
    BY WorkerFacts, ExpiredRows
  <2>2. QED
    BY <1>2, <1>3, <1>4, <2>1 DEF Writes
<1>6. PICK t \in TxType :
         /\ tx' = [tx EXCEPT ![w] = t]
         /\ t.phase = "flushed" /\ t.run = r /\ t.writes = ws
  <2>1. exps[rows[r].exp] \in ExperimentStatuses
    BY <1>2, WorkerFacts
  <2>2. QED
    BY <1>1, <1>2, <1>5, <2>1, WorkerFacts, FlushEffect
<1>7. pc[w] = "idle" /\ UNCHANGED <<runs, exps, pc, held, failedTrials, req, crashes, stops>>
  BY DEF ClaimOldest, Untouched
<1> HIDE DEF ws
<1>8. TablesKept /\ CountersKept
  BY <1>7, TablesUntouched, CountersUntouched
<1>9. WorkerMoves(w, t, "idle", NoRun)
  BY <1>6, <1>7, WorkerFacts DEF WorkerMoves
<1>10. "idle" \in WorkerPcs /\ "idle" \notin Busy /\ "idle" \notin Outcomes
  BY DEF WorkerPcs, Busy, Outcomes
<1>11. QED
  BY <1>2, <1>5, <1>6, <1>8, <1>9, <1>10, WorkerKeepsWellFormed

\* claim_next_run that finds no run to claim.
LEMMA ClaimNothingWellFormed ==
  ASSUME WellFormed, NEW w \in Workers, ClaimNothing(w)
  PROVE  WellFormed'
<1> DEFINE t == [tx[w] EXCEPT !.phase = "flushed", !.writes = ExpiredWrites]
<1>1. /\ tx' = [tx EXCEPT ![w] = t]
      /\ pc[w] = "idle" /\ tx[w].phase = "none"
      /\ UNCHANGED <<runs, exps, pc, held, failedTrials, req, crashes, stops>>
  BY DEF ClaimNothing, Untouched
<1>2. /\ ExpiredWrites \in Writes
      /\ \A i \in RunIds : ExpiredWrites[i] # None => Exists(ExpiredWrites[i])
  BY WorkerFacts, ExpiredRows
<1>3. tx[w].run = NoRun
  BY <1>1, WorkerFacts DEF HasRun
<1>4. t \in TxType /\ t.phase = "flushed" /\ t.writes = ExpiredWrites /\ t.run = NoRun
  <2>1. tx[w] \in TxType
    BY WorkerFacts
  <2>2. QED
    BY <1>2, <1>3, <2>1 DEF TxType, Writes
<1>5. TablesKept /\ CountersKept
  BY <1>1, TablesUntouched, CountersUntouched
<1>6. WorkerMoves(w, t, "idle", NoRun)
  BY <1>1, WorkerFacts DEF WorkerMoves
<1>7. "idle" \in WorkerPcs /\ "idle" \notin Busy /\ "idle" \notin Outcomes
  BY DEF WorkerPcs, Busy, Outcomes
<1> HIDE DEF t
<1>8. QED
  BY <1>2, <1>4, <1>5, <1>6, <1>7, WorkerKeepsWellFormed

\* A worker whose transaction is closed is well formed at p with run h.
LEMMA ClosedWellFormed ==
  ASSUME WellFormed, NEW w \in Workers, NEW p \in WorkerPcs,
         NEW h \in RunIds \cup {NoRun}, TablesKept, CountersKept,
         WorkerMoves(w, NoTx, p, h),
         p \in Busy => h # NoRun /\ Exists(runs'[h]),
         p \in {"down", "idle"} => h = NoRun
  PROVE  WellFormed'
BY NoTxIsTx, WorkerKeepsWellFormed

\* The commit of _claim_run.
LEMMA CommitClaimWellFormed ==
  ASSUME WellFormed, NEW w \in Workers, CommitClaim(w)
  PROVE  WellFormed'
<1>1. /\ pc[w] = "idle" /\ Apply(w)
      /\ UNCHANGED <<failedTrials, req, crashes, stops>>
  BY DEF CommitClaim, Untouched
<1>2. TablesKept /\ CountersKept
  BY <1>1, WorkerFacts, ApplyEffect, CountersUntouched
<1>3. tx[w].run \in RunIds \cup {NoRun}
  BY WorkerFacts DEF TxType
<1>4. CASE tx[w].run = NoRun
  <2>1. WorkerMoves(w, NoTx, "idle", NoRun)
    BY <1>1, <1>4 DEF CommitClaim, Close, Goto, WorkerMoves
  <2>2. QED
    BY <1>2, <2>1, ClosedWellFormed DEF WorkerPcs, Busy, Outcomes
<1>5. CASE tx[w].run # NoRun
  <2>1. WorkerMoves(w, NoTx, "starting", tx[w].run)
    BY <1>1, <1>5 DEF CommitClaim, Close, Goto, WorkerMoves
  <2>2. tx[w].run \in RunIds /\ tx[w].writes[tx[w].run] # None
    BY <1>1, <1>3, <1>5, WorkerFacts DEF HasRun
  <2>3. Exists(runs'[tx[w].run])
    BY <1>1, <2>2, WorkerFacts, ApplyEffect
  <2>4. QED
    BY <1>2, <1>3, <1>5, <2>1, <2>3, ClosedWellFormed DEF WorkerPcs, Busy, Outcomes
<1>6. QED
  BY <1>4, <1>5

\* Worker w flushes the row of its run.
LEMMA FlushedWellFormed ==
  ASSUME WellFormed, NEW w \in Workers, pc[w] \in Busy \ {"executing"},
         NEW row \in Row, row.exp = runs[held[w]].exp, FlushRow(w, held[w], row),
         UNCHANGED <<runs, exps, pc, held>>, Untouched
  PROVE  WellFormed'
<1>1. /\ held[w] \in RunIds /\ Exists(runs[held[w]]) /\ row.exp \in Exps
      /\ pc[w] \in WorkerPcs
  BY WorkerFacts
<1>2. PICK t \in TxType :
        /\ tx' = [tx EXCEPT ![w] = t]
        /\ t.phase = "flushed" /\ t.run = held[w]
        /\ t.writes[held[w]] = row
        /\ \A i \in RunIds \ {held[w]} : t.writes[i] = None
  <2>1. /\ w \in Sessions /\ tx \in [Sessions -> TxType]
        /\ exps \in [Exps -> ExperimentStatuses]
    BY WorkerFacts
  <2>2. QED
    BY <1>1, <2>1, FlushRowEffect
<1>3. \A i \in RunIds : t.writes[i] # None => Exists(t.writes[i])
  BY <1>1, <1>2, NoneAssumption DEF Exists
<1>4. TablesKept /\ CountersKept
  BY TablesUntouched, CountersUntouched DEF Untouched
<1>5. WorkerMoves(w, t, pc[w], held[w])
  BY <1>2, WorkerFacts DEF WorkerMoves, Untouched
<1>6. /\ pc[w] \notin {"down", "executing", "idle"} /\ held[w] # NoRun
      /\ Exists(runs'[held[w]])
  BY <1>1 DEF Busy, Outcomes, NoRun, RunIds
<1>7. QED
  BY <1>1, <1>2, <1>3, <1>4, <1>5, <1>6, WorkerKeepsWellFormed

\* Worker w flushes no row and syncs the experiment of its run.
LEMMA NothingFlushedWellFormed ==
  ASSUME WellFormed, NEW w \in Workers, pc[w] \in Busy \ {"executing"},
         Flush(w, held[w], NoWrites, runs[held[w]].exp, exps[runs[held[w]].exp]),
         UNCHANGED <<runs, exps, pc, held>>, Untouched
  PROVE  WellFormed'
<1> DEFINE h == held[w]
           e == runs[held[w]].exp
           current == exps[runs[held[w]].exp]
           ws == NoWrites
<1>1. /\ h \in RunIds /\ h \in RunIds \cup {NoRun} /\ Exists(runs[h]) /\ pc[w] \in WorkerPcs
      /\ e \in Exps \cup {None} /\ current \in ExperimentStatuses
  BY WorkerFacts
<1>2. /\ w \in Sessions /\ tx \in [Sessions -> TxType] /\ ws \in Writes
      /\ \A i \in RunIds : ws[i] = None
  BY WorkerFacts, NoTxIsTx
<1>3. Flush(w, h, ws, e, current)
  OBVIOUS
<1>4. PICK t \in TxType :
        tx' = [tx EXCEPT ![w] = t] /\ t.phase = "flushed" /\ t.run = h /\ t.writes = ws
  <2> HIDE DEF h, e, current, ws
  <2>1. \E t \in TxType :
          /\ tx' = [tx EXCEPT ![w] = t]
          /\ t.phase = "flushed" /\ t.run = h /\ t.writes = ws
          /\ t.seen = tx[w].seen /\ t.end = tx[w].end
    BY <1>1, <1>2, <1>3, FlushEffect
  <2>2. QED
    BY <2>1
<1>5. TablesKept /\ CountersKept
  BY TablesUntouched, CountersUntouched DEF Untouched
<1>6. WorkerMoves(w, t, pc[w], h)
  BY <1>4, WorkerFacts DEF WorkerMoves, Untouched
<1>7. pc[w] \notin {"down", "executing", "idle"} /\ h # NoRun /\ Exists(runs'[h])
  BY <1>1 DEF Busy, Outcomes, NoRun, RunIds
<1>8. QED
  BY <1>1, <1>2, <1>4, <1>5, <1>6, <1>7, WorkerKeepsWellFormed

\* Worker w loads the row of its run.
LEMMA ReadWellFormed ==
  ASSUME WellFormed, NEW w \in Workers, pc[w] \in Busy \ {"executing"},
         NEW t \in TxType, t.phase = "read", t.writes = NoWrites,
         pc[w] \in Outcomes => t.end # None,
         tx' = [tx EXCEPT ![w] = t], UNCHANGED <<runs, exps, pc, held>>, Untouched
  PROVE  WellFormed'
<1>1. /\ held[w] \in RunIds /\ Exists(runs[held[w]]) /\ pc[w] \in WorkerPcs
  BY WorkerFacts
<1>2. \A i \in RunIds : t.writes[i] # None => Exists(t.writes[i])
  BY NoTxIsTx
<1>3. TablesKept /\ CountersKept
  BY TablesUntouched, CountersUntouched DEF Untouched
<1>4. WorkerMoves(w, t, pc[w], held[w])
  BY WorkerFacts DEF WorkerMoves, Untouched
<1>5. /\ pc[w] \notin {"down", "executing", "idle"} /\ held[w] # NoRun
      /\ Exists(runs'[held[w]])
  BY <1>1 DEF Busy, Outcomes, NoRun, RunIds
<1>6. QED
  BY <1>1, <1>2, <1>3, <1>4, <1>5, WorkerKeepsWellFormed

\* Worker w goes elsewhere with the run it has and no transaction open.
LEMMA BusyWellFormed ==
  ASSUME WellFormed, NEW w \in Workers, NEW p \in Busy, pc[w] \in Busy,
         TablesKept, CountersKept, WorkerMoves(w, NoTx, p, held[w])
  PROVE  WellFormed'
<1>1. held[w] \in RunIds /\ Exists(runs[held[w]]) /\ held[w] # NoRun
  BY WorkerFacts DEF NoRun, RunIds
<1>2. Exists(runs'[held[w]])
  BY <1>1 DEF TablesKept
<1>3. p \in WorkerPcs /\ p \notin {"down", "idle"}
  BY DEF Busy, WorkerPcs, Outcomes
<1>4. QED
  BY <1>1, <1>2, <1>3, ClosedWellFormed

\* Worker w ends, or is idle.
LEMMA FreeWellFormed ==
  ASSUME WellFormed, NEW w \in Workers, NEW p \in {"down", "idle"},
         TablesKept, CountersKept, WorkerMoves(w, NoTx, p, NoRun)
  PROVE  WellFormed'
<1>1. p \in WorkerPcs /\ p \notin Busy
  BY DEF Busy, WorkerPcs, Outcomes
<1>2. QED
  BY <1>1, ClosedWellFormed

\* With no transaction open, tx of a worker is NoTx.
LEMMA NoneOpen ==
  ASSUME WellFormed, NEW w \in Workers, tx[w].phase = "none"
  PROVE  tx[w] = NoTx /\ tx = [tx EXCEPT ![w] = NoTx]
BY WorkerFacts DEF TxShape

\* mark_run_running loads the row.
LEMMA ReadToStartWellFormed ==
  ASSUME WellFormed, NEW w \in Workers, ReadToStart(w)
  PROVE  WellFormed'
<1>1. /\ pc[w] = "starting" /\ pc[w] \in Busy /\ tx[w].phase = "none"
      /\ UNCHANGED <<runs, exps, held>> /\ Untouched
  BY DEF ReadToStart, Busy
<1>2. CASE /\ UNCHANGED pc
           /\ tx' = [tx EXCEPT ![w] = [@ EXCEPT !.phase = "read", !.run = held[w],
                                                !.seen = runs[held[w]]]]
  <2> DEFINE t == [tx[w] EXCEPT !.phase = "read", !.run = held[w], !.seen = runs[held[w]]]
  <2>1. t \in TxType /\ t.phase = "read" /\ t.writes = NoWrites
    <3>1. /\ held[w] \in RunIds /\ runs[held[w]] \in Row /\ tx[w] \in TxType
          /\ tx[w].writes = NoWrites
      BY <1>1, WorkerFacts DEF TxShape
    <3>2. QED
      BY <3>1 DEF TxType
  <2>2. tx' = [tx EXCEPT ![w] = t]
    BY <1>2
  <2> HIDE DEF t
  <2>3. QED
    BY <1>1, <1>2, <2>1, <2>2, ReadWellFormed DEF Outcomes, Busy
<1>3. CASE Goto(w, "releasing") /\ UNCHANGED tx
  <2>1. WorkerMoves(w, NoTx, "releasing", held[w])
    BY <1>1, <1>3, NoneOpen, WorkerFacts DEF WorkerMoves, Goto, Untouched
  <2>2. TablesKept /\ CountersKept
    BY <1>1, TablesUntouched, CountersUntouched DEF Untouched
  <2>3. QED
    BY <1>1, <2>1, <2>2, BusyWellFormed DEF Busy
<1>4. QED
  BY <1>2, <1>3 DEF ReadToStart

\* mark_run_running flushes its UPDATE.
LEMMA FlushStartWellFormed ==
  ASSUME WellFormed, NEW w \in Workers, FlushStart(w)
  PROVE  WellFormed'
<1>1. pc[w] \in Busy \ {"executing"}
  BY DEF FlushStart, Busy
<1>2. /\ StartedOver(runs[held[w]]) \in Row
      /\ StartedOver(runs[held[w]]).exp = runs[held[w]].exp
  <2>1. runs[held[w]] \in Row
    BY <1>1, WorkerFacts
  <2>2. QED
    BY <2>1, RowOperations
<1>3. QED
  BY <1>1, <1>2, FlushedWellFormed DEF FlushStart

\* The commit of _mark_run_running.
LEMMA CommitStartWellFormed ==
  ASSUME WellFormed, NEW w \in Workers, CommitStart(w)
  PROVE  WellFormed'
<1>1. pc[w] \in Busy /\ Apply(w) /\ Close(w) /\ Goto(w, "executing")
      /\ UNCHANGED held /\ Untouched
  BY DEF CommitStart, Busy
<1>2. TablesKept /\ CountersKept
  BY <1>1, WorkerFacts, ApplyEffect, CountersUntouched DEF Untouched
<1>3. WorkerMoves(w, NoTx, "executing", held[w])
  BY <1>1, WorkerFacts DEF WorkerMoves, Close, Goto, Untouched
<1>4. QED
  BY <1>1, <1>2, <1>3, BusyWellFormed DEF Busy

\* The trials, the heartbeat, the outcome and a restart.
LEMMA ExecutionWellFormed ==
  ASSUME WellFormed, NEW w \in Workers, TrialFails(w) \/ Conclude(w) \/ Heartbeat(w)
  PROVE  WellFormed'
<1>1. CASE TrialFails(w)
  <2>1. pc[w] \in Busy /\ tx[w] = NoTx
    BY <1>1, NoneOpen, WorkerFacts DEF TrialFails, Busy, TxShape
  <2>2. WorkerMoves(w, NoTx, pc[w], held[w])
    BY <1>1, <2>1, WorkerFacts DEF WorkerMoves, TrialFails
  <2>3. TablesKept
    BY <1>1, TablesUntouched DEF TrialFails
  <2>4. CountersKept
    BY <1>1, WorkerFacts DEF CountersKept, TrialFails
  <2>5. QED
    BY <2>1, <2>2, <2>3, <2>4, BusyWellFormed
<1>2. CASE Conclude(w)
  <2>1. PICK p \in Outcomes : Goto(w, p)
    BY <1>2 DEF Conclude, Outcomes
  <2>2. pc[w] \in Busy /\ p \in Busy /\ tx[w] = NoTx
    BY <1>2, NoneOpen, WorkerFacts DEF Conclude, Busy, TxShape
  <2>3. WorkerMoves(w, NoTx, p, held[w])
    BY <1>2, <2>1, <2>2, WorkerFacts DEF WorkerMoves, Conclude, Goto, Untouched
  <2>4. TablesKept /\ CountersKept
    BY <1>2, TablesUntouched, CountersUntouched DEF Conclude, Untouched
  <2>5. QED
    BY <2>2, <2>3, <2>4, BusyWellFormed
<1>3. CASE Heartbeat(w)
  <2>1. pc[w] \in Busy /\ tx[w] = NoTx
    BY <1>3, NoneOpen DEF Heartbeat, Busy
  <2>2. WorkerMoves(w, NoTx, pc[w], held[w])
    BY <1>3, <2>1, WorkerFacts DEF WorkerMoves, Heartbeat, Untouched
  <2>3. /\ Heartbeaten(runs[held[w]]) \in Row
        /\ Heartbeaten(runs[held[w]]).exp = runs[held[w]].exp
    <3>1. runs[held[w]] \in Row
      BY <2>1, WorkerFacts
    <3>2. QED
      BY <3>1, RowOperations
  <2>4. TablesKept
    BY <1>3, <2>1, <2>3, WorkerFacts DEF TablesKept, Heartbeat, Exists
  <2>5. CountersKept
    BY <1>3, CountersUntouched DEF Heartbeat, Untouched
  <2>6. QED
    BY <2>1, <2>2, <2>4, <2>5, BusyWellFormed
<1>4. QED
  BY <1>1, <1>2, <1>3

\* complete_run loads the row.
LEMMA ReadToCompleteWellFormed ==
  ASSUME WellFormed, NEW w \in Workers, ReadToComplete(w)
  PROVE  WellFormed'
<1> DEFINE end == RunStatusFor(pc[w], failedTrials[runs[held[w]].exp])
<1>1. /\ pc[w] \in Outcomes /\ pc[w] \in Busy \ {"executing"} /\ tx[w].phase = "none"
      /\ UNCHANGED <<runs, exps, held>> /\ Untouched
  BY DEF ReadToComplete, Busy, Outcomes
<1>2. CASE /\ UNCHANGED pc
           /\ tx' = [tx EXCEPT ![w] = [@ EXCEPT !.phase = "read", !.run = held[w],
                                                !.seen = runs[held[w]], !.end = end]]
  <2>1. end \in TerminalRunStatuses
    BY DEF RunStatusFor, TerminalRunStatuses
  <2>2. end # None
    BY <2>1, NoneAssumption
  <2> DEFINE t == [tx[w] EXCEPT !.phase = "read", !.run = held[w], !.seen = runs[held[w]],
                                !.end = end]
  <2>3. t \in TxType /\ t.phase = "read" /\ t.writes = NoWrites /\ t.end = end
    <3>1. /\ held[w] \in RunIds /\ runs[held[w]] \in Row /\ tx[w] \in TxType
          /\ tx[w].writes = NoWrites
      BY <1>1, WorkerFacts DEF TxShape
    <3> HIDE DEF end
    <3>2. QED
      BY <2>1, <3>1 DEF TxType
  <2>4. tx' = [tx EXCEPT ![w] = t]
    BY <1>2
  <2> HIDE DEF t, end
  <2>5. QED
    BY <1>1, <1>2, <2>2, <2>3, <2>4, ReadWellFormed
<1>3. CASE Goto(w, "releasing") /\ UNCHANGED tx
  <2>1. WorkerMoves(w, NoTx, "releasing", held[w])
    BY <1>1, <1>3, NoneOpen, WorkerFacts DEF WorkerMoves, Goto, Untouched
  <2>2. TablesKept /\ CountersKept
    BY <1>1, TablesUntouched, CountersUntouched DEF Untouched
  <2>3. QED
    BY <1>1, <2>1, <2>2, BusyWellFormed DEF Busy
<1>4. QED
  BY <1>2, <1>3 DEF ReadToComplete

\* complete_run flushes its UPDATE.
LEMMA FlushCompleteWellFormed ==
  ASSUME WellFormed, NEW w \in Workers, FlushComplete(w)
  PROVE  WellFormed'
<1>1. pc[w] \in Outcomes /\ pc[w] \in Busy \ {"executing"} /\ tx[w].phase = "read"
  BY DEF FlushComplete, Busy, Outcomes
<1>2. tx[w].seen \in Row /\ tx[w].end \in TerminalRunStatuses
  BY <1>1, WorkerFacts DEF TxType, TxShape
<1> DEFINE row == CompletedOver(runs[held[w]], tx[w].seen, tx[w].end)
<1>3. row \in Row /\ row.exp = runs[held[w]].exp
  <2>1. runs[held[w]] \in Row
    BY <1>1, WorkerFacts
  <2>2. QED
    BY <1>2, <2>1, CompletionIsRow
<1> HIDE DEF row
<1>4. FlushRow(w, held[w], row) /\ UNCHANGED <<runs, exps, pc, held>> /\ Untouched
  BY DEF FlushComplete, row
<1>5. QED
  BY <1>1, <1>3, <1>4, FlushedWellFormed

\* The commit of _complete_run.
LEMMA CommitCompleteWellFormed ==
  ASSUME WellFormed, NEW w \in Workers, CommitComplete(w)
  PROVE  WellFormed'
<1>1. Apply(w) /\ Close(w) /\ Goto(w, "idle") /\ held' = [held EXCEPT ![w] = NoRun]
      /\ Untouched
  BY DEF CommitComplete
<1>2. TablesKept /\ CountersKept
  BY <1>1, WorkerFacts, ApplyEffect, CountersUntouched DEF Untouched
<1>3. WorkerMoves(w, NoTx, "idle", NoRun)
  BY <1>1 DEF WorkerMoves, Close, Goto, Untouched
<1>4. QED
  BY <1>2, <1>3, FreeWellFormed

\* _release_lease loads the row.
LEMMA ReadToReleaseWellFormed ==
  ASSUME WellFormed, NEW w \in Workers, ReadToRelease(w)
  PROVE  WellFormed'
<1>1. /\ pc[w] = "releasing" /\ pc[w] \in Busy /\ tx[w].phase = "none"
      /\ UNCHANGED <<runs, exps>> /\ Untouched
  BY DEF ReadToRelease, Busy
<1> DEFINE t == [tx[w] EXCEPT !.phase = "read", !.run = held[w], !.seen = runs[held[w]]]
<1>2. CASE tx' = [tx EXCEPT ![w] = t] /\ UNCHANGED <<pc, held>>
  <2>1. t \in TxType /\ t.phase = "read" /\ t.writes = NoWrites
    <3>1. /\ held[w] \in RunIds /\ runs[held[w]] \in Row /\ tx[w] \in TxType
          /\ tx[w].writes = NoWrites
      BY <1>1, WorkerFacts DEF TxShape
    <3>2. QED
      BY <3>1 DEF TxType
  <2> HIDE DEF t
  <2>2. QED
    BY <1>1, <1>2, <2>1, ReadWellFormed DEF Outcomes, Busy
<1>3. CASE Down(w) /\ UNCHANGED tx
  <2>1. WorkerMoves(w, NoTx, "down", NoRun)
    BY <1>1, <1>3, NoneOpen DEF WorkerMoves, Down, Goto, Untouched
  <2>2. TablesKept /\ CountersKept
    BY <1>1, TablesUntouched, CountersUntouched DEF Untouched
  <2>3. QED
    BY <2>1, <2>2, FreeWellFormed
<1>4. QED
  BY <1>2, <1>3 DEF ReadToRelease

\* release_owned_lease flushes its UPDATE.
LEMMA FlushReleaseWellFormed ==
  ASSUME WellFormed, NEW w \in Workers, FlushRelease(w)
  PROVE  WellFormed'
<1>1. /\ pc[w] \in Busy \ {"executing"}
      /\ UNCHANGED <<runs, exps, pc, held>> /\ Untouched
  BY DEF FlushRelease, Busy
<1>2. runs[held[w]] \in Row /\ tx[w].seen \in Row
  BY <1>1, WorkerFacts DEF TxType
<1> DEFINE row == ReleasedOver(runs[held[w]], tx[w].seen)
<1>3. row \in Row /\ row.exp = runs[held[w]].exp
  BY <1>2, RowOperations
<1> HIDE DEF row
<1>4. CASE FlushRow(w, held[w], row)
  BY <1>1, <1>3, <1>4, FlushedWellFormed
<1>5. CASE Flush(w, held[w], NoWrites, runs[held[w]].exp, exps[runs[held[w]].exp])
  BY <1>1, <1>5, NothingFlushedWellFormed
<1>6. QED
  BY <1>4, <1>5 DEF FlushRelease, row

\* The commit of _release_lease, and the end of the process.
LEMMA CommitReleaseWellFormed ==
  ASSUME WellFormed, NEW w \in Workers, CommitRelease(w)
  PROVE  WellFormed'
<1>1. Apply(w) /\ Close(w) /\ Down(w) /\ Untouched
  BY DEF CommitRelease
<1>2. TablesKept /\ CountersKept
  BY <1>1, WorkerFacts, ApplyEffect, CountersUntouched DEF Untouched
<1>3. WorkerMoves(w, NoTx, "down", NoRun)
  BY <1>1 DEF WorkerMoves, Close, Down, Goto, Untouched
<1>4. QED
  BY <1>2, <1>3, FreeWellFormed

\* A stop, the loss of the database or a crash of a worker.
LEMMA FaultWellFormed ==
  ASSUME WellFormed, NEW w \in Workers, Fault(w) \/ Restart(w)
  PROVE  WellFormed'
<1> USE BoundsAssumption
<1>1. CASE Stop(w)
  <2>1. TablesKept /\ CountersKept /\ tx[w].phase = "none"
    BY <1>1, TablesUntouched, WorkerFacts DEF Stop, CountersKept
  <2>2. CASE pc[w] = "idle" /\ Down(w)
    <3>1. WorkerMoves(w, NoTx, "down", NoRun)
      BY <1>1, <2>1, <2>2, NoneOpen DEF WorkerMoves, Down, Goto, Stop
    <3>2. QED
      BY <2>1, <3>1, FreeWellFormed
  <2>3. CASE pc[w] = "executing" /\ Goto(w, "releasing") /\ UNCHANGED held
    <3>1. WorkerMoves(w, NoTx, "releasing", held[w])
      BY <1>1, <2>1, <2>3, NoneOpen, WorkerFacts DEF WorkerMoves, Goto, Stop
    <3>2. QED
      BY <2>1, <2>3, <3>1, BusyWellFormed DEF Busy
  <2>4. QED
    BY <1>1, <2>2, <2>3 DEF Stop
<1>2. CASE DatabaseFails(w)
  <2>1. CountersKept
    BY <1>2, WorkerFacts DEF DatabaseFails, CountersKept
  <2>2. TablesKept
    <3>1. CASE Discard
      BY <3>1, TablesUntouched DEF Discard
    <3>2. CASE Apply(w)
      BY <3>2, WorkerFacts, ApplyEffect
    <3>3. QED
      BY <1>2, <3>1, <3>2 DEF DatabaseFails
  <2>3. CASE pc[w] \in {"idle", "releasing"} /\ Down(w)
    <3>1. WorkerMoves(w, NoTx, "down", NoRun)
      BY <1>2, <2>3 DEF WorkerMoves, Down, Goto, Close, DatabaseFails
    <3>2. QED
      BY <2>1, <2>2, <3>1, FreeWellFormed
  <2>4. CASE pc[w] \notin {"idle", "releasing"} /\ Goto(w, "releasing") /\ UNCHANGED held
    <3>1. WorkerMoves(w, NoTx, "releasing", held[w])
      BY <1>2, <2>4, WorkerFacts DEF WorkerMoves, Goto, Close, DatabaseFails
    <3>2. pc[w] \in Busy
      BY <1>2, <2>4, WorkerFacts DEF DatabaseFails, WorkerPcs, Busy
    <3>3. QED
      BY <2>1, <2>2, <3>1, <3>2, BusyWellFormed DEF Busy
  <2>5. QED
    BY <1>2, <2>3, <2>4 DEF DatabaseFails
<1>3. CASE Crash(w)
  <2>1. TablesKept /\ CountersKept
    BY <1>3, TablesUntouched, WorkerFacts DEF Crash, Discard, CountersKept
  <2>2. WorkerMoves(w, NoTx, "down", NoRun)
    BY <1>3 DEF WorkerMoves, Down, Goto, Close, Crash
  <2>3. QED
    BY <2>1, <2>2, FreeWellFormed
<1>4. CASE Restart(w)
  <2>1. TablesKept /\ CountersKept
    BY <1>4, TablesUntouched, CountersUntouched DEF Restart, Untouched
  <2>2. WorkerMoves(w, NoTx, "idle", NoRun)
    BY <1>4, NoneOpen, WorkerFacts DEF WorkerMoves, Goto, Restart, Untouched, TxShape
  <2>3. QED
    BY <2>1, <2>2, FreeWellFormed
<1>5. QED
  BY <1>1, <1>2, <1>3, <1>4 DEF Fault

\* Time passes lease_expires_at.
LEMMA LeaseExpiresWellFormed ==
  ASSUME WellFormed, NEW r \in RunIds, LeaseExpires(r)
  PROVE  WellFormed'
<1>1. /\ runs' = [runs EXCEPT ![r] = [runs[r] EXCEPT !.lease = "expired"]]
      /\ UNCHANGED <<exps, tx, pc, held>> /\ Untouched
  BY DEF LeaseExpires
<1>2. /\ TypeOK /\ runs[r] \in Row
      /\ [runs[r] EXCEPT !.lease = "expired"] \in Row
      /\ [runs[r] EXCEPT !.lease = "expired"].exp = runs[r].exp
  <2>1. TypeOK /\ runs[r] \in Row
    BY DEF WellFormed, TypeOK
  <2>2. QED
    BY <2>1 DEF Row
<1>3. TypeOK'
  BY <1>1, <1>2 DEF TypeOK, Untouched
<1>4. \A i \in RunIds : Exists(runs[i]) => Exists(runs'[i])
  BY <1>1, <1>2 DEF TypeOK, Exists
<1>5. /\ \A q \in Requests : AskedFor(q)'
      /\ \A s \in Sessions : TxShape(s)'
      /\ WritesExist'
  BY <1>1 DEF WellFormed, AskedFor, TxShape, WritesExist, Untouched
<1>6. ASSUME NEW w \in Workers PROVE HasRun(w)'
  <2>1. HasRun(w) /\ held[w] \in RunIds \cup {NoRun}
    BY <1>2 DEF WellFormed, TypeOK
  <2>2. QED
    BY <1>1, <1>4, <2>1 DEF HasRun
<1>7. QED
  BY <1>3, <1>5, <1>6 DEF WellFormed

\* What WellFormed says of one request.
LEMMA RequestFacts ==
  ASSUME WellFormed, NEW q \in Requests
  PROVE  /\ q \in Sessions /\ tx[q] \in TxType /\ tx[q].writes \in Writes
         /\ req[q] \in RequestType /\ AskedFor(q) /\ TxShape(q)
         /\ runs \in [RunIds -> Row] /\ exps \in [Exps -> ExperimentStatuses]
         /\ tx \in [Sessions -> TxType]
         /\ \A r \in RunIds : tx[q].writes[r] # None => Exists(tx[q].writes[r])
         /\ tx = [tx EXCEPT ![q] = tx[q]] /\ req = [req EXCEPT ![q] = req[q]]
BY DEF WellFormed, TypeOK, Sessions, TxType, Writes, WritesExist

\* A reply keeps what the request asked for.
LEMMA ReplyEffect ==
  ASSUME WellFormed, NEW q \in Requests, NEW r \in RunIds \cup {NoRun},
         NEW what \in Replies, Reply(q, r, what)
  PROVE  \E a \in RequestType :
           /\ req' = [req EXCEPT ![q] = a]
           /\ a.op = req[q].op /\ a.exp = req[q].exp /\ a.key = req[q].key
           /\ a.fp = req[q].fp /\ a.expSeen = req[q].expSeen
<1> DEFINE a == [req[q] EXCEPT !.run = r, !.reply = what]
<1>1. req[q] \in RequestType /\ req = [req EXCEPT ![q] = req[q]]
  BY RequestFacts
<1>2. /\ a \in RequestType
      /\ a.op = req[q].op /\ a.exp = req[q].exp /\ a.key = req[q].key
      /\ a.fp = req[q].fp /\ a.expSeen = req[q].expSeen
  BY <1>1 DEF RequestType
<1>3. req' = [req EXCEPT ![q] = a]
  BY <1>1 DEF Reply, WellFormed, TypeOK
<1>4. QED
  BY <1>2, <1>3

\* A request whose transaction is closed, or stays as it is, and that only replies.
LEMMA RepliedWellFormed ==
  ASSUME WellFormed, NEW q \in Requests, NEW a \in RequestType,
         req' = [req EXCEPT ![q] = a],
         a.op = req[q].op, a.exp = req[q].exp, a.key = req[q].key,
         a.fp = req[q].fp, a.expSeen = req[q].expSeen,
         TablesKept, Close(q) \/ UNCHANGED tx,
         UNCHANGED <<failedTrials, pc, held, crashes, stops>>
  PROVE  WellFormed'
<1>1. /\ AskedFor(q) /\ TxShape(q) /\ tx[q] \in TxType
      /\ \A r \in RunIds : tx[q].writes[r] # None => Exists(tx[q].writes[r])
  BY RequestFacts
<1>2. a.op = "start" => /\ a.exp \in Exps /\ a.key \in Keys /\ a.fp \in Fingerprints
                        /\ a.expSeen \in ExperimentStatuses
  BY <1>1 DEF AskedFor
<1>3. CASE Close(q)
  <2>1. tx' = [tx EXCEPT ![q] = NoTx]
    BY <1>3 DEF Close
  <2>2. QED
    BY <1>2, <2>1, NoTxIsTx, RequestKeepsWellFormed
<1>4. CASE UNCHANGED tx
  <2>1. tx' = [tx EXCEPT ![q] = tx[q]]
    BY <1>4, RequestFacts
  <2>2. QED
    BY <1>1, <1>2, <2>1, RequestKeepsWellFormed DEF TxShape
<1>5. QED
  BY <1>3, <1>4

\* start_run loads the experiment and looks the key up.
LEMMA ReadToQueueWellFormed ==
  ASSUME WellFormed, NEW q \in Requests, NEW e \in Exps, NEW k \in Keys,
         NEW f \in Fingerprints, ReadToQueue(q, e, k, f)
  PROVE  WellFormed'
<1> DEFINE same == {r \in RunIds : runs[r].exp = e /\ runs[r].key = k}
           asked == [NoRequest EXCEPT !.op = "start", !.exp = e, !.key = k, !.fp = f,
                                      !.expSeen = exps[e]]
           found == IF same = {} THEN NoRun ELSE CHOOSE r \in same : TRUE
           t == [tx[q] EXCEPT !.phase = "read", !.exp = e, !.run = found]
<1>1. found \in RunIds \cup {NoRun}
  OBVIOUS
<1>2. /\ asked \in RequestType /\ asked.op = "start" /\ asked.exp = e /\ asked.key = k
      /\ asked.fp = f /\ asked.expSeen = exps[e] /\ exps[e] \in ExperimentStatuses
  <2>1. exps[e] \in ExperimentStatuses
    BY RequestFacts
  <2>2. QED
    BY <2>1 DEF NoRequest, RequestType, Replies
<1>3. ASSUME NEW reply \in {"refused", "conflict"}
      PROVE  LET a == [asked EXCEPT !.reply = reply]
             IN  /\ a \in RequestType /\ a.op = "start" /\ a.exp = e /\ a.key = k
                 /\ a.fp = f /\ a.expSeen = exps[e]
  <2> HIDE DEF asked
  <2>1. QED
    BY <1>2 DEF RequestType, Replies
<1>4. /\ tx[q].phase = "none" /\ tx[q].writes = NoWrites /\ tx[q] \in TxType
  BY RequestFacts DEF ReadToQueue, TxShape
<1>5. t \in TxType /\ t.phase = "read" /\ t.writes = NoWrites
  <2> HIDE DEF found
  <2>1. QED
    BY <1>1, <1>4 DEF TxType
<1>6. TablesKept /\ UNCHANGED <<failedTrials, pc, held, crashes, stops>>
  BY TablesUntouched DEF ReadToQueue
<1>7. \A r \in RunIds : NoWrites[r] = None
  BY NoTxIsTx
<1>8. ASSUME NEW reply \in {"refused", "conflict"}, UNCHANGED tx,
             req' = [req EXCEPT ![q] = [asked EXCEPT !.reply = reply]]
      PROVE  WellFormed'
  <2> DEFINE a == [asked EXCEPT !.reply = reply]
  <2>1. /\ a \in RequestType /\ a.op = "start" /\ a.exp = e /\ a.key = k
        /\ a.fp = f /\ a.expSeen = exps[e]
    BY <1>3
  <2>2. req' = [req EXCEPT ![q] = a] /\ tx' = [tx EXCEPT ![q] = tx[q]]
    BY <1>8, RequestFacts
  <2>3. tx[q].phase = "none" => tx[q] = NoTx
    BY RequestFacts DEF TxShape
  <2> HIDE DEF a, asked, t
  <2>4. QED
    BY <1>2, <1>4, <1>6, <1>7, <2>1, <2>2, <2>3, RequestKeepsWellFormed
<1>9. CASE req' = [req EXCEPT ![q] = asked] /\ tx' = [tx EXCEPT ![q] = t]
  <2> HIDE DEF asked, t
  <2>1. QED
    BY <1>2, <1>5, <1>6, <1>7, <1>9, RequestKeepsWellFormed
<1>10. \/ req' = [req EXCEPT ![q] = [asked EXCEPT !.reply = "refused"]] /\ UNCHANGED tx
       \/ req' = [req EXCEPT ![q] = [asked EXCEPT !.reply = "conflict"]] /\ UNCHANGED tx
       \/ req' = [req EXCEPT ![q] = asked] /\ tx' = [tx EXCEPT ![q] = t]
  BY DEF ReadToQueue
<1>11. QED
  BY <1>8, <1>9, <1>10

\* A request flushes the writes ws and goes on.
LEMMA RequestFlushWellFormed ==
  ASSUME WellFormed, NEW q \in Requests, NEW a \in RequestType,
         NEW r \in RunIds \cup {NoRun}, NEW ws \in Writes,
         \A i \in RunIds : ws[i] # None => Exists(ws[i]),
         NEW e \in Exps \cup {None}, NEW current \in ExperimentStatuses, Flush(q, r, ws, e, current),
         req' = [req EXCEPT ![q] = a], a.op # "none",
         a.op = "start" => /\ a.exp \in Exps /\ a.key \in Keys /\ a.fp \in Fingerprints
                           /\ a.expSeen \in ExperimentStatuses,
         UNCHANGED <<runs, exps, failedTrials, pc, held, crashes, stops>>
  PROVE  WellFormed'
<1>1. q \in Sessions /\ tx \in [Sessions -> TxType]
  BY RequestFacts
<1>2. PICK t \in TxType :
        /\ tx' = [tx EXCEPT ![q] = t]
        /\ t.phase = "flushed" /\ t.run = r /\ t.writes = ws
  <2>1. \E t \in TxType :
          /\ tx' = [tx EXCEPT ![q] = t]
          /\ t.phase = "flushed" /\ t.run = r /\ t.writes = ws
          /\ t.seen = tx[q].seen /\ t.end = tx[q].end
    BY <1>1, FlushEffect
  <2>2. QED
    BY <2>1
<1>3. TablesKept
  BY TablesUntouched
<1>4. QED
  BY <1>2, <1>3, RequestKeepsWellFormed

\* start_run finds the key and syncs the experiment.
LEMMA FlushExistingWellFormed ==
  ASSUME WellFormed, NEW q \in Requests, FlushExisting(q)
  PROVE  WellFormed'
<1> DEFINE r == tx[q].run
           e == tx[q].exp
           ws == NoWrites
           current == req[q].expSeen
<1>1. /\ req[q].op = "start" /\ r \in RunIds \cup {NoRun} /\ e \in Exps \cup {None}
      /\ req[q] \in RequestType /\ AskedFor(q)
      /\ req = [req EXCEPT ![q] = req[q]]
  BY RequestFacts DEF FlushExisting, TxType
<1>2. /\ ws \in Writes /\ \A i \in RunIds : ws[i] # None => Exists(ws[i])
  BY NoTxIsTx
<1>3. Flush(q, r, ws, e, current)
  BY DEF FlushExisting
<1>4. /\ UNCHANGED <<runs, exps, failedTrials, req, pc, held, crashes, stops>>
      /\ req' = [req EXCEPT ![q] = req[q]]
  BY <1>1 DEF FlushExisting, Untouched
<1>5. /\ req[q].exp \in Exps /\ req[q].key \in Keys /\ req[q].fp \in Fingerprints
      /\ current \in ExperimentStatuses
  BY <1>1 DEF AskedFor
<1> HIDE DEF r, e, ws, current
<1>6. QED
  BY <1>1, <1>2, <1>3, <1>4, <1>5, RequestFlushWellFormed DEF current

\* create_queued_run inserts the row.
LEMMA FlushNewWellFormed ==
  ASSUME WellFormed, NEW q \in Requests, FlushNew(q)
  PROVE  WellFormed'
<1> DEFINE row == QueuedRow(req[q].exp, req[q].key, req[q].fp)
<1>1. PICK r \in RunIds : Flush(q, r, [NoWrites EXCEPT ![r] = row], req[q].exp, req[q].expSeen)
  BY DEF FlushNew
<1>2. /\ req[q].op = "start" /\ req[q] \in RequestType /\ req = [req EXCEPT ![q] = req[q]]
      /\ req[q].exp \in Exps /\ req[q].key \in Keys /\ req[q].fp \in Fingerprints
      /\ req[q].expSeen \in ExperimentStatuses
  BY RequestFacts DEF FlushNew, AskedFor
<1>3. row \in Row /\ row.exp = req[q].exp
  BY <1>2, NewRowIsRow
<1> DEFINE ws == [NoWrites EXCEPT ![r] = row]
<1>4. ws \in Writes /\ \A i \in RunIds : ws[i] # None => Exists(ws[i])
  <2> HIDE DEF row
  <2>1. QED
    BY <1>2, <1>3, NoneAssumption DEF Writes, NoWrites, Exists
<1>5. UNCHANGED <<runs, exps, failedTrials, req, pc, held, crashes, stops>>
  BY DEF FlushNew, Untouched
<1> HIDE DEF ws
<1>6. r \in RunIds \cup {NoRun} /\ Flush(q, r, ws, req[q].exp, req[q].expSeen)
  BY <1>1 DEF ws
<1>7. QED
  BY <1>2, <1>4, <1>5, <1>6, RequestFlushWellFormed

\* request_run_cancellation.
LEMMA FlushCancelWellFormed ==
  ASSUME WellFormed, NEW q \in Requests, NEW r \in RunIds, FlushCancel(q, r)
  PROVE  WellFormed'
<1>1. /\ runs[r] \in Row /\ runs[r].exp \in Exps /\ exps[runs[r].exp] \in ExperimentStatuses
      /\ req[q] \in RequestType /\ req[q].op = "none" /\ tx[q] \in TxType
  <2>1. runs[r] \in Row /\ Exists(runs[r])
    BY RequestFacts DEF FlushCancel
  <2>2. runs[r].exp \in Exps
    BY <2>1 DEF Exists, Row
  <2>3. QED
    BY <2>1, <2>2, RequestFacts DEF FlushCancel
<1>2. UNCHANGED <<runs, exps, failedTrials, pc, held, crashes, stops>> /\ TablesKept
  BY TablesUntouched DEF FlushCancel
<1>3. CASE /\ req' = [req EXCEPT ![q] = [@ EXCEPT !.op = "cancel", !.run = r,
                                                   !.reply = "terminal"]]
           /\ UNCHANGED tx
  <2> DEFINE a == [req[q] EXCEPT !.op = "cancel", !.run = r, !.reply = "terminal"]
  <2>1. a \in RequestType /\ a.op = "cancel"
    BY <1>1 DEF RequestType, Replies
  <2>2. req' = [req EXCEPT ![q] = a] /\ tx' = [tx EXCEPT ![q] = tx[q]]
    BY <1>3, RequestFacts
  <2>3. /\ tx[q].phase = "none" => tx[q] = NoTx
        /\ tx[q].phase # "flushed" => tx[q].writes = NoWrites
        /\ \A i \in RunIds : tx[q].writes[i] # None => Exists(tx[q].writes[i])
    BY RequestFacts DEF TxShape
  <2> HIDE DEF a
  <2>4. QED
    BY <1>1, <1>2, <2>1, <2>2, <2>3, RequestKeepsWellFormed
<1>4. CASE /\ req' = [req EXCEPT ![q] = [@ EXCEPT !.op = "cancel", !.run = r]]
           /\ FlushRow(q, r, CancelRequested(runs[r]))
  <2> DEFINE a == [req[q] EXCEPT !.op = "cancel", !.run = r]
             row == CancelRequested(runs[r])
             ws == [NoWrites EXCEPT ![r] = row]
  <2>1. a \in RequestType /\ a.op = "cancel" /\ req' = [req EXCEPT ![q] = a]
    BY <1>1, <1>4 DEF RequestType
  <2>2. row \in Row /\ row.exp = runs[r].exp
    BY <1>1, CancelIsRow
  <2>3. Flush(q, r, ws, row.exp, exps[row.exp])
    BY <1>4 DEF FlushRow
  <2> HIDE DEF a, row
  <2>4. ws \in Writes /\ \A i \in RunIds : ws[i] # None => Exists(ws[i])
    BY <1>1, <2>2, NoneAssumption DEF Writes, NoWrites, Exists
  <2> HIDE DEF ws
  <2>5. QED
    BY <1>1, <1>2, <2>1, <2>2, <2>3, <2>4, RequestFlushWellFormed
<1>5. QED
  BY <1>3, <1>4 DEF FlushCancel

\* A request is answered, committed or fails.
LEMMA RequestEndWellFormed ==
  ASSUME WellFormed, NEW q \in Requests,
         InsertFails(q) \/ Respond(q) \/ CommitRequest(q) \/ RequestFails(q)
  PROVE  WellFormed'
<1>1. /\ UNCHANGED <<failedTrials, pc, held, crashes, stops>>
      /\ Close(q) \/ UNCHANGED tx
  BY DEF InsertFails, Respond, CommitRequest, RequestFails
<1>2. TablesKept
  <2>1. CASE UNCHANGED <<runs, exps>>
    BY <2>1, TablesUntouched
  <2>2. CASE Apply(q)
    BY <2>2, RequestFacts, ApplyEffect
  <2>3. QED
    BY <2>1, <2>2 DEF InsertFails, Respond, CommitRequest, RequestFails, Discard
<1>3. \/ UNCHANGED req
      \/ \E r \in RunIds \cup {NoRun}, what \in Replies : Reply(q, r, what)
  <2>1. tx[q].run \in RunIds \cup {NoRun}
    BY RequestFacts DEF TxType
  <2>2. QED
    BY <2>1 DEF InsertFails, Respond, CommitRequest, RequestFails, Replies
<1>4. CASE UNCHANGED req
  <2>1. req[q] \in RequestType /\ req' = [req EXCEPT ![q] = req[q]]
    BY <1>4, RequestFacts
  <2>2. QED
    BY <1>1, <1>2, <2>1, RepliedWellFormed
<1>5. CASE \E r \in RunIds \cup {NoRun}, what \in Replies : Reply(q, r, what)
  <2>1. PICK a \in RequestType :
          /\ req' = [req EXCEPT ![q] = a]
          /\ a.op = req[q].op /\ a.exp = req[q].exp /\ a.key = req[q].key
          /\ a.fp = req[q].fp /\ a.expSeen = req[q].expSeen
    BY <1>5, ReplyEffect
  <2>2. QED
    BY <1>1, <1>2, <2>1, RepliedWellFormed
<1>6. QED
  BY <1>3, <1>4, <1>5

-----------------------------------------------------------------------------

\* The empty tables and idle workers are well formed.
LEMMA InitWellFormed == Init => WellFormed
<1> SUFFICES ASSUME Init PROVE WellFormed
  OBVIOUS
<1> USE DEF Init
<1>1. TypeOK
  <2>1. NoRow \in Row /\ NoTx \in TxType /\ NoRequest \in RequestType
    BY NewRowIsRow, NoTxIsTx DEF NoRequest, RequestType, NoRun, Replies
  <2>2. 0 \in 0..MaxCrashes /\ 0 \in 0..MaxStops
    BY BoundsAssumption
  <2>3. QED
    BY <2>1, <2>2 DEF TypeOK, ExperimentStatuses, WorkerPcs, NoRun
<1>2. \A q \in Requests : AskedFor(q)
  BY DEF AskedFor, NoRequest
<1>3. \A s \in Sessions : TxShape(s)
  BY NoTxIsTx DEF TxShape
<1>4. WritesExist
  BY NoTxIsTx DEF WritesExist
<1>5. \A w \in Workers : HasRun(w)
  BY NoTxIsTx DEF HasRun, Busy, Outcomes, Sessions
<1>6. QED
  BY <1>1, <1>2, <1>3, <1>4, <1>5 DEF WellFormed

\* Every step of the system keeps WellFormed.
LEMMA NextWellFormed == WellFormed /\ [Next]_vars => WellFormed'
<1> SUFFICES ASSUME WellFormed, [Next]_vars PROVE WellFormed'
  OBVIOUS
<1>1. ASSUME NEW w \in Workers, Progress(w) PROVE WellFormed'
  BY <1>1, ClaimOldestWellFormed, ClaimNothingWellFormed, CommitClaimWellFormed,
     ReadToStartWellFormed, FlushStartWellFormed, CommitStartWellFormed,
     ExecutionWellFormed, ReadToCompleteWellFormed, FlushCompleteWellFormed,
     CommitCompleteWellFormed, ReadToReleaseWellFormed, FlushReleaseWellFormed,
     CommitReleaseWellFormed DEF Progress
<1>2. ASSUME NEW w \in Workers, WorkerNext(w) PROVE WellFormed'
  BY <1>1, <1>2, ExecutionWellFormed, FaultWellFormed DEF WorkerNext
<1>3. ASSUME NEW q \in Requests, RequestNext(q) PROVE WellFormed'
  BY <1>3, ReadToQueueWellFormed, FlushExistingWellFormed, FlushNewWellFormed,
     FlushCancelWellFormed, RequestEndWellFormed DEF RequestNext, Answer
<1>4. ASSUME NEW r \in RunIds, LeaseExpires(r) PROVE WellFormed'
  BY <1>4, LeaseExpiresWellFormed
<1>5. CASE UNCHANGED vars
  BY <1>5 DEF vars, WellFormed, TypeOK, AskedFor, TxShape, WritesExist, HasRun
<1>6. QED
  BY <1>2, <1>3, <1>4, <1>5 DEF Next

\* In every run of the system every variable keeps its type, however workers
\* stall, crash and restart and however requests interleave (runs.py, worker.py).
THEOREM TypeCorrect == Spec => []TypeOK
<1>1. WellFormed => TypeOK
  BY DEF WellFormed
<1>2. QED
  BY <1>1, InitWellFormed, NextWellFormed, PTL DEF Spec

-----------------------------------------------------------------------------
(* Leases.                                                                 *)

\* LeaseColumns of one row.
Columns(row) ==
  /\ row.status \in HeartbeatStatuses <=> row.owner # None
  /\ row.owner # None <=> row.lease # "null"

Owned(row, w) == MayHeartbeat(row, w) /\ row.lease = "live"

\* CompletedOver of a row that was loaded with an owner and an expiry.
Completed(row, end) == [row EXCEPT !.status = end, !.owner = None, !.lease = "null"]

-----------------------------------------------------------------------------
(* What the operations of runs.py do to the columns of a row.              *)

\* The statuses are of three disjoint kinds.
LEMMA StatusKinds ==
  ASSUME NEW row \in Row
  PROVE  /\ row.status \in HeartbeatStatuses \/ row.status = "queued" \/ Terminal(row)
         /\ row.status \in HeartbeatStatuses => row.status # "queued" /\ ~Terminal(row)
         /\ row.status = "queued" => ~Terminal(row)
         /\ row.status \in LeasedStatuses => row.status \in HeartbeatStatuses
BY DEF Row, RunStatuses, HeartbeatStatuses, TerminalRunStatuses, LeasedStatuses, Terminal

\* requeue_expired_leases.
LEMMA RequeuedRow ==
  ASSUME NEW row \in Row
  PROVE  LET new == Requeued(row)
         IN  /\ new \in Row /\ new.owner = None /\ new.lease = "null"
             /\ new.attempt = row.attempt /\ Ids(new) = Ids(row)
             /\ new.status = IF row.attempt < MaxAttempts THEN "queued" ELSE "failed"
             /\ Columns(new) /\ new.status \notin HeartbeatStatuses
<1> DEFINE new == Requeued(row)
<1>1. /\ new \in Row /\ new.owner = None /\ new.lease = "null"
      /\ new.attempt = row.attempt /\ Ids(new) = Ids(row)
      /\ new.status = IF row.attempt < MaxAttempts THEN "queued" ELSE "failed"
  BY DEF Requeued, Row, Ids, RunStatuses, TerminalRunStatuses
<1> HIDE DEF new
<1>2. Columns(new) /\ new.status \notin HeartbeatStatuses
  BY <1>1 DEF Columns, HeartbeatStatuses
<1>3. QED
  BY <1>1, <1>2 DEF new

\* claim_next_run.
LEMMA ClaimedRow ==
  ASSUME NEW row \in Row, NEW w \in Workers
  PROVE  LET new == ClaimedBy(row, w)
         IN  /\ new \in Row /\ new.owner = w /\ new.lease = "live" /\ new.status = "claimed"
             /\ new.attempt = row.attempt + 1 /\ Ids(new) = Ids(row)
             /\ Columns(new) /\ new.status \in HeartbeatStatuses
<1> DEFINE new == ClaimedBy(row, w)
<1>1. /\ new.owner = w /\ new.lease = "live" /\ new.status = "claimed"
      /\ new.attempt = row.attempt + 1 /\ Ids(new) = Ids(row)
  BY DEF ClaimedBy, Row, Ids
<1>2. new \in Row
  BY RowOperations
<1> HIDE DEF new
<1>3. Columns(new) /\ new.status \in HeartbeatStatuses
  BY <1>1, NoneAssumption DEF Columns, HeartbeatStatuses
<1>4. QED
  BY <1>1, <1>2, <1>3 DEF new

\* mark_run_running keeps the lease.
LEMMA StartedRow ==
  ASSUME NEW row \in Row
  PROVE  LET new == StartedOver(row)
         IN  /\ new \in Row /\ new.owner = row.owner /\ new.lease = row.lease
             /\ new.status = "running" /\ new.status \in HeartbeatStatuses
             /\ new.attempt = row.attempt /\ Ids(new) = Ids(row)
BY DEF StartedOver, Row, Ids, HeartbeatStatuses, RunStatuses

\* complete_run, when what it loaded had an owner and an expiry.
LEMMA CompletedRow ==
  ASSUME NEW row \in Row, NEW end \in TerminalRunStatuses
  PROVE  LET new == Completed(row, end)
         IN  /\ new \in Row /\ new.owner = None /\ new.lease = "null" /\ new.status = end
             /\ new.attempt = row.attempt /\ Ids(new) = Ids(row)
             /\ Columns(new) /\ Terminal(new)
<1> DEFINE new == Completed(row, end)
<1>1. /\ new \in Row /\ new.owner = None /\ new.lease = "null" /\ new.status = end
      /\ new.attempt = row.attempt /\ Ids(new) = Ids(row)
  BY DEF Completed, Row, RunStatuses, Ids
<1> HIDE DEF new
<1>2. Columns(new) /\ Terminal(new)
  BY <1>1 DEF Columns, Terminal, HeartbeatStatuses, TerminalRunStatuses
<1>3. QED
  BY <1>1, <1>2 DEF new

\* release_owned_lease.
LEMMA ReleasedRow ==
  ASSUME NEW row \in Row, NEW seen \in Row
  PROVE  LET new == ReleasedOver(row, seen)
         IN  /\ new \in Row /\ new.owner = None /\ new.lease = "null"
             /\ new.status = IF seen.status = "cancelling" THEN "cancelled" ELSE "queued"
             /\ new.attempt = row.attempt /\ Ids(new) = Ids(row)
             /\ Columns(new) /\ new.status \notin HeartbeatStatuses
<1> DEFINE new == ReleasedOver(row, seen)
<1>1. /\ new \in Row /\ new.owner = None /\ new.lease = "null"
      /\ new.status = IF seen.status = "cancelling" THEN "cancelled" ELSE "queued"
      /\ new.attempt = row.attempt /\ Ids(new) = Ids(row)
  <2>1. CASE seen.status = "cancelling"
    BY <2>1 DEF ReleasedOver, Row, Ids, RunStatuses, TerminalRunStatuses
  <2>2. CASE seen.status # "cancelling"
    BY <2>2 DEF ReleasedOver, Row, Ids, RunStatuses, TerminalRunStatuses
  <2>3. QED
    BY <2>1, <2>2
<1> HIDE DEF new
<1>2. Columns(new) /\ new.status \notin HeartbeatStatuses
  BY <1>1 DEF Columns, HeartbeatStatuses
<1>3. QED
  BY <1>1, <1>2 DEF new

\* request_run_cancellation: a leased row keeps its lease, any other ends.
LEMMA CancelledRow ==
  ASSUME NEW row \in Row, ~Terminal(row), Columns(row)
  PROVE  LET new == CancelRequested(row)
         IN  /\ new \in Row /\ new.attempt = row.attempt /\ Ids(new) = Ids(row)
             /\ Columns(new)
             /\ \/ /\ row.status = "queued" /\ new.status = "cancelled"
                   /\ new.owner = None /\ new.lease = "null"
                \/ /\ row.status \in HeartbeatStatuses /\ new.status = "cancelling"
                   /\ new.owner = row.owner /\ new.lease = row.lease
<1> DEFINE new == CancelRequested(row)
<1>1. /\ new \in Row /\ new.attempt = row.attempt /\ Ids(new) = Ids(row)
  BY CancelIsRow DEF CancelRequested, Row, Ids
<1>2. \/ row.status = "queued" \/ row.status \in LeasedStatuses \/ row.status = "cancelling"
  BY StatusKinds DEF HeartbeatStatuses, LeasedStatuses
<1>3. CASE row.status = "queued"
  <2>1. new.status = "cancelled" /\ new.owner = None /\ new.lease = "null"
    BY <1>3 DEF CancelRequested, Row, LeasedStatuses
  <2> HIDE DEF new
  <2>2. Columns(new)
    BY <2>1 DEF Columns, HeartbeatStatuses
  <2>3. QED
    BY <1>1, <1>3, <2>1, <2>2 DEF new
<1>4. CASE row.status \in LeasedStatuses
  <2>1. new.status = "cancelling" /\ new.owner = row.owner /\ new.lease = row.lease
    BY <1>4 DEF CancelRequested, Row, LeasedStatuses
  <2>2. row.status \in HeartbeatStatuses
    BY <1>4 DEF LeasedStatuses, HeartbeatStatuses
  <2> HIDE DEF new
  <2>3. Columns(new)
    BY <2>1, <2>2 DEF Columns, HeartbeatStatuses
  <2>4. QED
    BY <1>1, <2>1, <2>2, <2>3 DEF new
<1>5. CASE row.status = "cancelling"
  <2>1. new = row
    BY <1>5 DEF CancelRequested, LeasedStatuses
  <2>2. QED
    BY <1>1, <1>5, <2>1 DEF HeartbeatStatuses
<1>6. QED
  BY <1>2, <1>3, <1>4, <1>5

\* create_queued_run.
LEMMA InsertedRow ==
  ASSUME NEW e \in Exps, NEW k \in Keys, NEW f \in Fingerprints
  PROVE  LET new == QueuedRow(e, k, f)
         IN  /\ new \in Row /\ new.owner = None /\ new.lease = "null"
             /\ new.status = "queued" /\ new.attempt = 0 /\ Ids(new) = <<e, k, f>>
             /\ Exists(new) /\ Columns(new)
<1> DEFINE new == QueuedRow(e, k, f)
<1>1. /\ new \in Row /\ new.owner = None /\ new.lease = "null"
      /\ new.status = "queued" /\ new.attempt = 0 /\ Ids(new) = <<e, k, f>>
      /\ new.exp = e
  BY NewRowIsRow DEF QueuedRow, NoRow, Ids
<1> HIDE DEF new
<1>2. Exists(new) /\ Columns(new)
  BY <1>1, NoneAssumption DEF Exists, Columns, HeartbeatStatuses
<1>3. QED
  BY <1>1, <1>2 DEF new

\* heartbeat_run leaves a live lease as it is.
LEMMA HeartbeatOfLive ==
  ASSUME NEW row \in Row, row.lease = "live"
  PROVE  Heartbeaten(row) = row
BY DEF Heartbeaten, Row

-----------------------------------------------------------------------------
(* What IInv says of a worker and its run, and of a flushed row.           *)

Leased == WellFormed /\ Inductive

\* A worker that has a run owns it under a live lease, unless it completed the run
\* without learning that it had; nobody can claim or reclaim that run.
LEMMA HolderFacts ==
  ASSUME Leased, NEW w \in Workers, held[w] # NoRun
  PROVE  LET row == runs[held[w]]
         IN  /\ held[w] \in RunIds /\ row \in Row /\ Exists(row)
             /\ pc[w] \in Busy
             /\ \/ Owned(row, w)
                \/ pc[w] = "releasing" /\ tx[w].phase = "none" /\ Terminal(row)
             /\ row.status # "queued" /\ ~Reclaimable(row)
<1>1. pc[w] \in Busy
  BY WorkerFacts DEF Leased, Busy, WorkerPcs
<1>2. held[w] \in RunIds /\ runs[held[w]] \in Row /\ Exists(runs[held[w]])
  BY <1>1, WorkerFacts DEF Leased
<1>3. \/ Owned(runs[held[w]], w)
      \/ pc[w] = "releasing" /\ tx[w].phase = "none" /\ Terminal(runs[held[w]])
  BY DEF Leased, Inductive, Holds, Owned
<1>4. runs[held[w]].status # "queued" /\ ~Reclaimable(runs[held[w]])
  BY <1>2, <1>3, StatusKinds DEF Owned, MayHeartbeat, Reclaimable
<1>5. QED
  BY <1>1, <1>2, <1>3, <1>4

\* A worker at work on its run, or with its row loaded, owns it.
LEMMA WorkingOwns ==
  ASSUME Leased, NEW w \in Workers, pc[w] \in Busy,
         pc[w] # "releasing" \/ tx[w].phase # "none"
  PROVE  LET row == runs[held[w]]
         IN  /\ held[w] \in RunIds /\ held[w] # NoRun /\ row \in Row
             /\ Owned(row, w) /\ Columns(row)
             /\ Exists(row) /\ row.status \in HeartbeatStatuses /\ ~Terminal(row)
             /\ row.owner = w /\ row.owner # None /\ row.lease = "live"
<1>1. held[w] # NoRun /\ held[w] \in RunIds
  BY WorkerFacts DEF Leased, HasRun
<1>2. Owned(runs[held[w]], w) /\ runs[held[w]] \in Row
  BY <1>1, HolderFacts
<1>3. Columns(runs[held[w]])
  BY <1>1 DEF Leased, Inductive, LeaseColumns, Columns
<1>4. ~Terminal(runs[held[w]])
  BY <1>2, StatusKinds DEF Owned, MayHeartbeat
<1>5. QED
  BY <1>1, <1>2, <1>3, <1>4, NoneAssumption DEF Owned, MayHeartbeat

\* What a worker has flushed, by what it is doing (runs.py).
LEMMA WorkerWriteCases ==
  ASSUME Leased, NEW w \in Workers, NEW r \in RunIds, tx[w].writes[r] # None
  PROVE  LET row == runs[r]  new == tx[w].writes[r]
         IN  \/ /\ pc[w] = "idle" /\ r # tx[w].run
                /\ Reclaimable(row) /\ new = Requeued(row)
             \/ /\ pc[w] = "idle" /\ r = tx[w].run /\ row.status = "queued" /\ Exists(row)
                /\ new = ClaimedBy(row, w)
             \/ /\ pc[w] = "idle" /\ r = tx[w].run
                /\ Reclaimable(row) /\ row.attempt < MaxAttempts
                /\ new = ClaimedBy(Requeued(row), w)
             \/ pc[w] = "starting" /\ r = held[w] /\ new = StartedOver(row)
             \/ /\ pc[w] \in Outcomes /\ r = held[w] /\ tx[w].end \in TerminalRunStatuses
                /\ new = Completed(row, tx[w].end)
             \/ pc[w] = "releasing" /\ r = held[w] /\ new = ReleasedOver(row, tx[w].seen)
<1>1. WorkerWrite(w, r)
  BY DEF Leased, Inductive, WritesApply
<1>2. tx[w].end \in TerminalRunStatuses \cup {None}
  BY WorkerFacts DEF Leased, TxType
<1>3. QED
  BY <1>1, <1>2 DEF WorkerWrite, ClaimWrite, Completed

\* Only flushed transactions have writes.
LEMMA WritesAreFlushed ==
  ASSUME WellFormed, NEW s \in Sessions, NEW r \in RunIds, tx[s].writes[r] # None
  PROVE  tx[s].phase = "flushed"
BY NoTxIsTx DEF WellFormed, TxShape

\* The flushed row keeps its columns consistent and replaces a row that has not ended
\* and that no other worker has.
LEMMA WorkerWriteFacts ==
  ASSUME Leased, NEW w \in Workers, NEW r \in RunIds, tx[w].writes[r] # None
  PROVE  LET row == runs[r]  new == tx[w].writes[r]
         IN  /\ row \in Row /\ new \in Row /\ Exists(row) /\ Exists(new)
             /\ Columns(new) /\ Columns(row) /\ ~Terminal(row) /\ Ids(new) = Ids(row)
             /\ \A v \in Workers \ {w} : held[v] # r
<1> DEFINE row == runs[r]
           new == tx[w].writes[r]
<1>1. row \in Row /\ Exists(new) /\ tx[w].phase = "flushed" /\ w \in Sessions /\ r # NoRun
  <2>1. row \in Row /\ Exists(new) /\ w \in Sessions
    BY WorkerFacts DEF Leased
  <2>2. QED
    BY <2>1, WritesAreFlushed DEF Leased, NoRun, RunIds
<1>2. Columns(row)
  BY DEF Leased, Inductive, LeaseColumns, Columns
<1>3. tx[w].seen \in Row
  BY WorkerFacts DEF Leased, TxType
<1>4. ASSUME pc[w] = "idle", Reclaimable(row), new = Requeued(row) \/ new = ClaimedBy(Requeued(row), w)
      PROVE  /\ new \in Row /\ Columns(new) /\ ~Terminal(row) /\ Ids(new) = Ids(row)
             /\ \A v \in Workers \ {w} : held[v] # r
  <2>1. ~Terminal(row)
    BY <1>1, <1>4, StatusKinds DEF Reclaimable
  <2>2. ASSUME NEW v \in Workers, held[v] = r PROVE FALSE
    BY <1>1, <1>4, <2>2, HolderFacts
  <2>3. Requeued(row) \in Row /\ Columns(Requeued(row)) /\ Ids(Requeued(row)) = Ids(row)
    BY <1>1, RequeuedRow
  <2>4. /\ ClaimedBy(Requeued(row), w) \in Row /\ Columns(ClaimedBy(Requeued(row), w))
        /\ Ids(ClaimedBy(Requeued(row), w)) = Ids(row)
    BY <2>3, ClaimedRow
  <2>5. QED
    BY <1>4, <2>1, <2>2, <2>3, <2>4
<1>5. ASSUME row.status = "queued", new = ClaimedBy(row, w)
      PROVE  /\ new \in Row /\ Columns(new) /\ ~Terminal(row) /\ Ids(new) = Ids(row)
             /\ \A v \in Workers \ {w} : held[v] # r
  <2>1. ~Terminal(row)
    BY <1>1, <1>5, StatusKinds
  <2>2. ASSUME NEW v \in Workers, held[v] = r PROVE FALSE
    BY <1>1, <1>5, <2>2, HolderFacts
  <2>3. QED
    BY <1>1, <1>5, <2>1, <2>2, ClaimedRow
<1>6. ASSUME pc[w] \in Busy, r = held[w]
      PROVE  /\ ~Terminal(row)
             /\ \A v \in Workers \ {w} : held[v] # r
             /\ row.status \in HeartbeatStatuses
  BY <1>1, <1>6, WorkingOwns DEF Leased, Inductive, Exclusive
<1>7. ASSUME pc[w] \in Busy, r = held[w], new = StartedOver(row)
      PROVE  new \in Row /\ Columns(new) /\ Ids(new) = Ids(row)
  BY <1>1, <1>2, <1>6, <1>7, StartedRow DEF Columns
<1>8. ASSUME tx[w].end \in TerminalRunStatuses,
             new = Completed(row, tx[w].end)
      PROVE  new \in Row /\ Columns(new) /\ Ids(new) = Ids(row)
  BY <1>1, <1>8, CompletedRow
<1>9. ASSUME new = ReleasedOver(row, tx[w].seen)
      PROVE  new \in Row /\ Columns(new) /\ Ids(new) = Ids(row)
  BY <1>1, <1>3, <1>9, ReleasedRow
<1>10. /\ new \in Row /\ Columns(new) /\ ~Terminal(row) /\ Ids(new) = Ids(row)
       /\ \A v \in Workers \ {w} : held[v] # r
  <2> HIDE DEF row, new
  <2>1. \/ pc[w] = "idle" /\ Reclaimable(row)
              /\ (new = Requeued(row) \/ new = ClaimedBy(Requeued(row), w))
        \/ row.status = "queued" /\ new = ClaimedBy(row, w)
        \/ pc[w] \in Busy /\ r = held[w] /\ new = StartedOver(row)
        \/ /\ pc[w] \in Busy /\ r = held[w] /\ tx[w].end \in TerminalRunStatuses
           /\ new = Completed(row, tx[w].end)
        \/ pc[w] \in Busy /\ r = held[w] /\ new = ReleasedOver(row, tx[w].seen)
    BY WorkerWriteCases DEF Busy, row, new
  <2>2. QED
    BY <1>4, <1>5, <1>6, <1>7, <1>8, <1>9, <2>1
<1>11. Exists(row)
  BY <1>1, <1>10, NoneAssumption DEF Ids, Exists
<1>12. QED
  BY <1>1, <1>2, <1>10, <1>11

\* A request has flushed a new row or a cancellation; a worker that has the run
\* keeps it under its lease.
LEMMA RequestWriteFacts ==
  ASSUME Leased, NEW q \in Requests, NEW r \in RunIds, tx[q].writes[r] # None
  PROVE  LET row == runs[r]  new == tx[q].writes[r]
         IN  /\ row \in Row /\ new \in Row /\ Exists(new) /\ Columns(new)
             /\ \/ row = NoRow /\ new.status = "queued" /\ new.attempt = 0
                \/ /\ Exists(row) /\ new.attempt = row.attempt /\ Ids(new) = Ids(row)
                   /\ \/ row.status = "queued" /\ new.status = "cancelled"
                      \/ /\ row.status \in HeartbeatStatuses
                         /\ new.status = "cancelling"
                         /\ new.owner = row.owner /\ new.lease = row.lease
             /\ ~Terminal(row)
             /\ \A v \in Workers : held[v] = r => Owned(row, v) /\ Owned(new, v)
<1> DEFINE row == runs[r]
           new == tx[q].writes[r]
<1>1. row \in Row /\ Exists(new) /\ r # NoRun /\ Columns(row) /\ AskedFor(q)
  <2>1. row \in Row /\ Exists(new) /\ AskedFor(q)
    BY RequestFacts DEF Leased
  <2>2. QED
    BY <2>1 DEF Leased, NoRun, RunIds, Inductive, LeaseColumns, Columns
<1>2. RequestWrite(q, r)
  BY DEF Leased, Inductive, WritesApply
<1>3. CASE /\ req[q].op = "start" /\ ~Exists(row)
           /\ new = QueuedRow(req[q].exp, req[q].key, req[q].fp)
  <2>1. row = NoRow
    BY <1>3 DEF Leased, Inductive, Blank
  <2>2. new \in Row /\ new.status = "queued" /\ new.attempt = 0 /\ Columns(new)
    BY <1>1, <1>3, InsertedRow DEF AskedFor
  <2>3. ~Terminal(row)
    BY <2>1 DEF NoRow, Terminal, TerminalRunStatuses
  <2>4. \A v \in Workers : held[v] # r
    BY <1>1, <1>3, HolderFacts
  <2>5. QED
    BY <1>1, <2>1, <2>2, <2>3, <2>4
<1>4. CASE req[q].op = "cancel" /\ Exists(row) /\ ~Terminal(row) /\ new = CancelRequested(row)
  <2>1. /\ new \in Row /\ new.attempt = row.attempt /\ Ids(new) = Ids(row) /\ Columns(new)
        /\ \/ row.status = "queued" /\ new.status = "cancelled"
           \/ /\ row.status \in HeartbeatStatuses /\ new.status = "cancelling"
              /\ new.owner = row.owner /\ new.lease = row.lease
    BY <1>1, <1>4, CancelledRow
  <2>2. ASSUME NEW v \in Workers, held[v] = r PROVE Owned(row, v) /\ Owned(new, v)
    <3>1. Owned(row, v)
      BY <1>1, <1>4, <2>2, HolderFacts
    <3>2. row.status # "queued"
      BY <1>1, <2>2, HolderFacts
    <3> HIDE DEF row, new
    <3>3. QED
      BY <1>1, <2>1, <3>1, <3>2 DEF Owned, MayHeartbeat, HeartbeatStatuses
  <2>3. QED
    BY <1>1, <1>4, <2>1, <2>2
<1>5. QED
  BY <1>2, <1>3, <1>4 DEF RequestWrite

-----------------------------------------------------------------------------
(* A step of one session keeps Inductive when what it makes of that        *)
(* session's own variables agrees with it.                                 *)

\* Session s commits what it had flushed, or the tables stay as they are.
RowsMove(s, t) ==
  \A r \in RunIds :
    \/ runs'[r] = runs[r]
    \/ tx[s].writes[r] # None /\ t.writes[r] = None /\ runs'[r] = tx[s].writes[r]

\* The next transaction t of session s writes no row that another session has locked.
LocksKept(s, t) ==
  \A r \in RunIds : t.writes[r] # None => \A v \in Sessions \ {s} : tx[v].writes[r] = None

\* Row locks, the lease columns and the blank rows, whatever session takes the step.
LEMMA SessionKeepsTables ==
  ASSUME Leased, WellFormed', NEW s \in Sessions, NEW t \in TxType,
         tx' = [tx EXCEPT ![s] = t], RowsMove(s, t), LocksKept(s, t)
  PROVE  OneLock' /\ LeaseColumns' /\ Blank'
<1>1. tx \in [Sessions -> TxType]
  BY DEF Leased, WellFormed, TypeOK
<1>2. OneLock'
  <2>1. OneLock
    BY DEF Leased, Inductive
  <2>2. QED
    BY <1>1, <2>1 DEF OneLock, LocksKept
<1>3. ASSUME NEW r \in RunIds, tx[s].writes[r] # None
      PROVE  Exists(tx[s].writes[r]) /\ Columns(tx[s].writes[r])
  BY <1>3, WorkerWriteFacts, RequestWriteFacts DEF Sessions
<1>4. ASSUME NEW r \in RunIds PROVE Columns(runs'[r]) /\ (~Exists(runs'[r]) => runs'[r] = NoRow)
  <2>1. Columns(runs[r]) /\ (~Exists(runs[r]) => runs[r] = NoRow)
    BY DEF Leased, Inductive, LeaseColumns, Columns, Blank
  <2>2. QED
    BY <1>3, <2>1 DEF RowsMove
<1>5. LeaseColumns'
  BY <1>4 DEF LeaseColumns, Columns
<1>6. Blank'
  BY <1>4 DEF Blank
<1>7. QED
  BY <1>2, <1>5, <1>6

\* What does not concern a step of session s: another worker's transaction.
LEMMA OthersKeepWrites ==
  ASSUME Leased, NEW s \in Sessions, NEW t \in TxType,
         tx' = [tx EXCEPT ![s] = t], RowsMove(s, t),
         NEW v \in Sessions, v # s, NEW r \in RunIds, tx'[v].writes[r] # None
  PROVE  tx'[v] = tx[v] /\ tx[v].writes[r] # None /\ runs'[r] = runs[r]
<1>1. tx'[v] = tx[v]
  BY DEF Leased, WellFormed, TypeOK
<1>2. tx[s].writes[r] = None
  BY <1>1 DEF Leased, Inductive, OneLock
<1>3. QED
  BY <1>1, <1>2 DEF RowsMove

\* The step of a worker (worker.py), given by the new values of its own variables.
LEMMA WorkerKeepsInductive ==
  ASSUME Leased, WellFormed', NEW w \in Workers,
         NEW t \in TxType, NEW p \in WorkerPcs, NEW h \in RunIds \cup {NoRun},
         WorkerMoves(w, t, p, h), RowsMove(w, t), LocksKept(w, t),
         \A r \in RunIds : t.writes[r] # None => WorkerWrite(w, r)',
         SeenRow(w)', h # NoRun => Holds(w)',
         h # NoRun => \A v \in Workers \ {w} : held[v] # h
  PROVE  Inductive'
<1>1. w \in Sessions /\ w \notin Requests /\ tx' = [tx EXCEPT ![w] = t]
  BY RequestsAssumption DEF Sessions, WorkerMoves
<1>2. OneLock' /\ LeaseColumns' /\ Blank'
  BY <1>1, SessionKeepsTables
<1>3. TypeOK
  BY DEF Leased, WellFormed
<1>4. tx'[w] = t /\ pc'[w] = p /\ held'[w] = h
  BY <1>1, <1>3 DEF WorkerMoves, TypeOK
<1>5. ASSUME NEW v \in Workers, v # w
      PROVE  v \in Sessions /\ tx'[v] = tx[v] /\ pc'[v] = pc[v] /\ held'[v] = held[v]
  BY <1>3, <1>5 DEF WorkerMoves, TypeOK, Sessions
<1>6. WritesApply'
  <2>1. ASSUME NEW v \in Workers, NEW r \in RunIds, tx'[v].writes[r] # None
        PROVE  WorkerWrite(v, r)'
    <3>1. CASE v = w
      BY <1>4, <2>1, <3>1
    <3>2. CASE v # w
      <4>1. tx'[v] = tx[v] /\ tx[v].writes[r] # None /\ runs'[r] = runs[r]
        BY <1>1, <1>5, <2>1, <3>2, OthersKeepWrites
      <4>2. WorkerWrite(v, r)
        BY <4>1 DEF Leased, Inductive, WritesApply
      <4>3. QED
        BY <1>5, <3>2, <4>1, <4>2 DEF WorkerWrite, ClaimWrite
    <3>3. QED
      BY <3>1, <3>2
  <2>2. ASSUME NEW q \in Requests, NEW r \in RunIds, tx'[q].writes[r] # None
        PROVE  RequestWrite(q, r)'
    <3>1. tx'[q] = tx[q] /\ tx[q].writes[r] # None /\ runs'[r] = runs[r]
      BY <1>1, <2>2, OthersKeepWrites DEF Sessions
    <3>2. RequestWrite(q, r)
      BY <3>1 DEF Leased, Inductive, WritesApply
    <3>3. QED
      BY <3>1, <3>2 DEF RequestWrite, WorkerMoves
  <2>3. QED
    BY <2>1, <2>2 DEF WritesApply
<1>7. ASSUME NEW v \in Workers PROVE SeenRow(v)'
  BY <1>5 DEF SeenRow, Leased, Inductive
<1>8. ASSUME NEW v \in Workers, held'[v] # NoRun PROVE Holds(v)'
  <2>1. CASE v = w
    BY <1>4, <1>8, <2>1
  <2>2. CASE v # w
    <3>1. /\ pc'[v] = pc[v] /\ held'[v] = held[v] /\ tx'[v] = tx[v]
          /\ held[v] # NoRun /\ held[v] \in RunIds
      BY <1>5, <1>8, <2>2, HolderFacts
    <3>2. tx[w].writes[held[v]] = None
      BY <2>2, <3>1, WorkerWriteFacts
    <3>3. runs'[held[v]] = runs[held[v]]
      BY <3>1, <3>2 DEF RowsMove
    <3>4. Holds(v)
      BY <3>1 DEF Leased, Inductive
    <3>5. QED
      BY <3>1, <3>3, <3>4 DEF Holds
  <2>3. QED
    BY <2>1, <2>2
<1>9. Exclusive'
  <2>1. Exclusive
    BY DEF Leased, Inductive
  <2>2. QED
    BY <1>4, <1>5, <2>1 DEF Exclusive
<1>10. QED
  BY <1>2, <1>6, <1>7, <1>8, <1>9 DEF Inductive

\* The step of a request (services/runs.py), given in the same way.
LEMMA RequestKeepsInductive ==
  ASSUME Leased, WellFormed', NEW q \in Requests, NEW t \in TxType, NEW a \in RequestType,
         tx' = [tx EXCEPT ![q] = t], req' = [req EXCEPT ![q] = a], UNCHANGED <<pc, held>>,
         RowsMove(q, t), LocksKept(q, t),
         \A r \in RunIds : t.writes[r] # None => RequestWrite(q, r)'
  PROVE  Inductive'
<1>1. q \in Sessions /\ q \notin Workers
  BY RequestsAssumption DEF Sessions
<1>2. OneLock' /\ LeaseColumns' /\ Blank'
  BY <1>1, SessionKeepsTables
<1>3. TypeOK
  BY DEF Leased, WellFormed
<1>4. tx'[q] = t
  BY <1>1, <1>3 DEF TypeOK
<1>5. ASSUME NEW v \in Workers
      PROVE  v \in Sessions /\ v # q /\ tx'[v] = tx[v] /\ pc'[v] = pc[v] /\ held'[v] = held[v]
  BY <1>1, <1>3 DEF TypeOK, Sessions
<1>6. WritesApply'
  <2>1. ASSUME NEW v \in Workers, NEW r \in RunIds, tx'[v].writes[r] # None
        PROVE  WorkerWrite(v, r)'
    <3>1. tx'[v] = tx[v] /\ tx[v].writes[r] # None /\ runs'[r] = runs[r]
      BY <1>1, <1>5, <2>1, OthersKeepWrites
    <3>2. WorkerWrite(v, r)
      BY <3>1 DEF Leased, Inductive, WritesApply
    <3>3. QED
      BY <1>5, <3>1, <3>2 DEF WorkerWrite, ClaimWrite
  <2>2. ASSUME NEW x \in Requests, NEW r \in RunIds, tx'[x].writes[r] # None
        PROVE  RequestWrite(x, r)'
    <3>1. CASE x = q
      BY <1>4, <2>2, <3>1
    <3>2. CASE x # q
      <4>1. tx'[x] = tx[x] /\ tx[x].writes[r] # None /\ runs'[r] = runs[r]
        BY <1>1, <2>2, <3>2, OthersKeepWrites DEF Sessions
      <4>2. RequestWrite(x, r) /\ req'[x] = req[x]
        BY <1>3, <3>2, <4>1 DEF Leased, Inductive, WritesApply, TypeOK
      <4>3. QED
        BY <4>1, <4>2 DEF RequestWrite
    <3>3. QED
      BY <3>1, <3>2
  <2>3. QED
    BY <2>1, <2>2 DEF WritesApply
<1>7. ASSUME NEW v \in Workers PROVE SeenRow(v)'
  BY <1>5 DEF SeenRow, Leased, Inductive
<1>8. ASSUME NEW v \in Workers, held'[v] # NoRun PROVE Holds(v)'
  <2>1. /\ pc'[v] = pc[v] /\ held'[v] = held[v] /\ tx'[v] = tx[v]
        /\ held[v] # NoRun /\ held[v] \in RunIds
    BY <1>5, <1>8, HolderFacts
  <2>2. Holds(v)
    BY <2>1 DEF Leased, Inductive
  <2>3. CASE runs'[held[v]] = runs[held[v]]
    BY <2>1, <2>2, <2>3 DEF Holds
  <2>4. CASE tx[q].writes[held[v]] # None /\ runs'[held[v]] = tx[q].writes[held[v]]
    BY <2>1, <2>4, RequestWriteFacts DEF Holds, Owned
  <2>5. QED
    BY <2>1, <2>3, <2>4 DEF RowsMove
<1>9. Exclusive'
  BY <1>5 DEF Exclusive, Leased, Inductive
<1>10. QED
  BY <1>2, <1>6, <1>7, <1>8, <1>9 DEF Inductive

-----------------------------------------------------------------------------
(* Inductive is preserved by every action of a worker.                     *)

\* What a worker's own variables are after its step.
LEMMA MovedTo ==
  ASSUME WellFormed, NEW w \in Workers, NEW t, NEW p, NEW h, WorkerMoves(w, t, p, h)
  PROVE  tx'[w] = t /\ pc'[w] = p /\ held'[w] = h
BY DEF WorkerMoves, WellFormed, TypeOK, Sessions

\* A commit moves the rows that were flushed.
LEMMA AppliedRowsMove ==
  ASSUME WellFormed, NEW s \in Sessions, Apply(s) \/ UNCHANGED <<runs, exps>>
  PROVE  RowsMove(s, NoTx)
BY ApplyEffect, NoTxIsTx DEF RowsMove

\* A worker without an open transaction, with no run.
LEMMA FreeInductive ==
  ASSUME Leased, WellFormed', NEW w \in Workers, NEW p \in {"down", "idle"},
         WorkerMoves(w, NoTx, p, NoRun), RowsMove(w, NoTx)
  PROVE  Inductive'
<1>1. tx'[w] = NoTx /\ p \in WorkerPcs
  BY MovedTo DEF Leased, WorkerPcs
<1>2. SeenRow(w)' /\ LocksKept(w, NoTx)
  BY <1>1, NoTxIsTx DEF SeenRow, LocksKept
<1>3. QED
  BY <1>1, <1>2, NoTxIsTx, WorkerKeepsInductive

\* A worker without an open transaction, with the run it had.
LEMMA BusyInductive ==
  ASSUME Leased, WellFormed', NEW w \in Workers, NEW p \in Busy, pc[w] \in Busy,
         WorkerMoves(w, NoTx, p, held[w]), RowsMove(w, NoTx),
         \/ Owned(runs'[held[w]], w)
         \/ p = "releasing" /\ Terminal(runs'[held[w]])
  PROVE  Inductive'
<1>1. tx'[w] = NoTx /\ pc'[w] = p /\ held'[w] = held[w]
  BY MovedTo DEF Leased
<1>2. /\ p \in WorkerPcs /\ held[w] \in RunIds \cup {NoRun} /\ held[w] # NoRun
  BY WorkerFacts DEF Leased, Busy, WorkerPcs, Outcomes, HasRun
<1>3. SeenRow(w)' /\ LocksKept(w, NoTx)
  BY <1>1, NoTxIsTx DEF SeenRow, LocksKept
<1>4. Holds(w)'
  BY <1>1, NoTxIsTx DEF Holds, Owned
<1>5. \A v \in Workers \ {w} : held[v] # held[w]
  BY <1>2 DEF Leased, Inductive, Exclusive
<1>6. QED
  BY <1>2, <1>3, <1>4, <1>5, NoTxIsTx, WorkerKeepsInductive

\* Worker w, at work on its run, opens or advances its transaction and commits nothing.
LEMMA OpenInductive ==
  ASSUME Leased, WellFormed', NEW w \in Workers, pc[w] \in Busy, NEW t \in TxType,
         Owned(runs[held[w]], w),
         tx' = [tx EXCEPT ![w] = t], UNCHANGED <<runs, pc, held, req>>,
         LocksKept(w, t),
         \A r \in RunIds : t.writes[r] # None => WorkerWrite(w, r)',
         SeenRow(w)'
  PROVE  Inductive'
<1>1. WorkerMoves(w, t, pc[w], held[w])
  BY WorkerFacts DEF Leased, WorkerMoves
<1>2. /\ pc[w] \in WorkerPcs /\ held[w] \in RunIds \cup {NoRun} /\ held[w] # NoRun
  BY WorkerFacts DEF Leased, HasRun
<1>3. RowsMove(w, t)
  BY DEF RowsMove
<1>4. Holds(w)'
  BY DEF Holds, Owned
<1>5. \A v \in Workers \ {w} : held[v] # held[w]
  BY <1>2 DEF Leased, Inductive, Exclusive
<1>6. QED
  BY <1>1, <1>2, <1>3, <1>4, <1>5, WorkerKeepsInductive

\* The writes of a claim: what requeue_expired_leases and claim_next_run select, no
\* other session has locked.
LEMMA ClaimKeepsLocks ==
  ASSUME Leased, NEW w \in Workers, NEW r \in RunIds, ExpiredWrites[r] # None \/ ~Locked(r)
  PROVE  \A v \in Sessions \ {w} : tx[v].writes[r] = None
BY ExpiredRows, WorkerFacts DEF Leased, Locked

\* claim_next_run that claims a run.
LEMMA ClaimOldestInductive ==
  ASSUME Leased, WellFormed', NEW w \in Workers, ClaimOldest(w)
  PROVE  Inductive'
<1> DEFINE rows == Visible(ExpiredWrites)
<1>1. PICK r \in Claimable(rows) :
         Flush(w, r, [ExpiredWrites EXCEPT ![r] = ClaimedBy(rows[r], w)],
               rows[r].exp, exps[rows[r].exp])
  BY DEF ClaimOldest
<1> DEFINE ws == [ExpiredWrites EXCEPT ![r] = ClaimedBy(rows[r], w)]
<1>2. /\ runs \in [RunIds -> Row] /\ exps \in [Exps -> ExperimentStatuses]
      /\ tx \in [Sessions -> TxType] /\ w \in Sessions
      /\ pc = [pc EXCEPT ![w] = pc[w]] /\ held = [held EXCEPT ![w] = held[w]]
      /\ pc[w] = "idle" /\ held[w] = NoRun
      /\ UNCHANGED <<runs, exps, pc, held, req>>
  BY WorkerFacts DEF Leased, ClaimOldest, Untouched
<1>3. ExpiredWrites \in Writes
  BY <1>2, ExpiredRows
<1>4. /\ r \in RunIds /\ rows \in [RunIds -> Row] /\ rows[r] \in Row /\ rows[r].exp \in Exps
      /\ rows[r].status = "queued" /\ ~Locked(r)
      /\ rows[r] = IF ExpiredWrites[r] = None THEN runs[r] ELSE ExpiredWrites[r]
      /\ Exists(rows[r])
  <2>1. r \in RunIds /\ Exists(rows[r]) /\ rows[r].status = "queued" /\ ~Locked(r)
    BY DEF Claimable
  <2>2. /\ rows \in [RunIds -> Row]
        /\ rows[r] = IF ExpiredWrites[r] = None THEN runs[r] ELSE ExpiredWrites[r]
    BY <1>2, <1>3, <2>1, VisibleRows
  <2>3. rows[r] \in Row
    BY <2>1, <2>2
  <2>4. rows[r].exp \in Exps
    BY <2>1, <2>3 DEF Exists, Row
  <2>5. QED
    BY <2>1, <2>2, <2>3, <2>4
<1> HIDE DEF rows
<1>5. ClaimedBy(rows[r], w) \in Row
  BY <1>4, ClaimedRow
<1>6. /\ ws \in Writes /\ ws[r] = ClaimedBy(rows[r], w)
      /\ \A i \in RunIds \ {r} : ws[i] = ExpiredWrites[i]
  BY <1>3, <1>4, <1>5 DEF Writes
<1> HIDE DEF ws
<1>7. Flush(w, r, ws, rows[r].exp, exps[rows[r].exp])
  BY <1>1 DEF ws
<1>8. \E t \in TxType :
         /\ tx' = [tx EXCEPT ![w] = t]
         /\ t.phase = "flushed" /\ t.run = r /\ t.writes = ws
         /\ t.seen = tx[w].seen /\ t.end = tx[w].end
  <2>1. exps[rows[r].exp] \in ExperimentStatuses
    BY <1>2, <1>4
  <2>2. QED
    BY <1>2, <1>4, <1>6, <1>7, <2>1, FlushEffect
<1>9. PICK t \in TxType :
         /\ tx' = [tx EXCEPT ![w] = t]
         /\ t.phase = "flushed" /\ t.run = r /\ t.writes = ws
  BY <1>8
<1>10. WorkerMoves(w, t, "idle", NoRun)
  BY <1>2, <1>9 DEF WorkerMoves
<1>11. tx'[w] = t /\ pc'[w] = "idle"
  BY <1>10, MovedTo DEF Leased
<1>12. LocksKept(w, t)
  BY <1>4, <1>6, <1>9, ClaimKeepsLocks DEF LocksKept
<1>13. ASSUME NEW i \in RunIds, t.writes[i] # None PROVE WorkerWrite(w, i)'
  <2>1. CASE i # r
    <3>1. Reclaimable(runs[i]) /\ ws[i] = Requeued(runs[i])
      BY <1>2, <1>6, <1>9, <1>13, <2>1, ExpiredRows
    <3>2. QED
      BY <1>2, <1>9, <1>11, <2>1, <3>1 DEF WorkerWrite, ClaimWrite
  <2>2. CASE i = r /\ ExpiredWrites[r] = None
    BY <1>2, <1>4, <1>6, <1>9, <1>11, <2>2 DEF WorkerWrite, ClaimWrite
  <2>3. CASE i = r /\ ExpiredWrites[r] # None
    <3>1. Reclaimable(runs[r]) /\ rows[r] = Requeued(runs[r]) /\ runs[r] \in Row
      BY <1>2, <1>4, <2>3, ExpiredRows
    <3>2. runs[r].attempt < MaxAttempts
      BY <1>4, <3>1, RequeuedRow
    <3>3. QED
      BY <1>2, <1>6, <1>9, <1>11, <2>3, <3>1, <3>2 DEF WorkerWrite, ClaimWrite
  <2>4. QED
    BY <2>1, <2>2, <2>3
<1>14. SeenRow(w)' /\ RowsMove(w, t) /\ "idle" \in WorkerPcs
  BY <1>2, <1>11 DEF SeenRow, Outcomes, RowsMove, WorkerPcs
<1>15. QED
  BY <1>10, <1>12, <1>13, <1>14, WorkerKeepsInductive

\* claim_next_run that finds no run to claim.
LEMMA ClaimNothingInductive ==
  ASSUME Leased, WellFormed', NEW w \in Workers, ClaimNothing(w)
  PROVE  Inductive'
<1> DEFINE t == [tx[w] EXCEPT !.phase = "flushed", !.writes = ExpiredWrites]
<1>1. /\ tx' = [tx EXCEPT ![w] = t]
      /\ pc[w] = "idle" /\ tx[w].phase = "none"
      /\ UNCHANGED <<runs, exps, pc, held, req>>
  BY DEF ClaimNothing, Untouched
<1>2. /\ runs \in [RunIds -> Row] /\ held[w] = NoRun
      /\ pc = [pc EXCEPT ![w] = pc[w]] /\ held = [held EXCEPT ![w] = held[w]]
      /\ tx[w] \in TxType /\ tx[w] = NoTx
  BY <1>1, NoneOpen, WorkerFacts DEF Leased
<1>3. ExpiredWrites \in Writes
  BY <1>2, ExpiredRows
<1>4. t \in TxType /\ t.phase = "flushed" /\ t.writes = ExpiredWrites /\ t.run = NoRun
  <2>1. tx[w].run = NoRun
    BY <1>2, NoTxIsTx
  <2>2. QED
    BY <1>2, <1>3, <2>1 DEF TxType, Writes
<1> HIDE DEF t
<1>5. WorkerMoves(w, t, "idle", NoRun)
  BY <1>1, <1>2 DEF WorkerMoves
<1>6. tx'[w] = t /\ pc'[w] = "idle"
  BY <1>5, MovedTo DEF Leased
<1>7. LocksKept(w, t)
  BY <1>4, ClaimKeepsLocks DEF LocksKept
<1>8. ASSUME NEW i \in RunIds, t.writes[i] # None PROVE WorkerWrite(w, i)'
  <2>1. Reclaimable(runs[i]) /\ t.writes[i] = Requeued(runs[i])
    BY <1>2, <1>4, <1>8, ExpiredRows
  <2>2. i # NoRun
    BY DEF RunIds, NoRun
  <2>3. QED
    BY <1>1, <1>4, <1>6, <2>1, <2>2 DEF WorkerWrite, ClaimWrite
<1>9. SeenRow(w)' /\ RowsMove(w, t) /\ "idle" \in WorkerPcs
  BY <1>1, <1>6 DEF SeenRow, Outcomes, RowsMove, WorkerPcs
<1>10. QED
  BY <1>4, <1>5, <1>7, <1>8, <1>9, WorkerKeepsInductive

\* The commit of _claim_run.
LEMMA CommitClaimInductive ==
  ASSUME Leased, WellFormed', NEW w \in Workers, CommitClaim(w)
  PROVE  Inductive'
<1>1. /\ pc[w] = "idle" /\ tx[w].phase = "flushed" /\ Apply(w) /\ req' = req
      /\ w \in Sessions
  BY WorkerFacts DEF Leased, CommitClaim, Untouched
<1>2. RowsMove(w, NoTx)
  BY <1>1, AppliedRowsMove DEF Leased
<1>3. tx[w].run \in RunIds \cup {NoRun}
  BY WorkerFacts DEF Leased, TxType
<1>4. CASE tx[w].run = NoRun
  <2>1. WorkerMoves(w, NoTx, "idle", NoRun)
    BY <1>1, <1>4 DEF CommitClaim, Close, Goto, WorkerMoves
  <2>2. QED
    BY <1>2, <2>1, FreeInductive
<1>5. CASE tx[w].run # NoRun
  <2> DEFINE r == tx[w].run
  <2>1. WorkerMoves(w, NoTx, "starting", r)
    BY <1>1, <1>5 DEF CommitClaim, Close, Goto, WorkerMoves
  <2>2. r \in RunIds /\ tx[w].writes[r] # None
    BY <1>1, <1>3, <1>5, WorkerFacts DEF Leased, HasRun
  <2>3. /\ \A v \in Workers \ {w} : held[v] # r
        /\ runs'[r] = tx[w].writes[r] /\ Exists(runs'[r]) /\ runs[r] \in Row
    BY <1>1, <2>2, WorkerWriteFacts, ApplyEffect DEF Leased
  <2>4. Owned(runs'[r], w)
    <3>1. \/ tx[w].writes[r] = ClaimedBy(runs[r], w)
          \/ tx[w].writes[r] = ClaimedBy(Requeued(runs[r]), w)
      BY <1>1, <2>2, WorkerWriteCases DEF Outcomes
    <3>2. Requeued(runs[r]) \in Row
      BY <2>3, RequeuedRow
    <3>3. QED
      BY <2>3, <3>1, <3>2, ClaimedRow DEF Owned, MayHeartbeat
  <2>5. tx'[w] = NoTx /\ pc'[w] = "starting" /\ held'[w] = r
    BY <2>1, MovedTo DEF Leased
  <2> HIDE DEF r
  <2>6. Holds(w)' /\ SeenRow(w)' /\ LocksKept(w, NoTx) /\ "starting" \in WorkerPcs
    BY <2>4, <2>5, NoTxIsTx DEF Holds, Owned, SeenRow, LocksKept, WorkerPcs
  <2>7. QED
    BY <1>2, <2>1, <2>2, <2>3, <2>6, NoTxIsTx, WorkerKeepsInductive
<1>6. QED
  BY <1>4, <1>5

\* Worker w loads the row of its run.
LEMMA ReadInductive ==
  ASSUME Leased, WellFormed', NEW w \in Workers, pc[w] \in Busy, Owned(runs[held[w]], w),
         NEW t \in TxType, t.writes = NoWrites, t.phase = "read", t.seen = runs[held[w]],
         pc[w] = "starting" => runs[held[w]].status = "claimed",
         tx' = [tx EXCEPT ![w] = t], UNCHANGED <<runs, pc, held, req>>
  PROVE  Inductive'
<1>1. tx'[w] = t
  BY WorkerFacts DEF Leased
<1>2. /\ runs[held[w]].status \in HeartbeatStatuses /\ runs[held[w]].owner = w
      /\ runs[held[w]].lease # "null"
  BY DEF Owned, MayHeartbeat
<1>3. SeenRow(w)'
  BY <1>1, <1>2 DEF SeenRow
<1>4. /\ LocksKept(w, t)
      /\ \A r \in RunIds : t.writes[r] = None
  BY NoTxIsTx DEF LocksKept
<1>5. QED
  BY <1>3, <1>4, OpenInductive

\* Worker w flushes the row of its run.
LEMMA FlushedInductive ==
  ASSUME Leased, WellFormed', NEW w \in Workers, pc[w] \in Busy, tx[w].phase = "read",
         ~Locked(held[w]), NEW row \in Row, row.exp = runs[held[w]].exp,
         \/ pc[w] = "starting" /\ row = StartedOver(runs[held[w]])
         \/ /\ pc[w] \in Outcomes /\ tx[w].end # None
            /\ row = Completed(runs[held[w]], tx[w].end)
         \/ pc[w] = "releasing" /\ row = ReleasedOver(runs[held[w]], tx[w].seen),
         FlushRow(w, held[w], row), UNCHANGED <<runs, exps, pc, held>>, Untouched
  PROVE  Inductive'
<1>1. /\ held[w] \in RunIds /\ row.exp \in Exps /\ w \in Sessions
      /\ tx \in [Sessions -> TxType] /\ exps \in [Exps -> ExperimentStatuses]
      /\ SeenRow(w)
  BY WorkerFacts DEF Leased, Inductive
<1>2. Owned(runs[held[w]], w)
  BY WorkingOwns
<1>3. \E t \in TxType :
        /\ tx' = [tx EXCEPT ![w] = t]
        /\ t.phase = "flushed" /\ t.run = held[w]
        /\ t.seen = tx[w].seen /\ t.end = tx[w].end
        /\ t.writes[held[w]] = row
        /\ \A i \in RunIds \ {held[w]} : t.writes[i] = None
  BY <1>1, FlushRowEffect
<1>4. PICK t \in TxType :
        /\ tx' = [tx EXCEPT ![w] = t]
        /\ t.phase = "flushed" /\ t.seen = tx[w].seen /\ t.end = tx[w].end
        /\ t.writes[held[w]] = row
        /\ \A i \in RunIds \ {held[w]} : t.writes[i] = None
  BY <1>3
<1>5. tx'[w] = t
  BY <1>1, <1>4
<1>6. LocksKept(w, t)
  BY <1>4 DEF LocksKept, Locked
<1>7. ASSUME NEW i \in RunIds, t.writes[i] # None PROVE WorkerWrite(w, i)'
  <2>1. i = held[w]
    BY <1>4, <1>7
  <2>2. /\ pc'[w] = pc[w] /\ held'[w] = held[w] /\ runs'[i] = runs[i]
        /\ tx'[w].writes[i] = row /\ tx'[w].end = tx[w].end /\ tx'[w].seen = tx[w].seen
    BY <1>4, <1>5, <2>1
  <2>3. CASE pc[w] = "starting" /\ row = StartedOver(runs[held[w]])
    BY <2>1, <2>2, <2>3 DEF WorkerWrite
  <2>4. CASE /\ pc[w] \in Outcomes /\ tx[w].end # None
             /\ row = Completed(runs[held[w]], tx[w].end)
    BY <2>1, <2>2, <2>4 DEF WorkerWrite, Completed
  <2>5. CASE pc[w] = "releasing" /\ row = ReleasedOver(runs[held[w]], tx[w].seen)
    BY <2>1, <2>2, <2>5 DEF WorkerWrite
  <2>6. QED
    BY <2>3, <2>4, <2>5
<1>8. SeenRow(w)'
  BY <1>1, <1>4, <1>5 DEF SeenRow
<1>9. UNCHANGED <<runs, pc, held, req>>
  BY DEF Untouched
<1>10. QED
  BY <1>2, <1>4, <1>6, <1>7, <1>8, <1>9, OpenInductive

\* mark_run_running.
LEMMA StartInductive ==
  ASSUME Leased, WellFormed', NEW w \in Workers,
         ReadToStart(w) \/ FlushStart(w) \/ CommitStart(w)
  PROVE  Inductive'
<1>1. pc[w] = "starting" /\ pc[w] \in Busy /\ pc[w] # "releasing"
  BY DEF ReadToStart, FlushStart, CommitStart, Busy
<1>2. /\ held[w] \in RunIds /\ runs[held[w]] \in Row /\ Owned(runs[held[w]], w)
  BY <1>1, WorkingOwns
<1>3. CASE ReadToStart(w)
  <2> DEFINE t == [tx[w] EXCEPT !.phase = "read", !.run = held[w], !.seen = runs[held[w]]]
  <2>1. /\ tx[w].phase = "none" /\ UNCHANGED <<runs, exps, held, req>>
        /\ tx[w] \in TxType /\ tx[w].writes = NoWrites
    BY <1>3, WorkerFacts DEF Leased, ReadToStart, Untouched, TxShape
  <2>2. CASE tx' = [tx EXCEPT ![w] = t] /\ UNCHANGED pc /\ runs[held[w]].status = "claimed"
    <3>1. t \in TxType /\ t.phase = "read" /\ t.writes = NoWrites /\ t.seen = runs[held[w]]
      BY <1>2, <2>1 DEF TxType
    <3> HIDE DEF t
    <3>2. QED
      BY <1>1, <1>2, <2>1, <2>2, <3>1, ReadInductive
  <2>3. CASE Goto(w, "releasing") /\ UNCHANGED tx
    <3>1. WorkerMoves(w, NoTx, "releasing", held[w]) /\ RowsMove(w, NoTx)
      BY <2>1, <2>3, NoneOpen, WorkerFacts DEF Leased, WorkerMoves, Goto, RowsMove
    <3>2. QED
      BY <1>1, <1>2, <2>1, <3>1, BusyInductive DEF Busy
  <2>4. QED
    BY <1>3, <2>2, <2>3 DEF ReadToStart
<1>4. CASE FlushStart(w)
  BY <1>1, <1>2, <1>4, StartedRow, FlushedInductive DEF FlushStart, Ids
<1>5. CASE CommitStart(w)
  <2>1. /\ tx[w].phase = "flushed" /\ Apply(w) /\ w \in Sessions
        /\ WorkerMoves(w, NoTx, "executing", held[w])
    BY <1>5, WorkerFacts DEF Leased, CommitStart, WorkerMoves, Close, Goto, Untouched
  <2>2. RowsMove(w, NoTx)
    BY <2>1, AppliedRowsMove DEF Leased
  <2>3. runs'[held[w]] = runs[held[w]] \/ runs'[held[w]] = StartedOver(runs[held[w]])
    BY <1>1, <1>2, <2>2, WorkerWriteCases DEF RowsMove, Outcomes
  <2>4. Owned(runs'[held[w]], w)
    BY <1>2, <2>3, StartedRow DEF Owned, MayHeartbeat, Exists, Ids
  <2>5. QED
    BY <1>1, <2>1, <2>2, <2>4, BusyInductive DEF Busy
<1>6. QED
  BY <1>3, <1>4, <1>5

\* The trials, the outcome and the heartbeat, which finds the lease still live.
LEMMA ExecutionInductive ==
  ASSUME Leased, WellFormed', NEW w \in Workers, TrialFails(w) \/ Conclude(w) \/ Heartbeat(w)
  PROVE  Inductive'
<1>1. pc[w] \in Busy /\ pc[w] # "releasing" /\ tx[w] = NoTx /\ tx = [tx EXCEPT ![w] = NoTx]
  <2>1. pc[w] \in Busy /\ pc[w] # "releasing"
    BY DEF TrialFails, Conclude, Heartbeat, Busy, Outcomes
  <2>2. tx[w].phase = "none"
    BY WorkerFacts DEF Leased, TrialFails, Conclude, Heartbeat, TxShape
  <2>3. QED
    BY <2>1, <2>2, NoneOpen DEF Leased
<1>2. /\ held[w] \in RunIds /\ runs[held[w]] \in Row /\ Owned(runs[held[w]], w)
      /\ runs \in [RunIds -> Row]
  BY <1>1, WorkingOwns, WorkerFacts DEF Leased
<1>3. UNCHANGED <<runs, tx, held, req>>
  <2>1. CASE Heartbeat(w)
    <3>1. Heartbeaten(runs[held[w]]) = runs[held[w]]
      BY <1>2, HeartbeatOfLive DEF Owned
    <3>2. runs' = runs
      BY <1>2, <2>1, <3>1 DEF Heartbeat
    <3>3. QED
      BY <2>1, <3>2 DEF Heartbeat, Untouched
  <2>2. QED
    BY <2>1 DEF TrialFails, Conclude, Untouched
<1>4. PICK p \in Busy : pc' = [pc EXCEPT ![w] = p]
  <2>1. CASE UNCHANGED pc
    BY <1>1, <2>1, WorkerFacts DEF Leased
  <2>2. CASE Conclude(w)
    BY <2>2 DEF Conclude, Goto, Busy, Outcomes
  <2>3. QED
    BY <2>1, <2>2 DEF TrialFails, Heartbeat
<1>5. WorkerMoves(w, NoTx, p, held[w]) /\ RowsMove(w, NoTx)
  BY <1>1, <1>3, <1>4, WorkerFacts DEF Leased, WorkerMoves, RowsMove
<1>6. QED
  BY <1>1, <1>2, <1>3, <1>5, BusyInductive

\* complete_run.
LEMMA CompleteInductive ==
  ASSUME Leased, WellFormed', NEW w \in Workers,
         ReadToComplete(w) \/ FlushComplete(w) \/ CommitComplete(w)
  PROVE  Inductive'
<1>1. pc[w] \in Outcomes /\ pc[w] \in Busy /\ pc[w] # "releasing" /\ pc[w] # "starting"
  BY DEF ReadToComplete, FlushComplete, CommitComplete, Busy, Outcomes
<1>2. /\ held[w] \in RunIds /\ runs[held[w]] \in Row /\ Owned(runs[held[w]], w)
      /\ ~Terminal(runs[held[w]])
  BY <1>1, WorkingOwns
<1>3. CASE ReadToComplete(w)
  <2> DEFINE end == RunStatusFor(pc[w], failedTrials[runs[held[w]].exp])
             t == [tx[w] EXCEPT !.phase = "read", !.run = held[w], !.seen = runs[held[w]],
                                !.end = end]
  <2>1. /\ tx[w].phase = "none" /\ UNCHANGED <<runs, exps, held, req>>
        /\ tx[w] \in TxType /\ tx[w].writes = NoWrites
    BY <1>3, WorkerFacts DEF Leased, ReadToComplete, Untouched, TxShape
  <2>2. tx' = [tx EXCEPT ![w] = t] /\ UNCHANGED pc
    BY <1>2, <1>3 DEF ReadToComplete
  <2>3. end \in TerminalRunStatuses
    BY DEF RunStatusFor, TerminalRunStatuses
  <2> HIDE DEF end
  <2>4. t \in TxType /\ t.phase = "read" /\ t.writes = NoWrites /\ t.seen = runs[held[w]]
    BY <1>2, <2>1, <2>3 DEF TxType
  <2> HIDE DEF t
  <2>5. QED
    BY <1>1, <1>2, <2>1, <2>2, <2>4, ReadInductive
<1>4. CASE FlushComplete(w)
  <2> DEFINE row == CompletedOver(runs[held[w]], tx[w].seen, tx[w].end)
  <2>1. /\ tx[w].phase = "read" /\ ~Locked(held[w]) /\ FlushRow(w, held[w], row)
        /\ UNCHANGED <<runs, exps, pc, held>> /\ Untouched
    BY <1>4 DEF FlushComplete
  <2>2. tx[w].end # None /\ tx[w].end \in TerminalRunStatuses
    BY <1>1, <2>1, WorkerFacts DEF Leased, TxShape, TxType
  <2>3. tx[w].seen.owner # None /\ tx[w].seen.lease # "null"
    BY <1>1, <2>1, NoneAssumption DEF Leased, Inductive, SeenRow
  <2>4. row = Completed(runs[held[w]], tx[w].end)
    BY <2>3 DEF CompletedOver, Completed
  <2> HIDE DEF row
  <2>5. row \in Row /\ row.exp = runs[held[w]].exp
    BY <1>2, <2>2, <2>4, CompletedRow DEF Ids
  <2>6. QED
    BY <1>1, <2>1, <2>2, <2>4, <2>5, FlushedInductive
<1>5. CASE CommitComplete(w)
  <2>1. /\ Apply(w) /\ w \in Sessions /\ WorkerMoves(w, NoTx, "idle", NoRun)
    BY <1>5, WorkerFacts DEF Leased, CommitComplete, WorkerMoves, Close, Goto, Untouched
  <2>2. QED
    BY <2>1, AppliedRowsMove, FreeInductive DEF Leased
<1>6. QED
  BY <1>3, <1>4, <1>5

\* release_owned_lease.
LEMMA ReleaseInductive ==
  ASSUME Leased, WellFormed', NEW w \in Workers,
         ReadToRelease(w) \/ FlushRelease(w) \/ CommitRelease(w)
  PROVE  Inductive'
<1>1. pc[w] = "releasing" /\ pc[w] \in Busy
  BY DEF ReadToRelease, FlushRelease, CommitRelease, Busy
<1>2. held[w] \in RunIds /\ held[w] # NoRun /\ runs[held[w]] \in Row
  BY <1>1, WorkerFacts DEF Leased, HasRun
<1>3. CASE ReadToRelease(w)
  <2> DEFINE t == [tx[w] EXCEPT !.phase = "read", !.run = held[w], !.seen = runs[held[w]]]
  <2>1. /\ tx[w].phase = "none" /\ UNCHANGED <<runs, exps, req>>
        /\ tx[w] \in TxType /\ tx[w].writes = NoWrites
    BY <1>3, WorkerFacts DEF Leased, ReadToRelease, Untouched, TxShape
  <2>2. CASE tx' = [tx EXCEPT ![w] = t] /\ UNCHANGED <<pc, held>> /\ runs[held[w]].owner = w
    <3>1. t \in TxType /\ t.phase = "read" /\ t.writes = NoWrites /\ t.seen = runs[held[w]]
      BY <1>2, <2>1 DEF TxType
    <3>2. Columns(runs[held[w]])
      BY <1>2 DEF Leased, Inductive, LeaseColumns, Columns
    <3>3. Owned(runs[held[w]], w)
      <4>1. runs[held[w]].status \in HeartbeatStatuses
        BY <2>2, <3>2, NoneAssumption DEF Columns
      <4>2. ~Terminal(runs[held[w]])
        BY <1>2, <4>1, StatusKinds
      <4>3. QED
        BY <1>2, <4>2, HolderFacts
    <3> HIDE DEF t
    <3>4. QED
      BY <1>1, <2>1, <2>2, <3>1, <3>3, ReadInductive
  <2>3. CASE Down(w) /\ UNCHANGED tx
    <3>1. WorkerMoves(w, NoTx, "down", NoRun) /\ RowsMove(w, NoTx)
      BY <2>1, <2>3, NoneOpen, WorkerFacts DEF Leased, WorkerMoves, Down, Goto, RowsMove
    <3>2. QED
      BY <3>1, FreeInductive
  <2>4. QED
    BY <1>3, <2>2, <2>3 DEF ReadToRelease
<1>4. CASE FlushRelease(w)
  <2>1. /\ tx[w].phase = "read" /\ ~Locked(held[w])
        /\ UNCHANGED <<runs, exps, pc, held>> /\ Untouched
    BY <1>4 DEF FlushRelease
  <2>2. tx[w].seen \in Row /\ ~Terminal(tx[w].seen)
    <3>1. tx[w].seen \in Row
      BY WorkerFacts DEF Leased, TxType
    <3>2. tx[w].seen.status \in HeartbeatStatuses
      BY <1>1, <2>1 DEF Leased, Inductive, SeenRow
    <3>3. QED
      BY <3>1, <3>2, StatusKinds
  <2> DEFINE row == ReleasedOver(runs[held[w]], tx[w].seen)
  <2>3. FlushRow(w, held[w], row)
    BY <1>4, <2>2 DEF FlushRelease
  <2>4. row \in Row /\ row.exp = runs[held[w]].exp
    BY <1>2, <2>2, ReleasedRow DEF Ids
  <2> HIDE DEF row
  <2>5. row = ReleasedOver(runs[held[w]], tx[w].seen)
    BY DEF row
  <2>6. QED
    BY <1>1, <2>1, <2>3, <2>4, <2>5, FlushedInductive
<1>5. CASE CommitRelease(w)
  <2>1. /\ Apply(w) /\ w \in Sessions /\ WorkerMoves(w, NoTx, "down", NoRun)
    BY <1>5, WorkerFacts DEF Leased, CommitRelease, WorkerMoves, Close, Down, Goto, Untouched
  <2>2. QED
    BY <2>1, AppliedRowsMove, FreeInductive DEF Leased
<1>6. QED
  BY <1>3, <1>4, <1>5

\* A stop, a crash, a lost database, whose commit may have come through, and a restart.
LEMMA FaultInductive ==
  ASSUME Leased, WellFormed', NEW w \in Workers, Fault(w) \/ Restart(w)
  PROVE  Inductive'
<1>1. /\ w \in Sessions /\ runs \in [RunIds -> Row]
      /\ pc = [pc EXCEPT ![w] = pc[w]] /\ held = [held EXCEPT ![w] = held[w]]
  BY WorkerFacts DEF Leased
<1>2. CASE Stop(w)
  <2>1. tx = [tx EXCEPT ![w] = NoTx] /\ UNCHANGED <<runs, tx, req>>
    BY <1>2, NoneOpen DEF Leased, Stop
  <2>2. RowsMove(w, NoTx)
    BY <2>1 DEF RowsMove
  <2>3. CASE Down(w)
    <3>1. WorkerMoves(w, NoTx, "down", NoRun)
      BY <2>1, <2>3 DEF WorkerMoves, Down, Goto
    <3>2. QED
      BY <2>2, <3>1, FreeInductive
  <2>4. CASE pc[w] = "executing" /\ Goto(w, "releasing") /\ UNCHANGED held
    <3>1. WorkerMoves(w, NoTx, "releasing", held[w])
      BY <1>1, <2>1, <2>4 DEF WorkerMoves, Goto
    <3>2. pc[w] \in Busy /\ pc[w] # "releasing" /\ "releasing" \in Busy
      BY <2>4 DEF Busy
    <3>3. Owned(runs'[held[w]], w)
      BY <2>1, <3>2, WorkingOwns
    <3>4. QED
      BY <2>2, <3>1, <3>2, <3>3, BusyInductive
  <2>5. QED
    BY <1>2, <2>3, <2>4 DEF Stop
<1>3. CASE DatabaseFails(w)
  <2>1. /\ Close(w) /\ req' = req /\ pc[w] # "down"
        /\ Apply(w) \/ UNCHANGED <<runs, exps>>
    BY <1>3 DEF DatabaseFails, Discard
  <2>2. RowsMove(w, NoTx)
    BY <1>1, <2>1, AppliedRowsMove DEF Leased
  <2>3. CASE Down(w)
    <3>1. WorkerMoves(w, NoTx, "down", NoRun)
      BY <2>1, <2>3 DEF WorkerMoves, Down, Goto, Close
    <3>2. QED
      BY <2>2, <3>1, FreeInductive
  <2>4. CASE pc[w] \notin {"idle", "releasing"} /\ Goto(w, "releasing") /\ UNCHANGED held
    <3>1. WorkerMoves(w, NoTx, "releasing", held[w])
      BY <1>1, <2>1, <2>4 DEF WorkerMoves, Goto, Close
    <3>2. pc[w] \in Busy /\ pc[w] # "releasing" /\ "releasing" \in Busy
      BY <2>1, <2>4, WorkerFacts DEF Leased, Busy, WorkerPcs
    <3>3. /\ Owned(runs[held[w]], w) /\ held[w] \in RunIds /\ runs[held[w]] \in Row
      BY <3>2, WorkingOwns
    <3>4. \/ runs'[held[w]] = runs[held[w]]
          \/ runs'[held[w]] = StartedOver(runs[held[w]])
          \/ /\ tx[w].end \in TerminalRunStatuses
             /\ runs'[held[w]] = Completed(runs[held[w]], tx[w].end)
      BY <2>2, <2>4, <3>2, <3>3, WorkerWriteCases DEF RowsMove
    <3>5. Owned(runs'[held[w]], w) \/ Terminal(runs'[held[w]])
      <4>1. CASE runs'[held[w]] = runs[held[w]]
        BY <3>3, <4>1
      <4>2. CASE runs'[held[w]] = StartedOver(runs[held[w]])
        BY <3>3, <4>2, StartedRow DEF Owned, MayHeartbeat, Exists, Ids
      <4>3. CASE /\ tx[w].end \in TerminalRunStatuses
                 /\ runs'[held[w]] = Completed(runs[held[w]], tx[w].end)
        BY <3>3, <4>3, CompletedRow
      <4>4. QED
        BY <3>4, <4>1, <4>2, <4>3
    <3>6. QED
      BY <2>2, <3>1, <3>2, <3>5, BusyInductive
  <2>5. QED
    BY <1>3, <2>3, <2>4 DEF DatabaseFails
<1>4. CASE Crash(w)
  <2>1. /\ WorkerMoves(w, NoTx, "down", NoRun) /\ RowsMove(w, NoTx)
    BY <1>4 DEF Crash, WorkerMoves, Close, Down, Goto, Discard, RowsMove
  <2>2. QED
    BY <2>1, FreeInductive
<1>5. CASE Restart(w)
  <2>1. pc[w] = "down" /\ UNCHANGED <<runs, exps, tx, held>> /\ Untouched
    BY <1>5 DEF Restart
  <2>2. tx = [tx EXCEPT ![w] = NoTx] /\ held[w] = NoRun
    BY <2>1, NoneOpen, WorkerFacts DEF Leased, TxShape
  <2>3. WorkerMoves(w, NoTx, "idle", NoRun) /\ RowsMove(w, NoTx)
    BY <1>1, <1>5, <2>1, <2>2 DEF Restart, WorkerMoves, Goto, RowsMove, Untouched
  <2>4. QED
    BY <2>3, FreeInductive
<1>6. QED
  BY <1>2, <1>3, <1>4, <1>5 DEF Fault

-----------------------------------------------------------------------------
(* Inductive is preserved by requests and by time.                         *)

\* A request's next transaction t holds no row, or what it held it still holds.
LEMMA RequestHoldsNoMore ==
  ASSUME Leased, WellFormed', NEW q \in Requests, NEW t \in TxType, NEW a,
         tx' = [tx EXCEPT ![q] = t], req' = [req EXCEPT ![q] = a],
         UNCHANGED <<pc, held>>, RowsMove(q, t),
         \/ t.writes = NoWrites
         \/ /\ t.writes = tx[q].writes /\ UNCHANGED runs
            /\ a.op = req[q].op /\ a.exp = req[q].exp /\ a.key = req[q].key
            /\ a.fp = req[q].fp
  PROVE  Inductive'
<1>1. /\ req'[q] = a /\ a \in RequestType /\ tx'[q] = t /\ q \in Sessions
  BY RequestFacts DEF Leased, WellFormed, TypeOK
<1>2. CASE t.writes = NoWrites
  BY <1>1, <1>2, NoTxIsTx, RequestKeepsInductive DEF LocksKept
<1>3. CASE /\ t.writes = tx[q].writes /\ UNCHANGED runs
           /\ a.op = req[q].op /\ a.exp = req[q].exp /\ a.key = req[q].key
           /\ a.fp = req[q].fp
  <2>1. LocksKept(q, t)
    BY <1>1, <1>3 DEF LocksKept, Leased, Inductive, OneLock
  <2>2. ASSUME NEW r \in RunIds, t.writes[r] # None PROVE RequestWrite(q, r)'
    <3>1. RequestWrite(q, r)
      BY <1>3, <2>2 DEF Leased, Inductive, WritesApply
    <3>2. QED
      BY <1>1, <1>3, <3>1 DEF RequestWrite
  <2>3. QED
    BY <1>1, <2>1, <2>2, RequestKeepsInductive
<1>4. QED
  BY <1>2, <1>3

\* start_run loads the experiment and looks the key up, or finds the key there.
LEMMA LookUpInductive ==
  ASSUME Leased, WellFormed', NEW q \in Requests,
         \/ \E e \in Exps, k \in Keys, f \in Fingerprints : ReadToQueue(q, e, k, f)
         \/ FlushExisting(q)
  PROVE  Inductive'
<1>1. /\ UNCHANGED <<runs, pc, held>> /\ tx[q].writes = NoWrites
      /\ tx \in [Sessions -> TxType] /\ tx' \in [Sessions -> TxType] /\ q \in Sessions
      /\ req \in [Requests -> RequestType]
  BY RequestFacts DEF Leased, WellFormed, TypeOK, ReadToQueue, FlushExisting, TxShape
<1>2. tx' = [tx EXCEPT ![q] = tx'[q]] /\ tx'[q].writes = NoWrites
  <2>1. CASE UNCHANGED tx
    BY <1>1, <2>1
  <2>2. ASSUME NEW e \in Exps, NEW k \in Keys, NEW f \in Fingerprints,
               tx' # tx, ReadToQueue(q, e, k, f)
        PROVE  tx' = [tx EXCEPT ![q] = tx'[q]] /\ tx'[q].writes = NoWrites
    <3> DEFINE same == {r \in RunIds : runs[r].exp = e /\ runs[r].key = k}
               found == IF same = {} THEN NoRun ELSE CHOOSE r \in same : TRUE
               t == [tx[q] EXCEPT !.phase = "read", !.exp = e, !.run = found]
    <3>1. tx' = [tx EXCEPT ![q] = t]
      BY <2>2 DEF ReadToQueue
    <3> HIDE DEF found
    <3>2. t.writes = NoWrites
      BY <1>1 DEF TxType
    <3> HIDE DEF t
    <3>3. QED
      BY <1>1, <3>1, <3>2
  <2>3. CASE FlushExisting(q)
    <3>1. Flush(q, tx[q].run, NoWrites, tx[q].exp, req[q].expSeen)
      BY <2>3 DEF FlushExisting
    <3> DEFINE t == [tx[q] EXCEPT !.phase = "flushed", !.run = tx[q].run, !.writes = NoWrites,
                                  !.exp = tx[q].exp,
                                  !.expTo = Synced(tx[q].exp, req[q].expSeen, NoWrites)]
    <3>2. tx' = [tx EXCEPT ![q] = t] /\ t.writes = NoWrites
      BY <1>1, <3>1 DEF Flush, TxType
    <3> HIDE DEF t
    <3>3. QED
      BY <1>1, <3>2
  <2>4. QED
    BY <2>1, <2>2, <2>3
<1>3. req' = [req EXCEPT ![q] = req'[q]]
  <2>1. CASE UNCHANGED req
    BY <1>1, <2>1
  <2>2. ASSUME NEW a, req' = [req EXCEPT ![q] = a] PROVE req' = [req EXCEPT ![q] = req'[q]]
    BY <1>1, <2>2
  <2>3. UNCHANGED req \/ \E a : req' = [req EXCEPT ![q] = a]
    BY DEF ReadToQueue, FlushExisting, Untouched
  <2>4. QED
    BY <2>1, <2>2, <2>3
<1>4. RowsMove(q, tx'[q]) /\ tx'[q] \in TxType
  BY <1>1 DEF RowsMove
<1>5. QED
  BY <1>1, <1>2, <1>3, <1>4, RequestHoldsNoMore

\* A request flushes the row r.
LEMMA RequestFlushInductive ==
  ASSUME Leased, WellFormed', NEW q \in Requests, NEW r \in RunIds, NEW ws \in Writes,
         NEW e \in Exps \cup {None}, NEW current \in ExperimentStatuses, ~Locked(r),
         Flush(q, r, ws, e, current), \A i \in RunIds \ {r} : ws[i] = None,
         req' = [req EXCEPT ![q] = req'[q]], UNCHANGED <<runs, pc, held>>,
         \/ /\ req'[q].op = "start" /\ ~Exists(runs[r])
            /\ ws[r] = QueuedRow(req'[q].exp, req'[q].key, req'[q].fp)
         \/ /\ req'[q].op = "cancel" /\ Exists(runs[r]) /\ ~Terminal(runs[r])
            /\ ws[r] = CancelRequested(runs[r])
  PROVE  Inductive'
<1>1. q \in Sessions /\ tx \in [Sessions -> TxType] /\ req'[q] \in RequestType
  BY RequestFacts DEF Leased, WellFormed, TypeOK
<1>2. \E t \in TxType :
        /\ tx' = [tx EXCEPT ![q] = t]
        /\ t.phase = "flushed" /\ t.run = r /\ t.writes = ws
        /\ t.seen = tx[q].seen /\ t.end = tx[q].end
  BY <1>1, FlushEffect
<1>3. PICK t \in TxType : tx' = [tx EXCEPT ![q] = t] /\ t.writes = ws
  BY <1>2
<1>4. LocksKept(q, t) /\ RowsMove(q, t)
  BY <1>3 DEF LocksKept, RowsMove, Locked
<1>5. ASSUME NEW i \in RunIds, t.writes[i] # None PROVE RequestWrite(q, i)'
  BY <1>1, <1>3, <1>5 DEF RequestWrite
<1>6. QED
  BY <1>1, <1>3, <1>4, <1>5, RequestKeepsInductive

\* create_queued_run.
LEMMA FlushNewInductive ==
  ASSUME Leased, WellFormed', NEW q \in Requests, FlushNew(q)
  PROVE  Inductive'
<1> DEFINE row == QueuedRow(req[q].exp, req[q].key, req[q].fp)
<1>1. PICK r \in RunIds :
        /\ Unused(r)
        /\ Flush(q, r, [NoWrites EXCEPT ![r] = row], req[q].exp, req[q].expSeen)
  BY DEF FlushNew
<1>2. /\ req[q].op = "start" /\ req \in [Requests -> RequestType]
      /\ req[q].exp \in Exps /\ req[q].key \in Keys /\ req[q].fp \in Fingerprints
      /\ req[q].expSeen \in ExperimentStatuses
  BY RequestFacts DEF Leased, WellFormed, TypeOK, FlushNew, AskedFor
<1>3. row \in Row
  BY <1>2, InsertedRow
<1>4. UNCHANGED <<runs, pc, held>> /\ req' = req /\ req' = [req EXCEPT ![q] = req'[q]]
  BY <1>2 DEF FlushNew, Untouched
<1>5. ~Locked(r) /\ ~Exists(runs[r])
  BY <1>1 DEF Unused
<1> DEFINE ws == [NoWrites EXCEPT ![r] = row]
<1>6. ws \in Writes /\ ws[r] = row /\ \A i \in RunIds \ {r} : ws[i] = None
  <2> HIDE DEF row
  <2>1. QED
    BY <1>3 DEF Writes, NoWrites
<1>7. Flush(q, r, ws, req[q].exp, req[q].expSeen) /\ row = QueuedRow(req'[q].exp, req'[q].key, req'[q].fp)
  BY <1>1, <1>4
<1> HIDE DEF ws, row
<1>8. QED
  BY <1>2, <1>4, <1>5, <1>6, <1>7, RequestFlushInductive

\* request_run_cancellation.
LEMMA FlushCancelInductive ==
  ASSUME Leased, WellFormed', NEW q \in Requests, NEW r \in RunIds, FlushCancel(q, r)
  PROVE  Inductive'
<1>1. /\ runs[r] \in Row /\ Exists(runs[r]) /\ ~Locked(r) /\ req[q].op = "none"
      /\ req \in [Requests -> RequestType] /\ tx[q].writes = NoWrites /\ tx[q] \in TxType
      /\ tx = [tx EXCEPT ![q] = tx[q]]
      /\ UNCHANGED <<runs, exps, pc, held>>
  BY RequestFacts DEF Leased, WellFormed, TypeOK, FlushCancel, TxShape
<1>2. Columns(runs[r]) /\ runs[r].exp \in Exps /\ exps[runs[r].exp] \in ExperimentStatuses
  <2>1. runs[r].exp \in Exps
    BY <1>1 DEF Exists, Row
  <2>2. QED
    BY <2>1, RequestFacts DEF Leased, Inductive, LeaseColumns, Columns
<1>3. req' = [req EXCEPT ![q] = req'[q]]
  BY <1>1 DEF FlushCancel
<1>4. CASE UNCHANGED tx
  <2>1. RowsMove(q, tx[q])
    BY <1>1 DEF RowsMove
  <2>2. QED
    BY <1>1, <1>3, <1>4, <2>1, RequestHoldsNoMore
<1>5. CASE /\ ~Terminal(runs[r])
           /\ req' = [req EXCEPT ![q] = [@ EXCEPT !.op = "cancel", !.run = r]]
           /\ FlushRow(q, r, CancelRequested(runs[r]))
  <2> DEFINE row == CancelRequested(runs[r])
             ws == [NoWrites EXCEPT ![r] = row]
  <2>1. row \in Row /\ row.exp = runs[r].exp
    BY <1>1, CancelIsRow
  <2>2. Flush(q, r, ws, row.exp, exps[row.exp])
    BY <1>5 DEF FlushRow
  <2> HIDE DEF row
  <2>3. ws \in Writes /\ ws[r] = row /\ \A i \in RunIds \ {r} : ws[i] = None
    BY <2>1 DEF Writes, NoWrites
  <2> HIDE DEF ws
  <2>4. req'[q].op = "cancel"
    BY <1>1, <1>5 DEF RequestType
  <2>5. ws[r] = CancelRequested(runs[r])
    BY <2>3 DEF row
  <2>6. row.exp \in Exps \cup {None} /\ exps[row.exp] \in ExperimentStatuses
    BY <1>2, <2>1
  <2>7. ~Terminal(runs[r]) /\ UNCHANGED <<runs, pc, held>>
    BY <1>1, <1>5
  <2>8. QED
    BY <1>1, <1>3, <2>2, <2>3, <2>4, <2>5, <2>6, <2>7, RequestFlushInductive
<1>6. QED
  BY <1>4, <1>5 DEF FlushCancel

\* A request is answered, committed or fails.
LEMMA RequestEndInductive ==
  ASSUME Leased, WellFormed', NEW q \in Requests,
         InsertFails(q) \/ Respond(q) \/ CommitRequest(q) \/ RequestFails(q)
  PROVE  Inductive'
<1>1. /\ UNCHANGED <<pc, held>> /\ q \in Sessions /\ req \in [Requests -> RequestType]
      /\ tx[q] \in TxType /\ tx = [tx EXCEPT ![q] = tx[q]]
  BY RequestFacts DEF Leased, WellFormed, TypeOK, InsertFails, Respond, CommitRequest, RequestFails
<1>2. req' = [req EXCEPT ![q] = req'[q]]
  BY <1>1 DEF InsertFails, Respond, CommitRequest, RequestFails, Reply
<1>3. CASE Close(q) /\ (Apply(q) \/ UNCHANGED <<runs, exps>>)
  <2>1. RowsMove(q, NoTx) /\ tx' = [tx EXCEPT ![q] = NoTx]
    BY <1>1, <1>3, AppliedRowsMove DEF Leased, Close
  <2>2. QED
    BY <1>1, <1>2, <2>1, NoTxIsTx, RequestHoldsNoMore
<1>4. CASE Respond(q)
  <2>1. UNCHANGED <<runs, tx>> /\ req'[q] = [req[q] EXCEPT !.run = tx[q].run, !.reply = "ok"]
    BY <1>1, <1>4 DEF Respond, Reply
  <2>2. /\ req'[q].op = req[q].op /\ req'[q].exp = req[q].exp /\ req'[q].key = req[q].key
        /\ req'[q].fp = req[q].fp
    BY <1>1, <2>1 DEF RequestType
  <2>3. RowsMove(q, tx[q])
    BY <2>1 DEF RowsMove
  <2>4. QED
    BY <1>1, <1>2, <2>1, <2>2, <2>3, RequestHoldsNoMore
<1>5. QED
  BY <1>3, <1>4 DEF InsertFails, CommitRequest, RequestFails, Discard

\* A lease runs out, under no live worker that holds it.
LEMMA LeaseExpiresInductive ==
  ASSUME Leased, Timely, NEW r \in RunIds, LeaseExpires(r)
  PROVE  Inductive'
<1>1. /\ runs \in [RunIds -> Row] /\ UNCHANGED <<tx, pc, held, req>>
      /\ ~\E w \in Workers : held[w] = r /\ runs[r].owner = w
      /\ runs[r].lease = "live" /\ ~Locked(r)
      /\ \A i \in RunIds \ {r} : runs'[i] = runs[i]
  BY DEF Leased, WellFormed, TypeOK, LeaseExpires, Untouched
<1>2. /\ runs'[r].lease = "expired" /\ runs'[r].status = runs[r].status
      /\ runs'[r].owner = runs[r].owner /\ runs'[r].exp = runs[r].exp
  BY <1>1 DEF LeaseExpires, Row
<1>3. \A s \in Sessions : tx[s].writes[r] = None
  BY <1>1 DEF Locked
<1>4. OneLock' /\ Exclusive' /\ \A w \in Workers : SeenRow(w)'
  BY <1>1 DEF Leased, Inductive, OneLock, Exclusive, SeenRow
<1>5. WritesApply'
  <2>1. ASSUME NEW w \in Workers, NEW i \in RunIds, tx[w].writes[i] # None
        PROVE  WorkerWrite(w, i)'
    <3>1. WorkerWrite(w, i) /\ runs'[i] = runs[i]
      BY <1>1, <1>3, <2>1 DEF Leased, Inductive, WritesApply, Sessions
    <3>2. QED
      BY <1>1, <3>1 DEF WorkerWrite, ClaimWrite
  <2>2. ASSUME NEW q \in Requests, NEW i \in RunIds, tx[q].writes[i] # None
        PROVE  RequestWrite(q, i)'
    <3>1. RequestWrite(q, i) /\ runs'[i] = runs[i]
      BY <1>1, <1>3, <2>2 DEF Leased, Inductive, WritesApply, Sessions
    <3>2. QED
      BY <1>1, <3>1 DEF RequestWrite
  <2>3. QED
    BY <1>1, <2>1, <2>2 DEF WritesApply
<1>6. ASSUME NEW w \in Workers, held'[w] # NoRun PROVE Holds(w)'
  <2>1. held[w] \in RunIds /\ Holds(w)
    BY <1>1, <1>6, HolderFacts DEF Leased, Inductive
  <2>2. CASE held[w] = r
    BY <1>1, <1>2, <2>1, <2>2 DEF Holds, MayHeartbeat, Terminal
  <2>3. CASE held[w] # r
    BY <1>1, <2>1, <2>3 DEF Holds
  <2>4. QED
    BY <2>2, <2>3
<1>7. LeaseColumns'
  BY <1>1, <1>2 DEF Leased, Inductive, LeaseColumns
<1>8. Blank'
  <2>1. runs[r] # NoRow
    BY <1>1 DEF NoRow
  <2>2. QED
    BY <1>1, <1>2, <2>1 DEF Leased, Inductive, Blank, Exists
<1>9. QED
  BY <1>4, <1>5, <1>6, <1>7, <1>8 DEF Inductive

-----------------------------------------------------------------------------

\* With empty tables and idle workers there is nothing to disagree on.
LEMMA InitInductive == Init => Inductive
<1> SUFFICES ASSUME Init PROVE Inductive
  OBVIOUS
<1>1. \A s \in Sessions : tx[s] = NoTx /\ \A r \in RunIds : tx[s].writes[r] = None
  BY NoTxIsTx DEF Init
<1>2. OneLock /\ WritesApply
  BY <1>1 DEF OneLock, WritesApply, Sessions
<1>3. \A w \in Workers : SeenRow(w)
  BY DEF Init, SeenRow, Outcomes
<1>4. \A w \in Workers : held[w] = NoRun
  BY DEF Init
<1>5. Exclusive
  BY <1>4 DEF Exclusive
<1>6. LeaseColumns
  BY DEF Init, LeaseColumns, NoRow, HeartbeatStatuses
<1>7. Blank
  BY DEF Init, Blank
<1>8. QED
  BY <1>2, <1>3, <1>4, <1>5, <1>6, <1>7 DEF Inductive

\* Every step of the system keeps Inductive.
LEMMA NextInductive ==
  ASSUME Timely, Leased, [Next]_vars
  PROVE  Inductive'
<1>1. WellFormed'
  BY NextWellFormed DEF Leased
<1>2. ASSUME NEW w \in Workers, WorkerNext(w) PROVE Inductive'
  BY <1>1, <1>2, ClaimOldestInductive, ClaimNothingInductive, CommitClaimInductive,
     StartInductive, ExecutionInductive, CompleteInductive, ReleaseInductive,
     FaultInductive DEF WorkerNext, Progress
<1>3. ASSUME NEW q \in Requests, RequestNext(q) PROVE Inductive'
  BY <1>1, <1>3, LookUpInductive, FlushNewInductive, FlushCancelInductive,
     RequestEndInductive DEF RequestNext, Answer
<1>4. ASSUME NEW r \in RunIds, LeaseExpires(r) PROVE Inductive'
  BY <1>4, LeaseExpiresInductive
<1>5. CASE UNCHANGED vars
  <2>1. UNCHANGED <<runs, tx, pc, held, req>>
    BY <1>5 DEF vars
  <2>2. WritesApply'
    <3>1. ASSUME NEW w \in Workers, NEW r \in RunIds, tx[w].writes[r] # None
          PROVE  WorkerWrite(w, r)'
      <4>1. WorkerWrite(w, r)
        BY <3>1 DEF Leased, Inductive, WritesApply
      <4>2. tx' = tx /\ pc' = pc /\ held' = held /\ runs' = runs
        BY <2>1
      <4>3. QED
        BY <4>1, <4>2 DEF WorkerWrite, ClaimWrite
    <3>2. ASSUME NEW q \in Requests, NEW r \in RunIds, tx[q].writes[r] # None
          PROVE  RequestWrite(q, r)'
      BY <2>1, <3>2 DEF Leased, Inductive, WritesApply, RequestWrite
    <3>3. QED
      BY <2>1, <3>1, <3>2 DEF WritesApply
  <2>3. OneLock' /\ Exclusive' /\ LeaseColumns' /\ Blank'
    BY <2>1 DEF Leased, Inductive, OneLock, Exclusive, LeaseColumns, Blank
  <2>4. \A w \in Workers : SeenRow(w)' /\ (held'[w] # NoRun => Holds(w)')
    BY <2>1 DEF Leased, Inductive, SeenRow, Holds
  <2>5. QED
    BY <2>2, <2>3, <2>4 DEF Inductive
<1>6. QED
  BY <1>2, <1>3, <1>4, <1>5 DEF Next

\* The bookkeeping of the queue agrees with the transactions in flight (runs.py,
\* worker.py): a row has one lock, a flushed row is what its operation makes of the
\* committed one, and a worker that has a run owns it under a live lease.
THEOREM QueueInvariant == Spec => []IInv
<1>1. Init => IInv
  BY InitWellFormed, InitInductive DEF IInv
<1>2. IInv /\ [Next]_vars => IInv'
  <2> SUFFICES ASSUME IInv, [Next]_vars PROVE IInv'
    OBVIOUS
  <2>1. WellFormed'
    BY NextWellFormed DEF IInv
  <2>2. Timely => Inductive'
    BY NextInductive DEF IInv, Leased
  <2>3. QED
    BY <2>1, <2>2 DEF IInv
<1>3. QED
  BY <1>1, <1>2, PTL DEF Spec

\* With leases that expire only under dead workers, no two workers process a run
\* between the commit of the claim and the end of the release (worker.py _process_run).
THEOREM LeasesExclude == ASSUME Timely PROVE Spec => []Exclusive
<1>1. IInv => Exclusive
  BY DEF IInv, Inductive
<1>2. QED
  BY <1>1, QueueInvariant, PTL

\* Under the same condition nobody reclaims, finishes or releases a run under the
\* worker that has not begun to release it: its row accepts its heartbeats.
THEOREM HoldersOwn == ASSUME Timely PROVE Spec => []HolderOwns
<1>1. IInv => HolderOwns
  <2> SUFFICES ASSUME IInv, NEW w \in Workers, pc[w] \in {"starting", "executing"} \cup Outcomes
               PROVE  MayHeartbeat(runs[held[w]], w)
    BY DEF HolderOwns
  <2>1. Leased /\ pc[w] \in Busy /\ pc[w] # "releasing"
    BY DEF IInv, Leased, Busy, Outcomes
  <2>2. QED
    BY <2>1, WorkingOwns DEF Owned
<1>2. QED
  BY <1>1, QueueInvariant, PTL

\* Under the same condition no run is stranded: a row has an owner and an expiry
\* exactly while it is leased, so requeue_expired_leases or claim_next_run reaches it.
THEOREM LeasesHaveColumns == ASSUME Timely PROVE Spec => []LeaseColumns
<1>1. IInv => LeaseColumns
  BY DEF IInv, Inductive
<1>2. QED
  BY <1>1, QueueInvariant, PTL
=============================================================================
