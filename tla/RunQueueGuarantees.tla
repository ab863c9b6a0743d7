------------------------- MODULE RunQueueGuarantees -------------------------
(***************************************************************************)
(* What the steps of RunQueue do to a run when no lease expires under the  *)
(* live worker that holds it (Timely): the action properties, and the      *)
(* refinement of RunLease step by step.  Then, in every environment, what  *)
(* an Idempotency-Key guarantees; and what the status of an experiment     *)
(* tells of its run when it is started once.                               *)
(***************************************************************************)
EXTENDS RunQueueProofs

-----------------------------------------------------------------------------
(* The steps, by what they do to the rows and to who has them.             *)

RowsStay == \A r \in RunIds : runs'[r] = runs[r]

Committed(s) ==
  \A r \in RunIds : runs'[r] = IF tx[s].writes[r] = None THEN runs[r] ELSE tx[s].writes[r]

WorkerCommits(w) ==
  /\ Committed(w)
  /\ \/ pc[w] = "idle" /\ held'[w] \in {tx[w].run, NoRun}
     \/ pc[w] = "starting" /\ held'[w] = held[w]
     \/ pc[w] \in Outcomes /\ held'[w] \in {held[w], NoRun}
     \/ pc[w] = "releasing" /\ held'[w] = NoRun

WorkerStep(w) ==
  /\ \A v \in Workers \ {w} : held'[v] = held[v]
  /\ \/ RowsStay /\ held'[w] \in {held[w], NoRun}
     \/ WorkerCommits(w)

RequestStep(q) == held' = held /\ (RowsStay \/ Committed(q))

ExpiryStep(r) ==
  /\ held' = held
  /\ runs[r].lease = "live" /\ runs'[r] = [runs[r] EXCEPT !.lease = "expired"]
  /\ \A i \in RunIds \ {r} : runs'[i] = runs[i]

\* A worker that commits nothing keeps its run or lets go of it.
LEMMA WorkerSteps ==
  ASSUME Leased, NEW w \in Workers, WorkerNext(w)
  PROVE  WorkerStep(w)
<1>1. /\ w \in Sessions /\ held \in [Workers -> RunIds \cup {NoRun}]
      /\ pc[w] \in WorkerPcs /\ runs \in [RunIds -> Row] /\ TxShape(w) /\ WellFormed
  BY WorkerFacts DEF Leased, WellFormed, TypeOK
<1>2. /\ UNCHANGED <<runs, exps>> => RowsStay
      /\ Apply(w) => Committed(w)
  BY <1>1, ApplyEffect DEF RowsStay, Committed
<1>3. /\ UNCHANGED held => \A v \in Workers : held'[v] = held[v]
      /\ Down(w) => held'[w] = NoRun /\ \A v \in Workers \ {w} : held'[v] = held[v]
  BY <1>1 DEF Down
<1>4. CASE ClaimOldest(w) \/ ClaimNothing(w) \/ TrialFails(w) \/ Conclude(w) \/ Restart(w)
  BY <1>2, <1>3, <1>4
     DEF ClaimOldest, ClaimNothing, TrialFails, Conclude, Restart, WorkerStep
<1>5. CASE CommitClaim(w)
  BY <1>1, <1>2, <1>5 DEF CommitClaim, WorkerStep, WorkerCommits
<1>6. CASE \/ ReadToStart(w) \/ FlushStart(w) \/ ReadToComplete(w) \/ FlushComplete(w)
           \/ FlushRelease(w)
  BY <1>2, <1>3, <1>6
     DEF ReadToStart, FlushStart, ReadToComplete, FlushComplete, FlushRelease, WorkerStep
<1>7. CASE CommitStart(w)
  BY <1>2, <1>3, <1>7 DEF CommitStart, WorkerStep, WorkerCommits
<1>8. CASE CommitComplete(w)
  BY <1>1, <1>2, <1>8 DEF CommitComplete, WorkerStep, WorkerCommits
<1>9. CASE ReadToRelease(w)
  BY <1>2, <1>3, <1>9 DEF ReadToRelease, WorkerStep
<1>10. CASE CommitRelease(w)
  BY <1>2, <1>3, <1>10 DEF CommitRelease, WorkerStep, WorkerCommits
<1>11. CASE Heartbeat(w)
  <2>1. pc[w] \in Busy /\ pc[w] # "releasing"
    BY <1>11 DEF Heartbeat, Busy, Outcomes
  <2>2. Heartbeaten(runs[held[w]]) = runs[held[w]]
    BY <2>1, WorkingOwns, HeartbeatOfLive
  <2>3. RowsStay
    BY <1>1, <1>11, <2>2 DEF Heartbeat, RowsStay
  <2>4. QED
    BY <1>3, <1>11, <2>3 DEF Heartbeat, WorkerStep
<1>12. CASE Stop(w) \/ Crash(w)
  BY <1>2, <1>3, <1>12 DEF Stop, Crash, Discard, WorkerStep
<1>13. CASE DatabaseFails(w)
  <2>1. Discard \/ (tx[w].phase = "flushed" /\ Apply(w))
    BY <1>13 DEF DatabaseFails
  <2>2. CASE Discard
    BY <1>2, <1>3, <1>13, <2>2 DEF DatabaseFails, Discard, WorkerStep
  <2>3. CASE tx[w].phase = "flushed" /\ Apply(w)
    <3>1. pc[w] \in {"idle", "starting", "releasing"} \cup Outcomes
      BY <1>1, <2>3 DEF TxShape, WorkerPcs
    <3>2. QED
      BY <1>2, <1>3, <1>13, <2>3, <3>1
         DEF DatabaseFails, WorkerStep, WorkerCommits, Outcomes
  <2>4. QED
    BY <2>1, <2>2, <2>3
<1>14. QED
  BY <1>4, <1>5, <1>6, <1>7, <1>8, <1>9, <1>10, <1>11, <1>12, <1>13
     DEF WorkerNext, Progress, Fault

\* A request moves rows only by its commit, and gives no worker a run.
LEMMA RequestSteps ==
  ASSUME Leased, NEW q \in Requests, RequestNext(q)
  PROVE  RequestStep(q)
<1>1. /\ UNCHANGED <<runs, exps>> => RowsStay
      /\ Apply(q) => Committed(q)
  BY RequestFacts, ApplyEffect DEF Leased, RowsStay, Committed
<1>2. held' = held /\ (UNCHANGED <<runs, exps>> \/ Apply(q))
  BY DEF RequestNext, Answer, ReadToQueue, FlushCancel, FlushExisting, FlushNew, InsertFails,
         CommitRequest, Respond, RequestFails, Discard, Untouched
<1>3. QED
  BY <1>1, <1>2 DEF RequestStep

\* Every step is of one of these kinds.
LEMMA StepKinds ==
  ASSUME Leased, [Next]_vars
  PROVE  \/ \E w \in Workers : WorkerStep(w)
         \/ \E q \in Requests : RequestStep(q)
         \/ \E r \in RunIds : ExpiryStep(r)
         \/ RowsStay /\ held' = held
<1>1. ASSUME NEW r \in RunIds, LeaseExpires(r) PROVE ExpiryStep(r)
  BY <1>1 DEF Leased, WellFormed, TypeOK, LeaseExpires, ExpiryStep
<1>2. CASE UNCHANGED vars
  BY <1>2 DEF vars, RowsStay
<1>3. QED
  BY <1>1, <1>2, WorkerSteps, RequestSteps DEF Next

\* What a step may do to one row.
LEMMA RowChanges ==
  ASSUME Leased, [Next]_vars, NEW r \in RunIds, runs'[r] # runs[r]
  PROVE  \/ \E w \in Workers : tx[w].writes[r] # None /\ runs'[r] = tx[w].writes[r]
         \/ \E q \in Requests : tx[q].writes[r] # None /\ runs'[r] = tx[q].writes[r]
         \/ runs[r].lease = "live" /\ runs'[r] = [runs[r] EXCEPT !.lease = "expired"]
BY StepKinds DEF WorkerStep, WorkerCommits, RequestStep, ExpiryStep, RowsStay, Committed

\* A row whose lease runs out changes in nothing else; it was leased.
LEMMA ExpiredRow ==
  ASSUME NEW row \in Row, Columns(row), row.lease = "live"
  PROVE  LET new == [row EXCEPT !.lease = "expired"]
         IN  /\ new.status = row.status /\ new.attempt = row.attempt /\ new.exp = row.exp
             /\ row.status \in HeartbeatStatuses /\ row.status # "queued" /\ ~Terminal(row)
<1>1. row.status \in HeartbeatStatuses
  BY DEF Columns
<1>2. QED
  BY <1>1, StatusKinds DEF Row

-----------------------------------------------------------------------------
(* The action properties.                                                  *)

\* No late UPDATE of a worker, no reclaim and no cancellation changes a row that has
\* ended (runs.py: RunAlreadyTerminalError), if leases expire only under dead workers.
THEOREM EndedStaysEnded == ASSUME Timely PROVE Spec => TerminalStable
<1>1. ASSUME IInv, [Next]_vars
      PROVE  [\A r \in RunIds : Terminal(runs[r]) => runs'[r] = runs[r]]_vars
  <2>1. Leased
    BY <1>1 DEF IInv, Leased
  <2>2. ASSUME NEW r \in RunIds, runs'[r] # runs[r] PROVE ~Terminal(runs[r])
    <3>1. runs[r] \in Row /\ Columns(runs[r])
      BY <2>1 DEF Leased, WellFormed, TypeOK, Inductive, LeaseColumns, Columns
    <3>2. QED
      BY <1>1, <2>1, <2>2, <3>1, RowChanges, WorkerWriteFacts, RequestWriteFacts, ExpiredRow
  <2>3. QED
    BY <2>2
<1>2. QED
  BY <1>1, QueueInvariant, PTL DEF Spec, TerminalStable

\* What may happen to a run at lease_attempt_limit whose lease is not released.
LEMMA LimitHolds ==
  ASSUME Leased, [Next]_vars, NEW r \in RunIds,
         runs[r].lease # "null", runs[r].attempt >= MaxAttempts,
         runs'[r].status = "queued" \/ runs'[r].attempt # runs[r].attempt
  PROVE  \E w \in Workers : pc[w] = "releasing" /\ held[w] = r
<1>1. /\ runs[r] \in Row /\ Columns(runs[r]) /\ runs[r].attempt \in Nat /\ MaxAttempts \in Nat
  BY MaxAttemptsAssumption
     DEF Leased, WellFormed, TypeOK, Inductive, LeaseColumns, Columns, Row
<1>2. runs[r].status # "queued" /\ runs[r].status \in HeartbeatStatuses
  BY <1>1, StatusKinds DEF Columns
<1>3. runs'[r] # runs[r]
  BY <1>2
<1>4. ASSUME NEW w \in Workers, tx[w].writes[r] # None, runs'[r] = tx[w].writes[r]
      PROVE  pc[w] = "releasing" /\ held[w] = r
  <2>1. CASE runs'[r] = Requeued(runs[r])
    BY <1>1, <2>1, RequeuedRow
  <2>2. CASE pc[w] \in {"starting"} /\ runs'[r] = StartedOver(runs[r])
    BY <1>1, <2>2, StartedRow
  <2>3. CASE tx[w].end \in TerminalRunStatuses /\ runs'[r] = Completed(runs[r], tx[w].end)
    <3>1. Terminal(runs'[r]) /\ runs'[r].attempt = runs[r].attempt
      BY <1>1, <2>3, CompletedRow
    <3>2. QED
      BY <3>1 DEF Terminal, TerminalRunStatuses
  <2>4. QED
    BY <1>1, <1>2, <1>4, <2>1, <2>2, <2>3, WorkerWriteCases
<1>5. ASSUME NEW q \in Requests, tx[q].writes[r] # None, runs'[r] = tx[q].writes[r]
      PROVE  FALSE
  <2>1. runs[r] # NoRow
    BY DEF NoRow
  <2>2. QED
    BY <1>2, <1>5, <2>1, RequestWriteFacts
<1>6. ~(runs[r].lease = "live" /\ runs'[r] = [runs[r] EXCEPT !.lease = "expired"])
  BY <1>1, ExpiredRow
<1>7. QED
  BY <1>3, <1>4, <1>5, <1>6, RowChanges

\* At lease_attempt_limit a leased run reaches another claim only when its own worker
\* gives it back (requeue_expired_leases, release_owned_lease), under the same condition.
THEOREM LimitIsKept == ASSUME Timely PROVE Spec => LimitPassedByRelease
<1>1. ASSUME IInv, [Next]_vars
      PROVE  [\A r \in RunIds :
                /\ runs[r].lease # "null" /\ runs[r].attempt >= MaxAttempts
                /\ runs'[r].status = "queued" \/ runs'[r].attempt # runs[r].attempt
                => \E w \in Workers : pc[w] = "releasing" /\ held[w] = r]_vars
  <2>1. Leased
    BY <1>1 DEF IInv, Leased
  <2>2. QED
    BY <1>1, <2>1, LimitHolds
<1>2. QED
  BY <1>1, QueueInvariant, PTL DEF Spec, LimitPassedByRelease

\* What may make a run that is being cancelled run on or wait again.
LEMMA RevivalSeen ==
  ASSUME Leased, [Next]_vars, NEW r \in RunIds,
         runs[r].status = "cancelling", runs'[r].status \in {"running", "queued"}
  PROVE  \E w \in Workers : /\ held[w] = r /\ tx[w].phase = "flushed"
                            /\ tx[w].seen.status \in {"claimed", "running"}
<1>1. runs[r] \in Row /\ Columns(runs[r])
  BY DEF Leased, WellFormed, TypeOK, Inductive, LeaseColumns, Columns
<1>2. runs'[r] # runs[r] /\ runs[r].status \notin LeasedStatuses /\ runs[r].status # "queued"
  BY DEF LeasedStatuses
<1>3. ASSUME NEW w \in Workers, tx[w].writes[r] # None, runs'[r] = tx[w].writes[r]
      PROVE  /\ held[w] = r /\ tx[w].phase = "flushed"
             /\ tx[w].seen.status \in {"claimed", "running"}
  <2>1. /\ tx[w].phase = "flushed" /\ SeenRow(w) /\ tx[w].seen \in Row
    <3>1. w \in Sessions /\ tx[w].seen \in Row
      BY WorkerFacts DEF Leased, TxType
    <3>2. QED
      BY <1>3, <3>1, WritesAreFlushed DEF Leased, Inductive
  <2>2. CASE pc[w] = "starting" /\ r = held[w]
    BY <2>1, <2>2 DEF SeenRow
  <2>3. CASE tx[w].end \in TerminalRunStatuses /\ runs'[r] = Completed(runs[r], tx[w].end)
    <3>1. Terminal(runs'[r])
      BY <1>1, <2>3, CompletedRow
    <3>2. QED
      BY <3>1 DEF Terminal, TerminalRunStatuses
  <2>4. CASE /\ pc[w] = "releasing" /\ r = held[w]
             /\ runs'[r] = ReleasedOver(runs[r], tx[w].seen)
    <3>1. tx[w].seen.status # "cancelling"
      BY <1>1, <2>1, <2>4, ReleasedRow
    <3>2. QED
      BY <2>1, <2>4, <3>1 DEF SeenRow, HeartbeatStatuses
  <2>5. QED
    BY <1>2, <1>3, <2>2, <2>3, <2>4, WorkerWriteCases DEF Reclaimable
<1>4. ASSUME NEW q \in Requests, tx[q].writes[r] # None, runs'[r] = tx[q].writes[r]
      PROVE  FALSE
  <2>1. runs[r] # NoRow
    BY DEF NoRow
  <2>2. QED
    BY <1>2, <1>4, <2>1, RequestWriteFacts
<1>5. ~(runs[r].lease = "live" /\ runs'[r] = [runs[r] EXCEPT !.lease = "expired"])
  BY <1>1, ExpiredRow
<1>6. QED
  BY <1>2, <1>3, <1>4, <1>5, RowChanges

\* A run that was to be cancelled runs on, or waits again, only through a worker that
\* had read its row before (mark_run_running, release_owned_lease), when leases expire
\* only under dead workers.
THEOREM RevivedOnlyUnseen == ASSUME Timely PROVE Spec => RevivedUnseen
<1>1. ASSUME IInv, [Next]_vars
      PROVE  [\A r \in RunIds :
                runs[r].status = "cancelling" /\ runs'[r].status \in {"running", "queued"} =>
                  \E w \in Workers : /\ held[w] = r /\ tx[w].phase = "flushed"
                                     /\ tx[w].seen.status \in {"claimed", "running"}]_vars
  <2>1. Leased
    BY <1>1 DEF IInv, Leased
  <2>2. QED
    BY <1>1, <2>1, RevivalSeen
<1>2. QED
  BY <1>1, QueueInvariant, PTL DEF Spec, RevivedUnseen

-----------------------------------------------------------------------------
(* RunQueue implements RunLease: every step moves each run by a step of    *)
(* RunLease, or leaves it where it is.                                     *)

\* WorkerOf(r), when the workers have the runs `has`.
WorkerIn(has, r) ==
  IF \E w \in Workers : has[w] = r THEN CHOOSE w \in Workers : has[w] = r ELSE None

\* Lease!Moves(r, to, by, n).
RunMoves(r, to, by, n) ==
  StateOf(runs'[r]) = to /\ WorkerIn(held', r) = by /\ runs'[r].attempt = n

\* The one worker that has a run, and no worker.
LEMMA WorkerInOne ==
  ASSUME NEW has, NEW r
  PROVE  /\ \A w \in Workers : has[w] = r /\ (\A v \in Workers \ {w} : has[v] # r)
                                 => WorkerIn(has, r) = w
         /\ (\A w \in Workers : has[w] # r) => WorkerIn(has, r) = None
         /\ WorkerIn(has, r) \in Workers \cup {None}
BY DEF WorkerIn

\* StateOf, by the kinds of statuses.
LEMMA StateKinds ==
  ASSUME NEW row \in Row
  PROVE  /\ StateOf(row) \in {"absent", "waiting", "leased", "ended"}
         /\ ~Exists(row) => StateOf(row) = "absent"
         /\ Exists(row) /\ row.status = "queued" => StateOf(row) = "waiting"
         /\ Exists(row) /\ row.status \in HeartbeatStatuses => StateOf(row) = "leased"
         /\ Exists(row) /\ Terminal(row) => StateOf(row) = "ended"
<1>1. ~Exists(row) => StateOf(row) = "absent"
  BY DEF StateOf
<1>2. Exists(row) /\ row.status = "queued" => StateOf(row) = "waiting"
  BY DEF StateOf
<1>3. Exists(row) /\ row.status \in HeartbeatStatuses => StateOf(row) = "leased"
  BY StatusKinds DEF StateOf
<1>4. Exists(row) /\ Terminal(row) => StateOf(row) = "ended"
  BY StatusKinds DEF StateOf
<1>5. QED
  BY <1>1, <1>2, <1>3, <1>4, StatusKinds

\* One worker has the run, or nobody has it.
LEMMA HeldByOne ==
  ASSUME Exclusive, NEW r \in RunIds
  PROVE  /\ \A w \in Workers : held[w] = r =>
              WorkerIn(held, r) = w /\ \A v \in Workers \ {w} : held[v] # r
         /\ (\A w \in Workers : held[w] # r) => WorkerIn(held, r) = None
<1>1. r # NoRun
  BY DEF RunIds, NoRun
<1>2. ASSUME NEW w \in Workers, held[w] = r PROVE \A v \in Workers \ {w} : held[v] # r
  BY <1>1, <1>2 DEF Exclusive
<1>3. QED
  BY <1>2, WorkerInOne

\* The steps of RunLease, in terms of the rows and of held.
LEMMA LeaseSteps ==
  ASSUME NEW r \in RunIds,
         LET from == StateOf(runs[r])  by == WorkerIn(held, r)  n == runs[r].attempt
         IN  \/ RunMoves(r, from, by, n)
             \/ by # None /\ RunMoves(r, from, None, n)
             \/ from = "absent" /\ RunMoves(r, "waiting", None, 0)
             \/ /\ by = None /\ (from = "waiting" \/ (from = "leased" /\ n < MaxAttempts))
                /\ \E w \in Workers \cup {None} : RunMoves(r, "leased", w, n + 1)
             \/ /\ from = "leased" /\ by = None
                /\ RunMoves(r, IF n < MaxAttempts THEN "waiting" ELSE "ended", None, n)
             \/ from = "waiting" /\ by = None /\ RunMoves(r, "ended", None, n)
             \/ /\ from = "leased" /\ by # None
                /\ \E w \in {by, None} : RunMoves(r, "ended", w, n)
             \/ from = "leased" /\ by # None /\ RunMoves(r, "waiting", None, n)
  PROVE  Lease!Step(r)
<1>1. /\ [i \in RunIds |-> StateOf(runs[i])][r] = StateOf(runs[r])
      /\ [i \in RunIds |-> WorkerOf(i)][r] = WorkerIn(held, r)
      /\ [i \in RunIds |-> runs[i].attempt][r] = runs[r].attempt
  BY DEF WorkerOf, WorkerIn
<1>2. /\ [i \in RunIds |-> StateOf(runs[i])]'[r] = StateOf(runs'[r])
      /\ [i \in RunIds |-> WorkerOf(i)]'[r] = WorkerIn(held', r)
      /\ [i \in RunIds |-> runs[i].attempt]'[r] = runs'[r].attempt
  BY DEF WorkerOf, WorkerIn
<1> DEFINE from == StateOf(runs[r])
           by == WorkerIn(held, r)
           n == runs[r].attempt
<1>3. RunMoves(r, from, by, n) => Lease!Step(r)
  BY <1>1, <1>2 DEF Lease!Step, Lease!Moves, RunMoves
<1>4. by # None /\ RunMoves(r, from, None, n) => Lease!LetGo(r)
  BY <1>1, <1>2 DEF Lease!LetGo, Lease!Moves, RunMoves
<1>5. from = "absent" /\ RunMoves(r, "waiting", None, 0) => Lease!Submit(r)
  BY <1>1, <1>2 DEF Lease!Submit, Lease!Moves, RunMoves
<1>6. ASSUME by = None, from = "waiting" \/ (from = "leased" /\ n < MaxAttempts),
             \E w \in Workers \cup {None} : RunMoves(r, "leased", w, n + 1)
      PROVE  Lease!Claim(r)
  BY <1>1, <1>2, <1>6 DEF Lease!Claim, Lease!Moves, RunMoves
<1>7. ASSUME from = "leased", by = None,
             RunMoves(r, IF n < MaxAttempts THEN "waiting" ELSE "ended", None, n)
      PROVE  Lease!Reclaim(r)
  BY <1>1, <1>2, <1>7 DEF Lease!Reclaim, Lease!Moves, RunMoves
<1>8. from = "waiting" /\ by = None /\ RunMoves(r, "ended", None, n) => Lease!CancelWaiting(r)
  BY <1>1, <1>2 DEF Lease!CancelWaiting, Lease!Moves, RunMoves
<1>9. ASSUME from = "leased", by # None, \E w \in {by, None} : RunMoves(r, "ended", w, n)
      PROVE  Lease!End(r)
  BY <1>1, <1>2, <1>9 DEF Lease!End, Lease!Moves, RunMoves
<1>10. from = "leased" /\ by # None /\ RunMoves(r, "waiting", None, n) => Lease!GiveBack(r)
  BY <1>1, <1>2 DEF Lease!GiveBack, Lease!Moves, RunMoves
<1> HIDE DEF from, by, n
<1>11. \/ RunMoves(r, from, by, n)
       \/ by # None /\ RunMoves(r, from, None, n)
       \/ from = "absent" /\ RunMoves(r, "waiting", None, 0)
       \/ /\ by = None /\ (from = "waiting" \/ (from = "leased" /\ n < MaxAttempts))
          /\ \E w \in Workers \cup {None} : RunMoves(r, "leased", w, n + 1)
       \/ /\ from = "leased" /\ by = None
          /\ RunMoves(r, IF n < MaxAttempts THEN "waiting" ELSE "ended", None, n)
       \/ from = "waiting" /\ by = None /\ RunMoves(r, "ended", None, n)
       \/ /\ from = "leased" /\ by # None
          /\ \E w \in {by, None} : RunMoves(r, "ended", w, n)
       \/ from = "leased" /\ by # None /\ RunMoves(r, "waiting", None, n)
  BY DEF from, by, n
<1>12. QED
  BY <1>3, <1>4, <1>5, <1>6, <1>7, <1>8, <1>9, <1>10, <1>11 DEF Lease!Step

\* A run whose row keeps its state and count, while workers keep it or let it go.
LEMMA RunStays ==
  ASSUME Leased, NEW r \in RunIds, Exclusive',
         StateOf(runs'[r]) = StateOf(runs[r]), runs'[r].attempt = runs[r].attempt,
         \A w \in Workers : held'[w] = r => held[w] = r
  PROVE  Lease!Step(r)
<1>1. Exclusive
  BY DEF Leased, Inductive
<1>2. CASE \E w \in Workers : held'[w] = r
  <2>1. PICK w \in Workers : held'[w] = r
    BY <1>2
  <2>2. WorkerIn(held, r) = w
    BY <1>1, <2>1, HeldByOne
  <2>3. \A v \in Workers \ {w} : held'[v] # r
    BY <1>1, <2>1, HeldByOne
  <2>4. WorkerIn(held', r) = w
    BY <2>1, <2>3, WorkerInOne
  <2>5. RunMoves(r, StateOf(runs[r]), WorkerIn(held, r), runs[r].attempt)
    BY <2>2, <2>4 DEF RunMoves
  <2>6. QED
    BY <2>5, LeaseSteps
<1>3. CASE \A w \in Workers : held'[w] # r
  <2>1. RunMoves(r, StateOf(runs[r]), None, runs[r].attempt)
    BY <1>3, WorkerInOne DEF RunMoves
  <2>2. QED
    BY <2>1, LeaseSteps
<1>4. QED
  BY <1>2, <1>3

\* The commit of a request: it submits a run, ends one that waits, or marks a leased
\* one as cancelling, under the worker that has it.
LEMMA RequestStepRefines ==
  ASSUME Leased, Exclusive', NEW q \in Requests, RequestStep(q), NEW r \in RunIds
  PROVE  Lease!Step(r)
<1>1. runs[r] \in Row /\ Exclusive /\ held' = held
  BY DEF RequestStep, Leased, WellFormed, TypeOK, Inductive
<1>2. CASE runs'[r] = runs[r]
  BY <1>1, <1>2, RunStays
<1>3. CASE tx[q].writes[r] # None /\ runs'[r] = tx[q].writes[r]
  <2> DEFINE row == runs[r]
             new == runs'[r]
  <2>1. /\ new \in Row /\ Exists(new)
        /\ \/ row = NoRow /\ new.status = "queued" /\ new.attempt = 0
           \/ /\ Exists(row) /\ new.attempt = row.attempt
              /\ \/ row.status = "queued" /\ new.status = "cancelled"
                 \/ row.status \in HeartbeatStatuses /\ new.status = "cancelling"
    BY <1>3, RequestWriteFacts
  <2>2. CASE row = NoRow /\ new.status = "queued" /\ new.attempt = 0
    <3>1. ~Exists(row)
      BY <2>2 DEF NoRow, Exists
    <3>2. \A w \in Workers : held'[w] # r
      BY <1>1, <3>1, HolderFacts DEF RunIds, NoRun
    <3>3. RunMoves(r, "waiting", None, 0) /\ StateOf(row) = "absent"
      BY <1>1, <2>1, <2>2, <3>1, <3>2, WorkerInOne, StateKinds DEF RunMoves
    <3>4. QED
      BY <3>3, LeaseSteps
  <2>3. CASE /\ Exists(row) /\ new.attempt = row.attempt
             /\ row.status = "queued" /\ new.status = "cancelled"
    <3>1. \A w \in Workers : held[w] # r
      BY <2>3, HolderFacts DEF RunIds, NoRun
    <3>2. Terminal(new)
      BY <2>3 DEF Terminal, TerminalRunStatuses
    <3>3. /\ RunMoves(r, "ended", None, row.attempt) /\ StateOf(row) = "waiting"
          /\ WorkerIn(held, r) = None
      BY <1>1, <2>1, <2>3, <3>1, <3>2, WorkerInOne, StateKinds DEF RunMoves
    <3>4. QED
      BY <3>3, LeaseSteps
  <2>4. CASE /\ Exists(row) /\ new.attempt = row.attempt
             /\ row.status \in HeartbeatStatuses /\ new.status = "cancelling"
    <3>1. StateOf(new) = StateOf(row)
      BY <1>1, <2>1, <2>4, StateKinds DEF HeartbeatStatuses
    <3>2. QED
      BY <1>1, <2>4, <3>1, RunStays
  <2>5. QED
    BY <2>1, <2>2, <2>3, <2>4
<1>4. QED
  BY <1>2, <1>3 DEF RequestStep, RowsStay, Committed

\* What a worker has flushed is a step of RunLease, whoever has the run afterwards.
LEMMA CommitRefines ==
  ASSUME Leased, Exclusive', NEW w \in Workers, WorkerCommits(w),
         \A v \in Workers \ {w} : held'[v] = held[v],
         NEW r \in RunIds, tx[w].writes[r] # None, runs'[r] = tx[w].writes[r]
  PROVE  Lease!Step(r)
<1> DEFINE row == runs[r]
           new == runs'[r]
<1>1. /\ row \in Row /\ new \in Row /\ Exists(row) /\ Exists(new) /\ ~Terminal(row)
      /\ Exclusive /\ r # NoRun /\ r \in RunIds
      /\ \A v \in Workers \ {w} : held[v] # r /\ held'[v] # r
  BY WorkerWriteFacts DEF Leased, Inductive, RunIds, NoRun
<1>2. WorkerIn(held', r) = IF held'[w] = r THEN w ELSE None
  BY <1>1, WorkerInOne
<1>3. CASE pc[w] = "idle"
  <2>1. /\ \A v \in Workers : held[v] # r
        /\ held'[w] = r => r = tx[w].run
    BY <1>1, <1>3, WorkerFacts DEF Leased, WorkerCommits, Outcomes
  <2>2. WorkerIn(held, r) = None
    BY <2>1, WorkerInOne
  <2>3. CASE r # tx[w].run /\ Reclaimable(row) /\ new = Requeued(row)
    <3>1. /\ StateOf(row) = "leased" /\ new.attempt = row.attempt
          /\ StateOf(new) = IF row.attempt < MaxAttempts THEN "waiting" ELSE "ended"
      <4>1. row.status \in HeartbeatStatuses
        BY <1>1, <2>3, StatusKinds DEF Reclaimable
      <4>2. /\ new.attempt = row.attempt
            /\ new.status = IF row.attempt < MaxAttempts THEN "queued" ELSE "failed"
        BY <1>1, <2>3, RequeuedRow
      <4>3. new.status = "failed" => Terminal(new)
        BY DEF Terminal, TerminalRunStatuses
      <4>4. QED
        BY <1>1, <4>1, <4>2, <4>3, StateKinds
    <3>2. RunMoves(r, IF row.attempt < MaxAttempts THEN "waiting" ELSE "ended", None, row.attempt)
      BY <1>2, <2>1, <2>3, <3>1 DEF RunMoves
    <3>3. QED
      BY <2>2, <3>1, <3>2, LeaseSteps
  <2>4. CASE \/ row.status = "queued" /\ new = ClaimedBy(row, w)
             \/ /\ Reclaimable(row) /\ row.attempt < MaxAttempts
                /\ new = ClaimedBy(Requeued(row), w)
    <3>1. Requeued(row) \in Row /\ Requeued(row).attempt = row.attempt
      BY <1>1, RequeuedRow
    <3>2. new.attempt = row.attempt + 1 /\ new.status \in HeartbeatStatuses
      BY <1>1, <2>4, <3>1, ClaimedRow
    <3>3. \/ StateOf(row) = "waiting"
          \/ StateOf(row) = "leased" /\ row.attempt < MaxAttempts
      BY <1>1, <2>4, StateKinds, StatusKinds DEF Reclaimable
    <3>4. StateOf(new) = "leased"
      BY <1>1, <3>2, StateKinds
    <3>5. \E v \in Workers \cup {None} : RunMoves(r, "leased", v, row.attempt + 1)
      BY <1>2, <3>2, <3>4, WorkerInOne DEF RunMoves
    <3>6. QED
      BY <2>2, <3>3, <3>5, LeaseSteps
  <2>5. QED
    BY <1>3, <2>3, <2>4, WorkerWriteCases DEF Busy, Outcomes
<1>4. CASE pc[w] # "idle"
  <2>1. /\ pc[w] \in {"starting", "releasing"} \cup Outcomes /\ pc[w] \in Busy
        /\ held[w] = r /\ tx[w].phase = "flushed"
    BY <1>4, WorkerWriteCases, WritesAreFlushed, WorkerFacts DEF Leased, Busy
  <2>2. row.status \in HeartbeatStatuses
    BY <2>1, WorkingOwns
  <2>3. WorkerIn(held, r) = w /\ w # None /\ StateOf(row) = "leased"
    BY <1>1, <2>1, <2>2, WorkerInOne, StateKinds, NoneAssumption
  <2>4. CASE pc[w] = "starting" /\ new = StartedOver(row)
    <3>1. new.attempt = row.attempt /\ new.status \in HeartbeatStatuses
      BY <1>1, <2>4, StartedRow
    <3>2. held'[w] = r
      BY <2>1, <2>4 DEF WorkerCommits, Outcomes
    <3>3. RunMoves(r, StateOf(row), w, row.attempt)
      BY <1>1, <1>2, <2>3, <3>1, <3>2, StateKinds DEF RunMoves
    <3>4. QED
      BY <2>3, <3>3, LeaseSteps
  <2>5. CASE /\ pc[w] \in Outcomes /\ tx[w].end \in TerminalRunStatuses
             /\ new = Completed(row, tx[w].end)
    <3>1. new.attempt = row.attempt /\ Terminal(new)
      BY <1>1, <2>5, CompletedRow
    <3>2. RunMoves(r, "ended", IF held'[w] = r THEN w ELSE None, row.attempt)
      BY <1>1, <1>2, <3>1, StateKinds DEF RunMoves
    <3>3. \E v \in {w, None} : RunMoves(r, "ended", v, row.attempt)
      BY <3>2
    <3>4. QED
      BY <2>3, <3>3, LeaseSteps
  <2>6. CASE pc[w] = "releasing" /\ new = ReleasedOver(row, tx[w].seen)
    <3>1. tx[w].seen \in Row
      BY WorkerFacts DEF Leased, TxType
    <3>2. /\ new.attempt = row.attempt
          /\ new.status = IF tx[w].seen.status = "cancelling" THEN "cancelled" ELSE "queued"
      BY <1>1, <2>6, <3>1, ReleasedRow
    <3>3. held'[w] # r
      BY <1>1, <2>6 DEF WorkerCommits, Outcomes
    <3>4. CASE new.status = "cancelled"
      <4>1. Terminal(new)
        BY <3>4 DEF Terminal, TerminalRunStatuses
      <4>2. RunMoves(r, "ended", None, row.attempt)
        BY <1>1, <1>2, <3>2, <3>3, <4>1, StateKinds DEF RunMoves
      <4>3. \E v \in {w, None} : RunMoves(r, "ended", v, row.attempt)
        BY <4>2
      <4>4. QED
        BY <2>3, <4>3, LeaseSteps
    <3>5. CASE new.status = "queued"
      <4>1. RunMoves(r, "waiting", None, row.attempt)
        BY <1>1, <1>2, <3>2, <3>3, <3>5, StateKinds DEF RunMoves
      <4>2. QED
        BY <2>3, <4>1, LeaseSteps
    <3>6. QED
      BY <3>2, <3>4, <3>5
  <2>7. QED
    BY <1>4, <2>4, <2>5, <2>6, WorkerWriteCases
<1>5. QED
  BY <1>3, <1>4

\* A worker's step.
LEMMA WorkerStepRefines ==
  ASSUME Leased, Exclusive', NEW w \in Workers, WorkerStep(w), NEW r \in RunIds
  PROVE  Lease!Step(r)
<1>1. /\ runs[r] \in Row /\ r # NoRun /\ w \in Sessions
      /\ \A v \in Workers \ {w} : held'[v] = held[v]
      /\ held[w] \in RunIds \cup {NoRun}
  <2>1. /\ runs \in [RunIds -> Row] /\ w \in Sessions
        /\ held[w] \in RunIds \cup {NoRun}
    BY WorkerFacts DEF Leased
  <2>2. QED
    BY <2>1 DEF WorkerStep, RunIds, NoRun
<1>2. CASE runs'[r] = runs[r] /\ (held'[w] = r => held[w] = r)
  BY <1>1, <1>2, RunStays
<1>3. CASE WorkerCommits(w) /\ tx[w].writes[r] # None /\ runs'[r] = tx[w].writes[r]
  BY <1>1, <1>3, CommitRefines
<1>4. CASE RowsStay /\ held'[w] \in {held[w], NoRun}
  BY <1>1, <1>2, <1>4 DEF RowsStay
<1>5. CASE WorkerCommits(w)
  <2>1. CASE tx[w].writes[r] # None
    BY <1>3, <1>5, <2>1 DEF WorkerCommits, Committed
  <2>2. CASE tx[w].writes[r] = None
    <3>1. runs'[r] = runs[r]
      BY <1>5, <2>2 DEF WorkerCommits, Committed
    <3>2. held'[w] = r => held[w] = r
      BY <1>1, <1>5, <2>2, WorkerFacts DEF Leased, WorkerCommits, HasRun
    <3>3. QED
      BY <1>2, <3>1, <3>2
  <2>3. QED
    BY <2>1, <2>2
<1>6. QED
  BY <1>4, <1>5 DEF WorkerStep

\* A lease that runs out is no step of RunLease.
LEMMA ExpiryRefines ==
  ASSUME Leased, Exclusive', NEW i \in RunIds, ExpiryStep(i), NEW r \in RunIds
  PROVE  Lease!Step(r)
<1>1. runs[r] \in Row /\ Columns(runs[r]) /\ held' = held
  BY DEF Leased, WellFormed, TypeOK, ExpiryStep, Inductive, LeaseColumns, Columns
<1>2. CASE r # i
  BY <1>1, <1>2, RunStays DEF ExpiryStep
<1>3. CASE r = i
  <2>1. /\ runs'[r].status = runs[r].status /\ runs'[r].attempt = runs[r].attempt
        /\ runs'[r].exp = runs[r].exp
    BY <1>1, <1>3, ExpiredRow DEF ExpiryStep
  <2>2. StateOf(runs'[r]) = StateOf(runs[r])
    BY <2>1 DEF StateOf, Exists
  <2>3. QED
    BY <1>1, <2>1, <2>2, RunStays
<1>4. QED
  BY <1>2, <1>3

\* Every step of the queue is a step of RunLease, for all runs at once.
LEMMA StepRefines ==
  ASSUME Leased, Leased', [Next]_vars
  PROVE  Lease!Next
<1>1. Exclusive'
  BY DEF Leased, Inductive
<1>2. ASSUME NEW r \in RunIds PROVE Lease!Step(r)
  <2>1. CASE RowsStay /\ held' = held
    BY <1>1, <2>1, RunStays DEF RowsStay
  <2>2. QED
    BY <1>1, <2>1, StepKinds, WorkerStepRefines, RequestStepRefines, ExpiryRefines
<1>3. \A r \in RunIds : runs'[r] \in Row
  BY DEF Leased, WellFormed, TypeOK
<1>4. [r \in RunIds |-> StateOf(runs[r])]' \in [RunIds -> Lease!States]
  <2>1. \A r \in RunIds : StateOf(runs'[r]) \in {"absent", "waiting", "leased", "ended"}
    BY <1>3, StateKinds
  <2>2. QED
    BY <2>1 DEF Lease!States
<1>5. [r \in RunIds |-> WorkerOf(r)]' \in [RunIds -> Workers \cup {None}]
  <2>1. \A r \in RunIds : WorkerIn(held', r) \in Workers \cup {None}
    BY WorkerInOne
  <2>2. QED
    BY <2>1 DEF WorkerOf, WorkerIn
<1>6. [r \in RunIds |-> runs[r].attempt]' \in [RunIds -> Nat]
  <2>1. \A r \in RunIds : runs'[r].attempt \in Nat
    BY <1>3 DEF Row
  <2>2. QED
    BY <2>1
<1>7. QED
  BY <1>2, <1>4, <1>5, <1>6 DEF Lease!Next

\* The empty tables are those of RunLease.
LEMMA InitRefines == Init => Lease!Init
<1> SUFFICES ASSUME Init PROVE Lease!Init
  OBVIOUS
<1>1. \A r \in RunIds : StateOf(runs[r]) = "absent" /\ runs[r].attempt = 0
  BY DEF Init, StateOf, NoRow, Exists
<1>2. \A r \in RunIds : WorkerIn(held, r) = None
  <2>1. ASSUME NEW r \in RunIds, NEW w \in Workers PROVE held[w] # r
    <3>1. held[w] = NoRun
      BY DEF Init
    <3>2. QED
      BY <3>1 DEF RunIds, NoRun
  <2>2. QED
    BY <2>1, WorkerInOne
<1>3. [r \in RunIds |-> WorkerOf(r)] = [r \in RunIds |-> None]
  BY <1>2 DEF WorkerOf, WorkerIn
<1>4. QED
  BY <1>1, <1>3 DEF Lease!Init

\* runs.py and worker.py keep the promise of RunLease, when leases expire only under
\* dead workers: one worker per run, every claim an attempt, leases taken only from the
\* dead and only so often, ended runs left alone.
THEOREM LeasesImplemented == ASSUME Timely PROVE Spec => ImplementsLease
<1>1. IInv /\ IInv' /\ [Next]_vars => [Lease!Next]_(Lease!vars)
  BY StepRefines DEF IInv, Leased
<1>2. QED
  BY <1>1, InitRefines, QueueInvariant, PTL DEF Spec, ImplementsLease, Lease!Spec

-----------------------------------------------------------------------------
(* One run per key, and answers that name the run that was asked for,      *)
(* whether leases expire in time or not.  Keyed is inductive, given        *)
(* WellFormed.  A step adds a name to a row only when it inserts it; every *)
(* other step writes rows that carry the names they had (KeepsNames).      *)

\* The step of session s, whose next transaction is t, gives no row another name and
\* locks no row that is locked.
KeepsName(s, t, r) ==
  /\ \/ Ids(runs'[r]) = Ids(runs[r])
     \/ tx[s].writes[r] # None /\ runs'[r] = tx[s].writes[r]
  /\ \/ t.writes[r] = None
     \/ t.writes[r] = tx[s].writes[r]
     \/ ~Locked(r) /\ Exists(runs[r]) /\ Ids(t.writes[r]) = Ids(runs[r])

KeepsNames(s, t) == tx' = [tx EXCEPT ![s] = t] /\ \A r \in RunIds : KeepsName(s, t, r)

RowsKeepNames == \A r \in RunIds : Ids(runs'[r]) = Ids(runs[r])

-----------------------------------------------------------------------------
(* Names.                                                                  *)

LEMMA RowIsNamed ==
  ASSUME NEW row \in Row
  PROVE  Ids(row) \in Names
BY DEF Row, Ids, Names

\* The names of two rows are the same only if the rows exist alike.
LEMMA SameNames ==
  ASSUME NEW row1, NEW row2, Ids(row1) = Ids(row2)
  PROVE  row1.exp = row2.exp /\ row1.key = row2.key /\ row1.fp = row2.fp
         /\ (Exists(row1) <=> Exists(row2))
BY DEF Ids, Exists

LEMMA VersionsAreNamed ==
  ASSUME WellFormed, NEW r \in RunIds
  PROVE  /\ Ids(runs[r]) \in Names
         /\ \A s \in Sessions : tx[s].writes[r] # None =>
              /\ Exists(tx[s].writes[r]) /\ Ids(tx[s].writes[r]) \in Names
              /\ Named(r, Ids(tx[s].writes[r]))
         /\ Exists(runs[r]) => Named(r, Ids(runs[r]))
<1>1. runs[r] \in Row /\ \A s \in Sessions : tx[s].writes[r] \in Row \cup {None}
  BY DEF WellFormed, TypeOK, TxType
<1>2. Ids(runs[r]) \in Names
  BY <1>1, RowIsNamed
<1>3. ASSUME NEW s \in Sessions, tx[s].writes[r] # None
      PROVE  Exists(tx[s].writes[r]) /\ Ids(tx[s].writes[r]) \in Names
  BY <1>1, <1>3, RowIsNamed DEF WellFormed, WritesExist
<1>4. QED
  BY <1>2, <1>3 DEF Named

\* A name after the step is one that the row had before it.
LEMMA NoNewName ==
  ASSUME WellFormed, NEW s \in Sessions, NEW t \in TxType, KeepsNames(s, t),
         NEW r \in RunIds, NEW n, Named(r, n)'
  PROVE  Named(r, n)
<1>1. tx \in [Sessions -> TxType] /\ KeepsName(s, t, r) /\ tx' = [tx EXCEPT ![s] = t]
  BY DEF KeepsNames, WellFormed, TypeOK
<1>2. CASE Exists(runs'[r]) /\ Ids(runs'[r]) = n
  <2>1. CASE Ids(runs'[r]) = Ids(runs[r])
    BY <1>2, <2>1, SameNames DEF Named
  <2>2. CASE tx[s].writes[r] # None /\ runs'[r] = tx[s].writes[r]
    BY <1>2, <2>2 DEF Named
  <2>3. QED
    BY <1>1, <2>1, <2>2 DEF KeepsName
<1>3. ASSUME NEW v \in Sessions, tx'[v].writes[r] # None, Ids(tx'[v].writes[r]) = n
      PROVE  Named(r, n)
  <2>1. CASE v = s
    <3>1. tx'[v] = t
      BY <1>1, <2>1
    <3>2. QED
      BY <1>1, <1>3, <2>1, <3>1 DEF KeepsName, Named
  <2>2. CASE v # s
    <3>1. tx'[v] = tx[v]
      BY <1>1, <2>2
    <3>2. QED
      BY <1>3, <3>1 DEF Named
  <2>3. QED
    BY <2>1, <2>2
<1>4. QED
  BY <1>2, <1>3 DEF Named

\* Row locks stay exclusive.
LEMMA NoSharedLock ==
  ASSUME WellFormed, OneLock, NEW s \in Sessions, NEW t \in TxType, KeepsNames(s, t)
  PROVE  OneLock'
<1>1. tx \in [Sessions -> TxType] /\ tx' = [tx EXCEPT ![s] = t]
  BY DEF KeepsNames, WellFormed, TypeOK
<1>2. ASSUME NEW r \in RunIds, NEW v \in Sessions \ {s}, t.writes[r] # None
      PROVE  tx[v].writes[r] = None
  <2>1. KeepsName(s, t, r)
    BY DEF KeepsNames
  <2>2. t.writes[r] = tx[s].writes[r] \/ ~Locked(r)
    BY <1>2, <2>1 DEF KeepsName
  <2>3. QED
    BY <1>2, <2>2 DEF OneLock, Locked
<1>3. QED
  BY <1>1, <1>2 DEF OneLock

\* Names stay unique, to a row and to a key.
LEMMA NamesStayUnique ==
  ASSUME WellFormed, Keyed, NEW s \in Sessions, NEW t \in TxType, KeepsNames(s, t)
  PROVE  OneLock' /\ OneName' /\ OneKey'
<1>1. OneLock'
  BY NoSharedLock DEF Keyed
<1>2. OneName'
  BY NoNewName DEF Keyed, OneName
<1>3. OneKey'
  BY NoNewName DEF Keyed, OneKey
<1>4. QED
  BY <1>1, <1>2, <1>3

\* What another request found is still what it asked for.
LEMMA StillFound ==
  ASSUME WellFormed, Keyed, NEW s \in Sessions, NEW t \in TxType, KeepsNames(s, t),
         NEW q \in Requests, q # s, req'[q] = req[q], tx[q].run \in RunIds, Found(q)
  PROVE  Found(q)'
<1> DEFINE r == tx[q].run
<1>1. /\ tx'[q] = tx[q] /\ q \in Sessions /\ Asked(q)' = Asked(q)
  BY DEF KeepsNames, WellFormed, TypeOK, Sessions, Asked
<1>2. CASE tx[q].writes[r] # None /\ Ids(tx[q].writes[r]) = Asked(q)
  BY <1>1, <1>2 DEF Found
<1>3. CASE Exists(runs[r]) /\ Ids(runs[r]) = Asked(q)
  <2>1. Ids(runs'[r]) = Ids(runs[r])
    <3>1. CASE tx[s].writes[r] # None /\ runs'[r] = tx[s].writes[r]
      BY <1>3, <3>1, VersionsAreNamed DEF Keyed, OneName
    <3>2. QED
      BY <3>1 DEF KeepsNames, KeepsName
  <2>2. Exists(runs'[r])
    BY <1>3, <2>1, SameNames
  <2>3. QED
    BY <1>1, <1>3, <2>1, <2>2 DEF Found
<1>4. QED
  BY <1>2, <1>3 DEF Found

\* What another request found, or was answered, stands.
LEMMA StillOwnAnswer ==
  ASSUME WellFormed, Keyed, NEW s \in Sessions, NEW t \in TxType, KeepsNames(s, t),
         NEW q \in Requests, q # s, req'[q] = req[q], OwnAnswer(q)
  PROVE  OwnAnswer(q)'
<1>1. /\ tx'[q] = tx[q] /\ Asked(q)' = Asked(q)
      /\ tx[q].run \in RunIds \cup {NoRun} /\ req[q].run \in RunIds \cup {NoRun}
  BY DEF KeepsNames, WellFormed, TypeOK, Sessions, Asked, TxType, RequestType
<1>2. ASSUME tx[q].phase # "none", tx[q].run # NoRun PROVE Found(q)'
  BY <1>1, <1>2, StillFound DEF OwnAnswer
<1>3. ASSUME req[q].reply = "ok", NEW n \in Names, Named(req[q].run, n)'
      PROVE  n = Asked(q)
  BY <1>1, <1>3, NoNewName DEF OwnAnswer
<1>4. QED
  BY <1>1, <1>2, <1>3 DEF OwnAnswer

\* The step of a worker.
LEMMA WorkerKeepsKeyed ==
  ASSUME WellFormed, Keyed, NEW w \in Workers, NEW t \in TxType, KeepsNames(w, t),
         req' = req
  PROVE  Keyed'
<1>1. w \in Sessions /\ w \notin Requests
  BY RequestsAssumption DEF Sessions
<1>2. QED
  BY <1>1, NamesStayUnique, StillOwnAnswer DEF Keyed

\* The step of a request.
LEMMA RequestKeepsKeyed ==
  ASSUME WellFormed, Keyed, NEW q \in Requests, NEW t \in TxType, KeepsNames(q, t),
         NEW a \in RequestType, req' = [req EXCEPT ![q] = a],
         a.op = "start" => OwnAnswer(q)'
  PROVE  Keyed'
<1>1. q \in Sessions /\ req \in [Requests -> RequestType] /\ req'[q] = a
  BY RequestFacts DEF WellFormed, TypeOK
<1>2. ASSUME NEW p \in Requests, req'[p].op = "start" PROVE OwnAnswer(p)'
  <2>1. CASE p = q
    BY <1>1, <1>2, <2>1
  <2>2. CASE p # q
    <3>1. req'[p] = req[p]
      BY <1>1, <2>2
    <3>2. OwnAnswer(p)
      BY <1>2, <3>1 DEF Keyed
    <3>3. QED
      BY <1>1, <2>2, <3>1, <3>2, StillOwnAnswer
  <2>3. QED
    BY <2>1, <2>2
<1>3. QED
  BY <1>1, <1>2, NamesStayUnique DEF Keyed

-----------------------------------------------------------------------------
(* The steps of workers (worker.py), and time.                             *)

\* A step that writes nothing and opens or closes no transaction.
LEMMA NothingNamed ==
  ASSUME WellFormed, Keyed, UNCHANGED <<tx, req>>, RowsKeepNames
  PROVE  Keyed'
<1>1. ASSUME NEW r \in RunIds
      PROVE  Ids(runs'[r]) = Ids(runs[r]) /\ (Exists(runs'[r]) <=> Exists(runs[r]))
  BY SameNames DEF RowsKeepNames
<1>2. ASSUME NEW r \in RunIds, NEW n PROVE Named(r, n)' <=> Named(r, n)
  BY <1>1 DEF Named
<1>3. OneLock' /\ OneName' /\ OneKey'
  BY <1>2 DEF Keyed, OneLock, OneName, OneKey
<1>4. ASSUME NEW q \in Requests, req'[q].op = "start" PROVE OwnAnswer(q)'
  <2>1. /\ OwnAnswer(q) /\ Asked(q)' = Asked(q)
        /\ tx[q].run \in RunIds \cup {NoRun} /\ req[q].run \in RunIds \cup {NoRun}
    BY <1>4, RequestFacts DEF Keyed, Asked, TxType, RequestType
  <2>2. tx[q].run \in RunIds => (Found(q)' <=> Found(q))
    BY <1>1, <2>1 DEF Found
  <2>3. QED
    BY <1>2, <2>1, <2>2 DEF OwnAnswer
<1>5. QED
  BY <1>3, <1>4 DEF Keyed

\* A lease that runs out, and a heartbeat, leave the names of the row alone.
LEMMA LeaseKeepsNames ==
  ASSUME WellFormed, NEW r \in RunIds, NEW lease,
         runs' = [runs EXCEPT ![r].lease = lease] \/ runs' = [runs EXCEPT ![r] = Heartbeaten(@)]
  PROVE  RowsKeepNames
<1>1. runs \in [RunIds -> Row]
  BY DEF WellFormed, TypeOK
<1>2. Ids([runs[r] EXCEPT !.lease = lease]) = Ids(runs[r])
      /\ Ids(Heartbeaten(runs[r])) = Ids(runs[r])
  <2>1. runs[r] \in Row
    BY <1>1
  <2>2. QED
    BY <2>1 DEF Row, Ids, Heartbeaten
<1>3. QED
  BY <1>1, <1>2 DEF RowsKeepNames

\* The commit or the rollback that ends a transaction.
LEMMA EndKeepsNames ==
  ASSUME WellFormed, NEW s \in Sessions, Close(s), Apply(s) \/ Discard
  PROVE  KeepsNames(s, NoTx)
<1>1. \A r \in RunIds : NoTx.writes[r] = None
  BY NoTxIsTx
<1>2. ASSUME NEW r \in RunIds
      PROVE  runs'[r] = runs[r] \/ (tx[s].writes[r] # None /\ runs'[r] = tx[s].writes[r])
  BY ApplyEffect DEF Discard
<1>3. QED
  BY <1>1, <1>2 DEF KeepsNames, KeepsName, Close

LEMMA WorkerEndKeyed ==
  ASSUME WellFormed, Keyed, NEW w \in Workers, Close(w), Apply(w) \/ Discard, req' = req
  PROVE  Keyed'
BY EndKeepsNames, WorkerKeepsKeyed, NoTxIsTx, WorkerFacts

\* A row flushed over its committed version, which carries the same names.
LEMMA FlushKeepsNames ==
  ASSUME WellFormed, NEW s \in Sessions, NEW r \in RunIds, NEW row \in Row,
         Exists(runs[r]), ~Locked(r), Ids(row) = Ids(runs[r]), FlushRow(s, r, row),
         UNCHANGED runs
  PROVE  \E t \in TxType : KeepsNames(s, t)
<1>1. /\ tx \in [Sessions -> TxType] /\ exps \in [Exps -> ExperimentStatuses]
      /\ row.exp \in Exps
  BY SameNames DEF WellFormed, TypeOK, Exists, Row
<1>2. PICK t \in TxType :
        /\ tx' = [tx EXCEPT ![s] = t] /\ t.writes[r] = row
        /\ \A i \in RunIds \ {r} : t.writes[i] = None
  <2>1. \E t \in TxType :
          /\ tx' = [tx EXCEPT ![s] = t]
          /\ t.phase = "flushed" /\ t.run = r
          /\ t.seen = tx[s].seen /\ t.end = tx[s].end
          /\ t.writes[r] = row
          /\ \A i \in RunIds \ {r} : t.writes[i] = None
    BY <1>1, FlushRowEffect
  <2>2. QED
    BY <2>1
<1>3. QED
  BY <1>2 DEF KeepsNames, KeepsName

\* mark_run_running, complete_run and release_owned_lease write none of these columns.
LEMMA FlushKeyed ==
  ASSUME WellFormed, Keyed, NEW w \in Workers,
         FlushStart(w) \/ FlushComplete(w) \/ FlushRelease(w)
  PROVE  Keyed'
<1>1. pc[w] \in Busy
  BY DEF FlushStart, FlushComplete, FlushRelease, Busy
<1>2. /\ held[w] \in RunIds /\ Exists(runs[held[w]]) /\ runs[held[w]] \in Row
      /\ w \in Sessions /\ tx[w] \in TxType
      /\ runs[held[w]].exp \in Exps /\ exps[runs[held[w]].exp] \in ExperimentStatuses
  BY <1>1, WorkerFacts
<1>3. ~Locked(held[w]) /\ UNCHANGED runs /\ req' = req
  BY DEF FlushStart, FlushComplete, FlushRelease, Untouched
<1>4. ASSUME NEW row \in Row, Ids(row) = Ids(runs[held[w]]), FlushRow(w, held[w], row)
      PROVE  Keyed'
  BY <1>2, <1>3, <1>4, FlushKeepsNames, WorkerKeepsKeyed
<1>5. CASE FlushStart(w)
  BY <1>2, <1>4, <1>5, StartedRow DEF FlushStart
<1>6. CASE FlushComplete(w)
  <2> DEFINE row == CompletedOver(runs[held[w]], tx[w].seen, tx[w].end)
  <2>1. tx[w].end \in TerminalRunStatuses
    BY <1>2, <1>6, WorkerFacts DEF FlushComplete, TxShape, TxType
  <2>2. row \in Row
    BY <1>2, <2>1, CompletionIsRow DEF TxType
  <2>3. Ids(row) = Ids(runs[held[w]])
    BY <1>2 DEF CompletedOver, Row, Ids
  <2>4. FlushRow(w, held[w], row)
    BY <1>6 DEF FlushComplete
  <2>5. QED
    BY <1>4, <2>2, <2>3, <2>4
<1>7. CASE FlushRelease(w)
  <2> DEFINE row == ReleasedOver(runs[held[w]], tx[w].seen)
  <2>1. row \in Row /\ Ids(row) = Ids(runs[held[w]])
    BY <1>2, ReleasedRow DEF TxType
  <2>2. CASE FlushRow(w, held[w], row)
    BY <1>4, <2>1, <2>2
  <2>3. CASE Flush(w, held[w], NoWrites, runs[held[w]].exp, exps[runs[held[w]].exp])
    <3>1. /\ NoWrites \in Writes /\ \A r \in RunIds : NoWrites[r] = None
          /\ tx \in [Sessions -> TxType]
      BY NoTxIsTx, WorkerFacts
    <3>2. PICK t \in TxType : tx' = [tx EXCEPT ![w] = t] /\ t.writes = NoWrites
      <4>1. \E t \in TxType :
              /\ tx' = [tx EXCEPT ![w] = t]
              /\ t.phase = "flushed" /\ t.run = held[w] /\ t.writes = NoWrites
              /\ t.seen = tx[w].seen /\ t.end = tx[w].end
        BY <1>2, <2>3, <3>1, FlushEffect
      <4>2. QED
        BY <4>1
    <3>3. KeepsNames(w, t)
      BY <1>3, <3>1, <3>2 DEF KeepsNames, KeepsName
    <3>4. QED
      BY <1>3, <3>3, WorkerKeepsKeyed
  <2>4. QED
    BY <1>7, <2>2, <2>3 DEF FlushRelease
<1>8. QED
  BY <1>5, <1>6, <1>7

\* claim_next_run names no row anew.
LEMMA ClaimKeyed ==
  ASSUME WellFormed, Keyed, NEW w \in Workers, ClaimOldest(w) \/ ClaimNothing(w)
  PROVE  Keyed'
<1>1. /\ runs \in [RunIds -> Row] /\ exps \in [Exps -> ExperimentStatuses]
      /\ tx \in [Sessions -> TxType] /\ tx[w] \in TxType /\ w \in Sessions
      /\ req' = req /\ UNCHANGED runs
  BY WorkerFacts DEF ClaimOldest, ClaimNothing, Untouched
<1>2. /\ ExpiredWrites \in Writes
      /\ \A i \in RunIds : ExpiredWrites[i] # None =>
           ~Locked(i) /\ Exists(runs[i]) /\ Ids(ExpiredWrites[i]) = Ids(runs[i])
  <2>1. \A i \in RunIds : ExpiredWrites[i] # None =>
          Reclaimable(runs[i]) /\ ~Locked(i) /\ ExpiredWrites[i] = Requeued(runs[i])
    BY <1>1, ExpiredRows
  <2>2. \A i \in RunIds : Ids(Requeued(runs[i])) = Ids(runs[i])
    BY <1>1, RequeuedRow
  <2>3. QED
    BY <1>1, <2>1, <2>2, ExpiredRows DEF Reclaimable
<1>3. ASSUME NEW t \in TxType, tx' = [tx EXCEPT ![w] = t],
             \A i \in RunIds : t.writes[i] # None =>
               ~Locked(i) /\ Exists(runs[i]) /\ Ids(t.writes[i]) = Ids(runs[i])
      PROVE  Keyed'
  <2>1. KeepsNames(w, t)
    BY <1>1, <1>3 DEF KeepsNames, KeepsName
  <2>2. QED
    BY <1>1, <2>1, WorkerKeepsKeyed
<1>4. CASE ClaimNothing(w)
  <2> DEFINE t == [tx[w] EXCEPT !.phase = "flushed", !.writes = ExpiredWrites]
  <2>1. t \in TxType /\ t.writes = ExpiredWrites /\ tx' = [tx EXCEPT ![w] = t]
    BY <1>1, <1>2, <1>4 DEF ClaimNothing, TxType, Writes
  <2> HIDE DEF t
  <2>2. QED
    BY <1>2, <1>3, <2>1
<1>5. CASE ClaimOldest(w)
  <2> DEFINE rows == Visible(ExpiredWrites)
  <2>1. PICK r \in Claimable(rows) :
           Flush(w, r, [ExpiredWrites EXCEPT ![r] = ClaimedBy(rows[r], w)],
                 rows[r].exp, exps[rows[r].exp])
    BY <1>5 DEF ClaimOldest
  <2>2. /\ r \in RunIds /\ Exists(rows[r]) /\ ~Locked(r)
        /\ rows \in [RunIds -> Row]
        /\ rows[r] = IF ExpiredWrites[r] = None THEN runs[r] ELSE ExpiredWrites[r]
    <3>1. r \in RunIds /\ Exists(rows[r]) /\ ~Locked(r)
      BY DEF Claimable
    <3>2. QED
      BY <1>1, <1>2, <3>1, VisibleRows
  <2> HIDE DEF rows
  <2>3. rows[r] \in Row /\ Ids(rows[r]) = Ids(runs[r])
    BY <1>2, <2>2
  <2>4. rows[r].exp \in Exps /\ Exists(runs[r])
    BY <2>2, <2>3, SameNames DEF Exists, Row
  <2> DEFINE new == ClaimedBy(rows[r], w)
             ws == [ExpiredWrites EXCEPT ![r] = new]
  <2>5. new \in Row /\ Ids(new) = Ids(runs[r])
    BY <2>3, ClaimedRow
  <2> HIDE DEF new
  <2>6. ws \in Writes /\ ws[r] = new /\ \A i \in RunIds \ {r} : ws[i] = ExpiredWrites[i]
    BY <1>2, <2>2, <2>5 DEF Writes
  <2>7. Flush(w, r, ws, rows[r].exp, exps[rows[r].exp])
    BY <2>1 DEF new
  <2> HIDE DEF ws
  <2>8. \E t \in TxType :
          /\ tx' = [tx EXCEPT ![w] = t]
          /\ t.phase = "flushed" /\ t.run = r /\ t.writes = ws
          /\ t.seen = tx[w].seen /\ t.end = tx[w].end
    <3>1. exps[rows[r].exp] \in ExperimentStatuses
      BY <1>1, <2>4
    <3>2. QED
      BY <1>1, <2>2, <2>4, <2>6, <2>7, <3>1, FlushEffect
  <2>9. PICK t \in TxType : tx' = [tx EXCEPT ![w] = t] /\ t.writes = ws
    BY <2>8
  <2>10. \A i \in RunIds : t.writes[i] # None =>
           ~Locked(i) /\ Exists(runs[i]) /\ Ids(t.writes[i]) = Ids(runs[i])
    BY <1>2, <2>2, <2>4, <2>5, <2>6, <2>9
  <2>11. QED
    BY <1>3, <2>9, <2>10
<1>6. QED
  BY <1>4, <1>5

\* A worker loads the row of its run, or finds that it has to release it.
LEMMA ReadKeyed ==
  ASSUME WellFormed, Keyed, NEW w \in Workers,
         ReadToStart(w) \/ ReadToComplete(w) \/ ReadToRelease(w)
  PROVE  Keyed'
<1>1. /\ tx[w].phase = "none" /\ req' = req /\ UNCHANGED runs /\ pc[w] \in Busy
  BY DEF ReadToStart, ReadToComplete, ReadToRelease, Untouched, Busy
<1>2. /\ tx[w] = NoTx /\ NoTx \in TxType /\ NoTx.writes = NoWrites
      /\ \A r \in RunIds : NoWrites[r] = None
  BY <1>1, NoneOpen, NoTxIsTx
<1>3. /\ held[w] \in RunIds /\ runs[held[w]] \in Row /\ runs[held[w]].exp \in Exps
      /\ failedTrials \in [Exps -> BOOLEAN]
  BY <1>1, WorkerFacts
<1>4. CASE UNCHANGED tx
  BY <1>1, <1>4, NothingNamed DEF RowsKeepNames
<1>5. ASSUME NEW t \in TxType, t.writes = NoWrites, tx' = [tx EXCEPT ![w] = t]
      PROVE  Keyed'
  <2>1. KeepsNames(w, t)
    BY <1>1, <1>2, <1>5 DEF KeepsNames, KeepsName
  <2>2. QED
    BY <1>1, <2>1, WorkerKeepsKeyed
<1> DEFINE t1 == [NoTx EXCEPT !.phase = "read", !.run = held[w], !.seen = runs[held[w]]]
           end == RunStatusFor(pc[w], failedTrials[runs[held[w]].exp])
           t2 == [NoTx EXCEPT !.phase = "read", !.run = held[w], !.seen = runs[held[w]],
                              !.end = end]
<1>6. t1 \in TxType /\ t1.writes = NoWrites
  BY <1>2, <1>3 DEF TxType
<1>7. t2 \in TxType /\ t2.writes = NoWrites
  <2>1. end \in TerminalRunStatuses
    BY DEF RunStatusFor, TerminalRunStatuses
  <2> HIDE DEF end
  <2>2. QED
    BY <1>2, <1>3, <2>1 DEF TxType
<1>8. UNCHANGED tx \/ tx' = [tx EXCEPT ![w] = t1] \/ tx' = [tx EXCEPT ![w] = t2]
  BY <1>2 DEF ReadToStart, ReadToComplete, ReadToRelease
<1> HIDE DEF t1, t2
<1>9. QED
  BY <1>4, <1>5, <1>6, <1>7, <1>8

\* Every step of a worker.
LEMMA WorkerKeyed ==
  ASSUME WellFormed, Keyed, NEW w \in Workers, WorkerNext(w)
  PROVE  Keyed'
<1>1. CASE ClaimOldest(w) \/ ClaimNothing(w)
  BY <1>1, ClaimKeyed
<1>2. CASE ReadToStart(w) \/ ReadToComplete(w) \/ ReadToRelease(w)
  BY <1>2, ReadKeyed
<1>3. CASE FlushStart(w) \/ FlushComplete(w) \/ FlushRelease(w)
  BY <1>3, FlushKeyed
<1>4. CASE CommitClaim(w) \/ CommitStart(w) \/ CommitComplete(w) \/ CommitRelease(w)
  BY <1>4, WorkerEndKeyed
     DEF CommitClaim, CommitStart, CommitComplete, CommitRelease, Untouched
<1>5. CASE DatabaseFails(w) \/ Crash(w)
  BY <1>5, WorkerEndKeyed DEF DatabaseFails, Crash
<1>6. CASE Conclude(w) \/ TrialFails(w) \/ Restart(w) \/ Stop(w)
  BY <1>6, NothingNamed DEF Conclude, TrialFails, Restart, Stop, Untouched, RowsKeepNames
<1>7. CASE Heartbeat(w)
  <2>1. pc[w] \in Busy
    BY <1>7 DEF Heartbeat, Busy
  <2>2. held[w] \in RunIds
    BY <2>1, WorkerFacts
  <2>3. RowsKeepNames
    BY <1>7, <2>2, LeaseKeepsNames DEF Heartbeat
  <2>4. QED
    BY <1>7, <2>3, NothingNamed DEF Heartbeat, Untouched
<1>8. QED
  BY <1>1, <1>2, <1>3, <1>4, <1>5, <1>6, <1>7 DEF WorkerNext, Progress, Fault

-----------------------------------------------------------------------------
(* The steps of requests (services/runs.py).                               *)

LEMMA AskedIsName ==
  ASSUME WellFormed, NEW q \in Requests, req[q].op = "start"
  PROVE  Asked(q) \in Names
BY RequestFacts DEF AskedFor, Asked, Names

\* What an open transaction of a start request found is the run that it asked for.
LEMMA FoundIsAsked ==
  ASSUME WellFormed, Keyed, NEW q \in Requests, req[q].op = "start",
         tx[q].run \in RunIds, Found(q)
  PROVE  \A n \in Names : Named(tx[q].run, n) => n = Asked(q)
<1>1. q \in Sessions /\ Asked(q) \in Names
  BY RequestFacts, AskedIsName
<1>2. Named(tx[q].run, Asked(q))
  BY <1>1 DEF Found, Named
<1>3. QED
  BY <1>1, <1>2 DEF Keyed, OneName

\* start_run that looks its key up.
LEMMA LookUpKeyed ==
  ASSUME WellFormed, Keyed, NEW q \in Requests, NEW e \in Exps, NEW k \in Keys,
         NEW f \in Fingerprints, ReadToQueue(q, e, k, f)
  PROVE  Keyed'
<1> DEFINE same == {r \in RunIds : runs[r].exp = e /\ runs[r].key = k}
           asked == [NoRequest EXCEPT !.op = "start", !.exp = e, !.key = k, !.fp = f,
                                      !.expSeen = exps[e]]
           found == IF same = {} THEN NoRun ELSE CHOOSE r \in same : TRUE
           t == [tx[q] EXCEPT !.phase = "read", !.exp = e, !.run = found]
<1>1. /\ req[q].op = "none" /\ UNCHANGED runs /\ q \in Sessions
      /\ tx \in [Sessions -> TxType] /\ tx[q] \in TxType /\ tx[q] = NoTx
      /\ req \in [Requests -> RequestType] /\ exps[e] \in ExperimentStatuses
      /\ tx' = tx => tx' = [tx EXCEPT ![q] = NoTx]
  BY RequestFacts DEF ReadToQueue, TxShape, WellFormed, TypeOK
<1>2. /\ NoTx \in TxType /\ NoTx.phase = "none" /\ NoTx.writes = NoWrites
      /\ \A r \in RunIds : NoWrites[r] = None
  BY NoTxIsTx
<1>3. /\ asked \in RequestType /\ asked.op = "start" /\ asked.reply = "none"
      /\ asked.exp = e /\ asked.key = k /\ asked.fp = f
  BY <1>1 DEF NoRequest, RequestType, Replies
<1>4. found \in RunIds \cup {NoRun} /\ (found # NoRun => found \in same)
  OBVIOUS
<1>5. t \in TxType /\ t.phase = "read" /\ t.writes = NoWrites /\ t.run = found
  <2> HIDE DEF found
  <2>1. QED
    BY <1>1, <1>2, <1>4 DEF TxType
<1>6. ASSUME NEW reply \in {"refused", "conflict"}, UNCHANGED tx,
             req' = [req EXCEPT ![q] = [asked EXCEPT !.reply = reply]]
      PROVE  Keyed'
  <2> DEFINE a == [asked EXCEPT !.reply = reply]
  <2>1. a \in RequestType /\ a.reply # "ok"
    <3> HIDE DEF asked
    <3>1. QED
      BY <1>3 DEF RequestType, Replies
  <2> HIDE DEF a
  <2>2. req' = [req EXCEPT ![q] = a]
    BY <1>6 DEF a
  <2>3. OwnAnswer(q)'
    BY <1>1, <1>2, <1>6, <2>1, <2>2 DEF OwnAnswer
  <2>4. KeepsNames(q, NoTx)
    BY <1>1, <1>2, <1>6 DEF KeepsNames, KeepsName
  <2>5. QED
    BY <1>2, <2>1, <2>2, <2>3, <2>4, RequestKeepsKeyed
<1>7. CASE /\ req' = [req EXCEPT ![q] = asked] /\ tx' = [tx EXCEPT ![q] = t]
           /\ \A r \in same : runs[r].fp = f
  <2>1. found # NoRun => /\ found \in RunIds /\ Exists(runs[found])
                         /\ Ids(runs[found]) = <<e, k, f>>
    BY <1>4, <1>7, NoneAssumption DEF Exists, Ids
  <2> HIDE DEF asked, t, found, same
  <2>2. tx'[q] = t /\ req'[q] = asked
    BY <1>1, <1>7
  <2>3. found # NoRun => Found(q)'
    BY <1>1, <1>3, <1>5, <2>1, <2>2 DEF Found, Asked
  <2>4. OwnAnswer(q)'
    BY <1>3, <1>5, <2>2, <2>3 DEF OwnAnswer
  <2>5. KeepsNames(q, t)
    BY <1>1, <1>2, <1>5, <1>7 DEF KeepsNames, KeepsName
  <2>6. QED
    BY <1>3, <1>5, <1>7, <2>4, <2>5, RequestKeepsKeyed
<1>8. \/ req' = [req EXCEPT ![q] = [asked EXCEPT !.reply = "refused"]] /\ UNCHANGED tx
      \/ req' = [req EXCEPT ![q] = [asked EXCEPT !.reply = "conflict"]] /\ UNCHANGED tx
      \/ /\ req' = [req EXCEPT ![q] = asked] /\ tx' = [tx EXCEPT ![q] = t]
         /\ \A r \in same : runs[r].fp = f
  BY DEF ReadToQueue
<1>9. QED
  BY <1>6, <1>7, <1>8

\* start_run that returns the run it found under its key.
LEMMA FlushExistingKeyed ==
  ASSUME WellFormed, Keyed, NEW q \in Requests, FlushExisting(q)
  PROVE  Keyed'
<1> DEFINE r == tx[q].run
           e == tx[q].exp
           ws == NoWrites
           current == req[q].expSeen
<1>1. /\ req[q].op = "start" /\ tx[q].phase = "read" /\ r # NoRun /\ r \in RunIds
      /\ e \in Exps \cup {None} /\ current \in ExperimentStatuses
      /\ q \in Sessions /\ tx \in [Sessions -> TxType] /\ tx[q].writes = NoWrites
      /\ req[q] \in RequestType /\ req' = req /\ req' = [req EXCEPT ![q] = req[q]]
      /\ UNCHANGED runs
  BY RequestFacts DEF FlushExisting, TxType, AskedFor, TxShape, Untouched
<1>2. ws \in Writes /\ ws = NoWrites /\ \A i \in RunIds : ws[i] = None
  BY NoTxIsTx
<1>3. Flush(q, r, ws, e, current)
  BY DEF FlushExisting
<1>4. OwnAnswer(q) /\ Found(q)
  BY <1>1 DEF Keyed, OwnAnswer
<1>5. Exists(runs[r]) /\ Ids(runs[r]) = Asked(q)
  BY <1>1, <1>2, <1>4 DEF Found
<1>6. \E t \in TxType :
        /\ tx' = [tx EXCEPT ![q] = t] /\ t.phase = "flushed" /\ t.run = r /\ t.writes = ws
        /\ t.seen = tx[q].seen /\ t.end = tx[q].end
  <2> HIDE DEF r, e, ws, current
  <2>1. QED
    BY <1>1, <1>2, <1>3, FlushEffect
<1>7. PICK t \in TxType :
        tx' = [tx EXCEPT ![q] = t] /\ t.phase = "flushed" /\ t.run = r /\ t.writes = ws
  BY <1>6
<1> HIDE DEF r, e, ws, current
<1>8. KeepsNames(q, t)
  BY <1>1, <1>2, <1>7 DEF KeepsNames, KeepsName
<1>9. OwnAnswer(q)'
  <2>1. tx'[q] = t /\ Asked(q)' = Asked(q)
    BY <1>1, <1>7 DEF Asked
  <2>2. Found(q)'
    BY <1>1, <1>5, <1>7, <2>1 DEF Found
  <2>3. req[q].run \in RunIds \cup {NoRun}
    BY <1>1 DEF RequestType
  <2>4. QED
    BY <1>1, <1>4, <1>7, <1>8, <2>1, <2>2, <2>3, NoNewName DEF OwnAnswer
<1>10. QED
  BY <1>1, <1>8, <1>9, RequestKeepsKeyed

\* request_run_cancellation changes no name.
LEMMA FlushCancelKeyed ==
  ASSUME WellFormed, Keyed, NEW q \in Requests, NEW r \in RunIds, FlushCancel(q, r)
  PROVE  Keyed'
<1>1. /\ Exists(runs[r]) /\ ~Locked(r) /\ UNCHANGED runs
      /\ runs[r] \in Row /\ req[q] \in RequestType /\ q \in Sessions
      /\ tx[q] \in TxType /\ tx = [tx EXCEPT ![q] = tx[q]]
  BY RequestFacts DEF FlushCancel
<1> DEFINE a == [req[q] EXCEPT !.op = "cancel", !.run = r]
           b == [req[q] EXCEPT !.op = "cancel", !.run = r, !.reply = "terminal"]
<1>2. a \in RequestType /\ b \in RequestType /\ a.op # "start" /\ b.op # "start"
  BY <1>1 DEF RequestType, Replies
<1>3. CASE req' = [req EXCEPT ![q] = b] /\ UNCHANGED tx
  <2>1. KeepsNames(q, tx[q])
    BY <1>1, <1>3 DEF KeepsNames, KeepsName
  <2> HIDE DEF b
  <2>2. QED
    BY <1>1, <1>2, <1>3, <2>1, RequestKeepsKeyed
<1>4. CASE req' = [req EXCEPT ![q] = a] /\ FlushRow(q, r, CancelRequested(runs[r]))
  <2> DEFINE row == CancelRequested(runs[r])
  <2>1. row \in Row /\ Ids(row) = Ids(runs[r])
    BY <1>1, CancelIsRow DEF CancelRequested, Row, Ids
  <2>2. FlushRow(q, r, row)
    BY <1>4
  <2> HIDE DEF row, a
  <2>3. \E t \in TxType : KeepsNames(q, t)
    BY <1>1, <2>1, <2>2, FlushKeepsNames
  <2>4. QED
    BY <1>2, <1>4, <2>3, RequestKeepsKeyed
<1>5. QED
  BY <1>3, <1>4 DEF FlushCancel

\* create_queued_run: the only step that names a row anew, and under a key that no
\* row has and no transaction in flight inserts.
LEMMA FlushNewKeyed ==
  ASSUME WellFormed, Keyed, NEW q \in Requests, FlushNew(q)
  PROVE  Keyed'
<1> DEFINE row == QueuedRow(req[q].exp, req[q].key, req[q].fp)
<1>1. /\ req[q].op = "start" /\ tx[q].phase = "read" /\ tx[q].run = NoRun
      /\ tx[q].writes = NoWrites /\ tx \in [Sessions -> TxType] /\ q \in Sessions
      /\ req[q].exp \in Exps /\ req[q].key \in Keys /\ req[q].fp \in Fingerprints
      /\ req[q].expSeen \in ExperimentStatuses /\ UNCHANGED <<runs, req>>
      /\ runs \in [RunIds -> Row] /\ Asked(q) \in Names
  BY RequestFacts, AskedIsName DEF FlushNew, AskedFor, TxShape, Untouched
<1>2. PICK r \in RunIds :
         /\ Unused(r)
         /\ Flush(q, r, [NoWrites EXCEPT ![r] = row], req[q].exp, req[q].expSeen)
  BY DEF FlushNew
<1>3. row \in Row /\ row # None /\ Ids(row) = Asked(q)
  BY <1>1, InsertedRow, NoneIsNoRow DEF Asked
<1> DEFINE ws == [NoWrites EXCEPT ![r] = row]
<1> HIDE DEF row
<1>4. /\ ws \in Writes /\ ws[r] = row
      /\ \A i \in RunIds \ {r} : ws[i] = None
  BY <1>3 DEF Writes, NoWrites
<1> HIDE DEF ws
<1>5. Flush(q, r, ws, req[q].exp, req[q].expSeen)
  BY <1>2 DEF ws
<1>6. \E t \in TxType :
        /\ tx' = [tx EXCEPT ![q] = t] /\ t.phase = "flushed" /\ t.run = r /\ t.writes = ws
        /\ t.seen = tx[q].seen /\ t.end = tx[q].end
  BY <1>1, <1>4, <1>5, FlushEffect
<1>7. PICK t \in TxType :
        tx' = [tx EXCEPT ![q] = t] /\ t.phase = "flushed" /\ t.run = r /\ t.writes = ws
  BY <1>6
<1>8. tx'[q] = t /\ \A s \in Sessions \ {q} : tx'[s] = tx[s]
  BY <1>1, <1>7
<1>9. /\ ~Exists(runs[r]) /\ \A s \in Sessions : tx[s].writes[r] = None
      /\ \A p \in Requests : req[p].run # r
  BY <1>2 DEF Unused, Locked
<1>10. ASSUME NEW i \in RunIds \ {r}, NEW n PROVE Named(i, n)' <=> Named(i, n)
  <2>1. tx[q].writes[i] = None /\ tx'[q].writes[i] = None
    BY <1>1, <1>4, <1>7, <1>8, NoTxIsTx
  <2>2. QED
    BY <1>1, <1>8, <2>1 DEF Named
<1>11. ASSUME NEW n, Named(r, n)' PROVE n = Asked(q)
  BY <1>1, <1>3, <1>4, <1>7, <1>8, <1>9, <1>11 DEF Named
<1>12. ASSUME NEW i \in RunIds \ {r}, NEW m \in Names, Named(i, m)
       PROVE  <<m[1], m[2]>> # <<req[q].exp, req[q].key>>
  <2>1. ASSUME NEW v, Ids(v) = m PROVE m[1] = v.exp /\ m[2] = v.key
    BY <2>1 DEF Ids
  <2>2. CASE Exists(runs[i])
    <3>1. Ids(runs[i]) = m
      BY <1>12, <2>2, VersionsAreNamed DEF Keyed, OneName
    <3>2. ~SameKey(runs[i], q)
      BY DEF FlushNew
    <3>3. QED
      BY <2>1, <3>1, <3>2 DEF SameKey
  <2>3. CASE ~Exists(runs[i])
    <3>1. PICK s \in Sessions : tx[s].writes[i] # None /\ Ids(tx[s].writes[i]) = m
      BY <1>12, <2>3 DEF Named
    <3>2. ~SameKey(tx[s].writes[i], q)
      BY <2>3, <3>1 DEF FlushNew
    <3>3. QED
      BY <2>1, <3>1, <3>2 DEF SameKey
  <2>4. QED
    BY <2>2, <2>3
<1>13. OneLock'
  BY <1>1, <1>4, <1>7, <1>8, <1>9, NoTxIsTx DEF Keyed, OneLock
<1>14. OneName'
  BY <1>10, <1>11 DEF Keyed, OneName
<1>15. OneKey'
  <2>1. Asked(q)[1] = req[q].exp /\ Asked(q)[2] = req[q].key
    BY DEF Asked
  <2>2. ASSUME NEW r1 \in RunIds, NEW r2 \in RunIds, NEW n \in Names, NEW m \in Names,
               r1 # r2, Named(r1, n)', Named(r2, m)'
        PROVE  <<n[1], n[2]>> # <<m[1], m[2]>>
    <3>1. CASE r1 = r
      BY <1>10, <1>11, <1>12, <2>1, <2>2, <3>1
    <3>2. CASE r2 = r
      BY <1>10, <1>11, <1>12, <2>1, <2>2, <3>2
    <3>3. CASE r1 # r /\ r2 # r
      BY <1>10, <2>2, <3>3 DEF Keyed, OneKey
    <3>4. QED
      BY <3>1, <3>2, <3>3
  <2>3. QED
    BY <2>2 DEF OneKey
<1>16. ASSUME NEW p \in Requests, req'[p].op = "start" PROVE OwnAnswer(p)'
  <2>1. /\ OwnAnswer(p) /\ Asked(p)' = Asked(p) /\ req'[p] = req[p]
        /\ req[p].run \in RunIds \cup {NoRun} /\ p \in Sessions
    BY <1>1, <1>16, RequestFacts DEF Keyed, Asked, RequestType
  <2>2. req[p].reply = "ok" =>
          req[p].run # NoRun /\ \A n \in Names : Named(req[p].run, n)' => n = Asked(p)
    BY <1>9, <1>10, <2>1 DEF OwnAnswer
  <2>3. CASE p = q
    <3>1. Found(q)' /\ r # NoRun
      BY <1>3, <1>4, <1>7, <1>8, <2>1, <2>3 DEF Found, RunIds, NoRun
    <3>2. QED
      BY <1>7, <1>8, <2>1, <2>2, <2>3, <3>1 DEF OwnAnswer
  <2>4. CASE p # q
    <3>1. tx'[p] = tx[p] /\ (Found(p) => Found(p)')
      BY <1>1, <1>8, <2>1, <2>4 DEF Found
    <3>2. QED
      BY <2>1, <2>2, <3>1 DEF OwnAnswer
  <2>5. QED
    BY <2>3, <2>4
<1>17. QED
  BY <1>13, <1>14, <1>15, <1>16 DEF Keyed

\* The response that goes out before the commit.
LEMMA RespondKeyed ==
  ASSUME WellFormed, Keyed, NEW q \in Requests, Respond(q)
  PROVE  Keyed'
<1> DEFINE a == [req[q] EXCEPT !.run = tx[q].run, !.reply = "ok"]
<1>1. /\ tx[q].phase = "flushed" /\ UNCHANGED <<runs, tx>> /\ req' = [req EXCEPT ![q] = a]
      /\ req[q] \in RequestType /\ tx[q] \in TxType /\ q \in Sessions
      /\ tx = [tx EXCEPT ![q] = tx[q]] /\ req \in [Requests -> RequestType]
  BY RequestFacts DEF Respond, Reply, WellFormed, TypeOK
<1>2. tx[q].run \in RunIds \cup {NoRun}
  BY <1>1 DEF TxType
<1>3. /\ a \in RequestType /\ a.op = req[q].op /\ a.run = tx[q].run
      /\ a.exp = req[q].exp /\ a.key = req[q].key /\ a.fp = req[q].fp
  BY <1>1, <1>2 DEF RequestType, Replies
<1> HIDE DEF a
<1>4. KeepsNames(q, tx[q])
  BY <1>1 DEF KeepsNames, KeepsName
<1>5. req'[q] = a /\ Asked(q)' = Asked(q)
  BY <1>1, <1>3 DEF Asked
<1>6. ASSUME req[q].op = "start" PROVE OwnAnswer(q)'
  <2>1. OwnAnswer(q) /\ tx[q].run \in RunIds /\ Found(q)
    BY <1>1, <1>2, <1>6 DEF Keyed, OwnAnswer
  <2>2. \A n \in Names : Named(tx[q].run, n)' => n = Asked(q)
    BY <1>1, <1>4, <1>6, <2>1, FoundIsAsked, NoNewName
  <2>3. Found(q)'
    BY <1>1, <1>5, <2>1 DEF Found
  <2>4. QED
    BY <1>1, <1>3, <1>5, <2>1, <2>2, <2>3 DEF OwnAnswer
<1>7. QED
  BY <1>1, <1>3, <1>4, <1>6, RequestKeepsKeyed

\* The end of a request's transaction: it says "ok" and names the run of the
\* transaction, or keeps the answer that it gave, or names no run.
LEMMA RequestEndKeyed ==
  ASSUME WellFormed, Keyed, NEW q \in Requests,
         InsertFails(q) \/ CommitRequest(q) \/ RequestFails(q)
  PROVE  Keyed'
<1>1. /\ Close(q) /\ (Apply(q) \/ Discard)
      /\ req[q] \in RequestType /\ tx[q] \in TxType /\ q \in Sessions
      /\ req \in [Requests -> RequestType] /\ req = [req EXCEPT ![q] = req[q]]
      /\ tx \in [Sessions -> TxType]
  BY RequestFacts DEF InsertFails, CommitRequest, RequestFails, Discard, WellFormed, TypeOK
<1>2. /\ KeepsNames(q, NoTx) /\ NoTx \in TxType /\ NoTx.phase = "none" /\ tx'[q] = NoTx
  BY <1>1, EndKeepsNames, NoTxIsTx DEF Close
<1>3. tx[q].run \in RunIds \cup {NoRun}
  BY <1>1 DEF TxType
<1>4. CASE UNCHANGED req
  <2>1. ASSUME req[q].op = "start" PROVE OwnAnswer(q)'
    <3>1. OwnAnswer(q) /\ Asked(q)' = Asked(q) /\ req[q].run \in RunIds \cup {NoRun}
      BY <1>1, <1>4, <2>1 DEF Keyed, Asked, RequestType
    <3>2. QED
      BY <1>1, <1>2, <1>4, <3>1, NoNewName DEF OwnAnswer
  <2>2. QED
    BY <1>1, <1>2, <1>4, <2>1, RequestKeepsKeyed
<1>5. CASE Reply(q, NoRun, "error")
  <2> DEFINE a == [req[q] EXCEPT !.run = NoRun, !.reply = "error"]
  <2>1. a \in RequestType /\ a.reply # "ok" /\ req' = [req EXCEPT ![q] = a]
    BY <1>1, <1>5 DEF Reply, RequestType, Replies
  <2> HIDE DEF a
  <2>2. OwnAnswer(q)'
    BY <1>1, <1>2, <2>1 DEF OwnAnswer
  <2>3. QED
    BY <1>2, <2>1, <2>2, RequestKeepsKeyed
<1>6. CASE Reply(q, tx[q].run, "ok") /\ tx[q].phase = "flushed"
  <2> DEFINE a == [req[q] EXCEPT !.run = tx[q].run, !.reply = "ok"]
  <2>1. /\ a \in RequestType /\ a.op = req[q].op /\ a.run = tx[q].run
        /\ a.exp = req[q].exp /\ a.key = req[q].key /\ a.fp = req[q].fp
        /\ req' = [req EXCEPT ![q] = a]
    BY <1>1, <1>3, <1>6 DEF Reply, RequestType, Replies
  <2> HIDE DEF a
  <2>2. req'[q] = a /\ Asked(q)' = Asked(q)
    BY <1>1, <2>1 DEF Asked
  <2>3. ASSUME req[q].op = "start" PROVE OwnAnswer(q)'
    <3>1. OwnAnswer(q) /\ tx[q].run \in RunIds /\ Found(q)
      BY <1>3, <1>6, <2>3 DEF Keyed, OwnAnswer
    <3>2. PICK r \in RunIds : r = tx[q].run
      BY <3>1
    <3>3. \A n \in Names : Named(r, n) => n = Asked(q)
      BY <2>3, <3>1, <3>2, FoundIsAsked
    <3>4. \A n \in Names : Named(r, n)' => n = Asked(q)
      BY <1>1, <1>2, <3>3, NoNewName
    <3>5. req'[q].run = r /\ r # NoRun
      BY <2>1, <2>2, <3>2 DEF RunIds, NoRun
    <3>6. QED
      BY <1>2, <2>2, <3>4, <3>5 DEF OwnAnswer
  <2>4. QED
    BY <1>2, <2>1, <2>3, RequestKeepsKeyed
<1>7. QED
  BY <1>4, <1>5, <1>6 DEF InsertFails, CommitRequest, RequestFails

LEMMA RequestKeyed ==
  ASSUME WellFormed, Keyed, NEW q \in Requests, RequestNext(q)
  PROVE  Keyed'
BY LookUpKeyed, FlushExistingKeyed, FlushNewKeyed, FlushCancelKeyed, RespondKeyed,
   RequestEndKeyed DEF RequestNext, Answer

-----------------------------------------------------------------------------

LEMMA InitKeyed == Init => Keyed
<1> SUFFICES ASSUME Init PROVE Keyed
  OBVIOUS
<1>1. \A s \in Sessions, r \in RunIds : tx[s].writes[r] = None
  BY NoTxIsTx DEF Init
<1>2. \A r \in RunIds : ~Exists(runs[r])
  BY NewRowIsRow DEF Init, Exists, NoRow
<1>3. \A q \in Requests : req[q].op # "start"
  BY DEF Init, NoRequest
<1>4. QED
  BY <1>1, <1>2, <1>3 DEF Keyed, OneLock, OneName, OneKey, Named

LEMMA NextKeyed == WellFormed /\ Keyed /\ [Next]_vars => Keyed'
<1> SUFFICES ASSUME WellFormed, Keyed, [Next]_vars PROVE Keyed'
  OBVIOUS
<1>1. ASSUME NEW r \in RunIds, LeaseExpires(r) PROVE Keyed'
  <2>1. RowsKeepNames
    BY <1>1, LeaseKeepsNames DEF LeaseExpires
  <2>2. QED
    BY <1>1, <2>1, NothingNamed DEF LeaseExpires, Untouched
<1>2. CASE UNCHANGED vars
  BY <1>2, NothingNamed DEF vars, RowsKeepNames
<1>3. QED
  BY <1>1, <1>2, WorkerKeyed, RequestKeyed DEF Next

LEMMA KeyedIsIdempotent == WellFormed /\ Keyed => IdempotentStart
<1> SUFFICES ASSUME WellFormed, Keyed PROVE IdempotentStart
  OBVIOUS
<1>1. ASSUME NEW r1 \in RunIds, NEW r2 \in RunIds, Exists(runs[r1]), r1 # r2
      PROVE  <<runs[r1].exp, runs[r1].key>> # <<runs[r2].exp, runs[r2].key>>
  <2>1. CASE ~Exists(runs[r2])
    BY <1>1, <2>1 DEF Exists
  <2>2. CASE Exists(runs[r2])
    <3>1. /\ Ids(runs[r1]) \in Names /\ Named(r1, Ids(runs[r1]))
          /\ Ids(runs[r2]) \in Names /\ Named(r2, Ids(runs[r2]))
      BY <1>1, <2>2, VersionsAreNamed
    <3>2. <<Ids(runs[r1])[1], Ids(runs[r1])[2]>> # <<Ids(runs[r2])[1], Ids(runs[r2])[2]>>
      BY <1>1, <3>1 DEF Keyed, OneKey
    <3>3. QED
      BY <3>2 DEF Ids
  <2>3. QED
    BY <2>1, <2>2
<1>2. ASSUME NEW q \in Requests, req[q].op = "start", req[q].reply = "ok",
             Exists(runs[req[q].run])
      PROVE  SameKey(runs[req[q].run], q) /\ runs[req[q].run].fp = req[q].fp
  <2>1. req[q].run \in RunIds
    BY <1>2, RequestFacts DEF Keyed, OwnAnswer, RequestType
  <2>2. Ids(runs[req[q].run]) = Asked(q)
    BY <1>2, <2>1, VersionsAreNamed DEF Keyed, OwnAnswer
  <2>3. QED
    BY <2>2 DEF Ids, Asked, SameKey
<1>3. QED
  BY <1>1, <1>2 DEF IdempotentStart

\* However requests race, fail and are repeated, and whenever leases run out, one
\* experiment has one run per Idempotency-Key, and a successful answer names the run
\* that was created for that very request body (services/runs.py start_run).
THEOREM StartIsIdempotent == Spec => []IdempotentStart
<1>1. Init => WellFormed /\ Keyed
  BY InitWellFormed, InitKeyed
<1>2. WellFormed /\ Keyed /\ [Next]_vars => WellFormed' /\ Keyed'
  BY NextWellFormed, NextKeyed
<1>3. WellFormed /\ Keyed => IdempotentStart
  BY KeyedIsIdempotent
<1>4. QED
  BY <1>1, <1>2, <1>3, PTL DEF Spec

-----------------------------------------------------------------------------
(* The status of an experiment that is started once (OneStartSafe).        *)
(* Settling is inductive, given IInv and Keyed: the run of the experiment  *)
(* is the only one, and whoever ends it syncs the experiment in the same   *)
(* transaction.                                                            *)

\* What a transaction has made of the tables stays as it is, or is given up.
WritesStay(s) == /\ tx'[s].writes = tx[s].writes
                 /\ tx'[s].exp = tx[s].exp /\ tx'[s].expTo = tx[s].expTo
WritesGone(s) == tx'[s].expTo = None /\ \A r \in RunIds : tx'[s].writes[r] = None

RowsAlike ==
  \A r \in RunIds : /\ runs'[r].status = runs[r].status /\ runs'[r].exp = runs[r].exp
                    /\ runs'[r].attempt = runs[r].attempt

\* The steps, by what they do to the statuses of runs and experiments.
QuietStep ==
  /\ RowsAlike /\ UNCHANGED <<exps, failedTrials>>
  /\ \A s \in Sessions : WritesStay(s) \/ WritesGone(s)

CommitStep(s) == Apply(s) /\ Close(s) /\ failedTrials' = failedTrials

FlushStep(s) ==
  /\ UNCHANGED <<runs, exps, failedTrials>>
  /\ \A v \in Sessions \ {s} : tx'[v] = tx[v]
  /\ ToldByWrites(s)' /\ SyncsItsOwn(s)'

\* A step of a worker leaves what the other sessions have alone.
LEMMA WorkerAlone ==
  ASSUME WellFormed, NEW w \in Workers, WorkerNext(w)
  PROVE  /\ req' = req /\ \A s \in Sessions \ {w} : tx'[s] = tx[s]
         /\ \A v \in Workers \ {w} : pc'[v] = pc[v] /\ held'[v] = held[v]
<1>1. /\ w \in Sessions /\ tx \in [Sessions -> TxType] /\ pc \in [Workers -> WorkerPcs]
      /\ held \in [Workers -> RunIds \cup {NoRun}]
  BY WorkerFacts DEF WellFormed, TypeOK
<1>2. req' = req
  BY DEF WorkerNext, Progress, Fault, ClaimOldest, ClaimNothing, CommitClaim,
         ReadToStart, FlushStart, CommitStart, Conclude, ReadToComplete, FlushComplete,
         CommitComplete, ReadToRelease, FlushRelease, CommitRelease, TrialFails, Heartbeat,
         Restart, Stop, DatabaseFails, Crash,
         Untouched
<1>3. UNCHANGED tx \/ \E t : tx' = [tx EXCEPT ![w] = t]
  BY DEF WorkerNext, Progress, Fault, ClaimOldest, ClaimNothing, CommitClaim,
         ReadToStart, FlushStart, CommitStart, Conclude, ReadToComplete, FlushComplete,
         CommitComplete, ReadToRelease, FlushRelease, CommitRelease, TrialFails, Heartbeat,
         Restart, Stop, DatabaseFails, Crash,
         Flush, FlushRow, Close
<1>4. UNCHANGED pc \/ \E p : pc' = [pc EXCEPT ![w] = p]
  BY DEF WorkerNext, Progress, Fault, ClaimOldest, ClaimNothing, CommitClaim,
         ReadToStart, FlushStart, CommitStart, Conclude, ReadToComplete, FlushComplete,
         CommitComplete, ReadToRelease, FlushRelease, CommitRelease, TrialFails, Heartbeat,
         Restart, Stop, DatabaseFails, Crash,
         Goto, Down
<1>5. UNCHANGED held \/ \E h : held' = [held EXCEPT ![w] = h]
  BY DEF WorkerNext, Progress, Fault, ClaimOldest, ClaimNothing, CommitClaim,
         ReadToStart, FlushStart, CommitStart, Conclude, ReadToComplete, FlushComplete,
         CommitComplete, ReadToRelease, FlushRelease, CommitRelease, TrialFails, Heartbeat,
         Restart, Stop, DatabaseFails, Crash,
         Down
<1>6. QED
  BY <1>1, <1>2, <1>3, <1>4, <1>5

\* A step of a request leaves the workers and the other requests alone.
LEMMA RequestAlone ==
  ASSUME WellFormed, NEW q \in Requests, RequestNext(q)
  PROVE  /\ UNCHANGED <<failedTrials, pc, held>> /\ \A s \in Sessions \ {q} : tx'[s] = tx[s]
         /\ \A p \in Requests \ {q} : req'[p] = req[p]
<1>1. /\ q \in Sessions /\ tx \in [Sessions -> TxType] /\ req \in [Requests -> RequestType]
  BY RequestFacts DEF WellFormed, TypeOK
<1>2. UNCHANGED <<failedTrials, pc, held>>
  BY DEF RequestNext, Answer, ReadToQueue, FlushCancel, FlushExisting, FlushNew,
         InsertFails, CommitRequest, Respond, RequestFails,
         Untouched
<1>3. UNCHANGED tx \/ \E t : tx' = [tx EXCEPT ![q] = t]
  BY DEF RequestNext, Answer, ReadToQueue, FlushCancel, FlushExisting, FlushNew,
         InsertFails, CommitRequest, Respond, RequestFails,
         Flush, FlushRow, Close
<1>4. UNCHANGED req \/ \E a : req' = [req EXCEPT ![q] = a]
  BY DEF RequestNext, Answer, ReadToQueue, FlushCancel, FlushExisting, FlushNew,
         InsertFails, CommitRequest, Respond, RequestFails,
         Reply, Untouched
<1>5. QED
  BY <1>1, <1>2, <1>3, <1>4

\* What a request asked for stays, and it looks its key up once.
LEMMA StartsStay ==
  ASSUME WellFormed, [Next]_vars, NEW q \in Requests, req[q].op # "none"
  PROVE  /\ req'[q].op = req[q].op /\ req'[q].exp = req[q].exp
         /\ tx[q].phase # "read" => tx'[q].phase # "read"
<1>1. /\ q \in Sessions /\ q \notin Workers /\ tx \in [Sessions -> TxType]
      /\ req \in [Requests -> RequestType] /\ req[q] \in RequestType
  BY RequestFacts, RequestsAssumption DEF WellFormed, TypeOK
<1>2. ASSUME NEW w \in Workers, WorkerNext(w) PROVE tx'[q] = tx[q] /\ req' = req
  BY <1>1, <1>2, WorkerAlone
<1>3. ASSUME NEW p \in Requests, p # q, RequestNext(p) PROVE tx'[q] = tx[q] /\ req'[q] = req[q]
  BY <1>1, <1>3, RequestAlone
<1>4. CASE RequestNext(q)
  <2>1. UNCHANGED req \/ \E i, what : Reply(q, i, what)
    BY <1>4 DEF RequestNext, Answer, ReadToQueue, FlushCancel, FlushExisting, FlushNew,
         InsertFails, CommitRequest, Respond, RequestFails, Untouched
  <2>2. req'[q].op = req[q].op /\ req'[q].exp = req[q].exp
    <3>1. ASSUME NEW i, NEW what, Reply(q, i, what)
          PROVE  req'[q].op = req[q].op /\ req'[q].exp = req[q].exp
      <4> DEFINE a == [req[q] EXCEPT !.run = i, !.reply = what]
      <4>1. a.op = req[q].op /\ a.exp = req[q].exp
        BY <1>1 DEF RequestType
      <4>2. req'[q] = a
        BY <1>1, <3>1 DEF Reply
      <4>3. QED
        BY <4>1, <4>2
    <3>2. QED
      BY <2>1, <3>1
  <2>3. \/ UNCHANGED tx \/ Close(q)
        \/ \E i, ws, e, current : Flush(q, i, ws, e, current)
    BY <1>4 DEF RequestNext, Answer, ReadToQueue, FlushCancel, FlushExisting, FlushNew,
         InsertFails, CommitRequest, Respond, RequestFails
  <2>4. UNCHANGED tx \/ tx'[q].phase # "read"
    <3>1. Close(q) => tx'[q].phase # "read"
      BY <1>1, NoTxIsTx DEF Close
    <3>2. ASSUME NEW i, NEW ws, NEW e, NEW current, Flush(q, i, ws, e, current)
          PROVE  tx'[q].phase = "flushed"
      BY <1>1, <3>2 DEF Flush, TxType
    <3>3. QED
      BY <2>3, <3>1, <3>2
  <2>5. QED
    BY <2>2, <2>4
<1>5. CASE UNCHANGED <<tx, req>>
  BY <1>5
<1>6. QED
  BY <1>2, <1>3, <1>4, <1>5 DEF Next, LeaseExpires, Untouched, vars

\* What a transaction writes is of the experiment that the row is, or will be, of.
LEMMA WritesCarry ==
  ASSUME Leased, NEW s \in Sessions, NEW r \in RunIds, tx[s].writes[r] # None
  PROVE  /\ Exists(tx[s].writes[r]) /\ tx[s].writes[r].exp \in Exps
         /\ Carries(r, tx[s].writes[r].exp)
<1>1. /\ Exists(tx[s].writes[r]) /\ tx[s].writes[r] \in Row
      /\ tx[s].writes[r].exp \in Exps
  <2>1. tx[s].writes[r] \in Row \cup {None} /\ Exists(tx[s].writes[r])
    BY DEF Leased, WellFormed, TypeOK, TxType, WritesExist
  <2>2. QED
    BY <2>1 DEF Row, Exists
<1>2. CASE s \in Workers
  <2>1. Exists(runs[r]) /\ Ids(tx[s].writes[r]) = Ids(runs[r])
    BY <1>2, WorkerWriteFacts
  <2>2. QED
    BY <1>1, <2>1, SameNames DEF Carries
<1>3. CASE s \in Requests
  <2>1. RequestWrite(s, r)
    BY <1>3 DEF Leased, Inductive, WritesApply
  <2>2. CASE /\ req[s].op = "start" /\ ~Exists(runs[r])
             /\ tx[s].writes[r] = QueuedRow(req[s].exp, req[s].key, req[s].fp)
    <3>1. tx[s].writes[r].exp = req[s].exp
      BY <2>2 DEF QueuedRow, NoRow
    <3>2. QED
      BY <1>1, <1>3, <2>2, <3>1 DEF Carries
  <2>3. CASE Exists(runs[r]) /\ tx[s].writes[r] = CancelRequested(runs[r])
    <3>1. tx[s].writes[r].exp = runs[r].exp
      BY <2>3, CancelIsRow DEF Leased, WellFormed, TypeOK
    <3>2. QED
      BY <1>1, <2>3, <3>1 DEF Carries
  <2>4. QED
    BY <2>1, <2>2, <2>3 DEF RequestWrite
<1>4. QED
  BY <1>2, <1>3 DEF Sessions

\* The INSERT of start_run: it writes a row that waits, of the experiment asked for, and
\* writes nothing else.
LEMMA InsertEffect ==
  ASSUME WellFormed, NEW q \in Requests, FlushNew(q)
  PROVE  /\ req[q].op = "start" /\ tx[q].phase = "read" /\ req' = req
         /\ tx'[q].phase = "flushed"
         /\ \E r \in RunIds :
              /\ tx'[q].writes[r] = QueuedRow(req[q].exp, req[q].key, req[q].fp)
              /\ \A i \in RunIds \ {r} : tx'[q].writes[i] = None
<1> DEFINE row == QueuedRow(req[q].exp, req[q].key, req[q].fp)
<1>1. /\ req[q].op = "start" /\ tx[q].phase = "read" /\ req' = req /\ q \in Sessions
      /\ tx \in [Sessions -> TxType] /\ req[q].exp \in Exps /\ req[q].key \in Keys
      /\ req[q].fp \in Fingerprints /\ req[q].expSeen \in ExperimentStatuses
  BY RequestFacts DEF FlushNew, AskedFor, Untouched
<1>2. PICK r \in RunIds :
         Flush(q, r, [NoWrites EXCEPT ![r] = row], req[q].exp, req[q].expSeen)
  BY DEF FlushNew
<1>3. row \in Row
  BY <1>1, NewRowIsRow
<1> HIDE DEF row
<1> DEFINE ws == [NoWrites EXCEPT ![r] = row]
<1>4. ws \in Writes /\ ws[r] = row /\ \A i \in RunIds \ {r} : ws[i] = None
  BY <1>3 DEF Writes, NoWrites
<1>5. Flush(q, r, ws, req[q].exp, req[q].expSeen)
  BY <1>2
<1> HIDE DEF ws
<1>6. \E t \in TxType :
        /\ tx' = [tx EXCEPT ![q] = t] /\ t.phase = "flushed" /\ t.run = r /\ t.writes = ws
        /\ t.seen = tx[q].seen /\ t.end = tx[q].end
  BY <1>1, <1>4, <1>5, FlushEffect
<1>7. tx'[q].phase = "flushed" /\ tx'[q].writes = ws
  BY <1>1, <1>6
<1>8. QED
  BY <1>1, <1>4, <1>7 DEF row

\* What a start request writes, it had written before, or inserts now.
LEMMA StartWrites ==
  ASSUME WellFormed, [Next]_vars, NEW q \in Requests, NEW r \in RunIds,
         tx'[q].writes[r] # None, req'[q].op = "start"
  PROVE  FlushNew(q) \/ (tx[q].writes[r] # None /\ req[q].op = "start")
<1>1. /\ q \in Sessions /\ q \notin Workers /\ tx \in [Sessions -> TxType]
      /\ req \in [Requests -> RequestType] /\ TxShape(q) /\ tx[q] \in TxType
  BY RequestFacts, RequestsAssumption DEF WellFormed, TypeOK
<1>2. ASSUME tx'[q] = tx[q] PROVE tx[q].writes[r] # None /\ req[q].op = "start"
  <2>1. tx[q].writes[r] # None
    BY <1>2
  <2>2. req[q].op # "none"
    BY <1>1, <2>1, WritesAreFlushed DEF TxShape
  <2>3. QED
    BY <2>1, <2>2, StartsStay
<1>3. ASSUME NEW w \in Workers, WorkerNext(w) PROVE tx'[q] = tx[q]
  BY <1>1, <1>3, WorkerAlone
<1>4. ASSUME NEW p \in Requests, p # q, RequestNext(p) PROVE tx'[q] = tx[q]
  BY <1>1, <1>4, RequestAlone
<1>5. CASE RequestNext(q)
  <2>1. ASSUME NEW e \in Exps, NEW k \in Keys, NEW f \in Fingerprints,
               ReadToQueue(q, e, k, f), tx' # tx
        PROVE  FALSE
    <3>1. tx[q] = NoTx
      BY <1>1, <2>1 DEF ReadToQueue, TxShape
    <3>2. PICK i : tx' = [tx EXCEPT ![q] = [@ EXCEPT !.phase = "read", !.exp = e, !.run = i]]
      BY <2>1 DEF ReadToQueue
    <3>3. tx'[q].writes = tx[q].writes
      BY <1>1, <3>2 DEF TxType
    <3>4. QED
      BY <3>1, <3>3, NoTxIsTx
  <2>2. ASSUME FlushExisting(q) PROVE FALSE
    <3>1. PICK i, e, current : Flush(q, i, NoWrites, e, current)
      BY <2>2 DEF FlushExisting
    <3>2. tx'[q].writes = NoWrites
      BY <1>1, <3>1 DEF Flush, TxType
    <3>3. QED
      BY <3>2, NoTxIsTx
  <2>3. ASSUME Close(q) PROVE FALSE
    BY <1>1, <2>3, NoTxIsTx DEF Close
  <2>4. ASSUME NEW i \in RunIds, FlushCancel(q, i) PROVE FALSE
    <3>1. req'[q].op = "cancel"
      BY <1>1, <2>4 DEF FlushCancel, RequestType
    <3>2. QED
      BY <3>1
  <2>5. QED
    BY <1>2, <1>5, <2>1, <2>2, <2>3, <2>4
       DEF RequestNext, Answer, InsertFails, CommitRequest, Respond, RequestFails
<1>6. CASE UNCHANGED tx
  BY <1>2, <1>6
<1>7. QED
  BY <1>2, <1>3, <1>4, <1>5, <1>6 DEF Next, LeaseExpires, vars

\* A row is of an experiment after the step only if it was, or is being inserted.
LEMMA OnlyInserted ==
  ASSUME Leased, [Next]_vars, NEW r \in RunIds, NEW e \in Exps, Carries(r, e)'
  PROVE  \/ Carries(r, e)
         \/ \E q \in Requests : FlushNew(q) /\ req[q].exp = e /\ tx'[q].writes[r] # None
<1>1. runs[r] \in Row /\ WellFormed
  BY DEF Leased, WellFormed, TypeOK
<1>2. CASE Exists(runs'[r]) /\ runs'[r].exp = e
  <2>1. CASE runs'[r] = runs[r]
    BY <1>2, <2>1 DEF Carries
  <2>2. ASSUME NEW s \in Sessions, tx[s].writes[r] # None, runs'[r] = tx[s].writes[r]
        PROVE  Carries(r, e)
    <3>1. Carries(r, tx[s].writes[r].exp)
      BY <2>2, WritesCarry
    <3>2. QED
      BY <1>2, <2>2, <3>1
  <2>3. CASE runs[r].lease = "live" /\ runs'[r] = [runs[r] EXCEPT !.lease = "expired"]
    <3>1. runs'[r].exp = runs[r].exp
      BY <1>1, <2>3 DEF Row
    <3>2. QED
      BY <1>2, <3>1 DEF Carries, Exists
  <2>4. QED
    BY <2>1, <2>2, <2>3, RowChanges DEF Sessions
<1>3. ASSUME NEW q \in Requests, tx'[q].writes[r] # None, req'[q].op = "start",
             req'[q].exp = e
      PROVE  Carries(r, e) \/ (FlushNew(q) /\ req[q].exp = e)
  <2>1. CASE FlushNew(q)
    BY <1>1, <1>3, <2>1, InsertEffect
  <2>2. CASE tx[q].writes[r] # None /\ req[q].op = "start"
    BY <1>1, <1>3, <2>2, StartsStay DEF Carries
  <2>3. QED
    BY <1>1, <1>3, <2>1, <2>2, StartWrites
<1>4. QED
  BY <1>2, <1>3 DEF Carries

\* A row comes from a request that has looked its key up.
LEMMA BegunStays ==
  ASSUME Leased, Begun, [Next]_vars
  PROVE  Begun'
<1>1. WellFormed
  BY DEF Leased
<1>2. ASSUME NEW r \in RunIds, NEW e \in Exps, Carries(r, e)'
      PROVE  \E q \in Requests :
               req'[q].op = "start" /\ req'[q].exp = e /\ tx'[q].phase # "read"
  <2>1. CASE Carries(r, e)
    <3>1. PICK q \in Requests : req[q].op = "start" /\ req[q].exp = e /\ tx[q].phase # "read"
      BY <2>1 DEF Begun
    <3>2. QED
      BY <1>1, <3>1, StartsStay
  <2>2. CASE \E q \in Requests : FlushNew(q) /\ req[q].exp = e
    BY <1>1, <2>2, InsertEffect
  <2>3. QED
    BY <1>2, <2>1, <2>2, OnlyInserted
<1>3. QED
  BY <1>2 DEF Begun

\* No second run of an experiment is inserted.
LEMMA OneRunStays ==
  ASSUME Leased, Lone, Begun, OneRun, [Next]_vars
  PROVE  OneRun'
<1>1. WellFormed
  BY DEF Leased
<1>2. ASSUME NEW r \in RunIds, NEW e \in Exps, Carries(r, e), NEW q \in Requests,
             FlushNew(q), req[q].exp = e
      PROVE  FALSE
  <2>1. PICK p \in Requests : req[p].op = "start" /\ req[p].exp = e /\ tx[p].phase # "read"
    BY <1>2 DEF Begun
  <2>2. req[q].op = "start" /\ tx[q].phase = "read"
    BY <1>2 DEF FlushNew
  <2>3. QED
    BY <1>2, <2>1, <2>2 DEF Lone
<1>3. ASSUME NEW r1 \in RunIds, NEW r2 \in RunIds, NEW q \in Requests, NEW p \in Requests,
             FlushNew(q), tx'[q].writes[r1] # None, FlushNew(p), tx'[p].writes[r2] # None,
             req[q].exp = req[p].exp
      PROVE  r1 = r2
  <2>1. p = q
    BY <1>3 DEF FlushNew, Lone
  <2>2. QED
    BY <1>1, <1>3, <2>1, InsertEffect
<1>4. ASSUME NEW r1 \in RunIds, NEW r2 \in RunIds, NEW e \in Exps,
             Carries(r1, e)', Carries(r2, e)'
      PROVE  r1 = r2
  BY <1>2, <1>3, <1>4, OnlyInserted DEF OneRun
<1>5. QED
  BY <1>4 DEF OneRun

\* Where an experiment is started once, start_run never finds its run there already.
LEMMA NothingFound ==
  ASSUME Leased, Keyed, Lone, Begun, NEW q \in Requests
  PROVE  ~FlushExisting(q)
<1> SUFFICES ASSUME FlushExisting(q) PROVE FALSE
  OBVIOUS
<1>1. /\ req[q].op = "start" /\ tx[q].phase = "read" /\ tx[q].run # NoRun
      /\ tx[q].run \in RunIds /\ tx[q].writes = NoWrites /\ req[q].exp \in Exps
  BY RequestFacts DEF FlushExisting, Leased, TxType, AskedFor, TxShape
<1>2. Found(q)
  BY <1>1 DEF Keyed, OwnAnswer
<1>3. Exists(runs[tx[q].run]) /\ Ids(runs[tx[q].run]) = Asked(q)
  BY <1>1, <1>2, NoTxIsTx DEF Found
<1>4. Carries(tx[q].run, req[q].exp)
  BY <1>3 DEF Ids, Asked, Carries
<1>5. PICK p \in Requests :
         req[p].op = "start" /\ req[p].exp = req[q].exp /\ tx[p].phase # "read"
  BY <1>1, <1>4 DEF Begun
<1>6. QED
  BY <1>1, <1>5 DEF Lone

-----------------------------------------------------------------------------
(* Who owns a row has the run, when no worker crashes.                     *)

\* Handed, of one row.
HandedRow(r) ==
  /\ runs[r].lease # "expired"
  /\ runs[r].owner # None => held[runs[r].owner] = r

LEMMA HandedRows == MaxCrashes = 0 => (Handed <=> \A r \in RunIds : HandedRow(r))
BY DEF Handed, HandedRow

\* A worker that commits its transaction, and lets go of its run only if it wrote that.
LEMMA CommitHands ==
  ASSUME Leased, \A r \in RunIds : HandedRow(r), NEW w \in Workers, Committed(w),
         \A v \in Workers \ {w} : held'[v] = held[v],
         \/ pc[w] = "idle" /\ held'[w] = tx[w].run
         \/ pc[w] = "starting" /\ held'[w] = held[w]
         \/ pc[w] \in Outcomes \cup {"releasing"} /\ tx[w].writes[held[w]] # None,
         NEW r \in RunIds
  PROVE  HandedRow(r)'
<1>1. /\ runs[r] \in Row /\ Columns(runs[r]) /\ HandedRow(r) /\ r # NoRun
      /\ pc[w] = "idle" => held[w] = NoRun
  BY WorkerFacts DEF Leased, Inductive, LeaseColumns, Columns, WellFormed, TypeOK, RunIds, NoRun
<1>2. CASE tx[w].writes[r] = None
  <2>1. runs'[r] = runs[r]
    BY <1>2 DEF Committed
  <2>2. runs[r].owner # None => runs[r].owner \in Workers /\ held[runs[r].owner] = r
    BY <1>1 DEF HandedRow, Row
  <2>3. runs[r].owner = w => held'[w] = r
    <3>1. w # None
      BY NoneAssumption
    <3>2. QED
      BY <1>1, <1>2, <2>2, <3>1
  <2>4. runs[r].owner # None => held'[runs[r].owner] = r
    BY <2>2, <2>3
  <2>5. QED
    BY <1>1, <2>1, <2>4 DEF HandedRow
<1>3. CASE tx[w].writes[r] # None
  <2> DEFINE new == tx[w].writes[r]
  <2>1. runs'[r] = new
    BY <1>3 DEF Committed
  <2> HIDE DEF new
  <2>2. CASE new.owner = None /\ new.lease = "null"
    BY <2>1, <2>2 DEF HandedRow
  <2>3. CASE /\ pc[w] = "idle" /\ r = tx[w].run
             /\ (new = ClaimedBy(runs[r], w) \/ new = ClaimedBy(Requeued(runs[r]), w))
    <3>1. new.owner = w /\ new.lease = "live"
      BY <1>1, <2>3, RequeuedRow, ClaimedRow
    <3>2. pc[w] # "starting" /\ pc[w] \notin Outcomes \cup {"releasing"}
      BY <2>3 DEF Outcomes
    <3>3. held'[w] = r
      BY <2>3, <3>2
    <3>4. QED
      BY <2>1, <3>1, <3>3 DEF HandedRow
  <2>4. CASE pc[w] = "starting" /\ r = held[w] /\ new = StartedOver(runs[r])
    <3>1. held'[w] = held[w]
      BY <2>4 DEF Outcomes
    <3>2. runs[r].owner = w /\ runs[r].lease = "live"
      BY <2>4, WorkingOwns DEF Busy
    <3>3. new.owner = w /\ new.lease = "live"
      BY <1>1, <2>4, <3>2, StartedRow
    <3>4. QED
      BY <2>1, <2>4, <3>1, <3>3 DEF HandedRow
  <2>5. CASE new = Requeued(runs[r])
    BY <1>1, <2>2, <2>5, RequeuedRow
  <2>6. CASE tx[w].end \in TerminalRunStatuses /\ new = Completed(runs[r], tx[w].end)
    BY <1>1, <2>2, <2>6, CompletedRow
  <2>7. CASE new = ReleasedOver(runs[r], tx[w].seen)
    <3>1. tx[w].seen \in Row
      BY WorkerFacts DEF Leased, TxType
    <3>2. QED
      BY <1>1, <2>2, <2>7, <3>1, ReleasedRow
  <2>8. QED
    BY <1>3, <2>3, <2>4, <2>5, <2>6, <2>7, WorkerWriteCases DEF new
<1>4. QED
  BY <1>2, <1>3

\* Every step of a worker.
LEMMA WorkerHands ==
  ASSUME Leased, MaxCrashes = 0, \A r \in RunIds : HandedRow(r), NEW w \in Workers,
         Written(w), WorkerNext(w), NEW r \in RunIds
  PROVE  HandedRow(r)'
<1>1. /\ w \in Sessions /\ held \in [Workers -> RunIds \cup {NoRun}] /\ HandedRow(r)
      /\ pc[w] \in {"down", "idle"} => held[w] = NoRun
      /\ ~(crashes < MaxCrashes) /\ r # NoRun
      /\ runs[r] \in Row
  BY WorkerFacts DEF Leased, WellFormed, TypeOK, RunIds, NoRun
<1>2. \A v \in Workers \ {w} : held'[v] = held[v]
  BY WorkerAlone DEF Leased
<1>3. /\ UNCHANGED <<runs, exps>> => RowsStay
      /\ Apply(w) => Committed(w)
  BY <1>1, ApplyEffect DEF Leased, RowsStay, Committed
<1>4. ASSUME RowsStay, held' = held PROVE HandedRow(r)'
  BY <1>1, <1>4 DEF RowsStay, HandedRow
<1>5. CASE \/ ClaimOldest(w) \/ ClaimNothing(w) \/ TrialFails(w) \/ Conclude(w) \/ Restart(w)
           \/ ReadToStart(w) \/ FlushStart(w) \/ ReadToComplete(w) \/ FlushComplete(w)
           \/ FlushRelease(w)
  BY <1>3, <1>4, <1>5
     DEF ClaimOldest, ClaimNothing, TrialFails, Conclude, Restart, ReadToStart, FlushStart,
         ReadToComplete, FlushComplete, FlushRelease
<1>6. CASE Heartbeat(w)
  <2>1. pc[w] \in Busy /\ pc[w] # "releasing"
    BY <1>6 DEF Heartbeat, Busy, Outcomes
  <2>2. Heartbeaten(runs[held[w]]) = runs[held[w]] /\ held[w] \in RunIds
    BY <2>1, WorkingOwns, HeartbeatOfLive
  <2>3. RowsStay
    BY <1>6, <2>2 DEF Heartbeat, RowsStay, Leased, WellFormed, TypeOK
  <2>4. QED
    BY <1>4, <1>6, <2>3 DEF Heartbeat
<1>7. CASE Stop(w)
  <2>1. held' = held
    BY <1>1, <1>7 DEF Stop, Down
  <2>2. QED
    BY <1>3, <1>4, <1>7, <2>1 DEF Stop
<1>8. CASE ReadToRelease(w)
  <2>1. CASE UNCHANGED held
    BY <1>3, <1>4, <1>8, <2>1 DEF ReadToRelease
  <2>2. CASE runs[held[w]].owner # w
    <3>1. runs'[r] = runs[r]
      BY <1>3, <1>8 DEF ReadToRelease, RowsStay
    <3>2. runs[r].owner # None => runs[r].owner \in Workers \ {w} /\ held[runs[r].owner] = r
      BY <1>1, <2>2 DEF HandedRow, Row
    <3>3. QED
      BY <1>1, <1>2, <3>1, <3>2 DEF HandedRow
  <2>3. QED
    BY <1>8, <2>1, <2>2 DEF ReadToRelease
<1>9. CASE CommitClaim(w)
  <2>1. pc[w] = "idle" /\ held'[w] = tx[w].run
    BY <1>1, <1>9 DEF CommitClaim
  <2>2. QED
    BY <1>2, <1>3, <1>9, <2>1, CommitHands DEF CommitClaim
<1>10. CASE CommitStart(w)
  <2>1. pc[w] = "starting" /\ held'[w] = held[w]
    BY <1>10 DEF CommitStart
  <2>2. QED
    BY <1>2, <1>3, <1>10, <2>1, CommitHands DEF CommitStart
<1>11. CASE CommitComplete(w) \/ CommitRelease(w)
  <2>1. pc[w] \in Outcomes \cup {"releasing"} /\ tx[w].writes[held[w]] # None
    BY <1>11 DEF CommitComplete, CommitRelease, Written
  <2>2. QED
    BY <1>2, <1>3, <1>11, <2>1, CommitHands DEF CommitComplete, CommitRelease
<1>12. ~DatabaseFails(w) /\ ~Crash(w)
  BY <1>1 DEF DatabaseFails, Crash
<1>13. QED
  BY <1>5, <1>6, <1>7, <1>8, <1>9, <1>10, <1>11, <1>12 DEF WorkerNext, Progress, Fault

\* A request takes no run from its worker.
LEMMA RequestHands ==
  ASSUME Leased, \A r \in RunIds : HandedRow(r), NEW q \in Requests, RequestNext(q),
         NEW r \in RunIds
  PROVE  HandedRow(r)'
<1>1. held' = held /\ (RowsStay \/ Committed(q)) /\ HandedRow(r)
  BY RequestSteps DEF RequestStep
<1>2. CASE runs'[r] = runs[r]
  BY <1>1, <1>2 DEF HandedRow
<1>3. CASE tx[q].writes[r] # None /\ runs'[r] = tx[q].writes[r]
  <2>1. /\ runs'[r] \in Row /\ Columns(runs'[r])
        /\ \/ runs'[r].status \in {"queued", "cancelled"}
           \/ runs'[r].owner = runs[r].owner /\ runs'[r].lease = runs[r].lease
    BY <1>3, RequestWriteFacts
  <2>2. CASE runs'[r].status \in {"queued", "cancelled"}
    <3>1. runs'[r].owner = None /\ runs'[r].lease = "null"
      BY <2>1, <2>2 DEF Columns, HeartbeatStatuses
    <3>2. QED
      BY <3>1 DEF HandedRow
  <2>3. QED
    BY <1>1, <2>1, <2>2 DEF HandedRow
<1>4. QED
  BY <1>1, <1>2, <1>3 DEF RowsStay, Committed

\* No owner of a row is without its run, and no lease runs out, where nobody crashes.
LEMMA HandedStays ==
  ASSUME Leased, Timely, Handed, \A w \in Workers : Written(w), [Next]_vars
  PROVE  Handed'
<1> SUFFICES ASSUME MaxCrashes = 0 PROVE Handed'
  BY DEF Handed
<1>1. \A r \in RunIds : HandedRow(r)
  BY HandedRows
<1>2. ASSUME NEW r \in RunIds, LeaseExpires(r) PROVE FALSE
  <2>1. runs[r] \in Row /\ Columns(runs[r]) /\ HandedRow(r) /\ runs[r].lease = "live"
    BY <1>1, <1>2 DEF Leased, Inductive, LeaseColumns, Columns, WellFormed, TypeOK, LeaseExpires
  <2>2. runs[r].owner \in Workers /\ held[runs[r].owner] = r
    BY <2>1 DEF Columns, HandedRow, Row
  <2>3. QED
    BY <1>2, <2>2 DEF LeaseExpires
<1>3. ASSUME UNCHANGED vars, NEW r \in RunIds PROVE HandedRow(r)'
  BY <1>1, <1>3 DEF vars, HandedRow
<1>4. \A r \in RunIds : HandedRow(r)'
  BY <1>1, <1>2, <1>3, WorkerHands, RequestHands DEF Next
<1>5. QED
  BY <1>4 DEF Handed, HandedRow

\* What completes or releases a run writes its row: nobody else has ended it.
LEMMA WrittenStays ==
  ASSUME Leased, \A w \in Workers : Written(w), [Next]_vars
  PROVE  \A w \in Workers : Written(w)'
<1> SUFFICES ASSUME NEW w \in Workers PROVE Written(w)'
  OBVIOUS
<1>1. WellFormed /\ Written(w) /\ w \in Sessions /\ w \notin Requests
  BY WorkerFacts, RequestsAssumption DEF Leased
<1>2. /\ tx \in [Sessions -> TxType] /\ tx[w] \in TxType /\ TxShape(w)
      /\ pc \in [Workers -> WorkerPcs] /\ SeenRow(w)
  BY <1>1 DEF WellFormed, TypeOK, Leased, Inductive
<1>3. ASSUME tx'[w] = tx[w], pc'[w] = pc[w], held'[w] = held[w] PROVE Written(w)'
  BY <1>1, <1>3 DEF Written
<1>4. ASSUME tx'[w].phase # "flushed" \/ pc'[w] \in {"idle", "starting"} PROVE Written(w)'
  BY <1>4 DEF Written, Outcomes
<1>5. ASSUME NEW v \in Workers \ {w}, WorkerNext(v) PROVE Written(w)'
  BY <1>1, <1>3, <1>5, WorkerAlone
<1>6. ASSUME NEW q \in Requests, RequestNext(q) PROVE Written(w)'
  BY <1>1, <1>3, <1>6, RequestAlone
<1>7. CASE WorkerNext(w)
  <2>1. CASE \/ CommitClaim(w) \/ CommitStart(w) \/ CommitComplete(w) \/ CommitRelease(w)
             \/ DatabaseFails(w) \/ Crash(w)
    <3>1. tx'[w] = NoTx
      BY <1>1, <1>2, <2>1
         DEF CommitClaim, CommitStart, CommitComplete, CommitRelease, DatabaseFails, Crash, Close
    <3>2. QED
      BY <1>4, <3>1, NoTxIsTx
  <2>2. CASE TrialFails(w) \/ Conclude(w) \/ Restart(w) \/ Stop(w) \/ Heartbeat(w)
    <3>1. tx' = tx /\ (pc[w] \in {"down", "executing"} \/ tx[w].phase = "none")
      BY <2>2 DEF TrialFails, Conclude, Restart, Stop, Heartbeat
    <3>2. tx'[w].phase # "flushed"
      BY <1>1, <1>2, <3>1 DEF TxShape
    <3>3. QED
      BY <1>4, <3>2
  <2>3. CASE ReadToStart(w) \/ ReadToComplete(w) \/ ReadToRelease(w)
    <3>1. CASE tx' = tx
      BY <1>4, <2>3, <3>1 DEF ReadToStart, ReadToComplete, ReadToRelease
    <3>2. CASE tx' # tx
      <4>1. \/ \E i, row : tx' = [tx EXCEPT ![w] = [@ EXCEPT !.phase = "read", !.run = i,
                                                             !.seen = row]]
            \/ \E i, row, end :
                 tx' = [tx EXCEPT ![w] = [@ EXCEPT !.phase = "read", !.run = i,
                                                   !.seen = row, !.end = end]]
        BY <2>3, <3>2 DEF ReadToStart, ReadToComplete, ReadToRelease
      <4>2. ASSUME NEW i, NEW row,
                   tx' = [tx EXCEPT ![w] = [@ EXCEPT !.phase = "read", !.run = i, !.seen = row]]
            PROVE  tx'[w].phase = "read"
        BY <1>1, <1>2, <4>2 DEF TxType
      <4>3. ASSUME NEW i, NEW row, NEW end,
                   tx' = [tx EXCEPT ![w] = [@ EXCEPT !.phase = "read", !.run = i, !.seen = row,
                                                     !.end = end]]
            PROVE  tx'[w].phase = "read"
        BY <1>1, <1>2, <4>3 DEF TxType
      <4>4. tx'[w].phase = "read"
        BY <4>1, <4>2, <4>3
      <4>5. QED
        BY <1>4, <4>4
    <3>3. QED
      BY <3>1, <3>2
  <2>4. CASE ClaimOldest(w) \/ ClaimNothing(w) \/ FlushStart(w)
    BY <1>4, <2>4 DEF ClaimOldest, ClaimNothing, FlushStart
  <2>5. ASSUME pc[w] \in Outcomes \cup {"releasing"}, NEW row \in Row,
               row.exp = runs[held[w]].exp, FlushRow(w, held[w], row), held' = held
        PROVE  Written(w)'
    <3>1. pc[w] \in Busy
      BY <2>5 DEF Busy
    <3>2. held[w] \in RunIds /\ row.exp \in Exps /\ exps \in [Exps -> ExperimentStatuses]
      BY <1>1, <2>5, <3>1, WorkerFacts
    <3>3. \E t \in TxType :
            /\ tx' = [tx EXCEPT ![w] = t]
            /\ t.phase = "flushed" /\ t.run = held[w]
            /\ t.seen = tx[w].seen /\ t.end = tx[w].end
            /\ t.writes[held[w]] = row
            /\ \A i \in RunIds \ {held[w]} : t.writes[i] = None
      BY <1>1, <1>2, <2>5, <3>2, FlushRowEffect
    <3>4. tx'[w].writes[held[w]] = row
      BY <1>1, <1>2, <3>3
    <3>5. QED
      BY <2>5, <3>4, NoneIsNoRow DEF Written
  <2>6. CASE FlushComplete(w)
    <3>1. /\ runs[held[w]] \in Row /\ tx[w].seen \in Row /\ tx[w].end \in TerminalRunStatuses
      BY <1>1, <1>2, <2>6, WorkerFacts DEF FlushComplete, TxShape, TxType, Busy
    <3>2. QED
      BY <2>5, <2>6, <3>1, CompletionIsRow DEF FlushComplete
  <2>7. CASE FlushRelease(w)
    <3>1. runs[held[w]] \in Row /\ tx[w].seen \in Row /\ ~Terminal(tx[w].seen)
      BY <1>1, <1>2, <2>7, WorkerFacts, StatusKinds DEF FlushRelease, TxType, Busy, SeenRow
    <3>2. QED
      BY <2>5, <2>7, <3>1, RowOperations DEF FlushRelease
  <2>8. QED
    BY <1>7, <2>1, <2>2, <2>3, <2>4, <2>6, <2>7 DEF WorkerNext, Progress, Fault
<1>8. CASE UNCHANGED <<tx, pc, held>>
  BY <1>3, <1>8
<1>9. QED
  BY <1>5, <1>6, <1>7, <1>8 DEF Next, LeaseExpires, vars

-----------------------------------------------------------------------------
(* The statuses.                                                           *)

\* What a flush makes of the transaction of its session.
LEMMA FlushSyncs ==
  ASSUME NEW s \in Sessions, NEW r, NEW ws, NEW e, NEW current,
         tx \in [Sessions -> TxType], Flush(s, r, ws, e, current)
  PROVE  /\ tx'[s].writes = ws /\ tx'[s].exp = e /\ tx'[s].expTo = Synced(e, current, ws)
         /\ \A v \in Sessions \ {s} : tx'[v] = tx[v]
<1> DEFINE to == Synced(e, current, ws)
           t == [tx[s] EXCEPT !.phase = "flushed", !.run = r, !.writes = ws,
                              !.exp = e, !.expTo = to]
<1>1. tx' = [tx EXCEPT ![s] = t]
  BY DEF Flush
<1>2. t.writes = ws /\ t.exp = e /\ t.expTo = to
  <2> HIDE DEF to
  <2>1. QED
    BY DEF TxType
<1> HIDE DEF t
<1>3. QED
  BY <1>1, <1>2 DEF to

\* What one status derives, whatever the experiment's status was.
LEMMA DerivedFromOne ==
  ASSUME NEW current, NEW status, NEW failed
  PROVE  DeriveExperimentStatus(current, {status}, failed)
           = DeriveExperimentStatus("draft", {status}, failed)
BY DEF DeriveExperimentStatus

\* After a sync that writes `to`, or nothing, the status is the one derived.
Syncs(to, current, derived) == IF to # None THEN to = derived ELSE current = derived

\* The status that an experiment has after a sync over its one run.
LEMMA SyncTells ==
  ASSUME NEW e \in Exps, NEW current \in ExperimentStatuses, NEW ws, NEW status,
         Statuses(e, Visible(ws)) = {status}
  PROVE  Syncs(Synced(e, current, ws), current,
               DeriveExperimentStatus("draft", {status}, failedTrials[e]))
<1> DEFINE derived == DeriveExperimentStatus(current, {status}, failedTrials[e])
<1>1. Synced(e, current, ws) = IF derived = current THEN None ELSE derived
  BY DEF Synced
<1>2. derived = DeriveExperimentStatus("draft", {status}, failedTrials[e])
  BY DerivedFromOne
<1>3. derived # None
  BY DerivedIsStatus, NoneAssumption
<1> HIDE DEF derived
<1>4. QED
  BY <1>1, <1>2, <1>3 DEF Syncs

\* The only run of an experiment, as its session sees it.
LEMMA OnlyStatus ==
  ASSUME runs \in [RunIds -> Row], OneRun, NEW r \in RunIds, NEW row \in Row, Exists(runs[r]),
         row.exp = runs[r].exp, NEW ws \in Writes, ws[r] = row,
         \A i \in RunIds \ {r} : ws[i] = None
  PROVE  Statuses(row.exp, Visible(ws)) = {row.status}
<1>1. runs[r].exp \in Exps /\ Carries(r, row.exp)
  BY DEF Row, Exists, Carries
<1>2. \A i \in RunIds : Visible(ws)[i] = IF ws[i] = None THEN runs[i] ELSE ws[i]
  BY VisibleRows
<1>3. Visible(ws)[r] = row
  BY <1>2, NoneIsNoRow
<1>4. ASSUME NEW i \in RunIds \ {r} PROVE Visible(ws)[i].exp # row.exp
  <2>1. Visible(ws)[i] = runs[i]
    BY <1>2
  <2>2. ASSUME runs[i].exp = row.exp PROVE FALSE
    <3>1. Carries(i, row.exp)
      BY <1>1, <2>2, NoneAssumption DEF Carries, Exists
    <3>2. QED
      BY <1>1, <3>1 DEF OneRun
  <2>3. QED
    BY <2>1, <2>2
<1>5. {i \in RunIds : Visible(ws)[i].exp = row.exp} = {r}
  BY <1>3, <1>4
<1>6. QED
  BY <1>3, <1>5 DEF Statuses

\* The UPDATE of a run, followed by the sync of its experiment.
LEMMA UpdateSyncs ==
  ASSUME WellFormed, OneRun, NEW s \in Sessions, NEW r \in RunIds, NEW row \in Row,
         Exists(runs[r]), row.exp = runs[r].exp, FlushRow(s, r, row),
         UNCHANGED <<runs, exps, failedTrials>>
  PROVE  FlushStep(s)
<1> DEFINE e == row.exp
           ws == [NoWrites EXCEPT ![r] = row]
<1>1. /\ runs \in [RunIds -> Row] /\ exps \in [Exps -> ExperimentStatuses]
      /\ tx \in [Sessions -> TxType]
  BY DEF WellFormed, TypeOK
<1>2. e \in Exps /\ row # None /\ Exists(row)
  BY NoneIsNoRow DEF Row, Exists
<1>3. ws \in Writes /\ ws[r] = row /\ \A i \in RunIds \ {r} : ws[i] = None
  BY DEF Writes, NoWrites
<1>4. Flush(s, r, ws, e, exps[e])
  BY DEF FlushRow
<1> HIDE DEF ws
<1>5. /\ tx'[s].writes = ws /\ tx'[s].exp = e /\ tx'[s].expTo = Synced(e, exps[e], ws)
      /\ \A v \in Sessions \ {s} : tx'[v] = tx[v]
  BY <1>1, <1>4, FlushSyncs
<1> DEFINE derived == DeriveExperimentStatus("draft", {row.status}, failedTrials[e])
           to == Synced(e, exps[e], ws)
<1>6. Syncs(to, exps[e], derived)
  <2>1. Statuses(e, Visible(ws)) = {row.status}
    BY <1>1, <1>3, OnlyStatus
  <2>2. exps[e] \in ExperimentStatuses
    BY <1>1, <1>2
  <2> HIDE DEF e
  <2>3. QED
    BY <1>2, <2>1, <2>2, SyncTells
<1> HIDE DEF to
<1>7. StatusAfter(s, e)' = derived
  <2>1. exps' = exps /\ tx'[s].exp = e /\ tx'[s].expTo = to
    BY <1>5 DEF to
  <2>2. StatusAfter(s, e)' = IF tx'[s].expTo # None /\ tx'[s].exp = e THEN tx'[s].expTo
                                                                        ELSE exps'[e]
    BY DEF StatusAfter
  <2> HIDE DEF derived, e
  <2>3. QED
    BY <1>6, <2>1, <2>2 DEF Syncs
<1>8. ToldByWrites(s)'
  <2>1. ASSUME NEW i \in RunIds, tx'[s].writes[i] # None
        PROVE  i = r /\ tx'[s].writes[i] = row
    BY <1>3, <1>5, <2>1
  <2>2. Told(row, derived)'
    BY DEF Told
  <2>3. QED
    BY <1>7, <2>1, <2>2 DEF ToldByWrites
<1>9. SyncsItsOwn(s)'
  BY <1>2, <1>3, <1>5 DEF SyncsItsOwn
<1>10. QED
  BY <1>5, <1>8, <1>9 DEF FlushStep

\* The INSERT of a run that waits.
LEMMA InsertSyncs ==
  ASSUME WellFormed, NEW q \in Requests, FlushNew(q)
  PROVE  FlushStep(q)
<1> DEFINE row == QueuedRow(req[q].exp, req[q].key, req[q].fp)
<1>1. /\ q \in Sessions /\ tx \in [Sessions -> TxType]
      /\ req[q].exp \in Exps /\ req[q].key \in Keys /\ req[q].fp \in Fingerprints
      /\ UNCHANGED <<runs, exps, failedTrials>>
  BY RequestFacts DEF FlushNew, AskedFor, Untouched
<1>2. row \in Row /\ row.exp = req[q].exp /\ ~Terminal(row)
  <2>1. row \in Row /\ row.exp = req[q].exp /\ row.status = "queued"
    BY <1>1, NewRowIsRow, InsertedRow
  <2>2. QED
    BY <2>1, StatusKinds
<1> HIDE DEF row
<1>3. PICK r \in RunIds :
         Flush(q, r, [NoWrites EXCEPT ![r] = row], req[q].exp, req[q].expSeen)
  BY DEF FlushNew, row
<1> DEFINE ws == [NoWrites EXCEPT ![r] = row]
<1>4. ws[r] = row /\ \A i \in RunIds \ {r} : ws[i] = None
  BY DEF NoWrites
<1>5. Flush(q, r, ws, req[q].exp, req[q].expSeen)
  BY <1>3
<1> HIDE DEF ws
<1>6. /\ tx'[q].writes = ws /\ tx'[q].exp = req[q].exp
      /\ \A v \in Sessions \ {q} : tx'[v] = tx[v]
  BY <1>1, <1>5, FlushSyncs
<1>7. ToldByWrites(q)'
  BY <1>2, <1>4, <1>6 DEF ToldByWrites, Told
<1>8. SyncsItsOwn(q)'
  BY <1>2, <1>4, <1>6, NoneIsNoRow DEF SyncsItsOwn
<1>9. QED
  BY <1>1, <1>6, <1>7, <1>8 DEF FlushStep

\* A claim fails only runs that have used up their attempts, and none unless a worker
\* has crashed.
LEMMA ReclaimTells ==
  ASSUME WellFormed, Handed, NEW r \in RunIds, ExpiredWrites[r] # None
  PROVE  ~Terminal(ExpiredWrites[r]) \/ Exhausted(ExpiredWrites[r])
<1>1. /\ runs \in [RunIds -> Row] /\ runs[r] \in Row /\ runs[r].attempt \in Nat
      /\ MaxAttempts \in Nat /\ MaxCrashes \in Nat
  BY MaxAttemptsAssumption, BoundsAssumption DEF WellFormed, TypeOK, Row
<1>2. Reclaimable(runs[r]) /\ ExpiredWrites[r] = Requeued(runs[r])
  BY <1>1, ExpiredRows
<1>3. MaxCrashes > 0
  BY <1>1, <1>2 DEF Handed, Reclaimable
<1>4. LET new == Requeued(runs[r])
      IN  /\ new \in Row /\ new.attempt = runs[r].attempt
          /\ new.status = IF runs[r].attempt < MaxAttempts THEN "queued" ELSE "failed"
  BY <1>1, RequeuedRow
<1>5. CASE runs[r].attempt < MaxAttempts
  BY <1>2, <1>4, <1>5, StatusKinds
<1>6. CASE runs[r].attempt >= MaxAttempts
  BY <1>1, <1>2, <1>3, <1>4, <1>6 DEF Exhausted
<1>7. QED
  BY <1>1, <1>5, <1>6

\* claim_next_run, and the sync of what it claimed.
LEMMA ClaimSyncs ==
  ASSUME WellFormed, Handed, NEW w \in Workers, ClaimOldest(w) \/ ClaimNothing(w)
  PROVE  FlushStep(w)
<1>1. /\ w \in Sessions /\ tx \in [Sessions -> TxType] /\ tx[w] \in TxType /\ tx[w] = NoTx
      /\ runs \in [RunIds -> Row] /\ exps \in [Exps -> ExperimentStatuses]
      /\ UNCHANGED <<runs, exps, failedTrials>>
  BY WorkerFacts DEF ClaimOldest, ClaimNothing, Untouched, TxShape
<1>2. ExpiredWrites \in Writes
  BY <1>1, ExpiredRows
<1>3. ASSUME NEW ws, tx'[w].writes = ws, \A v \in Sessions \ {w} : tx'[v] = tx[v],
             \A i \in RunIds : ws[i] # None => ~Terminal(ws[i]) \/ Exhausted(ws[i]),
             tx'[w].expTo # None =>
               \E i \in RunIds : ws[i] # None /\ ws[i].exp = tx'[w].exp
      PROVE  FlushStep(w)
  <2>1. ToldByWrites(w)'
    BY <1>3 DEF ToldByWrites, Told
  <2>2. SyncsItsOwn(w)'
    BY <1>3 DEF SyncsItsOwn
  <2>3. QED
    BY <1>1, <1>3, <2>1, <2>2 DEF FlushStep
<1>4. CASE ClaimNothing(w)
  <2> DEFINE t == [NoTx EXCEPT !.phase = "flushed", !.writes = ExpiredWrites]
  <2>1. t.writes = ExpiredWrites /\ t.expTo = None
    BY DEF NoTx
  <2>2. tx' = [tx EXCEPT ![w] = t]
    BY <1>1, <1>4 DEF ClaimNothing
  <2> HIDE DEF t
  <2>3. /\ tx'[w].writes = ExpiredWrites /\ tx'[w].expTo = None
        /\ \A v \in Sessions \ {w} : tx'[v] = tx[v]
    BY <1>1, <2>1, <2>2
  <2>4. QED
    BY <1>3, <2>3, ReclaimTells
<1>5. CASE ClaimOldest(w)
  <2> DEFINE rows == Visible(ExpiredWrites)
  <2>1. PICK r \in Claimable(rows) :
           Flush(w, r, [ExpiredWrites EXCEPT ![r] = ClaimedBy(rows[r], w)],
                 rows[r].exp, exps[rows[r].exp])
    BY <1>5 DEF ClaimOldest
  <2>2. r \in RunIds /\ rows \in [RunIds -> Row]
    BY <1>1, <1>2, VisibleRows DEF Claimable
  <2> HIDE DEF rows
  <2> DEFINE new == ClaimedBy(rows[r], w)
             ws == [ExpiredWrites EXCEPT ![r] = new]
  <2>3. new \in Row /\ new.exp = rows[r].exp /\ ~Terminal(new)
    <3>1. rows[r] \in Row
      BY <2>2
    <3>2. new \in Row /\ Ids(new) = Ids(rows[r]) /\ new.status \in HeartbeatStatuses
      BY <3>1, ClaimedRow
    <3> HIDE DEF new
    <3>3. QED
      BY <3>2, SameNames, StatusKinds
  <2> HIDE DEF new
  <2>4. ws[r] = new /\ \A i \in RunIds \ {r} : ws[i] = ExpiredWrites[i]
    BY <1>2, <2>2 DEF Writes
  <2>5. Flush(w, r, ws, rows[r].exp, exps[rows[r].exp])
    BY <2>1 DEF new
  <2> HIDE DEF ws
  <2>6. /\ tx'[w].writes = ws /\ tx'[w].exp = rows[r].exp
        /\ \A v \in Sessions \ {w} : tx'[v] = tx[v]
    BY <1>1, <2>5, FlushSyncs
  <2>7. \A i \in RunIds : ws[i] # None => ~Terminal(ws[i]) \/ Exhausted(ws[i])
    BY <2>2, <2>3, <2>4, ReclaimTells
  <2>8. ws[r] # None /\ ws[r].exp = tx'[w].exp
    BY <2>3, <2>4, <2>6, NoneIsNoRow
  <2>9. QED
    BY <1>3, <2>2, <2>6, <2>7, <2>8
<1>6. QED
  BY <1>4, <1>5

\* The fields of a transaction that is opened to read.
LEMMA ReadStays ==
  ASSUME WellFormed, NEW s \in Sessions, NEW t, tx' = [tx EXCEPT ![s] = t],
         t.writes = tx[s].writes, t.expTo = tx[s].expTo,
         t.exp = tx[s].exp \/ (tx[s] = NoTx)
  PROVE  \A v \in Sessions : WritesStay(v) \/ WritesGone(v)
<1>1. tx \in [Sessions -> TxType]
  BY DEF WellFormed, TypeOK
<1>2. ASSUME NEW v \in Sessions, v # s PROVE WritesStay(v)
  <2>1. tx'[v] = tx[v]
    BY <1>1, <1>2
  <2>2. QED
    BY <2>1 DEF WritesStay
<1>3. tx'[s] = t
  BY <1>1
<1>4. CASE t.exp = tx[s].exp
  BY <1>2, <1>3, <1>4 DEF WritesStay
<1>5. CASE tx[s] = NoTx
  <2>1. tx[s].expTo = None /\ tx[s].writes = NoWrites
    BY <1>5 DEF NoTx
  <2>2. WritesGone(s)
    BY <1>3, <2>1, NoTxIsTx DEF WritesGone
  <2>3. QED
    BY <1>2, <2>2
<1>6. QED
  BY <1>4, <1>5

\* A rollback.
LEMMA RollbackStays ==
  ASSUME WellFormed, NEW s \in Sessions, Close(s)
  PROVE  \A v \in Sessions : WritesStay(v) \/ WritesGone(v)
<1>1. tx \in [Sessions -> TxType]
  BY DEF WellFormed, TypeOK
<1>2. tx'[s] = NoTx /\ \A v \in Sessions \ {s} : tx'[v] = tx[v]
  BY <1>1 DEF Close
<1>3. NoTx.expTo = None
  BY DEF NoTx
<1>4. WritesGone(s)
  BY <1>2, <1>3, NoTxIsTx DEF WritesGone
<1>5. QED
  BY <1>2, <1>4 DEF WritesStay

\* Rows that stay as they are.
LEMMA RowsStayAlike ==
  ASSUME RowsStay
  PROVE  RowsAlike
BY DEF RowsStay, RowsAlike

\* Every step of a worker is of one of these kinds.
LEMMA WorkerKinds ==
  ASSUME Leased, OneRun, Handed, NEW w \in Workers, WorkerNext(w)
  PROVE  QuietStep \/ CommitStep(w) \/ FlushStep(w) \/ TrialFails(w)
<1>1. /\ WellFormed /\ w \in Sessions /\ TxShape(w) /\ SeenRow(w)
      /\ tx[w] \in TxType /\ tx \in [Sessions -> TxType]
  BY WorkerFacts DEF Leased, Inductive
<1>2. UNCHANGED runs => RowsAlike
  BY DEF RowsAlike
<1>3. UNCHANGED tx => \A v \in Sessions : WritesStay(v)
  BY DEF WritesStay
<1>4. CASE Conclude(w) \/ Restart(w) \/ Stop(w)
  BY <1>2, <1>3, <1>4 DEF Conclude, Restart, Stop, Untouched, QuietStep
<1>5. CASE Heartbeat(w)
  <2>1. pc[w] \in Busy /\ pc[w] # "releasing"
    BY <1>5 DEF Heartbeat, Busy, Outcomes
  <2>2. Heartbeaten(runs[held[w]]) = runs[held[w]] /\ held[w] \in RunIds
    BY <2>1, WorkingOwns, HeartbeatOfLive
  <2>3. RowsStay
    BY <1>1, <1>5, <2>2 DEF Heartbeat, RowsStay, WellFormed, TypeOK
  <2>4. QED
    BY <1>3, <1>5, <2>3, RowsStayAlike DEF Heartbeat, Untouched, QuietStep
<1>6. CASE ReadToStart(w) \/ ReadToComplete(w) \/ ReadToRelease(w)
  <2>1. UNCHANGED <<runs, exps, failedTrials>>
    BY <1>6 DEF ReadToStart, ReadToComplete, ReadToRelease, Untouched
  <2>2. CASE UNCHANGED tx
    BY <1>2, <1>3, <2>1, <2>2 DEF QuietStep
  <2>3. ASSUME NEW t, tx' = [tx EXCEPT ![w] = t], t.writes = tx[w].writes,
               t.expTo = tx[w].expTo, t.exp = tx[w].exp
        PROVE  QuietStep
    BY <1>1, <1>2, <2>1, <2>3, ReadStays DEF QuietStep
  <2> DEFINE end == RunStatusFor(pc[w], failedTrials[runs[held[w]].exp])
             t1 == [tx[w] EXCEPT !.phase = "read", !.run = held[w], !.seen = runs[held[w]]]
             t2 == [tx[w] EXCEPT !.phase = "read", !.run = held[w], !.seen = runs[held[w]],
                                 !.end = end]
  <2>4. t1.writes = tx[w].writes /\ t1.expTo = tx[w].expTo /\ t1.exp = tx[w].exp
    BY <1>1 DEF TxType
  <2>5. t2.writes = tx[w].writes /\ t2.expTo = tx[w].expTo /\ t2.exp = tx[w].exp
    <3> HIDE DEF end
    <3>1. QED
      BY <1>1 DEF TxType
  <2>6. UNCHANGED tx \/ tx' = [tx EXCEPT ![w] = t1] \/ tx' = [tx EXCEPT ![w] = t2]
    BY <1>6 DEF ReadToStart, ReadToComplete, ReadToRelease
  <2> HIDE DEF t1, t2
  <2>7. QED
    BY <2>2, <2>3, <2>4, <2>5, <2>6
<1>7. CASE Crash(w) \/ DatabaseFails(w)
  <2>1. Close(w) /\ (Discard \/ Apply(w)) /\ failedTrials' = failedTrials
    BY <1>7 DEF Crash, DatabaseFails
  <2>2. CASE Discard
    BY <1>1, <1>2, <2>1, <2>2, RollbackStays DEF Discard, QuietStep
  <2>3. QED
    BY <2>1, <2>2 DEF CommitStep
<1>8. CASE CommitClaim(w) \/ CommitStart(w) \/ CommitComplete(w) \/ CommitRelease(w)
  BY <1>8 DEF CommitClaim, CommitStart, CommitComplete, CommitRelease, Untouched, CommitStep
<1>9. CASE ClaimOldest(w) \/ ClaimNothing(w)
  BY <1>1, <1>9, ClaimSyncs
<1>10. ASSUME pc[w] \in Busy, NEW row \in Row, row.exp = runs[held[w]].exp,
              FlushRow(w, held[w], row), UNCHANGED <<runs, exps, failedTrials>>
       PROVE  FlushStep(w)
  BY <1>1, <1>10, WorkerFacts, UpdateSyncs
<1>11. CASE FlushStart(w)
  <2>1. pc[w] \in Busy /\ UNCHANGED <<runs, exps, failedTrials>>
    BY <1>11 DEF FlushStart, Busy, Untouched
  <2>2. runs[held[w]] \in Row /\ tx[w].seen \in Row
    BY <1>1, <2>1, WorkerFacts DEF TxType
  <2>3. QED
    BY <1>10, <1>11, <2>1, <2>2, RowOperations DEF FlushStart
<1>12. CASE FlushComplete(w)
  <2>1. pc[w] \in Busy /\ UNCHANGED <<runs, exps, failedTrials>>
    BY <1>12 DEF FlushComplete, Busy, Untouched
  <2>2. runs[held[w]] \in Row /\ tx[w].seen \in Row /\ tx[w].end \in TerminalRunStatuses
    BY <1>1, <1>12, <2>1, WorkerFacts DEF FlushComplete, TxShape, TxType
  <2>3. QED
    BY <1>10, <1>12, <2>1, <2>2, CompletionIsRow DEF FlushComplete
<1>13. CASE FlushRelease(w)
  <2>1. pc[w] \in Busy /\ UNCHANGED <<runs, exps, failedTrials>>
    BY <1>13 DEF FlushRelease, Busy, Untouched
  <2>2. runs[held[w]] \in Row /\ tx[w].seen \in Row /\ ~Terminal(tx[w].seen)
    BY <1>1, <1>13, <2>1, WorkerFacts, StatusKinds DEF FlushRelease, TxType, SeenRow
  <2>3. QED
    BY <1>10, <1>13, <2>1, <2>2, RowOperations DEF FlushRelease
<1>14. QED
  BY <1>4, <1>5, <1>6, <1>7, <1>8, <1>9, <1>11, <1>12, <1>13
     DEF WorkerNext, Progress, Fault

\* And every step of a request.
LEMMA RequestKinds ==
  ASSUME Leased, OneRun, NEW q \in Requests, ~FlushExisting(q), RequestNext(q)
  PROVE  QuietStep \/ CommitStep(q) \/ FlushStep(q)
<1>1. /\ WellFormed /\ q \in Sessions /\ TxShape(q) /\ tx[q] \in TxType
      /\ tx \in [Sessions -> TxType] /\ runs \in [RunIds -> Row]
      /\ failedTrials' = failedTrials
  BY RequestFacts, RequestAlone DEF Leased
<1>2. UNCHANGED runs => RowsAlike
  BY DEF RowsAlike
<1>3. UNCHANGED tx => \A v \in Sessions : WritesStay(v)
  BY DEF WritesStay
<1>4. CASE UNCHANGED <<runs, exps, tx>>
  BY <1>1, <1>2, <1>3, <1>4 DEF QuietStep
<1>5. ASSUME NEW e \in Exps, NEW k \in Keys, NEW f \in Fingerprints,
             ReadToQueue(q, e, k, f), tx' # tx
      PROVE  QuietStep
  <2>1. tx[q] = NoTx /\ UNCHANGED <<runs, exps>>
    BY <1>1, <1>5 DEF ReadToQueue, TxShape
  <2>2. PICK i : tx' = [tx EXCEPT ![q] = [@ EXCEPT !.phase = "read", !.exp = e, !.run = i]]
    BY <1>5 DEF ReadToQueue
  <2> DEFINE t == [tx[q] EXCEPT !.phase = "read", !.exp = e, !.run = i]
  <2>3. t.writes = tx[q].writes /\ t.expTo = tx[q].expTo
    BY <1>1 DEF TxType
  <2>4. tx' = [tx EXCEPT ![q] = t]
    BY <2>2
  <2> HIDE DEF t
  <2>5. QED
    BY <1>1, <1>2, <2>1, <2>3, <2>4, ReadStays DEF QuietStep
<1>6. CASE FlushNew(q)
  BY <1>1, <1>6, InsertSyncs
<1>7. ASSUME NEW r \in RunIds, FlushCancel(q, r), tx' # tx PROVE FlushStep(q)
  <2>1. CancelRequested(runs[r]) \in Row /\ CancelRequested(runs[r]).exp = runs[r].exp
    BY <1>1, CancelIsRow
  <2>2. /\ Exists(runs[r]) /\ FlushRow(q, r, CancelRequested(runs[r]))
        /\ UNCHANGED <<runs, exps, failedTrials>>
    BY <1>7 DEF FlushCancel
  <2>3. QED
    BY <1>1, <2>1, <2>2, UpdateSyncs
<1>8. ASSUME Close(q), Discard PROVE QuietStep
  BY <1>1, <1>2, <1>8, RollbackStays DEF Discard, QuietStep
<1>9. ASSUME Close(q), Apply(q) PROVE CommitStep(q)
  BY <1>1, <1>9 DEF CommitStep
<1>10. CASE InsertFails(q) \/ CommitRequest(q) \/ RequestFails(q)
  <2>1. Close(q) /\ (Discard \/ Apply(q))
    BY <1>10 DEF InsertFails, CommitRequest, RequestFails, Discard
  <2>2. QED
    BY <1>8, <1>9, <2>1
<1>11. CASE Respond(q)
  BY <1>4, <1>11 DEF Respond
<1>12. UNCHANGED <<runs, exps>> \/ InsertFails(q) \/ CommitRequest(q) \/ RequestFails(q)
  BY DEF RequestNext, Answer, ReadToQueue, FlushCancel, FlushNew, Respond, FlushExisting
<1>13. QED
  BY <1>4, <1>5, <1>6, <1>7, <1>10, <1>11, <1>12 DEF RequestNext, Answer

-----------------------------------------------------------------------------
(* The statuses stay current.                                              *)

\* A step that leaves statuses alone, and with them what open transactions will write.
LEMMA QuietFresh ==
  ASSUME Fresh, QuietStep
  PROVE  Fresh'
<1>1. ASSUME NEW r \in RunIds, Exists(runs'[r]) PROVE Told(runs[r], exps[runs[r].exp])'
  <2>1. /\ runs'[r].status = runs[r].status /\ runs'[r].exp = runs[r].exp
        /\ runs'[r].attempt = runs[r].attempt /\ exps' = exps /\ failedTrials' = failedTrials
    BY DEF QuietStep, RowsAlike
  <2>2. Told(runs[r], exps[runs[r].exp])
    BY <1>1, <2>1 DEF Fresh, ToldByRows, Exists
  <2>3. QED
    BY <2>1, <2>2 DEF Told, Terminal, Exhausted
<1>2. ASSUME NEW s \in Sessions PROVE ToldByWrites(s)' /\ SyncsItsOwn(s)'
  <2>1. CASE WritesGone(s)
    BY <2>1 DEF WritesGone, ToldByWrites, SyncsItsOwn
  <2>2. CASE WritesStay(s)
    <3>1. /\ tx'[s].writes = tx[s].writes /\ tx'[s].exp = tx[s].exp
          /\ tx'[s].expTo = tx[s].expTo /\ exps' = exps /\ failedTrials' = failedTrials
      BY <2>2 DEF WritesStay, QuietStep
    <3>2. ToldByWrites(s)'
      BY <3>1 DEF Fresh, ToldByWrites, StatusAfter, Told
    <3>3. SyncsItsOwn(s)'
      BY <3>1 DEF Fresh, SyncsItsOwn
    <3>4. QED
      BY <3>2, <3>3
  <2>3. QED
    BY <2>1, <2>2 DEF QuietStep
<1>3. QED
  BY <1>1, <1>2 DEF Fresh, ToldByRows

\* A flush, which shows in the tables only later.
LEMMA FlushFresh ==
  ASSUME Fresh, NEW s \in Sessions, FlushStep(s)
  PROVE  Fresh'
<1>1. ToldByRows'
  BY DEF Fresh, ToldByRows, Told, FlushStep
<1>2. ASSUME NEW v \in Sessions, v # s PROVE ToldByWrites(v)' /\ SyncsItsOwn(v)'
  <2>1. tx'[v] = tx[v] /\ exps' = exps /\ failedTrials' = failedTrials
    BY <1>2 DEF FlushStep
  <2>2. ToldByWrites(v) /\ SyncsItsOwn(v)
    BY DEF Fresh
  <2>3. ToldByWrites(v)'
    BY <2>1, <2>2 DEF ToldByWrites, StatusAfter, Told
  <2>4. SyncsItsOwn(v)'
    BY <2>1, <2>2 DEF SyncsItsOwn
  <2>5. QED
    BY <2>3, <2>4
<1>3. QED
  BY <1>1, <1>2 DEF Fresh, FlushStep

\* A session that changes the status of an experiment writes the run that it has.
LEMMA SyncsRun ==
  ASSUME Leased, OneRun, NEW s \in Sessions, SyncsItsOwn(s), NEW e \in Exps,
         StatusAfter(s, e) # exps[e], NEW r \in RunIds, Carries(r, e)
  PROVE  tx[s].writes[r] # None
<1>1. tx[s].expTo # None /\ tx[s].exp = e
  BY DEF StatusAfter
<1>2. PICK i \in RunIds : tx[s].writes[i] # None /\ tx[s].writes[i].exp = e
  BY <1>1 DEF SyncsItsOwn
<1>3. Carries(i, e)
  BY <1>2, WritesCarry
<1>4. QED
  BY <1>2, <1>3 DEF OneRun

\* A commit, which shows the rows and the status together.
LEMMA CommitFresh ==
  ASSUME Leased, OneRun, Fresh, NEW s \in Sessions, CommitStep(s)
  PROVE  Fresh'
<1>1. /\ WellFormed /\ OneLock /\ tx \in [Sessions -> TxType] /\ failedTrials' = failedTrials
      /\ runs \in [RunIds -> Row]
  BY DEF Leased, Inductive, WellFormed, TypeOK, CommitStep
<1>2. \A r \in RunIds : runs'[r] = IF tx[s].writes[r] = None THEN runs[r] ELSE tx[s].writes[r]
  BY <1>1, ApplyEffect DEF CommitStep
<1>3. \A e \in Exps : exps'[e] = StatusAfter(s, e)
  BY DEF CommitStep, Apply, StatusAfter
<1>4. tx'[s] = NoTx /\ \A v \in Sessions \ {s} : tx'[v] = tx[v]
  BY <1>1 DEF CommitStep, Close
<1>5. ASSUME NEW r \in RunIds, Exists(runs'[r]) PROVE Told(runs[r], exps[runs[r].exp])'
  <2>1. CASE tx[s].writes[r] # None
    <3> DEFINE new == tx[s].writes[r]
    <3>1. runs'[r] = new /\ new.exp \in Exps
      BY <1>2, <2>1, WritesCarry
    <3>2. Told(new, StatusAfter(s, new.exp))
      BY <2>1 DEF Fresh, ToldByWrites
    <3> HIDE DEF new
    <3>3. exps'[new.exp] = StatusAfter(s, new.exp)
      BY <1>3, <3>1
    <3>4. QED
      BY <1>1, <3>1, <3>2, <3>3 DEF Told
  <2>2. CASE tx[s].writes[r] = None
    <3>1. runs'[r] = runs[r] /\ Exists(runs[r])
      BY <1>2, <1>5, <2>2
    <3>2. Told(runs[r], exps[runs[r].exp]) /\ runs[r].exp \in Exps
      BY <1>1, <3>1 DEF Fresh, ToldByRows, Exists, Row
    <3>3. Carries(r, runs[r].exp)
      BY <3>1 DEF Carries
    <3>4. exps'[runs[r].exp] = exps[runs[r].exp]
      BY <1>3, <2>2, <3>2, <3>3, SyncsRun DEF Fresh
    <3>5. QED
      BY <1>1, <3>1, <3>2, <3>4 DEF Told
  <2>3. QED
    BY <2>1, <2>2
<1>6. ASSUME NEW v \in Sessions, v # s PROVE ToldByWrites(v)' /\ SyncsItsOwn(v)'
  <2>1. tx'[v] = tx[v]
    BY <1>4, <1>6
  <2>2. SyncsItsOwn(v)'
    BY <2>1 DEF Fresh, SyncsItsOwn
  <2>3. ASSUME NEW r \in RunIds, tx[v].writes[r] # None
        PROVE  Told(tx[v].writes[r], StatusAfter(v, tx[v].writes[r].exp))'
    <3> DEFINE e == tx[v].writes[r].exp
    <3>1. e \in Exps /\ Carries(r, e)
      BY <2>3, WritesCarry
    <3>2. tx[s].writes[r] = None
      BY <1>1, <1>6, <2>3 DEF OneLock
    <3>3. exps'[e] = exps[e]
      <4> HIDE DEF e
      <4>1. QED
        BY <1>3, <3>1, <3>2, SyncsRun DEF Fresh
    <3>4. StatusAfter(v, e)' = StatusAfter(v, e)
      <4>1. StatusAfter(v, e)' = IF tx'[v].expTo # None /\ tx'[v].exp = e' THEN tx'[v].expTo
                                                                           ELSE exps'[e']
        BY DEF StatusAfter
      <4>2. e' = e
        BY <2>1
      <4> HIDE DEF e
      <4>3. QED
        BY <2>1, <3>3, <4>1, <4>2 DEF StatusAfter
    <3>5. Told(tx[v].writes[r], StatusAfter(v, e))
      BY <2>3 DEF Fresh, ToldByWrites
    <3>6. QED
      BY <1>1, <2>1, <3>4, <3>5 DEF Told
  <2>4. ToldByWrites(v)'
    BY <2>1, <2>3 DEF ToldByWrites
  <2>5. QED
    BY <2>2, <2>4
<1>7. ToldByWrites(s)' /\ SyncsItsOwn(s)'
  <2>1. tx'[s].expTo = None /\ \A r \in RunIds : tx'[s].writes[r] = None
    BY <1>4, NoTxIsTx DEF NoTx
  <2>2. QED
    BY <2>1 DEF ToldByWrites, SyncsItsOwn
<1>8. QED
  BY <1>5, <1>6, <1>7 DEF Fresh, ToldByRows

\* A failed trial: the run that it belongs to goes on, so no status tells of it yet.
LEMMA TrialFailsFresh ==
  ASSUME Leased, OneRun, Fresh, NEW w \in Workers, TrialFails(w)
  PROVE  Fresh'
<1> DEFINE h == held[w]
           e == runs[h].exp
<1>1. /\ WellFormed /\ h \in RunIds /\ Exists(runs[h]) /\ ~Terminal(runs[h]) /\ e \in Exps
      /\ h # NoRun /\ pc[w] = "executing" /\ runs \in [RunIds -> Row]
      /\ failedTrials \in [Exps -> BOOLEAN]
  BY WorkingOwns DEF TrialFails, Busy, Leased, WellFormed, TypeOK, Row, Exists
<1>2. /\ UNCHANGED <<runs, exps, tx>>
      /\ \A d \in Exps \ {e} : failedTrials'[d] = failedTrials[d]
  BY <1>1 DEF TrialFails
<1>3. Carries(h, e)
  BY <1>1 DEF Carries
<1>4. ASSUME NEW r \in RunIds, Exists(runs[r]) PROVE Told(runs[r], exps[runs[r].exp])'
  <2>1. CASE runs[r].exp = e
    <3>1. Carries(r, e)
      BY <1>4, <2>1 DEF Carries
    <3>2. r = h
      <4> HIDE DEF h, e
      <4>1. QED
        BY <1>1, <1>3, <3>1 DEF OneRun
    <3>3. QED
      BY <1>1, <1>2, <3>2 DEF Told
  <2>2. CASE runs[r].exp # e
    <3>1. runs[r].exp \in Exps \ {e}
      BY <1>1, <1>4, <2>2 DEF Row, Exists
    <3>2. QED
      BY <1>2, <1>4, <3>1 DEF Fresh, ToldByRows, Told
  <2>3. QED
    BY <2>1, <2>2
<1>5. ASSUME NEW s \in Sessions, NEW r \in RunIds, tx[s].writes[r] # None,
             tx[s].writes[r].exp = e
      PROVE  ~Terminal(tx[s].writes[r])
  <2>1. Carries(r, e)
    BY <1>5, WritesCarry
  <2>2. r = h
    <3> HIDE DEF h, e
    <3>1. QED
      BY <1>1, <1>3, <2>1 DEF OneRun
  <2>3. CASE s \in Requests
    <3>1. Owned(tx[s].writes[r], w) /\ tx[s].writes[r] \in Row
      BY <1>5, <2>2, <2>3, RequestWriteFacts
    <3>2. QED
      BY <3>1, StatusKinds DEF Owned, MayHeartbeat
  <2>4. CASE s \in Workers
    <3>1. s = w
      BY <1>5, <2>2, <2>4, WorkerWriteFacts
    <3>2. tx[w].phase = "flushed" /\ w \in Sessions
      BY <1>1, <1>5, <3>1, WritesAreFlushed
    <3>3. tx[w].phase = "none"
      BY <1>1, <3>2 DEF WellFormed, TxShape
    <3>4. QED
      BY <3>2, <3>3
  <2>5. QED
    BY <2>3, <2>4 DEF Sessions
<1>6. ASSUME NEW s \in Sessions PROVE ToldByWrites(s)' /\ SyncsItsOwn(s)'
  <2>1. SyncsItsOwn(s)'
    BY <1>2 DEF Fresh, SyncsItsOwn
  <2>2. ASSUME NEW r \in RunIds, tx[s].writes[r] # None
        PROVE  Told(tx[s].writes[r], StatusAfter(s, tx[s].writes[r].exp))'
    <3>1. CASE tx[s].writes[r].exp = e
      BY <1>2, <1>5, <2>2, <3>1 DEF Told
    <3>2. CASE tx[s].writes[r].exp # e
      <4>1. tx[s].writes[r].exp \in Exps \ {e}
        BY <2>2, <3>2, WritesCarry
      <4>2. Told(tx[s].writes[r], StatusAfter(s, tx[s].writes[r].exp))
        BY <2>2 DEF Fresh, ToldByWrites
      <4>3. QED
        BY <1>2, <4>1, <4>2 DEF Told, StatusAfter
    <3>3. QED
      BY <3>1, <3>2
  <2>3. ToldByWrites(s)'
    BY <1>2, <2>2 DEF ToldByWrites
  <2>4. QED
    BY <2>1, <2>3
<1>7. QED
  BY <1>2, <1>4, <1>6 DEF Fresh, ToldByRows

\* Every step leaves the statuses current.
LEMMA FreshStays ==
  ASSUME Leased, Keyed, Settling, [Next]_vars
  PROVE  Fresh'
<1>1. WellFormed /\ Lone /\ Begun /\ OneRun /\ Handed /\ Fresh
  BY DEF Leased, Settling
<1>2. ASSUME NEW w \in Workers, WorkerNext(w) PROVE Fresh'
  <2>1. w \in Sessions
    BY DEF Sessions
  <2>2. QED
    BY <1>1, <1>2, <2>1, WorkerKinds, QuietFresh, FlushFresh, CommitFresh, TrialFailsFresh
<1>3. ASSUME NEW q \in Requests, RequestNext(q) PROVE Fresh'
  <2>1. q \in Sessions /\ ~FlushExisting(q)
    BY <1>1, NothingFound DEF Sessions
  <2>2. QED
    BY <1>1, <1>3, <2>1, RequestKinds, QuietFresh, FlushFresh, CommitFresh
<1>4. CASE (\E r \in RunIds : LeaseExpires(r)) \/ UNCHANGED vars
  <2>1. UNCHANGED <<exps, failedTrials, tx>>
    BY <1>4 DEF LeaseExpires, Untouched, vars
  <2>2. RowsAlike
    <3>1. CASE \E r \in RunIds : LeaseExpires(r)
      <4>1. PICK r \in RunIds : runs' = [runs EXCEPT ![r].lease = "expired"]
        BY <3>1 DEF LeaseExpires
      <4>2. runs \in [RunIds -> Row]
        BY <1>1 DEF WellFormed, TypeOK
      <4>3. QED
        BY <4>1, <4>2 DEF RowsAlike, Row
    <3>2. QED
      BY <1>4, <3>1 DEF RowsAlike, vars
  <2>3. QuietStep
    BY <2>1, <2>2 DEF QuietStep, WritesStay
  <2>4. QED
    BY <1>1, <2>3, QuietFresh
<1>5. QED
  BY <1>2, <1>3, <1>4 DEF Next

-----------------------------------------------------------------------------

\* The empty tables.
LEMMA InitSettling == Init => Settling
<1> SUFFICES ASSUME Init PROVE Settling
  OBVIOUS
<1>1. \A q \in Requests : req[q].op = "none"
  BY DEF Init, NoRequest
<1>2. \A r \in RunIds : ~Exists(runs[r]) /\ runs[r].owner = None /\ runs[r].lease = "null"
  BY DEF Init, NoRow, Exists
<1>3. \A s \in Sessions : tx[s].expTo = None /\ \A r \in RunIds : tx[s].writes[r] = None
  <2>1. \A s \in Sessions : tx[s] = NoTx
    BY DEF Init
  <2>2. NoTx.expTo = None
    BY DEF NoTx
  <2>3. QED
    BY <2>1, <2>2, NoTxIsTx
<1>4. Lone /\ Begun /\ OneRun
  BY <1>1, <1>2 DEF Lone, Begun, OneRun, Carries
<1>5. Handed
  BY <1>2 DEF Handed
<1>6. \A w \in Workers : Written(w)
  BY DEF Init, Written, Outcomes
<1>7. Fresh
  BY <1>2, <1>3 DEF Fresh, ToldByRows, ToldByWrites, SyncsItsOwn
<1>8. QED
  BY <1>4, <1>5, <1>6, <1>7 DEF Settling

\* Every step of a behaviour in which an experiment is started once.
LEMMA NextSettling ==
  ASSUME Timely, Leased, Keyed, Settling, [Next /\ OneStart]_vars
  PROVE  Settling'
<1>1. [Next]_vars /\ Lone /\ Begun /\ OneRun /\ Handed /\ \A w \in Workers : Written(w)
  BY DEF Settling
<1>2. Lone'
  BY <1>1 DEF OneStart, Lone, vars
<1>3. Begun' /\ OneRun'
  BY <1>1, BegunStays, OneRunStays
<1>4. Handed'
  BY <1>1, HandedStays
<1>5. \A w \in Workers : Written(w)'
  BY <1>1, WrittenStays
<1>6. Fresh'
  BY <1>1, FreshStays
<1>7. QED
  BY <1>2, <1>3, <1>4, <1>5, <1>6 DEF Settling

\* IInv, Keyed and Settling hold together where an experiment is started once.
LEMMA SettlingInvariant ==
  ASSUME Timely
  PROVE  OneStartSafe => [](IInv /\ Keyed /\ Settling)
<1>1. Init => IInv /\ Keyed /\ Settling
  BY InitWellFormed, InitInductive, InitKeyed, InitSettling DEF IInv
<1>2. IInv /\ Keyed /\ Settling /\ [Next /\ OneStart]_vars => (IInv /\ Keyed /\ Settling)'
  <2> SUFFICES ASSUME IInv, Keyed, Settling, [Next /\ OneStart]_vars
               PROVE  IInv' /\ Keyed' /\ Settling'
    OBVIOUS
  <2>1. Leased /\ WellFormed /\ [Next]_vars
    BY DEF IInv, Leased
  <2>2. IInv'
    BY <2>1, NextWellFormed, NextInductive DEF IInv
  <2>3. Keyed'
    BY <2>1, NextKeyed
  <2>4. Settling'
    BY <2>1, NextSettling
  <2>5. QED
    BY <2>2, <2>3, <2>4
<1>3. QED
  BY <1>1, <1>2, PTL DEF OneStartSafe

\* What the statuses of an experiment's runs derive, and what its own status is.
LEMMA EndedIsTold ==
  ASSUME WellFormed, OneRun, ToldByRows, NEW e \in Exps, Statuses(e, runs) # {},
         Statuses(e, runs) \subseteq TerminalRunStatuses
  PROVE  \/ exps[e] = DeriveExperimentStatus(exps[e], Statuses(e, runs), failedTrials[e])
         \/ \E r \in RunIds : runs[r].exp = e /\ Exhausted(runs[r])
<1>1. PICK r \in RunIds : runs[r].exp = e
  BY DEF Statuses
<1>2. Exists(runs[r])
  BY <1>1, NoneAssumption DEF Exists
<1>3. \A i \in RunIds : runs[i].exp = e => i = r
  <2>1. \A i \in RunIds : runs[i].exp = e => Carries(i, e)
    BY NoneAssumption DEF Carries, Exists
  <2>2. QED
    BY <1>1, <2>1 DEF OneRun
<1>4. Statuses(e, runs) = {runs[r].status}
  BY <1>1, <1>3 DEF Statuses
<1>5. Terminal(runs[r])
  BY <1>4 DEF Terminal
<1>6. ~Exhausted(runs[r]) =>
        exps[e] = DeriveExperimentStatus("draft", {runs[r].status}, failedTrials[e])
  BY <1>1, <1>2, <1>5 DEF ToldByRows, Told
<1>7. DeriveExperimentStatus(exps[e], {runs[r].status}, failedTrials[e])
        = DeriveExperimentStatus("draft", {runs[r].status}, failedTrials[e])
  BY DerivedFromOne
<1>8. QED
  BY <1>1, <1>4, <1>6, <1>7

\* The status of an experiment that is started once goes stale only with a run that was
\* failed for want of attempts (_claim_run syncs the experiment of the run it claims and
\* no other), when leases expire only under dead workers.
THEOREM StaleOnlyWhenExhausted == ASSUME Timely PROVE OneStartSafe => []StaleOnlyExhausted
<1>1. IInv /\ Settling => StaleOnlyExhausted
  <2> SUFFICES ASSUME IInv, Settling PROVE StaleOnlyExhausted
    OBVIOUS
  <2>1. WellFormed /\ OneRun /\ ToldByRows
    BY DEF IInv, Settling, Fresh
  <2>2. QED
    BY <2>1, EndedIsTold DEF StaleOnlyExhausted, Exhausted
<1>2. QED
  BY <1>1, SettlingInvariant, PTL

\* Under the same conditions, and if no worker crashes or loses its database, the status
\* of the experiment tells how its run ended from the commit that ended it
\* (experiments.py sync_experiment_status).
THEOREM SettlesWithItsRun ==
  ASSUME Timely, MaxCrashes = 0
  PROVE  OneStartSafe => []SettledExperiment
<1>1. IInv /\ Settling => SettledExperiment
  <2> SUFFICES ASSUME IInv, Settling PROVE SettledExperiment
    OBVIOUS
  <2>1. WellFormed /\ OneRun /\ ToldByRows
    BY DEF IInv, Settling, Fresh
  <2>2. \A r \in RunIds : ~Exhausted(runs[r])
    BY DEF Exhausted
  <2>3. QED
    BY <2>1, <2>2, EndedIsTold DEF SettledExperiment
<1>2. QED
  BY <1>1, SettlingInvariant, PTL
=============================================================================
