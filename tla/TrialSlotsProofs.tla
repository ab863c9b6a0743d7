-------------------------- MODULE TrialSlotsProofs --------------------------
(***************************************************************************)
(* Proofs about TrialSlots for every number of runs, trials, attempts,     *)
(* events and faults.  First what holds however the runs overlap: the rows *)
(* keep the constraints of the table, and a recorded trial stays recorded. *)
(* Then what holds as long as the runs of the experiment take turns: whose *)
(* evidence there is, what a run's end says, and what is stranded.         *)
(***************************************************************************)
EXTENDS TrialSlotsInvariant, FiniteSetTheorems, SequenceTheorems, TLAPS

CheckedRows == {row \in Rows : Checked(row)}
Tables == [Slots -> CheckedRows]

-----------------------------------------------------------------------------
(* The rows of the table `trials`.                                         *)

\* The columns of a row after an UPDATE.
LEMMA UpdatedColumns ==
  ASSUME NEW row \in Rows, NEW was \in Rows, NEW new \in Rows
  PROVE  /\ Updated(row, was, new) \in Rows
         /\ Updated(row, was, new).status =
              IF new.status = was.status THEN row.status ELSE new.status
         /\ Updated(row, was, new).outcome =
              IF new.outcome = was.outcome THEN row.outcome ELSE new.outcome
         /\ Updated(row, was, new).success =
              IF new.success = was.success THEN row.success ELSE new.success
         /\ Updated(row, was, new).by = IF new.by = was.by THEN row.by ELSE new.by
<1>1. DOMAIN row = {"status", "outcome", "success", "by"}
  BY DEF Rows
<1>2. QED
  BY <1>1 DEF Rows, Updated

\* The update of a row that is as it was read is the new row.
LEMMA UpdatedOfCurrent ==
  ASSUME NEW row \in Rows, NEW new \in Rows
  PROVE  Updated(row, row, new) = new
<1>1. /\ DOMAIN row = {"status", "outcome", "success", "by"}
      /\ DOMAIN new = {"status", "outcome", "success", "by"}
  BY DEF Rows
<1>2. QED
  BY <1>1 DEF Rows, Updated

\* A row that a transaction leaves as it has read it stays as it is in the table.
LEMMA SameNotUpdated ==
  ASSUME NEW row \in Rows, NEW was \in Rows
  PROVE  Updated(row, was, was) = row
<1>1. DOMAIN row = {"status", "outcome", "success", "by"}
  BY DEF Rows
<1>2. QED
  BY <1>1 DEF Rows, Updated

\* The rows that a transaction may be to write are rows.
LEMMA BlankRows ==
  /\ Absent \in CheckedRows /\ Pending \in CheckedRows
  /\ Absent.status = "absent" /\ Absent.outcome = "null" /\ Absent.success = "null"
  /\ Absent.by = Nobody
  /\ Pending.status = "pending" /\ Pending.by = Nobody
BY DEF Absent, Pending, TrialRow, Rows, Checked, CheckedRows, TrialStatuses

LEMMA ResultRows ==
  ASSUME TypeOK, NEW r \in Runs
  PROVE  LET done   == TrialRow("completed", "task", "set", Author(r))
             failed == TrialRow("failed", "system_error", "null", Author(r))
         IN  /\ Author(r) \in Authors /\ done \in CheckedRows /\ failed \in CheckedRows
             /\ done.status = "completed" /\ done.by = Author(r)
             /\ failed.status = "failed"
<1>1. Author(r) \in Authors
  BY DEF TypeOK, Author, Authors
<1>2. QED
  BY <1>1 DEF TrialRow, Rows, Checked, CheckedRows, TrialStatuses

\* mark_trial_cancelled.
LEMMA CancelledRowIsRow ==
  ASSUME NEW row \in CheckedRows
  PROVE  /\ CancelledRow(row) \in CheckedRows
         /\ row.status \notin OpenTrialStatuses => CancelledRow(row) = row
         /\ row.status \in OpenTrialStatuses =>
              /\ CancelledRow(row).status = "cancelled" /\ CancelledRow(row).by = row.by
              /\ CancelledRow(row).outcome = row.outcome
              /\ CancelledRow(row).success = row.success
<1>1. CASE row.status \notin OpenTrialStatuses
  BY <1>1 DEF CancelledRow
<1>2. CASE row.status \in OpenTrialStatuses
  <2> DEFINE new == [row EXCEPT !.status = "cancelled", !.outcome = "null", !.success = "null"]
  <2>1. row.outcome = "null" /\ row.success = "null"
    BY <1>2 DEF CheckedRows, Checked, Rows, OpenTrialStatuses
  <2>2. /\ new \in Rows /\ new.status = "cancelled" /\ new.outcome = "null"
        /\ new.success = "null" /\ new.by = row.by
    BY DEF CheckedRows, Rows, TrialStatuses
  <2> HIDE DEF new
  <2>3. new \in CheckedRows
    BY <2>2 DEF CheckedRows, Checked
  <2>4. CancelledRow(row) = new
    BY <1>2 DEF CancelledRow, new
  <2>5. QED
    BY <1>2, <2>1, <2>2, <2>3, <2>4
<1>3. QED
  BY <1>1, <1>2

\* mark_trial_running.
LEMMA RunningRowIsRow ==
  ASSUME NEW row \in CheckedRows, row.status = "pending"
  PROVE  LET new == [row EXCEPT !.status = "running"]
         IN  /\ new \in CheckedRows /\ new.status = "running" /\ new.by = row.by
             /\ new.outcome = row.outcome /\ new.success = row.success
<1> DEFINE new == [row EXCEPT !.status = "running"]
<1>1. /\ new \in Rows /\ new.status = "running" /\ new.by = row.by
      /\ new.outcome = row.outcome /\ new.success = row.success
  BY DEF CheckedRows, Rows, TrialStatuses
<1>2. row.outcome = "null" /\ row.success = "null"
  BY DEF CheckedRows, Checked, Rows
<1> HIDE DEF new
<1>3. new \in CheckedRows
  BY <1>1, <1>2 DEF CheckedRows, Checked
<1>4. QED
  BY <1>1, <1>3 DEF new

\* What each transaction is to write is a table again.
LEMMA ReplacementsAreTables ==
  ASSUME TypeOK, NEW r \in Runs, slot[r] \in Slots
  PROVE  /\ Marked(r) \in Tables /\ Completed(r) \in Tables /\ Failed(r) \in Tables
         /\ CancelledOne(r) \in Tables
<1>1. seen[r].trials \in Tables /\ seen[r].trials[slot[r]] \in CheckedRows
  BY DEF TypeOK, Tables, CheckedRows
<1>2. ASSUME NEW row \in CheckedRows PROVE NewRow(r, row) \in Tables
  BY <1>1 DEF NewRow, Tables
<1>3. Marked(r) \in Tables
  BY <1>1, <1>2, RunningRowIsRow DEF Marked
<1>4. Completed(r) \in Tables /\ Failed(r) \in Tables
  BY <1>2, ResultRows DEF Completed, Failed
<1>5. CancelledOne(r) \in Tables
  BY <1>1, <1>2, CancelledRowIsRow DEF CancelledOne
<1>6. QED
  BY <1>3, <1>4, <1>5

LEMMA CancelledOpenIsTable ==
  ASSUME TypeOK, NEW r \in Runs
  PROVE  CancelledOpen(r) \in Tables
<1>1. seen[r].trials \in Tables
  BY DEF TypeOK, Tables, CheckedRows
<1>2. QED
  BY <1>1, CancelledRowIsRow DEF CancelledOpen, Tables

\* A transaction that the constraints accept leaves a table.
LEMMA AcceptedIsTable ==
  ASSUME TypeOK, NEW r \in Runs, NEW rows \in Tables, Accepted(RowsAfter(r, rows))
  PROVE  RowsAfter(r, rows) \in Tables
<1>1. /\ \A t \in Slots : /\ seen[r].trials[t] \in Rows /\ trials[t] \in Rows
                          /\ rows[t] \in Rows
  BY DEF TypeOK, Tables, CheckedRows
<1>2. \A t \in Slots : Updated(trials[t], seen[r].trials[t], rows[t]) \in Rows
  BY <1>1, UpdatedColumns
<1>3. QED
  BY <1>2 DEF RowsAfter, Accepted, Tables, CheckedRows

\* _insert_events: what is appended is a sequence of entries of this attempt.
LEMMA EventsAfterAreEvents ==
  ASSUME TypeOK, NEW r \in Runs, slot[r] \in Slots
  PROVE  /\ EventsAfter(r) \in [Slots -> Seq(Authors)]
         /\ \A t \in Slots \ {slot[r]} : EventsAfter(r)[t] = events[t]
         /\ seen[r].used = 0 /\ events[slot[r]] = <<>> =>
              /\ Len(EventsAfter(r)[slot[r]]) = work[r].events
              /\ \A i \in DOMAIN EventsAfter(r)[slot[r]] : EventsAfter(r)[slot[r]][i] = Author(r)
<1> DEFINE s == slot[r]
           new == [i \in 1..(work[r].events - seen[r].used) |-> Author(r)]
<1>1. /\ events \in [Slots -> Seq(Authors)] /\ events[s] \in Seq(Authors)
      /\ work[r].events \in Nat /\ seen[r].used \in Nat /\ Author(r) \in Authors
  BY ResultRows, SlotsAssumption DEF TypeOK
<1>2. CASE ~Inserts(r)
  <2>1. EventsAfter(r) = events
    BY <1>2 DEF EventsAfter
  <2>2. seen[r].used = 0 => work[r].events = 0
    BY <1>1, <1>2 DEF Inserts
  <2>3. Len(<<>>) = 0 /\ DOMAIN <<>> = {}
    OBVIOUS
  <2>4. QED
    BY <1>1, <2>1, <2>2, <2>3
<1>3. CASE Inserts(r)
  <2> DEFINE n == work[r].events - seen[r].used
  <2>1. n \in Nat
    BY <1>1, <1>3 DEF Inserts
  <2>2. /\ new \in Seq(Authors) /\ Len(new) = n
        /\ \A i \in 1..n : new[i] = Author(r)
    <3> HIDE DEF n
    <3>1. [i \in 1..n |-> Author(r)] \in Seq(Authors)
      BY <1>1, <2>1
    <3>2. Len([i \in 1..n |-> Author(r)]) = n
      BY <2>1, <3>1
    <3>3. QED
      BY <3>1, <3>2 DEF n
  <2>3. EventsAfter(r) = [events EXCEPT ![s] = events[s] \o new]
    BY <1>1, <1>3 DEF EventsAfter
  <2> HIDE DEF new, n
  <2>4. events[s] \o new \in Seq(Authors)
    BY <1>1, <2>2, ConcatProperties
  <2>5. <<>> \o new = new /\ DOMAIN new = 1..n
    BY <2>1, <2>2, ConcatEmptySeq, LenProperties
  <2>6. seen[r].used = 0 => n = work[r].events
    BY <1>1 DEF n
  <2>7. QED
    BY <1>1, <2>2, <2>3, <2>4, <2>5, <2>6
<1>4. QED
  BY <1>2, <1>3

-----------------------------------------------------------------------------
(* Type correctness, and the constraints, for runs that overlap at will.   *)

Views == [open : BOOLEAN, cancelling : BOOLEAN, trials : Tables, used : Nat]
Jobs == [events : 0..NumEvents, artifacts : BOOLEAN]
RunStatuses == LeasedRunStatuses \cup
  {"absent", "queued", "cancelled", "failed", "completed", "completed_with_errors"}

RunsTyped == run \in [Runs -> RunStatuses] /\ attempt \in [Runs -> Nat]
WorkersTyped ==
  /\ at \in [Runs -> Places] /\ slot \in [Runs -> 1..(NumSlots + 1)]
  /\ failedCount \in [Runs -> Nat] /\ work \in [Runs -> Jobs]
ViewsTyped == seen \in [Runs -> Views]
TablesTyped ==
  /\ trials \in Tables /\ events \in [Slots -> Seq(Authors)]
  /\ artifacts \in [Slots -> Authors \cup {Nobody}]
FilesTyped == files \in [Slots -> Authors \cup {Nobody}]
OthersTyped == overlapped \in BOOLEAN /\ faults \in 0..MaxFaults

Typed == /\ RunsTyped /\ WorkersTyped /\ ViewsTyped /\ TablesTyped /\ FilesTyped
         /\ OthersTyped

LEMMA TypeParts == (TypeOK <=> Typed) /\ (TypeOK' <=> Typed')
BY DEF Typed, TypeOK, RunsTyped, WorkersTyped, ViewsTyped, TablesTyped, FilesTyped, OthersTyped,
       Views, Tables, CheckedRows, Jobs, RunStatuses

LEMMA FreshWorker ==
  /\ [events |-> 0, artifacts |-> FALSE] \in Jobs
  /\ NotSeen \in Views /\ ~NotSeen.open
  /\ 1 \in 1..(NumSlots + 1) /\ 0 \in Nat /\ "none" \in Places
<1>1. [t \in Slots |-> Absent] \in Tables
  BY BlankRows DEF Tables
<1>2. NotSeen \in Views /\ ~NotSeen.open
  BY <1>1 DEF NotSeen, Views
<1>3. QED
  BY <1>2, SlotsAssumption DEF Jobs, Places

LEMMA LetGoTyped ==
  ASSUME WorkersTyped, ViewsTyped, NEW r \in Runs, LetGo(r)
  PROVE  WorkersTyped' /\ ViewsTyped'
BY FreshWorker DEF LetGo, WorkersTyped, ViewsTyped

LEMMA GoesTyped ==
  ASSUME WorkersTyped, NEW r \in Runs, NEW p \in Places, Goes(r, p),
         slot' \in [Runs -> 1..(NumSlots + 1)], failedCount' \in [Runs -> Nat],
         work' \in [Runs -> Jobs]
  PROVE  WorkersTyped'
BY DEF Goes, WorkersTyped

LEMMA FaultTyped ==
  ASSUME OthersTyped, Fault, overlapped' = overlapped
  PROVE  OthersTyped'
<1>1. faults' \in 0..MaxFaults
  BY SlotsAssumption DEF OthersTyped, Fault
<1>2. overlapped' \in BOOLEAN
  BY DEF OthersTyped
<1>3. QED
  BY <1>1, <1>2 DEF OthersTyped

LEMMA FailedSlotsFinite ==
  IsFiniteSet(FailedSlots) /\ Cardinality(FailedSlots) \in Nat
<1>1. IsFiniteSet(1..NumSlots)
  BY FS_Interval, SlotsAssumption
<1>2. FailedSlots \in SUBSET (1..NumSlots)
  BY DEF Slots, FailedSlots
<1>3. IsFiniteSet(FailedSlots)
  BY <1>1, <1>2, FS_Subset
<1>4. QED
  BY <1>3, FS_CardinalityType

\* The steps on the run rows.
LEMMA RunStepTyped ==
  ASSUME TypeOK, NEW r \in Runs,
         Submit(r) \/ RequestCancel(r) \/ Claim(r) \/ Reclaim(r) \/ Start(r)
  PROVE  TypeOK'
<1> USE TypeParts DEF Typed
<1>1. UNCHANGED <<slot, failedCount, work, seen, tables, files, faults>>
  BY DEF Submit, RequestCancel, Claim, Reclaim, Start, workerVars
<1>2. ViewsTyped' /\ TablesTyped' /\ FilesTyped'
  BY <1>1 DEF ViewsTyped, TablesTyped, FilesTyped, tables
<1>3. RunsTyped' /\ OthersTyped'
  <2>1. RunsTyped'
    BY DEF RunsTyped, Submit, RequestCancel, Claim, Reclaim, Start, RunStatuses,
           LeasedRunStatuses
  <2>2. overlapped' \in BOOLEAN
    BY ZenonT(30) DEF OthersTyped, Submit, RequestCancel, Claim, Reclaim, Start
  <2>3. QED
    BY <1>1, <2>1, <2>2 DEF OthersTyped
<1>4. WorkersTyped'
  <2>1. {"starting", "ensuring", "releasing"} \subseteq Places
    BY DEF Places, Transactions, OfAllTrials
  <2>2. QED
    BY <1>1, <2>1, GoesTyped
       DEF Submit, RequestCancel, Claim, Reclaim, Start, WorkersTyped, workerVars
<1>5. QED
  BY <1>2, <1>3, <1>4

\* The steps of the loop over the slots.
LEMMA LoopStepTyped ==
  ASSUME TypeOK, NEW r \in Runs, InHand(r),
         Ensure(r) \/ CountFailed(r) \/ Skip(r) \/ Take(r) \/ Decide(r) \/ Stop(r)
  PROVE  TypeOK'
<1> USE TypeParts DEF Typed
<1>1. UNCHANGED <<runVars, work, seen, events, artifacts, files, overlapped>>
  BY DEF Ensure, CountFailed, Skip, Take, Decide, Stop, tables
<1>2. RunsTyped' /\ ViewsTyped' /\ FilesTyped'
  BY <1>1 DEF RunsTyped, ViewsTyped, FilesTyped, runVars
<1>3. TablesTyped'
  <2>1. trials' \in Tables
    <3>1. CASE Ensure(r)
      BY <3>1, BlankRows DEF Ensure, TablesTyped, Tables
    <3>2. CASE UNCHANGED trials
      BY <3>2 DEF TablesTyped
    <3>3. QED
      BY <3>1, <3>2 DEF CountFailed, Skip, Take, Decide, Stop, tables
  <2>2. QED
    BY <1>1, <2>1 DEF TablesTyped
<1>4. OthersTyped'
  BY <1>1, FaultTyped DEF Ensure, CountFailed, Skip, Take, Decide, Stop, OthersTyped
<1>5. WorkersTyped'
  <2>1. {"counting", "next", "deciding", "releasing", "cancelling_open", "finishing",
         "exhausting", "marking"} \subseteq Places
    BY DEF Places, Transactions, OfAllTrials, OfOneTrial
  <2>2. CASE Ensure(r) \/ Take(r) \/ Stop(r)
    BY <1>1, <2>1, <2>2, GoesTyped DEF Ensure, Take, Stop, WorkersTyped
  <2>3. CASE CountFailed(r)
    <3>1. failedCount' \in [Runs -> Nat]
      BY <2>3, FailedSlotsFinite DEF CountFailed, FailedSlots, WorkersTyped
    <3>2. QED
      BY <1>1, <2>1, <2>3, <3>1, GoesTyped DEF CountFailed, WorkersTyped
  <2>4. CASE Skip(r)
    <3>1. slot' \in [Runs -> 1..(NumSlots + 1)]
      BY <2>4, SlotsAssumption DEF Skip, Slots, WorkersTyped
    <3>2. QED
      BY <1>1, <2>4, <3>1 DEF Skip, WorkersTyped
  <2>5. CASE Decide(r)
    <3>1. slot[r] \in Slots \/ slot[r] > NumSlots
      BY SlotsAssumption DEF Slots, WorkersTyped
    <3>2. \E p \in Places : Goes(r, p)
      <4>1. CASE run[r] = "cancelling"
        BY <2>1, <2>5, <4>1 DEF Decide
      <4>2. CASE run[r] # "cancelling" /\ slot[r] > NumSlots
        BY <2>1, <2>5, <4>2, SlotsAssumption DEF Decide, Slots
      <4>3. CASE run[r] # "cancelling" /\ slot[r] \in Slots
        <5>1. ~(slot[r] > NumSlots)
          BY <4>3, SlotsAssumption DEF Slots
        <5>2. Goes(r, IF failedCount[r] >= ErrorBudget THEN "exhausting" ELSE "marking")
          BY <2>5, <4>3, <5>1 DEF Decide
        <5>3. QED
          BY <2>1, <5>2
      <4>4. QED
        BY <3>1, <4>1, <4>2, <4>3
    <3>3. QED
      BY <1>1, <2>5, <3>2, GoesTyped DEF Decide, WorkersTyped
  <2>6. QED
    BY <2>2, <2>3, <2>4, <2>5
<1>6. QED
  BY <1>2, <1>3, <1>4, <1>5

\* The executor's steps, as far as its result goes.
LEMMA ExecutorStepTyped ==
  ASSUME TypeOK, NEW r \in Runs, InHand(r),
         SeeCancelled(r) \/ Store(r) \/ Fail(r) \/ Return(r)
  PROVE  TypeOK'
<1> USE TypeParts DEF Typed
<1>1. UNCHANGED <<runVars, slot, failedCount, seen, tables, overlapped>>
  BY DEF SeeCancelled, Store, Fail, Return
<1>2. RunsTyped' /\ ViewsTyped' /\ TablesTyped'
  BY <1>1 DEF RunsTyped, ViewsTyped, TablesTyped, runVars, tables
<1>3. FilesTyped'
  BY ResultRows DEF SeeCancelled, Store, Fail, Return, FilesTyped
<1>4. OthersTyped'
  BY <1>1, FaultTyped DEF SeeCancelled, Store, Fail, Return, OthersTyped
<1>5. WorkersTyped'
  <2>1. {"cancelling_one", "stored", "failing", "completing"} \subseteq Places
    BY DEF Places, Transactions, OfOneTrial
  <2>2. ASSUME NEW n \in 0..NumEvents, NEW b \in BOOLEAN, ToWrite(r, n, b)
        PROVE  work' \in [Runs -> Jobs]
    <3>1. [events |-> n, artifacts |-> b] \in Jobs
      BY DEF Jobs
    <3>2. QED
      BY <2>2, <3>1 DEF ToWrite, WorkersTyped
  <2>3. \A n \in 1..NumEvents : n \in 0..NumEvents
    BY SlotsAssumption
  <2>4. work' \in [Runs -> Jobs]
    <3>1. CASE Store(r)
      BY <3>1 DEF Store, WorkersTyped
    <3>2. CASE SeeCancelled(r) \/ Fail(r)
      BY <2>2, <2>3, <3>2 DEF SeeCancelled, Fail
    <3>3. CASE Return(r)
      <4>1. NumEvents \in 0..NumEvents
        BY SlotsAssumption
      <4>2. ToWrite(r, NumEvents, TRUE)
        BY <3>3 DEF Return
      <4>3. QED
        BY <2>2, <4>1, <4>2
    <3>4. QED
      BY <3>1, <3>2, <3>3
  <2>5. \E p \in Places : Goes(r, p)
    BY <2>1 DEF SeeCancelled, Store, Fail, Return
  <2>6. QED
    BY <1>1, <2>4, <2>5, GoesTyped DEF WorkersTyped
<1>6. QED
  BY <1>2, <1>3, <1>4, <1>5

LEMMA ReadTyped ==
  ASSUME TypeOK, NEW r \in Runs, InHand(r), Read(r)
  PROVE  TypeOK'
<1> USE TypeParts DEF Typed
<1>1. UNCHANGED <<runVars, workerVars, tables, files, overlapped, faults>>
  BY DEF Read
<1>2. RunsTyped' /\ WorkersTyped' /\ TablesTyped' /\ FilesTyped' /\ OthersTyped'
  BY <1>1 DEF RunsTyped, WorkersTyped, TablesTyped, FilesTyped, OthersTyped,
              runVars, workerVars, tables
<1>3. ViewsTyped'
  <2> DEFINE rows == [t \in Slots |-> IF Loads(r, t) THEN trials[t] ELSE Absent]
             used == IF at[r] \in OfOneTrial THEN Len(events[slot[r]]) ELSE 0
             held == at[r] = "releasing" /\ run[r] = "cancelling"
  <2>1. rows \in Tables
    BY BlankRows DEF TablesTyped, Tables
  <2>2. used \in Nat
    BY DEF TablesTyped, InHand, OfASlot
  <2>3. held \in BOOLEAN
    OBVIOUS
  <2>4. seen' = [seen EXCEPT ![r] = [open |-> TRUE, cancelling |-> held,
                                     trials |-> rows, used |-> used]]
    BY DEF Read
  <2> HIDE DEF rows, used, held
  <2>5. [open |-> TRUE, cancelling |-> held, trials |-> rows, used |-> used] \in Views
    BY <2>1, <2>2, <2>3 DEF Views
  <2>6. QED
    BY <2>4, <2>5 DEF ViewsTyped
<1>4. QED
  BY <1>2, <1>3

\* What the transactions leave in the tables: `trials` in turn, and what comes with it.
Committed(r, rows) ==
  /\ Accepted(RowsAfter(r, rows)) /\ trials' = RowsAfter(r, rows)
  /\ seen' = [seen EXCEPT ![r] = NotSeen]

LEMMA CommittedTyped ==
  ASSUME TypeOK, NEW r \in Runs, NEW rows \in Tables, Committed(r, rows)
  PROVE  trials' \in Tables /\ ViewsTyped'
<1>1. trials' \in Tables
  BY AcceptedIsTable DEF Committed
<1>2. ViewsTyped'
  BY FreshWorker, TypeParts DEF Committed, Typed, ViewsTyped
<1>3. QED
  BY <1>1, <1>2

\* The commits of one trial.
LEMMA CommitTrialTyped ==
  ASSUME TypeOK, NEW r \in Runs, slot[r] \in Slots, NEW rows \in Tables,
         CommitTrial(r, RowsAfter(r, rows)), artifacts' \in {artifacts, ArtifactsAfter(r)}
  PROVE  /\ RunsTyped' /\ TablesTyped' /\ ViewsTyped' /\ FilesTyped' /\ OthersTyped'
         /\ work' \in [Runs -> Jobs]
<1> USE TypeParts DEF Typed
<1>1. UNCHANGED <<runVars, files, overlapped, faults>>
  BY DEF CommitTrial
<1>2. RunsTyped' /\ FilesTyped' /\ OthersTyped'
  BY <1>1 DEF RunsTyped, FilesTyped, OthersTyped, runVars
<1>3. trials' \in Tables /\ ViewsTyped'
  BY CommittedTyped DEF CommitTrial, Committed
<1>4. events' \in [Slots -> Seq(Authors)]
  BY EventsAfterAreEvents DEF CommitTrial
<1>5. artifacts' \in [Slots -> Authors \cup {Nobody}]
  BY ResultRows DEF ArtifactsAfter, TablesTyped
<1>6. work' \in [Runs -> Jobs]
  BY FreshWorker DEF CommitTrial, ToWrite, WorkersTyped
<1>7. QED
  BY <1>2, <1>3, <1>4, <1>5, <1>6 DEF TablesTyped

LEMMA CommitOfTrialTyped ==
  ASSUME TypeOK, NEW r \in Runs, InHand(r),
         CommitCancelledTrial(r) \/ CommitSuccess(r) \/ CommitFailure(r)
  PROVE  TypeOK'
<1> USE TypeParts DEF Typed
<1>1. slot[r] \in Slots
  BY DEF InHand, OfASlot, OfOneTrial, CommitCancelledTrial, CommitSuccess, CommitFailure,
         InTransaction
<1>2. \E rows \in Tables : CommitTrial(r, RowsAfter(r, rows))
  BY <1>1, ReplacementsAreTables DEF CommitCancelledTrial, CommitSuccess, CommitFailure
<1>3. artifacts' \in {artifacts, ArtifactsAfter(r)}
  BY DEF CommitCancelledTrial, CommitSuccess, CommitFailure
<1>4. /\ RunsTyped' /\ TablesTyped' /\ ViewsTyped' /\ FilesTyped' /\ OthersTyped'
      /\ work' \in [Runs -> Jobs]
  BY <1>1, <1>2, <1>3, CommitTrialTyped
<1>5. {"cancelling_open", "next", "exhausting"} \subseteq Places
  BY DEF Places, Transactions, OfAllTrials
<1>6. \E p \in Places : Goes(r, p)
  BY <1>5 DEF CommitCancelledTrial, CommitSuccess, CommitFailure
<1>7. slot' \in [Runs -> 1..(NumSlots + 1)]
  <2>1. slot[r] + 1 \in 1..(NumSlots + 1)
    BY <1>1, SlotsAssumption DEF Slots
  <2>2. QED
    BY <2>1 DEF CommitCancelledTrial, CommitSuccess, CommitFailure, WorkersTyped
<1>8. failedCount' \in [Runs -> Nat]
  BY DEF CommitCancelledTrial, CommitSuccess, CommitFailure, WorkersTyped
<1>9. WorkersTyped'
  BY <1>4, <1>6, <1>7, <1>8, GoesTyped
<1>10. QED
  BY <1>4, <1>9

LEMMA CommitOfTableTyped ==
  ASSUME TypeOK, NEW r \in Runs, InHand(r), CommitMark(r) \/ CommitCancelOpen(r)
  PROVE  TypeOK'
<1> USE TypeParts DEF Typed
<1>1. UNCHANGED <<runVars, slot, failedCount, work, events, artifacts, files, overlapped,
                  faults>>
  BY DEF CommitMark, CommitCancelOpen
<1>2. RunsTyped' /\ FilesTyped' /\ OthersTyped'
  BY <1>1 DEF RunsTyped, FilesTyped, OthersTyped, runVars
<1>3. \E rows \in Tables : Committed(r, rows)
  <2>1. CASE CommitMark(r)
    BY <2>1, ReplacementsAreTables
       DEF CommitMark, Committed, InTransaction, InHand, OfASlot, OfOneTrial
  <2>2. CASE CommitCancelOpen(r)
    BY <2>2, CancelledOpenIsTable DEF CommitCancelOpen, Committed
  <2>3. QED
    BY <2>1, <2>2
<1>4. TablesTyped' /\ ViewsTyped'
  BY <1>1, <1>3, CommittedTyped DEF TablesTyped
<1>5. {"executing", "cancelled"} \subseteq Places
  BY DEF Places
<1>6. WorkersTyped'
  BY <1>1, <1>5, GoesTyped DEF CommitMark, CommitCancelOpen, WorkersTyped
<1>7. QED
  BY <1>2, <1>4, <1>6

\* The ends: the run gets its status and the worker lets it go, or only the latter.
LEMMA EndStepTyped ==
  ASSUME TypeOK, NEW r \in Runs, Complete(r) \/ Release(r) \/ DatabaseFails(r) \/ Crash(r)
  PROVE  TypeOK'
<1> USE TypeParts DEF Typed
<1>1. UNCHANGED <<attempt, events, artifacts, files, overlapped>>
  BY DEF Complete, Release, DatabaseFails, Crash, Ends, runVars, tables
<1>2. FilesTyped'
  BY <1>1 DEF FilesTyped
<1>3. OthersTyped'
  BY <1>1, FaultTyped DEF Complete, Release, DatabaseFails, Crash, OthersTyped
<1>4. RunsTyped'
  <2>1. {"queued", "cancelled", "failed", "completed", "completed_with_errors"}
          \subseteq RunStatuses
    BY DEF RunStatuses
  <2>2. (\E s \in RunStatuses : run' = [run EXCEPT ![r] = s]) \/ run' = run
    BY <2>1 DEF Complete, Release, DatabaseFails, Crash, Ends, runVars
  <2>3. QED
    BY <1>1, <2>2 DEF RunsTyped
<1>5. TablesTyped'
  <2>1. trials' \in Tables
    <3>1. CASE Release(r) /\ seen[r].cancelling
      BY <3>1, AcceptedIsTable, CancelledOpenIsTable DEF Release
    <3>2. CASE UNCHANGED trials
      BY <3>2 DEF TablesTyped
    <3>3. QED
      BY <3>1, <3>2 DEF Complete, Release, DatabaseFails, Crash, tables
  <2>2. QED
    BY <1>1, <2>1 DEF TablesTyped
<1>6. WorkersTyped' /\ ViewsTyped'
  <2>1. CASE LetGo(r)
    BY <2>1, LetGoTyped
  <2>2. CASE /\ Goes(r, "releasing") /\ seen' = [seen EXCEPT ![r] = NotSeen]
             /\ UNCHANGED <<slot, failedCount, work>>
    <3>1. "releasing" \in Places
      BY DEF Places, Transactions, OfAllTrials
    <3>2. WorkersTyped'
      BY <2>2, <3>1, GoesTyped DEF WorkersTyped
    <3>3. ViewsTyped'
      BY <2>2, FreshWorker DEF ViewsTyped
    <3>4. QED
      BY <3>2, <3>3
  <2>3. QED
    BY <2>1, <2>2 DEF Complete, Release, DatabaseFails, Crash, Ends
<1>7. QED
  BY <1>2, <1>3, <1>4, <1>5, <1>6

-----------------------------------------------------------------------------
(* A worker has a run in hand only while the run is leased.                *)

\* The steps of one run, by what they are about.
RunStep(r) == Submit(r) \/ RequestCancel(r) \/ Claim(r) \/ Reclaim(r) \/ Start(r)
LoopStep(r) ==
  Ensure(r) \/ CountFailed(r) \/ Skip(r) \/ Take(r) \/ Decide(r) \/ Stop(r)
ExecutorStep(r) == SeeCancelled(r) \/ Store(r) \/ Fail(r) \/ Return(r)
CommitStep(r) ==
  \/ CommitMark(r) \/ CommitCancelOpen(r)
  \/ CommitCancelledTrial(r) \/ CommitSuccess(r) \/ CommitFailure(r)
EndStep(r) == Complete(r) \/ Release(r) \/ DatabaseFails(r) \/ Crash(r)
StepOf(r) ==
  RunStep(r) \/ LoopStep(r) \/ ExecutorStep(r) \/ Read(r) \/ CommitStep(r) \/ EndStep(r)

LEMMA NextIsAStep == Next <=> \E r \in Runs : StepOf(r)
BY DEF Next, StepOf, RunStep, LoopStep, ExecutorStep, CommitStep, EndStep

\* A step of a run leaves the worker and the row of every other run alone.
LEMMA OthersAlone ==
  ASSUME TypeOK, NEW r \in Runs, NEW o \in Runs \ {r}, StepOf(r)
  PROVE  /\ run'[o] = run[o] /\ attempt'[o] = attempt[o] /\ at'[o] = at[o]
         /\ slot'[o] = slot[o] /\ failedCount'[o] = failedCount[o]
         /\ work'[o] = work[o] /\ seen'[o] = seen[o]
<1> USE TypeParts DEF Typed, RunsTyped, WorkersTyped, ViewsTyped
<1>1. CASE Submit(r) \/ RequestCancel(r) \/ Claim(r) \/ Reclaim(r) \/ Start(r)
  BY <1>1 DEF Submit, RequestCancel, Claim, Reclaim, Start, Goes, workerVars
<1>2. CASE Ensure(r) \/ CountFailed(r) \/ Skip(r) \/ Take(r) \/ Decide(r) \/ Stop(r)
  BY <1>2 DEF Ensure, CountFailed, Skip, Take, Decide, Stop, Goes, runVars
<1>3. CASE SeeCancelled(r) \/ Store(r) \/ Fail(r) \/ Return(r)
  BY <1>3 DEF SeeCancelled, Store, Fail, Return, Goes, ToWrite, runVars
<1>4. CASE Read(r) \/ CommitMark(r) \/ CommitCancelOpen(r)
  BY <1>4 DEF Read, CommitMark, CommitCancelOpen, Goes, runVars, workerVars
<1>5. CASE CommitCancelledTrial(r) \/ CommitSuccess(r) \/ CommitFailure(r)
  BY <1>5 DEF CommitCancelledTrial, CommitSuccess, CommitFailure, CommitTrial, Goes, ToWrite,
              runVars
<1>6. CASE Complete(r) \/ Release(r)
  BY <1>6 DEF Complete, Release, Ends, LetGo
<1>7. CASE DatabaseFails(r) \/ Crash(r)
  BY <1>7 DEF DatabaseFails, Crash, LetGo, Goes, runVars
<1>8. QED
  BY <1>1, <1>2, <1>3, <1>4, <1>5, <1>6, <1>7
     DEF StepOf, RunStep, LoopStep, ExecutorStep, CommitStep, EndStep

\* The places a step leads to.
LEMMA InHandOfActor ==
  ASSUME TypeOK, NEW r \in Runs, InHand(r), StepOf(r)
  PROVE  InHand(r)'
<1> USE TypeParts DEF Typed, RunsTyped, WorkersTyped, ViewsTyped, InHand, OfASlot, OfOneTrial,
                      LeasedRunStatuses
<1>1. CASE Submit(r) \/ RequestCancel(r) \/ Claim(r) \/ Reclaim(r) \/ Start(r)
  BY <1>1 DEF Submit, RequestCancel, Claim, Reclaim, Start, Goes, workerVars
<1>2. CASE Ensure(r) \/ CountFailed(r) \/ Skip(r) \/ Take(r) \/ Stop(r)
  BY <1>2 DEF Ensure, CountFailed, Skip, Take, Stop, Goes, runVars
<1>3. CASE Decide(r)
  <2>1. slot[r] \in Slots \/ slot[r] > NumSlots
    BY SlotsAssumption DEF Slots
  <2>2. at'[r] = "marking" => slot[r] \in Slots
    <3>1. CASE run[r] = "cancelling"
      BY <1>3, <3>1 DEF Decide, Goes
    <3>2. CASE run[r] # "cancelling" /\ ~(slot[r] \in Slots)
      BY <1>3, <2>1, <3>2 DEF Decide, Goes
    <3>3. QED
      BY <3>1, <3>2
  <2>3. at'[r] \in {"marking", "exhausting", "finishing", "cancelling_open"}
    <3>1. CASE run[r] = "cancelling"
      BY <1>3, <3>1 DEF Decide, Goes
    <3>2. CASE run[r] # "cancelling" /\ slot[r] > NumSlots
      BY <1>3, <3>2, SlotsAssumption DEF Decide, Goes, Slots
    <3>3. CASE run[r] # "cancelling" /\ slot[r] \in Slots
      <4>1. ~(slot[r] > NumSlots)
        BY <3>3, SlotsAssumption DEF Slots
      <4>2. QED
        BY <1>3, <3>3, <4>1 DEF Decide, Goes
    <3>4. QED
      BY <2>1, <3>1, <3>2, <3>3
  <2>4. run' = run /\ slot' = slot /\ at[r] # "none"
    BY <1>3 DEF Decide, runVars
  <2>5. QED
    BY <2>2, <2>3, <2>4
<1>4. CASE SeeCancelled(r) \/ Store(r) \/ Fail(r) \/ Return(r)
  BY <1>4 DEF SeeCancelled, Store, Fail, Return, Goes, runVars
<1>5. CASE Read(r) \/ CommitMark(r) \/ CommitCancelOpen(r)
  BY <1>5 DEF Read, CommitMark, CommitCancelOpen, Goes, InTransaction, runVars, workerVars
<1>6. CASE CommitCancelledTrial(r) \/ CommitSuccess(r) \/ CommitFailure(r)
  BY <1>6 DEF CommitCancelledTrial, CommitSuccess, CommitFailure, CommitTrial, InTransaction,
              Goes, runVars
<1>7. CASE Complete(r) \/ Release(r)
  BY <1>7 DEF Complete, Release, Ends, LetGo
<1>8. CASE DatabaseFails(r) \/ Crash(r)
  BY <1>8 DEF DatabaseFails, Crash, LetGo, Goes, runVars
<1>9. QED
  BY <1>1, <1>2, <1>3, <1>4, <1>5, <1>6, <1>7, <1>8
     DEF StepOf, RunStep, LoopStep, ExecutorStep, CommitStep, EndStep

LEMMA InHandKept ==
  ASSUME TypeOK, \A r \in Runs : InHand(r), [Next]_vars
  PROVE  (\A r \in Runs : InHand(r))'
<1>1. CASE UNCHANGED vars
  BY <1>1 DEF vars, InHand
<1>2. CASE Next
  <2>1. PICK o \in Runs : StepOf(o)
    BY <1>2, NextIsAStep
  <2>2. ASSUME NEW r \in Runs PROVE InHand(r)'
    <3>1. CASE r = o
      BY <2>1, <3>1, InHandOfActor
    <3>2. CASE r # o
      <4>1. run'[r] = run[r] /\ at'[r] = at[r] /\ slot'[r] = slot[r]
        BY <2>1, <3>2, OthersAlone
      <4>2. QED
        BY <4>1 DEF InHand
    <3>3. QED
      BY <3>1, <3>2
  <2>3. QED
    BY <2>2
<1>3. QED
  BY <1>1, <1>2

LEMMA TypedKept ==
  ASSUME TypeOK, \A r \in Runs : InHand(r), [Next]_vars
  PROVE  TypeOK'
<1>1. CASE UNCHANGED vars
  BY <1>1 DEF vars, TypeOK
<1>2. CASE Next
  <2>1. PICK o \in Runs : StepOf(o)
    BY <1>2, NextIsAStep
  <2>2. InHand(o)
    OBVIOUS
  <2>3. CASE RunStep(o)
    BY <2>3, RunStepTyped DEF RunStep
  <2>4. CASE LoopStep(o)
    BY <2>2, <2>4, LoopStepTyped DEF LoopStep
  <2>5. CASE ExecutorStep(o) \/ Read(o)
    BY <2>2, <2>5, ExecutorStepTyped, ReadTyped DEF ExecutorStep
  <2>6. CASE CommitStep(o)
    BY <2>2, <2>6, CommitOfTrialTyped, CommitOfTableTyped DEF CommitStep
  <2>7. CASE EndStep(o)
    BY <2>7, EndStepTyped DEF EndStep
  <2>8. QED
    BY <2>1, <2>3, <2>4, <2>5, <2>6, <2>7 DEF StepOf
<1>3. QED
  BY <1>1, <1>2

LEMMA InitTyped == Init => TypeOK /\ \A r \in Runs : InHand(r)
<1> SUFFICES ASSUME Init PROVE TypeOK /\ \A r \in Runs : InHand(r)
  OBVIOUS
<1> USE TypeParts, FreshWorker, BlankRows DEF Init
<1>1. RunsTyped
  BY DEF RunsTyped, RunStatuses
<1>2. WorkersTyped /\ ViewsTyped
  BY DEF WorkersTyped, ViewsTyped
<1>3. TablesTyped /\ FilesTyped
  <2>1. trials \in Tables
    BY DEF Tables
  <2>2. <<>> \in Seq(Authors)
    OBVIOUS
  <2>3. QED
    BY <2>1, <2>2 DEF TablesTyped, FilesTyped
<1>4. OthersTyped
  <2>1. overlapped \in BOOLEAN
    BY ZenonT(30)
  <2>2. faults \in 0..MaxFaults
    BY SlotsAssumption
  <2>3. QED
    BY <2>1, <2>2 DEF OthersTyped
<1>5. \A r \in Runs : InHand(r)
  BY DEF InHand, OfASlot, OfOneTrial
<1>6. QED
  BY <1>1, <1>2, <1>3, <1>4, <1>5 DEF Typed

\* Every variable of TrialSlots keeps a value of its kind, and every row of `trials`, and
\* every row that a session still holds in memory, satisfies the CHECK constraints of the
\* table, however many runs of the experiment are in hand at once and whatever fails.
THEOREM SlotRowsTypeCorrect == Spec => []TypeOK
<1>1. Init => TypeOK /\ \A r \in Runs : InHand(r)
  BY InitTyped
<1>2. (TypeOK /\ (\A r \in Runs : InHand(r))) /\ [Next]_vars
        => (TypeOK /\ (\A r \in Runs : InHand(r)))'
  BY InHandKept, TypedKept
<1>3. QED
  BY <1>1, <1>2, PTL DEF Spec

-----------------------------------------------------------------------------
(* A recorded trial stays recorded, whoever overlaps.                      *)

RecordedStatuses == {"completed", "failed"}

\* A writer that leaves the outcome alone leaves a recorded row recorded, or is refused.
LEMMA RecordedRowStays ==
  ASSUME NEW row \in CheckedRows, NEW was \in CheckedRows, NEW new \in CheckedRows,
         row.status \in RecordedStatuses, Checked(Updated(row, was, new)),
         new.status \in RecordedStatuses \/ new.outcome = was.outcome
  PROVE  Updated(row, was, new).status \in RecordedStatuses
<1>1. row \in Rows /\ was \in Rows /\ new \in Rows /\ row.outcome # "null"
  BY DEF CheckedRows, Checked, RecordedStatuses
<1>2. CASE new.outcome = was.outcome
  <2>1. Updated(row, was, new).outcome # "null"
    BY <1>1, <1>2, UpdatedColumns
  <2>2. QED
    BY <2>1 DEF Checked, RecordedStatuses
<1>3. CASE new.status \in RecordedStatuses
  BY <1>1, <1>3, UpdatedColumns
<1>4. QED
  BY <1>2, <1>3

\* Every replacement is a result, or leaves the outcome as it was read.
ResultOrSameOutcome(r, rows) ==
  \A t \in Slots : rows[t].status \in RecordedStatuses \/ rows[t].outcome = seen[r].trials[t].outcome

LEMMA ReplacementsKeepOutcomes ==
  ASSUME TypeOK, NEW r \in Runs, slot[r] \in Slots
  PROVE  /\ ResultOrSameOutcome(r, Marked(r)) /\ ResultOrSameOutcome(r, Completed(r))
         /\ ResultOrSameOutcome(r, Failed(r)) /\ ResultOrSameOutcome(r, CancelledOne(r))
<1>1. /\ seen[r].trials \in Tables /\ seen[r].trials[slot[r]] \in CheckedRows
      /\ DOMAIN seen[r].trials = Slots
  BY DEF TypeOK, Tables, CheckedRows
<1>2. ASSUME NEW row,
             row.status \in RecordedStatuses \/ row.outcome = seen[r].trials[slot[r]].outcome
      PROVE  ResultOrSameOutcome(r, NewRow(r, row))
  BY <1>1, <1>2 DEF NewRow, ResultOrSameOutcome
<1>3. ResultOrSameOutcome(r, seen[r].trials)
  BY DEF ResultOrSameOutcome
<1>4. ResultOrSameOutcome(r, Marked(r))
  BY <1>1, <1>2, <1>3, RunningRowIsRow DEF Marked
<1>5. ResultOrSameOutcome(r, Completed(r)) /\ ResultOrSameOutcome(r, Failed(r))
  BY <1>2, ResultRows DEF Completed, Failed, RecordedStatuses
<1>6. CancelledRow(seen[r].trials[slot[r]]).outcome = seen[r].trials[slot[r]].outcome
  BY <1>1, CancelledRowIsRow
<1>7. ResultOrSameOutcome(r, CancelledOne(r))
  BY <1>2, <1>6 DEF CancelledOne
<1>8. QED
  BY <1>4, <1>5, <1>7

LEMMA CancellationKeepsOutcomes ==
  ASSUME TypeOK, NEW r \in Runs
  PROVE  ResultOrSameOutcome(r, CancelledOpen(r))
<1>1. \A t \in Slots : seen[r].trials[t] \in CheckedRows
  BY DEF TypeOK, CheckedRows
<1>2. QED
  BY <1>1, CancelledRowIsRow DEF ResultOrSameOutcome, CancelledOpen

RecordedStays ==
  \A t \in Slots : trials[t].status \in RecordedStatuses => trials'[t].status \in RecordedStatuses

LEMMA WriteKeepsRecorded ==
  ASSUME TypeOK, NEW r \in Runs, NEW rows \in Tables, ResultOrSameOutcome(r, rows),
         Accepted(RowsAfter(r, rows)), trials' = RowsAfter(r, rows)
  PROVE  RecordedStays
<1> SUFFICES ASSUME NEW t \in Slots, trials[t].status \in RecordedStatuses
             PROVE  trials'[t].status \in RecordedStatuses
  BY DEF RecordedStays
<1>1. trials[t] \in CheckedRows /\ seen[r].trials[t] \in CheckedRows /\ rows[t] \in CheckedRows
  BY DEF TypeOK, CheckedRows, Tables
<1>2. /\ trials'[t] = Updated(trials[t], seen[r].trials[t], rows[t])
      /\ Checked(Updated(trials[t], seen[r].trials[t], rows[t]))
  BY DEF RowsAfter, Accepted
<1>3. QED
  BY <1>1, <1>2, RecordedRowStays DEF ResultOrSameOutcome

\* A completed or failed trial is never open or cancelled again, however the runs of the
\* experiment overlap: mark_trial_running, mark_trial_cancelled and the functions that write
\* a result (trials.py) judge the row they have read, and the CHECK constraints refuse what
\* would come of it when the row has been recorded meanwhile.
THEOREM RecordedForGood == Spec => RecordedNeverReopens
<1>1. ASSUME TypeOK, \A r \in Runs : InHand(r), [Next]_vars
      PROVE  RecordedStays
  <2>1. CASE UNCHANGED trials
    BY <2>1 DEF RecordedStays
  <2>2. CASE Next
    <3>1. PICK r \in Runs : StepOf(r)
      BY <2>2, NextIsAStep
    <3>2. CASE Ensure(r)
      BY <3>2, BlankRows DEF Ensure, RecordedStays, RecordedStatuses
    <3>3. CASE CommitMark(r)
      <4>1. slot[r] \in Slots
        BY <1>1, <3>3 DEF CommitMark, InTransaction, InHand, OfASlot, OfOneTrial
      <4>2. QED
        BY <1>1, <3>3, <4>1, WriteKeepsRecorded, ReplacementsKeepOutcomes,
           ReplacementsAreTables DEF CommitMark
    <3>4. CASE CommitCancelledTrial(r) \/ CommitSuccess(r) \/ CommitFailure(r)
      <4>1. slot[r] \in Slots
        BY <1>1, <3>4 DEF CommitCancelledTrial, CommitSuccess, CommitFailure, InTransaction,
                         InHand, OfASlot, OfOneTrial
      <4>2. \E rows \in Tables : ResultOrSameOutcome(r, rows) /\ CommitTrial(r, RowsAfter(r, rows))
        BY <1>1, <3>4, <4>1, ReplacementsKeepOutcomes, ReplacementsAreTables
           DEF CommitCancelledTrial, CommitSuccess, CommitFailure
      <4>3. QED
        BY <1>1, <4>2, WriteKeepsRecorded DEF CommitTrial
    <3>5. CASE CommitCancelOpen(r) \/ (Release(r) /\ seen[r].cancelling)
      BY <1>1, <3>5, WriteKeepsRecorded, CancellationKeepsOutcomes, CancelledOpenIsTable
         DEF CommitCancelOpen, Release
    <3>6. CASE UNCHANGED trials
      BY <2>1, <3>6
    <3>7. CASE RunStep(r)
      BY <3>6, <3>7 DEF RunStep, Submit, RequestCancel, Claim, Reclaim, Start, tables
    <3>8. CASE LoopStep(r)
      BY <3>2, <3>6, <3>8 DEF LoopStep, CountFailed, Skip, Take, Decide, Stop, tables
    <3>9. CASE ExecutorStep(r) \/ Read(r)
      BY <3>6, <3>9 DEF ExecutorStep, SeeCancelled, Store, Fail, Return, Read, tables
    <3>10. CASE EndStep(r)
      BY <3>5, <3>6, <3>10 DEF EndStep, Complete, Release, DatabaseFails, Crash, tables
    <3>11. QED
      BY <3>1, <3>3, <3>4, <3>5, <3>7, <3>8, <3>9, <3>10 DEF StepOf, CommitStep
  <2>3. QED
    BY <1>1, <2>1, <2>2 DEF vars
<1>2. Init => TypeOK /\ \A r \in Runs : InHand(r)
  BY InitTyped
<1>3. (TypeOK /\ (\A r \in Runs : InHand(r))) /\ [Next]_vars
        => (TypeOK /\ (\A r \in Runs : InHand(r)))'
  BY InHandKept, TypedKept
<1>4. TypeOK /\ (\A r \in Runs : InHand(r)) /\ [Next]_vars
        => [\A t \in Slots :
              trials[t].status \in {"completed", "failed"} =>
                trials'[t].status \in {"completed", "failed"}]_vars
  BY <1>1 DEF RecordedStays, RecordedStatuses
<1>5. QED
  BY <1>2, <1>3, <1>4, PTL DEF Spec, RecordedNeverReopens

-----------------------------------------------------------------------------
(* As long as the runs take turns, the trials agree with the worker's list.*)

OfRun(r) == ReadIsCurrent(r) /\ ListKept(r) /\ Counted(r) /\ Backed(r)
Turn(r) == TypeOK /\ InHand(r) /\ OfRun(r) /\ \A t \in Slots : Evidence(t)

\* What trial t has recorded does not change with the files of a trial that has not ended.
LEMMA EvidenceStays ==
  ASSUME NEW t \in Slots, Evidence(t), trials'[t] = trials[t], events'[t] = events[t],
         artifacts'[t] = artifacts[t], files'[t] = files[t] \/ ~Ended(t)
  PROVE  Evidence(t)'
<1>1. trials[t].status = "completed" => files'[t] = files[t]
  BY DEF Ended, TerminalTrialStatuses
<1>2. QED
  BY <1>1 DEF Evidence, Recorded, Ended

LEMMA EvidenceUnchanged ==
  ASSUME \A t \in Slots : Evidence(t), UNCHANGED <<tables, files>>
  PROVE  \A t \in Slots : Evidence(t)'
BY EvidenceStays DEF tables

\* What is read of a worker's list depends on the rows and on that worker only.
LEMMA OfRunUnchanged ==
  ASSUME NEW r \in Runs, OfRun(r), UNCHANGED <<attempt, at, slot, failedCount, work, seen>>,
         UNCHANGED <<tables, files>>
  PROVE  OfRun(r)'
BY DEF OfRun, ReadIsCurrent, ListKept, Counted, Backed, Ended, FailedSlots, Author, tables

\* The run in hand is the only one, so the others have nothing to keep.
LEMMA OthersIdle ==
  ASSUME TypeOK, TakingTurns, NEW r \in Runs, StepOf(r), at[r] # "none" \/ Claim(r),
         ~overlapped', OfRun(r)', \A t \in Slots : Evidence(t)'
  PROVE  TakingTurns'
<1>1. \A o \in Runs \ {r} : at[o] = "none"
  <2>1. CASE at[r] # "none"
    BY <2>1 DEF TakingTurns, OneInHand
  <2>2. CASE Claim(r)
    BY <2>2, ZenonT(30) DEF Claim
  <2>3. QED
    BY <2>1, <2>2
<1>2. \A o \in Runs \ {r} : at'[o] = "none" /\ seen'[o] = seen[o] /\ slot'[o] = slot[o]
  BY <1>1, OthersAlone
<1>3. OneInHand'
  BY <1>2 DEF OneInHand
<1>4. ASSUME NEW o \in Runs PROVE OfRun(o)'
  <2>1. CASE o = r
    BY <2>1
  <2>2. CASE o # r
    <3>1. at[o] = "none" /\ at'[o] = "none" /\ seen'[o] = seen[o] /\ slot'[o] = slot[o]
      BY <1>1, <1>2, <2>2
    <3>2. ~seen[o].open /\ slot[o] = 1
      BY <3>1 DEF TakingTurns, ReadIsCurrent, ListKept, Transactions, OfOneTrial, OfAllTrials
    <3>3. QED
      BY <3>1, <3>2 DEF OfRun, ReadIsCurrent, ListKept, Counted, Backed, OfASlot, OnTheList,
                        OfOneTrial
  <2>3. QED
    BY <2>1, <2>2
<1>5. QED
  BY <1>3, <1>4 DEF TakingTurns, OfRun

\* A worker that lets its run go has nothing to keep.
LEMMA LetGoIdle ==
  ASSUME TypeOK, NEW r \in Runs, LetGo(r)
  PROVE  OfRun(r)'
<1>1. at'[r] = "none" /\ slot'[r] = 1 /\ ~seen'[r].open
  BY FreshWorker DEF LetGo, TypeOK
<1>2. QED
  BY <1>1 DEF OfRun, ReadIsCurrent, ListKept, Counted, Backed, OfASlot, OnTheList, OfOneTrial


LEMMA RequestTurn ==
  ASSUME TakingTurns, NEW r \in Runs, Submit(r) \/ RequestCancel(r) \/ Reclaim(r)
  PROVE  TakingTurns'
<1>1. UNCHANGED <<attempt, at, slot, failedCount, work, seen>> /\ UNCHANGED <<tables, files>>
  BY DEF Submit, RequestCancel, Reclaim, workerVars
<1>2. \A o \in Runs : OfRun(o)'
  BY <1>1, OfRunUnchanged DEF TakingTurns, OfRun
<1>3. \A t \in Slots : Evidence(t)'
  BY <1>1, EvidenceUnchanged DEF TakingTurns
<1>4. OneInHand'
  BY <1>1 DEF TakingTurns, OneInHand
<1>5. QED
  BY <1>2, <1>3, <1>4 DEF TakingTurns, OfRun

LEMMA ClaimTurn ==
  ASSUME NEW r \in Runs, Turn(r), Claim(r) \/ Start(r)
  PROVE  OfRun(r)' /\ \A t \in Slots : Evidence(t)'
<1>1. UNCHANGED <<slot, seen, tables, files>> /\ at[r] \in {"none", "starting"}
  BY DEF Claim, Start
<1>2. \A t \in Slots : Evidence(t)'
  BY <1>1, EvidenceUnchanged DEF Turn
<1>3. at'[r] \in {"starting", "ensuring", "releasing"}
  BY DEF Claim, Start, Goes, Turn, TypeOK
<1>4. ~seen[r].open /\ slot[r] = 1
  BY <1>1 DEF Turn, OfRun, ReadIsCurrent, ListKept, Transactions, OfOneTrial, OfAllTrials
<1>5. OfRun(r)'
  BY <1>1, <1>3, <1>4 DEF OfRun, ReadIsCurrent, ListKept, Counted, Backed, OfASlot, OnTheList,
                          OfOneTrial
<1>6. QED
  BY <1>2, <1>5

LEMMA EnsureTurn ==
  ASSUME NEW r \in Runs, Turn(r), Ensure(r)
  PROVE  OfRun(r)' /\ \A t \in Slots : Evidence(t)'
<1>1. /\ UNCHANGED <<slot, seen, events, artifacts, files>>
      /\ at[r] = "ensuring" /\ at'[r] = "counting"
  BY DEF Ensure, Goes, Turn, TypeOK
<1>2. \A t \in Slots : trials'[t] = IF trials[t] = Absent THEN Pending ELSE trials[t]
  BY DEF Ensure
<1>3. ASSUME NEW t \in Slots PROVE Evidence(t)' /\ trials'[t].status # "absent"
  <2>1. CASE trials[t] = Absent
    <3>1. ~Ended(t)
      BY <2>1, BlankRows DEF Ended, TerminalTrialStatuses
    <3>2. trials'[t] = Pending /\ Pending.status = "pending"
      BY <1>2, <2>1, BlankRows
    <3>3. QED
      BY <1>1, <3>1, <3>2 DEF Turn, Evidence, Recorded, Ended, TerminalTrialStatuses
  <2>2. CASE trials[t] # Absent
    <3>1. trials'[t] = trials[t] /\ trials[t].status # "absent"
      BY <1>2, <2>2 DEF Turn, Evidence
    <3>2. QED
      BY <1>1, <3>1, EvidenceStays DEF Turn
  <2>3. QED
    BY <2>1, <2>2
<1>4. ~seen[r].open /\ slot[r] = 1
  BY <1>1 DEF Turn, OfRun, ReadIsCurrent, ListKept, Transactions, OfOneTrial, OfAllTrials
<1>5. OfRun(r)'
  BY <1>1, <1>3, <1>4 DEF OfRun, ReadIsCurrent, ListKept, Counted, Backed, OfASlot, OnTheList,
                          OfOneTrial
<1>6. QED
  BY <1>3, <1>5

\* CountFailed, and the way from one trial to the next.
LEMMA LoopTurn ==
  ASSUME NEW r \in Runs, Turn(r), CountFailed(r) \/ Skip(r) \/ Take(r) \/ Stop(r)
  PROVE  OfRun(r)' /\ \A t \in Slots : Evidence(t)'
<1> USE DEF OfASlot, OnTheList, OfOneTrial
<1>1. UNCHANGED <<seen, tables, files>> /\ at[r] \in {"counting", "next", "executing", "stored"}
  BY DEF CountFailed, Skip, Take, Stop
<1>2. \A t \in Slots : Evidence(t)'
  BY <1>1, EvidenceUnchanged DEF Turn
<1>3. ~seen'[r].open
  BY <1>1 DEF Turn, OfRun, ReadIsCurrent, Transactions, OfAllTrials
<1>4. /\ \A t \in Slots : (Ended(t) <=> Ended(t)') /\ trials'[t] = trials[t]
      /\ FailedSlots' = FailedSlots
  BY <1>1 DEF Ended, FailedSlots, tables
<1>5. CASE CountFailed(r)
  <2>1. /\ at[r] = "counting" /\ at'[r] = "next" /\ slot'[r] = slot[r]
        /\ failedCount'[r] = Cardinality(FailedSlots)
    BY <1>5 DEF CountFailed, Goes, Turn, TypeOK, FailedSlots
  <2>2. slot[r] = 1 /\ \A t \in Slots : ~(t < 1) /\ trials[t].status # "absent"
    BY <2>1, SlotsAssumption DEF Turn, OfRun, ListKept, Slots
  <2>3. Counted(r)'
    BY <1>4, <2>1, FailedSlotsFinite DEF Counted
  <2>4. QED
    BY <1>2, <1>3, <1>4, <2>1, <2>2, <2>3 DEF OfRun, ReadIsCurrent, ListKept, Backed
<1>6. CASE Skip(r)
  <2>1. /\ at[r] = "next" /\ at'[r] = "next" /\ slot'[r] = slot[r] + 1 /\ slot[r] \in Slots
        /\ failedCount'[r] = failedCount[r] /\ Ended(slot[r])
    BY <1>6 DEF Skip, Turn, TypeOK, Ended
  <2>2. \A t \in Slots : t < slot[r] + 1 => t < slot[r] \/ t = slot[r]
    BY <2>1, SlotsAssumption DEF Slots
  <2>3. ListKept(r)'
    BY <1>4, <2>1, <2>2 DEF Turn, OfRun, ListKept
  <2>4. QED
    BY <1>2, <1>3, <1>4, <2>1, <2>3 DEF Turn, OfRun, ReadIsCurrent, Counted, Backed
<1>7. CASE Take(r)
  <2>1. /\ at[r] = "next" /\ at'[r] = "deciding" /\ slot'[r] = slot[r] /\ slot[r] \in Slots
        /\ failedCount'[r] = failedCount[r] /\ ~Ended(slot[r])
    BY <1>7 DEF Take, Goes, Turn, TypeOK, Ended
  <2>2. ListKept(r)'
    BY <1>4, <2>1 DEF Turn, OfRun, ListKept
  <2>3. QED
    BY <1>2, <1>3, <1>4, <2>1, <2>2 DEF Turn, OfRun, ReadIsCurrent, Counted, Backed
<1>8. CASE Stop(r)
  <2>1. at'[r] = "releasing"
    BY <1>8 DEF Stop, Goes, Turn, TypeOK
  <2>2. QED
    BY <1>2, <1>3, <2>1 DEF OfRun, ReadIsCurrent, ListKept, Counted, Backed
<1>9. QED
  BY <1>5, <1>6, <1>7, <1>8

LEMMA DecideTurn ==
  ASSUME NEW r \in Runs, Turn(r), Decide(r)
  PROVE  OfRun(r)' /\ \A t \in Slots : Evidence(t)'
<1> USE DEF OfASlot, OnTheList, OfOneTrial
<1>1. /\ UNCHANGED <<slot, failedCount, seen, tables, files>>
      /\ at[r] = "deciding" \/ (at[r] = "next" /\ slot[r] > NumSlots)
  BY DEF Decide
<1>2. \A t \in Slots : Evidence(t)'
  BY <1>1, EvidenceUnchanged DEF Turn
<1>3. ~seen'[r].open
  BY <1>1 DEF Turn, OfRun, ReadIsCurrent, Transactions, OfAllTrials
<1>4. /\ \A t \in Slots : (Ended(t) <=> Ended(t)') /\ trials'[t] = trials[t]
      /\ FailedSlots' = FailedSlots
  BY <1>1 DEF Ended, FailedSlots, tables
<1>5. /\ \A t \in Slots : trials[t].status # "absent" /\ (t < slot[r] => Ended(t))
      /\ at[r] = "deciding" => ~Ended(slot[r])
      /\ failedCount[r] <= Cardinality(FailedSlots)
  BY <1>1 DEF Turn, OfRun, ListKept, Counted
<1>6. CASE run[r] = "cancelling"
  <2>1. at'[r] = "cancelling_open"
    BY <1>6 DEF Decide, Goes, Turn, TypeOK
  <2>2. QED
    BY <1>1, <1>2, <1>3, <1>4, <1>5, <2>1 DEF OfRun, ReadIsCurrent, ListKept, Counted, Backed
<1>7. CASE run[r] # "cancelling" /\ slot[r] > NumSlots
  <2>1. at'[r] = "finishing"
    BY <1>7, SlotsAssumption DEF Decide, Goes, Turn, TypeOK, Slots
  <2>2. QED
    BY <1>1, <1>2, <1>3, <1>4, <1>5, <1>7, <2>1
       DEF OfRun, ReadIsCurrent, ListKept, Counted, Backed
<1>8. CASE run[r] # "cancelling" /\ slot[r] \in Slots
  <2>1. ~(slot[r] > NumSlots) /\ at[r] = "deciding"
    BY <1>1, <1>8, SlotsAssumption DEF Slots
  <2>2. at'[r] = IF failedCount[r] >= ErrorBudget THEN "exhausting" ELSE "marking"
    BY <1>8, <2>1 DEF Decide, Goes, Turn, TypeOK
  <2>3. failedCount[r] >= ErrorBudget => ErrorBudget <= Cardinality(FailedSlots)
    <3>1. failedCount[r] \in Nat /\ ErrorBudget \in Nat
      BY SlotsAssumption DEF Turn, TypeOK
    <3>2. QED
      BY <1>5, <3>1, FailedSlotsFinite
  <2>4. ListKept(r)'
    BY <1>1, <1>4, <1>5, <1>8, <2>1, <2>2 DEF ListKept
  <2>5. Counted(r)'
    BY <1>1, <1>4, <1>5, <2>2, <2>3 DEF Counted
  <2>6. QED
    BY <1>2, <1>3, <2>2, <2>4, <2>5 DEF OfRun, ReadIsCurrent, Backed
<1>9. slot[r] \in Slots \/ slot[r] > NumSlots
  BY SlotsAssumption DEF Turn, TypeOK, Slots
<1>10. QED
  BY <1>6, <1>7, <1>8, <1>9

LEMMA ExecutorTurn ==
  ASSUME NEW r \in Runs, Turn(r), SeeCancelled(r) \/ Store(r) \/ Fail(r) \/ Return(r)
  PROVE  OfRun(r)' /\ \A t \in Slots : Evidence(t)'
<1> USE DEF OfASlot, OnTheList, OfOneTrial
<1>1. /\ UNCHANGED <<attempt, slot, failedCount, seen, tables>>
      /\ at[r] \in {"executing", "stored"} /\ slot[r] \in Slots
  BY DEF SeeCancelled, Store, Fail, Return, Turn, InHand, runVars
<1>2. ~seen'[r].open
  BY <1>1 DEF Turn, OfRun, ReadIsCurrent, Transactions, OfAllTrials
<1>3. /\ \A t \in Slots : (Ended(t) <=> Ended(t)') /\ trials'[t] = trials[t]
      /\ FailedSlots' = FailedSlots
  BY <1>1 DEF Ended, FailedSlots, tables
<1>4. ~Ended(slot[r])
  BY <1>1 DEF Turn, OfRun, ListKept
<1>5. \A t \in Slots \ {slot[r]} : files'[t] = files[t]
  BY DEF SeeCancelled, Store, Fail, Return, Turn, TypeOK
<1>6. \A t \in Slots : Evidence(t)'
  BY <1>1, <1>3, <1>4, <1>5, EvidenceStays DEF Turn, tables
<1>7. at'[r] \in {"cancelling_one", "stored", "failing", "completing"}
  BY DEF SeeCancelled, Store, Fail, Return, Goes, Turn, TypeOK
<1>8. ListKept(r)' /\ Counted(r)'
  BY <1>1, <1>3, <1>7 DEF Turn, OfRun, ListKept, Counted
<1>9. Backed(r)'
  <2>1. Author(r)' = Author(r)
    BY <1>1 DEF Author
  <2>2. CASE Store(r)
    <3>1. at'[r] = "stored" /\ files'[slot[r]] = Author(r)
      BY <1>1, <2>2 DEF Store, Goes, Turn, TypeOK
    <3>2. QED
      BY <1>1, <2>1, <3>1 DEF Backed
  <2>3. CASE Return(r)
    <3>1. /\ at[r] = "stored" /\ at'[r] \in {"completing", "failing"} /\ files' = files
          /\ work'[r] = [events |-> NumEvents, artifacts |-> TRUE]
      BY <2>3 DEF Return, ToWrite, Goes, Turn, TypeOK
    <3>2. QED
      BY <1>1, <2>1, <3>1 DEF Turn, OfRun, Backed
  <2>4. CASE SeeCancelled(r) \/ Fail(r)
    <3>1. at'[r] \in {"cancelling_one", "failing"}
      BY <2>4 DEF SeeCancelled, Fail, Goes, Turn, TypeOK
    <3>2. QED
      BY <3>1 DEF Backed
  <2>5. QED
    BY <2>2, <2>3, <2>4
<1>10. QED
  BY <1>2, <1>6, <1>8, <1>9 DEF OfRun, ReadIsCurrent

LEMMA ReadTurn ==
  ASSUME NEW r \in Runs, Turn(r), Read(r)
  PROVE  OfRun(r)' /\ \A t \in Slots : Evidence(t)'
<1>1. /\ UNCHANGED <<attempt, at, slot, failedCount, work, tables, files>>
      /\ at[r] \in Transactions
  BY DEF Read, runVars, workerVars
<1>2. \A t \in Slots : Evidence(t)'
  BY <1>1, EvidenceUnchanged DEF Turn
<1>3. ListKept(r)' /\ Counted(r)' /\ Backed(r)'
  BY <1>1 DEF Turn, OfRun, ListKept, Counted, Backed, Ended, FailedSlots, Author, tables
<1>4. ReadIsCurrent(r)'
  <2> DEFINE loaded == [t \in Slots |-> IF Loads(r, t) THEN trials[t] ELSE Absent]
             held   == at[r] = "releasing" /\ run[r] = "cancelling"
             used   == IF at[r] \in OfOneTrial THEN Len(events[slot[r]]) ELSE 0
  <2>1. /\ seen'[r].trials = loaded
        /\ seen'[r].cancelling <=> at[r] = "releasing" /\ run[r] = "cancelling"
        /\ seen'[r].used = IF at[r] \in OfOneTrial THEN Len(events[slot[r]]) ELSE 0
    <3>1. seen' = [seen EXCEPT ![r] = [open |-> TRUE, cancelling |-> held,
                                       trials |-> loaded, used |-> used]]
      BY DEF Read
    <3>2. DOMAIN seen = Runs
      BY DEF Turn, TypeOK
    <3>3. /\ seen'[r].trials = loaded /\ seen'[r].used = used
          /\ seen'[r].cancelling = held
      <4> HIDE DEF loaded, held, used
      <4>1. QED
        BY <3>1, <3>2
    <3>4. QED
      BY <3>3, ZenonT(30)
  <2>2. trials = [t \in Slots |-> trials[t]]
    BY DEF Turn, TypeOK
  <2>3. CASE at[r] \in OfOneTrial
    <3>1. \A t \in Slots : Loads(r, t) <=> t = slot[r]
      BY <2>3 DEF Loads, OfOneTrial, OfAllTrials
    <3>2. /\ loaded = [t \in Slots |-> IF t = slot[r] THEN trials[t] ELSE Absent]
      BY <3>1
    <3>3. at[r] \notin {"cancelling_open", "finishing"} /\ at[r] # "releasing"
      BY <2>3 DEF OfOneTrial
    <3>4. QED
      BY <1>1, <2>1, <2>3, <3>2, <3>3 DEF ReadIsCurrent, tables
  <2>4. CASE at[r] \in {"cancelling_open", "finishing"}
    <3>1. \A t \in Slots : Loads(r, t)
      BY <2>4 DEF Loads, OfAllTrials
    <3>2. loaded = trials
      BY <2>2, <3>1
    <3>3. QED
      BY <1>1, <2>1, <2>4, <3>2 DEF ReadIsCurrent, OfOneTrial, tables
  <2>5. CASE at[r] = "releasing"
    <3>1. \A t \in Slots : Loads(r, t) <=> run[r] = "cancelling"
      BY <2>5 DEF Loads, OfOneTrial, OfAllTrials
    <3>2. loaded = IF run[r] = "cancelling" THEN trials ELSE [t \in Slots |-> Absent]
      BY <2>2, <3>1
    <3>3. QED
      BY <1>1, <2>1, <2>5, <3>2 DEF ReadIsCurrent, OfOneTrial, tables
  <2>6. QED
    BY <1>1, <2>3, <2>4, <2>5 DEF Transactions, OfAllTrials
<1>5. QED
  BY <1>2, <1>3, <1>4 DEF OfRun

\* The transactions of one trial, as long as what they have read is current.
LEMMA CurrentTrial ==
  ASSUME NEW r \in Runs, Turn(r), seen[r].open, at[r] \in OfOneTrial
  PROVE  /\ slot[r] \in Slots /\ ~Ended(slot[r]) /\ trials[slot[r]].status # "absent"
         /\ seen[r].trials[slot[r]] = trials[slot[r]]
         /\ seen[r].used = 0 /\ events[slot[r]] = <<>> /\ artifacts[slot[r]] = Nobody
         /\ RowsAfter(r, seen[r].trials) = trials
         /\ \A row \in CheckedRows :
              RowsAfter(r, NewRow(r, row)) = [trials EXCEPT ![slot[r]] = row]
<1> DEFINE s == slot[r]
           blank == [t \in Slots |-> IF t = s THEN trials[t] ELSE Absent]
<1>1. s \in Slots
  BY DEF Turn, InHand, OfASlot
<1>2. ~Ended(s) /\ trials[s].status # "absent"
  BY <1>1 DEF Turn, OfRun, ListKept, OfASlot, OnTheList
<1>3. seen[r].trials = blank /\ seen[r].used = Len(events[s])
  BY DEF Turn, OfRun, ReadIsCurrent
<1>4. events[s] = <<>> /\ artifacts[s] = Nobody /\ Len(<<>>) = 0
  BY <1>1, <1>2 DEF Turn, Evidence
<1>5. /\ trials \in [Slots -> CheckedRows] /\ \A t \in Slots : trials[t] \in Rows
      /\ Absent \in Rows
  BY BlankRows DEF Turn, TypeOK, CheckedRows
<1>6. \A t \in Slots : Updated(trials[t], blank[t], blank[t]) = trials[t]
  <2>1. \A t \in Slots : blank[t] \in Rows
    BY <1>5
  <2> HIDE DEF blank
  <2>2. QED
    BY <1>5, <2>1, SameNotUpdated
<1>7. RowsAfter(r, seen[r].trials) = trials
  <2>1. trials = [t \in Slots |-> trials[t]]
    BY <1>5
  <2>2. RowsAfter(r, seen[r].trials) = [t \in Slots |-> Updated(trials[t], blank[t], blank[t])]
    BY <1>3 DEF RowsAfter
  <2> HIDE DEF blank
  <2>3. QED
    BY <1>6, <2>1, <2>2
<1>8. ASSUME NEW row \in CheckedRows
      PROVE  RowsAfter(r, NewRow(r, row)) = [trials EXCEPT ![s] = row]
  <2> DEFINE new == [blank EXCEPT ![s] = row]
  <2>1. new[s] = row /\ \A t \in Slots \ {s} : new[t] = blank[t]
    BY <1>1
  <2>2. blank[s] = trials[s] /\ row \in Rows
    BY <1>1 DEF CheckedRows
  <2>3. RowsAfter(r, NewRow(r, row)) = [t \in Slots |-> Updated(trials[t], blank[t], new[t])]
    BY <1>3 DEF RowsAfter, NewRow
  <2> HIDE DEF new, blank
  <2>4. \A t \in Slots : Updated(trials[t], blank[t], new[t]) = IF t = s THEN row ELSE trials[t]
    BY <1>5, <1>6, <2>1, <2>2, UpdatedOfCurrent
  <2>5. QED
    BY <1>5, <2>3, <2>4
<1>9. QED
  BY <1>1, <1>2, <1>3, <1>4, <1>7, <1>8

LEMMA CurrentTable ==
  ASSUME NEW r \in Runs, Turn(r), seen[r].open,
         at[r] = "cancelling_open" \/ (at[r] = "releasing" /\ seen[r].cancelling)
  PROVE  RowsAfter(r, CancelledOpen(r)) = [t \in Slots |-> CancelledRow(trials[t])]
<1>1. seen[r].trials = trials
  BY DEF Turn, OfRun, ReadIsCurrent
<1>2. \A t \in Slots : trials[t] \in CheckedRows
  BY DEF Turn, TypeOK, CheckedRows
<1>3. \A t \in Slots : trials[t] \in Rows /\ CancelledRow(trials[t]) \in Rows
  BY <1>2, CancelledRowIsRow DEF CheckedRows
<1>4. \A t \in Slots : Updated(trials[t], trials[t], CancelledRow(trials[t]))
                         = CancelledRow(trials[t])
  BY <1>3, UpdatedOfCurrent
<1>5. QED
  BY <1>1, <1>4 DEF RowsAfter, CancelledOpen

\* What one attempt records of a trial that had nothing recorded.
LEMMA EvidenceOfOne ==
  ASSUME NEW t \in Slots, NEW a \in Authors, Ended(t)',
         \A i \in DOMAIN events'[t] : events'[t][i] = a, artifacts'[t] \in {Nobody, a},
         trials'[t].status = "completed" =>
           /\ trials'[t].by = a /\ files'[t] = a /\ Len(events'[t]) = NumEvents
           /\ artifacts'[t] = a
  PROVE  Evidence(t)'
<1>1. a # Nobody
  BY DEF Authors, Nobody
<1>2. \A x \in Recorded(t)' : x = a
  BY DEF Recorded
<1>3. trials'[t].status = "completed" => Recorded(t)' = {a}
  BY <1>1, <1>2 DEF Recorded
<1>4. trials'[t].status # "absent"
  BY DEF Ended, TerminalTrialStatuses
<1>5. QED
  BY <1>1, <1>2, <1>3, <1>4 DEF Evidence

LEMMA TrialCommitted ==
  ASSUME NEW r \in Runs, Turn(r), seen[r].open, at[r] \in OfOneTrial, NEW row \in CheckedRows,
         CommitTrial(r, RowsAfter(r, NewRow(r, row)))
  PROVE  /\ trials' = [trials EXCEPT ![slot[r]] = row] /\ trials'[slot[r]] = row
         /\ \A t \in Slots \ {slot[r]} : trials'[t] = trials[t] /\ events'[t] = events[t]
         /\ Len(events'[slot[r]]) = work[r].events
         /\ \A i \in DOMAIN events'[slot[r]] : events'[slot[r]][i] = Author(r)
         /\ Author(r) \in Authors /\ ~seen'[r].open /\ files' = files
<1>1. /\ slot[r] \in Slots /\ seen[r].used = 0 /\ events[slot[r]] = <<>>
      /\ RowsAfter(r, NewRow(r, row)) = [trials EXCEPT ![slot[r]] = row]
  BY CurrentTrial
<1>2. trials' = [trials EXCEPT ![slot[r]] = row]
  BY <1>1 DEF CommitTrial
<1>3. trials'[slot[r]] = row /\ \A t \in Slots \ {slot[r]} : trials'[t] = trials[t]
  BY <1>1, <1>2 DEF Turn, TypeOK
<1>4. events' = EventsAfter(r) /\ files' = files
  BY DEF CommitTrial
<1>5. /\ \A t \in Slots \ {slot[r]} : events'[t] = events[t]
      /\ Len(events'[slot[r]]) = work[r].events
      /\ \A i \in DOMAIN events'[slot[r]] : events'[slot[r]][i] = Author(r)
  BY <1>1, <1>4, EventsAfterAreEvents DEF Turn
<1>6. Author(r) \in Authors
  BY ResultRows DEF Turn
<1>7. ~seen'[r].open
  BY FreshWorker DEF CommitTrial, Turn, TypeOK
<1>8. QED
  BY <1>2, <1>3, <1>4, <1>5, <1>6, <1>7

LEMMA MarkTurn ==
  ASSUME NEW r \in Runs, Turn(r), CommitMark(r)
  PROVE  OfRun(r)' /\ \A t \in Slots : Evidence(t)'
<1> USE DEF OfASlot, OnTheList, OfOneTrial
<1> DEFINE s == slot[r]
<1>1. /\ at[r] = "marking" /\ seen[r].open /\ at[r] \in OfOneTrial
      /\ UNCHANGED <<slot, failedCount, events, artifacts, files>>
  BY DEF CommitMark, InTransaction
<1>2. at'[r] = "executing" /\ ~seen'[r].open
  BY FreshWorker DEF CommitMark, Goes, Turn, TypeOK
<1>3. /\ s \in Slots /\ ~Ended(s) /\ trials[s].status # "absent"
      /\ seen[r].trials[s] = trials[s] /\ RowsAfter(r, seen[r].trials) = trials
      /\ \A row \in CheckedRows : RowsAfter(r, NewRow(r, row)) = [trials EXCEPT ![s] = row]
  BY <1>1, CurrentTrial
<1>4. trials \in [Slots -> CheckedRows]
  BY DEF Turn, TypeOK, CheckedRows
<1>5. /\ \A t \in Slots \ {s} : trials'[t] = trials[t]
      /\ trials'[s] = trials[s] \/ trials'[s].status = "running"
  <2>1. CASE trials[s].status = "pending"
    <3>1. PICK row \in CheckedRows :
            row = [trials[s] EXCEPT !.status = "running"] /\ row.status = "running"
      BY <1>3, <1>4, <2>1, RunningRowIsRow
    <3>2. trials' = [trials EXCEPT ![s] = row]
      BY <1>3, <2>1, <3>1 DEF CommitMark, Marked
    <3>3. QED
      BY <1>3, <1>4, <3>1, <3>2
  <2>2. CASE trials[s].status # "pending"
    BY <1>3, <2>2 DEF CommitMark, Marked
  <2>3. QED
    BY <2>1, <2>2
<1>6. /\ \A t \in Slots : (Ended(t) <=> Ended(t)') /\ trials'[t].status # "absent"
      /\ FailedSlots' = FailedSlots
  <2>1. trials'[s].status \notin TerminalTrialStatuses \cup {"absent"}
    BY <1>3, <1>5 DEF Ended, TerminalTrialStatuses
  <2>2. \A t \in Slots : trials[t].status # "absent"
    BY <1>1 DEF Turn, OfRun, ListKept
  <2>3. trials[s].status # "failed" /\ trials'[s].status # "failed"
    BY <1>3, <2>1 DEF Ended, TerminalTrialStatuses
  <2>4. QED
    BY <1>3, <1>5, <2>1, <2>2, <2>3 DEF Ended, FailedSlots
<1>7. ASSUME NEW t \in Slots PROVE Evidence(t)'
  <2>1. CASE t = s
    <3>1. ~Ended(t) /\ ~Ended(t)' /\ trials'[t].status # "absent"
      BY <1>3, <1>6, <2>1
    <3>2. events'[t] = <<>> /\ artifacts'[t] = Nobody /\ Recorded(t)' = {}
      BY <1>1, <3>1 DEF Turn, Evidence, Recorded
    <3>3. QED
      BY <3>1, <3>2 DEF Evidence, Ended, TerminalTrialStatuses
  <2>2. CASE t # s
    BY <1>1, <1>5, <2>2, EvidenceStays DEF Turn
  <2>3. QED
    BY <2>1, <2>2
<1>8. ListKept(r)' /\ Counted(r)' /\ Backed(r)'
  BY <1>1, <1>2, <1>3, <1>6 DEF Turn, OfRun, ListKept, Counted, Backed
<1>9. QED
  BY <1>2, <1>7, <1>8 DEF OfRun, ReadIsCurrent

\* _cancel_trial
LEMMA CancelTrialTurn ==
  ASSUME NEW r \in Runs, Turn(r), CommitCancelledTrial(r)
  PROVE  OfRun(r)' /\ \A t \in Slots : Evidence(t)'
<1> USE DEF OfASlot, OnTheList, OfOneTrial
<1> DEFINE s == slot[r]
<1>1. /\ at[r] = "cancelling_one" /\ seen[r].open /\ at[r] \in OfOneTrial
      /\ UNCHANGED <<slot, artifacts>>
  BY DEF CommitCancelledTrial, InTransaction
<1>2. at'[r] = "cancelling_open"
  BY DEF CommitCancelledTrial, Goes, Turn, TypeOK
<1>3. /\ s \in Slots /\ ~Ended(s) /\ trials[s].status # "absent" /\ artifacts[s] = Nobody
      /\ seen[r].trials[s] = trials[s]
  BY <1>1, CurrentTrial
<1>4. trials[s] \in CheckedRows
  BY <1>3 DEF Turn, TypeOK, CheckedRows
<1>5. trials[s].status \in OpenTrialStatuses
  BY <1>3, <1>4 DEF CheckedRows, Rows, TrialStatuses, Ended, TerminalTrialStatuses,
                    OpenTrialStatuses
<1>6. PICK row \in CheckedRows : row = CancelledRow(trials[s]) /\ row.status = "cancelled"
  BY <1>4, <1>5, CancelledRowIsRow
<1>7. CommitTrial(r, RowsAfter(r, NewRow(r, row)))
  BY <1>3, <1>6 DEF CommitCancelledTrial, CancelledOne
<1>8. /\ trials'[s] = row
      /\ \A t \in Slots \ {s} : trials'[t] = trials[t] /\ events'[t] = events[t]
      /\ \A i \in DOMAIN events'[s] : events'[s][i] = Author(r)
      /\ Author(r) \in Authors /\ ~seen'[r].open /\ files' = files
  BY <1>1, <1>7, TrialCommitted
<1>9. ASSUME NEW t \in Slots PROVE Evidence(t)'
  <2>1. CASE t = s
    <3>1. PICK a \in Authors : a = Author(r)
      BY <1>8
    <3>2. /\ Ended(t)' /\ trials'[t].status # "completed" /\ artifacts'[t] = Nobody
          /\ \A i \in DOMAIN events'[t] : events'[t][i] = a
      BY <1>1, <1>3, <1>6, <1>8, <2>1, <3>1 DEF Ended, TerminalTrialStatuses
    <3>3. QED
      BY <3>2, EvidenceOfOne
  <2>2. CASE t # s
    BY <1>1, <1>8, <2>2, EvidenceStays DEF Turn
  <2>3. QED
    BY <2>1, <2>2
<1>10. \A t \in Slots : trials'[t].status # "absent"
  BY <1>1, <1>6, <1>8 DEF Turn, OfRun, ListKept
<1>11. ListKept(r)' /\ Counted(r)' /\ Backed(r)'
  BY <1>2, <1>10 DEF ListKept, Counted, Backed
<1>12. QED
  BY <1>8, <1>9, <1>11 DEF OfRun, ReadIsCurrent

\* create_artifact_if_absent, of a trial that has no artifact row.
LEMMA ArtifactsOfOne ==
  ASSUME NEW r \in Runs, Turn(r), slot[r] \in Slots, artifacts[slot[r]] = Nobody,
         artifacts' = ArtifactsAfter(r)
  PROVE  /\ \A t \in Slots \ {slot[r]} : artifacts'[t] = artifacts[t]
         /\ artifacts'[slot[r]] \in {Nobody, Author(r)}
         /\ work[r].artifacts => artifacts'[slot[r]] = Author(r)
BY DEF ArtifactsAfter, Turn, TypeOK

\* _commit_success
LEMMA SuccessTurn ==
  ASSUME NEW r \in Runs, Turn(r), CommitSuccess(r)
  PROVE  OfRun(r)' /\ \A t \in Slots : Evidence(t)'
<1> USE DEF OfASlot, OnTheList, OfOneTrial
<1>1. PICK s \in Slots : s = slot[r]
  BY DEF CommitSuccess, InTransaction, Turn, InHand
<1>2. /\ at[r] = "completing" /\ seen[r].open /\ at[r] \in OfOneTrial
      /\ failedCount' = failedCount /\ artifacts' = ArtifactsAfter(r)
  BY DEF CommitSuccess, InTransaction
<1>3. at'[r] = "next" /\ slot'[r] = s + 1
  BY <1>1 DEF CommitSuccess, Goes, Turn, TypeOK
<1>4. /\ ~Ended(s) /\ trials[s].status # "absent" /\ artifacts[s] = Nobody
  BY <1>1, <1>2, CurrentTrial
<1>5. PICK row \in CheckedRows : /\ row = TrialRow("completed", "task", "set", Author(r))
                                 /\ row.status = "completed" /\ row.by = Author(r)
  BY ResultRows DEF Turn
<1>6. CommitTrial(r, RowsAfter(r, NewRow(r, row)))
  BY <1>5 DEF CommitSuccess, Completed
<1>7. /\ trials' = [trials EXCEPT ![s] = row] /\ trials'[s] = row
      /\ \A t \in Slots \ {s} : trials'[t] = trials[t] /\ events'[t] = events[t]
      /\ Len(events'[s]) = work[r].events
      /\ \A i \in DOMAIN events'[s] : events'[s][i] = Author(r)
      /\ Author(r) \in Authors /\ ~seen'[r].open /\ files' = files
  BY <1>1, <1>2, <1>6, TrialCommitted
<1>8. /\ files[s] = Author(r) /\ work[r].events = NumEvents /\ work[r].artifacts
  BY <1>1, <1>2 DEF Turn, OfRun, Backed
<1>9. /\ \A t \in Slots \ {s} : artifacts'[t] = artifacts[t]
      /\ artifacts'[s] = Author(r)
  BY <1>1, <1>2, <1>4, <1>8, ArtifactsOfOne
<1>10. ASSUME NEW t \in Slots PROVE Evidence(t)'
  <2>1. CASE t = s
    <3>1. PICK a \in Authors : a = Author(r)
      BY <1>7
    <3>2. /\ Ended(t)' /\ artifacts'[t] = a /\ trials'[t].by = a /\ files'[t] = a
          /\ Len(events'[t]) = NumEvents
          /\ \A i \in DOMAIN events'[t] : events'[t][i] = a
      BY <1>5, <1>7, <1>8, <1>9, <2>1, <3>1 DEF Ended, TerminalTrialStatuses
    <3>3. QED
      BY <3>2, EvidenceOfOne
  <2>2. CASE t # s
    BY <1>7, <1>9, <2>2, EvidenceStays DEF Turn
  <2>3. QED
    BY <2>1, <2>2
<1>11. \A t \in Slots : /\ trials'[t].status # "absent"
                        /\ t < s + 1 => Ended(t)'
  <2>1. \A t \in Slots : trials[t].status # "absent" /\ (t < s => Ended(t))
    BY <1>1, <1>2 DEF Turn, OfRun, ListKept
  <2>2. \A t \in Slots : t < s + 1 => t < s \/ t = s
    BY SlotsAssumption DEF Slots
  <2>3. QED
    BY <1>5, <1>7, <2>1, <2>2 DEF Ended, TerminalTrialStatuses
<1>12. FailedSlots' = FailedSlots
  <2>1. trials[s].status # "failed" /\ trials'[s].status # "failed"
    BY <1>4, <1>5, <1>7 DEF Ended, TerminalTrialStatuses
  <2>2. QED
    BY <1>7, <2>1 DEF FailedSlots
<1>13. Counted(r)'
  BY <1>2, <1>3, <1>12 DEF Turn, OfRun, Counted
<1>14. ListKept(r)' /\ Backed(r)'
  BY <1>3, <1>11 DEF ListKept, Backed
<1>15. QED
  BY <1>7, <1>10, <1>13, <1>14 DEF OfRun, ReadIsCurrent

\* _fail_trial
LEMMA FailureTurn ==
  ASSUME NEW r \in Runs, Turn(r), CommitFailure(r)
  PROVE  OfRun(r)' /\ \A t \in Slots : Evidence(t)'
<1> USE DEF OfASlot, OnTheList, OfOneTrial
<1>1. PICK s \in Slots : s = slot[r]
  BY DEF CommitFailure, InTransaction, Turn, InHand
<1>2. /\ at[r] = "failing" /\ seen[r].open /\ at[r] \in OfOneTrial
      /\ artifacts' = ArtifactsAfter(r)
  BY DEF CommitFailure, InTransaction
<1>3. /\ at'[r] = IF failedCount[r] + 1 >= ErrorBudget THEN "exhausting" ELSE "next"
      /\ slot'[r] = s + 1 /\ failedCount'[r] = failedCount[r] + 1
  BY <1>1 DEF CommitFailure, Goes, Turn, TypeOK
<1>4. /\ ~Ended(s) /\ trials[s].status # "absent" /\ artifacts[s] = Nobody
  BY <1>1, <1>2, CurrentTrial
<1>5. PICK row \in CheckedRows :
        /\ row = TrialRow("failed", "system_error", "null", Author(r))
        /\ row.status = "failed"
  BY ResultRows DEF Turn
<1>6. CommitTrial(r, RowsAfter(r, NewRow(r, row)))
  BY <1>5 DEF CommitFailure, Failed
<1>7. /\ trials' = [trials EXCEPT ![s] = row] /\ trials'[s] = row
      /\ \A t \in Slots \ {s} : trials'[t] = trials[t] /\ events'[t] = events[t]
      /\ \A i \in DOMAIN events'[s] : events'[s][i] = Author(r)
      /\ Author(r) \in Authors /\ ~seen'[r].open /\ files' = files
  BY <1>1, <1>2, <1>6, TrialCommitted
<1>8. /\ \A t \in Slots \ {s} : artifacts'[t] = artifacts[t]
      /\ artifacts'[s] \in {Nobody, Author(r)}
  BY <1>1, <1>2, <1>4, ArtifactsOfOne
<1>9. ASSUME NEW t \in Slots PROVE Evidence(t)'
  <2>1. CASE t = s
    <3>1. PICK a \in Authors : a = Author(r)
      BY <1>7
    <3>2. /\ Ended(t)' /\ trials'[t].status # "completed" /\ artifacts'[t] \in {Nobody, a}
          /\ \A i \in DOMAIN events'[t] : events'[t][i] = a
      BY <1>5, <1>7, <1>8, <2>1, <3>1 DEF Ended, TerminalTrialStatuses
    <3>3. QED
      BY <3>2, EvidenceOfOne
  <2>2. CASE t # s
    BY <1>7, <1>8, <2>2, EvidenceStays DEF Turn
  <2>3. QED
    BY <2>1, <2>2
<1>10. \A t \in Slots : /\ trials'[t].status # "absent"
                        /\ t < s + 1 => Ended(t)'
  <2>1. \A t \in Slots : trials[t].status # "absent" /\ (t < s => Ended(t))
    BY <1>1, <1>2 DEF Turn, OfRun, ListKept
  <2>2. \A t \in Slots : t < s + 1 => t < s \/ t = s
    BY SlotsAssumption DEF Slots
  <2>3. QED
    BY <1>5, <1>7, <2>1, <2>2 DEF Ended, TerminalTrialStatuses
<1>11. Cardinality(FailedSlots') = Cardinality(FailedSlots) + 1
  <2>1. s \notin FailedSlots
    BY <1>4 DEF Ended, TerminalTrialStatuses, FailedSlots
  <2>2. FailedSlots' = FailedSlots \cup {s}
    BY <1>5, <1>7 DEF FailedSlots
  <2>3. QED
    BY <2>1, <2>2, FailedSlotsFinite, FS_AddElement
<1>12. Counted(r)'
  <2>1. failedCount[r] <= Cardinality(FailedSlots)
    BY <1>2 DEF Turn, OfRun, Counted
  <2>2. failedCount[r] \in Nat /\ ErrorBudget \in Nat /\ Cardinality(FailedSlots) \in Nat
    BY FailedSlotsFinite, SlotsAssumption DEF Turn, TypeOK
  <2>3. /\ failedCount'[r] <= Cardinality(FailedSlots')
        /\ at'[r] = "exhausting" => ErrorBudget <= Cardinality(FailedSlots')
    BY <1>3, <1>11, <2>1, <2>2
  <2>4. QED
    BY <2>3 DEF Counted
<1>13. ListKept(r)' /\ Backed(r)'
  BY <1>3, <1>10 DEF ListKept, Backed
<1>14. QED
  BY <1>7, <1>9, <1>12, <1>13 DEF OfRun, ReadIsCurrent

\* mark_trial_cancelled of whatever is open.
LEMMA TableCancelled ==
  ASSUME NEW r \in Runs, Turn(r), trials' = [t \in Slots |-> CancelledRow(trials[t])],
         UNCHANGED <<events, artifacts, files>>, NEW t \in Slots
  PROVE  Evidence(t)' /\ trials'[t].status \notin OpenTrialStatuses
<1>1. trials[t] \in CheckedRows /\ trials'[t] = CancelledRow(trials[t])
  BY DEF Turn, TypeOK, CheckedRows
<1>2. CASE trials[t].status \in OpenTrialStatuses
  <2>1. trials'[t].status = "cancelled"
    BY <1>1, <1>2, CancelledRowIsRow
  <2>2. events'[t] = <<>> /\ artifacts'[t] = Nobody
    BY <1>2 DEF Turn, Evidence, Ended, OpenTrialStatuses, TerminalTrialStatuses
  <2>3. Recorded(t)' = {}
    BY <2>2 DEF Recorded
  <2>4. QED
    BY <2>1, <2>2, <2>3 DEF Evidence, OpenTrialStatuses
<1>3. CASE trials[t].status \notin OpenTrialStatuses
  <2>1. trials'[t] = trials[t]
    BY <1>1, <1>3, CancelledRowIsRow
  <2>2. QED
    BY <1>3, <2>1, EvidenceStays DEF Turn
<1>4. QED
  BY <1>2, <1>3

\* _cancel_open_trials
LEMMA CancelOpenTurn ==
  ASSUME NEW r \in Runs, Turn(r), CommitCancelOpen(r)
  PROVE  OfRun(r)' /\ \A t \in Slots : Evidence(t)'
<1>1. /\ at[r] = "cancelling_open" /\ seen[r].open
      /\ UNCHANGED <<events, artifacts, files>>
  BY DEF CommitCancelOpen, InTransaction
<1>2. at'[r] = "cancelled" /\ ~seen'[r].open
  BY FreshWorker DEF CommitCancelOpen, Goes, Turn, TypeOK
<1>3. trials' = [t \in Slots |-> CancelledRow(trials[t])]
  BY <1>1, CurrentTable DEF CommitCancelOpen
<1>4. \A t \in Slots : Evidence(t)' /\ trials'[t].status \notin OpenTrialStatuses
  BY <1>1, <1>3, TableCancelled
<1>5. QED
  BY <1>2, <1>4 DEF OfRun, ReadIsCurrent, ListKept, Counted, Backed, OfASlot, OnTheList,
                    OfOneTrial

LEMMA EndTurn ==
  ASSUME NEW r \in Runs, Turn(r), EndStep(r)
  PROVE  OfRun(r)' /\ \A t \in Slots : Evidence(t)'
<1>1. \A t \in Slots : Evidence(t)'
  <2>1. CASE UNCHANGED <<tables, files>>
    BY <2>1, EvidenceUnchanged DEF Turn
  <2>2. CASE Release(r) /\ seen[r].cancelling
    <3>1. trials' = [t \in Slots |-> CancelledRow(trials[t])]
      BY <2>2, CurrentTable DEF Release, InTransaction
    <3>2. UNCHANGED <<events, artifacts, files>>
      BY <2>2 DEF Release
    <3>3. QED
      BY <3>1, <3>2, TableCancelled
  <2>3. QED
    BY <2>1, <2>2 DEF EndStep, Complete, Release, DatabaseFails, Crash, tables
<1>2. OfRun(r)'
  <2>1. CASE LetGo(r)
    BY <2>1, LetGoIdle DEF Turn
  <2>2. CASE Goes(r, "releasing") /\ seen' = [seen EXCEPT ![r] = NotSeen]
    <3>1. at'[r] = "releasing" /\ ~seen'[r].open
      BY <2>2, FreshWorker DEF Goes, Turn, TypeOK
    <3>2. QED
      BY <3>1 DEF OfRun, ReadIsCurrent, ListKept, Counted, Backed, OfASlot, OnTheList,
                  OfOneTrial
  <2>3. QED
    BY <2>1, <2>2 DEF EndStep, Complete, Release, DatabaseFails, Crash, Ends
<1>3. QED
  BY <1>1, <1>2

\* Runs that have overlapped have done so for good.
LEMMA StillTakingTurns ==
  ASSUME NEW r \in Runs, StepOf(r), ~overlapped'
  PROVE  ~overlapped
<1>1. CASE RunStep(r)
  <2>1. \/ overlapped' = overlapped
        \/ overlapped' = (overlapped \/ \E o \in Runs \ {r} : at[o] # "none")
    BY <1>1 DEF RunStep, Submit, RequestCancel, Claim, Reclaim, Start
  <2>2. QED
    BY <2>1, ZenonT(30)
<1>2. CASE LoopStep(r) \/ ExecutorStep(r) \/ Read(r) \/ CommitStep(r) \/ EndStep(r)
  <2>1. overlapped' = overlapped
    <3>1. CASE LoopStep(r) \/ ExecutorStep(r) \/ Read(r)
      BY <3>1 DEF LoopStep, Ensure, CountFailed, Skip, Take, Decide, Stop,
                  ExecutorStep, SeeCancelled, Store, Fail, Return, Read
    <3>2. CASE CommitStep(r) \/ EndStep(r)
      BY <3>2 DEF CommitStep, CommitMark, CommitCancelOpen, CommitCancelledTrial,
                  CommitSuccess, CommitFailure, CommitTrial,
                  EndStep, Complete, Release, DatabaseFails, Crash
    <3>3. QED
      BY <1>2, <3>1, <3>2
  <2>2. QED
    BY <2>1, ZenonT(30)
<1>3. QED
  BY <1>1, <1>2 DEF StepOf

\* All but the steps on the run rows are those of a worker with the run in hand.
LEMMA WorkerInHand ==
  ASSUME NEW r \in Runs,
         LoopStep(r) \/ ExecutorStep(r) \/ Read(r) \/ CommitStep(r) \/ EndStep(r)
  PROVE  at[r] # "none"
<1>1. CASE LoopStep(r) \/ ExecutorStep(r) \/ Read(r)
  BY <1>1 DEF LoopStep, Ensure, CountFailed, Skip, Take, Decide, Stop, ExecutorStep,
              SeeCancelled, Store, Fail, Return, Read, Transactions, OfOneTrial, OfAllTrials
<1>2. CASE CommitStep(r) \/ EndStep(r)
  BY <1>2 DEF CommitStep, CommitMark, CommitCancelOpen, CommitCancelledTrial,
              CommitSuccess, CommitFailure, InTransaction,
              EndStep, Complete, Release, DatabaseFails, Crash
<1>3. QED
  BY <1>1, <1>2

LEMMA TurnsKept ==
  ASSUME TypeOK, \A r \in Runs : InHand(r), ~overlapped => TakingTurns, [Next]_vars
  PROVE  ~overlapped' => TakingTurns'
<1> SUFFICES ASSUME ~overlapped' PROVE TakingTurns'
  OBVIOUS
<1>1. CASE UNCHANGED vars
  <2>1. TakingTurns
    BY <1>1, ZenonT(30) DEF vars
  <2>2. /\ UNCHANGED <<attempt, at, slot, failedCount, work, seen>>
        /\ UNCHANGED <<tables, files>>
    BY <1>1 DEF vars, tables
  <2>3. /\ \A r \in Runs : OfRun(r)'
        /\ \A t \in Slots : Evidence(t)'
    BY <2>1, <2>2, OfRunUnchanged, EvidenceUnchanged DEF TakingTurns, OfRun
  <2>4. OneInHand'
    BY <2>1, <2>2 DEF TakingTurns, OneInHand
  <2>5. QED
    BY <2>3, <2>4 DEF TakingTurns, OfRun
<1>2. CASE Next
  <2>1. PICK r \in Runs : StepOf(r)
    BY <1>2, NextIsAStep
  <2>2. ~overlapped
    BY <2>1, StillTakingTurns
  <2>3. TakingTurns
    BY <2>2
  <2>4. Turn(r)
    BY <2>3 DEF Turn, TakingTurns, OfRun
  <2>5. CASE Submit(r) \/ RequestCancel(r) \/ Reclaim(r)
    BY <2>3, <2>5, RequestTurn
  <2>6. CASE Claim(r) \/ Start(r)
    <3>1. OfRun(r)' /\ \A t \in Slots : Evidence(t)'
      BY <2>4, <2>6, ClaimTurn
    <3>2. at[r] # "none" \/ Claim(r)
      BY <2>6 DEF Start
    <3>3. QED
      BY <2>1, <2>3, <3>1, <3>2, OthersIdle
  <2>7. CASE LoopStep(r) \/ ExecutorStep(r) \/ Read(r) \/ CommitStep(r) \/ EndStep(r)
    <3>1. OfRun(r)' /\ \A t \in Slots : Evidence(t)'
      BY <2>4, <2>7, EnsureTurn, LoopTurn, DecideTurn, ExecutorTurn, ReadTurn, MarkTurn,
         CancelTrialTurn, SuccessTurn, FailureTurn, CancelOpenTurn, EndTurn
         DEF LoopStep, ExecutorStep, CommitStep
    <3>2. at[r] # "none"
      BY <2>7, WorkerInHand
    <3>3. QED
      BY <2>1, <2>3, <3>1, <3>2, OthersIdle
  <2>8. QED
    BY <2>1, <2>5, <2>6, <2>7 DEF StepOf, RunStep
<1>3. QED
  BY <1>1, <1>2

LEMMA SlotsInvInductive == SlotsInv /\ [Next]_vars => SlotsInv'
<1>1. ASSUME SlotsInv, [Next]_vars PROVE SlotsInv'
  <2>1. TypeOK /\ (\A r \in Runs : InHand(r)) /\ (~overlapped => TakingTurns)
    BY <1>1 DEF SlotsInv
  <2>2. TypeOK' /\ (\A r \in Runs : InHand(r))'
    BY <1>1, <2>1, TypedKept, InHandKept
  <2>3. ~overlapped' => TakingTurns'
    BY <1>1, <2>1, TurnsKept
  <2>4. QED
    BY <2>2, <2>3 DEF SlotsInv
<1>2. QED
  BY <1>1

LEMMA SlotsInvInitially == Init => SlotsInv
<1> SUFFICES ASSUME Init PROVE TakingTurns
  BY InitTyped DEF SlotsInv
<1>1. \A r \in Runs : at[r] = "none" /\ slot[r] = 1 /\ ~seen[r].open
  BY FreshWorker DEF Init
<1>2. \A t \in Slots : /\ trials[t] = Absent /\ events[t] = <<>> /\ artifacts[t] = Nobody
                       /\ trials[t].status = "absent"
  BY BlankRows DEF Init
<1>3. \A t \in Slots : Evidence(t)
  BY <1>2 DEF Evidence, Recorded, Ended, TerminalTrialStatuses
<1>4. \A r \in Runs : OfRun(r)
  BY <1>1 DEF OfRun, ReadIsCurrent, ListKept, Counted, Backed, OfASlot, OnTheList, OfOneTrial
<1>5. OneInHand
  BY <1>1 DEF OneInHand
<1>6. QED
  BY <1>3, <1>4, <1>5 DEF TakingTurns, OfRun

\* The invariant on which the rest stands: a run in hand is leased, and as long as the runs
\* of the experiment take turns, what _execute_slots and its transactions have read is what
\* is there, the trials before the one in hand have ended, the failures are counted, and
\* what is recorded of a trial is of the attempt that ended it.
THEOREM SlotsInvariant == Spec => []SlotsInv
BY SlotsInvInitially, SlotsInvInductive, PTL DEF Spec

\* What is recorded of a trial, events and artifact rows, is of one attempt, and a
\* completed trial has all of it and its files by the attempt that completed it, as long as
\* the runs take turns: neither the skipped ordinals of _insert_events nor the kinds that
\* create_artifact_if_absent finds taken ever mix two attempts.
THEOREM EvidenceIsOneAttempts == Spec => []OneAttemptsEvidence
<1>1. SlotsInv => OneAttemptsEvidence
  <2> SUFFICES ASSUME SlotsInv, ~overlapped, NEW t \in Slots
               PROVE  /\ Cardinality(Recorded(t)) <= 1
                      /\ trials[t].status = "completed" =>
                           /\ Recorded(t) = {trials[t].by} /\ files[t] = trials[t].by
                           /\ Len(events[t]) = NumEvents /\ artifacts[t] # Nobody
    BY DEF OneAttemptsEvidence, Recorded
  <2>1. Evidence(t)
    BY DEF SlotsInv, TakingTurns
  <2>2. Cardinality(Recorded(t)) <= 1
    <3>1. \A a, b \in Recorded(t) : a = b
      BY <2>1 DEF Evidence
    <3>2. CASE Recorded(t) = {}
      BY <3>2, FS_EmptySet
    <3>3. CASE Recorded(t) # {}
      <4>1. PICK a : Recorded(t) = {a}
        BY <3>1, <3>3
      <4>2. QED
        BY <4>1, FS_Singleton
    <3>4. QED
      BY <3>2, <3>3
  <2>3. QED
    BY <2>1, <2>2 DEF Evidence
<1>2. QED
  BY <1>1, SlotsInvariant, PTL

\* How a worker's step can change the status of the run it has in hand.
RunEnds(r) ==
  \/ run'[r] \in {"cancelling", "running", "queued"}
  \/ run'[r] = "completed" /\ (\A t \in Slots : Ended(t)') /\ FailedSlots' = {}
  \/ run'[r] = "completed_with_errors" /\ (\A t \in Slots : Ended(t)') /\ FailedSlots' # {}
  \/ run'[r] = "failed" /\ ErrorBudget <= Cardinality(FailedSlots')
  \/ run'[r] = "cancelled" /\ \A t \in Slots : trials'[t].status \notin OpenTrialStatuses

LEMMA CompleteEnds ==
  ASSUME NEW r \in Runs, Turn(r), Complete(r)
  PROVE  RunEnds(r)
<1>1. /\ UNCHANGED tables /\ \A t \in Slots : Ended(t)' <=> Ended(t)
      /\ FailedSlots' = FailedSlots /\ trials' = trials
  BY DEF Complete, tables, Ended, FailedSlots
<1>2. CASE at[r] = "cancelled"
  <2>1. run'[r] = "cancelled"
    BY <1>2 DEF Complete, Ends, InTransaction, Turn, TypeOK
  <2>2. QED
    BY <1>1, <1>2, <2>1 DEF RunEnds, Turn, OfRun, ListKept
<1>3. CASE at[r] = "exhausting"
  <2>1. run'[r] = "failed"
    BY <1>3 DEF Complete, Ends, InTransaction, Turn, TypeOK
  <2>2. QED
    BY <1>1, <1>3, <2>1 DEF RunEnds, Turn, OfRun, Counted
<1>4. CASE at[r] = "finishing"
  <2>1. /\ run'[r] = IF \E t \in Slots : seen[r].trials[t].status = "failed"
                     THEN "completed_with_errors" ELSE "completed"
        /\ seen[r].open
    BY <1>4 DEF Complete, Ends, InTransaction, Turn, TypeOK
  <2>2. seen[r].trials = trials
    BY <1>4, <2>1 DEF Turn, OfRun, ReadIsCurrent
  <2>3. \A t \in Slots : Ended(t)
    <3>1. slot[r] > NumSlots /\ \A t \in Slots : t < slot[r] => Ended(t)
      BY <1>4 DEF Turn, OfRun, ListKept, OnTheList
    <3>2. \A t \in Slots : t < slot[r]
      BY <3>1, SlotsAssumption DEF Turn, TypeOK, Slots
    <3>3. QED
      BY <3>1, <3>2
  <2>4. (\E t \in Slots : trials[t].status = "failed") <=> FailedSlots # {}
    BY DEF FailedSlots
  <2>5. QED
    BY <1>1, <2>1, <2>2, <2>3, <2>4 DEF RunEnds
<1>5. QED
  BY <1>2, <1>3, <1>4 DEF Complete, InTransaction

LEMMA StepEnds ==
  ASSUME NEW r \in Runs, Turn(r), StepOf(r), at[r] # "none", run'[r] # run[r]
  PROVE  RunEnds(r)
<1>1. CASE RunStep(r)
  BY <1>1 DEF RunStep, Submit, RequestCancel, Claim, Reclaim, Start, Turn, TypeOK, InHand,
              LeasedRunStatuses, RunEnds
<1>2. CASE Complete(r)
  BY <1>2, CompleteEnds
<1>3. CASE Release(r)
  <2>1. CASE seen[r].cancelling
    <3>1. trials' = [t \in Slots |-> CancelledRow(trials[t])]
      BY <1>3, <2>1, CurrentTable DEF Release, InTransaction
    <3>2. \A t \in Slots : trials'[t].status \notin OpenTrialStatuses
      BY <1>3, <3>1, TableCancelled DEF Release
    <3>3. run'[r] = "cancelled"
      BY <1>3, <2>1 DEF Release, Ends, Turn, TypeOK
    <3>4. QED
      BY <3>2, <3>3 DEF RunEnds
  <2>2. CASE ~seen[r].cancelling
    BY <1>3, <2>2 DEF Release, Ends, Turn, TypeOK, RunEnds
  <2>3. QED
    BY <2>1, <2>2
<1>4. CASE LoopStep(r) \/ ExecutorStep(r) \/ Read(r)
  BY <1>4 DEF LoopStep, Ensure, CountFailed, Skip, Take, Decide, Stop, runVars,
              ExecutorStep, SeeCancelled, Store, Fail, Return, Read
<1>5. CASE CommitStep(r)
  BY <1>5 DEF CommitStep, CommitMark, CommitCancelOpen, CommitCancelledTrial,
              CommitSuccess, CommitFailure, CommitTrial, runVars
<1>6. CASE DatabaseFails(r) \/ Crash(r)
  BY <1>6 DEF DatabaseFails, Crash, runVars
<1>7. QED
  BY <1>1, <1>2, <1>3, <1>4, <1>5, <1>6 DEF StepOf, EndStep

\* The status that the worker in hand gives a run when it ends it (_complete_run,
\* _complete_from_trials, _release_lease) is true of the trials, as long as the runs take
\* turns: nothing is left open by a run that is completed or cancelled, errors are reported
\* if and only if there are any, and a run fails for its budget only with that many failures.
THEOREM EndsAreTrue == Spec => EndsTruthfully
<1> DEFINE failed == {t \in Slots : trials'[t].status = "failed"}
           open   == {t \in Slots : trials'[t].status \notin TerminalTrialStatuses}
<1>1. ASSUME SlotsInv, [Next]_vars, NEW r \in Runs,
             at[r] # "none", run'[r] # run[r], ~overlapped'
      PROVE  CASE run'[r] = "completed"             -> open = {} /\ failed = {}
               [] run'[r] = "completed_with_errors" -> open = {} /\ failed # {}
               [] run'[r] = "failed"                -> Cardinality(failed) >= ErrorBudget
               [] run'[r] = "cancelled" ->
                    \A t \in Slots : trials'[t].status \notin OpenTrialStatuses
               [] OTHER -> TRUE
  <2>1. PICK o \in Runs : StepOf(o)
    BY <1>1, NextIsAStep DEF vars
  <2>2. o = r
    BY <1>1, <2>1, OthersAlone DEF SlotsInv
  <2>3. Turn(r)
    BY <1>1, <2>1, StillTakingTurns DEF SlotsInv, Turn, TakingTurns, OfRun
  <2>4. RunEnds(r)
    BY <1>1, <2>1, <2>2, <2>3, StepEnds
  <2>5. /\ failed = FailedSlots'
        /\ (\A t \in Slots : Ended(t)') => open = {}
    BY DEF FailedSlots, Ended
  <2>6. Cardinality(FailedSlots') \in Nat
    <3>1. IsFiniteSet(1..NumSlots) /\ FailedSlots' \in SUBSET (1..NumSlots)
      BY FS_Interval, SlotsAssumption DEF FailedSlots, Slots
    <3>2. QED
      BY <3>1, FS_Subset, FS_CardinalityType
  <2>7. ErrorBudget \in Nat
    BY SlotsAssumption
  <2> HIDE DEF open, failed
  <2>8. CASE run'[r] \in {"cancelling", "running", "queued"}
    BY <2>8
  <2>9. CASE run'[r] = "completed" /\ (\A t \in Slots : Ended(t)') /\ FailedSlots' = {}
    BY <2>5, <2>9
  <2>10. CASE run'[r] = "completed_with_errors" /\ (\A t \in Slots : Ended(t)')
                /\ FailedSlots' # {}
    BY <2>5, <2>10
  <2>11. CASE run'[r] = "failed" /\ ErrorBudget <= Cardinality(FailedSlots')
    <3>1. Cardinality(failed) >= ErrorBudget
      BY <2>5, <2>6, <2>7, <2>11
    <3>2. QED
      BY <2>11, <3>1
  <2>12. CASE run'[r] = "cancelled" /\ \A t \in Slots : trials'[t].status \notin OpenTrialStatuses
    BY <2>12
  <2>13. QED
    BY <2>4, <2>8, <2>9, <2>10, <2>11, <2>12 DEF RunEnds
<1>2. SlotsInv /\ [Next]_vars =>
        [\A r \in Runs :
           at[r] # "none" /\ run'[r] # run[r] /\ ~overlapped' =>
             CASE run'[r] = "completed"             -> open = {} /\ failed = {}
               [] run'[r] = "completed_with_errors" -> open = {} /\ failed # {}
               [] run'[r] = "failed"                -> Cardinality(failed) >= ErrorBudget
               [] run'[r] = "cancelled" ->
                    \A t \in Slots : trials'[t].status \notin OpenTrialStatuses
               [] OTHER -> TRUE]_vars
  BY <1>1
<1>3. QED
  BY <1>2, SlotsInvariant, PTL DEF Spec, EndsTruthfully

\* While the runs take turns, a worker that cancels, completes or gives back its run
\* strands no trial: a trial is open with no run left to come to it only when a waiting run
\* is cancelled, when the attempts of one are used up, or when one is out of its budget.
THEOREM WorkersStrandNothing == Spec => StrandedOnlyUnworked
<1>1. ASSUME SlotsInv, [Next]_vars, ~Stranded, Stranded', ~overlapped'
      PROVE  \E r \in Runs : \/ run'[r] = "cancelled" /\ run[r] = "queued"
                             \/ run'[r] = "failed" /\ run[r] # "failed"
  <2> DEFINE Coming == LeasedRunStatuses \cup {"queued"}
  <2>1. PICK r \in Runs : StepOf(r)
    BY <1>1, NextIsAStep DEF vars, Stranded
  <2>2. Turn(r)
    BY <1>1, <2>1, StillTakingTurns DEF SlotsInv, Turn, TakingTurns, OfRun
  <2>3. /\ \A o \in Runs \ {r} : run[o] \notin Coming
        /\ run'[r] \notin Coming
        /\ \E t \in Slots : trials'[t].status \in OpenTrialStatuses
    BY <1>1, <2>1, OthersAlone DEF SlotsInv, Stranded
  <2>4. CASE at[r] # "none"
    <3>1. run[r] \in LeasedRunStatuses
      BY <2>2, <2>4 DEF Turn, InHand
    <3>2. RunEnds(r)
      BY <2>1, <2>2, <2>3, <2>4, <3>1, StepEnds
    <3>3. ~(\A t \in Slots : Ended(t)')
      BY <2>3 DEF Ended, OpenTrialStatuses, TerminalTrialStatuses
    <3>4. run'[r] = "failed"
      BY <2>3, <3>2, <3>3 DEF RunEnds, LeasedRunStatuses
    <3>5. QED
      BY <3>1, <3>4 DEF LeasedRunStatuses
  <2>5. CASE at[r] = "none"
    <3>1. RunStep(r)
      BY <2>1, <2>5, WorkerInHand DEF StepOf
    <3>2. trials' = trials
      BY <3>1 DEF RunStep, Submit, RequestCancel, Claim, Reclaim, Start, tables
    <3>3. run[r] \in Coming
      BY <1>1, <2>3, <3>2 DEF Stranded
    <3>4. QED
      BY <2>2, <2>3, <3>1, <3>3 DEF RunStep, Submit, RequestCancel, Claim, Reclaim, Start,
         Turn, TypeOK, LeasedRunStatuses
  <2>6. QED
    BY <2>4, <2>5
<1>2. SlotsInv /\ [Next]_vars =>
        [(~Stranded /\ Stranded' /\ ~overlapped') =>
           \E r \in Runs : \/ run'[r] = "cancelled" /\ run[r] = "queued"
                           \/ run'[r] = "failed" /\ run[r] # "failed"]_vars
  BY <1>1
<1>3. QED
  BY <1>2, SlotsInvariant, PTL DEF Spec, StrandedOnlyUnworked
=============================================================================
