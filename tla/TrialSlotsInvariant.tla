------------------------ MODULE TrialSlotsInvariant ------------------------
(***************************************************************************)
(* The inductive invariant of TrialSlots.  A worker has a run in hand only *)
(* while the run is leased, whatever the other runs do; and as long as the *)
(* runs of the experiment take turns (~overlapped), the trials agree with  *)
(* where the one worker is in its list.                                    *)
(***************************************************************************)
EXTENDS TrialSlots

\* Where the worker has a trial in hand, and where it still goes through its list.
OfASlot == {"deciding", "executing", "stored"} \cup OfOneTrial
OnTheList == OfASlot \cup {"next", "finishing"}

Ended(t) == trials[t].status \in TerminalTrialStatuses
FailedSlots == {t \in Slots : trials[t].status = "failed"}

\* The run in hand is leased, and the trial in hand is one of its list.
InHand(r) ==
  /\ at[r] # "none" => run[r] \in LeasedRunStatuses
  /\ at[r] \in OfASlot => slot[r] \in Slots

OneInHand == \A r, o \in Runs : at[r] # "none" /\ at[o] # "none" => r = o

\* What an open transaction has read is what is there.
ReadIsCurrent(r) ==
  seen[r].open =>
    /\ at[r] \in Transactions
    /\ at[r] \in OfOneTrial =>
         /\ seen[r].trials = [t \in Slots |-> IF t = slot[r] THEN trials[t] ELSE Absent]
         /\ seen[r].used = Len(events[slot[r]])
    /\ at[r] \in {"cancelling_open", "finishing"} => seen[r].trials = trials
    /\ at[r] = "releasing" =>
         seen[r].trials = IF seen[r].cancelling THEN trials ELSE [t \in Slots |-> Absent]

\* The list is begun at its first slot; the trial in hand has not ended, and those before
\* it have.
ListKept(r) ==
  /\ at[r] \in {"none", "starting", "ensuring", "counting"} => slot[r] = 1
  /\ at[r] \in OfASlot => ~Ended(slot[r])
  /\ at[r] \in OnTheList => \A t \in Slots : t < slot[r] => Ended(t)
  /\ at[r] = "finishing" => slot[r] > NumSlots
  /\ at[r] \in OnTheList \cup {"cancelling_open", "counting"} =>
       \A t \in Slots : trials[t].status # "absent"
  /\ at[r] = "cancelled" => \A t \in Slots : trials[t].status \notin OpenTrialStatuses

\* The worker has not counted more failures than there are.
Counted(r) ==
  /\ at[r] \in OnTheList => failedCount[r] <= Cardinality(FailedSlots)
  /\ at[r] = "exhausting" => ErrorBudget <= Cardinality(FailedSlots)

\* A result stands for the files that its attempt has stored.
Backed(r) ==
  /\ at[r] \in {"stored", "completing"} => files[slot[r]] = Author(r)
  /\ at[r] = "completing" => work[r] = [events |-> NumEvents, artifacts |-> TRUE]

\* Whose events and artifact rows trial t has.
Recorded(t) == {events[t][i] : i \in DOMAIN events[t]} \cup ({artifacts[t]} \ {Nobody})

\* Nothing is recorded of a trial before it ends, and then by one attempt.
Evidence(t) ==
  /\ trials[t].status = "absent" => trials[t] = Absent
  /\ ~Ended(t) => events[t] = <<>> /\ artifacts[t] = Nobody
  /\ \A a, b \in Recorded(t) : a = b
  /\ trials[t].status = "completed" =>
       /\ Recorded(t) = {trials[t].by} /\ files[t] = trials[t].by
       /\ Len(events[t]) = NumEvents /\ artifacts[t] # Nobody

TakingTurns ==
  /\ OneInHand
  /\ \A r \in Runs : ReadIsCurrent(r) /\ ListKept(r) /\ Counted(r) /\ Backed(r)
  /\ \A t \in Slots : Evidence(t)

SlotsInv == TypeOK /\ (\A r \in Runs : InHand(r)) /\ (~overlapped => TakingTurns)
=============================================================================
