------------------------------- MODULE Review -------------------------------
(***************************************************************************)
(* Looking at the trials of an experiment while they are being created: a  *)
(* client lists them page by page (api pagination.py, services/trials.py,  *)
(* repositories/trials.py), and reviewers annotate them, each with the     *)
(* revision that they saw last (services/annotations.py).                  *)
(*                                                                         *)
(* A request to the API is one transaction.  FastAPI runs what follows the *)
(* yield of get_db_session, the commit, when it has sent the response: a   *)
(* reviewer may be told of a success that the commit then fails to make.   *)
(***************************************************************************)
EXTENDS Catalogue

CONSTANTS Reviewers,
          MaxRevision,         \* bound on the revisions of an annotation
          MaxAnnotated,        \* bound on the trials that are annotated
          MaxPage              \* the largest page size

ASSUME ReviewAssumption == MaxRevision \in Nat \ {0} /\ MaxPage \in Nat

VARIABLES notes,               \* the committed annotations, one of a trial at most
          view,                \* what each reviewer saw last, of which trial
          write,               \* the write of each reviewer that waits for its commit
          listing              \* the client's listing

vars == <<catalogue, notes, view, write, listing>>

-----------------------------------------------------------------------------
(* Annotations.                                                            *)

\* What a note says stands for who wrote it.
NoNote == [revision |-> 0, by |-> "nobody"]

\* hollow: it was told by a response whose commit failed.
NoView == [trial |-> <<>>, note |-> NoNote, hollow |-> FALSE]

\* A write also keeps, for the properties, the view that it was made from.
NoWrite == [trial |-> <<>>, note |-> NoNote, from |-> NoView]

Trials == DOMAIN ids

\* The statement is done and the response is sent.
Told(r, t, note) ==
  /\ view' = [view EXCEPT ![r] = [trial |-> t, note |-> note, hollow |-> FALSE]]
  /\ write' = [write EXCEPT ![r] = [trial |-> t, note |-> note, from |-> view[r]]]

Idle(r) == write[r] = NoWrite

\* Mutant of RowLocked: the SELECT is not FOR UPDATE.
RowNotLocked(t) == FALSE

RowLocked(t) == \E r \in Reviewers : write[r].trial = t

Annotated == (DOMAIN notes \cup {write[r].trial : r \in Reviewers}) \ {<<>>}

\* Bounds: one annotation of a trial, of few trials, and of the only experiment.
MayAnnotate(t) ==
  /\ t \notin Annotated /\ Cardinality(Annotated) < MaxAnnotated
  /\ \A e \in Experiments \ {t[1]} : policies[e] = <<>>

CreateAnnotation(r, t) ==
  /\ Idle(r) /\ MayAnnotate(t)
  /\ Told(r, t, [revision |-> 1, by |-> r])
  /\ UNCHANGED <<catalogue, notes, listing>>

\* A reviewer reads the annotations of a trial.
Look(r, t) ==
  /\ Idle(r) /\ t \in DOMAIN notes
  /\ view' = [view EXCEPT ![r] = [trial |-> t, note |-> notes[t], hollow |-> FALSE]]
  /\ UNCHANGED <<catalogue, notes, write, listing>>

\* The revision that was seen must be the row's; if it is not, nothing changes.
UpdateAnnotation(r) ==
  LET t == view[r].trial
  IN  /\ Idle(r) /\ t \in DOMAIN notes /\ ~RowLocked(t)
      /\ view[r].note.revision = notes[t].revision
      /\ notes[t].revision < MaxRevision
      /\ Told(r, t, [revision |-> notes[t].revision + 1, by |-> r])
      /\ UNCHANGED <<catalogue, notes, listing>>

CommitAnnotation(r) ==
  /\ ~Idle(r)
  /\ notes' = [t \in DOMAIN notes \cup {write[r].trial} |->
                 IF t = write[r].trial THEN write[r].note ELSE notes[t]]
  /\ write' = [write EXCEPT ![r] = NoWrite]
  /\ UNCHANGED <<catalogue, view, listing>>

FailToCommit(r) ==
  /\ ~Idle(r)
  /\ view' = [view EXCEPT ![r] = [trial |-> @.trial, note |-> @.note, hollow |-> TRUE]]
  /\ write' = [write EXCEPT ![r] = NoWrite]
  /\ UNCHANGED <<catalogue, notes, listing>>

-----------------------------------------------------------------------------
(* The listing of trials.                                                  *)

\* The filter "reviewed"; the others compare columns that never change, and the
\* outcome, which changes once.
Reviewed == {"any", "yes", "no"}

Passes(t, reviewed) ==
  CASE reviewed = "yes" -> t \in DOMAIN notes
    [] reviewed = "no"  -> t \notin DOMAIN notes
    [] OTHER            -> TRUE

NoList == [at |-> "none", reviewed |-> "any", due |-> {}, shown |-> <<>>, cursor |-> 0]

\* due keeps, for the properties, the trials that a listing finds at its beginning.
StartListing ==
  /\ listing.at = "none"
  /\ \E reviewed \in Reviewed :
       listing' = [at |-> "asking", reviewed |-> reviewed, shown |-> <<>>, cursor |-> 0,
                   due |-> {ids[t] : t \in {t \in Trials : Passes(t, reviewed)}}]
  /\ UNCHANGED <<catalogue, notes, view, write>>

After(id, cursor) == id > cursor

Ascending(S) ==
  CHOOSE found \in [1..Cardinality(S) -> S] :
    \A i, j \in 1..Cardinality(S) : i < j => found[i] < found[j]

Found(reviewed, cursor) ==
  {ids[t] : t \in {t \in Trials : Passes(t, reviewed) /\ After(ids[t], cursor)}}

\* The ids of one page and one more, if there is one.
PageOf(reviewed, cursor, size) ==
  LET found == Ascending(Found(reviewed, cursor))
  IN  SubSeq(found, 1, Lesser(Len(found), size + 1))

\* Mutant of NextCursor: the cursor is the row that did not fit the page.
CursorPastPage(page, size) == IF Len(page) > size THEN page[size + 1] ELSE 0

NextCursor(page, size) == IF Len(page) > size THEN page[size] ELSE 0

NextPage ==
  /\ listing.at = "asking"
  /\ \E size \in 1..MaxPage :
       LET page == PageOf(listing.reviewed, listing.cursor, size)
           next == NextCursor(page, size)
       IN  listing' = [at |-> IF next = 0 THEN "ended" ELSE "asking",
                       reviewed |-> listing.reviewed, due |-> listing.due,
                       shown |-> listing.shown \o SubSeq(page, 1, Lesser(Len(page), size)),
                       cursor |-> next]
  /\ UNCHANGED <<catalogue, notes, view, write>>

-----------------------------------------------------------------------------

Init ==
  /\ CatalogueInit
  /\ notes = [t \in {} |-> NoNote]
  /\ view = [r \in Reviewers |-> NoView]
  /\ write = [r \in Reviewers |-> NoWrite]
  /\ listing = NoList

Reviewing ==
  \E r \in Reviewers :
    \/ \E t \in Trials : Look(r, t) \/ CreateAnnotation(r, t)
    \/ UpdateAnnotation(r)
    \/ CommitAnnotation(r)
    \/ FailToCommit(r)

Next ==
  \/ /\ CatalogueNext /\ UNCHANGED <<notes, view, write, listing>>
     /\ Annotated # {} => UNCHANGED policies                          \* bound
  \/ Reviewing
  \/ StartListing \/ NextPage

Spec == Init /\ [][Next]_vars

-----------------------------------------------------------------------------
(* Properties.                                                             *)

Ids == 1..IdOf([time |-> MaxTime, counter |-> MaxCounter], MaxRandom)

\* Types; and no two trials share an id, whether they are committed or not
\* (ids.py, repositories/trials.py).
TypeOK ==
  /\ IsInjective(scenarios) /\ \A e \in Experiments : IsInjective(policies[e])
  /\ IsInjective(ids) /\ Range(ids) \subseteq Ids
  /\ \A w \in Workers :
       /\ Range(tx[w].new) \subseteq Ids
       /\ DOMAIN tx[w].new \cap DOMAIN ids = {}
  /\ \A t \in DOMAIN notes : t \in Trials /\ notes[t].revision \in 1..MaxRevision
  /\ Range(listing.shown) \subseteq Range(ids)

\* Every scenario that the generator makes stands wholly in the pickup region and on
\* no bin, whatever its shape and yaw (generator.py _placement_is_valid).
PlacedClear ==
  draft.place # NoPlace => StandsClear(draft.place.obj, draft.place.at, draft.place.yaw)

\* However a client writes down a drawn scenario, all of it in one column or spread over
\* the columns under any of the accepted names, the executor reads back that scenario,
\* rounded as it was, and makes a body of its size.  A row that lacks a key of the pose
\* is refused or tells the same (trial_execution.py _scenario_from_context).
RunsAsPosted ==
  draft.place # NoPlace =>
    \A height \in Heights, mass \in Masses, noise \in {0, 1}, bin \in Bins :
      LET s == Drawn(draft.place, height, mass, noise, bin)
      IN  /\ s # Refused /\ Made(SpawnCall(s.object)) = s.object.half
          /\ \A row \in RowsOf(s) :
               /\ ScenarioFromContext(row) = s
               /\ \A key \in DOMAIN row.initial_pose :
                    ScenarioFromContext([row EXCEPT !.initial_pose = Without(@, key)])
                      \in {s, Refused}

\* A policy runs with the very configuration that its stored checksum digests, and one
\* that its implementation allows, or not at all, whatever its stored configuration says;
\* one that is stored whole, or is the default, is not refused.  It speaks of no state,
\* and is evaluated in the first ones (trial_execution.py resolve_policy_config).
ConfigAsStored ==
  draft = NoDraft /\ scenarios = <<>> =>
    \A name \in Implementations \cup {"unknown"}, checksum \in Configs :
      \A json \in Payloads \cup {ConfigPayload(checksum)} :
        LET config == PolicyConfigOf(name, json, checksum)
        IN  /\ config # Refused =>
                 config = checksum /\ name # "unknown" /\ Allows(name, checksum)
            /\ /\ name # "unknown" /\ Allows(name, checksum)
               /\ json = ConfigPayload(checksum) \/ DefaultConfig(name) = checksum
               => config = checksum

\* All policies of an experiment are given the same scenarios: others see a trial for
\* every policy and scenario, or none, however many workers create them at once and
\* whichever fails (worker.py _ensure_trials).
AllOrNoTrials ==
  \A e \in Experiments :
    {t \in Trials : t[1] = e} \in {{}, {e} \X Range(policies[e]) \X Range(scenarios)}

\* The trials that one worker creates have ids in the order of their creation, even
\* if its clock stands still or goes back (ids.py).
CreatedInOrder ==
  \A w \in Workers, e \in Experiments : \A i, j \in DOMAIN TrialsOf(e) :
    i < j /\ {TrialsOf(e)[i], TrialsOf(e)[j]} \subseteq DOMAIN tx[w].new
      => tx[w].new[TrialsOf(e)[i]] < tx[w].new[TrialsOf(e)[j]]

\* A listing shows no trial twice, and when it ends it has shown every trial that was
\* there when it began and that passed its filter from then to the end, whatever was
\* inserted or annotated in between (services/trials.py list_trials).
NothingMissed ==
  /\ \A i, j \in DOMAIN listing.shown : i < j => listing.shown[i] < listing.shown[j]
  /\ listing.at = "ended" =>
       {id \in listing.due : \E t \in Trials : ids[t] = id /\ Passes(t, listing.reviewed)}
         \subseteq Range(listing.shown)

\* Nobody overwrites what they have not seen: a committed update replaces the very
\* note that its author was shown, unless the author was told of a write of their own
\* that was not committed (annotations.py update_annotation).
SeenBeforeOverwritten ==
  [][\A t \in DOMAIN notes : notes'[t] # notes[t] =>
       \E r \in Reviewers :
         /\ write[r].trial = t /\ write'[r] = NoWrite
         /\ write[r].from.note = notes[t] \/ write[r].from.hollow]_vars
=============================================================================
