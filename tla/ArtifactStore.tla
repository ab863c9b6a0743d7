---------------------------- MODULE ArtifactStore ----------------------------
(***************************************************************************)
(* The artifact directory as a file system shows it: write as its test for *)
(* the key, temporary file, fsync and rename; quarantine as its test, its  *)
(* rename and its reason file; get_artifact_content as the row, verify and *)
(* open; reconcile_artifacts as one look at each key and then one at the   *)
(* directory.  The parties step in any order and a writer may crash or     *)
(* fail anywhere.                                                          *)
(*                                                                         *)
(* A writer is an attempt that stores one artifact under a key, and then   *)
(* commits the row that describes it or fails and moves it to quarantine.  *)
(* Bytes are who wrote them and how many; two contents of one writer do    *)
(* not occur.  Symbolic links and foreign keys, which the path guards      *)
(* refuse, are left out.                                                   *)
(***************************************************************************)
EXTENDS Naturals, FiniteSets

CONSTANTS Writers, Keys, Readers,
          MaxBytes,        \* the size limit of a kind
          Nothing, Trash   \* no content, and the writer of what the disk has damaged

ASSUME StoreAssumption ==
  /\ MaxBytes \in Nat \ {0}
  /\ Trash \notin Writers
  /\ Nothing \notin [by : Writers \cup {Trash}, size : Nat]

VARIABLES dir,         \* the file at each key
          temp,        \* the temporary file of each writer
          moved,       \* the files in quarantine, <<key, content>>
          reasons,     \* those whose reason file is there
          rows,        \* the artifact row of each key: sha256 and byte_size
          writer,      \* of each writer its place, key and payload
          reader,      \* of each reader its place, key, row and what it serves
          audit,       \* the reconciliation: place, rows expected, keys done, findings
          touched,     \* the keys that changed since the reconciliation began
          raced,       \* two writers have been writing one key at once
          damages      \* files damaged by the disk

stores == <<dir, temp, moved, reasons>>
vars == <<dir, temp, moved, reasons, rows, writer, reader, audit, touched, raced, damages>>

Contents == [by : Writers \cup {Trash}, size : 1..MaxBytes]
Payload(w) == [by |-> w, size |-> writer[w].size]

Init ==
  /\ dir = [k \in Keys |-> Nothing]
  /\ temp = [w \in Writers |-> "none"]
  /\ moved = {}
  /\ reasons = {}
  /\ rows = [k \in Keys |-> Nothing]
  /\ writer = [w \in Writers |-> [at |-> "idle", key |-> Nothing, size |-> 0]]
  /\ reader = [p \in Readers |-> [at |-> "idle", key |-> Nothing, row |-> Nothing, got |-> Nothing]]
  /\ audit = [at |-> "idle", expected |-> {}, row |-> rows, found |-> {}]
  /\ touched = {}
  /\ raced = FALSE
  /\ damages = 0

WriterAt(w, place) == writer' = [writer EXCEPT ![w].at = place]
ReaderAt(p, place) == reader' = [reader EXCEPT ![p].at = place]

-----------------------------------------------------------------------------
(* write                                                                   *)

\* Between its test for the key and its rename, or its end.
Writing == {"clear", "partial", "whole"}

\* Mutant of Test: the key is not tested.
TestSize(w) ==
  \E k \in Keys, n \in 0..(MaxBytes + 1) :
    /\ writer[w].at = "idle"
    /\ writer' = [writer EXCEPT ![w] =
         [at |-> IF n \in 1..MaxBytes THEN "clear" ELSE "refused", key |-> k,
          size |-> IF n \in 1..MaxBytes THEN n ELSE 0]]
    /\ raced' = (raced \/ \E o \in Writers : writer[o].key = k /\ writer[o].at \in Writing)
    /\ UNCHANGED <<stores, rows, reader, audit, touched, damages>>

\* A payload of a bad size, or a key that is there, is refused.
Test(w) ==
  \E k \in Keys, n \in 0..(MaxBytes + 1) :
    LET ok == n \in 1..MaxBytes /\ dir[k] = Nothing
    IN  /\ writer[w].at = "idle"
        /\ writer' = [writer EXCEPT ![w] =
             [at |-> IF ok THEN "clear" ELSE "refused", key |-> k, size |-> IF ok THEN n ELSE 0]]
        /\ raced' = (raced \/ (ok /\ \E o \in Writers : /\ writer[o].key = k
                                                        /\ writer[o].at \in Writing))
        /\ UNCHANGED <<stores, rows, reader, audit, touched, damages>>

OpenTemp(w) ==
  /\ writer[w].at = "clear"
  /\ temp' = [temp EXCEPT ![w] = "partial"]
  /\ WriterAt(w, "partial")
  /\ UNCHANGED <<dir, moved, reasons, rows, reader, audit, touched, raced, damages>>

\* Written, flushed, synced, and of the right size.
FillTemp(w) ==
  /\ writer[w].at = "partial"
  /\ temp' = [temp EXCEPT ![w] = "whole"]
  /\ WriterAt(w, "whole")
  /\ UNCHANGED <<dir, moved, reasons, rows, reader, audit, touched, raced, damages>>

\* os.replace, whatever is at the key by now.
Rename(w) ==
  /\ writer[w].at = "whole"
  /\ temp' = [temp EXCEPT ![w] = "none"]
  /\ dir' = [dir EXCEPT ![writer[w].key] = Payload(w)]
  /\ touched' = touched \cup {writer[w].key}
  /\ WriterAt(w, "stored")
  /\ UNCHANGED <<moved, reasons, rows, reader, audit, raced, damages>>

\* An OSError, or a wrong size: the temporary file is removed.
WriteFails(w) ==
  /\ writer[w].at \in Writing
  /\ temp' = [temp EXCEPT ![w] = "none"]
  /\ WriterAt(w, "refused")
  /\ UNCHANGED <<dir, moved, reasons, rows, reader, audit, touched, raced, damages>>

-----------------------------------------------------------------------------
(* What becomes of what was stored.                                        *)

\* The row of the artifact, unless there is one.
Commit(w) ==
  /\ writer[w].at = "stored"
  /\ rows' = [rows EXCEPT ![writer[w].key] = IF @ = Nothing THEN Payload(w) ELSE @]
  /\ touched' = touched \cup {writer[w].key}
  /\ WriterAt(w, "done")
  /\ UNCHANGED <<stores, reader, audit, raced, damages>>

\* quarantine finds the file; or nothing, which the worker only logs.
Withdraw(w) ==
  /\ writer[w].at = "stored"
  /\ WriterAt(w, IF dir[writer[w].key] # Nothing THEN "withdrawing" ELSE "done")
  /\ UNCHANGED <<stores, rows, reader, audit, touched, raced, damages>>

\* os.replace moves what is at the key by now, and fails when nothing is.
Move(w) ==
  LET k == writer[w].key
  IN  /\ writer[w].at = "withdrawing"
      /\ IF dir[k] # Nothing
         THEN /\ moved' = moved \cup {<<k, dir[k]>>}
              /\ dir' = [dir EXCEPT ![k] = Nothing]
              /\ touched' = touched \cup {k}
              /\ WriterAt(w, "moved")
         ELSE WriterAt(w, "done") /\ UNCHANGED <<moved, dir, touched>>
      /\ UNCHANGED <<temp, reasons, rows, reader, audit, raced, damages>>

GiveReason(w) ==
  /\ writer[w].at = "moved"
  /\ reasons' = reasons \cup {writer[w].key}
  /\ WriterAt(w, "done")
  /\ UNCHANGED <<dir, temp, moved, rows, reader, audit, touched, raced, damages>>

\* The process dies; a temporary file stays for good.
Crash(w) ==
  /\ writer[w].at \notin {"idle", "refused", "done", "dead"}
  /\ WriterAt(w, "dead")
  /\ UNCHANGED <<stores, rows, reader, audit, touched, raced, damages>>

\* The disk damages a file, once.
Damage(k) ==
  /\ damages = 0 /\ dir[k] # Nothing
  /\ damages' = 1
  /\ \E n \in 1..MaxBytes : dir' = [dir EXCEPT ![k] = [by |-> Trash, size |-> n]]
  /\ touched' = touched \cup {k}
  /\ UNCHANGED <<temp, moved, reasons, rows, writer, reader, audit, raced>>

-----------------------------------------------------------------------------
(* verify, and get_artifact_content, which verifies a file and then opens  *)
(* and reads it: a handle keeps the file that it was opened on.            *)

Verified(k, row) ==
  CASE dir[k] = Nothing                     -> "missing"
    [] dir[k] # Nothing /\ dir[k].by # row.by -> "corrupt"
    [] OTHER                                -> "intact"

\* The digest of the file is the row's, and so is its size.
Intact(k, row) == Verified(k, row) = "intact" /\ dir[k].size = row.size

Request(p) ==
  \E k \in Keys :
    /\ reader[p].at = "idle" /\ rows[k] # Nothing
    /\ reader' = [reader EXCEPT ![p] =
                    [at |-> "verifying", key |-> k, row |-> rows[k], got |-> Nothing]]
    /\ UNCHANGED <<stores, rows, writer, audit, touched, raced, damages>>

Verify(p) ==
  /\ reader[p].at = "verifying"
  /\ ReaderAt(p, CASE Verified(reader[p].key, reader[p].row) = "intact"  -> "verified"
                   [] Verified(reader[p].key, reader[p].row) = "missing" -> "not_found"
                   [] Verified(reader[p].key, reader[p].row) = "corrupt" -> "integrity")
  /\ UNCHANGED <<stores, rows, writer, audit, touched, raced, damages>>

\* Mutant of Serve: the size of what is read is not compared.
ServeAny(p) ==
  /\ reader[p].at = "verified"
  /\ IF dir[reader[p].key] = Nothing
     THEN ReaderAt(p, "vanished")
     ELSE reader' = [reader EXCEPT ![p] =
            [at |-> "served", key |-> @.key, row |-> @.row, got |-> dir[@.key]]]
  /\ UNCHANGED <<stores, rows, writer, audit, touched, raced, damages>>

Serve(p) ==
  LET file == dir[reader[p].key]
  IN  /\ reader[p].at = "verified"
      /\ CASE file = Nothing -> ReaderAt(p, "vanished")
           [] file # Nothing /\ file.size # reader[p].row.size -> ReaderAt(p, "integrity")
           [] OTHER -> reader' = [reader EXCEPT ![p] =
                         [at |-> "served", key |-> @.key, row |-> @.row, got |-> file]]
      /\ UNCHANGED <<stores, rows, writer, audit, touched, raced, damages>>

-----------------------------------------------------------------------------
(* reconcile_artifacts, on the rows as they were when it was called.       *)

Reconcile ==
  /\ audit.at = "idle"
  /\ audit' = [at |-> "rows", expected |-> {k \in Keys : rows[k] # Nothing}, row |-> rows,
               found |-> {}]
  /\ touched' = {}
  /\ UNCHANGED <<stores, rows, writer, reader, raced, damages>>

Checked == {f[2] : f \in audit.found}

ReconcileRow(k) ==
  /\ audit.at = "rows" /\ k \in audit.expected \ Checked
  /\ audit' = [audit EXCEPT !.found = @ \cup
       {<<CASE Verified(k, audit.row[k]) = "missing" -> "missing"
            [] Intact(k, audit.row[k])              -> "healthy"
            [] OTHER                                -> "corrupt", k>>}]
  /\ UNCHANGED <<stores, rows, writer, reader, touched, raced, damages>>

\* Mutant of ReconcileListing: what is not healthy is an orphan.
ReconcileUnhealthy ==
  /\ audit.at = "rows" /\ audit.expected \subseteq Checked
  /\ audit' = [audit EXCEPT !.at = "done", !.found = @ \cup
       {<<"orphaned", k>> : k \in {i \in Keys : dir[i] # Nothing /\ <<"healthy", i>> \notin @}}]
  /\ UNCHANGED <<stores, rows, writer, reader, touched, raced, damages>>

\* list_storage_keys, which sees no temporary file and nothing in quarantine.
ReconcileListing ==
  /\ audit.at = "rows" /\ audit.expected \subseteq Checked
  /\ audit' = [audit EXCEPT !.at = "done", !.found = @ \cup
       {<<"orphaned", k>> : k \in {i \in Keys : dir[i] # Nothing} \ audit.expected}]
  /\ UNCHANGED <<stores, rows, writer, reader, touched, raced, damages>>

Next ==
  \/ \E w \in Writers : \/ Test(w) \/ OpenTemp(w) \/ FillTemp(w) \/ Rename(w) \/ WriteFails(w)
                        \/ Commit(w) \/ Withdraw(w) \/ Move(w) \/ GiveReason(w) \/ Crash(w)
  \/ \E p \in Readers : Request(p) \/ Verify(p) \/ Serve(p)
  \/ \E k \in Keys : Damage(k) \/ ReconcileRow(k)
  \/ Reconcile \/ ReconcileListing

Spec == Init /\ [][Next]_vars

-----------------------------------------------------------------------------
(* Properties.                                                             *)

Metadata == [by : Writers, size : 1..MaxBytes] \cup {Nothing}

\* Every variable has a value of its kind.
TypeOK ==
  /\ dir \in [Keys -> Contents \cup {Nothing}]
  /\ temp \in [Writers -> {"none", "partial", "whole"}]
  /\ moved \subseteq Keys \X Contents
  /\ reasons \subseteq Keys
  /\ rows \in [Keys -> Metadata]
  /\ writer \in [Writers ->
       [at : Writing \cup {"idle", "refused", "stored", "withdrawing", "moved", "done", "dead"},
        key : Keys \cup {Nothing}, size : 0..MaxBytes]]
  /\ reader \in [Readers ->
       [at : {"idle", "verifying", "verified", "served", "not_found", "integrity", "vanished"},
        key : Keys \cup {Nothing}, row : Metadata, got : Contents \cup {Nothing}]]
  /\ audit \in [at : {"idle", "rows", "done"}, expected : SUBSET Keys, row : [Keys -> Metadata],
                found : SUBSET ({"healthy", "missing", "corrupt", "orphaned"} \X Keys)]
  /\ touched \subseteq Keys /\ raced \in BOOLEAN /\ damages \in 0..1

\* An artifact row describes the bytes at its key, which is what makes verify succeed,
\* unless the disk damaged them or two writers raced between the test and the rename.
RowsDescribeFiles ==
  ~raced /\ damages = 0 => \A k \in Keys : rows[k] # Nothing => dir[k] = rows[k]

\* A reader is served the bytes of its row, and is never left without the file that
\* it has just verified, with the same two exceptions; whatever happens between verify and
\* open, it is never served bytes of another length than the response announces.
ServedAsVerified ==
  \A p \in Readers :
    /\ reader[p].at = "served" => reader[p].got.size = reader[p].row.size
    /\ ~raced /\ damages = 0 =>
         /\ reader[p].at = "served" => reader[p].got = reader[p].row
         /\ reader[p].at # "vanished"

\* The report of a reconciliation is right about every key that was left alone while it
\* worked: one finding, and the right one; and nothing about a key with no row and no file.
ReportIsRight ==
  audit.at = "done" =>
    \A k \in Keys \ touched :
      {f[1] : f \in {g \in audit.found : g[2] = k}} =
        CASE rows[k] = Nothing /\ dir[k] = Nothing -> {}
          [] rows[k] = Nothing /\ dir[k] # Nothing -> {"orphaned"}
          [] rows[k] # Nothing /\ dir[k] = Nothing -> {"missing"}
          [] OTHER -> IF dir[k] = rows[k] THEN {"healthy"} ELSE {"corrupt"}

\* Nothing that was stored whole gets lost: the bytes of a writer that has stored are at
\* the key or in quarantine, unless the disk damaged them or the writers raced.
NothingLost ==
  ~raced /\ damages = 0 =>
    \A w \in Writers :
      writer[w].at \in {"stored", "withdrawing", "moved", "done"} /\ writer[w].size # 0 =>
        dir[writer[w].key] = Payload(w) \/ <<writer[w].key, Payload(w)>> \in moved

\* Seen from outside, with the steps of write and quarantine hidden, the directory is a
\* write-once store.
Promise == INSTANCE WriteOnceStore WITH
  content <- dir, trusted <- ~raced /\ damages = 0
ImplementsWriteOnce == Promise!Spec
=============================================================================
