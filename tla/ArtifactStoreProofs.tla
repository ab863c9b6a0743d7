------------------------- MODULE ArtifactStoreProofs -------------------------
(***************************************************************************)
(* Theorems about ArtifactStore, for any writers, keys and readers: as     *)
(* long as writers take turns on a key and the disk is sound, rows         *)
(* describe files, nothing that was stored is lost, and readers get what   *)
(* they verified; and the store implements WriteOnceStore.  What a         *)
(* reconciliation reports is right about every key that was left alone.    *)
(***************************************************************************)
EXTENDS ArtifactStore, TLAPS

Sound == ~raced /\ damages = 0

\* A key has one writer between test and rename, and no file meanwhile.
OneWriting ==
  \A w \in Writers : writer[w].at \in Writing =>
    /\ writer[w].key \in Keys /\ writer[w].size \in 1..MaxBytes
    /\ Sound => dir[writer[w].key] = Nothing
    /\ Sound => \A o \in Writers : writer[o].at \in Writing /\ writer[o].key = writer[w].key => o = w

\* What a writer has stored, and neither committed nor moved, is at its key.
StoredStands ==
  \A w \in Writers : writer[w].at \in {"stored", "withdrawing"} =>
    /\ writer[w].key \in Keys /\ writer[w].size \in 1..MaxBytes
    /\ Sound => dir[writer[w].key] = Payload(w)

\* A row is of a writer that is done, and that will move nothing any more.
RowsOfDone ==
  \A k \in Keys : rows[k] # Nothing =>
    /\ rows[k] \in [by : Writers, size : 1..MaxBytes]
    /\ writer[rows[k].by].at = "done"

\* Where a writer still has something to move it has a key.
MovedHasKey == \A w \in Writers : writer[w].at = "moved" => writer[w].key \in Keys

StoreInv ==
  TypeOK /\ OneWriting /\ StoredStands /\ RowsOfDone /\ MovedHasKey
    /\ RowsDescribeFiles /\ NothingLost

-----------------------------------------------------------------------------

LEMMA NothingIsNoContent ==
  /\ Nothing \notin Contents
  /\ Nothing \notin [by : Writers, size : 1..MaxBytes]
BY StoreAssumption DEF Contents

\* What a writer in mid-write would store is a content, and nobody else's.
LEMMA PayloadIsContent ==
  ASSUME NEW w \in Writers, writer[w].size \in 1..MaxBytes
  PROVE  /\ Payload(w) \in Contents /\ Payload(w) # Nothing
         /\ Payload(w) \in [by : Writers, size : 1..MaxBytes]
         /\ Payload(w).by = w
BY NothingIsNoContent DEF Payload, Contents

LEMMA InitHolds == Init => StoreInv
<1> SUFFICES ASSUME Init PROVE StoreInv  OBVIOUS
<1>1. \A w \in Writers : writer[w].at = "idle"  BY DEF Init
<1>2. TypeOK
  <2>1. Nothing \in Metadata /\ rows \in [Keys -> Metadata]  BY DEF Init, Metadata
  <2>2. audit = [at |-> "idle", expected |-> {}, row |-> rows, found |-> {}]  BY DEF Init
  <2>3. audit \in [at : {"idle", "rows", "done"}, expected : SUBSET Keys, row : [Keys -> Metadata],
                   found : SUBSET ({"healthy", "missing", "corrupt", "orphaned"} \X Keys)]
    BY <2>1, <2>2
  <2>4. /\ dir \in [Keys -> Contents \cup {Nothing}]
        /\ temp \in [Writers -> {"none", "partial", "whole"}]
    BY DEF Init
  <2>5. writer \in [Writers ->
          [at : Writing \cup {"idle", "refused", "stored", "withdrawing", "moved", "done", "dead"},
           key : Keys \cup {Nothing}, size : 0..MaxBytes]]
    BY StoreAssumption DEF Init
  <2>6. reader \in [Readers ->
          [at : {"idle", "verifying", "verified", "served", "not_found", "integrity", "vanished"},
           key : Keys \cup {Nothing}, row : Metadata, got : Contents \cup {Nothing}]]
    BY <2>1 DEF Init
  <2>7. touched \subseteq Keys /\ damages \in 0..1 /\ reasons \subseteq Keys
    BY DEF Init
  <2>8. raced \in BOOLEAN  BY DEF Init
  <2>9. moved \subseteq Keys \X Contents  BY DEF Init
  <2> QED  BY <2>1, <2>3, <2>4, <2>5, <2>6, <2>7, <2>8, <2>9 DEF TypeOK
<1>3. OneWriting /\ StoredStands /\ MovedHasKey /\ NothingLost
  BY <1>1 DEF OneWriting, StoredStands, MovedHasKey, NothingLost, Writing
<1>4. RowsOfDone /\ RowsDescribeFiles
  BY DEF Init, RowsOfDone, RowsDescribeFiles
<1> QED  BY <1>2, <1>3, <1>4 DEF StoreInv

-----------------------------------------------------------------------------
(* write                                                                   *)

LEMMA TestKeeps ==
  ASSUME StoreInv, NEW w \in Writers, Test(w)
  PROVE  StoreInv'
<1> USE DEF StoreInv
<1>1. PICK k \in Keys, n \in 0..(MaxBytes + 1) :
        LET ok == n \in 1..MaxBytes /\ dir[k] = Nothing
        IN  /\ writer[w].at = "idle"
            /\ writer' = [writer EXCEPT ![w] =
                 [at |-> IF ok THEN "clear" ELSE "refused", key |-> k,
                  size |-> IF ok THEN n ELSE 0]]
            /\ raced' = (raced \/ (ok /\ \E o \in Writers : /\ writer[o].key = k
                                                            /\ writer[o].at \in Writing))
            /\ UNCHANGED <<stores, rows, reader, audit, touched, damages>>
  BY DEF Test
<1> DEFINE ok == n \in 1..MaxBytes /\ dir[k] = Nothing
<1>2. /\ writer' = [writer EXCEPT ![w] =
             [at |-> IF ok THEN "clear" ELSE "refused", key |-> k, size |-> IF ok THEN n ELSE 0]]
      /\ raced' = (raced \/ (ok /\ \E o \in Writers : writer[o].key = k /\ writer[o].at \in Writing))
      /\ UNCHANGED <<dir, temp, moved, reasons, rows, reader, audit, touched, damages>>
  BY <1>1 DEF stores
<1>3. /\ writer'[w].at = (IF ok THEN "clear" ELSE "refused")
      /\ writer'[w].key = k /\ writer'[w].size = (IF ok THEN n ELSE 0)
      /\ \A v \in Writers \ {w} : writer'[v] = writer[v]
  BY <1>2 DEF TypeOK
<1>4. Sound' => Sound  BY <1>2 DEF Sound
<1>5. TypeOK'
  <2>1. writer' \in [Writers ->
          [at : Writing \cup {"idle", "refused", "stored", "withdrawing", "moved", "done", "dead"},
           key : Keys \cup {Nothing}, size : 0..MaxBytes]]
    BY <1>2, StoreAssumption DEF TypeOK, Writing
  <2>2. raced' \in BOOLEAN  BY <1>2 DEF TypeOK
  <2> QED  BY <2>1, <2>2, <1>2 DEF TypeOK
<1>6. OneWriting'
  <2> SUFFICES ASSUME NEW v \in Writers, (writer[v].at \in Writing)'
               PROVE  /\ writer'[v].key \in Keys /\ writer'[v].size \in 1..MaxBytes
                      /\ Sound' => dir'[writer'[v].key] = Nothing
                      /\ Sound' => \A o \in Writers :
                           writer'[o].at \in Writing /\ writer'[o].key = writer'[v].key => o = v
    BY DEF OneWriting
  <2>1. CASE v = w
    <3>1. ok  BY <2>1, <1>3 DEF Writing
    <3>2. Sound' => \A o \in Writers : ~(writer[o].key = k /\ writer[o].at \in Writing)
      BY <3>1, <1>2 DEF Sound
    <3> QED  BY <2>1, <3>1, <3>2, <1>2, <1>3
  <2>2. CASE v # w
    <3>1. writer'[v] = writer[v] /\ writer[v].at \in Writing  BY <2>2, <1>3
    <3>2. ASSUME Sound', writer'[w].at \in Writing, writer'[w].key = writer'[v].key PROVE FALSE
      <4>1. ok /\ k = writer[v].key  BY <3>1, <3>2, <1>3 DEF Writing
      <4>2. raced'  BY <4>1, <3>1, <1>2
      <4> QED  BY <4>2, <3>2 DEF Sound
    <3> QED  BY <3>1, <3>2, <1>2, <1>3, <1>4 DEF OneWriting
  <2> QED  BY <2>1, <2>2
<1>7. StoredStands' /\ MovedHasKey'
  BY <1>2, <1>3, <1>4 DEF StoredStands, MovedHasKey, Payload
<1>8. RowsOfDone'  BY <1>1, <1>2, <1>3 DEF RowsOfDone
<1>9. RowsDescribeFiles'  BY <1>2, <1>4 DEF RowsDescribeFiles, Sound
<1>10. NothingLost'  BY <1>2, <1>3, <1>4 DEF NothingLost, Sound, Payload
<1> QED  BY <1>5, <1>6, <1>7, <1>8, <1>9, <1>10

Stages == Writing \cup {"idle", "refused", "stored", "withdrawing", "moved", "done", "dead"}

\* A writer goes on, and neither keys nor rows change: open, fill, fail, withdraw, crash,
\* give a reason.
LEMMA PlaceKeeps ==
  ASSUME StoreInv, NEW w \in Writers, NEW place \in Stages,
         WriterAt(w, place), UNCHANGED <<dir, moved, rows, raced, damages>>,
         writer[w].at # "done",
         place \in Writing => writer[w].at \in Writing,
         place \in {"stored", "withdrawing"} => writer[w].at \in {"stored", "withdrawing"},
         place = "moved" => writer[w].at = "moved",
         place = "done" => writer[w].at \in {"stored", "withdrawing", "moved"}
  PROVE  /\ writer' \in [Writers -> [at : Stages, key : Keys \cup {Nothing}, size : 0..MaxBytes]]
         /\ OneWriting' /\ StoredStands' /\ RowsOfDone' /\ MovedHasKey'
         /\ RowsDescribeFiles' /\ NothingLost'
<1> USE DEF StoreInv
<1>1. /\ writer'[w].at = place
      /\ writer'[w].key = writer[w].key /\ writer'[w].size = writer[w].size
      /\ \A v \in Writers \ {w} : writer'[v] = writer[v]
  BY DEF WriterAt, TypeOK
<1>2. writer' \in [Writers -> [at : Stages, key : Keys \cup {Nothing}, size : 0..MaxBytes]]
  BY DEF WriterAt, TypeOK, Stages
<1>3. Sound' <=> Sound  BY DEF Sound
<1>4. \A v \in Writers : /\ writer'[v].key = writer[v].key /\ writer'[v].size = writer[v].size
                         /\ Payload(v)' = Payload(v)
                         /\ writer'[v].at \in Writing => writer[v].at \in Writing
  BY <1>1 DEF Payload
<1>5. OneWriting'  BY <1>3, <1>4 DEF OneWriting
<1>6. StoredStands'  BY <1>1, <1>3, <1>4 DEF StoredStands
<1>7. RowsOfDone'
  BY <1>1 DEF RowsOfDone
<1>8. MovedHasKey'  BY <1>1 DEF MovedHasKey
<1>9. RowsDescribeFiles'  BY DEF RowsDescribeFiles
<1>10. NothingLost'
  BY <1>1, <1>3, <1>4 DEF NothingLost, Sound
<1> QED  BY <1>2, <1>5, <1>6, <1>7, <1>8, <1>9, <1>10

LEMMA OpenTempKeeps ==
  ASSUME StoreInv, NEW w \in Writers, OpenTemp(w)
  PROVE  StoreInv'
<1>1. /\ WriterAt(w, "partial") /\ writer[w].at = "clear"
      /\ temp' = [temp EXCEPT ![w] = "partial"]
      /\ UNCHANGED <<dir, moved, reasons, rows, reader, audit, touched, raced, damages>>
  BY DEF OpenTemp
<1>2. /\ writer' \in [Writers -> [at : Stages, key : Keys \cup {Nothing}, size : 0..MaxBytes]]
      /\ OneWriting' /\ StoredStands' /\ RowsOfDone' /\ MovedHasKey'
      /\ RowsDescribeFiles' /\ NothingLost'
  <2> "partial" \in Stages /\ writer[w].at \in Writing /\ writer[w].at # "done"
    BY <1>1 DEF Stages, Writing
  <2> QED  BY <1>1, PlaceKeeps
<1>3. TypeOK'  BY <1>1, <1>2 DEF StoreInv, TypeOK, Stages
<1> QED  BY <1>2, <1>3 DEF StoreInv

LEMMA FillTempKeeps ==
  ASSUME StoreInv, NEW w \in Writers, FillTemp(w)
  PROVE  StoreInv'
<1>1. /\ WriterAt(w, "whole") /\ writer[w].at = "partial"
      /\ temp' = [temp EXCEPT ![w] = "whole"]
      /\ UNCHANGED <<dir, moved, reasons, rows, reader, audit, touched, raced, damages>>
  BY DEF FillTemp
<1>2. /\ writer' \in [Writers -> [at : Stages, key : Keys \cup {Nothing}, size : 0..MaxBytes]]
      /\ OneWriting' /\ StoredStands' /\ RowsOfDone' /\ MovedHasKey'
      /\ RowsDescribeFiles' /\ NothingLost'
  <2> "whole" \in Stages /\ writer[w].at \in Writing /\ writer[w].at # "done"
    BY <1>1 DEF Stages, Writing
  <2> QED  BY <1>1, PlaceKeeps
<1>3. TypeOK'  BY <1>1, <1>2 DEF StoreInv, TypeOK, Stages
<1> QED  BY <1>2, <1>3 DEF StoreInv

LEMMA WriteFailsKeeps ==
  ASSUME StoreInv, NEW w \in Writers, WriteFails(w)
  PROVE  StoreInv'
<1>1. /\ WriterAt(w, "refused") /\ writer[w].at \in Writing
      /\ temp' = [temp EXCEPT ![w] = "none"]
      /\ UNCHANGED <<dir, moved, reasons, rows, reader, audit, touched, raced, damages>>
  BY DEF WriteFails
<1>2. /\ writer' \in [Writers -> [at : Stages, key : Keys \cup {Nothing}, size : 0..MaxBytes]]
      /\ OneWriting' /\ StoredStands' /\ RowsOfDone' /\ MovedHasKey'
      /\ RowsDescribeFiles' /\ NothingLost'
  <2> "refused" \in Stages /\ writer[w].at # "done"
    BY <1>1 DEF Stages, Writing
  <2> QED  BY <1>1, PlaceKeeps DEF Writing
<1>3. TypeOK'  BY <1>1, <1>2 DEF StoreInv, TypeOK, Stages
<1> QED  BY <1>2, <1>3 DEF StoreInv

\* The one step that puts a file at a key.
LEMMA RenameKeeps ==
  ASSUME StoreInv, NEW w \in Writers, Rename(w)
  PROVE  StoreInv' /\ writer[w].key \in Keys /\ Payload(w) \in Contents
         /\ (Sound => dir[writer[w].key] = Nothing)
<1> USE DEF StoreInv
<1> DEFINE k == writer[w].key
<1>1. /\ writer[w].at = "whole"
      /\ temp' = [temp EXCEPT ![w] = "none"]
      /\ dir' = [dir EXCEPT ![k] = Payload(w)]
      /\ touched' = touched \cup {k}
      /\ writer' = [writer EXCEPT ![w].at = "stored"]
      /\ UNCHANGED <<moved, reasons, rows, reader, audit, raced, damages>>
  BY DEF Rename, WriterAt
<1>2. k \in Keys /\ writer[w].size \in 1..MaxBytes /\ writer[w].at \in Writing
  BY <1>1 DEF OneWriting, Writing
<1>3. /\ Payload(w) \in Contents /\ Payload(w) # Nothing
      /\ Payload(w) \in [by : Writers, size : 1..MaxBytes] /\ Payload(w).by = w
  BY <1>2, PayloadIsContent
<1>4. /\ writer'[w].at = "stored" /\ \A v \in Writers \ {w} : writer'[v] = writer[v]
      /\ \A v \in Writers : writer'[v].key = writer[v].key /\ writer'[v].size = writer[v].size
      /\ \A v \in Writers : Payload(v)' = Payload(v)
  BY <1>1 DEF TypeOK, Payload
<1>5. dir'[k] = Payload(w) /\ \A j \in Keys \ {k} : dir'[j] = dir[j]
  BY <1>1, <1>2 DEF TypeOK
<1>6. Sound' <=> Sound  BY <1>1 DEF Sound
<1>7. Sound => dir[k] = Nothing  BY <1>2 DEF OneWriting
<1>8. TypeOK'
  <2>1. writer' \in [Writers ->
          [at : Writing \cup {"idle", "refused", "stored", "withdrawing", "moved", "done", "dead"},
           key : Keys \cup {Nothing}, size : 0..MaxBytes]]
    BY <1>1 DEF TypeOK
  <2>2. dir' \in [Keys -> Contents \cup {Nothing}] /\ touched' \subseteq Keys
    BY <1>1, <1>2, <1>3 DEF TypeOK
  <2> QED  BY <2>1, <2>2, <1>1 DEF TypeOK
<1>9. OneWriting'
  <2> SUFFICES ASSUME NEW v \in Writers, writer'[v].at \in Writing
               PROVE  /\ writer'[v].key \in Keys /\ writer'[v].size \in 1..MaxBytes
                      /\ Sound' => dir'[writer'[v].key] = Nothing
                      /\ Sound' => \A o \in Writers :
                           writer'[o].at \in Writing /\ writer'[o].key = writer'[v].key => o = v
    BY DEF OneWriting
  <2>1. v # w  BY <1>4 DEF Writing
  <2>2. writer'[v] = writer[v] /\ writer[v].at \in Writing  BY <2>1, <1>4
  <2>3. Sound => writer[v].key # k  BY <2>1, <2>2, <1>2 DEF OneWriting
  <2>4. \A o \in Writers : writer'[o].at \in Writing => o # w /\ writer[o].at \in Writing
    BY <1>4 DEF Writing
  <2> QED  BY <2>2, <2>3, <2>4, <1>4, <1>5, <1>6 DEF OneWriting
<1>10. StoredStands'
  <2> SUFFICES ASSUME NEW v \in Writers, writer'[v].at \in {"stored", "withdrawing"}
               PROVE  /\ writer'[v].key \in Keys /\ writer'[v].size \in 1..MaxBytes
                      /\ Sound' => dir'[writer'[v].key] = Payload(v)'
    BY DEF StoredStands
  <2>1. CASE v = w  BY <2>1, <1>2, <1>4, <1>5
  <2>2. CASE v # w
    <3>1. /\ writer[v].at \in {"stored", "withdrawing"} /\ writer[v].key \in Keys
          /\ writer[v].size \in 1..MaxBytes
          /\ Sound => dir[writer[v].key] = Payload(v)
      BY <2>2, <1>4 DEF StoredStands
    <3>2. Sound => writer[v].key # k
      BY <3>1, <1>7, PayloadIsContent
    <3> QED  BY <3>1, <3>2, <1>4, <1>5, <1>6
  <2> QED  BY <2>1, <2>2
<1>11. RowsOfDone'  BY <1>1, <1>4 DEF RowsOfDone
<1>12. MovedHasKey'  BY <1>4 DEF MovedHasKey
<1>13. RowsDescribeFiles'
  BY <1>1, <1>5, <1>7, NothingIsNoContent DEF RowsDescribeFiles, Sound
<1>14. NothingLost'
  <2> SUFFICES ASSUME Sound', NEW v \in Writers,
                      writer'[v].at \in {"stored", "withdrawing", "moved", "done"},
                      writer'[v].size # 0
               PROVE  dir'[writer'[v].key] = Payload(v)' \/ <<writer'[v].key, Payload(v)'>> \in moved'
    BY DEF NothingLost, Sound
  <2>1. CASE v = w  BY <2>1, <1>2, <1>4, <1>5
  <2>2. CASE v # w
    <3>1. dir[writer[v].key] = Payload(v) \/ <<writer[v].key, Payload(v)>> \in moved
      BY <2>2, <1>4, <1>6 DEF NothingLost, Sound
    <3>2. writer[v].size \in 1..MaxBytes  BY <1>4, StoreAssumption DEF TypeOK
    <3>3. CASE writer[v].key = k
      <4>1. dir[k] # Payload(v)  BY <3>2, <1>6, <1>7, PayloadIsContent
      <4> QED  BY <4>1, <3>1, <3>3, <1>1, <1>4
    <3>4. CASE writer[v].key # k
      <4>1. dir'[writer[v].key] = dir[writer[v].key]
        BY <3>4, <1>1
      <4> QED  BY <4>1, <3>1, <1>1, <1>4
    <3> QED  BY <3>3, <3>4
  <2> QED  BY <2>1, <2>2
<1> QED  BY <1>2, <1>3, <1>7, <1>8, <1>9, <1>10, <1>11, <1>12, <1>13, <1>14

-----------------------------------------------------------------------------
(* What becomes of what was stored.                                        *)

\* The one step that gives a key its row; the file is there, and stays the writer's.
LEMMA CommitKeeps ==
  ASSUME StoreInv, NEW w \in Writers, Commit(w)
  PROVE  StoreInv'
<1> USE DEF StoreInv
<1> DEFINE k == writer[w].key
<1>1. /\ writer[w].at = "stored"
      /\ rows' = [rows EXCEPT ![k] = IF rows[k] = Nothing THEN Payload(w) ELSE rows[k]]
      /\ touched' = touched \cup {k}
      /\ writer' = [writer EXCEPT ![w].at = "done"]
      /\ UNCHANGED <<dir, temp, moved, reasons, reader, audit, raced, damages>>
  BY DEF Commit, WriterAt, stores
<1>2. /\ k \in Keys /\ writer[w].size \in 1..MaxBytes
      /\ Sound => dir[k] = Payload(w)
  BY <1>1 DEF StoredStands
<1>3. /\ Payload(w) # Nothing /\ Payload(w).by = w
      /\ Payload(w) \in [by : Writers, size : 1..MaxBytes]
  BY <1>2, PayloadIsContent
<1>4. /\ writer'[w].at = "done" /\ \A v \in Writers \ {w} : writer'[v] = writer[v]
      /\ \A v \in Writers : writer'[v].key = writer[v].key /\ writer'[v].size = writer[v].size
      /\ \A v \in Writers : Payload(v)' = Payload(v)
  BY <1>1 DEF TypeOK, Payload
<1>5. /\ rows'[k] = (IF rows[k] = Nothing THEN Payload(w) ELSE rows[k])
      /\ \A j \in Keys \ {k} : rows'[j] = rows[j]
  BY <1>1, <1>2 DEF TypeOK
<1>6. Sound' <=> Sound  BY <1>1 DEF Sound
<1>7. TypeOK'
  <2>1. writer' \in [Writers ->
          [at : Writing \cup {"idle", "refused", "stored", "withdrawing", "moved", "done", "dead"},
           key : Keys \cup {Nothing}, size : 0..MaxBytes]]
    <3>1. writer' = [writer EXCEPT ![w].at = "done"]  BY <1>1
    <3> QED  BY ONLY <3>1, TypeOK, w \in Writers DEF TypeOK
  <2>2. rows' \in [Keys -> Metadata] /\ touched' \subseteq Keys
    BY <1>1, <1>2, <1>3 DEF TypeOK, Metadata
  <2> QED  BY <2>1, <2>2, <1>1 DEF TypeOK
<1>8. OneWriting'
  <2>1. \A v \in Writers : writer'[v].at \in Writing => writer[v].at \in Writing
    BY <1>4 DEF Writing
  <2> QED  BY <2>1, <1>1, <1>4, <1>6 DEF OneWriting
<1>9. StoredStands'  BY <1>1, <1>4, <1>6 DEF StoredStands
<1>10. RowsOfDone'
  <2> SUFFICES ASSUME NEW j \in Keys, rows'[j] # Nothing
               PROVE  /\ rows'[j] \in [by : Writers, size : 1..MaxBytes]
                      /\ writer'[rows'[j].by].at = "done"
    BY DEF RowsOfDone
  <2>1. CASE rows'[j] = rows[j]
    <3>1. rows[j] \in [by : Writers, size : 1..MaxBytes] /\ writer[rows[j].by].at = "done"
      BY <2>1 DEF RowsOfDone
    <3> QED  BY <3>1, <2>1, <1>1, <1>4
  <2>2. CASE rows'[j] # rows[j]
    BY <2>2, <1>3, <1>4, <1>5
  <2> QED  BY <2>1, <2>2
<1>11. MovedHasKey'  BY <1>4 DEF MovedHasKey
<1>12. RowsDescribeFiles'
  BY <1>1, <1>2, <1>5 DEF RowsDescribeFiles, Sound
<1>13. NothingLost'  BY <1>1, <1>4 DEF NothingLost
<1> QED  BY <1>7, <1>8, <1>9, <1>10, <1>11, <1>12, <1>13

LEMMA WithdrawKeeps ==
  ASSUME StoreInv, NEW w \in Writers, Withdraw(w)
  PROVE  StoreInv'
<1> DEFINE place == IF dir[writer[w].key] # Nothing THEN "withdrawing" ELSE "done"
<1>1. /\ WriterAt(w, place) /\ writer[w].at = "stored"
      /\ UNCHANGED <<dir, temp, moved, reasons, rows, reader, audit, touched, raced, damages>>
  BY DEF Withdraw, stores
<1>2. /\ writer' \in [Writers -> [at : Stages, key : Keys \cup {Nothing}, size : 0..MaxBytes]]
      /\ OneWriting' /\ StoredStands' /\ RowsOfDone' /\ MovedHasKey'
      /\ RowsDescribeFiles' /\ NothingLost'
  <2>1. /\ place \in Stages /\ place \notin Writing /\ place \notin {"stored", "moved"}
        /\ writer[w].at # "done"
    BY <1>1 DEF Stages, Writing
  <2> HIDE DEF place
  <2> QED  BY <1>1, <2>1, PlaceKeeps
<1>3. TypeOK'  BY <1>1, <1>2 DEF StoreInv, TypeOK, Stages
<1> QED  BY <1>2, <1>3 DEF StoreInv

\* The one step that takes a file from its key.  While the writers take turns it is the
\* mover's own, so no row is left without its file and no writer without its bytes.
LEMMA MoveKeeps ==
  ASSUME StoreInv, NEW w \in Writers, Move(w)
  PROVE  /\ StoreInv'
         /\ \/ dir' = dir
            \/ /\ writer[w].key \in Keys /\ dir[writer[w].key] # Nothing
               /\ dir' = [dir EXCEPT ![writer[w].key] = Nothing]
<1> USE DEF StoreInv
<1> DEFINE k == writer[w].key
<1>1. /\ writer[w].at = "withdrawing"
      /\ UNCHANGED <<temp, reasons, rows, reader, audit, raced, damages>>
      /\ \/ /\ dir[k] = Nothing
            /\ WriterAt(w, "done") /\ UNCHANGED <<moved, dir, touched>>
         \/ /\ dir[k] # Nothing
            /\ moved' = moved \cup {<<k, dir[k]>>}
            /\ dir' = [dir EXCEPT ![k] = Nothing]
            /\ touched' = touched \cup {k}
            /\ WriterAt(w, "moved")
  BY DEF Move
<1>2. /\ k \in Keys /\ writer[w].size \in 1..MaxBytes
      /\ Sound => dir[k] = Payload(w)
  BY <1>1 DEF StoredStands
<1>3. CASE dir[k] = Nothing
  <2>1. WriterAt(w, "done") /\ UNCHANGED <<moved, dir, touched>>  BY <1>1, <1>3
  <2>2. /\ writer' \in [Writers -> [at : Stages, key : Keys \cup {Nothing}, size : 0..MaxBytes]]
        /\ OneWriting' /\ StoredStands' /\ RowsOfDone' /\ MovedHasKey'
        /\ RowsDescribeFiles' /\ NothingLost'
    <3> "done" \in Stages /\ "done" \notin Writing /\ writer[w].at # "done"
      BY <1>1 DEF Stages, Writing
    <3> QED  BY <1>1, <2>1, PlaceKeeps
  <2>3. TypeOK'  BY <1>1, <2>1, <2>2 DEF TypeOK, Stages
  <2> QED  BY <2>1, <2>2, <2>3
<1>4. CASE dir[k] # Nothing
  <2>1. /\ moved' = moved \cup {<<k, dir[k]>>}
        /\ dir' = [dir EXCEPT ![k] = Nothing]
        /\ touched' = touched \cup {k}
        /\ writer' = [writer EXCEPT ![w].at = "moved"]
    BY <1>1, <1>4 DEF WriterAt
  <2>2. /\ writer'[w].at = "moved" /\ \A v \in Writers \ {w} : writer'[v] = writer[v]
        /\ \A v \in Writers : writer'[v].key = writer[v].key /\ writer'[v].size = writer[v].size
        /\ \A v \in Writers : Payload(v)' = Payload(v)
    BY <2>1 DEF TypeOK, Payload
  <2>3. /\ dir'[k] = Nothing /\ \A j \in Keys \ {k} : dir'[j] = dir[j]
        /\ \A j : j # k => dir'[j] = dir[j]
    BY <2>1, <1>2 DEF TypeOK
  <2>4. Sound' <=> Sound  BY <1>1 DEF Sound
  <2>5. \* Another writer's bytes are not at this key.
        Sound => \A v \in Writers \ {w} : dir[k] # Payload(v)
    BY <1>2 DEF Payload
  <2>6. Sound => rows[k] = Nothing
    <3> SUFFICES ASSUME Sound, rows[k] # Nothing PROVE FALSE  OBVIOUS
    <3>1. dir[k] = rows[k]  BY <1>2 DEF RowsDescribeFiles, Sound
    <3>2. rows[k].by = w  BY <3>1, <1>2 DEF Payload
    <3>3. writer[w].at = "done"  BY <3>2, <1>2 DEF RowsOfDone
    <3> QED  BY <3>3, <1>1
  <2>7. TypeOK'
    <3>1. writer' \in [Writers ->
            [at : Writing \cup {"idle", "refused", "stored", "withdrawing", "moved", "done", "dead"},
             key : Keys \cup {Nothing}, size : 0..MaxBytes]]
      BY <2>1 DEF TypeOK
    <3>2. dir' \in [Keys -> Contents \cup {Nothing}] /\ touched' \subseteq Keys
      BY <2>1, <1>2 DEF TypeOK
    <3>3. moved' \subseteq Keys \X Contents
      <4>1. dir[k] \in Contents  BY <1>2, <1>4 DEF TypeOK
      <4> QED  BY <4>1, <2>1, <1>2 DEF TypeOK
    <3> QED  BY <3>1, <3>2, <3>3, <1>1 DEF TypeOK
  <2>8. OneWriting'
    <3>1. \A v \in Writers : writer'[v].at \in Writing => writer[v].at \in Writing
      BY <2>2 DEF Writing
    <3>2. \A j \in Keys : dir[j] = Nothing => dir'[j] = Nothing  BY <2>3
    <3> QED  BY <3>1, <3>2, <2>2, <2>4 DEF OneWriting
  <2>9. StoredStands'
    <3> SUFFICES ASSUME NEW v \in Writers, writer'[v].at \in {"stored", "withdrawing"}
                 PROVE  /\ writer'[v].key \in Keys /\ writer'[v].size \in 1..MaxBytes
                        /\ Sound' => dir'[writer'[v].key] = Payload(v)'
      BY DEF StoredStands
    <3>1. v # w  BY <2>2
    <3>2. /\ writer[v].at \in {"stored", "withdrawing"} /\ writer[v].key \in Keys
          /\ writer[v].size \in 1..MaxBytes
          /\ Sound => dir[writer[v].key] = Payload(v)
      BY <3>1, <2>2 DEF StoredStands
    <3>3. Sound => writer[v].key # k  BY <3>1, <3>2, <2>5
    <3> QED  BY <3>2, <3>3, <2>2, <2>3, <2>4
  <2>10. RowsOfDone'  BY <1>1, <2>2 DEF RowsOfDone
  <2>11. MovedHasKey'  BY <1>2, <2>2 DEF MovedHasKey
  <2>12. RowsDescribeFiles'
    BY <1>1, <2>3, <2>6 DEF RowsDescribeFiles, Sound
  <2>13. NothingLost'
    <3> SUFFICES ASSUME Sound', NEW v \in Writers,
                        writer'[v].at \in {"stored", "withdrawing", "moved", "done"},
                        writer'[v].size # 0
                 PROVE  dir'[writer'[v].key] = Payload(v)'
                          \/ <<writer'[v].key, Payload(v)'>> \in moved'
      BY DEF NothingLost, Sound
    <3>1. CASE v = w
      BY <3>1, <1>2, <2>1, <2>2, <2>4
    <3>2. CASE v # w
      <4>1. dir[writer[v].key] = Payload(v) \/ <<writer[v].key, Payload(v)>> \in moved
        BY <3>2, <2>2, <2>4 DEF NothingLost, Sound
      <4>2. CASE <<writer[v].key, Payload(v)>> \in moved  BY <4>2, <2>1, <2>2
      <4>3. CASE dir[writer[v].key] = Payload(v)
        <5>1. writer[v].key # k  BY <4>3, <3>2, <2>4, <2>5
        <5> QED  BY <4>3, <5>1, <2>2, <2>3
      <4> QED  BY <4>1, <4>2, <4>3
    <3> QED  BY <3>1, <3>2
  <2> QED  BY <1>2, <1>4, <2>1, <2>7, <2>8, <2>9, <2>10, <2>11, <2>12, <2>13
<1> QED  BY <1>3, <1>4

LEMMA GiveReasonKeeps ==
  ASSUME StoreInv, NEW w \in Writers, GiveReason(w)
  PROVE  StoreInv'
<1>1. /\ WriterAt(w, "done") /\ writer[w].at = "moved"
      /\ reasons' = reasons \cup {writer[w].key}
      /\ UNCHANGED <<dir, temp, moved, rows, reader, audit, touched, raced, damages>>
  BY DEF GiveReason
<1>2. /\ writer' \in [Writers -> [at : Stages, key : Keys \cup {Nothing}, size : 0..MaxBytes]]
      /\ OneWriting' /\ StoredStands' /\ RowsOfDone' /\ MovedHasKey'
      /\ RowsDescribeFiles' /\ NothingLost'
  <2> "done" \in Stages /\ "done" \notin Writing /\ writer[w].at # "done"
    BY <1>1 DEF Stages, Writing
  <2> QED  BY <1>1, PlaceKeeps
<1>3. TypeOK'
  <2>1. writer[w].key \in Keys  BY <1>1 DEF StoreInv, MovedHasKey
  <2> QED  BY <1>1, <1>2, <2>1 DEF StoreInv, TypeOK, Stages
<1> QED  BY <1>2, <1>3 DEF StoreInv

LEMMA CrashKeeps ==
  ASSUME StoreInv, NEW w \in Writers, Crash(w)
  PROVE  StoreInv'
<1>1. /\ WriterAt(w, "dead") /\ writer[w].at # "done"
      /\ UNCHANGED <<dir, temp, moved, reasons, rows, reader, audit, touched, raced, damages>>
  BY DEF Crash, stores
<1>2. /\ writer' \in [Writers -> [at : Stages, key : Keys \cup {Nothing}, size : 0..MaxBytes]]
      /\ OneWriting' /\ StoredStands' /\ RowsOfDone' /\ MovedHasKey'
      /\ RowsDescribeFiles' /\ NothingLost'
  <2> "dead" \in Stages /\ "dead" \notin Writing  BY DEF Stages, Writing
  <2> QED  BY <1>1, PlaceKeeps
<1>3. TypeOK'  BY <1>1, <1>2 DEF StoreInv, TypeOK, Stages
<1> QED  BY <1>2, <1>3 DEF StoreInv

\* After it nothing is promised any more.
LEMMA DamageKeeps ==
  ASSUME StoreInv, NEW k \in Keys, Damage(k)
  PROVE  /\ StoreInv' /\ ~Sound' /\ dir' \in [Keys -> Contents \cup {Nothing}]
<1> USE DEF StoreInv
<1>1. PICK n \in 1..MaxBytes : dir' = [dir EXCEPT ![k] = [by |-> Trash, size |-> n]]
  BY DEF Damage
<1>2. /\ damages' = 1 /\ touched' = touched \cup {k}
      /\ UNCHANGED <<temp, moved, reasons, rows, writer, reader, audit, raced>>
  BY DEF Damage
<1>3. dir' \in [Keys -> Contents \cup {Nothing}]
  BY <1>1 DEF TypeOK, Contents
<1>4. ~Sound'  BY <1>2 DEF Sound
<1>5. TypeOK'  BY <1>2, <1>3 DEF TypeOK
<1>6. OneWriting'  BY <1>2, <1>4 DEF OneWriting
<1>7. StoredStands'  BY <1>2, <1>4 DEF StoredStands
<1>8. RowsOfDone' /\ MovedHasKey'  BY <1>2 DEF RowsOfDone, MovedHasKey
<1>9. RowsDescribeFiles' /\ NothingLost'
  BY <1>4 DEF RowsDescribeFiles, NothingLost, Sound
<1> QED  BY <1>3, <1>4, <1>5, <1>6, <1>7, <1>8, <1>9

-----------------------------------------------------------------------------
(* Readers and the reconciliation change nothing that is stored.           *)

LookingKeeps ==
  UNCHANGED <<dir, temp, moved, reasons, rows, writer, raced, damages>>

LEMMA LookKeeps ==
  ASSUME StoreInv, LookingKeeps,
         reader' \in [Readers ->
           [at : {"idle", "verifying", "verified", "served", "not_found", "integrity", "vanished"},
            key : Keys \cup {Nothing}, row : Metadata, got : Contents \cup {Nothing}]],
         audit' \in [at : {"idle", "rows", "done"}, expected : SUBSET Keys,
                     row : [Keys -> Metadata],
                     found : SUBSET ({"healthy", "missing", "corrupt", "orphaned"} \X Keys)],
         touched' \subseteq Keys
  PROVE  StoreInv'
<1> USE DEF StoreInv, LookingKeeps
<1>1. \A w \in Writers : Payload(w)' = Payload(w)  BY DEF Payload
<1>2. Sound' <=> Sound  BY DEF Sound
<1>3. TypeOK'  BY DEF TypeOK
<1>4. OneWriting' /\ MovedHasKey'  BY <1>2 DEF OneWriting, MovedHasKey
<1>5. StoredStands'  BY <1>1, <1>2 DEF StoredStands
<1>6. RowsOfDone' /\ RowsDescribeFiles'  BY DEF RowsOfDone, RowsDescribeFiles
<1>7. NothingLost'  BY <1>1 DEF NothingLost
<1> QED  BY <1>3, <1>4, <1>5, <1>6, <1>7

\* The file that a request finds has a row, and keeps it.
ReaderHasRow ==
  \A p \in Readers : reader[p].at # "idle" =>
    /\ reader[p].key \in Keys
    /\ reader[p].row # Nothing /\ reader[p].row = rows[reader[p].key]

LEMMA RequestKeeps ==
  ASSUME StoreInv, ReaderHasRow, ServedAsVerified, NEW p \in Readers, Request(p)
  PROVE  StoreInv' /\ ReaderHasRow' /\ ServedAsVerified' /\ LookingKeeps /\ UNCHANGED <<audit, touched>>
<1>1. PICK k \in Keys :
        /\ rows[k] # Nothing
        /\ reader' = [reader EXCEPT ![p] =
                        [at |-> "verifying", key |-> k, row |-> rows[k], got |-> Nothing]]
  BY DEF Request
<1>2. LookingKeeps /\ UNCHANGED <<audit, touched>>  BY DEF Request, stores, LookingKeeps
<1>3. TypeOK  BY DEF StoreInv
<1>4. /\ reader'[p] = [at |-> "verifying", key |-> k, row |-> rows[k], got |-> Nothing]
      /\ \A q \in Readers \ {p} : reader'[q] = reader[q]
  BY <1>1, <1>3 DEF TypeOK
<1>5. reader' \in [Readers ->
        [at : {"idle", "verifying", "verified", "served", "not_found", "integrity", "vanished"},
         key : Keys \cup {Nothing}, row : Metadata, got : Contents \cup {Nothing}]]
  BY <1>1, <1>3 DEF TypeOK
<1>6. StoreInv'  BY <1>2, <1>3, <1>5, LookKeeps DEF TypeOK
<1>7. ReaderHasRow'  BY <1>1, <1>2, <1>4 DEF ReaderHasRow, LookingKeeps
<1>8. ServedAsVerified'  BY <1>2, <1>4 DEF ServedAsVerified, LookingKeeps
<1> QED  BY <1>2, <1>6, <1>7, <1>8

\* A reader goes on to a place where it serves nothing.
LEMMA ReaderPlaceKeeps ==
  ASSUME StoreInv, ReaderHasRow, ServedAsVerified, NEW p \in Readers,
         reader[p].at # "idle", NEW place \in {"verified", "not_found", "integrity", "vanished"},
         place = "vanished" => ~Sound,
         ReaderAt(p, place), LookingKeeps, UNCHANGED <<audit, touched>>
  PROVE  StoreInv' /\ ReaderHasRow' /\ ServedAsVerified'
<1>1. reader' = [reader EXCEPT ![p].at = place]  BY DEF ReaderAt
<1>2. TypeOK  BY DEF StoreInv
<1>3. /\ reader'[p].at = place /\ \A q \in Readers \ {p} : reader'[q] = reader[q]
      /\ reader'[p].key = reader[p].key /\ reader'[p].row = reader[p].row
  BY <1>1, <1>2 DEF TypeOK
<1>4. reader' \in [Readers ->
        [at : {"idle", "verifying", "verified", "served", "not_found", "integrity", "vanished"},
         key : Keys \cup {Nothing}, row : Metadata, got : Contents \cup {Nothing}]]
  BY <1>1, <1>2 DEF TypeOK
<1>5. StoreInv'  BY <1>2, <1>4, LookKeeps DEF TypeOK
<1>6. ReaderHasRow'  BY <1>3 DEF ReaderHasRow, LookingKeeps
<1>7. ServedAsVerified'  BY <1>3 DEF ServedAsVerified, LookingKeeps, Sound
<1> QED  BY <1>5, <1>6, <1>7

LEMMA VerifyKeeps ==
  ASSUME StoreInv, ReaderHasRow, ServedAsVerified, NEW p \in Readers, Verify(p)
  PROVE  StoreInv' /\ ReaderHasRow' /\ ServedAsVerified' /\ LookingKeeps /\ UNCHANGED <<audit, touched>>
<1>1. /\ LookingKeeps /\ UNCHANGED <<audit, touched>> /\ reader[p].at = "verifying"
  BY DEF Verify, stores, LookingKeeps
<1>2. \E place \in {"verified", "not_found", "integrity"} : ReaderAt(p, place)
  BY DEF Verify, Verified
<1> QED  BY <1>1, <1>2, ReaderPlaceKeeps

LEMMA ServeKeeps ==
  ASSUME StoreInv, ReaderHasRow, ServedAsVerified, NEW p \in Readers, Serve(p)
  PROVE  StoreInv' /\ ReaderHasRow' /\ ServedAsVerified' /\ LookingKeeps /\ UNCHANGED <<audit, touched>>
<1> DEFINE file == dir[reader[p].key]
<1>1. /\ LookingKeeps /\ UNCHANGED <<audit, touched>> /\ reader[p].at = "verified"
      /\ \/ file = Nothing /\ ReaderAt(p, "vanished")
         \/ file # Nothing /\ file.size # reader[p].row.size /\ ReaderAt(p, "integrity")
         \/ /\ file # Nothing /\ file.size = reader[p].row.size
            /\ reader' = [reader EXCEPT ![p] =
                 [at |-> "served", key |-> reader[p].key, row |-> reader[p].row, got |-> file]]
  BY DEF Serve, stores, LookingKeeps
<1>2. /\ reader[p].key \in Keys /\ reader[p].row # Nothing
      /\ reader[p].row = rows[reader[p].key]
  BY <1>1 DEF ReaderHasRow
<1>3. Sound => file = reader[p].row
  BY <1>2 DEF StoreInv, RowsDescribeFiles, Sound
<1>4. CASE file = Nothing /\ ReaderAt(p, "vanished")
  <2>1. ~Sound  BY <1>2, <1>3, <1>4
  <2> QED  BY <1>1, <1>4, <2>1, ReaderPlaceKeeps
<1>5. CASE file # Nothing /\ file.size # reader[p].row.size /\ ReaderAt(p, "integrity")
  BY <1>1, <1>5, ReaderPlaceKeeps
<1>6. CASE /\ file # Nothing /\ file.size = reader[p].row.size
           /\ reader' = [reader EXCEPT ![p] =
                [at |-> "served", key |-> reader[p].key, row |-> reader[p].row, got |-> file]]
  <2>1. TypeOK  BY DEF StoreInv
  <2>2. /\ reader'[p].at = "served" /\ reader'[p].got = file
        /\ reader'[p].key = reader[p].key /\ reader'[p].row = reader[p].row
        /\ \A q \in Readers \ {p} : reader'[q] = reader[q]
    BY <1>6, <2>1 DEF TypeOK
  <2>3. reader' \in [Readers ->
          [at : {"idle", "verifying", "verified", "served", "not_found", "integrity", "vanished"},
           key : Keys \cup {Nothing}, row : Metadata, got : Contents \cup {Nothing}]]
    <3>1. file \in Contents \cup {Nothing}  BY <1>2, <2>1 DEF TypeOK
    <3> HIDE DEF file
    <3>2. reader[p].key \in Keys \cup {Nothing} /\ reader[p].row \in Metadata
      BY <2>1 DEF TypeOK
    <3>3. [at |-> "served", key |-> reader[p].key, row |-> reader[p].row, got |-> file] \in
            [at : {"idle", "verifying", "verified", "served", "not_found", "integrity", "vanished"},
             key : Keys \cup {Nothing}, row : Metadata, got : Contents \cup {Nothing}]
      BY <3>1, <3>2
    <3> QED  BY <3>3, <1>6, <2>1 DEF TypeOK
  <2>4. StoreInv'  BY <1>1, <2>1, <2>3, LookKeeps DEF TypeOK
  <2>5. ReaderHasRow'  BY <1>1, <2>2 DEF ReaderHasRow, LookingKeeps
  <2>6. ServedAsVerified'
    BY <1>1, <1>3, <1>6, <2>2 DEF ServedAsVerified, LookingKeeps, Sound
  <2> QED  BY <1>1, <2>4, <2>5, <2>6
<1> QED  BY <1>1, <1>4, <1>5, <1>6

\* What the writers and the disk do is no matter to a reader that has its row.
LEMMA ReadersUndisturbed ==
  ASSUME ReaderHasRow, ServedAsVerified, UNCHANGED reader, Sound' => Sound,
         \A k \in Keys : rows[k] # Nothing => rows'[k] = rows[k]
  PROVE  ReaderHasRow' /\ ServedAsVerified'
<1>1. ReaderHasRow'  BY DEF ReaderHasRow
<1>2. ServedAsVerified'  BY DEF ServedAsVerified, Sound
<1> QED  BY <1>1, <1>2

-----------------------------------------------------------------------------
(* The reconciliation.                                                     *)

Found(k) == {f[1] : f \in {g \in audit.found : g[2] = k}}

Right(k) ==
  CASE rows[k] = Nothing /\ dir[k] = Nothing -> {}
    [] rows[k] = Nothing /\ dir[k] # Nothing -> {"orphaned"}
    [] rows[k] # Nothing /\ dir[k] = Nothing -> {"missing"}
    [] OTHER -> IF dir[k] = rows[k] THEN {"healthy"} ELSE {"corrupt"}

\* What has been found is right about the keys that nobody has touched since.
ReportInv ==
  /\ audit.at # "idle" =>
       /\ audit.expected = {k \in Keys : audit.row[k] # Nothing}
       /\ \A k \in Keys \ touched : audit.row[k] = rows[k]
  /\ audit.at = "rows" =>
       \A k \in Keys : /\ k \notin audit.expected => Found(k) = {}
                       /\ k \notin touched => Found(k) \subseteq Right(k)
  /\ audit.at = "done" => \A k \in Keys \ touched : Found(k) = Right(k)

LEMMA ReportIsRightThen == ReportInv => ReportIsRight
BY DEF ReportInv, ReportIsRight, Found, Right

\* The others touch what they change.
LEMMA ReportUndisturbed ==
  ASSUME ReportInv, UNCHANGED audit, touched \subseteq touched',
         \A k \in Keys \ touched' : dir'[k] = dir[k] /\ rows'[k] = rows[k]
  PROVE  ReportInv'
<1>1. \A k \in Keys \ touched' : Right(k)' = Right(k)  BY DEF Right
<1>2. \A k : Found(k)' = Found(k)  BY DEF Found
<1>3. \A k \in Keys \ touched' : k \in Keys \ touched  OBVIOUS
<1>4. audit'.at # "idle" =>
        /\ audit'.expected = {k \in Keys : audit'.row[k] # Nothing}
        /\ \A k \in Keys \ touched' : audit'.row[k] = rows'[k]
  BY <1>3 DEF ReportInv
<1>5. audit'.at = "rows" =>
        \A k \in Keys : /\ k \notin audit'.expected => Found(k)' = {}
                        /\ k \notin touched' => Found(k)' \subseteq Right(k)'
  BY <1>1, <1>2 DEF ReportInv
<1>6. audit'.at = "done" => \A k \in Keys \ touched' : Found(k)' = Right(k)'
  BY <1>1, <1>2, <1>3 DEF ReportInv
<1> QED  BY <1>4, <1>5, <1>6 DEF ReportInv

LEMMA ReconcileKeeps ==
  ASSUME StoreInv, Reconcile
  PROVE  StoreInv' /\ ReportInv' /\ LookingKeeps /\ UNCHANGED reader
<1>1. /\ audit' = [at |-> "rows", expected |-> {k \in Keys : rows[k] # Nothing}, row |-> rows,
                   found |-> {}]
      /\ touched' = {} /\ LookingKeeps /\ UNCHANGED reader
  BY DEF Reconcile, stores, LookingKeeps
<1>2. TypeOK  BY DEF StoreInv
<1>3. audit' \in [at : {"idle", "rows", "done"}, expected : SUBSET Keys, row : [Keys -> Metadata],
                  found : SUBSET ({"healthy", "missing", "corrupt", "orphaned"} \X Keys)]
  <2>1. rows \in [Keys -> Metadata] /\ {k \in Keys : rows[k] # Nothing} \in SUBSET Keys
    BY <1>2 DEF TypeOK
  <2> QED  BY <1>1, <2>1
<1>4. StoreInv'  BY <1>1, <1>2, <1>3, LookKeeps DEF TypeOK
<1>5. \A k : Found(k)' = {}  BY <1>1 DEF Found
<1>6. ReportInv'  BY <1>1, <1>5 DEF ReportInv, LookingKeeps
<1> QED  BY <1>1, <1>4, <1>6

\* A content and a row are the same when the writer and the size are.
LEMMA IntactIsTheRow ==
  ASSUME TypeOK, NEW k \in Keys, rows[k] # Nothing, dir[k] # Nothing
  PROVE  dir[k] = rows[k] <=> dir[k].by = rows[k].by /\ dir[k].size = rows[k].size
<1>1. dir[k] \in Contents /\ rows[k] \in [by : Writers, size : 1..MaxBytes]
  BY DEF TypeOK, Metadata
<1> QED  BY <1>1 DEF Contents

LEMMA ReconcileRowKeeps ==
  ASSUME StoreInv, ReportInv, NEW k \in Keys, ReconcileRow(k)
  PROVE  StoreInv' /\ ReportInv' /\ LookingKeeps /\ UNCHANGED reader
<1> DEFINE v == CASE Verified(k, audit.row[k]) = "missing" -> "missing"
                  [] Intact(k, audit.row[k])              -> "healthy"
                  [] OTHER                                -> "corrupt"
<1>1. /\ audit.at = "rows" /\ k \in audit.expected \ Checked
      /\ audit' = [audit EXCEPT !.found = audit.found \cup {<<v, k>>}]
      /\ LookingKeeps /\ UNCHANGED <<reader, touched>>
  BY DEF ReconcileRow, stores, LookingKeeps
<1>2. TypeOK  BY DEF StoreInv
<1>3. v \in {"healthy", "missing", "corrupt"}
  <2>1. CASE Verified(k, audit.row[k]) = "missing"
    <3>1. v = "missing"  BY <2>1 DEF Intact
    <3> QED  BY <3>1
  <2>2. CASE Verified(k, audit.row[k]) # "missing" /\ Intact(k, audit.row[k])
    <3>1. v = "healthy"  BY <2>2
    <3> QED  BY <3>1
  <2>3. CASE Verified(k, audit.row[k]) # "missing" /\ ~Intact(k, audit.row[k])
    <3>1. v = "corrupt"  BY <2>3
    <3> QED  BY <3>1
  <2> QED  BY <2>1, <2>2, <2>3
<1>4. k \notin touched => v \in Right(k)
  <2> SUFFICES ASSUME k \notin touched PROVE v \in Right(k)  OBVIOUS
  <2>1. audit.row[k] = rows[k] /\ rows[k] # Nothing  BY <1>1 DEF ReportInv
  <2>2. CASE dir[k] = Nothing
    <3>1. Verified(k, audit.row[k]) = "missing"  BY <2>2 DEF Verified
    <3>2. v = "missing"  BY <3>1 DEF Intact
    <3>3. Right(k) = {"missing"}  BY <2>1, <2>2 DEF Right
    <3> QED  BY <3>2, <3>3
  <2>3. CASE dir[k] # Nothing
    <3>1. v = IF dir[k] = rows[k] THEN "healthy" ELSE "corrupt"
      BY <1>2, <2>1, <2>3, IntactIsTheRow DEF Verified, Intact
    <3>2. Right(k) = IF dir[k] = rows[k] THEN {"healthy"} ELSE {"corrupt"}
      BY <2>1, <2>3 DEF Right
    <3> HIDE DEF v
    <3> QED  BY <3>1, <3>2
  <2> QED  BY <2>2, <2>3
<1> HIDE DEF v
<1>5. /\ audit'.at = "rows" /\ audit'.expected = audit.expected /\ audit'.row = audit.row
      /\ audit'.found = audit.found \cup {<<v, k>>}
  BY <1>1, <1>2 DEF TypeOK
<1>6. audit' \in [at : {"idle", "rows", "done"}, expected : SUBSET Keys, row : [Keys -> Metadata],
                  found : SUBSET ({"healthy", "missing", "corrupt", "orphaned"} \X Keys)]
  <2>1. audit.found \cup {<<v, k>>} \in SUBSET ({"healthy", "missing", "corrupt", "orphaned"} \X Keys)
    BY <1>2, <1>3 DEF TypeOK
  <2> QED  BY <1>1, <1>2, <2>1 DEF TypeOK
<1>7. StoreInv'  BY <1>1, <1>2, <1>6, LookKeeps DEF TypeOK
<1>8. \A j \in Keys : Found(j)' \subseteq Found(j) \cup {v} /\ (j # k => Found(j)' = Found(j))
  BY <1>5 DEF Found
<1>9. \A j : Right(j)' = Right(j)  BY <1>1 DEF Right, LookingKeeps
<1>10. \A j \in Keys : /\ j \notin audit'.expected => Found(j)' = {}
                       /\ j \notin touched' => Found(j)' \subseteq Right(j)'
  BY <1>1, <1>4, <1>5, <1>8, <1>9 DEF ReportInv
<1>11. ReportInv'
  BY <1>1, <1>5, <1>10 DEF ReportInv, LookingKeeps
<1> QED  BY <1>1, <1>7, <1>11

LEMMA ReconcileListingKeeps ==
  ASSUME StoreInv, ReportInv, ReconcileListing
  PROVE  StoreInv' /\ ReportInv' /\ LookingKeeps /\ UNCHANGED reader
<1> DEFINE strays == {i \in Keys : dir[i] # Nothing} \ audit.expected
           orphans == {<<"orphaned", k>> : k \in strays}
<1>1. /\ audit.at = "rows" /\ audit.expected \subseteq Checked
      /\ audit' = [audit EXCEPT !.at = "done", !.found = audit.found \cup orphans]
      /\ LookingKeeps /\ UNCHANGED <<reader, touched>>
  BY DEF ReconcileListing, stores, LookingKeeps
<1>2. TypeOK  BY DEF StoreInv
<1>3. orphans \in SUBSET ({"healthy", "missing", "corrupt", "orphaned"} \X Keys)  OBVIOUS
<1>4. \A k \in Keys : Found(k) \cup (IF k \in strays THEN {"orphaned"} ELSE {})
                        = {f[1] : f \in {g \in audit.found \cup orphans : g[2] = k}}
  <2> SUFFICES ASSUME NEW k \in Keys
               PROVE  Found(k) \cup (IF k \in strays THEN {"orphaned"} ELSE {})
                        = {f[1] : f \in {g \in audit.found \cup orphans : g[2] = k}}
    OBVIOUS
  <2>1. \A g \in orphans : g[1] = "orphaned" /\ g[2] \in strays  OBVIOUS
  <2>2. k \in strays => <<"orphaned", k>> \in orphans  OBVIOUS
  <2> HIDE DEF orphans, strays
  <2>3. {f[1] : f \in {g \in orphans : g[2] = k}} = IF k \in strays THEN {"orphaned"} ELSE {}
    BY <2>1, <2>2
  <2>4. {f[1] : f \in {g \in audit.found \cup orphans : g[2] = k}}
          = Found(k) \cup {f[1] : f \in {g \in orphans : g[2] = k}}
    BY DEF Found
  <2> QED  BY <2>3, <2>4
<1> HIDE DEF orphans
<1>5. /\ audit'.at = "done" /\ audit'.expected = audit.expected /\ audit'.row = audit.row
      /\ audit'.found = audit.found \cup orphans
  BY <1>1, <1>2 DEF TypeOK
<1>6. audit' \in [at : {"idle", "rows", "done"}, expected : SUBSET Keys, row : [Keys -> Metadata],
                  found : SUBSET ({"healthy", "missing", "corrupt", "orphaned"} \X Keys)]
  <2> DEFINE closed == [audit EXCEPT !.at = "done"]
  <2>1. closed \in [at : {"idle", "rows", "done"}, expected : SUBSET Keys, row : [Keys -> Metadata],
                    found : SUBSET ({"healthy", "missing", "corrupt", "orphaned"} \X Keys)]
    BY <1>2 DEF TypeOK
  <2>2. closed.found = audit.found  BY <1>2 DEF TypeOK
  <2>3. audit' = [closed EXCEPT !.found = audit.found \cup orphans]  BY <1>1
  <2> HIDE DEF closed
  <2>4. audit.found \cup orphans \in SUBSET ({"healthy", "missing", "corrupt", "orphaned"} \X Keys)
    BY <1>2, <1>3 DEF TypeOK
  <2> QED  BY <2>1, <2>3, <2>4
<1>7. StoreInv'  BY <1>1, <1>2, <1>6, LookKeeps DEF TypeOK
<1>8. ASSUME NEW k \in Keys \ touched PROVE Found(k)' = Right(k)'
  <2>1. Found(k)' = Found(k) \cup (IF k \in strays THEN {"orphaned"} ELSE {})
    BY <1>4, <1>5 DEF Found
  <2>2. Right(k)' = Right(k)  BY <1>1 DEF Right, LookingKeeps
  <2>3. audit.row[k] = rows[k] /\ (k \in audit.expected <=> rows[k] # Nothing)
    BY <1>1 DEF ReportInv
  <2>4. Found(k) \subseteq Right(k) /\ (k \notin audit.expected => Found(k) = {})
    BY <1>1 DEF ReportInv
  <2>5. CASE rows[k] = Nothing
    BY <2>1, <2>2, <2>3, <2>4, <2>5 DEF Right
  <2>6. CASE rows[k] # Nothing
    <3>1. k \in Checked  BY <2>3, <2>6, <1>1
    <3>2. Found(k) # {}  BY <3>1 DEF Found, Checked
    <3>3. \E r : Right(k) = {r}  BY <2>6 DEF Right
    <3> QED  BY <2>1, <2>2, <2>3, <2>4, <2>6, <3>2, <3>3
  <2> QED  BY <2>5, <2>6
<1>9. ReportInv'
  BY <1>1, <1>5, <1>8 DEF ReportInv, LookingKeeps
<1> QED  BY <1>1, <1>7, <1>9

-----------------------------------------------------------------------------
(* The theorems.                                                           *)

Inv == StoreInv /\ ReaderHasRow /\ ServedAsVerified /\ ReportInv

LEMMA InvHoldsInitially == Init => Inv
<1> SUFFICES ASSUME Init PROVE Inv  OBVIOUS
<1>1. (\A p \in Readers : reader[p].at = "idle") /\ audit.at = "idle"  BY DEF Init
<1>2. ReaderHasRow /\ ServedAsVerified  BY <1>1 DEF ReaderHasRow, ServedAsVerified
<1>3. ReportInv  BY <1>1 DEF ReportInv
<1> QED  BY <1>2, <1>3, InitHolds DEF Inv

\* What a step does to the directory: a write puts a content where there was none,
\* quarantine takes it, or the promise is off.
DirStep ==
  \/ dir' = dir
  \/ \E k \in Keys : /\ Sound => dir[k] = Nothing
                     /\ \E c \in Contents : dir' = [dir EXCEPT ![k] = c]
  \/ \E k \in Keys : dir[k] # Nothing /\ dir' = [dir EXCEPT ![k] = Nothing]
  \/ ~Sound'

Steps == Inv' /\ DirStep /\ (Sound' => Sound)

\* What the steps of writers and of the disk have in common.
LEMMA StoringSteps ==
  ASSUME Inv, StoreInv', DirStep, UNCHANGED <<reader, audit>>,
         Sound' => Sound, touched \subseteq touched',
         \A k \in Keys : rows[k] # Nothing => rows'[k] = rows[k],
         \A k \in Keys \ touched' : dir'[k] = dir[k] /\ rows'[k] = rows[k]
  PROVE  Steps
<1>1. ReaderHasRow' /\ ServedAsVerified'  BY ReadersUndisturbed DEF Inv
<1>2. ReportInv'  BY ReportUndisturbed DEF Inv
<1> QED  BY <1>1, <1>2 DEF Inv, Steps

LEMMA WriterSteps ==
  ASSUME Inv, NEW w \in Writers,
         \/ Test(w) \/ OpenTemp(w) \/ FillTemp(w) \/ Rename(w) \/ WriteFails(w)
         \/ Commit(w) \/ Withdraw(w) \/ Move(w) \/ GiveReason(w) \/ Crash(w)
  PROVE  Steps
<1> USE DEF Inv
<1>1. CASE Test(w)
  <2>1. StoreInv'  BY <1>1, TestKeeps
  <2>2. UNCHANGED <<dir, rows, reader, audit, touched, damages>> /\ (raced => raced')
    BY <1>1 DEF Test, stores
  <2> QED  BY <2>1, <2>2, StoringSteps DEF DirStep, Sound
<1>2. CASE OpenTemp(w)
  <2>1. StoreInv'  BY <1>2, OpenTempKeeps
  <2> QED  BY <1>2, <2>1, StoringSteps DEF OpenTemp, DirStep, Sound
<1>3. CASE FillTemp(w)
  <2>1. StoreInv'  BY <1>3, FillTempKeeps
  <2> QED  BY <1>3, <2>1, StoringSteps DEF FillTemp, DirStep, Sound
<1>4. CASE WriteFails(w)
  <2>1. StoreInv'  BY <1>4, WriteFailsKeeps
  <2> QED  BY <1>4, <2>1, StoringSteps DEF WriteFails, DirStep, Sound
<1>5. CASE Withdraw(w)
  <2>1. StoreInv'  BY <1>5, WithdrawKeeps
  <2> QED  BY <1>5, <2>1, StoringSteps DEF Withdraw, stores, DirStep, Sound
<1>6. CASE GiveReason(w)
  <2>1. StoreInv'  BY <1>6, GiveReasonKeeps
  <2> QED  BY <1>6, <2>1, StoringSteps DEF GiveReason, DirStep, Sound
<1>7. CASE Crash(w)
  <2>1. StoreInv'  BY <1>7, CrashKeeps
  <2> QED  BY <1>7, <2>1, StoringSteps DEF Crash, stores, DirStep, Sound
<1>8. CASE Rename(w)
  <2> DEFINE k == writer[w].key
  <2>1. /\ StoreInv' /\ k \in Keys /\ Payload(w) \in Contents
        /\ Sound => dir[k] = Nothing
    BY <1>8, RenameKeeps
  <2>2. /\ dir' = [dir EXCEPT ![k] = Payload(w)] /\ touched' = touched \cup {k}
        /\ UNCHANGED <<rows, reader, audit, raced, damages>>
    BY <1>8 DEF Rename
  <2>3. DirStep  BY <2>1, <2>2 DEF DirStep
  <2>4. \A j \in Keys \ touched' : dir'[j] = dir[j] /\ rows'[j] = rows[j]
    BY <2>1, <2>2 DEF StoreInv, TypeOK
  <2>5. Sound' => Sound  BY <2>2 DEF Sound
  <2> QED  BY <2>1, <2>2, <2>3, <2>4, <2>5, StoringSteps
<1>9. CASE Commit(w)
  <2> DEFINE k == writer[w].key
  <2>1. StoreInv'  BY <1>9, CommitKeeps
  <2>2. /\ rows' = [rows EXCEPT ![k] = IF rows[k] = Nothing THEN Payload(w) ELSE rows[k]]
        /\ touched' = touched \cup {k}
        /\ UNCHANGED <<dir, reader, audit, raced, damages>>
    BY <1>9 DEF Commit, stores
  <2>3. DirStep /\ (Sound' => Sound)  BY <2>2 DEF DirStep, Sound
  <2>4. \A j \in Keys : rows[j] # Nothing => rows'[j] = rows[j]
    BY <2>2 DEF StoreInv, TypeOK
  <2>5. \A j \in Keys \ touched' : dir'[j] = dir[j] /\ rows'[j] = rows[j]
    BY <2>2 DEF StoreInv, TypeOK
  <2> QED  BY <2>1, <2>2, <2>3, <2>4, <2>5, StoringSteps
<1>10. CASE Move(w)
  <2> DEFINE k == writer[w].key
  <2>1. /\ StoreInv'
        /\ \/ dir' = dir
           \/ k \in Keys /\ dir[k] # Nothing /\ dir' = [dir EXCEPT ![k] = Nothing]
    BY <1>10, MoveKeeps
  <2>2. UNCHANGED <<rows, reader, audit, raced, damages>>  BY <1>10 DEF Move
  <2>3. DirStep /\ (Sound' => Sound)  BY <2>1, <2>2 DEF DirStep, Sound
  <2>4. /\ touched \subseteq touched'
        /\ \A j \in Keys \ touched' : dir'[j] = dir[j]
    BY <1>10 DEF Move, StoreInv, TypeOK
  <2> QED  BY <2>1, <2>2, <2>3, <2>4, StoringSteps
<1> QED  BY <1>1, <1>2, <1>3, <1>4, <1>5, <1>6, <1>7, <1>8, <1>9, <1>10

LEMMA DamageSteps ==
  ASSUME Inv, NEW k \in Keys, Damage(k)
  PROVE  Steps
<1>1. StoreInv' /\ ~Sound'  BY DamageKeeps DEF Inv
<1>2. UNCHANGED <<reader, audit, rows>> /\ touched' = touched \cup {k}  BY DEF Damage
<1>3. \A j \in Keys \ touched' : dir'[j] = dir[j]  BY <1>2 DEF Damage, Inv, StoreInv, TypeOK
<1> QED  BY <1>1, <1>2, <1>3, StoringSteps DEF DirStep

LEMMA ReaderSteps ==
  ASSUME Inv, NEW p \in Readers, Request(p) \/ Verify(p) \/ Serve(p)
  PROVE  Steps
<1>1. StoreInv' /\ ReaderHasRow' /\ ServedAsVerified' /\ LookingKeeps /\ UNCHANGED <<audit, touched>>
  BY RequestKeeps, VerifyKeeps, ServeKeeps DEF Inv
<1>2. ReportInv'  BY <1>1, ReportUndisturbed DEF Inv, LookingKeeps
<1> QED  BY <1>1, <1>2 DEF Inv, Steps, DirStep, Sound, LookingKeeps

LEMMA AuditSteps ==
  ASSUME Inv, Reconcile \/ ReconcileListing \/ \E k \in Keys : ReconcileRow(k)
  PROVE  Steps
<1>1. StoreInv' /\ ReportInv' /\ LookingKeeps /\ UNCHANGED reader
  BY ReconcileKeeps, ReconcileListingKeeps, ReconcileRowKeeps DEF Inv
<1>2. Sound' => Sound  BY <1>1 DEF Sound, LookingKeeps
<1>3. ReaderHasRow' /\ ServedAsVerified'
  BY <1>1, <1>2, ReadersUndisturbed DEF Inv, LookingKeeps
<1> QED  BY <1>1, <1>2, <1>3 DEF Inv, Steps, DirStep, LookingKeeps

LEMMA StutterSteps == Inv /\ UNCHANGED vars => Steps
<1> SUFFICES ASSUME Inv, UNCHANGED vars PROVE Steps  OBVIOUS
<1>1. LookingKeeps /\ UNCHANGED <<reader, audit, touched>>
  BY DEF vars, LookingKeeps
<1>2. StoreInv'
  BY <1>1, LookKeeps DEF Inv, StoreInv, TypeOK
<1> QED  BY <1>1, <1>2, StoringSteps DEF DirStep, Sound, LookingKeeps

LEMMA NextSteps == Inv /\ [Next]_vars => Steps
BY WriterSteps, DamageSteps, ReaderSteps, AuditSteps, StutterSteps DEF Next

\* The inductive invariant of the store.
THEOREM StoreInvariant == Spec => []Inv
<1>1. Inv /\ [Next]_vars => Inv'  BY NextSteps DEF Steps
<1> QED  BY <1>1, InvHoldsInitially, PTL DEF Spec

\* While writers take turns on a key (write, filesystem.py) and the disk is sound, an
\* artifact row describes the bytes at its key: create_artifact_if_absent comes after write, and
\* quarantine moves nothing that has a row.
THEOREM RowsDescribe == Spec => []RowsDescribeFiles
<1>1. Inv => RowsDescribeFiles  BY DEF Inv, StoreInv
<1> QED  BY <1>1, StoreInvariant, PTL

\* No bytes that write has stored are lost: they are at the key or in quarantine, under
\* the same two conditions, wherever writers crash or fail.
THEOREM NothingIsLost == Spec => []NothingLost
<1>1. Inv => NothingLost  BY DEF Inv, StoreInv
<1> QED  BY <1>1, StoreInvariant, PTL

\* get_artifact_content serves what the row announces: always as many bytes, and under
\* the two conditions the very bytes, with the file there from verify to open.
THEOREM ReadersServed == Spec => []ServedAsVerified
<1>1. Inv => ServedAsVerified  BY DEF Inv
<1> QED  BY <1>1, StoreInvariant, PTL

\* reconcile_artifacts, which looks at one key after another while others write, move and
\* commit, is right about every key that was left alone meanwhile; no condition.
THEOREM ReportRight == Spec => []ReportIsRight
<1>1. Inv => ReportIsRight  BY ReportIsRightThen DEF Inv
<1> QED  BY <1>1, StoreInvariant, PTL

\* With the steps of write and quarantine hidden, the directory is a write-once store: a
\* key is given one whole content and loses it only to quarantine, until two writers
\* have raced or the disk has damaged a file.
THEOREM StoreRefines == Spec => ImplementsWriteOnce
<1>1. Init => Promise!Init
  BY DEF Init, Promise!Init
<1>2. Steps => [Promise!Next]_<<dir, ~raced /\ damages = 0>>
  <2> SUFFICES ASSUME Steps PROVE [Promise!Next]_<<dir, ~raced /\ damages = 0>>  OBVIOUS
  <2>1. CASE ~Sound'
    <3>1. dir' \in [Keys -> Contents \cup {Nothing}]  BY DEF Steps, Inv, StoreInv, TypeOK
    <3> QED  BY <2>1, <3>1 DEF Promise!Next, Sound
  <2>2. CASE Sound'
    <3>1. Sound  BY <2>2 DEF Steps
    <3>2. CASE dir' = dir  BY <2>2, <3>1, <3>2 DEF Sound
    <3>3. CASE \E k \in Keys : /\ Sound => dir[k] = Nothing
                               /\ \E c \in Contents : dir' = [dir EXCEPT ![k] = c]
      BY <2>2, <3>1, <3>3 DEF Promise!Next, Promise!Put, Sound
    <3>4. CASE \E k \in Keys : dir[k] # Nothing /\ dir' = [dir EXCEPT ![k] = Nothing]
      BY <2>2, <3>1, <3>4 DEF Promise!Next, Promise!Quarantine, Sound
    <3> QED  BY <2>2, <3>2, <3>3, <3>4 DEF Steps, DirStep
  <2> QED  BY <2>1, <2>2
<1>3. Inv /\ [Next]_vars => [Promise!Next]_<<dir, ~raced /\ damages = 0>>
  BY <1>2, NextSteps
<1> QED  BY <1>1, <1>3, StoreInvariant, PTL DEF Spec, ImplementsWriteOnce, Promise!Spec
=============================================================================
