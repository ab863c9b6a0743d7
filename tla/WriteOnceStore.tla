--------------------------- MODULE WriteOnceStore ---------------------------
(***************************************************************************)
(* What the artifact store promises, without files: a key has no content   *)
(* or the whole content that one writer gave it; it keeps that content     *)
(* until the content is moved to quarantine, and is never given another    *)
(* in its place.  The promise is for writers that take turns: when two of  *)
(* them have written one key at once the store is no longer `trusted`.     *)
(***************************************************************************)
CONSTANTS Keys, Contents, Nothing

VARIABLES content, trusted

Init == content = [k \in Keys |-> Nothing] /\ trusted = TRUE

Put(k) ==
  /\ content[k] = Nothing
  /\ \E c \in Contents : content' = [content EXCEPT ![k] = c]

Quarantine(k) ==
  /\ content[k] # Nothing
  /\ content' = [content EXCEPT ![k] = Nothing]

Next ==
  \/ trusted /\ UNCHANGED trusted /\ \E k \in Keys : Put(k) \/ Quarantine(k)
  \/ ~trusted' /\ content' \in [Keys -> Contents \cup {Nothing}]

Spec == Init /\ [][Next]_<<content, trusted>>
=============================================================================
