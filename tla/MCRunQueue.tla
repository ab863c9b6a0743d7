----------------------------- MODULE MCRunQueue -----------------------------
(* Instances of RunQueue for TLC.                                          *)
EXTENDS RunQueueInvariant, TLC

Interchangeable == Permutations(Workers) \cup Permutations(Requests)
                     \cup Permutations(Exps) \cup Permutations(Keys)
                     \cup Permutations(Fingerprints)

\* The behaviours in which nobody cancels a run.
NoCancel == \A q \in Requests : req'[q].op # "cancel"
NoCancelSpec == Init /\ [][Next /\ NoCancel]_vars /\ Fairness

\* The behaviours in which an experiment is started once (RunQueueInvariant).
OneStartSpec == OneStartSafe /\ Fairness
=============================================================================
