------------------------------ MODULE MCReview ------------------------------
(* Instances of Review for TLC: a pickup region of 60 by 60, with one bin  *)
(* in its corner and one beside it, in units of which 5 make a length.     *)
EXTENDS Review

Permuted == Permutations(Workers) \cup Permutations(Reviewers) \cup Permutations(Experiments)

Box(x1, x2, y1, y2) == [x1 |-> x1, x2 |-> x2, y1 |-> y1, y2 |-> y2]

MCPickup == Box(-30, 30, -30, 30)
MCBins == {Box(15, 40, 15, 40), Box(-60, -31, -10, 10)}

MCObjects ==
  {[shape |-> "box", hx |-> 15, hy |-> 5], [shape |-> "cylinder", hx |-> 10, hy |-> 10]}

MCPositions == {-20, 0, 10, 20} \X {-20, 0, 10, 15}

\* 0, 90 and about 37 degrees
MCYaws == {<<1, 0, 1>>, <<0, 1, 1>>, <<4, 3, 5>>}

MCDefaultHalf == <<15, 5, 5>>

MCConfigs == [timeout : 1..2, regrasps : 0..1, stages : 0..1]

MCDefaultConfig(implementation) ==
  IF implementation = "collision_aware" THEN [timeout |-> 2, regrasps |-> 1, stages |-> 1]
  ELSE [timeout |-> 2, regrasps |-> 0, stages |-> 0]
=============================================================================
