--------------------------- MODULE MCObservation ----------------------------
(* A small instance of Observation: two repositories, three names, one     *)
(* action beside the observer; a second push restores the first source,    *)
(* and one of the repositories loses its README in between.                *)
EXTENDS Observation, TLC

CONSTANTS r1, r2, n1, n2, n3

Named == r1 :> n1 @@ r2 :> n2
AttributesByVersion == [v \in 0..MaxVersion |-> v % 2]
ReadmesByVersion ==
  r1 :> [v \in 0..MaxVersion |-> v % 2] @@
  r2 :> [v \in 0..MaxVersion |-> IF v = 1 THEN Absent ELSE 0]
=============================================================================
