--------------------------------- MODULE MCSearch ---------------------------------
(***************************************************************************)
(* Instances of SearchSession for TLC: two workers and three directories,  *)
(* so that the last worker gets one more than the first.                   *)
(***************************************************************************)
EXTENDS SearchSession, TLC

CONSTANTS d1, d2, d3, q1, q2, tail

ThreeDirectories == <<d1, d2, d3>>
\* Both workers have a result for q1; the second has one for q2, whose text may look like the end.
SomeHits == q1 :> (d1 :> 1 @@ d2 :> 1 @@ d3 :> 0) @@ q2 :> (d1 :> 0 @@ d2 :> 0 @@ d3 :> 1)
OneHash == {<<d3, 1>>}
================================================================================
