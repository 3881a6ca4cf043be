--------------------------- MODULE MCEventCollector ---------------------------
(***************************************************************************)
(* Instances of EventCollector, and the tables that are listed, for TLC.   *)
(***************************************************************************)
EXTENDS EventQueries, TLC

CONSTANTS e1, e2, i1, i2, i3, i4, local, other

Order == e1 :> 1 @@ e2 :> 2 @@ i1 :> 1 @@ i2 :> 2 @@ i3 :> 3 @@ i4 :> 4

\* Two runs of one instant, a row whose CR is gone, and a template without
\* and one with a row.
ThreeRuns ==
  {[uid |-> i1, cluster |-> local, status |-> 1, created |-> 5],
   [uid |-> i2, cluster |-> other, status |-> 2, created |-> 5],
   [uid |-> i3, cluster |-> local, status |-> 1, created |-> 6]}
ThreeCRs ==
  {[uid |-> i1, name |-> "a", scheduled |-> FALSE],
   [uid |-> i3, name |-> "c", scheduled |-> TRUE],
   [uid |-> i4, name |-> "d", scheduled |-> TRUE]}

ThreeFixes ==
  {[uid |-> i1, cluster |-> local, namespace |-> 1, phase |-> 1, created |-> 1, updated |-> 3],
   [uid |-> i2, cluster |-> local, namespace |-> 2, phase |-> 1, created |-> 2, updated |-> 2],
   [uid |-> i3, cluster |-> other, namespace |-> 1, phase |-> 2, created |-> 2, updated |-> 2]}
=============================================================================
