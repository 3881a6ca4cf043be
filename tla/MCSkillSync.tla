----------------------------- MODULE MCSkillSync -----------------------------
(***************************************************************************)
(* Instances of SkillSync for TLC.                                         *)
(***************************************************************************)
EXTENDS SkillSync

CONSTANTS a1, a2, b1, pods, nodes

AFile(front, name) == [front |-> front, name |-> name]
Naming     == [k \in {a1, a2, b1} |-> IF k = b1 THEN nodes ELSE pods]
ThreeFiles == <<AFile(FALSE, None), AFile(TRUE, nodes), AFile(TRUE, None)>>
TwoSpecs   == {[enabled |-> TRUE, priority |-> 0], [enabled |-> FALSE, priority |-> None]}
=============================================================================
