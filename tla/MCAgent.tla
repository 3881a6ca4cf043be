------------------------------- MODULE MCAgent -------------------------------
(***************************************************************************)
(* Instances of Agent for TLC.                                             *)
(***************************************************************************)
EXTENDS Agent, TLC

CONSTANTS pods, nodes, costs, sonnet, haiku, opus

Skill(name, enabled, priority) == [name |-> name, enabled |-> enabled, priority |-> priority]
ThreeNames == {pods, nodes, costs}
ThreeRows  == <<Skill(pods, TRUE, 100), Skill(nodes, TRUE, 50), Skill(costs, FALSE, 10)>>
TwoWanted  == <<nodes, costs, pods>>
OldBundle  == {pods}
TwoBehind  == <<haiku, opus>>
ThreeSpecs == sonnet :> [retries |-> 1] @@ haiku :> [retries |-> 0] @@ opus :> [retries |-> 0]
=============================================================================
