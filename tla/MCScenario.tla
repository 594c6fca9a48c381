---------------------------- MODULE MCScenario ----------------------------
(***************************************************************************)
(* ScenarioDag for TLC: all ways to wire four nodes, cycles included, two  *)
(* of which run side by side and two of which are required; and, for nodes *)
(* that depend on at most one id, known or not, widths one and three and   *)
(* three choices of required nodes.                                        *)
(***************************************************************************)
EXTENDS ScenarioDag

MCGhost == 0

MCWirings ==
  [dependsOn : [Node -> SUBSET Node], required : {{1, 4}}, parallel : {2}]

MCSparse ==
  [dependsOn : [Node -> {{}, {1}, {2}, {MCGhost}}],
   required : {{}, {2}, {1, 2}},
   parallel : {1, 3}]

MCDocuments == MCWirings \cup MCSparse
=============================================================================
