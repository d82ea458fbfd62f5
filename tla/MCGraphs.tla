------------------------------ MODULE MCGraphs ------------------------------
(* The two graphs the program keeps, which share nothing: the working-state   *)
(* graph of the vault, and the graph of the installed skills, over which two  *)
(* threads route a catalog of five skills and a catalog of three.  A behaviour *)
(* exercises the graph that "graph" names.                                    *)
EXTENDS MCWorkingGraph, SkillRouting

VARIABLE graph

Body(internal, related, requires) ==
  [internal |-> internal, related |-> related, requires |-> requires]

\* 1 is relevant by its card, 3 is always kept, 2 and 4 are nearly relevant and
\* 5 is not; the host upgrades its skills from the first documents to the second.
MCCard == <<8, 5, 0, 7, 0>>
MCBefore == (1 :> Body(0, {2}, {5})) @@ (3 :> Body(0, {2}, {9}))
MCAfter == (1 :> Body(0, {2}, {})) @@ (2 :> Body(2, {4}, {})) @@ (3 :> Body(0, {2, 5}, {}))

MCCatalogs == {1..5, {3, 5}}
MCDocuments == {MCBefore, MCAfter}

MCGraphsSymmetry == MCSymmetry \cup Permutations(Thread)

GraphsInit == graph \in {"working", "skills"} /\ Init /\ SkillInit

GraphsNext ==
  /\ UNCHANGED graph
  /\ \/ graph = "working" /\ Next /\ UNCHANGED skillVars
     \/ graph = "skills" /\ SkillNext /\ UNCHANGED vars

GraphsSpec == GraphsInit /\ [][GraphsNext]_<<graph, vars, skillVars>>

\* The types of both graphs.
GraphsTypeOK == GraphTypeOK /\ SkillTypeOK
=============================================================================
