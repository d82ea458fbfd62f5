--------------------------- MODULE MCWorkingGraph ---------------------------
(* Two databases: the first takes in operations, the second replays and adds *)
(* one operation of its own.                                                 *)
EXTENDS WorkingGraph, TLC

CONSTANT intake

MCMaxOwn == [s \in Store |-> IF s = intake THEN 3 ELSE 1]
MCSymmetry == Permutations(EventId)
============================================================================
