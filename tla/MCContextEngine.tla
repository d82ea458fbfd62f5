--------------------------- MODULE MCContextEngine ---------------------------
(* Requests of one session, one of them for a chat target; the engine may     *)
(* also be given another session.                                             *)
EXTENDS ContextEngine, TLC

CONSTANTS s1, s2, r1, r2

MCSessionOf == [r \in Request |-> s1]
MCTargetOf == [r \in Request |-> IF r = r1 THEN "chat" ELSE "general"]
MCSymmetry == Permutations(Context) \cup Permutations(Call) \cup Permutations(Engine)
============================================================================
