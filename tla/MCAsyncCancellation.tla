------------------------ MODULE MCAsyncCancellation ------------------------
(* Three calls: two share the token from different event loops, the third     *)
(* has none.                                                                  *)
EXTENDS AsyncCancellation

CONSTANTS a, b, la, lb

MCLoopOf == [c \in Call |-> IF c = b THEN lb ELSE la]
============================================================================
