------------------------- MODULE MCRequestPipeline -------------------------
(* Two workers and three artifacts in a vault with room for two: c1 and c2    *)
(* are slots of the compiler, c3 is only large enough for the compactor.      *)
EXTENDS RequestPipeline

CONSTANTS c1, c2, c3, s1, rA, rB, hist

MCPrefix == [c \in Content |-> c]
MCIdOrder ==
  [i \in Id |-> (IF i[1] = "a" THEN 0 ELSE 3)
                + (IF i[2] = c1 THEN 1 ELSE IF i[2] = c2 THEN 2 ELSE 3)]
MCBytes == [c \in Content |-> 3]
MCChars == [c \in Content |-> IF c = c3 THEN 2 ELSE 4]
MCCaller == Session \X {"tool", "compactor"}

JobA == [session |-> s1, key |-> rA, texts |-> <<c3, c1>>, old |-> 1]
JobB == [session |-> s1, key |-> rB, texts |-> <<c1, c2, c1>>, old |-> 1]
MCJob == {JobA, JobB}
============================================================================
