-------------------------- MODULE MCTemporalDelta --------------------------
(* Two workers run one command three times over a vault with room for two of  *)
(* three outputs, no two of which share the public identifier prefix.        *)
EXTENDS TemporalDelta

CONSTANTS c1, c2, c3, hist, note

MCPrefix == [c \in Content |-> c]
MCIdOrder ==
  [i \in Id |-> (IF i[1] = "a" THEN 0 ELSE 3)
                + (IF i[2] = c1 THEN 1 ELSE IF i[2] = c2 THEN 2 ELSE 3)]
MCBytes == [c \in Content |-> 3]
MCChars == [c \in Content |-> 3]
MCRequest == {hist, note} \cup (StateKey \X Id)
MCDeltaKey == [x \in StateKey \X Id |-> x]
MCShrinks == (Content \X Content) \ {<<c1, c3>>}
============================================================================
