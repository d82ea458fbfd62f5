------------------------- MODULE MCExperimentLedger -------------------------
(* One session and two threads of a process that may restart in another mode. *)
EXTENDS ExperimentLedger, TLC

CONSTANTS s1, p1

MCSessionOf == [t \in Turn |-> s1]
MCProcessOf == [w \in Worker |-> p1]
MCTurnProcess == [t \in Turn |-> p1]
MCSymmetry == Permutations(Worker) \cup Permutations(Mode) \cup Permutations(Model)
============================================================================
