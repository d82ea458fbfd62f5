-------------------------- MODULE MCEngineSelection --------------------------
(* The context engine: the hooks and calls that lead to a reduction, and the  *)
(* selection of history inside one.  The lock of the engine makes the second  *)
(* a matter of one request after the other; "part" says which is exercised.   *)
EXTENDS MCContextEngine, HistorySelection

CONSTANTS a, b, g, l, s, t, u1, u2, u3

VARIABLE part

Text == {a, b, g, l, s, t, u1, u2, u3}
ByDefault(x, f) == f @@ [m \in Text |-> x]

MCUser == {u1, u2, u3}
MCProse == {a, b, g, l} \cup MCUser
MCStructured == {s}
MCGuarded == {g}
MCWords == [m \in Text |-> IF m \in {a, b, g, u3} THEN {"w"} ELSE {}]
MCSize == ByDefault(2, l :> 6)
MCCost == ByDefault(2, s :> 4)
MCIRCost == ByDefault(1, s :> 3)
MCIRSize == ByDefault(1, <<>>)

\* A tool result, a record, prose and a guarded text before one question or
\* another; and what is left of a session that its host resumed, a long text first.
MCIncoming == {<<t, s, a, g, u1>>, <<t, s, a, g, u2>>, <<l, b, u3>>}

MCPolicyMode == {"shadow", "active"}

EngineInit == part \in {"calls", "selection"} /\ Init /\ SelectionInit

EngineNext ==
  /\ UNCHANGED part
  /\ \/ part = "calls" /\ Next /\ UNCHANGED selectionVars
     \/ part = "selection" /\ SelectionNext /\ UNCHANGED vars

EngineSpec == EngineInit /\ [][EngineNext]_<<part, vars, selectionVars>>
============================================================================
