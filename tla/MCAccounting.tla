---------------------------- MODULE MCAccounting ----------------------------
(* The two accounts the program keeps, which share no table and no lock: the *)
(* experiment ledger, with two threads of a process that may restart in      *)
(* another mode, and the request metrics of the vault, with two calls of one *)
(* request.  A behaviour exercises the account that "account" names.         *)
EXTENDS MCExperimentLedger, RequestMetrics

VARIABLE account

\* A request that only the compiler makes smaller, and one that SkillGate does too.
MCShapes == {[raw |-> 2, routed |-> 2, compiled |-> 1, final |-> 1],
             [raw |-> 2, routed |-> 1, compiled |-> 1, final |-> 0]}

MCAccountingSymmetry == MCSymmetry \cup Permutations(Call)

AccountingInit == account \in {"ledger", "metrics"} /\ Init /\ MetricsInit

AccountingNext ==
  /\ UNCHANGED account
  /\ \/ account = "ledger" /\ Next /\ UNCHANGED metricsVars
     \/ account = "metrics" /\ MetricsNext /\ UNCHANGED vars

AccountingSpec ==
  AccountingInit /\ [][AccountingNext]_<<account, vars, metricsVars>>

\* Both accounts keep their shape: a turn of the ledger has its session, the threads
\* of a process finish one turn at a time (the lock taken at ledger.py:455), and no call
\* or report of the metrics stands outside its steps.
AccountingTypeOK == LedgerTypeOK /\ MetricsTypeOK
=============================================================================
