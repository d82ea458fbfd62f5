----------------------------- MODULE MCTerminal -----------------------------
(* What happens to one tool call on its way out and back, in two parts that   *)
(* share no state: the command is rewritten by rtk subprocesses, and the      *)
(* result is replaced by a delta or an excerpt over the vault.  A behaviour   *)
(* exercises the part that "part" names.  An asynchronous rewrite and a read  *)
(* of a file share a token; a thread rewrites the same command in another     *)
(* directory.  The cache has room for one answer.                             *)
EXTENDS MCTemporalDelta, Rewriter

CONSTANTS async, thread, reader

VARIABLE part

MCCommand == [c \in {async, thread, reader} |-> "ls"]
MCDirectory == [c \in {async, thread, reader} |-> IF c = thread THEN "other" ELSE "here"]

TerminalInit == part \in {"rtk", "results"} /\ TemporalInit /\ RewriterInit

TerminalNext ==
  /\ UNCHANGED part
  /\ \/ part = "results" /\ TemporalNext /\ UNCHANGED rewriterVars
     \/ part = "rtk" /\ RewriterNext /\ UNCHANGED vars

TerminalSpec ==
  TerminalInit /\ [][TerminalNext]_<<part, vars, rewriterVars>> /\ RewriterFairness

\* The types of both parts.
TerminalTypeOK == TemporalTypeOK /\ RewriterTypeOK
=============================================================================
