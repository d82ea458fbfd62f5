--------------------------- MODULE RequestMetrics ---------------------------
(***************************************************************************)
(* What the vault remembers of the savings of each provider request, and   *)
(* what the status report and the dashboard make of it.                    *)
(*                                                                         *)
(* A call of the middleware (v06.py) measures the request with a tokenizer *)
(* that all calls share and load lazily, and writes a row of characters    *)
(* (plugin.py), a row of tokens twice (enhancements.py, then v06.py) and   *)
(* the attribution to components, each in a transaction of its own that    *)
(* may fail.  Several calls may carry one request identifier: retries, and *)
(* workers that a cancelled adapter has left behind.  Other writers of the *)
(* character rows are the compiler alone and the 0.3.0 release, which does *)
(* not know the newer columns.                                             *)
(*                                                                         *)
(* The status report reads in autocommit mode, one statement after the     *)
(* other; the dashboard reads in one transaction.                          *)
(***************************************************************************)
EXTENDS Integers, Sequences

CONSTANTS
  Request,     \* request identities (session_id, request_id)
  Call,        \* calls of the middleware
  Shapes,      \* bound: the sizes of a request on its way through the stages
  HasTiktoken, \* tiktoken knows the model
  NoRow

ASSUME MetricsAssumption ==
  /\ HasTiktoken \in BOOLEAN
  /\ Shapes \subseteq {p \in [raw : Nat, routed : Nat, compiled : Nat, final : Nat] :
                       p.final <= p.compiled /\ p.compiled <= p.routed /\ p.routed <= p.raw}
ASSUME TokenRowsAreRows ==
  NoRow \notin [raw : Nat, final : Nat, label : SUBSET {"huggingface", "tiktoken", "character-fallback"}]

VARIABLES
  charRows,    \* table request_metrics
  tokenRows,   \* table request_token_metrics
  partRows,    \* table request_component_metrics: who wrote its rows
  hf,          \* the lazily loaded tokenizer of TokenBudgetAdapter
  calls,       \* what each call is doing
  report       \* the status report being read

metricsVars == <<charRows, tokenRows, partRows, hf, calls, report>>

----------------------------------------------------------------------------
(* The tokenizer. *)

\* Two tokenizers count a text differently.
Tokens(backend, chars) == IF backend = "huggingface" THEN chars ELSE chars + 1

Fallback == IF HasTiktoken THEN "tiktoken" ELSE "character-fallback"
Uncounted == [tokens |-> 0, backend |-> "character-fallback"]
Measurement(backend, chars) ==
  IF backend = "character-fallback" THEN Uncounted
  ELSE [tokens |-> Tokens(backend, chars), backend |-> backend]
Available(m) == m.backend # "character-fallback"

\* _hf_attempted is set before the tokenizer is loaded: who comes meanwhile is
\* told that there is none.
Backends == IF hf = "ready" THEN {"huggingface", Fallback} ELSE {Fallback}

\* The text a step of a call measures.
Measured(c) ==
  LET p == calls[c].shape
  IN  CASE calls[c].pc = "raw" -> p.raw
        [] calls[c].pc = "routed" -> p.routed
        [] OTHER -> p.final

Running(c) == calls[c].pc \notin {"idle", "done"}
MeasuringSteps == {"raw", "routed", "final05", "final06"}
AfterMeasuring(pc) ==
  CASE pc = "raw" -> "routed" [] pc = "routed" -> "metric"
    [] pc = "final05" -> "token05" [] OTHER -> "token06"

\* The first that measures loads the tokenizer.
LoadTokenizer(c) ==
  /\ calls[c].pc \in MeasuringSteps /\ hf = "untried"
  /\ hf' = "loading"
  /\ calls' = [calls EXCEPT ![c].loads = TRUE]
  /\ UNCHANGED <<charRows, tokenRows, partRows, report>>

TokenizerLoaded(c) ==
  /\ Running(c) /\ calls[c].loads
  /\ hf' \in {"ready", "absent"}
  /\ calls' = [calls EXCEPT ![c].loads = FALSE]
  /\ UNCHANGED <<charRows, tokenRows, partRows, report>>

\* measure_text: a tokenizer that fails is given up for good.
Measure(c) ==
  /\ calls[c].pc \in MeasuringSteps /\ hf # "untried" /\ ~calls[c].loads
  /\ \E b \in Backends :
       /\ hf' = IF hf = "ready" /\ b # "huggingface" THEN "absent" ELSE hf
       /\ LET m == Measurement(b, Measured(c))
          IN  calls' = [calls EXCEPT ![c].pc = AfterMeasuring(@),
                 ![c].rawTok = IF calls[c].pc = "raw" THEN m ELSE @,
                 ![c].routedTok = IF calls[c].pc = "routed" THEN m ELSE @,
                 ![c].finalTok = IF calls[c].pc \in {"final05", "final06"} THEN m ELSE @]
  /\ UNCHANGED <<charRows, tokenRows, partRows, report>>

----------------------------------------------------------------------------
(* Rows of request_metrics. *)

CharRow == [raw : Nat, compiled : Nat, saved : Nat, final : Nat, compactor : Nat,
            endToEnd : Nat, measured : BOOLEAN]

\* A row as the legacy columns alone make it.
LegacyRow(raw, compiled) ==
  [raw |-> raw, compiled |-> compiled, saved |-> raw - compiled,
   final |-> 0, compactor |-> 0, endToEnd |-> 0, measured |-> FALSE]

\* Slip: without the trigger the newer columns keep describing what was replaced.
SlipNoTrigger(row, raw, compiled) ==
  [row EXCEPT !.raw = raw, !.compiled = compiled, !.saved = raw - compiled]

\* An update of the legacy columns.  The trigger invalidate_request_metric_end_to_end
\* clears the others of a measured row; those of an unmeasured row are zero already.
Overwritten(row, raw, compiled) ==
  IF row.measured THEN LegacyRow(raw, compiled)
  ELSE [row EXCEPT !.raw = raw, !.compiled = compiled, !.saved = raw - compiled]

\* INSERT ... ON CONFLICT ... DO UPDATE ... WHERE end_to_end_measured = 0 OR ? = 1.
Upserted(row, raw, compiled, measured) ==
  IF row = NoRow THEN LegacyRow(raw, compiled)
  ELSE IF row.measured /\ ~measured THEN row ELSE Overwritten(row, raw, compiled)

\* record_request_metric, one transaction: the upsert, then the measurement.
MetricRow(row, raw, compiled, final, measured) ==
  LET base == Upserted(row, raw, compiled, measured)
  IN  IF ~measured THEN base
      ELSE [base EXCEPT !.final = final, !.compactor = compiled - final,
                        !.endToEnd = raw - final, !.measured = TRUE]

----------------------------------------------------------------------------
(* A call of the middleware. *)

NoCall == [pc |-> "idle"]
StepTo(c, pc) == calls' = [calls EXCEPT ![c].pc = pc]

BeginCall(c, r) ==
  /\ calls[c].pc = "idle"
  /\ \E p \in Shapes :
       calls' = [calls EXCEPT ![c] =
         [pc |-> "raw", request |-> r, shape |-> p, loads |-> FALSE, rawTok |-> Uncounted,
          routedTok |-> Uncounted, finalTok |-> Uncounted]]
  /\ UNCHANGED <<charRows, tokenRows, partRows, hf, report>>

\* The character row; its failure is swallowed.
RecordMetric(c) ==
  /\ calls[c].pc = "metric"
  /\ LET r == calls[c].request
         p == calls[c].shape
     IN  \/ charRows' = [charRows EXCEPT ![r] =
                           MetricRow(@, p.routed, p.compiled, p.final, TRUE)]
         \/ UNCHANGED charRows
  /\ StepTo(c, "final05")
  /\ UNCHANGED <<tokenRows, partRows, hf, report>>

\* Slip: the row is labelled with the tokenizer of the final measurement.
SlipLabelOfFinal(raw, final) == {final.backend}

\* tokenizer_backend: "a|b" when two tokenizers were used.
Label(raw, final) == {raw.backend, final.backend}

\* RequestTokenAccounting.record: nothing is written when a measurement is missing or
\* the count has grown, and then an earlier row of the request stays.
RecordTokens(c, raw) ==
  LET final == calls[c].finalTok
      fits == Available(raw) /\ Available(final) /\ final.tokens <= raw.tokens
  IN  IF ~fits THEN UNCHANGED tokenRows
      ELSE \/ tokenRows' = [tokenRows EXCEPT ![calls[c].request] =
                [raw |-> raw.tokens, final |-> final.tokens, label |-> Label(raw, final)]]
           \/ UNCHANGED tokenRows

\* enhancements.py records routed -> final, v06.py then original -> final.
RecordRoutedTokens(c) ==
  /\ calls[c].pc = "token05"
  /\ RecordTokens(c, calls[c].routedTok)
  /\ StepTo(c, "final06")
  /\ UNCHANGED <<charRows, partRows, hf, report>>

RecordAllTokens(c) ==
  /\ calls[c].pc = "token06"
  /\ RecordTokens(c, calls[c].rawTok)
  /\ StepTo(c, "parts")
  /\ UNCHANGED <<charRows, partRows, hf, report>>

\* The eight component rows are written in one transaction.
RecordParts(c) ==
  /\ calls[c].pc = "parts"
  /\ \/ partRows' = [partRows EXCEPT ![calls[c].request] =
                       [raw |-> calls[c].shape.raw, final |-> calls[c].shape.final]]
     \/ UNCHANGED partRows
  /\ StepTo(c, "done")
  /\ UNCHANGED <<charRows, tokenRows, hf, report>>

\* The process that runs the call ends: what it loaded goes with it.
Die(c) ==
  /\ Running(c)
  /\ calls' = [d \in Call |-> IF Running(d) THEN [calls[d] EXCEPT !.pc = "done", !.loads = FALSE]
                              ELSE calls[d]]
  /\ hf' = "untried"
  /\ UNCHANGED <<charRows, tokenRows, partRows, report>>

----------------------------------------------------------------------------
(* Other writers of the character rows. *)

\* RequestCompiler.compile with record_metric.
CompilerWrites(r) ==
  /\ \E p \in Shapes :
       charRows' = [charRows EXCEPT ![r] = MetricRow(@, p.routed, p.compiled, 0, FALSE)]
  /\ UNCHANGED <<tokenRows, partRows, hf, calls, report>>

\* The 0.3.0 writer updates its columns whatever the row says.
LegacyWrites(r) ==
  /\ \E p \in Shapes :
       charRows' = [charRows EXCEPT ![r] =
         IF @ = NoRow THEN LegacyRow(p.raw, p.compiled) ELSE Overwritten(@, p.raw, p.compiled)]
  /\ UNCHANGED <<tokenRows, partRows, hf, calls, report>>

----------------------------------------------------------------------------
(* RequestTokenAccounting.summary, as the requests that each number covers. *)

MeasuredRequests == {r \in Request : charRows[r] # NoRow /\ charRows[r].measured}
TokenRequests == {r \in Request : tokenRows[r] # NoRow}

\* Slip: the characters are summed before the tokens.
SlipCharactersFirst == <<"eligible", "fallback", "exact">>

ReadOrder == <<"eligible", "exact", "fallback">>

NoReport == [read |-> 0, eligible |-> {}, exact |-> {}, fallback |-> {}]

\* Each SELECT sees the tables as they are when it runs.
ReadStatement ==
  /\ report.read < Len(ReadOrder)
  /\ report' = [[report EXCEPT !.read = @ + 1] EXCEPT ![ReadOrder[report.read + 1]] =
       CASE ReadOrder[report.read + 1] = "eligible" -> MeasuredRequests
         [] ReadOrder[report.read + 1] = "exact" -> TokenRequests
         [] OTHER -> MeasuredRequests \ TokenRequests]
  /\ UNCHANGED <<charRows, tokenRows, partRows, hf, calls>>

ForgetReport ==
  /\ report.read = Len(ReadOrder)
  /\ report' = NoReport
  /\ UNCHANGED <<charRows, tokenRows, partRows, hf, calls>>

----------------------------------------------------------------------------
MetricsInit ==
  /\ charRows = [r \in Request |-> NoRow]
  /\ tokenRows = [r \in Request |-> NoRow]
  /\ partRows = [r \in Request |-> NoRow]
  /\ hf = "untried"
  /\ calls = [c \in Call |-> NoCall]
  /\ report = NoReport

MetricsNext ==
  \/ \E c \in Call, r \in Request : BeginCall(c, r)
  \/ \E c \in Call :
       \/ LoadTokenizer(c) \/ TokenizerLoaded(c) \/ Measure(c)
       \/ RecordMetric(c) \/ RecordRoutedTokens(c) \/ RecordAllTokens(c) \/ RecordParts(c)
       \/ Die(c)
  \/ \E r \in Request : CompilerWrites(r) \/ LegacyWrites(r)
  \/ ReadStatement \/ ForgetReport

MetricsSpec == MetricsInit /\ [][MetricsNext]_metricsVars

----------------------------------------------------------------------------
MetricsTypeOK ==
  /\ charRows \in [Request -> CharRow \cup {NoRow}]
  /\ \A r \in Request :
       /\ tokenRows[r] # NoRow => DOMAIN tokenRows[r] = {"raw", "final", "label"}
       /\ partRows[r] # NoRow => DOMAIN partRows[r] = {"raw", "final"}
  /\ hf \in {"untried", "loading", "ready", "absent"}
  /\ DOMAIN calls = Call
  /\ report.read \in 0..Len(ReadOrder)

\* The savings of a measured row add up to the difference of its two ends, and a row
\* that is not measured claims nothing (storage.py:345-349), whichever of the three
\* writers wrote it last and over whose row.
MeasuredRowsAddUp ==
  \A r \in Request : charRows[r] # NoRow =>
    LET row == charRows[r]
    IN  IF row.measured
        THEN /\ row.endToEnd = row.raw - row.final
             /\ row.endToEnd = row.saved + row.compactor
             /\ row.endToEnd >= 0
        ELSE row.endToEnd = 0 /\ row.compactor = 0

\* The status report counts the saving of a request in tokens or in characters, never
\* in both, although its statements see different states of the tables.
ReportCountsOnce == report.exact \cap report.fallback = {}

\* A token row that names one tokenizer holds the counts of that tokenizer for the
\* request before and after, although another call may load the tokenizer, or lose
\* it, between the two measurements.
OneTokenizerRowsReal ==
  \A r \in Request : tokenRows[r] # NoRow => \A b \in tokenRows[r].label :
    tokenRows[r].label = {b} =>
      \E c \in Call : /\ calls[c].pc # "idle" /\ calls[c].request = r
                     /\ tokenRows[r].final = Tokens(b, calls[c].shape.final)
                     /\ tokenRows[r].raw \in {Tokens(b, calls[c].shape.raw),
                                             Tokens(b, calls[c].shape.routed)}
============================================================================
