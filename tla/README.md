# A TLA+ model of Token Terminator

Token Terminator (`src/rtk_hermes_plus`) is a plugin that sits between a Hermes
agent and its model provider.  It stores large tool results in a private SQLite
vault, replaces them in provider requests by short *receipts* that name their
vault identifiers, replaces repeated terminal output by deltas, selects which
history a request carries, and accounts for what it saved.  Everything it does
is optional for the host: when a step fails, the host must get its original
request or result back ("fail open"), and whatever was left out must be
recoverable, byte for byte.

This directory holds TLA+ modules translated from that code, TLC configurations
that check them on small instances, and TLAPS proofs of what can be proved for
every instance.  Paths below are relative to the repository's root; modules of
the program are named without `src/rtk_hermes_plus/`.

## 1. Inventory

| Component | Source | State it keeps | Operations | Modelled by |
|---|---|---|---|---|
| Evidence vault | `storage.py` | tables `artifacts`, `artifact_observations`, `artifact_exposures`, `terminal_snapshots`, `vault_meta` | put (with retention), record and claim exposures, get | `EvidenceVault` |
| History catalog | `context_history.py` | table `tt_context_sources` | capture, find, read | `EvidenceVault` (capture), `HistorySelection` (find) |
| Request compiler | `compiler.py`, `enhancements.py` | none of its own | compile: store, preflight, claim, accept or send the original | `RequestPipeline` |
| Context compactor | `context_compactor.py`, `enhancements.py` | none | vault old tool results, collapse old turns | `RequestPipeline` (vaulting) |
| Plugin hooks | `plugin.py`, `v06.py` | none | request middleware, tool-result capture, session hooks, tool command | `RequestPipeline` (middleware, capture) |
| Terminal deltas | `temporal.py` | snapshot rows in the vault | transform | `TemporalDelta` |
| Async runtime | `async_runtime.py`, `cancellation.py` | token flag, registry of waiters | run synchronous work from a coroutine, cancel | `AsyncCancellation` |
| Working-state graph | `graph.py` | tables `graph_events`, `graph_nodes`, `graph_edges` | apply a batch, replay, state | `WorkingGraph` (apply, replay) |
| Context engine | `history_engine.py`, `hermes_engine.py`, `engine_bridge.py` | session, generation, capture flag, execution-local binding | lifecycle hooks, select, reduce | `ContextEngine` |
| Experiment ledger | `ledger.py` | tables `sessions`, `turns` | ensure, start, finish, finalize, record effects | `ExperimentLedger` (all but the effect counters) |
| Request metrics, token accounting | `storage.py`, `token_accounting.py`, `request_attribution.py` | tables `request_metrics` and its companions | upsert, invalidate, report | `RequestMetrics`; `ContextEngine` (for which request a saving is recorded) |
| Token budget | `token_budget.py` | lazily loaded tokenizer | measure | `RequestMetrics`, `SemanticReduction` |
| History selection | `history_selection.py` | score cache | choose what a request omits and recalls | `HistorySelection` |
| Call scope, chat targets | `call_scope.py`, `chat_target.py` | execution-local scope | classify a call, preserve a chat request | `ContextEngine` (outcome, status), `HistorySelection` (choice) |
| Jev gate, Context IR | `jev_context.py`, `context_ir.py`, `context_safety.py` | none | score and omit, encode | `SemanticReduction` |
| SkillGate, skill graph | `skillgate.py`, `skill_graph.py` | skill graph, catalog fingerprint | synchronise, route | `SkillRouting` |
| Rewriter, native compression | `rewrite.py`, `compress.py` | subprocesses, answer cache | rewrite a command, read a file, compress a result | `Rewriter` (processes, cache), `TemporalDelta` (recovery notes) |
| Metrics counters, learned policy, configuration, dashboards, CLI, installation, Rust crate, benchmarks | the other files | - | - | not modelled (section 8) |

How they interact.  All writers share one database file and serialise on
`BEGIN IMMEDIATE`; any number of processes may have it open.  The middleware
calls compiler, then compactor, then the optional semantic phases, and finally
records one exposure for each identifier in the request it hands over.  Nothing
holds a lock from one store call to the next, so between any two of them another
process may insert, and an insert may prune.  An exposure or a snapshot row is
what protects an artifact from pruning, so the *order* of put, pin and publish
is the core of the system's promise.  The async runtime runs the very same
synchronous hooks in executor threads and adds cancellation.

What is hard: puts, pins and prunings of several processes interleaving;
crashes between two transactions; store failures that are swallowed; retries of
a request; identifiers that two digests share; a byte counter kept apart from
the rows; loops, threads and tasks racing with a cancellation token; a skill
graph and a tokenizer that all threads share without a lock; a subprocess that is
cancelled while it is created, awaited or reaped; answers of a remote scorer kept
for later requests.  What makes each part correct is stated by the properties of
its module and, in one question each, in section 4.  The list of hazards, line by
line, is in `PROJECT.json` under `hazards`.

## 2. Plan

Done, in the order of what the system promises first:

1. `EvidenceVault` with `EvidenceArchive`, the abstract promise, and its proof.
2. The writers over the vault: `RequestPipeline`, `TemporalDelta` (terminal deltas
   and recovery notes), `SemanticReduction` (Jev and Context IR), with their proofs.
3. `AsyncCancellation` and `Rewriter`: cancellation, subprocesses; safety proved.
4. `ContextEngine` and `HistorySelection`, both proved.
5. `WorkingGraph` and `SkillRouting`, the two graphs, both proved.
6. `ExperimentLedger` and `RequestMetrics`, the two accounts, both proved.

Open:

7. The classification of a call (`call_scope.py`) against a reference definition.
8. The effect counters and the comparison statistics of `ledger.py`.

## 3. Modules

**`EvidenceArchive`** is what everybody else relies on: an identifier names at
most one content, a pinned identifier stays readable, unpinned ones may be given
up when something is deposited.

**`EvidenceVault`** models the tables as sets and functions, and one write
transaction as one action.  `PutAt` is `put_artifact` including
`_prune_for_insert`; `Victims` is the set of rows its loop deletes, in the order of
the query (`Before`: the last observation, the insertion, the identifier).
A put reads the wall clock before it waits for the transaction (`storage.py:527`),
so `began`, the time it stores, is any time up to that of its commit: a put
may commit after another one although its time is older, and a late observation
may carry a time that its row has passed already.  A known observation leaves the
times alone.  `clock` and `storedAt` (`history`) are history variables with the time
of the last commit and, for each row, of the transaction that stored its last new
observation; they assume that the wall clock is not set back.  `PutArtifact` is
the put of the modules that ask nothing of time: any reading of the clock, no
history.
`RecordExposure`, `ClaimInline`/`MayInline`, `Remember` and
`CaptureSource`/`IndexSource` are the other writers.  A transaction that raises
is rolled back, so an insert over capacity is simply not enabled; callers model
its exception by `~CanStore`.  Abstractions: an artifact's text is a member of
`Content`, which stands for its digest, and `Prefix` gives the 128 bits that make
the short identifier, so collisions are possible; a time is a number up to
`MaxTime`, an identifier has a place in the order of texts (`IdOrder`); the counters
`pruned_artifacts` and `pruned_bytes` are telemetry and left out.  That a put which
raises leaves nothing behind is SQLite's promise, not a result of the model.
Reopening the database runs
`_initialize`, which recomputes the byte counter: given `BytesExact` it changes
nothing.  Damage to stored bytes is outside the model.

**`RequestPipeline`** extends the vault with workers that run the middleware.
`StoreSlot`, `Preflight`, `Claimed`/`ClaimRefused`/`ClaimRaises`,
`AcceptCandidate`/`SendOriginal`, `Account` are `compile` with the token gate of
`enhancements.py`; `VaultResult`, `ReadBack`, `EndCompaction` are the compactor;
`Protect` and `Publish` are the end of `llm_request_middleware`.  `Fault` lets a
store call fail for an outside reason, `Die` kills a worker anywhere.  Both
substitutions are made only where the receipt is shorter, so "the candidate is
strictly smaller" is "it has a receipt", and the graph block, which is dropped
when it makes the request too large, changes nothing else.  The Jev and Context
IR phases are off, as by default.

**`TemporalDelta`** extends the vault with workers that run
`TemporalDeltaReducer.transform` or, for other tools, `NativeCompressor.transform`.
Both store the result and read it back (`StoreResult`, `Verify`).  The first then
looks up the snapshot, compares, remembers and pins both results (`LookUp` ...
`PinCurrent`); the second exposes the stored result (`ExposeNote`).  `deltas`
remembers what was returned in the place of a result.  Whether an excerpt is
shorter is chosen when the transform begins.

**`SemanticReduction`** extends the vault with workers that run the two last
reducers of the middleware.  `Score` ... `JevGate` are `JevSemanticReducer.reduce`;
`Baseline` ... `Inspect` are `ContextIRCompiler.reduce`; `Protect` and `Send` are the
end of the middleware.  Every measurement is a step of its own, because the
tokenizer that serves it may change between two of them (`TokenizerChanges`).
Abstractions: the messages of a request are distinct contents; which are scored,
and how, is free; a form costs a number of tokens, one more when the identifier
in it is the long one of a collided digest; a receipt costs one.  Pins are never
taken back, so those of a reduction that failed stay: the code does the same.

**`HistorySelection`** models `select_history` and what its two callers do with a
plan.  `Regions` and `NextBatch` are the grouping; `CacheHit`, `Scored` and
`ScorerFails` are a batch; `Recall`, `BeginShadow` and `EngineTakes`/`ChatTakes` the
rest.  `told` is a history variable: what the scorer ever said, and in which light.
`Omit` looks at a message once more when the plan is applied, and at the characters
the marker would save; a search of the catalog finds `FindLimit` entries, whether or
not the request still contains them.
Abstractions: a score is low, high or missing; a text is two sizes, in tokens and in
characters, and a set of words; what a learned policy permits is free.  Both callers hold the lock of the
engine, so one selection follows another.

**`AsyncCancellation`** models `_run_sync` and one token shared by some calls.
An action is a stretch of a coroutine between two awaits, a callback, or a
critical section of another thread; a `cancel()` posts to its waiters one by
one (`posting`) and a loop may close in between.  Work that raises an exception
ends its future like work that returns.

**`ContextEngine`** models the lifecycle hooks of the selectable engine and the
calls of the middleware.  `StartSession` ... `Compress` are the hooks: each holds
the engine's lock for all it does, so each is one action, and it is enabled only
while no call holds the lock (`Free`).  `bound` is the context variable of
`engine_bridge.py`; a call takes a copy when it is made (`Begin`), as the
asynchronous facade does, and may start much later.  `Enter` ... `Close` are one
call, with `lastTarget` for the attribute of the shared Runtime through which
`preserve_chat_request` tells `reduce_request` how it fared, and `tokenRow` and
`charRow` for the two accounts it leaves.  `overtaken` and `answers` are history
variables: which bindings a hook has outdated, and what the host got.
Abstractions: a request is reduced or it is not; why the engine refuses a
request beyond a stale binding or a failed capture is left open (`Refuse`); the
host retries after an answer only; token measurements and accounting writes
work; the attribution tables move with the token row.

**`WorkingGraph`** models the batches of `graph.py` and the exchange of logs
between databases.  A transaction goes step by step through the two phases of
`apply`: `ValidateNode`/`ValidateEdge` work on the copy of the graph and take the
snapshots, `WriteNode`/`WriteEdge` write them to the tables and cascade a
retirement a second time; `BeginReplay`, `SkipEvent` and `ImportEvent` are
`replay`.  `NodeFrom` and `EdgeFrom` say what a log means, independently of both
phases.  Abstractions: one transaction runs at a time, since each holds the write
lock of its database; the fields an operation writes are named by its event
(`by`), except that an edge keeps its endpoints and an update may give both, one
or none; identifiers are given as they are stored.

**`ExperimentLedger`** models `ledger.py` and the hooks of `plugin.py` that call
it.  An operation is a job of a worker thread: it reads Hermes' accounting
(`ReadHost`, outside any lock), ensures the session (`EnsureSession` or
`EnsureFails`), reads again and writes (`StartTurn`, `LookupTurn` then
`FinishTurn`, or `FinalizeSession`; `WriteFails` rolls back).  `LookupTurn` is a
step of its own because its SELECT comes before the transaction has begun.
Hermes (`Charge`, `SwitchModel`) and the process (`Restart`, perhaps in another
mode) are the environment; `window` is a history variable with what Hermes had
charged when a turn was reported.  Abstractions: one token count stands for all
counts and costs; effect counters, labels, fingerprints and time stamps are left
out; Hermes names a model whenever it can be read; a turn is reported by one
process.  That last one matters: the process lock is all that keeps the row of
`LookupTurn` from going stale.

**`RequestMetrics`** models the rows a request leaves.  A call measures four times
(`Measure`), with the tokenizer of the process (`hf`), which its first user loads
(`LoadTokenizer`, `TokenizerLoaded`) and any failure gives up; it writes a row of
characters, a row of tokens twice, and the attribution, each of which may fail.
`MetricRow` is the upsert followed by the measurement, `Overwritten` the update as
the trigger leaves it.  `CompilerWrites` and `LegacyWrites` are the other writers,
and `ReadStatement` is one SELECT of the report.  A tokenizer is a function of the
size of a text; two of them count differently.  The other library that is loaded
lazily, tiktoken, is not modelled: its flag is set before the import has ended
(`token_budget.py:195-204`), so a call that asks meanwhile counts characters, as one
does here whose tokenizer is given up.

**`SkillRouting`** models threads that route catalogs over the one skill graph,
which is replaced without a lock: `Begin` ... `Stamp` are `sync_catalog`, which
writes the fingerprint, loads, swaps the nodes and writes the fingerprint again;
`ScoreEntry` scores one skill at a time, `RelateNext` lets one relevant skill lift
those it is related to, `RequireNext` and `QueueNext` take what one skill requires
and look whether one of these is known, and `Rank` sorts and cuts.  Each of these
steps reads the graph once, so between any two of them another thread may replace
or clear it; `read` keeps which graphs a loop has met, for the properties.  A score
is a number of quarter points, a skill its rank among the folded names.  `Lifted`
and `RequiredClosure` are not in the code: they say what the loops should find.

**`Rewriter`** models the calls of rtk.  A call is made at a `Site`, of
`Rewriter.rewrite` (`Blocking`), `rewrite_async`, or `_rtk_read_async` (`Reads`).
Its process, its `communicate()` task and its place in the coroutine move
separately: `TimeOut`, `Observe` (the token) and `Interrupt` (the task, at each
await) compete with `Exit`, and `Reap` and `GiveUp` wait for the pipes to close.
`cache` is `RewriteCache` in its order of use, `said` a history variable.

**`MC...`** modules give the constants of a run their values.  Five of them hold
two or three questions: a variable chosen initially (`part`, `graph`, `account`) says
which of them a behaviour exercises.  They share no state that two would change at
once - in `MCSemanticReduction` it is the vault alone, its puts in the course of time,
and the vault with its reducers - so an interleaving of them would show nothing that
each does not.

**`...Proofs`**
modules hold the theorems.  Operators whose name begins with `Slip` are faulty
variants of the definition below them (a dropped check, a swapped order); no
specification uses them, they serve to show that a property would notice.

## 4. Runs

| Run | Question | Bounds, and why they are enough |
|---|---|---|
| `MCSemanticReduction` | The vault: do the tables stay consistent under every order of transactions, do they implement the archive, is nothing evicted for something staler?  The semantic reducers: is what they send recoverable, and does the final count confirm the search? | three artifacts of 1, 2 and 3 bytes, two with one prefix, five bytes of room: pruning, refusal, collision and reuse all occur.  Part `recency`: puts alone with three times and two callers, so that two puts commit in the other order than they read the clock, a late observation comes with an older time, a second caller makes a row recent again and a repeated one does not; without exposures, which leave a row or take it out of the comparison.  Part `vault`: all the transactions; here, and in `reducers`, `FewTimes` leaves one observer and the two times that any two rows need to be pruned in either order.  Part `reducers`: one reduction of up to three messages, two tokenizers that disagree about one of them, other writers who prune between any two of its steps |
| `MCRequestPipeline` | Are protected receipts recoverable, is the lease kept, does a retry decide the same of its recent results? | two workers, three requests, one store failure, lease of one: two requests race for the last exposure while captures prune |
| `MCRequestPipelineReceipts` | Is *every* published receipt recoverable? No: finding 1 | the same, two requests |
| `MCTerminal` | Can a delta or a note be undone for ever?  Does an rtk process outlive its call, does every call end, is an answer what rtk said? | two workers, three transforms, three outputs, room for two; three calls of rtk, of which two share the token and two the cache, for one command in two directories, a cache of one |
| `MCAsyncCancellation` | Wake-ups, registrations, counting; does every awaiting call end? | two sharers on two loops and one call without token, fairness below |
| `MCAsyncTaskCancel` | Does a cancelled task always raise? No: finding 2 | the same |
| `MCEngineSelection` | Does the engine only work on current requests, are savings had?  Is what a selection omits scored, needed and bound to its request? | one engine, two execution contexts, two threads, two requests of two sessions, three renewals: a stale binding in the other context, a call waiting through hooks, a retry.  Two requests after one another of three: two turns of one session that differ in the question, and a resumed tail with a long text; regions of one and two messages, two batches, a cache of two, searches that find two of three |
| `MCContextEngineTarget` | Is a reduced request accounted as reduced? No: finding 3 | the same in one execution context |
| `MCContextEngineRejected` | Is a character saving had? No: finding 4 | one thread |
| `MCGraphs` | The working graph: are the tables what the log means, and does replay reproduce it?  The skill graph: what can a stale or half-replaced graph do to a catalog? | two nodes, one edge, four events in batches of two, two databases, three events of the first's own and one of the second's: updates and retirements within and across batches, clashing identifiers, logs that extend or contradict each other.  Two threads with a catalog of five and of three skills, two sets of installed documents: a skill that is relevant, kept, nearly relevant by either score, required, unrelated, a required one that nobody installed; capped or not |
| `MCAccounting` | The ledger: are turns counted once, and is what a comparison takes one mode, one model and what was charged?  The metrics: do rows add up, name their tokenizer, and enter the report once? | two threads of one process, a resumed session with one turn, two failures, restarts or changes of model: every pair of them, in every position.  Two calls of one request, two shapes of it, the other two writers and one report at a time: every overlap of two calls, and a writer between any two statements |
| `MCExperimentLedgerEligible` | Is every comparable turn charged what Hermes charged? No: finding 5 | the same with one failure |

`CHECK_DEADLOCK FALSE` in the `MCAsync...` runs: every call may have ended and
every loop may be closed, which is a proper end.

`MCRequestPipeline` and `MCTerminal` have two times (`MaxTime = 1`), which prune any
two rows in either order.

In `MCTerminal` no two outputs share a prefix: an identifier is not
protected between the comparison and the exposure, so with colliding prefixes it
could be freed and reissued in between.  The same goes for `MCRequestPipeline`.

## 5. Fairness

`FairSpec` of `AsyncCancellation` assumes weak fairness of what event loops do:
run a ready callback, continue a task whose await is over, carry on a `cancel()`
that has begun.  Threads (`TakeJob`, `FinishJob`) and the environment owe
nothing, since an executor may be full and synchronous work may block for ever.

`RewriterFairness` assumes weak fairness of `Progress`, call by call: creating the
process, the time limit (`asyncio.wait` and `subprocess.run` have one on every
path), a wake-up by the token, the death of a killed process and the closing of its
pipes.  rtk itself owes nothing (`Exit` is not fair), and a cancelled task may be
cancelled again.  `CallsEnd` depends on the kill: without it a call would wait for
a process that never ends.

The other specifications have safety properties only.

## 6. Proofs

Each theorem holds for every value of the constants that satisfies the named
assumptions of the modules it is about.  They say that limits are natural numbers,
that a request has a message of the user (`IncomingAssumption`: `select_history` leaves
any other as it came), that a catalog is a finite set of skills whose scores are
finite and, as the default scorer's are, not negative (`CatalogsAssumption`,
`CardAssumption`, `DocumentsAssumption`),
that maps of constants are defined where they are used, and that the values which
stand for "nothing" are none of the values proper (`NoneIsNoRow`, `NoneIsNothing`,
`NoEventIsNothing`, `VerdictsAreAnswers`); TLC evaluates them in the runs.  Two
hypotheses are made where they are needed: `FinitelyManyCalls`, and
`PrefixesDiffer`: no two artifacts share the prefix of their digests.

`EvidenceVaultProofs` proves, for any contents, sizes, limits, sessions and
callers: the type invariant, that
references are held, identifiers unique, history sources pinned, prunings never
restricted, exposed identifiers kept for ever, contents never substituted, and
that the vault implements `EvidenceArchive`.  The invariant, `VaultInv`, is
inductive only with additions: captured sources are pinned already, and there are
finitely many rows (`Counted`).  The references rest on `Victims` containing unprotected rows only
(`VictimsUnprotected`), whatever the byte counter says.  `CapacityKept` rests on
`InsertCounts`: what an insert deletes and adds is what the counter loses and
gains.  `EvictOldestFirst` rests on `VictimsAreOldest`: of two candidates the one that
comes before in the pruning order has fewer bytes before it, so if the other is a
victim it is; and on `StampInv`: whatever clock readings puts come with, in
whatever order, a row's last observation does not lie after the transaction that stored
it.  So what is evicted was last seen no later than what is spared was last stored.
Both count bytes with lemmas on sums over finite sets (`SumAdds`, `SumGrows`), which
go back to the definition in the community modules: that the recursive function exists
and is unique is shown by looking at a smallest set for which it would not be so
(`SmallestSubset`), since no induction theorem can be used.
  The second part of the module
is what its users need: under `PrefixesDiffer` a short identifier names one
content, held or not (`AllShort`, `StoreSound`, `ReferenceSound`).

`RequestPipelineProofs` proves `ProtectedRecoverable`, `LeaseBound` and
`RetrySendsTheSame` under `PrefixesDiffer`, for any workers, requests, faults and
capacities.  Without the hypothesis an identifier could be freed by a pruning and
reissued between the compilation and its exposure.  With it the groups of the
compiler, which go by identifier, are the equal results of a request.
`PipelineInv` says of each group how far the choice between receipt and full
text has come (`Reached`), and of each published request what it shows
(`Shows`) and what protects it (`Protects`).  It rests on three facts about the
steps of everybody else (`Onward`): exposures are never taken back; whatever
is shown inline beyond the lease is in `offLease`; and a denial is final for a
request none of whose claims has failed, because the uses of a lease only grow.
The last one is why a retry decides the same.  It decides so of the *recent*
results only: an old result that the compiler leaves inline may become a receipt
of the compactor in one attempt and be left, because reading it back failed
the check, in the other.  An earlier form of the property, which compared whole
requests, held on the instance of the run but not in general.

`TerminalProofs` proves `DeltasRecoverable` on the invariant of the vault, under
`PrefixesDiffer`, for any workers, results and capacities.  `DeltaInv` adds
that every row answers to its short identifier, and what a worker
knows at each stage (`Transforming`): since an identifier then names one content
whether or not it is held, that knowledge survives whatever others do, and the
exposures at the end turn it into a promise.  It also proves `NoProcessSurvives`:
`ProcessInv` follows a process through its call, alive only while the call waits
for it, and gone when its output is complete or given up.  And `AnswersAreReal`:
`AnswerInv` says that an entry of the cache, like the answer of a call, is what rtk
said of that command in that directory, and that the output of a process that
was killed is nobody's answer.  The types (`TerminalTypeOK`) hold of both parts, and
do not need the prefixes to differ (`ShapeInv`).

`SemanticReductionProofs` proves `SentRecoverable` on the invariant of the vault,
prefixes shared or not.  `ReductionInv` says that whatever a draft names is pinned
under that name (`Backed`), from the transaction that stored it; hence neither the
time a request waits nor the failing exposures at its end matter.  It proves
`SearchHolds` too, for any tokenizers and counts: `Searching` carries what the trials
found - the forms that were chosen make the request shorter by the tokenizer of its
baseline - through the storing and reading back of one message after the other, which
neither adds nor drops one (`TrialSearches`, `EncodeSearches`).  `SearchHolds` says
so where the final gate counts again: only an identifier longer than the trials
assumed can then make the request too long.
`CapacityKept` holds under the reducers as it does under the vault's own
transactions, and so do the types.

`AsyncCancellationProofs` proves `NoLostWakeup`, `NoRegistrationLeaks`,
`CancellationsAccounted` and the types for any number of calls and loops (for the
count, which is a cardinality, a finite number: `FinitelyManyCalls`).  The
invariant says in addition that an unfinished waiter belongs to a call that has
not ended (`WaitersBelong`), that such a call's loop is open (`LoopsStayOpen`),
and what the registry holds (`RegistryExact`): a wake-up is lost only when it is
posted to a closed loop, and then no one sleeps there.

`AccountingProofs` proves the properties of both accounts.  Of the ledger:
`TurnsCountedOnce`, `MeasuredTurnsAreReal` and `ComparisonIsFair`, for any
sessions, turns, threads, processes and failures.  `LedgerInv` adds that a reading
in a thread's hands is not ahead of Hermes (`JobsSane`), that the moments kept in
`window` lie in the order of the readings (`WindowsPast`), and that a row's baseline
and charge lie between those (`TurnsReal`).  A turn is counted once because the
row that `finish_turn` looked up outside its transaction is still the same when it
writes: one thread of a process at a time gets there.  Of the metrics:
`MeasuredRowsAddUp`, from sizes that decrease from stage to stage, with the
columns that the property does not mention, which later updates read (`Balanced`);
`ReportCountsOnce`, because a token row is never taken back (`ReportBehind`); and
`OneTokenizerRowsReal`, because a label of one tokenizer is that of every measurement
it stands for.  Since the accounts share no variable, the types of both follow.

`ContextEngineProofs` proves the types, that an engine's lock has one holder, and
`ReductionIsCurrent`, for any number of engines, contexts, threads and requests.
`ReductionIsCurrent` says nothing about a binding at rest, so it is not
inductive.  `EngineInv` adds that no binding, in a context or a call, is ahead of
its engine's generation and that one of the current generation has not been
outdated (`BindingsKeepUp`, `CallsKeepUp`), and that a call that holds the lock
still matches its engine (`HoldersMatch`).  A hook either leaves the generation
or moves it past every binding there is (`HookRenewsOrKeeps`), and it cannot run
while the lock is held.  `SavingsAreReal` needs an invariant of its own, since it
speaks of answered requests only: `SavingInv` says that a saving in a row was
had by an answer or is that of a call which is yet to answer with its reduction or
to correct the row (`Pending`), that one call at a time serves a request, and that
the status is `failed_open` until the last moment (`StateFresh`).

The second part of the module is about `HistorySelection`, for any requests, sizes,
costs, limits and policies: `OmissionsAreScored`, `EditsAreBound` and
`OmissionsAreNeeded`.  Grouping and omitting are folds over the positions of a
request.  That such a recursive function exists is shown by extending one for the
positions up to k - 1 to k (`FoldExists`), and what it returns by looking at a
smallest set of positions for which it would be otherwise: every region is a set of
plain positions before the recent ones in which structured evidence is alone
(`RegionsSound`), and what is omitted was needed before its last element was added
(`OmissionsNeeded`).  `SelectionInv` then says that an entry of the cache repeats
what the scorer said (`Backed`), in the light that its key names, and that the plan
in force, which is the first pass's even while a shadow pass is under way, rests
on such answers (`PlanSound`).  The key holds the surroundings of the request and the
number of each region; an earlier form of the model left the numbers out, which
the run could not tell and the proof could not do without (`KeyParts`): the code has
them in the names of its candidates.

`WorkingGraphProofs` proves the types, `NoDanglingEdges`, `LogIsState`,
`ComparableReplayAccepted` and `ReplayKeepsEvents`, for any databases, nodes, edges,
events, batches and limits.  Its invariant, `GraphInv`, has three parts.  A log is
*lawful*: each event was valid on the tables that the events before it make.
The tables are what the log means (`Consistent`), and appending an event changes
that meaning as the operation changes the tables (`ConsistentAppended`); here it
matters that an operation is valid only on what is active, so an edge's or a node's
retirement is the last thing that happens to it.  And between the tables a
transaction has written and the copy it validated on there is a path of tables
(`Path`), one step for each snapshot: validation extends it, writing shortens it,
so a snapshot is always what its operation makes of the very tables it is written
to.  For a replay, `Continues` and `Repeats` say how far it has got when one log
continues the other: the next event is either known or valid, because the tables
are those on which it was valid when it was first logged.

The second part of the module is about `SkillRouting`, for any threads, catalogs,
documents, scores and caps: `MatchesStay`, `UnrelatedStayOut`,
`MembersAreOrderFree`, and with the types of both graphs `GraphsTypeOK`.  A loop may
meet another graph at each of its steps, so `SkillInv` says of the scores and the
queue what survives any graph: a lift lowers no score, leaves what scored nothing,
and lifts nothing to what is always kept (`Kept`, by `LiftKeeps`); what the queue has
found is required in the graphs that were read (`Closing`, which only grows:
`ClosureGrows`).  A skill without a score that is sent was therefore required, and
by skills that are sent: the relevant ones precede it in the order that the cap cuts
(`CapIsAnInitialPart`).  While a loop has met one graph only, `SkillInv` says more:
the score of a skill below the limit is its first score and the sum of the boosts
of the skills visited so far (`Visited`), a sum in which no order appears, and what
has left the queue requires nothing that is not found.  The reference definition
`Lifted` is a fold; `LiftedVisits` finds the same sum in it, again by a smallest
length for which it would be otherwise, and `RelevantByPush` concludes that every
order lifts the same skills.  The proof changed the model in two places.  The closure
once ranged over the skills of the catalogs and the graph alone, and a required
skill that nobody knows made it contain everything; `MCBefore` now has one.  And the
loops were steps of their own, each with one graph, which hid that a loop may read
several.

Only model-checked, and why:

- everything about liveness (`EveryCallReturns`, `CallsEnd`), which is out of the
  prover's reach.

The theorems on
`IdsUnique`, `SourcesPinned`, `PruneNeverRestricted`, `ExposedForever` and
`NeverSubstituted` are proved without a run of their own: `KeepsArchivePromise`
and `ReferencesHeld`, which the run checks, are what a user of the vault sees of
them.

## 7. Findings

1. **A receipt may be published for an artifact that is gone.**  The exposure
   that protects a receipt is recorded after the artifact was stored and read
   back, and its failure is logged and ignored (`plugin.py:338-351`).  If another
   process's insert prunes the artifact in between, the insert of the exposure
   violates its foreign key and the request goes out all the same.
   `README.md:242` promises recoverable payloads.  Run `MCRequestPipelineReceipts`.
   `ProtectedRecoverable` is what does hold: receipts whose exposure was
   recorded stay recoverable for ever.
2. **A cancellation can be swallowed.**  `_run_sync` awaits its waiter under
   `suppress(asyncio.CancelledError)` (`async_runtime.py:75`).  A `task.cancel()`
   that arrives during that await is suppressed too: the call returns normally
   although `README.md:515` says that cancelling the task raises.  Run
   `MCAsyncTaskCancel`.
3. **A reduced chat target may be accounted as sent unchanged.**
   `reduce_request` learns how `preserve_chat_request` fared from
   `Runtime._last_chat_target` (`history_engine.py:267`), which every call of the
   middleware on the same Runtime first empties (`v06.py:91`).  If another thread
   does so in between, the status stays `failed_open` and the finally block
   overwrites the recorded saving, although the reduced request is returned.
   Run `MCContextEngineTarget`.
4. **A rejected plan keeps its character saving.**  When the final gate rejects
   the plan, the token row is corrected - "Never count a rejected inner saving as
   real savings" (`history_engine.py:307`) - but the row the shared pipeline
   wrote to `request_metrics` is not.  Run `MCContextEngineRejected`.
   `SavingsAreReal` is what does hold, of the token row.
5. **A turn may be charged its whole session.**  `start_turn` reads Hermes'
   accounting a second time for the turn's baseline (`ledger.py:405`).  If that
   reading fails and the first did not, the baseline is zero and the session is
   not contaminated, so a comparison takes the turn with all the session was ever
   charged.  `tests/test_ledger.py:242` says that an unavailable accounting
   contaminates.  Run `MCExperimentLedgerEligible`.  `MeasuredTurnsAreReal` is
   what does hold: of turns whose baseline could be read.

Smaller observations, which no run contradicts:

- Which skills SkillGate finds relevant or required does not depend on the order of
  a set of names, as long as the graph stays (`MembersAreOrderFree`), but the order in
  which it renders them, and under a cap which of them it sends, may, when lifts of
  different size meet; `README.md:160` calls SkillGate deterministic.
- If two threads load different documents, the older nodes may stay under the newer
  fingerprint, and a failed load is not retried before the catalog changes
  (`skill_graph.py:308-324`).  `MatchesStay` says what a stale graph cannot do.
- A task cancellation that arrives in the finally clause of a rewrite is swallowed
  like the one of finding 2.
- The omissions of a chat target are chosen greedily: each one that is made was
  needed when it was made, and the last one still is (`OmissionsAreNeeded`), but
  there may be a smaller choice.
- A semantic reduction that fails after it has stored something leaves its pin, and
  the artifact with it, for ever.

## 8. Not modelled

- Text transformations without state: compression filters, the encoding of the
  Context IR, the scoring of terms, parsing of skills and configuration.  What they
  decide (shorter or not, relevant or not) is chosen freely or given by constants.
- Numeric model training and evaluation (`policy_*.py`, `learned_policy.py`): floats
  and files, offline.
- Read-only views: dashboards, recovery views, search and paging of the vault, the
  status reads of the engine, comparison statistics of the ledger.
- The classification of a call and the lookup of a target's input budget
  (`call_scope.py`, `chat_target.py`), and the proposal of Jev for a chat request
  when no engine is installed.
- Metrics counters, the command line, installation, the Rust crate, the benchmarks.
- Power loss under `synchronous=NORMAL`, which may drop committed transactions; a
  crash of a process is modelled.
