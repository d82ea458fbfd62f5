--------------------------- MODULE HistorySelection ---------------------------
(***************************************************************************)
(* select_history (history_selection.py) and its two callers: the context  *)
(* engine (reduce_request, history_engine.py) and, when a chat request     *)
(* exceeds its budget, preserve_chat_request (chat_target.py).             *)
(*                                                                         *)
(* Old messages are grouped into regions, regions into batches, and a      *)
(* remote scorer is asked about each batch together with the current       *)
(* request.  Answers are kept in a small cache.  Messages of low regions   *)
(* are replaced by references to the history catalog; messages of earlier  *)
(* requests that mention a word of the current one are recalled.  Both     *)
(* callers hold the engine's lock, so requests follow one another.         *)
(*                                                                         *)
(* The messages of one request are distinct contents; a score is "low" or  *)
(* "high" against the threshold, or "missing".                             *)
(***************************************************************************)
EXTENDS Naturals, Sequences, FiniteSets, FiniteSetsExt, SequencesExt

CONSTANTS
  User, Prose, Structured,  \* messages of the user, and plain messages
  Guarded,        \* protected_prose
  Encodable,      \* messages for which the Context IR has a form
  Words,          \* message -> terms of its text
  Size,           \* message -> characters of its region entry
  Cost, IRCost,   \* message -> tokens, and tokens of its Context IR form
  IRSize,         \* message -> characters of its Context IR form
  ReceiptCost, ReceiptSize,  \* tokens and characters of a reference
  Incoming,       \* the requests the host sends: sequences of messages
  ProtectLast, RegionChars, RecallSources, MaxBatches,  \* EngineLimits
  FindLimit,                                            \* matches a search returns
  MaxCandidateChars, MaxCandidates, MaxStateChars,      \* config.jev_max_*
  CacheSize,
  PolicyMode,     \* values config.learned_policy_mode may have
  Budget,         \* input budget of a chat target
  MaxRequests     \* bound: requests begun

\* A request has a message of the user: the code leaves any other as it came.
ASSUME IncomingAssumption ==
  \A q \in Incoming : q \in Seq(ToSet(q)) /\ \E i \in DOMAIN q : q[i] \in User
ASSUME LimitsAssumption ==
  {ProtectLast, RecallSources, FindLimit} \subseteq Nat /\ MaxCandidates \in Nat /\ CacheSize \in Nat \ {0}
ASSUME ModesAssumption == PolicyMode \subseteq {"off", "shadow", "active"}

VARIABLES
  mode,      \* config.learned_policy_mode
  cache,     \* <<key, answers>>, oldest first
  catalog,   \* messages captured in this session
  run,       \* the request being selected
  told,      \* history: <<context, region, policy>> that the scorer found low
             \* for the engine as it is
  begun

selectionVars == <<mode, cache, catalog, run, told, begun>>

Plain == Prose \cup Structured
Sum(f(_), S) == MapThenSumSet(f, S)

----------------------------------------------------------------------------
(* The request as the scorer sees it. *)

Current(q) == Max({i \in DOMAIN q : q[i] \in User})
Query(q) == q[Current(q)]

\* The current request, and the exact plain text before it.
Recent(q) == SelectSeq(SubSeq(q, Max({1, Current(q) - ProtectLast}), Current(q) - 1),
                       LAMBDA m : m \in Plain)
Surroundings(q) == <<Query(q), Recent(q)>>

Cutoff(q) == IF Len(q) > ProtectLast THEN Min({Current(q) - 1, Len(q) - ProtectLast}) ELSE 0

MaxChars == Min({RegionChars, MaxCandidateChars})

Flush(acc) == IF acc.pending = {} THEN acc.regions ELSE Append(acc.regions, acc.pending)

\* Structured evidence and long messages stand alone.
Alone(m) == Size[m] > MaxChars \/ m \in Structured

AddMessage(q, acc, i) ==
  LET m == q[i]
      full == acc.pending # {} /\ Sum(LAMBDA j : Size[q[j]], acc.pending) + Size[m] > MaxChars
  IN CASE m \notin Plain -> [regions |-> Flush(acc), pending |-> {}]
       [] m \in Plain /\ Alone(m) ->
            [regions |-> IF Size[m] <= MaxCandidateChars THEN Append(Flush(acc), {i}) ELSE Flush(acc),
             pending |-> {}]
       [] OTHER -> IF full THEN [regions |-> Flush(acc), pending |-> {i}]
                           ELSE [acc EXCEPT !.pending = @ \cup {i}]

\* Sets of neighbouring positions, in order.
Regions(q) ==
  Flush(FoldLeft(LAMBDA acc, i : AddMessage(q, acc, i), [regions |-> <<>>, pending |-> {}],
                 [i \in 1..Cutoff(q) |-> i]))

Content(q, n) == {<<i, q[i]>> : i \in Regions(q)[n]}

\* The whole outbound body is bounded, the context of the request included.
Fits(q, batch) ==
  Size[Query(q)] + Sum(LAMBDA m : Size[m], ToSet(Recent(q)))
    + Sum(LAMBDA n : Sum(LAMBDA i : Size[q[i]], Regions(q)[n]), ToSet(batch)) <= MaxStateChars

\* The next batch starts at the first region that fits, and what comes before is
\* retained unscored; then the batch and the regions that remain.
NextBatch(q, remaining) ==
  LET first == Min({k \in 1..Len(remaining) + 1 :
                      k = Len(remaining) + 1 \/ Fits(q, <<remaining[k]>>)})
      last == Max({k \in first - 1..Len(remaining) :
                     k - first < MaxCandidates /\ Fits(q, SubSeq(remaining, first, k))} \cup {first - 1})
  IN <<SubSeq(remaining, first, last), SubSeq(remaining, last + 1, Len(remaining))>>

\* Slip: the answers are kept under the regions alone.
SlipKey(q, batch, policy) == <<[n \in ToSet(batch) |-> Content(q, n)], policy>>

\* The digest of the payload, in which a region goes by its number, and of the
\* policy's feature schema.
Key(q, batch, policy) == <<Surroundings(q), [n \in ToSet(batch) |-> Content(q, n)], policy>>

----------------------------------------------------------------------------
(* A selection. *)

NoSelection == [pc |-> "idle"]
At(place) == run.pc = place

NoEdits == [omitted |-> {}, attention |-> {}, recalled |-> <<>>, failed |-> FALSE]
Failed == [NoEdits EXCEPT !.failed = TRUE]

\* A pass over the regions.  A policy that cannot be loaded fails the pass.
Pass(q, caller, working, policy, loaded, shadow, baseline) ==
  [request |-> q, caller |-> caller, working |-> working, policy |-> policy, batches |-> 0,
   pc |-> IF loaded THEN "batch" ELSE "passed",
   remaining |-> IF loaded THEN [n \in DOMAIN Regions(q) |-> n] ELSE <<>>,
   plan |-> IF loaded THEN NoEdits ELSE Failed,
   shadow |-> shadow, baseline |-> baseline]

\* Tokens and characters of a chat request with some messages in IR form and some
\* omitted.
Amount(exact, ir, receipt, q, encoded, omitted) ==
  Sum(LAMBDA i : IF i \in omitted THEN receipt
                 ELSE IF i \in encoded THEN ir[q[i]] ELSE exact[q[i]], DOMAIN q)
Tokens(q, encoded, omitted) == Amount(Cost, IRCost, ReceiptCost, q, encoded, omitted)
Characters(q, encoded, omitted) == Amount(Size, IRSize, ReceiptSize, q, encoded, omitted)

\* What a chat request looks like when its IR form is over the budget; the
\* engine selects from the request as it came.
Workings(q, caller) ==
  IF caller = "engine" THEN {{}}
  ELSE {encoded \in SUBSET {i \in DOMAIN q : q[i] \in Encodable} : Tokens(q, encoded, {}) > Budget}

\* Every message is captured before any is scored.
BeginSelection(q, caller) ==
  /\ At("idle") /\ begun < MaxRequests
  /\ begun' = begun + 1
  /\ \E loaded \in BOOLEAN, working \in Workings(q, caller) :
       /\ mode # "active" => loaded
       /\ run' = Pass(q, caller, working, IF mode = "active" THEN "policy" ELSE "none",
                      loaded, FALSE, NoEdits)
       /\ catalog' = IF loaded THEN catalog \cup ToSet(q) ELSE catalog
  /\ UNCHANGED <<mode, cache, told>>

\* Omitted are plain messages of low regions that share no word with the query.
MayOmit(q, i) == q[i] \notin Guarded /\ Words[q[i]] \cap Words[Query(q)] = {}

\* The learned policy, where there is one, permits the omissions of some regions.
Apply(q, answers) ==
  LET scored == {n \in DOMAIN answers : answers[n] # "missing"}
      low == {n \in scored : answers[n] = "low"}
      Of(ns) == UNION {Regions(q)[n] : n \in ns}
  IN \E permitted \in IF run.policy = "none" THEN {low} ELSE SUBSET low :
       run' = [run EXCEPT !.remaining = NextBatch(q, @)[2], !.batches = @ + 1,
                          !.plan.omitted = @ \cup {i \in Of(permitted) : MayOmit(q, i)},
                          !.plan.attention = @ \cup {<<i, q[i]>> : i \in Of(scored)}]

Remember(key, answers) ==
  LET kept == IF Len(cache) >= CacheSize THEN Tail(cache) ELSE cache
  IN cache' = Append(kept, <<key, answers>>)

NextKey == Key(run.request, NextBatch(run.request, run.remaining)[1], run.policy)
Asking == /\ At("batch") /\ run.batches < MaxBatches
          /\ NextBatch(run.request, run.remaining)[1] # <<>>

CacheHit ==
  /\ Asking
  /\ \E k \in DOMAIN cache : cache[k][1] = NextKey /\ Apply(run.request, cache[k][2])
  /\ UNCHANGED <<mode, cache, catalog, told, begun>>

\* Only a complete answer is kept.
Scored ==
  /\ Asking
  /\ \A k \in DOMAIN cache : cache[k][1] # NextKey
  /\ LET q == run.request
         batch == NextBatch(q, run.remaining)[1]
     IN \E answers \in [ToSet(batch) -> {"low", "high", "missing"}] :
          /\ Apply(q, answers)
          /\ IF \A n \in DOMAIN answers : answers[n] # "missing"
             THEN Remember(NextKey, answers) ELSE UNCHANGED cache
          /\ told' = told \cup {<<Surroundings(q), Content(q, n), run.policy>> :
                                  n \in {x \in DOMAIN answers : answers[x] = "low"}}
  /\ UNCHANGED <<mode, catalog, begun>>

\* Slip: what earlier batches omitted stays omitted.
SlipScorerFails ==
  /\ Asking
  /\ \A k \in DOMAIN cache : cache[k][1] # NextKey
  /\ run' = [run EXCEPT !.pc = "passed", !.plan.failed = TRUE]
  /\ UNCHANGED <<mode, cache, catalog, told, begun>>

\* A transport or protocol failure takes back every edit of the request.
ScorerFails ==
  /\ Asking
  /\ \A k \in DOMAIN cache : cache[k][1] # NextKey
  /\ run' = [run EXCEPT !.pc = "passed", !.plan = Failed]
  /\ UNCHANGED <<mode, cache, catalog, told, begun>>

EndScoring ==
  /\ At("batch") /\ ~Asking
  /\ run' = [run EXCEPT !.pc = "recall"]
  /\ UNCHANGED <<mode, cache, catalog, told, begun>>

----------------------------------------------------------------------------
(* Recall, the shadow pass, and what the callers do with a plan. *)

Overlap(q, m) == Cardinality(Words[m] \cap Words[Query(q)])
Mentions(q) == {m \in catalog \cap Plain : Overlap(q, m) > 0}

\* The best matches; ties are in the order of their identifiers.
Recalls(q, n) ==
  {s \in SetToSeqs(n) : \A i, j \in DOMAIN s : i < j => Overlap(q, s[i]) >= Overlap(q, s[j])}
Best(q, n, S) ==
  {T \in kSubset(Min({n, Cardinality(S)}), S) :
     \A m \in T, other \in S \ T : Overlap(q, m) >= Overlap(q, other)}

\* A search returns so many matches, and only then are those dropped that the
\* request already holds or that are too long.
Hits(q, found) == {m \in found \ ToSet(q) : Size[m] <= MaxCandidateChars}
BestHits(q) ==
  UNION {Best(q, RecallSources, Hits(q, found)) : found \in Best(q, FindLimit, Mentions(q))}

\* A chat request recalls nothing; a search that fails takes back everything.
Recall ==
  /\ At("recall")
  /\ \/ \E S \in IF run.caller = "chat" THEN {{}} ELSE BestHits(run.request) :
          \E recalled \in Recalls(run.request, S) :
            run' = [run EXCEPT !.pc = "passed", !.plan.recalled = recalled]
     \/ IF mode = "shadow" /\ ~run.shadow
        THEN run' = [run EXCEPT !.pc = "passed", !.shadow = TRUE, !.baseline = Failed]
        ELSE run' = [run EXCEPT !.pc = "passed", !.plan = Failed]
  /\ UNCHANGED <<mode, cache, catalog, told, begun>>

\* The shadow pass is made for its figures.
BeginShadow ==
  /\ At("passed") /\ mode = "shadow" /\ ~run.shadow
  /\ \E loaded \in BOOLEAN :
       run' = Pass(run.request, run.caller, run.working, "policy", loaded, TRUE, run.plan)
  /\ UNCHANGED <<mode, cache, catalog, told, begun>>

Chosen == IF mode = "shadow" THEN run.baseline ELSE run.plan
Selected == At("passed") /\ (mode = "shadow" => run.shadow)

\* The messages of the request under a plan.
Final(q, plan) ==
  LET edited == [i \in DOMAIN q |-> <<q[i], IF i \in plan.omitted THEN "reference" ELSE "exact">>]
  IN SubSeq(edited, 1, Current(q) - 1)
     \o [k \in DOMAIN plan.recalled |-> <<plan.recalled[k], "recalled">>]
     \o SubSeq(edited, Current(q), Len(q))

\* The engine hands plan and attention to the Context IR.
EngineTakes ==
  /\ Selected /\ run.caller = "engine"
  /\ run' = [pc |-> "taken", request |-> run.request, caller |-> run.caller, working |-> {},
             plan |-> Chosen, out |-> Final(run.request, Chosen)]
  /\ UNCHANGED <<mode, cache, catalog, told, begun>>

\* Slip: the whole proposal is taken.
SlipOmit(q, encoded, omitted, i) == omitted \cup {i}

\* One more omission, while the request is over its budget and if it helps, by both
\* measures; what is proposed is looked at once more.
Omit(q, encoded, omitted, i) ==
  IF /\ Tokens(q, encoded, omitted) > Budget
     /\ q[i] \in Plain \ Guarded
     /\ Tokens(q, encoded, omitted \cup {i}) < Tokens(q, encoded, omitted)
     /\ Characters(q, encoded, omitted \cup {i}) < Characters(q, encoded, omitted)
  THEN omitted \cup {i} ELSE omitted

MinimumOmissions(q, encoded, proposed) ==
  FoldLeft(LAMBDA omitted, i : IF i \in proposed THEN Omit(q, encoded, omitted, i) ELSE omitted,
           {}, [i \in DOMAIN q |-> i])

\* The chat request goes out as it came if the proposed omissions are not enough.
ChatTakes ==
  /\ Selected /\ run.caller = "chat"
  /\ LET q == run.request
         omitted == MinimumOmissions(q, run.working, Chosen.omitted)
         sent == IF Tokens(q, run.working, omitted) <= Budget THEN omitted ELSE {}
         plan == [Chosen EXCEPT !.omitted = sent]
     IN run' = [pc |-> "taken", request |-> q, caller |-> run.caller, working |-> run.working,
                plan |-> plan, out |-> Final(q, plan)]
  /\ UNCHANGED <<mode, cache, catalog, told, begun>>

Deliver ==
  /\ At("taken")
  /\ run' = NoSelection
  /\ UNCHANGED <<mode, cache, catalog, told, begun>>

\* on_session_start, on_session_reset, update_model.
RenewEngine ==
  /\ At("idle")
  /\ cache' = <<>> /\ told' = {}
  /\ catalog' \in {catalog, {}}
  /\ UNCHANGED <<mode, run, begun>>

----------------------------------------------------------------------------
SelectionInit ==
  /\ mode \in PolicyMode /\ cache = <<>> /\ catalog = {} /\ run = NoSelection /\ told = {} /\ begun = 0

SelectionNext ==
  \/ \E q \in Incoming, caller \in {"engine", "chat"} : BeginSelection(q, caller)
  \/ CacheHit \/ Scored \/ ScorerFails \/ EndScoring
  \/ Recall \/ BeginShadow \/ EngineTakes \/ ChatTakes \/ Deliver
  \/ RenewEngine

SelectionSpec == SelectionInit /\ [][SelectionNext]_selectionVars

----------------------------------------------------------------------------
(* Properties. *)

\* What is left out of a request was found low by the scorer in the light of this
\* very request and of the text before it, however old the cached answer is and
\* whatever a learned policy in its shadow would have done; it is in the catalog,
\* is not recent, guarded or on the subject, and structured evidence never goes
\* with the prose around it.
OmissionsAreScored ==
  At("taken") => \A i \in run.plan.omitted :
    LET q == run.request
        policy == IF mode = "active" THEN "policy" ELSE "none"
    IN /\ i <= Len(q) - ProtectLast /\ i < Current(q)
       /\ q[i] \in Plain \cap catalog /\ MayOmit(q, i)
       /\ \E fact \in told :
            /\ fact[1] = Surroundings(q) /\ <<i, q[i]>> \in fact[2] /\ fact[3] = policy
            /\ q[i] \in Structured => fact[2] = {<<i, q[i]>>}

\* The plan and the request it was made for stay together: a failure at any batch,
\* search or policy leaves the request as it was; each score names the place at
\* which its message, or the reference to it, is found after recalled evidence
\* has been put in, which the request does not hold already and never follows.
EditsAreBound ==
  At("taken") =>
    LET q == run.request  plan == run.plan IN
    /\ plan.failed => run.out = Final(q, NoEdits)
    /\ \A score \in plan.attention :
         run.out[score[1]] \in {<<score[2], "exact">>, <<score[2], "reference">>}
    /\ \A k \in DOMAIN run.out : run.out[k][2] = "recalled" =>
         /\ run.out[k][1] \notin ToSet(q)
         /\ \E j \in DOMAIN run.out : j > k /\ run.out[j] = <<Query(q), "exact">>

\* A chat request that loses a message fits its budget, and would not fit without
\* the last message it lost (chat_target.py:52, "apply only enough").
OmissionsAreNeeded ==
  At("taken") /\ run.caller = "chat" /\ run.plan.omitted # {} =>
    LET q == run.request  omitted == run.plan.omitted IN
    /\ Tokens(q, run.working, omitted) <= Budget
    /\ Tokens(q, run.working, omitted \ {Max(omitted)}) > Budget
=============================================================================
