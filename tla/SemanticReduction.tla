------------------------- MODULE SemanticReduction -------------------------
(***************************************************************************)
(* The two last reducers of Runtime.llm_request_middleware over the shared *)
(* vault.  JevSemanticReducer.reduce (jev_context.py) asks a remote scorer *)
(* about the prior messages of a request and replaces those that it scores *)
(* low by receipts.  ContextIRCompiler.reduce (context_ir.py) replaces     *)
(* messages by a lossless form that the tokenizer finds shorter.  Both     *)
(* store the exact text first.  The messages of one request are distinct   *)
(* contents; scores are abstracted to what becomes of a message, and texts *)
(* and forms to the tokens they cost.                                      *)
(***************************************************************************)
EXTENDS EvidenceVault

CONSTANTS
  Worker,
  JevPin,        \* the exposure key "jev-<uuid>" of a reduction
  Tokenizers,    \* what TokenBudgetAdapter may measure with
  Plain, Coded,  \* tokens of a content, and of its IR form under a short id
  MaxReductions  \* bound: requests begun

ASSUME JevPinIsARequest == JevPin \in Request
ASSUME ContentIsFinite == IsFiniteSet(Content)
ASSUME CountsAreNumbers == {Plain, Coded} \subseteq [Tokenizers -> [Content -> Nat]]
ASSUME MaxReductionsIsANumber == MaxReductions \in Nat

VARIABLES
  work,       \* what each worker is doing
  tokenizer,  \* the backend a measurement uses now, or NoId
  sent,       \* <<content, id>>: messages replaced in requests that were sent
  reduced     \* requests begun so far

reducerVars == <<work, tokenizer, sent, reduced>>
semanticVars == <<vaultVars, reducerVars>>

Idle == [pc |-> "idle"]
At(w, place) == work[w].pc = place
With(record, fields) ==
  [f \in DOMAIN record \cup DOMAIN fields |-> IF f \in DOMAIN fields THEN fields[f] ELSE record[f]]
Step(w, fields) == work' = [work EXCEPT ![w] = With(@, fields)]
Pick(S) == CHOOSE c \in S : TRUE
Same == UNCHANGED <<tokenizer, sent, reduced>>

\* reduce returns the request it was given: no attention, and for the IR the
\* request as Jev left it.
JevFails(w) ==
  /\ Step(w, [pc |-> "baseline", todo |-> {}, draft |-> {}, scored |-> {}, failed |-> TRUE])
  /\ Same
IRFails(w) == Step(w, [pc |-> "protect", todo |-> {p[2] : p \in work[w].out}, draft |-> {}]) /\ Same

----------------------------------------------------------------------------
(* Jev. *)

\* messages: the candidates that are plain, long enough and within the budget.
Begin(w, s, r, messages) ==
  /\ At(w, "idle")
  /\ reduced < MaxReductions
  /\ reduced' = reduced + 1
  /\ work' = [work EXCEPT ![w] =
       [pc |-> "call", session |-> s, request |-> r, messages |-> messages, scored |-> {},
        todo |-> {}, draft |-> {}, out |-> {}, failed |-> FALSE,
        baseline |-> NoId]]
  /\ UNCHANGED <<vaultVars, tokenizer, sent>>

\* The scorer answers for some of the candidates, and finds some of those
\* neither relevant nor guarded; or it fails, times out or answers nonsense.
Score(w) ==
  /\ At(w, "call")
  /\ \/ \E scored \in SUBSET work[w].messages : \E low \in SUBSET scored :
          Step(w, [pc |-> "vault", scored |-> scored, todo |-> low]) /\ Same
     \/ JevFails(w)
  /\ UNCHANGED vaultVars

\* Slip: the pin is left to the exposures recorded when the request is sent.
SlipVaultUnpinned(w) ==
  /\ At(w, "vault") /\ work[w].todo # {}
  /\ LET c == Pick(work[w].todo) IN
       \/ /\ \E who \in Caller : PutArtifact(c, who, {})
          /\ Step(w, [pc |-> "readBack", id |-> IdAfterStore(c)])
          /\ Same /\ UNCHANGED captured
       \/ JevFails(w) /\ UNCHANGED vaultVars

\* A low candidate is stored and pinned in one transaction, or that raises.
Vault(w) ==
  /\ At(w, "vault") /\ work[w].todo # {}
  /\ LET c == Pick(work[w].todo) IN
       \/ /\ \E who \in Caller : PutArtifact(c, who, {<<work[w].session, JevPin>>})
          /\ Step(w, [pc |-> "readBack", id |-> IdAfterStore(c)])
          /\ Same /\ UNCHANGED captured
       \/ JevFails(w) /\ UNCHANGED vaultVars

\* The receipt replaces the message unless it is not shorter.
ReadBack(w) ==
  /\ At(w, "readBack")
  /\ LET c == Pick(work[w].todo) IN
       IF held[c] = work[w].id
       THEN /\ \E receipts \in {{}, {<<c, work[w].id>>}} :
                 Step(w, [pc |-> "vault", todo |-> work[w].todo \ {c}, id |-> NoId,
                          draft |-> work[w].draft \cup receipts])
            /\ Same
       ELSE JevFails(w)
  /\ UNCHANGED vaultVars

\* The whole request must be smaller in characters and in tokens.
JevGate(w) ==
  /\ At(w, "vault") /\ work[w].todo = {}
  /\ \E out \in {{}, work[w].draft} :
       Step(w, [pc |-> "baseline", out |-> out, draft |-> {}])
  /\ Same /\ UNCHANGED vaultVars

----------------------------------------------------------------------------
(* Context IR. *)

\* What each message costs with some in their IR form; a receipt costs one token,
\* and so does the longer identifier of a collided digest.
Cost(t, out, coded) ==
  [c \in Content |->
     IF \E p \in out : p[1] = c THEN 1
     ELSE IF <<c, FullId(c)>> \in coded THEN Coded[t][c] + 1
     ELSE IF <<c, ShortId(c)>> \in coded THEN Coded[t][c]
     ELSE Plain[t][c]]

\* Tokens of the request.
Count(t, w, coded) == SumFunctionOnSet(Cost(t, work[w].out, coded), work[w].messages)

\* A failed scoring, a request without the recovery tool, or no tokenizer: the
\* request goes on as it is.  With Jev enabled only scored messages qualify.
Baseline(w) ==
  /\ At(w, "baseline")
  /\ \/ /\ ~work[w].failed /\ tokenizer # NoId
        /\ Step(w, [pc |-> "trial", baseline |-> tokenizer,
                    todo |-> work[w].scored \ {p[1] : p \in work[w].out}])
        /\ Same
     \/ IRFails(w)
  /\ UNCHANGED vaultVars

\* Slip: a trial is compared whichever tokenizer counted it.
SlipTrialAnyTokenizer(w) ==
  /\ At(w, "trial")
  /\ IF work[w].todo = {}
     THEN /\ Step(w, [pc |-> "encode", todo |-> {p[1] : p \in work[w].draft}, draft |-> {}]) /\ Same
     ELSE LET c == Pick(work[w].todo)
              trial == work[w].draft \cup {<<c, ShortId(c)>>}
          IN
          \/ /\ tokenizer # NoId
             /\ Step(w, [todo |-> work[w].todo \ {c},
                         draft |-> IF Count(tokenizer, w, trial) < Count(tokenizer, w, work[w].draft)
                                   THEN trial ELSE work[w].draft])
             /\ Same
          \/ tokenizer = NoId /\ IRFails(w)
  /\ UNCHANGED vaultVars

\* Each trial is measured, with the identifier the message would have if its
\* digest has not collided; a tokenizer that is not the baseline's raises.
Trial(w) ==
  /\ At(w, "trial")
  /\ IF work[w].todo = {}
     THEN /\ Step(w, [pc |-> "encode", todo |-> {p[1] : p \in work[w].draft}, draft |-> {}]) /\ Same
     ELSE LET c == Pick(work[w].todo)
              trial == work[w].draft \cup {<<c, ShortId(c)>>}
          IN
          \/ /\ tokenizer = work[w].baseline
             /\ Step(w, [todo |-> work[w].todo \ {c},
                         draft |-> IF Count(tokenizer, w, trial) < Count(tokenizer, w, work[w].draft)
                                   THEN trial ELSE work[w].draft])
             /\ Same
          \/ tokenizer # work[w].baseline /\ IRFails(w)
  /\ UNCHANGED vaultVars

\* Only winning candidates write evidence, and pin it in the same transaction.
Encode(w) ==
  /\ At(w, "encode") /\ work[w].todo # {}
  /\ LET c == Pick(work[w].todo) IN
       \/ /\ \E who \in Caller : PutArtifact(c, who, {<<work[w].session, work[w].request>>})
          /\ Step(w, [pc |-> "verify", id |-> IdAfterStore(c)])
          /\ Same /\ UNCHANGED captured
       \/ IRFails(w) /\ UNCHANGED vaultVars

Verify(w) ==
  /\ At(w, "verify")
  /\ LET c == Pick(work[w].todo) IN
       IF held[c] = work[w].id
       THEN /\ Step(w, [pc |-> "encode", todo |-> work[w].todo \ {c}, id |-> NoId,
                        draft |-> work[w].draft \cup {<<c, work[w].id>>}])
            /\ Same
       ELSE IRFails(w)
  /\ UNCHANGED vaultVars

\* The request with the real identifiers is measured once more.
FinalGate(w) ==
  /\ At(w, "encode") /\ work[w].todo = {}
  /\ IF /\ tokenizer = work[w].baseline
        /\ Count(tokenizer, w, work[w].draft) < Count(work[w].baseline, w, {})
     THEN Step(w, [pc |-> "inspect"]) /\ Same
     ELSE IRFails(w)
  /\ UNCHANGED vaultVars

\* inspect_ir reads every source again.
Inspect(w) ==
  /\ At(w, "inspect")
  /\ IF \A p \in work[w].draft : held[p[1]] = p[2]
     THEN /\ Step(w, [pc |-> "protect", out |-> work[w].out \cup work[w].draft, draft |-> {},
                      todo |-> {p[2] : p \in work[w].out \cup work[w].draft}])
          /\ Same
     ELSE IRFails(w)
  /\ UNCHANGED vaultVars

----------------------------------------------------------------------------
(* The request is sent. *)

\* The identifiers it names are exposed one by one; a failure is only logged.
Protect(w) ==
  /\ At(w, "protect") /\ work[w].todo # {}
  /\ LET i == Pick(work[w].todo) IN
       /\ Step(w, [todo |-> work[w].todo \ {i}])
       /\ \/ RecordExposure(work[w].session, i, work[w].request, FALSE) /\ UNCHANGED captured
          \/ UNCHANGED vaultVars
  /\ Same

Send(w) ==
  /\ At(w, "protect") /\ work[w].todo = {}
  /\ sent' = sent \cup work[w].out
  /\ work' = [work EXCEPT ![w] = Idle]
  /\ UNCHANGED <<vaultVars, tokenizer, reduced>>

\* The process dies, or the whole request was not smaller and goes as it came.
Abandon(w) ==
  /\ ~At(w, "idle")
  /\ work' = [work EXCEPT ![w] = Idle]
  /\ Same /\ UNCHANGED vaultVars

\* A tokenizer finishes loading, fails, or serves another model.
TokenizerChanges ==
  /\ tokenizer' \in (Tokenizers \cup {NoId}) \ {tokenizer}
  /\ UNCHANGED <<vaultVars, work, sent, reduced>>

PutElsewhere == \E c \in Content, who \in Caller :
                  /\ \E pins \in {{}} \cup {{<<s, JevPin>>} : s \in Session} : PutArtifact(c, who, pins)
                  /\ UNCHANGED <<captured, reducerVars>>

----------------------------------------------------------------------------
SemanticInit ==
  /\ Init
  /\ work = [w \in Worker |-> Idle]
  /\ tokenizer = NoId
  /\ sent = {}
  /\ reduced = 0

Reduce(w) ==
  \/ \E s \in Session, r \in Request \ {HistoryPin}, messages \in SUBSET Content : Begin(w, s, r, messages)
  \/ Score(w) \/ Vault(w) \/ ReadBack(w) \/ JevGate(w)
  \/ Baseline(w) \/ Trial(w) \/ Encode(w) \/ Verify(w) \/ FinalGate(w) \/ Inspect(w)
  \/ Protect(w) \/ Send(w) \/ Abandon(w)

SemanticNext == (\E w \in Worker : Reduce(w)) \/ TokenizerChanges \/ PutElsewhere

SemanticSpec == SemanticInit /\ [][SemanticNext]_semanticVars

----------------------------------------------------------------------------
(* Properties. *)

SemanticTypeOK ==
  /\ TypeOK
  /\ sent \subseteq Content \X Id
  /\ tokenizer \in Tokenizers \cup {NoId}
  /\ reduced \in 0..MaxReductions
  /\ \A w \in Worker : ~At(w, "idle") =>
       /\ work[w].out \subseteq Content \X Id
       /\ work[w].scored \subseteq work[w].messages

\* What a receipt or an IR form stands for can be read back for ever under the
\* identifier that was sent, although other workers prune while the request is
\* still being reduced and the exposures recorded at the end may all fail.
SentRecoverable == \A p \in sent : held[p[1]] = p[2]

\* Forms are chosen by trials, and their texts are pinned for good before the
\* request is counted again (docs/CONTEXT_IR.md:87): that count never refutes the
\* trials by the tokenizer of the baseline, whatever other tokenizers have come and
\* gone in between, unless an identifier had to be longer than the trial assumed.
SearchHolds ==
  \A w \in Worker :
    /\ At(w, "encode") /\ work[w].todo = {} /\ work[w].draft # {}
    /\ \A p \in work[w].draft : p[2] = ShortId(p[1])
    => Count(work[w].baseline, w, work[w].draft) < Count(work[w].baseline, w, {})
============================================================================
