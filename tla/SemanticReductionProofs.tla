---------------------- MODULE SemanticReductionProofs ----------------------
(***************************************************************************)
(* What the semantic reducers send stays recoverable, for any number of    *)
(* workers, messages, sessions and tokenizers and any capacity.            *)
(*                                                                         *)
(* The argument: a reducer stores a text and pins it in one transaction,   *)
(* and takes the identifier into its draft only when it reads back; a      *)
(* pinned row is neither pruned nor renamed (EvidenceVaultProofs), so the  *)
(* draft stays true while the request waits, and so does what was sent.    *)
(* The set of messages to encode is carried from the trials that chose it   *)
(* to the final count unchanged (Searching), hence so is what it saves.     *)
(***************************************************************************)
EXTENDS SemanticReduction, EvidenceVaultProofs

\* A replaced message whose row is pinned under the identifier in its receipt.
Backed(p) == p \in Content \X Id /\ held[p[1]] = p[2] /\ Protected(p[2])

Needed ==
  {"pc", "session", "request", "messages", "scored", "out", "todo", "draft", "baseline"}

Working(w) ==
  /\ Needed \subseteq DOMAIN work[w]
  /\ work[w].session \in Session /\ work[w].request \in Request
  /\ work[w].messages \subseteq Content /\ work[w].scored \subseteq work[w].messages

Storing == {"vault", "readBack", "encode", "verify"}

\* What each stage holds: receipts are kept, trials are only candidates, and a
\* stored text is pinned before it is read back.
Drafting(w) ==
  /\ \A p \in work[w].out : Backed(p)
  /\ work[w].pc \in Storing \cup {"trial"} => work[w].todo \subseteq Content
  /\ work[w].pc \in Storing \cup {"inspect"} => \A p \in work[w].draft : Backed(p)
  /\ work[w].pc \in {"call", "baseline"} => work[w].draft = {}
  /\ work[w].pc = "trial" => work[w].draft \subseteq Content \X Id
  /\ work[w].pc = "protect" => work[w].todo \subseteq Id
  /\ work[w].pc \in {"readBack", "verify"} =>
       /\ "id" \in DOMAIN work[w] /\ work[w].id \in Id /\ Protected(work[w].id)
       /\ work[w].todo # {}

WorkInv ==
  /\ DOMAIN work = Worker
  /\ \A w \in Worker : ~At(w, "idle") => Working(w) /\ Drafting(w)

SentBacked == \A p \in sent : Backed(p)

ReductionInv == VaultInv /\ WorkInv /\ SentBacked

----------------------------------------------------------------------------
(* What a step of the vault leaves of the pinned rows. *)

StaysBacked ==
  /\ \A p \in Content \X Id : Backed(p) => held'[p[1]] = p[2]
  /\ \A i \in Id : Protected(i) => Protected(i)'

LEMMA PickIsAMember == \A S : S # {} => Pick(S) \in S
BY DEF Pick

\* A transaction that stores and perhaps pins a text.
LEMMA StoreKeeps ==
  ASSUME VaultInv, NEW c \in Content, NEW who \in Caller,
         NEW pins \in SUBSET (Session \X Request),
         PutArtifact(c, who, pins), UNCHANGED captured
  PROVE  /\ VaultInv'
         /\ StaysBacked
         /\ IdAfterStore(c) \in Id
         /\ pins # {} =>
              \E t \in Session, r \in Request : <<t, IdAfterStore(c), r>> \in exposed'
<1>1. VaultInv'
  BY StorePreserves
<1>2. /\ held' \in [Content -> Id \cup {NoId}]
      /\ \A d \in Held : Protected(held[d]) => held'[d] = held[d]
      /\ held'[c] = IdAfterStore(c)
      /\ held'[c] # NoId
  BY SurvivesStore DEF PutArtifact, PutAt, VaultInv
<1>3. IdAfterStore(c) \in Id
  BY <1>2
<1>4. \A i \in Id : Protected(i) => Protected(i)'
  BY DEF PutArtifact, PutAt, Protected
<1>5. \A p \in Content \X Id : Backed(p) => held'[p[1]] = p[2]
  BY <1>2, NoIdIsNoIdentifier DEF Backed, Held
<1>6. ASSUME pins # {}
      PROVE  \E t \in Session, r \in Request : <<t, IdAfterStore(c), r>> \in exposed'
  <2>1. PICK p \in pins : TRUE
    BY <1>6
  <2>2. <<p[1], IdAfterStore(c), p[2]>> \in exposed'
    BY <2>1 DEF PutArtifact, PutAt
  <2>3. p[1] \in Session /\ p[2] \in Request
    BY <2>1
  <2> QED
    BY <2>2, <2>3
<1> QED
  BY <1>1, <1>3, <1>4, <1>5, <1>6 DEF StaysBacked

\* An exposure of an identifier, and a step that leaves the vault alone.
LEMMA ExposeKeeps ==
  ASSUME VaultInv, NEW s \in Session, NEW i \in Id, NEW r \in Request,
         RecordExposure(s, i, r, FALSE), UNCHANGED captured
  PROVE  VaultInv' /\ StaysBacked
<1>1. Expose
  BY DEF Expose, RecordExposure, Holds
<1>2. VaultInv'
  BY <1>1, ReferencePreserves
<1>3. StaysBacked
  BY DEF StaysBacked, Backed, Protected, RecordExposure, artifacts
<1> QED
  BY <1>2, <1>3

LEMMA SameVaultKeeps ==
  ASSUME VaultInv, UNCHANGED vaultVars
  PROVE  VaultInv' /\ StaysBacked
<1>1. VaultInv'
  BY NextVault
<1>2. StaysBacked
  BY DEF StaysBacked, Backed, Protected, vaultVars
<1> QED
  BY <1>1, <1>2

----------------------------------------------------------------------------
(* The reducers. *)

\* It is enough to look at the worker that moves: what the others hold, and what
\* was sent, stays kept.
LEMMA OneWorker ==
  ASSUME ReductionInv, VaultInv', StaysBacked, NEW w \in Worker,
         DOMAIN work' = Worker, \A v \in Worker \ {w} : work'[v] = work[v],
         ~At(w, "idle")' => Working(w)' /\ Drafting(w)',
         sent' = sent \/ (~At(w, "idle") /\ sent' = sent \cup work[w].out)
  PROVE  ReductionInv'
<1>1. \A p : Backed(p) => Backed(p)'
  BY DEF StaysBacked, Backed
<1>2. SentBacked'
  BY <1>1 DEF ReductionInv, SentBacked, WorkInv, Drafting
<1>3. ASSUME NEW v \in Worker, v # w, ~At(v, "idle")'
      PROVE  Working(v)' /\ Drafting(v)'
  <2>1. work'[v] = work[v] /\ ~At(v, "idle")
    BY <1>3 DEF At
  <2>2. Working(v) /\ Drafting(v)
    BY <2>1 DEF ReductionInv, WorkInv
  <2>3. Working(v)'
    BY <2>1, <2>2 DEF Working
  <2>4. Drafting(v)'
    BY <1>1, <2>1, <2>2 DEF Drafting, StaysBacked
  <2> QED
    BY <2>3, <2>4
<1>4. WorkInv'
  BY <1>3 DEF WorkInv
<1> QED
  BY <1>2, <1>4 DEF ReductionInv

\* A step that leaves the vault alone and moves one worker.
LEMMA QuietWorker ==
  ASSUME ReductionInv, UNCHANGED vaultVars, NEW w \in Worker, ~At(w, "idle"),
         NEW fields, Step(w, fields), sent' = sent,
         ~At(w, "idle")' => Working(w)' /\ Drafting(w)'
  PROVE  ReductionInv'
<1>1. DOMAIN work' = Worker /\ \A v \in Worker \ {w} : work'[v] = work[v]
  BY DEF Step, ReductionInv, WorkInv
<1>2. VaultInv' /\ StaysBacked
  BY SameVaultKeeps DEF ReductionInv
<1> QED
  BY <1>1, <1>2, OneWorker

\* The identifiers and the protection of rows are as they were.
LEMMA SameRows ==
  ASSUME UNCHANGED vaultVars
  PROVE  /\ \A p : Backed(p)' <=> Backed(p)
         /\ \A i : Protected(i)' <=> Protected(i)
BY DEF vaultVars, Backed, Protected

\* The request goes on as it came, or as Jev left it.
LEMMA FailStep ==
  ASSUME ReductionInv, UNCHANGED vaultVars, NEW w \in Worker, ~At(w, "idle"),
         JevFails(w) \/ IRFails(w)
  PROVE  ReductionInv'
<1>1. Working(w) /\ Drafting(w) /\ DOMAIN work = Worker
  BY DEF ReductionInv, WorkInv
<1>2. CASE JevFails(w)
  <2>1. Working(w)' /\ Drafting(w)'
    BY <1>1, <1>2, SameRows DEF JevFails, Step, With, Working, Drafting, Needed, Storing
  <2> QED
    BY <1>2, <2>1, QuietWorker DEF JevFails, Same
<1>3. CASE IRFails(w)
  <2>1. Working(w)'
    BY <1>1, <1>3 DEF IRFails, Step, With, Working, Needed
  <2>2. Drafting(w)'
    BY <1>1, <1>3, SameRows DEF IRFails, Step, With, Working, Drafting, Needed, Storing, Backed
  <2> QED
    BY <1>3, <2>1, <2>2, QuietWorker DEF IRFails, Same
<1> QED
  BY <1>2, <1>3

\* A text is stored and pinned in one transaction, whoever prunes meanwhile.
LEMMA StoreStep ==
  ASSUME ReductionInv, NEW w \in Worker, work[w].pc \in {"vault", "encode"}, work[w].todo # {},
         NEW c, c = Pick(work[w].todo), NEW who \in Caller,
         NEW pin \in Session \X Request, PutArtifact(c, who, {pin}),
         NEW place \in {"readBack", "verify"},
         Step(w, [pc |-> place, id |-> IdAfterStore(c)]), sent' = sent, UNCHANGED captured
  PROVE  ReductionInv'
<1>1. ~At(w, "idle") /\ Working(w) /\ Drafting(w) /\ DOMAIN work = Worker
  BY DEF ReductionInv, WorkInv, At
<1>2. c \in Content
  BY <1>1, PickIsAMember DEF Drafting, Storing
<1>3. /\ VaultInv' /\ StaysBacked /\ IdAfterStore(c) \in Id
      /\ \E t \in Session, r \in Request : <<t, IdAfterStore(c), r>> \in exposed'
  BY <1>2, StoreKeeps DEF ReductionInv
<1>4. /\ DOMAIN work' = Worker /\ \A v \in Worker \ {w} : work'[v] = work[v]
      /\ work'[w] = With(work[w], [pc |-> place, id |-> IdAfterStore(c)])
  BY <1>1 DEF Step
<1> DEFINE i == IdAfterStore(c)
<1>5. /\ \A f \in Needed \ {"pc"} : work'[w][f] = work[w][f]
      /\ work'[w].pc = place /\ work'[w].id = i
      /\ Needed \cup {"id"} \subseteq DOMAIN work'[w]
  BY <1>1, <1>4 DEF With, Working, Needed
<1>6. Working(w)'
  BY <1>1, <1>5 DEF Working, Needed
<1>7. \A p : Backed(p) => Backed(p)'
  BY <1>3 DEF StaysBacked, Backed
<1>8. Protected(work[w].id)'
  BY <1>3, <1>5 DEF Protected
<1>9. Drafting(w)'
  <2>1. /\ work'[w].out = work[w].out /\ work'[w].draft = work[w].draft
        /\ work'[w].todo = work[w].todo
    BY <1>5 DEF Needed
  <2>2. \A p \in work'[w].out \cup work'[w].draft : Backed(p)'
    BY <1>1, <1>7, <2>1 DEF Drafting, Storing
  <2>3. work'[w].todo \subseteq Content /\ work'[w].todo # {}
    BY <1>1, <2>1 DEF Drafting, Storing
  <2> QED
    BY <1>3, <1>5, <1>8, <2>2, <2>3 DEF Drafting, Storing
<1> QED
  BY <1>3, <1>4, <1>6, <1>9, OneWorker

\* The stages of Jev.
LEMMA JevStep ==
  ASSUME ReductionInv, NEW w \in Worker,
         Score(w) \/ Vault(w) \/ ReadBack(w) \/ JevGate(w)
  PROVE  ReductionInv'
<1>1. ~At(w, "idle") /\ Working(w) /\ Drafting(w) /\ DOMAIN work = Worker
  BY DEF ReductionInv, WorkInv, At, Score, Vault, ReadBack, JevGate
<1>2. ASSUME JevFails(w), UNCHANGED vaultVars
      PROVE  ReductionInv'
  BY <1>1, <1>2, FailStep
<1>3. CASE Score(w)
  <2>1. ASSUME NEW scored \in SUBSET work[w].messages, NEW low \in SUBSET scored,
               Step(w, [pc |-> "vault", scored |-> scored, todo |-> low]), Same
        PROVE  ReductionInv'
    <3>1. Working(w)'
      BY <1>1, <2>1 DEF Step, With, Working, Needed
    <3>2. Drafting(w)'
      BY <1>1, <1>3, <2>1, SameRows DEF Score, At, Step, With, Working, Drafting, Needed, Storing
    <3> QED
      BY <1>1, <1>3, <2>1, <3>1, <3>2, QuietWorker DEF Score, Same
  <2> QED
    BY <1>2, <1>3, <2>1 DEF Score
<1>4. CASE Vault(w)
  <2>1. ASSUME NEW who \in Caller,
               PutArtifact(Pick(work[w].todo), who, {<<work[w].session, JevPin>>}),
               Step(w, [pc |-> "readBack", id |-> IdAfterStore(Pick(work[w].todo))]),
               Same, UNCHANGED captured
        PROVE  ReductionInv'
    <3>1. <<work[w].session, JevPin>> \in Session \X Request
      BY <1>1, JevPinIsARequest DEF Working
    <3> QED
      BY <1>4, <2>1, <3>1, StoreStep DEF Vault, At, Same
  <2> QED
    BY <1>2, <1>4, <2>1 DEF Vault
<1>5. CASE ReadBack(w)
  <2> DEFINE c == Pick(work[w].todo)
  <2>1. c \in work[w].todo /\ c \in Content
    BY <1>1, <1>5, PickIsAMember DEF ReadBack, At, Drafting, Storing
  <2>2. ASSUME held[c] = work[w].id, NEW receipts \in {{}, {<<c, work[w].id>>}},
               Step(w, [pc |-> "vault", todo |-> work[w].todo \ {c}, id |-> NoId,
                        draft |-> work[w].draft \cup receipts]), Same
        PROVE  ReductionInv'
    <3>1. Working(w)'
      BY <1>1, <2>2 DEF Step, With, Working, Needed
    <3>2. Backed(<<c, work[w].id>>)
      BY <1>1, <1>5, <2>1, <2>2 DEF ReadBack, At, Drafting, Backed
    <3>3. \A p \in work[w].draft \cup receipts : Backed(p)
      BY <1>1, <1>5, <2>2, <3>2 DEF ReadBack, At, Drafting, Storing
    <3>4. Drafting(w)'
      BY <1>1, <1>5, <2>2, <3>3, SameRows
         DEF ReadBack, At, Step, With, Working, Drafting, Needed, Storing
    <3> QED
      BY <1>1, <1>5, <2>2, <3>1, <3>4, QuietWorker DEF ReadBack, Same
  <2> QED
    BY <1>2, <1>5, <2>2 DEF ReadBack
<1>6. CASE JevGate(w)
  <2>1. ASSUME NEW out \in {{}, work[w].draft},
               Step(w, [pc |-> "baseline", out |-> out, draft |-> {}])
        PROVE  ReductionInv'
    <3>1. Working(w)'
      BY <1>1, <2>1 DEF Step, With, Working, Needed
    <3>2. Drafting(w)'
      BY <1>1, <1>6, <2>1, SameRows
         DEF JevGate, At, Step, With, Working, Drafting, Needed, Storing
    <3> QED
      BY <1>1, <1>6, <2>1, <3>1, <3>2, QuietWorker DEF JevGate, Same
  <2> QED
    BY <1>6, <2>1 DEF JevGate
<1> QED
  BY <1>3, <1>4, <1>5, <1>6

\* The stages of the IR that only read the vault.
LEMMA SearchStep ==
  ASSUME ReductionInv, NEW w \in Worker,
         Baseline(w) \/ Trial(w) \/ FinalGate(w) \/ Inspect(w)
  PROVE  ReductionInv'
<1>1. ~At(w, "idle") /\ Working(w) /\ Drafting(w) /\ DOMAIN work = Worker
  BY DEF ReductionInv, WorkInv, At, Baseline, Trial, FinalGate, Inspect
<1>2. UNCHANGED vaultVars
  BY DEF Baseline, Trial, FinalGate, Inspect
<1>3. ASSUME IRFails(w)
      PROVE  ReductionInv'
  BY <1>1, <1>2, <1>3, FailStep
<1>4. CASE Baseline(w)
  <2>1. ASSUME Step(w, [pc |-> "trial", baseline |-> tokenizer,
                        todo |-> work[w].scored \ {p[1] : p \in work[w].out}]), Same
        PROVE  ReductionInv'
    <3>1. Working(w)'
      BY <1>1, <2>1 DEF Step, With, Working, Needed
    <3>2. Drafting(w)'
      BY <1>1, <1>2, <1>4, <2>1, SameRows
         DEF Baseline, At, Step, With, Working, Drafting, Needed, Storing
    <3> QED
      BY <1>1, <1>2, <2>1, <3>1, <3>2, QuietWorker DEF Same
  <2> QED
    BY <1>3, <1>4, <2>1 DEF Baseline
<1>5. CASE Trial(w)
  <2>1. CASE work[w].todo = {}
    <3>1. Step(w, [pc |-> "encode", todo |-> {p[1] : p \in work[w].draft}, draft |-> {}]) /\ Same
      BY <1>5, <2>1 DEF Trial
    <3>2. Working(w)'
      BY <1>1, <3>1 DEF Step, With, Working, Needed
    <3>3. Drafting(w)'
      BY <1>1, <1>2, <1>5, <3>1, SameRows
         DEF Trial, At, Step, With, Working, Drafting, Needed, Storing
    <3> QED
      BY <1>1, <1>2, <3>1, <3>2, <3>3, QuietWorker DEF Same
  <2>2. CASE work[w].todo # {}
    <3> DEFINE c == Pick(work[w].todo)
               trial == work[w].draft \cup {<<c, ShortId(c)>>}
    <3>1. c \in Content
      BY <1>1, <1>5, <2>2, PickIsAMember DEF Trial, At, Drafting, Storing
    <3>2. trial \subseteq Content \X Id
      BY <1>1, <1>5, <3>1 DEF Trial, At, Drafting, Id
    <3>3. ASSUME NEW draft \in {trial, work[w].draft},
                 Step(w, [todo |-> work[w].todo \ {c}, draft |-> draft]), Same
          PROVE  ReductionInv'
      <4>1. Working(w)'
        BY <1>1, <3>3 DEF Step, With, Working, Needed
      <4>2. draft \subseteq Content \X Id
        BY <1>1, <1>5, <3>2 DEF Trial, At, Drafting
      <4>3. Drafting(w)'
        BY <1>1, <1>2, <1>5, <3>3, <4>2, SameRows
           DEF Trial, At, Step, With, Working, Drafting, Needed, Storing
      <4> QED
        BY <1>1, <1>2, <3>3, <4>1, <4>3, QuietWorker DEF Same
    <3> QED
      BY <1>3, <1>5, <2>2, <3>3 DEF Trial
  <2> QED
    BY <2>1, <2>2
<1>6. CASE FinalGate(w)
  <2>1. ASSUME Step(w, [pc |-> "inspect"]), Same
        PROVE  ReductionInv'
    <3>1. Working(w)'
      BY <1>1, <2>1 DEF Step, With, Working, Needed
    <3>2. Drafting(w)'
      BY <1>1, <1>2, <1>6, <2>1, SameRows
         DEF FinalGate, At, Step, With, Working, Drafting, Needed, Storing
    <3> QED
      BY <1>1, <1>2, <2>1, <3>1, <3>2, QuietWorker DEF Same
  <2> QED
    BY <1>3, <1>6, <2>1 DEF FinalGate
<1>7. CASE Inspect(w)
  <2> DEFINE all == work[w].out \cup work[w].draft
  <2>1. ASSUME Step(w, [pc |-> "protect", out |-> all, draft |-> {}, todo |-> {p[2] : p \in all}]),
               Same
        PROVE  ReductionInv'
    <3>1. Working(w)'
      BY <1>1, <2>1 DEF Step, With, Working, Needed
    <3>2. \A p \in all : Backed(p) /\ p[2] \in Id
      BY <1>1, <1>7 DEF Inspect, At, Drafting, Backed
    <3>3. Drafting(w)'
      BY <1>1, <1>2, <2>1, <3>2, SameRows
         DEF Step, With, Working, Drafting, Needed, Storing
    <3> QED
      BY <1>1, <1>2, <2>1, <3>1, <3>3, QuietWorker DEF Same
  <2> QED
    BY <1>3, <1>7, <2>1 DEF Inspect
<1> QED
  BY <1>4, <1>5, <1>6, <1>7

\* The stages of the IR that write, and read back what they wrote.
LEMMA EncodeStep ==
  ASSUME ReductionInv, NEW w \in Worker, Encode(w) \/ Verify(w)
  PROVE  ReductionInv'
<1>1. ~At(w, "idle") /\ Working(w) /\ Drafting(w) /\ DOMAIN work = Worker
  BY DEF ReductionInv, WorkInv, At, Encode, Verify
<1>2. ASSUME IRFails(w), UNCHANGED vaultVars
      PROVE  ReductionInv'
  BY <1>1, <1>2, FailStep
<1>3. CASE Encode(w)
  <2>1. ASSUME NEW who \in Caller,
               PutArtifact(Pick(work[w].todo), who, {<<work[w].session, work[w].request>>}),
               Step(w, [pc |-> "verify", id |-> IdAfterStore(Pick(work[w].todo))]),
               Same, UNCHANGED captured
        PROVE  ReductionInv'
    <3>1. <<work[w].session, work[w].request>> \in Session \X Request
      BY <1>1 DEF Working
    <3> QED
      BY <1>3, <2>1, <3>1, StoreStep DEF Encode, At, Same
  <2> QED
    BY <1>2, <1>3, <2>1 DEF Encode
<1>4. CASE Verify(w)
  <2> DEFINE c == Pick(work[w].todo)
  <2>1. c \in work[w].todo /\ c \in Content
    BY <1>1, <1>4, PickIsAMember DEF Verify, At, Drafting, Storing
  <2>2. ASSUME held[c] = work[w].id,
               Step(w, [pc |-> "encode", todo |-> work[w].todo \ {c}, id |-> NoId,
                        draft |-> work[w].draft \cup {<<c, work[w].id>>}]), Same
        PROVE  ReductionInv'
    <3>1. Working(w)'
      BY <1>1, <2>2 DEF Step, With, Working, Needed
    <3>2. Backed(<<c, work[w].id>>)
      BY <1>1, <1>4, <2>1, <2>2 DEF Verify, At, Drafting, Backed
    <3>3. \A p \in work[w].draft \cup {<<c, work[w].id>>} : Backed(p)
      BY <1>1, <1>4, <3>2 DEF Verify, At, Drafting, Storing
    <3>4. Drafting(w)'
      BY <1>1, <1>4, <2>2, <3>3, SameRows
         DEF Verify, At, Step, With, Working, Drafting, Needed, Storing
    <3> QED
      BY <1>1, <1>4, <2>2, <3>1, <3>4, QuietWorker DEF Verify, Same
  <2> QED
    BY <1>2, <1>4, <2>2 DEF Verify
<1> QED
  BY <1>3, <1>4

\* The request is exposed, sent or abandoned.
LEMMA SendStep ==
  ASSUME ReductionInv, NEW w \in Worker, Protect(w) \/ Send(w) \/ Abandon(w)
  PROVE  ReductionInv'
<1>1. ~At(w, "idle") /\ Working(w) /\ Drafting(w) /\ DOMAIN work = Worker
  BY DEF ReductionInv, WorkInv, At, Protect, Send, Abandon
<1>2. CASE Protect(w)
  <2> DEFINE i == Pick(work[w].todo)
  <2>1. i \in Id /\ Step(w, [todo |-> work[w].todo \ {i}]) /\ sent' = sent
    BY <1>1, <1>2, PickIsAMember DEF Protect, At, Drafting, Same
  <2>2. VaultInv' /\ StaysBacked
    <3>1. CASE RecordExposure(work[w].session, i, work[w].request, FALSE) /\ UNCHANGED captured
      BY <1>1, <2>1, <3>1, ExposeKeeps DEF ReductionInv, Working
    <3>2. CASE UNCHANGED vaultVars
      BY <3>2, SameVaultKeeps DEF ReductionInv
    <3> QED
      BY <1>2, <3>1, <3>2 DEF Protect
  <2>3. /\ DOMAIN work' = Worker /\ \A v \in Worker \ {w} : work'[v] = work[v]
        /\ \A f \in Needed \ {"todo"} : work'[w][f] = work[w][f]
        /\ work'[w].todo = work[w].todo \ {i}
        /\ Needed \subseteq DOMAIN work'[w]
    BY <1>1, <2>1 DEF Step, With, Working, Needed
  <2>4. Working(w)'
    BY <1>1, <2>3 DEF Working, Needed
  <2>5. work[w].pc = "protect" /\ work'[w].pc = "protect" /\ work'[w].out = work[w].out
    BY <1>2, <2>3 DEF Protect, At, Needed
  <2>6. \A p \in work'[w].out : Backed(p)'
    BY <1>1, <2>2, <2>5 DEF Drafting, StaysBacked, Backed
  <2>7. Drafting(w)'
    BY <1>1, <2>3, <2>5, <2>6 DEF Drafting, Storing
  <2> QED
    BY <1>1, <2>1, <2>2, <2>3, <2>4, <2>7, OneWorker
<1>3. CASE Send(w) \/ Abandon(w)
  <2>1. VaultInv' /\ StaysBacked
    BY <1>3, SameVaultKeeps DEF ReductionInv, Send, Abandon
  <2>2. /\ DOMAIN work' = Worker /\ \A v \in Worker \ {w} : work'[v] = work[v]
        /\ At(w, "idle")'
    BY <1>1, <1>3 DEF Send, Abandon, Idle, At
  <2>3. sent' = sent \/ sent' = sent \cup work[w].out
    BY <1>3 DEF Send, Abandon, Same
  <2> QED
    BY <1>1, <2>1, <2>2, <2>3, OneWorker
<1> QED
  BY <1>2, <1>3

LEMMA BeginStep ==
  ASSUME ReductionInv, NEW w \in Worker, NEW s \in Session, NEW r \in Request,
         NEW messages \in SUBSET Content, Begin(w, s, r, messages)
  PROVE  ReductionInv'
<1>1. /\ DOMAIN work' = Worker /\ \A v \in Worker \ {w} : work'[v] = work[v]
      /\ work'[w] = [pc |-> "call", session |-> s, request |-> r, messages |-> messages,
                     scored |-> {}, todo |-> {}, draft |-> {}, out |-> {}, failed |-> FALSE,
                     baseline |-> NoId]
  BY DEF ReductionInv, WorkInv, Begin
<1>2. Working(w)'
  BY <1>1 DEF Working, Needed
<1>3. Drafting(w)'
  BY <1>1 DEF Drafting, Storing
<1>4. VaultInv' /\ StaysBacked
  BY SameVaultKeeps DEF ReductionInv, Begin
<1> QED
  BY <1>1, <1>2, <1>3, <1>4, OneWorker DEF Begin

\* Other processes store, and the tokenizer changes, while requests are reduced.
LEMMA ElsewhereStep ==
  ASSUME ReductionInv, UNCHANGED <<work, sent>>, VaultInv', StaysBacked
  PROVE  ReductionInv'
<1>1. \A p : Backed(p) => Backed(p)'
  BY DEF StaysBacked, Backed
<1>2. SentBacked'
  BY <1>1 DEF ReductionInv, SentBacked
<1>3. ASSUME NEW w \in Worker, ~At(w, "idle")'
      PROVE  Working(w)' /\ Drafting(w)'
  <2>1. Working(w) /\ Drafting(w)
    BY <1>3 DEF ReductionInv, WorkInv, At
  <2>2. Working(w)'
    BY <2>1 DEF Working
  <2>3. Drafting(w)'
    BY <1>1, <2>1 DEF Drafting, StaysBacked
  <2> QED
    BY <2>2, <2>3
<1>4. WorkInv'
  BY <1>3 DEF ReductionInv, WorkInv
<1> QED
  BY <1>2, <1>4 DEF ReductionInv

LEMMA PutElsewhereStep ==
  ASSUME ReductionInv, PutElsewhere
  PROVE  ReductionInv'
<1>1. PICK c \in Content, who \in Caller, pins \in {{}} \cup {{<<s, JevPin>>} : s \in Session} :
        PutArtifact(c, who, pins)
  BY DEF PutElsewhere
<1>2. pins \in SUBSET (Session \X Request)
  BY JevPinIsARequest
<1>3. VaultInv' /\ StaysBacked
  BY <1>1, <1>2, StoreKeeps DEF PutElsewhere, ReductionInv
<1> QED
  BY <1>3, ElsewhereStep DEF PutElsewhere, reducerVars

----------------------------------------------------------------------------
\* The vault stays sound under the reducers, a request being reduced holds only
\* receipts of pinned texts, and so does every request that was sent.
THEOREM ReductionInvariant == SemanticSpec => []ReductionInv
<1>1. SemanticInit => ReductionInv
  <2> SUFFICES ASSUME SemanticInit PROVE ReductionInv
    OBVIOUS
  <2>1. VaultInv
    BY InitVault DEF SemanticInit
  <2> QED
    BY <2>1 DEF SemanticInit, ReductionInv, WorkInv, SentBacked, At, Idle
<1>2. ReductionInv /\ [SemanticNext]_semanticVars => ReductionInv'
  <2> SUFFICES ASSUME ReductionInv, [SemanticNext]_semanticVars PROVE ReductionInv'
    OBVIOUS
  <2>1. ASSUME NEW w \in Worker, Reduce(w)
        PROVE  ReductionInv'
    BY <2>1, BeginStep, JevStep, SearchStep, EncodeStep, SendStep DEF Reduce
  <2>2. CASE TokenizerChanges \/ UNCHANGED semanticVars
    <3>1. UNCHANGED vaultVars /\ UNCHANGED <<work, sent>>
      BY <2>2 DEF TokenizerChanges, semanticVars, reducerVars
    <3> QED
      BY <3>1, SameVaultKeeps, ElsewhereStep DEF ReductionInv
  <2>3. CASE PutElsewhere
    BY <2>3, PutElsewhereStep
  <2> QED
    BY <2>1, <2>2, <2>3 DEF SemanticNext
<1> QED
  BY <1>1, <1>2, PTL DEF SemanticSpec

\* Whatever was sent can be read back for ever under the identifier in it.
THEOREM SemanticSentRecoverable == SemanticSpec => []SentRecoverable
<1>1. ReductionInv => SentRecoverable
  BY DEF ReductionInv, SentBacked, SentRecoverable, Backed
<1> QED
  BY <1>1, ReductionInvariant, PTL

----------------------------------------------------------------------------
(* The types. *)

\* What a step of a worker leaves of its record.
LEMMA StepFields ==
  ASSUME ReductionInv, NEW w \in Worker, ~At(w, "idle"), NEW fields, Step(w, fields)
  PROVE  /\ \A v \in Worker \ {w} : work'[v] = work[v]
         /\ \A f \in DOMAIN fields : work'[w][f] = fields[f]
         /\ \A f \in Needed \ DOMAIN fields : work'[w][f] = work[w][f]
<1>1. DOMAIN work = Worker /\ Needed \subseteq DOMAIN work[w]
  BY DEF ReductionInv, WorkInv, Working
<1>2. work' = [work EXCEPT ![w] = With(work[w], fields)]
  BY DEF Step
<1>3. work'[w] = With(work[w], fields)
  BY <1>1, <1>2
<1> QED BY <1>1, <1>2, <1>3 DEF With

\* The two counters of the model.
Tallies == tokenizer \in Tokenizers \cup {NoId} /\ reduced \in 0..MaxReductions

LEMMA TalliesStep ==
  ASSUME Tallies, [SemanticNext]_semanticVars
  PROVE  Tallies'
<1>1. ASSUME NEW w \in Worker, Reduce(w)
      PROVE  \/ UNCHANGED <<tokenizer, reduced>>
             \/ UNCHANGED tokenizer /\ reduced < MaxReductions /\ reduced' = reduced + 1
  <2>1. CASE Score(w) \/ Vault(w) \/ ReadBack(w) \/ JevGate(w) \/ Baseline(w)
    BY <2>1 DEF Score, Vault, ReadBack, JevGate, Baseline, JevFails, IRFails, Same
  <2>2. CASE Trial(w) \/ Encode(w) \/ Verify(w) \/ FinalGate(w) \/ Inspect(w)
    BY <2>2 DEF Trial, Encode, Verify, FinalGate, Inspect, IRFails, Same
  <2>3. CASE Protect(w) \/ Send(w) \/ Abandon(w)
    BY <2>3 DEF Protect, Send, Abandon, Same
  <2>4. ASSUME NEW s, NEW r, NEW messages, Begin(w, s, r, messages)
        PROVE  UNCHANGED tokenizer /\ reduced < MaxReductions /\ reduced' = reduced + 1
    BY <2>4 DEF Begin
  <2> QED BY <1>1, <2>1, <2>2, <2>3, <2>4 DEF Reduce
<1>2. CASE \E w \in Worker : Reduce(w)
  BY <1>1, <1>2, MaxReductionsIsANumber DEF Tallies
<1>3. CASE TokenizerChanges \/ PutElsewhere \/ UNCHANGED semanticVars
  BY <1>3 DEF Tallies, TokenizerChanges, PutElsewhere, semanticVars, reducerVars
<1> QED BY <1>2, <1>3 DEF SemanticNext

\* The state of the reducers keeps its shape.
THEOREM SemanticTypes == SemanticSpec => []SemanticTypeOK
<1>1. SemanticInit => Tallies
  BY MaxReductionsIsANumber DEF SemanticInit, Tallies
<1>2. Tallies /\ [SemanticNext]_semanticVars => Tallies'
  BY TalliesStep
<1>3. ReductionInv /\ Tallies => SemanticTypeOK
  <2> SUFFICES ASSUME ReductionInv, Tallies PROVE SemanticTypeOK
    OBVIOUS
  <2>1. sent \subseteq Content \X Id
    BY DEF ReductionInv, SentBacked, Backed
  <2>2. ASSUME NEW w \in Worker, ~At(w, "idle")
        PROVE  work[w].out \subseteq Content \X Id /\ work[w].scored \subseteq work[w].messages
    BY <2>2 DEF ReductionInv, WorkInv, Working, Drafting, Backed
  <2> QED BY <2>1, <2>2 DEF SemanticTypeOK, ReductionInv, VaultInv, Tallies
<1> QED
  BY <1>1, <1>2, <1>3, ReductionInvariant, PTL DEF SemanticSpec

----------------------------------------------------------------------------
(* The search: what the trials found is what the final gate counts.         *)

CountOf(r, t, coded) == SumFunctionOnSet(Cost(t, r.out, coded), r.messages)
Forms(S) == {<<c, ShortId(c)>> : c \in S}
Contents(d) == {p[1] : p \in d}
AllForms(d) == \A p \in d : p = <<p[1], ShortId(p[1])>>

\* The chosen forms make the request shorter by the tokenizer of its baseline.
Shorter(r, d) == d # {} => CountOf(r, r.baseline, d) < CountOf(r, r.baseline, {})

Searching(r) ==
  /\ r.pc = "trial" => r.baseline \in Tokenizers /\ AllForms(r.draft) /\ Shorter(r, r.draft)
  /\ r.pc \in {"encode", "verify"} => Shorter(r, Forms(r.todo \cup Contents(r.draft)))

SearchInv == \A w \in Worker : Searching(work[w])

LEMMA FormsOfContents == \A d : AllForms(d) => Forms(Contents(d)) = d
<1> SUFFICES ASSUME NEW d, AllForms(d) PROVE Forms(Contents(d)) = d
  OBVIOUS
<1>1. ASSUME NEW p \in d PROVE p \in Forms(Contents(d))
  BY DEF AllForms, Forms, Contents
<1>2. ASSUME NEW q \in Forms(Contents(d)) PROVE q \in d
  <2>1. PICK p \in d : q = <<p[1], ShortId(p[1])>>
    BY DEF Forms, Contents
  <2> QED BY <2>1 DEF AllForms
<1> QED BY <1>1, <1>2

LEMMA CountIsANumber ==
  ASSUME NEW r, r.messages \subseteq Content, NEW t \in Tokenizers, NEW coded
  PROVE  CountOf(r, t, coded) \in Nat
<1> DEFINE f == Cost(t, r.out, coded)
           S == r.messages
<1>1. \A c \in Content : Plain[t][c] \in Nat /\ Coded[t][c] \in Nat /\ Coded[t][c] + 1 \in Nat
  BY CountsAreNumbers
<1>2. \A c \in Content : f[c] \in Nat
  BY <1>1 DEF Cost
<1>3. IsFiniteSet(S)
  BY ContentIsFinite, FS_Subset
<1> HIDE DEF f
<1>4. \A T \in SUBSET S : Sum(f, T) \in Nat
  BY <1>2, <1>3, SumIsANumber
<1>5. Sum(f, S) \in Nat
  BY <1>4
<1> QED BY <1>5 DEF CountOf, Sum, f

\* What Shorter says of a record rests on four of its fields.
LEMMA SameRequest ==
  ASSUME NEW r, NEW q, NEW d, Shorter(r, d),
         q.baseline = r.baseline, q.out = r.out, q.messages = r.messages
  PROVE  Shorter(q, d)
BY DEF Shorter, CountOf

\* A trial is kept only when it is shorter than the forms it adds to.
LEMMA TrialSearches ==
  ASSUME ReductionInv, NEW w \in Worker, Searching(work[w]), Trial(w), ~IRFails(w)
  PROVE  Searching(work'[w])
<1>1. ~At(w, "idle") /\ work[w].pc = "trial" /\ work[w].messages \subseteq Content
  BY DEF Trial, At, ReductionInv, WorkInv, Working
<1>2. work[w].baseline \in Tokenizers /\ AllForms(work[w].draft) /\ Shorter(work[w], work[w].draft)
  BY <1>1 DEF Searching
<1>3. CASE work[w].todo = {}
  <2>1. Step(w, [pc |-> "encode", todo |-> {p[1] : p \in work[w].draft}, draft |-> {}])
    BY <1>3 DEF Trial
  <2>2. /\ work'[w].pc = "encode" /\ work'[w].todo = Contents(work[w].draft)
        /\ work'[w].draft = {} /\ work'[w].baseline = work[w].baseline
        /\ work'[w].out = work[w].out /\ work'[w].messages = work[w].messages
    BY <1>1, <2>1, StepFields DEF Contents, Needed
  <2>3. work'[w].todo \cup Contents(work'[w].draft) = Contents(work[w].draft)
    BY <2>2 DEF Contents
  <2>4. Shorter(work'[w], Forms(Contents(work[w].draft)))
    BY <1>2, <2>2, FormsOfContents, SameRequest
  <2> QED BY <2>2, <2>3, <2>4 DEF Searching
<1>4. CASE work[w].todo # {}
  <2> DEFINE c == Pick(work[w].todo)
             draft == work[w].draft
             trial == draft \cup {<<c, ShortId(c)>>}
             base == work[w].baseline
             best == IF Count(base, w, trial) < Count(base, w, draft) THEN trial ELSE draft
  <2>1. Step(w, [todo |-> work[w].todo \ {c}, draft |-> best])
    BY <1>4 DEF Trial
  <2>2. /\ work'[w].pc = "trial" /\ work'[w].baseline = base
        /\ work'[w].draft = best
        /\ work'[w].out = work[w].out /\ work'[w].messages = work[w].messages
    <3>1. PICK todo, kept : Step(w, [todo |-> todo, draft |-> kept]) /\ kept = best
      BY <2>1
    <3> HIDE DEF best
    <3> QED BY <1>1, <3>1, StepFields DEF Needed
  <2>3. AllForms(trial)
    BY <1>2 DEF AllForms
  <2>4. /\ Count(base, w, trial) = CountOf(work[w], base, trial)
        /\ Count(base, w, draft) = CountOf(work[w], base, draft)
    BY DEF Count, CountOf
  <2>5. PICK n, m, k : /\ n = CountOf(work[w], base, trial)
                       /\ m = CountOf(work[w], base, draft)
                       /\ k = CountOf(work[w], base, {})
    OBVIOUS
  <2>6. n \in Nat /\ m \in Nat /\ k \in Nat
    BY <1>1, <1>2, <2>5, CountIsANumber
  <2>7. draft # {} => m < k
    BY <1>2, <2>5 DEF Shorter
  <2>8. draft = {} => m = k
    BY <2>5
  <2> HIDE DEF trial, draft
  <2>9. n < m => n < k
    BY <2>6, <2>7, <2>8
  <2>10. CASE n < m
    <3>1. Shorter(work[w], trial)
      BY <2>5, <2>9, <2>10 DEF Shorter
    <3>2. work'[w].draft = trial
      BY <2>2, <2>4, <2>5, <2>10
    <3>3. Shorter(work'[w], trial)
      BY <2>2, <3>1, SameRequest
    <3> QED BY <1>2, <2>2, <2>3, <3>2, <3>3 DEF Searching
  <2>11. CASE ~(n < m)
    <3>1. work'[w].draft = draft
      BY <2>2, <2>4, <2>5, <2>11
    <3>2. Shorter(work'[w], draft)
      BY <1>2, <2>2, SameRequest DEF draft
    <3> QED BY <1>2, <2>2, <3>1, <3>2 DEF Searching, draft
  <2> QED BY <2>10, <2>11
<1> QED BY <1>3, <1>4

\* Storing and reading back neither adds nor drops a message.
LEMMA EncodeSearches ==
  ASSUME ReductionInv, NEW w \in Worker, Searching(work[w]), Encode(w) \/ Verify(w), ~IRFails(w)
  PROVE  Searching(work'[w])
<1>1. ~At(w, "idle") /\ work[w].pc \in {"encode", "verify"}
  BY DEF Encode, Verify, At
<1>2. Shorter(work[w], Forms(work[w].todo \cup Contents(work[w].draft)))
  BY <1>1 DEF Searching
<1>3. CASE Encode(w)
  <2>1. PICK id : Step(w, [pc |-> "verify", id |-> id])
    BY <1>3 DEF Encode
  <2>2. /\ work'[w].pc = "verify" /\ work'[w].todo = work[w].todo
        /\ work'[w].draft = work[w].draft /\ work'[w].baseline = work[w].baseline
        /\ work'[w].out = work[w].out /\ work'[w].messages = work[w].messages
    BY <1>1, <2>1, StepFields DEF Needed
  <2> QED BY <1>2, <2>2, SameRequest DEF Searching
<1>4. CASE Verify(w)
  <2> DEFINE c == Pick(work[w].todo)
             p == <<c, work[w].id>>
  <2>1. Step(w, [pc |-> "encode", todo |-> work[w].todo \ {c}, id |-> NoId,
                 draft |-> work[w].draft \cup {p}])
    BY <1>4 DEF Verify
  <2>2. /\ work'[w].pc = "encode" /\ work'[w].todo = work[w].todo \ {c}
        /\ work'[w].draft = work[w].draft \cup {p} /\ work'[w].baseline = work[w].baseline
        /\ work'[w].out = work[w].out /\ work'[w].messages = work[w].messages
    BY <1>1, <2>1, StepFields DEF Needed
  <2>3. c \in work[w].todo
    BY <1>4, PickIsAMember DEF Verify, At, ReductionInv, WorkInv, Drafting
  <2>4. work'[w].todo \cup Contents(work'[w].draft) = work[w].todo \cup Contents(work[w].draft)
    <3>1. Contents(work[w].draft \cup {p}) = Contents(work[w].draft) \cup {c}
      <4>1. PICK q : q = p
        OBVIOUS
      <4>2. q[1] = c
        BY <4>1
      <4> HIDE DEF c, p
      <4> QED BY <4>1, <4>2 DEF Contents
    <3> HIDE DEF c, p
    <3> QED BY <2>2, <2>3, <3>1
  <2>5. Shorter(work'[w], Forms(work[w].todo \cup Contents(work[w].draft)))
    BY <1>2, <2>2, SameRequest
  <2> QED BY <2>2, <2>4, <2>5 DEF Searching
<1> QED BY <1>3, <1>4

LEMMA SearchSteps ==
  ASSUME ReductionInv, Tallies, NEW w \in Worker, Searching(work[w]), Reduce(w)
  PROVE  Searching(work'[w]) /\ \A v \in Worker \ {w} : work'[v] = work[v]
<1>1. ASSUME ~At(w, "idle"), NEW fields, Step(w, fields)
      PROVE  \A v \in Worker \ {w} : work'[v] = work[v]
  BY <1>1, StepFields
<1>2. ASSUME ~At(w, "idle"), NEW fields, Step(w, fields),
             "pc" \in DOMAIN fields, fields.pc \notin {"trial", "encode", "verify"}
      PROVE  Searching(work'[w])
  BY <1>2, StepFields DEF Searching
<1>3. ASSUME NEW s, NEW r, NEW messages, Begin(w, s, r, messages)
      PROVE  Searching(work'[w]) /\ \A v \in Worker \ {w} : work'[v] = work[v]
  <2>1. DOMAIN work = Worker
    BY DEF ReductionInv, WorkInv
  <2>2. work'[w].pc = "call" /\ \A v \in Worker \ {w} : work'[v] = work[v]
    BY <1>3, <2>1 DEF Begin
  <2> QED BY <2>2 DEF Searching
<1>4. CASE Score(w) \/ Vault(w) \/ ReadBack(w) \/ JevGate(w)
  <2>1. ~At(w, "idle")
    BY <1>4 DEF Score, Vault, ReadBack, JevGate, At
  <2>2. CASE JevFails(w)
    BY <1>1, <1>2, <2>1, <2>2 DEF JevFails
  <2>3. CASE Score(w)
    BY <1>1, <1>2, <2>1, <2>2, <2>3 DEF Score
  <2>4. CASE Vault(w)
    BY <1>1, <1>2, <2>1, <2>2, <2>4 DEF Vault
  <2>5. CASE ReadBack(w)
    BY <1>1, <1>2, <2>1, <2>2, <2>5 DEF ReadBack
  <2>6. CASE JevGate(w)
    BY <1>1, <1>2, <2>1, <2>6 DEF JevGate
  <2> QED BY <1>4, <2>3, <2>4, <2>5, <2>6
<1>5. CASE Baseline(w) \/ Trial(w) \/ Encode(w) \/ Verify(w) \/ FinalGate(w) \/ Inspect(w)
  <2>1. ~At(w, "idle")
    BY <1>5 DEF Baseline, Trial, Encode, Verify, FinalGate, Inspect, At
  <2>2. CASE IRFails(w)
    BY <1>1, <1>2, <2>1, <2>2 DEF IRFails
  <2>3. CASE Baseline(w)
    <3>1. ASSUME tokenizer # NoId, NEW todo,
                 Step(w, [pc |-> "trial", baseline |-> tokenizer, todo |-> todo])
          PROVE  Searching(work'[w])
      <4>1. work[w].draft = {}
        BY <2>1, <2>3 DEF Baseline, At, ReductionInv, WorkInv, Drafting
      <4>2. work'[w].pc = "trial" /\ work'[w].baseline = tokenizer /\ work'[w].draft = {}
        BY <2>1, <3>1, <4>1, StepFields DEF Needed
      <4> QED BY <3>1, <4>2 DEF Searching, AllForms, Shorter, Tallies
    <3> QED BY <1>1, <2>1, <2>2, <2>3, <3>1 DEF Baseline
  <2>4. CASE Trial(w) /\ ~IRFails(w)
    <3>1. \E fields : Step(w, fields)
      BY <2>4 DEF Trial
    <3> QED BY <1>1, <2>1, <2>4, <3>1, TrialSearches
  <2>5. CASE (Encode(w) \/ Verify(w)) /\ ~IRFails(w)
    <3>1. \E fields : Step(w, fields)
      BY <2>5 DEF Encode, Verify
    <3> QED BY <1>1, <2>1, <2>5, <3>1, EncodeSearches
  <2>6. CASE FinalGate(w)
    BY <1>1, <1>2, <2>1, <2>2, <2>6 DEF FinalGate
  <2>7. CASE Inspect(w)
    BY <1>1, <1>2, <2>1, <2>2, <2>7 DEF Inspect
  <2> QED BY <1>5, <2>2, <2>3, <2>4, <2>5, <2>6, <2>7
<1>6. CASE Protect(w)
  <2>1. PICK todo : Step(w, [todo |-> todo])
    BY <1>6 DEF Protect
  <2>2. ~At(w, "idle") /\ work'[w].pc = "protect"
    BY <1>6, <2>1, StepFields DEF Protect, At, Needed
  <2> QED BY <1>1, <2>1, <2>2 DEF Searching
<1>7. CASE Send(w) \/ Abandon(w)
  <2>1. work' = [work EXCEPT ![w] = Idle] /\ DOMAIN work = Worker
    BY <1>7 DEF Send, Abandon, ReductionInv, WorkInv
  <2>2. work'[w].pc = "idle" /\ \A v \in Worker \ {w} : work'[v] = work[v]
    BY <2>1 DEF Idle
  <2> QED BY <2>2 DEF Searching
<1> QED BY <1>3, <1>4, <1>5, <1>6, <1>7 DEF Reduce

\* The count of the finished draft confirms the search, for any tokenizers, token
\* counts and number of workers, whatever is stored, pruned or loaded meanwhile.
THEOREM SemanticSearchHolds == SemanticSpec => []SearchHolds
<1>1. SemanticInit => SearchInv /\ Tallies
  BY MaxReductionsIsANumber DEF SemanticInit, SearchInv, Searching, Idle, Tallies
<1>2. ReductionInv /\ Tallies /\ SearchInv /\ [SemanticNext]_semanticVars => SearchInv' /\ Tallies'
  <2> SUFFICES ASSUME ReductionInv, Tallies, SearchInv, [SemanticNext]_semanticVars
               PROVE  SearchInv'
    BY TalliesStep
  <2>1. ASSUME NEW v \in Worker, Reduce(v)
        PROVE  SearchInv'
    BY <2>1, SearchSteps DEF SearchInv
  <2>2. CASE TokenizerChanges \/ PutElsewhere \/ UNCHANGED semanticVars
    <3>1. work' = work
      BY <2>2 DEF TokenizerChanges, PutElsewhere, semanticVars, reducerVars
    <3> QED BY <3>1 DEF SearchInv
  <2> QED BY <2>1, <2>2 DEF SemanticNext
<1>3. ReductionInv /\ SearchInv => SearchHolds
  <2> SUFFICES ASSUME ReductionInv, SearchInv, NEW w \in Worker,
                      At(w, "encode"), work[w].todo = {}, work[w].draft # {},
                      \A p \in work[w].draft : p[2] = ShortId(p[1])
               PROVE  Count(work[w].baseline, w, work[w].draft) < Count(work[w].baseline, w, {})
    BY DEF SearchHolds
  <2>1. \A p \in work[w].draft : p \in Content \X Id
    BY DEF At, ReductionInv, WorkInv, Drafting, Storing, Backed
  <2>2. AllForms(work[w].draft)
    BY <2>1 DEF AllForms
  <2>3. {} \cup Contents(work[w].draft) = Contents(work[w].draft)
    OBVIOUS
  <2>4. Shorter(work[w], work[w].draft)
    BY <2>2, <2>3, FormsOfContents DEF SearchInv, Searching, At
  <2> QED BY <2>4 DEF Shorter, CountOf, Count
<1> QED
  BY <1>1, <1>2, <1>3, ReductionInvariant, PTL DEF SemanticSpec

----------------------------------------------------------------------------
\* The vault keeps its capacity and its count under the reducers too.
THEOREM SemanticCapacityKept == SemanticSpec => []CapacityKept
<1>1. ReductionInv => CapacityKept
  BY DEF ReductionInv, VaultInv, Counted, CapacityKept
<1> QED
  BY <1>1, ReductionInvariant, PTL
============================================================================
