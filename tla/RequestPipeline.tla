-------------------------- MODULE RequestPipeline --------------------------
(***************************************************************************)
(* llm_request_middleware (plugin.py) over the shared vault: the compiler  *)
(* (compiler.py), the context compactor (context_compactor.py) and the     *)
(* final protection of the receipts that leave the machine.  Several       *)
(* workers, in one process or in many, run requests at once; each store    *)
(* call is one transaction, so the interleavings of their calls are the    *)
(* behaviours of this module.                                              *)
(*                                                                         *)
(* A request is its tool results in order.  A result is sent in full or as *)
(* a receipt that names its artifact.  Every substitution made by these    *)
(* two phases is strictly smaller than what it replaces, so the candidate  *)
(* is strictly smaller than the original exactly when it has a receipt.    *)
(* A configured tokenizer may still refuse it (enhancements.py).  The       *)
(* optional Jev and Context IR phases are disabled, as by default.         *)
(***************************************************************************)
EXTENDS EvidenceVault, Sequences

CONSTANTS
  Worker,
  Job,            \* [session, key, texts: sequence of contents, old: how many
                  \*  leading texts belong to turns that are no longer recent]
  MinArtifact,    \* config.min_artifact_chars
  MinVault,       \* config.context_min_vault_chars
  ReceiptChars,   \* length of a receipt
  MaxRequests,    \* bound: requests begun
  MaxFaults       \* bound: store calls that fail for an outside reason

ASSUME CallersAreOurs == Caller = Session \X {"tool", "compactor"}
ASSUME JobsAreRequests ==
  \A j \in Job : /\ j.session \in Session
                 /\ j.key \in Request
                 /\ j.texts \in Seq(Content)
                 /\ j.old \in 0..Len(j.texts)
ASSUME VaultedExceedsReceipt == ReceiptChars < MinVault

VARIABLES
  work,        \* what each worker is doing
  published,   \* requests handed to the provider in reduced form
  begun,       \* requests begun so far
  faults,      \* store calls that have failed for an outside reason
  offLease     \* <<session, id, request>>: inline although no claim granted it

pipelineVars == <<work, published, begun, faults, offLease>>
vars == <<vaultVars, pipelineVars>>

\* The fields of a worker that compiles: the phase, its request, the positions
\* the phase's loop still has to visit, the artifact of each position, which
\* positions have become receipts, and the groups waiting for a claim.
Idle == [pc |-> "idle"]

Texts(w) == work[w].job.texts
Positions(w) == DOMAIN Texts(w)
SessionOf(w) == work[w].job.session
KeyOf(w) == work[w].job.key
At(w) == Min(work[w].todo)
IdAt(w) == work[w].id[At(w)]

Running(w, phase) == work[w].pc = phase
Looping(w, phase) == Running(w, phase) /\ work[w].todo # {}
LoopDone(w, phase) == Running(w, phase) /\ work[w].todo = {}

With(record, fields) ==
  [f \in DOMAIN record \cup DOMAIN fields |-> IF f \in DOMAIN fields THEN fields[f] ELSE record[f]]
Step(w, fields) == work' = [work EXCEPT ![w] = With(@, fields)]
Reset(w) == work' = [work EXCEPT ![w] = Idle]
Visited(w) == work[w].todo \ {At(w)}

Fault ==
  /\ faults < MaxFaults
  /\ faults' = faults + 1
NoFault == UNCHANGED faults

----------------------------------------------------------------------------
(* Slots and groups. *)

Slots(texts) == {p \in DOMAIN texts : Chars[texts[p]] \in MinArtifact..MaxArtifactChars}

\* Slots for which a receipt is a strict reduction, grouped by artifact.
Group(w, p) ==
  {q \in Slots(Texts(w)) : work[w].id[q] = work[w].id[p] /\ ReceiptChars < Chars[Texts(w)[q]]}
Newest(w, p) == Max(Group(w, p))

\* One position for each group, and one for each identifier in a set.
GroupLeaders(w) == {p \in Slots(Texts(w)) : Group(w, p) # {} /\ p = Min(Group(w, p))}
IdLeaders(w, ps) == {p \in ps : \A q \in ps : work[w].id[q] = work[w].id[p] => p <= q}

----------------------------------------------------------------------------
(* compile: store every slot. *)

Begin(w, j) ==
  /\ Running(w, "idle")
  /\ begun < MaxRequests
  /\ begun' = begun + 1
  /\ work' = [work EXCEPT ![w] =
       [pc |-> "put", job |-> j, todo |-> Slots(j.texts), receipts |-> {}, pending |-> {},
        vaulted |-> {}, unpinned |-> {}, id |-> [p \in DOMAIN j.texts |-> NoId]]]
  /\ UNCHANGED <<vaultVars, published, faults, offLease>>

StoreSlot(w) ==
  /\ Looping(w, "put")
  /\ LET c == Texts(w)[At(w)] IN
       /\ PutArtifact(c, <<SessionOf(w), "tool">>, {})
       /\ Step(w, [todo |-> Visited(w), id |-> [work[w].id EXCEPT ![At(w)] = IdAfterStore(c)]])
  /\ UNCHANGED <<captured, published, begun, faults, offLease>>

\* put_artifact raises: the compiler fails open and the host sends the original.
CompileFailsOpen(w) ==
  /\ Looping(w, "put")
  /\ \/ ~CanStore(Texts(w)[At(w)]) /\ NoFault
     \/ Fault
  /\ Reset(w)
  /\ UNCHANGED <<vaultVars, published, begun, offLease>>

----------------------------------------------------------------------------
(* compile: receipts for older duplicates, the read-only lease preflight,  *)
(* then the durable claims.  A failing preflight or claim keeps the        *)
(* evidence inline.                                                        *)

BeginPreflight(w) ==
  /\ LoopDone(w, "put")
  /\ Step(w, [pc |-> "preflight", todo |-> GroupLeaders(w)])
  /\ UNCHANGED <<vaultVars, published, begun, faults, offLease>>

Preflight(w) ==
  /\ Looping(w, "preflight")
  /\ LET p == At(w)
         newest == Newest(w, p)
         older_ == Group(w, p) \ {newest}
         inline == MayInline(SessionOf(w), IdAt(w), KeyOf(w))
         Keep == [todo |-> Visited(w), receipts |-> work[w].receipts \cup older_,
                  pending |-> work[w].pending \cup {p}]
         Replace == [todo |-> Visited(w), receipts |-> work[w].receipts \cup Group(w, p)]
     IN \/ NoFault /\ Step(w, IF inline THEN Keep ELSE Replace)
        \/ Fault /\ Step(w, Keep)
  /\ UNCHANGED <<vaultVars, published, begun, offLease>>

BeginClaims(w) ==
  /\ LoopDone(w, "preflight")
  /\ Step(w, [pc |-> "claim", todo |-> work[w].pending])
  /\ UNCHANGED <<vaultVars, published, begun, faults, offLease>>

\* The claim is answered by a row of its own, or inserts one.
Claimed(w) ==
  /\ Looping(w, "claim")
  /\ \/ /\ <<SessionOf(w), IdAt(w), KeyOf(w)>> \in inlined
        /\ UNCHANGED vaultVars
     \/ /\ ClaimInline(SessionOf(w), IdAt(w), KeyOf(w))
        /\ UNCHANGED captured
  /\ Step(w, [todo |-> Visited(w)])
  /\ UNCHANGED <<published, begun, faults, offLease>>

\* Somebody else used the lease up since the preflight.
ClaimRefused(w) ==
  /\ Looping(w, "claim")
  /\ ~MayInline(SessionOf(w), IdAt(w), KeyOf(w))
  /\ Step(w, [todo |-> Visited(w), receipts |-> work[w].receipts \cup {Newest(w, At(w))}])
  /\ UNCHANGED <<vaultVars, published, begun, faults, offLease>>

\* The insert violates its foreign key, or the database fails.
ClaimRaises(w) ==
  /\ Looping(w, "claim")
  /\ \/ /\ <<SessionOf(w), IdAt(w), KeyOf(w)>> \notin exposed
        /\ MayInline(SessionOf(w), IdAt(w), KeyOf(w))
        /\ ~Holds(IdAt(w))
        /\ NoFault
     \/ Fault
  /\ Step(w, [todo |-> Visited(w)])
  /\ offLease' = offLease \cup {<<SessionOf(w), IdAt(w), KeyOf(w)>>}
  /\ UNCHANGED <<vaultVars, published, begun>>

----------------------------------------------------------------------------
(* A candidate without a receipt is not smaller, and one with receipts may *)
(* still have more tokens: the original goes out and every artifact it     *)
(* holds is recorded as exposed inline.                                    *)

AcceptCandidate(w) ==
  /\ LoopDone(w, "claim")
  /\ work[w].receipts # {}
  /\ Step(w, [pc |-> "accounted"])
  /\ UNCHANGED <<vaultVars, published, begun, faults, offLease>>

SendOriginal(w) ==
  /\ LoopDone(w, "claim")
  /\ Step(w, [pc |-> "account", receipts |-> {}, todo |-> IdLeaders(w, Slots(Texts(w)))])
  /\ offLease' = IF work[w].receipts = {} THEN offLease ELSE offLease \cup
       {<<SessionOf(w), work[w].id[p], KeyOf(w)>> : p \in Slots(Texts(w))}
  /\ UNCHANGED <<vaultVars, published, begun, faults>>

\* An exposure that cannot be recorded is logged and forgotten.
ExposeOrForget(w, inline) ==
  \/ /\ RecordExposure(SessionOf(w), IdAt(w), KeyOf(w), inline)
     /\ UNCHANGED captured
     /\ NoFault
  \/ ~Holds(IdAt(w)) /\ NoFault /\ UNCHANGED vaultVars
  \/ Fault /\ UNCHANGED vaultVars

Account(w) ==
  /\ Looping(w, "account")
  /\ ExposeOrForget(w, TRUE)
  /\ Step(w, [todo |-> Visited(w)])
  /\ UNCHANGED <<published, begun, offLease>>

----------------------------------------------------------------------------
(* compact: the large results of old turns that are still in full are      *)
(* stored, read back, and replaced.  A result that cannot be stored or     *)
(* read back stays as it is.                                               *)

BeginCompaction(w) ==
  /\ LoopDone(w, "account") \/ Running(w, "accounted")
  /\ Step(w, [pc |-> "vault",
              todo |-> {p \in 1..work[w].job.old :
                          p \notin work[w].receipts /\ Chars[Texts(w)[p]] >= MinVault}])
  /\ UNCHANGED <<vaultVars, published, begun, faults, offLease>>

VaultResult(w) ==
  /\ Looping(w, "vault")
  /\ LET c == Texts(w)[At(w)] IN
       \/ /\ PutArtifact(c, <<SessionOf(w), "compactor">>, {})
          /\ Step(w, [pc |-> "check", id |-> [work[w].id EXCEPT ![At(w)] = IdAfterStore(c)]])
          /\ NoFault
          /\ UNCHANGED captured
       \/ /\ ~CanStore(c)
          /\ Step(w, [todo |-> Visited(w)])
          /\ NoFault
          /\ UNCHANGED vaultVars
       \/ Fault /\ Step(w, [todo |-> Visited(w)]) /\ UNCHANGED vaultVars
  /\ UNCHANGED <<published, begun, offLease>>

ReadBack(w) ==
  /\ Running(w, "check")
  /\ LET recovered == held[Texts(w)[At(w)]] = IdAt(w)
         Replace == [pc |-> "vault", todo |-> Visited(w),
                     vaulted |-> work[w].vaulted \cup {At(w)}]
         Keep == [pc |-> "vault", todo |-> Visited(w)]
     IN \/ NoFault /\ Step(w, IF recovered THEN Replace ELSE Keep)
        \/ Fault /\ Step(w, Keep)
  /\ UNCHANGED <<vaultVars, published, begun, offLease>>

----------------------------------------------------------------------------
(* The final gate, the best-effort protection of every receipt, and the    *)
(* hand-over to the provider.                                              *)

\* The tokenizer may refuse the compaction and keep the compiled candidate.
EndCompaction(w) ==
  /\ LoopDone(w, "vault")
  /\ \E receipts \in {work[w].receipts, work[w].receipts \cup work[w].vaulted} :
       IF receipts = {}
       THEN Reset(w)
       ELSE Step(w, [pc |-> "pin", receipts |-> receipts, todo |-> IdLeaders(w, receipts)])
  /\ UNCHANGED <<vaultVars, published, begun, faults, offLease>>

Protect(w) ==
  /\ Looping(w, "pin")
  /\ ExposeOrForget(w, FALSE)
  /\ Step(w, [todo |-> Visited(w),
              unpinned |-> IF exposed' = exposed /\
                              <<SessionOf(w), IdAt(w), KeyOf(w)>> \notin exposed
                           THEN work[w].unpinned \cup {IdAt(w)} ELSE work[w].unpinned])
  /\ UNCHANGED <<published, begun, offLease>>

Publish(w) ==
  /\ LoopDone(w, "pin")
  /\ published' = published \cup
       {[job |-> work[w].job,
         receipts |-> {<<Texts(w)[p], work[w].id[p]>> : p \in work[w].receipts},
         inline |-> {Texts(w)[p] : p \in Positions(w) \ work[w].receipts},
         unpinned |-> work[w].unpinned]}
  /\ Reset(w)
  /\ UNCHANGED <<vaultVars, begun, faults, offLease>>

\* The process dies, whatever it was doing; its transactions stay.
Die(w) ==
  /\ ~Running(w, "idle")
  /\ Reset(w)
  /\ UNCHANGED <<vaultVars, published, begun, faults, offLease>>

\* post_tool_call: a tool result is captured as it is produced.
PostToolCall(s, c) ==
  /\ Chars[c] \in MinArtifact..MaxArtifactChars
  /\ PutArtifact(c, <<s, "tool">>, {})
  /\ UNCHANGED <<captured, pipelineVars>>

----------------------------------------------------------------------------
PipelineInit ==
  /\ Init
  /\ work = [w \in Worker |-> Idle]
  /\ published = {}
  /\ begun = 0
  /\ faults = 0
  /\ offLease = {}

Compile(w) ==
  \/ \E j \in Job : Begin(w, j)
  \/ StoreSlot(w) \/ CompileFailsOpen(w)
  \/ BeginPreflight(w) \/ Preflight(w)
  \/ BeginClaims(w) \/ Claimed(w) \/ ClaimRefused(w) \/ ClaimRaises(w)
  \/ AcceptCandidate(w) \/ SendOriginal(w) \/ Account(w)

Compact(w) == BeginCompaction(w) \/ VaultResult(w) \/ ReadBack(w) \/ EndCompaction(w)

HandOver(w) == Protect(w) \/ Publish(w) \/ Die(w)

PipelineNext ==
  \/ \E w \in Worker : Compile(w) \/ Compact(w) \/ HandOver(w)
  \/ \E s \in Session, c \in Content : PostToolCall(s, c)

PipelineSpec == PipelineInit /\ [][PipelineNext]_vars

----------------------------------------------------------------------------
(* Properties. *)

\* A receipt that reached the provider names an artifact from which the
\* replaced text can be read back.
PublishedRecoverable ==
  \A q \in published : \A r \in q.receipts : held[r[1]] = r[2]

\* So does every receipt whose protection was recorded before the hand-over,
\* whatever the other workers, the crashes and the prunings did since.  (Two
\* contents with one 128-bit prefix are excluded, here and in LeaseBound: an
\* identifier freed before it is protected could be reissued.)
ProtectedRecoverable ==
  \A q \in published : \A r \in q.receipts : r[2] \notin q.unpinned => held[r[1]] = r[2]

\* The inline lease holds for artifacts whose receipt is smaller than they are,
\* against concurrent requests of the session: an exposure beyond it is a claim
\* that raised, or belongs to a candidate that the tokenizer refused.
LeaseBound ==
  \A s \in Session, c \in Held :
    ReceiptChars < Chars[c] =>
      InlineUses(s, held[c]) <=
        InlineLimit + Cardinality({f \in offLease : f[1] = s /\ f[2] = held[c]})

RecentInline(q) == q.inline \cap {q.job.texts[p] : p \in (q.job.old + 1)..Len(q.job.texts)}

\* A provider retry of the same request is sent the same way: what the compiler
\* showed of the recent turns in full, or as a receipt, it shows so again, as
\* long as no claim of the request and no protection failed and the tokenizer
\* refused no compiled candidate.  (What an old turn shows in full may become a
\* receipt of the compactor in one attempt and not in the other.)
RetrySendsTheSame ==
  \A q, r \in published :
    q.job = r.job /\ q.unpinned = {} /\ r.unpinned = {} /\ faults = 0
      /\ ~(\E f \in offLease : f[1] = q.job.session /\ f[3] = q.job.key)
    => RecentInline(q) = RecentInline(r)
============================================================================
