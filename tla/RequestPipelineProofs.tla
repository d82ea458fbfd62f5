----------------------- MODULE RequestPipelineProofs -----------------------
(***************************************************************************)
(* What the request pipeline promises for any workers, requests, limits    *)
(* and vaults, when no two artifacts share the 128-bit prefix of their     *)
(* digests.                                                                *)
(*                                                                         *)
(* Then an identifier names one content, so the groups of the compiler are *)
(* the equal results of a request.  The invariant PipelineInv says of each *)
(* group how far the choice between receipt and full text has come, and    *)
(* rests on three facts about the steps of the other workers (Onward):     *)
(* exposures are never taken back; what is given out inline beyond the     *)
(* lease is in offLease; and a denial is final for a request none of whose *)
(* claims has failed, since the uses of a lease only grow.                 *)
(***************************************************************************)
EXTENDS RequestPipeline, EvidenceVaultProofs, FiniteSetTheorems, WellFoundedInduction, SequenceTheorems

(* Requests and what was decided about their results. *)

Large(c) == ReceiptChars < Chars[c]

Row(j, c) == <<j.session, ShortId(c), j.key>>

\* The slots that may become receipts, those of one content, and the newest of them.
Replaceable(j) == {p \in Slots(j.texts) : Large(j.texts[p])}
Twins(j, p) == {q \in Slots(j.texts) : j.texts[q] = j.texts[p]}
Last(j, p) == Max(Twins(j, p))
OneEach(j, S) == \A p, q \in S : j.texts[p] = j.texts[q] => p = q

\* No claim of the request has failed, and no compiled candidate was refused.
Clean(s, k) == faults = 0 /\ ~(\E f \in offLease : f[1] = s /\ f[3] = k)

Denied(s, c, k) == ~MayInline(s, ShortId(c), k)

\* The newest result waits for its claim, the older ones are receipts.
Reserved(j, R, p) == Last(j, p) \notin R /\ Twins(j, p) \ {Last(j, p)} \subseteq R

\* All are receipts because the lease is used up, or the newest is granted.
Settled(j, R, p) ==
  IF Last(j, p) \in R
  THEN /\ Twins(j, p) \subseteq R
       /\ Clean(j.session, j.key) => Denied(j.session, j.texts[p], j.key)
  ELSE Row(j, j.texts[p]) \in inlined \cup offLease

Fields == {"pc", "job", "todo", "receipts", "pending", "vaulted", "unpinned", "id"}
Phases == {"put", "preflight", "claim", "accounted", "account", "vault", "check", "pin"}

\* The record of a worker that has a request.
Shape(r) ==
  /\ DOMAIN r = Fields /\ r.pc \in Phases /\ r.job \in Job
  /\ r.todo \subseteq DOMAIN r.job.texts /\ r.pending \subseteq DOMAIN r.job.texts
  /\ r.receipts \subseteq Replaceable(r.job) \cup 1..r.job.old
  /\ r.vaulted \subseteq 1..r.job.old
  /\ DOMAIN r.id = DOMAIN r.job.texts
  /\ \A p \in DOMAIN r.id : r.id[p] \in {NoId, ShortId(r.job.texts[p])}
  /\ \A p \in Slots(r.job.texts) : r.id[p] # NoId \/ (r.pc = "put" /\ p \in r.todo)
  /\ \A p \in r.receipts \cup r.vaulted : r.id[p] # NoId
  /\ r.pc = "put" => r.receipts = {} /\ r.pending = {}
  /\ r.pc \in {"preflight", "claim"} => r.receipts \subseteq Replaceable(r.job)
  /\ r.pc \in {"put", "account"} => r.todo \subseteq Slots(r.job.texts)
  /\ r.pc \in {"vault", "check"} => r.todo \subseteq 1..r.job.old
  /\ r.pc = "check" => r.todo # {} /\ r.id[Min(r.todo)] # NoId
  /\ r.pc = "pin" => r.todo \subseteq r.receipts

\* How far the choice between receipt and full text has come.
Undecided(r, p) == r.todo \cap Twins(r.job, p) # {}
Waiting(r, p) == r.pending \cap Twins(r.job, p) # {}

Choosing(r) ==
  /\ r.pc = "preflight" =>
       /\ r.todo \cup r.pending \subseteq Replaceable(r.job) /\ r.todo \cap r.pending = {}
       /\ OneEach(r.job, r.todo \cup r.pending)
       /\ \A p \in Replaceable(r.job) :
            IF Undecided(r, p) THEN r.receipts \cap Twins(r.job, p) = {}
            ELSE IF Waiting(r, p) THEN Reserved(r.job, r.receipts, p)
            ELSE Settled(r.job, r.receipts, p)
  /\ r.pc = "claim" =>
       /\ r.todo \subseteq Replaceable(r.job) /\ OneEach(r.job, r.todo)
       /\ \A p \in Replaceable(r.job) :
            IF Undecided(r, p) THEN Reserved(r.job, r.receipts, p)
            ELSE Settled(r.job, r.receipts, p)
  /\ r.pc \in {"accounted", "account", "vault", "check", "pin"} =>
       \A p \in Replaceable(r.job) : Last(r.job, p) > r.job.old => Settled(r.job, r.receipts, p)
  /\ r.pc = "account" =>
       \A p \in r.todo : Large(r.job.texts[p]) =>
         Row(r.job, r.job.texts[p]) \in inlined \cup offLease

\* Which receipts the final protection has reached.
Reached(r, p) ==
  \/ \E q \in r.todo : r.id[q] = r.id[p]
  \/ r.id[p] \in r.unpinned
  \/ <<r.job.session, r.id[p], r.job.key>> \in exposed
Pinning(r) == r.pc = "pin" => \A p \in r.receipts : Reached(r, p)

Working(r) == Shape(r) /\ Choosing(r) /\ Pinning(r)

\* What is known for ever of a request that was handed over.
Protects(q) ==
  \A r \in q.receipts :
    /\ r[1] \in Content /\ r[2] = ShortId(r[1])
    /\ r[2] \in q.unpinned \/ <<q.job.session, r[2], q.job.key>> \in exposed
Shows(q) ==
  /\ \A p \in (q.job.old + 1)..Len(q.job.texts) :
       p \notin Replaceable(q.job) => q.job.texts[p] \in q.inline
  /\ q.unpinned = {} /\ Clean(q.job.session, q.job.key) =>
       \A p \in Replaceable(q.job) : Last(q.job, p) > q.job.old =>
         IF q.job.texts[p] \in q.inline
         THEN Row(q.job, q.job.texts[p]) \in inlined
         ELSE /\ Row(q.job, q.job.texts[p]) \in exposed
              /\ Denied(q.job.session, q.job.texts[p], q.job.key)

\* The exposures of one artifact in one session that no failed claim and no
\* refused candidate explains.
Leased(s, c) == {e \in inlined \ offLease : e[1] = s /\ e[2] = ShortId(c)}

LeaseInv ==
  /\ IsFiniteSet(inlined) /\ IsFiniteSet(offLease)
  /\ \A s \in Session, c \in Content : Large(c) => Cardinality(Leased(s, c)) <= InlineLimit

PipelineInv ==
  /\ VaultInv /\ AllShort /\ LeaseInv
  /\ DOMAIN work = Worker /\ faults \in Nat
  /\ \A w \in Worker : ~Running(w, "idle") => Working(work[w])
  /\ \A q \in published : q.job \in Job /\ Protects(q) /\ Shows(q)

----------------------------------------------------------------------------
(* Positions. *)

\* A set of positions has a first and a last one.
LEMMA LeastExists ==
  ASSUME NEW S \in SUBSET Nat, S # {}
  PROVE  Min(S) \in S /\ \A y \in S : Min(S) <= y
<1>1. PICK x \in S : \A y \in S : ~(<<y, x>> \in OpToRel(<, Nat))
  BY WFMin, NatLessThanWellFounded
<1>0. OpToRel(<, Nat) = {ss \in Nat \X Nat : ss[1] < ss[2]}
  BY DEF OpToRel
<1>2. \A y \in S : x <= y
  <2> SUFFICES ASSUME NEW y \in S, ~(x <= y) PROVE FALSE
    OBVIOUS
  <2>1. <<y, x>> \in Nat \X Nat /\ y < x
    OBVIOUS
  <2> QED
    BY <1>0, <1>1, <2>1
<1> QED
  BY <1>1, <1>2 DEF Min

LEMMA GreatestExists ==
  ASSUME NEW n \in Nat, NEW S \in SUBSET (1..n), S # {}
  PROVE  Max(S) \in S /\ \A y \in S : y <= Max(S)
<1> DEFINE T == {n - y : y \in S}
<1>1. T \in SUBSET Nat /\ T # {}
  <2>1. \A y \in 1..n : n - y \in Nat
    OBVIOUS
  <2> QED
    BY <2>1
<1>2. PICK m \in T : \A t \in T : m <= t
  BY <1>1, LeastExists
<1>3. PICK x \in S : m = n - x
  BY <1>2
<1>4. \A y \in S : y <= x
  <2> SUFFICES ASSUME NEW y \in S PROVE y <= x
    OBVIOUS
  <2>1. m <= n - y
    BY <1>2
  <2> QED
    BY <1>3, <2>1
<1> QED
  BY <1>3, <1>4 DEF Max

----------------------------------------------------------------------------
(* Requests. *)

LEMMA JobFacts ==
  ASSUME NEW j \in Job
  PROVE  /\ j.session \in Session /\ j.key \in Request
         /\ Len(j.texts) \in Nat /\ j.old \in 0..Len(j.texts) /\ DOMAIN j.texts = 1..Len(j.texts)
         /\ \A p \in DOMAIN j.texts : j.texts[p] \in Content /\ ShortId(j.texts[p]) # NoId
         /\ Slots(j.texts) \subseteq DOMAIN j.texts /\ Replaceable(j) \subseteq Slots(j.texts)
<1>1. j.session \in Session /\ j.key \in Request /\ j.texts \in Seq(Content) /\ j.old \in 0..Len(j.texts)
  BY JobsAreRequests
<1>2. Len(j.texts) \in Nat /\ DOMAIN j.texts = 1..Len(j.texts)
  BY <1>1, LenProperties
<1>3. \A p \in DOMAIN j.texts : j.texts[p] \in Content
  BY <1>1, <1>2, ElementOfSeq
<1> QED
  BY <1>1, <1>2, <1>3, ShortIsAnId, NoIdIsNoIdentifier DEF Slots, Replaceable

\* The newest of the equal results.
LEMMA LastFacts ==
  ASSUME NEW j \in Job, NEW p \in Slots(j.texts)
  PROVE  /\ p \in Twins(j, p) /\ Last(j, p) \in Twins(j, p) /\ p <= Last(j, p)
         /\ Last(j, p) \in 1..Len(j.texts)
         /\ \A q \in Twins(j, p) : Twins(j, q) = Twins(j, p) /\ Last(j, q) = Last(j, p)
<1>1. Len(j.texts) \in Nat /\ Twins(j, p) \in SUBSET (1..Len(j.texts)) /\ p \in Twins(j, p)
  BY JobFacts DEF Twins
<1>2. Last(j, p) \in Twins(j, p) /\ \A y \in Twins(j, p) : y <= Last(j, p)
  BY <1>1, GreatestExists DEF Last
<1>3. \A q \in Twins(j, p) : Twins(j, q) = Twins(j, p)
  BY DEF Twins
<1> QED
  BY <1>1, <1>2, <1>3 DEF Last

LEMMA SameShortId ==
  ASSUME PrefixesDiffer, NEW c \in Content, NEW d \in Content, ShortId(c) = ShortId(d)
  PROVE  c = d
BY DEF PrefixesDiffer, ShortId

\* The groups of the compiler are the equal results.
LEMMA GroupIsTwins ==
  ASSUME PrefixesDiffer, NEW w, Shape(work[w]),
         \A q \in Slots(Texts(w)) : work[w].id[q] # NoId,
         NEW p \in Slots(Texts(w))
  PROVE  /\ work[w].id[p] = ShortId(Texts(w)[p])
         /\ p \in Replaceable(work[w].job) => Group(w, p) = Twins(work[w].job, p)
         /\ p \in Replaceable(work[w].job) => Newest(w, p) = Last(work[w].job, p)
         /\ p \notin Replaceable(work[w].job) => Group(w, p) = {}
<1> DEFINE r == work[w]
           j == r.job
<1>1. j \in Job /\ DOMAIN r.id = DOMAIN j.texts
  BY DEF Shape
<1>2. \A q \in Slots(j.texts) : r.id[q] = ShortId(j.texts[q]) /\ j.texts[q] \in Content
  BY <1>1, JobFacts DEF Shape, Texts
<1>3. \A q \in Slots(j.texts) : r.id[q] = r.id[p] <=> j.texts[q] = j.texts[p]
  BY <1>2, SameShortId DEF Texts
<1>4. Group(w, p) = {q \in Slots(j.texts) : j.texts[q] = j.texts[p] /\ Large(j.texts[q])}
  BY <1>3 DEF Group, Texts, Large
<1>5. p \in Replaceable(j) => Group(w, p) = Twins(j, p)
  BY <1>4 DEF Replaceable, Twins
<1>6. p \notin Replaceable(j) => Group(w, p) = {}
  BY <1>4 DEF Replaceable, Texts
<1> QED
  BY <1>2, <1>5, <1>6 DEF Newest, Last, Texts

\* Every group has one leader.
LEMMA LeadersCover ==
  ASSUME PrefixesDiffer, NEW w, Shape(work[w]), \A q \in Slots(Texts(w)) : work[w].id[q] # NoId
  PROVE  /\ GroupLeaders(w) \subseteq Replaceable(work[w].job)
         /\ OneEach(work[w].job, GroupLeaders(w))
         /\ \A p \in Replaceable(work[w].job) : GroupLeaders(w) \cap Twins(work[w].job, p) # {}
<1> DEFINE j == work[w].job
<1>1. j \in Job
  BY DEF Shape
<1>2. \A p \in GroupLeaders(w) :
        p \in Slots(j.texts) /\ p \in Replaceable(j) /\ p = Min(Twins(j, p))
  BY GroupIsTwins DEF GroupLeaders, Texts
<1>3. OneEach(j, GroupLeaders(w))
  <2> SUFFICES ASSUME NEW p \in GroupLeaders(w), NEW q \in GroupLeaders(w), j.texts[p] = j.texts[q]
               PROVE  p = q
    BY DEF OneEach
  <2>1. Twins(j, p) = Twins(j, q)
    BY DEF Twins
  <2> QED
    BY <1>2, <2>1
<1>4. ASSUME NEW p \in Replaceable(j)
      PROVE  GroupLeaders(w) \cap Twins(j, p) # {}
  <2> DEFINE m == Min(Twins(j, p))
  <2>1. p \in Slots(j.texts) /\ Twins(j, p) \in SUBSET Nat /\ p \in Twins(j, p)
    BY <1>1, JobFacts DEF Twins, Replaceable
  <2>2. m \in Twins(j, p)
    BY <2>1, LeastExists
  <2>3. Twins(j, m) = Twins(j, p) /\ m \in Replaceable(j) /\ m \in Slots(j.texts)
    BY <2>2 DEF Twins, Replaceable
  <2>4. m \in GroupLeaders(w)
    BY <2>1, <2>3, GroupIsTwins DEF GroupLeaders, Texts
  <2> QED
    BY <2>2, <2>4
<1> QED
  BY <1>2, <1>3, <1>4

----------------------------------------------------------------------------
(* What a step may do to the workers that do not take it. *)

\* The vault stays sound, exposures and failures are never taken back, and a denial
\* is final for a request none of whose claims has failed.
Onward ==
  /\ VaultSound /\ LeaseInv' /\ faults' \in Nat
  /\ inlined \subseteq inlined' /\ offLease \subseteq offLease'
  /\ faults' = 0 => faults = 0
  /\ \A s \in Session, c \in Content, k \in Request :
       Large(c) /\ Clean(s, k)' /\ Denied(s, c, k) => Denied(s, c, k)'

LEMMA SettledStays ==
  ASSUME Onward, NEW j \in Job, NEW R, NEW p \in Replaceable(j), Settled(j, R, p)
  PROVE  Settled(j, R, p)'
<1>1. j.session \in Session /\ j.key \in Request /\ j.texts[p] \in Content /\ Large(j.texts[p])
  BY JobFacts DEF Replaceable
<1>2. Clean(j.session, j.key)' => Clean(j.session, j.key)
  BY DEF Onward, Clean
<1>3. CASE Last(j, p) \in R
  <2>1. Clean(j.session, j.key)' => Denied(j.session, j.texts[p], j.key)'
    BY <1>1, <1>2, <1>3 DEF Settled, Onward
  <2> QED
    BY <1>3, <2>1 DEF Settled
<1>4. CASE Last(j, p) \notin R
  <2>1. Row(j, j.texts[p]) \in inlined' \cup offLease'
    BY <1>4 DEF Settled, Onward
  <2> QED
    BY <1>4, <2>1 DEF Settled, Row, ShortId
<1> QED
  BY <1>3, <1>4

LEMMA WorkingStays ==
  ASSUME Onward, NEW r, Working(r)
  PROVE  Working(r)'
<1>1. r.job \in Job
  BY DEF Working, Shape
<1>2. Shape(r)'
  BY DEF Working, Shape
<1>3. \A p \in Replaceable(r.job) : Settled(r.job, r.receipts, p) => Settled(r.job, r.receipts, p)'
  BY <1>1, SettledStays
<1>4. Choosing(r)'
  BY <1>3 DEF Working, Choosing, Onward, Undecided, Waiting, Reserved, Row, ShortId
<1>5. Pinning(r)'
  BY DEF Working, Pinning, Reached, Onward, VaultSound
<1> QED
  BY <1>2, <1>4, <1>5 DEF Working

LEMMA DeliveredStays ==
  ASSUME Onward, NEW q, q.job \in Job, Protects(q), Shows(q)
  PROVE  Protects(q)' /\ Shows(q)'
<1> DEFINE j == q.job
<1>1. Protects(q)'
  BY DEF Protects, Onward, VaultSound, ShortId
<1>2. Clean(j.session, j.key)' => Clean(j.session, j.key)
  BY DEF Onward, Clean
<1>3. ASSUME q.unpinned = {}, Clean(j.session, j.key)', NEW p \in Replaceable(j), Last(j, p) > j.old
      PROVE  IF j.texts[p] \in q.inline
             THEN Row(j, j.texts[p]) \in inlined'
             ELSE Row(j, j.texts[p]) \in exposed' /\ Denied(j.session, j.texts[p], j.key)'
  <2>1. j.session \in Session /\ j.key \in Request /\ j.texts[p] \in Content /\ Large(j.texts[p])
    BY JobFacts DEF Replaceable
  <2>2. IF j.texts[p] \in q.inline
        THEN Row(j, j.texts[p]) \in inlined
        ELSE Row(j, j.texts[p]) \in exposed /\ Denied(j.session, j.texts[p], j.key)
    BY <1>2, <1>3 DEF Shows
  <2> QED
    BY <1>3, <2>1, <2>2 DEF Onward, VaultSound
<1>4. Shows(q)'
  BY <1>3 DEF Shows, Row, ShortId
<1> QED
  BY <1>1, <1>4

\* It is enough to look at the worker that moves.
LEMMA OneWorker ==
  ASSUME PipelineInv, Onward, NEW w \in Worker,
         DOMAIN work' = Worker, \A v \in Worker \ {w} : work'[v] = work[v],
         ~Running(w, "idle")' => Working(work[w])',
         \A q \in published' \ published : q.job \in Job /\ Protects(q)' /\ Shows(q)'
  PROVE  PipelineInv'
<1>1. \A q \in published' : q.job \in Job /\ Protects(q)' /\ Shows(q)'
  BY DeliveredStays DEF PipelineInv
<1>2. ASSUME NEW v \in Worker, v # w, ~Running(v, "idle")'
      PROVE  Working(work[v])'
  <2>1. PICK r : r = work[v]
    OBVIOUS
  <2>2. r = work'[v] /\ Working(r)
    BY <1>2, <2>1 DEF PipelineInv, Running
  <2>3. Working(r)'
    BY <2>2, WorkingStays
  <2> QED
    BY <2>2, <2>3
<1> QED
  BY <1>1, <1>2 DEF PipelineInv, Onward, VaultSound

----------------------------------------------------------------------------
(* The lease. *)

LEMMA UsesGrow ==
  ASSUME IsFiniteSet(inlined'), inlined \subseteq inlined', NEW s, NEW i
  PROVE  /\ InlineUses(s, i) \in Nat /\ InlineUses(s, i)' \in Nat
         /\ InlineUses(s, i) <= InlineUses(s, i)'
<1> DEFINE A == {e \in inlined : e[1] = s /\ e[2] = i}
           B == {e \in inlined' : e[1] = s /\ e[2] = i}
<1>1. IsFiniteSet(B) /\ Cardinality(B) \in Nat
  BY FS_Subset, FS_CardinalityType
<1>2. A \subseteq B
  OBVIOUS
<1>3. Cardinality(A) \in Nat /\ Cardinality(A) <= Cardinality(B)
  BY <1>1, <1>2, FS_Subset, FS_CardinalityType
<1> QED
  BY <1>1, <1>3 DEF InlineUses

LEMMA LeaseStays ==
  ASSUME LeaseInv, IsFiniteSet(inlined'), IsFiniteSet(offLease'),
         \A e \in inlined' \ offLease' :
           e \in inlined \ offLease \/ \A c \in Content : Large(c) => e[2] # ShortId(c)
  PROVE  LeaseInv'
<1> SUFFICES ASSUME NEW s \in Session, NEW c \in Content, Large(c)
             PROVE  Cardinality(Leased(s, c))' <= InlineLimit
  BY DEF LeaseInv
<1>1. Leased(s, c)' \subseteq Leased(s, c)
  BY DEF Leased, ShortId
<1>2. IsFiniteSet(Leased(s, c))
  BY FS_Subset DEF LeaseInv, Leased
<1>3. Cardinality(Leased(s, c)') <= Cardinality(Leased(s, c))
      /\ Cardinality(Leased(s, c)') \in Nat /\ Cardinality(Leased(s, c)) \in Nat
  BY <1>1, <1>2, FS_Subset, FS_CardinalityType
<1>4. Cardinality(Leased(s, c)) <= InlineLimit
  BY DEF LeaseInv
<1> QED
  BY <1>3, <1>4, SizesAreNaturals

\* A step that gives nothing out inline.
LEMMA QuietOnward ==
  ASSUME PipelineInv, VaultSound, UNCHANGED inlined,
         offLease \subseteq offLease', IsFiniteSet(offLease'), faults' \in Nat, faults' = 0 => faults = 0
  PROVE  Onward
<1>1. LeaseInv'
  BY LeaseStays DEF PipelineInv, LeaseInv
<1>2. ASSUME NEW s \in Session, NEW c \in Content, NEW k \in Request, Denied(s, c, k)
      PROVE  Denied(s, c, k)'
  BY <1>2 DEF Denied, MayInline, InlineUses, VaultSound, PipelineInv, VaultInv, TypeOK, ShortId
<1> QED
  BY <1>1, <1>2 DEF Onward

\* An exposure that is recorded as inline leaves the other denials alone.
LEMMA DenialsStay ==
  ASSUME PipelineInv, NEW s, NEW i, NEW r, RecordExposure(s, i, r, TRUE), IsFiniteSet(inlined'),
         NEW t \in Session, NEW c \in Content, NEW k \in Request, Denied(t, c, k),
         <<t, ShortId(c), k>> # <<s, i, r>>
  PROVE  Denied(t, c, k)'
<1> DEFINE e == <<t, ShortId(c), k>>
           f == <<s, i, r>>
<1>1. exposed' = exposed \cup {f} /\ inlined' = inlined \cup {f} /\ e # f
  BY DEF RecordExposure
<1>2. InlineUses(t, ShortId(c)) <= InlineUses(t, ShortId(c))'
      /\ InlineUses(t, ShortId(c)) \in Nat /\ InlineUses(t, ShortId(c))' \in Nat
  BY <1>1, UsesGrow DEF ShortId
<1> HIDE DEF e, f
<1>3. IF e \in exposed THEN e \notin inlined ELSE ~(InlineUses(t, ShortId(c)) < InlineLimit)
  BY DEF Denied, MayInline, e
<1>4. IF e \in exposed' THEN e \notin inlined' ELSE ~(InlineUses(t, ShortId(c))' < InlineLimit)
  BY <1>1, <1>2, <1>3, SizesAreNaturals DEF PipelineInv, VaultInv, TypeOK
<1> QED
  BY <1>4 DEF Denied, MayInline, e, ShortId

LEMMA ClaimOnward ==
  ASSUME PipelineInv, NEW s \in Session, NEW i, NEW r \in Request, ClaimInline(s, i, r),
         UNCHANGED <<captured, offLease, faults>>
  PROVE  Onward
<1> DEFINE e == <<s, i, r>>
<1>1. /\ e \notin exposed /\ InlineUses(s, i) < InlineLimit /\ RecordExposure(s, i, r, TRUE)
      /\ inlined' = inlined \cup {e}
  BY DEF ClaimInline, MayInline, RecordExposure
<1>2. VaultSound
  <2>1. Claim
    BY <1>1 DEF Claim, ClaimInline, RecordExposure, Holds
  <2> QED
    BY <2>1, ReferenceSound DEF PipelineInv
<1>3. IsFiniteSet(inlined')
  BY <1>1, FS_AddElement DEF PipelineInv, LeaseInv
<1>4. LeaseInv'
  <2> SUFFICES ASSUME NEW t \in Session, NEW c \in Content, Large(c)
               PROVE  Cardinality(Leased(t, c))' <= InlineLimit
    BY <1>3 DEF LeaseInv, PipelineInv
  <2>1. CASE t = s /\ ShortId(c) = i
    <3> DEFINE A == {x \in inlined : x[1] = s /\ x[2] = i}
    <3>1. Leased(t, c)' \subseteq A \cup {e}
      BY <1>1, <2>1 DEF Leased, ShortId
    <3>2. IsFiniteSet(A) /\ Cardinality(A) \in Nat /\ Cardinality(A) < InlineLimit
      BY <1>1, FS_Subset, FS_CardinalityType DEF InlineUses, PipelineInv, LeaseInv
    <3>3. IsFiniteSet(A \cup {e}) /\ Cardinality(A \cup {e}) <= Cardinality(A) + 1
          /\ Cardinality(A \cup {e}) \in Nat
      <4> HIDE DEF A, e
      <4>1. IsFiniteSet(A \cup {e})
            /\ Cardinality(A \cup {e}) = IF e \in A THEN Cardinality(A) ELSE Cardinality(A) + 1
        BY <3>2, FS_AddElement
      <4> QED
        BY <3>2, <4>1
    <3>4. Cardinality(Leased(t, c)') <= Cardinality(A \cup {e}) /\ Cardinality(Leased(t, c)') \in Nat
      BY <3>1, <3>3, FS_Subset, FS_CardinalityType
    <3> HIDE DEF A, e
    <3> QED
      BY <3>2, <3>3, <3>4, SizesAreNaturals
  <2>2. CASE ~(t = s /\ ShortId(c) = i)
    <3>1. Leased(t, c)' = Leased(t, c)
      BY <1>1, <2>2 DEF Leased, ShortId
    <3> QED
      BY <3>1 DEF PipelineInv, LeaseInv
  <2> QED
    BY <2>1, <2>2
<1>5. ASSUME NEW t \in Session, NEW c \in Content, NEW k \in Request, Denied(t, c, k)
      PROVE  Denied(t, c, k)'
  <2>1. <<t, ShortId(c), k>> # <<s, i, r>>
    BY <1>1, <1>5 DEF Denied, MayInline
  <2> QED
    BY <1>1, <1>3, <1>5, <2>1, DenialsStay
<1> QED
  BY <1>1, <1>2, <1>4, <1>5 DEF Onward, PipelineInv

\* The original is recorded as inline: of the artifacts with a smaller receipt only
\* what the lease granted or a failure explains.
LEMMA AccountOnward ==
  ASSUME PipelineInv, NEW s \in Session, NEW i, NEW r \in Request, RecordExposure(s, i, r, TRUE),
         UNCHANGED <<captured, offLease, faults>>,
         \A c \in Content : Large(c) /\ i = ShortId(c) => <<s, i, r>> \in inlined \cup offLease
  PROVE  Onward
<1> DEFINE e == <<s, i, r>>
<1>1. inlined' = inlined \cup {e} /\ exposed' = exposed \cup {e}
  BY DEF RecordExposure
<1>2. VaultSound
  <2>1. Expose
    BY DEF Expose, RecordExposure, Holds
  <2> QED
    BY <2>1, ReferenceSound DEF PipelineInv
<1>3. IsFiniteSet(inlined') /\ IsFiniteSet(offLease')
  BY <1>1, FS_AddElement DEF PipelineInv, LeaseInv
<1>4. LeaseInv'
  BY <1>1, <1>3, LeaseStays DEF PipelineInv
<1>5. ASSUME NEW t \in Session, NEW c \in Content, NEW k \in Request, Large(c), Clean(t, k)', Denied(t, c, k)
      PROVE  Denied(t, c, k)'
  <2>1. CASE <<t, ShortId(c), k>> # e
    BY <1>3, <1>5, <2>1, DenialsStay
  <2>2. CASE <<t, ShortId(c), k>> = e
    <3>1. e \in inlined \cup offLease /\ t = s /\ k = r
      BY <1>5, <2>2
    <3>2. e \notin offLease
      BY <1>5, <3>1 DEF Clean
    <3>3. e \in inlined /\ e \in exposed
      BY <3>1, <3>2 DEF PipelineInv, VaultInv, TypeOK
    <3> QED
      BY <1>5, <2>2, <3>3 DEF Denied, MayInline
  <2> QED
    BY <2>1, <2>2
<1> QED
  BY <1>1, <1>2, <1>4, <1>5 DEF Onward, PipelineInv

----------------------------------------------------------------------------
(* Steps of a worker. *)

LEMMA StillOnward ==
  ASSUME PipelineInv, UNCHANGED <<vaultVars, offLease>>, Fault \/ NoFault
  PROVE  Onward
<1>1. VaultSound
  BY ReferenceSound DEF PipelineInv
<1> QED
  BY <1>1, QuietOnward DEF Fault, NoFault, PipelineInv, LeaseInv, vaultVars

LEMMA StepFields ==
  ASSUME PipelineInv, NEW w \in Worker, ~Running(w, "idle"), NEW fields, Step(w, fields),
         DOMAIN fields \subseteq Fields
  PROVE  /\ DOMAIN work' = Worker /\ \A v \in Worker \ {w} : work'[v] = work[v]
         /\ Working(work[w]) /\ DOMAIN work'[w] = Fields
         /\ \A n \in DOMAIN fields : work'[w][n] = fields[n]
         /\ \A n \in Fields \ DOMAIN fields : work'[w][n] = work[w][n]
<1>1. DOMAIN work = Worker /\ Working(work[w]) /\ DOMAIN work[w] = Fields
  BY DEF PipelineInv, Working, Shape
<1>2. work' = [work EXCEPT ![w] = With(work[w], fields)]
  BY DEF Step
<1>3. work'[w] = With(work[w], fields)
  BY <1>1, <1>2
<1> QED
  BY <1>1, <1>2, <1>3 DEF With

LEMMA WorkingNext ==
  ASSUME NEW s, Shape(s), Choosing(s)', Pinning(s)'
  PROVE  Working(s)'
BY DEF Working, Shape

LEMMA StepKeeps ==
  ASSUME PipelineInv, Onward, NEW w \in Worker, ~Running(w, "idle"), NEW fields, Step(w, fields),
         DOMAIN fields \subseteq Fields, UNCHANGED published,
         NEW s, s = work'[w], Shape(s), Choosing(s)', Pinning(s)'
  PROVE  PipelineInv'
<1>1. Working(s)'
  BY WorkingNext
<1>2. Working(work[w])'
  BY <1>1
<1> QED
  BY <1>2, StepFields, OneWorker

LEMMA ResetKeeps ==
  ASSUME PipelineInv, Onward, NEW w \in Worker, Reset(w),
         \A q \in published' \ published : q.job \in Job /\ Protects(q)' /\ Shows(q)'
  PROVE  PipelineInv'
<1>1. DOMAIN work' = Worker /\ \A v \in Worker \ {w} : work'[v] = work[v]
  BY DEF Reset, PipelineInv
<1>2. Running(w, "idle")'
  BY DEF Reset, PipelineInv, Running, Idle
<1> QED
  BY <1>1, <1>2, OneWorker

\* The position a loop visits.
LEMMA AtFacts ==
  ASSUME NEW r, Shape(r), r.todo # {}
  PROVE  /\ Min(r.todo) \in r.todo /\ Min(r.todo) \in DOMAIN r.job.texts
         /\ r.job.texts[Min(r.todo)] \in Content
<1>1. r.todo \in SUBSET Nat
  BY JobFacts DEF Shape
<1> QED
  BY <1>1, LeastExists, JobFacts DEF Shape

LEMMA BeginKeeps ==
  ASSUME PipelineInv, NEW w \in Worker, NEW j \in Job, Begin(w, j)
  PROVE  PipelineInv'
<1>1. Onward /\ UNCHANGED published
  BY StillOnward DEF Begin, NoFault
<1>2. DOMAIN work' = Worker /\ \A v \in Worker \ {w} : work'[v] = work[v]
  BY DEF Begin, PipelineInv
<1>3. PICK s : s = work'[w]
  OBVIOUS
<1>4. s = [pc |-> "put", job |-> j, todo |-> Slots(j.texts), receipts |-> {}, pending |-> {},
           vaulted |-> {}, unpinned |-> {}, id |-> [p \in DOMAIN j.texts |-> NoId]]
  BY <1>3 DEF Begin, PipelineInv
<1>5. Shape(s)
  BY <1>4, JobFacts DEF Shape, Fields, Phases
<1>6. Choosing(s)' /\ Pinning(s)'
  BY <1>4 DEF Choosing, Pinning
<1>7. Working(s)'
  BY <1>5, <1>6, WorkingNext
<1> QED
  BY <1>1, <1>2, <1>3, <1>7, OneWorker

LEMMA StoreSlotKeeps ==
  ASSUME PrefixesDiffer, PipelineInv, NEW w \in Worker, StoreSlot(w)
  PROVE  PipelineInv'
<1> DEFINE r == work[w]
           p == Min(r.todo)
           c == r.job.texts[p]
           fields == [todo |-> r.todo \ {p}, id |-> [r.id EXCEPT ![p] = ShortId(c)]]
<1>1. ~Running(w, "idle") /\ r.pc = "put" /\ r.todo # {}
  BY DEF StoreSlot, Looping, Running
<1>2. Working(r) /\ Shape(r) /\ r.job \in Job
  BY <1>1 DEF PipelineInv, Working, Shape
<1>3. p \in r.todo /\ p \in DOMAIN r.job.texts /\ c \in Content
  BY <1>1, <1>2, AtFacts
<1>4. <<r.job.session, "tool">> \in Caller
  BY <1>2, JobFacts, CallersAreOurs
<1>5. PutArtifact(c, <<r.job.session, "tool">>, {}) /\ UNCHANGED <<captured, published, faults, offLease>>
      /\ Step(w, [todo |-> r.todo \ {p}, id |-> [r.id EXCEPT ![p] = IdAfterStore(c)]])
  BY DEF StoreSlot, Texts, At, SessionOf, Visited
<1>6. VaultSound /\ IdAfterStore(c) = ShortId(c)
  BY <1>3, <1>4, <1>5, StoreSound DEF PipelineInv
<1>7. Onward
  BY <1>5, <1>6, QuietOnward DEF PutArtifact, PutAt, PipelineInv, LeaseInv
<1>8. Step(w, fields)
  BY <1>5, <1>6
<1>9. PICK s : s = work'[w]
  OBVIOUS
<1>10. /\ DOMAIN s = Fields /\ s.todo = r.todo \ {p} /\ s.id = [r.id EXCEPT ![p] = ShortId(c)]
       /\ \A n \in Fields \ {"todo", "id"} : s[n] = r[n]
  BY <1>1, <1>8, <1>9, StepFields DEF Fields
<1> HIDE DEF p
<1>11. Shape(s)
  BY <1>1, <1>2, <1>3, <1>10, JobFacts DEF Shape, Fields
<1>12. Choosing(s)' /\ Pinning(s)'
  BY <1>1, <1>10 DEF Choosing, Pinning, Fields
<1> QED
  BY <1>1, <1>5, <1>7, <1>8, <1>9, <1>11, <1>12, StepKeeps DEF Fields

LEMMA BeginPreflightKeeps ==
  ASSUME PrefixesDiffer, PipelineInv, NEW w \in Worker, BeginPreflight(w)
  PROVE  PipelineInv'
<1> DEFINE r == work[w]
           fields == [pc |-> "preflight", todo |-> GroupLeaders(w)]
<1>1. ~Running(w, "idle") /\ r.pc = "put" /\ r.todo = {} /\ Step(w, fields)
  BY DEF BeginPreflight, LoopDone, Running
<1>2. Working(r) /\ Shape(r) /\ r.job \in Job
  BY <1>1 DEF PipelineInv, Working, Shape
<1>3. Onward /\ UNCHANGED published
  BY StillOnward DEF BeginPreflight, NoFault
<1>4. PICK s : s = work'[w]
  OBVIOUS
<1>5. /\ DOMAIN s = Fields /\ s.todo = GroupLeaders(w) /\ s.pc = "preflight"
      /\ \A n \in Fields \ {"todo", "pc"} : s[n] = r[n]
  BY <1>1, <1>4, StepFields DEF Fields
<1>6. /\ GroupLeaders(w) \subseteq Replaceable(r.job) /\ OneEach(r.job, GroupLeaders(w))
      /\ \A p \in Replaceable(r.job) : GroupLeaders(w) \cap Twins(r.job, p) # {}
  BY <1>1, <1>2, LeadersCover DEF Shape, Texts
<1>7. Shape(s)
  BY <1>1, <1>2, <1>5, <1>6, JobFacts DEF Shape, Fields, Phases
<1>8. Choosing(s)' /\ Pinning(s)'
  BY <1>1, <1>2, <1>5, <1>6 DEF Choosing, Pinning, Fields, Shape, Undecided
<1> QED
  BY <1>1, <1>3, <1>4, <1>7, <1>8, StepKeeps DEF Fields

----------------------------------------------------------------------------
(* The choice between receipts and full texts. *)

\* What becomes of one content does not depend on the receipts of the others, and
\* it is the same for its equal results.
LEMMA ChoiceIsLocal ==
  ASSUME NEW j \in Job, NEW p \in Replaceable(j), NEW R, NEW T,
         R \cap Twins(j, p) = T \cap Twins(j, p)
  PROVE  /\ Settled(j, R, p) => Settled(j, T, p)
         /\ Reserved(j, R, p) => Reserved(j, T, p)
<1>1. Last(j, p) \in Twins(j, p)
  BY LastFacts, JobFacts
<1>2. Last(j, p) \in R <=> Last(j, p) \in T
  BY <1>1
<1>3. Twins(j, p) \subseteq R <=> Twins(j, p) \subseteq T
  OBVIOUS
<1> QED
  BY <1>2, <1>3 DEF Settled, Reserved

LEMMA ChoiceIsShared ==
  ASSUME NEW j \in Job, NEW p \in Replaceable(j), NEW q \in Replaceable(j), NEW R,
         j.texts[p] = j.texts[q]
  PROVE  /\ Twins(j, q) = Twins(j, p) /\ Last(j, q) = Last(j, p)
         /\ Settled(j, R, p) <=> Settled(j, R, q)
         /\ Reserved(j, R, p) <=> Reserved(j, R, q)
BY DEF Twins, Last, Settled, Reserved

LEMMA PreflightKeeps ==
  ASSUME PrefixesDiffer, PipelineInv, NEW w \in Worker, Preflight(w)
  PROVE  PipelineInv'
<1> DEFINE r == work[w]
           j == r.job
           p == Min(r.todo)
           twins == Twins(j, p)
           keep == [todo |-> r.todo \ {p}, receipts |-> r.receipts \cup (twins \ {Last(j, p)}),
                    pending |-> r.pending \cup {p}]
           replace == [todo |-> r.todo \ {p}, receipts |-> r.receipts \cup twins]
<1>1. ~Running(w, "idle") /\ r.pc = "preflight" /\ r.todo # {}
  BY DEF Preflight, Looping, Running
<1>2. Working(r) /\ Shape(r) /\ Choosing(r) /\ j \in Job
  BY <1>1 DEF PipelineInv, Working, Shape
<1>3. p \in r.todo /\ p \in DOMAIN j.texts /\ j.texts[p] \in Content
  BY <1>1, <1>2, AtFacts
<1>4. p \in Replaceable(j) /\ p \in Slots(j.texts)
  BY <1>1, <1>2, <1>3, JobFacts DEF Choosing
<1>5. Group(w, p) = twins /\ Newest(w, p) = Last(j, p) /\ r.id[p] = ShortId(j.texts[p])
  BY <1>1, <1>2, <1>4, GroupIsTwins DEF Shape, Texts
<1>6. \/ Step(w, keep)
      \/ Step(w, replace) /\ Denied(j.session, j.texts[p], j.key)
  BY <1>5 DEF Preflight, At, IdAt, SessionOf, KeyOf, Visited, Denied
<1>7. Onward /\ UNCHANGED published
  BY StillOnward DEF Preflight
<1>8. PICK s : s = work'[w]
  OBVIOUS
<1>9. /\ DOMAIN s = Fields /\ s.todo = r.todo \ {p} /\ s.pc = r.pc /\ s.job = j
      /\ s.vaulted = r.vaulted /\ s.id = r.id
      /\ \/ /\ s.receipts = r.receipts \cup (twins \ {Last(j, p)}) /\ s.pending = r.pending \cup {p}
         \/ /\ s.receipts = r.receipts \cup twins /\ s.pending = r.pending
            /\ Denied(j.session, j.texts[p], j.key)
  <2>1. CASE Step(w, keep)
    BY <1>1, <1>8, <2>1, StepFields DEF Fields
  <2>2. CASE Step(w, replace) /\ Denied(j.session, j.texts[p], j.key)
    BY <1>1, <1>8, <2>2, StepFields DEF Fields
  <2> QED
    BY <1>6, <2>1, <2>2
<1> HIDE DEF p
<1>10. twins \subseteq Replaceable(j) /\ Last(j, p) \in twins /\ p \in twins
  BY <1>2, <1>4, LastFacts DEF Twins, Replaceable
<1>11. Shape(s)
  BY <1>1, <1>2, <1>3, <1>9, <1>10, JobFacts DEF Shape, Fields
<1>12. /\ r.todo \cup r.pending \subseteq Replaceable(j) /\ r.todo \cap r.pending = {}
       /\ OneEach(j, r.todo \cup r.pending)
       /\ r.receipts \cap twins = {}
       /\ \A q \in Replaceable(j) :
            IF Undecided(r, q) THEN r.receipts \cap Twins(j, q) = {}
            ELSE IF Waiting(r, q) THEN Reserved(j, r.receipts, q)
            ELSE Settled(j, r.receipts, q)
  BY <1>1, <1>2, <1>3, <1>4, <1>10 DEF Choosing, Undecided
<1>13. \A q \in r.todo \cup r.pending : q \in twins => q = p
  BY <1>3, <1>12 DEF OneEach, Twins
<1>14. ASSUME NEW q \in Replaceable(j), q \in twins
       PROVE  /\ ~Undecided(s, q)
              /\ IF Waiting(s, q) THEN Reserved(j, s.receipts, q) ELSE Settled(j, s.receipts, q)
  <2>1. j.texts[q] = j.texts[p] /\ Twins(j, q) = twins /\ Last(j, q) = Last(j, p)
    BY <1>2, <1>4, <1>14, ChoiceIsShared DEF Twins
  <2>2. ~Undecided(s, q)
    BY <1>9, <1>13, <2>1 DEF Undecided
  <2>3. CASE s.pending = r.pending \cup {p} /\ s.receipts = r.receipts \cup (twins \ {Last(j, p)})
    <3>1. Waiting(s, q)
      BY <1>9, <1>10, <2>1, <2>3 DEF Waiting
    <3>2. Reserved(j, s.receipts, q)
      BY <1>10, <1>12, <2>1, <2>3 DEF Reserved
    <3> QED
      BY <2>2, <3>1, <3>2
  <2>4. CASE /\ s.pending = r.pending /\ s.receipts = r.receipts \cup twins
             /\ Denied(j.session, j.texts[p], j.key)
    <3>1. ~Waiting(s, q)
      BY <1>3, <1>9, <1>12, <1>13, <2>1, <2>4 DEF Waiting
    <3>2. Settled(j, s.receipts, q)
      BY <1>10, <2>1, <2>4 DEF Settled
    <3> QED
      BY <2>2, <3>1, <3>2
  <2> QED
    BY <1>9, <2>3, <2>4
<1>15. ASSUME NEW q \in Replaceable(j), q \notin twins
       PROVE  /\ Undecided(s, q) = Undecided(r, q) /\ Waiting(s, q) = Waiting(r, q)
              /\ s.receipts \cap Twins(j, q) = r.receipts \cap Twins(j, q)
  <2>1. Twins(j, q) \cap twins = {} /\ p \notin Twins(j, q)
    BY <1>2, <1>4, <1>10, <1>15, JobFacts DEF Twins
  <2>2. r.todo \cap Twins(j, q) = s.todo \cap Twins(j, q)
        /\ r.pending \cap Twins(j, q) = s.pending \cap Twins(j, q)
    BY <1>9, <2>1
  <2> QED
    BY <1>9, <2>1, <2>2 DEF Undecided, Waiting
<1>16. ASSUME NEW q \in Replaceable(j)
       PROVE  IF Undecided(s, q) THEN s.receipts \cap Twins(j, q) = {}
              ELSE IF Waiting(s, q) THEN Reserved(j, s.receipts, q)
              ELSE Settled(j, s.receipts, q)
  <2>1. CASE q \in twins
    BY <1>14, <2>1
  <2>2. CASE q \notin twins
    BY <1>2, <1>12, <1>15, <2>2, ChoiceIsLocal
  <2> QED
    BY <2>1, <2>2
<1>17. /\ s.todo \cup s.pending \subseteq Replaceable(j) /\ s.todo \cap s.pending = {}
       /\ OneEach(j, s.todo \cup s.pending)
  BY <1>3, <1>4, <1>9, <1>12 DEF OneEach
<1>18. Choosing(s) /\ Pinning(s)
  BY <1>1, <1>9, <1>16, <1>17 DEF Choosing, Pinning
<1>19. Choosing(s)' /\ Pinning(s)'
  BY <1>7, <1>11, <1>18, WorkingStays DEF Working
<1> QED
  BY <1>1, <1>6, <1>7, <1>8, <1>11, <1>19, StepKeeps DEF Fields

LEMMA BeginClaimsKeeps ==
  ASSUME PipelineInv, NEW w \in Worker, BeginClaims(w)
  PROVE  PipelineInv'
<1> DEFINE r == work[w]
           fields == [pc |-> "claim", todo |-> r.pending]
<1>1. ~Running(w, "idle") /\ r.pc = "preflight" /\ r.todo = {} /\ Step(w, fields)
  BY DEF BeginClaims, LoopDone, Running
<1>2. Working(r) /\ Shape(r) /\ Choosing(r) /\ r.job \in Job
  BY <1>1 DEF PipelineInv, Working, Shape
<1>3. Onward /\ UNCHANGED published
  BY StillOnward DEF BeginClaims, NoFault
<1>4. PICK s : s = work'[w]
  OBVIOUS
<1>5. /\ DOMAIN s = Fields /\ s.todo = r.pending /\ s.pc = "claim"
      /\ \A n \in Fields \ {"todo", "pc"} : s[n] = r[n]
  BY <1>1, <1>4, StepFields DEF Fields
<1>6. Shape(s)
  BY <1>1, <1>2, <1>5, JobFacts DEF Shape, Fields, Phases
<1>7. Choosing(s) /\ Pinning(s)
  BY <1>1, <1>2, <1>5 DEF Choosing, Pinning, Fields, Undecided, Waiting, OneEach
<1>8. Choosing(s)' /\ Pinning(s)'
  BY <1>3, <1>6, <1>7, WorkingStays DEF Working
<1> QED
  BY <1>1, <1>3, <1>4, <1>6, <1>8, StepKeeps DEF Fields

\* A claim of the loop has been answered, whatever the answer.
LEMMA ClaimSettles ==
  ASSUME Onward, NEW r, Working(r), r.pc = "claim", r.todo # {},
         NEW s, DOMAIN s = Fields, s.todo = r.todo \ {Min(r.todo)},
         \A n \in Fields \ {"todo", "receipts"} : s[n] = r[n],
         s.receipts \in {r.receipts, r.receipts \cup {Last(r.job, Min(r.todo))}},
         Settled(r.job, s.receipts, Min(r.todo))'
  PROVE  Shape(s) /\ Choosing(s)' /\ Pinning(s)'
<1> DEFINE j == r.job
           p == Min(r.todo)
           twins == Twins(j, p)
<1>1. Shape(r) /\ j \in Job /\ p \in r.todo /\ p \in DOMAIN j.texts
  BY AtFacts DEF Working, Shape
<1>2. /\ r.todo \subseteq Replaceable(j) /\ OneEach(j, r.todo)
      /\ \A q \in Replaceable(j) :
            IF Undecided(r, q) THEN Reserved(j, r.receipts, q) ELSE Settled(j, r.receipts, q)
  BY DEF Working, Choosing
<1>3. p \in Replaceable(j) /\ p \in Slots(j.texts)
  BY <1>1, <1>2, JobFacts
<1> HIDE DEF p
<1>4. twins \subseteq Replaceable(j) /\ Last(j, p) \in twins /\ p \in twins
  BY <1>1, <1>3, LastFacts DEF Twins, Replaceable
<1>5. s.job = j /\ s.pc = "claim" /\ s.pending = r.pending /\ s.vaulted = r.vaulted /\ s.id = r.id
  BY DEF Fields
<1>6. s.receipts \in {r.receipts, r.receipts \cup {Last(j, p)}} /\ s.todo = r.todo \ {p}
  BY DEF p
<1>7. Shape(s)
  BY <1>1, <1>3, <1>4, <1>5, <1>6, JobFacts DEF Shape, Fields
<1>8. Settled(j, s.receipts, p)'
  BY DEF p
<1>9. ASSUME NEW q \in Replaceable(j), q \in twins
      PROVE  ~Undecided(s, q) /\ Settled(j, s.receipts, q)'
  <2>1. j.texts[q] = j.texts[p] /\ Twins(j, q) = twins /\ Last(j, q) = Last(j, p)
    BY <1>1, <1>3, <1>9, ChoiceIsShared DEF Twins
  <2>2. \A x \in r.todo : x \in twins => x = p
    BY <1>1, <1>2 DEF OneEach, Twins
  <2>3. ~Undecided(s, q)
    BY <1>5, <1>6, <2>1, <2>2 DEF Undecided
  <2>4. Settled(j, s.receipts, q)'
    BY <1>8, <2>1 DEF Settled, Row, ShortId, Clean, Denied, MayInline, InlineUses
  <2> QED
    BY <2>3, <2>4
<1>10. ASSUME NEW q \in Replaceable(j), q \notin twins
       PROVE  IF Undecided(s, q) THEN Reserved(j, s.receipts, q) ELSE Settled(j, s.receipts, q)'
  <2>1. Twins(j, q) \cap twins = {} /\ p \notin Twins(j, q)
    BY <1>1, <1>3, <1>4, <1>10, JobFacts DEF Twins
  <2>2. r.receipts \cap Twins(j, q) = s.receipts \cap Twins(j, q)
        /\ Undecided(s, q) = Undecided(r, q)
    BY <1>4, <1>5, <1>6, <2>1 DEF Undecided
  <2>3. IF Undecided(s, q) THEN Reserved(j, s.receipts, q) ELSE Settled(j, s.receipts, q)
    BY <1>1, <1>2, <2>2, ChoiceIsLocal
  <2> QED
    BY <1>1, <2>3, SettledStays
<1>11. ASSUME NEW q \in Replaceable(j)
       PROVE  IF Undecided(s, q) THEN Reserved(j, s.receipts, q) ELSE Settled(j, s.receipts, q)'
  BY <1>9, <1>10
<1>12. s.todo \subseteq Replaceable(j) /\ OneEach(j, s.todo)
  BY <1>2, <1>6 DEF OneEach
<1>13. Choosing(s)'
  BY <1>5, <1>11, <1>12 DEF Choosing, Undecided, Reserved
<1>14. Pinning(s)'
  BY <1>5 DEF Pinning
<1> QED
  BY <1>7, <1>13, <1>14

\* The three answers to a claim.
LEMMA ClaimKeeps ==
  ASSUME PrefixesDiffer, PipelineInv, NEW w \in Worker, Claimed(w) \/ ClaimRefused(w) \/ ClaimRaises(w)
  PROVE  PipelineInv'
<1>0. PICK r : r = work[w]
  OBVIOUS
<1> DEFINE j == r.job
           p == Min(r.todo)
           e == Row(j, j.texts[p])
           granted == [todo |-> r.todo \ {p}]
           refused == [todo |-> r.todo \ {p}, receipts |-> r.receipts \cup {Last(j, p)}]
<1>1. ~Running(w, "idle") /\ r.pc = "claim" /\ r.todo # {} /\ UNCHANGED published
  BY <1>0 DEF Claimed, ClaimRefused, ClaimRaises, Looping, Running
<1>2. Working(r) /\ Shape(r) /\ Choosing(r) /\ j \in Job
  BY <1>0, <1>1 DEF PipelineInv, Working, Shape
<1>3. p \in r.todo /\ p \in DOMAIN j.texts /\ j.texts[p] \in Content
  BY <1>1, <1>2, AtFacts
<1>4. p \in Replaceable(j) /\ p \in Slots(j.texts) /\ Reserved(j, r.receipts, p)
  <2>1. p \in Replaceable(j)
    BY <1>1, <1>2, <1>3 DEF Choosing
  <2>2. Undecided(r, p)
    BY <1>2, <1>3, <2>1, JobFacts, LastFacts DEF Undecided
  <2> QED
    BY <1>1, <1>2, <2>1, <2>2, JobFacts DEF Choosing
<1>5. /\ Newest(w, p) = Last(j, p) /\ r.id[p] = ShortId(j.texts[p])
      /\ <<SessionOf(w), IdAt(w), KeyOf(w)>> = e /\ Last(j, p) \in Twins(j, p)
  BY <1>1, <1>2, <1>4, <1>0, GroupIsTwins, LastFacts DEF Shape, Texts, SessionOf, IdAt, At, KeyOf, Row
<1>6. j.session \in Session /\ j.key \in Request
  BY <1>2, JobFacts
<1>7. PICK s : s = work'[w]
  OBVIOUS
<1>8. ASSUME Onward, Step(w, granted), e \in inlined' \cup offLease'
      PROVE  PipelineInv'
  <2>1. /\ DOMAIN s = Fields /\ s.todo = r.todo \ {p}
        /\ \A n \in Fields \ {"todo"} : s[n] = r[n]
    BY <1>1, <1>7, <1>8, <1>0, StepFields DEF Fields
  <2>2. Settled(j, r.receipts, p)'
    BY <1>4, <1>8 DEF Settled, Reserved, Row, ShortId
  <2>3. s.receipts = r.receipts
    BY <2>1 DEF Fields
  <2>4. Settled(r.job, s.receipts, Min(r.todo))'
    BY <2>2, <2>3
  <2>5. Shape(s) /\ Choosing(s)' /\ Pinning(s)'
    BY <1>1, <1>2, <1>8, <2>1, <2>3, <2>4, ClaimSettles
  <2> QED
    BY <1>1, <1>7, <1>8, <2>5, StepKeeps DEF Fields
<1>9. CASE Claimed(w)
  <2>1. Step(w, granted) /\ UNCHANGED <<faults, offLease>>
    BY <1>0, <1>9 DEF Claimed, Visited, At
  <2>2. CASE e \in inlined /\ UNCHANGED vaultVars
    <3>1. Onward
      BY <2>1, <2>2, StillOnward DEF NoFault
    <3> QED
      BY <1>8, <2>1, <2>2, <3>1 DEF vaultVars
  <2>3. CASE ClaimInline(j.session, ShortId(j.texts[p]), j.key) /\ UNCHANGED captured
    <3>1. Onward
      BY <1>6, <2>1, <2>3, ClaimOnward
    <3>2. e \in inlined'
      BY <2>3 DEF ClaimInline, RecordExposure, Row
    <3> QED
      BY <1>8, <2>1, <3>1, <3>2
  <2> QED
    BY <1>0, <1>5, <1>9, <2>2, <2>3 DEF Claimed, SessionOf, IdAt, At, KeyOf
<1>10. CASE ClaimRefused(w)
  <2>1. Step(w, refused) /\ Denied(j.session, j.texts[p], j.key)
        /\ UNCHANGED <<vaultVars, faults, offLease>>
    BY <1>0, <1>5, <1>10 DEF ClaimRefused, Visited, At, IdAt, SessionOf, KeyOf, Denied
  <2>2. Onward
    BY <2>1, StillOnward DEF NoFault
  <2>3. /\ DOMAIN s = Fields /\ s.todo = r.todo \ {p} /\ s.receipts = r.receipts \cup {Last(j, p)}
        /\ \A n \in Fields \ {"todo", "receipts"} : s[n] = r[n]
    BY <1>1, <1>7, <2>1, <1>0, StepFields DEF Fields
  <2>4. Settled(j, s.receipts, p)
    BY <1>4, <1>5, <2>1, <2>3 DEF Settled, Reserved
  <2>5. Settled(j, s.receipts, p)'
    BY <1>2, <1>4, <2>2, <2>4, SettledStays
  <2>6. Shape(s) /\ Choosing(s)' /\ Pinning(s)'
    BY <1>1, <1>2, <2>2, <2>3, <2>5, ClaimSettles
  <2> QED
    BY <1>1, <1>7, <2>1, <2>2, <2>6, StepKeeps DEF Fields
<1>11. CASE ClaimRaises(w)
  <2>1. Step(w, granted) /\ UNCHANGED vaultVars /\ offLease' = offLease \cup {e} /\ (Fault \/ NoFault)
    BY <1>0, <1>5, <1>11 DEF ClaimRaises, Visited, At
  <2>2. VaultSound /\ UNCHANGED inlined
    BY <2>1, ReferenceSound DEF PipelineInv, vaultVars
  <2>3. IsFiniteSet(offLease')
    BY <2>1, FS_AddElement DEF PipelineInv, LeaseInv
  <2>4. faults' \in Nat /\ (faults' = 0 => faults = 0)
    BY <2>1 DEF Fault, NoFault, PipelineInv
  <2>5. Onward
    BY <2>1, <2>2, <2>3, <2>4, QuietOnward
  <2> QED
    BY <1>8, <2>1, <2>5
<1> QED
  BY <1>9, <1>10, <1>11

----------------------------------------------------------------------------
(* The candidate, the original and the compaction. *)

LEMMA AcceptKeeps ==
  ASSUME PipelineInv, NEW w \in Worker, AcceptCandidate(w)
  PROVE  PipelineInv'
<1> DEFINE r == work[w]
           fields == [pc |-> "accounted"]
<1>1. ~Running(w, "idle") /\ r.pc = "claim" /\ r.todo = {} /\ Step(w, fields)
  BY DEF AcceptCandidate, LoopDone, Running
<1>2. Working(r) /\ Shape(r) /\ Choosing(r) /\ r.job \in Job
  BY <1>1 DEF PipelineInv, Working, Shape
<1>3. Onward /\ UNCHANGED published
  BY StillOnward DEF AcceptCandidate, NoFault
<1>4. PICK s : s = work'[w]
  OBVIOUS
<1>5. DOMAIN s = Fields /\ s.pc = "accounted" /\ \A n \in Fields \ {"pc"} : s[n] = r[n]
  BY <1>1, <1>4, StepFields DEF Fields
<1>6. Shape(s)
  BY <1>1, <1>2, <1>5, JobFacts DEF Shape, Fields, Phases
<1>7. Choosing(s) /\ Pinning(s)
  BY <1>1, <1>2, <1>5 DEF Choosing, Pinning, Fields, Undecided
<1>8. Choosing(s)' /\ Pinning(s)'
  BY <1>3, <1>6, <1>7, WorkingStays DEF Working
<1> QED
  BY <1>1, <1>3, <1>4, <1>6, <1>8, StepKeeps DEF Fields

\* The rows of a request are finitely many.
LEMMA RowsFinite ==
  ASSUME NEW j \in Job, NEW S \in SUBSET (DOMAIN j.texts), NEW f
  PROVE  IsFiniteSet({<<j.session, f[p], j.key>> : p \in S})
<1> DEFINE T == {<<j.session, f[p], j.key>> : p \in S}
           g == [p \in S |-> <<j.session, f[p], j.key>>]
<1>1. IsFiniteSet(S)
  BY JobFacts, FS_Interval, FS_Subset
<1>2. g \in Surjection(S, T)
  BY DEF Surjection
<1> QED
  BY <1>1, <1>2, FS_Surjection

LEMMA SendOriginalKeeps ==
  ASSUME PrefixesDiffer, PipelineInv, NEW w \in Worker, SendOriginal(w)
  PROVE  PipelineInv'
<1>0. PICK r : r = work[w]
  OBVIOUS
<1> DEFINE j == r.job
           rows == {<<j.session, r.id[p], j.key>> : p \in Slots(j.texts)}
           fields == [pc |-> "account", receipts |-> {}, todo |-> IdLeaders(w, Slots(j.texts))]
<1>1. /\ ~Running(w, "idle") /\ r.pc = "claim" /\ r.todo = {} /\ Step(w, fields)
      /\ offLease' = IF r.receipts = {} THEN offLease ELSE offLease \cup rows
      /\ UNCHANGED <<vaultVars, published, faults>>
  BY <1>0 DEF SendOriginal, LoopDone, Running, Texts, SessionOf, KeyOf
<1>2. Working(r) /\ Shape(r) /\ Choosing(r) /\ j \in Job
  BY <1>0, <1>1 DEF PipelineInv, Working, Shape
<1>3. Onward
  <2>1. IsFiniteSet(rows)
    BY <1>2, RowsFinite, JobFacts
  <2>2. IsFiniteSet(offLease')
    BY <1>1, <2>1, FS_Union DEF PipelineInv, LeaseInv
  <2>3. VaultSound /\ UNCHANGED inlined
    BY <1>1, ReferenceSound DEF PipelineInv, vaultVars
  <2> QED
    BY <1>1, <2>2, <2>3, QuietOnward DEF PipelineInv
<1>4. PICK s : s = work'[w]
  OBVIOUS
<1>5. /\ DOMAIN s = Fields /\ s.pc = "account" /\ s.receipts = {}
      /\ s.todo = IdLeaders(w, Slots(j.texts))
      /\ \A n \in Fields \ {"pc", "receipts", "todo"} : s[n] = r[n]
  BY <1>1, <1>4, <1>0, StepFields DEF Fields
<1>6. s.todo \subseteq Slots(j.texts)
  BY <1>5 DEF IdLeaders
<1>7. Shape(s)
  BY <1>1, <1>2, <1>5, <1>6, JobFacts DEF Shape, Fields, Phases
<1>8. \A p \in Replaceable(j) : Row(j, j.texts[p]) \in inlined' \cup offLease'
  <2> SUFFICES ASSUME NEW p \in Replaceable(j) PROVE Row(j, j.texts[p]) \in inlined' \cup offLease'
    OBVIOUS
  <2>1. p \in Slots(j.texts)
    BY <1>2, JobFacts
  <2>2. CASE r.receipts = {}
    BY <1>1, <1>2, <2>2 DEF Choosing, Undecided, Settled, vaultVars
  <2>3. CASE r.receipts # {}
    BY <1>1, <1>2, <2>1, <2>3, <1>0, GroupIsTwins DEF Shape, Texts, Row
  <2> QED
    BY <2>2, <2>3
<1>9. Choosing(s)'
  <2>1. \A p \in Replaceable(j) : Settled(j, {}, p)'
    BY <1>8 DEF Settled, Row, ShortId
  <2>2. s.job = j
    BY <1>5 DEF Fields
  <2>3. \A p \in s.todo : Large(j.texts[p]) => p \in Replaceable(j)
    BY <1>6 DEF Replaceable
  <2> QED
    BY <1>5, <1>8, <2>1, <2>2, <2>3 DEF Choosing, Row, ShortId
<1>10. Pinning(s)'
  BY <1>5 DEF Pinning
<1> QED
  BY <1>1, <1>3, <1>4, <1>7, <1>9, <1>10, StepKeeps DEF Fields

LEMMA AccountKeeps ==
  ASSUME PrefixesDiffer, PipelineInv, NEW w \in Worker, Account(w)
  PROVE  PipelineInv'
<1> DEFINE r == work[w]
           j == r.job
           p == Min(r.todo)
           fields == [todo |-> r.todo \ {p}]
<1>1. ~Running(w, "idle") /\ r.pc = "account" /\ r.todo # {} /\ Step(w, fields) /\ ExposeOrForget(w, TRUE)
      /\ UNCHANGED <<published, offLease>>
  BY DEF Account, Looping, Running, Visited, At
<1>2. Working(r) /\ Shape(r) /\ Choosing(r) /\ j \in Job
  BY <1>1 DEF PipelineInv, Working, Shape
<1>3. p \in r.todo /\ p \in Slots(j.texts) /\ j.texts[p] \in Content
  BY <1>1, <1>2, AtFacts DEF Shape
<1>4. r.id[p] = ShortId(j.texts[p])
  BY <1>1, <1>2, <1>3, GroupIsTwins DEF Shape, Texts
<1>5. Large(j.texts[p]) => Row(j, j.texts[p]) \in inlined \cup offLease
  BY <1>1, <1>2, <1>3 DEF Choosing
<1>6. Onward
  <2>1. CASE RecordExposure(j.session, r.id[p], j.key, TRUE) /\ UNCHANGED captured /\ NoFault
    <3>1. \A c \in Content : Large(c) /\ r.id[p] = ShortId(c) =>
            <<j.session, r.id[p], j.key>> \in inlined \cup offLease
      BY <1>3, <1>4, <1>5, SameShortId DEF Row
    <3> QED
      BY <1>1, <1>2, <2>1, <3>1, AccountOnward, JobFacts DEF NoFault
  <2>2. CASE UNCHANGED vaultVars /\ (Fault \/ NoFault)
    BY <1>1, <2>2, StillOnward
  <2> QED
    BY <1>1, <2>1, <2>2 DEF ExposeOrForget, SessionOf, IdAt, At, KeyOf
<1>7. PICK s : s = work'[w]
  OBVIOUS
<1>8. DOMAIN s = Fields /\ s.todo = r.todo \ {p} /\ \A n \in Fields \ {"todo"} : s[n] = r[n]
  BY <1>1, <1>7, StepFields DEF Fields
<1> HIDE DEF p
<1>9. Shape(s)
  BY <1>1, <1>2, <1>8 DEF Shape, Fields
<1>10. Choosing(s) /\ Pinning(s)
  BY <1>1, <1>2, <1>8 DEF Choosing, Pinning, Fields
<1>11. Choosing(s)' /\ Pinning(s)'
  BY <1>6, <1>9, <1>10, WorkingStays DEF Working
<1> QED
  BY <1>1, <1>6, <1>7, <1>9, <1>11, StepKeeps DEF Fields

\* The steps of the compactor change what is to be visited and what was vaulted, and
\* name one more artifact by its content.
LEMMA CompactingKeeps ==
  ASSUME Onward, NEW r, Working(r), r.pc \in {"accounted", "account", "vault", "check"},
         NEW s, DOMAIN s = Fields, s.pc \in {"vault", "check"},
         s.job = r.job, s.receipts = r.receipts, s.pending = r.pending,
         s.todo \subseteq 1..r.job.old, s.vaulted \subseteq 1..r.job.old,
         DOMAIN s.id = DOMAIN r.id,
         \A p \in DOMAIN s.id : s.id[p] = r.id[p] \/ s.id[p] = ShortId(r.job.texts[p]),
         \A p \in s.vaulted : s.id[p] # NoId,
         s.pc = "check" => s.todo # {} /\ s.id[Min(s.todo)] # NoId
  PROVE  Shape(s) /\ Choosing(s)' /\ Pinning(s)'
<1> DEFINE j == r.job
<1>1. Shape(r) /\ Choosing(r) /\ j \in Job
  BY DEF Working, Shape
<1>2. 1..j.old \subseteq DOMAIN j.texts /\ \A p \in DOMAIN j.texts : ShortId(j.texts[p]) # NoId
  BY <1>1, JobFacts
<1>3. DOMAIN r.id = DOMAIN j.texts /\ \A p \in DOMAIN r.id : r.id[p] \in {NoId, ShortId(j.texts[p])}
  BY <1>1 DEF Shape
<1>4. \A p \in DOMAIN s.id : s.id[p] \in {NoId, ShortId(j.texts[p])}
  BY <1>3
<1>5. \A p \in Slots(j.texts) \cup r.receipts : s.id[p] # NoId
  <2> SUFFICES ASSUME NEW p \in Slots(j.texts) \cup r.receipts PROVE s.id[p] # NoId
    OBVIOUS
  <2>1. p \in DOMAIN j.texts
    BY <1>1, <1>2, JobFacts DEF Shape
  <2>2. r.id[p] # NoId
    BY <1>1 DEF Shape
  <2> QED
    BY <1>2, <1>3, <2>1, <2>2
<1>6. s.todo \subseteq DOMAIN j.texts
  BY <1>2
<1>7. Shape(s)
  BY <1>1, <1>3, <1>4, <1>5, <1>6 DEF Shape, Phases
<1>8. \A p \in Replaceable(j) : Last(j, p) > j.old => Settled(j, r.receipts, p)'
  BY <1>1, SettledStays DEF Choosing
<1>9. Choosing(s)' /\ Pinning(s)'
  BY <1>8 DEF Choosing, Pinning
<1> QED
  BY <1>7, <1>9

LEMMA BeginCompactionKeeps ==
  ASSUME PipelineInv, NEW w \in Worker, BeginCompaction(w)
  PROVE  PipelineInv'
<1>0. PICK r : r = work[w]
  OBVIOUS
<1> DEFINE large == {p \in 1..r.job.old : p \notin r.receipts /\ Chars[Texts(w)[p]] >= MinVault}
           fields == [pc |-> "vault", todo |-> large]
<1>1. ~Running(w, "idle") /\ r.pc \in {"account", "accounted"} /\ Step(w, fields)
  BY <1>0 DEF BeginCompaction, LoopDone, Running
<1>2. Working(r) /\ Shape(r) /\ r.job \in Job
  BY <1>0, <1>1 DEF PipelineInv, Working, Shape
<1>3. Onward /\ UNCHANGED published
  BY StillOnward DEF BeginCompaction, NoFault
<1>4. PICK s : s = work'[w]
  OBVIOUS
<1>5. /\ DOMAIN s = Fields /\ s.pc = "vault" /\ s.todo = large
      /\ \A n \in Fields \ {"pc", "todo"} : s[n] = r[n]
  BY <1>0, <1>1, <1>4, StepFields DEF Fields
<1>6. Shape(s) /\ Choosing(s)' /\ Pinning(s)'
  BY <1>1, <1>2, <1>3, <1>5, CompactingKeeps DEF Fields, Shape
<1> QED
  BY <1>1, <1>3, <1>4, <1>6, StepKeeps DEF Fields

LEMMA VaultResultKeeps ==
  ASSUME PrefixesDiffer, PipelineInv, NEW w \in Worker, VaultResult(w)
  PROVE  PipelineInv'
<1>0. PICK r : r = work[w]
  OBVIOUS
<1> DEFINE j == r.job
           p == Min(r.todo)
           c == j.texts[p]
           vaulted == [pc |-> "check", id |-> [r.id EXCEPT ![p] = ShortId(c)]]
           skipped == [todo |-> r.todo \ {p}]
<1>1. ~Running(w, "idle") /\ r.pc = "vault" /\ r.todo # {} /\ UNCHANGED <<published, offLease>>
  BY <1>0 DEF VaultResult, Looping, Running
<1>2. Working(r) /\ Shape(r) /\ j \in Job
  BY <1>0, <1>1 DEF PipelineInv, Working, Shape
<1>3. p \in r.todo /\ p \in DOMAIN j.texts /\ c \in Content
  BY <1>1, <1>2, AtFacts
<1>4. ShortId(c) # NoId
  BY <1>2, <1>3, JobFacts
<1>5. PICK s : s = work'[w]
  OBVIOUS
<1>6. CASE /\ PutArtifact(c, <<j.session, "compactor">>, {})
           /\ Step(w, [pc |-> "check", id |-> [r.id EXCEPT ![p] = IdAfterStore(c)]])
           /\ NoFault /\ UNCHANGED captured
  <2>1. <<j.session, "compactor">> \in Caller
    BY <1>2, JobFacts, CallersAreOurs
  <2>2. VaultSound /\ IdAfterStore(c) = ShortId(c)
    BY <1>3, <1>6, <2>1, StoreSound DEF PipelineInv
  <2>3. Onward
    BY <1>1, <1>6, <2>2, QuietOnward DEF PutArtifact, PutAt, NoFault, PipelineInv, LeaseInv
  <2>4. Step(w, vaulted)
    BY <1>6, <2>2
  <2>5. /\ DOMAIN s = Fields /\ s.pc = "check" /\ s.id = [r.id EXCEPT ![p] = ShortId(c)]
        /\ \A n \in Fields \ {"pc", "id"} : s[n] = r[n]
    BY <1>0, <1>1, <1>5, <2>4, StepFields DEF Fields
  <2>6. s.todo = r.todo /\ s.job = j /\ s.receipts = r.receipts /\ s.pending = r.pending
        /\ s.vaulted = r.vaulted
    BY <2>5 DEF Fields
  <2>7. s.id[p] # NoId /\ \A q \in DOMAIN s.id : s.id[q] = r.id[q] \/ s.id[q] = ShortId(j.texts[q])
    BY <1>2, <1>3, <1>4, <2>5 DEF Shape
  <2>8. \A q \in s.vaulted : s.id[q] # NoId
    BY <1>2, <1>4, <2>5, <2>6 DEF Shape
  <2>9. s.todo \subseteq 1..j.old /\ s.vaulted \subseteq 1..j.old
    BY <1>1, <1>2, <2>6 DEF Shape
  <2>10. Shape(s) /\ Choosing(s)' /\ Pinning(s)'
    BY <1>1, <1>2, <2>3, <2>5, <2>6, <2>7, <2>8, <2>9, CompactingKeeps
  <2> QED
    BY <1>1, <1>5, <2>3, <2>4, <2>10, StepKeeps DEF Fields
<1>7. CASE Step(w, skipped) /\ UNCHANGED vaultVars /\ (Fault \/ NoFault)
  <2>1. Onward
    BY <1>1, <1>7, StillOnward
  <2>2. DOMAIN s = Fields /\ s.todo = r.todo \ {p} /\ \A n \in Fields \ {"todo"} : s[n] = r[n]
    BY <1>0, <1>1, <1>5, <1>7, StepFields DEF Fields
  <2> HIDE DEF p
  <2>3. Shape(s) /\ Choosing(s)' /\ Pinning(s)'
    BY <1>1, <1>2, <2>1, <2>2, CompactingKeeps DEF Fields, Shape
  <2> QED
    BY <1>1, <1>5, <1>7, <2>1, <2>3, StepKeeps DEF Fields
<1> QED
  BY <1>0, <1>6, <1>7 DEF VaultResult, Texts, At, SessionOf, Visited

LEMMA ReadBackKeeps ==
  ASSUME PipelineInv, NEW w \in Worker, ReadBack(w)
  PROVE  PipelineInv'
<1>0. PICK r : r = work[w]
  OBVIOUS
<1> DEFINE p == Min(r.todo)
           replace == [pc |-> "vault", todo |-> r.todo \ {p}, vaulted |-> r.vaulted \cup {p}]
           keep == [pc |-> "vault", todo |-> r.todo \ {p}]
<1>1. ~Running(w, "idle") /\ r.pc = "check" /\ UNCHANGED published /\ (Step(w, replace) \/ Step(w, keep))
  BY <1>0 DEF ReadBack, Running, Visited, At
<1>2. Working(r) /\ Shape(r) /\ r.todo # {}
  BY <1>0, <1>1 DEF PipelineInv, Working, Shape
<1>3. Onward
  BY StillOnward DEF ReadBack
<1>4. p \in r.todo /\ p \in 1..r.job.old /\ r.id[p] # NoId
  BY <1>1, <1>2, AtFacts DEF Shape
<1>5. PICK s : s = work'[w]
  OBVIOUS
<1>6. /\ DOMAIN s = Fields /\ s.pc = "vault" /\ s.todo = r.todo \ {p}
      /\ s.vaulted \in {r.vaulted, r.vaulted \cup {p}}
      /\ \A n \in Fields \ {"pc", "todo", "vaulted"} : s[n] = r[n]
  <2>1. CASE Step(w, replace)
    BY <1>0, <1>1, <1>5, <2>1, StepFields DEF Fields
  <2>2. CASE Step(w, keep)
    BY <1>0, <1>1, <1>5, <2>2, StepFields DEF Fields
  <2> QED
    BY <1>1, <2>1, <2>2
<1> HIDE DEF p
<1>7. Shape(s) /\ Choosing(s)' /\ Pinning(s)'
  BY <1>1, <1>2, <1>3, <1>4, <1>6, CompactingKeeps DEF Fields, Shape
<1> QED
  BY <1>1, <1>3, <1>5, <1>7, StepKeeps DEF Fields

LEMMA EndCompactionKeeps ==
  ASSUME PipelineInv, NEW w \in Worker, EndCompaction(w)
  PROVE  PipelineInv'
<1>0. PICK r : r = work[w]
  OBVIOUS
<1> DEFINE j == r.job
<1>1. PICK T \in {r.receipts, r.receipts \cup r.vaulted} :
        IF T = {} THEN Reset(w) ELSE Step(w, [pc |-> "pin", receipts |-> T, todo |-> IdLeaders(w, T)])
  BY <1>0 DEF EndCompaction
<1>2. ~Running(w, "idle") /\ r.pc = "vault"
  BY <1>0 DEF EndCompaction, LoopDone, Running
<1>3. Working(r) /\ Shape(r) /\ Choosing(r) /\ j \in Job
  BY <1>0, <1>2 DEF PipelineInv, Working, Shape
<1>4. Onward /\ UNCHANGED published
  BY StillOnward DEF EndCompaction, NoFault
<1>5. CASE T = {}
  BY <1>1, <1>4, <1>5, ResetKeeps
<1>6. CASE T # {}
  <2> DEFINE fields == [pc |-> "pin", receipts |-> T, todo |-> IdLeaders(w, T)]
  <2>1. Step(w, fields)
    BY <1>1, <1>6
  <2>2. PICK s : s = work'[w]
    OBVIOUS
  <2>3. /\ DOMAIN s = Fields /\ s.pc = "pin" /\ s.receipts = T /\ s.todo = IdLeaders(w, T)
        /\ \A n \in Fields \ {"pc", "receipts", "todo"} : s[n] = r[n]
    BY <1>0, <1>2, <2>1, <2>2, StepFields DEF Fields
  <2>4. IdLeaders(w, T) \subseteq T /\ T \subseteq Replaceable(j) \cup 1..j.old
        /\ T \subseteq DOMAIN j.texts
    BY <1>3, JobFacts DEF IdLeaders, Shape
  <2>5. \A p \in T : \E q \in IdLeaders(w, T) : r.id[q] = r.id[p]
    <3> SUFFICES ASSUME NEW p \in T PROVE \E q \in IdLeaders(w, T) : r.id[q] = r.id[p]
      OBVIOUS
    <3> DEFINE same == {q \in T : r.id[q] = r.id[p]}
    <3>1. same \in SUBSET Nat /\ p \in same
      BY <1>3, <2>4, JobFacts
    <3>2. Min(same) \in same /\ \A y \in same : Min(same) <= y
      BY <3>1, LeastExists
    <3>3. Min(same) \in IdLeaders(w, T)
      BY <1>0, <3>2 DEF IdLeaders
    <3> QED
      BY <3>2, <3>3
  <2>6. Shape(s)
    BY <1>2, <1>3, <2>3, <2>4 DEF Shape, Fields, Phases
  <2>7. \A p \in Replaceable(j) : Last(j, p) > j.old => Settled(j, T, p)
    <3> SUFFICES ASSUME NEW p \in Replaceable(j), Last(j, p) > j.old PROVE Settled(j, T, p)
      OBVIOUS
    <3>1. Settled(j, r.receipts, p)
      BY <1>2, <1>3 DEF Choosing
    <3>2. Last(j, p) \notin r.vaulted /\ r.receipts \subseteq T
      BY <1>3, JobFacts DEF Shape
    <3> QED
      BY <3>1, <3>2 DEF Settled
  <2>8. Choosing(s) /\ Pinning(s)
    BY <2>3, <2>5, <2>7 DEF Choosing, Pinning, Reached, Fields
  <2>9. Choosing(s)' /\ Pinning(s)'
    BY <1>4, <2>6, <2>8, WorkingStays DEF Working
  <2> QED
    BY <1>2, <1>4, <2>1, <2>2, <2>6, <2>9, StepKeeps DEF Fields
<1> QED
  BY <1>5, <1>6

----------------------------------------------------------------------------
(* The hand-over to the provider. *)

LEMMA ProtectKeeps ==
  ASSUME PipelineInv, NEW w \in Worker, Protect(w)
  PROVE  PipelineInv'
<1>0. PICK r : r = work[w]
  OBVIOUS
<1> DEFINE j == r.job
           p == Min(r.todo)
           e == <<j.session, r.id[p], j.key>>
           unpinned == IF exposed' = exposed /\ e \notin exposed
                       THEN r.unpinned \cup {r.id[p]} ELSE r.unpinned
           fields == [todo |-> r.todo \ {p}, unpinned |-> unpinned]
<1>1. /\ ~Running(w, "idle") /\ r.pc = "pin" /\ r.todo # {} /\ Step(w, fields)
      /\ UNCHANGED <<published, offLease>>
      /\ \/ RecordExposure(j.session, r.id[p], j.key, FALSE) /\ UNCHANGED captured /\ NoFault
         \/ UNCHANGED vaultVars /\ (Fault \/ NoFault)
  BY <1>0 DEF Protect, ExposeOrForget, Looping, Running, Visited, At, SessionOf, IdAt, KeyOf
<1>2. Working(r) /\ Shape(r) /\ Choosing(r) /\ Pinning(r) /\ j \in Job
  BY <1>0, <1>1 DEF PipelineInv, Working, Shape
<1>3. p \in r.todo
  BY <1>1, <1>2, AtFacts
<1>4. Onward
  <2>1. CASE RecordExposure(j.session, r.id[p], j.key, FALSE) /\ UNCHANGED captured /\ NoFault
    <3>1. Expose
      BY <1>2, <2>1, JobFacts DEF Expose, RecordExposure, Holds
    <3>2. VaultSound
      BY <3>1, ReferenceSound DEF PipelineInv
    <3> QED
      BY <1>1, <2>1, <3>2, QuietOnward DEF RecordExposure, NoFault, PipelineInv, LeaseInv
  <2>2. CASE UNCHANGED vaultVars /\ (Fault \/ NoFault)
    BY <1>1, <2>2, StillOnward
  <2> QED
    BY <1>1, <2>1, <2>2
<1>5. e \in exposed' \/ (exposed' = exposed /\ e \notin exposed)
  BY <1>1 DEF RecordExposure, vaultVars
<1>6. PICK s : s = work'[w]
  OBVIOUS
<1>7. /\ DOMAIN s = Fields /\ s.todo = r.todo \ {p}
      /\ r.unpinned \subseteq s.unpinned /\ (r.id[p] \in s.unpinned \/ e \in exposed')
      /\ \A n \in Fields \ {"todo", "unpinned"} : s[n] = r[n]
  BY <1>0, <1>1, <1>5, <1>6, StepFields DEF Fields
<1>8. exposed \subseteq exposed'
  BY <1>4 DEF Onward, VaultSound
<1> HIDE DEF p
<1>9. Shape(s)
  BY <1>1, <1>2, <1>7 DEF Shape, Fields
<1>10. Choosing(s)
  BY <1>1, <1>2, <1>7 DEF Choosing, Fields
<1>11. Choosing(s)'
  <2>1. \A q \in Replaceable(j) : Last(j, q) > j.old => Settled(j, r.receipts, q)'
    BY <1>1, <1>2, <1>4, SettledStays DEF Choosing
  <2>2. s.job = j /\ s.receipts = r.receipts /\ s.pc = "pin"
    BY <1>1, <1>7 DEF Fields
  <2> QED
    BY <2>1, <2>2 DEF Choosing
<1>12. Pinning(s)'
  <2>1. s.job = j /\ s.receipts = r.receipts /\ s.pc = "pin" /\ s.id = r.id
    BY <1>1, <1>7 DEF Fields
  <2>2. ASSUME NEW q \in r.receipts
        PROVE  \/ \E x \in s.todo : r.id[x] = r.id[q]
               \/ r.id[q] \in s.unpinned
               \/ <<j.session, r.id[q], j.key>> \in exposed'
    BY <1>1, <1>2, <1>7, <1>8 DEF Pinning, Reached
  <2> QED
    BY <2>1, <2>2 DEF Pinning, Reached
<1> QED
  BY <1>1, <1>4, <1>6, <1>9, <1>11, <1>12, StepKeeps DEF Fields

\* What is known of a worker whose receipts are all protected or given up.
LEMMA HandedOver ==
  ASSUME PrefixesDiffer, PipelineInv, NEW r, Working(r), r.pc = "pin", r.todo = {},
         NEW q, q = [job |-> r.job,
                     receipts |-> {<<r.job.texts[p], r.id[p]>> : p \in r.receipts},
                     inline |-> {r.job.texts[p] : p \in DOMAIN r.job.texts \ r.receipts},
                     unpinned |-> r.unpinned]
  PROVE  q.job \in Job /\ Protects(q) /\ Shows(q)
<1> DEFINE j == r.job
<1>1. Shape(r) /\ Choosing(r) /\ Pinning(r) /\ j \in Job
  BY DEF Working, Shape
<1>2. \A p \in r.receipts :
        /\ p \in DOMAIN j.texts /\ r.id[p] = ShortId(j.texts[p]) /\ j.texts[p] \in Content
        /\ r.id[p] \in r.unpinned \/ <<j.session, r.id[p], j.key>> \in exposed
  BY <1>1, JobFacts DEF Shape, Pinning, Reached
<1>3. Protects(q)
  BY <1>2 DEF Protects
<1>4. ASSUME NEW p \in (j.old + 1)..Len(j.texts), p \notin Replaceable(j)
      PROVE  j.texts[p] \in q.inline
  <2>1. p \in DOMAIN j.texts /\ p \notin 1..j.old
    BY <1>1, JobFacts
  <2>2. p \notin r.receipts
    BY <1>1, <1>4, <2>1 DEF Shape
  <2> QED
    BY <2>1, <2>2
<1>5. ASSUME q.unpinned = {}, Clean(j.session, j.key), NEW p \in Replaceable(j), Last(j, p) > j.old
      PROVE  IF j.texts[p] \in q.inline
             THEN Row(j, j.texts[p]) \in inlined
             ELSE Row(j, j.texts[p]) \in exposed /\ Denied(j.session, j.texts[p], j.key)
  <2>1. Settled(j, r.receipts, p)
    BY <1>1, <1>5 DEF Choosing
  <2>2. p \in Slots(j.texts) /\ p \in Twins(j, p) /\ Last(j, p) \in Twins(j, p)
        /\ Last(j, p) \in DOMAIN j.texts
    BY <1>1, JobFacts, LastFacts
  <2>3. CASE Last(j, p) \notin r.receipts
    <3>1. j.texts[Last(j, p)] = j.texts[p]
      BY <2>2 DEF Twins
    <3>2. j.texts[p] \in q.inline
      BY <2>2, <2>3, <3>1
    <3>3. Row(j, j.texts[p]) \in inlined \cup offLease
      BY <2>1, <2>3 DEF Settled
    <3>4. Row(j, j.texts[p]) \notin offLease
      BY <1>5 DEF Clean, Row
    <3> QED
      BY <3>2, <3>3, <3>4
  <2>4. CASE Last(j, p) \in r.receipts
    <3>1. Twins(j, p) \subseteq r.receipts /\ Denied(j.session, j.texts[p], j.key)
      BY <1>5, <2>1, <2>4 DEF Settled
    <3>2. j.texts[p] \notin q.inline
      <4> SUFFICES ASSUME NEW x \in DOMAIN j.texts \ r.receipts, j.texts[x] = j.texts[p] PROVE FALSE
        OBVIOUS
      <4>1. x \in Twins(j, p)
        BY <2>2 DEF Twins, Slots
      <4> QED
        BY <3>1, <4>1
    <3>3. Row(j, j.texts[p]) \in exposed
      BY <1>2, <1>5, <2>2, <3>1 DEF Row
    <3> QED
      BY <3>1, <3>2, <3>3
  <2> QED
    BY <2>3, <2>4
<1>6. Shows(q)
  BY <1>4, <1>5 DEF Shows
<1> QED
  BY <1>1, <1>3, <1>6

LEMMA PublishKeeps ==
  ASSUME PrefixesDiffer, PipelineInv, NEW w \in Worker, Publish(w)
  PROVE  PipelineInv'
<1>0. PICK r : r = work[w]
  OBVIOUS
<1>1. PICK q : q = [job |-> r.job,
                    receipts |-> {<<r.job.texts[p], r.id[p]>> : p \in r.receipts},
                    inline |-> {r.job.texts[p] : p \in DOMAIN r.job.texts \ r.receipts},
                    unpinned |-> r.unpinned]
  OBVIOUS
<1>2. /\ ~Running(w, "idle") /\ r.pc = "pin" /\ r.todo = {} /\ Reset(w)
      /\ published' = published \cup {q}
  BY <1>0, <1>1 DEF Publish, LoopDone, Running, Texts, Positions
<1>3. Working(r)
  BY <1>0, <1>2 DEF PipelineInv
<1>4. Onward
  BY StillOnward DEF Publish, NoFault
<1>5. q.job \in Job /\ Protects(q) /\ Shows(q)
  BY <1>1, <1>2, <1>3, HandedOver
<1>6. Protects(q)' /\ Shows(q)'
  BY <1>4, <1>5, DeliveredStays
<1> QED
  BY <1>2, <1>4, <1>5, <1>6, ResetKeeps

LEMMA GiveUpKeeps ==
  ASSUME PipelineInv, NEW w \in Worker, CompileFailsOpen(w) \/ Die(w)
  PROVE  PipelineInv'
<1>1. Onward /\ Reset(w) /\ UNCHANGED published
  BY StillOnward DEF CompileFailsOpen, Die, NoFault
<1> QED
  BY <1>1, ResetKeeps

LEMMA CaptureKeeps ==
  ASSUME PrefixesDiffer, PipelineInv,
         (\E s \in Session, c \in Content : PostToolCall(s, c)) \/ UNCHANGED vars
  PROVE  PipelineInv'
<1>1. UNCHANGED pipelineVars
  BY DEF PostToolCall, vars
<1>2. Onward
  <2>1. ASSUME NEW s \in Session, NEW c \in Content, PostToolCall(s, c)
        PROVE  Onward
    <3>1. <<s, "tool">> \in Caller
      BY CallersAreOurs
    <3>2. VaultSound
      BY <2>1, <3>1, StoreSound DEF PostToolCall, PipelineInv
    <3> QED
      BY <1>1, <2>1, <3>2, QuietOnward DEF PostToolCall, PutArtifact, PutAt, pipelineVars, PipelineInv, LeaseInv
  <2>2. CASE UNCHANGED vars
    BY <2>2, StillOnward DEF vars, pipelineVars, NoFault
  <2> QED
    BY <2>1, <2>2
<1>3. UNCHANGED <<work, published>>
  BY <1>1 DEF pipelineVars
<1>4. \A q \in published' : q.job \in Job /\ Protects(q)' /\ Shows(q)'
  BY <1>2, <1>3, DeliveredStays DEF PipelineInv
<1>5. ASSUME NEW v \in Worker, ~Running(v, "idle")'
      PROVE  Working(work[v])'
  <2>1. PICK r : r = work[v]
    OBVIOUS
  <2>2. r = work'[v] /\ Working(r)
    BY <1>3, <1>5, <2>1 DEF PipelineInv, Running
  <2>3. Working(r)'
    BY <1>2, <2>2, WorkingStays
  <2> QED
    BY <2>2, <2>3
<1> QED
  BY <1>2, <1>3, <1>4, <1>5 DEF PipelineInv, Onward, VaultSound

----------------------------------------------------------------------------
LEMMA NextPipeline ==
  ASSUME PrefixesDiffer, PipelineInv, [PipelineNext]_vars
  PROVE  PipelineInv'
<1>1. ASSUME NEW w \in Worker, Compile(w)
      PROVE  PipelineInv'
  BY <1>1, BeginKeeps, StoreSlotKeeps, GiveUpKeeps, BeginPreflightKeeps, PreflightKeeps,
     BeginClaimsKeeps, ClaimKeeps, AcceptKeeps, SendOriginalKeeps, AccountKeeps DEF Compile
<1>2. ASSUME NEW w \in Worker, Compact(w)
      PROVE  PipelineInv'
  BY <1>2, BeginCompactionKeeps, VaultResultKeeps, ReadBackKeeps, EndCompactionKeeps DEF Compact
<1>3. ASSUME NEW w \in Worker, HandOver(w)
      PROVE  PipelineInv'
  BY <1>3, ProtectKeeps, PublishKeeps, GiveUpKeeps DEF HandOver
<1> QED
  BY <1>1, <1>2, <1>3, CaptureKeeps DEF PipelineNext

\* The inductive invariant of the pipeline.
THEOREM PipelineInvariant == PrefixesDiffer => (PipelineSpec => []PipelineInv)
<1> SUFFICES ASSUME PrefixesDiffer PROVE PipelineSpec => []PipelineInv
  OBVIOUS
<1>1. PipelineInit => PipelineInv
  <2> SUFFICES ASSUME PipelineInit PROVE PipelineInv
    OBVIOUS
  <2>1. VaultInv
    BY InitVault DEF PipelineInit
  <2>2. AllShort /\ inlined = {} /\ offLease = {}
    BY DEF PipelineInit, Init, AllShort, Held
  <2>3. DOMAIN work = Worker /\ \A w \in Worker : Running(w, "idle")
    BY DEF PipelineInit, Running, Idle
  <2>4. LeaseInv
    <3>1. \A s, c : Leased(s, c) = {}
      BY <2>2 DEF Leased
    <3> QED
      BY <2>2, <3>1, FS_EmptySet, SizesAreNaturals DEF LeaseInv
  <2> QED
    BY <2>1, <2>2, <2>3, <2>4 DEF PipelineInv, PipelineInit
<1>2. PipelineInv /\ [PipelineNext]_vars => PipelineInv'
  BY NextPipeline
<1> QED
  BY <1>1, <1>2, PTL DEF PipelineSpec

\* Every receipt whose protection was recorded before the hand-over can be undone
\* for ever (plugin.py:336-375), for any number of workers, any requests and a vault
\* of any size.
THEOREM PipelineProtects == PrefixesDiffer => (PipelineSpec => []ProtectedRecoverable)
<1> SUFFICES ASSUME PrefixesDiffer PROVE PipelineSpec => []ProtectedRecoverable
  OBVIOUS
<1>1. PipelineInv => ProtectedRecoverable
  <2> SUFFICES ASSUME PipelineInv, NEW q \in published, NEW r \in q.receipts, r[2] \notin q.unpinned
               PROVE  held[r[1]] = r[2]
    BY DEF ProtectedRecoverable
  <2>1. r[1] \in Content /\ r[2] = ShortId(r[1]) /\ <<q.job.session, r[2], q.job.key>> \in exposed
    BY DEF PipelineInv, Protects
  <2>2. Holds(r[2])
    BY <2>1 DEF PipelineInv, VaultInv, ReferencesHeld
  <2>3. PICK x \in Held : held[x] = r[2]
    BY <2>2 DEF Holds, Ids
  <2>4. x \in Content /\ ShortId(x) = ShortId(r[1])
    BY <2>1, <2>3 DEF PipelineInv, AllShort, Held
  <2> QED
    BY <2>1, <2>3, <2>4, SameShortId
<1> QED
  BY <1>1, PipelineInvariant, PTL

\* The inline lease holds against any number of concurrent requests of a session
\* (compiler.py:316-421, storage.py), with any limit.
THEOREM PipelineLease == PrefixesDiffer => (PipelineSpec => []LeaseBound)
<1> SUFFICES ASSUME PrefixesDiffer PROVE PipelineSpec => []LeaseBound
  OBVIOUS
<1>1. PipelineInv => LeaseBound
  <2> SUFFICES ASSUME PipelineInv, NEW s \in Session, NEW c \in Held, Large(c)
               PROVE  InlineUses(s, held[c]) <=
                        InlineLimit + Cardinality({f \in offLease : f[1] = s /\ f[2] = held[c]})
    BY DEF LeaseBound, Large
  <2> DEFINE A == {e \in inlined : e[1] = s /\ e[2] = held[c]}
             B == {f \in offLease : f[1] = s /\ f[2] = held[c]}
             L == Leased(s, c)
  <2>1. c \in Content /\ held[c] = ShortId(c)
    BY DEF PipelineInv, AllShort, Held
  <2>2. A \subseteq L \cup B
    BY <2>1 DEF Leased
  <2>3. IsFiniteSet(B) /\ IsFiniteSet(L)
    BY FS_Subset DEF PipelineInv, LeaseInv, Leased
  <2>4. Cardinality(L) <= InlineLimit
    BY <2>1 DEF PipelineInv, LeaseInv
  <2> HIDE DEF A, B, L
  <2>5. /\ IsFiniteSet(L \cup B) /\ IsFiniteSet(L \cap B)
        /\ Cardinality(L \cup B) = Cardinality(L) + Cardinality(B) - Cardinality(L \cap B)
    BY <2>3, FS_Union, FS_Intersection
  <2>6. Cardinality(A) <= Cardinality(L \cup B)
    BY <2>2, <2>5, FS_Subset
  <2>7. /\ Cardinality(A) \in Nat /\ Cardinality(L) \in Nat /\ Cardinality(B) \in Nat
        /\ Cardinality(L \cap B) \in Nat /\ Cardinality(L \cup B) \in Nat
    BY <2>2, <2>3, <2>5, FS_Subset, FS_CardinalityType
  <2>8. Cardinality(A) <= InlineLimit + Cardinality(B)
    BY <2>4, <2>5, <2>6, <2>7, SizesAreNaturals
  <2> QED
    BY <2>8 DEF A, B, InlineUses
<1> QED
  BY <1>1, PipelineInvariant, PTL

\* A provider retry is sent what the first attempt was sent of the recent turns
\* (compiler.py:255-436), whatever ran in between.
THEOREM PipelineRetries == PrefixesDiffer => (PipelineSpec => []RetrySendsTheSame)
<1> SUFFICES ASSUME PrefixesDiffer PROVE PipelineSpec => []RetrySendsTheSame
  OBVIOUS
<1>1. PipelineInv => RetrySendsTheSame
  <2> SUFFICES ASSUME PipelineInv, NEW q \in published, NEW r \in published, q.job = r.job,
                      q.unpinned = {}, r.unpinned = {}, Clean(q.job.session, q.job.key)
               PROVE  RecentInline(q) = RecentInline(r)
    BY DEF RetrySendsTheSame, Clean
  <2> DEFINE j == q.job
  <2>1. j \in Job /\ Shows(q) /\ Shows(r)
    BY DEF PipelineInv
  <2>2. ASSUME NEW p \in (j.old + 1)..Len(j.texts)
        PROVE  j.texts[p] \in q.inline <=> j.texts[p] \in r.inline
    <3>1. CASE p \notin Replaceable(j)
      BY <2>1, <2>2, <3>1 DEF Shows
    <3>2. CASE p \in Replaceable(j)
      <4>1. Last(j, p) > j.old
        BY <2>1, <2>2, <3>2, JobFacts, LastFacts
      <4>2. j.texts[p] \in q.inline => Row(j, j.texts[p]) \in inlined
        BY <2>1, <3>2, <4>1 DEF Shows
      <4>3. j.texts[p] \in r.inline => Row(j, j.texts[p]) \in inlined
        BY <2>1, <3>2, <4>1 DEF Shows
      <4>4. j.texts[p] \notin q.inline =>
              Row(j, j.texts[p]) \in exposed /\ Denied(j.session, j.texts[p], j.key)
        BY <2>1, <3>2, <4>1 DEF Shows
      <4>5. j.texts[p] \notin r.inline =>
              Row(j, j.texts[p]) \in exposed /\ Denied(j.session, j.texts[p], j.key)
        BY <2>1, <3>2, <4>1 DEF Shows
      <4>6. Row(j, j.texts[p]) \in exposed /\ Denied(j.session, j.texts[p], j.key) =>
              Row(j, j.texts[p]) \notin inlined
        BY DEF Row, Denied, MayInline
      <4> QED
        BY <4>2, <4>3, <4>4, <4>5, <4>6
    <3> QED
      BY <3>1, <3>2
  <2> QED
    BY <2>2 DEF RecentInline
<1> QED
  BY <1>1, PipelineInvariant, PTL
============================================================================
