--------------------------- MODULE EvidenceVault ---------------------------
(***************************************************************************)
(* The private SQLite vault of storage.py: content-addressed artifacts,    *)
(* their observations, the exposures and terminal snapshots that protect   *)
(* them, and the retention pruning an insert may trigger.  The catalog     *)
(* table of context_history.py lives in the same database and is included  *)
(* because its ON DELETE RESTRICT foreign key can veto a pruning.          *)
(*                                                                         *)
(* Every write runs under BEGIN IMMEDIATE (storage.py:140-155): a write    *)
(* transaction is one action, a transaction that raises is rolled back and *)
(* leaves no trace.  A reader sees one committed state.  A put reads the    *)
(* wall clock before it waits for the transaction (storage.py:527), so its  *)
(* time may be older than that of a put which has committed before it.      *)
(*                                                                         *)
(* Artifact bytes are abstracted to a member of Content; its SHA-256 is    *)
(* the member itself and the 128-bit prefix used in the public identifier  *)
(* is Prefix[c], which two contents may share.                             *)
(***************************************************************************)
EXTENDS Integers, FiniteSets, FiniteSetsExt

CONSTANTS
  Content,           \* distinct artifact texts, one per SHA-256 digest
  Prefix,            \* content -> the 32 hex digits of its digest
  Bytes,             \* content -> UTF-8 length
  Chars,             \* content -> length in characters
  Session,           \* session identifiers
  Request,           \* request identifiers used as exposure keys
  HistoryPin,        \* the exposure key "tt-history-<digest>" of a capture
  Caller,            \* observation identities: session, call, tool, arguments
  IdOrder,           \* identifier -> its place in the order of texts
  StateKey,          \* terminal snapshot keys: command, cwd, backend, scope
  MaxArtifactChars, MaxVaultBytes, HighPct, LowPct, InlineLimit,
  MaxTime,           \* bound: readings of the wall clock
  NoId               \* the absence of a row

ASSUME SizesAreNaturals ==
  /\ Bytes \in [Content -> Nat]
  /\ Chars \in [Content -> Nat]
  /\ MaxArtifactChars \in Nat
  /\ MaxVaultBytes \in Nat
  /\ InlineLimit \in Nat

ASSUME WaterMarksOrdered ==
  /\ HighPct \in 1..100
  /\ LowPct \in 0..(HighPct - 1)

VARIABLES
  held,        \* artifacts: the identifier of a content's row, or NoId
  createdAt,   \* artifacts.created_at
  seenAt,      \* MAX(observed_at) over the observations of a content
  observed,    \* artifact_observations, as <<content, caller>>
  exposed,     \* artifact_exposures, as <<session, id, request>>
  inlined,     \* the exposures whose inline column is 1
  snapshots,   \* terminal_snapshots: state key -> id, or NoId
  catalog,     \* tt_context_sources, as <<session, id>>
  captured,    \* sources a running capture() has stored but not yet indexed
  total,       \* vault_meta 'total_artifact_bytes'
  clock,       \* history: when the last put committed
  storedAt     \* history: when the last observation of a content was committed

vaultVars ==
  <<held, createdAt, seenAt, observed, exposed, inlined, snapshots, catalog, captured,
    total, clock, storedAt>>

history == <<clock, storedAt>>

\* What a put alone changes.
artifacts == <<held, createdAt, seenAt, observed, total, history>>

protection == <<exposed, inlined, snapshots, catalog, captured>>

----------------------------------------------------------------------------
(* Identifiers and the artifacts table. *)

ShortId(c) == <<"a", Prefix[c]>>
FullId(c) == <<"a-full", c>>
Id == {ShortId(c) : c \in Content} \cup {FullId(c) : c \in Content}

ASSUME IdsAreOrdered ==
  /\ IdOrder \in [Id -> Nat]
  /\ \A i, j \in Id : IdOrder[i] = IdOrder[j] => i = j
ASSUME TimeIsBounded == MaxTime \in Nat

Time == 0..MaxTime

ASSUME NoIdIsNoIdentifier == NoId \notin Id \cup Content
ASSUME HistoryPinIsARequest == HistoryPin \in Request

Held == {c \in Content : held[c] # NoId}
Ids == {held[c] : c \in Held}
Holds(i) == i \in Ids
ContentOf(i) == CHOOSE c \in Content : held[c] = i

\* The identifier a new row for c receives: the short one unless a different
\* content already answers to it.
NewId(c) ==
  IF \E d \in Content \ {c} : held[d] = ShortId(c) THEN FullId(c) ELSE ShortId(c)

BytesOf(S) == SumFunctionOnSet(Bytes, S)

----------------------------------------------------------------------------
(* Retention. *)

AtLeast(n, m) == IF m >= n THEN m ELSE n
HighWater == AtLeast(1, (MaxVaultBytes * HighPct) \div 100)
LowWater == (MaxVaultBytes * LowPct) \div 100

\* Slips: one of the two NOT EXISTS clauses of the pruning query is lost.
SlipProtectedByExposureOnly(i) == \E s \in Session, r \in Request : <<s, i, r>> \in exposed
SlipProtectedBySnapshotOnly(i) == \E k \in StateKey : snapshots[k] = i

Protected(i) ==
  \/ \E k \in StateKey : snapshots[k] = i
  \/ \E s \in Session, r \in Request : <<s, i, r>> \in exposed

Candidates == {c \in Held : ~Protected(held[c])}

\* Slip: the observations are not joined, rows are taken by created_at.
SlipBeforeByCreation(d, v) ==
  \/ createdAt[d] < createdAt[v]
  \/ createdAt[d] = createdAt[v] /\ IdOrder[held[d]] < IdOrder[held[v]]

\* ORDER BY last_observed, created_at, artifact_id: d is pruned before v.
Before(d, v) ==
  \/ seenAt[d] < seenAt[v]
  \/ /\ seenAt[d] = seenAt[v]
     /\ \/ createdAt[d] < createdAt[v]
        \/ createdAt[d] = createdAt[v] /\ IdOrder[held[d]] < IdOrder[held[v]]

\* The rows _prune_for_insert deletes for an insert of c: in that order, until the bytes left are at or below the target.
Victims(c) ==
  IF total + Bytes[c] <= HighWater
  THEN {}
  ELSE {v \in Candidates :
          total - BytesOf({d \in Candidates : Before(d, v)})
            > AtLeast(0, LowWater - Bytes[c])}

BytesAfterPrune(c) == total - BytesOf(Victims(c))

\* Deleting a catalogued artifact violates ON DELETE RESTRICT.
Restricted(c) == \E v \in Victims(c), s \in Session : <<s, held[v]>> \in catalog

\* Slip: the capacity check forgets the incoming bytes.
SlipCanStoreUpToCapacity(c) ==
  /\ Chars[c] <= MaxArtifactChars
  /\ held[c] = NoId => ~Restricted(c) /\ BytesAfterPrune(c) <= MaxVaultBytes

\* put_artifact returns; otherwise it raises and is rolled back.
CanStore(c) ==
  /\ Chars[c] <= MaxArtifactChars
  /\ held[c] = NoId =>
       /\ ~Restricted(c)
       /\ BytesAfterPrune(c) + Bytes[c] <= MaxVaultBytes

IdAfterStore(c) == IF held[c] = NoId THEN NewId(c) ELSE held[c]

----------------------------------------------------------------------------
(* put_artifact, in its two forms, by a caller that read the clock at      *)
(* "began".  A repeated observation identity is ignored, so it does not     *)
(* make the artifact recent again.                                         *)

Insert(c, who, began) ==
  LET gone == Victims(c)
      Row(f, new, none) ==
        [d \in Content |-> IF d = c THEN new ELSE IF d \in gone THEN none ELSE f[d]]
  IN
  /\ held[c] = NoId
  /\ held' = Row(held, NewId(c), NoId)
  /\ createdAt' = Row(createdAt, began, 0)
  /\ seenAt' = Row(seenAt, began, 0)
  /\ observed' = {o \in observed : o[1] \notin gone} \cup {<<c, who>>}
  /\ total' = BytesAfterPrune(c) + Bytes[c]

Reobserve(c, who, began) ==
  /\ held[c] # NoId
  /\ seenAt' = IF <<c, who>> \in observed THEN seenAt
               ELSE [seenAt EXCEPT ![c] = AtLeast(@, began)]
  /\ observed' = observed \cup {<<c, who>>}
  /\ UNCHANGED <<held, createdAt, total>>

\* pins is {} or the one exposure key of pin_request_id, written in the same
\* transaction with inline = 0 and left alone when the row exists.
PutAt(c, who, pins, began) ==
  /\ CanStore(c)
  /\ Insert(c, who, began) \/ Reobserve(c, who, began)
  /\ exposed' = exposed \cup {<<p[1], IdAfterStore(c), p[2]>> : p \in pins}
  /\ UNCHANGED <<inlined, snapshots, catalog>>

\* The put of a component whose runs ask nothing of time: any reading of the clock.
PutArtifact(c, who, pins) ==
  /\ \E began \in Time : PutAt(c, who, pins, began)
  /\ UNCHANGED history

\* The put commits when the others before it have, and after it read the clock.
Stored(c, who, began) ==
  LET counts == held[c] = NoId \/ <<c, who>> \notin observed IN
  /\ clock' \in {t \in Time : clock <= t /\ began <= t}
  /\ storedAt' = [d \in Content |-> IF d = c /\ counts THEN clock'
                                    ELSE IF held'[d] = NoId THEN 0 ELSE storedAt[d]]

----------------------------------------------------------------------------
(* Exposures, snapshots and the catalog.  Each INSERT carries a foreign key *)
(* on artifacts, so it raises for an identifier that is no longer held.     *)

\* Slip: an UPDATE without the INSERT.
SlipExposureUpdatedOnly(s, i, r, inline) ==
  /\ Holds(i)
  /\ inlined' = IF inline THEN inlined \cup {<<s, i, r>>} ELSE inlined
  /\ UNCHANGED <<artifacts, exposed, snapshots, catalog>>

RecordExposure(s, i, r, inline) ==
  /\ Holds(i)
  /\ exposed' = exposed \cup {<<s, i, r>>}
  /\ inlined' = IF inline THEN inlined \cup {<<s, i, r>>} ELSE inlined
  /\ UNCHANGED <<artifacts, snapshots, catalog>>

InlineUses(s, i) == Cardinality({e \in inlined : e[1] = s /\ e[2] = i})

\* Slip: a row this request already has is counted like any other.
SlipMayInlineForgetsOwnRow(s, i, r) == InlineUses(s, i) < InlineLimit

\* The answer of exposure_available, and of claim_exposure for a held id.
MayInline(s, i, r) ==
  IF <<s, i, r>> \in exposed THEN <<s, i, r>> \in inlined
                             ELSE InlineUses(s, i) < InlineLimit

\* Slip: the claim trusts the preflight and does not count again.
SlipClaimWithoutRecount(s, i, r) ==
  <<s, i, r>> \notin exposed /\ RecordExposure(s, i, r, TRUE)

\* A claim that inserts; every other outcome of claim_exposure writes nothing.
ClaimInline(s, i, r) ==
  /\ <<s, i, r>> \notin exposed
  /\ MayInline(s, i, r)
  /\ RecordExposure(s, i, r, TRUE)

Remember(k, i) ==
  /\ Holds(i)
  /\ snapshots' = [snapshots EXCEPT ![k] = i]
  /\ UNCHANGED <<artifacts, exposed, inlined, catalog>>

\* HistoryCatalog.capture for one message, first transaction: the message is
\* stored and pinned for its session.  The set of known sources is read before
\* and may be stale, so a source can be captured again.
CaptureSource(s, c, who, began) ==
  /\ PutAt(c, who, {<<s, HistoryPin>>}, began)
  /\ Stored(c, who, began)
  /\ captured' = captured \cup {<<s, IdAfterStore(c)>>}

\* Second transaction: after the read-back, the source is indexed.
IndexSource(s, i) ==
  /\ <<s, i>> \in captured
  /\ Holds(i)
  /\ captured' = captured \ {<<s, i>>}
  /\ catalog' = catalog \cup {<<s, i>>}
  /\ UNCHANGED <<artifacts, exposed, inlined, snapshots>>

\* The capturing process dies or raises between the two transactions.
LoseCapture(s, i) ==
  /\ <<s, i>> \in captured
  /\ captured' = captured \ {<<s, i>>}
  /\ UNCHANGED <<artifacts, exposed, inlined, snapshots, catalog>>

----------------------------------------------------------------------------
Init ==
  /\ held = [c \in Content |-> NoId]
  /\ createdAt = [c \in Content |-> 0]
  /\ seenAt = [c \in Content |-> 0]
  /\ observed = {}
  /\ exposed = {}
  /\ inlined = {}
  /\ snapshots = [k \in StateKey |-> NoId]
  /\ catalog = {}
  /\ captured = {}
  /\ total = 0
  /\ clock = 0
  /\ storedAt = [c \in Content |-> 0]

Put == \E c \in Content, who \in Caller, began \in Time :
         /\ \E pins \in {{}} \cup {{<<s, r>>} : s \in Session, r \in Request} :
              PutAt(c, who, pins, began)
         /\ Stored(c, who, began)
         /\ UNCHANGED captured

Expose == \E s \in Session, i \in Ids, r \in Request, inline \in BOOLEAN :
            RecordExposure(s, i, r, inline) /\ UNCHANGED captured

Claim == \E s \in Session, i \in Ids, r \in Request :
           ClaimInline(s, i, r) /\ UNCHANGED captured

Snapshot == \E k \in StateKey, i \in Ids : Remember(k, i) /\ UNCHANGED captured

Capture == \E s \in Session, c \in Content, who \in Caller, began \in Time :
             CaptureSource(s, c, who, began)

Catalogue == \E s \in Session, i \in Id : IndexSource(s, i) \/ LoseCapture(s, i)

Next == Put \/ Expose \/ Claim \/ Snapshot \/ Capture \/ Catalogue

Spec == Init /\ [][Next]_vaultVars

----------------------------------------------------------------------------
(* Properties. *)

\* The tables have the shape of the schema (storage.py:162-247).
TypeOK ==
  /\ held \in [Content -> Id \cup {NoId}]
  /\ {createdAt, seenAt, storedAt} \subseteq [Content -> Time]
  /\ clock \in Time
  /\ observed \subseteq Content \X Caller
  /\ exposed \subseteq Session \X Id \X Request
  /\ inlined \subseteq exposed
  /\ snapshots \in [StateKey -> Id \cup {NoId}]
  /\ catalog \subseteq Session \X Id
  /\ captured \subseteq Session \X Id

\* An identifier answers for one content only, also when two digests share
\* their first 128 bits and pruning keeps freeing identifiers for reuse.
IdsUnique == \A c, d \in Held : held[c] = held[d] => c = d

\* Whatever is referenced is held: no exposure, snapshot or catalogued source
\* survives the artifact it names, whichever insert did the pruning.
ReferencesHeld ==
  /\ \A e \in exposed : Holds(e[2])
  /\ \A k \in StateKey : snapshots[k] # NoId => Holds(snapshots[k])
  /\ \A s \in catalog : Holds(s[2])

\* The sum that the O(1) byte counter stands for, and the bound on it.
BytesExact == total = BytesOf(Held)
WithinCapacity == BytesOf(Held) <= MaxVaultBytes

\* The vault is at no time over its capacity (storage.py:549-552), and the O(1)
\* byte counter that says so is the sum of the rows.
CapacityKept == WithinCapacity /\ BytesExact

\* A history source is pinned from the transaction that stores it, so neither
\* the capture that is still to index it nor its catalog row can lose it.
SourcesPinned == \A s \in catalog \cup captured : <<s[1], s[2], HistoryPin>> \in exposed

\* Hence the RESTRICT clause never turns an insert into a failure.
PruneNeverRestricted == \A c \in Content : held[c] = NoId => ~Restricted(c)

\* Once an exposure names an identifier, that identifier reads back the same
\* content for ever: it is neither pruned nor reissued for other bytes.
ExposedForever ==
  [][\A e \in exposed :
        /\ e \in exposed'
        /\ \A c \in Content : held[c] = e[2] => held'[c] = e[2]]_vaultVars

\* An observation of v was made after the last one of k had been stored.
SeenSince(v, k) == seenAt[v] > storedAt[k]

\* Nothing that has been observed since is evicted while the unprotected row of a
\* result that nobody has observed since is spared: not when writers commit in
\* another order than they read the clock, nor when a late observation carries an
\* older time than the row has, nor when a known one is repeated.
EvictOldestFirst ==
  [][\A v \in Held, k \in Candidates :
        held'[v] = NoId /\ held'[k] # NoId => ~SeenSince(v, k)]_vaultVars

\* The meaning of an identifier never changes in place: a reader that resolves
\* the same identifier twice gets the same bytes or an unknown-artifact error.
NeverSubstituted ==
  [][\A c, d \in Content : held[c] # NoId /\ held'[d] = held[c] => c = d]_vaultVars

\* The vault keeps the promise of EvidenceArchive: what a reader gets for an
\* identifier, and which identifiers are pinned by an exposure.
Readable == [i \in Id |-> IF Holds(i) THEN ContentOf(i) ELSE NoId]
Pinned == {e[2] : e \in exposed}

Archive == INSTANCE EvidenceArchive
             WITH None <- NoId, readable <- Readable, pinned <- Pinned

KeepsArchivePromise == Archive!Spec
============================================================================
