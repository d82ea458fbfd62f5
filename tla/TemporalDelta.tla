--------------------------- MODULE TemporalDelta ---------------------------
(***************************************************************************)
(* The two ways a tool result is replaced by a shorter text that names     *)
(* what was left out.  TemporalDeltaReducer.transform (temporal.py): a     *)
(* terminal result is stored, compared with the previous result of the     *)
(* same command, and replaced by a delta that names both.                  *)
(* NativeCompressor.transform (compress.py): another tool's result is      *)
(* stored, exposed, and replaced by an excerpt with a recovery note.  Each *)
(* store call is one transaction; workers of several processes interleave, *)
(* and the vault prunes whenever anybody inserts.                          *)
(***************************************************************************)
EXTENDS EvidenceVault

CONSTANTS
  Worker,
  DeltaKey,      \* the exposure key "temporal:<state key>:<current id>"
  ToolKey,       \* the exposure key "tool:<call id>" of a recovery note
  Shrinks,       \* pairs <<previous, current>> whose delta is shorter
  MaxTransforms  \* bound: transforms begun

ASSUME DeltaKeyIsARequest == DeltaKey \in [StateKey \X Id -> Request]
ASSUME ToolKeyIsARequest == ToolKey \in Request
ASSUME ShrinksIsARelation == Shrinks \subseteq Content \X Content
ASSUME MaxTransformsIsANumber == MaxTransforms \in Nat

VARIABLES
  job,        \* what each worker is doing
  deltas,     \* deltas and notes returned to the host in the place of a result
  begun       \* transforms begun so far

temporalVars == <<job, deltas, begun>>
vars == <<vaultVars, temporalVars>>

Idle == [pc |-> "idle"]
At(w, phase) == job[w].pc = phase
With(record, fields) ==
  [f \in DOMAIN record \cup DOMAIN fields |-> IF f \in DOMAIN fields THEN fields[f] ELSE record[f]]
Step(w, fields) == job' = [job EXCEPT ![w] = With(@, fields)]
Reset(w) == job' = [job EXCEPT ![w] = Idle]

\* Any exception is counted and the host keeps the result.
FailOpen(w) == Reset(w) /\ UNCHANGED <<vaultVars, deltas, begun>>

----------------------------------------------------------------------------
\* native: an eligible result whose excerpt and longest note are shorter.
Begin(w, s, k, c, who, native) ==
  /\ At(w, "idle")
  /\ begun < MaxTransforms
  /\ begun' = begun + 1
  /\ job' = [job EXCEPT ![w] = [pc |-> "put", session |-> s, key |-> k, result |-> c, who |-> who,
                                native |-> native,
                                current |-> NoId, previous |-> NoId, before |-> NoId]]
  /\ UNCHANGED <<vaultVars, deltas>>

StoreResult(w) ==
  /\ At(w, "put")
  /\ LET c == job[w].result IN
       \/ /\ PutArtifact(c, job[w].who, {})
          /\ Step(w, [pc |-> "verify", current |-> IdAfterStore(c)])
          /\ UNCHANGED <<captured, deltas, begun>>
       \/ ~CanStore(c) /\ FailOpen(w)

\* The stored result is read back; a pruned one raises KeyError.
Verify(w) ==
  /\ At(w, "verify")
  /\ IF held[job[w].result] = job[w].current
     THEN /\ Step(w, [pc |-> IF job[w].native THEN "note" ELSE "lookup"])
          /\ UNCHANGED <<vaultVars, deltas, begun>>
     ELSE FailOpen(w)

\* _previous: the identifier the snapshot row holds now.
LookUp(w) ==
  /\ At(w, "lookup")
  /\ Step(w, [pc |-> "compare", previous |-> snapshots[job[w].key]])
  /\ UNCHANGED <<vaultVars, deltas, begun>>

\* The delta is computed from what that identifier reads back; if it is gone,
\* the result becomes a baseline.
Compare(w) ==
  /\ At(w, "compare")
  /\ Step(w, IF Holds(job[w].previous)
             THEN [pc |-> "remember", before |-> ContentOf(job[w].previous)]
             ELSE [pc |-> "remember", previous |-> NoId])
  /\ UNCHANGED <<vaultVars, deltas, begun>>

\* Slip: the baseline case is not told apart.
SlipRememberAlwaysCompares(w) ==
  /\ At(w, "remember")
  /\ Remember(job[w].key, job[w].current)
  /\ Step(w, [pc |-> "pinPrevious"])
  /\ UNCHANGED <<captured, deltas, begun>>

RememberResult(w) ==
  /\ At(w, "remember")
  /\ \/ /\ Remember(job[w].key, job[w].current)
        /\ IF job[w].previous # NoId /\ <<job[w].before, job[w].result>> \in Shrinks
           THEN Step(w, [pc |-> "pinPrevious"])
           ELSE Reset(w)
        /\ UNCHANGED <<captured, deltas, begun>>
     \/ ~Holds(job[w].current) /\ FailOpen(w)

Pin(w, i, fields) ==
  \/ /\ RecordExposure(job[w].session, i, DeltaKey[<<job[w].key, job[w].current>>], FALSE)
     /\ Step(w, fields)
     /\ UNCHANGED <<captured, deltas, begun>>
  \/ ~Holds(i) /\ FailOpen(w)

\* Slip: only the current artifact is protected.
SlipPreviousUnpinned(w) ==
  /\ At(w, "pinPrevious")
  /\ Step(w, [pc |-> "pinCurrent"])
  /\ UNCHANGED <<vaultVars, deltas, begun>>

PinPrevious(w) ==
  /\ At(w, "pinPrevious")
  /\ Pin(w, job[w].previous, [pc |-> "pinCurrent"])

PinCurrent(w) ==
  /\ At(w, "pinCurrent")
  /\ Pin(w, job[w].current, [pc |-> "return"])

\* The recovery note names the stored result alone.
ExposeNote(w) ==
  /\ At(w, "note")
  /\ \/ /\ RecordExposure(job[w].session, job[w].current, ToolKey, FALSE)
        /\ Step(w, [pc |-> "return", previous |-> job[w].current, before |-> job[w].result])
        /\ UNCHANGED <<captured, deltas, begun>>
     \/ ~Holds(job[w].current) /\ FailOpen(w)

ReturnDelta(w) ==
  /\ At(w, "return")
  /\ deltas' = deltas \cup {[previous |-> job[w].previous, before |-> job[w].before,
                             current |-> job[w].current, result |-> job[w].result]}
  /\ Reset(w)
  /\ UNCHANGED <<vaultVars, begun>>

\* The process dies between two transactions.
Die(w) == ~At(w, "idle") /\ FailOpen(w)

\* Everybody else who stores an artifact in the vault.
PutElsewhere(c, who) == PutArtifact(c, who, {}) /\ UNCHANGED <<captured, temporalVars>>

----------------------------------------------------------------------------
TemporalInit ==
  /\ Init
  /\ job = [w \in Worker |-> Idle]
  /\ deltas = {}
  /\ begun = 0

Transform(w) ==
  \/ \E s \in Session, k \in StateKey, c \in Content, who \in Caller, native \in BOOLEAN :
       Begin(w, s, k, c, who, native)
  \/ StoreResult(w) \/ Verify(w) \/ LookUp(w) \/ Compare(w) \/ RememberResult(w)
  \/ PinPrevious(w) \/ PinCurrent(w) \/ ExposeNote(w) \/ ReturnDelta(w) \/ Die(w)

TemporalNext ==
  \/ \E w \in Worker : Transform(w)
  \/ \E c \in Content, who \in Caller : PutElsewhere(c, who)

TemporalSpec == TemporalInit /\ [][TemporalNext]_vars

----------------------------------------------------------------------------
(* Properties. *)

TemporalTypeOK ==
  /\ TypeOK
  /\ \A w \in Worker : ~At(w, "idle") =>
       /\ job[w].current \in Id \cup {NoId}
       /\ job[w].previous \in Id \cup {NoId}
       /\ At(w, "pinPrevious") => job[w].previous # NoId
  /\ \A d \in deltas : d.previous \in Id /\ d.current \in Id
  /\ begun \in 0..MaxTransforms

\* A delta or a note that replaced a result can be undone for ever: the outputs
\* it was computed from are read back under the identifiers it names, although
\* none was protected while it was computed and another process may have
\* moved the snapshot and pruned in between.  (Two contents with one 128-bit
\* prefix are excluded: an identifier freed by a pruning could be reissued.)
DeltasRecoverable ==
  \A d \in deltas : held[d.before] = d.previous /\ held[d.result] = d.current
============================================================================
