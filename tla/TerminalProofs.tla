--------------------------- MODULE TerminalProofs ---------------------------
(***************************************************************************)
(* What happens to a tool call on its way out and back, for any callers,   *)
(* commands, workers, results and capacities.                              *)
(*                                                                         *)
(* The results.  A delta or a recovery note can be undone for ever when no *)
(* two artifacts share the 128-bit prefix of their digests: then an        *)
(* identifier names one content whether or not it is held, so what a       *)
(* worker remembers of it stays true while others prune and store again;   *)
(* and an exposure, once recorded, keeps its artifact (EvidenceVaultProofs).*)
(*                                                                         *)
(* The rewriter.  No rtk process outlives its call: there is none before   *)
(* it is spawned, it is dead or dying once the call stops waiting for it,  *)
(* and gone when its pipes are closed.  And every entry of the cache is    *)
(* what rtk said of the command and directory of its key.                  *)
(***************************************************************************)
EXTENDS MCTerminal, EvidenceVaultProofs, SequenceTheorems

Needed == {"pc", "session", "key", "result", "who", "native", "current", "previous", "before"}

\* What a worker knows at each stage of its transform.
Transforming(w) ==
  /\ Needed \subseteq DOMAIN job[w]
  /\ job[w].session \in Session /\ job[w].key \in StateKey
  /\ job[w].result \in Content /\ job[w].who \in Caller
  /\ job[w].pc # "put" => job[w].current = ShortId(job[w].result)
  /\ job[w].pc \in {"remember", "pinPrevious", "pinCurrent", "return"} =>
       \/ job[w].pc = "remember" /\ job[w].previous = NoId
       \/ job[w].before \in Content /\ job[w].previous = ShortId(job[w].before)
  /\ job[w].pc \in {"pinCurrent", "return"} => Kept(job[w].previous)
  /\ job[w].pc = "return" => Kept(job[w].current)

Undoable(d) ==
  /\ d.before \in Content /\ d.previous = ShortId(d.before) /\ Kept(d.previous)
  /\ d.result \in Content /\ d.current = ShortId(d.result) /\ Kept(d.current)

DeltaInv ==
  /\ VaultInv
  /\ AllShort
  /\ DOMAIN job = Worker
  /\ \A w \in Worker : ~At(w, "idle") => Transforming(w)
  /\ \A d \in deltas : Undoable(d)

----------------------------------------------------------------------------
(* The workers. *)

\* It is enough to look at the worker that moves.
LEMMA OneWorker ==
  ASSUME DeltaInv, VaultSound, NEW w \in Worker,
         DOMAIN job' = Worker, \A v \in Worker \ {w} : job'[v] = job[v],
         ~At(w, "idle")' => Transforming(w)',
         \A d \in deltas' \ deltas : Undoable(d)'
  PROVE  DeltaInv'
<1>1. \A i : Kept(i) => Kept(i)'
  BY DEF VaultSound, Kept
<1>2. \A d \in deltas' : Undoable(d)'
  <2>1. ASSUME NEW d \in deltas
        PROVE  Undoable(d)'
    BY <1>1 DEF DeltaInv, Undoable, ShortId
  <2> QED
    BY <2>1
<1>3. ASSUME NEW v \in Worker, v # w, ~At(v, "idle")'
      PROVE  Transforming(v)'
  <2>1. job'[v] = job[v] /\ Transforming(v)
    BY <1>3 DEF DeltaInv, At
  <2> QED
    BY <1>1, <2>1 DEF Transforming, ShortId
<1> QED
  BY <1>2, <1>3 DEF DeltaInv, VaultSound

\* What a step of a worker leaves of its record.
LEMMA StepFields ==
  ASSUME DeltaInv, NEW w \in Worker, NEW fields, Step(w, fields)
  PROVE  /\ DOMAIN job' = Worker
         /\ \A v \in Worker \ {w} : job'[v] = job[v]
         /\ DOMAIN job'[w] = DOMAIN job[w] \cup DOMAIN fields
         /\ \A n \in DOMAIN fields : job'[w][n] = fields[n]
         /\ \A n \in DOMAIN job[w] \ DOMAIN fields : job'[w][n] = job[w][n]
<1>1. job' = [job EXCEPT ![w] = With(job[w], fields)]
  BY DEF Step
<1>2. DOMAIN job = Worker
  BY DEF DeltaInv
<1>3. job'[w] = With(job[w], fields)
  BY <1>1, <1>2
<1> QED
  BY <1>1, <1>2, <1>3 DEF With

LEMMA ResetKeeps ==
  ASSUME DeltaInv, VaultSound, NEW w \in Worker, Reset(w),
         \A d \in deltas' \ deltas : Undoable(d)'
  PROVE  DeltaInv'
<1>1. DOMAIN job' = Worker /\ \A v \in Worker \ {w} : job'[v] = job[v]
  BY DEF Reset, DeltaInv
<1>2. At(w, "idle")'
  BY DEF Reset, DeltaInv, At, Idle
<1> QED
  BY <1>1, <1>2, OneWorker

LEMMA FailOpenKeeps ==
  ASSUME DeltaInv, NEW w \in Worker, FailOpen(w)
  PROVE  DeltaInv'
<1>1. VaultSound
  BY ReferenceSound DEF FailOpen, DeltaInv
<1> QED
  BY <1>1, ResetKeeps DEF FailOpen

LEMMA BeginKeeps ==
  ASSUME DeltaInv, NEW w \in Worker, NEW s \in Session, NEW k \in StateKey,
         NEW c \in Content, NEW who \in Caller, NEW native, Begin(w, s, k, c, who, native)
  PROVE  DeltaInv'
<1>1. VaultSound /\ UNCHANGED deltas
  BY ReferenceSound DEF Begin, DeltaInv
<1>2. DOMAIN job' = Worker /\ \A v \in Worker \ {w} : job'[v] = job[v]
  BY DEF Begin, DeltaInv
<1>3. job'[w] = [pc |-> "put", session |-> s, key |-> k, result |-> c, who |-> who,
                 native |-> native, current |-> NoId, previous |-> NoId, before |-> NoId]
  BY DEF Begin, DeltaInv
<1>4. Transforming(w)'
  BY <1>3 DEF Transforming, Needed
<1> QED
  BY <1>1, <1>2, <1>4, OneWorker

LEMMA StoreResultKeeps ==
  ASSUME PrefixesDiffer, DeltaInv, NEW w \in Worker, StoreResult(w)
  PROVE  DeltaInv'
<1> DEFINE c == job[w].result
<1>1. At(w, "put") /\ Transforming(w)
  BY DEF StoreResult, DeltaInv, At
<1>2. CASE FailOpen(w)
  BY <1>2, FailOpenKeeps
<1>3. CASE /\ PutArtifact(c, job[w].who, {})
           /\ Step(w, [pc |-> "verify", current |-> IdAfterStore(c)])
           /\ UNCHANGED <<captured, deltas, begun>>
  <2>1. c \in Content /\ job[w].who \in Caller
    BY <1>1 DEF Transforming
  <2>2. VaultSound /\ IdAfterStore(c) = ShortId(c)
    BY <1>3, <2>1, StoreSound DEF DeltaInv
  <2>3. /\ job'[w].pc = "verify" /\ job'[w].current = ShortId(c)
        /\ DOMAIN job[w] \subseteq DOMAIN job'[w]
        /\ \A n \in Needed \ {"pc", "current"} : job'[w][n] = job[w][n]
    BY <1>1, <1>3, <2>2, StepFields DEF Transforming
  <2>4. Transforming(w)'
    BY <1>1, <2>3 DEF Transforming, Needed, ShortId
  <2>5. DOMAIN job' = Worker /\ \A v \in Worker \ {w} : job'[v] = job[v]
    BY <1>3, StepFields
  <2> QED
    BY <1>3, <2>2, <2>4, <2>5, OneWorker
<1> QED
  BY <1>2, <1>3 DEF StoreResult

LEMMA StepKeeps ==
  ASSUME DeltaInv, VaultSound, NEW w \in Worker, NEW fields, Step(w, fields), UNCHANGED deltas,
         Transforming(w)'
  PROVE  DeltaInv'
BY StepFields, OneWorker

\* Looking at the vault: what an identifier reads back is its content.
LEMMA LookKeeps ==
  ASSUME DeltaInv, NEW w \in Worker, Verify(w) \/ LookUp(w) \/ Compare(w)
  PROVE  DeltaInv'
<1>1. ~At(w, "idle") /\ Transforming(w)
  BY DEF Verify, LookUp, Compare, DeltaInv, At
<1>2. ASSUME NEW fields, Step(w, fields), UNCHANGED <<vaultVars, deltas, begun>>, Transforming(w)'
      PROVE  DeltaInv'
  <2>1. VaultSound
    BY <1>2, ReferenceSound DEF DeltaInv
  <2> QED
    BY <1>2, <2>1, StepKeeps
<1>3. CASE Verify(w)
  <2>1. CASE FailOpen(w)
    BY <2>1, FailOpenKeeps
  <2>2. ASSUME NEW place \in {"note", "lookup"}, Step(w, [pc |-> place]), At(w, "verify"),
               UNCHANGED <<vaultVars, deltas, begun>>
        PROVE  DeltaInv'
    <3>1. /\ job'[w].pc = place
          /\ DOMAIN job[w] \subseteq DOMAIN job'[w]
          /\ \A n \in Needed \ {"pc"} : job'[w][n] = job[w][n]
      BY <1>1, <2>2, StepFields DEF Transforming
    <3>2. Transforming(w)'
      BY <1>1, <2>2, <3>1 DEF Transforming, Needed, ShortId, At
    <3> QED
      BY <1>2, <2>2, <3>2
  <2> QED
    BY <1>3, <2>1, <2>2 DEF Verify
<1>4. CASE LookUp(w)
  <2>1. /\ job'[w].pc = "compare"
        /\ DOMAIN job[w] \subseteq DOMAIN job'[w]
        /\ \A n \in Needed \ {"pc", "previous"} : job'[w][n] = job[w][n]
    BY <1>1, <1>4, StepFields DEF LookUp, Transforming
  <2>2. Transforming(w)'
    BY <1>1, <1>4, <2>1 DEF LookUp, Transforming, Needed, ShortId, At
  <2> QED
    BY <1>2, <1>4, <2>2 DEF LookUp
<1>5. CASE Compare(w) /\ Holds(job[w].previous)
  <2> DEFINE c == ContentOf(job[w].previous)
  <2>1. c \in Content /\ held[c] = job[w].previous
    BY <1>5 DEF Holds, Ids, Held, ContentOf
  <2>2. job[w].previous = ShortId(c)
    BY <1>5, <2>1 DEF DeltaInv, AllShort, Held, Holds, Ids
  <2>3. /\ job'[w].pc = "remember" /\ job'[w].before = c
        /\ DOMAIN job[w] \subseteq DOMAIN job'[w]
        /\ \A n \in Needed \ {"pc", "before"} : job'[w][n] = job[w][n]
    BY <1>1, <1>5, StepFields DEF Compare, Transforming
  <2>4. Transforming(w)'
    BY <1>1, <1>5, <2>1, <2>2, <2>3 DEF Compare, Transforming, Needed, ShortId, At
  <2> QED
    BY <1>2, <1>5, <2>4 DEF Compare
<1>6. CASE Compare(w) /\ ~Holds(job[w].previous)
  <2>1. /\ job'[w].pc = "remember" /\ job'[w].previous = NoId
        /\ DOMAIN job[w] \subseteq DOMAIN job'[w]
        /\ \A n \in Needed \ {"pc", "previous"} : job'[w][n] = job[w][n]
    BY <1>1, <1>6, StepFields DEF Compare, Transforming
  <2>2. Transforming(w)'
    BY <1>1, <1>6, <2>1 DEF Compare, Transforming, Needed, ShortId, At
  <2> QED
    BY <1>2, <1>6, <2>2 DEF Compare
<1> QED
  BY <1>3, <1>4, <1>5, <1>6

LEMMA RememberKeeps ==
  ASSUME DeltaInv, NEW w \in Worker, RememberResult(w)
  PROVE  DeltaInv'
<1>1. At(w, "remember") /\ Transforming(w)
  BY DEF RememberResult, DeltaInv, At
<1>2. CASE FailOpen(w)
  BY <1>2, FailOpenKeeps
<1>3. CASE Remember(job[w].key, job[w].current) /\ UNCHANGED <<captured, deltas, begun>>
  <2>1. Snapshot
    BY <1>1, <1>3 DEF Snapshot, Remember, Holds, Transforming
  <2>2. VaultSound
    BY <2>1, ReferenceSound DEF DeltaInv
  <2>3. CASE Reset(w)
    BY <1>3, <2>2, <2>3, ResetKeeps
  <2>4. CASE job[w].previous # NoId /\ Step(w, [pc |-> "pinPrevious"])
    <3>1. /\ job'[w].pc = "pinPrevious"
          /\ DOMAIN job[w] \subseteq DOMAIN job'[w]
          /\ \A n \in Needed \ {"pc"} : job'[w][n] = job[w][n]
      BY <1>1, <2>4, StepFields DEF Transforming
    <3>2. Transforming(w)'
      BY <1>1, <2>4, <3>1 DEF Transforming, Needed, ShortId, At
    <3> QED
      BY <1>3, <2>2, <2>4, <3>2, StepKeeps
  <2> QED
    BY <1>3, <2>3, <2>4 DEF RememberResult, FailOpen
<1> QED
  BY <1>2, <1>3 DEF RememberResult

\* An exposure that a worker records keeps its identifier from then on.
LEMMA ExposureSound ==
  ASSUME VaultInv, AllShort, NEW s \in Session, NEW i, NEW r \in Request,
         RecordExposure(s, i, r, FALSE), UNCHANGED captured
  PROVE  VaultSound /\ Kept(i)'
<1>1. Expose
  BY DEF Expose, RecordExposure, Holds
<1>2. <<s, i, r>> \in exposed'
  BY DEF RecordExposure
<1> QED
  BY <1>1, <1>2, ReferenceSound DEF Kept

LEMMA PinKeeps ==
  ASSUME DeltaInv, NEW w \in Worker, PinPrevious(w) \/ PinCurrent(w)
  PROVE  DeltaInv'
<1>1. (At(w, "pinPrevious") \/ At(w, "pinCurrent")) /\ Transforming(w)
  BY DEF PinPrevious, PinCurrent, DeltaInv, At
<1>2. CASE FailOpen(w)
  BY <1>2, FailOpenKeeps
<1>3. DeltaKey[<<job[w].key, job[w].current>>] \in Request
  BY <1>1, ShortIsAnId, DeltaKeyIsARequest DEF Transforming, At
<1>4. ASSUME NEW i, NEW place \in {"pinCurrent", "return"},
             RecordExposure(job[w].session, i, DeltaKey[<<job[w].key, job[w].current>>], FALSE),
             Step(w, [pc |-> place]), UNCHANGED <<captured, deltas, begun>>,
             \/ At(w, "pinPrevious") /\ place = "pinCurrent" /\ i = job[w].previous
             \/ At(w, "pinCurrent") /\ place = "return" /\ i = job[w].current
      PROVE  DeltaInv'
  <2>1. VaultSound /\ Kept(i)'
    BY <1>1, <1>3, <1>4, ExposureSound DEF Transforming, DeltaInv
  <2>2. \A x : Kept(x) => Kept(x)'
    BY <2>1 DEF Kept, VaultSound
  <2>3. /\ job'[w].pc = place
        /\ DOMAIN job[w] \subseteq DOMAIN job'[w]
        /\ \A n \in Needed \ {"pc"} : job'[w][n] = job[w][n]
    BY <1>1, <1>4, StepFields DEF Transforming
  <2>4. Transforming(w)'
    BY <1>1, <1>4, <2>1, <2>2, <2>3 DEF Transforming, Needed, ShortId, At
  <2> QED
    BY <1>4, <2>1, <2>4, StepKeeps
<1> QED
  BY <1>2, <1>4 DEF PinPrevious, PinCurrent, Pin

LEMMA NoteKeeps ==
  ASSUME DeltaInv, NEW w \in Worker, ExposeNote(w)
  PROVE  DeltaInv'
<1>1. At(w, "note") /\ Transforming(w)
  BY DEF ExposeNote, DeltaInv, At
<1>2. CASE FailOpen(w)
  BY <1>2, FailOpenKeeps
<1>3. CASE /\ RecordExposure(job[w].session, job[w].current, ToolKey, FALSE)
           /\ Step(w, [pc |-> "return", previous |-> job[w].current, before |-> job[w].result])
           /\ UNCHANGED <<captured, deltas, begun>>
  <2>1. VaultSound /\ \A i : i = job[w].current => Kept(i)'
    <3>1. ASSUME NEW i, i = job[w].current
          PROVE  VaultSound /\ Kept(i)'
      BY <1>1, <1>3, <3>1, ToolKeyIsARequest, ExposureSound DEF Transforming, DeltaInv
    <3> QED
      BY <3>1
  <2>2. /\ job'[w].pc = "return" /\ job'[w].previous = job[w].current
        /\ job'[w].before = job[w].result
        /\ DOMAIN job[w] \subseteq DOMAIN job'[w]
        /\ \A n \in Needed \ {"pc", "previous", "before"} : job'[w][n] = job[w][n]
    BY <1>1, <1>3, StepFields DEF Transforming
  <2>3. /\ Needed \subseteq DOMAIN job'[w]
        /\ job'[w].session \in Session /\ job'[w].key \in StateKey
        /\ job'[w].result = job[w].result /\ job[w].result \in Content
        /\ job'[w].who \in Caller /\ job'[w].current = job[w].current
        /\ job[w].current = ShortId(job[w].result)
    BY <1>1, <2>2 DEF Transforming, Needed, At
  <2>4. Kept(job[w].current)' /\ Kept(job[w].previous)'
    <3>1. \A i : i = job'[w].current => Kept(i)'
      BY <2>1, <2>3
    <3> QED
      BY <2>2, <2>3, <3>1 DEF Kept
  <2>5. Transforming(w)'
    BY <2>2, <2>3, <2>4 DEF Transforming, ShortId
  <2> QED
    BY <1>3, <2>1, <2>5, StepKeeps
<1> QED
  BY <1>2, <1>3 DEF ExposeNote

LEMMA ReturnKeeps ==
  ASSUME DeltaInv, NEW w \in Worker, ReturnDelta(w)
  PROVE  DeltaInv'
<1>1. At(w, "return") /\ Transforming(w)
  BY DEF ReturnDelta, DeltaInv, At
<1>2. VaultSound /\ UNCHANGED exposed
  BY ReferenceSound DEF ReturnDelta, DeltaInv, vaultVars
<1>3. ASSUME NEW d \in deltas' \ deltas
      PROVE  Undoable(d)'
  <2>1. d = [previous |-> job[w].previous, before |-> job[w].before,
             current |-> job[w].current, result |-> job[w].result]
    BY <1>3 DEF ReturnDelta
  <2>2. Undoable(d)
    BY <1>1, <2>1 DEF Undoable, Transforming, At
  <2> QED
    BY <1>2, <2>2 DEF Undoable, Kept, ShortId
<1> QED
  BY <1>2, <1>3, ResetKeeps DEF ReturnDelta

----------------------------------------------------------------------------
LEMMA NextDelta == PrefixesDiffer /\ DeltaInv /\ [TemporalNext]_vars => DeltaInv'
<1> SUFFICES ASSUME PrefixesDiffer, DeltaInv, [TemporalNext]_vars PROVE DeltaInv'
  OBVIOUS
<1>1. ASSUME NEW w \in Worker, Transform(w)
      PROVE  DeltaInv'
  BY <1>1, BeginKeeps, StoreResultKeeps, LookKeeps, RememberKeeps, PinKeeps, NoteKeeps,
     ReturnKeeps, FailOpenKeeps DEF Transform, Die
<1>2. ASSUME VaultSound, UNCHANGED temporalVars
      PROVE  DeltaInv'
  <2>1. UNCHANGED <<job, deltas>> /\ \A i : Kept(i) => Kept(i)'
    BY <1>2 DEF temporalVars, VaultSound, Kept
  <2>2. \A d \in deltas' : Undoable(d)'
    BY <2>1 DEF DeltaInv, Undoable, ShortId
  <2>3. ASSUME NEW w \in Worker, ~At(w, "idle")'
        PROVE  Transforming(w)'
    <3>1. Transforming(w)
      BY <2>1, <2>3 DEF DeltaInv, At
    <3> QED
      BY <2>1, <3>1 DEF Transforming, ShortId
  <2> QED
    BY <1>2, <2>1, <2>2, <2>3 DEF DeltaInv, VaultSound
<1>3. ASSUME NEW c \in Content, NEW who \in Caller, PutElsewhere(c, who)
      PROVE  DeltaInv'
  BY <1>2, <1>3, StoreSound DEF PutElsewhere, DeltaInv
<1>4. CASE UNCHANGED vars
  BY <1>2, <1>4, ReferenceSound DEF vars, DeltaInv
<1> QED
  BY <1>1, <1>3, <1>4 DEF TemporalNext

\* The inductive invariant: workers know the contents their identifiers name, and
\* what a returned delta names is exposed.
THEOREM DeltaInvariant == PrefixesDiffer => (TemporalSpec => []DeltaInv)
<1> SUFFICES ASSUME PrefixesDiffer PROVE TemporalSpec => []DeltaInv
  OBVIOUS
<1>1. TemporalInit => DeltaInv
  <2> SUFFICES ASSUME TemporalInit PROVE DeltaInv
    OBVIOUS
  <2>1. VaultInv
    BY InitVault DEF TemporalInit
  <2>2. AllShort
    BY DEF TemporalInit, Init, AllShort, Held
  <2>3. DOMAIN job = Worker /\ \A w \in Worker : At(w, "idle")
    BY DEF TemporalInit, At, Idle
  <2> QED
    BY <2>1, <2>2, <2>3 DEF DeltaInv, TemporalInit
<1>2. DeltaInv /\ [TemporalNext]_vars => DeltaInv'
  BY NextDelta
<1> QED
  BY <1>1, <1>2, PTL DEF TemporalSpec

\* Every delta and every recovery note can be undone for ever (temporal.py:200-263,
\* compress.py:115-183), whatever other processes store, prune and remember between
\* the transactions of a transform, in a vault of any size.
THEOREM DeltasUndoable == PrefixesDiffer => (TemporalSpec => []DeltasRecoverable)
<1> SUFFICES ASSUME PrefixesDiffer PROVE TemporalSpec => []DeltasRecoverable
  OBVIOUS
<1>1. DeltaInv => DeltasRecoverable
  <2> SUFFICES ASSUME DeltaInv, NEW d \in deltas
               PROVE  held[d.before] = d.previous /\ held[d.result] = d.current
    BY DEF DeltasRecoverable
  <2>1. ASSUME NEW c \in Content, Kept(ShortId(c))
        PROVE  held[c] = ShortId(c)
    <3>1. Holds(ShortId(c))
      BY <2>1 DEF Kept, DeltaInv, VaultInv, ReferencesHeld
    <3>2. PICK x \in Held : held[x] = ShortId(c)
      BY <3>1 DEF Holds, Ids
    <3>3. ShortId(x) = ShortId(c) /\ x \in Content
      BY <3>2 DEF DeltaInv, AllShort, Held
    <3> QED
      BY <3>2, <3>3 DEF PrefixesDiffer, ShortId
  <2> QED
    BY <2>1 DEF DeltaInv, Undoable
<1> QED
  BY <1>1, DeltaInvariant, PTL

----------------------------------------------------------------------------
(* The processes of the rewriter. *)

CallShape ==
  /\ pc \in [Site -> Places]
  /\ process \in [Site -> {"none", "running", "killed", "exited"}]
  /\ output \in [Site -> {"none", "pending", "read", "abandoned"}]

\* Where a process may be alive.
RunsWhileAwaited == \A c \in Site : process[c] = "running" => IsAt(c, "waiting")

\* The output of a process is complete only after it is gone, and it is given up
\* only by a call that has killed the process.
OutputEnds ==
  \A c \in Site : output[c] \in {"read", "abandoned"} => process[c] # "running"

ProcessInv == CallShape /\ RunsWhileAwaited /\ OutputEnds

----------------------------------------------------------------------------
LEMMA InitProcesses == RewriterInit => ProcessInv
BY DEF RewriterInit, ProcessInv, CallShape, RunsWhileAwaited, OutputEnds, Places

\* What the call itself does.
LEMMA CallStep ==
  ASSUME ProcessInv, NEW c \in Site,
         \/ StartCall(c) \/ Spawn(c) \/ Finish(c) \/ TimeOut(c) \/ Reap(c) \/ Observe(c)
         \/ GiveUp(c) \/ Use(c)
  PROVE  ProcessInv'
<1> USE DEF ProcessInv, CallShape, RunsWhileAwaited, OutputEnds, Places, IsAt, Goto, Answer
<1>1. CASE StartCall(c)
  <2>1. UNCHANGED <<process, output>>
    BY <1>1 DEF StartCall
  <2>2. IsAt(c, "idle") /\ \E place \in {"ended", "spawning"} : Goto(c, place)
    BY <1>1 DEF StartCall
  <2> QED
    BY <2>1, <2>2
<1>2. CASE Spawn(c)
  BY <1>2 DEF Spawn
<1>3. CASE Finish(c)
  BY <1>3 DEF Finish
<1>4. CASE TimeOut(c)
  BY <1>4 DEF TimeOut, Kill
<1>5. CASE Reap(c)
  BY <1>5 DEF Reap
<1>6. CASE Observe(c)
  BY <1>6 DEF Observe, Cancelling, Kill
<1>7. CASE GiveUp(c)
  BY <1>7 DEF GiveUp
<1>8. CASE Use(c)
  BY <1>8 DEF Use
<1> QED
  BY <1>1, <1>2, <1>3, <1>4, <1>5, <1>6, <1>7, <1>8

\* The cancellation of its task, at each of its awaits.
LEMMA InterruptStep ==
  ASSUME ProcessInv, NEW c \in Site, Interrupt(c)
  PROVE  ProcessInv'
<1> USE DEF ProcessInv, CallShape, RunsWhileAwaited, OutputEnds, Places, IsAt, Goto, Answer
<1>1. CASE IsAt(c, "spawning")
  BY <1>1 DEF Interrupt
<1>2. CASE IsAt(c, "waiting")
  BY <1>2 DEF Interrupt, Cancelling, Kill
<1>3. CASE pc[c] \in {"reaping", "cancelling"}
  BY <1>3 DEF Interrupt, Cancelling, Kill
<1> QED
  BY <1>1, <1>2, <1>3 DEF Interrupt

\* The end of a process, by itself or killed.
LEMMA GoneStep ==
  ASSUME ProcessInv, NEW c \in Site, Gone(c)
  PROVE  ProcessInv'
BY DEF Gone, ProcessInv, CallShape, RunsWhileAwaited, OutputEnds, Places, IsAt

LEMMA ProcessStep ==
  ASSUME ProcessInv, [RewriterNext]_rewriterVars
  PROVE  ProcessInv'
<1>1. ASSUME UNCHANGED callVars
      PROVE  ProcessInv'
  BY <1>1 DEF callVars, ProcessInv, CallShape, RunsWhileAwaited, OutputEnds, IsAt
<1>2. ASSUME NEW c \in Site,
             StartCall(c) \/ Progress(c) \/ Interrupt(c) \/ Use(c) \/ Exit(c)
      PROVE  ProcessInv'
  BY <1>2, CallStep, InterruptStep, GoneStep DEF Progress, Exit, DieKilled
<1>3. ASSUME NEW i \in 1..MaxCached, Age(i)
      PROVE  ProcessInv'
  BY <1>1, <1>3 DEF Age
<1>4. CASE CancelToken \/ NextTurn
  BY <1>1, <1>4 DEF CancelToken, NextTurn
<1>5. CASE UNCHANGED rewriterVars
  BY <1>1, <1>5 DEF rewriterVars, callVars
<1> QED
  BY <1>2, <1>3, <1>4, <1>5 DEF RewriterNext

\* A process may be alive only while its call waits for it.
THEOREM RewriterProcesses == RewriterSpec => []ProcessInv
<1> QED
  BY InitProcesses, ProcessStep, PTL DEF RewriterSpec

\* No rtk process outlives the call that started it, however the call ended.
THEOREM RewriterNoProcessSurvives == RewriterSpec => []NoProcessSurvives
<1>1. ProcessInv => NoProcessSurvives
  BY DEF ProcessInv, RunsWhileAwaited, NoProcessSurvives, IsAt
<1> QED
  BY <1>1, RewriterProcesses, PTL

----------------------------------------------------------------------------
(* The answers of the rewriter and its cache. *)

Asked == {CacheKey(c) : c \in Site}

\* What the cache may hold: an answer some process has given to the question.
Truth ==
  {e \in [key : Asked, verdict : Verdict, old : BOOLEAN] : <<e.key[2], e.key[1], e.verdict>> \in said}

AnswerShape ==
  /\ answer \in [Site -> Verdict \cup {"none", "failed", "cancelled"}]
  /\ cancelled \in BOOLEAN

CacheIsTrue == cache \in Seq(Truth) /\ Len(cache) <= MaxCached

AnswerInv == AnswerShape /\ CacheIsTrue /\ AnswersAreReal

\* Taking the entry of a key out of the cache.
LEMMA WithoutShrinks ==
  ASSUME cache \in Seq(Truth), NEW key
  PROVE  /\ Without(key) \in Seq(Truth)
         /\ Len(Without(key)) <= Len(cache)
         /\ Slots(key) # {} => Len(Without(key)) = Len(cache) - 1
         /\ Slots(key) # {} => Entry(key) \in Truth /\ Entry(key).key = key
<1>1. CASE Slots(key) = {}
  BY <1>1 DEF Without
<1>2. CASE Slots(key) # {}
  <2> DEFINE i == CHOOSE k \in Slots(key) : TRUE
             before == SubSeq(cache, 1, i - 1)
             after == SubSeq(cache, i + 1, Len(cache))
  <2>1. i \in 1..Len(cache) /\ cache[i].key = key /\ Len(cache) \in Nat
    BY <1>2, LenProperties DEF Slots
  <2>2. Without(key) = before \o after /\ Entry(key) = cache[i]
    BY <1>2 DEF Without, Entry
  <2> HIDE DEF i
  <2>3. \A k \in 1..Len(cache) : cache[k] \in Truth
    BY ElementOfSeq
  <2>4. before \in Seq(Truth) /\ Len(before) = i - 1
    BY <2>1, <2>3, SubSeqProperties
  <2>5. after \in Seq(Truth) /\ Len(after) = Len(cache) - i
    BY <2>1, <2>3, SubSeqProperties
  <2> HIDE DEF before, after
  <2>6. before \o after \in Seq(Truth) /\ Len(before \o after) = Len(before) + Len(after)
    BY <2>4, <2>5, ConcatProperties
  <2>7. Len(before \o after) = Len(cache) - 1
    BY <2>1, <2>4, <2>5, <2>6
  <2> QED
    BY <1>2, <2>1, <2>2, <2>3, <2>6, <2>7
<1> QED
  BY <1>1, <1>2

\* What a process answered stays an answer.
LEMMA TruthGrows ==
  ASSUME said \subseteq said'
  PROVE  Truth \subseteq Truth'
BY DEF Truth, Asked, CacheKey

\* A step that gives call c an answer and leaves the cache true.
LEMMA AnswerKeeps ==
  ASSUME AnswerInv, NEW c \in Site, NEW a, Answer(c, a), CacheIsTrue', cancelled' \in BOOLEAN,
         said \subseteq said',
         \/ a \in {"none", "failed", "cancelled"}
         \/ a \in Verdict /\ <<CommandOf[c], DirectoryOf[c], a>> \in said'
  PROVE  AnswerInv'
<1>1. AnswerShape'
  BY DEF AnswerInv, AnswerShape, Answer
<1>2. AnswersAreReal'
  BY VerdictsAreAnswers DEF AnswerInv, AnswerShape, AnswersAreReal, Answer
<1> QED
  BY <1>1, <1>2 DEF AnswerInv

\* A step that answers nobody.
LEMMA SilenceKeeps ==
  ASSUME AnswerInv, UNCHANGED <<answer, said>>, CacheIsTrue', cancelled' \in BOOLEAN
  PROVE  AnswerInv'
BY DEF AnswerInv, AnswerShape, AnswersAreReal

LEMMA CacheStays ==
  ASSUME CacheIsTrue, UNCHANGED cache, said \subseteq said'
  PROVE  CacheIsTrue'
<1>1. Truth \subseteq Truth'
  BY TruthGrows
<1> QED
  BY <1>1, SeqMonotonic DEF CacheIsTrue

LEMMA StartTrue ==
  ASSUME AnswerInv, NEW c \in Site, StartCall(c)
  PROVE  AnswerInv'
<1> DEFINE key == CacheKey(c)
<1>1. UNCHANGED <<cancelled, said>> /\ cancelled' \in BOOLEAN /\ Truth' = Truth
  BY DEF StartCall, AnswerInv, AnswerShape, Truth, Asked, CacheKey
<1>2. CASE c \in Sharing /\ cancelled
  BY <1>1, <1>2, CacheStays, AnswerKeeps DEF StartCall, AnswerInv
<1>3. CASE ~(c \in Sharing /\ cancelled) /\ Hit(c)
  <2>1. Answer(c, Entry(key).verdict) /\ cache' = Append(Without(key), Entry(key))
    BY <1>3 DEF StartCall
  <2>2. Entry(key) \in Truth /\ Entry(key).key = key
    BY <1>3, WithoutShrinks DEF Hit, AnswerInv, CacheIsTrue
  <2>3. Entry(key).verdict \in Verdict /\ <<CommandOf[c], DirectoryOf[c], Entry(key).verdict>> \in said
    BY <2>2 DEF Truth, CacheKey
  <2>4. Without(key) \in Seq(Truth) /\ Len(Without(key)) = Len(cache) - 1 /\ Len(cache) <= MaxCached
    BY <1>3, WithoutShrinks DEF Hit, AnswerInv, CacheIsTrue
  <2>5. cache' \in Seq(Truth) /\ Len(cache') = Len(Without(key)) + 1
    BY <2>1, <2>2, <2>4, AppendProperties
  <2>6. Len(cache) \in Nat
    BY LenProperties DEF AnswerInv, CacheIsTrue
  <2>7. CacheIsTrue'
    BY <1>1, <2>4, <2>5, <2>6, MaxCachedIsANumber DEF CacheIsTrue
  <2> QED
    BY <1>1, <2>1, <2>3, <2>7, AnswerKeeps
<1>4. CASE ~(c \in Sharing /\ cancelled) /\ ~Hit(c)
  <2>1. UNCHANGED answer /\ cache' \in {cache, Without(key)}
    BY <1>4 DEF StartCall
  <2>2. Without(key) \in Seq(Truth) /\ Len(Without(key)) <= Len(cache) /\ cache \in Seq(Truth)
        /\ Len(cache) <= MaxCached
    BY WithoutShrinks DEF AnswerInv, CacheIsTrue
  <2>3. Len(cache) \in Nat /\ Len(Without(key)) \in Nat
    BY <2>2, LenProperties
  <2>4. CacheIsTrue'
    BY <1>1, <2>1, <2>2, <2>3, MaxCachedIsANumber DEF CacheIsTrue
  <2> QED
    BY <1>1, <2>1, <2>4, SilenceKeeps
<1> QED
  BY <1>2, <1>3, <1>4

LEMMA FinishTrue ==
  ASSUME AnswerInv, NEW c \in Site, Finish(c)
  PROVE  AnswerInv'
<1> DEFINE key == CacheKey(c)
<1>1. PICK v \in Verdict :
        /\ Answer(c, v)
        /\ said' = said \cup {<<CommandOf[c], DirectoryOf[c], v>>}
        /\ cache' = IF c \in Reads THEN cache ELSE CacheWith(c, v)
  BY DEF Finish
<1>2. said \subseteq said' /\ Truth \subseteq Truth' /\ cancelled' \in BOOLEAN
  BY <1>1, TruthGrows DEF Finish, AnswerInv, AnswerShape
<1>3. CacheIsTrue'
  <2>1. CASE c \in Reads
    BY <1>1, <1>2, <2>1, CacheStays DEF AnswerInv
  <2>2. CASE c \notin Reads
    <3> DEFINE e == [key |-> key, verdict |-> v, old |-> FALSE]
               all == Append(Without(key), e)
    <3>1. e \in Truth'
      BY <1>1 DEF Truth, Asked, CacheKey
    <3>2. Without(key) \in Seq(Truth') /\ Len(Without(key)) <= Len(cache) /\ Len(cache) <= MaxCached
      BY <1>2, WithoutShrinks, SeqMonotonic DEF AnswerInv, CacheIsTrue
    <3>3. Len(cache) \in Nat /\ Len(Without(key)) \in Nat
      BY <3>2, LenProperties DEF AnswerInv, CacheIsTrue
    <3>4. cache' = IF Len(all) > MaxCached THEN Tail(all) ELSE all
      BY <1>1, <2>2 DEF CacheWith
    <3> HIDE DEF e
    <3>5. all \in Seq(Truth') /\ Len(all) = Len(Without(key)) + 1 /\ all # <<>>
      BY <3>1, <3>2, AppendProperties
    <3> HIDE DEF all
    <3>6. Tail(all) \in Seq(Truth') /\ Len(Tail(all)) = Len(all) - 1
      BY <3>5, HeadTailProperties
    <3> QED
      BY <3>2, <3>3, <3>4, <3>5, <3>6, MaxCachedIsANumber DEF CacheIsTrue
  <2> QED
    BY <2>1, <2>2
<1> QED
  BY <1>1, <1>2, <1>3, AnswerKeeps

\* The other steps answer "failed", "cancelled" or nothing, and leave the cache alone.
LEMMA OtherTrue ==
  ASSUME AnswerInv, NEW c \in Site,
         \/ Spawn(c) \/ TimeOut(c) \/ Reap(c) \/ Observe(c) \/ GiveUp(c) \/ Interrupt(c)
         \/ Use(c) \/ Gone(c)
  PROVE  AnswerInv'
<1>1. UNCHANGED <<cache, said>> /\ cancelled' \in BOOLEAN
  BY DEF AnswerInv, AnswerShape, Spawn, TimeOut, Reap, Observe, Cancelling, GiveUp, Interrupt, Use,
         Gone
<1>2. CacheIsTrue' /\ said \subseteq said'
  BY <1>1, CacheStays DEF AnswerInv
<1>3. \/ \E a \in {"failed", "cancelled"} : Answer(c, a)
      \/ answer' = [answer EXCEPT ![c] = "none"]
      \/ UNCHANGED answer
  BY DEF Spawn, TimeOut, Reap, Observe, GiveUp, Interrupt, Use, Gone
<1>4. ASSUME answer' = [answer EXCEPT ![c] = "none"]
      PROVE  AnswerInv'
  BY <1>1, <1>2, <1>4, VerdictsAreAnswers DEF AnswerInv, AnswerShape, AnswersAreReal
<1> QED
  BY <1>1, <1>2, <1>3, <1>4, AnswerKeeps, SilenceKeeps

LEMMA AgeTrue ==
  ASSUME AnswerInv, NEW i \in 1..MaxCached, Age(i)
  PROVE  AnswerInv'
<1>1. UNCHANGED <<answer, cancelled, said>> /\ Truth' = Truth /\ i \in DOMAIN cache
      /\ cache' = [cache EXCEPT ![i].old = TRUE]
  BY DEF Age, callVars, Truth, Asked, CacheKey
<1>2. cache \in Seq(Truth) /\ cancelled' \in BOOLEAN /\ i \in 1..Len(cache)
  BY <1>1, LenProperties DEF AnswerInv, AnswerShape, CacheIsTrue
<1> DEFINE e == [cache[i] EXCEPT !.old = TRUE]
<1>3. cache[i] \in Truth
  BY <1>2, ElementOfSeq
<1>4. e \in Truth
  BY <1>3 DEF Truth
<1>5. cache' = [cache EXCEPT ![i] = e]
  BY <1>1
<1> HIDE DEF e
<1>6. cache' \in Seq(Truth) /\ Len(cache') = Len(cache)
  BY <1>2, <1>4, <1>5, ExceptSeq
<1>7. CacheIsTrue'
  BY <1>1, <1>6 DEF AnswerInv, CacheIsTrue
<1> QED
  BY <1>1, <1>2, <1>7, SilenceKeeps

LEMMA AnswerStep ==
  ASSUME AnswerInv, [RewriterNext]_rewriterVars
  PROVE  AnswerInv'
<1>1. ASSUME NEW c \in Site,
             StartCall(c) \/ Progress(c) \/ Interrupt(c) \/ Use(c) \/ Exit(c)
      PROVE  AnswerInv'
  BY <1>1, StartTrue, FinishTrue, OtherTrue DEF Progress, Exit, DieKilled
<1>2. ASSUME NEW i \in 1..MaxCached, Age(i)
      PROVE  AnswerInv'
  BY <1>2, AgeTrue
<1>3. CASE CancelToken \/ NextTurn \/ UNCHANGED rewriterVars
  <2>1. UNCHANGED <<answer, said, cache>> /\ cancelled' \in BOOLEAN
    BY <1>3 DEF CancelToken, NextTurn, rewriterVars, callVars, AnswerInv, AnswerShape
  <2> QED
    BY <2>1, CacheStays, SilenceKeeps DEF AnswerInv
<1> QED
  BY <1>1, <1>2, <1>3 DEF RewriterNext

LEMMA InitAnswers == RewriterInit => AnswerInv
<1> SUFFICES ASSUME RewriterInit PROVE AnswerInv
  OBVIOUS
<1>1. cache = <<>> /\ <<>> \in Seq(Truth) /\ Len(<<>>) = 0
  BY EmptySeq DEF RewriterInit
<1>2. CacheIsTrue
  BY <1>1, MaxCachedIsANumber DEF CacheIsTrue
<1>3. AnswerShape /\ \A c \in Site : answer[c] \notin Verdict
  BY VerdictsAreAnswers DEF RewriterInit, AnswerShape
<1> QED
  BY <1>2, <1>3 DEF AnswerInv, AnswersAreReal

\* Every answer, remembered or fresh, was given by a process that was asked just
\* that.
THEOREM RewriterCache == RewriterSpec => []AnswerInv
<1> QED
  BY InitAnswers, AnswerStep, PTL DEF RewriterSpec

\* A command is rewritten to what rtk said of that command in that directory
\* (rewrite.py), also out of the cache that threads and tasks fill and evict.
THEOREM RewriterAnswersAreReal == RewriterSpec => []AnswersAreReal
<1>1. AnswerInv => AnswersAreReal
  BY DEF AnswerInv
<1> QED
  BY <1>1, RewriterCache, PTL

\* The types of the rewriter, its cache within its size among them.
THEOREM RewriterTypes == RewriterSpec => []RewriterTypeOK
<1>1. ProcessInv /\ AnswerInv => RewriterTypeOK
  BY DEF ProcessInv, CallShape, AnswerInv, AnswerShape, CacheIsTrue, RewriterTypeOK
<1> QED
  BY <1>1, RewriterProcesses, RewriterCache, PTL

----------------------------------------------------------------------------
(* The types of the results, whichever prefixes digests share. *)

Shaped(w) ==
  /\ Needed \subseteq DOMAIN job[w]
  /\ job[w].session \in Session /\ job[w].key \in StateKey
  /\ job[w].result \in Content /\ job[w].who \in Caller
  /\ job[w].current \in Id \cup {NoId} /\ job[w].previous \in Id \cup {NoId}
  /\ job[w].pc # "put" => job[w].current \in Id
  /\ job[w].pc \in {"pinPrevious", "pinCurrent", "return"} => job[w].previous \in Id

ShapeInv ==
  /\ VaultInv
  /\ DOMAIN job = Worker
  /\ \A w \in Worker : ~At(w, "idle") => Shaped(w)
  /\ \A d \in deltas : d.previous \in Id /\ d.current \in Id
  /\ begun \in 0..MaxTransforms

\* A step of a worker, as far as its shape goes.
LEMMA ShapedStep ==
  ASSUME ShapeInv, VaultInv', NEW w \in Worker, ~At(w, "idle"), UNCHANGED <<deltas, begun>>,
         NEW fields, Step(w, fields),
         DOMAIN fields \subseteq {"pc", "current", "previous", "before"},
         "current" \in DOMAIN fields => fields.current \in Id,
         "previous" \in DOMAIN fields => fields.previous \in Id \cup {NoId},
         job[w].pc = "put" => "current" \in DOMAIN fields,
         "pc" \in DOMAIN fields, fields.pc # "put",
         fields.pc \in {"pinPrevious", "pinCurrent", "return"} =>
           IF "previous" \in DOMAIN fields THEN fields.previous \in Id ELSE job[w].previous \in Id
  PROVE  ShapeInv'
<1>1. DOMAIN job = Worker /\ Shaped(w)
  BY DEF ShapeInv
<1>2. job' = [job EXCEPT ![w] = With(job[w], fields)]
  BY DEF Step
<1>3. job'[w] = With(job[w], fields) /\ \A v \in Worker \ {w} : job'[v] = job[v]
  BY <1>1, <1>2
<1>4. /\ DOMAIN job'[w] = DOMAIN job[w] \cup DOMAIN fields
      /\ \A n \in DOMAIN fields : job'[w][n] = fields[n]
      /\ \A n \in DOMAIN job[w] \ DOMAIN fields : job'[w][n] = job[w][n]
  BY <1>3 DEF With
<1>5. /\ job'[w].pc = fields.pc /\ job'[w].result = job[w].result /\ job'[w].who = job[w].who
      /\ job'[w].session = job[w].session /\ job'[w].key = job[w].key
  BY <1>1, <1>4 DEF Shaped, Needed
<1>6. job'[w].current \in Id \cup {NoId} /\ job'[w].current \in Id
  BY <1>1, <1>4 DEF Shaped, Needed
<1>7. job'[w].previous \in Id \cup {NoId}
  BY <1>1, <1>4 DEF Shaped, Needed
<1>8. job'[w].pc \in {"pinPrevious", "pinCurrent", "return"} => job'[w].previous \in Id
  BY <1>1, <1>4, <1>5 DEF Shaped, Needed
<1>9. Shaped(w)'
  BY <1>1, <1>4, <1>5, <1>6, <1>7, <1>8 DEF Shaped
<1>10. \A v \in Worker : ~At(v, "idle")' => Shaped(v)'
  BY <1>3, <1>9 DEF ShapeInv, Shaped, At
<1>11. DOMAIN job' = Worker
  BY <1>1, <1>2
<1> QED BY <1>10, <1>11 DEF ShapeInv

\* A worker that stops, or gives up.
LEMMA ShapedReset ==
  ASSUME ShapeInv, VaultInv', NEW w \in Worker, Reset(w), UNCHANGED begun,
         \A d \in deltas' \ deltas : d.previous \in Id /\ d.current \in Id
  PROVE  ShapeInv'
<1>1. DOMAIN job' = Worker /\ At(w, "idle")' /\ \A v \in Worker \ {w} : job'[v] = job[v]
  BY DEF Reset, ShapeInv, At, Idle
<1>2. \A v \in Worker : ~At(v, "idle")' => Shaped(v)'
  BY <1>1 DEF ShapeInv, Shaped, At
<1> QED BY <1>1, <1>2 DEF ShapeInv

LEMMA ShapedFailOpen ==
  ASSUME ShapeInv, NEW w \in Worker, FailOpen(w)
  PROVE  ShapeInv'
<1>1. VaultInv'
  BY NextVault DEF FailOpen, ShapeInv
<1> QED BY <1>1, ShapedReset DEF FailOpen

LEMMA ShapedBegin ==
  ASSUME ShapeInv, NEW w \in Worker, NEW s \in Session, NEW k \in StateKey, NEW c \in Content, NEW who \in Caller,
         NEW native, Begin(w, s, k, c, who, native)
  PROVE  ShapeInv'
<1>1. VaultInv'
  BY NextVault DEF Begin, ShapeInv
<1>2. /\ DOMAIN job' = Worker /\ \A v \in Worker \ {w} : job'[v] = job[v]
      /\ job'[w] = [pc |-> "put", session |-> s, key |-> k, result |-> c, who |-> who,
                    native |-> native, current |-> NoId, previous |-> NoId, before |-> NoId]
  BY DEF Begin, ShapeInv
<1>3. Shaped(w)'
  BY <1>2 DEF Shaped, Needed
<1>4. \A v \in Worker : ~At(v, "idle")' => Shaped(v)'
  BY <1>2, <1>3 DEF ShapeInv, Shaped, At
<1>5. begun' \in 0..MaxTransforms /\ deltas' = deltas
  BY MaxTransformsIsANumber DEF Begin, ShapeInv
<1> QED BY <1>1, <1>2, <1>4, <1>5 DEF ShapeInv

\* put_artifact, as the transforms and everybody else call it.
LEMMA StoredShape ==
  ASSUME ShapeInv, NEW c \in Content, NEW who \in Caller, PutArtifact(c, who, {}), UNCHANGED captured
  PROVE  VaultInv' /\ IdAfterStore(c) \in Id
<1>1. VaultInv'
  BY StorePreserves DEF ShapeInv
<1>2. held' \in [Content -> Id \cup {NoId}] /\ held'[c] = IdAfterStore(c) /\ held'[c] # NoId
  BY SurvivesStore DEF PutArtifact, PutAt, ShapeInv, VaultInv
<1> QED BY <1>1, <1>2

\* The stages that look at the vault, and the one that stores.
LEMMA ShapedLook ==
  ASSUME ShapeInv, NEW w \in Worker, StoreResult(w) \/ Verify(w) \/ LookUp(w) \/ Compare(w)
  PROVE  ShapeInv'
<1>1. ~At(w, "idle") /\ Shaped(w)
  BY DEF StoreResult, Verify, LookUp, Compare, ShapeInv, At
<1>2. CASE FailOpen(w)
  BY <1>2, ShapedFailOpen
<1>3. UNCHANGED vaultVars => VaultInv'
  BY NextVault DEF ShapeInv
<1>4. CASE StoreResult(w) /\ ~FailOpen(w)
  <2>1. VaultInv' /\ IdAfterStore(job[w].result) \in Id
    BY <1>1, <1>4, StoredShape DEF StoreResult, Shaped
  <2> DEFINE fields == [pc |-> "verify", current |-> IdAfterStore(job[w].result)]
  <2>2. Step(w, fields) /\ UNCHANGED <<deltas, begun>>
    BY <1>4 DEF StoreResult
  <2>3. /\ DOMAIN fields = {"pc", "current"} /\ fields.pc = "verify" /\ fields.current \in Id
    BY <2>1
  <2> HIDE DEF fields
  <2> QED BY <1>1, <2>1, <2>2, <2>3, ShapedStep
<1>5. CASE Verify(w) /\ ~FailOpen(w)
  <2> DEFINE fields == [pc |-> IF job[w].native THEN "note" ELSE "lookup"]
  <2>1. Step(w, fields) /\ UNCHANGED <<deltas, begun>> /\ VaultInv' /\ job[w].pc = "verify"
    BY <1>3, <1>5 DEF Verify, At
  <2>2. DOMAIN fields = {"pc"} /\ fields.pc \in {"note", "lookup"}
    OBVIOUS
  <2> HIDE DEF fields
  <2> QED BY <1>1, <2>1, <2>2, ShapedStep
<1>6. CASE LookUp(w)
  <2> DEFINE fields == [pc |-> "compare", previous |-> snapshots[job[w].key]]
  <2>1. Step(w, fields) /\ UNCHANGED <<deltas, begun>> /\ VaultInv' /\ job[w].pc = "lookup"
    BY <1>3, <1>6 DEF LookUp, At
  <2>2. snapshots[job[w].key] \in Id \cup {NoId}
    BY <1>1 DEF ShapeInv, VaultInv, TypeOK, Shaped
  <2>3. DOMAIN fields = {"pc", "previous"} /\ fields.pc = "compare" /\ fields.previous \in Id \cup {NoId}
    BY <2>2
  <2> HIDE DEF fields
  <2> QED BY <1>1, <2>1, <2>3, ShapedStep
<1>7. CASE Compare(w)
  <2> DEFINE found == [pc |-> "remember", before |-> ContentOf(job[w].previous)]
             none == [pc |-> "remember", previous |-> NoId]
  <2>1. /\ Step(w, found) \/ Step(w, none)
        /\ UNCHANGED <<deltas, begun>> /\ VaultInv' /\ job[w].pc = "compare"
    BY <1>3, <1>7 DEF Compare, At
  <2>2. DOMAIN found = {"pc", "before"} /\ found.pc = "remember"
    OBVIOUS
  <2>3. DOMAIN none = {"pc", "previous"} /\ none.pc = "remember" /\ none.previous = NoId
    OBVIOUS
  <2> HIDE DEF found, none
  <2>4. CASE Step(w, found)
    BY <1>1, <2>1, <2>2, <2>4, ShapedStep
  <2>5. CASE Step(w, none)
    BY <1>1, <2>1, <2>3, <2>5, ShapedStep
  <2> QED BY <2>1, <2>4, <2>5
<1> QED BY <1>2, <1>4, <1>5, <1>6, <1>7

\* The stages that refer to artifacts, and the end of a transform.
LEMMA ShapedRefer ==
  ASSUME ShapeInv, NEW w \in Worker,
         RememberResult(w) \/ PinPrevious(w) \/ PinCurrent(w) \/ ExposeNote(w) \/ ReturnDelta(w)
  PROVE  ShapeInv'
<1>1. ~At(w, "idle") /\ Shaped(w)
  BY DEF RememberResult, PinPrevious, PinCurrent, ExposeNote, ReturnDelta, ShapeInv, At
<1>2. CASE FailOpen(w)
  BY <1>2, ShapedFailOpen
<1>3. ASSUME NEW s \in Session, NEW i, NEW r \in Request, RecordExposure(s, i, r, FALSE),
             UNCHANGED captured
      PROVE  VaultInv'
  <2>1. Expose
    BY <1>3 DEF Expose, RecordExposure, Holds
  <2> QED BY <2>1, ReferencePreserves DEF ShapeInv
<1>4. CASE RememberResult(w) /\ ~FailOpen(w)
  <2>1. Remember(job[w].key, job[w].current) /\ UNCHANGED <<captured, deltas, begun>>
    BY <1>4 DEF RememberResult
  <2>2. VaultInv'
    <3>1. Snapshot
      BY <1>1, <2>1 DEF Snapshot, Remember, Holds, Shaped
    <3> QED BY <3>1, ReferencePreserves DEF ShapeInv
  <2>3. CASE Reset(w)
    BY <2>1, <2>2, <2>3, ShapedReset
  <2>4. CASE job[w].previous # NoId /\ Step(w, [pc |-> "pinPrevious"])
    BY <1>1, <1>4, <2>1, <2>2, <2>4, ShapedStep DEF RememberResult, At, Shaped
  <2> QED BY <1>4, <2>3, <2>4 DEF RememberResult
<1>5. CASE PinPrevious(w) /\ ~FailOpen(w)
  <2>1. VaultInv' /\ Step(w, [pc |-> "pinCurrent"]) /\ UNCHANGED <<deltas, begun>>
    BY <1>1, <1>3, <1>5, DeltaKeyIsARequest DEF PinPrevious, Pin, At, Shaped
  <2> QED BY <1>1, <1>5, <2>1, ShapedStep DEF PinPrevious, At, Shaped
<1>6. CASE PinCurrent(w) /\ ~FailOpen(w)
  <2>1. VaultInv' /\ Step(w, [pc |-> "return"]) /\ UNCHANGED <<deltas, begun>>
    BY <1>1, <1>3, <1>6, DeltaKeyIsARequest DEF PinCurrent, Pin, At, Shaped
  <2> QED BY <1>1, <1>6, <2>1, ShapedStep DEF PinCurrent, At, Shaped
<1>7. CASE ExposeNote(w) /\ ~FailOpen(w)
  <2> DEFINE fields == [pc |-> "return", previous |-> job[w].current, before |-> job[w].result]
  <2>1. VaultInv' /\ Step(w, fields) /\ UNCHANGED <<deltas, begun>> /\ job[w].pc = "note"
    BY <1>1, <1>3, <1>7, ToolKeyIsARequest DEF ExposeNote, At, Shaped
  <2>2. DOMAIN fields = {"pc", "previous", "before"} /\ fields.pc = "return" /\ fields.previous \in Id
    BY <1>1, <2>1 DEF Shaped
  <2> HIDE DEF fields
  <2> QED BY <1>1, <2>1, <2>2, ShapedStep
<1>8. CASE ReturnDelta(w)
  <2>1. VaultInv'
    BY <1>8, NextVault DEF ReturnDelta, ShapeInv
  <2>2. \A d \in deltas' \ deltas : d.previous \in Id /\ d.current \in Id
    BY <1>1, <1>8 DEF ReturnDelta, At, Shaped
  <2> QED BY <1>8, <2>1, <2>2, ShapedReset DEF ReturnDelta
<1> QED BY <1>2, <1>4, <1>5, <1>6, <1>7, <1>8

LEMMA ShapeStep == ShapeInv /\ [TemporalNext]_vars => ShapeInv'
<1> SUFFICES ASSUME ShapeInv, [TemporalNext]_vars PROVE ShapeInv'
  OBVIOUS
<1>1. ASSUME UNCHANGED temporalVars, VaultInv'
      PROVE  ShapeInv'
  BY <1>1 DEF temporalVars, ShapeInv, Shaped, At
<1>2. ASSUME NEW c \in Content, NEW who \in Caller, PutElsewhere(c, who)
      PROVE  ShapeInv'
  BY <1>1, <1>2, StoredShape DEF PutElsewhere
<1>3. CASE UNCHANGED vars
  BY <1>1, <1>3, NextVault DEF vars, ShapeInv
<1>4. ASSUME NEW w \in Worker, Transform(w)
      PROVE  ShapeInv'
  BY <1>4, ShapedBegin, ShapedLook, ShapedRefer, ShapedFailOpen DEF Transform, Die
<1> QED BY <1>2, <1>3, <1>4 DEF TemporalNext

LEMMA InitShape == TemporalInit => ShapeInv
<1> SUFFICES ASSUME TemporalInit PROVE ShapeInv
  OBVIOUS
<1>1. VaultInv
  BY InitVault DEF TemporalInit
<1> QED BY <1>1, MaxTransformsIsANumber DEF TemporalInit, ShapeInv, At, Idle

\* A tool call keeps its shape on its way out and back.
THEOREM TerminalTypes == TerminalSpec => []TerminalTypeOK
<1> DEFINE Inv == ShapeInv /\ ProcessInv /\ AnswerInv
<1>1. TerminalInit => Inv
  BY InitShape, InitProcesses, InitAnswers DEF TerminalInit
<1>2. Inv /\ [TerminalNext]_<<part, vars, rewriterVars>> => Inv'
  <2> SUFFICES ASSUME Inv, [TerminalNext]_<<part, vars, rewriterVars>> PROVE Inv'
    OBVIOUS
  <2>1. [TemporalNext]_vars /\ [RewriterNext]_rewriterVars
    BY DEF TerminalNext
  <2> QED BY <2>1, ShapeStep, ProcessStep, AnswerStep
<1>3. Inv => TerminalTypeOK
  <2> SUFFICES ASSUME Inv PROVE TerminalTypeOK
    OBVIOUS
  <2>1. RewriterTypeOK
    BY DEF ProcessInv, CallShape, AnswerInv, AnswerShape, CacheIsTrue, RewriterTypeOK
  <2>2. \A w \in Worker : At(w, "pinPrevious") => job[w].previous # NoId
    BY NoIdIsNoIdentifier DEF ShapeInv, Shaped, At
  <2>3. TemporalTypeOK
    BY <2>2 DEF ShapeInv, VaultInv, Shaped, TemporalTypeOK
  <2> QED BY <2>1, <2>3 DEF TerminalTypeOK
<1> HIDE DEF Inv
<1> QED
  BY <1>1, <1>2, <1>3, PTL DEF TerminalSpec
=============================================================================
