--------------------------- MODULE ContextEngine ---------------------------
(***************************************************************************)
(* The selectable context engine of Token Terminator: the lifecycle hooks  *)
(* of history_engine.py, the execution-local binding of engine_bridge.py,  *)
(* and the calls of llm_request_middleware (v06.py) that the binding hands *)
(* to reduce_request, down to the accounting rows they leave behind.       *)
(*                                                                         *)
(* The host calls the hooks in any order and from any execution context.   *)
(* A hook, and the whole of reduce_request, runs under the engine's lock,  *)
(* so a hook is one action; the calls share one Runtime without a lock.    *)
(* A call works on the binding its execution context had when it was made: *)
(* the asynchronous facade runs it in a copy of the context.               *)
(*                                                                         *)
(* Requests are reduced or not; their bytes, scores and receipts are those *)
(* of RequestPipeline and EvidenceVault.  The tokens of every request can  *)
(* be measured, and the accounting writes succeed.                         *)
(***************************************************************************)
EXTENDS Integers, FiniteSets

CONSTANTS
  Engine, Context, Session, Request,
  Call,             \* threads of the host that call the middleware
  SessionOf,        \* request -> the session_id its calls carry
  TargetOf,         \* request -> the kind of its generation target
  MaxGeneration,    \* bound: lifecycle hooks of an engine that renew it
  None

ASSUME RequestsHaveSessions == SessionOf \in [Request -> Session]
ASSUME TargetsAreKnown == TargetOf \in [Request -> {"general", "chat"}]
ASSUME GenerationsBounded == MaxGeneration \in Nat
ASSUME ThreadsAreNotContexts == Call \cap Context = {}
ASSUME NoneIsNothing == None \notin Engine \cup Session \cup Request \cup {"kept", "saved"}

VARIABLES
  session,      \* engine -> session_id, or None
  generation,   \* engine -> generation
  unfit,        \* engine -> _capture_failed
  bound,        \* context -> Binding, or None
  call,         \* thread -> its call of llm_request_middleware
  lastTarget,   \* the state in Runtime._last_chat_target, None when {}
  tokenRow,     \* request -> request_token_metrics: None, "kept" or "saved"
  charRow,      \* request -> end_to_end_saved_chars in request_metrics
  overtaken,    \* history: contexts and threads whose binding a hook has outdated
  answers       \* history: request -> what its attempts returned, the last apart

hosts == <<session, generation, unfit, bound>>
rows == <<tokenRow, charRow>>
vars == <<hosts, call, lastTarget, rows, overtaken, answers>>

Row == {None, "kept", "saved"}
Binding == [engine : Engine, generation : 0..MaxGeneration]
Idle == [pc |-> "idle"]

\* The calls that hold the lock of the engine that owns them.
Locked == {"preserving", "accounting", "reading", "selecting", "compiling",
           "measuring", "deciding", "closing"}
Owned(c) == call[c].binding # None
Holds(c, e) == call[c].pc \in Locked /\ Owned(c) /\ call[c].binding.engine = e

\* Slip: reduce_request runs without the lock.
SlipFreeAlways(e) == TRUE

Free(e) == \A c \in Call : ~Holds(c, e)

----------------------------------------------------------------------------
(* engine_bridge.py: a context variable that holds one binding. *)

BoundTo(e) == {x \in Context : bound[x] # None /\ bound[x].engine = e}
CalledFor(e) == {c \in Call : call[c].pc # "idle" /\ Owned(c) /\ call[c].binding.engine = e}

Clear(x, e) == bound' = IF x \in BoundTo(e) THEN [bound EXCEPT ![x] = None] ELSE bound

\* What a hook that renews the engine outdates, apart from a new binding.
Outdate(e) == overtaken' = overtaken \cup BoundTo(e) \cup CalledFor(e)

----------------------------------------------------------------------------
(* Lifecycle hooks.  A capture may fail, for a missing session or in the    *)
(* vault; x is the execution context that runs the hook.                    *)

Renew(e) == generation[e] < MaxGeneration /\ generation' = [generation EXCEPT ![e] = @ + 1]

CaptureMayFail(e, s) ==
  \E failed \in BOOLEAN : (s = None => failed) /\ unfit' = [unfit EXCEPT ![e] = failed]

StartSession(x, e, s) ==
  /\ Free(e) /\ Renew(e) /\ Clear(x, e) /\ Outdate(e)
  /\ session' = [session EXCEPT ![e] = s]
  /\ unfit' = [unfit EXCEPT ![e] = FALSE]
  /\ UNCHANGED <<call, lastTarget, rows, answers>>

ResetSession(x, e) ==
  /\ Free(e) /\ Renew(e) /\ Clear(x, e) /\ Outdate(e)
  /\ session' = [session EXCEPT ![e] = None]
  /\ unfit' = [unfit EXCEPT ![e] = FALSE]
  /\ UNCHANGED <<call, lastTarget, rows, answers>>

\* Slip: a change of model leaves the selection it was made for standing.
SlipUpdateModelKeepsGeneration(x, e) ==
  /\ Free(e) /\ Clear(x, e) /\ Outdate(e)
  /\ UNCHANGED <<session, generation, unfit, call, lastTarget, rows, answers>>

UpdateModel(x, e) ==
  /\ Free(e) /\ Renew(e) /\ Clear(x, e) /\ Outdate(e)
  /\ UNCHANGED <<session, unfit, call, lastTarget, rows, answers>>

\* The source is captured before the binding is made, whether that works or not.
SelectContext(x, e) ==
  /\ Free(e) /\ Renew(e)
  /\ IF session[e] = None
     THEN Clear(x, e) /\ Outdate(e) /\ UNCHANGED unfit
     ELSE /\ CaptureMayFail(e, session[e])
          /\ bound' = [bound EXCEPT ![x] = [engine |-> e, generation |-> generation[e] + 1]]
          /\ overtaken' = (overtaken \cup BoundTo(e) \cup CalledFor(e)) \ {x}
  /\ UNCHANGED <<session, call, lastTarget, rows, answers>>

\* on_turn_complete, and on_session_end for the session the engine has.
CompleteTurn(x, e) ==
  /\ Free(e) /\ CaptureMayFail(e, session[e]) /\ Clear(x, e)
  /\ UNCHANGED <<session, generation, call, lastTarget, rows, overtaken, answers>>

EndOtherSession(x, e, s) ==
  /\ Free(e) /\ s # session[e] /\ Clear(x, e)
  /\ UNCHANGED <<session, generation, unfit, call, lastTarget, rows, overtaken, answers>>

Compress(e) ==
  /\ Free(e) /\ CaptureMayFail(e, session[e])
  /\ UNCHANGED <<session, generation, bound, call, lastTarget, rows, overtaken, answers>>

----------------------------------------------------------------------------
(* A call, from the host to its scope check. *)

Goto(c, pc) == call' = [call EXCEPT ![c].pc = pc]
Learn(c, pc, reduced, state) ==
  call' = [call EXCEPT ![c].pc = pc, ![c].reduced = reduced, ![c].state = state]

Answer(c, reduced) ==
  /\ call' = [call EXCEPT ![c] = Idle]
  /\ answers' = [answers EXCEPT ![call[c].request] =
                   [ever |-> @.ever \/ reduced, last |-> reduced]]
  /\ overtaken' = overtaken \ {c}

\* The host retries a request when its last attempt has been answered.
Begin(c, x, r) ==
  /\ call[c].pc = "idle"
  /\ \A d \in Call : call[d].pc # "idle" => call[d].request # r
  /\ call' = [call EXCEPT ![c] =
                [pc |-> "called", request |-> r, target |-> TargetOf[r], binding |-> bound[x],
                 reduced |-> FALSE, state |-> "failed_open"]]
  /\ overtaken' = (overtaken \ {c}) \cup (IF x \in overtaken THEN {c} ELSE {})
  /\ UNCHANGED <<hosts, lastTarget, rows, answers>>

\* An auxiliary, reentrant or unscoped call: nothing is touched.
OutOfScope(c) ==
  /\ call[c].pc = "called"
  /\ Answer(c, FALSE)
  /\ UNCHANGED <<hosts, lastTarget, rows>>

Enter(c) ==
  /\ call[c].pc = "called"
  /\ lastTarget' = None
  /\ Goto(c, IF Owned(c) THEN "waiting"
             ELSE IF call[c].target = "chat" THEN "preserving" ELSE "compiling")
  /\ UNCHANGED <<hosts, rows, overtaken, answers>>

----------------------------------------------------------------------------
(* reduce_request: the guards before anything is measured. *)

EngineOf(c) == call[c].binding.engine

Matches(c) ==
  /\ call[c].binding.generation = generation[EngineOf(c)]
  /\ session[EngineOf(c)] = SessionOf[call[c].request]

\* A stale binding or a failed capture; and whatever the request itself forbids, a
\* missing recovery tool, provider-side state or an unmeasurable model.
Refuse(c) ==
  /\ call[c].pc = "waiting" /\ Free(EngineOf(c))
  /\ Answer(c, FALSE)
  /\ UNCHANGED <<hosts, lastTarget, rows>>

Admit(c) ==
  /\ call[c].pc = "waiting" /\ Free(EngineOf(c))
  /\ Matches(c) /\ ~unfit[EngineOf(c)]
  /\ Goto(c, IF call[c].target = "chat" THEN "preserving" ELSE "selecting")
  /\ UNCHANGED <<hosts, lastTarget, rows, overtaken, answers>>

----------------------------------------------------------------------------
(* preserve_chat_request publishes its status in the runtime and records    *)
(* its measurements; reduce_request then reads the status back.             *)

\* The reduction works out, fails, or leaves the request alone.
Preserve(c) ==
  /\ call[c].pc = "preserving"
  /\ \E reduced \in BOOLEAN :
       \E state \in IF reduced THEN {"accepted"} ELSE {"preserved", "failed_open"} :
         /\ Learn(c, "accounting", reduced, call[c].state)
         /\ lastTarget' = state
  /\ UNCHANGED <<hosts, rows, overtaken, answers>>

RowOf(reduced) == IF reduced THEN "saved" ELSE "kept"
Record(c, reduced) == tokenRow' = [tokenRow EXCEPT ![call[c].request] = RowOf(reduced)]

AccountPreserved(c) ==
  /\ call[c].pc = "accounting"
  /\ Record(c, call[c].reduced)
  /\ IF Owned(c) THEN Goto(c, "reading") /\ UNCHANGED <<overtaken, answers>>
                 ELSE Answer(c, call[c].reduced)
  /\ UNCHANGED <<hosts, lastTarget, charRow>>

ReadTarget(c) ==
  /\ call[c].pc = "reading"
  /\ Learn(c, "closing", call[c].reduced, IF lastTarget = None THEN call[c].state ELSE lastTarget)
  /\ UNCHANGED <<hosts, lastTarget, rows, overtaken, answers>>

----------------------------------------------------------------------------
(* The general path: selection, the shared pipeline, and the final gate.    *)

SelectHistory(c) ==
  /\ call[c].pc = "selecting"
  /\ \E failed \in BOOLEAN : Goto(c, IF failed THEN "closing" ELSE "compiling")
  /\ UNCHANGED <<hosts, lastTarget, rows, overtaken, answers>>

\* _middleware_pipeline records the characters of what it was given, which for an
\* engine is the request with the selected history; its own answer is the same.
Compile(c) ==
  /\ call[c].pc = "compiling"
  /\ \E reduced \in BOOLEAN :
       /\ charRow' = [charRow EXCEPT ![call[c].request] = RowOf(reduced)]
       /\ Learn(c, "measuring", reduced, call[c].state)
  /\ UNCHANGED <<hosts, lastTarget, tokenRow, overtaken, answers>>

Measure(c) ==
  /\ call[c].pc = "measuring"
  /\ Record(c, call[c].reduced)
  /\ IF Owned(c) THEN Goto(c, "deciding") /\ UNCHANGED <<overtaken, answers>>
                 ELSE Answer(c, call[c].reduced)
  /\ UNCHANGED <<hosts, lastTarget, charRow>>

\* The complete request is smaller than the one the host sent, or it is not.
Decide(c) ==
  /\ call[c].pc = "deciding"
  /\ \E accepted \in BOOLEAN :
       /\ Record(c, accepted)
       /\ Learn(c, "closing", accepted, IF accepted THEN "accepted" ELSE "not_smaller")
  /\ UNCHANGED <<hosts, lastTarget, charRow, overtaken, answers>>

\* A receipt that cannot be read back, or any other exception.
Fail(c) ==
  /\ call[c].pc \in {"compiling", "deciding"} /\ Owned(c)
  /\ Learn(c, "closing", FALSE, call[c].state)
  /\ UNCHANGED <<hosts, lastTarget, rows, overtaken, answers>>

\* Slip: the finally block trusts what has been recorded.
SlipCloseWithoutRecord(c) ==
  /\ call[c].pc = "closing"
  /\ UNCHANGED tokenRow
  /\ Answer(c, call[c].reduced)
  /\ UNCHANGED <<hosts, lastTarget, charRow>>

\* The finally block: unless the status says that the row is right already, the
\* request is recorded as sent unchanged.
Close(c) ==
  /\ call[c].pc = "closing"
  /\ IF call[c].state \in {"accepted", "not_smaller"} THEN UNCHANGED tokenRow ELSE Record(c, FALSE)
  /\ Answer(c, call[c].reduced)
  /\ UNCHANGED <<hosts, lastTarget, charRow>>

----------------------------------------------------------------------------
Init ==
  /\ session = [e \in Engine |-> None]
  /\ generation = [e \in Engine |-> 0]
  /\ unfit = [e \in Engine |-> FALSE]
  /\ bound = [x \in Context |-> None]
  /\ call = [c \in Call |-> Idle]
  /\ lastTarget = None
  /\ tokenRow = [r \in Request |-> None]
  /\ charRow = [r \in Request |-> None]
  /\ overtaken = {}
  /\ answers = [r \in Request |-> [ever |-> FALSE, last |-> FALSE]]

Hook == \E x \in Context, e \in Engine :
          \/ \E s \in Session : StartSession(x, e, s)
          \/ \E s \in Session : EndOtherSession(x, e, s)
          \/ ResetSession(x, e) \/ UpdateModel(x, e)
          \/ SelectContext(x, e) \/ CompleteTurn(x, e) \/ Compress(e)

Middleware == \E c \in Call :
          \/ \E x \in Context, r \in Request : Begin(c, x, r)
          \/ OutOfScope(c) \/ Enter(c) \/ Refuse(c) \/ Admit(c)
          \/ Preserve(c) \/ AccountPreserved(c) \/ ReadTarget(c)
          \/ SelectHistory(c) \/ Compile(c) \/ Measure(c)
          \/ Decide(c) \/ Fail(c) \/ Close(c)

Next == Hook \/ Middleware

Spec == Init /\ [][Next]_vars

----------------------------------------------------------------------------
(* Properties. *)

CallRecord ==
  {Idle} \cup
  [pc : {"called", "waiting"} \cup Locked, request : Request, target : {"general", "chat"},
   binding : Binding \cup {None}, reduced : BOOLEAN,
   state : {"failed_open", "preserved", "accepted", "not_smaller"}]

\* The hooks and calls keep the shape of their state; an engine's lock has one
\* holder at most.
EngineTypeOK ==
  /\ session \in [Engine -> Session \cup {None}]
  /\ generation \in [Engine -> 0..MaxGeneration]
  /\ unfit \in [Engine -> BOOLEAN]
  /\ bound \in [Context -> Binding \cup {None}]
  /\ call \in [Call -> CallRecord]
  /\ lastTarget \in {None, "accepted", "preserved", "failed_open"}
  /\ tokenRow \in [Request -> Row] /\ charRow \in [Request -> Row]
  /\ overtaken \subseteq Context \cup Call
  /\ answers \in [Request -> [ever : BOOLEAN, last : BOOLEAN]]
  /\ \A c, d \in Call, e \in Engine : Holds(c, e) /\ Holds(d, e) => c = d

\* While an engine works on a request, the request is one of the session the
\* engine has, and no hook has renewed the engine since the selection the call is
\* bound to, in whatever context the hook or the call runs and however long the
\* call has been waiting for a thread (docs/CONTEXT_ENGINE.md: the binding carries
\* engine identity, session and generation).
ReductionIsCurrent ==
  \A c \in Call, e \in Engine : Holds(c, e) =>
    c \notin overtaken /\ session[e] = SessionOf[call[c].request]

Answered(r) == \A c \in Call : call[c].pc # "idle" => call[c].request # r

\* A token saving in the accounts was had: some attempt of the request went out
\* smaller (history_engine.py:307, "Never count a rejected inner saving as real
\* savings"), through the inner record, its correction, failures and retries.
SavingsAreReal ==
  \A r \in Request : Answered(r) /\ tokenRow[r] = "saved" => answers[r].ever

\* A request that went out smaller is accounted as such (token_accounting.py:15).
ReductionIsCounted ==
  \A r \in Request : Answered(r) /\ answers[r].last => tokenRow[r] = "saved"

\* The same of the character saving in request_metrics (README.md:646).
CharacterSavingsAreReal ==
  \A r \in Request : Answered(r) /\ charRow[r] = "saved" => answers[r].ever
============================================================================
