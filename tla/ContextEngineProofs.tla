------------------------ MODULE ContextEngineProofs ------------------------
(***************************************************************************)
(* For any number of engines, execution contexts, threads and requests: an *)
(* engine works only on requests of its current session, under the latest  *)
(* selection, and one at a time.                                           *)
(*                                                                         *)
(* The inductive invariant says that a binding whose generation is the     *)
(* engine's has not been overtaken: whatever renews the engine moves its   *)
(* generation past every binding made before, in every context and call.   *)
(*                                                                         *)
(* The accounts: a saving in a row of tokens was had by an answer, or is   *)
(* that of the call of its request that has yet to answer or to correct    *)
(* the row.                                                                *)
(*                                                                         *)
(* The selection of history: for any requests, limits, sizes and policies, *)
(* what is left out of a request was found low in its own light, is bound  *)
(* to its place, and is needed.  Regions and omissions are folds, of which *)
(* it is first shown that they exist and what they keep; then SelectionInv *)
(* says that the cache and every plan rest on answers of the scorer.       *)
(***************************************************************************)
EXTENDS ContextEngine, HistorySelection, FiniteSetTheorems, NaturalsInduction, WellFoundedInduction, TLAPS

\* The shape of the state, without the exclusion the lock provides.
Shape ==
  /\ session \in [Engine -> Session \cup {None}]
  /\ generation \in [Engine -> 0..MaxGeneration]
  /\ unfit \in [Engine -> BOOLEAN]
  /\ bound \in [Context -> Binding \cup {None}]
  /\ call \in [Call -> CallRecord]
  /\ lastTarget \in {None, "accepted", "preserved", "failed_open"}
  /\ tokenRow \in [Request -> Row] /\ charRow \in [Request -> Row]
  /\ overtaken \subseteq Context \cup Call
  /\ answers \in [Request -> [ever : BOOLEAN, last : BOOLEAN]]

Exclusion == \A c, d \in Call, e \in Engine : Holds(c, e) /\ Holds(d, e) => c = d

\* No binding is ahead of its engine, and one that keeps up is not overtaken.
BindingsKeepUp ==
  \A x \in Context : bound[x] # None =>
    /\ bound[x].generation <= generation[bound[x].engine]
    /\ bound[x].generation = generation[bound[x].engine] => x \notin overtaken

CallsKeepUp ==
  \A c \in Call : call[c].pc # "idle" /\ call[c].binding # None =>
    /\ call[c].binding.generation <= generation[call[c].binding.engine]
    /\ call[c].binding.generation = generation[call[c].binding.engine] => c \notin overtaken

HoldersMatch == \A c \in Call, e \in Engine : Holds(c, e) => Matches(c)

EngineInv == Shape /\ Exclusion /\ BindingsKeepUp /\ CallsKeepUp /\ HoldersMatch

----------------------------------------------------------------------------
LEMMA InitEstablishesEngineInv == Init => EngineInv
<1> SUFFICES ASSUME Init PROVE EngineInv
  OBVIOUS
<1>1. Shape
  BY GenerationsBounded DEF Init, Shape, CallRecord, Row
<1>2. Exclusion /\ HoldersMatch
  BY DEF Init, Exclusion, HoldersMatch, Holds, Locked, Idle
<1>3. BindingsKeepUp /\ CallsKeepUp
  BY DEF Init, BindingsKeepUp, CallsKeepUp, Idle
<1> QED
  BY <1>1, <1>2, <1>3 DEF EngineInv

----------------------------------------------------------------------------
(* Hooks: they run while nobody holds the engine, and leave the calls alone. *)

LEMMA HookKeepsShape ==
  ASSUME Shape, Hook
  PROVE  Shape'
<1> PICK x \in Context, e \in Engine :
       \/ \E s \in Session : StartSession(x, e, s)
       \/ \E s \in Session : EndOtherSession(x, e, s)
       \/ ResetSession(x, e) \/ UpdateModel(x, e)
       \/ SelectContext(x, e) \/ CompleteTurn(x, e) \/ Compress(e)
  BY DEF Hook
<1> USE DEF Shape, rows
<1>1. BoundTo(e) \subseteq Context /\ CalledFor(e) \subseteq Call
  BY DEF BoundTo, CalledFor
<1>2. Renew(e) => generation' \in [Engine -> 0..MaxGeneration] /\ generation[e] + 1 \in 0..MaxGeneration
  BY GenerationsBounded DEF Renew
<1>3. Clear(x, e) => bound' \in [Context -> Binding \cup {None}]
  BY DEF Clear
<1>4. ASSUME NEW s \in Session, StartSession(x, e, s) PROVE Shape'
  BY <1>1, <1>2, <1>3, <1>4 DEF StartSession, Outdate
<1>5. ASSUME NEW s \in Session, EndOtherSession(x, e, s) PROVE Shape'
  BY <1>3, <1>5 DEF EndOtherSession
<1>6. CASE ResetSession(x, e)
  BY <1>1, <1>2, <1>3, <1>6 DEF ResetSession, Outdate
<1>7. CASE UpdateModel(x, e)
  BY <1>1, <1>2, <1>3, <1>7 DEF UpdateModel, Outdate
<1>8. CASE SelectContext(x, e)
  <2>1. CASE session[e] = None
    BY <1>1, <1>2, <1>3, <1>8, <2>1 DEF SelectContext, Outdate
  <2>2. CASE session[e] # None
    BY <1>1, <1>2, <1>8, <2>2 DEF SelectContext, CaptureMayFail, Binding
  <2> QED BY <2>1, <2>2
<1>9. CASE CompleteTurn(x, e)
  BY <1>3, <1>9 DEF CompleteTurn, CaptureMayFail
<1>10. CASE Compress(e)
  BY <1>10 DEF Compress, CaptureMayFail
<1> QED
  BY <1>4, <1>5, <1>6, <1>7, <1>8, <1>9, <1>10

\* What every hook does to the bindings: it leaves the engine's generation, or
\* moves it past all bindings and counts them as overtaken.
LEMMA HookRenewsOrKeeps ==
  ASSUME Shape, Hook
  PROVE  \E x \in Context, e \in Engine :
           /\ Free(e)
           /\ call' = call
           /\ \A f \in Engine \ {e} : generation'[f] = generation[f] /\ session'[f] = session[f]
           /\ \A y \in Context \ {x} : bound'[y] = bound[y]
           /\ \/ /\ generation'[e] = generation[e] /\ session'[e] = session[e]
                 /\ overtaken' = overtaken
                 /\ bound'[x] \in {bound[x], None}
              \/ /\ generation'[e] = generation[e] + 1
                 /\ overtaken' \in {overtaken \cup BoundTo(e) \cup CalledFor(e),
                                    (overtaken \cup BoundTo(e) \cup CalledFor(e)) \ {x}}
                 /\ \/ /\ bound'[x] = [engine |-> e, generation |-> generation[e] + 1]
                       /\ x \notin overtaken'
                    \/ /\ bound'[x] \in {bound[x], None}
                       /\ overtaken' = overtaken \cup BoundTo(e) \cup CalledFor(e)
<1> PICK x \in Context, e \in Engine :
       \/ \E s \in Session : StartSession(x, e, s)
       \/ \E s \in Session : EndOtherSession(x, e, s)
       \/ ResetSession(x, e) \/ UpdateModel(x, e)
       \/ SelectContext(x, e) \/ CompleteTurn(x, e) \/ Compress(e)
  BY DEF Hook
<1> WITNESS x \in Context, e \in Engine
<1>1. Renew(e) => /\ generation'[e] = generation[e] + 1
                  /\ \A f \in Engine \ {e} : generation'[f] = generation[f]
  BY DEF Renew, Shape
<1>2. Clear(x, e) => /\ bound'[x] \in {bound[x], None}
                     /\ \A y \in Context \ {x} : bound'[y] = bound[y]
  BY DEF Clear, Shape
<1>3. CASE \E s \in Session : StartSession(x, e, s)
  BY <1>1, <1>2, <1>3 DEF StartSession, Outdate, Shape
<1>4. CASE \E s \in Session : EndOtherSession(x, e, s)
  BY <1>2, <1>4 DEF EndOtherSession
<1>5. CASE ResetSession(x, e)
  BY <1>1, <1>2, <1>5 DEF ResetSession, Outdate, Shape
<1>6. CASE UpdateModel(x, e)
  BY <1>1, <1>2, <1>6 DEF UpdateModel, Outdate
<1>7. CASE SelectContext(x, e)
  BY <1>1, <1>2, <1>7 DEF SelectContext, Outdate, Shape
<1>8. CASE CompleteTurn(x, e)
  BY <1>2, <1>8 DEF CompleteTurn
<1>9. CASE Compress(e)
  BY <1>9 DEF Compress
<1> QED
  BY <1>3, <1>4, <1>5, <1>6, <1>7, <1>8, <1>9

LEMMA HookKeepsEngineInv ==
  ASSUME EngineInv, Hook
  PROVE  EngineInv'
<1>1. Shape'
  BY HookKeepsShape DEF EngineInv
<1>2. PICK x \in Context, e \in Engine :
           /\ Free(e)
           /\ call' = call
           /\ \A f \in Engine \ {e} : generation'[f] = generation[f] /\ session'[f] = session[f]
           /\ \A y \in Context \ {x} : bound'[y] = bound[y]
           /\ \/ /\ generation'[e] = generation[e] /\ session'[e] = session[e]
                 /\ overtaken' = overtaken
                 /\ bound'[x] \in {bound[x], None}
              \/ /\ generation'[e] = generation[e] + 1
                 /\ overtaken' \in {overtaken \cup BoundTo(e) \cup CalledFor(e),
                                    (overtaken \cup BoundTo(e) \cup CalledFor(e)) \ {x}}
                 /\ \/ /\ bound'[x] = [engine |-> e, generation |-> generation[e] + 1]
                       /\ x \notin overtaken'
                    \/ /\ bound'[x] \in {bound[x], None}
                       /\ overtaken' = overtaken \cup BoundTo(e) \cup CalledFor(e)
  BY HookRenewsOrKeeps DEF EngineInv
<1>3. generation \in [Engine -> Int] /\ generation' \in [Engine -> Int]
  BY <1>1 DEF EngineInv, Shape
<1>4. Exclusion'
  BY <1>2 DEF EngineInv, Exclusion, Holds, Owned
<1>5. BindingsKeepUp'
  <2> SUFFICES ASSUME NEW y \in Context, bound'[y] # None
               PROVE  /\ bound'[y].generation <= generation'[bound'[y].engine]
                      /\ bound'[y].generation = generation'[bound'[y].engine] => y \notin overtaken'
    BY DEF BindingsKeepUp
  <2>1. bound'[y].engine \in Engine /\ bound'[y].generation \in Int
    BY <1>1 DEF Shape, Binding
  <2>2. CASE bound'[y] = bound[y]
    <3>1. /\ bound[y].generation <= generation[bound[y].engine]
          /\ bound[y].generation = generation[bound[y].engine] => y \notin overtaken
      BY <2>2 DEF EngineInv, BindingsKeepUp
    <3>2. CASE bound[y].engine = e
      BY <1>2, <1>3, <2>1, <2>2, <3>1, <3>2
    <3>3. CASE bound[y].engine # e
      <4>1. y \notin BoundTo(e) /\ y \notin CalledFor(e)
        BY <3>3, ThreadsAreNotContexts DEF BoundTo, CalledFor
      <4> QED BY <1>2, <1>3, <2>1, <2>2, <3>1, <3>3, <4>1
    <3> QED BY <3>2, <3>3
  <2>3. CASE bound'[y] # bound[y]
    <3>1. /\ y = x /\ bound'[y] = [engine |-> e, generation |-> generation[e] + 1]
          /\ x \notin overtaken'
      BY <1>2, <2>3
    <3>2. generation'[e] = generation[e] + 1
      BY <1>2, <1>3, <2>3, <3>1
    <3> QED BY <1>3, <3>1, <3>2
  <2> QED BY <2>2, <2>3
<1>6. CallsKeepUp'
  <2> SUFFICES ASSUME NEW c \in Call, call[c].pc # "idle", call[c].binding # None
               PROVE  /\ call[c].binding.generation <= generation'[call[c].binding.engine]
                      /\ call[c].binding.generation = generation'[call[c].binding.engine] => c \notin overtaken'
    BY <1>2 DEF CallsKeepUp
  <2>1. call[c].binding.engine \in Engine /\ call[c].binding.generation \in Int
    BY DEF EngineInv, Shape, CallRecord, Binding, Idle
  <2>2. /\ call[c].binding.generation <= generation[call[c].binding.engine]
        /\ call[c].binding.generation = generation[call[c].binding.engine] => c \notin overtaken
    BY DEF EngineInv, CallsKeepUp
  <2>3. CASE call[c].binding.engine = e
    BY <1>2, <1>3, <2>1, <2>2, <2>3
  <2>4. CASE call[c].binding.engine # e
    <3>1. c \notin CalledFor(e) /\ c \notin BoundTo(e)
      BY <2>4, ThreadsAreNotContexts DEF CalledFor, BoundTo
    <3> QED BY <1>2, <1>3, <2>1, <2>2, <2>4, <3>1
  <2> QED BY <2>3, <2>4
<1>7. HoldersMatch'
  <2> SUFFICES ASSUME NEW c \in Call, NEW f \in Engine, Holds(c, f)
               PROVE  Matches(c)'
    BY <1>2 DEF HoldersMatch, Holds, Owned
  <2>1. f # e
    BY <1>2 DEF Free
  <2>2. Matches(c) /\ call[c].binding.engine = f
    BY DEF EngineInv, HoldersMatch, Holds
  <2> QED
    BY <1>2, <2>1, <2>2 DEF Matches, EngineOf
<1> QED
  BY <1>1, <1>4, <1>5, <1>6, <1>7 DEF EngineInv

----------------------------------------------------------------------------
(* Calls: they leave the hosts alone, and one call at most is changed.      *)

\* A call in progress, after its first step.
Active ==
  [pc : {"called", "waiting"} \cup Locked, request : Request, target : {"general", "chat"},
   binding : Binding \cup {None}, reduced : BOOLEAN,
   state : {"failed_open", "preserved", "accepted", "not_smaller"}]

LEMMA MovesKeepCalls ==
  ASSUME Shape, NEW c \in Call, call[c].pc # "idle"
  PROVE  /\ call[c] \in Active
         /\ \A pc \in {"called", "waiting"} \cup Locked :
              Goto(c, pc) => call' \in [Call -> CallRecord] /\ call'[c] = [call[c] EXCEPT !.pc = pc]
         /\ \A pc \in {"called", "waiting"} \cup Locked, reduced \in BOOLEAN,
                state \in {"failed_open", "preserved", "accepted", "not_smaller"} :
              Learn(c, pc, reduced, state) =>
                /\ call' \in [Call -> CallRecord]
                /\ call'[c] = [call[c] EXCEPT !.pc = pc, !.reduced = reduced, !.state = state]
         /\ \A reduced \in BOOLEAN :
              Answer(c, reduced) =>
                /\ call' = [call EXCEPT ![c] = Idle]
                /\ call' \in [Call -> CallRecord]
                /\ overtaken' = overtaken \ {c}
                /\ answers' \in [Request -> [ever : BOOLEAN, last : BOOLEAN]]
<1>1. call[c] \in Active
  BY DEF Shape, CallRecord, Active, Idle
<1>2. ASSUME NEW r \in Active PROVE r \in CallRecord
  BY <1>2 DEF Active, CallRecord
<1>3. Idle \in CallRecord
  BY DEF CallRecord
<1>4. ASSUME NEW pc \in {"called", "waiting"} \cup Locked, Goto(c, pc)
      PROVE  call' \in [Call -> CallRecord] /\ call'[c] = [call[c] EXCEPT !.pc = pc]
  <2>1. [call[c] EXCEPT !.pc = pc] \in Active
    BY <1>1 DEF Active
  <2>2. call' = [call EXCEPT ![c] = [call[c] EXCEPT !.pc = pc]]
    BY <1>4 DEF Goto
  <2> QED BY <2>1, <2>2, <1>2 DEF Shape
<1>5. ASSUME NEW pc \in {"called", "waiting"} \cup Locked, NEW reduced \in BOOLEAN,
             NEW state \in {"failed_open", "preserved", "accepted", "not_smaller"},
             Learn(c, pc, reduced, state)
      PROVE  /\ call' \in [Call -> CallRecord]
             /\ call'[c] = [call[c] EXCEPT !.pc = pc, !.reduced = reduced, !.state = state]
  <2>1. [call[c] EXCEPT !.pc = pc, !.reduced = reduced, !.state = state] \in Active
    BY <1>1 DEF Active
  <2>2. call' = [call EXCEPT ![c] =
                   [call[c] EXCEPT !.pc = pc, !.reduced = reduced, !.state = state]]
    BY <1>5 DEF Learn, Shape
  <2> QED BY <2>1, <2>2, <1>2 DEF Shape
<1>6. ASSUME NEW reduced \in BOOLEAN, Answer(c, reduced)
      PROVE  /\ call' = [call EXCEPT ![c] = Idle]
             /\ call' \in [Call -> CallRecord]
             /\ overtaken' = overtaken \ {c}
             /\ answers' \in [Request -> [ever : BOOLEAN, last : BOOLEAN]]
  <2>1. call[c].request \in Request
    BY <1>1 DEF Active
  <2>2. (answers[call[c].request].ever \/ reduced) \in BOOLEAN
    BY <2>1 DEF Shape
  <2>3. answers' \in [Request -> [ever : BOOLEAN, last : BOOLEAN]]
    BY <1>6, <2>1, <2>2 DEF Answer, Shape
  <2> QED BY <1>3, <1>6, <2>3 DEF Answer, Shape
<1> QED
  BY <1>1, <1>4, <1>5, <1>6

LEMMA LearningKeepsCalls ==
  ASSUME Shape, NEW c \in Call, call[c].pc # "idle",
         NEW pc \in {"called", "waiting"} \cup Locked, NEW reduced \in BOOLEAN,
         NEW state \in {"failed_open", "preserved", "accepted", "not_smaller"},
         Learn(c, pc, reduced, state)
  PROVE  call' \in [Call -> CallRecord]
BY MovesKeepCalls, Zenon

LEMMA MiddlewareKeepsShape ==
  ASSUME Shape, Middleware
  PROVE  Shape'
<1>1. PICK c \in Call :
       \/ \E x \in Context, r \in Request : Begin(c, x, r)
       \/ OutOfScope(c) \/ Enter(c) \/ Refuse(c) \/ Admit(c)
       \/ Preserve(c) \/ AccountPreserved(c) \/ ReadTarget(c)
       \/ SelectHistory(c) \/ Compile(c) \/ Measure(c)
       \/ Decide(c) \/ Fail(c) \/ Close(c)
  BY DEF Middleware
<1> USE DEF Shape, hosts, rows
<1>2. CASE \E x \in Context, r \in Request : Begin(c, x, r)
  <2> PICK x \in Context, r \in Request : Begin(c, x, r)
    BY <1>2
  <2> DEFINE fresh == [pc |-> "called", request |-> r, target |-> TargetOf[r], binding |-> bound[x],
                       reduced |-> FALSE, state |-> "failed_open"]
  <2>1. fresh \in CallRecord
    BY TargetsAreKnown DEF CallRecord
  <2>2. call' = [call EXCEPT ![c] = fresh] /\ overtaken' \subseteq overtaken \cup {c}
    BY DEF Begin
  <2> HIDE DEF fresh
  <2> QED BY <2>1, <2>2 DEF Begin
<1>3. CASE OutOfScope(c)
  <2>1. call[c].pc # "idle"
    BY <1>3 DEF OutOfScope
  <2> QED BY MovesKeepCalls, <1>3, <2>1 DEF OutOfScope, Active
<1>4. CASE Enter(c)
  <2>1. call[c].pc # "idle"
    BY <1>4 DEF Enter
  <2> QED BY MovesKeepCalls, <1>4, <2>1 DEF Enter, Locked, Active
<1>5. CASE Refuse(c)
  <2>1. call[c].pc # "idle"
    BY <1>5 DEF Refuse
  <2> QED BY MovesKeepCalls, <1>5, <2>1 DEF Refuse, Active
<1>6. CASE Admit(c)
  <2>1. call[c].pc # "idle"
    BY <1>6 DEF Admit
  <2> QED BY MovesKeepCalls, <1>6, <2>1 DEF Admit, Locked, Active
<1>7. CASE Preserve(c)
  <2>1. call[c].pc # "idle" /\ call[c] \in Active
    BY MovesKeepCalls, <1>7 DEF Preserve
  <2>2. PICK reduced \in BOOLEAN :
         \E state \in {"accepted", "preserved", "failed_open"} :
           Learn(c, "accounting", reduced, call[c].state) /\ lastTarget' = state
    BY <1>7 DEF Preserve
  <2>3. call[c].state \in {"failed_open", "preserved", "accepted", "not_smaller"}
    BY <2>1 DEF Active
  <2>4. call' \in [Call -> CallRecord]
    BY LearningKeepsCalls, <2>1, <2>2, <2>3 DEF Locked
  <2> QED BY <1>7, <2>2, <2>4 DEF Preserve
<1>8. CASE AccountPreserved(c)
  <2>1. call[c].pc # "idle" /\ call[c] \in Active
    BY MovesKeepCalls, <1>8 DEF AccountPreserved
  <2>2. call[c].reduced \in BOOLEAN
    BY <2>1 DEF Active
  <2>3. \/ Goto(c, "reading") /\ UNCHANGED <<overtaken, answers>>
        \/ Answer(c, call[c].reduced)
    BY <1>8 DEF AccountPreserved
  <2>4. /\ call' \in [Call -> CallRecord] /\ overtaken' \subseteq overtaken
        /\ answers' \in [Request -> [ever : BOOLEAN, last : BOOLEAN]]
    BY MovesKeepCalls, <2>1, <2>2, <2>3 DEF Locked
  <2>5. tokenRow' \in [Request -> Row]
    BY <1>8 DEF AccountPreserved, Record, RowOf, Row
  <2> QED BY <1>8, <2>4, <2>5 DEF AccountPreserved
<1>9. CASE ReadTarget(c)
  <2>1. call[c].pc # "idle" /\ call[c] \in Active
    BY MovesKeepCalls, <1>9 DEF ReadTarget
  <2>2. /\ (IF lastTarget = None THEN call[c].state ELSE lastTarget) \in
             {"failed_open", "preserved", "accepted", "not_smaller"}
         /\ call[c].reduced \in BOOLEAN
    BY <2>1 DEF Active
  <2>3. call' \in [Call -> CallRecord]
    BY LearningKeepsCalls, <1>9, <2>1, <2>2 DEF ReadTarget, Locked
  <2> QED BY <1>9, <2>3 DEF ReadTarget
<1>10. CASE SelectHistory(c)
  <2>1. call[c].pc # "idle"
    BY <1>10 DEF SelectHistory
  <2> QED BY MovesKeepCalls, <1>10, <2>1 DEF SelectHistory, Locked, Active
<1>11. CASE Compile(c)
  <2>1. call[c].pc # "idle" /\ call[c] \in Active
    BY MovesKeepCalls, <1>11 DEF Compile
  <2>2. PICK reduced \in BOOLEAN :
         /\ charRow' = [charRow EXCEPT ![call[c].request] = RowOf(reduced)]
         /\ Learn(c, "measuring", reduced, call[c].state)
    BY <1>11 DEF Compile
  <2>3. call[c].state \in {"failed_open", "preserved", "accepted", "not_smaller"}
    BY <2>1 DEF Active
  <2>4. call' \in [Call -> CallRecord]
    BY LearningKeepsCalls, <2>1, <2>2, <2>3 DEF Locked
  <2>5. charRow' \in [Request -> Row]
    BY <2>2 DEF RowOf, Row
  <2> QED BY <1>11, <2>4, <2>5 DEF Compile
<1>12. CASE Measure(c)
  <2>1. call[c].pc # "idle" /\ call[c] \in Active
    BY MovesKeepCalls, <1>12 DEF Measure
  <2>2. call[c].reduced \in BOOLEAN
    BY <2>1 DEF Active
  <2>3. \/ Goto(c, "deciding") /\ UNCHANGED <<overtaken, answers>>
        \/ Answer(c, call[c].reduced)
    BY <1>12 DEF Measure
  <2>4. /\ call' \in [Call -> CallRecord] /\ overtaken' \subseteq overtaken
        /\ answers' \in [Request -> [ever : BOOLEAN, last : BOOLEAN]]
    BY MovesKeepCalls, <2>1, <2>2, <2>3 DEF Locked
  <2>5. tokenRow' \in [Request -> Row]
    BY <1>12 DEF Measure, Record, RowOf, Row
  <2> QED BY <1>12, <2>4, <2>5 DEF Measure
<1>13. CASE Decide(c)
  <2>1. call[c].pc # "idle" /\ call[c] \in Active
    BY MovesKeepCalls, <1>13 DEF Decide
  <2>2. PICK accepted \in BOOLEAN :
         /\ Record(c, accepted)
         /\ Learn(c, "closing", accepted, IF accepted THEN "accepted" ELSE "not_smaller")
    BY <1>13 DEF Decide
  <2>3. call' \in [Call -> CallRecord]
    BY LearningKeepsCalls, <2>1, <2>2 DEF Locked
  <2>4. tokenRow' \in [Request -> Row]
    BY <2>2 DEF Record, RowOf, Row
  <2> QED BY <1>13, <2>3, <2>4 DEF Decide
<1>14. CASE Fail(c)
  <2>1. call[c].pc # "idle" /\ call[c] \in Active
    BY MovesKeepCalls, <1>14 DEF Fail
  <2>2. call[c].state \in {"failed_open", "preserved", "accepted", "not_smaller"}
    BY <2>1 DEF Active
  <2>3. call' \in [Call -> CallRecord]
    BY MovesKeepCalls, <1>14, <2>1, <2>2 DEF Fail, Locked
  <2> QED BY <1>14, <2>3 DEF Fail
<1>15. CASE Close(c)
  <2>1. call[c].pc # "idle" /\ call[c] \in Active /\ Answer(c, call[c].reduced)
    BY MovesKeepCalls, <1>15 DEF Close
  <2>2. call[c].reduced \in BOOLEAN
    BY <2>1 DEF Active
  <2>3. /\ call' \in [Call -> CallRecord] /\ overtaken' = overtaken \ {c}
        /\ answers' \in [Request -> [ever : BOOLEAN, last : BOOLEAN]]
    BY MovesKeepCalls, <2>1, <2>2
  <2>4. tokenRow' \in [Request -> Row]
    BY <1>15 DEF Close, Record, RowOf, Row
  <2> QED BY <1>15, <2>3, <2>4 DEF Close
<1> QED
  BY <1>1, <1>2, <1>3, <1>4, <1>5, <1>6, <1>7, <1>8, <1>9, <1>10, <1>11, <1>12, <1>13, <1>14, <1>15

\* What every step of a call does: it ends the call, begins it with the binding of
\* some context, or moves it on; only a matching call gets hold of an engine.
Ends(c) == call' = [call EXCEPT ![c] = Idle] /\ overtaken' = overtaken \ {c}

Starts(c) == \E x \in Context :
  /\ call'[c].pc = "called" /\ call'[c].binding = bound[x]
  /\ overtaken' = (overtaken \ {c}) \cup (IF x \in overtaken THEN {c} ELSE {})

Moves(c) ==
  /\ call[c].pc # "idle"
  /\ call'[c].binding = call[c].binding /\ call'[c].request = call[c].request
  /\ overtaken' = overtaken
  /\ call'[c].pc \in Locked /\ Owned(c) /\ call[c].pc \notin Locked
       => Free(EngineOf(c)) /\ Matches(c)

LEMMA MiddlewareEndsStartsOrMoves ==
  ASSUME Shape, Middleware
  PROVE  /\ hosts' = hosts
         /\ \E c \in Call : /\ \A d \in Call : d # c => call'[d] = call[d]
                            /\ Ends(c) \/ Starts(c) \/ Moves(c)
<1>1. PICK c \in Call :
       \/ \E x \in Context, r \in Request : Begin(c, x, r)
       \/ OutOfScope(c) \/ Enter(c) \/ Refuse(c) \/ Admit(c)
       \/ Preserve(c) \/ AccountPreserved(c) \/ ReadTarget(c)
       \/ SelectHistory(c) \/ Compile(c) \/ Measure(c)
       \/ Decide(c) \/ Fail(c) \/ Close(c)
  BY DEF Middleware
<1>2. hosts' = hosts
  BY <1>1 DEF Begin, OutOfScope, Enter, Refuse, Admit, Preserve, AccountPreserved, ReadTarget,
              SelectHistory, Compile, Measure, Decide, Fail, Close
<1>3. ASSUME NEW reduced, Answer(c, reduced)
      PROVE  Ends(c) /\ \A d \in Call : d # c => call'[d] = call[d]
  BY <1>3 DEF Answer, Ends, Shape
<1>4. ASSUME NEW pc, Goto(c, pc), call[c].pc # "idle"
      PROVE  /\ call'[c].pc = pc /\ call'[c].binding = call[c].binding
             /\ call'[c].request = call[c].request
             /\ \A d \in Call : d # c => call'[d] = call[d]
  <2>1. call' = [call EXCEPT ![c] = [call[c] EXCEPT !.pc = pc]] /\ call[c] \in Active
    BY <1>4, MovesKeepCalls DEF Goto
  <2> QED BY <2>1 DEF Shape, Active
<1>5. ASSUME NEW pc, NEW reduced, NEW state, Learn(c, pc, reduced, state),
             call[c].pc # "idle"
      PROVE  /\ call'[c].pc = pc /\ call'[c].binding = call[c].binding
             /\ call'[c].request = call[c].request
             /\ \A d \in Call : d # c => call'[d] = call[d]
  <2>1. call[c] \in Active
    BY <1>5, MovesKeepCalls
  <2>2. call' = [call EXCEPT ![c] =
                   [call[c] EXCEPT !.pc = pc, !.reduced = reduced, !.state = state]]
    BY <1>5 DEF Learn, Shape
  <2> QED BY <2>1, <2>2 DEF Shape, Active
<1> SUFFICES /\ \A d \in Call : d # c => call'[d] = call[d]
             /\ Ends(c) \/ Starts(c) \/ Moves(c)
  BY <1>2
<1>6. CASE \E x \in Context, r \in Request : Begin(c, x, r)
  BY <1>6 DEF Begin, Starts, Shape
<1>7. CASE OutOfScope(c) \/ Refuse(c) \/ Close(c)
  BY <1>3, <1>7 DEF OutOfScope, Refuse, Close
<1>8. CASE Enter(c)
  BY <1>4, <1>8 DEF Enter, Moves, Owned, Locked
<1>9. CASE Admit(c)
  BY <1>4, <1>9 DEF Admit, Moves
<1>10. CASE Preserve(c)
  BY <1>5, <1>10 DEF Preserve, Moves, Owned, Locked
<1>11. CASE AccountPreserved(c)
  BY <1>3, <1>4, <1>11 DEF AccountPreserved, Moves, Owned, Locked
<1>12. CASE ReadTarget(c)
  BY <1>5, <1>12 DEF ReadTarget, Moves, Owned, Locked
<1>13. CASE SelectHistory(c)
  BY <1>4, <1>13 DEF SelectHistory, Moves, Owned, Locked
<1>14. CASE Compile(c)
  BY <1>5, <1>14 DEF Compile, Moves, Owned, Locked
<1>15. CASE Measure(c)
  BY <1>3, <1>4, <1>15 DEF Measure, Moves, Owned, Locked
<1>16. CASE Decide(c)
  BY <1>5, <1>16 DEF Decide, Moves, Owned, Locked
<1>17. CASE Fail(c)
  BY <1>5, <1>17 DEF Fail, Moves, Owned, Locked
<1> QED
  BY <1>1, <1>6, <1>7, <1>8, <1>9, <1>10, <1>11, <1>12, <1>13, <1>14, <1>15, <1>16, <1>17

LEMMA MiddlewareKeepsEngineInv ==
  ASSUME EngineInv, Middleware
  PROVE  EngineInv'
<1>1. Shape'
  BY MiddlewareKeepsShape DEF EngineInv
<1>2. /\ session' = session /\ generation' = generation /\ bound' = bound
  BY MiddlewareEndsStartsOrMoves DEF EngineInv, hosts
<1>3. PICK c \in Call : /\ \A d \in Call : d # c => call'[d] = call[d]
                        /\ Ends(c) \/ Starts(c) \/ Moves(c)
  BY MiddlewareEndsStartsOrMoves DEF EngineInv
<1>4. ASSUME NEW e \in Engine, Holds(c, e)'
      PROVE  /\ Moves(c) /\ call[c].binding = call'[c].binding /\ EngineOf(c) = e
             /\ Holds(c, e) \/ (Free(e) /\ Matches(c))
  <2>1. call'[c].pc \in Locked /\ call'[c].binding # None /\ call'[c].binding.engine = e
    BY <1>4 DEF Holds, Owned
  <2>2. ~Ends(c) /\ ~Starts(c)
    BY <2>1 DEF Ends, Starts, Locked, Idle, EngineInv, Shape
  <2> QED BY <1>3, <2>1, <2>2 DEF Moves, Holds, Owned, EngineOf
<1>5. ASSUME NEW d \in Call \ {c}, NEW e \in Engine, Holds(d, e)'
      PROVE  Holds(d, e)
  <2>1. call'[d] = call[d]
    BY <1>3
  <2> QED BY <1>5, <2>1 DEF Holds, Owned
<1>6. Exclusion'
  <2> SUFFICES ASSUME NEW d1 \in Call, NEW d2 \in Call, NEW e \in Engine,
                      Holds(d1, e)', Holds(d2, e)'
               PROVE  d1 = d2
    BY DEF Exclusion
  <2>1. CASE d1 # c /\ d2 # c
    BY <1>5, <2>1 DEF EngineInv, Exclusion
  <2>2. CASE d1 = c /\ d2 # c
    BY <1>4, <1>5, <2>2 DEF EngineInv, Exclusion, Free
  <2>3. CASE d1 # c /\ d2 = c
    BY <1>4, <1>5, <2>3 DEF EngineInv, Exclusion, Free
  <2> QED BY <2>1, <2>2, <2>3
<1>7. overtaken' \ {c} = overtaken \ {c}
  BY <1>3 DEF Ends, Starts, Moves
<1>8. BindingsKeepUp'
  BY <1>2, <1>7, ThreadsAreNotContexts DEF EngineInv, BindingsKeepUp
<1>9. CallsKeepUp'
  <2> SUFFICES ASSUME NEW d \in Call, call'[d].pc # "idle", call'[d].binding # None
               PROVE  /\ call'[d].binding.generation <= generation[call'[d].binding.engine]
                      /\ call'[d].binding.generation = generation[call'[d].binding.engine]
                           => d \notin overtaken'
    BY <1>2 DEF CallsKeepUp
  <2>1. CASE d # c
    <3>1. call'[d] = call[d] /\ (d \in overtaken' <=> d \in overtaken)
      BY <1>3, <1>7, <2>1
    <3> QED BY <3>1 DEF EngineInv, CallsKeepUp
  <2>2. CASE d = c /\ Ends(c)
    BY <2>2 DEF Ends, EngineInv, Shape, Idle
  <2>3. CASE d = c /\ Starts(c)
    BY <2>3 DEF Starts, EngineInv, BindingsKeepUp
  <2>4. CASE d = c /\ Moves(c)
    BY <2>4 DEF Moves, EngineInv, CallsKeepUp
  <2> QED BY <1>3, <2>1, <2>2, <2>3, <2>4
<1>10. HoldersMatch'
  <2> SUFFICES ASSUME NEW d \in Call, NEW e \in Engine, Holds(d, e)'
               PROVE  Matches(d)'
    BY DEF HoldersMatch
  <2>1. CASE d # c
    <3>1. call'[d] = call[d]
      BY <1>3, <2>1
    <3>2. Matches(d)
      BY <1>5, <2>1 DEF EngineInv, HoldersMatch
    <3> QED BY <1>2, <3>1, <3>2 DEF Matches, EngineOf
  <2>2. CASE d = c
    <3>1. Matches(c) /\ call'[c].binding = call[c].binding /\ call'[c].request = call[c].request
      BY <1>4, <2>2 DEF EngineInv, HoldersMatch, Moves
    <3> QED BY <1>2, <2>2, <3>1 DEF Matches, EngineOf
  <2> QED BY <2>1, <2>2
<1> QED
  BY <1>1, <1>6, <1>8, <1>9, <1>10 DEF EngineInv

LEMMA StutteringKeepsEngineInv ==
  ASSUME EngineInv, UNCHANGED vars
  PROVE  EngineInv'
<1> USE DEF vars, hosts, rows
<1>1. Shape'
  BY DEF EngineInv, Shape
<1>2. Exclusion' /\ HoldersMatch'
  BY DEF EngineInv, Exclusion, HoldersMatch, Holds, Owned, Matches, EngineOf
<1>3. BindingsKeepUp' /\ CallsKeepUp'
  BY DEF EngineInv, BindingsKeepUp, CallsKeepUp
<1> QED
  BY <1>1, <1>2, <1>3 DEF EngineInv

----------------------------------------------------------------------------
(* The accounts: what still stands between a saving in them and an answer.  *)

\* One call at most works on a request, and its status is the initial one until the
\* end of its reduction is known.
UniqueCalls ==
  \A c, d \in Call :
    call[c].pc # "idle" /\ call[d].pc # "idle" /\ call[c].request = call[d].request => c = d

StateFresh ==
  \A c \in Call : call[c].pc \notin {"idle", "closing"} => call[c].state = "failed_open"

\* The call will answer with the reduction it has, or correct the row before it ends.
Pending(c) ==
  \/ call[c].pc = "reading" /\ call[c].reduced
  \/ call[c].pc = "deciding"
  \/ /\ call[c].pc = "closing"
     /\ call[c].reduced \/ call[c].state \notin {"accepted", "not_smaller"}

Explained(r) ==
  \/ answers[r].ever
  \/ \E c \in Call : call[c].pc # "idle" /\ call[c].request = r /\ Pending(c)

Savings == \A r \in Request : tokenRow[r] = "saved" => Explained(r)

SavingInv == Shape /\ UniqueCalls /\ StateFresh /\ Savings

LEMMA SavedRowsArePendingOrHad ==
  ASSUME SavingInv, NEW c \in Call, call[c].pc # "idle", tokenRow[call[c].request] = "saved"
  PROVE  answers[call[c].request].ever \/ Pending(c)
<1>1. call[c].request \in Request
  BY DEF SavingInv, Shape, CallRecord, Idle
<1>2. Explained(call[c].request)
  BY <1>1 DEF SavingInv, Savings
<1> QED
  BY <1>2 DEF Explained, SavingInv, UniqueCalls

\* What a step of call c does to the accounts, r being the request it works on.
Settles(c, r) ==
  /\ \A d \in Call \ {c} : call'[d] = call[d]
  /\ \A q \in Request \ {r} : tokenRow'[q] = tokenRow[q] /\ answers'[q] = answers[q]
  /\ call[c].pc # "idle" => call[c].request = r
  /\ call'[c].pc # "idle" =>
       /\ call'[c].request = r
       /\ call[c].pc # "idle" \/ \A d \in Call : call[d].pc # "idle" => call[d].request # r
  /\ call'[c].pc \notin {"idle", "closing"} => call'[c].state = "failed_open"
  /\ tokenRow'[r] = "saved" => answers'[r].ever \/ (call'[c].pc # "idle" /\ Pending(c)')

LEMMA BeginSettles ==
  ASSUME SavingInv, NEW c \in Call, NEW x \in Context, NEW r \in Request, Begin(c, x, r)
  PROVE  Settles(c, r)
<1>1. /\ call[c].pc = "idle" /\ \A d \in Call : call[d].pc # "idle" => call[d].request # r
      /\ tokenRow' = tokenRow /\ answers' = answers
  BY DEF Begin, rows
<1>2. /\ call'[c].pc = "called" /\ call'[c].request = r /\ call'[c].state = "failed_open"
      /\ \A d \in Call \ {c} : call'[d] = call[d]
  BY DEF Begin, SavingInv, Shape
<1>3. tokenRow[r] = "saved" => answers[r].ever
  BY <1>1 DEF SavingInv, Savings, Explained
<1> QED
  BY <1>1, <1>2, <1>3 DEF Settles

\* An answer with a reduction explains the row; one without leaves it explained.
LEMMA AnswerSettles ==
  ASSUME SavingInv, NEW c \in Call, call[c].pc # "idle", NEW reduced \in BOOLEAN,
         Answer(c, reduced),
         \/ Record(c, reduced) \/ Record(c, FALSE)
         \/ tokenRow' = tokenRow /\ (reduced \/ ~Pending(c))
  PROVE  Settles(c, call[c].request)
<1>1. call[c].request \in Request
  BY DEF SavingInv, Shape, CallRecord, Idle
<1>2. /\ call'[c].pc = "idle" /\ \A d \in Call \ {c} : call'[d] = call[d]
  BY DEF Answer, SavingInv, Shape, Idle
<1>3. /\ \A q \in Request \ {call[c].request} :
           tokenRow'[q] = tokenRow[q] /\ answers'[q] = answers[q]
      /\ answers'[call[c].request].ever = (answers[call[c].request].ever \/ reduced)
  BY <1>1 DEF Answer, Record, SavingInv, Shape
<1>4. ASSUME tokenRow'[call[c].request] = "saved"
      PROVE  answers[call[c].request].ever \/ reduced
  <2>1. CASE tokenRow' = tokenRow /\ (reduced \/ ~Pending(c))
    BY <1>4, <2>1, SavedRowsArePendingOrHad
  <2>2. CASE Record(c, reduced) \/ Record(c, FALSE)
    BY <1>1, <1>4, <2>2 DEF Record, RowOf, SavingInv, Shape
  <2> QED BY <2>1, <2>2
<1> QED
  BY <1>2, <1>3, <1>4 DEF Settles

\* A step that moves its call on and may record a row.
LEMMA MoveSettles ==
  ASSUME SavingInv, NEW c \in Call, call[c].pc # "idle", answers' = answers,
         \A d \in Call \ {c} : call'[d] = call[d],
         call'[c].pc # "idle", call'[c].request = call[c].request,
         call'[c].pc # "closing" => call'[c].state = "failed_open",
         NEW reduced \in BOOLEAN,
         \/ tokenRow' = tokenRow /\ (Pending(c) => Pending(c)')
         \/ Record(c, reduced) /\ (reduced => Pending(c)')
  PROVE  Settles(c, call[c].request)
<1>1. call[c].request \in Request
  BY DEF SavingInv, Shape, CallRecord, Idle
<1>2. \A q \in Request \ {call[c].request} : tokenRow'[q] = tokenRow[q]
  BY <1>1 DEF Record, SavingInv, Shape
<1>3. ASSUME tokenRow'[call[c].request] = "saved"
      PROVE  answers[call[c].request].ever \/ Pending(c)'
  <2>1. CASE tokenRow' = tokenRow /\ (Pending(c) => Pending(c)')
    BY <1>3, <2>1, SavedRowsArePendingOrHad
  <2>2. CASE Record(c, reduced) /\ (reduced => Pending(c)')
    BY <1>1, <1>3, <2>2 DEF Record, RowOf, SavingInv, Shape
  <2> QED BY <2>1, <2>2
<1> QED
  BY <1>2, <1>3 DEF Settles

LEMMA MiddlewareSettles ==
  ASSUME SavingInv, Middleware
  PROVE  \E c \in Call, r \in Request : Settles(c, r)
<1>1. PICK c \in Call :
       \/ \E x \in Context, r \in Request : Begin(c, x, r)
       \/ OutOfScope(c) \/ Enter(c) \/ Refuse(c) \/ Admit(c)
       \/ Preserve(c) \/ AccountPreserved(c) \/ ReadTarget(c)
       \/ SelectHistory(c) \/ Compile(c) \/ Measure(c)
       \/ Decide(c) \/ Fail(c) \/ Close(c)
  BY DEF Middleware
<1>2. CASE \E x \in Context, r \in Request : Begin(c, x, r)
  BY <1>2, BeginSettles
<1>3. CASE call[c].pc # "idle" /\ ~(\E x \in Context, r \in Request : Begin(c, x, r))
  <2>1. /\ call[c].request \in Request /\ call[c].reduced \in BOOLEAN
        /\ call[c].pc # "closing" => call[c].state = "failed_open"
    BY <1>3 DEF SavingInv, Shape, CallRecord, Idle, StateFresh
  <2>2. ASSUME NEW pc, Goto(c, pc)
        PROVE  /\ call'[c].pc = pc /\ call'[c].request = call[c].request
               /\ call'[c].state = call[c].state /\ call'[c].reduced = call[c].reduced
               /\ \A d \in Call \ {c} : call'[d] = call[d]
    <3>1. call' = [call EXCEPT ![c] = [call[c] EXCEPT !.pc = pc]] /\ call[c] \in Active
      BY <1>3, <2>2, MovesKeepCalls DEF Goto, SavingInv
    <3> QED BY <3>1 DEF SavingInv, Shape, Active
  <2>3. ASSUME NEW pc, NEW reduced, NEW state, Learn(c, pc, reduced, state)
        PROVE  /\ call'[c].pc = pc /\ call'[c].request = call[c].request
               /\ call'[c].state = state /\ call'[c].reduced = reduced
               /\ \A d \in Call \ {c} : call'[d] = call[d]
    <3>1. call[c] \in Active
      BY <1>3, MovesKeepCalls DEF SavingInv
    <3>2. call' = [call EXCEPT ![c] =
                     [call[c] EXCEPT !.pc = pc, !.reduced = reduced, !.state = state]]
      BY <2>3 DEF Learn, SavingInv, Shape
    <3> QED BY <3>1, <3>2 DEF SavingInv, Shape, Active
  <2>4. CASE OutOfScope(c)
    <3>1. /\ Answer(c, FALSE) /\ tokenRow' = tokenRow /\ ~Pending(c)
      BY <2>4 DEF OutOfScope, rows, Pending
    <3>2. Settles(c, call[c].request)
      BY <1>3, <3>1, AnswerSettles
    <3> QED BY <2>1, <3>2
  <2>5. CASE Refuse(c)
    <3>1. /\ Answer(c, FALSE) /\ tokenRow' = tokenRow /\ ~Pending(c)
      BY <2>5 DEF Refuse, rows, Pending
    <3>2. Settles(c, call[c].request)
      BY <1>3, <3>1, AnswerSettles
    <3> QED BY <2>1, <3>2
  <2>6. CASE Enter(c)
    <3>1. /\ \E pc \in {"waiting", "preserving", "compiling"} : Goto(c, pc)
          /\ answers' = answers /\ tokenRow' = tokenRow /\ ~Pending(c) /\ call[c].pc = "called"
      BY <2>6 DEF Enter, rows, Pending
    <3>2. Settles(c, call[c].request)
      BY <1>3, <2>1, <2>2, <3>1, MoveSettles
    <3> QED BY <2>1, <3>2
  <2>7. CASE Admit(c)
    <3>1. /\ \E pc \in {"preserving", "selecting"} : Goto(c, pc)
          /\ answers' = answers /\ tokenRow' = tokenRow /\ ~Pending(c) /\ call[c].pc = "waiting"
      BY <2>7 DEF Admit, rows, Pending
    <3>2. Settles(c, call[c].request)
      BY <1>3, <2>1, <2>2, <3>1, MoveSettles
    <3> QED BY <2>1, <3>2
  <2>8. CASE Preserve(c)
    <3>1. /\ \E reduced \in BOOLEAN : Learn(c, "accounting", reduced, call[c].state)
          /\ answers' = answers /\ tokenRow' = tokenRow /\ ~Pending(c)
          /\ call[c].pc = "preserving"
      BY <2>8 DEF Preserve, rows, Pending
    <3>2. Settles(c, call[c].request)
      BY <1>3, <2>1, <2>3, <3>1, MoveSettles
    <3> QED BY <2>1, <3>2
  <2>9. CASE AccountPreserved(c)
    <3>1. /\ call[c].pc = "accounting" /\ Record(c, call[c].reduced)
          /\ \/ Goto(c, "reading") /\ answers' = answers
             \/ Answer(c, call[c].reduced)
      BY <2>9 DEF AccountPreserved
    <3>2. CASE Goto(c, "reading") /\ answers' = answers
      <4>1. call'[c].reduced => Pending(c)'
        BY <2>2, <3>2 DEF Pending
      <4> QED BY <1>3, <2>1, <2>2, <3>1, <3>2, <4>1, MoveSettles
    <3>3. CASE Answer(c, call[c].reduced)
      <4>1. ~Pending(c)
        BY <3>1 DEF Pending
      <4> QED BY <1>3, <2>1, <3>1, <3>3, <4>1, AnswerSettles
    <3> QED BY <3>1, <3>2, <3>3
  <2>10. CASE ReadTarget(c)
    <3>1. PICK state : Learn(c, "closing", call[c].reduced, state)
      BY <2>10 DEF ReadTarget
    <3>2. /\ call[c].pc = "reading" /\ answers' = answers /\ tokenRow' = tokenRow
      BY <2>10 DEF ReadTarget, rows
    <3>3. Pending(c) => Pending(c)'
      BY <2>3, <3>1, <3>2 DEF Pending
    <3>4. Settles(c, call[c].request)
      BY <1>3, <2>1, <2>3, <3>1, <3>2, <3>3, MoveSettles
    <3> QED BY <2>1, <3>4
  <2>11. CASE SelectHistory(c)
    <3>1. /\ \E pc \in {"closing", "compiling"} : Goto(c, pc)
          /\ answers' = answers /\ tokenRow' = tokenRow /\ ~Pending(c)
          /\ call[c].pc = "selecting"
      BY <2>11 DEF SelectHistory, rows, Pending
    <3>2. Settles(c, call[c].request)
      BY <1>3, <2>1, <2>2, <3>1, MoveSettles
    <3> QED BY <2>1, <3>2
  <2>12. CASE Compile(c)
    <3>1. /\ \E reduced \in BOOLEAN : Learn(c, "measuring", reduced, call[c].state)
          /\ answers' = answers /\ tokenRow' = tokenRow /\ ~Pending(c)
          /\ call[c].pc = "compiling"
      BY <2>12 DEF Compile, Pending
    <3>2. Settles(c, call[c].request)
      BY <1>3, <2>1, <2>3, <3>1, MoveSettles
    <3> QED BY <2>1, <3>2
  <2>13. CASE Measure(c)
    <3>1. /\ call[c].pc = "measuring" /\ Record(c, call[c].reduced)
          /\ \/ Goto(c, "deciding") /\ answers' = answers
             \/ Answer(c, call[c].reduced)
      BY <2>13 DEF Measure
    <3>2. CASE Goto(c, "deciding") /\ answers' = answers
      <4>1. Pending(c)'
        BY <2>2, <3>2 DEF Pending
      <4> QED BY <1>3, <2>1, <2>2, <3>1, <3>2, <4>1, MoveSettles
    <3>3. CASE Answer(c, call[c].reduced)
      <4>1. ~Pending(c)
        BY <3>1 DEF Pending
      <4> QED BY <1>3, <2>1, <3>1, <3>3, <4>1, AnswerSettles
    <3> QED BY <3>1, <3>2, <3>3
  <2>14. CASE Decide(c)
    <3>1. PICK accepted \in BOOLEAN :
            /\ Record(c, accepted)
            /\ Learn(c, "closing", accepted, IF accepted THEN "accepted" ELSE "not_smaller")
      BY <2>14 DEF Decide
    <3>2. answers' = answers
      BY <2>14 DEF Decide
    <3>3. accepted => Pending(c)'
      BY <2>3, <3>1 DEF Pending
    <3>4. Settles(c, call[c].request)
      BY <1>3, <2>3, <3>1, <3>2, <3>3, MoveSettles
    <3> QED BY <2>1, <3>4
  <2>15. CASE Fail(c)
    <3>1. /\ call[c].pc \in {"compiling", "deciding"} /\ Learn(c, "closing", FALSE, call[c].state)
          /\ answers' = answers /\ tokenRow' = tokenRow
      BY <2>15 DEF Fail, rows
    <3>2. Pending(c)'
      BY <2>1, <2>3, <3>1 DEF Pending
    <3>3. Settles(c, call[c].request)
      BY <1>3, <2>3, <3>1, <3>2, MoveSettles
    <3> QED BY <2>1, <3>3
  <2>16. CASE Close(c)
    <3>1. /\ call[c].pc = "closing" /\ Answer(c, call[c].reduced)
          /\ \/ call[c].state \in {"accepted", "not_smaller"} /\ tokenRow' = tokenRow
             \/ Record(c, FALSE)
      BY <2>16 DEF Close
    <3>2. call[c].state \in {"accepted", "not_smaller"} => call[c].reduced \/ ~Pending(c)
      BY <3>1 DEF Pending
    <3>3. Settles(c, call[c].request)
      BY <1>3, <2>1, <3>1, <3>2, AnswerSettles
    <3> QED BY <2>1, <3>3
  <2> QED
    BY <1>1, <1>3, <2>4, <2>5, <2>6, <2>7, <2>8, <2>9, <2>10, <2>11, <2>12, <2>13, <2>14,
       <2>15, <2>16
<1>4. CASE call[c].pc = "idle" /\ ~(\E x \in Context, r \in Request : Begin(c, x, r))
  BY <1>1, <1>4 DEF OutOfScope, Enter, Refuse, Admit, Preserve, AccountPreserved, ReadTarget,
                    SelectHistory, Compile, Measure, Decide, Fail, Close
<1> QED
  BY <1>2, <1>3, <1>4

LEMMA SettlingKeepsSavings ==
  ASSUME SavingInv, Shape', NEW c \in Call, NEW r \in Request, Settles(c, r)
  PROVE  SavingInv'
<1>1. \A d \in Call \ {c} : call'[d] = call[d]
  BY DEF Settles
<1>2. UniqueCalls'
  <2> SUFFICES ASSUME NEW d \in Call \ {c}, call'[d].pc # "idle", call'[c].pc # "idle"
               PROVE  call'[d].request # call'[c].request
    BY <1>1 DEF UniqueCalls, SavingInv
  <2> QED BY <1>1 DEF Settles, SavingInv, UniqueCalls
<1>3. StateFresh'
  BY <1>1 DEF Settles, SavingInv, StateFresh
<1>4. Savings'
  <2> SUFFICES ASSUME NEW q \in Request, tokenRow'[q] = "saved"
               PROVE  Explained(q)'
    BY DEF Savings
  <2>1. CASE q = r
    <3>1. answers'[r].ever \/ (call'[c].pc # "idle" /\ call'[c].request = r /\ Pending(c)')
      BY <2>1 DEF Settles
    <3> QED BY <2>1, <3>1 DEF Explained
  <2>2. CASE q # r
    <3>1. tokenRow[q] = "saved" /\ answers'[q] = answers[q]
      BY <2>2 DEF Settles
    <3>2. CASE answers[q].ever
      BY <3>1, <3>2 DEF Explained
    <3>3. CASE ~answers[q].ever
      <4>1. PICK d \in Call : call[d].pc # "idle" /\ call[d].request = q /\ Pending(d)
        BY <3>1, <3>3 DEF SavingInv, Savings, Explained
      <4>2. d # c
        BY <2>2, <4>1 DEF Settles
      <4>3. call'[d] = call[d]
        BY <1>1, <4>2
      <4> QED BY <4>1, <4>3 DEF Explained, Pending
    <3> QED BY <3>2, <3>3
  <2> QED BY <2>1, <2>2
<1> QED
  BY <1>2, <1>3, <1>4 DEF SavingInv

LEMMA HookKeepsSavings ==
  ASSUME SavingInv, Shape', Hook
  PROVE  SavingInv'
<1>1. call' = call /\ tokenRow' = tokenRow /\ answers' = answers
  BY DEF Hook, StartSession, EndOtherSession, ResetSession, UpdateModel, SelectContext,
         CompleteTurn, Compress, rows
<1> QED
  BY <1>1 DEF SavingInv, UniqueCalls, StateFresh, Savings, Explained, Pending

----------------------------------------------------------------------------
\* Through every hook, in whatever context it runs, and every step of every call, a
\* binding that still carries its engine's generation has not been outdated, and the
\* call that holds an engine carries its generation and its session.
THEOREM EngineInvariant == Spec => []EngineInv
<1>1. EngineInv /\ [Next]_vars => EngineInv'
  BY HookKeepsEngineInv, MiddlewareKeepsEngineInv, StutteringKeepsEngineInv DEF Next
<1> QED
  BY <1>1, InitEstablishesEngineInv, PTL DEF Spec

\* The state of the engines, calls and accounts keeps its shape, and two calls never
\* work under the lock of one engine.
THEOREM EngineTypes == Spec => []EngineTypeOK
<1>1. EngineInv => EngineTypeOK
  BY DEF EngineInv, Shape, Exclusion, EngineTypeOK
<1> QED
  BY <1>1, EngineInvariant, PTL

\* An engine works on a request only for the session it has, and only while no hook
\* has renewed it since the selection that the call's binding stands for.
THEOREM EngineReductionIsCurrent == Spec => []ReductionIsCurrent
<1>1. EngineInv => ReductionIsCurrent
  <2> SUFFICES ASSUME EngineInv, NEW c \in Call, NEW e \in Engine, Holds(c, e)
               PROVE  c \notin overtaken /\ session[e] = SessionOf[call[c].request]
    BY DEF ReductionIsCurrent
  <2>1. Matches(c) /\ EngineOf(c) = e
    BY DEF EngineInv, HoldersMatch, Holds, EngineOf
  <2>2. call[c].pc # "idle" /\ call[c].binding # None
    BY DEF Holds, Owned, Locked
  <2> QED
    BY <2>1, <2>2 DEF Matches, EngineOf, EngineInv, CallsKeepUp
<1> QED
  BY <1>1, EngineInvariant, PTL

\* Through every step of every call and hook, a saving in the token accounts has gone
\* out, or the call that recorded it is still to answer with it or to take it back.
THEOREM EngineSavings == Spec => []SavingInv
<1>1. Init => SavingInv
  <2> SUFFICES ASSUME Init PROVE SavingInv
    OBVIOUS
  <2>1. Shape
    BY InitEstablishesEngineInv DEF EngineInv
  <2>2. UniqueCalls /\ StateFresh /\ Savings
    BY NoneIsNothing DEF Init, Idle, UniqueCalls, StateFresh, Savings
  <2> QED BY <2>1, <2>2 DEF SavingInv
<1>2. SavingInv /\ [Next]_vars => SavingInv'
  <2> SUFFICES ASSUME SavingInv, [Next]_vars PROVE SavingInv'
    OBVIOUS
  <2>1. CASE Hook
    BY <2>1, HookKeepsShape, HookKeepsSavings DEF SavingInv
  <2>2. CASE Middleware
    BY <2>2, MiddlewareKeepsShape, MiddlewareSettles, SettlingKeepsSavings DEF SavingInv
  <2>3. CASE UNCHANGED vars
    BY <2>3 DEF SavingInv, Shape, UniqueCalls, StateFresh, Savings, Explained, Pending,
                vars, hosts, rows
  <2> QED BY <2>1, <2>2, <2>3 DEF Next
<1> QED
  BY <1>1, <1>2, PTL DEF Spec

\* A saving that the token accounts show for an answered request was had by some attempt.
THEOREM EngineSavingsAreReal == Spec => []SavingsAreReal
<1>1. SavingInv => SavingsAreReal
  BY DEF SavingInv, Savings, Explained, SavingsAreReal, Answered
<1> QED
  BY <1>1, EngineSavings, PTL

----------------------------------------------------------------------------
(* Positions, and folds over them.  FoldLeft is a recursive function, chosen *)
(* by CHOOSE, so it must be shown that there is one.                         *)

LEMMA LeastExists ==
  ASSUME NEW S \in SUBSET Nat, S # {}
  PROVE  Min(S) \in S /\ \A y \in S : Min(S) <= y
<1>1. PICK x \in S : \A y \in S : ~(<<y, x>> \in OpToRel(<, Nat))
  BY WFMin, NatLessThanWellFounded
<1>0. OpToRel(<, Nat) = {ss \in Nat \X Nat : ss[1] < ss[2]}
  BY DEF OpToRel
<1>2. \A y \in S : x <= y
  <2> SUFFICES ASSUME NEW y \in S, ~(x <= y) PROVE FALSE
    OBVIOUS
  <2>1. <<y, x>> \in Nat \X Nat /\ y < x
    OBVIOUS
  <2> QED
    BY <1>0, <1>1, <2>1
<1> QED
  BY <1>1, <1>2 DEF Min

LEMMA GreatestExists ==
  ASSUME NEW n \in Nat, NEW S \in SUBSET (0..n), S # {}
  PROVE  Max(S) \in S /\ \A y \in S : y <= Max(S)
<1> DEFINE T == {n - y : y \in S}
<1>1. T \in SUBSET Nat /\ T # {}
  <2>1. \A y \in 0..n : n - y \in Nat
    OBVIOUS
  <2> QED
    BY <2>1
<1>2. PICK m \in T : \A t \in T : m <= t
  BY <1>1, LeastExists
<1>3. PICK x \in S : m = n - x
  BY <1>2
<1>4. \A y \in S : y <= x
  <2> SUFFICES ASSUME NEW y \in S PROVE y <= x
    OBVIOUS
  <2>1. m <= n - y
    BY <1>2
  <2> QED
    BY <1>3, <2>1
<1> QED
  BY <1>3, <1>4 DEF Max

LEMMA SmallestSubset ==
  ASSUME NEW S, IsFiniteSet(S), NEW X, X \subseteq SUBSET S, X # {}
  PROVE  \E x \in X : \A y \in X : y \subseteq x => y = x
<1>1. IsWellFoundedOn(StrictSubsetOrdering(S), SUBSET S)
  BY FS_StrictSubsetOrderingWellFounded, FS_FiniteSubsetsOfFinite
<1>2. PICK x \in X : \A y \in X : ~(<<y, x>> \in StrictSubsetOrdering(S))
  BY <1>1, WFMin
<1>3. ASSUME NEW y \in X, y \subseteq x, y # x
      PROVE  FALSE
  BY <1>2, <1>3 DEF StrictSubsetOrdering
<1> QED BY <1>2, <1>3

\* What precedes the last of some positions.
LEMMA LastFirst ==
  ASSUME NEW n \in Nat, NEW s \in SUBSET (1..n), s # {}
  PROVE  /\ Max(s) \in s /\ Max(s) \in 1..n
         /\ s \ {Max(s)} \in SUBSET (1..n) /\ s \ {Max(s)} # s
         /\ \A i \in s \ {Max(s)} : i < Max(s)
<1>1. s \in SUBSET (0..n)
  OBVIOUS
<1>2. Max(s) \in s /\ \A y \in s : y <= Max(s)
  BY <1>1, GreatestExists
<1>3. PICK x : x = Max(s)
  OBVIOUS
<1>4. x \in s /\ \A y \in s : y <= x /\ x \in 1..n /\ y \in 1..n
  BY <1>2, <1>3
<1>5. \A i \in s \ {x} : i < x
  BY <1>4
<1> QED BY <1>3, <1>4, <1>5

IsFold(g, base, F, n) ==
  \A s \in SUBSET (1..n) : g[s] = IF s = {} THEN base ELSE F[<<g[s \ {Max(s)}], Max(s)>>]

LEMMA FoldExists ==
  ASSUME NEW n \in Nat, NEW Acc, NEW base \in Acc, NEW F \in [Acc \X (1..n) -> Acc]
  PROVE  \E g \in [SUBSET (1..n) -> Acc] : IsFold(g, base, F, n)
<1> DEFINE X == {k \in 0..n : ~ \E g \in [SUBSET (1..k) -> Acc] : IsFold(g, base, F, k)}
<1>6. n \in 0..n
  OBVIOUS
<1> SUFFICES ASSUME X # {} PROVE FALSE
  BY <1>6
<1>0. X \in SUBSET Nat
  OBVIOUS
<1> HIDE DEF X
<1>1. PICK k : k = Min(X)
  OBVIOUS
<1>2. k \in X /\ \A y \in X : k <= y
  BY <1>0, <1>1, LeastExists
<1>3. k \in 0..n
  BY <1>2 DEF X
<1>7. ASSUME k # 0
      PROVE  k - 1 \in 0..n /\ k - 1 \notin X
  <2>1. k - 1 \in 0..n /\ ~(k <= k - 1)
    BY <1>3, <1>7
  <2> QED BY <1>2, <2>1
<1> USE DEF X
<1>4. CASE k = 0
  <2> DEFINE g == [s \in SUBSET (1..0) |-> base]
  <2>1. \A s \in SUBSET (1..0) : s = {}
    OBVIOUS
  <2>2. g \in [SUBSET (1..0) -> Acc]
    OBVIOUS
  <2>3. IsFold(g, base, F, 0)
    BY <2>1 DEF IsFold
  <2> QED BY <1>2, <1>4, <2>2, <2>3
<1>5. CASE k # 0
  <2>1. k - 1 \in 0..n /\ k - 1 \notin X
    BY <1>5, <1>7
  <2>2. PICK g \in [SUBSET (1..(k - 1)) -> Acc] : IsFold(g, base, F, k - 1)
    BY <2>1
  <2> DEFINE h == [s \in SUBSET (1..k) |-> IF s \in SUBSET (1..(k - 1)) THEN g[s]
                                           ELSE F[<<g[s \ {k}], k>>]]
  <2>3. \A s \in SUBSET (1..k) : s \ {k} \in SUBSET (1..(k - 1))
    BY <1>3, <1>5
  <2>4. k \in 1..n
    BY <1>3, <1>5
  <2>5. h \in [SUBSET (1..k) -> Acc]
    <3> SUFFICES ASSUME NEW s \in SUBSET (1..k) PROVE h[s] \in Acc
      OBVIOUS
    <3>1. CASE s \in SUBSET (1..(k - 1))
      BY <3>1
    <3>2. CASE s \notin SUBSET (1..(k - 1))
      <4>1. g[s \ {k}] \in Acc
        BY <2>3
      <4> QED BY <3>2, <4>1, <2>4
    <3> QED BY <3>1, <3>2
  <2>6. ASSUME NEW s \in SUBSET (1..k)
        PROVE  h[s] = IF s = {} THEN base ELSE F[<<h[s \ {Max(s)}], Max(s)>>]
    <3>1. CASE s \in SUBSET (1..(k - 1))
      <4>1. h[s] = g[s]
        BY <3>1
      <4>2. g[s] = IF s = {} THEN base ELSE F[<<g[s \ {Max(s)}], Max(s)>>]
        BY <2>2, <3>1 DEF IsFold
      <4>3. s \ {Max(s)} \in SUBSET (1..(k - 1)) /\ s \ {Max(s)} \in SUBSET (1..k)
        BY <3>1
      <4>4. h[s \ {Max(s)}] = g[s \ {Max(s)}]
        BY <4>3
      <4> QED BY <4>1, <4>2, <4>4
    <3>2. CASE s \notin SUBSET (1..(k - 1))
      <4>1. k \in s /\ s # {}
        BY <1>3, <1>5, <3>2
      <4>2. Max(s) \in s /\ \A i \in s \ {Max(s)} : i < Max(s)
        BY <1>3, <4>1, LastFirst
      <4>3. Max(s) = k
        <5>1. PICK x : x = Max(s)
          OBVIOUS
        <5>2. x \in 1..k /\ (k # x => k < x)
          BY <4>1, <4>2, <5>1
        <5> QED BY <1>3, <5>1, <5>2
      <4>4. h[s] = F[<<g[s \ {k}], k>>]
        BY <3>2
      <4>5. s \ {k} \in SUBSET (1..k) /\ h[s \ {k}] = g[s \ {k}]
        BY <2>3
      <4> QED BY <4>1, <4>3, <4>4, <4>5
    <3> QED BY <3>1, <3>2
  <2> HIDE DEF h
  <2>7. IsFold(h, base, F, k)
    BY <2>6 DEF IsFold
  <2> QED BY <1>2, <2>5, <2>7
<1> QED BY <1>4, <1>5

----------------------------------------------------------------------------
(* Requests and regions. *)

LEMMA RequestFacts ==
  ASSUME NEW q \in Incoming
  PROVE  /\ Len(q) \in Nat /\ DOMAIN q = 1..Len(q) /\ Current(q) \in 1..Len(q)
         /\ IsFiniteSet(ToSet(q)) /\ \A i \in DOMAIN q : q[i] \in ToSet(q)
<1>1. q \in Seq(ToSet(q)) /\ \E i \in DOMAIN q : q[i] \in User
  BY IncomingAssumption
<1>2. Len(q) \in Nat /\ DOMAIN q = 1..Len(q)
  BY <1>1
<1> DEFINE asked == {i \in DOMAIN q : q[i] \in User}
<1>3. asked \in SUBSET (1..Len(q)) /\ asked # {}
  BY <1>1, <1>2
<1>4. Max(asked) \in 1..Len(q)
  BY <1>2, <1>3, LastFirst
<1>5. IsFiniteSet(ToSet(q))
  <2>1. IsFiniteSet(DOMAIN q)
    BY <1>2, FS_Interval
  <2>2. q \in Surjection(DOMAIN q, ToSet(q))
    BY <1>1 DEF Surjection, ToSet
  <2> QED BY <2>1, <2>2, FS_Surjection
<1> QED BY <1>2, <1>4, <1>5 DEF Current, ToSet

LEMMA CutoffFacts ==
  ASSUME NEW q \in Incoming
  PROVE  /\ Cutoff(q) \in Nat /\ Cutoff(q) < Current(q)
         /\ \A i \in 1..Cutoff(q) : i \in DOMAIN q /\ i < Current(q) /\ i <= Len(q) - ProtectLast
<1>1. Len(q) \in Nat /\ DOMAIN q = 1..Len(q) /\ Current(q) \in 1..Len(q)
  BY RequestFacts
<1>2. CASE Len(q) > ProtectLast
  <2> DEFINE two == {Current(q) - 1, Len(q) - ProtectLast}
  <2>1. two \in SUBSET Nat /\ two # {}
    BY <1>1, <1>2, LimitsAssumption
  <2> HIDE DEF two
  <2>2. Min(two) \in two /\ \A y \in two : Min(two) <= y
    BY <2>1, LeastExists
  <2>3. Cutoff(q) = Min(two)
    BY <1>2 DEF Cutoff, two
  <2>4. Cutoff(q) \in Nat /\ Cutoff(q) <= Current(q) - 1 /\ Cutoff(q) <= Len(q) - ProtectLast
    BY <2>1, <2>2, <2>3 DEF two
  <2> QED BY <1>1, <2>4, LimitsAssumption
<1>3. CASE ~(Len(q) > ProtectLast)
  <2>1. Cutoff(q) = 0
    BY <1>3 DEF Cutoff
  <2> QED BY <1>1, <2>1
<1> QED BY <1>2, <1>3

\* What a region may hold, and what may be gathered on the way.
Sound(q, S) ==
  /\ S \subseteq 1..Cutoff(q)
  /\ \A i \in S : q[i] \in Plain /\ (q[i] \in Structured => S = {i})

Gathered(q) ==
  [regions : Seq({S \in SUBSET (1..Cutoff(q)) : Sound(q, S)}),
   pending : {S \in SUBSET (1..Cutoff(q)) : \A i \in S : q[i] \in Plain \ Structured}]

LEMMA FlushSound ==
  ASSUME NEW q, NEW acc \in Gathered(q)
  PROVE  Flush(acc) \in Seq({S \in SUBSET (1..Cutoff(q)) : Sound(q, S)})
<1>1. acc.pending \in {S \in SUBSET (1..Cutoff(q)) : Sound(q, S)}
  BY DEF Gathered, Sound
<1>2. acc.regions \in Seq({S \in SUBSET (1..Cutoff(q)) : Sound(q, S)})
  BY DEF Gathered
<1> HIDE DEF Gathered
<1> QED BY <1>1, <1>2 DEF Flush

LEMMA AddMessageGathers ==
  ASSUME NEW q, NEW acc \in Gathered(q), NEW i \in 1..Cutoff(q)
  PROVE  AddMessage(q, acc, i) \in Gathered(q)
<1> DEFINE Groups == {S \in SUBSET (1..Cutoff(q)) : Sound(q, S)}
           Pendings == {S \in SUBSET (1..Cutoff(q)) : \A j \in S : q[j] \in Plain \ Structured}
<1>1. Flush(acc) \in Seq(Groups)
  BY FlushSound
<1>2. acc.regions \in Seq(Groups) /\ acc.pending \in Pendings
     /\ acc = [regions |-> acc.regions, pending |-> acc.pending]
  BY DEF Gathered
<1>3. \A R \in Seq(Groups), P \in Pendings : [regions |-> R, pending |-> P] \in Gathered(q)
  BY DEF Gathered
<1>4. {} \in Pendings
  OBVIOUS
<1>5. CASE q[i] \notin Plain
  <2>1. AddMessage(q, acc, i) = [regions |-> Flush(acc), pending |-> {}]
    BY <1>5 DEF AddMessage
  <2> HIDE DEF Groups, Pendings
  <2> QED BY <1>1, <1>3, <1>4, <2>1
<1>6. CASE q[i] \in Plain /\ Alone(q[i])
  <2>1. AddMessage(q, acc, i) =
          [regions |-> IF Size[q[i]] <= MaxCandidateChars THEN Append(Flush(acc), {i}) ELSE Flush(acc),
           pending |-> {}]
    BY <1>6 DEF AddMessage
  <2>2. {i} \in Groups
    BY <1>6 DEF Sound
  <2> HIDE DEF Groups, Pendings
  <2>3. Append(Flush(acc), {i}) \in Seq(Groups)
    BY <1>1, <2>2
  <2> QED BY <1>1, <1>3, <1>4, <2>1, <2>3
<1>7. CASE q[i] \in Plain /\ ~Alone(q[i])
  <2>1. q[i] \in Plain \ Structured
    BY <1>7 DEF Alone
  <2>2. {i} \in Pendings /\ acc.pending \cup {i} \in Pendings
    BY <1>2, <2>1
  <2> HIDE DEF Groups, Pendings
  <2>3. AddMessage(q, acc, i) \in {[regions |-> Flush(acc), pending |-> {i}],
                                   [acc EXCEPT !.pending = @ \cup {i}]}
    BY <1>7 DEF AddMessage
  <2>4. [acc EXCEPT !.pending = @ \cup {i}] \in Gathered(q)
    <3>1. acc \in Gathered(q)
      OBVIOUS
    <3>2. acc.pending \cup {i} \in {S \in SUBSET (1..Cutoff(q)) : \A j \in S : q[j] \in Plain \ Structured}
      BY <2>2 DEF Pendings
    <3> QED BY <3>1, <3>2 DEF Gathered
  <2>5. [regions |-> Flush(acc), pending |-> {i}] \in Gathered(q)
    BY <1>1, <1>3, <2>2
  <2> QED BY <2>3, <2>4, <2>5
<1> QED BY <1>5, <1>6, <1>7

\* g gathers the regions of a request.
Gathers(g, q) ==
  g = [s \in SUBSET DOMAIN [i \in 1..Cutoff(q) |-> i] |->
         IF s = {} THEN [regions |-> <<>>, pending |-> {}]
         ELSE AddMessage(q, g[s \ {Max(s)}], [i \in 1..Cutoff(q) |-> i][Max(s)])]

LEMMA RegionsUnfold ==
  ASSUME NEW q
  PROVE  Regions(q) = Flush((CHOOSE g : Gathers(g, q))[DOMAIN [i \in 1..Cutoff(q) |-> i]])
BY DEF Regions, FoldLeft, MapThenFoldSet, Gathers

LEMMA GatheringExists ==
  ASSUME NEW q \in Incoming
  PROVE  \E g : Gathers(g, q)
<1> DEFINE n == Cutoff(q)
           F == [p \in Gathered(q) \X (1..n) |-> AddMessage(q, p[1], p[2])]
           base == [regions |-> <<>>, pending |-> {}]
<1>1. n \in Nat /\ DOMAIN [i \in 1..n |-> i] = 1..n
  BY CutoffFacts
<1>2. base \in Gathered(q)
  BY DEF Gathered
<1>3. F \in [Gathered(q) \X (1..n) -> Gathered(q)]
  BY AddMessageGathers
<1> HIDE DEF F, base, n
<1>4. PICK g \in [SUBSET (1..n) -> Gathered(q)] : IsFold(g, base, F, n)
  BY <1>1, <1>2, <1>3, FoldExists
<1>5. ASSUME NEW s \in SUBSET (1..n)
      PROVE  g[s] = IF s = {} THEN base ELSE AddMessage(q, g[s \ {Max(s)}], [i \in 1..n |-> i][Max(s)])
  <2>1. CASE s = {}
    BY <1>4, <2>1 DEF IsFold
  <2>2. CASE s # {}
    <3>1. Max(s) \in 1..n /\ s \ {Max(s)} \in SUBSET (1..n)
      BY <1>1, <2>2, LastFirst
    <3>2. g[s] = F[<<g[s \ {Max(s)}], Max(s)>>]
      BY <1>4, <2>2 DEF IsFold
    <3>3. F[<<g[s \ {Max(s)}], Max(s)>>] = AddMessage(q, g[s \ {Max(s)}], Max(s))
      BY <3>1 DEF F
    <3> QED BY <2>2, <3>1, <3>2, <3>3
  <2> QED BY <2>1, <2>2
<1>6. g = [s \in SUBSET (1..n) |->
             IF s = {} THEN base ELSE AddMessage(q, g[s \ {Max(s)}], [i \in 1..n |-> i][Max(s)])]
  <2>1. g = [s \in SUBSET (1..n) |-> g[s]]
    OBVIOUS
  <2> QED BY <1>5, <2>1
<1>7. Gathers(g, q)
  BY <1>1, <1>6 DEF Gathers, n, base
<1> QED BY <1>7

LEMMA GatheringSound ==
  ASSUME NEW q \in Incoming, NEW g, Gathers(g, q)
  PROVE  g[1..Cutoff(q)] \in Gathered(q)
<1> DEFINE n == Cutoff(q)
<1>1. n \in Nat /\ DOMAIN [i \in 1..n |-> i] = 1..n
  BY CutoffFacts
<1> DEFINE X == {s \in SUBSET (1..n) : g[s] \notin Gathered(q)}
<1>2. 1..n \in SUBSET (1..n) /\ X \subseteq SUBSET (1..n)
  OBVIOUS
<1>7. IsFiniteSet(1..n)
  BY <1>1, FS_Interval
<1> SUFFICES ASSUME X # {} PROVE FALSE
  BY <1>2
<1> HIDE DEF X, n
<1>3. PICK s \in X : \A t \in X : t \subseteq s => t = s
  <2>1. PICK D : D = 1..n
    OBVIOUS
  <2>2. IsFiniteSet(D) /\ X \subseteq SUBSET D /\ X # {}
    BY <1>2, <1>7, <2>1
  <2> QED BY <2>2, SmallestSubset
<1> USE DEF X, n
<1>4. s \in SUBSET DOMAIN [i \in 1..n |-> i] /\ s \in SUBSET (1..n)
  BY <1>1
<1>5. CASE s = {}
  <2>1. g[s] = [regions |-> <<>>, pending |-> {}]
    BY <1>4, <1>5 DEF Gathers
  <2>2. g[s] \in Gathered(q)
    BY <2>1 DEF Gathered
  <2> QED BY <2>2
<1>6. CASE s # {}
  <2>1. Max(s) \in 1..n /\ s \ {Max(s)} \in SUBSET (1..n) /\ s \ {Max(s)} # s
    BY <1>1, <1>4, <1>6, LastFirst
  <2>2. g[s] = AddMessage(q, g[s \ {Max(s)}], [i \in 1..n |-> i][Max(s)])
    BY <1>4, <1>6 DEF Gathers
  <2>3. g[s \ {Max(s)}] \in Gathered(q)
    BY <1>3, <2>1
  <2>4. g[s] \in Gathered(q)
    BY <2>1, <2>2, <2>3, AddMessageGathers
  <2> QED BY <2>4
<1> QED BY <1>5, <1>6

\* Every region is a set of plain positions before the recent ones, in which
\* structured evidence stands alone.
LEMMA RegionsSound ==
  ASSUME NEW q \in Incoming
  PROVE  /\ Regions(q) \in Seq({S \in SUBSET (1..Cutoff(q)) : Sound(q, S)})
         /\ DOMAIN Regions(q) = 1..Len(Regions(q)) /\ Len(Regions(q)) \in Nat
         /\ \A k \in DOMAIN Regions(q) : Sound(q, Regions(q)[k])
<1>1. PICK g : Gathers(g, q) /\ Regions(q) = Flush(g[DOMAIN [i \in 1..Cutoff(q) |-> i]])
  BY GatheringExists, RegionsUnfold
<1>2. DOMAIN [i \in 1..Cutoff(q) |-> i] = 1..Cutoff(q)
  OBVIOUS
<1>3. g[1..Cutoff(q)] \in Gathered(q)
  BY <1>1, GatheringSound
<1>4. Regions(q) \in Seq({S \in SUBSET (1..Cutoff(q)) : Sound(q, S)})
  BY <1>1, <1>2, <1>3, FlushSound
<1> QED BY <1>4

\* A batch, and what remains after it, are parts of what remained before.
LEMMA NextBatchIsPart ==
  ASSUME NEW q, NEW D, NEW remaining \in Seq(D)
  PROVE  NextBatch(q, remaining)[1] \in Seq(D) /\ NextBatch(q, remaining)[2] \in Seq(D)
<1> DEFINE Firsts == {k \in 1..Len(remaining) + 1 : k = Len(remaining) + 1 \/ Fits(q, <<remaining[k]>>)}
           first == Min(Firsts)
           Lasts == {k \in first - 1..Len(remaining) :
                      k - first < MaxCandidates /\ Fits(q, SubSeq(remaining, first, k))} \cup {first - 1}
           last == Max(Lasts)
<1>1. Len(remaining) \in Nat
  OBVIOUS
<1>2. Firsts \in SUBSET Nat /\ Len(remaining) + 1 \in Firsts /\ Firsts \subseteq 1..Len(remaining) + 1
  BY <1>1
<1> HIDE DEF Firsts
<1>3. first \in 1..Len(remaining) + 1
  BY <1>2, LeastExists
<1> HIDE DEF first
<1>4. Lasts \in SUBSET (0..Len(remaining)) /\ Lasts # {}
  BY <1>1, <1>3
<1> HIDE DEF Lasts
<1>5. last \in 0..Len(remaining)
  BY <1>1, <1>4, GreatestExists
<1> HIDE DEF last
<1>6. SubSeq(remaining, first, last) \in Seq(D)
  BY <1>1, <1>3, <1>5
<1>7. SubSeq(remaining, last + 1, Len(remaining)) \in Seq(D)
  BY <1>1, <1>5
<1>8. NextBatch(q, remaining) = <<SubSeq(remaining, first, last), SubSeq(remaining, last + 1, Len(remaining))>>
  BY DEF NextBatch, last, Lasts, first, Firsts
<1> QED BY <1>6, <1>7, <1>8

----------------------------------------------------------------------------
(* The omissions of a chat request. *)

\* Of what is proposed; and before the last of it, the request was over budget.
Needed(q, encoded, proposed, s, omitted) ==
  /\ omitted \subseteq s \cap proposed
  /\ omitted = {} \/ Tokens(q, encoded, omitted \ {Max(omitted)}) > Budget

OmitNext(q, encoded, proposed, omitted, i) ==
  IF i \in proposed THEN Omit(q, encoded, omitted, i) ELSE omitted

LEMMA OmitNextNeeded ==
  ASSUME NEW q \in Incoming, NEW encoded, NEW proposed, NEW s \in SUBSET DOMAIN q, s # {},
         NEW omitted, Needed(q, encoded, proposed, s \ {Max(s)}, omitted)
  PROVE  Needed(q, encoded, proposed, s, OmitNext(q, encoded, proposed, omitted, Max(s)))
<1>1. PICK x : x = Max(s)
  OBVIOUS
<1>2. Len(q) \in Nat /\ DOMAIN q = 1..Len(q)
  BY RequestFacts
<1>3. x \in s /\ x \in 1..Len(q) /\ \A i \in s \ {x} : i < x
  BY <1>1, <1>2, LastFirst
<1>4. omitted \subseteq (s \ {x}) \cap proposed
  BY <1>1 DEF Needed
<1>5. CASE OmitNext(q, encoded, proposed, omitted, x) = omitted
  BY <1>1, <1>4, <1>5 DEF Needed
<1>6. CASE OmitNext(q, encoded, proposed, omitted, x) # omitted
  <2>1. /\ OmitNext(q, encoded, proposed, omitted, x) = omitted \cup {x} /\ x \in proposed
        /\ Tokens(q, encoded, omitted) > Budget
    BY <1>6 DEF OmitNext, Omit
  <2>2. omitted \cup {x} \in SUBSET (1..Len(q)) /\ omitted \cup {x} # {}
    BY <1>2, <1>3, <1>4
  <2>3. PICK y : y = Max(omitted \cup {x})
    OBVIOUS
  <2>4. y \in omitted \cup {x} /\ y \in 1..Len(q) /\ \A i \in (omitted \cup {x}) \ {y} : i < y
    BY <1>2, <2>2, <2>3, LastFirst
  <2>5. y = x
    BY <1>3, <1>4, <2>4
  <2>6. (omitted \cup {x}) \ {y} = omitted
    BY <1>4, <2>5
  <2> QED BY <1>1, <1>3, <1>4, <2>1, <2>3, <2>6 DEF Needed
<1> QED BY <1>5, <1>6

\* g makes the omissions of a request.
Omits(g, q, encoded, proposed) ==
  g = [s \in SUBSET DOMAIN [i \in DOMAIN q |-> i] |->
         IF s = {} THEN {}
         ELSE OmitNext(q, encoded, proposed, g[s \ {Max(s)}], [i \in DOMAIN q |-> i][Max(s)])]

LEMMA OmissionsUnfold ==
  ASSUME NEW q, NEW encoded, NEW proposed
  PROVE  MinimumOmissions(q, encoded, proposed) =
           (CHOOSE g : Omits(g, q, encoded, proposed))[DOMAIN [i \in DOMAIN q |-> i]]
BY DEF MinimumOmissions, FoldLeft, MapThenFoldSet, Omits, OmitNext

LEMMA OmissionsExist ==
  ASSUME NEW q \in Incoming, NEW encoded, NEW proposed
  PROVE  \E g : Omits(g, q, encoded, proposed)
<1> DEFINE n == Len(q)
           Acc == SUBSET (1..n)
           F == [p \in Acc \X (1..n) |-> OmitNext(q, encoded, proposed, p[1], p[2])]
<1>1. n \in Nat /\ DOMAIN q = 1..n /\ DOMAIN [i \in 1..n |-> i] = 1..n
  BY RequestFacts
<1>2. {} \in Acc
  OBVIOUS
<1>3. F \in [Acc \X (1..n) -> Acc]
  BY DEF OmitNext, Omit
<1> HIDE DEF F, n, Acc
<1>4. PICK g \in [SUBSET (1..n) -> Acc] : IsFold(g, {}, F, n)
  BY <1>1, <1>2, <1>3, FoldExists
<1>5. ASSUME NEW s \in SUBSET (1..n)
      PROVE  g[s] = IF s = {} THEN {}
                    ELSE OmitNext(q, encoded, proposed, g[s \ {Max(s)}], [i \in 1..n |-> i][Max(s)])
  <2>1. CASE s = {}
    BY <1>4, <2>1 DEF IsFold
  <2>2. CASE s # {}
    <3>1. Max(s) \in 1..n /\ s \ {Max(s)} \in SUBSET (1..n)
      BY <1>1, <2>2, LastFirst
    <3>2. g[s] = F[<<g[s \ {Max(s)}], Max(s)>>]
      BY <1>4, <2>2 DEF IsFold
    <3>3. F[<<g[s \ {Max(s)}], Max(s)>>] = OmitNext(q, encoded, proposed, g[s \ {Max(s)}], Max(s))
      BY <3>1 DEF F
    <3> QED BY <2>2, <3>1, <3>2, <3>3
  <2> QED BY <2>1, <2>2
<1>6. g = [s \in SUBSET (1..n) |->
             IF s = {} THEN {}
             ELSE OmitNext(q, encoded, proposed, g[s \ {Max(s)}], [i \in 1..n |-> i][Max(s)])]
  <2>1. g = [s \in SUBSET (1..n) |-> g[s]]
    OBVIOUS
  <2> QED BY <1>5, <2>1
<1>7. Omits(g, q, encoded, proposed)
  BY <1>1, <1>6 DEF Omits
<1> QED BY <1>7

LEMMA OmissionsNeeded ==
  ASSUME NEW q \in Incoming, NEW encoded, NEW proposed
  PROVE  Needed(q, encoded, proposed, DOMAIN q, MinimumOmissions(q, encoded, proposed))
<1>1. PICK g : /\ Omits(g, q, encoded, proposed)
               /\ MinimumOmissions(q, encoded, proposed) = g[DOMAIN [i \in DOMAIN q |-> i]]
  BY OmissionsExist, OmissionsUnfold
<1>2. PICK D : D = DOMAIN q
  OBVIOUS
<1>3. DOMAIN [i \in D |-> i] = D
  OBVIOUS
<1> DEFINE X == {s \in SUBSET D : ~Needed(q, encoded, proposed, s, g[s])}
<1>4. D \in SUBSET D /\ X \subseteq SUBSET D
  OBVIOUS
<1>5. IsFiniteSet(D)
  BY <1>2, RequestFacts, FS_Interval
<1>6. X = {}
  <2> SUFFICES ASSUME X # {} PROVE FALSE
    OBVIOUS
  <2> HIDE DEF X
  <2>1. PICK s \in X : \A t \in X : t \subseteq s => t = s
    BY <1>4, <1>5, SmallestSubset
  <2> USE DEF X
  <2>2. s \in SUBSET D /\ s \in SUBSET DOMAIN [i \in D |-> i]
    BY <1>3
  <2>3. CASE s = {}
    <3>1. g[s] = {}
      BY <1>1, <1>2, <2>2, <2>3 DEF Omits
    <3> QED BY <3>1 DEF Needed
  <2>4. CASE s # {}
    <3>1. Len(q) \in Nat /\ D = 1..Len(q)
      BY <1>2, RequestFacts
    <3>2. Max(s) \in D /\ s \ {Max(s)} \in SUBSET D /\ s \ {Max(s)} # s
      BY <2>2, <2>4, <3>1, LastFirst
    <3>3. g[s] = OmitNext(q, encoded, proposed, g[s \ {Max(s)}], [i \in D |-> i][Max(s)])
      BY <1>1, <1>2, <2>2, <2>4 DEF Omits
    <3>4. Needed(q, encoded, proposed, s \ {Max(s)}, g[s \ {Max(s)}])
      BY <2>1, <3>2
    <3>5. Needed(q, encoded, proposed, s, OmitNext(q, encoded, proposed, g[s \ {Max(s)}], Max(s)))
      BY <1>2, <2>2, <2>4, <3>4, OmitNextNeeded
    <3> QED BY <3>2, <3>3, <3>5
  <2> QED BY <2>3, <2>4
<1>7. Needed(q, encoded, proposed, D, g[D])
  BY <1>4, <1>6
<1> QED BY <1>1, <1>2, <1>3, <1>7

----------------------------------------------------------------------------
(* The invariant of a selection. *)

Sent == UNION {ToSet(q) : q \in Incoming}

Edits == [omitted : SUBSET Nat, attention : SUBSET (Nat \X Sent), recalled : Seq(Sent), failed : BOOLEAN]

SelectionRun ==
  [pc : {"batch", "recall", "passed"}, request : Incoming, caller : {"engine", "chat"},
   working : SUBSET Nat, policy : {"policy", "none"}, batches : Nat, remaining : Seq(Nat),
   plan : Edits, shadow : BOOLEAN, baseline : Edits]

\* The policy under which the messages of a request may be omitted.
InForce == IF mode = "active" THEN "policy" ELSE "none"

\* An entry of the cache repeats what the scorer said.
Backed(entry) ==
  /\ DOMAIN entry[2] = DOMAIN entry[1][2]
  /\ \A n \in DOMAIN entry[2] : entry[2][n] = "low" => <<entry[1][1], entry[1][2][n], entry[1][3]>> \in told

CacheSound == cache \in Seq(ToSet(cache)) /\ \A entry \in ToSet(cache) : Backed(entry)

\* The scorer found the message low in the light of the request.
FoundLow(q, i, policy) ==
  \E fact \in told :
    /\ fact[1] = Surroundings(q) /\ <<i, q[i]>> \in fact[2] /\ fact[3] = policy
    /\ q[i] \in Structured => fact[2] = {<<i, q[i]>>}

PlanSound(q, plan) ==
  /\ \A i \in plan.omitted : /\ i \in 1..Cutoff(q) /\ q[i] \in Plain \cap catalog /\ MayOmit(q, i)
                             /\ FoundLow(q, i, InForce)
  /\ \A score \in plan.attention : score[1] \in 1..Cutoff(q) /\ score = <<score[1], q[score[1]]>>
  /\ \A k \in DOMAIN plan.recalled : plan.recalled[k] \notin ToSet(q)
  /\ plan.failed => plan.omitted = {} /\ plan.recalled = <<>>

\* A pass is under way or has ended; the first one makes the plan, unless it is a shadow's.
Making ==
  /\ run \in SelectionRun
  /\ run.remaining \in Seq(DOMAIN Regions(run.request))
  /\ run.pc # "passed" => ~run.plan.failed
  /\ run.pc # "passed" \/ mode # "active" => ToSet(run.request) \subseteq catalog
  /\ run.shadow => mode = "shadow" /\ PlanSound(run.request, run.baseline)
  /\ ~run.shadow => run.policy = InForce /\ PlanSound(run.request, run.plan)

Made ==
  /\ run.request \in Incoming /\ run.plan \in Edits
  /\ PlanSound(run.request, run.plan)
  /\ run.out = Final(run.request, run.plan)
  /\ run.caller = "chat" /\ run.plan.omitted # {} =>
       /\ Tokens(run.request, run.working, run.plan.omitted) <= Budget
       /\ Tokens(run.request, run.working, run.plan.omitted \ {Max(run.plan.omitted)}) > Budget

SelectionInv ==
  /\ mode \in {"off", "shadow", "active"}
  /\ catalog \subseteq Sent /\ IsFiniteSet(catalog)
  /\ CacheSound
  /\ run.pc \in {"idle", "batch", "recall", "passed", "taken"}
  /\ run.pc \in {"batch", "recall", "passed"} => Making
  /\ run.pc = "taken" => Made

LEMMA NoEditsSound ==
  /\ NoEdits \in Edits /\ ~NoEdits.failed /\ Failed \in Edits
  /\ \A q : PlanSound(q, NoEdits) /\ PlanSound(q, Failed)
<1>1. NoEdits = [omitted |-> {}, attention |-> {}, recalled |-> <<>>, failed |-> FALSE]
  BY DEF NoEdits
<1>2. Failed.omitted = {} /\ Failed.attention = {} /\ Failed.recalled = <<>>
  BY DEF NoEdits, Failed
<1>3. <<>> \in Seq(Sent) /\ DOMAIN <<>> = {}
  OBVIOUS
<1>7. NoEdits \in Edits /\ ~NoEdits.failed
  BY <1>1, <1>3 DEF Edits
<1>4. NoEdits \in Edits /\ ~NoEdits.failed /\ Failed \in Edits
  BY <1>7 DEF Edits, Failed
<1>5. \A q : PlanSound(q, NoEdits)
  BY <1>1, <1>3 DEF PlanSound
<1>6. \A q : PlanSound(q, Failed)
  BY <1>2, <1>3 DEF PlanSound
<1> QED BY <1>4, <1>5, <1>6

LEMMA SequenceOfItsElements ==
  ASSUME NEW E, NEW t \in Seq(E)
  PROVE  t \in Seq(ToSet(t)) /\ ToSet(t) \subseteq E
BY DEF ToSet

LEMMA RegionNumbers ==
  ASSUME NEW q \in Incoming
  PROVE  [n \in DOMAIN Regions(q) |-> n] \in Seq(DOMAIN Regions(q)) /\ DOMAIN Regions(q) \subseteq Nat
<1>1. DOMAIN Regions(q) = 1..Len(Regions(q)) /\ Len(Regions(q)) \in Nat
  BY RegionsSound
<1> QED BY <1>1

\* A pass begins with what it must keep.
LEMMA PassBegins ==
  ASSUME NEW q \in Incoming, NEW caller \in {"engine", "chat"}, NEW working \in SUBSET Nat,
         NEW policy \in {"policy", "none"}, NEW loaded \in BOOLEAN, NEW shadow \in BOOLEAN,
         NEW baseline \in Edits
  PROVE  /\ Pass(q, caller, working, policy, loaded, shadow, baseline) \in SelectionRun
         /\ Pass(q, caller, working, policy, loaded, shadow, baseline).remaining \in Seq(DOMAIN Regions(q))
<1> DEFINE remaining == IF loaded THEN [n \in DOMAIN Regions(q) |-> n] ELSE <<>>
           plan == IF loaded THEN NoEdits ELSE Failed
           pc == IF loaded THEN "batch" ELSE "passed"
<1>1. remaining \in Seq(DOMAIN Regions(q)) /\ DOMAIN Regions(q) \subseteq Nat
  <2>1. CASE loaded
    BY <2>1, RegionNumbers
  <2>2. CASE ~loaded
    <3>1. remaining = <<>>
      BY <2>2
    <3> HIDE DEF remaining
    <3>2. <<>> \in Seq(DOMAIN Regions(q))
      OBVIOUS
    <3> QED BY <3>1, <3>2, RegionNumbers
  <2> QED BY <2>1, <2>2
<1>2. remaining \in Seq(Nat)
  BY <1>1
<1>3. plan \in Edits
  BY NoEditsSound
<1>4. pc \in {"batch", "recall", "passed"}
  OBVIOUS
<1>5. Pass(q, caller, working, policy, loaded, shadow, baseline) =
        [request |-> q, caller |-> caller, working |-> working, policy |-> policy, batches |-> 0,
         pc |-> pc, remaining |-> remaining, plan |-> plan, shadow |-> shadow, baseline |-> baseline]
  BY DEF Pass
<1> HIDE DEF remaining, plan, pc
<1> QED BY <1>1, <1>2, <1>3, <1>4, <1>5 DEF SelectionRun

LEMMA InitSelection == SelectionInit => SelectionInv
<1> SUFFICES ASSUME SelectionInit PROVE SelectionInv
  OBVIOUS
<1>1. mode \in {"off", "shadow", "active"}
  BY ModesAssumption DEF SelectionInit
<1>2. catalog \subseteq Sent /\ IsFiniteSet(catalog)
  BY FS_EmptySet DEF SelectionInit
<1>3. CacheSound
  BY DEF SelectionInit, CacheSound, ToSet
<1>4. run.pc = "idle"
  BY DEF SelectionInit, NoSelection
<1> QED BY <1>1, <1>2, <1>3, <1>4 DEF SelectionInv

\* What the scorer said is not forgotten while a request is selected.
LEMMA PlanStaysSound ==
  ASSUME told \subseteq told', UNCHANGED <<mode, catalog>>, NEW q, NEW plan, PlanSound(q, plan)
  PROVE  PlanSound(q, plan)'
<1>1. \A i \in plan.omitted : FoundLow(q, i, InForce) => FoundLow(q, i, InForce)'
  BY DEF FoundLow, InForce
<1> QED BY <1>1 DEF PlanSound

LEMMA CacheStaysSound ==
  ASSUME told \subseteq told', CacheSound, UNCHANGED cache
  PROVE  CacheSound'
<1>1. \A entry \in ToSet(cache) : Backed(entry) => Backed(entry)'
  BY DEF Backed
<1> QED BY <1>1 DEF CacheSound

----------------------------------------------------------------------------
(* The steps of a selection. *)

LEMMA BeginPreserves ==
  ASSUME SelectionInv, NEW q \in Incoming, NEW caller \in {"engine", "chat"}, BeginSelection(q, caller)
  PROVE  SelectionInv'
<1>1. PICK loaded \in BOOLEAN, working \in Workings(q, caller) :
        /\ mode # "active" => loaded
        /\ run' = Pass(q, caller, working, InForce, loaded, FALSE, NoEdits)
        /\ catalog' = IF loaded THEN catalog \cup ToSet(q) ELSE catalog
  BY DEF BeginSelection, InForce
<1>2. working \in SUBSET Nat
  <2>1. DOMAIN q = 1..Len(q) /\ Len(q) \in Nat
    BY RequestFacts
  <2> QED BY <1>1, <2>1 DEF Workings
<1>3. InForce \in {"policy", "none"}
  BY DEF InForce
<1>4. run' \in SelectionRun /\ run'.remaining \in Seq(DOMAIN Regions(q))
  BY <1>1, <1>2, <1>3, NoEditsSound, PassBegins
<1>5. /\ run'.request = q /\ run'.shadow = FALSE /\ run'.policy = InForce
      /\ run'.pc = IF loaded THEN "batch" ELSE "passed"
      /\ run'.plan = IF loaded THEN NoEdits ELSE Failed
  BY <1>1 DEF Pass
<1>6. UNCHANGED <<mode, cache, told>>
  BY DEF BeginSelection
<1>7. InForce' = InForce /\ PlanSound(run.request, run.plan)'
  <2>1. /\ run'.plan.omitted = {} /\ run'.plan.attention = {} /\ run'.plan.recalled = <<>>
    BY <1>5 DEF NoEdits, Failed
  <2>2. DOMAIN <<>> = {}
    OBVIOUS
  <2> QED BY <1>6, <2>1, <2>2 DEF InForce, PlanSound
<1>8. Making'
  <2>1. run'.pc # "passed" => ~run'.plan.failed
    BY <1>1, <1>5, NoEditsSound
  <2>2. run'.pc # "passed" \/ mode' # "active" => ToSet(q) \subseteq catalog'
    BY <1>1, <1>5, <1>6
  <2> QED BY <1>4, <1>5, <1>7, <2>1, <2>2 DEF Making
<1>9. catalog' \subseteq Sent /\ IsFiniteSet(catalog')
  <2>1. ToSet(q) \subseteq Sent /\ IsFiniteSet(ToSet(q))
    BY RequestFacts DEF Sent
  <2>2. IsFiniteSet(catalog \cup ToSet(q))
    BY <2>1, FS_Union DEF SelectionInv
  <2> QED BY <1>1, <2>1, <2>2 DEF SelectionInv
<1>10. CacheSound'
  BY <1>6, CacheStaysSound DEF SelectionInv
<1>11. run'.pc \in {"batch", "passed"}
  BY <1>5
<1> QED BY <1>6, <1>8, <1>9, <1>10, <1>11 DEF SelectionInv

\* The messages of a region the scorer found low were found low in this light.
LEMMA RegionFoundLow ==
  ASSUME NEW q \in Incoming, NEW n \in DOMAIN Regions(q), NEW i \in Regions(q)[n], NEW policy,
         NEW known, <<Surroundings(q), Content(q, n), policy>> \in known
  PROVE  /\ i \in 1..Cutoff(q) /\ q[i] \in Plain /\ i \in DOMAIN q
         /\ \E fact \in known :
              /\ fact[1] = Surroundings(q) /\ <<i, q[i]>> \in fact[2] /\ fact[3] = policy
              /\ q[i] \in Structured => fact[2] = {<<i, q[i]>>}
<1>1. Sound(q, Regions(q)[n])
  BY RegionsSound
<1>2. i \in 1..Cutoff(q) /\ q[i] \in Plain /\ (q[i] \in Structured => Regions(q)[n] = {i})
  BY <1>1 DEF Sound
<1>3. <<i, q[i]>> \in Content(q, n)
  BY DEF Content
<1>4. q[i] \in Structured => Content(q, n) = {<<i, q[i]>>}
  BY <1>2 DEF Content
<1>5. i \in DOMAIN q
  BY <1>2, CutoffFacts
<1>6. PICK content : content = Content(q, n)
  OBVIOUS
<1>7. PICK fact : fact = <<Surroundings(q), content, policy>>
  OBVIOUS
<1>8. fact \in known /\ fact[1] = Surroundings(q) /\ fact[2] = content /\ fact[3] = policy
  BY <1>6, <1>7
<1> QED BY <1>2, <1>3, <1>4, <1>5, <1>6, <1>8

LEMMA ApplyPreserves ==
  ASSUME SelectionInv, Asking, NEW said, Apply(run.request, said),
         DOMAIN said = ToSet(NextBatch(run.request, run.remaining)[1]),
         \A n \in DOMAIN said : said[n] = "low" =>
           <<Surroundings(run.request), Content(run.request, n), run.policy>> \in told',
         told \subseteq told', UNCHANGED <<mode, catalog>>
  PROVE  Making' /\ run'.pc = "batch"
<1>0. PICK q : q = run.request
  OBVIOUS
<1>1. run.pc = "batch" /\ Making /\ q \in Incoming
  BY <1>0 DEF SelectionInv, Asking, At, Making, SelectionRun
<1>2. PICK batch, rest : batch = NextBatch(q, run.remaining)[1] /\ rest = NextBatch(q, run.remaining)[2]
  OBVIOUS
<1>3. batch \in Seq(DOMAIN Regions(q)) /\ rest \in Seq(DOMAIN Regions(q))
  BY <1>0, <1>1, <1>2, NextBatchIsPart DEF Making
<1>4. DOMAIN said \subseteq DOMAIN Regions(q) /\ DOMAIN Regions(q) \subseteq Nat
  BY <1>0, <1>1, <1>2, <1>3, SequenceOfItsElements, RegionNumbers
<1> DEFINE scored == {n \in DOMAIN said : said[n] # "missing"}
           low == {n \in scored : said[n] = "low"}
           Of(ns) == UNION {Regions(q)[n] : n \in ns}
<1>5. PICK permitted \in SUBSET low :
        run' = [run EXCEPT !.remaining = NextBatch(run.request, @)[2], !.batches = @ + 1,
                  !.plan.omitted = @ \cup {i \in UNION {Regions(run.request)[n] : n \in permitted} :
                                             MayOmit(run.request, i)},
                  !.plan.attention = @ \cup {<<i, run.request[i]>> :
                                               i \in UNION {Regions(run.request)[n] : n \in scored}}]
  <2>1. \E permitted \in IF run.policy = "none" THEN {low} ELSE SUBSET low :
          run' = [run EXCEPT !.remaining = NextBatch(run.request, @)[2], !.batches = @ + 1,
                    !.plan.omitted = @ \cup {i \in UNION {Regions(run.request)[n] : n \in permitted} :
                                               MayOmit(run.request, i)},
                    !.plan.attention = @ \cup {<<i, run.request[i]>> :
                                                 i \in UNION {Regions(run.request)[n] : n \in scored}}]
    BY DEF Apply
  <2>2. (IF run.policy = "none" THEN {low} ELSE SUBSET low) \subseteq SUBSET low
    OBVIOUS
  <2> HIDE DEF low, scored
  <2> QED BY <2>1, <2>2
<1>23. PICK omit, att :
         /\ omit = {i \in UNION {Regions(run.request)[n] : n \in permitted} : MayOmit(run.request, i)}
         /\ att = {<<i, run.request[i]>> : i \in UNION {Regions(run.request)[n] : n \in scored}}
  OBVIOUS
<1>6. omit = {i \in Of(permitted) : MayOmit(q, i)} /\ att = {<<i, q[i]>> : i \in Of(scored)}
  BY <1>0, <1>23
<1>22. PICK policy : policy = run.policy
  OBVIOUS
<1>7. ASSUME NEW i \in omit
      PROVE  /\ i \in 1..Cutoff(q) /\ i \in DOMAIN q /\ q[i] \in Plain /\ MayOmit(q, i)
             /\ FoundLow(q, i, policy)'
  <2>1. PICK n \in permitted : i \in Regions(q)[n]
    BY <1>6
  <2>2. n \in DOMAIN Regions(q) /\ <<Surroundings(q), Content(q, n), run.policy>> \in told'
    BY <1>0, <1>4, <2>1
  <2>4. PICK known : known = told'
    OBVIOUS
  <2>5. /\ i \in 1..Cutoff(q) /\ q[i] \in Plain /\ i \in DOMAIN q
        /\ \E fact \in known :
              /\ fact[1] = Surroundings(q) /\ <<i, q[i]>> \in fact[2] /\ fact[3] = policy
              /\ q[i] \in Structured => fact[2] = {<<i, q[i]>>}
    BY <1>1, <1>22, <2>1, <2>2, <2>4, RegionFoundLow
  <2> QED BY <1>6, <2>4, <2>5 DEF FoundLow
<1>8. ASSUME NEW score \in att
      PROVE  /\ score[1] \in 1..Cutoff(q) /\ score[1] \in DOMAIN q /\ score = <<score[1], q[score[1]]>>
  <2>1. PICK n \in scored : \E i \in Regions(q)[n] : score = <<i, q[i]>>
    BY <1>6
  <2>2. PICK i \in Regions(q)[n] : score = <<i, q[i]>>
    BY <2>1
  <2>3. n \in DOMAIN Regions(q)
    BY <1>4
  <2>4. i \in 1..Cutoff(q)
    BY <1>1, <2>2, <2>3, RegionsSound DEF Sound
  <2>5. i \in DOMAIN q
    BY <1>1, <2>4, CutoffFacts
  <2> QED BY <2>2, <2>4, <2>5
<1>9. omit \subseteq Nat /\ att \subseteq Nat \X Sent
  <2>1. Cutoff(q) \in Nat
    BY <1>1, CutoffFacts
  <2>2. \A i \in DOMAIN q : q[i] \in Sent
    BY <1>1, RequestFacts DEF Sent
  <2> QED BY <1>7, <1>8, <2>1, <2>2
<1> HIDE DEF scored, low, Of
<1>10. run \in SelectionRun
  BY <1>1 DEF Making
<1>11. /\ run.plan \in Edits /\ run.batches \in Nat
  BY <1>10 DEF SelectionRun
<1>12. PICK plan : plan = [run.plan EXCEPT !.omitted = @ \cup omit, !.attention = @ \cup att]
  OBVIOUS
<1>13. /\ plan \in Edits /\ plan.omitted = run.plan.omitted \cup omit
       /\ plan.attention = run.plan.attention \cup att
       /\ plan.recalled = run.plan.recalled /\ plan.failed = run.plan.failed
  BY <1>9, <1>11, <1>12 DEF Edits
<1>14. run' = [run EXCEPT !.remaining = rest, !.batches = @ + 1, !.plan = plan]
  BY <1>0, <1>2, <1>5, <1>23, <1>10, <1>11, <1>12 DEF SelectionRun, Edits
<1>15. rest \in Seq(Nat)
  BY <1>3, <1>4
<1>16. /\ run' \in SelectionRun
       /\ run'.pc = run.pc /\ run'.request = q /\ run'.shadow = run.shadow /\ run'.policy = run.policy
       /\ run'.baseline = run.baseline /\ run'.plan = plan /\ run'.remaining = rest
  <2>1. run.batches + 1 \in Nat
    BY <1>11
  <2>2. run' \in SelectionRun
    BY <1>10, <1>13, <1>14, <1>15, <2>1 DEF SelectionRun
  <2>3. DOMAIN run = {"pc", "request", "caller", "working", "policy", "batches", "remaining",
                      "plan", "shadow", "baseline"}
    BY <1>10 DEF SelectionRun
  <2> QED BY <1>0, <1>14, <2>2, <2>3
<1>17. ~plan.failed /\ ToSet(q) \subseteq catalog
  BY <1>0, <1>1, <1>13 DEF Making
<1>18. InForce' = InForce
  BY DEF InForce
<1>19. run.shadow => mode' = "shadow" /\ PlanSound(run.request, run.baseline)'
  <2> SUFFICES ASSUME run.shadow PROVE mode' = "shadow" /\ PlanSound(run.request, run.baseline)'
    OBVIOUS
  <2>1. PICK baseline : baseline = run.baseline
    OBVIOUS
  <2>2. mode = "shadow" /\ PlanSound(q, baseline)
    BY <1>0, <1>1, <2>1 DEF Making
  <2>3. PlanSound(q, baseline)'
    BY <2>2, PlanStaysSound
  <2>4. run'.request = q /\ run'.baseline = baseline
    BY <1>16, <2>1
  <2> QED BY <2>2, <2>3, <2>4 DEF PlanSound
<1>20. ~run.shadow => run.policy = InForce' /\ PlanSound(run.request, run.plan)'
  <2> SUFFICES ASSUME ~run.shadow PROVE run.policy = InForce' /\ PlanSound(run.request, run.plan)'
    OBVIOUS
  <2>1. PICK old : old = run.plan
    OBVIOUS
  <2>2. run.policy = InForce /\ PlanSound(q, old)
    BY <1>0, <1>1, <2>1 DEF Making
  <2>3. PlanSound(q, old)'
    BY <2>2, PlanStaysSound
  <2>4. \A i \in omit : /\ i \in 1..Cutoff(q) /\ q[i] \in Plain \cap catalog' /\ MayOmit(q, i)
                        /\ FoundLow(q, i, InForce)'
    <3> SUFFICES ASSUME NEW i \in omit
                 PROVE  /\ i \in 1..Cutoff(q) /\ q[i] \in Plain \cap catalog' /\ MayOmit(q, i)
                        /\ FoundLow(q, i, InForce)'
      OBVIOUS
    <3>1. q[i] \in catalog'
      BY <1>1, <1>7, <1>17, RequestFacts
    <3>2. FoundLow(q, i, InForce)'
      BY <1>7, <1>18, <1>22, <2>2 DEF FoundLow
    <3> QED BY <1>7, <3>1, <3>2
  <2>5. \A score \in att : score[1] \in 1..Cutoff(q) /\ score = <<score[1], q[score[1]]>>
    BY <1>8
  <2>6. run'.request = q /\ run'.plan = plan
    BY <1>16
  <2>7. PlanSound(q, plan)'
    BY <1>13, <1>17, <2>1, <2>3, <2>4, <2>5 DEF PlanSound
  <2> QED BY <1>18, <2>2, <2>6, <2>7 DEF PlanSound
<1>21. Making'
  BY <1>1, <1>3, <1>16, <1>17, <1>19, <1>20 DEF Making
<1> QED BY <1>1, <1>16, <1>21

\* What the steps of a pass leave to show.
LEMMA PassStep ==
  ASSUME SelectionInv, UNCHANGED <<mode, catalog>>, CacheSound', Making'
  PROVE  SelectionInv'
BY DEF SelectionInv, Making, SelectionRun

LEMMA KeyParts ==
  ASSUME NEW key, key = NextKey
  PROVE  LET batch == NextBatch(run.request, run.remaining)[1] IN
         /\ key[1] = Surroundings(run.request) /\ key[3] = run.policy
         /\ DOMAIN key[2] = ToSet(batch) /\ \A n \in ToSet(batch) : key[2][n] = Content(run.request, n)
<1>1. key = Key(run.request, NextBatch(run.request, run.remaining)[1], run.policy)
  BY DEF NextKey
<1> QED BY <1>1 DEF Key

LEMMA CacheHitPreserves ==
  ASSUME SelectionInv, CacheHit
  PROVE  SelectionInv'
<1>1. PICK k \in DOMAIN cache : cache[k][1] = NextKey /\ Apply(run.request, cache[k][2])
  BY DEF CacheHit
<1>2. Asking /\ UNCHANGED <<mode, cache, catalog, told, begun>>
  BY DEF CacheHit
<1>3. PICK entry : entry = cache[k]
  OBVIOUS
<1>4. entry \in ToSet(cache) /\ CacheSound
  BY <1>3 DEF ToSet, SelectionInv
<1>5. Backed(entry)
  BY <1>4 DEF CacheSound
<1>6. PICK key, said : key = entry[1] /\ said = entry[2]
  OBVIOUS
<1>7. /\ key[1] = Surroundings(run.request) /\ key[3] = run.policy
      /\ DOMAIN key[2] = ToSet(NextBatch(run.request, run.remaining)[1])
      /\ \A n \in ToSet(NextBatch(run.request, run.remaining)[1]) : key[2][n] = Content(run.request, n)
  BY <1>1, <1>3, <1>6, KeyParts
<1>8. DOMAIN said = ToSet(NextBatch(run.request, run.remaining)[1])
  BY <1>5, <1>6, <1>7 DEF Backed
<1>9. \A n \in DOMAIN said : said[n] = "low" =>
        <<Surroundings(run.request), Content(run.request, n), run.policy>> \in told'
  BY <1>2, <1>5, <1>6, <1>7, <1>8 DEF Backed
<1>10. Apply(run.request, said)
  BY <1>1, <1>3, <1>6
<1>11. Making'
  BY <1>2, <1>8, <1>9, <1>10, ApplyPreserves
<1>12. CacheSound'
  BY <1>2, <1>4, CacheStaysSound
<1> QED BY <1>2, <1>11, <1>12, PassStep

LEMMA RememberSound ==
  ASSUME CacheSound, told \subseteq told', NEW key, NEW said, Remember(key, said),
         DOMAIN said = DOMAIN key[2],
         \A n \in DOMAIN said : said[n] = "low" => <<key[1], key[2][n], key[3]>> \in told'
  PROVE  CacheSound'
<1>1. PICK entry : entry = <<key, said>>
  OBVIOUS
<1>2. entry[1] = key /\ entry[2] = said
  BY <1>1
<1>3. Backed(entry)'
  BY <1>2 DEF Backed
<1>4. PICK kept : kept = IF Len(cache) >= CacheSize THEN Tail(cache) ELSE cache
  OBVIOUS
<1>5. PICK E : E = ToSet(cache)
  OBVIOUS
<1>6. cache \in Seq(E) /\ \A e \in E : Backed(e)
  BY <1>5 DEF CacheSound
<1>7. kept \in Seq(E)
  <2>1. CASE Len(cache) >= CacheSize
    <3>1. cache # <<>>
      BY <1>6, <2>1, LimitsAssumption
    <3> QED BY <1>4, <1>6, <2>1, <3>1
  <2>2. CASE ~(Len(cache) >= CacheSize)
    BY <1>4, <1>6, <2>2
  <2> QED BY <2>1, <2>2
<1>8. cache' = Append(kept, entry)
  BY <1>1, <1>4 DEF Remember
<1>9. cache' \in Seq(E \cup {entry})
  BY <1>7, <1>8
<1>10. cache' \in Seq(ToSet(cache')) /\ ToSet(cache') \subseteq E \cup {entry}
  BY <1>9, SequenceOfItsElements
<1>11. \A e \in E : Backed(e)'
  BY <1>6 DEF Backed
<1>12. \A e \in ToSet(cache') : Backed(e)'
  BY <1>3, <1>10, <1>11
<1> QED BY <1>10, <1>12 DEF CacheSound, ToSet

LEMMA ScoredPreserves ==
  ASSUME SelectionInv, Scored
  PROVE  SelectionInv'
<1>0. PICK batch : batch = NextBatch(run.request, run.remaining)[1]
  OBVIOUS
<1>1. PICK said \in [ToSet(batch) -> {"low", "high", "missing"}] :
        /\ Apply(run.request, said)
        /\ IF \A n \in DOMAIN said : said[n] # "missing"
           THEN Remember(NextKey, said) ELSE UNCHANGED cache
        /\ told' = told \cup {<<Surroundings(run.request), Content(run.request, n), run.policy>> :
                                n \in {x \in DOMAIN said : said[x] = "low"}}
  BY <1>0 DEF Scored
<1>2. Asking /\ UNCHANGED <<mode, catalog>>
  BY DEF Scored
<1>3. told \subseteq told'
  BY <1>1
<1>4. \A n \in DOMAIN said : said[n] = "low" =>
        <<Surroundings(run.request), Content(run.request, n), run.policy>> \in told'
  BY <1>1
<1>5. DOMAIN said = ToSet(batch)
  BY <1>1
<1>6. Making'
  BY <1>0, <1>1, <1>2, <1>3, <1>4, <1>5, ApplyPreserves
<1>7. CacheSound'
  <2>1. CASE UNCHANGED cache
    BY <1>3, <2>1, CacheStaysSound DEF SelectionInv
  <2>2. CASE Remember(NextKey, said)
    <3>1. PICK key : key = NextKey
      OBVIOUS
    <3>2. /\ key[1] = Surroundings(run.request) /\ key[3] = run.policy
          /\ DOMAIN key[2] = ToSet(batch) /\ \A n \in ToSet(batch) : key[2][n] = Content(run.request, n)
      BY <1>0, <3>1, KeyParts
    <3>3. \A n \in DOMAIN said : said[n] = "low" => <<key[1], key[2][n], key[3]>> \in told'
      BY <1>4, <1>5, <3>2
    <3>4. Remember(key, said) /\ CacheSound
      BY <2>2, <3>1 DEF SelectionInv
    <3>5. DOMAIN said = DOMAIN key[2]
      BY <1>5, <3>2
    <3> QED BY <1>3, <3>3, <3>4, <3>5, RememberSound
  <2> QED BY <1>1, <2>1, <2>2
<1> QED BY <1>2, <1>6, <1>7, PassStep

\* A pass that goes on, or fails, with its request and its policy.
LEMMA PassContinues ==
  ASSUME SelectionInv, run.pc \in {"batch", "recall"}, NEW pc \in {"recall", "passed"}, NEW plan \in Edits,
         run' = [run EXCEPT !.pc = pc, !.plan = plan],
         UNCHANGED <<mode, cache, catalog, told>>,
         pc = "recall" => ~plan.failed,
         PlanSound(run.request, run.plan) => PlanSound(run.request, plan)
  PROVE  SelectionInv'
<1>1. Making /\ run \in SelectionRun
  BY DEF SelectionInv, Making
<1>2. run' \in SelectionRun
  BY <1>1 DEF SelectionRun
<1>3. DOMAIN run = {"pc", "request", "caller", "working", "policy", "batches", "remaining",
                    "plan", "shadow", "baseline"}
  BY <1>1 DEF SelectionRun
<1>4. /\ run'.pc = pc /\ run'.request = run.request /\ run'.shadow = run.shadow
      /\ run'.policy = run.policy /\ run'.baseline = run.baseline /\ run'.plan = plan
      /\ run'.remaining = run.remaining
  BY <1>3
<1>5. InForce' = InForce
  BY DEF InForce
<1>6. PICK q, baseline : q = run.request /\ baseline = run.baseline
  OBVIOUS
<1>7. (PlanSound(q, baseline) => PlanSound(q, baseline)') /\ (PlanSound(q, plan) => PlanSound(q, plan)')
  BY PlanStaysSound
<1>8. run.shadow => mode' = "shadow" /\ PlanSound(run.request, run.baseline)'
  <2> SUFFICES ASSUME run.shadow PROVE mode' = "shadow" /\ PlanSound(run.request, run.baseline)'
    OBVIOUS
  <2>1. mode = "shadow" /\ PlanSound(q, baseline)'
    BY <1>1, <1>6, <1>7 DEF Making
  <2> QED BY <1>4, <1>6, <2>1 DEF PlanSound
<1>9. ~run.shadow => run.policy = InForce' /\ PlanSound(run.request, run.plan)'
  <2> SUFFICES ASSUME ~run.shadow PROVE run.policy = InForce' /\ PlanSound(run.request, run.plan)'
    OBVIOUS
  <2>1. run.policy = InForce' /\ PlanSound(q, plan)'
    BY <1>1, <1>5, <1>6, <1>7 DEF Making
  <2> QED BY <1>4, <1>6, <2>1 DEF PlanSound
<1>10. Making'
  BY <1>1, <1>2, <1>4, <1>8, <1>9 DEF Making
<1>11. CacheSound'
  BY CacheStaysSound DEF SelectionInv
<1> QED BY <1>10, <1>11, PassStep

LEMMA ScorerFailsPreserves ==
  ASSUME SelectionInv, ScorerFails
  PROVE  SelectionInv'
<1>1. run.pc = "batch" /\ run' = [run EXCEPT !.pc = "passed", !.plan = Failed]
  BY DEF ScorerFails, Asking, At
<1>2. UNCHANGED <<mode, cache, catalog, told>>
  BY DEF ScorerFails
<1> QED BY <1>1, <1>2, NoEditsSound, PassContinues

LEMMA EndScoringPreserves ==
  ASSUME SelectionInv, EndScoring
  PROVE  SelectionInv'
<1>1. run.pc = "batch" /\ run' = [run EXCEPT !.pc = "recall"]
  BY DEF EndScoring, At
<1>2. UNCHANGED <<mode, cache, catalog, told>>
  BY DEF EndScoring
<1>3. Making /\ run \in SelectionRun
  BY <1>1 DEF SelectionInv, Making
<1>4. run.plan \in Edits /\ ~run.plan.failed
  BY <1>1, <1>3 DEF Making, SelectionRun
<1>5. PICK plan : plan = run.plan
  OBVIOUS
<1>6. run' = [run EXCEPT !.pc = "recall", !.plan = plan]
  BY <1>1, <1>3, <1>5 DEF SelectionRun
<1> QED BY <1>1, <1>2, <1>4, <1>5, <1>6, PassContinues

\* What is recalled was captured, and is not in the request.
LEMMA RecalledIsMissing ==
  ASSUME SelectionInv, NEW q, NEW S \in BestHits(q) \cup {{}}, NEW recalled \in Recalls(q, S)
  PROVE  recalled \in Seq(Sent) /\ \A k \in DOMAIN recalled : recalled[k] \notin ToSet(q)
<1>2. S \subseteq catalog \ ToSet(q)
  <2>1. CASE S \in BestHits(q)
    <3>1. PICK found \in Best(q, FindLimit, Mentions(q)) : S \in Best(q, RecallSources, Hits(q, found))
      BY <2>1 DEF BestHits
    <3>2. found \subseteq Mentions(q) /\ S \subseteq Hits(q, found)
      BY <3>1 DEF Best, kSubset
    <3> QED BY <3>2 DEF Mentions, Hits
  <2> QED BY <2>1
<1>3. Cardinality(S) \in Nat
  BY <1>2, FS_Subset, FS_CardinalityType DEF SelectionInv
<1>4. recalled \in [1..Cardinality(S) -> S]
  BY DEF Recalls, SetToSeqs
<1>5. recalled \in Seq(S)
  BY <1>3, <1>4
<1>6. S \subseteq Sent
  BY <1>2 DEF SelectionInv
<1> QED BY <1>2, <1>4, <1>5, <1>6

LEMMA RecallPreserves ==
  ASSUME SelectionInv, Recall
  PROVE  SelectionInv'
<1>1. run.pc = "recall" /\ UNCHANGED <<mode, cache, catalog, told>>
  BY DEF Recall, At
<1>2. Making /\ run \in SelectionRun
  BY <1>1 DEF SelectionInv, Making
<1>3. run.plan \in Edits /\ ~run.plan.failed
  BY <1>1, <1>2 DEF Making, SelectionRun
<1>4. CASE \E S \in IF run.caller = "chat" THEN {{}} ELSE BestHits(run.request) :
             \E recalled \in Recalls(run.request, S) :
               run' = [run EXCEPT !.pc = "passed", !.plan.recalled = recalled]
  <2>1. PICK S \in BestHits(run.request) \cup {{}} : \E recalled \in Recalls(run.request, S) :
               run' = [run EXCEPT !.pc = "passed", !.plan.recalled = recalled]
    BY <1>4
  <2>2. PICK recalled \in Recalls(run.request, S) :
               run' = [run EXCEPT !.pc = "passed", !.plan.recalled = recalled]
    BY <2>1
  <2>3. recalled \in Seq(Sent) /\ \A k \in DOMAIN recalled : recalled[k] \notin ToSet(run.request)
    BY RecalledIsMissing
  <2>4. PICK plan : plan = [run.plan EXCEPT !.recalled = recalled]
    OBVIOUS
  <2>5. plan \in Edits
    BY <1>3, <2>3, <2>4 DEF Edits
  <2>6. /\ plan.omitted = run.plan.omitted /\ plan.attention = run.plan.attention
        /\ plan.recalled = recalled /\ ~plan.failed
    BY <1>3, <2>4 DEF Edits
  <2>7. PlanSound(run.request, run.plan) => PlanSound(run.request, plan)
    BY <2>3, <2>6 DEF PlanSound
  <2>8. run' = [run EXCEPT !.pc = "passed", !.plan = plan]
    BY <1>2, <2>2, <2>4 DEF SelectionRun
  <2> QED BY <1>1, <2>5, <2>7, <2>8, PassContinues
<1>5. CASE run' = [run EXCEPT !.pc = "passed", !.plan = Failed]
  BY <1>1, <1>5, NoEditsSound, PassContinues
<1>6. CASE /\ mode = "shadow" /\ ~run.shadow
           /\ run' = [run EXCEPT !.pc = "passed", !.shadow = TRUE, !.baseline = Failed]
  <2>1. run' \in SelectionRun
    BY <1>2, <1>6, NoEditsSound DEF SelectionRun
  <2>2. DOMAIN run = {"pc", "request", "caller", "working", "policy", "batches", "remaining",
                      "plan", "shadow", "baseline"}
    BY <1>2 DEF SelectionRun
  <2>3. /\ run'.pc = "passed" /\ run'.request = run.request /\ run'.shadow = TRUE
        /\ run'.remaining = run.remaining /\ run'.baseline = Failed
    BY <1>6, <2>2
  <2>4. PlanSound(run.request, run.baseline)'
    <3>1. /\ run'.baseline.omitted = {} /\ run'.baseline.attention = {} /\ run'.baseline.recalled = <<>>
      BY <2>3 DEF NoEdits, Failed
    <3>2. DOMAIN <<>> = {}
      OBVIOUS
    <3> QED BY <3>1, <3>2 DEF PlanSound
  <2>5. Making'
    BY <1>1, <1>2, <1>6, <2>1, <2>3, <2>4 DEF Making
  <2>6. CacheSound'
    BY <1>1, CacheStaysSound DEF SelectionInv
  <2> QED BY <1>1, <2>5, <2>6, PassStep
<1> QED BY <1>4, <1>5, <1>6 DEF Recall

LEMMA BeginShadowPreserves ==
  ASSUME SelectionInv, BeginShadow
  PROVE  SelectionInv'
<1>1. PICK loaded \in BOOLEAN :
        run' = Pass(run.request, run.caller, run.working, "policy", loaded, TRUE, run.plan)
  BY DEF BeginShadow
<1>2. /\ run.pc = "passed" /\ mode = "shadow" /\ ~run.shadow
      /\ UNCHANGED <<mode, cache, catalog, told>>
  BY DEF BeginShadow, At
<1>3. Making /\ run \in SelectionRun
  BY <1>2 DEF SelectionInv, Making
<1>4. PICK q, baseline : q = run.request /\ baseline = run.plan
  OBVIOUS
<1>5. q \in Incoming /\ run.caller \in {"engine", "chat"} /\ run.working \in SUBSET Nat /\ baseline \in Edits
  BY <1>3, <1>4 DEF SelectionRun
<1>6. run' \in SelectionRun /\ run'.remaining \in Seq(DOMAIN Regions(q))
  BY <1>1, <1>4, <1>5, PassBegins
<1>7. /\ run'.request = q /\ run'.shadow = TRUE /\ run'.baseline = baseline
      /\ run'.pc = IF loaded THEN "batch" ELSE "passed"
      /\ run'.plan = IF loaded THEN NoEdits ELSE Failed
  BY <1>1, <1>4 DEF Pass
<1>8. PlanSound(run.request, run.baseline)'
  <2>1. PlanSound(q, baseline)
    BY <1>2, <1>3, <1>4 DEF Making
  <2>2. PlanSound(q, baseline)'
    BY <1>2, <2>1, PlanStaysSound
  <2> QED BY <1>7, <2>2 DEF PlanSound
<1>9. run'.pc # "passed" => ~run'.plan.failed
  BY <1>7, NoEditsSound
<1>10. ToSet(q) \subseteq catalog'
  BY <1>2, <1>3, <1>4 DEF Making
<1>11. Making'
  BY <1>2, <1>6, <1>7, <1>8, <1>9, <1>10 DEF Making
<1>12. CacheSound'
  BY <1>2, CacheStaysSound DEF SelectionInv
<1> QED BY <1>2, <1>11, <1>12, PassStep

\* The plan that is chosen is the one that was made for the request as it is.
LEMMA ChosenSound ==
  ASSUME SelectionInv, Selected
  PROVE  /\ Making /\ run \in SelectionRun /\ run.request \in Incoming
         /\ Chosen \in Edits /\ PlanSound(run.request, Chosen)
<1>1. run.pc = "passed" /\ (mode = "shadow" => run.shadow)
  BY DEF Selected, At
<1>2. Making /\ run \in SelectionRun
  BY <1>1 DEF SelectionInv, Making
<1>3. /\ run.request \in Incoming /\ run.plan \in Edits /\ run.baseline \in Edits /\ run.shadow \in BOOLEAN
  BY <1>2 DEF SelectionRun
<1>4. CASE mode = "shadow"
  BY <1>1, <1>2, <1>3, <1>4 DEF Making, Chosen
<1>5. CASE mode # "shadow"
  BY <1>1, <1>2, <1>3, <1>5 DEF Making, Chosen
<1> QED BY <1>2, <1>3, <1>4, <1>5

\* A request is taken with a plan made for it.
LEMMA TakenPreserves ==
  ASSUME SelectionInv, UNCHANGED <<mode, cache, catalog, told>>, run'.pc = "taken",
         NEW q \in Incoming, NEW plan \in Edits, PlanSound(q, plan),
         run'.request = q, run'.plan = plan, run'.out = Final(q, plan),
         run'.caller = "chat" /\ plan.omitted # {} =>
           /\ Tokens(q, run'.working, plan.omitted) <= Budget
           /\ Tokens(q, run'.working, plan.omitted \ {Max(plan.omitted)}) > Budget
  PROVE  SelectionInv'
<1>1. PlanSound(q, plan)'
  BY PlanStaysSound
<1>2. PlanSound(run.request, run.plan)'
  BY <1>1 DEF PlanSound
<1>3. Made'
  BY <1>2 DEF Made
<1>4. CacheSound'
  BY CacheStaysSound DEF SelectionInv
<1> QED BY <1>3, <1>4 DEF SelectionInv

LEMMA EngineTakesPreserves ==
  ASSUME SelectionInv, EngineTakes
  PROVE  SelectionInv'
<1>1. Selected /\ UNCHANGED <<mode, cache, catalog, told>> /\ run.caller = "engine"
  BY DEF EngineTakes
<1>2. PICK q, plan : q = run.request /\ plan = Chosen
  OBVIOUS
<1>3. q \in Incoming /\ plan \in Edits /\ PlanSound(q, plan)
  BY <1>1, <1>2, ChosenSound
<1>4. run' = [pc |-> "taken", request |-> q, caller |-> run.caller, working |-> {},
              plan |-> plan, out |-> Final(q, plan)]
  BY <1>2 DEF EngineTakes
<1>5. /\ run'.pc = "taken" /\ run'.request = q /\ run'.plan = plan /\ run'.out = Final(q, plan)
      /\ run'.caller # "chat"
  BY <1>1, <1>4
<1> QED BY <1>1, <1>3, <1>5, TakenPreserves

LEMMA ChatTakesPreserves ==
  ASSUME SelectionInv, ChatTakes
  PROVE  SelectionInv'
<1>1. Selected /\ UNCHANGED <<mode, cache, catalog, told>>
  BY DEF ChatTakes
<1>2. PICK q, chosen, working : q = run.request /\ chosen = Chosen /\ working = run.working
  OBVIOUS
<1>3. q \in Incoming /\ chosen \in Edits /\ PlanSound(q, chosen)
  BY <1>1, <1>2, ChosenSound
<1>4. PICK omitted : omitted = MinimumOmissions(q, working, chosen.omitted)
  OBVIOUS
<1>5. PICK sent : sent = IF Tokens(q, working, omitted) <= Budget THEN omitted ELSE {}
  OBVIOUS
<1>6. PICK plan : plan = [chosen EXCEPT !.omitted = sent]
  OBVIOUS
<1>7. run' = [pc |-> "taken", request |-> q, caller |-> run.caller, working |-> working,
              plan |-> plan, out |-> Final(q, plan)]
  BY <1>2, <1>4, <1>5, <1>6 DEF ChatTakes
<1>8. Needed(q, working, chosen.omitted, DOMAIN q, omitted)
  BY <1>3, <1>4, OmissionsNeeded
<1>9. sent \subseteq chosen.omitted
  BY <1>5, <1>8 DEF Needed
<1>10. plan \in Edits
  BY <1>3, <1>6, <1>9 DEF Edits
<1>11. /\ plan.omitted = sent /\ plan.attention = chosen.attention
       /\ plan.recalled = chosen.recalled /\ plan.failed = chosen.failed
  BY <1>3, <1>6 DEF Edits
<1>12. PlanSound(q, plan)
  BY <1>3, <1>9, <1>11 DEF PlanSound
<1>13. sent # {} => /\ Tokens(q, working, sent) <= Budget
                    /\ Tokens(q, working, sent \ {Max(sent)}) > Budget
  BY <1>5, <1>8 DEF Needed
<1>14. /\ run'.pc = "taken" /\ run'.request = q /\ run'.plan = plan /\ run'.out = Final(q, plan)
       /\ run'.working = working
  BY <1>7
<1> QED BY <1>1, <1>3, <1>10, <1>11, <1>12, <1>13, <1>14, TakenPreserves

LEMMA SelectionPreserved == SelectionInv /\ [SelectionNext]_selectionVars => SelectionInv'
<1> SUFFICES ASSUME SelectionInv, [SelectionNext]_selectionVars PROVE SelectionInv'
  OBVIOUS
<1>1. CASE \E q \in Incoming, caller \in {"engine", "chat"} : BeginSelection(q, caller)
  BY <1>1, BeginPreserves
<1>2. CASE Deliver
  <2>1. run'.pc = "idle" /\ UNCHANGED <<mode, cache, catalog, told>>
    BY <1>2 DEF Deliver, NoSelection
  <2>2. CacheSound'
    BY <2>1, CacheStaysSound DEF SelectionInv
  <2> QED BY <2>1, <2>2 DEF SelectionInv
<1>3. CASE RenewEngine
  <2>1. /\ run'.pc = "idle" /\ mode' = mode /\ cache' = <<>> /\ catalog' \in {catalog, {}}
    BY <1>3 DEF RenewEngine, At
  <2>2. CacheSound'
    BY <2>1 DEF CacheSound, ToSet
  <2>3. catalog' \subseteq Sent /\ IsFiniteSet(catalog')
    BY <2>1, FS_EmptySet DEF SelectionInv
  <2> QED BY <2>1, <2>2, <2>3 DEF SelectionInv
<1>4. CASE UNCHANGED selectionVars
  <2>1. UNCHANGED <<mode, cache, catalog, run, told>>
    BY <1>4 DEF selectionVars
  <2>2. CacheSound'
    BY <2>1, CacheStaysSound DEF SelectionInv
  <2>3. Making => Making'
    BY <2>1 DEF Making, PlanSound, FoundLow, InForce
  <2>4. Made => Made'
    BY <2>1 DEF Made, PlanSound, FoundLow, InForce
  <2> QED BY <2>1, <2>2, <2>3, <2>4 DEF SelectionInv
<1> QED BY <1>1, <1>2, <1>3, <1>4, CacheHitPreserves, ScoredPreserves, ScorerFailsPreserves,
           EndScoringPreserves, RecallPreserves, BeginShadowPreserves, EngineTakesPreserves,
           ChatTakesPreserves DEF SelectionNext

\* Every plan is made of what the scorer said of its request, under every request,
\* answer, failure and policy, and so is every entry of the cache.
THEOREM SelectionInvariant == SelectionSpec => []SelectionInv
BY InitSelection, SelectionPreserved, PTL DEF SelectionSpec

\* What a request omits was found low in the light of this very request
\* (history_selection.py:260-397), however the answer was come by.
THEOREM SelectionOmissionsScored == SelectionSpec => []OmissionsAreScored
<1>1. SelectionInv => OmissionsAreScored
  <2> SUFFICES ASSUME SelectionInv, run.pc = "taken", NEW i \in run.plan.omitted
               PROVE  LET q == run.request
                          policy == IF mode = "active" THEN "policy" ELSE "none"
                      IN /\ i <= Len(q) - ProtectLast /\ i < Current(q)
                         /\ q[i] \in Plain \cap catalog /\ MayOmit(q, i)
                         /\ \E fact \in told :
                              /\ fact[1] = Surroundings(q) /\ <<i, q[i]>> \in fact[2] /\ fact[3] = policy
                              /\ q[i] \in Structured => fact[2] = {<<i, q[i]>>}
    BY DEF OmissionsAreScored, At
  <2>1. PICK q, plan : q = run.request /\ plan = run.plan
    OBVIOUS
  <2>2. q \in Incoming /\ PlanSound(q, plan)
    BY <2>1 DEF SelectionInv, Made
  <2>3. i \in 1..Cutoff(q) /\ q[i] \in Plain \cap catalog /\ MayOmit(q, i) /\ FoundLow(q, i, InForce)
    BY <2>1, <2>2 DEF PlanSound
  <2>4. i <= Len(q) - ProtectLast /\ i < Current(q)
    BY <2>2, <2>3, CutoffFacts
  <2> QED BY <2>1, <2>3, <2>4 DEF FoundLow, InForce
<1> QED BY <1>1, SelectionInvariant, PTL

\* A chat request omits no more than brings it within its budget
\* (chat_target.py:45-82).
THEOREM SelectionOmissionsNeeded == SelectionSpec => []OmissionsAreNeeded
<1>1. SelectionInv => OmissionsAreNeeded
  BY DEF SelectionInv, Made, OmissionsAreNeeded, At
<1> QED BY <1>1, SelectionInvariant, PTL

LEMMA Concatenation ==
  ASSUME NEW S, NEW s \in Seq(S), NEW t \in Seq(S), NEW u, u = s \o t
  PROVE  /\ u \in Seq(S) /\ Len(u) = Len(s) + Len(t)
         /\ \A k \in 1..Len(s) : u[k] = s[k]
         /\ \A k \in Len(s) + 1..Len(s) + Len(t) : u[k] = t[k - Len(s)]
OBVIOUS

\* Where the messages of a request are after recalled evidence has been put in.
LEMMA FinalShape ==
  ASSUME NEW q \in Incoming, NEW plan \in Edits
  PROVE  LET c == Current(q)
             r == Len(plan.recalled)
             Edited(i) == <<q[i], IF i \in plan.omitted THEN "reference" ELSE "exact">>
             out == Final(q, plan)
         IN /\ r \in Nat /\ DOMAIN out = 1..Len(q) + r
            /\ \A k \in 1..c - 1 : out[k] = Edited(k)
            /\ \A k \in c..c + r - 1 : out[k] = <<plan.recalled[k - c + 1], "recalled">>
            /\ \A k \in c + r..Len(q) + r : out[k] = Edited(k - r)
<1> DEFINE Edited(i) == <<q[i], IF i \in plan.omitted THEN "reference" ELSE "exact">>
<1>1. PICK c, n, r : c = Current(q) /\ n = Len(q) /\ r = Len(plan.recalled)
  OBVIOUS
<1>2. n \in Nat /\ DOMAIN q = 1..n /\ c \in 1..n
  BY <1>1, RequestFacts
<1>3. plan.recalled \in Seq(Sent) /\ r \in Nat
  BY <1>1 DEF Edits
<1>4. PICK edited : edited = [i \in DOMAIN q |-> Edited(i)]
  OBVIOUS
<1>5. PICK E : E = {Edited(i) : i \in DOMAIN q}
  OBVIOUS
<1>6. edited \in Seq(E) /\ Len(edited) = n
  BY <1>2, <1>4, <1>5
<1>7. \A i \in 1..n : edited[i] = Edited(i)
  BY <1>2, <1>4
<1> HIDE DEF Edited
<1>8. PICK inserted : inserted = [k \in DOMAIN plan.recalled |-> <<plan.recalled[k], "recalled">>]
  OBVIOUS
<1>9. /\ DOMAIN inserted = 1..r /\ Len(inserted) = r
      /\ \A k \in 1..r : inserted[k] = <<plan.recalled[k], "recalled">>
  BY <1>1, <1>3, <1>8
<1>10. inserted \in Seq(Sent \X {"recalled"})
  BY <1>1, <1>3, <1>8
<1>11. PICK before, after : before = SubSeq(edited, 1, c - 1) /\ after = SubSeq(edited, c, n)
  OBVIOUS
<1>12. /\ before \in Seq(E) /\ Len(before) = c - 1 /\ \A k \in 1..c - 1 : before[k] = edited[k]
  BY <1>2, <1>6, <1>11
<1>13. /\ after \in Seq(E) /\ Len(after) = n - c + 1 /\ \A k \in 1..n - c + 1 : after[k] = edited[c + k - 1]
  BY <1>2, <1>6, <1>11
<1>14. PICK A : A = E \cup (Sent \X {"recalled"})
  OBVIOUS
<1>15. before \in Seq(A) /\ inserted \in Seq(A) /\ after \in Seq(A)
  BY <1>10, <1>12, <1>13, <1>14
<1>16. PICK front : front = before \o inserted
  OBVIOUS
<1>17. /\ front \in Seq(A) /\ Len(front) = c - 1 + r
       /\ \A k \in 1..c - 1 : front[k] = before[k]
       /\ \A k \in c..c + r - 1 : front[k] = inserted[k - c + 1]
  <2>1. /\ front \in Seq(A) /\ Len(front) = (c - 1) + r
        /\ \A k \in 1..(c - 1) : front[k] = before[k]
        /\ \A k \in (c - 1) + 1..(c - 1) + r : front[k] = inserted[k - (c - 1)]
    <3>1. PICK m : m = c - 1
      OBVIOUS
    <3>2. Len(before) = m /\ Len(inserted) = r
      BY <1>9, <1>12, <3>1
    <3>3. /\ front \in Seq(A) /\ Len(front) = Len(before) + Len(inserted)
          /\ \A k \in 1..Len(before) : front[k] = before[k]
          /\ \A k \in Len(before) + 1..Len(before) + Len(inserted) : front[k] = inserted[k - Len(before)]
      BY <1>15, <1>16, Concatenation
    <3> QED BY <3>1, <3>2, <3>3
  <2>2. \A k \in c..c + r - 1 : k \in (c - 1) + 1..(c - 1) + r /\ k - (c - 1) = k - c + 1
    BY <1>2, <1>3
  <2> QED BY <2>1, <2>2
<1>18. PICK out : out = front \o after
  OBVIOUS
<1>19. /\ Len(out) = n + r /\ out \in Seq(A)
       /\ \A k \in 1..c + r - 1 : out[k] = front[k]
       /\ \A k \in c + r..n + r : out[k] = after[k - c - r + 1]
  <2>1. PICK m, l : m = c - 1 + r /\ l = n - c + 1
    OBVIOUS
  <2>2. /\ out \in Seq(A) /\ Len(out) = m + l
        /\ \A k \in 1..m : out[k] = front[k]
        /\ \A k \in m + 1..m + l : out[k] = after[k - m]
    <3>1. Len(front) = m /\ Len(after) = l
      BY <1>13, <1>17, <2>1
    <3>3. front \in Seq(A) /\ after \in Seq(A)
      BY <1>15, <1>17
    <3>2. /\ out \in Seq(A) /\ Len(out) = Len(front) + Len(after)
          /\ \A k \in 1..Len(front) : out[k] = front[k]
          /\ \A k \in Len(front) + 1..Len(front) + Len(after) : out[k] = after[k - Len(front)]
      BY <1>18, <3>3, Concatenation
    <3> QED BY <3>1, <3>2
  <2>3. /\ m + l = n + r /\ m = c + r - 1
        /\ \A k \in c + r..n + r : k \in m + 1..m + l /\ k - m = k - c - r + 1
    BY <1>2, <1>3, <2>1
  <2> QED BY <2>2, <2>3
<1>20. DOMAIN out = 1..n + r
  BY <1>19
<1>21. out = Final(q, plan)
  BY <1>1, <1>4, <1>6, <1>8, <1>11, <1>16, <1>18 DEF Final, Edited
<1>22. \A k \in 1..c - 1 : out[k] = Edited(k)
  <2> SUFFICES ASSUME NEW k \in 1..c - 1 PROVE out[k] = Edited(k)
    OBVIOUS
  <2>1. k \in 1..c + r - 1 /\ k \in 1..n
    BY <1>2, <1>3
  <2> QED BY <1>7, <1>12, <1>17, <1>19, <2>1
<1>23. \A k \in c..c + r - 1 : out[k] = <<plan.recalled[k - c + 1], "recalled">>
  <2> SUFFICES ASSUME NEW k \in c..c + r - 1 PROVE out[k] = <<plan.recalled[k - c + 1], "recalled">>
    OBVIOUS
  <2>1. k \in 1..c + r - 1 /\ k - c + 1 \in 1..r
    BY <1>2, <1>3
  <2> QED BY <1>9, <1>17, <1>19, <2>1
<1>24. \A k \in c + r..n + r : out[k] = Edited(k - r)
  <2> SUFFICES ASSUME NEW k \in c + r..n + r PROVE out[k] = Edited(k - r)
    OBVIOUS
  <2>1. /\ k - c - r + 1 \in 1..n - c + 1 /\ k - r \in 1..n
        /\ c + (k - c - r + 1) - 1 = k - r
    BY <1>2, <1>3
  <2>2. out[k] = after[k - c - r + 1]
    BY <1>19
  <2>3. after[k - c - r + 1] = edited[k - r]
    BY <1>13, <2>1
  <2> QED BY <1>7, <2>1, <2>2, <2>3
<1> QED BY <1>1, <1>3, <1>20, <1>21, <1>22, <1>23, <1>24 DEF Edited

\* A failure takes every edit back, a score names the place of its message, and
\* what is recalled is new to the request and before its question
\* (history_selection.py:297-302, 336-397, 400-440).
THEOREM SelectionEditsBound == SelectionSpec => []EditsAreBound
<1>1. SelectionInv => EditsAreBound
  <2> SUFFICES ASSUME SelectionInv, run.pc = "taken" PROVE EditsAreBound
    BY DEF EditsAreBound, At
  <2>1. PICK q, plan, out : q = run.request /\ plan = run.plan /\ out = run.out
    OBVIOUS
  <2>2. q \in Incoming /\ plan \in Edits /\ PlanSound(q, plan) /\ out = Final(q, plan)
    BY <2>1 DEF SelectionInv, Made
  <2> DEFINE Edited(i) == <<q[i], IF i \in plan.omitted THEN "reference" ELSE "exact">>
  <2>3. PICK c, r : c = Current(q) /\ r = Len(plan.recalled)
    OBVIOUS
  <2>4. /\ r \in Nat /\ DOMAIN out = 1..Len(q) + r
        /\ \A k \in 1..c - 1 : out[k] = Edited(k)
        /\ \A k \in c..c + r - 1 : out[k] = <<plan.recalled[k - c + 1], "recalled">>
        /\ \A k \in c + r..Len(q) + r : out[k] = Edited(k - r)
    BY <2>2, <2>3, FinalShape
  <2>5. c \in 1..Len(q) /\ Len(q) \in Nat /\ DOMAIN plan.recalled = 1..r
    BY <2>2, <2>3, RequestFacts DEF Edits
  <2>6. plan.failed => out = Final(q, NoEdits)
    <3> SUFFICES ASSUME plan.failed PROVE out = Final(q, NoEdits)
      OBVIOUS
    <3>1. plan.omitted = {} /\ plan.recalled = <<>>
      BY <2>2 DEF PlanSound
    <3>2. NoEdits.omitted = {} /\ NoEdits.recalled = <<>>
      BY DEF NoEdits
    <3> QED BY <2>2, <3>1, <3>2 DEF Final
  <2>7. \A score \in plan.attention :
          out[score[1]] \in {<<score[2], "exact">>, <<score[2], "reference">>}
    <3> SUFFICES ASSUME NEW score \in plan.attention
                 PROVE  out[score[1]] \in {<<score[2], "exact">>, <<score[2], "reference">>}
      OBVIOUS
    <3>1. PICK i : i = score[1] /\ i \in 1..Cutoff(q) /\ score[2] = q[i]
      BY <2>2 DEF PlanSound
    <3>2. i \in 1..c - 1
      BY <2>2, <2>3, <2>5, <3>1, CutoffFacts
    <3>3. out[i] = Edited(i)
      BY <2>4, <3>2
    <3> QED BY <3>1, <3>3
  <2>8. \A i \in plan.omitted : i # c
    BY <2>2, <2>3, CutoffFacts DEF PlanSound
  <2>9. \A k \in DOMAIN out : out[k][2] = "recalled" =>
          /\ out[k][1] \notin ToSet(q)
          /\ \E j \in DOMAIN out : j > k /\ out[j] = <<Query(q), "exact">>
    <3> SUFFICES ASSUME NEW k \in DOMAIN out, out[k][2] = "recalled"
                 PROVE  /\ out[k][1] \notin ToSet(q)
                        /\ \E j \in DOMAIN out : j > k /\ out[j] = <<Query(q), "exact">>
      OBVIOUS
    <3>1. \A i : Edited(i)[2] # "recalled"
      OBVIOUS
    <3> HIDE DEF Edited
    <3>2. k \in c..c + r - 1
      BY <2>4, <2>5, <3>1
    <3>3. out[k] = <<plan.recalled[k - c + 1], "recalled">> /\ k - c + 1 \in DOMAIN plan.recalled
      BY <2>4, <2>5, <3>2
    <3>4. out[k][1] \notin ToSet(q)
      BY <2>2, <3>3 DEF PlanSound
    <3>5. c + r \in c + r..Len(q) + r /\ c + r \in DOMAIN out /\ c + r > k /\ (c + r) - r = c
      BY <2>4, <2>5, <3>2
    <3>6. out[c + r] = Edited(c)
      BY <2>4, <3>5
    <3>7. Edited(c) = <<Query(q), "exact">>
      BY <2>3, <2>8 DEF Edited, Query
    <3> QED BY <3>4, <3>5, <3>6, <3>7
  <2> QED BY <2>1, <2>6, <2>7, <2>9 DEF EditsAreBound
<1> QED BY <1>1, SelectionInvariant, PTL
=============================================================================
