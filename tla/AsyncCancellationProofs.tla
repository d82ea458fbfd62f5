---------------------- MODULE AsyncCancellationProofs ----------------------
(***************************************************************************)
(* No wake-up is lost, whatever the number of calls and loops that share   *)
(* the token.  The invariant ties a sleeping waiter task to its coroutine, *)
(* to the token's registry and to the state of its loop.                   *)
(***************************************************************************)
EXTENDS AsyncCancellation, FiniteSetTheorems, TLAPS

Sleeping == {"created", "registered", "resolved", "cancelling"}

\* Only calls with the token have a waiter, and an unfinished waiter belongs to
\* a coroutine that has not ended.
WaitersBelong ==
  \A c \in Call : /\ waiter[c] \in Sleeping => Active(c)
                  /\ waiter[c] # "none" => c \in Sharing

\* A coroutine that has not ended keeps its loop open.
LoopsStayOpen == \A c \in Call : Active(c) => LoopOf[c] \in open

\* The registry holds waiters that have not left it, of an uncancelled token.
RegistryExact ==
  \A c \in registry : ~cancelled /\ waiter[c] \in {"registered", "cancelling"}

\* The finally block is entered with the ending already decided.
EndingDecided == \A c \in Call : pc[c] = "finally" => outcome[c] \in Ended

\* Only a cancelled token has wake-ups on their way.
WakesFollowCancel == posting \cup wake # {} => cancelled

AsyncInv ==
  /\ TypeOK
  /\ WakesFollowCancel
  /\ EndingDecided
  /\ NoLostWakeup
  /\ WaitersBelong
  /\ LoopsStayOpen
  /\ RegistryExact
  /\ CancelledForAReason

----------------------------------------------------------------------------
LEMMA InitAsync == Init => AsyncInv
<1> SUFFICES ASSUME Init PROVE AsyncInv
  OBVIOUS
<1>1. TypeOK
  BY DEF Init, TypeOK
<1>2. \A c \in Call : pc[c] = "new" /\ waiter[c] = "none" /\ outcome[c] = "none"
  BY DEF Init
<1> QED
  BY <1>1, <1>2 DEF Init, AsyncInv, NoLostWakeup, WaitersBelong, LoopsStayOpen, RegistryExact,
                    CancelledForAReason, EndingDecided, WakesFollowCancel, Active, Sleeping

\* The callbacks of the token and of the waiter tasks.
LEMMA TokenStep ==
  ASSUME AsyncInv, NEW c \in Call,
         PostWake(c) \/ Resolve(c) \/ StartWaiter(c) \/ EndWaiter(c) \/ CancelFromOutside
  PROVE  AsyncInv'
<1> USE DEF AsyncInv, TypeOK, NoLostWakeup, WaitersBelong, LoopsStayOpen, RegistryExact,
            CancelledForAReason, EndingDecided, WakesFollowCancel, Active, Sleeping, Ended
<1>1. CASE PostWake(c)
  <2>1. UNCHANGED <<pc, outcome, requested, waiter, job, future, cancelled, registry, open, counted>>
    BY <1>1 DEF PostWake
  <2>2. c \in posting /\ posting' = posting \ {c} /\ wake' \in {wake, wake \cup {c}}
    BY <1>1 DEF PostWake
  <2>3. ASSUME waiter[c] = "registered"
        PROVE  c \in wake'
    <3>1. LoopOf[c] \in open
      BY <2>3
    <3> QED BY <1>1, <3>1 DEF PostWake
  <2>4. /\ TypeOK' /\ EndingDecided' /\ WakesFollowCancel' /\ WaitersBelong'
        /\ LoopsStayOpen' /\ RegistryExact' /\ CancelledForAReason'
    BY <2>1, <2>2
  <2>5. NoLostWakeup'
    BY <2>1, <2>2, <2>3
  <2> QED BY <2>4, <2>5
<1>2. CASE Resolve(c)
  BY <1>2, SharingIsSomeCalls DEF Resolve, token
<1>3. CASE StartWaiter(c)
  <2>1. waiter[c] = "created" /\ c \in Sharing /\ pc' = pc /\ outcome' = outcome
    BY <1>3 DEF StartWaiter
  <2>2. \/ cancelled /\ waiter' = [waiter EXCEPT ![c] = "done"] /\ registry' = registry
        \/ ~cancelled /\ waiter' = [waiter EXCEPT ![c] = "registered"] /\ registry' = registry \cup {c}
    BY <1>3 DEF StartWaiter
  <2>3. UNCHANGED <<pc, outcome, requested, job, future, cancelled, posting, wake, open, counted>>
    BY <1>3 DEF StartWaiter
  <2>4. TypeOK' /\ RegistryExact'
    BY <2>1, <2>2, <2>3, SharingIsSomeCalls
  <2> QED BY <2>1, <2>2, <2>3, <2>4
<1>4. CASE EndWaiter(c)
  BY <1>4 DEF EndWaiter
<1>5. CASE CancelFromOutside
  BY <1>5 DEF CancelFromOutside, CancelToken
<1> QED BY <1>1, <1>2, <1>3, <1>4, <1>5

\* The executor and its results.
LEMMA ExecutorStep ==
  ASSUME AsyncInv, NEW c \in Call,
         TakeJob(c) \/ FinishJob(c) \/ DeliverResult(c) \/ DropJob(c)
  PROVE  AsyncInv'
<1> USE DEF AsyncInv, TypeOK, NoLostWakeup, WaitersBelong, LoopsStayOpen, RegistryExact,
            CancelledForAReason, EndingDecided, WakesFollowCancel, Active, Sleeping, Ended
<1>1. CASE TakeJob(c)
  BY <1>1 DEF TakeJob, token
<1>2. CASE FinishJob(c)
  BY <1>2 DEF FinishJob, token
<1>3. CASE DeliverResult(c)
  BY <1>3 DEF DeliverResult, token
<1>4. CASE DropJob(c)
  BY <1>4 DEF DropJob, token
<1> QED BY <1>1, <1>2, <1>3, <1>4

\* The coroutine, its caller, and the end of a loop.
LEMMA CoroutineStep ==
  ASSUME AsyncInv, NEW c \in Call,
         \/ Enter(c) \/ ReturnResult(c) \/ TokenWakes(c) \/ TaskCancelled(c) \/ Leave(c)
         \/ CancelTask(c)
  PROVE  AsyncInv'
<1> USE DEF AsyncInv, TypeOK, NoLostWakeup, WaitersBelong, LoopsStayOpen, RegistryExact,
            CancelledForAReason, EndingDecided, WakesFollowCancel, Active, Sleeping, Ended
<1>1. CASE Enter(c)
  <2>1. TypeOK'
    BY <1>1 DEF Enter, token
  <2>2. WaitersBelong' /\ LoopsStayOpen' /\ EndingDecided' /\ WakesFollowCancel'
    BY <1>1 DEF Enter, token
  <2>3. waiter[c] \notin Sleeping
    BY <1>1 DEF Enter
  <2>4. NoLostWakeup' /\ RegistryExact' /\ CancelledForAReason'
    BY <1>1, <2>3, SharingIsSomeCalls DEF Enter, token
  <2> QED BY <2>1, <2>2, <2>4
<1>2. CASE ReturnResult(c)
  BY <1>2 DEF ReturnResult, Finish, CancelWaiter, WaiterDone, token
<1>3. CASE TokenWakes(c) \/ TaskCancelled(c)
  <2>1. Raise(c) /\ (c \in Sharing \/ c \in requested) /\ pc[c] = "waiting"
    BY <1>3 DEF TokenWakes, TaskCancelled, WaiterDone
  <2>2. /\ pc' \in {[pc EXCEPT ![c] = "finally"], [pc EXCEPT ![c] = "cancelled"]}
        /\ pc'[c] = "finally" \/ waiter[c] \in {"none", "done", "cancelled"} \/ c \notin Sharing
        /\ outcome' = [outcome EXCEPT ![c] = "cancelled"]
        /\ counted' = counted + 1
        /\ UNCHANGED <<requested, job, wake, open>>
    <3>1. CASE c \in Sharing /\ ~WaiterDone(c)
      BY <2>1, <3>1 DEF Raise, Finish
    <3>2. CASE c \notin Sharing \/ WaiterDone(c)
      BY <2>1, <3>2 DEF Raise, Finish, WaiterDone
    <3> QED BY <3>1, <3>2
  <2>3. /\ waiter' = [waiter EXCEPT ![c] = IF @ \in {"created", "registered", "resolved"}
                                          THEN "cancelling" ELSE @]
        /\ future' = [future EXCEPT ![c] = IF @ = "pending" THEN "cancelled" ELSE @]
    BY <2>1 DEF Raise, Finish, CancelWaiter
  <2>4. \/ UNCHANGED token /\ (c \in Sharing => cancelled)
        \/ cancelled' = TRUE /\ registry' = {} /\ posting' = posting \cup registry
    BY <2>1 DEF Raise, CancelToken
  <2>5. TypeOK'
    <3>1. waiter' \in [Call -> {"none", "created", "registered", "resolved", "cancelling",
                                "done", "cancelled"}]
      BY <2>3
    <3>2. future' \in [Call -> {"none", "pending", "result", "cancelled"}]
      BY <2>3
    <3>3. pc' \in [Call -> {"new", "waiting", "finally"} \cup Ended] /\ counted' \in Nat
      BY <2>2
    <3>4. outcome' \in [Call -> {"none"} \cup Ended]
      BY <2>2
    <3>5. cancelled' \in BOOLEAN /\ registry' \subseteq Sharing /\ posting' \subseteq Sharing
      BY <2>4 DEF token
    <3> QED BY <2>2, <3>1, <3>2, <3>3, <3>4, <3>5
  <2>6. EndingDecided' /\ WakesFollowCancel' /\ LoopsStayOpen' /\ RegistryExact' /\ CancelledForAReason'
    BY <2>1, <2>2, <2>3, <2>4 DEF token
  <2>7. NoLostWakeup'
    BY <2>2, <2>3, <2>4 DEF token
  <2>8. WaitersBelong'
    BY <2>1, <2>2, <2>3
  <2> QED BY <2>5, <2>6, <2>7, <2>8
<1>4. CASE Leave(c)
  BY <1>4 DEF Leave, WaiterDone, token
<1>5. CASE CancelTask(c)
  BY <1>5 DEF CancelTask, token
<1> QED BY <1>1, <1>2, <1>3, <1>4, <1>5

LEMMA CloseStep ==
  ASSUME AsyncInv, NEW l \in Loop, CloseLoop(l)
  PROVE  AsyncInv'
BY DEF CloseLoop, AsyncInv, TypeOK, NoLostWakeup, WaitersBelong, LoopsStayOpen, RegistryExact,
       CancelledForAReason, EndingDecided, WakesFollowCancel, Active, Sleeping, Ended, token

----------------------------------------------------------------------------
\* The invariant holds for any calls, sharing, and assignment to loops.
THEOREM AsyncInvariant == Spec => []AsyncInv
<1>1. AsyncInv /\ [Next]_vars => AsyncInv'
  <2> SUFFICES ASSUME AsyncInv, [Next]_vars PROVE AsyncInv'
    OBVIOUS
  <2>1. ASSUME NEW c \in Call, System(c) \/ Threads(c)
        PROVE  AsyncInv'
    BY <2>1, TokenStep, ExecutorStep, CoroutineStep DEF System, Threads
  <2>2. ASSUME NEW c \in Call, Enter(c) \/ CancelTask(c)
        PROVE  AsyncInv'
    BY <2>2, CoroutineStep
  <2>3. CASE CancelFromOutside
    BY <2>3 DEF CancelFromOutside, CancelToken, AsyncInv, TypeOK, NoLostWakeup, WaitersBelong,
                LoopsStayOpen, RegistryExact, CancelledForAReason, EndingDecided,
                WakesFollowCancel, Active, Sleeping, Ended
  <2>4. CASE \E l \in Loop : CloseLoop(l)
    BY <2>4, CloseStep
  <2>5. CASE UNCHANGED vars
    BY <2>5 DEF vars, token, AsyncInv, TypeOK, NoLostWakeup, WaitersBelong, LoopsStayOpen,
                RegistryExact, CancelledForAReason, EndingDecided, WakesFollowCancel, Active,
                Sleeping, Ended
  <2> QED BY <2>1, <2>2, <2>3, <2>4, <2>5 DEF Next, Environment
<1> QED BY <1>1, InitAsync, PTL DEF Spec

\* The coroutines, their waiters, jobs and futures are in known states, and the
\* token only ever holds calls it was given to.
THEOREM AsyncTypes == Spec => []TypeOK
<1>1. AsyncInv => TypeOK
  BY DEF AsyncInv
<1> QED BY <1>1, AsyncInvariant, PTL

\* A waiter asleep is registered with a live token or already being woken.
THEOREM AsyncNoLostWakeup == Spec => []NoLostWakeup
<1>1. AsyncInv => NoLostWakeup
  BY DEF AsyncInv
<1> QED BY <1>1, AsyncInvariant, PTL

\* The token's registry holds active calls only.
THEOREM AsyncNoRegistrationLeaks == Spec => []NoRegistrationLeaks
<1>1. AsyncInv => NoRegistrationLeaks
  BY SharingIsSomeCalls
     DEF AsyncInv, NoRegistrationLeaks, RegistryExact, WaitersBelong, Sleeping, TypeOK
<1> QED BY <1>1, AsyncInvariant, PTL

\* No call ends cancelled unless its token or its task was cancelled.
THEOREM AsyncCancelledForAReason == Spec => []CancelledForAReason
<1>1. AsyncInv => CancelledForAReason
  BY DEF AsyncInv
<1> QED BY <1>1, AsyncInvariant, PTL

----------------------------------------------------------------------------
(* The count of cancellations. *)

\* How a call ends is open until its coroutine leaves the await.
EndingOpen == \A c \in Call : pc[c] \in {"new", "waiting"} => outcome[c] = "none"

CountInv == EndingOpen /\ CancelledOnce

\* A call that starts to end cancelled adds one to both sides of the count.
LEMMA CountOneMore ==
  ASSUME TypeOK, CancelledOnce, NEW c \in Call, outcome[c] # "cancelled",
         outcome' = [outcome EXCEPT ![c] = "cancelled"], counted' = counted + 1
  PROVE  CancelledOnce'
<1> DEFINE S == {d \in Call : outcome[d] = "cancelled"}
           T == {d \in Call : outcome'[d] = "cancelled"}
<1>1. T = S \cup {c} /\ c \notin S
  BY DEF TypeOK
<1>2. IsFiniteSet(S)
  BY FinitelyManyCalls, FS_Subset
<1>3. Cardinality(S \cup {c}) = Cardinality(S) + 1
  BY <1>1, <1>2, FS_AddElement
<1> QED
  BY <1>1, <1>3 DEF CancelledOnce

\* Other endings, and steps that end no call, add to neither.
LEMMA CountNoMore ==
  ASSUME TypeOK, CancelledOnce, counted' = counted,
         \A d \in Call : outcome'[d] = "cancelled" <=> outcome[d] = "cancelled"
  PROVE  CancelledOnce'
BY DEF CancelledOnce

LEMMA CountStep ==
  ASSUME AsyncInv, CountInv, [Next]_vars
  PROVE  CountInv'
<1> USE DEF CountInv
<1>0. TypeOK
  BY DEF AsyncInv
<1>1. ASSUME NEW c \in Call, Raise(c), pc[c] = "waiting"
      PROVE  CountInv'
  <2>1. EndingOpen'
    BY <1>0, <1>1 DEF Raise, Finish, EndingOpen, TypeOK
  <2>2. outcome[c] # "cancelled"
    BY <1>1 DEF EndingOpen
  <2> QED
    BY <1>0, <1>1, <2>1, <2>2, CountOneMore DEF Raise, Finish
<1>2. ASSUME NEW c \in Call, Enter(c), c \in Sharing, cancelled
      PROVE  CountInv'
  <2>1. outcome[c] # "cancelled"
    BY <1>2 DEF Enter, EndingOpen
  <2>2. EndingOpen'
    BY <1>0, <1>2 DEF Enter, EndingOpen, TypeOK
  <2> QED
    BY <1>0, <1>2, <2>1, <2>2, CountOneMore DEF Enter
<1>3. ASSUME NEW c \in Call, ReturnResult(c)
      PROVE  CountInv'
  <2>1. EndingOpen' /\ counted' = counted
    BY <1>0, <1>3 DEF ReturnResult, Finish, EndingOpen, TypeOK
  <2>2. \A d \in Call : outcome'[d] = "cancelled" <=> outcome[d] = "cancelled"
    BY <1>0, <1>3 DEF ReturnResult, Finish, EndingOpen, TypeOK
  <2> QED
    BY <1>0, <2>1, <2>2, CountNoMore
<1>4. ASSUME UNCHANGED <<outcome, counted>>,
             \A c \in Call : pc'[c] \in {"new", "waiting"} => pc[c] \in {"new", "waiting"}
      PROVE  CountInv'
  <2>1. EndingOpen'
    BY <1>4 DEF EndingOpen
  <2> QED
    BY <1>0, <1>4, <2>1, CountNoMore
<1>5. ASSUME NEW c \in Call, System(c) \/ Threads(c) \/ Enter(c)
      PROVE  CountInv'
  <2>1. CASE Leave(c)
    BY <1>0, <1>4, <2>1 DEF Leave, AsyncInv, EndingDecided, TypeOK, Ended
  <2>2. CASE Enter(c)
    <3>1. CASE c \in Sharing /\ cancelled
      BY <1>2, <2>2, <3>1
    <3>2. CASE ~(c \in Sharing /\ cancelled)
      BY <1>0, <1>4, <2>2, <3>2 DEF Enter, TypeOK
    <3> QED
      BY <3>1, <3>2
  <2>3. CASE ReturnResult(c)
    BY <1>3, <2>3
  <2>4. CASE TokenWakes(c) \/ TaskCancelled(c)
    BY <1>1, <2>4 DEF TokenWakes, TaskCancelled
  <2>5. CASE PostWake(c) \/ Resolve(c) \/ StartWaiter(c) \/ EndWaiter(c)
    BY <1>4, <2>5 DEF PostWake, Resolve, StartWaiter, EndWaiter
  <2>6. CASE DeliverResult(c) \/ DropJob(c) \/ Threads(c)
    BY <1>4, <2>6 DEF DeliverResult, DropJob, Threads, TakeJob, FinishJob
  <2> QED
    BY <1>5, <2>1, <2>2, <2>3, <2>4, <2>5, <2>6 DEF System
<1>6. CASE CancelFromOutside \/ (\E c \in Call : CancelTask(c)) \/ (\E l \in Loop : CloseLoop(l))
  BY <1>4, <1>6 DEF CancelFromOutside, CancelTask, CloseLoop
<1>7. CASE UNCHANGED vars
  BY <1>4, <1>7 DEF vars
<1> QED
  BY <1>5, <1>6, <1>7 DEF Next, Environment

\* The count that the status reports is the number of calls that ended cancelled,
\* and each of them was cancelled for a reason.
THEOREM AsyncCancellationsAccounted == Spec => []CancellationsAccounted
<1>1. Init => CountInv
  <2> SUFFICES ASSUME Init PROVE CountInv
    OBVIOUS
  <2>1. EndingOpen
    BY DEF Init, EndingOpen
  <2>2. {c \in Call : outcome[c] = "cancelled"} = {}
    BY DEF Init
  <2> QED
    BY <2>1, <2>2, FS_EmptySet DEF Init, CountInv, CancelledOnce
<1>2. AsyncInv /\ CountInv /\ [Next]_vars => CountInv'
  BY CountStep
<1>3. AsyncInv /\ CountInv => CancellationsAccounted
  BY DEF AsyncInv, CountInv, CancellationsAccounted
<1> QED
  BY <1>1, <1>2, <1>3, AsyncInvariant, PTL DEF Spec
============================================================================
