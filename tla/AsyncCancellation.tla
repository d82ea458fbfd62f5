------------------------- MODULE AsyncCancellation -------------------------
(***************************************************************************)
(* AsyncRuntime._run_sync (async_runtime.py) with one CancellationToken    *)
(* (cancellation.py) that several calls may share: synchronous work goes   *)
(* to an executor thread while the call awaits it on its event loop, and   *)
(* the token, the awaiting task and the thread race.                       *)
(*                                                                         *)
(* A coroutine runs without interruption between two awaits, so one action *)
(* is one such stretch, one callback of a loop, or one critical section of *)
(* another thread.  Loops run their callbacks in any order here, which     *)
(* includes the order asyncio chooses.                                     *)
(***************************************************************************)
EXTENDS Integers, FiniteSets

CONSTANTS
  Call,      \* calls of _run_sync
  Sharing,   \* the calls that were given the token
  Loop,      \* event loops, one per thread
  LoopOf     \* call -> its loop

ASSUME SharingIsSomeCalls == Sharing \subseteq Call
ASSUME EveryCallHasALoop == LoopOf \in [Call -> Loop]
ASSUME FinitelyManyCalls == IsFiniteSet(Call)

VARIABLES
  pc,         \* the coroutine: "new", "waiting", "finally", or how it ended
  outcome,    \* what the coroutine is about to end with
  requested,  \* calls whose task was cancelled while they were active
  waiter,     \* the task that awaits cancellation.wait()
  job,        \* the executor's work item
  future,     \* the asyncio future of the work item
  cancelled,  \* the token's flag
  registry,   \* the token's set of waiters
  posting,    \* waiters a cancel() has taken but not yet posted to their loop
  wake,       \* _resolve_waiter callbacks pending in the loops
  open,       \* loops that are not closed
  counted     \* metric async_cancelled

token == <<cancelled, registry, posting>>
vars == <<pc, outcome, requested, waiter, job, future, token, wake, open, counted>>

Ended == {"returned", "cancelled"}
Active(c) == pc[c] \in {"waiting", "finally"}
WaiterDone(c) == waiter[c] \in {"done", "cancelled"}

----------------------------------------------------------------------------
(* CancellationToken. *)

\* cancel(): under the lock, flip the flag and take the waiters.  What the
\* thread does next, one call_soon_threadsafe per waiter, is PostWake.
CancelToken ==
  IF cancelled
  THEN UNCHANGED token
  ELSE /\ cancelled' = TRUE
       /\ registry' = {}
       /\ posting' = posting \cup registry

\* Slip: a loop that refuses one waiter ends the round.
SlipPostNothing(c) ==
  /\ c \in posting
  /\ posting' = posting \ {c}
  /\ UNCHANGED <<pc, outcome, requested, waiter, job, future, cancelled, registry, wake, open, counted>>

PostWake(c) ==
  /\ c \in posting
  /\ posting' = posting \ {c}
  /\ wake' = IF LoopOf[c] \in open THEN wake \cup {c} ELSE wake
  /\ UNCHANGED <<pc, outcome, requested, waiter, job, future, cancelled, registry, open, counted>>

\* _resolve_waiter on the waiter's loop.
Resolve(c) ==
  /\ c \in wake
  /\ wake' = wake \ {c}
  /\ waiter' = IF waiter[c] = "registered" THEN [waiter EXCEPT ![c] = "resolved"] ELSE waiter
  /\ UNCHANGED <<pc, outcome, requested, job, future, token, open, counted>>

\* Slip: the flag is checked before the lock is taken, if at all.
SlipRegisterUnchecked(c) ==
  /\ waiter[c] = "created"
  /\ waiter' = [waiter EXCEPT ![c] = "registered"]
  /\ registry' = registry \cup {c}
  /\ UNCHANGED <<pc, outcome, requested, job, future, cancelled, posting, wake, open, counted>>

\* The waiter task's first run: wait() up to its await.
StartWaiter(c) ==
  /\ waiter[c] = "created"
  /\ IF cancelled
     THEN waiter' = [waiter EXCEPT ![c] = "done"] /\ UNCHANGED registry
     ELSE waiter' = [waiter EXCEPT ![c] = "registered"] /\ registry' = registry \cup {c}
  /\ UNCHANGED <<pc, outcome, requested, job, future, cancelled, posting, wake, open, counted>>

\* Slip: the registration is not discarded.
SlipEndWaiterRegistered(c) ==
  /\ waiter[c] \in {"resolved", "cancelling"}
  /\ waiter' = [waiter EXCEPT ![c] = IF @ = "resolved" THEN "done" ELSE "cancelled"]
  /\ UNCHANGED <<pc, outcome, requested, job, future, token, wake, open, counted>>

\* Its last run: the finally block discards the registration.
EndWaiter(c) ==
  /\ waiter[c] \in {"resolved", "cancelling"}
  /\ waiter' = [waiter EXCEPT ![c] = IF @ = "resolved" THEN "done" ELSE "cancelled"]
  /\ registry' = registry \ {c}
  /\ UNCHANGED <<pc, outcome, requested, job, future, cancelled, posting, wake, open, counted>>

\* cancellation_waiter.cancel(): the CancelledError is thrown when it runs next.
CancelWaiter(c) ==
  waiter' = [waiter EXCEPT ![c] = IF @ \in {"created", "registered", "resolved"}
                                  THEN "cancelling" ELSE @]

----------------------------------------------------------------------------
(* The executor. *)

TakeJob(c) ==
  /\ job[c] = "queued"
  /\ job' = [job EXCEPT ![c] = "running"]
  /\ UNCHANGED <<pc, outcome, requested, waiter, future, token, wake, open, counted>>

FinishJob(c) ==
  /\ job[c] = "running"
  /\ job' = [job EXCEPT ![c] = "finished"]
  /\ UNCHANGED <<pc, outcome, requested, waiter, future, token, wake, open, counted>>

\* The result crosses to the loop, unless the future was cancelled meanwhile.
DeliverResult(c) ==
  /\ job[c] = "finished"
  /\ future[c] = "pending"
  /\ future' = [future EXCEPT ![c] = "result"]
  /\ UNCHANGED <<pc, outcome, requested, waiter, job, token, wake, open, counted>>

\* The cancellation crosses to the executor in a later iteration of the loop:
\* work that no thread has taken by then is dropped.
DropJob(c) ==
  /\ future[c] = "cancelled"
  /\ job[c] = "queued"
  /\ job' = [job EXCEPT ![c] = "dropped"]
  /\ UNCHANGED <<pc, outcome, requested, waiter, future, token, wake, open, counted>>

----------------------------------------------------------------------------
(* _run_sync. *)

\* _raise_if_cancelled, then submit and suspend in asyncio.wait (or on the
\* future itself when there is no token).
Enter(c) ==
  /\ pc[c] = "new"
  /\ LoopOf[c] \in open
  /\ IF c \in Sharing /\ cancelled
     THEN /\ pc' = [pc EXCEPT ![c] = "cancelled"]
          /\ outcome' = [outcome EXCEPT ![c] = "cancelled"]
          /\ counted' = counted + 1
          /\ UNCHANGED <<waiter, job, future>>
     ELSE /\ pc' = [pc EXCEPT ![c] = "waiting"]
          /\ job' = [job EXCEPT ![c] = "queued"]
          /\ future' = [future EXCEPT ![c] = "pending"]
          /\ waiter' = IF c \in Sharing THEN [waiter EXCEPT ![c] = "created"] ELSE waiter
          /\ UNCHANGED <<outcome, counted>>
  /\ UNCHANGED <<requested, token, wake, open>>

\* The finally block suspends only while there is a waiter that is not over.
Finish(c, end) ==
  /\ pc' = [pc EXCEPT ![c] = IF c \in Sharing /\ ~WaiterDone(c) THEN "finally" ELSE end]
  /\ outcome' = [outcome EXCEPT ![c] = end]
  /\ CancelWaiter(c)

\* Slip: the except block does not cancel the token.
SlipRaiseKeepsToken(c) ==
  /\ Finish(c, "cancelled")
  /\ future' = [future EXCEPT ![c] = IF @ = "pending" THEN "cancelled" ELSE @]
  /\ counted' = counted + 1
  /\ UNCHANGED <<requested, job, token, wake, open>>

\* The except block, then the finally block.
Raise(c) ==
  /\ Finish(c, "cancelled")
  /\ IF c \in Sharing THEN CancelToken ELSE UNCHANGED token
  /\ future' = [future EXCEPT ![c] = IF @ = "pending" THEN "cancelled" ELSE @]
  /\ counted' = counted + 1
  /\ UNCHANGED <<requested, job, wake, open>>

\* A finished future wins over a finished waiter.
ReturnResult(c) ==
  /\ pc[c] = "waiting"
  /\ c \notin requested
  /\ future[c] = "result"
  /\ Finish(c, "returned")
  /\ UNCHANGED <<requested, job, future, token, wake, open, counted>>

TokenWakes(c) ==
  /\ pc[c] = "waiting"
  /\ c \notin requested
  /\ future[c] # "result"
  /\ WaiterDone(c)
  /\ Raise(c)

TaskCancelled(c) ==
  /\ pc[c] = "waiting"
  /\ c \in requested
  /\ Raise(c)

\* The end of the finally block: the waiter is over, and any CancelledError
\* that arrived while it was awaited has been suppressed.
Leave(c) ==
  /\ pc[c] = "finally"
  /\ WaiterDone(c)
  /\ pc' = [pc EXCEPT ![c] = outcome[c]]
  /\ UNCHANGED <<outcome, requested, waiter, job, future, token, wake, open, counted>>

----------------------------------------------------------------------------
(* The caller. *)

\* Some thread cancels the token.
CancelFromOutside ==
  /\ ~cancelled
  /\ CancelToken
  /\ UNCHANGED <<pc, outcome, requested, waiter, job, future, wake, open, counted>>

\* task.cancel() on an active call.  While the finally block awaits the waiter
\* the request lands in the waiter, which is being cancelled already.
CancelTask(c) ==
  /\ Active(c)
  /\ requested' = requested \cup {c}
  /\ UNCHANGED <<pc, outcome, waiter, job, future, token, wake, open, counted>>

\* A loop is closed after its coroutines have ended.
CloseLoop(l) ==
  /\ l \in open
  /\ \A c \in Call : LoopOf[c] = l => pc[c] \in Ended
  /\ open' = open \ {l}
  /\ wake' = {c \in wake : LoopOf[c] # l}
  /\ UNCHANGED <<pc, outcome, requested, waiter, job, future, token, counted>>

----------------------------------------------------------------------------
Init ==
  /\ pc = [c \in Call |-> "new"]
  /\ outcome = [c \in Call |-> "none"]
  /\ requested = {}
  /\ waiter = [c \in Call |-> "none"]
  /\ job = [c \in Call |-> "none"]
  /\ future = [c \in Call |-> "none"]
  /\ cancelled = FALSE
  /\ registry = {}
  /\ posting = {}
  /\ wake = {}
  /\ open = Loop
  /\ counted = 0

\* What the loops run, and the rest of a cancel() that has begun.
System(c) ==
  \/ PostWake(c) \/ Resolve(c) \/ StartWaiter(c) \/ EndWaiter(c)
  \/ DeliverResult(c) \/ DropJob(c)
  \/ ReturnResult(c) \/ TokenWakes(c) \/ TaskCancelled(c) \/ Leave(c)

Threads(c) == TakeJob(c) \/ FinishJob(c)

Environment == \/ CancelFromOutside
               \/ \E c \in Call : Enter(c) \/ CancelTask(c)
               \/ \E l \in Loop : CloseLoop(l)

Next == (\E c \in Call : System(c) \/ Threads(c)) \/ Environment

\* Loops keep running their callbacks; the executor owes nobody progress, and
\* nobody is obliged to call or to cancel.
Fairness == \A c \in Call : WF_vars(System(c))

Spec == Init /\ [][Next]_vars
FairSpec == Spec /\ Fairness

----------------------------------------------------------------------------
(* Properties. *)

TypeOK ==
  /\ pc \in [Call -> {"new", "waiting", "finally"} \cup Ended]
  /\ outcome \in [Call -> {"none"} \cup Ended]
  /\ requested \subseteq Call
  /\ waiter \in [Call -> {"none", "created", "registered", "resolved", "cancelling",
                          "done", "cancelled"}]
  /\ job \in [Call -> {"none", "queued", "running", "finished", "dropped"}]
  /\ future \in [Call -> {"none", "pending", "result", "cancelled"}]
  /\ cancelled \in BOOLEAN
  /\ registry \subseteq Sharing /\ posting \subseteq Sharing /\ wake \subseteq Sharing
  /\ open \subseteq Loop
  /\ counted \in Nat

\* No wake-up is lost between the check of the flag and the registration: a
\* waiter that sleeps is in the registry of an uncancelled token, or a cancel()
\* has it in hand.
NoLostWakeup ==
  \A c \in Call : waiter[c] = "registered" =>
    \/ ~cancelled /\ c \in registry
    \/ c \in posting
    \/ c \in wake

\* The token forgets every call that is over, so a token shared by a session
\* does not grow with it.
NoRegistrationLeaks == \A c \in registry : Active(c) /\ ~cancelled

\* async_cancelled counts each cancelled call once, although a call may be hit
\* by its token and by its task.
CancelledOnce == counted = Cardinality({c \in Call : outcome[c] = "cancelled"})

\* A call ends cancelled only if its token or its task was cancelled, and a
\* cancelled task cancels the token it shares.
CancelledForAReason ==
  \A c \in Call : outcome[c] = "cancelled" =>
    IF c \in Sharing THEN cancelled ELSE c \in requested

\* The count of cancellations that the status reports is the number of calls that
\* were cancelled, each for a reason.
CancellationsAccounted == CancelledOnce /\ CancelledForAReason

\* Cancelling the token ends every call that awaits, even if its synchronous
\* work never finishes.
TokenReleases == \A c \in Sharing : (cancelled /\ pc[c] = "waiting") ~> pc[c] \in Ended

\* Cancelling the task ends it too, and so does finishing the work.
TaskCancelReleases == \A c \in Call : (c \in requested) ~> pc[c] \in Ended
WorkReleases == \A c \in Call : (job[c] = "finished") ~> pc[c] \in Ended

\* Once any of the three has happened the caller gets its answer or its
\* CancelledError, whichever of the two loops it awaits in and whatever the thread
\* of the executor does.
EveryCallReturns == TokenReleases /\ TaskCancelReleases /\ WorkReleases

\* "Cancelling the awaiting asyncio task ... raises asyncio.CancelledError at
\* the adapter boundary" (README.md:515).
TaskCancelRaises == \A c \in Call : c \in requested /\ pc[c] \in Ended => pc[c] = "cancelled"
============================================================================
