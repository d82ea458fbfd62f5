------------------------------ MODULE Rewriter ------------------------------
(***************************************************************************)
(* The subprocesses of the rtk binary: Rewriter.rewrite and rewrite_async  *)
(* (rewrite.py), which rewrite a terminal command and remember the answer, *)
(* and NativeCompressor._rtk_read_async (compress.py), which reads a file  *)
(* and remembers nothing.  A call starts a process, waits for its output,  *)
(* for the time limit, for the shared cancellation token or for the        *)
(* cancellation of its own task, and answers when the process is done.     *)
(* The metrics counters are left out.                                      *)
(***************************************************************************)
EXTENDS Integers, Sequences

CONSTANTS
  Site,         \* the places calls are made from, one call at a time
  Blocking,     \* sites of the synchronous rewrite, in a thread
  Reads,        \* sites of _rtk_read_async
  Sharing,      \* sites that were handed the cancellation token
  CommandOf, DirectoryOf,  \* what each site asks, and where
  Verdict,      \* what a finished process may have said
  MaxCached     \* config.cache_size

ASSUME CallersAreKinds ==
  /\ Blocking \subseteq Site /\ Reads \subseteq Site
  /\ Sharing \subseteq Site \ Blocking
ASSUME MaxCachedIsANumber == MaxCached \in Nat
ASSUME VerdictsAreAnswers == {"none", "failed", "cancelled"} \cap Verdict = {}

VARIABLES
  pc,         \* where each call is
  process,    \* its subprocess
  output,     \* its communicate() task
  answer,     \* what the call returned
  cancelled,  \* the shared cancellation token
  cache,      \* RewriteCache, least recently used first
  said        \* the answers processes have given: <<command, directory, verdict>>

rewriterVars == <<pc, process, output, answer, cancelled, cache, said>>
callVars == <<pc, process, output, answer>>

IsAt(c, place) == pc[c] = place
Goto(c, place) == pc' = [pc EXCEPT ![c] = place]

----------------------------------------------------------------------------
(* The cache. *)

\* Slip: the working directory is left out of the key.
SlipKeyWithoutDirectory(c) == CommandOf[c]

CacheKey(c) == <<DirectoryOf[c], CommandOf[c]>>

\* An OrderedDict has one entry of a key at most.
Slots(key) == {i \in DOMAIN cache : cache[i].key = key}
Entry(key) == cache[CHOOSE i \in Slots(key) : TRUE]
Without(key) ==
  IF Slots(key) = {} THEN cache
  ELSE LET i == CHOOSE k \in Slots(key) : TRUE
       IN  SubSeq(cache, 1, i - 1) \o SubSeq(cache, i + 1, Len(cache))

Hit(c) == c \notin Reads /\ Slots(CacheKey(c)) # {} /\ ~Entry(CacheKey(c)).old

\* put: the entry becomes the newest, and the oldest is evicted.
CacheWith(c, verdict) ==
  LET all == Append(Without(CacheKey(c)), [key |-> CacheKey(c), verdict |-> verdict, old |-> FALSE])
  IN IF Len(all) > MaxCached THEN Tail(all) ELSE all

\* The time to live of an entry passes.
Age(i) ==
  /\ i \in DOMAIN cache
  /\ ~cache[i].old
  /\ cache' = [cache EXCEPT ![i].old = TRUE]
  /\ UNCHANGED <<callVars, cancelled, said>>

----------------------------------------------------------------------------
(* One call. *)

Answer(c, a) == answer' = [answer EXCEPT ![c] = a] /\ Goto(c, "ended")

\* raise_if_cancelled, then the cache: a hit is answered and becomes the
\* newest entry, one that is too old is dropped.
StartCall(c) ==
  /\ IsAt(c, "idle")
  /\ IF c \in Sharing /\ cancelled
     THEN Answer(c, "cancelled") /\ UNCHANGED cache
     ELSE IF Hit(c)
     THEN LET e == Entry(CacheKey(c)) IN
            Answer(c, e.verdict) /\ cache' = Append(Without(CacheKey(c)), e)
     ELSE /\ Goto(c, "spawning")
          /\ cache' = IF c \in Reads THEN cache ELSE Without(CacheKey(c))
          /\ UNCHANGED answer
  /\ UNCHANGED <<process, output, cancelled, said>>

Spawn(c) ==
  /\ IsAt(c, "spawning")
  /\ \/ /\ process' = [process EXCEPT ![c] = "running"]
        /\ output' = [output EXCEPT ![c] = "pending"]
        /\ Goto(c, "waiting")
        /\ UNCHANGED answer
     \/ Answer(c, "failed") /\ UNCHANGED <<process, output>>   \* OSError
  /\ UNCHANGED <<cancelled, cache, said>>

\* The output is decoded and the verdict remembered, a refusal included.
Finish(c) ==
  /\ IsAt(c, "waiting")
  /\ output[c] = "read"
  /\ \E v \in Verdict :
       /\ Answer(c, v)
       /\ said' = said \cup {<<CommandOf[c], DirectoryOf[c], v>>}
       /\ cache' = IF c \in Reads THEN cache ELSE CacheWith(c, v)
  /\ UNCHANGED <<process, output, cancelled>>

Kill(c) == process' = [process EXCEPT ![c] = IF @ = "running" THEN "killed" ELSE @]

\* Slip: at the time limit the process is waited for and not killed.
SlipTimeOutWithoutKill(c) ==
  /\ IsAt(c, "waiting")
  /\ output[c] = "pending"
  /\ Goto(c, "reaping")
  /\ UNCHANGED <<process, output, answer, cancelled, cache, said>>

\* asyncio.wait, or subprocess.run, reaches the time limit with nothing done.
TimeOut(c) ==
  /\ IsAt(c, "waiting")
  /\ output[c] = "pending"
  /\ Kill(c)
  /\ Goto(c, "reaping")
  /\ UNCHANGED <<output, answer, cancelled, cache, said>>

\* The answer of a call that timed out is not remembered.
Reap(c) ==
  /\ IsAt(c, "reaping")
  /\ output[c] = "read"
  /\ Answer(c, "failed")
  /\ UNCHANGED <<process, output, cancelled, cache, said>>

\* Slip: except asyncio.CancelledError leaves the process alone.
SlipCancelWithoutKill(c) ==
  /\ cancelled' = (cancelled \/ c \in Sharing)
  /\ Goto(c, "cancelling")
  /\ UNCHANGED process

\* except asyncio.CancelledError: the token is cancelled, the process killed.
Cancelling(c) ==
  /\ cancelled' = (cancelled \/ c \in Sharing)
  /\ Kill(c)
  /\ Goto(c, "cancelling")

\* The waiter on the token is done, whether or not the output is too.
Observe(c) ==
  /\ IsAt(c, "waiting")
  /\ c \in Sharing /\ cancelled
  /\ Cancelling(c)
  /\ UNCHANGED <<output, answer, cache, said>>

\* The task of the call is cancelled.  While a process is being created asyncio
\* kills it; where communicate() itself is awaited it is cancelled too, and a
\* second cancellation is swallowed, as is one in the finally clause.
Interrupt(c) ==
  /\ c \notin Blocking
  /\ \/ /\ IsAt(c, "spawning")
        /\ process' \in {process, [process EXCEPT ![c] = "killed"]}
        /\ cancelled' = (cancelled \/ c \in Sharing)
        /\ Answer(c, "cancelled")
        /\ UNCHANGED output
     \/ /\ IsAt(c, "waiting") /\ Cancelling(c)
        /\ UNCHANGED <<output, answer>>
     \/ /\ pc[c] \in {"reaping", "cancelling"} /\ Cancelling(c)
        /\ output' = [output EXCEPT ![c] = IF @ = "pending" THEN "abandoned" ELSE @]
        /\ UNCHANGED answer
  /\ UNCHANGED <<cache, said>>

GiveUp(c) ==
  /\ IsAt(c, "cancelling")
  /\ output[c] \in {"read", "abandoned"}
  /\ Answer(c, "cancelled")
  /\ UNCHANGED <<process, output, cancelled, cache, said>>

\* The host uses the answer; its next call there is a new one.
Use(c) ==
  /\ IsAt(c, "ended")
  /\ Goto(c, "idle")
  /\ process' = [process EXCEPT ![c] = "none"]
  /\ output' = [output EXCEPT ![c] = "none"]
  /\ answer' = [answer EXCEPT ![c] = "none"]
  /\ UNCHANGED <<cancelled, cache, said>>

----------------------------------------------------------------------------
(* Outside a call. *)

Gone(c) ==
  /\ process' = [process EXCEPT ![c] = "exited"]
  /\ output' = [output EXCEPT ![c] = IF @ = "pending" THEN "read" ELSE @]
  /\ UNCHANGED <<pc, answer, cancelled, cache, said>>

\* rtk ends when it likes, or never; a killed one ends, and so do its pipes
\* (rtk leaves no descendant that holds them).
Exit(c) == process[c] = "running" /\ Gone(c)
DieKilled(c) == process[c] = "killed" /\ Gone(c)

\* The user stops the turn; the next turn is handed a fresh token.
CancelToken == ~cancelled /\ cancelled' = TRUE /\ UNCHANGED <<callVars, cache, said>>
NextTurn ==
  /\ cancelled /\ \A c \in Sharing : IsAt(c, "idle")
  /\ cancelled' = FALSE
  /\ UNCHANGED <<callVars, cache, said>>

----------------------------------------------------------------------------
RewriterInit ==
  /\ pc = [c \in Site |-> "idle"]
  /\ process = [c \in Site |-> "none"]
  /\ output = [c \in Site |-> "none"]
  /\ answer = [c \in Site |-> "none"]
  /\ cancelled = FALSE
  /\ cache = <<>>
  /\ said = {}

\* What the event loop, the thread and the operating system owe a call.
Progress(c) ==
  Spawn(c) \/ Finish(c) \/ TimeOut(c) \/ Reap(c) \/ Observe(c) \/ GiveUp(c) \/ DieKilled(c)

RewriterNext ==
  \/ \E c \in Site : StartCall(c) \/ Progress(c) \/ Interrupt(c) \/ Use(c) \/ Exit(c)
  \/ \E i \in 1..MaxCached : Age(i)
  \/ CancelToken \/ NextTurn

RewriterFairness == \A c \in Site : WF_rewriterVars(Progress(c))

RewriterSpec == RewriterInit /\ [][RewriterNext]_rewriterVars /\ RewriterFairness

----------------------------------------------------------------------------
(* Properties. *)

Places == {"idle", "spawning", "waiting", "reaping", "cancelling", "ended"}

RewriterTypeOK ==
  /\ pc \in [Site -> Places]
  /\ process \in [Site -> {"none", "running", "killed", "exited"}]
  /\ output \in [Site -> {"none", "pending", "read", "abandoned"}]
  /\ answer \in [Site -> Verdict \cup {"none", "failed", "cancelled"}]
  /\ cancelled \in BOOLEAN
  /\ Len(cache) <= MaxCached

\* No rtk process outlives the call that started it, however the call ended:
\* it answered, timed out, was cancelled through the token or as a task, twice,
\* or while its process was being created.
NoProcessSurvives == \A c \in Site : IsAt(c, "ended") => process[c] # "running"

\* A command is rewritten to what rtk said of that command in that directory,
\* also when the answer comes from a cache that calls of several threads fill
\* and evict, and never to what a killed process had written.
AnswersAreReal ==
  \A c \in Site : answer[c] \in Verdict => <<CommandOf[c], DirectoryOf[c], answer[c]>> \in said

\* Every call ends, although rtk may never do.
CallsEnd == \A c \in Site : IsAt(c, "spawning") ~> IsAt(c, "ended")
============================================================================
