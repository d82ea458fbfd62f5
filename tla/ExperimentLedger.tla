-------------------------- MODULE ExperimentLedger --------------------------
(***************************************************************************)
(* The experiment ledger of ledger.py and the plugin hooks that feed it:   *)
(* which tokens a session and a turn are charged with, and which sessions  *)
(* and turns a comparison of two modes may use.                            *)
(*                                                                         *)
(* An operation reads Hermes' accounting (twice, outside any lock) and     *)
(* writes what it read in one or two transactions, each under the lock of  *)
(* its process.  Hermes' accounting and every transaction may fail; both   *)
(* failures are swallowed.  A process may end anywhere and start again in  *)
(* another mode.                                                           *)
(*                                                                         *)
(* One token count stands for the counts and costs that move with it.  The *)
(* effect counters, labels, fingerprints and time stamps are left out:     *)
(* what an effect or on_session_start does to the rest is its              *)
(* ensure_session, and finalize_session brings the totals up to date.      *)
(***************************************************************************)
EXTENDS Integers, FiniteSets

CONSTANTS
  Session, Turn, Process, Worker, Mode, Model,
  SessionOf,      \* turn -> its session
  ProcessOf,      \* worker -> its process
  TurnProcess,    \* turn -> the process whose hooks report it
  Resumed,        \* tokens of a session before the ledger first sees it
  MaxTokens,      \* bound: tokens Hermes charges a session
  MaxMishaps,     \* bound: failures, restarts and changes of model
  None

ASSUME TurnsHaveHomes ==
  SessionOf \in [Turn -> Session] /\ TurnProcess \in [Turn -> Process]
ASSUME WorkersHaveProcesses == ProcessOf \in [Worker -> Process]
ASSUME BoundsAreNaturals ==
  MaxTokens \in Nat /\ MaxMishaps \in Nat /\ Resumed \in 0..MaxTokens
ASSUME NoneIsNothing == None \notin Session \cup Turn \cup Mode \cup Model

VARIABLES
  host,       \* session -> tokens and model in Hermes' accounting
  mode,       \* process -> the mode it was started in
  sessions,   \* table sessions: session -> row, or None
  turns,      \* table turns: turn -> row, or None
  job,        \* worker -> its operation
  window,     \* history: turn -> what Hermes had charged when it was reported
  mishaps     \* failures, restarts and changes of model so far

vars == <<host, mode, sessions, turns, job, window, mishaps>>

Mishap == mishaps < MaxMishaps /\ mishaps' = mishaps + 1

Charges == 0..MaxTokens
Idle == [pc |-> "idle"]

\* What _read returns: Hermes' row, or zeros when it cannot be read.
Unavailable == [tokens |-> 0, model |-> None]
Reading == [tokens : Charges, model : Model \cup {None}]

----------------------------------------------------------------------------
(* Rows. *)

SessionRow ==
  [mode : Mode, initial : Model \cup {None}, last : Model \cup {None},
   baseline : Charges, tokens : Charges, turns : Nat,
   contaminated : BOOLEAN]

TurnRow ==
  [mode : Mode, baseline : Charges, tokens : Charges, ended : BOOLEAN, completed : BOOLEAN]

Window ==
  [opened : Charges, began : Charges, asked : Charges, measured : BOOLEAN,
   checked : BOOLEAN]

ASSUME NoneIsNoRow == None \notin SessionRow \cup TurnRow \cup Window

\* _deltas.
Delta(now, baseline) == IF now > baseline THEN now - baseline ELSE 0

RouteChanged(row, snap) ==
  row.initial # None /\ snap.model # None /\ row.initial # snap.model

\* _sync_session.
Synced(row, snap) ==
  [row EXCEPT !.last = snap.model,
              !.initial = IF @ = None THEN snap.model ELSE @,
              !.tokens = Delta(snap.tokens, row.baseline),
              !.contaminated = @ \/ snap = Unavailable \/ RouteChanged(row, snap)]

NewSession(m, snap) ==
  [mode |-> m, initial |-> snap.model, last |-> snap.model, baseline |-> snap.tokens,
   tokens |-> 0, turns |-> 0, contaminated |-> FALSE]

\* Slip: the mode of the row is not compared with the mode of the run.
SlipEnsuredInAnyMode(s, m, snap) ==
  Synced(IF sessions[s] = None THEN NewSession(m, snap) ELSE sessions[s], snap)

\* ensure_session: INSERT OR IGNORE, then the mode and the accounting are checked.
Ensured(s, m, snap) ==
  LET row == IF sessions[s] = None THEN NewSession(m, snap) ELSE sessions[s]
  IN  Synced([row EXCEPT !.contaminated = @ \/ row.mode # m], snap)

----------------------------------------------------------------------------
(* Operations. *)

\* Slip: two threads of a process are not kept apart.
SlipLockAlwaysFree(w) == TRUE

LockFree(w) ==
  \A v \in Worker \ {w} : ProcessOf[v] = ProcessOf[w] => job[v].pc # "finishing"

Goto(w, pc) == job' = [job EXCEPT ![w].pc = pc]
End(w) == job' = [job EXCEPT ![w] = Idle]

\* "touch" is on_session_start and the recording of an effect; the turn of a
\* "touch" or "finalize" plays no part.  The first start of a turn opens its window.
Begin(w, kind, s, t) ==
  /\ job[w].pc = "idle"
  /\ IF t = None THEN kind \in {"touch", "finalize"}
                 ELSE /\ kind \in {"start", "finish"}
                      /\ s = SessionOf[t] /\ TurnProcess[t] = ProcessOf[w]
  /\ job' = [job EXCEPT ![w] =
               [pc |-> "ensuring", kind |-> kind, session |-> s, turn |-> t,
                snap |-> Unavailable, first |-> FALSE, ensured |-> FALSE,
                asked |-> IF kind = "finish" THEN host[s].tokens ELSE 0]]
  /\ IF kind = "start" /\ window[t] = None
     THEN window' = [window EXCEPT ![t] =
                       [opened |-> host[s].tokens, began |-> 0, asked |-> 0,
                        measured |-> FALSE, checked |-> FALSE]]
     ELSE UNCHANGED window
  /\ UNCHANGED <<host, mode, sessions, turns, mishaps>>

\* _read, before the lock is taken: for ensure_session, then for the operation.
ReadHost(w) ==
  /\ job[w].pc \in {"ensuring", "measuring"}
  /\ \E snap \in {host[job[w].session], Unavailable} :
       /\ IF snap = Unavailable THEN Mishap ELSE UNCHANGED mishaps
       /\ job' = [job EXCEPT ![w].snap = snap,
                             ![w].pc = IF @ = "ensuring" THEN "enrolling" ELSE "writing"]
  /\ UNCHANGED <<host, mode, sessions, turns, window>>

\* The operation goes on whether ensure_session has worked or not.
AfterEnsure(w, ok) ==
  IF job[w].kind = "touch" THEN End(w)
  ELSE job' = [job EXCEPT ![w].pc = "measuring", ![w].snap = Unavailable,
                          ![w].ensured = ok /\ job[w].kind = "start"]

EnsureSession(w) ==
  /\ job[w].pc = "enrolling" /\ LockFree(w)
  /\ LET s == job[w].session
     IN  sessions' = [sessions EXCEPT ![s] = Ensured(s, mode[ProcessOf[w]], job[w].snap)]
  /\ AfterEnsure(w, TRUE)
  /\ UNCHANGED <<host, mode, turns, window, mishaps>>

EnsureFails(w) ==
  /\ job[w].pc = "enrolling" /\ Mishap
  /\ AfterEnsure(w, FALSE)
  /\ UNCHANGED <<host, mode, sessions, turns, window>>

----------------------------------------------------------------------------
(* start_turn, finish_turn and finalize_session after their ensure_session. *)

NewTurn(w) ==
  [mode |-> mode[ProcessOf[w]], baseline |-> job[w].snap.tokens, tokens |-> 0,
   ended |-> FALSE, completed |-> FALSE]

\* Slip: a second start replaces the row.
SlipInsertTurnReplaces(w, t) == turns' = [turns EXCEPT ![t] = NewTurn(w)]

\* INSERT OR IGNORE; the foreign key needs the session's row.
InsertTurn(w, t) ==
  IF turns[t] = None /\ sessions[SessionOf[t]] # None
  THEN turns' = [turns EXCEPT ![t] = NewTurn(w)]
  ELSE UNCHANGED turns

StartTurn(w) ==
  /\ job[w].pc = "writing" /\ job[w].kind = "start" /\ LockFree(w)
  /\ LET t == job[w].turn
     IN  /\ InsertTurn(w, t)
         /\ window' = IF turns[t] = None
                      THEN [window EXCEPT ![t].began = host[SessionOf[t]].tokens,
                                          ![t].measured = job[w].snap # Unavailable,
                                          ![t].checked = job[w].ensured]
                      ELSE window
  /\ End(w)
  /\ UNCHANGED <<host, mode, sessions, mishaps>>

\* finish_turn reads the turn's row before its transaction has begun: only the lock
\* of the process, taken here, keeps another thread from the row.
LookupTurn(w) ==
  /\ job[w].pc = "writing" /\ job[w].kind = "finish" /\ LockFree(w)
  /\ LET t == job[w].turn
     IN  job' = [job EXCEPT ![w].pc = "finishing",
                            ![w].first = turns[t] # None /\ ~turns[t].ended]
  /\ UNCHANGED <<host, mode, sessions, turns, window, mishaps>>

\* Slip: the turn is charged what the session has been charged.
SlipTurnTokens(t, snap) == Delta(snap.tokens, sessions[SessionOf[t]].baseline)

TurnTokens(t, snap) == Delta(snap.tokens, turns[t].baseline)

\* The first report of a turn's end counts the turn.
CountTurn(row, first) == [row EXCEPT !.turns = IF first THEN @ + 1 ELSE @]

FinishTurn(w) ==
  /\ job[w].pc = "finishing"
  /\ LET s == job[w].session
         t == job[w].turn
         snap == job[w].snap
     IN  /\ \E completed \in BOOLEAN :
              IF turns[t] = None THEN UNCHANGED <<turns, window>>
              ELSE /\ turns' = [turns EXCEPT ![t].ended = TRUE, ![t].completed = completed,
                                             ![t].tokens = TurnTokens(t, snap)]
                   /\ window' = [window EXCEPT ![t].asked = job[w].asked]
         /\ sessions' =
              IF sessions[s] = None THEN sessions
              ELSE [sessions EXCEPT ![s] =
                                  Synced(CountTurn(@, job[w].first), snap)]
  /\ End(w)
  /\ UNCHANGED <<host, mode, mishaps>>

FinalizeSession(w) ==
  /\ job[w].pc = "writing" /\ job[w].kind = "finalize" /\ LockFree(w)
  /\ LET s == job[w].session
     IN  sessions' = IF sessions[s] = None THEN sessions
                     ELSE [sessions EXCEPT ![s] = Synced(@, job[w].snap)]
  /\ End(w)
  /\ UNCHANGED <<host, mode, turns, window, mishaps>>

\* The transaction is rolled back and the error kept for the status.
WriteFails(w) ==
  /\ job[w].pc \in {"writing", "finishing"} /\ Mishap
  /\ End(w)
  /\ UNCHANGED <<host, mode, sessions, turns, window>>

----------------------------------------------------------------------------
(* The world around: Hermes charges and routes, processes end and start.    *)

Charge(s) ==
  /\ host[s].tokens < MaxTokens
  /\ host' = [host EXCEPT ![s].tokens = @ + 1]
  /\ UNCHANGED <<mode, sessions, turns, job, window, mishaps>>

SwitchModel(s, m) ==
  /\ Mishap
  /\ host' = [host EXCEPT ![s].model = m]
  /\ UNCHANGED <<mode, sessions, turns, job, window>>

Restart(p, m) ==
  /\ Mishap
  /\ mode' = [mode EXCEPT ![p] = m]
  /\ job' = [w \in Worker |-> IF ProcessOf[w] = p THEN Idle ELSE job[w]]
  /\ UNCHANGED <<host, sessions, turns, window>>

Init ==
  /\ \E m \in Model : host = [s \in Session |-> [tokens |-> Resumed, model |-> m]]
  /\ mode \in [Process -> Mode]
  /\ sessions = [s \in Session |-> None]
  /\ turns = [t \in Turn |-> None]
  /\ job = [w \in Worker |-> Idle]
  /\ window = [t \in Turn |-> None]
  /\ mishaps = 0

Next ==
  \/ \E w \in Worker :
       \/ \E kind \in {"touch", "start", "finish", "finalize"},
             s \in Session, t \in Turn \cup {None} : Begin(w, kind, s, t)
       \/ ReadHost(w) \/ EnsureSession(w) \/ EnsureFails(w)
       \/ StartTurn(w) \/ LookupTurn(w) \/ FinishTurn(w)
       \/ FinalizeSession(w) \/ WriteFails(w)
  \/ \E s \in Session : Charge(s) \/ \E m \in Model : SwitchModel(s, m)
  \/ \E p \in Process, m \in Mode : Restart(p, m)

Spec == Init /\ [][Next]_vars

----------------------------------------------------------------------------
(* Properties. *)

Operation ==
  [pc : {"ensuring", "enrolling", "measuring", "writing", "finishing"},
   kind : {"touch", "start", "finish", "finalize"}, session : Session,
   turn : Turn \cup {None}, snap : Reading, first : BOOLEAN, ensured : BOOLEAN,
   asked : Charges]

\* The rows keep their shape; a turn has a session; a thread that has looked at a
\* turn's row is alone in its process.
LedgerTypeOK ==
  /\ host \in [Session -> [tokens : Charges, model : Model]]
  /\ mode \in [Process -> Mode]
  /\ sessions \in [Session -> SessionRow \cup {None}]
  /\ turns \in [Turn -> TurnRow \cup {None}]
  /\ job \in [Worker -> Operation \cup {Idle}]
  /\ window \in [Turn -> Window \cup {None}]
  /\ mishaps \in 0..MaxMishaps
  /\ \A t \in Turn : turns[t] # None => sessions[SessionOf[t]] # None
  /\ \A v, w \in Worker : job[v].pc = "finishing" /\ job[w].pc = "finishing"
                            /\ ProcessOf[v] = ProcessOf[w] => v = w

\* A session counts every turn that has ended, and counts it once, however often
\* and from however many threads its start and its end are reported, and whatever
\* fails or restarts in between.
TurnsCountedOnce ==
  \A s \in Session : sessions[s] # None =>
    sessions[s].turns =
      Cardinality({t \in Turn : SessionOf[t] = s /\ turns[t] # None /\ turns[t].ended})

\* What _matched_turns pairs: completed turns of uncontaminated sessions.
Eligible(t) ==
  /\ turns[t] # None /\ turns[t].ended /\ turns[t].completed
  /\ ~sessions[SessionOf[t]].contaminated

\* A turn that may be compared ran in its session's mode, through restarts in another
\* mode (CHANGELOG.md:211, "automatic exclusion of sessions contaminated by mode or
\* model changes"), unless the check failed when it was started.
EligibleTurnsKeepMode ==
  \A t \in Turn : Eligible(t) /\ window[t].checked => turns[t].mode = sessions[SessionOf[t]].mode

\* Unless Hermes could not be read when it was started, a turn that may be compared is
\* charged all that Hermes charged from its row to the report of its end, and no more
\* than since its start was first reported: races, repeated reports and resumed
\* sessions included.
MeasuredTurnsAreReal ==
  \A t \in Turn : Eligible(t) /\ window[t].measured =>
    /\ turns[t].tokens >= window[t].asked - window[t].began
    /\ turns[t].tokens <= host[SessionOf[t]].tokens - window[t].opened

\* All that an uncontaminated session was seen to run on is one model
\* (docs/DASHBOARD.md:50, "uncontaminated single-model sessions").
OneRoute ==
  \A s \in Session : sessions[s] # None /\ ~sessions[s].contaminated =>
    /\ sessions[s].initial # None /\ sessions[s].last = sessions[s].initial

\* What a comparison takes is of one mode and one model.
ComparisonIsFair == EligibleTurnsKeepMode /\ OneRoute

\* A turn that may be compared is never charged more than Hermes charged since its
\* start was first reported (tests/test_ledger.py:242, an unavailable accounting
\* "contaminates measurement").
EligibleTurnsAreReal ==
  \A t \in Turn : Eligible(t) =>
    turns[t].tokens <= host[SessionOf[t]].tokens - window[t].opened
============================================================================
