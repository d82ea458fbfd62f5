-------------------------- MODULE AccountingProofs --------------------------
(***************************************************************************)
(* The two accounts the program keeps, for any sessions, turns, processes, *)
(* threads, requests and calls.                                            *)
(*                                                                         *)
(* The ledger.  What a thread knows of Hermes' accounting was true when it *)
(* read it and Hermes only adds to it; a turn's row and its window keep    *)
(* the order of the readings they are made from; the lock of the process   *)
(* keeps what finish_turn has seen of a row true until it writes.  From    *)
(* this a session counts each ended turn once, a turn that may be compared *)
(* is charged what Hermes charged meanwhile, and a comparison takes one    *)
(* mode and one model.                                                     *)
(*                                                                         *)
(* The request metrics.  Whichever writer wrote a row of characters last,  *)
(* its savings add up; a row of tokens that names one tokenizer holds that *)
(* tokenizer's counts of one call; the status report counts no request in  *)
(* tokens and in characters although its statements see different states.  *)
(***************************************************************************)
EXTENDS MCAccounting, FiniteSetTheorems, TLAPS

----------------------------------------------------------------------------
(* The inductive invariant of the ledger. *)

\* What a thread has read was true when it read it, and only grows.
RealReading(snap, s) ==
  snap = Unavailable \/ (snap.model \in Model /\ snap.tokens <= host[s].tokens)

InMode(s, m) ==
  sessions[s] # None /\ (sessions[s].contaminated \/ sessions[s].mode = m)

JobShaped(w) ==
  /\ job[w] \in Operation
  /\ job[w].kind \in {"touch", "finalize"} <=> job[w].turn = None
  /\ job[w].turn # None => /\ job[w].session = SessionOf[job[w].turn]
                          /\ TurnProcess[job[w].turn] = ProcessOf[w]
  /\ job[w].pc = "finishing" => job[w].kind = "finish"
  /\ job[w].pc \in {"measuring", "writing"} => job[w].kind # "touch"

\* What a thread that reports a start, or an end, knows about its turn.
JobTimely(w) ==
  /\ RealReading(job[w].snap, job[w].session)
  /\ job[w].kind = "start" =>
       /\ window[job[w].turn] # None
       /\ job[w].pc = "writing" /\ job[w].snap # Unavailable =>
            window[job[w].turn].opened <= job[w].snap.tokens
  /\ job[w].kind = "finish" =>
       /\ job[w].asked <= host[job[w].session].tokens
       /\ job[w].pc \in {"writing", "finishing"} /\ job[w].snap # Unavailable =>
            job[w].asked <= job[w].snap.tokens
  /\ job[w].ensured => InMode(job[w].session, mode[ProcessOf[w]])
  /\ job[w].pc = "finishing" =>
       (job[w].first <=> turns[job[w].turn] # None /\ ~turns[job[w].turn].ended)

JobsSane == \A w \in Worker : job[w] # Idle => JobShaped(w) /\ JobTimely(w)

WindowsPast ==
  \A t \in Turn : window[t] # None => window[t].opened <= host[SessionOf[t]].tokens

\* What is known of a turn that has a row.
TurnReal(t) ==
  LET s == SessionOf[t]
  IN  /\ window[t] # None
      /\ window[t].opened <= window[t].began /\ window[t].began <= host[s].tokens
      /\ window[t].measured =>
           window[t].opened <= turns[t].baseline /\ turns[t].baseline <= window[t].began
      /\ window[t].checked => sessions[s].contaminated \/ turns[t].mode = sessions[s].mode
      /\ turns[t].ended /\ window[t].measured =>
           \/ sessions[s].contaminated
           \/ /\ turns[t].tokens >= window[t].asked - window[t].began
              /\ turns[t].tokens <= host[s].tokens - window[t].opened

TurnsReal == \A t \in Turn : turns[t] # None => TurnReal(t)

Ended(s) == {t \in Turn : SessionOf[t] = s /\ turns[t] # None /\ turns[t].ended}

EndsCounted ==
  \A s \in Session : sessions[s] # None =>
    IsFiniteSet(Ended(s)) /\ sessions[s].turns = Cardinality(Ended(s))

LedgerInv ==
  LedgerTypeOK /\ JobsSane /\ WindowsPast /\ TurnsReal /\ EndsCounted /\ OneRoute

----------------------------------------------------------------------------
(* What a step does to a row. *)

LEMMA Replaced ==
  ASSUME NEW S, NEW R, NEW f \in [S -> R], NEW k \in S, NEW v \in R, NEW g,
         g = [f EXCEPT ![k] = v]
  PROVE  g \in [S -> R] /\ g[k] = v /\ \A u \in S \ {k} : g[u] = f[u]
OBVIOUS

LEMMA DeltaCharges ==
  ASSUME NEW now \in Charges, NEW baseline \in Charges
  PROVE  /\ Delta(now, baseline) \in Charges
         /\ Delta(now, baseline) >= now - baseline
         /\ Delta(now, baseline) <= now - baseline \/ Delta(now, baseline) = 0
BY BoundsAreNaturals DEF Delta, Charges

\* A row brought up to date is uncontaminated only if it has seen one model.
LEMMA SyncedRow ==
  ASSUME NEW row \in SessionRow, NEW snap \in Reading,
         snap = Unavailable \/ snap.model \in Model
  PROVE  LET new == Synced(row, snap)
         IN  /\ new \in SessionRow
             /\ new.mode = row.mode /\ new.turns = row.turns
             /\ row.contaminated \/ snap = Unavailable => new.contaminated
             /\ ~new.contaminated => new.initial # None /\ new.last = new.initial
<1> DEFINE new == Synced(row, snap)
<1>1. /\ snap.tokens \in Charges /\ row.baseline \in Charges /\ snap.model \in Model \cup {None}
      /\ row.initial \in Model \cup {None}
  BY DEF Reading, SessionRow
<1>2. Delta(snap.tokens, row.baseline) \in Charges
  BY <1>1, DeltaCharges
<1>3. new \in SessionRow
  BY <1>1, <1>2 DEF Synced, SessionRow, RouteChanged
<1>4. /\ new.mode = row.mode /\ new.turns = row.turns /\ new.last = snap.model
      /\ new.initial = IF row.initial = None THEN snap.model ELSE row.initial
      /\ new.contaminated = (row.contaminated \/ snap = Unavailable \/ RouteChanged(row, snap))
  BY DEF Synced, SessionRow
<1> HIDE DEF new
<1>5. snap = Unavailable \/ snap.model # None
  BY NoneIsNothing
<1>6. ~new.contaminated => new.initial # None /\ new.last = new.initial
  BY <1>4, <1>5 DEF RouteChanged
<1> QED
  BY <1>3, <1>4, <1>6 DEF new

----------------------------------------------------------------------------
(* What no step takes back. *)

\* Hermes' accounting grows, a window stays open where it was opened, a session
\* keeps its mode and stays contaminated.
TablesGrow ==
  /\ \A s \in Session : host[s].tokens <= host'[s].tokens
  /\ \A t \in Turn : window[t] # None => window'[t] # None /\ window'[t].opened = window[t].opened
  /\ \A s \in Session : sessions[s] # None =>
       /\ sessions'[s] # None /\ sessions'[s].mode = sessions[s].mode
       /\ sessions[s].contaminated => sessions'[s].contaminated

LEMMA JobStays ==
  ASSUME LedgerTypeOK, LedgerTypeOK', TablesGrow, NEW w \in Worker,
         job[w] # Idle, JobShaped(w), JobTimely(w), job'[w] = job[w],
         mode'[ProcessOf[w]] = mode[ProcessOf[w]],
         job[w].pc = "finishing" => turns'[job[w].turn] = turns[job[w].turn]
  PROVE  JobShaped(w)' /\ JobTimely(w)'
<1>1. JobShaped(w)'
  BY DEF JobShaped
<1>2. job[w] \in Operation
  BY DEF JobShaped
<1>3. /\ job[w].session \in Session /\ job[w].turn \in Turn \cup {None}
      /\ job[w].kind \in {"start", "finish"} => job[w].turn \in Turn
  BY <1>2, NoneIsNothing DEF Operation, JobShaped
<1>4. /\ host[job[w].session].tokens \in Int /\ host'[job[w].session].tokens \in Int
      /\ job[w].snap.tokens \in Int /\ job[w].asked \in Int
  BY <1>2, <1>3 DEF LedgerTypeOK, Operation, Reading, Charges
<1>5. host[job[w].session].tokens <= host'[job[w].session].tokens
  BY <1>3 DEF TablesGrow
<1>6. RealReading(job[w].snap, job[w].session)'
  BY <1>4, <1>5 DEF JobTimely, RealReading
<1>7. ASSUME job[w].kind = "start"
      PROVE  /\ window'[job[w].turn] # None
             /\ job[w].pc = "writing" /\ job[w].snap # Unavailable =>
                  window'[job[w].turn].opened <= job[w].snap.tokens
  <2>1. window[job[w].turn] # None /\ window[job[w].turn] \in Window \cup {None}
    BY <1>3, <1>7 DEF JobTimely, LedgerTypeOK
  <2>2. window[job[w].turn].opened \in Int
    BY <2>1 DEF Window, Charges
  <2>3. window'[job[w].turn] # None /\ window'[job[w].turn].opened = window[job[w].turn].opened
    BY <1>3, <1>7, <2>1 DEF TablesGrow
  <2> QED
    BY <1>4, <1>5, <1>7, <2>2, <2>3 DEF JobTimely
<1>8. job[w].ensured => InMode(job[w].session, mode[ProcessOf[w]])'
  BY <1>3 DEF JobTimely, InMode, TablesGrow
<1>9. JobTimely(w)'
  BY <1>4, <1>5, <1>6, <1>7, <1>8 DEF JobTimely
<1> QED
  BY <1>1, <1>9

LEMMA TurnStays ==
  ASSUME LedgerTypeOK, LedgerTypeOK', TablesGrow, NEW t \in Turn, turns[t] # None,
         TurnReal(t), turns'[t] = turns[t], window'[t] = window[t]
  PROVE  TurnReal(t)'
<1> DEFINE s == SessionOf[t]
<1>1. s \in Session
  BY TurnsHaveHomes
<1>2. host[s].tokens \in Int /\ host'[s].tokens \in Int /\ host[s].tokens <= host'[s].tokens
  BY <1>1 DEF LedgerTypeOK, Charges, TablesGrow
<1>3. sessions[s] # None
  BY DEF LedgerTypeOK
<1>4. /\ sessions'[s].mode = sessions[s].mode
      /\ sessions[s].contaminated => sessions'[s].contaminated
  BY <1>1, <1>3 DEF TablesGrow
<1>5. turns[t] \in TurnRow /\ window[t] \in Window
  BY DEF LedgerTypeOK, TurnReal
<1>6. turns[t].tokens \in Int /\ window[t].opened \in Int /\ window[t].began \in Int
      /\ window[t].asked \in Int
  BY <1>5 DEF TurnRow, Window, Charges
<1> QED
  BY <1>2, <1>4, <1>6 DEF TurnReal

----------------------------------------------------------------------------
(* Types. *)

LEMMA JobTyped ==
  ASSUME LedgerInv, NEW w \in Worker
  PROVE  /\ Idle.pc = "idle" /\ (job[w] = Idle <=> job[w].pc = "idle")
         /\ job[w] # Idle => /\ job[w] \in Operation /\ JobShaped(w) /\ JobTimely(w)
                             /\ job[w].session \in Session
                             /\ job[w].kind \in {"start", "finish"} => job[w].turn \in Turn
         /\ ProcessOf[w] \in Process
<1>1. Idle.pc = "idle"
  BY DEF Idle
<1>2. job[w] # Idle => job[w] \in Operation /\ JobShaped(w) /\ JobTimely(w)
  BY DEF LedgerInv, JobsSane, JobShaped
<1>3. job[w] # Idle => job[w].pc # "idle" /\ job[w].session \in Session
                       /\ job[w].turn \in Turn \cup {None}
  BY <1>2 DEF Operation
<1>4. job[w] # Idle => (job[w].kind \in {"start", "finish"} => job[w].turn \in Turn)
  BY <1>2, <1>3 DEF JobShaped
<1> QED
  BY <1>1, <1>2, <1>3, <1>4, WorkersHaveProcesses

LEMMA ReadingOf ==
  ASSUME LedgerInv, NEW w \in Worker, job[w] # Idle
  PROVE  /\ job[w].snap \in Reading
         /\ job[w].snap = Unavailable \/ job[w].snap.model \in Model
BY JobTyped DEF Operation, JobTimely, RealReading

\* A step that only moves threads on.
LEMMA JobsTyped ==
  ASSUME LedgerInv, UNCHANGED <<host, mode, sessions, turns>>,
         window' \in [Turn -> Window \cup {None}], mishaps' \in 0..MaxMishaps,
         job' \in [Worker -> Operation \cup {Idle}],
         \A v \in Worker : job'[v].pc = "finishing" => job'[v] = job[v]
  PROVE  LedgerTypeOK'
BY DEF LedgerInv, LedgerTypeOK

LEMMA MishapsTyped ==
  ASSUME LedgerInv, Mishap \/ UNCHANGED mishaps
  PROVE  mishaps' \in 0..MaxMishaps
BY BoundsAreNaturals DEF LedgerInv, LedgerTypeOK, Mishap

\* A step that rewrites the row of a session.
LEMMA SessionTyped ==
  ASSUME LedgerInv, NEW s \in Session, NEW row \in SessionRow,
         sessions' = [sessions EXCEPT ![s] = row]
  PROVE  /\ sessions' \in [Session -> SessionRow \cup {None}]
         /\ sessions'[s] # None
         /\ \A t \in Turn : turns[t] # None => sessions'[SessionOf[t]] # None
BY NoneIsNoRow, TurnsHaveHomes DEF LedgerInv, LedgerTypeOK

LEMMA EnsuredRow ==
  ASSUME LedgerInv, NEW s \in Session, NEW m \in Mode, NEW snap \in Reading,
         snap = Unavailable \/ snap.model \in Model
  PROVE  LET new == Ensured(s, m, snap)
         IN  /\ new \in SessionRow
             /\ ~new.contaminated => /\ new.initial # None /\ new.last = new.initial
                                     /\ new.mode = m
             /\ sessions[s] # None => /\ new.mode = sessions[s].mode
                                      /\ new.turns = sessions[s].turns
                                      /\ sessions[s].contaminated => new.contaminated
             /\ sessions[s] = None => new.turns = 0
<1> DEFINE row == IF sessions[s] = None THEN NewSession(m, snap) ELSE sessions[s]
           checked == [row EXCEPT !.contaminated = @ \/ row.mode # m]
<1>1. row \in SessionRow
  <2>1. snap.tokens \in Charges /\ snap.model \in Model \cup {None} /\ 0 \in Charges
    BY BoundsAreNaturals DEF Reading, Charges
  <2>2. NewSession(m, snap) \in SessionRow
    BY <2>1 DEF NewSession, SessionRow
  <2>3. sessions[s] # None => sessions[s] \in SessionRow
    BY DEF LedgerInv, LedgerTypeOK
  <2> QED
    BY <2>2, <2>3
<1>2. sessions[s] = None => row.turns = 0
  BY DEF NewSession
<1>3. sessions[s] # None => row = sessions[s]
  OBVIOUS
<1> HIDE DEF row
<1>4. /\ checked \in SessionRow
      /\ checked.mode = row.mode /\ checked.turns = row.turns
      /\ checked.contaminated = (row.contaminated \/ row.mode # m)
  BY <1>1 DEF SessionRow
<1> HIDE DEF checked
<1> DEFINE new == Synced(checked, snap)
<1>5. /\ new \in SessionRow
      /\ new.mode = checked.mode /\ new.turns = checked.turns
      /\ checked.contaminated \/ snap = Unavailable => new.contaminated
      /\ ~new.contaminated => new.initial # None /\ new.last = new.initial
  BY <1>4, SyncedRow
<1>6. new = Ensured(s, m, snap)
  BY DEF Ensured, checked, row
<1> HIDE DEF new
<1>7. ~new.contaminated => new.mode = m
  BY <1>4, <1>5
<1>8. sessions[s] # None => /\ new.mode = sessions[s].mode
                            /\ new.turns = sessions[s].turns
                            /\ sessions[s].contaminated => new.contaminated
  BY <1>3, <1>4, <1>5
<1>9. sessions[s] = None => new.turns = 0
  BY <1>2, <1>4, <1>5
<1> QED
  BY <1>5, <1>6, <1>7, <1>8, <1>9

\* What finish_turn and finalize_session write into the row of a session.
LEMMA FinishedRow ==
  ASSUME LedgerInv, NEW s \in Session, sessions[s] # None, NEW first \in BOOLEAN, NEW snap \in Reading,
         snap = Unavailable \/ snap.model \in Model
  PROVE  LET new == Synced(CountTurn(sessions[s], first), snap)
         IN  /\ new \in SessionRow /\ new.mode = sessions[s].mode
             /\ new.turns = sessions[s].turns + IF first THEN 1 ELSE 0
             /\ sessions[s].contaminated \/ snap = Unavailable => new.contaminated
             /\ ~new.contaminated => new.initial # None /\ new.last = new.initial
<1> DEFINE row == CountTurn(sessions[s], first)
<1>1. sessions[s] \in SessionRow
  BY DEF LedgerInv, LedgerTypeOK
<1>2. /\ row \in SessionRow /\ row.mode = sessions[s].mode
      /\ row.turns = sessions[s].turns + IF first THEN 1 ELSE 0
      /\ row.contaminated = sessions[s].contaminated
  BY <1>1 DEF SessionRow, CountTurn
<1> HIDE DEF row
<1> QED
  BY <1>2, SyncedRow DEF row

\* What finish_turn writes into the row of a turn and its window.
EndedRow(t, completed, snap) ==
  [turns[t] EXCEPT !.ended = TRUE, !.completed = completed, !.tokens = TurnTokens(t, snap)]

AskedWindow(t, asked) == [window[t] EXCEPT !.asked = asked]

LEMMA FinishedTurn ==
  ASSUME LedgerInv, NEW t \in Turn, turns[t] # None, NEW snap \in Reading,
         NEW completed \in BOOLEAN, NEW asked \in Charges
  PROVE  LET row == EndedRow(t, completed, snap)
             win == AskedWindow(t, asked)
         IN  /\ row \in TurnRow /\ row.ended /\ row.tokens = TurnTokens(t, snap)
             /\ row.baseline = turns[t].baseline /\ row.mode = turns[t].mode
             /\ win \in Window /\ win.asked = asked /\ win.opened = window[t].opened
             /\ win.began = window[t].began /\ win.measured = window[t].measured
             /\ win.checked = window[t].checked
             /\ row # None /\ win # None
<1>1. turns[t] \in TurnRow /\ window[t] \in Window
  BY DEF LedgerInv, LedgerTypeOK, TurnsReal, TurnReal
<1>2. snap.tokens \in Charges /\ turns[t].baseline \in Charges
  BY <1>1 DEF Reading, TurnRow
<1>3. TurnTokens(t, snap) \in Charges
  BY <1>2, DeltaCharges DEF TurnTokens
<1> DEFINE row == EndedRow(t, completed, snap)
           win == AskedWindow(t, asked)
<1>4. /\ row \in TurnRow /\ row.ended /\ row.tokens = TurnTokens(t, snap)
      /\ row.baseline = turns[t].baseline /\ row.mode = turns[t].mode
  BY <1>1, <1>3 DEF TurnRow, EndedRow
<1>5. /\ win \in Window /\ win.asked = asked /\ win.opened = window[t].opened
      /\ win.began = window[t].began /\ win.measured = window[t].measured
      /\ win.checked = window[t].checked
  BY <1>1 DEF Window, AskedWindow
<1> HIDE DEF row, win
<1>6. row # None /\ win # None
  BY <1>4, <1>5, NoneIsNoRow
<1> QED
  BY <1>4, <1>5, <1>6 DEF row, win

LEMMA FinishTurnWrites ==
  ASSUME LedgerInv, NEW w \in Worker, FinishTurn(w)
  PROVE  LET s == job[w].session
             t == job[w].turn
             snap == job[w].snap
             row == Synced(CountTurn(sessions[s], job[w].first), snap)
         IN  /\ \/ turns[t] = None /\ UNCHANGED <<turns, window>>
                \/ /\ turns[t] # None
                   /\ \E completed \in BOOLEAN :
                        turns' = [turns EXCEPT ![t] = EndedRow(t, completed, snap)]
                   /\ window' = [window EXCEPT ![t] = AskedWindow(t, job[w].asked)]
             /\ \/ sessions[s] = None /\ UNCHANGED sessions
                \/ sessions[s] # None /\ sessions' = [sessions EXCEPT ![s] = row]
<1> DEFINE s == job[w].session
           t == job[w].turn
           snap == job[w].snap
<1>1. t \in Turn /\ s \in Session
  <2>1. job[w].pc = "finishing"
    BY Zenon DEF FinishTurn
  <2> QED
    BY <2>1, JobTyped DEF JobShaped
<1>2. DOMAIN turns = Turn /\ DOMAIN window = Turn /\ DOMAIN sessions = Session
  BY DEF LedgerInv, LedgerTypeOK
<1>3. ASSUME NEW completed
      PROVE  [turns EXCEPT ![t].ended = TRUE, ![t].completed = completed,
                           ![t].tokens = TurnTokens(t, snap)]
             = [turns EXCEPT ![t] = EndedRow(t, completed, snap)]
  BY <1>1, <1>2 DEF EndedRow
<1>4. [window EXCEPT ![t].asked = job[w].asked]
      = [window EXCEPT ![t] = AskedWindow(t, job[w].asked)]
  BY <1>1, <1>2 DEF AskedWindow
<1>5. \/ turns[t] = None /\ UNCHANGED <<turns, window>>
      \/ /\ turns[t] # None
         /\ \E completed \in BOOLEAN :
              turns' = [turns EXCEPT ![t] = EndedRow(t, completed, snap)]
         /\ window' = [window EXCEPT ![t] = AskedWindow(t, job[w].asked)]
  <2>1. PICK completed \in BOOLEAN :
          IF turns[t] = None THEN UNCHANGED <<turns, window>>
          ELSE /\ turns' = [turns EXCEPT ![t].ended = TRUE, ![t].completed = completed,
                                         ![t].tokens = TurnTokens(t, snap)]
               /\ window' = [window EXCEPT ![t].asked = job[w].asked]
    BY DEF FinishTurn
  <2>2. CASE turns[t] = None
    BY <2>1, <2>2
  <2>3. CASE turns[t] # None
    <3>1. turns' = [turns EXCEPT ![t] = EndedRow(t, completed, snap)]
      BY <2>1, <2>3, <1>3, Zenon
    <3>2. window' = [window EXCEPT ![t] = AskedWindow(t, job[w].asked)]
      BY <2>1, <2>3, <1>4, Zenon
    <3> QED
      BY <2>3, <3>1, <3>2
  <2> QED
    BY <2>2, <2>3
<1>6. \/ sessions[s] = None /\ UNCHANGED sessions
      \/ /\ sessions[s] # None
         /\ sessions' = [sessions EXCEPT ![s] = Synced(CountTurn(@, job[w].first), snap)]
  BY Zenon DEF FinishTurn
<1> QED
  BY <1>5, <1>6

\* What start_turn writes into the row of a turn and its window.
BegunWindow(w, t) ==
  [window[t] EXCEPT !.began = host[SessionOf[t]].tokens,
                    !.measured = job[w].snap # Unavailable,
                    !.checked = job[w].ensured]

LEMMA StartTurnWrites ==
  ASSUME LedgerInv, NEW w \in Worker, StartTurn(w)
  PROVE  LET t == job[w].turn
             row == NewTurn(w)
             win == BegunWindow(w, t)
         IN  /\ t \in Turn /\ t = job[w].turn /\ job[w].session = SessionOf[t]
             /\ turns[t] # None => UNCHANGED <<turns, window>>
             /\ turns[t] = None =>
                  /\ window' = [window EXCEPT ![t] = win]
                  /\ \/ UNCHANGED turns
                     \/ turns' = [turns EXCEPT ![t] = row] /\ sessions[SessionOf[t]] # None
             /\ row \in TurnRow /\ row.mode = mode[ProcessOf[w]] /\ ~row.ended
             /\ row.baseline = job[w].snap.tokens
             /\ win \in Window /\ win.opened = window[t].opened
             /\ win.began = host[SessionOf[t]].tokens
             /\ win.measured = (job[w].snap # Unavailable) /\ win.checked = job[w].ensured
             /\ row # None /\ win # None /\ window[t] # None
<1> DEFINE t == job[w].turn
           row == NewTurn(w)
           win == BegunWindow(w, t)
<1>1. /\ t \in Turn /\ job[w] \in Operation /\ job[w].kind = "start" /\ JobShaped(w)
      /\ JobTimely(w) /\ job[w].session = SessionOf[t]
  <2>1. job[w].pc = "writing" /\ job[w].kind = "start"
    BY Zenon DEF StartTurn
  <2> QED
    BY <2>1, JobTyped, NoneIsNothing DEF JobShaped
<1>2. window[t] \in Window /\ window[t] # None
  BY <1>1 DEF JobTimely, LedgerInv, LedgerTypeOK
<1>3. /\ host[SessionOf[t]].tokens \in Charges
      /\ mode[ProcessOf[w]] \in Mode /\ job[w].snap.tokens \in Charges
      /\ job[w].ensured \in BOOLEAN
  BY <1>1, JobTyped, TurnsHaveHomes, WorkersHaveProcesses
     DEF LedgerInv, LedgerTypeOK, Operation, Reading
<1>4. 0 \in Charges
  BY BoundsAreNaturals DEF Charges
<1>5. /\ row \in TurnRow /\ row.mode = mode[ProcessOf[w]] /\ ~row.ended
      /\ row.baseline = job[w].snap.tokens
  BY <1>3, <1>4 DEF NewTurn, TurnRow
<1>6. /\ win \in Window /\ win.opened = window[t].opened
      /\ win.began = host[SessionOf[t]].tokens
      /\ win.measured = (job[w].snap # Unavailable) /\ win.checked = job[w].ensured
  BY <1>2, <1>3 DEF Window, BegunWindow
<1>7. DOMAIN window = Turn
  BY DEF LedgerInv, LedgerTypeOK
<1>8. [window EXCEPT ![t].began = host[SessionOf[t]].tokens,
                     ![t].measured = job[w].snap # Unavailable,
                     ![t].checked = job[w].ensured] = [window EXCEPT ![t] = win]
  BY <1>1, <1>7 DEF BegunWindow
<1>9. turns[t] = None => window' = [window EXCEPT ![t] = win]
  <2>1. turns[t] = None =>
          window' = [window EXCEPT ![t].began = host[SessionOf[t]].tokens,
                                   ![t].measured = job[w].snap # Unavailable,
                                   ![t].checked = job[w].ensured]
    BY Zenon DEF StartTurn
  <2> QED
    BY <1>8, <2>1, Zenon
<1>10. /\ turns[t] # None => UNCHANGED <<turns, window>>
       /\ turns[t] = None => \/ UNCHANGED turns
                             \/ /\ turns' = [turns EXCEPT ![t] = row]
                                /\ sessions[SessionOf[t]] # None
  BY Zenon DEF StartTurn, InsertTurn
<1> HIDE DEF row, win
<1>11. row # None /\ win # None
  BY <1>5, <1>6, NoneIsNoRow
<1> QED
  BY <1>1, <1>2, <1>5, <1>6, <1>9, <1>10, <1>11 DEF row, win

LEMMA TypesKept ==
  ASSUME LedgerInv, [Next]_vars
  PROVE  LedgerTypeOK'
<1> DEFINE Jobs == job' \in [Worker -> Operation \cup {Idle}]
           Rest == \A v \in Worker : job'[v].pc = "finishing" => job'[v] = job[v]
<1>0. /\ job \in [Worker -> Operation \cup {Idle}] /\ window \in [Turn -> Window \cup {None}]
      /\ host \in [Session -> [tokens : Charges, model : Model]]
      /\ 0 \in Charges /\ Unavailable \in Reading /\ Idle.pc # "finishing"
  BY BoundsAreNaturals DEF LedgerInv, LedgerTypeOK, Charges, Unavailable, Reading, Idle
<1>1. ASSUME NEW w \in Worker, NEW kind \in {"touch", "start", "finish", "finalize"},
             NEW s \in Session, NEW t \in Turn \cup {None}, Begin(w, kind, s, t)
      PROVE  LedgerTypeOK'
  <2> DEFINE op == [pc |-> "ensuring", kind |-> kind, session |-> s, turn |-> t,
                    snap |-> Unavailable, first |-> FALSE, ensured |-> FALSE,
                    asked |-> IF kind = "finish" THEN host[s].tokens ELSE 0]
             win == [opened |-> host[s].tokens, began |-> 0, asked |-> 0,
                     measured |-> FALSE, checked |-> FALSE]
  <2>1. op \in Operation /\ op.pc = "ensuring" /\ win \in Window
    BY <1>0 DEF Operation, Window
  <2>2. job' = [job EXCEPT ![w] = op] /\ UNCHANGED <<host, mode, sessions, turns, mishaps>>
    BY <1>1 DEF Begin
  <2>3. \/ t \in Turn /\ window' = [window EXCEPT ![t] = win]
        \/ UNCHANGED window
    BY <1>1, NoneIsNothing DEF Begin
  <2> HIDE DEF op, win
  <2>4. window' \in [Turn -> Window \cup {None}]
    BY <1>0, <2>1, <2>3
  <2>5. Jobs /\ Rest
    BY <1>0, <2>1, <2>2
  <2> QED
    BY <2>2, <2>4, <2>5, MishapsTyped, JobsTyped
<1>2. ASSUME NEW w \in Worker, End(w) \/ AfterEnsure(w, TRUE) \/ AfterEnsure(w, FALSE),
             job[w].pc # "idle"
      PROVE  Jobs /\ Rest
  <2>1. job[w] \in Operation
    BY <1>2, JobTyped
  <2>2. ASSUME NEW ensured \in BOOLEAN
        PROVE  /\ [job[w] EXCEPT !.pc = "measuring", !.snap = Unavailable, !.ensured = ensured]
                    \in Operation
               /\ [job[w] EXCEPT !.pc = "measuring", !.snap = Unavailable,
                                 !.ensured = ensured].pc = "measuring"
    BY <1>0, <2>1 DEF Operation
  <2>3. CASE End(w)
    BY <1>0, <2>3 DEF End
  <2>4. ASSUME NEW ensured \in BOOLEAN,
               job' = [job EXCEPT ![w].pc = "measuring", ![w].snap = Unavailable,
                                  ![w].ensured = ensured]
        PROVE  Jobs /\ Rest
    BY <1>0, <2>2, <2>4
  <2>5. ASSUME NEW ok \in BOOLEAN, AfterEnsure(w, ok), ~End(w)
        PROVE  Jobs /\ Rest
    <3>1. job' = [job EXCEPT ![w].pc = "measuring", ![w].snap = Unavailable,
                             ![w].ensured = ok /\ job[w].kind = "start"]
      BY <2>5, Zenon DEF AfterEnsure
    <3>2. (ok /\ job[w].kind = "start") \in BOOLEAN
      OBVIOUS
    <3> QED
      BY <2>4, <3>1, <3>2, Zenon
  <2> QED
    BY <1>2, <2>3, <2>5
<1>3. ASSUME NEW w \in Worker, ReadHost(w)
      PROVE  LedgerTypeOK'
  <2>1. job[w] \in Operation /\ job[w].session \in Session
    BY <1>3, JobTyped DEF ReadHost
  <2>2. PICK snap \in {host[job[w].session], Unavailable} :
          /\ IF snap = Unavailable THEN Mishap ELSE UNCHANGED mishaps
          /\ job' = [job EXCEPT ![w].snap = snap,
                                ![w].pc = IF @ = "ensuring" THEN "enrolling" ELSE "writing"]
    BY <1>3 DEF ReadHost
  <2>3. snap \in Reading
    BY <1>0, <2>1 DEF Reading
  <2> DEFINE op == [job[w] EXCEPT !.snap = snap,
                                  !.pc = IF @ = "ensuring" THEN "enrolling" ELSE "writing"]
  <2>4. op \in Operation /\ op.pc # "finishing"
    BY <2>1, <2>3 DEF Operation
  <2>5. job' = [job EXCEPT ![w] = op]
    BY <1>0, <2>2
  <2> HIDE DEF op
  <2>6. Jobs /\ Rest
    BY <1>0, <2>4, <2>5
  <2>7. UNCHANGED <<host, mode, sessions, turns, window>>
    BY <1>3 DEF ReadHost
  <2> QED
    BY <1>0, <2>2, <2>6, <2>7, MishapsTyped, JobsTyped
<1>4. ASSUME NEW w \in Worker, EnsureFails(w) \/ WriteFails(w)
      PROVE  LedgerTypeOK'
  <2>1. /\ UNCHANGED <<host, mode, sessions, turns, window>> /\ Mishap /\ job[w].pc # "idle"
        /\ End(w) \/ AfterEnsure(w, FALSE)
    BY <1>4 DEF EnsureFails, WriteFails
  <2>2. Jobs /\ Rest
    BY <1>2, <2>1
  <2>3. mishaps' \in 0..MaxMishaps /\ window' \in [Turn -> Window \cup {None}]
    BY <1>0, <2>1, MishapsTyped
  <2> QED
    BY <2>1, <2>2, <2>3, JobsTyped
<1>5. ASSUME NEW w \in Worker, LookupTurn(w)
      PROVE  LedgerTypeOK'
  <2>1. job[w] \in Operation
    BY <1>5, JobTyped DEF LookupTurn
  <2> DEFINE t == job[w].turn
             first == turns[t] # None /\ ~turns[t].ended
             op == [job[w] EXCEPT !.pc = "finishing", !.first = first]
  <2>2. job' = [job EXCEPT ![w] = op] /\ UNCHANGED <<host, mode, sessions, turns, window, mishaps>>
    BY <1>0, <1>5 DEF LookupTurn
  <2>3. first \in BOOLEAN
    OBVIOUS
  <2> HIDE DEF first
  <2>4. op \in Operation
    BY <2>1, <2>3 DEF Operation
  <2> HIDE DEF op
  <2>5. Jobs
    BY <1>0, <2>2, <2>4
  <2>6. \A v \in Worker \ {w} : job'[v] = job[v]
                               /\ (ProcessOf[v] = ProcessOf[w] => job[v].pc # "finishing")
    BY <1>0, <1>5, <2>2 DEF LookupTurn, LockFree
  <2>7. \A u, v \in Worker : job'[u].pc = "finishing" /\ job'[v].pc = "finishing"
                               /\ ProcessOf[u] = ProcessOf[v] => u = v
    BY <2>6 DEF LedgerInv, LedgerTypeOK
  <2> QED
    BY <2>2, <2>5, <2>7 DEF LedgerInv, LedgerTypeOK
<1>6. ASSUME NEW w \in Worker, EnsureSession(w)
      PROVE  LedgerTypeOK'
  <2> DEFINE s == job[w].session
             m == mode[ProcessOf[w]]
             row == Ensured(s, m, job[w].snap)
  <2>1. job[w].pc = "enrolling"
    BY <1>6 DEF EnsureSession
  <2>2. /\ s \in Session /\ m \in Mode /\ job[w].snap \in Reading
        /\ job[w].snap = Unavailable \/ job[w].snap.model \in Model
    BY <2>1, JobTyped, ReadingOf, WorkersHaveProcesses DEF LedgerInv, LedgerTypeOK
  <2>3. row \in SessionRow
    BY <2>2, EnsuredRow
  <2>4. sessions' = [sessions EXCEPT ![s] = row] /\ AfterEnsure(w, TRUE)
        /\ UNCHANGED <<host, mode, turns, window, mishaps>>
    BY <1>6 DEF EnsureSession
  <2> HIDE DEF row
  <2>5. Jobs /\ Rest
    BY <1>2, <2>1, <2>4
  <2> QED
    BY <2>2, <2>3, <2>4, <2>5, SessionTyped DEF LedgerInv, LedgerTypeOK
<1>7. ASSUME NEW w \in Worker, StartTurn(w)
      PROVE  LedgerTypeOK'
  <2> DEFINE t == job[w].turn
             row == NewTurn(w)
             win == BegunWindow(w, t)
  <2>1. /\ t \in Turn
        /\ turns[t] # None => UNCHANGED <<turns, window>>
        /\ turns[t] = None =>
             /\ window' = [window EXCEPT ![t] = win]
             /\ \/ UNCHANGED turns
                \/ turns' = [turns EXCEPT ![t] = row] /\ sessions[SessionOf[t]] # None
        /\ row \in TurnRow /\ win \in Window
    BY <1>7, StartTurnWrites
  <2>2. UNCHANGED <<host, mode, sessions, mishaps>> /\ End(w) /\ job[w].pc # "idle"
    BY <1>7 DEF StartTurn
  <2> HIDE DEF row, win, t
  <2>3. turns' \in [Turn -> TurnRow \cup {None}] /\ window' \in [Turn -> Window \cup {None}]
        /\ \A u \in Turn : turns'[u] # None => turns[u] # None \/ sessions[SessionOf[u]] # None
    BY <1>0, <2>1 DEF LedgerInv, LedgerTypeOK
  <2>4. Jobs /\ Rest
    BY <1>2, <2>2
  <2> QED
    BY <2>2, <2>3, <2>4 DEF LedgerInv, LedgerTypeOK
<1>8. ASSUME NEW w \in Worker, FinishTurn(w)
      PROVE  LedgerTypeOK'
  <2> DEFINE s == job[w].session
             t == job[w].turn
             snap == job[w].snap
             row == Synced(CountTurn(sessions[s], job[w].first), snap)
             win == AskedWindow(t, job[w].asked)
  <2>1. job[w].pc = "finishing" /\ End(w) /\ UNCHANGED <<host, mode, mishaps>>
    BY <1>8 DEF FinishTurn
  <2>2. /\ job[w] \in Operation /\ s \in Session /\ t \in Turn /\ job[w].first \in BOOLEAN
        /\ job[w].asked \in Charges /\ snap \in Reading
        /\ snap = Unavailable \/ snap.model \in Model
    BY <2>1, JobTyped, ReadingOf DEF Operation, JobShaped
  <2>3. sessions[s] # None => row \in SessionRow
    BY <2>2, FinishedRow
  <2>4. \/ UNCHANGED sessions
        \/ sessions[s] # None /\ sessions' = [sessions EXCEPT ![s] = row]
    BY <1>8, FinishTurnWrites
  <2>5. \/ UNCHANGED <<turns, window>>
        \/ /\ turns[t] # None
           /\ \E completed \in BOOLEAN : turns' = [turns EXCEPT ![t] = EndedRow(t, completed, snap)]
           /\ window' = [window EXCEPT ![t] = win]
    BY <1>8, FinishTurnWrites
  <2>6. turns[t] # None => win \in Window
    BY <2>2, FinishedTurn
  <2>7. turns[t] # None => \A completed \in BOOLEAN : EndedRow(t, completed, snap) \in TurnRow
    BY <2>2, FinishedTurn
  <2> HIDE DEF s, t, snap, row, win
  <2>8. turns' \in [Turn -> TurnRow \cup {None}] /\ window' \in [Turn -> Window \cup {None}]
        /\ \A u \in Turn : turns'[u] # None => turns[u] # None
    BY <1>0, <2>2, <2>5, <2>6, <2>7 DEF LedgerInv, LedgerTypeOK
  <2>9. sessions' \in [Session -> SessionRow \cup {None}]
        /\ \A u \in Turn : turns[u] # None => sessions'[SessionOf[u]] # None
    BY <2>2, <2>3, <2>4, SessionTyped DEF LedgerInv, LedgerTypeOK
  <2>10. Jobs /\ Rest
    BY <1>2, <2>1
  <2> QED
    BY <2>1, <2>8, <2>9, <2>10 DEF LedgerInv, LedgerTypeOK
<1>9. ASSUME NEW w \in Worker, FinalizeSession(w)
      PROVE  LedgerTypeOK'
  <2> DEFINE s == job[w].session
             row == Synced(sessions[s], job[w].snap)
  <2>1. /\ job[w].pc = "writing" /\ End(w) /\ UNCHANGED <<host, mode, turns, window, mishaps>>
        /\ \/ UNCHANGED sessions
           \/ sessions[s] # None /\ sessions' = [sessions EXCEPT ![s] = row]
    BY <1>9 DEF FinalizeSession
  <2>2. /\ s \in Session /\ job[w].snap \in Reading
        /\ job[w].snap = Unavailable \/ job[w].snap.model \in Model
    BY <2>1, JobTyped, ReadingOf
  <2>3. sessions[s] # None => row \in SessionRow
    BY <2>2, SyncedRow DEF LedgerInv, LedgerTypeOK
  <2> HIDE DEF s, row
  <2>4. sessions' \in [Session -> SessionRow \cup {None}]
        /\ \A u \in Turn : turns[u] # None => sessions'[SessionOf[u]] # None
    BY <2>1, <2>2, <2>3, SessionTyped DEF LedgerInv, LedgerTypeOK
  <2>5. Jobs /\ Rest
    BY <1>2, <2>1
  <2> QED
    BY <2>1, <2>4, <2>5 DEF LedgerInv, LedgerTypeOK
<1>10. ASSUME NEW s \in Session, Charge(s)
       PROVE  LedgerTypeOK'
  <2>1. [host[s] EXCEPT !.tokens = @ + 1] \in [tokens : Charges, model : Model]
    BY <1>0, <1>10, BoundsAreNaturals DEF Charge, Charges
  <2>2. host' = [host EXCEPT ![s].tokens = @ + 1]
        /\ UNCHANGED <<mode, sessions, turns, job, window, mishaps>>
    BY <1>10 DEF Charge
  <2>3. host' \in [Session -> [tokens : Charges, model : Model]]
    BY <1>0, <2>1, <2>2
  <2> QED
    BY <2>2, <2>3 DEF LedgerInv, LedgerTypeOK
<1>11. ASSUME NEW s \in Session, NEW m \in Model, SwitchModel(s, m)
       PROVE  LedgerTypeOK'
  <2>1. host' \in [Session -> [tokens : Charges, model : Model]]
    BY <1>0, <1>11 DEF SwitchModel
  <2>2. mishaps' \in 0..MaxMishaps
    BY <1>11, MishapsTyped DEF SwitchModel
  <2> QED
    BY <1>11, <2>1, <2>2 DEF SwitchModel, LedgerInv, LedgerTypeOK
<1>12. ASSUME NEW p \in Process, NEW m \in Mode, Restart(p, m)
       PROVE  LedgerTypeOK'
  <2>1. Jobs /\ Rest
    BY <1>0, <1>12 DEF Restart
  <2>2. mishaps' \in 0..MaxMishaps /\ mode' \in [Process -> Mode]
    BY <1>12, MishapsTyped DEF Restart, LedgerInv, LedgerTypeOK
  <2>3. UNCHANGED <<host, sessions, turns, window>>
    BY <1>12 DEF Restart
  <2> QED
    BY <2>1, <2>2, <2>3 DEF LedgerInv, LedgerTypeOK
<1>13. CASE UNCHANGED vars
  BY <1>13 DEF vars, LedgerInv, LedgerTypeOK
<1> QED
  BY <1>1, <1>3, <1>4, <1>5, <1>6, <1>7, <1>8, <1>9, <1>10, <1>11, <1>12, <1>13 DEF Next

----------------------------------------------------------------------------
(* How the tables change. *)

\* A step writes at most the row of one session, and brings it up to date with it.
LEMMA SessionsAreSynced ==
  ASSUME LedgerInv, [Next]_vars, NEW s \in Session, sessions'[s] # sessions[s]
  PROVE  /\ sessions'[s] # None
         /\ ~sessions'[s].contaminated =>
              sessions'[s].initial # None /\ sessions'[s].last = sessions'[s].initial
         /\ sessions[s] # None => /\ sessions'[s].mode = sessions[s].mode
                                  /\ sessions[s].contaminated => sessions'[s].contaminated
<1> DEFINE Good(row) ==
             /\ row # None
             /\ ~row.contaminated => row.initial # None /\ row.last = row.initial
             /\ sessions[s] # None => /\ row.mode = sessions[s].mode
                                      /\ sessions[s].contaminated => row.contaminated
<1>0. SUFFICES Good(sessions'[s])
  OBVIOUS
<1> HIDE DEF Good
<1>1. ASSUME NEW r \in Session, NEW row, sessions' = [sessions EXCEPT ![r] = row],
             r = s => Good(row)
      PROVE  Good(sessions'[s])
  BY <1>1 DEF LedgerInv, LedgerTypeOK
<1>2. ASSUME NEW w \in Worker, job[w].pc \in {"enrolling", "writing", "finishing"}
      PROVE  /\ job[w].session \in Session /\ job[w].snap \in Reading
             /\ job[w].snap = Unavailable \/ job[w].snap.model \in Model
             /\ mode[ProcessOf[w]] \in Mode
             /\ job[w].first \in BOOLEAN
  BY <1>2, JobTyped, ReadingOf, WorkersHaveProcesses DEF LedgerInv, LedgerTypeOK, Operation
<1>3. ASSUME NEW w \in Worker, EnsureSession(w)
      PROVE  Good(sessions'[s])
  <2> DEFINE row == Ensured(job[w].session, mode[ProcessOf[w]], job[w].snap)
  <2>1. job[w].pc = "enrolling" /\ sessions' = [sessions EXCEPT ![job[w].session] = row]
    BY <1>3 DEF EnsureSession
  <2>2. row \in SessionRow
    BY <1>2, <2>1, EnsuredRow
  <2>3. job[w].session = s => Good(row)
    BY <1>2, <2>1, <2>2, EnsuredRow, NoneIsNoRow DEF Good
  <2> QED
    BY <1>1, <1>2, <2>1, <2>3
<1>4. ASSUME NEW w \in Worker, FinishTurn(w)
      PROVE  Good(sessions'[s])
  <2> DEFINE row == Synced(CountTurn(sessions[job[w].session], job[w].first), job[w].snap)
  <2>1. job[w].pc = "finishing"
    BY <1>4 DEF FinishTurn
  <2>2. /\ sessions[job[w].session] # None
        /\ sessions' = [sessions EXCEPT ![job[w].session] = row]
    BY <1>4, FinishTurnWrites
  <2>3. row \in SessionRow
    BY <1>2, <2>1, <2>2, FinishedRow
  <2>4. job[w].session = s => Good(row)
    BY <1>2, <2>1, <2>2, <2>3, FinishedRow, NoneIsNoRow DEF Good
  <2> QED
    BY <1>1, <1>2, <2>1, <2>2, <2>4
<1>5. ASSUME NEW w \in Worker, FinalizeSession(w)
      PROVE  Good(sessions'[s])
  <2> DEFINE row == Synced(sessions[job[w].session], job[w].snap)
  <2>1. /\ job[w].pc = "writing" /\ sessions[job[w].session] # None
        /\ sessions' = [sessions EXCEPT ![job[w].session] = row]
    BY <1>5 DEF FinalizeSession
  <2>2. sessions[job[w].session] \in SessionRow
    BY <1>2, <2>1 DEF LedgerInv, LedgerTypeOK
  <2>3. row \in SessionRow
    BY <1>2, <2>1, <2>2, SyncedRow
  <2>4. job[w].session = s => Good(row)
    BY <1>2, <2>1, <2>2, <2>3, SyncedRow, NoneIsNoRow DEF Good
  <2> QED
    BY <1>1, <1>2, <2>1, <2>4
<1>6. ASSUME NEW w \in Worker,
             \/ \E kind \in {"touch", "start", "finish", "finalize"},
                   r \in Session, t \in Turn \cup {None} : Begin(w, kind, r, t)
             \/ ReadHost(w) \/ EnsureFails(w) \/ StartTurn(w) \/ LookupTurn(w) \/ WriteFails(w)
      PROVE  FALSE
  BY <1>6 DEF Begin, ReadHost, EnsureFails, StartTurn, LookupTurn, WriteFails
<1>7. ASSUME \/ \E r \in Session : Charge(r) \/ \E m \in Model : SwitchModel(r, m)
             \/ \E q \in Process, m \in Mode : Restart(q, m)
             \/ UNCHANGED vars
      PROVE  FALSE
  BY <1>7 DEF Charge, SwitchModel, Restart, vars
<1> QED
  BY <1>3, <1>4, <1>5, <1>6, <1>7 DEF Next

\* No action but Begin, StartTurn and FinishTurn writes a window.
LEMMA WindowsStayOpen ==
  ASSUME LedgerInv, [Next]_vars, NEW t \in Turn, window[t] # None
  PROVE  window'[t] # None /\ window'[t].opened = window[t].opened
<1>0. DOMAIN window = Turn
  BY DEF LedgerInv, LedgerTypeOK
<1>1. ASSUME NEW w \in Worker, NEW kind, NEW s \in Session, NEW u \in Turn \cup {None},
             Begin(w, kind, s, u)
      PROVE  window'[t] # None /\ window'[t].opened = window[t].opened
  BY <1>0, <1>1 DEF Begin
<1>2. ASSUME NEW w \in Worker, StartTurn(w)
      PROVE  window'[t] # None /\ window'[t].opened = window[t].opened
  <2> DEFINE u == job[w].turn
             win == BegunWindow(w, u)
  <2>1. /\ u \in Turn
        /\ \/ window' = window
           \/ window' = [window EXCEPT ![u] = win]
        /\ win # None /\ win.opened = window[u].opened
    BY <1>2, StartTurnWrites
  <2> HIDE DEF win, u
  <2> QED
    BY <1>0, <2>1
<1>3. ASSUME NEW w \in Worker, FinishTurn(w)
      PROVE  window'[t] # None /\ window'[t].opened = window[t].opened
  <2> DEFINE u == job[w].turn
             win == AskedWindow(u, job[w].asked)
  <2>1. job[w].pc = "finishing"
    BY <1>3 DEF FinishTurn
  <2>2. u \in Turn /\ job[w].asked \in Charges /\ job[w].snap \in Reading
    BY <2>1, JobTyped DEF JobShaped, Operation
  <2>3. \/ window' = window
        \/ turns[u] # None /\ window' = [window EXCEPT ![u] = win]
    BY <1>3, FinishTurnWrites
  <2>4. turns[u] # None => win # None /\ win.opened = window[u].opened
    BY <2>2, FinishedTurn
  <2> HIDE DEF win, u
  <2> QED
    BY <1>0, <2>2, <2>3, <2>4
<1>4. ASSUME NEW w \in Worker,
             \/ ReadHost(w) \/ EnsureFails(w) \/ EnsureSession(w) \/ LookupTurn(w)
             \/ FinalizeSession(w) \/ WriteFails(w)
      PROVE  UNCHANGED window
  BY <1>4 DEF ReadHost, EnsureFails, EnsureSession, LookupTurn, FinalizeSession, WriteFails
<1>5. ASSUME \/ \E r \in Session : Charge(r) \/ \E m \in Model : SwitchModel(r, m)
             \/ \E q \in Process, m \in Mode : Restart(q, m)
             \/ UNCHANGED vars
      PROVE  UNCHANGED window
  BY <1>5 DEF Charge, SwitchModel, Restart, vars
<1> QED
  BY <1>1, <1>2, <1>3, <1>4, <1>5 DEF Next

LEMMA HostGrows ==
  ASSUME LedgerInv, [Next]_vars, NEW s \in Session
  PROVE  host[s].tokens <= host'[s].tokens
<1>0. host \in [Session -> [tokens : Charges, model : Model]] /\ host[s].tokens \in Int
  BY DEF LedgerInv, LedgerTypeOK, Charges
<1>1. ASSUME NEW r \in Session, Charge(r) \/ \E m \in Model : SwitchModel(r, m)
      PROVE  host[s].tokens <= host'[s].tokens
  BY <1>0, <1>1 DEF Charge, SwitchModel
<1>2. ASSUME NEW w \in Worker,
             \/ \E kind \in {"touch", "start", "finish", "finalize"},
                   r \in Session, t \in Turn \cup {None} : Begin(w, kind, r, t)
             \/ ReadHost(w) \/ EnsureFails(w) \/ EnsureSession(w) \/ StartTurn(w)
             \/ LookupTurn(w) \/ FinishTurn(w) \/ FinalizeSession(w) \/ WriteFails(w)
      PROVE  UNCHANGED host
  BY <1>2 DEF Begin, ReadHost, EnsureFails, EnsureSession, StartTurn, LookupTurn, FinishTurn,
              FinalizeSession, WriteFails
<1>3. ASSUME (\E q \in Process, m \in Mode : Restart(q, m)) \/ UNCHANGED vars
      PROVE  UNCHANGED host
  BY <1>3 DEF Restart, vars
<1> QED
  BY <1>0, <1>1, <1>2, <1>3 DEF Next

LEMMA TablesOnlyGrow ==
  ASSUME LedgerInv, [Next]_vars
  PROVE  TablesGrow
<1>1. ASSUME NEW s \in Session, sessions[s] # None
      PROVE  /\ sessions'[s] # None /\ sessions'[s].mode = sessions[s].mode
             /\ sessions[s].contaminated => sessions'[s].contaminated
  BY <1>1, SessionsAreSynced
<1> QED
  BY <1>1, HostGrows, WindowsStayOpen DEF TablesGrow

LEMMA OneRouteKept ==
  ASSUME LedgerInv, [Next]_vars
  PROVE  OneRoute'
<1>1. ASSUME NEW s \in Session, sessions'[s] # None, ~sessions'[s].contaminated
      PROVE  sessions'[s].initial # None /\ sessions'[s].last = sessions'[s].initial
  BY <1>1, SessionsAreSynced DEF LedgerInv, OneRoute
<1> QED
  BY <1>1 DEF OneRoute

----------------------------------------------------------------------------
(* The threads. *)

\* A thread that has looked at a turn's row is the only one to write it.
LEMMA FinisherAlone ==
  ASSUME LedgerInv, NEW w \in Worker, NEW v \in Worker \ {w}, job[v].pc = "finishing",
         job[w].turn \in Turn, job[w].pc \in {"writing", "finishing"},
         job[w].pc = "writing" => LockFree(w)
  PROVE  job[v].turn # job[w].turn
<1>1. job[w] # Idle /\ job[v] # Idle /\ JobShaped(w) /\ JobShaped(v)
  BY JobTyped
<1>2. job[v].turn # None /\ job[w].turn # None
  BY <1>1, JobTyped, NoneIsNothing DEF JobShaped
<1>3. job[v].turn = job[w].turn => ProcessOf[v] = ProcessOf[w]
  BY <1>1, <1>2 DEF JobShaped
<1>4. ProcessOf[v] # ProcessOf[w]
  BY DEF LockFree, LedgerInv, LedgerTypeOK
<1> QED
  BY <1>3, <1>4

\* A step of one thread leaves what the others know.
LEMMA OthersStay ==
  ASSUME LedgerInv, LedgerTypeOK', TablesGrow, UNCHANGED mode, NEW w \in Worker,
         \A v \in Worker \ {w} : job'[v] = job[v],
         \A v \in Worker \ {w} : job[v].pc = "finishing" =>
           turns'[job[v].turn] = turns[job[v].turn],
         job'[w] = Idle \/ (JobShaped(w)' /\ JobTimely(w)')
  PROVE  JobsSane'
<1>1. ASSUME NEW v \in Worker \ {w}, job'[v] # Idle
      PROVE  JobShaped(v)' /\ JobTimely(v)'
  <2>1. job[v] # Idle /\ JobShaped(v) /\ JobTimely(v)
    BY <1>1 DEF LedgerInv, JobsSane
  <2> QED
    BY <1>1, <2>1, JobStays DEF LedgerInv
<1> QED
  BY <1>1 DEF JobsSane

LEMMA EnsuringOn ==
  ASSUME LedgerInv, LedgerTypeOK', TablesGrow, NEW w \in Worker, NEW ok \in BOOLEAN,
         job[w].pc = "enrolling", AfterEnsure(w, ok), UNCHANGED <<mode, turns, window, host>>,
         ok => /\ sessions'[job[w].session] # None
               /\ \/ sessions'[job[w].session].contaminated
                  \/ sessions'[job[w].session].mode = mode[ProcessOf[w]]
  PROVE  JobsSane'
<1> DEFINE op == [job[w] EXCEPT !.pc = "measuring", !.snap = Unavailable,
                                !.ensured = ok /\ job[w].kind = "start"]
<1>1. job[w] # Idle /\ job[w] \in Operation /\ JobShaped(w) /\ JobTimely(w)
      /\ job[w].session \in Session
      /\ (job[w].kind \in {"start", "finish"} => job[w].turn \in Turn)
  BY JobTyped
<1>2. DOMAIN job = Worker
  BY DEF LedgerInv, LedgerTypeOK
<1>3. CASE job[w].kind = "touch"
  BY <1>2, <1>3, OthersStay DEF AfterEnsure, End
<1>4. CASE job[w].kind # "touch"
  <2>1. job' = [job EXCEPT ![w] = op]
    BY <1>2, <1>4 DEF AfterEnsure
  <2>2. /\ op.pc = "measuring" /\ op.snap = Unavailable /\ op.kind = job[w].kind
        /\ op.session = job[w].session /\ op.turn = job[w].turn /\ op.asked = job[w].asked
        /\ op.ensured = (ok /\ job[w].kind = "start")
    BY <1>1 DEF Operation
  <2> HIDE DEF op
  <2>3. job'[w] = op /\ \A v \in Worker \ {w} : job'[v] = job[v]
    BY <1>2, <2>1
  <2>4. op # Idle
    BY <2>2 DEF Idle
  <2>5. op \in Operation
    BY <2>3, <2>4 DEF LedgerTypeOK
  <2>6. JobShaped(w)'
    BY <1>1, <1>4, <2>2, <2>3, <2>5 DEF JobShaped
  <2>7. JobTimely(w)'
    BY <1>1, <2>2, <2>3 DEF JobTimely, RealReading, InMode
  <2> QED
    BY <2>3, <2>6, <2>7, OthersStay
<1> QED
  BY <1>3, <1>4

LEMMA JobsKept ==
  ASSUME LedgerInv, [Next]_vars
  PROVE  JobsSane'
<1>0. /\ LedgerTypeOK' /\ TablesGrow /\ DOMAIN job = Worker
      /\ host \in [Session -> [tokens : Charges, model : Model]]
  BY TypesKept, TablesOnlyGrow DEF LedgerInv, LedgerTypeOK
<1>1. ASSUME NEW w \in Worker, End(w), job[w].pc # "idle", UNCHANGED mode,
             UNCHANGED turns \/ FinishTurn(w) \/ StartTurn(w)
      PROVE  JobsSane'
  <2>1. job'[w] = Idle /\ \A v \in Worker \ {w} : job'[v] = job[v]
    BY <1>0, <1>1 DEF End
  <2>2. ASSUME NEW v \in Worker \ {w}, job[v].pc = "finishing",
               turns'[job[v].turn] # turns[job[v].turn]
        PROVE  FALSE
    <3>1. CASE FinishTurn(w)
      <4>1. job[w].pc = "finishing"
        BY <3>1 DEF FinishTurn
      <4>2. job[w].turn \in Turn
        BY <4>1, JobTyped DEF JobShaped
      <4>3. job[v].turn # job[w].turn
        BY <2>2, <4>1, <4>2, FinisherAlone
      <4>4. \/ UNCHANGED turns
            \/ \E completed \in BOOLEAN :
                 turns' = [turns EXCEPT ![job[w].turn] =
                             EndedRow(job[w].turn, completed, job[w].snap)]
        BY <3>1, FinishTurnWrites
      <4>5. job[v].turn \in Turn /\ DOMAIN turns = Turn
        BY <2>2, JobTyped DEF JobShaped, LedgerInv, LedgerTypeOK
      <4> QED
        BY <2>2, <4>3, <4>4, <4>5
    <3>2. CASE StartTurn(w)
      <4>1. job[w].pc = "writing" /\ LockFree(w)
        BY <3>2 DEF StartTurn
      <4>2. /\ job[w].turn \in Turn
            /\ UNCHANGED turns \/ turns' = [turns EXCEPT ![job[w].turn] = NewTurn(w)]
        BY <3>2, StartTurnWrites
      <4>3. job[v].turn # job[w].turn
        BY <2>2, <4>1, <4>2, FinisherAlone
      <4>4. job[v].turn \in Turn /\ DOMAIN turns = Turn
        BY <2>2, JobTyped DEF JobShaped, LedgerInv, LedgerTypeOK
      <4> QED
        BY <2>2, <4>2, <4>3, <4>4
    <3> QED
      BY <1>1, <2>2, <3>1, <3>2
  <2> QED
    BY <1>0, <1>1, <2>1, <2>2, OthersStay
<1>2. ASSUME NEW w \in Worker, NEW kind \in {"touch", "start", "finish", "finalize"},
             NEW s \in Session, NEW t \in Turn \cup {None}, Begin(w, kind, s, t)
      PROVE  JobsSane'
  <2> DEFINE op == [pc |-> "ensuring", kind |-> kind, session |-> s, turn |-> t,
                    snap |-> Unavailable, first |-> FALSE, ensured |-> FALSE,
                    asked |-> IF kind = "finish" THEN host[s].tokens ELSE 0]
  <2>1. job'[w] = op /\ \A v \in Worker \ {w} : job'[v] = job[v]
    BY <1>0, <1>2 DEF Begin
  <2>2. UNCHANGED <<host, mode, turns>>
    BY <1>2 DEF Begin
  <2>3. op # Idle
    BY DEF Idle
  <2>4. op \in Operation
    <3>1. job'[w] \in Operation \cup {Idle}
      BY <1>0 DEF LedgerTypeOK
    <3> HIDE DEF op
    <3> QED
      BY <2>1, <2>3, <3>1
  <2>5. /\ kind \in {"touch", "finalize"} <=> t = None
        /\ t # None => s = SessionOf[t] /\ TurnProcess[t] = ProcessOf[w]
    BY <1>2 DEF Begin
  <2>6. JobShaped(w)'
    BY <2>1, <2>4, <2>5 DEF JobShaped
  <2>7. ASSUME kind = "start"
        PROVE  window'[t] # None
    <3> DEFINE win == [opened |-> host[s].tokens, began |-> 0, asked |-> 0,
                       measured |-> FALSE, checked |-> FALSE]
    <3>1. t \in Turn /\ DOMAIN window = Turn
      BY <2>5, <2>7, NoneIsNothing DEF LedgerInv, LedgerTypeOK
    <3>2. win # None
      <4>1. host[s].tokens \in Charges /\ 0 \in Charges
        BY <1>0, BoundsAreNaturals DEF Charges
      <4>2. win \in Window
        BY <4>1 DEF Window
      <4> QED
        BY <4>2, NoneIsNoRow
    <3>3. \/ window[t] = None /\ window' = [window EXCEPT ![t] = win]
          \/ window[t] # None /\ UNCHANGED window
      BY <1>2, <2>7 DEF Begin
    <3> HIDE DEF win
    <3> QED
      BY <3>1, <3>2, <3>3
  <2>8. kind = "finish" => op.asked <= host[s].tokens
    BY <1>0 DEF Charges
  <2>9. JobTimely(w)'
    BY <2>1, <2>2, <2>7, <2>8 DEF JobTimely, RealReading
  <2> QED
    BY <1>0, <2>1, <2>2, <2>6, <2>9, OthersStay
<1>3. ASSUME NEW w \in Worker, ReadHost(w)
      PROVE  JobsSane'
  <2>1. PICK snap \in {host[job[w].session], Unavailable} :
          job' = [job EXCEPT ![w].snap = snap,
                             ![w].pc = IF @ = "ensuring" THEN "enrolling" ELSE "writing"]
    BY <1>3 DEF ReadHost
  <2>2. /\ job[w] # Idle /\ job[w] \in Operation /\ JobShaped(w) /\ JobTimely(w)
        /\ job[w].session \in Session /\ job[w].pc \in {"ensuring", "measuring"}
        /\ (job[w].kind \in {"start", "finish"} => job[w].turn \in Turn)
        /\ UNCHANGED <<host, mode, sessions, turns, window>>
    BY <1>3, JobTyped DEF ReadHost
  <2> DEFINE op == [job[w] EXCEPT !.snap = snap,
                                  !.pc = IF @ = "ensuring" THEN "enrolling" ELSE "writing"]
  <2>3. job'[w] = op /\ \A v \in Worker \ {w} : job'[v] = job[v]
    BY <1>0, <2>1
  <2>4. /\ op.pc = IF job[w].pc = "ensuring" THEN "enrolling" ELSE "writing"
        /\ op.snap = snap /\ op.kind = job[w].kind /\ op.first = job[w].first
        /\ op.session = job[w].session /\ op.turn = job[w].turn /\ op.asked = job[w].asked
        /\ op.ensured = job[w].ensured
    BY <2>2 DEF Operation
  <2> HIDE DEF op
  <2>5. op # Idle
    BY <2>4 DEF Idle
  <2>6. op \in Operation
    BY <1>0, <2>3, <2>5 DEF LedgerTypeOK
  <2>7. JobShaped(w)'
    BY <2>2, <2>3, <2>4, <2>6 DEF JobShaped
  <2>8. \/ snap = Unavailable
        \/ /\ snap = host[job[w].session] /\ snap.model \in Model
           /\ snap.tokens = host[job[w].session].tokens /\ snap.tokens \in Int
    BY <1>0, <2>2 DEF Charges
  <2>9. ASSUME job[w].kind = "start", snap # Unavailable
        PROVE  window[job[w].turn].opened <= snap.tokens
    <3>1. window[job[w].turn] # None /\ job[w].turn \in Turn /\ job[w].session = SessionOf[job[w].turn]
      BY <2>2, <2>9, NoneIsNothing DEF JobTimely, JobShaped
    <3> QED
      BY <2>8, <2>9, <3>1 DEF LedgerInv, WindowsPast
  <2>10. JobTimely(w)'
    BY <2>2, <2>3, <2>4, <2>8, <2>9 DEF JobTimely, RealReading, InMode
  <2> QED
    BY <1>0, <2>2, <2>3, <2>7, <2>10, OthersStay
<1>4. ASSUME NEW w \in Worker, EnsureSession(w)
      PROVE  JobsSane'
  <2> DEFINE s == job[w].session
             m == mode[ProcessOf[w]]
             row == Ensured(s, m, job[w].snap)
  <2>1. /\ job[w].pc = "enrolling" /\ AfterEnsure(w, TRUE) /\ UNCHANGED <<mode, turns, window, host>>
        /\ sessions' = [sessions EXCEPT ![s] = row]
    BY <1>4 DEF EnsureSession
  <2>2. /\ s \in Session /\ m \in Mode /\ job[w].snap \in Reading
        /\ job[w].snap = Unavailable \/ job[w].snap.model \in Model
    BY <2>1, JobTyped, ReadingOf, WorkersHaveProcesses DEF LedgerInv, LedgerTypeOK
  <2>3. row \in SessionRow /\ (row.contaminated \/ row.mode = m)
    BY <2>2, EnsuredRow
  <2> HIDE DEF row
  <2>4. sessions'[s] = row /\ row # None /\ m' = m
    BY <2>1, <2>2, <2>3, NoneIsNoRow DEF LedgerInv, LedgerTypeOK
  <2> QED
    BY <1>0, <2>1, <2>3, <2>4, EnsuringOn
<1>5. ASSUME NEW w \in Worker, EnsureFails(w)
      PROVE  JobsSane'
  <2>1. /\ job[w].pc = "enrolling" /\ AfterEnsure(w, FALSE)
        /\ UNCHANGED <<mode, turns, window, host>>
    BY <1>5 DEF EnsureFails
  <2> QED
    BY <1>0, <2>1, EnsuringOn
<1>6. ASSUME NEW w \in Worker, LookupTurn(w)
      PROVE  JobsSane'
  <2> DEFINE first == turns[job[w].turn] # None /\ ~turns[job[w].turn].ended
             op == [job[w] EXCEPT !.pc = "finishing", !.first = first]
  <2>1. /\ job[w] # Idle /\ job[w] \in Operation /\ JobShaped(w) /\ JobTimely(w)
        /\ job[w].pc = "writing" /\ job[w].kind = "finish"
        /\ UNCHANGED <<host, mode, sessions, turns, window>>
    BY <1>6, JobTyped DEF LookupTurn
  <2>2. job'[w] = op /\ \A v \in Worker \ {w} : job'[v] = job[v]
    BY <1>0, <1>6 DEF LookupTurn
  <2>3. first \in BOOLEAN
    OBVIOUS
  <2> HIDE DEF first
  <2>4. /\ op.pc = "finishing" /\ op.first = first
        /\ op.snap = job[w].snap /\ op.kind = job[w].kind
        /\ op.session = job[w].session /\ op.turn = job[w].turn /\ op.asked = job[w].asked
        /\ op.ensured = job[w].ensured
    BY <2>1 DEF Operation
  <2> HIDE DEF op
  <2>5. op # Idle
    BY <2>4 DEF Idle
  <2>6. op \in Operation
    BY <1>0, <2>2, <2>5 DEF LedgerTypeOK
  <2>7. JobShaped(w)'
    BY <2>1, <2>2, <2>4, <2>6 DEF JobShaped
  <2>8. JobTimely(w)'
    BY <2>1, <2>2, <2>4 DEF JobTimely, RealReading, InMode, first
  <2> QED
    BY <1>0, <2>1, <2>2, <2>7, <2>8, OthersStay
<1>7. ASSUME NEW w \in Worker,
             StartTurn(w) \/ FinishTurn(w) \/ FinalizeSession(w) \/ WriteFails(w)
      PROVE  JobsSane'
  BY <1>1, <1>7, Zenon DEF StartTurn, FinishTurn, FinalizeSession, WriteFails
<1>8. ASSUME NEW p \in Process, NEW m \in Mode, Restart(p, m)
      PROVE  JobsSane'
  <2>1. /\ mode' = [mode EXCEPT ![p] = m] /\ UNCHANGED <<host, sessions, turns, window>>
        /\ job' = [w \in Worker |-> IF ProcessOf[w] = p THEN Idle ELSE job[w]]
    BY <1>8 DEF Restart
  <2>2. ASSUME NEW w \in Worker, job'[w] # Idle
        PROVE  JobShaped(w)' /\ JobTimely(w)'
    <3>1. /\ job'[w] = job[w] /\ job[w] # Idle /\ JobShaped(w) /\ JobTimely(w)
          /\ mode'[ProcessOf[w]] = mode[ProcessOf[w]]
      BY <2>1, <2>2, WorkersHaveProcesses DEF LedgerInv, LedgerTypeOK, JobsSane
    <3> QED
      BY <1>0, <2>1, <3>1, JobStays DEF LedgerInv
  <2> QED
    BY <2>2 DEF JobsSane
<1>9. ASSUME \/ \E s \in Session : Charge(s) \/ \E m \in Model : SwitchModel(s, m)
             \/ UNCHANGED vars
      PROVE  JobsSane'
  <2>1. UNCHANGED <<job, mode, turns>>
    BY <1>9 DEF Charge, SwitchModel, vars
  <2>2. ASSUME NEW w \in Worker, job'[w] # Idle
        PROVE  JobShaped(w)' /\ JobTimely(w)'
    BY <1>0, <2>1, <2>2, JobStays DEF LedgerInv, JobsSane
  <2> QED
    BY <2>2 DEF JobsSane
<1> QED
  BY <1>2, <1>3, <1>4, <1>5, <1>6, <1>7, <1>8, <1>9 DEF Next

----------------------------------------------------------------------------
(* The turns. *)

LEMMA WindowsPastKept ==
  ASSUME LedgerInv, [Next]_vars
  PROVE  WindowsPast'
<1>1. ASSUME NEW t \in Turn, window'[t] # None, window[t] # None
      PROVE  window'[t].opened <= host'[SessionOf[t]].tokens
  <2>1. SessionOf[t] \in Session /\ window[t] \in Window
    BY <1>1, TurnsHaveHomes DEF LedgerInv, LedgerTypeOK
  <2>2. /\ window[t].opened \in Int /\ host[SessionOf[t]].tokens \in Int
        /\ host'[SessionOf[t]].tokens \in Int
    BY <2>1, TypesKept DEF LedgerInv, LedgerTypeOK, Window, Charges
  <2>3. /\ window[t].opened <= host[SessionOf[t]].tokens
        /\ host[SessionOf[t]].tokens <= host'[SessionOf[t]].tokens
        /\ window'[t].opened = window[t].opened
    BY <1>1, <2>1, HostGrows, WindowsStayOpen DEF LedgerInv, WindowsPast
  <2> QED
    BY <2>2, <2>3
<1>2. ASSUME NEW t \in Turn, window'[t] # None, window[t] = None
      PROVE  window'[t].opened <= host'[SessionOf[t]].tokens
  <2>0. DOMAIN window = Turn
    BY DEF LedgerInv, LedgerTypeOK
  <2>1. ASSUME NEW w \in Worker, NEW kind, NEW s \in Session, NEW u \in Turn \cup {None},
               Begin(w, kind, s, u)
        PROVE  window'[t].opened <= host'[SessionOf[t]].tokens
    <3> DEFINE win == [opened |-> host[s].tokens, began |-> 0, asked |-> 0,
                       measured |-> FALSE, checked |-> FALSE]
    <3>1. u = t /\ window' = [window EXCEPT ![u] = win] /\ s = SessionOf[t] /\ UNCHANGED host
      BY <1>2, <2>0, <2>1, NoneIsNothing DEF Begin
    <3>2. window'[t] = win
      BY <2>0, <3>1
    <3>3. host[s].tokens \in Int
      BY DEF LedgerInv, LedgerTypeOK, Charges
    <3> QED
      BY <3>1, <3>2, <3>3
  <2>2. ASSUME NEW w \in Worker, StartTurn(w)
        PROVE  FALSE
    <3> DEFINE u == job[w].turn
               win == BegunWindow(w, u)
    <3>1. u \in Turn /\ window[u] # None /\ (UNCHANGED window \/ window' = [window EXCEPT ![u] = win])
      BY <2>2, StartTurnWrites
    <3> HIDE DEF u, win
    <3> QED
      BY <1>2, <2>0, <3>1
  <2>3. ASSUME NEW w \in Worker, FinishTurn(w)
        PROVE  FALSE
    <3> DEFINE u == job[w].turn
               win == AskedWindow(u, job[w].asked)
    <3>1. /\ u \in Turn
          /\ \/ UNCHANGED window
             \/ turns[u] # None /\ window' = [window EXCEPT ![u] = win]
      <4>1. job[w].pc = "finishing"
        BY <2>3 DEF FinishTurn
      <4>2. u \in Turn
        BY <4>1, JobTyped DEF JobShaped
      <4> QED
        BY <2>3, <4>2, FinishTurnWrites
    <3>2. turns[u] # None => window[u] # None
      BY <3>1 DEF LedgerInv, TurnsReal, TurnReal
    <3> HIDE DEF u, win
    <3> QED
      BY <1>2, <2>0, <3>1, <3>2
  <2>4. ASSUME NEW w \in Worker,
               \/ ReadHost(w) \/ EnsureFails(w) \/ EnsureSession(w) \/ LookupTurn(w)
               \/ FinalizeSession(w) \/ WriteFails(w)
        PROVE  FALSE
    BY <1>2, <2>4 DEF ReadHost, EnsureFails, EnsureSession, LookupTurn, FinalizeSession, WriteFails
  <2>5. ASSUME \/ \E r \in Session : Charge(r) \/ \E m \in Model : SwitchModel(r, m)
               \/ \E q \in Process, m \in Mode : Restart(q, m)
               \/ UNCHANGED vars
        PROVE  FALSE
    BY <1>2, <2>5 DEF Charge, SwitchModel, Restart, vars
  <2> QED
    BY <2>1, <2>2, <2>3, <2>4, <2>5 DEF Next
<1> QED
  BY <1>1, <1>2 DEF WindowsPast

LEMMA StartedTurnReal ==
  ASSUME LedgerInv, LedgerTypeOK', NEW w \in Worker, StartTurn(w), NEW t \in Turn,
         t = job[w].turn, turns[t] = None, turns'[t] # None
  PROVE  TurnReal(t)'
<1> DEFINE s == SessionOf[t]
           win == BegunWindow(w, t)
           row == NewTurn(w)
<1>1. /\ window' = [window EXCEPT ![t] = win] /\ turns' = [turns EXCEPT ![t] = row]
      /\ row \in TurnRow /\ row.mode = mode[ProcessOf[w]] /\ ~row.ended
      /\ row.baseline = job[w].snap.tokens
      /\ win \in Window /\ win.opened = window[t].opened /\ win.began = host[s].tokens
      /\ win.measured = (job[w].snap # Unavailable) /\ win.checked = job[w].ensured
      /\ win # None /\ window[t] # None /\ job[w].session = s
  BY StartTurnWrites
<1>2. /\ job[w].pc = "writing" /\ job[w].kind = "start" /\ UNCHANGED <<host, sessions, mode>>
  BY Zenon DEF StartTurn
<1>3. job[w] # Idle /\ JobTimely(w) /\ s \in Session
  BY <1>2, JobTyped, TurnsHaveHomes
<1> HIDE DEF row, win
<1>4. window'[t] = win /\ turns'[t] = row
  BY <1>1 DEF LedgerInv, LedgerTypeOK
<1>5. window[t].opened <= host[s].tokens /\ host[s].tokens \in Int
  BY <1>1, <1>3 DEF LedgerInv, WindowsPast, LedgerTypeOK, Charges
<1>6. job[w].snap # Unavailable =>
        window[t].opened <= job[w].snap.tokens /\ job[w].snap.tokens <= host[s].tokens
  BY <1>1, <1>2, <1>3 DEF JobTimely, RealReading
<1>7. job[w].ensured => sessions[s].contaminated \/ sessions[s].mode = mode[ProcessOf[w]]
  BY <1>1, <1>3 DEF JobTimely, InMode
<1>8. /\ window'[t] # None /\ ~turns'[t].ended
      /\ window'[t].opened <= window'[t].began /\ window'[t].began <= host'[s].tokens
  BY <1>1, <1>2, <1>4, <1>5
<1>9. window'[t].measured =>
        window'[t].opened <= turns'[t].baseline /\ turns'[t].baseline <= window'[t].began
  BY <1>1, <1>4, <1>6
<1>10. window'[t].checked => sessions'[s].contaminated \/ turns'[t].mode = sessions'[s].mode
  <2>1. win.checked => sessions[s].contaminated \/ row.mode = sessions[s].mode
    BY <1>1, <1>7, Zenon
  <2> QED
    BY <1>2, <1>4, <2>1
<1> QED
  BY <1>8, <1>9, <1>10 DEF TurnReal

LEMMA FinishedTurnReal ==
  ASSUME LedgerInv, NEW w \in Worker, FinishTurn(w), NEW t \in Turn,
         t = job[w].turn, turns[t] # None
  PROVE  TurnReal(t)'
<1> DEFINE s == SessionOf[t]
           snap == job[w].snap
           asked == job[w].asked
           win == AskedWindow(t, asked)
           total == Synced(CountTurn(sessions[s], job[w].first), snap)
<1>1. job[w].pc = "finishing" /\ UNCHANGED <<host, mode>>
  BY Zenon DEF FinishTurn
<1>2. /\ job[w] # Idle /\ JobTimely(w) /\ JobShaped(w) /\ job[w].kind = "finish"
      /\ asked \in Charges /\ job[w].first \in BOOLEAN /\ snap \in Reading
      /\ snap = Unavailable \/ snap.model \in Model
  BY <1>1, JobTyped, ReadingOf DEF JobShaped, Operation
<1>3. s \in Session /\ job[w].session = s /\ sessions[s] # None
  BY <1>2, NoneIsNothing, TurnsHaveHomes DEF JobShaped, LedgerInv, LedgerTypeOK
<1>4. PICK completed \in BOOLEAN : turns' = [turns EXCEPT ![t] = EndedRow(t, completed, snap)]
  BY FinishTurnWrites
<1> DEFINE row == EndedRow(t, completed, snap)
<1>5. window' = [window EXCEPT ![t] = win] /\ sessions' = [sessions EXCEPT ![s] = total]
  BY <1>3, FinishTurnWrites
<1>6. /\ row \in TurnRow /\ row.ended /\ row.tokens = TurnTokens(t, snap)
      /\ row.baseline = turns[t].baseline /\ row.mode = turns[t].mode
      /\ win \in Window /\ win.asked = asked /\ win.opened = window[t].opened
      /\ win.began = window[t].began /\ win.measured = window[t].measured
      /\ win.checked = window[t].checked
      /\ row # None /\ win # None
  BY <1>2, FinishedTurn
<1>7. /\ total.mode = sessions[s].mode
      /\ sessions[s].contaminated \/ snap = Unavailable => total.contaminated
  BY <1>2, <1>3, FinishedRow
<1>8. /\ TurnReal(t) /\ turns[t] \in TurnRow /\ window[t] \in Window
      /\ host[s].tokens \in Charges
  BY <1>3 DEF LedgerInv, TurnsReal, TurnReal, LedgerTypeOK
<1>9. snap.tokens \in Charges /\ turns[t].baseline \in Charges
  BY <1>2, <1>8 DEF Reading, TurnRow
<1> HIDE DEF win, row, total, snap, asked
<1>10. turns'[t] = row /\ window'[t] = win /\ sessions'[s] = total
  BY <1>3, <1>4, <1>5 DEF LedgerInv, LedgerTypeOK, row
<1>11. /\ window[t].opened <= window[t].began /\ window[t].began <= host[s].tokens
       /\ window[t].measured =>
            window[t].opened <= turns[t].baseline /\ turns[t].baseline <= window[t].began
       /\ window[t].checked => sessions[s].contaminated \/ turns[t].mode = sessions[s].mode
  BY <1>8 DEF TurnReal
<1>12. ASSUME snap # Unavailable, window[t].measured
       PROVE  /\ row.tokens >= asked - window[t].began
              /\ row.tokens <= host[s].tokens - window[t].opened
  <2>1. asked <= snap.tokens /\ snap.tokens <= host[s].tokens
    BY <1>1, <1>2, <1>3, <1>12 DEF JobTimely, RealReading, snap, asked
  <2>2. /\ row.tokens >= snap.tokens - turns[t].baseline
        /\ row.tokens <= snap.tokens - turns[t].baseline \/ row.tokens = 0
        /\ row.tokens \in Charges
    <3>1. row.tokens = Delta(snap.tokens, turns[t].baseline)
      BY <1>6 DEF TurnTokens
    <3> QED
      BY <1>9, <3>1, DeltaCharges
  <2>3. /\ asked \in Int /\ snap.tokens \in Int /\ turns[t].baseline \in Int
        /\ host[s].tokens \in Int /\ window[t].opened \in Int /\ window[t].began \in Int
        /\ row.tokens \in Int
    BY <1>2, <1>8, <1>9, <2>2 DEF Charges, Window
  <2>4. window[t].opened <= turns[t].baseline /\ turns[t].baseline <= window[t].began
    BY <1>11, <1>12
  <2> HIDE DEF s
  <2> QED
    BY <1>11, <2>1, <2>2, <2>3, <2>4
<1>13. window[t].measured =>
         \/ total.contaminated
         \/ /\ row.tokens >= asked - window[t].began
            /\ row.tokens <= host[s].tokens - window[t].opened
  BY <1>7, <1>12
<1> QED
  BY <1>1, <1>6, <1>7, <1>10, <1>11, <1>13 DEF TurnReal

LEMMA TurnsKept ==
  ASSUME LedgerInv, [Next]_vars
  PROVE  TurnsReal'
<1>0. LedgerTypeOK' /\ TablesGrow
  BY TypesKept, TablesOnlyGrow
<1>1. ASSUME NEW t \in Turn, turns'[t] # None, turns'[t] = turns[t], window'[t] = window[t]
      PROVE  TurnReal(t)'
  BY <1>0, <1>1, TurnStays DEF LedgerInv, TurnsReal
<1>2. ASSUME NEW t \in Turn, turns'[t] # None, NEW w \in Worker, StartTurn(w)
      PROVE  TurnReal(t)'
  <2> DEFINE u == job[w].turn
  <2>1. /\ u \in Turn
        /\ turns[u] # None => UNCHANGED <<turns, window>>
        /\ UNCHANGED window \/ window' = [window EXCEPT ![u] = BegunWindow(w, u)]
        /\ UNCHANGED turns \/ turns' = [turns EXCEPT ![u] = NewTurn(w)]
    BY <1>2, StartTurnWrites
  <2> HIDE DEF u
  <2>2. t # u => turns'[t] = turns[t] /\ window'[t] = window[t]
    BY <2>1 DEF LedgerInv, LedgerTypeOK
  <2>3. CASE t = u /\ turns[t] = None
    BY <1>0, <1>2, <2>3, StartedTurnReal DEF u
  <2> QED
    BY <1>1, <1>2, <2>1, <2>2, <2>3
<1>3. ASSUME NEW t \in Turn, turns'[t] # None, NEW w \in Worker, FinishTurn(w)
      PROVE  TurnReal(t)'
  <2> DEFINE u == job[w].turn
             snap == job[w].snap
  <2>1. /\ UNCHANGED window \/ window' = [window EXCEPT ![u] = AskedWindow(u, job[w].asked)]
        /\ \/ UNCHANGED turns
           \/ \E completed \in BOOLEAN :
                turns' = [turns EXCEPT ![u] = EndedRow(u, completed, snap)]
        /\ turns[u] = None => UNCHANGED <<turns, window>>
    BY <1>3, FinishTurnWrites
  <2> HIDE DEF u
  <2>2. t # u => turns'[t] = turns[t] /\ window'[t] = window[t]
    BY <2>1 DEF LedgerInv, LedgerTypeOK
  <2>3. CASE t = u /\ turns[t] # None
    BY <1>3, <2>3, FinishedTurnReal DEF u
  <2> QED
    BY <1>1, <1>3, <2>1, <2>2, <2>3
<1>4. ASSUME NEW t \in Turn, turns'[t] # None, NEW w \in Worker, NEW kind,
             NEW s \in Session, NEW u \in Turn \cup {None}, Begin(w, kind, s, u)
      PROVE  TurnReal(t)'
  <2>1. turns' = turns
    BY <1>4 DEF Begin
  <2>2. window[t] # None
    BY <1>4, <2>1 DEF LedgerInv, TurnsReal, TurnReal
  <2>3. window'[t] = window[t]
    BY <1>4, <2>2 DEF Begin, LedgerInv, LedgerTypeOK
  <2> QED
    BY <1>1, <1>4, <2>1, <2>3
<1>5. ASSUME NEW w \in Worker,
             \/ ReadHost(w) \/ EnsureFails(w) \/ EnsureSession(w) \/ LookupTurn(w)
             \/ FinalizeSession(w) \/ WriteFails(w)
      PROVE  UNCHANGED <<turns, window>>
  BY <1>5 DEF ReadHost, EnsureFails, EnsureSession, LookupTurn, FinalizeSession, WriteFails
<1>6. ASSUME \/ \E r \in Session : Charge(r) \/ \E m \in Model : SwitchModel(r, m)
             \/ \E q \in Process, m \in Mode : Restart(q, m)
             \/ UNCHANGED vars
      PROVE  UNCHANGED <<turns, window>>
  BY <1>6 DEF Charge, SwitchModel, Restart, vars
<1> QED
  BY <1>1, <1>2, <1>3, <1>4, <1>5, <1>6 DEF Next, TurnsReal

----------------------------------------------------------------------------
(* The counts. *)

LEMMA FinishCounts ==
  ASSUME LedgerInv, NEW w \in Worker, FinishTurn(w), NEW s \in Session, sessions'[s] # None
  PROVE  IsFiniteSet(Ended(s))' /\ sessions'[s].turns = Cardinality(Ended(s)')
<1> DEFINE t == job[w].turn
           snap == job[w].snap
           total == Synced(CountTurn(sessions[job[w].session], job[w].first), snap)
<1>1. job[w].pc = "finishing"
  BY Zenon DEF FinishTurn
<1>2. /\ job[w] # Idle /\ JobTimely(w) /\ JobShaped(w) /\ t \in Turn
      /\ job[w].asked \in Charges /\ job[w].first \in BOOLEAN /\ snap \in Reading
      /\ snap = Unavailable \/ snap.model \in Model
  BY <1>1, JobTyped, ReadingOf DEF JobShaped, Operation
<1>3. job[w].session = SessionOf[t] /\ SessionOf[t] \in Session
  BY <1>2, NoneIsNothing, TurnsHaveHomes DEF JobShaped
<1>4. \/ turns[t] = None /\ UNCHANGED turns
      \/ /\ turns[t] # None
         /\ \E completed \in BOOLEAN : turns' = [turns EXCEPT ![t] = EndedRow(t, completed, snap)]
  BY FinishTurnWrites
<1>5. \/ sessions[SessionOf[t]] = None /\ UNCHANGED sessions
      \/ /\ sessions[SessionOf[t]] # None
         /\ sessions' = [sessions EXCEPT ![SessionOf[t]] = total]
  BY <1>3, FinishTurnWrites
<1>6. job[w].first <=> turns[t] # None /\ ~turns[t].ended
  BY <1>1, <1>2 DEF JobTimely
<1>7. turns[t] # None => sessions[SessionOf[t]] # None
  BY <1>2 DEF LedgerInv, LedgerTypeOK
<1>8. sessions[SessionOf[t]] # None =>
        total.turns = sessions[SessionOf[t]].turns + IF job[w].first THEN 1 ELSE 0
  BY <1>2, <1>3, FinishedRow
<1> HIDE DEF t, total, snap
<1>9. sessions[s] # None /\ IsFiniteSet(Ended(s)) /\ sessions[s].turns = Cardinality(Ended(s))
  BY <1>3, <1>5 DEF LedgerInv, EndsCounted, LedgerTypeOK
<1>10. Cardinality(Ended(s)) \in Nat
  BY <1>9, FS_CardinalityType
<1>11. DOMAIN turns = Turn /\ DOMAIN sessions = Session
  BY DEF LedgerInv, LedgerTypeOK
<1>12. CASE s = SessionOf[t] /\ job[w].first
  <2>1. PICK completed \in BOOLEAN : turns' = [turns EXCEPT ![t] = EndedRow(t, completed, snap)]
    BY <1>4, <1>6, <1>12
  <2>2. EndedRow(t, completed, snap) # None /\ EndedRow(t, completed, snap).ended
    BY <1>2, <1>6, <1>12, FinishedTurn
  <2>3. t \notin Ended(s)
    BY <1>6, <1>12 DEF Ended
  <2>4. Ended(s)' = Ended(s) \cup {t}
    BY <1>2, <1>11, <1>12, <2>1, <2>2 DEF Ended
  <2>5. sessions'[s].turns = sessions[s].turns + 1
    BY <1>5, <1>7, <1>8, <1>9, <1>11, <1>12
  <2> QED
    BY <1>9, <1>10, <2>3, <2>4, <2>5, FS_AddElement
<1>13. CASE s = SessionOf[t] /\ ~job[w].first
  <2>1. Ended(s)' = Ended(s)
    <3>1. CASE turns[t] = None
      BY <1>4, <3>1 DEF Ended
    <3>2. CASE turns[t] # None
      <4>1. PICK completed \in BOOLEAN : turns' = [turns EXCEPT ![t] = EndedRow(t, completed, snap)]
        BY <1>4, <3>2
      <4>2. EndedRow(t, completed, snap) # None /\ EndedRow(t, completed, snap).ended
        BY <1>2, <3>2, FinishedTurn
      <4>3. turns[t].ended
        BY <1>6, <1>13, <3>2
      <4> QED
        BY <1>2, <1>11, <3>2, <4>1, <4>2, <4>3 DEF Ended
    <3> QED
      BY <3>1, <3>2
  <2>2. sessions[s].turns \in Nat
    BY <1>9, <1>10
  <2>3. sessions'[s].turns = sessions[s].turns
    BY <1>5, <1>8, <1>9, <1>11, <1>13, <2>2
  <2> QED
    BY <1>9, <2>1, <2>3
<1>14. CASE s # SessionOf[t]
  <2>1. sessions'[s] = sessions[s]
    BY <1>3, <1>5, <1>11, <1>14
  <2>2. \A u \in Turn : SessionOf[u] = s => turns'[u] = turns[u]
    BY <1>4, <1>11, <1>14
  <2>3. Ended(s)' = Ended(s)
    BY <2>2 DEF Ended
  <2> QED
    BY <1>9, <2>1, <2>3
<1> QED
  BY <1>12, <1>13, <1>14

LEMMA CountsKept ==
  ASSUME LedgerInv, [Next]_vars
  PROVE  EndsCounted'
<1> DEFINE Same(s) == /\ Ended(s)' = Ended(s)
                      /\ sessions[s] # None => sessions'[s].turns = sessions[s].turns
                      /\ sessions[s] = None => sessions'[s].turns = 0
           Counted(s) == IsFiniteSet(Ended(s))' /\ sessions'[s].turns = Cardinality(Ended(s)')
<1>1. ASSUME NEW s \in Session, sessions'[s] # None, Same(s)
      PROVE  Counted(s)
  <2>1. CASE sessions[s] # None
    BY <1>1, <2>1 DEF LedgerInv, EndsCounted
  <2>2. CASE sessions[s] = None
    <3>1. Ended(s) = {}
      BY <2>2 DEF Ended, LedgerInv, LedgerTypeOK
    <3> QED
      BY <1>1, <2>2, <3>1, FS_EmptySet
  <2> QED
    BY <2>1, <2>2
<1>2. ASSUME NEW s \in Session, sessions'[s] # None, UNCHANGED <<turns, sessions>>
      PROVE  Counted(s)
  BY <1>1, <1>2 DEF Ended
<1>3. ASSUME NEW s \in Session, sessions'[s] # None, NEW w \in Worker, EnsureSession(w)
      PROVE  Counted(s)
  <2> DEFINE r == job[w].session
             m == mode[ProcessOf[w]]
             row == Ensured(r, m, job[w].snap)
  <2>1. /\ job[w].pc = "enrolling" /\ UNCHANGED turns
        /\ sessions' = [sessions EXCEPT ![r] = row]
    BY <1>3 DEF EnsureSession
  <2>2. /\ r \in Session /\ m \in Mode /\ job[w].snap \in Reading
        /\ job[w].snap = Unavailable \/ job[w].snap.model \in Model
    BY <2>1, JobTyped, ReadingOf, WorkersHaveProcesses DEF LedgerInv, LedgerTypeOK
  <2>3. /\ sessions[r] # None => row.turns = sessions[r].turns
        /\ sessions[r] = None => row.turns = 0
    BY <2>2, EnsuredRow
  <2> HIDE DEF row, r
  <2>4. Ended(s)' = Ended(s)
    BY <2>1 DEF Ended
  <2>5. sessions'[s] = IF s = r THEN row ELSE sessions[s]
    BY <2>1 DEF LedgerInv, LedgerTypeOK
  <2> QED
    BY <1>1, <1>3, <2>3, <2>4, <2>5
<1>4. ASSUME NEW s \in Session, sessions'[s] # None, NEW w \in Worker, FinalizeSession(w)
      PROVE  Counted(s)
  <2> DEFINE r == job[w].session
             row == Synced(sessions[r], job[w].snap)
  <2>1. /\ job[w].pc = "writing" /\ UNCHANGED turns
        /\ \/ UNCHANGED sessions
           \/ sessions[r] # None /\ sessions' = [sessions EXCEPT ![r] = row]
    BY <1>4 DEF FinalizeSession
  <2>2. /\ r \in Session /\ job[w].snap \in Reading
        /\ job[w].snap = Unavailable \/ job[w].snap.model \in Model
    BY <2>1, JobTyped, ReadingOf
  <2>3. sessions[r] # None => row.turns = sessions[r].turns
    BY <2>2, SyncedRow DEF LedgerInv, LedgerTypeOK
  <2> HIDE DEF row, r
  <2>4. Ended(s)' = Ended(s)
    BY <2>1 DEF Ended
  <2>5. \/ sessions'[s] = sessions[s]
        \/ sessions[s] # None /\ s = r /\ sessions'[s] = row
    BY <2>1 DEF LedgerInv, LedgerTypeOK
  <2> QED
    BY <1>1, <1>4, <2>3, <2>4, <2>5
<1>5. ASSUME NEW s \in Session, sessions'[s] # None, NEW w \in Worker, StartTurn(w)
      PROVE  Counted(s)
  <2> DEFINE t == job[w].turn
             row == NewTurn(w)
  <2>1. /\ t \in Turn /\ row # None /\ ~row.ended
        /\ \/ UNCHANGED turns
           \/ turns[t] = None /\ turns' = [turns EXCEPT ![t] = row]
    BY <1>5, StartTurnWrites
  <2>2. UNCHANGED sessions
    BY <1>5 DEF StartTurn
  <2> HIDE DEF row, t
  <2>3. Ended(s)' = Ended(s)
    BY <2>1 DEF Ended, LedgerInv, LedgerTypeOK
  <2> QED
    BY <1>1, <1>5, <2>2, <2>3
<1>6. ASSUME NEW s \in Session, sessions'[s] # None, NEW w \in Worker, FinishTurn(w)
      PROVE  Counted(s)
  BY <1>6, FinishCounts
<1>7. ASSUME NEW w \in Worker,
             \/ \E kind \in {"touch", "start", "finish", "finalize"},
                   r \in Session, t \in Turn \cup {None} : Begin(w, kind, r, t)
             \/ ReadHost(w) \/ EnsureFails(w) \/ LookupTurn(w) \/ WriteFails(w)
      PROVE  UNCHANGED <<turns, sessions>>
  BY <1>7 DEF Begin, ReadHost, EnsureFails, LookupTurn, WriteFails
<1>8. ASSUME \/ \E r \in Session : Charge(r) \/ \E m \in Model : SwitchModel(r, m)
             \/ \E q \in Process, m \in Mode : Restart(q, m)
             \/ UNCHANGED vars
      PROVE  UNCHANGED <<turns, sessions>>
  BY <1>8 DEF Charge, SwitchModel, Restart, vars
<1>9. ASSUME NEW s \in Session, sessions'[s] # None
      PROVE  Counted(s)
  BY <1>2, <1>3, <1>4, <1>5, <1>6, <1>7, <1>8, <1>9 DEF Next
<1> QED
  BY <1>9 DEF EndsCounted

----------------------------------------------------------------------------
\* The inductive invariant of the ledger (ledger.py, start_turn, finish_turn,
\* finalize_session), for any sessions, turns, threads and processes.
THEOREM LedgerInvariant == Spec => []LedgerInv
<1>1. Init => LedgerInv
  <2> SUFFICES ASSUME Init PROVE LedgerInv
    OBVIOUS
  <2>1. LedgerTypeOK
    <3>1. PICK m \in Model : host = [s \in Session |-> [tokens |-> Resumed, model |-> m]]
      BY DEF Init
    <3>2. Resumed \in Charges
      BY BoundsAreNaturals DEF Charges
    <3>3. host \in [Session -> [tokens : Charges, model : Model]]
      BY <3>1, <3>2
    <3> QED
      BY <3>3, BoundsAreNaturals DEF Init, LedgerTypeOK, Idle
  <2>2. JobsSane /\ WindowsPast /\ TurnsReal /\ EndsCounted /\ OneRoute
    BY DEF Init, JobsSane, WindowsPast, TurnsReal, EndsCounted, OneRoute
  <2> QED
    BY <2>1, <2>2 DEF LedgerInv
<1>2. LedgerInv /\ [Next]_vars => LedgerInv'
  BY TypesKept, JobsKept, WindowsPastKept, TurnsKept, CountsKept, OneRouteKept DEF LedgerInv
<1> QED
  BY <1>1, <1>2, PTL DEF Spec

\* A session counts every turn that has ended, once.
THEOREM LedgerCountsOnce == Spec => []TurnsCountedOnce
<1>1. LedgerInv => TurnsCountedOnce
  BY DEF LedgerInv, EndsCounted, TurnsCountedOnce, Ended
<1> QED
  BY <1>1, LedgerInvariant, PTL

\* A measured turn that may be compared is charged what Hermes charged meanwhile.
THEOREM LedgerMeasuresTurns == Spec => []MeasuredTurnsAreReal
<1>1. LedgerInv => MeasuredTurnsAreReal
  BY DEF LedgerInv, TurnsReal, TurnReal, MeasuredTurnsAreReal, Eligible
<1> QED
  BY <1>1, LedgerInvariant, PTL

\* What a comparison takes is of one mode and one model.
THEOREM LedgerComparesFairly == Spec => []ComparisonIsFair
<1>1. LedgerInv => ComparisonIsFair
  BY DEF LedgerInv, TurnsReal, TurnReal, ComparisonIsFair, EligibleTurnsKeepMode, Eligible
<1> QED
  BY <1>1, LedgerInvariant, PTL

----------------------------------------------------------------------------
(* The inductive invariant of the request metrics. *)

Backend == {"huggingface", "tiktoken", "character-fallback"}
Measurements == [tokens : Nat, backend : Backend]
Steps == {"raw", "routed", "metric", "final05", "token05", "final06", "token06", "parts", "done"}

CallRecord ==
  [pc : Steps, request : Request, shape : Shapes, loads : BOOLEAN,
   rawTok : Measurements, routedTok : Measurements, finalTok : Measurements]

CallsShaped == calls \in [Call -> CallRecord \cup {NoCall}]

\* What every writer leaves in a row of characters.
Balanced(row) ==
  /\ row \in CharRow
  /\ row.saved = row.raw - row.compiled
  /\ IF row.measured
     THEN row.endToEnd = row.raw - row.final /\ row.compactor = row.compiled - row.final
     ELSE row.endToEnd = 0 /\ row.compactor = 0

RowsBalanced ==
  /\ charRows \in [Request -> CharRow \cup {NoRow}]
  /\ \A r \in Request : charRows[r] # NoRow => Balanced(charRows[r])

\* The report reads the exact counts before it looks for the others, and a row of
\* tokens is never taken back.
ReportBehind ==
  /\ DOMAIN tokenRows = Request
  /\ report \in [read : 0..3, eligible : SUBSET Request, exact : SUBSET Request,
                 fallback : SUBSET Request]
  /\ report.exact \subseteq TokenRequests
  /\ report.read < 3 => report.fallback = {}
  /\ report.exact \cap report.fallback = {}

\* A measurement of a text of n characters, if there is one.
CountOf(m, n) == Available(m) => m.tokens = Tokens(m.backend, n)

CallsCount ==
  \A c \in Call : calls[c].pc # "idle" =>
    /\ CountOf(calls[c].rawTok, calls[c].shape.raw)
    /\ CountOf(calls[c].routedTok, calls[c].shape.routed)
    /\ CountOf(calls[c].finalTok, calls[c].shape.final)

RowsShaped ==
  /\ \A r \in Request :
       /\ tokenRows[r] # NoRow => DOMAIN tokenRows[r] = {"raw", "final", "label"}
       /\ partRows[r] # NoRow => DOMAIN partRows[r] = {"raw", "final"}
  /\ DOMAIN partRows = Request
  /\ hf \in {"untried", "loading", "ready", "absent"}

MetricsInv ==
  /\ CallsShaped /\ RowsBalanced /\ ReportBehind
  /\ RowsShaped /\ CallsCount /\ OneTokenizerRowsReal

----------------------------------------------------------------------------
(* The writers. *)

LEMMA ShapesDecrease ==
  ASSUME NEW p \in Shapes
  PROVE  /\ p.raw \in Nat /\ p.routed \in Nat /\ p.compiled \in Nat /\ p.final \in Nat
         /\ p.final <= p.compiled /\ p.compiled <= p.routed /\ p.routed <= p.raw
BY MetricsAssumption

LEMMA LegacyBalanced ==
  ASSUME NEW raw \in Nat, NEW compiled \in Nat, compiled <= raw
  PROVE  /\ Balanced(LegacyRow(raw, compiled))
         /\ ~LegacyRow(raw, compiled).measured
         /\ LegacyRow(raw, compiled).raw = raw /\ LegacyRow(raw, compiled).compiled = compiled
BY DEF Balanced, LegacyRow, CharRow

LEMMA OverwrittenBalanced ==
  ASSUME NEW row, Balanced(row), NEW raw \in Nat, NEW compiled \in Nat, compiled <= raw
  PROVE  LET new == Overwritten(row, raw, compiled)
         IN  Balanced(new) /\ ~new.measured /\ new.raw = raw /\ new.compiled = compiled
<1>1. CASE row.measured
  BY <1>1, LegacyBalanced DEF Overwritten
<1>2. CASE ~row.measured
  <2> DEFINE new == [row EXCEPT !.raw = raw, !.compiled = compiled, !.saved = raw - compiled]
  <2>1. row \in CharRow /\ raw - compiled \in Nat
    BY DEF Balanced
  <2>2. new \in CharRow
    BY <2>1 DEF CharRow
  <2>3. /\ new.raw = raw /\ new.compiled = compiled /\ new.saved = raw - compiled
        /\ new.measured = row.measured /\ new.endToEnd = row.endToEnd
        /\ new.compactor = row.compactor
    BY <2>1 DEF CharRow
  <2> HIDE DEF new
  <2>4. Balanced(new)
    BY <1>2, <2>2, <2>3 DEF Balanced
  <2> QED
    BY <1>2, <2>3, <2>4 DEF Overwritten, new
<1> QED
  BY <1>1, <1>2

\* The upsert and the measurement of one transaction.
LEMMA MetricRowBalanced ==
  ASSUME NEW row, row # NoRow => Balanced(row), NEW raw \in Nat, NEW compiled \in Nat,
         NEW final \in Nat, final <= compiled, compiled <= raw, NEW measured \in BOOLEAN
  PROVE  Balanced(MetricRow(row, raw, compiled, final, measured))
<1> DEFINE base == Upserted(row, raw, compiled, measured)
<1>1. Balanced(base) /\ (measured => base.raw = raw /\ base.compiled = compiled)
  BY LegacyBalanced, OverwrittenBalanced DEF Upserted
<1>2. CASE ~measured
  BY <1>1, <1>2 DEF MetricRow
<1>3. CASE measured
  <2> HIDE DEF base
  <2> DEFINE new == [base EXCEPT !.final = final, !.compactor = compiled - final,
                                 !.endToEnd = raw - final, !.measured = TRUE]
  <2>1. base \in CharRow /\ compiled - final \in Nat /\ raw - final \in Nat
    BY <1>1 DEF Balanced
  <2>2. new \in CharRow
    BY <2>1 DEF CharRow
  <2>3. /\ new.final = final /\ new.compactor = compiled - final /\ new.endToEnd = raw - final
        /\ new.measured = TRUE /\ new.raw = base.raw /\ new.compiled = base.compiled
        /\ new.saved = base.saved
    BY <2>1 DEF CharRow
  <2> HIDE DEF new
  <2>4. Balanced(new)
    BY <1>1, <1>3, <2>2, <2>3 DEF Balanced
  <2> QED
    BY <1>3, <2>4 DEF MetricRow, base, new
<1> QED
  BY <1>2, <1>3

----------------------------------------------------------------------------
(* The calls. *)

LEMMA MeasurementShape ==
  ASSUME NEW b \in Backend, NEW n \in Nat
  PROVE  Measurement(b, n) \in Measurements
BY DEF Measurement, Uncounted, Tokens, Measurements, Backend

LEMMA CallsKeepShape ==
  ASSUME CallsShaped, [MetricsNext]_metricsVars
  PROVE  CallsShaped'
<1> USE DEF CallsShaped
<1>1. ASSUME NEW c \in Call, NEW r \in Request, BeginCall(c, r)
      PROVE  CallsShaped'
  BY <1>1 DEF BeginCall, CallRecord, Steps, Uncounted, Measurements, Backend
<1>2. ASSUME NEW c \in Call, calls[c].pc # "idle",
             \/ \E pc \in Steps : calls' = [calls EXCEPT ![c].pc = pc]
             \/ \E loads \in BOOLEAN : calls' = [calls EXCEPT ![c].loads = loads]
      PROVE  CallsShaped'
  BY <1>2 DEF CallRecord, NoCall
<1>3. ASSUME NEW c \in Call, Measure(c)
      PROVE  CallsShaped'
  <2>1. PICK b \in Backends :
          LET m == Measurement(b, Measured(c))
          IN  calls' = [calls EXCEPT ![c].pc = AfterMeasuring(@),
                 ![c].rawTok = IF calls[c].pc = "raw" THEN m ELSE @,
                 ![c].routedTok = IF calls[c].pc = "routed" THEN m ELSE @,
                 ![c].finalTok = IF calls[c].pc \in {"final05", "final06"} THEN m ELSE @]
    BY <1>3 DEF Measure
  <2>2. calls[c] \in CallRecord /\ calls[c].pc \in MeasuringSteps
    BY <1>3 DEF Measure, MeasuringSteps, NoCall
  <2>3. Measured(c) \in Nat
    BY <2>2, ShapesDecrease DEF Measured, CallRecord
  <2>4. Measurement(b, Measured(c)) \in Measurements
    BY <2>3, MeasurementShape DEF Backends, Fallback, Backend
  <2>5. AfterMeasuring(calls[c].pc) \in Steps
    BY <2>2 DEF AfterMeasuring, MeasuringSteps, Steps
  <2> DEFINE m == Measurement(b, Measured(c))
  <2> HIDE DEF m
  <2> QED
    BY <2>1, <2>2, <2>4, <2>5 DEF CallRecord, m
<1>4. ASSUME NEW c \in Call,
             \/ LoadTokenizer(c) \/ TokenizerLoaded(c)
             \/ RecordMetric(c) \/ RecordRoutedTokens(c) \/ RecordAllTokens(c) \/ RecordParts(c)
      PROVE  CallsShaped'
  <2>1. calls[c].pc # "idle"
    BY <1>4 DEF LoadTokenizer, TokenizerLoaded, RecordMetric, RecordRoutedTokens, RecordAllTokens,
                RecordParts, MeasuringSteps, Running
  <2>2. \/ \E pc \in Steps : calls' = [calls EXCEPT ![c].pc = pc]
        \/ \E loads \in BOOLEAN : calls' = [calls EXCEPT ![c].loads = loads]
    BY <1>4 DEF LoadTokenizer, TokenizerLoaded, RecordMetric, RecordRoutedTokens, RecordAllTokens,
                RecordParts, StepTo, Steps
  <2>3. CASE \E pc \in Steps : calls' = [calls EXCEPT ![c].pc = pc]
    BY <1>2, <2>1, <2>3
  <2>4. CASE \E loads \in BOOLEAN : calls' = [calls EXCEPT ![c].loads = loads]
    BY <1>2, <2>1, <2>4
  <2> QED
    BY <2>2, <2>3, <2>4
<1>5. ASSUME NEW c \in Call, Die(c)
      PROVE  CallsShaped'
  <2>1. ASSUME NEW r \in CallRecord
        PROVE  [r EXCEPT !.pc = "done", !.loads = FALSE] \in CallRecord
    BY DEF CallRecord, Steps
  <2>2. ASSUME NEW d \in Call, Running(d)
        PROVE  calls[d] \in CallRecord
    BY <2>2 DEF Running, NoCall
  <2> QED
    BY <1>5, <2>1, <2>2 DEF Die
<1>6. ASSUME UNCHANGED calls
      PROVE  CallsShaped'
  BY <1>6
<1>7. CASE \E r \in Request : CompilerWrites(r) \/ LegacyWrites(r)
  BY <1>6, <1>7 DEF CompilerWrites, LegacyWrites
<1>8. CASE ReadStatement \/ ForgetReport \/ UNCHANGED metricsVars
  BY <1>6, <1>8 DEF ReadStatement, ForgetReport, metricsVars
<1> QED
  BY <1>1, <1>3, <1>4, <1>5, <1>7, <1>8 DEF MetricsNext

----------------------------------------------------------------------------
(* The rows of characters. *)

\* Every writer replaces at most one row, by a balanced one.
LEMMA OneRowWritten ==
  ASSUME RowsBalanced, NEW r \in Request, NEW row, Balanced(row),
         charRows' = [charRows EXCEPT ![r] = row]
  PROVE  RowsBalanced'
BY DEF RowsBalanced, Balanced

LEMMA RowsStayBalanced ==
  ASSUME CallsShaped, RowsBalanced, [MetricsNext]_metricsVars
  PROVE  RowsBalanced'
<1>1. ASSUME UNCHANGED charRows
      PROVE  RowsBalanced'
  BY <1>1 DEF RowsBalanced, Balanced
<1>2. ASSUME NEW c \in Call, RecordMetric(c)
      PROVE  RowsBalanced'
  <2> DEFINE r == calls[c].request
             p == calls[c].shape
             row == MetricRow(charRows[r], p.routed, p.compiled, p.final, TRUE)
  <2>1. r \in Request /\ p \in Shapes
    BY <1>2 DEF RecordMetric, CallsShaped, CallRecord, NoCall
  <2>2. p.routed \in Nat /\ p.compiled \in Nat /\ p.final \in Nat
        /\ p.final <= p.compiled /\ p.compiled <= p.routed
    BY <2>1, ShapesDecrease
  <2>3. charRows[r] # NoRow => Balanced(charRows[r])
    BY <2>1 DEF RowsBalanced
  <2> HIDE DEF r, p
  <2>4. Balanced(row)
    BY <2>2, <2>3, MetricRowBalanced
  <2>5. charRows' = [charRows EXCEPT ![r] = row] \/ UNCHANGED charRows
    BY <1>2 DEF RecordMetric, r, p
  <2> HIDE DEF row
  <2> QED
    BY <1>1, <2>1, <2>4, <2>5, OneRowWritten
<1>3. ASSUME NEW r \in Request, CompilerWrites(r)
      PROVE  RowsBalanced'
  <2>1. PICK p \in Shapes :
          charRows' = [charRows EXCEPT ![r] = MetricRow(@, p.routed, p.compiled, 0, FALSE)]
    BY <1>3 DEF CompilerWrites
  <2> DEFINE row == MetricRow(charRows[r], p.routed, p.compiled, 0, FALSE)
  <2>2. /\ p.routed \in Nat /\ p.compiled \in Nat /\ 0 \in Nat /\ FALSE \in BOOLEAN
        /\ 0 <= p.compiled /\ p.compiled <= p.routed
    BY ShapesDecrease
  <2>3. charRows[r] # NoRow => Balanced(charRows[r])
    BY DEF RowsBalanced
  <2>4. Balanced(row)
    BY <2>2, <2>3, MetricRowBalanced
  <2>5. charRows' = [charRows EXCEPT ![r] = row]
    BY <2>1
  <2> HIDE DEF row
  <2> QED
    BY <2>4, <2>5, OneRowWritten
<1>4. ASSUME NEW r \in Request, LegacyWrites(r)
      PROVE  RowsBalanced'
  <2>1. PICK p \in Shapes :
          charRows' = [charRows EXCEPT ![r] =
            IF @ = NoRow THEN LegacyRow(p.raw, p.compiled) ELSE Overwritten(@, p.raw, p.compiled)]
    BY <1>4 DEF LegacyWrites
  <2> DEFINE row == IF charRows[r] = NoRow THEN LegacyRow(p.raw, p.compiled)
                    ELSE Overwritten(charRows[r], p.raw, p.compiled)
  <2>2. p.raw \in Nat /\ p.compiled \in Nat /\ p.compiled <= p.raw
    BY ShapesDecrease
  <2>3. Balanced(row)
    BY <2>2, LegacyBalanced, OverwrittenBalanced DEF RowsBalanced
  <2>4. charRows' = [charRows EXCEPT ![r] = row]
    BY <2>1
  <2> HIDE DEF row
  <2> QED
    BY <2>3, <2>4, OneRowWritten
<1>5. ASSUME NEW c \in Call,
             \/ LoadTokenizer(c) \/ TokenizerLoaded(c) \/ Measure(c) \/ RecordRoutedTokens(c)
             \/ RecordAllTokens(c) \/ RecordParts(c) \/ Die(c) \/ \E r \in Request : BeginCall(c, r)
      PROVE  RowsBalanced'
  BY <1>1, <1>5 DEF LoadTokenizer, TokenizerLoaded, Measure, RecordRoutedTokens, RecordAllTokens,
                    RecordParts, Die, BeginCall
<1>6. CASE ReadStatement \/ ForgetReport \/ UNCHANGED metricsVars
  BY <1>1, <1>6 DEF ReadStatement, ForgetReport, metricsVars
<1> QED
  BY <1>2, <1>3, <1>4, <1>5, <1>6 DEF MetricsNext

----------------------------------------------------------------------------
(* The status report. *)

\* A row of tokens, once written, stays.
LEMMA TokensStay ==
  ASSUME CallsShaped, ReportBehind, [MetricsNext]_metricsVars
  PROVE  DOMAIN tokenRows' = Request /\ TokenRequests \subseteq TokenRequests'
<1>1. ASSUME UNCHANGED tokenRows
      PROVE  DOMAIN tokenRows' = Request /\ TokenRequests \subseteq TokenRequests'
  BY <1>1 DEF ReportBehind, TokenRequests
<1>2. ASSUME NEW c \in Call, NEW raw \in Measurements, calls[c] \in CallRecord,
             RecordTokens(c, raw)
      PROVE  DOMAIN tokenRows' = Request /\ TokenRequests \subseteq TokenRequests'
  <2> DEFINE final == calls[c].finalTok
             row == [raw |-> raw.tokens, final |-> final.tokens, label |-> Label(raw, final)]
  <2>1. calls[c].request \in Request /\ final \in Measurements
    BY <1>2 DEF CallRecord
  <2>2. row # NoRow
    BY <2>1, TokenRowsAreRows DEF Label, Measurements, Backend
  <2>3. UNCHANGED tokenRows \/ tokenRows' = [tokenRows EXCEPT ![calls[c].request] = row]
    BY <1>2 DEF RecordTokens
  <2> HIDE DEF row
  <2> QED
    BY <2>1, <2>2, <2>3 DEF ReportBehind, TokenRequests
<1>3. ASSUME NEW c \in Call, RecordRoutedTokens(c) \/ RecordAllTokens(c)
      PROVE  DOMAIN tokenRows' = Request /\ TokenRequests \subseteq TokenRequests'
  <2>1. calls[c] \in CallRecord
    BY <1>3 DEF RecordRoutedTokens, RecordAllTokens, CallsShaped, NoCall
  <2>2. calls[c].rawTok \in Measurements /\ calls[c].routedTok \in Measurements
    BY <2>1 DEF CallRecord
  <2> QED
    BY <1>2, <1>3, <2>1, <2>2 DEF RecordRoutedTokens, RecordAllTokens
<1>4. ASSUME NEW c \in Call,
             \/ LoadTokenizer(c) \/ TokenizerLoaded(c) \/ Measure(c) \/ RecordMetric(c)
             \/ RecordParts(c) \/ Die(c) \/ \E r \in Request : BeginCall(c, r)
      PROVE  UNCHANGED tokenRows
  BY <1>4 DEF LoadTokenizer, TokenizerLoaded, Measure, RecordMetric, RecordParts, Die, BeginCall
<1>5. CASE \E r \in Request : CompilerWrites(r) \/ LegacyWrites(r)
  BY <1>1, <1>5 DEF CompilerWrites, LegacyWrites
<1>6. CASE ReadStatement \/ ForgetReport \/ UNCHANGED metricsVars
  BY <1>1, <1>6 DEF ReadStatement, ForgetReport, metricsVars
<1> QED
  BY <1>1, <1>3, <1>4, <1>5, <1>6 DEF MetricsNext

LEMMA ReportStaysBehind ==
  ASSUME CallsShaped, ReportBehind, [MetricsNext]_metricsVars
  PROVE  ReportBehind'
<1>1. DOMAIN tokenRows' = Request /\ TokenRequests \subseteq TokenRequests'
  BY TokensStay
<1>2. ASSUME UNCHANGED report
      PROVE  ReportBehind'
  BY <1>1, <1>2 DEF ReportBehind
<1>3. CASE ReadStatement
  <2> DEFINE seen == CASE ReadOrder[report.read + 1] = "eligible" -> MeasuredRequests
                       [] ReadOrder[report.read + 1] = "exact" -> TokenRequests
                       [] OTHER -> MeasuredRequests \ TokenRequests
  <2>1. /\ report' = [[report EXCEPT !.read = @ + 1] EXCEPT ![ReadOrder[report.read + 1]] = seen]
        /\ report.read < 3 /\ UNCHANGED tokenRows
    BY <1>3 DEF ReadStatement, ReadOrder
  <2>2. MeasuredRequests \subseteq Request /\ TokenRequests \subseteq Request
    BY DEF MeasuredRequests, TokenRequests
  <2>3. TokenRequests' = TokenRequests
    BY <2>1 DEF TokenRequests
  <2> DEFINE mid == [report EXCEPT !.read = @ + 1]
             name == ReadOrder[report.read + 1]
  <2>4. /\ mid \in [read : 0..3, eligible : SUBSET Request, exact : SUBSET Request,
                  fallback : SUBSET Request]
        /\ mid.read = report.read + 1 /\ mid.read \in 1..3 /\ report.fallback = {}
        /\ mid.eligible = report.eligible /\ mid.exact = report.exact
        /\ mid.fallback = report.fallback
    BY <2>1 DEF ReportBehind
  <2>5. report' = [mid EXCEPT ![name] = seen]
    BY <2>1
  <2>6. name = IF mid.read = 1 THEN "eligible" ELSE IF mid.read = 2 THEN "exact" ELSE "fallback"
    BY <2>4 DEF ReadOrder
  <2>7. seen = IF name = "eligible" THEN MeasuredRequests
               ELSE IF name = "exact" THEN TokenRequests ELSE MeasuredRequests \ TokenRequests
    OBVIOUS
  <2> HIDE DEF mid, name, seen
  <2>8. /\ report' \in [read : 0..3, eligible : SUBSET Request, exact : SUBSET Request,
                      fallback : SUBSET Request]
        /\ report'.read = mid.read
        /\ report'.eligible = IF name = "eligible" THEN seen ELSE mid.eligible
        /\ report'.exact = IF name = "exact" THEN seen ELSE mid.exact
        /\ report'.fallback = IF name = "fallback" THEN seen ELSE mid.fallback
    BY <2>2, <2>4, <2>5, <2>6, <2>7
  <2> QED
    BY <1>1, <2>2, <2>3, <2>4, <2>6, <2>7, <2>8 DEF ReportBehind
<1>4. CASE ForgetReport
  BY <1>1, <1>4 DEF ForgetReport, ReportBehind, NoReport
<1>5. ASSUME NEW c \in Call,
             \/ LoadTokenizer(c) \/ TokenizerLoaded(c) \/ Measure(c) \/ RecordMetric(c)
             \/ RecordRoutedTokens(c) \/ RecordAllTokens(c) \/ RecordParts(c) \/ Die(c)
             \/ \E r \in Request : BeginCall(c, r)
      PROVE  UNCHANGED report
  BY <1>5 DEF LoadTokenizer, TokenizerLoaded, Measure, RecordMetric, RecordRoutedTokens,
              RecordAllTokens, RecordParts, Die, BeginCall
<1>6. CASE \E r \in Request : CompilerWrites(r) \/ LegacyWrites(r)
  BY <1>2, <1>6 DEF CompilerWrites, LegacyWrites
<1>7. CASE UNCHANGED metricsVars
  BY <1>2, <1>7 DEF metricsVars
<1> QED
  BY <1>2, <1>3, <1>4, <1>5, <1>6, <1>7 DEF MetricsNext

----------------------------------------------------------------------------
(* The rows of tokens. *)

\* A call keeps its request and its sizes once it has begun.
LEMMA CallsKeepTheirRequest ==
  ASSUME CallsShaped, [MetricsNext]_metricsVars, NEW c \in Call, calls[c].pc # "idle"
  PROVE  /\ calls'[c].pc # "idle" /\ calls'[c].request = calls[c].request
         /\ calls'[c].shape = calls[c].shape
<1> DEFINE Kept == /\ calls'[c].pc # "idle" /\ calls'[c].request = calls[c].request
                   /\ calls'[c].shape = calls[c].shape
<1>0. calls[c] \in CallRecord /\ calls \in [Call -> CallRecord \cup {NoCall}]
  BY DEF CallsShaped, NoCall
<1>1. ASSUME NEW d \in Call, NEW r \in Request, BeginCall(d, r)
      PROVE  Kept
  BY <1>0, <1>1 DEF BeginCall
<1>2. ASSUME NEW d \in Call, NEW pc \in Steps, calls' = [calls EXCEPT ![d].pc = pc]
      PROVE  Kept
  BY <1>0, <1>2 DEF CallRecord, Steps
<1>3. ASSUME NEW d \in Call, NEW loads, calls' = [calls EXCEPT ![d].loads = loads]
      PROVE  Kept
  BY <1>0, <1>3 DEF CallRecord
<1>4. ASSUME NEW d \in Call, Measure(d)
      PROVE  Kept
  <2>1. PICK m : calls' = [calls EXCEPT ![d].pc = AfterMeasuring(@),
                 ![d].rawTok = IF calls[d].pc = "raw" THEN m ELSE @,
                 ![d].routedTok = IF calls[d].pc = "routed" THEN m ELSE @,
                 ![d].finalTok = IF calls[d].pc \in {"final05", "final06"} THEN m ELSE @]
    BY <1>4 DEF Measure
  <2>2. CASE d # c
    <3>1. calls'[c] = calls[c]
      BY <1>0, <2>1, <2>2
    <3> QED
      BY <3>1
  <2>3. CASE d = c
    <3>1. AfterMeasuring(calls[c].pc) # "idle"
      BY DEF AfterMeasuring
    <3> QED
      BY <1>0, <2>1, <2>3, <3>1 DEF CallRecord
  <2> QED
    BY <2>2, <2>3
<1>5. ASSUME NEW d \in Call, LoadTokenizer(d) \/ TokenizerLoaded(d)
      PROVE  Kept
  BY <1>3, <1>5 DEF LoadTokenizer, TokenizerLoaded
<1>6. ASSUME NEW d \in Call,
             RecordMetric(d) \/ RecordRoutedTokens(d) \/ RecordAllTokens(d) \/ RecordParts(d)
      PROVE  Kept
  BY <1>2, <1>6 DEF RecordMetric, RecordRoutedTokens, RecordAllTokens, RecordParts, StepTo, Steps
<1>7. ASSUME NEW d \in Call, Die(d)
      PROVE  Kept
  BY <1>0, <1>7 DEF Die, CallRecord
<1>8. ASSUME \/ \E r \in Request : CompilerWrites(r) \/ LegacyWrites(r)
             \/ ReadStatement \/ ForgetReport \/ UNCHANGED metricsVars
      PROVE  Kept
  BY <1>8 DEF CompilerWrites, LegacyWrites, ReadStatement, ForgetReport, metricsVars
<1> QED
  BY <1>1, <1>4, <1>5, <1>6, <1>7, <1>8 DEF MetricsNext

LEMMA MeasurementCounts ==
  ASSUME NEW b \in Backend, NEW n
  PROVE  CountOf(Measurement(b, n), n)
BY DEF Measurement, CountOf, Available, Uncounted

LEMMA CallsStillCount ==
  ASSUME CallsShaped, CallsCount, [MetricsNext]_metricsVars
  PROVE  CallsCount'
<1> DEFINE Counts(r) == /\ CountOf(r.rawTok, r.shape.raw)
                        /\ CountOf(r.routedTok, r.shape.routed)
                        /\ CountOf(r.finalTok, r.shape.final)
<1>0. /\ calls \in [Call -> CallRecord \cup {NoCall}] /\ NoCall.pc = "idle"
      /\ \A c \in Call : calls[c].pc # "idle" => calls[c] \in CallRecord /\ Counts(calls[c])
  BY DEF CallsShaped, CallsCount, NoCall
<1>1. SUFFICES ASSUME NEW c \in Call, calls'[c].pc # "idle"
               PROVE  Counts(calls'[c])
  BY DEF CallsCount
<1> DEFINE SameTokens(r, q) == /\ r.rawTok = q.rawTok /\ r.routedTok = q.routedTok
                               /\ r.finalTok = q.finalTok /\ r.shape = q.shape
<1>2. ASSUME calls[c].pc # "idle", SameTokens(calls'[c], calls[c])
      PROVE  Counts(calls'[c])
  BY <1>0, <1>2
<1>3. ASSUME calls'[c] = calls[c]
      PROVE  Counts(calls'[c])
  BY <1>0, <1>1, <1>3
<1>4. ASSUME NEW d \in Call, NEW r \in Request, BeginCall(d, r)
      PROVE  Counts(calls'[c])
  <2>1. CASE d # c
    BY <1>3, <1>4, <2>1 DEF BeginCall
  <2>2. CASE d = c
    <3>1. /\ calls'[c].rawTok = Uncounted /\ calls'[c].routedTok = Uncounted
          /\ calls'[c].finalTok = Uncounted
      BY <1>0, <1>4, <2>2 DEF BeginCall
    <3> QED
      BY <3>1 DEF CountOf, Uncounted, Available
  <2> QED
    BY <2>1, <2>2
<1>5. ASSUME NEW d \in Call, calls[d].pc # "idle",
             \/ \E pc : calls' = [calls EXCEPT ![d].pc = pc]
             \/ \E loads : calls' = [calls EXCEPT ![d].loads = loads]
      PROVE  Counts(calls'[c])
  <2>1. CASE d # c
    <3>1. calls'[c] = calls[c]
      BY <1>0, <1>5, <2>1
    <3> QED
      BY <1>3, <3>1
  <2>2. CASE d = c
    <3>1. SameTokens(calls'[c], calls[c])
      BY <1>0, <1>5, <2>2 DEF CallRecord
    <3> QED
      BY <1>2, <1>5, <2>2, <3>1
  <2> QED
    BY <2>1, <2>2
<1>6. ASSUME NEW d \in Call, Measure(d)
      PROVE  Counts(calls'[c])
  <2>1. PICK b \in Backends :
          LET m == Measurement(b, Measured(d))
          IN  calls' = [calls EXCEPT ![d].pc = AfterMeasuring(@),
                 ![d].rawTok = IF calls[d].pc = "raw" THEN m ELSE @,
                 ![d].routedTok = IF calls[d].pc = "routed" THEN m ELSE @,
                 ![d].finalTok = IF calls[d].pc \in {"final05", "final06"} THEN m ELSE @]
    BY <1>6 DEF Measure
  <2> DEFINE m == Measurement(b, Measured(d))
  <2>2. calls[d].pc \in MeasuringSteps
    BY <1>6 DEF Measure
  <2>3. CountOf(m, Measured(d))
    BY MeasurementCounts DEF Backends, Fallback, Backend
  <2> HIDE DEF m
  <2>4. CASE d # c
    <3>1. calls'[c] = calls[c]
      BY <1>0, <2>1, <2>4
    <3> QED
      BY <1>3, <3>1
  <2>5. CASE d = c
    <3>1. calls[c] \in CallRecord /\ Counts(calls[c])
      BY <1>0, <2>2, <2>5 DEF MeasuringSteps
    <3>2. /\ calls'[c].shape = calls[c].shape
          /\ calls'[c].rawTok = IF calls[c].pc = "raw" THEN m ELSE calls[c].rawTok
          /\ calls'[c].routedTok = IF calls[c].pc = "routed" THEN m ELSE calls[c].routedTok
          /\ calls'[c].finalTok =
               IF calls[c].pc \in {"final05", "final06"} THEN m ELSE calls[c].finalTok
      BY <1>0, <2>1, <2>5, <3>1 DEF CallRecord, m
    <3>3. /\ calls[c].pc = "raw" => Measured(d) = calls[c].shape.raw
          /\ calls[c].pc = "routed" => Measured(d) = calls[c].shape.routed
          /\ calls[c].pc \in {"final05", "final06"} => Measured(d) = calls[c].shape.final
      BY <2>5 DEF Measured
    <3> QED
      BY <2>3, <3>1, <3>2, <3>3
  <2> QED
    BY <2>4, <2>5
<1>7. ASSUME NEW d \in Call, LoadTokenizer(d) \/ TokenizerLoaded(d)
      PROVE  Counts(calls'[c])
  <2>1. calls[d].pc # "idle"
    BY <1>7 DEF LoadTokenizer, TokenizerLoaded, MeasuringSteps, Running
  <2> QED
    BY <1>5, <1>7, <2>1 DEF LoadTokenizer, TokenizerLoaded
<1>8. ASSUME NEW d \in Call,
             RecordMetric(d) \/ RecordRoutedTokens(d) \/ RecordAllTokens(d) \/ RecordParts(d)
      PROVE  Counts(calls'[c])
  <2>1. calls[d].pc # "idle" /\ \E pc : calls' = [calls EXCEPT ![d].pc = pc]
    BY <1>8 DEF RecordMetric, RecordRoutedTokens, RecordAllTokens, RecordParts, StepTo
  <2> QED
    BY <1>5, <2>1
<1>9. ASSUME NEW d \in Call, Die(d)
      PROVE  Counts(calls'[c])
  <2>1. CASE Running(c)
    <3>1. calls'[c] = [calls[c] EXCEPT !.pc = "done", !.loads = FALSE]
      BY <1>9, <2>1 DEF Die
    <3>2. calls[c].pc # "idle" /\ calls[c] \in CallRecord
      BY <1>0, <2>1 DEF Running
    <3>3. SameTokens(calls'[c], calls[c])
      BY <3>1, <3>2 DEF CallRecord
    <3> QED
      BY <1>2, <3>2, <3>3
  <2>2. CASE ~Running(c)
    BY <1>3, <1>9, <2>2 DEF Die
  <2> QED
    BY <2>1, <2>2
<1>10. ASSUME \/ \E r \in Request : CompilerWrites(r) \/ LegacyWrites(r)
              \/ ReadStatement \/ ForgetReport \/ UNCHANGED metricsVars
       PROVE  Counts(calls'[c])
  BY <1>3, <1>10 DEF CompilerWrites, LegacyWrites, ReadStatement, ForgetReport, metricsVars
<1> HIDE DEF Counts
<1> QED
  BY <1>4, <1>6, <1>7, <1>8, <1>9, <1>10 DEF MetricsNext

\* Two backends that make a label of one are that one.
LEMMA TokensRecorded ==
  ASSUME MetricsInv, NEW c \in Call, calls[c].pc # "idle", NEW raw \in Measurements,
         NEW n, CountOf(raw, n), RecordTokens(c, raw), NEW r \in Request,
         tokenRows'[r] # tokenRows[r]
  PROVE  /\ r = calls[c].request
         /\ DOMAIN tokenRows'[r] = {"raw", "final", "label"}
         /\ \A b \in tokenRows'[r].label : tokenRows'[r].label = {b} =>
              /\ tokenRows'[r].final = Tokens(b, calls[c].shape.final)
              /\ tokenRows'[r].raw = Tokens(b, n)
<1> DEFINE final == calls[c].finalTok
           row == [raw |-> raw.tokens, final |-> final.tokens, label |-> Label(raw, final)]
<1>1. calls[c] \in CallRecord /\ CountOf(final, calls[c].shape.final)
  BY DEF MetricsInv, CallsShaped, CallsCount, NoCall
<1>2. /\ Available(raw) /\ Available(final)
      /\ tokenRows' = [tokenRows EXCEPT ![calls[c].request] = row]
  BY DEF RecordTokens
<1>3. r = calls[c].request /\ tokenRows'[r] = row
  BY <1>1, <1>2 DEF CallRecord, MetricsInv, ReportBehind
<1>4. raw.tokens = Tokens(raw.backend, n)
      /\ final.tokens = Tokens(final.backend, calls[c].shape.final)
  BY <1>1, <1>2 DEF CountOf
<1>5. ASSUME NEW b, Label(raw, final) = {b}
      PROVE  raw.backend = b /\ final.backend = b
  BY <1>5 DEF Label
<1> QED
  BY <1>3, <1>4, <1>5

LEMMA TokenRowsStayReal ==
  ASSUME MetricsInv, [MetricsNext]_metricsVars
  PROVE  RowsShaped' /\ OneTokenizerRowsReal'
<1> DEFINE Shaped(r) == /\ tokenRows'[r] # NoRow => DOMAIN tokenRows'[r] = {"raw", "final", "label"}
                        /\ partRows'[r] # NoRow => DOMAIN partRows'[r] = {"raw", "final"}
           Of(c, r, b, row) ==
             /\ calls[c].request = r /\ row.final = Tokens(b, calls[c].shape.final)
             /\ row.raw \in {Tokens(b, calls[c].shape.raw), Tokens(b, calls[c].shape.routed)}
           Real(r, row) == \A b \in row.label : row.label = {b} =>
                             \E c \in Call : calls[c].pc # "idle" /\ Of(c, r, b, row)
<1>0. CallsShaped
  BY DEF MetricsInv
<1>1. ASSUME NEW r \in Request, tokenRows'[r] # NoRow, Real(r, tokenRows'[r])
      PROVE  \A b \in tokenRows'[r].label : tokenRows'[r].label = {b} =>
               \E c \in Call : /\ calls'[c].pc # "idle" /\ calls'[c].request = r
                              /\ tokenRows'[r].final = Tokens(b, calls'[c].shape.final)
                              /\ tokenRows'[r].raw \in {Tokens(b, calls'[c].shape.raw),
                                                       Tokens(b, calls'[c].shape.routed)}
  <2> SUFFICES ASSUME NEW b \in tokenRows'[r].label, tokenRows'[r].label = {b}
               PROVE  \E c \in Call :
                        /\ calls'[c].pc # "idle" /\ calls'[c].request = r
                        /\ tokenRows'[r].final = Tokens(b, calls'[c].shape.final)
                        /\ tokenRows'[r].raw \in {Tokens(b, calls'[c].shape.raw),
                                                 Tokens(b, calls'[c].shape.routed)}
    OBVIOUS
  <2>1. PICK c \in Call : calls[c].pc # "idle" /\ Of(c, r, b, tokenRows'[r])
    BY <1>1
  <2>2. /\ calls'[c].pc # "idle" /\ calls'[c].request = calls[c].request
        /\ calls'[c].shape = calls[c].shape
    BY <1>0, <2>1, CallsKeepTheirRequest
  <2> QED
    BY <2>1, <2>2
<1>2. ASSUME NEW r \in Request, tokenRows[r] # NoRow
      PROVE  Real(r, tokenRows[r]) /\ DOMAIN tokenRows[r] = {"raw", "final", "label"}
  BY <1>2 DEF MetricsInv, RowsShaped, OneTokenizerRowsReal
<1>3. ASSUME NEW c \in Call, RecordRoutedTokens(c) \/ RecordAllTokens(c),
             NEW r \in Request, tokenRows'[r] # tokenRows[r]
      PROVE  Real(r, tokenRows'[r]) /\ DOMAIN tokenRows'[r] = {"raw", "final", "label"}
  <2>1. calls[c].pc # "idle" /\ calls[c] \in CallRecord
    BY <1>0, <1>3 DEF RecordRoutedTokens, RecordAllTokens, CallsShaped, NoCall
  <2>2. /\ calls[c].rawTok \in Measurements /\ calls[c].routedTok \in Measurements
        /\ CountOf(calls[c].rawTok, calls[c].shape.raw)
        /\ CountOf(calls[c].routedTok, calls[c].shape.routed)
    BY <2>1 DEF CallRecord, MetricsInv, CallsCount
  <2>3. \/ RecordTokens(c, calls[c].rawTok) \/ RecordTokens(c, calls[c].routedTok)
    BY <1>3 DEF RecordRoutedTokens, RecordAllTokens
  <2>4. /\ r = calls[c].request
        /\ DOMAIN tokenRows'[r] = {"raw", "final", "label"}
        /\ \A b \in tokenRows'[r].label : tokenRows'[r].label = {b} =>
              /\ tokenRows'[r].final = Tokens(b, calls[c].shape.final)
              /\ tokenRows'[r].raw \in {Tokens(b, calls[c].shape.raw),
                                       Tokens(b, calls[c].shape.routed)}
    <3>1. CASE RecordTokens(c, calls[c].rawTok)
      BY <1>3, <2>1, <2>2, <3>1, TokensRecorded
    <3>2. CASE RecordTokens(c, calls[c].routedTok)
      BY <1>3, <2>1, <2>2, <3>2, TokensRecorded
    <3> QED
      BY <2>3, <3>1, <3>2
  <2> QED
    BY <2>1, <2>4
<1>4. ASSUME NEW c \in Call,
             \/ LoadTokenizer(c) \/ TokenizerLoaded(c) \/ Measure(c) \/ RecordMetric(c)
             \/ RecordParts(c) \/ Die(c) \/ \E r \in Request : BeginCall(c, r)
      PROVE  UNCHANGED tokenRows
  BY <1>4 DEF LoadTokenizer, TokenizerLoaded, Measure, RecordMetric, RecordParts, Die, BeginCall
<1>5. ASSUME \/ \E r \in Request : CompilerWrites(r) \/ LegacyWrites(r)
             \/ ReadStatement \/ ForgetReport \/ UNCHANGED metricsVars
      PROVE  UNCHANGED <<tokenRows, partRows, hf>>
  BY <1>5 DEF CompilerWrites, LegacyWrites, ReadStatement, ForgetReport, metricsVars
<1>6. ASSUME NEW r \in Request, tokenRows'[r] # NoRow
      PROVE  Real(r, tokenRows'[r]) /\ DOMAIN tokenRows'[r] = {"raw", "final", "label"}
  <2>1. CASE tokenRows'[r] = tokenRows[r]
    BY <1>2, <1>6, <2>1
  <2>2. CASE tokenRows'[r] # tokenRows[r]
    <3>1. \E c \in Call : RecordRoutedTokens(c) \/ RecordAllTokens(c)
      BY <1>4, <1>5, <2>2 DEF MetricsNext
    <3> QED
      BY <1>3, <2>2, <3>1
  <2> QED
    BY <2>1, <2>2
<1>7. OneTokenizerRowsReal'
  <2> HIDE DEF Real
  <2> QED
    BY <1>1, <1>6 DEF OneTokenizerRowsReal
<1>8. /\ hf' \in {"untried", "loading", "ready", "absent"} /\ DOMAIN partRows' = Request
      /\ \A r \in Request : partRows'[r] # NoRow => DOMAIN partRows'[r] = {"raw", "final"}
  <2>1. ASSUME UNCHANGED partRows
        PROVE  /\ DOMAIN partRows' = Request
               /\ \A r \in Request : partRows'[r] # NoRow => DOMAIN partRows'[r] = {"raw", "final"}
    BY <2>1 DEF MetricsInv, RowsShaped
  <2>2. ASSUME NEW c \in Call, RecordParts(c)
        PROVE  /\ DOMAIN partRows' = Request /\ UNCHANGED hf
               /\ \A r \in Request : partRows'[r] # NoRow => DOMAIN partRows'[r] = {"raw", "final"}
    BY <2>2 DEF RecordParts, MetricsInv, RowsShaped
  <2>3. ASSUME NEW c \in Call,
               \/ LoadTokenizer(c) \/ TokenizerLoaded(c) \/ Measure(c) \/ RecordMetric(c)
               \/ RecordRoutedTokens(c) \/ RecordAllTokens(c)
               \/ Die(c) \/ \E r \in Request : BeginCall(c, r)
        PROVE  UNCHANGED partRows /\ hf' \in {"untried", "loading", "ready", "absent"}
    BY <2>3 DEF LoadTokenizer, TokenizerLoaded, Measure, RecordMetric, RecordRoutedTokens,
                RecordAllTokens, Die, BeginCall, MetricsInv, RowsShaped
  <2>4. hf \in {"untried", "loading", "ready", "absent"}
    BY DEF MetricsInv, RowsShaped
  <2> QED
    BY <1>5, <2>1, <2>2, <2>3, <2>4 DEF MetricsNext
<1> QED
  BY <1>6, <1>7, <1>8 DEF RowsShaped

----------------------------------------------------------------------------
\* The inductive invariant of the metric rows (storage.py, record_request_metric and
\* its companions), their writers and the report.
THEOREM MetricsInvariant == MetricsSpec => []MetricsInv
<1>1. MetricsInit => MetricsInv
  BY DEF MetricsInit, MetricsInv, CallsShaped, RowsBalanced, ReportBehind, TokenRequests, NoReport,
         RowsShaped, CallsCount, OneTokenizerRowsReal, NoCall
<1>2. MetricsInv /\ [MetricsNext]_metricsVars => MetricsInv'
  BY CallsKeepShape, RowsStayBalanced, ReportStaysBehind, CallsStillCount, TokenRowsStayReal
     DEF MetricsInv
<1> QED
  BY <1>1, <1>2, PTL DEF MetricsSpec

\* The savings of a measured row add up, and a row that is not measured claims none,
\* whichever of the writers wrote it last.
THEOREM MetricsRowsAddUp == MetricsSpec => []MeasuredRowsAddUp
<1>1. ASSUME NEW row, Balanced(row), row.measured
      PROVE  /\ row.endToEnd = row.raw - row.final
             /\ row.endToEnd = row.saved + row.compactor
             /\ row.endToEnd >= 0
  BY <1>1 DEF Balanced, CharRow
<1>2. ASSUME NEW row, Balanced(row), ~row.measured
      PROVE  row.endToEnd = 0 /\ row.compactor = 0
  BY <1>2 DEF Balanced
<1>3. MetricsInv => MeasuredRowsAddUp
  BY <1>1, <1>2 DEF MetricsInv, RowsBalanced, MeasuredRowsAddUp
<1> QED
  BY <1>3, MetricsInvariant, PTL

\* The status report counts the saving of a request once.
THEOREM MetricsReportCountsOnce == MetricsSpec => []ReportCountsOnce
<1>1. MetricsInv => ReportCountsOnce
  BY DEF MetricsInv, ReportBehind, ReportCountsOnce
<1> QED
  BY <1>1, MetricsInvariant, PTL

\* A token row that names one tokenizer holds that tokenizer's counts.
THEOREM MetricsOneTokenizer == MetricsSpec => []OneTokenizerRowsReal
<1>1. MetricsInv => OneTokenizerRowsReal
  BY DEF MetricsInv
<1> QED
  BY <1>1, MetricsInvariant, PTL

----------------------------------------------------------------------------
(* Both accounts. *)

\* The two accounts share no variable: what holds of each holds of both.
THEOREM AccountsKeepShape == AccountingSpec => []AccountingTypeOK
<1>1. AccountingInit => Init /\ MetricsInit
  BY DEF AccountingInit
<1>2. [AccountingNext]_<<account, vars, metricsVars>> => [Next]_vars /\ [MetricsNext]_metricsVars
  BY DEF AccountingNext
<1>3. AccountingSpec => Spec /\ MetricsSpec
  BY <1>1, <1>2, PTL DEF AccountingSpec, Spec, MetricsSpec
<1>4. MetricsInv => MetricsTypeOK
  <2> SUFFICES ASSUME MetricsInv PROVE MetricsTypeOK
    OBVIOUS
  <2>1. charRows \in [Request -> CharRow \cup {NoRow}]
    BY DEF MetricsInv, RowsBalanced
  <2>2. DOMAIN calls = Call /\ report.read \in 0..Len(ReadOrder)
    BY DEF MetricsInv, CallsShaped, ReportBehind, ReadOrder
  <2> QED
    BY <2>1, <2>2 DEF MetricsInv, RowsShaped, MetricsTypeOK
<1>5. LedgerInv /\ MetricsInv => AccountingTypeOK
  BY <1>4 DEF LedgerInv, AccountingTypeOK
<1> QED
  BY <1>3, <1>5, LedgerInvariant, MetricsInvariant, PTL
=============================================================================
