---------------------------- MODULE SkillRouting ----------------------------
(***************************************************************************)
(* SkillGate.route (skillgate.py) over the one SkillGraph of the process   *)
(* (skill_graph.py).  Threads route the skill catalog of their requests;   *)
(* the graph is loaded from the skills installed on the host when a        *)
(* catalog differs from the last one seen, without a lock, so that any two  *)
(* reads of a thread may be of different graphs.  A thread's step reads     *)
(* the graph once: to score one skill, to relate one skill to others, to    *)
(* find what one skill requires, or to look whether one of these is known.  *)
(*                                                                         *)
(* Scores are in quarters of a point; a skill is its rank among the folded  *)
(* names.  The terms a score is computed from are left out.                *)
(***************************************************************************)
EXTENDS Integers, FiniteSets, SequencesExt, FiniteSetsExt

CONSTANTS
  Thread,
  Catalogs,     \* the sets of skills a request's catalog may list
  Documents,    \* the sets of documents that may be installed: skill -> graph
  Card,         \* score of each catalog card for the prompts of the threads
  AlwaysKeep,
  MinScore,     \* 0 would make every skill relevant
  Infinite,     \* float("inf")
  Caps,         \* the values max_skills may be configured to; 0: no cap
  NoCatalog

Skill == UNION Catalogs

ASSUME CatalogsAssumption == \A c \in Catalogs : c \subseteq Nat /\ IsFiniteSet(c)
ASSUME LimitsAssumption ==
  /\ MinScore \in Nat \ {0} /\ Caps \subseteq Nat
  /\ Infinite \in Nat /\ MinScore + 4 <= Infinite
\* The default scorer: a card and the body of its skill (min(12.0, ...)) have a finite
\* score, which is never negative.
ASSUME CardAssumption ==
  Card \in [Skill -> Nat] /\ \A s \in Skill : Card[s] + 48 < Infinite
\* A document: the score of the body for the prompt, related_skills, requires_skills.
ASSUME DocumentsAssumption ==
  \A d \in Documents : \A s \in DOMAIN d :
    /\ d[s].internal \in 0..48
    /\ d[s].related \cup d[s].requires \subseteq Nat

VARIABLES
  installed,    \* the documents discover_hermes_skill_documents returns now
  skillNodes,   \* SkillGraph._nodes
  fingerprint,  \* _catalog_fingerprint
  loaded,       \* _loaded
  routing       \* what each thread is doing

graphVars == <<skillNodes, fingerprint, loaded>>
skillVars == <<installed, graphVars, routing>>

Empty == [s \in {} |-> 0]
NotRouting ==
  [pc |-> "idle", catalog |-> {}, documents |-> Empty, base |-> Empty,
   score |-> Empty, todo |-> {}, found |-> {}, required |-> {}, read |-> {},
   selected |-> {}, cap |-> 0]
At(t, place) == routing[t].pc = place

----------------------------------------------------------------------------
(* The graph. *)

Related(graph, s) == IF s \in DOMAIN graph THEN graph[s].related ELSE {}
Requires(graph, s) == IF s \in DOMAIN graph THEN graph[s].requires ELSE {}
InternalScore(s) == IF s \in DOMAIN skillNodes THEN skillNodes[s].internal ELSE 0

----------------------------------------------------------------------------
(* Selection. *)

Chosen(score) == {s \in DOMAIN score : score[s] >= MinScore}

\* min(1.0, max(0.25, score * 0.05))
Boost(points) ==
  IF points = Infinite THEN 4 ELSE Min({4, Max({1, points \div 20})})

\* Slip: a neighbour that scored nothing is lifted too, and enough.
SlipLiftUnrelated(score, source, targets) ==
  [s \in DOMAIN score |->
    IF s \in targets /\ score[s] < MinScore THEN score[s] + MinScore ELSE score[s]]

\* A related skill that scored something, but not enough, is lifted.
Lift(score, source, targets) ==
  [s \in DOMAIN score |->
    IF s \in targets /\ 0 < score[s] /\ score[s] < MinScore
    THEN score[s] + Boost(score[source]) ELSE score[s]]

\* By score, then by name.
Precedes(score, s, u) == score[s] > score[u] \/ (score[s] = score[u] /\ s < u)

Capped(score, chosen, cap) ==
  IF cap = 0 THEN chosen
  ELSE {s \in chosen : Cardinality({u \in chosen : Precedes(score, u, s)}) < cap}

----------------------------------------------------------------------------
(* One route.  sync_catalog first. *)

Begin(t, catalog) ==
  /\ At(t, "idle")
  /\ IF loaded /\ fingerprint = catalog
     THEN routing' = [routing EXCEPT ![t].pc = "score", ![t].catalog = catalog]
          /\ UNCHANGED graphVars
     ELSE /\ fingerprint' = catalog
          /\ routing' = [routing EXCEPT ![t].pc = "load", ![t].catalog = catalog]
          /\ UNCHANGED <<skillNodes, loaded>>
  /\ UNCHANGED installed

\* The provider reads the host's skills, or raises.
ReadDocuments(t) ==
  /\ At(t, "load")
  /\ \/ /\ routing' = [routing EXCEPT ![t].pc = "swap", ![t].documents = installed]
        /\ UNCHANGED graphVars
     \/ /\ loaded' = TRUE
        /\ routing' = [routing EXCEPT ![t].pc = "score"]
        /\ UNCHANGED <<skillNodes, fingerprint>>
  /\ UNCHANGED installed

SwapNodes(t) ==
  /\ At(t, "swap")
  /\ skillNodes' = routing[t].documents
  /\ routing' = [routing EXCEPT ![t].pc = "stamp", ![t].documents = Empty]
  /\ UNCHANGED <<fingerprint, loaded, installed>>

Stamp(t) ==
  /\ At(t, "stamp")
  /\ loaded' = TRUE
  /\ fingerprint' = routing[t].catalog
  /\ routing' = [routing EXCEPT ![t].pc = "score"]
  /\ UNCHANGED <<skillNodes, installed>>

\* Slip: a skill the graph knows is scored by its body alone.
SlipScoreOf(s) ==
  IF s \in AlwaysKeep THEN Infinite
  ELSE IF s \in DOMAIN skillNodes THEN InternalScore(s) ELSE Card[s]

\* The card and the body, whatever graph is loaded now.
ScoreOf(s) == IF s \in AlwaysKeep THEN Infinite ELSE Card[s] + InternalScore(s)

ScoreEntry(t) ==
  /\ At(t, "score")
  /\ LET left == routing[t].catalog \ DOMAIN routing[t].base IN
       IF left = {}
       THEN routing' = [routing EXCEPT ![t].pc = "relate", ![t].score = routing[t].base,
                                       ![t].todo = Chosen(routing[t].base)]
       ELSE LET s == Min(left)
                base == routing[t].base
            IN routing' = [routing EXCEPT ![t].base =
                 [u \in DOMAIN base \cup {s} |-> IF u = s THEN ScoreOf(s) ELSE base[u]]]
  /\ UNCHANGED <<installed, graphVars>>

\* Slip: the loop runs over the live scores, so a lifted skill lifts others.
SlipRelateNext(t) ==
  /\ At(t, "relate")
  /\ \E source \in routing[t].todo :
       LET score == routing[t].score
           lifted == Lift(score, source, Related(skillNodes, source))
       IN routing' = [routing EXCEPT ![t].score = lifted, ![t].read = @ \cup {skillNodes},
                        ![t].todo = (@ \ {source}) \cup (Chosen(lifted) \ Chosen(score))]
  /\ UNCHANGED <<installed, graphVars>>

\* The loop over the set of relevant skills, in the order of their hashes in this
\* process.  ("read": which graphs it has read; kept for the properties.)
RelateNext(t) ==
  /\ At(t, "relate")
  /\ \E source \in routing[t].todo :
       routing' = [routing EXCEPT ![t].todo = @ \ {source}, ![t].read = @ \cup {skillNodes},
                                  ![t].score = Lift(@, source, Related(skillNodes, source))]
  /\ UNCHANGED <<installed, graphVars>>

StartClosing(t) ==
  /\ At(t, "relate") /\ routing[t].todo = {}
  /\ LET chosen == Chosen(routing[t].score) IN
       routing' = [routing EXCEPT ![t].pc = "close", ![t].todo = chosen, ![t].required = chosen,
                                  ![t].read = {}]
  /\ UNCHANGED <<installed, graphVars>>

\* The queue of required_closure begins in the order of a set; any order here.
RequireNext(t) ==
  /\ At(t, "close") /\ routing[t].found = {}
  /\ \E source \in routing[t].todo :
       LET new == Requires(skillNodes, source) \ routing[t].required IN
         routing' = [routing EXCEPT ![t].todo = @ \ {source}, ![t].found = new,
                                    ![t].required = @ \cup new, ![t].read = @ \cup {skillNodes}]
  /\ UNCHANGED <<installed, graphVars>>

\* Of what was found, what the graph knows (by now) joins the queue.
QueueNext(t) ==
  /\ At(t, "close")
  /\ \E target \in routing[t].found :
       routing' = [routing EXCEPT ![t].found = @ \ {target}, ![t].read = @ \cup {skillNodes},
                                  ![t].todo = @ \cup ({target} \cap DOMAIN skillNodes)]
  /\ UNCHANGED <<installed, graphVars>>

Rank(t) ==
  /\ At(t, "close") /\ routing[t].todo \cup routing[t].found = {}
  /\ LET score == routing[t].score
         members == Chosen(score) \cup (routing[t].required \cap DOMAIN score)
     IN \E cap \in Caps :
          routing' = [routing EXCEPT ![t].pc = "chosen", ![t].cap = cap,
                                     ![t].selected = Capped(score, members, cap),
                                     ![t].score = Empty, ![t].required = {}]
  /\ UNCHANGED <<installed, graphVars>>

\* The candidate is accepted when it is smaller in characters and tokens, or
\* the request is sent as it came.
Decide(t) ==
  /\ At(t, "chosen")
  /\ routing' = [routing EXCEPT ![t] = NotRouting]
  /\ UNCHANGED <<installed, graphVars>>

----------------------------------------------------------------------------
(* The host. *)

Install(d) == d # installed /\ installed' = d /\ UNCHANGED <<graphVars, routing>>

\* set_document_provider clears the graph that threads are reading.
SetProvider ==
  /\ skillNodes' = Empty
  /\ fingerprint' = NoCatalog
  /\ loaded' = FALSE
  /\ UNCHANGED <<installed, routing>>

SkillInit ==
  /\ installed = Empty
  /\ skillNodes = Empty
  /\ fingerprint = NoCatalog
  /\ loaded = FALSE
  /\ routing = [t \in Thread |-> NotRouting]

Route(t) ==
  \/ \E catalog \in Catalogs : Begin(t, catalog)
  \/ ReadDocuments(t) \/ SwapNodes(t) \/ Stamp(t)
  \/ ScoreEntry(t) \/ RelateNext(t) \/ StartClosing(t)
  \/ RequireNext(t) \/ QueueNext(t) \/ Rank(t) \/ Decide(t)

SkillNext ==
  \/ \E t \in Thread : Route(t)
  \/ \E d \in Documents : Install(d)
  \/ SetProvider

SkillSpec == SkillInit /\ [][SkillNext]_skillVars

----------------------------------------------------------------------------
(* What the loops mean, whatever order they take. *)

\* The scores after the skills of a sequence have lifted what they relate to.
Lifted(score, graph, order) ==
  FoldLeft(LAMBDA sc, source : Lift(sc, source, Related(graph, source)), score, order)

\* The least set that holds the chosen skills and, of the skills anybody knows,
\* what one of some graphs requires for them.
AnySkill == Skill \cup UNION {DOMAIN d : d \in Documents}

RequiredClosure(graphs, chosen) ==
  LET Closed(T) == chosen \subseteq T
                   /\ \A s \in T, graph \in graphs : Requires(graph, s) \cap AnySkill \subseteq T
  IN {s \in AnySkill : \A T \in SUBSET AnySkill : Closed(T) => s \in T}

----------------------------------------------------------------------------
(* Properties. *)

Selection(t) == routing[t].selected

SkillTypeOK ==
  /\ installed \in Documents \cup {Empty} /\ skillNodes \in Documents \cup {Empty}
  /\ fingerprint \in Catalogs \cup {NoCatalog}
  /\ \A t \in Thread : At(t, "chosen") => Selection(t) \subseteq routing[t].catalog

\* However stale, half-replaced or empty the graph is while a request is
\* routed, it can add skills but not hide one: what the catalog card alone
\* makes relevant, and what the host always keeps, stays in the request, and
\* under a cap what is always kept comes before everything else.
MatchesStay ==
  \A t \in Thread : At(t, "chosen") =>
    LET catalog == routing[t].catalog  cap == routing[t].cap IN
    /\ cap = 0 => {s \in catalog : Card[s] >= MinScore} \subseteq Selection(t)
    /\ cap = 0 \/ Cardinality(AlwaysKeep \cap catalog) <= cap
         => AlwaysKeep \cap catalog \subseteq Selection(t)

\* A skill that scored nothing, neither by its card nor by its body, is sent only
\* when procedures that are sent require it, directly or not, by the edges of the
\* graphs that this request read meanwhile; being related to a relevant skill lifts
\* none of these.
UnrelatedStayOut ==
  \A t \in Thread : At(t, "chosen") =>
    \A s \in Selection(t) :
      routing[t].base[s] = 0 => s \in RequiredClosure(routing[t].read, Selection(t) \ {s})

\* Neither the order of the hashes, in which the loops over the relevant and the
\* required skills go, nor another thread matters as long as the graph that a loop
\* reads is the same: any order of the relevant skills lifts the same ones, and
\* what is required is exactly what they require, directly or not.
MembersAreOrderFree ==
  \A t \in Thread, graph \in Documents \cup {Empty} :
    routing[t].todo \cup routing[t].found = {} /\ routing[t].read \subseteq {graph} =>
      LET base == routing[t].base  chosen == Chosen(routing[t].score) IN
      /\ At(t, "relate") =>
           \A order \in SetToSeqs(Chosen(base)) : Chosen(Lifted(base, graph, order)) = chosen
      /\ At(t, "close") =>
           \A s \in AnySkill : s \in routing[t].required <=> s \in RequiredClosure({graph}, chosen)
============================================================================
