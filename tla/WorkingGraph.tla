---------------------------- MODULE WorkingGraph ----------------------------
(***************************************************************************)
(* WorkingStateGraph (graph.py): batches of operations are validated       *)
(* against an in-memory copy of the graph, logged as events, and written   *)
(* to the node and edge tables from the snapshots that validation took;    *)
(* replay() imports a list of events in one transaction.                   *)
(*                                                                         *)
(* Several databases exchange their events.  A transaction holds the write *)
(* lock of its database (BEGIN IMMEDIATE), so one transaction at a time is *)
(* modelled, step by step; those of other databases do not meet it.        *)
(* What an operation writes is named by its event, except that an edge      *)
(* keeps its endpoints, which an update may give both, one or none of.      *)
(* Event identifiers are given as they are stored, without blanks around.   *)
(***************************************************************************)
EXTENDS Integers, FiniteSets, Sequences, SequencesExt

CONSTANTS
  Store,       \* databases
  Node, Edge, EventId,
  Session,
  MaxBatch, MaxNodes, MaxEdges, MaxEvents,   \* MAX_BATCH_OPERATIONS, ...
  MaxOwn,      \* bound: store -> events it takes in by apply()
  NoEvent

ASSUME LimitsAreNaturals ==
  /\ {MaxBatch, MaxNodes, MaxEdges, MaxEvents} \subseteq Nat
  /\ MaxOwn \in [Store -> Nat]
ASSUME NoEventIsNothing == NoEvent \notin EventId \cup Node

VARIABLES
  log,     \* store -> graph_events in order of seq
  nodes,   \* store -> graph_nodes
  edges,   \* store -> graph_edges
  tx,      \* the running transaction
  own      \* store -> events taken in by apply()

vars == <<log, nodes, edges, tx, own>>

Status == {"absent", "active", "retired"}
NodeRow == [status : Status, by : EventId \cup {NoEvent}]
Endpoint == {"source", "target"}
Ends == UNION {[given -> Node] : given \in SUBSET Endpoint}
NoNode == [status |-> "absent", by |-> NoEvent]
NoEdge == [status |-> "absent", by |-> NoEvent, ends |-> [p \in {} |-> NoEvent]]
EdgeRow == {NoEdge} \cup
           [status : {"active", "retired"}, by : EventId, ends : [Endpoint -> Node]]

\* Operations after the type and field checks.
Operation ==
  [op : {"NODE_CREATE", "NODE_UPDATE", "NODE_RETIRE"}, id : EventId, of : Node]
  \cup [op : {"EDGE_CREATE"}, id : EventId, of : Edge, ends : [Endpoint -> Node]]
  \cup [op : {"EDGE_UPDATE"}, id : EventId, of : Edge, ends : Ends]
  \cup [op : {"EDGE_RETIRE"}, id : EventId, of : Edge]

\* A row of graph_events.
Event(o, who) == [o |-> o, session |-> who]

Idle == [pc |-> "idle"]
Running(phase) == tx.pc = phase
Tables == UNCHANGED <<log, nodes, edges, own>>

\* A transaction: the tables as it has written them, the copy it validates
\* against, the snapshots it has to write, the events it was given to import and
\* those it has not reached.
Transaction(s, who, kind, events) ==
  [pc |-> IF kind = "apply" THEN "validate" ELSE "import", store |-> s, session |-> who,
   kind |-> kind, snaps |-> <<>>, events |-> events, given |-> events,
   log |-> log[s], nodes |-> nodes[s], edges |-> edges[s],
   viewNodes |-> nodes[s], viewEdges |-> edges[s]]

----------------------------------------------------------------------------
(* apply and replay begin. *)

BeginApply(s, who) ==
  /\ Running("idle")
  /\ own[s] < MaxOwn[s]
  /\ tx' = Transaction(s, who, "apply", <<>>)
  /\ Tables

\* The events of a database as it is or was: the log only grows.
BeginReplay(s, from, n) ==
  /\ Running("idle")
  /\ tx' = Transaction(s, "none", "replay", SubSeq(log[from], 1, n))
  /\ Tables

\* Slip: the event identifier alone decides what has been imported already.
SlipKnownById(event) == \E k \in DOMAIN tx.log : tx.log[k].o.id = event.o.id

\* Slip: the session the event came with is not the one compared.
SlipKnownInThisSession(event) ==
  \E k \in DOMAIN tx.log : tx.log[k] = [event EXCEPT !.session = tx.session]

Known(event) == \E k \in DOMAIN tx.log : tx.log[k] = event
Taken(id) == \E k \in DOMAIN tx.log : tx.log[k].o.id = id

Full(n) == n >= MaxEvents

Importing == Running("import") /\ tx.events # <<>>

SkipEvent ==
  /\ Importing
  /\ Known(Head(tx.events))
  /\ tx' = [tx EXCEPT !.events = Tail(tx.events)]
  /\ Tables

\* A call of apply for one event, in the transaction of replay.
Import(event) ==
  tx' = [tx EXCEPT !.pc = "validate", !.session = event.session,
                   !.viewNodes = tx.nodes, !.viewEdges = tx.edges]

ImportEvent ==
  /\ Importing
  /\ ~Taken(Head(tx.events).o.id)
  /\ ~Full(Len(tx.log))
  /\ Import(Head(tx.events))
  /\ Tables

----------------------------------------------------------------------------
(* _normalize_and_simulate: what one operation o does to a table ns of nodes *)
(* and a table es of edges.                                                  *)

Present(rows) == {k \in DOMAIN rows : rows[k].status # "absent"}
Active(rows, k) == rows[k].status = "active"
Touches(row, n) == row.status = "active" /\ \E p \in Endpoint : row.ends[p] = n

RetireEdges(es, n) ==
  [e \in DOMAIN es |-> IF Touches(es[e], n) THEN [es[e] EXCEPT !.status = "retired"] ELSE es[e]]

NodeValid(ns, o) ==
  IF o.op = "NODE_CREATE"
  THEN ns[o.of].status = "absent" /\ Cardinality(Present(ns)) < MaxNodes
  ELSE Active(ns, o.of)

NodeAfter(ns, o) ==
  IF o.op = "NODE_RETIRE" THEN [ns[o.of] EXCEPT !.status = "retired"]
                          ELSE [status |-> "active", by |-> o.id]

\* The endpoints an operation leaves an edge with.
EndsAfter(es, o) ==
  [p \in Endpoint |-> IF p \in DOMAIN o.ends THEN o.ends[p] ELSE es[o.of].ends[p]]

BothEndsActive(ns, es, o) == \A p \in Endpoint : Active(ns, EndsAfter(es, o)[p])

\* Slip: an update trusts the endpoints it is given.
SlipEdgeValidMoves(ns, es, o) ==
  /\ IF o.op = "EDGE_CREATE"
     THEN es[o.of].status = "absent" /\ Cardinality(Present(es)) < MaxEdges
     ELSE Active(es, o.of)
  /\ o.op = "EDGE_CREATE" => BothEndsActive(ns, es, o)

EdgeValid(ns, es, o) ==
  /\ IF o.op = "EDGE_CREATE"
     THEN es[o.of].status = "absent" /\ Cardinality(Present(es)) < MaxEdges
     ELSE Active(es, o.of)
  /\ o.op # "EDGE_RETIRE" => BothEndsActive(ns, es, o)

\* Slip: an update replaces both endpoints by those it was given.
SlipEdgeAfterForgets(es, o) ==
  IF o.op = "EDGE_RETIRE" THEN [es[o.of] EXCEPT !.status = "retired"]
                          ELSE [status |-> "active", by |-> o.id, ends |-> o.ends]

EdgeAfter(es, o) ==
  IF o.op = "EDGE_RETIRE" THEN [es[o.of] EXCEPT !.status = "retired"]
                          ELSE [status |-> "active", by |-> o.id, ends |-> EndsAfter(es, o)]

IsNode(o) == o.op \in {"NODE_CREATE", "NODE_UPDATE", "NODE_RETIRE"}

Valid(ns, es, o) == IF IsNode(o) THEN NodeValid(ns, o) ELSE EdgeValid(ns, es, o)

----------------------------------------------------------------------------
(* The batch, one operation at a time, on the copy. *)

\* The operations that may come next: the batch of apply is revealed as it is
\* validated, the batch of an import is its event.
Offered ==
  IF tx.kind = "replay"
  THEN IF tx.snaps = <<>> THEN {Head(tx.events).o} ELSE {}
  ELSE IF Len(tx.snaps) < MaxBatch /\ ~Full(Len(tx.log) + Len(tx.snaps))
            /\ own[tx.store] + Len(tx.snaps) < MaxOwn[tx.store]
       THEN Operation ELSE {}

Snapshot(o, row) == Append(tx.snaps, [o |-> o, row |-> row])

ValidateNode ==
  /\ Running("validate")
  /\ \E o \in Offered :
       /\ IsNode(o) /\ Valid(tx.viewNodes, tx.viewEdges, o)
       /\ LET row == NodeAfter(tx.viewNodes, o) IN
          tx' = [tx EXCEPT !.snaps = Snapshot(o, row),
                           !.viewNodes = [tx.viewNodes EXCEPT ![o.of] = row],
                           !.viewEdges = IF o.op = "NODE_RETIRE"
                                         THEN RetireEdges(tx.viewEdges, o.of) ELSE tx.viewEdges]
  /\ Tables

ValidateEdge ==
  /\ Running("validate")
  /\ \E o \in Offered :
       /\ ~IsNode(o) /\ Valid(tx.viewNodes, tx.viewEdges, o)
       /\ LET row == EdgeAfter(tx.viewEdges, o) IN
          tx' = [tx EXCEPT !.snaps = Snapshot(o, row),
                           !.viewEdges = [tx.viewEdges EXCEPT ![o.of] = row]]
  /\ Tables

----------------------------------------------------------------------------
(* The snapshots are logged and written, in their order. *)

BeginWriting ==
  /\ Running("validate") /\ tx.snaps # <<>>
  /\ tx' = [tx EXCEPT !.pc = "write"]
  /\ Tables

Logged(o) == Append(tx.log, Event(o, tx.session))

\* Slip: the cascade is left to the in-memory copy.
SlipWriteNodeOnly(snap) ==
  tx' = [tx EXCEPT !.snaps = Tail(tx.snaps), !.log = Logged(snap.o),
                   !.nodes = [tx.nodes EXCEPT ![snap.o.of] = snap.row]]

WriteNode(snap) ==
  tx' = [tx EXCEPT !.snaps = Tail(tx.snaps), !.log = Logged(snap.o),
                   !.nodes = [tx.nodes EXCEPT ![snap.o.of] = snap.row],
                   !.edges = IF snap.o.op = "NODE_RETIRE"
                             THEN RetireEdges(tx.edges, snap.o.of) ELSE tx.edges]

WriteEdge(snap) ==
  tx' = [tx EXCEPT !.snaps = Tail(tx.snaps), !.log = Logged(snap.o),
                   !.edges = [tx.edges EXCEPT ![snap.o.of] = snap.row]]

Write ==
  /\ Running("write")
  /\ tx.snaps # <<>>
  /\ ~Taken(Head(tx.snaps).o.id)
  /\ IF IsNode(Head(tx.snaps).o) THEN WriteNode(Head(tx.snaps)) ELSE WriteEdge(Head(tx.snaps))
  /\ Tables

\* replay() goes on with its next event.
NextEvent ==
  /\ Running("write") /\ tx.snaps = <<>>
  /\ tx.kind = "replay"
  /\ tx' = [tx EXCEPT !.pc = "import", !.events = Tail(tx.events)]
  /\ Tables

Commit ==
  /\ \/ Running("write") /\ tx.snaps = <<>> /\ tx.kind = "apply"
     \/ Running("import") /\ tx.events = <<>>
  /\ log' = [log EXCEPT ![tx.store] = tx.log]
  /\ nodes' = [nodes EXCEPT ![tx.store] = tx.nodes]
  /\ edges' = [edges EXCEPT ![tx.store] = tx.edges]
  /\ own' = IF tx.kind = "apply"
            THEN [own EXCEPT ![tx.store] = @ + Len(tx.log) - Len(log[tx.store])] ELSE own
  /\ tx' = Idle

----------------------------------------------------------------------------
(* Anything invalid raises and rolls the whole transaction back. *)

Refuse ==
  /\ \/ /\ Running("validate")
        /\ \E o \in Offered : ~Valid(tx.viewNodes, tx.viewEdges, o)
     \/ Running("write") /\ tx.snaps # <<>> /\ Taken(Head(tx.snaps).o.id)
     \/ /\ Importing /\ ~Known(Head(tx.events))
        /\ Taken(Head(tx.events).o.id) \/ Full(Len(tx.log))
  /\ tx' = [tx EXCEPT !.pc = "refused"]
  /\ Tables

\* The exception reaches the caller, or the process dies.
RollBack ==
  /\ ~Running("idle")
  /\ tx' = Idle
  /\ Tables

----------------------------------------------------------------------------
Init ==
  /\ log = [s \in Store |-> <<>>]
  /\ nodes = [s \in Store |-> [n \in Node |-> NoNode]]
  /\ edges = [s \in Store |-> [e \in Edge |-> NoEdge]]
  /\ tx = Idle
  /\ own = [s \in Store |-> 0]

Apply == \E s \in Store, who \in Session : BeginApply(s, who)
Replay == \E s, from \in Store : \E n \in 1..Len(log[from]) : BeginReplay(s, from, n)

Next ==
  \/ Apply \/ Replay
  \/ SkipEvent \/ ImportEvent
  \/ ValidateNode \/ ValidateEdge
  \/ BeginWriting \/ Write \/ NextEvent
  \/ Commit \/ Refuse \/ RollBack

Spec == Init /\ [][Next]_vars

----------------------------------------------------------------------------
(* What a log means, said without running it. *)

Writers(l, ops, x) == {k \in DOMAIN l : l[k].o.op \in ops /\ l[k].o.of = x}

NodeFrom(l, n) ==
  LET writes == Writers(l, {"NODE_CREATE", "NODE_UPDATE"}, n)
      retired == Writers(l, {"NODE_RETIRE"}, n) # {}
  IN IF writes = {} THEN NoNode
     ELSE [status |-> IF retired THEN "retired" ELSE "active", by |-> l[Max(writes)].o.id]

\* The endpoint p of e after the first k events: what was last given for it.
EndAt(l, e, p, k) ==
  LET given == {j \in Writers(l, {"EDGE_CREATE", "EDGE_UPDATE"}, e) : j <= k /\ p \in DOMAIN l[j].o.ends}
  IN IF given = {} THEN NoEvent ELSE l[Max(given)].o.ends[p]

\* An edge retires with its own operation or with a node it touches at the time.
EdgeFrom(l, e) ==
  LET writes == Writers(l, {"EDGE_CREATE", "EDGE_UPDATE"}, e)
      retired == \/ Writers(l, {"EDGE_RETIRE"}, e) # {}
                 \/ \E k \in DOMAIN l, p \in Endpoint :
                      l[k].o.op = "NODE_RETIRE" /\ l[k].o.of = EndAt(l, e, p, k)
  IN IF writes = {} THEN NoEdge
     ELSE [status |-> IF retired THEN "retired" ELSE "active", by |-> l[Max(writes)].o.id,
           ends |-> [p \in Endpoint |-> EndAt(l, e, p, Len(l))]]

----------------------------------------------------------------------------
(* Properties. *)

GraphTypeOK ==
  /\ \A s \in Store : /\ nodes[s] \in [Node -> NodeRow]
                      /\ edges[s] \in [Edge -> EdgeRow]
                      /\ own[s] <= Len(log[s]) /\ Len(log[s]) <= MaxEvents
  /\ ~Running("idle") =>
       /\ tx.nodes \in [Node -> NodeRow] /\ tx.viewNodes \in [Node -> NodeRow]
       /\ tx.edges \in [Edge -> EdgeRow] /\ tx.viewEdges \in [Edge -> EdgeRow]

\* An active edge joins active nodes, whatever a batch or an import did to both
\* in one transaction.
NoDanglingEdges ==
  \A s \in Store : \A e \in Edge : edges[s][e].status = "active" =>
    \A p \in Endpoint : nodes[s][edges[s][e].ends[p]].status = "active"

\* The tables are what the log means, although they are written from snapshots
\* of another copy of the graph and the cascade of a retirement is coded twice.
LogIsState ==
  \A s \in Store : /\ \A n \in Node : nodes[s][n] = NodeFrom(log[s], n)
                   /\ \A e \in Edge : edges[s][e] = EdgeFrom(log[s], e)

\* Two logs of which one continues the other can be replayed either way.
ComparableReplayAccepted ==
  Running("refused") /\ tx.kind = "replay" =>
    ~IsPrefix(log[tx.store], tx.given) /\ ~IsPrefix(tx.given, log[tx.store])

\* A replay that commits has imported all it was given: a different event under a
\* known identifier is not passed over.  In a database that held a beginning of the
\* log it reproduces the log, sessions and order included.
ReplayKeepsEvents ==
  [][Commit /\ tx.kind = "replay" =>
       /\ ToSet(tx.given) \subseteq ToSet(log'[tx.store])
       /\ IsPrefix(log[tx.store], tx.given) => log'[tx.store] = tx.given]_vars
============================================================================
