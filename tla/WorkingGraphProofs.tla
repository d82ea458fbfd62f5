------------------------ MODULE WorkingGraphProofs -------------------------
(***************************************************************************)
(* Proofs about the two graphs of the program: WorkingGraph, for any number *)
(* of databases, nodes, edges and events, and after it SkillRouting, for    *)
(* any number of threads, catalogs and documents.                           *)
(*                                                                         *)
(* A log is lawful when each of its events is valid on the tables that the *)
(* events before it make.  Appending an event to a log changes the tables  *)
(* it means in the way the operation changes the tables (ConsistentAppended*)
(* and the lemmas before it), so tables written from a lawful log stay     *)
(* what the log means.                                                     *)
(*                                                                         *)
(* A batch is validated on a copy and written from the snapshots validation*)
(* took.  Between the two there is a path of tables (Path): it begins with *)
(* the tables as written so far and ends with the copy, and every snapshot *)
(* is what its operation makes of the tables before it.  Validation makes  *)
(* the path longer at its end, writing makes it shorter at its beginning.  *)
(*                                                                         *)
(* A replay is followed by the number of events it has reached.  While its *)
(* database continues a beginning of the events it was given, its log is   *)
(* a beginning of them too; an event it imports is then valid because it   *)
(* was valid where it was first logged, on the same tables.                *)
(*                                                                         *)
(* A route reads the graph of the skills many times and may find another    *)
(* one each time.  Whatever it finds, lifting keeps what the properties ask  *)
(* of the scores (Kept), and the queue holds only what is required in some  *)
(* graph that was read (Closing).  While a loop has found one graph only,   *)
(* more is known: the score of a skill is its first score and what the      *)
(* skills visited so far push it by (Visited), a sum that does not depend   *)
(* on their order, and what has left the queue requires nothing that is not *)
(* in it or has been.                                                       *)
(***************************************************************************)
EXTENDS MCGraphs, FiniteSetTheorems, WellFoundedInduction, SequenceTheorems, TLAPS

----------------------------------------------------------------------------
(* A log and the tables that go with it.                                    *)

EventRow == [o : Operation, session : Session]
NodeTable == [Node -> NodeRow]
EdgeTable == [Edge -> EdgeRow]

\* What an operation makes of the tables.
NodesAfter(ns, o) == IF IsNode(o) THEN [ns EXCEPT ![o.of] = NodeAfter(ns, o)] ELSE ns

EdgesAfter(es, o) ==
  IF o.op = "NODE_RETIRE" THEN RetireEdges(es, o.of)
  ELSE IF IsNode(o) THEN es ELSE [es EXCEPT ![o.of] = EdgeAfter(es, o)]

RowAfter(ns, es, o) == IF IsNode(o) THEN NodeAfter(ns, o) ELSE EdgeAfter(es, o)

NodesOf(l) == [n \in Node |-> NodeFrom(l, n)]
EdgesOf(l) == [e \in Edge |-> EdgeFrom(l, e)]

Joined(ns, es) ==
  \A e \in Edge : es[e].status = "active" => \A p \in Endpoint : Active(ns, es[e].ends[p])

\* Nothing has been done to what is absent.
Recorded(l, ns, es) ==
  \A k \in DOMAIN l : IF IsNode(l[k].o) THEN ns[l[k].o.of].status # "absent"
                                        ELSE es[l[k].o.of].status # "absent"

Distinct(l) == \A j, k \in DOMAIN l : l[j].o.id = l[k].o.id => j = k

\* Every event was a valid operation on what the events before it make.
Lawful(l) ==
  \A k \in DOMAIN l : Valid(NodesOf(SubSeq(l, 1, k - 1)), EdgesOf(SubSeq(l, 1, k - 1)), l[k].o)

Log(l) == l \in Seq(EventRow) /\ Len(l) <= MaxEvents /\ Distinct(l) /\ Lawful(l)

Consistent(l, ns, es) ==
  /\ Log(l)
  /\ ns \in NodeTable /\ es \in EdgeTable
  /\ ns = NodesOf(l) /\ es = EdgesOf(l)
  /\ Joined(ns, es) /\ Recorded(l, ns, es)

----------------------------------------------------------------------------
(* A transaction. *)

Snap == [o : Operation, row : NodeRow \cup EdgeRow]

TxRecord ==
  [pc : {"import", "validate", "write", "refused"}, store : Store, session : Session \cup {"none"},
   kind : {"apply", "replay"}, snaps : Seq(Snap), events : Seq(EventRow), given : Seq(EventRow),
   log : Seq(EventRow), nodes : NodeTable, edges : EdgeTable,
   viewNodes : NodeTable, viewEdges : EdgeTable]

\* The tables the batch goes through, from those written to those it was validated on.
Graph == [nodes : NodeTable, edges : EdgeTable]

Path(t, path) ==
  /\ DOMAIN path = 1..(Len(t.snaps) + 1)
  /\ \A k \in DOMAIN path : path[k] \in Graph
  /\ path[1].nodes = t.nodes /\ path[1].edges = t.edges
  /\ path[Len(t.snaps) + 1].nodes = t.viewNodes
  /\ path[Len(t.snaps) + 1].edges = t.viewEdges
  /\ \A k \in 1..Len(t.snaps) :
       /\ Valid(path[k].nodes, path[k].edges, t.snaps[k].o)
       /\ t.snaps[k].row = RowAfter(path[k].nodes, path[k].edges, t.snaps[k].o)
       /\ path[k + 1].nodes = NodesAfter(path[k].nodes, t.snaps[k].o)
       /\ path[k + 1].edges = EdgesAfter(path[k].edges, t.snaps[k].o)

Batch(t) == t.pc \in {"validate", "write"} => \E path : Path(t, path)

Begun(t) ==
  /\ t \in TxRecord
  /\ Consistent(t.log, t.nodes, t.edges)
  /\ Len(log[t.store]) <= Len(t.log) /\ Len(t.log) + Len(t.snaps) <= MaxEvents
  /\ t.pc = "import" => t.kind = "replay" /\ t.snaps = <<>>
  /\ t.pc \in {"validate", "write"} => t.session \in Session

----------------------------------------------------------------------------
(* A replay. *)

Reached(t) == Len(t.given) - Len(t.events)
InLog(t, event) == \E k \in DOMAIN t.log : t.log[k] = event
IdTaken(t, event) == \E k \in DOMAIN t.log : t.log[k].o.id = event.o.id
Next1(t) == t.given[Reached(t) + 1]

Imports(t) ==
  /\ Log(t.given) /\ Reached(t) \in 0..Len(t.given)
  /\ \A k \in 1..Len(t.events) : t.events[k] = t.given[Reached(t) + k]
  /\ \A j \in 1..Reached(t) : InLog(t, t.given[j])
  /\ t.pc \in {"validate", "write"} =>
       /\ t.events # <<>> /\ t.session = Next1(t).session
       /\ Len(t.snaps) <= 1
       /\ t.pc = "validate" => Len(t.log) < MaxEvents
       /\ t.snaps # <<>> => t.snaps[1].o = Next1(t).o
       /\ t.pc = "validate" \/ t.snaps # <<>> => ~IdTaken(t, Next1(t))
       /\ t.pc = "write" /\ t.snaps = <<>> => InLog(t, Next1(t))

\* How far a log that begins like the events it is given has got.
Continues(t) ==
  IsPrefix(log[t.store], t.given) =>
    /\ t.pc # "refused"
    /\ t.log = SubSeq(t.given, 1, IF t.pc = "write" /\ t.snaps = <<>> THEN Reached(t) + 1
                                  ELSE IF Len(log[t.store]) <= Reached(t) THEN Reached(t)
                                  ELSE Len(log[t.store]))
    /\ t.pc \in {"validate", "write"} => Len(log[t.store]) <= Reached(t)

Repeats(t) ==
  IsPrefix(t.given, log[t.store]) => t.pc = "import" /\ t.log = log[t.store]

Replays(t) == t.kind = "replay" => Imports(t) /\ Continues(t) /\ Repeats(t)

Good(t) == Begun(t) /\ Batch(t) /\ Replays(t)

----------------------------------------------------------------------------
GraphInv ==
  /\ log \in [Store -> Seq(EventRow)] /\ own \in [Store -> Nat]
  /\ nodes \in [Store -> NodeTable] /\ edges \in [Store -> EdgeTable]
  /\ \A s \in Store : Consistent(log[s], nodes[s], edges[s]) /\ own[s] <= Len(log[s])
  /\ tx = Idle \/ Good(tx)

----------------------------------------------------------------------------
(* Positions. *)

\* A set of positions has a first and a last one.
LEMMA LeastExists ==
  ASSUME NEW S \in SUBSET Nat, S # {}
  PROVE  Min(S) \in S /\ \A y \in S : Min(S) <= y
<1>1. PICK x \in S : \A y \in S : ~(<<y, x>> \in OpToRel(<, Nat))
  BY WFMin, NatLessThanWellFounded
<1>0. OpToRel(<, Nat) = {ss \in Nat \X Nat : ss[1] < ss[2]}
  BY DEF OpToRel
<1>2. \A y \in S : x <= y
  <2> SUFFICES ASSUME NEW y \in S, ~(x <= y) PROVE FALSE
    OBVIOUS
  <2>1. <<y, x>> \in Nat \X Nat /\ y < x
    OBVIOUS
  <2> QED
    BY <1>0, <1>1, <2>1
<1> QED
  BY <1>1, <1>2 DEF Min

LEMMA GreatestExists ==
  ASSUME NEW n \in Nat, NEW S \in SUBSET (1..n), S # {}
  PROVE  Max(S) \in S /\ \A y \in S : y <= Max(S)
<1> DEFINE T == {n - y : y \in S}
<1>1. T \in SUBSET Nat /\ T # {}
  <2>1. \A y \in 1..n : n - y \in Nat
    OBVIOUS
  <2> QED
    BY <2>1
<1>2. PICK m \in T : \A t \in T : m <= t
  BY <1>1, LeastExists
<1>3. PICK x \in S : m = n - x
  BY <1>2
<1>4. \A y \in S : y <= x
  <2> SUFFICES ASSUME NEW y \in S PROVE y <= x
    OBVIOUS
  <2>1. m <= n - y
    BY <1>2
  <2> QED
    BY <1>3, <2>1
<1> QED
  BY <1>3, <1>4 DEF Max

----------------------------------------------------------------------------
(* Operations. *)

LEMMA OperationParts ==
  ASSUME NEW o \in Operation
  PROVE  /\ o.op \in {"NODE_CREATE", "NODE_UPDATE", "NODE_RETIRE",
                      "EDGE_CREATE", "EDGE_UPDATE", "EDGE_RETIRE"}
         /\ o.id \in EventId
         /\ IsNode(o) => o.of \in Node
         /\ ~IsNode(o) => o.of \in Edge
         /\ o.op \in {"EDGE_CREATE", "EDGE_UPDATE"} =>
              DOMAIN o.ends \subseteq Endpoint /\ \A p \in DOMAIN o.ends : o.ends[p] \in Node
         /\ o.op = "EDGE_CREATE" => o.ends \in [Endpoint -> Node]
<1>1. CASE o \in [op : {"NODE_CREATE", "NODE_UPDATE", "NODE_RETIRE"}, id : EventId, of : Node]
  BY <1>1 DEF IsNode
<1>2. CASE o \in [op : {"EDGE_CREATE"}, id : EventId, of : Edge, ends : [Endpoint -> Node]]
  BY <1>2 DEF IsNode
<1>3. CASE o \in [op : {"EDGE_UPDATE"}, id : EventId, of : Edge, ends : Ends]
  <2>1. o.ends \in Ends /\ o.op = "EDGE_UPDATE" /\ o.id \in EventId /\ o.of \in Edge
    BY <1>3
  <2>2. PICK given \in SUBSET Endpoint : o.ends \in [given -> Node]
    BY <2>1 DEF Ends
  <2>3. DOMAIN o.ends \subseteq Endpoint /\ \A p \in DOMAIN o.ends : o.ends[p] \in Node
    BY <2>2
  <2> QED BY <2>1, <2>3 DEF IsNode
<1>4. CASE o \in [op : {"EDGE_RETIRE"}, id : EventId, of : Edge]
  BY <1>4 DEF IsNode
<1> QED
  BY <1>1, <1>2, <1>3, <1>4 DEF Operation

LEMMA NodeRowParts ==
  ASSUME NEW row \in NodeRow
  PROVE  /\ row.status \in Status /\ row.by \in EventId \cup {NoEvent}
         /\ row = [status |-> row.status, by |-> row.by]
         /\ \A status : [row EXCEPT !.status = status] = [status |-> status, by |-> row.by]
BY DEF NodeRow

LEMMA EdgeRowParts ==
  ASSUME NEW row \in EdgeRow
  PROVE  /\ row.status \in Status
         /\ row.status = "absent" => row = NoEdge
         /\ row.status # "absent" =>
              /\ row \in [status : {"active", "retired"}, by : EventId, ends : [Endpoint -> Node]]
              /\ row.by \in EventId /\ row.ends \in [Endpoint -> Node]
              /\ row = [status |-> row.status, by |-> row.by, ends |-> row.ends]
              /\ \A status : [row EXCEPT !.status = status] =
                               [status |-> status, by |-> row.by, ends |-> row.ends]
BY DEF EdgeRow, NoEdge, Status

\* A valid operation leaves well-formed tables.
LEMMA AfterKeepsTables ==
  ASSUME NEW ns \in NodeTable, NEW es \in EdgeTable, NEW o \in Operation, Valid(ns, es, o)
  PROVE  NodesAfter(ns, o) \in NodeTable /\ EdgesAfter(es, o) \in EdgeTable
<1>1. NodesAfter(ns, o) \in NodeTable
  <2>1. IsNode(o) => NodeAfter(ns, o) \in NodeRow
    BY OperationParts DEF NodeAfter, NodeTable, NodeRow, Status
  <2> QED BY <2>1, OperationParts DEF NodesAfter, NodeTable
<1>2. ASSUME NEW e \in Edge
      PROVE  [es[e] EXCEPT !.status = "retired"] \in EdgeRow \/ es[e].status = "absent"
  BY EdgeRowParts DEF EdgeTable, EdgeRow
<1>3. ASSUME NEW n PROVE RetireEdges(es, n) \in EdgeTable
  BY <1>2 DEF RetireEdges, Touches, EdgeTable
<1>4. ASSUME ~IsNode(o) PROVE EdgeAfter(es, o) \in EdgeRow
  <2>1. CASE o.op = "EDGE_RETIRE"
    <3>1. es[o.of].status = "active" /\ o.of \in Edge
      BY <1>4, <2>1, OperationParts DEF Valid, EdgeValid, Active
    <3> QED BY <1>2, <2>1, <3>1 DEF EdgeAfter
  <2>2. CASE o.op # "EDGE_RETIRE"
    <3>1. o.of \in Edge /\ o.op \in {"EDGE_CREATE", "EDGE_UPDATE"} /\ o.id \in EventId
      BY <1>4, <2>2, OperationParts DEF IsNode
    <3>2. ASSUME NEW p \in Endpoint
          PROVE  (IF p \in DOMAIN o.ends THEN o.ends[p] ELSE es[o.of].ends[p]) \in Node
      <4>1. CASE o.op = "EDGE_CREATE"
        BY <4>1, OperationParts
      <4>2. CASE o.op = "EDGE_UPDATE"
        <5>1. es[o.of].status = "active" /\ es[o.of] \in EdgeRow
          BY <1>4, <3>1, <4>2 DEF Valid, EdgeValid, Active, EdgeTable
        <5>2. es[o.of].ends \in [Endpoint -> Node]
          BY <5>1, EdgeRowParts
        <5> QED BY <4>2, <5>2, OperationParts
      <4> QED BY <3>1, <4>1, <4>2
    <3>3. EndsAfter(es, o) \in [Endpoint -> Node]
      BY <3>2 DEF EndsAfter
    <3> QED BY <2>2, <3>1, <3>3 DEF EdgeAfter, EdgeRow
  <2> QED BY <2>1, <2>2
<1>5. EdgesAfter(es, o) \in EdgeTable
  BY <1>3, <1>4, OperationParts DEF EdgesAfter, EdgeTable, IsNode
<1> QED
  BY <1>1, <1>5

----------------------------------------------------------------------------
(* A log with one more event. *)

LEMMA Appended ==
  ASSUME NEW l \in Seq(EventRow), NEW ev \in EventRow
  PROVE  /\ Append(l, ev) \in Seq(EventRow) /\ Len(Append(l, ev)) = Len(l) + 1
         /\ DOMAIN Append(l, ev) = 1..(Len(l) + 1) /\ DOMAIN l = 1..Len(l)
         /\ \A k \in 1..Len(l) : Append(l, ev)[k] = l[k]
         /\ Append(l, ev)[Len(l) + 1] = ev
         /\ Len(l) \in Nat
OBVIOUS

LEMMA EventsInLog ==
  ASSUME NEW l \in Seq(EventRow)
  PROVE  /\ DOMAIN l = 1..Len(l)
         /\ \A k \in DOMAIN l : l[k] \in EventRow /\ l[k].o \in Operation /\ l[k].session \in Session
<1>1. DOMAIN l = 1..Len(l)
  OBVIOUS
<1>2. \A k \in DOMAIN l : l[k] \in EventRow
  BY <1>1, ElementOfSeq
<1> QED
  BY <1>1, <1>2 DEF EventRow

LEMMA BeginningsAppended ==
  ASSUME NEW l \in Seq(EventRow), NEW ev \in EventRow, NEW k \in 1..(Len(l) + 1)
  PROVE  SubSeq(Append(l, ev), 1, k - 1) = SubSeq(l, 1, k - 1)
OBVIOUS

LEMMA WritersAppended ==
  ASSUME NEW l \in Seq(EventRow), NEW ev \in EventRow, NEW ops, NEW x
  PROVE  /\ Writers(Append(l, ev), ops, x) =
              Writers(l, ops, x) \cup (IF ev.o.op \in ops /\ ev.o.of = x THEN {Len(l) + 1} ELSE {})
         /\ Writers(l, ops, x) \subseteq 1..Len(l)
<1> DEFINE m == Append(l, ev)
<1>1. /\ DOMAIN m = 1..(Len(l) + 1) /\ DOMAIN l = 1..Len(l) /\ Len(l) \in Nat
      /\ \A k \in 1..Len(l) : m[k] = l[k]
      /\ m[Len(l) + 1] = ev
  BY Appended
<1> HIDE DEF m
<1>2. Writers(l, ops, x) \subseteq 1..Len(l)
  BY <1>1 DEF Writers
<1>3. Writers(m, ops, x) =
        Writers(l, ops, x) \cup (IF ev.o.op \in ops /\ ev.o.of = x THEN {Len(l) + 1} ELSE {})
  BY <1>1 DEF Writers
<1> QED
  BY <1>2, <1>3 DEF m

\* The last of some writers, of which the new event may be one.
LEMMA LastAppended ==
  ASSUME NEW l \in Seq(EventRow), NEW ev \in EventRow, NEW W \in SUBSET (1..Len(l))
  PROVE  /\ W # {} => Max(W) \in 1..Len(l) /\ Append(l, ev)[Max(W)] = l[Max(W)]
         /\ Max(W \cup {Len(l) + 1}) = Len(l) + 1
         /\ Append(l, ev)[Max(W \cup {Len(l) + 1})] = ev
<1>0. Len(l) \in Nat
  BY Appended
<1>1. W # {} => Max(W) \in W
  BY <1>0, GreatestExists
<1>2. PICK n \in Nat : n = Len(l) + 1
  BY <1>0
<1>3. W \cup {n} \in SUBSET (1..n) /\ W \cup {n} # {}
  <2>1. \A y \in W : y \in 1..n
    BY <1>0, <1>2
  <2>2. n \in 1..n
    BY <1>0, <1>2
  <2> QED BY <2>1, <2>2
<1>4. Max(W \cup {n}) \in W \cup {n} /\ \A y \in W \cup {n} : y <= Max(W \cup {n})
  BY <1>3, GreatestExists
<1>5. Max(W \cup {n}) = n
  <2>1. Max(W \cup {n}) \in 1..n /\ n <= Max(W \cup {n})
    BY <1>3, <1>4
  <2> QED BY <2>1
<1> QED
  BY <1>1, <1>2, <1>5, Appended

LEMMA EndAtAppended ==
  ASSUME NEW l \in Seq(EventRow), NEW ev \in EventRow, NEW e, NEW p
  PROVE  /\ \A k \in 0..Len(l) : EndAt(Append(l, ev), e, p, k) = EndAt(l, e, p, k)
         /\ EndAt(Append(l, ev), e, p, Len(l) + 1) =
              IF /\ ev.o.op \in {"EDGE_CREATE", "EDGE_UPDATE"} /\ ev.o.of = e
                 /\ p \in DOMAIN ev.o.ends
              THEN ev.o.ends[p] ELSE EndAt(l, e, p, Len(l))
<1> DEFINE m == Append(l, ev)
           ops == {"EDGE_CREATE", "EDGE_UPDATE"}
           Given(s, k) == {j \in Writers(s, ops, e) : j <= k /\ p \in DOMAIN s[j].o.ends}
<1>1. /\ DOMAIN m = 1..(Len(l) + 1) /\ DOMAIN l = 1..Len(l) /\ Len(l) \in Nat
      /\ \A k \in 1..Len(l) : m[k] = l[k]
      /\ m[Len(l) + 1] = ev
  BY Appended
<1>2. /\ Writers(m, ops, e) =
              Writers(l, ops, e) \cup (IF ev.o.op \in ops /\ ev.o.of = e THEN {Len(l) + 1} ELSE {})
      /\ Writers(l, ops, e) \subseteq 1..Len(l)
  BY WritersAppended
<1>3. \A W \in SUBSET (1..Len(l)) :
         /\ W # {} => Max(W) \in 1..Len(l) /\ m[Max(W)] = l[Max(W)]
         /\ m[Max(W \cup {Len(l) + 1})] = ev
  BY LastAppended
<1>4. ASSUME NEW s, NEW k
      PROVE  EndAt(s, e, p, k) = IF Given(s, k) = {} THEN NoEvent ELSE s[Max(Given(s, k))].o.ends[p]
  BY DEF EndAt
<1> HIDE DEF m, ops
<1>5. ASSUME NEW k \in 0..Len(l) PROVE EndAt(m, e, p, k) = EndAt(l, e, p, k)
  <2>1. PICK G : G = Given(l, k)
    OBVIOUS
  <2>2. Given(m, k) = G /\ G \in SUBSET (1..Len(l))
    BY <1>1, <1>2, <2>1
  <2>3. /\ EndAt(l, e, p, k) = IF G = {} THEN NoEvent ELSE l[Max(G)].o.ends[p]
        /\ EndAt(m, e, p, k) = IF G = {} THEN NoEvent ELSE m[Max(G)].o.ends[p]
    BY <1>4, <2>1, <2>2, Zenon
  <2>4. G # {} => m[Max(G)] = l[Max(G)]
    BY <1>3, <2>2
  <2>5. CASE G = {}
    BY <2>3, <2>5
  <2>6. CASE G # {}
    BY <2>3, <2>4, <2>6
  <2> QED BY <2>5, <2>6
<1>6. EndAt(m, e, p, Len(l) + 1) =
        IF ev.o.op \in ops /\ ev.o.of = e /\ p \in DOMAIN ev.o.ends
        THEN ev.o.ends[p] ELSE EndAt(l, e, p, Len(l))
  <2>1. PICK G : G = Given(l, Len(l))
    OBVIOUS
  <2>2. PICK H : H = Given(m, Len(l) + 1)
    OBVIOUS
  <2>3. /\ G \in SUBSET (1..Len(l))
        /\ H = G \cup (IF ev.o.op \in ops /\ ev.o.of = e /\ p \in DOMAIN ev.o.ends
                       THEN {Len(l) + 1} ELSE {})
    BY <1>1, <1>2, <2>1, <2>2
  <2>4. /\ EndAt(l, e, p, Len(l)) = IF G = {} THEN NoEvent ELSE l[Max(G)].o.ends[p]
        /\ EndAt(m, e, p, Len(l) + 1) = IF H = {} THEN NoEvent ELSE m[Max(H)].o.ends[p]
    BY <1>4, <2>1, <2>2, Zenon
  <2>5. CASE ev.o.op \in ops /\ ev.o.of = e /\ p \in DOMAIN ev.o.ends
    <3>1. H = G \cup {Len(l) + 1} /\ m[Max(H)] = ev
      BY <1>3, <2>3, <2>5
    <3> QED BY <2>4, <2>5, <3>1
  <2>6. CASE ~(ev.o.op \in ops /\ ev.o.of = e /\ p \in DOMAIN ev.o.ends)
    <3>1. H = G
      BY <2>3, <2>6
    <3> QED BY <1>3, <2>3, <2>4, <2>6, <3>1
  <2> QED BY <2>5, <2>6
<1> QED
  BY <1>5, <1>6 DEF m, ops

----------------------------------------------------------------------------
(* What a log means, with one more event. *)

LEMMA NodesAppended ==
  ASSUME NEW l, NEW ns, NEW es, NEW ev \in EventRow, Consistent(l, ns, es), Valid(ns, es, ev.o)
  PROVE  NodesOf(Append(l, ev)) = NodesAfter(ns, ev.o)
<1>1. l \in Seq(EventRow) /\ ev.o \in Operation /\ ns \in NodeTable
  BY DEF Consistent, Log, EventRow
<1> SUFFICES ASSUME NEW x \in Node
             PROVE  NodeFrom(Append(l, ev), x) = NodesAfter(ns, ev.o)[x]
  BY <1>1 DEF NodesOf, NodesAfter, NodeTable
<1> DEFINE m == Append(l, ev)
           made == {"NODE_CREATE", "NODE_UPDATE"}
           gone == {"NODE_RETIRE"}
<1>2. PICK W : W = Writers(l, made, x)
  OBVIOUS
<1>3. PICK R : R = Writers(l, gone, x)
  OBVIOUS
<1>4. /\ Writers(m, made, x) = W \cup (IF ev.o.op \in made /\ ev.o.of = x THEN {Len(l) + 1} ELSE {})
      /\ Writers(m, gone, x) = R \cup (IF ev.o.op \in gone /\ ev.o.of = x THEN {Len(l) + 1} ELSE {})
  BY <1>1, <1>2, <1>3, WritersAppended
<1>11. W \in SUBSET (1..Len(l))
  BY <1>1, <1>2, WritersAppended
<1>5. /\ W # {} => m[Max(W)] = l[Max(W)]
      /\ m[Max(W \cup {Len(l) + 1})] = ev
  BY <1>1, <1>11, LastAppended
<1>6. /\ ns[x] = IF W = {} THEN NoNode
                 ELSE [status |-> IF R # {} THEN "retired" ELSE "active", by |-> l[Max(W)].o.id]
      /\ NodeFrom(m, x) =
           IF Writers(m, made, x) = {} THEN NoNode
           ELSE [status |-> IF Writers(m, gone, x) # {} THEN "retired" ELSE "active",
                 by |-> m[Max(Writers(m, made, x))].o.id]
  BY <1>2, <1>3 DEF NodeFrom, Consistent, NodesOf
<1> HIDE DEF m
<1>7. ns[x].status = "absent" => R = {}
  <2> SUFFICES ASSUME NEW k \in R PROVE ns[x].status # "absent"
    OBVIOUS
  <2>1. k \in DOMAIN l /\ l[k].o.op = "NODE_RETIRE" /\ l[k].o.of = x
    BY <1>3 DEF Writers
  <2>2. IsNode(l[k].o)
    BY <2>1 DEF IsNode
  <2> QED BY <2>1, <2>2 DEF Consistent, Recorded
<1>8. CASE IsNode(ev.o) /\ ev.o.of = x /\ ev.o.op # "NODE_RETIRE"
  <2>1. ev.o.op \in made /\ ev.o.op \notin gone
    BY <1>8 DEF IsNode
  <2>2. R = {}
    <3>1. CASE ev.o.op = "NODE_CREATE"
      BY <1>7, <1>8, <3>1 DEF Valid, NodeValid
    <3>2. CASE ev.o.op # "NODE_CREATE"
      <4>1. ns[x].status = "active"
        BY <1>8, <3>2 DEF Valid, NodeValid, Active
      <4> QED BY <1>6, <4>1 DEF NoNode
    <3> QED BY <3>1, <3>2
  <2>3. Writers(m, made, x) = W \cup {Len(l) + 1} /\ Writers(m, gone, x) = {}
    BY <1>4, <1>8, <2>1, <2>2
  <2>4. NodeFrom(m, x) = [status |-> "active", by |-> ev.o.id]
    BY <1>5, <1>6, <2>3
  <2>5. NodesAfter(ns, ev.o)[x] = [status |-> "active", by |-> ev.o.id]
    BY <1>1, <1>8 DEF NodesAfter, NodeAfter, NodeTable
  <2> QED BY <2>4, <2>5 DEF m
<1>9. CASE IsNode(ev.o) /\ ev.o.of = x /\ ev.o.op = "NODE_RETIRE"
  <2>1. ns[x].status = "active"
    BY <1>9 DEF Valid, NodeValid, Active
  <2>2. W # {} /\ ns[x] = [status |-> "active", by |-> l[Max(W)].o.id]
    BY <1>6, <2>1 DEF NoNode
  <2>3. Writers(m, made, x) = W /\ Writers(m, gone, x) # {}
    BY <1>4, <1>9
  <2>4. NodeFrom(m, x) = [status |-> "retired", by |-> l[Max(W)].o.id]
    BY <1>5, <1>6, <2>2, <2>3
  <2>5. NodesAfter(ns, ev.o)[x] = [ns[x] EXCEPT !.status = "retired"]
    BY <1>1, <1>9 DEF NodesAfter, NodeAfter, NodeTable
  <2> QED BY <2>2, <2>4, <2>5 DEF m
<1>10. CASE ~(IsNode(ev.o) /\ ev.o.of = x)
  <2>1. Writers(m, made, x) = W /\ Writers(m, gone, x) = R
    BY <1>4, <1>10 DEF IsNode
  <2>2. NodesAfter(ns, ev.o)[x] = ns[x]
    BY <1>1, <1>10 DEF NodesAfter, NodeTable
  <2> QED BY <1>5, <1>6, <2>1, <2>2 DEF m
<1> QED
  BY <1>8, <1>9, <1>10

\* What retires an edge, before and after one more event.
Doomed(l, e) ==
  \/ Writers(l, {"EDGE_RETIRE"}, e) # {}
  \/ \E k \in DOMAIN l, p \in Endpoint :
       l[k].o.op = "NODE_RETIRE" /\ l[k].o.of = EndAt(l, e, p, k)

LEMMA DoomedAppended ==
  ASSUME NEW l \in Seq(EventRow), NEW ev \in EventRow, NEW e
  PROVE  Doomed(Append(l, ev), e) <=>
           \/ Doomed(l, e)
           \/ ev.o.op = "EDGE_RETIRE" /\ ev.o.of = e
           \/ ev.o.op = "NODE_RETIRE" /\ \E p \in Endpoint : ev.o.of = EndAt(l, e, p, Len(l))
<1> DEFINE m == Append(l, ev)
<1>1. /\ DOMAIN m = 1..(Len(l) + 1) /\ DOMAIN l = 1..Len(l) /\ Len(l) \in Nat
      /\ \A k \in 1..Len(l) : m[k] = l[k]
      /\ m[Len(l) + 1] = ev
  BY Appended
<1>2. Writers(m, {"EDGE_RETIRE"}, e) # {} <=>
        Writers(l, {"EDGE_RETIRE"}, e) # {} \/ (ev.o.op = "EDGE_RETIRE" /\ ev.o.of = e)
  BY WritersAppended
<1>3. ASSUME NEW p \in Endpoint
      PROVE  /\ \A k \in 1..Len(l) : EndAt(m, e, p, k) = EndAt(l, e, p, k)
             /\ ev.o.op = "NODE_RETIRE" => EndAt(m, e, p, Len(l) + 1) = EndAt(l, e, p, Len(l))
  <2>1. \A k \in 1..Len(l) : k \in 0..Len(l)
    BY <1>1
  <2> QED BY <2>1, EndAtAppended
<1> HIDE DEF m
<1> DEFINE Hit(s, k, p) == s[k].o.op = "NODE_RETIRE" /\ s[k].o.of = EndAt(s, e, p, k)
<1>4. \A p \in Endpoint, k \in 1..Len(l) : Hit(m, k, p) <=> Hit(l, k, p)
  BY <1>1, <1>3
<1>5. \A p \in Endpoint : Hit(m, Len(l) + 1, p) <=>
        ev.o.op = "NODE_RETIRE" /\ ev.o.of = EndAt(l, e, p, Len(l))
  BY <1>1, <1>3
<1>6. Doomed(m, e) <=> \/ Writers(m, {"EDGE_RETIRE"}, e) # {}
                       \/ \E k \in DOMAIN m, p \in Endpoint : Hit(m, k, p)
  BY DEF Doomed
<1>7. Doomed(l, e) <=> \/ Writers(l, {"EDGE_RETIRE"}, e) # {}
                       \/ \E k \in DOMAIN l, p \in Endpoint : Hit(l, k, p)
  BY DEF Doomed
<1> HIDE DEF Hit
<1>8. (\E k \in DOMAIN m, p \in Endpoint : Hit(m, k, p)) <=>
        \/ \E k \in DOMAIN l, p \in Endpoint : Hit(l, k, p)
        \/ \E p \in Endpoint : ev.o.op = "NODE_RETIRE" /\ ev.o.of = EndAt(l, e, p, Len(l))
  <2>1. \A k : k \in DOMAIN m <=> k \in DOMAIN l \/ k = Len(l) + 1
    BY <1>1
  <2> QED BY <1>1, <1>4, <1>5, <2>1
<1> QED
  BY <1>2, <1>6, <1>7, <1>8 DEF m

LEMMA EdgesAppended ==
  ASSUME NEW l, NEW ns, NEW es, NEW ev \in EventRow, Consistent(l, ns, es), Valid(ns, es, ev.o)
  PROVE  EdgesOf(Append(l, ev)) = EdgesAfter(es, ev.o)
<1>1. l \in Seq(EventRow) /\ ev.o \in Operation /\ es \in EdgeTable
  BY DEF Consistent, Log, EventRow
<1> SUFFICES ASSUME NEW e \in Edge
             PROVE  EdgeFrom(Append(l, ev), e) = EdgesAfter(es, ev.o)[e]
  <2>1. DOMAIN EdgesAfter(es, ev.o) = Edge /\ EdgesAfter(es, ev.o) = [e \in Edge |-> EdgesAfter(es, ev.o)[e]]
    BY <1>1 DEF EdgesAfter, EdgeTable, RetireEdges
  <2> QED BY <2>1 DEF EdgesOf
<1> DEFINE m == Append(l, ev)
           made == {"EDGE_CREATE", "EDGE_UPDATE"}
           now == [p \in Endpoint |-> EndAt(l, e, p, Len(l))]
<1>2. PICK W : W = Writers(l, made, e)
  OBVIOUS
<1>3. /\ Writers(m, made, e) = W \cup (IF ev.o.op \in made /\ ev.o.of = e THEN {Len(l) + 1} ELSE {})
      /\ W \in SUBSET (1..Len(l))
  BY <1>1, <1>2, WritersAppended
<1>4. /\ W # {} => m[Max(W)] = l[Max(W)]
      /\ m[Max(W \cup {Len(l) + 1})] = ev
  BY <1>1, <1>3, LastAppended
<1>5. Len(m) = Len(l) + 1
  BY <1>1, Appended
<1>6. /\ es[e] = IF W = {} THEN NoEdge
                 ELSE [status |-> IF Doomed(l, e) THEN "retired" ELSE "active",
                       by |-> l[Max(W)].o.id, ends |-> now]
      /\ EdgeFrom(m, e) =
           IF Writers(m, made, e) = {} THEN NoEdge
           ELSE [status |-> IF Doomed(m, e) THEN "retired" ELSE "active",
                 by |-> m[Max(Writers(m, made, e))].o.id,
                 ends |-> [p \in Endpoint |-> EndAt(m, e, p, Len(l) + 1)]]
  BY <1>2, <1>5 DEF EdgeFrom, Doomed, Consistent, EdgesOf
<1>7. \A p \in Endpoint : EndAt(m, e, p, Len(l) + 1) =
        IF ev.o.op \in made /\ ev.o.of = e /\ p \in DOMAIN ev.o.ends
        THEN ev.o.ends[p] ELSE EndAt(l, e, p, Len(l))
  BY <1>1, EndAtAppended
<1>8. Doomed(m, e) <=>
           \/ Doomed(l, e)
           \/ ev.o.op = "EDGE_RETIRE" /\ ev.o.of = e
           \/ ev.o.op = "NODE_RETIRE" /\ \E p \in Endpoint : ev.o.of = EndAt(l, e, p, Len(l))
  BY <1>1, DoomedAppended
<1> HIDE DEF m
<1>9. es[e].status = "absent" => ~Doomed(l, e)
  <2> SUFFICES ASSUME es[e].status = "absent", Doomed(l, e) PROVE FALSE
    OBVIOUS
  <2>1. \A k \in DOMAIN l : IsNode(l[k].o) \/ l[k].o.of # e
    BY DEF Consistent, Recorded
  <2>2. Writers(l, {"EDGE_RETIRE"}, e) = {}
    BY <2>1 DEF Writers, IsNode
  <2>3. W = {}
    BY <1>2, <2>1 DEF Writers, IsNode
  <2>4. \A k, p : EndAt(l, e, p, k) = NoEvent
    BY <1>2, <2>3 DEF EndAt
  <2>5. PICK k \in DOMAIN l : l[k].o.op = "NODE_RETIRE" /\ l[k].o.of = NoEvent
    BY <2>2, <2>4 DEF Doomed
  <2>6. l[k].o \in Operation
    BY <1>1, EventsInLog, Zenon
  <2> QED BY <2>5, <2>6, OperationParts, NoEventIsNothing DEF IsNode
<1>10. es[e].status = "active" =>
         /\ W # {} /\ ~Doomed(l, e)
         /\ es[e] = [status |-> "active", by |-> l[Max(W)].o.id, ends |-> now]
  BY <1>6 DEF NoEdge
<1>11. CASE ev.o.op \in made /\ ev.o.of = e
  <2>1. ~IsNode(ev.o)
    BY <1>11 DEF IsNode
  <2>2. ~Doomed(m, e)
    <3>1. ~Doomed(l, e)
      BY <1>9, <1>10, <1>11, <2>1 DEF Valid, EdgeValid, Active
    <3> QED BY <1>8, <1>11, <3>1
  <2>3. \A p \in Endpoint : EndAt(m, e, p, Len(l) + 1) = EndsAfter(es, ev.o)[p]
    <3> TAKE p \in Endpoint
    <3>1. CASE p \in DOMAIN ev.o.ends
      BY <1>7, <1>11, <3>1 DEF EndsAfter
    <3>2. CASE p \notin DOMAIN ev.o.ends
      <4>1. ev.o.op = "EDGE_UPDATE"
        BY <1>1, <1>11, <3>2, OperationParts
      <4>2. es[e].status = "active"
        BY <1>11, <2>1, <4>1 DEF Valid, EdgeValid, Active
      <4>3. es[e].ends = now
        BY <1>10, <4>2
      <4> QED BY <1>7, <1>11, <3>2, <4>3 DEF EndsAfter
    <3> QED BY <3>1, <3>2
  <2>4. [p \in Endpoint |-> EndAt(m, e, p, Len(l) + 1)] = EndsAfter(es, ev.o)
    BY <2>3 DEF EndsAfter
  <2>5. Writers(m, made, e) = W \cup {Len(l) + 1}
    BY <1>3, <1>11
  <2>6. EdgeFrom(m, e) = [status |-> "active", by |-> ev.o.id, ends |-> EndsAfter(es, ev.o)]
    BY <1>4, <1>6, <2>2, <2>4, <2>5
  <2>7. EdgesAfter(es, ev.o)[e] = [status |-> "active", by |-> ev.o.id, ends |-> EndsAfter(es, ev.o)]
    BY <1>1, <1>11, <2>1 DEF EdgesAfter, EdgeAfter, EdgeTable
  <2> QED BY <2>6, <2>7 DEF m
<1>12. CASE ~(ev.o.op \in made /\ ev.o.of = e)
  <2>1. /\ Writers(m, made, e) = W
        /\ [p \in Endpoint |-> EndAt(m, e, p, Len(l) + 1)] = now
    BY <1>3, <1>7, <1>12
  <2>2. EdgeFrom(m, e) =
           IF W = {} THEN NoEdge
           ELSE [status |-> IF Doomed(m, e) THEN "retired" ELSE "active",
                 by |-> l[Max(W)].o.id, ends |-> now]
    BY <1>4, <1>6, <2>1
  <2> HIDE DEF now
  <2>3. CASE ev.o.op = "EDGE_RETIRE" /\ ev.o.of = e
    <3>1. es[e].status = "active"
      BY <2>3 DEF Valid, EdgeValid, Active, IsNode
    <3>2. EdgeFrom(m, e) = [status |-> "retired", by |-> l[Max(W)].o.id, ends |-> now]
      BY <1>8, <1>10, <2>2, <2>3, <3>1
    <3>3. EdgesAfter(es, ev.o)[e] = [es[e] EXCEPT !.status = "retired"]
      BY <1>1, <2>3 DEF EdgesAfter, EdgeAfter, EdgeTable, IsNode
    <3> QED BY <1>10, <3>1, <3>2, <3>3 DEF m
  <2>4. CASE ev.o.op = "NODE_RETIRE"
    <3>1. EdgesAfter(es, ev.o)[e] =
            IF Touches(es[e], ev.o.of) THEN [es[e] EXCEPT !.status = "retired"] ELSE es[e]
      BY <1>1, <2>4 DEF EdgesAfter, RetireEdges, EdgeTable
    <3>2. CASE W = {}
      <4>1. es[e] = NoEdge /\ EdgeFrom(m, e) = NoEdge
        BY <1>6, <2>2, <3>2
      <4> QED BY <3>1, <4>1 DEF m, Touches, NoEdge
    <3>3. CASE W # {} /\ Doomed(l, e)
      <4>1. Doomed(m, e)
        BY <1>8, <3>3
      <4>2. EdgeFrom(m, e) = es[e] /\ es[e].status = "retired"
        BY <1>6, <2>2, <3>3, <4>1 DEF now
      <4> QED BY <3>1, <4>2 DEF m, Touches
    <3>4. CASE W # {} /\ ~Doomed(l, e)
      <4>1. es[e] = [status |-> "active", by |-> l[Max(W)].o.id, ends |-> now]
        BY <1>6, <3>4 DEF now
      <4>2. Touches(es[e], ev.o.of) <=> Doomed(m, e)
        <5>1. \A p \in Endpoint : es[e].ends[p] = EndAt(l, e, p, Len(l))
          BY <4>1 DEF now
        <5>2. es[e].status = "active"
          BY <4>1
        <5> QED BY <1>8, <2>4, <3>4, <5>1, <5>2 DEF Touches
      <4> QED BY <2>2, <3>1, <3>4, <4>1, <4>2 DEF m
    <3> QED BY <3>2, <3>3, <3>4
  <2>5. CASE ~(ev.o.op = "EDGE_RETIRE" /\ ev.o.of = e) /\ ev.o.op # "NODE_RETIRE"
    <3>1. EdgesAfter(es, ev.o)[e] = es[e]
      <4>1. IsNode(ev.o) \/ ev.o.of # e
        BY <1>1, <1>12, <2>5, OperationParts DEF IsNode
      <4> QED BY <1>1, <2>5, <4>1 DEF EdgesAfter, EdgeTable
    <3>2. Doomed(m, e) <=> Doomed(l, e)
      BY <1>8, <2>5
    <3> QED BY <1>6, <2>2, <3>1, <3>2 DEF m, now
  <2> QED BY <2>3, <2>4, <2>5
<1> QED
  BY <1>11, <1>12

LEMMA JoinedAfter ==
  ASSUME NEW ns \in NodeTable, NEW es \in EdgeTable, NEW o \in Operation,
         Valid(ns, es, o), Joined(ns, es)
  PROVE  Joined(NodesAfter(ns, o), EdgesAfter(es, o))
<1> DEFINE ns1 == NodesAfter(ns, o)
           es1 == EdgesAfter(es, o)
<1> SUFFICES ASSUME NEW e \in Edge, es1[e].status = "active", NEW p \in Endpoint
             PROVE  ns1[es1[e].ends[p]].status = "active"
  BY DEF Joined, Active
<1>1. CASE IsNode(o) /\ o.op # "NODE_RETIRE"
  <2>1. es1 = es
    BY <1>1 DEF EdgesAfter
  <2>2. \A x : ns[x].status = "active" /\ x \in Node => ns1[x].status = "active"
    BY <1>1 DEF NodesAfter, NodeAfter, NodeTable
  <2>3. es[e].ends[p] \in Node /\ ns[es[e].ends[p]].status = "active"
    BY <2>1, EdgeRowParts DEF Joined, Active, EdgeTable
  <2> QED BY <2>1, <2>2, <2>3
<1>2. CASE o.op = "NODE_RETIRE"
  <2>1. es1[e] = IF Touches(es[e], o.of) THEN [es[e] EXCEPT !.status = "retired"] ELSE es[e]
    BY <1>2 DEF EdgesAfter, RetireEdges, EdgeTable
  <2>2. es[e] \in EdgeRow
    BY DEF EdgeTable
  <2>3. ~Touches(es[e], o.of)
    <3> SUFFICES ASSUME Touches(es[e], o.of) PROVE FALSE
      OBVIOUS
    <3>1. es[e].status = "active"
      BY DEF Touches
    <3>2. es1[e].status = "retired"
      BY <2>1, <2>2, <3>1, EdgeRowParts
    <3> QED BY <3>2
  <2>4. es1[e] = es[e] /\ es[e].ends[p] # o.of /\ es[e].ends[p] \in Node
    BY <2>1, <2>2, <2>3, EdgeRowParts DEF Touches
  <2>5. ns[es[e].ends[p]].status = "active"
    BY <2>1, <2>3 DEF Joined, Active
  <2>6. ns1[es[e].ends[p]] = ns[es[e].ends[p]]
    BY <1>2, <2>4 DEF NodesAfter, NodeTable
  <2> QED BY <2>4, <2>5, <2>6
<1>3. CASE ~IsNode(o)
  <2>1. ns1 = ns /\ o.of \in Edge /\ o.op # "NODE_RETIRE"
    BY <1>3, OperationParts DEF NodesAfter, IsNode
  <2>2. es1 = [es EXCEPT ![o.of] = EdgeAfter(es, o)]
    BY <1>3, <2>1 DEF EdgesAfter
  <2>3. CASE e # o.of
    BY <2>1, <2>2, <2>3 DEF Joined, Active, EdgeTable
  <2>4. CASE e = o.of /\ o.op = "EDGE_RETIRE"
    <3>1. es[e] \in EdgeRow /\ es[e].status = "active"
      BY <1>3, <2>4 DEF EdgeTable, Valid, EdgeValid, Active
    <3>2. es1[e].status = "retired"
      BY <2>2, <2>4, <3>1, EdgeRowParts DEF EdgeAfter, EdgeTable
    <3> QED BY <3>2
  <2>5. CASE e = o.of /\ o.op # "EDGE_RETIRE"
    <3>1. es1[e].ends = EndsAfter(es, o)
      BY <2>2, <2>5 DEF EdgeAfter, EdgeTable
    <3>2. BothEndsActive(ns, es, o)
      BY <1>3, <2>5 DEF Valid, EdgeValid
    <3> QED BY <2>1, <3>1, <3>2 DEF BothEndsActive, Active
  <2> QED BY <2>3, <2>4, <2>5
<1> QED
  BY <1>1, <1>2, <1>3

LEMMA RecordedAfter ==
  ASSUME NEW l \in Seq(EventRow), NEW ns \in NodeTable, NEW es \in EdgeTable, NEW ev \in EventRow,
         Valid(ns, es, ev.o), Recorded(l, ns, es)
  PROVE  Recorded(Append(l, ev), NodesAfter(ns, ev.o), EdgesAfter(es, ev.o))
<1>1. ev.o \in Operation
  BY DEF EventRow
<1> DEFINE m == Append(l, ev)
           ns1 == NodesAfter(ns, ev.o)
           es1 == EdgesAfter(es, ev.o)
<1>2. \A x \in Node : ns[x].status # "absent" => ns1[x].status # "absent"
  BY <1>1, NodeRowParts DEF NodesAfter, NodeAfter, NodeTable
<1>3. ASSUME NEW e \in Edge, es[e].status # "absent" PROVE es1[e].status # "absent"
  <2>1. es[e] \in EdgeRow /\ [es[e] EXCEPT !.status = "retired"].status = "retired"
    BY <1>3, EdgeRowParts DEF EdgeTable
  <2>2. CASE ev.o.op = "NODE_RETIRE"
    BY <1>3, <2>1, <2>2 DEF EdgesAfter, RetireEdges, EdgeTable
  <2>3. CASE IsNode(ev.o) /\ ev.o.op # "NODE_RETIRE"
    BY <1>3, <2>3 DEF EdgesAfter
  <2>4. CASE ~IsNode(ev.o)
    <3>1. es1 = [es EXCEPT ![ev.o.of] = EdgeAfter(es, ev.o)]
      BY <2>4 DEF EdgesAfter, IsNode
    <3>2. CASE ev.o.of # e
      BY <1>3, <3>1, <3>2 DEF EdgeTable
    <3>3. CASE ev.o.of = e
      BY <2>1, <3>1, <3>3 DEF EdgeTable, EdgeAfter
    <3> QED BY <3>2, <3>3
  <2> QED BY <2>2, <2>3, <2>4
<1>4. IsNode(ev.o) => ns1[ev.o.of].status # "absent"
  <2> SUFFICES ASSUME IsNode(ev.o) PROVE ns1[ev.o.of].status # "absent"
    OBVIOUS
  <2>1. ev.o.of \in Node /\ ns[ev.o.of] \in NodeRow
    BY <1>1, OperationParts DEF NodeTable
  <2>2. ns1[ev.o.of] = NodeAfter(ns, ev.o)
    BY <2>1 DEF NodesAfter, NodeTable
  <2> QED BY <2>1, <2>2, NodeRowParts DEF NodeAfter
<1>5. ~IsNode(ev.o) => es1[ev.o.of].status # "absent"
  <2> SUFFICES ASSUME ~IsNode(ev.o) PROVE es1[ev.o.of].status # "absent"
    OBVIOUS
  <2>1. ev.o.of \in Edge
    BY <1>1, OperationParts
  <2>2. es1[ev.o.of] = EdgeAfter(es, ev.o)
    BY <2>1 DEF EdgesAfter, EdgeTable, IsNode
  <2>3. CASE ev.o.op = "EDGE_RETIRE"
    <3>1. es[ev.o.of].status = "active"
      BY <2>3 DEF Valid, EdgeValid, Active
    <3> QED BY <1>3, <2>1, <3>1
  <2>4. CASE ev.o.op # "EDGE_RETIRE"
    BY <2>2, <2>4 DEF EdgeAfter
  <2> QED BY <2>3, <2>4
<1> HIDE DEF ns1, es1
<1> SUFFICES ASSUME NEW k \in DOMAIN m
             PROVE  IF IsNode(m[k].o) THEN ns1[m[k].o.of].status # "absent"
                                      ELSE es1[m[k].o.of].status # "absent"
  BY DEF Recorded, ns1, es1
<1>6. CASE k = Len(l) + 1
  <2>1. m[k] = ev
    BY <1>6, Appended
  <2> QED BY <1>4, <1>5, <2>1
<1>7. CASE k # Len(l) + 1
  <2>1. k \in DOMAIN l /\ m[k] = l[k]
    BY <1>7, Appended
  <2>2. l[k].o \in Operation
    BY <2>1, EventsInLog
  <2> QED BY <1>2, <1>3, <2>1, <2>2, OperationParts DEF Recorded
<1> QED
  BY <1>6, <1>7

LEMMA LogAppended ==
  ASSUME NEW l, NEW ns, NEW es, NEW ev \in EventRow, Consistent(l, ns, es), Valid(ns, es, ev.o),
         Len(l) < MaxEvents, \A k \in DOMAIN l : l[k].o.id # ev.o.id
  PROVE  Log(Append(l, ev))
<1> DEFINE m == Append(l, ev)
<1>1. l \in Seq(EventRow) /\ Distinct(l) /\ Lawful(l)
  BY DEF Consistent, Log
<1>2. /\ m \in Seq(EventRow) /\ Len(m) = Len(l) + 1
      /\ DOMAIN m = 1..(Len(l) + 1) /\ DOMAIN l = 1..Len(l) /\ Len(l) \in Nat
      /\ \A k \in 1..Len(l) : m[k] = l[k]
      /\ m[Len(l) + 1] = ev
  BY <1>1, Appended
<1>3. \A k \in DOMAIN m : SubSeq(m, 1, k - 1) = SubSeq(l, 1, k - 1)
  BY <1>1, <1>2, BeginningsAppended
<1> HIDE DEF m
<1>4. Len(m) <= MaxEvents
  BY <1>2, LimitsAreNaturals
<1>5. Distinct(m)
  <2>1. \A k \in DOMAIN m : k = Len(l) + 1 \/ k \in DOMAIN l
    BY <1>2
  <2> QED BY <1>1, <1>2, <2>1 DEF Distinct
<1>6. Lawful(m)
  <2> SUFFICES ASSUME NEW k \in DOMAIN m
               PROVE  Valid(NodesOf(SubSeq(l, 1, k - 1)), EdgesOf(SubSeq(l, 1, k - 1)), m[k].o)
    BY <1>3 DEF Lawful
  <2>1. CASE k = Len(l) + 1
    <3>1. SubSeq(l, 1, k - 1) = l
      BY <1>1, <1>2, <2>1
    <3> QED BY <1>2, <2>1, <3>1 DEF Consistent
  <2>2. CASE k # Len(l) + 1
    <3>1. k \in DOMAIN l /\ m[k] = l[k]
      BY <1>2, <2>2
    <3> QED BY <1>1, <3>1 DEF Lawful
  <2> QED BY <2>1, <2>2
<1> QED
  BY <1>2, <1>4, <1>5, <1>6 DEF Log, m

\* A valid operation under a new identifier, logged with the tables it makes, leaves a
\* log and tables that belong together.
LEMMA ConsistentAppended ==
  ASSUME NEW l, NEW ns, NEW es, NEW ev \in EventRow, Consistent(l, ns, es), Valid(ns, es, ev.o),
         Len(l) < MaxEvents, \A k \in DOMAIN l : l[k].o.id # ev.o.id
  PROVE  Consistent(Append(l, ev), NodesAfter(ns, ev.o), EdgesAfter(es, ev.o))
<1>1. /\ l \in Seq(EventRow) /\ ns \in NodeTable /\ es \in EdgeTable /\ ev.o \in Operation
      /\ Joined(ns, es) /\ Recorded(l, ns, es)
  BY DEF Consistent, Log, EventRow
<1>2. Log(Append(l, ev))
  BY LogAppended
<1>3. NodesAfter(ns, ev.o) \in NodeTable /\ EdgesAfter(es, ev.o) \in EdgeTable
  BY <1>1, AfterKeepsTables
<1>4. NodesAfter(ns, ev.o) = NodesOf(Append(l, ev)) /\ EdgesAfter(es, ev.o) = EdgesOf(Append(l, ev))
  BY NodesAppended, EdgesAppended
<1>5. Joined(NodesAfter(ns, ev.o), EdgesAfter(es, ev.o))
  BY <1>1, JoinedAfter
<1>6. Recorded(Append(l, ev), NodesAfter(ns, ev.o), EdgesAfter(es, ev.o))
  BY <1>1, RecordedAfter
<1> QED
  BY <1>2, <1>3, <1>4, <1>5, <1>6 DEF Consistent

----------------------------------------------------------------------------
(* Beginnings of logs. *)

LEMMA PrefixParts ==
  ASSUME NEW l \in Seq(EventRow), NEW m \in Seq(EventRow), IsPrefix(l, m)
  PROVE  /\ Len(l) <= Len(m) /\ l = SubSeq(m, 1, Len(l))
         /\ \A k \in 1..Len(l) : l[k] = m[k]
<1>1. Len(l) \in Nat /\ Len(m) \in Nat /\ Len(l) <= Len(m)
  BY LenProperties DEF IsPrefix
<1>2. l = SubSeq(l, 1, Len(l)) /\ SubSeq(l, 1, Len(l)) = SubSeq(m, 1, Len(l))
  BY DEF IsPrefix
<1>3. \A k \in 1..Len(l) : SubSeq(m, 1, Len(l))[k] = m[k]
  BY <1>1
<1> QED
  BY <1>1, <1>2, <1>3

LEMMA Beginning ==
  ASSUME NEW l \in Seq(EventRow), NEW n \in 0..Len(l)
  PROVE  /\ SubSeq(l, 1, n) \in Seq(EventRow) /\ Len(SubSeq(l, 1, n)) = n
         /\ DOMAIN SubSeq(l, 1, n) = 1..n
         /\ \A k \in 1..n : SubSeq(l, 1, n)[k] = l[k]
<1>1. Len(l) \in Nat /\ n \in Nat /\ n <= Len(l)
  BY LenProperties
<1>2. SubSeq(l, 1, n) \in Seq(EventRow) /\ Len(SubSeq(l, 1, n)) = n
  BY <1>1
<1>3. \A k \in 1..n : SubSeq(l, 1, n)[k] = l[k]
  BY <1>1
<1> QED
  BY <1>2, <1>3, LenProperties

LEMMA LogBeginning ==
  ASSUME NEW l, Log(l), NEW n \in 0..Len(l)
  PROVE  Log(SubSeq(l, 1, n))
<1> DEFINE b == SubSeq(l, 1, n)
<1>1. l \in Seq(EventRow) /\ Len(l) \in Nat /\ DOMAIN l = 1..Len(l) /\ n \in Nat /\ n <= Len(l)
  BY LenProperties DEF Log
<1>2. /\ b \in Seq(EventRow) /\ Len(b) = n /\ DOMAIN b = 1..n
      /\ \A k \in 1..n : b[k] = l[k] /\ k \in DOMAIN l
  BY <1>1, Beginning
<1>3. ASSUME NEW k \in 1..n PROVE SubSeq(b, 1, k - 1) = SubSeq(l, 1, k - 1)
  <2>1. k - 1 \in 0..n /\ k - 1 \in 0..Len(l)
    BY <1>1
  <2>2. /\ SubSeq(b, 1, k - 1) \in Seq(EventRow) /\ SubSeq(l, 1, k - 1) \in Seq(EventRow)
        /\ Len(SubSeq(b, 1, k - 1)) = k - 1 /\ Len(SubSeq(l, 1, k - 1)) = k - 1
        /\ \A j \in 1..(k - 1) : SubSeq(b, 1, k - 1)[j] = b[j] /\ SubSeq(l, 1, k - 1)[j] = l[j]
    BY <1>1, <1>2, <2>1, Beginning
  <2>3. \A j \in 1..(k - 1) : b[j] = l[j]
    BY <1>2
  <2> QED BY <2>2, <2>3, SeqEqual
<1> HIDE DEF b
<1>4. Len(b) <= MaxEvents
  BY <1>1, <1>2, LimitsAreNaturals DEF Log
<1>5. Distinct(b) /\ Lawful(b)
  BY <1>2, <1>3 DEF Log, Distinct, Lawful
<1> QED
  BY <1>2, <1>4, <1>5 DEF Log, b

\* One event on.
LEMMA BeginningGrows ==
  ASSUME NEW l \in Seq(EventRow), NEW d \in Nat, d + 1 <= Len(l)
  PROVE  Append(SubSeq(l, 1, d), l[d + 1]) = SubSeq(l, 1, d + 1)
<1>1. Len(l) \in Nat /\ d \in 0..Len(l) /\ d + 1 \in 0..Len(l) /\ d + 1 \in 1..Len(l)
  BY LenProperties
<1>2. /\ SubSeq(l, 1, d) \in Seq(EventRow) /\ Len(SubSeq(l, 1, d)) = d
      /\ \A k \in 1..d : SubSeq(l, 1, d)[k] = l[k]
      /\ SubSeq(l, 1, d + 1) \in Seq(EventRow) /\ Len(SubSeq(l, 1, d + 1)) = d + 1
      /\ \A k \in 1..(d + 1) : SubSeq(l, 1, d + 1)[k] = l[k]
      /\ l[d + 1] \in EventRow
  BY <1>1, Beginning, ElementOfSeq
<1> DEFINE a == Append(SubSeq(l, 1, d), l[d + 1])
<1>3. /\ a \in Seq(EventRow) /\ Len(a) = d + 1
      /\ \A k \in 1..d : a[k] = l[k]
      /\ a[d + 1] = l[d + 1]
  BY <1>2, Appended
<1> HIDE DEF a
<1>4. \A k \in 1..(d + 1) : a[k] = SubSeq(l, 1, d + 1)[k]
  BY <1>2, <1>3
<1>5. a = SubSeq(l, 1, d + 1)
  BY <1>2, <1>3, <1>4, SeqEqual
<1> QED
  BY <1>5 DEF a

----------------------------------------------------------------------------
(* Transactions begin. *)

LEMMA TransactionOnly ==
  ASSUME GraphInv, Tables, NEW s, tx' = s, s = Idle \/ Good(s)
  PROVE  GraphInv'
<1>1. log' = log /\ nodes' = nodes /\ edges' = edges /\ own' = own
  BY DEF Tables
<1>2. s = Idle \/ Good(s)'
  BY <1>1 DEF Good, Begun, Batch, Replays, Continues, Repeats
<1>3. tx' = Idle \/ Good(tx)'
  BY <1>1, <1>2 DEF Good, Begun, Batch, Replays, Continues, Repeats
<1> QED
  BY <1>1, <1>3 DEF GraphInv

LEMMA TransactionBegins ==
  ASSUME GraphInv, NEW s \in Store, NEW who \in Session \cup {"none"}, NEW kind \in {"apply", "replay"},
         NEW events \in Seq(EventRow), kind = "apply" => who \in Session
  PROVE  /\ Transaction(s, who, kind, events) \in TxRecord
         /\ Begun(Transaction(s, who, kind, events))
         /\ Batch(Transaction(s, who, kind, events))
<1> DEFINE t == Transaction(s, who, kind, events)
<1>1. /\ log[s] \in Seq(EventRow) /\ nodes[s] \in NodeTable /\ edges[s] \in EdgeTable
      /\ Consistent(log[s], nodes[s], edges[s])
  BY DEF GraphInv
<1>2. t \in TxRecord
  <2>1. <<>> \in Seq(Snap)
    OBVIOUS
  <2>2. (IF kind = "apply" THEN "validate" ELSE "import") \in {"import", "validate", "write", "refused"}
    OBVIOUS
  <2> QED BY <1>1, <2>1, <2>2 DEF Transaction, TxRecord
<1>3. /\ t.log = log[s] /\ t.nodes = nodes[s] /\ t.edges = edges[s] /\ t.store = s /\ t.snaps = <<>>
      /\ t.kind = kind /\ t.session = who /\ t.viewNodes = nodes[s] /\ t.viewEdges = edges[s]
      /\ t.pc = "import" => t.kind = "replay"
      /\ t.pc \in {"validate", "write"} => kind = "apply"
  BY DEF Transaction
<1> HIDE DEF t
<1>6. Len(t.snaps) = 0
  BY <1>3
<1>4. Begun(t)
  <2>1. Len(log[s]) \in Nat /\ Len(log[s]) <= MaxEvents
    BY <1>1, LenProperties DEF Consistent, Log
  <2>2. Len(t.log) + Len(t.snaps) <= MaxEvents /\ Len(log[t.store]) <= Len(t.log)
    BY <1>3, <1>6, <2>1, LimitsAreNaturals
  <2> QED BY <1>1, <1>2, <1>3, <2>2 DEF Begun
<1>5. Batch(t)
  <2> DEFINE path == [k \in 1..1 |-> [nodes |-> nodes[s], edges |-> edges[s]]]
  <2>1. DOMAIN path = 1..1 /\ path[1] = [nodes |-> nodes[s], edges |-> edges[s]]
    OBVIOUS
  <2> HIDE DEF path
  <2>2. Path(t, path)
    BY <1>1, <1>3, <1>6, <2>1 DEF Path, Graph
  <2> QED BY <2>2 DEF Batch
<1> QED
  BY <1>2, <1>4, <1>5 DEF t

LEMMA BeginApplyStep ==
  ASSUME GraphInv, NEW s \in Store, NEW who \in Session, BeginApply(s, who)
  PROVE  GraphInv'
<1>1. <<>> \in Seq(EventRow)
  OBVIOUS
<1>2. PICK t : t = Transaction(s, who, "apply", <<>>)
  OBVIOUS
<1>3. Begun(t) /\ Batch(t) /\ t.kind = "apply"
  BY <1>1, <1>2, TransactionBegins DEF Transaction
<1>4. Good(t)
  BY <1>3 DEF Good, Replays
<1> QED
  BY <1>2, <1>4, TransactionOnly DEF BeginApply

LEMMA BeginReplayStep ==
  ASSUME GraphInv, NEW s \in Store, NEW from \in Store, NEW n \in 1..Len(log[from]),
         BeginReplay(s, from, n)
  PROVE  GraphInv'
<1>1. PICK given : given = SubSeq(log[from], 1, n)
  OBVIOUS
<1>2. PICK t : t = Transaction(s, "none", "replay", given)
  OBVIOUS
<1>3. /\ log[from] \in Seq(EventRow) /\ Len(log[from]) \in Nat /\ Log(log[from])
      /\ log[s] \in Seq(EventRow)
  BY LenProperties DEF GraphInv, Consistent
<1>4. Log(given) /\ given \in Seq(EventRow) /\ Len(given) \in Nat /\ DOMAIN given = 1..Len(given)
  <2>1. n \in 0..Len(log[from])
    BY <1>3
  <2>2. Log(given)
    BY <1>1, <1>3, <2>1, LogBeginning
  <2> QED BY <2>2, LenProperties DEF Log
<1>5. Begun(t) /\ Batch(t)
  BY <1>2, <1>4, TransactionBegins
<1>6. /\ t.kind = "replay" /\ t.pc = "import" /\ t.given = given /\ t.events = given
      /\ t.log = log[s] /\ t.store = s /\ t.snaps = <<>>
  BY <1>2 DEF Transaction
<1>7. Reached(t) = 0
  BY <1>4, <1>6 DEF Reached
<1>8. Imports(t)
  BY <1>4, <1>6, <1>7 DEF Imports
<1>9. Continues(t)
  <2> SUFFICES ASSUME IsPrefix(log[s], given)
               PROVE  log[s] = SubSeq(given, 1, IF Len(log[s]) <= 0 THEN 0 ELSE Len(log[s]))
    BY <1>6, <1>7 DEF Continues
  <2>1. Len(log[s]) \in Nat /\ log[s] = SubSeq(given, 1, Len(log[s]))
    BY <1>3, <1>4, PrefixParts, LenProperties
  <2> QED BY <2>1
<1>10. Repeats(t)
  BY <1>6 DEF Repeats
<1>11. Good(t)
  BY <1>5, <1>8, <1>9, <1>10 DEF Good, Replays
<1> QED
  BY <1>1, <1>2, <1>11, TransactionOnly DEF BeginReplay

----------------------------------------------------------------------------
(* Where a replay is. *)

LEMMA GoodParts ==
  ASSUME GraphInv, NEW t, t = tx, ~Running("idle")
  PROVE  /\ Good(t) /\ t \in TxRecord
         /\ t.log \in Seq(EventRow) /\ Len(t.log) \in Nat /\ DOMAIN t.log = 1..Len(t.log)
         /\ t.snaps \in Seq(Snap) /\ Len(t.snaps) \in Nat
         /\ t.events \in Seq(EventRow) /\ Len(t.events) \in Nat /\ DOMAIN t.events = 1..Len(t.events)
         /\ t.given \in Seq(EventRow) /\ Len(t.given) \in Nat /\ DOMAIN t.given = 1..Len(t.given)
         /\ log[t.store] \in Seq(EventRow) /\ Len(log[t.store]) \in Nat
<1>1. Good(t)
  BY DEF GraphInv, Running, Idle
<1>2. t \in TxRecord
  BY <1>1 DEF Good, Begun
<1>3. /\ t.log \in Seq(EventRow) /\ t.snaps \in Seq(Snap) /\ t.events \in Seq(EventRow)
      /\ t.given \in Seq(EventRow) /\ t.store \in Store
  BY <1>2 DEF TxRecord
<1>4. log[t.store] \in Seq(EventRow)
  BY <1>3 DEF GraphInv
<1> QED
  BY <1>1, <1>2, <1>3, <1>4, LenProperties

\* The event a replay is at.
LEMMA AtEvent ==
  ASSUME GraphInv, NEW t, t = tx, ~Running("idle"), t.kind = "replay", t.events # <<>>
  PROVE  /\ Head(t.events) = Next1(t) /\ Next1(t) \in EventRow
         /\ Reached(t) \in Nat /\ Reached(t) + 1 <= Len(t.given) /\ Reached(t) + 1 \in DOMAIN t.given
         /\ Len(Tail(t.events)) = Len(t.events) - 1 /\ Tail(t.events) \in Seq(EventRow)
         /\ \A k \in 1..Len(Tail(t.events)) : Tail(t.events)[k] = t.given[Reached(t) + 1 + k]
         /\ Len(t.given) - Len(Tail(t.events)) = Reached(t) + 1
<1>1. /\ t.events \in Seq(EventRow) /\ Len(t.events) \in Nat
      /\ t.given \in Seq(EventRow) /\ Len(t.given) \in Nat /\ DOMAIN t.given = 1..Len(t.given)
      /\ Good(t)
  BY GoodParts
<1>2. Imports(t)
  BY <1>1 DEF Good, Replays
<1>3. /\ Head(t.events) = t.events[1] /\ Len(t.events) > 0
      /\ Len(Tail(t.events)) = Len(t.events) - 1 /\ Tail(t.events) \in Seq(EventRow)
      /\ \A k \in 1..Len(Tail(t.events)) : Tail(t.events)[k] = t.events[k + 1]
  BY <1>1
<1>8. PICK d : d = Reached(t)
  OBVIOUS
<1>9. d = Len(t.given) - Len(t.events)
  BY <1>8 DEF Reached
<1>10. d \in 0..Len(t.given) /\ \A k \in 1..Len(t.events) : t.events[k] = t.given[d + k]
  BY <1>2, <1>8 DEF Imports
<1>11. PICK g \in Nat, m \in Nat : g = Len(t.given) /\ m = Len(t.events)
  BY <1>1
<1>12. d \in 0..g /\ d = g - m /\ m > 0
  BY <1>3, <1>9, <1>10, <1>11
<1>13. d \in Nat /\ d + 1 <= g /\ d + 1 \in 1..g /\ g - (m - 1) = d + 1
  BY <1>12
<1>4. d \in Nat /\ d + 1 <= Len(t.given) /\ d + 1 \in DOMAIN t.given
  BY <1>1, <1>11, <1>13
<1>5. t.events[1] = t.given[d + 1] /\ t.given[d + 1] \in EventRow
  BY <1>1, <1>3, <1>4, <1>10, ElementOfSeq
<1>6. \A k \in 1..Len(Tail(t.events)) : Tail(t.events)[k] = t.given[d + 1 + k]
  <2> TAKE k \in 1..Len(Tail(t.events))
  <2>2. k \in 1..(m - 1)
    BY <1>3, <1>11
  <2>3. k + 1 \in 1..m /\ d + (k + 1) = d + 1 + k
    BY <1>11, <1>13, <2>2
  <2>1. k + 1 \in 1..Len(t.events) /\ d + (k + 1) = d + 1 + k
    BY <1>11, <2>3
  <2> QED BY <1>3, <1>10, <2>1
<1>7. Len(t.given) - Len(Tail(t.events)) = d + 1
  BY <1>3, <1>11, <1>13
<1> QED
  BY <1>3, <1>4, <1>5, <1>6, <1>7, <1>8 DEF Next1

\* While a replay is between two events it knows the next one exactly if the log it
\* began with is longer.
LEMMA KnownWhenBehind ==
  ASSUME GraphInv, NEW t, t = tx, Running("import"), t.kind = "replay", t.events # <<>>,
         IsPrefix(log[t.store], t.given)
  PROVE  /\ Len(log[t.store]) > Reached(t) => InLog(t, Next1(t))
         /\ Len(log[t.store]) <= Reached(t) =>
              /\ t.log = SubSeq(t.given, 1, Reached(t))
              /\ ~IdTaken(t, Next1(t)) /\ Len(t.log) < MaxEvents
<1>0. ~Running("idle") /\ t.pc = "import"
  BY DEF Running
<1>1. /\ Good(t) /\ t.log \in Seq(EventRow) /\ DOMAIN t.log = 1..Len(t.log)
      /\ t.given \in Seq(EventRow) /\ Len(t.given) \in Nat /\ DOMAIN t.given = 1..Len(t.given)
      /\ log[t.store] \in Seq(EventRow) /\ Len(log[t.store]) \in Nat
  BY <1>0, GoodParts
<1>2. Reached(t) \in Nat /\ Reached(t) + 1 <= Len(t.given) /\ Next1(t) = t.given[Reached(t) + 1]
  BY <1>0, AtEvent DEF Next1
<1>3. t.log = SubSeq(t.given, 1, IF Len(log[t.store]) <= Reached(t) THEN Reached(t)
                                  ELSE Len(log[t.store]))
  BY <1>0, <1>1 DEF Good, Replays, Continues
<1>4. Log(t.given)
  BY <1>1 DEF Good, Replays, Imports
<1>5. CASE Len(log[t.store]) > Reached(t)
  <2>1. t.log = SubSeq(t.given, 1, Len(log[t.store])) /\ Len(log[t.store]) <= Len(t.given)
    BY <1>1, <1>2, <1>3, <1>5, PrefixParts
  <2>2. /\ DOMAIN t.log = 1..Len(log[t.store])
        /\ \A k \in 1..Len(log[t.store]) : t.log[k] = t.given[k]
    BY <1>1, <2>1, Beginning
  <2>3. Reached(t) + 1 \in DOMAIN t.log /\ t.log[Reached(t) + 1] = Next1(t)
    BY <1>1, <1>2, <1>5, <2>2
  <2> QED BY <1>1, <1>2, <1>5, <2>3 DEF InLog
<1>6. CASE Len(log[t.store]) <= Reached(t)
  <2>1. t.log = SubSeq(t.given, 1, Reached(t)) /\ Reached(t) \in 0..Len(t.given)
    BY <1>1, <1>2, <1>3, <1>6
  <2>2. /\ DOMAIN t.log = 1..Reached(t) /\ Len(t.log) = Reached(t)
        /\ \A k \in 1..Reached(t) : t.log[k] = t.given[k]
    BY <1>1, <2>1, Beginning
  <2>3. ~IdTaken(t, Next1(t))
    <3> SUFFICES ASSUME NEW k \in 1..Reached(t), t.given[k].o.id = t.given[Reached(t) + 1].o.id
                 PROVE  FALSE
      BY <1>2, <2>2 DEF IdTaken
    <3>1. k \in DOMAIN t.given /\ Reached(t) + 1 \in DOMAIN t.given /\ k # Reached(t) + 1
      BY <1>1, <1>2
    <3> QED BY <1>4, <3>1 DEF Log, Distinct
  <2>4. Len(t.log) < MaxEvents
    BY <1>1, <1>2, <1>4, <2>2, LimitsAreNaturals DEF Log
  <2> QED BY <1>1, <1>2, <1>6, <2>1, <2>3, <2>4
<1> QED
  BY <1>1, <1>2, <1>5, <1>6

\* A replay of a beginning of the log knows every event.
LEMMA KnownWhenRepeating ==
  ASSUME GraphInv, NEW t, t = tx, ~Running("idle"), t.kind = "replay", t.events # <<>>,
         IsPrefix(t.given, log[t.store])
  PROVE  t.pc = "import" /\ InLog(t, Next1(t))
<1>1. /\ Good(t) /\ t.log \in Seq(EventRow) /\ DOMAIN t.log = 1..Len(t.log)
      /\ t.given \in Seq(EventRow) /\ Len(t.given) \in Nat
      /\ log[t.store] \in Seq(EventRow) /\ Len(log[t.store]) \in Nat
  BY GoodParts
<1>2. Reached(t) \in Nat /\ Reached(t) + 1 <= Len(t.given) /\ Next1(t) = t.given[Reached(t) + 1]
  BY AtEvent DEF Next1
<1>3. t.pc = "import" /\ t.log = log[t.store]
  BY <1>1 DEF Good, Replays, Repeats
<1>4. /\ Len(t.given) <= Len(log[t.store])
      /\ \A k \in 1..Len(t.given) : t.given[k] = log[t.store][k]
  BY <1>1, PrefixParts
<1>5. Reached(t) + 1 \in DOMAIN t.log /\ t.log[Reached(t) + 1] = Next1(t)
  BY <1>1, <1>2, <1>3, <1>4
<1> QED
  BY <1>3, <1>5 DEF InLog

LEMMA KnownIsTaken ==
  ASSUME NEW t, NEW event, InLog(t, event)
  PROVE  IdTaken(t, event)
BY DEF InLog, IdTaken

----------------------------------------------------------------------------
(* A replay goes from event to event. *)

LEMMA SkipEventStep ==
  ASSUME GraphInv, SkipEvent
  PROVE  GraphInv'
<1>1. PICK t : t = tx
  OBVIOUS
<1>2. PICK s : s = [t EXCEPT !.events = Tail(t.events)]
  OBVIOUS
<1>3. ~Running("idle") /\ t.pc = "import" /\ t.events # <<>> /\ tx' = s /\ Tables
  BY <1>1, <1>2 DEF SkipEvent, Importing, Running
<1>4. /\ Good(t) /\ t \in TxRecord /\ t.kind = "replay" /\ t.snaps = <<>>
      /\ log[t.store] \in Seq(EventRow) /\ Len(log[t.store]) \in Nat
  BY <1>1, <1>3, GoodParts DEF Good, Begun
<1>5. /\ Head(t.events) = Next1(t) /\ Reached(t) \in Nat /\ Reached(t) + 1 <= Len(t.given)
      /\ Tail(t.events) \in Seq(EventRow)
      /\ \A k \in 1..Len(Tail(t.events)) : Tail(t.events)[k] = t.given[Reached(t) + 1 + k]
      /\ Len(t.given) - Len(Tail(t.events)) = Reached(t) + 1
      /\ Len(t.given) \in Nat
  BY <1>1, <1>3, <1>4, AtEvent, GoodParts
<1>6. InLog(t, Next1(t))
  BY <1>1, <1>5 DEF SkipEvent, Known, InLog
<1>7. /\ s \in TxRecord /\ s.pc = "import" /\ s.kind = "replay" /\ s.snaps = <<>>
      /\ s.log = t.log /\ s.nodes = t.nodes /\ s.edges = t.edges /\ s.store = t.store
      /\ s.given = t.given /\ s.events = Tail(t.events)
  BY <1>2, <1>3, <1>4, <1>5 DEF TxRecord
<1>8. Reached(s) = Reached(t) + 1
  BY <1>5, <1>7 DEF Reached
<1>9. Begun(s) /\ Batch(s)
  BY <1>4, <1>7 DEF Good, Begun, Batch
<1>10. Imports(s)
  <2>1. Reached(s) \in 0..Len(s.given)
    BY <1>5, <1>7, <1>8
  <2>2. \A j \in 1..Reached(s) : InLog(s, s.given[j])
    <3> TAKE j \in 1..Reached(s)
    <3>1. CASE j = Reached(t) + 1
      BY <1>6, <1>7, <3>1 DEF InLog, Next1
    <3>2. CASE j # Reached(t) + 1
      <4>1. j \in 1..Reached(t)
        BY <1>5, <1>8, <3>2
      <4> QED BY <1>4, <1>7, <4>1 DEF Good, Replays, Imports, InLog
    <3> QED BY <3>1, <3>2
  <2>3. Log(s.given)
    BY <1>4, <1>7 DEF Good, Replays, Imports
  <2> QED BY <1>5, <1>7, <1>8, <2>1, <2>2, <2>3 DEF Imports
<1>11. Continues(s)
  <2> SUFFICES ASSUME IsPrefix(log[t.store], t.given)
               PROVE  t.log = SubSeq(t.given, 1, IF Len(log[t.store]) <= Reached(t) + 1
                                                 THEN Reached(t) + 1 ELSE Len(log[t.store]))
    BY <1>7, <1>8 DEF Continues
  <2>1. Len(log[t.store]) > Reached(t)
    <3>1. IdTaken(t, Next1(t))
      BY <1>6, KnownIsTaken
    <3> QED BY <1>1, <1>3, <1>4, <1>5, <3>1, KnownWhenBehind DEF Running
  <2>2. t.log = SubSeq(t.given, 1, Len(log[t.store]))
    BY <1>3, <1>4, <1>5, <2>1 DEF Good, Replays, Continues
  <2> QED BY <1>4, <1>5, <2>1, <2>2
<1>12. Repeats(s)
  BY <1>4, <1>7 DEF Good, Replays, Repeats
<1>13. Good(s)
  BY <1>9, <1>10, <1>11, <1>12 DEF Good, Replays
<1> QED
  BY <1>3, <1>13, TransactionOnly

LEMMA ImportEventStep ==
  ASSUME GraphInv, ImportEvent
  PROVE  GraphInv'
<1>1. PICK t : t = tx
  OBVIOUS
<1>2. PICK s : s = [t EXCEPT !.pc = "validate", !.session = Head(t.events).session,
                             !.viewNodes = t.nodes, !.viewEdges = t.edges]
  OBVIOUS
<1>3. /\ ~Running("idle") /\ Running("import") /\ t.pc = "import" /\ t.events # <<>>
      /\ tx' = s /\ Tables
  BY <1>1, <1>2 DEF ImportEvent, Importing, Import, Running
<1>4. /\ Good(t) /\ t \in TxRecord /\ t.kind = "replay" /\ t.snaps = <<>>
      /\ log[t.store] \in Seq(EventRow) /\ Len(log[t.store]) \in Nat
      /\ Len(t.log) \in Nat
  BY <1>1, <1>3, GoodParts DEF Good, Begun
<1>5. /\ Head(t.events) = Next1(t) /\ Reached(t) \in Nat /\ Next1(t).session \in Session
  BY <1>1, <1>3, <1>4, AtEvent DEF EventRow
<1>6. ~IdTaken(t, Next1(t)) /\ Len(t.log) < MaxEvents
  BY <1>1, <1>4, <1>5, LimitsAreNaturals DEF ImportEvent, Taken, IdTaken, Full
<1>7. /\ s \in TxRecord /\ s.pc = "validate" /\ s.kind = "replay" /\ s.snaps = <<>>
      /\ s.log = t.log /\ s.nodes = t.nodes /\ s.edges = t.edges /\ s.store = t.store
      /\ s.viewNodes = t.nodes /\ s.viewEdges = t.edges
      /\ s.given = t.given /\ s.events = t.events /\ s.session = Next1(t).session
  BY <1>2, <1>3, <1>4, <1>5 DEF TxRecord
<1>8. Reached(s) = Reached(t) /\ Next1(s) = Next1(t) /\ Len(s.snaps) = 0
  BY <1>7 DEF Reached, Next1
<1>9. Begun(s)
  BY <1>4, <1>5, <1>7 DEF Good, Begun
<1>10. Batch(s)
  <2> DEFINE path == [k \in 1..1 |-> [nodes |-> t.nodes, edges |-> t.edges]]
  <2>1. DOMAIN path = 1..1 /\ path[1] = [nodes |-> t.nodes, edges |-> t.edges]
    OBVIOUS
  <2>2. t.nodes \in NodeTable /\ t.edges \in EdgeTable
    BY <1>4 DEF TxRecord
  <2> HIDE DEF path
  <2>3. Path(s, path)
    BY <1>7, <1>8, <2>1, <2>2 DEF Path, Graph
  <2> QED BY <2>3 DEF Batch
<1>11. Imports(s)
  <2>1. Imports(t)
    BY <1>4 DEF Good, Replays
  <2>2. s.events # <<>> /\ s.session = Next1(s).session /\ Len(s.snaps) <= 1 /\ ~IdTaken(s, Next1(s))
    BY <1>3, <1>6, <1>7, <1>8 DEF IdTaken
  <2> QED BY <1>6, <1>7, <1>8, <2>1, <2>2 DEF Imports, InLog
<1>12. Continues(s)
  <2> SUFFICES ASSUME IsPrefix(log[t.store], t.given)
               PROVE  /\ t.log = SubSeq(t.given, 1, IF Len(log[t.store]) <= Reached(t)
                                                    THEN Reached(t) ELSE Len(log[t.store]))
                      /\ Len(log[t.store]) <= Reached(t)
    BY <1>7, <1>8 DEF Continues
  <2>1. Len(log[t.store]) <= Reached(t)
    <3>1. ~InLog(t, Next1(t))
      BY <1>6, KnownIsTaken
    <3> QED BY <1>1, <1>3, <1>4, <1>5, <3>1, KnownWhenBehind
  <2>2. t.log = SubSeq(t.given, 1, Reached(t))
    BY <1>1, <1>3, <1>4, <2>1, KnownWhenBehind
  <2> QED BY <2>1, <2>2
<1>13. Repeats(s)
  <2>1. ~IsPrefix(t.given, log[t.store])
    BY <1>1, <1>3, <1>4, <1>6, KnownWhenRepeating, KnownIsTaken
  <2> QED BY <1>7, <2>1 DEF Repeats
<1>14. Good(s)
  BY <1>9, <1>10, <1>11, <1>12, <1>13 DEF Good, Replays
<1> QED
  BY <1>3, <1>14, TransactionOnly

----------------------------------------------------------------------------
(* A batch is validated: the path it takes gets one step longer.            *)

LEMMA ValidateGives ==
  ASSUME GraphInv, ValidateNode \/ ValidateEdge, NEW t, t = tx
  PROVE  /\ t.pc = "validate" /\ ~Running("idle") /\ Tables
         /\ \E o \in Offered :
              /\ Valid(t.viewNodes, t.viewEdges, o)
              /\ tx' = [t EXCEPT !.snaps = Append(t.snaps,
                                   [o |-> o, row |-> RowAfter(t.viewNodes, t.viewEdges, o)]),
                                 !.viewNodes = NodesAfter(t.viewNodes, o),
                                 !.viewEdges = EdgesAfter(t.viewEdges, o)]
<1>1. t.pc = "validate" /\ ~Running("idle") /\ Tables
  BY DEF ValidateNode, ValidateEdge, Running
<1>2. t \in TxRecord
  BY <1>1, GoodParts
<1>3. CASE ValidateNode
  <2>1. PICK o \in Offered :
          /\ IsNode(o) /\ Valid(t.viewNodes, t.viewEdges, o)
          /\ tx' = [t EXCEPT !.snaps = Append(t.snaps, [o |-> o, row |-> NodeAfter(t.viewNodes, o)]),
                             !.viewNodes = [t.viewNodes EXCEPT ![o.of] = NodeAfter(t.viewNodes, o)],
                             !.viewEdges = IF o.op = "NODE_RETIRE"
                                           THEN RetireEdges(t.viewEdges, o.of) ELSE t.viewEdges]
    BY <1>3 DEF ValidateNode, Snapshot
  <2>2. /\ NodesAfter(t.viewNodes, o) = [t.viewNodes EXCEPT ![o.of] = NodeAfter(t.viewNodes, o)]
        /\ EdgesAfter(t.viewEdges, o) = IF o.op = "NODE_RETIRE"
                                        THEN RetireEdges(t.viewEdges, o.of) ELSE t.viewEdges
        /\ RowAfter(t.viewNodes, t.viewEdges, o) = NodeAfter(t.viewNodes, o)
    BY <2>1 DEF NodesAfter, EdgesAfter, RowAfter
  <2> QED BY <1>1, <2>1, <2>2
<1>4. CASE ValidateEdge
  <2>1. PICK o \in Offered :
          /\ ~IsNode(o) /\ Valid(t.viewNodes, t.viewEdges, o)
          /\ tx' = [t EXCEPT !.snaps = Append(t.snaps, [o |-> o, row |-> EdgeAfter(t.viewEdges, o)]),
                             !.viewEdges = [t.viewEdges EXCEPT ![o.of] = EdgeAfter(t.viewEdges, o)]]
    BY <1>4 DEF ValidateEdge, Snapshot
  <2>2. /\ NodesAfter(t.viewNodes, o) = t.viewNodes
        /\ EdgesAfter(t.viewEdges, o) = [t.viewEdges EXCEPT ![o.of] = EdgeAfter(t.viewEdges, o)]
        /\ RowAfter(t.viewNodes, t.viewEdges, o) = EdgeAfter(t.viewEdges, o)
    BY <2>1 DEF NodesAfter, EdgesAfter, RowAfter, IsNode
  <2>3. tx' = [t EXCEPT !.snaps = Append(t.snaps, [o |-> o, row |-> EdgeAfter(t.viewEdges, o)]),
                        !.viewNodes = t.viewNodes,
                        !.viewEdges = [t.viewEdges EXCEPT ![o.of] = EdgeAfter(t.viewEdges, o)]]
    BY <1>2, <2>1 DEF TxRecord
  <2> QED BY <1>1, <2>1, <2>2, <2>3
<1> QED
  BY <1>1, <1>3, <1>4

LEMMA OfferedIsOperation ==
  ASSUME GraphInv, NEW t, t = tx, Running("validate"), NEW o \in Offered
  PROVE  /\ o \in Operation
         /\ t.kind = "replay" => t.snaps = <<>> /\ t.events # <<>> /\ o = Next1(t).o
         /\ Len(t.log) + Len(t.snaps) < MaxEvents
<1>1. ~Running("idle") /\ t.pc = "validate"
  BY DEF Running
<1>2. Good(t) /\ Len(t.log) \in Nat /\ Len(t.snaps) \in Nat /\ t.kind \in {"apply", "replay"}
  BY <1>1, GoodParts DEF TxRecord
<1>3. CASE t.kind = "replay"
  <2>1. t.snaps = <<>> /\ o = Head(t.events).o
    BY <1>3 DEF Offered
  <2>2. t.events # <<>> /\ Len(t.log) < MaxEvents
    BY <1>1, <1>2, <1>3 DEF Good, Replays, Imports
  <2>3. Head(t.events) = Next1(t) /\ Next1(t).o \in Operation
    BY <1>1, <1>3, <2>2, AtEvent DEF EventRow
  <2>4. Len(t.snaps) = 0
    BY <2>1
  <2> QED BY <1>2, <2>1, <2>2, <2>3, <2>4
<1>4. CASE t.kind = "apply"
  <2>1. o \in Operation /\ ~Full(Len(t.log) + Len(t.snaps))
    BY <1>4 DEF Offered
  <2>2. PICK m \in Nat : m = MaxEvents
    BY LimitsAreNaturals
  <2>3. PICK i \in Nat, j \in Nat : i = Len(t.log) /\ j = Len(t.snaps)
    BY <1>2
  <2>4. ~(i + j >= m)
    BY <2>1, <2>2, <2>3 DEF Full
  <2>6. i + j < m
    BY <2>4
  <2>5. i + j < MaxEvents
    BY <2>2, <2>6
  <2> QED BY <1>4, <2>1, <2>3, <2>5
<1> QED
  BY <1>2, <1>3, <1>4

LEMMA PathGrows ==
  ASSUME NEW t \in TxRecord, NEW path, Path(t, path), NEW o \in Operation, NEW row,
         Valid(t.viewNodes, t.viewEdges, o), row = RowAfter(t.viewNodes, t.viewEdges, o),
         NEW s, s = [t EXCEPT !.snaps = Append(t.snaps, [o |-> o, row |-> row]),
                              !.viewNodes = NodesAfter(t.viewNodes, o),
                              !.viewEdges = EdgesAfter(t.viewEdges, o)]
  PROVE  /\ s \in TxRecord
         /\ \E longer : Path(s, longer)
<1>1. /\ t.snaps \in Seq(Snap) /\ Len(t.snaps) \in Nat
      /\ t.viewNodes \in NodeTable /\ t.viewEdges \in EdgeTable
  BY LenProperties DEF TxRecord
<1>2. NodesAfter(t.viewNodes, o) \in NodeTable /\ EdgesAfter(t.viewEdges, o) \in EdgeTable
  BY <1>1, AfterKeepsTables
<1>3. row \in NodeRow \cup EdgeRow
  <2>1. CASE IsNode(o)
    <3>1. row = NodesAfter(t.viewNodes, o)[o.of] /\ o.of \in Node
      BY <1>1, <2>1, OperationParts DEF NodesAfter, RowAfter, NodeTable
    <3> QED BY <1>2, <3>1 DEF NodeTable
  <2>2. CASE ~IsNode(o)
    <3>1. row = EdgesAfter(t.viewEdges, o)[o.of] /\ o.of \in Edge
      BY <1>1, <2>2, OperationParts DEF EdgesAfter, RowAfter, EdgeTable, IsNode
    <3> QED BY <1>2, <3>1 DEF EdgeTable
  <2> QED BY <2>1, <2>2
<1> DEFINE snap == [o |-> o, row |-> row]
<1>4. snap \in Snap /\ snap.o = o /\ snap.row = row
  BY <1>3 DEF Snap
<1> HIDE DEF snap
<1>5. /\ Append(t.snaps, snap) \in Seq(Snap) /\ Len(Append(t.snaps, snap)) = Len(t.snaps) + 1
      /\ \A k \in 1..Len(t.snaps) : Append(t.snaps, snap)[k] = t.snaps[k]
      /\ Append(t.snaps, snap)[Len(t.snaps) + 1] = snap
  BY <1>1, <1>4
<1>6. s = [t EXCEPT !.snaps = Append(t.snaps, snap), !.viewNodes = NodesAfter(t.viewNodes, o),
                    !.viewEdges = EdgesAfter(t.viewEdges, o)]
  BY DEF snap
<1>7. s \in TxRecord
  BY <1>2, <1>5, <1>6 DEF TxRecord
<1>8. /\ s.snaps = Append(t.snaps, snap) /\ s.viewNodes = NodesAfter(t.viewNodes, o)
      /\ s.viewEdges = EdgesAfter(t.viewEdges, o) /\ s.nodes = t.nodes /\ s.edges = t.edges
  BY <1>6 DEF TxRecord
<1>9. PICK n \in Nat : n = Len(t.snaps)
  BY <1>1
<1> DEFINE last == [nodes |-> NodesAfter(t.viewNodes, o), edges |-> EdgesAfter(t.viewEdges, o)]
           longer == [k \in 1..(n + 2) |-> IF k = n + 2 THEN last ELSE path[k]]
<1>10. /\ last \in Graph /\ last.nodes = NodesAfter(t.viewNodes, o)
       /\ last.edges = EdgesAfter(t.viewEdges, o)
  BY <1>2 DEF Graph
<1> HIDE DEF last
<1>11. /\ DOMAIN longer = 1..(n + 2) /\ longer[n + 2] = last
       /\ \A k \in 1..(n + 1) : longer[k] = path[k]
  BY <1>9
<1> HIDE DEF longer
<1>12. /\ DOMAIN path = 1..(n + 1) /\ \A k \in 1..(n + 1) : path[k] \in Graph
       /\ path[1].nodes = t.nodes /\ path[1].edges = t.edges
       /\ path[n + 1].nodes = t.viewNodes /\ path[n + 1].edges = t.viewEdges
       /\ \A k \in 1..n :
            /\ Valid(path[k].nodes, path[k].edges, t.snaps[k].o)
            /\ t.snaps[k].row = RowAfter(path[k].nodes, path[k].edges, t.snaps[k].o)
            /\ path[k + 1].nodes = NodesAfter(path[k].nodes, t.snaps[k].o)
            /\ path[k + 1].edges = EdgesAfter(path[k].edges, t.snaps[k].o)
  BY <1>9 DEF Path
<1>13. Len(s.snaps) = n + 1 /\ n + 1 + 1 = n + 2 /\ s.snaps[n + 1] = snap
       /\ \A k \in 1..n : s.snaps[k] = t.snaps[k]
  BY <1>5, <1>8, <1>9
<1>14. ASSUME NEW k \in 1..(n + 1)
       PROVE  /\ Valid(longer[k].nodes, longer[k].edges, s.snaps[k].o)
              /\ s.snaps[k].row = RowAfter(longer[k].nodes, longer[k].edges, s.snaps[k].o)
              /\ longer[k + 1].nodes = NodesAfter(longer[k].nodes, s.snaps[k].o)
              /\ longer[k + 1].edges = EdgesAfter(longer[k].edges, s.snaps[k].o)
  <2>1. CASE k = n + 1
    <3>1. longer[k] = path[n + 1] /\ longer[k + 1] = last /\ s.snaps[k] = snap
      BY <1>11, <1>13, <2>1
    <3> QED BY <1>4, <1>10, <1>12, <3>1
  <2>2. CASE k # n + 1
    <3>1. k \in 1..n /\ k + 1 \in 1..(n + 1)
      BY <1>9, <2>2
    <3>2. longer[k] = path[k] /\ longer[k + 1] = path[k + 1] /\ s.snaps[k] = t.snaps[k]
      BY <1>11, <1>13, <3>1
    <3> QED BY <1>12, <3>1, <3>2
  <2> QED BY <2>1, <2>2
<1>15. \A k \in 1..(n + 2) : longer[k] \in Graph
  BY <1>10, <1>11, <1>12
<1>16. longer[1] = path[1]
  BY <1>11
<1>17. Path(s, longer)
  BY <1>8, <1>10, <1>11, <1>12, <1>13, <1>14, <1>15, <1>16 DEF Path
<1> QED
  BY <1>7, <1>17

LEMMA ValidateStep ==
  ASSUME GraphInv, ValidateNode \/ ValidateEdge
  PROVE  GraphInv'
<1>1. PICK t : t = tx
  OBVIOUS
<1>2. t.pc = "validate" /\ ~Running("idle") /\ Running("validate") /\ Tables
  BY <1>1, ValidateGives DEF Running
<1>3. PICK o \in Offered :
        /\ Valid(t.viewNodes, t.viewEdges, o)
        /\ tx' = [t EXCEPT !.snaps = Append(t.snaps,
                             [o |-> o, row |-> RowAfter(t.viewNodes, t.viewEdges, o)]),
                           !.viewNodes = NodesAfter(t.viewNodes, o),
                           !.viewEdges = EdgesAfter(t.viewEdges, o)]
  BY <1>1, ValidateGives
<1>4. PICK s : s = tx'
  OBVIOUS
<1> DEFINE row == RowAfter(t.viewNodes, t.viewEdges, o)
<1>5. /\ Good(t) /\ t \in TxRecord /\ t.snaps \in Seq(Snap) /\ Len(t.snaps) \in Nat
      /\ Len(t.log) \in Nat
  BY <1>1, <1>2, GoodParts
<1>6. /\ o \in Operation
      /\ t.kind = "replay" => t.snaps = <<>> /\ t.events # <<>> /\ o = Next1(t).o
      /\ Len(t.log) + Len(t.snaps) < MaxEvents
  BY <1>1, <1>2, OfferedIsOperation
<1>7. s \in TxRecord /\ \E longer : Path(s, longer)
  <2>1. PICK path : Path(t, path)
    BY <1>2, <1>5 DEF Good, Batch
  <2> QED BY <1>3, <1>4, <1>5, <1>6, <2>1, PathGrows
<1>8. /\ s.pc = "validate" /\ s.kind = t.kind /\ s.snaps = Append(t.snaps, [o |-> o, row |-> row])
      /\ s.log = t.log /\ s.nodes = t.nodes /\ s.edges = t.edges /\ s.store = t.store
      /\ s.given = t.given /\ s.events = t.events /\ s.session = t.session
  BY <1>2, <1>3, <1>4, <1>5 DEF TxRecord
<1>9. [o |-> o, row |-> row].o = o
  OBVIOUS
<1>10. PICK snap : snap = [o |-> o, row |-> row]
  OBVIOUS
<1>11. Len(s.snaps) = Len(t.snaps) + 1 /\ (t.snaps = <<>> => s.snaps[1] = snap)
  <2>1. s.snaps = Append(t.snaps, snap)
    BY <1>8, <1>10
  <2> QED BY <1>5, <2>1
<1>12. Begun(s)
  <2>2. PICK i \in Nat, j \in Nat : i = Len(t.log) /\ j = Len(t.snaps)
    BY <1>5
  <2>4. PICK m \in Nat : m = MaxEvents
    BY LimitsAreNaturals
  <2>5. i + j < m
    BY <1>6, <2>2, <2>4
  <2>6. i + (j + 1) <= m
    BY <2>5
  <2>3. i + (j + 1) <= MaxEvents
    BY <2>4, <2>6
  <2>1. Len(s.log) + Len(s.snaps) <= MaxEvents
    BY <1>8, <1>11, <2>2, <2>3
  <2> QED BY <1>2, <1>5, <1>7, <1>8, <2>1 DEF Good, Begun
<1>13. Batch(s)
  BY <1>7 DEF Batch
<1>14. Replays(s)
  <2> SUFFICES ASSUME t.kind = "replay" PROVE Replays(s)
    BY <1>8 DEF Replays
  <2>1. Imports(t) /\ Continues(t) /\ Repeats(t)
    BY <1>5 DEF Good, Replays
  <2>2. Reached(s) = Reached(t) /\ Next1(s) = Next1(t)
    BY <1>8 DEF Reached, Next1
  <2>3. t.snaps = <<>> /\ Len(s.snaps) = 1 /\ s.snaps[1].o = Next1(s).o
    <3>1. Len(t.snaps) = 0
      BY <1>6
    <3> QED BY <1>5, <1>6, <1>9, <1>10, <1>11, <2>2, <3>1
  <2>4. Imports(s)
    BY <1>2, <1>8, <2>1, <2>2, <2>3 DEF Imports, InLog, IdTaken
  <2>5. Continues(s)
    BY <1>2, <1>8, <2>1, <2>2 DEF Continues
  <2>6. Repeats(s)
    BY <1>2, <1>8, <2>1 DEF Repeats
  <2> QED BY <2>4, <2>5, <2>6 DEF Replays
<1>15. Good(s)
  BY <1>12, <1>13, <1>14 DEF Good
<1> QED
  BY <1>2, <1>4, <1>15, TransactionOnly

LEMMA BeginWritingStep ==
  ASSUME GraphInv, BeginWriting
  PROVE  GraphInv'
<1>1. PICK t : t = tx
  OBVIOUS
<1>2. PICK s : s = [t EXCEPT !.pc = "write"]
  OBVIOUS
<1>3. t.pc = "validate" /\ ~Running("idle") /\ t.snaps # <<>> /\ tx' = s /\ Tables
  BY <1>1, <1>2 DEF BeginWriting, Running
<1>4. Good(t) /\ t \in TxRecord
  BY <1>1, <1>3, GoodParts
<1>5. /\ s \in TxRecord /\ s.pc = "write" /\ s.kind = t.kind /\ s.snaps = t.snaps
      /\ s.log = t.log /\ s.nodes = t.nodes /\ s.edges = t.edges /\ s.store = t.store
      /\ s.viewNodes = t.viewNodes /\ s.viewEdges = t.viewEdges
      /\ s.given = t.given /\ s.events = t.events /\ s.session = t.session
  BY <1>2, <1>4 DEF TxRecord
<1>6. Begun(s)
  BY <1>3, <1>4, <1>5 DEF Good, Begun
<1>7. Batch(s)
  BY <1>3, <1>4, <1>5 DEF Good, Batch, Path
<1>8. Reached(s) = Reached(t) /\ Next1(s) = Next1(t)
  BY <1>5 DEF Reached, Next1
<1>9. Replays(s)
  BY <1>3, <1>4, <1>5, <1>8 DEF Good, Replays, Imports, Continues, Repeats, InLog, IdTaken
<1>10. Good(s)
  BY <1>6, <1>7, <1>9 DEF Good
<1> QED
  BY <1>3, <1>10, TransactionOnly

----------------------------------------------------------------------------
(* The batch is written: the first step of its path is taken.               *)

LEMMA PathShrinks ==
  ASSUME NEW t \in TxRecord, NEW path, Path(t, path), t.snaps # <<>>,
         NEW s \in TxRecord, s.snaps = Tail(t.snaps),
         s.nodes = NodesAfter(t.nodes, Head(t.snaps).o),
         s.edges = EdgesAfter(t.edges, Head(t.snaps).o),
         s.viewNodes = t.viewNodes, s.viewEdges = t.viewEdges
  PROVE  \E shorter : Path(s, shorter)
<1>1. PICK n \in Nat : n = Len(t.snaps) - 1 /\ Len(t.snaps) = n + 1
  <2>1. t.snaps \in Seq(Snap) /\ Len(t.snaps) \in Nat /\ Len(t.snaps) # 0
    BY LenProperties, EmptySeq DEF TxRecord
  <2> QED BY <2>1
<1>2. /\ Head(t.snaps) = t.snaps[1] /\ Len(s.snaps) = n
      /\ \A k \in 1..n : s.snaps[k] = t.snaps[k + 1]
  BY <1>1 DEF TxRecord
<1>3. /\ DOMAIN path = 1..(n + 2) /\ \A k \in 1..(n + 2) : path[k] \in Graph
      /\ path[1].nodes = t.nodes /\ path[1].edges = t.edges
      /\ path[n + 2].nodes = t.viewNodes /\ path[n + 2].edges = t.viewEdges
      /\ \A k \in 1..(n + 1) :
           /\ Valid(path[k].nodes, path[k].edges, t.snaps[k].o)
           /\ t.snaps[k].row = RowAfter(path[k].nodes, path[k].edges, t.snaps[k].o)
           /\ path[k + 1].nodes = NodesAfter(path[k].nodes, t.snaps[k].o)
           /\ path[k + 1].edges = EdgesAfter(path[k].edges, t.snaps[k].o)
  <2>1. n + 1 + 1 = n + 2
    OBVIOUS
  <2> QED BY <1>1, <2>1 DEF Path
<1> DEFINE shorter == [k \in 1..(n + 1) |-> path[k + 1]]
<1>4. /\ DOMAIN shorter = 1..(n + 1) /\ \A k \in 1..(n + 1) : shorter[k] = path[k + 1]
  OBVIOUS
<1> HIDE DEF shorter
<1>5. \A k \in 1..(n + 1) : shorter[k] \in Graph
  <2>1. \A k \in 1..(n + 1) : k + 1 \in 1..(n + 2)
    OBVIOUS
  <2> QED BY <1>3, <1>4, <2>1
<1>6. shorter[1].nodes = s.nodes /\ shorter[1].edges = s.edges
  <2>1. 1 \in 1..(n + 1) /\ 1 + 1 = 2
    OBVIOUS
  <2> QED BY <1>2, <1>3, <1>4, <2>1
<1>7. shorter[n + 1].nodes = s.viewNodes /\ shorter[n + 1].edges = s.viewEdges
  <2>1. n + 1 \in 1..(n + 1) /\ n + 1 + 1 = n + 2
    OBVIOUS
  <2> QED BY <1>3, <1>4, <2>1
<1>8. ASSUME NEW k \in 1..n
      PROVE  /\ Valid(shorter[k].nodes, shorter[k].edges, s.snaps[k].o)
             /\ s.snaps[k].row = RowAfter(shorter[k].nodes, shorter[k].edges, s.snaps[k].o)
             /\ shorter[k + 1].nodes = NodesAfter(shorter[k].nodes, s.snaps[k].o)
             /\ shorter[k + 1].edges = EdgesAfter(shorter[k].edges, s.snaps[k].o)
  <2>1. k \in 1..(n + 1) /\ k + 1 \in 1..(n + 1)
    OBVIOUS
  <2>2. /\ shorter[k] = path[k + 1] /\ shorter[k + 1] = path[(k + 1) + 1]
        /\ s.snaps[k] = t.snaps[k + 1]
    BY <1>2, <1>4, <2>1
  <2> QED BY <1>3, <2>1, <2>2
<1>9. Path(s, shorter)
  BY <1>2, <1>4, <1>5, <1>6, <1>7, <1>8 DEF Path
<1> QED
  BY <1>9

\* What is written of an operation is what it makes of the tables, because its
\* snapshot was taken from the same tables.
LEMMA WriteGives ==
  ASSUME GraphInv, Write, NEW t, t = tx
  PROVE  /\ t.pc = "write" /\ ~Running("idle") /\ Tables /\ t.snaps # <<>>
         /\ Head(t.snaps) = t.snaps[1] /\ t.snaps[1].o \in Operation
         /\ Valid(t.nodes, t.edges, t.snaps[1].o)
         /\ \A k \in DOMAIN t.log : t.log[k].o.id # t.snaps[1].o.id
         /\ tx' = [t EXCEPT !.snaps = Tail(t.snaps),
                            !.log = Append(t.log, Event(t.snaps[1].o, t.session)),
                            !.nodes = NodesAfter(t.nodes, t.snaps[1].o),
                            !.edges = EdgesAfter(t.edges, t.snaps[1].o)]
<1>1. t.pc = "write" /\ ~Running("idle") /\ Tables /\ t.snaps # <<>>
  BY DEF Write, Running
<1>2. Good(t) /\ t \in TxRecord /\ t.snaps \in Seq(Snap)
  BY <1>1, GoodParts
<1>3. PICK path : Path(t, path)
  BY <1>1, <1>2 DEF Good, Batch
<1>4. Len(t.snaps) \in Nat /\ Len(t.snaps) # 0 /\ Head(t.snaps) = t.snaps[1]
  BY <1>1, <1>2, LenProperties, EmptySeq
<1>5. 1 \in 1..Len(t.snaps)
  BY <1>4
<1>6. PICK snap : snap = t.snaps[1]
  OBVIOUS
<1>7. snap.o \in Operation
  <2>1. snap \in Snap
    BY <1>2, <1>5, <1>6, ElementOfSeq
  <2> QED BY <2>1 DEF Snap
<1>8. /\ Valid(t.nodes, t.edges, snap.o)
      /\ snap.row = RowAfter(t.nodes, t.edges, snap.o)
  BY <1>3, <1>5, <1>6 DEF Path
<1>9. \A k \in DOMAIN t.log : t.log[k].o.id # snap.o.id
  BY <1>4, <1>6 DEF Write, Taken
<1>10. tx' = [t EXCEPT !.snaps = Tail(t.snaps), !.log = Append(t.log, Event(snap.o, t.session)),
                       !.nodes = NodesAfter(t.nodes, snap.o), !.edges = EdgesAfter(t.edges, snap.o)]
  <2>1. CASE IsNode(snap.o)
    <3>1. tx' = [t EXCEPT !.snaps = Tail(t.snaps), !.log = Append(t.log, Event(snap.o, t.session)),
                          !.nodes = [t.nodes EXCEPT ![snap.o.of] = snap.row],
                          !.edges = IF snap.o.op = "NODE_RETIRE"
                                    THEN RetireEdges(t.edges, snap.o.of) ELSE t.edges]
      BY <1>4, <1>6, <2>1 DEF Write, WriteNode, Logged
    <3>2. /\ NodesAfter(t.nodes, snap.o) = [t.nodes EXCEPT ![snap.o.of] = snap.row]
          /\ EdgesAfter(t.edges, snap.o) = IF snap.o.op = "NODE_RETIRE"
                                           THEN RetireEdges(t.edges, snap.o.of) ELSE t.edges
      BY <1>8, <2>1 DEF NodesAfter, EdgesAfter, RowAfter
    <3> QED BY <3>1, <3>2
  <2>2. CASE ~IsNode(snap.o)
    <3>1. tx' = [t EXCEPT !.snaps = Tail(t.snaps), !.log = Append(t.log, Event(snap.o, t.session)),
                          !.edges = [t.edges EXCEPT ![snap.o.of] = snap.row]]
      BY <1>4, <1>6, <2>2 DEF Write, WriteEdge, Logged
    <3>2. /\ NodesAfter(t.nodes, snap.o) = t.nodes
          /\ EdgesAfter(t.edges, snap.o) = [t.edges EXCEPT ![snap.o.of] = snap.row]
      BY <1>8, <2>2 DEF NodesAfter, EdgesAfter, RowAfter, IsNode
    <3>3. tx' = [t EXCEPT !.snaps = Tail(t.snaps), !.log = Append(t.log, Event(snap.o, t.session)),
                          !.nodes = t.nodes, !.edges = [t.edges EXCEPT ![snap.o.of] = snap.row]]
      BY <1>2, <3>1 DEF TxRecord
    <3> QED BY <3>2, <3>3
  <2> QED BY <2>1, <2>2
<1> QED
  BY <1>1, <1>4, <1>6, <1>7, <1>8, <1>9, <1>10

LEMMA WriteStep ==
  ASSUME GraphInv, Write
  PROVE  GraphInv'
<1>1. PICK t : t = tx
  OBVIOUS
<1>2. PICK s : s = tx'
  OBVIOUS
<1>3. /\ t.pc = "write" /\ ~Running("idle") /\ Tables /\ t.snaps # <<>>
      /\ Head(t.snaps) = t.snaps[1] /\ t.snaps[1].o \in Operation
      /\ Valid(t.nodes, t.edges, t.snaps[1].o)
      /\ \A k \in DOMAIN t.log : t.log[k].o.id # t.snaps[1].o.id
  BY <1>1, WriteGives
<1>4. /\ Good(t) /\ t \in TxRecord /\ t.snaps \in Seq(Snap) /\ Len(t.snaps) \in Nat
      /\ t.log \in Seq(EventRow) /\ Len(t.log) \in Nat
      /\ log[t.store] \in Seq(EventRow) /\ Len(log[t.store]) \in Nat
      /\ t.given \in Seq(EventRow) /\ Len(t.given) \in Nat
  BY <1>1, <1>3, GoodParts
<1>5. PICK o : o = t.snaps[1].o
  OBVIOUS
<1>6. PICK ev : ev = Event(o, t.session)
  OBVIOUS
<1>7. ev \in EventRow /\ ev.o = o /\ ev.session = t.session
  BY <1>3, <1>4, <1>5, <1>6 DEF Good, Begun, Event, EventRow
<1>8. s = [t EXCEPT !.snaps = Tail(t.snaps), !.log = Append(t.log, ev),
                    !.nodes = NodesAfter(t.nodes, o), !.edges = EdgesAfter(t.edges, o)]
  BY <1>1, <1>2, <1>5, <1>6, WriteGives
<1>9. PICK i \in Nat, j \in Nat : i = Len(t.log) /\ j + 1 = Len(t.snaps)
  <2>1. Len(t.snaps) # 0
    BY <1>3, <1>4, EmptySeq
  <2>2. Len(t.snaps) - 1 \in Nat /\ (Len(t.snaps) - 1) + 1 = Len(t.snaps)
    BY <1>4, <2>1
  <2> QED BY <1>4, <2>2
<1>10. /\ Tail(t.snaps) \in Seq(Snap) /\ Len(Tail(t.snaps)) = j
  <2>1. Len(Tail(t.snaps)) = Len(t.snaps) - 1 /\ Tail(t.snaps) \in Seq(Snap)
    BY <1>3, <1>4
  <2> QED BY <1>9, <2>1
<1>11. PICK m \in Nat : m = MaxEvents /\ i + (j + 1) <= m
  <2>1. Len(t.log) + Len(t.snaps) <= MaxEvents
    BY <1>4 DEF Good, Begun
  <2>2. PICK m \in Nat : m = MaxEvents
    BY LimitsAreNaturals
  <2>3. i + (j + 1) <= m
    BY <1>9, <2>1, <2>2
  <2> QED BY <2>2, <2>3
<1>12. Consistent(t.log, t.nodes, t.edges)
  BY <1>4 DEF Good, Begun
<1>13. Consistent(Append(t.log, ev), NodesAfter(t.nodes, o), EdgesAfter(t.edges, o))
  <2>2. i < m
    BY <1>11
  <2>1. Len(t.log) < MaxEvents
    BY <1>9, <1>11, <2>2
  <2> QED BY <1>3, <1>5, <1>7, <1>12, <2>1, ConsistentAppended
<1>14. /\ Append(t.log, ev) \in Seq(EventRow) /\ Len(Append(t.log, ev)) = i + 1
       /\ DOMAIN Append(t.log, ev) = 1..(i + 1) /\ DOMAIN t.log = 1..i
       /\ \A k \in 1..i : Append(t.log, ev)[k] = t.log[k]
       /\ Append(t.log, ev)[i + 1] = ev
  BY <1>4, <1>7, <1>9, Appended
<1>15. s \in TxRecord
  BY <1>4, <1>8, <1>10, <1>13, <1>14 DEF TxRecord, Consistent
<1>16. /\ s.pc = "write" /\ s.kind = t.kind /\ s.snaps = Tail(t.snaps)
       /\ s.log = Append(t.log, ev) /\ s.nodes = NodesAfter(t.nodes, o)
       /\ s.edges = EdgesAfter(t.edges, o) /\ s.store = t.store
       /\ s.viewNodes = t.viewNodes /\ s.viewEdges = t.viewEdges
       /\ s.given = t.given /\ s.events = t.events /\ s.session = t.session
  BY <1>3, <1>4, <1>8 DEF TxRecord
<1>17. Begun(s)
  <2>1. Len(log[t.store]) <= i /\ t.session \in Session
    BY <1>3, <1>4, <1>9 DEF Good, Begun
  <2>2. PICK k \in Nat : k = Len(log[t.store])
    BY <1>4
  <2>4. k <= i
    BY <2>1, <2>2
  <2>5. k <= i + 1 /\ (i + 1) + j <= m
    BY <1>11, <2>4
  <2>3. Len(log[s.store]) <= Len(s.log) /\ Len(s.log) + Len(s.snaps) <= MaxEvents
    BY <1>10, <1>11, <1>14, <1>16, <2>2, <2>5
  <2> QED BY <1>13, <1>15, <1>16, <2>1, <2>3 DEF Begun
<1>18. Batch(s)
  <2>1. PICK path : Path(t, path)
    BY <1>3, <1>4 DEF Good, Batch
  <2>2. \E shorter : Path(s, shorter)
    BY <1>3, <1>4, <1>5, <1>15, <1>16, <2>1, PathShrinks
  <2> QED BY <2>2 DEF Batch
<1>19. Replays(s)
  <2> SUFFICES ASSUME t.kind = "replay" PROVE Replays(s)
    BY <1>16 DEF Replays
  <2>1. Imports(t) /\ Continues(t) /\ Repeats(t)
    BY <1>4 DEF Good, Replays
  <2>2. Reached(s) = Reached(t) /\ Next1(s) = Next1(t)
    BY <1>16 DEF Reached, Next1
  <2>3. /\ t.events # <<>> /\ t.session = Next1(t).session /\ Len(t.snaps) <= 1
        /\ o = Next1(t).o
    BY <1>3, <1>5, <2>1 DEF Imports
  <2>4. /\ Next1(t) \in EventRow /\ Next1(t) = t.given[Reached(t) + 1]
        /\ Reached(t) \in Nat /\ Reached(t) + 1 <= Len(t.given)
    BY <1>1, <1>3, <2>3, AtEvent DEF Next1
  <2>5. ev = Next1(t)
    BY <1>6, <2>3, <2>4 DEF Event, EventRow
  <2>6. s.snaps = <<>>
    <3>1. j + 1 <= 1
      BY <1>9, <2>3
    <3>2. j = 0
      BY <1>9, <3>1
    <3> QED BY <1>10, <1>16, <3>2, EmptySeq
  <2>7. ASSUME NEW event, InLog(t, event) PROVE InLog(s, event)
    <3>1. PICK k \in DOMAIN t.log : t.log[k] = event
      BY <2>7 DEF InLog
    <3>2. k \in DOMAIN s.log /\ s.log[k] = event
      BY <1>9, <1>14, <1>16, <3>1
    <3> QED BY <3>2 DEF InLog
  <2>8. InLog(s, Next1(s))
    <3>1. i + 1 \in DOMAIN s.log /\ s.log[i + 1] = ev
      BY <1>9, <1>14, <1>16
    <3> QED BY <2>2, <2>5, <3>1 DEF InLog
  <2>9. Len(s.snaps) <= 1
    BY <2>6
  <2>10. Imports(s)
    BY <1>16, <2>1, <2>2, <2>3, <2>6, <2>7, <2>8, <2>9 DEF Imports
  <2>11. Continues(s)
    <3> SUFFICES ASSUME IsPrefix(log[t.store], t.given)
                 PROVE  /\ Append(t.log, ev) = SubSeq(t.given, 1, Reached(t) + 1)
                        /\ Len(log[t.store]) <= Reached(t)
      BY <1>16, <2>2, <2>6 DEF Continues
    <3>1. Len(log[t.store]) <= Reached(t) /\ t.log = SubSeq(t.given, 1, Reached(t))
      BY <1>3, <2>1 DEF Continues
    <3>2. Append(t.log, ev) = SubSeq(t.given, 1, Reached(t) + 1)
      BY <1>4, <2>4, <2>5, <3>1, BeginningGrows
    <3> QED BY <3>1, <3>2
  <2>12. Repeats(s)
    BY <1>3, <1>16, <2>1 DEF Repeats
  <2> QED BY <2>10, <2>11, <2>12 DEF Replays
<1>20. Good(s)
  BY <1>17, <1>18, <1>19 DEF Good
<1> QED
  BY <1>2, <1>3, <1>20, TransactionOnly

LEMMA NextEventStep ==
  ASSUME GraphInv, NextEvent
  PROVE  GraphInv'
<1>1. PICK t : t = tx
  OBVIOUS
<1>2. PICK s : s = [t EXCEPT !.pc = "import", !.events = Tail(t.events)]
  OBVIOUS
<1>3. /\ ~Running("idle") /\ t.pc = "write" /\ t.snaps = <<>> /\ t.kind = "replay"
      /\ tx' = s /\ Tables
  BY <1>1, <1>2 DEF NextEvent, Running
<1>4. /\ Good(t) /\ t \in TxRecord
      /\ log[t.store] \in Seq(EventRow) /\ Len(log[t.store]) \in Nat
  BY <1>1, <1>3, GoodParts
<1>5. t.events # <<>> /\ InLog(t, Next1(t))
  BY <1>3, <1>4 DEF Good, Replays, Imports
<1>6. /\ Reached(t) \in Nat /\ Reached(t) + 1 <= Len(t.given)
      /\ Tail(t.events) \in Seq(EventRow)
      /\ \A k \in 1..Len(Tail(t.events)) : Tail(t.events)[k] = t.given[Reached(t) + 1 + k]
      /\ Len(t.given) - Len(Tail(t.events)) = Reached(t) + 1
      /\ Len(t.given) \in Nat
  BY <1>1, <1>3, <1>5, AtEvent, GoodParts
<1>7. /\ s \in TxRecord /\ s.pc = "import" /\ s.kind = "replay" /\ s.snaps = <<>>
      /\ s.log = t.log /\ s.nodes = t.nodes /\ s.edges = t.edges /\ s.store = t.store
      /\ s.given = t.given /\ s.events = Tail(t.events)
  BY <1>2, <1>3, <1>4, <1>6 DEF TxRecord
<1>8. Reached(s) = Reached(t) + 1
  BY <1>6, <1>7 DEF Reached
<1>9. Begun(s) /\ Batch(s)
  BY <1>3, <1>4, <1>7 DEF Good, Begun, Batch
<1>10. Imports(s)
  <2>1. Reached(s) \in 0..Len(s.given)
    BY <1>6, <1>7, <1>8
  <2>2. \A j \in 1..Reached(s) : InLog(s, s.given[j])
    <3> TAKE j \in 1..Reached(s)
    <3>1. CASE j = Reached(t) + 1
      BY <1>5, <1>7, <3>1 DEF InLog, Next1
    <3>2. CASE j # Reached(t) + 1
      <4>1. j \in 1..Reached(t)
        BY <1>6, <1>8, <3>2
      <4> QED BY <1>3, <1>4, <1>7, <4>1 DEF Good, Replays, Imports, InLog
    <3> QED BY <3>1, <3>2
  <2>3. Log(s.given)
    BY <1>3, <1>4, <1>7 DEF Good, Replays, Imports
  <2> QED BY <1>6, <1>7, <1>8, <2>1, <2>2, <2>3 DEF Imports
<1>11. Continues(s)
  <2> SUFFICES ASSUME IsPrefix(log[t.store], t.given)
               PROVE  t.log = SubSeq(t.given, 1, IF Len(log[t.store]) <= Reached(t) + 1
                                                 THEN Reached(t) + 1 ELSE Len(log[t.store]))
    BY <1>7, <1>8 DEF Continues
  <2>1. t.log = SubSeq(t.given, 1, Reached(t) + 1) /\ Len(log[t.store]) <= Reached(t)
    BY <1>3, <1>4 DEF Good, Replays, Continues
  <2>2. Len(log[t.store]) <= Reached(t) + 1
    BY <1>4, <1>6, <2>1
  <2> QED BY <2>1, <2>2
<1>12. Repeats(s)
  BY <1>3, <1>4, <1>7 DEF Good, Replays, Repeats
<1>13. Good(s)
  BY <1>9, <1>10, <1>11, <1>12 DEF Good, Replays
<1> QED
  BY <1>3, <1>13, TransactionOnly

----------------------------------------------------------------------------
(* The transaction ends.                                                    *)

LEMMA CommitStep ==
  ASSUME GraphInv, Commit
  PROVE  GraphInv'
<1>1. PICK t : t = tx
  OBVIOUS
<1>2. /\ ~Running("idle")
      /\ log' = [log EXCEPT ![t.store] = t.log]
      /\ nodes' = [nodes EXCEPT ![t.store] = t.nodes]
      /\ edges' = [edges EXCEPT ![t.store] = t.edges]
      /\ own' = IF t.kind = "apply"
                THEN [own EXCEPT ![t.store] = own[t.store] + Len(t.log) - Len(log[t.store])] ELSE own
      /\ tx' = Idle
  BY <1>1 DEF Commit, Running
<1>3. Good(t) /\ t \in TxRecord /\ Len(t.log) \in Nat /\ Len(log[t.store]) \in Nat
  BY <1>1, <1>2, GoodParts
<1>4. /\ t.store \in Store /\ t.log \in Seq(EventRow) /\ t.nodes \in NodeTable /\ t.edges \in EdgeTable
      /\ Consistent(t.log, t.nodes, t.edges) /\ Len(log[t.store]) <= Len(t.log)
  BY <1>3 DEF TxRecord, Good, Begun
<1>5. /\ log' \in [Store -> Seq(EventRow)] /\ log'[t.store] = t.log
      /\ nodes' \in [Store -> NodeTable] /\ nodes'[t.store] = t.nodes
      /\ edges' \in [Store -> EdgeTable] /\ edges'[t.store] = t.edges
      /\ \A s \in Store \ {t.store} :
           log'[s] = log[s] /\ nodes'[s] = nodes[s] /\ edges'[s] = edges[s]
  BY <1>2, <1>4 DEF GraphInv
<1>6. own[t.store] \in Nat /\ own[t.store] <= Len(log[t.store]) /\ own \in [Store -> Nat]
  BY <1>4 DEF GraphInv
<1>7. PICK i \in Nat, j \in Nat, n \in Nat :
        i = Len(t.log) /\ j = Len(log[t.store]) /\ n = own[t.store]
  BY <1>3, <1>6
<1>8. n <= j /\ j <= i
  BY <1>4, <1>6, <1>7
<1>9. n + i - j \in Nat /\ n + i - j <= i /\ n <= i
  BY <1>8
<1>10. /\ own' \in [Store -> Nat] /\ own'[t.store] <= i
       /\ \A s \in Store \ {t.store} : own'[s] = own[s]
  <2>1. CASE t.kind = "apply"
    <3>1. own' = [own EXCEPT ![t.store] = n + i - j]
      BY <1>2, <1>7, <2>1
    <3> QED BY <1>4, <1>6, <1>9, <3>1
  <2>2. CASE t.kind # "apply"
    <3>1. own' = own
      BY <1>2, <2>2
    <3> QED BY <1>6, <1>7, <1>9, <3>1
  <2> QED BY <2>1, <2>2
<1>11. ASSUME NEW s \in Store
       PROVE  Consistent(log'[s], nodes'[s], edges'[s]) /\ own'[s] <= Len(log'[s])
  <2>1. CASE s = t.store
    BY <1>4, <1>5, <1>7, <1>10, <2>1
  <2>2. CASE s # t.store
    <3>1. /\ log'[s] = log[s] /\ nodes'[s] = nodes[s] /\ edges'[s] = edges[s] /\ own'[s] = own[s]
      BY <1>5, <1>10, <2>2
    <3>2. Consistent(log[s], nodes[s], edges[s]) /\ own[s] <= Len(log[s])
      BY DEF GraphInv
    <3> QED BY <3>1, <3>2
  <2> QED BY <2>1, <2>2
<1>12. \A s \in Store : Consistent(log[s], nodes[s], edges[s])' /\ (own[s] <= Len(log[s]))'
  BY <1>11 DEF Consistent, Log, Distinct, Lawful, NodesOf, EdgesOf, Joined, Recorded
<1> QED
  BY <1>2, <1>5, <1>10, <1>12 DEF GraphInv

\* A replay of comparable logs is never refused: the next event is known, or it is
\* valid on the tables because it was valid on the same tables when it was logged.
LEMMA RefusedIsNotComparable ==
  ASSUME GraphInv, Refuse, NEW t, t = tx, t.kind = "replay"
  PROVE  ~IsPrefix(log[t.store], t.given) /\ ~IsPrefix(t.given, log[t.store])
<1>1. ~Running("idle")
  BY DEF Refuse, Importing, Running
<1>2. /\ Good(t) /\ t \in TxRecord /\ t.snaps \in Seq(Snap) /\ Len(t.snaps) \in Nat
      /\ log[t.store] \in Seq(EventRow) /\ Len(log[t.store]) \in Nat
      /\ Len(t.log) \in Nat
  BY <1>1, GoodParts
<1>3. Imports(t) /\ Continues(t) /\ Repeats(t)
  BY <1>2 DEF Good, Replays
<1>4. ~(t.pc = "write" /\ t.snaps # <<>> /\ Taken(Head(t.snaps).o.id))
  <2> SUFFICES ASSUME t.pc = "write", t.snaps # <<>>, Taken(Head(t.snaps).o.id)
               PROVE  FALSE
    OBVIOUS
  <2>1. t.snaps[1].o = Next1(t).o /\ ~IdTaken(t, Next1(t))
    BY <1>3 DEF Imports
  <2>2. Head(t.snaps) = t.snaps[1]
    BY <1>2
  <2> QED BY <2>1, <2>2 DEF Taken, IdTaken
<1>5. CASE t.pc = "validate" /\ \E o \in Offered : ~Valid(t.viewNodes, t.viewEdges, o)
  <2>1. PICK o \in Offered : ~Valid(t.viewNodes, t.viewEdges, o)
    BY <1>5
  <2>2. t.snaps = <<>> /\ t.events # <<>> /\ o = Next1(t).o
    BY <1>5, OfferedIsOperation DEF Running
  <2>3. ~IsPrefix(t.given, log[t.store])
    BY <1>3, <1>5 DEF Repeats
  <2>4. ~IsPrefix(log[t.store], t.given)
    <3> SUFFICES ASSUME IsPrefix(log[t.store], t.given) PROVE FALSE
      OBVIOUS
    <3>1. t.log = SubSeq(t.given, 1, Reached(t))
      BY <1>3, <1>5 DEF Continues
    <3>2. Reached(t) \in Nat /\ Reached(t) + 1 \in DOMAIN t.given /\ Next1(t) = t.given[Reached(t) + 1]
      BY <1>1, <2>2, AtEvent DEF Next1
    <3>3. (Reached(t) + 1) - 1 = Reached(t)
      BY <3>2
    <3>4. Lawful(t.given)
      BY <1>3 DEF Imports, Log
    <3>5. Valid(NodesOf(t.log), EdgesOf(t.log), o)
      BY <2>2, <3>1, <3>2, <3>3, <3>4 DEF Lawful
    <3>6. PICK path : Path(t, path)
      BY <1>2, <1>5 DEF Good, Batch
    <3>7. Len(t.snaps) + 1 = 1
      BY <2>2
    <3>8. t.viewNodes = t.nodes /\ t.viewEdges = t.edges
      BY <3>6, <3>7 DEF Path
    <3>9. t.nodes = NodesOf(t.log) /\ t.edges = EdgesOf(t.log)
      BY <1>2 DEF Good, Begun, Consistent
    <3> QED BY <2>1, <3>5, <3>8, <3>9
  <2> QED BY <2>3, <2>4
<1>6. CASE /\ t.pc = "import" /\ t.events # <<>> /\ ~Known(Head(t.events))
           /\ Taken(Head(t.events).o.id) \/ Full(Len(t.log))
  <2>1. Head(t.events) = Next1(t)
    BY <1>1, <1>6, AtEvent
  <2>2. ~InLog(t, Next1(t)) /\ (IdTaken(t, Next1(t)) \/ Full(Len(t.log)))
    BY <1>6, <2>1 DEF Known, InLog, Taken, IdTaken
  <2>3. ~IsPrefix(t.given, log[t.store])
    BY <1>1, <1>6, <2>2, KnownWhenRepeating
  <2>4. ~IsPrefix(log[t.store], t.given)
    <3> SUFFICES ASSUME IsPrefix(log[t.store], t.given) PROVE FALSE
      OBVIOUS
    <3>1. Reached(t) \in Nat
      BY <1>1, <1>6, AtEvent
    <3>2. ~(Len(log[t.store]) > Reached(t))
      BY <1>6, <2>2, KnownWhenBehind DEF Running
    <3>3. Len(log[t.store]) <= Reached(t)
      BY <1>2, <3>1, <3>2
    <3>4. ~IdTaken(t, Next1(t)) /\ Len(t.log) < MaxEvents
      BY <1>6, <3>3, KnownWhenBehind DEF Running
    <3>5. MaxEvents \in Nat
      BY LimitsAreNaturals
    <3>6. ~Full(Len(t.log))
      BY <1>2, <3>4, <3>5 DEF Full
    <3> QED BY <2>2, <3>4, <3>6
  <2> QED BY <2>3, <2>4
<1> QED
  BY <1>4, <1>5, <1>6 DEF Refuse, Importing, Running

LEMMA RefuseStep ==
  ASSUME GraphInv, Refuse
  PROVE  GraphInv'
<1>1. PICK t : t = tx
  OBVIOUS
<1>2. PICK s : s = [t EXCEPT !.pc = "refused"]
  OBVIOUS
<1>3. ~Running("idle") /\ tx' = s /\ Tables
  BY <1>1, <1>2 DEF Refuse, Importing, Running
<1>4. Good(t) /\ t \in TxRecord
  BY <1>1, <1>3, GoodParts
<1>5. /\ s \in TxRecord /\ s.pc = "refused" /\ s.kind = t.kind /\ s.snaps = t.snaps
      /\ s.log = t.log /\ s.nodes = t.nodes /\ s.edges = t.edges /\ s.store = t.store
      /\ s.given = t.given /\ s.events = t.events
  BY <1>2, <1>4 DEF TxRecord
<1>6. Begun(s) /\ Batch(s)
  BY <1>4, <1>5 DEF Good, Begun, Batch
<1>7. Replays(s)
  <2> SUFFICES ASSUME t.kind = "replay" PROVE Imports(s) /\ Continues(s) /\ Repeats(s)
    BY <1>5 DEF Replays
  <2>1. ~IsPrefix(log[t.store], t.given) /\ ~IsPrefix(t.given, log[t.store])
    BY <1>1, RefusedIsNotComparable
  <2>2. Reached(s) = Reached(t)
    BY <1>5 DEF Reached
  <2>3. Imports(s)
    BY <1>4, <1>5, <2>2 DEF Good, Replays, Imports, InLog
  <2>4. Continues(s) /\ Repeats(s)
    BY <1>5, <2>1 DEF Continues, Repeats
  <2> QED BY <2>3, <2>4
<1>8. Good(s)
  BY <1>6, <1>7 DEF Good
<1> QED
  BY <1>3, <1>8, TransactionOnly

----------------------------------------------------------------------------
(* The invariant and what follows from it.                                  *)

LEMMA EmptyLog ==
  Consistent(<<>>, [n \in Node |-> NoNode], [e \in Edge |-> NoEdge])
<1>1. Len(<<>>) = 0 /\ <<>> \in Seq(EventRow) /\ DOMAIN <<>> = {}
  BY DEF EventRow
<1>2. \A ops, x : Writers(<<>>, ops, x) = {}
  BY <1>1 DEF Writers
<1>3. \A n : NodeFrom(<<>>, n) = NoNode
  BY <1>2 DEF NodeFrom
<1>4. \A e : EdgeFrom(<<>>, e) = NoEdge
  BY <1>2 DEF EdgeFrom
<1>5. NoNode \in NodeRow /\ NoEdge \in EdgeRow /\ NoEdge.status # "active"
  BY DEF NoNode, NodeRow, Status, NoEdge, EdgeRow
<1>6. NodesOf(<<>>) = [n \in Node |-> NoNode] /\ EdgesOf(<<>>) = [e \in Edge |-> NoEdge]
  BY <1>3, <1>4 DEF NodesOf, EdgesOf
<1>7. Log(<<>>)
  <2>1. 0 <= MaxEvents
    BY LimitsAreNaturals
  <2> QED BY <1>1, <2>1 DEF Log, Distinct, Lawful
<1>8. Joined([n \in Node |-> NoNode], [e \in Edge |-> NoEdge])
  BY <1>5 DEF Joined
<1>9. Recorded(<<>>, [n \in Node |-> NoNode], [e \in Edge |-> NoEdge])
  BY <1>1 DEF Recorded
<1> QED
  BY <1>5, <1>6, <1>7, <1>8, <1>9 DEF Consistent, NodeTable, EdgeTable

LEMMA GraphInit ==
  ASSUME Init
  PROVE  GraphInv
<1>1. <<>> \in Seq(EventRow) /\ Len(<<>>) = 0
  BY DEF EventRow
<1>2. [n \in Node |-> NoNode] \in NodeTable /\ [e \in Edge |-> NoEdge] \in EdgeTable
  BY EmptyLog DEF Consistent
<1>3. \A s \in Store : Consistent(log[s], nodes[s], edges[s]) /\ own[s] <= Len(log[s])
  BY <1>1, EmptyLog DEF Init
<1> QED
  BY <1>1, <1>2, <1>3 DEF Init, GraphInv

LEMMA GraphStep ==
  ASSUME GraphInv, Next
  PROVE  GraphInv'
<1>1. CASE Apply
  BY <1>1, BeginApplyStep DEF Apply
<1>2. CASE Replay
  BY <1>2, BeginReplayStep DEF Replay
<1>3. CASE SkipEvent
  BY <1>3, SkipEventStep
<1>4. CASE ImportEvent
  BY <1>4, ImportEventStep
<1>5. CASE ValidateNode
  BY <1>5, ValidateStep
<1>6. CASE ValidateEdge
  BY <1>6, ValidateStep
<1>7. CASE BeginWriting
  BY <1>7, BeginWritingStep
<1>8. CASE Write
  BY <1>8, WriteStep
<1>9. CASE NextEvent
  BY <1>9, NextEventStep
<1>10. CASE Commit
  BY <1>10, CommitStep
<1>11. CASE Refuse
  BY <1>11, RefuseStep
<1>12. CASE RollBack
  BY <1>12, TransactionOnly DEF RollBack
<1> QED
  BY <1>1, <1>2, <1>3, <1>4, <1>5, <1>6, <1>7, <1>8, <1>9, <1>10, <1>11, <1>12 DEF Next

LEMMA GraphStutter ==
  ASSUME GraphInv, UNCHANGED vars
  PROVE  GraphInv'
<1>1. Tables /\ tx' = tx
  BY DEF vars, Tables
<1>2. tx = Idle \/ Good(tx)
  BY DEF GraphInv
<1> QED
  BY <1>1, <1>2, TransactionOnly

\* In every state of every system of databases the tables and the copies are what
\* their logs make them, the logs are lawful, and a transaction's batch leads from
\* the tables it has written to those it was validated on (graph.py, apply and replay).
THEOREM GraphInvariant == Spec => []GraphInv
<1>1. Init => GraphInv
  BY GraphInit
<1>2. GraphInv /\ [Next]_vars => GraphInv'
  BY GraphStep, GraphStutter
<1> QED
  BY <1>1, <1>2, PTL DEF Spec

LEMMA GraphTypesHold == GraphInv => GraphTypeOK
<1> SUFFICES ASSUME GraphInv PROVE GraphTypeOK
  OBVIOUS
<1>1. ASSUME NEW s \in Store
      PROVE  /\ nodes[s] \in [Node -> NodeRow] /\ edges[s] \in [Edge -> EdgeRow]
             /\ own[s] <= Len(log[s]) /\ Len(log[s]) <= MaxEvents
  BY DEF GraphInv, Consistent, Log, NodeTable, EdgeTable
<1>2. ASSUME ~Running("idle")
      PROVE  /\ tx.nodes \in [Node -> NodeRow] /\ tx.viewNodes \in [Node -> NodeRow]
             /\ tx.edges \in [Edge -> EdgeRow] /\ tx.viewEdges \in [Edge -> EdgeRow]
  <2>1. tx \in TxRecord
    BY <1>2, GoodParts
  <2> QED BY <2>1 DEF TxRecord, NodeTable, EdgeTable
<1> QED BY <1>1, <1>2 DEF GraphTypeOK

\* The tables keep their form, and the log of a database its limit.
THEOREM GraphTypes == Spec => []GraphTypeOK
  BY GraphTypesHold, GraphInvariant, PTL

\* No batch or import, whatever it does to an edge and its nodes in one transaction,
\* leaves an active edge at a node that is not (graph.py, _normalize_and_simulate).
THEOREM GraphNoDanglingEdges == Spec => []NoDanglingEdges
<1>1. GraphInv => NoDanglingEdges
  BY DEF GraphInv, Consistent, Joined, Active, NoDanglingEdges
<1> QED
  BY <1>1, GraphInvariant, PTL

\* The tables are what the log means (graph.py, apply: the event and the snapshot of
\* an operation are written side by side).
THEOREM GraphLogIsState == Spec => []LogIsState
<1>1. GraphInv => LogIsState
  <2> SUFFICES ASSUME GraphInv, NEW s \in Store
               PROVE  /\ \A n \in Node : nodes[s][n] = NodeFrom(log[s], n)
                      /\ \A e \in Edge : edges[s][e] = EdgeFrom(log[s], e)
    BY DEF LogIsState
  <2>1. nodes[s] = NodesOf(log[s]) /\ edges[s] = EdgesOf(log[s])
    BY DEF GraphInv, Consistent
  <2> QED BY <2>1 DEF NodesOf, EdgesOf
<1> QED
  BY <1>1, GraphInvariant, PTL

\* A replay between databases of which one log continues the other is accepted
\* (graph.py, replay).
THEOREM GraphComparableReplay == Spec => []ComparableReplayAccepted
<1>1. GraphInv => ComparableReplayAccepted
  <2> SUFFICES ASSUME GraphInv, Running("refused"), tx.kind = "replay"
               PROVE  ~IsPrefix(log[tx.store], tx.given) /\ ~IsPrefix(tx.given, log[tx.store])
    BY DEF ComparableReplayAccepted
  <2>1. ~Running("idle") /\ tx.pc = "refused"
    BY DEF Running
  <2>2. Continues(tx) /\ Repeats(tx)
    BY <2>1, GoodParts DEF Good, Replays
  <2> QED BY <2>1, <2>2 DEF Continues, Repeats
<1> QED
  BY <1>1, GraphInvariant, PTL

LEMMA CommittedReplay ==
  ASSUME GraphInv, Commit, tx.kind = "replay"
  PROVE  /\ ToSet(tx.given) \subseteq ToSet(log'[tx.store])
         /\ IsPrefix(log[tx.store], tx.given) => log'[tx.store] = tx.given
<1>1. PICK t : t = tx
  OBVIOUS
<1>2. /\ ~Running("idle") /\ t.pc = "import" /\ t.events = <<>> /\ t.kind = "replay"
      /\ log' = [log EXCEPT ![t.store] = t.log]
  BY <1>1 DEF Commit, Running
<1>3. /\ Good(t) /\ t \in TxRecord
      /\ t.given \in Seq(EventRow) /\ Len(t.given) \in Nat /\ DOMAIN t.given = 1..Len(t.given)
      /\ t.log \in Seq(EventRow)
      /\ log[t.store] \in Seq(EventRow) /\ Len(log[t.store]) \in Nat
  BY <1>1, <1>2, GoodParts
<1>4. t.store \in Store /\ log \in [Store -> Seq(EventRow)]
  BY <1>3 DEF TxRecord, GraphInv
<1>5. log'[t.store] = t.log
  BY <1>2, <1>4
<1>6. Imports(t) /\ Continues(t)
  BY <1>2, <1>3 DEF Good, Replays
<1>7. Reached(t) = Len(t.given)
  <2>1. Len(t.events) = 0
    BY <1>2
  <2> QED BY <1>3, <2>1 DEF Reached
<1>8. ToSet(t.given) \subseteq ToSet(t.log)
  BY <1>3, <1>6, <1>7 DEF ToSet, Imports, InLog
<1>9. ASSUME IsPrefix(log[t.store], t.given)
      PROVE  t.log = t.given
  <2>1. Len(log[t.store]) <= Len(t.given)
    BY <1>3, <1>9, PrefixParts
  <2>2. t.log = SubSeq(t.given, 1, Len(t.given))
    BY <1>2, <1>3, <1>6, <1>7, <1>9, <2>1 DEF Continues
  <2> QED BY <1>3, <2>2, SubSeqFull
<1> QED
  BY <1>1, <1>5, <1>8, <1>9

\* A replay that commits has imported every event it was given, and continues a
\* beginning of the log it was given to the whole of it (graph.py, replay).
THEOREM GraphReplayKeepsEvents == Spec => ReplayKeepsEvents
<1>1. GraphInv /\ [Next]_vars =>
        [Commit /\ tx.kind = "replay" =>
           /\ ToSet(tx.given) \subseteq ToSet(log'[tx.store])
           /\ IsPrefix(log[tx.store], tx.given) => log'[tx.store] = tx.given]_vars
  BY CommittedReplay
<1> QED
  BY <1>1, GraphInvariant, PTL DEF Spec, ReplayKeepsEvents

----------------------------------------------------------------------------
(* The graph of the skills.  What a fold over positions is comes first:      *)
(* FoldLeft chooses a function that satisfies its recursion, so there must   *)
(* be one.                                                                   *)

LEMMA LastFirst ==
  ASSUME NEW n \in Nat, NEW s \in SUBSET (1..n), s # {}
  PROVE  /\ Max(s) \in s /\ Max(s) \in 1..n
         /\ s \ {Max(s)} \in SUBSET (1..n) /\ s \ {Max(s)} # s
         /\ \A i \in s \ {Max(s)} : i < Max(s)
<1>2. Max(s) \in s /\ \A y \in s : y <= Max(s)
  BY GreatestExists
<1>3. PICK x : x = Max(s)
  OBVIOUS
<1>4. x \in s /\ \A y \in s : y <= x /\ x \in 1..n /\ y \in 1..n
  BY <1>2, <1>3
<1>5. \A i \in s \ {x} : i < x
  BY <1>4
<1> QED BY <1>3, <1>4, <1>5

IsFold(g, base, F, n) ==
  \A s \in SUBSET (1..n) : g[s] = IF s = {} THEN base ELSE F[<<g[s \ {Max(s)}], Max(s)>>]

LEMMA FoldExists ==
  ASSUME NEW n \in Nat, NEW Acc, NEW base \in Acc, NEW F \in [Acc \X (1..n) -> Acc]
  PROVE  \E g \in [SUBSET (1..n) -> Acc] : IsFold(g, base, F, n)
<1> DEFINE X == {k \in 0..n : ~ \E g \in [SUBSET (1..k) -> Acc] : IsFold(g, base, F, k)}
<1>6. n \in 0..n
  OBVIOUS
<1> SUFFICES ASSUME X # {} PROVE FALSE
  BY <1>6
<1>0. X \in SUBSET Nat
  OBVIOUS
<1> HIDE DEF X
<1>1. PICK k : k = Min(X)
  OBVIOUS
<1>2. k \in X /\ \A y \in X : k <= y
  BY <1>0, <1>1, LeastExists
<1>3. k \in 0..n
  BY <1>2 DEF X
<1>7. ASSUME k # 0
      PROVE  k - 1 \in 0..n /\ k - 1 \notin X
  <2>1. k - 1 \in 0..n /\ ~(k <= k - 1)
    BY <1>3, <1>7
  <2> QED BY <1>2, <2>1
<1> USE DEF X
<1>4. CASE k = 0
  <2> DEFINE g == [s \in SUBSET (1..0) |-> base]
  <2>1. \A s \in SUBSET (1..0) : s = {}
    OBVIOUS
  <2>2. g \in [SUBSET (1..0) -> Acc]
    OBVIOUS
  <2>3. IsFold(g, base, F, 0)
    BY <2>1 DEF IsFold
  <2> QED BY <1>2, <1>4, <2>2, <2>3
<1>5. CASE k # 0
  <2>1. k - 1 \in 0..n /\ k - 1 \notin X
    BY <1>5, <1>7
  <2>2. PICK g \in [SUBSET (1..(k - 1)) -> Acc] : IsFold(g, base, F, k - 1)
    BY <2>1
  <2> DEFINE h == [s \in SUBSET (1..k) |-> IF s \in SUBSET (1..(k - 1)) THEN g[s]
                                           ELSE F[<<g[s \ {k}], k>>]]
  <2>3. \A s \in SUBSET (1..k) : s \ {k} \in SUBSET (1..(k - 1))
    BY <1>3, <1>5
  <2>4. k \in 1..n
    BY <1>3, <1>5
  <2>5. h \in [SUBSET (1..k) -> Acc]
    <3> SUFFICES ASSUME NEW s \in SUBSET (1..k) PROVE h[s] \in Acc
      OBVIOUS
    <3>1. CASE s \in SUBSET (1..(k - 1))
      BY <3>1
    <3>2. CASE s \notin SUBSET (1..(k - 1))
      <4>1. g[s \ {k}] \in Acc
        BY <2>3
      <4> QED BY <3>2, <4>1, <2>4
    <3> QED BY <3>1, <3>2
  <2>6. ASSUME NEW s \in SUBSET (1..k)
        PROVE  h[s] = IF s = {} THEN base ELSE F[<<h[s \ {Max(s)}], Max(s)>>]
    <3>1. CASE s \in SUBSET (1..(k - 1))
      <4>1. h[s] = g[s]
        BY <3>1
      <4>2. g[s] = IF s = {} THEN base ELSE F[<<g[s \ {Max(s)}], Max(s)>>]
        BY <2>2, <3>1 DEF IsFold
      <4>3. s \ {Max(s)} \in SUBSET (1..(k - 1)) /\ s \ {Max(s)} \in SUBSET (1..k)
        BY <3>1
      <4>4. h[s \ {Max(s)}] = g[s \ {Max(s)}]
        BY <4>3
      <4> QED BY <4>1, <4>2, <4>4
    <3>2. CASE s \notin SUBSET (1..(k - 1))
      <4>1. k \in s /\ s # {}
        BY <1>3, <1>5, <3>2
      <4>2. Max(s) \in s /\ \A i \in s \ {Max(s)} : i < Max(s)
        BY <1>3, <4>1, LastFirst
      <4>3. Max(s) = k
        <5>1. PICK x : x = Max(s)
          OBVIOUS
        <5>2. x \in 1..k /\ (k # x => k < x)
          BY <4>1, <4>2, <5>1
        <5> QED BY <1>3, <5>1, <5>2
      <4>4. h[s] = F[<<g[s \ {k}], k>>]
        BY <3>2
      <4>5. s \ {k} \in SUBSET (1..k) /\ h[s \ {k}] = g[s \ {k}]
        BY <2>3
      <4> QED BY <4>1, <4>3, <4>4, <4>5
    <3> QED BY <3>1, <3>2
  <2> HIDE DEF h
  <2>7. IsFold(h, base, F, k)
    BY <2>6 DEF IsFold
  <2> QED BY <1>2, <2>5, <2>7
<1> QED BY <1>4, <1>5

----------------------------------------------------------------------------
(* Scores. *)

Scores == UNION {[D -> Nat] : D \in SUBSET Skill}

\* What the loop over the relevant skills has added to the score of s when it
\* has visited A: four cardinalities, since one skill adds one to four quarters.
Pushing(base, net, s, A, w) == {u \in A : s \in Related(net, u) /\ Boost(base[u]) >= w}
Push(base, net, s, A) ==
    Cardinality(Pushing(base, net, s, A, 1)) + Cardinality(Pushing(base, net, s, A, 2))
  + Cardinality(Pushing(base, net, s, A, 3)) + Cardinality(Pushing(base, net, s, A, 4))

\* The scores after the loop has visited A.  Nothing is said of a skill that has
\* become relevant on the way but that it is, and that it is not always kept.
Visited(sc, base, net, A) ==
  /\ sc \in [DOMAIN base -> Nat]
  /\ \A s \in DOMAIN base :
       IF 0 < base[s] /\ base[s] < MinScore
       THEN IF base[s] + Push(base, net, s, A) < MinScore
            THEN sc[s] = base[s] + Push(base, net, s, A)
            ELSE MinScore <= sc[s] /\ sc[s] < MinScore + 4
       ELSE sc[s] = base[s]

LEMMA BoostIsSmall ==
  ASSUME NEW points \in Nat
  PROVE  Boost(points) \in 1..4
<1>1. PICK q : q = points \div 20
  OBVIOUS
<1>2. q \in Nat
  BY <1>1
<1>3. PICK h : h = Max({1, q})
  OBVIOUS
<1>4. h \in Nat /\ h >= 1
  <2>1. \E x \in {1, q} : \A y \in {1, q} : x >= y
    BY <1>2
  <2>2. h \in {1, q} /\ \A y \in {1, q} : h >= y
    BY <1>3, <2>1 DEF Max
  <2> QED BY <1>2, <2>2
<1>5. PICK l : l = Min({4, h})
  OBVIOUS
<1>6. l \in {4, h} /\ l <= 4
  <2>1. \E x \in {4, h} : \A y \in {4, h} : x <= y
    BY <1>4
  <2>2. l \in {4, h} /\ \A y \in {4, h} : l <= y
    BY <1>5, <2>1 DEF Min
  <2> QED BY <1>4, <2>2
<1>7. l \in 1..4
  BY <1>4, <1>6
<1>8. Boost(points) = IF points = Infinite THEN 4 ELSE l
  BY <1>1, <1>3, <1>5 DEF Boost
<1> QED BY <1>7, <1>8

\* Visiting one more skill adds its boost to those it is related to.
LEMMA PushGrows ==
  ASSUME NEW base, NEW net, NEW s, NEW A, IsFiniteSet(A), NEW u, u \notin A, base[u] \in Nat
  PROVE  /\ Push(base, net, s, A) \in Nat
         /\ Push(base, net, s, A \cup {u}) =
              Push(base, net, s, A) + (IF s \in Related(net, u) THEN Boost(base[u]) ELSE 0)
<1>1. ASSUME NEW w \in 1..4
      PROVE  /\ Cardinality(Pushing(base, net, s, A, w)) \in Nat
             /\ Cardinality(Pushing(base, net, s, A \cup {u}, w)) =
                  Cardinality(Pushing(base, net, s, A, w))
                  + (IF s \in Related(net, u) /\ Boost(base[u]) >= w THEN 1 ELSE 0)
  <2>1. PICK P : P = Pushing(base, net, s, A, w)
    OBVIOUS
  <2>2. P \in SUBSET A /\ u \notin P
    BY <2>1 DEF Pushing
  <2>3. IsFiniteSet(P) /\ Cardinality(P) \in Nat
    BY <2>2, FS_Subset, FS_CardinalityType
  <2>4. CASE s \in Related(net, u) /\ Boost(base[u]) >= w
    <3>1. Pushing(base, net, s, A \cup {u}, w) = P \cup {u}
      BY <2>1, <2>4 DEF Pushing
    <3>2. Cardinality(P \cup {u}) = Cardinality(P) + 1
      BY <2>2, <2>3, FS_AddElement
    <3> QED BY <2>1, <2>3, <2>4, <3>1, <3>2
  <2>5. CASE ~(s \in Related(net, u) /\ Boost(base[u]) >= w)
    <3>1. Pushing(base, net, s, A \cup {u}, w) = P
      BY <2>1, <2>5 DEF Pushing
    <3> QED BY <2>1, <2>3, <2>5, <3>1
  <2> QED BY <2>4, <2>5
<1>2. PICK c \in [1..4 -> Nat] : \A w \in 1..4 : c[w] = Cardinality(Pushing(base, net, s, A, w))
  <2> DEFINE c == [w \in 1..4 |-> Cardinality(Pushing(base, net, s, A, w))]
  <2>1. c \in [1..4 -> Nat]
    BY <1>1
  <2> QED BY <2>1
<1>3. PICK b : b = Boost(base[u])
  OBVIOUS
<1>4. b \in 1..4
  BY <1>3, BoostIsSmall
<1>5. Push(base, net, s, A) = c[1] + c[2] + c[3] + c[4]
  BY <1>2 DEF Push
<1>6. CASE s \in Related(net, u)
  <2>1. \A w \in 1..4 : Cardinality(Pushing(base, net, s, A \cup {u}, w))
                          = c[w] + (IF b >= w THEN 1 ELSE 0)
    BY <1>1, <1>2, <1>3, <1>6
  <2>2. Push(base, net, s, A \cup {u}) =
          (c[1] + (IF b >= 1 THEN 1 ELSE 0)) + (c[2] + (IF b >= 2 THEN 1 ELSE 0))
          + (c[3] + (IF b >= 3 THEN 1 ELSE 0)) + (c[4] + (IF b >= 4 THEN 1 ELSE 0))
    BY <2>1 DEF Push
  <2>3. c[1] \in Nat /\ c[2] \in Nat /\ c[3] \in Nat /\ c[4] \in Nat
    BY <1>2
  <2>4. b = 1 \/ b = 2 \/ b = 3 \/ b = 4
    BY <1>4
  <2>5. Push(base, net, s, A \cup {u}) = c[1] + c[2] + c[3] + c[4] + b
    BY <2>2, <2>3, <2>4
  <2> QED BY <1>3, <1>5, <1>6, <2>3, <2>5
<1>7. CASE s \notin Related(net, u)
  <2>1. \A w \in 1..4 : Cardinality(Pushing(base, net, s, A \cup {u}, w)) = c[w]
    BY <1>1, <1>2, <1>7
  <2>2. c[1] \in Nat /\ c[2] \in Nat /\ c[3] \in Nat /\ c[4] \in Nat
    BY <1>2
  <2>3. Push(base, net, s, A \cup {u}) = c[1] + c[2] + c[3] + c[4]
    BY <2>1 DEF Push
  <2> QED BY <1>5, <1>7, <2>2, <2>3
<1> QED BY <1>6, <1>7

LEMMA PushIsANumber ==
  ASSUME NEW base, NEW net, NEW s, NEW A, IsFiniteSet(A)
  PROVE  Push(base, net, s, A) \in Nat
<1>1. ASSUME NEW w \in 1..4
      PROVE  Cardinality(Pushing(base, net, s, A, w)) \in Nat
  <2>1. Pushing(base, net, s, A, w) \in SUBSET A
    BY DEF Pushing
  <2> QED BY <2>1, FS_Subset, FS_CardinalityType
<1> QED BY <1>1 DEF Push

LEMMA NothingPushed ==
  ASSUME NEW base, NEW net, NEW s
  PROVE  Push(base, net, s, {}) = 0
<1>1. \A w \in 1..4 : Pushing(base, net, s, {}, w) = {}
  BY DEF Pushing
<1> QED BY <1>1, FS_EmptySet DEF Push

LEMMA UnvisitedScores ==
  ASSUME NEW base \in Scores, NEW net
  PROVE  Visited(base, base, net, {})
<1>1. base \in [DOMAIN base -> Nat]
  BY DEF Scores
<1>2. \A s \in DOMAIN base : Push(base, net, s, {}) = 0
  BY NothingPushed
<1> QED BY <1>1, <1>2, LimitsAssumption DEF Visited

LEMMA LiftVisits ==
  ASSUME NEW base \in Scores, NEW net, NEW A \in SUBSET Chosen(base), IsFiniteSet(A),
         NEW u \in Chosen(base), u \notin A,
         NEW sc, Visited(sc, base, net, A)
  PROVE  Visited(Lift(sc, u, Related(net, u)), base, net, A \cup {u})
<1> DEFINE next == Lift(sc, u, Related(net, u))
<1>1. base \in [DOMAIN base -> Nat] /\ sc \in [DOMAIN base -> Nat]
  BY DEF Scores, Visited
<1>2. u \in DOMAIN base /\ base[u] >= MinScore
  BY DEF Chosen
<1>3. PICK b : b = Boost(base[u])
  OBVIOUS
<1>4. b \in 1..4
  BY <1>1, <1>2, <1>3, BoostIsSmall
<1>5. sc[u] = base[u]
  <2>1. MinScore \in Nat /\ base[u] \in Nat /\ ~(base[u] < MinScore)
    BY <1>1, <1>2, LimitsAssumption
  <2> QED BY <1>2, <2>1 DEF Visited
<1>6. \A s \in DOMAIN base :
        next[s] = IF s \in Related(net, u) /\ 0 < sc[s] /\ sc[s] < MinScore THEN sc[s] + b ELSE sc[s]
  BY <1>1, <1>3, <1>5 DEF Lift
<1>7. next \in [DOMAIN base -> Nat]
  <2>1. DOMAIN next = DOMAIN base /\ next = [s \in DOMAIN next |-> next[s]]
    BY <1>1 DEF Lift
  <2>2. \A s \in DOMAIN base : next[s] \in Nat
    BY <1>1, <1>4, <1>6
  <2> HIDE DEF next
  <2> QED BY <2>1, <2>2
<1> HIDE DEF next
<1>8. ASSUME NEW s \in DOMAIN base
      PROVE  IF 0 < base[s] /\ base[s] < MinScore
             THEN IF base[s] + Push(base, net, s, A \cup {u}) < MinScore
                  THEN next[s] = base[s] + Push(base, net, s, A \cup {u})
                  ELSE MinScore <= next[s] /\ next[s] < MinScore + 4
             ELSE next[s] = base[s]
  <2>1. PICK p, q : p = Push(base, net, s, A) /\ q = Push(base, net, s, A \cup {u})
    OBVIOUS
  <2>2. p \in Nat /\ q = p + (IF s \in Related(net, u) THEN b ELSE 0)
    BY <1>1, <1>2, <1>3, <2>1, PushGrows
  <2>3. base[s] \in Nat /\ sc[s] \in Nat /\ MinScore \in Nat
    BY <1>1, LimitsAssumption
  <2>4. IF 0 < base[s] /\ base[s] < MinScore
        THEN IF base[s] + p < MinScore THEN sc[s] = base[s] + p
             ELSE MinScore <= sc[s] /\ sc[s] < MinScore + 4
        ELSE sc[s] = base[s]
    BY <2>1 DEF Visited
  <2>5. next[s] = IF s \in Related(net, u) /\ 0 < sc[s] /\ sc[s] < MinScore THEN sc[s] + b ELSE sc[s]
    BY <1>6
  <2>6. IF 0 < base[s] /\ base[s] < MinScore
        THEN IF base[s] + q < MinScore THEN next[s] = base[s] + q
             ELSE MinScore <= next[s] /\ next[s] < MinScore + 4
        ELSE next[s] = base[s]
    BY <1>4, <2>2, <2>3, <2>4, <2>5
  <2> QED BY <2>1, <2>6
<1> QED BY <1>7, <1>8 DEF Visited, next

Lifts(g, base, net, order) ==
  g = [S \in SUBSET DOMAIN order |->
        IF S = {} THEN base
        ELSE Lift(g[S \ {Max(S)}], order[Max(S)], Related(net, order[Max(S)]))]

LEMMA LiftedByLoop ==
  ASSUME NEW base \in Scores, NEW net, NEW order \in SetToSeqs(Chosen(base)), IsFiniteSet(DOMAIN base)
  PROVE  \E g : Lifts(g, base, net, order) /\ Lifted(base, net, order) = g[DOMAIN order]
<1> DEFINE n == Cardinality(Chosen(base))  Acc == [DOMAIN base -> Nat]
           F == [x \in Acc \X (1..n) |-> Lift(x[1], order[x[2]], Related(net, order[x[2]]))]
<1>1. n \in Nat /\ order \in [1..n -> Chosen(base)]
  <2>1. Chosen(base) \in SUBSET DOMAIN base
    BY DEF Chosen
  <2> QED BY <2>1, FS_Subset, FS_CardinalityType DEF SetToSeqs
<1>2. base \in Acc
  BY DEF Scores
<1>3. F \in [Acc \X (1..n) -> Acc]
  <2> SUFFICES ASSUME NEW sc \in Acc, NEW i \in 1..n
               PROVE  Lift(sc, order[i], Related(net, order[i])) \in Acc
    OBVIOUS
  <2>1. order[i] \in DOMAIN base
    BY <1>1 DEF Chosen
  <2>2. sc[order[i]] \in Nat
    BY <2>1
  <2>3. PICK b : b = Boost(sc[order[i]])
    OBVIOUS
  <2>4. b \in 1..4
    BY <2>2, <2>3, BoostIsSmall
  <2> QED BY <2>3, <2>4 DEF Lift
<1> HIDE DEF F, n, Acc
<1>4. PICK g \in [SUBSET (1..n) -> Acc] : IsFold(g, base, F, n)
  BY <1>1, <1>2, <1>3, FoldExists
<1>5. ASSUME NEW S \in SUBSET (1..n)
      PROVE  g[S] = IF S = {} THEN base
                    ELSE Lift(g[S \ {Max(S)}], order[Max(S)], Related(net, order[Max(S)]))
  <2>1. CASE S = {}
    BY <1>4, <2>1 DEF IsFold
  <2>2. CASE S # {}
    <3>1. PICK k : k = Max(S)
      OBVIOUS
    <3>2. k \in 1..n /\ S \ {k} \in SUBSET (1..n)
      BY <1>1, <2>2, <3>1, LastFirst
    <3>3. g[S] = F[<<g[S \ {k}], k>>]
      BY <1>4, <2>2, <3>1 DEF IsFold
    <3>4. F[<<g[S \ {k}], k>>] = Lift(g[S \ {k}], order[k], Related(net, order[k]))
      BY <3>2 DEF F
    <3> QED BY <2>2, <3>1, <3>3, <3>4
  <2> QED BY <2>1, <2>2
<1>6. Lifts(g, base, net, order)
  <2>1. DOMAIN order = 1..n
    BY <1>1
  <2>2. g = [S \in SUBSET (1..n) |-> g[S]]
    OBVIOUS
  <2> QED BY <1>5, <2>1, <2>2 DEF Lifts
<1> DEFINE iter == CHOOSE h : Lifts(h, base, net, order)
<1>7. Lifts(iter, base, net, order)
  BY <1>6
<1>8. Lifted(base, net, order) = iter[DOMAIN order]
  BY DEF Lifted, FoldLeft, MapThenFoldSet, Lifts
<1> QED BY <1>7, <1>8

\* Where the loop has arrived when it has visited all relevant skills, in whatever order.
LEMMA LiftedVisits ==
  ASSUME NEW base \in Scores, NEW net, NEW order \in SetToSeqs(Chosen(base)), IsFiniteSet(DOMAIN base)
  PROVE  Visited(Lifted(base, net, order), base, net, Chosen(base))
<1> DEFINE n == Cardinality(Chosen(base))
           Seen(k) == {order[i] : i \in 1..k}
<1>0. IsFiniteSet(Chosen(base)) /\ n \in Nat
  <2>1. Chosen(base) \in SUBSET DOMAIN base
    BY DEF Chosen
  <2> QED BY <2>1, FS_Subset, FS_CardinalityType
<1>1. order \in [1..n -> Chosen(base)] /\ \A i, j \in 1..n : i # j => order[i] # order[j]
  BY DEF SetToSeqs
<1>2. PICK g : Lifts(g, base, net, order) /\ Lifted(base, net, order) = g[DOMAIN order]
  BY LiftedByLoop
<1> HIDE DEF n
<1>3. DOMAIN order = 1..n
  BY <1>1
<1> DEFINE X == {k \in 0..n : ~ Visited(g[1..k], base, net, Seen(k))}
<1>4. X = {}
  <2> SUFFICES ASSUME X # {} PROVE FALSE
    OBVIOUS
  <2>1. PICK k : k = Min(X)
    OBVIOUS
  <2>2. k \in X /\ \A y \in X : k <= y
    <3>1. X \in SUBSET Nat
      BY <1>0
    <3> HIDE DEF X
    <3> QED BY <2>1, <3>1, LeastExists
  <2>3. k \in 0..n
    BY <2>2
  <2>4. 1..k \in SUBSET DOMAIN order
    BY <1>0, <1>3, <2>3
  <2>5. CASE k = 0
    <3>1. 1..k = {} /\ Seen(k) = {}
      BY <2>5
    <3>2. g[1..k] = base
      BY <1>2, <2>4, <3>1 DEF Lifts
    <3>3. Visited(base, base, net, {})
      BY UnvisitedScores
    <3> QED BY <2>2, <3>1, <3>2, <3>3
  <2>6. CASE k # 0
    <3>1. k \in 1..n /\ k - 1 \in 0..n /\ ~(k <= k - 1)
      BY <1>0, <2>3, <2>6
    <3>2. k - 1 \notin X
      BY <2>2, <3>1
    <3>3. Visited(g[1..(k - 1)], base, net, Seen(k - 1))
      BY <3>1, <3>2
    <3>4. Max(1..k) = k /\ (1..k) \ {k} = 1..(k - 1)
      <4>1. PICK x : x = Max(1..k)
        OBVIOUS
      <4>2. 1..k \in SUBSET (1..k) /\ 1..k # {} /\ k \in Nat /\ k \in 1..k
        BY <3>1
      <4>3. x \in 1..k /\ \A y \in 1..k : y <= x
        BY <4>1, <4>2, GreatestExists
      <4> QED BY <3>1, <4>1, <4>2, <4>3
    <3>5. g[1..k] = Lift(g[1..(k - 1)], order[k], Related(net, order[k]))
      <4>1. k \in 1..k
        BY <3>1
      <4> QED BY <1>2, <2>4, <3>4, <4>1 DEF Lifts
    <3>6. Seen(k - 1) \in SUBSET Chosen(base) /\ order[k] \in Chosen(base) /\ order[k] \notin Seen(k - 1)
      <4>1. \A i \in 1..(k - 1) : i \in 1..n /\ i # k
        BY <1>0, <3>1
      <4> QED BY <1>1, <3>1, <4>1
    <3>7. IsFiniteSet(Seen(k - 1))
      BY <1>0, <3>6, FS_Subset
    <3>8. Seen(k) = Seen(k - 1) \cup {order[k]}
      <4>1. \A i : i \in 1..k <=> i \in 1..(k - 1) \/ i = k
        BY <3>1
      <4> QED BY <4>1
    <3>9. Visited(g[1..k], base, net, Seen(k))
      <4> HIDE DEF Seen
      <4> QED BY <3>3, <3>5, <3>6, <3>7, <3>8, LiftVisits
    <3> QED BY <2>2, <3>9
  <2> QED BY <2>5, <2>6
<1>5. Visited(g[1..n], base, net, Seen(n))
  <2>1. n \in 0..n
    BY <1>0
  <2>2. n \notin X
    <3> HIDE DEF X
    <3> QED BY <1>4
  <2> QED BY <2>1, <2>2
<1>6. Seen(n) = Chosen(base)
  <2>1. order \in Injection(1..n, Chosen(base))
    BY <1>1 DEF Injection, IsInjective
  <2>2. Cardinality(1..n) = n
    BY <1>0, FS_Interval
  <2>3. order \in Surjection(1..n, Chosen(base))
    BY <1>0, <2>1, <2>2, FS_Injection DEF n
  <2> QED BY <1>1, <2>3 DEF Surjection
<1> QED BY <1>2, <1>3, <1>5, <1>6

\* Whatever graphs it reads, the loop lowers no score, leaves what scored nothing,
\* and lifts nothing above what is always kept.
Kept(base, sc) ==
  /\ sc \in [DOMAIN base -> Nat]
  /\ \A s \in DOMAIN base :
       /\ sc[s] >= base[s]
       /\ base[s] = 0 => sc[s] = 0
       /\ base[s] >= MinScore => sc[s] = base[s]
       /\ base[s] < MinScore => sc[s] < Infinite

LEMMA LiftKeeps ==
  ASSUME NEW base \in Scores, NEW sc, Kept(base, sc), NEW u \in Chosen(base), NEW targets
  PROVE  Kept(base, Lift(sc, u, targets))
<1>1. base \in [DOMAIN base -> Nat] /\ sc \in [DOMAIN base -> Nat] /\ u \in DOMAIN base
  BY DEF Scores, Kept, Chosen
<1>2. PICK b : b = Boost(sc[u])
  OBVIOUS
<1>3. b \in 1..4
  BY <1>1, <1>2, BoostIsSmall
<1>4. PICK next : next = Lift(sc, u, targets)
  OBVIOUS
<1>5. /\ DOMAIN next = DOMAIN base /\ next = [s \in DOMAIN next |-> next[s]]
      /\ \A s \in DOMAIN base :
           next[s] = IF s \in targets /\ 0 < sc[s] /\ sc[s] < MinScore THEN sc[s] + b ELSE sc[s]
  BY <1>1, <1>2, <1>4 DEF Lift
<1>6. ASSUME NEW s \in DOMAIN base
      PROVE  /\ next[s] \in Nat /\ next[s] >= base[s] /\ (base[s] = 0 => next[s] = 0)
             /\ (base[s] >= MinScore => next[s] = base[s])
             /\ (base[s] < MinScore => next[s] < Infinite)
  <2>1. PICK x, y, z : x = base[s] /\ y = sc[s] /\ z = next[s]
    OBVIOUS
  <2>2. /\ x \in Nat /\ y \in Nat /\ y >= x /\ (x = 0 => y = 0)
        /\ (x >= MinScore => y = x) /\ (x < MinScore => y < Infinite)
    BY <1>1, <2>1 DEF Kept
  <2>3. (z = y + b /\ 0 < y /\ y < MinScore) \/ z = y
    BY <1>5, <2>1
  <2>4. /\ z \in Nat /\ z >= x /\ (x = 0 => z = 0)
        /\ (x >= MinScore => z = x) /\ (x < MinScore => z < Infinite)
    BY <1>3, <2>2, <2>3, LimitsAssumption
  <2> QED BY <2>1, <2>4
<1>7. next \in [DOMAIN base -> Nat]
  BY <1>5, <1>6
<1> QED BY <1>4, <1>6, <1>7 DEF Kept

\* Whether a skill is relevant after the loop depends on what is visited, not on the order.
LEMMA RelevantByPush ==
  ASSUME NEW base \in Scores, NEW net, NEW A, IsFiniteSet(A), NEW sc, Visited(sc, base, net, A)
  PROVE  Chosen(sc) = {s \in DOMAIN base : \/ base[s] >= MinScore
                                           \/ 0 < base[s] /\ base[s] + Push(base, net, s, A) >= MinScore}
<1>1. sc \in [DOMAIN base -> Nat] /\ base \in [DOMAIN base -> Nat]
  BY DEF Scores, Visited
<1>2. ASSUME NEW s \in DOMAIN base
      PROVE  sc[s] >= MinScore <=> \/ base[s] >= MinScore
                                   \/ 0 < base[s] /\ base[s] + Push(base, net, s, A) >= MinScore
  <2>1. PICK p : p = Push(base, net, s, A)
    OBVIOUS
  <2>2. p \in Nat
    BY <2>1, PushIsANumber
  <2>3. IF 0 < base[s] /\ base[s] < MinScore
        THEN IF base[s] + p < MinScore THEN sc[s] = base[s] + p
             ELSE MinScore <= sc[s] /\ sc[s] < MinScore + 4
        ELSE sc[s] = base[s]
    BY <2>1 DEF Visited
  <2>4. sc[s] \in Nat /\ base[s] \in Nat
    BY <1>1
  <2>5. sc[s] >= MinScore <=> base[s] >= MinScore \/ (0 < base[s] /\ base[s] + p >= MinScore)
    BY <2>2, <2>3, <2>4, LimitsAssumption
  <2> QED BY <2>1, <2>5
<1> QED BY <1>1, <1>2 DEF Chosen

----------------------------------------------------------------------------
(* The invariant of the routes. *)

Places == {"idle", "load", "swap", "stamp", "score", "relate", "close", "chosen"}
Graphs == Documents \cup {Empty}

\* A score is that of the card at least, and only what is always kept has no bound.
Scored(base) ==
  \A s \in DOMAIN base :
    IF s \in AlwaysKeep THEN base[s] = Infinite ELSE Card[s] <= base[s] /\ base[s] < Infinite

RouteShape ==
  [pc : Places, catalog : Catalogs \cup {{}}, documents : Graphs, base : Scores, score : Scores,
   todo : SUBSET Nat, found : SUBSET Nat, required : SUBSET Nat, read : SUBSET Graphs,
   selected : SUBSET Skill, cap : Nat]

\* The loop over the relevant skills: while it has read one graph only, the
\* scores are those after the skills that are no longer to be visited.
Relating(base, score, todo, read) ==
  /\ todo \subseteq Chosen(base) /\ Kept(base, score)
  /\ \A d \in Graphs : read \subseteq {d} => Visited(score, base, d, Chosen(base) \ todo)

\* The loop over the queue: what it has found is required, and while it has read
\* one graph only, what has left the queue, or does not join it, requires nothing else.
Closing(score, todo, found, required, read) ==
  /\ Chosen(score) \subseteq required /\ todo \cup found \subseteq required /\ todo \subseteq AnySkill
  /\ required \cap AnySkill \subseteq RequiredClosure(read, Chosen(score))
  /\ \A d \in Graphs : read \subseteq {d} =>
       \A s \in required \ (todo \cup found) : Requires(d, s) \subseteq required

\* What a finished selection holds.
WellSelected(catalog, base, read, cap, selected) ==
  /\ selected \subseteq catalog
  /\ cap = 0 => {s \in catalog : Card[s] >= MinScore} \subseteq selected
  /\ cap = 0 \/ Cardinality(AlwaysKeep \cap catalog) <= cap
       => AlwaysKeep \cap catalog \subseteq selected
  /\ \A s \in selected : base[s] = 0 => s \in RequiredClosure(read, selected \ {s})

RouteOK(r) ==
  /\ r \in RouteShape
  /\ r.pc = "idle" => r = NotRouting
  /\ r.pc # "idle" => r.catalog \in Catalogs
  /\ DOMAIN r.base \subseteq r.catalog /\ Scored(r.base)
  /\ r.pc \in {"relate", "close", "chosen"} => DOMAIN r.base = r.catalog
  /\ r.pc \in {"load", "swap", "stamp", "score", "relate"} => r.found = {}
  /\ r.pc \in {"load", "swap", "stamp", "score"} => r.read = {}
  /\ r.pc = "relate" => Relating(r.base, r.score, r.todo, r.read)
  /\ r.pc = "close" => Kept(r.base, r.score) /\ Closing(r.score, r.todo, r.found, r.required, r.read)
  /\ r.pc = "chosen" => WellSelected(r.catalog, r.base, r.read, r.cap, r.selected)

SkillInv ==
  /\ installed \in Graphs /\ skillNodes \in Graphs
  /\ fingerprint \in Catalogs \cup {NoCatalog} /\ loaded \in BOOLEAN
  /\ routing \in [Thread -> RouteShape]
  /\ \A t \in Thread : RouteOK(routing[t])

LEMMA GraphsHaveNodes ==
  ASSUME NEW d \in Graphs, NEW s
  PROVE  /\ s \in DOMAIN d => d[s].internal \in 0..48
         /\ Requires(Empty, s) = {}
  BY DocumentsAssumption DEF Graphs, Empty, Requires

LEMMA NothingScored == Empty \in Scores /\ Scored(Empty) /\ DOMAIN Empty = {}
<1>1. DOMAIN Empty = {} /\ Empty \in [{} -> Nat]
  BY DEF Empty
<1>2. {} \in SUBSET Skill
  OBVIOUS
<1> QED BY <1>1, <1>2 DEF Scores, Scored

LEMMA NotRoutingOK == RouteOK(NotRouting)
<1>1. NotRouting \in RouteShape
  BY NothingScored DEF NotRouting, RouteShape, Places, Graphs
<1> QED BY <1>1, NothingScored DEF RouteOK, NotRouting

\* One thread moves and leaves the others alone.
LEMMA OneRoutes ==
  ASSUME SkillInv, NEW t \in Thread, NEW r, RouteOK(r), routing' = [routing EXCEPT ![t] = r],
         installed' = installed, skillNodes' \in Graphs,
         fingerprint' \in Catalogs \cup {NoCatalog}, loaded' \in BOOLEAN
  PROVE  SkillInv'
<1>1. r \in RouteShape
  BY DEF RouteOK
<1>2. routing' \in [Thread -> RouteShape]
  BY <1>1 DEF SkillInv
<1>3. \A u \in Thread : RouteOK(routing'[u])
  BY DEF SkillInv
<1> QED BY <1>2, <1>3 DEF SkillInv

LEMMA BeginStep ==
  ASSUME SkillInv, NEW t \in Thread, NEW catalog \in Catalogs, Begin(t, catalog)
  PROVE  SkillInv'
<1> DEFINE next(place) == [NotRouting EXCEPT !.pc = place, !.catalog = catalog]
<1>1. routing \in [Thread -> RouteShape] /\ routing[t] = NotRouting
  BY DEF SkillInv, Begin, At, RouteOK
<1>2. ASSUME NEW place \in {"score", "load"}
      PROVE  RouteOK(next(place))
  <2>1. next(place) \in RouteShape
    BY NotRoutingOK DEF RouteOK, RouteShape, Places
  <2>2. /\ next(place).pc = place /\ next(place).catalog = catalog /\ next(place).base = Empty
        /\ next(place).read = {} /\ next(place).found = {}
    BY DEF NotRouting
  <2> QED BY <2>1, <2>2, NothingScored DEF RouteOK
<1>3. ASSUME NEW place \in {"score", "load"},
             routing' = [routing EXCEPT ![t].pc = place, ![t].catalog = catalog]
      PROVE  routing' = [routing EXCEPT ![t] = next(place)]
  BY <1>1, <1>3
<1> HIDE DEF next
<1>4. CASE loaded /\ fingerprint = catalog
  <2>1. routing' = [routing EXCEPT ![t] = next("score")] /\ UNCHANGED <<installed, graphVars>>
    BY <1>3, <1>4 DEF Begin
  <2> QED BY <1>2, <2>1, OneRoutes DEF graphVars, SkillInv
<1>5. CASE ~(loaded /\ fingerprint = catalog)
  <2>1. /\ routing' = [routing EXCEPT ![t] = next("load")] /\ fingerprint' = catalog
        /\ UNCHANGED <<skillNodes, loaded, installed>>
    BY <1>3, <1>5 DEF Begin
  <2> QED BY <1>2, <2>1, OneRoutes DEF SkillInv
<1> QED BY <1>4, <1>5

\* While the graph is loaded, nothing is scored yet that matters.
LEMMA LoadingOK ==
  ASSUME NEW r, RouteOK(r), r.pc \in {"load", "swap", "stamp"},
         NEW place \in {"swap", "stamp", "score"}, NEW d \in Graphs
  PROVE  RouteOK([r EXCEPT !.pc = place, !.documents = d]) /\ RouteOK([r EXCEPT !.pc = place])
<1>1. ASSUME NEW q \in {[r EXCEPT !.pc = place, !.documents = d], [r EXCEPT !.pc = place]}
      PROVE  RouteOK(q)
  <2>1. q \in RouteShape
    BY <1>1 DEF RouteOK, RouteShape, Places
  <2>2. /\ q.pc = place /\ q.catalog = r.catalog /\ q.base = r.base /\ q.read = r.read
      /\ q.found = r.found
    BY <1>1 DEF RouteOK, RouteShape
  <2> HIDE <1>1
  <2> QED BY <2>1, <2>2 DEF RouteOK
<1> QED BY <1>1

LEMMA LoadStep ==
  ASSUME SkillInv, NEW t \in Thread, ReadDocuments(t) \/ SwapNodes(t) \/ Stamp(t)
  PROVE  SkillInv'
<1>1. routing \in [Thread -> RouteShape] /\ RouteOK(routing[t]) /\ installed \in Graphs
  BY DEF SkillInv
<1>2. PICK r : r = routing[t]
  OBVIOUS
<1>3. RouteOK(r) /\ r \in RouteShape /\ Empty \in Graphs
  BY <1>1, <1>2 DEF Graphs
<1>4. CASE ReadDocuments(t)
  <2>1. r.pc \in {"load", "swap", "stamp"} /\ installed' = installed
    BY <1>2, <1>4 DEF ReadDocuments, At
  <2>2. CASE /\ routing' = [routing EXCEPT ![t].pc = "swap", ![t].documents = installed]
             /\ UNCHANGED graphVars
    <3>1. routing' = [routing EXCEPT ![t] = [r EXCEPT !.pc = "swap", !.documents = installed]]
      BY <1>1, <1>2, <2>2
    <3>2. RouteOK([r EXCEPT !.pc = "swap", !.documents = installed])
      BY <1>1, <1>3, <2>1, LoadingOK
    <3> QED BY <2>1, <2>2, <3>1, <3>2, OneRoutes DEF graphVars, SkillInv
  <2>3. CASE /\ loaded' = TRUE /\ routing' = [routing EXCEPT ![t].pc = "score"]
             /\ UNCHANGED <<skillNodes, fingerprint>>
    <3>1. routing' = [routing EXCEPT ![t] = [r EXCEPT !.pc = "score"]]
      BY <1>1, <1>2, <2>3
    <3>2. RouteOK([r EXCEPT !.pc = "score"])
      BY <1>3, <2>1, LoadingOK
    <3> QED BY <2>1, <2>3, <3>1, <3>2, OneRoutes DEF SkillInv
  <2> QED BY <1>4, <2>2, <2>3 DEF ReadDocuments
<1>5. CASE SwapNodes(t)
  <2>1. r.pc \in {"load", "swap", "stamp"} /\ UNCHANGED <<fingerprint, loaded, installed>>
        /\ skillNodes' = r.documents
    BY <1>2, <1>5 DEF SwapNodes, At
  <2>2. routing' = [routing EXCEPT ![t] = [r EXCEPT !.pc = "stamp", !.documents = Empty]]
    BY <1>1, <1>2, <1>5 DEF SwapNodes
  <2>3. RouteOK([r EXCEPT !.pc = "stamp", !.documents = Empty])
    BY <1>3, <2>1, LoadingOK
  <2>4. r.documents \in Graphs
    BY <1>3 DEF RouteShape
  <2> QED BY <2>1, <2>2, <2>3, <2>4, OneRoutes DEF SkillInv
<1>6. CASE Stamp(t)
  <2>1. r.pc \in {"load", "swap", "stamp"} /\ UNCHANGED <<skillNodes, installed>>
        /\ fingerprint' = r.catalog /\ loaded' = TRUE
    BY <1>2, <1>6 DEF Stamp, At
  <2>2. routing' = [routing EXCEPT ![t] = [r EXCEPT !.pc = "score"]]
    BY <1>1, <1>2, <1>6 DEF Stamp
  <2>3. RouteOK([r EXCEPT !.pc = "score"])
    BY <1>3, <2>1, LoadingOK
  <2>4. r.catalog \in Catalogs
    BY <1>3, <2>1 DEF RouteOK
  <2> QED BY <2>1, <2>2, <2>3, <2>4, OneRoutes DEF SkillInv
<1> QED BY <1>4, <1>5, <1>6

\* A card and a body score less than what is always kept.
LEMMA ScoreIsSound ==
  ASSUME skillNodes \in Graphs, NEW s \in Skill
  PROVE  ScoreOf(s) \in Nat /\ IF s \in AlwaysKeep THEN ScoreOf(s) = Infinite
                               ELSE Card[s] <= ScoreOf(s) /\ ScoreOf(s) < Infinite
<1>1. PICK i : i = InternalScore(s)
  OBVIOUS
<1>2. i \in 0..48
  BY <1>1, GraphsHaveNodes DEF InternalScore
<1>3. Card[s] \in Nat /\ Card[s] + 48 < Infinite /\ Infinite \in Nat
  BY CardAssumption, LimitsAssumption
<1>4. ScoreOf(s) = IF s \in AlwaysKeep THEN Infinite ELSE Card[s] + i
  BY <1>1 DEF ScoreOf
<1> QED BY <1>2, <1>3, <1>4

LEMMA ScoreEntryStep ==
  ASSUME SkillInv, NEW t \in Thread, ScoreEntry(t)
  PROVE  SkillInv'
<1>1. routing \in [Thread -> RouteShape] /\ RouteOK(routing[t]) /\ skillNodes \in Graphs
  BY DEF SkillInv
<1>2. PICK r : r = routing[t]
  OBVIOUS
<1>3. /\ RouteOK(r) /\ r \in RouteShape /\ r.pc = "score" /\ r.catalog \in Catalogs
      /\ r.base \in Scores /\ DOMAIN r.base \subseteq r.catalog /\ Scored(r.base)
  BY <1>1, <1>2 DEF RouteOK, RouteShape, ScoreEntry, At
<1>4. PICK left : left = r.catalog \ DOMAIN r.base
  OBVIOUS
<1>5. CASE left = {}
  <2>1. PICK base : base = r.base
    OBVIOUS
  <2>2. PICK q : q = [r EXCEPT !.pc = "relate", !.score = base, !.todo = Chosen(base)]
    OBVIOUS
  <2>3. routing' = [routing EXCEPT ![t] = q]
    BY <1>1, <1>2, <1>4, <1>5, <2>1, <2>2 DEF ScoreEntry
  <2>4. base \in Scores /\ DOMAIN base = r.catalog /\ Chosen(base) \in SUBSET Nat
    BY <1>3, <1>4, <1>5, <2>1, CatalogsAssumption DEF Chosen
  <2>5. /\ q \in RouteShape /\ q.pc = "relate" /\ q.catalog = r.catalog /\ q.base = base
        /\ q.score = base /\ q.todo = Chosen(base) /\ q.read = r.read
        /\ q.found = r.found
    BY <1>3, <2>1, <2>2, <2>4 DEF RouteShape, Places
  <2>6. Relating(base, base, Chosen(base), r.read)
    <3>1. Kept(base, base)
      <4>1. base \in [DOMAIN base -> Nat]
        BY <2>4 DEF Scores
      <4> QED BY <4>1, LimitsAssumption DEF Kept
    <3>2. \A d : Visited(base, base, d, {})
      BY <2>4, UnvisitedScores
    <3> QED BY <3>1, <3>2 DEF Relating
  <2>7. RouteOK(q)
    BY <1>3, <2>1, <2>4, <2>5, <2>6 DEF RouteOK
  <2>8. UNCHANGED <<installed, graphVars>>
    BY DEF ScoreEntry
  <2> QED BY <2>3, <2>7, <2>8, OneRoutes DEF graphVars, SkillInv
<1>6. CASE left # {}
  <2>1. PICK s : s = Min(left)
    OBVIOUS
  <2>2. s \in left /\ s \in r.catalog /\ s \in Skill
    <3>1. left \in SUBSET Nat
      BY <1>3, <1>4, CatalogsAssumption
    <3>2. s \in left
      BY <1>6, <2>1, <3>1, LeastExists
    <3> QED BY <1>3, <1>4, <3>2 DEF Skill
  <2>3. PICK f : f = [u \in DOMAIN r.base \cup {s} |-> IF u = s THEN ScoreOf(s) ELSE r.base[u]]
    OBVIOUS
  <2>4. /\ DOMAIN f = DOMAIN r.base \cup {s}
        /\ f[s] = ScoreOf(s) /\ \A u \in DOMAIN r.base : u # s => f[u] = r.base[u]
        /\ f = [u \in DOMAIN f |-> f[u]]
    BY <2>3
  <2>5. f \in Scores
    <3>1. r.base \in [DOMAIN r.base -> Nat] /\ DOMAIN r.base \subseteq Skill
      BY <1>3 DEF Scores
    <3>2. \A u \in DOMAIN f : f[u] \in Nat
      BY <1>1, <2>2, <2>4, <3>1, ScoreIsSound
    <3>3. DOMAIN f \in SUBSET Skill /\ f \in [DOMAIN f -> Nat]
      BY <2>2, <2>4, <3>1, <3>2
    <3> QED BY <3>3 DEF Scores
  <2>6. Scored(f)
    BY <1>1, <1>3, <2>2, <2>4, ScoreIsSound DEF Scored
  <2>7. routing' = [routing EXCEPT ![t] = [r EXCEPT !.base = f]]
    BY <1>1, <1>2, <1>4, <1>6, <2>1, <2>3 DEF ScoreEntry
  <2>8. RouteOK([r EXCEPT !.base = f])
    <3>1. PICK q : q = [r EXCEPT !.base = f]
      OBVIOUS
    <3>2. /\ q \in RouteShape /\ q.pc = "score" /\ q.catalog = r.catalog /\ q.base = f
          /\ q.read = r.read /\ q.found = r.found
      BY <1>3, <2>5, <3>1 DEF RouteShape
    <3>3. DOMAIN f \subseteq r.catalog
      BY <1>3, <2>2, <2>4
    <3>4. RouteOK(q)
      BY <1>3, <2>6, <3>2, <3>3 DEF RouteOK
    <3> QED BY <3>1, <3>4
  <2>9. UNCHANGED <<installed, graphVars>>
    BY DEF ScoreEntry
  <2> QED BY <2>7, <2>8, <2>9, OneRoutes DEF graphVars, SkillInv
<1> QED BY <1>5, <1>6

LEMMA FiniteCatalog ==
  ASSUME NEW r, RouteOK(r), r.pc \in {"relate", "close", "chosen"}
  PROVE  /\ r.base \in Scores /\ r.base \in [r.catalog -> Nat] /\ r.catalog \in Catalogs
         /\ DOMAIN r.base = r.catalog /\ IsFiniteSet(r.catalog)
         /\ r.catalog \in SUBSET Nat /\ r.catalog \in SUBSET Skill
         /\ Chosen(r.base) \in SUBSET r.catalog /\ IsFiniteSet(Chosen(r.base))
<1>1. r.base \in Scores /\ r.catalog \in Catalogs /\ DOMAIN r.base = r.catalog
  BY DEF RouteOK, RouteShape
<1>2. IsFiniteSet(r.catalog) /\ r.catalog \in SUBSET Nat /\ r.catalog \in SUBSET Skill
  BY <1>1, CatalogsAssumption DEF Skill
<1>3. Chosen(r.base) \in SUBSET r.catalog
  BY <1>1 DEF Chosen
<1>4. r.base \in [r.catalog -> Nat]
  BY <1>1 DEF Scores
<1> QED BY <1>1, <1>2, <1>3, <1>4, FS_Subset

LEMMA KeptScores ==
  ASSUME NEW base \in Scores, NEW sc, Kept(base, sc)
  PROVE  sc \in Scores
<1>1. DOMAIN base \in SUBSET Skill
  BY DEF Scores
<1> QED BY <1>1 DEF Kept, Scores

LEMMA RelateNextStep ==
  ASSUME SkillInv, NEW t \in Thread, RelateNext(t)
  PROVE  SkillInv'
<1>1. routing \in [Thread -> RouteShape] /\ RouteOK(routing[t]) /\ skillNodes \in Graphs
  BY DEF SkillInv
<1>2. PICK r, net : r = routing[t] /\ net = skillNodes
  OBVIOUS
<1>3. RouteOK(r) /\ r \in RouteShape /\ r.pc = "relate" /\ net \in Graphs
  BY <1>1, <1>2 DEF RelateNext, At
<1>4. PICK base, score, todo, read :
        base = r.base /\ score = r.score /\ todo = r.todo /\ read = r.read
  OBVIOUS
<1>5. /\ base \in Scores /\ DOMAIN base = r.catalog /\ r.catalog \in Catalogs
      /\ IsFiniteSet(Chosen(base)) /\ Relating(base, score, todo, read)
      /\ todo \in SUBSET Nat /\ read \in SUBSET Graphs
  BY <1>3, <1>4, FiniteCatalog DEF RouteOK, RouteShape
<1>6. PICK source \in todo :
        routing' = [routing EXCEPT ![t].todo = @ \ {source}, ![t].read = @ \cup {net},
                                   ![t].score = Lift(@, source, Related(net, source))]
  BY <1>2, <1>4 DEF RelateNext
<1>7. PICK sc : sc = Lift(score, source, Related(net, source))
  OBVIOUS
<1>8. source \in Chosen(base) /\ todo \subseteq Chosen(base) /\ Kept(base, score)
  BY <1>5, <1>6 DEF Relating
<1>9. Kept(base, sc)
  BY <1>5, <1>7, <1>8, LiftKeeps
<1>10. ASSUME NEW d \in Graphs, read \cup {net} \subseteq {d}
       PROVE  Visited(sc, base, d, Chosen(base) \ (todo \ {source}))
  <2>1. PICK A : A = Chosen(base) \ todo
    OBVIOUS
  <2>2. d = net /\ read \subseteq {d}
    BY <1>10
  <2>3. Visited(score, base, d, A) /\ A \in SUBSET Chosen(base) /\ source \notin A
    BY <1>5, <1>6, <2>1, <2>2 DEF Relating
  <2>4. IsFiniteSet(A)
    BY <1>5, <2>3, FS_Subset
  <2>5. Visited(Lift(score, source, Related(d, source)), base, d, A \cup {source})
    BY <1>5, <1>8, <2>3, <2>4, LiftVisits
  <2>6. Chosen(base) \ (todo \ {source}) = A \cup {source}
    BY <1>8, <2>1
  <2> QED BY <1>7, <2>2, <2>5, <2>6
<1>11. Relating(base, sc, todo \ {source}, read \cup {net})
  BY <1>8, <1>9, <1>10 DEF Relating
<1>12. PICK q : q = [r EXCEPT !.todo = todo \ {source}, !.read = read \cup {net}, !.score = sc]
  OBVIOUS
<1>13. routing' = [routing EXCEPT ![t] = q]
  BY <1>1, <1>2, <1>4, <1>6, <1>7, <1>12
<1>14. /\ q \in RouteShape /\ q.pc = "relate" /\ q.catalog = r.catalog /\ q.base = base
       /\ q.score = sc /\ q.todo = todo \ {source} /\ q.read = read \cup {net}
       /\ q.found = r.found
  <2>1. sc \in Scores
    BY <1>5, <1>9, KeptScores
  <2> QED BY <1>3, <1>4, <1>5, <1>12, <2>1 DEF RouteShape
<1>15. RouteOK(q)
  BY <1>3, <1>4, <1>5, <1>11, <1>14 DEF RouteOK
<1>16. UNCHANGED <<installed, graphVars>>
  BY DEF RelateNext
<1> QED BY <1>13, <1>15, <1>16, OneRoutes DEF graphVars, SkillInv

----------------------------------------------------------------------------
(* What a selection holds. *)

\* Under a cap, what precedes a selected skill is selected too.
LEMMA CapIsAnInitialPart ==
  ASSUME NEW D, IsFiniteSet(D), NEW score \in [D -> Nat], D \subseteq Nat,
         NEW members \in SUBSET D, NEW cap \in Nat,
         NEW s \in Capped(score, members, cap), NEW u \in members, Precedes(score, u, s)
  PROVE  u \in Capped(score, members, cap)
<1>1. CASE cap = 0
  BY <1>1 DEF Capped
<1>2. CASE cap # 0
  <2> DEFINE Ahead(x) == {v \in members : Precedes(score, v, x)}
  <2>1. s \in members /\ Cardinality(Ahead(s)) < cap
    BY <1>2 DEF Capped
  <2>2. Ahead(s) \in SUBSET D /\ IsFiniteSet(Ahead(s))
    BY FS_Subset
  <2>3. Ahead(u) \in SUBSET Ahead(s)
    <3> SUFFICES ASSUME NEW v \in members, Precedes(score, v, u) PROVE Precedes(score, v, s)
      OBVIOUS
    <3>1. score[v] \in Nat /\ score[u] \in Nat /\ score[s] \in Nat /\ v \in Nat /\ u \in Nat /\ s \in Nat
      BY <2>1
    <3> QED BY <3>1 DEF Precedes
  <2>4. Cardinality(Ahead(u)) \in Nat /\ Cardinality(Ahead(s)) \in Nat
        /\ Cardinality(Ahead(u)) <= Cardinality(Ahead(s))
    <3> HIDE DEF Ahead
    <3> QED BY <2>2, <2>3, FS_Subset, FS_CardinalityType
  <2>5. Cardinality(Ahead(u)) < cap
    <3> HIDE DEF Ahead
    <3> QED BY <2>1, <2>4
  <2> QED BY <1>2, <2>5 DEF Capped
<1> QED BY <1>1, <1>2

\* More graphs and more skills require no less.
LEMMA ClosureGrows ==
  ASSUME NEW graphs, NEW more, graphs \subseteq more, NEW A, NEW B, A \subseteq B
  PROVE  RequiredClosure(graphs, A) \subseteq RequiredClosure(more, B)
  BY DEF RequiredClosure

LEMMA StartClosingStep ==
  ASSUME SkillInv, NEW t \in Thread, StartClosing(t)
  PROVE  SkillInv'
<1>1. routing \in [Thread -> RouteShape] /\ RouteOK(routing[t])
  BY DEF SkillInv
<1>2. PICK r : r = routing[t]
  OBVIOUS
<1>3. RouteOK(r) /\ r \in RouteShape /\ r.pc = "relate"
  BY <1>1, <1>2 DEF StartClosing, At
<1>4. PICK score, chosen : score = r.score /\ chosen = Chosen(score)
  OBVIOUS
<1>5. /\ DOMAIN r.base = r.catalog /\ r.catalog \in Catalogs /\ r.catalog \in SUBSET Nat
      /\ r.catalog \in SUBSET Skill /\ Kept(r.base, score) /\ r.found = {}
  BY <1>3, <1>4, FiniteCatalog DEF RouteOK, Relating
<1>6. chosen \in SUBSET r.catalog /\ chosen \in SUBSET Nat /\ chosen \in SUBSET AnySkill
  BY <1>4, <1>5 DEF Kept, Chosen, AnySkill
<1>7. Closing(score, chosen, {}, chosen, {})
  <2>1. chosen \cap AnySkill \subseteq RequiredClosure({}, chosen)
    BY <1>6 DEF RequiredClosure
  <2> QED BY <1>4, <1>6, <2>1 DEF Closing
<1>8. PICK q : q = [r EXCEPT !.pc = "close", !.todo = chosen, !.required = chosen, !.read = {}]
  OBVIOUS
<1>9. routing' = [routing EXCEPT ![t] = q]
  BY <1>1, <1>2, <1>4, <1>8 DEF StartClosing
<1>10. /\ q \in RouteShape /\ q.pc = "close" /\ q.catalog = r.catalog /\ q.base = r.base
       /\ q.score = score /\ q.todo = chosen /\ q.required = chosen /\ q.read = {} /\ q.found = {}
  BY <1>3, <1>4, <1>5, <1>6, <1>8 DEF RouteShape, Places
<1>11. RouteOK(q)
  BY <1>3, <1>5, <1>7, <1>10 DEF RouteOK
<1>12. UNCHANGED <<installed, graphVars>>
  BY DEF StartClosing
<1> QED BY <1>9, <1>11, <1>12, OneRoutes DEF graphVars, SkillInv

\* What one skill requires, in the graph as it is now, is found.
LEMMA FindingCloses ==
  ASSUME NEW net \in Graphs, NEW score, NEW todo, NEW required, NEW read, NEW source \in todo,
         NEW new, new = Requires(net, source) \ required, Closing(score, todo, {}, required, read)
  PROVE  Closing(score, todo \ {source}, new, required \cup new, read \cup {net})
<1> DEFINE left == (todo \ {source}) \cup new
<1>1. /\ Chosen(score) \subseteq required \cup new /\ left \subseteq required \cup new
      /\ todo \ {source} \subseteq AnySkill
  BY DEF Closing
<1>2. ASSUME NEW s \in (required \cup new) \cap AnySkill
      PROVE  s \in RequiredClosure(read \cup {net}, Chosen(score))
  <2>1. required \cap AnySkill \subseteq RequiredClosure(read \cup {net}, Chosen(score))
    <3>1. RequiredClosure(read, Chosen(score)) \subseteq RequiredClosure(read \cup {net}, Chosen(score))
      BY ClosureGrows
    <3> QED BY <3>1 DEF Closing
  <2>2. CASE s \in required
    BY <2>1, <2>2
  <2>3. CASE s \in new
    <3>1. source \in RequiredClosure(read \cup {net}, Chosen(score))
      BY <2>1 DEF Closing
    <3>2. s \in Requires(net, source) \cap AnySkill
      BY <2>3
    <3> QED BY <3>1, <3>2 DEF RequiredClosure
  <2> QED BY <2>2, <2>3
<1>3. ASSUME NEW d \in Graphs, read \cup {net} \subseteq {d}, NEW s \in (required \cup new) \ left
      PROVE  Requires(d, s) \subseteq required \cup new
  <2>1. d = net /\ read \subseteq {d}
    BY <1>3
  <2>2. CASE s = source
    BY <2>1, <2>2
  <2>3. CASE s # source
    <3>1. s \in required \ (todo \cup {})
      BY <2>3
    <3> QED BY <2>1, <3>1 DEF Closing
  <2> QED BY <2>2, <2>3
<1> QED BY <1>1, <1>2, <1>3 DEF Closing

\* Of what was found, what the graph knows joins the queue; the rest requires nothing.
LEMMA QueueingCloses ==
  ASSUME NEW net \in Graphs, NEW score, NEW todo, NEW found, NEW required, NEW read,
         NEW target \in found, Closing(score, todo, found, required, read)
  PROVE  Closing(score, todo \cup ({target} \cap DOMAIN net), found \ {target}, required,
                 read \cup {net})
<1> DEFINE queue == todo \cup ({target} \cap DOMAIN net)
<1>1. DOMAIN net \subseteq AnySkill
  BY DEF Graphs, AnySkill, Empty
<1>2. /\ Chosen(score) \subseteq required /\ queue \cup (found \ {target}) \subseteq required
      /\ queue \subseteq AnySkill
  BY <1>1 DEF Closing
<1>3. required \cap AnySkill \subseteq RequiredClosure(read \cup {net}, Chosen(score))
  <2>1. RequiredClosure(read, Chosen(score)) \subseteq RequiredClosure(read \cup {net}, Chosen(score))
    BY ClosureGrows
  <2> QED BY <2>1 DEF Closing
<1>4. ASSUME NEW d \in Graphs, read \cup {net} \subseteq {d},
             NEW s \in required \ (queue \cup (found \ {target}))
      PROVE  Requires(d, s) \subseteq required
  <2>1. d = net /\ read \subseteq {d}
    BY <1>4
  <2>2. CASE s = target
    <3>1. s \notin DOMAIN d
      BY <2>1, <2>2
    <3> QED BY <3>1 DEF Requires
  <2>3. CASE s # target
    <3>1. s \in required \ (todo \cup found)
      BY <2>3
    <3> QED BY <2>1, <3>1 DEF Closing
  <2> QED BY <2>2, <2>3
<1> HIDE DEF queue
<1>5. Closing(score, queue, found \ {target}, required, read \cup {net})
  BY <1>2, <1>3, <1>4 DEF Closing
<1> QED BY <1>5 DEF queue

\* The loop over the queue goes from one state that is closed so far to another.
LEMMA QueueMoves ==
  ASSUME SkillInv, NEW t \in Thread, At(t, "close"),
         NEW todo \in SUBSET Nat, NEW found \in SUBSET Nat, NEW required \in SUBSET Nat,
         NEW read \in SUBSET Graphs, Closing(routing[t].score, todo, found, required, read),
         routing' = [routing EXCEPT ![t].todo = todo, ![t].found = found,
                                    ![t].required = required, ![t].read = read],
         UNCHANGED <<installed, graphVars>>
  PROVE  SkillInv'
<1>1. routing \in [Thread -> RouteShape] /\ RouteOK(routing[t])
  BY DEF SkillInv
<1>2. PICK r : r = routing[t]
  OBVIOUS
<1>3. RouteOK(r) /\ r \in RouteShape /\ r.pc = "close" /\ Closing(r.score, todo, found, required, read)
  BY <1>1, <1>2 DEF At
<1>4. PICK q : q = [r EXCEPT !.todo = todo, !.found = found, !.required = required, !.read = read]
  OBVIOUS
<1>5. routing' = [routing EXCEPT ![t] = q]
  BY <1>1, <1>2, <1>4
<1>6. /\ q \in RouteShape /\ q.pc = "close" /\ q.catalog = r.catalog /\ q.base = r.base
      /\ q.score = r.score /\ q.todo = todo /\ q.found = found /\ q.required = required /\ q.read = read
  BY <1>3, <1>4 DEF RouteShape
<1>7. RouteOK(q)
  BY <1>3, <1>6 DEF RouteOK
<1> QED BY <1>5, <1>7, OneRoutes DEF graphVars, SkillInv

LEMMA RequireNextStep ==
  ASSUME SkillInv, NEW t \in Thread, RequireNext(t)
  PROVE  SkillInv'
<1>1. routing \in [Thread -> RouteShape] /\ RouteOK(routing[t]) /\ skillNodes \in Graphs
  BY DEF SkillInv
<1>2. PICK r, net : r = routing[t] /\ net = skillNodes
  OBVIOUS
<1>3. RouteOK(r) /\ r \in RouteShape /\ r.pc = "close" /\ net \in Graphs /\ r.found = {}
  BY <1>1, <1>2 DEF RequireNext, At
<1>4. PICK source \in r.todo : \E new :
        /\ new = Requires(net, source) \ r.required
        /\ routing' = [routing EXCEPT ![t].todo = @ \ {source}, ![t].found = new,
                                      ![t].required = @ \cup new, ![t].read = @ \cup {net}]
  BY <1>2 DEF RequireNext
<1>5. PICK new :
        /\ new = Requires(net, source) \ r.required
        /\ routing' = [routing EXCEPT ![t].todo = @ \ {source}, ![t].found = new,
                                      ![t].required = @ \cup new, ![t].read = @ \cup {net}]
  BY <1>4
<1>6. PICK todo, required, read :
        todo = r.todo \ {source} /\ required = r.required \cup new /\ read = r.read \cup {net}
  OBVIOUS
<1>7. Closing(r.score, todo, new, required, read)
  <2>1. Closing(r.score, r.todo, {}, r.required, r.read)
    BY <1>3 DEF RouteOK
  <2> QED BY <1>3, <1>5, <1>6, <2>1, FindingCloses
<1>8. Requires(net, source) \subseteq Nat
  BY <1>3, DocumentsAssumption DEF Graphs, Empty, Requires
<1>9. /\ todo \in SUBSET Nat /\ new \in SUBSET Nat /\ required \in SUBSET Nat
      /\ read \in SUBSET Graphs
  BY <1>3, <1>5, <1>6, <1>8 DEF RouteShape
<1>10. routing' = [routing EXCEPT ![t].todo = todo, ![t].found = new,
                                  ![t].required = required, ![t].read = read]
  BY <1>1, <1>2, <1>5, <1>6
<1>11. At(t, "close") /\ UNCHANGED <<installed, graphVars>>
  BY DEF RequireNext
<1> QED BY <1>2, <1>7, <1>9, <1>10, <1>11, QueueMoves

LEMMA QueueNextStep ==
  ASSUME SkillInv, NEW t \in Thread, QueueNext(t)
  PROVE  SkillInv'
<1>1. routing \in [Thread -> RouteShape] /\ RouteOK(routing[t]) /\ skillNodes \in Graphs
  BY DEF SkillInv
<1>2. PICK r, net : r = routing[t] /\ net = skillNodes
  OBVIOUS
<1>3. RouteOK(r) /\ r \in RouteShape /\ r.pc = "close" /\ net \in Graphs
  BY <1>1, <1>2 DEF QueueNext, At
<1>4. PICK target \in r.found :
        routing' = [routing EXCEPT ![t].found = @ \ {target}, ![t].read = @ \cup {net},
                                   ![t].todo = @ \cup ({target} \cap DOMAIN net)]
  BY <1>2 DEF QueueNext
<1>5. PICK todo, found, read :
        /\ todo = r.todo \cup ({target} \cap DOMAIN net) /\ found = r.found \ {target}
        /\ read = r.read \cup {net}
  OBVIOUS
<1>6. Closing(r.score, todo, found, r.required, read)
  <2>1. Closing(r.score, r.todo, r.found, r.required, r.read)
    BY <1>3 DEF RouteOK
  <2> QED BY <1>3, <1>5, <2>1, QueueingCloses
<1>7. /\ todo \in SUBSET Nat /\ found \in SUBSET Nat /\ r.required \in SUBSET Nat
      /\ read \in SUBSET Graphs
  BY <1>3, <1>5 DEF RouteShape
<1>8. routing' = [routing EXCEPT ![t].todo = todo, ![t].found = found,
                                 ![t].required = r.required, ![t].read = read]
  BY <1>1, <1>2, <1>3, <1>4, <1>5 DEF RouteShape
<1>9. At(t, "close") /\ UNCHANGED <<installed, graphVars>>
  BY DEF QueueNext
<1> QED BY <1>2, <1>6, <1>7, <1>8, <1>9, QueueMoves

\* Scores as they are after the loop, whatever graphs it has read.
Ready(catalog, base, sc) ==
  /\ base \in [catalog -> Nat] /\ sc \in [catalog -> Nat]
  /\ \A s \in catalog :
       /\ sc[s] >= base[s] /\ (base[s] = 0 => sc[s] = 0)
       /\ IF s \in AlwaysKeep THEN sc[s] = Infinite ELSE Card[s] <= base[s] /\ sc[s] < Infinite

LEMMA ReadyToClose ==
  ASSUME NEW r, RouteOK(r), r.pc = "close"
  PROVE  Ready(r.catalog, r.base, r.score)
<1>1. DOMAIN r.base = r.catalog /\ r.base \in [r.catalog -> Nat] /\ Scored(r.base)
      /\ Kept(r.base, r.score)
  BY FiniteCatalog DEF RouteOK
<1>2. r.score \in [r.catalog -> Nat]
  BY <1>1 DEF Kept
<1>3. ASSUME NEW s \in r.catalog
      PROVE  /\ r.score[s] >= r.base[s] /\ (r.base[s] = 0 => r.score[s] = 0)
             /\ IF s \in AlwaysKeep THEN r.score[s] = Infinite
                ELSE Card[s] <= r.base[s] /\ r.score[s] < Infinite
  <2>1. PICK x, y : x = r.base[s] /\ y = r.score[s]
    OBVIOUS
  <2>2. /\ x \in Nat /\ y \in Nat /\ y >= x /\ (x = 0 => y = 0)
        /\ (x >= MinScore => y = x) /\ (x < MinScore => y < Infinite)
    BY <1>1, <1>2, <2>1 DEF Kept
  <2>3. IF s \in AlwaysKeep THEN x = Infinite ELSE Card[s] <= x /\ x < Infinite
    BY <1>1, <2>1 DEF Scored
  <2>4. IF s \in AlwaysKeep THEN y = Infinite ELSE Card[s] <= x /\ y < Infinite
    BY <2>2, <2>3, LimitsAssumption
  <2> QED BY <2>1, <2>2, <2>4
<1> QED BY <1>1, <1>2, <1>3 DEF Ready

Members(sc, required) == Chosen(sc) \cup (required \cap DOMAIN sc)

LEMMA SelectedWell ==
  ASSUME NEW catalog \in Catalogs, NEW base, NEW sc, Ready(catalog, base, sc),
         NEW todo, NEW found, NEW required, NEW read, Closing(sc, todo, found, required, read),
         NEW cap \in Nat
  PROVE  WellSelected(catalog, base, read, cap, Capped(sc, Members(sc, required), cap))
<1>0. PICK members, selected : members = Members(sc, required) /\ selected = Capped(sc, members, cap)
  OBVIOUS
<1>1. /\ catalog \in SUBSET Nat /\ IsFiniteSet(catalog) /\ catalog \in SUBSET Skill
      /\ base \in [catalog -> Nat] /\ sc \in [catalog -> Nat]
  BY CatalogsAssumption DEF Ready, Skill
<1>2. MinScore \in Nat /\ MinScore > 0 /\ MinScore <= Infinite /\ Infinite \in Nat
  BY LimitsAssumption
<1>3. /\ Chosen(sc) \in SUBSET catalog /\ members \in SUBSET catalog /\ Chosen(sc) \in SUBSET members
      /\ \A s \in catalog : s \in Chosen(sc) <=> sc[s] >= MinScore
  BY <1>0, <1>1 DEF Chosen, Members
<1>4. selected \in SUBSET members
  BY <1>0 DEF Capped
<1>5. ASSUME NEW s \in catalog
      PROVE  /\ Card[s] \in Nat /\ base[s] \in Nat /\ sc[s] \in Nat /\ sc[s] >= base[s]
             /\ IF s \in AlwaysKeep THEN sc[s] = Infinite ELSE Card[s] <= base[s] /\ sc[s] < Infinite
  BY <1>1, CardAssumption DEF Ready
<1>6. ASSUME cap = 0
      PROVE  {s \in catalog : Card[s] >= MinScore} \subseteq selected
  <2> SUFFICES ASSUME NEW s \in catalog, Card[s] >= MinScore PROVE s \in selected
    OBVIOUS
  <2>1. sc[s] >= MinScore
    BY <1>2, <1>5
  <2> QED BY <1>0, <1>3, <1>6, <2>1 DEF Capped
<1>7. AlwaysKeep \cap catalog \subseteq members
  BY <1>2, <1>3, <1>5
<1>8. ASSUME cap # 0, Cardinality(AlwaysKeep \cap catalog) <= cap
      PROVE  AlwaysKeep \cap catalog \subseteq selected
  <2> SUFFICES ASSUME NEW s \in AlwaysKeep \cap catalog PROVE s \in selected
    OBVIOUS
  <2>1. PICK K : K = AlwaysKeep \cap catalog
    OBVIOUS
  <2>2. PICK P : P = {u \in members : Precedes(sc, u, s)}
    OBVIOUS
  <2>3. IsFiniteSet(K) /\ s \in K /\ Cardinality(K) <= cap /\ Cardinality(K) \in Nat
    BY <1>1, <1>8, <2>1, FS_Subset, FS_CardinalityType
  <2>4. P \in SUBSET (K \ {s})
    <3> SUFFICES ASSUME NEW u \in members, Precedes(sc, u, s) PROVE u \in K /\ u # s
      BY <2>2
    <3>1. u \in catalog /\ s \in catalog /\ sc[s] = Infinite /\ u \in Nat /\ s \in Nat
      BY <1>1, <1>3, <1>5
    <3>2. sc[u] \in Nat /\ (u \notin AlwaysKeep => sc[u] < Infinite)
      BY <1>5, <3>1
    <3>3. u \in AlwaysKeep /\ u # s
      BY <1>2, <3>1, <3>2 DEF Precedes
    <3> QED BY <2>1, <3>1, <3>3
  <2>5. Cardinality(P) <= Cardinality(K \ {s}) /\ Cardinality(K \ {s}) = Cardinality(K) - 1
        /\ Cardinality(P) \in Nat
    <3>1. IsFiniteSet(K \ {s}) /\ Cardinality(K \ {s}) = Cardinality(K) - 1
      BY <2>3, FS_RemoveElement
    <3>2. IsFiniteSet(P) /\ Cardinality(P) <= Cardinality(K \ {s})
      BY <2>4, <3>1, FS_Subset
    <3> QED BY <3>1, <3>2, FS_CardinalityType
  <2>6. Cardinality(P) < cap
    BY <2>3, <2>5
  <2> QED BY <1>0, <1>7, <1>8, <2>2, <2>6 DEF Capped
<1>9. ASSUME cap = 0
      PROVE  AlwaysKeep \cap catalog \subseteq selected
  BY <1>0, <1>7, <1>9 DEF Capped
<1>10. ASSUME NEW s \in selected, base[s] = 0
       PROVE  s \in RequiredClosure(read, selected \ {s})
  <2>1. s \in catalog /\ sc[s] = 0 /\ s \notin Chosen(sc)
    BY <1>2, <1>3, <1>4, <1>10 DEF Ready
  <2>2. s \in RequiredClosure(read, Chosen(sc))
    <3>1. s \in required /\ s \in AnySkill
      BY <1>0, <1>1, <1>4, <2>1 DEF Members, AnySkill
    <3> QED BY <3>1 DEF Closing
  <2>3. Chosen(sc) \subseteq selected \ {s}
    <3> SUFFICES ASSUME NEW u \in Chosen(sc) PROVE u \in selected \ {s}
      OBVIOUS
    <3>1. u \in members /\ u \in catalog /\ sc[u] \in Nat /\ sc[u] >= MinScore
      BY <1>1, <1>3
    <3>2. Precedes(sc, u, s)
      BY <1>2, <2>1, <3>1 DEF Precedes
    <3>3. u \in selected
      BY <1>0, <1>1, <1>3, <3>1, <3>2, CapIsAnInitialPart
    <3> QED BY <2>1, <3>3
  <2> QED BY <2>2, <2>3, ClosureGrows
<1>11. WellSelected(catalog, base, read, cap, selected)
  BY <1>3, <1>4, <1>6, <1>8, <1>9, <1>10 DEF WellSelected
<1> QED BY <1>0, <1>11

LEMMA RankStep ==
  ASSUME SkillInv, NEW t \in Thread, Rank(t)
  PROVE  SkillInv'
<1>1. routing \in [Thread -> RouteShape] /\ RouteOK(routing[t])
  BY DEF SkillInv
<1>2. PICK r : r = routing[t]
  OBVIOUS
<1>3. RouteOK(r) /\ r \in RouteShape /\ r.pc = "close"
  BY <1>1, <1>2 DEF Rank, At
<1>4. r.catalog \in Catalogs /\ DOMAIN r.base = r.catalog
  BY <1>3, FiniteCatalog
<1>5. Ready(r.catalog, r.base, r.score) /\ Closing(r.score, r.todo, r.found, r.required, r.read)
  BY <1>3, ReadyToClose DEF RouteOK
<1>6. PICK members : members = Members(r.score, r.required)
  OBVIOUS
<1>7. PICK cap \in Caps :
        routing' = [routing EXCEPT ![t].pc = "chosen", ![t].cap = cap,
                                   ![t].selected = Capped(r.score, members, cap),
                                   ![t].score = Empty, ![t].required = {}]
  BY <1>2, <1>6 DEF Rank, Members
<1>8. PICK selected : selected = Capped(r.score, members, cap)
  OBVIOUS
<1>9. cap \in Nat
  BY LimitsAssumption
<1>10. PICK q : q = [r EXCEPT !.pc = "chosen", !.cap = cap, !.selected = selected,
                             !.score = Empty, !.required = {}]
  OBVIOUS
<1>11. routing' = [routing EXCEPT ![t] = q]
  BY <1>1, <1>2, <1>7, <1>8, <1>10
<1>12. WellSelected(r.catalog, r.base, r.read, cap, selected)
  BY <1>4, <1>5, <1>6, <1>8, <1>9, SelectedWell
<1>13. selected \in SUBSET Skill
  BY <1>4, <1>12 DEF WellSelected, Skill
<1>14. /\ q \in RouteShape /\ q.pc = "chosen" /\ q.catalog = r.catalog /\ q.base = r.base
       /\ q.selected = selected /\ q.cap = cap /\ q.read = r.read
  BY <1>3, <1>9, <1>10, <1>13, NothingScored DEF RouteShape, Places
<1>15. RouteOK(q)
  BY <1>3, <1>4, <1>12, <1>14 DEF RouteOK
<1>16. UNCHANGED <<installed, graphVars>>
  BY DEF Rank
<1> QED BY <1>11, <1>15, <1>16, OneRoutes DEF graphVars, SkillInv

LEMMA SkillStep == SkillInv /\ [SkillNext]_skillVars => SkillInv'
<1> SUFFICES ASSUME SkillInv, [SkillNext]_skillVars PROVE SkillInv'
  OBVIOUS
<1>1. CASE UNCHANGED skillVars
  BY <1>1 DEF skillVars, graphVars, SkillInv
<1>2. ASSUME NEW t \in Thread, Route(t)
      PROVE  SkillInv'
  <2>1. CASE Decide(t)
    <3>1. routing' = [routing EXCEPT ![t] = NotRouting] /\ UNCHANGED <<installed, graphVars>>
      BY <2>1 DEF Decide
    <3> QED BY <3>1, NotRoutingOK, OneRoutes DEF graphVars, SkillInv
  <2> QED BY <1>2, <2>1, BeginStep, LoadStep, ScoreEntryStep, RelateNextStep,
        StartClosingStep, RequireNextStep, QueueNextStep, RankStep DEF Route
<1>3. ASSUME NEW d \in Documents, Install(d)
      PROVE  SkillInv'
  BY <1>3 DEF Install, graphVars, SkillInv, Graphs
<1>4. CASE SetProvider
  BY <1>4 DEF SetProvider, SkillInv, Graphs
<1> QED BY <1>1, <1>2, <1>3, <1>4 DEF SkillNext

LEMMA SkillInitial == SkillInit => SkillInv
<1> SUFFICES ASSUME SkillInit PROVE SkillInv
  OBVIOUS
<1>1. NotRouting \in RouteShape /\ Empty \in Graphs
  BY NotRoutingOK DEF RouteOK, Graphs
<1> QED BY <1>1, NotRoutingOK DEF SkillInit, SkillInv

\* Every route of SkillSpec keeps to the catalog it began with, scores it as its
\* cards and some graph say, and selects from it as WellSelected demands.
THEOREM SkillInvariant == SkillSpec => []SkillInv
  BY SkillInitial, SkillStep, PTL DEF SkillSpec

\* A stale, half-replaced or cleared graph hides no skill that its card makes
\* relevant, and none that is always kept (_select, lines 306-384).
THEOREM SkillMatchesStay == SkillSpec => []MatchesStay
<1>1. SkillInv => MatchesStay
  BY DEF SkillInv, RouteOK, WellSelected, MatchesStay, At, Selection
<1> QED BY <1>1, SkillInvariant, PTL

\* A skill that scored nothing is sent only when a skill that is sent requires it.
THEOREM SkillUnrelatedStayOut == SkillSpec => []UnrelatedStayOut
<1>1. SkillInv => UnrelatedStayOut
  BY DEF SkillInv, RouteOK, WellSelected, UnrelatedStayOut, At, Selection
<1> QED BY <1>1, SkillInvariant, PTL

LEMMA OrderFree == SkillInv => MembersAreOrderFree
<1> SUFFICES ASSUME SkillInv, NEW t \in Thread, NEW shown \in Documents \cup {Empty},
                    routing[t].todo \cup routing[t].found = {}, routing[t].read \subseteq {shown}
             PROVE  /\ At(t, "relate") =>
                         \A order \in SetToSeqs(Chosen(routing[t].base)) :
                           Chosen(Lifted(routing[t].base, shown, order)) = Chosen(routing[t].score)
                    /\ At(t, "close") =>
                         \A s \in AnySkill : s \in routing[t].required
                           <=> s \in RequiredClosure({shown}, Chosen(routing[t].score))
  BY DEF MembersAreOrderFree
<1>1. PICK r : r = routing[t]
  OBVIOUS
<1>2. RouteOK(r) /\ r.todo \cup r.found = {} /\ r.read \subseteq {shown} /\ shown \in Graphs
  BY <1>1 DEF SkillInv, Graphs
<1>3. ASSUME r.pc = "relate", NEW order \in SetToSeqs(Chosen(r.base))
      PROVE  Chosen(Lifted(r.base, shown, order)) = Chosen(r.score)
  <2>1. r.base \in Scores /\ IsFiniteSet(DOMAIN r.base) /\ IsFiniteSet(Chosen(r.base))
    BY <1>2, <1>3, FiniteCatalog
  <2>2. Visited(r.score, r.base, shown, Chosen(r.base))
    <3>1. Chosen(r.base) \ r.todo = Chosen(r.base)
      BY <1>2
    <3> QED BY <1>2, <1>3, <3>1 DEF RouteOK, Relating
  <2>3. Visited(Lifted(r.base, shown, order), r.base, shown, Chosen(r.base))
    BY <1>3, <2>1, LiftedVisits
  <2> QED BY <2>1, <2>2, <2>3, RelevantByPush
<1>4. ASSUME r.pc = "close", NEW s \in AnySkill
      PROVE  s \in r.required <=> s \in RequiredClosure({shown}, Chosen(r.score))
  <2>1. PICK required, chosen : required = r.required /\ chosen = Chosen(r.score)
    OBVIOUS
  <2>2. /\ chosen \subseteq required /\ required \cap AnySkill \subseteq RequiredClosure(r.read, chosen)
        /\ \A u \in required : Requires(shown, u) \subseteq required
    BY <1>2, <1>4, <2>1 DEF RouteOK, Closing
  <2>3. chosen \subseteq AnySkill
    <3>1. r.catalog \in SUBSET Skill /\ DOMAIN r.base = r.catalog /\ Kept(r.base, r.score)
      BY <1>2, <1>4, FiniteCatalog DEF RouteOK
    <3> QED BY <2>1, <3>1 DEF Kept, Chosen, AnySkill
  <2>4. ASSUME s \in required PROVE s \in RequiredClosure({shown}, chosen)
    BY <1>2, <2>2, <2>4, ClosureGrows
  <2>5. ASSUME s \in RequiredClosure({shown}, chosen) PROVE s \in required
    <3>1. PICK T : T = required \cap AnySkill
      OBVIOUS
    <3>2. T \in SUBSET AnySkill /\ chosen \subseteq T
          /\ \A u \in T, g \in {shown} : Requires(g, u) \cap AnySkill \subseteq T
      BY <2>2, <2>3, <3>1
    <3> QED BY <2>5, <3>1, <3>2 DEF RequiredClosure
  <2> QED BY <2>1, <2>4, <2>5
<1> QED BY <1>1, <1>3, <1>4 DEF At

\* As long as a loop reads one graph, the order in which it goes over the relevant
\* or the required skills does not change what it finds.
THEOREM SkillOrderFree == SkillSpec => []MembersAreOrderFree
  BY SkillInvariant, OrderFree, PTL

----------------------------------------------------------------------------
(* Both graphs. *)

LEMMA SkillTypes == SkillInv => SkillTypeOK
<1> SUFFICES ASSUME SkillInv PROVE SkillTypeOK
  OBVIOUS
<1>1. ASSUME NEW t \in Thread, At(t, "chosen")
      PROVE  Selection(t) \subseteq routing[t].catalog
  BY <1>1 DEF SkillInv, RouteOK, WellSelected, At, Selection
<1> QED BY <1>1 DEF SkillInv, SkillTypeOK, Graphs

\* The tables keep their form, and a request is sent skills of its own catalog only.
THEOREM GraphsTypes == GraphsSpec => []GraphsTypeOK
<1> DEFINE Inv == GraphInv /\ SkillInv
<1>1. GraphsInit => Inv
  BY GraphInit, SkillInitial DEF GraphsInit
<1>2. Inv /\ [GraphsNext]_<<graph, vars, skillVars>> => Inv'
  <2> SUFFICES ASSUME Inv, [GraphsNext]_<<graph, vars, skillVars>> PROVE Inv'
    OBVIOUS
  <2>1. [Next]_vars /\ [SkillNext]_skillVars
    BY DEF GraphsNext
  <2> QED BY <2>1, GraphStep, GraphStutter, SkillStep
<1>3. Inv => GraphsTypeOK
  BY GraphTypesHold, SkillTypes DEF GraphsTypeOK
<1> HIDE DEF Inv
<1> QED
  BY <1>1, <1>2, <1>3, PTL DEF GraphsSpec
============================================================================
