-------------------------- MODULE EvidenceArchive --------------------------
(* What the vault promises to everything that publishes a recovery           *)
(* reference: an identifier names at most one content, a pinned identifier   *)
(* stays readable for ever, and only unpinned ones may be given up, to make  *)
(* room for a newcomer.                                                      *)
CONSTANTS Content, Id, None

VARIABLES
  readable,   \* identifier -> the content read back for it, or None
  pinned      \* identifiers some published reference depends on

vars == <<readable, pinned>>

Init ==
  /\ readable = [i \in Id |-> None]
  /\ pinned = {}

\* c arrives under an identifier that names nothing, possibly pinned at once,
\* and unpinned identifiers may be given up for it.
Deposit(i, c) ==
  /\ readable'[i] = c
  /\ readable[i] = None
  /\ \A j \in Id \ {i} :
       \/ readable'[j] = readable[j]
       \/ j \notin pinned /\ readable'[j] = None
  /\ pinned' \in {pinned, pinned \cup {i}}
  /\ readable' \in [Id -> Content \cup {None}]

Pin(i) ==
  /\ readable[i] # None
  /\ pinned' = pinned \cup {i}
  /\ UNCHANGED readable

Next ==
  \/ \E i \in Id, c \in Content : Deposit(i, c)
  \/ \E i \in Id : Pin(i)

Spec == Init /\ [][Next]_vars
============================================================================
