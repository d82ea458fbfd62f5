------------------------ MODULE MCSemanticReduction ------------------------
(* The vault's transactions on their own, and the semantic reducers over that *)
(* vault: three artifacts, two of which share the public prefix, with room    *)
(* for two.  Which it is, "part" says; "recency" is the put alone, by two     *)
(* callers that read the clock and commit in any order.                       *)
EXTENDS SemanticReduction

CONSTANTS c1, c2, c3, hist, s1, r1, hf, bpe, w1, w2

VARIABLE part

MCPrefix == [c \in Content |-> IF c = c3 THEN "q" ELSE "p"]
MCBytes == [c \in Content |-> IF c = c1 THEN 1 ELSE IF c = c2 THEN 2 ELSE 3]
MCChars == [c \in Content |-> 2]

\* The short identifiers come first, as a prefix precedes what it begins.
MCIdOrder ==
  [i \in Id |-> IF i[1] = "a" THEN IF i[2] = "p" THEN 1 ELSE 2
                ELSE IF i[2] = c1 THEN 3 ELSE IF i[2] = c2 THEN 4 ELSE 5]

MCPlain == [t \in {hf, bpe} |-> [c \in Content |-> 3]]
MCCoded == [t \in {hf, bpe} |-> [c \in Content |-> IF t = hf THEN 2 ELSE IF c = c2 THEN 3 ELSE 1]]

\* Bounds: one observer, and times enough for any two rows to be pruned in either
\* order.
FewTimes ==
  /\ observed' \subseteq Content \X {w1}
  /\ seenAt'[c3] = 0 /\ seenAt'[c1] + seenAt'[c2] <= 1

VaultInit == part \in {"vault", "recency", "reducers"} /\ SemanticInit

VaultNext ==
  /\ UNCHANGED part
  /\ \/ part = "vault" /\ Next /\ FewTimes /\ clock' = 1 /\ UNCHANGED reducerVars
     \/ part = "recency" /\ (Put \/ Snapshot) /\ exposed' = {} /\ UNCHANGED reducerVars
     \/ part = "reducers" /\ SemanticNext /\ FewTimes

VaultSpec == VaultInit /\ [][VaultNext]_<<part, semanticVars>>
============================================================================
