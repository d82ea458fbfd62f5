------------------------ MODULE EvidenceVaultProofs ------------------------
(***************************************************************************)
(* What holds of the vault for every set of contents, callers, sessions    *)
(* and every capacity.                                                     *)
(*                                                                         *)
(* The argument rests on one fact, LEMMA SurvivesStore: an insert deletes   *)
(* only unprotected rows and never reissues an identifier in use.  Together *)
(* with the shape of identifiers (IdShape) it makes the references part of  *)
(* the invariant VaultInv inductive.  The bytes are counted with lemmas on  *)
(* sums over finite sets.  That eviction spares no row for one observed     *)
(* since rests on the pruning order (VictimsAreOldest) and on a row's time   *)
(* of observation never lying after its transaction (StampInv).             *)
(***************************************************************************)
EXTENDS EvidenceVault, FiniteSetTheorems, WellFoundedInduction, TLAPS

\* A row answers to the short or to the full identifier of its own content.
IdShape == \A c \in Held : held[c] \in {ShortId(c), FullId(c)}

Counted == IsFiniteSet(Held) /\ BytesExact /\ WithinCapacity

VaultInv ==
  /\ TypeOK
  /\ IdShape
  /\ IdsUnique
  /\ ReferencesHeld
  /\ SourcesPinned
  /\ Counted

----------------------------------------------------------------------------
(* Sums over finite sets.  SumFunctionOnSet is a recursive function, chosen *)
(* by CHOOSE: that there is one, and what it returns, is shown by looking   *)
(* at a smallest set for which it would not be so.                          *)

Sum(f, S) == SumFunctionOnSet(f, S)
Chosen(S) == CHOOSE x \in S : TRUE

\* g gives the sums of f over the subsets of S.
Sums(g, f, S) ==
  g = [s \in SUBSET S |-> IF s = {} THEN 0 ELSE f[Chosen(s)] + g[s \ {Chosen(s)}]]

LEMMA SumUnfolds ==
  ASSUME NEW f, NEW S
  PROVE  Sum(f, S) = (CHOOSE g : Sums(g, f, S))[S]
BY DEF Sum, SumFunctionOnSet, FoldFunctionOnSet, MapThenFoldSet, Sums, Chosen

LEMMA SmallestSubset ==
  ASSUME NEW S, IsFiniteSet(S), NEW X, X \subseteq SUBSET S, X # {}
  PROVE  \E x \in X : \A y \in X : y \subseteq x => y = x
<1>1. IsWellFoundedOn(StrictSubsetOrdering(S), SUBSET S)
  BY FS_StrictSubsetOrderingWellFounded, FS_FiniteSubsetsOfFinite
<1>2. PICK x \in X : \A y \in X : ~(<<y, x>> \in StrictSubsetOrdering(S))
  BY <1>1, WFMin
<1>3. ASSUME NEW y \in X, y \subseteq x, y # x
      PROVE  FALSE
  BY <1>2, <1>3 DEF StrictSubsetOrdering
<1> QED BY <1>2, <1>3

LEMMA Rest ==
  ASSUME NEW s, s # {}
  PROVE  /\ Chosen(s) \in s /\ s \ {Chosen(s)} \subseteq s /\ s \ {Chosen(s)} # s
BY DEF Chosen

LEMMA SumsAt ==
  ASSUME NEW g, NEW f, NEW S, Sums(g, f, S), NEW s \in SUBSET S
  PROVE  g[s] = IF s = {} THEN 0 ELSE f[Chosen(s)] + g[s \ {Chosen(s)}]
BY DEF Sums

LEMMA SumsUnique ==
  ASSUME NEW S, IsFiniteSet(S), NEW f, NEW g, Sums(g, f, S), NEW h, Sums(h, f, S)
  PROVE  g = h
<1> DEFINE X == {s \in SUBSET S : g[s] # h[s]}
<1>1. CASE X = {}
  <2>1. \A s \in SUBSET S : g[s] = h[s]
    BY <1>1
  <2>2. g = [s \in SUBSET S |-> g[s]] /\ h = [s \in SUBSET S |-> h[s]]
    BY DEF Sums
  <2> QED BY <2>1, <2>2
<1>2. CASE X # {}
  <2>0. X \subseteq SUBSET S
    OBVIOUS
  <2> HIDE DEF X
  <2>1. PICK s \in X : \A t \in X : t \subseteq s => t = s
    BY <1>2, <2>0, SmallestSubset
  <2> USE DEF X
  <2>2. s # {}
    BY SumsAt
  <2>3. s \ {Chosen(s)} \in SUBSET S /\ s \ {Chosen(s)} \notin X
    BY <2>1, <2>2, Rest
  <2>4. g[s \ {Chosen(s)}] = h[s \ {Chosen(s)}]
    BY <2>3
  <2> QED BY <2>2, <2>4, SumsAt
<1> QED BY <1>1, <1>2

LEMMA SumsOfSubset ==
  ASSUME NEW g, NEW f, NEW S, Sums(g, f, S), NEW T \in SUBSET S
  PROVE  Sums([s \in SUBSET T |-> g[s]], f, T)
<1> DEFINE h == [s \in SUBSET T |-> g[s]]
<1>1. ASSUME NEW s \in SUBSET T
      PROVE  h[s] = IF s = {} THEN 0 ELSE f[Chosen(s)] + h[s \ {Chosen(s)}]
  <2>1. s \in SUBSET S /\ s \ {Chosen(s)} \in SUBSET T
    OBVIOUS
  <2> QED BY <2>1, SumsAt
<1> HIDE DEF h
<1>2. h = [s \in SUBSET T |-> IF s = {} THEN 0 ELSE f[Chosen(s)] + h[s \ {Chosen(s)}]]
  <2>1. h = [s \in SUBSET T |-> h[s]]
    BY DEF h
  <2> QED BY <1>1, <2>1
<1>3. Sums(h, f, T)
  BY <1>2 DEF Sums
<1> QED BY <1>3 DEF h

LEMMA SumsExist ==
  ASSUME NEW S, IsFiniteSet(S), NEW f
  PROVE  \E g : Sums(g, f, S)
<1> DEFINE X == {T \in SUBSET S : ~ \E g : Sums(g, f, T)}
<1> SUFFICES ASSUME X # {} PROVE FALSE
  OBVIOUS
<1>0. X \subseteq SUBSET S
  OBVIOUS
<1> HIDE DEF X
<1>1. PICK T \in X : \A s \in X : s \subseteq T => s = T
  BY <1>0, SmallestSubset
<1> USE DEF X
<1> DEFINE G(s) == CHOOSE g : Sums(g, f, s)
           g == [s \in SUBSET T |-> IF s = {} THEN 0
                                    ELSE f[Chosen(s)] + G(s \ {Chosen(s)})[s \ {Chosen(s)}]]
<1>2. ASSUME NEW u \in SUBSET T, u # T
      PROVE  Sums(G(u), f, u)
  <2>1. u \in SUBSET S /\ u \notin X
    BY <1>1, <1>2
  <2> QED BY <2>1
<1>3. \A s \in SUBSET T :
        g[s] = IF s = {} THEN 0 ELSE f[Chosen(s)] + G(s \ {Chosen(s)})[s \ {Chosen(s)}]
  OBVIOUS
<1> HIDE DEF g, G
<1>4. ASSUME NEW u \in SUBSET T, u # T
      PROVE  g[u] = G(u)[u]
  <2>1. G(u)[u] = IF u = {} THEN 0 ELSE f[Chosen(u)] + G(u)[u \ {Chosen(u)}]
    BY <1>2, <1>4, SumsAt
  <2>2. CASE u = {}
    BY <1>3, <2>1, <2>2
  <2>3. CASE u # {}
    <3>1. PICK v : v = u \ {Chosen(u)}
      OBVIOUS
    <3>2. v \in SUBSET u /\ v \in SUBSET T /\ v # T /\ v \in SUBSET S
      BY <2>3, <3>1, Rest
    <3>3. Sums([s \in SUBSET v |-> G(u)[s]], f, v) /\ Sums(G(v), f, v)
      BY <1>2, <1>4, <3>2, SumsOfSubset
    <3>4. IsFiniteSet(v)
      BY <3>2, FS_Subset
    <3>5. [s \in SUBSET v |-> G(u)[s]] = G(v)
      BY <3>3, <3>4, SumsUnique
    <3>6. G(u)[v] = G(v)[v]
      <4>1. [s \in SUBSET v |-> G(u)[s]][v] = G(u)[v]
        OBVIOUS
      <4> QED BY <3>5, <4>1
    <3> QED BY <1>3, <2>1, <2>3, <3>1, <3>6
  <2> QED BY <2>2, <2>3
<1>5. ASSUME NEW s \in SUBSET T
      PROVE  g[s] = IF s = {} THEN 0 ELSE f[Chosen(s)] + g[s \ {Chosen(s)}]
  <2>1. CASE s = {}
    BY <1>3, <2>1
  <2>2. CASE s # {}
    <3>1. s \ {Chosen(s)} \in SUBSET T /\ s \ {Chosen(s)} # T
      BY <2>2, Rest
    <3>2. g[s \ {Chosen(s)}] = G(s \ {Chosen(s)})[s \ {Chosen(s)}]
      BY <1>4, <3>1
    <3> QED BY <1>3, <2>2, <3>2
  <2> QED BY <2>1, <2>2
<1>6. g = [s \in SUBSET T |-> IF s = {} THEN 0 ELSE f[Chosen(s)] + g[s \ {Chosen(s)}]]
  <2>1. g = [s \in SUBSET T |-> g[s]]
    BY DEF g
  <2> QED BY <1>5, <2>1
<1>7. Sums(g, f, T)
  BY <1>6 DEF Sums
<1> QED BY <1>1, <1>7

LEMMA SumRecurs ==
  ASSUME NEW S, IsFiniteSet(S), NEW f
  PROVE  Sum(f, S) = IF S = {} THEN 0 ELSE f[Chosen(S)] + Sum(f, S \ {Chosen(S)})
<1> DEFINE g == CHOOSE h : Sums(h, f, S)
           T == S \ {Chosen(S)}
           k == CHOOSE h : Sums(h, f, T)
<1>1. Sums(g, f, S)
  BY SumsExist
<1>2. T \in SUBSET S /\ IsFiniteSet(T)
  BY FS_Subset
<1>3. Sums(k, f, T)
  BY <1>2, SumsExist
<1>4. Sum(f, S) = g[S] /\ Sum(f, T) = k[T]
  BY SumUnfolds
<1> HIDE DEF g, k
<1>5. Sums([s \in SUBSET T |-> g[s]], f, T)
  BY <1>1, <1>2, SumsOfSubset
<1>6. [s \in SUBSET T |-> g[s]] = k
  BY <1>2, <1>3, <1>5, SumsUnique
<1>7. g[T] = k[T]
  <2>1. [s \in SUBSET T |-> g[s]][T] = g[T]
    OBVIOUS
  <2> QED BY <1>6, <2>1
<1>8. g[S] = IF S = {} THEN 0 ELSE f[Chosen(S)] + g[T]
  BY <1>1, SumsAt
<1> QED BY <1>4, <1>7, <1>8

LEMMA SumEmpty == \A f : Sum(f, {}) = 0
BY SumRecurs, FS_EmptySet

LEMMA SumIsANumber ==
  ASSUME NEW S, IsFiniteSet(S), NEW f, \A x \in S : f[x] \in Nat
  PROVE  \A T \in SUBSET S : Sum(f, T) \in Nat
<1> DEFINE X == {T \in SUBSET S : Sum(f, T) \notin Nat}
<1> SUFFICES ASSUME X # {} PROVE FALSE
  OBVIOUS
<1>0. X \subseteq SUBSET S
  OBVIOUS
<1> HIDE DEF X
<1>1. PICK T \in X : \A s \in X : s \subseteq T => s = T
  BY <1>0, SmallestSubset
<1> USE DEF X
<1>2. IsFiniteSet(T)
  BY FS_Subset
<1>3. T # {}
  BY SumEmpty
<1>4. T \ {Chosen(T)} \in SUBSET S /\ Sum(f, T \ {Chosen(T)}) \in Nat /\ Chosen(T) \in S
  BY <1>1, <1>3, Rest
<1>5. Sum(f, T) = f[Chosen(T)] + Sum(f, T \ {Chosen(T)})
  BY <1>2, <1>3, SumRecurs
<1> QED BY <1>4, <1>5

\* Any element may be taken out first.
LEMMA SumTakesOut ==
  ASSUME NEW S, IsFiniteSet(S), NEW f, \A x \in S : f[x] \in Nat
  PROVE  \A T \in SUBSET S : \A x \in T : Sum(f, T) = f[x] + Sum(f, T \ {x})
<1> DEFINE X == {T \in SUBSET S : ~ \A x \in T : Sum(f, T) = f[x] + Sum(f, T \ {x})}
<1> SUFFICES ASSUME X # {} PROVE FALSE
  OBVIOUS
<1>0. X \subseteq SUBSET S
  OBVIOUS
<1> HIDE DEF X
<1>1. PICK T \in X : \A s \in X : s \subseteq T => s = T
  BY <1>0, SmallestSubset
<1> USE DEF X
<1>2. PICK x \in T : Sum(f, T) # f[x] + Sum(f, T \ {x})
  OBVIOUS
<1>3. PICK c : c = Chosen(T)
  OBVIOUS
<1>4. IsFiniteSet(T) /\ c \in T /\ T \in SUBSET S
  BY <1>2, <1>3, FS_Subset, Rest
<1>5. Sum(f, T) = f[c] + Sum(f, T \ {c})
  BY <1>2, <1>3, <1>4, SumRecurs
<1>6. x # c
  BY <1>2, <1>5
<1>7. T \ {c} \notin X /\ T \ {x} \notin X /\ T \ {c} \in SUBSET S /\ T \ {x} \in SUBSET S
  BY <1>1, <1>2, <1>4
<1>8. Sum(f, T \ {c}) = f[x] + Sum(f, (T \ {c}) \ {x})
  BY <1>6, <1>7
<1>9. Sum(f, T \ {x}) = f[c] + Sum(f, (T \ {x}) \ {c})
  BY <1>4, <1>6, <1>7
<1>10. (T \ {c}) \ {x} = (T \ {x}) \ {c}
  OBVIOUS
<1>11. PICK R : R = (T \ {x}) \ {c}
  OBVIOUS
<1>12. R \in SUBSET S
  BY <1>4, <1>11
<1>13. Sum(f, R) \in Nat /\ f[c] \in Nat /\ f[x] \in Nat
  BY <1>4, <1>12, SumIsANumber
<1>14. PICK n \in Nat, p \in Nat, q \in Nat : n = Sum(f, R) /\ p = f[c] /\ q = f[x]
  BY <1>13
<1>15. Sum(f, T) = p + (q + n) /\ Sum(f, T \ {x}) = p + n
  BY <1>5, <1>8, <1>9, <1>10, <1>11, <1>14
<1>16. p + (q + n) = q + (p + n)
  OBVIOUS
<1> QED BY <1>2, <1>14, <1>15, <1>16

LEMMA SumAdds ==
  ASSUME NEW S, IsFiniteSet(S), NEW f, \A x \in S : f[x] \in Nat, NEW x, x \notin S, f[x] \in Nat
  PROVE  Sum(f, S \cup {x}) = Sum(f, S) + f[x]
<1>1. IsFiniteSet(S \cup {x}) /\ (S \cup {x}) \ {x} = S
  BY FS_AddElement
<1>2. Sum(f, S \cup {x}) = f[x] + Sum(f, S)
  BY <1>1, SumTakesOut
<1>3. Sum(f, S) \in Nat
  BY SumIsANumber
<1> QED BY <1>2, <1>3

LEMMA SumRemoves ==
  ASSUME NEW S, IsFiniteSet(S), NEW f, \A x \in S : f[x] \in Nat
  PROVE  \A T \in SUBSET S : Sum(f, S) = Sum(f, T) + Sum(f, S \ T)
<1> DEFINE X == {T \in SUBSET S : Sum(f, S) # Sum(f, T) + Sum(f, S \ T)}
<1> SUFFICES ASSUME X # {} PROVE FALSE
  OBVIOUS
<1>0. X \subseteq SUBSET S
  OBVIOUS
<1> HIDE DEF X
<1>1. PICK T \in X : \A s \in X : s \subseteq T => s = T
  BY <1>0, SmallestSubset
<1> USE DEF X
<1>2. Sum(f, {}) = 0
  BY SumEmpty
<1>3. T # {}
  <2>1. S \ {} = S /\ Sum(f, S) \in Nat
    BY SumIsANumber
  <2> QED BY <1>2, <2>1
<1>4. PICK c \in T : TRUE
  BY <1>3
<1>5. PICK R : R = T \ {c}
  OBVIOUS
<1>6. R \in SUBSET S /\ R \notin X
  BY <1>1, <1>4, <1>5
<1>7. Sum(f, S) = Sum(f, R) + Sum(f, S \ R)
  BY <1>6
<1>8. Sum(f, T) = f[c] + Sum(f, R)
  BY <1>5, SumTakesOut
<1>9. Sum(f, S \ R) = f[c] + Sum(f, S \ T)
  <2>1. c \in S \ R /\ (S \ R) \ {c} = S \ T /\ S \ R \in SUBSET S
    BY <1>4, <1>5
  <2> QED BY <2>1, SumTakesOut
<1>10. Sum(f, R) \in Nat /\ Sum(f, S \ T) \in Nat /\ f[c] \in Nat
  <2>1. S \ T \in SUBSET S
    OBVIOUS
  <2> QED BY <1>4, <1>6, <2>1, SumIsANumber
<1> QED BY <1>7, <1>8, <1>9, <1>10

LEMMA SumGrows ==
  ASSUME NEW S, IsFiniteSet(S), NEW f, \A x \in S : f[x] \in Nat, NEW T \in SUBSET S
  PROVE  Sum(f, T) \in Nat /\ Sum(f, S) \in Nat /\ Sum(f, T) <= Sum(f, S)
         /\ Sum(f, S \ T) = Sum(f, S) - Sum(f, T)
<1>1. Sum(f, T) \in Nat /\ Sum(f, S \ T) \in Nat /\ Sum(f, S) \in Nat
  <2>1. S \ T \in SUBSET S
    OBVIOUS
  <2> QED BY <2>1, SumIsANumber
<1>2. Sum(f, S) = Sum(f, T) + Sum(f, S \ T)
  BY SumRemoves
<1> QED BY <1>1, <1>2


----------------------------------------------------------------------------
(* Lemmas on identifiers and on an insert. *)

\* The identifier chosen for a content that has no row is nobody's.
LEMMA NewIdIsFree ==
  ASSUME TypeOK, IdShape, NEW c \in Content, held[c] = NoId
  PROVE  /\ NewId(c) \in Id
         /\ NewId(c) \in {ShortId(c), FullId(c)}
         /\ NewId(c) # NoId
         /\ \A d \in Content : held[d] # NewId(c)
<1>1. NewId(c) \in Id /\ NewId(c) \in {ShortId(c), FullId(c)}
  BY DEF NewId, Id
<1>2. NewId(c) # NoId
  BY <1>1, NoIdIsNoIdentifier
<1>3. ASSUME NEW d \in Content, held[d] = NewId(c)
      PROVE  FALSE
  <2>1. d # c /\ d \in Held
    BY <1>2, <1>3 DEF Held
  <2>2. held[d] \in {ShortId(d), FullId(d)}
    BY <2>1 DEF IdShape
  <2>3. CASE \E x \in Content \ {c} : held[x] = ShortId(c)
    BY <1>3, <2>1, <2>2, <2>3 DEF NewId, ShortId, FullId
  <2>4. CASE ~ \E x \in Content \ {c} : held[x] = ShortId(c)
    BY <1>3, <2>1, <2>4 DEF NewId
  <2> QED BY <2>3, <2>4
<1> QED BY <1>1, <1>2, <1>3

\* Pruning touches only rows that no exposure and no snapshot protects.
LEMMA VictimsUnprotected ==
  ASSUME NEW c \in Content, NEW v \in Victims(c)
  PROVE  v \in Held /\ ~Protected(held[v])
BY DEF Victims, Candidates

LEMMA InsertRows ==
  ASSUME NEW c \in Content, NEW who, NEW began, Insert(c, who, began)
  PROVE  /\ held' = [d \in Content |-> IF d = c THEN NewId(c)
                        ELSE IF d \in Victims(c) THEN NoId ELSE held[d]]
         /\ createdAt' = [d \in Content |-> IF d = c THEN began
                             ELSE IF d \in Victims(c) THEN 0 ELSE createdAt[d]]
         /\ seenAt' = [d \in Content |-> IF d = c THEN began
                          ELSE IF d \in Victims(c) THEN 0 ELSE seenAt[d]]
BY DEF Insert

\* put_artifact keeps every protected row under its identifier, and any row
\* that is there afterwards either kept its identifier or is the new one.
LEMMA SurvivesStore ==
  ASSUME TypeOK, IdShape,
         NEW c \in Content, NEW who, NEW began,
         Insert(c, who, began) \/ Reobserve(c, who, began)
  PROVE  /\ held' \in [Content -> Id \cup {NoId}]
         /\ \A d \in Held : Protected(held[d]) => held'[d] = held[d]
         /\ \A d \in Content : held'[d] # NoId =>
              \/ held[d] = held'[d]
              \/ d = c /\ held[c] = NoId /\ held'[c] = NewId(c)
         /\ held'[c] = IdAfterStore(c)
         /\ held'[c] # NoId
<1>1. CASE Insert(c, who, began)
  <2>1. held[c] = NoId /\ c \notin Victims(c)
    BY <1>1, VictimsUnprotected DEF Insert, Held
  <2>2. NewId(c) \in Id /\ NewId(c) # NoId
    BY <2>1, NewIdIsFree
  <2>3. held' = [d \in Content |-> IF d = c THEN NewId(c)
                   ELSE IF d \in Victims(c) THEN NoId ELSE held[d]]
    BY <1>1, InsertRows
  <2>4. held' \in [Content -> Id \cup {NoId}]
    BY <2>2, <2>3 DEF TypeOK
  <2>5. \A d \in Held : Protected(held[d]) => held'[d] = held[d]
    BY <2>1, <2>3, VictimsUnprotected DEF Held
  <2> QED
    BY <2>1, <2>2, <2>3, <2>4, <2>5 DEF IdAfterStore
<1>2. CASE Reobserve(c, who, began)
  BY <1>2 DEF Reobserve, TypeOK, IdAfterStore
<1> QED BY <1>1, <1>2

----------------------------------------------------------------------------
(* The bytes and the order of the rows. *)

LEMMA BytesAreCounted ==
  ASSUME NEW S \in SUBSET Content, IsFiniteSet(S), NEW T \in SUBSET S
  PROVE  /\ BytesOf(T) \in Nat /\ BytesOf(S) \in Nat
         /\ BytesOf(T) <= BytesOf(S)
         /\ BytesOf(S \ T) = BytesOf(S) - BytesOf(T)
<1>1. \A x \in S : Bytes[x] \in Nat
  BY SizesAreNaturals
<1> QED BY <1>1, SumGrows DEF BytesOf, Sum

\* What an insert deletes and adds is what the counter loses and gains.
LEMMA InsertCounts ==
  ASSUME TypeOK, IdShape, Counted,
         NEW c \in Content, NEW who, NEW began, CanStore(c), Insert(c, who, began)
  PROVE  Counted'
<1> DEFINE rest == Held \ Victims(c)
<1>1. held[c] = NoId /\ Victims(c) \subseteq Held /\ c \notin rest
  BY VictimsUnprotected DEF Insert, Held
<1>2. NewId(c) # NoId
  BY <1>1, NewIdIsFree
<1>3. Held' = rest \cup {c}
  BY <1>1, <1>2, InsertRows DEF Held
<1>4. IsFiniteSet(rest) /\ rest \in SUBSET Content /\ Held \in SUBSET Content
  BY FS_Subset DEF Counted, Held
<1>5. BytesOf(rest) = BytesOf(Held) - BytesOf(Victims(c)) /\ BytesOf(rest) \in Nat
  <2>1. IsFiniteSet(Held) /\ Victims(c) \in SUBSET Held /\ rest \in SUBSET Held
    BY <1>1 DEF Counted
  <2>2. BytesOf(rest) = BytesOf(Held) - BytesOf(Victims(c))
    BY <1>4, <2>1, BytesAreCounted
  <2>3. BytesOf(rest) \in Nat
    BY <1>4, <2>1, BytesAreCounted
  <2> QED BY <2>2, <2>3
<1>6. total = BytesOf(Held)
  BY DEF Counted, BytesExact
<1>7. BytesAfterPrune(c) = BytesOf(rest)
  BY <1>5, <1>6 DEF BytesAfterPrune
<1>8. total' = BytesOf(rest) + Bytes[c]
  BY <1>7 DEF Insert
<1>9. BytesOf(rest) + Bytes[c] <= MaxVaultBytes
  BY <1>1, <1>7 DEF CanStore
<1> HIDE DEF rest
<1>10. Bytes[c] \in Nat /\ \A x \in rest : Bytes[x] \in Nat
  BY <1>4, SizesAreNaturals
<1>11. BytesOf(rest \cup {c}) = BytesOf(rest) + Bytes[c]
  BY <1>1, <1>4, <1>10, SumAdds DEF BytesOf, Sum
<1>12. IsFiniteSet(rest \cup {c})
  BY <1>4, FS_AddElement
<1>13. IsFiniteSet(Held')
  BY <1>3, <1>12
<1>14. BytesOf(Held)' = BytesOf(rest \cup {c})
  BY <1>3 DEF BytesOf
<1>15. BytesExact' /\ WithinCapacity'
  BY <1>8, <1>9, <1>11, <1>14 DEF BytesExact, WithinCapacity
<1> QED BY <1>13, <1>15 DEF Counted

LEMMA BeforeIsTransitive ==
  ASSUME TypeOK, NEW d \in Held, NEW k \in Held, NEW v \in Held, Before(d, k), Before(k, v)
  PROVE  Before(d, v)
<1>1. \A x \in Held : /\ seenAt[x] \in Int /\ createdAt[x] \in Int
                      /\ IdOrder[held[x]] \in Int
  BY IdsAreOrdered, TimeIsBounded DEF TypeOK, Held, Time
<1> QED BY <1>1 DEF Before

\* No unprotected row that pruning spares comes before one that it takes.
LEMMA VictimsAreOldest ==
  ASSUME TypeOK, Counted, NEW c \in Content,
         NEW v \in Victims(c), NEW k \in Candidates, k \notin Victims(c)
  PROVE  ~Before(k, v)
<1> DEFINE Earlier(x) == {d \in Candidates : Before(d, x)}
<1>1. /\ Victims(c) # {}
      /\ Victims(c) = {x \in Candidates : total - BytesOf(Earlier(x)) > AtLeast(0, LowWater - Bytes[c])}
  BY DEF Victims
<1>2. v \in Candidates /\ v \in Held /\ k \in Held /\ Candidates \subseteq Held
  BY <1>1 DEF Candidates
<1> SUFFICES ASSUME Before(k, v) PROVE FALSE
  OBVIOUS
<1>3. Earlier(k) \subseteq Earlier(v)
  BY <1>2, BeforeIsTransitive
<1>4. Earlier(v) \in SUBSET Content /\ IsFiniteSet(Earlier(v))
  <2>1. Earlier(v) \subseteq Held /\ Held \subseteq Content
    BY DEF Candidates, Held
  <2> QED BY <2>1, FS_Subset DEF Counted
<1>5. total \in Nat
  <2>1. Held \in SUBSET Content /\ IsFiniteSet(Held) /\ Held \in SUBSET Held
    BY DEF Held, Counted
  <2> QED BY <2>1, BytesAreCounted DEF Counted, BytesExact
<1>6. PICK target : target = AtLeast(0, LowWater - Bytes[c])
  OBVIOUS
<1>7. target \in Nat
  <2>1. LowWater \in Int /\ Bytes[c] \in Nat
    BY SizesAreNaturals, WaterMarksOrdered DEF LowWater
  <2> QED BY <1>6, <2>1 DEF AtLeast
<1>8. total - BytesOf(Earlier(v)) > target /\ ~(total - BytesOf(Earlier(k)) > target)
  BY <1>1, <1>2, <1>6
<1> HIDE DEF Earlier
<1>9. BytesOf(Earlier(k)) <= BytesOf(Earlier(v)) /\ BytesOf(Earlier(k)) \in Nat
      /\ BytesOf(Earlier(v)) \in Nat
  BY <1>3, <1>4, BytesAreCounted
<1> QED BY <1>5, <1>7, <1>8, <1>9

----------------------------------------------------------------------------
(* Preservation of VaultInv by put_artifact, the only action that changes   *)
(* the artifacts table.                                                     *)

LEMMA PutPreserves ==
  ASSUME VaultInv,
         NEW c \in Content, NEW who \in Caller,
         NEW pins \in SUBSET (Session \X Request), NEW began \in Time,
         PutAt(c, who, pins, began),
         clock' \in Time, storedAt' \in [Content -> Time],
         \A s \in captured' \ captured :
           \E p \in pins : p[2] = HistoryPin /\ s = <<p[1], IdAfterStore(c)>>
  PROVE  VaultInv'
<1> USE DEF VaultInv
<1>1. Insert(c, who, began) \/ Reobserve(c, who, began)
  BY DEF PutAt
<1>2. /\ held' \in [Content -> Id \cup {NoId}]
      /\ \A d \in Held : Protected(held[d]) => held'[d] = held[d]
      /\ \A d \in Content : held'[d] # NoId =>
           \/ held[d] = held'[d]
           \/ d = c /\ held[c] = NoId /\ held'[c] = NewId(c)
      /\ held'[c] = IdAfterStore(c)
      /\ held'[c] # NoId
  BY <1>1, SurvivesStore
<1>3. IdAfterStore(c) \in Id
  BY <1>2 DEF IdAfterStore
<1>4. /\ exposed' = exposed \cup {<<p[1], IdAfterStore(c), p[2]>> : p \in pins}
      /\ UNCHANGED <<inlined, snapshots, catalog>>
  BY DEF PutAt
<1>5. TypeOK'
  <2>1. createdAt' \in [Content -> Time] /\ seenAt' \in [Content -> Time]
    <3>1. 0 \in Time /\ \A n, m \in Time : AtLeast(n, m) \in Time
      BY TimeIsBounded DEF Time, AtLeast
    <3>2. createdAt \in [Content -> Time] /\ seenAt \in [Content -> Time]
      BY DEF TypeOK
    <3>3. CASE Insert(c, who, began)
      BY <3>1, <3>2, <3>3, InsertRows
    <3>4. CASE Reobserve(c, who, began)
      BY <3>1, <3>2, <3>4 DEF Reobserve
    <3> QED BY <1>1, <3>3, <3>4
  <2>2. observed' \subseteq Content \X Caller
    BY <1>1 DEF Insert, Reobserve, TypeOK
  <2>3. exposed' \subseteq Session \X Id \X Request
    BY <1>3, <1>4 DEF TypeOK
  <2>4. captured' \subseteq Session \X Id
    BY <1>3 DEF TypeOK
  <2> QED
    BY <1>2, <1>4, <2>1, <2>2, <2>3, <2>4 DEF TypeOK
<1>6. IdShape'
  BY <1>2, NewIdIsFree DEF IdShape, Held, ShortId, FullId
<1>7. IdsUnique'
  <2> SUFFICES ASSUME NEW x \in Content, NEW y \in Content,
                      held'[x] # NoId, held'[x] = held'[y], x # y
               PROVE  FALSE
    BY DEF IdsUnique, Held
  <2>1. CASE held[x] = held'[x] /\ held[y] = held'[y]
    BY <2>1 DEF IdsUnique, Held
  <2>2. CASE held[x] # held'[x] \/ held[y] # held'[y]
    BY <1>2, <2>2, NewIdIsFree
  <2> QED BY <2>1, <2>2
<1>8. ASSUME NEW i \in Ids, Protected(i)
      PROVE  i \in Ids'
  BY <1>2, <1>8 DEF Ids, Held
<1>9. ReferencesHeld'
  <2>1. ASSUME NEW e \in exposed'
        PROVE  e[2] \in Ids'
    <3>1. CASE e \in exposed
      <4>1. e[1] \in Session /\ e[3] \in Request /\ e = <<e[1], e[2], e[3]>>
        BY <3>1 DEF TypeOK
      <4>2. Protected(e[2])
        BY <3>1, <4>1 DEF Protected
      <4>3. e[2] \in Ids
        BY <3>1 DEF ReferencesHeld, Holds
      <4> QED BY <1>8, <4>2, <4>3
    <3>2. CASE e \notin exposed
      <4>1. e[2] = IdAfterStore(c)
        BY <1>4, <2>1, <3>2
      <4> QED BY <1>2, <4>1 DEF Ids, Held
    <3> QED BY <3>1, <3>2
  <2>2. ASSUME NEW k \in StateKey, snapshots[k] # NoId
        PROVE  snapshots[k] \in Ids'
    <3>1. Protected(snapshots[k]) /\ snapshots[k] \in Ids
      BY <2>2 DEF Protected, ReferencesHeld, Holds
    <3> QED BY <1>8, <3>1
  <2>3. ASSUME NEW s \in catalog
        PROVE  s[2] \in Ids'
    <3>1. <<s[1], s[2], HistoryPin>> \in exposed'
      BY <1>4, <2>3 DEF SourcesPinned
    <3>2. <<s[1], s[2], HistoryPin>>[2] = s[2]
      OBVIOUS
    <3> QED BY <2>1, <3>1, <3>2
  <2> QED
    BY <1>4, <2>1, <2>2, <2>3 DEF ReferencesHeld, Holds
<1>10. SourcesPinned'
  BY <1>4 DEF SourcesPinned
<1>11. Counted'
  <2>1. CASE Insert(c, who, began)
    BY <2>1, InsertCounts DEF PutAt
  <2>2. CASE Reobserve(c, who, began)
    <3>1. Held' = Held /\ total' = total
      BY <2>2 DEF Reobserve, Held
    <3> QED BY <3>1 DEF Counted, BytesExact, WithinCapacity, BytesOf
  <2> QED BY <1>1, <2>1, <2>2
<1> QED BY <1>5, <1>6, <1>7, <1>9, <1>10, <1>11

\* The put of the components that ask nothing of time.
LEMMA StorePreserves ==
  ASSUME VaultInv,
         NEW c \in Content, NEW who \in Caller,
         NEW pins \in SUBSET (Session \X Request),
         PutArtifact(c, who, pins),
         \A s \in captured' \ captured :
           \E p \in pins : p[2] = HistoryPin /\ s = <<p[1], IdAfterStore(c)>>
  PROVE  VaultInv'
<1>1. clock' \in Time /\ storedAt' \in [Content -> Time]
  BY DEF PutArtifact, history, VaultInv, TypeOK
<1>2. PICK began \in Time : PutAt(c, who, pins, began)
  BY DEF PutArtifact
<1> QED BY <1>1, <1>2, PutPreserves

\* The put of the vault itself.
LEMMA StoredIsTyped ==
  ASSUME VaultInv, NEW c, NEW who, NEW began, Stored(c, who, began)
  PROVE  clock' \in Time /\ storedAt' \in [Content -> Time]
<1>1. clock' \in Time /\ 0 \in Time /\ storedAt \in [Content -> Time]
  BY TimeIsBounded DEF Stored, VaultInv, TypeOK, Time
<1> QED BY <1>1 DEF Stored

----------------------------------------------------------------------------
(* The invariant. *)

LEMMA InitVault == Init => VaultInv
<1> SUFFICES ASSUME Init PROVE VaultInv
  OBVIOUS
<1>1. TypeOK
  BY TimeIsBounded DEF Init, TypeOK, Time
<1>2. Held = {} /\ Ids = {}
  BY DEF Init, Held, Ids
<1>3. IdShape /\ IdsUnique /\ ReferencesHeld /\ SourcesPinned
  BY <1>2 DEF Init, IdShape, IdsUnique, ReferencesHeld, SourcesPinned
<1>5. Counted
  <2>1. IsFiniteSet({}) /\ BytesOf({}) = 0
    BY FS_EmptySet, SumEmpty DEF BytesOf, Sum
  <2>2. IsFiniteSet(Held) /\ BytesOf(Held) = 0
    BY <1>2, <2>1
  <2> QED BY <2>2, SizesAreNaturals DEF Init, Counted, BytesExact, WithinCapacity
<1> QED BY <1>1, <1>3, <1>5 DEF VaultInv

\* The actions that leave the artifacts table alone.
LEMMA ReferencePreserves ==
  ASSUME VaultInv, Expose \/ Claim \/ Snapshot \/ Catalogue
  PROVE  VaultInv'
<1> USE DEF VaultInv
<1>1. UNCHANGED <<held, createdAt, seenAt, observed, total, clock, storedAt>>
  BY DEF Expose, Claim, Snapshot, Catalogue, ClaimInline, RecordExposure, Remember,
         IndexSource, LoseCapture, artifacts, history
<1>2. IdShape' /\ IdsUnique' /\ Ids' = Ids /\ Held' = Held
  BY <1>1 DEF IdShape, IdsUnique, Ids, Held
<1>9. Counted'
  BY <1>1, <1>2 DEF Counted, BytesExact, WithinCapacity, BytesOf
<1>3. Ids \subseteq Id
  BY DEF Ids, Held, TypeOK
<1>4. ASSUME NEW s \in Session, NEW i \in Ids, NEW r \in Request, NEW b \in BOOLEAN,
             RecordExposure(s, i, r, b), UNCHANGED captured
      PROVE  TypeOK' /\ ReferencesHeld' /\ SourcesPinned'
  <2>1. /\ exposed' = exposed \cup {<<s, i, r>>}
        /\ inlined' \in {inlined, inlined \cup {<<s, i, r>>}}
        /\ UNCHANGED <<snapshots, catalog, captured>>
    BY <1>4 DEF RecordExposure
  <2>2. TypeOK'
    BY <1>1, <1>3, <2>1 DEF TypeOK
  <2>3. ReferencesHeld' /\ SourcesPinned'
    BY <1>2, <2>1 DEF ReferencesHeld, SourcesPinned, Holds
  <2> QED BY <2>2, <2>3
<1>5. CASE Expose
  BY <1>2, <1>4, <1>5, <1>9 DEF Expose
<1>6. CASE Claim
  BY <1>2, <1>4, <1>6, <1>9 DEF Claim, ClaimInline
<1>7. CASE Snapshot
  <2>1. PICK k \in StateKey, i \in Ids : Remember(k, i) /\ UNCHANGED captured
    BY <1>7 DEF Snapshot
  <2>2. TypeOK'
    BY <1>1, <1>3, <2>1 DEF Remember, TypeOK
  <2>3. ReferencesHeld' /\ SourcesPinned'
    BY <1>2, <2>1 DEF Remember, ReferencesHeld, SourcesPinned, Holds, TypeOK
  <2> QED BY <1>2, <1>9, <2>2, <2>3
<1>8. CASE Catalogue
  <2>1. PICK s \in Session, i \in Id : IndexSource(s, i) \/ LoseCapture(s, i)
    BY <1>8 DEF Catalogue
  <2>2. TypeOK'
    BY <1>1, <2>1 DEF IndexSource, LoseCapture, TypeOK
  <2>3. ReferencesHeld' /\ SourcesPinned'
    BY <1>2, <2>1 DEF IndexSource, LoseCapture, ReferencesHeld, SourcesPinned, Holds
  <2> QED BY <1>2, <1>9, <2>2, <2>3
<1> QED BY <1>5, <1>6, <1>7, <1>8

LEMMA NextVault == VaultInv /\ [Next]_vaultVars => VaultInv'
<1> SUFFICES ASSUME VaultInv, [Next]_vaultVars PROVE VaultInv'
  OBVIOUS
<1>1. CASE Put
  <2>1. PICK c \in Content, who \in Caller, began \in Time,
             pins \in {{}} \cup {{<<s, r>>} : s \in Session, r \in Request} :
               PutAt(c, who, pins, began) /\ Stored(c, who, began) /\ UNCHANGED captured
    BY <1>1 DEF Put
  <2>2. pins \in SUBSET (Session \X Request)
    BY <2>1
  <2>3. \A s \in captured' \ captured :
           \E p \in pins : p[2] = HistoryPin /\ s = <<p[1], IdAfterStore(c)>>
    BY <2>1
  <2> QED BY <2>1, <2>2, <2>3, StoredIsTyped, PutPreserves
<1>2. CASE Capture
  <2>1. PICK s \in Session, c \in Content, who \in Caller, began \in Time :
          CaptureSource(s, c, who, began)
    BY <1>2 DEF Capture
  <2> DEFINE pins == {<<s, HistoryPin>>}
  <2>2. pins \in SUBSET (Session \X Request)
    BY HistoryPinIsARequest
  <2>3. PutAt(c, who, pins, began) /\ Stored(c, who, began) /\ captured' = captured \cup {<<s, IdAfterStore(c)>>}
    BY <2>1 DEF CaptureSource
  <2>4. \A t \in captured' \ captured :
           \E p \in pins : p[2] = HistoryPin /\ t = <<p[1], IdAfterStore(c)>>
    BY <2>3
  <2> HIDE DEF pins
  <2> QED BY <2>2, <2>3, <2>4, StoredIsTyped, PutPreserves
<1>3. CASE Expose \/ Claim \/ Snapshot \/ Catalogue
  BY <1>3, ReferencePreserves
<1>4. CASE UNCHANGED vaultVars
  <2>1. Held' = Held /\ Ids' = Ids /\ total' = total
    BY <1>4 DEF vaultVars, Held, Ids
  <2>2. TypeOK' /\ IdShape' /\ IdsUnique' /\ ReferencesHeld' /\ SourcesPinned'
    BY <1>4, <2>1 DEF vaultVars, VaultInv, TypeOK, IdShape, IdsUnique, ReferencesHeld,
                      SourcesPinned, Holds
  <2>3. Counted'
    BY <2>1 DEF VaultInv, Counted, BytesExact, WithinCapacity, BytesOf
  <2> QED BY <2>2, <2>3 DEF VaultInv
<1> QED BY <1>1, <1>2, <1>3, <1>4 DEF Next

\* Every reachable vault satisfies the invariant.
THEOREM VaultInvariant == Spec => []VaultInv
<1>1. Init => VaultInv
  BY InitVault
<1>2. VaultInv /\ [Next]_vaultVars => VaultInv'
  BY NextVault
<1> QED BY <1>1, <1>2, PTL DEF Spec

\* The tables keep the shape of the schema.
THEOREM VaultTypes == Spec => []TypeOK
<1>1. VaultInv => TypeOK
  BY DEF VaultInv
<1> QED BY <1>1, VaultInvariant, PTL

\* No exposure, terminal snapshot or catalogued source is left dangling by a
\* pruning, for any capacity, any water marks and any mixture of writers.
THEOREM VaultReferencesHeld == Spec => []ReferencesHeld
<1>1. VaultInv => ReferencesHeld
  BY DEF VaultInv
<1> QED BY <1>1, VaultInvariant, PTL

\* Two contents never answer to one identifier, whichever prefixes collide.
THEOREM VaultIdsUnique == Spec => []IdsUnique
<1>1. VaultInv => IdsUnique
  BY DEF VaultInv
<1> QED BY <1>1, VaultInvariant, PTL

\* A stored history source is pinned before and after it is catalogued.
THEOREM VaultSourcesPinned == Spec => []SourcesPinned
<1>1. VaultInv => SourcesPinned
  BY DEF VaultInv
<1> QED BY <1>1, VaultInvariant, PTL

\* No pruning ever reaches a catalogued artifact, so the RESTRICT clause of the
\* catalog never fails an insert.
THEOREM VaultPruneNeverRestricted == Spec => []PruneNeverRestricted
<1>1. VaultInv => PruneNeverRestricted
  <2> SUFFICES ASSUME VaultInv, NEW c \in Content, NEW v \in Victims(c), NEW s \in Session,
                      <<s, held[v]>> \in catalog
               PROVE  FALSE
    BY DEF PruneNeverRestricted, Restricted
  <2>1. <<s, held[v], HistoryPin>> \in exposed
    BY DEF VaultInv, SourcesPinned
  <2>2. Protected(held[v])
    BY <2>1, HistoryPinIsARequest DEF Protected
  <2> QED BY <2>2, VictimsUnprotected
<1> QED BY <1>1, VaultInvariant, PTL

----------------------------------------------------------------------------
(* What a step may do to the artifacts table. *)

LEMMA PutOrCapture ==
  ASSUME Put \/ Capture
  PROVE  \E c \in Content, who \in Caller, began \in Time : \E pins :
           PutAt(c, who, pins, began) /\ Stored(c, who, began)
<1>1. CASE Put
  BY <1>1 DEF Put
<1>2. CASE Capture
  BY <1>2 DEF Capture, CaptureSource
<1> QED BY <1>1, <1>2

\* A step keeps the identifier of every protected row, and an identifier in use
\* never passes to another content.
LEMMA StepKeepsIds ==
  ASSUME VaultInv, [Next]_vaultVars
  PROVE  /\ \A d \in Held : Protected(held[d]) => held'[d] = held[d]
         /\ \A x, y \in Content : held[x] # NoId /\ held'[y] = held[x] => x = y
         /\ exposed \subseteq exposed'
<1>1. CASE Put \/ Capture
  <2>1. PICK c \in Content, who \in Caller, began \in Time : \E pins :
          PutAt(c, who, pins, began) /\ Stored(c, who, began)
    BY <1>1, PutOrCapture
  <2>2. Insert(c, who, began) \/ Reobserve(c, who, began)
    BY <2>1 DEF PutAt
  <2>3. /\ \A d \in Held : Protected(held[d]) => held'[d] = held[d]
        /\ \A d \in Content : held'[d] # NoId =>
             \/ held[d] = held'[d]
             \/ d = c /\ held[c] = NoId /\ held'[c] = NewId(c)
    BY <2>2, SurvivesStore DEF VaultInv
  <2>4. \A x, y \in Content : held[x] # NoId /\ held'[y] = held[x] => x = y
    BY <2>3, NewIdIsFree DEF VaultInv, IdsUnique, Held
  <2>5. exposed \subseteq exposed'
    BY <2>1 DEF PutAt
  <2> QED BY <2>3, <2>4, <2>5
<1>2. CASE Expose \/ Claim \/ Snapshot \/ Catalogue \/ UNCHANGED vaultVars
  <2>1. held' = held /\ exposed \subseteq exposed'
    BY <1>2 DEF Expose, Claim, Snapshot, Catalogue, ClaimInline, RecordExposure, Remember,
                IndexSource, LoseCapture, vaultVars, artifacts
  <2> QED BY <2>1 DEF VaultInv, IdsUnique, Held
<1> QED BY <1>1, <1>2 DEF Next

\* A published identifier reads back the same content for ever.
THEOREM VaultExposedForever == Spec => ExposedForever
<1>1. VaultInv /\ [Next]_vaultVars =>
        [\A e \in exposed :
           /\ e \in exposed'
           /\ \A c \in Content : held[c] = e[2] => held'[c] = e[2]]_vaultVars
  <2> SUFFICES ASSUME VaultInv, [Next]_vaultVars, NEW e \in exposed
               PROVE  /\ e \in exposed'
                      /\ \A c \in Content : held[c] = e[2] => held'[c] = e[2]
    OBVIOUS
  <2>1. e[1] \in Session /\ e[2] \in Id /\ e[3] \in Request /\ e = <<e[1], e[2], e[3]>>
    BY DEF VaultInv, TypeOK
  <2>2. Protected(e[2]) /\ e[2] # NoId
    BY <2>1, NoIdIsNoIdentifier DEF Protected
  <2> QED BY <2>2, StepKeepsIds DEF Held
<1> QED BY <1>1, VaultInvariant, PTL DEF Spec, ExposedForever

\* An identifier is never reissued while it is in use.
THEOREM VaultNeverSubstituted == Spec => NeverSubstituted
<1>1. VaultInv /\ [Next]_vaultVars =>
        [\A c, d \in Content : held[c] # NoId /\ held'[d] = held[c] => c = d]_vaultVars
  BY StepKeepsIds
<1> QED BY <1>1, VaultInvariant, PTL DEF Spec, NeverSubstituted

\* The rows never take more bytes than the configured capacity, whatever the
\* water marks and whoever prunes (storage.py:549-552), and the byte counter of
\* vault_meta is exact after any history of the vault.
THEOREM VaultCapacityKept == Spec => []CapacityKept
<1>1. VaultInv => CapacityKept
  BY DEF VaultInv, Counted, CapacityKept
<1> QED BY <1>1, VaultInvariant, PTL

\* A row was not observed after the transaction that stored its last observation.
StampInv ==
  /\ clock \in Int
  /\ \A c \in Held : /\ seenAt[c] \in Int /\ storedAt[c] \in Int
                      /\ seenAt[c] <= storedAt[c] /\ storedAt[c] <= clock

LEMMA StampsKept == VaultInv /\ StampInv /\ [Next]_vaultVars => StampInv'
<1> SUFFICES ASSUME VaultInv, StampInv, [Next]_vaultVars PROVE StampInv'
  OBVIOUS
<1>1. CASE Put \/ Capture
  <2>1. PICK c \in Content, who \in Caller, began \in Time : \E pins :
          PutAt(c, who, pins, began) /\ Stored(c, who, began)
    BY <1>1, PutOrCapture
  <2>2. /\ began \in Int /\ clock' \in Int /\ clock \in Int
        /\ began <= clock' /\ clock <= clock'
    BY <2>1, TimeIsBounded DEF Stored, Time, StampInv
  <2>3. storedAt' = [d \in Content |->
                       IF d = c /\ (held[c] = NoId \/ <<c, who>> \notin observed) THEN clock'
                       ELSE IF held'[d] = NoId THEN 0 ELSE storedAt[d]]
    BY <2>1 DEF Stored
  <2>4. CASE Insert(c, who, began)
    <3>1. held[c] = NoId
      BY <2>4 DEF Insert
    <3>2. \A d \in Held' : d \in Content /\ held'[d] # NoId
      BY DEF Held
    <3>3. \A d \in Held' \ {c} : d \in Held /\ seenAt'[d] = seenAt[d] /\ storedAt'[d] = storedAt[d]
      BY <2>3, <2>4, <3>2, InsertRows DEF Held
    <3>4. seenAt'[c] = began /\ storedAt'[c] = clock'
      BY <2>3, <2>4, <3>1, InsertRows
    <3> QED BY <2>2, <3>3, <3>4 DEF StampInv
  <2>5. CASE Reobserve(c, who, began)
    <3>1. held' = held /\ Held' = Held /\ c \in Held
      BY <2>5 DEF Reobserve, Held
    <3>2. \A d \in Held : d \in Content /\ held'[d] # NoId
      BY <3>1 DEF Held
    <3>3. seenAt \in [Content -> Time]
      BY DEF VaultInv, TypeOK
    <3>4. CASE <<c, who>> \in observed
      <4>1. seenAt' = seenAt
        BY <2>5, <3>4 DEF Reobserve
      <4>2. \A d \in Held : storedAt'[d] = storedAt[d]
        BY <2>3, <2>5, <3>2, <3>4 DEF Reobserve
      <4> QED BY <2>2, <3>1, <4>1, <4>2 DEF StampInv
    <3>5. CASE <<c, who>> \notin observed
      <4>1. seenAt' = [seenAt EXCEPT ![c] = AtLeast(@, began)]
        BY <2>5, <3>5 DEF Reobserve
      <4>2. seenAt'[c] = AtLeast(seenAt[c], began) /\ storedAt'[c] = clock'
        BY <2>3, <3>3, <3>5, <4>1
      <4>3. \A d \in Held \ {c} : seenAt'[d] = seenAt[d] /\ storedAt'[d] = storedAt[d]
        BY <2>3, <3>2, <3>3, <4>1
      <4>4. seenAt[c] \in Int /\ seenAt[c] <= clock'
        <5>1. seenAt[c] \in Int /\ storedAt[c] \in Int /\ seenAt[c] <= storedAt[c]
          BY <3>1 DEF StampInv
        <5>2. storedAt[c] <= clock
          BY <3>1 DEF StampInv
        <5>3. storedAt[c] <= clock'
          BY <2>2, <5>1, <5>2
        <5> QED BY <2>2, <5>1, <5>3
      <4> QED BY <2>2, <3>1, <4>2, <4>3, <4>4 DEF StampInv, AtLeast
    <3> QED BY <3>4, <3>5
  <2> QED BY <2>1, <2>4, <2>5 DEF PutAt
<1>2. CASE Expose \/ Claim \/ Snapshot \/ Catalogue \/ UNCHANGED vaultVars
  <2>1. UNCHANGED <<held, seenAt, storedAt, clock>>
    BY <1>2 DEF Expose, Claim, Snapshot, Catalogue, ClaimInline, RecordExposure, Remember,
                IndexSource, LoseCapture, vaultVars, artifacts, history
  <2> QED BY <2>1 DEF StampInv, Held
<1> QED BY <1>1, <1>2 DEF Next

\* What a step evicts was last seen no later than what it spares was stored.
LEMMA StepEvictsOldest ==
  ASSUME VaultInv, StampInv, [Next]_vaultVars, NEW v \in Held, NEW k \in Candidates,
         held'[v] = NoId, held'[k] # NoId
  PROVE  ~SeenSince(v, k)
<1>1. ASSUME NEW c \in Content, NEW who, NEW began, Insert(c, who, began)
      PROVE  ~SeenSince(v, k)
  <2>1. held[c] = NoId
    BY <1>1 DEF Insert
  <2>2. v \in Content /\ v # c /\ held[v] # NoId /\ k \in Content /\ k # c /\ k \in Held
    BY <2>1 DEF Held, Candidates
  <2>3. v \in Victims(c) /\ k \notin Victims(c)
    BY <1>1, <2>2, InsertRows
  <2>4. ~Before(k, v)
    BY <2>3, VictimsAreOldest DEF VaultInv
  <2>5. seenAt[v] \in Int /\ seenAt[k] \in Int /\ storedAt[k] \in Int /\ seenAt[k] <= storedAt[k]
    BY <2>2 DEF StampInv
  <2> QED BY <2>4, <2>5 DEF Before, SeenSince
<1>2. ASSUME NEW c \in Content, NEW who, NEW pins, NEW began, PutAt(c, who, pins, began)
      PROVE  ~SeenSince(v, k)
  BY <1>1, <1>2 DEF PutAt, Reobserve, Held
<1>3. CASE Put \/ Capture
  BY <1>2, <1>3, PutOrCapture
<1>4. CASE Expose \/ Claim \/ Snapshot \/ Catalogue \/ UNCHANGED vaultVars
  BY <1>4 DEF Expose, Claim, Snapshot, Catalogue, ClaimInline, RecordExposure, Remember,
              IndexSource, LoseCapture, vaultVars, artifacts, Held
<1> QED BY <1>3, <1>4 DEF Next

\* Retention never prefers a row observed since to one that was not, in whatever
\* order the writers commit, for any sizes of the artifacts and any water marks.
THEOREM VaultEvictsOldestFirst == Spec => EvictOldestFirst
<1>1. Init => StampInv
  BY DEF Init, StampInv, Held
<1>2. VaultInv /\ StampInv /\ [Next]_vaultVars =>
        [\A v \in Held, k \in Candidates :
           held'[v] = NoId /\ held'[k] # NoId => ~SeenSince(v, k)]_vaultVars
  BY StepEvictsOldest
<1> QED BY <1>1, <1>2, StampsKept, VaultInvariant, PTL DEF Spec, EvictOldestFirst

----------------------------------------------------------------------------
(* Refinement: the vault implements EvidenceArchive.                        *)

\* The content read back for a row's identifier is that row's content.
LEMMA ContentReadBack ==
  ASSUME IdsUnique, NEW c \in Held
  PROVE  ContentOf(held[c]) = c
<1>1. \A d \in Content : held[d] = held[c] => d = c
  BY DEF IdsUnique, Held
<1>2. c \in Content /\ held[c] = held[c]
  BY DEF Held
<1> QED BY <1>1, <1>2 DEF ContentOf

\* What Readable says of an identifier that answers, and of one that does not.
ReadsBack ==
  /\ \A c \in Held : held[c] \in Id /\ Readable[held[c]] = c
  /\ \A i \in Id \ Ids : Readable[i] = NoId
  /\ Readable \in [Id -> Content \cup {NoId}]

LEMMA ReadableValue == VaultInv => ReadsBack
<1> SUFFICES ASSUME IdsUnique, TypeOK PROVE ReadsBack
  BY DEF VaultInv
<1>1. ASSUME NEW c \in Held
      PROVE  held[c] \in Id /\ Readable[held[c]] = c
  <2>1. held[c] \in Id /\ Holds(held[c])
    BY DEF Held, TypeOK, Holds, Ids
  <2> QED BY <2>1, ContentReadBack DEF Readable
<1>2. ASSUME NEW i \in Id \ Ids
      PROVE  Readable[i] = NoId
  BY DEF Readable, Holds
<1>3. ASSUME NEW i \in Id
      PROVE  (IF Holds(i) THEN ContentOf(i) ELSE NoId) \in Content \cup {NoId}
  <2>1. CASE Holds(i)
    <3>1. PICK c \in Held : i = held[c]
      BY <2>1 DEF Holds, Ids
    <3> QED BY <2>1, <3>1, ContentReadBack DEF Held
  <2> QED BY <2>1
<1>4. Readable \in [Id -> Content \cup {NoId}]
  BY <1>3 DEF Readable
<1> QED BY <1>1, <1>2, <1>4 DEF ReadsBack

LEMMA ReadableValueNext == VaultInv' => ReadsBack'
BY ReadableValue, PTL

\* A put is a deposit, or at most a pin when the content was already there.
LEMMA StoreRefines ==
  ASSUME VaultInv, VaultInv',
         NEW c \in Content, NEW who, NEW pins, NEW began, PutAt(c, who, pins, began)
  PROVE  [Archive!Next]_<<Readable, Pinned>>
<1> DEFINE i == IdAfterStore(c)
<1>1. Insert(c, who, began) \/ Reobserve(c, who, began)
  BY DEF PutAt
<1>2. /\ \A d \in Held : Protected(held[d]) => held'[d] = held[d]
      /\ \A d \in Content : held'[d] # NoId =>
           \/ held[d] = held'[d]
           \/ d = c /\ held[c] = NoId /\ held'[c] = NewId(c)
      /\ held'[c] = i
      /\ held'[c] # NoId
  BY <1>1, SurvivesStore DEF VaultInv
<1>3. i \in Id /\ c \in Held'
  BY <1>2 DEF VaultInv, TypeOK, Held
<1>4. Pinned' \in {Pinned, Pinned \cup {i}}
  <2>1. exposed' = exposed \cup {<<p[1], i, p[2]>> : p \in pins}
    BY DEF PutAt
  <2> HIDE DEF i
  <2>2. CASE pins = {}
    BY <2>1, <2>2 DEF Pinned
  <2>3. CASE pins # {}
    BY <2>1, <2>3 DEF Pinned
  <2> QED BY <2>2, <2>3
<1>5. /\ \A d \in Held : held[d] \in Id /\ Readable[held[d]] = d
      /\ \A j \in Id \ Ids : Readable[j] = NoId
  BY ReadableValue DEF ReadsBack
<1>6. /\ \A d \in Held' : held'[d] \in Id /\ Readable'[held'[d]] = d
      /\ \A j \in Id \ Ids' : Readable'[j] = NoId
      /\ Readable' \in [Id -> Content \cup {NoId}]
  BY ReadableValueNext DEF ReadsBack
<1>7. CASE held[c] = NoId
  <2>1. i = NewId(c)
    BY <1>7 DEF IdAfterStore
  <2>2. i \notin Ids /\ Readable[i] = NoId
    BY <1>3, <1>5, <1>7, <2>1, NewIdIsFree DEF VaultInv, Ids, Held
  <2>3. Readable'[i] = c
    BY <1>2, <1>3, <1>6
  <2>4. ASSUME NEW j \in Id \ {i}
        PROVE  \/ Readable'[j] = Readable[j]
               \/ j \notin Pinned /\ Readable'[j] = NoId
    <3>1. CASE j \in Ids'
      <4>1. PICK d \in Content : held'[d] = j /\ held'[d] # NoId
        BY <3>1 DEF Ids, Held
      <4>2. held[d] = j /\ d \in Held /\ d \in Held'
        BY <1>2, <2>1, <4>1 DEF Held
      <4> QED BY <1>5, <1>6, <4>1, <4>2
    <3>2. CASE j \notin Ids'
      <4>1. Readable'[j] = NoId
        BY <1>6, <3>2
      <4>2. ASSUME j \in Pinned
            PROVE  FALSE
        <5>1. PICK e \in exposed : e[2] = j
          BY <4>2 DEF Pinned
        <5>2. e[1] \in Session /\ e[3] \in Request /\ e = <<e[1], j, e[3]>>
          BY <5>1 DEF VaultInv, TypeOK
        <5>3. Protected(j) /\ j \in Ids
          BY <5>1, <5>2 DEF Protected, VaultInv, ReferencesHeld, Holds
        <5>4. PICK d \in Held : held[d] = j
          BY <5>3 DEF Ids
        <5>5. held'[d] = j /\ d \in Content /\ j # NoId
          BY <1>2, <5>3, <5>4 DEF Held
        <5> QED BY <3>2, <5>5 DEF Ids, Held
      <4> QED BY <4>1, <4>2
    <3> QED BY <3>1, <3>2
  <2> HIDE DEF i
  <2>5. Archive!Deposit(i, c)
    BY <1>4, <1>6, <2>2, <2>3, <2>4 DEF Archive!Deposit
  <2> QED BY <1>3, <2>5 DEF Archive!Next
<1>8. CASE held[c] # NoId
  <2>1. held' = held
    BY <1>1, <1>8 DEF Insert, Reobserve
  <2>2. Readable' = Readable
    BY <2>1 DEF Readable, Holds, Ids, Held, ContentOf
  <2>3. Readable[i] = c /\ c # NoId
    BY <1>5, <1>8, NoIdIsNoIdentifier DEF IdAfterStore, Held
  <2> HIDE DEF i
  <2>4. Pinned' = Pinned \/ Archive!Pin(i)
    BY <1>3, <1>4, <2>2, <2>3 DEF Archive!Pin
  <2> QED BY <1>3, <2>2, <2>4 DEF Archive!Next
<1> QED BY <1>7, <1>8

\* Every other action pins an identifier that is held, or changes nothing that
\* a reader of the archive sees.
LEMMA ReferenceRefines ==
  ASSUME VaultInv, Expose \/ Claim \/ Snapshot \/ Catalogue \/ UNCHANGED vaultVars
  PROVE  [Archive!Next]_<<Readable, Pinned>>
<1>1. held' = held
  BY DEF Expose, Claim, Snapshot, Catalogue, ClaimInline, RecordExposure, Remember,
         IndexSource, LoseCapture, vaultVars, artifacts
<1>2. Readable' = Readable
  BY <1>1 DEF Readable, Holds, Ids, Held, ContentOf
<1>3. ASSUME NEW s \in Session, NEW i \in Ids, NEW r \in Request,
             exposed' = exposed \cup {<<s, i, r>>}
      PROVE  Archive!Next
  <2>1. PICK c \in Held : i = held[c]
    BY DEF Ids
  <2>2. i \in Id /\ Readable[i] # NoId
    BY <2>1, ReadableValue, NoIdIsNoIdentifier DEF ReadsBack, Held
  <2>3. Pinned' = Pinned \cup {<<s, i, r>>[2]}
    BY <1>3 DEF Pinned
  <2>4. Archive!Pin(i)
    BY <1>2, <2>2, <2>3 DEF Archive!Pin
  <2> QED BY <2>2, <2>4 DEF Archive!Next
<1>4. CASE Expose \/ Claim
  BY <1>3, <1>4 DEF Expose, Claim, ClaimInline, RecordExposure
<1>5. CASE Snapshot \/ Catalogue \/ UNCHANGED vaultVars
  BY <1>2, <1>5 DEF Snapshot, Catalogue, Remember, IndexSource, LoseCapture, vaultVars, Pinned
<1> QED BY <1>4, <1>5

\* The vault keeps the promise of EvidenceArchive for every content set, prefix
\* assignment, size and water mark.
THEOREM VaultKeepsArchivePromise == Spec => KeepsArchivePromise
<1>1. Init => Archive!Init
  <2> SUFFICES ASSUME Init PROVE Archive!Init
    OBVIOUS
  <2>1. Ids = {} /\ exposed = {}
    BY DEF Init, Ids, Held
  <2> QED BY <2>1 DEF Archive!Init, Readable, Pinned, Holds
<1>2. VaultInv /\ VaultInv' /\ [Next]_vaultVars => [Archive!Next]_<<Readable, Pinned>>
  <2> SUFFICES ASSUME VaultInv, VaultInv', [Next]_vaultVars
               PROVE  [Archive!Next]_<<Readable, Pinned>>
    OBVIOUS
  <2>1. CASE Put
    BY <2>1, StoreRefines DEF Put
  <2>2. CASE Capture
    BY <2>2, StoreRefines DEF Capture, CaptureSource
  <2>3. CASE Expose \/ Claim \/ Snapshot \/ Catalogue \/ UNCHANGED vaultVars
    BY <2>3, ReferenceRefines
  <2> QED BY <2>1, <2>2, <2>3 DEF Next
<1> QED
  BY <1>1, <1>2, VaultInvariant, PTL DEF Spec, KeepsArchivePromise, Archive!Spec, Archive!vars

----------------------------------------------------------------------------
(* The vault under those who put receipts and deltas in the place of text,  *)
(* when no two artifacts share the 128-bit prefix of their digests.         *)

PrefixesDiffer == \A c, d \in Content : Prefix[c] = Prefix[d] => c = d

\* Every row answers to the short identifier of its content.
AllShort == \A c \in Held : held[c] = ShortId(c)

Kept(i) == \E s \in Session, r \in Request : <<s, i, r>> \in exposed

\* What a transaction of a pipeline leaves true of the vault.
VaultSound == VaultInv' /\ AllShort' /\ exposed \subseteq exposed'

LEMMA ShortIsAnId == \A c \in Content : ShortId(c) \in Id
BY DEF Id

\* put_artifact, as the compiler, the compactor and the reducers call it.
LEMMA StoreSound ==
  ASSUME PrefixesDiffer, VaultInv, AllShort, NEW c \in Content, NEW who \in Caller,
         PutArtifact(c, who, {}), UNCHANGED captured
  PROVE  VaultSound /\ IdAfterStore(c) = ShortId(c)
<1>1. NewId(c) = ShortId(c)
  <2>1. ASSUME NEW d \in Content \ {c}, held[d] = ShortId(c)
        PROVE  FALSE
    <3>1. held[d] = ShortId(d)
      BY <2>1, NoIdIsNoIdentifier, ShortIsAnId DEF AllShort, Held
    <3> QED
      BY <2>1, <3>1 DEF PrefixesDiffer, ShortId
  <2> QED
    BY <2>1 DEF NewId
<1>2. VaultInv'
  BY StorePreserves
<1>3. \A d \in Content : held'[d] # NoId =>
        \/ held[d] = held'[d]
        \/ d = c /\ held[c] = NoId /\ held'[c] = NewId(c)
  BY SurvivesStore DEF PutArtifact, PutAt, VaultInv
<1>4. AllShort'
  BY <1>1, <1>3 DEF AllShort, Held, ShortId
<1>5. IdAfterStore(c) = ShortId(c)
  BY <1>1 DEF IdAfterStore, AllShort, Held
<1>6. exposed \subseteq exposed'
  BY DEF PutArtifact, PutAt
<1> QED
  BY <1>2, <1>4, <1>5, <1>6 DEF VaultSound

\* The transactions that only refer to artifacts.
LEMMA ReferenceSound ==
  ASSUME VaultInv, AllShort, Expose \/ Claim \/ Snapshot \/ UNCHANGED vaultVars
  PROVE  VaultSound
<1>1. VaultInv'
  BY ReferencePreserves, NextVault
<1>2. UNCHANGED held
  BY DEF Expose, Claim, ClaimInline, Snapshot, RecordExposure, Remember, vaultVars, artifacts
<1>3. exposed \subseteq exposed'
  BY DEF Expose, Claim, ClaimInline, Snapshot, RecordExposure, Remember, vaultVars
<1>4. AllShort'
  BY <1>2 DEF AllShort, Held, ShortId
<1> QED
  BY <1>1, <1>3, <1>4 DEF VaultSound
============================================================================
