--------------------------- MODULE DiskImageProofs ---------------------------
(***************************************************************************)
(* The disk images of a release, for every two geometries of which the     *)
(* second is not smaller than the first, every set of files and every      *)
(* order in which they are installed.  The invariant gives every image its *)
(* witnesses: the sectors of its directory, the slots its files' entries   *)
(* are in and the chain of sectors each file is on, all apart from each    *)
(* other.  That an installation keeps them, behind what it adds, is the    *)
(* lemma Installing; what is read from an image is computed from them.     *)
(* That repacking is never refused is a count of sectors: how many blocks  *)
(* the files have does not depend on the disk they are on.                 *)
(***************************************************************************)
EXTENDS DiskImage, FiniteSetTheorems, SequenceTheorems, WellFoundedInduction, TLAPS

-----------------------------------------------------------------------------
(* Sectors in order.                                                       *)

Pairs == Nat \X Nat

(* How many numbers there are from 1 to k.                                 *)
LEMMA FirstNumbers ==
    ASSUME NEW k \in Nat
    PROVE  IsFiniteSet(1 .. k) /\ Cardinality(1 .. k) = k
BY FS_Interval

(* A function on the first numbers is a sequence of that length.           *)
LEMMA FunctionIsASequence ==
    ASSUME NEW k \in Nat, NEW S, NEW q \in [1 .. k -> S]
    PROVE  q \in Seq(S) /\ Len(q) = k
<1>1. q \in Seq(S)
  <2>1. q \in UNION {[1 .. n -> S] : n \in Nat}
    OBVIOUS
  <2> QED BY <2>1, SeqDef
<1>2. Len(q) \in Nat /\ 1 .. Len(q) = 1 .. k
  BY <1>1, LenProperties
<1>3. Cardinality(1 .. Len(q)) = Len(q)
  BY <1>2, FirstNumbers
<1>4. Cardinality(1 .. k) = k
  BY FirstNumbers
<1> QED BY <1>1, <1>2, <1>3, <1>4

(* The order in which the tools' loops visit sectors, and slots of the     *)
(* directory, is a strict total order.                                     *)
LEMMA BeforeIsAnOrder ==
    ASSUME NEW s \in Pairs, NEW t \in Pairs
    PROVE  /\ s # t => Before(s, t) \/ Before(t, s)
           /\ ~Before(s, s)
           /\ ~(Before(s, t) /\ Before(t, s))
           /\ \A u \in Pairs : Before(s, t) /\ Before(t, u) => Before(s, u)
BY DEF Pairs, Before

(* The rank of a pair in a finite set says how many come before it, and    *)
(* grows from one pair to a later one.                                     *)
LEMMA RankIsANumber ==
    ASSUME NEW S \in SUBSET Pairs, IsFiniteSet(S), NEW s \in S
    PROVE  /\ Cardinality(S) \in Nat
           /\ Rank(s, S) \in 0 .. Cardinality(S) - 1
<1> DEFINE A == {t \in S : Before(t, s)}
<1>1. /\ IsFiniteSet(A) /\ Cardinality(A) <= Cardinality(S)
      /\ Cardinality(S) = Cardinality(A) => S = A
  <2>1. A \in SUBSET S
    OBVIOUS
  <2> HIDE DEF A
  <2> QED BY <2>1, FS_Subset
<1>2. s \notin A
  BY BeforeIsAnOrder
<1>3. S # A
  BY <1>2
<1>4. Cardinality(A) \in Nat /\ Cardinality(S) \in Nat
  <2> HIDE DEF A
  <2> QED BY <1>1, FS_CardinalityType
<1>5. Rank(s, S) = Cardinality(A)
  BY DEF Rank
<1> HIDE DEF A
<1> QED BY <1>1, <1>3, <1>4, <1>5

(* A later sector has more sectors before it.                              *)
LEMMA RankGrows ==
    ASSUME NEW S \in SUBSET Pairs, IsFiniteSet(S), NEW s \in S, NEW t \in S, Before(s, t)
    PROVE  Rank(s, S) < Rank(t, S)
<1> DEFINE A == {u \in S : Before(u, s)}
           B == {u \in S : Before(u, t)}
<1>1. A \in SUBSET B /\ s \in B /\ s \notin A /\ B \in SUBSET S
  BY BeforeIsAnOrder
<1>2. Rank(s, S) = Cardinality(A) /\ Rank(t, S) = Cardinality(B)
  BY DEF Rank
<1> HIDE DEF A, B
<1>3. IsFiniteSet(B)
  BY <1>1, FS_Subset
<1>4. Cardinality(A) <= Cardinality(B) /\ Cardinality(A) # Cardinality(B) /\ IsFiniteSet(A)
  BY <1>1, <1>3, FS_Subset
<1>5. Cardinality(A) \in Nat /\ Cardinality(B) \in Nat
  BY <1>3, <1>4, FS_CardinalityType
<1> QED BY <1>2, <1>4, <1>5

(* A finite set in order: a sequence of each of its elements, once, where  *)
(* an earlier place is an earlier element.                                 *)
LEMMA InOrderIsSound ==
    ASSUME NEW S \in SUBSET Pairs, IsFiniteSet(S)
    PROVE  /\ InOrder(S) \in Seq(S)
           /\ Len(InOrder(S)) = Cardinality(S)
           /\ Cardinality(S) \in Nat
           /\ \A n \in 1 .. Cardinality(S) :
                 InOrder(S)[n] \in S /\ Rank(InOrder(S)[n], S) = n - 1
           /\ Range(InOrder(S)) = S
           /\ \A m, n \in 1 .. Cardinality(S) :
                 m < n => Before(InOrder(S)[m], InOrder(S)[n])
<1> DEFINE c == Cardinality(S)
           r == [s \in S |-> Rank(s, S) + 1]
<1>1. c \in Nat
  BY FS_CardinalityType
<1>2. \A s \in S : Rank(s, S) \in 0 .. c - 1
  BY RankIsANumber
<1>3. r \in [S -> 1 .. c]
  BY <1>1, <1>2
<1>4. \A s, t \in S : r[s] = r[t] => s = t
  <2> SUFFICES ASSUME NEW s \in S, NEW t \in S, r[s] = r[t], s # t
               PROVE  FALSE
    OBVIOUS
  <2>1. Before(s, t) \/ Before(t, s)
    BY BeforeIsAnOrder
  <2>2. Rank(s, S) = Rank(t, S)
    BY <1>1, <1>2
  <2>3. Rank(s, S) < Rank(t, S) \/ Rank(t, S) < Rank(s, S)
    BY <2>1, RankGrows
  <2> QED BY <1>1, <1>2, <2>2, <2>3
<1>5. r \in Injection(S, 1 .. c)
  BY <1>3, <1>4 DEF Injection, IsInjective
<1>6. IsFiniteSet(1 .. c) /\ Cardinality(1 .. c) = c
  BY <1>1, FS_Interval
<1>7. r \in Surjection(S, 1 .. c)
  <2> HIDE DEF r
  <2> QED BY <1>5, <1>6, FS_Injection
<1>8. \A n \in 1 .. c : \E s \in S : Rank(s, S) = n - 1
  <2>1. \A n \in 1 .. c : \E s \in S : r[s] = n
    <3> HIDE DEF r, c
    <3> QED BY <1>7 DEF Surjection
  <2>2. \A s \in S : r[s] - 1 = Rank(s, S)
    BY <1>2
  <2> HIDE DEF r, c
  <2> QED BY <2>1, <2>2
<1>9. \A n \in 1 .. c : InOrder(S)[n] \in S /\ Rank(InOrder(S)[n], S) = n - 1
  BY <1>8 DEF InOrder
<1>10. DOMAIN InOrder(S) = 1 .. c /\ InOrder(S) \in [1 .. c -> S]
  BY <1>9 DEF InOrder
<1>11. InOrder(S) \in Seq(S) /\ Len(InOrder(S)) = c
  BY <1>1, <1>10, FunctionIsASequence
<1>12. Range(InOrder(S)) = S
  <2>1. ASSUME NEW s \in S
        PROVE  s \in Range(InOrder(S))
    <3>1. r[s] \in 1 .. c /\ Rank(InOrder(S)[r[s]], S) = r[s] - 1 /\ InOrder(S)[r[s]] \in S
      <4>1. r[s] \in 1 .. c
        BY <1>3
      <4> HIDE DEF r, c
      <4> QED BY <4>1, <1>9
    <3>2. r[InOrder(S)[r[s]]] = r[s]
      BY <1>1, <1>2, <3>1
    <3>3. InOrder(S)[r[s]] = s
      BY <1>4, <3>1, <3>2
    <3> QED BY <1>10, <3>1, <3>3 DEF Range
  <2>2. \A n \in DOMAIN InOrder(S) : InOrder(S)[n] \in S
    BY <1>9, <1>10
  <2> QED BY <2>1, <2>2 DEF Range
<1>13. ASSUME NEW m \in 1 .. c, NEW n \in 1 .. c, m < n
       PROVE  Before(InOrder(S)[m], InOrder(S)[n])
  <2> DEFINE s == InOrder(S)[m]
             t == InOrder(S)[n]
  <2>1. s \in S /\ t \in S /\ Rank(s, S) = m - 1 /\ Rank(t, S) = n - 1
    BY <1>9
  <2> HIDE DEF s, t
  <2> HIDE DEF c, r
  <2>2. s # t
    BY <2>1, <1>1, <1>13
  <2>3. ~Before(t, s)
    <3>1. ASSUME Before(t, s)
          PROVE  n - 1 < m - 1
      BY <2>1, <3>1, RankGrows
    <3> QED BY <3>1, <1>1, <1>13
  <2>4. Before(s, t)
    BY <2>1, <2>2, <2>3, BeforeIsAnOrder
  <2> QED BY <2>4 DEF s, t
<1> HIDE DEF r
<1> QED BY <1>1, <1>9, <1>11, <1>12, <1>13

(* A sequence whose elements come in order is its range in order.          *)
LEMMA InOrderIs ==
    ASSUME NEW q \in Seq(Pairs),
           \A m, n \in 1 .. Len(q) : m < n => Before(q[m], q[n])
    PROVE  /\ IsFiniteSet(Range(q)) /\ Cardinality(Range(q)) = Len(q)
           /\ InOrder(Range(q)) = q
<1> DEFINE S == Range(q)
           c == Len(q)
<1>1. c \in Nat /\ DOMAIN q = 1 .. c /\ S \in SUBSET Pairs /\ \A n \in 1 .. c : q[n] \in S
  BY DEF Range
<1>2. \A m, n \in 1 .. c : q[m] = q[n] => m = n
  <2> SUFFICES ASSUME NEW m \in 1 .. c, NEW n \in 1 .. c, q[m] = q[n], m # n
               PROVE  FALSE
    OBVIOUS
  <2>1. m < n \/ n < m
    BY <1>1
  <2>2. Before(q[m], q[m])
    BY <2>1
  <2> QED BY <1>1, <2>2, BeforeIsAnOrder
<1>3. \A k \in 0 .. c : /\ IsFiniteSet({q[m] : m \in 1 .. k})
                        /\ Cardinality({q[m] : m \in 1 .. k}) = k
  <2> SUFFICES ASSUME NEW k \in 0 .. c
               PROVE  IsFiniteSet({q[m] : m \in 1 .. k}) /\ Cardinality({q[m] : m \in 1 .. k}) = k
    OBVIOUS
  <2> DEFINE T == {q[m] : m \in 1 .. k}
             h == [m \in 1 .. k |-> q[m]]
  <2>1. h \in Bijection(1 .. k, T)
    <3>1. h \in [1 .. k -> T]
      OBVIOUS
    <3>2. \A m, n \in 1 .. k : h[m] = h[n] => m = n
      BY <1>1, <1>2
    <3>3. \A t \in T : \E m \in 1 .. k : h[m] = t
      OBVIOUS
    <3> HIDE DEF h, T
    <3> QED BY <3>1, <3>2, <3>3 DEF Bijection, Injection, Surjection, IsInjective
  <2>2. ExistsBijection(1 .. k, T) /\ k \in Nat
    <3> HIDE DEF h, T
    <3>1. ExistsBijection(1 .. k, T)
      BY <2>1 DEF ExistsBijection
    <3>2. k \in Nat
      BY <1>1
    <3> QED BY <3>1, <3>2
  <2>3. IsFiniteSet(1 .. k) /\ Cardinality(1 .. k) = k
    BY <2>2, FS_Interval
  <2> HIDE DEF T
  <2>4. IsFiniteSet(T) /\ Cardinality(T) = k
    BY <2>2, <2>3, FS_Bijection
  <2> QED BY <2>4 DEF T
<1>4. S = {q[m] : m \in 1 .. c}
  BY <1>1 DEF Range
<1>5. IsFiniteSet(S) /\ Cardinality(S) = c
  <2>1. c \in 0 .. c
    BY <1>1
  <2> HIDE DEF S, c
  <2> QED BY <2>1, <1>3, <1>4
<1>6. \A n \in 1 .. c : Rank(q[n], S) = n - 1
  <2> SUFFICES ASSUME NEW n \in 1 .. c
               PROVE  Rank(q[n], S) = n - 1
    OBVIOUS
  <2>1. \A m \in 1 .. c : Before(q[m], q[n]) <=> m < n
    <3> SUFFICES ASSUME NEW m \in 1 .. c
                 PROVE  Before(q[m], q[n]) <=> m < n
      OBVIOUS
    <3>1. m < n \/ m = n \/ n < m
      BY <1>1
    <3>2. q[m] \in Pairs /\ q[n] \in Pairs
      BY <1>1
    <3> QED BY <3>1, <3>2, BeforeIsAnOrder
  <2>2. {t \in S : Before(t, q[n])} = {q[m] : m \in 1 .. n - 1}
    BY <1>1, <1>4, <2>1
  <2>3. n - 1 \in 0 .. c
    BY <1>1
  <2> QED BY <1>3, <2>2, <2>3 DEF Rank
<1>7. \A n \in 1 .. c : InOrder(S)[n] = q[n]
  <2> SUFFICES ASSUME NEW n \in 1 .. c
               PROVE  InOrder(S)[n] = q[n]
    OBVIOUS
  <2>1. InOrder(S)[n] \in S /\ Rank(InOrder(S)[n], S) = n - 1
    BY <1>1, <1>5, InOrderIsSound
  <2>2. PICK m \in 1 .. c : InOrder(S)[n] = q[m]
    BY <2>1, <1>4
  <2>3. m - 1 = n - 1
    BY <2>1, <2>2, <1>6
  <2> QED BY <2>2, <2>3
<1>8. InOrder(S) \in Seq(S) /\ Len(InOrder(S)) = c
  BY <1>1, <1>5, InOrderIsSound
<1> HIDE DEF S
<1>9. InOrder(S) = q
  BY <1>1, <1>7, <1>8
<1> QED BY <1>5, <1>9 DEF S

-----------------------------------------------------------------------------
(* Chains of sectors.                                                      *)

(* A set of numbers has a least one.                                       *)
LEMMA LeastNumber ==
    ASSUME NEW P \in SUBSET Nat, P # {}
    PROVE  \E n \in P : \A m \in P : n <= m
<1> DEFINE Less == OpToRel(<, Nat)
<1>1. IsWellFoundedOn(Less, Nat)
  BY NatLessThanWellFounded
<1>2. Less = {mn \in Nat \X Nat : mn[1] < mn[2]}
  BY DEF OpToRel
<1> HIDE DEF Less
<1>3. PICK n \in P : \A m \in P : <<m, n>> \notin Less
  BY <1>1, WFMin
<1>4. \A m \in P : ~(m < n)
  BY <1>2, <1>3
<1> QED BY <1>3, <1>4

(* What the links of an image lead to from a sector on, place by place,    *)
(* is what the chain is read from.                                         *)
Walk(at, link, start, size) ==
    at = [n \in 1 .. size |->
             IF n = 1 THEN start
             ELSE LET s == at[n - 1] IN IF s[1] = 0 THEN s ELSE link[s]]

(* Chain is the part of a walk along the links that stays on the disk.     *)
LEMMA ChainIsAWalk ==
    ASSUME NEW i, NEW start, NEW w, Walk(w, i.link, start, Cardinality(DOMAIN i.link))
    PROVE  \E at : /\ Walk(at, i.link, start, Cardinality(DOMAIN i.link))
                   /\ Chain(i, start) =
                         [n \in 1 .. Cardinality({k \in 1 .. Cardinality(DOMAIN i.link) :
                                                     at[k][1] # 0}) |-> at[n]]
<1> DEFINE size == Cardinality(DOMAIN i.link)
           A == CHOOSE at : Walk(at, i.link, start, size)
<1>1. Walk(A, i.link, start, size)
  OBVIOUS
<1>2. Chain(i, start) = [n \in 1 .. Cardinality({k \in 1 .. size : A[k][1] # 0}) |-> A[n]]
  BY DEF Chain, Walk
<1> QED BY <1>1, <1>2

(* A sequence of sectors: each once, each linked to the next one, the last *)
(* one to none.                                                            *)
Distinct(q) == \A m, n \in 1 .. Len(q) : q[m] = q[n] => m = n
Leads(link, q) ==
    /\ \A n \in 1 .. Len(q) - 1 : link[q[n]] = q[n + 1]
    /\ link[q[Len(q)]][1] = 0

(* A sequence of different sectors, each linked to the next and the last   *)
(* to none, is the chain that file_bytes and the directory's readers       *)
(* follow from its first.                                                  *)
LEMMA ChainIs ==
    ASSUME NEW i, NEW q, q \in Seq(DOMAIN i.link), Len(q) >= 1,
           IsFiniteSet(DOMAIN i.link), \A s \in DOMAIN i.link : s[1] # 0,
           Distinct(q), Leads(i.link, q)
    PROVE  Chain(i, q[1]) = q
<1> DEFINE size == Cardinality(DOMAIN i.link)
           c == Len(q)
           w == [n \in 1 .. size |-> IF n <= c THEN q[n] ELSE i.link[q[c]]]
<1>1. /\ size \in Nat /\ c \in Nat /\ DOMAIN q = 1 .. c
      /\ q \in [1 .. c -> DOMAIN i.link]
  BY FS_CardinalityType, LenProperties
<1>2. \A n \in 1 .. c : q[n] \in DOMAIN i.link /\ q[n][1] # 0
  BY <1>1
<1>3. c <= size
  <2>1. q \in Injection(1 .. c, DOMAIN i.link)
    BY <1>1 DEF Distinct, Injection, IsInjective
  <2>2. Cardinality(1 .. c) = c
    BY <1>1, FS_Interval
  <2> QED BY <2>1, <2>2, FS_Injection
<1>4. \A n \in 1 .. c - 1 : i.link[q[n]] = q[n + 1]
  BY DEF Leads
<1>5. i.link[q[c]][1] = 0
  BY DEF Leads
<1>6. \A n \in 1 .. size : w[n] = IF n <= c THEN q[n] ELSE i.link[q[c]]
  OBVIOUS
<1> HIDE DEF c, w
<1>7. \A n \in 1 .. size :
         w[n] = IF n = 1 THEN q[1]
                ELSE IF w[n - 1][1] = 0 THEN w[n - 1] ELSE i.link[w[n - 1]]
  <2> SUFFICES ASSUME NEW n \in 1 .. size
               PROVE  w[n] = IF n = 1 THEN q[1]
                             ELSE IF w[n - 1][1] = 0 THEN w[n - 1] ELSE i.link[w[n - 1]]
    OBVIOUS
  <2>1. CASE n = 1
    BY <2>1, <1>1, <1>3, <1>6 DEF c
  <2>2. CASE n # 1 /\ n <= c
    <3>1. n - 1 \in 1 .. c - 1 /\ n - 1 \in 1 .. size /\ n - 1 <= c /\ n - 1 \in 1 .. c
      BY <2>2, <1>1, <1>3
    <3>2. w[n - 1] = q[n - 1] /\ w[n] = q[n] /\ q[n - 1][1] # 0
      BY <3>1, <2>2, <1>6, <1>2
    <3>3. i.link[q[n - 1]] = q[n]
      BY <3>1, <1>4, <1>1
    <3> QED BY <3>2, <3>3, <2>2
  <2>3. CASE n = c + 1
    <3>1. n - 1 = c /\ c \in 1 .. c /\ c \in 1 .. size
      BY <2>3, <1>1, <1>3 DEF c
    <3>2. w[n - 1] = q[c] /\ w[n] = i.link[q[c]] /\ q[c][1] # 0
      BY <3>1, <2>3, <1>6, <1>2, <1>1
    <3> QED BY <3>1, <3>2, <2>3
  <2>4. CASE n > c + 1
    <3>1. n - 1 \in 1 .. size /\ ~(n - 1 <= c) /\ ~(n <= c) /\ n # 1
      BY <2>4, <1>1, <1>3
    <3> QED BY <3>1, <1>6, <1>5
  <2> QED BY <2>1, <2>2, <2>3, <2>4, <1>1
<1>8. Walk(w, i.link, q[1], size)
  BY <1>7 DEF Walk, w
<1>9. PICK A : /\ Walk(A, i.link, q[1], size)
               /\ Chain(i, q[1]) = [n \in 1 .. Cardinality({k \in 1 .. size : A[k][1] # 0}) |-> A[n]]
  BY <1>8, ChainIsAWalk
<1>10. \A n \in 1 .. size :
         A[n] = IF n = 1 THEN q[1]
                ELSE IF A[n - 1][1] = 0 THEN A[n - 1] ELSE i.link[A[n - 1]]
  BY <1>9 DEF Walk
<1>11. \A n \in 1 .. size : A[n] = w[n]
  <2> DEFINE P == {n \in 1 .. size : A[n] # w[n]}
  <2> SUFFICES ASSUME P # {}
               PROVE  FALSE
    OBVIOUS
  <2>1. PICK n \in P : \A m \in P : n <= m
    <3>1. P \in SUBSET Nat
      BY <1>1
    <3> HIDE DEF P
    <3> QED BY <3>1, LeastNumber
  <2>2. n \in 1 .. size /\ A[n] # w[n] /\ n \in Nat
    BY <2>1, <1>1
  <2>3. n # 1
    BY <2>2, <1>7, <1>10
  <2>4. n - 1 \in 1 .. size /\ ~(n <= n - 1)
    BY <2>2, <2>3, <1>1
  <2>5. A[n - 1] = w[n - 1]
    BY <2>1, <2>4
  <2>6. /\ A[n] = IF A[n - 1][1] = 0 THEN A[n - 1] ELSE i.link[A[n - 1]]
        /\ w[n] = IF w[n - 1][1] = 0 THEN w[n - 1] ELSE i.link[w[n - 1]]
    BY <2>2, <2>3, <1>7, <1>10
  <2> QED BY <2>2, <2>5, <2>6
<1>12. {k \in 1 .. size : A[k][1] # 0} = 1 .. c
  BY <1>11, <1>6, <1>1, <1>2, <1>3, <1>5
<1>13. Cardinality(1 .. c) = c
  BY <1>1, FS_Interval
<1>14. Chain(i, q[1]) = [n \in 1 .. c |-> A[n]]
  BY <1>9, <1>12, <1>13
<1>15. \A n \in 1 .. c : A[n] = q[n]
  BY <1>11, <1>6, <1>1, <1>3
<1>16. [n \in 1 .. c |-> A[n]] = q
  BY <1>15, <1>1
<1> QED BY <1>14, <1>16

(* The sectors of a disk of finitely many tracks.                          *)
LEMMA SectorsAreFinite ==
    ASSUME NEW g, GeometryIsSound(g)
    PROVE  /\ Tracks(g) = 1 .. Len(g.count) /\ Len(g.count) \in Nat
           /\ g.count \in [Tracks(g) -> Nat]
           /\ Sectors(g) \in SUBSET Pairs
           /\ \A s \in Sectors(g) : /\ s[1] \in Tracks(g) /\ s[1] \in Nat /\ s[1] # 0
                                    /\ s[2] \in Nat /\ s = <<s[1], s[2]>>
           /\ IsFiniteSet(Sectors(g))
<1> DEFINE c == Len(g.count)
           row == [t \in 1 .. c |-> {t} \X (0 .. g.count[t] - 1)]
           rows == {{t} \X (0 .. g.count[t] - 1) : t \in 1 .. c}
<1>1. g.count \in Seq(Nat)
  BY DEF GeometryIsSound
<1>2. c \in Nat /\ DOMAIN g.count = 1 .. c /\ g.count \in [1 .. c -> Nat]
  BY <1>1, LenProperties
<1>3. Tracks(g) = 1 .. c
  BY <1>2 DEF Tracks
<1>4. Sectors(g) = UNION rows
  BY <1>3 DEF Sectors
<1>5. \A s \in Sectors(g) : /\ s[1] \in Tracks(g) /\ s[1] \in Nat /\ s[1] # 0
                            /\ s[2] \in Nat /\ s = <<s[1], s[2]>>
  <2> SUFFICES ASSUME NEW s \in Sectors(g)
               PROVE  /\ s[1] \in Tracks(g) /\ s[1] \in Nat /\ s[1] # 0
                      /\ s[2] \in Nat /\ s = <<s[1], s[2]>>
    OBVIOUS
  <2>1. PICK t \in 1 .. c : s \in {t} \X (0 .. g.count[t] - 1)
    BY <1>4
  <2>2. g.count[t] \in Nat
    BY <1>2
  <2> QED BY <2>1, <2>2, <1>2, <1>3
<1>6. Sectors(g) \in SUBSET Pairs
  BY <1>5 DEF Pairs
<1>7. \A R \in rows : IsFiniteSet(R)
  <2> SUFFICES ASSUME NEW t \in 1 .. c
               PROVE  IsFiniteSet({t} \X (0 .. g.count[t] - 1))
    OBVIOUS
  <2>1. g.count[t] \in Nat
    BY <1>2
  <2>2. IsFiniteSet({t}) /\ IsFiniteSet(0 .. g.count[t] - 1)
    <3>1. IsFiniteSet({t})
      BY FS_Singleton
    <3>2. 0 \in Int /\ g.count[t] - 1 \in Int
      BY <2>1
    <3>3. IsFiniteSet(0 .. g.count[t] - 1)
      BY <3>2, FS_Interval
    <3> QED BY <3>1, <3>3
  <2> QED BY <2>2, FS_Product
<1>8. IsFiniteSet(rows)
  <2>1. row \in Surjection(1 .. c, rows)
    BY DEF Surjection
  <2> HIDE DEF row, rows
  <2>2. IsFiniteSet(1 .. c)
    BY <1>2, FS_Interval
  <2> QED BY <2>1, <2>2, FS_Surjection
<1>9. IsFiniteSet(Sectors(g))
  <2> HIDE DEF rows
  <2> QED BY <1>4, <1>7, <1>8, FS_UNION
<1> QED BY <1>2, <1>3, <1>5, <1>6, <1>9

(* The parts of an image of a geometry.                                    *)
IsImage(i) == DOMAIN i = {"free", "room", "link", "block", "entries"}
Shaped(g, i) ==
    /\ IsImage(i)
    /\ i.free \in SUBSET Sectors(g)
    /\ i.room \in [Tracks(g) -> Int]
    /\ DOMAIN i.link = Sectors(g)
    /\ DOMAIN i.block = Sectors(g)
    /\ DOMAIN i.entries = Sectors(g)
    /\ \A s \in Sectors(g) : DOMAIN i.entries[s] = 1 .. Slots

(* The counts of an image are those of its map.                            *)
OnTrack(S, t) == {s \in S : s[1] = t}
Counted(g, i) == \A t \in Tracks(g) : i.room[t] = Cardinality(OnTrack(i.free, t))

(* mark_used keeps them so.                                                *)
LEMMA MarkingKeepsCounts ==
    ASSUME NEW g, GeometryIsSound(g), NEW i, Shaped(g, i), Counted(g, i), NEW S
    PROVE  /\ Shaped(g, AllMarked(i, S))
           /\ Counted(g, AllMarked(i, S))
           /\ AllMarked(i, S).free = i.free \ S
           /\ AllMarked(i, S).link = i.link
           /\ AllMarked(i, S).block = i.block
           /\ AllMarked(i, S).entries = i.entries
<1> DEFINE j == AllMarked(i, S)
           f == i.free \ S
           r == [t \in DOMAIN i.room |-> i.room[t] - Cardinality({s \in S \cap i.free : s[1] = t})]
<1>1. j = [i EXCEPT !.free = f, !.room = r] /\ IsImage(i)
  BY DEF AllMarked, Shaped, IsImage
<1>2. IsImage(j) /\ j.free = f /\ j.link = i.link /\ j.block = i.block
      /\ j.entries = i.entries /\ j.room = r
  <2> HIDE DEF j, f, r
  <2> QED BY <1>1 DEF IsImage
<1>3. /\ i.free \in SUBSET Sectors(g) /\ DOMAIN i.room = Tracks(g)
      /\ i.room \in [Tracks(g) -> Int]
  BY DEF Shaped
<1>4. IsFiniteSet(i.free)
  BY <1>3, SectorsAreFinite, FS_Subset
<1>5. \A t \in Tracks(g) : r[t] \in Int /\ r[t] = Cardinality(OnTrack(f, t))
  <2> SUFFICES ASSUME NEW t \in Tracks(g)
               PROVE  r[t] \in Int /\ r[t] = Cardinality(OnTrack(f, t))
    OBVIOUS
  <2> DEFINE A == OnTrack(i.free, t)
  <2>1. A \in SUBSET i.free
    BY DEF OnTrack
  <2>2. IsFiniteSet(A)
    <3> HIDE DEF A
    <3> QED BY <2>1, <1>4, FS_Subset
  <2>3. A \cap S = {s \in S \cap i.free : s[1] = t} /\ A \ S = OnTrack(f, t)
    BY DEF OnTrack
  <2>4. i.room[t] = Cardinality(A)
    BY DEF Counted
  <2>7. r[t] = i.room[t] - Cardinality(A \cap S)
    BY <2>3, <1>3
  <2> HIDE DEF A, r, f
  <2>5. /\ Cardinality(A \ S) = Cardinality(A) - Cardinality(A \cap S)
        /\ IsFiniteSet(A \cap S)
    BY <2>2, FS_Difference, FS_Intersection
  <2>6. Cardinality(A \cap S) \in Nat /\ Cardinality(A) \in Nat
    BY <2>2, <2>5, FS_CardinalityType
  <2>8. Cardinality(OnTrack(f, t)) = Cardinality(A) - Cardinality(A \cap S)
    BY <2>3, <2>5
  <2>9. r[t] = Cardinality(A) - Cardinality(A \cap S)
    BY <2>4, <2>7
  <2> QED BY <2>6, <2>8, <2>9
<1>9. DOMAIN r = Tracks(g)
  BY <1>3
<1> HIDE DEF j, r
<1>6. j.room \in [Tracks(g) -> Int]
      /\ \A t \in Tracks(g) : j.room[t] = Cardinality(OnTrack(j.free, t))
  <2>1. r = [t \in DOMAIN r |-> r[t]]
    BY DEF r
  <2> HIDE DEF f
  <2> QED BY <2>1, <1>2, <1>9, <1>5
<1>7. Counted(g, j)
  BY <1>6 DEF Counted
<1>8. Shaped(g, j)
  <2>2. j.free \in SUBSET Sectors(g)
    BY <1>2, <1>3
  <2> QED BY <2>2, <1>2, <1>6 DEF Shaped
<1> QED BY <1>2, <1>7, <1>8 DEF j, f

(* How an image holds some files: the sectors of its directory, the slots  *)
(* and the sectors of every file, in the order of the files.               *)
DirectoryIsSound(g, i, dir) ==
    /\ dir \in Seq(DirectorySectors(g))
    /\ Len(dir) >= 1
    /\ dir[1] = <<g.dir, g.first>>
    /\ Distinct(dir)
    /\ Leads(i.link, dir)

(* Slots are taken one after the other: none is left vacant on the way.    *)
AllSlots(dir) == (1 .. Len(dir)) \X (1 .. Slots)
SlotsAreSound(i, files, dir, slots, chains) ==
    /\ slots \in Seq(AllSlots(dir))
    /\ Len(slots) = Len(files)
    /\ \A m, n \in 1 .. Len(slots) : m < n => Before(slots[m], slots[n])
    /\ \A n \in 1 .. Len(slots) :
          i.entries[dir[slots[n][1]]][slots[n][2]] =
             [name |-> files[n].name, start |-> chains[n][1], blocks |-> files[n].blocks]
    /\ \A p \in AllSlots(dir) \ Range(slots) :
          /\ i.entries[dir[p[1]]][p[2]] = Vacant
          /\ \A n \in 1 .. Len(slots) : Before(slots[n], p)

FileIsSound(g, tracks, i, f, chain) ==
    /\ chain \in Seq(FileSectors(g))
    /\ Len(chain) = f.blocks
    /\ \A n \in 1 .. Len(chain) : chain[n][1] \in tracks
    /\ Distinct(chain)
    /\ Leads(i.link, chain)
    /\ i.link[chain[Len(chain)]] = End(f.last)
    /\ \A n \in 1 .. Len(chain) : i.block[chain[n]] = <<f.name, n>>

FilesAreSound(g, tracks, i, files, chains) ==
    /\ files \in Seq(Files)
    /\ chains \in Seq(Seq(FileSectors(g)))
    /\ Len(chains) = Len(files)
    /\ \A n \in 1 .. Len(files) : FileIsSound(g, tracks, i, files[n], chains[n])
    /\ \A m, n \in 1 .. Len(files) : m # n => Range(chains[m]) \cap Range(chains[n]) = {}

BootIsSound(i) == \A n \in 1 .. BootBlocks : i.block[BootSectors[n]] = <<"boot", n>>

UsedBy(chains) == UNION {Range(chains[n]) : n \in 1 .. Len(chains)}
MapIsSound(g, i, dir, chains) ==
    i.free = Sectors(g) \ (g.reserved \union Range(BootSectors) \union Range(dir)
                              \union UsedBy(chains))

Holds(g, tracks, i, files, dir, slots, chains) ==
    /\ Shaped(g, i)
    /\ Counted(g, i)
    /\ DirectoryIsSound(g, i, dir)
    /\ SlotsAreSound(i, files, dir, slots, chains)
    /\ FilesAreSound(g, tracks, i, files, chains)
    /\ BootIsSound(i)
    /\ MapIsSound(g, i, dir, chains)

(* The links of an image lead along such a sequence of its sectors.        *)
LEMMA ChainOf ==
    ASSUME NEW g, GeometryIsSound(g), NEW i, Shaped(g, i),
           NEW q \in Seq(Sectors(g)), Len(q) >= 1, Distinct(q), Leads(i.link, q)
    PROVE  Chain(i, q[1]) = q
<1>1. DOMAIN i.link = Sectors(g)
  BY DEF Shaped
<1>2. IsFiniteSet(Sectors(g)) /\ \A s \in Sectors(g) : s[1] # 0
  BY SectorsAreFinite
<1> QED BY <1>1, <1>2, ChainIs

(* A sound directory is the one that Directory reads, slot by slot.        *)
LEMMA DirectoryIs ==
    ASSUME NEW g, GeometryIsSound(g), NEW i, Shaped(g, i),
           NEW dir, DirectoryIsSound(g, i, dir)
    PROVE  /\ Directory(g, i) = dir
           /\ DOMAIN Directory(g, i) = 1 .. Len(dir)
           /\ Len(dir) \in Nat
           /\ SlotsOf(g, i) = AllSlots(dir)
           /\ \A p \in AllSlots(dir) : Entry(g, i, p) = i.entries[dir[p[1]]][p[2]]
<1>1. dir \in Seq(DirectorySectors(g)) /\ DirectorySectors(g) \subseteq Sectors(g)
  BY DEF DirectoryIsSound, DirectorySectors
<1>2. dir \in Seq(Sectors(g))
  BY <1>1, SeqMonotonic
<1>3. Chain(i, dir[1]) = dir
  BY <1>2, ChainOf DEF DirectoryIsSound
<1>4. Directory(g, i) = dir
  BY <1>3 DEF Directory, DirectoryIsSound
<1>5. DOMAIN dir = 1 .. Len(dir) /\ Len(dir) \in Nat
  BY <1>2, LenProperties
<1> QED BY <1>4, <1>5 DEF SlotsOf, Entry, AllSlots

(* The slots of a directory's sectors, and how many there are.             *)
LEMMA AllSlotsArePairs ==
    ASSUME NEW dir, Len(dir) \in Nat
    PROVE  /\ AllSlots(dir) \in SUBSET Pairs
           /\ IsFiniteSet(AllSlots(dir))
           /\ Cardinality(AllSlots(dir)) = Len(dir) * Slots
<1>1. Slots \in Nat
  BY DiskAssumption
<1>2. /\ IsFiniteSet(1 .. Len(dir)) /\ IsFiniteSet(1 .. Slots)
      /\ Cardinality(1 .. Len(dir)) = Len(dir) /\ Cardinality(1 .. Slots) = Slots
  BY <1>1, FirstNumbers
<1>3. AllSlots(dir) \in SUBSET Pairs
  <2>1. (1 .. Len(dir)) \in SUBSET Nat /\ (1 .. Slots) \in SUBSET Nat
    BY <1>1
  <2> QED BY <2>1 DEF AllSlots, Pairs
<1>4. /\ IsFiniteSet(AllSlots(dir))
      /\ Cardinality(AllSlots(dir)) = Cardinality(1 .. Len(dir)) * Cardinality(1 .. Slots)
  BY <1>2, FS_Product DEF AllSlots
<1> QED BY <1>2, <1>3, <1>4

(* What is taken, and what is listed.                                      *)
LEMMA TakenIs ==
    ASSUME NEW g, GeometryIsSound(g), NEW i, Shaped(g, i),
           NEW dir, DirectoryIsSound(g, i, dir),
           NEW files \in Seq(Files), NEW slots, NEW chains,
           SlotsAreSound(i, files, dir, slots, chains)
    PROVE  /\ Taken(g, i) = Range(slots)
           /\ Vacancies(g, i) = AllSlots(dir) \ Range(slots)
<1>1. /\ SlotsOf(g, i) = AllSlots(dir)
      /\ \A p \in AllSlots(dir) : Entry(g, i, p) = i.entries[dir[p[1]]][p[2]]
  BY DirectoryIs
<1>2. slots \in Seq(AllSlots(dir)) /\ Len(slots) = Len(files)
  BY DEF SlotsAreSound
<1>3. DOMAIN slots = 1 .. Len(slots) /\ \A n \in 1 .. Len(slots) : slots[n] \in AllSlots(dir)
  BY <1>2, LenProperties
<1>4. \A n \in 1 .. Len(slots) : Entry(g, i, slots[n]) # Vacant
  <2> SUFFICES ASSUME NEW n \in 1 .. Len(slots)
               PROVE  Entry(g, i, slots[n]) # Vacant
    OBVIOUS
  <2>1. Entry(g, i, slots[n]) =
           [name |-> files[n].name, start |-> chains[n][1], blocks |-> files[n].blocks]
    BY <1>1, <1>3 DEF SlotsAreSound
  <2>2. files[n] \in Files
    BY <1>2, LenProperties
  <2>3. files[n].blocks # 0
    BY <2>2, DiskAssumption
  <2>4. Entry(g, i, slots[n]).blocks = files[n].blocks
    BY <2>1
  <2>5. Vacant.blocks = 0
    BY DEF Vacant
  <2> QED BY <2>3, <2>4, <2>5
<1>5. \A p \in AllSlots(dir) : p \in Range(slots) <=> Entry(g, i, p) # Vacant
  <2>1. \A p \in AllSlots(dir) \ Range(slots) : Entry(g, i, p) = Vacant
    BY <1>1 DEF SlotsAreSound
  <2>2. \A p \in Range(slots) : Entry(g, i, p) # Vacant
    BY <1>3, <1>4 DEF Range
  <2> QED BY <2>1, <2>2
<1>6. Range(slots) \subseteq AllSlots(dir)
  BY <1>3 DEF Range
<1> QED BY <1>1, <1>5, <1>6 DEF Taken, Vacancies

(* Listed is the entries in the order of installation.                     *)
LEMMA ListedIs ==
    ASSUME NEW g, GeometryIsSound(g), NEW i, Shaped(g, i),
           NEW dir, DirectoryIsSound(g, i, dir),
           NEW files \in Seq(Files), NEW slots, NEW chains,
           SlotsAreSound(i, files, dir, slots, chains)
    PROVE  /\ Len(Listed(g, i)) = Len(files)
           /\ DOMAIN Listed(g, i) = 1 .. Len(files)
           /\ Len(files) \in Nat
           /\ \A n \in 1 .. Len(files) :
                 Listed(g, i)[n] = [name |-> files[n].name, start |-> chains[n][1],
                                    blocks |-> files[n].blocks]
<1>1. /\ slots \in Seq(AllSlots(dir)) /\ Len(slots) = Len(files)
      /\ \A m, n \in 1 .. Len(slots) : m < n => Before(slots[m], slots[n])
  BY DEF SlotsAreSound
<1>2. Len(dir) \in Nat
  BY DirectoryIs
<1>3. slots \in Seq(Pairs)
  BY <1>1, <1>2, AllSlotsArePairs, SeqMonotonic
<1>4. InOrder(Taken(g, i)) = slots
  BY <1>1, <1>3, InOrderIs, TakenIs
<1>5. DOMAIN slots = 1 .. Len(files) /\ \A n \in 1 .. Len(files) : slots[n] \in AllSlots(dir)
  BY <1>1, LenProperties
<1>6. Listed(g, i) = [n \in 1 .. Len(files) |-> Entry(g, i, slots[n])]
  BY <1>4, <1>5 DEF Listed
<1>7. Len(files) \in Nat
  BY LenProperties
<1>8. Len(Listed(g, i)) = Len(files) /\ DOMAIN Listed(g, i) = 1 .. Len(files)
  <2> DEFINE l == Listed(g, i)
             k == Len(files)
  <2>1. l \in [1 .. k -> Range(l)]
    BY <1>6 DEF Range
  <2> HIDE DEF l, k
  <2>2. k \in Nat
    BY <1>7 DEF k
  <2>3. Len(l) = k /\ DOMAIN l = 1 .. k
    BY <2>1, <2>2, FunctionIsASequence
  <2> QED BY <2>3 DEF l, k
<1>9. \A n \in 1 .. Len(files) :
         Entry(g, i, slots[n]) = [name |-> files[n].name, start |-> chains[n][1],
                                  blocks |-> files[n].blocks]
  <2>1. \A p \in AllSlots(dir) : Entry(g, i, p) = i.entries[dir[p[1]]][p[2]]
    BY DirectoryIs
  <2>2. \A n \in 1 .. Len(files) :
           i.entries[dir[slots[n][1]]][slots[n][2]] =
              [name |-> files[n].name, start |-> chains[n][1], blocks |-> files[n].blocks]
    BY <1>1 DEF SlotsAreSound
  <2> QED BY <2>1, <2>2, <1>5
<1> QED BY <1>6, <1>7, <1>8, <1>9

(* What an image holds is what is read from it.                            *)
LEMMA FileChain ==
    ASSUME NEW g, GeometryIsSound(g), NEW i, Shaped(g, i), NEW tracks,
           NEW f \in Files, NEW chain, FileIsSound(g, tracks, i, f, chain)
    PROVE  /\ chain \in Seq(Sectors(g)) /\ Len(chain) \in Nat
           /\ DOMAIN chain = 1 .. Len(chain) /\ Len(chain) >= 1
           /\ Chain(i, chain[1]) = chain
<1>1. f.blocks \in Nat /\ f.blocks >= 1
  BY DiskAssumption
<1>2. chain \in Seq(FileSectors(g)) /\ FileSectors(g) \subseteq Sectors(g) /\ Len(chain) = f.blocks
  BY DEF FileIsSound, FileSectors
<1>3. chain \in Seq(Sectors(g))
  BY <1>2, SeqMonotonic
<1>4. Len(chain) \in Nat /\ DOMAIN chain = 1 .. Len(chain) /\ Len(chain) >= 1
  BY <1>1, <1>2, <1>3, LenProperties
<1>5. Chain(i, chain[1]) = chain
  BY <1>3, <1>4, ChainOf DEF FileIsSound
<1> QED BY <1>3, <1>4, <1>5

(* A file that is sound reads as what was given for it (file_bytes): its   *)
(* blocks, the length of the last one, the count of its entry.             *)
LEMMA FileContents ==
    ASSUME NEW g, GeometryIsSound(g), NEW i, Shaped(g, i), NEW tracks,
           NEW f \in Files, NEW chain, FileIsSound(g, tracks, i, f, chain),
           NEW e, e.start = chain[1], e.blocks = f.blocks
    PROVE  Contents(i, e) = [blocks |-> Whole(f).data, last |-> f.last, agrees |-> TRUE]
<1>1. f.last \in Int /\ Len(chain) = f.blocks
  <2>1. f.last \in Int
    BY DiskAssumption
  <2>2. Len(chain) = f.blocks
    BY DEF FileIsSound
  <2> QED BY <2>1, <2>2
<1>2. Chain(i, e.start) = chain /\ DOMAIN chain = 1 .. Len(chain)
  BY FileChain
<1>3. \A n \in 1 .. Len(chain) : i.block[chain[n]] = <<f.name, n>>
  BY DEF FileIsSound
<1>4. [n \in DOMAIN chain |-> i.block[chain[n]]] = Whole(f).data
  BY <1>1, <1>2, <1>3 DEF Whole
<1>5. i.link[chain[Len(chain)]][2] - 1 = f.last
  <2>1. i.link[chain[Len(chain)]] = <<0, f.last + 1>>
    BY DEF FileIsSound, End
  <2> QED BY <2>1, <1>1
<1>6. (Len(chain) = e.blocks) = TRUE
  BY <1>1
<1> QED BY <1>2, <1>4, <1>5, <1>6 DEF Contents

(* An image lists as many entries as it holds files.                       *)
LEMMA HoldsListed ==
    ASSUME NEW g, GeometryIsSound(g), NEW tracks, NEW i, NEW files, NEW dir, NEW slots,
           NEW chains, Holds(g, tracks, i, files, dir, slots, chains)
    PROVE  /\ Len(Listed(g, i)) = Len(files) /\ DOMAIN Listed(g, i) = 1 .. Len(files)
           /\ Len(files) \in Nat /\ files \in Seq(Files) /\ DOMAIN files = 1 .. Len(files)
<1>1. /\ Shaped(g, i) /\ DirectoryIsSound(g, i, dir)
      /\ SlotsAreSound(i, files, dir, slots, chains)
      /\ files \in Seq(Files)
  BY DEF Holds, FilesAreSound
<1> QED BY <1>1, ListedIs, LenProperties

(* ... the n-th of them is the n-th file's,                                *)
LEMMA HoldsEntry ==
    ASSUME NEW g, GeometryIsSound(g), NEW tracks, NEW i, NEW files, NEW dir, NEW slots,
           NEW chains, Holds(g, tracks, i, files, dir, slots, chains),
           NEW n \in 1 .. Len(files)
    PROVE  Listed(g, i)[n] = [name |-> files[n].name, start |-> chains[n][1],
                              blocks |-> files[n].blocks]
<1>1. /\ Shaped(g, i) /\ DirectoryIsSound(g, i, dir)
      /\ SlotsAreSound(i, files, dir, slots, chains)
      /\ files \in Seq(Files)
  BY DEF Holds, FilesAreSound
<1> QED BY <1>1, ListedIs

(* ... whose blocks are on its chain of sectors,                           *)
LEMMA HoldsSound ==
    ASSUME NEW g, GeometryIsSound(g), NEW tracks, NEW i, NEW files, NEW dir, NEW slots,
           NEW chains, Holds(g, tracks, i, files, dir, slots, chains),
           NEW n \in 1 .. Len(files)
    PROVE  files[n] \in Files /\ FileIsSound(g, tracks, i, files[n], chains[n])
<1>1. FilesAreSound(g, tracks, i, files, chains)
  BY DEF Holds
<1>2. files \in Seq(Files)
  BY <1>1 DEF FilesAreSound
<1> QED BY <1>1, <1>2, LenProperties DEF FilesAreSound

(* ... which is what its entry's start leads to,                           *)
LEMMA HoldsChain ==
    ASSUME NEW g, GeometryIsSound(g), NEW tracks, NEW i, NEW files, NEW dir, NEW slots,
           NEW chains, Holds(g, tracks, i, files, dir, slots, chains),
           NEW n \in 1 .. Len(files)
    PROVE  Chain(i, Listed(g, i)[n].start) = chains[n]
<1>1. Shaped(g, i)
  BY DEF Holds
<1>2. Listed(g, i)[n].start = chains[n][1]
  <2>1. Listed(g, i)[n] = [name |-> files[n].name, start |-> chains[n][1],
                           blocks |-> files[n].blocks]
    BY HoldsEntry
  <2> QED BY <2>1
<1>3. files[n] \in Files /\ FileIsSound(g, tracks, i, files[n], chains[n])
  BY HoldsSound
<1> QED BY <1>1, <1>2, <1>3, FileChain

(* ... so that the file's contents are read from it.                       *)
LEMMA HoldsContents ==
    ASSUME NEW g, GeometryIsSound(g), NEW tracks, NEW i, NEW files, NEW dir, NEW slots,
           NEW chains, Holds(g, tracks, i, files, dir, slots, chains),
           NEW n \in 1 .. Len(files)
    PROVE  Contents(i, Listed(g, i)[n]) =
              [blocks |-> Whole(files[n]).data, last |-> files[n].last, agrees |-> TRUE]
<1>1. Shaped(g, i)
  BY DEF Holds
<1> DEFINE e == Listed(g, i)[n]
<1>2. e.start = chains[n][1] /\ e.blocks = files[n].blocks
  <2>1. e = [name |-> files[n].name, start |-> chains[n][1],
             blocks |-> files[n].blocks]
    BY HoldsEntry
  <2> QED BY <2>1
<1>3. files[n] \in Files /\ FileIsSound(g, tracks, i, files[n], chains[n])
  BY HoldsSound
<1> HIDE DEF e
<1>4. Contents(i, e) = [blocks |-> Whole(files[n]).data, last |-> files[n].last, agrees |-> TRUE]
  BY <1>1, <1>2, <1>3, FileContents
<1> QED BY <1>4 DEF e

(* All files of an image read back from it.                                *)
LEMMA HoldsReadsBack ==
    ASSUME NEW g, GeometryIsSound(g), NEW tracks, NEW i, NEW files, NEW dir, NEW slots,
           NEW chains, Holds(g, tracks, i, files, dir, slots, chains)
    PROVE  ReadsBack(g, i, files)
<1>1. Len(Listed(g, i)) = Len(files) /\ DOMAIN files = 1 .. Len(files)
  BY HoldsListed
<1>2. ASSUME NEW n \in 1 .. Len(files)
      PROVE  /\ Listed(g, i)[n].name = files[n].name
             /\ Contents(i, Listed(g, i)[n]) =
                   [blocks |-> Whole(files[n]).data, last |-> files[n].last, agrees |-> TRUE]
  <2>1. Listed(g, i)[n].name = files[n].name
    <3>1. Listed(g, i)[n] = [name |-> files[n].name, start |-> chains[n][1],
                             blocks |-> files[n].blocks]
      BY HoldsEntry
    <3> QED BY <3>1
  <2>2. Contents(i, Listed(g, i)[n]) =
           [blocks |-> Whole(files[n]).data, last |-> files[n].last, agrees |-> TRUE]
    BY HoldsContents
  <2> QED BY <2>1, <2>2
<1> QED BY <1>1, <1>2 DEF ReadsBack

(* What an image marks as used is what is used.                            *)
LEMMA HoldsMap ==
    ASSUME NEW g, GeometryIsSound(g), NEW tracks, NEW i, NEW files, NEW dir, NEW slots,
           NEW chains, Holds(g, tracks, i, files, dir, slots, chains)
    PROVE  /\ i.free = Sectors(g) \ InUse(g, i)
           /\ \A t \in Tracks(g) : i.room[t] = Cardinality({s \in i.free : s[1] = t})
<1>1. Directory(g, i) = dir
  <2>1. Shaped(g, i) /\ DirectoryIsSound(g, i, dir)
    BY DEF Holds
  <2> QED BY <2>1, DirectoryIs
<1>2. /\ DOMAIN Listed(g, i) = 1 .. Len(files)
      /\ \A n \in 1 .. Len(files) : Chain(i, Listed(g, i)[n].start) = chains[n]
  <2>1. DOMAIN Listed(g, i) = 1 .. Len(files)
    BY HoldsListed
  <2>2. ASSUME NEW n \in 1 .. Len(files)
        PROVE  Chain(i, Listed(g, i)[n].start) = chains[n]
    BY HoldsChain
  <2> QED BY <2>1, <2>2
<1>3. Len(chains) = Len(files)
  BY DEF Holds, FilesAreSound
<1>4. UNION {Range(Chain(i, e.start)) : e \in Range(Listed(g, i))} = UsedBy(chains)
  <2>1. {Range(Chain(i, e.start)) : e \in Range(Listed(g, i))} =
           {Range(chains[n]) : n \in 1 .. Len(chains)}
    <3>1. ASSUME NEW e \in Range(Listed(g, i))
          PROVE  Range(Chain(i, e.start)) \in {Range(chains[n]) : n \in 1 .. Len(chains)}
      <4>1. PICK n \in 1 .. Len(files) : e = Listed(g, i)[n]
        BY <1>2 DEF Range
      <4>2. Chain(i, e.start) = chains[n]
        BY <4>1, <1>2
      <4> QED BY <4>2, <1>3
    <3>2. ASSUME NEW n \in 1 .. Len(chains)
          PROVE  Range(chains[n]) \in {Range(Chain(i, e.start)) : e \in Range(Listed(g, i))}
      <4>1. Listed(g, i)[n] \in Range(Listed(g, i))
        BY <1>2, <1>3 DEF Range
      <4>2. Chain(i, Listed(g, i)[n].start) = chains[n]
        BY <1>2, <1>3
      <4> QED BY <4>1, <4>2
    <3> QED BY <3>1, <3>2
  <2> QED BY <2>1 DEF UsedBy
<1>5. i.free = Sectors(g) \ InUse(g, i)
  BY <1>1, <1>4 DEF InUse, Holds, MapIsSound
<1>6. \A t \in Tracks(g) : i.room[t] = Cardinality({s \in i.free : s[1] = t})
  BY DEF Holds, Counted, OnTrack
<1> QED BY <1>5, <1>6

-----------------------------------------------------------------------------
(* Fresh images.                                                           *)

(* The place of a sector in a sequence of different sectors.               *)
LEMMA PlaceIs ==
    ASSUME NEW S, NEW q \in Seq(S), Distinct(q), NEW n \in 1 .. Len(q)
    PROVE  Place(q, q[n]) = n
<1>1. DOMAIN q = 1 .. Len(q)
  BY LenProperties
<1>2. \A m \in 1 .. Len(q) : q[m] = q[n] => m = n
  BY DEF Distinct
<1> QED BY <1>1, <1>2 DEF Place

(* The first k elements of a finite set, in order.                         *)
LEMMA FirstSome ==
    ASSUME NEW S \in SUBSET Pairs, IsFiniteSet(S), NEW k \in 0 .. Cardinality(S)
    PROVE  /\ SubSeq(InOrder(S), 1, k) \in Seq(S)
           /\ Len(SubSeq(InOrder(S), 1, k)) = k
           /\ DOMAIN SubSeq(InOrder(S), 1, k) = 1 .. k
           /\ Distinct(SubSeq(InOrder(S), 1, k))
<1> DEFINE q == InOrder(S)
           c == Cardinality(S)
           h == SubSeq(q, 1, k)
<1>1. /\ q \in Seq(S) /\ Len(q) = c /\ c \in Nat
      /\ \A n \in 1 .. c : q[n] \in S
      /\ \A m, n \in 1 .. c : m < n => Before(q[m], q[n])
  BY InOrderIsSound
<1> HIDE DEF q, c
<1>2. k \in Nat /\ k <= c
  BY <1>1 DEF c
<1>3. /\ h \in Seq(S) /\ Len(h) = IF 1 <= k THEN k - 1 + 1 ELSE 0
      /\ \A n \in 1 .. k - 1 + 1 : h[n] = q[1 + n - 1]
  <2>1. \A n \in 1 .. k : q[n] \in S
    BY <1>1, <1>2
  <2>2. 1 \in Int /\ k \in Int
    BY <1>2
  <2> QED BY <2>1, <2>2, SubSeqProperties
<1> HIDE DEF h
<1>4. Len(h) = k /\ \A n \in 1 .. k : h[n] = q[n]
  BY <1>2, <1>3
<1>5. Distinct(h)
  <2> SUFFICES ASSUME NEW m \in 1 .. k, NEW n \in 1 .. k, h[m] = h[n], m # n
               PROVE  FALSE
    BY <1>4 DEF Distinct
  <2>1. m \in 1 .. c /\ n \in 1 .. c /\ q[m] = q[n] /\ (m < n \/ n < m)
    BY <1>1, <1>2, <1>4
  <2>2. q[m] \in Pairs /\ Before(q[m], q[m])
    BY <2>1, <1>1
  <2> QED BY <2>2, BeforeIsAnOrder
<1>6. DOMAIN h = 1 .. k
  BY <1>3, <1>4, LenProperties
<1> QED BY <1>3, <1>4, <1>5, <1>6 DEF h, q

(* The boot sectors are that many different ones.                          *)
LEMMA BootIs ==
           /\ BootSectors \in Seq(Sectors(D71))
           /\ Len(BootSectors) = BootBlocks
           /\ DOMAIN BootSectors = 1 .. BootBlocks
           /\ BootBlocks \in Nat
           /\ Distinct(BootSectors)
           /\ \A n \in 1 .. BootBlocks : Place(BootSectors, BootSectors[n]) = n
<1>1. GeometryIsSound(D71) /\ BootBlocks \in 1 .. Cardinality(Sectors(D71))
  BY DiskAssumption
<1>2. Sectors(D71) \in SUBSET Pairs /\ IsFiniteSet(Sectors(D71))
  BY <1>1, SectorsAreFinite
<1>3. Cardinality(Sectors(D71)) \in Nat
  BY <1>2, FS_CardinalityType
<1>4. BootBlocks \in 0 .. Cardinality(Sectors(D71)) /\ BootBlocks \in Nat
  BY <1>1, <1>3
<1>5. /\ BootSectors \in Seq(Sectors(D71)) /\ Len(BootSectors) = BootBlocks
      /\ DOMAIN BootSectors = 1 .. BootBlocks /\ Distinct(BootSectors)
  BY <1>2, <1>4, FirstSome DEF BootSectors
<1>6. \A n \in 1 .. BootBlocks : Place(BootSectors, BootSectors[n]) = n
  BY <1>5, PlaceIs
<1> QED BY <1>4, <1>5, <1>6

(* A formatted disk, and one with its boot sectors.                        *)
LEMMA BlankIs ==
    ASSUME NEW g, GeometryIsSound(g)
    PROVE  /\ Shaped(g, Blank(g)) /\ Counted(g, Blank(g))
           /\ Blank(g).free = Sectors(g) \ g.reserved
           /\ Blank(g).link[<<g.dir, g.first>>] = End(254)
           /\ \A s \in Sectors(g) : Blank(g).entries[s] = NoEntries
<1> DEFINE l == [s \in Sectors(g) |-> IF s = <<g.dir, g.first>> THEN End(254) ELSE <<0, 0>>]
           b == [s \in Sectors(g) |-> Nothing]
           e == [s \in Sectors(g) |-> NoEntries]
           x == [free |-> Sectors(g), room |-> g.count, link |-> l, block |-> b, entries |-> e]
<1>1. Blank(g) = AllMarked(x, g.reserved)
  BY DEF Blank
<1>2. /\ DOMAIN l = Sectors(g) /\ DOMAIN b = Sectors(g) /\ DOMAIN e = Sectors(g)
      /\ \A s \in Sectors(g) : e[s] = NoEntries /\ DOMAIN e[s] = 1 .. Slots
  BY DEF NoEntries
<1>3. <<g.dir, g.first>> \in Sectors(g)
  BY DEF GeometryIsSound
<1>4. l[<<g.dir, g.first>>] = End(254)
  BY <1>3
<1>5. /\ DOMAIN x = {"free", "room", "link", "block", "entries"}
      /\ x.free = Sectors(g) /\ x.room = g.count
      /\ x.link = l /\ x.block = b /\ x.entries = e
  <2> HIDE DEF l, b, e
  <2> QED OBVIOUS
<1>6. g.count \in [Tracks(g) -> Nat] /\ g.count \in [Tracks(g) -> Int]
  <2>1. g.count \in [Tracks(g) -> Nat]
    BY SectorsAreFinite
  <2> QED BY <2>1
<1> HIDE DEF x, l, b, e
<1>7. Shaped(g, x)
  BY <1>2, <1>5, <1>6 DEF Shaped, IsImage
<1>8. Counted(g, x)
  <2> SUFFICES ASSUME NEW t \in Tracks(g)
               PROVE  x.room[t] = Cardinality(OnTrack(x.free, t))
    BY DEF Counted
  <2>1. g.count[t] \in Nat
    BY <1>6
  <2>2. OnTrack(Sectors(g), t) = {t} \X (0 .. g.count[t] - 1)
    <3>1. ASSUME NEW s \in {t} \X (0 .. g.count[t] - 1)
          PROVE  s \in OnTrack(Sectors(g), t)
      <4>1. s[1] = t
        OBVIOUS
      <4>2. s \in Sectors(g)
        BY DEF Sectors
      <4> QED BY <4>1, <4>2 DEF OnTrack
    <3>2. ASSUME NEW s \in OnTrack(Sectors(g), t)
          PROVE  s \in {t} \X (0 .. g.count[t] - 1)
      <4>1. s \in Sectors(g) /\ s[1] = t
        BY DEF OnTrack
      <4>2. PICK u \in Tracks(g) : s \in {u} \X (0 .. g.count[u] - 1)
        BY <4>1 DEF Sectors
      <4>3. u = t
        BY <4>1, <4>2
      <4> QED BY <4>2, <4>3
    <3> QED BY <3>1, <3>2
  <2>3. /\ IsFiniteSet({t}) /\ Cardinality({t}) = 1
        /\ IsFiniteSet(0 .. g.count[t] - 1) /\ Cardinality(0 .. g.count[t] - 1) = g.count[t]
    <3>1. IsFiniteSet({t}) /\ Cardinality({t}) = 1
      BY FS_Singleton
    <3>2. 0 \in Int /\ g.count[t] - 1 \in Int
      BY <2>1
    <3>3. /\ IsFiniteSet(0 .. g.count[t] - 1)
          /\ Cardinality(0 .. g.count[t] - 1) =
                IF 0 > g.count[t] - 1 THEN 0 ELSE g.count[t] - 1 - 0 + 1
      BY <3>2, FS_Interval
    <3> QED BY <2>1, <3>1, <3>3
  <2>4. Cardinality({t} \X (0 .. g.count[t] - 1)) = 1 * g.count[t]
    <3>1. Cardinality({t} \X (0 .. g.count[t] - 1)) =
             Cardinality({t}) * Cardinality(0 .. g.count[t] - 1)
      BY <2>3, FS_Product
    <3> QED BY <2>3, <3>1
  <2>5. 1 * g.count[t] = g.count[t]
    BY <2>1
  <2> QED BY <2>2, <2>4, <2>5, <1>5
<1>9. /\ Shaped(g, AllMarked(x, g.reserved)) /\ Counted(g, AllMarked(x, g.reserved))
      /\ AllMarked(x, g.reserved).free = x.free \ g.reserved
      /\ AllMarked(x, g.reserved).link = x.link
      /\ AllMarked(x, g.reserved).entries = x.entries
  BY <1>7, <1>8, MarkingKeepsCounts
<1> QED BY <1>1, <1>2, <1>4, <1>5, <1>9

(* A formatted disk with its boot sectors written, on either geometry.     *)
LEMMA BootableIs ==
    ASSUME NEW g, GeometryIsSound(g)
    PROVE  /\ Shaped(g, Bootable(Blank(g))) /\ Counted(g, Bootable(Blank(g)))
           /\ Bootable(Blank(g)).free = Sectors(g) \ (g.reserved \union Range(BootSectors))
           /\ Bootable(Blank(g)).link[<<g.dir, g.first>>] = End(254)
           /\ \A s \in Sectors(g) : Bootable(Blank(g)).entries[s] = NoEntries
           /\ BootIsSound(Bootable(Blank(g)))
<1> DEFINE i == Blank(g)
           R == Range(BootSectors)
           j == AllMarked(i, R)
           b == [s \in DOMAIN j.block |-> IF s \in R THEN <<"boot", Place(BootSectors, s)>>
                                          ELSE j.block[s]]
           k == Bootable(i)
<1>1. Shaped(g, i) /\ Counted(g, i)
  BY BlankIs
<1>2. /\ i.free = Sectors(g) \ g.reserved
      /\ i.link[<<g.dir, g.first>>] = End(254)
      /\ \A s \in Sectors(g) : i.entries[s] = NoEntries
  BY BlankIs
<1>3. k = [j EXCEPT !.block = b]
  BY DEF Bootable
<1> HIDE DEF i
<1>4. /\ Shaped(g, j) /\ Counted(g, j) /\ j.free = i.free \ R /\ j.link = i.link
      /\ j.entries = i.entries
  BY <1>1, MarkingKeepsCounts
<1>5. IsImage(j) /\ DOMAIN j.block = Sectors(g)
  BY <1>4 DEF Shaped
<1>6. DOMAIN b = Sectors(g)
  BY <1>5
<1>7. \A n \in 1 .. BootBlocks : b[BootSectors[n]] = <<"boot", n>>
  <2> SUFFICES ASSUME NEW n \in 1 .. BootBlocks
               PROVE  b[BootSectors[n]] = <<"boot", n>>
    OBVIOUS
  <2>1. BootSectors[n] \in R /\ R \subseteq Sectors(g)
    BY BootIs DEF Range, GeometryIsSound
  <2>2. Place(BootSectors, BootSectors[n]) = n
    BY BootIs
  <2> HIDE DEF R, j
  <2> QED BY <2>1, <2>2, <1>5
<1> HIDE DEF b, j, k
<1>8. /\ IsImage(k) /\ k.free = j.free /\ k.room = j.room /\ k.link = j.link
      /\ k.entries = j.entries /\ k.block = b
  BY <1>3, <1>5 DEF IsImage
<1>9. Shaped(g, k)
  BY <1>4, <1>6, <1>8 DEF Shaped
<1>10. Counted(g, k)
  BY <1>4, <1>8 DEF Counted
<1>11. k.free = Sectors(g) \ (g.reserved \union R)
  BY <1>2, <1>4, <1>8
<1>12. BootIsSound(k)
  BY <1>7, <1>8 DEF BootIsSound
<1> QED BY <1>2, <1>4, <1>8, <1>9, <1>10, <1>11, <1>12 DEF k, i

(* A bootable disk without files holds no file.                            *)
LEMMA BlankHolds ==
    ASSUME NEW g, GeometryIsSound(g), NEW tracks
    PROVE  Holds(g, tracks, Bootable(Blank(g)), <<>>, <<<<g.dir, g.first>>>>, <<>>, <<>>)
<1> DEFINE k == Bootable(Blank(g))
           d == <<g.dir, g.first>>
           dir == <<d>>
<1>1. Shaped(g, k) /\ Counted(g, k) /\ BootIsSound(k)
  BY BootableIs
<1>2. /\ k.free = Sectors(g) \ (g.reserved \union Range(BootSectors))
      /\ k.link[d] = End(254)
      /\ \A s \in Sectors(g) : k.entries[s] = NoEntries
  BY BootableIs
<1> HIDE DEF k
<1>3. d \in DirectorySectors(g) /\ d \in g.reserved
  <2>1. d \in g.reserved /\ d \in Sectors(g)
    BY DEF GeometryIsSound
  <2>2. d[1] = g.dir /\ d[2] = g.first
    OBVIOUS
  <2>3. g.first \in Nat
    BY <2>1, SectorsAreFinite
  <2> QED BY <2>1, <2>2, <2>3 DEF DirectorySectors
<1> HIDE DEF d
<1>4. dir \in Seq(DirectorySectors(g)) /\ Len(dir) = 1 /\ dir[1] = d /\ DOMAIN dir = 1 .. 1
  BY <1>3
<1> HIDE DEF dir
<1>5. DirectoryIsSound(g, k, dir)
  <2>1. Distinct(dir)
    BY <1>4 DEF Distinct
  <2>2. Leads(k.link, dir)
    BY <1>2, <1>4 DEF Leads, End
  <2> QED BY <1>4, <2>1, <2>2 DEF DirectoryIsSound, d
<1>6. SlotsAreSound(k, <<>>, dir, <<>>, <<>>)
  <2>1. ASSUME NEW p \in AllSlots(dir)
        PROVE  k.entries[dir[p[1]]][p[2]] = Vacant
    <3>1. p[1] = 1 /\ p[2] \in 1 .. Slots
      BY <1>4 DEF AllSlots
    <3>2. dir[p[1]] \in Sectors(g)
      BY <3>1, <1>3, <1>4 DEF DirectorySectors
    <3>3. k.entries[dir[p[1]]] = NoEntries
      BY <3>2, <1>2
    <3>4. NoEntries[p[2]] = Vacant
      BY <3>1 DEF NoEntries
    <3> QED BY <3>3, <3>4
  <2>2. Len(<<>>) = 0 /\ <<>> \in Seq(AllSlots(dir))
    OBVIOUS
  <2>3. 1 .. Len(<<>>) = {} /\ Range(<<>>) = {}
    BY DEF Range
  <2> QED BY <2>1, <2>2, <2>3 DEF SlotsAreSound
<1>7. FilesAreSound(g, tracks, k, <<>>, <<>>)
  BY DEF FilesAreSound
<1>8. MapIsSound(g, k, dir, <<>>)
  <2>1. Range(dir) = {d}
    BY <1>4 DEF Range
  <2>2. UsedBy(<<>>) = {}
    BY DEF UsedBy
  <2> QED BY <2>1, <2>2, <1>2, <1>3 DEF MapIsSound
<1> QED BY <1>1, <1>5, <1>6, <1>7, <1>8 DEF Holds, k, dir, d

-----------------------------------------------------------------------------
(* The growth of a directory.                                              *)

(* FirstOf is the sector, or slot, that a loop over them reaches first.    *)
LEMMA FirstOfIs ==
    ASSUME NEW S \in SUBSET Pairs, IsFiniteSet(S), S # {}
    PROVE  /\ FirstOf(S) \in S
           /\ \A t \in S : t = FirstOf(S) \/ Before(FirstOf(S), t)
<1> DEFINE q == InOrder(S)
           c == Cardinality(S)
<1>1. /\ q \in Seq(S) /\ Len(q) = c /\ c \in Nat
      /\ \A n \in 1 .. c : q[n] \in S
      /\ Range(q) = S
      /\ \A m, n \in 1 .. c : m < n => Before(q[m], q[n])
  BY InOrderIsSound
<1>2. c # 0
  BY FS_EmptySet
<1>3. DOMAIN q = 1 .. c
  BY <1>1, LenProperties
<1>4. FirstOf(S) = q[1]
  BY DEF FirstOf
<1> HIDE DEF q, c
<1>5. \A t \in S : \E n \in 1 .. c : t = q[n]
  BY <1>1, <1>3 DEF Range
<1>6. 1 \in 1 .. c
  BY <1>1, <1>2
<1>7. ASSUME NEW t \in S
      PROVE  t = q[1] \/ Before(q[1], t)
  <2>1. PICK n \in 1 .. c : t = q[n]
    BY <1>5
  <2>2. n = 1 \/ 1 < n
    BY <1>1
  <2> QED BY <2>1, <2>2, <1>1, <1>6
<1> QED BY <1>1, <1>4, <1>6, <1>7

(* What is not changed where a file is leaves the file as it is.           *)
LEMMA FileStays ==
    ASSUME NEW g, NEW tracks, NEW i, NEW j, NEW f \in Files, NEW chain,
           FileIsSound(g, tracks, i, f, chain),
           \A s \in Range(chain) : j.link[s] = i.link[s] /\ j.block[s] = i.block[s]
    PROVE  FileIsSound(g, tracks, j, f, chain)
<1>1. /\ chain \in Seq(FileSectors(g)) /\ Len(chain) = f.blocks
      /\ \A n \in 1 .. Len(chain) : chain[n][1] \in tracks
      /\ Distinct(chain) /\ Leads(i.link, chain)
      /\ i.link[chain[Len(chain)]] = End(f.last)
      /\ \A n \in 1 .. Len(chain) : i.block[chain[n]] = <<f.name, n>>
  BY DEF FileIsSound
<1>2. f.blocks \in Nat \ {0}
  BY DiskAssumption
<1>3. DOMAIN chain = 1 .. Len(chain) /\ Len(chain) \in 1 .. Len(chain)
  BY <1>1, <1>2, LenProperties
<1>4. \A n \in 1 .. Len(chain) : /\ j.link[chain[n]] = i.link[chain[n]]
                                 /\ j.block[chain[n]] = i.block[chain[n]]
  BY <1>3 DEF Range
<1>5. Leads(j.link, chain)
  <2>1. \A n \in 1 .. Len(chain) - 1 : n \in 1 .. Len(chain)
    BY <1>1, <1>2
  <2> QED BY <2>1, <1>1, <1>3, <1>4 DEF Leads
<1>6. j.link[chain[Len(chain)]] = End(f.last)
  BY <1>1, <1>3, <1>4
<1>7. \A n \in 1 .. Len(chain) : j.block[chain[n]] = <<f.name, n>>
  BY <1>1, <1>4
<1> QED BY <1>1, <1>5, <1>6, <1>7 DEF FileIsSound

(* ... and so do all files of an image.                                    *)
LEMMA FilesStay ==
    ASSUME NEW g, NEW tracks, NEW i, NEW j, NEW files, NEW chains,
           FilesAreSound(g, tracks, i, files, chains),
           \A s \in UsedBy(chains) : j.link[s] = i.link[s] /\ j.block[s] = i.block[s]
    PROVE  FilesAreSound(g, tracks, j, files, chains)
<1>1. /\ files \in Seq(Files) /\ chains \in Seq(Seq(FileSectors(g))) /\ Len(chains) = Len(files)
      /\ \A n \in 1 .. Len(files) : FileIsSound(g, tracks, i, files[n], chains[n])
      /\ \A m, n \in 1 .. Len(files) : m # n => Range(chains[m]) \cap Range(chains[n]) = {}
  BY DEF FilesAreSound
<1>2. ASSUME NEW n \in 1 .. Len(files)
      PROVE  FileIsSound(g, tracks, j, files[n], chains[n])
  <2>1. files[n] \in Files /\ FileIsSound(g, tracks, i, files[n], chains[n])
    BY <1>1, LenProperties
  <2>2. \A s \in Range(chains[n]) : j.link[s] = i.link[s] /\ j.block[s] = i.block[s]
    BY <1>1 DEF UsedBy
  <2> QED BY <2>1, <2>2, FileStays
<1> QED BY <1>1, <1>2 DEF FilesAreSound

(* Where the parts of an image are.                                        *)
LEMMA PartsAreApart ==
    ASSUME NEW g, GeometryIsSound(g), NEW tracks, NEW i, NEW files, NEW dir, NEW slots,
           NEW chains, Holds(g, tracks, i, files, dir, slots, chains)
    PROVE  /\ \A s \in UsedBy(chains) : s \in FileSectors(g) /\ s \notin i.free
           /\ \A s \in Range(dir) : s \in DirectorySectors(g) /\ s \notin i.free
           /\ \A s \in Range(BootSectors) : s \in Sectors(g) /\ s \notin i.free /\ s[1] # g.dir
           /\ FileSectors(g) \cap DirectorySectors(g) = {}
           /\ i.free \in SUBSET Sectors(g) /\ i.free \in SUBSET Pairs /\ IsFiniteSet(i.free)
<1>1. /\ Shaped(g, i) /\ DirectoryIsSound(g, i, dir) /\ FilesAreSound(g, tracks, i, files, chains)
      /\ MapIsSound(g, i, dir, chains)
  BY DEF Holds
<1>2. chains \in Seq(Seq(FileSectors(g))) /\ dir \in Seq(DirectorySectors(g))
  BY <1>1 DEF FilesAreSound, DirectoryIsSound
<1>3. ASSUME NEW s \in UsedBy(chains)
      PROVE  s \in FileSectors(g)
  <2>1. PICK n \in 1 .. Len(chains) : s \in Range(chains[n])
    BY DEF UsedBy
  <2>2. chains[n] \in Seq(FileSectors(g))
    BY <1>2, LenProperties
  <2> QED BY <2>1, <2>2, RangeOfSeq
<1>4. \A s \in Range(dir) : s \in DirectorySectors(g)
  BY <1>2, RangeOfSeq
<1>5. /\ i.free \cap UsedBy(chains) = {} /\ i.free \cap Range(dir) = {}
      /\ i.free \cap Range(BootSectors) = {} /\ i.free \in SUBSET Sectors(g)
  BY <1>1 DEF MapIsSound
<1>6. \A s \in Range(BootSectors) : s \in Sectors(g) /\ s[1] # g.dir
  BY DEF GeometryIsSound
<1>7. FileSectors(g) \cap DirectorySectors(g) = {}
  BY DEF FileSectors, DirectorySectors
<1>8. Sectors(g) \in SUBSET Pairs /\ IsFiniteSet(Sectors(g))
  BY SectorsAreFinite
<1>9. IsFiniteSet(i.free)
  BY <1>5, <1>8, FS_Subset
<1> QED BY <1>3, <1>4, <1>5, <1>6, <1>7, <1>8, <1>9

(* A directory that has grown by a sector: the image links it, and it has  *)
(* vacant entries.                                                         *)
LEMMA LinkedIs ==
    ASSUME NEW g, GeometryIsSound(g), NEW i, Shaped(g, i), Counted(g, i),
           NEW dir, DirectoryIsSound(g, i, dir), NEW s \in Sectors(g), s \notin Range(dir)
    PROVE  /\ Shaped(g, Linked(g, i, s)) /\ Counted(g, Linked(g, i, s))
           /\ Linked(g, i, s).free = i.free
           /\ Linked(g, i, s).block = i.block
           /\ \A t \in Sectors(g) : t # s => Linked(g, i, s).entries[t] = i.entries[t]
           /\ Linked(g, i, s).entries[s] = NoEntries
           /\ \A t \in Sectors(g) :
                 t # s /\ t # dir[Len(dir)] => Linked(g, i, s).link[t] = i.link[t]
           /\ Linked(g, i, s).link[dir[Len(dir)]] = s
           /\ Linked(g, i, s).link[s] = End(254)
<1> DEFINE j == Linked(g, i, s)
           z == dir[Len(dir)]
           l == [i.link EXCEPT ![z] = s, ![s] = End(254)]
           e == [i.entries EXCEPT ![s] = NoEntries]
<1>1. Directory(g, i) = dir
  BY DirectoryIs
<1>2. IsImage(i) /\ DOMAIN i.link = Sectors(g) /\ DOMAIN i.entries = Sectors(g)
  BY DEF Shaped
<1>3. j = [i EXCEPT !.link = l, !.entries = e]
  BY <1>1, <1>2 DEF Linked, IsImage
<1>4. z \in Sectors(g) /\ z # s
  <2>1. dir \in Seq(DirectorySectors(g)) /\ Len(dir) >= 1
    BY DEF DirectoryIsSound
  <2>2. Len(dir) \in 1 .. Len(dir) /\ DOMAIN dir = 1 .. Len(dir)
    BY <2>1, LenProperties
  <2>3. z \in Range(dir) /\ z \in DirectorySectors(g)
    BY <2>1, <2>2, LenProperties DEF Range
  <2> HIDE DEF z
  <2> QED BY <2>3 DEF DirectorySectors
<1> HIDE DEF z
<1>5. /\ DOMAIN l = Sectors(g) /\ l[s] = End(254) /\ l[z] = s
      /\ \A t \in Sectors(g) : t # s /\ t # z => l[t] = i.link[t]
  BY <1>2, <1>4
<1>6. /\ DOMAIN e = Sectors(g) /\ e[s] = NoEntries
      /\ \A t \in Sectors(g) : t # s => e[t] = i.entries[t]
  BY <1>2
<1> HIDE DEF j, l, e
<1>7. /\ IsImage(j) /\ j.free = i.free /\ j.room = i.room /\ j.block = i.block
      /\ j.link = l /\ j.entries = e
  BY <1>2, <1>3 DEF IsImage
<1>8. \A t \in Sectors(g) : DOMAIN e[t] = 1 .. Slots
  <2>1. \A t \in Sectors(g) : DOMAIN i.entries[t] = 1 .. Slots
    BY DEF Shaped
  <2>2. DOMAIN NoEntries = 1 .. Slots
    BY DEF NoEntries
  <2> QED BY <2>1, <2>2, <1>6
<1>9. Shaped(g, j)
  BY <1>5, <1>6, <1>7, <1>8 DEF Shaped
<1>10. Counted(g, j)
  BY <1>7 DEF Counted
<1> QED BY <1>5, <1>6, <1>7, <1>9, <1>10 DEF j, z

(* A directory extended by a free sector of its track holds the same       *)
(* files, in the same slots and on the same sectors.                       *)
LEMMA Growing ==
    ASSUME NEW g, GeometryIsSound(g), NEW tracks, NEW i, NEW files, NEW dir, NEW slots,
           NEW chains, Holds(g, tracks, i, files, dir, slots, chains),
           NEW s \in Extensions(g, i)
    PROVE  Holds(g, tracks, AllMarked(Linked(g, i, s), {s}), files, Append(dir, s), slots, chains)
<1> DEFINE j == Linked(g, i, s)
           k == AllMarked(j, {s})
           c == Len(dir)
           z == dir[c]
           dir1 == Append(dir, s)
<1>1. /\ Shaped(g, i) /\ Counted(g, i) /\ DirectoryIsSound(g, i, dir)
      /\ SlotsAreSound(i, files, dir, slots, chains)
      /\ FilesAreSound(g, tracks, i, files, chains)
      /\ BootIsSound(i) /\ MapIsSound(g, i, dir, chains)
  BY DEF Holds
<1>2. /\ \A t \in UsedBy(chains) : t \in FileSectors(g) /\ t \notin i.free
      /\ \A t \in Range(dir) : t \in DirectorySectors(g) /\ t \notin i.free
      /\ \A t \in Range(BootSectors) : t \in Sectors(g) /\ t \notin i.free /\ t[1] # g.dir
      /\ FileSectors(g) \cap DirectorySectors(g) = {}
      /\ i.free \in SUBSET Sectors(g)
  BY PartsAreApart
<1>3. s \in i.free /\ s[1] = g.dir /\ s[2] > g.first
  BY DEF Extensions
<1>4. s \in Sectors(g) /\ s \notin Range(dir)
  BY <1>2, <1>3
<1>5. s \in DirectorySectors(g)
  <2>1. <<g.dir, g.first>> \in Sectors(g)
    BY DEF GeometryIsSound
  <2>2. g.first \in Nat /\ s[2] \in Nat
    BY <2>1, <1>4, SectorsAreFinite
  <2> QED BY <2>2, <1>3, <1>4 DEF DirectorySectors
<1>6. /\ Shaped(g, j) /\ Counted(g, j) /\ j.free = i.free /\ j.block = i.block
      /\ \A t \in Sectors(g) : t # s => j.entries[t] = i.entries[t]
      /\ j.entries[s] = NoEntries
      /\ \A t \in Sectors(g) : t # s /\ t # z => j.link[t] = i.link[t]
      /\ j.link[z] = s
      /\ j.link[s] = End(254)
  BY <1>1, <1>4, LinkedIs
<1> HIDE DEF j
<1>7. /\ Shaped(g, k) /\ Counted(g, k) /\ k.free = j.free \ {s} /\ k.link = j.link
      /\ k.block = j.block /\ k.entries = j.entries
  BY <1>6, MarkingKeepsCounts
<1> HIDE DEF k
<1>8. /\ dir \in Seq(DirectorySectors(g)) /\ c >= 1 /\ dir[1] = <<g.dir, g.first>>
      /\ Distinct(dir) /\ Leads(i.link, dir)
  BY <1>1 DEF DirectoryIsSound
<1>9. c \in Nat /\ DOMAIN dir = 1 .. c /\ \A n \in 1 .. c : dir[n] \in DirectorySectors(g)
  BY <1>8, LenProperties
<1>10. \A n \in 1 .. c : dir[n] \in Range(dir)
  BY <1>9 DEF Range
<1>11. /\ dir1 \in Seq(DirectorySectors(g)) /\ Len(dir1) = c + 1
       /\ \A n \in 1 .. c : dir1[n] = dir[n]
       /\ dir1[c + 1] = s
  BY <1>5, <1>8, AppendProperties
<1> HIDE DEF dir1
<1>12. DOMAIN dir1 = 1 .. c + 1
  BY <1>11, LenProperties
<1>13. Range(dir1) = Range(dir) \union {s}
  <2>1. \A n \in 1 .. c + 1 : n = c + 1 \/ n \in 1 .. c
    BY <1>9
  <2>2. c + 1 \in 1 .. c + 1 /\ \A n \in 1 .. c : n \in 1 .. c + 1
    BY <1>9
  <2> QED BY <2>1, <2>2, <1>9, <1>11, <1>12 DEF Range
<1>14. DirectoryIsSound(g, k, dir1)
  <2>1. Distinct(dir1)
    <3> SUFFICES ASSUME NEW m \in 1 .. c + 1, NEW n \in 1 .. c + 1, dir1[m] = dir1[n]
                 PROVE  m = n
      BY <1>11 DEF Distinct
    <3>1. CASE m \in 1 .. c /\ n \in 1 .. c
      BY <3>1, <1>8, <1>11 DEF Distinct
    <3>2. CASE m \in 1 .. c /\ n = c + 1
      BY <3>2, <1>4, <1>10, <1>11
    <3>3. CASE m = c + 1 /\ n \in 1 .. c
      BY <3>3, <1>4, <1>10, <1>11
    <3> QED BY <3>1, <3>2, <3>3, <1>9
  <2>2. Leads(k.link, dir1)
    <3>1. \A n \in 1 .. c - 1 : i.link[dir[n]] = dir[n + 1]
      BY <1>8 DEF Leads
    <3>2. ASSUME NEW n \in 1 .. c
          PROVE  k.link[dir1[n]] = dir1[n + 1]
      <4>1. CASE n = c
        <5>1. dir1[n] = z /\ dir1[n + 1] = s
          BY <4>1, <1>11
        <5>2. k.link[z] = s
          BY <1>6, <1>7
        <5> QED BY <5>1, <5>2
      <4>2. CASE n # c
        <5>1. n \in 1 .. c - 1 /\ n + 1 \in 1 .. c /\ c \in 1 .. c
          <6>1. c \in Nat /\ n \in 1 .. c /\ n # c
            BY <4>2, <1>9
          <6> HIDE DEF c
          <6> QED BY <6>1
        <5>2. dir[n] # z /\ dir[n] # s /\ dir[n] \in Sectors(g)
          <6>1. dir[n] # z
            BY <5>1, <4>2, <1>8 DEF Distinct
          <6>2. dir[n] # s
            BY <1>4, <1>10
          <6>3. dir[n] \in Sectors(g)
            BY <1>9 DEF DirectorySectors
          <6> QED BY <6>1, <6>2, <6>3
        <5>3. k.link[dir[n]] = i.link[dir[n]]
          BY <5>2, <1>6, <1>7
        <5>4. dir1[n] = dir[n] /\ dir1[n + 1] = dir[n + 1] /\ i.link[dir[n]] = dir[n + 1]
          BY <5>1, <3>1, <1>11
        <5> QED BY <5>3, <5>4
      <4> QED BY <4>1, <4>2
    <3>3. Len(dir1) - 1 = c
      BY <1>9, <1>11
    <3>4. k.link[dir1[Len(dir1)]][1] = 0
      BY <1>6, <1>7, <1>11 DEF End
    <3> QED BY <3>2, <3>3, <3>4 DEF Leads
  <2>3. dir1[1] = <<g.dir, g.first>> /\ Len(dir1) >= 1
    BY <1>8, <1>9, <1>11
  <2> QED BY <2>1, <2>2, <2>3, <1>11 DEF DirectoryIsSound
<1>15. SlotsAreSound(k, files, dir1, slots, chains)
  <2>1. /\ slots \in Seq(AllSlots(dir)) /\ Len(slots) = Len(files)
        /\ \A m, n \in 1 .. Len(slots) : m < n => Before(slots[m], slots[n])
        /\ \A n \in 1 .. Len(slots) :
              i.entries[dir[slots[n][1]]][slots[n][2]] =
                 [name |-> files[n].name, start |-> chains[n][1], blocks |-> files[n].blocks]
        /\ \A p \in AllSlots(dir) \ Range(slots) :
              /\ i.entries[dir[p[1]]][p[2]] = Vacant
              /\ \A n \in 1 .. Len(slots) : Before(slots[n], p)
    BY <1>1 DEF SlotsAreSound
  <2>2. \A n \in 1 .. Len(slots) : slots[n] \in AllSlots(dir)
    BY <2>1, LenProperties
  <2>3. \A p \in AllSlots(dir) : p[1] \in 1 .. c /\ p[2] \in 1 .. Slots
    BY DEF AllSlots
  <2>4. \A n \in 1 .. c : k.entries[dir1[n]] = i.entries[dir[n]]
    <3> SUFFICES ASSUME NEW n \in 1 .. c
                 PROVE  k.entries[dir1[n]] = i.entries[dir[n]]
      OBVIOUS
    <3>1. dir1[n] = dir[n] /\ dir[n] # s
      BY <1>4, <1>10, <1>11
    <3>2. dir[n] \in Sectors(g)
      BY <1>9 DEF DirectorySectors
    <3> QED BY <3>1, <3>2, <1>6, <1>7
  <2>5. AllSlots(dir) \subseteq AllSlots(dir1)
    BY <1>9, <1>11 DEF AllSlots
  <2>6. slots \in Seq(AllSlots(dir1))
    BY <2>1, <2>5, SeqMonotonic
  <2>7. ASSUME NEW n \in 1 .. Len(slots)
        PROVE  k.entries[dir1[slots[n][1]]][slots[n][2]] =
                 [name |-> files[n].name, start |-> chains[n][1], blocks |-> files[n].blocks]
    <3>1. slots[n][1] \in 1 .. c
      BY <2>2, <2>3
    <3>2. k.entries[dir1[slots[n][1]]] = i.entries[dir[slots[n][1]]]
      BY <3>1, <2>4
    <3> QED BY <3>2, <2>1
  <2>8. ASSUME NEW p \in AllSlots(dir1) \ Range(slots)
        PROVE  /\ k.entries[dir1[p[1]]][p[2]] = Vacant
               /\ \A n \in 1 .. Len(slots) : Before(slots[n], p)
    <3>1. p[1] \in 1 .. c + 1 /\ p[2] \in 1 .. Slots /\ p = <<p[1], p[2]>>
      BY <1>11 DEF AllSlots
    <3>2. CASE p[1] \in 1 .. c
      <4>1. p \in AllSlots(dir) \ Range(slots)
        BY <3>1, <3>2 DEF AllSlots
      <4>2. k.entries[dir1[p[1]]] = i.entries[dir[p[1]]]
        BY <3>2, <2>4
      <4> QED BY <4>1, <4>2, <2>1
    <3>3. CASE p[1] = c + 1
      <4>1. k.entries[dir1[p[1]]][p[2]] = Vacant
        <5>1. dir1[p[1]] = s
          BY <3>3, <1>11
        <5>2. k.entries[s] = NoEntries
          BY <1>6, <1>7
        <5>3. NoEntries[p[2]] = Vacant
          BY <3>1 DEF NoEntries
        <5> QED BY <5>1, <5>2, <5>3
      <4>2. ASSUME NEW n \in 1 .. Len(slots)
            PROVE  Before(slots[n], p)
        <5>1. slots[n][1] \in 1 .. c
          BY <2>2, <2>3
        <5>2. slots[n][1] < p[1]
          BY <5>1, <3>3, <1>9
        <5> QED BY <5>2 DEF Before
      <4> QED BY <4>1, <4>2
    <3> QED BY <3>1, <3>2, <3>3, <1>9
  <2> QED BY <2>1, <2>6, <2>7, <2>8 DEF SlotsAreSound
<1>16. FilesAreSound(g, tracks, k, files, chains)
  <2>1. ASSUME NEW t \in UsedBy(chains)
        PROVE  k.link[t] = i.link[t] /\ k.block[t] = i.block[t]
    <3>1. t \in FileSectors(g) /\ t \in Sectors(g) /\ t # s
      BY <1>2, <1>3 DEF FileSectors
    <3>2. z \in DirectorySectors(g)
      BY <1>8, <1>9
    <3>3. t # z
      BY <3>1, <3>2, <1>2
    <3> QED BY <3>1, <3>3, <1>6, <1>7
  <2> QED BY <2>1, <1>1, FilesStay
<1>17. BootIsSound(k)
  BY <1>1, <1>6, <1>7 DEF BootIsSound
<1>18. MapIsSound(g, k, dir1, chains)
  BY <1>1, <1>6, <1>7, <1>13 DEF MapIsSound
<1> QED BY <1>7, <1>14, <1>15, <1>16, <1>17, <1>18 DEF Holds, k, j, dir1

(* Extended leaves a vacant entry, whether the directory had one or has    *)
(* grown by a sector.                                                      *)
LEMMA ExtendedHolds ==
    ASSUME NEW g, GeometryIsSound(g), NEW tracks, NEW i, NEW files, NEW dir, NEW slots,
           NEW chains, Holds(g, tracks, i, files, dir, slots, chains),
           Vacancies(g, i) # {} \/ Extensions(g, i) # {}
    PROVE  \E dir1 : /\ Holds(g, tracks, Extended(g, i), files, dir1, slots, chains)
                     /\ Vacancies(g, Extended(g, i)) # {}
<1>1. CASE Vacancies(g, i) # {}
  <2>1. Extended(g, i) = i
    BY <1>1 DEF Extended
  <2> QED BY <1>1, <2>1
<1>2. CASE Vacancies(g, i) = {}
  <2> DEFINE s == FirstOf(Extensions(g, i))
             k == AllMarked(Linked(g, i, s), {s})
             dir1 == Append(dir, s)
  <2>1. Extended(g, i) = k
    BY <1>2 DEF Extended
  <2>2. s \in Extensions(g, i)
    <3>1. i.free \in SUBSET Pairs /\ IsFiniteSet(i.free)
      BY PartsAreApart
    <3>2. Extensions(g, i) \in SUBSET i.free
      BY DEF Extensions
    <3>3. Extensions(g, i) \in SUBSET Pairs /\ IsFiniteSet(Extensions(g, i))
      BY <3>1, <3>2, FS_Subset
    <3> QED BY <3>3, <1>2, FirstOfIs
  <2> HIDE DEF s
  <2>3. Holds(g, tracks, k, files, dir1, slots, chains)
    BY <2>2, Growing
  <2>4. /\ Shaped(g, i) /\ DirectoryIsSound(g, i, dir)
        /\ SlotsAreSound(i, files, dir, slots, chains)
    BY DEF Holds
  <2>5. dir \in Seq(DirectorySectors(g)) /\ slots \in Seq(AllSlots(dir))
    BY <2>4 DEF DirectoryIsSound, SlotsAreSound
  <2>6. Len(dir) \in Nat /\ Len(dir1) = Len(dir) + 1
    BY <2>5, LenProperties
  <2> HIDE DEF k, dir1
  <2>7. /\ Shaped(g, k) /\ DirectoryIsSound(g, k, dir1)
        /\ SlotsAreSound(k, files, dir1, slots, chains) /\ files \in Seq(Files)
    BY <2>3 DEF Holds, FilesAreSound
  <2>8. Vacancies(g, k) = AllSlots(dir1) \ Range(slots)
    BY <2>7, TakenIs
  <2>9. <<Len(dir) + 1, 1>> \in AllSlots(dir1)
    BY <2>6, DiskAssumption DEF AllSlots
  <2>10. <<Len(dir) + 1, 1>> \notin AllSlots(dir)
    BY <2>6 DEF AllSlots
  <2>11. Range(slots) \subseteq AllSlots(dir)
    BY <2>5, RangeOfSeq
  <2>12. Vacancies(g, k) # {}
    BY <2>8, <2>9, <2>10, <2>11
  <2> QED BY <2>1, <2>3, <2>12
<1> QED BY <1>1, <1>2

(* The growth of a directory takes no sector from the files.               *)
LEMMA AvailableStays ==
    ASSUME NEW g, GeometryIsSound(g), NEW tracks, NEW i, NEW files, NEW dir, NEW slots,
           NEW chains, Holds(g, tracks, i, files, dir, slots, chains),
           Vacancies(g, i) # {} \/ Extensions(g, i) # {}, NEW more
    PROVE  Available(g, Extended(g, i), more) = Available(g, i, more)
<1>1. CASE Vacancies(g, i) # {}
  BY <1>1 DEF Extended
<1>2. CASE Vacancies(g, i) = {}
  <2> DEFINE s == FirstOf(Extensions(g, i))
             j == Linked(g, i, s)
             k == AllMarked(j, {s})
  <2>1. Extended(g, i) = k
    BY <1>2 DEF Extended
  <2>2. s \in Extensions(g, i)
    <3>1. i.free \in SUBSET Pairs /\ IsFiniteSet(i.free)
      BY PartsAreApart
    <3>2. Extensions(g, i) \in SUBSET i.free
      BY DEF Extensions
    <3>3. Extensions(g, i) \in SUBSET Pairs /\ IsFiniteSet(Extensions(g, i))
      BY <3>1, <3>2, FS_Subset
    <3> QED BY <3>3, <1>2, FirstOfIs
  <2> HIDE DEF s
  <2>3. s \in i.free /\ s[1] = g.dir
    BY <2>2 DEF Extensions
  <2>4. s \in Sectors(g) /\ s \notin Range(dir)
    BY <2>3, PartsAreApart
  <2>5. Shaped(g, i) /\ Counted(g, i) /\ DirectoryIsSound(g, i, dir)
    BY DEF Holds
  <2>6. Shaped(g, j) /\ Counted(g, j) /\ j.free = i.free
    BY <2>4, <2>5, LinkedIs
  <2> HIDE DEF j
  <2>7. k.free = j.free \ {s}
    BY <2>6, MarkingKeepsCounts
  <2> HIDE DEF k
  <2> QED BY <2>1, <2>3, <2>6, <2>7 DEF Available
<1> QED BY <1>1, <1>2

-----------------------------------------------------------------------------
(* The installation of a file.                                             *)

(* The blocks of a file on sectors that were free.                         *)
LEMMA WrittenIs ==
    ASSUME NEW g, GeometryIsSound(g), NEW i, Shaped(g, i), Counted(g, i),
           NEW f \in Files, NEW at \in Seq(Sectors(g)), Len(at) = f.blocks, Distinct(at)
    PROVE  /\ Shaped(g, Written(i, Whole(f), at)) /\ Counted(g, Written(i, Whole(f), at))
           /\ Written(i, Whole(f), at).free = i.free \ Range(at)
           /\ Written(i, Whole(f), at).entries = i.entries
           /\ \A s \in Sectors(g) \ Range(at) :
                 /\ Written(i, Whole(f), at).link[s] = i.link[s]
                 /\ Written(i, Whole(f), at).block[s] = i.block[s]
           /\ \A n \in 1 .. f.blocks - 1 : Written(i, Whole(f), at).link[at[n]] = at[n + 1]
           /\ Written(i, Whole(f), at).link[at[f.blocks]] = End(f.last)
           /\ \A n \in 1 .. f.blocks : Written(i, Whole(f), at).block[at[n]] = <<f.name, n>>
<1> DEFINE w == Whole(f)
           R == Range(at)
           j == AllMarked(i, R)
           l == [s \in DOMAIN j.link |->
                    IF s \notin R THEN j.link[s]
                    ELSE IF Place(at, s) < Len(at) THEN at[Place(at, s) + 1] ELSE End(w.last)]
           b == [s \in DOMAIN j.block |->
                    IF s \notin R THEN j.block[s] ELSE w.data[Place(at, s)]]
           k == Written(i, w, at)
<1>1. /\ Shaped(g, j) /\ Counted(g, j) /\ j.free = i.free \ R /\ j.link = i.link
      /\ j.block = i.block /\ j.entries = i.entries
  BY MarkingKeepsCounts
<1>2. k = [j EXCEPT !.link = l, !.block = b]
  <2>1. IsImage(j)
    BY <1>1 DEF Shaped
  <2> QED BY <2>1 DEF Written, IsImage
<1>3. w.last = f.last /\ w.data = [n \in 1 .. f.blocks |-> <<f.name, n>>]
  BY DEF Whole
<1> HIDE DEF w, j
<1>4. IsImage(j) /\ DOMAIN j.link = Sectors(g) /\ DOMAIN j.block = Sectors(g)
  BY <1>1 DEF Shaped
<1>5. f.blocks \in Nat \ {0} /\ DOMAIN at = 1 .. f.blocks
  BY DiskAssumption, LenProperties
<1>6. \A n \in 1 .. f.blocks : at[n] \in R /\ at[n] \in Sectors(g) /\ Place(at, at[n]) = n
  BY <1>5, LenProperties, PlaceIs DEF Range
<1> HIDE DEF R
<1>7. /\ DOMAIN l = Sectors(g) /\ DOMAIN b = Sectors(g)
      /\ \A s \in Sectors(g) \ R : l[s] = i.link[s] /\ b[s] = i.block[s]
  BY <1>1, <1>4
<1>8. ASSUME NEW n \in 1 .. f.blocks
      PROVE  l[at[n]] = IF n < f.blocks THEN at[n + 1] ELSE End(f.last)
  BY <1>3, <1>4, <1>6
<1>9. ASSUME NEW n \in 1 .. f.blocks
      PROVE  b[at[n]] = <<f.name, n>>
  BY <1>3, <1>4, <1>6
<1> HIDE DEF l, b, k
<1>10. /\ IsImage(k) /\ k.free = j.free /\ k.room = j.room /\ k.entries = j.entries
       /\ k.link = l /\ k.block = b
  BY <1>2, <1>4 DEF IsImage
<1>11. Shaped(g, k)
  BY <1>1, <1>7, <1>10 DEF Shaped
<1>12. Counted(g, k)
  BY <1>1, <1>10 DEF Counted
<1>13. k.free = i.free \ R /\ k.entries = i.entries
  BY <1>1, <1>10
<1>14. \A s \in Sectors(g) \ R : k.link[s] = i.link[s] /\ k.block[s] = i.block[s]
  BY <1>7, <1>10
<1>15. \A n \in 1 .. f.blocks - 1 : k.link[at[n]] = at[n + 1]
  <2> SUFFICES ASSUME NEW n \in 1 .. f.blocks - 1
               PROVE  k.link[at[n]] = at[n + 1]
    OBVIOUS
  <2>1. n \in 1 .. f.blocks /\ n < f.blocks
    BY <1>5
  <2> QED BY <2>1, <1>8, <1>10
<1>16. k.link[at[f.blocks]] = End(f.last)
  <2>1. f.blocks \in 1 .. f.blocks /\ ~(f.blocks < f.blocks)
    BY <1>5
  <2> QED BY <2>1, <1>8, <1>10
<1>17. \A n \in 1 .. f.blocks : k.block[at[n]] = <<f.name, n>>
  BY <1>9, <1>10
<1> QED BY <1>11, <1>12, <1>13, <1>14, <1>15, <1>16, <1>17 DEF k, w, R

(* What is available to a file is for files, and apart from what is used.  *)
LEMMA AvailableIs ==
    ASSUME NEW g, GeometryIsSound(g), NEW tracks, NEW i, NEW files, NEW dir, NEW slots,
           NEW chains, Holds(g, tracks, i, files, dir, slots, chains), NEW more
    PROVE  /\ Available(g, i, more) \subseteq FileSectors(g)
           /\ Available(g, i, more) \subseteq i.free
           /\ Available(g, i, more) \in SUBSET Pairs /\ IsFiniteSet(Available(g, i, more))
           /\ \A s \in Available(g, i, more) : s[1] \in more
<1> DEFINE A == Available(g, i, more)
<1>1. MapIsSound(g, i, dir, chains)
  BY DEF Holds
<1>2. A \subseteq FileSectors(g)
  BY <1>1 DEF Available, FileSectors, MapIsSound
<1>3. A \in SUBSET i.free /\ \A s \in A : s[1] \in more
  BY DEF Available
<1>4. i.free \in SUBSET Pairs /\ IsFiniteSet(i.free)
  BY PartsAreApart
<1> HIDE DEF A
<1>5. IsFiniteSet(A)
  BY <1>3, <1>4, FS_Subset
<1> QED BY <1>2, <1>3, <1>4, <1>5 DEF A

(* The sectors of a file more.                                             *)
LEMMA UsedByAppend ==
    ASSUME NEW S, NEW chains \in Seq(S), NEW at \in S
    PROVE  UsedBy(Append(chains, at)) = UsedBy(chains) \union Range(at)
<1> DEFINE c == Len(chains)
           all == Append(chains, at)
<1>1. c \in Nat
  BY LenProperties
<1>2. Len(all) = c + 1 /\ (\A n \in 1 .. c : all[n] = chains[n]) /\ all[c + 1] = at
  BY AppendProperties
<1> HIDE DEF c, all
<1>3. \A n \in 1 .. c + 1 : n = c + 1 \/ n \in 1 .. c
  BY <1>1
<1>4. c + 1 \in 1 .. c + 1 /\ \A n \in 1 .. c : n \in 1 .. c + 1
  BY <1>1
<1>5. UNION {Range(all[n]) : n \in 1 .. c + 1} =
         (UNION {Range(chains[n]) : n \in 1 .. c}) \union Range(at)
  BY <1>2, <1>3, <1>4
<1> QED BY <1>2, <1>5 DEF UsedBy, c, all

(* A file written to available sectors is sound, and the others stay.      *)
LEMMA Writing ==
    ASSUME NEW g, GeometryIsSound(g), NEW tracks, NEW i, NEW files, NEW dir, NEW slots,
           NEW chains, Holds(g, tracks, i, files, dir, slots, chains),
           NEW f \in Files, NEW at \in Seq(Available(g, i, tracks)), Len(at) = f.blocks,
           Distinct(at)
    PROVE  LET j == Written(i, Whole(f), at)
           IN  /\ Shaped(g, j) /\ Counted(g, j)
               /\ DirectoryIsSound(g, j, dir)
               /\ SlotsAreSound(j, files, dir, slots, chains)
               /\ FilesAreSound(g, tracks, j, Append(files, f), Append(chains, at))
               /\ BootIsSound(j)
               /\ MapIsSound(g, j, dir, Append(chains, at))
<1> DEFINE j == Written(i, Whole(f), at)
           R == Range(at)
           A == Available(g, i, tracks)
           chains1 == Append(chains, at)
           files1 == Append(files, f)
<1>1. /\ Shaped(g, i) /\ Counted(g, i) /\ DirectoryIsSound(g, i, dir)
      /\ SlotsAreSound(i, files, dir, slots, chains)
      /\ FilesAreSound(g, tracks, i, files, chains)
      /\ BootIsSound(i) /\ MapIsSound(g, i, dir, chains)
  BY DEF Holds
<1>2. /\ \A s \in UsedBy(chains) : s \in FileSectors(g) /\ s \notin i.free
      /\ \A s \in Range(dir) : s \in DirectorySectors(g) /\ s \notin i.free
      /\ \A s \in Range(BootSectors) : s \in Sectors(g) /\ s \notin i.free
  BY PartsAreApart
<1>3. /\ A \subseteq FileSectors(g) /\ A \subseteq i.free
      /\ \A s \in A : s[1] \in tracks
  BY AvailableIs
<1>4. at \in Seq(FileSectors(g)) /\ at \in Seq(A)
  <2>1. at \in Seq(FileSectors(g))
    BY <1>3, SeqMonotonic
  <2> QED BY <2>1
<1>5. R \subseteq A
  BY <1>4, RangeOfSeq
<1>6. at \in Seq(Sectors(g)) /\ FileSectors(g) \subseteq Sectors(g)
  <2>1. FileSectors(g) \subseteq Sectors(g)
    BY DEF FileSectors
  <2> QED BY <2>1, <1>4, SeqMonotonic
<1>7. /\ Shaped(g, j) /\ Counted(g, j) /\ j.free = i.free \ R /\ j.entries = i.entries
      /\ \A s \in Sectors(g) \ R : j.link[s] = i.link[s] /\ j.block[s] = i.block[s]
      /\ \A n \in 1 .. f.blocks - 1 : j.link[at[n]] = at[n + 1]
      /\ j.link[at[f.blocks]] = End(f.last)
      /\ \A n \in 1 .. f.blocks : j.block[at[n]] = <<f.name, n>>
  BY <1>1, <1>6, WrittenIs
<1> HIDE DEF j, A
<1>8. DirectoryIsSound(g, j, dir)
  <2>1. /\ dir \in Seq(DirectorySectors(g)) /\ Len(dir) >= 1
        /\ dir[1] = <<g.dir, g.first>> /\ Distinct(dir) /\ Leads(i.link, dir)
    BY <1>1 DEF DirectoryIsSound
  <2>2. DOMAIN dir = 1 .. Len(dir) /\ Len(dir) \in 1 .. Len(dir) /\ Len(dir) \in Nat
    BY <2>1, LenProperties
  <2>3. \A n \in 1 .. Len(dir) : j.link[dir[n]] = i.link[dir[n]]
    <3>1. \A n \in 1 .. Len(dir) : dir[n] \in Range(dir)
      BY <2>2 DEF Range
    <3>2. \A s \in Range(dir) : s \in Sectors(g) \ R
      BY <1>2, <1>3, <1>5 DEF DirectorySectors
    <3> QED BY <3>1, <3>2, <1>7
  <2>4. \A n \in 1 .. Len(dir) - 1 : n \in 1 .. Len(dir)
    BY <2>2
  <2>5. Leads(j.link, dir)
    BY <2>1, <2>2, <2>3, <2>4 DEF Leads
  <2> QED BY <2>1, <2>5 DEF DirectoryIsSound
<1>9. SlotsAreSound(j, files, dir, slots, chains)
  BY <1>1, <1>7 DEF SlotsAreSound
<1>10. FileIsSound(g, tracks, j, f, at)
  <2>1. f.blocks \in Nat \ {0} /\ DOMAIN at = 1 .. Len(at)
    BY <1>4, DiskAssumption, LenProperties
  <2>2. \A n \in 1 .. Len(at) : at[n][1] \in tracks
    BY <1>3, <1>5, <2>1 DEF Range
  <2>3. Leads(j.link, at)
    BY <1>7 DEF Leads, End
  <2> QED BY <1>4, <1>7, <2>2, <2>3 DEF FileIsSound
<1>11. FilesAreSound(g, tracks, j, files, chains)
  <2>1. ASSUME NEW s \in UsedBy(chains)
        PROVE  j.link[s] = i.link[s] /\ j.block[s] = i.block[s]
    <3>1. s \in Sectors(g) \ R
      BY <1>2, <1>3, <1>5, <1>6
    <3> QED BY <3>1, <1>7
  <2> QED BY <2>1, <1>1, FilesStay
<1>12. /\ files \in Seq(Files) /\ chains \in Seq(Seq(FileSectors(g)))
       /\ Len(chains) = Len(files)
       /\ \A n \in 1 .. Len(files) : FileIsSound(g, tracks, j, files[n], chains[n])
       /\ \A m, n \in 1 .. Len(files) : m # n => Range(chains[m]) \cap Range(chains[n]) = {}
  BY <1>11 DEF FilesAreSound
<1>13. FilesAreSound(g, tracks, j, files1, chains1)
  <2> DEFINE c == Len(files)
  <2>1. c \in Nat
    BY <1>12, LenProperties
  <2>2. /\ files1 \in Seq(Files) /\ Len(files1) = c + 1
        /\ (\A n \in 1 .. c : files1[n] = files[n]) /\ files1[c + 1] = f
    BY <1>12, AppendProperties
  <2>3. /\ chains1 \in Seq(Seq(FileSectors(g))) /\ Len(chains1) = c + 1
        /\ (\A n \in 1 .. c : chains1[n] = chains[n]) /\ chains1[c + 1] = at
    BY <1>4, <1>12, AppendProperties
  <2>4. \A n \in 1 .. c : Range(chains[n]) \cap R = {}
    <3>1. \A n \in 1 .. c : Range(chains[n]) \subseteq UsedBy(chains)
      BY <1>12 DEF UsedBy
    <3> QED BY <3>1, <1>2, <1>3, <1>5
  <2> HIDE DEF c, files1, chains1
  <2>5. \A n \in 1 .. c + 1 : n = c + 1 \/ n \in 1 .. c
    BY <2>1
  <2>6. ASSUME NEW n \in 1 .. c + 1
        PROVE  FileIsSound(g, tracks, j, files1[n], chains1[n])
    <3>1. CASE n = c + 1
      BY <3>1, <2>2, <2>3, <1>10
    <3>2. CASE n \in 1 .. c
      BY <3>2, <2>2, <2>3, <1>12 DEF c
    <3> QED BY <3>1, <3>2, <2>5
  <2>7. ASSUME NEW m \in 1 .. c + 1, NEW n \in 1 .. c + 1, m # n
        PROVE  Range(chains1[m]) \cap Range(chains1[n]) = {}
    <3>1. CASE m \in 1 .. c /\ n \in 1 .. c
      BY <3>1, <2>7, <2>3, <1>12 DEF c
    <3>2. CASE m = c + 1 /\ n \in 1 .. c
      BY <3>2, <2>3, <2>4
    <3>3. CASE m \in 1 .. c /\ n = c + 1
      BY <3>3, <2>3, <2>4
    <3> QED BY <3>1, <3>2, <3>3, <2>5, <2>7
  <2> QED BY <2>2, <2>3, <2>6, <2>7 DEF FilesAreSound
<1>14. BootIsSound(j)
  <2>1. ASSUME NEW n \in 1 .. BootBlocks
        PROVE  j.block[BootSectors[n]] = <<"boot", n>>
    <3>1. BootSectors[n] \in Range(BootSectors)
      BY BootIs DEF Range
    <3>2. BootSectors[n] \in Sectors(g) \ R
      BY <3>1, <1>2, <1>3, <1>5
    <3> QED BY <3>2, <1>1, <1>7 DEF BootIsSound
  <2> QED BY <2>1 DEF BootIsSound
<1>15. MapIsSound(g, j, dir, chains1)
  <2>1. UsedBy(chains1) = UsedBy(chains) \union R
    BY <1>4, <1>12, UsedByAppend
  <2> HIDE DEF chains1, R
  <2> QED BY <2>1, <1>1, <1>7 DEF MapIsSound
<1> QED BY <1>7, <1>8, <1>9, <1>13, <1>14, <1>15 DEF j

(* The entry of a file in the first vacant slot.                           *)
LEMMA Entering ==
    ASSUME NEW g, GeometryIsSound(g), NEW tracks, NEW j, NEW files \in Seq(Files),
           NEW dir, NEW slots, NEW S, NEW chains \in Seq(S), NEW f \in Files, NEW at \in S,
           Shaped(g, j), Counted(g, j), DirectoryIsSound(g, j, dir),
           SlotsAreSound(j, files, dir, slots, chains), Len(chains) = Len(files),
           FilesAreSound(g, tracks, j, Append(files, f), Append(chains, at)),
           BootIsSound(j), MapIsSound(g, j, dir, Append(chains, at)),
           Vacancies(g, j) # {},
           NEW e, e = [name |-> f.name, start |-> at[1], blocks |-> f.blocks]
    PROVE  \E slots1 : Holds(g, tracks, Entered(g, j, e), Append(files, f), dir, slots1,
                             Append(chains, at))
<1> DEFINE p == FirstOf(Vacancies(g, j))
           k == Entered(g, j, e)
           d == dir[p[1]]
           c == Len(files)
           slots1 == Append(slots, p)
           files1 == Append(files, f)
           chains1 == Append(chains, at)
           es == [j.entries EXCEPT ![d] = [@ EXCEPT ![p[2]] = e]]
<1>1. Vacancies(g, j) = AllSlots(dir) \ Range(slots)
  BY TakenIs
<1>2. Directory(g, j) = dir /\ Len(dir) \in Nat
  BY DirectoryIs
<1>3. AllSlots(dir) \in SUBSET Pairs /\ IsFiniteSet(AllSlots(dir))
  BY <1>2, AllSlotsArePairs
<1>4. /\ p \in AllSlots(dir) \ Range(slots)
      /\ \A q \in AllSlots(dir) \ Range(slots) : q = p \/ Before(p, q)
  <2>1. Vacancies(g, j) \in SUBSET AllSlots(dir) /\ Vacancies(g, j) \in SUBSET Pairs
    BY <1>1, <1>3
  <2>2. IsFiniteSet(Vacancies(g, j))
    BY <2>1, <1>3, FS_Subset
  <2> QED BY <1>1, <2>1, <2>2, FirstOfIs
<1>5. k = [j EXCEPT !.entries[d][p[2]] = e]
  BY <1>2 DEF Entered
<1> HIDE DEF p
<1>6. p[1] \in 1 .. Len(dir) /\ p[2] \in 1 .. Slots /\ p = <<p[1], p[2]>>
  BY <1>4 DEF AllSlots
<1>7. /\ dir \in Seq(DirectorySectors(g)) /\ Distinct(dir)
      /\ \A n \in 1 .. Len(dir) : dir[n] \in Sectors(g)
  <2>1. dir \in Seq(DirectorySectors(g)) /\ Distinct(dir)
    BY DEF DirectoryIsSound
  <2>2. \A n \in 1 .. Len(dir) : dir[n] \in DirectorySectors(g)
    BY <2>1, LenProperties
  <2> QED BY <2>1, <2>2 DEF DirectorySectors
<1>8. /\ IsImage(j) /\ DOMAIN j.entries = Sectors(g)
      /\ \A s \in Sectors(g) : DOMAIN j.entries[s] = 1 .. Slots
  BY DEF Shaped
<1>9. d \in Sectors(g)
  BY <1>6, <1>7
<1>10. k = [j EXCEPT !.entries = es]
  BY <1>5, <1>8, <1>9 DEF IsImage
<1>11. /\ DOMAIN es = Sectors(g)
       /\ \A s \in Sectors(g) : s # d => es[s] = j.entries[s]
       /\ es[d] = [j.entries[d] EXCEPT ![p[2]] = e]
  BY <1>8, <1>9
<1>12. DOMAIN es[d] = 1 .. Slots /\ es[d][p[2]] = e
       /\ \A n \in 1 .. Slots : n # p[2] => es[d][n] = j.entries[d][n]
  BY <1>6, <1>8, <1>9, <1>11
<1> HIDE DEF d, k, es
<1>13. /\ IsImage(k) /\ k.free = j.free /\ k.room = j.room /\ k.link = j.link
       /\ k.block = j.block /\ k.entries = es
  BY <1>8, <1>10 DEF IsImage
<1>14. \A q \in AllSlots(dir) : q # p => es[dir[q[1]]][q[2]] = j.entries[dir[q[1]]][q[2]]
  <2> SUFFICES ASSUME NEW q \in AllSlots(dir), q # p
               PROVE  es[dir[q[1]]][q[2]] = j.entries[dir[q[1]]][q[2]]
    OBVIOUS
  <2>1. q[1] \in 1 .. Len(dir) /\ q[2] \in 1 .. Slots /\ q = <<q[1], q[2]>>
    BY DEF AllSlots
  <2>2. CASE q[1] = p[1]
    <3>1. q[2] # p[2] /\ dir[q[1]] = d
      BY <2>1, <2>2, <1>6 DEF d
    <3> QED BY <3>1, <2>1, <1>12
  <2>3. CASE q[1] # p[1]
    <3>1. dir[q[1]] # d
      BY <2>1, <2>3, <1>6, <1>7 DEF d, Distinct
    <3>2. dir[q[1]] \in Sectors(g)
      BY <2>1, <1>7
    <3> QED BY <3>1, <3>2, <1>11
  <2> QED BY <2>2, <2>3
<1>15. Shaped(g, k)
  <2>1. \A s \in Sectors(g) : DOMAIN es[s] = 1 .. Slots
    BY <1>8, <1>11, <1>12
  <2> QED BY <2>1, <1>11, <1>13 DEF Shaped
<1>16. Counted(g, k)
  BY <1>13 DEF Counted
<1>17. DirectoryIsSound(g, k, dir)
  BY <1>13 DEF DirectoryIsSound
<1>18. FilesAreSound(g, tracks, k, files1, chains1)
  <2> HIDE DEF files1, chains1
  <2>1. FilesAreSound(g, tracks, j, files1, chains1)
    BY DEF files1, chains1
  <2> QED BY <2>1, <1>13, FilesStay
<1>19. BootIsSound(k) /\ MapIsSound(g, k, dir, chains1)
  BY <1>13 DEF BootIsSound, MapIsSound
<1>20. SlotsAreSound(k, files1, dir, slots1, chains1)
  <2>1. /\ slots \in Seq(AllSlots(dir)) /\ Len(slots) = c
        /\ \A m, n \in 1 .. Len(slots) : m < n => Before(slots[m], slots[n])
        /\ \A n \in 1 .. Len(slots) :
              j.entries[dir[slots[n][1]]][slots[n][2]] =
                 [name |-> files[n].name, start |-> chains[n][1], blocks |-> files[n].blocks]
        /\ \A q \in AllSlots(dir) \ Range(slots) :
              /\ j.entries[dir[q[1]]][q[2]] = Vacant
              /\ \A n \in 1 .. Len(slots) : Before(slots[n], q)
    BY DEF SlotsAreSound
  <2>2. /\ c \in Nat /\ DOMAIN slots = 1 .. c
        /\ \A n \in 1 .. c : slots[n] \in AllSlots(dir) /\ slots[n] \in Range(slots)
    BY <2>1, LenProperties DEF Range
  <2>3. /\ slots1 \in Seq(AllSlots(dir)) /\ Len(slots1) = c + 1
        /\ (\A n \in 1 .. c : slots1[n] = slots[n]) /\ slots1[c + 1] = p
    BY <1>4, <2>1, AppendProperties
  <2>4. /\ Len(files1) = c + 1 /\ (\A n \in 1 .. c : files1[n] = files[n])
        /\ files1[c + 1] = f
    BY AppendProperties
  <2>5. /\ (\A n \in 1 .. c : chains1[n] = chains[n]) /\ chains1[c + 1] = at
    BY AppendProperties
  <2> HIDE DEF slots1, files1, chains1, c
  <2>6. \A n \in 1 .. c + 1 : n = c + 1 \/ n \in 1 .. c
    BY <2>2
  <2>7. DOMAIN slots1 = 1 .. c + 1 /\ c + 1 \in 1 .. c + 1
    BY <2>2, <2>3, LenProperties
  <2>8. ASSUME NEW m \in 1 .. c + 1, NEW n \in 1 .. c + 1, m < n
        PROVE  Before(slots1[m], slots1[n])
    <3>1. m \in 1 .. c
      BY <2>2, <2>8
    <3>2. CASE n = c + 1
      BY <3>1, <3>2, <1>4, <2>1, <2>3
    <3>3. CASE n \in 1 .. c
      BY <3>1, <3>3, <2>1, <2>3, <2>8
    <3> QED BY <3>2, <3>3, <2>6
  <2>9. ASSUME NEW n \in 1 .. c + 1
        PROVE  k.entries[dir[slots1[n][1]]][slots1[n][2]] =
                  [name |-> files1[n].name, start |-> chains1[n][1], blocks |-> files1[n].blocks]
    <3>1. CASE n = c + 1
      <4>1. es[dir[p[1]]][p[2]] = e
        BY <1>12 DEF d
      <4> QED BY <4>1, <3>1, <1>13, <2>3, <2>4, <2>5
    <3>2. CASE n \in 1 .. c
      <4>1. slots[n] \in AllSlots(dir) /\ slots[n] # p
        BY <3>2, <2>2, <1>4
      <4>2. es[dir[slots[n][1]]][slots[n][2]] = j.entries[dir[slots[n][1]]][slots[n][2]]
        BY <4>1, <1>14
      <4>3. slots1[n] = slots[n] /\ files1[n] = files[n] /\ chains1[n] = chains[n]
        BY <3>2, <2>3, <2>4, <2>5
      <4>4. j.entries[dir[slots[n][1]]][slots[n][2]] =
               [name |-> files[n].name, start |-> chains[n][1], blocks |-> files[n].blocks]
        BY <3>2, <2>1
      <4> QED BY <4>2, <4>3, <4>4, <1>13
    <3> QED BY <3>1, <3>2, <2>6
  <2>10. ASSUME NEW q \in AllSlots(dir) \ Range(slots1)
         PROVE  /\ k.entries[dir[q[1]]][q[2]] = Vacant
                /\ \A n \in 1 .. c + 1 : Before(slots1[n], q)
    <3>1. q # p
      BY <2>3, <2>7 DEF Range
    <3>2. q \notin Range(slots)
      <4>1. \A n \in 1 .. c : slots[n] = slots1[n] /\ n \in DOMAIN slots1
        BY <2>2, <2>3, <2>7
      <4> QED BY <4>1, <2>2 DEF Range
    <3>3. k.entries[dir[q[1]]][q[2]] = Vacant
      BY <3>1, <3>2, <1>13, <1>14, <2>1
    <3>4. Before(p, q)
      BY <3>1, <3>2, <1>4
    <3>5. \A n \in 1 .. c : Before(slots[n], q)
      BY <3>2, <2>1
    <3> QED BY <3>3, <3>4, <3>5, <2>3, <2>6
  <2> QED BY <2>3, <2>4, <2>8, <2>9, <2>10 DEF SlotsAreSound
<1> QED BY <1>15, <1>16, <1>17, <1>18, <1>19, <1>20 DEF Holds, k

Held(g, tracks, i, files) ==
    \E dir, slots, chains : Holds(g, tracks, i, files, dir, slots, chains)

(* What fits is installed, and what was there stays.                       *)
LEMMA Installing ==
    ASSUME NEW g, GeometryIsSound(g), NEW tracks, NEW i, NEW files,
           Held(g, tracks, i, files), NEW f \in Files, Fits(g, i, Whole(f), tracks)
    PROVE  Held(g, tracks, Install(g, i, Whole(f), tracks), Append(files, f))
<1>1. PICK dir0, slots, chains : Holds(g, tracks, i, files, dir0, slots, chains)
  BY DEF Held
<1> DEFINE w == Whole(f)
           A == Available(g, i, tracks)
           at == SubSeq(InOrder(A), 1, f.blocks)
           i1 == Extended(g, i)
           j == Written(i1, w, at)
           e == [name |-> f.name, start |-> at[1], blocks |-> f.blocks]
<1>2. w.blocks = f.blocks /\ w.name = f.name
  BY DEF Whole
<1>3. Install(g, i, w, tracks) = Entered(g, j, e)
  BY <1>2 DEF Install
<1>4. Cardinality(A) >= f.blocks /\ (Vacancies(g, i) # {} \/ Extensions(g, i) # {})
  BY <1>2 DEF Fits
<1>5. PICK dir : Holds(g, tracks, i1, files, dir, slots, chains) /\ Vacancies(g, i1) # {}
  BY <1>1, <1>4, ExtendedHolds
<1>6. Available(g, i1, tracks) = A
  BY <1>1, <1>4, AvailableStays
<1>7. A \in SUBSET Pairs /\ IsFiniteSet(A) /\ A \subseteq FileSectors(g)
  BY <1>1, AvailableIs
<1>8. f.blocks \in 0 .. Cardinality(A)
  <2>1. Cardinality(A) \in Nat
    BY <1>7, FS_CardinalityType
  <2>2. f.blocks \in Nat
    BY DiskAssumption
  <2> HIDE DEF A
  <2> QED BY <2>1, <2>2, <1>4
<1>9. at \in Seq(A) /\ Len(at) = f.blocks /\ Distinct(at)
  BY <1>7, <1>8, FirstSome
<1> HIDE DEF at, A, i1
<1>10. /\ Shaped(g, j) /\ Counted(g, j) /\ DirectoryIsSound(g, j, dir)
       /\ SlotsAreSound(j, files, dir, slots, chains)
       /\ FilesAreSound(g, tracks, j, Append(files, f), Append(chains, at))
       /\ BootIsSound(j) /\ MapIsSound(g, j, dir, Append(chains, at))
  <2>1. at \in Seq(Available(g, i1, tracks))
    BY <1>6, <1>9
  <2> QED BY <2>1, <1>5, <1>9, Writing
<1>11. /\ files \in Seq(Files) /\ chains \in Seq(Seq(FileSectors(g)))
       /\ Len(chains) = Len(files) /\ at \in Seq(FileSectors(g))
  <2>1. /\ files \in Seq(Files) /\ chains \in Seq(Seq(FileSectors(g)))
        /\ Len(chains) = Len(files)
    BY <1>1 DEF Holds, FilesAreSound
  <2>2. at \in Seq(FileSectors(g))
    BY <1>7, <1>9, SeqMonotonic
  <2> QED BY <2>1, <2>2
<1>12. Vacancies(g, j) # {}
  <2>1. /\ Shaped(g, i1) /\ DirectoryIsSound(g, i1, dir)
        /\ SlotsAreSound(i1, files, dir, slots, chains)
    BY <1>5 DEF Holds
  <2>2. Vacancies(g, i1) = AllSlots(dir) \ Range(slots)
    BY <2>1, <1>11, TakenIs
  <2> HIDE DEF j
  <2>3. Vacancies(g, j) = AllSlots(dir) \ Range(slots)
    BY <1>10, <1>11, TakenIs
  <2> QED BY <2>2, <2>3, <1>5
<1> HIDE DEF j
<1>13. PICK slots1 : Holds(g, tracks, Entered(g, j, e), Append(files, f), dir, slots1,
                           Append(chains, at))
  BY <1>10, <1>11, <1>12, Entering
<1> HIDE DEF e
<1> QED BY <1>3, <1>13 DEF Held, w

-----------------------------------------------------------------------------
(* The files of the one-sided image.                                       *)

(* The files a one-sided image is to have, of some files.                  *)
KeptPlaces(l, files) ==
    {<<n, 1>> : n \in {k \in DOMAIN files : ~(l /\ files[k].name \in Optional)}}
KeptOf(l, files) ==
    LET places == InOrder(KeptPlaces(l, files)) IN [n \in DOMAIN places |-> files[places[n][1]]]

(* Kept is KeptOf of what is installed.                                    *)
LEMMA KeptIs == Kept = KeptOf(lean, installed)
BY DEF Kept, KeptOf, KeptPlaces, Omitted

(* The places of the files kept.                                           *)
LEMMA PlacesAreSound ==
    ASSUME NEW l, NEW files \in Seq(Files)
    PROVE  /\ KeptPlaces(l, files) \in SUBSET Pairs
           /\ IsFiniteSet(KeptPlaces(l, files))
           /\ \A p \in KeptPlaces(l, files) : p[1] \in 1 .. Len(files) /\ p[2] = 1
<1> DEFINE K == KeptPlaces(l, files)
<1>1. DOMAIN files = 1 .. Len(files) /\ Len(files) \in Nat
  BY LenProperties
<1>2. \A p \in K : p \in (1 .. Len(files)) \X {1} /\ p[1] \in 1 .. Len(files) /\ p[2] = 1
  BY <1>1 DEF KeptPlaces
<1>3. IsFiniteSet(1 .. Len(files)) /\ IsFiniteSet({1})
  BY <1>1, FirstNumbers, FS_Singleton
<1>4. IsFiniteSet((1 .. Len(files)) \X {1})
  BY <1>3, FS_Product
<1> HIDE DEF K
<1>5. K \in SUBSET ((1 .. Len(files)) \X {1})
  BY <1>2
<1>6. IsFiniteSet(K)
  BY <1>4, <1>5, FS_Subset
<1>7. (1 .. Len(files)) \X {1} \in SUBSET Pairs
  BY <1>1 DEF Pairs
<1> QED BY <1>2, <1>5, <1>6, <1>7 DEF K

(* Nothing is kept of no files.                                            *)
LEMMA NoneKept ==
    ASSUME NEW l
    PROVE  KeptOf(l, <<>>) = <<>>
<1>1. <<>> \in Seq(Files) /\ <<>> \in Seq(Pairs) /\ Len(<<>>) = 0 /\ DOMAIN <<>> = {}
  OBVIOUS
<1>2. KeptPlaces(l, <<>>) = {} /\ Range(<<>>) = {}
  BY <1>1 DEF KeptPlaces, Range
<1>3. InOrder(Range(<<>>)) = <<>>
  <2>1. \A m, n \in 1 .. Len(<<>>) : FALSE
    BY <1>1
  <2> QED BY <1>1, <2>1, InOrderIs
<1>4. DOMAIN InOrder(KeptPlaces(l, <<>>)) = {}
  BY <1>1, <1>2, <1>3
<1>5. KeptOf(l, <<>>) = [n \in {} |-> <<>>[InOrder({})[n][1]]]
  BY <1>2, <1>4 DEF KeptOf
<1> QED BY <1>5

(* A file more is kept behind the others unless it is omitted.             *)
LEMMA KeptGrows ==
    ASSUME NEW l, NEW files \in Seq(Files), NEW f \in Files
    PROVE  KeptOf(l, Append(files, f)) =
              IF l /\ f.name \in Optional THEN KeptOf(l, files)
              ELSE Append(KeptOf(l, files), f)
<1> DEFINE c == Len(files)
           files1 == Append(files, f)
           K == KeptPlaces(l, files)
           K1 == KeptPlaces(l, files1)
           q == InOrder(K)
           p == <<c + 1, 1>>
           q1 == Append(q, p)
<1>1. /\ c \in Nat /\ DOMAIN files = 1 .. c
      /\ files1 \in Seq(Files) /\ Len(files1) = c + 1
      /\ (\A n \in 1 .. c : files1[n] = files[n]) /\ files1[c + 1] = f
  BY LenProperties, AppendProperties
<1> HIDE DEF files1, c
<1>2. DOMAIN files1 = 1 .. c + 1
  BY <1>1, LenProperties
<1>3. /\ K \in SUBSET Pairs /\ IsFiniteSet(K)
      /\ \A t \in K : t[1] \in 1 .. c /\ t[2] = 1
  BY PlacesAreSound DEF c
<1>4. K1 = IF l /\ f.name \in Optional THEN K ELSE K \union {p}
  <2>1. DOMAIN files1 = DOMAIN files \union {c + 1} /\ c + 1 \notin DOMAIN files
    BY <1>1, <1>2
  <2>2. {k \in DOMAIN files1 : ~(l /\ files1[k].name \in Optional)} =
           {k \in DOMAIN files : ~(l /\ files[k].name \in Optional)}
              \union (IF l /\ f.name \in Optional THEN {} ELSE {c + 1})
    BY <1>1, <2>1
  <2> QED BY <2>2 DEF KeptPlaces
<1>5. /\ q \in Seq(K) /\ Len(q) = Cardinality(K) /\ Cardinality(K) \in Nat /\ Range(q) = K
      /\ \A m, n \in 1 .. Cardinality(K) : m < n => Before(q[m], q[n])
  BY <1>3, InOrderIsSound
<1> HIDE DEF K, K1, q, p
<1>6. q \in Seq(Pairs) /\ DOMAIN q = 1 .. Len(q) /\ \A n \in 1 .. Len(q) : q[n] \in K
  BY <1>3, <1>5, SeqMonotonic, LenProperties
<1>7. KeptOf(l, files) = [n \in 1 .. Len(q) |-> files[q[n][1]]]
  BY <1>6 DEF KeptOf, q, K
<1>8. \A n \in 1 .. Len(q) : q[n][1] \in 1 .. c /\ files[q[n][1]] \in Files
  BY <1>1, <1>3, <1>6, LenProperties
<1>9. KeptOf(l, files) \in Seq(Files) /\ Len(KeptOf(l, files)) = Len(q)
  <2>1. KeptOf(l, files) \in [1 .. Len(q) -> Files] /\ Len(q) \in Nat
    BY <1>5, <1>7, <1>8
  <2> QED BY <2>1, FunctionIsASequence
<1>10. CASE l /\ f.name \in Optional
  <2>1. InOrder(K1) = q
    BY <1>4, <1>10 DEF q
  <2>2. KeptOf(l, files1) = [n \in 1 .. Len(q) |-> files1[q[n][1]]]
    BY <2>1, <1>6 DEF KeptOf, K1
  <2>3. \A n \in 1 .. Len(q) : files1[q[n][1]] = files[q[n][1]]
    BY <1>1, <1>8
  <2>4. KeptOf(l, files1) = KeptOf(l, files)
    BY <2>2, <2>3, <1>7
  <2> QED BY <2>4, <1>10 DEF files1
<1>11. CASE ~(l /\ f.name \in Optional)
  <2>1. p \in Pairs /\ p[1] = c + 1
    BY <1>1 DEF p, Pairs
  <2>2. /\ q1 \in Seq(Pairs) /\ Len(q1) = Len(q) + 1
        /\ (\A n \in 1 .. Len(q) : q1[n] = q[n]) /\ q1[Len(q) + 1] = p
    BY <2>1, <1>6, AppendProperties
  <2> HIDE DEF q1
  <2>3. Len(q) \in Nat /\ \A n \in 1 .. Len(q) + 1 : n = Len(q) + 1 \/ n \in 1 .. Len(q)
    BY <1>5
  <2>4. DOMAIN q1 = 1 .. Len(q) + 1
    BY <2>2, LenProperties
  <2>5. Range(q1) = K1
    <3>1. Range(q1) = {q1[n] : n \in 1 .. Len(q) + 1}
      BY <2>4 DEF Range
    <3>2. Range(q) = {q[n] : n \in 1 .. Len(q)}
      BY <1>6 DEF Range
    <3>3. Len(q) + 1 \in 1 .. Len(q) + 1 /\ \A n \in 1 .. Len(q) : n \in 1 .. Len(q) + 1
      BY <2>3
    <3>4. Range(q1) = Range(q) \union {p}
      BY <3>1, <3>2, <3>3, <2>2, <2>3
    <3> QED BY <3>4, <1>4, <1>5, <1>11
  <2>6. \A m, n \in 1 .. Len(q1) : m < n => Before(q1[m], q1[n])
    <3> SUFFICES ASSUME NEW m \in 1 .. Len(q) + 1, NEW n \in 1 .. Len(q) + 1, m < n
                 PROVE  Before(q1[m], q1[n])
      BY <2>2
    <3>1. m \in 1 .. Len(q)
      BY <2>3
    <3>2. CASE n = Len(q) + 1
      <4>1. q[m][1] < p[1]
        BY <3>1, <1>1, <1>8, <2>1
      <4> QED BY <4>1, <3>1, <3>2, <2>2 DEF Before
    <3>3. CASE n \in 1 .. Len(q)
      BY <3>1, <3>3, <1>5, <2>2
    <3> QED BY <3>2, <3>3, <2>3
  <2>7. InOrder(K1) = q1
    BY <2>2, <2>5, <2>6, InOrderIs
  <2>8. KeptOf(l, files1) = [n \in 1 .. Len(q) + 1 |-> files1[q1[n][1]]]
    BY <2>4, <2>7 DEF KeptOf, K1
  <2>9. \A n \in 1 .. Len(q) + 1 :
           files1[q1[n][1]] = IF n = Len(q) + 1 THEN f ELSE files[q[n][1]]
    BY <1>1, <1>8, <2>1, <2>2, <2>3
  <2>10. \A n \in 1 .. Len(q) + 1 : files1[q1[n][1]] \in Files
    BY <2>9, <2>3, <1>8
  <2>11. KeptOf(l, files1) \in Seq(Files) /\ Len(KeptOf(l, files1)) = Len(q) + 1
    <3>1. KeptOf(l, files1) \in [1 .. Len(q) + 1 -> Files] /\ Len(q) + 1 \in Nat
      BY <2>3, <2>8, <2>10
    <3> QED BY <3>1, FunctionIsASequence
  <2>12. KeptOf(l, files1) = Append(KeptOf(l, files), f)
    <3> DEFINE a == Append(KeptOf(l, files), f)
               b == KeptOf(l, files1)
    <3>1. /\ a \in Seq(Files) /\ Len(a) = Len(q) + 1
          /\ \A n \in 1 .. Len(q) : a[n] = KeptOf(l, files)[n]
          /\ a[Len(q) + 1] = f
      BY <1>9, AppendProperties
    <3>2. \A n \in 1 .. Len(q) : KeptOf(l, files)[n] = files[q[n][1]]
      BY <1>7
    <3>3. \A n \in 1 .. Len(q) + 1 :
             b[n] = IF n = Len(q) + 1 THEN f ELSE files[q[n][1]]
      BY <2>8, <2>9
    <3>4. \A n \in 1 .. Len(q) + 1 : a[n] = b[n]
      BY <3>1, <3>2, <3>3, <2>3
    <3> HIDE DEF a, b
    <3>5. a = b
      BY <3>1, <3>4, <2>11, SeqEqual DEF b
    <3> QED BY <3>5 DEF a, b
  <2> QED BY <2>12, <1>11 DEF files1
<1> QED BY <1>10, <1>11

-----------------------------------------------------------------------------
(* Room for a file: its blocks are counted, whatever disk they are on.     *)

(* The blocks of some files, whatever disk they are on.                    *)
BlocksOf(files) ==
    {p \in (1 .. Len(files)) \X Nat : p[2] \in 1 .. files[p[1]].blocks}

(* An image has a sector for each of them and no other.                    *)
LEMMA BlocksTakeSectors ==
    ASSUME NEW g, GeometryIsSound(g), NEW tracks, NEW i, NEW files, NEW dir, NEW slots,
           NEW chains, Holds(g, tracks, i, files, dir, slots, chains)
    PROVE  /\ IsFiniteSet(BlocksOf(files)) /\ IsFiniteSet(UsedBy(chains))
           /\ Cardinality(BlocksOf(files)) = Cardinality(UsedBy(chains))
<1> DEFINE I == BlocksOf(files)
           U == UsedBy(chains)
           h == [p \in I |-> chains[p[1]][p[2]]]
<1>1. FilesAreSound(g, tracks, i, files, chains)
  BY DEF Holds
<1>2. /\ Len(chains) = Len(files)
      /\ \A n \in 1 .. Len(files) : FileIsSound(g, tracks, i, files[n], chains[n])
      /\ \A m, n \in 1 .. Len(files) : m # n => Range(chains[m]) \cap Range(chains[n]) = {}
  BY <1>1 DEF FilesAreSound
<1>3. ASSUME NEW n \in 1 .. Len(files)
      PROVE  /\ Len(chains[n]) = files[n].blocks /\ DOMAIN chains[n] = 1 .. files[n].blocks
             /\ files[n].blocks \in Nat
             /\ \A a, b \in 1 .. files[n].blocks : chains[n][a] = chains[n][b] => a = b
  <2>1. /\ chains[n] \in Seq(FileSectors(g)) /\ Len(chains[n]) = files[n].blocks
        /\ Distinct(chains[n])
    BY <1>2 DEF FileIsSound
  <2> QED BY <2>1, LenProperties DEF Distinct
<1>4. \A p \in I : p[1] \in 1 .. Len(files) /\ p[2] \in 1 .. files[p[1]].blocks /\ p = <<p[1], p[2]>>
  BY DEF BlocksOf
<1>5. \A p \in I : h[p] \in Range(chains[p[1]])
  BY <1>3, <1>4 DEF Range
<1>6. h \in [I -> U]
  <2>1. \A p \in I : h[p] \in U
    BY <1>2, <1>4, <1>5 DEF UsedBy
  <2> HIDE DEF I, U
  <2> QED BY <2>1
<1>7. ASSUME NEW p \in I, NEW t \in I, h[p] = h[t]
      PROVE  p = t
  <2>1. p[1] = t[1]
    BY <1>2, <1>4, <1>5, <1>7
  <2>2. chains[p[1]][p[2]] = chains[p[1]][t[2]]
    BY <2>1, <1>7
  <2>3. p[2] = t[2]
    BY <2>1, <2>2, <1>3, <1>4
  <2> QED BY <2>1, <2>3, <1>4
<1>8. ASSUME NEW s \in U
      PROVE  \E p \in I : h[p] = s
  <2>1. PICK n \in 1 .. Len(files) : s \in Range(chains[n])
    BY <1>2 DEF UsedBy
  <2>2. PICK b \in 1 .. files[n].blocks : s = chains[n][b]
    BY <2>1, <1>3 DEF Range
  <2>3. <<n, b>> \in I
    BY <2>1, <2>2, <1>3 DEF BlocksOf
  <2>4. h[<<n, b>>] = s
    BY <2>2, <2>3
  <2> QED BY <2>3, <2>4
<1>9. IsFiniteSet(U)
  <2>1. U \in SUBSET Sectors(g)
    BY PartsAreApart DEF FileSectors
  <2>2. IsFiniteSet(Sectors(g))
    BY SectorsAreFinite
  <2> HIDE DEF U
  <2> QED BY <2>1, <2>2, FS_Subset
<1> HIDE DEF h, I, U
<1>10. h \in Injection(I, U) /\ h \in Surjection(I, U)
  BY <1>6, <1>7, <1>8 DEF Injection, Surjection, IsInjective
<1>11. IsFiniteSet(I) /\ Cardinality(I) = Cardinality(U)
  BY <1>9, <1>10, FS_Injection
<1> QED BY <1>9, <1>11 DEF I, U

(* How many sectors files and directory may have, as numbers.              *)
LEMMA FileSectorsAreFinite ==
    ASSUME NEW g, GeometryIsSound(g)
    PROVE  /\ IsFiniteSet(FileSectors(g)) /\ Cardinality(FileSectors(g)) \in Nat
           /\ IsFiniteSet(DirectorySectors(g)) /\ Cardinality(DirectorySectors(g)) \in Nat
<1>1. IsFiniteSet(Sectors(g))
  BY SectorsAreFinite
<1>2. FileSectors(g) \in SUBSET Sectors(g) /\ DirectorySectors(g) \in SUBSET Sectors(g)
  BY DEF FileSectors, DirectorySectors
<1>3. IsFiniteSet(FileSectors(g)) /\ IsFiniteSet(DirectorySectors(g))
  BY <1>1, <1>2, FS_Subset
<1> QED BY <1>3, FS_CardinalityType

(* A disk has room for what another has room for, and more.                *)
LEMMA RoomForBlocks ==
    ASSUME NEW g, GeometryIsSound(g), NEW i, NEW files, NEW dir, NEW slots, NEW chains,
           Holds(g, Tracks(g), i, files, dir, slots, chains)
    PROVE  /\ Cardinality(Available(g, i, Tracks(g))) =
                 Cardinality(FileSectors(g)) - Cardinality(BlocksOf(files))
           /\ Cardinality(BlocksOf(files)) \in Nat
           /\ Cardinality(BlocksOf(files)) <= Cardinality(FileSectors(g))
           /\ IsFiniteSet(BlocksOf(files))
<1> DEFINE A == Available(g, i, Tracks(g))
           U == UsedBy(chains)
           F == FileSectors(g)
<1>1. /\ IsFiniteSet(BlocksOf(files)) /\ IsFiniteSet(U)
      /\ Cardinality(BlocksOf(files)) = Cardinality(U)
  BY BlocksTakeSectors
<1>2. U \in SUBSET F
  BY PartsAreApart
<1>3. A = F \ U
  <2>1. MapIsSound(g, i, dir, chains)
    BY DEF Holds
  <2>2. \A s \in Range(dir) : s[1] = g.dir
    <3>1. \A s \in Range(dir) : s \in DirectorySectors(g)
      BY PartsAreApart
    <3> QED BY <3>1 DEF DirectorySectors
  <2>3. \A s \in Sectors(g) : s[1] \in Tracks(g)
    BY SectorsAreFinite
  <2> HIDE DEF U
  <2> QED BY <2>1, <2>2, <2>3 DEF MapIsSound, Available, FileSectors, U
<1>4. IsFiniteSet(F) /\ Cardinality(F) \in Nat
  BY FileSectorsAreFinite
<1> HIDE DEF A, U, F
<1>5. Cardinality(F \ U) = Cardinality(F) - Cardinality(F \cap U)
  BY <1>4, FS_Difference
<1>6. F \cap U = U
  BY <1>2
<1>7. Cardinality(U) <= Cardinality(F) /\ Cardinality(U) \in Nat
  BY <1>1, <1>2, <1>4, FS_Subset, FS_CardinalityType
<1> QED BY <1>1, <1>3, <1>5, <1>6, <1>7 DEF A, F

(* The blocks of the files before one and its own are among all of them.   *)
LEMMA BlocksAdd ==
    ASSUME NEW files \in Seq(Files), NEW r \in 0 .. Len(files) - 1,
           IsFiniteSet(BlocksOf(files)), IsFiniteSet(BlocksOf(SubSeq(files, 1, r)))
    PROVE  Cardinality(BlocksOf(SubSeq(files, 1, r))) + files[r + 1].blocks <=
              Cardinality(BlocksOf(files))
<1> DEFINE part == SubSeq(files, 1, r)
           P == BlocksOf(part)
           B == BlocksOf(files)
           b == files[r + 1].blocks
           N == {r + 1} \X (1 .. b)
<1>1. Len(files) \in Nat /\ \A n \in 1 .. Len(files) : files[n] \in Files
  BY LenProperties
<1>2. r \in Nat /\ r + 1 \in 1 .. Len(files) /\ \A n \in 1 .. r : n \in 1 .. Len(files) /\ n # r + 1
  BY <1>1
<1>3. b \in Nat
  BY <1>1, <1>2, DiskAssumption
<1>4. Len(part) = r /\ \A n \in 1 .. r : part[n] = files[n]
  <2>1. /\ Len(part) = IF 1 <= r THEN r - 1 + 1 ELSE 0
        /\ \A n \in 1 .. r - 1 + 1 : part[n] = files[1 + n - 1]
    <3>1. \A n \in 1 .. r : files[n] \in Files
      BY <1>1, <1>2
    <3>2. 1 \in Int /\ r \in Int
      BY <1>2
    <3> QED BY <3>1, <3>2, SubSeqProperties
  <2> HIDE DEF part
  <2> QED BY <2>1, <1>2
<1> HIDE DEF part
<1>5. P \in SUBSET B
  <2>1. ASSUME NEW p \in P
        PROVE  p \in B
    <3>1. p \in (1 .. r) \X Nat /\ p[1] \in 1 .. r /\ p[2] \in 1 .. part[p[1]].blocks /\ p[2] \in Nat
      BY <1>4 DEF BlocksOf
    <3>2. part[p[1]] = files[p[1]] /\ p[1] \in 1 .. Len(files)
      BY <3>1, <1>2, <1>4
    <3>3. p \in (1 .. Len(files)) \X Nat
      BY <3>1, <3>2
    <3> QED BY <3>1, <3>2, <3>3 DEF BlocksOf
  <2> QED BY <2>1
<1>6. N \in SUBSET B
  BY <1>2, <1>3 DEF BlocksOf
<1>7. P \cap N = {}
  BY <1>2, <1>4 DEF BlocksOf
<1>8. IsFiniteSet(N) /\ Cardinality(N) = b
  <2>1. /\ IsFiniteSet({r + 1}) /\ Cardinality({r + 1}) = 1
        /\ IsFiniteSet(1 .. b) /\ Cardinality(1 .. b) = b
    BY <1>3, FS_Singleton, FirstNumbers
  <2>2. IsFiniteSet(N) /\ Cardinality(N) = Cardinality({r + 1}) * Cardinality(1 .. b)
    <3> HIDE DEF b
    <3> QED BY <2>1, FS_Product
  <2> HIDE DEF N, b
  <2>3. Cardinality(N) = 1 * b
    BY <2>1, <2>2
  <2> QED BY <2>2, <2>3, <1>3
<1>9. IsFiniteSet(P) /\ IsFiniteSet(B)
  BY DEF part
<1> HIDE DEF P, B, N, b
<1>10. Cardinality(P \union N) = Cardinality(P) + Cardinality(N) - Cardinality(P \cap N)
  BY <1>8, <1>9, FS_Union
<1>11. Cardinality(P \cap N) = 0 /\ Cardinality(P) \in Nat /\ Cardinality(B) \in Nat
  BY <1>7, <1>9, FS_EmptySet, FS_CardinalityType
<1>12. Cardinality(P \union N) <= Cardinality(B)
  <2>1. P \union N \in SUBSET B
    BY <1>5, <1>6
  <2> QED BY <2>1, <1>9, FS_Subset
<1>13. Cardinality(P) + b <= Cardinality(B)
  BY <1>3, <1>8, <1>10, <1>11, <1>12
<1> QED BY <1>13 DEF P, B, b, part

(* A directory that can take no more has as many entries as its disk can.  *)
LEMMA DirectoryIsFull ==
    ASSUME NEW g, GeometryIsSound(g), NEW tracks, NEW i, NEW files, NEW dir, NEW slots,
           NEW chains, Holds(g, tracks, i, files, dir, slots, chains),
           Vacancies(g, i) = {}, Extensions(g, i) = {}
    PROVE  /\ Range(slots) = AllSlots(dir)
           /\ Len(dir) = Cardinality(DirectorySectors(g))
<1>1. /\ Shaped(g, i) /\ DirectoryIsSound(g, i, dir)
      /\ SlotsAreSound(i, files, dir, slots, chains)
      /\ files \in Seq(Files) /\ MapIsSound(g, i, dir, chains)
  BY DEF Holds, FilesAreSound
<1>2. Range(slots) = AllSlots(dir)
  <2>1. Vacancies(g, i) = AllSlots(dir) \ Range(slots)
    BY <1>1, TakenIs
  <2>2. slots \in Seq(AllSlots(dir))
    BY <1>1 DEF SlotsAreSound
  <2> QED BY <2>1, <2>2, RangeOfSeq
<1>3. /\ dir \in Seq(DirectorySectors(g)) /\ Distinct(dir) /\ dir[1] = <<g.dir, g.first>>
      /\ Len(dir) >= 1
  BY <1>1 DEF DirectoryIsSound
<1>4. Len(dir) \in Nat /\ DOMAIN dir = 1 .. Len(dir) /\ dir \in [1 .. Len(dir) -> DirectorySectors(g)]
  BY <1>3, LenProperties
<1>5. DirectorySectors(g) \subseteq Range(dir)
  <2> SUFFICES ASSUME NEW s \in DirectorySectors(g), s \notin Range(dir)
               PROVE  FALSE
    OBVIOUS
  <2>1. s \in Sectors(g) /\ s[1] = g.dir /\ s[2] >= g.first /\ s = <<s[1], s[2]>> /\ s[2] \in Nat
    BY SectorsAreFinite DEF DirectorySectors
  <2>2. g.first \in Nat
    <3>1. <<g.dir, g.first>> \in Sectors(g)
      BY DEF GeometryIsSound
    <3> QED BY <3>1, SectorsAreFinite
  <2>3. s # dir[1]
    BY <1>3, <1>4 DEF Range
  <2>4. s[2] > g.first
    BY <2>1, <2>2, <2>3, <1>3
  <2>5. s \notin i.free
    BY <2>1, <2>4 DEF Extensions
  <2>6. s \notin g.reserved /\ s \notin Range(BootSectors)
    BY <2>1, <2>2, <2>4 DEF GeometryIsSound
  <2>7. s \notin UsedBy(chains)
    <3>1. \A t \in UsedBy(chains) : t \in FileSectors(g)
      BY PartsAreApart
    <3> QED BY <3>1, <2>1 DEF FileSectors
  <2> QED BY <2>1, <2>5, <2>6, <2>7, <1>1 DEF MapIsSound
<1>6. dir \in Surjection(1 .. Len(dir), DirectorySectors(g))
  <2>1. \A s \in DirectorySectors(g) : \E n \in 1 .. Len(dir) : dir[n] = s
    BY <1>4, <1>5 DEF Range
  <2> QED BY <2>1, <1>4 DEF Surjection
<1>7. dir \in Injection(1 .. Len(dir), DirectorySectors(g))
  BY <1>3, <1>4 DEF Injection, IsInjective, Distinct
<1>8. IsFiniteSet(1 .. Len(dir)) /\ Cardinality(1 .. Len(dir)) = Len(dir)
  BY <1>4, FirstNumbers
<1>9. Len(dir) = Cardinality(DirectorySectors(g))
  BY <1>6, <1>7, <1>8, FS_Surjection
<1> QED BY <1>2, <1>9

(* A directory has no more sectors than its track has for it, and a slot   *)
(* for each file.                                                          *)
LEMMA DirectoryIsShort ==
    ASSUME NEW g, GeometryIsSound(g), NEW tracks, NEW i, NEW files, NEW dir, NEW slots,
           NEW chains, Holds(g, tracks, i, files, dir, slots, chains)
    PROVE  /\ Len(dir) \in Nat /\ Len(dir) <= Cardinality(DirectorySectors(g))
           /\ Range(slots) \subseteq AllSlots(dir)
           /\ IsFiniteSet(Range(slots)) /\ Cardinality(Range(slots)) = Len(files)
<1>1. DirectoryIsSound(g, i, dir) /\ SlotsAreSound(i, files, dir, slots, chains)
  BY DEF Holds
<1>2. dir \in Seq(DirectorySectors(g)) /\ Distinct(dir)
  BY <1>1 DEF DirectoryIsSound
<1>3. Len(dir) \in Nat /\ dir \in [1 .. Len(dir) -> DirectorySectors(g)]
  BY <1>2, LenProperties
<1>4. dir \in Injection(1 .. Len(dir), DirectorySectors(g))
  BY <1>2, <1>3 DEF Injection, IsInjective, Distinct
<1>5. Cardinality(1 .. Len(dir)) = Len(dir) /\ IsFiniteSet(DirectorySectors(g))
  BY <1>3, FirstNumbers, FileSectorsAreFinite
<1>6. Len(dir) <= Cardinality(DirectorySectors(g))
  <2>1. Cardinality(1 .. Len(dir)) <= Cardinality(DirectorySectors(g))
    BY <1>4, <1>5, FS_Injection
  <2> QED BY <2>1, <1>5
<1>7. /\ slots \in Seq(AllSlots(dir)) /\ Len(slots) = Len(files)
      /\ \A m, n \in 1 .. Len(slots) : m < n => Before(slots[m], slots[n])
  BY <1>1 DEF SlotsAreSound
<1>8. slots \in Seq(Pairs)
  <2>1. AllSlots(dir) \in SUBSET Pairs
    BY <1>3, AllSlotsArePairs
  <2> QED BY <2>1, <1>7, SeqMonotonic
<1>9. IsFiniteSet(Range(slots)) /\ Cardinality(Range(slots)) = Len(slots)
  BY <1>7, <1>8, InOrderIs
<1>10. Range(slots) \subseteq AllSlots(dir)
  BY <1>7, RangeOfSeq
<1> QED BY <1>3, <1>6, <1>7, <1>9, <1>10

-----------------------------------------------------------------------------
(* Repacking and derivation.                                               *)

(* Whatever fits the 1571 image fits the 1581: the next file of its        *)
(* directory is never refused for want of room.                            *)
LEMMA RepackingFits ==
    ASSUME NEW tracks, NEW i71, NEW i81, NEW files \in Seq(Files),
           NEW r \in 0 .. Len(files) - 1,
           Held(D71, tracks, i71, files), Held(D81, Tracks(D81), i81, SubSeq(files, 1, r))
    PROVE  Fits(D81, i81, Whole(files[r + 1]), Tracks(D81))
<1> DEFINE part == SubSeq(files, 1, r)
           b == files[r + 1].blocks
<1>1. PICK dir, slots, chains : Holds(D71, tracks, i71, files, dir, slots, chains)
  BY DEF Held
<1>2. PICK dir8, slots8, chains8 : Holds(D81, Tracks(D81), i81, part, dir8, slots8, chains8)
  BY DEF Held
<1>3. /\ GeometryIsSound(D71) /\ GeometryIsSound(D81)
      /\ Cardinality(DirectorySectors(D71)) <= Cardinality(DirectorySectors(D81))
      /\ Cardinality(FileSectors(D71)) <= Cardinality(FileSectors(D81))
  BY DiskAssumption
<1>4. /\ Len(files) \in Nat /\ r \in Nat /\ r < Len(files) /\ Len(part) = r
  <2>1. Len(files) \in Nat
    BY LenProperties
  <2>2. \A n \in 1 .. r : files[n] \in Files
    BY <2>1, LenProperties
  <2>3. Len(part) = IF 1 <= r THEN r - 1 + 1 ELSE 0
    BY <2>1, <2>2, SubSeqProperties
  <2> HIDE DEF part
  <2> QED BY <2>1, <2>3
<1>5. b \in Nat
  <2>1. files[r + 1] \in Files
    BY <1>4, LenProperties
  <2> QED BY <2>1, DiskAssumption
<1>6. Cardinality(Available(D81, i81, Tracks(D81))) >= b
  <2>1. /\ Cardinality(Available(D81, i81, Tracks(D81))) =
              Cardinality(FileSectors(D81)) - Cardinality(BlocksOf(part))
        /\ Cardinality(BlocksOf(part)) \in Nat
        /\ IsFiniteSet(BlocksOf(part))
    <3> HIDE DEF part
    <3> QED BY <1>2, <1>3, RoomForBlocks
  <2>2. /\ IsFiniteSet(BlocksOf(files)) /\ IsFiniteSet(UsedBy(chains))
        /\ Cardinality(BlocksOf(files)) = Cardinality(UsedBy(chains))
    BY <1>1, <1>3, BlocksTakeSectors
  <2>3. Cardinality(BlocksOf(part)) + b <= Cardinality(BlocksOf(files))
    BY <2>1, <2>2, BlocksAdd
  <2>4. /\ IsFiniteSet(FileSectors(D71)) /\ Cardinality(FileSectors(D71)) \in Nat
        /\ Cardinality(FileSectors(D81)) \in Nat
    BY <1>3, FileSectorsAreFinite
  <2>5. Cardinality(UsedBy(chains)) <= Cardinality(FileSectors(D71))
    <3>1. UsedBy(chains) \in SUBSET FileSectors(D71)
      BY <1>1, <1>3, PartsAreApart
    <3> QED BY <3>1, <2>4, FS_Subset
  <2>6. Cardinality(BlocksOf(files)) \in Nat
    BY <2>2, FS_CardinalityType
  <2> HIDE DEF b, part
  <2> QED BY <1>3, <1>5, <2>1, <2>2, <2>3, <2>4, <2>5, <2>6
<1>7. Vacancies(D81, i81) # {} \/ Extensions(D81, i81) # {}
  <2> SUFFICES ASSUME Vacancies(D81, i81) = {}, Extensions(D81, i81) = {}
               PROVE  FALSE
    OBVIOUS
  <2>1. Range(slots8) = AllSlots(dir8) /\ Len(dir8) = Cardinality(DirectorySectors(D81))
    BY <1>2, <1>3, DirectoryIsFull
  <2>2. /\ Len(dir8) \in Nat /\ IsFiniteSet(Range(slots8)) /\ Cardinality(Range(slots8)) = r
    BY <1>2, <1>3, <1>4, DirectoryIsShort
  <2>3. /\ Len(dir) \in Nat /\ Len(dir) <= Cardinality(DirectorySectors(D71))
        /\ Range(slots) \subseteq AllSlots(dir)
        /\ IsFiniteSet(Range(slots)) /\ Cardinality(Range(slots)) = Len(files)
    BY <1>1, <1>3, DirectoryIsShort
  <2>4. Len(dir) <= Len(dir8)
    <3>1. /\ Cardinality(DirectorySectors(D71)) \in Nat
          /\ Cardinality(DirectorySectors(D81)) \in Nat
      BY <1>3, FileSectorsAreFinite
    <3> QED BY <3>1, <1>3, <2>1, <2>2, <2>3
  <2>5. AllSlots(dir) \subseteq AllSlots(dir8)
    BY <2>2, <2>3, <2>4 DEF AllSlots
  <2>6. Range(slots) \in SUBSET Range(slots8)
    BY <2>1, <2>3, <2>5
  <2>7. Cardinality(Range(slots)) <= Cardinality(Range(slots8))
    BY <2>2, <2>6, FS_Subset
  <2> QED BY <2>2, <2>3, <2>7, <1>4
<1>8. Whole(files[r + 1]).blocks = b
  BY DEF Whole
<1> QED BY <1>6, <1>7, <1>8 DEF Fits

(* What build_d81 reads from the 1571 image is the file as it was given.   *)
LEMMA CopyIsWhole ==
    ASSUME NEW g, GeometryIsSound(g), NEW tracks, NEW i, NEW files,
           Held(g, tracks, i, files), NEW n \in 1 .. Len(files)
    PROVE  Copy(i, Listed(g, i)[n]) = Whole(files[n])
<1> DEFINE e == Listed(g, i)[n]
           f == files[n]
<1>1. PICK dir, slots, chains : Holds(g, tracks, i, files, dir, slots, chains)
  BY DEF Held
<1>2. e = [name |-> f.name, start |-> chains[n][1], blocks |-> f.blocks]
  BY <1>1, HoldsEntry
<1>3. Contents(i, e) = [blocks |-> Whole(f).data, last |-> f.last, agrees |-> TRUE]
  BY <1>1, HoldsContents
<1>4. f \in Files
  BY <1>1, HoldsSound
<1>5. f.blocks \in Nat
  BY <1>4, DiskAssumption
<1> HIDE DEF e, f
<1>6. Whole(f) = [name |-> f.name, blocks |-> f.blocks, last |-> f.last, data |-> Whole(f).data]
  BY DEF Whole
<1>7. Len(Whole(f).data) = f.blocks
  <2> DEFINE d == [m \in 1 .. f.blocks |-> <<f.name, m>>]
  <2>1. d \in [1 .. f.blocks -> {<<f.name, m>> : m \in 1 .. f.blocks}]
    OBVIOUS
  <2> HIDE DEF d
  <2>2. Len(d) = f.blocks
    BY <2>1, <1>5, FunctionIsASequence
  <2>3. Whole(f).data = d
    BY DEF Whole, d
  <2> QED BY <2>2, <2>3
<1>8. Contents(i, e).blocks = Whole(f).data /\ Contents(i, e).last = f.last
  BY <1>3
<1>9. e.name = f.name
  BY <1>2
<1>10. Copy(i, e) = [name |-> f.name, blocks |-> f.blocks, last |-> f.last,
                     data |-> Whole(f).data]
  BY <1>7, <1>8, <1>9 DEF Copy
<1> QED BY <1>6, <1>10 DEF e, f

(* ... no chain of it is refused for its length,                           *)
LEMMA CopyAgrees ==
    ASSUME NEW g, GeometryIsSound(g), NEW tracks, NEW i, NEW files,
           Held(g, tracks, i, files), NEW n \in 1 .. Len(files)
    PROVE  Contents(i, Listed(g, i)[n]).agrees = TRUE
<1>1. PICK dir, slots, chains : Holds(g, tracks, i, files, dir, slots, chains)
  BY DEF Held
<1>2. Contents(i, Listed(g, i)[n]) =
         [blocks |-> Whole(files[n]).data, last |-> files[n].last, agrees |-> TRUE]
  BY <1>1, HoldsContents
<1> QED BY <1>2

(* ... and the entries have the files' names.                              *)
LEMMA CopyIsNamed ==
    ASSUME NEW g, GeometryIsSound(g), NEW tracks, NEW i, NEW files,
           Held(g, tracks, i, files), NEW n \in 1 .. Len(files)
    PROVE  Listed(g, i)[n].name = files[n].name
<1>1. PICK dir, slots, chains : Holds(g, tracks, i, files, dir, slots, chains)
  BY DEF Held
<1>2. Listed(g, i)[n] = [name |-> files[n].name, start |-> chains[n][1],
                         blocks |-> files[n].blocks]
  BY <1>1, HoldsEntry
<1> QED BY <1>2

(* Only the map of the one-sided image differs from its source's.          *)
LEMMA OneSidedReads ==
    ASSUME NEW g, NEW i, IsImage(i), NEW files, ReadsBack(g, i, files)
    PROVE  ReadsBack(g, OneSided(i), files)
<1> DEFINE j == OneSided(i)
           F == {s \in i.free : s[1] <= SideOne}
<1>1. j = [i EXCEPT !.free = F]
  BY DEF OneSided
<1> HIDE DEF j, F
<1>2. j.link = i.link /\ j.block = i.block /\ j.entries = i.entries
  BY <1>1 DEF IsImage
<1>3. \A s : Chain(j, s) = Chain(i, s)
  BY <1>2 DEF Chain
<1>4. Directory(g, j) = Directory(g, i)
  BY <1>3 DEF Directory
<1>5. \A p : Entry(g, j, p) = Entry(g, i, p)
  BY <1>2, <1>4 DEF Entry
<1>6. SlotsOf(g, j) = SlotsOf(g, i)
  BY <1>4 DEF SlotsOf
<1>7. Taken(g, j) = Taken(g, i)
  BY <1>5, <1>6 DEF Taken
<1>8. Listed(g, j) = Listed(g, i)
  BY <1>5, <1>7 DEF Listed
<1>9. \A e : Contents(j, e) = Contents(i, e)
  BY <1>2, <1>3 DEF Contents
<1> QED BY <1>8, <1>9 DEF ReadsBack, j

(* No chain of the image for one side leaves it, so that                   *)
(* d64_compatibility_image refuses none.                                   *)
LEMMA SourceStays ==
    ASSUME NEW i, NEW files, Held(D71, 1 .. SideOne, i, files)
    PROVE  StaysOnSideOne(i)
<1>1. PICK dir, slots, chains : Holds(D71, 1 .. SideOne, i, files, dir, slots, chains)
  BY DEF Held
<1>2. GeometryIsSound(D71) /\ SideOne \in Nat
  BY DiskAssumption
<1>3. ASSUME NEW e \in Range(Listed(D71, i))
      PROVE  /\ Contents(i, e).agrees
             /\ \A s \in Range(Chain(i, e.start)) : s[1] <= SideOne
  <2>1. DOMAIN Listed(D71, i) = 1 .. Len(files)
    BY <1>1, <1>2, HoldsListed
  <2>2. PICK n \in 1 .. Len(files) : e = Listed(D71, i)[n]
    BY <2>1 DEF Range
  <2>3. Contents(i, e) = [blocks |-> Whole(files[n]).data, last |-> files[n].last, agrees |-> TRUE]
    BY <1>1, <1>2, <2>2, HoldsContents
  <2>4. Chain(i, e.start) = chains[n]
    BY <1>1, <1>2, <2>2, HoldsChain
  <2>5. FileIsSound(D71, 1 .. SideOne, i, files[n], chains[n])
    BY <1>1, <1>2, HoldsSound
  <2>6. /\ chains[n] \in Seq(FileSectors(D71))
        /\ \A m \in 1 .. Len(chains[n]) : chains[n][m][1] \in 1 .. SideOne
    BY <2>5 DEF FileIsSound
  <2>7. DOMAIN chains[n] = 1 .. Len(chains[n])
    BY <2>6, LenProperties
  <2>8. \A s \in Range(chains[n]) : s[1] \in 1 .. SideOne
    BY <2>6, <2>7 DEF Range
  <2>9. Contents(i, e).agrees
    BY <2>3
  <2>10. \A s \in Range(chains[n]) : s[1] <= SideOne
    BY <2>8, <1>2
  <2> QED BY <2>4, <2>9, <2>10
<1> QED BY <1>3 DEF StaysOnSideOne

-----------------------------------------------------------------------------
(* The invariant and the theorems.                                         *)

(* The inductive invariant: each image holds the files it ought to, on the *)
(* tracks it may use; the files have different names; nothing is repacked  *)
(* before the images are written, and no derivation has been refused.      *)
InstalledHeld ==
    /\ installed \in Seq(Files)
    /\ \A m, n \in 1 .. Len(installed) : installed[m].name = installed[n].name => m = n
    /\ Held(D71, FileTracks, d71, installed)
SourceHeld == Held(D71, 1 .. SideOne, source, Kept)
RepackedHeld ==
    /\ repacked \in 0 .. Len(installed)
    /\ Held(D81, Tracks(D81), d81, SubSeq(installed, 1, repacked))
StagesAreSound ==
    /\ stage \in {"building", "failed", "written", "repacked"}
    /\ stage = "building" => repacked = 0
    /\ stage \in {"written", "repacked"} => d64 = {OneSided(source)}
    /\ stage = "repacked" => repacked = Len(installed)
ImagesInv == InstalledHeld /\ SourceHeld /\ RepackedHeld /\ StagesAreSound

(* The invariant holds of the freshly formatted images.                    *)
LEMMA InvAtFirst == Init => ImagesInv
<1> SUFFICES ASSUME Init
             PROVE  ImagesInv
  OBVIOUS
<1>1. GeometryIsSound(D71) /\ GeometryIsSound(D81)
  BY DiskAssumption
<1>2. /\ installed = <<>> /\ d71 = Bootable(Blank(D71)) /\ source = Bootable(Blank(D71))
      /\ d81 = Bootable(Blank(D81)) /\ repacked = 0 /\ stage = "building"
  BY DEF Init
<1>3. <<>> \in Seq(Files) /\ Len(<<>>) = 0 /\ 1 .. Len(<<>>) = {}
  OBVIOUS
<1>4. Held(D71, FileTracks, d71, <<>>)
  BY <1>1, <1>2, BlankHolds DEF Held
<1>5. Held(D71, 1 .. SideOne, source, <<>>)
  BY <1>1, <1>2, BlankHolds DEF Held
<1>6. Held(D81, Tracks(D81), d81, <<>>)
  BY <1>1, <1>2, BlankHolds DEF Held
<1>7. Kept = <<>>
  BY <1>2, KeptIs, NoneKept
<1>8. SubSeq(installed, 1, repacked) = <<>>
  BY <1>2, SubSeqEmpty
<1>9. InstalledHeld
  BY <1>2, <1>3, <1>4 DEF InstalledHeld
<1>10. SourceHeld
  BY <1>5, <1>7 DEF SourceHeld
<1>11. RepackedHeld
  <2>1. Held(D81, Tracks(D81), d81, SubSeq(installed, 1, repacked))
    BY <1>6, <1>8
  <2>2. repacked \in 0 .. Len(installed)
    BY <1>2, <1>3
  <2> QED BY <2>1, <2>2 DEF RepackedHeld
<1>12. StagesAreSound
  BY <1>2 DEF StagesAreSound
<1> QED BY <1>9, <1>10, <1>11, <1>12 DEF ImagesInv

(* Whether a file fits depends on the number of its blocks alone.          *)
LEMMA FitsWhole ==
    ASSUME NEW g, NEW i, NEW f, NEW tracks
    PROVE  Fits(g, i, f, tracks) <=> Fits(g, i, Whole(f), tracks)
BY DEF Fits, Whole

(* A file more: both images that take it hold it behind the others.        *)
LEMMA InvAfterAddFile ==
    ASSUME ImagesInv, NEW f \in Files, AddFile(f)
    PROVE  ImagesInv'
<1> DEFINE accepted ==
               /\ f.name \notin {installed[n].name : n \in DOMAIN installed}
               /\ Fits(D71, d71, f, FileTracks)
               /\ Omitted(f) \/ Fits(D71, source, f, SourceTracks)
<1>1. InstalledHeld /\ SourceHeld /\ RepackedHeld /\ StagesAreSound
  BY DEF ImagesInv
<1>2. GeometryIsSound(D71) /\ GeometryIsSound(D81)
  BY DiskAssumption
<1>3. stage = "building" /\ UNCHANGED <<full, lean, d64, d81, repacked>>
  BY DEF AddFile
<1>4. FileTracks' = FileTracks
  BY <1>3 DEF FileTracks
<1>5. repacked = 0
  BY <1>1, <1>3 DEF StagesAreSound
<1>6. CASE ~accepted
  <2>1. stage' = "failed" /\ UNCHANGED <<installed, d71, source>>
    BY <1>6 DEF AddFile
  <2>2. Kept' = Kept
    BY <2>1, <1>3 DEF Kept, Omitted
  <2>3. InstalledHeld'
    BY <2>1, <1>1, <1>4 DEF InstalledHeld
  <2>4. SourceHeld'
    BY <2>1, <2>2, <1>1 DEF SourceHeld
  <2>5. RepackedHeld'
    BY <2>1, <1>1, <1>3 DEF RepackedHeld
  <2>6. StagesAreSound'
    BY <2>1 DEF StagesAreSound
  <2> QED BY <2>3, <2>4, <2>5, <2>6 DEF ImagesInv
<1>7. CASE accepted
  <2>1. /\ installed' = Append(installed, f)
        /\ d71' = Install(D71, d71, Whole(f), FileTracks)
        /\ source' = IF Omitted(f) THEN source
                     ELSE Install(D71, source, Whole(f), SourceTracks)
        /\ stage' = stage
    BY <1>7 DEF AddFile
  <2> DEFINE c == Len(installed)
  <2>2. /\ installed \in Seq(Files) /\ Held(D71, FileTracks, d71, installed)
        /\ \A m, n \in 1 .. c : installed[m].name = installed[n].name => m = n
    BY <1>1 DEF InstalledHeld
  <2>3. c \in Nat /\ DOMAIN installed = 1 .. c
    BY <2>2, LenProperties
  <2>4. /\ installed' \in Seq(Files) /\ Len(installed') = c + 1
        /\ (\A n \in 1 .. c : installed'[n] = installed[n]) /\ installed'[c + 1] = f
    BY <2>1, <2>2, AppendProperties
  <2>5. Held(D71, FileTracks, d71', installed')
    <3>1. Fits(D71, d71, Whole(f), FileTracks)
      BY <1>7, FitsWhole
    <3>2. Held(D71, FileTracks, Install(D71, d71, Whole(f), FileTracks), Append(installed, f))
      BY <3>1, <2>2, <1>2, Installing
    <3> QED BY <3>2, <2>1
  <2>6. ASSUME NEW m \in 1 .. c + 1, NEW n \in 1 .. c + 1, installed'[m].name = installed'[n].name
        PROVE  m = n
    <3>1. \A k \in 1 .. c : installed[k].name # f.name
      BY <1>7, <2>3
    <3>2. (m = c + 1 \/ m \in 1 .. c) /\ (n = c + 1 \/ n \in 1 .. c)
      BY <2>3
    <3> HIDE DEF c, accepted
    <3>3. CASE m \in 1 .. c /\ n \in 1 .. c
      BY <3>3, <2>2, <2>4, <2>6
    <3>4. CASE m \in 1 .. c /\ n = c + 1
      BY <3>1, <3>4, <2>4, <2>6
    <3>5. CASE m = c + 1 /\ n \in 1 .. c
      BY <3>1, <3>5, <2>4, <2>6
    <3> QED BY <3>2, <3>3, <3>4, <3>5
  <2>7. InstalledHeld'
    BY <2>4, <2>5, <2>6, <1>4 DEF InstalledHeld
  <2>8. SourceHeld'
    <3>1. Kept = KeptOf(lean, installed) /\ Held(D71, 1 .. SideOne, source, Kept)
      BY <1>1, KeptIs DEF SourceHeld
    <3>2. Kept' = KeptOf(lean, Append(installed, f))
      BY <2>1, <1>3 DEF Kept, KeptOf, KeptPlaces, Omitted
    <3>3. Omitted(f) <=> lean /\ f.name \in Optional
      BY DEF Omitted
    <3>4. Kept' = IF lean /\ f.name \in Optional THEN Kept ELSE Append(Kept, f)
      BY <3>1, <3>2, <2>2, KeptGrows
    <3>5. CASE Omitted(f)
      BY <3>1, <3>3, <3>4, <3>5, <2>1 DEF SourceHeld
    <3>6. CASE ~Omitted(f)
      <4>1. Fits(D71, source, Whole(f), 1 .. SideOne)
        BY <3>6, <1>7, FitsWhole DEF SourceTracks
      <4>2. Held(D71, 1 .. SideOne, Install(D71, source, Whole(f), 1 .. SideOne), Append(Kept, f))
        BY <4>1, <3>1, <1>2, Installing
      <4>3. source' = Install(D71, source, Whole(f), 1 .. SideOne) /\ Kept' = Append(Kept, f)
        BY <3>3, <3>4, <3>6, <2>1 DEF SourceTracks
      <4> QED BY <4>2, <4>3 DEF SourceHeld
    <3> QED BY <3>5, <3>6
  <2>9. RepackedHeld'
    <3>1. repacked' = 0 /\ d81' = d81
      BY <1>3, <1>5
    <3>2. Held(D81, Tracks(D81), d81, SubSeq(installed, 1, 0))
      BY <1>1, <1>5 DEF RepackedHeld
    <3>3. SubSeq(installed, 1, 0) = <<>> /\ SubSeq(installed', 1, 0) = <<>>
      BY SubSeqEmpty
    <3>4. 0 \in 0 .. Len(installed')
      BY <2>3, <2>4
    <3> QED BY <3>1, <3>2, <3>3, <3>4 DEF RepackedHeld
  <2>10. StagesAreSound'
    BY <2>1, <1>3, <1>5 DEF StagesAreSound
  <2> QED BY <2>7, <2>8, <2>9, <2>10 DEF ImagesInv
<1> QED BY <1>6, <1>7

(* What the last actions leave alone.                                      *)
LEMMA InstalledStays ==
    ASSUME ImagesInv, UNCHANGED <<full, lean, installed, d71, source>>
    PROVE  InstalledHeld' /\ SourceHeld' /\ installed \in Seq(Files) /\ Len(installed) \in Nat
<1>1. InstalledHeld /\ SourceHeld
  BY DEF ImagesInv
<1>2. FileTracks' = FileTracks /\ Kept' = Kept
  BY DEF FileTracks, Kept, Omitted
<1>3. InstalledHeld'
  BY <1>1, <1>2 DEF InstalledHeld
<1>4. SourceHeld'
  BY <1>1, <1>2 DEF SourceHeld
<1>5. installed \in Seq(Files) /\ Len(installed) \in Nat
  BY <1>1, LenProperties DEF InstalledHeld
<1> QED BY <1>3, <1>4, <1>5

(* The derivation of the one-sided image is not refused.                   *)
LEMMA InvAfterWriteImages ==
    ASSUME ImagesInv, WriteImages
    PROVE  ImagesInv'
<1>1. InstalledHeld /\ SourceHeld /\ RepackedHeld /\ StagesAreSound
  BY DEF ImagesInv
<1>2. stage = "building" /\ UNCHANGED <<full, lean, installed, d71, source, d81, repacked>>
  BY DEF WriteImages
<1>3. InstalledHeld' /\ SourceHeld'
  BY <1>2, InstalledStays
<1>4. StaysOnSideOne(source)
  BY <1>1, SourceStays DEF SourceHeld
<1>5. stage' = "written" /\ d64' = {OneSided(source)}
  BY <1>4 DEF WriteImages
<1>6. RepackedHeld'
  BY <1>1, <1>2 DEF RepackedHeld
<1>7. StagesAreSound'
  BY <1>2, <1>5 DEF StagesAreSound, OneSided
<1> QED BY <1>3, <1>6, <1>7 DEF ImagesInv

(* The first n elements of a sequence are the first n - 1 and the n-th.    *)
LEMMA PrefixGrows ==
    ASSUME NEW s \in Seq(Files), NEW n \in 1 .. Len(s)
    PROVE  SubSeq(s, 1, n) = Append(SubSeq(s, 1, n - 1), s[n])
<1>1. Len(s) \in Nat /\ \A k \in 1 .. Len(s) : s[k] \in Files
  BY LenProperties
<1>2. n \in Nat /\ n >= 1 /\ \A k \in 1 .. n : k \in 1 .. Len(s)
  BY <1>1
<1> DEFINE a == SubSeq(s, 1, n)
           b == SubSeq(s, 1, n - 1)
<1>3. a \in Seq(Files) /\ Len(a) = n /\ \A k \in 1 .. n : a[k] = s[k]
  <2>1. /\ a \in Seq(Files) /\ Len(a) = IF 1 <= n THEN n - 1 + 1 ELSE 0
        /\ \A k \in 1 .. n - 1 + 1 : a[k] = s[1 + k - 1]
    <3>1. \A k \in 1 .. n : s[k] \in Files
      BY <1>1, <1>2
    <3>2. 1 \in Int /\ n \in Int
      BY <1>2
    <3> QED BY <3>1, <3>2, SubSeqProperties
  <2> HIDE DEF a
  <2> QED BY <2>1, <1>2
<1>4. b \in Seq(Files) /\ Len(b) = n - 1 /\ \A k \in 1 .. n - 1 : b[k] = s[k]
  <2>1. /\ b \in Seq(Files) /\ Len(b) = IF 1 <= n - 1 THEN n - 1 - 1 + 1 ELSE 0
        /\ \A k \in 1 .. n - 1 - 1 + 1 : b[k] = s[1 + k - 1]
    <3>1. \A k \in 1 .. n - 1 : s[k] \in Files
      BY <1>1, <1>2
    <3>2. 1 \in Int /\ n - 1 \in Int
      BY <1>2
    <3> QED BY <3>1, <3>2, SubSeqProperties
  <2> HIDE DEF b
  <2> QED BY <2>1, <1>2
<1> HIDE DEF a, b
<1>5. s[n] \in Files
  BY <1>1
<1>6. /\ Append(b, s[n]) \in Seq(Files) /\ Len(Append(b, s[n])) = n
      /\ \A k \in 1 .. n : Append(b, s[n])[k] = a[k]
  BY <1>2, <1>3, <1>4, <1>5, AppendProperties
<1>7. a = Append(b, s[n])
  BY <1>3, <1>6, SeqEqual
<1> QED BY <1>7 DEF a, b

(* Neither is the repacking of the next file, whose copy is the file.      *)
LEMMA InvAfterRepackFile ==
    ASSUME ImagesInv, RepackFile
    PROVE  ImagesInv'
<1> DEFINE e == Listed(D71, d71)[repacked + 1]
           r == repacked
           f == installed[r + 1]
           c == Len(installed)
<1>1. InstalledHeld /\ SourceHeld /\ RepackedHeld /\ StagesAreSound
  BY DEF ImagesInv
<1>2. /\ stage = "written" /\ r < Len(Listed(D71, d71))
      /\ UNCHANGED <<full, lean, installed, d71, source, d64>>
  BY DEF RepackFile
<1>3. InstalledHeld' /\ SourceHeld' /\ installed \in Seq(Files) /\ c \in Nat
  BY <1>2, InstalledStays
<1>4. GeometryIsSound(D71) /\ GeometryIsSound(D81)
  BY DiskAssumption
<1>5. /\ Held(D71, FileTracks, d71, installed)
      /\ \A m, n \in 1 .. c : installed[m].name = installed[n].name => m = n
  BY <1>1 DEF InstalledHeld
<1>6. r \in 0 .. c /\ Held(D81, Tracks(D81), d81, SubSeq(installed, 1, r))
  BY <1>1 DEF RepackedHeld
<1>7. Len(Listed(D71, d71)) = c
  BY <1>4, <1>5, HoldsListed DEF Held
<1>8. r \in 0 .. c - 1 /\ r + 1 \in 1 .. c /\ r \in Nat
  BY <1>2, <1>3, <1>6, <1>7
<1>9. f \in Files
  BY <1>3, <1>8, LenProperties
<1>10. /\ Copy(d71, e) = Whole(f) /\ Contents(d71, e).agrees = TRUE /\ e.name = f.name
  <2>1. PICK k \in 1 .. c : k = r + 1
    BY <1>8
  <2>2. Copy(d71, Listed(D71, d71)[k]) = Whole(installed[k])
    BY <1>4, <1>5, CopyIsWhole
  <2>3. Contents(d71, Listed(D71, d71)[k]).agrees = TRUE
    BY <1>4, <1>5, CopyAgrees
  <2>4. Listed(D71, d71)[k].name = installed[k].name
    BY <1>4, <1>5, CopyIsNamed
  <2> QED BY <2>1, <2>2, <2>3, <2>4
<1>11. Fits(D81, d81, Copy(d71, e), Tracks(D81))
  <2>1. Fits(D81, d81, Whole(f), Tracks(D81))
    BY <1>3, <1>5, <1>6, <1>8, RepackingFits
  <2> QED BY <2>1, <1>10
<1> DEFINE part == SubSeq(installed, 1, r)
<1>12. Len(part) = r /\ \A n \in 1 .. r : part[n] = installed[n]
  <2>1. /\ Len(part) = IF 1 <= r THEN r - 1 + 1 ELSE 0
        /\ \A n \in 1 .. r - 1 + 1 : part[n] = installed[1 + n - 1]
    <3>1. \A n \in 1 .. r : installed[n] \in Files
      BY <1>3, <1>8, LenProperties
    <3>2. 1 \in Int /\ r \in Int
      BY <1>8
    <3> QED BY <3>1, <3>2, SubSeqProperties
  <2> HIDE DEF part
  <2> QED BY <2>1, <1>8
<1> DEFINE listed == Listed(D81, d81)
<1>13. e.name \notin {listed[n].name : n \in DOMAIN listed}
  <2>1. PICK dir, slots, chains : Holds(D81, Tracks(D81), d81, part, dir, slots, chains)
    BY <1>6 DEF Held
  <2>2. DOMAIN listed = 1 .. r
    <3> HIDE DEF part
    <3> QED BY <2>1, <1>4, <1>12, HoldsListed
  <2>3. ASSUME NEW n \in 1 .. r
        PROVE  listed[n].name = installed[n].name
    <3>1. n \in 1 .. Len(part)
      BY <1>12
    <3> HIDE DEF part
    <3>2. listed[n] = [name |-> part[n].name, start |-> chains[n][1], blocks |-> part[n].blocks]
      BY <2>1, <3>1, <1>4, HoldsEntry
    <3> HIDE DEF listed
    <3>3. listed[n].name = part[n].name
      BY <3>2
    <3> QED BY <3>3, <1>12
  <2>4. ASSUME NEW n \in 1 .. r
        PROVE  installed[n].name # f.name
    <3>1. n \in 1 .. c /\ n # r + 1
      BY <1>8
    <3> QED BY <3>1, <1>5, <1>8
  <2> HIDE DEF listed, e
  <2> QED BY <2>2, <2>3, <2>4, <1>10
<1>14. /\ d81' = Install(D81, d81, Copy(d71, e), Tracks(D81))
       /\ repacked' = r + 1 /\ stage' = stage
  BY <1>10, <1>11, <1>13 DEF RepackFile
<1>15. SubSeq(installed, 1, r + 1) = Append(part, f)
  <2>1. SubSeq(installed, 1, r + 1) = Append(SubSeq(installed, 1, r + 1 - 1), installed[r + 1])
    BY <1>3, <1>8, PrefixGrows
  <2>2. r + 1 - 1 = r
    BY <1>8
  <2> QED BY <2>1, <2>2
<1>16. RepackedHeld'
  <2>1. Held(D81, Tracks(D81), Install(D81, d81, Whole(f), Tracks(D81)), Append(part, f))
    <3>1. Fits(D81, d81, Whole(f), Tracks(D81))
      BY <1>10, <1>11
    <3> HIDE DEF f
    <3> QED BY <3>1, <1>4, <1>6, <1>9, Installing
  <2>2. Held(D81, Tracks(D81), d81', SubSeq(installed', 1, repacked'))
    BY <2>1, <1>2, <1>10, <1>14, <1>15
  <2>3. repacked' \in 0 .. Len(installed')
    BY <1>2, <1>8, <1>14
  <2> QED BY <2>2, <2>3 DEF RepackedHeld
<1>17. StagesAreSound'
  BY <1>1, <1>2, <1>14 DEF StagesAreSound, OneSided
<1> QED BY <1>3, <1>16, <1>17 DEF ImagesInv

(* When nothing is left to be repacked, the 1581 image has every file.     *)
LEMMA InvAfterWriteRepacked ==
    ASSUME ImagesInv, WriteRepacked
    PROVE  ImagesInv'
<1>1. InstalledHeld /\ SourceHeld /\ RepackedHeld /\ StagesAreSound
  BY DEF ImagesInv
<1>2. /\ stage = "written" /\ stage' = "repacked" /\ repacked = Len(Listed(D71, d71))
      /\ UNCHANGED <<full, lean, installed, d71, source, d64, d81, repacked>>
  BY DEF WriteRepacked
<1>3. InstalledHeld' /\ SourceHeld'
  BY <1>2, InstalledStays
<1>4. Len(Listed(D71, d71)) = Len(installed)
  <2>1. GeometryIsSound(D71) /\ Held(D71, FileTracks, d71, installed)
    BY <1>1, DiskAssumption DEF InstalledHeld
  <2> QED BY <2>1, HoldsListed DEF Held
<1>5. RepackedHeld'
  BY <1>1, <1>2 DEF RepackedHeld
<1>6. StagesAreSound'
  BY <1>1, <1>2, <1>4 DEF StagesAreSound, OneSided
<1> QED BY <1>3, <1>5, <1>6 DEF ImagesInv

(* The inductive invariant is one: throughout a build, the derivation of   *)
(* the one-sided image and the repacking, every image is a directory with  *)
(* vacant slots behind the taken ones and disjoint chains of sectors, one  *)
(* for each file it ought to hold (install_prg_file, install_file,         *)
(* d64_compatibility_image).                                               *)
THEOREM ImagesAreInvariant == Spec => []ImagesInv
<1>1. Init => ImagesInv
  BY InvAtFirst
<1>2. ImagesInv /\ [Next]_vars => ImagesInv'
  <2> SUFFICES ASSUME ImagesInv, [Next]_vars
               PROVE  ImagesInv'
    OBVIOUS
  <2>1. ASSUME NEW f \in Files, AddFile(f)
        PROVE  ImagesInv'
    BY <2>1, InvAfterAddFile
  <2>2. CASE WriteImages
    BY <2>2, InvAfterWriteImages
  <2>3. CASE RepackFile
    BY <2>3, InvAfterRepackFile
  <2>4. CASE WriteRepacked
    BY <2>4, InvAfterWriteRepacked
  <2>5. CASE UNCHANGED vars
    <3>1. UNCHANGED <<full, lean, installed, d71, source, d64, d81, repacked, stage>>
      BY <2>5 DEF vars
    <3>2. InstalledHeld' /\ SourceHeld'
      BY <3>1, InstalledStays
    <3>3. RepackedHeld'
      BY <3>1 DEF ImagesInv, RepackedHeld
    <3>4. StagesAreSound'
      BY <3>1 DEF ImagesInv, StagesAreSound, OneSided
    <3> QED BY <3>2, <3>3, <3>4 DEF ImagesInv
  <2> QED BY <2>1, <2>2, <2>3, <2>4, <2>5 DEF Next
<1> QED BY <1>1, <1>2, PTL DEF Spec

(* Every file reads back from every image as it was given, and the boot    *)
(* sectors are where the ROM looks for them, whatever the geometries, the  *)
(* files and the order in which they are installed: no installation,       *)
(* growth of the directory or repacking writes over what an earlier one    *)
(* wrote (install_prg_file, install_file, build_image).                    *)
THEOREM FilesReadBackAlways == Spec => []FilesReadBack
<1>1. ImagesInv => FilesReadBack
  <2> SUFFICES ASSUME ImagesInv
               PROVE  FilesReadBack
    OBVIOUS
  <2>1. /\ Held(D71, FileTracks, d71, installed) /\ Held(D71, 1 .. SideOne, source, Kept)
        /\ Held(D81, Tracks(D81), d81, SubSeq(installed, 1, repacked))
    BY DEF ImagesInv, InstalledHeld, SourceHeld, RepackedHeld
  <2>2. GeometryIsSound(D71) /\ GeometryIsSound(D81)
    BY DiskAssumption
  <2>3. ASSUME NEW g, GeometryIsSound(g), NEW tracks, NEW i, NEW files, Held(g, tracks, i, files)
        PROVE  ReadsBack(g, i, files) /\ \A n \in 1 .. BootBlocks : i.block[BootSectors[n]] = <<"boot", n>>
    <3>1. PICK dir, slots, chains : Holds(g, tracks, i, files, dir, slots, chains)
      BY <2>3 DEF Held
    <3>2. ReadsBack(g, i, files)
      BY <3>1, <2>3, HoldsReadsBack
    <3>3. BootIsSound(i)
      BY <3>1 DEF Holds
    <3> QED BY <3>2, <3>3 DEF BootIsSound
  <2>4. ASSUME NEW x \in Images
        PROVE  /\ ReadsBack(x[1], x[2], x[3])
               /\ \A n \in 1 .. BootBlocks : x[2].block[BootSectors[n]] = <<"boot", n>>
    <3>1. CASE x = <<D71, d71, installed>>
      BY <3>1, <2>1, <2>2, <2>3
    <3>2. CASE x = <<D71, source, Kept>>
      BY <3>2, <2>1, <2>2, <2>3
    <3>3. CASE x = <<D81, d81, SubSeq(installed, 1, repacked)>>
      BY <3>3, <2>1, <2>2, <2>3
    <3> QED BY <3>1, <3>2, <3>3 DEF Images
  <2> QED BY <2>4 DEF FilesReadBack
<1> QED BY <1>1, ImagesAreInvariant, PTL

(* The allocation map of every image frees exactly the sectors that no     *)
(* file, directory, boot or system sector uses, and its counts are the     *)
(* map's: whatever an installation takes, for its blocks or for a grown    *)
(* directory, it marks, and it marks nothing else (mark_used,              *)
(* install_prg_file).                                                      *)
THEOREM MapIsTrueAlways == Spec => []MapIsTrue
<1>1. ImagesInv => MapIsTrue
  <2> SUFFICES ASSUME ImagesInv
               PROVE  MapIsTrue
    OBVIOUS
  <2>1. /\ Held(D71, FileTracks, d71, installed) /\ Held(D71, 1 .. SideOne, source, Kept)
        /\ Held(D81, Tracks(D81), d81, SubSeq(installed, 1, repacked))
    BY DEF ImagesInv, InstalledHeld, SourceHeld, RepackedHeld
  <2>2. GeometryIsSound(D71) /\ GeometryIsSound(D81)
    BY DiskAssumption
  <2>3. ASSUME NEW g, GeometryIsSound(g), NEW tracks, NEW i, NEW files, Held(g, tracks, i, files)
        PROVE  /\ i.free = Sectors(g) \ InUse(g, i)
               /\ \A t \in Tracks(g) : i.room[t] = Cardinality({s \in i.free : s[1] = t})
    BY <2>3, HoldsMap DEF Held
  <2>4. ASSUME NEW x \in Images
        PROVE  /\ x[2].free = Sectors(x[1]) \ InUse(x[1], x[2])
               /\ \A t \in Tracks(x[1]) : x[2].room[t] = Cardinality({s \in x[2].free : s[1] = t})
    BY <2>1, <2>2, <2>3 DEF Images
  <2> QED BY <2>4 DEF MapIsTrue
<1> QED BY <1>1, ImagesAreInvariant, PTL

(* Once the 1571 image is written nothing that is derived from it is       *)
(* refused: all chains of the one-sided image's source are on its side,    *)
(* and a 1581 disk, which has at least as many directory and file sectors, *)
(* has room for whatever the 1571 disk held (d64_compatibility_image,      *)
(* build_image).                                                           *)
THEOREM DerivativesAreCompleteAlways == Spec => []DerivativesAreComplete
<1>1. ImagesInv => DerivativesAreComplete
  <2> SUFFICES ASSUME ImagesInv
               PROVE  DerivativesAreComplete
    OBVIOUS
  <2>1. /\ installed \in Seq(Files) /\ Held(D71, 1 .. SideOne, source, Kept)
        /\ Held(D81, Tracks(D81), d81, SubSeq(installed, 1, repacked))
        /\ StagesAreSound
    BY DEF ImagesInv, InstalledHeld, SourceHeld, RepackedHeld
  <2>2. GeometryIsSound(D71) /\ GeometryIsSound(D81)
    BY DiskAssumption
  <2>3. ReadsBack(D71, OneSided(source), Kept)
    <3>1. PICK dir, slots, chains : Holds(D71, 1 .. SideOne, source, Kept, dir, slots, chains)
      BY <2>1 DEF Held
    <3>2. IsImage(source) /\ ReadsBack(D71, source, Kept)
      BY <3>1, <2>2, HoldsReadsBack DEF Holds, Shaped
    <3> QED BY <3>2, OneSidedReads
  <2>4. ASSUME stage = "repacked"
        PROVE  ReadsBack(D81, d81, installed)
    <3>1. repacked = Len(installed)
      BY <2>1, <2>4 DEF StagesAreSound
    <3>2. SubSeq(installed, 1, repacked) = installed
      BY <3>1, <2>1, SubSeqFull
    <3>3. PICK dir, slots, chains : Holds(D81, Tracks(D81), d81, installed, dir, slots, chains)
      BY <3>2, <2>1 DEF Held
    <3> QED BY <3>3, <2>2, HoldsReadsBack
  <2>5. /\ stage # "stranded"
        /\ stage \in {"written", "repacked"} => d64 = {OneSided(source)}
    BY <2>1 DEF StagesAreSound
  <2>6. ASSUME stage \in {"written", "repacked"}
        PROVE  d64 # {} /\ \A i \in d64 : ReadsBack(D71, i, Kept)
    BY <2>3, <2>5, <2>6
  <2> QED BY <2>4, <2>5, <2>6 DEF DerivativesAreComplete
<1> QED BY <1>1, ImagesAreInvariant, PTL
=============================================================================
