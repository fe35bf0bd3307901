--------------------------- MODULE LLCacheProofs ---------------------------
(***************************************************************************)
(* Proofs about LLCache, for any number of objects, users and URLs, any    *)
(* messages, any calls by the client and any answers of its callbacks:     *)
(* memory may run out and fetches may fail to start.                       *)
(*                                                                         *)
(* The first four theorems follow from one inductive invariant, LInv.      *)
(* Besides what they state it says that                                    *)
(*   - an address that is free has no fetch and no candidate (Freed), so a *)
(*     message arrives for an object in use only;                          *)
(*   - a handle the client can use names an object (HandlesOK);            *)
(*   - the user being called back is a user of the object the code is at,  *)
(*     and is marked; a pass that is not calling anybody is not at a user  *)
(*     that was released; a redirect that is being announced is within the *)
(*     limit (ControlOK).                                                  *)
(*                                                                         *)
(* An operation goes through several object maps and lists before it is    *)
(* done, so the parts are predicates of any map, users and lists.  Most    *)
(* actions leave all that LInv is about as it was (Like, Alike, Kept); the *)
(* others are put together from the lemmas about ReleaseCandidate,         *)
(* AddUser, RemoveUser, MoveUsers, Retrieved and Destroy.                  *)
(***************************************************************************)
EXTENDS LLCache, FiniteSetTheorems, FunctionTheorems, WellFoundedInduction, TLAPS

-----------------------------------------------------------------------------
(* Lists.                                                                   *)

\* No element is in s twice.
Distinct(s) == \A i, j \in 1..Len(s) : s[i] = s[j] => i = j

LEMMA LeastNat ==
    ASSUME NEW S \in SUBSET Nat, S # {}
    PROVE  \E x \in S : \A y \in S : x <= y
<1>1. PICK x \in S : \A y \in S : ~(<<y, x>> \in OpToRel(<, Nat))
  BY NatLessThanWellFounded, WFMin, Zenon
<1>2. \A y \in S : ~(y < x)
  BY <1>1, Zenon DEF OpToRel
<1>3. \A y \in S : x =< y
  BY <1>2
<1> QED  BY <1>3

LEMMA GreatestNat ==
    ASSUME NEW S \in SUBSET Nat, S # {}, NEW n \in Nat, \A x \in S : x <= n
    PROVE  \E x \in S : \A y \in S : y <= x
<1> DEFINE D == { d \in Nat : n - d \in S }
<1>1. \A x \in S : n - x \in D
  OBVIOUS
<1>2. D \in SUBSET Nat /\ D # {}
  BY <1>1
<1>3. PICK d \in D : \A e \in D : d <= e
  BY <1>2, LeastNat
<1>4. n - d \in S /\ \A y \in S : y <= n - d
  BY <1>1, <1>3
<1> QED  BY <1>4

LEMMA ElemsIn ==
    ASSUME NEW T, NEW s \in Seq(T)
    PROVE  Elems(s) \subseteq T /\ \A i \in 1..Len(s) : s[i] \in Elems(s)
  BY DEF Elems

\* x is somewhere before y in s.
Before(s, x, y) == \E i, j \in 1..Len(s) : i < j /\ s[i] = x /\ s[j] = y

\* Where the elements selected come from.
LEMMA SelectedPlaces ==
    ASSUME NEW T, NEW s \in Seq(T), NEW S
    PROVE  LET t == Selected(s, S)
               I == { i \in 1..Len(s) : s[i] \in S }
           IN  /\ t \in Seq(T)
               /\ \E p \in [1..Len(t) -> I] :
                     /\ \A k \in 1..Len(t) : t[k] = s[p[k]]
                     /\ \A k, l \in 1..Len(t) : k < l => p[k] < p[l]
                     /\ \A i \in I : \E k \in 1..Len(t) : p[k] = i
<1> DEFINE I == { i \in 1..Len(s) : s[i] \in S }
           Upto(i) == { j \in I : j <= i }
           Rank(i) == Cardinality(Upto(i))
           n == Cardinality(I)
           Pos(k) == CHOOSE i \in I : Rank(i) = k
<1>1. Selected(s, S) = [k \in 1..n |-> s[Pos(k)]]
  BY DEF Selected
<1>2. IsFiniteSet(I) /\ n \in Nat
  <2>1. Len(s) \in Nat /\ IsFiniteSet(1..Len(s))
    BY FS_Interval
  <2>2. I \in SUBSET (1..Len(s))
    OBVIOUS
  <2>3. IsFiniteSet(I)
    BY <2>1, <2>2, FS_Subset, Zenon
  <2> QED  BY <2>3, FS_CardinalityType
<1>3. I \subseteq 1..Len(s) /\ I \subseteq Nat /\ Len(s) \in Nat
  OBVIOUS
<1>4. \A i \in I : IsFiniteSet(Upto(i)) /\ Rank(i) \in Nat /\ Rank(i) \in 1..n
  <2> TAKE i \in I
  <2>1. Upto(i) \in SUBSET I /\ i \in Upto(i)
    BY <1>3
  <2>2. IsFiniteSet(Upto(i)) /\ Rank(i) <= n
    BY <2>1, <1>2, FS_Subset
  <2>3. Rank(i) \in Nat /\ Rank(i) # 0
    BY <2>1, <2>2, FS_EmptySet, FS_CardinalityType
  <2> HIDE DEF Rank, n
  <2> QED  BY <2>2, <2>3, <1>2
<1>5. \A i, j \in I : i < j => Rank(i) < Rank(j)
  <2> TAKE i, j \in I
  <2> HAVE i < j
  <2>1. Upto(i) \in SUBSET Upto(j) /\ j \in Upto(j) /\ j \notin Upto(i)
    BY <1>3
  <2>2. Rank(i) <= Rank(j) /\ Rank(i) # Rank(j)
    BY <2>1, <1>4, FS_Subset
  <2>3. Rank(i) \in Nat /\ Rank(j) \in Nat
    BY <1>2, <1>4
  <2> HIDE DEF Rank
  <2> QED  BY <2>2, <2>3
<1>6. \A i, j \in I : Rank(i) = Rank(j) => i = j
  <2> TAKE i, j \in I
  <2>1. Rank(i) \in Nat /\ Rank(j) \in Nat /\ i \in Nat /\ j \in Nat
    BY <1>2, <1>3, <1>4
  <2>2. (i < j => Rank(i) < Rank(j)) /\ (j < i => Rank(j) < Rank(i))
    BY <1>5
  <2> HIDE DEF Rank
  <2> QED  BY <2>1, <2>2
<1>7. \A k \in 1..n : \E i \in I : Rank(i) = k
  <2> SUFFICES ASSUME NEW k \in 1..n, \A i \in I : Rank(i) # k
               PROVE  FALSE
    OBVIOUS
  <2> DEFINE f == [i \in I |-> Rank(i)]
             R == (1..n) \ {k}
  <2>1. IsFiniteSet(1..n) /\ Cardinality(1..n) = n
    BY <1>2, FS_Interval
  <2>2. IsFiniteSet(R) /\ Cardinality(R) = n - 1
    BY <2>1, FS_RemoveElement
  <2>3. f \in [I -> R]
    BY <1>4
  <2>4. Cardinality(R) < Cardinality(I)
    BY <2>2, <1>2
  <2>5. PICK x, y \in I : x # y /\ f[x] = f[y]
    <3> HIDE DEF I, f, R
    <3> QED  BY <1>2, <2>2, <2>3, <2>4, FS_PigeonHole
  <2> QED  BY <2>5, <1>6
<1>8. \A k \in 1..n : Pos(k) \in I /\ Rank(Pos(k)) = k
  BY <1>7
<1>9. \A i \in I : Pos(Rank(i)) = i
  BY <1>4, <1>6, <1>8
<1> DEFINE t == Selected(s, S)
<1>10. t \in Seq(T) /\ Len(t) = n /\ \A k \in 1..n : t[k] = s[Pos(k)]
  <2>1. \A k \in 1..n : s[Pos(k)] \in T
    <3> TAKE k \in 1..n
    <3>1. Pos(k) \in 1..Len(s)
      BY <1>8
    <3> HIDE DEF Pos
    <3> QED  BY <3>1
  <2> HIDE DEF n, Pos
  <2> QED  BY <1>1, <1>2, <2>1
<1> DEFINE p == [k \in 1..n |-> Pos(k)]
<1>11. p \in [1..n -> I] /\ \A k \in 1..n : p[k] = Pos(k)
  BY <1>8
<1> HIDE DEF t, n, Pos, Rank, p
<1>12. \A k, l \in 1..n : k < l => p[k] < p[l]
  <2> TAKE k, l \in 1..n
  <2> HAVE k < l
  <2>1. /\ Pos(k) \in I /\ Pos(l) \in I /\ Pos(k) \in Nat /\ Pos(l) \in Nat
        /\ Rank(Pos(k)) = k /\ Rank(Pos(l)) = l
    BY <1>3, <1>8
  <2>2. Pos(l) < Pos(k) => l < k
    BY <2>1, <1>5
  <2>3. Pos(l) # Pos(k)
    BY <2>1
  <2>4. ~(l < k)
    BY <1>2
  <2> QED  BY <2>1, <2>2, <2>3, <2>4, <1>11
<1>13. \A i \in I : \E k \in 1..n : p[k] = i
  BY <1>4, <1>9, <1>11
<1>14. \A k \in 1..n : t[k] = s[p[k]]
  BY <1>10, <1>11
<1> HIDE DEF I
<1>15. \E q \in [1..n -> I] :
          /\ \A k \in 1..n : t[k] = s[q[k]]
          /\ \A k, l \in 1..n : k < l => q[k] < q[l]
          /\ \A i \in I : \E k \in 1..n : q[k] = i
  BY <1>11, <1>12, <1>13, <1>14, Zenon
<1>16. Len(t) = n /\ t \in Seq(T)
  BY <1>10
<1> QED  BY <1>15, <1>16, Zenon DEF t, I

LEMMA SelectedFacts ==
    ASSUME NEW T, NEW s \in Seq(T), NEW S
    PROVE  /\ Selected(s, S) \in Seq(T)
           /\ Elems(Selected(s, S)) = Elems(s) \cap S
           /\ Distinct(s) => Distinct(Selected(s, S))
<1> DEFINE t == Selected(s, S)
           I == { i \in 1..Len(s) : s[i] \in S }
<1>1. t \in Seq(T) /\ \E p \in [1..Len(t) -> I] :
          /\ \A k \in 1..Len(t) : t[k] = s[p[k]]
          /\ \A k, l \in 1..Len(t) : k < l => p[k] < p[l]
          /\ \A i \in I : \E k \in 1..Len(t) : p[k] = i
  BY SelectedPlaces
<1>2. PICK p \in [1..Len(t) -> I] :
          /\ \A k \in 1..Len(t) : t[k] = s[p[k]]
          /\ \A k, l \in 1..Len(t) : k < l => p[k] < p[l]
          /\ \A i \in I : \E k \in 1..Len(t) : p[k] = i
  BY <1>1
<1> HIDE DEF t
<1>3. \A k \in 1..Len(t) : p[k] \in 1..Len(s) /\ s[p[k]] \in S
  BY <1>2
<1>4. Elems(t) \subseteq Elems(s) \cap S
  BY <1>2, <1>3 DEF Elems
<1>5. Elems(s) \cap S \subseteq Elems(t)
  BY <1>2 DEF Elems
<1>6. ASSUME Distinct(s), NEW i \in 1..Len(t), NEW j \in 1..Len(t), t[i] = t[j]
      PROVE  i = j
  <2>1. p[i] = p[j] /\ p[i] \in Nat
    BY <1>2, <1>3, <1>6 DEF Distinct
  <2>2. ~(p[i] < p[j]) /\ ~(p[j] < p[i])
    BY <2>1
  <2>3. ~(i < j) /\ ~(j < i)
    BY <1>2, <2>2
  <2> QED  BY <2>3, <1>1
<1> QED  BY <1>1, <1>4, <1>5, <1>6 DEF Distinct, t

LEMMA SelectedOrder ==
    ASSUME NEW T, NEW s \in Seq(T), NEW S, NEW x, NEW y, Before(Selected(s, S), x, y)
    PROVE  Before(s, x, y)
<1> DEFINE t == Selected(s, S)
           I == { i \in 1..Len(s) : s[i] \in S }
<1>1. \E p \in [1..Len(t) -> I] :
          /\ \A k \in 1..Len(t) : t[k] = s[p[k]]
          /\ \A k, l \in 1..Len(t) : k < l => p[k] < p[l]
  BY SelectedPlaces
<1>2. PICK p \in [1..Len(t) -> I] :
          /\ \A k \in 1..Len(t) : t[k] = s[p[k]]
          /\ \A k, l \in 1..Len(t) : k < l => p[k] < p[l]
  BY <1>1
<1>3. PICK i, j \in 1..Len(t) : i < j /\ t[i] = x /\ t[j] = y
  BY DEF Before
<1> HIDE DEF t
<1>4. p[i] \in 1..Len(s) /\ p[j] \in 1..Len(s) /\ p[i] < p[j]
  BY <1>2, <1>3
<1> QED  BY <1>2, <1>3, <1>4 DEF Before

LEMMA ReversedFacts ==
    ASSUME NEW T, NEW s \in Seq(T)
    PROVE  /\ Reversed(s) \in Seq(T)
           /\ Elems(Reversed(s)) = Elems(s)
           /\ Distinct(s) => Distinct(Reversed(s))
<1> DEFINE t == Reversed(s)
<1>1. t \in Seq(T) /\ Len(t) = Len(s) /\ \A i \in 1..Len(s) : t[i] = s[Len(s) + 1 - i]
  BY DEF Reversed
<1> HIDE DEF t
<1> DEFINE N == Len(s)
<1>0. N \in Nat /\ Len(s) = N /\ Len(t) = N /\ \A i \in 1..N : t[i] = s[N + 1 - i]
  BY <1>1
<1> HIDE DEF N
<1>2. \A i \in 1..N : N + 1 - i \in 1..N /\ N + 1 - (N + 1 - i) = i
  BY <1>0
<1>3. \A i \in 1..N : s[i] = t[N + 1 - i]
  BY <1>0, <1>2
<1>4. Elems(t) = Elems(s)
  <2>1. Elems(t) = { t[i] : i \in 1..N } /\ Elems(s) = { s[i] : i \in 1..N }
    BY <1>0 DEF Elems
  <2> QED  BY <2>1, <1>0, <1>2, <1>3
<1>5. ASSUME Distinct(s)
      PROVE  Distinct(t)
  <2>1. \A i, j \in 1..N : s[i] = s[j] => i = j
    BY <1>5, <1>0 DEF Distinct
  <2> SUFFICES ASSUME NEW i \in 1..N, NEW j \in 1..N, t[i] = t[j]
               PROVE  i = j
    BY <1>0 DEF Distinct
  <2>2. s[N + 1 - i] = s[N + 1 - j] /\ N + 1 - i \in 1..N /\ N + 1 - j \in 1..N
    BY <1>0, <1>2
  <2>3. N + 1 - i = N + 1 - j
    BY <2>1, <2>2
  <2> QED  BY <2>3, <1>0
<1> QED  BY <1>1, <1>4, <1>5 DEF t

LEMMA JoinedFacts ==
    ASSUME NEW T, NEW s \in Seq(T), NEW t \in Seq(T)
    PROVE  /\ s \o t \in Seq(T)
           /\ Elems(s \o t) = Elems(s) \cup Elems(t)
           /\ Distinct(s) /\ Distinct(t) /\ Elems(s) \cap Elems(t) = {} => Distinct(s \o t)
<1> DEFINE w == s \o t
<1>1. w \in Seq(T) /\ Len(w) = Len(s) + Len(t)
  OBVIOUS
<1>2. \A i \in 1..Len(w) : w[i] = IF i <= Len(s) THEN s[i] ELSE t[i - Len(s)]
  OBVIOUS
<1>3. /\ \A i \in 1..Len(s) : i \in 1..Len(w) /\ s[i] = w[i]
      /\ \A i \in 1..Len(t) : i + Len(s) \in 1..Len(w) /\ t[i] = w[i + Len(s)]
  BY <1>1, <1>2
<1> HIDE DEF w
<1>4. \A i \in 1..Len(w) : i <= Len(s) \/ i - Len(s) \in 1..Len(t)
  BY <1>1
<1>5. Elems(w) \subseteq Elems(s) \cup Elems(t)
  BY <1>1, <1>2, <1>4 DEF Elems
<1>6. Elems(s) \subseteq Elems(w) /\ Elems(t) \subseteq Elems(w)
  BY <1>3 DEF Elems
<1>7. ASSUME Distinct(s), Distinct(t), Elems(s) \cap Elems(t) = {}
      PROVE  Distinct(w)
  <2> SUFFICES ASSUME NEW i \in 1..Len(w), NEW j \in 1..Len(w), w[i] = w[j]
               PROVE  i = j
    BY DEF Distinct
  <2>1. \A k \in 1..Len(w) : IF k <= Len(s) THEN k \in 1..Len(s) /\ w[k] = s[k] /\ w[k] \in Elems(s)
                             ELSE k - Len(s) \in 1..Len(t) /\ w[k] = t[k - Len(s)] /\ w[k] \in Elems(t)
    BY <1>1, <1>2, <1>4 DEF Elems
  <2>2. CASE i <= Len(s) /\ j <= Len(s)
    BY <2>1, <2>2, <1>7 DEF Distinct
  <2>3. CASE ~(i <= Len(s)) /\ ~(j <= Len(s))
    <3>1. i - Len(s) = j - Len(s)
      BY <2>1, <2>3, <1>7 DEF Distinct
    <3> QED  BY <3>1
  <2> QED  BY <2>1, <2>2, <2>3, <1>7
<1> QED  BY <1>1, <1>5, <1>6, <1>7 DEF w

LEMMA Pushed ==
    ASSUME NEW T, NEW s \in Seq(T), NEW x \in T
    PROVE  /\ <<x>> \o s \in Seq(T)
           /\ Elems(<<x>> \o s) = {x} \cup Elems(s)
           /\ Distinct(s) /\ x \notin Elems(s) => Distinct(<<x>> \o s)
<1>1. <<x>> \in Seq(T) /\ Len(<<x>>) = 1 /\ <<x>>[1] = x
  OBVIOUS
<1>2. Elems(<<x>>) = {x} /\ Distinct(<<x>>)
  BY <1>1 DEF Elems, Distinct
<1> DEFINE a == <<x>>
<1> HIDE DEF a
<1>3. /\ a \o s \in Seq(T)
      /\ Elems(a \o s) = Elems(a) \cup Elems(s)
      /\ Distinct(a) /\ Distinct(s) /\ Elems(a) \cap Elems(s) = {} => Distinct(a \o s)
  BY <1>1, JoinedFacts DEF a
<1>4. Elems(a) = {x} /\ Distinct(a)
  BY <1>2 DEF a
<1>5. /\ a \o s \in Seq(T)
      /\ Elems(a \o s) = {x} \cup Elems(s)
      /\ Distinct(s) /\ x \notin Elems(s) => Distinct(a \o s)
  BY <1>3, <1>4
<1> QED  BY <1>5 DEF a

LEMMA SuccessorFacts ==
    ASSUME NEW T, NEW s \in Seq(T), NEW x \in Elems(s)
    PROVE  /\ Successor(s, x) \in Elems(s) \cup {NONE}
           /\ Distinct(s) => Successor(s, x) = NONE \/ Successor(s, x) # x
<1> DEFINE i == CHOOSE i \in 1..Len(s) : s[i] = x
<1>1. i \in 1..Len(s) /\ s[i] = x
  BY DEF Elems
<1>2. Successor(s, x) = IF i < Len(s) THEN s[i + 1] ELSE NONE
  BY DEF Successor
<1> HIDE DEF i
<1>3. i < Len(s) => i + 1 \in 1..Len(s) /\ i + 1 # i
  BY <1>1
<1> QED  BY <1>1, <1>2, <1>3 DEF Elems, Distinct

LEMMA FirstFacts ==
    ASSUME NEW T, NEW s \in Seq(T)
    PROVE  First(s) \in Elems(s) \cup {NONE}
<1>1. CASE s = << >>
  BY <1>1 DEF First
<1>2. CASE s # << >>
  <2>1. Head(s) = s[1] /\ 1 \in 1..Len(s)
    BY <1>2
  <2> QED  BY <2>1, <1>2 DEF First, Elems
<1> QED  BY <1>1, <1>2

LEMMA SuccessorOrder ==
    ASSUME NEW T, NEW s \in Seq(T), NEW x \in Elems(s), Distinct(s), NONE \notin T
    PROVE  /\ Successor(s, x) = NONE => \A z \in Elems(s) : z = x \/ Before(s, z, x)
           /\ Successor(s, x) # NONE =>
                 \A z : Before(s, z, Successor(s, x)) => z = x \/ Before(s, z, x)
<1> DEFINE i == CHOOSE i \in 1..Len(s) : s[i] = x
<1>1. i \in 1..Len(s) /\ s[i] = x
  BY DEF Elems
<1>2. Successor(s, x) = IF i < Len(s) THEN s[i + 1] ELSE NONE
  BY DEF Successor
<1> HIDE DEF i
<1>3. i < Len(s) => i + 1 \in 1..Len(s) /\ s[i + 1] \in T
  BY <1>1
<1>4. ASSUME Successor(s, x) = NONE, NEW z \in Elems(s)
      PROVE  z = x \/ Before(s, z, x)
  <2>1. i = Len(s)
    BY <1>1, <1>2, <1>3, <1>4
  <2>2. PICK k \in 1..Len(s) : s[k] = z
    BY DEF Elems
  <2>3. k = i \/ k < i
    BY <2>1
  <2> QED  BY <1>1, <2>2, <2>3 DEF Before
<1>5. ASSUME Successor(s, x) # NONE, NEW z, Before(s, z, Successor(s, x))
      PROVE  z = x \/ Before(s, z, x)
  <2>1. i < Len(s) /\ Successor(s, x) = s[i + 1] /\ i + 1 \in 1..Len(s)
    BY <1>2, <1>3, <1>5
  <2>2. PICK k, l \in 1..Len(s) : k < l /\ s[k] = z /\ s[l] = s[i + 1]
    BY <1>5, <2>1 DEF Before
  <2>3. l = i + 1
    BY <2>1, <2>2 DEF Distinct
  <2>4. k = i \/ k < i
    BY <1>1, <2>2, <2>3
  <2> QED  BY <1>1, <2>2, <2>4 DEF Before
<1> QED  BY <1>4, <1>5

LEMMA FirstOrder ==
    ASSUME NEW T, NEW s \in Seq(T), Distinct(s), NONE \notin T
    PROVE  /\ First(s) = NONE => Elems(s) = {}
           /\ First(s) # NONE => First(s) \in Elems(s) /\ \A z : ~Before(s, z, First(s))
<1>1. CASE s = << >>
  <2>1. First(s) = NONE /\ Len(s) = 0
    BY <1>1 DEF First
  <2> QED  BY <2>1 DEF Elems
<1>2. CASE s # << >>
  <2>1. First(s) = s[1] /\ 1 \in 1..Len(s) /\ s[1] \in T
    BY <1>2 DEF First
  <2>2. First(s) # NONE /\ First(s) \in Elems(s)
    BY <2>1, ElemsIn
  <2>3. ASSUME NEW z, Before(s, z, First(s))
        PROVE  FALSE
    <3>1. PICK k, l \in 1..Len(s) : k < l /\ s[k] = z /\ s[l] = s[1]
      BY <2>1, <2>3 DEF Before
    <3> QED  BY <2>1, <3>1 DEF Distinct
  <2> QED  BY <2>2, <2>3
<1> QED  BY <1>1, <1>2

-----------------------------------------------------------------------------
(* The invariant.  Its parts are stated of any object map m, users us and   *)
(* lists cs and un, because an operation goes through several maps.         *)

\* The objects that have o for a candidate.
Relying(m, o) == { p \in Objects : m[p].candidate = o }

Candidates(m) ==
    \A o \in Objects :
        /\ m[o].candidate # NONE => m[m[o].candidate].used
        /\ m[o].candidate_count >= Cardinality(Relying(m, o))

\* An address that is not used names nothing and is not called.
Freed(m) == \A o \in Objects : ~m[o].used => m[o].fetch = "none" /\ m[o].candidate = NONE

Bounded(m) == \A o \in Objects : m[o].redirect_count <= fetch_redirect_limit + 1

MapOK(m) == /\ m \in [Objects -> ObjectRecord]
            /\ Candidates(m) /\ Freed(m) /\ Bounded(m)

\* A user is in the list of the object it names, once, and in no other.
Linked(m, us) ==
    /\ \A o \in Objects : Distinct(m[o].users)
    /\ \A o \in Objects : \A u \in Elems(m[o].users) : us[u].object = o
    /\ \A u \in Users : us[u].object # NONE =>
          u \in Elems(m[us[u].object].users) /\ m[us[u].object].used

Listed(m, cs, un) == \A o \in Objects : m[o].used <=> o \in Elems(cs) \cup Elems(un)

\* A handle the client can use names an object.
HandlesOK == \A u \in Users : user[u].handle => user[u].object # NONE

\* The user being called, its object, and the redirect that is followed; only
\* a user that is being called can have been released.
ControlOK ==
    ctl.kind # "idle" =>
        /\ object[ctl.obj].used
        /\ ctl.cur # NONE => user[ctl.cur].object = ctl.obj /\ user[ctl.cur].iterator_target
        /\ ctl.kind = "event" /\ ctl.then # NONE =>
              object[ctl.obj].redirect_count <= fetch_redirect_limit
        /\ ctl.kind = "pass" /\ ctl.call = NONE /\ ctl.cur # NONE =>
              ~user[ctl.cur].queued_for_delete
        /\ ctl.kind = "pass" /\ ctl.cur = NONE => ctl.call = NONE

LInv == /\ TypeOK
        /\ MapOK(object)
        /\ Linked(object, user)
        /\ Listed(object, cached, uncached)
        /\ HandlesOK
        /\ ControlOK
        /\ OnlyTheTargetLingers

-----------------------------------------------------------------------------
(* Object maps.                                                             *)

\* n differs from m in nothing that the invariant is about but the users.
Like(m, n) ==
    /\ n \in [Objects -> ObjectRecord]
    /\ \A o \in Objects :
          /\ n[o].used = m[o].used
          /\ n[o].candidate = m[o].candidate
          /\ n[o].candidate_count = m[o].candidate_count
          /\ n[o].redirect_count = m[o].redirect_count
          /\ ~m[o].used => n[o].fetch = m[o].fetch

SameUsers(m, n) == \A o \in Objects : n[o].users = m[o].users

LEMMA RelyingFacts ==
    ASSUME NEW m, NEW o
    PROVE  /\ Relying(m, o) \in SUBSET Objects /\ IsFiniteSet(Relying(m, o))
           /\ Cardinality(Relying(m, o)) \in Nat
<1>1. Relying(m, o) \in SUBSET Objects
  BY DEF Relying
<1>2. IsFiniteSet(Relying(m, o))
  BY <1>1, LLCacheAssumption, FS_Subset
<1> QED  BY <1>1, <1>2, FS_CardinalityType

LEMMA LikeMap ==
    ASSUME NEW m, NEW n, MapOK(m), Like(m, n)
    PROVE  MapOK(n)
<1>1. \A o \in Objects : Relying(n, o) = Relying(m, o)
  BY DEF Relying, Like
<1>2. \A o \in Objects : m[o].candidate \in Objects \cup {NONE}
  BY DEF MapOK, ObjectRecord
<1>3. Candidates(n)
  BY <1>1, <1>2 DEF MapOK, Candidates, Like
<1> QED  BY <1>3 DEF MapOK, Like, Freed, Bounded

LEMMA LikeLinked ==
    ASSUME NEW m, NEW n, NEW us \in [Users -> UserRecord], Linked(m, us), Like(m, n), SameUsers(m, n)
    PROVE  Linked(n, us)
  BY DEF Linked, Like, SameUsers, UserRecord

LEMMA LikeTrans ==
    ASSUME NEW m, NEW n, NEW k, Like(m, n), Like(n, k)
    PROVE  Like(m, k)
  BY DEF Like

LEMMA SameTrans ==
    ASSUME NEW m, NEW n, NEW k, SameUsers(m, n), SameUsers(n, k)
    PROVE  SameUsers(m, k)
  BY DEF SameUsers

\* Replacing a record by one that is alike.
LikeRecord(q, r) ==
    /\ r \in ObjectRecord /\ r.used = q.used /\ r.candidate = q.candidate
    /\ r.candidate_count = q.candidate_count /\ r.redirect_count = q.redirect_count
    /\ ~q.used => r.fetch = q.fetch

LEMMA PutLike ==
    ASSUME NEW m \in [Objects -> ObjectRecord], NEW o \in Objects, NEW r, LikeRecord(m[o], r)
    PROVE  /\ Like(m, [m EXCEPT ![o] = r])
           /\ r.users = m[o].users => SameUsers(m, [m EXCEPT ![o] = r])
  BY DEF Like, LikeRecord, SameUsers

-----------------------------------------------------------------------------
(* Records: what the handlers change in an object.                          *)

LEMMA LikeFetch ==
    ASSUME NEW r \in ObjectRecord, r.used, NEW f \in {"none", "running", "ended"}
    PROVE  LikeRecord(r, [r EXCEPT !.fetch = f]) /\ ([r EXCEPT !.fetch = f]).users = r.users
<1> DEFINE q == [r EXCEPT !.fetch = f]
<1>1. q \in ObjectRecord
  BY DEF ObjectRecord
<1>2. /\ q.used = r.used /\ q.candidate = r.candidate /\ q.candidate_count = r.candidate_count
      /\ q.redirect_count = r.redirect_count /\ q.users = r.users /\ (~r.used => q.fetch = r.fetch)
  BY DEF ObjectRecord
<1> HIDE DEF q
<1>3. LikeRecord(r, q) /\ q.users = r.users
  BY <1>1, <1>2 DEF LikeRecord
<1> QED  BY <1>3 DEF q

LEMMA LikeHeader ==
    ASSUME NEW r \in ObjectRecord, NEW s \in INIT..COMPLETE, NEW c \in CacheControl
    PROVE  LikeRecord(r, [r EXCEPT !.state = s, !.cache = c]) /\ ([r EXCEPT !.state = s, !.cache = c]).users = r.users
<1> DEFINE q == [r EXCEPT !.state = s, !.cache = c]
<1>1. q \in ObjectRecord
  BY DEF ObjectRecord
<1>2. /\ q.used = r.used /\ q.candidate = r.candidate /\ q.candidate_count = r.candidate_count
      /\ q.redirect_count = r.redirect_count /\ q.users = r.users /\ (~r.used => q.fetch = r.fetch)
  BY DEF ObjectRecord
<1> HIDE DEF q
<1>3. LikeRecord(r, q) /\ q.users = r.users
  BY <1>1, <1>2 DEF LikeRecord
<1> QED  BY <1>3 DEF q

WithData(r, s, c, l, b) == [r EXCEPT !.state = s, !.cache = c, !.len = l, !.body = b]

LEMMA LikeData ==
    ASSUME NEW r \in ObjectRecord, NEW s \in INIT..COMPLETE, NEW c \in CacheControl,
           NEW l \in 0..MaxLen, NEW b \in {"none", "part", "old", "whole", "mixed"}
    PROVE  LikeRecord(r, WithData(r, s, c, l, b)) /\ WithData(r, s, c, l, b).users = r.users
<1> DEFINE q == WithData(r, s, c, l, b)
<1>1. q \in ObjectRecord
  BY DEF ObjectRecord, WithData
<1>2. /\ q.used = r.used /\ q.candidate = r.candidate /\ q.candidate_count = r.candidate_count
      /\ q.redirect_count = r.redirect_count /\ q.users = r.users /\ (~r.used => q.fetch = r.fetch)
  BY DEF ObjectRecord, WithData
<1> HIDE DEF q
<1>3. LikeRecord(r, q) /\ q.users = r.users
  BY <1>1, <1>2 DEF LikeRecord
<1> QED  BY <1>3 DEF q

WithBody(r, s, f, d, b) == [r EXCEPT !.state = s, !.fetch = f, !.conditional = d, !.body = b]

LEMMA LikeFinished ==
    ASSUME NEW r \in ObjectRecord, r.used, NEW s \in INIT..COMPLETE, NEW f \in {"none", "running", "ended"},
           NEW d \in BOOLEAN, NEW b \in {"none", "part", "old", "whole", "mixed"}
    PROVE  LikeRecord(r, WithBody(r, s, f, d, b)) /\ WithBody(r, s, f, d, b).users = r.users
<1> DEFINE q == WithBody(r, s, f, d, b)
<1>1. q \in ObjectRecord
  BY DEF ObjectRecord, WithBody
<1>2. /\ q.used = r.used /\ q.candidate = r.candidate /\ q.candidate_count = r.candidate_count
      /\ q.redirect_count = r.redirect_count /\ q.users = r.users /\ (~r.used => q.fetch = r.fetch)
  BY DEF ObjectRecord, WithBody
<1> HIDE DEF q
<1>3. LikeRecord(r, q) /\ q.users = r.users
  BY <1>1, <1>2 DEF LikeRecord
<1> QED  BY <1>3 DEF q

LEMMA LikeChain ==
    ASSUME NEW r \in ObjectRecord, NEW b \in BOOLEAN
    PROVE  LikeRecord(r, [r EXCEPT !.chain = b]) /\ ([r EXCEPT !.chain = b]).users = r.users
<1> DEFINE q == [r EXCEPT !.chain = b]
<1>1. q \in ObjectRecord
  BY DEF ObjectRecord
<1>2. /\ q.used = r.used /\ q.candidate = r.candidate /\ q.candidate_count = r.candidate_count
      /\ q.redirect_count = r.redirect_count /\ q.users = r.users /\ (~r.used => q.fetch = r.fetch)
  BY DEF ObjectRecord
<1> HIDE DEF q
<1>3. LikeRecord(r, q) /\ q.users = r.users
  BY <1>1, <1>2 DEF LikeRecord
<1> QED  BY <1>3 DEF q

LEMMA LikeStream ==
    ASSUME NEW r \in ObjectRecord, NEW b \in BOOLEAN
    PROVE  LikeRecord(r, [r EXCEPT !.stream = b]) /\ ([r EXCEPT !.stream = b]).users = r.users
<1> DEFINE q == [r EXCEPT !.stream = b]
<1>1. q \in ObjectRecord
  BY DEF ObjectRecord
<1>2. /\ q.used = r.used /\ q.candidate = r.candidate /\ q.candidate_count = r.candidate_count
      /\ q.redirect_count = r.redirect_count /\ q.users = r.users /\ (~r.used => q.fetch = r.fetch)
  BY DEF ObjectRecord
<1> HIDE DEF q
<1>3. LikeRecord(r, q) /\ q.users = r.users
  BY <1>1, <1>2 DEF LikeRecord
<1> QED  BY <1>3 DEF q

LEMMA LikeLen ==
    ASSUME NEW r \in ObjectRecord, NEW l \in 0..MaxLen
    PROVE  LikeRecord(r, [r EXCEPT !.len = l]) /\ ([r EXCEPT !.len = l]).users = r.users
<1> DEFINE q == [r EXCEPT !.len = l]
<1>1. q \in ObjectRecord
  BY DEF ObjectRecord
<1>2. /\ q.used = r.used /\ q.candidate = r.candidate /\ q.candidate_count = r.candidate_count
      /\ q.redirect_count = r.redirect_count /\ q.users = r.users /\ (~r.used => q.fetch = r.fetch)
  BY DEF ObjectRecord
<1> HIDE DEF q
<1>3. LikeRecord(r, q) /\ q.users = r.users
  BY <1>1, <1>2 DEF LikeRecord
<1> QED  BY <1>3 DEF q

LEMMA LikeCache ==
    ASSUME NEW r \in ObjectRecord, NEW c \in CacheControl
    PROVE  LikeRecord(r, [r EXCEPT !.cache = c]) /\ ([r EXCEPT !.cache = c]).users = r.users
<1> DEFINE q == [r EXCEPT !.cache = c]
<1>1. q \in ObjectRecord
  BY DEF ObjectRecord
<1>2. /\ q.used = r.used /\ q.candidate = r.candidate /\ q.candidate_count = r.candidate_count
      /\ q.redirect_count = r.redirect_count /\ q.users = r.users /\ (~r.used => q.fetch = r.fetch)
  BY DEF ObjectRecord
<1> HIDE DEF q
<1>3. LikeRecord(r, q) /\ q.users = r.users
  BY <1>1, <1>2 DEF LikeRecord
<1> QED  BY <1>3 DEF q

LEMMA LikeEnded ==
    ASSUME NEW r \in ObjectRecord, r.used, NEW s \in INIT..COMPLETE, NEW f \in {"none", "running", "ended"},
           NEW c \in CacheControl, NEW d \in BOOLEAN
    PROVE  LikeRecord(r, [r EXCEPT !.fetch = f, !.cache = c, !.state = s, !.conditional = d]) /\ ([r EXCEPT !.fetch = f, !.cache = c, !.state = s, !.conditional = d]).users = r.users
<1> DEFINE q == [r EXCEPT !.fetch = f, !.cache = c, !.state = s, !.conditional = d]
<1>1. q \in ObjectRecord
  BY DEF ObjectRecord
<1>2. /\ q.used = r.used /\ q.candidate = r.candidate /\ q.candidate_count = r.candidate_count
      /\ q.redirect_count = r.redirect_count /\ q.users = r.users /\ (~r.used => q.fetch = r.fetch)
  BY DEF ObjectRecord
<1> HIDE DEF q
<1>3. LikeRecord(r, q) /\ q.users = r.users
  BY <1>1, <1>2 DEF LikeRecord
<1> QED  BY <1>3 DEF q

LEMMA LikeTimedOut ==
    ASSUME NEW r \in ObjectRecord, r.used, NEW n \in Nat, NEW f \in {"none", "running", "ended"}
    PROVE  LikeRecord(r, [r EXCEPT !.retries_remaining = n, !.fetch = f]) /\ ([r EXCEPT !.retries_remaining = n, !.fetch = f]).users = r.users
<1> DEFINE q == [r EXCEPT !.retries_remaining = n, !.fetch = f]
<1>1. q \in ObjectRecord
  BY DEF ObjectRecord
<1>2. /\ q.used = r.used /\ q.candidate = r.candidate /\ q.candidate_count = r.candidate_count
      /\ q.redirect_count = r.redirect_count /\ q.users = r.users /\ (~r.used => q.fetch = r.fetch)
  BY DEF ObjectRecord
<1> HIDE DEF q
<1>3. LikeRecord(r, q) /\ q.users = r.users
  BY <1>1, <1>2 DEF LikeRecord
<1> QED  BY <1>3 DEF q

WithTries(r, f, c, a, b) == [r EXCEPT !.fetch = f, !.cache = c, !.tried_with_auth = a,
                                  !.tried_with_tls_downgrade = b]

LEMMA LikeStopped ==
    ASSUME NEW r \in ObjectRecord, r.used, NEW f \in {"none", "running", "ended"},
           NEW c \in CacheControl, NEW a \in BOOLEAN, NEW b \in BOOLEAN
    PROVE  LikeRecord(r, WithTries(r, f, c, a, b)) /\ WithTries(r, f, c, a, b).users = r.users
<1> DEFINE q == WithTries(r, f, c, a, b)
<1>1. q \in ObjectRecord
  BY DEF ObjectRecord, WithTries
<1>2. /\ q.used = r.used /\ q.candidate = r.candidate /\ q.candidate_count = r.candidate_count
      /\ q.redirect_count = r.redirect_count /\ q.users = r.users /\ (~r.used => q.fetch = r.fetch)
  BY DEF ObjectRecord, WithTries
<1> HIDE DEF q
<1>3. LikeRecord(r, q) /\ q.users = r.users
  BY <1>1, <1>2 DEF LikeRecord
<1> QED  BY <1>3 DEF q

\* The rank of the request of object o.
Rank(m, o) == Cardinality({ m[p].cache.req : p \in { q \in Objects :
                                m[q].cache.req \in 1..m[o].cache.req } })

LEMMA RankBound ==
    ASSUME NEW m, NEW o
    PROVE  Rank(m, o) \in 0..Cardinality(Objects)
<1> DEFINE B == { q \in Objects : m[q].cache.req \in 1..m[o].cache.req }
           R == { m[p].cache.req : p \in B }
           f == [p \in B |-> m[p].cache.req]
<1>1. B \in SUBSET Objects
  OBVIOUS
<1>2. f \in Surjection(B, R)
  BY DEF Surjection
<1>3. Rank(m, o) = Cardinality(R)
  BY DEF Rank
<1> HIDE DEF B, R, f
<1>4. IsFiniteSet(B) /\ Cardinality(B) <= Cardinality(Objects) /\ Cardinality(B) \in Nat
      /\ Cardinality(Objects) \in Nat
  BY <1>1, LLCacheAssumption, FS_Subset, FS_CardinalityType
<1>5. IsFiniteSet(R) /\ Cardinality(R) <= Cardinality(B)
  BY <1>4, <1>2, FS_Surjection
<1>6. Cardinality(R) \in Nat
  BY <1>5, FS_CardinalityType
<1> QED  BY <1>3, <1>4, <1>5, <1>6

\* A record with another request time.
Stamped(r, n) == [r EXCEPT !.cache = [@ EXCEPT !.req = n]]

LEMMA StampedLike ==
    ASSUME NEW r \in ObjectRecord, NEW n \in 0..Cardinality(Objects)
    PROVE  LikeRecord(r, Stamped(r, n)) /\ Stamped(r, n).users = r.users
<1> DEFINE c == [r.cache EXCEPT !.req = n]
<1>1. r.cache \in CacheControl
  BY DEF ObjectRecord
<1>2. c \in CacheControl
  BY <1>1 DEF CacheControl
<1>3. Stamped(r, n) = [r EXCEPT !.cache = c]
  BY DEF Stamped
<1> HIDE DEF c
<1> QED  BY <1>2, <1>3 DEF LikeRecord, ObjectRecord

LEMMA RefetchLike ==
    ASSUME NEW r \in ObjectRecord, r.used, NEW n, NEW k \in 0..Cardinality(Objects)
    PROVE  LikeRecord(r, Stamped(Refetch(r, n), k)) /\ Stamped(Refetch(r, n), k).users = r.users
<1> DEFINE c == [Invalid EXCEPT !.req = k]
           v == r.cache.validator
           b == IF r.body = "part" THEN "old" ELSE r.body
<1>1. c \in CacheControl
  BY DEF CacheControl, Invalid
<1>2. v \in BOOLEAN
  BY DEF ObjectRecord, CacheControl
<1>3. b \in {"none", "part", "old", "whole", "mixed"}
  BY DEF ObjectRecord
<1>4. Stamped(Refetch(r, n), k) = [r EXCEPT !.cache = c, !.conditional = v, !.state = INIT,
                                          !.fetch = "running", !.body = b]
  <2> DEFINE d == [Invalid EXCEPT !.req = n]
             w == [r EXCEPT !.cache = d, !.conditional = v, !.state = INIT, !.fetch = "running",
                            !.body = b]
             e == [d EXCEPT !.req = k]
  <2>1. Refetch(r, n) = w
    BY DEF Refetch
  <2>2. e = c
    BY DEF Invalid
  <2> HIDE DEF d, v, b
  <2>3. w.cache = d
    BY DEF ObjectRecord
  <2>4. Stamped(w, k) = [w EXCEPT !.cache = e]
    BY <2>3 DEF Stamped
  <2> HIDE DEF c, e
  <2>5. [w EXCEPT !.cache = c] = [r EXCEPT !.cache = c, !.conditional = v, !.state = INIT,
                                           !.fetch = "running", !.body = b]
    BY DEF ObjectRecord
  <2> QED  BY <2>1, <2>2, <2>4, <2>5
<1> HIDE DEF c, v, b
<1>5. INIT \in INIT..COMPLETE
  BY DEF INIT, COMPLETE
<1>6. [r EXCEPT !.cache = c, !.conditional = v, !.state = INIT, !.fetch = "running", !.body = b]
         \in ObjectRecord
  BY <1>1, <1>2, <1>3, <1>5 DEF ObjectRecord
<1> DEFINE q == Stamped(Refetch(r, n), k)
<1>7. /\ q.used = r.used /\ q.candidate = r.candidate /\ q.candidate_count = r.candidate_count
      /\ q.redirect_count = r.redirect_count /\ q.users = r.users
  BY <1>4 DEF ObjectRecord
<1>8. q \in ObjectRecord
  BY <1>4, <1>6
<1> HIDE DEF q
<1>9. LikeRecord(r, q) /\ q.users = r.users
  BY <1>7, <1>8 DEF LikeRecord
<1> QED  BY <1>9 DEF q

LEMMA RefetchedLike ==
    ASSUME NEW m \in [Objects -> ObjectRecord], NEW o \in Objects, m[o].used,
           NEW n \in Refetched(m, o)
    PROVE  Like(m, n) /\ SameUsers(m, n)
<1>1. PICK r : n = Ranked([m EXCEPT ![o] = Refetch(m[o], r)])
  BY DEF Refetched
<1> DEFINE k == [m EXCEPT ![o] = Refetch(m[o], r)]
<1>2. n = [p \in Objects |-> Stamped(k[p], Rank(k, p))]
  BY <1>1 DEF Ranked, Stamped, Rank
<1>3. \A p \in Objects : k[p] = IF p = o THEN Refetch(m[o], r) ELSE m[p]
  OBVIOUS
<1> HIDE DEF k
<1>4. ASSUME NEW p \in Objects
      PROVE  LikeRecord(m[p], n[p]) /\ n[p].users = m[p].users
  <2>1. Rank(k, p) \in 0..Cardinality(Objects) /\ m[p] \in ObjectRecord
    BY RankBound
  <2>2. CASE p = o
    BY <2>1, <2>2, <1>2, <1>3, RefetchLike
  <2>3. CASE p # o
    BY <2>1, <2>3, <1>2, <1>3, StampedLike
  <2> QED  BY <2>2, <2>3
<1> QED  BY <1>2, <1>4 DEF Like, LikeRecord, SameUsers

LEMMA RefetchFailedLike ==
    ASSUME NEW m \in [Objects -> ObjectRecord], NEW o \in Objects, m[o].used,
           NEW n \in RefetchFailed(m, o)
    PROVE  Like(m, n) /\ SameUsers(m, n)
<1>1. PICK k \in Refetched(m, o) : n = [k EXCEPT ![o] = [@ EXCEPT !.fetch = m[o].fetch]]
  BY Zenon DEF RefetchFailed
<1>2. Like(m, k) /\ SameUsers(m, k)
  BY RefetchedLike
<1>3. k \in [Objects -> ObjectRecord] /\ k[o].used
  BY <1>2 DEF Like
<1> DEFINE f == m[o].fetch
           r == [k[o] EXCEPT !.fetch = f]
<1>4. f \in {"none", "running", "ended"}
  BY DEF ObjectRecord
<1> HIDE DEF f
<1>5. LikeRecord(k[o], r) /\ r.users = k[o].users
  BY <1>3, <1>4, LikeFetch
<1>6. n = [k EXCEPT ![o] = r]
  BY <1>1 DEF f
<1> HIDE DEF r
<1>7. Like(k, n) /\ SameUsers(k, n)
  BY <1>3, <1>5, <1>6, PutLike
<1> QED  BY <1>2, <1>7, LikeTrans, SameTrans

LEMMA EndedLike ==
    ASSUME NEW r \in ObjectRecord, r.used
    PROVE  LikeRecord(r, Ended(r)) /\ Ended(r).users = r.users
<1>1. Invalid \in CacheControl
  <2>1. Cardinality(Objects) \in Nat
    BY LLCacheAssumption, FS_CardinalityType
  <2> QED  BY <2>1 DEF Invalid, CacheControl
<1>2. COMPLETE \in INIT..COMPLETE
  BY DEF INIT, COMPLETE
<1> QED  BY <1>1, <1>2, LikeEnded DEF Ended

\* n has the objects of m, with the same users.
Alike(m, n) == Like(m, n) /\ SameUsers(m, n)

LEMMA PutAlike ==
    ASSUME NEW m \in [Objects -> ObjectRecord], NEW o \in Objects, NEW r,
           LikeRecord(m[o], r), r.users = m[o].users
    PROVE  Alike(m, [m EXCEPT ![o] = r])
  BY PutLike DEF Alike

LEMMA AlikeTrans ==
    ASSUME NEW m, NEW n, NEW k, Alike(m, n), Alike(n, k)
    PROVE  Alike(m, k)
  BY LikeTrans, SameTrans DEF Alike

LEMMA AlikeRefl ==
    ASSUME NEW m \in [Objects -> ObjectRecord]
    PROVE  Alike(m, m)
  BY DEF Alike, Like, SameUsers

\* What users and lists need of a new map n.
Kept(m, n) ==
    \A o \in Objects : /\ n[o].used = m[o].used /\ n[o].users = m[o].users
                       /\ n[o].redirect_count = m[o].redirect_count

LEMMA AlikeKept ==
    ASSUME NEW m, NEW n, MapOK(m), Alike(m, n)
    PROVE  MapOK(n) /\ Kept(m, n)
<1>1. MapOK(n)
  BY LikeMap DEF Alike
<1>2. Kept(m, n)
  BY DEF Alike, Like, SameUsers, Kept
<1> QED  BY <1>1, <1>2

LEMMA KeptTrans ==
    ASSUME NEW m, NEW n, NEW k, Kept(m, n), Kept(n, k)
    PROVE  Kept(m, k)
  BY DEF Kept

LEMMA KeptLinked ==
    ASSUME NEW m, NEW n, NEW us \in [Users -> UserRecord], Linked(m, us), Kept(m, n)
    PROVE  Linked(n, us)
  BY DEF Linked, Kept, UserRecord

LEMMA KeptListed ==
    ASSUME NEW m, NEW n, NEW cs, NEW un, Listed(m, cs, un), Kept(m, n)
    PROVE  Listed(n, cs, un)
  BY DEF Listed, Kept

-----------------------------------------------------------------------------
(* Candidates.                                                              *)

\* n differs from m in the candidate of o, which is now x, and in the counts.
Rerouted(m, n, o, x) ==
    /\ n \in [Objects -> ObjectRecord]
    /\ \A p \in Objects :
          /\ n[p].used = m[p].used /\ n[p].users = m[p].users /\ n[p].fetch = m[p].fetch
          /\ n[p].redirect_count = m[p].redirect_count
          /\ n[p].candidate = IF p = o THEN x ELSE m[p].candidate

LEMMA Unreferenced ==
    ASSUME NEW r \in ObjectRecord
    PROVE  LET q == [r EXCEPT !.candidate = NONE]
           IN  /\ q \in ObjectRecord /\ q.used = r.used /\ q.users = r.users /\ q.fetch = r.fetch
               /\ q.redirect_count = r.redirect_count /\ q.candidate = NONE
               /\ q.candidate_count = r.candidate_count
  BY DEF ObjectRecord

LEMMA Recounted ==
    ASSUME NEW r \in ObjectRecord, NEW n \in Nat
    PROVE  LET q == [r EXCEPT !.candidate_count = n]
           IN  /\ q \in ObjectRecord /\ q.used = r.used /\ q.users = r.users /\ q.fetch = r.fetch
               /\ q.redirect_count = r.redirect_count /\ q.candidate = r.candidate
               /\ q.candidate_count = n
  BY DEF ObjectRecord

LEMMA ReleaseFacts ==
    ASSUME NEW m, NEW o \in Objects, MapOK(m)
    PROVE  MapOK(ReleaseCandidate(m, o)) /\ Kept(m, ReleaseCandidate(m, o))
<1> DEFINE c == m[o].candidate
           n == ReleaseCandidate(m, o)
<1>1. m \in [Objects -> ObjectRecord] /\ c \in Objects \cup {NONE}
  BY DEF MapOK, ObjectRecord
<1>2. CASE c = NONE
  <2>1. n = m
    BY <1>2 DEF ReleaseCandidate
  <2> QED  BY <2>1 DEF Kept
<1>3. CASE c # NONE
  <2> DEFINE a == [m[o] EXCEPT !.candidate = NONE]
             k == [m EXCEPT ![o] = a]
             x == m[c].candidate_count - 1
             b == [k[c] EXCEPT !.candidate_count = x]
  <2>1. c \in Objects
    BY <1>1, <1>3
  <2>2. n = [k EXCEPT ![c] = b]
    BY <1>3 DEF ReleaseCandidate, SetCount
  <2>3. /\ a \in ObjectRecord /\ a.used = m[o].used /\ a.users = m[o].users /\ a.fetch = m[o].fetch
        /\ a.redirect_count = m[o].redirect_count /\ a.candidate = NONE
        /\ a.candidate_count = m[o].candidate_count
    BY <1>1, Unreferenced
  <2> HIDE DEF a
  <2>4. Rerouted(m, k, o, NONE) /\ \A p \in Objects : k[p].candidate_count = m[p].candidate_count
    BY <1>1, <2>3 DEF Rerouted
  <2> HIDE DEF k
  <2>5. Relying(k, c) = Relying(m, c) \ {o} /\ o \in Relying(m, c)
        /\ \A p \in Objects : p # c => Relying(k, p) = Relying(m, p)
    BY <2>1, <2>4, LLCacheAssumption DEF Relying, Rerouted
  <2>6. Cardinality(Relying(k, c)) = Cardinality(Relying(m, c)) - 1
        /\ Cardinality(Relying(m, c)) \in Nat /\ Cardinality(Relying(k, c)) \in Nat
    <3>1. IsFiniteSet(Relying(m, c)) /\ Cardinality(Relying(m, c)) \in Nat
          /\ Cardinality(Relying(k, c)) \in Nat
      BY RelyingFacts
    <3>2. Cardinality(Relying(m, c) \ {o}) = Cardinality(Relying(m, c)) - 1
      BY <2>5, <3>1, FS_RemoveElement
    <3> QED  BY <2>5, <3>1, <3>2
  <2>7. m[c].candidate_count \in Nat /\ m[c].candidate_count >= Cardinality(Relying(m, c))
    BY <1>1, <2>1, <2>4 DEF MapOK, Candidates, ObjectRecord
  <2>8. x \in Nat /\ x >= Cardinality(Relying(k, c))
    BY <2>6, <2>7
  <2>9. k[c] \in ObjectRecord
    BY <2>1, <2>4 DEF Rerouted
  <2> HIDE DEF x
  <2>10. /\ b \in ObjectRecord /\ b.used = k[c].used /\ b.users = k[c].users /\ b.fetch = k[c].fetch
         /\ b.redirect_count = k[c].redirect_count /\ b.candidate = k[c].candidate
         /\ b.candidate_count = x
    BY <2>8, <2>9, Recounted
  <2> HIDE DEF b, n, c
  <2>11. Rerouted(m, n, o, NONE) /\ n[c].candidate_count = x
         /\ \A p \in Objects : p # c => n[p].candidate_count = m[p].candidate_count
    BY <2>1, <2>2, <2>4, <2>10 DEF Rerouted
  <2>12. \A p \in Objects : Relying(n, p) = Relying(k, p)
    BY <2>4, <2>11 DEF Relying, Rerouted
  <2>13. Kept(m, n)
    BY <2>11 DEF Kept, Rerouted
  <2>14. Candidates(n)
    <3> SUFFICES ASSUME NEW p \in Objects
                 PROVE  /\ n[p].candidate # NONE => n[n[p].candidate].used
                        /\ n[p].candidate_count >= Cardinality(Relying(n, p))
      BY DEF Candidates
    <3>1. n[p].candidate # NONE => n[n[p].candidate].used
      <4>1. m[p].candidate \in Objects \cup {NONE} /\ (m[p].candidate # NONE => m[m[p].candidate].used)
        BY <1>1 DEF MapOK, Candidates, ObjectRecord
      <4> QED  BY <4>1, <2>11 DEF Rerouted
    <3>2. CASE p = c
      BY <3>1, <3>2, <2>8, <2>11, <2>12
    <3>3. CASE p # c
      BY <3>1, <3>3, <2>5, <2>11, <2>12 DEF MapOK, Candidates
    <3> QED  BY <3>2, <3>3
  <2>15. Freed(n)
    BY <2>11 DEF MapOK, Freed, Rerouted
  <2>16. Bounded(n)
    BY <2>11 DEF MapOK, Bounded, Rerouted
  <2>17. n \in [Objects -> ObjectRecord]
    BY <2>11 DEF Rerouted
  <2>18. MapOK(n) /\ Kept(m, n)
    BY <2>13, <2>14, <2>15, <2>16, <2>17 DEF MapOK
  <2> QED  BY <2>18 DEF n
<1> QED  BY <1>2, <1>3

-----------------------------------------------------------------------------
(* Users.                                                                   *)

LEMMA SetUsersFacts ==
    ASSUME NEW m \in [Objects -> ObjectRecord], NEW o \in Objects, NEW s \in Seq(Users)
    PROVE  /\ Like(m, SetUsers(m, o, s))
           /\ \A p \in Objects : SetUsers(m, o, s)[p].users = IF p = o THEN s ELSE m[p].users
<1> DEFINE q == [m[o] EXCEPT !.users = s]
<1>1. m[o] \in ObjectRecord
  OBVIOUS
<1>2. q \in ObjectRecord
  BY <1>1 DEF ObjectRecord
<1>3. /\ q.used = m[o].used /\ q.candidate = m[o].candidate /\ q.users = s
      /\ q.candidate_count = m[o].candidate_count
      /\ q.redirect_count = m[o].redirect_count /\ q.fetch = m[o].fetch
  BY <1>1 DEF ObjectRecord
<1>4. SetUsers(m, o, s) = [m EXCEPT ![o] = q]
  BY DEF SetUsers
<1> HIDE DEF q
<1> QED  BY <1>2, <1>3, <1>4 DEF Like

\* vs are the users us, but u now belongs to o (NONE: to no object).
Belongs(us, vs, u, o) ==
    \A w \in Users : vs[w].object = IF w = u THEN o ELSE us[w].object

LEMMA UsersTyped ==
    ASSUME NEW m \in [Objects -> ObjectRecord], NEW o \in Objects
    PROVE  m[o].users \in Seq(Users) /\ Elems(m[o].users) \subseteq Users
<1>1. m[o].users \in Seq(Users)
  BY DEF ObjectRecord
<1> QED  BY <1>1, ElemsIn

LEMMA NobodysUser ==
    ASSUME NEW m \in [Objects -> ObjectRecord], NEW us, Linked(m, us), NEW u \in Users,
           NEW p \in Objects, us[u].object # p
    PROVE  u \notin Elems(m[p].users)
  BY DEF Linked

LEMMA AddUserFacts ==
    ASSUME NEW m, NEW us \in [Users -> UserRecord], NEW vs, NEW u \in Users, NEW o \in Objects,
           m \in [Objects -> ObjectRecord], Linked(m, us), us[u].object = NONE, m[o].used,
           Belongs(us, vs, u, o)
    PROVE  Like(m, AddUser(m, o, u)) /\ Linked(AddUser(m, o, u), vs)
<1> DEFINE s == <<u>> \o m[o].users
           n == AddUser(m, o, u)
<1>1. \A p \in Objects : m[p].users \in Seq(Users) /\ Elems(m[p].users) \subseteq Users
                         /\ u \notin Elems(m[p].users)
  BY UsersTyped, NobodysUser, LLCacheAssumption
<1>2. s \in Seq(Users) /\ Elems(s) = {u} \cup Elems(m[o].users) /\ Distinct(s)
  <2>1. Distinct(m[o].users)
    BY DEF Linked
  <2> QED  BY <1>1, <2>1, Pushed
<1>3. Like(m, n) /\ \A p \in Objects : n[p].users = IF p = o THEN s ELSE m[p].users
  <2> HIDE DEF s
  <2>1. n = SetUsers(m, o, s)
    BY DEF AddUser, s
  <2> QED  BY <1>2, <2>1, SetUsersFacts
<1>4. \A p \in Objects : n[p].used = m[p].used
  BY <1>3 DEF Like
<1> HIDE DEF s, n
<1>5. \A p \in Objects : Elems(n[p].users) = IF p = o THEN {u} \cup Elems(m[o].users)
                                              ELSE Elems(m[p].users)
  BY <1>2, <1>3
<1>6. \A w \in Users : us[w].object \in Objects \cup {NONE}
  BY DEF UserRecord
<1>7. \A p \in Objects : Distinct(n[p].users)
  BY <1>2, <1>3 DEF Linked
<1>8. \A p \in Objects : \A w \in Elems(n[p].users) : vs[w].object = p
  BY <1>1, <1>5 DEF Linked, Belongs
<1>9. \A w \in Users : vs[w].object # NONE =>
         w \in Elems(n[vs[w].object].users) /\ n[vs[w].object].used
  BY <1>4, <1>5, <1>6 DEF Linked, Belongs
<1> QED  BY <1>3, <1>7, <1>8, <1>9 DEF Linked, n

LEMMA RemoveUserFacts ==
    ASSUME NEW m, NEW us \in [Users -> UserRecord], NEW vs, NEW u \in Users, NEW o \in Objects,
           m \in [Objects -> ObjectRecord], Linked(m, us), us[u].object = o,
           Belongs(us, vs, u, NONE)
    PROVE  Like(m, RemoveUser(m, o, u)) /\ Linked(RemoveUser(m, o, u), vs)
<1> DEFINE s == Without(m[o].users, u)
           n == RemoveUser(m, o, u)
<1>1. \A p \in Objects : m[p].users \in Seq(Users) /\ Elems(m[p].users) \subseteq Users
                         /\ (p # o => u \notin Elems(m[p].users))
  BY UsersTyped, NobodysUser
<1>2. s \in Seq(Users) /\ Elems(s) = Elems(m[o].users) \ {u} /\ Distinct(s)
  <2>1. Distinct(m[o].users)
    BY DEF Linked
  <2>2. s = Selected(m[o].users, Elems(m[o].users) \ {u})
    BY DEF Without
  <2> QED  BY <1>1, <2>1, <2>2, SelectedFacts
<1>3. Like(m, n) /\ \A p \in Objects : n[p].users = IF p = o THEN s ELSE m[p].users
  <2> HIDE DEF s
  <2>1. n = SetUsers(m, o, s)
    BY DEF RemoveUser, s
  <2> QED  BY <1>2, <2>1, SetUsersFacts
<1>4. \A p \in Objects : n[p].used = m[p].used
  BY <1>3 DEF Like
<1> HIDE DEF s, n
<1>5. \A p \in Objects : Elems(n[p].users) = Elems(m[p].users) \ {u}
  BY <1>1, <1>2, <1>3
<1>6. \A w \in Users : us[w].object \in Objects \cup {NONE}
  BY DEF UserRecord
<1>7. \A p \in Objects : Distinct(n[p].users)
  BY <1>2, <1>3 DEF Linked
<1>8. \A p \in Objects : \A w \in Elems(n[p].users) : vs[w].object = p
  <2> TAKE p \in Objects
  <2> TAKE w \in Elems(n[p].users)
  <2>1. w \in Elems(m[p].users) /\ w # u /\ w \in Users
    BY <1>1, <1>5
  <2>2. us[w].object = p
    BY <2>1 DEF Linked
  <2> QED  BY <2>1, <2>2 DEF Belongs
<1>9. \A w \in Users : vs[w].object # NONE =>
         w \in Elems(n[vs[w].object].users) /\ n[vs[w].object].used
  <2> SUFFICES ASSUME NEW w \in Users, vs[w].object # NONE
               PROVE  w \in Elems(n[vs[w].object].users) /\ n[vs[w].object].used
    OBVIOUS
  <2>1. w # u /\ vs[w].object = us[w].object /\ us[w].object \in Objects
    BY <1>6 DEF Belongs
  <2>2. w \in Elems(m[us[w].object].users) /\ m[us[w].object].used
    BY <2>1 DEF Linked
  <2> QED  BY <2>1, <2>2, <1>4, <1>5
<1> QED  BY <1>3, <1>7, <1>8, <1>9 DEF Linked, n

LEMMA MoveUsersFacts ==
    ASSUME NEW m, NEW us \in [Users -> UserRecord], NEW vs, NEW o \in Objects, NEW t \in Objects,
           m \in [Objects -> ObjectRecord], Linked(m, us), m[t].used,
           \A w \in Users : vs[w].object = IF w \in Elems(m[o].users) THEN t ELSE us[w].object
    PROVE  Like(m, MoveUsers(m, o, t)) /\ Linked(MoveUsers(m, o, t), vs)
<1> DEFINE e == << >>
           k == SetUsers(m, o, e)
           s == Reversed(m[o].users) \o k[t].users
           n == MoveUsers(m, o, t)
<1>1. \A p \in Objects : m[p].users \in Seq(Users) /\ Elems(m[p].users) \subseteq Users
  BY UsersTyped
<1>3. n = SetUsers(k, t, s)
  BY DEF MoveUsers
<1>4. e \in Seq(Users) /\ Elems(e) = {} /\ Distinct(e)
  BY DEF Elems, Distinct
<1> HIDE DEF e
<1>2. Like(m, k) /\ \A p \in Objects : k[p].users = IF p = o THEN e ELSE m[p].users
  BY <1>4, SetUsersFacts
<1>0. k \in [Objects -> ObjectRecord]
  BY <1>2 DEF Like
<1> HIDE DEF k
<1>5. \A p \in Objects : k[p].users \in Seq(Users) /\ Distinct(k[p].users)
                         /\ Elems(k[p].users) = IF p = o THEN {} ELSE Elems(m[p].users)
  BY <1>1, <1>2, <1>4 DEF Linked
<1>6. \A p \in Objects : p # o => Elems(m[p].users) \cap Elems(m[o].users) = {}
  BY DEF Linked
<1>7. s \in Seq(Users) /\ Elems(s) = Elems(m[o].users) \cup Elems(k[t].users) /\ Distinct(s)
  <2> DEFINE a == Reversed(m[o].users)
             b == k[t].users
  <2>1. a \in Seq(Users) /\ Elems(a) = Elems(m[o].users) /\ Distinct(a)
    BY <1>1, ReversedFacts DEF Linked
  <2>2. b \in Seq(Users) /\ Distinct(b) /\ Elems(a) \cap Elems(b) = {}
    BY <1>5, <1>6, <2>1
  <2> HIDE DEF a, b
  <2>3. a \o b \in Seq(Users) /\ Elems(a \o b) = Elems(a) \cup Elems(b) /\ Distinct(a \o b)
    BY <2>1, <2>2, JoinedFacts
  <2> QED  BY <2>1, <2>3 DEF a, b
<1> HIDE DEF s
<1>8. Like(k, n) /\ \A p \in Objects : n[p].users = IF p = t THEN s ELSE k[p].users
  BY <1>0, <1>3, <1>7, SetUsersFacts
<1>9. Like(m, n)
  BY <1>2, <1>8, LikeTrans
<1>10. \A p \in Objects : n[p].used = m[p].used
  BY <1>9 DEF Like
<1> HIDE DEF n
<1>11. \A p \in Objects : Distinct(n[p].users)
  BY <1>5, <1>7, <1>8
<1>12. \A p \in Objects : Elems(n[p].users) =
           IF p = t THEN Elems(m[o].users) \cup Elems(m[t].users)
           ELSE IF p = o THEN {} ELSE Elems(m[p].users)
  BY <1>5, <1>7, <1>8
<1>13. \A w \in Users : us[w].object \in Objects \cup {NONE}
  BY DEF UserRecord
<1>14. \A p \in Objects : \A w \in Elems(n[p].users) : vs[w].object = p
  BY <1>1, <1>6, <1>12 DEF Linked
<1>15. \A w \in Users : vs[w].object # NONE =>
          w \in Elems(n[vs[w].object].users) /\ n[vs[w].object].used
  <2> SUFFICES ASSUME NEW w \in Users, vs[w].object # NONE
               PROVE  w \in Elems(n[vs[w].object].users) /\ n[vs[w].object].used
    OBVIOUS
  <2>1. CASE w \in Elems(m[o].users)
    BY <2>1, <1>10, <1>12
  <2>2. CASE w \notin Elems(m[o].users)
    <3>1. vs[w].object = us[w].object /\ us[w].object \in Objects
      BY <2>2, <1>13
    <3>2. w \in Elems(m[us[w].object].users) /\ m[us[w].object].used
      BY <3>1 DEF Linked
    <3> QED  BY <2>2, <3>1, <3>2, <1>10, <1>12
  <2> QED  BY <2>1, <2>2
<1> QED  BY <1>9, <1>11, <1>14, <1>15 DEF Linked, n

-----------------------------------------------------------------------------
(* Retrieval.                                                               *)

ObjectModes == {"get", "force", "post"}

LEMMA InvalidTyped == Invalid \in CacheControl /\ Cardinality(Objects) \in Nat
<1>1. Cardinality(Objects) \in Nat
  BY LLCacheAssumption, FS_CardinalityType
<1> QED  BY <1>1 DEF Invalid, CacheControl

\* A record for an address that has not been used.
IsNew(r, redirects) ==
    /\ r \in ObjectRecord /\ r.used /\ r.users = << >> /\ r.candidate = NONE
    /\ r.candidate_count = 0 /\ r.redirect_count = redirects

LEMMA NewObjectFacts ==
    ASSUME NEW url \in Urls \cup {NONE}, NEW mode \in ObjectModes, NEW redirects \in Nat
    PROVE  IsNew(NewObject(url, mode, redirects), redirects)
<1>1. INIT \in INIT..COMPLETE /\ 0 \in 0..MaxLen /\ fetch_attempts \in Nat
  BY LLCacheAssumption DEF INIT, COMPLETE
<1>2. << >> \in Seq(Users)
  OBVIOUS
<1>3. NewObject(url, mode, redirects) \in ObjectRecord
  BY <1>1, <1>2, InvalidTyped DEF NewObject, ObjectRecord, ObjectModes
<1>4. LET r == NewObject(url, mode, redirects)
      IN  /\ r.used /\ r.users = << >> /\ r.candidate = NONE
          /\ r.candidate_count = 0 /\ r.redirect_count = redirects
  BY DEF NewObject
<1> QED  BY <1>3, <1>4 DEF IsNew

LEMMA EmptyList ==
    ASSUME NEW s, s = << >>
    PROVE  Elems(s) = {} /\ Distinct(s)
  BY DEF Elems, Distinct

\* n has the objects of m and may have one more.
Grown(m, n) ==
    \A p \in Objects : m[p].used => /\ n[p].used /\ n[p].users = m[p].users
                                    /\ n[p].redirect_count = m[p].redirect_count

LEMMA PlaceFacts ==
    ASSUME NEW m, NEW us \in [Users -> UserRecord], NEW o \in Objects, NEW r, NEW k \in Nat,
           MapOK(m), Linked(m, us), ~m[o].used, IsNew(r, k), k <= fetch_redirect_limit + 1
    PROVE  LET n == [m EXCEPT ![o] = r]
           IN  MapOK(n) /\ Linked(n, us) /\ Grown(m, n)
<1> DEFINE n == [m EXCEPT ![o] = r]
<1>1. m \in [Objects -> ObjectRecord] /\ r \in ObjectRecord
  BY DEF MapOK, IsNew
<1>2. n \in [Objects -> ObjectRecord] /\ \A p \in Objects : n[p] = IF p = o THEN r ELSE m[p]
  BY <1>1
<1> HIDE DEF n
<1>3. m[o].candidate = NONE /\ r.candidate = NONE
  BY DEF MapOK, Freed, IsNew
<1>4. \A p \in Objects : Relying(n, p) = Relying(m, p)
  BY <1>2, <1>3, LLCacheAssumption DEF Relying
<1>5. \A p \in Objects : m[p].candidate \in Objects \cup {NONE} /\ m[p].candidate # o
                         /\ (m[p].candidate # NONE => m[m[p].candidate].used)
  BY <1>1, LLCacheAssumption DEF MapOK, Candidates, ObjectRecord
<1>6. Relying(m, o) = {}
  BY <1>5 DEF Relying
<1>7. Candidates(n)
  <2> SUFFICES ASSUME NEW p \in Objects
               PROVE  /\ n[p].candidate # NONE => n[n[p].candidate].used
                      /\ n[p].candidate_count >= Cardinality(Relying(n, p))
    BY DEF Candidates
  <2>1. CASE p = o
    <3>1. n[p].candidate_count = 0 /\ Cardinality(Relying(n, p)) = 0
      BY <2>1, <1>2, <1>4, <1>6, FS_EmptySet DEF IsNew
    <3> QED  BY <2>1, <3>1, <1>2, <1>3
  <2>2. CASE p # o
    BY <2>2, <1>2, <1>4, <1>5 DEF MapOK, Candidates
  <2> QED  BY <2>1, <2>2
<1>8. Freed(n)
  BY <1>2 DEF MapOK, Freed, IsNew
<1>9. Bounded(n)
  BY <1>2 DEF MapOK, Bounded, IsNew
<1>10. Grown(m, n)
  BY <1>2 DEF Grown
<1>11. Linked(n, us)
  <2>1. Elems(n[o].users) = {} /\ Distinct(n[o].users)
    BY <1>2, EmptyList DEF IsNew
  <2>2. \A w \in Users : us[w].object # NONE => us[w].object \in Objects /\ us[w].object # o
    BY DEF Linked, UserRecord
  <2> QED  BY <1>2, <2>1, <2>2 DEF Linked
<1>12. MapOK(n) /\ Linked(n, us) /\ Grown(m, n)
  BY <1>2, <1>7, <1>8, <1>9, <1>10, <1>11 DEF MapOK
<1> QED  BY <1>12 DEF n

\* A new object takes x, an object of the cache, for a candidate.
Relies(r, x, c) == [r EXCEPT !.candidate = x, !.cache = c]

Rerecorded(r, q, x) ==
    /\ q \in ObjectRecord /\ q.used = r.used /\ q.users = r.users /\ q.fetch = r.fetch
    /\ q.redirect_count = r.redirect_count /\ q.candidate = x
    /\ q.candidate_count = r.candidate_count

LEMMA RelyRecord ==
    ASSUME NEW r \in ObjectRecord, NEW x \in Objects, NEW c \in CacheControl
    PROVE  Rerecorded(r, Relies(r, x, c), x)
  BY DEF ObjectRecord, Relies, Rerecorded

LEMMA RelyFacts ==
    ASSUME NEW m, NEW o \in Objects, NEW x \in Objects, NEW c \in CacheControl, NEW d,
           MapOK(m), m[o].used, m[o].candidate = NONE, m[x].used, d = m[x].candidate_count
    PROVE  LET n == SetCount([m EXCEPT ![o] = [@ EXCEPT !.candidate = x, !.cache = c]], x, d + 1)
           IN  MapOK(n) /\ Kept(m, n)
<1> DEFINE a == Relies(m[o], x, c)
           k == [m EXCEPT ![o] = a]
           y == d + 1
           b == [k[x] EXCEPT !.candidate_count = y]
           n == [k EXCEPT ![x] = b]
<1>1. m \in [Objects -> ObjectRecord]
  BY DEF MapOK
<1>2. SetCount([m EXCEPT ![o] = [@ EXCEPT !.candidate = x, !.cache = c]], x, d + 1) = n
  BY DEF SetCount, Relies
<1>3. Rerecorded(m[o], a, x)
  <2>1. m[o] \in ObjectRecord
    BY <1>1
  <2> QED  BY <2>1, RelyRecord
<1> HIDE DEF a
<1>4. Rerouted(m, k, o, x) /\ \A p \in Objects : k[p].candidate_count = m[p].candidate_count
  BY <1>1, <1>3 DEF Rerouted, Rerecorded
<1> HIDE DEF k
<1>5. d \in Nat /\ k[x] \in ObjectRecord /\ d >= Cardinality(Relying(m, x))
  BY <1>1, <1>4 DEF MapOK, Candidates, ObjectRecord, Rerouted
<1>6. y \in Nat /\ y = d + 1
  BY <1>5
<1> HIDE DEF y
<1>7. /\ b \in ObjectRecord /\ b.used = k[x].used /\ b.users = k[x].users /\ b.fetch = k[x].fetch
      /\ b.redirect_count = k[x].redirect_count /\ b.candidate = k[x].candidate
      /\ b.candidate_count = y
  BY <1>5, <1>6, Recounted
<1> HIDE DEF b
<1>8. Rerouted(m, n, o, x) /\ n[x].candidate_count = y
      /\ \A p \in Objects : p # x => n[p].candidate_count = m[p].candidate_count
  BY <1>4, <1>7 DEF Rerouted
<1> HIDE DEF n
<1>9. o \notin Relying(m, x) /\ Relying(n, x) = Relying(m, x) \cup {o}
      /\ \A p \in Objects : p # x => Relying(n, p) = Relying(m, p)
  BY <1>8, LLCacheAssumption DEF Relying, Rerouted
<1>10. Cardinality(Relying(n, x)) = Cardinality(Relying(m, x)) + 1 /\ Cardinality(Relying(m, x)) \in Nat
  <2>1. IsFiniteSet(Relying(m, x)) /\ Cardinality(Relying(m, x)) \in Nat
    BY RelyingFacts
  <2>2. Cardinality(Relying(m, x) \cup {o}) = Cardinality(Relying(m, x)) + 1
    BY <2>1, <1>9, FS_AddElement
  <2> QED  BY <2>1, <2>2, <1>9
<1>11. Candidates(n)
  <2> SUFFICES ASSUME NEW p \in Objects
               PROVE  /\ n[p].candidate # NONE => n[n[p].candidate].used
                      /\ n[p].candidate_count >= Cardinality(Relying(n, p))
    BY DEF Candidates
  <2>1. n[p].candidate # NONE => n[n[p].candidate].used
    <3>1. m[p].candidate \in Objects \cup {NONE} /\ (m[p].candidate # NONE => m[m[p].candidate].used)
      BY <1>1 DEF MapOK, Candidates, ObjectRecord
    <3> QED  BY <3>1, <1>8 DEF Rerouted
  <2>2. CASE p = x
    BY <2>1, <2>2, <1>5, <1>6, <1>8, <1>10
  <2>3. CASE p # x
    BY <2>1, <2>3, <1>8, <1>9 DEF MapOK, Candidates
  <2> QED  BY <2>2, <2>3
<1>12. Freed(n)
  <2>1. \A p \in Objects : ~n[p].used => p # o
    BY <1>8 DEF Rerouted
  <2> QED  BY <2>1, <1>8 DEF MapOK, Freed, Rerouted
<1>13. Bounded(n)
  BY <1>8 DEF MapOK, Bounded, Rerouted
<1>14. Kept(m, n)
  BY <1>8 DEF Kept, Rerouted
<1>15. MapOK(n) /\ Kept(m, n)
  BY <1>8, <1>11, <1>12, <1>13, <1>14 DEF MapOK, Rerouted
<1> QED  BY <1>2, <1>15

LEMMA NewestFacts ==
    ASSUME NEW url, object \in [Objects -> ObjectRecord], cached \in Seq(Objects)
    PROVE  Newest(url) \in Elems(cached) \cup {NONE}
<1> DEFINE I == { i \in 1..Len(cached) : object[cached[i]].url = url }
           Req(i) == object[cached[i]].cache.req
           latest == { i \in I : \A j \in I : Req(j) <= Req(i) }
           R == { Req(i) : i \in I }
<1>1. CASE I = {}
  BY <1>1 DEF Newest
<1>2. CASE I # {}
  <2>1. I \subseteq 1..Len(cached) /\ I \subseteq Nat
    OBVIOUS
  <2>2. \A i \in I : Req(i) \in 0..Cardinality(Objects)
    <3> TAKE i \in I
    <3>1. object[cached[i]] \in ObjectRecord
      OBVIOUS
    <3>2. object[cached[i]].cache \in CacheControl
      BY <3>1 DEF ObjectRecord
    <3> QED  BY <3>2 DEF CacheControl
  <2> HIDE DEF I, Req
  <2>3. R \in SUBSET Nat /\ R # {} /\ \A x \in R : x <= Cardinality(Objects)
    BY <1>2, <2>2, InvalidTyped
  <2>4. PICK x \in R : \A y \in R : y <= x
    <3> HIDE DEF R
    <3> QED  BY <2>3, InvalidTyped, GreatestNat
  <2>5. PICK i \in I : x = Req(i)
    OBVIOUS
  <2>6. i \in latest
    BY <2>4, <2>5
  <2>7. latest \subseteq I /\ latest \in SUBSET Nat /\ latest # {}
    BY <2>1, <2>6
  <2> HIDE DEF latest
  <2>8. \E j \in latest : \A k \in latest : j <= k
    BY <2>7, LeastNat
  <2> DEFINE j == CHOOSE j \in latest : \A k \in latest : j <= k
  <2>9. j \in latest
    BY <2>8
  <2>10. Newest(url) = cached[j]
    BY <1>2 DEF Newest, I, Req, latest
  <2> HIDE DEF j
  <2> QED  BY <2>1, <2>7, <2>9, <2>10 DEF Elems
<1> QED  BY <1>1, <1>2

\* The part of the invariant that does not depend on who is being called.
Sound ==
    /\ MapOK(object) /\ user \in [Users -> UserRecord]
    /\ cached \in Seq(Objects) /\ uncached \in Seq(Objects)
    /\ Linked(object, user) /\ Listed(object, cached, uncached)

\* What a retrieval with its result res has done.
Supplied(res) ==
    /\ res.o \in Objects /\ res.cached \in Seq(Objects) /\ res.uncached \in Seq(Objects)
    /\ MapOK(res.object) /\ Linked(res.object, user)
    /\ Listed(res.object, res.cached, res.uncached)
    /\ Grown(object, res.object) /\ res.object[res.o].used

LEMMA FetchedFacts ==
    ASSUME Sound, NEW o \in Objects, ~object[o].used, NEW r, NEW k \in Nat,
           IsNew(r, k), k <= fetch_redirect_limit + 1,
           NEW n, MapOK(n), Kept([object EXCEPT ![o] = r], n),
           NEW m \in Refetched(n, o), NEW cs, NEW un,
           \/ cs = <<o>> \o cached /\ un = uncached
           \/ cs = cached /\ un = <<o>> \o uncached
    PROVE  Supplied([o |-> o, object |-> m, cached |-> cs, uncached |-> un])
<1> DEFINE p == [object EXCEPT ![o] = r]
<1>1. MapOK(p) /\ Linked(p, user) /\ Grown(object, p)
  BY PlaceFacts DEF Sound
<1>2. p[o].used /\ \A q \in Objects : q # o => p[q].used = object[q].used
  BY DEF Sound, MapOK, IsNew
<1> HIDE DEF p
<1>3. Kept(p, n) /\ n \in [Objects -> ObjectRecord] /\ n[o].used
  BY <1>2 DEF p, Kept, MapOK
<1>4. Alike(n, m)
  BY <1>3, RefetchedLike DEF Alike
<1>5. MapOK(m) /\ Kept(p, m)
  BY <1>3, <1>4, AlikeKept, KeptTrans
<1>6. Linked(m, user)
  BY <1>1, <1>5, KeptLinked DEF Sound
<1>7. Grown(object, m) /\ m[o].used /\ \A q \in Objects : q # o => m[q].used = object[q].used
  BY <1>1, <1>2, <1>5 DEF Grown, Kept
<1>8. cs \in Seq(Objects) /\ un \in Seq(Objects)
      /\ Elems(cs) \cup Elems(un) = {o} \cup Elems(cached) \cup Elems(uncached)
  <2>1. cached \in Seq(Objects) /\ uncached \in Seq(Objects)
    BY DEF Sound
  <2>2. <<o>> \o cached \in Seq(Objects) /\ Elems(<<o>> \o cached) = {o} \cup Elems(cached)
    BY <2>1, Pushed
  <2>3. <<o>> \o uncached \in Seq(Objects) /\ Elems(<<o>> \o uncached) = {o} \cup Elems(uncached)
    BY <2>1, Pushed
  <2>4. CASE cs = <<o>> \o cached /\ un = uncached
    BY <2>1, <2>2, <2>4
  <2>5. CASE cs = cached /\ un = <<o>> \o uncached
    BY <2>1, <2>3, <2>5
  <2> QED  BY <2>4, <2>5
<1>9. Listed(m, cs, un)
  BY <1>7, <1>8 DEF Sound, Listed
<1> QED  BY <1>5, <1>6, <1>7, <1>8, <1>9 DEF Supplied

LEMMA RetrievedFacts ==
    ASSUME Sound, NEW url \in Urls, NEW mode \in ObjectModes, NEW k \in Nat,
           k <= fetch_redirect_limit + 1, NEW res \in Retrieved(url, mode, k)
    PROVE  Supplied(res)
<1> DEFINE newest == IF mode = "get" THEN Newest(url) ELSE NONE
           New(o) == [object EXCEPT ![o] = NewObject(url, mode, k)]
           Relying0(o) == [New(o) EXCEPT ![o] = [@ EXCEPT !.candidate = newest,
                                                          !.cache = object[newest].cache]]
           Base(o) == IF newest = NONE THEN New(o)
                      ELSE SetCount(Relying0(o), newest, object[newest].candidate_count + 1)
           Cs(o) == IF mode = "get" THEN <<o>> \o cached ELSE cached
           Un(o) == IF mode = "get" THEN uncached ELSE <<o>> \o uncached
<1>1. object \in [Objects -> ObjectRecord] /\ cached \in Seq(Objects)
  BY DEF Sound, MapOK
<1>2. newest \in Elems(cached) \cup {NONE}
  BY <1>1, NewestFacts
<1>3. newest # NONE => newest \in Objects /\ object[newest].used
  BY <1>1, <1>2, ElemsIn DEF Sound, Listed
<1>4. CASE newest # NONE /\ llcache_object_is_fresh(newest)
  <2>1. res = [o |-> newest, object |-> object, cached |-> cached, uncached |-> uncached]
    BY <1>4 DEF Retrieved
  <2> HIDE DEF newest
  <2>2. Grown(object, object)
    BY DEF Grown
  <2> QED  BY <1>3, <1>4, <2>1, <2>2 DEF Supplied, Sound
<1>5. CASE ~(newest # NONE /\ llcache_object_is_fresh(newest))
  <2>1. PICK o \in Objects : ~object[o].used /\ \E m \in Refetched(Base(o), o) :
              res = [o |-> o, object |-> m, cached |-> Cs(o), uncached |-> Un(o)]
    BY <1>5 DEF Retrieved
  <2>2. PICK m \in Refetched(Base(o), o) :
              res = [o |-> o, object |-> m, cached |-> Cs(o), uncached |-> Un(o)]
    BY <2>1
  <2> DEFINE r == NewObject(url, mode, k)
  <2>3. IsNew(r, k)
    BY NewObjectFacts
  <2>4. \/ Cs(o) = <<o>> \o cached /\ Un(o) = uncached
        \/ Cs(o) = cached /\ Un(o) = <<o>> \o uncached
    OBVIOUS
  <2>5. MapOK(New(o))
    BY <2>1, <2>3, PlaceFacts DEF Sound
  <2>6. MapOK(Base(o)) /\ Kept(New(o), Base(o))
    <3>1. CASE newest = NONE
      BY <3>1, <2>5 DEF Kept
    <3>2. CASE newest # NONE
      <4> DEFINE n == New(o)
                 c == object[newest].cache
                 d == object[newest].candidate_count
      <4>1. newest \in Objects /\ newest # o /\ object[newest].used
        BY <1>3, <2>1, <3>2
      <4>2. n[newest] = object[newest] /\ n[o] = r
        BY <1>1, <4>1
      <4>3. c \in CacheControl
        BY <1>1, <4>1 DEF ObjectRecord
      <4>4. n[o].used /\ n[o].candidate = NONE
        BY <2>3, <4>2 DEF IsNew
      <4>5. n[newest].used /\ d = n[newest].candidate_count
        BY <4>1, <4>2
      <4>6. MapOK(n)
        BY <2>5
      <4>7. Base(o) = SetCount([n EXCEPT ![o] = [@ EXCEPT !.candidate = newest, !.cache = c]],
                               newest, d + 1)
        BY <3>2
      <4> HIDE DEF n, c, d, newest, Base
      <4>8. MapOK(Base(o)) /\ Kept(n, Base(o))
        BY <4>1, <4>3, <4>4, <4>5, <4>6, <4>7, RelyFacts
      <4> QED  BY <4>8 DEF n
    <3> QED  BY <3>1, <3>2
  <2> HIDE DEF r, newest, Base, Cs, Un
  <2>7. Kept([object EXCEPT ![o] = r], Base(o))
    BY <2>6 DEF r
  <2> QED  BY <2>1, <2>2, <2>3, <2>4, <2>6, <2>7, FetchedFacts
<1> QED  BY <1>4, <1>5

-----------------------------------------------------------------------------
(* Destruction.                                                             *)

LEMMA FreeObjectFacts ==
    /\ FreeObject \in ObjectRecord /\ ~FreeObject.used /\ FreeObject.users = << >>
    /\ FreeObject.fetch = "none" /\ FreeObject.candidate = NONE
    /\ FreeObject.candidate_count = 0 /\ FreeObject.redirect_count = 0
<1> DEFINE r == NewObject(NONE, "get", 0)
<1>1. r \in ObjectRecord
  BY NewObjectFacts DEF IsNew, ObjectModes
<1>2. /\ r.users = << >> /\ r.fetch = "none" /\ r.candidate = NONE
      /\ r.candidate_count = 0 /\ r.redirect_count = 0
  BY DEF NewObject
<1>3. FreeObject = [r EXCEPT !.used = FALSE]
  BY DEF FreeObject
<1> HIDE DEF r
<1>4. FreeObject \in ObjectRecord
  BY <1>1, <1>3 DEF ObjectRecord
<1>5. /\ FreeObject.used = FALSE /\ FreeObject.users = r.users /\ FreeObject.fetch = r.fetch
      /\ FreeObject.candidate = r.candidate /\ FreeObject.candidate_count = r.candidate_count
      /\ FreeObject.redirect_count = r.redirect_count
  BY <1>1, <1>3 DEF ObjectRecord
<1> QED  BY <1>2, <1>4, <1>5

\* No user names an object of D, and nothing relies on one.
Unneeded(m, us, D) ==
    /\ D \subseteq Objects
    /\ \A o \in D : m[o].users = << >> /\ m[o].candidate_count = 0

LEMMA DestroyFacts ==
    ASSUME NEW m, NEW us \in [Users -> UserRecord], NEW D, NEW n,
           MapOK(m), Linked(m, us), Listed(m, cached, uncached), Unneeded(m, us, D),
           cached \in Seq(Objects), uncached \in Seq(Objects),
           n = [o \in Objects |-> IF o \in D THEN FreeObject ELSE m[o]]
    PROVE  /\ MapOK(n) /\ Linked(n, us)
           /\ Listed(n, Selected(cached, Objects \ D), Selected(uncached, Objects \ D))
           /\ Selected(cached, Objects \ D) \in Seq(Objects)
           /\ Selected(uncached, Objects \ D) \in Seq(Objects)
<1>1. n \in [Objects -> ObjectRecord] /\ m \in [Objects -> ObjectRecord]
      /\ \A o \in Objects : n[o] = IF o \in D THEN FreeObject ELSE m[o]
  BY FreeObjectFacts DEF MapOK
<1>2. \A o \in Objects, d \in D : m[o].candidate # d
  <2> SUFFICES ASSUME NEW o \in Objects, NEW d \in D, m[o].candidate = d
               PROVE  FALSE
    OBVIOUS
  <2>1. o \in Relying(m, d) /\ d \in Objects
    BY DEF Relying, Unneeded
  <2>2. Cardinality(Relying(m, d)) # 0
    BY <2>1, RelyingFacts, FS_EmptySet
  <2>3. m[d].candidate_count = 0 /\ m[d].candidate_count >= Cardinality(Relying(m, d))
    BY <2>1 DEF MapOK, Candidates, Unneeded
  <2> QED  BY <2>2, <2>3, RelyingFacts
<1>3. \A o \in Objects : m[o].candidate \in Objects \cup {NONE}
  BY <1>1 DEF ObjectRecord
<1>4. \A o \in Objects : Relying(n, o) \in SUBSET Relying(m, o) /\ (o \in D => Relying(n, o) = {})
  <2> TAKE o \in Objects
  <2>1. \A p \in Objects : n[p].candidate = o => m[p].candidate = o
    BY <1>1, FreeObjectFacts, LLCacheAssumption
  <2> QED  BY <2>1, <1>2 DEF Relying
<1>5. Candidates(n)
  <2> SUFFICES ASSUME NEW o \in Objects
               PROVE  /\ n[o].candidate # NONE => n[n[o].candidate].used
                      /\ n[o].candidate_count >= Cardinality(Relying(n, o))
    BY DEF Candidates
  <2>1. CASE o \in D
    <3>1. Cardinality(Relying(n, o)) = 0
      BY <2>1, <1>4, FS_EmptySet
    <3>2. n[o].candidate = NONE /\ n[o].candidate_count = 0
      BY <2>1, <1>1, FreeObjectFacts
    <3> QED  BY <3>1, <3>2
  <2>2. CASE o \notin D
    <3>1. n[o] = m[o]
      BY <2>2, <1>1
    <3>2. m[o].candidate # NONE => n[m[o].candidate] = m[m[o].candidate]
      BY <1>1, <1>2, <1>3
    <3>3. m[o].candidate # NONE => m[m[o].candidate].used
      BY DEF MapOK, Candidates
    <3>4. Cardinality(Relying(n, o)) <= Cardinality(Relying(m, o))
      BY <1>4, RelyingFacts, FS_Subset
    <3>5. m[o].candidate_count >= Cardinality(Relying(m, o)) /\ m[o].candidate_count \in Nat
      BY <1>1 DEF MapOK, Candidates, ObjectRecord
    <3>6. Cardinality(Relying(n, o)) \in Nat /\ Cardinality(Relying(m, o)) \in Nat
      BY RelyingFacts
    <3>7. m[o].candidate_count >= Cardinality(Relying(n, o))
      BY <3>4, <3>5, <3>6
    <3> QED  BY <3>1, <3>2, <3>3, <3>7
  <2> QED  BY <2>1, <2>2
<1>6. Freed(n)
  BY <1>1, FreeObjectFacts DEF MapOK, Freed
<1>7. Bounded(n)
  <2> SUFFICES ASSUME NEW o \in Objects
               PROVE  n[o].redirect_count <= fetch_redirect_limit + 1
    BY DEF Bounded
  <2>1. CASE o \in D
    BY <2>1, <1>1, FreeObjectFacts, LLCacheAssumption
  <2>2. CASE o \notin D
    BY <2>2, <1>1 DEF MapOK, Bounded
  <2> QED  BY <2>1, <2>2
<1>8. Linked(n, us)
  <2>1. \A o \in Objects : n[o].users = m[o].users
    BY <1>1, FreeObjectFacts DEF Unneeded
  <2>2. \A w \in Users : us[w].object # NONE => us[w].object \in Objects /\ us[w].object \notin D
    <3> SUFFICES ASSUME NEW w \in Users, us[w].object # NONE
                 PROVE  us[w].object \in Objects /\ us[w].object \notin D
      OBVIOUS
    <3>1. us[w].object \in Objects
      BY DEF UserRecord
    <3>2. w \in Elems(m[us[w].object].users)
      BY DEF Linked
    <3>3. us[w].object \in D => Elems(m[us[w].object].users) = {}
      BY EmptyList DEF Unneeded
    <3> QED  BY <3>1, <3>2, <3>3
  <2>3. \A w \in Users : us[w].object # NONE => n[us[w].object] = m[us[w].object]
    BY <2>2, <1>1
  <2> QED  BY <2>1, <2>3 DEF Linked
<1> DEFINE cs == Selected(cached, Objects \ D)
           un == Selected(uncached, Objects \ D)
<1>9. cs \in Seq(Objects) /\ Elems(cs) = Elems(cached) \cap (Objects \ D)
  BY SelectedFacts
<1>10. un \in Seq(Objects) /\ Elems(un) = Elems(uncached) \cap (Objects \ D)
  BY SelectedFacts
<1> HIDE DEF cs, un
<1>11. Listed(n, cs, un)
  <2>1. \A o \in Objects : n[o].used <=> o \notin D /\ m[o].used
    BY <1>1, FreeObjectFacts
  <2> QED  BY <2>1, <1>9, <1>10 DEF Listed
<1>12. MapOK(n)
  BY <1>1, <1>5, <1>6, <1>7 DEF MapOK
<1> QED  BY <1>8, <1>9, <1>10, <1>11, <1>12 DEF cs, un

LEMMA DiscardedFacts ==
    ASSUME Sound, NEW purge \in BOOLEAN, NEW D \in Discarded(purge)
    PROVE  \A o \in D : o \in Objects /\ Disposable(o)
<1> DEFINE Unc == { o \in Elems(uncached) : Disposable(o) }
           Stale == { o \in Elems(cached) : Disposable(o) /\ ~RemainingLifetime(o) }
           S == { o \in Elems(cached) : Disposable(o) } \ Stale
           fresh == Selected(cached, S)
<1>1. PICK k \in IF purge THEN {Len(fresh)} ELSE 0..Len(fresh) :
          D = Unc \cup Stale \cup { fresh[i] : i \in 1..k }
  BY DEF Discarded
<1>2. Elems(cached) \subseteq Objects /\ Elems(uncached) \subseteq Objects
  BY ElemsIn DEF Sound
<1>3. fresh \in Seq(Objects) /\ Elems(fresh) \subseteq S
  BY SelectedFacts DEF Sound
<1>4. S \subseteq Objects /\ \A o \in S : Disposable(o)
  BY <1>2
<1> HIDE DEF fresh, S
<1>5. k \in 0..Len(fresh)
  BY <1>1, <1>3
<1>6. \A i \in 1..k : fresh[i] \in S
  BY <1>3, <1>5 DEF Elems
<1> QED  BY <1>1, <1>2, <1>4, <1>6

-----------------------------------------------------------------------------
(* Users and control.                                                       *)

EventTypes == {"PROGRESS", "CERTS", "ERROR", "REDIRECT", "none"}

Errors == {"ok", "need_data", "error", "nomem"}

Target == [url : Urls, mode : ObjectModes]

PassCalls == {NONE, "GOT_CERTS", "HAD_HEADERS", "HAD_DATA", "DONE"}

EventControl == [kind : {"event"}, obj : Objects, type : EventTypes, cur : Users \cup {NONE},
                 err : Errors, then : {NONE} \cup Target]

PassControl == [kind : {"pass"}, loop : {1, 2}, obj : Objects, cur : Users \cup {NONE},
                objstate : INIT..COMPLETE, orig : 0..MaxLen, call : PassCalls]

LEMMA ControlSplit == ControlRecord = {Idle} \cup EventControl \cup PassControl
  BY DEF ControlRecord, EventControl, PassControl, EventTypes, Errors, Target, PassCalls, ObjectModes

LEMMA ControlCases ==
    ASSUME ctl \in ControlRecord
    PROVE  /\ ctl.kind \in {"idle", "event", "pass"}
           /\ ctl.kind = "idle" => ctl = Idle
           /\ ctl.kind = "event" => ctl \in EventControl
           /\ ctl.kind = "pass" => ctl \in PassControl
<1>1. ctl \in {Idle} \cup EventControl \cup PassControl
  BY ControlSplit
<1>2. CASE ctl = Idle
  BY <1>2 DEF Idle
<1>3. CASE ctl \in EventControl
  BY <1>3 DEF EventControl
<1>4. CASE ctl \in PassControl
  BY <1>4 DEF PassControl
<1> QED  BY <1>1, <1>2, <1>3, <1>4

LEMMA UserFields ==
    ASSUME NEW r \in UserRecord
    PROVE  /\ r.object \in Objects \cup {NONE} /\ r.handle \in BOOLEAN /\ r.state \in INIT..COMPLETE
           /\ r.bytes \in 0..MaxLen /\ r.iterator_target \in BOOLEAN
           /\ r.queued_for_delete \in BOOLEAN /\ r.trusting \in BOOLEAN
  BY DEF UserRecord

\* q is the user r with another mark.
Remarked(r, q, target, queued) ==
    /\ q \in UserRecord /\ q.object = r.object /\ q.handle = r.handle
    /\ q.iterator_target = target /\ q.queued_for_delete = queued

LEMMA CalledFacts ==
    ASSUME NEW r \in UserRecord, NEW type
    PROVE  Remarked(r, Called(r, type), TRUE, r.queued_for_delete)
  BY DEF Remarked, Called, UserRecord

LEMMA NewUserFacts ==
    ASSUME NEW o \in Objects \cup {NONE}
    PROVE  /\ NewUser(o) \in UserRecord /\ NewUser(o).object = o /\ NewUser(o).handle
           /\ ~NewUser(o).iterator_target /\ ~NewUser(o).queued_for_delete
<1>1. INIT \in INIT..COMPLETE /\ 0 \in 0..MaxLen
  BY LLCacheAssumption DEF INIT, COMPLETE
<1>2. NewUser(o) \in UserRecord
  BY <1>1 DEF NewUser, UserRecord
<1> QED  BY <1>2 DEF NewUser

LEMMA FreeUserFacts ==
    /\ FreeUser \in UserRecord /\ FreeUser.object = NONE /\ ~FreeUser.handle
    /\ ~FreeUser.iterator_target /\ ~FreeUser.queued_for_delete
<1> DEFINE r == NewUser(NONE)
<1>1. r \in UserRecord /\ r.object = NONE /\ ~r.iterator_target /\ ~r.queued_for_delete
  BY NewUserFacts
<1>2. FreeUser = [r EXCEPT !.handle = FALSE]
  BY DEF FreeUser
<1> HIDE DEF r
<1>3. FreeUser \in UserRecord
  BY <1>1, <1>2 DEF UserRecord
<1>4. /\ FreeUser.object = r.object /\ FreeUser.handle = FALSE
      /\ FreeUser.iterator_target = r.iterator_target
      /\ FreeUser.queued_for_delete = r.queued_for_delete
  BY <1>1, <1>2 DEF UserRecord
<1> QED  BY <1>1, <1>3, <1>4

\* The same handles on the same objects.
SameHandles(us, vs) ==
    /\ vs \in [Users -> UserRecord]
    /\ \A u \in Users : vs[u].object = us[u].object /\ vs[u].handle = us[u].handle

LEMMA SameHandlesLinked ==
    ASSUME NEW m \in [Objects -> ObjectRecord], NEW us \in [Users -> UserRecord], NEW vs,
           Linked(m, us), SameHandles(us, vs)
    PROVE  Linked(m, vs)
<1>1. \A o \in Objects : Elems(m[o].users) \subseteq Users
  BY UsersTyped
<1>2. \A u \in Users : us[u].object \in Objects \cup {NONE}
  BY UserFields
<1>3. \A o \in Objects : \A u \in Elems(m[o].users) : vs[u].object = o
  BY <1>1 DEF Linked, SameHandles
<1>4. \A u \in Users : vs[u].object # NONE =>
         u \in Elems(m[vs[u].object].users) /\ m[vs[u].object].used
  BY <1>2 DEF Linked, SameHandles
<1> QED  BY <1>3, <1>4 DEF Linked

LEMMA LInvSound ==
    ASSUME LInv
    PROVE  /\ Sound /\ object \in [Objects -> ObjectRecord] /\ ctl \in ControlRecord
           /\ all_caught_up \in BOOLEAN /\ fault \in BOOLEAN
  BY DEF LInv, Sound, TypeOK, MapOK

\* Nothing is marked while nobody is called.
LEMMA NobodyMarked ==
    ASSUME LInv, ctl.kind = "idle" \/ ctl.cur = NONE
    PROVE  \A u \in Users : user[u].iterator_target = FALSE /\ user[u].queued_for_delete = FALSE
<1>1. \A u \in Users : user[u] \in UserRecord
  BY LInvSound DEF Sound
<1>2. \A u \in Users : ~user[u].iterator_target /\ ~user[u].queued_for_delete
  BY LLCacheAssumption DEF LInv, OnlyTheTargetLingers
<1> QED  BY <1>1, <1>2, UserFields

\* How the invariant is put together again.
LEMMA Assemble ==
    ASSUME MapOK(object'), user' \in [Users -> UserRecord], cached' \in Seq(Objects),
           uncached' \in Seq(Objects), all_caught_up' \in BOOLEAN, ctl' \in ControlRecord,
           fault' \in BOOLEAN, Linked(object', user'), Listed(object', cached', uncached'),
           HandlesOK', ControlOK', OnlyTheTargetLingers'
    PROVE  LInv'
  BY DEF LInv, TypeOK, MapOK

\* A step in the objects only.
LEMMA QuietStep ==
    ASSUME LInv, MapOK(object'), Kept(object, object'), all_caught_up' \in BOOLEAN,
           UNCHANGED <<user, cached, uncached, ctl, fault>>
    PROVE  LInv'
<1>1. /\ Sound /\ ctl \in ControlRecord /\ fault \in BOOLEAN /\ HandlesOK /\ ControlOK
      /\ OnlyTheTargetLingers
  BY LInvSound DEF LInv
<1>2. Linked(object', user') /\ Listed(object', cached', uncached')
  BY <1>1, KeptLinked, KeptListed DEF Sound
<1>3. HandlesOK' /\ OnlyTheTargetLingers'
  BY <1>1 DEF HandlesOK, OnlyTheTargetLingers
<1>4. ControlOK'
  <2>1. ctl.kind # "idle" => ctl.obj \in Objects
    BY <1>1, ControlCases DEF EventControl, PassControl
  <2> QED  BY <1>1, <2>1 DEF ControlOK, Kept
<1> QED  BY <1>1, <1>2, <1>3, <1>4, Assemble DEF Sound

\* The handler of a message returns an error.
LEMMA FailStep ==
    ASSUME LInv, NEW o \in Objects, NEW err \in Errors, ctl.kind = "idle", object[o].used,
           MapOK(object'), Kept(object, object'), HandlerFails(o, err),
           UNCHANGED <<user, cached, uncached, all_caught_up, fault>>
    PROVE  LInv'
<1>1. /\ Sound /\ fault \in BOOLEAN /\ all_caught_up \in BOOLEAN /\ HandlesOK
  BY LInvSound DEF LInv
<1>2. Linked(object', user') /\ Listed(object', cached', uncached')
  BY <1>1, KeptLinked, KeptListed DEF Sound
<1>3. ctl' \in EventControl /\ ctl'.kind = "event" /\ ctl'.obj = o /\ ctl'.cur = NONE /\ ctl'.then = NONE
  BY DEF HandlerFails, EventControl, EventTypes
<1>4. HandlesOK' /\ OnlyTheTargetLingers'
  BY <1>1, NobodyMarked DEF HandlesOK, OnlyTheTargetLingers
<1>5. ControlOK'
  BY <1>3 DEF ControlOK, Kept
<1>6. ctl' \in ControlRecord
  BY <1>3, ControlSplit
<1> QED  BY <1>1, <1>2, <1>4, <1>5, <1>6, Assemble DEF Sound

\* The users of o are called one after the other.
LEMMA EventStep ==
    ASSUME LInv, NEW o \in Objects, NEW type \in EventTypes, NEW then \in {NONE} \cup Target,
           ctl.kind = "idle" \/ ctl.cur = NONE, object[o].used,
           MapOK(object'), Kept(object, object'), SendEvent(object, o, type, then),
           then # NONE => object[o].redirect_count <= fetch_redirect_limit,
           UNCHANGED <<cached, uncached, all_caught_up, fault>>
    PROVE  LInv'
<1> DEFINE u == First(object[o].users)
<1>1. /\ Sound /\ fault \in BOOLEAN /\ all_caught_up \in BOOLEAN /\ HandlesOK
      /\ object \in [Objects -> ObjectRecord] /\ user \in [Users -> UserRecord]
  BY LInvSound DEF LInv, Sound
<1>2. u \in Elems(object[o].users) \cup {NONE} /\ Elems(object[o].users) \subseteq Users
  BY <1>1, UsersTyped, FirstFacts
<1>3. u # NONE => u \in Users /\ user[u].object = o
  BY <1>1, <1>2 DEF Sound, Linked
<1>4. ctl' = [kind |-> "event", obj |-> o, type |-> type, cur |-> u, err |-> "ok", then |-> then]
  BY DEF SendEvent
<1>5. user' = IF u = NONE THEN user ELSE [user EXCEPT ![u] = Called(user[u], type)]
  BY DEF SendEvent
<1> HIDE DEF u
<1>6. ctl' \in EventControl /\ ctl'.kind = "event" /\ ctl'.obj = o /\ ctl'.cur = u /\ ctl'.then = then
  BY <1>3, <1>4 DEF EventControl, Errors
<1>7. u # NONE => Remarked(user[u], Called(user[u], type), TRUE, user[u].queued_for_delete)
  BY <1>1, <1>3, CalledFacts
<1>8. /\ SameHandles(user, user')
      /\ \A w \in Users : w # u => user'[w] = user[w]
      /\ u # NONE => user'[u].iterator_target
  BY <1>1, <1>3, <1>5, <1>7 DEF SameHandles, Remarked
<1>9. Linked(object', user') /\ Listed(object', cached', uncached')
  <2>1. Linked(object, user')
    BY <1>1, <1>8, SameHandlesLinked DEF Sound
  <2>2. user' \in [Users -> UserRecord]
    BY <1>8 DEF SameHandles
  <2> QED  BY <1>1, <2>1, <2>2, KeptLinked, KeptListed DEF Sound
<1>10. HandlesOK'
  BY <1>1, <1>8 DEF HandlesOK, SameHandles
<1>11. OnlyTheTargetLingers'
  <2>1. \A w \in Users : w # u => user'[w].iterator_target = FALSE /\ user'[w].queued_for_delete = FALSE
    BY <1>8, NobodyMarked
  <2> QED  BY <2>1, <1>6 DEF OnlyTheTargetLingers
<1>12. ControlOK'
  <2>1. object'[o].used /\ object'[o].redirect_count = object[o].redirect_count
    BY DEF Kept
  <2>2. u # NONE => user'[u].object = o
    BY <1>3, <1>8 DEF SameHandles
  <2> QED  BY <2>1, <2>2, <1>6, <1>8 DEF ControlOK
<1>13. ctl' \in ControlRecord
  BY <1>6, ControlSplit
<1> QED  BY <1>1, <1>8, <1>9, <1>10, <1>11, <1>12, <1>13, Assemble DEF Sound, SameHandles

-----------------------------------------------------------------------------
(* Messages.                                                                *)

LEMMA StatesTyped ==
    {INIT, HEADERS, DATA, COMPLETE} \subseteq INIT..COMPLETE
  BY DEF INIT, HEADERS, DATA, COMPLETE

LEMMA ObjectFields ==
    ASSUME NEW r \in ObjectRecord
    PROVE  /\ r.len \in 0..MaxLen /\ r.cache \in CacheControl
           /\ r.body \in {"none", "part", "old", "whole", "mixed"}
           /\ r.fetch \in {"none", "running", "ended"} /\ r.state \in INIT..COMPLETE
           /\ r.used \in BOOLEAN /\ r.chain \in BOOLEAN /\ r.tried_with_auth \in BOOLEAN
           /\ r.tried_with_tls_downgrade \in BOOLEAN /\ r.retries_remaining \in Nat
           /\ r.candidate \in Objects \cup {NONE} /\ r.url \in Urls \cup {NONE}
           /\ r.mode \in ObjectModes /\ r.redirect_count \in Nat /\ r.candidate_count \in Nat
  BY DEF ObjectRecord, ObjectModes

LEMMA CacheFields ==
    ASSUME NEW c \in CacheControl
    PROVE  /\ c.no_cache \in {"FRESH", "ALWAYS", "ONCE"} /\ c.life \in BOOLEAN
           /\ c.validator \in BOOLEAN /\ c.req \in 0..Cardinality(Objects)
  BY DEF CacheControl

LEMMA PutKept ==
    ASSUME NEW m, NEW o \in Objects, NEW r, MapOK(m), LikeRecord(m[o], r), r.users = m[o].users
    PROVE  MapOK([m EXCEPT ![o] = r]) /\ Kept(m, [m EXCEPT ![o] = r])
<1>1. m \in [Objects -> ObjectRecord]
  BY DEF MapOK
<1>2. Alike(m, [m EXCEPT ![o] = r])
  BY <1>1, PutAlike
<1> QED  BY <1>2, AlikeKept

LEMMA EndedKept ==
    ASSUME NEW m, NEW o \in Objects, MapOK(m), m[o].used
    PROVE  MapOK([m EXCEPT ![o] = Ended(m[o])]) /\ Kept(m, [m EXCEPT ![o] = Ended(m[o])])
<1>1. m[o] \in ObjectRecord
  BY DEF MapOK
<1> QED  BY <1>1, EndedLike, PutKept

\* A candidate is released and the fetch is over.
LEMMA OverKept ==
    ASSUME NEW m, NEW o \in Objects, MapOK(m), m[o].used
    PROVE  LET k == ReleaseCandidate(m, o)
           IN  MapOK([k EXCEPT ![o] = Ended(@)]) /\ Kept(m, [k EXCEPT ![o] = Ended(@)])
<1> DEFINE k == ReleaseCandidate(m, o)
<1>1. MapOK(k) /\ Kept(m, k)
  BY ReleaseFacts
<1>2. k[o].used
  BY <1>1 DEF Kept
<1> HIDE DEF k
<1>3. MapOK([k EXCEPT ![o] = Ended(k[o])]) /\ Kept(k, [k EXCEPT ![o] = Ended(k[o])])
  BY <1>1, <1>2, EndedKept
<1>4. Kept(m, [k EXCEPT ![o] = Ended(k[o])])
  BY <1>1, <1>3, KeptTrans
<1> QED  BY <1>3, <1>4 DEF k

LEMMA ArrivesFacts ==
    ASSUME LInv, NEW o \in Objects, NEW msg, Arrives(msg, o)
    PROVE  /\ ctl.kind = "idle" /\ object[o].used /\ MapOK(object) /\ object[o] \in ObjectRecord
           /\ fault \in BOOLEAN /\ all_caught_up \in BOOLEAN
<1>1. object[o].fetch = "running" /\ ctl.kind = "idle"
  BY DEF Arrives
<1>2. MapOK(object) /\ object[o] \in ObjectRecord /\ fault \in BOOLEAN /\ all_caught_up \in BOOLEAN
  BY LInvSound DEF Sound
<1>3. object[o].used
  BY <1>1, <1>2 DEF MapOK, Freed
<1> QED  BY <1>1, <1>2, <1>3

LEMMA HeaderKeeps ==
    ASSUME LInv, NEW o \in Objects, NEW c \in Responses, Header(o, c)
    PROVE  LInv'
<1> DEFINE r == object[o]
           d == [c EXCEPT !.req = r.cache.req]
           q == [r EXCEPT !.state = HEADERS, !.cache = d]
<1>1. MapOK(object) /\ r \in ObjectRecord
  BY ArrivesFacts DEF Header
<1>2. c \in CacheControl /\ r.cache.req \in 0..Cardinality(Objects)
  BY <1>1, LLCacheAssumption, ObjectFields, CacheFields
<1>3. d \in CacheControl
  BY <1>2 DEF CacheControl
<1>4. object' = [object EXCEPT ![o] = q]
  BY DEF Header
<1> HIDE DEF r, d
<1>5. LikeRecord(r, q) /\ q.users = r.users
  BY <1>1, <1>3, StatesTyped, LikeHeader
<1> HIDE DEF q
<1>6. MapOK(object') /\ Kept(object, object')
  BY <1>1, <1>4, <1>5, PutKept DEF r
<1> QED  BY <1>6, QuietStep DEF Header, NotCaughtUp

LEMMA DataKeeps ==
    ASSUME LInv, NEW o \in Objects, NEW b \in BOOLEAN, Data(o, b)
    PROVE  LInv'
<1> DEFINE r == object[o]
           m == IF r.state = DATA THEN object ELSE ReleaseCandidate(object, o)
           drop == b /\ r.state # DATA
           c == IF drop THEN Invalid ELSE r.cache
           l == r.len + 1
           y == CASE r.body = "none" -> "part"
                  [] r.body = "old" -> "mixed"
                  [] OTHER -> r.body
           q == WithData(m[o], DATA, c, l, y)
<1>1. MapOK(object) /\ r \in ObjectRecord
  BY ArrivesFacts DEF Data
<1>2. MapOK(m) /\ Kept(object, m)
  BY <1>1, ReleaseFacts DEF Kept
<1>3. c \in CacheControl
  BY <1>1, InvalidTyped, ObjectFields
<1>4. l \in 0..MaxLen
  BY <1>1, LLCacheAssumption, ObjectFields DEF Data
<1>5. y \in {"none", "part", "old", "whole", "mixed"}
  BY <1>1, ObjectFields
<1>6. object' = [m EXCEPT ![o] = q]
  BY DEF Data, WithData
<1> HIDE DEF r, m, c, l, y, drop
<1>7. m[o] \in ObjectRecord
  BY <1>2 DEF MapOK
<1>8. LikeRecord(m[o], q) /\ q.users = m[o].users
  <2>1. DATA \in INIT..COMPLETE
    BY StatesTyped
  <2> QED  BY <1>3, <1>4, <1>5, <1>7, <2>1, LikeData
<1> HIDE DEF q
<1>9. MapOK(object') /\ Kept(m, object')
  BY <1>2, <1>6, <1>8, PutKept
<1>10. Kept(object, object')
  BY <1>2, <1>9, KeptTrans
<1> QED  BY <1>9, <1>10, QuietStep DEF Data, NotCaughtUp

LEMMA NoMemoryKeeps ==
    ASSUME LInv, NEW o \in Objects, NEW msg \in {"HEADER", "DATA"}, NEW b \in BOOLEAN,
           NoMemory(o, msg, b)
    PROVE  LInv'
<1> DEFINE r == object[o]
           m == IF msg = "HEADER" \/ r.state = DATA THEN object ELSE ReleaseCandidate(object, o)
           drop == b /\ msg = "DATA" /\ r.state # DATA
           c == IF drop THEN Invalid ELSE r.cache
           s == IF msg = "HEADER" THEN HEADERS ELSE DATA
           q == [m[o] EXCEPT !.state = s, !.cache = c]
<1>1. MapOK(object) /\ r \in ObjectRecord /\ ctl.kind = "idle" /\ object[o].used
  BY ArrivesFacts DEF NoMemory
<1>2. MapOK(m) /\ Kept(object, m)
  BY <1>1, ReleaseFacts DEF Kept
<1>3. c \in CacheControl /\ s \in INIT..COMPLETE
  BY <1>1, InvalidTyped, ObjectFields, StatesTyped
<1>4. object' = [m EXCEPT ![o] = q]
  BY DEF NoMemory
<1> HIDE DEF r, m, c, s, drop
<1>5. m[o] \in ObjectRecord
  BY <1>2 DEF MapOK
<1>6. LikeRecord(m[o], q) /\ q.users = m[o].users
  BY <1>3, <1>5, LikeHeader
<1> HIDE DEF q
<1>7. MapOK(object') /\ Kept(m, object')
  BY <1>2, <1>4, <1>6, PutKept
<1>8. Kept(object, object')
  BY <1>2, <1>7, KeptTrans
<1> QED  BY <1>1, <1>7, <1>8, FailStep DEF NoMemory, Errors

LEMMA FinishedKeeps ==
    ASSUME LInv, NEW o \in Objects, Finished(o)
    PROVE  LInv'
<1> DEFINE r == object[o]
           y == IF r.body \in {"none", "part"} THEN "whole" ELSE "mixed"
           f == "none"
           d == FALSE
           q == WithBody(r, COMPLETE, f, d, y)
<1>1. MapOK(object) /\ r \in ObjectRecord /\ r.used
  BY ArrivesFacts DEF Finished
<1>2. object' = [object EXCEPT ![o] = q]
  BY DEF Finished, WithBody
<1>3. y \in {"none", "part", "old", "whole", "mixed"}
  OBVIOUS
<1>0. f \in {"none", "running", "ended"} /\ d \in BOOLEAN /\ COMPLETE \in INIT..COMPLETE
  BY StatesTyped
<1> HIDE DEF r, y, f, d
<1>4. LikeRecord(r, q) /\ q.users = r.users
  BY <1>1, <1>3, <1>0, LikeFinished
<1> HIDE DEF q
<1>5. MapOK(object') /\ Kept(object, object')
  BY <1>1, <1>2, <1>4, PutKept DEF r
<1> QED  BY <1>5, QuietStep DEF Finished, NotCaughtUp

LEMMA InformKeeps ==
    ASSUME LInv, NEW o \in Objects, NEW msg \in {"PROGRESS", "CERTS"}, Inform(o, msg)
    PROVE  LInv'
<1> DEFINE r == object[o]
           y == r.chain \/ msg = "CERTS"
           q == [r EXCEPT !.chain = y]
<1>1. MapOK(object) /\ r \in ObjectRecord /\ object[o].used /\ ctl.kind = "idle"
  BY ArrivesFacts DEF Inform
<1>2. object' = [object EXCEPT ![o] = q]
  BY DEF Inform
<1>3. y \in BOOLEAN
  OBVIOUS
<1> HIDE DEF r, y
<1>4. LikeRecord(r, q) /\ q.users = r.users
  BY <1>1, <1>3, LikeChain
<1> HIDE DEF q
<1>5. MapOK(object') /\ Kept(object, object')
  BY <1>1, <1>2, <1>4, PutKept DEF r
<1>6. msg \in EventTypes
  BY DEF EventTypes
<1> QED  BY <1>1, <1>5, <1>6, EventStep DEF Inform

LEMMA FailsKeeps ==
    ASSUME LInv, NEW o \in Objects, NEW msg, Fails(o, msg)
    PROVE  LInv'
<1>1. MapOK(object) /\ object[o].used /\ ctl.kind = "idle"
  BY ArrivesFacts DEF Fails
<1>2. MapOK(object') /\ Kept(object, object')
  BY <1>1, OverKept DEF Fails
<1>3. "ERROR" \in EventTypes
  BY DEF EventTypes
<1> QED  BY <1>1, <1>2, <1>3, EventStep DEF Fails

LEMMA RefetchedKept ==
    ASSUME NEW m, NEW o \in Objects, NEW n, MapOK(m), m[o].used,
           n \in Refetched(m, o) \/ n \in RefetchFailed(m, o)
    PROVE  MapOK(n) /\ Kept(m, n)
<1>1. m \in [Objects -> ObjectRecord]
  BY DEF MapOK
<1>2. Alike(m, n)
  BY <1>1, RefetchedLike, RefetchFailedLike DEF Alike
<1> QED  BY <1>2, AlikeKept

LEMMA TimedOutKeeps ==
    ASSUME LInv, NEW o \in Objects, TimedOut(o)
    PROVE  LInv'
<1> DEFINE r == object[o]
           x == r.retries_remaining - 1
           q == [r EXCEPT !.retries_remaining = x, !.fetch = "ended"]
           left == [object EXCEPT ![o] = q]
<1>1. MapOK(object) /\ r \in ObjectRecord /\ object[o].used /\ ctl.kind = "idle"
  BY ArrivesFacts DEF TimedOut
<1>2. r.retries_remaining > 1 => MapOK(left) /\ Kept(object, left) /\ left[o].used
  <2> SUFFICES ASSUME r.retries_remaining > 1
               PROVE  MapOK(left) /\ Kept(object, left) /\ left[o].used
    OBVIOUS
  <2>1. x \in Nat
    BY SMTT(30), <1>1, ObjectFields
  <2> HIDE DEF r, x
  <2>2. LikeRecord(r, q) /\ q.users = r.users
    BY <1>1, <2>1, LikeTimedOut DEF r
  <2> HIDE DEF q
  <2>3. MapOK(left) /\ Kept(object, left)
    BY <1>1, <2>2, PutKept DEF r
  <2> QED  BY <1>1, <2>3 DEF Kept
<1>3. \/ r.retries_remaining > 1 /\ object' \in Refetched(left, o) /\ NotCaughtUp /\ UNCHANGED <<user, ctl>>
      \/ r.retries_remaining > 1 /\ object' \in RefetchFailed(left, o) /\ StartFails(o)
           /\ UNCHANGED <<user, all_caught_up>>
      \/ LET m == ReleaseCandidate(object, o)
         IN  object' = [m EXCEPT ![o] = Ended(@)] /\ SendEvent(object, o, "ERROR", NONE)
               /\ UNCHANGED all_caught_up
  BY DEF TimedOut
<1>4. UNCHANGED <<cached, uncached, fault>>
  BY DEF TimedOut
<1> HIDE DEF left, r
<1>5. CASE r.retries_remaining > 1 /\ object' \in Refetched(left, o) /\ NotCaughtUp /\ UNCHANGED <<user, ctl>>
  <2>1. MapOK(object') /\ Kept(object, object')
    BY <1>2, <1>5, RefetchedKept, KeptTrans
  <2> QED  BY <1>4, <1>5, <2>1, QuietStep DEF NotCaughtUp
<1>6. CASE r.retries_remaining > 1 /\ object' \in RefetchFailed(left, o) /\ StartFails(o)
             /\ UNCHANGED <<user, all_caught_up>>
  <2>1. MapOK(object') /\ Kept(object, object')
    BY <1>2, <1>6, RefetchedKept, KeptTrans
  <2>2. PICK err \in {"error", "nomem"} : HandlerFails(o, err)
    BY <1>6 DEF StartFails
  <2>3. err \in Errors
    BY DEF Errors
  <2> QED  BY <1>1, <1>4, <1>6, <2>1, <2>2, <2>3, FailStep
<1>7. CASE LET m == ReleaseCandidate(object, o)
           IN  object' = [m EXCEPT ![o] = Ended(@)] /\ SendEvent(object, o, "ERROR", NONE)
                 /\ UNCHANGED all_caught_up
  <2>1. MapOK(object') /\ Kept(object, object')
    BY <1>1, <1>7, OverKept
  <2>2. "ERROR" \in EventTypes
    BY DEF EventTypes
  <2> QED  BY <1>1, <1>4, <1>7, <2>1, <2>2, EventStep
<1> QED  BY <1>3, <1>5, <1>6, <1>7

LEMMA RetriesKeeps ==
    ASSUME LInv, NEW o \in Objects, NEW msg, NEW again \in BOOLEAN, Retries(o, msg, again)
    PROVE  LInv'
<1> DEFINE r == object[o]
           m == ReleaseCandidate(object, o)
           f == "none"
           a == IF msg = "AUTH" THEN again ELSE r.tried_with_auth
           b == r.tried_with_tls_downgrade \/ (msg = "SSL_ERR" /\ again)
           stopped == [m EXCEPT ![o] = WithTries(m[o], f, Invalid, a, b)]
<1>1. MapOK(object) /\ r \in ObjectRecord /\ object[o].used /\ ctl.kind = "idle"
  BY ArrivesFacts DEF Retries
<1>2. MapOK(m) /\ Kept(object, m)
  BY <1>1, ReleaseFacts
<1>3. m[o] \in ObjectRecord /\ m[o].used
  BY <1>1, <1>2 DEF MapOK, Kept
<1>4. f \in {"none", "running", "ended"} /\ a \in BOOLEAN /\ b \in BOOLEAN
  BY <1>1, ObjectFields
<1>5. \/ object' \in Refetched(stopped, o) /\ NotCaughtUp /\ UNCHANGED <<user, ctl>>
      \/ object' \in RefetchFailed(stopped, o) /\ StartFails(o) /\ UNCHANGED <<user, all_caught_up>>
      \/ object' = [stopped EXCEPT ![o] = Ended(stopped[o])] /\ SendEvent(object, o, "ERROR", NONE)
           /\ UNCHANGED all_caught_up
  BY DEF Retries, WithTries
<1>6. UNCHANGED <<cached, uncached, fault>>
  BY DEF Retries
<1> HIDE DEF m, f, a, b, r
<1>7. MapOK(stopped) /\ Kept(object, stopped) /\ stopped[o].used
  <2> DEFINE q == WithTries(m[o], f, Invalid, a, b)
  <2>1. LikeRecord(m[o], q) /\ q.users = m[o].users
    BY <1>3, <1>4, InvalidTyped, LikeStopped
  <2> HIDE DEF q
  <2>2. MapOK([m EXCEPT ![o] = q]) /\ Kept(m, [m EXCEPT ![o] = q])
    BY <1>2, <2>1, PutKept
  <2>3. MapOK(stopped) /\ Kept(m, stopped)
    BY <2>2 DEF q
  <2> HIDE DEF stopped
  <2>4. Kept(object, stopped)
    BY <1>2, <2>3, KeptTrans
  <2> QED  BY <1>1, <2>3, <2>4 DEF Kept
<1> HIDE DEF stopped
<1>8. CASE object' \in Refetched(stopped, o) /\ NotCaughtUp /\ UNCHANGED <<user, ctl>>
  <2>1. MapOK(object') /\ Kept(object, object')
    BY <1>7, <1>8, RefetchedKept, KeptTrans
  <2> QED  BY <1>6, <1>8, <2>1, QuietStep DEF NotCaughtUp
<1>9. CASE object' \in RefetchFailed(stopped, o) /\ StartFails(o) /\ UNCHANGED <<user, all_caught_up>>
  <2>1. MapOK(object') /\ Kept(object, object')
    BY <1>7, <1>9, RefetchedKept, KeptTrans
  <2>2. PICK err \in {"error", "nomem"} : HandlerFails(o, err)
    BY <1>9 DEF StartFails
  <2>3. err \in Errors
    BY DEF Errors
  <2> QED  BY <1>1, <1>6, <1>9, <2>1, <2>2, <2>3, FailStep
<1>10. CASE object' = [stopped EXCEPT ![o] = Ended(stopped[o])]
              /\ SendEvent(object, o, "ERROR", NONE) /\ UNCHANGED all_caught_up
  <2>1. MapOK(object') /\ Kept(object, object')
    BY <1>7, <1>10, EndedKept, KeptTrans
  <2>2. "ERROR" \in EventTypes
    BY DEF EventTypes
  <2> QED  BY <1>1, <1>6, <1>10, <2>1, <2>2, EventStep
<1> QED  BY <1>5, <1>8, <1>9, <1>10

LEMMA RedirectKeeps ==
    ASSUME LInv, NEW o \in Objects, NEW url \in Urls, NEW mode \in Modes \cup {"get"},
           NEW ok \in BOOLEAN, Redirect(o, url, mode, ok)
    PROVE  LInv'
<1>1. MapOK(object) /\ object[o].used /\ ctl.kind = "idle"
  BY ArrivesFacts DEF Redirect
<1>2. MapOK(object') /\ Kept(object, object')
  BY <1>1, OverKept DEF Redirect
<1>3. {"ERROR", "REDIRECT"} \subseteq EventTypes
  BY DEF EventTypes
<1> DEFINE then == [url |-> url, mode |-> mode]
<1>4. then \in Target
  BY LLCacheAssumption DEF Target, ObjectModes
<1>5. UNCHANGED <<cached, uncached, all_caught_up, fault>>
  BY DEF Redirect
<1>6. \/ object[o].redirect_count <= fetch_redirect_limit /\ SendEvent(object, o, "REDIRECT", then)
      \/ SendEvent(object, o, "ERROR", NONE)
  BY DEF Redirect
<1> HIDE DEF then
<1>7. CASE object[o].redirect_count <= fetch_redirect_limit /\ SendEvent(object, o, "REDIRECT", then)
  BY <1>1, <1>2, <1>3, <1>4, <1>5, <1>7, EventStep
<1>8. CASE SendEvent(object, o, "ERROR", NONE)
  BY <1>1, <1>2, <1>3, <1>5, <1>8, EventStep
<1> QED  BY <1>6, <1>7, <1>8

\* The event loop has control again.
LEMMA IdleStep ==
    ASSUME ctl' = Idle, MapOK(object'), user' \in [Users -> UserRecord], cached' \in Seq(Objects),
           uncached' \in Seq(Objects), all_caught_up' \in BOOLEAN, fault' \in BOOLEAN,
           Linked(object', user'), Listed(object', cached', uncached'), HandlesOK',
           \A u \in Users : user'[u].iterator_target = FALSE /\ user'[u].queued_for_delete = FALSE
    PROVE  LInv'
<1>1. ctl' \in ControlRecord /\ ctl'.kind = "idle"
  BY ControlSplit DEF Idle
<1>2. OnlyTheTargetLingers' /\ ControlOK'
  BY <1>1 DEF OnlyTheTargetLingers, ControlOK
<1> QED  BY <1>1, <1>2, Assemble

LEMMA MovedUsers ==
    ASSUME LInv, NEW o \in Objects, NEW t \in Objects
    PROVE  /\ Moved(o, t) \in [Users -> UserRecord]
           /\ \A u \in Users :
                /\ Moved(o, t)[u].object = IF u \in Elems(object[o].users) THEN t ELSE user[u].object
                /\ Moved(o, t)[u].handle = user[u].handle
                /\ Moved(o, t)[u].iterator_target = user[u].iterator_target
                /\ Moved(o, t)[u].queued_for_delete = user[u].queued_for_delete
<1>1. user \in [Users -> UserRecord]
  BY LInvSound DEF Sound
<1>2. \A r \in UserRecord : LET q == [r EXCEPT !.object = t]
                            IN  /\ q \in UserRecord /\ q.object = t /\ q.handle = r.handle
                                /\ q.iterator_target = r.iterator_target
                                /\ q.queued_for_delete = r.queued_for_delete
  BY DEF UserRecord
<1> QED  BY <1>1, <1>2 DEF Moved

LEMMA MovedHandles ==
    ASSUME LInv, NEW o \in Objects, NEW t \in Objects, user' = Moved(o, t)
    PROVE  HandlesOK'
<1>1. HandlesOK /\ t # NONE
  BY LLCacheAssumption DEF LInv
<1> QED  BY <1>1, MovedUsers DEF HandlesOK

LEMMA NotModifiedKeeps ==
    ASSUME LInv, NEW o \in Objects, NEW life \in BOOLEAN, NotModified(o, life)
    PROVE  LInv'
<1> DEFINE c == object[o].candidate
<1>1. /\ MapOK(object) /\ object[o] \in ObjectRecord /\ object[o].used /\ ctl.kind = "idle"
      /\ fault \in BOOLEAN /\ Sound /\ object \in [Objects -> ObjectRecord]
  BY ArrivesFacts, LInvSound DEF NotModified
<1>2. CASE c = NONE
  <2>1. object' = [object EXCEPT ![o] = Ended(object[o])] /\ UNCHANGED <<user, cached, uncached, ctl, fault>>
        /\ all_caught_up' = FALSE
    BY <1>2 DEF NotModified, NotCaughtUp
  <2> QED  BY <1>1, <2>1, EndedKept, QuietStep
<1>3. CASE c # NONE
  <2> DEFINE new == object[o].cache
             old == object[c].cache
             x == IF new.no_cache = "FRESH" THEN old.no_cache ELSE new.no_cache
             y == [no_cache |-> IF x = "ONCE" THEN "FRESH" ELSE x, life |-> life,
                   validator |-> old.validator \/ new.validator, req |-> new.req]
             mv == MoveUsers(object, o, c)
             back == ReleaseCandidate(mv, o)
             ended == [back EXCEPT ![o] = Ended(back[o])]
             q == [ended[c] EXCEPT !.cache = y]
  <2>1. c \in Objects /\ object[c].used /\ object[c] \in ObjectRecord
    BY <1>1, <1>3, ObjectFields DEF MapOK, Candidates
  <2>2. /\ object' = [ended EXCEPT ![c] = q] /\ user' = Moved(o, c)
        /\ all_caught_up' = FALSE /\ UNCHANGED <<cached, uncached, ctl, fault>>
    BY <1>3 DEF NotModified, NotCaughtUp
  <2>3. y \in CacheControl
    <3>1. new \in CacheControl /\ old \in CacheControl
      BY <1>1, <2>1, ObjectFields
    <3> HIDE DEF new, old
    <3>2. /\ x \in {"FRESH", "ALWAYS", "ONCE"} /\ (old.validator \/ new.validator) \in BOOLEAN
          /\ new.req \in 0..Cardinality(Objects)
      BY <3>1, CacheFields
    <3> HIDE DEF x
    <3> QED  BY <3>2 DEF CacheControl
  <2> HIDE DEF y, c
  <2>4. Like(object, mv) /\ Linked(mv, user')
    <3>1. \A w \in Users : user'[w].object =
             IF w \in Elems(object[o].users) THEN c ELSE user[w].object
      BY <2>1, <2>2, MovedUsers
    <3>2. user \in [Users -> UserRecord] /\ Linked(object, user)
      BY <1>1 DEF Sound
    <3> QED  BY <1>1, <2>1, <3>1, <3>2, MoveUsersFacts
  <2>5. MapOK(mv) /\ mv[o].used
    BY <1>1, <2>4, LikeMap DEF Like
  <2> HIDE DEF mv
  <2>6. MapOK(back) /\ Kept(mv, back) /\ back[o].used
    BY <2>5, ReleaseFacts DEF Kept
  <2> HIDE DEF back
  <2>7. MapOK(ended) /\ Kept(back, ended)
    BY <2>6, EndedKept
  <2> HIDE DEF ended
  <2>8. LikeRecord(ended[c], q) /\ q.users = ended[c].users
    <3>1. ended[c] \in ObjectRecord
      BY <2>1, <2>7 DEF MapOK
    <3> QED  BY <2>3, <3>1, LikeCache
  <2> HIDE DEF q
  <2>9. MapOK(object') /\ Kept(ended, object')
    BY <2>1, <2>2, <2>7, <2>8, PutKept
  <2>10. Kept(mv, object')
    BY <2>6, <2>7, <2>9, KeptTrans
  <2>11. user' \in [Users -> UserRecord]
         /\ \A u \in Users : user'[u].iterator_target = FALSE /\ user'[u].queued_for_delete = FALSE
    <3>1. \A u \in Users : user[u].iterator_target = FALSE /\ user[u].queued_for_delete = FALSE
      BY <1>1, NobodyMarked
    <3> QED  BY <2>1, <2>2, <3>1, MovedUsers
  <2>12. Linked(object', user')
    BY <2>4, <2>10, <2>11, KeptLinked
  <2>13. Listed(object', cached', uncached')
    BY <1>1, <2>2, <2>4, <2>10 DEF Sound, Listed, Like, Kept
  <2>14. HandlesOK'
    BY <2>1, <2>2, MovedHandles
  <2>15. ctl' = Idle
    BY <1>1, <2>2, LInvSound, ControlCases
  <2> QED  BY <1>1, <2>2, <2>9, <2>11, <2>12, <2>13, <2>14, <2>15, IdleStep DEF Sound
<1> QED  BY <1>2, <1>3

LEMMA FollowRedirectKeeps ==
    ASSUME LInv, FollowRedirect
    PROVE  LInv'
<1> DEFINE o == ctl.obj
           t == ctl.then
<1>1. /\ Sound /\ object \in [Objects -> ObjectRecord] /\ fault \in BOOLEAN
      /\ all_caught_up \in BOOLEAN /\ MapOK(object) /\ user \in [Users -> UserRecord]
  BY LInvSound DEF Sound
<1>2. ctl.kind = "event" /\ ctl.cur = NONE /\ t # NONE /\ ctl \in EventControl
  BY LInvSound, ControlCases DEF FollowRedirect
<1>3. o \in Objects /\ t \in Target
  BY <1>2 DEF EventControl
<1>4. object[o].used /\ object[o].redirect_count <= fetch_redirect_limit
  BY <1>2 DEF LInv, ControlOK
<1>5. UNCHANGED fault
  BY DEF FollowRedirect
<1>6. \/ \E res \in Retrieved(t.url, t.mode, object[o].redirect_count + 1) :
            /\ object' = MoveUsers(res.object, o, res.o) /\ user' = Moved(o, res.o)
            /\ cached' = res.cached /\ uncached' = res.uncached
            /\ ctl' = Idle /\ all_caught_up' = FALSE
      \/ SendEvent(object, o, "ERROR", NONE) /\ UNCHANGED <<object, cached, uncached, all_caught_up>>
  BY DEF FollowRedirect, NotCaughtUp
<1> HIDE DEF o, t
<1>7. ASSUME NEW res \in Retrieved(t.url, t.mode, object[o].redirect_count + 1),
             object' = MoveUsers(res.object, o, res.o), user' = Moved(o, res.o),
             cached' = res.cached, uncached' = res.uncached, ctl' = Idle, all_caught_up' = FALSE
      PROVE  LInv'
  <2> DEFINE k == object[o].redirect_count + 1
  <2>1. t.url \in Urls /\ t.mode \in ObjectModes
    BY <1>3 DEF Target
  <2>2. k \in Nat /\ k <= fetch_redirect_limit + 1
    <3>1. object[o].redirect_count \in Nat
      BY <1>1, <1>3, ObjectFields
    <3> QED  BY <3>1, <1>4, LLCacheAssumption
  <2>3. Supplied(res)
    <3> HIDE DEF k
    <3> QED  BY <1>1, <1>7, <2>1, <2>2, RetrievedFacts DEF k
  <2>4. /\ res.o \in Objects /\ res.cached \in Seq(Objects) /\ res.uncached \in Seq(Objects)
        /\ MapOK(res.object) /\ Linked(res.object, user) /\ res.object[res.o].used
        /\ Listed(res.object, res.cached, res.uncached)
        /\ res.object[o].users = object[o].users
    BY <1>3, <1>4, <2>3 DEF Supplied, Grown
  <2>5. res.object \in [Objects -> ObjectRecord]
    BY <2>4 DEF MapOK
  <2>6. user' \in [Users -> UserRecord]
        /\ \A w \in Users : user'[w].object =
              IF w \in Elems(res.object[o].users) THEN res.o ELSE user[w].object
    BY <1>3, <1>7, <2>4, MovedUsers
  <2>7. Like(res.object, object') /\ Linked(object', user')
    BY <1>1, <1>3, <1>7, <2>4, <2>5, <2>6, MoveUsersFacts
  <2>8. MapOK(object')
    BY <2>4, <2>7, LikeMap
  <2>9. Listed(object', cached', uncached')
    BY <1>7, <2>4, <2>7 DEF Listed, Like
  <2>10. HandlesOK'
    BY <1>3, <1>7, <2>4, MovedHandles
  <2>11. \A u \in Users : user'[u].iterator_target = FALSE /\ user'[u].queued_for_delete = FALSE
    <3>1. \A u \in Users : user[u].iterator_target = FALSE /\ user[u].queued_for_delete = FALSE
      BY <1>2, NobodyMarked
    <3>2. \A u \in Users : /\ user'[u].iterator_target = user[u].iterator_target
                           /\ user'[u].queued_for_delete = user[u].queued_for_delete
      BY <1>3, <1>7, <2>4, MovedUsers
    <3> QED  BY <3>1, <3>2
  <2> QED  BY <1>1, <1>5, <1>7, <2>4, <2>6, <2>7, <2>8, <2>9, <2>10, <2>11, IdleStep
<1>8. CASE SendEvent(object, o, "ERROR", NONE) /\ UNCHANGED <<object, cached, uncached, all_caught_up>>
  <2>1. MapOK(object') /\ Kept(object, object')
    BY <1>1, <1>8 DEF Kept
  <2>2. "ERROR" \in EventTypes
    BY DEF EventTypes
  <2> QED  BY <1>2, <1>3, <1>4, <1>5, <1>8, <2>1, <2>2, EventStep
<1> QED  BY <1>6, <1>7, <1>8

-----------------------------------------------------------------------------
(* Calls that return.                                                       *)

\* The user u is let go: destroyed, or no longer marked.
LetGo(o, u) ==
    \/ object' = RemoveUser(object, o, u) /\ user'[u] = FreeUser
    \/ object' = object /\ Remarked(user[u], user'[u], FALSE, FALSE)

\* The users apart from the one let go, and from the next one to be called.
OthersWait(u, next) ==
    /\ \A w \in Users \ {u, next} : user'[w] = user[w]
    /\ next # NONE => Remarked(user[next], user'[next], TRUE, user[next].queued_for_delete)

\* The code goes from user u of object o to user next.
Onward(o, next) ==
    /\ ctl' \in ControlRecord
    /\ ctl'.kind = ctl.kind /\ ctl'.obj = o /\ ctl'.cur = next
    /\ ctl.kind = "event" => ctl'.then = ctl.then

LEMMA TurnStep ==
    ASSUME LInv, ctl.kind # "idle", NEW o \in Objects, NEW u \in Users, ctl.obj = o, ctl.cur = u,
           NEW next \in Users \cup {NONE}, next # u, next # NONE => user[next].object = o,
           user' \in [Users -> UserRecord], LetGo(o, u), OthersWait(u, next), Onward(o, next),
           ctl.kind = "pass" => ctl'.call = NONE, all_caught_up' \in BOOLEAN, UNCHANGED <<cached, uncached, fault>>
    PROVE  LInv'
<1>1. /\ Sound /\ MapOK(object) /\ fault \in BOOLEAN /\ object \in [Objects -> ObjectRecord]
      /\ user \in [Users -> UserRecord] /\ Linked(object, user)
      /\ Listed(object, cached, uncached) /\ cached \in Seq(Objects) /\ uncached \in Seq(Objects)
      /\ HandlesOK
  BY LInvSound DEF LInv, Sound
<1>2. user[u].object = o /\ object[o].used
      /\ (ctl.kind = "event" /\ ctl.then # NONE =>
            object[o].redirect_count <= fetch_redirect_limit)
  BY LLCacheAssumption DEF LInv, ControlOK
<1>3. \A w \in Users \ {u} : user'[w].object = user[w].object /\ user'[w].handle = user[w].handle
  BY LLCacheAssumption DEF OthersWait, Remarked
<1>4. /\ Like(object, object') /\ Linked(object', user')
      /\ user'[u].handle => user'[u].object # NONE
      /\ ~user'[u].iterator_target /\ ~user'[u].queued_for_delete
  <2>1. CASE object' = RemoveUser(object, o, u) /\ user'[u] = FreeUser
    <3>1. Belongs(user, user', u, NONE)
      BY <1>3, <2>1, FreeUserFacts DEF Belongs
    <3>2. Like(object, object') /\ Linked(object', user')
      BY <1>1, <1>2, <2>1, <3>1, RemoveUserFacts
    <3> QED  BY <2>1, <3>2, FreeUserFacts
  <2>2. CASE object' = object /\ Remarked(user[u], user'[u], FALSE, FALSE)
    <3>1. SameHandles(user, user')
      BY <1>3, <2>2 DEF SameHandles, Remarked
    <3>2. Linked(object', user')
      BY <1>1, <2>2, <3>1, SameHandlesLinked
    <3>3. Like(object, object')
      BY <1>1, <2>2, AlikeRefl DEF Alike
    <3>4. user'[u].handle = user[u].handle /\ user'[u].object = user[u].object
      BY <2>2 DEF Remarked
    <3>5. user'[u].handle => user'[u].object # NONE
      BY <1>1, <3>4 DEF HandlesOK
    <3>6. ~user'[u].iterator_target /\ ~user'[u].queued_for_delete
      BY <2>2 DEF Remarked
    <3> QED  BY <3>2, <3>3, <3>5, <3>6
  <2> QED  BY <2>1, <2>2 DEF LetGo
<1>5. MapOK(object')
  BY <1>1, <1>4, LikeMap
<1>6. Listed(object', cached', uncached')
  BY <1>1, <1>4 DEF Listed, Like
<1>7. HandlesOK'
  BY <1>1, <1>3, <1>4 DEF HandlesOK
<1>8. OnlyTheTargetLingers'
  <2>1. \A w \in Users \ {u, next} : user'[w] = user[w]
    BY DEF OthersWait
  <2>2. \A w \in Users \ {u} : ~user[w].iterator_target /\ ~user[w].queued_for_delete
    BY DEF LInv, OnlyTheTargetLingers
  <2>3. ctl'.kind # "idle" /\ ctl'.cur = next
    BY DEF Onward
  <2> QED  BY <1>4, <2>1, <2>2, <2>3 DEF OnlyTheTargetLingers
<1>9. ControlOK'
  <2>1. object'[o].used /\ object'[o].redirect_count = object[o].redirect_count
    BY <1>2, <1>4 DEF Like
  <2>2. next # NONE => user'[next].object = o /\ user'[next].iterator_target
    BY DEF OthersWait, Remarked
  <2>3. /\ ctl'.obj = o /\ ctl'.cur = next
        /\ ctl'.kind = "event" => ctl'.then = ctl.then /\ ctl.kind = "event"
        /\ ctl'.kind = "pass" => ctl'.call = NONE
    BY DEF Onward
  <2>4. next # NONE => ~user'[next].queued_for_delete
    BY DEF OthersWait, Remarked, LInv, OnlyTheTargetLingers
  <2> QED  BY <1>2, <2>1, <2>2, <2>3, <2>4 DEF ControlOK
<1> QED  BY <1>1, <1>4, <1>5, <1>6, <1>7, <1>8, <1>9, Assemble DEF Onward

\* The user after u in the list of its object.
LEMMA NextFacts ==
    ASSUME LInv, NEW u \in Users, NEW o \in Objects, user[u].object = o
    PROVE  LET next == Successor(object[o].users, u)
           IN  next \in Users \cup {NONE} /\ next # u /\ (next # NONE => user[next].object = o)
<1>1. object \in [Objects -> ObjectRecord] /\ Linked(object, user) /\ o # NONE /\ u # NONE
  BY LInvSound, LLCacheAssumption DEF Sound
<1>2. object[o].users \in Seq(Users) /\ Elems(object[o].users) \subseteq Users
  BY <1>1, UsersTyped
<1>3. u \in Elems(object[o].users) /\ Distinct(object[o].users)
      /\ \A w \in Elems(object[o].users) : user[w].object = o
  BY <1>1 DEF Linked
<1> DEFINE next == Successor(object[o].users, u)
<1>4. next \in Elems(object[o].users) \cup {NONE} /\ next # u
  BY <1>1, <1>2, <1>3, SuccessorFacts
<1> HIDE DEF next
<1>5. next \in Users \cup {NONE} /\ next # u /\ (next # NONE => user[next].object = o)
  BY <1>2, <1>3, <1>4
<1> QED  BY <1>5 DEF next

LEMMA UnmarkedFacts ==
    ASSUME NEW r \in UserRecord, ~r.queued_for_delete
    PROVE  Remarked(r, [r EXCEPT !.iterator_target = FALSE], FALSE, FALSE)
<1> DEFINE q == [r EXCEPT !.iterator_target = FALSE]
<1>1. q \in UserRecord /\ q.object = r.object /\ q.handle = r.handle /\ q.iterator_target = FALSE
      /\ q.queued_for_delete = r.queued_for_delete
  BY DEF UserRecord
<1>2. r.queued_for_delete = FALSE
  BY UserFields
<1> HIDE DEF q
<1>3. Remarked(r, q, FALSE, FALSE)
  BY <1>1, <1>2 DEF Remarked
<1> QED  BY <1>3 DEF q

LEMMA EventReturnsKeeps ==
    ASSUME LInv, NEW r \in Returns, EventReturns(r)
    PROVE  LInv'
<1> DEFINE u == ctl.cur
           o == ctl.obj
           next == IF r = "ok" THEN Successor(object[o].users, u) ELSE NONE
           called == IF next = NONE THEN user
                     ELSE [user EXCEPT ![next] = Called(user[next], ctl.type)]
<1>1. ctl.kind = "event" /\ ctl \in EventControl /\ u # NONE
  BY LInvSound, ControlCases DEF EventReturns
<1>2. u \in Users /\ o \in Objects
  BY <1>1 DEF EventControl
<1>3. user[u].object = o
  BY <1>1 DEF LInv, ControlOK
<1>4. next \in Users \cup {NONE} /\ next # u /\ (next # NONE => user[next].object = o)
  BY <1>1, <1>2, <1>3, NextFacts
<1>5. user \in [Users -> UserRecord] /\ all_caught_up \in BOOLEAN
  BY LInvSound DEF Sound
<1>6. UNCHANGED <<cached, uncached, all_caught_up, fault>>
  BY DEF EventReturns
<1>7. ctl' = [ctl EXCEPT !.cur = next, !.err = r]
  BY DEF EventReturns
<1>8. \/ user[u].queued_for_delete /\ object' = RemoveUser(object, o, u)
         /\ user' = [called EXCEPT ![u] = FreeUser]
      \/ ~user[u].queued_for_delete /\ object' = object
         /\ user' = [called EXCEPT ![u] = [called[u] EXCEPT !.iterator_target = FALSE]]
  BY DEF EventReturns
<1> HIDE DEF next
<1>9. Onward(o, next)
  <2>1. r \in Errors
    BY LLCacheAssumption DEF Errors
  <2>2. ctl' \in EventControl /\ ctl'.kind = "event" /\ ctl'.obj = o /\ ctl'.cur = next
        /\ ctl'.then = ctl.then
    BY <1>1, <1>4, <1>7, <2>1 DEF EventControl
  <2> QED  BY <1>1, <2>2, ControlSplit DEF Onward
<1>10. /\ called \in [Users -> UserRecord] /\ \A w \in Users \ {next} : called[w] = user[w]
       /\ next # NONE => Remarked(user[next], called[next], TRUE, user[next].queued_for_delete)
  <2>1. next # NONE => Remarked(user[next], Called(user[next], ctl.type), TRUE,
                                user[next].queued_for_delete)
    BY <1>4, <1>5, CalledFacts
  <2>2. next # NONE => Called(user[next], ctl.type) \in UserRecord
    BY <2>1 DEF Remarked
  <2> QED  BY <1>4, <1>5, <2>1, <2>2
<1> HIDE DEF called
<1>11. called[u] = user[u]
  BY <1>2, <1>4, <1>10
<1>12. user' \in [Users -> UserRecord] /\ LetGo(o, u) /\ OthersWait(u, next)
  <2>1. CASE /\ object' = RemoveUser(object, o, u)
             /\ user' = [called EXCEPT ![u] = FreeUser]
    <3>1. user' \in [Users -> UserRecord] /\ user'[u] = FreeUser
      BY <1>2, <1>10, <2>1, FreeUserFacts
    <3>2. \A w \in Users \ {u} : user'[w] = called[w]
      BY <1>10, <2>1
    <3> QED  BY <1>4, <1>10, <2>1, <3>1, <3>2 DEF LetGo, OthersWait
  <2>2. CASE /\ ~user[u].queued_for_delete /\ object' = object
             /\ user' = [called EXCEPT ![u] = [called[u] EXCEPT !.iterator_target = FALSE]]
    <3> DEFINE q == [user[u] EXCEPT !.iterator_target = FALSE]
    <3>1. Remarked(user[u], q, FALSE, FALSE)
      BY <1>2, <1>5, <2>2, UnmarkedFacts
    <3>2. user' = [called EXCEPT ![u] = q]
      BY <1>11, <2>2
    <3> HIDE DEF q
    <3>3. q \in UserRecord
      BY <3>1 DEF Remarked
    <3>4. user' \in [Users -> UserRecord] /\ user'[u] = q
      BY <1>2, <1>10, <3>2, <3>3
    <3>5. \A w \in Users \ {u} : user'[w] = called[w]
      BY <1>10, <3>2
    <3> QED  BY <1>4, <1>10, <2>2, <3>1, <3>4, <3>5 DEF LetGo, OthersWait
  <2> QED  BY <1>8, <2>1, <2>2
<1> HIDE DEF u, o
<1>13. ctl.obj = o /\ ctl.cur = u
  BY DEF u, o
<1> QED  BY <1>1, <1>2, <1>4, <1>5, <1>6, <1>9, <1>12, <1>13, TurnStep

\* Objects that nobody needs are destroyed, and the event loop has control.
LEMMA DestroyStep ==
    ASSUME LInv, NEW m, Alike(object, m), NEW D, NEW purge \in BOOLEAN,
           D \in Discarded(purge) \cup {{}}, Destroy(m, D),
           ctl.kind = "idle" \/ ctl.cur = NONE, ctl' = Idle, all_caught_up' \in BOOLEAN,
           fault' \in BOOLEAN, UNCHANGED user
    PROVE  LInv'
<1>1. /\ Sound /\ MapOK(object) /\ user \in [Users -> UserRecord] /\ Linked(object, user)
      /\ Listed(object, cached, uncached) /\ cached \in Seq(Objects) /\ uncached \in Seq(Objects)
      /\ HandlesOK
  BY LInvSound DEF LInv, Sound
<1>2. MapOK(m) /\ Kept(object, m)
  BY <1>1, AlikeKept
<1>3. Linked(m, user) /\ Listed(m, cached, uncached)
  BY <1>1, <1>2, KeptLinked, KeptListed
<1>4. Unneeded(m, user, D)
  <2>1. \A o \in D : o \in Objects /\ Disposable(o)
    BY <1>1, DiscardedFacts
  <2>2. \A o \in Objects : m[o].users = object[o].users
                           /\ m[o].candidate_count = object[o].candidate_count
    BY DEF Alike, Like, SameUsers
  <2> QED  BY <2>1, <2>2 DEF Unneeded, Disposable
<1>5. /\ object' = [o \in Objects |-> IF o \in D THEN FreeObject ELSE m[o]]
      /\ cached' = Selected(cached, Objects \ D)
      /\ uncached' = Selected(uncached, Objects \ D)
  BY DEF Destroy
<1>6. /\ MapOK(object') /\ Linked(object', user) /\ Listed(object', cached', uncached')
      /\ cached' \in Seq(Objects) /\ uncached' \in Seq(Objects)
  BY <1>1, <1>2, <1>3, <1>4, <1>5, DestroyFacts
<1>7. HandlesOK'
  BY <1>1 DEF HandlesOK
<1>8. \A u \in Users : user'[u].iterator_target = FALSE /\ user'[u].queued_for_delete = FALSE
  BY NobodyMarked
<1> QED  BY <1>1, <1>6, <1>7, <1>8, IdleStep

LEMMA EventDoneKeeps ==
    ASSUME LInv, EventDone
    PROVE  LInv'
<1> DEFINE o == ctl.obj
           m == IF ctl.err # "ok" /\ object[o].fetch # "none"
                THEN [object EXCEPT ![o] = Ended(object[o])] ELSE object
<1>1. ctl.kind = "event" /\ ctl.cur = NONE /\ ctl \in EventControl
  BY LInvSound, ControlCases DEF EventDone
<1>2. o \in Objects /\ object[o].used
  BY <1>1 DEF EventControl, LInv, ControlOK
<1>3. object \in [Objects -> ObjectRecord]
  BY LInvSound
<1>4. Alike(object, m)
  <2>1. object[o] \in ObjectRecord
    BY <1>2, <1>3
  <2>2. Alike(object, [object EXCEPT ![o] = Ended(object[o])])
    BY <1>2, <1>3, <2>1, EndedLike, PutAlike
  <2>3. Alike(object, object)
    BY <1>3, AlikeRefl
  <2> QED  BY <2>2, <2>3
<1>5. PICK D : /\ D \in Discarded(TRUE) \cup {{}}
               /\ Destroy(m, D)
               /\ fault' = (o \in D \/ (ctl.err # "ok" /\ object[o].fetch = "ended"))
  BY DEF EventDone
<1>6. ctl' = Idle /\ all_caught_up' \in BOOLEAN /\ UNCHANGED user
  BY DEF EventDone, NotCaughtUp
<1>7. fault' \in BOOLEAN
  BY <1>5
<1> HIDE DEF m
<1> QED  BY <1>1, <1>4, <1>5, <1>6, <1>7, DestroyStep

LEMMA CleanKeeps ==
    ASSUME LInv, llcache_clean
    PROVE  LInv'
<1>1. PICK D \in Discarded(FALSE) : Destroy(object, D)
  BY DEF llcache_clean
<1>2. ctl.kind = "idle" /\ UNCHANGED <<user, all_caught_up, ctl, fault>>
  BY DEF llcache_clean
<1>3. ctl' = Idle /\ fault' \in BOOLEAN /\ all_caught_up' \in BOOLEAN
  BY <1>2, LInvSound, ControlCases
<1>4. Alike(object, object)
  BY LInvSound, AlikeRefl
<1> QED  BY <1>1, <1>2, <1>3, <1>4, DestroyStep

LEMMA ExpiresKeeps ==
    ASSUME LInv, NEW o \in Objects, Expires(o)
    PROVE  LInv'
<1> DEFINE r == object[o]
           c == [r.cache EXCEPT !.life = FALSE]
           q == [r EXCEPT !.cache = c]
<1>1. MapOK(object) /\ r \in ObjectRecord /\ all_caught_up \in BOOLEAN
  BY LInvSound DEF Sound
<1>2. c \in CacheControl
  <2>1. r.cache \in CacheControl
    BY <1>1, ObjectFields
  <2> QED  BY <2>1 DEF CacheControl
<1>3. object' = [object EXCEPT ![o] = q] /\ UNCHANGED <<user, cached, uncached, all_caught_up, ctl, fault>>
  BY DEF Expires
<1> HIDE DEF c
<1>4. LikeRecord(r, q) /\ q.users = r.users
  BY <1>1, <1>2, LikeCache
<1> HIDE DEF q
<1>5. MapOK(object') /\ Kept(object, object')
  BY <1>1, <1>3, <1>4, PutKept
<1> QED  BY <1>1, <1>3, <1>5, QuietStep

-----------------------------------------------------------------------------
(* The pass over the users.                                                 *)

LEMMA TargetedFacts ==
    ASSUME NEW us \in [Users -> UserRecord], NEW u \in Users \cup {NONE}
    PROVE  /\ Targeted(us, u) \in [Users -> UserRecord]
           /\ \A w \in Users \ {u} : Targeted(us, u)[w] = us[w]
           /\ u # NONE => Remarked(us[u], Targeted(us, u)[u], TRUE, us[u].queued_for_delete)
<1>1. CASE u = NONE
  BY <1>1 DEF Targeted
<1>2. CASE u # NONE
  <2> DEFINE q == [us[u] EXCEPT !.iterator_target = TRUE]
  <2>1. us[u] \in UserRecord
    BY <1>2
  <2>2. Remarked(us[u], q, TRUE, us[u].queued_for_delete)
    BY <2>1 DEF Remarked, UserRecord
  <2>3. Targeted(us, u) = [us EXCEPT ![u] = q]
    BY <1>2 DEF Targeted
  <2> HIDE DEF q
  <2>4. q \in UserRecord
    BY <2>2 DEF Remarked
  <2> QED  BY <1>2, <2>2, <2>3, <2>4
<1> QED  BY <1>1, <1>2

LEMMA EnterUserFacts ==
    ASSUME NEW m \in [Objects -> ObjectRecord], NEW o \in Objects, NEW u \in Users \cup {NONE},
           NEW loop \in {1, 2}
    PROVE  LET c == EnterUser(m, o, u, loop)
           IN  /\ c \in PassControl /\ c.kind = "pass" /\ c.obj = o /\ c.cur = u
               /\ c.call = NONE
<1>1. o # NONE /\ m[o].state \in INIT..COMPLETE /\ 0 \in 0..MaxLen /\ NONE \in PassCalls
  BY LLCacheAssumption, ObjectFields DEF PassCalls
<1>2. EnterUser(m, o, u, loop) =
         [kind |-> "pass", loop |-> loop, obj |-> o, cur |-> u, objstate |-> m[o].state,
          call |-> NONE, orig |-> 0]
  BY <1>1 DEF EnterUser
<1> QED  BY <1>1, <1>2 DEF PassControl

\* An object of a list is used.
LEMMA ListedUsed ==
    ASSUME LInv, NEW o \in Elems(cached) \cup Elems(uncached)
    PROVE  o \in Objects /\ object[o].used
<1>1. Elems(cached) \subseteq Objects /\ Elems(uncached) \subseteq Objects
  BY LInvSound, ElemsIn DEF Sound
<1> QED  BY <1>1, LInvSound DEF Sound, Listed

LEMMA EnterStep ==
    ASSUME LInv, NEW o \in Elems(cached) \cup Elems(uncached) \cup {NONE}, NEW loop \in {1, 2},
           EnterObject(o, loop), ctl.kind = "idle" \/ ctl.cur = NONE,
           all_caught_up' \in BOOLEAN, UNCHANGED <<object, cached, uncached, fault>>
    PROVE  LInv'
<1> DEFINE second == loop = 1 /\ o = NONE
           x == IF second THEN First(uncached) ELSE o
           u == IF x = NONE THEN NONE ELSE First(object[x].users)
           l == IF second THEN 2 ELSE loop
<1>1. /\ Sound /\ MapOK(object) /\ fault \in BOOLEAN /\ object \in [Objects -> ObjectRecord]
      /\ user \in [Users -> UserRecord] /\ Linked(object, user)
      /\ Listed(object, cached, uncached) /\ cached \in Seq(Objects) /\ uncached \in Seq(Objects)
      /\ HandlesOK
  BY LInvSound DEF LInv, Sound
<1>2. x \in Elems(cached) \cup Elems(uncached) \cup {NONE}
  BY <1>1, FirstFacts
<1>3. ctl' = IF x = NONE THEN Idle ELSE EnterUser(object, x, u, l)
  BY DEF EnterObject
<1>4. user' = Targeted(user, u) /\ (x = NONE => u = NONE) /\ l \in {1, 2}
  BY DEF EnterObject
<1>5. x # NONE => u = First(object[x].users)
  OBVIOUS
<1> HIDE DEF x, u, l
<1>6. CASE x = NONE
  <2>1. user' = user
    BY <1>4, <1>6 DEF Targeted
  <2>2. HandlesOK'
    BY <1>1, <2>1 DEF HandlesOK
  <2>3. \A w \in Users : user'[w].iterator_target = FALSE /\ user'[w].queued_for_delete = FALSE
    BY <2>1, NobodyMarked
  <2> QED  BY <1>1, <1>3, <1>6, <2>1, <2>2, <2>3, IdleStep
<1>7. CASE x # NONE
  <2>1. x \in Objects /\ object[x].used
    BY <1>2, <1>7, ListedUsed
  <2>2. u \in Elems(object[x].users) \cup {NONE} /\ Elems(object[x].users) \subseteq Users
    BY <1>1, <1>5, <1>7, <2>1, UsersTyped, FirstFacts
  <2>3. u \in Users \cup {NONE} /\ (u # NONE => user[u].object = x)
    BY <1>1, <2>1, <2>2 DEF Linked
  <2>4. ctl' \in PassControl /\ ctl'.kind = "pass" /\ ctl'.obj = x /\ ctl'.cur = u
        /\ ctl'.call = NONE
    BY <1>1, <1>3, <1>4, <1>7, <2>1, <2>3, EnterUserFacts
  <2>5. /\ user' \in [Users -> UserRecord] /\ \A w \in Users \ {u} : user'[w] = user[w]
        /\ u # NONE => Remarked(user[u], user'[u], TRUE, user[u].queued_for_delete)
    BY <1>1, <1>4, <2>3, TargetedFacts
  <2>6. SameHandles(user, user')
    BY LLCacheAssumption, <2>3, <2>5 DEF SameHandles, Remarked
  <2>7. Linked(object', user')
    BY <1>1, <2>6, SameHandlesLinked
  <2>8. HandlesOK'
    BY <1>1, <2>6 DEF HandlesOK, SameHandles
  <2>9. \A w \in Users : ~user[w].iterator_target /\ ~user[w].queued_for_delete
    BY NobodyMarked
  <2>10. u # NONE => user'[u].object = x /\ user'[u].iterator_target /\ ~user'[u].queued_for_delete
    BY <2>3, <2>5, <2>9 DEF Remarked
  <2>11. OnlyTheTargetLingers'
    BY <2>4, <2>5, <2>9 DEF OnlyTheTargetLingers
  <2>12. ControlOK'
    BY <2>1, <2>4, <2>10 DEF ControlOK
  <2>13. ctl' \in ControlRecord
    BY <2>4, ControlSplit
  <2> QED  BY <1>1, <2>5, <2>7, <2>8, <2>11, <2>12, <2>13, Assemble
<1> QED  BY <1>6, <1>7

LEMMA CatchUpKeeps ==
    ASSUME LInv, llcache_catch_up_all_users
    PROVE  LInv'
<1>1. First(cached) \in Elems(cached) \cup {NONE}
  BY LInvSound, FirstFacts DEF Sound
<1> QED  BY <1>1, EnterStep DEF llcache_catch_up_all_users

LEMMA NextObjectKeeps ==
    ASSUME LInv, NextObject
    PROVE  LInv'
<1> DEFINE list == IF ctl.obj \in Elems(cached) THEN cached ELSE uncached
<1>1. ctl.kind = "pass" /\ ctl.cur = NONE /\ ctl \in PassControl
  BY LInvSound, ControlCases DEF NextObject
<1>2. ctl.obj \in Objects /\ ctl.loop \in {1, 2}
  BY <1>1 DEF PassControl
<1>3. object[ctl.obj].used
  BY <1>1 DEF LInv, ControlOK
<1>4. ctl.obj \in Elems(list) /\ list \in Seq(Objects)
  BY <1>2, <1>3, LInvSound DEF Sound, Listed
<1>5. Successor(list, ctl.obj) \in Elems(list) \cup {NONE}
  BY <1>4, SuccessorFacts
<1>6. Successor(list, ctl.obj) \in Elems(cached) \cup Elems(uncached) \cup {NONE}
  BY <1>5
<1>7. EnterObject(Successor(list, ctl.obj), ctl.loop)
      /\ UNCHANGED <<object, cached, uncached, all_caught_up, fault>>
  BY DEF NextObject
<1>8. all_caught_up' \in BOOLEAN
  BY <1>7, LInvSound
<1> QED  BY <1>1, <1>2, <1>6, <1>7, <1>8, EnterStep

\* The users have the handles and the marks they had.
SameMarks(us, vs) ==
    /\ SameHandles(us, vs)
    /\ \A u \in Users : /\ vs[u].iterator_target = us[u].iterator_target
                        /\ vs[u].queued_for_delete = us[u].queued_for_delete

\* The pass stays with its user.
LEMMA StayStep ==
    ASSUME LInv, ctl.kind = "pass", MapOK(object'), Kept(object, object'), SameMarks(user, user'),
           Onward(ctl.obj, ctl.cur), ctl.cur = NONE => ctl'.call = NONE,
           ctl'.call = NONE /\ ctl.cur # NONE => ~user[ctl.cur].queued_for_delete,
           all_caught_up' \in BOOLEAN, UNCHANGED <<cached, uncached, fault>>
    PROVE  LInv'
<1>1. /\ Sound /\ ctl \in PassControl /\ fault \in BOOLEAN /\ HandlesOK /\ ControlOK
      /\ OnlyTheTargetLingers /\ object \in [Objects -> ObjectRecord]
  BY LInvSound, ControlCases DEF LInv
<1>2. SameHandles(user, user') /\ user' \in [Users -> UserRecord]
  BY DEF SameMarks, SameHandles
<1>3. Linked(object', user') /\ Listed(object', cached', uncached')
  <2>1. Linked(object, user')
    BY <1>1, <1>2, SameHandlesLinked DEF Sound
  <2> QED  BY <1>1, <1>2, <2>1, KeptLinked, KeptListed DEF Sound
<1>4. HandlesOK'
  BY <1>1, <1>2 DEF HandlesOK, SameHandles
<1>5. ctl' \in ControlRecord /\ ctl'.kind = "pass" /\ ctl'.obj = ctl.obj /\ ctl'.cur = ctl.cur
  BY DEF Onward
<1>6. OnlyTheTargetLingers'
  BY <1>1, <1>5 DEF OnlyTheTargetLingers, SameMarks
<1>7. ControlOK'
  <2>1. ctl.obj \in Objects /\ ctl.cur \in Users \cup {NONE}
    BY <1>1 DEF PassControl
  <2>2. object'[ctl.obj].used
    BY <1>1, <2>1 DEF ControlOK, Kept
  <2>3. ctl.cur # NONE => /\ user'[ctl.cur].object = user[ctl.cur].object
                          /\ user'[ctl.cur].iterator_target = user[ctl.cur].iterator_target
                          /\ user'[ctl.cur].queued_for_delete = user[ctl.cur].queued_for_delete
    BY <2>1 DEF SameMarks, SameHandles
  <2>4. ctl.cur # NONE => user[ctl.cur].object = ctl.obj /\ user[ctl.cur].iterator_target
    BY <1>1 DEF ControlOK
  <2>5. /\ ctl.cur = NONE => ctl'.call = NONE
        /\ ctl'.call = NONE /\ ctl.cur # NONE => ~user'[ctl.cur].queued_for_delete
    BY <2>3
  <2> QED  BY <1>5, <2>2, <2>3, <2>4, <2>5 DEF ControlOK
<1> QED  BY <1>1, <1>2, <1>3, <1>4, <1>5, <1>6, <1>7, Assemble DEF Sound

\* The pass goes from user u, which becomes q, to user next.
LEMMA PassTurn ==
    ASSUME LInv, ctl.kind = "pass", NEW u \in Users, ctl.cur = u, NEW q \in UserRecord,
           NEW next \in Users \cup {NONE}, next # u, next # NONE => user[next].object = ctl.obj,
           \/ object' = RemoveUser(object, ctl.obj, u) /\ q = FreeUser
           \/ object' = object /\ Remarked(user[u], q, FALSE, FALSE),
           user' = Targeted([user EXCEPT ![u] = q], next),
           ctl' = EnterUser(object, ctl.obj, next, ctl.loop),
           all_caught_up' \in BOOLEAN, UNCHANGED <<cached, uncached, fault>>
    PROVE  LInv'
<1> DEFINE mid == [user EXCEPT ![u] = q]
           o == ctl.obj
<1>1. /\ ctl \in PassControl /\ user \in [Users -> UserRecord]
      /\ object \in [Objects -> ObjectRecord]
  BY LInvSound, ControlCases DEF Sound
<1>2. o \in Objects /\ ctl.loop \in {1, 2}
  BY <1>1 DEF PassControl
<1>3. mid \in [Users -> UserRecord] /\ mid[u] = q /\ \A w \in Users \ {u} : mid[w] = user[w]
  BY <1>1
<1>4. user' = Targeted(mid, next)
  OBVIOUS
<1> HIDE DEF mid
<1>5. /\ user' \in [Users -> UserRecord] /\ \A w \in Users \ {next} : user'[w] = mid[w]
      /\ next # NONE => Remarked(mid[next], user'[next], TRUE, mid[next].queued_for_delete)
  BY <1>3, <1>4, TargetedFacts
<1>6. user'[u] = q
  BY <1>3, <1>5
<1>7. LetGo(o, u)
  BY <1>6 DEF LetGo
<1>8. OthersWait(u, next)
  <2>1. next # NONE => mid[next] = user[next]
    BY <1>3
  <2>2. next # NONE => Remarked(user[next], user'[next], TRUE, user[next].queued_for_delete)
    BY <1>5, <2>1
  <2>3. \A w \in Users \ {u, next} : user'[w] = user[w]
    BY <1>3, <1>5
  <2> QED  BY <2>2, <2>3 DEF OthersWait
<1>9. Onward(o, next) /\ ctl'.call = NONE
  <2>1. ctl' \in PassControl /\ ctl'.kind = "pass" /\ ctl'.obj = o /\ ctl'.cur = next
        /\ ctl'.call = NONE
    BY <1>1, <1>2, EnterUserFacts
  <2> QED  BY <2>1, ControlSplit DEF Onward
<1> HIDE DEF o
<1>10. ctl.obj = o
  BY DEF o
<1> QED  BY <1>2, <1>5, <1>7, <1>8, <1>9, <1>10, TurnStep DEF o

\* The user a pass is at.
LEMMA PassFacts ==
    ASSUME LInv, ctl.kind = "pass", ctl.cur # NONE
    PROVE  /\ ctl.cur \in Users /\ ctl.obj \in Objects /\ user[ctl.cur].object = ctl.obj
           /\ ctl.objstate \in INIT..COMPLETE /\ ctl.orig \in 0..MaxLen /\ ctl.loop \in {1, 2}
           /\ ctl \in PassControl /\ object[ctl.obj].used
           /\ user[ctl.cur] \in UserRecord /\ object[ctl.obj] \in ObjectRecord
           /\ ctl.call = NONE => ~user[ctl.cur].queued_for_delete
           /\ user \in [Users -> UserRecord] /\ all_caught_up \in BOOLEAN
<1>1. ctl \in PassControl /\ user \in [Users -> UserRecord] /\ object \in [Objects -> ObjectRecord]
      /\ all_caught_up \in BOOLEAN
  BY LInvSound, ControlCases DEF Sound
<1>2. /\ ctl.cur \in Users /\ ctl.obj \in Objects /\ ctl.objstate \in INIT..COMPLETE
      /\ ctl.orig \in 0..MaxLen /\ ctl.loop \in {1, 2}
  BY <1>1 DEF PassControl
<1>3. /\ user[ctl.cur].object = ctl.obj /\ object[ctl.obj].used
      /\ ctl.call = NONE => ~user[ctl.cur].queued_for_delete
  BY DEF LInv, ControlOK
<1> QED  BY <1>1, <1>2, <1>3

LEMMA NextUserKeeps ==
    ASSUME LInv, NextUser
    PROVE  LInv'
<1> DEFINE u == ctl.cur
           o == ctl.obj
           next == Successor(object[o].users, u)
           s == IF user[u].state = INIT /\ ctl.objstate > INIT THEN HEADERS ELSE user[u].state
           q == [user[u] EXCEPT !.iterator_target = FALSE, !.state = s]
<1>1. ctl.kind = "pass" /\ u # NONE /\ ctl.call = NONE
  BY DEF NextUser
<1>2. u \in Users /\ o \in Objects /\ user[u].object = o /\ user[u] \in UserRecord
      /\ ~user[u].queued_for_delete /\ all_caught_up \in BOOLEAN
  BY <1>1, PassFacts
<1>3. next \in Users \cup {NONE} /\ next # u /\ (next # NONE => user[next].object = o)
  BY <1>2, NextFacts
<1>4. s \in INIT..COMPLETE
  BY <1>2, UserFields, StatesTyped
<1>5. /\ user' = Targeted([user EXCEPT ![u] = q], next)
      /\ ctl' = EnterUser(object, o, next, ctl.loop)
      /\ UNCHANGED <<object, cached, uncached, all_caught_up, fault>>
  BY DEF NextUser
<1> HIDE DEF s, next
<1>6. q \in UserRecord /\ Remarked(user[u], q, FALSE, FALSE)
  <2>1. q \in UserRecord /\ q.object = user[u].object /\ q.handle = user[u].handle
        /\ q.iterator_target = FALSE /\ q.queued_for_delete = user[u].queued_for_delete
    BY <1>2, <1>4 DEF UserRecord
  <2>2. user[u].queued_for_delete = FALSE
    BY <1>2, UserFields
  <2> HIDE DEF q
  <2> QED  BY <2>1, <2>2 DEF Remarked
<1> HIDE DEF q, u
<1>7. ctl.cur = u
  BY DEF u
<1> QED  BY <1>1, <1>2, <1>3, <1>5, <1>6, <1>7, PassTurn DEF o

\* What a user is told is one of the four events.
LEMMA DueTyped ==
    ASSUME NEW h, NEW o, NEW s
    PROVE  Due(h, o, s) \in PassCalls
  BY DEF Due, PassCalls

\* A handle with another state and another number of bytes.
WithProgress(h, s, b) == [h EXCEPT !.state = s, !.bytes = b]

LEMMA ProgressFacts ==
    ASSUME NEW h \in UserRecord, NEW s \in INIT..COMPLETE, NEW b \in 0..MaxLen
    PROVE  LET q == WithProgress(h, s, b)
           IN  /\ q \in UserRecord /\ q.object = h.object /\ q.handle = h.handle
               /\ q.iterator_target = h.iterator_target
               /\ q.queued_for_delete = h.queued_for_delete
  BY DEF WithProgress, UserRecord

LEMMA NotifyUserKeeps ==
    ASSUME LInv, NotifyUser
    PROVE  LInv'
<1> DEFINE u == ctl.cur
           o == ctl.obj
           h == user[u]
           call == Due(h, o, ctl.objstate)
           read == IF object[o].stream THEN 0 ELSE object[o].len
           s == CASE call = "GOT_CERTS" -> HEADERS
                  [] call = "DONE" -> COMPLETE
                  [] OTHER -> DATA
           b == IF call = "HAD_DATA" THEN read ELSE h.bytes
           q == WithProgress(h, s, b)
           r == [object[o] EXCEPT !.len = read]
           orig == IF object[o].stream THEN 0 ELSE h.bytes
<1>1. ctl.kind = "pass" /\ u # NONE /\ ctl.call = NONE
  BY DEF NotifyUser
<1>2. /\ u \in Users /\ o \in Objects /\ h \in UserRecord /\ object[o] \in ObjectRecord
      /\ user \in [Users -> UserRecord] /\ all_caught_up \in BOOLEAN /\ ctl \in PassControl
      /\ ~user[u].queued_for_delete
  BY <1>1, PassFacts
<1>3. MapOK(object)
  BY LInvSound DEF Sound
<1>4. read \in 0..MaxLen /\ h.bytes \in 0..MaxLen /\ 0 \in 0..MaxLen
  BY <1>2, ObjectFields, UserFields, LLCacheAssumption
<1>5. s \in INIT..COMPLETE
  BY StatesTyped
<1>6. user' = [user EXCEPT ![u] = q]
  BY DEF NotifyUser, WithProgress
<1>7. object' = IF call = "HAD_DATA" THEN [object EXCEPT ![o] = r] ELSE object
  BY DEF NotifyUser
<1>8. /\ ctl' = [ctl EXCEPT !.call = call, !.orig = orig] /\ call # NONE
      /\ UNCHANGED <<cached, uncached, all_caught_up, fault>>
  BY DEF NotifyUser
<1>9. call \in PassCalls
  BY DueTyped
<1>10. b \in 0..MaxLen /\ orig \in 0..MaxLen
  BY <1>4
<1> HIDE DEF call, read, s, b, orig
<1>11. LikeRecord(object[o], r) /\ r.users = object[o].users
  BY <1>2, <1>4, LikeLen
<1> HIDE DEF r
<1>12. MapOK(object') /\ Kept(object, object')
  <2>1. CASE object' = [object EXCEPT ![o] = r]
    BY <1>2, <1>3, <1>11, <2>1, PutKept
  <2>2. CASE object' = object
    BY <1>3, <2>2 DEF Kept
  <2> QED  BY <1>7, <2>1, <2>2
<1>13. /\ q \in UserRecord /\ q.object = h.object /\ q.handle = h.handle
       /\ q.iterator_target = h.iterator_target /\ q.queued_for_delete = h.queued_for_delete
  BY <1>2, <1>5, <1>10, ProgressFacts
<1> HIDE DEF q
<1>14. SameMarks(user, user')
  <2>1. user' \in [Users -> UserRecord] /\ \A w \in Users : user'[w] = IF w = u THEN q ELSE user[w]
    BY <1>2, <1>6, <1>13
  <2>2. SameHandles(user, user')
    BY <1>13, <2>1 DEF SameHandles
  <2> QED  BY <1>13, <2>1, <2>2 DEF SameMarks
<1>15. Onward(o, u)
  <2>1. ctl' \in PassControl /\ ctl'.kind = "pass" /\ ctl'.obj = o /\ ctl'.cur = u
    BY <1>2, <1>8, <1>9, <1>10 DEF PassControl
  <2> QED  BY <1>1, <2>1, ControlSplit DEF Onward
<1> QED  BY <1>1, <1>2, <1>8, <1>12, <1>14, <1>15, StayStep

\* A replay changes the state of the handle only.
LEMMA ReplayedFacts ==
    ASSUME NEW h \in UserRecord, ctl.orig \in 0..MaxLen
    PROVE  /\ Replayed(h) \in UserRecord /\ Replayed(h).object = h.object
           /\ Replayed(h).handle = h.handle
           /\ Replayed(h).queued_for_delete = h.queued_for_delete
<1> DEFINE s == CASE ctl.call \in {"GOT_CERTS", "HAD_HEADERS"} -> HEADERS [] OTHER -> DATA
           b == IF ctl.call = "HAD_DATA" THEN ctl.orig ELSE h.bytes
<1>1. s \in INIT..COMPLETE /\ b \in 0..MaxLen
  BY StatesTyped, UserFields
<1>2. Replayed(h) = WithProgress(h, s, b)
  BY DEF Replayed, WithProgress
<1> HIDE DEF s, b
<1> QED  BY <1>1, <1>2, ProgressFacts

LEMMA NotifyReturnsKeeps ==
    ASSUME LInv, NEW r \in Returns, NotifyReturns(r)
    PROVE  LInv'
<1> DEFINE u == ctl.cur
           o == ctl.obj
           h == user[u]
           gone == h.queued_for_delete
           replay == ~gone /\ r = "need_data"
           next == IF r = "ok" \/ replay THEN Successor(object[o].users, u) ELSE NONE
           kept == IF replay THEN Replayed(h) ELSE h
           q == IF gone THEN FreeUser ELSE [kept EXCEPT !.iterator_target = FALSE]
<1>1. ctl.kind = "pass" /\ ctl.call # NONE
  BY DEF NotifyReturns
<1>2. ctl.cur # NONE
  BY <1>1 DEF LInv, ControlOK
<1>3. /\ u \in Users /\ o \in Objects /\ user[u].object = o /\ h \in UserRecord
      /\ user \in [Users -> UserRecord] /\ all_caught_up \in BOOLEAN
      /\ ctl \in PassControl /\ ctl.orig \in 0..MaxLen
  BY <1>1, <1>2, PassFacts
<1>4. MapOK(object)
  BY LInvSound DEF Sound
<1>5. next \in Users \cup {NONE} /\ next # u /\ (next # NONE => user[next].object = o)
  BY <1>2, <1>3, NextFacts
<1>6. UNCHANGED <<cached, uncached, fault>> /\ all_caught_up' \in BOOLEAN
  BY <1>3 DEF NotifyReturns
<1>7. object' = IF gone THEN RemoveUser(object, o, u) ELSE object
  BY DEF NotifyReturns
<1>8. \/ ~gone /\ ctl' = [ctl EXCEPT !.call = NONE] /\ UNCHANGED user
      \/ /\ ctl' = EnterUser(object, o, next, ctl.loop)
         /\ user' = Targeted([user EXCEPT ![u] = q], next)
  BY DEF NotifyReturns
<1>9. CASE ~gone /\ ctl' = [ctl EXCEPT !.call = NONE] /\ UNCHANGED user
  <2>1. MapOK(object') /\ Kept(object, object')
    BY <1>4, <1>7, <1>9 DEF Kept
  <2>2. SameMarks(user, user')
    BY <1>3, <1>9 DEF SameMarks, SameHandles
  <2>3. Onward(o, u)
    <3>1. NONE \in PassCalls
      BY DEF PassCalls
    <3>2. ctl' \in PassControl /\ ctl'.kind = "pass" /\ ctl'.obj = o /\ ctl'.cur = u
      BY <1>3, <1>9, <3>1 DEF PassControl
    <3> QED  BY <1>1, <3>2, ControlSplit DEF Onward
  <2> QED  BY <1>1, <1>2, <1>6, <1>9, <2>1, <2>2, <2>3, StayStep
<1>10. CASE /\ ctl' = EnterUser(object, o, next, ctl.loop)
            /\ user' = Targeted([user EXCEPT ![u] = q], next)
  <2> HIDE DEF next
  <2>1. \/ object' = RemoveUser(object, o, u) /\ q = FreeUser
        \/ object' = object /\ Remarked(h, q, FALSE, FALSE)
    <3>1. CASE gone
      BY <1>7, <3>1
    <3>2. CASE ~gone
      <4>1. /\ kept \in UserRecord /\ kept.object = h.object /\ kept.handle = h.handle
            /\ kept.queued_for_delete = h.queued_for_delete
        BY <1>3, ReplayedFacts
      <4>2. object' = object /\ q = [kept EXCEPT !.iterator_target = FALSE]
        BY <1>7, <3>2
      <4> HIDE DEF kept
      <4>3. Remarked(kept, q, FALSE, FALSE)
        BY <3>2, <4>1, <4>2, UnmarkedFacts
      <4> HIDE DEF q
      <4>4. Remarked(h, q, FALSE, FALSE)
        BY <4>1, <4>3 DEF Remarked
      <4> QED  BY <4>2, <4>4
    <3> QED  BY <3>1, <3>2
  <2> HIDE DEF q
  <2>2. q \in UserRecord
    BY <2>1, FreeUserFacts DEF Remarked
  <2> QED  BY <1>1, <1>3, <1>5, <1>6, <1>10, <2>1, <2>2, PassTurn
<1> QED  BY <1>8, <1>9, <1>10

-----------------------------------------------------------------------------
(* The client's calls.                                                      *)

\* The objects of m are in n.
Lasting(m, n) ==
    \A p \in Objects : m[p].used => n[p].used /\ n[p].redirect_count = m[p].redirect_count

LEMMA LastingFacts ==
    ASSUME NEW m, NEW n, NEW k, Grown(m, n) \/ m = n, Like(n, k)
    PROVE  Lasting(m, k)
  BY DEF Grown, Like, Lasting

\* A user that is being called still is, and no other user is marked.
SameTargets(us, vs) ==
    \A w \in Users :
        /\ us[w].iterator_target => vs[w].iterator_target /\ vs[w].object = us[w].object
        /\ vs[w].iterator_target \/ vs[w].queued_for_delete =>
              us[w].iterator_target \/ us[w].queued_for_delete

LEMMA ClientStep ==
    ASSUME LInv, ClientRuns, MapOK(object'), Lasting(object, object'),
           user' \in [Users -> UserRecord], cached' \in Seq(Objects), uncached' \in Seq(Objects),
           Linked(object', user'), Listed(object', cached', uncached'), HandlesOK',
           SameTargets(user, user'), all_caught_up' \in BOOLEAN, UNCHANGED <<ctl, fault>>
    PROVE  LInv'
<1>1. /\ ctl \in ControlRecord /\ fault \in BOOLEAN /\ ControlOK /\ OnlyTheTargetLingers
  BY LInvSound DEF LInv
<1>2. OnlyTheTargetLingers'
  BY <1>1 DEF OnlyTheTargetLingers, SameTargets
<1>3. ControlOK'
  <2>1. ctl.kind # "idle" => ctl.obj \in Objects /\ ctl.cur \in Users \cup {NONE}
    BY <1>1, ControlCases DEF EventControl, PassControl
  <2>2. ctl.kind # "idle" => /\ object'[ctl.obj].used
                             /\ object'[ctl.obj].redirect_count = object[ctl.obj].redirect_count
    BY <1>1, <2>1 DEF ControlOK, Lasting
  <2>3. ctl.kind # "idle" /\ ctl.cur # NONE =>
           user'[ctl.cur].object = ctl.obj /\ user'[ctl.cur].iterator_target
    BY <1>1, <2>1 DEF ControlOK, SameTargets
  <2>4. ~(ctl.kind = "pass" /\ ctl.call = NONE)
    BY DEF ClientRuns
  <2> QED  BY <1>1, <2>2, <2>3, <2>4 DEF ControlOK
<1> QED  BY <1>1, <1>2, <1>3, Assemble

\* A user that is not in use is not marked.
LEMMA FreeUnmarked ==
    ASSUME LInv, NEW u \in FreeUsers
    PROVE  /\ u \in Users /\ user[u].object = NONE
           /\ ~user[u].iterator_target /\ ~user[u].queued_for_delete
<1>1. u \in Users /\ user[u].object = NONE /\ u # NONE
  BY LLCacheAssumption DEF FreeUsers
<1>2. user[u].iterator_target \/ user[u].queued_for_delete => ctl.kind # "idle" /\ ctl.cur = u
  BY <1>1 DEF LInv, OnlyTheTargetLingers
<1>3. ctl.kind # "idle" /\ ctl.cur = u => user[u].object = ctl.obj
  BY <1>1 DEF LInv, ControlOK
<1>4. ctl.kind # "idle" => ctl.obj \in Objects
  BY LInvSound, ControlCases DEF EventControl, PassControl
<1> QED  BY <1>1, <1>2, <1>3, <1>4, LLCacheAssumption

\* A handle the client holds.
LEMMA HoldsFacts ==
    ASSUME LInv, NEW u \in Users, Holds(u)
    PROVE  /\ user[u] \in UserRecord /\ user[u].object \in Objects /\ object[user[u].object].used
           /\ user[u].handle = TRUE /\ user[u].queued_for_delete = FALSE
           /\ object[user[u].object] \in ObjectRecord
<1>1. user \in [Users -> UserRecord] /\ Linked(object, user) /\ HandlesOK
      /\ object \in [Objects -> ObjectRecord]
  BY LInvSound DEF Sound, LInv
<1>2. user[u] \in UserRecord /\ user[u].object # NONE
  BY <1>1 DEF Holds, HandlesOK
<1>3. user[u].object \in Objects /\ user[u].handle \in BOOLEAN /\ user[u].queued_for_delete \in BOOLEAN
  BY <1>2, UserFields
<1>4. object[user[u].object].used
  BY <1>1, <1>2 DEF Linked
<1> QED  BY <1>1, <1>2, <1>3, <1>4 DEF Holds

\* A free user v becomes q, which belongs to the object o.
LEMMA JoinStep ==
    ASSUME LInv, ClientRuns, NEW v \in FreeUsers, NEW o \in Objects, NEW m, NEW q \in UserRecord,
           MapOK(m), Linked(m, user), m[o].used, Grown(object, m) \/ object = m,
           Listed(m, cached', uncached'), cached' \in Seq(Objects), uncached' \in Seq(Objects),
           q.object = o, ~q.iterator_target, ~q.queued_for_delete,
           object' = AddUser(m, o, v), user' = [user EXCEPT ![v] = q],
           all_caught_up' \in BOOLEAN, UNCHANGED <<ctl, fault>>
    PROVE  LInv'
<1>1. user \in [Users -> UserRecord] /\ HandlesOK /\ m \in [Objects -> ObjectRecord]
  BY LInvSound DEF Sound, LInv, MapOK
<1>2. v \in Users /\ user[v].object = NONE /\ ~user[v].iterator_target /\ ~user[v].queued_for_delete
  BY FreeUnmarked
<1>3. user' \in [Users -> UserRecord] /\ \A w \in Users : user'[w] = IF w = v THEN q ELSE user[w]
  BY <1>1, <1>2
<1>4. Belongs(user, user', v, o)
  BY <1>3 DEF Belongs
<1>5. Like(m, object') /\ Linked(object', user')
  BY <1>1, <1>2, <1>4, AddUserFacts
<1>6. MapOK(object') /\ Lasting(object, object')
  BY <1>5, LikeMap, LastingFacts
<1>7. Listed(object', cached', uncached')
  BY <1>5 DEF Listed, Like
<1>8. HandlesOK'
  BY <1>1, <1>3, LLCacheAssumption DEF HandlesOK
<1>9. SameTargets(user, user')
  BY <1>2, <1>3 DEF SameTargets
<1> QED  BY <1>3, <1>5, <1>6, <1>7, <1>8, <1>9, ClientStep

LEMMA RetrieveKeeps ==
    ASSUME LInv, NEW u \in Users, NEW url \in Urls, NEW mode \in Modes,
           llcache_handle_retrieve(u, url, mode)
    PROVE  LInv'
<1>1. ClientRuns /\ u \in FreeUsers /\ all_caught_up' \in BOOLEAN /\ UNCHANGED <<ctl, fault>>
  BY DEF llcache_handle_retrieve, Calls, NotCaughtUp
<1>2. PICK res \in Retrieved(url, mode, 0) :
         /\ object' = AddUser(res.object, res.o, u)
         /\ user' = [user EXCEPT ![u] = NewUser(res.o)]
         /\ cached' = res.cached
         /\ uncached' = res.uncached
  BY DEF llcache_handle_retrieve
<1>3. Supplied(res)
  <2>1. 0 \in Nat /\ 0 <= fetch_redirect_limit + 1 /\ mode \in ObjectModes /\ Sound
    BY LLCacheAssumption, LInvSound DEF ObjectModes
  <2> QED  BY <1>2, <2>1, RetrievedFacts
<1>4. /\ res.o \in Objects /\ res.cached \in Seq(Objects) /\ res.uncached \in Seq(Objects)
      /\ MapOK(res.object) /\ Linked(res.object, user) /\ res.object[res.o].used
      /\ Listed(res.object, res.cached, res.uncached) /\ Grown(object, res.object)
  BY <1>3 DEF Supplied
<1>5. /\ NewUser(res.o) \in UserRecord /\ NewUser(res.o).object = res.o
      /\ ~NewUser(res.o).iterator_target /\ ~NewUser(res.o).queued_for_delete
  BY <1>4, NewUserFacts
<1> QED  BY <1>1, <1>2, <1>4, <1>5, JoinStep

LEMMA CloneKeeps ==
    ASSUME LInv, NEW u \in Users, NEW v \in Users, llcache_handle_clone(u, v)
    PROVE  LInv'
<1> DEFINE o == user[u].object
           n == NewUser(o)
           s == user[u].state
           t == user[u].trusting
           q == [n EXCEPT !.state = s, !.trusting = t]
<1>1. ClientRuns /\ Holds(u) /\ v \in FreeUsers /\ UNCHANGED <<cached, uncached, all_caught_up, ctl, fault>>
  BY DEF llcache_handle_clone, Calls
<1>2. object' = AddUser(object, o, v) /\ user' = [user EXCEPT ![v] = q]
  BY DEF llcache_handle_clone
<1>3. user[u] \in UserRecord /\ o \in Objects /\ object[o].used
  BY <1>1, HoldsFacts
<1>4. s \in INIT..COMPLETE /\ t \in BOOLEAN
  BY <1>3, UserFields
<1>5. n \in UserRecord /\ n.object = o /\ ~n.iterator_target /\ ~n.queued_for_delete
  BY <1>3, NewUserFacts
<1> HIDE DEF n, s, t
<1>6. q \in UserRecord /\ q.object = n.object /\ q.iterator_target = n.iterator_target
      /\ q.queued_for_delete = n.queued_for_delete
  BY <1>4, <1>5 DEF UserRecord
<1> HIDE DEF q
<1>7. /\ MapOK(object) /\ Linked(object, user) /\ Listed(object, cached', uncached')
      /\ cached' \in Seq(Objects) /\ uncached' \in Seq(Objects) /\ all_caught_up' \in BOOLEAN
  BY <1>1, LInvSound DEF Sound
<1>8. q.object = o /\ ~q.iterator_target /\ ~q.queued_for_delete
  BY <1>5, <1>6
<1> QED  BY <1>1, <1>2, <1>3, <1>6, <1>7, <1>8, JoinStep

LEMMA ReleaseKeeps ==
    ASSUME LInv, NEW u \in Users, llcache_handle_release(u)
    PROVE  LInv'
<1> DEFINE o == user[u].object
<1>1. ClientRuns /\ Holds(u) /\ UNCHANGED <<cached, uncached, all_caught_up, ctl, fault>>
  BY DEF llcache_handle_release, Calls
<1>2. user[u] \in UserRecord /\ o \in Objects /\ object[o].used /\ user[u].queued_for_delete = FALSE
  BY <1>1, HoldsFacts
<1>3. /\ MapOK(object) /\ Linked(object, user) /\ Listed(object, cached, uncached)
      /\ cached' \in Seq(Objects) /\ uncached' \in Seq(Objects) /\ all_caught_up' \in BOOLEAN
      /\ user \in [Users -> UserRecord] /\ object \in [Objects -> ObjectRecord] /\ HandlesOK
  BY <1>1, LInvSound DEF Sound, LInv
<1>4. CASE user[u].iterator_target
  <2> DEFINE q == [user[u] EXCEPT !.queued_for_delete = TRUE]
  <2>1. user' = [user EXCEPT ![u] = q] /\ object' = object
    BY <1>4 DEF llcache_handle_release
  <2>2. q \in UserRecord /\ q.object = user[u].object /\ q.handle = user[u].handle
        /\ q.iterator_target = user[u].iterator_target
    BY <1>2 DEF UserRecord
  <2> HIDE DEF q
  <2>3. user' \in [Users -> UserRecord] /\ \A w \in Users : user'[w] = IF w = u THEN q ELSE user[w]
    BY <1>3, <2>1, <2>2
  <2>4. SameHandles(user, user')
    BY <2>2, <2>3 DEF SameHandles
  <2>5. Linked(object', user') /\ Listed(object', cached', uncached') /\ MapOK(object')
    BY <1>1, <1>3, <2>1, <2>4, SameHandlesLinked
  <2>6. HandlesOK'
    BY <1>3, <2>4 DEF HandlesOK, SameHandles
  <2>7. SameTargets(user, user')
    BY <1>4, <2>2, <2>3 DEF SameTargets
  <2>8. Lasting(object, object')
    BY <2>1 DEF Lasting
  <2> QED  BY <1>1, <1>3, <2>3, <2>5, <2>6, <2>7, <2>8, ClientStep
<1>5. CASE ~user[u].iterator_target
  <2>1. user' = [user EXCEPT ![u] = FreeUser] /\ object' = RemoveUser(object, o, u)
    BY <1>5 DEF llcache_handle_release
  <2>2. user' \in [Users -> UserRecord]
        /\ \A w \in Users : user'[w] = IF w = u THEN FreeUser ELSE user[w]
    BY <1>3, <2>1, FreeUserFacts
  <2>3. Belongs(user, user', u, NONE)
    BY <2>2, FreeUserFacts DEF Belongs
  <2>4. Like(object, object') /\ Linked(object', user')
    BY <1>2, <1>3, <2>1, <2>3, RemoveUserFacts
  <2>5. MapOK(object') /\ Lasting(object, object')
    BY <1>3, <2>4, LikeMap, LastingFacts
  <2>6. Listed(object', cached', uncached')
    BY <1>1, <1>3, <2>4 DEF Listed, Like
  <2>7. HandlesOK'
    BY <1>3, <2>2, FreeUserFacts DEF HandlesOK
  <2>8. SameTargets(user, user')
    BY <1>5, <2>2, FreeUserFacts DEF SameTargets
  <2> QED  BY <1>1, <1>3, <2>2, <2>4, <2>5, <2>6, <2>7, <2>8, ClientStep
<1> QED  BY <1>4, <1>5

LEMMA AbortAloneKeeps ==
    ASSUME LInv, NEW u \in Users, AbortAlone(u)
    PROVE  LInv'
<1> DEFINE o == user[u].object
           q == [user[u] EXCEPT !.trusting = FALSE]
<1>1. ClientRuns /\ Holds(u) /\ UNCHANGED <<cached, uncached, all_caught_up, ctl, fault>>
  BY DEF AbortAlone, Calls
<1>2. user[u] \in UserRecord /\ o \in Objects /\ object[o].used
  BY <1>1, HoldsFacts
<1>3. /\ MapOK(object) /\ Linked(object, user) /\ Listed(object, cached, uncached)
      /\ cached' \in Seq(Objects) /\ uncached' \in Seq(Objects) /\ all_caught_up' \in BOOLEAN
      /\ user \in [Users -> UserRecord] /\ object \in [Objects -> ObjectRecord] /\ HandlesOK
  BY <1>1, LInvSound DEF Sound, LInv
<1>4. object' = [object EXCEPT ![o] = Ended(object[o])] /\ user' = [user EXCEPT ![u] = q]
  BY DEF AbortAlone
<1>5. MapOK(object') /\ Kept(object, object')
  BY <1>2, <1>3, <1>4, EndedKept
<1>6. q \in UserRecord /\ q.object = user[u].object /\ q.handle = user[u].handle
      /\ q.iterator_target = user[u].iterator_target
      /\ q.queued_for_delete = user[u].queued_for_delete
  BY <1>2 DEF UserRecord
<1> HIDE DEF q
<1>7. user' \in [Users -> UserRecord] /\ \A w \in Users : user'[w] = IF w = u THEN q ELSE user[w]
  BY <1>3, <1>4, <1>6
<1>8. SameHandles(user, user') /\ SameTargets(user, user')
  BY <1>6, <1>7 DEF SameHandles, SameTargets
<1>9. Linked(object', user') /\ Listed(object', cached', uncached')
  <2>1. Linked(object, user')
    BY <1>3, <1>8, SameHandlesLinked
  <2> QED  BY <1>1, <1>3, <1>5, <1>7, <2>1, KeptLinked, KeptListed
<1>10. HandlesOK'
  BY <1>3, <1>8 DEF HandlesOK, SameHandles
<1>11. Lasting(object, object')
  BY <1>5 DEF Kept, Lasting
<1> QED  BY <1>1, <1>3, <1>5, <1>7, <1>8, <1>9, <1>10, <1>11, ClientStep

\* The client changes an object whose handle it holds, and maybe the lists.
LEMMA HandleStep ==
    ASSUME LInv, ClientRuns, NEW o \in Objects, NEW r, LikeRecord(object[o], r),
           r.users = object[o].users, object' = [object EXCEPT ![o] = r],
           cached' \in Seq(Objects), uncached' \in Seq(Objects),
           Elems(cached') \cup Elems(uncached') = Elems(cached) \cup Elems(uncached),
           UNCHANGED <<user, all_caught_up, ctl, fault>>
    PROVE  LInv'
<1>1. /\ MapOK(object) /\ Linked(object, user) /\ Listed(object, cached, uncached)
      /\ all_caught_up' \in BOOLEAN /\ user \in [Users -> UserRecord] /\ HandlesOK
  BY LInvSound DEF Sound, LInv
<1>2. MapOK(object') /\ Kept(object, object')
  BY <1>1, PutKept
<1>3. Linked(object', user') /\ Listed(object', cached', uncached')
  <2>1. Linked(object', user')
    BY <1>1, <1>2, KeptLinked
  <2>2. Listed(object', cached', uncached')
    BY <1>1, <1>2 DEF Listed, Kept
  <2> QED  BY <2>1, <2>2
<1>4. HandlesOK' /\ SameTargets(user, user')
  BY <1>1 DEF HandlesOK, SameTargets
<1>5. Lasting(object, object')
  BY <1>2 DEF Kept, Lasting
<1> QED  BY <1>1, <1>2, <1>3, <1>4, <1>5, ClientStep

LEMMA StreamKeeps ==
    ASSUME LInv, NEW u \in Users, llcache_handle_force_stream(u)
    PROVE  LInv'
<1> DEFINE o == user[u].object
           r == [object[o] EXCEPT !.stream = TRUE]
<1>1. ClientRuns /\ Holds(u) /\ UNCHANGED <<user, all_caught_up, ctl, fault>>
      /\ object' = [object EXCEPT ![o] = r]
  BY DEF llcache_handle_force_stream, Calls
<1>2. o \in Objects /\ object[o] \in ObjectRecord
  BY <1>1, HoldsFacts
<1>3. LikeRecord(object[o], r) /\ r.users = object[o].users
  BY <1>2, LikeStream
<1>4. cached \in Seq(Objects) /\ uncached \in Seq(Objects)
  BY LInvSound DEF Sound
<1>5. \/ o \in Elems(cached) /\ cached' = Without(cached, o) /\ uncached' = <<o>> \o uncached
      \/ UNCHANGED <<cached, uncached>>
  BY DEF llcache_handle_force_stream
<1> HIDE DEF r, o
<1>6. /\ cached' \in Seq(Objects) /\ uncached' \in Seq(Objects)
      /\ Elems(cached') \cup Elems(uncached') = Elems(cached) \cup Elems(uncached)
  <2>1. CASE o \in Elems(cached) /\ cached' = Without(cached, o) /\ uncached' = <<o>> \o uncached
    <3>1. cached' \in Seq(Objects) /\ Elems(cached') = Elems(cached) \cap (Elems(cached) \ {o})
      BY <1>4, <2>1, SelectedFacts DEF Without
    <3>2. uncached' \in Seq(Objects) /\ Elems(uncached') = {o} \cup Elems(uncached)
      BY <1>2, <1>4, <2>1, Pushed
    <3> QED  BY <2>1, <3>1, <3>2
  <2>2. CASE UNCHANGED <<cached, uncached>>
    BY <1>4, <2>2
  <2> QED  BY <1>5, <2>1, <2>2
<1> QED  BY <1>1, <1>2, <1>3, <1>6, HandleStep

LEMMA InvalidateKeeps ==
    ASSUME LInv, NEW u \in Users, llcache_handle_invalidate_cache_data(u)
    PROVE  LInv'
<1> DEFINE o == user[u].object
           c == [object[o].cache EXCEPT !.no_cache = "ONCE"]
           r == [object[o] EXCEPT !.cache = c]
<1>1. /\ ClientRuns /\ Holds(u) /\ UNCHANGED <<user, cached, uncached, all_caught_up, ctl, fault>>
      /\ object' = [object EXCEPT ![o] = r]
  BY DEF llcache_handle_invalidate_cache_data, Calls
<1>2. o \in Objects /\ object[o] \in ObjectRecord
  BY <1>1, HoldsFacts
<1>3. c \in CacheControl
  <2>1. object[o].cache \in CacheControl
    BY <1>2, ObjectFields
  <2> QED  BY <2>1 DEF CacheControl
<1> HIDE DEF c
<1>4. LikeRecord(object[o], r) /\ r.users = object[o].users
  BY <1>2, <1>3, LikeCache
<1>5. cached' \in Seq(Objects) /\ uncached' \in Seq(Objects)
      /\ Elems(cached') \cup Elems(uncached') = Elems(cached) \cup Elems(uncached)
  BY <1>1, LInvSound DEF Sound
<1> HIDE DEF r
<1> QED  BY <1>1, <1>2, <1>4, <1>5, HandleStep

\* The snapshot of the object r.
Snapshot(r) ==
    [NewObject(r.url, "get", 0) EXCEPT !.len = r.len, !.body = r.body, !.chain = r.chain,
                                       !.state = COMPLETE, !.retries_remaining = 0]

LEMMA SnapshotFacts ==
    ASSUME NEW r \in ObjectRecord
    PROVE  IsNew(Snapshot(r), 0)
<1> DEFINE n == NewObject(r.url, "get", 0)
           l == r.len
           b == r.body
           c == r.chain
           e == 0
<1>1. /\ l \in 0..MaxLen /\ b \in {"none", "part", "old", "whole", "mixed"} /\ c \in BOOLEAN
      /\ r.url \in Urls \cup {NONE} /\ COMPLETE \in INIT..COMPLETE /\ e \in Nat
  BY ObjectFields, StatesTyped
<1>2. IsNew(n, 0)
  BY <1>1, NewObjectFacts DEF ObjectModes
<1>3. Snapshot(r) = [n EXCEPT !.len = l, !.body = b, !.chain = c, !.state = COMPLETE,
                              !.retries_remaining = e]
  BY DEF Snapshot
<1>4. n \in ObjectRecord
  BY <1>2 DEF IsNew
<1> HIDE DEF n, l, b, c, e
<1> DEFINE q == Snapshot(r)
<1>5. q \in ObjectRecord
  BY ZenonT(60), <1>1, <1>3, <1>4 DEF ObjectRecord
<1>6. /\ q.used = n.used /\ q.users = n.users /\ q.candidate = n.candidate
      /\ q.candidate_count = n.candidate_count /\ q.redirect_count = n.redirect_count
  BY <1>3, <1>4 DEF ObjectRecord
<1> HIDE DEF q
<1>7. IsNew(q, 0)
  BY <1>2, <1>5, <1>6 DEF IsNew
<1> QED  BY <1>7 DEF q

LEMMA AbortSharedKeeps ==
    ASSUME LInv, NEW u \in Users, NEW v \in Users, NEW s \in Objects, AbortShared(u, s, v)
    PROVE  LInv'
<1> DEFINE o == user[u].object
           z == Snapshot(object[o])
           p == [object EXCEPT ![s] = z]
           q == [user[u] EXCEPT !.object = s, !.trusting = FALSE, !.iterator_target = FALSE]
           g == [user[u] EXCEPT !.handle = FALSE, !.queued_for_delete = TRUE]
<1>1. /\ ClientRuns /\ Holds(u) /\ ~object[s].used
      /\ UNCHANGED <<cached, all_caught_up, ctl, fault>> /\ uncached' = <<s>> \o uncached
  BY DEF AbortShared, Calls
<1>2. /\ user[u] \in UserRecord /\ o \in Objects /\ object[o].used /\ object[o] \in ObjectRecord
      /\ user[u].queued_for_delete = FALSE /\ user[u].handle = TRUE
  BY <1>1, HoldsFacts
<1>3. /\ MapOK(object) /\ Linked(object, user) /\ Listed(object, cached, uncached)
      /\ cached \in Seq(Objects) /\ uncached \in Seq(Objects) /\ all_caught_up' \in BOOLEAN
      /\ user \in [Users -> UserRecord] /\ object \in [Objects -> ObjectRecord] /\ HandlesOK
  BY <1>1, LInvSound DEF Sound, LInv
<1>4. \/ /\ user[u].iterator_target /\ v \in FreeUsers
         /\ user' = [user EXCEPT ![v] = q, ![u] = [@ EXCEPT !.handle = FALSE, !.queued_for_delete = TRUE]]
         /\ object' = AddUser(p, s, v)
      \/ /\ ~user[u].iterator_target /\ v = u /\ user' = [user EXCEPT ![u] = q]
         /\ object' = AddUser(RemoveUser(p, o, u), s, u)
  BY DEF AbortShared, Snapshot
<1>5. IsNew(z, 0)
  BY <1>2, SnapshotFacts
<1> HIDE DEF z
<1>6. MapOK(p) /\ Linked(p, user) /\ Grown(object, p)
  <2>1. 0 \in Nat /\ 0 <= fetch_redirect_limit + 1
    BY LLCacheAssumption
  <2> QED  BY <1>1, <1>3, <1>5, <2>1, PlaceFacts
<1>7. /\ p \in [Objects -> ObjectRecord] /\ p[s].used
      /\ \A w \in Objects : w # s => p[w].used = object[w].used
  BY <1>3, <1>5 DEF IsNew
<1> HIDE DEF p
<1>8. cached' \in Seq(Objects) /\ uncached' \in Seq(Objects) /\ Listed(p, cached', uncached')
  <2>1. uncached' \in Seq(Objects) /\ Elems(uncached') = {s} \cup Elems(uncached)
    BY <1>1, <1>3, Pushed
  <2> QED  BY <1>1, <1>3, <1>7, <2>1 DEF Listed
<1>9. /\ q \in UserRecord /\ q.object = s /\ q.handle = user[u].handle
      /\ q.iterator_target = FALSE /\ q.queued_for_delete = user[u].queued_for_delete
  BY <1>2 DEF UserRecord
<1>10. s # NONE /\ o # NONE
  BY <1>2, LLCacheAssumption
<1>11. ASSUME Like(p, object'), Linked(object', user'), user' \in [Users -> UserRecord],
              HandlesOK', SameTargets(user, user')
       PROVE  LInv'
  <2>1. MapOK(object') /\ Lasting(object, object')
    BY <1>6, <1>11, LikeMap, LastingFacts
  <2>2. Listed(object', cached', uncached')
    BY <1>8, <1>11 DEF Listed, Like
  <2> QED  BY <1>1, <1>3, <1>8, <1>11, <2>1, <2>2, ClientStep
<1>12. CASE /\ user[u].iterator_target /\ v \in FreeUsers
            /\ user' = [user EXCEPT ![v] = q, ![u] = [@ EXCEPT !.handle = FALSE, !.queued_for_delete = TRUE]]
            /\ object' = AddUser(p, s, v)
  <2>1. user[v].object = NONE /\ ~user[v].iterator_target /\ ~user[v].queued_for_delete
    BY <1>12, FreeUnmarked
  <2>2. u # v
    BY <1>10, <2>1
  <2>3. g \in UserRecord /\ g.object = user[u].object /\ g.handle = FALSE
        /\ g.iterator_target = user[u].iterator_target
    BY <1>2 DEF UserRecord
  <2>4. user' = [user EXCEPT ![v] = q, ![u] = g]
    BY <1>3, <1>12, <2>2
  <2> HIDE DEF q, g
  <2>5. user' \in [Users -> UserRecord]
        /\ \A w \in Users : user'[w] = IF w = u THEN g ELSE IF w = v THEN q ELSE user[w]
    BY <1>3, <1>9, <2>2, <2>3, <2>4
  <2>6. Belongs(user, user', v, s)
    BY <1>9, <2>2, <2>3, <2>5 DEF Belongs
  <2>7. Like(p, object') /\ Linked(object', user')
    BY <1>3, <1>6, <1>7, <1>12, <2>1, <2>6, AddUserFacts
  <2>8. HandlesOK'
    BY <1>3, <1>9, <1>10, <2>3, <2>5 DEF HandlesOK
  <2>9. SameTargets(user, user')
    <3>1. /\ ~q.iterator_target /\ ~q.queued_for_delete
          /\ g.iterator_target /\ g.object = user[u].object
      BY <1>2, <1>9, <1>12, <2>3
    <3> QED  BY <1>12, <2>1, <2>2, <2>5, <3>1 DEF SameTargets
  <2> QED  BY <1>11, <2>5, <2>7, <2>8, <2>9
<1>13. CASE /\ ~user[u].iterator_target /\ user' = [user EXCEPT ![u] = q]
            /\ object' = AddUser(RemoveUser(p, o, u), s, u)
  <2> DEFINE mid == [user EXCEPT ![u] = FreeUser]
             k == RemoveUser(p, o, u)
  <2> HIDE DEF q
  <2>1. mid \in [Users -> UserRecord] /\ \A w \in Users : mid[w] = IF w = u THEN FreeUser ELSE user[w]
    BY <1>3, FreeUserFacts
  <2>2. user' \in [Users -> UserRecord] /\ \A w \in Users : user'[w] = IF w = u THEN q ELSE user[w]
    BY <1>3, <1>9, <1>13
  <2> HIDE DEF mid
  <2>3. Belongs(user, mid, u, NONE) /\ Belongs(mid, user', u, s) /\ mid[u].object = NONE
    BY <1>9, <2>1, <2>2, FreeUserFacts DEF Belongs
  <2>4. Like(p, k) /\ Linked(k, mid)
    BY <1>2, <1>3, <1>6, <1>7, <2>3, RemoveUserFacts
  <2>5. k \in [Objects -> ObjectRecord] /\ k[s].used
    BY <1>7, <2>4 DEF Like
  <2>6. object' = AddUser(k, s, u)
    BY <1>13
  <2> HIDE DEF k
  <2>7. Like(k, object') /\ Linked(object', user')
    BY <2>1, <2>3, <2>4, <2>5, <2>6, AddUserFacts
  <2>8. Like(p, object')
    BY <2>4, <2>7, LikeTrans
  <2>9. HandlesOK'
    BY <1>3, <1>9, <1>10, <2>2 DEF HandlesOK
  <2>10. SameTargets(user, user')
    <3>1. ~q.iterator_target /\ ~q.queued_for_delete
      BY <1>2, <1>9
    <3> QED  BY <1>13, <2>2, <3>1 DEF SameTargets
  <2> QED  BY <1>11, <2>2, <2>7, <2>8, <2>9, <2>10
<1> QED  BY <1>4, <1>12, <1>13

-----------------------------------------------------------------------------
(* The theorems.                                                            *)

LEMMA InitKeeps ==
    ASSUME Init
    PROVE  LInv
<1> DEFINE e == << >>
<1>1. /\ object = [o \in Objects |-> FreeObject] /\ user = [u \in Users |-> FreeUser]
      /\ cached = e /\ uncached = e /\ all_caught_up = TRUE /\ ctl = Idle /\ fault = FALSE
  BY DEF Init
<1>2. e \in Seq(Objects) /\ Elems(e) = {} /\ Distinct(e)
  BY EmptyList
<1>3. \A o \in Objects : /\ object[o] = FreeObject /\ ~object[o].used
                         /\ object[o].users = e /\ object[o].fetch = "none"
                         /\ object[o].candidate = NONE /\ object[o].candidate_count = 0
                         /\ object[o].redirect_count = 0
  BY <1>1, FreeObjectFacts
<1>4. object \in [Objects -> ObjectRecord] /\ user \in [Users -> UserRecord]
  BY <1>1, FreeObjectFacts, FreeUserFacts
<1>5. \A u \in Users : /\ user[u].object = NONE /\ ~user[u].handle
                       /\ ~user[u].iterator_target /\ ~user[u].queued_for_delete
  BY <1>1, FreeUserFacts
<1> HIDE DEF e
<1>6. Candidates(object)
  <2>1. \A o \in Objects : Relying(object, o) = {}
    BY <1>3, LLCacheAssumption DEF Relying
  <2> QED  BY <1>3, <2>1, FS_EmptySet DEF Candidates
<1>7. MapOK(object)
  BY <1>3, <1>4, <1>6, LLCacheAssumption DEF MapOK, Freed, Bounded
<1>8. Linked(object, user)
  BY <1>2, <1>3, <1>5 DEF Linked
<1>9. Listed(object, cached, uncached)
  BY <1>1, <1>2, <1>3 DEF Listed
<1>10. HandlesOK /\ OnlyTheTargetLingers
  BY <1>5 DEF HandlesOK, OnlyTheTargetLingers
<1>11. ControlOK /\ ctl \in ControlRecord
  BY <1>1, ControlSplit DEF ControlOK, Idle
<1> QED  BY <1>1, <1>2, <1>4, <1>7, <1>8, <1>9, <1>10, <1>11 DEF LInv, TypeOK

LEMMA MessageKeeps ==
    ASSUME LInv, NEW o \in Objects, Message(o)
    PROVE  LInv'
  BY HeaderKeeps, DataKeeps, NoMemoryKeeps, FinishedKeeps, InformKeeps, FailsKeeps, TimedOutKeeps,
     RetriesKeeps, NotModifiedKeeps, RedirectKeeps DEF Message

LEMMA ContinueKeeps ==
    ASSUME LInv, Continue
    PROVE  LInv'
  BY EventReturnsKeeps, FollowRedirectKeeps, EventDoneKeeps, NextObjectKeeps, NotifyUserKeeps,
     NextUserKeeps, NotifyReturnsKeeps DEF Continue

LEMMA ClientKeeps ==
    ASSUME LInv, Client
    PROVE  LInv'
  BY RetrieveKeeps, ReleaseKeeps, CloneKeeps, AbortAloneKeeps, AbortSharedKeeps, StreamKeeps,
     InvalidateKeeps DEF Client

LEMMA StutterKeeps ==
    ASSUME LInv, UNCHANGED vars
    PROVE  LInv'
  BY DEF vars, LInv, TypeOK, HandlesOK, ControlOK, OnlyTheTargetLingers

LEMMA NextKeeps ==
    ASSUME LInv, [Next]_vars
    PROVE  LInv'
<1>1. CASE \E o \in Objects : Message(o)
  BY <1>1, MessageKeeps
<1>2. CASE \E o \in Objects : Expires(o)
  BY <1>2, ExpiresKeeps
<1>3. CASE llcache_catch_up_all_users
  BY <1>3, CatchUpKeeps
<1>4. CASE Continue
  BY <1>4, ContinueKeeps
<1>5. CASE Client
  BY <1>5, ClientKeeps
<1>6. CASE llcache_clean
  BY <1>6, CleanKeeps
<1>7. CASE UNCHANGED vars
  BY <1>7, StutterKeeps
<1> QED  BY <1>1, <1>2, <1>3, <1>4, <1>5, <1>6, <1>7 DEF Next

\* The invariant holds whatever messages arrive and whatever the client does.
THEOREM LInductive == Spec => []LInv
<1>1. Init => LInv
  BY InitKeeps
<1>2. LInv /\ [Next]_vars => LInv'
  BY NextKeeps
<1> QED  BY <1>1, <1>2, PTL DEF Spec

\* Objects, users, lists and the place where the code is are what struct
\* llcache_object, llcache_object_user and llcache_handle can hold: no list
\* has an address that is not a user or an object, and no count gets negative.
THEOREM LLCacheTyping == Spec => []TypeOK
<1>1. LInv => TypeOK
  BY DEF LInv
<1> QED  BY <1>1, LInductive, PTL

\* llcache_object_add_user(), llcache_object_remove_user() and the loops of
\* llcache_fetch_redirect() and llcache_fetch_notmodified(): whatever clients do
\* in their callbacks, a user is in the list of one object, the one its handle
\* names; an object that is used is in the cache; and only the user that is
\* being called can have been released.
THEOREM UsersStayLinked == Spec => []UsersConsistent
<1>1. LInv => UsersConsistent
  <2> SUFFICES ASSUME LInv PROVE UsersConsistent
    OBVIOUS
  <2>1. Linked(object, user) /\ Listed(object, cached, uncached) /\ OnlyTheTargetLingers
    BY DEF LInv
  <2>2. ASSUME NEW o \in Objects, NEW i \in 1..Len(object[o].users), NEW j \in 1..Len(object[o].users)
        PROVE  /\ user[object[o].users[i]].object = o
               /\ object[o].users[i] = object[o].users[j] => i = j
    BY <2>1 DEF Linked, Distinct, Elems
  <2>3. \A u \in Users : user[u].object # NONE => u \in Elems(object[user[u].object].users)
    BY <2>1 DEF Linked
  <2> QED  BY <2>1, <2>2, <2>3 DEF UsersConsistent, Listed
<1> QED  BY <1>1, LInductive, PTL

\* llcache_clean() and the purge when memory runs out: the object a fetch will
\* fall back to when the server answers 304 is still there, because its
\* candidate_count is never less than the number of objects that rely on it.
THEOREM CandidatesSurvive == Spec => []CandidatesExist
<1>1. LInv => CandidatesExist
  BY DEF LInv, MapOK, Candidates, Relying, CandidatesExist
<1> QED  BY <1>1, LInductive, PTL

\* llcache_fetch_redirect(): the object fetched for a redirect counts one more
\* than the one that redirected, and an object whose count is beyond the limit
\* is not followed.  Between the test and the retrieval the users are called
\* back, and nothing they do can raise the count.
THEOREM RedirectsEnd == Spec => []RedirectsBounded
<1>1. LInv => RedirectsBounded
  BY DEF LInv, MapOK, Bounded, RedirectsBounded
<1> QED  BY <1>1, LInductive, PTL

-----------------------------------------------------------------------------
(***************************************************************************)
(* Proof of CaughtUp of LLCache: the pass misses nobody, though its users   *)
(* retrieve, release and invalidate while it calls them.                    *)
(*                                                                         *)
(* The argument: a user that has had its turn has nothing left to be told   *)
(* (CatchingUp), and stays so until somebody clears all_caught_up.  Who has *)
(* had a turn is a matter of order in the lists, so the lists must have     *)
(* each object once (ListsOK), and a release must keep the order.           *)
(***************************************************************************)

\* There is nothing to tell a user with the handle h of an object r.
Settled(h, r) ==
    /\ ~(h.state = INIT /\ r.state > INIT /\ r.chain)
    /\ ~(h.state <= HEADERS /\ r.state > HEADERS /\ ~(h.state = INIT /\ r.chain))
    /\ ~(h.state = DATA /\ r.state >= DATA /\ r.len > h.bytes)
    /\ ~(h.state = DATA /\ r.state > DATA /\ r.len <= h.bytes)

UserSettled(u) == Settled(user[u], object[user[u].object])

ListsOK == Distinct(cached) /\ Distinct(uncached) /\ Elems(cached) \cap Elems(uncached) = {}

\* The pass has been at object o, and at user u.
Passed(o) == IF ctl.loop = 1 THEN Before(cached, o, ctl.obj)
             ELSE o \in Elems(cached) \/ Before(uncached, o, ctl.obj)

Visited(u) ==
    \/ Passed(user[u].object)
    \/ /\ user[u].object = ctl.obj
       /\ ctl.cur = NONE \/ Before(object[ctl.obj].users, u, ctl.cur)

InPass ==
    /\ ctl.obj \in Elems(IF ctl.loop = 1 THEN cached ELSE uncached)
    /\ ctl.objstate = object[ctl.obj].state
    /\ \A u \in Users : user[u].object # NONE /\ Visited(u) => UserSettled(u)

CatchingUp ==
    all_caught_up =>
        /\ ctl.kind = "idle" => \A u \in Users : user[u].object # NONE => UserSettled(u)
        /\ ctl.kind = "pass" => InPass

LEMMA DueSettled ==
    ASSUME object \in [Objects -> ObjectRecord], NEW h \in UserRecord, NEW o \in Objects
    PROVE  Due(h, o, object[o].state) = NONE <=> Settled(h, object[o])
<1> DEFINE r == object[o]
<1>1. /\ r.len \in Nat /\ r.state \in 0..3 /\ r.chain \in BOOLEAN
      /\ h.state \in 0..3 /\ h.bytes \in Nat
  <2>1. r \in ObjectRecord
    OBVIOUS
  <2>2. MaxLen \in Nat
    BY LLCacheAssumption
  <2> QED  BY <2>1, <2>2, ObjectFields, UserFields DEF INIT, COMPLETE
<1>2. "GOT_CERTS" # NONE /\ "HAD_HEADERS" # NONE /\ "HAD_DATA" # NONE /\ "DONE" # NONE
  BY LLCacheAssumption
<1> HIDE DEF r
<1>3. Due(h, o, r.state) =
        CASE h.state = INIT /\ r.state > INIT /\ r.chain -> "GOT_CERTS"
          [] h.state <= HEADERS /\ r.state > HEADERS /\ ~(h.state = INIT /\ r.chain)
                -> "HAD_HEADERS"
          [] h.state = DATA /\ r.state >= DATA /\ r.len > h.bytes -> "HAD_DATA"
          [] h.state = DATA /\ r.state > DATA /\ r.len <= h.bytes -> "DONE"
          [] OTHER -> NONE
  BY DEF Due, r
<1>4. Due(h, o, r.state) = NONE <=> Settled(h, r)
  BY <1>1, <1>2, <1>3 DEF Settled, INIT, HEADERS, DATA, COMPLETE
<1> QED  BY <1>4 DEF r

\* What a step may do to objects without giving anybody anything to hear.
Lighter(m, n) ==
    \A o \in Objects : n[o].state = m[o].state /\ n[o].chain = m[o].chain /\ n[o].len <= m[o].len

\* u has heard the same in vs as in us, of the same object.
Unmoved(us, vs, u) ==
    vs[u].object = us[u].object /\ vs[u].state = us[u].state /\ vs[u].bytes = us[u].bytes

LEMMA StaysSettled ==
    ASSUME LInv, LInv', NEW u \in Users, Lighter(object, object'), Unmoved(user, user', u),
           user[u].object # NONE, UserSettled(u)
    PROVE  UserSettled(u)'
<1> DEFINE o == user[u].object
           r == object[o]
           q == object'[o]
<1>1. o \in Objects /\ user[u] \in UserRecord /\ r \in ObjectRecord /\ q \in ObjectRecord
  BY UserFields DEF LInv, TypeOK
<1>2. q.state = r.state /\ q.chain = r.chain /\ q.len <= r.len
  BY <1>1 DEF Lighter
<1>3. /\ r.len \in Nat /\ q.len \in Nat /\ r.state \in 0..3 /\ user[u].state \in 0..3 
      /\ user[u].bytes \in Nat
  <2>1. MaxLen \in Nat
    BY LLCacheAssumption
  <2> QED  BY <1>1, <2>1, ObjectFields, UserFields DEF INIT, COMPLETE
<1>4. Settled(user[u], r)
  BY DEF UserSettled
<1>5. user'[u].state = user[u].state /\ user'[u].bytes = user[u].bytes /\ user'[u].object = o
  BY DEF Unmoved
<1> HIDE DEF o, r, q
<1>6. Settled(user'[u], q)
  BY <1>2, <1>3, <1>4, <1>5 DEF Settled, INIT, HEADERS, DATA, COMPLETE
<1> QED  BY <1>5, <1>6 DEF UserSettled, q

\* Steps that leave it to another pass, or that lead into an event, at the
\* end of which another pass is asked for.
LEMMA Deferred ==
    ASSUME ListsOK, UNCHANGED <<cached, uncached>>, all_caught_up' = FALSE \/ ctl'.kind = "event"
    PROVE  ListsOK' /\ CatchingUp'
<1>1. ListsOK'
  BY DEF ListsOK
<1>2. CatchingUp'
  BY DEF CatchingUp
<1> QED  BY <1>1, <1>2

LEMMA IdleLasts ==
    ASSUME LInv, LInv', ListsOK, CatchingUp, ctl.kind = "idle", UNCHANGED <<all_caught_up, ctl>>,
           Lighter(object, object'),
           \A u \in Users : user'[u].object # NONE => Unmoved(user, user', u)
    PROVE  CatchingUp'
<1>1. ASSUME all_caught_up', NEW u \in Users, user'[u].object # NONE
      PROVE  UserSettled(u)'
  <2>1. Unmoved(user, user', u) /\ user[u].object # NONE
    BY <1>1 DEF Unmoved
  <2>2. UserSettled(u)
    BY <1>1, <2>1 DEF CatchingUp
  <2> QED  BY <2>1, <2>2, StaysSettled
<1>2. ctl'.kind = "idle"
  OBVIOUS
<1> QED  BY <1>1, <1>2 DEF CatchingUp

LEMMA PassGoesOn ==
    ASSUME LInv, LInv', ListsOK, CatchingUp, ctl.kind = "pass", ctl'.kind = "pass",
           all_caught_up' => all_caught_up, UNCHANGED <<cached, uncached>>,
           ctl'.obj = ctl.obj, ctl'.loop = ctl.loop, ctl'.objstate = ctl.objstate,
           Lighter(object, object'),
           \A u \in Users : user'[u].object # NONE => user'[u].object = user[u].object,
           \A u \in Users : user'[u].object = ctl.obj /\ Visited(u)'
                => UserSettled(u)' \/ (Visited(u) /\ Unmoved(user, user', u)),
           \A u \in Users : user'[u].object # NONE /\ user'[u].object # ctl.obj
                => Unmoved(user, user', u)
    PROVE  CatchingUp'
<1> SUFFICES ASSUME all_caught_up'
             PROVE  InPass'
  BY DEF CatchingUp
<1>1. InPass /\ ctl.obj \in Objects
  <2>1. InPass
    BY DEF CatchingUp
  <2>2. ctl \in ControlRecord
    BY LInvSound
  <2> QED  BY <2>1, <2>2, ControlCases DEF PassControl
<1>2. object'[ctl.obj].state = object[ctl.obj].state
  BY <1>1 DEF Lighter
<1>3. ASSUME NEW u \in Users, user'[u].object # NONE, Visited(u)'
      PROVE  UserSettled(u)'
  <2>1. user'[u].object = user[u].object
    BY <1>3
  <2>2. CASE user'[u].object = ctl.obj /\ ~UserSettled(u)'
    <3>1. Visited(u) /\ Unmoved(user, user', u)
      BY <1>3, <2>2
    <3> QED  BY <1>1, <1>3, <2>1, <3>1, StaysSettled DEF InPass
  <2>3. CASE user'[u].object # ctl.obj
    <3>1. Passed(user[u].object)'
      BY <1>3, <2>3 DEF Visited
    <3>2. Passed(user[u].object)
      BY <2>1, <3>1 DEF Passed
    <3>3. Visited(u) /\ Unmoved(user, user', u)
      BY <1>3, <2>3, <3>2 DEF Visited
    <3> QED  BY <1>1, <1>3, <2>1, <3>3, StaysSettled DEF InPass
  <2> QED  BY <2>2, <2>3
<1>4. (ctl.obj \in Elems(IF ctl.loop = 1 THEN cached ELSE uncached))'
  BY <1>1 DEF InPass
<1>5. ctl'.objstate = object'[ctl'.obj].state
  BY <1>1, <1>2 DEF InPass
<1> QED  BY <1>3, <1>4, <1>5 DEF InPass

-----------------------------------------------------------------------------
(* The lists.                                                               *)

LEMMA RetrievedLists ==
    ASSUME LInv, ListsOK, NEW url, NEW mode, NEW k, NEW res \in Retrieved(url, mode, k)
    PROVE  /\ Distinct(res.cached) /\ Distinct(res.uncached)
           /\ Elems(res.cached) \cap Elems(res.uncached) = {}
<1>1. \/ res.cached = cached /\ res.uncached = uncached
      \/ \E o \in Objects : /\ ~object[o].used
                            /\ \/ res.cached = <<o>> \o cached /\ res.uncached = uncached
                               \/ res.cached = cached /\ res.uncached = <<o>> \o uncached
  <2> DEFINE newest == IF mode = "get" THEN Newest(url) ELSE NONE
             New(o, m) == [o |-> o, object |-> m,
                           cached |-> IF mode = "get" THEN <<o>> \o cached ELSE cached,
                           uncached |-> IF mode = "get" THEN uncached ELSE <<o>> \o uncached]
  <2>1. \/ res = [o |-> newest, object |-> object, cached |-> cached, uncached |-> uncached]
        \/ \E o \in Objects : ~object[o].used /\ \E m : res = New(o, m)
    <3> HIDE DEF newest
    <3> QED  BY DEF Retrieved, newest
  <2>2. CASE res = [o |-> newest, object |-> object, cached |-> cached, uncached |-> uncached]
    BY <2>2
  <2>3. ASSUME NEW o \in Objects, ~object[o].used, NEW m, res = New(o, m)
        PROVE  \/ res.cached = <<o>> \o cached /\ res.uncached = uncached
               \/ res.cached = cached /\ res.uncached = <<o>> \o uncached
    BY <2>3
  <2> QED  BY <2>1, <2>2, <2>3
<1>2. CASE res.cached = cached /\ res.uncached = uncached
  BY <1>2 DEF ListsOK
<1>3. ASSUME NEW o \in Objects, ~object[o].used,
             \/ res.cached = <<o>> \o cached /\ res.uncached = uncached
             \/ res.cached = cached /\ res.uncached = <<o>> \o uncached
      PROVE  /\ Distinct(res.cached) /\ Distinct(res.uncached)
             /\ Elems(res.cached) \cap Elems(res.uncached) = {}
  <2>1. cached \in Seq(Objects) /\ uncached \in Seq(Objects) /\ Listed(object, cached, uncached)
    BY LInvSound DEF Sound
  <2>2. o \notin Elems(cached) /\ o \notin Elems(uncached)
    BY <1>3, <2>1 DEF Listed
  <2>3. /\ Distinct(<<o>> \o cached) /\ Elems(<<o>> \o cached) = {o} \cup Elems(cached)
        /\ Distinct(<<o>> \o uncached) /\ Elems(<<o>> \o uncached) = {o} \cup Elems(uncached)
    BY <2>1, <2>2, Pushed DEF ListsOK
  <2> QED  BY <1>3, <2>2, <2>3 DEF ListsOK
<1> QED  BY <1>1, <1>2, <1>3

LEMMA DestroyLists ==
    ASSUME LInv, ListsOK, NEW m, NEW D, Destroy(m, D)
    PROVE  ListsOK'
<1>1. cached \in Seq(Objects) /\ uncached \in Seq(Objects)
  BY LInvSound DEF Sound
<1>2. cached' = Selected(cached, Objects \ D) /\ uncached' = Selected(uncached, Objects \ D)
  BY DEF Destroy
<1>3. Distinct(cached') /\ Elems(cached') \subseteq Elems(cached)
  BY <1>1, <1>2, SelectedFacts DEF ListsOK
<1>4. Distinct(uncached') /\ Elems(uncached') \subseteq Elems(uncached)
  BY <1>1, <1>2, SelectedFacts DEF ListsOK
<1> QED  BY <1>3, <1>4 DEF ListsOK

LEMMA RemovedFacts ==
    ASSUME NEW m \in [Objects -> ObjectRecord], NEW o \in Objects, NEW u,
           NEW n, n = RemoveUser(m, o, u)
    PROVE  /\ Lighter(m, n)
           /\ \A p \in Objects : \A x, y : Before(n[p].users, x, y) => Before(m[p].users, x, y)
<1> DEFINE s == Without(m[o].users, u)
           r == [m[o] EXCEPT !.users = s]
<1>1. n = [m EXCEPT ![o] = r]
  BY DEF RemoveUser, SetUsers
<1>2. m[o] \in ObjectRecord /\ m[o].users \in Seq(Users)
  BY UsersTyped
<1>3. r.state = m[o].state /\ r.chain = m[o].chain /\ r.len = m[o].len /\ r.users = s
  BY <1>2 DEF ObjectRecord
<1>4. ASSUME NEW x, NEW y, Before(s, x, y)
      PROVE  Before(m[o].users, x, y)
  BY <1>2, <1>4, SelectedOrder DEF Without
<1> HIDE DEF s, r
<1>5. \A p \in Objects : n[p] = IF p = o THEN r ELSE m[p]
  BY <1>1
<1>6. \A p \in Objects : m[p].len <= m[p].len
  <2> TAKE p \in Objects
  <2>1. m[p] \in ObjectRecord /\ MaxLen \in Nat
    BY LLCacheAssumption
  <2> QED  BY <2>1, ObjectFields
<1> QED  BY <1>3, <1>4, <1>5, <1>6 DEF Lighter

LEMMA LighterRefl ==
    ASSUME NEW m \in [Objects -> ObjectRecord]
    PROVE  Lighter(m, m)
<1> SUFFICES ASSUME NEW o \in Objects PROVE m[o].len <= m[o].len
  BY DEF Lighter
<1>1. m[o] \in ObjectRecord /\ MaxLen \in Nat
  BY LLCacheAssumption
<1> QED  BY <1>1, ObjectFields

LEMMA TargetedUnmoved ==
    ASSUME NEW us \in [Users -> UserRecord], NEW u \in Users \cup {NONE}
    PROVE  \A w \in Users : Unmoved(us, Targeted(us, u), w)
<1>1. CASE u = NONE
  BY <1>1 DEF Targeted, Unmoved
<1>2. CASE u # NONE
  <2> DEFINE q == [us[u] EXCEPT !.iterator_target = TRUE]
  <2>1. us[u] \in UserRecord
    BY <1>2
  <2>2. q.object = us[u].object /\ q.state = us[u].state /\ q.bytes = us[u].bytes
    BY <2>1 DEF UserRecord
  <2>3. Targeted(us, u) = [us EXCEPT ![u] = q]
    BY <1>2 DEF Targeted
  <2> HIDE DEF q
  <2>4. \A w \in Users : Targeted(us, u)[w] = IF w = u THEN q ELSE us[w]
    BY <2>3
  <2> QED  BY <2>2, <2>4 DEF Unmoved
<1> QED  BY <1>1, <1>2

-----------------------------------------------------------------------------
(* The pass goes from object to object.                                     *)

\* The pass enters object o, or ends: all users of the objects of Past are settled.
LEMMA Entering ==
    ASSUME LInv, LInv', ListsOK, UNCHANGED <<object, cached, uncached>>,
           NEW o \in Objects \cup {NONE}, NEW loop \in {1, 2}, EnterObject(o, loop),
           NEW Past, \A u \in Users : user[u].object \in Past => UserSettled(u), NONE \notin Past,
           o # NONE => o \in Elems(IF loop = 1 THEN cached ELSE uncached),
           loop = 1 => /\ o = NONE => Elems(cached) \subseteq Past
                       /\ o # NONE => \A p : Before(cached, p, o) => p \in Past,
           loop = 2 => /\ Elems(cached) \subseteq Past
                       /\ o = NONE => Elems(uncached) \subseteq Past
                       /\ o # NONE => \A p : Before(uncached, p, o) => p \in Past
    PROVE  CatchingUp'
<1> DEFINE second == loop = 1 /\ o = NONE
           x == IF second THEN First(uncached) ELSE o
           v == IF x = NONE THEN NONE ELSE First(object[x].users)
           l == IF second THEN 2 ELSE loop
<1>1. /\ object \in [Objects -> ObjectRecord] /\ user \in [Users -> UserRecord]
      /\ Linked(object, user) /\ Listed(object, cached, uncached)
      /\ cached \in Seq(Objects) /\ uncached \in Seq(Objects)
  BY LInvSound DEF Sound
<1>2. NONE \notin Objects /\ NONE \notin Users
  BY LLCacheAssumption
<1>3. ctl' = IF x = NONE THEN Idle ELSE EnterUser(object, x, v, l)
  BY DEF EnterObject
<1>4. user' = Targeted(user, v)
  BY DEF EnterObject
<1>5. /\ First(uncached) = NONE => Elems(uncached) = {}
      /\ First(uncached) # NONE => /\ First(uncached) \in Elems(uncached)
                                   /\ \A z : ~Before(uncached, z, First(uncached))
  BY <1>1, <1>2, FirstOrder DEF ListsOK
<1>6. /\ l \in {1, 2}
      /\ x = NONE => Elems(cached) \cup Elems(uncached) \subseteq Past
      /\ x # NONE =>
           /\ x \in Elems(IF l = 1 THEN cached ELSE uncached)
           /\ l = 1 => \A p : Before(cached, p, x) => p \in Past
           /\ l = 2 => /\ Elems(cached) \subseteq Past
                       /\ \A p : Before(uncached, p, x) => p \in Past
  BY <1>5
<1>7. (x = NONE => v = NONE) /\ (x # NONE => v = First(object[x].users))
  OBVIOUS
<1> HIDE DEF x, v, l
<1>8. x # NONE => x \in Objects
  <2>1. Elems(cached) \subseteq Objects /\ Elems(uncached) \subseteq Objects
    BY <1>1, ElemsIn
  <2> QED  BY <1>6, <2>1
<1>9. x # NONE => object[x].users \in Seq(Users) /\ Distinct(object[x].users)
  BY <1>1, <1>8, UsersTyped DEF Linked
<1>10. v \in Users \cup {NONE}
  <2>1. x # NONE => Elems(object[x].users) \subseteq Users
    BY <1>1, <1>8, UsersTyped
  <2> QED  BY <1>7, <1>9, <2>1, FirstFacts
<1>11. \A u \in Users : Unmoved(user, user', u)
  BY <1>1, <1>4, <1>10, TargetedUnmoved
<1>12. ASSUME NEW u \in Users, user'[u].object \in Past
       PROVE  UserSettled(u)'
  <2>1. user[u].object = user'[u].object /\ user[u].object # NONE
    BY <1>11, <1>12 DEF Unmoved
  <2>2. UserSettled(u) /\ Lighter(object, object')
    BY <1>1, <1>12, <2>1, LighterRefl
  <2> QED  BY <1>11, <2>1, <2>2, StaysSettled
<1>13. CASE x = NONE
  <2>1. ctl'.kind = "idle"
    BY <1>3, <1>13 DEF Idle
  <2>2. ASSUME NEW u \in Users, user'[u].object # NONE
        PROVE  UserSettled(u)'
    <3>1. user[u].object = user'[u].object /\ user[u] \in UserRecord
      BY <1>1, <1>11 DEF Unmoved
    <3>2. user[u].object \in Objects /\ object[user[u].object].used
      BY <1>1, <2>2, <3>1, UserFields DEF Linked
    <3>3. user[u].object \in Past
      BY <1>1, <1>6, <1>13, <3>2 DEF Listed
    <3> QED  BY <1>12, <3>1, <3>3
  <2> QED  BY <2>1, <2>2 DEF CatchingUp
<1>14. CASE x # NONE
  <2>1. /\ ctl'.kind = "pass" /\ ctl'.obj = x /\ ctl'.cur = v /\ ctl'.loop = l
        /\ ctl'.objstate = object[x].state
    BY <1>3, <1>8, <1>14, <1>2 DEF EnterUser
  <2>2. ASSUME NEW u \in Users, user'[u].object # NONE, Visited(u)'
        PROVE  UserSettled(u)'
    <3>1. user[u].object = user'[u].object /\ user[u].object # NONE
      BY <1>11, <2>2 DEF Unmoved
    <3>2. CASE Passed(user[u].object)'
      <4>1. user'[u].object \in Past
        BY <1>6, <1>14, <2>1, <3>2 DEF Passed
      <4> QED  BY <1>12, <4>1
    <3>3. CASE user'[u].object = x /\ (v = NONE \/ Before(object[x].users, u, v))
      <4>1. u \in Elems(object[x].users)
        BY <1>1, <3>1, <3>3 DEF Linked
      <4>2. /\ v = NONE => Elems(object[x].users) = {}
            /\ v # NONE => ~Before(object[x].users, u, v)
        BY <1>2, <1>7, <1>9, <1>14, FirstOrder
      <4> QED  BY <3>3, <4>1, <4>2
    <3> QED  BY <2>1, <2>2, <3>2, <3>3 DEF Visited
  <2>3. InPass'
    BY <1>6, <1>14, <2>1, <2>2 DEF InPass
  <2> QED  BY <2>1, <2>3 DEF CatchingUp
<1> QED  BY <1>13, <1>14

\* llcache_catch_up_all_users() begins.
LEMMA CatchUpCatches ==
    ASSUME LInv, LInv', ListsOK, llcache_catch_up_all_users
    PROVE  CatchingUp'
<1> DEFINE o == First(cached)
<1>1. cached \in Seq(Objects) /\ NONE \notin Objects /\ Elems(cached) \subseteq Objects
  BY LInvSound, ElemsIn, LLCacheAssumption DEF Sound
<1>2. /\ o = NONE => Elems(cached) = {}
      /\ o # NONE => o \in Elems(cached) /\ \A z : ~Before(cached, z, o)
  BY <1>1, FirstOrder DEF ListsOK
<1>3. EnterObject(o, 1) /\ UNCHANGED <<object, cached, uncached>>
  BY DEF llcache_catch_up_all_users
<1> HIDE DEF o
<1>4. o \in Objects \cup {NONE}
  BY <1>1, <1>2
<1> DEFINE Past == {}
<1>5. /\ \A u \in Users : user[u].object \in Past => UserSettled(u)
      /\ NONE \notin Past
      /\ o = NONE => Elems(cached) \subseteq Past
      /\ o # NONE => \A p : Before(cached, p, o) => p \in Past
  BY <1>2
<1> HIDE DEF Past
<1> QED  BY <1>2, <1>3, <1>4, <1>5, Entering

LEMMA NotPassed ==
    ASSUME LInv, ListsOK, InPass, ctl.kind = "pass"
    PROVE  ~Passed(ctl.obj)
<1>1. ctl.loop \in {1, 2}
  BY LInvSound, ControlCases DEF PassControl
<1>2. ~Before(cached, ctl.obj, ctl.obj) /\ ~Before(uncached, ctl.obj, ctl.obj)
  BY DEF Before, Distinct, ListsOK
<1> QED  BY <1>1, <1>2 DEF Passed, InPass, ListsOK

LEMMA NextObjectCatches ==
    ASSUME LInv, LInv', ListsOK, CatchingUp, NextObject
    PROVE  CatchingUp'
<1> DEFINE list == IF ctl.obj \in Elems(cached) THEN cached ELSE uncached
           o == Successor(list, ctl.obj)
           Past == { p \in Objects : Passed(p) \/ p = ctl.obj }
<1>1. /\ ctl.kind = "pass" /\ ctl.cur = NONE /\ EnterObject(o, ctl.loop)
      /\ UNCHANGED <<object, cached, uncached, all_caught_up>>
  BY DEF NextObject
<1>2. CASE ~all_caught_up
  BY <1>1, <1>2 DEF CatchingUp
<1>3. CASE all_caught_up
  <2>1. InPass
    BY <1>1, <1>3 DEF CatchingUp
  <2>2. ctl.loop \in {1, 2} /\ ctl.obj \in Objects
    BY <1>1, LInvSound, ControlCases DEF PassControl
  <2>3. list = IF ctl.loop = 1 THEN cached ELSE uncached
    BY <2>1, <2>2 DEF InPass, ListsOK
  <2>4. /\ cached \in Seq(Objects) /\ uncached \in Seq(Objects) /\ NONE \notin Objects
        /\ Elems(cached) \subseteq Objects /\ Elems(uncached) \subseteq Objects
    BY LInvSound, ElemsIn, LLCacheAssumption DEF Sound
  <2>5. ctl.obj \in Elems(list) /\ list \in Seq(Objects) /\ Distinct(list)
    BY <2>1, <2>3, <2>4 DEF InPass, ListsOK
  <2> HIDE DEF list
  <2>6. /\ o = NONE => \A z \in Elems(list) : z = ctl.obj \/ Before(list, z, ctl.obj)
        /\ o # NONE => \A z : Before(list, z, o) => z = ctl.obj \/ Before(list, z, ctl.obj)
    BY <2>4, <2>5, SuccessorOrder
  <2>7. o \in Elems(list) \cup {NONE}
    BY <2>5, SuccessorFacts
  <2>8. \A z, y : Before(list, z, y) => z \in Elems(list)
    BY DEF Before, Elems
  <2> HIDE DEF o
  <2>9. Elems(list) \subseteq Objects /\ o \in Objects \cup {NONE}
    BY <2>3, <2>4, <2>7
  <2>10. \A z : Before(list, z, ctl.obj) => Passed(z)
    BY <2>2, <2>3 DEF Passed
  <2>11. /\ o = NONE => Elems(list) \subseteq Past
         /\ o # NONE => \A p : Before(list, p, o) => p \in Past
    BY <2>6, <2>8, <2>9, <2>10
  <2>12. ctl.loop = 2 => Elems(cached) \subseteq Past
    BY <2>4 DEF Passed
  <2>13. ASSUME NEW u \in Users, user[u].object \in Past
         PROVE  UserSettled(u)
    <3>1. Visited(u) /\ user[u].object # NONE
      BY <1>1, <2>4, <2>13 DEF Visited
    <3> QED  BY <2>1, <3>1 DEF InPass
  <2>14. NONE \notin Past
    BY <2>4
  <2> HIDE DEF Past
  <2>15. o # NONE => o \in Elems(IF ctl.loop = 1 THEN cached ELSE uncached)
    BY <2>3, <2>7
  <2>16. /\ ctl.loop = 1 => /\ o = NONE => Elems(cached) \subseteq Past
                            /\ o # NONE => \A p : Before(cached, p, o) => p \in Past
         /\ ctl.loop = 2 => /\ Elems(cached) \subseteq Past
                            /\ o = NONE => Elems(uncached) \subseteq Past
                            /\ o # NONE => \A p : Before(uncached, p, o) => p \in Past
    BY <2>3, <2>11, <2>12
  <2> QED  BY <1>1, <2>2, <2>9, <2>13, <2>14, <2>15, <2>16, Entering
<1> QED  BY <1>2, <1>3

-----------------------------------------------------------------------------
(* ... and from user to user.                                               *)

\* The pass leaves user u: who comes before the next has been visited.
LEMMA TurnEnds ==
    ASSUME LInv, ctl.kind = "pass", ctl.cur # NONE, NEW next,
           next = Successor(object[ctl.obj].users, ctl.cur),
           NEW w \in Users, user[w].object = ctl.obj,
           next = NONE \/ Before(object[ctl.obj].users, w, next)
    PROVE  w = ctl.cur \/ Visited(w)
<1> DEFINE s == object[ctl.obj].users
<1>1. ctl.cur \in Users /\ ctl.obj \in Objects /\ user[ctl.cur].object = ctl.obj
  BY PassFacts
<1>2. /\ object \in [Objects -> ObjectRecord] /\ Linked(object, user)
      /\ NONE \notin Users /\ NONE \notin Objects
  BY LInvSound, LLCacheAssumption DEF Sound
<1>3. s \in Seq(Users) /\ Distinct(s) /\ ctl.cur \in Elems(s) /\ w \in Elems(s)
  BY <1>1, <1>2, UsersTyped DEF Linked
<1>4. w = ctl.cur \/ Before(s, w, ctl.cur)
  BY <1>2, <1>3, SuccessorOrder
<1> QED  BY <1>4 DEF Visited

LEMMA NextUserCatches ==
    ASSUME LInv, LInv', ListsOK, CatchingUp, NextUser
    PROVE  CatchingUp'
<1> DEFINE u == ctl.cur
           o == ctl.obj
           next == Successor(object[o].users, u)
           s == IF user[u].state = INIT /\ ctl.objstate > INIT THEN HEADERS ELSE user[u].state
           q == [user[u] EXCEPT !.iterator_target = FALSE, !.state = s]
           mid == [user EXCEPT ![u] = q]
<1>1. /\ ctl.kind = "pass" /\ u # NONE /\ Due(user[u], o, ctl.objstate) = NONE
      /\ user' = Targeted(mid, next) /\ ctl' = EnterUser(object, o, next, ctl.loop)
      /\ UNCHANGED <<object, cached, uncached, all_caught_up>>
  BY DEF NextUser
<1>2. CASE ~all_caught_up
  BY <1>1, <1>2 DEF CatchingUp
<1>3. CASE all_caught_up
  <2>1. InPass /\ ctl.objstate = object[o].state
    BY <1>1, <1>3 DEF CatchingUp, InPass
  <2>2. /\ u \in Users /\ o \in Objects /\ user[u].object = o /\ user[u] \in UserRecord
        /\ user \in [Users -> UserRecord] /\ object[o] \in ObjectRecord /\ ctl.loop \in {1, 2}
    BY <1>1, PassFacts
  <2>3. next \in Users \cup {NONE}
    BY <2>2, NextFacts
  <2>4. object \in [Objects -> ObjectRecord] /\ NONE \notin Objects /\ NONE \notin Users
    BY LInvSound, LLCacheAssumption
  <2>5. user[u].state \in 0..3 /\ object[o].state \in 0..3 /\ object[o].chain \in BOOLEAN
    BY <2>2, ObjectFields, UserFields DEF INIT, COMPLETE
  <2>6. Settled(user[u], object[o])
    BY <1>1, <2>1, <2>2, <2>4, DueSettled
  <2>7. q \in UserRecord /\ q.object = o /\ q.state = s /\ q.bytes = user[u].bytes
    <3>1. s \in INIT..COMPLETE
      BY <2>2, UserFields, StatesTyped
    <3> HIDE DEF s
    <3> QED  BY <2>2, <3>1 DEF UserRecord
  <2>8. Settled(q, object[o])
    <3>1. s = IF user[u].state = INIT /\ object[o].state > INIT THEN HEADERS ELSE user[u].state
      BY <2>1
    <3> HIDE DEF q, s
    <3> QED  BY <2>5, <2>6, <2>7, <3>1 DEF Settled, INIT, HEADERS, DATA, COMPLETE
  <2> HIDE DEF q, next, s
  <2>9. mid \in [Users -> UserRecord] /\ \A w \in Users : mid[w] = IF w = u THEN q ELSE user[w]
    BY <2>2, <2>7
  <2>10. \A w \in Users : Unmoved(mid, user', w)
    BY <1>1, <2>3, <2>9, TargetedUnmoved
  <2> HIDE DEF mid
  <2>11. \A w \in Users : user'[w].object = user[w].object /\ (w # u => Unmoved(user, user', w))
    BY <2>2, <2>7, <2>9, <2>10 DEF Unmoved
  <2>12. ASSUME NEW w \in Users, w = u
         PROVE  UserSettled(w)'
    <3>1. user'[w].object = o /\ user'[w].state = q.state /\ user'[w].bytes = q.bytes
      BY <2>2, <2>7, <2>9, <2>10, <2>12 DEF Unmoved
    <3>2. Settled(user'[w], object[o])
      BY <2>8, <3>1 DEF Settled
    <3> QED  BY <1>1, <3>1, <3>2 DEF UserSettled
  <2>13. /\ ctl'.kind = "pass" /\ ctl'.obj = o /\ ctl'.cur = next /\ ctl'.loop = ctl.loop
         /\ ctl'.objstate = object[o].state
    BY <1>1, <2>2, <2>4 DEF EnterUser
  <2>14. ASSUME NEW w \in Users, user'[w].object = o, Visited(w)', w # u
         PROVE  Visited(w)
    <3>1. user[w].object = o
      BY <2>11, <2>14
    <3>2. CASE Passed(user[w].object)'
      <4>1. Passed(user[w].object)
        BY <1>1, <2>11, <2>13, <3>2 DEF Passed
      <4> QED  BY <4>1 DEF Visited
    <3>3. CASE next = NONE \/ Before(object[o].users, w, next)
      BY <1>1, <2>14, <3>1, <3>3, TurnEnds DEF next
    <3> QED  BY <1>1, <2>13, <2>14, <3>2, <3>3 DEF Visited
  <2>15. Lighter(object, object')
    BY <1>1, <2>4, LighterRefl
  <2>16. \A w \in Users : user'[w].object # o => w # u
    BY <2>2, <2>11
  <2> HIDE DEF u
  <2> QED  BY <1>1, <2>1, <2>11, <2>12, <2>13, <2>14, <2>15, <2>16, PassGoesOn
<1> QED  BY <1>2, <1>3

\* The handle is brought forward before its user is called; the pass comes
\* back to this user before it goes on.
LEMMA NotifyUserCatches ==
    ASSUME LInv, LInv', ListsOK, CatchingUp, NotifyUser
    PROVE  CatchingUp'
<1> DEFINE u == ctl.cur
           o == ctl.obj
           h == user[u]
           call == Due(h, o, ctl.objstate)
           read == IF object[o].stream THEN 0 ELSE object[o].len
           st == CASE call = "GOT_CERTS" -> HEADERS
                   [] call = "DONE" -> COMPLETE
                   [] OTHER -> DATA
           b == IF call = "HAD_DATA" THEN read ELSE h.bytes
           q == WithProgress(h, st, b)
           r == [object[o] EXCEPT !.len = read]
           orig == IF object[o].stream THEN 0 ELSE h.bytes
<1>1. /\ ctl.kind = "pass" /\ u # NONE
      /\ user' = [user EXCEPT ![u] = q]
      /\ object' = IF call = "HAD_DATA" THEN [object EXCEPT ![o] = r] ELSE object
      /\ ctl' = [ctl EXCEPT !.call = call, !.orig = orig]
      /\ UNCHANGED <<cached, uncached, all_caught_up>>
  BY DEF NotifyUser, WithProgress
<1>2. CASE ~all_caught_up
  BY <1>1, <1>2 DEF CatchingUp
<1>3. CASE all_caught_up
  <2>1. InPass
    BY <1>1, <1>3 DEF CatchingUp
  <2>2. /\ u \in Users /\ o \in Objects /\ user[u].object = o /\ h \in UserRecord
        /\ user \in [Users -> UserRecord] /\ object[o] \in ObjectRecord /\ ctl \in PassControl
    BY <1>1, PassFacts
  <2>3. object \in [Objects -> ObjectRecord] /\ Linked(object, user) /\ NONE \notin Objects
    BY LInvSound, LLCacheAssumption DEF Sound
  <2>4. q.object = h.object
    BY <2>2 DEF WithProgress, UserRecord
  <2>5. /\ r.users = object[o].users /\ r.state = object[o].state /\ r.chain = object[o].chain
        /\ r.len = read
    BY <2>2 DEF ObjectRecord
  <2>6. read \in Nat /\ object[o].len \in Nat /\ read <= object[o].len
    <3>1. object[o].len \in Nat
      BY <2>2, ObjectFields, LLCacheAssumption
    <3> QED  BY <3>1
  <2> HIDE DEF q, r, call, read, orig
  <2>7. ctl'.kind = "pass" /\ ctl'.obj = o /\ ctl'.cur = u /\ ctl'.loop = ctl.loop
        /\ ctl'.objstate = ctl.objstate
    BY <1>1, <2>2 DEF PassControl
  <2>8. /\ \A w \in Users : user'[w].object = user[w].object
        /\ \A w \in Users : w # u => Unmoved(user, user', w)
    BY <1>1, <2>2, <2>4 DEF Unmoved
  <2>9. Lighter(object, object') /\ object'[o].users = object[o].users
    <3>1. Lighter(object, object)
      BY <2>3, LighterRefl
    <3>2. CASE object' = object
      BY <3>1, <3>2
    <3>3. CASE object' = [object EXCEPT ![o] = r]
      BY <2>2, <2>3, <2>5, <2>6, <3>1, <3>3 DEF Lighter
    <3> QED  BY <1>1, <3>2, <3>3
  <2>10. ASSUME NEW w \in Users, user'[w].object = o, Visited(w)'
         PROVE  Visited(w) /\ w # u
    <3>1. user[w].object = o /\ ~Passed(o)
      BY <1>1, <2>1, <2>8, <2>10, NotPassed
    <3>2. ~Passed(user[w].object)'
      BY <1>1, <2>7, <2>10, <3>1 DEF Passed
    <3>3. Before(object[o].users, w, u)
      BY <1>1, <2>7, <2>9, <2>10, <3>2 DEF Visited
    <3>4. w # u
      BY <2>2, <2>3, <3>3 DEF Before, Linked, Distinct
    <3> QED  BY <3>1, <3>3, <3>4 DEF Visited
  <2>11. \A w \in Users : user'[w].object # o => w # u
    BY <2>2, <2>8
  <2> HIDE DEF u
  <2> QED  BY <1>1, <2>7, <2>8, <2>9, <2>10, <2>11, PassGoesOn
<1> QED  BY <1>2, <1>3

LEMMA NotifyReturnsCatches ==
    ASSUME LInv, LInv', ListsOK, CatchingUp, NotifyReturns("ok")
    PROVE  CatchingUp'
<1> DEFINE u == ctl.cur
           o == ctl.obj
           gone == user[u].queued_for_delete
           next == Successor(object[o].users, u)
           mid == [user EXCEPT ![u] = FreeUser]
<1>1. ctl.kind = "pass" /\ ctl.call # NONE /\ UNCHANGED <<cached, uncached, all_caught_up>>
  <2>1. all_caught_up \in BOOLEAN /\ all_caught_up' = (all_caught_up /\ TRUE)
    BY LInvSound DEF NotifyReturns
  <2> QED  BY <2>1 DEF NotifyReturns
<1>2. u # NONE
  BY <1>1 DEF LInv, ControlOK
<1>3. /\ ~gone => ctl' = [ctl EXCEPT !.call = NONE] /\ UNCHANGED <<user, object>>
      /\ gone => /\ object' = RemoveUser(object, o, u)
                 /\ ctl' = EnterUser(object, o, next, ctl.loop)
                 /\ user' = Targeted(mid, next)
  BY DEF NotifyReturns
<1>4. CASE ~all_caught_up
  BY <1>1, <1>4 DEF CatchingUp
<1>5. CASE all_caught_up
  <2>1. InPass
    BY <1>1, <1>5 DEF CatchingUp
  <2>2. /\ u \in Users /\ o \in Objects /\ user[u].object = o /\ ctl.loop \in {1, 2}
        /\ user \in [Users -> UserRecord] /\ object[o] \in ObjectRecord /\ ctl \in PassControl
    BY <1>1, <1>2, PassFacts
  <2>3. object \in [Objects -> ObjectRecord] /\ NONE \notin Objects /\ NONE \notin Users
    BY LInvSound, LLCacheAssumption DEF Sound
  <2>4. CASE ~gone
    <3>1. ctl'.kind = "pass" /\ ctl'.obj = o /\ ctl'.cur = u /\ ctl'.loop = ctl.loop
          /\ ctl'.objstate = ctl.objstate /\ user' = user /\ object' = object
      BY <1>3, <2>2, <2>4 DEF PassControl
    <3>2. \A w \in Users : Visited(w)' => Visited(w)
      BY <1>1, <3>1 DEF Visited, Passed
    <3>3. \A w \in Users : Unmoved(user, user', w)
      BY <3>1 DEF Unmoved
    <3>4. Lighter(object, object')
      BY <2>3, <3>1, LighterRefl
    <3> QED  BY <1>1, <3>1, <3>2, <3>3, <3>4, PassGoesOn
  <2>5. CASE gone
    <3>1. next \in Users \cup {NONE}
      BY <2>2, NextFacts
    <3>2. /\ object' = RemoveUser(object, o, u) /\ ctl' = EnterUser(object, o, next, ctl.loop)
          /\ user' = Targeted(mid, next)
      BY <1>3, <2>5
    <3> HIDE DEF next
    <3>3. mid \in [Users -> UserRecord] /\ \A w \in Users : mid[w] = IF w = u THEN FreeUser ELSE user[w]
      BY <2>2, FreeUserFacts
    <3>4. \A w \in Users : Unmoved(mid, user', w)
      BY <3>1, <3>2, <3>3, TargetedUnmoved
    <3> HIDE DEF mid
    <3>5. user'[u].object = NONE /\ \A w \in Users : w # u => Unmoved(user, user', w)
      BY <2>2, <3>3, <3>4, FreeUserFacts DEF Unmoved
    <3>6. /\ ctl'.kind = "pass" /\ ctl'.obj = o /\ ctl'.cur = next /\ ctl'.loop = ctl.loop
          /\ ctl'.objstate = ctl.objstate
      <4>1. ctl'.objstate = object[o].state
        BY <3>2, <2>2, <2>3 DEF EnterUser
      <4> QED  BY <3>2, <4>1, <2>1 DEF EnterUser, InPass
    <3>7. /\ Lighter(object, object')
          /\ \A x, y : Before(object'[o].users, x, y) => Before(object[o].users, x, y)
      BY <2>2, <2>3, <3>2, RemovedFacts
    <3>8. ASSUME NEW w \in Users, user'[w].object = o, Visited(w)'
          PROVE  Visited(w) /\ w # u
      <4>1. w # u /\ user[w].object = o
        BY <2>3, <3>5, <3>8, <2>2 DEF Unmoved
      <4>2. CASE Passed(user[w].object)'
        <5>1. Passed(user[w].object)
          BY <1>1, <3>6, <3>8, <4>1, <4>2 DEF Passed
        <5> QED  BY <4>1, <5>1 DEF Visited
      <4>3. CASE next = NONE \/ Before(object[o].users, w, next)
        BY <1>1, <1>2, <4>1, <4>3, TurnEnds DEF next
      <4> QED  BY <3>6, <3>7, <3>8, <4>2, <4>3, <4>1 DEF Visited
    <3>9. \A w \in Users : user'[w].object # NONE => Unmoved(user, user', w)
      BY <3>5
    <3>10. \A w \in Users : user'[w].object # NONE => user'[w].object = user[w].object
      BY <3>9 DEF Unmoved
    <3>11. \A w \in Users : user'[w].object = o => Unmoved(user, user', w)
      BY <3>9, <2>2, <2>3
    <3> QED  BY <1>1, <3>6, <3>7, <3>8, <3>9, <3>10, <3>11, PassGoesOn
  <2> QED  BY <2>4, <2>5
<1> QED  BY <1>4, <1>5

-----------------------------------------------------------------------------
(* What clients do meanwhile.                                               *)

\* A step that leaves ctl alone, and takes nothing but users away.
LEMMA ClientCatches ==
    ASSUME LInv, LInv', ListsOK, CatchingUp, UNCHANGED <<cached, uncached, all_caught_up, ctl>>,
           Lighter(object, object'),
           \A u \in Users : user'[u].object # NONE => Unmoved(user, user', u),
           \A o \in Objects : \A x, y : Before(object'[o].users, x, y) => Before(object[o].users, x, y)
    PROVE  CatchingUp'
<1>1. ctl.kind \in {"idle", "event", "pass"}
  BY LInvSound, ControlCases
<1>2. CASE ctl.kind = "idle"
  BY <1>2, IdleLasts
<1>3. CASE ctl.kind = "event"
  BY <1>3, Deferred
<1>4. CASE ctl.kind = "pass"
  <2>1. ctl.obj \in Objects /\ NONE \notin Objects
    BY <1>4, LInvSound, ControlCases, LLCacheAssumption DEF PassControl
  <2>2. \A u \in Users : user'[u].object # NONE => user'[u].object = user[u].object
    BY DEF Unmoved
  <2>3. ASSUME NEW u \in Users, user'[u].object = ctl.obj, Visited(u)'
        PROVE  Visited(u) /\ Unmoved(user, user', u)
    <3>1. user[u].object = ctl.obj /\ Unmoved(user, user', u)
      BY <2>1, <2>2, <2>3
    <3>2. CASE Passed(user[u].object)'
      <4>1. Passed(user[u].object)
        BY <2>3, <3>1, <3>2 DEF Passed
      <4> QED  BY <3>1, <4>1 DEF Visited
    <3>3. CASE ctl.cur = NONE \/ Before(object'[ctl.obj].users, u, ctl.cur)
      BY <2>1, <3>1, <3>3 DEF Visited
    <3> QED  BY <2>3, <3>2, <3>3 DEF Visited
  <2> QED  BY <1>4, <2>2, <2>3, PassGoesOn
<1> QED  BY <1>1, <1>2, <1>3, <1>4

LEMMA ReleaseCatches ==
    ASSUME LInv, LInv', ListsOK, CatchingUp, NEW u \in Users, llcache_handle_release(u)
    PROVE  CatchingUp'
<1> DEFINE o == user[u].object
<1>1. Holds(u) /\ UNCHANGED <<cached, uncached, all_caught_up, ctl>>
  BY DEF llcache_handle_release
<1>2. /\ user[u] \in UserRecord /\ o \in Objects
      /\ user \in [Users -> UserRecord] /\ object \in [Objects -> ObjectRecord]
  BY <1>1, HoldsFacts, LInvSound DEF Sound
<1>3. CASE user[u].iterator_target
  <2> DEFINE q == [user[u] EXCEPT !.queued_for_delete = TRUE]
  <2>1. user' = [user EXCEPT ![u] = q] /\ object' = object
    BY <1>3 DEF llcache_handle_release
  <2>2. q.object = user[u].object /\ q.state = user[u].state /\ q.bytes = user[u].bytes
    BY <1>2 DEF UserRecord
  <2> HIDE DEF q
  <2>3. \A w \in Users : Unmoved(user, user', w)
    BY <1>2, <2>1, <2>2 DEF Unmoved
  <2>4. Lighter(object, object')
    BY <1>2, <2>1, LighterRefl
  <2> QED  BY <1>1, <2>1, <2>3, <2>4, ClientCatches
<1>4. CASE ~user[u].iterator_target
  <2>1. user' = [user EXCEPT ![u] = FreeUser] /\ object' = RemoveUser(object, o, u)
    BY <1>4 DEF llcache_handle_release
  <2>2. \A w \in Users : user'[w].object # NONE => Unmoved(user, user', w)
    BY <1>2, <2>1, FreeUserFacts DEF Unmoved
  <2> QED  BY <1>1, <1>2, <2>1, <2>2, RemovedFacts, ClientCatches
<1> QED  BY <1>3, <1>4

LEMMA RecachedFacts ==
    ASSUME LInv, NEW o \in Objects, NEW c, object' = [object EXCEPT ![o] = [@ EXCEPT !.cache = c]]
    PROVE  Lighter(object, object') /\ \A p \in Objects : object'[p].users = object[p].users
<1> DEFINE r == [object[o] EXCEPT !.cache = c]
<1>1. object \in [Objects -> ObjectRecord] /\ object' = [object EXCEPT ![o] = r]
  BY LInvSound
<1>2. Lighter(object, object)
  BY <1>1, LighterRefl
<1>3. object[o] \in ObjectRecord
  BY <1>1
<1>4. /\ r.state = object[o].state /\ r.chain = object[o].chain /\ r.len = object[o].len
      /\ r.users = object[o].users
  BY <1>3 DEF ObjectRecord
<1> HIDE DEF r
<1>5. \A p \in Objects : object'[p] = IF p = o THEN r ELSE object[p]
  BY <1>1
<1> QED  BY <1>2, <1>4, <1>5 DEF Lighter

LEMMA InvalidateCatches ==
    ASSUME LInv, LInv', ListsOK, CatchingUp, NEW u \in Users,
           llcache_handle_invalidate_cache_data(u)
    PROVE  CatchingUp'
<1> DEFINE c == [object[user[u].object].cache EXCEPT !.no_cache = "ONCE"]
<1>1. /\ Holds(u) /\ UNCHANGED <<user, cached, uncached, all_caught_up, ctl>>
      /\ object' = [object EXCEPT ![user[u].object] = [@ EXCEPT !.cache = c]]
  BY DEF llcache_handle_invalidate_cache_data
<1> HIDE DEF c
<1>2. user[u].object \in Objects
  BY <1>1, HoldsFacts
<1>3. Lighter(object, object') /\ \A p \in Objects : object'[p].users = object[p].users
  BY <1>1, <1>2, RecachedFacts
<1>4. \A w \in Users : Unmoved(user, user', w)
  BY <1>1 DEF Unmoved
<1> QED  BY <1>1, <1>3, <1>4, ClientCatches

LEMMA ExpiresCatches ==
    ASSUME LInv, LInv', ListsOK, CatchingUp, NEW o \in Objects, Expires(o)
    PROVE  CatchingUp'
<1> DEFINE c == [object[o].cache EXCEPT !.life = FALSE]
<1>1. /\ UNCHANGED <<user, cached, uncached, all_caught_up, ctl>>
      /\ object' = [object EXCEPT ![o] = [@ EXCEPT !.cache = c]]
  BY DEF Expires
<1> HIDE DEF c
<1>2. Lighter(object, object') /\ \A p \in Objects : object'[p].users = object[p].users
  BY <1>1, RecachedFacts
<1>3. \A w \in Users : Unmoved(user, user', w)
  BY <1>1 DEF Unmoved
<1> QED  BY <1>1, <1>2, <1>3, ClientCatches

\* Only objects without users are destroyed.
LEMMA CleanCatches ==
    ASSUME LInv, LInv', ListsOK, CatchingUp, llcache_clean
    PROVE  ListsOK' /\ CatchingUp'
<1>1. PICK D \in Discarded(FALSE) : Destroy(object, D)
  BY DEF llcache_clean
<1>2. ctl.kind = "idle" /\ UNCHANGED <<user, all_caught_up, ctl>>
  BY DEF llcache_clean
<1>3. ListsOK'
  BY <1>1, DestroyLists
<1>4. /\ Linked(object, user) /\ user \in [Users -> UserRecord]
      /\ \A o \in D : object[o].users = << >>
  BY <1>1, LInvSound, DiscardedFacts DEF Sound, Disposable
<1>5. ASSUME all_caught_up, NEW u \in Users, user[u].object # NONE
      PROVE  UserSettled(u)'
  <2>1. UserSettled(u)
    BY <1>2, <1>5 DEF CatchingUp
  <2>2. u \in Elems(object[user[u].object].users) /\ user[u].object \in Objects
    BY <1>4, <1>5, UserFields DEF Linked
  <2>3. user[u].object \notin D
    BY <1>4, <2>2, EmptyList
  <2>4. object'[user[u].object] = object[user[u].object]
    BY <1>1, <2>2, <2>3 DEF Destroy
  <2> QED  BY <1>2, <2>1, <2>4 DEF UserSettled
<1>6. CatchingUp'
  BY <1>2, <1>5 DEF CatchingUp
<1> QED  BY <1>3, <1>6

LEMMA RetrieveCatches ==
    ASSUME LInv, ListsOK, NEW u \in Users, NEW url \in Urls, NEW mode \in Modes,
           llcache_handle_retrieve(u, url, mode)
    PROVE  ListsOK' /\ CatchingUp'
<1>1. PICK res \in Retrieved(url, mode, 0) : cached' = res.cached /\ uncached' = res.uncached
  BY DEF llcache_handle_retrieve
<1>2. ListsOK'
  BY <1>1, RetrievedLists DEF ListsOK
<1>3. all_caught_up' = FALSE
  BY DEF llcache_handle_retrieve, NotCaughtUp
<1> QED  BY <1>2, <1>3 DEF CatchingUp

-----------------------------------------------------------------------------
(* Messages and events.                                                     *)

LEMMA MessageCatches ==
    ASSUME ListsOK, NEW o \in Objects, Message(o)
    PROVE  ListsOK' /\ CatchingUp'
<1>1. UNCHANGED <<cached, uncached>>
  BY DEF Message, Header, Data, NoMemory, Finished, Inform, Fails, TimedOut, Retries, NotModified,
         Redirect
<1>2. ASSUME NEW m, NEW type, NEW then, SendEvent(m, o, type, then)
      PROVE  ctl'.kind = "event"
  BY <1>2 DEF SendEvent
<1>3. ASSUME NEW err, HandlerFails(o, err)
      PROVE  ctl'.kind = "event"
  BY <1>3 DEF HandlerFails
<1>4. all_caught_up' = FALSE \/ ctl'.kind = "event"
  <2>1. CASE \/ \E c \in Responses : Header(o, c)
             \/ \E b \in BOOLEAN : Data(o, b)
             \/ Finished(o)
             \/ \E life \in BOOLEAN : NotModified(o, life)
    BY <2>1 DEF Header, Data, Finished, NotModified, NotCaughtUp
  <2>2. CASE \E msg \in {"HEADER", "DATA"}, b \in BOOLEAN : NoMemory(o, msg, b)
    BY <1>3, <2>2 DEF NoMemory
  <2>3. CASE \/ \E msg \in {"PROGRESS", "CERTS"} : Inform(o, msg)
             \/ \E msg \in {"ERROR", "CERT_ERR"} : Fails(o, msg)
             \/ \E url \in Urls, mode \in Modes \cup {"get"}, ok \in BOOLEAN : Redirect(o, url, mode, ok)
    BY <1>2, <2>3 DEF Inform, Fails, Redirect
  <2>4. CASE \/ TimedOut(o)
             \/ \E msg \in {"AUTH", "SSL_ERR"}, again \in BOOLEAN : Retries(o, msg, again)
    BY <1>2, <1>3, <2>4 DEF TimedOut, Retries, StartFails, NotCaughtUp
  <2> QED  BY <2>1, <2>2, <2>3, <2>4 DEF Message
<1> QED  BY <1>1, <1>4, Deferred

LEMMA EventCatches ==
    ASSUME LInv, ListsOK,
           (\E r \in Returns : EventReturns(r)) \/ FollowRedirect \/ EventDone
    PROVE  ListsOK' /\ CatchingUp'
<1>1. CASE \E r \in Returns : EventReturns(r)
  <2>1. ctl.kind = "event" /\ UNCHANGED <<cached, uncached>>
    BY <1>1 DEF EventReturns
  <2>2. ctl \in EventControl
    BY SMTT(30), <2>1, LInvSound, ControlCases
  <2>3. \E x, y : ctl' = [ctl EXCEPT !.cur = x, !.err = y]
    BY <1>1 DEF EventReturns
  <2>4. ctl'.kind = "event"
    BY <2>2, <2>3 DEF EventControl
  <2> QED  BY <2>1, <2>4, Deferred
<1>2. CASE FollowRedirect
  <2>1. CASE /\ all_caught_up' = FALSE
             /\ \E res \in Retrieved(ctl.then.url, ctl.then.mode, object[ctl.obj].redirect_count + 1) :
                   cached' = res.cached /\ uncached' = res.uncached
    <3>1. ListsOK'
      BY <2>1, RetrievedLists DEF ListsOK
    <3> QED  BY <2>1, <3>1 DEF CatchingUp
  <2>2. CASE SendEvent(object, ctl.obj, "ERROR", NONE) /\ UNCHANGED <<cached, uncached>>
    <3>1. ctl'.kind = "event"
      BY <2>2 DEF SendEvent
    <3> QED  BY <2>2, <3>1, Deferred
  <2> QED  BY <1>2, <2>1, <2>2 DEF FollowRedirect, NotCaughtUp
<1>3. CASE EventDone
  <2>1. all_caught_up' = FALSE /\ \E m, D : Destroy(m, D)
    BY <1>3 DEF EventDone, NotCaughtUp
  <2>2. ListsOK'
    BY <2>1, DestroyLists
  <2> QED  BY <2>1, <2>2 DEF CatchingUp
<1> QED  BY <1>1, <1>2, <1>3

-----------------------------------------------------------------------------
(* The theorem.                                                             *)

LEMMA StepCatches ==
    ASSUME LInv, LInv', ListsOK, CatchingUp, [Next]_vars, Returns \subseteq {"ok"},
           Operations \subseteq {"retrieve", "release", "invalidate"}
    PROVE  ListsOK' /\ CatchingUp'
<1>1. CASE \E o \in Objects : Message(o)
  BY <1>1, MessageCatches
<1>2. ASSUME UNCHANGED <<cached, uncached>>, CatchingUp'
      PROVE  ListsOK' /\ CatchingUp'
  BY <1>2 DEF ListsOK
<1>3. CASE \E o \in Objects : Expires(o)
  <2>1. UNCHANGED <<cached, uncached>>
    BY <1>3 DEF Expires
  <2> QED  BY <1>2, <1>3, <2>1, ExpiresCatches
<1>4. CASE llcache_catch_up_all_users
  <2>1. UNCHANGED <<cached, uncached>>
    BY <1>4 DEF llcache_catch_up_all_users
  <2> QED  BY <1>2, <1>4, <2>1, CatchUpCatches
<1>5. CASE (\E r \in Returns : EventReturns(r)) \/ FollowRedirect \/ EventDone
  BY <1>5, EventCatches
<1>6. CASE NextObject \/ NotifyUser \/ NextUser \/ \E r \in Returns : NotifyReturns(r)
  <2>1. UNCHANGED <<cached, uncached>>
    BY <1>6 DEF NextObject, NotifyUser, NextUser, NotifyReturns
  <2>2. CatchingUp'
    BY <1>6, NextObjectCatches, NotifyUserCatches, NextUserCatches, NotifyReturnsCatches
  <2> QED  BY <1>2, <2>1, <2>2
<1>7. CASE Client
  <2>1. CASE \E u \in Users, url \in Urls, mode \in Modes : llcache_handle_retrieve(u, url, mode)
    BY <2>1, RetrieveCatches
  <2>2. CASE \E u \in Users : llcache_handle_release(u)
    <3>1. UNCHANGED <<cached, uncached>>
      BY <2>2 DEF llcache_handle_release
    <3> QED  BY <1>2, <2>2, <3>1, ReleaseCatches
  <2>3. CASE \E u \in Users : llcache_handle_invalidate_cache_data(u)
    <3>1. UNCHANGED <<cached, uncached>>
      BY <2>3 DEF llcache_handle_invalidate_cache_data
    <3> QED  BY <1>2, <2>3, <3>1, InvalidateCatches
  <2>4. /\ ~\E u, v \in Users : llcache_handle_clone(u, v)
        /\ ~\E u \in Users : AbortAlone(u)
        /\ ~\E u, v \in Users, s \in Objects : AbortShared(u, s, v)
        /\ ~\E u \in Users : llcache_handle_force_stream(u)
    BY DEF llcache_handle_clone, AbortAlone, AbortShared, llcache_handle_force_stream, Calls
  <2> QED  BY <1>7, <2>1, <2>2, <2>3, <2>4 DEF Client
<1>8. CASE llcache_clean
  BY <1>8, CleanCatches
<1>9. CASE UNCHANGED vars
  <2>1. UNCHANGED <<object, user, cached, uncached, all_caught_up, ctl>>
    BY <1>9 DEF vars
  <2>2. CatchingUp'
    BY <2>1 DEF CatchingUp, InPass, UserSettled, Visited, Passed
  <2> QED  BY <1>2, <2>1, <2>2
<1> QED  BY <1>1, <1>3, <1>4, <1>5, <1>6, <1>7, <1>8, <1>9 DEF Next, Continue

\* llcache_catch_up_all_users(): all_caught_up is what its name says, whatever
\* messages arrive and whatever fails.  Of clients it is assumed that their
\* callbacks succeed and that they do not stream, abort or clone: after an error
\* in a callback, or when it streams, the pass skips users, and an abort or a
\* clone gives users something to be told without asking for a pass.
THEOREM PassMissesNobody ==
    ASSUME Returns \subseteq {"ok"}, Operations \subseteq {"retrieve", "release", "invalidate"}
    PROVE  Spec => []CaughtUp
<1> DEFINE CInv == LInv /\ ListsOK /\ CatchingUp
<1>1. Init => CInv
  <2> SUFFICES ASSUME Init PROVE CInv
    OBVIOUS
  <2>1. LInv
    BY InitKeeps
  <2>2. ListsOK
    BY EmptyList DEF Init, ListsOK
  <2>3. \A u \in Users : user[u].object = NONE
    BY FreeUserFacts DEF Init
  <2>4. CatchingUp
    BY <2>3 DEF Init, CatchingUp, Idle
  <2> QED  BY <2>1, <2>2, <2>4
<1>2. CInv /\ [Next]_vars => CInv'
  <2> SUFFICES ASSUME CInv, [Next]_vars PROVE CInv'
    OBVIOUS
  <2>1. LInv'
    BY NextKeeps
  <2> QED  BY <2>1, StepCatches
<1>3. CInv => CaughtUp
  <2> SUFFICES ASSUME CInv, ctl.kind = "idle", all_caught_up, NEW u \in Users, user[u].object # NONE
               PROVE  Due(user[u], user[u].object, object[user[u].object].state) = NONE
    BY DEF CaughtUp
  <2>1. user[u] \in UserRecord /\ object \in [Objects -> ObjectRecord] /\ user[u].object \in Objects
    BY LInvSound, UserFields DEF Sound
  <2>2. Settled(user[u], object[user[u].object])
    BY DEF CatchingUp, UserSettled
  <2> QED  BY <2>1, <2>2, DueSettled
<1> QED  BY <1>1, <1>2, <1>3, PTL DEF Spec

=============================================================================
