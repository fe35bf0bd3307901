----------------------------- MODULE DiscProofs -----------------------------
(***************************************************************************)
(* Proofs about the low-level cache over its backing store, for any URLs,   *)
(* any number of objects, requests and blocks and any limits.               *)
(*                                                                         *)
(* The parts of the invariant are stated of any objects obj, list, store s, *)
(* request times T and data last stored l, because an operation of the      *)
(* cache goes through several of them.                                      *)
(***************************************************************************)
EXTENDS DiscCache, StoreLemmas, SequenceTheorems

ObjectRec ==
    [url : Urls \cup {NONE}, users : BOOLEAN, candidate : Objects \cup {NONE},
     candidate_count : Nat, fetching : BOOLEAN, disc : BOOLEAN, source : Sources \cup {NONE},
     source_len : Nat, req_time : 0 .. MaxTime, ver : 0 .. MaxTime, no_cache : {FALSE},
     expired : BOOLEAN]

Maps == [Objects -> ObjectRec]
Times == [Urls -> 0 .. MaxTime]

\* What a 304 response leaves of the object that was fetched.
Ghost(x) == x.url # NONE /\ ~x.fetching /\ ~x.disc /\ x.source = NONE

\* The fields of an object agree.
Sane(x, T) ==
    /\ x.url = NONE => x = NoObject
    /\ x.url # NONE => x.req_time <= T[x.url] /\ (x.req_time = 0 <=> Ghost(x))
    /\ x.fetching => ~x.expired /\ x.source = NONE /\ ~x.disc /\ x.candidate_count = 0
    /\ x.candidate # NONE => x.fetching
    /\ x.disc /\ (x.users \/ x.candidate_count > 0) => x.source # NONE
    /\ Ghost(x) => x.expired /\ ~x.users /\ x.candidate_count = 0
    /\ x.source # NONE => x.source = Source(x.url, x.ver, 1) /\ x.source_len = 1

\* Of two objects of a URL the one with lifetime left was requested later, one at
\* most is on the disc, and one whose data is there only was requested last.
Apart(x, y) ==
    x.url # NONE /\ x.url = y.url =>
       /\ ~x.expired => y.expired /\ y.req_time < x.req_time
       /\ x.disc => ~y.disc
       /\ x.disc /\ x.source = NONE => y.req_time < x.req_time

\* y can be what x validates.
Validates(x, y) ==
    y.url = x.url /\ y.source # NONE /\ y.expired /\ ~y.fetching /\ y.candidate_count > 0

ObjectsOK(obj, T) ==
    /\ obj \in Maps
    /\ \A o \in Objects : Sane(obj[o], T)
    /\ \A o, p \in Objects : o # p => Apart(obj[o], obj[p])
    /\ \A o \in Objects : obj[o].candidate # NONE => Validates(obj[o], obj[obj[o].candidate])

\* The ghost of a URL is not its newest object.
GhostsOK(obj) ==
    \A o \in Objects : Ghost(obj[o]) => \E p \in Objects : obj[p].url = obj[o].url /\ ~Ghost(obj[p])

Has(u, g) == \E i \in 1 .. Len(u) : u[i] = g
Distinct(u) == \A i, j \in 1 .. Len(u) : u[i] = u[j] => i = j

\* The list has every object that is in use, once.
ListOK(lst, obj) ==
    /\ lst \in Seq(Objects) /\ Distinct(lst)
    /\ \A o \in Objects : Has(lst, o) <=> obj[o].url # NONE

\* The references that the objects own.
Held(obj) ==
    [u \in Urls |-> [e \in Elems |->
        IF e = "data" /\ \E o \in Objects : obj[o].url = u /\ obj[o].disc /\ obj[o].source # NONE
        THEN 1 ELSE 0]]

\* Both elements of an entry have been stored, but perhaps the metadata of w.
Sized(t, w) ==
    \A u \in Urls, e \in Elems : t[u] # NONE /\ (u # w \/ e = "data") => t[u].elem[e].size > 0

SizesOK(s, w) == Sized(s.entries, w) /\ (s.saved.entries # NONE => Sized(s.saved.entries, NONE))

\* What a store keeps, with what was last stored l, and the references h.
Kept(s, l) == Basic(s) /\ BlocksOK(s) /\ DiscOK(s, l) /\ SizesOK(s, NONE)
Counts(s, h) == s.open => Refs(s, h)

References == [Urls -> [Elems -> Nat]]
Latest == [Urls -> [Elems -> Stored \cup {NONE}]]

\* The data and the metadata last stored are of one response, requested before.
LatestOK(l, T) ==
    /\ l \in Latest
    /\ \A u \in Urls :
          \/ l[u]["data"] = NONE /\ l[u]["meta"] = NONE
          \/ 1 \in Sizes /\ \E v \in 0 .. MaxTime, t \in 1 .. T[u] :
                l[u]["data"] = Source(u, v, 1) /\ l[u]["meta"] = Metadata(u, v, 1, t)

\* The store has the source data of the objects that are on the disc.
Backs(l, obj) ==
    \A o \in Objects : obj[o].disc =>
       l[obj[o].url]["data"] # NONE /\ l[obj[o].url]["data"].ver = obj[o].ver

StoreOK(s, obj, T, l) ==
    Kept(s, l) /\ Counts(s, Held(obj)) /\ LatestOK(l, T) /\ Backs(l, obj)

\* What every operation of a handler keeps of the cache c, T being the times.
IsCache(c) == c = [store |-> c.store, object |-> c.object, list |-> c.list]

Core(c, T) ==
    /\ IsCache(c) /\ T \in Times
    /\ ObjectsOK(c.object, T) /\ ListOK(c.list, c.object)
    /\ \E l : StoreOK(c.store, c.object, T, l)

-----------------------------------------------------------------------------
(* Lists.                                                                   *)

LEMMA NatInductionSet ==
    ASSUME NEW S, 0 \in S, \A n \in Nat : n \in S => n + 1 \in S
    PROVE  Nat \subseteq S
<1> DEFINE T == Nat \ S
<1>1. SUFFICES ASSUME T # {} PROVE FALSE
  OBVIOUS
<1>2. PICK x \in T : \A y \in T : ~(<<y, x>> \in OpToRel(<, Nat))
  <2>1. T \subseteq Nat
    OBVIOUS
  <2> HIDE DEF T
  <2> QED  BY Zenon, <1>1, <2>1, NatLessThanWellFounded, WFMin
<1>3. x \in Nat /\ x # 0
  OBVIOUS
<1>4. x - 1 \in Nat /\ x - 1 \notin S
  BY <1>3
<1>5. <<x - 1, x>> \in OpToRel(<, Nat)
  BY <1>3, <1>4 DEF OpToRel
<1> QED  BY Zenon, <1>2, <1>4, <1>5

LEMMA CutAt ==
    ASSUME NEW S, NEW u \in Seq(S), NEW p \in 1 .. Len(u)
    PROVE  LET r == SubSeq(u, 1, p - 1) \o SubSeq(u, p + 1, Len(u))
           IN  /\ r \in Seq(S) /\ Len(r) = Len(u) - 1
               /\ \A j \in 1 .. Len(r) : r[j] = IF j < p THEN u[j] ELSE u[j + 1]
<1> DEFINE a == SubSeq(u, 1, p - 1)
           b == SubSeq(u, p + 1, Len(u))
<1>1. Len(u) \in Nat /\ p \in Nat
  OBVIOUS
<1>2. a \in Seq(S) /\ Len(a) = p - 1 /\ \A i \in 1 .. p - 1 : a[i] = u[i]
  BY <1>1
<1>3. b \in Seq(S) /\ Len(b) = Len(u) - p /\ \A i \in 1 .. Len(u) - p : b[i] = u[p + i]
  BY <1>1
<1> HIDE DEF a, b
<1>4. a \o b \in Seq(S) /\ Len(a \o b) = Len(u) - 1
  <2>1. a \o b \in Seq(S) /\ Len(a \o b) = Len(a) + Len(b)
    BY <1>2, <1>3, ConcatProperties, Zenon
  <2> QED  BY <1>1, <1>2, <1>3, <2>1
<1>5. ASSUME NEW j \in 1 .. Len(u) - 1
      PROVE  (a \o b)[j] = IF j < p THEN u[j] ELSE u[j + 1]
  <2>1. CASE j < p
    BY <1>1, <1>2, <1>3, <2>1
  <2>2. CASE ~(j < p)
    <3>1. (a \o b)[j] = b[j - (p - 1)]
      BY <1>1, <1>2, <1>3, <2>2
    <3>2. j - (p - 1) \in 1 .. Len(u) - p /\ p + (j - (p - 1)) = j + 1
      BY <1>1, <2>2
    <3> QED  BY <1>3, <2>2, <3>1, <3>2
  <2> QED  BY <2>1, <2>2
<1> QED  BY <1>4, <1>5 DEF a, b

LEMMA RemoveFirstOf ==
    ASSUME NEW S, NEW u \in Seq(S), Distinct(u), NEW p \in 1 .. Len(u)
    PROVE  LET r == RemoveFirst(u, u[p])
           IN  /\ r \in Seq(S) /\ Len(r) = Len(u) - 1
               /\ \A j \in 1 .. Len(r) : r[j] = IF j < p THEN u[j] ELSE u[j + 1]
<1> DEFINE I == {i \in 1 .. Len(u) : u[i] = u[p]}
<1>1. Len(u) \in Nat /\ I = {p}
  BY DEF Distinct
<1>2. Min(I) = p
  BY <1>1, NatMin
<1>3. RemoveFirst(u, u[p]) = SubSeq(u, 1, p - 1) \o SubSeq(u, p + 1, Len(u))
  BY <1>1, <1>2 DEF RemoveFirst, RemoveAt, SelectInSeq
<1> DEFINE r == SubSeq(u, 1, p - 1) \o SubSeq(u, p + 1, Len(u))
<1>4. /\ r \in Seq(S) /\ Len(r) = Len(u) - 1
      /\ \A j \in 1 .. Len(r) : r[j] = IF j < p THEN u[j] ELSE u[j + 1]
  BY CutAt
<1> HIDE DEF r, I
<1> QED  BY <1>3, <1>4 DEF r

LEMMA ObjectRemoved ==
    ASSUME NEW S, NEW u \in Seq(S), Distinct(u), NEW p \in 1 .. Len(u), NEW r,
           r = RemoveFirst(u, u[p])
    PROVE  /\ r \in Seq(S) /\ Distinct(r)
           /\ \A g : Has(r, g) <=> Has(u, g) /\ g # u[p]
<1>1. /\ r \in Seq(S) /\ Len(r) = Len(u) - 1 /\ Len(u) \in Nat
      /\ \A j \in 1 .. Len(r) : r[j] = IF j < p THEN u[j] ELSE u[j + 1]
  <2>1. Len(u) \in Nat
    OBVIOUS
  <2>2. /\ r \in Seq(S) /\ Len(r) = Len(u) - 1
        /\ \A j \in 1 .. Len(r) : r[j] = IF j < p THEN u[j] ELSE u[j + 1]
    BY RemoveFirstOf, Zenon
  <2> QED  BY <2>1, <2>2, Zenon
<1>2. Distinct(r)
  <2> SUFFICES ASSUME NEW i \in 1 .. Len(r), NEW j \in 1 .. Len(r), r[i] = r[j]
               PROVE  i = j
    BY DEF Distinct
  <2>1. ASSUME NEW n \in 1 .. Len(r)
        PROVE  \E a \in 1 .. Len(u) : r[n] = u[a] /\ a = IF n < p THEN n ELSE n + 1
    <3>1. n \in 1 .. Len(u) /\ n + 1 \in 1 .. Len(u)
      BY <1>1
    <3>2. r[n] = IF n < p THEN u[n] ELSE u[n + 1]
      BY <1>1
    <3>3. CASE n < p
      BY <3>1, <3>2, <3>3
    <3>4. CASE ~(n < p)
      BY <3>1, <3>2, <3>4
    <3> QED  BY <3>3, <3>4
  <2>2. PICK a \in 1 .. Len(u) : r[i] = u[a] /\ a = IF i < p THEN i ELSE i + 1
    BY <2>1
  <2>3. PICK b \in 1 .. Len(u) : r[j] = u[b] /\ b = IF j < p THEN j ELSE j + 1
    BY <2>1
  <2>4. a = b
    BY <2>2, <2>3 DEF Distinct
  <2> QED  BY <2>2, <2>3, <2>4, <1>1
<1>3. ASSUME NEW g, NEW i \in 1 .. Len(r), r[i] = g
      PROVE  (\E j \in 1 .. Len(u) : u[j] = g) /\ g # u[p]
  <2>1. i \in 1 .. Len(u) /\ i + 1 \in 1 .. Len(u)
    BY <1>1
  <2>2. CASE i < p
    BY <1>1, <1>3, <2>1, <2>2 DEF Distinct
  <2>3. CASE ~(i < p)
    <3>1. r[i] = u[i + 1] /\ i + 1 # p
      BY <1>1, <2>3
    <3> QED  BY <1>3, <2>1, <3>1 DEF Distinct
  <2> QED  BY <2>2, <2>3
<1>4. ASSUME NEW g, g # u[p], NEW i \in 1 .. Len(u), u[i] = g
      PROVE  \E j \in 1 .. Len(r) : r[j] = g
  <2>1. CASE i < p
    BY <1>1, <1>4, <2>1
  <2>2. CASE i > p
    <3>1. i - 1 \in 1 .. Len(r) /\ ~(i - 1 < p) /\ (i - 1) + 1 = i
      BY <1>1, <2>2
    <3> QED  BY <1>1, <1>4, <3>1
  <2> QED  BY <1>4, <2>1, <2>2
<1> QED  BY <1>1, <1>2, <1>3, <1>4 DEF Has

LEMMA ObjectAdded ==
    ASSUME NEW S, NEW u \in Seq(S), Distinct(u), NEW e \in S, ~Has(u, e), NEW r, r = <<e>> \o u
    PROVE  /\ r \in Seq(S) /\ Distinct(r) /\ Len(r) = Len(u) + 1
           /\ \A g : Has(r, g) <=> Has(u, g) \/ g = e
<1>0. \A i \in 1 .. Len(u) : u[i] # e
  BY DEF Has
<1>1. /\ r \in Seq(S) /\ Len(r) = Len(u) + 1 /\ Len(u) \in Nat
      /\ r[1] = e /\ \A j \in 1 .. Len(r) : j # 1 => r[j] = u[j - 1]
  OBVIOUS
<1>2. Distinct(r)
  <2> SUFFICES ASSUME NEW i \in 1 .. Len(r), NEW j \in 1 .. Len(r), r[i] = r[j]
               PROVE  i = j
    BY DEF Distinct
  <2>1. i # 1 => i - 1 \in 1 .. Len(u) /\ r[i] = u[i - 1]
    BY <1>1
  <2>2. j # 1 => j - 1 \in 1 .. Len(u) /\ r[j] = u[j - 1]
    BY <1>1
  <2>3. i # 1 /\ j # 1 => i - 1 = j - 1
    BY <2>1, <2>2 DEF Distinct
  <2> QED  BY <1>0, <1>1, <2>1, <2>2, <2>3
<1>3. \A j \in 1 .. Len(u) : j + 1 \in 1 .. Len(r) /\ r[j + 1] = u[j]
  BY <1>1
<1>4. \A j \in 1 .. Len(r) : j # 1 => j - 1 \in 1 .. Len(u)
  BY <1>1
<1>5. \A g : Has(r, g) => Has(u, g) \/ g = e
  BY <1>1, <1>4 DEF Has
<1>6. \A g : Has(u, g) => Has(r, g)
  BY <1>3, Zenon DEF Has
<1>7. Has(r, e)
  BY <1>1 DEF Has
<1> QED  BY <1>1, <1>2, <1>5, <1>6, <1>7

LEMMA ListWithout ==
    ASSUME NEW lst, NEW obj \in [Objects -> ObjectRec], ListOK(lst, obj), NEW o \in Objects
    PROVE  ListOK(RemoveFirst(lst, o), [obj EXCEPT ![o] = NoObject])
<1> DEFINE r == RemoveFirst(lst, o)
           new == [obj EXCEPT ![o] = NoObject]
<1>1. \A p \in Objects : new[p].url # NONE <=> obj[p].url # NONE /\ p # o
  BY DEF NoObject
<1>2. CASE Has(lst, o)
  <2>1. PICK p \in 1 .. Len(lst) : lst[p] = o
    BY <1>2 DEF Has
  <2>2. r = RemoveFirst(lst, lst[p])
    BY <2>1
  <2> HIDE DEF r, new
  <2>3. r \in Seq(Objects) /\ Distinct(r) /\ \A g : Has(r, g) <=> Has(lst, g) /\ g # o
    BY <2>1, <2>2, ObjectRemoved, Zenon DEF ListOK
  <2>4. ListOK(r, new)
    BY <1>1, <2>3, Zenon DEF ListOK
  <2> QED  BY <2>4 DEF r, new
<1>3. CASE ~Has(lst, o)
  <2>1. r = lst
    BY <1>3 DEF Has, RemoveFirst
  <2> HIDE DEF r, new
  <2>2. ListOK(r, new)
    BY <1>1, <1>3, <2>1, Zenon DEF ListOK
  <2> QED  BY <2>2 DEF r, new
<1> QED  BY <1>2, <1>3

LEMMA ListWith ==
    ASSUME NEW lst, NEW obj \in [Objects -> ObjectRec], ListOK(lst, obj), NEW o \in Objects,
           obj[o].url = NONE, NEW x, x.url # NONE
    PROVE  ListOK(<<o>> \o lst, [obj EXCEPT ![o] = x])
<1> DEFINE r == <<o>> \o lst
           new == [obj EXCEPT ![o] = x]
<1>1. \A p \in Objects : new[p].url # NONE <=> obj[p].url # NONE \/ p = o
  OBVIOUS
<1>2. ~Has(lst, o)
  BY Zenon DEF ListOK
<1>3. r \in Seq(Objects) /\ Distinct(r) /\ \A g : Has(r, g) <=> Has(lst, g) \/ g = o
  BY <1>2, ObjectAdded, ZenonT(60) DEF ListOK
<1> HIDE DEF r, new
<1>4. ListOK(r, new)
  BY <1>1, <1>3, Zenon DEF ListOK
<1> QED  BY <1>4 DEF r, new

LEMMA ListSame ==
    ASSUME NEW lst, NEW obj, NEW new, ListOK(lst, obj),
           \A p \in Objects : new[p].url # NONE <=> obj[p].url # NONE
    PROVE  ListOK(lst, new)
  BY Zenon DEF ListOK

LEMMA ListMember ==
    ASSUME NEW lst \in Seq(Objects)
    PROVE  /\ ToSet(lst) = {o \in Objects : Has(lst, o)}
           /\ Len(lst) \in Nat /\ \A i \in 1 .. Len(lst) : lst[i] \in Objects
  BY DEF ToSet, Has

-----------------------------------------------------------------------------
(* The walks over a list.                                                   *)

WriteTurn(D, o) == UNION {IF Persistable(d.object[o]) THEN WriteOut(d, o) ELSE {d} : d \in D}

LEMMA WrittenOutDef ==
    ASSUME NEW c, Len(c.list) \in Nat
    PROVE  /\ WrittenOut(c)[0] = {c}
           /\ \A n \in Nat : n < Len(c.list) =>
                 WrittenOut(c)[n + 1] = WriteTurn(WrittenOut(c)[n], c.list[n + 1])
<1> DEFINE Is(f, m) == f = [n \in 0 .. m |-> IF n = 0 THEN {c} ELSE WriteTurn(f[n - 1], c.list[n])]
           S == {m \in Nat : \E f : Is(f, m)}
<1>1. 0 \in S
  <2> DEFINE f == [n \in 0 .. 0 |-> {c}]
  <2>1. Is(f, 0)
    OBVIOUS
  <2> QED  BY <2>1
<1>2. ASSUME NEW m \in Nat, m \in S
      PROVE  m + 1 \in S
  <2>1. PICK f : Is(f, m)
    BY <1>2
  <2> DEFINE g == [n \in 0 .. m + 1 |-> IF n = m + 1 THEN WriteTurn(f[m], c.list[m + 1]) ELSE f[n]]
  <2>2. Is(g, m + 1)
    <3> SUFFICES ASSUME NEW n \in 0 .. m + 1
                 PROVE  g[n] = IF n = 0 THEN {c} ELSE WriteTurn(g[n - 1], c.list[n])
      OBVIOUS
    <3> HIDE DEF g
    <3>1. \A i \in 0 .. m + 1 : g[i] = IF i = m + 1 THEN WriteTurn(f[m], c.list[m + 1]) ELSE f[i]
      BY DEF g
    <3>2. CASE n = m + 1
      BY <3>1, <3>2
    <3>3. CASE n # m + 1
      <4>1. n \in 0 .. m /\ (n = 0 \/ n - 1 \in 0 .. m) /\ n - 1 # m + 1
        BY <3>3
      <4>2. f[n] = IF n = 0 THEN {c} ELSE WriteTurn(f[n - 1], c.list[n])
        BY <2>1, <4>1
      <4> QED  BY <3>1, <3>3, <4>1, <4>2
    <3> QED  BY <3>2, <3>3
  <2> HIDE DEF g, Is
  <2> QED  BY <2>2
<1>3. PICK f : Is(f, Len(c.list))
  <2> HIDE DEF S
  <2>1. Len(c.list) \in S
    BY <1>1, <1>2, NatInductionSet
  <2> QED  BY <2>1 DEF S
<1>4. WrittenOut(c) = CHOOSE g : g = [n \in 0 .. Len(c.list) |-> IF n = 0 THEN {c} ELSE WriteTurn(g[n - 1], c.list[n])]
  BY DEF WrittenOut, WriteTurn
<1>5. Is(WrittenOut(c), Len(c.list))
  BY <1>3, <1>4
<1> DEFINE T == WrittenOut(c)
<1> HIDE DEF T
<1>6. Is(T, Len(c.list))
  BY <1>5 DEF T
<1>7. T[0] = {c}
  BY <1>6
<1>8. ASSUME NEW n \in Nat, n < Len(c.list)
      PROVE  T[n + 1] = WriteTurn(T[n], c.list[n + 1])
  <2>1. n + 1 \in 0 .. Len(c.list) /\ n + 1 # 0 /\ (n + 1) - 1 = n
    BY <1>8
  <2>2. T[n + 1] = IF n + 1 = 0 THEN {c} ELSE WriteTurn(T[(n + 1) - 1], c.list[n + 1])
    BY <1>6, <2>1
  <2> QED  BY <2>1, <2>2
<1> QED  BY <1>7, <1>8 DEF T

LEMMA TurnsDef ==
    ASSUME NEW stage, NEW lim, NEW d, Len(d.c.list) \in Nat
    PROVE  /\ Turns(stage, lim, d)[0] = d
           /\ \A n \in Nat : n < Len(d.c.list) =>
                 Turns(stage, lim, d)[n + 1]
                    = Turn(stage, lim, Turns(stage, lim, d)[n], d.c.list[n + 1])
<1> DEFINE lst == d.c.list
           Is(f, m) == f = [n \in 0 .. m |-> IF n = 0 THEN d ELSE Turn(stage, lim, f[n - 1], lst[n])]
           S == {m \in Nat : \E f : Is(f, m)}
<1>1. 0 \in S
  <2> DEFINE f == [n \in 0 .. 0 |-> d]
  <2>1. Is(f, 0)
    OBVIOUS
  <2> QED  BY <2>1
<1>2. ASSUME NEW m \in Nat, m \in S
      PROVE  m + 1 \in S
  <2>1. PICK f : Is(f, m)
    BY <1>2
  <2> DEFINE g == [n \in 0 .. m + 1 |-> IF n = m + 1 THEN Turn(stage, lim, f[m], lst[m + 1]) ELSE f[n]]
  <2>2. Is(g, m + 1)
    <3> SUFFICES ASSUME NEW n \in 0 .. m + 1
                 PROVE  g[n] = IF n = 0 THEN d ELSE Turn(stage, lim, g[n - 1], lst[n])
      OBVIOUS
    <3> HIDE DEF g
    <3>1. \A i \in 0 .. m + 1 : g[i] = IF i = m + 1 THEN Turn(stage, lim, f[m], lst[m + 1]) ELSE f[i]
      BY DEF g
    <3>2. CASE n = m + 1
      BY <3>1, <3>2
    <3>3. CASE n # m + 1
      <4>1. n \in 0 .. m /\ (n = 0 \/ n - 1 \in 0 .. m) /\ n - 1 # m + 1
        BY <3>3
      <4>2. f[n] = IF n = 0 THEN d ELSE Turn(stage, lim, f[n - 1], lst[n])
        BY <2>1, <4>1
      <4> QED  BY <3>1, <3>3, <4>1, <4>2
    <3> QED  BY <3>2, <3>3
  <2> HIDE DEF g, Is
  <2> QED  BY <2>2
<1>3. PICK f : Is(f, Len(lst))
  <2> HIDE DEF S
  <2>1. Len(lst) \in S
    BY <1>1, <1>2, NatInductionSet
  <2> QED  BY <2>1 DEF S
<1>4. Turns(stage, lim, d)
        = CHOOSE g : g = [n \in 0 .. Len(lst) |-> IF n = 0 THEN d ELSE Turn(stage, lim, g[n - 1], lst[n])]
  BY DEF Turns
<1>5. Is(Turns(stage, lim, d), Len(lst))
  BY <1>3, <1>4
<1> DEFINE T == Turns(stage, lim, d)
<1> HIDE DEF T
<1>6. Is(T, Len(lst))
  BY <1>5 DEF T
<1>7. T[0] = d
  BY <1>6
<1>8. ASSUME NEW n \in Nat, n < Len(lst)
      PROVE  T[n + 1] = Turn(stage, lim, T[n], lst[n + 1])
  <2>1. n + 1 \in 0 .. Len(lst) /\ n + 1 # 0 /\ (n + 1) - 1 = n
    BY <1>8
  <2>2. T[n + 1] = IF n + 1 = 0 THEN d ELSE Turn(stage, lim, T[(n + 1) - 1], lst[n + 1])
    BY <1>6, <2>1
  <2> QED  BY <2>1, <2>2
<1> QED  BY <1>7, <1>8 DEF T


-----------------------------------------------------------------------------
(* The calls of the store, open or not.                                     *)

LEMMA AfterOne ==
    ASSUME NEW R, R # {}
    PROVE  \E r \in R : After(R) = r.s
  BY DEF After

LEMMA OutcomesExist ==
    ASSUME NEW s, NEW u, NEW e
    PROVE  GuiRelease(s, u, e) # {} /\ GuiInvalidate(s, u) # {}
<1>1. GuiRelease(s, u, e) # {}
  BY Zenon DEF GuiRelease
<1>2. GuiInvalidate(s, u) # {}
  BY Zenon DEF GuiInvalidate
<1> QED  BY <1>1, <1>2

LEMMA ClosedCalls ==
    ASSUME NEW s, ~s.open, NEW u, NEW e
    PROVE  /\ \A r \in GuiRelease(s, u, e) : r.s = s
           /\ \A r \in GuiInvalidate(s, u) : r.s = s
           /\ \A r \in GuiFetch(s, u, e) : r.s = s /\ r.ret # "ok"
           /\ \A data : \A r \in GuiStore(s, u, e, data) : r.s = s /\ r.ret # "ok"
<1>1. \A r : r = Outcome("closed", s) => r.s = s /\ r.ret # "ok"
  BY DEF Outcome
<1>2. \A r \in GuiRelease(s, u, e) : r = Outcome("closed", s)
  BY DEF GuiRelease
<1>3. \A r \in GuiInvalidate(s, u) : r = Outcome("closed", s)
  BY DEF GuiInvalidate
<1>4. \A r \in GuiFetch(s, u, e) : r = Outcome("closed", s)
  BY DEF GuiFetch
<1>5. \A data : \A r \in GuiStore(s, u, e, data) : r = Outcome("closed", s)
  BY DEF GuiStore
<1> QED  BY <1>1, <1>2, <1>3, <1>4, <1>5, Zenon

LEMMA SlimSizes ==
    ASSUME NEW s, NEW r, NEW w, Slim(s, r), SizesOK(s, w)
    PROVE  SizesOK(r, w)
  BY DEF Slim, SizesOK, Sized

LEMMA ReleaseKeeps ==
    ASSUME NEW s, NEW l, Kept(s, l), NEW h \in References, Counts(s, h),
           NEW u \in Urls, NEW e \in Elems, NEW r, r = After(GuiRelease(s, u, e))
    PROVE  Kept(r, l) /\ Counts(r, [h EXCEPT ![u][e] = IF @ = 0 THEN 0 ELSE @ - 1])
<1> DEFINE g == [h EXCEPT ![u][e] = IF @ = 0 THEN 0 ELSE @ - 1]
<1>1. PICK q \in GuiRelease(s, u, e) : r = q.s
  BY AfterOne, OutcomesExist, Zenon
<1>2. CASE ~s.open
  <2>1. r = s
    BY <1>1, <1>2, ClosedCalls
  <2> QED  BY <1>2, <2>1 DEF Counts
<1>3. CASE s.open
  <2>1. Basic(r) /\ BlocksOK(r) /\ DiscOK(r, l)
    BY <1>1, <1>3, GuiReleaseKeeps, Zenon DEF Kept
  <2>2. Slim(s, r)
    BY <1>1, <1>3, GuiReleaseSlim, Zenon DEF Kept
  <2>3. SizesOK(r, NONE)
    BY <2>2, SlimSizes, Zenon DEF Kept
  <2>4. Refs(s, h)
    BY <1>3, Zenon DEF Counts
  <2>5. CASE h[u][e] = 0
    <3>1. Refs(r, h)
      BY <1>1, <1>3, <2>4, <2>5, GuiReleaseSlim, Zenon DEF Kept, References
    <3>2. g = h
      BY <2>5 DEF References
    <3> HIDE DEF g
    <3>3. Counts(r, g)
      BY <3>1, <3>2 DEF Counts
    <3> QED  BY <2>1, <2>3, <3>3, Zenon DEF Kept, g
  <2>6. CASE h[u][e] # 0
    <3>1. h[u][e] > 0
      BY <2>6 DEF References
    <3>2. Refs(r, [h EXCEPT ![u][e] = @ - 1])
      <4>1. Basic(s)
        BY DEF Kept
      <4>2. /\ Basic(q.s)
            /\ BlocksOK(s) => BlocksOK(q.s)
            /\ \A k \in [Urls -> [Elems -> Nat]] : Refs(s, k) /\ k[u][e] > 0 =>
                  Refs(q.s, [k EXCEPT ![u][e] = @ - 1])
            /\ \A k : DiscOK(s, k) => DiscOK(q.s, k)
        BY <1>3, <4>1, GuiReleaseKeeps
      <4> QED  BY <1>1, <2>4, <3>1, <4>2 DEF References
    <3>3. g = [h EXCEPT ![u][e] = @ - 1]
      BY <2>6 DEF References
    <3> HIDE DEF g
    <3>4. Counts(r, g)
      BY <3>2, <3>3 DEF Counts
    <3> QED  BY <2>1, <2>3, <3>4, Zenon DEF Kept, g
  <2> QED  BY <2>5, <2>6, Zenon
<1> QED  BY <1>2, <1>3, Zenon

LEMMA InvalidateKeeps ==
    ASSUME NEW s, NEW l, Kept(s, l), NEW h, Counts(s, h), NEW u \in Urls,
           NEW r, r = After(GuiInvalidate(s, u))
    PROVE  Kept(r, l) /\ Counts(r, h)
<1>1. PICK q \in GuiInvalidate(s, u) : r = q.s
  BY AfterOne, OutcomesExist, Zenon
<1>2. CASE ~s.open
  <2>1. r = s
    BY <1>1, <1>2, ClosedCalls, Zenon
  <2> QED  BY <1>2, <2>1 DEF Counts
<1>3. CASE s.open
  <2>1. Basic(r) /\ BlocksOK(r) /\ DiscOK(r, l)
    BY <1>1, <1>3, GuiInvalidateKeeps, Zenon DEF Kept
  <2>2. Slim(s, r)
    BY <1>1, <1>3, GuiInvalidateSlim, Zenon DEF Kept, Basic
  <2>3. SizesOK(r, NONE)
    BY <2>2, SlimSizes, Zenon DEF Kept
  <2>4. Refs(r, h)
    BY <1>1, <1>3, GuiInvalidateKeeps, Zenon DEF Kept, Counts
  <2> QED  BY <2>1, <2>3, <2>4, Zenon DEF Kept, Counts
<1> QED  BY <1>2, <1>3, Zenon

LEMMA FetchKeeps ==
    ASSUME NEW s, NEW l \in Latest, Kept(s, l), NEW h \in References, Counts(s, h),
           NEW u \in Urls, NEW e \in Elems, NEW r \in GuiFetch(s, u, e)
    PROVE  /\ Kept(r.s, l)
           /\ Counts(r.s, IF r.ret = "ok" THEN [h EXCEPT ![u][e] = @ + 1] ELSE h)
           /\ r.ret = "ok" => r.data = l[u][e] /\ r.data # NONE
<1>1. CASE ~s.open
  <2>1. r.s = s /\ r.ret # "ok"
    BY <1>1, ClosedCalls
  <2> QED  BY <1>1, <2>1 DEF Counts
<1>2. CASE s.open
  <2>1. Basic(r.s) /\ BlocksOK(r.s) /\ DiscOK(r.s, l)
    BY <1>2, GuiFetchKeeps, Zenon DEF Kept, Latest
  <2>2. Slim(s, r.s)
    BY <1>2, GuiFetchSlim, Zenon DEF Kept
  <2>3. SizesOK(r.s, NONE)
    BY <2>2, SlimSizes, Zenon DEF Kept
  <2>4. Refs(r.s, IF r.ret = "ok" THEN [h EXCEPT ![u][e] = @ + 1] ELSE h)
    BY <1>2, GuiFetchKeeps, Zenon DEF Kept, References, Counts
  <2>5. ASSUME r.ret = "ok"
        PROVE  r.data = l[u][e] /\ r.data # NONE
    <3>1. s.entries[u] # NONE /\ r.data # NONE
      BY <1>2, <2>5, GuiFetchSlim, Zenon DEF Kept
    <3>2. s.entries[u].elem[e].size > 0
      BY <3>1, GarbageAssumption DEF Kept, SizesOK, Sized
    <3> QED  BY <1>2, <2>5, <3>1, <3>2, GuiFetchSlim, Zenon DEF Kept, Latest
  <2> QED  BY <2>1, <2>3, <2>4, <2>5, Zenon DEF Kept, Counts
<1> QED  BY <1>1, <1>2, Zenon


\* Between the two calls of write_backing_store() for u.
Half(s, l, h, u) ==
    /\ Basic(s) /\ BlocksOK(s) /\ DiscOK(s, l) /\ s.open /\ Refs(s, h)
    /\ SizesOK(s, u) /\ s.entries[u] # NONE

LEMMA OnHeap ==
    ASSUME NEW s, Basic(s), NEW h \in References, Refs(s, h), NEW u \in Urls, NEW e \in Elems
    PROVE  h[u][e] > 0 <=> s.entries[u] # NONE /\ s.entries[u].elem[e].heap
  BY DEF Basic, HeapOK, Refs, References

LEMMA FirstStore ==
    ASSUME CanFail = FALSE, NEW s, NEW l \in Latest, Kept(s, l), NEW h \in References,
           Counts(s, h), NEW u \in Urls, NEW data \in Stored, data.size = 1,
           NEW r \in GuiStore(s, u, "data", data)
    PROVE  /\ r.ret # "ok" => Kept(r.s, l) /\ Counts(r.s, h)
           /\ r.ret = "ok" =>
                /\ s.open /\ h[u]["data"] = 0
                /\ Half(r.s, [l EXCEPT ![u]["data"] = data], [h EXCEPT ![u]["data"] = 1], u)
<1>1. CASE ~s.open
  <2>1. \A x : \A q \in GuiStore(s, u, "data", x) : q.s = s /\ q.ret # "ok"
    BY <1>1, ClosedCalls
  <2>2. r.s = s /\ r.ret # "ok"
    BY <2>1
  <2> QED  BY <2>2
<1>2. CASE s.open
  <2>0. Basic(s) /\ BlocksOK(s) /\ DiscOK(s, l) /\ Refs(s, h) /\ data.size \in Nat /\ "data" \in Elems
    BY <1>2 DEF Kept, Counts, Elems
  <2>1. /\ Basic(r.s)
        /\ BlocksOK(s) => BlocksOK(r.s)
        /\ \A k \in [Urls -> [Elems -> Nat]] : Refs(s, k) /\ ~CanFail =>
              Refs(r.s, IF r.ret = "ok" THEN [k EXCEPT ![u]["data"] = 1] ELSE k)
        /\ \A k \in [Urls -> [Elems -> Stored \cup {NONE}]] :
              /\ DiscOK(s, k) /\ BlocksOK(s) /\ ~CanFail
              /\ data.size > 1 /\ s.entries[u] # NONE => s.entries[u].elem["data"].block = 0
              => DiscOK(r.s, IF r.ret = "ok" THEN [k EXCEPT ![u]["data"] = data] ELSE k)
    BY <1>2, <2>0, GuiStoreKeeps
  <2>2. /\ Refs(r.s, IF r.ret = "ok" THEN [h EXCEPT ![u]["data"] = 1] ELSE h)
        /\ DiscOK(r.s, IF r.ret = "ok" THEN [l EXCEPT ![u]["data"] = data] ELSE l)
    <3>1. h \in [Urls -> [Elems -> Nat]] /\ l \in [Urls -> [Elems -> Stored \cup {NONE}]]
      BY DEF References, Latest
    <3>2. ~(data.size > 1) /\ ~CanFail
      OBVIOUS
    <3> QED  BY <2>0, <2>1, <3>1, <3>2, Zenon
  <2>3. /\ r.ret = "ok" <=> ~(s.entries[u] # NONE /\ s.entries[u].elem["data"].heap)
        /\ r.ret # "ok" => Slim(s, r.s)
        /\ r.ret = "ok" => Placed(s, r.s, u, "data", data.size)
    BY <1>2, <2>0, GuiStoreSlim
  <2>4. ASSUME r.ret # "ok" PROVE Kept(r.s, l) /\ Counts(r.s, h)
    <3>1. SizesOK(r.s, NONE)
      BY <2>3, <2>4, SlimSizes DEF Kept
    <3> QED  BY <2>0, <2>1, <2>2, <2>4, <3>1 DEF Kept, Counts
  <2>5. ASSUME r.ret = "ok"
        PROVE  /\ h[u]["data"] = 0
               /\ Half(r.s, [l EXCEPT ![u]["data"] = data], [h EXCEPT ![u]["data"] = 1], u)
    <3>1. h[u]["data"] = 0
      <4>1. ~(h[u]["data"] > 0)
        BY <2>0, <2>3, <2>5, OnHeap
      <4> QED  BY <2>0, <4>1 DEF References
    <3>2. SizesOK(r.s, u)
      <4>1. Sized(s.entries, NONE)
        BY DEF Kept, SizesOK
      <4>2. Sized(r.s.entries, u)
        BY <2>0, <2>3, <2>5, <4>1, GarbageAssumption DEF Sized, Placed
      <4> QED  BY <2>3, <2>5, <4>2 DEF Kept, SizesOK, Placed
    <3>3. r.s.open /\ r.s.entries[u] # NONE
      BY <1>2, <2>3, <2>5 DEF Placed
    <3> QED  BY <2>0, <2>1, <2>2, <2>5, <3>1, <3>2, <3>3 DEF Half
  <2> QED  BY <1>2, <2>4, <2>5
<1> QED  BY <1>1, <1>2

LEMMA SecondStore ==
    ASSUME CanFail = FALSE, NEW s, NEW l \in Latest, NEW h \in References, NEW u \in Urls,
           Half(s, l, h, u), h[u]["data"] = 1, h[u]["meta"] = 0,
           NEW data \in Stored, data.size = 1, NEW r \in GuiStore(s, u, "meta", data)
    PROVE  /\ r.ret = "ok" /\ Kept(r.s, [l EXCEPT ![u]["meta"] = data])
           /\ Counts(r.s, [h EXCEPT ![u]["meta"] = 1])
<1>0. /\ Basic(s) /\ BlocksOK(s) /\ DiscOK(s, l) /\ Refs(s, h) /\ data.size \in Nat
      /\ "meta" \in Elems /\ "data" \in Elems /\ s.open
  BY DEF Half, Elems
<1>1. /\ Basic(r.s)
      /\ BlocksOK(s) => BlocksOK(r.s)
      /\ \A k \in [Urls -> [Elems -> Nat]] : Refs(s, k) /\ ~CanFail =>
            Refs(r.s, IF r.ret = "ok" THEN [k EXCEPT ![u]["meta"] = 1] ELSE k)
      /\ \A k \in [Urls -> [Elems -> Stored \cup {NONE}]] :
            /\ DiscOK(s, k) /\ BlocksOK(s) /\ ~CanFail
            /\ data.size > 1 /\ s.entries[u] # NONE => s.entries[u].elem["meta"].block = 0
            => DiscOK(r.s, IF r.ret = "ok" THEN [k EXCEPT ![u]["meta"] = data] ELSE k)
  BY <1>0, GuiStoreKeeps
<1>2. /\ Refs(r.s, IF r.ret = "ok" THEN [h EXCEPT ![u]["meta"] = 1] ELSE h)
      /\ DiscOK(r.s, IF r.ret = "ok" THEN [l EXCEPT ![u]["meta"] = data] ELSE l)
  <2>1. h \in [Urls -> [Elems -> Nat]] /\ l \in [Urls -> [Elems -> Stored \cup {NONE}]]
    BY DEF References, Latest
  <2>2. ~(data.size > 1) /\ ~CanFail
    OBVIOUS
  <2> QED  BY <1>0, <1>1, <2>1, <2>2, Zenon
<1>3. /\ r.ret = "ok" <=> ~(s.entries[u] # NONE /\ s.entries[u].elem["meta"].heap)
      /\ r.ret # "ok" => Slim(s, r.s)
      /\ r.ret = "ok" => Placed(s, r.s, u, "meta", data.size)
  BY <1>0, GuiStoreSlim
<1>4. r.ret = "ok"
  <2>1. ~(h[u]["meta"] > 0)
    OBVIOUS
  <2> QED  BY <1>0, <1>3, <2>1, OnHeap
<1>5. SizesOK(r.s, NONE)
  <2>1. s.entries[u] # NONE /\ s.entries[u].elem["data"].heap
    <3>1. h[u]["data"] > 0
      OBVIOUS
    <3> QED  BY <1>0, <3>1, OnHeap
  <2>2. r.s.entries[u].elem["data"].size = s.entries[u].elem["data"].size
    BY <1>0, <1>3, <1>4, <2>1 DEF Placed
  <2>3. Sized(s.entries, u)
    BY DEF Half, SizesOK
  <2>4. s.entries[u].elem["data"].size > 0
    BY <1>0, <2>1, <2>3 DEF Sized
  <2>5. Sized(r.s.entries, NONE)
    <3> SUFFICES ASSUME NEW w \in Urls, NEW e \in Elems, r.s.entries[w] # NONE
                 PROVE  r.s.entries[w].elem[e].size > 0
      BY DEF Sized
    <3>1. CASE w # u
      BY <1>3, <1>4, <2>3, <3>1 DEF Sized, Placed
    <3>2. CASE w = u /\ e = "data"
      BY <2>2, <2>4, <3>2
    <3>3. CASE w = u /\ e = "meta"
      BY <1>3, <1>4, <3>3 DEF Placed
    <3> QED  BY <3>1, <3>2, <3>3 DEF Elems
  <2> QED  BY <1>3, <1>4, <2>5 DEF Half, SizesOK, Placed
<1> QED  BY <1>0, <1>1, <1>2, <1>4, <1>5 DEF Kept, Counts


-----------------------------------------------------------------------------
(* One object changes.                                                      *)

LEMMA ObjectFields ==
    ASSUME NEW obj, NEW T, ObjectsOK(obj, T), NEW o \in Objects
    PROVE  obj[o] \in ObjectRec /\ Sane(obj[o], T)
  BY DEF ObjectsOK, Maps

LEMMA RecTypes ==
    ASSUME NEW x \in ObjectRec
    PROVE  /\ x.req_time \in Nat /\ x.ver \in Nat /\ x.candidate_count \in Nat
           /\ x.users \in BOOLEAN /\ x.fetching \in BOOLEAN /\ x.disc \in BOOLEAN
           /\ x.expired \in BOOLEAN /\ x.no_cache = FALSE /\ x.source_len \in Nat
<1>1. 0 .. MaxTime \subseteq Nat
  BY CacheAssumption
<1> HIDE DEF Sources
<1> QED  BY <1>1 DEF ObjectRec

LEMMA NoObjectFacts ==
    ASSUME NEW T
    PROVE  NoObject \in ObjectRec /\ Sane(NoObject, T) /\ NoObject.url = NONE
  BY CacheAssumption, GarbageAssumption DEF NoObject, ObjectRec, Sane, Ghost

LEMMA ObjectChanged ==
    ASSUME NEW obj, NEW T, ObjectsOK(obj, T), NEW o \in Objects, NEW y \in ObjectRec, Sane(y, T),
           \A p \in Objects : p # o => Apart(y, obj[p]) /\ Apart(obj[p], y),
           y.candidate # NONE => y.candidate # o /\ Validates(y, obj[y.candidate]),
           \A p \in Objects : p # o /\ obj[p].candidate = o => Validates(obj[p], y)
    PROVE  ObjectsOK([obj EXCEPT ![o] = y], T)
<1> DEFINE new == [obj EXCEPT ![o] = y]
<1>0. obj \in [Objects -> ObjectRec]
  BY DEF ObjectsOK, Maps
<1>1. new \in Maps
  BY <1>0 DEF Maps
<1>2. \A p \in Objects : new[p] = IF p = o THEN y ELSE obj[p]
  BY <1>0
<1> HIDE DEF new
<1>3. \A p \in Objects : Sane(new[p], T)
  BY <1>2, Zenon DEF ObjectsOK
<1>4. \A p, q \in Objects : p # q => Apart(new[p], new[q])
  BY <1>2, Zenon DEF ObjectsOK
<1>5. ASSUME NEW p \in Objects, new[p].candidate # NONE
      PROVE  Validates(new[p], new[new[p].candidate])
  <2>1. CASE p = o
    <3>1. y.candidate \in Objects
      BY <1>2, <1>5, <2>1 DEF ObjectRec
    <3> QED  BY <1>2, <1>5, <2>1, <3>1, Zenon
  <2>2. CASE p # o
    <3>1. obj[p].candidate \in Objects
      BY <1>0, <1>2, <1>5, <2>2 DEF ObjectRec
    <3>2. Validates(obj[p], obj[obj[p].candidate])
      BY <1>2, <1>5, <2>2, Zenon DEF ObjectsOK
    <3> QED  BY <1>2, <2>2, <3>1, <3>2, Zenon
  <2> QED  BY <2>1, <2>2
<1>6. ObjectsOK(new, T)
  BY <1>1, <1>3, <1>4, <1>5, Zenon DEF ObjectsOK
<1> QED  BY <1>6 DEF new

\* The candidate of an object is another.
LEMMA CandidateFacts ==
    ASSUME NEW obj, NEW T, ObjectsOK(obj, T), NEW o \in Objects, obj[o].candidate # NONE
    PROVE  /\ obj[o].candidate \in Objects /\ obj[o].candidate # o /\ obj[o].fetching
           /\ Validates(obj[o], obj[obj[o].candidate])
<1>1. obj[o] \in ObjectRec /\ Sane(obj[o], T)
  BY ObjectFields
<1>2. obj[o].candidate \in Objects /\ obj[o].fetching
  BY <1>1 DEF ObjectRec, Sane
<1>3. Validates(obj[o], obj[obj[o].candidate])
  BY DEF ObjectsOK
<1> QED  BY <1>2, <1>3 DEF Validates

LEMMA UrlOf ==
    ASSUME NEW x \in ObjectRec, NEW T, Sane(x, T), x # NoObject
    PROVE  x.url \in Urls
  BY DEF Sane, ObjectRec

\* An object that is fetched is the only one of its URL with lifetime left, and the last.
LEMMA FetchingAlone ==
    ASSUME NEW obj, NEW T, ObjectsOK(obj, T), NEW o \in Objects, obj[o].fetching
    PROVE  /\ obj[o].url \in Urls /\ obj[o].req_time > 0
           /\ \A p \in Objects : obj[p].candidate # o
           /\ \A p \in Objects : p # o /\ obj[p].url = obj[o].url =>
                 /\ obj[p].expired /\ obj[p].req_time < obj[o].req_time /\ ~obj[p].fetching
                 /\ obj[p].candidate = NONE
                 /\ obj[p].disc => obj[p].source # NONE
<1>1. obj[o] \in ObjectRec /\ Sane(obj[o], T)
  BY ObjectFields
<1>2. obj[o].url \in Urls
  <2>1. obj[o] # NoObject
    BY DEF NoObject
  <2> QED  BY <1>1, <2>1, UrlOf
<1>3. obj[o].req_time > 0 /\ ~obj[o].expired
  <2>1. obj[o].req_time \in Nat
    BY <1>1, RecTypes, Zenon
  <2> QED  BY <1>1, <1>2, <2>1, GarbageAssumption DEF Sane, Ghost
<1>4. ASSUME NEW p \in Objects
      PROVE  obj[p].candidate # o
  <2>1. CASE obj[p].candidate = NONE
    BY <2>1, CacheAssumption
  <2>2. CASE obj[p].candidate # NONE
    BY <2>2, CandidateFacts DEF Validates
  <2> QED  BY <2>1, <2>2
<1>5. ASSUME NEW p \in Objects, p # o, obj[p].url = obj[o].url
      PROVE  /\ obj[p].expired /\ obj[p].req_time < obj[o].req_time /\ ~obj[p].fetching
             /\ obj[p].candidate = NONE
             /\ obj[p].disc => obj[p].source # NONE
  <2>1. obj[p] \in ObjectRec /\ Sane(obj[p], T)
    BY ObjectFields
  <2>2. Apart(obj[o], obj[p]) /\ Apart(obj[p], obj[o])
    BY <1>5 DEF ObjectsOK
  <2>3. obj[p].expired /\ obj[p].req_time < obj[o].req_time
    BY <1>2, <1>3, <1>5, <2>2, GarbageAssumption DEF Apart
  <2>4. ~obj[p].fetching /\ obj[p].candidate = NONE
    BY <2>1, <2>3 DEF Sane
  <2>5. obj[p].req_time \in Nat /\ obj[o].req_time \in Nat
    BY <1>1, <2>1, RecTypes, Zenon
  <2>6. obj[p].disc => obj[p].source # NONE
    BY <1>2, <1>5, <2>2, <2>3, <2>5, GarbageAssumption DEF Apart
  <2> QED  BY <2>3, <2>4, <2>6
<1> QED  BY <1>2, <1>3, <1>4, <1>5

LEMMA LaterTimes ==
    ASSUME NEW obj, NEW T \in Times, NEW U \in Times, \A u \in Urls : T[u] <= U[u],
           ObjectsOK(obj, T)
    PROVE  ObjectsOK(obj, U)
<1>1. ASSUME NEW o \in Objects
      PROVE  Sane(obj[o], U)
  <2>1. obj[o] \in ObjectRec /\ Sane(obj[o], T)
    BY ObjectFields
  <2>2. obj[o].url # NONE => obj[o].req_time <= U[obj[o].url]
    <3>1. obj[o].url # NONE => obj[o].url \in Urls /\ obj[o].req_time <= T[obj[o].url]
      BY <2>1 DEF ObjectRec, Sane
    <3>2. obj[o].req_time \in Nat
      BY <2>1, RecTypes, Zenon
    <3> QED  BY <3>1, <3>2, CacheAssumption DEF Times
  <2> QED  BY <2>1, <2>2, Zenon DEF Sane
<1> QED  BY <1>1, Zenon DEF ObjectsOK

LEMMA LaterLatest ==
    ASSUME NEW l, NEW T \in Times, NEW U \in Times, \A u \in Urls : T[u] <= U[u], LatestOK(l, T)
    PROVE  LatestOK(l, U)
<1>1. \A u \in Urls : \A t \in 1 .. T[u] : t \in 1 .. U[u]
  BY DEF Times
<1> QED  BY <1>1, Zenon DEF LatestOK


-----------------------------------------------------------------------------
(* The references that objects own.                                         *)

Owns(x, u) == x.url = u /\ x.disc /\ x.source # NONE
Owned1(obj, u) == \E o \in Objects : Owns(obj[o], u)

LEMMA HeldFacts ==
    ASSUME NEW obj
    PROVE  /\ Held(obj) \in References
           /\ \A u \in Urls : /\ Held(obj)[u]["data"] = IF Owned1(obj, u) THEN 1 ELSE 0
                              /\ Held(obj)[u]["meta"] = 0
<1>1. \A u \in Urls, e \in Elems : Held(obj)[u][e] = IF e = "data" /\ Owned1(obj, u) THEN 1 ELSE 0
  BY DEF Held, Owned1, Owns
<1>2. Held(obj) \in References
  BY DEF Held, References
<1> QED  BY <1>1, <1>2 DEF Elems

LEMMA CountsSame ==
    ASSUME NEW s, NEW h, NEW g, Counts(s, h), \A u \in Urls, e \in Elems : g[u][e] = h[u][e]
    PROVE  Counts(s, g)
  BY DEF Counts, Refs

LEMMA CountsNew ==
    ASSUME NEW s, NEW h, Counts(s, h), NEW new,
           \A u \in Urls : h[u]["meta"] = 0 /\ h[u]["data"] = IF Owned1(new, u) THEN 1 ELSE 0
    PROVE  Counts(s, Held(new))
<1>1. \A u \in Urls, e \in Elems : Held(new)[u][e] = h[u][e]
  BY HeldFacts DEF Elems
<1> QED  BY <1>1 DEF Counts, Refs

\* Who owns data when an object changes.
LEMMA OwnedOnce ==
    ASSUME NEW obj, NEW T, ObjectsOK(obj, T), NEW o \in Objects, NEW u \in Urls, Owns(obj[o], u),
           NEW p \in Objects, p # o
    PROVE  ~Owns(obj[p], u)
<1>1. Apart(obj[o], obj[p])
  BY DEF ObjectsOK
<1> QED  BY <1>1, GarbageAssumption DEF Apart, Owns

LEMMA OwnedChanged ==
    ASSUME NEW obj, NEW T, ObjectsOK(obj, T), NEW o \in Objects, NEW y, NEW u \in Urls, NEW new,
           new = [obj EXCEPT ![o] = y]
    PROVE  Owned1(new, u) <=> Owns(y, u) \/ \E p \in Objects : p # o /\ Owns(obj[p], u)
<1>1. \A p \in Objects : new[p] = IF p = o THEN y ELSE obj[p]
  BY DEF ObjectsOK, Maps
<1> QED  BY <1>1 DEF Owned1

LEMMA OwnedLike ==
    ASSUME NEW obj, NEW new,
           \A o \in Objects, u \in Urls : Owns(new[o], u) <=> Owns(obj[o], u)
    PROVE  \A s : Counts(s, Held(obj)) => Counts(s, Held(new))
<1>1. \A u \in Urls : Owned1(new, u) <=> Owned1(obj, u)
  BY Zenon DEF Owned1
<1>2. \A u \in Urls : Held(obj)[u]["meta"] = 0 /\ Held(obj)[u]["data"] = IF Owned1(new, u) THEN 1 ELSE 0
  BY <1>1, HeldFacts
<1> QED  BY <1>2, CountsNew, Zenon

-----------------------------------------------------------------------------
(* Objects that go.                                                         *)

LEMMA StoreSame ==
    ASSUME NEW s, NEW obj \in Maps, NEW T, NEW l, StoreOK(s, obj, T, l), NEW o \in Objects, NEW y,
           y.disc => obj[o].disc /\ y.url = obj[o].url /\ y.ver = obj[o].ver,
           \A u \in Urls : Owns(y, u) <=> Owns(obj[o], u)
    PROVE  StoreOK(s, [obj EXCEPT ![o] = y], T, l)
<1> DEFINE new == [obj EXCEPT ![o] = y]
<1>1. \A p \in Objects : new[p] = IF p = o THEN y ELSE obj[p]
  BY DEF Maps
<1> HIDE DEF new
<1>2. Backs(l, new)
  BY <1>1 DEF StoreOK, Backs
<1>3. Counts(s, Held(new))
  <2>1. \A p \in Objects, u \in Urls : Owns(new[p], u) <=> Owns(obj[p], u)
    BY <1>1
  <2> QED  BY <2>1, OwnedLike, Zenon DEF StoreOK
<1>4. StoreOK(s, new, T, l)
  BY <1>2, <1>3, Zenon DEF StoreOK
<1> QED  BY <1>4 DEF new

\* The data of an object on the disc is released.
LEMMA ReleasedStore ==
    ASSUME NEW s, NEW obj, NEW T, NEW l, ObjectsOK(obj, T), StoreOK(s, obj, T, l), NEW o \in Objects,
           obj[o].disc, NEW y, y.disc => y.url = obj[o].url /\ y.ver = obj[o].ver,
           \A u \in Urls : ~Owns(y, u), NEW r, r = After(GuiRelease(s, obj[o].url, "data"))
    PROVE  StoreOK(r, [obj EXCEPT ![o] = y], T, l)
<1> DEFINE new == [obj EXCEPT ![o] = y]
           h == Held(obj)
           x == obj[o]
<1>1. \A p \in Objects : new[p] = IF p = o THEN y ELSE obj[p]
  BY DEF ObjectsOK, Maps
<1>2. Backs(l, new)
  <2> HIDE DEF new
  <2> QED  BY <1>1 DEF StoreOK, Backs
<1>3. \A u \in Urls : Owned1(new, u) <=> \E p \in Objects : p # o /\ Owns(obj[p], u)
  BY OwnedChanged, Zenon
<1>4. Kept(s, l) /\ Counts(s, h) /\ LatestOK(l, T) /\ h \in References
  BY HeldFacts, Zenon DEF StoreOK
<1>5. x.url \in Urls
  <2>1. x \in ObjectRec /\ Sane(x, T) /\ x # NoObject
    BY ObjectFields DEF NoObject
  <2> QED  BY <2>1, UrlOf
<1> DEFINE g == [h EXCEPT ![x.url]["data"] = IF @ = 0 THEN 0 ELSE @ - 1]
<1>6. Kept(r, l) /\ Counts(r, g)
  <2>1. "data" \in Elems
    BY DEF Elems
  <2> QED  BY <1>4, <1>5, <2>1, ReleaseKeeps
<1>7. ~Owned1(new, x.url)
  <2>1. \A p \in Objects : p # o => ~Owns(obj[p], x.url)
    <3> SUFFICES ASSUME NEW p \in Objects, p # o, Owns(obj[p], x.url) PROVE FALSE
      OBVIOUS
    <3>1. Apart(obj[o], obj[p])
      BY DEF ObjectsOK
    <3> QED  BY <1>5, <3>1, GarbageAssumption DEF Apart, Owns
  <2> HIDE DEF new, x
  <2> QED  BY <1>3, <1>5, <2>1, Zenon
<1>8. \A u \in Urls : u # x.url => (Owned1(new, u) <=> Owned1(obj, u))
  <2>1. \A u \in Urls : u # x.url => ~Owns(obj[o], u)
    BY DEF Owns
  <2> HIDE DEF new, x
  <2> QED  BY <1>3, <2>1, Zenon DEF Owned1
<1>9. \A u \in Urls : g[u]["meta"] = 0 /\ g[u]["data"] = IF Owned1(new, u) THEN 1 ELSE 0
  <2> HIDE DEF new, x
  <2>1. \A u \in Urls : h[u]["data"] = (IF Owned1(obj, u) THEN 1 ELSE 0) /\ h[u]["meta"] = 0
    BY HeldFacts, Zenon
  <2>2. h[x.url]["data"] \in {0, 1}
    BY <1>5, <2>1
  <2> HIDE DEF h
  <2> QED  BY <1>4, <1>5, <1>7, <1>8, <2>1, <2>2 DEF References, Elems
<1>10. Counts(r, Held(new))
  <2> HIDE DEF new, g
  <2> QED  BY <1>6, <1>9, CountsNew, Zenon
<1> QED  BY <1>2, <1>4, <1>6, <1>10, Zenon DEF StoreOK

LEMMA DestroyFields ==
    ASSUME NEW c, NEW o
    PROVE  /\ IsCache(Destroy(c, o))
           /\ Destroy(c, o).object = [c.object EXCEPT ![o] = NoObject]
           /\ Destroy(c, o).list = RemoveFirst(c.list, o)
           /\ Destroy(c, o).store = IF c.object[o].source # NONE /\ c.object[o].disc
                                    THEN After(GuiRelease(c.store, c.object[o].url, "data"))
                                    ELSE c.store
  BY DEF Destroy, IsCache

LEMMA DestroyStore ==
    ASSUME NEW s, NEW obj, NEW T, NEW l, ObjectsOK(obj, T), StoreOK(s, obj, T, l), NEW o \in Objects,
           NEW r, r = IF obj[o].source # NONE /\ obj[o].disc
                      THEN After(GuiRelease(s, obj[o].url, "data")) ELSE s
    PROVE  StoreOK(r, [obj EXCEPT ![o] = NoObject], T, l)
<1>1. obj \in Maps /\ ~NoObject.disc /\ \A u \in Urls : ~Owns(NoObject, u)
  BY DEF ObjectsOK, NoObject, Owns
<1>2. CASE obj[o].source # NONE /\ obj[o].disc
  BY <1>1, <1>2, ReleasedStore
<1>3. CASE ~(obj[o].source # NONE /\ obj[o].disc)
  <2>1. \A u \in Urls : ~Owns(obj[o], u)
    BY <1>3 DEF Owns
  <2> QED  BY <1>1, <1>3, <2>1, StoreSame
<1> QED  BY <1>2, <1>3

LEMMA DestroyKeeps ==
    ASSUME NEW c, NEW T, Core(c, T), NEW o \in Objects, c.object[o].candidate_count = 0
    PROVE  Core(Destroy(c, o), T)
<1> DEFINE d == Destroy(c, o)
           new == [c.object EXCEPT ![o] = NoObject]
<1>1. ObjectsOK(c.object, T) /\ ListOK(c.list, c.object) /\ T \in Times
  BY DEF Core
<1>2. NoObject \in ObjectRec /\ Sane(NoObject, T) /\ NoObject.url = NONE /\ NoObject.candidate = NONE
  BY NoObjectFacts DEF NoObject
<1>3. ObjectsOK(new, T)
  <2>1. \A p \in Objects : p # o => Apart(NoObject, c.object[p]) /\ Apart(c.object[p], NoObject)
    BY <1>2 DEF Apart
  <2>2. ASSUME NEW p \in Objects, c.object[p].candidate = o
        PROVE  FALSE
    <3>1. c.object[p].candidate # NONE
      BY <2>2, CacheAssumption
    <3>2. Validates(c.object[p], c.object[o])
      BY <1>1, <2>2, <3>1, CandidateFacts
    <3> QED  BY <3>2 DEF Validates
  <2> QED  BY <1>1, <1>2, <2>1, <2>2, ObjectChanged, Zenon
<1>4. ListOK(RemoveFirst(c.list, o), new)
  BY <1>1, ListWithout, Zenon DEF ObjectsOK, Maps
<1>5. PICK l : StoreOK(c.store, c.object, T, l)
  BY DEF Core
<1>6. StoreOK(d.store, new, T, l)
  BY <1>1, <1>5, DestroyStore, DestroyFields, Zenon
<1>7. IsCache(d) /\ d.object = new /\ d.list = RemoveFirst(c.list, o)
  BY DestroyFields, Zenon
<1> HIDE DEF d, new
<1>8. Core(d, T)
  BY <1>1, <1>3, <1>4, <1>6, <1>7, Zenon DEF Core
<1> QED  BY <1>8 DEF d


-----------------------------------------------------------------------------
(* Objects that are written out.                                            *)

\* What is stored of an object.
LEMMA StoredOf ==
    ASSUME Sizes \subseteq {1}, NEW x \in ObjectRec, NEW T \in Times, Sane(x, T), x.source # NONE
    PROVE  /\ x.url \in Urls /\ 1 \in Sizes
           /\ x.source = Source(x.url, x.ver, 1) /\ x.source_len = 1
           /\ x.source \in Stored /\ x.source.size = 1 /\ x.source.ver = x.ver
           /\ \A t \in 0 .. MaxTime : /\ Metadata(x.url, x.ver, 1, t) \in Stored
                                      /\ Metadata(x.url, x.ver, 1, t).size = 1
<1>1. x.url \in Urls
  <2>1. x # NoObject
    BY DEF NoObject
  <2> QED  BY <2>1, UrlOf
<1>2. x.source \in Sources /\ x.ver \in 0 .. MaxTime
  BY DEF ObjectRec
<1>3. 1 \in Sizes
  BY <1>2 DEF Sources
<1>4. x.source = Source(x.url, x.ver, 1) /\ x.source_len = 1
  BY DEF Sane
<1>5. Sources \subseteq Stored /\ Headers \subseteq Stored
  BY CacheAssumption DEF Kinds
<1>6. \A t \in 0 .. MaxTime : Metadata(x.url, x.ver, 1, t) \in Headers
  BY <1>1, <1>2, <1>3 DEF Headers
<1> QED  BY <1>1, <1>2, <1>3, <1>4, <1>5, <1>6 DEF Source, Metadata

\* An outcome e of write_backing_store() for o, by those of its calls.
WroteOut(c, o, e) ==
    LET x == c.object[o]
        meta == Metadata(x.url, x.ver, x.source_len, x.req_time)
    IN /\ IsCache(e) /\ e.list = c.list
       /\ \E d \in GuiStore(c.store, x.url, "data", x.source) :
            \/ d.ret # "ok" /\ e.store = d.s /\ e.object = c.object
            \/ /\ d.ret = "ok"
               /\ \E m \in GuiStore(d.s, x.url, "meta", meta) :
                    m.ret = "ok" => /\ e.store = After(GuiRelease(m.s, x.url, "meta"))
                                    /\ e.object = [c.object EXCEPT ![o].disc = TRUE]

LEMMA WriteOutCases ==
    ASSUME NEW c, IsCache(c), NEW o, NEW e \in WriteOut(c, o)
    PROVE  WroteOut(c, o, e)
<1> DEFINE x == c.object[o]
           meta == Metadata(x.url, x.ver, x.source_len, x.req_time)
           outcomes(d) ==
             IF d.ret # "ok" THEN {[c EXCEPT !.store = d.s]}
             ELSE {LET left == After(GuiRelease(m.s, x.url, "meta"))
                   IN IF m.ret = "ok" THEN [c EXCEPT !.store = left, !.object[o].disc = TRUE]
                      ELSE [c EXCEPT !.store = After(GuiInvalidate(left, x.url))]
                   : m \in GuiStore(d.s, x.url, "meta", meta)}
<1>0. WriteOut(c, o) = UNION {outcomes(d) : d \in GuiStore(c.store, x.url, "data", x.source)}
  BY DEF WriteOut
<1> DEFINE result ==
             \E d \in GuiStore(c.store, x.url, "data", x.source) :
                \/ d.ret # "ok" /\ e.store = d.s /\ e.object = c.object
                \/ /\ d.ret = "ok"
                   /\ \E m \in GuiStore(d.s, x.url, "meta", meta) :
                        m.ret = "ok" => /\ e.store = After(GuiRelease(m.s, x.url, "meta"))
                                        /\ e.object = [c.object EXCEPT ![o].disc = TRUE]
<1> HIDE DEF outcomes, x, meta
<1>1. PICK d \in GuiStore(c.store, x.url, "data", x.source) : e \in outcomes(d)
  BY <1>0
<1> USE DEF outcomes
<1>2. ASSUME d.ret # "ok" PROVE IsCache(e) /\ e.list = c.list /\ result
  <2>1. e = [c EXCEPT !.store = d.s]
    BY <1>1, <1>2
  <2>2. IsCache(e) /\ e.list = c.list /\ e.store = d.s /\ e.object = c.object
    BY <2>1 DEF IsCache
  <2> QED  BY <1>2, <2>2
<1>3. ASSUME d.ret = "ok" PROVE IsCache(e) /\ e.list = c.list /\ result
  <2>1. PICK m \in GuiStore(d.s, x.url, "meta", meta) :
          e = LET left == After(GuiRelease(m.s, x.url, "meta"))
              IN IF m.ret = "ok" THEN [c EXCEPT !.store = left, !.object[o].disc = TRUE]
                 ELSE [c EXCEPT !.store = After(GuiInvalidate(left, x.url))]
    BY <1>1, <1>3
  <2>2. CASE m.ret = "ok"
    <3>1. e = [c EXCEPT !.store = After(GuiRelease(m.s, x.url, "meta")), !.object[o].disc = TRUE]
      BY <2>1, <2>2
    <3>2. /\ IsCache(e) /\ e.list = c.list /\ e.store = After(GuiRelease(m.s, x.url, "meta"))
          /\ e.object = [c.object EXCEPT ![o].disc = TRUE]
      BY <3>1 DEF IsCache
    <3> QED  BY <1>3, <3>2
  <2>3. CASE m.ret # "ok"
    <3>1. e = [c EXCEPT !.store = After(GuiInvalidate(After(GuiRelease(m.s, x.url, "meta")), x.url))]
      BY <2>1, <2>3
    <3>2. IsCache(e) /\ e.list = c.list
      BY <3>1 DEF IsCache
    <3> QED  BY <1>3, <2>3, <3>2
  <2> QED  BY <2>2, <2>3
<1>4. IsCache(e) /\ e.list = c.list /\ result
  BY <1>2, <1>3
<1> QED  BY <1>4 DEF x, meta, WroteOut


\* With the data on the disc no other object of the URL is.
LEMMA WrittenAlone ==
    ASSUME NEW obj, NEW T, ObjectsOK(obj, T), NEW o \in Objects, obj[o].source # NONE, ~obj[o].expired,
           obj[o].url \in Urls, ~Owned1(obj, obj[o].url), NEW p \in Objects, p # o,
           obj[p].url = obj[o].url
    PROVE  ~obj[p].disc
<1>1. Apart(obj[o], obj[p]) /\ Apart(obj[p], obj[o])
  BY DEF ObjectsOK
<1>2. obj[p].req_time \in Nat /\ obj[o].req_time \in Nat
  BY ObjectFields, RecTypes, Zenon
<1>3. obj[p].req_time < obj[o].req_time
  BY <1>1, GarbageAssumption DEF Apart
<1>4. ~(obj[p].disc /\ obj[p].source = NONE)
  BY <1>1, <1>2, <1>3, GarbageAssumption DEF Apart
<1>5. ~(obj[p].disc /\ obj[p].source # NONE)
  BY DEF Owned1, Owns
<1> QED  BY <1>4, <1>5

LEMMA WrittenObjects ==
    ASSUME NEW obj, NEW T, ObjectsOK(obj, T), NEW o \in Objects, Persistable(obj[o]),
           obj[o].url \in Urls, ~Owned1(obj, obj[o].url)
    PROVE  ObjectsOK([obj EXCEPT ![o].disc = TRUE], T)
<1> DEFINE x == obj[o]
           y == [x EXCEPT !.disc = TRUE]
<1>1. x \in ObjectRec /\ Sane(x, T)
  BY ObjectFields
<1>2. x.candidate_count = 0 /\ ~x.fetching /\ ~x.disc /\ ~x.expired /\ x.source # NONE
  BY DEF Persistable
<1>3. \A p \in Objects : p # o /\ obj[p].url = x.url => ~obj[p].disc
  BY <1>2, WrittenAlone
<1>4. [obj EXCEPT ![o].disc = TRUE] = [obj EXCEPT ![o] = y]
  BY DEF ObjectsOK, Maps
<1>5. /\ y \in ObjectRec /\ y.disc /\ y.url = x.url /\ y.candidate = x.candidate
      /\ y.source = x.source /\ y.expired = x.expired /\ y.req_time = x.req_time
      /\ y.fetching = x.fetching /\ y.candidate_count = x.candidate_count
      /\ y.users = x.users /\ y.ver = x.ver /\ y.source_len = x.source_len
  BY <1>1 DEF ObjectRec
<1> HIDE DEF y
<1>6. Sane(y, T)
  <2>1. y.url # NONE
    BY <1>5, GarbageAssumption
  <2>2. ~Ghost(y) /\ ~Ghost(x)
    BY <1>2, <1>5 DEF Ghost
  <2> QED  BY <1>1, <1>2, <1>5, <2>1, <2>2 DEF Sane
<1>7. ASSUME NEW p \in Objects, p # o
      PROVE  Apart(y, obj[p]) /\ Apart(obj[p], y)
  <2>1. Apart(x, obj[p]) /\ Apart(obj[p], x)
    BY <1>7 DEF ObjectsOK
  <2> QED  BY <1>2, <1>3, <1>5, <1>7, <2>1 DEF Apart
<1>8. y.candidate = NONE
  BY <1>1, <1>2, <1>5 DEF Sane
<1>9. ASSUME NEW p \in Objects, obj[p].candidate = o
      PROVE  FALSE
  <2>1. obj[p].candidate # NONE
    BY <1>9, CacheAssumption
  <2>2. Validates(obj[p], obj[o])
    BY <1>9, <2>1, CandidateFacts
  <2> QED  BY <1>2, <2>2 DEF Validates
<1>10. ObjectsOK([obj EXCEPT ![o] = y], T)
  <2>1. \A p \in Objects : p # o /\ obj[p].candidate = o => Validates(obj[p], y)
    BY <1>9
  <2>2. \A p \in Objects : p # o => Apart(y, obj[p]) /\ Apart(obj[p], y)
    BY <1>7
  <2>3. y \in ObjectRec
    BY <1>5
  <2> QED  BY <1>6, <1>8, <2>1, <2>2, <2>3, ObjectChanged
<1> QED  BY <1>4, <1>10

NoneStale(obj) == \A o \in Objects : ~Stale(obj[o])

Alike(obj, new) ==
    \A o \in Objects : new[o].url = obj[o].url /\ (Ghost(new[o]) <=> Ghost(obj[o]))
                       /\ (Stale(new[o]) <=> Stale(obj[o]))

LEMMA AlikeWritten ==
    ASSUME NEW obj \in Maps, NEW o \in Objects, Persistable(obj[o])
    PROVE  Alike(obj, [obj EXCEPT ![o].disc = TRUE])
<1> DEFINE new == [obj EXCEPT ![o].disc = TRUE]
<1>1. \A p \in Objects : p # o => new[p] = obj[p]
  BY DEF Maps
<1>2. new[o] = [obj[o] EXCEPT !.disc = TRUE] /\ obj[o] \in ObjectRec
  BY DEF Maps
<1> HIDE DEF new
<1>3. /\ new[o].url = obj[o].url /\ new[o].source = obj[o].source /\ new[o].expired = obj[o].expired
      /\ new[o].users = obj[o].users /\ new[o].fetching = obj[o].fetching
      /\ new[o].candidate_count = obj[o].candidate_count
  BY <1>2 DEF ObjectRec
<1>4. obj[o].source # NONE
  BY DEF Persistable
<1>5. Alike(obj, new)
  BY <1>1, <1>3, <1>4, Zenon DEF Alike, Ghost, Stale, Unused
<1> QED  BY <1>5 DEF new

LEMMA AlikeTrans ==
    ASSUME NEW a, NEW b, NEW c, Alike(a, b), Alike(b, c)
    PROVE  Alike(a, c)
  BY Zenon DEF Alike

LEMMA WriteOutKeeps ==
    ASSUME CanFail = FALSE, Sizes \subseteq {1}, NEW c, NEW T, Core(c, T), NEW o \in Objects,
           Persistable(c.object[o]), NEW e \in WriteOut(c, o)
    PROVE  Core(e, T) /\ e.list = c.list /\ Alike(c.object, e.object)
<1> DEFINE x == c.object[o]
           s == c.store
           h == Held(c.object)
           meta == Metadata(x.url, x.ver, x.source_len, x.req_time)
<1>1. IsCache(c) /\ T \in Times /\ ObjectsOK(c.object, T) /\ ListOK(c.list, c.object)
  BY DEF Core
<1>2. PICK l : StoreOK(s, c.object, T, l)
  BY DEF Core
<1>3. x \in ObjectRec /\ Sane(x, T)
  BY <1>1, ObjectFields
<1>4. x.candidate_count = 0 /\ ~x.fetching /\ ~x.disc /\ ~x.expired /\ x.source # NONE
  BY DEF Persistable
<1>5. /\ x.url \in Urls /\ 1 \in Sizes
      /\ x.source = Source(x.url, x.ver, 1) /\ x.source_len = 1
      /\ x.source \in Stored /\ x.source.size = 1 /\ x.source.ver = x.ver
      /\ \A t \in 0 .. MaxTime : /\ Metadata(x.url, x.ver, 1, t) \in Stored
                                 /\ Metadata(x.url, x.ver, 1, t).size = 1
  BY <1>1, <1>3, <1>4, StoredOf
<1>6. meta = Metadata(x.url, x.ver, 1, x.req_time) /\ x.req_time \in 0 .. MaxTime /\ x.ver \in 0 .. MaxTime
  BY <1>3, <1>5 DEF ObjectRec
<1>7. meta \in Stored /\ meta.size = 1
  BY <1>5, <1>6
<1>8. Kept(s, l) /\ Counts(s, h) /\ LatestOK(l, T) /\ h \in References /\ l \in Latest
  BY <1>2, HeldFacts, Zenon DEF StoreOK, LatestOK
<1>9. /\ IsCache(e) /\ e.list = c.list
      /\ \E d \in GuiStore(s, x.url, "data", x.source) :
           \/ d.ret # "ok" /\ e.store = d.s /\ e.object = c.object
           \/ /\ d.ret = "ok"
              /\ \E m \in GuiStore(d.s, x.url, "meta", meta) :
                   m.ret = "ok" => /\ e.store = After(GuiRelease(m.s, x.url, "meta"))
                                   /\ e.object = [c.object EXCEPT ![o].disc = TRUE]
  <2>1. WroteOut(c, o, e)
    BY <1>1, WriteOutCases, Zenon
  <2> QED  BY <2>1, Zenon DEF WroteOut
<1> HIDE DEF x, s, h, meta
<1>10. PICK d \in GuiStore(s, x.url, "data", x.source) :
         \/ d.ret # "ok" /\ e.store = d.s /\ e.object = c.object
         \/ /\ d.ret = "ok"
            /\ \E m \in GuiStore(d.s, x.url, "meta", meta) :
                 m.ret = "ok" => /\ e.store = After(GuiRelease(m.s, x.url, "meta"))
                                 /\ e.object = [c.object EXCEPT ![o].disc = TRUE]
  BY <1>9
<1>11. /\ d.ret # "ok" => Kept(d.s, l) /\ Counts(d.s, h)
       /\ d.ret = "ok" =>
            /\ s.open /\ h[x.url]["data"] = 0
            /\ Half(d.s, [l EXCEPT ![x.url]["data"] = x.source], [h EXCEPT ![x.url]["data"] = 1], x.url)
  BY <1>5, <1>8, FirstStore
<1>12. CASE d.ret # "ok"
  <2>1. e.object = c.object /\ Kept(e.store, l) /\ Counts(e.store, h)
    BY <1>10, <1>11, <1>12
  <2>2. StoreOK(e.store, e.object, T, l)
    BY <1>2, <2>1, Zenon DEF StoreOK, h, s
  <2>3. Alike(c.object, e.object)
    BY <2>1 DEF Alike
  <2> QED  BY <1>1, <1>9, <2>1, <2>2, <2>3, Zenon DEF Core
<1>13. CASE d.ret = "ok"
  <2> DEFINE l1 == [l EXCEPT ![x.url]["data"] = x.source]
             h1 == [h EXCEPT ![x.url]["data"] = 1]
             l2 == [l1 EXCEPT ![x.url]["meta"] = meta]
             h2 == [h1 EXCEPT ![x.url]["meta"] = 1]
             h3 == [h2 EXCEPT ![x.url]["meta"] = IF @ = 0 THEN 0 ELSE @ - 1]
             new == [c.object EXCEPT ![o].disc = TRUE]
  <2>1. PICK m \in GuiStore(d.s, x.url, "meta", meta) :
          m.ret = "ok" => e.store = After(GuiRelease(m.s, x.url, "meta")) /\ e.object = new
    BY <1>10, <1>13
  <2>2. l1 \in Latest /\ h1 \in References /\ h1[x.url]["data"] = 1 /\ h1[x.url]["meta"] = 0
    <3>1. h[x.url]["meta"] = 0
      BY <1>5, HeldFacts DEF h
    <3> QED  BY <1>5, <1>8, <3>1 DEF Latest, References, Elems
  <2>3. Half(d.s, l1, h1, x.url)
    BY <1>11, <1>13
  <2> HIDE DEF l1, h1, l2, h2, h3, new
  <2>4. m.ret = "ok" /\ Kept(m.s, l2) /\ Counts(m.s, h2)
    BY <1>5, <1>7, <2>2, <2>3, SecondStore DEF l2, h2
  <2>5. h2 \in References /\ "meta" \in Elems
    BY <2>2 DEF h2, References, Elems
  <2>6. Kept(e.store, l2) /\ Counts(e.store, h3)
    BY <1>5, <2>1, <2>4, <2>5, ReleaseKeeps DEF h3
  <2>7. ~Owned1(c.object, x.url)
    <3>1. h[x.url]["data"] = IF Owned1(c.object, x.url) THEN 1 ELSE 0
      BY <1>5, HeldFacts, Zenon DEF h
    <3> QED  BY <1>11, <1>13, <3>1
  <2>8. ObjectsOK(new, T)
    BY <1>1, <1>5, <2>7, WrittenObjects, Zenon DEF new, x
  <2>9. \A p \in Objects : /\ p # o => new[p] = c.object[p]
                           /\ p = o => /\ new[p].url = x.url /\ new[p].disc /\ new[p].ver = x.ver
                                       /\ new[p].source = x.source
    BY <1>1 DEF ObjectsOK, Maps, new, x, ObjectRec
  <2>10. ListOK(c.list, new)
    <3>1. \A p \in Objects : new[p].url # NONE <=> c.object[p].url # NONE
      BY <2>9 DEF x
    <3> QED  BY <1>1, <3>1, ListSame, Zenon
  <2>11. Counts(e.store, Held(new))
    <3>1. \A u \in Urls : Owned1(new, u) <=> u = x.url \/ Owned1(c.object, u)
      BY <1>4, <1>5, <2>9, GarbageAssumption DEF Owned1, Owns, x
    <3>2. \A u \in Urls : h[u]["data"] = (IF Owned1(c.object, u) THEN 1 ELSE 0) /\ h[u]["meta"] = 0
      BY HeldFacts, Zenon DEF h
    <3>3. \A u \in Urls : h3[u]["meta"] = 0 /\ h3[u]["data"] = IF Owned1(new, u) THEN 1 ELSE 0
      BY <1>5, <1>8, <3>1, <3>2 DEF h1, h2, h3, References, Elems
    <3> QED  BY <2>6, <3>3, CountsNew, Zenon
  <2>12. /\ l2 \in Latest
         /\ l2[x.url]["data"] = x.source /\ l2[x.url]["meta"] = meta
         /\ \A u \in Urls : u # x.url => l2[u] = l[u]
    BY <1>5, <1>7, <1>8 DEF l1, l2, Latest, Elems
  <2>13. LatestOK(l2, T)
    <3>1. x.req_time \in 1 .. T[x.url]
      <4>1. x.req_time # 0 /\ x.req_time <= T[x.url] /\ x.req_time \in Nat
        <5>1. ~Ghost(x) /\ x.url # NONE
          BY <1>4, <1>5, GarbageAssumption DEF Ghost
        <5>2. x.req_time \in Nat
          BY <1>3, RecTypes, Zenon
        <5> QED  BY <1>3, <5>1, <5>2 DEF Sane
      <4>2. T[x.url] \in Nat
        BY <1>1, <1>5, CacheAssumption DEF Times
      <4> QED  BY <4>1, <4>2
    <3>2. l2[x.url]["data"] = Source(x.url, x.ver, 1) /\ l2[x.url]["meta"] = Metadata(x.url, x.ver, 1, x.req_time)
      BY <1>5, <1>6, <2>12
    <3>3. ASSUME NEW u \in Urls, u # x.url
          PROVE  \/ l2[u]["data"] = NONE /\ l2[u]["meta"] = NONE
                 \/ 1 \in Sizes /\ \E v \in 0 .. MaxTime, t \in 1 .. T[u] :
                      l2[u]["data"] = Source(u, v, 1) /\ l2[u]["meta"] = Metadata(u, v, 1, t)
      <4>1. l2[u] = l[u]
        BY <2>12, <3>3
      <4> QED  BY <1>8, <4>1, Zenon DEF LatestOK
    <3> QED  BY <1>5, <1>6, <2>12, <3>1, <3>2, <3>3, ZenonT(60) DEF LatestOK
  <2>14. Backs(l2, new)
    <3> SUFFICES ASSUME NEW p \in Objects, new[p].disc
                 PROVE  l2[new[p].url]["data"] # NONE /\ l2[new[p].url]["data"].ver = new[p].ver
      BY DEF Backs
    <3>1. CASE p = o
      BY <1>4, <1>5, <2>9, <2>12, <3>1
    <3>2. CASE p # o
      <4>1. new[p] = c.object[p] /\ c.object[p].disc
        BY <2>9, <3>2
      <4>2. c.object[p].url # x.url
        BY <1>1, <1>4, <1>5, <2>7, <3>2, <4>1, WrittenAlone DEF x
      <4>3. c.object[p].url \in Urls
        <5>1. c.object[p] \in ObjectRec /\ Sane(c.object[p], T)
          BY <1>1, ObjectFields, Zenon
        <5>2. c.object[p] # NoObject
          BY <4>1 DEF NoObject
        <5> QED  BY <5>1, <5>2, UrlOf
      <4>4. l[c.object[p].url]["data"] # NONE /\ l[c.object[p].url]["data"].ver = c.object[p].ver
        BY <1>2, <4>1 DEF StoreOK, Backs
      <4> QED  BY <2>12, <4>1, <4>2, <4>3, <4>4
    <3> QED  BY <3>1, <3>2
  <2>15. StoreOK(e.store, new, T, l2)
    BY <2>6, <2>11, <2>13, <2>14, Zenon DEF StoreOK
  <2>16. e.object = new
    BY <2>1, <2>4
  <2>17. Core(e, T)
    BY <1>1, <1>9, <2>8, <2>10, <2>15, <2>16, Zenon DEF Core
  <2>18. Alike(c.object, new)
    BY <1>1, AlikeWritten, Zenon DEF new, ObjectsOK
  <2> QED  BY <1>9, <2>16, <2>17, <2>18
<1> QED  BY <1>12, <1>13


-----------------------------------------------------------------------------
(* llcache_persist().                                                       *)

LEMMA WriteTurnKeeps ==
    ASSUME CanFail = FALSE, Sizes \subseteq {1}, NEW c, NEW T, Core(c, T), NEW o \in Objects,
           NEW e \in WriteTurn({c}, o)
    PROVE  Core(e, T) /\ e.list = c.list /\ Alike(c.object, e.object)
<1>1. e \in IF Persistable(c.object[o]) THEN WriteOut(c, o) ELSE {c}
  BY Zenon DEF WriteTurn
<1>2. c.object \in Maps /\ Alike(c.object, c.object)
  BY DEF Core, ObjectsOK, Alike
<1>3. CASE Persistable(c.object[o])
  <2>1. e \in WriteOut(c, o)
    BY <1>1, <1>3
  <2> QED  BY <1>3, <2>1, WriteOutKeeps
<1>4. CASE ~Persistable(c.object[o])
  <2>1. e = c
    BY <1>1, <1>4
  <2> QED  BY <1>2, <2>1
<1> QED  BY <1>3, <1>4

LEMMA PersistedKeeps ==
    ASSUME CanFail = FALSE, Sizes \subseteq {1}, NEW c, NEW T, Core(c, T), NEW e \in Persisted(c)
    PROVE  Core(e, T) /\ e.list = c.list /\ Alike(c.object, e.object)
<1> DEFINE Good(d) == Core(d, T) /\ d.list = c.list /\ Alike(c.object, d.object)
           W == WrittenOut(c)
           S == {n \in Nat : n <= Len(c.list) => \A d \in W[n] : Good(d)}
<1>1. c.list \in Seq(Objects)
  BY DEF Core, ListOK
<1>2. Len(c.list) \in Nat /\ \A i \in 1 .. Len(c.list) : c.list[i] \in Objects
  BY <1>1
<1>3. W[0] = {c} /\ \A n \in Nat : n < Len(c.list) => W[n + 1] = WriteTurn(W[n], c.list[n + 1])
  BY <1>2, WrittenOutDef
<1> HIDE DEF W
<1>4. 0 \in S
  <2>1. Good(c)
    BY DEF Alike
  <2> HIDE DEF Good
  <2> QED  BY <1>3, <2>1
<1>5. ASSUME NEW n \in Nat, n \in S
      PROVE  n + 1 \in S
  <2> SUFFICES ASSUME n + 1 <= Len(c.list), NEW d \in W[n + 1]
               PROVE  Good(d)
    OBVIOUS
  <2>1. n < Len(c.list) /\ n <= Len(c.list) /\ n + 1 \in 1 .. Len(c.list)
    BY <1>2
  <2>2. d \in WriteTurn(W[n], c.list[n + 1])
    BY <1>3, <2>1
  <2>3. PICK q \in W[n] : d \in WriteTurn({q}, c.list[n + 1])
    BY <2>2, Zenon DEF WriteTurn
  <2>4. Good(q)
    BY <1>5, <2>1
  <2>5. Core(d, T) /\ d.list = q.list /\ Alike(q.object, d.object)
    BY <1>2, <2>1, <2>3, <2>4, WriteTurnKeeps
  <2>6. d.list = c.list
    BY <2>4, <2>5
  <2>7. Alike(c.object, d.object)
    BY <2>4, <2>5, AlikeTrans
  <2> QED  BY <2>5, <2>6, <2>7
<1>6. Nat \subseteq S
  <2> HIDE DEF S
  <2> QED  BY <1>4, <1>5, NatInductionSet
<1>7. PICK n \in 0 .. Len(c.list) : e \in W[n]
  BY Zenon DEF Persisted, W
<1>8. n \in S /\ n <= Len(c.list)
  BY <1>2, <1>6
<1> QED  BY <1>7, <1>8


-----------------------------------------------------------------------------
(* llcache_clean().                                                         *)

\* A walk is at the cache d.c; the stages after the first find no stale object.
IsWalk(d) == d = [c |-> d.c, size |-> d.size]
Walks(d, T) == IsWalk(d) /\ Core(d.c, T)

LEMMA StaleFacts ==
    /\ ~Stale(NoObject)
    /\ \A obj, T : ObjectsOK(obj, T) /\ NoneStale(obj) => GhostsOK(obj)
<1>1. ~Stale(NoObject)
  BY DEF Stale, NoObject
<1>2. ASSUME NEW obj, NEW T, ObjectsOK(obj, T), NoneStale(obj), NEW o \in Objects, Ghost(obj[o])
      PROVE  FALSE
  <2>1. Sane(obj[o], T)
    BY <1>2, ObjectFields
  <2> QED  BY <1>2, <2>1 DEF Sane, Ghost, NoneStale, Stale, Unused
<1>3. \A obj, T : ObjectsOK(obj, T) /\ NoneStale(obj) => GhostsOK(obj)
  BY <1>2, Zenon DEF GhostsOK
<1> QED  BY <1>1, <1>3

LEMMA DestroyedStale ==
    ASSUME NEW obj \in Maps, NEW o \in Objects
    PROVE  LET new == [obj EXCEPT ![o] = NoObject] IN
           /\ ~Stale(new[o])
           /\ \A p \in Objects : Stale(new[p]) => new[p] = obj[p]
<1> DEFINE new == [obj EXCEPT ![o] = NoObject]
<1>1. \A p \in Objects : new[p] = IF p = o THEN NoObject ELSE obj[p]
  BY DEF Maps
<1> HIDE DEF new
<1>2. ~Stale(new[o]) /\ \A p \in Objects : Stale(new[p]) => new[p] = obj[p]
  BY <1>1, StaleFacts, Zenon
<1> QED  BY <1>2 DEF new

LEMMA InvalidatedKeeps ==
    ASSUME NEW c, NEW T, Core(c, T), NEW u \in Urls, NEW d,
           d = [c EXCEPT !.store = After(GuiInvalidate(@, u))]
    PROVE  Core(d, T) /\ d.object = c.object /\ d.list = c.list
<1>1. IsCache(d) /\ d.object = c.object /\ d.list = c.list /\ d.store = After(GuiInvalidate(c.store, u))
  BY DEF Core, IsCache
<1>2. PICK l : StoreOK(c.store, c.object, T, l)
  BY DEF Core
<1>3. Kept(d.store, l) /\ Counts(d.store, Held(c.object))
  BY <1>1, <1>2, InvalidateKeeps, Zenon DEF StoreOK
<1>4. StoreOK(d.store, d.object, T, l)
  BY <1>1, <1>2, <1>3, Zenon DEF StoreOK
<1> QED  BY <1>1, <1>4, Zenon DEF Core

LEMMA DropStaleKeeps ==
    ASSUME NEW d, NEW T, Walks(d, T), NEW o \in Objects
    PROVE  /\ Walks(DropStale(d, o), T) /\ ~Stale(DropStale(d, o).c.object[o])
           /\ \A p \in Objects : Stale(DropStale(d, o).c.object[p]) =>
                 DropStale(d, o).c.object[p] = d.c.object[p]
<1> DEFINE x == d.c.object[o]
           left == IF x.disc THEN [d.c EXCEPT !.store = After(GuiInvalidate(@, x.url))] ELSE d.c
           e == DropStale(d, o)
<1>1. e = IF Stale(x) THEN [d EXCEPT !.c = Destroy(left, o)] ELSE d
  BY DEF DropStale
<1>2. CASE ~Stale(x)
  <2>1. e = d
    BY <1>1, <1>2
  <2> QED  BY <1>2, <2>1
<1>3. CASE Stale(x)
  <2>1. ObjectsOK(d.c.object, T)
    BY DEF Walks, Core
  <2>2. x \in ObjectRec /\ Sane(x, T)
    BY <2>1, ObjectFields
  <2>3. x.candidate_count = 0
    BY <1>3 DEF Stale, Unused
  <2>4. Core(left, T) /\ left.object = d.c.object
    <3>1. CASE x.disc
      <4>1. x.url \in Urls
        <5>1. x # NoObject
          BY <3>1 DEF NoObject
        <5> QED  BY <2>2, <5>1, UrlOf
      <4>2. left = [d.c EXCEPT !.store = After(GuiInvalidate(@, x.url))]
        BY <3>1
      <4> HIDE DEF left, x
      <4> QED  BY <4>1, <4>2, InvalidatedKeeps DEF Walks
    <3>2. CASE ~x.disc
      BY <3>2 DEF Walks
    <3> QED  BY <3>1, <3>2
  <2>5. e = [d EXCEPT !.c = Destroy(left, o)]
    BY <1>1, <1>3
  <2> HIDE DEF left, e
  <2>6. e.c = Destroy(left, o) /\ IsWalk(e)
    BY <2>5 DEF Walks, IsWalk
  <2>7. Core(Destroy(left, o), T)
    BY <2>3, <2>4, DestroyKeeps
  <2>8. e.c.object = [d.c.object EXCEPT ![o] = NoObject]
    BY <2>4, <2>6, DestroyFields
  <2>9. ~Stale(e.c.object[o]) /\ \A p \in Objects : Stale(e.c.object[p]) => e.c.object[p] = d.c.object[p]
    <3>1. d.c.object \in Maps
      BY <2>1 DEF ObjectsOK
    <3> DEFINE new == [d.c.object EXCEPT ![o] = NoObject]
    <3>2. ~Stale(new[o]) /\ \A p \in Objects : Stale(new[p]) => new[p] = d.c.object[p]
      BY <3>1, DestroyedStale, Zenon
    <3> HIDE DEF new
    <3>3. e.c.object = new
      BY <2>8 DEF new
    <3> QED  BY <3>2, <3>3
  <2> QED  BY <2>6, <2>7, <2>9 DEF Walks, e
<1> QED  BY <1>2, <1>3

LEMMA BackedObjects ==
    ASSUME NEW obj, NEW T, ObjectsOK(obj, T), NEW o \in Objects, Unused(obj[o]), obj[o].disc,
           ~Stale(obj[o]), NEW y, y = [obj[o] EXCEPT !.source = NONE]
    PROVE  ObjectsOK([obj EXCEPT ![o] = y], T) /\ y.disc /\ ~Stale(y)
           /\ y.url = obj[o].url /\ y.ver = obj[o].ver /\ y.source = NONE
<1> DEFINE x == obj[o]
<1>1. x \in ObjectRec /\ Sane(x, T)
  BY ObjectFields
<1>2. x.candidate_count = 0 /\ ~x.fetching /\ ~x.users /\ ~x.expired
  BY DEF Unused, Stale
<1>3. /\ y \in ObjectRec /\ y.disc /\ y.url = x.url /\ y.candidate = x.candidate
      /\ y.source = NONE /\ y.expired = x.expired /\ y.req_time = x.req_time
      /\ y.fetching = x.fetching /\ y.candidate_count = x.candidate_count
      /\ y.users = x.users /\ y.ver = x.ver
  BY <1>1 DEF ObjectRec
<1>4. x.url # NONE
  BY <1>1 DEF Sane, NoObject
<1>5. Sane(y, T)
  <2>1. ~Ghost(y) /\ ~Ghost(x)
    BY <1>3 DEF Ghost
  <2> QED  BY <1>1, <1>2, <1>3, <1>4, <2>1 DEF Sane
<1>6. \A p \in Objects : p # o => Apart(y, obj[p]) /\ Apart(obj[p], y)
  <2> SUFFICES ASSUME NEW p \in Objects, p # o
               PROVE  Apart(y, obj[p]) /\ Apart(obj[p], y)
    OBVIOUS
  <2>1. Apart(x, obj[p]) /\ Apart(obj[p], x)
    BY DEF ObjectsOK
  <2>2. ~x.expired /\ ~y.expired /\ x.disc /\ y.disc /\ y.url = x.url /\ y.req_time = x.req_time
    BY <1>2, <1>3
  <2> HIDE DEF x
  <2>3. Apart(y, obj[p])
    BY <2>1, <2>2 DEF Apart
  <2>4. Apart(obj[p], y)
    BY <2>1, <2>2 DEF Apart
  <2> QED  BY <2>3, <2>4
<1>7. y.candidate = NONE
  BY <1>1, <1>2, <1>3 DEF Sane
<1>8. \A p \in Objects : p # o /\ obj[p].candidate = o => Validates(obj[p], y)
  <2> SUFFICES ASSUME NEW p \in Objects, obj[p].candidate = o
               PROVE  FALSE
    OBVIOUS
  <2>1. obj[p].candidate # NONE
    BY CacheAssumption
  <2>2. Validates(obj[p], obj[o])
    BY <2>1, CandidateFacts
  <2> QED  BY <1>2, <2>2 DEF Validates
<1>9. ObjectsOK([obj EXCEPT ![o] = y], T)
  <2>1. y \in ObjectRec
    BY <1>3
  <2> HIDE DEF x
  <2> QED  BY <1>5, <1>6, <1>7, <1>8, <2>1, ObjectChanged
<1>10. ~Stale(y)
  BY <1>2, <1>3 DEF Stale
<1> QED  BY <1>3, <1>9, <1>10


\* A walk that finds no stale object.
FreshWalk(d, T) == Walks(d, T) /\ NoneStale(d.c.object)

LEMMA ReleaseBackedKeeps ==
    ASSUME NEW d, NEW T, FreshWalk(d, T), NEW lim, NEW o \in Objects
    PROVE  FreshWalk(ReleaseBacked(d, lim, o), T)
<1> DEFINE x == d.c.object[o]
           y == [x EXCEPT !.source = NONE]
           r == After(GuiRelease(d.c.store, x.url, "data"))
           e == ReleaseBacked(d, lim, o)
<1>1. CASE ~Over(d.size, lim) \/ ~Unused(x) \/ ~x.disc
  <2>1. e = d
    BY <1>1 DEF ReleaseBacked
  <2> QED  BY <2>1
<1>2. CASE ~(~Over(d.size, lim) \/ ~Unused(x) \/ ~x.disc)
  <2>1. Unused(x) /\ x.disc /\ ~Stale(x)
    BY <1>2 DEF FreshWalk, NoneStale
  <2>2. e = [c |-> [d.c EXCEPT !.store = After(GuiRelease(@, x.url, "data")), !.object[o].source = NONE],
             size |-> d.size - x.source_len]
    BY <1>2 DEF ReleaseBacked
  <2>3. IsCache(d.c) /\ ObjectsOK(d.c.object, T) /\ T \in Times /\ ListOK(d.c.list, d.c.object)
    BY DEF FreshWalk, Walks, Core
  <2> DEFINE new == [d.c.object EXCEPT ![o] = y]
  <2>4. /\ IsWalk(e) /\ IsCache(e.c) /\ e.c.list = d.c.list /\ e.c.store = r
        /\ e.c.object = new
    <3>1. IsWalk(e)
      BY <2>2 DEF IsWalk
    <3>2. e.c = [d.c EXCEPT !.store = r, !.object[o].source = NONE]
      BY <2>2
    <3> HIDE DEF e, r
    <3>3. IsCache(e.c) /\ e.c.list = d.c.list /\ e.c.store = r
      BY <2>3, <3>2 DEF IsCache
    <3>4. e.c.object = [d.c.object EXCEPT ![o].source = NONE]
      BY <2>3, <3>2 DEF IsCache
    <3>5. e.c.object = new
      BY <2>3, <3>4 DEF ObjectsOK, Maps
    <3> QED  BY <3>1, <3>3, <3>5
  <2>5. /\ ObjectsOK(new, T) /\ y.disc /\ ~Stale(y)
        /\ y.url = x.url /\ y.ver = x.ver /\ y.source = NONE
    BY <2>1, <2>3, BackedObjects
  <2>6. \A p \in Objects : new[p] = IF p = o THEN y ELSE d.c.object[p]
    BY <2>3 DEF ObjectsOK, Maps
  <2>7. PICK l : StoreOK(d.c.store, d.c.object, T, l)
    BY DEF FreshWalk, Walks, Core
  <2>8. StoreOK(r, new, T, l)
    <3>1. \A u \in Urls : ~Owns(y, u)
      BY <2>5 DEF Owns
    <3> HIDE DEF y
    <3> QED  BY <2>1, <2>3, <2>5, <2>7, <3>1, ReleasedStore
  <2> HIDE DEF new, y, e, r
  <2>9. NoneStale(new)
    BY <2>5, <2>6, Zenon DEF FreshWalk, NoneStale
  <2>10. ListOK(d.c.list, new)
    <3>1. \A p \in Objects : new[p].url # NONE <=> d.c.object[p].url # NONE
      BY <2>5, <2>6
    <3> QED  BY <2>3, <3>1, ListSame, Zenon
  <2>11. FreshWalk(e, T)
    BY <2>3, <2>4, <2>5, <2>8, <2>9, <2>10, Zenon DEF FreshWalk, Walks, Core
  <2> QED  BY <2>11 DEF e
<1> QED  BY <1>1, <1>2

LEMMA DroppedKeeps ==
    ASSUME NEW d, NEW T, FreshWalk(d, T), NEW lim, NEW disc, NEW o \in Objects
    PROVE  FreshWalk(Dropped(d, lim, disc, o), T)
<1> DEFINE x == d.c.object[o]
           size == IF disc THEN ObjectSize(x) ELSE x.source_len + 1
           e == Dropped(d, lim, disc, o)
           stays == ~Over(d.size, lim) \/ ~Unused(x) \/ x.disc # disc \/ (disc /\ x.source # NONE)
<1>1. e = IF stays THEN d ELSE [c |-> Destroy(d.c, o), size |-> d.size - size]
  BY Zenon DEF Dropped
<1>2. CASE stays
  <2>1. e = d
    BY <1>1, <1>2
  <2> QED  BY <2>1
<1>3. CASE ~stays
  <2>1. x.candidate_count = 0
    BY <1>3 DEF Unused
  <2>2. e = [c |-> Destroy(d.c, o), size |-> d.size - size]
    BY <1>1, <1>3
  <2>3. IsWalk(e) /\ e.c = Destroy(d.c, o)
    BY <2>2 DEF IsWalk
  <2>4. Core(d.c, T) /\ NoneStale(d.c.object) /\ d.c.object \in Maps
    BY DEF FreshWalk, Walks, Core, ObjectsOK
  <2>5. Core(e.c, T)
    BY <2>1, <2>3, <2>4, DestroyKeeps
  <2> DEFINE new == [d.c.object EXCEPT ![o] = NoObject]
  <2>6. ~Stale(new[o]) /\ \A p \in Objects : Stale(new[p]) => new[p] = d.c.object[p]
    BY <2>4, DestroyedStale, Zenon
  <2>7. e.c.object = new
    <3>1. Destroy(d.c, o).object = new
      BY DestroyFields, Zenon
    <3> HIDE DEF e, new
    <3> QED  BY <2>3, <3>1
  <2> HIDE DEF new, e
  <2>8. NoneStale(e.c.object)
    BY <2>4, <2>6, <2>7 DEF NoneStale
  <2>9. FreshWalk(e, T)
    BY <2>3, <2>5, <2>8, Zenon DEF FreshWalk, Walks
  <2> QED  BY <2>9 DEF e
<1> QED  BY <1>2, <1>3

LEMMA TurnKeeps ==
    ASSUME NEW stage \in {"backed", "disc", "memory"}, NEW d, NEW T, FreshWalk(d, T), NEW lim,
           NEW o \in Objects
    PROVE  FreshWalk(Turn(stage, lim, d, o), T)
<1>1. CASE stage = "backed"
  BY <1>1, ReleaseBackedKeeps DEF Turn
<1>2. CASE stage = "disc"
  BY <1>2, DroppedKeeps DEF Turn
<1>3. CASE stage = "memory"
  BY <1>3, DroppedKeeps DEF Turn
<1> QED  BY <1>1, <1>2, <1>3

LEMMA StageKeeps ==
    ASSUME NEW stage \in {"backed", "disc", "memory"}, NEW d, NEW T, FreshWalk(d, T), NEW lim
    PROVE  FreshWalk(Stage(stage, lim, d), T)
<1> DEFINE lst == d.c.list
           W == Turns(stage, lim, d)
           S == {n \in Nat : n <= Len(lst) => FreshWalk(W[n], T)}
<1>1. lst \in Seq(Objects)
  BY DEF FreshWalk, Walks, Core, ListOK
<1>2. Len(lst) \in Nat /\ \A i \in 1 .. Len(lst) : lst[i] \in Objects
  BY <1>1
<1>3. W[0] = d /\ \A n \in Nat : n < Len(lst) => W[n + 1] = Turn(stage, lim, W[n], lst[n + 1])
  BY <1>2, TurnsDef
<1>4. Stage(stage, lim, d) = W[Len(lst)]
  BY DEF Stage
<1> HIDE DEF W, lst
<1>5. 0 \in S
  BY <1>3
<1>6. ASSUME NEW n \in Nat, n \in S
      PROVE  n + 1 \in S
  <2> SUFFICES ASSUME n + 1 <= Len(lst)
               PROVE  FreshWalk(W[n + 1], T)
    OBVIOUS
  <2>1. n < Len(lst) /\ n <= Len(lst) /\ n + 1 \in 1 .. Len(lst)
    BY <1>2
  <2>2. FreshWalk(W[n], T) /\ lst[n + 1] \in Objects
    BY <1>2, <1>6, <2>1
  <2> QED  BY <1>3, <2>1, <2>2, TurnKeeps
<1>7. Nat \subseteq S
  <2> HIDE DEF S
  <2> QED  BY <1>5, <1>6, NatInductionSet
<1> QED  BY <1>2, <1>4, <1>7

\* After the first stage no object is stale.
LEMMA StaleStage ==
    ASSUME NEW d, NEW T, Walks(d, T), NEW lim
    PROVE  FreshWalk(Stage("stale", lim, d), T)
<1> DEFINE lst == d.c.list
           obj == d.c.object
           W == Turns("stale", lim, d)
           Good(n) == /\ Walks(W[n], T)
                      /\ \A i \in 1 .. n : ~Stale(W[n].c.object[lst[i]])
                      /\ \A p \in Objects : Stale(W[n].c.object[p]) => W[n].c.object[p] = obj[p]
           S == {n \in Nat : n <= Len(lst) => Good(n)}
<1>1. lst \in Seq(Objects) /\ ListOK(lst, obj)
  BY DEF Walks, Core, ListOK
<1>2. Len(lst) \in Nat /\ \A i \in 1 .. Len(lst) : lst[i] \in Objects
  BY <1>1
<1>3. W[0] = d /\ \A n \in Nat : n < Len(lst) => W[n + 1] = Turn("stale", lim, W[n], lst[n + 1])
  BY <1>2, TurnsDef
<1>4. Stage("stale", lim, d) = W[Len(lst)]
  BY DEF Stage
<1> HIDE DEF W, lst
<1>5. 0 \in S
  BY <1>3
<1>6. ASSUME NEW n \in Nat, n \in S
      PROVE  n + 1 \in S
  <2> SUFFICES ASSUME n + 1 <= Len(lst)
               PROVE  Good(n + 1)
    OBVIOUS
  <2>1. n < Len(lst) /\ n <= Len(lst) /\ n + 1 \in 1 .. Len(lst)
    BY <1>2
  <2>2. Good(n) /\ lst[n + 1] \in Objects
    BY <1>2, <1>6, <2>1
  <2> DEFINE a == W[n].c.object
             b == W[n + 1].c.object
             o == lst[n + 1]
  <2>3. W[n + 1] = DropStale(W[n], o)
    BY <1>3, <2>1 DEF Turn
  <2>4. /\ Walks(W[n + 1], T) /\ ~Stale(b[o])
        /\ \A p \in Objects : Stale(b[p]) => b[p] = a[p]
    <3>1. Walks(W[n], T)
      BY <2>2
    <3>2. o \in Objects
      BY <2>2
    <3> HIDE DEF o
    <3>3. /\ Walks(DropStale(W[n], o), T) /\ ~Stale(DropStale(W[n], o).c.object[o])
          /\ \A p \in Objects : Stale(DropStale(W[n], o).c.object[p]) =>
                DropStale(W[n], o).c.object[p] = W[n].c.object[p]
      BY <3>1, <3>2, DropStaleKeeps, Zenon
    <3> QED  BY <2>3, <3>3, Zenon
  <2>5. ASSUME NEW i \in 1 .. n + 1
        PROVE  ~Stale(b[lst[i]])
    <3>1. i = n + 1 \/ i \in 1 .. n
      OBVIOUS
    <3>2. lst[i] \in Objects
      BY <1>2, <2>1, <3>1
    <3> HIDE DEF b
    <3> QED  BY <2>2, <2>4, <3>1, <3>2
  <2>6. \A p \in Objects : Stale(b[p]) => b[p] = obj[p]
    <3> HIDE DEF b
    <3> QED  BY <2>2, <2>4
  <2> QED  BY <2>4, <2>5, <2>6
<1>7. Nat \subseteq S
  <2> HIDE DEF S
  <2> QED  BY <1>5, <1>6, NatInductionSet
<1>8. Good(Len(lst))
  BY <1>2, <1>7
<1> DEFINE fin == W[Len(lst)].c.object
<1>9. ASSUME NEW p \in Objects, Stale(fin[p])
      PROVE  FALSE
  <2>1. fin[p] = obj[p]
    BY <1>8, <1>9
  <2>2. obj[p] # NoObject
    BY <1>9, <2>1, StaleFacts
  <2>3. obj[p].url # NONE
    <3>1. Sane(obj[p], T)
      BY ObjectFields DEF Walks, Core
    <3> QED  BY <2>2, <3>1 DEF Sane
  <2>4. Has(lst, p)
    BY <1>1, <2>3 DEF ListOK
  <2>5. PICK i \in 1 .. Len(lst) : lst[i] = p
    BY <2>4 DEF Has
  <2> QED  BY <1>8, <1>9, <2>5
<1> QED  BY <1>4, <1>8, <1>9 DEF FreshWalk, NoneStale

LEMMA CleanedKeeps ==
    ASSUME CanFail = FALSE, Sizes \subseteq {1}, NEW c, NEW T, Core(c, T), NEW lim,
           NEW e \in Cleaned(c, lim)
    PROVE  Core(e, T) /\ GhostsOK(e.object)
<1> DEFINE first == Stage("stale", lim, [c |-> c, size |-> 0])
           kept == first.c
           size == FoldLeft(LAMBDA n, o : n + ObjectSize(kept.object[o]), 0, kept.list)
           rest(p) == Stage("memory", lim, Stage("disc", lim, Stage("backed", lim, [c |-> p, size |-> size])))
<1>1. Walks([c |-> c, size |-> 0], T)
  BY DEF Walks, IsWalk
<1>2. FreshWalk(first, T)
  BY <1>1, StaleStage
<1>3. Core(kept, T) /\ NoneStale(kept.object)
  BY <1>2 DEF FreshWalk, Walks
<1>4. PICK p \in IF Over(size, lim) THEN Persisted(kept) ELSE {kept} : e = rest(p).c
  BY Zenon DEF Cleaned
<1> HIDE DEF kept, size
<1>5. Core(p, T) /\ NoneStale(p.object)
  <2>1. CASE p = kept
    BY <1>3, <2>1
  <2>2. CASE p \in Persisted(kept)
    <3>1. Core(p, T) /\ Alike(kept.object, p.object)
      BY <1>3, <2>2, PersistedKeeps
    <3> QED  BY <1>3, <3>1 DEF Alike, NoneStale
  <2> QED  BY <1>4, <2>1, <2>2
<1> DEFINE q == [c |-> p, size |-> size]
<1>6. FreshWalk(q, T)
  BY <1>5 DEF FreshWalk, Walks, IsWalk
<1> HIDE DEF q
<1>7. FreshWalk(Stage("backed", lim, q), T)
  BY <1>6, StageKeeps
<1>8. FreshWalk(Stage("disc", lim, Stage("backed", lim, q)), T)
  BY <1>7, StageKeeps
<1>9. FreshWalk(rest(p), T)
  BY <1>8, StageKeeps DEF q
<1>10. Core(e, T) /\ NoneStale(e.object)
  <2> HIDE DEF rest
  <2> QED  BY <1>4, <1>9 DEF FreshWalk, Walks
<1> QED  BY <1>10, StaleFacts DEF Core


-----------------------------------------------------------------------------
(* llcache_object_fetch_persistent().                                       *)

LEMMA FreeFacts ==
    ASSUME NEW c, Free(c) # {}
    PROVE  Min(Free(c)) \in Objects /\ c.object[Min(Free(c))].url = NONE
<1>1. Free(c) \in SUBSET Nat
  BY CacheAssumption DEF Free, Objects
<1>2. Min(Free(c)) \in Free(c)
  BY <1>1, NatMin, Zenon
<1> QED  BY <1>2 DEF Free

LEMMA FreeFewer ==
    ASSUME NEW c, Cardinality(Free(c)) > 1, NEW d, NEW o \in Objects,
           \A p \in Objects : p # o => d.object[p] = c.object[p]
    PROVE  Free(c) # {} /\ Free(d) # {}
<1>1. CASE Free(c) = {}
  <2>1. Cardinality(Free(c)) = 0
    BY <1>1, FS_EmptySet
  <2> QED  BY <2>1
<1>2. CASE Free(c) # {} /\ Free(c) \subseteq {o}
  <2>1. Free(c) = {o}
    BY <1>2
  <2>2. Cardinality(Free(c)) = 1
    BY <2>1, FS_Singleton
  <2> QED  BY <2>2
<1>3. CASE Free(c) # {} /\ ~(Free(c) \subseteq {o})
  <2>1. PICK p \in Free(c) : p # o
    BY <1>3
  <2>2. p \in Free(d)
    BY <2>1 DEF Free
  <2> QED  BY <1>3, <2>2
<1> QED  BY <1>1, <1>2, <1>3

LEMMA FreeNonempty ==
    ASSUME NEW c, Cardinality(Free(c)) > 1
    PROVE  Free(c) # {}
<1> SUFFICES ASSUME Free(c) = {} PROVE FALSE
  OBVIOUS
<1>1. Cardinality(Free(c)) = 0
  BY FS_EmptySet
<1> QED  BY <1>1

\* What the store says of a URL.
LEMMA MetadataFacts ==
    ASSUME NEW T \in Times, NEW l, LatestOK(l, T), NEW u \in Urls, l[u]["meta"] # NONE
    PROVE  \E v \in 0 .. MaxTime, t \in 1 .. T[u] :
              /\ 1 \in Sizes /\ l[u]["meta"] = Metadata(u, v, 1, t)
              /\ l[u]["data"] # NONE /\ l[u]["data"].ver = v
              /\ t \in 0 .. MaxTime /\ t # 0
<1>1. 1 \in Sizes
  BY Zenon DEF LatestOK
<1>2. PICK v \in 0 .. MaxTime : \E t \in 1 .. T[u] :
        l[u]["data"] = Source(u, v, 1) /\ l[u]["meta"] = Metadata(u, v, 1, t)
  BY Zenon DEF LatestOK
<1>3. PICK t \in 1 .. T[u] : l[u]["data"] = Source(u, v, 1) /\ l[u]["meta"] = Metadata(u, v, 1, t)
  BY <1>2
<1>4. Source(u, v, 1) \in Stored
  BY <1>1, CacheAssumption DEF Kinds, Sources
<1>5. l[u]["data"] # NONE
  BY <1>3, <1>4, NoneAssumption
<1>6. l[u]["data"].ver = v
  BY <1>3 DEF Source
<1>7. t \in 0 .. MaxTime /\ t # 0
  BY CacheAssumption DEF Times
<1> QED  BY <1>1, <1>3, <1>5, <1>6, <1>7

Restored(u, v, n, t, old) ==
    [NoObject EXCEPT !.url = u, !.disc = TRUE, !.req_time = t, !.ver = v, !.source_len = n,
                     !.expired = old, !.no_cache = v \in MustValidate]

LEMMA FromStoreCases ==
    ASSUME NEW c, IsCache(c), NEW u, NEW e \in FromStore(c, u)
    PROVE  \E r \in GuiFetch(c.store, u, "meta") :
              /\ IsCache(e)
              /\ e.store = IF r.ret = "ok" THEN After(GuiRelease(r.s, u, "meta")) ELSE r.s
              /\ \/ (r.ret # "ok" \/ r.data.url # u) /\ e.object = c.object /\ e.list = c.list
                 \/ /\ r.ret = "ok"
                    /\ e.list = <<Min(Free(c))>> \o c.list
                    /\ \E old \in BOOLEAN :
                          e.object = [c.object EXCEPT ![Min(Free(c))] =
                             Restored(u, r.data.ver, r.data.len, r.data.req_time, old)]
<1> DEFINE released(r) == IF r.ret = "ok" THEN After(GuiRelease(r.s, u, "meta")) ELSE r.s
           o == Min(Free(c))
           outcomes(r) ==
             IF r.ret # "ok" \/ r.data.url # u
             THEN {[c EXCEPT !.store = released(r)]}
             ELSE {[store |-> released(r),
                    object |-> [c.object EXCEPT ![o] =
                        [NoObject EXCEPT !.url = u, !.disc = TRUE, !.req_time = r.data.req_time,
                                         !.ver = r.data.ver, !.source_len = r.data.len, !.expired = old,
                                         !.no_cache = r.data.ver \in MustValidate]],
                    list |-> <<o>> \o c.list] : old \in BOOLEAN}
<1>1. FromStore(c, u) = UNION {outcomes(r) : r \in GuiFetch(c.store, u, "meta")}
  BY DEF FromStore
<1> HIDE DEF outcomes
<1>2. PICK r \in GuiFetch(c.store, u, "meta") : e \in outcomes(r)
  BY <1>1
<1> USE DEF outcomes
<1> HIDE DEF o, released
<1>3. CASE r.ret # "ok" \/ r.data.url # u
  <2>1. e = [c EXCEPT !.store = released(r)]
    BY <1>2, <1>3
  <2>2. IsCache(e) /\ e.store = released(r) /\ e.object = c.object /\ e.list = c.list
    BY <2>1 DEF IsCache
  <2> QED  BY <1>3, <2>2 DEF released
<1>4. CASE ~(r.ret # "ok" \/ r.data.url # u)
  <2>1. PICK old \in BOOLEAN :
          e = [store |-> released(r),
               object |-> [c.object EXCEPT ![o] = Restored(u, r.data.ver, r.data.len, r.data.req_time, old)],
               list |-> <<o>> \o c.list]
    BY <1>2, <1>4 DEF Restored
  <2>2. /\ IsCache(e) /\ e.store = released(r) /\ e.list = <<o>> \o c.list
        /\ e.object = [c.object EXCEPT ![o] = Restored(u, r.data.ver, r.data.len, r.data.req_time, old)]
    BY <2>1 DEF IsCache
  <2> QED  BY <1>4, <2>2 DEF released, o
<1> QED  BY <1>3, <1>4


\* A free object gets a URL that no other has.
LEMMA RestoredObjects ==
    ASSUME MustValidate = {}, NEW obj, NEW T \in Times, ObjectsOK(obj, T), NEW o \in Objects,
           obj[o].url = NONE, NEW u \in Urls, \A p \in Objects : obj[p].url # u,
           NEW v \in 0 .. MaxTime, NEW t \in 1 .. T[u], NEW old \in BOOLEAN,
           NEW y, y = Restored(u, v, 1, t, old)
    PROVE  /\ ObjectsOK([obj EXCEPT ![o] = y], T)
           /\ y.disc /\ y.url = u /\ y.ver = v /\ y.source = NONE /\ ~Ghost(y)
<1>0. t \in 0 .. MaxTime /\ t # 0 /\ t <= T[u] /\ u # NONE
  BY CacheAssumption, GarbageAssumption DEF Times
<1>1. /\ y.url = u /\ y.disc /\ y.req_time = t /\ y.ver = v /\ y.source_len = 1 /\ y.expired = old
      /\ ~y.no_cache /\ ~y.users /\ y.candidate = NONE /\ y.candidate_count = 0
      /\ ~y.fetching /\ y.source = NONE
  BY DEF Restored, NoObject
<1>2. y \in ObjectRec
  <2>1. (v \in MustValidate) = FALSE
    OBVIOUS
  <2> HIDE DEF Sources
  <2> QED  BY <1>0, <2>1 DEF ObjectRec, Restored, NoObject
<1> HIDE DEF Restored
<1>3. ~Ghost(y)
  BY <1>1 DEF Ghost
<1>4. Sane(y, T)
  BY <1>0, <1>1, <1>3 DEF Sane
<1>5. \A p \in Objects : p # o => Apart(y, obj[p]) /\ Apart(obj[p], y)
  BY <1>1 DEF Apart
<1>6. \A p \in Objects : p # o /\ obj[p].candidate = o => Validates(obj[p], y)
  <2> SUFFICES ASSUME NEW p \in Objects, obj[p].candidate = o
               PROVE  FALSE
    OBVIOUS
  <2>1. obj[p].candidate # NONE
    BY CacheAssumption
  <2>2. Validates(obj[p], obj[o]) /\ obj[p].fetching
    BY <2>1, CandidateFacts
  <2>3. obj[p].url \in Urls
    BY <2>2, FetchingAlone
  <2> QED  BY <2>2, <2>3, GarbageAssumption DEF Validates
<1>7. ObjectsOK([obj EXCEPT ![o] = y], T)
  <2>1. y.candidate = NONE
    BY <1>1
  <2> QED  BY <1>2, <1>4, <1>5, <1>6, <2>1, ObjectChanged
<1> QED  BY <1>1, <1>3, <1>7

LEMMA FromStoreKeeps ==
    ASSUME MustValidate = {}, NEW c, NEW T, Core(c, T), GhostsOK(c.object),
           Cardinality(Free(c)) > 1, NEW u \in Urls, \A p \in Objects : c.object[p].url # u,
           NEW e \in FromStore(c, u)
    PROVE  Core(e, T) /\ GhostsOK(e.object) /\ Free(e) # {}
<1>1. IsCache(c) /\ T \in Times /\ ObjectsOK(c.object, T) /\ ListOK(c.list, c.object)
  BY DEF Core
<1>2. PICK l : StoreOK(c.store, c.object, T, l)
  BY DEF Core
<1>3. PICK r \in GuiFetch(c.store, u, "meta") :
        /\ IsCache(e)
        /\ e.store = IF r.ret = "ok" THEN After(GuiRelease(r.s, u, "meta")) ELSE r.s
        /\ \/ (r.ret # "ok" \/ r.data.url # u) /\ e.object = c.object /\ e.list = c.list
           \/ /\ r.ret = "ok"
              /\ e.list = <<Min(Free(c))>> \o c.list
              /\ \E old \in BOOLEAN :
                    e.object = [c.object EXCEPT ![Min(Free(c))] =
                       Restored(u, r.data.ver, r.data.len, r.data.req_time, old)]
  BY <1>1, FromStoreCases
<1> DEFINE h == Held(c.object)
           o == Min(Free(c))
<1>4. Kept(c.store, l) /\ Counts(c.store, h) /\ LatestOK(l, T) /\ h \in References /\ l \in Latest
      /\ "meta" \in Elems /\ h[u]["meta"] = 0
  BY <1>2, HeldFacts DEF StoreOK, LatestOK, Elems
<1> HIDE DEF h
<1>5. /\ Kept(r.s, l)
      /\ Counts(r.s, IF r.ret = "ok" THEN [h EXCEPT ![u]["meta"] = @ + 1] ELSE h)
      /\ r.ret = "ok" => r.data = l[u]["meta"] /\ r.data # NONE
  BY <1>4, FetchKeeps
<1>6. Kept(e.store, l) /\ Counts(e.store, h)
  <2>1. CASE r.ret # "ok"
    BY <1>3, <1>5, <2>1
  <2>2. CASE r.ret = "ok"
    <3> DEFINE g == [h EXCEPT ![u]["meta"] = @ + 1]
               k == [g EXCEPT ![u]["meta"] = IF @ = 0 THEN 0 ELSE @ - 1]
    <3>1. g \in References
      BY <1>4 DEF References
    <3>2. Kept(r.s, l) /\ Counts(r.s, g)
      BY <1>5, <2>2
    <3>3. e.store = After(GuiRelease(r.s, u, "meta"))
      BY <1>3, <2>2
    <3>4. \A w \in Urls, d \in Elems : h[w][d] = k[w][d]
      BY <1>4 DEF References, Elems
    <3> HIDE DEF g
    <3>5. Kept(e.store, l) /\ Counts(e.store, k)
      BY <1>4, <3>1, <3>2, <3>3, ReleaseKeeps
    <3> HIDE DEF k
    <3> QED  BY <3>4, <3>5, CountsSame
  <2> QED  BY <2>1, <2>2
<1>7. Min(Free(c)) \in Objects /\ c.object[Min(Free(c))].url = NONE
  <2>1. Free(c) # {}
    BY FreeNonempty
  <2> QED  BY <2>1, FreeFacts
<1>8. CASE e.object = c.object /\ e.list = c.list
  <2>1. StoreOK(e.store, e.object, T, l)
    BY <1>2, <1>6, <1>8 DEF StoreOK, h
  <2>2. Free(e) # {}
    BY <1>7, <1>8 DEF Free
  <2> QED  BY <1>1, <1>3, <1>8, <2>1, <2>2 DEF Core
<1>9. CASE ~(e.object = c.object /\ e.list = c.list)
  <2>1. r.ret = "ok" /\ e.list = <<o>> \o c.list
    BY <1>3, <1>9
  <2>2. PICK old \in BOOLEAN :
          e.object = [c.object EXCEPT ![o] = Restored(u, r.data.ver, r.data.len, r.data.req_time, old)]
    BY <1>3, <1>9
  <2>3. r.data = l[u]["meta"] /\ l[u]["meta"] # NONE
    BY <1>5, <2>1
  <2>4. PICK v \in 0 .. MaxTime, t \in 1 .. T[u] :
              /\ 1 \in Sizes /\ l[u]["meta"] = Metadata(u, v, 1, t)
              /\ l[u]["data"] # NONE /\ l[u]["data"].ver = v
              /\ t \in 0 .. MaxTime /\ t # 0
    BY <1>1, <1>4, <2>3, MetadataFacts
  <2>5. r.data.ver = v /\ r.data.len = 1 /\ r.data.req_time = t
    BY <2>3, <2>4 DEF Metadata
  <2> DEFINE y == Restored(u, v, 1, t, old)
             new == [c.object EXCEPT ![o] = y]
  <2>6. e.object = new
    BY <2>2, <2>5
  <2> HIDE DEF o
  <2>7. o \in Objects /\ c.object[o].url = NONE
    BY <1>7 DEF o
  <2>8. /\ ObjectsOK(new, T)
        /\ y.disc /\ y.url = u /\ y.ver = v /\ y.source = NONE /\ ~Ghost(y)
    BY <1>1, <2>7, RestoredObjects
  <2>9. \A p \in Objects : new[p] = IF p = o THEN y ELSE c.object[p]
    BY <1>1 DEF ObjectsOK, Maps
  <2> HIDE DEF y
  <2>10. ListOK(e.list, new)
    <3>1. y.url # NONE
      BY <2>8, GarbageAssumption
    <3>2. c.object \in [Objects -> ObjectRec]
      BY <1>1 DEF ObjectsOK, Maps
    <3> QED  BY <1>1, <2>1, <2>7, <3>1, <3>2, ListWith
  <2> HIDE DEF new
  <2>11. Counts(e.store, Held(new))
    <3>1. c.object[o] = NoObject
      BY <1>1, <2>7 DEF ObjectsOK, Sane
    <3>2. \A p \in Objects, w \in Urls : Owns(new[p], w) <=> Owns(c.object[p], w)
      <4>1. \A w \in Urls : ~Owns(y, w) /\ ~Owns(NoObject, w)
        BY <2>8 DEF Owns, NoObject
      <4> QED  BY <2>9, <3>1, <4>1
    <3> QED  BY <1>6, <3>2, OwnedLike DEF h
  <2>12. Backs(l, new)
    <3>1. \A p \in Objects : c.object[p].disc =>
             l[c.object[p].url]["data"] # NONE /\ l[c.object[p].url]["data"].ver = c.object[p].ver
      BY <1>2 DEF StoreOK, Backs
    <3> QED  BY <2>4, <2>8, <2>9, <3>1 DEF Backs
  <2>13. StoreOK(e.store, new, T, l)
    BY <1>4, <1>6, <2>11, <2>12 DEF StoreOK
  <2>14. GhostsOK(new)
    <3> SUFFICES ASSUME NEW p \in Objects, Ghost(new[p])
                 PROVE  \E q \in Objects : new[q].url = new[p].url /\ ~Ghost(new[q])
      BY DEF GhostsOK
    <3>1. p # o /\ new[p] = c.object[p]
      BY <2>8, <2>9
    <3>2. PICK q \in Objects : c.object[q].url = c.object[p].url /\ ~Ghost(c.object[q])
      BY <3>1 DEF GhostsOK
    <3>3. q # o
      BY <2>7, <3>1, <3>2 DEF Ghost
    <3> QED  BY <2>9, <3>1, <3>2, <3>3
  <2>15. Free(e) # {}
    <3>1. \A p \in Objects : p # o => e.object[p] = c.object[p]
      BY <2>6, <2>9
    <3> QED  BY <2>7, <3>1, FreeFewer
  <2> QED  BY <1>1, <1>3, <2>6, <2>8, <2>10, <2>13, <2>14, <2>15 DEF Core
<1> QED  BY <1>8, <1>9


-----------------------------------------------------------------------------
(* llcache_retrieve_persisted_data().                                       *)

\* y is x but perhaps for the source data.
Reads(x, y) ==
    /\ y.url = x.url /\ y.users = x.users /\ y.candidate = x.candidate
    /\ y.candidate_count = x.candidate_count /\ y.fetching = x.fetching /\ y.disc = x.disc
    /\ y.req_time = x.req_time /\ y.ver = x.ver /\ y.expired = x.expired
    /\ Ghost(y) <=> Ghost(x)
    /\ x.source # NONE => y.source # NONE

LEMMA DataFacts ==
    ASSUME NEW T \in Times, NEW l, LatestOK(l, T), NEW u \in Urls, l[u]["data"] # NONE
    PROVE  1 \in Sizes /\ l[u]["data"] = Source(u, l[u]["data"].ver, 1)
<1>1. 1 \in Sizes
  BY Zenon DEF LatestOK
<1>2. PICK v \in 0 .. MaxTime : \E t \in 1 .. T[u] :
        l[u]["data"] = Source(u, v, 1) /\ l[u]["meta"] = Metadata(u, v, 1, t)
  BY Zenon DEF LatestOK
<1>3. l[u]["data"] = Source(u, v, 1)
  BY <1>2
<1>4. l[u]["data"].ver = v
  BY <1>3 DEF Source
<1> QED  BY <1>1, <1>3, <1>4

LEMMA ReadRec ==
    ASSUME NEW x \in ObjectRec, NEW src \in Sources, NEW n \in Nat
    PROVE  [x EXCEPT !.source = src, !.source_len = n] \in ObjectRec
  BY DEF ObjectRec

LEMMA ReadObjects ==
    ASSUME NEW obj, NEW T, ObjectsOK(obj, T), NEW o \in Objects, obj[o].disc, obj[o].source = NONE,
           1 \in Sizes, NEW y,
           y = [obj[o] EXCEPT !.source = Source(obj[o].url, obj[o].ver, 1), !.source_len = 1]
    PROVE  /\ ObjectsOK([obj EXCEPT ![o] = y], T) /\ Reads(obj[o], y)
           /\ y.disc /\ y.source # NONE /\ obj[o].url \in Urls
<1> DEFINE x == obj[o]
           src == Source(x.url, x.ver, 1)
<1>1. x \in ObjectRec /\ Sane(x, T)
  BY ObjectFields
<1>2. x.url \in Urls
  <2>1. x # NoObject
    BY DEF NoObject
  <2> QED  BY <1>1, <2>1, UrlOf
<1>3. src \in Sources /\ src # NONE
  <2>1. src \in Sources
    <3>1. x.ver \in 0 .. MaxTime
      BY <1>1 DEF ObjectRec
    <3> QED  BY <1>2, <3>1 DEF Sources
  <2>2. src \in Stored
    BY <2>1, CacheAssumption DEF Kinds
  <2> QED  BY <2>1, <2>2, NoneAssumption
<1>4. /\ y \in ObjectRec
      /\ y.url = x.url /\ y.users = x.users /\ y.candidate = x.candidate
      /\ y.candidate_count = x.candidate_count /\ y.fetching = x.fetching /\ y.disc = x.disc
      /\ y.req_time = x.req_time /\ y.ver = x.ver /\ y.expired = x.expired
      /\ y.source = src /\ y.source_len = 1
  <2> HIDE DEF src, Sources
  <2>1. y = [x EXCEPT !.source = src, !.source_len = 1]
    BY DEF src
  <2> HIDE DEF x
  <2>2. /\ y.url = x.url /\ y.users = x.users /\ y.candidate = x.candidate
        /\ y.candidate_count = x.candidate_count /\ y.fetching = x.fetching /\ y.disc = x.disc
        /\ y.req_time = x.req_time /\ y.ver = x.ver /\ y.expired = x.expired
        /\ y.source = src /\ y.source_len = 1 /\ y.no_cache = x.no_cache
    BY <1>1, <2>1 DEF ObjectRec
  <2>4. y \in ObjectRec
    <3>1. [x EXCEPT !.source = src, !.source_len = 1] \in ObjectRec
      BY <1>1, <1>3, ReadRec
    <3> QED  BY <2>1, <3>1, Zenon
  <2> QED  BY <2>2, <2>4
<1>5. ~x.fetching /\ x.users \in BOOLEAN /\ x.candidate = NONE
  BY <1>1 DEF Sane, ObjectRec
<1>6. ~Ghost(y) /\ ~Ghost(x)
  BY <1>4 DEF Ghost
<1>7. Sane(y, T)
  BY <1>1, <1>2, <1>3, <1>4, <1>5, <1>6, GarbageAssumption DEF Sane
<1>8. ASSUME NEW p \in Objects, p # o
      PROVE  Apart(y, obj[p]) /\ Apart(obj[p], y)
  <2>1. Apart(x, obj[p]) /\ Apart(obj[p], x)
    BY <1>8 DEF ObjectsOK
  <2>2. y.url = x.url /\ y.disc = x.disc /\ y.req_time = x.req_time /\ y.expired = x.expired
        /\ y.source # NONE
    BY <1>3, <1>4
  <2> HIDE DEF x
  <2> QED  BY <2>1, <2>2, Zenon DEF Apart
<1>9. ASSUME NEW p \in Objects, obj[p].candidate = o
      PROVE  FALSE
  <2>1. obj[p].candidate # NONE
    BY <1>9, CacheAssumption
  <2>2. Validates(obj[p], obj[o])
    BY <1>9, <2>1, CandidateFacts
  <2> QED  BY <2>2 DEF Validates
<1>10. ObjectsOK([obj EXCEPT ![o] = y], T)
  <2>1. \A p \in Objects : p # o => Apart(y, obj[p]) /\ Apart(obj[p], y)
    BY <1>8
  <2>2. \A p \in Objects : p # o /\ obj[p].candidate = o => Validates(obj[p], y)
    BY <1>9
  <2>3. y \in ObjectRec /\ y.candidate = NONE
    BY <1>4, <1>5
  <2> QED  BY <1>7, <2>1, <2>2, <2>3, ObjectChanged
<1>11. Reads(x, y)
  BY <1>3, <1>4, <1>6 DEF Reads
<1>12. y.disc /\ y.source # NONE
  BY <1>3, <1>4
<1> QED  BY <1>2, <1>10, <1>11, <1>12

\* An outcome r of reading back o from the store.
ReadBack(c, o, r) ==
    \E q \in GuiFetch(c.store, c.object[o].url, "data") :
       /\ r.ok <=> q.ret = "ok"
       /\ IsCache(r.c) /\ r.c.store = q.s /\ r.c.list = c.list
       /\ q.ret # "ok" => r.c.object = c.object
       /\ q.ret = "ok" => r.c.object = [c.object EXCEPT ![o] =
             [@ EXCEPT !.source = q.data, !.source_len = q.data.size]]

LEMMA RetrievePersistedCases ==
    ASSUME NEW c, IsCache(c), c.object \in Maps, NEW o \in Objects, NEW r \in RetrievePersisted(c, o)
    PROVE  \/ (c.object[o].source # NONE \/ ~c.object[o].disc) /\ r.ok /\ r.c = c
           \/ c.object[o].source = NONE /\ c.object[o].disc /\ ReadBack(c, o, r)
<1> DEFINE x == c.object[o]
           outcome(q) ==
             [ok |-> q.ret = "ok",
              c |-> [c EXCEPT !.store = q.s,
                              !.object[o] = IF q.ret = "ok"
                                            THEN [@ EXCEPT !.source = q.data, !.source_len = q.data.size]
                                            ELSE @]]
<1>1. CASE x.source # NONE \/ ~x.disc
  <2>1. r = [ok |-> TRUE, c |-> c]
    BY <1>1 DEF RetrievePersisted
  <2> QED  BY <1>1, <2>1
<1>2. CASE ~(x.source # NONE \/ ~x.disc)
  <2>1. PICK q \in GuiFetch(c.store, x.url, "data") : r = outcome(q)
    BY <1>2 DEF RetrievePersisted
  <2>2. r.ok <=> q.ret = "ok"
    BY <2>1
  <2>3. IsCache(r.c) /\ r.c.store = q.s /\ r.c.list = c.list
    BY <2>1 DEF IsCache
  <2>4. ASSUME q.ret # "ok" PROVE r.c.object = c.object
    <3>1. r.c = [c EXCEPT !.store = q.s, !.object[o] = @]
      BY <2>1, <2>4
    <3> QED  BY <3>1 DEF IsCache, Maps
  <2>5. ASSUME q.ret = "ok"
        PROVE  r.c.object = [c.object EXCEPT ![o] = [@ EXCEPT !.source = q.data, !.source_len = q.data.size]]
    <3>1. r.c = [c EXCEPT !.store = q.s, !.object[o] = [@ EXCEPT !.source = q.data, !.source_len = q.data.size]]
      BY <2>1, <2>5
    <3> QED  BY <3>1 DEF IsCache
  <2> QED  BY <1>2, <2>1, <2>2, <2>3, <2>4, <2>5 DEF ReadBack
<1> QED  BY <1>1, <1>2


\* An outcome r of reading back the source data of o.
Retrieved1(c, o, r) ==
    /\ r.c.list = c.list /\ Reads(c.object[o], r.c.object[o])
    /\ \A p \in Objects : p # o => r.c.object[p] = c.object[p]
    /\ r.ok => r.c.object[o].source # NONE \/ ~r.c.object[o].disc
    /\ ~r.ok => r.c.object[o].source = NONE /\ r.c.object[o].disc

LEMMA RetrievePersistedKeeps ==
    ASSUME NEW c, NEW T, Core(c, T), NEW o \in Objects, NEW r \in RetrievePersisted(c, o)
    PROVE  Core(r.c, T) /\ Retrieved1(c, o, r)
<1> DEFINE x == c.object[o]
           h == Held(c.object)
<1>1. IsCache(c) /\ T \in Times /\ ObjectsOK(c.object, T) /\ ListOK(c.list, c.object) /\ c.object \in Maps
  BY DEF Core, ObjectsOK
<1>2. PICK l : StoreOK(c.store, c.object, T, l)
  BY DEF Core
<1>3. Reads(x, x)
  BY DEF Reads
<1>4. CASE (x.source # NONE \/ ~x.disc) /\ r.ok /\ r.c = c
  BY <1>3, <1>4 DEF Retrieved1
<1>5. CASE ~((x.source # NONE \/ ~x.disc) /\ r.ok /\ r.c = c)
  <2>1. x.source = NONE /\ x.disc
    BY <1>1, <1>5, RetrievePersistedCases
  <2>2. PICK q \in GuiFetch(c.store, x.url, "data") :
          /\ r.ok <=> q.ret = "ok"
          /\ IsCache(r.c) /\ r.c.store = q.s /\ r.c.list = c.list
          /\ q.ret # "ok" => r.c.object = c.object
          /\ q.ret = "ok" => r.c.object = [c.object EXCEPT ![o] =
                [@ EXCEPT !.source = q.data, !.source_len = q.data.size]]
    <3>1. ReadBack(c, o, r)
      BY <1>1, <1>5, RetrievePersistedCases
    <3> QED  BY <3>1, Zenon DEF ReadBack
  <2>3. x.url \in Urls /\ "data" \in Elems
    <3>1. x \in ObjectRec /\ Sane(x, T) /\ x # NoObject
      BY <1>1, <2>1, ObjectFields DEF NoObject
    <3> QED  BY <3>1, UrlOf DEF Elems
  <2>4. Kept(c.store, l) /\ Counts(c.store, h) /\ LatestOK(l, T) /\ h \in References /\ l \in Latest
    BY <1>2, HeldFacts DEF StoreOK, LatestOK
  <2> HIDE DEF h
  <2>5. /\ Kept(q.s, l)
        /\ Counts(q.s, IF q.ret = "ok" THEN [h EXCEPT ![x.url]["data"] = @ + 1] ELSE h)
        /\ q.ret = "ok" => q.data = l[x.url]["data"] /\ q.data # NONE
    BY <2>3, <2>4, FetchKeeps
  <2>6. CASE q.ret # "ok"
    <3>1. r.c.object = c.object /\ ~r.ok /\ r.c.store = q.s /\ r.c.list = c.list
      BY <2>2, <2>6
    <3>2. StoreOK(r.c.store, r.c.object, T, l)
      BY <1>2, <2>4, <2>5, <2>6, <3>1 DEF StoreOK, h
    <3>3. Core(r.c, T)
      BY <1>1, <2>2, <3>1, <3>2 DEF Core
    <3> QED  BY <1>3, <2>1, <3>1, <3>3 DEF Retrieved1
  <2>7. CASE q.ret = "ok"
    <3> DEFINE y == [x EXCEPT !.source = Source(x.url, x.ver, 1), !.source_len = 1]
               new == [c.object EXCEPT ![o] = y]
    <3>1. l[x.url]["data"] # NONE /\ l[x.url]["data"].ver = x.ver
      BY <1>2, <2>1 DEF StoreOK, Backs
    <3>2. q.data = Source(x.url, x.ver, 1) /\ 1 \in Sizes
      BY <1>1, <2>3, <2>4, <2>5, <2>7, <3>1, DataFacts
    <3>3. q.data.size = 1
      BY <3>2 DEF Source
    <3>4. r.c.object = new
      BY <2>2, <2>7, <3>2, <3>3
    <3>5. /\ ObjectsOK(new, T) /\ Reads(x, y) /\ y.disc /\ y.source # NONE
      BY <1>1, <2>1, <3>2, ReadObjects
    <3>6. \A p \in Objects : new[p] = IF p = o THEN y ELSE c.object[p]
      BY <1>1 DEF Maps
    <3> HIDE DEF y, new
    <3>7. y.url = x.url /\ y.ver = x.ver
      BY <3>5 DEF Reads
    <3>8. ListOK(c.list, new)
      <4>1. \A p \in Objects : new[p].url # NONE <=> c.object[p].url # NONE
        BY <3>6, <3>7
      <4> QED  BY <1>1, <4>1, ListSame
    <3>9. Backs(l, new)
      <4>1. \A p \in Objects : c.object[p].disc =>
               l[c.object[p].url]["data"] # NONE /\ l[c.object[p].url]["data"].ver = c.object[p].ver
        BY <1>2 DEF StoreOK, Backs
      <4> QED  BY <3>1, <3>6, <3>7, <4>1 DEF Backs
    <3>10. Counts(q.s, Held(new))
      <4> DEFINE g == [h EXCEPT ![x.url]["data"] = @ + 1]
      <4>1. Counts(q.s, g)
        BY <2>5, <2>7
      <4>2. \A u \in Urls : h[u]["data"] = (IF Owned1(c.object, u) THEN 1 ELSE 0) /\ h[u]["meta"] = 0
        BY HeldFacts, Zenon DEF h
      <4>3. ~Owned1(c.object, x.url)
        <5> SUFFICES ASSUME NEW p \in Objects, Owns(c.object[p], x.url) PROVE FALSE
          BY DEF Owned1
        <5>1. p # o
          BY <2>1 DEF Owns
        <5>2. Apart(c.object[o], c.object[p])
          BY <1>1, <5>1 DEF ObjectsOK
        <5> QED  BY <2>1, <2>3, <5>2, GarbageAssumption DEF Apart, Owns
      <4>4. \A u \in Urls : Owned1(new, u) <=> u = x.url \/ Owned1(c.object, u)
        <5>1. Owns(y, x.url) /\ \A u \in Urls : u # x.url => ~Owns(y, u) /\ ~Owns(x, u)
          BY <3>5, <3>7 DEF Owns
        <5> HIDE DEF x
        <5>2. ASSUME NEW u \in Urls PROVE Owned1(new, u) <=> u = x.url \/ Owned1(c.object, u)
          <6>1. CASE u = x.url
            BY <3>6, <5>1, <6>1, Zenon DEF Owned1
          <6>2. CASE u # x.url
            <7>1. ~Owns(c.object[o], u)
              BY <5>1, <6>2 DEF x
            <7> QED  BY <3>6, <5>1, <6>2, <7>1, Zenon DEF Owned1
          <6> QED  BY <6>1, <6>2
        <5> QED  BY <5>2
      <4>5. \A u \in Urls : g[u]["meta"] = 0 /\ g[u]["data"] = IF Owned1(new, u) THEN 1 ELSE 0
        <5> HIDE DEF x
        <5> QED  BY <2>3, <2>4, <4>2, <4>3, <4>4 DEF References, Elems
      <4> HIDE DEF g
      <4> QED  BY <4>1, <4>5, CountsNew
    <3>11. StoreOK(q.s, new, T, l)
      BY <2>4, <2>5, <3>9, <3>10 DEF StoreOK
    <3>12. Core(r.c, T)
      BY <1>1, <2>2, <3>4, <3>5, <3>8, <3>11 DEF Core
    <3>13. r.ok
      BY <2>2, <2>7
    <3> QED  BY <2>2, <3>4, <3>5, <3>6, <3>12, <3>13 DEF Retrieved1
  <2> QED  BY <2>6, <2>7
<1> QED  BY <1>4, <1>5


-----------------------------------------------------------------------------
(* llcache_object_retrieve_from_cache().                                    *)

\* The object of a request at the time t.
Requested(u, t, cand) ==
    [NoObject EXCEPT !.url = u, !.users = TRUE, !.fetching = TRUE, !.req_time = t, !.candidate = cand,
                     !.no_cache = FALSE]

\* cand can be validated by a new object of u, or there is none.
Candidate(obj, u, cand) ==
    cand = NONE \/ /\ cand \in Objects /\ obj[cand].url = u /\ obj[cand].source # NONE
                   /\ obj[cand].expired /\ ~obj[cand].fetching /\ obj[cand].candidate_count > 0

\* Every object of u is expired, and is in memory.
AllExpired(obj, u) ==
    \A p \in Objects : obj[p].url = u => obj[p].expired /\ (obj[p].disc => obj[p].source # NONE)

LEMMA RequestedRec ==
    ASSUME NEW u \in Urls, NEW t \in 0 .. MaxTime, NEW cand \in Objects \cup {NONE}
    PROVE  LET y == Requested(u, t, cand) IN
           /\ y \in ObjectRec
           /\ y.url = u /\ y.req_time = t /\ y.candidate = cand /\ y.users /\ y.fetching
           /\ ~y.disc /\ ~y.expired /\ y.source = NONE /\ y.candidate_count = 0
<1>1. 0 \in 0 .. MaxTime
  BY CacheAssumption
<1> HIDE DEF Sources
<1>2. Requested(u, t, cand) \in ObjectRec
  BY <1>1 DEF ObjectRec, Requested, NoObject
<1>3. LET y == Requested(u, t, cand) IN
      /\ y.url = u /\ y.req_time = t /\ y.candidate = cand /\ y.users /\ y.fetching
      /\ ~y.disc /\ ~y.expired /\ y.source = NONE /\ y.candidate_count = 0
  BY DEF Requested, NoObject
<1> QED  BY <1>2, <1>3

\* What the request of u changes, with o for the new object.
Started(obj, T, o, u, y, U) ==
    /\ ObjectsOK([obj EXCEPT ![o] = y], U) /\ U \in Times /\ \A w \in Urls : T[w] <= U[w]
    /\ y.url = u /\ ~y.disc /\ ~Ghost(y) /\ y.req_time = T[u] + 1

LEMMA StartedObjects ==
    ASSUME NEW obj, NEW T \in Times, ObjectsOK(obj, T), NEW o \in Objects, obj[o].url = NONE,
           NEW u \in Urls, T[u] < MaxTime, NEW cand, Candidate(obj, u, cand), AllExpired(obj, u)
    PROVE  Started(obj, T, o, u, Requested(u, T[u] + 1, cand), [T EXCEPT ![u] = @ + 1])
<1> DEFINE y == Requested(u, T[u] + 1, cand)
           U == [T EXCEPT ![u] = @ + 1]
<1>1. T[u] \in 0 .. MaxTime /\ T[u] + 1 \in 0 .. MaxTime /\ T[u] \in Nat
  BY CacheAssumption DEF Times
<1>2. U \in Times /\ U[u] = T[u] + 1 /\ \A w \in Urls : T[w] <= U[w]
  <2>1. \A w \in Urls : T[w] \in Nat
    BY CacheAssumption DEF Times
  <2> QED  BY <1>1, <2>1 DEF Times
<1>3. /\ y \in ObjectRec
      /\ y.url = u /\ y.req_time = T[u] + 1 /\ y.candidate = cand /\ y.users /\ y.fetching
      /\ ~y.disc /\ ~y.expired /\ y.source = NONE /\ y.candidate_count = 0
  <2>1. cand \in Objects \cup {NONE}
    BY DEF Candidate
  <2> QED  BY <1>1, <2>1, RequestedRec
<1>4. y \in ObjectRec
  BY <1>3
<1> HIDE DEF y, U
<1>5. ~Ghost(y) /\ u # NONE
  BY <1>3, GarbageAssumption DEF Ghost
<1>6. Sane(y, U)
  BY <1>1, <1>2, <1>3, <1>5 DEF Sane
<1>7. ObjectsOK(obj, U)
  <2>1. \A w \in Urls : T[w] <= U[w]
    BY <1>2
  <2> QED  BY <1>2, <2>1, LaterTimes
<1>8. ASSUME NEW p \in Objects, p # o
      PROVE  Apart(y, obj[p]) /\ Apart(obj[p], y)
  <2>1. CASE obj[p].url = u
    <3>1. obj[p].expired /\ (obj[p].disc => obj[p].source # NONE)
      BY <2>1 DEF AllExpired
    <3>2. obj[p].req_time <= T[u] /\ obj[p].req_time \in Nat
      <4>1. obj[p] \in ObjectRec /\ Sane(obj[p], T)
        BY ObjectFields
      <4>2. obj[p].req_time \in Nat
        BY <4>1, RecTypes, Zenon
      <4> QED  BY <1>5, <2>1, <4>1, <4>2 DEF Sane
    <3> QED  BY <1>1, <1>3, <3>1, <3>2 DEF Apart
  <2>2. CASE obj[p].url # u
    BY <1>3, <2>2 DEF Apart
  <2> QED  BY <2>1, <2>2
<1>9. \A p \in Objects : p # o /\ obj[p].candidate = o => Validates(obj[p], y)
  <2> SUFFICES ASSUME NEW p \in Objects, obj[p].candidate = o
               PROVE  FALSE
    OBVIOUS
  <2>1. obj[p].candidate # NONE
    BY CacheAssumption
  <2>2. Validates(obj[p], obj[o]) /\ obj[p].fetching
    BY <2>1, CandidateFacts
  <2>3. obj[p].url \in Urls
    BY <2>2, FetchingAlone
  <2> QED  BY <2>2, <2>3, GarbageAssumption DEF Validates
<1>10. y.candidate # NONE => y.candidate # o /\ Validates(y, obj[y.candidate])
  BY <1>3, <1>5 DEF Candidate, Validates
<1>11. ObjectsOK([obj EXCEPT ![o] = y], U)
  BY <1>4, <1>6, <1>7, <1>8, <1>9, <1>10, ObjectChanged
<1>12. Started(obj, T, o, u, y, U)
  BY <1>2, <1>3, <1>5, <1>11 DEF Started
<1> QED  BY <1>12 DEF y, U

\* The cache e is c with a new object.
Headed(c, e, o, y) ==
    /\ IsCache(e) /\ e.store = c.store /\ e.list = <<o>> \o c.list
    /\ e.object = [c.object EXCEPT ![o] = y]

LEMMA StartFetchFields ==
    ASSUME NEW c, IsCache(c), NEW u, NEW cand, cand # NONE => c.object[cand].no_cache = FALSE
    PROVE  Headed(c, StartFetch(c, u, cand), Min(Free(c)), Requested(u, time[u] + 1, cand))
<1> DEFINE o == Min(Free(c))
           e == StartFetch(c, u, cand)
           y == [NoObject EXCEPT !.url = u, !.users = TRUE, !.fetching = TRUE,
                                 !.req_time = time[u] + 1, !.candidate = cand,
                                 !.no_cache = cand # NONE /\ c.object[cand].no_cache]
<1>1. e = [c EXCEPT !.object = [@ EXCEPT ![o] = y], !.list = <<o>> \o @]
  BY DEF StartFetch
<1>2. y = Requested(u, time[u] + 1, cand)
  <2>1. (cand # NONE /\ c.object[cand].no_cache) = FALSE
    OBVIOUS
  <2> QED  BY <2>1 DEF Requested
<1> HIDE DEF e, o, y
<1>3. IsCache(e) /\ e.store = c.store /\ e.list = <<o>> \o c.list /\ e.object = [c.object EXCEPT ![o] = y]
  BY <1>1 DEF IsCache
<1>4. Headed(c, e, o, Requested(u, time[u] + 1, cand))
  BY <1>2, <1>3 DEF Headed
<1> QED  BY <1>4 DEF e, o

\* All ghosts but those of u are beside another object.
GhostsBut(obj, u) ==
    \A o \in Objects : Ghost(obj[o]) /\ obj[o].url # u =>
       \E p \in Objects : obj[p].url = obj[o].url /\ ~Ghost(obj[p])

\* The cache e after the request of u.
Begun(u, e) ==
    /\ Core(e, [time EXCEPT ![u] = @ + 1]) /\ GhostsOK(e.object)
    /\ \E o \in Objects : e.object[o].url = u /\ e.object[o].req_time > time[u]

LEMMA StartFetchKeeps ==
    ASSUME NEW c, Core(c, time), Free(c) # {}, NEW u \in Urls, time[u] < MaxTime, NEW cand,
           Candidate(c.object, u, cand), AllExpired(c.object, u), GhostsBut(c.object, u)
    PROVE  Begun(u, StartFetch(c, u, cand))
<1> DEFINE e == StartFetch(c, u, cand)
<1> DEFINE o == Min(Free(c))
           y == Requested(u, time[u] + 1, cand)
           U == [time EXCEPT ![u] = @ + 1]
           new == [c.object EXCEPT ![o] = y]
<1>1. IsCache(c) /\ time \in Times /\ ObjectsOK(c.object, time) /\ ListOK(c.list, c.object)
      /\ c.object \in Maps
  BY DEF Core, ObjectsOK
<1>2. PICK l : StoreOK(c.store, c.object, time, l)
  BY DEF Core
<1>3. o \in Objects /\ c.object[o].url = NONE
  BY FreeFacts
<1>4. IsCache(e) /\ e.store = c.store /\ e.list = <<o>> \o c.list /\ e.object = new
  <2>1. cand # NONE => c.object[cand].no_cache = FALSE
    <3>1. ASSUME cand # NONE PROVE c.object[cand].no_cache = FALSE
      <4>1. c.object[cand] \in ObjectRec
        BY <1>1, <3>1 DEF Candidate, Maps
      <4> QED  BY <4>1, RecTypes, Zenon
    <3> QED  BY <3>1
  <2>2. cand # NONE => c.object[cand].no_cache = FALSE
    BY <2>1
  <2>3. Headed(c, e, o, y)
    BY <1>1, <2>2, StartFetchFields, Zenon
  <2> QED  BY <2>3, Zenon DEF Headed
<1> HIDE DEF o, e
<1>5. /\ ObjectsOK(new, U) /\ U \in Times /\ \A w \in Urls : time[w] <= U[w]
      /\ y.url = u /\ ~y.disc /\ ~Ghost(y) /\ y.req_time = time[u] + 1
  <2>1. Started(c.object, time, o, u, y, U)
    BY <1>1, <1>3, StartedObjects, Zenon
  <2> QED  BY <2>1, Zenon DEF Started
<1>6. \A p \in Objects : new[p] = IF p = o THEN y ELSE c.object[p]
  BY <1>1 DEF Maps
<1> HIDE DEF y, U
<1>7. ListOK(e.list, new)
  <2>1. y.url # NONE
    BY <1>5, GarbageAssumption
  <2>2. c.object \in [Objects -> ObjectRec]
    BY <1>1 DEF Maps
  <2> QED  BY <1>1, <1>3, <1>4, <2>1, <2>2, ListWith
<1>8. StoreOK(e.store, new, time, l)
  <2>1. \A w \in Urls : ~Owns(y, w) /\ ~Owns(c.object[o], w)
    <3>1. \A w \in Urls : w # NONE
      BY GarbageAssumption
    <3> QED  BY <1>3, <1>5, <3>1 DEF Owns
  <2> QED  BY <1>1, <1>2, <1>3, <1>4, <1>5, <2>1, StoreSame
<1>9. StoreOK(e.store, new, U, l)
  <2>1. LatestOK(l, U)
    BY <1>1, <1>5, <1>8, LaterLatest DEF StoreOK
  <2> QED  BY <1>8, <2>1 DEF StoreOK
<1>10. Core(e, U)
  <2> HIDE DEF new
  <2> QED  BY <1>4, <1>5, <1>7, <1>9 DEF Core
<1>11. GhostsOK(new)
  <2> SUFFICES ASSUME NEW p \in Objects, Ghost(new[p])
               PROVE  \E q \in Objects : new[q].url = new[p].url /\ ~Ghost(new[q])
    BY DEF GhostsOK
  <2>1. p # o /\ new[p] = c.object[p]
    BY <1>5, <1>6
  <2>2. CASE new[p].url = u
    BY <1>3, <1>5, <1>6, <2>2
  <2>3. CASE new[p].url # u
    <3>1. PICK q \in Objects : c.object[q].url = c.object[p].url /\ ~Ghost(c.object[q])
      BY <2>1, <2>3 DEF GhostsBut
    <3>2. q # o
      BY <1>3, <2>1, <3>1 DEF Ghost
    <3> QED  BY <1>6, <2>1, <3>1, <3>2
  <2> QED  BY <2>2, <2>3
<1>12. \E p \in Objects : e.object[p].url = u /\ e.object[p].req_time > time[u]
  <2>1. time[u] \in Nat
    BY <1>1, CacheAssumption DEF Times
  <2>2. e.object[o].url = u /\ e.object[o].req_time = time[u] + 1
    BY <1>3, <1>4, <1>5, <1>6
  <2> QED  BY <1>3, <2>1, <2>2
<1>13. Begun(u, e)
  BY <1>4, <1>10, <1>11, <1>12 DEF U, Begun
<1> QED  BY <1>13 DEF e


-----------------------------------------------------------------------------
(* The cache with one object changed.                                       *)

LEMMA OneChanged ==
    ASSUME NEW c, NEW T, Core(c, T), NEW o \in Objects, NEW y \in ObjectRec, Sane(y, T),
           y.url = c.object[o].url,
           \A p \in Objects : p # o => Apart(y, c.object[p]) /\ Apart(c.object[p], y),
           y.candidate # NONE => y.candidate # o /\ Validates(y, c.object[y.candidate]),
           \A p \in Objects : p # o /\ c.object[p].candidate = o => Validates(c.object[p], y),
           y.disc => c.object[o].disc /\ y.ver = c.object[o].ver,
           \A u \in Urls : Owns(y, u) <=> Owns(c.object[o], u),
           NEW e, IsCache(e), e.store = c.store, e.list = c.list,
           e.object = [c.object EXCEPT ![o] = y]
    PROVE  Core(e, T)
<1> DEFINE new == [c.object EXCEPT ![o] = y]
<1>1. ObjectsOK(c.object, T) /\ ListOK(c.list, c.object) /\ T \in Times /\ c.object \in Maps
  BY DEF Core, ObjectsOK
<1>2. PICK l : StoreOK(c.store, c.object, T, l)
  BY DEF Core
<1>3. ObjectsOK(new, T)
  BY <1>1, ObjectChanged, Zenon
<1>4. ListOK(c.list, new)
  <2>1. \A p \in Objects : new[p].url # NONE <=> c.object[p].url # NONE
    BY <1>1 DEF Maps
  <2> HIDE DEF new
  <2> QED  BY <1>1, <2>1, ListSame
<1>5. StoreOK(c.store, new, T, l)
  BY <1>1, <1>2, StoreSame, Zenon
<1> HIDE DEF new
<1>6. e.object = new
  BY DEF new
<1> QED  BY <1>1, <1>3, <1>4, <1>5, <1>6, Zenon DEF Core

\* y is x of another number of users.
SameResponse(x, y) ==
    /\ y.url = x.url /\ y.disc = x.disc /\ y.source = x.source /\ y.source_len = x.source_len
    /\ y.ver = x.ver /\ y.req_time = x.req_time /\ y.expired = x.expired
    /\ y.candidate = x.candidate /\ y.fetching = x.fetching
    /\ x.candidate_count > 0 => y.candidate_count > 0

LEMMA SameKeeps ==
    ASSUME NEW c, NEW T, Core(c, T), NEW o \in Objects, NEW y \in ObjectRec, Sane(y, T),
           SameResponse(c.object[o], y),
           NEW e, IsCache(e), e.store = c.store, e.list = c.list,
           e.object = [c.object EXCEPT ![o] = y]
    PROVE  Core(e, T) /\ (GhostsOK(c.object) => GhostsOK(e.object))
<1> DEFINE x == c.object[o]
<1>1. ObjectsOK(c.object, T) /\ c.object \in Maps
  BY DEF Core, ObjectsOK
<1>2. ASSUME NEW p \in Objects, p # o
      PROVE  Apart(y, c.object[p]) /\ Apart(c.object[p], y)
  <2>1. Apart(x, c.object[p]) /\ Apart(c.object[p], x)
    BY <1>1, <1>2 DEF ObjectsOK
  <2>2. y.url = x.url /\ y.disc = x.disc /\ y.req_time = x.req_time /\ y.expired = x.expired
        /\ y.source = x.source
    BY Zenon DEF SameResponse
  <2> HIDE DEF x
  <2> QED  BY <2>1, <2>2, Zenon DEF Apart
<1>3. ASSUME y.candidate # NONE
      PROVE  y.candidate # o /\ Validates(y, c.object[y.candidate])
  <2>1. y.candidate = x.candidate /\ y.url = x.url
    BY Zenon DEF SameResponse
  <2>2. x.candidate # o /\ Validates(x, c.object[x.candidate])
    BY <1>1, <1>3, <2>1, CandidateFacts, Zenon
  <2> HIDE DEF x
  <2> QED  BY <2>1, <2>2, Zenon DEF Validates
<1>4. ASSUME NEW p \in Objects, c.object[p].candidate = o
      PROVE  Validates(c.object[p], y)
  <2>1. c.object[p].candidate # NONE
    BY <1>4, CacheAssumption
  <2>2. Validates(c.object[p], c.object[o])
    BY <1>1, <1>4, <2>1, CandidateFacts
  <2> QED  BY <2>2, Zenon DEF Validates, SameResponse
<1>5. \A u \in Urls : Owns(y, u) <=> Owns(x, u)
  BY Zenon DEF Owns, SameResponse
<1>6. Core(e, T)
  <2>1. y.url = x.url /\ y.disc = x.disc /\ y.ver = x.ver
    BY Zenon DEF SameResponse
  <2> QED  BY <1>2, <1>3, <1>4, <1>5, <2>1, OneChanged, ZenonT(60)
<1>7. ASSUME GhostsOK(c.object) PROVE GhostsOK(e.object)
  <2>1. \A p \in Objects : e.object[p] = IF p = o THEN y ELSE c.object[p]
    BY <1>1 DEF Maps
  <2>2. y.url = x.url /\ (Ghost(y) <=> Ghost(x))
    BY Zenon DEF SameResponse, Ghost
  <2>3. \A p \in Objects : e.object[p].url = c.object[p].url /\ (Ghost(e.object[p]) <=> Ghost(c.object[p]))
    BY <2>1, <2>2, Zenon
  <2> HIDE DEF x
  <2> QED  BY <1>7, <2>3 DEF GhostsOK
<1> QED  BY <1>6, <1>7


-----------------------------------------------------------------------------
(* The newest object of a URL.                                              *)

IsNewest(obj, u, n) ==
    /\ n \in Objects /\ obj[n].url = u
    /\ \A p \in Objects : obj[p].url = u => obj[p].req_time <= obj[n].req_time

LEMMA LatestIn ==
    ASSUME NEW obj \in Maps, NEW S \in SUBSET Objects, S # {}
    PROVE  \E n \in S : \A p \in S : obj[p].req_time <= obj[n].req_time
<1> DEFINE left(o) == MaxTime - obj[o].req_time
           D == {left(o) : o \in S}
<1>1. \A o \in S : obj[o].req_time \in 0 .. MaxTime
  <2> HIDE DEF Sources
  <2> QED  BY DEF Maps, ObjectRec
<1>2. MaxTime \in Nat /\ D \in SUBSET Nat /\ D # {}
  BY <1>1, CacheAssumption
<1>3. PICK x \in D : \A y \in D : ~(<<y, x>> \in OpToRel(<, Nat))
  <2> HIDE DEF D
  <2> QED  BY <1>2, NatLessThanWellFounded, WFMin, Zenon
<1>4. \A y \in D : ~(y < x)
  <2> HIDE DEF D
  <2> QED  BY <1>2, <1>3, Zenon DEF OpToRel
<1>5. PICK n \in S : x = left(n)
  OBVIOUS
<1>6. ASSUME NEW p \in S PROVE obj[p].req_time <= obj[n].req_time
  <2>1. ~(left(p) < left(n))
    BY <1>4, <1>5
  <2> QED  BY <1>1, <1>2, <2>1
<1> QED  BY <1>6

LEMMA NewestFacts ==
    ASSUME NEW c, NEW T, Core(c, T), NEW u \in Urls
    PROVE  \/ Newest(c, u) = NONE /\ \A p \in Objects : c.object[p].url # u
           \/ Newest(c, u) # NONE /\ IsNewest(c.object, u, Newest(c, u))
<1> DEFINE same == {o \in ToSet(c.list) : c.object[o].url = u}
<1>1. c.object \in Maps /\ ListOK(c.list, c.object) /\ c.list \in Seq(Objects)
  BY DEF Core, ObjectsOK, ListOK
<1>2. same = {o \in Objects : c.object[o].url = u}
  <2>1. ToSet(c.list) = {o \in Objects : Has(c.list, o)}
    BY <1>1, ListMember
  <2>2. \A o \in Objects : c.object[o].url = u => Has(c.list, o)
    BY <1>1, GarbageAssumption DEF ListOK
  <2> QED  BY <2>1, <2>2
<1>3. CASE same = {}
  <2>1. Newest(c, u) = NONE
    BY <1>3 DEF Newest
  <2> QED  BY <1>2, <1>3, <2>1
<1>4. CASE same # {}
  <2>1. Newest(c, u) = CHOOSE o \in same : \A p \in same : c.object[p].req_time <= c.object[o].req_time
    BY <1>4 DEF Newest
  <2>2. \E o \in same : \A p \in same : c.object[p].req_time <= c.object[o].req_time
    <3>1. same \in SUBSET Objects
      BY <1>2
    <3> HIDE DEF same
    <3> QED  BY <1>1, <1>4, <3>1, LatestIn, Zenon
  <2> HIDE DEF same
  <2>3. /\ Newest(c, u) \in same
        /\ \A p \in same : c.object[p].req_time <= c.object[Newest(c, u)].req_time
    BY <2>1, <2>2, Zenon
  <2>4. IsNewest(c.object, u, Newest(c, u))
    BY <1>2, <2>3 DEF IsNewest
  <2>5. Newest(c, u) # NONE
    BY <2>4, CacheAssumption DEF IsNewest
  <2> QED  BY <2>4, <2>5
<1> QED  BY <1>3, <1>4

\* The newest object is no ghost; the others are expired, and are loaded if it is in memory.
LEMMA NewestAlone ==
    ASSUME NEW obj, NEW T, ObjectsOK(obj, T), NEW u \in Urls, NEW n, IsNewest(obj, u, n)
    PROVE  /\ GhostsOK(obj) => ~Ghost(obj[n])
           /\ \A p \in Objects : p # n /\ obj[p].url = u =>
                 obj[p].expired /\ (obj[p].disc => obj[p].source # NONE)
<1>1. n \in Objects /\ obj[n].url = u /\ u # NONE
  BY GarbageAssumption DEF IsNewest
<1>2. \A p \in Objects : obj[p].req_time \in Nat /\ obj[p].expired \in BOOLEAN
  <2>1. \A p \in Objects : obj[p] \in ObjectRec
    BY ObjectFields
  <2> QED  BY <2>1, RecTypes, Zenon
<1>3. ASSUME GhostsOK(obj), Ghost(obj[n])
      PROVE  FALSE
  <2>1. PICK p \in Objects : obj[p].url = u /\ ~Ghost(obj[p])
    BY <1>1, <1>3 DEF GhostsOK
  <2>2. Sane(obj[p], T) /\ Sane(obj[n], T)
    BY <1>1, ObjectFields
  <2>3. obj[p].req_time # 0 /\ obj[n].req_time = 0
    BY <1>1, <1>3, <2>1, <2>2 DEF Sane
  <2>4. obj[p].req_time <= obj[n].req_time
    BY <2>1 DEF IsNewest
  <2> QED  BY <1>2, <2>3, <2>4
<1>4. ASSUME NEW p \in Objects, p # n, obj[p].url = u
      PROVE  obj[p].expired /\ (obj[p].disc => obj[p].source # NONE)
  <2>1. Apart(obj[p], obj[n])
    BY <1>1, <1>4 DEF ObjectsOK
  <2>2. obj[p].req_time <= obj[n].req_time
    BY <1>4 DEF IsNewest
  <2>3. ~(obj[n].req_time < obj[p].req_time)
    BY <1>1, <1>2, <2>2
  <2> QED  BY <1>1, <1>4, <2>1, <2>3, Zenon DEF Apart
<1> QED  BY <1>3, <1>4


-----------------------------------------------------------------------------
(* A request.                                                               *)

\* What is true of the cache e after the request of u is served.
Served(u, e) == Core(e, time) /\ GhostsOK(e.object)

LEMMA LostKeeps ==
    ASSUME NEW c, Core(c, time), GhostsOK(c.object), NEW u \in Urls, time[u] < MaxTime, NEW n,
           IsNewest(c.object, u, n), c.object[n].disc, c.object[n].source = NONE
    PROVE  Begun(u, StartFetch(Destroy(c, n), u, NONE))
<1> DEFINE d == Destroy(c, n)
           x == c.object[n]
<1>1. n \in Objects /\ x.url = u /\ u # NONE /\ ObjectsOK(c.object, time) /\ c.object \in Maps
  BY GarbageAssumption DEF IsNewest, Core, ObjectsOK
<1>2. x.candidate_count = 0
  <2>1. x \in ObjectRec /\ Sane(x, time)
    BY <1>1, ObjectFields
  <2>2. x.candidate_count \in Nat
    BY <2>1, RecTypes, Zenon
  <2> QED  BY <2>1, <2>2 DEF Sane
<1>3. Core(d, time)
  BY <1>1, <1>2, DestroyKeeps, Zenon
<1>4. \A p \in Objects : d.object[p] = IF p = n THEN NoObject ELSE c.object[p]
  <2>1. d.object = [c.object EXCEPT ![n] = NoObject]
    BY DestroyFields, Zenon
  <2> HIDE DEF d
  <2> QED  BY <1>1, <2>1 DEF Maps
<1> HIDE DEF d
<1>5. NoObject.url = NONE
  BY DEF NoObject
<1>6. Free(d) # {}
  BY <1>1, <1>4, <1>5 DEF Free
<1>7. AllExpired(d.object, u)
  <2>1. \A p \in Objects : p # n /\ c.object[p].url = u =>
           c.object[p].expired /\ (c.object[p].disc => c.object[p].source # NONE)
    BY <1>1, NewestAlone, Zenon
  <2> QED  BY <1>1, <1>4, <1>5, <2>1 DEF AllExpired
<1>8. GhostsBut(d.object, u)
  <2> SUFFICES ASSUME NEW o \in Objects, Ghost(d.object[o]), d.object[o].url # u
               PROVE  \E p \in Objects : d.object[p].url = d.object[o].url /\ ~Ghost(d.object[p])
    BY DEF GhostsBut
  <2>1. o # n /\ d.object[o] = c.object[o]
    BY <1>4, <1>5 DEF Ghost
  <2>2. PICK p \in Objects : c.object[p].url = c.object[o].url /\ ~Ghost(c.object[p])
    BY <2>1 DEF GhostsOK
  <2>3. p # n
    BY <1>1, <2>1, <2>2
  <2> QED  BY <1>4, <2>1, <2>2, <2>3
<1>9. Candidate(d.object, u, NONE)
  BY DEF Candidate
<1>10. Begun(u, StartFetch(d, u, NONE))
  BY <1>3, <1>6, <1>7, <1>8, <1>9, StartFetchKeeps, Zenon
<1> QED  BY <1>10 DEF d

\* c with users at n, or without.
Using(c, n, yes) == [c EXCEPT !.object[n].users = yes]

\* The cache e is c with y at n.
Changed(c, e, n, y) ==
    IsCache(e) /\ e.store = c.store /\ e.list = c.list /\ e.object = [c.object EXCEPT ![n] = y]

LEMMA UsingFields ==
    ASSUME NEW c, IsCache(c), NEW n, NEW yes
    PROVE  Changed(c, Using(c, n, yes), n, [c.object[n] EXCEPT !.users = yes])
  BY DEF IsCache, Using, Changed

LEMMA UsedKeeps ==
    ASSUME NEW c, Core(c, time), GhostsOK(c.object), NEW u \in Urls, NEW n,
           IsNewest(c.object, u, n), c.object[n].source # NONE \/ ~c.object[n].disc
    PROVE  Served(u, Using(c, n, TRUE))
<1> DEFINE e == Using(c, n, TRUE)
           x == c.object[n]
           y == [x EXCEPT !.users = TRUE]
<1>1. n \in Objects /\ x.url = u /\ u # NONE /\ ObjectsOK(c.object, time) /\ IsCache(c)
  BY GarbageAssumption DEF IsNewest, Core
<1>2. x \in ObjectRec /\ Sane(x, time) /\ ~Ghost(x)
  BY <1>1, ObjectFields, NewestAlone
<1>3. IsCache(e) /\ e.store = c.store /\ e.list = c.list /\ e.object = [c.object EXCEPT ![n] = y]
  <2>1. Changed(c, e, n, y)
    BY <1>1, UsingFields, Zenon
  <2> HIDE DEF e, y
  <2> QED  BY <2>1, Zenon DEF Changed
<1>4. y \in ObjectRec
  <2> HIDE DEF Sources
  <2> QED  BY <1>2 DEF ObjectRec
<1>5. SameResponse(x, y) /\ y.candidate_count = x.candidate_count
  <2> HIDE DEF x
  <2> QED  BY <1>2 DEF SameResponse, ObjectRec
<1> HIDE DEF y, e
<1>6. Sane(y, time)
  <2>1. y.source # NONE \/ ~y.disc
    BY <1>5 DEF SameResponse
  <2>2. ~Ghost(y)
    BY <1>2, <1>5 DEF Ghost, SameResponse
  <2>3. y.url # NONE
    BY <1>1, <1>5 DEF SameResponse
  <2> QED  BY <1>2, <1>5, <2>1, <2>2, <2>3 DEF Sane, SameResponse
<1>7. Core(e, time) /\ (GhostsOK(c.object) => GhostsOK(e.object))
  BY <1>1, <1>3, <1>4, <1>5, <1>6, SameKeeps
<1>8. Served(u, e)
  BY <1>7 DEF Served
<1> QED  BY <1>8 DEF e

LEMMA ValidatedKeeps ==
    ASSUME NEW c, Core(c, time), GhostsOK(c.object), Free(c) # {}, NEW u \in Urls, time[u] < MaxTime,
           NEW n, IsNewest(c.object, u, n), c.object[n].source # NONE \/ ~c.object[n].disc,
           c.object[n].expired, ~c.object[n].fetching
    PROVE  Begun(u, StartFetch([c EXCEPT !.object[n].candidate_count = @ + 1], u, n))
<1> DEFINE d == [c EXCEPT !.object[n].candidate_count = @ + 1]
           x == c.object[n]
           y == [x EXCEPT !.candidate_count = @ + 1]
<1>1. /\ n \in Objects /\ x.url = u /\ u # NONE /\ ObjectsOK(c.object, time) /\ IsCache(c)
      /\ c.object \in Maps
  BY GarbageAssumption DEF IsNewest, Core, ObjectsOK
<1>2. x \in ObjectRec /\ Sane(x, time) /\ ~Ghost(x)
  BY <1>1, ObjectFields, NewestAlone
<1>3. IsCache(d) /\ d.store = c.store /\ d.list = c.list /\ d.object = [c.object EXCEPT ![n] = y]
  BY <1>1 DEF IsCache
<1>4. y \in ObjectRec
  <2>0. x.candidate_count \in Nat
    BY <1>2, RecTypes, Zenon
  <2>1. x.candidate_count + 1 \in Nat
    BY <2>0
  <2> HIDE DEF Sources, x
  <2> QED  BY <1>2, <2>1 DEF ObjectRec
<1>5. SameResponse(x, y) /\ y.candidate_count > 0
  <2>1. x.candidate_count \in Nat
    BY <1>2, RecTypes, Zenon
  <2> HIDE DEF x
  <2> QED  BY <1>2, <2>1 DEF SameResponse, ObjectRec
<1> HIDE DEF y, d
<1>6. y.source # NONE /\ y.url = u /\ y.expired /\ ~y.fetching
  BY <1>1, <1>2, <1>5 DEF Ghost, SameResponse
<1>7. Sane(y, time)
  <2>1. ~Ghost(y)
    BY <1>6 DEF Ghost
  <2> QED  BY <1>1, <1>2, <1>5, <1>6, <2>1 DEF Sane, SameResponse
<1>8. Core(d, time) /\ GhostsOK(d.object)
  BY <1>1, <1>3, <1>4, <1>5, <1>7, SameKeeps
<1>9. \A p \in Objects : d.object[p] = IF p = n THEN y ELSE c.object[p]
  BY <1>1, <1>3 DEF Maps
<1>10. Candidate(d.object, u, n)
  BY <1>1, <1>5, <1>6, <1>9 DEF Candidate
<1>11. AllExpired(d.object, u)
  <2>1. \A p \in Objects : p # n /\ c.object[p].url = u =>
           c.object[p].expired /\ (c.object[p].disc => c.object[p].source # NONE)
    BY <1>1, NewestAlone, Zenon
  <2> QED  BY <1>6, <1>9, <2>1 DEF AllExpired
<1>12. Free(d) # {}
  <2>1. PICK p \in Objects : c.object[p].url = NONE
    BY DEF Free
  <2>2. d.object[p].url = NONE
    BY <1>1, <1>9, <2>1
  <2> QED  BY <2>2 DEF Free
<1>13. GhostsBut(d.object, u)
  BY <1>8 DEF GhostsOK, GhostsBut
<1>14. Begun(u, StartFetch(d, u, n))
  BY <1>8, <1>10, <1>11, <1>12, <1>13, StartFetchKeeps, Zenon
<1> QED  BY <1>14 DEF d


LEMMA ReadNewest ==
    ASSUME NEW c, NEW u, NEW n, IsNewest(c.object, u, n), NEW r, Retrieved1(c, n, r)
    PROVE  /\ GhostsOK(c.object) => GhostsOK(r.c.object)
           /\ IsNewest(r.c.object, u, n)
           /\ Free(c) # {} => Free(r.c) # {}
<1>1. \A p \in Objects : /\ r.c.object[p].url = c.object[p].url
                         /\ r.c.object[p].req_time = c.object[p].req_time
                         /\ Ghost(r.c.object[p]) <=> Ghost(c.object[p])
  BY Zenon DEF Retrieved1, Reads
<1>2. n \in Objects
  BY DEF IsNewest
<1>3. GhostsOK(c.object) => GhostsOK(r.c.object)
  BY <1>1 DEF GhostsOK
<1>4. IsNewest(r.c.object, u, n)
  BY <1>1, <1>2 DEF IsNewest
<1>5. Free(r.c) = Free(c)
  BY <1>1 DEF Free
<1> QED  BY <1>3, <1>4, <1>5

\* How a request of u is answered, with what the store said known.
Answered(d, n, u, r) ==
    IF ~r.ok THEN StartFetch(Destroy(r.c, n), u, NONE)
    ELSE IF Fresh(d.object[n]) THEN Using(r.c, n, TRUE)
    ELSE StartFetch([r.c EXCEPT !.object[n].candidate_count = @ + 1], u, n)

Answers(d, n, u) ==
    IF n = NONE THEN {StartFetch(d, u, NONE)} ELSE {Answered(d, n, u, r) : r \in RetrievePersisted(d, n)}

LEMMA AnsweredKeeps ==
    ASSUME NEW d, Core(d, time), GhostsOK(d.object), Free(d) # {}, NEW u \in Urls, time[u] < MaxTime,
           NEW n, IsNewest(d.object, u, n), NEW r \in RetrievePersisted(d, n)
    PROVE  Begun(u, Answered(d, n, u, r)) \/ Served(u, Answered(d, n, u, r))
<1>1. n \in Objects
  BY DEF IsNewest
<1>2. Core(r.c, time) /\ Retrieved1(d, n, r)
  BY <1>1, RetrievePersistedKeeps, Zenon
<1>3. GhostsOK(r.c.object) /\ IsNewest(r.c.object, u, n) /\ Free(r.c) # {}
  BY <1>2, ReadNewest, Zenon
<1>4. r.c.object[n].expired = d.object[n].expired /\ r.c.object[n].fetching = d.object[n].fetching
  BY <1>2, Zenon DEF Retrieved1, Reads
<1>5. CASE ~r.ok
  <2>1. r.c.object[n].disc /\ r.c.object[n].source = NONE
    BY <1>2, <1>5, Zenon DEF Retrieved1
  <2>2. Begun(u, StartFetch(Destroy(r.c, n), u, NONE))
    BY <1>2, <1>3, <2>1, LostKeeps, Zenon
  <2> QED  BY <1>5, <2>2, Zenon DEF Answered
<1>6. CASE r.ok /\ Fresh(d.object[n])
  <2>1. r.c.object[n].source # NONE \/ ~r.c.object[n].disc
    BY <1>2, <1>6, Zenon DEF Retrieved1
  <2>2. Served(u, Using(r.c, n, TRUE))
    BY <1>2, <1>3, <2>1, UsedKeeps, Zenon
  <2> QED  BY <1>6, <2>2, Zenon DEF Answered
<1>7. CASE r.ok /\ ~Fresh(d.object[n])
  <2>1. r.c.object[n].source # NONE \/ ~r.c.object[n].disc
    BY <1>2, <1>7, Zenon DEF Retrieved1
  <2>2. r.c.object[n].expired /\ ~r.c.object[n].fetching
    <3>1. d.object[n] \in ObjectRec
      BY <1>1 DEF Core, ObjectsOK, Maps
    <3>2. d.object[n].no_cache = FALSE
      BY <3>1, RecTypes, Zenon
    <3> QED  BY <1>4, <1>7, <3>2, Zenon DEF Fresh
  <2>3. Begun(u, StartFetch([r.c EXCEPT !.object[n].candidate_count = @ + 1], u, n))
    BY <1>2, <1>3, <2>1, <2>2, ValidatedKeeps, Zenon
  <2> QED  BY <1>7, <2>3, Zenon DEF Answered
<1> QED  BY <1>5, <1>6, <1>7

LEMMA AnswersKeep ==
    ASSUME NEW d, Core(d, time), GhostsOK(d.object), Free(d) # {}, NEW u \in Urls, time[u] < MaxTime,
           NEW e \in Answers(d, Newest(d, u), u)
    PROVE  Begun(u, e) \/ Served(u, e)
<1> DEFINE n == Newest(d, u)
<1>1. CASE n = NONE
  <2>1. e = StartFetch(d, u, NONE)
    BY <1>1 DEF Answers
  <2>2. \A p \in Objects : d.object[p].url # u
    BY <1>1, NewestFacts, Zenon
  <2>3. Candidate(d.object, u, NONE) /\ AllExpired(d.object, u) /\ GhostsBut(d.object, u)
    BY <2>2, Zenon DEF Candidate, AllExpired, GhostsBut, GhostsOK
  <2>4. Begun(u, StartFetch(d, u, NONE))
    BY <2>3, StartFetchKeeps, Zenon
  <2> QED  BY <2>1, <2>4
<1>2. CASE n # NONE
  <2>1. IsNewest(d.object, u, n)
    BY <1>2, NewestFacts, Zenon
  <2> HIDE DEF n
  <2>2. PICK r \in RetrievePersisted(d, n) : e = Answered(d, n, u, r)
    BY <1>2 DEF Answers, n
  <2>3. Begun(u, Answered(d, n, u, r)) \/ Served(u, Answered(d, n, u, r))
    BY <2>1, AnsweredKeeps, Zenon
  <2> QED  BY <2>2, <2>3
<1> QED  BY <1>1, <1>2

LEMMA RetrievedKeeps ==
    ASSUME MustValidate = {}, NEW c, Core(c, time), GhostsOK(c.object),
           Cardinality(Free(c)) > 1, NEW u \in Urls, time[u] < MaxTime, NEW e \in Retrieved(c, u)
    PROVE  Begun(u, e) \/ Served(u, e)
<1> DEFINE found == IF Newest(c, u) # NONE THEN {c} ELSE FromStore(c, u)
<1>1. PICK d \in found : e \in Answers(d, Newest(d, u), u)
  BY DEF Retrieved, Answers, Answered, Using
<1>2. Core(d, time) /\ GhostsOK(d.object) /\ Free(d) # {}
  <2>1. CASE Newest(c, u) # NONE
    BY <1>1, <2>1, FreeNonempty
  <2>2. CASE Newest(c, u) = NONE
    <3>1. \A p \in Objects : c.object[p].url # u
      BY <2>2, NewestFacts, Zenon
    <3>2. d \in FromStore(c, u)
      BY <1>1, <2>2
    <3> QED  BY <3>1, <3>2, FromStoreKeeps, Zenon
  <2> QED  BY <2>1, <2>2
<1> QED  BY <1>1, <1>2, AnswersKeep, Zenon


-----------------------------------------------------------------------------
(* The objects that the other handlers change.                              *)

\* The response x that has arrived in full.
Whole(x) ==
    [x EXCEPT !.fetching = FALSE, !.candidate = NONE, !.ver = x.req_time,
              !.no_cache = FALSE, !.source_len = 1, !.source = Source(x.url, x.req_time, 1)]

\* What a 304 response leaves of x.
Ghostly(x) ==
    [x EXCEPT !.users = FALSE, !.candidate = NONE, !.fetching = FALSE,
              !.req_time = 0, !.no_cache = FALSE, !.expired = TRUE]

\* The candidate q of x that is valid.
Revived(q, x) ==
    [q EXCEPT !.users = q.users \/ x.users, !.candidate_count = q.candidate_count - 1,
              !.expired = FALSE, !.req_time = x.req_time]

LEMMA WholeRec ==
    ASSUME NEW x \in ObjectRec, Source(x.url, x.req_time, 1) \in Sources
    PROVE  LET y == Whole(x) IN
           /\ y \in ObjectRec
           /\ y.url = x.url /\ y.users = x.users /\ y.disc = x.disc /\ y.req_time = x.req_time
           /\ y.expired = x.expired /\ y.candidate_count = x.candidate_count
           /\ ~y.fetching /\ y.candidate = NONE /\ y.ver = x.req_time /\ y.source_len = 1
           /\ y.source = Source(x.url, x.req_time, 1)
<1> HIDE DEF Sources
<1>1. Whole(x) \in ObjectRec
  BY DEF ObjectRec, Whole
<1>2. LET y == Whole(x) IN
      /\ y.url = x.url /\ y.users = x.users /\ y.disc = x.disc /\ y.req_time = x.req_time
      /\ y.expired = x.expired /\ y.candidate_count = x.candidate_count
      /\ ~y.fetching /\ y.candidate = NONE /\ y.ver = x.req_time /\ y.source_len = 1
      /\ y.source = Source(x.url, x.req_time, 1)
  BY DEF ObjectRec, Whole
<1> QED  BY <1>1, <1>2

LEMMA GhostlyRec ==
    ASSUME NEW x \in ObjectRec
    PROVE  LET y == Ghostly(x) IN
           /\ y \in ObjectRec
           /\ y.url = x.url /\ y.disc = x.disc /\ y.candidate_count = x.candidate_count
           /\ y.source = x.source /\ y.source_len = x.source_len /\ y.ver = x.ver
           /\ ~y.users /\ y.expired /\ ~y.fetching /\ y.candidate = NONE /\ y.req_time = 0
<1> HIDE DEF Sources
<1>1. 0 \in 0 .. MaxTime
  BY CacheAssumption
<1>2. Ghostly(x) \in ObjectRec
  BY <1>1 DEF ObjectRec, Ghostly
<1>3. LET y == Ghostly(x) IN
      /\ y.url = x.url /\ y.disc = x.disc /\ y.candidate_count = x.candidate_count
      /\ y.source = x.source /\ y.source_len = x.source_len /\ y.ver = x.ver
      /\ ~y.users /\ y.expired /\ ~y.fetching /\ y.candidate = NONE /\ y.req_time = 0
  BY DEF ObjectRec, Ghostly
<1> QED  BY <1>2, <1>3

LEMMA RevivedRec ==
    ASSUME NEW q \in ObjectRec, NEW x \in ObjectRec, q.candidate_count > 0
    PROVE  LET y == Revived(q, x) IN
           /\ y \in ObjectRec
           /\ y.url = q.url /\ y.disc = q.disc /\ y.fetching = q.fetching /\ y.candidate = q.candidate
           /\ y.source = q.source /\ y.source_len = q.source_len /\ y.ver = q.ver
           /\ ~y.expired /\ y.req_time = x.req_time
<1> HIDE DEF Sources
<1>1. q.candidate_count - 1 \in Nat
  <2>1. q.candidate_count \in Nat
    BY RecTypes, Zenon
  <2> QED  BY <2>1
<1>2. x.req_time \in 0 .. MaxTime /\ (q.users \/ x.users) \in BOOLEAN
  BY DEF ObjectRec
<1>3. Revived(q, x) \in ObjectRec
  BY <1>1, <1>2 DEF ObjectRec, Revived
<1>4. LET y == Revived(q, x) IN
      /\ y.url = q.url /\ y.disc = q.disc /\ y.fetching = q.fetching /\ y.candidate = q.candidate
      /\ y.source = q.source /\ y.source_len = q.source_len /\ y.ver = q.ver
      /\ ~y.expired /\ y.req_time = x.req_time
  BY DEF ObjectRec, Revived
<1> QED  BY <1>3, <1>4

LEMMA CountedRec ==
    ASSUME NEW x \in ObjectRec, x.candidate_count > 0
    PROVE  LET y == [x EXCEPT !.candidate_count = @ - 1] IN
           /\ y \in ObjectRec
           /\ y.url = x.url /\ y.users = x.users /\ y.disc = x.disc /\ y.fetching = x.fetching
           /\ y.candidate = x.candidate /\ y.source = x.source /\ y.source_len = x.source_len
           /\ y.ver = x.ver /\ y.expired = x.expired /\ y.req_time = x.req_time
           /\ y.candidate_count = x.candidate_count - 1
<1> HIDE DEF Sources
<1>1. x.candidate_count - 1 \in Nat
  <2>1. x.candidate_count \in Nat
    BY RecTypes, Zenon
  <2> QED  BY <2>1
<1> QED  BY <1>1 DEF ObjectRec

LEMMA ExpiredRec ==
    ASSUME NEW x \in ObjectRec
    PROVE  LET y == [x EXCEPT !.expired = TRUE] IN
           /\ y \in ObjectRec
           /\ y.url = x.url /\ y.users = x.users /\ y.disc = x.disc /\ y.fetching = x.fetching
           /\ y.candidate = x.candidate /\ y.source = x.source /\ y.source_len = x.source_len
           /\ y.ver = x.ver /\ y.expired /\ y.req_time = x.req_time
           /\ y.candidate_count = x.candidate_count
<1> HIDE DEF Sources
<1> QED  BY DEF ObjectRec

LEMMA LeftRec ==
    ASSUME NEW x \in ObjectRec
    PROVE  LET y == [x EXCEPT !.users = FALSE] IN
           /\ y \in ObjectRec /\ SameResponse(x, y) /\ ~y.users
           /\ y.candidate_count = x.candidate_count
<1> HIDE DEF Sources
<1> QED  BY DEF ObjectRec, SameResponse


LEMMA GhostsSame ==
    ASSUME NEW obj \in Maps, NEW o \in Objects, NEW y, y.url = obj[o].url,
           Ghost(y) <=> Ghost(obj[o]), GhostsOK(obj)
    PROVE  GhostsOK([obj EXCEPT ![o] = y])
<1> DEFINE new == [obj EXCEPT ![o] = y]
<1>1. \A p \in Objects : new[p] = IF p = o THEN y ELSE obj[p]
  BY DEF Maps
<1> HIDE DEF new
<1>2. \A p \in Objects : new[p].url = obj[p].url /\ (Ghost(new[p]) <=> Ghost(obj[p]))
  BY <1>1, Zenon
<1>3. GhostsOK(new)
  BY <1>2 DEF GhostsOK
<1> QED  BY <1>3 DEF new

LEMMA WholeKeeps ==
    ASSUME NEW c, NEW T, Core(c, T), NEW o \in Objects, c.object[o].fetching, 1 \in Sizes,
           NEW e, Changed(c, e, o, Whole(c.object[o]))
    PROVE  Core(e, T) /\ (GhostsOK(c.object) => GhostsOK(e.object))
<1> DEFINE x == c.object[o]
           y == Whole(x)
           src == Source(x.url, x.req_time, 1)
<1>1. ObjectsOK(c.object, T) /\ c.object \in Maps /\ x \in ObjectRec /\ Sane(x, T)
  BY ObjectFields DEF Core, ObjectsOK
<1>2. /\ x.url \in Urls /\ x.req_time > 0
      /\ \A p \in Objects : c.object[p].candidate # o
      /\ \A p \in Objects : p # o /\ c.object[p].url = x.url =>
            /\ c.object[p].expired /\ c.object[p].req_time < x.req_time
            /\ c.object[p].disc => c.object[p].source # NONE
  BY <1>1, FetchingAlone
<1>3. src \in Sources /\ src # NONE
  <2>1. src \in Sources
    <3>1. x.req_time \in 0 .. MaxTime
      BY <1>1 DEF ObjectRec
    <3> QED  BY <1>2, <3>1 DEF Sources
  <2>2. src \in Stored
    BY <2>1, CacheAssumption DEF Kinds
  <2> QED  BY <2>1, <2>2, NoneAssumption
<1> HIDE DEF src
<1>4. /\ y \in ObjectRec
      /\ y.url = x.url /\ y.users = x.users /\ y.disc = x.disc /\ y.req_time = x.req_time
      /\ y.expired = x.expired /\ y.candidate_count = x.candidate_count
      /\ ~y.fetching /\ y.candidate = NONE /\ y.ver = x.req_time /\ y.source_len = 1
      /\ y.source = src
  BY <1>1, <1>3, WholeRec DEF src
<1> HIDE DEF y
<1>5. ~x.disc /\ ~x.expired /\ x.url # NONE /\ x.req_time \in Nat
  <2>1. x.req_time \in Nat
    BY <1>1, RecTypes, Zenon
  <2> QED  BY <1>1, <1>2, <2>1, GarbageAssumption DEF Sane
<1>6. ~Ghost(y) /\ ~Ghost(x)
  BY <1>3, <1>4 DEF Ghost
<1>7. Sane(y, T)
  <2>1. x.req_time <= T[x.url]
    BY <1>1, <1>5 DEF Sane
  <2>2. y.source = Source(y.url, y.ver, 1)
    BY <1>4 DEF src
  <2> QED  BY <1>2, <1>4, <1>5, <1>6, <2>1, <2>2 DEF Sane
<1>8. ASSUME NEW p \in Objects, p # o
      PROVE  Apart(y, c.object[p]) /\ Apart(c.object[p], y)
  BY <1>2, <1>4, <1>5, <1>8 DEF Apart
<1>9. \A u \in Urls : Owns(y, u) <=> Owns(x, u)
  BY <1>4, <1>5 DEF Owns
<1>10. Core(e, T)
  BY <1>2, <1>4, <1>5, <1>7, <1>8, <1>9, OneChanged DEF Changed, y
<1>11. ASSUME GhostsOK(c.object) PROVE GhostsOK(e.object)
  <2>1. e.object = [c.object EXCEPT ![o] = y]
    BY Zenon DEF Changed, y
  <2> HIDE DEF x
  <2>2. GhostsOK([c.object EXCEPT ![o] = y])
    BY <1>1, <1>4, <1>6, <1>11, GhostsSame DEF x
  <2> QED  BY <2>1, <2>2
<1> QED  BY <1>10, <1>11

\* The candidate q of no other object is one no more.
LEMMA CountedKeeps ==
    ASSUME NEW c, NEW T, Core(c, T), NEW o \in Objects, c.object[o].candidate_count > 0,
           \A p \in Objects : c.object[p].candidate # o,
           NEW e, Changed(c, e, o, [c.object[o] EXCEPT !.candidate_count = @ - 1])
    PROVE  Core(e, T) /\ (GhostsOK(c.object) => GhostsOK(e.object))
<1> DEFINE x == c.object[o]
           y == [x EXCEPT !.candidate_count = @ - 1]
<1>1. ObjectsOK(c.object, T) /\ c.object \in Maps /\ x \in ObjectRec /\ Sane(x, T)
  BY ObjectFields DEF Core, ObjectsOK
<1>2. /\ y \in ObjectRec
      /\ y.url = x.url /\ y.users = x.users /\ y.disc = x.disc /\ y.fetching = x.fetching
      /\ y.candidate = x.candidate /\ y.source = x.source /\ y.source_len = x.source_len
      /\ y.ver = x.ver /\ y.expired = x.expired /\ y.req_time = x.req_time
      /\ y.candidate_count = x.candidate_count - 1
  BY <1>1, CountedRec
<1> HIDE DEF y
<1>3. x.url # NONE /\ ~x.fetching /\ x.candidate = NONE /\ ~Ghost(x)
  BY <1>1 DEF Sane, NoObject
<1>4. ~Ghost(y)
  BY <1>2, <1>3 DEF Ghost
<1>5. Sane(y, T)
  BY <1>1, <1>2, <1>3, <1>4 DEF Sane
<1>6. ASSUME NEW p \in Objects, p # o
      PROVE  Apart(y, c.object[p]) /\ Apart(c.object[p], y)
  <2>1. Apart(x, c.object[p]) /\ Apart(c.object[p], x)
    BY <1>1, <1>6 DEF ObjectsOK
  <2> HIDE DEF x
  <2> QED  BY <1>2, <2>1, Zenon DEF Apart
<1>7. \A u \in Urls : Owns(y, u) <=> Owns(x, u)
  BY <1>2 DEF Owns
<1>8. Core(e, T)
  <2>1. y.candidate = NONE /\ (y.disc => c.object[o].disc /\ y.ver = c.object[o].ver)
    BY <1>2, <1>3
  <2>2. \A p \in Objects : ~(p # o /\ c.object[p].candidate = o)
    OBVIOUS
  <2>3. IsCache(e) /\ e.store = c.store /\ e.list = c.list /\ e.object = [c.object EXCEPT ![o] = y]
    BY Zenon DEF Changed, y
  <2> QED  BY <1>2, <1>5, <1>6, <1>7, <2>1, <2>2, <2>3, OneChanged, ZenonT(60)
<1>9. ASSUME GhostsOK(c.object) PROVE GhostsOK(e.object)
  <2>1. e.object = [c.object EXCEPT ![o] = y]
    BY Zenon DEF Changed, y
  <2> HIDE DEF x
  <2>2. GhostsOK([c.object EXCEPT ![o] = y])
    BY <1>1, <1>2, <1>3, <1>4, <1>9, GhostsSame DEF x
  <2> QED  BY <2>1, <2>2
<1> QED  BY <1>8, <1>9

LEMMA ExpiredKeeps ==
    ASSUME NEW c, NEW T, Core(c, T), NEW o \in Objects, c.object[o].url # NONE,
           ~c.object[o].expired, ~c.object[o].fetching,
           NEW e, Changed(c, e, o, [c.object[o] EXCEPT !.expired = TRUE])
    PROVE  Core(e, T) /\ (GhostsOK(c.object) => GhostsOK(e.object))
<1> DEFINE x == c.object[o]
           y == [x EXCEPT !.expired = TRUE]
<1>1. ObjectsOK(c.object, T) /\ c.object \in Maps /\ x \in ObjectRec /\ Sane(x, T)
  BY ObjectFields DEF Core, ObjectsOK
<1>2. /\ y \in ObjectRec
      /\ y.url = x.url /\ y.users = x.users /\ y.disc = x.disc /\ y.fetching = x.fetching
      /\ y.candidate = x.candidate /\ y.source = x.source /\ y.source_len = x.source_len
      /\ y.ver = x.ver /\ y.expired /\ y.req_time = x.req_time
      /\ y.candidate_count = x.candidate_count
  BY <1>1, ExpiredRec
<1> HIDE DEF y
<1>3. x.candidate = NONE
  BY <1>1 DEF Sane
<1>4. Ghost(y) <=> Ghost(x)
  BY <1>2, Zenon DEF Ghost
<1>5. Sane(y, T)
  BY <1>1, <1>2, <1>3, <1>4 DEF Sane
<1>6. ASSUME NEW p \in Objects, p # o
      PROVE  Apart(y, c.object[p]) /\ Apart(c.object[p], y)
  <2>1. Apart(x, c.object[p]) /\ Apart(c.object[p], x)
    BY <1>1, <1>6 DEF ObjectsOK
  <2> HIDE DEF x
  <2> QED  BY <1>2, <2>1, Zenon DEF Apart
<1>7. ASSUME NEW p \in Objects, c.object[p].candidate = o
      PROVE  FALSE
  <2>1. c.object[p].candidate # NONE
    BY <1>7, CacheAssumption
  <2>2. Validates(c.object[p], c.object[o])
    BY <1>1, <1>7, <2>1, CandidateFacts
  <2> QED  BY <2>2 DEF Validates
<1>8. \A u \in Urls : Owns(y, u) <=> Owns(x, u)
  BY <1>2 DEF Owns
<1>9. Core(e, T)
  <2>1. y.candidate = NONE /\ (y.disc => c.object[o].disc /\ y.ver = c.object[o].ver)
    BY <1>2, <1>3
  <2>2. \A p \in Objects : ~(p # o /\ c.object[p].candidate = o)
    BY <1>7
  <2>3. IsCache(e) /\ e.store = c.store /\ e.list = c.list /\ e.object = [c.object EXCEPT ![o] = y]
    BY Zenon DEF Changed, y
  <2>4. y \in ObjectRec /\ y.url = c.object[o].url /\ \A u \in Urls : Owns(y, u) <=> Owns(c.object[o], u)
    BY <1>2, <1>8
  <2> HIDE DEF x
  <2>5. \A p \in Objects : p # o => Apart(y, c.object[p]) /\ Apart(c.object[p], y)
    BY <1>6
  <2>6. y.candidate # NONE => y.candidate # o /\ Validates(y, c.object[y.candidate])
    BY <2>1
  <2>7. \A p \in Objects : p # o /\ c.object[p].candidate = o => Validates(c.object[p], y)
    BY <2>2
  <2> HIDE DEF y
  <2> QED  BY <1>5, <2>1, <2>3, <2>4, <2>5, <2>6, <2>7, OneChanged, Zenon
<1>10. ASSUME GhostsOK(c.object) PROVE GhostsOK(e.object)
  <2>1. e.object = [c.object EXCEPT ![o] = y]
    BY Zenon DEF Changed, y
  <2> HIDE DEF x
  <2>2. GhostsOK([c.object EXCEPT ![o] = y])
    BY <1>1, <1>2, <1>4, <1>10, GhostsSame DEF x
  <2> QED  BY <2>1, <2>2
<1> QED  BY <1>9, <1>10


LEMMA GhostlyKeeps ==
    ASSUME NEW c, NEW T, Core(c, T), NEW o \in Objects, c.object[o].fetching,
           c.object[o].candidate # NONE, NEW e, Changed(c, e, o, Ghostly(c.object[o]))
    PROVE  Core(e, T) /\ (GhostsOK(c.object) => GhostsOK(e.object))
<1> DEFINE x == c.object[o]
           y == Ghostly(x)
           q == x.candidate
<1>1. ObjectsOK(c.object, T) /\ c.object \in Maps /\ x \in ObjectRec /\ Sane(x, T)
  BY ObjectFields DEF Core, ObjectsOK
<1>2. /\ x.url \in Urls /\ x.req_time > 0
      /\ \A p \in Objects : c.object[p].candidate # o
      /\ \A p \in Objects : p # o /\ c.object[p].url = x.url =>
            /\ c.object[p].expired /\ c.object[p].req_time < x.req_time
            /\ c.object[p].disc => c.object[p].source # NONE
  BY <1>1, FetchingAlone
<1>3. q \in Objects /\ q # o /\ Validates(x, c.object[q])
  BY <1>1, CandidateFacts, Zenon
<1>4. /\ y \in ObjectRec
      /\ y.url = x.url /\ y.disc = x.disc /\ y.candidate_count = x.candidate_count
      /\ y.source = x.source /\ y.source_len = x.source_len /\ y.ver = x.ver
      /\ ~y.users /\ y.expired /\ ~y.fetching /\ y.candidate = NONE /\ y.req_time = 0
  BY <1>1, GhostlyRec
<1> HIDE DEF y, q
<1>5. ~x.disc /\ x.source = NONE /\ x.candidate_count = 0 /\ x.url # NONE
  BY <1>1, <1>2, GarbageAssumption DEF Sane
<1>6. Ghost(y) /\ ~Ghost(x)
  BY <1>4, <1>5 DEF Ghost
<1>7. Sane(y, T)
  <2>1. T[x.url] \in Nat
    BY <1>2, CacheAssumption DEF Core, Times
  <2> QED  BY <1>4, <1>5, <1>6, <2>1 DEF Sane
<1>8. ASSUME NEW p \in Objects, p # o
      PROVE  Apart(y, c.object[p]) /\ Apart(c.object[p], y)
  <2>1. c.object[p].url = x.url =>
          c.object[p].expired /\ (c.object[p].disc => c.object[p].source # NONE)
    BY <1>2, <1>8
  <2> HIDE DEF x
  <2> QED  BY <1>4, <1>5, <2>1, Zenon DEF Apart
<1>9. \A u \in Urls : Owns(y, u) <=> Owns(x, u)
  BY <1>4, <1>5 DEF Owns
<1>10. Core(e, T)
  BY <1>2, <1>4, <1>5, <1>7, <1>8, <1>9, OneChanged DEF Changed, y
<1>11. ASSUME GhostsOK(c.object) PROVE GhostsOK(e.object)
  <2>1. e.object = [c.object EXCEPT ![o] = y]
    BY Zenon DEF Changed, y
  <2>2. \A p \in Objects : e.object[p] = IF p = o THEN y ELSE c.object[p]
    BY <1>1, <2>1 DEF Maps
  <2>3. c.object[q].url = x.url /\ ~Ghost(c.object[q])
    BY <1>3 DEF Validates, Ghost
  <2> SUFFICES ASSUME NEW p \in Objects, Ghost(e.object[p])
               PROVE  \E r \in Objects : e.object[r].url = e.object[p].url /\ ~Ghost(e.object[r])
    BY DEF GhostsOK
  <2>4. CASE c.object[p].url = x.url
    <3>1. e.object[p].url = x.url
      BY <1>4, <2>2, <2>4
    <3> QED  BY <1>3, <2>2, <2>3, <3>1
  <2>5. CASE c.object[p].url # x.url
    <3>1. p # o
      BY <2>5
    <3>2. PICK r \in Objects : c.object[r].url = c.object[p].url /\ ~Ghost(c.object[r])
      BY <1>11, <2>2, <3>1 DEF GhostsOK
    <3>3. r # o
      BY <2>5, <3>2
    <3> QED  BY <2>2, <3>1, <3>2, <3>3
  <2> QED  BY <2>4, <2>5
<1> QED  BY <1>10, <1>11

\* The object q is what a 304 response to x validates.
LEMMA RevivedKeeps ==
    ASSUME NEW c, NEW T, Core(c, T), NEW q \in Objects, NEW x \in ObjectRec,
           c.object[q].source # NONE, ~c.object[q].fetching, c.object[q].candidate_count > 0,
           x.req_time > 0, x.req_time <= T[c.object[q].url],
           \A p \in Objects : c.object[p].candidate # q,
           \A p \in Objects : p # q /\ c.object[p].url = c.object[q].url =>
              /\ c.object[p].expired /\ c.object[p].req_time < x.req_time
              /\ c.object[p].disc => c.object[p].source # NONE,
           NEW e, Changed(c, e, q, Revived(c.object[q], x))
    PROVE  Core(e, T) /\ (GhostsOK(c.object) => GhostsOK(e.object))
<1> DEFINE b == c.object[q]
           y == Revived(b, x)
<1>1. ObjectsOK(c.object, T) /\ c.object \in Maps /\ b \in ObjectRec /\ Sane(b, T)
  BY ObjectFields DEF Core, ObjectsOK
<1>2. /\ y \in ObjectRec
      /\ y.url = b.url /\ y.disc = b.disc /\ y.fetching = b.fetching /\ y.candidate = b.candidate
      /\ y.source = b.source /\ y.source_len = b.source_len /\ y.ver = b.ver
      /\ ~y.expired /\ y.req_time = x.req_time
  BY <1>1, RevivedRec
<1> HIDE DEF y
<1>3. b.url # NONE /\ b.candidate = NONE /\ ~Ghost(b)
  BY <1>1 DEF Sane, NoObject, Ghost
<1>4. ~Ghost(y)
  BY <1>2, <1>3 DEF Ghost
<1>5. Sane(y, T)
  <2>1. x.req_time \in Nat
    BY RecTypes, Zenon
  <2> QED  BY <1>1, <1>2, <1>3, <1>4, <2>1 DEF Sane
<1>6. ASSUME NEW p \in Objects, p # q
      PROVE  Apart(y, c.object[p]) /\ Apart(c.object[p], y)
  <2>1. Apart(b, c.object[p])
    BY <1>1, <1>6 DEF ObjectsOK
  <2>2. c.object[p].url = b.url =>
          /\ c.object[p].expired /\ c.object[p].req_time < x.req_time
          /\ c.object[p].disc => c.object[p].source # NONE
    BY <1>6
  <2> HIDE DEF b
  <2> QED  BY <1>2, <2>1, <2>2, Zenon DEF Apart
<1>7. \A u \in Urls : Owns(y, u) <=> Owns(b, u)
  BY <1>2 DEF Owns
<1>8. Core(e, T)
  BY <1>2, <1>3, <1>5, <1>6, <1>7, OneChanged DEF Changed, y
<1>9. ASSUME GhostsOK(c.object) PROVE GhostsOK(e.object)
  <2>1. e.object = [c.object EXCEPT ![q] = y]
    BY Zenon DEF Changed, y
  <2> HIDE DEF b
  <2>2. GhostsOK([c.object EXCEPT ![q] = y])
    BY <1>1, <1>2, <1>3, <1>4, <1>9, GhostsSame DEF b
  <2> QED  BY <2>1, <2>2
<1> QED  BY <1>8, <1>9


-----------------------------------------------------------------------------
(* The index files.                                                         *)

LEMMA SyncedFields ==
    ASSUME NEW s, IsStore(s)
    PROVE  LET r == WriteBlocks(WriteEntries(s)) IN
           /\ IsStore(r) /\ r.entries = s.entries /\ r.open = s.open
           /\ r.saved.entries = IF s.entries_dirty THEN OffTable(s) ELSE s.saved.entries
<1> DEFINE q == WriteEntries(s)
           r == WriteBlocks(q)
<1>1. Resaved(s, q) /\ q.saved.entries = IF s.entries_dirty THEN OffTable(s) ELSE s.saved.entries
  BY WriteEntriesFacts, Zenon
<1>2. IsStore(q)
  BY <1>1 DEF Resaved
<1>3. Resaved(q, r) /\ r.saved.entries = q.saved.entries
  BY <1>2, WriteBlocksFacts, Zenon
<1> HIDE DEF q, r
<1>4. IsStore(r) /\ r.entries = s.entries /\ r.open = s.open
  BY <1>1, <1>3, Zenon DEF Resaved
<1>5. r.saved.entries = IF s.entries_dirty THEN OffTable(s) ELSE s.saved.entries
  BY <1>1, <1>3
<1> QED  BY <1>4, <1>5 DEF q, r

LEMMA SyncedSizes ==
    ASSUME NEW s, IsStore(s), SizesOK(s, NONE)
    PROVE  SizesOK(WriteBlocks(WriteEntries(s)), NONE)
<1> DEFINE r == WriteBlocks(WriteEntries(s))
<1>1. /\ r.entries = s.entries
      /\ r.saved.entries = IF s.entries_dirty THEN OffTable(s) ELSE s.saved.entries
  BY SyncedFields
<1> HIDE DEF r
<1>2. Sized(OffTable(s), NONE)
  <2> SUFFICES ASSUME NEW u \in Urls, NEW e \in Elems, OffTable(s)[u] # NONE,
                      u # NONE \/ e = "data"
               PROVE  OffTable(s)[u].elem[e].size > 0
    BY DEF Sized
  <2>1. s.entries[u] # NONE /\ OffTable(s)[u].elem[e].size = s.entries[u].elem[e].size
    BY OffTableFacts
  <2>2. s.entries[u].elem[e].size > 0
    BY <2>1 DEF SizesOK, Sized
  <2> QED  BY <2>1, <2>2
<1>3. SizesOK(r, NONE)
  BY <1>1, <1>2 DEF SizesOK
<1> QED  BY <1>3 DEF r

LEMMA ClosedSizes ==
    ASSUME NEW s, IsStore(s), SizesOK(s, NONE)
    PROVE  SizesOK(Closed(s), NONE)
<1>1. Closed(s).entries = NoEntries /\ Closed(s).saved = s.saved
  BY DEF Closed, IsStore
<1>2. \A u \in Urls : NoEntries[u] = NONE
  BY DEF NoEntries
<1> QED  BY <1>1, <1>2 DEF SizesOK, Sized

LEMMA MaintainedStore ==
    ASSUME NEW s, s.maint, NEW obj, NEW T, NEW l, StoreOK(s, obj, T, l)
    PROVE  StoreOK(Maintained(s), obj, T, l)
<1> DEFINE m == Maintained(s)
           r == WriteBlocks(WriteEntries(s))
<1>1. Basic(s) /\ IsStore(s) /\ s.open /\ BlocksOK(s) /\ DiscOK(s, l) /\ SizesOK(s, NONE)
  <2>1. Basic(s) /\ BlocksOK(s) /\ DiscOK(s, l) /\ SizesOK(s, NONE)
    BY DEF StoreOK, Kept
  <2>2. s.open \in BOOLEAN
    BY <2>1 DEF Basic, IsStore
  <2> QED  BY <2>1, <2>2 DEF Basic, Flags
<1>2. Basic(m) /\ BlocksOK(m) /\ m.entries = s.entries /\ DiscOK(m, l)
  BY <1>1, MaintainedKeeps, Zenon
<1>3. SizesOK(r, NONE) /\ IsStore(r)
  BY <1>1, SyncedSizes, SyncedFields, Zenon
<1>4. m.entries = r.entries /\ m.saved = r.saved
  <2> HIDE DEF r
  <2>1. m = [r EXCEPT !.maint = FALSE]
    BY DEF Maintained, r
  <2> HIDE DEF m
  <2> QED  BY <1>3, <2>1 DEF IsStore
<1> HIDE DEF m, r
<1>5. SizesOK(m, NONE)
  BY <1>3, <1>4, Zenon DEF SizesOK
<1>6. Counts(m, Held(obj))
  <2>1. Refs(s, Held(obj))
    BY <1>1, Zenon DEF StoreOK, Counts
  <2> QED  BY <1>2, <2>1 DEF Refs, Counts
<1>7. StoreOK(m, obj, T, l)
  BY <1>2, <1>5, <1>6, Zenon DEF StoreOK, Kept
<1> QED  BY <1>7 DEF m

LEMMA FinalisedStore ==
    ASSUME NEW s, s.open, NEW obj, NEW T, NEW l, StoreOK(s, obj, T, l)
    PROVE  StoreOK(Finalised(s), obj, T, l) /\ ~Finalised(s).open
<1>1. Basic(s) /\ IsStore(s) /\ BlocksOK(s) /\ DiscOK(s, l) /\ SizesOK(s, NONE)
  BY DEF StoreOK, Kept, Basic
<1>2. Basic(Finalised(s)) /\ ~Finalised(s).open /\ BlocksOK(Finalised(s)) /\ DiscOK(Finalised(s), l)
  BY <1>1, FinalisedKeeps, Zenon
<1>3. SizesOK(Finalised(s), NONE)
  <2>1. SizesOK(WriteBlocks(WriteEntries(s)), NONE) /\ IsStore(WriteBlocks(WriteEntries(s)))
    BY <1>1, SyncedSizes, SyncedFields, Zenon
  <2> QED  BY <2>1, ClosedSizes, Zenon DEF Finalised
<1> QED  BY <1>2, <1>3, Zenon DEF StoreOK, Kept, Counts

LEMMA ClosedStore ==
    ASSUME NEW s, ~s.maint, NEW obj, NEW T, NEW l, StoreOK(s, obj, T, l), NEW new,
           \A o \in Objects : ~new[o].disc
    PROVE  StoreOK(Closed(s), new, T, l) /\ ~Closed(s).open
<1>1. Basic(s) /\ IsStore(s) /\ SavedOff(s) /\ RestOwned(s) /\ RestHolds(s, l) /\ SizesOK(s, NONE)
  BY DEF StoreOK, Kept, Basic, BlocksOK, SavedOwned, RestOwned, DiscOK, RestHolds
<1>2. Basic(Closed(s)) /\ ~Closed(s).open /\ BlocksOK(Closed(s)) /\ DiscOK(Closed(s), l)
  BY <1>1, ClosedFacts, Zenon
<1>3. SizesOK(Closed(s), NONE)
  BY <1>1, ClosedSizes, Zenon
<1> QED  BY <1>2, <1>3, Zenon DEF StoreOK, Kept, Counts, Backs

LEMMA InitialisedStore ==
    ASSUME NEW s, ~s.open, NEW obj, NEW T, NEW l, StoreOK(s, obj, T, l),
           \A o \in Objects : ~obj[o].disc
    PROVE  StoreOK(Initialised(s), obj, T, l) /\ Initialised(s).open
<1> DEFINE r == Initialised(s)
<1>1. Basic(s) /\ IsStore(s) /\ BlocksOK(s) /\ DiscOK(s, l) /\ SizesOK(s, NONE)
  BY DEF StoreOK, Kept, Basic
<1>2. /\ Basic(r) /\ r.open /\ BlocksOK(r) /\ DiscOK(r, l)
      /\ \A u \in Urls, e \in Elems : r.entries[u] # NONE => r.entries[u].elem[e].ref = 0
  BY <1>1, InitialisedKeeps, Zenon
<1>3. SizesOK(r, NONE)
  <2>1. r.entries = (IF s.saved.entries = NONE THEN NoEntries ELSE s.saved.entries) /\ r.saved = s.saved
    BY <1>1 DEF Initialised, IsStore
  <2>2. \A u \in Urls : NoEntries[u] = NONE
    BY DEF NoEntries
  <2> HIDE DEF r
  <2> QED  BY <1>1, <2>1, <2>2 DEF SizesOK, Sized
<1> HIDE DEF r
<1>4. Counts(r, Held(obj))
  <2>1. \A u \in Urls, e \in Elems : Held(obj)[u][e] = 0
    BY HeldFacts DEF Owned1, Owns, Elems
  <2> QED  BY <1>2, <2>1 DEF Counts, Refs
<1>5. StoreOK(r, obj, T, l) /\ r.open
  BY <1>2, <1>3, <1>4, Zenon DEF StoreOK, Kept
<1> QED  BY <1>5 DEF r


-----------------------------------------------------------------------------
(* The steps.                                                               *)

CacheInv ==
    /\ Core(Cache, time) /\ GhostsOK(object)
    /\ ~running => ~store.open /\ \A o \in Objects : object[o] = NoObject

\* What a handler of a running process leaves.
Goes == Core(Cache', time') /\ GhostsOK(object') /\ running /\ running' = running

LEMMA GoesOn == Goes => CacheInv'
  BY DEF Goes, CacheInv

LEMMA BecomesIs ==
    ASSUME NEW c, IsCache(c), Becomes(c)
    PROVE  Cache' = c /\ object' = c.object
  BY DEF IsCache, Becomes, Cache

LEMMA CacheIs == Cache.store = store /\ Cache.object = object /\ Cache.list = list /\ IsCache(Cache)
  BY DEF Cache, IsCache

LEMMA RunningWith ==
    ASSUME CacheInv, NEW o \in Objects, object[o] # NoObject
    PROVE  running
  BY DEF CacheInv

LEMMA RetrieveStep ==
    ASSUME MustValidate = {}, CacheInv, NEW u \in Urls, Retrieve(u)
    PROVE  Goes
<1>1. Core(Cache, time) /\ GhostsOK(Cache.object) /\ Cardinality(Free(Cache)) > 1 /\ time[u] < MaxTime
  BY CacheIs DEF CacheInv, Retrieve
<1>2. PICK c \in Retrieved(Cache, u) :
        /\ Becomes(c)
        /\ time' = IF \E o \in Objects : c.object[o].url = u /\ c.object[o].req_time > time[u]
                   THEN [time EXCEPT ![u] = @ + 1] ELSE time
  BY DEF Retrieve
<1>3. Begun(u, c) \/ Served(u, c)
  BY <1>1, RetrievedKeeps, Zenon
<1>4. Core(c, time') /\ GhostsOK(c.object)
  <2>1. CASE Begun(u, c)
    BY <1>2, <2>1, Zenon DEF Begun
  <2>2. CASE Served(u, c)
    <3>1. Core(c, time) /\ GhostsOK(c.object)
      BY <2>2, Zenon DEF Served
    <3>2. \A o \in Objects : c.object[o].url = u => ~(c.object[o].req_time > time[u])
      <4> SUFFICES ASSUME NEW o \in Objects, c.object[o].url = u
                   PROVE  ~(c.object[o].req_time > time[u])
        OBVIOUS
      <4>1. c.object[o] \in ObjectRec /\ Sane(c.object[o], time)
        BY <3>1, ObjectFields DEF Core
      <4>2. c.object[o].req_time \in Nat /\ time[u] \in Nat
        <5>1. c.object[o].req_time \in Nat
          BY <4>1, RecTypes, Zenon
        <5>2. time[u] \in Nat
          BY <3>1, CacheAssumption DEF Core, Times
        <5> QED  BY <5>1, <5>2
      <4>3. c.object[o].req_time <= time[u]
        BY <4>1, GarbageAssumption DEF Sane
      <4> QED  BY <4>2, <4>3
    <3>3. time' = time
      BY <1>2, <3>2
    <3> QED  BY <3>1, <3>3
  <2> QED  BY <1>3, <2>1, <2>2
<1>5. Cache' = c /\ object' = c.object
  BY <1>2, <1>4, BecomesIs DEF Core
<1>6. running /\ running' = running
  BY DEF Retrieve
<1> QED  BY <1>4, <1>5, <1>6 DEF Goes

LEMMA CompleteStep ==
    ASSUME Sizes \subseteq {1}, MustValidate = {}, CacheInv, NEW o \in Objects, Complete(o)
    PROVE  Goes
<1> DEFINE x == object[o]
           q == x.candidate
           mid == [object EXCEPT ![o] = Whole(x)]
           c == [store |-> store, object |-> mid, list |-> list]
<1>1. Core(Cache, time) /\ GhostsOK(object) /\ ObjectsOK(object, time) /\ object \in Maps
  BY CacheIs DEF CacheInv, Core, ObjectsOK
<1>2. x.fetching /\ UNCHANGED <<store, list, time, running>>
  BY DEF Complete
<1>3. /\ 1 \in Sizes
      /\ object' = [p \in Objects |->
           IF p = o THEN Whole(x)
           ELSE IF p = q THEN [object[p] EXCEPT !.candidate_count = @ - 1] ELSE object[p]]
  <2>1. PICK n \in Sizes :
          object' = [p \in Objects |->
             IF p = o THEN [x EXCEPT !.fetching = FALSE, !.candidate = NONE, !.ver = x.req_time,
                                     !.no_cache = x.req_time \in MustValidate,
                                     !.source_len = n,
                                     !.source = Source(x.url, x.req_time, n)]
             ELSE IF p = q THEN [object[p] EXCEPT !.candidate_count = @ - 1] ELSE object[p]]
    BY Zenon DEF Complete
  <2>2. n = 1
    OBVIOUS
  <2>3. (x.req_time \in MustValidate) = FALSE
    OBVIOUS
  <2> QED  BY <2>1, <2>2, <2>3 DEF Whole
<1>4. Changed(Cache, c, o, Whole(x))
  BY CacheIs DEF Changed, IsCache
<1>5. Core(c, time) /\ GhostsOK(c.object)
  BY <1>1, <1>2, <1>3, <1>4, CacheIs, WholeKeeps
<1>6. \A p \in Objects : mid[p] = IF p = o THEN Whole(x) ELSE object[p]
  BY <1>1 DEF Maps
<1>7. Core(Cache', time') /\ GhostsOK(object')
  <2>1. CASE q = NONE
    <3>1. object' = mid
      <4>1. \A p \in Objects : object'[p] = mid[p]
        BY <1>3, <1>6, <2>1, CacheAssumption
      <4>2. mid = [p \in Objects |-> mid[p]]
        BY <1>1 DEF Maps
      <4> HIDE DEF mid
      <4> QED  BY <1>3, <4>1, <4>2
    <3>2. Cache' = c
      BY <1>2, <3>1 DEF Cache
    <3> QED  BY <1>2, <1>5, <3>1, <3>2
  <2>2. CASE q # NONE
    <3>1. /\ q \in Objects /\ q # o /\ Validates(x, object[q])
      BY <1>1, <2>2, CandidateFacts, Zenon
    <3>2. mid[q] = object[q] /\ object[q].candidate_count > 0
      BY <1>6, <3>1 DEF Validates
    <3>3. \A p \in Objects : mid[p].candidate # q
      <4> SUFFICES ASSUME NEW p \in Objects, mid[p].candidate = q PROVE FALSE
        OBVIOUS
      <4>1. p # o
        <5>1. Whole(x).candidate = NONE
          <6>1. x \in ObjectRec
            BY <1>1 DEF Maps
          <6> QED  BY <6>1 DEF Whole, ObjectRec
        <5> QED  BY <1>6, <2>2, <5>1
      <4>2. object[p].candidate = q
        BY <1>6, <4>1
      <4>3. Validates(object[p], object[q])
        BY <1>1, <2>2, <4>2, CandidateFacts
      <4>4. object[p].url = x.url
        BY <3>1, <4>3 DEF Validates
      <4>5. object[p].candidate = NONE
        BY <1>1, <1>2, <4>1, <4>4, FetchingAlone
      <4> QED  BY <2>2, <4>2, <4>5
    <3> DEFINE y == [mid[q] EXCEPT !.candidate_count = @ - 1]
    <3>4. object' = [mid EXCEPT ![q] = y]
      <4>1. mid \in [Objects -> {mid[p] : p \in Objects}]
        BY <1>1 DEF Maps
      <4>2. \A p \in Objects : object'[p] = IF p = q THEN y ELSE mid[p]
        BY <1>3, <1>6, <3>1, <3>2
      <4>3. object' = [p \in Objects |-> object'[p]]
        BY <1>3
      <4> HIDE DEF mid, y
      <4> QED  BY <3>1, <4>1, <4>2, <4>3
    <3>5. Changed(c, Cache', q, y)
      BY <1>2, <3>4 DEF Changed, IsCache, Cache
    <3>6. c.object = mid
      OBVIOUS
    <3> HIDE DEF c, mid
    <3>7. Core(Cache', time) /\ GhostsOK(Cache'.object)
      BY <1>5, <3>1, <3>2, <3>3, <3>5, <3>6, CountedKeeps
    <3> QED  BY <1>2, <3>7 DEF Cache
  <2> QED  BY <2>1, <2>2
<1>8. running
  <2>1. object[o] # NoObject
    BY <1>2 DEF NoObject
  <2> QED  BY <2>1, RunningWith
<1> QED  BY <1>2, <1>7, <1>8 DEF Goes


LEMMA NotModifiedStep ==
    ASSUME CacheInv, NEW o \in Objects, NotModified(o)
    PROVE  Goes
<1> DEFINE x == object[o]
           q == x.candidate
           mid == [object EXCEPT ![o] = Ghostly(x)]
           c == [store |-> store, object |-> mid, list |-> list]
<1>1. Core(Cache, time) /\ GhostsOK(object) /\ ObjectsOK(object, time) /\ object \in Maps
  BY CacheIs DEF CacheInv, Core, ObjectsOK
<1>2. x.fetching /\ q # NONE /\ UNCHANGED <<store, list, time, running>>
  BY DEF NotModified
<1>3. q \in Objects /\ q # o /\ Validates(x, object[q]) /\ x \in ObjectRec /\ Sane(x, time)
  BY <1>1, <1>2, CandidateFacts, ObjectFields, Zenon
<1>4. object' = [object EXCEPT ![q] = Revived(object[q], x), ![o] = Ghostly(x)]
  BY DEF NotModified, Revived, Ghostly
<1>5. Changed(Cache, c, o, Ghostly(x))
  BY CacheIs DEF Changed, IsCache
<1>6. Core(c, time) /\ GhostsOK(c.object)
  BY <1>1, <1>2, <1>5, CacheIs, GhostlyKeeps
<1>7. \A p \in Objects : mid[p] = IF p = o THEN Ghostly(x) ELSE object[p]
  BY <1>1 DEF Maps
<1>8. mid[q] = object[q]
  BY <1>3, <1>7
<1>9. /\ Ghostly(x).candidate = NONE /\ Ghostly(x).expired /\ Ghostly(x).req_time = 0
      /\ Ghostly(x).url = x.url /\ ~Ghostly(x).disc
  <2>1. ~x.disc
    BY <1>2, <1>3 DEF Sane
  <2> QED  BY <1>3, <2>1, GhostlyRec
<1>10. /\ x.url \in Urls /\ x.req_time > 0
       /\ \A p \in Objects : p # o /\ object[p].url = x.url =>
             /\ object[p].expired /\ object[p].req_time < x.req_time /\ object[p].candidate = NONE
             /\ object[p].disc => object[p].source # NONE
  BY <1>1, <1>2, FetchingAlone
<1>11. object[q].url = x.url /\ x.req_time <= time[x.url]
  BY <1>3, <1>10, GarbageAssumption DEF Validates, Sane
<1>12. \A p \in Objects : mid[p].candidate # q
  <2> SUFFICES ASSUME NEW p \in Objects, mid[p].candidate = q PROVE FALSE
    OBVIOUS
  <2>1. p # o /\ object[p].candidate = q
    BY <1>2, <1>7, <1>9
  <2>2. Validates(object[p], object[q])
    BY <1>1, <1>2, <2>1, CandidateFacts
  <2>3. object[p].url = x.url
    BY <1>11, <2>2 DEF Validates
  <2> QED  BY <1>2, <1>10, <2>1, <2>3
<1>13. \A p \in Objects : p # q /\ mid[p].url = mid[q].url =>
          /\ mid[p].expired /\ mid[p].req_time < x.req_time
          /\ mid[p].disc => mid[p].source # NONE
  <2> SUFFICES ASSUME NEW p \in Objects, mid[p].url = x.url
               PROVE  /\ mid[p].expired /\ mid[p].req_time < x.req_time
                      /\ mid[p].disc => mid[p].source # NONE
    BY <1>8, <1>11
  <2>1. CASE p = o
    BY <1>7, <1>9, <1>10, <2>1
  <2>2. CASE p # o
    BY <1>7, <1>10, <2>2
  <2> QED  BY <2>1, <2>2
<1> DEFINE y == Revived(mid[q], x)
<1>14. object' = [mid EXCEPT ![q] = y]
  <2>1. \A p \in Objects : object'[p] = IF p = o THEN Ghostly(x) ELSE IF p = q THEN Revived(object[q], x)
                                        ELSE object[p]
    <3> HIDE DEF x
    <3> QED  BY <1>1, <1>3, <1>4 DEF Maps, x
  <2>2. \A p \in Objects : object'[p] = IF p = q THEN y ELSE mid[p]
    BY <1>3, <1>7, <1>8, <2>1
  <2>3. object' = [p \in Objects |-> object'[p]] /\ mid \in [Objects -> {mid[p] : p \in Objects}]
    <3>1. DOMAIN object = Objects
      BY <1>1 DEF Maps
    <3> QED  BY <1>4, <3>1
  <2> HIDE DEF mid, y
  <2> QED  BY <1>3, <2>2, <2>3
<1>15. Changed(c, Cache', q, y)
  BY <1>2, <1>14 DEF Changed, IsCache, Cache
<1>16. c.object = mid
  OBVIOUS
<1>17. /\ mid[q].source # NONE /\ ~mid[q].fetching /\ mid[q].candidate_count > 0
       /\ x.req_time <= time[mid[q].url]
  BY <1>3, <1>8, <1>11 DEF Validates
<1> HIDE DEF c, mid
<1>18. Core(Cache', time) /\ GhostsOK(Cache'.object)
  BY <1>3, <1>6, <1>10, <1>12, <1>13, <1>15, <1>16, <1>17, RevivedKeeps
<1>19. running
  <2>1. object[o] # NoObject
    BY <1>2 DEF NoObject
  <2> QED  BY <2>1, RunningWith
<1> QED  BY <1>2, <1>18, <1>19 DEF Goes, Cache

LEMMA LeaveStep ==
    ASSUME CacheInv, NEW o \in Objects, Leave(o)
    PROVE  Goes
<1> DEFINE x == object[o]
           y == [x EXCEPT !.users = FALSE]
<1>1. Core(Cache, time) /\ GhostsOK(object) /\ ObjectsOK(object, time) /\ object \in Maps
  BY CacheIs DEF CacheInv, Core, ObjectsOK
<1>2. x \in ObjectRec /\ Sane(x, time) /\ x.users
  BY <1>1, ObjectFields DEF Leave
<1>3. y \in ObjectRec /\ SameResponse(x, y) /\ ~y.users /\ y.candidate_count = x.candidate_count
  BY <1>2, LeftRec
<1>4. object' = [object EXCEPT ![o] = y] /\ UNCHANGED <<store, list, time, running>>
  BY DEF Leave
<1> HIDE DEF y
<1>5. x # NoObject /\ x.url # NONE
  BY <1>2 DEF NoObject, Sane
<1>6. Sane(y, time)
  <2>1. Ghost(y) <=> Ghost(x)
    BY <1>3, Zenon DEF SameResponse, Ghost
  <2> QED  BY <1>2, <1>3, <1>5, <2>1 DEF Sane, SameResponse
<1>7. IsCache(Cache') /\ Cache'.store = store /\ Cache'.list = list /\ Cache'.object = [object EXCEPT ![o] = y]
  BY <1>4 DEF Cache, IsCache
<1>8. Core(Cache', time) /\ GhostsOK(Cache'.object)
  BY <1>1, <1>3, <1>6, <1>7, CacheIs, SameKeeps
<1>9. running
  BY <1>5, RunningWith
<1> QED  BY <1>4, <1>8, <1>9 DEF Goes, Cache

LEMMA ExpireStep ==
    ASSUME CacheInv, NEW o \in Objects, Expire(o)
    PROVE  Goes
<1> DEFINE y == [object[o] EXCEPT !.expired = TRUE]
<1>1. Core(Cache, time) /\ GhostsOK(object)
  BY DEF CacheInv
<1>2. /\ object[o].url # NONE /\ ~object[o].expired /\ ~object[o].fetching
      /\ object' = [object EXCEPT ![o] = y] /\ UNCHANGED <<store, list, time, running>>
  BY DEF Expire
<1>3. Changed(Cache, Cache', o, y)
  BY <1>2 DEF Changed, Cache, IsCache
<1>4. Core(Cache', time) /\ GhostsOK(Cache'.object)
  BY <1>1, <1>2, <1>3, CacheIs, ExpiredKeeps
<1>5. running
  <2>1. object[o] # NoObject
    BY <1>2 DEF NoObject
  <2> QED  BY <2>1, RunningWith
<1> QED  BY <1>2, <1>4, <1>5 DEF Goes, Cache

LEMMA CleanStep ==
    ASSUME CanFail = FALSE, Sizes \subseteq {1}, CacheInv, NEW purge \in BOOLEAN, llcache_clean(purge)
    PROVE  Goes
<1> DEFINE lim == IF purge THEN 0 ELSE ram_limit
<1>1. list # <<>> /\ UNCHANGED <<time, running>>
  BY DEF llcache_clean
<1>2. PICK c \in Cleaned(Cache, lim) : Becomes(c)
  BY DEF llcache_clean
<1> HIDE DEF lim
<1>3. Core(c, time) /\ GhostsOK(c.object)
  BY <1>2, CleanedKeeps DEF CacheInv
<1>4. Cache' = c /\ object' = c.object
  BY <1>2, <1>3, BecomesIs DEF Core
<1>5. running
  <2>1. ListOK(list, object)
    BY CacheIs DEF CacheInv, Core
  <2>2. list[1] \in Objects /\ Has(list, list[1])
    BY <1>1, <2>1 DEF ListOK, Has
  <2>3. object[list[1]] # NoObject
    BY <2>1, <2>2 DEF ListOK, NoObject
  <2> QED  BY <2>2, <2>3, RunningWith
<1> QED  BY <1>1, <1>3, <1>4, <1>5 DEF Goes

LEMMA PersistStep ==
    ASSUME CanFail = FALSE, Sizes \subseteq {1}, CacheInv, Persist
    PROVE  Goes
<1>1. UNCHANGED <<time, running>>
  BY DEF Persist
<1>2. PICK c \in Persisted(Cache) : Becomes(c)
  BY DEF Persist
<1>3. Core(c, time) /\ Alike(object, c.object)
  BY <1>2, PersistedKeeps, CacheIs DEF CacheInv
<1>4. Cache' = c /\ object' = c.object
  BY <1>2, <1>3, BecomesIs DEF Core
<1>5. GhostsOK(c.object)
  <2>1. \A p \in Objects : c.object[p].url = object[p].url /\ (Ghost(c.object[p]) <=> Ghost(object[p]))
    BY <1>3, Zenon DEF Alike
  <2>2. GhostsOK(object)
    BY DEF CacheInv
  <2> QED  BY <2>1, <2>2 DEF GhostsOK
<1>6. running
  <2>1. PICK o \in ToSet(list) : Persistable(object[o])
    BY DEF Persist
  <2>2. o \in Objects
    BY <2>1, CacheIs, ListMember DEF CacheInv, Core, ListOK
  <2>3. object[o] # NoObject
    BY <2>1 DEF Persistable, NoObject
  <2> QED  BY <2>2, <2>3, RunningWith
<1> QED  BY <1>1, <1>3, <1>4, <1>5, <1>6 DEF Goes


LEMMA StoreStep ==
    ASSUME CacheInv, NEW s, UNCHANGED <<object, list, time>>, store' = s,
           \A l : StoreOK(store, object, time, l) => StoreOK(s, object, time, l)
    PROVE  Core(Cache', time') /\ GhostsOK(object')
<1>1. /\ time \in Times /\ ObjectsOK(object, time) /\ ListOK(list, object) /\ GhostsOK(object)
      /\ \E l : StoreOK(store, object, time, l)
  BY CacheIs DEF CacheInv, Core
<1>2. Cache' = [store |-> s, object |-> object, list |-> list]
  BY DEF Cache
<1>3. IsCache(Cache') /\ Cache'.store = s /\ Cache'.object = object /\ Cache'.list = list
  BY <1>2 DEF IsCache
<1>4. \E l : StoreOK(s, object, time, l)
  BY <1>1, Zenon
<1> QED  BY <1>1, <1>3, <1>4 DEF Core

LEMMA OpenRuns ==
    ASSUME CacheInv, store.open
    PROVE  running
  BY DEF CacheInv

LEMMA MaintainStep ==
    ASSUME CacheInv, Maintain
    PROVE  Goes
<1>1. store.maint /\ store' = Maintained(store) /\ UNCHANGED <<object, list, time, running>>
  BY DEF Maintain
<1>2. Core(Cache', time') /\ GhostsOK(object')
  BY <1>1, StoreStep, MaintainedStore
<1>3. store.open
  <2>1. Basic(store)
    BY CacheIs DEF CacheInv, Core, StoreOK, Kept
  <2>2. store.open \in BOOLEAN
    BY <2>1 DEF Basic, IsStore
  <2> QED  BY <1>1, <2>1, <2>2 DEF Basic, Flags
<1> QED  BY <1>1, <1>2, <1>3, OpenRuns DEF Goes

LEMMA SlowCheckStep ==
    ASSUME CacheInv, SlowCheck
    PROVE  Goes
<1>1. store.open /\ store' = Finalised(store) /\ UNCHANGED <<object, list, time, running>>
  BY DEF SlowCheck
<1>2. Core(Cache', time') /\ GhostsOK(object')
  BY <1>1, StoreStep, FinalisedStore
<1> QED  BY <1>1, <1>2, OpenRuns DEF Goes

LEMMA NothingOK ==
    ASSUME NEW obj, obj = [o \in Objects |-> NoObject], NEW T
    PROVE  /\ ObjectsOK(obj, T) /\ ListOK(<<>>, obj) /\ GhostsOK(obj)
           /\ \A o \in Objects : obj[o] = NoObject /\ ~obj[o].disc
<1>1. NoObject \in ObjectRec /\ Sane(NoObject, T) /\ NoObject.url = NONE
  BY NoObjectFacts
<1>2. NoObject.candidate = NONE /\ ~NoObject.disc /\ ~Ghost(NoObject)
  BY DEF NoObject, Ghost
<1>3. Apart(NoObject, NoObject)
  BY <1>1 DEF Apart
<1>4. obj \in Maps /\ \A o \in Objects : obj[o] = NoObject
  BY <1>1 DEF Maps
<1>5. <<>> \in Seq(Objects) /\ Distinct(<<>>) /\ \A g : ~Has(<<>>, g)
  BY DEF Distinct, Has
<1> QED  BY <1>1, <1>2, <1>3, <1>4, <1>5, Zenon DEF ObjectsOK, ListOK, GhostsOK

LEMMA QuitStep ==
    ASSUME CacheInv, Quit
    PROVE  CacheInv'
<1>1. /\ ~store.maint /\ store' = Closed(store) /\ object' = [o \in Objects |-> NoObject]
      /\ list' = <<>> /\ time' = time
  BY DEF Quit
<1>2. time \in Times /\ \E l : StoreOK(store, object, time, l)
  BY CacheIs DEF CacheInv, Core
<1>3. PICK l : StoreOK(store, object, time, l)
  BY <1>2
<1>4. /\ ObjectsOK(object', time) /\ ListOK(list', object') /\ GhostsOK(object')
      /\ \A o \in Objects : object'[o] = NoObject /\ ~object'[o].disc
  BY <1>1, NothingOK
<1>5. StoreOK(store', object', time, l) /\ ~store'.open
  BY <1>1, <1>3, <1>4, ClosedStore
<1>6. Cache' = [store |-> store', object |-> object', list |-> list']
  BY DEF Cache
<1>7. IsCache(Cache') /\ Cache'.store = store' /\ Cache'.object = object' /\ Cache'.list = list'
  BY <1>6 DEF IsCache
<1>8. Core(Cache', time')
  BY <1>1, <1>2, <1>4, <1>5, <1>7 DEF Core
<1> QED  BY <1>4, <1>5, <1>8 DEF CacheInv

LEMMA StartStep ==
    ASSUME CacheInv, Start
    PROVE  CacheInv'
<1>1. ~running /\ store' = Initialised(store) /\ running' = TRUE /\ UNCHANGED <<object, list, time>>
  BY DEF Start
<1>2. ~store.open /\ \A o \in Objects : ~object[o].disc
  BY <1>1 DEF CacheInv, NoObject
<1>3. Core(Cache', time') /\ GhostsOK(object')
  BY <1>1, <1>2, StoreStep, InitialisedStore
<1> QED  BY <1>1, <1>3 DEF CacheInv

LEMMA InitDisc ==
    ASSUME Init
    PROVE  CacheInv
<1> DEFINE l == [u \in Urls |-> [e \in Elems |-> NONE]]
<1>1. /\ store.open = TRUE /\ store.entries = NoEntries /\ store.use_map = [e \in Elems |-> {0}]
      /\ store.entries_dirty = FALSE /\ store.blocks_dirty = FALSE /\ store.maint = FALSE
      /\ store.saved.entries = NONE /\ store.saved.blocks = NONE
  BY DEF Init, FreshStore
<1>2. \A u \in Urls : store.entries[u] = NONE
  BY <1>1 DEF NoEntries
<1>3. IsStore(store)
  <2>1. 0 \in Blocks
    BY StoreAssumption DEF Blocks
  <2> QED  BY <2>1 DEF Init, FreshStore, IsStore, NoEntries, Table, UseMap
<1>4. Basic(store)
  BY <1>1, <1>2, <1>3 DEF Basic, HeapOK, SavedOff, Flags
<1>5. BlocksOK(store)
  BY <1>1, <1>2 DEF BlocksOK, UseSaved, LiveOwned, SavedOwned, Owned, SavedMap
<1>6. DiscOK(store, l) /\ SizesOK(store, NONE)
  BY <1>1, <1>2 DEF DiscOK, Holds, SizesOK, Sized
<1>7. object = [o \in Objects |-> NoObject] /\ list = <<>> /\ time = [u \in Urls |-> 0] /\ running = TRUE
  BY DEF Init
<1>8. time \in Times
  <2>1. 0 \in 0 .. MaxTime
    BY CacheAssumption
  <2> QED  BY <1>7, <2>1 DEF Times
<1>9. /\ ObjectsOK(object, time) /\ ListOK(list, object) /\ GhostsOK(object)
      /\ \A o \in Objects : object[o] = NoObject /\ ~object[o].disc
  BY <1>7, NothingOK
<1>10. LatestOK(l, time)
  BY DEF LatestOK, Latest, Elems
<1>11. Counts(store, Held(object))
  <2>1. \A u \in Urls, e \in Elems : Held(object)[u][e] = 0
    BY <1>9, HeldFacts DEF Owned1, Owns, Elems
  <2> QED  BY <1>2, <2>1 DEF Counts, Refs
<1> HIDE DEF l
<1>12. StoreOK(store, object, time, l)
  BY <1>4, <1>5, <1>6, <1>9, <1>10, <1>11 DEF StoreOK, Kept, Backs
<1>13. Core(Cache, time)
  BY <1>8, <1>9, <1>12, CacheIs DEF Core
<1> QED  BY <1>7, <1>9, <1>13 DEF CacheInv

LEMMA DiscStep ==
    ASSUME CanFail = FALSE, MustValidate = {}, Sizes \subseteq {1}, CacheInv, [Next]_vars
    PROVE  CacheInv'
<1>1. ASSUME NEW u \in Urls, Retrieve(u) PROVE CacheInv'
  BY <1>1, RetrieveStep, GoesOn
<1>2. ASSUME NEW o \in Objects, Complete(o) PROVE CacheInv'
  BY <1>2, CompleteStep, GoesOn
<1>3. ASSUME NEW o \in Objects, NotModified(o) PROVE CacheInv'
  BY <1>3, NotModifiedStep, GoesOn
<1>4. ASSUME NEW o \in Objects, Leave(o) PROVE CacheInv'
  BY <1>4, LeaveStep, GoesOn
<1>5. ASSUME NEW o \in Objects, Expire(o) PROVE CacheInv'
  BY <1>5, ExpireStep, GoesOn
<1>6. ASSUME NEW purge \in BOOLEAN, llcache_clean(purge) PROVE CacheInv'
  BY <1>6, CleanStep, GoesOn
<1>7. CASE Persist
  BY <1>7, PersistStep, GoesOn
<1>8. CASE Maintain
  BY <1>8, MaintainStep, GoesOn
<1>9. CASE SlowCheck
  BY <1>9, SlowCheckStep, GoesOn
<1>10. CASE Quit
  BY <1>10, QuitStep
<1>11. CASE Start
  BY <1>11, StartStep
<1>12. CASE UNCHANGED vars
  BY <1>12 DEF vars, CacheInv, Cache
<1> QED  BY <1>1, <1>2, <1>3, <1>4, <1>5, <1>6, <1>7, <1>8, <1>9, <1>10, <1>11, <1>12 DEF Next


-----------------------------------------------------------------------------
(***************************************************************************)
(* What the handlers keep, while the store does not fail, no response       *)
(* forbids its use without validation and source data fits in a block.      *)
(***************************************************************************)
THEOREM DiscCacheInvariant ==
    ASSUME CanFail = FALSE, MustValidate = {}, Sizes \subseteq {1}
    PROVE  Spec => []CacheInv
<1>1. Init => CacheInv
  BY InitDisc
<1>2. CacheInv /\ [Next]_vars => CacheInv'
  BY DiscStep
<1> QED  BY <1>1, <1>2, PTL DEF Spec

LEMMA RefsFollow ==
    ASSUME CacheInv
    PROVE  SourceRefsExact
<1> SUFFICES ASSUME store.open, NEW u \in Urls
             PROVE  LET owners == {o \in Objects : /\ object[o].url = u /\ object[o].disc
                                                   /\ object[o].source # NONE}
                        refs(e) == IF store.entries[u] = NONE THEN 0 ELSE store.entries[u].elem[e].ref
                    IN refs("data") = Cardinality(owners) /\ refs("meta") = 0
  BY Zenon DEF SourceRefsExact
<1> DEFINE owners == {o \in Objects : /\ object[o].url = u /\ object[o].disc
                                      /\ object[o].source # NONE}
           refs(e) == IF store.entries[u] = NONE THEN 0 ELSE store.entries[u].elem[e].ref
<1>1. ObjectsOK(object, time) /\ \E l : StoreOK(store, object, time, l)
  BY CacheIs DEF CacheInv, Core
<1>2. Refs(store, Held(object))
  BY <1>1 DEF StoreOK, Counts
<1>3. refs("data") = (IF Owned1(object, u) THEN 1 ELSE 0) /\ refs("meta") = 0
  <2>1. Held(object)[u]["data"] = refs("data") /\ Held(object)[u]["meta"] = refs("meta")
    BY <1>2 DEF Refs, Elems
  <2>2. /\ Held(object)[u]["data"] = IF Owned1(object, u) THEN 1 ELSE 0
        /\ Held(object)[u]["meta"] = 0
    BY HeldFacts
  <2> HIDE DEF refs
  <2> QED  BY <2>1, <2>2
<1>4. owners = {o \in Objects : Owns(object[o], u)}
  BY DEF Owns
<1>5. Cardinality(owners) = IF Owned1(object, u) THEN 1 ELSE 0
  <2> HIDE DEF owners
  <2>1. CASE Owned1(object, u)
    <3>1. PICK o \in Objects : Owns(object[o], u)
      BY <2>1 DEF Owned1
    <3>2. owners = {o}
      <4>1. \A p \in Objects : p # o => ~Owns(object[p], u)
        BY <1>1, <3>1, OwnedOnce
      <4> QED  BY <1>4, <3>1, <4>1
    <3> QED  BY <2>1, <3>2, FS_Singleton
  <2>2. CASE ~Owned1(object, u)
    <3>1. owners = {}
      BY <1>4, <2>2 DEF Owned1
    <3> QED  BY <2>2, <3>1, FS_EmptySet
  <2> QED  BY <2>1, <2>2
<1> QED  BY <1>3, <1>5

(***************************************************************************)
(* SourceRefsExact: what a handler takes of the store it gives back once,   *)
(* for any number of URLs, objects and blocks and any limits.               *)
(***************************************************************************)
THEOREM RefsAreOwned ==
    ASSUME CanFail = FALSE, MustValidate = {}, Sizes \subseteq {1}
    PROVE  Spec => []SourceRefsExact
<1>1. Spec => []CacheInv
  BY DiscCacheInvariant
<1>2. CacheInv => SourceRefsExact
  BY RefsFollow
<1> QED  BY <1>1, <1>2, PTL

(***************************************************************************)
(* UsedIsLoaded: what has users, or may have them after a 304 response, is  *)
(* in memory, whatever the clean takes to get within its limit.             *)
(***************************************************************************)
THEOREM UsersHaveData ==
    ASSUME CanFail = FALSE, MustValidate = {}, Sizes \subseteq {1}
    PROVE  Spec => []UsedIsLoaded
<1>1. Spec => []CacheInv
  BY DiscCacheInvariant
<1>2. CacheInv => UsedIsLoaded
  <2> SUFFICES ASSUME CacheInv, NEW o \in Objects
               PROVE  /\ object[o].disc /\ object[o].users => object[o].source # NONE
                      /\ object[o].candidate # NONE =>
                            LET x == object[object[o].candidate]
                            IN x.url = object[o].url /\ x.source # NONE
    BY Zenon DEF UsedIsLoaded
  <2>1. ObjectsOK(object, time)
    BY CacheIs DEF CacheInv, Core
  <2>2. Sane(object[o], time)
    BY <2>1, ObjectFields
  <2>3. object[o].candidate # NONE => Validates(object[o], object[object[o].candidate])
    BY <2>1, CandidateFacts
  <2> QED  BY <2>2, <2>3, Zenon DEF Sane, Validates
<1> QED  BY <1>1, <1>2, PTL

(***************************************************************************)
(* SourceMatches: source data read back is of the response whose headers    *)
(* the object has, however often the store was written in between.          *)
(***************************************************************************)
THEOREM SourceIsOfResponse ==
    ASSUME CanFail = FALSE, MustValidate = {}, Sizes \subseteq {1}
    PROVE  Spec => []SourceMatches
<1>1. Spec => []CacheInv
  BY DiscCacheInvariant
<1>2. CacheInv => SourceMatches
  <2> SUFFICES ASSUME CacheInv, NEW o \in Objects, object[o].source # NONE
               PROVE  object[o].source.url = object[o].url /\ object[o].source.ver = object[o].ver
    BY Zenon DEF SourceMatches
  <2>1. Sane(object[o], time)
    BY CacheIs, ObjectFields DEF CacheInv, Core
  <2>2. object[o].source = Source(object[o].url, object[o].ver, 1)
    BY <2>1 DEF Sane
  <2> QED  BY <2>2 DEF Source
<1> QED  BY <1>1, <1>2, PTL

=============================================================================
