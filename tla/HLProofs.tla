------------------------------ MODULE HLProofs ------------------------------
(***************************************************************************)
(* Proofs about the high-level cache, for any handles, contents, low-level  *)
(* handles and objects.                                                     *)
(*                                                                         *)
(* The parts of the invariant are stated of any state s, as the operations  *)
(* of the model go through several: a callback may release a handle in the  *)
(* middle of a broadcast, or in the middle of a migration.  x is the handle *)
(* whose context is migrating, m a low-level handle between two owners, D   *)
(* the users that a broadcast has still to tell, o the object of a fetch    *)
(* that is failing and k0 a content being converted; NONE or {} between     *)
(* two operations.                                                          *)
(*                                                                         *)
(* Broadcasts, the failing of a fetch and the clean walk along lists.       *)
(* Their states are recursive functions of the position in the list, and    *)
(* what holds after the last turn is proved by induction: over the set of   *)
(* positions for which it holds, NatInductionSet.                           *)
(***************************************************************************)
EXTENDS HLCache, FiniteSetTheorems, SequenceTheorems, WellFoundedInduction, TLAPS

-----------------------------------------------------------------------------
(* The inductive invariant *)

Statuses  == {"none", "LOADING", "READY", "DONE", "ERROR"}
KnownTypes == {"image", "css", "page", "unknown"}

HandleRec  == [used : BOOLEAN, entry : Contents \cup {NONE}, ctx : LLs \cup {NONE},
               told : {"none", "LOADING", "READY", "DONE"}, aborted : BOOLEAN]
LLRec      == [owner : {"none", "ctx", "content", "download"}, object : Objects \cup {NONE},
               told : 0 .. 3]
ContentRec == [status : Statuses, users : Seq(Handles), ll : LLs \cup {NONE}, type : KnownTypes,
               quirks : BOOLEAN, locked : BOOLEAN, converting : BOOLEAN, stopped : BOOLEAN]
ObjectRec  == [state : {"none", "fetching", "complete"}, got : 0 .. 2, whole : BOOLEAN,
               type : KnownTypes]

States == [handle : [Handles -> HandleRec], ll : [LLs -> LLRec], content : [Contents -> ContentRec],
           object : [Objects -> ObjectRec], content_list : Seq(Contents), fault : BOOLEAN]

\* No element of the list u is there twice.
Distinct(u) == \A i, j \in 1 .. Len(u) : u[i] = u[j] => i = j

Has(u, g) == \E i \in 1 .. Len(u) : u[i] = g

\* A handle that is not in use has nothing, one in use a context or a content.
HandlesOK(s, x) ==
    \A h \in Handles :
        /\ ~s.handle[h].used => s.handle[h].entry = NONE /\ ~s.handle[h].aborted
        /\ s.handle[h].entry = NONE => s.handle[h].told = "none"
        /\ h # x /\ s.handle[h].ctx # NONE => s.handle[h].used /\ s.handle[h].entry = NONE

\* The users of a content are the handles that point to it, each once.
UsersOK(s) ==
    \A k \in Contents :
        /\ Distinct(s.content[k].users)
        /\ \A h \in Handles : Has(s.content[k].users, h) <=> s.handle[h].entry = k

\* Contexts, and contents, own low-level handles that say so and that nobody
\* else owns; and a low-level handle that says so is owned.
CtxOK(s, x, m) ==
    \A h \in Handles \ {x} : s.handle[h].ctx # NONE =>
        /\ s.ll[s.handle[h].ctx].owner = "ctx" /\ s.handle[h].ctx # m
        /\ \A g \in Handles \ {x} : s.handle[g].ctx = s.handle[h].ctx => g = h

EntriesOK(s, m) ==
    \A k \in Contents : s.content[k].status # "none" =>
        /\ s.content[k].ll \in LLs /\ s.content[k].ll # m
        /\ s.ll[s.content[k].ll].owner = "content"
        /\ \A j \in Contents : s.content[j].status # "none" /\ s.content[j].ll = s.content[k].ll => j = k

OwnedOK(s, x, m) ==
    \A l \in LLs \ {m} :
        /\ s.ll[l].owner = "ctx" => \E h \in Handles \ {x} : s.handle[h].ctx = l
        /\ s.ll[l].owner = "content" =>
              \E k \in Contents : s.content[k].status # "none" /\ s.content[k].ll = l

OwnersOK(s, x, m) == CtxOK(s, x, m) /\ EntriesOK(s, m) /\ OwnedOK(s, x, m)

\* A low-level handle in use has an object, and heard of its end after that.
LLsOK(s, m) ==
    /\ m # NONE => m \in LLs /\ s.ll[m].owner # "none"
    /\ \A l \in LLs : 
          IF s.ll[l].owner = "none" THEN s.ll[l] = NoLL
          ELSE /\ s.ll[l].object \in Objects
               /\ s.object[s.ll[l].object].state # "none"
               /\ s.ll[l].told = 3 => s.object[s.ll[l].object].state = "complete"

\* A content is converted, and locked meanwhile, once all of its data is there.
ContentsOK(s) ==
    \A k \in Contents :
        /\ s.content[k].status = "none" => s.content[k] = NoContent
        /\ s.content[k].converting => s.content[k].locked
        /\ s.content[k].locked => s.content[k].status = "LOADING"
        /\ s.content[k].locked \/ s.content[k].status \in {"READY", "DONE"} => s.ll[s.content[k].ll].told = 3

Core(s, x, m) ==
    /\ s \in States
    /\ ~s.fault
    /\ HandlesOK(s, x)
    /\ UsersOK(s)
    /\ OwnersOK(s, x, m)
    /\ LLsOK(s, m)
    /\ ContentsOK(s)

\* Every user but those in D has been told how far its content is.
ToldOK(s, D) ==
    \A h \in Handles \ D : s.handle[h].entry # NONE => s.handle[h].told = s.content[s.handle[h].entry].status

\* Somebody who aborted nothing relies on what l brings.
Relied(s, x, l) ==
    \/ \E h \in Handles : /\ s.handle[h].entry # NONE /\ ~s.handle[h].aborted
                          /\ s.content[s.handle[h].entry].ll = l
    \/ \E h \in Handles \ {x} : s.handle[h].ctx = l

PrivateOK(s, x, o) ==
    \A l \in LLs : Relied(s, x, l) /\ s.ll[l].object # o => s.object[s.ll[l].object].whole

\* Who waits has something to wait for.  An image is converted at once, and
\* only images and stylesheets are shared.
WaitsOK(s, x, k0) ==
    /\ \A h \in Handles \ {x} : s.handle[h].ctx # NONE => s.ll[s.handle[h].ctx].told < 3
    /\ \A k \in Contents :
          /\ k # k0 /\ s.content[k].status = "LOADING" =>
                s.content[k].converting \/ s.ll[s.content[k].ll].told < 3
          /\ k # k0 /\ s.content[k].type = "image" => ~s.content[k].converting
          /\ s.content[k].type \notin {"image", "css"} => Len(s.content[k].users) <= 1

\* Between two operations.
Good(s) == Core(s, NONE, NONE) /\ ToldOK(s, {}) /\ PrivateOK(s, NONE, NONE)

HInv == Good(hl)
HWaits == WaitsOK(hl, NONE, NONE)
-----------------------------------------------------------------------------
(* Induction over the natural numbers, and lists *)

LEMMA NatInductionSet ==
    ASSUME NEW S, 0 \in S, \A n \in Nat : n \in S => n + 1 \in S
    PROVE  Nat \subseteq S
<1> DEFINE T == Nat \ S
<1>1. SUFFICES ASSUME T # {} PROVE FALSE
  OBVIOUS
<1>2. PICK x \in T : \A y \in T : ~(<<y, x>> \in OpToRel(<, Nat))
  <2>1. T \subseteq Nat
    OBVIOUS
  <2> HIDE DEF T
  <2> QED  BY Zenon, <1>1, <2>1, NatLessThanWellFounded, WFMin
<1>3. x \in Nat /\ x # 0
  OBVIOUS
<1>4. x - 1 \in Nat /\ x - 1 \notin S
  BY <1>3
<1>5. <<x - 1, x>> \in OpToRel(<, Nat)
  BY <1>3, <1>4 DEF OpToRel
<1> QED  BY Zenon, <1>2, <1>4, <1>5

LEMMA LeastNat ==
    ASSUME NEW S \in SUBSET Nat, S # {}
    PROVE  \E x \in S : \A y \in S : x <= y
<1>1. PICK x \in S : \A y \in S : ~(<<y, x>> \in OpToRel(<, Nat))
  BY NatLessThanWellFounded, WFMin, Zenon
<1>2. \A y \in S : ~(y < x)
  BY <1>1, Zenon DEF OpToRel
<1> QED  BY <1>2

\* The index of the first element of u in S is an index of one.
LEMMA LeastIndex ==
    ASSUME NEW I \in SUBSET Nat, I # {}
    PROVE  Min(I) \in I
  BY LeastNat DEF Min

LEMMA CutAt ==
    ASSUME NEW S, NEW u \in Seq(S), NEW p \in 1 .. Len(u)
    PROVE  LET r == SubSeq(u, 1, p - 1) \o SubSeq(u, p + 1, Len(u))
           IN  /\ r \in Seq(S) /\ Len(r) = Len(u) - 1
               /\ \A j \in 1 .. Len(r) : r[j] = IF j < p THEN u[j] ELSE u[j + 1]
<1> DEFINE a == SubSeq(u, 1, p - 1)
           b == SubSeq(u, p + 1, Len(u))
<1>1. Len(u) \in Nat /\ p \in Nat
  OBVIOUS
<1>2. a \in Seq(S) /\ Len(a) = p - 1 /\ \A i \in 1 .. p - 1 : a[i] = u[i]
  BY <1>1
<1>3. b \in Seq(S) /\ Len(b) = Len(u) - p /\ \A i \in 1 .. Len(u) - p : b[i] = u[p + i]
  BY <1>1
<1> HIDE DEF a, b
<1>4. a \o b \in Seq(S) /\ Len(a \o b) = Len(u) - 1
  <2>1. a \o b \in Seq(S) /\ Len(a \o b) = Len(a) + Len(b)
    BY <1>2, <1>3, ConcatProperties, Zenon
  <2> QED  BY <1>1, <1>2, <1>3, <2>1
<1>5. ASSUME NEW j \in 1 .. Len(u) - 1
      PROVE  (a \o b)[j] = IF j < p THEN u[j] ELSE u[j + 1]
  <2>1. CASE j < p
    BY <1>1, <1>2, <1>3, <2>1
  <2>2. CASE ~(j < p)
    <3>1. (a \o b)[j] = b[j - (p - 1)]
      BY <1>1, <1>2, <1>3, <2>2
    <3>2. j - (p - 1) \in 1 .. Len(u) - p /\ p + (j - (p - 1)) = j + 1
      BY <1>1, <2>2
    <3> QED  BY <1>3, <2>2, <3>1, <3>2
  <2> QED  BY <2>1, <2>2
<1> QED  BY <1>4, <1>5 DEF a, b

LEMMA RemoveFirstOf ==
    ASSUME NEW S, NEW u \in Seq(S), Distinct(u), NEW p \in 1 .. Len(u)
    PROVE  LET r == RemoveFirst(u, u[p])
           IN  /\ r \in Seq(S) /\ Len(r) = Len(u) - 1
               /\ \A j \in 1 .. Len(r) : r[j] = IF j < p THEN u[j] ELSE u[j + 1]
<1> DEFINE I == {i \in 1 .. Len(u) : u[i] = u[p]}
<1>1. Len(u) \in Nat /\ I = {p}
  BY DEF Distinct
<1>2. Min(I) = p
  BY <1>1, LeastIndex
<1>3. RemoveFirst(u, u[p]) = SubSeq(u, 1, p - 1) \o SubSeq(u, p + 1, Len(u))
  BY <1>1, <1>2 DEF RemoveFirst, RemoveAt, SelectInSeq
<1> DEFINE r == SubSeq(u, 1, p - 1) \o SubSeq(u, p + 1, Len(u))
<1>4. /\ r \in Seq(S) /\ Len(r) = Len(u) - 1
      /\ \A j \in 1 .. Len(r) : r[j] = IF j < p THEN u[j] ELSE u[j + 1]
  BY CutAt
<1> HIDE DEF r, I
<1> QED  BY <1>3, <1>4 DEF r

LEMMA RemoveFirstType ==
    ASSUME NEW S, NEW u \in Seq(S), NEW e
    PROVE  RemoveFirst(u, e) \in Seq(S)
<1> DEFINE I == {i \in 1 .. Len(u) : u[i] = e}
<1>1. CASE I = {}
  BY <1>1 DEF RemoveFirst
<1>2. CASE I # {}
  <2>1. Len(u) \in Nat /\ I \in SUBSET Nat
    OBVIOUS
  <2>2. Min(I) \in I
    BY <1>2, <2>1, LeastIndex
  <2>3. RemoveFirst(u, e) = SubSeq(u, 1, Min(I) - 1) \o SubSeq(u, Min(I) + 1, Len(u))
    BY <1>2 DEF RemoveFirst, RemoveAt, SelectInSeq
  <2> QED  BY <2>2, <2>3, CutAt
<1> QED  BY <1>1, <1>2

\* What a list of users is without one of them.
LEMMA UserRemoved ==
    ASSUME NEW S, NEW u \in Seq(S), Distinct(u), NEW p \in 1 .. Len(u), NEW r,
           r = RemoveFirst(u, u[p])
    PROVE  /\ r \in Seq(S) /\ Distinct(r)
           /\ \A g : Has(r, g) <=> Has(u, g) /\ g # u[p]
<1>1. /\ r \in Seq(S) /\ Len(r) = Len(u) - 1 /\ Len(u) \in Nat
      /\ \A j \in 1 .. Len(r) : r[j] = IF j < p THEN u[j] ELSE u[j + 1]
  <2>1. Len(u) \in Nat
    OBVIOUS
  <2>2. /\ r \in Seq(S) /\ Len(r) = Len(u) - 1
        /\ \A j \in 1 .. Len(r) : r[j] = IF j < p THEN u[j] ELSE u[j + 1]
    BY RemoveFirstOf, Zenon
  <2> QED  BY <2>1, <2>2, Zenon
<1>2. Distinct(r)
  <2> SUFFICES ASSUME NEW i \in 1 .. Len(r), NEW j \in 1 .. Len(r), r[i] = r[j]
               PROVE  i = j
    BY DEF Distinct
  <2>1. \A n \in 1 .. Len(r) : \E a \in 1 .. Len(u) : r[n] = u[a] /\ a = IF n < p THEN n ELSE n + 1
    BY SMTT(30), <1>1
  <2>2. PICK a \in 1 .. Len(u) : r[i] = u[a] /\ a = IF i < p THEN i ELSE i + 1
    BY <2>1
  <2>3. PICK b \in 1 .. Len(u) : r[j] = u[b] /\ b = IF j < p THEN j ELSE j + 1
    BY <2>1
  <2>4. a = b
    BY <2>2, <2>3 DEF Distinct
  <2> QED  BY <2>2, <2>3, <2>4, <1>1
<1>3. ASSUME NEW g, NEW i \in 1 .. Len(r), r[i] = g
      PROVE  (\E j \in 1 .. Len(u) : u[j] = g) /\ g # u[p]
  <2>1. i \in 1 .. Len(u) /\ i + 1 \in 1 .. Len(u)
    BY <1>1
  <2> QED  BY <1>1, <1>3, <2>1 DEF Distinct
<1>4. ASSUME NEW g, g # u[p], NEW i \in 1 .. Len(u), u[i] = g
      PROVE  \E j \in 1 .. Len(r) : r[j] = g
  <2>1. CASE i < p
    BY <1>1, <1>4, <2>1
  <2>2. CASE i > p
    <3>1. i - 1 \in 1 .. Len(r) /\ ~(i - 1 < p) /\ (i - 1) + 1 = i
      BY <1>1, <2>2
    <3> QED  BY <1>1, <1>4, <3>1
  <2> QED  BY <1>4, <2>1, <2>2
<1> QED  BY <1>1, <1>2, <1>3, <1>4 DEF Has

LEMMA UserAdded ==
    ASSUME NEW S, NEW u \in Seq(S), Distinct(u), NEW e \in S, ~Has(u, e), NEW r, r = <<e>> \o u
    PROVE  /\ r \in Seq(S) /\ Distinct(r) /\ Len(r) = Len(u) + 1
           /\ \A g : Has(r, g) <=> Has(u, g) \/ g = e
<1>0. \A i \in 1 .. Len(u) : u[i] # e
  BY DEF Has
<1>1. /\ r \in Seq(S) /\ Len(r) = Len(u) + 1 /\ Len(u) \in Nat
      /\ r[1] = e /\ \A j \in 1 .. Len(r) : j # 1 => r[j] = u[j - 1]
  OBVIOUS
<1>2. Distinct(r)
  <2> SUFFICES ASSUME NEW i \in 1 .. Len(r), NEW j \in 1 .. Len(r), r[i] = r[j]
               PROVE  i = j
    BY DEF Distinct
  <2>1. i # 1 => i - 1 \in 1 .. Len(u) /\ r[i] = u[i - 1]
    BY <1>1
  <2>2. j # 1 => j - 1 \in 1 .. Len(u) /\ r[j] = u[j - 1]
    BY <1>1
  <2>3. i # 1 /\ j # 1 => i - 1 = j - 1
    BY <2>1, <2>2 DEF Distinct
  <2> QED  BY <1>0, <1>1, <2>1, <2>2, <2>3
<1>3. \A j \in 1 .. Len(u) : j + 1 \in 1 .. Len(r) /\ r[j + 1] = u[j]
  BY <1>1
<1>4. \A j \in 1 .. Len(r) : j # 1 => j - 1 \in 1 .. Len(u)
  BY <1>1
<1>5. \A g : Has(r, g) <=> Has(u, g) \/ g = e
  BY <1>1, <1>3, <1>4 DEF Has
<1> QED  BY <1>1, <1>2, <1>5


-----------------------------------------------------------------------------
(* Expectations that are met, and the steps the operations are made of *)

LEMMA Expected ==
    ASSUME NEW s \in States, NEW P, P
    PROVE  Expect(s, P) = s
  BY DEF Expect, States

\* What OwnersOK is about.
LEMMA OwnersFrame ==
    ASSUME NEW s \in States, NEW r, NEW x, NEW m, OwnersOK(s, x, m),
           \A h \in Handles : r.handle[h].ctx = s.handle[h].ctx,
           \A k \in Contents : r.content[k].status = s.content[k].status /\ r.content[k].ll = s.content[k].ll,
           \A l \in LLs : r.ll[l].owner = s.ll[l].owner
    PROVE  OwnersOK(r, x, m)
<1>1. \A h \in Handles : s.handle[h].ctx \in LLs \cup {NONE}
  BY DEF States, HandleRec
<1>2. CtxOK(r, x, m)
  BY <1>1 DEF OwnersOK, CtxOK
<1>3. EntriesOK(r, m)
  BY DEF OwnersOK, EntriesOK
<1>4. OwnedOK(r, x, m)
  BY DEF OwnersOK, OwnedOK
<1> QED  BY <1>2, <1>3, <1>4 DEF OwnersOK

LEMMA NoHandleCtx == [NoHandle EXCEPT !.ctx = NONE] = NoHandle
<1>1. NoHandle \in [used : {FALSE}, entry : {NONE}, ctx : {NONE}, told : {"none"}, aborted : {FALSE}]
  BY DEF NoHandle
<1>2. NoHandle.ctx = NONE
  BY DEF NoHandle
<1> QED  BY <1>1, <1>2

\* A handle with a content is told something.
ToldOf(s, h, msg) == [s EXCEPT !.handle[h].told = msg]

IsTold(s, r, h, msg) ==
    /\ r.ll = s.ll /\ r.content = s.content /\ r.object = s.object
    /\ r.content_list = s.content_list
    /\ \A g \in Handles \ {h} : r.handle[g] = s.handle[g]
    /\ r.handle[h].used = s.handle[h].used /\ r.handle[h].entry = s.handle[h].entry
    /\ r.handle[h].ctx = s.handle[h].ctx /\ r.handle[h].aborted = s.handle[h].aborted
    /\ r.handle[h].told = msg

LEMMA ToldStep ==
    ASSUME NEW s, NEW x, NEW m, Core(s, x, m), NEW h \in Handles, s.handle[h].entry # NONE,
           NEW msg \in {"LOADING", "READY", "DONE"}
    PROVE  Core(ToldOf(s, h, msg), x, m) /\ IsTold(s, ToldOf(s, h, msg), h, msg)
<1> DEFINE r == ToldOf(s, h, msg)
<1>1. s \in States /\ s.handle \in [Handles -> HandleRec] /\ ~s.fault
  BY DEF Core, States
<1>2. /\ r.handle = [s.handle EXCEPT ![h].told = msg]
      /\ r.ll = s.ll /\ r.content = s.content /\ r.object = s.object
      /\ r.content_list = s.content_list /\ r.fault = s.fault
  BY <1>1 DEF States, ToldOf
<1>3. r \in States
  <2>1. [s.handle EXCEPT ![h].told = msg] \in [Handles -> HandleRec]
    BY <1>1 DEF HandleRec
  <2> QED  BY <1>1, <2>1 DEF States, ToldOf
<1> HIDE DEF r
<1>4. \A g \in Handles : /\ r.handle[g].used = s.handle[g].used
                         /\ r.handle[g].entry = s.handle[g].entry
                         /\ r.handle[g].ctx = s.handle[g].ctx
                         /\ r.handle[g].aborted = s.handle[g].aborted
                         /\ g # h => r.handle[g].told = s.handle[g].told
  BY <1>1, <1>2 DEF HandleRec
<1>5. HandlesOK(r, x)
  BY <1>4 DEF Core, HandlesOK
<1>6. OwnersOK(r, x, m)
  BY <1>1, <1>2, <1>4, OwnersFrame DEF Core
<1>7. UsersOK(r) /\ LLsOK(r, m) /\ ContentsOK(r)
  BY <1>2, <1>4 DEF Core, UsersOK, LLsOK, ContentsOK
<1>8. IsTold(s, r, h, msg)
  <2>1. \A g \in Handles \ {h} : r.handle[g] = s.handle[g]
    BY <1>1, <1>2
  <2>2. r.handle[h].told = msg
    BY <1>1, <1>2 DEF HandleRec
  <2> QED  BY <1>2, <1>4, <2>1, <2>2 DEF IsTold
<1> QED  BY <1>1, <1>2, <1>3, <1>5, <1>6, <1>7, <1>8 DEF Core, r


\* A handle with a content is released.
LEMMA ReleaseStep ==
    ASSUME NEW s, NEW x, NEW m, Core(s, x, m), NEW h \in Handles, h # x,
           NEW k, k = s.handle[h].entry, k # NONE, NEW t \in BOOLEAN
    PROVE  /\ Core(Released(s, h, t), x, m)
           /\ Released(s, h, t).handle = [s.handle EXCEPT ![h] = NoHandle]
           /\ Released(s, h, t).content = [s.content EXCEPT ![k].users = RemoveFirst(s.content[k].users, h)]
           /\ Released(s, h, t).ll = s.ll /\ Released(s, h, t).object = s.object
           /\ Released(s, h, t).content_list = s.content_list
<1> DEFINE u == s.content[k].users
           w == RemoveFirst(u, h)
           r == Released(s, h, t)
<1>1. /\ s \in States /\ s.handle \in [Handles -> HandleRec] /\ ~s.fault
      /\ s.content \in [Contents -> ContentRec]
  BY DEF Core, States
<1>2. k \in Contents /\ s.content[k] \in ContentRec /\ u \in Seq(Handles) /\ s.handle[h].ctx = NONE
  BY <1>1 DEF HandleRec, ContentRec, Core, HandlesOK
<1>3. Distinct(u) /\ Has(u, h)
  BY ZenonT(60), <1>2 DEF Core, UsersOK
<1>4. PICK p \in 1 .. Len(u) : u[p] = h
  BY <1>3 DEF Has
<1>5. w \in Seq(Handles) /\ Distinct(w) /\ \A g : Has(w, g) <=> Has(u, g) /\ g # h
  <2> HIDE DEF u
  <2>1. w = RemoveFirst(u, u[p])
    BY <1>4
  <2> HIDE DEF w
  <2>2. u \in Seq(Handles) /\ Distinct(u)
    BY <1>2, <1>3
  <2> QED  BY <1>4, <2>1, <2>2, UserRemoved
<1>6. h \in Range(u)
  BY <1>2, <1>4 DEF Range
<1>7. Expect(s, h \in Range(u)) = s
  BY <1>1, <1>6, Expected
<1>8. r = [[s EXCEPT !.content[k].users = RemoveFirst(@, h)] EXCEPT !.handle[h] = [NoHandle EXCEPT !.ctx = s.handle[h].ctx]]
  <2>1. content_remove_user(s, k, h) = [s EXCEPT !.content[k].users = RemoveFirst(@, h)]
    BY <1>7, Zenon DEF content_remove_user
  <2>2. [s EXCEPT !.content[k].users = RemoveFirst(@, h)].handle = s.handle
    BY <1>1 DEF States
  <2> QED  BY <2>1, <2>2 DEF Released
<1>9. /\ r.handle = [s.handle EXCEPT ![h] = NoHandle]
      /\ r.content = [s.content EXCEPT ![k].users = w]
      /\ r.ll = s.ll /\ r.object = s.object /\ r.content_list = s.content_list /\ r.fault = s.fault
  <2>1. s.handle[h].ctx = NONE
    BY <1>2
  <2>2. [NoHandle EXCEPT !.ctx = s.handle[h].ctx] = NoHandle
    BY SMTT(30), <2>1, NoHandleCtx
  <2> QED  BY <1>1, <1>2, <1>8, <2>2 DEF States
<1>10. r \in States
  <2>1. [s.handle EXCEPT ![h] = NoHandle] \in [Handles -> HandleRec]
    BY SMTT(30), <1>1 DEF HandleRec, NoHandle
  <2>2. [s.content EXCEPT ![k].users = w] \in [Contents -> ContentRec]
    BY Zenon, <1>1, <1>2, <1>5 DEF ContentRec
  <2> HIDE DEF w, u
  <2> QED  BY ZenonT(60), <1>1, <1>8, <1>9, <2>1, <2>2 DEF States
<1> HIDE DEF r, w, u
<1>11. \A g \in Handles : g # h => r.handle[g] = s.handle[g]
  BY <1>1, <1>9
<1>12. r.handle[h] = NoHandle
  BY Zenon, <1>1, <1>9
<1>13. \A j \in Contents : /\ j # k => r.content[j] = s.content[j]
                           /\ r.content[j].status = s.content[j].status
                           /\ r.content[j].ll = s.content[j].ll
                           /\ r.content[j].locked = s.content[j].locked
                           /\ r.content[j].converting = s.content[j].converting
  BY <1>1, <1>2, <1>9 DEF ContentRec
<1>14. r.content[k].users = w
  BY <1>1, <1>2, <1>9 DEF ContentRec
<1>15. HandlesOK(r, x)
  BY <1>11, <1>12 DEF Core, HandlesOK, NoHandle
<1>16. UsersOK(r)
  <2>1. ASSUME NEW j \in Contents PROVE Distinct(r.content[j].users)
    BY <1>5, <1>13, <1>14 DEF Core, UsersOK
  <2>2. ASSUME NEW j \in Contents, NEW g \in Handles
        PROVE  Has(r.content[j].users, g) <=> r.handle[g].entry = j
    <3>1. Has(s.content[j].users, g) <=> s.handle[g].entry = j
      BY DEF Core, UsersOK
    <3>2. CASE j = k
      <4>1. Has(u, g) <=> s.handle[g].entry = k
        BY <3>1, <3>2 DEF u
      <4>2. r.handle[h].entry # k
        BY <1>2, <1>12, HLAssumption DEF NoHandle
      <4> QED  BY <1>5, <1>11, <1>14, <3>2, <4>1, <4>2
    <3>3. CASE j # k
      BY <1>11, <1>12, <1>13, <3>1, <3>3, HLAssumption DEF NoHandle
    <3> QED  BY <3>2, <3>3
  <2> QED  BY <2>1, <2>2 DEF UsersOK
<1>17. \A g \in Handles : r.handle[g].ctx = s.handle[g].ctx
  BY <1>2, <1>11, <1>12 DEF NoHandle
<1>18. OwnersOK(r, x, m)
  BY Zenon, <1>1, <1>9, <1>13, <1>17, OwnersFrame DEF Core
<1>19. LLsOK(r, m)
  BY <1>9 DEF Core, LLsOK
<1>20. ContentsOK(r)
  <2>1. s.content[k].status # "none"
    BY <1>2, <1>4 DEF Core, ContentsOK, NoContent, u
  <2> SUFFICES ASSUME NEW j \in Contents
               PROVE  /\ r.content[j].status = "none" => r.content[j] = NoContent
                      /\ r.content[j].converting => r.content[j].locked
                      /\ r.content[j].locked => r.content[j].status = "LOADING"
                      /\ r.content[j].locked \/ r.content[j].status \in {"READY", "DONE"} => r.ll[r.content[j].ll].told = 3
    BY DEF ContentsOK
  <2>2. r.content[j].status = "none" => r.content[j] = NoContent
    BY <1>13, <2>1 DEF Core, ContentsOK
  <2> QED  BY ZenonT(60), <1>9, <1>13, <2>2 DEF Core, ContentsOK
<1> QED  BY <1>1, <1>9, <1>10, <1>15, <1>16, <1>18, <1>19, <1>20 DEF Core, r, w, u


-----------------------------------------------------------------------------
(* Callbacks and broadcasts *)

\* From s to r handles have been told something, or released.
Less(s, r) ==
    /\ r.ll = s.ll /\ r.object = s.object /\ r.content_list = s.content_list
    /\ \A k \in Contents :
          /\ r.content[k].status = s.content[k].status
          /\ r.content[k].ll = s.content[k].ll
          /\ r.content[k].type = s.content[k].type
          /\ r.content[k].locked = s.content[k].locked
          /\ r.content[k].converting = s.content[k].converting
          /\ Len(r.content[k].users) <= Len(s.content[k].users)
    /\ \A h \in Handles :
          /\ r.handle[h].ctx = s.handle[h].ctx
          /\ \/ r.handle[h].entry = NONE
             \/ /\ r.handle[h].entry = s.handle[h].entry
                /\ r.handle[h].aborted = s.handle[h].aborted

LEMMA UsersLen ==
    ASSUME NEW s \in States, NEW k \in Contents
    PROVE  s.content[k].users \in Seq(Handles) /\ Len(s.content[k].users) \in Nat
  BY DEF States, ContentRec

LEMMA LessRefl ==
    ASSUME NEW s \in States
    PROVE  Less(s, s)
  BY UsersLen DEF Less

LEMMA LessTrans ==
    ASSUME NEW s \in States, NEW q \in States, NEW r \in States, Less(s, q), Less(q, r)
    PROVE  Less(s, r)
<1>1. \A k \in Contents : Len(r.content[k].users) <= Len(s.content[k].users)
  <2> TAKE k \in Contents
  <2>1. /\ Len(s.content[k].users) \in Nat /\ Len(q.content[k].users) \in Nat
        /\ Len(r.content[k].users) \in Nat
    BY UsersLen
  <2>2. /\ Len(q.content[k].users) <= Len(s.content[k].users)
        /\ Len(r.content[k].users) <= Len(q.content[k].users)
    BY DEF Less
  <2>3. \A a, b, c \in Nat : b <= a /\ c <= b => c <= a
    OBVIOUS
  <2> QED  BY <2>1, <2>2, <2>3
<1> QED  BY <1>1 DEF Less

LEMMA LessPrivate ==
    ASSUME NEW s \in States, NEW r, Less(s, r), NEW x, NEW o, PrivateOK(s, x, o)
    PROVE  PrivateOK(r, x, o)
<1>1. \A h \in Handles : s.handle[h].entry \in Contents \cup {NONE}
  BY DEF States, HandleRec
<1>2. ASSUME NEW l, Relied(r, x, l)
      PROVE  Relied(s, x, l)
  BY <1>1, <1>2 DEF Relied, Less
<1> QED  BY <1>2 DEF PrivateOK, Less

LEMMA LessWaits ==
    ASSUME NEW s \in States, NEW r \in States, Less(s, r), NEW x, NEW k0, WaitsOK(s, x, k0)
    PROVE  WaitsOK(r, x, k0)
<1>1. \A k \in Contents : Len(s.content[k].users) <= 1 => Len(r.content[k].users) <= 1
  BY UsersLen DEF Less
<1> QED  BY <1>1 DEF WaitsOK, Less

IsReleased(s, r, h, k) ==
    /\ r.handle[h] = NoHandle
    /\ \A g \in Handles \ {h} : r.handle[g] = s.handle[g]
    /\ r.content[k].users = RemoveFirst(s.content[k].users, h)
    /\ \A j \in Contents \ {k} : r.content[j].users = s.content[j].users

LEMMA ReleaseLess ==
    ASSUME NEW s, NEW x, NEW m, Core(s, x, m), NEW h \in Handles, h # x,
           NEW k, k = s.handle[h].entry, k # NONE, NEW t \in BOOLEAN, NEW r, r = Released(s, h, t)
    PROVE  Core(r, x, m) /\ Less(s, r) /\ IsReleased(s, r, h, k)
<1> DEFINE u == s.content[k].users
<1>1. /\ Core(r, x, m)
      /\ r.handle = [s.handle EXCEPT ![h] = NoHandle]
      /\ r.content = [s.content EXCEPT ![k].users = RemoveFirst(u, h)]
      /\ r.ll = s.ll /\ r.object = s.object /\ r.content_list = s.content_list
  BY ReleaseStep
<1>2. /\ s \in States /\ s.handle \in [Handles -> HandleRec]
      /\ s.content \in [Contents -> ContentRec]
  BY DEF Core, States
<1>3. k \in Contents /\ s.content[k] \in ContentRec
  BY <1>2 DEF HandleRec
<1>4. \A j \in Contents : j # k => r.content[j] = s.content[j]
  BY Zenon, <1>1, <1>2
<1>5. r.content[k] = [s.content[k] EXCEPT !.users = RemoveFirst(u, h)]
  BY <1>1, <1>2, <1>3
<1>6. /\ r.content[k].status = s.content[k].status /\ r.content[k].ll = s.content[k].ll
      /\ r.content[k].type = s.content[k].type /\ r.content[k].locked = s.content[k].locked
      /\ r.content[k].converting = s.content[k].converting
      /\ r.content[k].users = RemoveFirst(u, h)
  BY <1>3, <1>5 DEF ContentRec
<1>7. Len(RemoveFirst(u, h)) <= Len(u)
  <2>1. u \in Seq(Handles) /\ Distinct(u) /\ Has(u, h)
    BY ZenonT(60), <1>2, <1>3, UsersLen DEF Core, UsersOK
  <2>2. PICK p \in 1 .. Len(u) : u[p] = h
    BY <2>1 DEF Has
  <2> HIDE DEF u
  <2>3. Len(RemoveFirst(u, u[p])) = Len(u) - 1 /\ Len(u) \in Nat
    BY <2>1, RemoveFirstOf
  <2> QED  BY <2>2, <2>3
<1>8. \A j \in Contents : Len(r.content[j].users) <= Len(s.content[j].users)
  BY <1>2, <1>4, <1>6, <1>7, UsersLen
<1>9. s.handle[h].ctx = NONE
  BY DEF Core, HandlesOK
<1>10. \A g \in Handles : IF g = h THEN r.handle[g] = NoHandle ELSE r.handle[g] = s.handle[g]
  BY SMTT(30), <1>1, <1>2
<1>11. Less(s, r)
  <2>1. \A g \in Handles :
          /\ r.handle[g].ctx = s.handle[g].ctx
          /\ \/ r.handle[g].entry = NONE
             \/ r.handle[g].entry = s.handle[g].entry /\ r.handle[g].aborted = s.handle[g].aborted
    BY <1>9, <1>10 DEF NoHandle
  <2>2. \A j \in Contents :
          /\ r.content[j].status = s.content[j].status
          /\ r.content[j].ll = s.content[j].ll
          /\ r.content[j].type = s.content[j].type
          /\ r.content[j].locked = s.content[j].locked
          /\ r.content[j].converting = s.content[j].converting
    BY Zenon, <1>4, <1>6
  <2> QED  BY Zenon, <1>1, <1>8, <2>1, <2>2 DEF Less
<1>12. IsReleased(s, r, h, k)
  BY <1>4, <1>6, <1>10 DEF IsReleased
<1> QED  BY <1>1, <1>11, <1>12


\* What a client of h does when told anything but an error: it may release
\* another handle that was told READY or DONE.
LEMMA CallbackStep ==
    ASSUME NEW s, NEW x, NEW m, Core(s, x, m), NEW h \in Handles, x \in {h, NONE},
           s.handle[h].entry # NONE,
           NEW msg \in {"LOADING", "READY", "DONE"}, NEW r \in Callback(s, h, msg)
    PROVE  /\ Core(r, x, m) /\ Less(s, r)
           /\ r.handle[h].entry = s.handle[h].entry /\ r.handle[h].told = msg
           /\ r.handle[h].aborted = s.handle[h].aborted /\ r.handle[h].used = s.handle[h].used
           /\ \/ /\ \A g \in Handles \ {h} : r.handle[g] = s.handle[g]
                 /\ \A k \in Contents : r.content[k].users = s.content[k].users
              \/ \E g \in Handles \ {h} :
                   /\ msg = "READY"
                   /\ s.handle[g].told \in {"READY", "DONE"} /\ s.handle[g].entry # NONE
                   /\ r.handle[g] = NoHandle
                   /\ \A f \in Handles \ {g, h} : r.handle[f] = s.handle[f]
                   /\ \A k \in Contents :
                         r.content[k].users = IF k = s.handle[g].entry
                                              THEN RemoveFirst(s.content[k].users, g)
                                              ELSE s.content[k].users
<1> DEFINE told == ToldOf(s, h, msg)
<1>1. Core(told, x, m) /\ IsTold(s, told, h, msg)
  BY ToldStep
<1>2. s \in States /\ told \in States
  BY <1>1 DEF Core
<1>3. \/ r = told
      \/ \E g \in Handles \ {h} : /\ msg = "READY" /\ s.handle[g].told \in {"READY", "DONE"}
                                  /\ r = Released(told, g, FALSE)
  BY DEF Callback, Used, ToldOf
<1> HIDE DEF told
<1>6. Less(s, told)
  <2>1. \A k \in Contents : Len(told.content[k].users) <= Len(s.content[k].users)
    BY <1>1, <1>2, UsersLen DEF IsTold
  <2> QED  BY <1>1, <2>1 DEF Less, IsTold
<1>7. CASE r = told
  BY <1>1, <1>6, <1>7 DEF IsTold
<1>8. CASE r # told
  <2>1. PICK g \in Handles \ {h} : /\ msg = "READY" /\ s.handle[g].told \in {"READY", "DONE"}
                                   /\ r = Released(told, g, FALSE)
    BY <1>3, <1>8
  <2>2. told.handle[g] = s.handle[g] /\ g \in Handles /\ g # x
    BY <1>1, HLAssumption DEF IsTold
  <2>3. s.handle[g].entry # NONE
    BY <2>1 DEF Core, HandlesOK
  <2> DEFINE e == s.handle[g].entry
  <2>4. Core(r, x, m) /\ Less(told, r) /\ IsReleased(told, r, g, e)
    <3>1. e = told.handle[g].entry /\ e # NONE
      BY <2>2, <2>3
    <3> HIDE DEF e
    <3> QED  BY ZenonT(60), <1>1, <2>1, <2>2, <3>1, ReleaseLess
  <2>5. Less(s, r)
    BY <1>2, <1>6, <2>4, LessTrans DEF Core
  <2>7. r.handle[g] = NoHandle /\ \A f \in Handles \ {g, h} : r.handle[f] = s.handle[f]
    BY <1>1, <2>4 DEF IsTold, IsReleased
  <2>8. r.handle[h] = told.handle[h]
    BY <2>4 DEF IsReleased
  <2>9. \A k \in Contents : r.content[k].users = IF k = s.handle[g].entry
                                                 THEN RemoveFirst(s.content[k].users, g)
                                                 ELSE s.content[k].users
    BY <1>1, <2>4 DEF IsTold, IsReleased
  <2> QED  BY <1>1, <2>1, <2>3, <2>4, <2>5, <2>7, <2>8, <2>9 DEF IsTold
<1> QED  BY <1>7, <1>8


\* After n turns the list v of users ends with those of the list u at the start
\* who have not been told, behind c others.
Rest(u, v, n, c) ==
    /\ Len(v) = c + (Len(u) - n)
    /\ \A j \in 1 .. Len(u) - n : v[c + j] = u[n + j]

LEMMA RestNext ==
    ASSUME NEW S, NEW u \in Seq(S), NEW v \in Seq(S), NEW n \in Nat, n < Len(u), NEW c \in Nat,
           Rest(u, v, n, c)
    PROVE  /\ c + 1 \in 1 .. Len(v) /\ v[c + 1] = u[n + 1]
           /\ c + 1 < Len(v) <=> n + 1 < Len(u)
           /\ c + 1 < Len(v) => v[(c + 1) + 1] = u[(n + 1) + 1]
           /\ Rest(u, v, n + 1, c + 1)
<1>1. Len(u) \in Nat /\ Len(v) \in Nat
  OBVIOUS
<1>2. Len(v) = c + (Len(u) - n) /\ \A j \in 1 .. Len(u) - n : v[c + j] = u[n + j]
  BY DEF Rest
<1>3. c + 1 \in 1 .. Len(v) /\ v[c + 1] = u[n + 1] /\ (c + 1 < Len(v) <=> n + 1 < Len(u))
  BY <1>1, <1>2
<1>4. ASSUME NEW j \in 1 .. Len(u) - (n + 1)
      PROVE  v[(c + 1) + j] = u[(n + 1) + j]
  <2>1. j + 1 \in 1 .. Len(u) - n /\ c + (j + 1) = (c + 1) + j /\ n + (j + 1) = (n + 1) + j
    BY <1>1
  <2>2. v[c + (j + 1)] = u[n + (j + 1)]
    BY <1>2, <2>1
  <2> QED  BY <2>1, <2>2
<1>5. Len(v) = (c + 1) + (Len(u) - (n + 1))
  BY <1>1, <1>2
<1>6. c + 1 < Len(v) => 1 \in 1 .. Len(u) - (n + 1)
  BY <1>1, <1>3
<1> QED  BY <1>3, <1>4, <1>5, <1>6 DEF Rest

LEMMA RestRemove ==
    ASSUME NEW S, NEW u \in Seq(S), NEW v \in Seq(S), Distinct(v), NEW n \in Nat, n < Len(u),
           NEW c \in Nat, Rest(u, v, n, c), NEW p \in 1 .. c + 1, NEW w, w = RemoveFirst(v, v[p])
    PROVE  Rest(u, w, n + 1, c)
<1>1. Len(u) \in Nat /\ Len(v) \in Nat
  OBVIOUS
<1>2. Len(v) = c + (Len(u) - n) /\ \A j \in 1 .. Len(u) - n : v[c + j] = u[n + j]
  BY DEF Rest
<1>3. p \in 1 .. Len(v)
  BY <1>1, <1>2
<1>4. Len(w) = Len(v) - 1 /\ \A j \in 1 .. Len(w) : w[j] = IF j < p THEN v[j] ELSE v[j + 1]
  BY <1>3, RemoveFirstOf
<1>5. Len(w) = c + (Len(u) - (n + 1))
  BY <1>1, <1>2, <1>4
<1>6. ASSUME NEW j \in 1 .. Len(u) - (n + 1)
      PROVE  w[c + j] = u[(n + 1) + j]
  <2>1. /\ j + 1 \in 1 .. Len(u) - n /\ c + (j + 1) = (c + j) + 1 /\ n + (j + 1) = (n + 1) + j
        /\ c + j \in 1 .. Len(w) /\ ~(c + j < p)
    BY <1>1, <1>5
  <2>2. v[c + (j + 1)] = u[n + (j + 1)]
    BY <1>2, <2>1
  <2> QED  BY <1>4, <2>1, <2>2
<1> QED  BY <1>5, <1>6 DEF Rest


Untold(s, k, n) == {s.content[k].users[i] : i \in n + 1 .. Len(s.content[k].users)}

\* The state q after n turns of a broadcast that began in s.
Turn(s, k, msg, n, q) ==
    /\ Core(q, NONE, NONE) /\ Less(s, q)
    /\ ToldOK(q, Untold(s, k, n))
    /\ \A h \in Untold(s, k, n) : q.handle[h].told = s.handle[h].told
    /\ \E c \in Nat : /\ Rest(s.content[k].users, q.content[k].users, n, c)
                      /\ msg = "ERROR" => c = 0

\* The state in which a broadcast may begin.
Announces(s, k, msg) ==
    /\ Core(s, NONE, NONE) /\ k \in Contents /\ msg \in {"READY", "DONE", "ERROR"}
    /\ ToldOK(s, {h \in Handles : s.handle[h].entry = k})
    /\ msg # "ERROR" => s.content[k].status = msg
    /\ msg = "READY" => \A h \in Handles : s.handle[h].entry = k => s.handle[h].told = "LOADING"

LEMMA UntoldNext ==
    ASSUME NEW s \in States, NEW k \in Contents, NEW n \in Nat, n < Len(s.content[k].users),
           Distinct(s.content[k].users)
    PROVE  /\ Untold(s, k, n) = Untold(s, k, n + 1) \cup {s.content[k].users[n + 1]}
           /\ s.content[k].users[n + 1] \in Handles
           /\ s.content[k].users[n + 1] \notin Untold(s, k, n + 1)
           /\ Untold(s, k, n) \subseteq Handles
<1> DEFINE u == s.content[k].users
<1>1. u \in Seq(Handles) /\ Len(u) \in Nat
  BY UsersLen
<1>d. \A i, j \in 1 .. Len(u) : u[i] = u[j] => i = j
  BY DEF Distinct
<1> HIDE DEF u
<1>2. {u[i] : i \in n + 1 .. Len(u)} = {u[i] : i \in (n + 1) + 1 .. Len(u)} \cup {u[n + 1]}
  <2>1. n + 1 .. Len(u) = ((n + 1) + 1 .. Len(u)) \cup {n + 1}
    BY <1>1 DEF u
  <2> QED  BY <2>1
<1>3. u[n + 1] \in Handles /\ {u[i] : i \in n + 1 .. Len(u)} \subseteq Handles
  BY <1>1 DEF u
<1>4. u[n + 1] \notin {u[i] : i \in (n + 1) + 1 .. Len(u)}
  <2>1. \A i \in (n + 1) + 1 .. Len(u) : i \in 1 .. Len(u) /\ n + 1 \in 1 .. Len(u) /\ i # n + 1
    BY <1>1
  <2> QED  BY <2>1, <1>d, Zenon
<1> QED  BY <1>2, <1>3, <1>4 DEF Untold, u

LEMMA TellStep ==
    ASSUME NEW s, NEW k, NEW msg, Announces(s, k, msg), NEW n \in Nat,
           n < Len(s.content[k].users), NEW q, Turn(s, k, msg, n, q),
           NEW r \in Tell(q, k, s.content[k].users[n + 1], msg)
    PROVE  Turn(s, k, msg, n + 1, r)
<1> DEFINE u == s.content[k].users
           v == q.content[k].users
           h == u[n + 1]
           D == Untold(s, k, n + 1)
<1>1. /\ Core(s, NONE, NONE) /\ k \in Contents /\ s \in States /\ Distinct(u)
      /\ msg \in {"READY", "DONE", "ERROR"}
  BY DEF Announces, Core, UsersOK
<1>2. /\ Core(q, NONE, NONE) /\ Less(s, q) /\ q \in States
      /\ Distinct(v)
  BY <1>1 DEF Turn, Core, UsersOK
<1>3. /\ u \in Seq(Handles) /\ v \in Seq(Handles) /\ Len(u) \in Nat /\ Len(v) \in Nat
  BY <1>1, <1>2, UsersLen
<1>4. PICK c \in Nat : Rest(u, v, n, c) /\ (msg = "ERROR" => c = 0)
  BY DEF Turn
<1>5. /\ h \in Handles /\ h \notin D /\ D \subseteq Handles
      /\ Untold(s, k, n) = D \cup {h}
  BY <1>1, UntoldNext
<1>6. /\ ToldOK(q, D \cup {h})
      /\ \A g \in D \cup {h} : q.handle[g].told = s.handle[g].told
  BY <1>5 DEF Turn
<1> HIDE DEF u, v, D
<1>7. /\ c + 1 \in 1 .. Len(v) /\ v[c + 1] = h
      /\ c + 1 < Len(v) <=> n + 1 < Len(u)
      /\ c + 1 < Len(v) => v[(c + 1) + 1] = u[(n + 1) + 1]
      /\ Rest(u, v, n + 1, c + 1)
  <2>1. n < Len(u)
    BY DEF u
  <2> QED  BY <1>3, <1>4, <2>1, RestNext
<1>8. h \in Range(v) /\ (CHOOSE j \in DOMAIN v : v[j] = h) = c + 1
  <2>1. DOMAIN v = 1 .. Len(v)
    BY <1>3
  <2>2. \A j \in 1 .. Len(v) : v[j] = h <=> j = c + 1
    BY Zenon, <1>2, <1>7 DEF Distinct
  <2> QED  BY <1>7, <2>1, <2>2 DEF Range
<1> DEFINE next == IF c + 1 < Len(v) THEN {v[(c + 1) + 1]} ELSE {}
<1>9. PICK z \in Callback(q, h, msg) : r = Expect(z, next \subseteq Range(z.content[k].users))
  BY <1>8 DEF Tell, u, v
\* The next user is still there when the rest of the list is.
<1>10. ASSUME NEW w, w \in Seq(Handles), NEW d \in Nat, Rest(u, w, n + 1, d)
       PROVE  next \subseteq Range(w)
  <2>1. CASE n + 1 < Len(u)
    <3>1. w[d + 1] = u[(n + 1) + 1] /\ d + 1 \in 1 .. Len(w)
      BY <1>3, <1>10, <2>1 DEF Rest
    <3> QED  BY <1>7, <1>10, <2>1, <3>1 DEF Range
  <2>2. CASE ~(n + 1 < Len(u))
    BY Zenon, <1>7, <2>2
  <2> QED  BY <2>1, <2>2
<1>11. s.handle[h].entry = k /\ q.handle[h].entry = k /\ \A g \in D : q.handle[g].entry = k
  <2>1. Has(v, h)
    BY <1>7 DEF Has
  <2>2. ASSUME NEW g \in D
        PROVE  Has(v, g)
    <3>1. PICK i \in n + 2 .. Len(u) : g = u[i]
      BY <1>3 DEF D, Untold, u
    <3>2. i - n \in 1 .. Len(u) - n /\ n + (i - n) = i /\ c + (i - n) \in 1 .. Len(v)
      BY <1>3, <1>4 DEF Rest
    <3> QED  BY <1>4, <3>1, <3>2 DEF Rest, Has
  <2>3. Has(u, h)
    BY <1>3, <1>7, <1>4 DEF Has, u
  <2> QED  BY <1>1, <1>2, <1>5, <2>1, <2>2, <2>3 DEF Core, UsersOK, u, v
<1>12. ASSUME Core(z, NONE, NONE), Less(q, z), NEW d \in Nat, Rest(u, z.content[k].users, n + 1, d),
              msg = "ERROR" => d = 0, ToldOK(z, D), \A g \in D : z.handle[g].told = q.handle[g].told
       PROVE  Turn(s, k, msg, n + 1, r)
  <2>1. z \in States /\ z.content[k].users \in Seq(Handles)
    BY <1>1, <1>12, UsersLen DEF Core
  <2>2. r = z
    BY <1>9, <1>10, <1>12, <2>1, Expected
  <2>3. Less(s, z)
    BY <1>1, <1>2, <1>12, <2>1, LessTrans
  <2> QED  BY <1>6, <1>12, <2>2, <2>3 DEF Turn, D, u
<1> HIDE DEF h, next
<1>13. CASE msg = "ERROR"
  <2>1. z = Released(q, h, FALSE)
    BY <1>9, <1>13 DEF Callback
  <2>2. Core(z, NONE, NONE) /\ Less(q, z) /\ IsReleased(q, z, h, k)
    <3>1. h \in Handles
      BY <1>5
    <3>2. h # NONE
      BY <1>5, HLAssumption
    <3>3. k = q.handle[h].entry
      BY <1>11
    <3>4. k # NONE
      BY <1>1, HLAssumption
    <3>5. Core(q, NONE, NONE)
      BY <1>2
    <3>6. PICK t \in BOOLEAN : z = Released(q, h, t)
      BY <2>1
    <3>7. PICK g \in Handles : g = h
      BY <3>1
    <3>8. Core(z, NONE, NONE) /\ Less(q, z) /\ IsReleased(q, z, g, k)
      BY <3>2, <3>3, <3>4, <3>5, <3>6, <3>7, ReleaseLess
    <3> QED  BY <3>7, <3>8
  <2>3. Rest(u, z.content[k].users, n + 1, c)
    <3>1. z.content[k].users = RemoveFirst(v, v[c + 1])
      BY <1>7, <2>2 DEF IsReleased, v
    <3>2. n < Len(u) /\ c + 1 \in 1 .. c + 1
      BY <1>4 DEF u
    <3> QED  BY <1>2, <1>3, <1>4, <3>1, <3>2, RestRemove
  <2>4. ToldOK(z, D)
    <3>1. \A g \in Handles \ {h} : z.handle[g] = q.handle[g]
      BY <2>2 DEF IsReleased
    <3>2. z.handle[h].entry = NONE
      BY <2>2 DEF IsReleased, NoHandle
    <3>3. \A j \in Contents : z.content[j].status = q.content[j].status
      BY <2>2 DEF Less
    <3>4. \A g \in Handles : q.handle[g].entry \in Contents \cup {NONE}
      BY <1>2 DEF States, HandleRec
    <3> QED  BY <1>6, <3>1, <3>2, <3>3, <3>4 DEF ToldOK
  <2>5. \A g \in D : z.handle[g].told = q.handle[g].told
    BY <1>5, <2>2 DEF IsReleased
  <2> QED  BY <1>4, <1>12, <1>13, <2>2, <2>3, <2>4, <2>5
<1>14. CASE msg # "ERROR"
  <2>1. msg \in {"LOADING", "READY", "DONE"} /\ k # NONE
    BY <1>1, <1>14, HLAssumption
  <2>2. /\ Core(z, NONE, NONE) /\ Less(q, z)
        /\ z.handle[h].entry = k /\ z.handle[h].told = msg
        /\ \/ /\ \A g \in Handles \ {h} : z.handle[g] = q.handle[g]
              /\ \A j \in Contents : z.content[j].users = q.content[j].users
           \/ \E g \in Handles \ {h} :
                /\ msg = "READY"
                /\ q.handle[g].told \in {"READY", "DONE"} /\ q.handle[g].entry # NONE
                /\ z.handle[g] = NoHandle
                /\ \A f \in Handles \ {g, h} : z.handle[f] = q.handle[f]
                /\ \A j \in Contents :
                      z.content[j].users = IF j = q.handle[g].entry
                                           THEN RemoveFirst(q.content[j].users, g)
                                           ELSE q.content[j].users
    BY <1>2, <1>5, <1>9, <1>11, <2>1, CallbackStep
  <2>3. \A j \in Contents : z.content[j].status = q.content[j].status
    BY <2>2 DEF Less
  <2>4. \A g \in Handles : q.handle[g].entry \in Contents \cup {NONE}
    BY <1>2 DEF States, HandleRec
  <2>5. q.content[k].status = msg
    BY <1>1, <1>2, <1>14 DEF Less, Announces
  <2>6. CASE /\ \A g \in Handles \ {h} : z.handle[g] = q.handle[g]
             /\ \A j \in Contents : z.content[j].users = q.content[j].users
    <3>1. ToldOK(z, D)
      <4> SUFFICES ASSUME NEW g \in Handles \ D, z.handle[g].entry # NONE
                   PROVE  z.handle[g].told = z.content[z.handle[g].entry].status
        BY DEF ToldOK
      <4>1. CASE g = h
        BY <1>1, <2>2, <2>3, <2>5, <4>1
      <4>2. CASE g # h
        <5>1. z.handle[g] = q.handle[g] /\ q.handle[g].entry \in Contents
          BY <2>4, <2>6, <4>2
        <5>2. q.handle[g].told = q.content[q.handle[g].entry].status
          BY <1>6, <4>2, <5>1 DEF ToldOK
        <5> QED  BY <2>3, <5>1, <5>2
      <4> QED  BY <4>1, <4>2
    <3>2. \A g \in D : z.handle[g].told = q.handle[g].told
      BY <1>5, <2>6
    <3>3. Rest(u, z.content[k].users, n + 1, c + 1)
      BY <1>1, <1>7, <2>6 DEF v
    <3> QED  BY <1>12, <1>14, <2>2, <3>1, <3>2, <3>3
  <2>7. CASE ~(/\ \A g \in Handles \ {h} : z.handle[g] = q.handle[g]
               /\ \A j \in Contents : z.content[j].users = q.content[j].users)
    <3>1. PICK g \in Handles \ {h} :
                /\ msg = "READY"
                /\ q.handle[g].told \in {"READY", "DONE"} /\ q.handle[g].entry # NONE
                /\ z.handle[g] = NoHandle
                /\ \A f \in Handles \ {g, h} : z.handle[f] = q.handle[f]
                /\ \A j \in Contents :
                      z.content[j].users = IF j = q.handle[g].entry
                                           THEN RemoveFirst(q.content[j].users, g)
                                           ELSE q.content[j].users
      BY <2>2, <2>7
    <3>2. ASSUME NEW f \in D
          PROVE  q.handle[f].told = "LOADING" /\ f # g
      <4>1. q.handle[f].entry = k /\ q.handle[f].told = s.handle[f].told
        BY <1>6, <1>11
      <4>2. s.handle[f].entry = k
        BY <1>2, <1>5, <2>1, <4>1 DEF Less
      <4> QED  BY <1>5, <3>1, <4>1, <4>2 DEF Announces
    <3>3. \A f \in D : z.handle[f].told = q.handle[f].told
      BY <1>5, <3>1, <3>2
    <3>4. ToldOK(z, D)
      <4>1. z.handle[g].entry = NONE
        BY <3>1 DEF NoHandle
      <4>2. \A f \in Handles \ (D \cup {g, h}) : z.handle[f] = q.handle[f]
        BY <3>1
      <4>3. z.handle[h].told = z.content[z.handle[h].entry].status
        BY <1>1, <2>2, <2>3, <2>5
      <4> SUFFICES ASSUME NEW f \in Handles \ D, z.handle[f].entry # NONE, f # h
                   PROVE  z.handle[f].told = z.content[z.handle[f].entry].status
        BY <4>3 DEF ToldOK
      <4>4. f \in Handles \ (D \cup {g, h})
        BY <4>1
      <4>5. z.handle[f] = q.handle[f] /\ q.handle[f].entry \in Contents
        BY <2>4, <4>2, <4>4
      <4>6. q.handle[f].told = q.content[q.handle[f].entry].status
        BY <1>6, <4>4, <4>5 DEF ToldOK
      <4> QED  BY <2>3, <4>5, <4>6
    <3>5. CASE q.handle[g].entry = k
      <4>1. Has(v, g)
        BY <1>1, <1>2, <3>5 DEF Core, UsersOK, v
      <4>2. PICK p \in 1 .. Len(v) : v[p] = g
        BY <4>1 DEF Has
      <4>3. p <= c + 1
        <5>1. SUFFICES ASSUME p > c + 1 PROVE FALSE
          BY <1>3
        <5>2. /\ p - c \in 1 .. Len(u) - n /\ c + (p - c) = p
              /\ n + (p - c) \in (n + 1) + 1 .. Len(u)
          BY <1>3, <1>4, <5>1 DEF Rest
        <5>3. v[p] = u[n + (p - c)]
          BY <1>4, <5>2 DEF Rest
        <5>4. g \in D
          BY <4>2, <5>2, <5>3 DEF D, Untold, u
        <5> QED  BY <3>2, <5>4
      <4>4. Rest(u, z.content[k].users, n + 1, c)
        <5>1. z.content[k].users = RemoveFirst(v, v[p])
          BY <1>1, <3>1, <3>5, <4>2 DEF v
        <5>2. n < Len(u) /\ p \in 1 .. c + 1
          BY <1>3, <4>3 DEF u
        <5> QED  BY <1>2, <1>3, <1>4, <5>1, <5>2, RestRemove
      <4> QED  BY <1>12, <1>14, <2>2, <3>3, <3>4, <4>4
    <3>6. CASE q.handle[g].entry # k
      <4>1. Rest(u, z.content[k].users, n + 1, c + 1)
        BY <1>1, <1>7, <3>1, <3>6 DEF v
      <4> QED  BY <1>12, <1>14, <2>2, <3>3, <3>4, <4>1
    <3> QED  BY <3>5, <3>6
  <2> QED  BY <2>6, <2>7
<1> QED  BY <1>13, <1>14

TellAll(v, k, h, msg) == UNION {Tell(q, k, h, msg) : q \in v}

\* The loop does what its body says, turn after turn.
LEMMA TurnsDef ==
    ASSUME NEW s, NEW k, NEW msg, NEW u, u = s.content[k].users, Len(u) \in Nat
    PROVE  /\ Turns(s, k, msg)[0] = {s}
           /\ \A n \in Nat : n < Len(u) =>
                 Turns(s, k, msg)[n + 1] = TellAll(Turns(s, k, msg)[n], k, u[n + 1], msg)
<1> DEFINE Is(f, m) == f = [n \in 0 .. m |-> IF n = 0 THEN {s} ELSE TellAll(f[n - 1], k, u[n], msg)]
           S == {m \in Nat : \E f : Is(f, m)}
<1>1. 0 \in S
  <2> DEFINE f == [n \in 0 .. 0 |-> {s}]
  <2>1. Is(f, 0)
    OBVIOUS
  <2> QED  BY <2>1
<1>2. ASSUME NEW m \in Nat, m \in S
      PROVE  m + 1 \in S
  <2>1. PICK f : Is(f, m)
    BY <1>2
  <2> DEFINE g == [n \in 0 .. m + 1 |-> IF n = m + 1 THEN TellAll(f[m], k, u[m + 1], msg) ELSE f[n]]
  <2>2. Is(g, m + 1)
    <3> SUFFICES ASSUME NEW n \in 0 .. m + 1
                 PROVE  g[n] = IF n = 0 THEN {s} ELSE TellAll(g[n - 1], k, u[n], msg)
      OBVIOUS
    <3> HIDE DEF g
    <3>1. \A i \in 0 .. m + 1 : g[i] = IF i = m + 1 THEN TellAll(f[m], k, u[m + 1], msg) ELSE f[i]
      BY DEF g
    <3>2. CASE n = m + 1
      BY <3>1, <3>2
    <3>3. CASE n # m + 1
      <4>1. n \in 0 .. m /\ (n = 0 \/ n - 1 \in 0 .. m) /\ n - 1 # m + 1
        BY <3>3
      <4>2. f[n] = IF n = 0 THEN {s} ELSE TellAll(f[n - 1], k, u[n], msg)
        BY <2>1, <4>1
      <4> QED  BY <3>1, <3>3, <4>1, <4>2
    <3> QED  BY <3>2, <3>3
  <2> HIDE DEF g, Is
  <2> QED  BY <2>2
<1>3. PICK f : Is(f, Len(u))
  <2> HIDE DEF S
  <2>1. Len(u) \in S
    BY <1>1, <1>2, NatInductionSet
  <2> QED  BY <2>1 DEF S
<1>4. Turns(s, k, msg) = CHOOSE g : g = [n \in 0 .. Len(u) |-> IF n = 0 THEN {s} ELSE TellAll(g[n - 1], k, u[n], msg)]
  BY DEF Turns, TellAll
<1>5. Is(Turns(s, k, msg), Len(u))
  BY <1>3, <1>4
<1> DEFINE T == Turns(s, k, msg)
<1> HIDE DEF T
<1>6. Is(T, Len(u))
  BY <1>5 DEF T
<1>7. T[0] = {s} /\ \A n \in Nat : n < Len(u) => T[n + 1] = TellAll(T[n], k, u[n + 1], msg)
  <2>1. T[0] = {s}
    BY <1>6
  <2>2. ASSUME NEW n \in Nat, n < Len(u)
        PROVE  T[n + 1] = TellAll(T[n], k, u[n + 1], msg)
    <3>1. n + 1 \in 0 .. Len(u) /\ n + 1 # 0 /\ (n + 1) - 1 = n
      BY <2>2
    <3>2. T[n + 1] = IF n + 1 = 0 THEN {s} ELSE TellAll(T[(n + 1) - 1], k, u[n + 1], msg)
      BY <1>6, <3>1
    <3> QED  BY <3>1, <3>2
  <2> QED  BY <2>1, <2>2
<1> QED  BY <1>7 DEF T

\* All users are told, or released, and nothing else happens.  After an error
\* nobody is left.
LEMMA BroadcastStep ==
    ASSUME NEW s, NEW k, NEW msg, Announces(s, k, msg), NEW r \in content_broadcast(s, k, msg)
    PROVE  /\ Core(r, NONE, NONE) /\ Less(s, r) /\ ToldOK(r, {})
           /\ msg = "ERROR" => r.content[k].users = <<>>
<1> DEFINE u == s.content[k].users
           T == Turns(s, k, msg)
           S == {n \in Nat : n <= Len(u) => \A q \in T[n] : Turn(s, k, msg, n, q)}
<1>1. Core(s, NONE, NONE) /\ k \in Contents /\ s \in States /\ Distinct(u)
  BY DEF Announces, Core, UsersOK
<1>2. u \in Seq(Handles) /\ Len(u) \in Nat
  BY <1>1, UsersLen
<1>3. /\ T[0] = {s}
      /\ \A n \in Nat : n < Len(u) => T[n + 1] = TellAll(T[n], k, u[n + 1], msg)
  BY <1>2, TurnsDef
<1> HIDE DEF T
<1>4. 0 \in S
  <2>1. Less(s, s)
    BY <1>1, LessRefl
  <2>2. {h \in Handles : s.handle[h].entry = k} \subseteq Untold(s, k, 0)
    <3> SUFFICES ASSUME NEW h \in Handles, s.handle[h].entry = k
                 PROVE  h \in Untold(s, k, 0)
      OBVIOUS
    <3>1. Has(u, h)
      BY <1>1 DEF Core, UsersOK
    <3> QED  BY <3>1 DEF Has, Untold
  <2>3. ToldOK(s, Untold(s, k, 0))
    BY <2>2 DEF Announces, ToldOK
  <2>4. Rest(u, u, 0, 0)
    BY <1>2 DEF Rest
  <2>5. Turn(s, k, msg, 0, s)
    BY <1>1, <2>1, <2>3, <2>4 DEF Turn
  <2> QED  BY <1>3, <2>5
<1>5. ASSUME NEW n \in Nat, n \in S
      PROVE  n + 1 \in S
  <2> SUFFICES ASSUME n + 1 <= Len(u), NEW z \in T[n + 1]
               PROVE  Turn(s, k, msg, n + 1, z)
    OBVIOUS
  <2>1. n < Len(u) /\ n <= Len(u)
    BY <1>2
  <2>2. PICK q \in T[n] : z \in Tell(q, k, u[n + 1], msg)
    BY <1>3, <2>1 DEF TellAll
  <2>3. Turn(s, k, msg, n, q)
    BY <1>5, <2>1
  <2> QED  BY <2>1, <2>2, <2>3, TellStep
<1>6. Len(u) \in S
  <2> HIDE DEF S
  <2> QED  BY <1>2, <1>4, <1>5, NatInductionSet
<1>7. Turn(s, k, msg, Len(u), r)
  <2>1. r \in T[Len(u)]
    BY DEF content_broadcast, T
  <2> QED  BY <1>2, <1>6, <2>1
<1>8. Untold(s, k, Len(u)) = {}
  BY <1>2 DEF Untold
<1>9. ASSUME msg = "ERROR"
      PROVE  r.content[k].users = <<>>
  <2>1. Rest(u, r.content[k].users, Len(u), 0)
    BY <1>7, <1>9 DEF Turn
  <2>2. Len(r.content[k].users) = 0
    BY <1>2, <2>1 DEF Rest
  <2>3. r.content[k].users \in Seq(Handles)
    BY <1>1, <1>7, UsersLen DEF Turn, Core
  <2> QED  BY <2>2, <2>3
<1> QED  BY <1>7, <1>8, <1>9 DEF Turn

-----------------------------------------------------------------------------
(* Contents *)

LEMMA WaitsExcused ==
    ASSUME NEW s, NEW x, NEW k, WaitsOK(s, x, NONE)
    PROVE  WaitsOK(s, x, k)
<1>1. \A j \in Contents : j # NONE
  BY HLAssumption
<1> QED  BY <1>1 DEF WaitsOK

\* The content k becomes c.
IsSet(s, r, k, c) ==
    /\ r.handle = s.handle /\ r.ll = s.ll /\ r.object = s.object
    /\ r.content_list = s.content_list
    /\ r.content[k] = c /\ \A j \in Contents \ {k} : r.content[j] = s.content[j]

LEMMA ContentStep ==
    ASSUME NEW s, NEW x, NEW m, Core(s, x, m), NEW k \in Contents, s.content[k].status # "none",
           NEW c \in ContentRec, c.users = s.content[k].users, c.ll = s.content[k].ll,
           c.status # "none", c.converting => c.locked, c.locked => c.status = "LOADING",
           c.locked \/ c.status \in {"READY", "DONE"} => s.ll[c.ll].told = 3,
           NEW r, r = [s EXCEPT !.content[k] = c]
    PROVE  Core(r, x, m) /\ IsSet(s, r, k, c)
<1>1. s \in States /\ ~s.fault /\ s.content \in [Contents -> ContentRec]
  BY DEF Core, States
<1>2. /\ r.handle = s.handle /\ r.ll = s.ll /\ r.object = s.object
      /\ r.content_list = s.content_list /\ r.fault = s.fault
      /\ r.content = [s.content EXCEPT ![k] = c]
  BY <1>1 DEF States
<1>3. r \in States
  <2>1. [s.content EXCEPT ![k] = c] \in [Contents -> ContentRec]
    BY <1>1
  <2> QED  BY <1>1, <2>1 DEF States
<1>4. r.content[k] = c /\ \A j \in Contents \ {k} : r.content[j] = s.content[j]
  BY <1>1, <1>2
<1>5. HandlesOK(r, x) /\ LLsOK(r, m)
  BY <1>2 DEF Core, HandlesOK, LLsOK
<1>6. UsersOK(r)
  <2>1. \A j \in Contents : r.content[j].users = s.content[j].users
    BY <1>4
  <2> QED  BY <1>2, <2>1 DEF Core, UsersOK
<1>7. ContentsOK(r)
  BY <1>2, <1>4 DEF Core, ContentsOK
<1>8. CtxOK(r, x, m)
  BY <1>2 DEF Core, OwnersOK, CtxOK
<1>9. EntriesOK(r, m)
  <2>1. \A j \in Contents : /\ r.content[j].ll = s.content[j].ll
                            /\ r.content[j].status # "none" <=> s.content[j].status # "none"
    BY <1>4
  <2> QED  BY <1>2, <2>1 DEF Core, OwnersOK, EntriesOK
<1>10. OwnedOK(r, x, m)
  <2>1. \A j \in Contents : /\ r.content[j].ll = s.content[j].ll
                            /\ r.content[j].status # "none" <=> s.content[j].status # "none"
    BY <1>4
  <2> QED  BY <1>2, <2>1 DEF Core, OwnersOK, OwnedOK
<1> QED  BY <1>1, <1>2, <1>3, <1>4, <1>5, <1>6, <1>7, <1>8, <1>9, <1>10 DEF Core, OwnersOK, IsSet

LEMMA SetPrivate ==
    ASSUME NEW s \in States, NEW r, NEW k, NEW c, IsSet(s, r, k, c), c.ll = s.content[k].ll,
           NEW x, NEW o, PrivateOK(s, x, o)
    PROVE  PrivateOK(r, x, o)
<1>1. \A h \in Handles : s.handle[h].entry \in Contents \cup {NONE}
  BY DEF States, HandleRec
<1>2. \A j \in Contents : r.content[j].ll = s.content[j].ll
  BY DEF IsSet
<1>3. ASSUME NEW l, Relied(r, x, l)
      PROVE  Relied(s, x, l)
  BY <1>1, <1>2, <1>3 DEF Relied, IsSet
<1> QED  BY <1>3 DEF PrivateOK, IsSet

LEMMA SetWaits ==
    ASSUME NEW s \in States, NEW r, NEW k \in Contents, NEW c, IsSet(s, r, k, c),
           c.users = s.content[k].users, c.type = s.content[k].type,
           ~c.converting, c.status # "LOADING", NEW x, WaitsOK(s, x, k)
    PROVE  WaitsOK(r, x, NONE)
  BY DEF WaitsOK, IsSet

\* content_set_ready(): the users have been told LOADING.
LEMMA ReadyStep ==
    ASSUME NEW s, Good(s), NEW k \in Contents, s.content[k].locked, NEW r \in content_set_ready(s, k)
    PROVE  /\ Good(r) /\ r.content[k].status = "READY"
           /\ WaitsOK(s, NONE, k) => WaitsOK(r, NONE, NONE)
<1> DEFINE c == [s.content[k] EXCEPT !.locked = FALSE, !.converting = FALSE, !.status = "READY"]
           q == [s EXCEPT !.content[k] = c]
<1>1. s \in States /\ Core(s, NONE, NONE) /\ s.content[k] \in ContentRec
  BY DEF Good, Core, States
<1>2. s.content[k].status = "LOADING" /\ s.ll[s.content[k].ll].told = 3
  BY <1>1 DEF Core, ContentsOK
<1>3. /\ c \in ContentRec /\ c.users = s.content[k].users /\ c.ll = s.content[k].ll
      /\ c.type = s.content[k].type /\ c.status = "READY" /\ ~c.locked /\ ~c.converting
  BY <1>1 DEF ContentRec, Statuses
<1>4. r \in content_broadcast(q, k, "READY")
  <2>1. Expect(s, s.content[k].locked) = s
    BY <1>1, Expected
  <2>2. [s EXCEPT !.content[k].locked = FALSE, !.content[k].converting = FALSE, !.content[k].status = "READY"] = q
    BY <1>1 DEF States
  <2> QED  BY <2>1, <2>2 DEF content_set_ready
<1> HIDE DEF c
<1>5. Core(q, NONE, NONE) /\ IsSet(s, q, k, c)
  BY <1>1, <1>2, <1>3, ContentStep
<1> HIDE DEF q
<1>6. Announces(q, k, "READY")
  <2>1. \A h \in Handles : s.handle[h].entry = k => s.handle[h].told = "LOADING"
    BY <1>2, HLAssumption DEF Good, ToldOK
  <2>2. \A h \in Handles : s.handle[h].entry \in Contents \cup {NONE}
    BY <1>1 DEF States, HandleRec
  <2>3. ToldOK(q, {h \in Handles : q.handle[h].entry = k})
    BY <1>5, <2>2 DEF Good, ToldOK, IsSet
  <2> QED  BY <1>3, <1>5, <2>1, <2>3 DEF Announces, IsSet
<1>7. Core(r, NONE, NONE) /\ Less(q, r) /\ ToldOK(r, {})
  BY <1>4, <1>6, BroadcastStep
<1>8. q \in States /\ r \in States
  BY <1>5, <1>7 DEF Core
<1>9. PrivateOK(r, NONE, NONE)
  <2>1. PrivateOK(q, NONE, NONE)
    BY <1>1, <1>3, <1>5, SetPrivate DEF Good
  <2> QED  BY <1>7, <1>8, <2>1, LessPrivate
<1>10. ASSUME WaitsOK(s, NONE, k)
       PROVE  WaitsOK(r, NONE, NONE)
  <2>1. WaitsOK(q, NONE, NONE)
    BY <1>1, <1>3, <1>5, <1>10, SetWaits
  <2> QED  BY <1>7, <1>8, <2>1, LessWaits
<1>11. r.content[k].status = "READY"
  BY <1>3, <1>5, <1>7 DEF IsSet, Less
<1> QED  BY <1>7, <1>9, <1>10, <1>11 DEF Good

\* From s to r, k keeps its low-level handle and gets no new users.
StillOf(s, r, k) ==
    /\ r.content[k].ll = s.content[k].ll /\ r.content[k].status # "none" /\ r.ll = s.ll
    /\ \A h \in Handles : r.handle[h].entry = k =>
          s.handle[h].entry = k /\ r.handle[h].aborted = s.handle[h].aborted

LEMMA DoneStep ==
    ASSUME NEW s, Good(s), NEW k \in Contents, s.content[k].status = "READY",
           NEW r \in content_set_done(s, k)
    PROVE  Good(r) /\ (WaitsOK(s, NONE, k) => WaitsOK(r, NONE, NONE)) /\ StillOf(s, r, k)
<1> DEFINE c == [s.content[k] EXCEPT !.status = "DONE"]
           q == [s EXCEPT !.content[k] = c]
<1>1. s \in States /\ Core(s, NONE, NONE) /\ s.content[k] \in ContentRec
  BY DEF Good, Core, States
<1>2. ~s.content[k].locked /\ ~s.content[k].converting /\ s.ll[s.content[k].ll].told = 3
  BY <1>1 DEF Core, ContentsOK
<1>3. /\ c \in ContentRec /\ c.users = s.content[k].users /\ c.ll = s.content[k].ll
      /\ c.type = s.content[k].type /\ c.status = "DONE" /\ ~c.locked /\ ~c.converting
  BY <1>1, <1>2 DEF ContentRec, Statuses
<1>4. r \in content_broadcast(q, k, "DONE")
  BY DEF content_set_done
<1> HIDE DEF c
<1>5. Core(q, NONE, NONE) /\ IsSet(s, q, k, c)
  BY <1>1, <1>2, <1>3, ContentStep
<1> HIDE DEF q
<1>6. Announces(q, k, "DONE")
  <2>1. \A h \in Handles : s.handle[h].entry \in Contents \cup {NONE}
    BY <1>1 DEF States, HandleRec
  <2>2. ToldOK(q, {h \in Handles : q.handle[h].entry = k})
    BY <1>5, <2>1 DEF Good, ToldOK, IsSet
  <2> QED  BY <1>3, <1>5, <2>2 DEF Announces, IsSet
<1>7. Core(r, NONE, NONE) /\ Less(q, r) /\ ToldOK(r, {})
  BY <1>4, <1>6, BroadcastStep
<1>8. q \in States /\ r \in States
  BY <1>5, <1>7 DEF Core
<1>9. PrivateOK(r, NONE, NONE)
  <2>1. PrivateOK(q, NONE, NONE)
    BY <1>1, <1>3, <1>5, SetPrivate DEF Good
  <2> QED  BY <1>7, <1>8, <2>1, LessPrivate
<1>10. ASSUME WaitsOK(s, NONE, k)
       PROVE  WaitsOK(r, NONE, NONE)
  <2>1. WaitsOK(q, NONE, NONE)
    BY <1>1, <1>3, <1>5, <1>10, SetWaits
  <2> QED  BY <1>7, <1>8, <2>1, LessWaits
<1>11. StillOf(s, r, k)
  <2>1. r.content[k].ll = c.ll /\ r.content[k].status = "DONE" /\ r.ll = s.ll /\ q.handle = s.handle
    BY <1>3, <1>5, <1>7 DEF Less, IsSet
  <2>2. \A h \in Handles : r.handle[h].entry = k => q.handle[h].entry = k /\ r.handle[h].aborted = q.handle[h].aborted
    BY <1>7, HLAssumption DEF Less
  <2> QED  BY <1>3, <2>1, <2>2 DEF StillOf
<1> QED  BY <1>7, <1>9, <1>10, <1>11 DEF Good

\* Everybody is told of an error; then the content has one.
IsErred(s, r, k) ==
    /\ Core(r, NONE, NONE) /\ ToldOK(r, {}) /\ r.ll = s.ll /\ r.object = s.object
    /\ r.content[k].ll = s.content[k].ll /\ r.content[k].users = <<>>
    /\ r.content[k].status = "ERROR"
    /\ PrivateOK(s, NONE, NONE) => PrivateOK(r, NONE, NONE)
    /\ WaitsOK(s, NONE, k) => WaitsOK(r, NONE, NONE)

LEMMA ErrorStep ==
    ASSUME NEW s, Core(s, NONE, NONE), ToldOK(s, {}), NEW k \in Contents, s.content[k].status # "none",
           NEW q \in content_broadcast(s, k, "ERROR"),
           NEW c \in ContentRec, c.users = q.content[k].users, c.ll = q.content[k].ll,
           c.type = q.content[k].type, c.status = "ERROR", ~c.locked, ~c.converting,
           NEW r, r = [q EXCEPT !.content[k] = c]
    PROVE  IsErred(s, r, k)
<1>1. Announces(s, k, "ERROR")
  BY DEF Announces, ToldOK
<1>2. /\ Core(q, NONE, NONE) /\ Less(s, q) /\ ToldOK(q, {}) /\ q.content[k].users = <<>>
  BY <1>1, BroadcastStep
<1>3. q.content[k].status # "none" /\ q \in States /\ s \in States
  BY <1>2 DEF Less, Core
<1>4. Core(r, NONE, NONE) /\ IsSet(q, r, k, c)
  BY <1>2, <1>3, ContentStep
<1>5. r \in States
  BY <1>4 DEF Core
<1>6. \A h \in Handles : r.handle[h].entry # k
  <2>1. \A h \in Handles : ~Has(q.content[k].users, h)
    BY <1>2 DEF Has
  <2>2. \A h \in Handles : q.handle[h].entry # k
    BY <1>2, <2>1 DEF Core, UsersOK
  <2> QED  BY <1>4, <2>2 DEF IsSet
<1>7. ToldOK(r, {})
  <2>1. \A h \in Handles : q.handle[h].entry \in Contents \cup {NONE}
    BY <1>3 DEF States, HandleRec
  <2> QED  BY <1>2, <1>4, <1>6, <2>1 DEF ToldOK, IsSet
<1>8. ASSUME PrivateOK(s, NONE, NONE)
      PROVE  PrivateOK(r, NONE, NONE)
  <2>1. PrivateOK(q, NONE, NONE)
    BY <1>2, <1>3, <1>8, LessPrivate
  <2> QED  BY <1>3, <1>4, <2>1, SetPrivate
<1>9. ASSUME WaitsOK(s, NONE, k)
      PROVE  WaitsOK(r, NONE, NONE)
  <2>1. WaitsOK(q, NONE, k)
    BY <1>2, <1>3, <1>9, LessWaits
  <2> QED  BY <1>3, <1>4, <2>1, SetWaits
<1> QED  BY <1>2, <1>4, <1>7, <1>8, <1>9 DEF IsSet, Less, IsErred

LEMMA FailedStep ==
    ASSUME NEW s, Good(s), NEW k \in Contents, s.content[k].status # "none", NEW r \in Failed(s, k)
    PROVE  Good(r) /\ (WaitsOK(s, NONE, k) => WaitsOK(r, NONE, NONE))
<1>1. PICK q \in content_broadcast(s, k, "ERROR") :
         r = [q EXCEPT !.content[k] = [@ EXCEPT !.locked = FALSE, !.converting = FALSE, !.status = "ERROR"]]
  BY Zenon DEF Failed
<1> DEFINE c == [q.content[k] EXCEPT !.locked = FALSE, !.converting = FALSE, !.status = "ERROR"]
<1>2. Announces(s, k, "ERROR") /\ Core(s, NONE, NONE) /\ ToldOK(s, {})
  BY DEF Good, Announces, ToldOK
<1>3. Core(q, NONE, NONE)
  BY <1>2, BroadcastStep
<1>4. q.content[k] \in ContentRec
  BY <1>3 DEF Core, States
<1>5. /\ c \in ContentRec /\ c.users = q.content[k].users /\ c.ll = q.content[k].ll
      /\ c.type = q.content[k].type /\ c.status = "ERROR" /\ ~c.locked /\ ~c.converting
  BY <1>4 DEF ContentRec, Statuses
<1>6. r = [q EXCEPT !.content[k] = c]
  BY <1>1
<1> HIDE DEF c
<1>7. PICK d \in ContentRec : d = c
  BY <1>5
<1>8. IsErred(s, r, k)
  BY <1>2, <1>5, <1>6, <1>7, ErrorStep
<1> QED  BY <1>8 DEF IsErred, Good

LEMMA ReadyAndDoneStep ==
    ASSUME NEW s, Good(s), NEW k \in Contents, s.content[k].locked, NEW r \in ReadyAndDone(s, k)
    PROVE  Good(r) /\ (WaitsOK(s, NONE, k) => WaitsOK(r, NONE, NONE))
<1>1. PICK q \in content_set_ready(s, k) : r \in content_set_done(q, k)
  BY DEF ReadyAndDone
<1>2. Good(q) /\ q.content[k].status = "READY" /\ (WaitsOK(s, NONE, k) => WaitsOK(q, NONE, NONE))
  BY <1>1, ReadyStep
<1>3. Good(r) /\ (WaitsOK(q, NONE, k) => WaitsOK(r, NONE, NONE))
  BY <1>1, <1>2, DoneStep
<1> QED  BY <1>2, <1>3, WaitsExcused

\* content_convert() at the end of the data.
LEMMA ConvertStep ==
    ASSUME NEW s, Good(s), NEW k \in Contents, s.content[k].status \in {"LOADING", "ERROR"},
           ~s.content[k].locked, s.ll[s.content[k].ll].told = 3, NEW r \in content_convert(s, k)
    PROVE  Good(r) /\ (WaitsOK(s, NONE, k) => WaitsOK(r, NONE, NONE))
<1> DEFINE c == [s.content[k] EXCEPT !.locked = TRUE, !.converting = TRUE]
           q == [s EXCEPT !.content[k] = c]
<1>1. s \in States /\ Core(s, NONE, NONE) /\ s.content[k] \in ContentRec
  BY DEF Good, Core, States
<1>2. Expect(s, s.content[k].status \in {"LOADING", "ERROR"}) = s
  BY <1>1, Expected
<1>3. CASE s.content[k].status = "ERROR"
  <2>1. r = s
    BY <1>2, <1>3 DEF content_convert
  <2>2. ~s.content[k].converting
    BY <1>1 DEF Core, ContentsOK
  <2>3. WaitsOK(s, NONE, k) => WaitsOK(s, NONE, NONE)
    BY <1>3, <2>2 DEF WaitsOK
  <2> QED  BY <2>1, <2>3
<1>4. CASE s.content[k].status = "LOADING"
  <2>1. [s EXCEPT !.content[k].locked = TRUE, !.content[k].converting = TRUE] = q
    BY <1>1 DEF States
  <2>2. IF s.content[k].type = "image" THEN r \in ReadyAndDone(q, k) \cup Failed(q, k) ELSE r = q
    BY <1>2, <1>4, <2>1 DEF content_convert
  <2>3. /\ c \in ContentRec /\ c.users = s.content[k].users /\ c.ll = s.content[k].ll
        /\ c.type = s.content[k].type /\ c.status = "LOADING" /\ c.locked /\ c.converting
    BY <1>1, <1>4 DEF ContentRec
  <2> HIDE DEF c
  <2>4. Core(q, NONE, NONE) /\ IsSet(s, q, k, c)
    BY <1>1, <1>4, <2>3, ContentStep
  <2> HIDE DEF q
  <2>5. q.content[k].locked /\ q.content[k].status # "none"
    BY <2>3, <2>4 DEF IsSet
  <2>6. ToldOK(q, {})
    <3>1. \A h \in Handles : s.handle[h].entry \in Contents \cup {NONE}
      BY <1>1 DEF States, HandleRec
    <3>2. \A j \in Contents : q.content[j].status = s.content[j].status
      BY <1>4, <2>3, <2>4 DEF IsSet
    <3> QED  BY <2>4, <3>1, <3>2 DEF Good, ToldOK, IsSet
  <2>7. Good(q)
    BY <1>1, <2>3, <2>4, <2>6, SetPrivate DEF Good
  <2>8. WaitsOK(s, NONE, k) => WaitsOK(q, NONE, k)
    BY <2>3, <2>4 DEF WaitsOK, IsSet
  <2>9. CASE s.content[k].type = "image"
    BY <2>2, <2>5, <2>7, <2>8, <2>9, ReadyAndDoneStep, FailedStep
  <2>10. CASE s.content[k].type # "image"
    <3>1. WaitsOK(s, NONE, k) => WaitsOK(q, NONE, NONE)
      BY <2>3, <2>4, <2>10 DEF WaitsOK, IsSet
    <3> QED  BY <2>2, <2>7, <2>10, <3>1
  <2> QED  BY <2>9, <2>10
<1> QED  BY <1>3, <1>4

-----------------------------------------------------------------------------
(* The low-level cache *)

\* The low-level handle l has been told n.
IsLLTold(s, r, l, n) ==
    /\ r.handle = s.handle /\ r.content = s.content /\ r.object = s.object
    /\ r.content_list = s.content_list
    /\ \A j \in LLs \ {l} : r.ll[j] = s.ll[j]
    /\ r.ll[l].owner = s.ll[l].owner /\ r.ll[l].object = s.ll[l].object /\ r.ll[l].told = n

LEMMA LLToldStep ==
    ASSUME NEW s, NEW x, NEW m, Core(s, x, m), NEW l \in LLs, s.ll[l].owner # "none",
           NEW n \in 1 .. 3, n = 3 => s.object[s.ll[l].object].state = "complete",
           n = 3 \/ s.ll[l].told # 3, NEW r, r = [s EXCEPT !.ll[l].told = n]
    PROVE  Core(r, x, m) /\ IsLLTold(s, r, l, n)
<1>1. s \in States /\ ~s.fault /\ s.ll \in [LLs -> LLRec]
  BY DEF Core, States
<1>2. /\ r.handle = s.handle /\ r.content = s.content /\ r.object = s.object
      /\ r.content_list = s.content_list /\ r.fault = s.fault
      /\ r.ll = [s.ll EXCEPT ![l].told = n]
  BY <1>1 DEF States
<1>3. r \in States
  <2>1. [s.ll EXCEPT ![l].told = n] \in [LLs -> LLRec]
    BY <1>1 DEF LLRec
  <2> QED  BY <1>1, <2>1 DEF States
<1>4. /\ \A j \in LLs \ {l} : r.ll[j] = s.ll[j]
      /\ r.ll[l].owner = s.ll[l].owner /\ r.ll[l].object = s.ll[l].object /\ r.ll[l].told = n
  BY <1>1, <1>2 DEF LLRec
<1>5. HandlesOK(r, x) /\ UsersOK(r)
  BY <1>2 DEF Core, HandlesOK, UsersOK
<1>6. OwnersOK(r, x, m)
  BY ZenonT(60), <1>1, <1>2, <1>4, OwnersFrame DEF Core
<1>7. LLsOK(r, m)
  BY <1>2, <1>4 DEF Core, LLsOK
<1>8. ContentsOK(r)
  <2>1. \A k \in Contents : s.content[k].locked \/ s.content[k].status \in {"READY", "DONE"} =>
            /\ s.content[k].ll \in LLs /\ s.ll[s.content[k].ll].told = 3
    BY DEF Core, ContentsOK, OwnersOK, EntriesOK
  <2>2. \A k \in Contents : s.content[k].locked \/ s.content[k].status \in {"READY", "DONE"} =>
            r.ll[s.content[k].ll].told = 3
    BY <1>4, <2>1
  <2> QED  BY <1>2, <2>2 DEF Core, ContentsOK
<1> QED  BY <1>1, <1>2, <1>3, <1>4, <1>5, <1>6, <1>7, <1>8 DEF Core, IsLLTold

\* What a low-level handle was told is nothing to clients.
LEMMA LLToldGood ==
    ASSUME NEW s, NEW r, NEW l, NEW n, IsLLTold(s, r, l, n)
    PROVE  /\ \A x, o : PrivateOK(s, x, o) => PrivateOK(r, x, o)
           /\ \A D : ToldOK(s, D) => ToldOK(r, D)
<1>1. \A x, o : PrivateOK(s, x, o) => PrivateOK(r, x, o)
  <2>1. \A x, j : Relied(r, x, j) <=> Relied(s, x, j)
    BY DEF Relied, IsLLTold
  <2> QED  BY <2>1 DEF PrivateOK, IsLLTold
<1>2. \A D : ToldOK(s, D) => ToldOK(r, D)
  BY DEF ToldOK, IsLLTold
<1> QED  BY <1>1, <1>2

\* A handle that is in use, and its object.
LEMMA Occupied ==
    ASSUME NEW s, NEW x, NEW m, Core(s, x, m), NEW l \in LLs, s.ll[l].owner # "none"
    PROVE  /\ s.ll[l].object \in Objects /\ s.object[s.ll[l].object].state # "none"
           /\ s.ll[l].told = 3 => s.object[s.ll[l].object].state = "complete"
           /\ l \in On(s, s.ll[l].object) /\ l \notin FreeLLs(s)
  BY DEF Core, LLsOK, On, FreeLLs

\* The low-level handle of a nascent handle, taken out of its context.
LEMMA Unhand ==
    ASSUME NEW s, Core(s, NONE, NONE), NEW h \in Handles, NEW l, l = s.handle[h].ctx, l # NONE
    PROVE  /\ Core(s, h, l) /\ l \in LLs /\ s.ll[l].owner = "ctx"
           /\ s.handle[h].used /\ s.handle[h].entry = NONE
           /\ \A o : PrivateOK(s, NONE, o) => PrivateOK(s, h, o)
           /\ ~Relied(s, h, l)
<1>1. s \in States /\ l \in LLs
  BY DEF Core, States, HandleRec
<1>2. /\ s.ll[l].owner = "ctx"
      /\ \A g \in Handles : s.handle[g].ctx = l => g = h
  BY HLAssumption DEF Core, OwnersOK, CtxOK
<1>3. HandlesOK(s, h) /\ s.handle[h].used /\ s.handle[h].entry = NONE
  BY HLAssumption DEF Core, HandlesOK
<1>4. CtxOK(s, h, l)
  <2>1. \A g \in Handles : g # NONE
    BY HLAssumption
  <2> QED  BY <1>2, <2>1 DEF Core, OwnersOK, CtxOK
<1>5. EntriesOK(s, l)
  BY <1>2 DEF Core, OwnersOK, EntriesOK
<1>6. OwnedOK(s, h, l)
  <2>1. \A j \in LLs : j # NONE
    BY HLAssumption
  <2> QED  BY <2>1 DEF Core, OwnersOK, OwnedOK
<1>7. LLsOK(s, l)
  BY <1>1, <1>2 DEF Core, LLsOK
<1>8. \A o : PrivateOK(s, NONE, o) => PrivateOK(s, h, o)
  <2>1. \A j : Relied(s, h, j) => Relied(s, NONE, j)
    BY HLAssumption DEF Relied
  <2> QED  BY <2>1 DEF PrivateOK
<1>9. ~Relied(s, h, l)
  <2>1. \A g \in Handles : s.handle[g].entry # NONE => s.content[s.handle[g].entry].ll # l
    <3>1. ASSUME NEW g \in Handles, NEW k, k = s.handle[g].entry, k # NONE
          PROVE  s.content[k].ll # l
      <4>1. k \in Contents
        BY <1>1, <3>1 DEF States, HandleRec
      <4>2. Has(s.content[k].users, g)
        BY <3>1, <4>1 DEF Core, UsersOK
      <4>3. s.content[k].status # "none"
        <5>1. s.content[k].status = "none" => s.content[k] = NoContent
          BY <4>1, Zenon DEF Core, ContentsOK
        <5>2. ~Has(NoContent.users, g)
          BY SMTT(30) DEF NoContent, Has
        <5> QED  BY <4>2, <5>1, <5>2, Zenon
      <4> QED  BY <1>2, <4>1, <4>3 DEF Core, OwnersOK, EntriesOK
    <3> QED  BY <3>1
  <2> QED  BY <1>2, <2>1 DEF Relied
<1> QED  BY <1>1, <1>2, <1>3, <1>4, <1>5, <1>6, <1>7, <1>8, <1>9 DEF Core, OwnersOK

\* A content that somebody uses.
LEMMA EntryLive ==
    ASSUME NEW s, NEW x, NEW m, Core(s, x, m), NEW h \in Handles, NEW k, k = s.handle[h].entry, k # NONE
    PROVE  /\ k \in Contents /\ s.content[k].status # "none" /\ Has(s.content[k].users, h)
           /\ s.content[k].ll \in LLs /\ s.ll[s.content[k].ll].owner = "content"
<1>1. k \in Contents
  BY DEF Core, States, HandleRec
<1>2. Has(s.content[k].users, h)
  BY <1>1 DEF Core, UsersOK
<1>3. s.content[k].status # "none"
  BY <1>1, <1>2 DEF Core, ContentsOK, NoContent, Has
<1> QED  BY <1>1, <1>2, <1>3 DEF Core, OwnersOK, EntriesOK

\* Only l is concerned when its fetch is stopped.
IsAborted(s, r, l) ==
    /\ r.handle = s.handle /\ r.content = s.content /\ r.content_list = s.content_list
    /\ \A j \in LLs \ {l} :
          /\ r.ll[j] = s.ll[j]
          /\ s.ll[j].owner # "none" => r.object[s.ll[j].object] = s.object[s.ll[j].object]
    /\ r.ll[l].owner = s.ll[l].owner /\ r.ll[l].told = s.ll[l].told
    /\ r.ll[l].object = s.ll[l].object \/ s.object[r.ll[l].object].state = "none"

LEMMA LLAbortStep ==
    ASSUME NEW s, NEW x, NEW m, Core(s, x, m), NEW l \in LLs, s.ll[l].owner # "none",
           NEW r, r = llcache_handle_abort(s, l)
    PROVE  Core(r, x, m) /\ IsAborted(s, r, l)
<1> DEFINE o == s.ll[l].object
           p == Some(FreeObjects(s))
           cut == [s.object[o] EXCEPT !.whole = @ /\ s.object[o].state = "complete", !.state = "complete"]
<1>1. s \in States /\ ~s.fault /\ s.ll \in [LLs -> LLRec] /\ s.object \in [Objects -> ObjectRec]
  BY DEF Core, States
<1>2. o \in Objects /\ s.object[o].state # "none" /\ l \in On(s, o) /\ l \notin FreeLLs(s)
  BY Occupied
<1>3. cut \in ObjectRec /\ cut.state = "complete"
  <2>1. s.object[o] \in ObjectRec
    BY <1>1, <1>2
  <2> QED  BY Zenon, <2>1 DEF ObjectRec
<1> HIDE DEF cut
<1>4. \/ On(s, o) = {l} /\ r = [s EXCEPT !.object[o] = cut]
      \/ On(s, o) # {l} /\ p # NONE /\ r = [s EXCEPT !.object[p] = cut, !.ll[l].object = p]
      \/ On(s, o) # {l} /\ p = NONE /\ r = s
  BY Zenon, <1>2 DEF llcache_handle_abort, cut
<1>5. p # NONE => p \in Objects /\ s.object[p].state = "none"
  BY DEF Some, FreeObjects
<1> HIDE DEF o, p
\* The outcome: l is on the object e, which is as d says.
<1>6. ASSUME NEW e \in Objects, NEW d \in ObjectRec, d.state # "none", s.ll[l].told = 3 => d.state = "complete",
             \A j \in LLs \ {l} : s.ll[j].owner # "none" => s.ll[j].object # e,
             e = o \/ s.object[e].state = "none",
             r \in States, r.handle = s.handle, r.content = s.content, r.content_list = s.content_list,
             r.fault = s.fault, r.object[e] = d, \A i \in Objects \ {e} : r.object[i] = s.object[i],
             \A j \in LLs \ {l} : r.ll[j] = s.ll[j],
             r.ll[l].owner = s.ll[l].owner, r.ll[l].told = s.ll[l].told, r.ll[l].object = e
      PROVE  Core(r, x, m) /\ IsAborted(s, r, l)
  <2>1. /\ \A j \in LLs \ {l} : r.ll[j] = s.ll[j]
        /\ r.ll[l].owner = s.ll[l].owner /\ r.ll[l].told = s.ll[l].told /\ r.ll[l].object = e
    BY <1>6
  <2>2. r.object[e] = d /\ \A i \in Objects \ {e} : r.object[i] = s.object[i]
    BY <1>6
  <2>3. \A j \in LLs \ {l} : s.ll[j].owner # "none" => r.object[s.ll[j].object] = s.object[s.ll[j].object]
    <3>1. \A j \in LLs : s.ll[j].owner # "none" => s.ll[j].object \in Objects
      BY DEF Core, LLsOK
    <3> QED  BY <1>6, <2>2, <3>1
  <2>4. HandlesOK(r, x) /\ UsersOK(r)
    BY <1>6 DEF Core, HandlesOK, UsersOK
  <2>5. OwnersOK(r, x, m)
    <3>1. \A j \in LLs : r.ll[j].owner = s.ll[j].owner
      BY <2>1
    <3>2. \A i \in Handles : r.handle[i].ctx = s.handle[i].ctx
      BY <1>6
    <3>3. \A k \in Contents : r.content[k].status = s.content[k].status /\ r.content[k].ll = s.content[k].ll
      BY Zenon, <1>6
    <3> QED  BY <1>1, <3>1, <3>2, <3>3, OwnersFrame DEF Core
  <2>6. LLsOK(r, m)
    BY <1>6, <2>1, <2>2, <2>3 DEF Core, LLsOK
  <2>7. \A j \in LLs : r.ll[j].told = s.ll[j].told
    BY <2>1
  <2>8. ContentsOK(r)
    <3>1. \A k \in Contents : s.content[k].locked \/ s.content[k].status \in {"READY", "DONE"} =>
              s.content[k].ll \in LLs /\ s.ll[s.content[k].ll].told = 3
      BY DEF Core, ContentsOK, OwnersOK, EntriesOK
    <3> QED  BY <1>6, <2>7, <3>1 DEF Core, ContentsOK
  <2> QED  BY <1>1, <1>6, <2>1, <2>3, <2>4, <2>5, <2>6, <2>8 DEF Core, IsAborted, o
<1>7. CASE On(s, o) = {l} /\ r = [s EXCEPT !.object[o] = cut]
  <2>1. \A j \in LLs \ {l} : s.ll[j].owner # "none" => s.ll[j].object # o
    BY <1>7 DEF On
  <2>2. [s.object EXCEPT ![o] = cut] \in [Objects -> ObjectRec]
    BY <1>1, <1>3
  <2>3. r.ll[l].object = o
    BY <1>1, <1>7 DEF States, o
  <2>4. /\ r \in States /\ r.handle = s.handle /\ r.content = s.content
        /\ r.content_list = s.content_list /\ r.fault = s.fault
        /\ r.object = [s.object EXCEPT ![o] = cut] /\ r.ll = s.ll
    BY <1>1, <1>7, <2>2 DEF States
  <2>5. PICK e \in Objects, d \in ObjectRec : e = o /\ d = cut
    BY <1>2, <1>3
  <2>6. r.object[e] = d /\ \A i \in Objects \ {e} : r.object[i] = s.object[i]
    BY <1>1, <2>4, <2>5
  <2>7. d.state = "complete" /\ d.state # "none" /\ r.ll[l].object = e
    BY <1>3, <2>3, <2>5
  <2> QED  BY <1>6, <2>1, <2>4, <2>5, <2>6, <2>7
<1>8. CASE p # NONE /\ r = [s EXCEPT !.object[p] = cut, !.ll[l].object = p]
  <2>1. \A j \in LLs : s.ll[j].owner # "none" => s.ll[j].object # p
    BY <1>5, <1>8 DEF Core, LLsOK
  <2>2. [s.object EXCEPT ![p] = cut] \in [Objects -> ObjectRec]
    BY <1>1, <1>3
  <2>3. [s.ll EXCEPT ![l].object = p] \in [LLs -> LLRec]
    BY <1>1, <1>5, <1>8 DEF LLRec
  <2>4. /\ r \in States /\ r.handle = s.handle /\ r.content = s.content
        /\ r.content_list = s.content_list /\ r.fault = s.fault
        /\ r.object = [s.object EXCEPT ![p] = cut] /\ r.ll = [s.ll EXCEPT ![l].object = p]
    BY <1>1, <1>8, <2>2, <2>3 DEF States
  <2>5. PICK e \in Objects, d \in ObjectRec : e = p /\ d = cut
    BY <1>3, <1>5, <1>8
  <2>6. r.object[e] = d /\ \A i \in Objects \ {e} : r.object[i] = s.object[i]
    BY <1>1, <2>4, <2>5
  <2>7. /\ \A j \in LLs \ {l} : r.ll[j] = s.ll[j]
        /\ r.ll[l].owner = s.ll[l].owner /\ r.ll[l].told = s.ll[l].told /\ r.ll[l].object = e
    BY <1>1, <2>4, <2>5 DEF LLRec
  <2>8. d.state # "none" /\ d.state = "complete" /\ s.object[e].state = "none"
    BY <1>3, <1>5, <1>8, <2>5
  <2>9. \A j \in LLs \ {l} : s.ll[j].owner # "none" => s.ll[j].object # e
    BY <2>1, <2>5
  <2> QED  BY <1>6, <2>4, <2>6, <2>7, <2>8, <2>9
<1>9. CASE r = s
  BY <1>9 DEF IsAborted
<1> QED  BY <1>4, <1>7, <1>8, <1>9

LEMMA ReliedLive ==
    ASSUME NEW s, NEW x, NEW m, Core(s, x, m), NEW l \in LLs, Relied(s, x, l)
    PROVE  s.ll[l].owner # "none" /\ l # m
<1>1. CASE \E h \in Handles : s.handle[h].entry # NONE /\ s.content[s.handle[h].entry].ll = l
  <2>1. PICK h \in Handles : s.handle[h].entry # NONE /\ s.content[s.handle[h].entry].ll = l
    BY <1>1
  <2>2. PICK k : k = s.handle[h].entry
    BY Zenon
  <2>3. k \in Contents /\ s.content[k].status # "none" /\ s.ll[s.content[k].ll].owner = "content"
    BY <2>1, <2>2, EntryLive
  <2> QED  BY <2>1, <2>2, <2>3 DEF Core, OwnersOK, EntriesOK
<1>2. CASE \E h \in Handles \ {x} : s.handle[h].ctx = l
  BY <1>2, HLAssumption DEF Core, OwnersOK, CtxOK
<1> QED  BY Zenon, <1>1, <1>2 DEF Relied

\* Nothing happened to the other low-level handles.
Apart(s, r, l) ==
    /\ r.handle = s.handle /\ r.content = s.content /\ r.content_list = s.content_list
    /\ \A j \in LLs \ {l} :
          /\ r.ll[j] = s.ll[j]
          /\ s.ll[j].owner # "none" => r.object[s.ll[j].object] = s.object[s.ll[j].object]

LEMMA ApartGood ==
    ASSUME NEW s, NEW x, NEW m, Core(s, x, m), NEW l \in LLs, NEW r, Apart(s, r, l)
    PROVE  /\ \A D : ToldOK(s, D) => ToldOK(r, D)
           /\ ~Relied(s, x, l) => \A o : PrivateOK(s, x, o) => PrivateOK(r, x, o)
           /\ r.ll[l].told = s.ll[l].told \/ m = l => \A k : WaitsOK(s, x, k) => WaitsOK(r, x, k)
<1>1. \A D : ToldOK(s, D) => ToldOK(r, D)
  BY DEF ToldOK, Apart
<1>2. ASSUME ~Relied(s, x, l), NEW o, PrivateOK(s, x, o)
      PROVE  PrivateOK(r, x, o)
  <2>1. \A j : Relied(r, x, j) <=> Relied(s, x, j)
    BY DEF Relied, Apart
  <2>2. ASSUME NEW j \in LLs, Relied(r, x, j), r.ll[j].object # o
        PROVE  r.object[r.ll[j].object].whole
    <3>1. j # l /\ Relied(s, x, j)
      BY <1>2, <2>1, <2>2
    <3>2. s.ll[j].owner # "none"
      BY <3>1, ReliedLive
    <3> QED  BY <1>2, <2>2, <3>1, <3>2 DEF PrivateOK, Apart
  <2> QED  BY <2>2 DEF PrivateOK
<1>3. ASSUME r.ll[l].told = s.ll[l].told \/ m = l, NEW k0, WaitsOK(s, x, k0)
      PROVE  WaitsOK(r, x, k0)
  <2>1. \A j \in LLs : j # m => r.ll[j].told = s.ll[j].told
    BY <1>3 DEF Apart
  <2>2. \A h \in Handles \ {x} : s.handle[h].ctx # NONE => s.handle[h].ctx \in LLs /\ s.handle[h].ctx # m
    BY DEF Core, States, HandleRec, OwnersOK, CtxOK
  <2>3. \A k \in Contents : s.content[k].status = "LOADING" => s.content[k].ll \in LLs /\ s.content[k].ll # m
    BY DEF Core, OwnersOK, EntriesOK
  <2> QED  BY <1>3, <2>1, <2>2, <2>3 DEF WaitsOK, Apart
<1> QED  BY <1>1, <1>2, <1>3

\* A low-level handle that belongs to nobody any more is released.
LEMMA LLReleaseStep ==
    ASSUME NEW s, NEW x, NEW l \in LLs, Core(s, x, l), NEW r, r = llcache_handle_release(s, l)
    PROVE  Core(r, x, NONE) /\ Apart(s, r, l) /\ r.ll[l] = NoLL
<1> DEFINE o == s.ll[l].object
           d == IF On(s, o) = {l} THEN NoObject ELSE s.object[o]
<1>1. s \in States /\ ~s.fault /\ s.ll \in [LLs -> LLRec] /\ s.object \in [Objects -> ObjectRec]
  BY DEF Core, States
<1>2. l # NONE /\ s.ll[l].owner # "none"
  BY HLAssumption DEF Core, LLsOK
<1>3. o \in Objects /\ s.object[o].state # "none" /\ l \in On(s, o) /\ l \notin FreeLLs(s)
  BY <1>2, Occupied
<1>4. r = [s EXCEPT !.ll[l] = NoLL, !.object[o] = d]
  BY <1>3 DEF llcache_handle_release
<1>5. d \in ObjectRec
  BY <1>1, <1>3 DEF ObjectRec, NoObject, KnownTypes
<1>6. \A j \in LLs \ {l} : s.ll[j].owner # "none" /\ s.ll[j].object = o => d = s.object[o]
  BY DEF On
<1> HIDE DEF o, d
<1>7. /\ r.handle = s.handle /\ r.content = s.content /\ r.content_list = s.content_list
      /\ r.fault = s.fault
      /\ r.ll = [s.ll EXCEPT ![l] = NoLL] /\ r.object = [s.object EXCEPT ![o] = d]
  BY <1>1, <1>4 DEF States
<1>8. r \in States
  <2>1. [s.ll EXCEPT ![l] = NoLL] \in [LLs -> LLRec]
    BY <1>1 DEF LLRec, NoLL
  <2>2. [s.object EXCEPT ![o] = d] \in [Objects -> ObjectRec]
    BY <1>1, <1>5
  <2> QED  BY <1>1, <1>4, <2>1, <2>2 DEF States
<1>9. r.ll[l] = NoLL /\ \A j \in LLs \ {l} : r.ll[j] = s.ll[j]
  BY <1>1, <1>7
<1>10. r.object[o] = d /\ \A i \in Objects \ {o} : r.object[i] = s.object[i]
  BY <1>1, <1>3, <1>7
<1>11. \A j \in LLs \ {l} : s.ll[j].owner # "none" => r.object[s.ll[j].object] = s.object[s.ll[j].object]
  <2>1. \A j \in LLs : s.ll[j].owner # "none" => s.ll[j].object \in Objects
    BY DEF Core, LLsOK
  <2> QED  BY <1>6, <1>10, <2>1
<1>12. HandlesOK(r, x) /\ UsersOK(r)
  BY <1>7 DEF Core, HandlesOK, UsersOK
<1>13. CtxOK(r, x, NONE)
  <2>1. \A h \in Handles : s.handle[h].ctx \in LLs \cup {NONE}
    BY <1>1 DEF States, HandleRec
  <2> QED  BY <1>7, <1>9, <2>1 DEF Core, OwnersOK, CtxOK
<1>14. EntriesOK(r, NONE)
  BY <1>7, <1>9, HLAssumption DEF Core, OwnersOK, EntriesOK
<1>15. OwnedOK(r, x, NONE)
  <2>1. ASSUME NEW j \in LLs, r.ll[j].owner \in {"ctx", "content"}
        PROVE  j # l /\ s.ll[j].owner = r.ll[j].owner
    BY <1>9, <2>1 DEF NoLL
  <2> QED  BY <1>7, <2>1 DEF Core, OwnersOK, OwnedOK
<1>16. LLsOK(r, NONE)
  <2>1. ASSUME NEW j \in LLs \ {l}
        PROVE  IF r.ll[j].owner = "none" THEN r.ll[j] = NoLL
               ELSE /\ r.ll[j].object \in Objects
                    /\ r.object[r.ll[j].object].state # "none"
                    /\ r.ll[j].told = 3 => r.object[r.ll[j].object].state = "complete"
    BY <1>9, <1>11 DEF Core, LLsOK
  <2>2. r.ll[l].owner = "none" /\ r.ll[l] = NoLL
    BY <1>9 DEF NoLL
  <2> QED  BY <2>1, <2>2 DEF LLsOK
<1>17. ContentsOK(r)
  <2>1. \A k \in Contents : s.content[k].locked \/ s.content[k].status \in {"READY", "DONE"} =>
            s.content[k].ll \in LLs /\ s.content[k].ll # l
    BY DEF Core, ContentsOK, OwnersOK, EntriesOK
  <2> QED  BY <1>7, <1>9, <2>1 DEF Core, ContentsOK
<1> QED  BY <1>1, <1>7, <1>8, <1>9, <1>11, <1>12, <1>13, <1>14, <1>15, <1>16, <1>17 DEF Core, OwnersOK, Apart

-----------------------------------------------------------------------------
(* Handles and retrieval contexts *)

\* What s promises, but for the context of x, r promises, but for that of y.
Keeps(s, x, r, y) ==
    /\ \A D : ToldOK(s, D) => ToldOK(r, D)
    /\ \A o : PrivateOK(s, x, o) => PrivateOK(r, y, o)
    /\ \A k : WaitsOK(s, x, k) => WaitsOK(r, y, k)

LEMMA KeepsTrans ==
    ASSUME NEW s, NEW x, NEW q, NEW y, NEW r, NEW z, Keeps(s, x, q, y), Keeps(q, y, r, z)
    PROVE  Keeps(s, x, r, z)
  BY DEF Keeps

LEMMA KeepsLess ==
    ASSUME NEW s, NEW h \in Handles
    PROVE  Keeps(s, NONE, s, h)
<1>1. \A j : Relied(s, h, j) => Relied(s, NONE, j)
  BY HLAssumption DEF Relied
<1>2. \A o : PrivateOK(s, NONE, o) => PrivateOK(s, h, o)
  BY <1>1 DEF PrivateOK
<1>3. \A k : WaitsOK(s, NONE, k) => WaitsOK(s, h, k)
  <2>1. \A g \in Handles : g # NONE
    BY HLAssumption
  <2> QED  BY <2>1 DEF WaitsOK
<1> QED  BY <1>2, <1>3 DEF Keeps

\* The handle h becomes g.
IsHandle(s, r, h, g) ==
    /\ r.ll = s.ll /\ r.content = s.content /\ r.object = s.object
    /\ r.content_list = s.content_list
    /\ r.handle[h] = g /\ \A f \in Handles \ {h} : r.handle[f] = s.handle[f]

LEMMA HandleStep ==
    ASSUME NEW s, NEW x, NEW m, Core(s, x, m), NEW h \in Handles, NEW g \in HandleRec,
           g.entry = s.handle[h].entry, ~g.used => g.entry = NONE /\ ~g.aborted,
           g.entry = NONE => g.told = "none", NEW y,
           \/ y = x /\ g.ctx = s.handle[h].ctx /\ (h # x /\ g.ctx # NONE => g.used)
           \/ x = h /\ y = NONE /\ g.ctx = NONE,
           NEW r, r = [s EXCEPT !.handle[h] = g]
    PROVE  Core(r, y, m) /\ IsHandle(s, r, h, g)
<1>1. s \in States /\ ~s.fault /\ s.handle \in [Handles -> HandleRec]
  BY DEF Core, States
<1>2. /\ r.ll = s.ll /\ r.content = s.content /\ r.object = s.object
      /\ r.content_list = s.content_list /\ r.fault = s.fault
      /\ r.handle = [s.handle EXCEPT ![h] = g]
  BY <1>1 DEF States
<1>3. r \in States
  <2>1. [s.handle EXCEPT ![h] = g] \in [Handles -> HandleRec]
    BY <1>1
  <2> QED  BY <1>1, <2>1 DEF States
<1>4. r.handle[h] = g /\ \A f \in Handles \ {h} : r.handle[f] = s.handle[f]
  BY <1>1, <1>2
<1>5. \A f \in Handles : r.handle[f].entry = s.handle[f].entry
  BY <1>4
<1>6. h # NONE
  BY HLAssumption
<1>7. HandlesOK(r, y)
  BY <1>4, <1>6 DEF Core, HandlesOK
<1>8. UsersOK(r)
  BY <1>2, <1>5 DEF Core, UsersOK
<1>9. LLsOK(r, m) /\ ContentsOK(r)
  BY <1>2 DEF Core, LLsOK, ContentsOK
<1>10. CASE y = x /\ g.ctx = s.handle[h].ctx
  <2>1. \A f \in Handles : r.handle[f].ctx = s.handle[f].ctx
    BY <1>4, <1>10
  <2>2. OwnersOK(r, x, m)
    BY <1>1, <1>2, <2>1, OwnersFrame DEF Core
  <2> QED  BY <1>1, <1>2, <1>3, <1>4, <1>7, <1>8, <1>9, <1>10, <2>2 DEF Core, IsHandle
<1>11. CASE x = h /\ y = NONE /\ g.ctx = NONE
  <2>1. CtxOK(r, NONE, m)
    BY <1>2, <1>4, <1>11 DEF Core, OwnersOK, CtxOK
  <2>2. EntriesOK(r, m)
    BY <1>2 DEF Core, OwnersOK, EntriesOK
  <2>3. OwnedOK(r, NONE, m)
    <3>1. \A f \in Handles : f # NONE
      BY HLAssumption
    <3> QED  BY <1>2, <1>4, <1>11, <3>1 DEF Core, OwnersOK, OwnedOK
  <2> QED  BY <1>1, <1>2, <1>3, <1>4, <1>7, <1>8, <1>9, <1>11, <2>1, <2>2, <2>3 DEF Core, OwnersOK, IsHandle
<1> QED  BY <1>10, <1>11

LEMMA HandleKeeps ==
    ASSUME NEW s, NEW h \in Handles, NEW g, NEW r, IsHandle(s, r, h, g),
           g.entry = s.handle[h].entry, g.entry = NONE \/ g.told = s.handle[h].told,
           g.entry = NONE \/ g.aborted \/ ~s.handle[h].aborted, NEW x, NEW y,
           \/ y = x /\ g.ctx = s.handle[h].ctx
           \/ x = h /\ y = NONE /\ g.ctx = NONE
    PROVE  Keeps(s, x, r, y)
<1>1. \A D : ToldOK(s, D) => ToldOK(r, D)
  <2>1. \A f \in Handles : /\ r.handle[f].entry = s.handle[f].entry
                           /\ r.handle[f].entry # NONE => r.handle[f].told = s.handle[f].told
    BY DEF IsHandle
  <2> QED  BY <2>1 DEF ToldOK, IsHandle
<1>2. ASSUME NEW j \in LLs, Relied(r, y, j)
      PROVE  Relied(s, x, j)
  <2>1. j # NONE
    BY HLAssumption
  <2> QED  BY <1>2, <2>1 DEF Relied, IsHandle
<1>3. \A o : PrivateOK(s, x, o) => PrivateOK(r, y, o)
  BY <1>2 DEF PrivateOK, IsHandle
<1>4. \A k : WaitsOK(s, x, k) => WaitsOK(r, y, k)
  <2>1. \A f \in Handles \ {y} : r.handle[f].ctx # NONE => f # x /\ r.handle[f].ctx = s.handle[f].ctx
    BY DEF IsHandle
  <2> QED  BY <2>1 DEF WaitsOK, IsHandle
<1> QED  BY <1>1, <1>3, <1>4 DEF Keeps

\* The context of h has been dropped, with the low-level handle l.
Dropped(s, r, h, l) ==
    /\ r.content = s.content /\ r.content_list = s.content_list
    /\ \A g \in Handles \ {h} : r.handle[g] = s.handle[g]
    /\ \A j \in LLs \ {l} :
          /\ r.ll[j] = s.ll[j]
          /\ s.ll[j].owner # "none" => r.object[s.ll[j].object] = s.object[s.ll[j].object]
    /\ l # NONE => r.ll[l] = NoLL

LEMMA DropContextStep ==
    ASSUME NEW s, Core(s, NONE, NONE), NEW h \in Handles, s.handle[h].entry = NONE,
           NEW l, l = s.handle[h].ctx, NEW r, r = DropContext(s, h, FALSE)
    PROVE  /\ Core(r, NONE, NONE) /\ Dropped(s, r, h, l) /\ Keeps(s, h, r, NONE)
           /\ r.handle[h].ctx = NONE /\ r.handle[h].entry = NONE
<1>1. s \in States /\ s.handle \in [Handles -> HandleRec] /\ s.handle[h] \in HandleRec
  BY DEF Core, States
<1>2. CASE l = NONE
  <2>1. r = s
    BY <1>2 DEF DropContext
  <2>2. PICK g \in HandleRec : g = s.handle[h]
    BY <1>1
  <2>3. IsHandle(s, s, h, g)
    BY <2>2 DEF IsHandle
  <2>4. Keeps(s, h, s, NONE)
    BY <1>2, <2>2, <2>3, HandleKeeps
  <2> QED  BY <1>2, <2>1, <2>4 DEF Dropped
<1>3. CASE l # NONE
  <2>1. /\ Core(s, h, l) /\ l \in LLs /\ s.ll[l].owner = "ctx" /\ s.handle[h].used
        /\ ~Relied(s, h, l)
    BY <1>3, Unhand
  <2>2. PICK a : a = llcache_handle_abort(s, l)
    OBVIOUS
  <2>3. Core(a, h, l) /\ IsAborted(s, a, l)
    BY SMTT(30), <2>1, <2>2, LLAbortStep
  <2>4. Apart(s, a, l) /\ a.ll[l].told = s.ll[l].told /\ a.handle = s.handle
    BY Zenon, <2>3 DEF IsAborted, Apart
  <2>5. Keeps(s, h, a, h) /\ ~Relied(a, h, l)
    <3>1. Keeps(s, h, a, h)
      <4>1. \A D : ToldOK(s, D) => ToldOK(a, D)
        BY <2>1, <2>4, ApartGood, ZenonT(60)
      <4>2. \A o : PrivateOK(s, h, o) => PrivateOK(a, h, o)
        BY <2>1, <2>4, ApartGood
      <4>3. \A k : WaitsOK(s, h, k) => WaitsOK(a, h, k)
        BY <2>1, <2>4, ApartGood
      <4> QED  BY <4>1, <4>2, <4>3, Zenon DEF Keeps
    <3>2. ~Relied(a, h, l)
      BY <2>1, <2>4 DEF Relied, Apart
    <3> QED  BY <3>1, <3>2
  <2>6. PICK b : b = llcache_handle_release(a, l)
    OBVIOUS
  <2>7. Core(b, h, NONE) /\ Apart(a, b, l) /\ b.ll[l] = NoLL
    BY <2>1, <2>3, <2>6, LLReleaseStep
  <2>8. Keeps(a, h, b, h) /\ b.handle = s.handle
    <3>1. Keeps(a, h, b, h)
      BY <2>1, <2>3, <2>5, <2>7, ApartGood DEF Keeps
    <3> QED  BY <2>4, <2>7, <3>1 DEF Apart
  <2>9. PICK g : g = [s.handle[h] EXCEPT !.ctx = NONE]
    OBVIOUS
  <2>10. /\ g \in HandleRec /\ g.entry = NONE /\ g.ctx = NONE /\ g.used = s.handle[h].used
         /\ g.told = s.handle[h].told /\ g.aborted = s.handle[h].aborted
    BY <1>1, <2>9 DEF HandleRec
  <2>11. r = [b EXCEPT !.handle[h] = g]
    <3>1. r = [b EXCEPT !.handle[h].ctx = NONE]
      BY <1>3, <2>2, <2>6 DEF DropContext
    <3> QED  BY <2>8, <2>9, <3>1
  <2>12. g.told = "none"
    BY <2>10 DEF Core, HandlesOK
  <2>13. Core(r, NONE, NONE) /\ IsHandle(b, r, h, g)
    BY <2>1, <2>7, <2>8, <2>10, <2>11, <2>12, HandleStep
  <2>14. Keeps(b, h, r, NONE)
    BY <2>8, <2>10, <2>13, HandleKeeps
  <2>15. Keeps(s, h, r, NONE)
    BY <2>5, <2>8, <2>14 DEF Keeps
  <2>16. Dropped(s, r, h, l)
    <3>1. \A j \in LLs \ {l} :
             /\ b.ll[j] = s.ll[j]
             /\ s.ll[j].owner # "none" => b.object[s.ll[j].object] = s.object[s.ll[j].object]
      BY <2>4, <2>7 DEF Apart
    <3>2. b.content = s.content /\ b.content_list = s.content_list
      BY <2>4, <2>7 DEF Apart
    <3>3. \A f \in Handles \ {h} : r.handle[f] = s.handle[f]
      BY <2>8, <2>13 DEF IsHandle
    <3> QED  BY Zenon, <2>7, <2>13, <3>1, <3>2, <3>3 DEF Dropped, IsHandle
  <2> QED  BY <2>10, <2>13, <2>15, <2>16 DEF IsHandle
<1> QED  BY <1>2, <1>3

\* A handle without a content is released.
LEMMA NascentStep ==
    ASSUME NEW s, Core(s, NONE, NONE), NEW h \in Handles, s.handle[h].entry = NONE,
           NEW l, l = s.handle[h].ctx, NEW r, r = Released(s, h, FALSE)
    PROVE  /\ Core(r, NONE, NONE) /\ Dropped(s, r, h, l) /\ Keeps(s, h, r, NONE)
           /\ r.handle[h] = NoHandle
<1>1. PICK d : d = DropContext(s, h, FALSE)
  OBVIOUS
<1>2. /\ Core(d, NONE, NONE) /\ Dropped(s, d, h, l) /\ Keeps(s, h, d, NONE)
      /\ d.handle[h].ctx = NONE /\ d.handle[h].entry = NONE
  BY <1>1, DropContextStep
<1>3. r = [d EXCEPT !.handle[h] = NoHandle]
  BY <1>1, <1>2, NoHandleCtx DEF Released
<1>4. NoHandle \in HandleRec
  BY DEF NoHandle, HandleRec
<1>5. NoHandle.entry = NONE /\ NoHandle.ctx = NONE /\ ~NoHandle.aborted /\ ~NoHandle.used /\ NoHandle.told = "none"
  BY DEF NoHandle
<1>6. Core(r, NONE, NONE) /\ IsHandle(d, r, h, NoHandle)
  BY <1>2, <1>3, <1>4, <1>5, HandleStep
<1>7. Keeps(d, NONE, r, NONE)
  BY <1>2, <1>5, <1>6, HandleKeeps
<1>8. Keeps(s, h, r, NONE)
  BY <1>2, <1>7 DEF Keeps
<1>9. Dropped(s, r, h, l)
  BY Zenon, <1>2, <1>6 DEF Dropped, IsHandle
<1> QED  BY <1>6, <1>8, <1>9 DEF IsHandle

-----------------------------------------------------------------------------
(* Migration *)

ToldBut(s, h) == ToldOK(s, {h})

Joined(s, h, k) == [s EXCEPT !.content[k].users = <<h>> \o @, !.handle[h].entry = k]

\* From s to r, h has joined the users of k.
IsJoined(s, r, h, k) ==
    /\ Core(r, h, NONE) /\ r.ll = s.ll
    /\ r.handle[h].entry = k /\ r.handle[h].ctx = s.handle[h].ctx
    /\ \A j \in Contents : r.content[j].status = s.content[j].status
    /\ ToldOK(s, {}) => ToldBut(r, h)
    /\ PrivateOK(s, h, NONE) /\ s.object[s.ll[s.content[k].ll].object].whole => PrivateOK(r, h, NONE)
    /\ s.content[k].type \in {"image", "css"} \/ s.content[k].users = <<>> =>
          (WaitsOK(s, h, NONE) => WaitsOK(r, h, NONE))

LEMMA JoinStep ==
    ASSUME NEW s, NEW h \in Handles, Core(s, h, NONE), s.handle[h].entry = NONE, s.handle[h].used,
           NEW k \in Contents, s.content[k].status # "none", NEW r, r = Joined(s, h, k)
    PROVE  IsJoined(s, r, h, k)
<1> DEFINE u == s.content[k].users
           w == <<h>> \o u
<1>1. /\ s \in States /\ ~s.fault /\ s.handle \in [Handles -> HandleRec] /\ s.handle[h] \in HandleRec
      /\ s.content \in [Contents -> ContentRec] /\ s.content[k] \in ContentRec
  BY DEF Core, States
<1>2. u \in Seq(Handles) /\ Distinct(u) /\ k # NONE
  BY <1>1, HLAssumption DEF ContentRec, Core, UsersOK
<1>3. ~Has(u, h)
  BY <1>2 DEF Core, UsersOK
<1>4. /\ w \in Seq(Handles) /\ Distinct(w) /\ Len(w) = Len(u) + 1
      /\ \A g : Has(w, g) <=> Has(u, g) \/ g = h
  <2>1. PICK v \in Seq(Handles) : v = u
    BY <1>2
  <2>2. PICK z : z = <<h>> \o v
    OBVIOUS
  <2>3. /\ z \in Seq(Handles) /\ Distinct(z) /\ Len(z) = Len(v) + 1
        /\ \A g : Has(z, g) <=> Has(v, g) \/ g = h
    <3>1. Distinct(v) /\ ~Has(v, h)
      BY <1>2, <1>3, <2>1
    <3> QED  BY ZenonT(60), <2>2, <3>1, UserAdded
  <2> QED  BY <2>1, <2>2, <2>3
<1>5. /\ r.handle = [s.handle EXCEPT ![h].entry = k] /\ r.content = [s.content EXCEPT ![k].users = w]
      /\ r.ll = s.ll /\ r.object = s.object /\ r.content_list = s.content_list /\ r.fault = s.fault
  BY <1>1 DEF States, Joined
<1>6. r \in States
  <2>1. [s.handle EXCEPT ![h].entry = k] \in [Handles -> HandleRec]
    BY <1>1 DEF HandleRec
  <2>2. [s.content EXCEPT ![k].users = w] \in [Contents -> ContentRec]
    BY <1>1, <1>4 DEF ContentRec
  <2> HIDE DEF w
  <2>3. r = [s EXCEPT !.content = [s.content EXCEPT ![k].users = w], !.handle = [s.handle EXCEPT ![h].entry = k]]
    BY <1>1 DEF Joined, States, w
  <2> QED  BY <1>1, <2>1, <2>2, <2>3 DEF States
<1> HIDE DEF u, w
<1>7. /\ \A g \in Handles \ {h} : r.handle[g] = s.handle[g]
      /\ r.handle[h].used = s.handle[h].used /\ r.handle[h].entry = k
      /\ r.handle[h].ctx = s.handle[h].ctx /\ r.handle[h].aborted = s.handle[h].aborted
  <2>1. \A g \in Handles \ {h} : r.handle[g] = s.handle[g]
    BY <1>1, <1>5
  <2>2. r.handle[h] = [s.handle[h] EXCEPT !.entry = k]
    BY <1>1, <1>5
  <2> QED  BY <1>1, <2>1, <2>2 DEF HandleRec
<1>8. /\ \A j \in Contents \ {k} : r.content[j] = s.content[j]
      /\ r.content[k].users = w
      /\ \A j \in Contents : /\ r.content[j].status = s.content[j].status
                             /\ r.content[j].ll = s.content[j].ll
                             /\ r.content[j].type = s.content[j].type
                             /\ r.content[j].locked = s.content[j].locked
                             /\ r.content[j].converting = s.content[j].converting
  BY <1>1, <1>5 DEF ContentRec
<1>9. HandlesOK(r, h)
  <2>1. r.handle[h].used /\ r.handle[h].entry # NONE
    BY <1>2, <1>7
  <2> QED  BY <1>7, <2>1 DEF Core, HandlesOK
<1>10. UsersOK(r)
  <2>1. \A j \in Contents : Distinct(r.content[j].users)
    BY <1>4, <1>8 DEF Core, UsersOK
  <2>2. ASSUME NEW j \in Contents, NEW g \in Handles
        PROVE  Has(r.content[j].users, g) <=> r.handle[g].entry = j
    <3>1. Has(s.content[j].users, g) <=> s.handle[g].entry = j
      BY DEF Core, UsersOK
    <3>2. CASE j = k
      BY <1>4, <1>7, <1>8, <3>1, <3>2 DEF u
    <3>3. CASE j # k
      BY <1>7, <1>8, <3>1, <3>3, HLAssumption
    <3> QED  BY <3>2, <3>3
  <2> QED  BY <2>1, <2>2 DEF UsersOK
<1>11. OwnersOK(r, h, NONE)
  <2>1. \A g \in Handles : r.handle[g].ctx = s.handle[g].ctx
    BY <1>7
  <2>2. \A l \in LLs : r.ll[l].owner = s.ll[l].owner
    BY <1>5
  <2>3. OwnersOK(s, h, NONE)
    BY DEF Core
  <2> QED  BY <1>1, <1>8, <2>1, <2>2, <2>3, OwnersFrame
<1>12. LLsOK(r, NONE)
  BY <1>5 DEF Core, LLsOK
<1>13. ContentsOK(r)
  <2>1. \A j \in Contents : r.content[j].status = "none" => r.content[j] = NoContent
    BY <1>8 DEF Core, ContentsOK
  <2> QED  BY <1>5, <1>8, <2>1 DEF Core, ContentsOK
<1>14. ToldOK(s, {}) => ToldBut(r, h)
  <2>1. \A g \in Handles : s.handle[g].entry \in Contents \cup {NONE}
    BY <1>1 DEF HandleRec
  <2> SUFFICES ASSUME ToldOK(s, {}), NEW g \in Handles \ {h}, r.handle[g].entry # NONE
               PROVE  r.handle[g].told = r.content[r.handle[g].entry].status
    BY DEF ToldOK, ToldBut
  <2>2. r.handle[g] = s.handle[g]
    BY <1>7
  <2>3. s.handle[g].entry \in Contents /\ s.handle[g].told = s.content[s.handle[g].entry].status
    BY <2>1, <2>2 DEF ToldOK
  <2> QED  BY <1>8, <2>2, <2>3
<1>15. ASSUME PrivateOK(s, h, NONE), s.object[s.ll[s.content[k].ll].object].whole
       PROVE  PrivateOK(r, h, NONE)
  <2>1. \A g \in Handles : s.handle[g].entry \in Contents \cup {NONE}
    BY <1>1 DEF HandleRec
  <2>2. ASSUME NEW j, Relied(r, h, j)
        PROVE  Relied(s, h, j) \/ j = s.content[k].ll
    <3>1. CASE \E g \in Handles : /\ r.handle[g].entry # NONE /\ ~r.handle[g].aborted
                                  /\ r.content[r.handle[g].entry].ll = j
      <4>1. PICK g \in Handles : /\ r.handle[g].entry # NONE /\ ~r.handle[g].aborted
                                 /\ r.content[r.handle[g].entry].ll = j
        BY <3>1
      <4>2. CASE g = h
        BY <1>7, <1>8, <4>1, <4>2
      <4>3. CASE g # h
        <5>1. r.handle[g] = s.handle[g] /\ s.handle[g].entry \in Contents
          BY <1>7, <2>1, <4>1, <4>3
        <5>2. s.content[s.handle[g].entry].ll = j
          BY <1>8, <4>1, <5>1
        <5> QED  BY <4>1, <5>1, <5>2 DEF Relied
      <4> QED  BY <4>2, <4>3
    <3>2. CASE \E g \in Handles \ {h} : r.handle[g].ctx = j
      BY SMTT(30), <1>7, <3>2 DEF Relied
    <3> QED  BY <2>2, <3>1, <3>2 DEF Relied
  <2> QED  BY ZenonT(60), <1>5, <1>15, <2>2 DEF PrivateOK
<1>16. ASSUME s.content[k].type \in {"image", "css"} \/ u = <<>>, WaitsOK(s, h, NONE)
       PROVE  WaitsOK(r, h, NONE)
  <2>1. \A j \in Contents : r.content[j].type \notin {"image", "css"} => Len(r.content[j].users) <= 1
    <3>1. \A j \in Contents \ {k} : r.content[j].type \notin {"image", "css"} => Len(r.content[j].users) <= 1
      BY <1>8, <1>16 DEF WaitsOK
    <3>2. r.content[k].type \notin {"image", "css"} => Len(r.content[k].users) <= 1
      BY <1>4, <1>8, <1>16
    <3> QED  BY <3>1, <3>2
  <2> QED  BY <1>5, <1>7, <1>8, <1>16, <2>1 DEF WaitsOK
<1> QED  BY Zenon, <1>1, <1>5, <1>6, <1>7, <1>8, <1>9, <1>10, <1>11, <1>12, <1>13, <1>14, <1>15, <1>16 DEF Core, u, IsJoined

\* From s to r the client of h was told msg, and may have released other handles.
IsCalled(s, r, h, msg) ==
    /\ Core(r, h, NONE) /\ ToldBut(r, h) /\ PrivateOK(r, h, NONE)
    /\ WaitsOK(s, h, NONE) => WaitsOK(r, h, NONE)
    /\ r.handle[h].entry = s.handle[h].entry /\ r.handle[h].told = msg /\ r.handle[h].ctx = s.handle[h].ctx
    /\ \A j \in Contents : r.content[j].status = s.content[j].status

LEMMA AttachCall ==
    ASSUME NEW s, NEW h \in Handles, Core(s, h, NONE), s.handle[h].entry # NONE,
           ToldBut(s, h), PrivateOK(s, h, NONE),
           NEW msg \in {"LOADING", "READY", "DONE"}, NEW r \in Callback(s, h, msg)
    PROVE  IsCalled(s, r, h, msg)
<1>1. /\ Core(r, h, NONE) /\ Less(s, r)
      /\ r.handle[h].entry = s.handle[h].entry /\ r.handle[h].told = msg
      /\ \/ \A g \in Handles \ {h} : r.handle[g] = s.handle[g]
         \/ \E g \in Handles \ {h} : /\ r.handle[g] = NoHandle
                                     /\ \A f \in Handles \ {g, h} : r.handle[f] = s.handle[f]
  BY CallbackStep
<1>2. s \in States /\ r \in States
  BY <1>1 DEF Core
<1>3. \A j \in Contents : r.content[j].status = s.content[j].status
  BY <1>1 DEF Less
<1>4. ToldBut(r, h)
  <2>1. \A g \in Handles \ {h} : r.handle[g].entry = NONE \/ r.handle[g] = s.handle[g]
    BY <1>1 DEF NoHandle
  <2>2. \A g \in Handles : s.handle[g].entry \in Contents \cup {NONE}
    BY <1>2 DEF States, HandleRec
  <2> QED  BY SMTT(30), <1>3, <2>1, <2>2 DEF ToldOK, ToldBut
<1>5. PrivateOK(r, h, NONE) /\ (WaitsOK(s, h, NONE) => WaitsOK(r, h, NONE))
  BY <1>1, <1>2, LessPrivate, LessWaits
<1> QED  BY <1>1, <1>3, <1>4, <1>5 DEF Less, IsCalled

LEMMA AttachStep ==
    ASSUME NEW s, NEW h \in Handles, Core(s, h, NONE), s.handle[h].entry = NONE, s.handle[h].used,
           NEW k \in Contents, s.content[k].status \in {"LOADING", "READY", "DONE"},
           ToldOK(s, {}), PrivateOK(s, h, NONE), s.object[s.ll[s.content[k].ll].object].whole,
           NEW r \in Attached(s, h, k)
    PROVE  /\ Core(r, h, NONE) /\ ToldOK(r, {}) /\ PrivateOK(r, h, NONE)
           /\ s.content[k].type \in {"image", "css"} \/ s.content[k].users = <<>> =>
                 (WaitsOK(s, h, NONE) => WaitsOK(r, h, NONE))
           /\ r.handle[h].ctx = s.handle[h].ctx
<1> DEFINE free == s.content[k].type \in {"image", "css"} \/ s.content[k].users = <<>>
<1>1. PICK j : j = Joined(s, h, k)
  BY Zenon
<1>2. IsJoined(s, j, h, k)
  BY Zenon, <1>1, JoinStep
<1>3. /\ Core(j, h, NONE) /\ j.handle[h].entry = k /\ j.handle[h].ctx = s.handle[h].ctx
      /\ j.content[k].status = s.content[k].status /\ ToldBut(j, h) /\ PrivateOK(j, h, NONE)
      /\ free => (WaitsOK(s, h, NONE) => WaitsOK(j, h, NONE))
  BY Zenon, <1>2 DEF IsJoined
<1>4. k # NONE
  BY Zenon, HLAssumption
<1> HIDE DEF free
\* What holds between the messages.
<1> DEFINE Mid(q) == /\ Core(q, h, NONE) /\ ToldBut(q, h) /\ PrivateOK(q, h, NONE)
                     /\ free => (WaitsOK(s, h, NONE) => WaitsOK(q, h, NONE))
                     /\ q.handle[h].entry = k /\ q.handle[h].ctx = s.handle[h].ctx
                     /\ q.content[k].status = s.content[k].status
<1>5. Mid(j)
  BY Zenon, <1>3
<1>6. ASSUME NEW q, Mid(q), NEW msg \in {"LOADING", "READY", "DONE"}, NEW z \in Callback(q, h, msg)
      PROVE  Mid(z) /\ z.handle[h].told = msg
  <2>1. IsCalled(q, z, h, msg)
    BY Zenon, <1>4, <1>6, AttachCall
  <2> QED  BY Zenon, <1>6, <2>1 DEF IsCalled
<1>7. ASSUME Mid(r), r.handle[h].told = s.content[k].status
      PROVE  ToldOK(r, {}) /\ Core(r, h, NONE) /\ PrivateOK(r, h, NONE)
  BY Zenon, <1>7 DEF ToldOK, ToldBut
<1> DEFINE loading == Callback(j, h, "LOADING")
           ready == UNION {Callback(q, h, "READY") : q \in loading}
           done == UNION {Callback(q, h, "DONE") : q \in ready}
<1>8. Attached(s, h, k) = CASE s.content[k].status = "LOADING" -> loading
                            [] s.content[k].status = "READY" -> ready
                            [] s.content[k].status = "DONE" -> done
  BY Zenon, <1>1 DEF Attached, Joined
<1> HIDE DEF ready, done
<1> HIDE DEF Mid
<1>9. CASE s.content[k].status = "LOADING"
  <2>1. r \in Callback(j, h, "LOADING")
    BY Zenon, <1>8, <1>9
  <2>2. Mid(r) /\ r.handle[h].told = "LOADING"
    BY Zenon, <1>5, <1>6, <2>1
  <2> QED  BY Zenon, <1>7, <1>9, <2>2 DEF Mid, free
<1>10. CASE s.content[k].status = "READY"
  <2>1. PICK p \in Callback(j, h, "LOADING") : r \in Callback(p, h, "READY")
    <3>1. r \in ready
      BY Zenon, <1>8, <1>10
    <3> QED  BY Zenon, <3>1 DEF ready
  <2>2. Mid(p)
    BY Zenon, <1>5, <1>6, <2>1
  <2>3. Mid(r) /\ r.handle[h].told = "READY"
    BY Zenon, <1>6, <2>1, <2>2
  <2> QED  BY Zenon, <1>7, <1>10, <2>3 DEF Mid, free
<1>11. CASE s.content[k].status = "DONE"
  <2>1. PICK q \in ready : r \in Callback(q, h, "DONE")
    <3>1. r \in done
      BY Zenon, <1>8, <1>11
    <3> QED  BY Zenon, <3>1 DEF done
  <2>2. PICK p \in loading : q \in Callback(p, h, "READY")
    BY Zenon, <2>1 DEF ready
  <2>3. Mid(p)
    BY Zenon, <1>5, <1>6, <2>2
  <2>4. Mid(q)
    BY Zenon, <1>6, <2>2, <2>3
  <2>5. Mid(r) /\ r.handle[h].told = "DONE"
    BY Zenon, <1>6, <2>1, <2>4
  <2> QED  BY Zenon, <1>7, <1>11, <2>5 DEF Mid, free
<1> QED  BY Zenon, <1>9, <1>10, <1>11

\* What migration leaves before the context is removed from the ring.
Migrated(s, q, h) ==
    /\ Core(q, h, NONE) /\ ToldOK(q, {}) /\ PrivateOK(q, h, NONE)
    /\ WaitsOK(s, h, NONE) => WaitsOK(q, h, NONE)
    /\ q.handle[h].ctx = s.handle[h].ctx

\* From s to r the low-level handle l of the context of h has gone to a new
\* content, or to a download.
IsGiven(s, r, h, l) ==
    /\ Core(r, h, NONE) /\ r.handle = s.handle /\ r.object = s.object
    /\ r.ll[l].object = s.ll[l].object
    /\ ToldOK(s, {}) => ToldOK(r, {})
    /\ PrivateOK(s, h, NONE) => PrivateOK(r, h, NONE)
    /\ WaitsOK(s, h, NONE) => WaitsOK(r, h, NONE)

NewContent(l, t, b) == [NoContent EXCEPT !.status = "LOADING", !.ll = l, !.quirks = b, !.type = t]

WithNew(s, k, l, t, b) ==
    [s EXCEPT !.content[k] = NewContent(l, t, b), !.content_list = <<k>> \o @,
              !.ll[l] = [@ EXCEPT !.owner = "content", !.told = 1]]

IsNew(s, r, h, l, k) ==
    /\ IsGiven(s, r, h, l) /\ r.content[k].status = "LOADING"
    /\ r.content[k].users = <<>> /\ r.content[k].ll = l

LEMMA NewStep ==
    ASSUME NEW s, Core(s, NONE, NONE), NEW h \in Handles, NEW l, l = s.handle[h].ctx, l # NONE,
           NEW k \in Contents, s.content[k].status = "none", NEW t \in KnownTypes, NEW b \in BOOLEAN, NEW r,
           r = WithNew(s, k, l, t, b)
    PROVE  IsNew(s, r, h, l, k)
<1> DEFINE c == NewContent(l, t, b)
           v == [s.ll[l] EXCEPT !.owner = "content", !.told = 1]
<1>1. /\ Core(s, h, l) /\ l \in LLs /\ s.ll[l].owner = "ctx" /\ s.handle[h].used /\ s.handle[h].entry = NONE
  BY Unhand
<1>2. /\ s \in States /\ ~s.fault /\ s.ll \in [LLs -> LLRec] /\ s.ll[l] \in LLRec
      /\ s.content \in [Contents -> ContentRec] /\ s.content_list \in Seq(Contents)
  BY <1>1 DEF Core, States
<1>3. /\ c \in ContentRec /\ c.status = "LOADING" /\ c.users = <<>> /\ c.ll = l /\ c.type = t
      /\ ~c.locked /\ ~c.converting
  <2>1. /\ NoContent \in ContentRec /\ NoContent.users = <<>> /\ ~NoContent.locked
        /\ ~NoContent.converting
    BY DEF NoContent, ContentRec, Statuses, KnownTypes
  <2> QED  BY <1>1, <2>1 DEF ContentRec, Statuses, NewContent
<1>4. v \in LLRec /\ v.owner = "content" /\ v.told = 1 /\ v.object = s.ll[l].object
  <2>1. PICK z \in LLRec : z = s.ll[l]
    BY <1>2
  <2>2. [z EXCEPT !.owner = "content", !.told = 1] \in LLRec
    <3>1. 1 \in 0 .. 3 /\ "content" \in {"none", "ctx", "content", "download"}
      OBVIOUS
    <3>2. \A e \in {"none", "ctx", "content", "download"}, n \in 0 .. 3 :
             [z EXCEPT !.owner = e, !.told = n] \in LLRec
      BY DEF LLRec
    <3> QED  BY <3>1, <3>2
  <2>3. /\ [z EXCEPT !.owner = "content", !.told = 1].owner = "content"
        /\ [z EXCEPT !.owner = "content", !.told = 1].told = 1
        /\ [z EXCEPT !.owner = "content", !.told = 1].object = z.object
    BY DEF LLRec
  <2> QED  BY <2>1, <2>2, <2>3
<1> HIDE DEF c, v
<1>5. /\ r.handle = s.handle /\ r.object = s.object /\ r.fault = s.fault
      /\ r.content = [s.content EXCEPT ![k] = c] /\ r.ll = [s.ll EXCEPT ![l] = v]
  BY <1>2 DEF States, WithNew, c, v
<1>6. r \in States
  <2>1. [s.content EXCEPT ![k] = c] \in [Contents -> ContentRec]
    BY <1>2, <1>3
  <2>2. [s.ll EXCEPT ![l] = v] \in [LLs -> LLRec]
    BY <1>2, <1>4
  <2>3. <<k>> \o s.content_list \in Seq(Contents)
    BY <1>2
  <2>4. r = [s EXCEPT !.content = [s.content EXCEPT ![k] = c], !.content_list = <<k>> \o s.content_list,
                      !.ll = [s.ll EXCEPT ![l] = v]]
    BY <1>2 DEF States, WithNew, c, v
  <2> QED  BY <1>2, <2>1, <2>2, <2>3, <2>4 DEF States
<1>7. r.content[k] = c /\ \A j \in Contents \ {k} : r.content[j] = s.content[j]
  BY <1>2, <1>5
<1>8. r.ll[l] = v /\ \A j \in LLs \ {l} : r.ll[j] = s.ll[j]
  BY <1>1, <1>2, <1>5
<1>9. s.content[k] = NoContent /\ \A g \in Handles : s.handle[g].entry # k
  <2>1. s.content[k] = NoContent
    BY DEF Core, ContentsOK
  <2>2. \A g \in Handles : ~Has(s.content[k].users, g)
    BY <2>1 DEF NoContent, Has
  <2> QED  BY <2>1, <2>2 DEF Core, UsersOK
<1>10. HandlesOK(r, h)
  BY <1>1, <1>5 DEF Core, HandlesOK
<1>11. UsersOK(r)
  <2>1. r.content[k].users = s.content[k].users
    BY <1>3, <1>7, <1>9 DEF NoContent
  <2>2. \A j \in Contents : r.content[j].users = s.content[j].users
    BY Zenon, <1>7, <2>1
  <2> QED  BY <1>5, <2>2 DEF Core, UsersOK
<1>12. CtxOK(r, h, NONE)
  <2>1. \A g \in Handles : s.handle[g].ctx \in LLs \cup {NONE}
    BY SMTT(30), <1>2 DEF States, HandleRec
  <2> QED  BY <1>1, <1>5, <1>8, <2>1 DEF Core, OwnersOK, CtxOK
<1>13. EntriesOK(r, NONE)
  <2>1. \A j \in Contents \ {k} : s.content[j].status # "none" => s.content[j].ll # l /\ s.content[j].ll \in LLs
    BY <1>1 DEF Core, OwnersOK, EntriesOK
  <2>2. r.content[k].ll = l /\ r.ll[l].owner = "content"
    BY <1>3, <1>4, <1>7, <1>8
  <2>3. l # NONE /\ \A j \in LLs : j # NONE
    BY HLAssumption
  <2>4. \A j \in Contents \ {k} : s.content[j].status # "none" =>
           /\ s.ll[s.content[j].ll].owner = "content"
           /\ \A i \in Contents : s.content[i].status # "none" /\ s.content[i].ll = s.content[j].ll => i = j
    BY ZenonT(60) DEF Core, OwnersOK, EntriesOK
  <2>5. \A j \in Contents \ {k} : r.content[j].status # "none" =>
           r.ll[r.content[j].ll].owner = "content" /\ r.content[j].ll \in LLs /\ r.content[j].ll # l
    BY <1>7, <1>8, <2>1, <2>4
  <2>6. ASSUME NEW i \in Contents, NEW j \in Contents, r.content[i].status # "none",
               r.content[j].status # "none", r.content[i].ll = r.content[j].ll
        PROVE  i = j
    <3>1. CASE i # k /\ j # k
      <4>1. r.content[i] = s.content[i] /\ r.content[j] = s.content[j]
        BY SMTT(30), <1>7, <3>1
      <4> QED  BY <2>4, <2>6, <3>1, <4>1
    <3>2. CASE i = k \/ j = k
      BY ZenonT(60), <2>2, <2>5, <2>6, <3>2
    <3> QED  BY <3>1, <3>2
  <2>7. \A j \in Contents : r.content[j].status # "none" =>
           /\ r.content[j].ll \in LLs /\ r.content[j].ll # NONE
           /\ r.ll[r.content[j].ll].owner = "content"
    BY ZenonT(60), <1>1, <2>2, <2>3, <2>5
  <2> QED  BY Zenon, <2>6, <2>7 DEF EntriesOK
<1>14. OwnedOK(r, h, NONE)
  <2>1. ASSUME NEW j \in LLs, j # l
        PROVE  /\ r.ll[j].owner = "ctx" => \E g \in Handles \ {h} : r.handle[g].ctx = j
               /\ r.ll[j].owner = "content" =>
                     \E i \in Contents : r.content[i].status # "none" /\ r.content[i].ll = j
    <3>1. /\ s.ll[j].owner = "ctx" => \E g \in Handles \ {h} : s.handle[g].ctx = j
          /\ s.ll[j].owner = "content" =>
                \E i \in Contents : s.content[i].status # "none" /\ s.content[i].ll = j
      BY <1>1, <2>1 DEF Core, OwnersOK, OwnedOK
    <3> QED  BY <1>5, <1>7, <1>8, <2>1, <3>1
  <2>2. r.ll[l].owner = "content" /\ r.content[k].status # "none" /\ r.content[k].ll = l
    BY SMTT(30), <1>3, <1>4, <1>7, <1>8
  <2> QED  BY <2>1, <2>2 DEF OwnedOK
<1>15. LLsOK(r, NONE)
  <2>1. s.ll[l].object \in Objects /\ s.object[s.ll[l].object].state # "none"
    BY <1>1, Occupied
  <2>2. r.ll[l].owner # "none" /\ r.ll[l].object = s.ll[l].object /\ r.ll[l].told # 3
    BY <1>4, <1>8
  <2>3. ASSUME NEW j \in LLs \ {l}
        PROVE  IF r.ll[j].owner = "none" THEN r.ll[j] = NoLL
               ELSE /\ r.ll[j].object \in Objects
                    /\ r.object[r.ll[j].object].state # "none"
                    /\ r.ll[j].told = 3 => r.object[r.ll[j].object].state = "complete"
    <3>1. r.ll[j] = s.ll[j] /\ r.object = s.object
      BY <1>5, <1>8, Zenon
    <3>2. IF s.ll[j].owner = "none" THEN s.ll[j] = NoLL
          ELSE /\ s.ll[j].object \in Objects
               /\ s.object[s.ll[j].object].state # "none"
               /\ s.ll[j].told = 3 => s.object[s.ll[j].object].state = "complete"
      BY Zenon DEF Core, LLsOK
    <3> QED  BY <3>1, <3>2
  <2>4. r.ll[l].object \in Objects /\ r.object[r.ll[l].object].state # "none"
    BY ZenonT(60), <1>5, <2>1, <2>2
  <2> QED  BY Zenon, <2>2, <2>3, <2>4 DEF LLsOK
<1>16. ContentsOK(r)
  <2>1. \A j \in Contents \ {k} : s.content[j].locked \/ s.content[j].status \in {"READY", "DONE"} =>
            s.content[j].ll \in LLs /\ s.content[j].ll # l
    BY <1>1 DEF Core, ContentsOK, OwnersOK, EntriesOK
  <2> QED  BY <1>3, <1>7, <1>8, <2>1 DEF Core, ContentsOK
<1>17. ToldOK(s, {}) => ToldOK(r, {})
  <2>1. \A g \in Handles : s.handle[g].entry # NONE => s.handle[g].entry \in Contents \ {k}
    BY <1>2, <1>9 DEF States, HandleRec
  <2> QED  BY <1>5, <1>7, <2>1 DEF ToldOK
<1>18. PrivateOK(s, h, NONE) => PrivateOK(r, h, NONE)
  <2>1. \A g \in Handles : s.handle[g].entry # NONE => s.handle[g].entry \in Contents \ {k}
    BY <1>2, <1>9 DEF States, HandleRec
  <2>2. \A j : Relied(r, h, j) => Relied(s, h, j)
    BY <1>5, <1>7, <2>1 DEF Relied
  <2>3. \A j \in LLs : r.ll[j].object = s.ll[j].object
    BY SMTT(30), <1>4, <1>8
  <2> QED  BY Zenon, <1>5, <2>2, <2>3 DEF PrivateOK
<1>19. WaitsOK(s, h, NONE) => WaitsOK(r, h, NONE)
  <2>1. \A g \in Handles \ {h} : s.handle[g].ctx # NONE => s.handle[g].ctx \in LLs /\ s.handle[g].ctx # l
    BY <1>1, <1>2 DEF Core, OwnersOK, CtxOK, States, HandleRec
  <2>2. \A j \in Contents \ {k} : s.content[j].status = "LOADING" => s.content[j].ll # l /\ s.content[j].ll \in LLs
    BY <1>1 DEF Core, OwnersOK, EntriesOK
  <2>3. r.ll[r.content[k].ll].told < 3 /\ ~r.content[k].converting /\ Len(r.content[k].users) <= 1
    BY <1>3, <1>4, <1>7, <1>8
  <2>4. \A j \in LLs \ {l} : r.ll[j].told = s.ll[j].told
    BY <1>8
  <2> SUFFICES ASSUME WaitsOK(s, h, NONE) PROVE WaitsOK(r, h, NONE)
    OBVIOUS
  <2>5. \A g \in Handles \ {h} : r.handle[g].ctx # NONE => r.ll[r.handle[g].ctx].told < 3
    <3> SUFFICES ASSUME NEW g \in Handles \ {h}, r.handle[g].ctx # NONE
                 PROVE  r.ll[r.handle[g].ctx].told < 3
      BY Zenon
    <3>1. r.handle[g].ctx = s.handle[g].ctx
      BY <1>5, Zenon
    <3>2. s.ll[s.handle[g].ctx].told < 3
      BY <3>1, Zenon DEF WaitsOK
    <3>3. s.handle[g].ctx \in LLs \ {l}
      BY SMTT(30), <2>1, <3>1
    <3> QED  BY SMTT(30), <2>4, <3>1, <3>2, <3>3
  <2>6. ASSUME NEW j \in Contents \ {k}
        PROVE  /\ r.content[j].status = "LOADING" => r.content[j].converting \/ r.ll[r.content[j].ll].told < 3
               /\ r.content[j].type = "image" => ~r.content[j].converting
               /\ r.content[j].type \notin {"image", "css"} => Len(r.content[j].users) <= 1
    BY SMTT(30), <1>7, <2>2, <2>4, HLAssumption DEF WaitsOK
  <2> QED  BY Zenon, <2>3, <2>5, <2>6 DEF WaitsOK
<1> QED  BY <1>2, <1>3, <1>4, <1>5, <1>6, <1>7, <1>8, <1>10, <1>11, <1>12, <1>13, <1>14, <1>15, <1>16,
            <1>17, <1>18, <1>19 DEF Core, OwnersOK, IsGiven, IsNew

LEMMA DownloadStep ==
    ASSUME NEW s, Core(s, NONE, NONE), NEW h \in Handles, NEW l, l = s.handle[h].ctx, l # NONE, NEW r,
           r = [s EXCEPT !.ll[l] = [@ EXCEPT !.owner = "download", !.told = 1]]
    PROVE  IsGiven(s, r, h, l)
<1> DEFINE v == [s.ll[l] EXCEPT !.owner = "download", !.told = 1]
<1>1. Core(s, h, l) /\ l \in LLs /\ s.ll[l].owner = "ctx"
  BY Unhand
<1>2. s \in States /\ ~s.fault /\ s.ll \in [LLs -> LLRec] /\ s.ll[l] \in LLRec
  BY <1>1 DEF Core, States
<1>3. v \in LLRec /\ v.owner = "download" /\ v.told = 1 /\ v.object = s.ll[l].object
  <2>1. PICK z \in LLRec : z = s.ll[l]
    BY <1>2
  <2>2. [z EXCEPT !.owner = "download", !.told = 1] \in LLRec
    <3>1. 1 \in 0 .. 3 /\ "download" \in {"none", "ctx", "content", "download"}
      OBVIOUS
    <3>2. \A e \in {"none", "ctx", "content", "download"}, n \in 0 .. 3 :
             [z EXCEPT !.owner = e, !.told = n] \in LLRec
      BY DEF LLRec
    <3> QED  BY <3>1, <3>2
  <2>3. /\ [z EXCEPT !.owner = "download", !.told = 1].owner = "download"
        /\ [z EXCEPT !.owner = "download", !.told = 1].told = 1
        /\ [z EXCEPT !.owner = "download", !.told = 1].object = z.object
    BY DEF LLRec
  <2> QED  BY <2>1, <2>2, <2>3
<1> HIDE DEF v
<1>4. /\ r.handle = s.handle /\ r.object = s.object /\ r.fault = s.fault /\ r.content = s.content
      /\ r.ll = [s.ll EXCEPT ![l] = v]
  BY <1>2 DEF States, v
<1>5. r \in States
  <2>1. [s.ll EXCEPT ![l] = v] \in [LLs -> LLRec]
    BY <1>2, <1>3
  <2>2. r = [s EXCEPT !.ll = [s.ll EXCEPT ![l] = v]]
    BY <1>2 DEF States, v
  <2> QED  BY <1>2, <2>1, <2>2 DEF States
<1>6. r.ll[l] = v /\ \A j \in LLs \ {l} : r.ll[j] = s.ll[j]
  BY <1>1, <1>2, <1>4
<1>7. HandlesOK(r, h) /\ UsersOK(r)
  BY SMTT(30), <1>1, <1>4 DEF Core, HandlesOK, UsersOK
<1>8. CtxOK(r, h, NONE)
  <2>1. \A g \in Handles : s.handle[g].ctx \in LLs \cup {NONE}
    BY ZenonT(60), <1>2 DEF States, HandleRec
  <2> QED  BY <1>1, <1>4, <1>6, <2>1 DEF Core, OwnersOK, CtxOK
<1>9. EntriesOK(r, NONE)
  BY <1>1, <1>4, <1>6, HLAssumption DEF Core, OwnersOK, EntriesOK
<1>10. OwnedOK(r, h, NONE)
  <2>1. r.ll[l].owner = "download"
    BY SMTT(30), <1>3, <1>6
  <2> QED  BY <1>1, <1>4, <1>6, <2>1 DEF Core, OwnersOK, OwnedOK
<1>11. LLsOK(r, NONE)
  <2>1. s.ll[l].object \in Objects /\ s.object[s.ll[l].object].state # "none"
    BY <1>1, Occupied
  <2>2. r.ll[l].owner # "none" /\ r.ll[l].object = s.ll[l].object /\ r.ll[l].told # 3
    BY SMTT(30), <1>3, <1>6
  <2>3. ASSUME NEW j \in LLs \ {l}
        PROVE  IF r.ll[j].owner = "none" THEN r.ll[j] = NoLL
               ELSE /\ r.ll[j].object \in Objects
                    /\ r.object[r.ll[j].object].state # "none"
                    /\ r.ll[j].told = 3 => r.object[r.ll[j].object].state = "complete"
    BY ZenonT(60), <1>4, <1>6 DEF Core, LLsOK
  <2>4. r.ll[l].object \in Objects /\ r.object[r.ll[l].object].state # "none"
    BY Zenon, <1>4, <2>1, <2>2
  <2> QED  BY ZenonT(60), <2>2, <2>3, <2>4 DEF LLsOK
<1>12. ContentsOK(r)
  <2>1. \A j \in Contents : s.content[j].locked \/ s.content[j].status \in {"READY", "DONE"} =>
            s.content[j].ll \in LLs /\ s.content[j].ll # l
    BY <1>1 DEF Core, ContentsOK, OwnersOK, EntriesOK
  <2> QED  BY <1>4, <1>6, <2>1 DEF Core, ContentsOK
<1>13. ToldOK(s, {}) => ToldOK(r, {})
  BY <1>4 DEF ToldOK
<1>14. PrivateOK(s, h, NONE) => PrivateOK(r, h, NONE)
  <2>1. \A j : Relied(r, h, j) => Relied(s, h, j)
    BY <1>4 DEF Relied
  <2>2. \A j \in LLs : r.ll[j].object = s.ll[j].object
    BY Zenon, <1>3, <1>6
  <2> QED  BY ZenonT(60), <1>4, <2>1, <2>2 DEF PrivateOK
<1>15. WaitsOK(s, h, NONE) => WaitsOK(r, h, NONE)
  <2>1. \A g \in Handles \ {h} : s.handle[g].ctx # NONE => s.handle[g].ctx \in LLs /\ s.handle[g].ctx # l
    BY <1>1, <1>2 DEF Core, OwnersOK, CtxOK, States, HandleRec
  <2>2. \A j \in Contents : s.content[j].status = "LOADING" => s.content[j].ll # l /\ s.content[j].ll \in LLs
    BY <1>1 DEF Core, OwnersOK, EntriesOK
  <2>3. \A j \in LLs \ {l} : r.ll[j].told = s.ll[j].told
    BY <1>6
  <2> QED  BY <1>4, <2>1, <2>2, <2>3 DEF WaitsOK
<1> QED  BY Zenon, <1>2, <1>3, <1>4, <1>5, <1>6, <1>7, <1>8, <1>9, <1>10, <1>11, <1>12, <1>13, <1>14, <1>15
         DEF Core, OwnersOK, IsGiven

\* A handle without a content is released while its context migrates.
IsMigrating(s, r, h, m) ==
    /\ Core(r, h, m) /\ Keeps(s, h, r, h)
    /\ r.ll = s.ll /\ r.handle[h].ctx = s.handle[h].ctx /\ r.handle[h].entry = NONE

LEMMA MigratingStep ==
    ASSUME NEW s, NEW h \in Handles, NEW m, Core(s, h, m), s.handle[h].entry = NONE, NEW r, r = Released(s, h, TRUE)
    PROVE  IsMigrating(s, r, h, m)
<1>1. s \in States /\ s.handle[h] \in HandleRec
  BY DEF Core, States
<1>2. PICK g : g = [NoHandle EXCEPT !.ctx = s.handle[h].ctx]
  OBVIOUS
<1>3. r = [s EXCEPT !.handle[h] = g]
  BY <1>2 DEF Released, DropContext
<1>4. /\ g \in HandleRec /\ g.entry = NONE /\ g.ctx = s.handle[h].ctx /\ g.told = "none"
      /\ ~g.used /\ ~g.aborted
  <2>1. NoHandle \in HandleRec /\ NoHandle.entry = NONE /\ ~NoHandle.aborted /\ ~NoHandle.used /\ NoHandle.told = "none"
    BY DEF NoHandle, HandleRec
  <2> QED  BY <1>1, <1>2, <2>1 DEF HandleRec
<1>5. Core(r, h, m) /\ IsHandle(s, r, h, g)
  BY <1>3, <1>4, HandleStep
<1>6. Keeps(s, h, r, h)
  BY <1>4, <1>5, HandleKeeps
<1> QED  BY <1>4, <1>5, <1>6 DEF IsHandle, IsMigrating

\* A content that can be shared, for which the low-level handle is not needed.
LEMMA HitStep ==
    ASSUME NEW s, Good(s), NEW h \in Handles, NEW l, l = s.handle[h].ctx, l # NONE, NEW b,
           NEW k \in Contents, Suitable(s, k, l, b), NEW r \in Attached(llcache_handle_release(s, l), h, k)
    PROVE  Migrated(s, r, h)
<1>1. Core(s, NONE, NONE) /\ ToldOK(s, {}) /\ PrivateOK(s, NONE, NONE)
  BY DEF Good
<1>2. /\ Core(s, h, l) /\ l \in LLs /\ s.ll[l].owner = "ctx" /\ s.handle[h].used
      /\ s.handle[h].entry = NONE /\ PrivateOK(s, h, NONE) /\ ~Relied(s, h, l)
  BY <1>1, Unhand
<1>3. PICK q : q = llcache_handle_release(s, l)
  OBVIOUS
<1>4. Core(q, h, NONE) /\ Apart(s, q, l)
  BY <1>2, <1>3, LLReleaseStep
<1>5. ToldOK(q, {}) /\ PrivateOK(q, h, NONE) /\ (WaitsOK(s, h, NONE) => WaitsOK(q, h, NONE))
  BY <1>1, <1>2, <1>4, ApartGood
<1>6. /\ s.content[k].status # "ERROR" /\ s.content[k].type \in {"image", "css"}
      /\ s.ll[s.content[k].ll].object = s.ll[l].object
  BY DEF Suitable, content_is_shareable
<1>7. s.content[k].status \in {"LOADING", "READY", "DONE"}
  <2>1. s.content[k].status \in Statuses
    BY <1>1 DEF Core, States, ContentRec
  <2>2. s.content[k].status # "none"
    BY <1>1, <1>6 DEF Core, ContentsOK, NoContent
  <2> QED  BY <1>6, <2>1, <2>2 DEF Statuses
<1>8. s.content[k].ll \in LLs /\ s.content[k].ll # l /\ s.ll[s.content[k].ll].owner = "content"
  BY <1>2, <1>7 DEF Core, OwnersOK, EntriesOK
<1>9. s.object[s.ll[l].object].whole
  <2>1. Relied(s, NONE, l)
    BY <1>2, HLAssumption DEF Relied
  <2>2. s.ll[l].object \in Objects
    BY SMTT(30), <1>2, Occupied
  <2> QED  BY Zenon, <1>1, <1>2, <2>1, <2>2, HLAssumption DEF PrivateOK
<1>10. q.object[q.ll[q.content[k].ll].object].whole
  <2>1. PICK j \in LLs \ {l} : j = s.content[k].ll
    BY <1>8
  <2>2. /\ q.content = s.content /\ q.ll[j] = s.ll[j]
        /\ s.ll[j].owner # "none" => q.object[s.ll[j].object] = s.object[s.ll[j].object]
    BY <1>4 DEF Apart
  <2>3. s.ll[j].owner # "none" /\ s.ll[j].object = s.ll[l].object
    BY <1>6, <1>8, <2>1
  <2> QED  BY Zenon, <1>9, <2>1, <2>2, <2>3
<1>11. /\ q.handle = s.handle /\ q.content = s.content
  BY <1>4 DEF Apart
<1>12. /\ q.handle[h].entry = NONE /\ q.handle[h].used
       /\ q.content[k].status \in {"LOADING", "READY", "DONE"} /\ q.content[k].type \in {"image", "css"}
  BY <1>2, <1>6, <1>7, <1>11
<1>13. r \in Attached(q, h, k)
  BY SMTT(30), <1>3
<1>14. /\ Core(r, h, NONE) /\ ToldOK(r, {}) /\ PrivateOK(r, h, NONE)
       /\ WaitsOK(q, h, NONE) => WaitsOK(r, h, NONE)
       /\ r.handle[h].ctx = q.handle[h].ctx
  BY ZenonT(60), <1>4, <1>5, <1>10, <1>12, <1>13, AttachStep
<1> QED  BY <1>5, <1>11, <1>14 DEF Migrated

LEMMA FindStep ==
    ASSUME NEW s, Good(s), NEW h \in Handles, NEW l, l = s.handle[h].ctx, l # NONE, NEW b \in BOOLEAN,
           NEW r \in hlcache_find_content(s, h, b)
    PROVE  Migrated(s, r, h)
<1> DEFINE I == {i \in 1 .. Len(s.content_list) : Suitable(s, s.content_list[i], l, b)}
           k == Some(FreeContents(s))
           t == s.object[s.ll[l].object].type
<1>1. Core(s, NONE, NONE) /\ ToldOK(s, {}) /\ PrivateOK(s, NONE, NONE) /\ s \in States
  BY DEF Good, Core
<1>2. /\ l \in LLs /\ s.ll[l].owner = "ctx" /\ s.handle[h].used
      /\ s.handle[h].entry = NONE /\ PrivateOK(s, h, NONE) /\ Core(s, h, l)
  BY <1>1, Unhand
<1>6. I \in SUBSET Nat /\ Len(s.content_list) \in Nat
  <2>1. s.content_list \in Seq(Contents)
    BY <1>1, Zenon DEF States
  <2>2. Len(s.content_list) \in Nat
    BY SMTT(30), <2>1
  <2> QED  BY <2>2
<1>3. \/ I # {} /\ r \in Attached(llcache_handle_release(s, l), h, s.content_list[Min(I)])
      \/ /\ k # NONE
         /\ r \in Attached(WithNew(s, k, l, t, b), h, k)
  <2>1. I # {} => Min(I) # 0
    <3>1. I # {} => Min(I) \in I
      BY <1>6, LeastIndex
    <3> QED  BY <3>1
  <2>2. SelectInSeq(s.content_list, LAMBDA c : Suitable(s, c, l, b)) = IF I # {} THEN Min(I) ELSE 0
    BY DEF SelectInSeq
  <2> HIDE DEF I
  <2> QED  BY <2>1, <2>2 DEF hlcache_find_content, WithNew, NewContent
<1>4. CASE I # {} /\ r \in Attached(llcache_handle_release(s, l), h, s.content_list[Min(I)])
  <2>1. Min(I) \in I
    BY <1>4, <1>6, LeastIndex
  <2>2. s.content_list \in Seq(Contents)
    BY <1>1 DEF States
  <2>3. s.content_list[Min(I)] \in Contents /\ Suitable(s, s.content_list[Min(I)], l, b)
    <3>1. PICK i \in I : i = Min(I)
      BY <2>1
    <3>2. i \in 1 .. Len(s.content_list) /\ Suitable(s, s.content_list[i], l, b)
      OBVIOUS
    <3> HIDE DEF I
    <3> QED  BY <2>2, <3>1, <3>2
  <2>4. PICK c \in Contents : c = s.content_list[Min(I)]
    BY <2>3
  <2> HIDE DEF I
  <2>5. Suitable(s, c, l, b) /\ r \in Attached(llcache_handle_release(s, l), h, c)
    BY <1>4, <2>3, <2>4
  <2> QED  BY <2>5, HitStep
<1>5. CASE k # NONE /\ r \in Attached(WithNew(s, k, l, t, b), h, k)
  <2>1. k \in Contents /\ s.content[k].status = "none"
    BY Zenon, <1>5 DEF Some, FreeContents
  <2>2. s.ll[l].object \in Objects
    BY <1>2, Occupied
  <2>3. t \in KnownTypes
    BY <1>1, <2>2 DEF States, ObjectRec
  <2>4. PICK c \in Contents : c = k
    BY Zenon, <2>1
  <2>5. PICK u \in KnownTypes : u = t
    BY <2>3
  <2>6. PICK q : q = WithNew(s, c, l, u, b)
    BY SMTT(30)
  <2>7. r \in Attached(q, h, c)
    BY Zenon, <1>5, <2>4, <2>5, <2>6
  <2>8. s.content[c].status = "none"
    BY <2>1, <2>4
  <2> HIDE DEF k, t
  <2>9. /\ IsGiven(s, q, h, l) /\ q.content[c].status = "LOADING"
        /\ q.content[c].users = <<>> /\ q.content[c].ll = l
    <3>1. IsNew(s, q, h, l, c)
      BY <1>1, <2>6, <2>8, NewStep
    <3> QED  BY <3>1 DEF IsNew
  <2>10. /\ Core(q, h, NONE) /\ q.handle = s.handle /\ ToldOK(q, {}) /\ PrivateOK(q, h, NONE)
         /\ WaitsOK(s, h, NONE) => WaitsOK(q, h, NONE)
    BY <1>1, <1>2, <2>9 DEF IsGiven
  <2>11. q.object[q.ll[q.content[c].ll].object].whole
    <3>1. Relied(s, NONE, l)
      BY <1>2, HLAssumption DEF Relied
    <3>2. s.object[s.ll[l].object].whole
      BY Zenon, <1>1, <1>2, <2>2, <3>1, HLAssumption DEF PrivateOK
    <3> QED  BY Zenon, <2>9, <3>2 DEF IsGiven
  <2>12. q.handle[h].entry = NONE /\ q.handle[h].used /\ q.content[c].status \in {"LOADING", "READY", "DONE"}
    BY SMTT(30), <1>2, <2>9, <2>10
  <2>13. /\ Core(r, h, NONE) /\ ToldOK(r, {}) /\ PrivateOK(r, h, NONE)
         /\ WaitsOK(q, h, NONE) => WaitsOK(r, h, NONE)
         /\ r.handle[h].ctx = q.handle[h].ctx
    BY Zenon, <2>7, <2>9, <2>10, <2>11, <2>12, AttachStep
  <2> QED  BY <2>10, <2>13 DEF Migrated
<1> QED  BY Zenon, <1>3, <1>4, <1>5

LEMMA MigrateFailsStep ==
    ASSUME NEW s, Good(s), NEW h \in Handles, NEW l, l = s.handle[h].ctx, l # NONE, NEW r, r = MigrateFails(s, h)
    PROVE  Migrated(s, r, h)
<1>1. Core(s, NONE, NONE) /\ ToldOK(s, {}) /\ PrivateOK(s, NONE, NONE)
  BY DEF Good
<1>2. /\ Core(s, h, l) /\ l \in LLs /\ s.ll[l].owner = "ctx" /\ s.handle[h].entry = NONE
      /\ PrivateOK(s, h, NONE)
  BY <1>1, Unhand
<1>3. PICK p : p = Released(s, h, TRUE)
  OBVIOUS
<1>4. /\ Core(p, h, l) /\ Keeps(s, h, p, h) /\ p.ll = s.ll /\ p.handle[h].ctx = l /\ p.handle[h].entry = NONE
  <2>1. IsMigrating(s, p, h, l)
    BY <1>2, <1>3, MigratingStep
  <2> QED  BY <2>1 DEF IsMigrating
<1>5. PICK a : a = llcache_handle_abort(p, l)
  OBVIOUS
<1>6. Core(a, h, l) /\ IsAborted(p, a, l)
  BY SMTT(30), <1>2, <1>4, <1>5, LLAbortStep
<1>7. Apart(p, a, l) /\ a.ll[l].told = p.ll[l].told /\ a.handle = p.handle
  BY Zenon, <1>6 DEF IsAborted, Apart
<1>8. ~Relied(p, h, l) /\ ~Relied(a, h, l)
  BY <1>2, <1>4, <1>6, ReliedLive
<1>9. Keeps(p, h, a, h)
  BY <1>2, <1>4, <1>7, <1>8, ApartGood DEF Keeps
<1>10. r = llcache_handle_release(a, l)
  BY <1>3, <1>5 DEF MigrateFails
<1>11. Core(r, h, NONE) /\ Apart(a, r, l)
  BY <1>2, <1>6, <1>10, LLReleaseStep
<1>12. Keeps(a, h, r, h)
  BY <1>2, <1>6, <1>8, <1>11, ApartGood DEF Keeps
<1>13. r.handle[h].ctx = l
  BY <1>4, <1>7, <1>11 DEF Apart
<1> QED  BY <1>1, <1>2, <1>4, <1>9, <1>11, <1>12, <1>13 DEF Keeps, Migrated

LEMMA MigrateDownload ==
    ASSUME NEW s, Good(s), NEW h \in Handles, NEW l, l = s.handle[h].ctx, l # NONE, NEW r, r = Download(s, h)
    PROVE  Migrated(s, r, h)
<1>1. Core(s, NONE, NONE) /\ ToldOK(s, {}) /\ PrivateOK(s, NONE, NONE)
  BY DEF Good
<1>2. s.handle[h].entry = NONE /\ PrivateOK(s, h, NONE)
  BY <1>1, Unhand
<1>3. PICK p : p = [s EXCEPT !.ll[l] = [@ EXCEPT !.owner = "download", !.told = 1]]
  OBVIOUS
<1>4. IsGiven(s, p, h, l)
  BY Zenon, <1>1, <1>3, DownloadStep
<1>5. /\ Core(p, h, NONE) /\ p.handle = s.handle /\ ToldOK(p, {}) /\ PrivateOK(p, h, NONE)
      /\ WaitsOK(s, h, NONE) => WaitsOK(p, h, NONE)
  BY <1>1, <1>2, <1>4 DEF IsGiven
<1>6. r = Released(p, h, TRUE)
  BY <1>3 DEF Download
<1>7. Core(r, h, NONE) /\ Keeps(p, h, r, h) /\ r.handle[h].ctx = p.handle[h].ctx
  <2>1. p.handle[h].entry = NONE
    BY <1>2, <1>5
  <2>2. IsMigrating(p, r, h, NONE)
    BY ZenonT(60), <1>5, <1>6, <2>1, MigratingStep
  <2> QED  BY <2>2 DEF IsMigrating
<1> QED  BY <1>5, <1>7 DEF Keeps, Migrated

\* hlcache_migrate_ctx(): whatever becomes of the context, the handle has none
\* afterwards, and nothing is lost.
LEMMA MigrateStep ==
    ASSUME NEW s, Good(s), NEW h \in Handles, NEW l, l = s.handle[h].ctx, l # NONE,
           NEW r \in hlcache_migrate_ctx(s, h)
    PROVE  Good(r) /\ (WaitsOK(s, h, NONE) => WaitsOK(r, NONE, NONE))
<1>1. PICK q : /\ r = [Expect(q, q.handle[h].ctx = s.handle[h].ctx) EXCEPT !.handle[h].ctx = NONE]
               /\ \/ \E b \in BOOLEAN : q \in hlcache_find_content(s, h, b)
                  \/ q = Download(s, h)
                  \/ q = MigrateFails(s, h)
  <2> DEFINE type == s.object[s.ll[s.handle[h].ctx].object].type
             found == IF type = "unknown" THEN {}
                      ELSE UNION {hlcache_find_content(s, h, b) :
                                     b \in IF type = "css" THEN BOOLEAN ELSE {FALSE}}
             ended == (IF type = "unknown" THEN {Download(s, h)} ELSE {})
                      \cup (IF CanFail \/ found = {} THEN {MigrateFails(s, h)} ELSE {})
  <2>1. hlcache_migrate_ctx(s, h) = {[Expect(q, q.handle[h].ctx = s.handle[h].ctx) EXCEPT !.handle[h].ctx = NONE] :
                                        q \in found \cup ended}
    BY Zenon DEF hlcache_migrate_ctx
  <2> HIDE DEF found, ended
  <2>2. PICK q \in found \cup ended :
           r = [Expect(q, q.handle[h].ctx = s.handle[h].ctx) EXCEPT !.handle[h].ctx = NONE]
    BY ZenonT(60), <2>1
  <2>3. q \in ended => q = Download(s, h) \/ q = MigrateFails(s, h)
    BY SMTT(30) DEF ended
  <2>4. q \in found => \E b \in BOOLEAN : q \in hlcache_find_content(s, h, b)
    BY ZenonT(60) DEF found
  <2> QED  BY Zenon, <2>2, <2>3, <2>4
<1>2. Migrated(s, q, h)
  BY <1>1, FindStep, MigrateDownload, MigrateFailsStep
<1>3. /\ Core(q, h, NONE) /\ ToldOK(q, {}) /\ PrivateOK(q, h, NONE)
      /\ WaitsOK(s, h, NONE) => WaitsOK(q, h, NONE)
      /\ q.handle[h].ctx = s.handle[h].ctx
  BY <1>2 DEF Migrated
<1>4. q \in States /\ q.handle[h] \in HandleRec
  BY <1>3 DEF Core, States
<1>5. PICK g : g = [q.handle[h] EXCEPT !.ctx = NONE]
  BY Zenon
<1>6. /\ g \in HandleRec /\ g.ctx = NONE /\ g.entry = q.handle[h].entry /\ g.told = q.handle[h].told
      /\ g.used = q.handle[h].used /\ g.aborted = q.handle[h].aborted
  BY ZenonT(60), <1>4, <1>5 DEF HandleRec
<1>7. r = [q EXCEPT !.handle[h] = g]
  <2>1. Expect(q, q.handle[h].ctx = s.handle[h].ctx) = q
    BY <1>3, <1>4, Expected
  <2> QED  BY <1>1, <1>5, <2>1
<1>8. (~g.used => g.entry = NONE /\ ~g.aborted) /\ (g.entry = NONE => g.told = "none")
  BY <1>3, <1>6 DEF Core, HandlesOK
<1>9. Core(r, NONE, NONE) /\ IsHandle(q, r, h, g)
  BY <1>3, <1>6, <1>7, <1>8, HandleStep
<1>10. Keeps(q, h, r, NONE)
  BY <1>6, <1>9, HandleKeeps
<1> QED  BY <1>3, <1>9, <1>10 DEF Keeps, Good

-----------------------------------------------------------------------------
(* Events of the low-level cache *)

\* What every step does.
Fine(s, r) == Good(r) /\ (WaitsOK(s, NONE, NONE) => WaitsOK(r, NONE, NONE))

LEMMA OwnerCtx ==
    ASSUME NEW s, Core(s, NONE, NONE), NEW l \in LLs, s.ll[l].owner = "ctx", NEW h, h = OwnerOf(s, l)
    PROVE  h \in Handles /\ s.handle[h].ctx = l /\ l # NONE
<1>1. l # NONE
  BY HLAssumption
<1>2. \E g \in Handles : s.handle[g].ctx = l
  BY <1>1 DEF Core, OwnersOK, OwnedOK
<1> QED  BY <1>1, <1>2 DEF OwnerOf

LEMMA OwnerContent ==
    ASSUME NEW s, Core(s, NONE, NONE), NEW l \in LLs, s.ll[l].owner = "content", NEW k, k = OwnerOf(s, l)
    PROVE  k \in Contents /\ s.content[k].ll = l /\ s.content[k].status # "none"
<1>1. l # NONE
  BY HLAssumption
<1>2. \E j \in Contents : s.content[j].ll = l
  BY <1>1 DEF Core, OwnersOK, OwnedOK
<1>3. k \in Contents /\ s.content[k].ll = l
  BY <1>2 DEF OwnerOf
<1> QED  BY <1>1, <1>3 DEF Core, ContentsOK, NoContent

\* Who relies on the low-level handle of a content.
LEMMA ReliedBy ==
    ASSUME NEW s, Core(s, NONE, NONE), NEW k \in Contents, s.content[k].status # "none",
           Relied(s, NONE, s.content[k].ll)
    PROVE  \E h \in Handles : s.handle[h].entry = k /\ ~s.handle[h].aborted
<1>1. PICK l \in LLs : l = s.content[k].ll
  BY DEF Core, OwnersOK, EntriesOK
<1>2. s.ll[l].owner = "content" /\ l # NONE
  BY <1>1, HLAssumption DEF Core, OwnersOK, EntriesOK
<1>3. ~\E h \in Handles \ {NONE} : s.handle[h].ctx = l
  BY <1>2 DEF Core, OwnersOK, CtxOK
<1>4. PICK h \in Handles : /\ s.handle[h].entry # NONE /\ ~s.handle[h].aborted
                           /\ s.content[s.handle[h].entry].ll = l
  BY <1>1, <1>3 DEF Relied
<1>5. PICK j : j = s.handle[h].entry
  OBVIOUS
<1>6. j \in Contents /\ s.content[j].status # "none"
  BY <1>4, <1>5, EntryLive
<1>7. j = k
  BY <1>1, <1>4, <1>5, <1>6 DEF Core, OwnersOK, EntriesOK
<1> QED  BY <1>4, <1>5, <1>7

LEMMA AbortGood ==
    ASSUME NEW s, Good(s), NEW l \in LLs, s.ll[l].owner # "none", ~Relied(s, NONE, l),
           NEW r, r = llcache_handle_abort(s, l)
    PROVE  Fine(s, r) /\ IsAborted(s, r, l)
<1>1. Core(s, NONE, NONE) /\ ToldOK(s, {}) /\ PrivateOK(s, NONE, NONE)
  BY DEF Good
<1>2. Core(r, NONE, NONE) /\ IsAborted(s, r, l)
  BY <1>1, LLAbortStep
<1>3. Apart(s, r, l) /\ r.ll[l].told = s.ll[l].told
  BY <1>2 DEF IsAborted, Apart
<1>4. /\ ToldOK(r, {}) /\ PrivateOK(r, NONE, NONE)
      /\ WaitsOK(s, NONE, NONE) => WaitsOK(r, NONE, NONE)
  BY Zenon, <1>1, <1>3, ApartGood
<1> QED  BY <1>2, <1>4 DEF Fine, Good

LEMMA ToldWaits ==
    ASSUME NEW s, Core(s, NONE, NONE), NEW l \in LLs, NEW n \in 1 .. 3, NEW r, IsLLTold(s, r, l, n), NEW x, NEW k0,
           \/ n < 3
           \/ /\ \A h \in Handles : s.handle[h].ctx = l => h = x
              /\ \A k \in Contents : s.content[k].status = "LOADING" /\ s.content[k].ll = l => k = k0
    PROVE  WaitsOK(s, NONE, NONE) => WaitsOK(r, x, k0)
<1> SUFFICES ASSUME WaitsOK(s, NONE, NONE)
             PROVE  WaitsOK(r, x, k0)
  OBVIOUS
<1>1. /\ r.handle = s.handle /\ r.content = s.content /\ r.ll[l].told = n
      /\ \A j \in LLs \ {l} : r.ll[j].told = s.ll[j].told
  BY DEF IsLLTold
<1>2. \A h \in Handles : s.handle[h].ctx \in LLs \cup {NONE}
  BY DEF Core, States, HandleRec
<1>3. \A k \in Contents : s.content[k].status = "LOADING" => s.content[k].ll \in LLs
  BY DEF Core, OwnersOK, EntriesOK
<1>4. /\ \A h \in Handles : s.handle[h].ctx # NONE => s.ll[s.handle[h].ctx].told < 3
      /\ \A k \in Contents :
          /\ s.content[k].status = "LOADING" => s.content[k].converting \/ s.ll[s.content[k].ll].told < 3
          /\ s.content[k].type = "image" => ~s.content[k].converting
          /\ s.content[k].type \notin {"image", "css"} => Len(s.content[k].users) <= 1
  BY HLAssumption DEF WaitsOK
<1>5. ASSUME NEW h \in Handles \ {x}, s.handle[h].ctx # NONE
      PROVE  r.ll[s.handle[h].ctx].told < 3
  BY <1>1, <1>2, <1>4, <1>5
<1>6. ASSUME NEW k \in Contents, k # k0, s.content[k].status = "LOADING"
      PROVE  s.content[k].converting \/ r.ll[s.content[k].ll].told < 3
  BY <1>1, <1>3, <1>4, <1>6
<1> QED  BY <1>1, <1>4, <1>5, <1>6 DEF WaitsOK

\* A low-level handle is told something, before anything is made of it.
IsToldWell(s, r, l, n) ==
    /\ Good(r) /\ IsLLTold(s, r, l, n)
    /\ n < 3 => (WaitsOK(s, NONE, NONE) => WaitsOK(r, NONE, NONE))
    /\ \A h \in Handles : s.handle[h].ctx = l => (WaitsOK(s, NONE, NONE) => WaitsOK(r, h, NONE))
    /\ \A k \in Contents : s.content[k].status # "none" /\ s.content[k].ll = l =>
          (WaitsOK(s, NONE, NONE) => WaitsOK(r, NONE, k))
    /\ s.ll[l].owner = "download" => (WaitsOK(s, NONE, NONE) => WaitsOK(r, NONE, NONE))

LEMMA ToldWell ==
    ASSUME NEW s, Good(s), NEW l \in LLs, s.ll[l].owner # "none", NEW n \in 1 .. 3, s.ll[l].told # 3,
           n = 3 => s.object[s.ll[l].object].state = "complete", NEW r, r = [s EXCEPT !.ll[l].told = n]
    PROVE  IsToldWell(s, r, l, n)
<1>1. Core(s, NONE, NONE) /\ ToldOK(s, {}) /\ PrivateOK(s, NONE, NONE) /\ l # NONE
  BY HLAssumption DEF Good
<1>2. Core(r, NONE, NONE) /\ IsLLTold(s, r, l, n)
  BY <1>1, LLToldStep
<1>3. Good(r)
  BY <1>1, <1>2, LLToldGood DEF Good
<1>4. \A h \in Handles : s.handle[h].ctx = l =>
         /\ s.ll[l].owner = "ctx" /\ \A g \in Handles : s.handle[g].ctx = l => g = h
  BY <1>1, HLAssumption DEF Core, OwnersOK, CtxOK
<1>5. \A k \in Contents : s.content[k].status # "none" /\ s.content[k].ll = l =>
         /\ s.ll[l].owner = "content"
         /\ \A j \in Contents : s.content[j].status # "none" /\ s.content[j].ll = l => j = k
  BY <1>1 DEF Core, OwnersOK, EntriesOK
<1>6. n < 3 => (WaitsOK(s, NONE, NONE) => WaitsOK(r, NONE, NONE))
  BY <1>1, <1>2, ToldWaits
<1>7. ASSUME NEW h \in Handles, s.handle[h].ctx = l
      PROVE  WaitsOK(s, NONE, NONE) => WaitsOK(r, h, NONE)
  <2>1. \A k \in Contents : ~(s.content[k].status = "LOADING" /\ s.content[k].ll = l)
    BY <1>4, <1>5, <1>7
  <2>2. \A g \in Handles : s.handle[g].ctx = l => g = h
    BY <1>4, <1>7
  <2> QED  BY <1>1, <1>2, <2>1, <2>2, ToldWaits
<1>8. ASSUME NEW k \in Contents, s.content[k].status # "none", s.content[k].ll = l
      PROVE  WaitsOK(s, NONE, NONE) => WaitsOK(r, NONE, k)
  <2>1. \A g \in Handles : s.handle[g].ctx # l
    BY <1>4, <1>5, <1>8
  <2>2. \A j \in Contents : s.content[j].status = "LOADING" /\ s.content[j].ll = l => j = k
    BY <1>5, <1>8
  <2> QED  BY <1>1, <1>2, <2>1, <2>2, ToldWaits
<1>9. ASSUME s.ll[l].owner = "download"
      PROVE  WaitsOK(s, NONE, NONE) => WaitsOK(r, NONE, NONE)
  <2>1. \A g \in Handles : s.handle[g].ctx # l
    BY <1>4, <1>9
  <2>2. \A j \in Contents : ~(s.content[j].status = "LOADING" /\ s.content[j].ll = l)
    BY <1>5, <1>9
  <2> QED  BY <1>1, <1>2, <2>1, <2>2, ToldWaits
<1> QED  BY <1>2, <1>3, <1>6, <1>7, <1>8, <1>9 DEF IsToldWell

LEMMA OwnerKnown ==
    ASSUME NEW s, Core(s, NONE, NONE), NEW l \in LLs
    PROVE  /\ s.ll[l].owner \in {"none", "ctx", "content", "download"} /\ s.ll[l].told \in 0 .. 3
           /\ s.ll[l].told # 0 => s.ll[l].owner # "none"
<1>1. s.ll[l] \in LLRec
  BY DEF Core, States
<1>2. s.ll[l].owner = "none" => s.ll[l].told = 0
  BY DEF Core, LLsOK, NoLL
<1> QED  BY <1>1, <1>2 DEF LLRec

\* The context of l migrates, once l was told n.
LEMMA MigrateTold ==
    ASSUME NEW s, Good(s), NEW l \in LLs, s.ll[l].owner = "ctx", s.ll[l].told # 3, NEW n \in 1 .. 3,
           n = 3 => s.object[s.ll[l].object].state = "complete", NEW q, q = [s EXCEPT !.ll[l].told = n],
           NEW r \in hlcache_migrate_ctx(q, OwnerOf(s, l))
    PROVE  Fine(s, r)
<1>1. IsToldWell(s, q, l, n)
  BY ToldWell
<1>2. PICK h : h = OwnerOf(s, l)
  OBVIOUS
<1>3. h \in Handles /\ s.handle[h].ctx = l /\ l # NONE
  BY <1>2, OwnerCtx DEF Good
<1>4. Good(q) /\ q.handle[h].ctx = l /\ (WaitsOK(s, NONE, NONE) => WaitsOK(q, h, NONE))
  BY <1>1, <1>3 DEF IsToldWell, IsLLTold
<1>5. Good(r) /\ (WaitsOK(q, h, NONE) => WaitsOK(r, NONE, NONE))
  BY <1>2, <1>3, <1>4, MigrateStep
<1> QED  BY <1>4, <1>5 DEF Fine

LEMMA HeadersStep ==
    ASSUME Good(hl), NEW l \in LLs, HAD_HEADERS(l)
    PROVE  Fine(hl, hl')
<1>1. hl.ll[l].owner = "ctx" /\ hl.ll[l].told # 3 /\ hl.ll[l].owner # "none"
  BY DEF HAD_HEADERS
<1>2. PICK q : q = [hl EXCEPT !.ll[l].told = 1]
  OBVIOUS
<1>3. hl' = q \/ hl' \in hlcache_migrate_ctx(q, OwnerOf(hl, l))
  BY <1>2 DEF HAD_HEADERS, Becomes, Told
<1>4. PICK n \in 1 .. 3 : n = 1
  OBVIOUS
<1>5. q = [hl EXCEPT !.ll[l].told = n] /\ n # 3 /\ n < 3
  BY <1>2, <1>4
<1>6. CASE hl' = q
  <2>1. IsToldWell(hl, hl', l, n)
    BY <1>1, <1>5, <1>6, ToldWell
  <2> QED  BY <1>5, <2>1 DEF IsToldWell, Fine
<1>7. CASE hl' \in hlcache_migrate_ctx(q, OwnerOf(hl, l))
  BY <1>1, <1>5, <1>7, MigrateTold
<1> QED  BY <1>3, <1>6, <1>7

\* The data of a content is refused: it has an error, and its fetch is stopped.
LEMMA RefusedStep ==
    ASSUME NEW s, Good(s), NEW l \in LLs, s.ll[l].owner = "content", s.ll[l].told \in {0, 1},
           NEW k, k = OwnerOf(s, l), NEW p, p = [s EXCEPT !.ll[l].told = 2],
           NEW q \in content_broadcast(p, k, "ERROR"),
           NEW r, r = llcache_handle_abort([q EXCEPT !.content[k].status = "ERROR"], l)
    PROVE  Fine(s, r)
<1>1. k \in Contents /\ s.content[k].ll = l /\ s.content[k].status # "none"
  BY OwnerContent DEF Good
<1>2. IsToldWell(s, p, l, 2)
  <2>1. PICK n \in 1 .. 3 : n = 2
    OBVIOUS
  <2>2. p = [s EXCEPT !.ll[l].told = n] /\ n # 3
    BY <2>1
  <2> QED  BY <2>1, <2>2, ToldWell
<1>3. Good(p) /\ p.content = s.content /\ p.ll[l].told = 2 /\ (WaitsOK(s, NONE, NONE) => WaitsOK(p, NONE, k))
  BY <1>1, <1>2 DEF IsToldWell, IsLLTold
<1>4. Core(p, NONE, NONE) /\ ToldOK(p, {}) /\ PrivateOK(p, NONE, NONE) /\ p.content[k].status # "none"
  BY <1>1, <1>3 DEF Good
<1>5. Core(q, NONE, NONE) /\ Less(p, q)
  <2>1. Announces(p, k, "ERROR")
    BY <1>1, <1>4 DEF Announces, ToldOK
  <2> QED  BY <2>1, BroadcastStep
<1> DEFINE d == [q.content[k] EXCEPT !.status = "ERROR"]
<1>7. q.content[k] \in ContentRec /\ q \in States
  BY <1>1, <1>5 DEF Core, States
<1>8. ~q.content[k].locked /\ ~q.content[k].converting
  <2>1. q.content[k].ll = l /\ q.ll = p.ll
    BY <1>1, <1>3, <1>5 DEF Less
  <2> QED  BY <1>1, <1>3, <1>5, <2>1 DEF Core, ContentsOK
<1>9. /\ d \in ContentRec /\ d.users = q.content[k].users /\ d.ll = q.content[k].ll
      /\ d.type = q.content[k].type /\ d.status = "ERROR" /\ ~d.locked /\ ~d.converting
  BY <1>7, <1>8 DEF ContentRec, Statuses
<1>6. PICK c \in ContentRec :
         /\ c = d /\ c.users = q.content[k].users /\ c.ll = q.content[k].ll
         /\ c.type = q.content[k].type /\ c.status = "ERROR" /\ ~c.locked /\ ~c.converting
  BY <1>9
<1>10. PICK e : e = [q EXCEPT !.content[k] = c]
  OBVIOUS
<1>11. r = llcache_handle_abort(e, l)
  BY <1>6, <1>10
<1>12. /\ Core(e, NONE, NONE) /\ ToldOK(e, {}) /\ e.ll = p.ll
       /\ e.content[k].ll = p.content[k].ll /\ e.content[k].users = <<>>
       /\ e.content[k].status = "ERROR"
       /\ PrivateOK(e, NONE, NONE)
       /\ WaitsOK(p, NONE, k) => WaitsOK(e, NONE, NONE)
  <2> HIDE DEF d
  <2>1. IsErred(p, e, k)
    BY <1>1, <1>4, <1>6, <1>10, ErrorStep
  <2> QED  BY <1>4, <2>1 DEF IsErred
<1>13. Good(e)
  BY <1>12 DEF Good
<1>14. ~Relied(e, NONE, l)
  <2>1. e.content[k].ll = l
    BY <1>1, <1>3, <1>12
  <2>2. \A h \in Handles : e.handle[h].entry # k
    BY <1>1, <1>12 DEF Core, UsersOK, Has
  <2>3. e.content[k].status # "none"
    BY <1>12
  <2> QED  BY <1>1, <1>12, <2>1, <2>2, <2>3, ReliedBy
<1>15. e.ll[l].owner # "none"
  <2>1. p.ll[l].owner = "content"
    BY <1>2 DEF IsToldWell, IsLLTold
  <2> QED  BY <1>12, <2>1
<1>16. Fine(e, r)
  BY <1>11, <1>13, <1>14, <1>15, AbortGood
<1> QED  BY <1>3, <1>12, <1>16 DEF Fine

LEMMA DataStep ==
    ASSUME Good(hl), NEW l \in LLs, HAD_DATA(l)
    PROVE  Fine(hl, hl')
<1>1. hl.ll[l].told = 1 /\ hl.ll[l].owner \in {"ctx", "content", "download"} /\ hl.ll[l].owner # "none"
  BY OwnerKnown DEF HAD_DATA, Good
<1>2. PICK q : q = [hl EXCEPT !.ll[l].told = 2]
  OBVIOUS
<1>3. PICK n \in 1 .. 3 : n = 2
  OBVIOUS
<1>4. q = [hl EXCEPT !.ll[l].told = n] /\ n # 3 /\ n < 3
  BY <1>2, <1>3
<1>5. CASE hl' = q
  <2>1. IsToldWell(hl, hl', l, n)
    BY <1>1, <1>4, <1>5, ToldWell
  <2> QED  BY <1>4, <2>1 DEF IsToldWell, Fine
<1>6. CASE hl.ll[l].owner = "ctx"
  <2>1. hl' \in hlcache_migrate_ctx(q, OwnerOf(hl, l))
    BY <1>2, <1>6 DEF HAD_DATA, Becomes, Told
  <2> QED  BY <1>1, <1>4, <1>6, <2>1, MigrateTold
<1>7. CASE hl.ll[l].owner = "content"
  <2>1. PICK k : k = OwnerOf(hl, l)
    OBVIOUS
  <2>2. \/ hl' = q
        \/ hl' \in {llcache_handle_abort([p EXCEPT !.content[k].status = "ERROR"], l) :
                       p \in content_broadcast(q, k, "ERROR")}
    BY <1>2, <1>7, <2>1 DEF HAD_DATA, Becomes, Told
  <2>3. CASE hl' \in {llcache_handle_abort([p EXCEPT !.content[k].status = "ERROR"], l) :
                         p \in content_broadcast(q, k, "ERROR")}
    <3>1. PICK p \in content_broadcast(q, k, "ERROR") :
             hl' = llcache_handle_abort([p EXCEPT !.content[k].status = "ERROR"], l)
      BY <2>3
    <3>2. hl.ll[l].told \in {0, 1}
      BY <1>1
    <3> QED  BY <1>2, <1>7, <2>1, <3>1, <3>2, RefusedStep
  <2> QED  BY <1>5, <2>2, <2>3
<1>8. CASE hl.ll[l].owner = "download"
  <2>1. hl' = q
    BY <1>2, <1>8 DEF HAD_DATA, Told
  <2> QED  BY <1>5, <2>1
<1> QED  BY <1>1, <1>6, <1>7, <1>8

LEMMA EndStep ==
    ASSUME Good(hl), NEW l \in LLs, DONE(l)
    PROVE  Fine(hl, hl')
<1>1. /\ hl.ll[l].told \in {1, 2} /\ hl.ll[l].owner \in {"ctx", "content", "download"} /\ hl.ll[l].owner # "none"
      /\ hl.ll[l].told # 3 /\ hl.object[hl.ll[l].object].state = "complete"
  BY OwnerKnown DEF DONE, Good
<1>2. PICK q : q = [hl EXCEPT !.ll[l].told = 3]
  OBVIOUS
<1>3. PICK n \in 1 .. 3 : n = 3
  OBVIOUS
<1>4. q = [hl EXCEPT !.ll[l].told = n]
  BY <1>2, <1>3
<1>5. IsToldWell(hl, q, l, n)
  BY <1>1, <1>4, ToldWell
<1>6. CASE hl.ll[l].owner = "ctx"
  <2>1. hl' \in hlcache_migrate_ctx(q, OwnerOf(hl, l))
    BY <1>2, <1>6 DEF DONE, Becomes, Told
  <2> QED  BY <1>1, <1>4, <1>6, <2>1, MigrateTold
<1>7. CASE hl.ll[l].owner = "content"
  <2>1. PICK k : k = OwnerOf(hl, l)
    OBVIOUS
  <2>2. hl' \in content_convert(q, k)
    BY <1>2, <1>7, <2>1 DEF DONE, Becomes, Told
  <2>3. k \in Contents /\ hl.content[k].ll = l /\ hl.content[k].status # "none"
    BY <1>7, <2>1, OwnerContent DEF Good
  <2>4. /\ Good(q) /\ q.content = hl.content /\ q.ll[l].told = 3
        /\ WaitsOK(hl, NONE, NONE) => WaitsOK(q, NONE, k)
    BY <1>3, <1>5, <2>3 DEF IsToldWell, IsLLTold
  <2>5. ~hl.content[k].locked /\ hl.content[k].status \in {"LOADING", "ERROR"}
    <3>1. hl.content[k].status \in Statuses
      BY <2>3 DEF Good, Core, States, ContentRec
    <3> QED  BY <1>1, <2>3, <3>1 DEF Good, Core, ContentsOK, Statuses
  <2>6. ~q.content[k].locked /\ q.content[k].status \in {"LOADING", "ERROR"} /\ q.ll[q.content[k].ll].told = 3
    BY <2>3, <2>4, <2>5
  <2>7. Good(hl') /\ (WaitsOK(q, NONE, k) => WaitsOK(hl', NONE, NONE))
    BY <2>2, <2>3, <2>4, <2>6, ConvertStep
  <2> QED  BY <2>4, <2>7 DEF Fine
<1>8. CASE hl.ll[l].owner = "download"
  <2>1. hl' = q
    BY <1>2, <1>8 DEF DONE, Told
  <2> QED  BY <1>5, <1>8, <2>1 DEF IsToldWell, Fine
<1> QED  BY <1>1, <1>6, <1>7, <1>8


\* From s to r the object o has become x.
IsObject(s, r, o, x) ==
    /\ Core(r, NONE, NONE) /\ r.handle = s.handle /\ r.ll = s.ll /\ r.content = s.content
    /\ r.object[o] = x /\ \A p \in Objects \ {o} : r.object[p] = s.object[p]

LEMMA ObjectStep ==
    ASSUME NEW s, Core(s, NONE, NONE), NEW o \in Objects, NEW x \in ObjectRec, x.state # "none",
           s.object[o].state = "complete" => x.state = "complete", NEW r, r = [s EXCEPT !.object[o] = x]
    PROVE  IsObject(s, r, o, x)
<1>1. s \in States /\ ~s.fault
  BY DEF Core
<1>2. /\ r.handle = s.handle /\ r.ll = s.ll /\ r.content = s.content /\ r.content_list = s.content_list
      /\ r.fault = s.fault /\ r.object = [s.object EXCEPT ![o] = x] /\ r = [s EXCEPT !.object = [s.object EXCEPT ![o] = x]]
  BY <1>1 DEF States
<1>3. r \in States
  <2>1. [s.object EXCEPT ![o] = x] \in [Objects -> ObjectRec]
    BY <1>1 DEF States
  <2> QED  BY <1>1, <1>2, <2>1 DEF States
<1>4. r.object[o] = x /\ \A p \in Objects \ {o} : r.object[p] = s.object[p]
  BY <1>1, <1>2 DEF States
<1>5. HandlesOK(r, NONE) /\ UsersOK(r) /\ OwnersOK(r, NONE, NONE) /\ ContentsOK(r)
  <2>1. OwnersOK(r, NONE, NONE)
    BY <1>1, <1>2, OwnersFrame DEF Core
  <2> QED  BY <1>1, <1>2, <2>1 DEF Core, HandlesOK, UsersOK, ContentsOK
<1>6. LLsOK(r, NONE)
  <2> SUFFICES ASSUME NEW l \in LLs
               PROVE  IF r.ll[l].owner = "none" THEN r.ll[l] = NoLL
                      ELSE /\ r.ll[l].object \in Objects
                           /\ r.object[r.ll[l].object].state # "none"
                           /\ r.ll[l].told = 3 => r.object[r.ll[l].object].state = "complete"
    BY DEF LLsOK
  <2>1. CASE s.ll[l].owner = "none"
    BY <1>1, <1>2, <2>1 DEF Core, LLsOK
  <2>2. CASE s.ll[l].owner # "none"
    <3>1. /\ s.ll[l].object \in Objects /\ s.object[s.ll[l].object].state # "none"
          /\ s.ll[l].told = 3 => s.object[s.ll[l].object].state = "complete"
      BY <1>1, <2>2, Occupied
    <3> QED  BY <1>2, <1>4, <2>2, <3>1
  <2> QED  BY <2>1, <2>2
<1>7. Core(r, NONE, NONE)
  BY <1>1, <1>2, <1>3, <1>5, <1>6 DEF Core
<1> QED  BY <1>2, <1>4, <1>7 DEF IsObject

\* An object becomes x, which is no less than what it was.
LEMMA ObjectSet ==
    ASSUME NEW s, Good(s), NEW o \in Objects, NEW x \in ObjectRec, x.state # "none",
           s.object[o].state = "complete" => x.state = "complete",
           s.object[o].state = "none" \/ x.whole \/ ~s.object[o].whole,
           NEW r, r = [s EXCEPT !.object[o] = x]
    PROVE  Fine(s, r)
<1>1. Core(s, NONE, NONE) /\ ToldOK(s, {}) /\ PrivateOK(s, NONE, NONE)
  BY DEF Good
<1>2. IsObject(s, r, o, x)
  BY <1>1, ObjectStep
<1>3. /\ Core(r, NONE, NONE) /\ r.handle = s.handle /\ r.ll = s.ll /\ r.content = s.content
      /\ r.object[o] = x /\ \A p \in Objects \ {o} : r.object[p] = s.object[p]
  BY <1>2 DEF IsObject
<1>4. ToldOK(r, {}) /\ (WaitsOK(s, NONE, NONE) => WaitsOK(r, NONE, NONE))
  BY <1>1, <1>3 DEF ToldOK, WaitsOK
<1>5. ASSUME NEW l \in LLs, Relied(r, NONE, l)
      PROVE  r.object[r.ll[l].object].whole
  <2>1. Relied(s, NONE, l)
    BY <1>3, <1>5 DEF Relied
  <2>2. s.ll[l].owner # "none"
    BY <1>1, <2>1, ReliedLive
  <2>3. s.ll[l].object \in Objects /\ s.object[s.ll[l].object].state # "none"
    BY <1>1, <2>2, Occupied
  <2>4. s.object[s.ll[l].object].whole
    BY <1>1, <2>1, <2>3, HLAssumption DEF PrivateOK
  <2> QED  BY <1>3, <2>3, <2>4
<1> QED  BY <1>3, <1>4, <1>5 DEF Fine, Good, PrivateOK

LEMMA ArrivesStep ==
    ASSUME Good(hl), NEW o \in Objects, Arrives(o)
    PROVE  Fine(hl, hl')
<1>1. hl.object[o].state = "fetching" /\ hl.object[o] \in ObjectRec /\ hl \in States /\ Types \subseteq KnownTypes
  BY ZenonT(60), HLAssumption DEF Good, Core, States, Arrives, KnownTypes
<1>2. PICK x \in ObjectRec : x.whole = hl.object[o].whole /\ x.state # "none" /\ hl' = [hl EXCEPT !.object[o] = x]
  <2>1. PICK z \in ObjectRec : z = hl.object[o]
    BY <1>1
  <2>2. CASE \E t \in Types : hl' = [hl EXCEPT !.object[o].got = 1, !.object[o].type = t]
    <3>1. PICK t \in Types : hl' = [hl EXCEPT !.object[o].got = 1, !.object[o].type = t]
      BY Zenon, <2>2
    <3>2. \A n \in 0 .. 2, u \in KnownTypes :
             /\ [z EXCEPT !.got = n, !.type = u] \in ObjectRec
             /\ [z EXCEPT !.got = n, !.type = u].whole = z.whole
             /\ [z EXCEPT !.got = n, !.type = u].state = z.state
      BY DEF ObjectRec
    <3>3. 1 \in 0 .. 2 /\ t \in KnownTypes
      BY <1>1
    <3>4. hl' = [hl EXCEPT !.object[o] = [z EXCEPT !.got = 1, !.type = t]]
      BY <1>1, <2>1, <3>1 DEF States
    <3> QED  BY Zenon, <1>1, <2>1, <3>2, <3>3, <3>4
  <2>3. CASE hl' = [hl EXCEPT !.object[o].got = 2]
    <3>1. \A n \in 0 .. 2 :
             /\ [z EXCEPT !.got = n] \in ObjectRec
             /\ [z EXCEPT !.got = n].whole = z.whole /\ [z EXCEPT !.got = n].state = z.state
      BY DEF ObjectRec
    <3>2. hl' = [hl EXCEPT !.object[o] = [z EXCEPT !.got = 2]] /\ 2 \in 0 .. 2
      BY <2>1, <2>3
    <3> QED  BY <1>1, <2>1, <3>1, <3>2
  <2>4. CASE hl' = [hl EXCEPT !.object[o].state = "complete"]
    <3>1. /\ [z EXCEPT !.state = "complete"] \in ObjectRec
          /\ [z EXCEPT !.state = "complete"].whole = z.whole /\ [z EXCEPT !.state = "complete"].state = "complete"
      BY DEF ObjectRec
    <3>2. hl' = [hl EXCEPT !.object[o] = [z EXCEPT !.state = "complete"]]
      BY <2>1, <2>4
    <3> QED  BY <2>1, <3>1, <3>2
  <2> QED  BY Zenon, <2>2, <2>3, <2>4 DEF Arrives
<1> QED  BY <1>1, <1>2, ObjectSet

LEMMA CachedOnes ==
    ASSUME NEW x \in Cached \cup {Fetching}
    PROVE  x \in ObjectRec /\ x.state # "none" /\ x.whole
<1>1. NoObject \in ObjectRec /\ NoObject.whole = TRUE
  BY DEF NoObject, ObjectRec, KnownTypes
<1>2. PICK z \in ObjectRec : z = NoObject
  BY <1>1
<1>3. z.whole
  BY <1>1, <1>2
<1>4. CASE x \in Cached
  <2>1. x \in [state : {"complete"}, got : {1, 2}, whole : {TRUE}, type : Types]
    BY <1>4 DEF Cached
  <2>2. x.state = "complete" /\ x.whole
    BY <2>1
  <2>3. Types \subseteq KnownTypes /\ {1, 2} \subseteq 0 .. 2
    BY HLAssumption DEF KnownTypes
  <2>4. x \in ObjectRec
    BY Zenon, <2>1, <2>3 DEF ObjectRec
  <2> QED  BY <2>2, <2>4
<1>5. CASE x = Fetching
  <2>1. x = [z EXCEPT !.state = "fetching"]
    BY <1>2, <1>5 DEF Fetching
  <2> QED  BY <1>3, <2>1 DEF ObjectRec
<1> QED  BY <1>4, <1>5


\* The handles of an object that is not modified move to the one of the cache.
LEMMA MovedStep ==
    ASSUME NEW s, Good(s), NEW o \in Objects, s.object[o].state = "fetching", NEW p \in Objects, p # o,
           s.object[p].state # "none", s.object[p].whole,
           NEW r, r = [s EXCEPT !.object[o] = NoObject,
                                !.ll = [l \in LLs |-> IF l \in On(s, o) THEN [@[l] EXCEPT !.object = p] ELSE @[l]]]
    PROVE  Fine(s, r)
<1> DEFINE v == [l \in LLs |-> IF l \in On(s, o) THEN [s.ll[l] EXCEPT !.object = p] ELSE s.ll[l]]
           w == [s.object EXCEPT ![o] = NoObject]
<1>1. Core(s, NONE, NONE) /\ ToldOK(s, {}) /\ PrivateOK(s, NONE, NONE) /\ s \in States /\ ~s.fault
  BY DEF Good, Core
<1>2. r = [s EXCEPT !.object = w, !.ll = v]
  BY <1>1 DEF States
<1>3. v \in [LLs -> LLRec]
  <2>1. \A z \in LLRec : [z EXCEPT !.object = p] \in LLRec
    BY DEF LLRec
  <2>2. \A l \in LLs : s.ll[l] \in LLRec
    BY <1>1 DEF States
  <2> QED  BY <2>1, <2>2
<1>4. w \in [Objects -> ObjectRec]
  <2>1. NoObject \in ObjectRec
    BY DEF NoObject, ObjectRec, KnownTypes
  <2> QED  BY <1>1, <2>1 DEF States
<1>5. \A l \in LLs : /\ v[l].owner = s.ll[l].owner /\ v[l].told = s.ll[l].told
                     /\ l \in On(s, o) => v[l].object = p
                     /\ l \notin On(s, o) => v[l] = s.ll[l]
  <2>1. \A z \in LLRec : /\ [z EXCEPT !.object = p].owner = z.owner
                         /\ [z EXCEPT !.object = p].told = z.told /\ [z EXCEPT !.object = p].object = p
    BY DEF LLRec
  <2>2. \A l \in LLs : s.ll[l] \in LLRec
    BY <1>1 DEF States
  <2> QED  BY <2>1, <2>2
<1>6. \A q \in Objects \ {o} : w[q] = s.object[q]
  BY <1>1 DEF States
<1> HIDE DEF v, w
<1>7. /\ r.handle = s.handle /\ r.ll = v /\ r.content = s.content /\ r.content_list = s.content_list
      /\ r.fault = s.fault /\ r.object = w /\ r \in States
  BY Zenon, <1>1, <1>2, <1>3, <1>4 DEF States
<1>8. HandlesOK(r, NONE) /\ UsersOK(r) /\ OwnersOK(r, NONE, NONE)
  <2>1. OwnersOK(r, NONE, NONE)
    BY Zenon, <1>1, <1>5, <1>7, OwnersFrame DEF Core
  <2> QED  BY <1>1, <1>7, <2>1 DEF Core, HandlesOK, UsersOK
<1>9. ContentsOK(r)
  <2>1. \A k \in Contents : s.content[k].status # "none" => s.content[k].ll \in LLs
    BY <1>1 DEF Core, OwnersOK, EntriesOK
  <2>2. \A k \in Contents : s.content[k].status # "none" => v[s.content[k].ll].told = s.ll[s.content[k].ll].told
    BY <1>5, <2>1
  <2> QED  BY <1>1, <1>7, <2>2 DEF Core, ContentsOK
<1>10. ASSUME NEW l \in LLs, s.ll[l].owner # "none"
       PROVE  /\ v[l].object \in Objects /\ w[v[l].object].state # "none"
              /\ v[l].told = 3 => w[v[l].object].state = "complete"
              /\ s.object[s.ll[l].object].whole => w[v[l].object].whole
  <2>1. /\ s.ll[l].object \in Objects /\ s.object[s.ll[l].object].state # "none"
        /\ s.ll[l].told = 3 => s.object[s.ll[l].object].state = "complete"
    BY <1>1, <1>10, Occupied
  <2>2. CASE s.ll[l].object = o
    <3>1. l \in On(s, o) /\ s.ll[l].told # 3
      BY <1>10, <2>1, <2>2 DEF On
    <3> QED  BY <1>5, <1>6, <3>1
  <2>3. CASE s.ll[l].object # o
    <3>1. l \notin On(s, o)
      BY <2>3 DEF On
    <3> QED  BY <1>5, <1>6, <2>1, <2>3, <3>1
  <2> QED  BY <2>2, <2>3
<1>11. LLsOK(r, NONE)
  <2>1. ASSUME NEW l \in LLs, s.ll[l].owner = "none"
        PROVE  v[l] = NoLL
    <3>1. l \notin On(s, o)
      BY <2>1 DEF On
    <3> QED  BY <1>1, <1>5, <2>1, <3>1 DEF Core, LLsOK
  <2>2. ASSUME NEW l \in LLs
        PROVE  IF r.ll[l].owner = "none" THEN r.ll[l] = NoLL
               ELSE /\ r.ll[l].object \in Objects
                    /\ r.object[r.ll[l].object].state # "none"
                    /\ r.ll[l].told = 3 => r.object[r.ll[l].object].state = "complete"
    <3>1. r.ll[l].owner = s.ll[l].owner
      BY <1>5, <1>7
    <3> QED  BY <1>7, <1>10, <2>1, <3>1
  <2> QED  BY <2>2 DEF LLsOK
<1>12. Core(r, NONE, NONE)
  BY <1>1, <1>7, <1>8, <1>9, <1>11 DEF Core
<1>13. ToldOK(r, {})
  BY Zenon, <1>1, <1>7 DEF ToldOK
<1>14. WaitsOK(s, NONE, NONE) => WaitsOK(r, NONE, NONE)
  <2>1. \A k \in Contents : s.content[k].status = "LOADING" => s.content[k].ll \in LLs
    BY <1>1 DEF Core, OwnersOK, EntriesOK
  <2>2. \A h \in Handles : s.handle[h].ctx \in LLs \cup {NONE}
    BY <1>1 DEF States, HandleRec
  <2> QED  BY <1>5, <1>7, <2>1, <2>2 DEF WaitsOK
<1>15. ASSUME NEW l \in LLs, Relied(r, NONE, l)
       PROVE  r.object[r.ll[l].object].whole
  <2>1. Relied(s, NONE, l)
    BY <1>7, <1>15 DEF Relied
  <2>2. s.ll[l].owner # "none"
    BY <1>1, <2>1, ReliedLive
  <2>3. s.ll[l].object \in Objects
    BY <1>1, <2>2, Occupied
  <2>4. s.object[s.ll[l].object].whole
    BY SMTT(30), <1>1, <2>1, <2>3, HLAssumption DEF PrivateOK
  <2> QED  BY Zenon, <1>7, <1>10, <2>2, <2>4
<1> QED  BY Zenon, <1>12, <1>13, <1>14, <1>15 DEF Fine, Good, PrivateOK

LEMMA NotModifiedStep ==
    ASSUME Good(hl), NEW o \in Objects, NotModified(o)
    PROVE  Fine(hl, hl')
<1>1. hl.object[o].state = "fetching" /\ hl.object[o].got = 0
  BY Zenon DEF NotModified
<1>2. CASE \E c \in Cached : hl' = [hl EXCEPT !.object[o] = c]
  <2>1. PICK c \in Cached : hl' = [hl EXCEPT !.object[o] = c]
    BY <1>2
  <2>2. PICK x \in ObjectRec : x = c /\ x.state # "none" /\ x.whole
    BY CachedOnes
  <2>3. hl' = [hl EXCEPT !.object[o] = x]
    BY <2>1, <2>2
  <2> QED  BY <1>1, <2>2, <2>3, ObjectSet
<1>3. CASE \E p \in Objects :
            /\ hl.object[p].state # "none" /\ hl.object[p].got > 0 /\ hl.object[p].whole
            /\ hl' = [hl EXCEPT !.object[o] = NoObject,
                                !.ll = [l \in LLs |-> IF l \in On(hl, o)
                                                      THEN [@[l] EXCEPT !.object = p] ELSE @[l]]]
  <2>1. PICK p \in Objects :
            /\ hl.object[p].state # "none" /\ hl.object[p].got > 0 /\ hl.object[p].whole
            /\ hl' = [hl EXCEPT !.object[o] = NoObject,
                                !.ll = [l \in LLs |-> IF l \in On(hl, o)
                                                      THEN [@[l] EXCEPT !.object = p] ELSE @[l]]]
    BY Zenon, <1>3
  <2>2. p # o
    BY <1>1, <2>1
  <2> QED  BY ZenonT(60), <1>1, <2>1, <2>2, MovedStep
<1> QED  BY Zenon, <1>2, <1>3 DEF NotModified

\* A low-level handle of a download belongs to no context and no content.
LEMMA Unbound ==
    ASSUME NEW s, Core(s, NONE, NONE), NEW l \in LLs, s.ll[l].owner = "download"
    PROVE  Core(s, NONE, l)
<1>1. CtxOK(s, NONE, l) /\ EntriesOK(s, l) /\ OwnedOK(s, NONE, l)
  <2>1. CtxOK(s, NONE, l)
    BY DEF Core, OwnersOK, CtxOK
  <2>2. EntriesOK(s, l)
    BY DEF Core, OwnersOK, EntriesOK
  <2>3. OwnedOK(s, NONE, l)
    BY HLAssumption DEF Core, OwnersOK, OwnedOK
  <2> QED  BY <2>1, <2>2, <2>3
<1>2. LLsOK(s, l)
  BY DEF Core, LLsOK
<1> QED  BY <1>1, <1>2 DEF Core, OwnersOK

LEMMA DownloadEndsStep ==
    ASSUME Good(hl), NEW l \in LLs, DownloadEnds(l)
    PROVE  Fine(hl, hl')
<1>1. Core(hl, NONE, NONE) /\ ToldOK(hl, {}) /\ PrivateOK(hl, NONE, NONE) /\ hl.ll[l].owner = "download"
  BY DEF Good, DownloadEnds
<1>2. Core(hl, NONE, l)
  BY <1>1, Unbound
<1>3. PICK q : q = IF hl.ll[l].told = 3 THEN hl ELSE llcache_handle_abort(hl, l)
  OBVIOUS
<1>4. Core(q, NONE, l) /\ Apart(hl, q, l) /\ q.ll[l].told = hl.ll[l].told
  <2>1. CASE hl.ll[l].told = 3
    BY <1>2, <1>3, <2>1 DEF Apart
  <2>2. CASE hl.ll[l].told # 3
    <3>1. q = llcache_handle_abort(hl, l) /\ hl.ll[l].owner # "none"
      BY <1>1, <1>3, <2>2
    <3>2. Core(q, NONE, l) /\ IsAborted(hl, q, l)
      BY <1>2, <3>1, LLAbortStep
    <3> QED  BY <3>2 DEF IsAborted, Apart
  <2> QED  BY <2>1, <2>2
<1>5. ~Relied(hl, NONE, l) /\ ~Relied(q, NONE, l)
  BY <1>2, <1>4, ReliedLive
<1>6. ToldOK(q, {}) /\ PrivateOK(q, NONE, NONE) /\ (WaitsOK(hl, NONE, NONE) => WaitsOK(q, NONE, NONE))
  BY <1>1, <1>2, <1>4, <1>5, ApartGood
<1>7. hl' = llcache_handle_release(q, l)
  BY <1>3 DEF DownloadEnds
<1>8. Core(hl', NONE, NONE) /\ Apart(q, hl', l)
  BY <1>4, <1>7, LLReleaseStep
<1>9. ToldOK(hl', {}) /\ PrivateOK(hl', NONE, NONE) /\ (WaitsOK(q, NONE, NONE) => WaitsOK(hl', NONE, NONE))
  BY <1>4, <1>5, <1>6, <1>8, ApartGood
<1> QED  BY <1>6, <1>8, <1>9 DEF Fine, Good

-----------------------------------------------------------------------------
(* What a content does in its own time *)

LEMMA ContentReadyStep ==
    ASSUME Good(hl), NEW k \in Contents, ContentReady(k)
    PROVE  Fine(hl, hl')
<1>1. hl.content[k].locked
  BY DEF ContentReady, Good, Core, ContentsOK
<1>2. hl' \in ReadyAndDone(hl, k) \/ hl' \in content_set_ready(hl, k)
  BY DEF ContentReady, Becomes
<1>3. Good(hl') /\ (WaitsOK(hl, NONE, k) => WaitsOK(hl', NONE, NONE))
  BY <1>1, <1>2, ReadyStep, ReadyAndDoneStep
<1> QED  BY <1>3, WaitsExcused DEF Fine

LEMMA ContentDoneStep ==
    ASSUME Good(hl), NEW k \in Contents, ContentDone(k)
    PROVE  Fine(hl, hl')
<1>1. hl.content[k].status = "READY" /\ hl' \in content_set_done(hl, k)
  BY DEF ContentDone, Becomes
<1>2. Good(hl') /\ (WaitsOK(hl, NONE, k) => WaitsOK(hl', NONE, NONE))
  BY <1>1, DoneStep
<1> QED  BY <1>2, WaitsExcused DEF Fine

LEMMA ContentFailsStep ==
    ASSUME Good(hl), NEW k \in Contents, ContentFails(k)
    PROVE  Fine(hl, hl')
<1>1. hl.content[k].status = "LOADING" /\ hl' \in Failed(hl, k)
  BY DEF ContentFails, Becomes, Good, Core, ContentsOK
<1>2. Good(hl') /\ (WaitsOK(hl, NONE, k) => WaitsOK(hl', NONE, NONE))
  <2>1. hl.content[k].status # "none"
    BY <1>1
  <2> QED  BY <1>1, <2>1, FailedStep
<1> QED  BY <1>2, WaitsExcused DEF Fine

-----------------------------------------------------------------------------
(* Clients *)

LEMMA ReleaseGood ==
    ASSUME NEW s, Good(s), NEW h \in Handles, NEW r, r = Released(s, h, FALSE)
    PROVE  Fine(s, r)
<1>1. Core(s, NONE, NONE) /\ ToldOK(s, {}) /\ PrivateOK(s, NONE, NONE) /\ s \in States
  BY DEF Good, Core
<1>2. PICK k : k = s.handle[h].entry
  OBVIOUS
<1>3. CASE k = NONE
  <2>1. Core(r, NONE, NONE) /\ Keeps(s, h, r, NONE)
    BY <1>1, <1>2, <1>3, NascentStep
  <2>2. Keeps(s, NONE, r, NONE)
    BY <2>1, KeepsLess, KeepsTrans
  <2> QED  BY <1>1, <2>1, <2>2 DEF Keeps, Fine, Good
<1>4. CASE k # NONE
  <2>1. PICK t \in BOOLEAN : r = Released(s, h, t)
    OBVIOUS
  <2>2. h # NONE /\ k # NONE
    BY <1>4, HLAssumption
  <2>3. Core(r, NONE, NONE) /\ Less(s, r) /\ IsReleased(s, r, h, k)
    <3>0. PICK z : z = r
      OBVIOUS
    <3>1. PICK g \in Handles : g = h /\ z = r
      BY <3>0
    <3>2. g # NONE /\ k = s.handle[g].entry /\ z = Released(s, g, t)
      BY <1>2, <2>1, <2>2, <3>1
    <3>3. Core(z, NONE, NONE) /\ Less(s, z) /\ IsReleased(s, z, g, k)
      BY <1>1, <2>2, <3>2, ReleaseLess
    <3> QED  BY <3>1, <3>3
  <2>4. r \in States
    BY <2>3 DEF Core
  <2>5. PrivateOK(r, NONE, NONE) /\ (WaitsOK(s, NONE, NONE) => WaitsOK(r, NONE, NONE))
    BY <1>1, <2>3, <2>4, LessPrivate, LessWaits
  <2>6. ToldOK(r, {})
    <3>1. r.handle[h].entry = NONE /\ \A g \in Handles \ {h} : r.handle[g] = s.handle[g]
      <4>1. NoHandle.entry = NONE
        BY DEF NoHandle
      <4> QED  BY <2>3, <4>1 DEF IsReleased
    <3>2. \A j \in Contents : r.content[j].status = s.content[j].status
      BY <2>3 DEF Less
    <3>3. \A g \in Handles : s.handle[g].entry \in Contents \cup {NONE}
      BY <1>1 DEF States, HandleRec
    <3> QED  BY ZenonT(60), <1>1, <3>1, <3>2, <3>3 DEF ToldOK
  <2> QED  BY <2>3, <2>5, <2>6 DEF Fine, Good
<1> QED  BY <1>3, <1>4


\* A handle is retrieved: it has a context, on an object of the low-level cache.
Started(s, h, l, o) ==
    [s EXCEPT !.ll[l] = [owner |-> "ctx", object |-> o, told |-> 0],
              !.handle[h] = [NoHandle EXCEPT !.used = TRUE, !.ctx = l]]

LEMMA StartStep ==
    ASSUME NEW s, Good(s), NEW h \in Handles, ~s.handle[h].used, NEW l \in LLs, s.ll[l].owner = "none",
           NEW o \in Objects, s.object[o].state # "none", s.object[o].whole, NEW r, r = Started(s, h, l, o)
    PROVE  Fine(s, r)
<1> DEFINE v == [owner |-> "ctx", object |-> o, told |-> 0]
           g == [NoHandle EXCEPT !.used = TRUE, !.ctx = l]
<1>1. Core(s, NONE, NONE) /\ ToldOK(s, {}) /\ PrivateOK(s, NONE, NONE) /\ s \in States /\ ~s.fault /\ l # NONE
  BY HLAssumption DEF Good, Core
<1>2. v \in LLRec /\ v.owner = "ctx" /\ v.object = o /\ v.told = 0
  BY DEF LLRec
<1>3. g \in HandleRec /\ g.used /\ g.entry = NONE /\ g.ctx = l /\ g.told = "none" /\ ~g.aborted
  <2>1. PICK z \in HandleRec : z = NoHandle /\ z.entry = NONE /\ z.told = "none" /\ ~z.aborted
    <3>1. NoHandle \in HandleRec /\ NoHandle.entry = NONE /\ NoHandle.told = "none" /\ ~NoHandle.aborted
      BY DEF NoHandle, HandleRec
    <3> QED  BY <3>1
  <2>2. /\ [z EXCEPT !.used = TRUE, !.ctx = l] \in HandleRec
        /\ [z EXCEPT !.used = TRUE, !.ctx = l].used /\ [z EXCEPT !.used = TRUE, !.ctx = l].ctx = l
        /\ [z EXCEPT !.used = TRUE, !.ctx = l].entry = z.entry
        /\ [z EXCEPT !.used = TRUE, !.ctx = l].told = z.told
        /\ [z EXCEPT !.used = TRUE, !.ctx = l].aborted = z.aborted
    BY DEF HandleRec
  <2> QED  BY <2>1, <2>2
<1> HIDE DEF v, g
<1>4. r = [s EXCEPT !.ll[l] = v, !.handle[h] = g]
  BY DEF Started, v, g
<1>5. /\ r.handle = [s.handle EXCEPT ![h] = g] /\ r.ll = [s.ll EXCEPT ![l] = v] /\ r.content = s.content
      /\ r.content_list = s.content_list /\ r.fault = s.fault /\ r.object = s.object
      /\ r = [s EXCEPT !.ll = [s.ll EXCEPT ![l] = v], !.handle = [s.handle EXCEPT ![h] = g]]
  BY <1>1, <1>4 DEF States
<1>6. r \in States
  <2>1. [s.ll EXCEPT ![l] = v] \in [LLs -> LLRec] /\ [s.handle EXCEPT ![h] = g] \in [Handles -> HandleRec]
    BY <1>1, <1>2, <1>3 DEF States
  <2> QED  BY <1>1, <1>5, <2>1 DEF States
<1>7. r.ll[l] = v /\ \A j \in LLs \ {l} : r.ll[j] = s.ll[j]
  BY <1>1, <1>5 DEF States
<1>8. r.handle[h] = g /\ \A f \in Handles \ {h} : r.handle[f] = s.handle[f]
  BY <1>1, <1>5 DEF States
<1>9. s.handle[h].entry = NONE /\ s.handle[h].ctx = NONE
  BY <1>1, HLAssumption DEF Core, HandlesOK
<1>10. \A f \in Handles : /\ s.handle[f].ctx # l /\ s.handle[f].ctx \in LLs \cup {NONE}
                          /\ s.handle[f].entry \in Contents \cup {NONE}
  <2>1. \A f \in Handles \ {NONE} : s.handle[f].ctx # l
    BY <1>1 DEF Core, OwnersOK, CtxOK
  <2> QED  BY <1>1, <2>1, HLAssumption DEF States, HandleRec
<1>11. \A k \in Contents : s.content[k].status # "none" => s.content[k].ll \in LLs /\ s.content[k].ll # l
  BY <1>1 DEF Core, OwnersOK, EntriesOK
<1>12. HandlesOK(r, NONE)
  BY <1>1, <1>3, <1>8 DEF Core, HandlesOK
<1>13. UsersOK(r)
  BY <1>1, <1>3, <1>5, <1>8, <1>9 DEF Core, UsersOK
<1>14. CtxOK(r, NONE, NONE)
  <2>1. \A f \in Handles : r.handle[f].ctx = IF f = h THEN l ELSE s.handle[f].ctx
    BY <1>3, <1>8
  <2>2. \A f \in Handles : s.handle[f].ctx # NONE =>
           s.ll[s.handle[f].ctx].owner = "ctx" /\ \A e \in Handles : s.handle[e].ctx = s.handle[f].ctx => e = f
    BY <1>1, HLAssumption DEF Core, OwnersOK, CtxOK
  <2>3. r.ll[l].owner = "ctx"
    BY <1>2, <1>7
  <2>4. ASSUME NEW f \in Handles, r.handle[f].ctx # NONE
        PROVE  r.ll[r.handle[f].ctx].owner = "ctx"
    BY <1>7, <1>10, <2>1, <2>2, <2>3, <2>4
  <2>5. ASSUME NEW f \in Handles, NEW e \in Handles, r.handle[f].ctx # NONE, r.handle[e].ctx = r.handle[f].ctx
        PROVE  e = f
    BY <1>10, <2>1, <2>2, <2>5
  <2> QED  BY <2>4, <2>5 DEF CtxOK
<1>15. EntriesOK(r, NONE)
  BY <1>1, <1>5, <1>7, <1>11 DEF Core, OwnersOK, EntriesOK
<1>16. OwnedOK(r, NONE, NONE)
  <2> SUFFICES ASSUME NEW j \in LLs
               PROVE  /\ r.ll[j].owner = "ctx" => \E f \in Handles \ {NONE} : r.handle[f].ctx = j
                      /\ r.ll[j].owner = "content" =>
                            \E k \in Contents : r.content[k].status # "none" /\ r.content[k].ll = j
    BY DEF OwnedOK
  <2>1. CASE j = l
    BY <1>2, <1>3, <1>7, <1>8, <2>1, HLAssumption
  <2>2. CASE j # l
    <3>1. /\ s.ll[j].owner = "ctx" => \E f \in Handles \ {NONE} : s.handle[f].ctx = j
          /\ s.ll[j].owner = "content" =>
                \E k \in Contents : s.content[k].status # "none" /\ s.content[k].ll = j
      BY <1>1, HLAssumption DEF Core, OwnersOK, OwnedOK
    <3>2. \A f \in Handles : s.handle[f].ctx = j => f # h
      BY <1>9, HLAssumption
    <3> QED  BY <1>5, <1>7, <1>8, <2>2, <3>1, <3>2
  <2> QED  BY <2>1, <2>2
<1>17. LLsOK(r, NONE)
  <2> SUFFICES ASSUME NEW j \in LLs
               PROVE  IF r.ll[j].owner = "none" THEN r.ll[j] = NoLL
                      ELSE /\ r.ll[j].object \in Objects
                           /\ r.object[r.ll[j].object].state # "none"
                           /\ r.ll[j].told = 3 => r.object[r.ll[j].object].state = "complete"
    BY DEF LLsOK
  <2>1. CASE j = l
    BY <1>2, <1>5, <1>7, <2>1
  <2>2. CASE j # l
    BY <1>1, <1>5, <1>7, <2>2 DEF Core, LLsOK
  <2> QED  BY <2>1, <2>2
<1>18. ContentsOK(r)
  BY <1>1, <1>5, <1>7, <1>11 DEF Core, ContentsOK
<1>19. Core(r, NONE, NONE)
  BY <1>1, <1>5, <1>6, <1>12, <1>13, <1>14, <1>15, <1>16, <1>17, <1>18 DEF Core, OwnersOK
<1>20. ToldOK(r, {})
  BY <1>1, <1>3, <1>5, <1>8 DEF ToldOK
<1>21. ASSUME WaitsOK(s, NONE, NONE)
       PROVE  WaitsOK(r, NONE, NONE)
  <2>1. \A f \in Handles : r.handle[f].ctx # NONE => r.ll[r.handle[f].ctx].told < 3
    <3>1. r.ll[l].told < 3 /\ r.handle[h].ctx = l
      BY <1>2, <1>3, <1>7, <1>8
    <3>2. \A f \in Handles \ {h} : s.handle[f].ctx # NONE => s.ll[s.handle[f].ctx].told < 3
      BY <1>21, HLAssumption DEF WaitsOK
    <3> QED  BY <1>7, <1>8, <1>10, <3>1, <3>2
  <2>2. \A k \in Contents : s.content[k].status = "LOADING" => r.ll[s.content[k].ll] = s.ll[s.content[k].ll]
    BY <1>7, <1>11
  <2> QED  BY <1>5, <1>21, <2>1, <2>2 DEF WaitsOK
<1>22. ASSUME NEW j \in LLs, Relied(r, NONE, j)
       PROVE  r.object[r.ll[j].object].whole
  <2>1. CASE j = l
    BY <1>2, <1>5, <1>7, <2>1
  <2>2. CASE j # l
    <3>1. Relied(s, NONE, j)
      BY <1>3, <1>5, <1>8, <1>22, <2>2 DEF Relied
    <3>2. s.ll[j].object # NONE
      BY <1>1, <3>1, ReliedLive, Occupied, HLAssumption
    <3>3. s.object[s.ll[j].object].whole
      BY <1>1, <3>1, <3>2 DEF PrivateOK
    <3> QED  BY Zenon, <1>5, <1>7, <2>2, <3>3
  <2> QED  BY <2>1, <2>2
<1> QED  BY <1>19, <1>20, <1>21, <1>22 DEF Fine, Good, PrivateOK

LEMMA RetrieveStep ==
    ASSUME Good(hl), NEW h \in Handles, hlcache_handle_retrieve(h)
    PROVE  Fine(hl, hl')
<1>1. PICK l : l = Some(FreeLLs(hl))
  OBVIOUS
<1>2. PICK p : p = Some(FreeObjects(hl))
  OBVIOUS
<1>3. ~hl.handle[h].used /\ l # NONE
  BY Zenon, <1>1 DEF hlcache_handle_retrieve
<1>4. \/ \E o \in Objects : /\ hl.object[o].state # "none" /\ hl.object[o].whole
                            /\ hl' = Started(hl, h, l, o)
      \/ /\ p # NONE
         /\ \E x \in Cached \cup {Fetching} : hl' = Started([hl EXCEPT !.object[p] = x], h, l, p)
  BY Zenon, <1>1, <1>2 DEF hlcache_handle_retrieve, Started
<1>5. l \in LLs /\ hl.ll[l].owner = "none"
  BY <1>1, <1>3 DEF Some, FreeLLs
<1>6. CASE \E o \in Objects : /\ hl.object[o].state # "none" /\ hl.object[o].whole
                              /\ hl' = Started(hl, h, l, o)
  BY <1>3, <1>5, <1>6, StartStep
<1>7. CASE p # NONE /\ \E x \in Cached \cup {Fetching} : hl' = Started([hl EXCEPT !.object[p] = x], h, l, p)
  <2>1. PICK x \in Cached \cup {Fetching} : hl' = Started([hl EXCEPT !.object[p] = x], h, l, p)
    BY <1>7
  <2>2. p \in Objects /\ hl.object[p].state = "none"
    BY <1>2, <1>7 DEF Some, FreeObjects
  <2>3. x \in ObjectRec /\ x.state # "none" /\ x.whole
    BY CachedOnes
  <2>4. PICK q : q = [hl EXCEPT !.object[p] = x]
    OBVIOUS
  <2>5. Fine(hl, q)
    BY <2>2, <2>3, <2>4, ObjectSet
  <2>6. q.handle = hl.handle /\ q.ll = hl.ll /\ q.object[p] = x
    BY <2>2, <2>4 DEF Good, Core, States
  <2>7. ~q.handle[h].used /\ q.ll[l].owner = "none" /\ q.object[p].state # "none" /\ q.object[p].whole
    BY <1>3, <1>5, <2>3, <2>6
  <2>8. hl' = Started(q, h, l, p) /\ Good(q)
    BY <2>1, <2>4, <2>5 DEF Fine
  <2>9. Fine(q, hl')
    BY <1>5, <2>2, <2>7, <2>8, StartStep
  <2> QED  BY <2>5, <2>9 DEF Fine
<1> QED  BY <1>4, <1>6, <1>7


-----------------------------------------------------------------------------
(* Cleaning *)

\* A content that nobody uses is forgotten; its low-level handle is still there.
IsForgotten(s, r, k) ==
    /\ Core(r, NONE, s.content[k].ll) /\ ToldOK(r, {}) /\ PrivateOK(r, NONE, NONE)
    /\ WaitsOK(s, NONE, NONE) => WaitsOK(r, NONE, NONE)

LEMMA ForgetStep ==
    ASSUME NEW s, Good(s), NEW k \in Contents, Unused(s.content[k]), NEW r,
           r = [s EXCEPT !.content[k] = NoContent]
    PROVE  IsForgotten(s, r, k)
<1>1. Core(s, NONE, NONE) /\ ToldOK(s, {}) /\ PrivateOK(s, NONE, NONE) /\ s \in States /\ ~s.fault
  BY DEF Good, Core
<1>2. s.content[k].status # "none" /\ s.content[k].users = <<>>
  BY DEF Unused
<1>3. PICK l \in LLs : l = s.content[k].ll
  BY <1>1, <1>2 DEF Core, OwnersOK, EntriesOK
<1>4. s.ll[l].owner = "content" /\ l # NONE
  BY <1>1, <1>2, <1>3, HLAssumption DEF Core, OwnersOK, EntriesOK
<1>5. \A j \in Contents \ {k} : s.content[j].status # "none" => s.content[j].ll # l /\ s.content[j].ll \in LLs
  BY <1>1, <1>2, <1>3 DEF Core, OwnersOK, EntriesOK
<1>6. \A h \in Handles : s.handle[h].entry # k
  BY <1>1, <1>2 DEF Core, UsersOK, Has
<1>7. PICK c \in ContentRec : /\ c = NoContent /\ c.status = "none" /\ c.users = <<>> /\ ~c.locked
                              /\ ~c.converting /\ c.type = "unknown"
  <2>1. /\ NoContent \in ContentRec /\ NoContent.status = "none" /\ NoContent.users = <<>>
        /\ ~NoContent.locked /\ ~NoContent.converting /\ NoContent.type = "unknown"
    BY DEF NoContent, ContentRec, Statuses, KnownTypes
  <2> QED  BY <2>1
<1>8. /\ r.handle = s.handle /\ r.ll = s.ll /\ r.object = s.object /\ r.content_list = s.content_list
      /\ r.fault = s.fault /\ r.content = [s.content EXCEPT ![k] = c]
      /\ r = [s EXCEPT !.content = [s.content EXCEPT ![k] = c]]
  BY <1>1, <1>7 DEF States
<1>9. r \in States
  <2>1. [s.content EXCEPT ![k] = c] \in [Contents -> ContentRec]
    BY <1>1 DEF States
  <2> QED  BY <1>1, <1>8, <2>1 DEF States
<1>10. r.content[k] = c /\ \A j \in Contents \ {k} : r.content[j] = s.content[j]
  BY <1>1, <1>8 DEF States
<1>11. HandlesOK(r, NONE)
  BY <1>1, <1>8 DEF Core, HandlesOK
<1>12. UsersOK(r)
  <2>1. Distinct(c.users) /\ \A h : ~Has(c.users, h)
    BY <1>7 DEF Distinct, Has
  <2> QED  BY <1>1, <1>6, <1>8, <1>10, <2>1 DEF Core, UsersOK
<1>13. CtxOK(r, NONE, l)
  BY <1>1, <1>4, <1>8 DEF Core, OwnersOK, CtxOK
<1>14. EntriesOK(r, l)
  <2>1. ASSUME NEW j \in Contents, r.content[j].status # "none"
        PROVE  j # k /\ r.content[j] = s.content[j]
    BY <1>7, <1>10, <2>1
  <2>2. \A j \in Contents : s.content[j].status # "none" =>
           /\ s.ll[s.content[j].ll].owner = "content"
           /\ \A i \in Contents : s.content[i].status # "none" /\ s.content[i].ll = s.content[j].ll => i = j
    BY <1>1 DEF Core, OwnersOK, EntriesOK
  <2>3. ASSUME NEW j \in Contents, r.content[j].status # "none"
        PROVE  r.content[j].ll \in LLs /\ r.content[j].ll # l /\ r.ll[r.content[j].ll].owner = "content"
    BY <1>5, <1>8, <2>1, <2>2, <2>3
  <2>4. ASSUME NEW j \in Contents, r.content[j].status # "none",
               NEW i \in Contents, r.content[i].status # "none", r.content[i].ll = r.content[j].ll
        PROVE  i = j
    BY <2>1, <2>2, <2>4
  <2> QED  BY <2>3, <2>4 DEF EntriesOK
<1>15. OwnedOK(r, NONE, l)
  <2>1. \A j \in LLs \ {l} : s.ll[j].owner = "content" =>
           \E i \in Contents \ {k} : s.content[i].status # "none" /\ s.content[i].ll = j
    BY <1>1, <1>3, HLAssumption DEF Core, OwnersOK, OwnedOK
  <2>2. \A j \in LLs \ {l} : s.ll[j].owner = "ctx" => \E h \in Handles \ {NONE} : s.handle[h].ctx = j
    BY <1>1, HLAssumption DEF Core, OwnersOK, OwnedOK
  <2> QED  BY <1>8, <1>10, <2>1, <2>2 DEF OwnedOK
<1>16. LLsOK(r, l)
  BY <1>1, <1>4, <1>8 DEF Core, LLsOK
<1>17. ContentsOK(r)
  BY <1>1, <1>7, <1>8, <1>10 DEF Core, ContentsOK
<1>18. ToldOK(r, {})
  <2>1. \A h \in Handles : s.handle[h].entry # NONE => s.handle[h].entry \in Contents \ {k}
    BY <1>1, <1>6 DEF States, HandleRec
  <2> QED  BY <1>1, <1>8, <1>10, <2>1 DEF ToldOK
<1>19. PrivateOK(r, NONE, NONE)
  <2>1. \A h \in Handles : s.handle[h].entry # NONE => s.handle[h].entry \in Contents \ {k}
    BY <1>1, <1>6 DEF States, HandleRec
  <2>2. \A j : Relied(r, NONE, j) => Relied(s, NONE, j)
    BY <1>8, <1>10, <2>1 DEF Relied
  <2> QED  BY <1>1, <1>8, <2>2 DEF PrivateOK
<1>20. ASSUME WaitsOK(s, NONE, NONE)
       PROVE  WaitsOK(r, NONE, NONE)
  <2>1. r.content[k].status # "LOADING" /\ ~r.content[k].converting /\ Len(r.content[k].users) <= 1
    BY <1>7, <1>10
  <2> QED  BY <1>8, <1>10, <1>20, <2>1 DEF WaitsOK
<1>21. Core(r, NONE, l)
  BY <1>1, <1>8, <1>9, <1>11, <1>12, <1>13, <1>14, <1>15, <1>16, <1>17 DEF Core, OwnersOK
<1> QED  BY <1>3, <1>18, <1>19, <1>20, <1>21 DEF IsForgotten

LEMMA ListStep ==
    ASSUME NEW s, Good(s), NEW u \in Seq(Contents), NEW r, r = [s EXCEPT !.content_list = u]
    PROVE  Fine(s, r)
<1>1. s \in States /\ Core(s, NONE, NONE)
  BY DEF Good, Core
<1>2. /\ r.handle = s.handle /\ r.ll = s.ll /\ r.object = s.object /\ r.content = s.content
      /\ r.fault = s.fault /\ r \in States
  BY <1>1 DEF States
<1>3. OwnersOK(r, NONE, NONE)
  BY <1>1, <1>2, OwnersFrame DEF Core
<1>4. Core(r, NONE, NONE)
  BY <1>1, <1>2, <1>3 DEF Core, HandlesOK, UsersOK, LLsOK, ContentsOK
<1>5. ToldOK(r, {}) /\ PrivateOK(r, NONE, NONE) /\ (WaitsOK(s, NONE, NONE) => WaitsOK(r, NONE, NONE))
  BY <1>2 DEF Good, ToldOK, PrivateOK, Relied, WaitsOK
<1> QED  BY <1>4, <1>5 DEF Fine, Good

LEMMA CleanedStep ==
    ASSUME NEW s, Good(s), NEW k \in Contents, NEW r, r = Cleaned(s, k)
    PROVE  Fine(s, r)
<1>1. Core(s, NONE, NONE) /\ s \in States
  BY DEF Good, Core
<1>2. CASE ~Unused(s.content[k])
  BY <1>2 DEF Cleaned, Fine
<1>3. CASE Unused(s.content[k])
  <2>1. s.content[k].status # "none" /\ ~s.content[k].locked
    BY <1>1, <1>3 DEF Unused, Core, ContentsOK
  <2>2. PICK l \in LLs : l = s.content[k].ll
    BY <1>1, <2>1 DEF Core, OwnersOK, EntriesOK
  <2>3. s.ll[l].owner # "none"
    BY <1>1, <2>1, <2>2 DEF Core, OwnersOK, EntriesOK
  <2>4. PICK q : q = [s EXCEPT !.content[k] = NoContent]
    OBVIOUS
  <2>5. IsForgotten(s, q, k)
    BY <1>3, <2>4, ForgetStep
  <2>6. /\ Core(q, NONE, l) /\ ToldOK(q, {}) /\ PrivateOK(q, NONE, NONE)
        /\ WaitsOK(s, NONE, NONE) => WaitsOK(q, NONE, NONE)
    BY <2>2, <2>5 DEF IsForgotten
  <2>7. PICK d : d = llcache_handle_release(q, l)
    OBVIOUS
  <2>8. Core(d, NONE, NONE) /\ Apart(q, d, l)
    BY <2>6, <2>7, LLReleaseStep
  <2>9. ~Relied(q, NONE, l)
    BY <2>6, ReliedLive
  <2>10. ToldOK(d, {}) /\ PrivateOK(d, NONE, NONE) /\ (WaitsOK(q, NONE, NONE) => WaitsOK(d, NONE, NONE))
    BY <2>6, <2>8, <2>9, ApartGood
  <2>11. Fine(s, d)
    BY <2>6, <2>8, <2>10 DEF Fine, Good
  <2>12. d = content_destroy(s, k)
    <3>1. Expect(s, ~s.content[k].locked) = s
      BY <1>1, <2>1, Expected
    <3>2. q.ll = s.ll /\ q.object = s.object
      BY <1>1, <2>4 DEF States
    <3>3. On(q, s.ll[l].object) = On(s, s.ll[l].object) /\ l \notin FreeLLs(s) /\ l \notin FreeLLs(q)
      BY <2>3, <3>2 DEF On, FreeLLs
    <3>4. PICK x : x = IF On(s, s.ll[l].object) = {l} THEN NoObject ELSE s.object[s.ll[l].object]
      OBVIOUS
    <3>5. PICK o : o = s.ll[l].object
      OBVIOUS
    <3>6. d = [q EXCEPT !.ll[l] = NoLL, !.object[o] = x]
      BY <2>7, <3>2, <3>3, <3>4, <3>5 DEF llcache_handle_release
    <3>7. content_destroy(s, k) = [[s EXCEPT !.ll[l] = NoLL, !.object[o] = x] EXCEPT !.content[k] = NoContent]
      BY Zenon, <2>2, <3>1, <3>3, <3>4, <3>5 DEF content_destroy, llcache_handle_release
    <3> QED  BY <1>1, <2>4, <3>6, <3>7 DEF States
  <2>13. PICK u \in Seq(Contents) : u = RemoveFirst(d.content_list, k)
    BY <2>8, RemoveFirstType DEF Core, States
  <2>14. r = [d EXCEPT !.content_list = u]
    BY <1>3, <2>12, <2>13 DEF Cleaned
  <2>15. Fine(d, r)
    BY <2>11, <2>14, ListStep DEF Fine
  <2> QED  BY <2>11, <2>15 DEF Fine
<1> QED  BY <1>2, <1>3

\* The walk along the list does what its body says.
LEMMA CleaningDef ==
    ASSUME NEW s, NEW u, u = s.content_list, Len(u) \in Nat
    PROVE  /\ Cleaning(s)[0] = s
           /\ \A n \in Nat : n < Len(u) => Cleaning(s)[n + 1] = Cleaned(Cleaning(s)[n], u[n + 1])
<1> DEFINE Is(f, m) == f = [n \in 0 .. m |-> IF n = 0 THEN s ELSE Cleaned(f[n - 1], u[n])]
           S == {m \in Nat : \E f : Is(f, m)}
<1>1. 0 \in S
  <2> DEFINE f == [n \in 0 .. 0 |-> s]
  <2>1. Is(f, 0)
    OBVIOUS
  <2> QED  BY <2>1
<1>2. ASSUME NEW m \in Nat, m \in S
      PROVE  m + 1 \in S
  <2>1. PICK f : Is(f, m)
    BY <1>2
  <2> DEFINE g == [n \in 0 .. m + 1 |-> IF n = m + 1 THEN Cleaned(f[m], u[m + 1]) ELSE f[n]]
  <2>2. Is(g, m + 1)
    <3> SUFFICES ASSUME NEW n \in 0 .. m + 1
                 PROVE  g[n] = IF n = 0 THEN s ELSE Cleaned(g[n - 1], u[n])
      OBVIOUS
    <3> HIDE DEF g
    <3>1. \A i \in 0 .. m + 1 : g[i] = IF i = m + 1 THEN Cleaned(f[m], u[m + 1]) ELSE f[i]
      BY DEF g
    <3>2. CASE n = m + 1
      BY <3>1, <3>2
    <3>3. CASE n # m + 1
      <4>1. n \in 0 .. m /\ (n = 0 \/ n - 1 \in 0 .. m) /\ n - 1 # m + 1
        BY <3>3
      <4>2. f[n] = IF n = 0 THEN s ELSE Cleaned(f[n - 1], u[n])
        BY <2>1, <4>1
      <4> QED  BY <3>1, <3>3, <4>1, <4>2
    <3> QED  BY <3>2, <3>3
  <2> HIDE DEF g, Is
  <2> QED  BY <2>2
<1>3. PICK f : Is(f, Len(u))
  <2> HIDE DEF S
  <2>1. Len(u) \in S
    BY <1>1, <1>2, NatInductionSet
  <2> QED  BY <2>1 DEF S
<1>4. Cleaning(s) = CHOOSE g : g = [n \in 0 .. Len(u) |-> IF n = 0 THEN s ELSE Cleaned(g[n - 1], u[n])]
  BY DEF Cleaning
<1>5. Is(Cleaning(s), Len(u))
  BY <1>3, <1>4
<1> DEFINE T == Cleaning(s)
<1> HIDE DEF T
<1>6. Is(T, Len(u))
  BY <1>5 DEF T
<1>7. T[0] = s
  BY <1>6
<1>8. ASSUME NEW n \in Nat, n < Len(u)
      PROVE  T[n + 1] = Cleaned(T[n], u[n + 1])
  <2>1. n + 1 \in 0 .. Len(u) /\ n + 1 # 0 /\ (n + 1) - 1 = n
    BY <1>8
  <2>2. T[n + 1] = IF n + 1 = 0 THEN s ELSE Cleaned(T[(n + 1) - 1], u[n + 1])
    BY <1>6, <2>1
  <2> QED  BY <2>1, <2>2
<1> QED  BY <1>7, <1>8 DEF T

LEMMA CleanStep ==
    ASSUME Good(hl), hlcache_clean
    PROVE  Fine(hl, hl')
<1> DEFINE u == hl.content_list
           T == Cleaning(hl)
           S == {n \in Nat : n <= Len(u) => Fine(hl, T[n])}
<1>1. u \in Seq(Contents) /\ Len(u) \in Nat
  BY DEF Good, Core, States
<1>2. T[0] = hl /\ \A n \in Nat : n < Len(u) => T[n + 1] = Cleaned(T[n], u[n + 1])
  BY <1>1, CleaningDef
<1>3. hl' = T[Len(u)]
  BY DEF hlcache_clean
<1> HIDE DEF T
<1>4. 0 \in S
  BY <1>2 DEF Fine
<1>5. ASSUME NEW n \in Nat, n \in S
      PROVE  n + 1 \in S
  <2> SUFFICES ASSUME n + 1 <= Len(u)
               PROVE  Fine(hl, T[n + 1])
    OBVIOUS
  <2>1. n < Len(u) /\ n <= Len(u) /\ u[n + 1] \in Contents
    BY <1>1
  <2>2. PICK k \in Contents : k = u[n + 1]
    BY <2>1
  <2>5. PICK q : q = T[n]
    OBVIOUS
  <2>6. PICK r : r = T[n + 1]
    OBVIOUS
  <2>3. Fine(hl, q) /\ r = Cleaned(q, k)
    BY <1>2, <1>5, <2>1, <2>2, <2>5, <2>6
  <2>4. Fine(q, r)
    BY <2>3, CleanedStep DEF Fine
  <2> QED  BY <2>3, <2>4, <2>6 DEF Fine
<1>6. Len(u) \in S
  <2> HIDE DEF S
  <2> QED  BY <1>1, <1>4, <1>5, NatInductionSet
<1> QED  BY <1>1, <1>3, <1>6


-----------------------------------------------------------------------------
(* Aborts *)

LEMMA StopStep ==
    ASSUME NEW s, Good(s), NEW k \in Contents, s.content[k].status # "none", NEW r,
           r = [s EXCEPT !.content[k].stopped = TRUE]
    PROVE  Fine(s, r) /\ StillOf(s, r, k)
<1>1. Core(s, NONE, NONE) /\ ToldOK(s, {}) /\ PrivateOK(s, NONE, NONE) /\ s \in States
  BY DEF Good, Core
<1>2. PICK z \in ContentRec : z = s.content[k]
  BY <1>1 DEF States
<1>3. PICK c \in ContentRec : /\ c = [z EXCEPT !.stopped = TRUE] /\ c.users = z.users /\ c.ll = z.ll
                              /\ c.status = z.status /\ c.type = z.type /\ c.locked = z.locked
                              /\ c.converting = z.converting
  <2>1. /\ [z EXCEPT !.stopped = TRUE] \in ContentRec
        /\ [z EXCEPT !.stopped = TRUE].users = z.users /\ [z EXCEPT !.stopped = TRUE].ll = z.ll
        /\ [z EXCEPT !.stopped = TRUE].status = z.status /\ [z EXCEPT !.stopped = TRUE].type = z.type
        /\ [z EXCEPT !.stopped = TRUE].locked = z.locked
        /\ [z EXCEPT !.stopped = TRUE].converting = z.converting
    BY DEF ContentRec
  <2> QED  BY <2>1
<1>4. r = [s EXCEPT !.content[k] = c]
  BY <1>2, <1>3
<1>5. /\ z.converting => z.locked
      /\ z.locked => z.status = "LOADING"
      /\ z.locked \/ z.status \in {"READY", "DONE"} => s.ll[z.ll].told = 3
  BY <1>1, <1>2 DEF Core, ContentsOK
<1>6. Core(r, NONE, NONE) /\ IsSet(s, r, k, c)
  <2>1. /\ s.content[k].status # "none" /\ c.users = s.content[k].users /\ c.ll = s.content[k].ll
        /\ c.status # "none" /\ (c.converting => c.locked) /\ (c.locked => c.status = "LOADING")
        /\ c.locked \/ c.status \in {"READY", "DONE"} => s.ll[c.ll].told = 3
    BY <1>2, <1>3, <1>5
  <2>2. \A e : e = [s EXCEPT !.content[k] = c] => Core(e, NONE, NONE) /\ IsSet(s, e, k, c)
    <3> SUFFICES ASSUME NEW e, e = [s EXCEPT !.content[k] = c]
                 PROVE  Core(e, NONE, NONE) /\ IsSet(s, e, k, c)
      OBVIOUS
    <3> QED  BY <1>1, <2>1, ContentStep, Zenon
  <2> QED  BY <1>4, <2>2
<1>7. PrivateOK(r, NONE, NONE)
  <2>1. c.ll = s.content[k].ll
    BY <1>2, <1>3
  <2> QED  BY <1>1, <1>6, <2>1, SetPrivate
<1>8. \A j \in Contents : /\ r.content[j].status = s.content[j].status
                          /\ r.content[j].type = s.content[j].type /\ r.content[j].users = s.content[j].users
                          /\ r.content[j].converting = s.content[j].converting
                          /\ r.content[j].ll = s.content[j].ll
  BY <1>2, <1>3, <1>6 DEF IsSet
<1>9. r.handle = s.handle /\ r.ll = s.ll
  BY <1>6 DEF IsSet
<1>10. ToldOK(r, {})
  <2>1. \A h \in Handles : s.handle[h].entry \in Contents \cup {NONE}
    BY <1>1 DEF States, HandleRec
  <2> QED  BY <1>1, <1>8, <1>9, <2>1 DEF ToldOK
<1>11. WaitsOK(s, NONE, NONE) => WaitsOK(r, NONE, NONE)
  BY <1>8, <1>9 DEF WaitsOK
<1>12. StillOf(s, r, k)
  BY <1>8, <1>9 DEF StillOf
<1> QED  BY <1>6, <1>7, <1>10, <1>11, <1>12 DEF Fine, Good

\* A content whose users have all aborted it is stopped, and its fetch.
LEMMA ContentAbortStep ==
    ASSUME NEW s, Good(s), NEW k \in Contents, s.content[k].status \in {"LOADING", "READY", "DONE"},
           \A h \in Handles : s.handle[h].entry = k => s.handle[h].aborted,
           NEW r \in content_abort(s, k)
    PROVE  Fine(s, r)
<1> DEFINE c == s.content[k]
           stopped == IF c.type # "page" THEN {s}
                      ELSE CASE c.status = "LOADING" -> {[s EXCEPT !.content[k].stopped = TRUE]}
                             [] c.status = "READY" -> content_set_done(s, k)
                             [] c.status = "DONE" -> {s}
                             [] OTHER -> {Expect(s, FALSE)}
<1>1. Core(s, NONE, NONE) /\ c.status # "none"
  BY DEF Good
<1>2. content_abort(s, k) = {llcache_handle_abort(q, c.ll) : q \in stopped}
  BY DEF content_abort
<1>3. PICK q \in stopped : r = llcache_handle_abort(q, c.ll)
  <2> HIDE DEF stopped, c
  <2> QED  BY <1>2
<1>4. Fine(s, q) /\ StillOf(s, q, k)
  <2>1. CASE q = s
    BY <1>1, <2>1 DEF Fine, StillOf
  <2>2. CASE q = [s EXCEPT !.content[k].stopped = TRUE]
    BY <1>1, <2>2, StopStep
  <2>3. CASE s.content[k].status = "READY" /\ q \in content_set_done(s, k)
    BY <2>3, DoneStep, WaitsExcused DEF Fine
  <2> QED  BY <2>1, <2>2, <2>3
<1> HIDE DEF stopped
<1>5. PICK l \in LLs : l = c.ll
  BY <1>1 DEF Core, OwnersOK, EntriesOK
<1>6. Good(q) /\ Core(q, NONE, NONE)
  BY <1>4 DEF Fine, Good
<1>7. q.content[k].ll = l /\ q.content[k].status # "none" /\ q.ll[l].owner # "none"
  <2>1. s.ll[l].owner = "content"
    BY <1>1, <1>5 DEF Core, OwnersOK, EntriesOK
  <2> QED  BY <1>4, <1>5, <2>1 DEF StillOf
<1>8. ~Relied(q, NONE, l)
  <2>1. ~\E h \in Handles : q.handle[h].entry = k /\ ~q.handle[h].aborted
    BY <1>4 DEF StillOf
  <2> QED  BY <1>6, <1>7, <2>1, ReliedBy
<1>9. Fine(q, r)
  BY ZenonT(60), <1>3, <1>5, <1>6, <1>7, <1>8, AbortGood
<1> QED  BY <1>4, <1>9 DEF Fine


\* From s to r the handle h has moved from the content k to the clone c.
IsCloned(s, r, h, k, c) ==
    /\ Good(r) /\ r.content[c].status = s.content[k].status
    /\ \A g \in Handles : r.handle[g].entry = c => r.handle[g].aborted
    /\ WaitsOK(s, NONE, NONE) /\ (s.content[k].status = "LOADING" => s.ll[s.content[k].ll].told < 3) =>
          WaitsOK(r, NONE, NONE)

LEMMA CloneStep ==
    ASSUME NEW s, Good(s), NEW h \in Handles, s.handle[h].aborted, NEW k, k = s.handle[h].entry, k # NONE,
           NEW c \in Contents, s.content[c].status = "none", FreeLLs(s) # {}, NEW r, r = Cloned(s, h, c)
    PROVE  IsCloned(s, r, h, k, c)
<1> DEFINE a == s.content[k]
           u == a.users
           w == RemoveFirst(u, h)
           j == a.ll
           v == s.ll[j]
<1>1. Core(s, NONE, NONE) /\ ToldOK(s, {}) /\ PrivateOK(s, NONE, NONE) /\ s \in States /\ ~s.fault
  BY Zenon DEF Good, Core
<1>2. /\ k \in Contents /\ a.status # "none" /\ Has(u, h) /\ j \in LLs /\ s.ll[j].owner = "content"
      /\ c # k /\ a \in ContentRec
  <2>1. k \in Contents /\ a.status # "none" /\ Has(u, h) /\ j \in LLs /\ s.ll[j].owner = "content"
    BY Zenon, <1>1, EntryLive
  <2> QED  BY Zenon, <1>1, <2>1 DEF States
<1>3. PICK l \in LLs : l = Some(FreeLLs(s)) /\ s.ll[l].owner = "none"
  BY SMTT(30) DEF Some, FreeLLs
<1>4. l # j /\ l # NONE
  BY Zenon, <1>2, <1>3, HLAssumption
<1>5. u \in Seq(Handles) /\ Distinct(u)
  BY ZenonT(60), <1>1, <1>2, UsersLen DEF Core, UsersOK
<1>6. PICK p \in 1 .. Len(u) : u[p] = h
  BY <1>2 DEF Has
<1>7. w \in Seq(Handles) /\ Distinct(w) /\ (\A g : Has(w, g) <=> Has(u, g) /\ g # h) /\ Len(w) <= Len(u)
  <2> HIDE DEF u
  <2>1. w = RemoveFirst(u, u[p])
    BY <1>6
  <2> HIDE DEF w
  <2>2. w \in Seq(Handles) /\ Distinct(w) /\ (\A g : Has(w, g) <=> Has(u, g) /\ g # u[p])
    BY <1>5, <2>1, UserRemoved
  <2>3. Len(w) = Len(u) - 1 /\ Len(u) \in Nat
    BY <1>5, <2>1, RemoveFirstOf
  <2> QED  BY <1>6, <2>2, <2>3
<1> DEFINE d == [a EXCEPT !.users = <<h>>, !.ll = l, !.converting = FALSE]
           e == [a EXCEPT !.users = w]
           g0 == [s.handle[h] EXCEPT !.entry = c]
<1>8. /\ d \in ContentRec /\ d.users = <<h>> /\ d.ll = l /\ ~d.converting /\ d.status = a.status
      /\ d.locked = a.locked /\ d.type = a.type
  <2>1. PICK z \in ContentRec : z = a
    BY <1>2
  <2>2. <<h>> \in Seq(Handles)
    OBVIOUS
  <2>3. \A y \in Seq(Handles) :
           /\ [z EXCEPT !.users = y, !.ll = l, !.converting = FALSE] \in ContentRec
           /\ [z EXCEPT !.users = y, !.ll = l, !.converting = FALSE].users = y
           /\ [z EXCEPT !.users = y, !.ll = l, !.converting = FALSE].ll = l
           /\ [z EXCEPT !.users = y, !.ll = l, !.converting = FALSE].converting = FALSE
           /\ [z EXCEPT !.users = y, !.ll = l, !.converting = FALSE].status = z.status
           /\ [z EXCEPT !.users = y, !.ll = l, !.converting = FALSE].locked = z.locked
           /\ [z EXCEPT !.users = y, !.ll = l, !.converting = FALSE].type = z.type
    BY DEF ContentRec
  <2> HIDE DEF a
  <2> QED  BY ZenonT(60), <2>1, <2>2, <2>3
<1>9. /\ e \in ContentRec /\ e.users = w /\ e.ll = j /\ e.converting = a.converting /\ e.status = a.status
      /\ e.locked = a.locked /\ e.type = a.type
  <2>1. PICK z \in ContentRec : z = a
    BY <1>2
  <2>3. \A y \in Seq(Handles) :
           /\ [z EXCEPT !.users = y] \in ContentRec /\ [z EXCEPT !.users = y].users = y
           /\ [z EXCEPT !.users = y].ll = z.ll /\ [z EXCEPT !.users = y].converting = z.converting
           /\ [z EXCEPT !.users = y].status = z.status /\ [z EXCEPT !.users = y].locked = z.locked
           /\ [z EXCEPT !.users = y].type = z.type
    BY ZenonT(60) DEF ContentRec
  <2>4. w \in Seq(Handles)
    BY <1>7
  <2> HIDE DEF a, w
  <2> QED  BY <2>1, <2>3, <2>4 DEF a
<1>10. /\ g0 \in HandleRec /\ g0.entry = c /\ g0.used = s.handle[h].used /\ g0.ctx = s.handle[h].ctx
       /\ g0.told = s.handle[h].told /\ g0.aborted = s.handle[h].aborted
  <2>1. s.handle[h] \in HandleRec
    BY ZenonT(60), <1>1 DEF States
  <2> QED  BY Zenon, <2>1 DEF HandleRec
<1>11. /\ s.handle[h].used /\ s.handle[h].ctx = NONE /\ s.handle[h].told = a.status
  BY <1>1, <1>2, HLAssumption DEF Core, HandlesOK, ToldOK
<1> DEFINE H == [s.handle EXCEPT ![h] = g0]
           L == [s.ll EXCEPT ![l] = v]
           C == [s.content EXCEPT ![c] = d, ![k] = e]
<1>12. r = [s EXCEPT !.content = C, !.ll = L, !.content_list = <<c>> \o s.content_list, !.handle = H]
  <2> DEFINE q == [s EXCEPT !.content[c] = d, !.ll[l] = v, !.content_list = <<c>> \o @]
  <2>1. r = [content_remove_user(q, k, h) EXCEPT !.handle[h].entry = c]
    BY ZenonT(60), <1>3 DEF Cloned
  <2> HIDE DEF d
  <2>2. q \in [handle : {s.handle}, ll : {L}, content : {[s.content EXCEPT ![c] = d]}, object : {s.object},
               content_list : {<<c>> \o s.content_list}, fault : {s.fault}]
    BY ZenonT(60), <1>1 DEF States
  <2>3. q.content[k] = a /\ q.handle = s.handle /\ ~q.fault /\ q.fault \in BOOLEAN
    BY ZenonT(60), <1>1, <1>2, <2>2 DEF States
  <2> HIDE DEF q
  <2>4. h \in Range(q.content[k].users)
    BY <1>5, <1>6, <2>3 DEF Range
  <2>5. Expect(q, h \in Range(q.content[k].users)) = q
    <3>1. (q.fault \/ ~(h \in Range(q.content[k].users))) = q.fault
      BY SMTT(30), <2>3, <2>4
    <3> QED  BY <2>2, <3>1 DEF Expect
  <2>6. content_remove_user(q, k, h) = [q EXCEPT !.content[k].users = w]
    BY ZenonT(60), <2>3, <2>5 DEF content_remove_user
  <2>7. r = [[q EXCEPT !.content[k] = e] EXCEPT !.handle[h] = g0]
    BY ZenonT(60), <2>1, <2>2, <2>3, <2>6
  <2> HIDE DEF e, g0
  <2> QED  BY ZenonT(60), <1>1, <2>2, <2>7 DEF q, States
<1>13. L \in [LLs -> LLRec] /\ H \in [Handles -> HandleRec] /\ C \in [Contents -> ContentRec] /\ v \in LLRec
  <2>1. v \in LLRec /\ s.ll \in [LLs -> LLRec] /\ s.handle \in [Handles -> HandleRec]
        /\ s.content \in [Contents -> ContentRec]
    BY Zenon, <1>1, <1>2 DEF States
  <2> HIDE DEF d, e, g0, v
  <2> QED  BY <1>8, <1>9, <1>10, <2>1
<1>14. /\ C[c] = d /\ C[k] = e /\ \A i \in Contents \ {c, k} : C[i] = s.content[i]
  <2> HIDE DEF d, e
  <2> QED  BY SMTT(30), <1>1, <1>2 DEF States
<1>15. L[l] = v /\ L[j] = v /\ \A i \in LLs \ {l} : L[i] = s.ll[i]
  <2>1. s.ll \in [LLs -> LLRec]
    BY <1>1 DEF States
  <2> QED  BY Zenon, <1>2, <1>4, <2>1
<1>16. H[h] = g0 /\ \A g \in Handles \ {h} : H[g] = s.handle[g]
  <2> HIDE DEF g0
  <2> QED  BY <1>1 DEF States
<1> HIDE DEF a, u, w, j, v, d, e, g0, H, L, C
<1>17. /\ r.handle = H /\ r.ll = L /\ r.content = C /\ r.object = s.object /\ r.fault = s.fault
       /\ r \in States
  <2>1. <<c>> \o s.content_list \in Seq(Contents)
    BY <1>1 DEF States
  <2> QED  BY <1>1, <1>12, <1>13, <2>1 DEF States
<1>18. \A g \in Handles : s.handle[g].entry # c /\ s.handle[g].entry \in Contents \cup {NONE}
  <2>1. \A g \in Handles : s.handle[g].entry = c => s.content[c].status # "none"
    BY <1>1, EntryLive, HLAssumption
  <2> QED  BY <1>1, <2>1 DEF States, HandleRec
<1>19. \A g \in Handles : s.handle[g].ctx # l /\ s.handle[g].ctx \in LLs \cup {NONE} /\ H[g].ctx = s.handle[g].ctx
  <2>1. \A g \in Handles \ {NONE} : s.handle[g].ctx # l
    BY <1>1, <1>3, <1>4 DEF Core, OwnersOK, CtxOK
  <2>2. \A g \in Handles : s.handle[g].ctx # l /\ s.handle[g].ctx \in LLs \cup {NONE}
    BY <1>1, <2>1, HLAssumption DEF States, HandleRec
  <2> QED  BY <1>10, <1>16, <2>2
<1>20. \A i \in Contents : s.content[i].status # "none" => s.content[i].ll \in LLs /\ s.content[i].ll # l
  BY <1>1, <1>3 DEF Core, OwnersOK, EntriesOK
<1>21. \A i \in LLs : i # l => L[i].owner = s.ll[i].owner /\ L[i].told = s.ll[i].told /\ L[i].object = s.ll[i].object
  BY <1>15
<1>22. L[l].owner = "content" /\ L[l].told = s.ll[j].told /\ L[l].object = s.ll[j].object
  BY <1>2, <1>15 DEF v
<1>23. HandlesOK(r, NONE)
  <2>1. \A g \in Handles :
           /\ ~s.handle[g].used => s.handle[g].entry = NONE /\ ~s.handle[g].aborted
           /\ s.handle[g].entry = NONE => s.handle[g].told = "none"
           /\ s.handle[g].ctx # NONE => s.handle[g].used /\ s.handle[g].entry = NONE
    BY <1>1, HLAssumption DEF Core, HandlesOK
  <2>2. c # NONE
    BY HLAssumption
  <2>3. H[h].used /\ H[h].entry # NONE /\ H[h].ctx = NONE
    BY <1>10, <1>11, <1>16, <2>2
  <2>4. ASSUME NEW g \in Handles
        PROVE  /\ ~H[g].used => H[g].entry = NONE /\ ~H[g].aborted
               /\ H[g].entry = NONE => H[g].told = "none"
               /\ H[g].ctx # NONE => H[g].used /\ H[g].entry = NONE
    <3>1. CASE g = h
      BY <2>3, <3>1
    <3>2. CASE g # h
      BY <1>16, <2>1, <3>2
    <3> QED  BY <3>1, <3>2
  <2> QED  BY <1>17, <2>4 DEF HandlesOK
<1>24. UsersOK(r)
  <2>1. \A i \in Contents : Distinct(s.content[i].users)
                            /\ \A g \in Handles : Has(s.content[i].users, g) <=> s.handle[g].entry = i
    BY <1>1 DEF Core, UsersOK
  <2>2. Distinct(d.users) /\ \A g : Has(d.users, g) <=> g = h
    BY <1>8 DEF Distinct, Has
  <2>3. \A g \in Handles : r.handle[g].entry = IF g = h THEN c ELSE s.handle[g].entry
    BY <1>10, <1>16, <1>17
  <2>4. ASSUME NEW g \in Handles
        PROVE  /\ Has(C[c].users, g) <=> r.handle[g].entry = c
               /\ Has(C[k].users, g) <=> r.handle[g].entry = k
    <3>1. Has(C[c].users, g) <=> r.handle[g].entry = c
      BY <1>14, <1>18, <2>2, <2>3
    <3>2. Has(e.users, g) <=> Has(s.content[k].users, g) /\ g # h
      BY <1>7, <1>9 DEF u, a
    <3>3. Has(C[k].users, g) <=> r.handle[g].entry = k
      BY <1>2, <1>14, <2>1, <2>3, <3>2
    <3> QED  BY <3>1, <3>3
  <2>5. ASSUME NEW i \in Contents \ {c, k}, NEW g \in Handles
        PROVE  Has(C[i].users, g) <=> r.handle[g].entry = i
    BY <1>14, <2>1, <2>3
  <2>6. \A i \in Contents : Distinct(C[i].users)
    BY <1>7, <1>9, <1>14, <2>1, <2>2
  <2> QED  BY <1>17, <2>4, <2>5, <2>6 DEF UsersOK
<1>25. CtxOK(r, NONE, NONE)
  <2>1. \A f \in Handles : s.handle[f].ctx # NONE =>
           s.ll[s.handle[f].ctx].owner = "ctx" /\ \A g \in Handles : s.handle[g].ctx = s.handle[f].ctx => g = f
    BY <1>1, HLAssumption DEF Core, OwnersOK, CtxOK
  <2> QED  BY <1>17, <1>19, <1>21, <2>1 DEF CtxOK
<1>26. \A i \in Contents : /\ i # c => C[i].status = s.content[i].status /\ C[i].ll = s.content[i].ll
                                       /\ C[i].locked = s.content[i].locked /\ C[i].type = s.content[i].type
                                       /\ C[i].converting = s.content[i].converting
  BY <1>9, <1>14 DEF a, j
<1>27. EntriesOK(r, NONE)
  <2>1. \A i \in Contents : s.content[i].status # "none" =>
           /\ s.ll[s.content[i].ll].owner = "content"
           /\ \A f \in Contents : s.content[f].status # "none" /\ s.content[f].ll = s.content[i].ll => f = i
    BY <1>1 DEF Core, OwnersOK, EntriesOK
  <2>2. C[c].ll = l
    BY <1>8, <1>14
  <2>3. ASSUME NEW i \in Contents, C[i].status # "none"
        PROVE  C[i].ll \in LLs /\ C[i].ll # NONE /\ L[C[i].ll].owner = "content"
    <3>1. CASE i = c
      BY <1>4, <1>22, <2>2, <3>1
    <3>2. CASE i # c
      BY <1>20, <1>21, <1>26, <2>1, <2>3, <3>2, HLAssumption
    <3> QED  BY <3>1, <3>2
  <2>4. ASSUME NEW i \in Contents, C[i].status # "none", NEW f \in Contents, C[f].status # "none", C[f].ll = C[i].ll
        PROVE  f = i
    BY <1>20, <1>26, <2>1, <2>2, <2>4
  <2> QED  BY <1>17, <2>3, <2>4 DEF EntriesOK
<1>28. OwnedOK(r, NONE, NONE)
  <2> SUFFICES ASSUME NEW i \in LLs
               PROVE  /\ L[i].owner = "ctx" => \E g \in Handles \ {NONE} : H[g].ctx = i
                      /\ L[i].owner = "content" => \E f \in Contents : C[f].status # "none" /\ C[f].ll = i
    BY <1>17 DEF OwnedOK
  <2>1. CASE i = l
    <3>1. C[c].ll = l /\ C[c].status # "none"
      BY <1>2, <1>8, <1>14
    <3> QED  BY <1>22, <2>1, <3>1
  <2>2. CASE i # l
    <3>1. /\ s.ll[i].owner = "ctx" => \E g \in Handles \ {NONE} : s.handle[g].ctx = i
          /\ s.ll[i].owner = "content" => \E f \in Contents : s.content[f].status # "none" /\ s.content[f].ll = i
      BY <1>1, HLAssumption DEF Core, OwnersOK, OwnedOK
    <3>2. \A f \in Contents : s.content[f].status # "none" => f # c
      OBVIOUS
    <3> QED  BY <1>19, <1>21, <1>26, <2>2, <3>1, <3>2
  <2> QED  BY <2>1, <2>2
<1>29. LLsOK(r, NONE)
  <2> SUFFICES ASSUME NEW i \in LLs
               PROVE  IF r.ll[i].owner = "none" THEN r.ll[i] = NoLL
                      ELSE /\ r.ll[i].object \in Objects
                           /\ r.object[r.ll[i].object].state # "none"
                           /\ r.ll[i].told = 3 => r.object[r.ll[i].object].state = "complete"
    BY DEF LLsOK
  <2>1. CASE i = l
    <3>1. /\ s.ll[j].object \in Objects /\ s.object[s.ll[j].object].state # "none"
          /\ s.ll[j].told = 3 => s.object[s.ll[j].object].state = "complete"
      BY <1>1, <1>2, Occupied
    <3> QED  BY <1>17, <1>22, <2>1, <3>1
  <2>2. CASE i # l
    BY <1>1, <1>15, <1>17, <2>2 DEF Core, LLsOK
  <2> QED  BY <2>1, <2>2
<1>30. ContentsOK(r)
  <2>1. \A i \in Contents :
           /\ s.content[i].status = "none" => s.content[i] = NoContent
           /\ s.content[i].converting => s.content[i].locked
           /\ s.content[i].locked => s.content[i].status = "LOADING"
           /\ s.content[i].locked \/ s.content[i].status \in {"READY", "DONE"} => s.ll[s.content[i].ll].told = 3
    BY ZenonT(60), <1>1 DEF Core, ContentsOK
  <2>2. /\ a.locked => a.status = "LOADING"
        /\ a.locked \/ a.status \in {"READY", "DONE"} => s.ll[j].told = 3
    BY <1>2, <2>1 DEF a, j
  <2>3. /\ C[c].status # "none" /\ ~C[c].converting /\ (C[c].locked => C[c].status = "LOADING")
        /\ C[c].locked \/ C[c].status \in {"READY", "DONE"} => L[C[c].ll].told = 3
    BY <1>2, <1>8, <1>14, <1>22, <2>2
  <2>4. ASSUME NEW i \in Contents \ {c}
        PROVE  /\ C[i].status = "none" => C[i] = NoContent
               /\ C[i].converting => C[i].locked
               /\ C[i].locked => C[i].status = "LOADING"
               /\ C[i].locked \/ C[i].status \in {"READY", "DONE"} => L[C[i].ll].told = 3
    <3>1. C[i].status = "none" => C[i] = NoContent
      BY <1>2, <1>9, <1>14, <2>1
    <3>2. C[i].locked \/ C[i].status \in {"READY", "DONE"} => s.content[i].status # "none"
      BY <1>26, <2>1
    <3> QED  BY <1>20, <1>21, <1>26, <2>1, <3>1, <3>2
  <2> QED  BY <1>17, <2>3, <2>4 DEF ContentsOK
<1>31. Core(r, NONE, NONE)
  BY <1>1, <1>17, <1>23, <1>24, <1>25, <1>27, <1>28, <1>29, <1>30 DEF Core, OwnersOK
<1>32. ToldOK(r, {})
  <2>1. \A g \in Handles : s.handle[g].entry # NONE => s.handle[g].told = s.content[s.handle[g].entry].status
    BY <1>1 DEF ToldOK
  <2>2. ASSUME NEW g \in Handles, H[g].entry # NONE
        PROVE  H[g].told = C[H[g].entry].status
    <3>1. CASE g = h
      BY <1>8, <1>10, <1>11, <1>14, <1>16, <3>1
    <3>2. CASE g # h
      BY <1>16, <1>18, <1>26, <2>1, <2>2, <3>2
    <3> QED  BY <3>1, <3>2
  <2> QED  BY <1>17, <2>2 DEF ToldOK
<1>33. ASSUME NEW i \in LLs, Relied(r, NONE, i)
       PROVE  r.object[r.ll[i].object].whole
  <2>1. Relied(s, NONE, i) /\ i # l
    <3>1. CASE \E g \in Handles : /\ H[g].entry # NONE /\ ~H[g].aborted /\ C[H[g].entry].ll = i
      <4>1. PICK g \in Handles : H[g].entry # NONE /\ ~H[g].aborted /\ C[H[g].entry].ll = i
        BY <3>1
      <4>2. g # h
        BY <1>10, <1>16, <4>1
      <4>3. s.handle[g].entry # NONE /\ ~s.handle[g].aborted /\ s.content[s.handle[g].entry].ll = i
        BY <1>16, <1>18, <1>26, <4>1, <4>2
      <4>4. s.content[s.handle[g].entry].status # "none" /\ s.handle[g].entry \in Contents
        BY <1>1, <4>3, EntryLive
      <4> QED  BY <1>20, <4>3, <4>4 DEF Relied
    <3>2. CASE \E g \in Handles \ {NONE} : H[g].ctx = i
      BY <1>19, <3>2 DEF Relied
    <3> QED  BY <1>17, <1>33, <3>1, <3>2 DEF Relied
  <2>2. s.ll[i].object # NONE
    BY <1>1, <2>1, ReliedLive, Occupied, HLAssumption
  <2>3. s.object[s.ll[i].object].whole
    BY <1>1, <2>1, <2>2 DEF PrivateOK
  <2> QED  BY <1>17, <1>21, <2>1, <2>3
<1>34. ASSUME WaitsOK(s, NONE, NONE), a.status = "LOADING" => s.ll[j].told < 3
       PROVE  WaitsOK(r, NONE, NONE)
  <2>1. \A g \in Handles : s.handle[g].ctx # NONE => s.ll[s.handle[g].ctx].told < 3
    BY <1>34, HLAssumption DEF WaitsOK
  <2>2. \A i \in Contents :
          /\ s.content[i].status = "LOADING" => s.content[i].converting \/ s.ll[s.content[i].ll].told < 3
          /\ s.content[i].type = "image" => ~s.content[i].converting
          /\ s.content[i].type \notin {"image", "css"} => Len(s.content[i].users) <= 1
    BY <1>34, HLAssumption DEF WaitsOK
  <2>3. \A g \in Handles : H[g].ctx # NONE => L[H[g].ctx].told < 3
    BY <1>19, <1>21, <2>1
  <2>4. /\ C[c].status = "LOADING" => L[C[c].ll].told < 3
        /\ ~C[c].converting /\ Len(C[c].users) <= 1
    <3>1. C[c].status = a.status /\ C[c].ll = l /\ ~C[c].converting /\ C[c].users = <<h>>
      BY <1>8, <1>14
    <3>2. Len(<<h>>) <= 1
      OBVIOUS
    <3>3. a.status = "LOADING" => L[l].told < 3
      BY ZenonT(60), <1>22, <1>34
    <3> QED  BY <3>1, <3>2, <3>3
  <2>5. Len(C[k].users) <= Len(s.content[k].users) /\ Len(C[k].users) \in Nat /\ Len(s.content[k].users) \in Nat
    BY <1>5, <1>7, <1>9, <1>14 DEF u, a
  <2>6. ASSUME NEW i \in Contents \ {c}
        PROVE  /\ C[i].status = "LOADING" => C[i].converting \/ L[C[i].ll].told < 3
               /\ C[i].type = "image" => ~C[i].converting
               /\ C[i].type \notin {"image", "css"} => Len(C[i].users) <= 1
    <3>1. C[i].status = "LOADING" => C[i].converting \/ L[C[i].ll].told < 3
      BY <1>20, <1>21, <1>26, <2>2
    <3>2. C[i].type = "image" => ~C[i].converting
      BY <1>26, <2>2
    <3>3. C[i].type \notin {"image", "css"} => Len(C[i].users) <= 1
      <4>1. CASE i = k
        <5>1. s.content[k].type \notin {"image", "css"} => Len(s.content[k].users) <= 1
          BY <1>2, <2>2
        <5>2. C[k].type = s.content[k].type
          BY <1>2, <1>26
        <5>3. PICK m \in Nat : m = Len(C[k].users)
          BY <2>5
        <5>4. PICK n \in Nat : n = Len(s.content[k].users)
          BY <2>5
        <5>5. m <= n
          BY <2>5, <5>3, <5>4
        <5>6. C[k].type \notin {"image", "css"} => n <= 1
          BY <5>1, <5>2, <5>4
        <5>7. C[k].type \notin {"image", "css"} => m <= 1
          BY <5>5, <5>6
        <5> QED  BY <4>1, <5>3, <5>7
      <4>2. CASE i # k
        BY <1>14, <2>2, <4>2
      <4> QED  BY <4>1, <4>2
    <3> QED  BY <3>1, <3>2, <3>3
  <2> QED  BY <1>17, <2>3, <2>4, <2>6 DEF WaitsOK
<1>35. \A g \in Handles : r.handle[g].entry = c => r.handle[g].aborted
  <2>1. H[h].aborted
    BY <1>10, <1>16
  <2>2. \A g \in Handles : H[g].entry = c => g = h
    BY <1>16, <1>18
  <2> QED  BY <1>17, <2>1, <2>2
<1>36. r.content[c].status = s.content[k].status
  BY <1>8, <1>14, <1>17 DEF a
<1>37. Good(r)
  BY <1>31, <1>32, <1>33 DEF Good, PrivateOK
<1> QED  BY <1>34, <1>35, <1>36, <1>37 DEF IsCloned, a, j

\* What an abort does: a stylesheet that is being converted may be left behind.
Aborts(s, r) == Good(r) /\ ("css" \notin Aborted /\ WaitsOK(s, NONE, NONE) => WaitsOK(r, NONE, NONE))

LEMMA AbortedByStep ==
    ASSUME NEW s, Good(s), NEW h \in Handles, s.handle[h].aborted,
           s.handle[h].entry # NONE => s.content[s.handle[h].entry].type \in Aborted,
           NEW r \in AbortedBy(s, h)
    PROVE  Aborts(s, r)
<1>1. Core(s, NONE, NONE) /\ ToldOK(s, {}) /\ PrivateOK(s, NONE, NONE) /\ s \in States
  BY DEF Good, Core
<1>2. PICK k : k = s.handle[h].entry
  OBVIOUS
<1>3. PICK c : c = Some(FreeContents(s))
  OBVIOUS
<1>4. CASE k = NONE
  <2>1. r = DropContext(s, h, FALSE)
    BY <1>2, <1>4 DEF AbortedBy
  <2>2. PICK l : l = s.handle[h].ctx
    OBVIOUS
  <2>3. Core(r, NONE, NONE) /\ Keeps(s, h, r, NONE)
    BY <1>1, <1>2, <1>4, <2>1, <2>2, DropContextStep
  <2>4. Keeps(s, NONE, r, NONE)
    BY <2>3, KeepsLess, KeepsTrans
  <2> QED  BY <1>1, <2>3, <2>4 DEF Keeps, Good, Aborts
<1>5. CASE k # NONE
  <2>1. k \in Contents /\ s.content[k].status # "none" /\ Has(s.content[k].users, h)
    BY <1>1, <1>2, <1>5, EntryLive
  <2>2. s.content[k].status \in {"LOADING", "READY", "DONE"}
    <3>1. s.handle[h].told = s.content[k].status /\ s.handle[h].told \in {"none", "LOADING", "READY", "DONE"}
      BY <1>1, <1>2, <1>5 DEF ToldOK, States, HandleRec
    <3> QED  BY <2>1, <3>1
  <2>3. \/ Len(s.content[k].users) = 1 /\ r \in content_abort(s, k)
        \/ r = s
        \/ /\ Len(s.content[k].users) # 1 /\ c # NONE /\ FreeLLs(s) # {}
           /\ r \in content_abort(Cloned(s, h, c), c)
    BY <1>2, <1>3, <1>5 DEF AbortedBy
  <2>4. CASE Len(s.content[k].users) = 1 /\ r \in content_abort(s, k)
    <3>1. \A g \in Handles : s.handle[g].entry = k => Has(s.content[k].users, g)
      BY <1>1, <2>1 DEF Core, UsersOK
    <3>2. \A g : Has(s.content[k].users, g) => g = h
      BY <2>1, <2>4 DEF Has
    <3>3. Fine(s, r)
      BY <2>1, <2>2, <2>4, <3>1, <3>2, ContentAbortStep
    <3> QED  BY <3>3 DEF Fine, Aborts
  <2>5. CASE r = s
    BY <2>5 DEF Aborts
  <2>6. CASE /\ Len(s.content[k].users) # 1 /\ c # NONE /\ FreeLLs(s) # {}
             /\ r \in content_abort(Cloned(s, h, c), c)
    <3>1. c \in Contents /\ s.content[c].status = "none"
      BY <1>3, <2>6 DEF Some, FreeContents
    <3>2. PICK q : q = Cloned(s, h, c)
      OBVIOUS
    <3>3. IsCloned(s, q, h, k, c)
      BY <1>2, <1>5, <2>6, <3>1, <3>2, CloneStep
    <3>4. /\ Good(q) /\ q.content[c].status \in {"LOADING", "READY", "DONE"}
          /\ \A g \in Handles : q.handle[g].entry = c => q.handle[g].aborted
      BY <2>2, <3>3 DEF IsCloned
    <3>5. Fine(q, r)
      BY <2>6, <3>1, <3>2, <3>4, ContentAbortStep
    <3>6. ASSUME "css" \notin Aborted, WaitsOK(s, NONE, NONE)
          PROVE  WaitsOK(q, NONE, NONE)
      <4>1. s.content[k].type \in Aborted /\ s.content[k].type # "css"
        BY <1>2, <1>5, <3>6
      <4>2. s.content[k].type = "image"
        <5>1. s.content[k].users \in Seq(Handles) /\ Len(s.content[k].users) \in Nat
          BY <1>1, <2>1, UsersLen
        <5>2. Len(s.content[k].users) > 1
          <6>1. PICK n \in Nat : n = Len(s.content[k].users) /\ n # 1
            BY <2>6, <5>1
          <6>2. PICK i \in 1 .. n : s.content[k].users[i] = h
            BY <2>1, <6>1 DEF Has
          <6>3. n > 1
            <7>1. n # 1 /\ i \in 1 .. n
              BY <6>1
            <7> QED  BY <7>1
          <6> QED  BY <6>1, <6>3
        <5>3. s.content[k].type \notin {"image", "css"} => Len(s.content[k].users) <= 1
          BY <2>1, <3>6 DEF WaitsOK
        <5> QED  BY <4>1, <5>1, <5>2, <5>3
      <4>3. s.content[k].status = "LOADING" => s.ll[s.content[k].ll].told < 3
        <5>1. k # NONE /\ ~s.content[k].converting
          BY <1>5, <2>1, <3>6, <4>2 DEF WaitsOK
        <5> QED  BY <2>1, <3>6, <5>1 DEF WaitsOK
      <4> QED  BY <3>3, <3>6, <4>3 DEF IsCloned
    <3> QED  BY <3>5, <3>6 DEF Fine, Aborts
  <2> QED  BY <2>3, <2>4, <2>5, <2>6
<1> QED  BY <1>4, <1>5

LEMMA AbortStep ==
    ASSUME Good(hl), NEW h \in Handles, hlcache_handle_abort(h)
    PROVE  Aborts(hl, hl')
<1>1. Core(hl, NONE, NONE) /\ ToldOK(hl, {}) /\ PrivateOK(hl, NONE, NONE) /\ hl \in States
  BY DEF Good, Core
<1>2. PICK s : s = [hl EXCEPT !.handle[h].aborted = TRUE]
  OBVIOUS
<1>3. PICK g \in HandleRec : /\ g = [hl.handle[h] EXCEPT !.aborted = TRUE] /\ g.aborted
                             /\ g.used = hl.handle[h].used /\ g.entry = hl.handle[h].entry
                             /\ g.ctx = hl.handle[h].ctx /\ g.told = hl.handle[h].told
  <2>1. PICK z \in HandleRec : z = hl.handle[h]
    BY <1>1 DEF States
  <2>2. /\ [z EXCEPT !.aborted = TRUE] \in HandleRec /\ [z EXCEPT !.aborted = TRUE].aborted
        /\ [z EXCEPT !.aborted = TRUE].used = z.used /\ [z EXCEPT !.aborted = TRUE].entry = z.entry
        /\ [z EXCEPT !.aborted = TRUE].ctx = z.ctx /\ [z EXCEPT !.aborted = TRUE].told = z.told
    BY DEF HandleRec
  <2> QED  BY <2>1, <2>2
<1>4. s = [hl EXCEPT !.handle[h] = g]
  BY <1>2, <1>3
<1>5. /\ g.entry = hl.handle[h].entry /\ (~g.used => g.entry = NONE /\ ~g.aborted)
      /\ (g.entry = NONE => g.told = "none") /\ g.ctx = hl.handle[h].ctx /\ g.used
  BY <1>1, <1>3 DEF hlcache_handle_abort, Used, Core, HandlesOK
<1>6. Core(s, NONE, NONE) /\ IsHandle(hl, s, h, g)
  BY <1>1, <1>4, <1>5, HandleStep
<1>7. Keeps(hl, NONE, s, NONE)
  BY <1>3, <1>5, <1>6, HandleKeeps
<1>8. Fine(hl, s)
  BY <1>1, <1>6, <1>7 DEF Keeps, Fine, Good
<1>9. PICK q \in AbortedBy(s, h) : hl' = IF hl.handle[h].told = "READY" THEN q ELSE Released(q, h, FALSE)
  BY <1>2 DEF hlcache_handle_abort, Becomes
<1>10. s.handle[h].aborted /\ (s.handle[h].entry # NONE => s.content[s.handle[h].entry].type \in Aborted)
  BY <1>3, <1>6 DEF IsHandle, hlcache_handle_abort
<1>11. Aborts(s, q)
  BY <1>8, <1>9, <1>10, AbortedByStep DEF Fine
<1>12. Fine(q, hl')
  BY <1>9, <1>11, ReleaseGood DEF Aborts, Fine
<1> QED  BY <1>8, <1>11, <1>12 DEF Fine, Aborts


-----------------------------------------------------------------------------
(* A fetch that fails *)

\* The list of the elements of a finite set has each of them once.
LEMMA SetToSeqOf ==
    ASSUME NEW S, IsFiniteSet(S), NEW u, u = SetToSeq(S)
    PROVE  u \in Seq(S) /\ Len(u) \in Nat /\ Distinct(u) /\ \A x \in S : Has(u, x)
<1> DEFINE n == Cardinality(S)
<1>1. n \in Nat /\ ExistsBijection(1 .. n, S)
  BY FS_CardinalityType
<1> HIDE DEF n
<1>2. \E f \in [1 .. n -> S] : IsInjective(f)
  BY <1>1 DEF ExistsBijection, Bijection, Injection
<1>3. u \in [1 .. n -> S] /\ IsInjective(u)
  BY <1>2 DEF SetToSeq, n
<1>4. u \in Seq(S) /\ Len(u) = n
  BY <1>1, <1>3
<1>5. Distinct(u)
  BY <1>1, <1>3, <1>4 DEF IsInjective, Distinct
<1>6. u \in Injection(1 .. n, S)
  BY <1>3, Zenon DEF Injection
<1>7. Cardinality(1 .. n) = Cardinality(S)
  BY <1>1, FS_Interval DEF n
<1>8. u \in Surjection(1 .. n, S)
  BY <1>6, <1>7, FS_Injection, Zenon
<1>9. \A x \in S : \E i \in 1 .. n : u[i] = x
  BY <1>8, Zenon DEF Surjection
<1> QED  BY <1>1, <1>4, <1>5, <1>9 DEF Has

\* The states after each handle was told.
FailsAll(v, l) == UNION {Fails(q, l) : q \in v}

LEMMA FailingDef ==
    ASSUME NEW s, NEW u, Len(u) \in Nat
    PROVE  /\ Failing(s, u)[0] = {s}
           /\ \A n \in Nat : n < Len(u) => Failing(s, u)[n + 1] = FailsAll(Failing(s, u)[n], u[n + 1])
<1> DEFINE Is(f, m) == f = [n \in 0 .. m |-> IF n = 0 THEN {s} ELSE FailsAll(f[n - 1], u[n])]
           S == {m \in Nat : \E f : Is(f, m)}
<1>1. 0 \in S
  <2> DEFINE f == [n \in 0 .. 0 |-> {s}]
  <2>1. Is(f, 0)
    OBVIOUS
  <2> QED  BY <2>1
<1>2. ASSUME NEW m \in Nat, m \in S
      PROVE  m + 1 \in S
  <2>1. PICK f : Is(f, m)
    BY <1>2
  <2> DEFINE g == [n \in 0 .. m + 1 |-> IF n = m + 1 THEN FailsAll(f[m], u[m + 1]) ELSE f[n]]
  <2>2. Is(g, m + 1)
    <3> SUFFICES ASSUME NEW n \in 0 .. m + 1
                 PROVE  g[n] = IF n = 0 THEN {s} ELSE FailsAll(g[n - 1], u[n])
      OBVIOUS
    <3> HIDE DEF g
    <3>1. \A i \in 0 .. m + 1 : g[i] = IF i = m + 1 THEN FailsAll(f[m], u[m + 1]) ELSE f[i]
      BY DEF g
    <3>2. CASE n = m + 1
      BY <3>1, <3>2
    <3>3. CASE n # m + 1
      <4>1. n \in 0 .. m /\ (n = 0 \/ n - 1 \in 0 .. m) /\ n - 1 # m + 1
        BY <3>3
      <4>2. f[n] = IF n = 0 THEN {s} ELSE FailsAll(f[n - 1], u[n])
        BY <2>1, <4>1
      <4> QED  BY <3>1, <3>3, <4>1, <4>2
    <3> QED  BY <3>2, <3>3
  <2> HIDE DEF g, Is
  <2> QED  BY <2>2
<1>3. PICK f : Is(f, Len(u))
  <2> HIDE DEF S
  <2>1. Len(u) \in S
    BY <1>1, <1>2, NatInductionSet
  <2> QED  BY <2>1 DEF S
<1>4. Failing(s, u) = CHOOSE g : g = [n \in 0 .. Len(u) |-> IF n = 0 THEN {s} ELSE FailsAll(g[n - 1], u[n])]
  BY DEF Failing, FailsAll
<1>5. Is(Failing(s, u), Len(u))
  BY <1>3, <1>4
<1> DEFINE T == Failing(s, u)
<1> HIDE DEF T
<1>6. Is(T, Len(u))
  BY <1>5 DEF T
<1>7. T[0] = {s}
  BY <1>6
<1>8. ASSUME NEW n \in Nat, n < Len(u)
      PROVE  T[n + 1] = FailsAll(T[n], u[n + 1])
  <2>1. n + 1 \in 0 .. Len(u) /\ n + 1 # 0 /\ (n + 1) - 1 = n
    BY <1>8
  <2>2. T[n + 1] = IF n + 1 = 0 THEN {s} ELSE FailsAll(T[(n + 1) - 1], u[n + 1])
    BY <1>6, <2>1
  <2> QED  BY <2>1, <2>2
<1> QED  BY <1>7, <1>8 DEF T

\* From s to r the handle l of the object o was told of the failure: nobody
\* relies on it any more, and the other handles are as they were.
IsFailed(s, r, l, o) ==
    /\ Core(r, NONE, NONE) /\ ToldOK(r, {}) /\ PrivateOK(r, NONE, o)
    /\ WaitsOK(s, NONE, NONE) => WaitsOK(r, NONE, NONE)
    /\ ~Relied(r, NONE, l)
    /\ \A j \in LLs : Relied(r, NONE, j) => Relied(s, NONE, j)
    /\ \A j \in LLs \ {l} :
          /\ r.ll[j] = s.ll[j]
          /\ s.ll[j].owner # "none" => r.object[s.ll[j].object] = s.object[s.ll[j].object]

\* A handle without a content is told.
LEMMA FailsCtx ==
    ASSUME NEW s, Core(s, NONE, NONE), NEW o, ToldOK(s, {}), PrivateOK(s, NONE, o),
           NEW l \in LLs, s.ll[l].owner = "ctx", NEW p, Core(p, NONE, NONE), IsLLTold(s, p, l, 3),
           NEW r \in Callback(p, OwnerOf(s, l), "ERROR")
    PROVE  IsFailed(s, r, l, o)
<1>1. PICK h : h = OwnerOf(s, l)
  OBVIOUS
<1>2. h \in Handles /\ s.handle[h].ctx = l /\ l # NONE
  BY <1>1, OwnerCtx
<1>3. p.handle = s.handle /\ p.content = s.content /\ p.object = s.object /\ \A j \in LLs \ {l} : p.ll[j] = s.ll[j]
  BY DEF IsLLTold
<1>4. r = Released(p, h, FALSE)
  BY <1>1 DEF Callback
<1>5. p.handle[h].ctx = l /\ p.handle[h].entry = NONE
  BY <1>2, <1>3, HLAssumption DEF Core, HandlesOK
<1>6. Core(r, NONE, NONE) /\ Dropped(p, r, h, l) /\ Keeps(p, h, r, NONE) /\ r.handle[h] = NoHandle
  BY <1>2, <1>4, <1>5, NascentStep
<1>7. Keeps(p, NONE, r, NONE)
  BY <1>2, <1>6, KeepsLess, KeepsTrans
<1>8. ToldOK(p, {}) /\ PrivateOK(p, NONE, o)
  BY LLToldGood
<1>9. ToldOK(r, {}) /\ PrivateOK(r, NONE, o)
  BY <1>7, <1>8 DEF Keeps
<1>10. ASSUME WaitsOK(s, NONE, NONE)
       PROVE  WaitsOK(r, NONE, NONE)
  <2>1. \A g \in Handles : s.handle[g].ctx = l => g = h
    BY <1>2, HLAssumption DEF Core, OwnersOK, CtxOK
  <2>2. \A k \in Contents : ~(s.content[k].status = "LOADING" /\ s.content[k].ll = l)
    BY DEF Core, OwnersOK, EntriesOK
  <2>3. PICK n \in 1 .. 3 : n = 3
    OBVIOUS
  <2>4. IsLLTold(s, p, l, n)
    BY <2>3
  <2>5. WaitsOK(p, h, NONE)
    BY <1>10, <2>1, <2>2, <2>4, ToldWaits
  <2> QED  BY <1>6, <2>5 DEF Keeps
<1>11. ~Relied(r, NONE, l)
  <2>1. r.ll[l].owner = "none"
    BY <1>2, <1>6 DEF Dropped, NoLL
  <2> QED  BY <1>6, <2>1, ReliedLive
<1>12. ASSUME NEW j \in LLs, Relied(r, NONE, j)
       PROVE  Relied(s, NONE, j)
  <2>1. NoHandle.entry = NONE /\ NoHandle.ctx = NONE
    BY DEF NoHandle
  <2>2. r.handle[h].entry = NONE /\ r.handle[h].ctx # j
    BY <1>6, <2>1, HLAssumption
  <2>3. r.content = s.content /\ \A g \in Handles \ {h} : r.handle[g] = s.handle[g]
    BY <1>3, <1>6 DEF Dropped
  <2> QED  BY <1>12, <2>2, <2>3 DEF Relied
<1>13. \A j \in LLs \ {l} :
          /\ r.ll[j] = s.ll[j]
          /\ s.ll[j].owner # "none" => r.object[s.ll[j].object] = s.object[s.ll[j].object]
  BY <1>3, <1>6 DEF Dropped
<1> QED  BY <1>6, <1>9, <1>10, <1>11, <1>12, <1>13 DEF IsFailed


\* The users of a content are told.
LEMMA FailsContent ==
    ASSUME NEW s, Core(s, NONE, NONE), NEW o, ToldOK(s, {}), PrivateOK(s, NONE, o),
           NEW l \in LLs, s.ll[l].owner = "content", s.ll[l].told # 3,
           NEW p, Core(p, NONE, NONE), IsLLTold(s, p, l, 3), NEW k, k = OwnerOf(s, l),
           NEW r \in content_broadcast([p EXCEPT !.content[k].status = "ERROR"], k, "ERROR")
    PROVE  IsFailed(s, r, l, o)
<1>1. k \in Contents /\ s.content[k].ll = l /\ s.content[k].status # "none"
  BY OwnerContent
<1>2. /\ p.handle = s.handle /\ p.content = s.content /\ p.object = s.object /\ p \in States /\ s \in States
      /\ \A j \in LLs \ {l} : p.ll[j] = s.ll[j]
  BY DEF IsLLTold, Core
<1>3. ~s.content[k].locked /\ ~s.content[k].converting
  BY <1>1 DEF Core, ContentsOK
<1>4. PICK z \in ContentRec : z = p.content[k]
  BY <1>1, <1>2 DEF States
<1>5. PICK c \in ContentRec : /\ c = [z EXCEPT !.status = "ERROR"] /\ c.users = z.users /\ c.ll = z.ll
                              /\ c.type = z.type /\ c.status = "ERROR"
                              /\ c.locked = z.locked /\ c.converting = z.converting
  <2>1. /\ [z EXCEPT !.status = "ERROR"] \in ContentRec
        /\ [z EXCEPT !.status = "ERROR"].users = z.users /\ [z EXCEPT !.status = "ERROR"].ll = z.ll
        /\ [z EXCEPT !.status = "ERROR"].type = z.type /\ [z EXCEPT !.status = "ERROR"].status = "ERROR"
        /\ [z EXCEPT !.status = "ERROR"].locked = z.locked
        /\ [z EXCEPT !.status = "ERROR"].converting = z.converting
    BY DEF ContentRec, Statuses
  <2> QED  BY <2>1
<1>6. PICK e : e = [p EXCEPT !.content[k] = c]
  OBVIOUS
<1>7. r \in content_broadcast(e, k, "ERROR")
  BY <1>4, <1>5, <1>6
<1>8. /\ p.content[k].status # "none" /\ c.users = p.content[k].users /\ c.ll = p.content[k].ll
      /\ c.type = p.content[k].type /\ c.status = "ERROR" /\ ~c.locked /\ ~c.converting
  BY <1>1, <1>2, <1>3, <1>4, <1>5
<1>9. Core(e, NONE, NONE) /\ IsSet(p, e, k, c)
  <2>1. /\ c.status # "none" /\ (c.converting => c.locked) /\ (c.locked => c.status = "LOADING")
        /\ c.locked \/ c.status \in {"READY", "DONE"} => p.ll[c.ll].told = 3
    BY <1>8
  <2> QED  BY <1>1, <1>6, <1>8, <2>1, ContentStep, Zenon
<1>10. ToldOK(p, {}) /\ PrivateOK(p, NONE, o)
  BY LLToldGood
<1>11. Announces(e, k, "ERROR")
  <2>1. \A h \in Handles : p.handle[h].entry \in Contents \cup {NONE}
    BY <1>2 DEF States, HandleRec
  <2>2. ToldOK(e, {h \in Handles : e.handle[h].entry = k})
    BY <1>9, <1>10, <2>1 DEF ToldOK, IsSet
  <2> QED  BY <1>1, <1>9, <2>2 DEF Announces
<1>12. Core(r, NONE, NONE) /\ Less(e, r) /\ ToldOK(r, {}) /\ r.content[k].users = <<>>
  BY <1>7, <1>11, BroadcastStep
<1>13. e \in States /\ r \in States
  BY <1>9, <1>12 DEF Core
<1>14. PrivateOK(r, NONE, o)
  <2>1. PrivateOK(e, NONE, o)
    BY <1>2, <1>8, <1>9, <1>10, SetPrivate
  <2> QED  BY <1>12, <1>13, <2>1, LessPrivate
<1>15. ASSUME WaitsOK(s, NONE, NONE)
       PROVE  WaitsOK(r, NONE, NONE)
  <2>1. \A g \in Handles : s.handle[g].ctx # l
    BY HLAssumption DEF Core, OwnersOK, CtxOK
  <2>2. \A j \in Contents : s.content[j].status = "LOADING" /\ s.content[j].ll = l => j = k
    BY <1>1 DEF Core, OwnersOK, EntriesOK
  <2>3. PICK n \in 1 .. 3 : n = 3
    OBVIOUS
  <2>4. IsLLTold(s, p, l, n)
    BY <2>3
  <2>5. WaitsOK(p, NONE, k)
    BY <1>15, <2>1, <2>2, <2>4, ToldWaits
  <2>6. WaitsOK(e, NONE, NONE)
    <3>1. c.status # "LOADING"
      BY <1>8
    <3> QED  BY <1>1, <1>2, <1>8, <1>9, <2>5, <3>1, SetWaits
  <2> QED  BY <1>12, <1>13, <2>6, LessWaits
<1>16. ~Relied(r, NONE, l)
  <2>1. r.content[k].ll = l /\ r.content[k].status # "none"
    BY <1>1, <1>2, <1>8, <1>9, <1>12 DEF Less, IsSet
  <2>2. \A h \in Handles : r.handle[h].entry # k
    BY <1>1, <1>12 DEF Core, UsersOK, Has
  <2> QED  BY <1>1, <1>12, <2>1, <2>2, ReliedBy
<1>17. ASSUME NEW j \in LLs, Relied(r, NONE, j)
       PROVE  Relied(s, NONE, j)
  <2>1. \A h \in Handles : e.handle[h].entry \in Contents \cup {NONE} /\ e.handle = s.handle
    BY <1>2, <1>9, <1>13 DEF States, HandleRec, IsSet
  <2>2. \A i \in Contents : r.content[i].ll = s.content[i].ll
    BY <1>2, <1>8, <1>9, <1>12 DEF Less, IsSet
  <2>3. \A h \in Handles :
          /\ r.handle[h].ctx = s.handle[h].ctx
          /\ \/ r.handle[h].entry = NONE
             \/ /\ r.handle[h].entry = s.handle[h].entry
                /\ r.handle[h].aborted = s.handle[h].aborted
    BY <1>12, <2>1 DEF Less
  <2> QED  BY SMTT(30), <1>17, <2>1, <2>2, <2>3 DEF Relied
<1>18. r.ll = p.ll /\ r.object = s.object
  BY <1>2, <1>9, <1>12 DEF Less, IsSet
<1> QED  BY <1>2, <1>12, <1>14, <1>15, <1>16, <1>17, <1>18 DEF IsFailed

LEMMA FailsStep ==
    ASSUME NEW s, Core(s, NONE, NONE), NEW o, ToldOK(s, {}), PrivateOK(s, NONE, o),
           NEW l \in LLs, s.ll[l].owner # "none", s.ll[l].told # 3,
           s.object[s.ll[l].object].state = "complete", NEW r \in Fails(s, l)
    PROVE  IsFailed(s, r, l, o)
<1>1. PICK n \in 1 .. 3 : n = 3
  OBVIOUS
<1>2. PICK p : p = [s EXCEPT !.ll[l].told = n]
  OBVIOUS
<1>3. Core(p, NONE, NONE) /\ IsLLTold(s, p, l, n)
  BY <1>2, LLToldStep
<1>4. IsLLTold(s, p, l, 3)
  BY <1>1, <1>3
<1>5. s.ll[l].owner \in {"ctx", "content", "download"}
  BY OwnerKnown
<1>6. CASE s.ll[l].owner = "ctx"
  <2>1. r \in Callback(p, OwnerOf(s, l), "ERROR")
    BY <1>1, <1>2, <1>6 DEF Fails
  <2> QED  BY <1>3, <1>4, <1>6, <2>1, FailsCtx
<1>7. CASE s.ll[l].owner = "content"
  <2>1. PICK k : k = OwnerOf(s, l)
    OBVIOUS
  <2>2. r \in content_broadcast([p EXCEPT !.content[k].status = "ERROR"], k, "ERROR")
    BY <1>1, <1>2, <1>7, <2>1 DEF Fails
  <2> QED  BY <1>3, <1>4, <1>7, <2>1, <2>2, FailsContent
<1>8. CASE s.ll[l].owner = "download"
  <2>1. r = p
    BY <1>1, <1>2, <1>8 DEF Fails
  <2>2. ToldOK(p, {}) /\ PrivateOK(p, NONE, o)
    BY <1>4, LLToldGood
  <2>3. p.handle = s.handle /\ p.content = s.content /\ p.object = s.object
        /\ p.ll[l].owner = "download" /\ \A j \in LLs \ {l} : p.ll[j] = s.ll[j]
    BY <1>4, <1>8 DEF IsLLTold
  <2>4. ~Relied(p, NONE, l)
    BY <1>3, <2>3, Unbound, ReliedLive
  <2>5. \A j \in LLs : Relied(p, NONE, j) => Relied(s, NONE, j)
    BY <2>3 DEF Relied
  <2>6. WaitsOK(s, NONE, NONE) => WaitsOK(p, NONE, NONE)
    <3>1. \A g \in Handles : s.handle[g].ctx # l
      BY <1>8, HLAssumption DEF Core, OwnersOK, CtxOK
    <3>2. \A j \in Contents : ~(s.content[j].status = "LOADING" /\ s.content[j].ll = l)
      BY <1>8 DEF Core, OwnersOK, EntriesOK
    <3> QED  BY <1>3, <3>1, <3>2, ToldWaits
  <2> QED  BY <1>3, <2>1, <2>2, <2>3, <2>4, <2>5, <2>6 DEF IsFailed
<1> QED  BY <1>5, <1>6, <1>7, <1>8


\* The object o of s has failed, and u lists its handles, which have not been told.
Failed0(s, o, u) ==
    /\ Core(s, NONE, NONE) /\ ToldOK(s, {}) /\ PrivateOK(s, NONE, o)
    /\ u \in Seq(LLs) /\ Len(u) \in Nat /\ Distinct(u) /\ o # NONE
    /\ \A i \in 1 .. Len(u) : s.ll[u[i]].owner # "none" /\ s.ll[u[i]].object = o /\ s.ll[u[i]].told # 3
    /\ s.object[o].state = "complete"
    /\ \A l \in LLs : s.ll[l].owner # "none" /\ s.ll[l].object = o => Has(u, l)

\* The state q after n of them were told.
FailTurn(s, o, u, n, q) ==
    /\ Core(q, NONE, NONE) /\ ToldOK(q, {}) /\ PrivateOK(q, NONE, o)
    /\ WaitsOK(s, NONE, NONE) => WaitsOK(q, NONE, NONE)
    /\ \A i \in 1 .. n : ~Relied(q, NONE, u[i])
    /\ \A i \in n + 1 .. Len(u) : q.ll[u[i]] = s.ll[u[i]] /\ q.object[o].state = "complete"
    /\ \A l \in LLs : q.ll[l].owner # "none" /\ q.ll[l].object = o => Has(u, l)

LEMMA FailTurnNext ==
    ASSUME NEW s, NEW o, NEW u, Failed0(s, o, u), NEW n \in Nat, n < Len(u), NEW q, FailTurn(s, o, u, n, q),
           NEW r \in Fails(q, u[n + 1])
    PROVE  FailTurn(s, o, u, n + 1, r)
<1>1. u \in Seq(LLs) /\ Len(u) \in Nat /\ Distinct(u) /\ n + 1 \in 1 .. Len(u) /\ n + 1 \in n + 1 .. Len(u)
  BY DEF Failed0
<1>2. PICK l \in LLs : l = u[n + 1]
  BY <1>1
<1>3. q.ll[l] = s.ll[l] /\ q.object[o].state = "complete" /\ s.ll[l].owner # "none" /\ s.ll[l].object = o /\ s.ll[l].told # 3
  BY <1>1, <1>2 DEF Failed0, FailTurn
<1>4. Core(q, NONE, NONE) /\ ToldOK(q, {}) /\ PrivateOK(q, NONE, o)
  BY DEF FailTurn
<1>5. /\ q.ll[l].owner # "none" /\ q.ll[l].told # 3 /\ q.object[q.ll[l].object].state = "complete"
      /\ r \in Fails(q, l)
  BY <1>2, <1>3
<1>6. IsFailed(q, r, l, o)
  BY <1>4, <1>5, FailsStep
<1>7. /\ Core(r, NONE, NONE) /\ ToldOK(r, {}) /\ PrivateOK(r, NONE, o)
      /\ WaitsOK(s, NONE, NONE) => WaitsOK(r, NONE, NONE)
  BY <1>6 DEF IsFailed, FailTurn
<1>8. ASSUME NEW i \in 1 .. n + 1
      PROVE  ~Relied(r, NONE, u[i])
  <2>1. CASE i = n + 1
    BY <1>2, <1>6, <2>1 DEF IsFailed
  <2>2. CASE i # n + 1
    <3>1. i \in 1 .. n /\ i \in 1 .. Len(u)
      BY <1>1, <2>2
    <3>2. u[i] \in LLs /\ ~Relied(q, NONE, u[i])
      BY <1>1, <3>1 DEF FailTurn
    <3> QED  BY <1>6, <3>2 DEF IsFailed
  <2> QED  BY <2>1, <2>2
<1>9. ASSUME NEW i \in (n + 1) + 1 .. Len(u)
      PROVE  r.ll[u[i]] = s.ll[u[i]] /\ r.object[o].state = "complete"
  <2>1. i \in n + 1 .. Len(u) /\ i \in 1 .. Len(u) /\ i # n + 1
    BY <1>1
  <2>2. PICK j \in LLs : j = u[i]
    BY <1>1, <2>1
  <2>3. j # l
    BY <1>1, <1>2, <2>1, <2>2 DEF Distinct
  <2>4. q.ll[j] = s.ll[j] /\ q.object[o].state = "complete"
    BY <2>1, <2>2 DEF FailTurn
  <2>5. s.ll[j].owner # "none" /\ s.ll[j].object = o
    BY <2>1, <2>2 DEF Failed0
  <2>6. r.ll[j] = q.ll[j] /\ (q.ll[j].owner # "none" => r.object[q.ll[j].object] = q.object[q.ll[j].object])
    BY <1>6, <2>3 DEF IsFailed
  <2> QED  BY <2>2, <2>4, <2>5, <2>6
<1>10. ASSUME NEW j \in LLs, r.ll[j].owner # "none", r.ll[j].object = o
       PROVE  Has(u, j)
  <2>1. CASE j = l
    BY <1>1, <1>2, <2>1 DEF Has
  <2>2. CASE j # l
    <3>1. r.ll[j] = q.ll[j]
      BY <1>6, <2>2 DEF IsFailed
    <3> QED  BY <1>10, <3>1 DEF FailTurn
  <2> QED  BY <2>1, <2>2
<1> QED  BY <1>7, <1>8, <1>9, <1>10 DEF FailTurn

\* Every handle of the object has been told, and nothing is left of it that
\* anybody relies on.
LEMMA FailingStep ==
    ASSUME NEW s, NEW o, NEW u, Failed0(s, o, u), NEW r \in Failing(s, u)[Len(u)]
    PROVE  Fine(s, r)
<1> DEFINE T == Failing(s, u)
           S == {n \in Nat : n <= Len(u) => \A q \in T[n] : FailTurn(s, o, u, n, q)}
<1>1. u \in Seq(LLs) /\ Len(u) \in Nat
  BY DEF Failed0
<1>2. T[0] = {s} /\ \A n \in Nat : n < Len(u) => T[n + 1] = FailsAll(T[n], u[n + 1])
  BY <1>1, FailingDef
<1>3. r \in T[Len(u)]
  OBVIOUS
<1> HIDE DEF T
<1>4. 0 \in S
  <2>1. FailTurn(s, o, u, 0, s)
    <3>1. \A i \in 0 + 1 .. Len(u) : i \in 1 .. Len(u)
      BY <1>1
    <3> QED  BY <3>1 DEF Failed0, FailTurn
  <2> QED  BY <1>2, <2>1
<1>5. ASSUME NEW n \in Nat, n \in S
      PROVE  n + 1 \in S
  <2> SUFFICES ASSUME n + 1 <= Len(u), NEW z \in T[n + 1]
               PROVE  FailTurn(s, o, u, n + 1, z)
    OBVIOUS
  <2>1. n < Len(u) /\ n <= Len(u)
    BY <1>1
  <2>2. PICK q \in T[n] : z \in Fails(q, u[n + 1])
    BY <1>2, <2>1 DEF FailsAll
  <2>3. FailTurn(s, o, u, n, q)
    BY <1>5, <2>1
  <2> QED  BY <2>1, <2>2, <2>3, FailTurnNext
<1>6. Len(u) \in S
  <2> HIDE DEF S
  <2> QED  BY <1>1, <1>4, <1>5, NatInductionSet
<1>7. FailTurn(s, o, u, Len(u), r)
  BY <1>1, <1>3, <1>6
<1> HIDE DEF S
<1>8. /\ Core(r, NONE, NONE) /\ ToldOK(r, {}) /\ PrivateOK(r, NONE, o)
      /\ WaitsOK(s, NONE, NONE) => WaitsOK(r, NONE, NONE)
  BY <1>7 DEF FailTurn
<1>9. ASSUME NEW l \in LLs, Relied(r, NONE, l)
      PROVE  r.object[r.ll[l].object].whole
  <2>1. r.ll[l].owner # "none"
    BY <1>8, <1>9, ReliedLive
  <2>2. CASE r.ll[l].object = o
    <3>1. PICK i \in 1 .. Len(u) : u[i] = l
      BY <1>7, <2>1, <2>2 DEF FailTurn, Has
    <3>2. ~Relied(r, NONE, l)
      BY <1>7, <3>1 DEF FailTurn
    <3> QED  BY <1>9, <3>2
  <2>3. CASE r.ll[l].object # o
    BY <1>8, <1>9, <2>3 DEF PrivateOK
  <2> QED  BY <2>2, <2>3
<1> QED  BY <1>8, <1>9 DEF Fine, Good, PrivateOK

LEMMA FetchFailsStep ==
    ASSUME Good(hl), NEW o \in Objects, ERROR(o)
    PROVE  Fine(hl, hl')
<1>1. Core(hl, NONE, NONE) /\ ToldOK(hl, {}) /\ PrivateOK(hl, NONE, NONE) /\ hl \in States /\ o # NONE
  BY HLAssumption DEF Good, Core
<1>2. PICK u : u = SetToSeq(On(hl, o))
  OBVIOUS
<1>3. PICK s : s = [hl EXCEPT !.object[o] = [@ EXCEPT !.state = "complete", !.whole = FALSE]]
  OBVIOUS
<1>4. hl.object[o].state = "fetching" /\ hl' \in Failing(s, u)[Len(u)]
  BY <1>2, <1>3 DEF ERROR, Becomes
<1>5. u \in Seq(On(hl, o)) /\ Len(u) \in Nat /\ Distinct(u) /\ \A x \in On(hl, o) : Has(u, x)
  <2>1. IsFiniteSet(On(hl, o))
    <3>1. On(hl, o) \in SUBSET LLs /\ IsFiniteSet(LLs)
      BY HLAssumption DEF On
    <3> QED  BY <3>1, FS_Subset
  <2> QED  BY <1>2, <2>1, SetToSeqOf
<1>6. PICK x \in ObjectRec : x.state = "complete" /\ s = [hl EXCEPT !.object[o] = x]
  <2>1. PICK z \in ObjectRec : z = hl.object[o]
    BY <1>1 DEF States
  <2>2. [z EXCEPT !.state = "complete", !.whole = FALSE] \in ObjectRec
        /\ [z EXCEPT !.state = "complete", !.whole = FALSE].state = "complete"
    BY DEF ObjectRec
  <2>3. s = [hl EXCEPT !.object[o] = [z EXCEPT !.state = "complete", !.whole = FALSE]]
    BY <1>3, <2>1
  <2> QED  BY <2>2, <2>3
<1>7. IsObject(hl, s, o, x)
  <2>1. x.state # "none"
    BY <1>6
  <2> QED  BY <1>1, <1>6, <2>1, ObjectStep
<1>8. /\ Core(s, NONE, NONE) /\ s.handle = hl.handle /\ s.ll = hl.ll /\ s.content = hl.content
      /\ s.object[o].state = "complete" /\ \A p \in Objects \ {o} : s.object[p] = hl.object[p]
  BY <1>6, <1>7 DEF IsObject
<1>9. ToldOK(s, {}) /\ (WaitsOK(hl, NONE, NONE) => WaitsOK(s, NONE, NONE))
  BY <1>1, <1>8 DEF ToldOK, WaitsOK
<1>10. PrivateOK(s, NONE, o)
  <2> SUFFICES ASSUME NEW l \in LLs, Relied(s, NONE, l), s.ll[l].object # o
               PROVE  s.object[s.ll[l].object].whole
    BY DEF PrivateOK
  <2>1. Relied(hl, NONE, l)
    BY <1>8 DEF Relied
  <2>2. hl.ll[l].object \in Objects
    BY <1>1, <2>1, ReliedLive, Occupied
  <2>3. hl.object[hl.ll[l].object].whole
    BY <1>1, <2>1, <2>2, HLAssumption DEF PrivateOK
  <2> QED  BY <1>8, <2>2, <2>3
<1>11. u \in Seq(LLs) /\ \A i \in 1 .. Len(u) : u[i] \in On(hl, o)
  <2>1. On(hl, o) \subseteq LLs
    BY DEF On
  <2> QED  BY <1>5, <2>1
<1>12. \A l \in On(hl, o) : s.ll[l].owner # "none" /\ s.ll[l].object = o /\ s.ll[l].told # 3
  BY <1>1, <1>4, <1>8, Occupied DEF On
<1>13. \A l \in LLs : s.ll[l].owner # "none" /\ s.ll[l].object = o => Has(u, l)
  BY <1>5, <1>8 DEF On
<1>14. Failed0(s, o, u)
  BY <1>1, <1>5, <1>8, <1>9, <1>10, <1>11, <1>12, <1>13 DEF Failed0
<1>15. Fine(s, hl')
  BY <1>4, <1>14, FailingStep
<1> QED  BY <1>9, <1>15 DEF Fine


-----------------------------------------------------------------------------
(* The invariant holds initially and every step keeps it *)

\* Before anything is retrieved every table is empty.
LEMMA InitGood ==
    ASSUME Init
    PROVE  HInv /\ HWaits
<1>1. /\ hl.handle = [h \in Handles |-> NoHandle] /\ hl.ll = [l \in LLs |-> NoLL]
      /\ hl.content = [k \in Contents |-> NoContent] /\ hl.object = [o \in Objects |-> NoObject]
      /\ hl.content_list = <<>> /\ hl.fault = FALSE
  BY DEF Init
<1>2. NoHandle \in HandleRec /\ NoLL \in LLRec /\ NoObject \in ObjectRec
  BY DEF NoHandle, NoLL, NoObject, HandleRec, LLRec, ObjectRec, KnownTypes
<1>3. NoContent \in ContentRec
  BY DEF NoContent, ContentRec, Statuses, KnownTypes
<1>4. hl \in States
  <2>1. PICK a \in HandleRec : a = NoHandle
    BY <1>2
  <2>2. PICK b \in LLRec : b = NoLL
    BY <1>2
  <2>3. PICK c \in ContentRec : c = NoContent
    BY <1>3
  <2>4. PICK d \in ObjectRec : d = NoObject
    BY <1>2
  <2>5. /\ [h \in Handles |-> a] \in [Handles -> HandleRec] /\ [l \in LLs |-> b] \in [LLs -> LLRec]
        /\ [k \in Contents |-> c] \in [Contents -> ContentRec]
        /\ [o \in Objects |-> d] \in [Objects -> ObjectRec] /\ <<>> \in Seq(Contents)
    OBVIOUS
  <2>6. hl = [handle |-> [h \in Handles |-> a], ll |-> [l \in LLs |-> b],
              content |-> [k \in Contents |-> c], object |-> [o \in Objects |-> d],
              content_list |-> <<>>, fault |-> FALSE]
    BY <2>1, <2>2, <2>3, <2>4, Zenon DEF Init
  <2> QED  BY <2>5, <2>6 DEF States
<1>5. /\ \A h \in Handles : hl.handle[h] = NoHandle
      /\ \A l \in LLs : hl.ll[l] = NoLL
      /\ \A k \in Contents : hl.content[k] = NoContent
  BY <1>1
<1>6. /\ ~NoHandle.used /\ NoHandle.entry = NONE /\ NoHandle.ctx = NONE /\ NoHandle.told = "none"
      /\ ~NoHandle.aborted
  BY DEF NoHandle
<1>7. /\ NoContent.status = "none" /\ NoContent.users = <<>> /\ ~NoContent.locked
      /\ ~NoContent.converting
  BY DEF NoContent
<1>8. NoLL.owner = "none"
  BY DEF NoLL
<1>9. HandlesOK(hl, NONE)
  BY <1>5, <1>6 DEF HandlesOK
<1>10. UsersOK(hl)
  <2>1. Distinct(<<>>) /\ \A h : ~Has(<<>>, h)
    BY DEF Distinct, Has
  <2>2. \A k \in Contents : hl.content[k].users = <<>> /\ k # NONE
    BY <1>5, <1>7, HLAssumption
  <2>3. \A h \in Handles : hl.handle[h].entry = NONE
    BY <1>5, <1>6
  <2> QED  BY <2>1, <2>2, <2>3 DEF UsersOK
<1>11. OwnersOK(hl, NONE, NONE)
  BY <1>5, <1>6, <1>7, <1>8 DEF OwnersOK, CtxOK, EntriesOK, OwnedOK
<1>12. LLsOK(hl, NONE)
  BY <1>5, <1>8 DEF LLsOK
<1>13. ContentsOK(hl)
  BY <1>5, <1>7 DEF ContentsOK
<1>14. ToldOK(hl, {})
  BY <1>5, <1>6 DEF ToldOK
<1>15. PrivateOK(hl, NONE, NONE)
  <2> SUFFICES ASSUME NEW l \in LLs, Relied(hl, NONE, l) PROVE FALSE
    BY DEF PrivateOK
  <2> QED  BY <1>5, <1>6, HLAssumption DEF Relied
<1>16. WaitsOK(hl, NONE, NONE)
  <2>1. Len(<<>>) <= 1
    OBVIOUS
  <2> QED  BY <1>5, <1>6, <1>7, <2>1 DEF WaitsOK
<1> QED  BY <1>1, <1>4, <1>9, <1>10, <1>11, <1>12, <1>13, <1>14, <1>15, <1>16 DEF HInv, HWaits, Good, Core

\* The operations one by one: each has its lemma.
LEMMA NextGood ==
    ASSUME HInv, [Next]_hl
    PROVE  Aborts(hl, hl')
<1>1. Good(hl)
  BY DEF HInv
<1>2. Fine(hl, hl') => Aborts(hl, hl')
  BY DEF Fine, Aborts
<1>3. CASE UNCHANGED hl
  BY <1>1, <1>3 DEF Aborts
<1>4. ASSUME NEW h \in Handles, hlcache_handle_retrieve(h) PROVE Fine(hl, hl')
  BY <1>1, <1>4, RetrieveStep
<1>5. ASSUME NEW h \in Handles, hlcache_handle_release(h) PROVE Fine(hl, hl')
  <2>1. PICK s : s = hl
    OBVIOUS
  <2>2. PICK r : r = hl'
    OBVIOUS
  <2>3. Good(s) /\ r = Released(s, h, FALSE)
    BY <1>1, <1>5, <2>1, <2>2 DEF hlcache_handle_release
  <2>4. Fine(s, r)
    BY <2>3, ReleaseGood
  <2> QED  BY <2>1, <2>2, <2>4
<1>6. ASSUME NEW h \in Handles, hlcache_handle_abort(h) PROVE Aborts(hl, hl')
  BY <1>1, <1>6, AbortStep
<1>7. ASSUME NEW l \in LLs, HAD_HEADERS(l) PROVE Fine(hl, hl')
  BY <1>1, <1>7, HeadersStep
<1>8. ASSUME NEW l \in LLs, HAD_DATA(l) PROVE Fine(hl, hl')
  BY <1>1, <1>8, DataStep
<1>9. ASSUME NEW l \in LLs, DONE(l) PROVE Fine(hl, hl')
  BY <1>1, <1>9, EndStep
<1>10. ASSUME NEW l \in LLs, DownloadEnds(l) PROVE Fine(hl, hl')
  BY <1>1, <1>10, DownloadEndsStep
<1>11. ASSUME NEW o \in Objects, Arrives(o) PROVE Fine(hl, hl')
  BY <1>1, <1>11, ArrivesStep
<1>12. ASSUME NEW o \in Objects, ERROR(o) PROVE Fine(hl, hl')
  BY <1>1, <1>12, FetchFailsStep
<1>13. ASSUME NEW o \in Objects, NotModified(o) PROVE Fine(hl, hl')
  BY <1>1, <1>13, NotModifiedStep
<1>14. ASSUME NEW k \in Contents, ContentReady(k) PROVE Fine(hl, hl')
  BY <1>1, <1>14, ContentReadyStep
<1>15. ASSUME NEW k \in Contents, ContentDone(k) PROVE Fine(hl, hl')
  BY <1>1, <1>15, ContentDoneStep
<1>16. ASSUME NEW k \in Contents, ContentFails(k) PROVE Fine(hl, hl')
  BY <1>1, <1>16, ContentFailsStep
<1>17. CASE hlcache_clean
  BY <1>1, <1>17, <1>2, CleanStep
<1> QED
  BY <1>2, <1>3, <1>4, <1>5, <1>6, <1>7, <1>8, <1>9, <1>10, <1>11, <1>12, <1>13, <1>14, <1>15,
     <1>16, <1>17 DEF Next

-----------------------------------------------------------------------------
(* What the invariant says of the properties *)

LEMMA UsersFromInv ==
    ASSUME HInv
    PROVE  UsersAreHandles
<1>1. hl \in States /\ HandlesOK(hl, NONE) /\ UsersOK(hl)
  BY DEF HInv, Good, Core
<1> SUFFICES ASSUME NEW k \in Contents, NEW h \in Handles
             PROVE  h \in Range(hl.content[k].users) <=> (hl.handle[h].used /\ hl.handle[h].entry = k)
  BY DEF UsersAreHandles
<1>2. PICK u \in Seq(Handles) : u = hl.content[k].users
  BY <1>1 DEF States, ContentRec
<1>3. h \in Range(u) <=> Has(u, h)
  BY DEF Range, Has
<1>4. Has(u, h) <=> hl.handle[h].entry = k
  BY <1>1, <1>2 DEF UsersOK
<1>5. hl.handle[h].entry = k => hl.handle[h].used
  BY <1>1, HLAssumption DEF HandlesOK
<1> QED  BY <1>2, <1>3, <1>4, <1>5

LEMMA OwnedFromInv ==
    ASSUME HInv
    PROVE  LLOwnedOnce
<1>1. hl \in States /\ CtxOK(hl, NONE, NONE) /\ EntriesOK(hl, NONE) /\ OwnedOK(hl, NONE, NONE)
  BY DEF HInv, Good, Core, OwnersOK
<1> SUFFICES ASSUME NEW l \in LLs
             PROVE  Cardinality({h \in Handles : hl.handle[h].ctx = l})
                    + Cardinality({k \in Contents : hl.content[k].status # "none" /\ hl.content[k].ll = l})
                    = IF hl.ll[l].owner \in {"ctx", "content"} THEN 1 ELSE 0
  BY DEF LLOwnedOnce
<1> DEFINE A == {h \in Handles : hl.handle[h].ctx = l}
           B == {k \in Contents : hl.content[k].status # "none" /\ hl.content[k].ll = l}
<1>2. NONE \notin Handles /\ NONE \notin LLs
  BY HLAssumption
<1>3. \A h \in A : hl.ll[l].owner = "ctx" /\ \A g \in A : g = h
  BY <1>1, <1>2 DEF CtxOK
<1>4. \A k \in B : hl.ll[l].owner = "content" /\ \A j \in B : j = k
  BY <1>1 DEF EntriesOK
<1>5. /\ hl.ll[l].owner = "ctx" => A # {}
      /\ hl.ll[l].owner = "content" => B # {}
  BY <1>1, <1>2 DEF OwnedOK
<1>6. Cardinality({}) = 0 /\ \A x : Cardinality({x}) = 1
  BY FS_EmptySet, FS_Singleton
<1>7. CASE hl.ll[l].owner = "ctx"
  <2>1. PICK h : A = {h}
    BY <1>3, <1>5, <1>7
  <2>2. B = {}
    BY <1>4, <1>7
  <2>3. Cardinality(A) = 1 /\ Cardinality(B) = 0
    BY <1>6, <2>1, <2>2, Zenon
  <2> HIDE DEF A, B
  <2>4. Cardinality(A) + Cardinality(B) = 1
    BY <2>3
  <2> QED  BY <1>7, <2>4 DEF A, B
<1>8. CASE hl.ll[l].owner = "content"
  <2>1. PICK k : B = {k}
    BY <1>4, <1>5, <1>8
  <2>2. A = {}
    BY <1>3, <1>8
  <2>3. Cardinality(A) = 0 /\ Cardinality(B) = 1
    BY <1>6, <2>1, <2>2, Zenon
  <2> HIDE DEF A, B
  <2>4. Cardinality(A) + Cardinality(B) = 1
    BY <2>3
  <2> QED  BY <1>8, <2>4 DEF A, B
<1>9. CASE hl.ll[l].owner \notin {"ctx", "content"}
  <2>1. A = {} /\ B = {}
    BY <1>3, <1>4, <1>9
  <2>2. Cardinality(A) = 0 /\ Cardinality(B) = 0
    BY <1>6, <2>1, Zenon
  <2> HIDE DEF A, B
  <2>3. Cardinality(A) + Cardinality(B) = 0
    BY SMTT(30), <2>2
  <2> QED  BY <1>9, <2>3 DEF A, B
<1> QED  BY <1>7, <1>8, <1>9

LEMMA PrivateFromInv ==
    ASSUME HInv
    PROVE  AbortIsPrivate
<1>1. Core(hl, NONE, NONE) /\ PrivateOK(hl, NONE, NONE)
  BY SMTT(30) DEF HInv, Good
<1> SUFFICES ASSUME NEW h \in Used(hl), hl.handle[h].entry # NONE, ~hl.handle[h].aborted
             PROVE  hl.object[hl.ll[hl.content[hl.handle[h].entry].ll].object].whole
  BY Zenon DEF AbortIsPrivate
<1>2. h \in Handles
  BY DEF Used
<1>3. PICK k \in Contents : k = hl.handle[h].entry
  BY <1>1, <1>2 DEF Core, States, HandleRec
<1>4. hl.content[k].status # "none" /\ hl.content[k].ll \in LLs
  <2>1. Has(hl.content[k].users, h)
    BY <1>1, <1>2, <1>3 DEF Core, UsersOK
  <2>2. hl.content[k].status = "none" => hl.content[k].users = <<>>
    BY <1>1 DEF Core, ContentsOK, NoContent
  <2>3. hl.content[k].status # "none"
    BY <2>1, <2>2 DEF Has
  <2> QED  BY <1>1, <2>3 DEF Core, OwnersOK, EntriesOK
<1>5. PICK l \in LLs : l = hl.content[k].ll
  BY <1>4
<1>6. Relied(hl, NONE, l)
  BY <1>2, <1>3, <1>5 DEF Relied
<1>7. hl.ll[l].object # NONE
  BY <1>1, <1>4, <1>5, HLAssumption DEF Core, OwnersOK, EntriesOK, LLsOK
<1> QED  BY Zenon, <1>1, <1>3, <1>5, <1>6, <1>7 DEF PrivateOK

-----------------------------------------------------------------------------
(* Theorems *)

(* HInv is an invariant of the high-level cache: the tables are typed, the  *)
(* lists of users, the owners of low-level handles and the flags of         *)
(* contents agree with each other, nothing has failed, every user is told   *)
(* in step, and what somebody relies on was not stopped.                    *)
THEOREM HLCacheInvariant == Spec => []HInv
<1>1. Init => HInv
  BY InitGood
<1>2. HInv /\ [Next]_hl => HInv'
  <2> SUFFICES ASSUME HInv, [Next]_hl PROVE Good(hl')
    BY DEF HInv
  <2> QED  BY NextGood DEF Aborts
<1> QED  BY <1>1, <1>2, PTL DEF Spec

(* No assertion of content.c and hlcache.c fails and nothing freed is used, *)
(* whatever clients release, and when, while content_broadcast() walks the  *)
(* list of users or hlcache_migrate_ctx() gives a context away.             *)
THEOREM HLCacheNeverFaults == Spec => []NoFault
<1>1. HInv => NoFault
  BY DEF HInv, Good, Core, NoFault
<1> QED  BY <1>1, HLCacheInvariant, PTL

(* Every handle in use is in the list of users of its content and in no     *)
(* other, and every low-level handle belongs to one context, one content or *)
(* a download: hlcache.c neither leaks nor releases one twice.              *)
THEOREM EverythingOwnedOnce == Spec => []Ownership
<1>1. HInv => Ownership
  BY UsersFromInv, OwnedFromInv DEF Ownership
<1> QED  BY <1>1, HLCacheInvariant, PTL

(* A handle has been told exactly how far its content is, whenever it       *)
(* joined: content_add_user() and the catching up of                        *)
(* hlcache_migrate_ctx() agree with the broadcasts.                         *)
THEOREM UsersAreToldInStep == Spec => []ToldInStep
<1>1. HInv => ToldInStep
  BY DEF HInv, Good, ToldOK, ToldInStep, Used
<1> QED  BY <1>1, HLCacheInvariant, PTL

(* hlcache_handle_abort() concerns the handle that was aborted only,        *)
(* whichever types of content clients abort: nobody else relies on an       *)
(* object whose fetch was stopped before its end.                           *)
THEOREM AbortsArePrivate == Spec => []AbortIsPrivate
<1>1. HInv => AbortIsPrivate
  BY PrivateFromInv
<1> QED  BY <1>1, HLCacheInvariant, PTL

(* As long as no client aborts a stylesheet, the one kind of content that   *)
(* is both shared and converted over several steps, nobody waits for a call *)
(* that does not come.                                                      *)
THEOREM NobodyIsLeftWaiting ==
    ASSUME "css" \notin Aborted
    PROVE  Spec => []NobodyWaitsInVain
<1>1. Init => HInv /\ HWaits
  BY InitGood
<1>2. HInv /\ HWaits /\ [Next]_hl => HInv' /\ HWaits'
  <2> SUFFICES ASSUME HInv, HWaits, [Next]_hl PROVE Good(hl') /\ WaitsOK(hl', NONE, NONE)
    BY DEF HInv, HWaits
  <2>1. Aborts(hl, hl')
    BY NextGood
  <2> QED  BY <2>1 DEF Aborts, HWaits
<1>3. HWaits => NobodyWaitsInVain
  <2>1. NONE \notin Handles /\ NONE \notin Contents
    BY HLAssumption
  <2> QED  BY <2>1 DEF HWaits, WaitsOK, NobodyWaitsInVain
<1> QED  BY <1>1, <1>2, <1>3, PTL DEF Spec


=============================================================================
