---------------------------- MODULE StoreLemmas ----------------------------
(***************************************************************************)
(* What each operation of the backing store keeps, for any URLs, number of  *)
(* blocks and limits, and whatever is stored.                               *)
(*                                                                         *)
(* The predicates are stated of any store s, of the references h that its   *)
(* clients own, and of what was last stored, l, because an operation goes   *)
(* through several stores: an eviction, the new entry, the write.           *)
(***************************************************************************)
EXTENDS BackingStore, FiniteSetTheorems, WellFoundedInduction, TLAPS

\* An element is on the heap while it is referenced, and only then.
HeapOK(s) ==
    \A u \in Urls, e \in Elems : s.entries[u] # NONE =>
       /\ s.entries[u].elem[e].heap <=> s.entries[u].elem[e].ref > 0
       /\ s.entries[u].elem[e].heap => s.entries[u].elem[e].data # NONE

\* The index has no element on the heap.
SavedOff(s) ==
    s.saved.entries # NONE => \A u \in Urls, e \in Elems : s.saved.entries[u] # NONE =>
       ~s.saved.entries[u].elem[e].heap /\ s.saved.entries[u].elem[e].ref = 0

Flags(s) ==
    /\ ~s.open => s.entries = NoEntries /\ ~s.maint
    /\ s.maint => s.entries_dirty
    /\ s.blocks_dirty => s.entries_dirty

Basic(s) == IsStore(s) /\ HeapOK(s) /\ SavedOff(s) /\ Flags(s)

\* The blocks that a table names are marked, and each is named once.
Owned(t, marked) ==
    \A u \in Urls, e \in Elems : t[u] # NONE /\ t[u].elem[e].block # 0 =>
       /\ t[u].elem[e].block \in marked[e]
       /\ \A w \in Urls : w # u /\ t[w] # NONE => t[w].elem[e].block # t[u].elem[e].block

\* The blocks that are in use after a restart.
SavedMap(s) == IF s.saved.blocks = NONE THEN [e \in Elems |-> {0}] ELSE s.saved.blocks

\* A process that has taken no block uses blocks of the index only.
UseSaved(s) == s.open /\ ~s.blocks_dirty => \A e \in Elems : s.use_map[e] \subseteq SavedMap(s)[e]

LiveOwned(s) == Owned(s.entries, s.use_map)

SavedOwned(s) == ~s.maint /\ s.saved.entries # NONE => Owned(s.saved.entries, SavedMap(s))

BlocksOK(s) == UseSaved(s) /\ LiveOwned(s) /\ SavedOwned(s)

\* What a table says is in a block or a file was the last to be stored.
Holds(t, s, l) ==
    \A u \in Urls, e \in Elems : t[u] # NONE =>
       /\ t[u].elem[e].block # 0 => t[u].elem[e].size <= 1
       /\ t[u].elem[e].size > 0 =>
            /\ l[u][e] # NONE /\ l[u][e].size = t[u].elem[e].size
            /\ t[u].elem[e].heap => t[u].elem[e].data = l[u][e]
            /\ t[u].elem[e].block = 0 => s.file[e][u] \in {l[u][e], NONE}
            /\ t[u].elem[e].block # 0 =>
                  s.block[e][t[u].elem[e].block] = [data |-> l[u][e], piece |-> 0]

DiscOK(s, l) ==
    /\ Holds(s.entries, s, l)
    /\ ~s.maint /\ s.saved.entries # NONE => Holds(s.saved.entries, s, l)

-----------------------------------------------------------------------------
(* Elements, entries and stores.                                            *)

LEMMA NewFacts ==
    /\ NewElement \in Element(Stored) /\ NewEntry \in Entry(Stored)
    /\ NewElement.size = 0 /\ NewElement.block = 0 /\ NewElement.ref = 0 /\ ~NewElement.heap
    /\ \A e \in Elems : NewEntry.elem[e] = NewElement
  BY StoreAssumption DEF NewElement, NewEntry, Element, Entry, Blocks

LEMMA StoreFields ==
    ASSUME NEW s, IsStore(s)
    PROVE  /\ s.entries \in Table(Stored)
           /\ \A u \in Urls : s.entries[u] # NONE => s.entries[u] \in Entry(Stored)
           /\ s.saved.entries # NONE =>
                /\ s.saved.entries \in Table(Stored)
                /\ \A u \in Urls : s.saved.entries[u] # NONE => s.saved.entries[u] \in Entry(Stored)
           /\ s.use_map \in UseMap /\ SavedMap(s) \in UseMap
<1>1. [e \in Elems |-> {0}] \in UseMap
  BY StoreAssumption DEF UseMap, Blocks
<1> QED  BY <1>1 DEF IsStore, Table, SavedMap

LEMMA EntryFields ==
    ASSUME NEW x \in Entry(Stored), NEW e \in Elems
    PROVE  x.elem[e] \in Element(Stored) /\ x.elem \in [Elems -> Element(Stored)]
  BY DEF Entry

LEMMA NatMin ==
    ASSUME NEW S \in SUBSET Nat, S # {}
    PROVE  Min(S) \in S
<1>1. PICK x \in S : \A y \in S : ~(<<y, x>> \in OpToRel(<, Nat))
  BY NatLessThanWellFounded, WFMin, Zenon
<1>2. \A y \in S : ~(y < x)
  BY <1>1, Zenon DEF OpToRel
<1>3. \A y \in S : x =< y
  BY <1>2
<1> QED  BY <1>3 DEF Min

\* alloc_block() returns a block that is not in use, or 0.
LEMMA AllocFacts ==
    ASSUME NEW s, IsStore(s), NEW e \in Elems
    PROVE  /\ AllocBlock(s, e) \in Blocks
           /\ Blocks \ s.use_map[e] # {} => AllocBlock(s, e) \notin s.use_map[e]
           /\ Blocks \ s.use_map[e] = {} => AllocBlock(s, e) = 0
<1> DEFINE free == Blocks \ s.use_map[e]
<1>1. CASE free = {}
  BY <1>1, StoreAssumption DEF AllocBlock, Blocks
<1>2. CASE free # {}
  <2>1. free \in SUBSET Nat
    BY StoreAssumption DEF Blocks
  <2> HIDE DEF free
  <2>2. Min(free) \in free
    BY <1>2, <2>1, NatMin
  <2> QED  BY <1>2, <2>2 DEF free, AllocBlock
<1> QED  BY <1>1, <1>2

-----------------------------------------------------------------------------
(* Entries that go.                                                         *)

\* r is s without some of the entries that were not in use, and with others
\* marked: what invalidate_entry() and store_evict() do.
Fewer(s, r) ==
    /\ IsStore(r)
    /\ r.open = s.open /\ r.maint = s.maint /\ r.entries_dirty = s.entries_dirty
    /\ r.blocks_dirty = s.blocks_dirty /\ r.block = s.block /\ r.saved = s.saved
    /\ \A u \in Urls : r.entries[u] # NONE =>
          s.entries[u] # NONE /\ r.entries[u].elem = s.entries[u].elem
    /\ \A u \in Urls, e \in Elems : s.entries[u] # NONE /\ r.entries[u] = NONE =>
          ~s.entries[u].elem[e].heap
    /\ \A e \in Elems :
          /\ r.use_map[e] \subseteq s.use_map[e]
          /\ \A b \in s.use_map[e] :
                b \in r.use_map[e]
                \/ \E u \in Urls : /\ s.entries[u] # NONE /\ r.entries[u] = NONE
                                   /\ b # 0 /\ s.entries[u].elem[e].block = b
    /\ \A e \in Elems, u \in Urls : r.file[e][u] \in {s.file[e][u], NONE}

LEMMA InvalidateFewer ==
    ASSUME NEW s, IsStore(s), NEW V \in SUBSET Entries(s)
    PROVE  Fewer(s, InvalidateEntries(s, V))
<1> DEFINE gone == {u \in V : ~InUse(s, u)}
           ents == [u \in Urls |-> CASE u \in gone -> NONE
                                     [] u \in V \ gone -> [s.entries[u] EXCEPT !.invalid = TRUE]
                                     [] OTHER -> s.entries[u]]
           map == [e \in Elems |-> s.use_map[e] \ ({s.entries[u].elem[e].block : u \in gone} \ {0})]
           files == [e \in Elems |-> [u \in Urls |->
                      IF u \in gone /\ s.entries[u].elem[e].block = 0 THEN NONE ELSE s.file[e][u]]]
           total == s.total_alloc - TotalSize(s, gone)
           r == InvalidateEntries(s, V)
<1>1. r = [s EXCEPT !.entries = ents, !.use_map = map, !.file = files, !.total_alloc = total]
  BY DEF InvalidateEntries
<1>2. V \subseteq Urls /\ gone \subseteq V /\ \A u \in V : s.entries[u] \in Entry(Stored)
  BY StoreFields DEF Entries
<1>3. \A u \in gone, e \in Elems : ~s.entries[u].elem[e].heap
  BY DEF InUse
<1> HIDE DEF total, gone
<1>4. ents \in Table(Stored)
  <2>1. \A u \in V : [s.entries[u] EXCEPT !.invalid = TRUE] \in Entry(Stored)
    BY <1>2 DEF Entry
  <2> QED  BY <1>2, <2>1, StoreFields DEF Table
<1>5. map \in UseMap
  BY StoreFields DEF UseMap
<1>6. files \in [Elems -> [Urls -> Stored \cup {NONE}]]
  BY DEF IsStore
<1>7. \A u \in Urls : /\ u \in gone => ents[u] = NONE
                      /\ u \notin gone /\ u \notin V => ents[u] = s.entries[u]
                      /\ u \notin gone /\ u \in V => ents[u] = [s.entries[u] EXCEPT !.invalid = TRUE]
  OBVIOUS
<1>8. \A u \in Urls, e \in Elems : files[e][u] \in {s.file[e][u], NONE}
  OBVIOUS
<1>9. \A e \in Elems : /\ map[e] \subseteq s.use_map[e]
                       /\ \A b \in s.use_map[e] : b \in map[e]
                             \/ \E u \in gone : b # 0 /\ s.entries[u].elem[e].block = b
  OBVIOUS
<1> HIDE DEF ents, map, files, r
<1>10. /\ IsStore(r)
       /\ r.open = s.open /\ r.maint = s.maint /\ r.entries_dirty = s.entries_dirty
       /\ r.blocks_dirty = s.blocks_dirty /\ r.block = s.block /\ r.saved = s.saved
       /\ r.entries = ents /\ r.use_map = map /\ r.file = files
  BY <1>1, <1>4, <1>5, <1>6 DEF IsStore
<1>11. \A u \in Urls : r.entries[u] # NONE => s.entries[u] # NONE /\ r.entries[u].elem = s.entries[u].elem
  <2> SUFFICES ASSUME NEW u \in Urls, ents[u] # NONE
               PROVE  s.entries[u] # NONE /\ ents[u].elem = s.entries[u].elem
    BY <1>10
  <2>1. CASE u \in V
    BY <1>2, <1>7, <2>1, NoneAssumption DEF Entry
  <2>2. CASE u \notin V
    BY <1>2, <1>7, <2>2
  <2> QED  BY <2>1, <2>2
<1>12. \A u \in Urls : s.entries[u] # NONE /\ r.entries[u] = NONE => u \in gone
  <2> SUFFICES ASSUME NEW u \in Urls, s.entries[u] # NONE, ents[u] = NONE, u \notin gone
               PROVE  FALSE
    BY <1>10
  <2>1. u \in V
    BY <1>7
  <2>2. [s.entries[u] EXCEPT !.invalid = TRUE] \in Entry(Stored)
    BY <1>2, <2>1 DEF Entry
  <2> QED  BY <1>7, <2>1, <2>2, NoneAssumption
<1>13. \A u \in gone : s.entries[u] # NONE /\ r.entries[u] = NONE /\ u \in Urls
  BY <1>2, <1>7, <1>10, NoneAssumption
<1> QED  BY <1>3, <1>8, <1>9, <1>10, <1>11, <1>12, <1>13 DEF Fewer, r

LEMMA EvictedFewer ==
    ASSUME NEW s, IsStore(s), NEW v \in Evicted(s)
    PROVE  Fewer(s, v)
<1>1. CASE v = s
  BY <1>1 DEF Fewer
<1>2. CASE v # s
  <2>1. PICK V \in Victims(s) : v = InvalidateEntries(s, V)
    BY <1>2 DEF Evicted
  <2>2. V \in SUBSET Entries(s)
    BY DEF Victims
  <2> QED  BY <2>1, <2>2, InvalidateFewer
<1> QED  BY <1>1, <1>2

LEMMA FewerBasic ==
    ASSUME NEW s, NEW r, Basic(s), Fewer(s, r)
    PROVE  Basic(r)
<1>1. HeapOK(r)
  BY DEF Basic, Fewer, HeapOK
<1>2. SavedOff(r)
  BY DEF Basic, Fewer, SavedOff
<1>3. Flags(r)
  <2>1. ~r.open => r.entries = NoEntries
    <3> SUFFICES ASSUME ~r.open
                 PROVE  r.entries = NoEntries
      OBVIOUS
    <3>1. s.entries = NoEntries /\ r.entries \in Table(Stored)
      BY StoreFields DEF Basic, Fewer, Flags
    <3>2. \A u \in Urls : r.entries[u] = NONE
      BY <3>1 DEF Fewer, NoEntries
    <3> QED  BY <3>1, <3>2 DEF NoEntries, Table
  <2> QED  BY <2>1 DEF Basic, Fewer, Flags
<1> QED  BY <1>1, <1>2, <1>3 DEF Basic, Fewer

LEMMA FewerBlocks ==
    ASSUME NEW s, NEW r, BlocksOK(s), Fewer(s, r)
    PROVE  BlocksOK(r)
<1>1. UseSaved(r)
  BY DEF BlocksOK, Fewer, UseSaved, SavedMap
<1>2. SavedOwned(r)
  BY DEF BlocksOK, Fewer, SavedOwned, SavedMap
<1>3. LiveOwned(r)
  <2> SUFFICES ASSUME NEW u \in Urls, NEW e \in Elems, r.entries[u] # NONE,
                      r.entries[u].elem[e].block # 0
               PROVE  /\ r.entries[u].elem[e].block \in r.use_map[e]
                      /\ \A w \in Urls : w # u /\ r.entries[w] # NONE =>
                            r.entries[w].elem[e].block # r.entries[u].elem[e].block
    BY DEF LiveOwned, Owned
  <2>1. s.entries[u] # NONE /\ r.entries[u].elem = s.entries[u].elem
    BY DEF Fewer
  <2>2. /\ s.entries[u].elem[e].block \in s.use_map[e]
        /\ \A w \in Urls : w # u /\ s.entries[w] # NONE =>
              s.entries[w].elem[e].block # s.entries[u].elem[e].block
    BY <2>1 DEF BlocksOK, LiveOwned, Owned
  <2> QED  BY <2>1, <2>2 DEF Fewer
<1> QED  BY <1>1, <1>2, <1>3 DEF BlocksOK

\* A table says the same of a disc on which only files are gone.
LEMMA HoldsOn ==
    ASSUME NEW t, NEW q, NEW s, NEW r, NEW l, Holds(t, s, l),
           r.block = s.block,
           \A e \in Elems, u \in Urls : r.file[e][u] \in {s.file[e][u], NONE},
           \A u \in Urls : q[u] # NONE => t[u] # NONE /\ q[u].elem = t[u].elem
    PROVE  Holds(q, r, l)
<1> SUFFICES ASSUME NEW u \in Urls, NEW e \in Elems, q[u] # NONE
             PROVE  /\ q[u].elem[e].block # 0 => q[u].elem[e].size <= 1
                    /\ q[u].elem[e].size > 0 =>
                        /\ l[u][e] # NONE /\ l[u][e].size = q[u].elem[e].size
                        /\ q[u].elem[e].heap => q[u].elem[e].data = l[u][e]
                        /\ q[u].elem[e].block = 0 => r.file[e][u] \in {l[u][e], NONE}
                        /\ q[u].elem[e].block # 0 =>
                              r.block[e][q[u].elem[e].block] = [data |-> l[u][e], piece |-> 0]
  BY DEF Holds
<1> DEFINE x == t[u].elem[e]
<1>1. q[u].elem[e] = x /\ t[u] # NONE
  OBVIOUS
<1>2. /\ x.block # 0 => x.size <= 1
      /\ x.size > 0 =>
            /\ l[u][e] # NONE /\ l[u][e].size = x.size
            /\ x.heap => x.data = l[u][e]
            /\ x.block = 0 => s.file[e][u] \in {l[u][e], NONE}
            /\ x.block # 0 => s.block[e][x.block] = [data |-> l[u][e], piece |-> 0]
  BY <1>1 DEF Holds
<1> HIDE DEF x
<1> QED  BY <1>1, <1>2

LEMMA HoldsSame ==
    ASSUME NEW t, NEW s, NEW r, NEW l, Holds(t, s, l), r.block = s.block, r.file = s.file
    PROVE  Holds(t, r, l)
  BY HoldsOn

LEMMA FewerDisc ==
    ASSUME NEW s, NEW r, NEW l, DiscOK(s, l), Fewer(s, r)
    PROVE  DiscOK(r, l)
<1>1. /\ r.block = s.block /\ r.saved = s.saved /\ r.maint = s.maint
      /\ \A e \in Elems, u \in Urls : r.file[e][u] \in {s.file[e][u], NONE}
      /\ \A u \in Urls : r.entries[u] # NONE =>
            s.entries[u] # NONE /\ r.entries[u].elem = s.entries[u].elem
  BY DEF Fewer
<1>2. Holds(r.entries, r, l)
  BY <1>1, HoldsOn DEF DiscOK
<1>3. ~r.maint /\ r.saved.entries # NONE => Holds(r.saved.entries, r, l)
  BY <1>1, HoldsOn DEF DiscOK
<1> QED  BY <1>2, <1>3 DEF DiscOK

-----------------------------------------------------------------------------
(* Storing an element: set_store_entry() and the write.                     *)

EntryOf(s, u) == IF s.entries[u] = NONE THEN NewEntry ELSE s.entries[u]

\* r is s after set_store_entry() gave the element the block b.
Set(s, r, u, e, data, b) ==
    /\ IsStore(r)
    /\ r.open = s.open /\ r.block = s.block /\ r.file = s.file /\ r.saved = s.saved
    /\ r.maint = TRUE /\ r.entries_dirty = TRUE
    /\ r.entries[u] # NONE
    /\ r.entries[u].elem[e] = [size |-> data.size, block |-> b, heap |-> TRUE, ref |-> 1, data |-> data]
    /\ \A d \in Elems : d # e => r.entries[u].elem[d] = EntryOf(s, u).elem[d]
    /\ \A w \in Urls : w # u => r.entries[w] = s.entries[w]
    /\ \A d \in Elems : d # e => r.use_map[d] = s.use_map[d]
    /\ b \in Blocks
    /\ data.size <= 1 => \/ /\ b \notin s.use_map[e] /\ r.use_map[e] = s.use_map[e] \cup {b}
                            /\ r.blocks_dirty = TRUE
                         \/ /\ b = 0 /\ r.use_map[e] = s.use_map[e]
                            /\ r.blocks_dirty = s.blocks_dirty
    /\ data.size > 1 => /\ b = EntryOf(s, u).elem[e].block
                        /\ r.use_map[e] = s.use_map[e] /\ r.blocks_dirty = s.blocks_dirty

LEMMA SetFacts ==
    ASSUME NEW s, IsStore(s), NEW u \in Urls, NEW e \in Elems, NEW data \in Stored, data.size \in Nat
    PROVE  \E b \in Blocks : Set(s, SetElement(s, u, e, data), u, e, data, b)
<1> DEFINE ent == EntryOf(s, u)
           fits == data.size <= 1
           b == IF fits THEN AllocBlock(s, e) ELSE ent.elem[e].block
           found == fits /\ Blocks \ s.use_map[e] # {}
           el == [size |-> data.size, block |-> b, heap |-> TRUE, ref |-> 1, data |-> data]
           new == [ent EXCEPT !.elem[e] = el]
           map == IF found THEN s.use_map[e] \cup {b} ELSE s.use_map[e]
           dirty == s.blocks_dirty \/ found
           total == s.total_alloc - ent.elem[e].size + data.size
           r == SetElement(s, u, e, data)
<1>1. r = [s EXCEPT !.entries[u] = new, !.total_alloc = total, !.use_map[e] = map,
                    !.blocks_dirty = dirty, !.entries_dirty = TRUE, !.maint = TRUE]
  BY DEF SetElement, EntryOf
<1>2. ent \in Entry(Stored)
  BY StoreFields, NewFacts DEF EntryOf
<1>3. b \in Blocks
  BY <1>2, AllocFacts, EntryFields DEF Element
<1>4. /\ fits => \/ b \notin s.use_map[e] /\ map = s.use_map[e] \cup {b} /\ dirty = TRUE
                 \/ b = 0 /\ map = s.use_map[e] /\ dirty = s.blocks_dirty
      /\ ~fits => b = ent.elem[e].block /\ map = s.use_map[e] /\ dirty = s.blocks_dirty
  <2>0. s.blocks_dirty \in BOOLEAN
    BY DEF IsStore
  <2>1. CASE found
    BY <2>0, <2>1, AllocFacts
  <2>2. CASE ~found
    BY <2>0, <2>2, AllocFacts
  <2> QED  BY <2>1, <2>2
<1>5. map \in SUBSET Blocks /\ dirty \in BOOLEAN
  BY <1>3, StoreFields DEF UseMap, IsStore
<1>s. fits <=> ~(data.size > 1)
  OBVIOUS
<1> HIDE DEF ent, fits, found, b, map, dirty, total
<1>6. el \in Element(Stored)
  BY <1>3 DEF Element
<1> HIDE DEF el
<1>7. /\ new \in Entry(Stored) /\ new.elem[e] = el
      /\ \A d \in Elems : d # e => new.elem[d] = ent.elem[d]
  BY <1>2, <1>6 DEF Entry
<1> HIDE DEF new, r
<1>8. /\ IsStore(r)
      /\ r.open = s.open /\ r.block = s.block /\ r.file = s.file /\ r.saved = s.saved
      /\ r.maint = TRUE /\ r.entries_dirty = TRUE /\ r.blocks_dirty = dirty
      /\ r.entries = [s.entries EXCEPT ![u] = new]
      /\ r.use_map = [s.use_map EXCEPT ![e] = map]
  <2> DEFINE ents == [s.entries EXCEPT ![u] = new]
             maps == [s.use_map EXCEPT ![e] = map]
  <2>1. r = [s EXCEPT !.entries = ents, !.total_alloc = total, !.use_map = maps,
                      !.blocks_dirty = dirty, !.entries_dirty = TRUE, !.maint = TRUE]
    BY <1>1
  <2>2. ents \in Table(Stored)
    BY <1>7, StoreFields DEF Table
  <2>3. maps \in UseMap
    BY <1>5, StoreFields DEF UseMap
  <2> HIDE DEF ents, maps
  <2>4. /\ IsStore(r)
        /\ r.open = s.open /\ r.block = s.block /\ r.file = s.file /\ r.saved = s.saved
        /\ r.maint = TRUE /\ r.entries_dirty = TRUE /\ r.blocks_dirty = dirty
        /\ r.entries = ents /\ r.use_map = maps
    BY <2>1, <2>2, <2>3, <1>5 DEF IsStore
  <2> QED  BY <2>4 DEF ents, maps
<1>9. r.entries[u] = new /\ \A w \in Urls : w # u => r.entries[w] = s.entries[w]
  BY <1>8, StoreFields DEF Table
<1>10. r.use_map[e] = map /\ \A d \in Elems : d # e => r.use_map[d] = s.use_map[d]
  BY <1>8, StoreFields DEF UseMap
<1>11. new # NONE
  BY <1>7, NoneAssumption
<1>12. Set(s, r, u, e, data, b)
  BY <1>3, <1>4, <1>s, <1>7, <1>8, <1>9, <1>10, <1>11 DEF Set, el, ent, fits
<1> QED  BY <1>3, <1>12 DEF r

LEMMA SetBasic ==
    ASSUME NEW s, NEW r, NEW u \in Urls, NEW e \in Elems, NEW data \in Stored, NEW b,
           Basic(s), s.open, Set(s, r, u, e, data, b)
    PROVE  Basic(r)
<1>1. HeapOK(r)
  <2> SUFFICES ASSUME NEW w \in Urls, NEW d \in Elems, r.entries[w] # NONE
               PROVE  LET x == r.entries[w].elem[d]
                      IN  (x.heap <=> x.ref > 0) /\ (x.heap => x.data # NONE)
    BY DEF HeapOK
  <2>1. CASE w # u
    BY <2>1 DEF Set, Basic, HeapOK
  <2>2. CASE w = u /\ d # e
    BY <2>2, NewFacts DEF Set, Basic, HeapOK, EntryOf
  <2>3. CASE w = u /\ d = e
    BY <2>3, NoneAssumption DEF Set
  <2> QED  BY <2>1, <2>2, <2>3
<1>2. SavedOff(r)
  BY DEF Set, Basic, SavedOff
<1>3. Flags(r)
  BY DEF Set, Flags
<1> QED  BY <1>1, <1>2, <1>3 DEF Basic, Set

LEMMA SetBlocks ==
    ASSUME NEW s, NEW r, NEW u \in Urls, NEW e \in Elems, NEW data \in Stored, NEW b,
           data.size \in Nat, IsStore(s), BlocksOK(s), Set(s, r, u, e, data, b)
    PROVE  BlocksOK(r)
<1>0. data.size <= 1 \/ data.size > 1
  OBVIOUS
<1>1. UseSaved(r)
  <2> SUFFICES ASSUME r.open, ~r.blocks_dirty
               PROVE  \A d \in Elems : r.use_map[d] \subseteq SavedMap(r)[d]
    BY DEF UseSaved
  <2>1. r.use_map[e] = s.use_map[e] /\ ~s.blocks_dirty
    BY <1>0 DEF Set
  <2>2. \A d \in Elems : r.use_map[d] = s.use_map[d]
    BY <2>1 DEF Set
  <2> QED  BY <2>1, <2>2 DEF BlocksOK, UseSaved, SavedMap, Set
<1>2. SavedOwned(r)
  BY DEF Set, SavedOwned
<1>3. LiveOwned(r)
  <2>1. r.entries[u].elem[e].block = b
    BY DEF Set
  <2>2. \A d \in Elems : s.use_map[d] \subseteq r.use_map[d]
    BY <1>0 DEF Set
  <2>o. Owned(s.entries, s.use_map)
    BY DEF BlocksOK, LiveOwned
  <2>3. ASSUME NEW w \in Urls, s.entries[w] # NONE, w # u, b # 0
        PROVE  s.entries[w].elem[e].block # b
    <3>1. CASE data.size <= 1
      <4>1. b \notin s.use_map[e]
        BY <2>3, <3>1 DEF Set
      <4> QED  BY <4>1, <2>o, <2>3 DEF Owned
    <3>2. CASE data.size > 1
      <4>1. b = EntryOf(s, u).elem[e].block
        BY <3>2 DEF Set
      <4>2. s.entries[u] # NONE
        BY <4>1, <2>3, NewFacts DEF EntryOf
      <4> QED  BY <4>1, <4>2, <2>3, <2>o DEF Owned, EntryOf
    <3> QED  BY <1>0, <3>1, <3>2
  <2>4. b # 0 => b \in r.use_map[e]
    <3>1. CASE data.size <= 1
      BY <3>1 DEF Set
    <3>2. CASE data.size > 1
      <4>1. b = EntryOf(s, u).elem[e].block
        BY <3>2 DEF Set
      <4>2. b # 0 => s.entries[u] # NONE
        BY <4>1, NewFacts DEF EntryOf
      <4> QED  BY <4>1, <4>2, <2>o, <2>2 DEF Owned, EntryOf
    <3> QED  BY <1>0, <3>1, <3>2
  <2>5. \A d \in Elems : d # e /\ r.entries[u].elem[d].block # 0 =>
              s.entries[u] # NONE /\ r.entries[u].elem[d] = s.entries[u].elem[d]
    BY NewFacts DEF Set, EntryOf
  <2>6. \A w \in Urls : w # u => r.entries[w] = s.entries[w]
    BY DEF Set
  <2>7. ASSUME NEW w \in Urls, NEW d \in Elems, r.entries[w] # NONE, r.entries[w].elem[d].block # 0
        PROVE  r.entries[w].elem[d].block \in r.use_map[d]
    BY <2>o, <2>1, <2>2, <2>4, <2>5, <2>6, <2>7 DEF Owned
  <2>8. ASSUME NEW w \in Urls, NEW d \in Elems, r.entries[w] # NONE, r.entries[w].elem[d].block # 0,
               NEW x \in Urls, x # w, r.entries[x] # NONE
        PROVE  r.entries[x].elem[d].block # r.entries[w].elem[d].block
    <3>1. CASE w # u /\ x # u
      BY <2>o, <2>6, <2>8, <3>1 DEF Owned
    <3>2. CASE d = e /\ w = u
      BY <2>1, <2>3, <2>6, <2>8, <3>2
    <3>3. CASE d = e /\ x = u
      BY <2>1, <2>3, <2>6, <2>8, <3>3
    <3>4. CASE d # e /\ w = u
      <4>1. s.entries[u] # NONE /\ r.entries[u].elem[d] = s.entries[u].elem[d]
        BY <2>5, <2>8, <3>4
      <4>2. r.entries[x] = s.entries[x] /\ s.entries[u].elem[d].block # 0
        BY <4>1, <2>6, <2>8, <3>4
      <4>3. s.entries[x].elem[d].block # s.entries[u].elem[d].block
        BY <4>1, <4>2, <2>o, <2>8, <3>4 DEF Owned
      <4> QED  BY <4>1, <4>2, <4>3, <3>4
    <3>5. CASE d # e /\ x = u
      <4>1. SUFFICES ASSUME r.entries[u].elem[d].block # 0
                     PROVE  r.entries[x].elem[d].block # r.entries[w].elem[d].block
        BY <2>8, <3>5
      <4>2. s.entries[u] # NONE /\ r.entries[u].elem[d] = s.entries[u].elem[d]
        BY <2>5, <3>5, <4>1
      <4>3. r.entries[w] = s.entries[w]
        BY <2>6, <2>8, <3>5
      <4>4. s.entries[w].elem[d].block # s.entries[u].elem[d].block
        BY <4>1, <4>2, <4>3, <2>o, <2>8, <3>5 DEF Owned
      <4> QED  BY <4>2, <4>3, <4>4, <3>5
    <3> QED  BY <2>8, <3>1, <3>2, <3>3, <3>4, <3>5
  <2> QED  BY <2>7, <2>8 DEF LiveOwned, Owned
<1> QED  BY <1>1, <1>2, <1>3 DEF BlocksOK

\* r is s after the element was written.
Written(s, r, u, e) ==
    LET el == s.entries[u].elem[e] IN
    /\ IsStore(r)
    /\ r.open = s.open /\ r.maint = s.maint /\ r.entries_dirty = s.entries_dirty
    /\ r.blocks_dirty = s.blocks_dirty /\ r.entries = s.entries /\ r.use_map = s.use_map
    /\ r.saved = s.saved
    /\ \A d \in Elems : d # e => r.block[d] = s.block[d]
    /\ \A d \in Elems, w \in Urls : d # e \/ w # u \/ el.block # 0 => r.file[d][w] = s.file[d][w]
    /\ el.block = 0 => r.block = s.block /\ r.file[e][u] = el.data
    /\ el.block # 0 => \A c \in Blocks :
          r.block[e][c] = IF c \in el.block .. el.block + el.size - 1
                          THEN [data |-> el.data, piece |-> c - el.block] ELSE s.block[e][c]

LEMMA WriteFacts ==
    ASSUME NEW s, IsStore(s), NEW u \in Urls, NEW e \in Elems, s.entries[u] # NONE,
           s.entries[u].elem[e].data \in Stored
    PROVE  Written(s, WriteElement(s, u, e), u, e)
<1> DEFINE el == s.entries[u].elem[e]
           r == WriteElement(s, u, e)
           piece(c) == [data |-> el.data, piece |-> c - el.block]
           blk == [b \in Blocks |-> IF b \in el.block .. el.block + el.size - 1
                                    THEN piece(b) ELSE s.block[e][b]]
           blks == [s.block EXCEPT ![e] = blk]
           fil == [s.file[e] EXCEPT ![u] = el.data]
           fils == [s.file EXCEPT ![e] = fil]
<1>0. el \in Element(Stored) /\ el.block \in Nat /\ el.size \in Nat
  BY StoreFields, EntryFields, StoreAssumption DEF Element, Blocks
<1>1. CASE el.block # 0
  <2>1. r = [s EXCEPT !.block = blks]
    BY <1>1 DEF WriteElement, IsStore
  <2>2. \A b \in Blocks : b \in el.block .. el.block + el.size - 1 => piece(b) \in Piece(Stored)
    BY <1>0, StoreAssumption DEF Piece, Blocks
  <2>3. \A b \in Blocks : s.block[e][b] \in Piece(Stored) \cup {NONE}
    BY DEF IsStore
  <2>4. \A b \in Blocks : blk[b] = IF b \in el.block .. el.block + el.size - 1
                                   THEN piece(b) ELSE s.block[e][b]
    OBVIOUS
  <2>5. blk \in [Blocks -> Piece(Stored) \cup {NONE}]
    BY <2>2, <2>3
  <2> HIDE DEF blk
  <2>6. blks \in [Elems -> [Blocks -> Piece(Stored) \cup {NONE}]]
    BY <2>5 DEF IsStore
  <2>7. blks[e] = blk /\ \A d \in Elems : d # e => blks[d] = s.block[d]
    BY DEF IsStore
  <2> HIDE DEF blks, r
  <2>8. /\ IsStore(r)
        /\ r.open = s.open /\ r.maint = s.maint /\ r.entries_dirty = s.entries_dirty
        /\ r.blocks_dirty = s.blocks_dirty /\ r.entries = s.entries /\ r.use_map = s.use_map
        /\ r.saved = s.saved /\ r.file = s.file /\ r.block = blks
    BY <2>1, <2>6 DEF IsStore
  <2> QED  BY <1>1, <2>4, <2>7, <2>8 DEF Written, r
<1>2. CASE el.block = 0
  <2>1. r = [s EXCEPT !.file = fils]
    BY <1>2 DEF WriteElement, IsStore
  <2>2. fil \in [Urls -> Stored \cup {NONE}]
    BY DEF IsStore
  <2>3. fil[u] = el.data /\ \A w \in Urls : w # u => fil[w] = s.file[e][w]
    BY DEF IsStore
  <2> HIDE DEF fil
  <2>4. fils \in [Elems -> [Urls -> Stored \cup {NONE}]]
    BY <2>2 DEF IsStore
  <2>5. fils[e] = fil /\ \A d \in Elems : d # e => fils[d] = s.file[d]
    BY DEF IsStore
  <2> HIDE DEF fils, r
  <2>6. /\ IsStore(r)
        /\ r.open = s.open /\ r.maint = s.maint /\ r.entries_dirty = s.entries_dirty
        /\ r.blocks_dirty = s.blocks_dirty /\ r.entries = s.entries /\ r.use_map = s.use_map
        /\ r.saved = s.saved /\ r.block = s.block /\ r.file = fils
    BY <2>1, <2>4 DEF IsStore
  <2> QED  BY <1>2, <2>3, <2>5, <2>6 DEF Written, r
<1> QED  BY <1>1, <1>2

LEMMA WrittenKeeps ==
    ASSUME NEW s, NEW r, NEW u \in Urls, NEW e \in Elems, Written(s, r, u, e)
    PROVE  (Basic(s) => Basic(r)) /\ (BlocksOK(s) => BlocksOK(r))
  BY DEF Written, Basic, HeapOK, SavedOff, Flags, BlocksOK, UseSaved, LiveOwned, SavedOwned, SavedMap

\* A stored element that is not larger than its block disturbs no other, and
\* is the last one stored.
LEMMA StoredDisc ==
    ASSUME NEW s, NEW m, NEW r, NEW u \in Urls, NEW e \in Elems, NEW data \in Stored, NEW b \in Blocks,
           NEW l, l \in [Urls -> [Elems -> Stored \cup {NONE}]],
           data.size \in Nat, IsStore(s), DiscOK(s, l), BlocksOK(m),
           Set(s, m, u, e, data, b), Written(m, r, u, e),
           b # 0 => data.size <= 1
    PROVE  DiscOK(r, [l EXCEPT ![u][e] = data])
<1> DEFINE k == [l EXCEPT ![u][e] = data]
           x == m.entries[u].elem[e]
<1>1. /\ x.size = data.size /\ x.block = b /\ x.heap = TRUE /\ x.data = data /\ m.entries[u] # NONE
      /\ r.entries = m.entries /\ r.maint = TRUE
  BY DEF Set, Written
<1>2. k[u][e] = data /\ \A w \in Urls, d \in Elems : w # u \/ d # e => k[w][d] = l[w][d]
  OBVIOUS
<1> HIDE DEF k, x
<1>3. ASSUME NEW w \in Urls, NEW d \in Elems, m.entries[w] # NONE, w # u \/ d # e
      PROVE  /\ m.entries[w].elem[d].block # 0 => m.entries[w].elem[d].size <= 1
             /\ m.entries[w].elem[d].size > 0 =>
                  /\ k[w][d] # NONE /\ k[w][d].size = m.entries[w].elem[d].size
                  /\ m.entries[w].elem[d].heap => m.entries[w].elem[d].data = k[w][d]
                  /\ m.entries[w].elem[d].block = 0 => r.file[d][w] \in {k[w][d], NONE}
                  /\ m.entries[w].elem[d].block # 0 =>
                        r.block[d][m.entries[w].elem[d].block] = [data |-> k[w][d], piece |-> 0]
  <2> DEFINE y == m.entries[w].elem[d]
  <2>1. y = NewElement \/ (s.entries[w] # NONE /\ y = s.entries[w].elem[d])
    <3>1. CASE w # u
      BY <1>3, <3>1 DEF Set
    <3>2. CASE w = u
      <4>1. y = EntryOf(s, u).elem[d]
        BY <1>3, <3>2 DEF Set
      <4> HIDE DEF y
      <4>2. CASE s.entries[u] = NONE
        <5>1. EntryOf(s, u) = NewEntry
          BY <4>2 DEF EntryOf
        <5>2. EntryOf(s, u).elem[d] = NewElement
          BY <5>1, NewFacts
        <5> QED  BY <4>1, <5>2
      <4>3. CASE s.entries[u] # NONE
        BY <3>2, <4>1, <4>3 DEF EntryOf
      <4> QED  BY <4>2, <4>3
    <3> QED  BY <3>1, <3>2
  <2>2. y.block \in Blocks
    <3>1. m.entries[w] \in Entry(Stored)
      BY <1>3, StoreFields DEF Set
    <3> QED  BY <3>1, EntryFields DEF Element
  <2>3. r.file[d][w] = s.file[d][w]
    BY <1>3 DEF Set, Written
  <2>4. y.block # 0 => r.block[d][y.block] = s.block[d][y.block]
    <3> SUFFICES ASSUME y.block # 0
                 PROVE  r.block[d][y.block] = s.block[d][y.block]
      OBVIOUS
    <3>1. CASE d # e \/ b = 0
      BY <3>1, <1>1 DEF Set, Written, x
    <3>2. CASE d = e /\ b # 0
      <4>1. w # u /\ y.block # b
        BY <1>1, <1>3, <3>2 DEF BlocksOK, LiveOwned, Owned, x
      <4>2. y.block \notin b .. b + data.size - 1
        BY <3>2, <4>1, <2>2, StoreAssumption DEF Blocks
      <4>3. r.block[e][y.block] = m.block[e][y.block]
        BY ZenonT(60), <1>1, <2>2, <3>2, <4>2 DEF Written, x
      <4> QED  BY <3>2, <4>3 DEF Set
    <3> QED  BY <3>1, <3>2
  <2> HIDE DEF y
  <2>5. k[w][d] = l[w][d]
    BY <1>2, <1>3
  <2>6. CASE y = NewElement
    BY <2>6, NewFacts DEF y
  <2>7. CASE s.entries[w] # NONE /\ y = s.entries[w].elem[d]
    <3>1. /\ y.block # 0 => y.size <= 1
          /\ y.size > 0 =>
               /\ l[w][d] # NONE /\ l[w][d].size = y.size
               /\ y.heap => y.data = l[w][d]
               /\ y.block = 0 => s.file[d][w] \in {l[w][d], NONE}
               /\ y.block # 0 => s.block[d][y.block] = [data |-> l[w][d], piece |-> 0]
      BY ZenonT(60), <2>7 DEF DiscOK, Holds
    <3> QED  BY <3>1, <2>3, <2>4, <2>5 DEF y
  <2> QED  BY <2>1, <2>6, <2>7
<1>4. /\ x.block = 0 => r.file[e][u] = data
      /\ x.block # 0 /\ data.size > 0 => r.block[e][x.block] = [data |-> data, piece |-> 0]
  <2>1. CASE b = 0
    BY <2>1, <1>1 DEF Written, x
  <2>2. CASE b # 0
    <3> SUFFICES ASSUME data.size > 0
                 PROVE  r.block[e][b] = [data |-> data, piece |-> 0]
      BY <2>2, <1>1
    <3>1. b \in b .. b + data.size - 1 /\ b - b = 0
      BY StoreAssumption DEF Blocks
    <3> QED  BY <2>2, <3>1, <1>1 DEF Written, x
  <2> QED  BY <2>1, <2>2
<1>5. Holds(r.entries, r, k)
  <2> SUFFICES ASSUME NEW w \in Urls, NEW d \in Elems, m.entries[w] # NONE
               PROVE  /\ m.entries[w].elem[d].block # 0 => m.entries[w].elem[d].size <= 1
                      /\ m.entries[w].elem[d].size > 0 =>
                           /\ k[w][d] # NONE /\ k[w][d].size = m.entries[w].elem[d].size
                           /\ m.entries[w].elem[d].heap => m.entries[w].elem[d].data = k[w][d]
                           /\ m.entries[w].elem[d].block = 0 => r.file[d][w] \in {k[w][d], NONE}
                           /\ m.entries[w].elem[d].block # 0 =>
                                 r.block[d][m.entries[w].elem[d].block] = [data |-> k[w][d], piece |-> 0]
    BY <1>1 DEF Holds
  <2>1. CASE w # u \/ d # e
    BY <2>1, <1>3
  <2>2. CASE w = u /\ d = e
    BY <2>2, <1>1, <1>2, <1>4, NoneAssumption DEF x
  <2> QED  BY <2>1, <2>2
<1> QED  BY <1>1, <1>5 DEF DiscOK, k

-----------------------------------------------------------------------------
(* Fetching and releasing.                                                  *)

\* r is s with maintenance asked for and a new element, y, in the entry, which
\* has the same place and size.
Retaken(s, r, u, e, y) ==
    /\ IsStore(r)
    /\ r.open = s.open /\ r.blocks_dirty = s.blocks_dirty /\ r.use_map = s.use_map
    /\ r.block = s.block /\ r.file = s.file /\ r.saved = s.saved
    /\ r.maint = TRUE /\ r.entries_dirty = TRUE
    /\ r.entries[u] # NONE /\ r.entries[u].elem[e] = y
    /\ \A d \in Elems : d # e => r.entries[u].elem[d] = s.entries[u].elem[d]
    /\ \A w \in Urls : w # u => r.entries[w] = s.entries[w]

LEMMA RetakenFacts ==
    ASSUME NEW s, IsStore(s), NEW u \in Urls, s.entries[u] # NONE, NEW e \in Elems,
           NEW y \in Element(Stored)
    PROVE  Retaken(s, [Touched(s) EXCEPT !.entries[u].elem[e] = y], u, e, y)
<1> DEFINE r == [Touched(s) EXCEPT !.entries[u].elem[e] = y]
           elems == [s.entries[u].elem EXCEPT ![e] = y]
           ent == [s.entries[u] EXCEPT !.elem = elems]
           ents == [s.entries EXCEPT ![u] = ent]
<1>1. s.entries[u] \in Entry(Stored) /\ s.entries \in Table(Stored)
  BY StoreFields
<1>2. elems \in [Elems -> Element(Stored)] /\ elems[e] = y
      /\ \A d \in Elems : d # e => elems[d] = s.entries[u].elem[d]
  BY <1>1 DEF Entry
<1>3. r = [s EXCEPT !.entries = ents, !.entries_dirty = TRUE, !.maint = TRUE]
  BY DEF Touched, IsStore
<1> HIDE DEF elems
<1>4. ent \in Entry(Stored) /\ ent.elem = elems
  BY <1>1, <1>2 DEF Entry
<1> HIDE DEF ent
<1>5. ents \in Table(Stored) /\ ents[u] = ent /\ \A w \in Urls : w # u => ents[w] = s.entries[w]
  BY <1>1, <1>4 DEF Table
<1> HIDE DEF ents, r
<1>6. /\ IsStore(r)
      /\ r.open = s.open /\ r.blocks_dirty = s.blocks_dirty /\ r.use_map = s.use_map
      /\ r.block = s.block /\ r.file = s.file /\ r.saved = s.saved
      /\ r.maint = TRUE /\ r.entries_dirty = TRUE /\ r.entries = ents
  BY <1>3, <1>5 DEF IsStore
<1>7. ent # NONE
  BY <1>4, NoneAssumption
<1> QED  BY <1>2, <1>4, <1>5, <1>6, <1>7 DEF Retaken, r

LEMMA RetakenKeeps ==
    ASSUME NEW s, NEW u \in Urls, s.entries[u] # NONE, NEW e \in Elems, NEW y, NEW r,
           Basic(s), s.open, Retaken(s, r, u, e, y),
           y.size = s.entries[u].elem[e].size, y.block = s.entries[u].elem[e].block,
           y.heap <=> y.ref > 0, y.heap => y.data # NONE
    PROVE  /\ Basic(r)
           /\ BlocksOK(s) => BlocksOK(r)
           /\ \A l : DiscOK(s, l) /\ (y.heap /\ y.size > 0 => y.data = l[u][e]) => DiscOK(r, l)
<1>0. \A w \in Urls : r.entries[w] # NONE => s.entries[w] # NONE
  BY DEF Retaken
<1>1. \A w \in Urls, d \in Elems : r.entries[w] # NONE =>
        /\ w # u \/ d # e => r.entries[w].elem[d] = s.entries[w].elem[d]
        /\ r.entries[w].elem[d].block = s.entries[w].elem[d].block
        /\ r.entries[w].elem[d].size = s.entries[w].elem[d].size
  BY DEF Retaken
<1>2. r.entries[u].elem[e] = y
  BY DEF Retaken
<1>3. Basic(r)
  <2>1. HeapOK(r)
    BY <1>0, <1>1, <1>2 DEF Basic, HeapOK
  <2>2. SavedOff(r)
    BY DEF Basic, Retaken, SavedOff
  <2>3. Flags(r)
    BY DEF Basic, Retaken, Flags
  <2> QED  BY <2>1, <2>2, <2>3 DEF Basic, Retaken
<1>4. ASSUME BlocksOK(s)
      PROVE  BlocksOK(r)
  <2>1. UseSaved(r) /\ SavedOwned(r)
    BY <1>4 DEF BlocksOK, Retaken, UseSaved, SavedOwned, SavedMap
  <2>2. LiveOwned(r)
    <3>1. Owned(s.entries, s.use_map) /\ r.use_map = s.use_map
      BY <1>4 DEF BlocksOK, LiveOwned, Retaken
    <3> QED  BY SMTT(30), <1>0, <1>1, <3>1 DEF LiveOwned, Owned
  <2> QED  BY <2>1, <2>2 DEF BlocksOK
<1>5. ASSUME NEW l, DiscOK(s, l), y.heap /\ y.size > 0 => y.data = l[u][e]
      PROVE  DiscOK(r, l)
  <2>1. Holds(s.entries, s, l) /\ r.block = s.block /\ r.file = s.file /\ r.maint = TRUE
    BY <1>5 DEF DiscOK, Retaken
  <2>2. ASSUME NEW w \in Urls, NEW d \in Elems, r.entries[w] # NONE
        PROVE  /\ r.entries[w].elem[d].block # 0 => r.entries[w].elem[d].size <= 1
               /\ r.entries[w].elem[d].size > 0 =>
                    /\ l[w][d] # NONE /\ l[w][d].size = r.entries[w].elem[d].size
                    /\ r.entries[w].elem[d].heap => r.entries[w].elem[d].data = l[w][d]
                    /\ r.entries[w].elem[d].block = 0 => r.file[d][w] \in {l[w][d], NONE}
                    /\ r.entries[w].elem[d].block # 0 =>
                          r.block[d][r.entries[w].elem[d].block] = [data |-> l[w][d], piece |-> 0]
    <3> DEFINE x == s.entries[w].elem[d]
               z == r.entries[w].elem[d]
    <3>1. s.entries[w] # NONE /\ z.block = x.block /\ z.size = x.size
      BY SMTT(30), <1>0, <1>1, <2>2
    <3>2. /\ x.block # 0 => x.size <= 1
          /\ x.size > 0 =>
               /\ l[w][d] # NONE /\ l[w][d].size = x.size
               /\ x.heap => x.data = l[w][d]
               /\ x.block = 0 => s.file[d][w] \in {l[w][d], NONE}
               /\ x.block # 0 => s.block[d][x.block] = [data |-> l[w][d], piece |-> 0]
      BY <2>1, <3>1 DEF Holds
    <3>3. x.size > 0 /\ z.heap => z.data = l[w][d]
      <4>1. CASE w = u /\ d = e
        BY <4>1, <1>2, <1>5, <3>1
      <4>2. CASE w # u \/ d # e
        <5>1. z = x
          BY <4>2, <1>1, <2>2
        <5> HIDE DEF x, z
        <5> QED  BY <5>1, <3>2
      <4> QED  BY <4>1, <4>2
    <3> HIDE DEF x, z
    <3> QED  BY <2>1, <3>1, <3>2, <3>3 DEF z
  <2> QED  BY <2>1, <2>2 DEF DiscOK, Holds
<1> QED  BY <1>3, <1>4, <1>5

\* What is read from the disc is the last stored, or nothing.
LEMMA ReadFacts ==
    ASSUME NEW s, IsStore(s), NEW u \in Urls, s.entries[u] # NONE, NEW e \in Elems
    PROVE  /\ ReadElement(s, u, e) \in Stored \cup {NONE}
           /\ \A l \in [Urls -> [Elems -> Stored \cup {NONE}]] :
                DiscOK(s, l) /\ s.entries[u].elem[e].size > 0 =>
                   ReadElement(s, u, e) \in {l[u][e], NONE}
<1> DEFINE el == s.entries[u].elem[e]
           first == s.block[e][el.block]
           whole == s.file[e][u]
           inOrder == /\ first # NONE
                      /\ \A i \in 0 .. el.size - 1 : el.block + i \in Blocks =>
                            s.block[e][el.block + i] = [data |-> first.data, piece |-> i]
           read == ReadElement(s, u, e)
<1>0. el \in Element(Stored) /\ el.block \in Blocks /\ el.size \in Nat /\ el.block \in Nat
  BY StoreFields, EntryFields, StoreAssumption DEF Element, Blocks
<1>1. whole \in Stored \cup {NONE} /\ first \in Piece(Stored) \cup {NONE}
  BY <1>0 DEF IsStore
<1>g. Garbage \in Stored
  BY GarbageAssumption DEF Garbage
<1>2. read = IF el.block # 0 THEN IF inOrder THEN first.data ELSE Garbage
             ELSE IF whole = NONE \/ whole.size < el.size THEN NONE
             ELSE IF whole.size = el.size THEN whole ELSE Garbage
  BY SMTT(30) DEF ReadElement
<1>i. inOrder => first # NONE
  OBVIOUS
<1>3. ASSUME NEW l \in [Urls -> [Elems -> Stored \cup {NONE}]], DiscOK(s, l), el.size > 0
      PROVE  /\ l[u][e] # NONE /\ l[u][e].size = el.size
             /\ el.block = 0 => whole \in {l[u][e], NONE}
             /\ el.block # 0 => first.data = l[u][e] /\ inOrder
  <2>1. /\ el.block # 0 => el.size <= 1
        /\ l[u][e] # NONE /\ l[u][e].size = el.size
        /\ el.block = 0 => whole \in {l[u][e], NONE}
        /\ el.block # 0 => first = [data |-> l[u][e], piece |-> 0]
    BY <1>3 DEF DiscOK, Holds
  <2>2. ASSUME el.block # 0
        PROVE  first.data = l[u][e] /\ inOrder
    <3>1. first.data = l[u][e]
      BY <2>1, <2>2
    <3>2. first \in Piece(Stored)
      BY <2>1, <2>2, <1>3 DEF Piece
    <3>3. ASSUME NEW i \in 0 .. el.size - 1
          PROVE  s.block[e][el.block + i] = [data |-> first.data, piece |-> i]
      <4>1. i = 0 /\ el.block + i = el.block
        BY <1>0, <2>1, <2>2
      <4> QED  BY <2>1, <2>2, <3>1, <4>1
    <3> QED  BY <3>1, <3>2, <3>3, NoneAssumption
  <2> QED  BY <2>1, <2>2
<1> HIDE DEF first, whole, inOrder, el, read
<1>4. read \in Stored \cup {NONE}
  BY <1>1, <1>2, <1>g, <1>i DEF Piece
<1>5. ASSUME NEW l \in [Urls -> [Elems -> Stored \cup {NONE}]], DiscOK(s, l), el.size > 0
      PROVE  read \in {l[u][e], NONE}
  <2>1. CASE el.block # 0
    BY <1>2, <1>3, <1>5, <2>1
  <2>2. CASE el.block = 0
    BY <1>0, <1>2, <1>3, <1>5, <2>2
  <2> QED  BY <2>1, <2>2
<1> QED  BY <1>4, <1>5 DEF el, read

-----------------------------------------------------------------------------
(* The operations that a client calls.                                      *)

\* The references of the client are those that the store counts.
Refs(s, h) ==
    \A u \in Urls, e \in Elems :
       h[u][e] = IF s.entries[u] = NONE THEN 0 ELSE s.entries[u].elem[e].ref

LEMMA FewerRefs ==
    ASSUME NEW s, NEW r, NEW h, Basic(s), Fewer(s, r), Refs(s, h)
    PROVE  Refs(r, h)
<1> SUFFICES ASSUME NEW u \in Urls, NEW e \in Elems
             PROVE  h[u][e] = IF r.entries[u] = NONE THEN 0 ELSE r.entries[u].elem[e].ref
  BY DEF Refs
<1>1. CASE r.entries[u] # NONE
  BY <1>1 DEF Fewer, Refs
<1>2. CASE r.entries[u] = NONE /\ s.entries[u] = NONE
  BY <1>2 DEF Refs
<1>3. CASE r.entries[u] = NONE /\ s.entries[u] # NONE
  <2>1. ~s.entries[u].elem[e].heap
    BY <1>3 DEF Fewer
  <2>2. s.entries[u].elem[e].ref \in Nat
    BY <1>3, StoreFields, EntryFields DEF Basic, Element
  <2>3. s.entries[u].elem[e].ref = 0
    BY <1>3, <2>1, <2>2 DEF Basic, HeapOK
  <2> QED  BY <1>3, <2>3 DEF Refs
<1> QED  BY <1>1, <1>2, <1>3

\* An eviction, and then an entry that is set and written, unless the element
\* is in use or the write fails.
LEMMA GuiStoreShape ==
    ASSUME NEW s, IsStore(s), s.open, NEW u \in Urls, NEW e \in Elems, NEW data \in Stored,
           data.size \in Nat, NEW r \in GuiStore(s, u, e, data)
    PROVE  \E v : /\ Fewer(s, v)
                  /\ \/ r.ret = "permission" /\ r.s = v
                     \/ \E b \in Blocks : \E m :
                          /\ Set(v, m, u, e, data, b)
                          /\ \/ r.ret = "ok" /\ Written(m, r.s, u, e)
                             \/ CanFail /\ r.ret = "save_failed" /\ r.s = m
<1>1. PICK v \in Evicted(s) :
        r \in IF v.entries[u] # NONE /\ v.entries[u].elem[e].heap
              THEN {Outcome("permission", v)}
              ELSE LET set == SetElement(v, u, e, data) IN
                   {Outcome("ok", WriteElement(set, u, e))}
                     \cup (IF CanFail THEN {Outcome("save_failed", set)} ELSE {})
  BY DEF GuiStore
<1>2. Fewer(s, v) /\ IsStore(v)
  <2>1. Fewer(s, v)
    BY EvictedFewer
  <2> QED  BY <2>1 DEF Fewer
<1> DEFINE m == SetElement(v, u, e, data)
<1>3. PICK b \in Blocks : Set(v, m, u, e, data, b)
  BY <1>2, SetFacts
<1>4. Written(m, WriteElement(m, u, e), u, e)
  <2>1. IsStore(m) /\ m.entries[u] # NONE /\ m.entries[u].elem[e].data = data
    BY <1>3 DEF Set
  <2> QED  BY <2>1, WriteFacts
<1> HIDE DEF m
<1>5. CASE r = Outcome("permission", v)
  BY <1>2, <1>5 DEF Outcome
<1>6. CASE r = Outcome("ok", WriteElement(m, u, e))
  BY <1>2, <1>3, <1>4, <1>6 DEF Outcome
<1>7. CASE CanFail /\ r = Outcome("save_failed", m)
  BY <1>2, <1>3, <1>7 DEF Outcome
<1> QED  BY <1>1, <1>5, <1>6, <1>7 DEF m

LEMMA SetRefs ==
    ASSUME NEW s, NEW r, NEW u \in Urls, NEW e \in Elems, NEW data, NEW b,
           NEW h \in [Urls -> [Elems -> Nat]], Refs(s, h), Set(s, r, u, e, data, b)
    PROVE  Refs(r, [h EXCEPT ![u][e] = 1])
<1> DEFINE k == [h EXCEPT ![u][e] = 1]
<1>1. k[u][e] = 1 /\ \A w \in Urls, d \in Elems : w # u \/ d # e => k[w][d] = h[w][d]
  OBVIOUS
<1> HIDE DEF k
<1> SUFFICES ASSUME NEW w \in Urls, NEW d \in Elems
             PROVE  k[w][d] = IF r.entries[w] = NONE THEN 0 ELSE r.entries[w].elem[d].ref
  BY DEF Refs, k
<1>2. CASE w = u /\ d = e
  BY <1>1, <1>2 DEF Set
<1>3. CASE w = u /\ d # e
  <2>1. r.entries[u] # NONE /\ r.entries[u].elem[d] = EntryOf(s, u).elem[d]
    BY <1>3 DEF Set
  <2>2. CASE s.entries[u] = NONE
    BY <1>1, <1>3, <2>1, <2>2, NewFacts DEF EntryOf, Refs
  <2>3. CASE s.entries[u] # NONE
    BY <1>1, <1>3, <2>1, <2>3 DEF EntryOf, Refs
  <2> QED  BY <2>2, <2>3
<1>4. CASE w # u
  BY <1>1, <1>4 DEF Set, Refs
<1> QED  BY <1>2, <1>3, <1>4

LEMMA GuiStoreKeeps ==
    ASSUME NEW s, Basic(s), s.open, NEW u \in Urls, NEW e \in Elems, NEW data \in Stored,
           data.size \in Nat, NEW r \in GuiStore(s, u, e, data)
    PROVE  /\ Basic(r.s)
           /\ BlocksOK(s) => BlocksOK(r.s)
           /\ \A h \in [Urls -> [Elems -> Nat]] : Refs(s, h) /\ ~CanFail =>
                 Refs(r.s, IF r.ret = "ok" THEN [h EXCEPT ![u][e] = 1] ELSE h)
           /\ \A l \in [Urls -> [Elems -> Stored \cup {NONE}]] :
                 /\ DiscOK(s, l) /\ BlocksOK(s) /\ ~CanFail
                 /\ data.size > 1 /\ s.entries[u] # NONE => s.entries[u].elem[e].block = 0
                 => DiscOK(r.s, IF r.ret = "ok" THEN [l EXCEPT ![u][e] = data] ELSE l)
<1>0. IsStore(s)
  BY DEF Basic
<1>1. PICK v : /\ Fewer(s, v)
               /\ \/ r.ret = "permission" /\ r.s = v
                  \/ \E b \in Blocks : \E m :
                       /\ Set(v, m, u, e, data, b)
                       /\ \/ r.ret = "ok" /\ Written(m, r.s, u, e)
                          \/ CanFail /\ r.ret = "save_failed" /\ r.s = m
  BY <1>0, GuiStoreShape
<1>2. Basic(v) /\ v.open /\ IsStore(v)
  <2>1. Basic(v)
    BY <1>1, FewerBasic
  <2> QED  BY <1>1, <2>1 DEF Fewer
<1>3. BlocksOK(s) => BlocksOK(v)
  BY <1>1, FewerBlocks
<1>4. \A h : Refs(s, h) => Refs(v, h)
  BY <1>1, FewerRefs
<1>5. \A l : DiscOK(s, l) => DiscOK(v, l)
  BY <1>1, FewerDisc
<1>6. CASE r.ret = "permission" /\ r.s = v
  BY <1>2, <1>3, <1>4, <1>5, <1>6
<1>7. ASSUME NEW b \in Blocks, NEW m, Set(v, m, u, e, data, b),
             \/ r.ret = "ok" /\ Written(m, r.s, u, e)
             \/ CanFail /\ r.ret = "save_failed" /\ r.s = m
      PROVE  /\ Basic(r.s)
             /\ BlocksOK(s) => BlocksOK(r.s)
             /\ \A h \in [Urls -> [Elems -> Nat]] : Refs(s, h) /\ ~CanFail =>
                   Refs(r.s, IF r.ret = "ok" THEN [h EXCEPT ![u][e] = 1] ELSE h)
             /\ \A l \in [Urls -> [Elems -> Stored \cup {NONE}]] :
                   /\ DiscOK(s, l) /\ BlocksOK(s) /\ ~CanFail
                   /\ data.size > 1 /\ s.entries[u] # NONE => s.entries[u].elem[e].block = 0
                   => DiscOK(r.s, IF r.ret = "ok" THEN [l EXCEPT ![u][e] = data] ELSE l)
  <2>1. Basic(m)
    BY <1>2, <1>7, SetBasic
  <2>2. BlocksOK(v) => BlocksOK(m)
    BY <1>2, <1>7, SetBlocks
  <2>3. Basic(r.s) /\ (BlocksOK(s) => BlocksOK(r.s))
    BY <1>3, <1>7, <2>1, <2>2, WrittenKeeps
  <2>4. ASSUME NEW h \in [Urls -> [Elems -> Nat]], Refs(s, h), ~CanFail
        PROVE  Refs(r.s, IF r.ret = "ok" THEN [h EXCEPT ![u][e] = 1] ELSE h)
    <3>1. Refs(m, [h EXCEPT ![u][e] = 1])
      BY <1>4, <1>7, <2>4, SetRefs
    <3>2. r.ret = "ok" /\ r.s.entries = m.entries
      BY <1>7, <2>4 DEF Written
    <3> QED  BY <3>1, <3>2 DEF Refs
  <2>5. ASSUME NEW l \in [Urls -> [Elems -> Stored \cup {NONE}]],
               DiscOK(s, l), BlocksOK(s), ~CanFail,
               data.size > 1 /\ s.entries[u] # NONE => s.entries[u].elem[e].block = 0
        PROVE  DiscOK(r.s, IF r.ret = "ok" THEN [l EXCEPT ![u][e] = data] ELSE l)
    <3>1. r.ret = "ok" /\ Written(m, r.s, u, e)
      BY <1>7, <2>5
    <3>2. DiscOK(v, l) /\ BlocksOK(m)
      BY <1>3, <1>5, <2>2, <2>5
    <3>3. b # 0 => data.size <= 1
      <4> SUFFICES ASSUME data.size > 1
                   PROVE  b = 0
        OBVIOUS
      <4>1. b = EntryOf(v, u).elem[e].block
        BY <1>7 DEF Set
      <4>2. CASE v.entries[u] = NONE
        BY <4>1, <4>2, NewFacts DEF EntryOf
      <4>3. CASE v.entries[u] # NONE
        BY <1>1, <2>5, <4>1, <4>3 DEF EntryOf, Fewer
      <4> QED  BY <4>2, <4>3
    <3>4. DiscOK(r.s, [l EXCEPT ![u][e] = data])
      BY <1>2, <1>7, <3>1, <3>2, <3>3, StoredDisc
    <3> QED  BY <3>1, <3>4
  <2> QED  BY <2>3, <2>4, <2>5
<1> QED  BY <1>1, <1>6, <1>7

LEMMA TouchedFacts ==
    ASSUME NEW s, IsStore(s), NEW u \in Urls, s.entries[u] # NONE, NEW e \in Elems
    PROVE  Retaken(s, Touched(s), u, e, s.entries[u].elem[e]) /\ Touched(s).entries = s.entries
<1> DEFINE r == Touched(s)
<1>1. r = [s EXCEPT !.entries_dirty = TRUE, !.maint = TRUE]
  BY DEF Touched
<1> HIDE DEF r
<1>2. /\ IsStore(r)
      /\ r.open = s.open /\ r.blocks_dirty = s.blocks_dirty /\ r.use_map = s.use_map
      /\ r.block = s.block /\ r.file = s.file /\ r.saved = s.saved
      /\ r.maint = TRUE /\ r.entries_dirty = TRUE /\ r.entries = s.entries
  BY <1>1 DEF IsStore
<1> QED  BY <1>2 DEF Retaken, r

LEMMA TouchedKeeps ==
    ASSUME NEW s, Basic(s), s.open, NEW u \in Urls, s.entries[u] # NONE
    PROVE  /\ Basic(Touched(s)) /\ (BlocksOK(s) => BlocksOK(Touched(s)))
           /\ \A h : Refs(s, h) => Refs(Touched(s), h)
           /\ \A l : DiscOK(s, l) => DiscOK(Touched(s), l)
           /\ Touched(s).entries = s.entries /\ Touched(s).open
<1> DEFINE e == "data"
           y == s.entries[u].elem[e]
<1>0. e \in Elems /\ IsStore(s)
  BY DEF Elems, Basic
<1>1. Retaken(s, Touched(s), u, e, y) /\ Touched(s).entries = s.entries
  BY <1>0, TouchedFacts
<1>2. (y.heap <=> y.ref > 0) /\ (y.heap => y.data # NONE)
  BY SMTT(30), <1>0 DEF Basic, HeapOK
<1>3. \A l : DiscOK(s, l) => (y.heap /\ y.size > 0 => y.data = l[u][e])
  BY <1>0 DEF DiscOK, Holds
<1> HIDE DEF e
<1>4. /\ Basic(Touched(s))
      /\ BlocksOK(s) => BlocksOK(Touched(s))
      /\ \A l : DiscOK(s, l) /\ (y.heap /\ y.size > 0 => y.data = l[u][e]) => DiscOK(Touched(s), l)
  BY <1>0, <1>1, <1>2, RetakenKeeps
<1>5. Touched(s).open
  BY <1>1 DEF Retaken
<1> QED  BY <1>1, <1>3, <1>4, <1>5 DEF Refs

LEMMA RetakenRefs ==
    ASSUME NEW s, NEW r, NEW u \in Urls, NEW e \in Elems, NEW y, NEW n,
           NEW h \in [Urls -> [Elems -> Nat]], Refs(s, h), s.entries[u] # NONE,
           Retaken(s, r, u, e, y), y.ref = n
    PROVE  Refs(r, [h EXCEPT ![u][e] = n])
<1> DEFINE k == [h EXCEPT ![u][e] = n]
<1>1. k[u][e] = n /\ \A w \in Urls, d \in Elems : w # u \/ d # e => k[w][d] = h[w][d]
  OBVIOUS
<1> HIDE DEF k
<1> SUFFICES ASSUME NEW w \in Urls, NEW d \in Elems
             PROVE  k[w][d] = IF r.entries[w] = NONE THEN 0 ELSE r.entries[w].elem[d].ref
  BY DEF Refs, k
<1>2. CASE w = u /\ d = e
  BY <1>1, <1>2 DEF Retaken
<1>3. CASE w = u /\ d # e
  BY <1>1, <1>3 DEF Retaken, Refs
<1>4. CASE w # u
  BY <1>1, <1>4 DEF Retaken, Refs
<1> QED  BY <1>2, <1>3, <1>4

LEMMA GuiFetchKeeps ==
    ASSUME NEW s, Basic(s), s.open, NEW u \in Urls, NEW e \in Elems, NEW r \in GuiFetch(s, u, e)
    PROVE  /\ Basic(r.s)
           /\ BlocksOK(s) => BlocksOK(r.s)
           /\ \A h \in [Urls -> [Elems -> Nat]] : Refs(s, h) =>
                 Refs(r.s, IF r.ret = "ok" THEN [h EXCEPT ![u][e] = @ + 1] ELSE h)
           /\ \A l \in [Urls -> [Elems -> Stored \cup {NONE}]] : DiscOK(s, l) => DiscOK(r.s, l)
<1> DEFINE el == s.entries[u].elem[e]
           got == IF el.heap THEN el.data ELSE ReadElement(s, u, e)
           y == IF el.heap THEN [el EXCEPT !.ref = el.ref + 1]
                ELSE [el EXCEPT !.heap = TRUE, !.ref = 1, !.data = got]
           z == [el EXCEPT !.ref = 0]
           kept == [Touched(s) EXCEPT !.entries[u].elem[e] = y]
           failed == [Touched(s) EXCEPT !.entries[u].elem[e] = z]
<1>0. IsStore(s)
  BY DEF Basic
<1>1. CASE s.entries[u] = NONE
  BY SMTT(30), <1>1 DEF GuiFetch, Outcome
<1>2. CASE s.entries[u] # NONE
  <2>1. /\ el \in Element(Stored) /\ (el.heap <=> el.ref > 0) /\ (el.heap => el.data # NONE)
        /\ got \in Stored \cup {NONE}
    BY <1>0, <1>2, StoreFields, EntryFields, ReadFacts DEF Basic, HeapOK, Element
  <2>2. IsStore(s) /\ Touched(s).entries = s.entries
    BY <1>0, <1>2, TouchedFacts
  <2>3. \/ got # NONE /\ r = [ret |-> "ok", s |-> kept, data |-> got]
        \/ ~el.heap /\ r = Outcome("not_found", failed)
        \/ r = Outcome("nomem", Touched(s))
    <3>1. failed = [Touched(s) EXCEPT !.entries[u].elem[e].ref = 0]
      BY SMTT(30), <2>2
    <3>3. r \in (IF got = NONE THEN {Outcome("not_found", failed)}
                 ELSE {[ret |-> "ok", s |-> kept, data |-> got]})
                \cup (IF CanFail /\ ~el.heap THEN {Outcome("nomem", Touched(s))} ELSE {})
      BY <1>2, <3>1 DEF GuiFetch
    <3> HIDE DEF kept, failed, got, el
    <3>4. got = NONE => ~el.heap
      BY <2>1 DEF got
    <3> QED  BY <3>3, <3>4
  <2>4. CASE got # NONE /\ r = [ret |-> "ok", s |-> kept, data |-> got]
    <3>1. /\ y \in Element(Stored) /\ y.heap /\ y.ref > 0 /\ y.data = got
          /\ y.size = el.size /\ y.block = el.block
      <4>1. CASE el.heap
        <5>1. got = el.data /\ y = [el EXCEPT !.ref = el.ref + 1]
          BY <4>1
        <5> HIDE DEF y, el
        <5> QED  BY <2>1, <4>1, <5>1 DEF Element
      <4>2. CASE ~el.heap
        <5>1. y = [el EXCEPT !.heap = TRUE, !.ref = 1, !.data = got] /\ got \in Stored
          BY <2>1, <2>4, <4>2
        <5>2. el \in Element(Stored)
          BY <2>1
        <5> HIDE DEF y, el, got
        <5>3. y \in Element(Stored)
          BY <5>1, <5>2 DEF Element
        <5>4. y.heap = TRUE /\ y.ref = 1 /\ y.data = got /\ y.size = el.size /\ y.block = el.block
          BY <5>1, <5>2 DEF Element
        <5> QED  BY <5>3, <5>4
      <4> QED  BY <4>1, <4>2
    <3>2. \A h \in [Urls -> [Elems -> Nat]] : Refs(s, h) => h[u][e] \in Nat /\ y.ref = h[u][e] + 1
      <4> SUFFICES ASSUME NEW h \in [Urls -> [Elems -> Nat]], Refs(s, h)
                   PROVE  h[u][e] \in Nat /\ y.ref = h[u][e] + 1
        OBVIOUS
      <4>1. h[u][e] = el.ref
        BY <1>2 DEF Refs
      <4>2. el.ref \in Nat /\ (~el.heap => el.ref = 0)
        BY <2>1 DEF Element
      <4>3. y.ref = el.ref + 1
        BY <2>1, <4>2 DEF Element
      <4> QED  BY <4>1, <4>2, <4>3
    <3>3. \A l \in [Urls -> [Elems -> Stored \cup {NONE}]] :
             DiscOK(s, l) /\ el.size > 0 => got = l[u][e]
      <4> SUFFICES ASSUME NEW l \in [Urls -> [Elems -> Stored \cup {NONE}]], DiscOK(s, l), el.size > 0
                   PROVE  got = l[u][e]
        BY SMTT(30)
      <4>1. CASE el.heap
        BY <1>2, <4>1 DEF DiscOK, Holds
      <4>2. CASE ~el.heap
        BY <1>0, <1>2, <2>4, <4>2, ReadFacts
      <4> QED  BY <4>1, <4>2
    <3> HIDE DEF y, got
    <3>4. Retaken(s, kept, u, e, y)
      BY <1>0, <1>2, <3>1, RetakenFacts
    <3>5. r.s = kept /\ r.ret = "ok"
      BY <2>4
    <3> HIDE DEF kept, el
    <3>6. /\ Basic(kept)
          /\ BlocksOK(s) => BlocksOK(kept)
          /\ \A l : DiscOK(s, l) /\ (y.heap /\ y.size > 0 => y.data = l[u][e]) => DiscOK(kept, l)
      <4>1. y.size = s.entries[u].elem[e].size /\ y.block = s.entries[u].elem[e].block
        BY <3>1 DEF el
      <4>2. (y.heap <=> y.ref > 0) /\ (y.heap => y.data # NONE)
        BY <2>4, <3>1
      <4> QED  BY <1>2, <3>4, <4>1, <4>2, RetakenKeeps
    <3>7. ASSUME NEW h \in [Urls -> [Elems -> Nat]], Refs(s, h)
          PROVE  Refs(kept, [h EXCEPT ![u][e] = @ + 1])
      <4>1. y.ref = h[u][e] + 1
        BY <3>2, <3>7
      <4>2. Refs(kept, [h EXCEPT ![u][e] = h[u][e] + 1])
        BY <1>2, <3>4, <3>7, <4>1, RetakenRefs
      <4> QED  BY <4>2
    <3> QED  BY <3>1, <3>3, <3>5, <3>6, <3>7
  <2>5. CASE ~el.heap /\ r = Outcome("not_found", failed)
    <3>1. /\ z \in Element(Stored) /\ ~z.heap /\ z.ref = 0 /\ z.size = el.size /\ z.block = el.block
          /\ el.ref = 0
      BY <2>1, <2>5 DEF Element
    <3> HIDE DEF z
    <3>2. Retaken(s, failed, u, e, z)
      BY <1>0, <1>2, <3>1, RetakenFacts
    <3>3. r.s = failed /\ r.ret = "not_found"
      BY <2>5 DEF Outcome
    <3>4. z.size = s.entries[u].elem[e].size /\ z.block = s.entries[u].elem[e].block
      BY <3>1
    <3> HIDE DEF failed
    <3>5. /\ Basic(failed)
          /\ BlocksOK(s) => BlocksOK(failed)
          /\ \A l : DiscOK(s, l) /\ (z.heap /\ z.size > 0 => z.data = l[u][e]) => DiscOK(failed, l)
      BY <1>2, <3>1, <3>2, <3>4, RetakenKeeps
    <3>6. ASSUME NEW h \in [Urls -> [Elems -> Nat]], Refs(s, h)
          PROVE  Refs(failed, h)
      <4>1. h[u][e] = 0
        BY <1>2, <3>1, <3>6 DEF Refs
      <4>2. [h EXCEPT ![u][e] = 0] = h
        BY <4>1
      <4>3. Refs(failed, [h EXCEPT ![u][e] = 0])
        BY <1>2, <3>1, <3>2, <3>6, RetakenRefs
      <4> QED  BY <4>2, <4>3
    <3> QED  BY <3>1, <3>3, <3>5, <3>6
  <2>6. CASE r = Outcome("nomem", Touched(s))
    BY <1>2, <2>6, TouchedKeeps DEF Outcome
  <2> QED  BY <2>3, <2>4, <2>5, <2>6
<1> QED  BY <1>1, <1>2

LEMMA GuiInvalidateKeeps ==
    ASSUME NEW s, Basic(s), s.open, NEW u \in Urls, NEW r \in GuiInvalidate(s, u)
    PROVE  /\ Basic(r.s)
           /\ BlocksOK(s) => BlocksOK(r.s)
           /\ \A h : Refs(s, h) => Refs(r.s, h)
           /\ \A l : DiscOK(s, l) => DiscOK(r.s, l)
<1>1. CASE s.entries[u] = NONE
  BY <1>1 DEF GuiInvalidate, Outcome
<1>2. CASE s.entries[u] # NONE
  <2> DEFINE q == Touched(s)
  <2>1. r.s = InvalidateEntries(q, {u})
    BY <1>2 DEF GuiInvalidate, Outcome
  <2>2. /\ Basic(q) /\ (BlocksOK(s) => BlocksOK(q)) /\ q.entries = s.entries
        /\ \A h : Refs(s, h) => Refs(q, h)
        /\ \A l : DiscOK(s, l) => DiscOK(q, l)
    BY <1>2, TouchedKeeps
  <2> HIDE DEF q
  <2>3. IsStore(q) /\ {u} \in SUBSET Entries(q)
    BY <1>2, <2>2 DEF Basic, Entries
  <2>4. Fewer(q, r.s)
    BY <2>1, <2>3, InvalidateFewer
  <2> QED  BY <2>2, <2>4, FewerBasic, FewerBlocks, FewerRefs, FewerDisc
<1> QED  BY <1>1, <1>2

\* A release by a client that has a reference.
LEMMA GuiReleaseKeeps ==
    ASSUME NEW s, Basic(s), s.open, NEW u \in Urls, NEW e \in Elems, NEW r \in GuiRelease(s, u, e)
    PROVE  /\ Basic(r.s)
           /\ BlocksOK(s) => BlocksOK(r.s)
           /\ \A h \in [Urls -> [Elems -> Nat]] : Refs(s, h) /\ h[u][e] > 0 =>
                 Refs(r.s, [h EXCEPT ![u][e] = @ - 1])
           /\ \A l : DiscOK(s, l) => DiscOK(r.s, l)
<1>0. IsStore(s)
  BY DEF Basic
<1>1. CASE s.entries[u] = NONE
  BY <1>1 DEF GuiRelease, Outcome, Refs
<1>2. CASE s.entries[u] # NONE
  <2> DEFINE el == s.entries[u].elem[e]
             y == ReleaseAlloc(el)
             q == [Touched(s) EXCEPT !.entries[u].elem[e] = y]
  <2>1. el \in Element(Stored) /\ (el.heap <=> el.ref > 0) /\ (el.heap => el.data # NONE)
    BY <1>0, <1>2, StoreFields, EntryFields DEF Basic, HeapOK
  <2>2. /\ y \in Element(Stored) /\ y.size = el.size /\ y.block = el.block
        /\ (y.heap <=> y.ref > 0) /\ (y.heap => el.heap /\ y.data = el.data)
        /\ el.ref > 0 => y.ref = el.ref - 1
    <3> HIDE DEF el
    <3>0. el.ref \in Nat /\ el.heap \in BOOLEAN
      BY <2>1 DEF Element
    <3>1. CASE ~el.heap
      BY <2>1, <3>0, <3>1 DEF ReleaseAlloc
    <3>2. CASE el.heap /\ el.ref = 1
      <4>1. y = [el EXCEPT !.ref = 0, !.heap = FALSE, !.data = NONE]
        BY <3>2 DEF ReleaseAlloc
      <4> HIDE DEF y
      <4>2. y \in Element(Stored)
        BY <2>1, <4>1 DEF Element
      <4>3. y.heap = FALSE /\ y.ref = 0 /\ y.size = el.size /\ y.block = el.block
        BY <2>1, <4>1 DEF Element
      <4> QED  BY <3>2, <4>2, <4>3
    <3>3. CASE el.heap /\ el.ref # 1
      <4>1. y = [el EXCEPT !.ref = el.ref - 1] /\ el.ref - 1 \in Nat /\ el.ref - 1 > 0
        BY <2>1, <3>0, <3>3 DEF ReleaseAlloc
      <4> HIDE DEF y
      <4>2. y \in Element(Stored)
        BY <2>1, <4>1 DEF Element
      <4>3. /\ y.heap = el.heap /\ y.ref = el.ref - 1 /\ y.size = el.size /\ y.block = el.block
            /\ y.data = el.data
        BY <2>1, <4>1 DEF Element
      <4> QED  BY <3>3, <4>1, <4>2, <4>3
    <3> QED  BY <3>1, <3>2, <3>3
  <2>3. r.s = IF q.entries[u].invalid THEN InvalidateEntries(q, {u}) ELSE q
    <3>1. Touched(s).entries = s.entries
      BY <1>0, <1>2, TouchedFacts
    <3>2. q = [Touched(s) EXCEPT !.entries[u].elem[e] = ReleaseAlloc(@)]
      BY <3>1
    <3> QED  BY <1>2, <3>2 DEF GuiRelease, Outcome
  <2> HIDE DEF y
  <2>4. Retaken(s, q, u, e, y)
    BY SMTT(30), <1>0, <1>2, <2>2, RetakenFacts
  <2> HIDE DEF q
  <2>5. \A l : DiscOK(s, l) => (el.heap /\ el.size > 0 => el.data = l[u][e])
    BY <1>2 DEF DiscOK, Holds
  <2>6. /\ Basic(q)
        /\ BlocksOK(s) => BlocksOK(q)
        /\ \A l : DiscOK(s, l) /\ (y.heap /\ y.size > 0 => y.data = l[u][e]) => DiscOK(q, l)
    BY <1>2, <2>1, <2>2, <2>4, RetakenKeeps
  <2>7. \A l : DiscOK(s, l) => DiscOK(q, l)
    BY <2>2, <2>5, <2>6
  <2>8. \A h \in [Urls -> [Elems -> Nat]] : Refs(s, h) /\ h[u][e] > 0 =>
           Refs(q, [h EXCEPT ![u][e] = @ - 1])
    <3> SUFFICES ASSUME NEW h \in [Urls -> [Elems -> Nat]], Refs(s, h), h[u][e] > 0
                 PROVE  Refs(q, [h EXCEPT ![u][e] = h[u][e] - 1])
      OBVIOUS
    <3>1. h[u][e] = el.ref
      BY <1>2 DEF Refs
    <3>2. y.ref = h[u][e] - 1
      BY <2>2, <3>1
    <3> QED  BY <1>2, <2>4, <3>2, RetakenRefs
  <2>9. q = r.s \/ Fewer(q, r.s)
    <3>1. IsStore(q) /\ {u} \in SUBSET Entries(q)
      BY <2>4 DEF Retaken, Entries
    <3> QED  BY <2>3, <3>1, InvalidateFewer
  <2>10. CASE q = r.s
    BY <2>6, <2>7, <2>8, <2>10
  <2>11. CASE Fewer(q, r.s)
    BY <2>6, <2>7, <2>8, <2>11, FewerBasic, FewerBlocks, FewerRefs, FewerDisc
  <2> QED  BY <2>9, <2>10, <2>11
<1> QED  BY <1>1, <1>2

-----------------------------------------------------------------------------
(* The index files, the end of the process and its start.                   *)

\* The index agrees with itself, and with the disc.
RestOwned(s) == s.saved.entries # NONE => Owned(s.saved.entries, SavedMap(s))
RestHolds(s, l) == s.saved.entries # NONE => Holds(s.saved.entries, s, l)

LEMMA OffFacts ==
    ASSUME NEW x \in Entry(Stored)
    PROVE  /\ OffHeap(x) \in Entry(Stored)
           /\ \A e \in Elems : /\ OffHeap(x).elem[e].block = x.elem[e].block
                               /\ OffHeap(x).elem[e].size = x.elem[e].size
                               /\ ~OffHeap(x).elem[e].heap /\ OffHeap(x).elem[e].ref = 0
<1> DEFINE off(e) == [x.elem[e] EXCEPT !.heap = FALSE, !.ref = 0, !.data = NONE]
           y == OffHeap(x)
<1>1. \A e \in Elems : /\ off(e) \in Element(Stored)
                       /\ off(e).block = x.elem[e].block /\ off(e).size = x.elem[e].size
                       /\ off(e).heap = FALSE /\ off(e).ref = 0
  <2> SUFFICES ASSUME NEW e \in Elems
               PROVE  /\ off(e) \in Element(Stored)
                      /\ off(e).block = x.elem[e].block /\ off(e).size = x.elem[e].size
                      /\ off(e).heap = FALSE /\ off(e).ref = 0
    OBVIOUS
  <2>1. x.elem[e] \in Element(Stored)
    BY EntryFields
  <2> QED  BY <2>1 DEF Element
<1>2. y = [x EXCEPT !.elem = [e \in Elems |-> off(e)]]
  BY DEF OffHeap
<1> HIDE DEF off, y
<1>3. y \in Entry(Stored) /\ y.elem = [e \in Elems |-> off(e)]
  BY <1>1, <1>2 DEF Entry
<1> QED  BY <1>1, <1>3 DEF y

\* The table that write_entries() writes.
OffTable(s) == [u \in Urls |-> IF s.entries[u] = NONE THEN NONE ELSE OffHeap(s.entries[u])]

\* r is s with other index files.
Resaved(s, r) ==
    /\ IsStore(r)
    /\ r.open = s.open /\ r.entries = s.entries /\ r.use_map = s.use_map
    /\ r.entries_dirty = s.entries_dirty /\ r.blocks_dirty = s.blocks_dirty /\ r.maint = s.maint
    /\ r.block = s.block /\ r.file = s.file

LEMMA ResavedEntries ==
    ASSUME NEW s, IsStore(s), NEW x \in Table(Stored) \cup {NONE}
    PROVE  /\ Resaved(s, [s EXCEPT !.saved.entries = x])
           /\ [s EXCEPT !.saved.entries = x].saved.entries = x
           /\ [s EXCEPT !.saved.entries = x].saved.blocks = s.saved.blocks
  BY DEF IsStore, Resaved

LEMMA ResavedBlocks ==
    ASSUME NEW s, IsStore(s), NEW y \in UseMap \cup {NONE}
    PROVE  /\ Resaved(s, [s EXCEPT !.saved.blocks = y])
           /\ [s EXCEPT !.saved.blocks = y].saved.entries = s.saved.entries
           /\ [s EXCEPT !.saved.blocks = y].saved.blocks = y
  BY DEF IsStore, Resaved

LEMMA WriteEntriesFacts ==
    ASSUME NEW s, IsStore(s)
    PROVE  /\ OffTable(s) \in Table(Stored)
           /\ Resaved(s, WriteEntries(s))
           /\ WriteEntries(s).saved.blocks = s.saved.blocks
           /\ WriteEntries(s).saved.entries = IF s.entries_dirty THEN OffTable(s) ELSE s.saved.entries
<1>1. OffTable(s) \in Table(Stored)
  BY StoreFields, OffFacts DEF OffTable, Table
<1>2. CASE ~s.entries_dirty
  BY <1>1, <1>2 DEF WriteEntries, Resaved
<1>3. CASE s.entries_dirty
  <2>1. WriteEntries(s) = [s EXCEPT !.saved.entries = OffTable(s)]
    BY <1>3 DEF WriteEntries, OffTable
  <2> QED  BY <1>1, <1>3, <2>1, ResavedEntries
<1> QED  BY <1>2, <1>3

LEMMA WriteBlocksFacts ==
    ASSUME NEW s, IsStore(s)
    PROVE  /\ Resaved(s, WriteBlocks(s))
           /\ WriteBlocks(s).saved.entries = s.saved.entries
           /\ WriteBlocks(s).saved.blocks = IF s.blocks_dirty THEN s.use_map ELSE s.saved.blocks
<1>1. CASE ~s.blocks_dirty
  BY <1>1 DEF WriteBlocks, Resaved
<1>2. CASE s.blocks_dirty
  <2>1. WriteBlocks(s) = [s EXCEPT !.saved.blocks = s.use_map] /\ s.use_map \in UseMap
    BY <1>2, StoreFields DEF WriteBlocks
  <2> QED  BY <1>2, <2>1, ResavedBlocks
<1> QED  BY <1>1, <1>2

\* A table off the heap owns and holds what the table does.
LEMMA OffTableFacts ==
    ASSUME NEW s, IsStore(s)
    PROVE  /\ \A u \in Urls : OffTable(s)[u] # NONE => s.entries[u] # NONE
           /\ \A u \in Urls, e \in Elems : s.entries[u] # NONE =>
                /\ OffTable(s)[u].elem[e].block = s.entries[u].elem[e].block
                /\ OffTable(s)[u].elem[e].size = s.entries[u].elem[e].size
                /\ ~OffTable(s)[u].elem[e].heap /\ OffTable(s)[u].elem[e].ref = 0
  BY StoreFields, OffFacts DEF OffTable

LEMMA OffTableKeeps ==
    ASSUME NEW s, IsStore(s)
    PROVE  /\ \A map : Owned(s.entries, map) => Owned(OffTable(s), map)
           /\ \A l : Holds(s.entries, s, l) => Holds(OffTable(s), s, l)
<1> DEFINE t == OffTable(s)
<1>1. /\ \A u \in Urls : t[u] # NONE => s.entries[u] # NONE
      /\ \A u \in Urls, e \in Elems : s.entries[u] # NONE =>
           /\ t[u].elem[e].block = s.entries[u].elem[e].block
           /\ t[u].elem[e].size = s.entries[u].elem[e].size
           /\ ~t[u].elem[e].heap
  BY OffTableFacts
<1> HIDE DEF t
<1>2. ASSUME NEW map, Owned(s.entries, map)
      PROVE  Owned(t, map)
  BY <1>1, <1>2 DEF Owned
<1>3. ASSUME NEW l, Holds(s.entries, s, l)
      PROVE  Holds(t, s, l)
  <2> SUFFICES ASSUME NEW u \in Urls, NEW e \in Elems, t[u] # NONE
               PROVE  /\ t[u].elem[e].block # 0 => t[u].elem[e].size <= 1
                      /\ t[u].elem[e].size > 0 =>
                           /\ l[u][e] # NONE /\ l[u][e].size = t[u].elem[e].size
                           /\ t[u].elem[e].heap => t[u].elem[e].data = l[u][e]
                           /\ t[u].elem[e].block = 0 => s.file[e][u] \in {l[u][e], NONE}
                           /\ t[u].elem[e].block # 0 =>
                                 s.block[e][t[u].elem[e].block] = [data |-> l[u][e], piece |-> 0]
    BY DEF Holds
  <2> DEFINE x == s.entries[u].elem[e]
  <2>1. s.entries[u] # NONE /\ t[u].elem[e].block = x.block /\ t[u].elem[e].size = x.size
        /\ ~t[u].elem[e].heap
    BY SMTT(30), <1>1
  <2>2. /\ x.block # 0 => x.size <= 1
        /\ x.size > 0 =>
             /\ l[u][e] # NONE /\ l[u][e].size = x.size
             /\ x.block = 0 => s.file[e][u] \in {l[u][e], NONE}
             /\ x.block # 0 => s.block[e][x.block] = [data |-> l[u][e], piece |-> 0]
    BY <1>3, <2>1 DEF Holds
  <2> HIDE DEF x
  <2> QED  BY <2>1, <2>2
<1> QED  BY <1>2, <1>3 DEF t

\* Both index files are written: they now describe the store.
LEMMA Synced ==
    ASSUME NEW s, Basic(s), s.open, NEW r, r = WriteBlocks(WriteEntries(s))
    PROVE  /\ Resaved(s, r) /\ SavedOff(r)
           /\ BlocksOK(s) => UseSaved(r) /\ RestOwned(r)
           /\ \A l : DiscOK(s, l) => RestHolds(r, l)
<1>0. IsStore(s)
  BY DEF Basic
<1>1. /\ Resaved(s, r)
      /\ r.saved.entries = IF s.entries_dirty THEN OffTable(s) ELSE s.saved.entries
      /\ r.saved.blocks = IF s.blocks_dirty THEN s.use_map ELSE s.saved.blocks
  <2> DEFINE q == WriteEntries(s)
  <2>1. /\ Resaved(s, q) /\ q.saved.blocks = s.saved.blocks
        /\ q.saved.entries = IF s.entries_dirty THEN OffTable(s) ELSE s.saved.entries
    BY <1>0, WriteEntriesFacts
  <2> HIDE DEF q
  <2>2. /\ Resaved(q, r) /\ r.saved.entries = q.saved.entries
        /\ r.saved.blocks = IF q.blocks_dirty THEN q.use_map ELSE q.saved.blocks
    <3>1. IsStore(q) /\ r = WriteBlocks(q)
      BY <2>1 DEF Resaved, q
    <3> QED  BY <3>1, WriteBlocksFacts
  <2> QED  BY <2>1, <2>2 DEF Resaved
<1>2. CASE s.entries_dirty
  <2>1. r.saved.entries = OffTable(s) /\ r.entries = s.entries /\ r.use_map = s.use_map
        /\ r.block = s.block /\ r.file = s.file /\ r.open = s.open
        /\ r.blocks_dirty = s.blocks_dirty
    BY <1>1, <1>2 DEF Resaved
  <2>2. SavedOff(r)
    BY <1>0, <2>1, OffTableFacts DEF SavedOff
  <2>3. ASSUME BlocksOK(s)
        PROVE  UseSaved(r) /\ RestOwned(r)
    <3>1. UseSaved(r)
      BY <1>1, <2>1, <2>3 DEF BlocksOK, UseSaved, SavedMap
    <3>2. \A e \in Elems : s.use_map[e] \subseteq SavedMap(r)[e]
      <4>1. CASE s.blocks_dirty
        <5>1. r.saved.blocks = s.use_map /\ s.use_map # NONE
          BY <1>0, <1>1, <4>1, StoreFields, NoneAssumption
        <5> QED  BY <5>1 DEF SavedMap
      <4>2. CASE ~s.blocks_dirty
        BY <2>1, <3>1, <4>2 DEF UseSaved
      <4> QED  BY <4>1, <4>2
    <3>3. Owned(OffTable(s), s.use_map)
      BY <1>0, <2>3, OffTableKeeps DEF BlocksOK, LiveOwned
    <3>4. Owned(OffTable(s), SavedMap(r))
      BY <3>2, <3>3 DEF Owned
    <3> QED  BY <2>1, <3>1, <3>4 DEF RestOwned
  <2>4. ASSUME NEW l, DiscOK(s, l)
        PROVE  RestHolds(r, l)
    <3>1. Holds(OffTable(s), s, l)
      BY <1>0, <2>4, OffTableKeeps DEF DiscOK
    <3> QED  BY <2>1, <3>1, HoldsSame DEF RestHolds
  <2> QED  BY <1>1, <2>2, <2>3, <2>4
<1>3. CASE ~s.entries_dirty
  <2>1. /\ r.saved.entries = s.saved.entries /\ r.saved.blocks = s.saved.blocks /\ ~s.maint
        /\ r.use_map = s.use_map /\ r.block = s.block /\ r.file = s.file /\ r.open = s.open
        /\ r.blocks_dirty = s.blocks_dirty
    BY <1>1, <1>3 DEF Resaved, Basic, Flags
  <2>2. SavedOff(r)
    BY <2>1 DEF SavedOff, Basic
  <2>3. BlocksOK(s) => UseSaved(r) /\ RestOwned(r)
    BY <2>1 DEF BlocksOK, UseSaved, SavedOwned, RestOwned, SavedMap
  <2>4. \A l : DiscOK(s, l) => RestHolds(r, l)
    BY <2>1, HoldsSame DEF DiscOK, RestHolds
  <2> QED  BY <1>1, <2>2, <2>3, <2>4
<1> QED  BY <1>2, <1>3

LEMMA MaintainedKeeps ==
    ASSUME NEW s, Basic(s), s.open
    PROVE  /\ Basic(Maintained(s))
           /\ BlocksOK(s) => BlocksOK(Maintained(s))
           /\ Maintained(s).entries = s.entries /\ Maintained(s).open
           /\ \A l : DiscOK(s, l) => DiscOK(Maintained(s), l)
<1> DEFINE r == WriteBlocks(WriteEntries(s))
           m == Maintained(s)
<1>1. /\ Resaved(s, r) /\ SavedOff(r)
      /\ BlocksOK(s) => UseSaved(r) /\ RestOwned(r)
      /\ \A l : DiscOK(s, l) => RestHolds(r, l)
  BY Synced
<1>2. m = [r EXCEPT !.maint = FALSE]
  BY DEF Maintained
<1> HIDE DEF r, m
<1>3. /\ IsStore(m) /\ m.maint = FALSE
      /\ m.open = s.open /\ m.entries = s.entries /\ m.use_map = s.use_map
      /\ m.entries_dirty = s.entries_dirty /\ m.blocks_dirty = s.blocks_dirty
      /\ m.block = s.block /\ m.file = s.file /\ m.saved = r.saved
  <2>1. IsStore(r)
    BY <1>1 DEF Resaved
  <2>2. /\ IsStore(m) /\ m.maint = FALSE
        /\ m.open = r.open /\ m.entries = r.entries /\ m.use_map = r.use_map
        /\ m.entries_dirty = r.entries_dirty /\ m.blocks_dirty = r.blocks_dirty
        /\ m.block = r.block /\ m.file = r.file /\ m.saved = r.saved
    BY <1>2, <2>1 DEF IsStore
  <2> QED  BY <1>1, <2>2 DEF Resaved
<1>4. Basic(m)
  <2>1. HeapOK(m)
    BY <1>3 DEF HeapOK, Basic
  <2>2. SavedOff(m)
    BY <1>1, <1>3 DEF SavedOff
  <2>3. Flags(m)
    BY <1>3 DEF Flags, Basic
  <2> QED  BY <1>3, <2>1, <2>2, <2>3 DEF Basic
<1>5. ASSUME BlocksOK(s)
      PROVE  BlocksOK(m)
  <2>1. UseSaved(m) /\ SavedOwned(m)
    BY <1>1, <1>3, <1>5 DEF UseSaved, SavedOwned, RestOwned, SavedMap, Resaved
  <2>2. LiveOwned(m)
    BY <1>3, <1>5 DEF BlocksOK, LiveOwned
  <2> QED  BY <2>1, <2>2 DEF BlocksOK
<1>6. ASSUME NEW l, DiscOK(s, l)
      PROVE  DiscOK(m, l)
  <2>1. Holds(s.entries, s, l) /\ RestHolds(r, l) /\ r.block = s.block /\ r.file = s.file
    BY <1>1, <1>6 DEF DiscOK, Resaved
  <2> QED  BY <1>3, <2>1, HoldsSame DEF DiscOK, RestHolds
<1> QED  BY <1>3, <1>4, <1>5, <1>6 DEF m

\* What the process leaves behind.
LEMMA ClosedFacts ==
    ASSUME NEW s, IsStore(s), SavedOff(s)
    PROVE  /\ Basic(Closed(s)) /\ ~Closed(s).open
           /\ RestOwned(s) => BlocksOK(Closed(s))
           /\ \A l : RestHolds(s, l) => DiscOK(Closed(s), l)
<1> DEFINE r == Closed(s)
<1>0. NoEntries \in Table(Stored) /\ [e \in Elems |-> {}] \in UseMap
  BY DEF NoEntries, Table, UseMap
<1>1. r = [s EXCEPT !.open = FALSE, !.entries = NoEntries, !.use_map = [e \in Elems |-> {}],
                    !.total_alloc = 0, !.entries_dirty = FALSE, !.blocks_dirty = FALSE,
                    !.maint = FALSE]
  BY DEF Closed
<1> HIDE DEF r
<1>2. /\ IsStore(r) /\ r.open = FALSE /\ r.entries = NoEntries /\ r.maint = FALSE
      /\ r.entries_dirty = FALSE /\ r.blocks_dirty = FALSE
      /\ r.block = s.block /\ r.file = s.file /\ r.saved = s.saved
  BY <1>0, <1>1 DEF IsStore
<1>3. \A u \in Urls : r.entries[u] = NONE
  BY <1>2 DEF NoEntries
<1>4. Basic(r)
  <2>1. HeapOK(r) /\ Flags(r)
    BY <1>2, <1>3 DEF HeapOK, Flags
  <2>2. SavedOff(r)
    BY <1>2 DEF SavedOff
  <2> QED  BY <1>2, <2>1, <2>2 DEF Basic
<1>5. ASSUME RestOwned(s)
      PROVE  BlocksOK(r)
  <2>1. UseSaved(r) /\ LiveOwned(r)
    BY <1>2, <1>3 DEF UseSaved, LiveOwned, Owned
  <2>2. SavedOwned(r)
    BY <1>2, <1>5 DEF RestOwned, SavedOwned, SavedMap
  <2> QED  BY <2>1, <2>2 DEF BlocksOK
<1>6. ASSUME NEW l, RestHolds(s, l)
      PROVE  DiscOK(r, l)
  <2>1. Holds(r.entries, r, l)
    BY <1>3 DEF Holds
  <2> QED  BY <1>2, <1>6, <2>1, HoldsSame DEF RestHolds, DiscOK
<1> QED  BY <1>2, <1>4, <1>5, <1>6 DEF r

LEMMA FinalisedKeeps ==
    ASSUME NEW s, Basic(s), s.open
    PROVE  /\ Basic(Finalised(s)) /\ ~Finalised(s).open
           /\ BlocksOK(s) => BlocksOK(Finalised(s))
           /\ \A l : DiscOK(s, l) => DiscOK(Finalised(s), l)
<1> DEFINE r == WriteBlocks(WriteEntries(s))
<1>1. /\ Resaved(s, r) /\ SavedOff(r)
      /\ BlocksOK(s) => UseSaved(r) /\ RestOwned(r)
      /\ \A l : DiscOK(s, l) => RestHolds(r, l)
  BY Synced
<1>2. IsStore(r)
  BY <1>1 DEF Resaved
<1>3. Finalised(s) = Closed(r)
  BY DEF Finalised
<1> HIDE DEF r
<1> QED  BY <1>1, <1>2, <1>3, ClosedFacts

LEMMA KilledKeeps ==
    ASSUME NEW s, Basic(s), s.open, NEW r \in Killed(s)
    PROVE  /\ Basic(r) /\ ~r.open
           /\ ~s.maint => /\ BlocksOK(s) => BlocksOK(r)
                          /\ \A l : DiscOK(s, l) => DiscOK(r, l)
<1> DEFINE e1 == [s EXCEPT !.saved.entries = IF s.entries_dirty THEN NONE ELSE @]
           e2 == WriteEntries(s)
           b1 == [e2 EXCEPT !.saved.blocks = IF s.blocks_dirty THEN NONE ELSE @]
<1>0. IsStore(s) /\ SavedOff(s)
  BY DEF Basic
<1>1. CASE r = Closed(s)
  <2>1. ~s.maint /\ BlocksOK(s) => RestOwned(s)
    BY DEF BlocksOK, SavedOwned, RestOwned
  <2>2. \A l : ~s.maint /\ DiscOK(s, l) => RestHolds(s, l)
    BY DEF DiscOK, RestHolds
  <2> QED  BY <1>0, <1>1, <2>1, <2>2, ClosedFacts
<1>2. CASE s.maint /\ r \in {Closed(e1), Closed(e2), Closed(b1), Closed(Maintained(s))}
  <2>1. s.entries_dirty
    BY <1>2 DEF Basic, Flags
  <2>2. IsStore(e1) /\ SavedOff(e1)
    <3>1. e1 = [s EXCEPT !.saved.entries = NONE]
      BY <2>1
    <3> HIDE DEF e1
    <3>2. Resaved(s, e1) /\ e1.saved.entries = NONE
      BY <1>0, <3>1, ResavedEntries
    <3> QED  BY <3>2 DEF Resaved, SavedOff
  <2>3. IsStore(e2) /\ SavedOff(e2) /\ e2.saved.blocks = s.saved.blocks
    <3> HIDE DEF e2
    <3>1. /\ Resaved(s, e2) /\ e2.saved.entries = OffTable(s)
          /\ e2.saved.blocks = s.saved.blocks
      BY <1>0, <2>1, WriteEntriesFacts DEF e2
    <3> QED  BY <1>0, <3>1, OffTableFacts DEF Resaved, SavedOff
  <2> HIDE DEF e2
  <2>4. IsStore(b1) /\ SavedOff(b1)
    <3> DEFINE y == IF s.blocks_dirty THEN NONE ELSE e2.saved.blocks
    <3>1. y \in UseMap \cup {NONE}
      BY <2>3 DEF IsStore
    <3>2. b1 = [e2 EXCEPT !.saved.blocks = y]
      OBVIOUS
    <3> HIDE DEF b1, y
    <3>3. Resaved(e2, b1) /\ b1.saved.entries = e2.saved.entries
      BY <2>3, <3>1, <3>2, ResavedBlocks
    <3> QED  BY <2>3, <3>3 DEF Resaved, SavedOff
  <2>5. IsStore(Maintained(s)) /\ SavedOff(Maintained(s))
    <3>1. Basic(Maintained(s))
      BY MaintainedKeeps
    <3> QED  BY <3>1 DEF Basic
  <2> HIDE DEF e1, b1
  <2> QED  BY <1>2, <2>2, <2>3, <2>4, <2>5, ClosedFacts
<1>3. r = Closed(s) \/ (s.maint /\ r \in {Closed(e1), Closed(e2), Closed(b1), Closed(Maintained(s))})
  BY DEF Killed
<1> QED  BY <1>1, <1>2, <1>3

LEMMA InitialisedKeeps ==
    ASSUME NEW s, Basic(s), ~s.open
    PROVE  /\ Basic(Initialised(s)) /\ Initialised(s).open
           /\ \A u \in Urls, e \in Elems : Initialised(s).entries[u] # NONE =>
                 Initialised(s).entries[u].elem[e].ref = 0
           /\ BlocksOK(s) => BlocksOK(Initialised(s))
           /\ \A l : DiscOK(s, l) => DiscOK(Initialised(s), l)
<1> DEFINE table == IF s.saved.entries = NONE THEN NoEntries ELSE s.saved.entries
           q == [s EXCEPT !.open = TRUE, !.entries = table, !.use_map = SavedMap(s)]
           total == TotalSize(q, Entries(q))
           r == Initialised(s)
<1>0. /\ IsStore(s) /\ ~s.maint
      /\ SavedMap(s) \in UseMap
      /\ NoEntries \in Table(Stored) /\ \A u \in Urls : NoEntries[u] = NONE
  BY StoreFields DEF Basic, Flags, NoEntries, Table
<1>1. r = [q EXCEPT !.total_alloc = total]
  BY DEF Initialised, SavedMap
<1>2. table \in Table(Stored)
  BY <1>0, StoreFields
<1>t. /\ s.saved.entries # NONE => table = s.saved.entries
      /\ s.saved.entries = NONE => \A u \in Urls : table[u] = NONE
  BY <1>0
<1>3. r = [s EXCEPT !.open = TRUE, !.entries = table, !.use_map = SavedMap(s), !.total_alloc = total]
  <2> HIDE DEF table, r, total
  <2> QED  BY <1>0, <1>1, <1>2 DEF IsStore
<1> HIDE DEF table, q, total, r
<1>4. /\ IsStore(r) /\ r.open = TRUE /\ r.entries = table /\ r.use_map = SavedMap(s)
      /\ r.maint = s.maint /\ r.entries_dirty = s.entries_dirty /\ r.blocks_dirty = s.blocks_dirty
      /\ r.block = s.block /\ r.file = s.file /\ r.saved = s.saved
  BY <1>0, <1>2, <1>3 DEF IsStore
<1>5. \A u \in Urls, e \in Elems : r.entries[u] # NONE =>
         ~r.entries[u].elem[e].heap /\ r.entries[u].elem[e].ref = 0
  BY <1>4, <1>t DEF Basic, SavedOff
<1>6. Basic(r)
  <2>1. HeapOK(r)
    BY <1>5 DEF HeapOK
  <2>2. SavedOff(r) /\ Flags(r)
    BY <1>4, <1>0 DEF Basic, SavedOff, Flags
  <2> QED  BY <1>4, <2>1, <2>2 DEF Basic
<1>7. ASSUME BlocksOK(s)
      PROVE  BlocksOK(r)
  <2>1. SavedMap(r) = SavedMap(s)
    BY <1>4 DEF SavedMap
  <2>2. UseSaved(r)
    BY <1>4, <2>1 DEF UseSaved
  <2>3. SavedOwned(r)
    BY <1>0, <1>4, <1>7, <2>1 DEF BlocksOK, SavedOwned
  <2>4. Owned(table, SavedMap(s))
    BY SMTT(30), <1>0, <1>7, <1>t DEF BlocksOK, SavedOwned, Owned
  <2> QED  BY <1>4, <2>2, <2>3, <2>4 DEF BlocksOK, LiveOwned
<1>8. ASSUME NEW l, DiscOK(s, l)
      PROVE  DiscOK(r, l)
  <2>1. s.saved.entries # NONE => Holds(s.saved.entries, r, l)
    BY <1>0, <1>4, <1>8, HoldsSame DEF DiscOK
  <2>2. Holds(table, r, l)
    BY <1>t, <2>1 DEF Holds
  <2> QED  BY <1>4, <2>1, <2>2 DEF DiscOK
<1> QED  BY <1>4, <1>5, <1>6, <1>7, <1>8 DEF r

-----------------------------------------------------------------------------
(* Which entries there are, and how large their elements.                   *)

\* r has no entry that s has not, and its elements have the sizes they had.
Slim(s, r) ==
    /\ r.open = s.open /\ r.saved = s.saved
    /\ \A u \in Urls : r.entries[u] # NONE =>
          /\ s.entries[u] # NONE
          /\ \A e \in Elems : r.entries[u].elem[e].size = s.entries[u].elem[e].size

LEMMA FewerSlim ==
    ASSUME NEW s, NEW r, Fewer(s, r)
    PROVE  Slim(s, r)
  BY DEF Fewer, Slim

LEMMA RetakenSlim ==
    ASSUME NEW s, NEW r, NEW u \in Urls, NEW e \in Elems, NEW y, s.entries[u] # NONE,
           Retaken(s, r, u, e, y), y.size = s.entries[u].elem[e].size
    PROVE  Slim(s, r)
<1> SUFFICES ASSUME NEW w \in Urls, r.entries[w] # NONE
             PROVE  s.entries[w] # NONE /\ \A d \in Elems : r.entries[w].elem[d].size = s.entries[w].elem[d].size
  BY DEF Retaken, Slim
<1>1. CASE w # u
  BY <1>1 DEF Retaken
<1>2. CASE w = u
  <2>1. ASSUME NEW d \in Elems
        PROVE  r.entries[u].elem[d].size = s.entries[u].elem[d].size
    <3>1. CASE d = e
      BY <3>1 DEF Retaken
    <3>2. CASE d # e
      BY <3>2 DEF Retaken
    <3> QED  BY <3>1, <3>2
  <2> QED  BY <1>2, <2>1
<1> QED  BY <1>1, <1>2

LEMMA SlimTrans ==
    ASSUME NEW s, NEW q, NEW r, Slim(s, q), Slim(q, r)
    PROVE  Slim(s, r)
  BY DEF Slim

LEMMA TouchedSlim ==
    ASSUME NEW s, IsStore(s), NEW u \in Urls, s.entries[u] # NONE
    PROVE  Slim(s, Touched(s)) /\ Touched(s).entries = s.entries /\ IsStore(Touched(s))
<1> DEFINE y == s.entries[u].elem["data"]
<1>1. "data" \in Elems
  BY DEF Elems
<1>2. Retaken(s, Touched(s), u, "data", y) /\ Touched(s).entries = s.entries
  BY <1>1, TouchedFacts
<1> HIDE DEF y
<1>3. Slim(s, Touched(s))
  BY <1>1, <1>2, RetakenSlim DEF y
<1> QED  BY <1>2, <1>3 DEF Retaken

LEMMA GuiInvalidateSlim ==
    ASSUME NEW s, IsStore(s), s.open, NEW u \in Urls, NEW r \in GuiInvalidate(s, u)
    PROVE  Slim(s, r.s)
<1>1. CASE s.entries[u] = NONE
  <2>1. r.s = s
    BY <1>1 DEF GuiInvalidate, Outcome
  <2> QED  BY <2>1 DEF Slim
<1>2. CASE s.entries[u] # NONE
  <2>1. r.s = InvalidateEntries(Touched(s), {u})
    BY <1>2 DEF GuiInvalidate, Outcome
  <2>2. Slim(s, Touched(s)) /\ IsStore(Touched(s)) /\ {u} \in SUBSET Entries(Touched(s))
    BY <1>2, TouchedSlim DEF Entries
  <2> DEFINE q == Touched(s)
  <2> HIDE DEF q
  <2>3. Fewer(q, r.s)
    BY <2>1, <2>2, InvalidateFewer DEF q
  <2> QED  BY <2>2, <2>3, FewerSlim, SlimTrans DEF q
<1> QED  BY <1>1, <1>2

\* A release, also by a client that has no reference.
LEMMA GuiReleaseSlim ==
    ASSUME NEW s, Basic(s), s.open, NEW u \in Urls, NEW e \in Elems, NEW r \in GuiRelease(s, u, e)
    PROVE  /\ Slim(s, r.s)
           /\ \A h \in [Urls -> [Elems -> Nat]] : Refs(s, h) /\ h[u][e] = 0 => Refs(r.s, h)
<1> DEFINE el == s.entries[u].elem[e]
           y == ReleaseAlloc(el)
           q == [Touched(s) EXCEPT !.entries[u].elem[e] = y]
<1>0. IsStore(s)
  BY DEF Basic
<1>1. CASE s.entries[u] = NONE
  <2>1. r.s = s
    BY <1>1 DEF GuiRelease, Outcome
  <2> QED  BY <2>1 DEF Slim
<1>2. CASE s.entries[u] # NONE
  <2>1. el \in Element(Stored) /\ el.ref \in Nat /\ (el.heap <=> el.ref > 0)
    BY <1>0, <1>2, StoreFields, EntryFields DEF Basic, HeapOK, Element
  <2>2. y \in Element(Stored) /\ y.size = el.size /\ (el.ref = 0 => y = el)
    <3> HIDE DEF el
    <3>1. CASE ~el.heap
      BY <2>1, <3>1 DEF ReleaseAlloc
    <3>2. CASE el.heap /\ el.ref = 1
      <4>1. y = [el EXCEPT !.ref = 0, !.heap = FALSE, !.data = NONE]
        BY <3>2 DEF ReleaseAlloc
      <4> HIDE DEF y
      <4>2. y \in Element(Stored)
        BY <2>1, <4>1 DEF Element
      <4>3. y.size = el.size
        BY <2>1, <4>1 DEF Element
      <4> QED  BY <3>2, <4>2, <4>3
    <3>3. CASE el.heap /\ el.ref # 1
      <4>1. y = [el EXCEPT !.ref = el.ref - 1] /\ el.ref - 1 \in Nat /\ el.ref # 0
        BY <2>1, <3>3 DEF ReleaseAlloc
      <4> HIDE DEF y
      <4> QED  BY <2>1, <4>1 DEF Element
    <3> QED  BY <3>1, <3>2, <3>3
  <2>3. Touched(s).entries = s.entries
    BY <1>0, <1>2, TouchedFacts
  <2>4. r.s = IF q.entries[u].invalid THEN InvalidateEntries(q, {u}) ELSE q
    BY <1>2, <2>3 DEF GuiRelease, Outcome
  <2> HIDE DEF y
  <2>5. Retaken(s, q, u, e, y)
    BY SMTT(30), <1>0, <1>2, <2>2, RetakenFacts
  <2> HIDE DEF q
  <2>6. Slim(s, q) /\ IsStore(q) /\ {u} \in SUBSET Entries(q)
    <3>1. Slim(s, q)
      BY <1>2, <2>2, <2>5, RetakenSlim
    <3> QED  BY <2>5, <3>1 DEF Retaken, Entries
  <2>7. q = r.s \/ Fewer(q, r.s)
    BY <2>4, <2>6, InvalidateFewer
  <2>8. Slim(s, r.s)
    BY <2>6, <2>7, FewerSlim, SlimTrans
  <2>9. ASSUME NEW h \in [Urls -> [Elems -> Nat]], Refs(s, h), h[u][e] = 0
        PROVE  Refs(r.s, h)
    <3>1. el.ref = 0 /\ y = el
      BY <1>2, <2>2, <2>9 DEF Refs
    <3>2. Refs(q, h)
      <4>1. Refs(q, [h EXCEPT ![u][e] = 0])
        BY <1>2, <2>5, <2>9, <3>1, RetakenRefs
      <4>2. [h EXCEPT ![u][e] = 0] = h
        BY <2>9
      <4> QED  BY <4>1, <4>2
    <3>3. Basic(q)
      <4>1. /\ (y.heap <=> y.ref > 0) /\ (y.heap => y.data # NONE)
            /\ y.size = el.size /\ y.block = el.block
        BY <1>2, <2>1, <3>1 DEF Basic, HeapOK
      <4> QED  BY <1>2, <2>2, <2>5, <4>1, RetakenKeeps
    <3> QED  BY <2>7, <3>2, <3>3, FewerRefs
  <2> QED  BY <2>8, <2>9
<1> QED  BY <1>1, <1>2


\* A fetch that succeeds returns what was last stored.
LEMMA GuiFetchSlim ==
    ASSUME NEW s, Basic(s), s.open, NEW u \in Urls, NEW e \in Elems, NEW r \in GuiFetch(s, u, e)
    PROVE  /\ Slim(s, r.s)
           /\ r.ret = "ok" => s.entries[u] # NONE /\ r.data # NONE
           /\ \A l \in [Urls -> [Elems -> Stored \cup {NONE}]] :
                r.ret = "ok" /\ DiscOK(s, l) /\ s.entries[u].elem[e].size > 0 => r.data = l[u][e]
<1> DEFINE el == s.entries[u].elem[e]
           got == IF el.heap THEN el.data ELSE ReadElement(s, u, e)
           y == IF el.heap THEN [el EXCEPT !.ref = el.ref + 1]
                ELSE [el EXCEPT !.heap = TRUE, !.ref = 1, !.data = got]
           z == [el EXCEPT !.ref = 0]
           kept == [Touched(s) EXCEPT !.entries[u].elem[e] = y]
           failed == [Touched(s) EXCEPT !.entries[u].elem[e] = z]
<1>0. IsStore(s)
  BY DEF Basic
<1>1. CASE s.entries[u] = NONE
  <2>1. r.s = s /\ r.ret = "not_found"
    BY <1>1 DEF GuiFetch, Outcome
  <2> QED  BY <2>1 DEF Slim
<1>2. CASE s.entries[u] # NONE
  <2>1. el \in Element(Stored) /\ got \in Stored \cup {NONE}
    BY <1>0, <1>2, StoreFields, EntryFields, ReadFacts DEF Element
  <2>2. Touched(s).entries = s.entries
    BY <1>0, <1>2, TouchedFacts
  <2>3. \/ r.ret = "ok" /\ r.s = kept /\ r.data = got /\ got # NONE
        \/ r.ret # "ok" /\ r.s \in {failed, Touched(s)}
    <3>1. failed = [Touched(s) EXCEPT !.entries[u].elem[e].ref = 0]
      BY SMTT(30), <2>2
    <3>2. r \in (IF got = NONE THEN {Outcome("not_found", failed)}
                 ELSE {[ret |-> "ok", s |-> kept, data |-> got]})
                \cup (IF CanFail /\ ~el.heap THEN {Outcome("nomem", Touched(s))} ELSE {})
      BY <1>2, <3>1 DEF GuiFetch
    <3> HIDE DEF kept, failed, got, el
    <3> QED  BY <3>2 DEF Outcome
  <2>4. y \in Element(Stored) /\ y.size = el.size
    <3> HIDE DEF el, got
    <3>1. CASE el.heap
      <4>1. y = [el EXCEPT !.ref = el.ref + 1]
        BY <3>1
      <4> HIDE DEF y
      <4> QED  BY <2>1, <4>1 DEF Element
    <3>2. CASE ~el.heap
      <4>1. y = [el EXCEPT !.heap = TRUE, !.ref = 1, !.data = got]
        BY <3>2
      <4> HIDE DEF y
      <4>2. y \in Element(Stored)
        BY <2>1, <4>1 DEF Element
      <4>3. y.size = el.size
        BY <2>1, <4>1 DEF Element
      <4> QED  BY <4>2, <4>3
    <3> QED  BY <3>1, <3>2
  <2>5. z \in Element(Stored) /\ z.size = el.size
    <3> HIDE DEF el
    <3> QED  BY <2>1 DEF Element
  <2>6. Slim(s, kept)
    <3> HIDE DEF y
    <3>1. Retaken(s, kept, u, e, y)
      BY <1>0, <1>2, <2>4, RetakenFacts
    <3> HIDE DEF kept
    <3> QED  BY <1>2, <2>4, <3>1, RetakenSlim
  <2>7. Slim(s, failed)
    <3> HIDE DEF z
    <3>1. Retaken(s, failed, u, e, z)
      BY <1>0, <1>2, <2>5, RetakenFacts
    <3> HIDE DEF failed
    <3> QED  BY <1>2, <2>5, <3>1, RetakenSlim
  <2>8. Slim(s, Touched(s))
    BY <1>0, <1>2, TouchedSlim
  <2>9. ASSUME NEW l \in [Urls -> [Elems -> Stored \cup {NONE}]], DiscOK(s, l), el.size > 0, got # NONE
        PROVE  got = l[u][e]
    <3>1. el.heap => el.data = l[u][e]
      BY <1>2, <2>9 DEF DiscOK, Holds
    <3>2. ReadElement(s, u, e) \in {l[u][e], NONE}
      BY <1>0, <1>2, <2>9, ReadFacts
    <3> HIDE DEF el
    <3> QED  BY <2>9, <3>1, <3>2
  <2> HIDE DEF kept, failed, got, el
  <2>10. Slim(s, r.s)
    BY <2>3, <2>6, <2>7, <2>8
  <2>11. r.ret = "ok" => r.data # NONE
    BY <2>3
  <2>12. ASSUME NEW l \in [Urls -> [Elems -> Stored \cup {NONE}]],
                r.ret = "ok", DiscOK(s, l), s.entries[u].elem[e].size > 0
         PROVE  r.data = l[u][e]
    <3>1. el.size > 0 /\ got # NONE /\ r.data = got
      BY <2>3, <2>12 DEF el
    <3> QED  BY <2>9, <2>12, <3>1
  <2> QED  BY <1>2, <2>10, <2>11, <2>12
<1> QED  BY <1>1, <1>2

\* While the disc does not fail, a store succeeds unless the element is in use.
\* An eviction before it spares the entry while one of its elements is in use.
\* r has the element e of u besides, with the size n.
Placed(s, r, u, e, n) ==
    /\ r.open = s.open /\ r.saved = s.saved
    /\ r.entries[u] # NONE /\ r.entries[u].elem[e].size = n
    /\ \A w \in Urls : w # u /\ r.entries[w] # NONE =>
          s.entries[w] # NONE /\ \A d \in Elems : r.entries[w].elem[d].size = s.entries[w].elem[d].size
    /\ \A d \in Elems : d # e /\ s.entries[u] # NONE /\ s.entries[u].elem[d].heap =>
          r.entries[u].elem[d].size = s.entries[u].elem[d].size

LEMMA GuiStoreSlim ==
    ASSUME NEW s, Basic(s), s.open, NEW u \in Urls, NEW e \in Elems, NEW data \in Stored,
           data.size \in Nat, CanFail = FALSE, NEW r \in GuiStore(s, u, e, data)
    PROVE  /\ r.ret = "ok" <=> ~(s.entries[u] # NONE /\ s.entries[u].elem[e].heap)
           /\ r.ret # "ok" => Slim(s, r.s)
           /\ r.ret = "ok" => Placed(s, r.s, u, e, data.size)
<1>1. PICK v \in Evicted(s) :
        r \in IF v.entries[u] # NONE /\ v.entries[u].elem[e].heap
              THEN {Outcome("permission", v)}
              ELSE LET set == SetElement(v, u, e, data) IN
                   {Outcome("ok", WriteElement(set, u, e))}
                     \cup (IF CanFail THEN {Outcome("save_failed", set)} ELSE {})
  BY DEF GuiStore
<1>2. Fewer(s, v) /\ IsStore(v)
  <2>1. Fewer(s, v)
    BY EvictedFewer DEF Basic
  <2> QED  BY <2>1 DEF Fewer
<1> DEFINE m == SetElement(v, u, e, data)
<1>3. PICK b \in Blocks : Set(v, m, u, e, data, b)
  BY <1>2, SetFacts
<1>4. Written(m, WriteElement(m, u, e), u, e)
  <2>1. IsStore(m) /\ m.entries[u] # NONE /\ m.entries[u].elem[e].data = data
    BY <1>3 DEF Set
  <2> QED  BY <2>1, WriteFacts
<1> HIDE DEF m
<1>5. \A w \in Urls : v.entries[w] # NONE =>
        s.entries[w] # NONE /\ \A d \in Elems : v.entries[w].elem[d] = s.entries[w].elem[d]
  BY <1>2 DEF Fewer
<1>6. \A d \in Elems : s.entries[u] # NONE /\ s.entries[u].elem[d].heap => v.entries[u] # NONE
  BY <1>2 DEF Fewer
<1>7. CASE v.entries[u] # NONE /\ v.entries[u].elem[e].heap
  <2>1. r.ret = "permission" /\ r.s = v
    BY <1>1, <1>7 DEF Outcome
  <2> QED  BY <1>2, <1>5, <1>7, <2>1, FewerSlim
<1>8. CASE ~(v.entries[u] # NONE /\ v.entries[u].elem[e].heap)
  <2>1. r.ret = "ok" /\ r.s = WriteElement(m, u, e)
    BY <1>1, <1>8 DEF Outcome, m
  <2>2. Written(m, r.s, u, e)
    BY <1>4, <2>1
  <2>3. /\ r.s.open = m.open /\ r.s.saved = m.saved /\ r.s.entries = m.entries
    BY <2>2 DEF Written
  <2>4. /\ m.open = v.open /\ m.saved = v.saved
        /\ m.entries[u] # NONE /\ m.entries[u].elem[e].size = data.size
        /\ \A w \in Urls : w # u => m.entries[w] = v.entries[w]
        /\ \A d \in Elems : d # e => m.entries[u].elem[d] = EntryOf(v, u).elem[d]
    BY <1>3 DEF Set
  <2>5. v.open = s.open /\ v.saved = s.saved
    BY <1>2 DEF Fewer
  <2>6. ~(s.entries[u] # NONE /\ s.entries[u].elem[e].heap)
    BY <1>5, <1>6, <1>8
  <2>7. \A d \in Elems : d # e /\ s.entries[u] # NONE /\ s.entries[u].elem[d].heap =>
           m.entries[u].elem[d] = s.entries[u].elem[d]
    BY <1>5, <1>6, <2>4 DEF EntryOf
  <2>8. Placed(s, r.s, u, e, data.size)
    BY <1>5, <2>3, <2>4, <2>5, <2>7 DEF Placed
  <2> QED  BY <2>1, <2>6, <2>8
<1> QED  BY <1>7, <1>8

=============================================================================
