---------------------------- MODULE StoreProofs ----------------------------
(***************************************************************************)
(* Proofs about the backing store and its client, for any URLs, sizes,      *)
(* number of blocks and limits.                                             *)
(***************************************************************************)
EXTENDS StoreClient, StoreLemmas

(* The invariants.                                                          *)

LatestOK ==
    \A u \in Urls, e \in Elems :
       latest[u][e] # NONE => latest[u][e].ver \in Versions /\ latest[u][e].url = u

Base == StoreTypeOK /\ Basic(store) /\ LatestOK

\* What a step keeps, and what it keeps it from.
Kept ==
    /\ Base'
    /\ CanFail = FALSE /\ RefsExact => RefsExact'
    /\ Quits = "quiet" /\ BlocksOK(store) => BlocksOK(store')
    /\ /\ CanFail = FALSE /\ Grows = FALSE /\ Quits = "quiet"
       /\ BlocksOK(store) /\ DiscOK(store, latest)
       => DiscOK(store', latest')

LEMMA RefsIs == RefsExact <=> Refs(store, held)
  BY DEF RefsExact, Refs

LEMMA RefsIsNext == RefsExact' <=> Refs(store', held')
  BY DEF RefsExact, Refs

LEMMA StoreStep ==
    ASSUME Base, NEW u \in Urls, NEW e \in Elems, Store(u, e)
    PROVE  Kept
<1>1. PICK n \in Sizes[u][e] :
        LET data == [url |-> u, ver |-> NextVersion(u, e), size |-> n] IN
        /\ store.open /\ Replaceable(u, e, n)
        /\ \E r \in GuiStore(store, u, e, data) :
             /\ store' = r.s
             /\ IF r.ret = "ok"
                THEN /\ held' = [held EXCEPT ![u][e] = 1]
                     /\ latest' = [latest EXCEPT ![u][e] = data]
                ELSE UNCHANGED <<held, latest>>
  BY DEF Store
<1> DEFINE data == [url |-> u, ver |-> NextVersion(u, e), size |-> n]
<1>2. PICK r \in GuiStore(store, u, e, data) :
        /\ store' = r.s
        /\ IF r.ret = "ok"
           THEN /\ held' = [held EXCEPT ![u][e] = 1]
                /\ latest' = [latest EXCEPT ![u][e] = data]
           ELSE UNCHANGED <<held, latest>>
  BY <1>1
<1>3. NextVersion(u, e) \in Versions
  <2>1. latest[u][e] # NONE => latest[u][e].ver \in {1, 2}
    BY DEF Base, LatestOK, Versions
  <2> QED  BY <2>1 DEF NextVersion, Versions
<1>4. n \in Nat /\ n \in UNION {Sizes[w][d] : w \in Urls, d \in Elems}
  BY ClientAssumption
<1>5. data \in Stored /\ data.size \in Nat /\ data.size = n /\ data.url = u /\ data.ver \in Versions
  BY <1>3, <1>4, ClientAssumption DEF Kinds, Data
<1> HIDE DEF data
<1>6. /\ Basic(store) /\ store.open
      /\ held \in [Urls -> [Elems -> Nat]]
      /\ latest \in [Urls -> [Elems -> Stored \cup {NONE}]]
  BY <1>1 DEF Base, StoreTypeOK
<1>7. /\ Basic(r.s)
      /\ BlocksOK(store) => BlocksOK(r.s)
      /\ \A h \in [Urls -> [Elems -> Nat]] : Refs(store, h) /\ ~CanFail =>
            Refs(r.s, IF r.ret = "ok" THEN [h EXCEPT ![u][e] = 1] ELSE h)
      /\ \A l \in [Urls -> [Elems -> Stored \cup {NONE}]] :
            /\ DiscOK(store, l) /\ BlocksOK(store) /\ ~CanFail
            /\ data.size > 1 /\ store.entries[u] # NONE => store.entries[u].elem[e].block = 0
            => DiscOK(r.s, IF r.ret = "ok" THEN [l EXCEPT ![u][e] = data] ELSE l)
  BY <1>5, <1>6, GuiStoreKeeps
<1>8. /\ held' = IF r.ret = "ok" THEN [held EXCEPT ![u][e] = 1] ELSE held
      /\ latest' = IF r.ret = "ok" THEN [latest EXCEPT ![u][e] = data] ELSE latest
  BY <1>2
<1>9. Base'
  <2>1. held' \in [Urls -> [Elems -> Nat]] /\ latest' \in [Urls -> [Elems -> Stored \cup {NONE}]]
    BY <1>5, <1>6, <1>8
  <2>2. LatestOK'
    <3>1. LatestOK
      BY DEF Base
    <3>2. \A w \in Urls, d \in Elems : latest'[w][d] = latest[w][d] \/ (w = u /\ latest'[w][d] = data)
      BY <1>6, <1>8
    <3> QED  BY <1>5, <3>1, <3>2 DEF LatestOK
  <2>3. Basic(store')
    BY <1>2, <1>7
  <2> QED  BY <2>1, <2>2, <2>3 DEF Base, StoreTypeOK, Basic
<1>10. CanFail = FALSE /\ RefsExact => RefsExact'
  BY <1>2, <1>6, <1>7, <1>8, RefsIs, RefsIsNext
<1>11. Quits = "quiet" /\ BlocksOK(store) => BlocksOK(store')
  BY <1>2, <1>7
<1>12. ASSUME CanFail = FALSE, Grows = FALSE, Quits = "quiet", BlocksOK(store), DiscOK(store, latest)
       PROVE  DiscOK(store', latest')
  <2>1. data.size > 1 /\ store.entries[u] # NONE => store.entries[u].elem[e].block = 0
    BY <1>1, <1>5, <1>12 DEF Replaceable
  <2>2. DiscOK(r.s, IF r.ret = "ok" THEN [latest EXCEPT ![u][e] = data] ELSE latest)
    BY <1>6, <1>7, <1>12, <2>1
  <2> QED  BY <1>2, <1>8, <2>2
<1> QED  BY <1>9, <1>10, <1>11, <1>12 DEF Kept

LEMMA FetchStep ==
    ASSUME Base, NEW u \in Urls, NEW e \in Elems, Fetch(u, e)
    PROVE  Kept
<1>1. PICK r \in GuiFetch(store, u, e) :
         /\ store' = r.s
         /\ held' = IF r.ret = "ok" THEN [held EXCEPT ![u][e] = @ + 1] ELSE held
  BY DEF Fetch
<1>2. /\ Basic(store) /\ store.open /\ latest' = latest
      /\ held \in [Urls -> [Elems -> Nat]]
      /\ latest \in [Urls -> [Elems -> Stored \cup {NONE}]]
  BY DEF Fetch, Base, StoreTypeOK
<1>3. /\ Basic(r.s)
      /\ BlocksOK(store) => BlocksOK(r.s)
      /\ \A h \in [Urls -> [Elems -> Nat]] : Refs(store, h) =>
            Refs(r.s, IF r.ret = "ok" THEN [h EXCEPT ![u][e] = @ + 1] ELSE h)
      /\ \A l \in [Urls -> [Elems -> Stored \cup {NONE}]] : DiscOK(store, l) => DiscOK(r.s, l)
  BY <1>2, GuiFetchKeeps
<1>4. held' \in [Urls -> [Elems -> Nat]]
  BY <1>1, <1>2
<1>5. Base'
  <2>1. IsStore(store') /\ Basic(store')
    BY <1>1, <1>3 DEF Basic
  <2> QED  BY <1>2, <1>4, <2>1 DEF Base, StoreTypeOK, LatestOK
<1>6. RefsExact => RefsExact'
  BY <1>1, <1>2, <1>3, RefsIs, RefsIsNext
<1> QED  BY <1>1, <1>2, <1>3, <1>5, <1>6 DEF Kept

LEMMA ReleaseStep ==
    ASSUME Base, NEW u \in Urls, NEW e \in Elems, Release(u, e)
    PROVE  Kept
<1>1. PICK r \in GuiRelease(store, u, e) : store' = r.s
  BY DEF Release
<1>2. /\ Basic(store) /\ store.open /\ latest' = latest /\ held[u][e] > 0
      /\ held \in [Urls -> [Elems -> Nat]]
      /\ latest \in [Urls -> [Elems -> Stored \cup {NONE}]]
      /\ held' = [held EXCEPT ![u][e] = @ - 1]
  BY DEF Release, Base, StoreTypeOK
<1>3. /\ Basic(r.s)
      /\ BlocksOK(store) => BlocksOK(r.s)
      /\ \A h \in [Urls -> [Elems -> Nat]] : Refs(store, h) /\ h[u][e] > 0 =>
            Refs(r.s, [h EXCEPT ![u][e] = @ - 1])
      /\ \A l : DiscOK(store, l) => DiscOK(r.s, l)
  BY <1>2, GuiReleaseKeeps
<1>4. held' \in [Urls -> [Elems -> Nat]]
  BY <1>2
<1>5. Base'
  <2>1. IsStore(store') /\ Basic(store')
    BY <1>1, <1>3 DEF Basic
  <2> QED  BY <1>2, <1>4, <2>1 DEF Base, StoreTypeOK, LatestOK
<1>6. RefsExact => RefsExact'
  BY <1>1, <1>2, <1>3, RefsIs, RefsIsNext
<1> QED  BY <1>1, <1>2, <1>3, <1>5, <1>6 DEF Kept

LEMMA InvalidateStep ==
    ASSUME Base, NEW u \in Urls, Invalidate(u)
    PROVE  Kept
<1>1. PICK r \in GuiInvalidate(store, u) : store' = r.s
  BY DEF Invalidate
<1>2. Basic(store) /\ store.open /\ latest' = latest /\ held' = held
  BY DEF Invalidate, Base
<1>3. /\ Basic(r.s)
      /\ BlocksOK(store) => BlocksOK(r.s)
      /\ \A h : Refs(store, h) => Refs(r.s, h)
      /\ \A l : DiscOK(store, l) => DiscOK(r.s, l)
  BY <1>2, GuiInvalidateKeeps
<1>4. Base'
  <2>1. IsStore(store') /\ Basic(store')
    BY <1>1, <1>3 DEF Basic
  <2> QED  BY <1>2, <2>1 DEF Base, StoreTypeOK, LatestOK
<1>5. RefsExact => RefsExact'
  BY <1>1, <1>2, <1>3, RefsIs, RefsIsNext
<1> QED  BY <1>1, <1>2, <1>3, <1>4, <1>5 DEF Kept

\* The process keeps nothing when it ends.
LEMMA GoneStep ==
    ASSUME Base, Gone, Basic(store'), ~store'.open,
           Quits = "quiet" /\ BlocksOK(store) => BlocksOK(store'),
           Quits = "quiet" /\ DiscOK(store, latest) => DiscOK(store', latest)
    PROVE  Kept
<1>1. held' = [u \in Urls |-> [e \in Elems |-> 0]] /\ latest' = latest
  BY DEF Gone
<1>2. \A u \in Urls, e \in Elems : store'.entries[u] = NONE /\ held'[u][e] = 0
  BY <1>1 DEF Basic, Flags, NoEntries
<1>3. Base'
  BY <1>1 DEF Base, StoreTypeOK, Basic, LatestOK
<1>4. RefsExact'
  BY <1>2 DEF RefsExact
<1> QED  BY <1>1, <1>3, <1>4 DEF Kept

LEMMA StepKeeps ==
    ASSUME Base, [Next]_vars
    PROVE  Kept
<1>0. Basic(store)
  BY DEF Base
<1>1. ASSUME NEW u \in Urls, NEW e \in Elems, Store(u, e)
      PROVE  Kept
  BY <1>1, StoreStep
<1>2. ASSUME NEW u \in Urls, NEW e \in Elems, Fetch(u, e)
      PROVE  Kept
  BY <1>2, FetchStep
<1>3. ASSUME NEW u \in Urls, NEW e \in Elems, Release(u, e)
      PROVE  Kept
  BY <1>3, ReleaseStep
<1>4. ASSUME NEW u \in Urls, Invalidate(u)
      PROVE  Kept
  BY <1>4, InvalidateStep
<1>5. CASE Maintain
  <2>1. store.open /\ store' = Maintained(store) /\ held' = held /\ latest' = latest
    BY <1>5 DEF Maintain
  <2>2. /\ Basic(store') /\ (BlocksOK(store) => BlocksOK(store'))
        /\ store'.entries = store.entries
        /\ DiscOK(store, latest) => DiscOK(store', latest)
    BY <1>0, <2>1, MaintainedKeeps
  <2>3. Base'
    BY <2>1, <2>2 DEF Base, StoreTypeOK, Basic, LatestOK
  <2>4. RefsExact => RefsExact'
    BY <2>1, <2>2 DEF RefsExact
  <2> QED  BY <2>1, <2>2, <2>3, <2>4 DEF Kept
<1>6. CASE Finalise
  <2>1. store.open /\ store' = Finalised(store) /\ Gone
    BY <1>6 DEF Finalise
  <2>2. /\ Basic(store') /\ ~store'.open /\ (BlocksOK(store) => BlocksOK(store'))
        /\ DiscOK(store, latest) => DiscOK(store', latest)
    BY <1>0, <2>1, FinalisedKeeps
  <2> QED  BY <2>1, <2>2, GoneStep
<1>7. CASE Quit
  <2>1. store.open /\ (Quits = "quiet" => ~store.maint) /\ store' \in Killed(store) /\ Gone
    BY <1>7 DEF Quit
  <2>2. /\ Basic(store') /\ ~store'.open
        /\ ~store.maint => /\ BlocksOK(store) => BlocksOK(store')
                           /\ DiscOK(store, latest) => DiscOK(store', latest)
    BY <1>0, <2>1, KilledKeeps
  <2> QED  BY <2>1, <2>2, GoneStep
<1>8. CASE Start
  <2>1. ~store.open /\ store' = Initialised(store) /\ held' = held /\ latest' = latest
    BY <1>8 DEF Start
  <2>2. /\ Basic(store')
        /\ \A u \in Urls, e \in Elems : store'.entries[u] # NONE => store'.entries[u].elem[e].ref = 0
        /\ BlocksOK(store) => BlocksOK(store')
        /\ DiscOK(store, latest) => DiscOK(store', latest)
    BY <1>0, <2>1, InitialisedKeeps
  <2>3. Base'
    BY <2>1, <2>2 DEF Base, StoreTypeOK, Basic, LatestOK
  <2>4. RefsExact => RefsExact'
    <3>1. \A u \in Urls : store.entries[u] = NONE
      BY <1>0, <2>1 DEF Basic, Flags, NoEntries
    <3> QED  BY <2>1, <2>2, <3>1 DEF RefsExact
  <2> QED  BY <2>1, <2>2, <2>3, <2>4 DEF Kept
<1>9. CASE UNCHANGED vars
  BY <1>9 DEF Kept, vars, Base, StoreTypeOK, LatestOK, RefsExact
<1> QED  BY <1>1, <1>2, <1>3, <1>4, <1>5, <1>6, <1>7, <1>8, <1>9 DEF Next

LEMMA InitKeeps ==
    ASSUME Init
    PROVE  Base /\ RefsExact /\ BlocksOK(store) /\ DiscOK(store, latest)
<1>1. /\ store.open = TRUE /\ store.entries = NoEntries /\ store.use_map = [e \in Elems |-> {0}]
      /\ store.entries_dirty = FALSE /\ store.blocks_dirty = FALSE /\ store.maint = FALSE
      /\ store.saved.entries = NONE /\ store.saved.blocks = NONE
  BY DEF Init, FreshStore
<1>2. \A u \in Urls : store.entries[u] = NONE
  BY <1>1 DEF NoEntries
<1>3. IsStore(store)
  <2>1. 0 \in Blocks
    BY StoreAssumption DEF Blocks
  <2> QED  BY <2>1 DEF Init, FreshStore, IsStore, NoEntries, Table, UseMap
<1>4. Basic(store)
  BY <1>1, <1>2, <1>3 DEF Basic, HeapOK, SavedOff, Flags
<1>5. Base
  BY <1>3, <1>4 DEF Init, Base, StoreTypeOK, LatestOK
<1>6. RefsExact
  BY <1>2 DEF Init, RefsExact
<1>7. BlocksOK(store)
  BY <1>1, <1>2 DEF BlocksOK, UseSaved, LiveOwned, SavedOwned, Owned, SavedMap
<1>8. DiscOK(store, latest)
  BY <1>1, <1>2 DEF DiscOK, Holds
<1> QED  BY <1>5, <1>6, <1>7, <1>8

(***************************************************************************)
(* Every variable has its type, whatever fails and whenever the process     *)
(* ends: the blocks and sizes in the table and in the index stay in range.  *)
(***************************************************************************)
THEOREM StoreTyping == Spec => []StoreTypeOK
<1>1. Init => Base
  BY InitKeeps
<1>2. Base /\ [Next]_vars => Base'
  BY StepKeeps DEF Kept
<1>3. Base => StoreTypeOK
  BY DEF Base
<1> QED  BY <1>1, <1>2, <1>3, PTL DEF Spec

(***************************************************************************)
(* While writes and allocations succeed, the count of references to an      *)
(* element is the number that the client of gui_llcache_store() and         *)
(* gui_llcache_fetch() owns, for any number of URLs and any references.      *)
(***************************************************************************)
THEOREM RefsCounted ==
    ASSUME CanFail = FALSE
    PROVE  Spec => []RefsExact
<1>1. Init => Base /\ RefsExact
  BY InitKeeps
<1>2. (Base /\ RefsExact) /\ [Next]_vars => (Base /\ RefsExact)'
  BY StepKeeps DEF Kept
<1> QED  BY <1>1, <1>2, PTL DEF Spec

(***************************************************************************)
(* alloc_block() never hands out a block that an element has, and no two    *)
(* elements share one, also after restarts, when the process does not end   *)
(* while maintenance is pending; writes may fail.                           *)
(***************************************************************************)
THEOREM BlocksNeverShared ==
    ASSUME Quits = "quiet"
    PROVE  Spec => []BlocksOwned
<1> DEFINE Inv == Base /\ BlocksOK(store)
<1>1. Init => Inv
  BY InitKeeps
<1>2. Inv /\ [Next]_vars => Inv'
  BY StepKeeps DEF Kept
<1>3. Inv => BlocksOwned
  BY DEF BlocksOK, LiveOwned, Owned, BlocksOwned, Entries
<1> HIDE DEF Inv
<1> QED  BY <1>1, <1>2, <1>3, PTL DEF Spec

\* The disc agrees with the tables, which rests on the ownership of blocks.
DiscInv == Base /\ BlocksOK(store) /\ DiscOK(store, latest)

LEMMA DiscInvariant ==
    ASSUME CanFail = FALSE, Grows = FALSE, Quits = "quiet"
    PROVE  Spec => []DiscInv
<1>1. Init => DiscInv
  BY InitKeeps DEF DiscInv
<1>2. DiscInv /\ [Next]_vars => DiscInv'
  BY StepKeeps DEF Kept, DiscInv
<1> QED  BY <1>1, <1>2, PTL DEF Spec

(***************************************************************************)
(* A fetch returns what was last stored under the URL or fails, in any      *)
(* process: no block is read that another element has written.              *)
(***************************************************************************)
THEOREM FetchesLatest ==
    ASSUME CanFail = FALSE, Grows = FALSE, Quits = "quiet"
    PROVE  Spec => []FetchedIsLatest
<1>1. DiscInv => FetchedIsLatest
  <2> SUFFICES ASSUME DiscInv, NEW u \in Entries(store), NEW e \in Elems,
                      store.entries[u].elem[e].size > 0
               PROVE  IF store.entries[u].elem[e].heap THEN store.entries[u].elem[e].data = latest[u][e]
                      ELSE ReadElement(store, u, e) \in {latest[u][e], NONE}
    BY DEF FetchedIsLatest
  <2>1. /\ u \in Urls /\ store.entries[u] # NONE /\ IsStore(store) /\ DiscOK(store, latest)
        /\ latest \in [Urls -> [Elems -> Stored \cup {NONE}]]
    BY SMTT(30) DEF DiscInv, Base, StoreTypeOK, Entries
  <2>2. CASE store.entries[u].elem[e].heap
    BY <2>1, <2>2 DEF DiscOK, Holds
  <2>3. CASE ~store.entries[u].elem[e].heap
    BY <2>1, <2>3, ReadFacts
  <2> QED  BY <2>2, <2>3
<1> QED  BY <1>1, DiscInvariant, PTL

(***************************************************************************)
(* While no maintenance is pending, the index files agree with the disc, so *)
(* that a process may end without gui_llcache_finalise().                   *)
(***************************************************************************)
THEOREM QuietStoreIsSafe ==
    ASSUME CanFail = FALSE, Grows = FALSE, Quits = "quiet"
    PROVE  Spec => []QuietIsSafe
<1>1. DiscInv => QuietIsSafe
  <2> SUFFICES ASSUME DiscInv, ~store.maint, store.saved.entries # NONE,
                      NEW u \in Urls, NEW e \in Elems, store.saved.entries[u] # NONE,
                      store.saved.entries[u].elem[e].block # 0
               PROVE  /\ store.saved.blocks # NONE
                      /\ store.saved.entries[u].elem[e].block \in store.saved.blocks[e]
                      /\ store.saved.entries[u].elem[e].size > 0 =>
                           store.block[e][store.saved.entries[u].elem[e].block].data.url = u
    BY DEF QuietIsSafe
  <2> DEFINE el == store.saved.entries[u].elem[e]
  <2>1. el.block \in SavedMap(store)[e]
    BY DEF DiscInv, BlocksOK, SavedOwned, Owned
  <2>2. store.saved.blocks # NONE /\ el.block \in store.saved.blocks[e]
    BY <2>1 DEF SavedMap
  <2>3. ASSUME el.size > 0
        PROVE  store.block[e][el.block].data.url = u
    <3>1. latest[u][e] # NONE /\ store.block[e][el.block] = [data |-> latest[u][e], piece |-> 0]
      BY <2>3 DEF DiscInv, DiscOK, Holds
    <3>2. latest[u][e].url = u
      BY <3>1 DEF DiscInv, Base, LatestOK
    <3> QED  BY SMTT(30), <3>1, <3>2
  <2> QED  BY <2>2, <2>3
<1> QED  BY <1>1, DiscInvariant, PTL
-----------------------------------------------------------------------------
(* Sizes.                                                                   *)

Alloc(s) == s.total_alloc = TotalSize(s, Entries(s))

LEMMA SizesAreNat ==
    ASSUME NEW s, IsStore(s), NEW u \in Entries(s)
    PROVE  /\ EntrySize(s, u) \in Nat
           /\ \A e \in Elems : s.entries[u].elem[e].size \in Nat
<1>1. u \in Urls /\ s.entries[u] \in Entry(Stored)
  BY StoreFields DEF Entries
<1>2. \A e \in Elems : s.entries[u].elem[e].size \in Nat
  BY <1>1, EntryFields DEF Element
<1> QED  BY <1>2 DEF EntrySize, Elems

LEMMA FilledByOne ==
    ASSUME NEW s, IsStore(s), NEW u \in Entries(s)
    PROVE  /\ IsFiniteSet({u} \X (1 .. EntrySize(s, u)))
           /\ Cardinality({u} \X (1 .. EntrySize(s, u))) = EntrySize(s, u)
<1> DEFINE n == EntrySize(s, u)
<1>1. n \in Nat
  BY SizesAreNat
<1> HIDE DEF n
<1>2. IsFiniteSet(1 .. n) /\ Cardinality(1 .. n) = n
  BY <1>1, FS_Interval
<1>3. IsFiniteSet({u}) /\ Cardinality({u}) = 1
  BY FS_Singleton
<1>4. /\ IsFiniteSet({u} \X (1 .. n))
      /\ Cardinality({u} \X (1 .. n)) = Cardinality({u}) * Cardinality(1 .. n)
  <2> DEFINE U == {u}
             N == 1 .. n
  <2>1. IsFiniteSet(U) /\ IsFiniteSet(N)
    BY <1>2, <1>3
  <2> HIDE DEF U, N
  <2>2. IsFiniteSet(U \X N) /\ Cardinality(U \X N) = Cardinality(U) * Cardinality(N)
    BY <2>1, FS_Product, Zenon
  <2> QED  BY <2>2 DEF U, N
<1>5. Cardinality({u}) * Cardinality(1 .. n) = n
  BY <1>1, <1>2, <1>3
<1> QED  BY <1>4, <1>5 DEF n

LEMMA FilledIsFinite ==
    ASSUME NEW s, IsStore(s), NEW V \in SUBSET Entries(s)
    PROVE  IsFiniteSet(Filled(s, V)) /\ TotalSize(s, V) \in Nat
<1> DEFINE f == [u \in V |-> {u} \X (1 .. EntrySize(s, u))]
           S == {f[u] : u \in V}
<1>1. IsFiniteSet(V)
  BY StoreAssumption, FS_Subset DEF Entries
<1>2. f \in Surjection(V, S)
  BY DEF Surjection
<1>3. \A T \in S : IsFiniteSet(T)
  BY FilledByOne
<1>4. Filled(s, V) = UNION S
  BY DEF Filled
<1> HIDE DEF f, S
<1>5. IsFiniteSet(S)
  BY <1>1, <1>2, FS_Surjection
<1>6. IsFiniteSet(UNION S)
  BY <1>3, <1>5, FS_UNION
<1> QED  BY <1>4, <1>6, FS_CardinalityType DEF TotalSize

\* A total is that of a part and that of the rest.
LEMMA TotalSplits ==
    ASSUME NEW s, IsStore(s), NEW V \in SUBSET Entries(s), NEW W \in SUBSET V
    PROVE  TotalSize(s, V) = TotalSize(s, V \ W) + TotalSize(s, W)
<1>1. /\ IsFiniteSet(Filled(s, V \ W)) /\ IsFiniteSet(Filled(s, W))
      /\ TotalSize(s, V \ W) \in Nat /\ TotalSize(s, W) \in Nat
  BY FilledIsFinite
<1>2. Filled(s, V) = Filled(s, V \ W) \cup Filled(s, W)
  BY DEF Filled
<1>3. Filled(s, V \ W) \cap Filled(s, W) = {}
  BY DEF Filled
<1>4. Cardinality(Filled(s, V)) = Cardinality(Filled(s, V \ W)) + Cardinality(Filled(s, W))
                                  - Cardinality(Filled(s, V \ W) \cap Filled(s, W))
  BY <1>1, <1>2, FS_Union
<1>5. Cardinality(Filled(s, V \ W) \cap Filled(s, W)) = 0
  BY <1>3, FS_EmptySet
<1> QED  BY <1>1, <1>4, <1>5 DEF TotalSize

LEMMA TotalOfOne ==
    ASSUME NEW s, IsStore(s), NEW u \in Entries(s)
    PROVE  TotalSize(s, {u}) = EntrySize(s, u)
<1>1. Filled(s, {u}) = {u} \X (1 .. EntrySize(s, u))
  BY DEF Filled
<1> QED  BY <1>1, FilledByOne DEF TotalSize

LEMMA TotalSame ==
    ASSUME NEW s, NEW r, NEW V, \A u \in V : EntrySize(s, u) = EntrySize(r, u)
    PROVE  TotalSize(s, V) = TotalSize(r, V)
<1>1. Filled(s, V) = Filled(r, V)
  BY DEF Filled
<1> QED  BY <1>1 DEF TotalSize

\* The elements of the table have the sizes they had.
AllocSame(s, r) ==
    /\ r.total_alloc = s.total_alloc
    /\ \A u \in Urls : /\ r.entries[u] # NONE <=> s.entries[u] # NONE
                       /\ s.entries[u] # NONE => \A e \in Elems :
                            r.entries[u].elem[e].size = s.entries[u].elem[e].size

LEMMA SameKeeps ==
    ASSUME NEW s, NEW r, AllocSame(s, r), Alloc(s)
    PROVE  Alloc(r)
<1>1. Entries(r) = Entries(s)
  BY DEF AllocSame, Entries
<1>2. \A u \in Entries(s) : EntrySize(s, u) = EntrySize(r, u)
  BY DEF AllocSame, Entries, EntrySize, Elems
<1>3. TotalSize(s, Entries(s)) = TotalSize(r, Entries(s))
  BY <1>2, TotalSame
<1> QED  BY <1>1, <1>3 DEF Alloc, AllocSame

\* Entries that go take their sizes along.
LEMMA InvalidateAlloc ==
    ASSUME NEW s, IsStore(s), NEW V \in SUBSET Entries(s), Alloc(s)
    PROVE  Alloc(InvalidateEntries(s, V))
<1> DEFINE gone == {u \in V : ~InUse(s, u)}
           r == InvalidateEntries(s, V)
           rest == Entries(s) \ gone
           total == s.total_alloc - TotalSize(s, gone)
<1>1. r.total_alloc = total
  BY DEF InvalidateEntries, IsStore
<1>2. Fewer(s, r)
  BY InvalidateFewer
<1>3. \A u \in Urls : r.entries[u] = CASE u \in gone -> NONE
                                       [] u \in V \ gone -> [s.entries[u] EXCEPT !.invalid = TRUE]
                                       [] OTHER -> s.entries[u]
  BY DEF InvalidateEntries, IsStore
<1>4. \A u \in V : s.entries[u] \in Entry(Stored) /\ u \in Urls
  BY StoreFields DEF Entries
<1> HIDE DEF gone, r
<1>5. gone \subseteq V
  BY DEF gone
<1>6. \A u \in Urls : u \in gone => r.entries[u] = NONE
  BY <1>3
<1>7. \A u \in Urls : u \in rest => r.entries[u] # NONE
  <2> SUFFICES ASSUME NEW u \in rest, u \in Urls
               PROVE  r.entries[u] # NONE
    OBVIOUS
  <2>1. CASE u \in V
    <3>1. [s.entries[u] EXCEPT !.invalid = TRUE] \in Entry(Stored)
      BY <1>4, <2>1 DEF Entry
    <3> QED  BY <1>3, <2>1, <3>1, NoneAssumption
  <2>2. CASE u \notin V
    BY <1>3, <1>5, <2>2 DEF Entries
  <2> QED  BY <2>1, <2>2
<1>8. Entries(r) = rest
  BY <1>2, <1>6, <1>7 DEF Entries, Fewer
<1>9. \A u \in rest : EntrySize(s, u) = EntrySize(r, u)
  BY <1>2, <1>8 DEF EntrySize, Fewer, Entries
<1>10. TotalSize(s, rest) = TotalSize(r, rest)
  BY <1>9, TotalSame
<1>11. TotalSize(s, Entries(s)) = TotalSize(s, rest) + TotalSize(s, gone)
  BY <1>5, TotalSplits
<1>12. TotalSize(s, rest) \in Nat /\ TotalSize(s, gone) \in Nat
  BY <1>5, FilledIsFinite
<1> QED  BY <1>1, <1>8, <1>10, <1>11, <1>12 DEF Alloc, r

LEMMA EvictedAlloc ==
    ASSUME NEW s, IsStore(s), NEW v \in Evicted(s), Alloc(s)
    PROVE  Alloc(v)
<1>1. CASE v = s
  BY <1>1
<1>2. CASE v # s
  <2>1. PICK V \in Victims(s) : v = InvalidateEntries(s, V)
    BY <1>2 DEF Evicted
  <2>2. V \in SUBSET Entries(s)
    BY DEF Victims
  <2> QED  BY <2>1, <2>2, InvalidateAlloc
<1> QED  BY <1>1, <1>2

\* An element that is stored counts with its new size instead of its old one.
LEMMA SetAlloc ==
    ASSUME NEW s, IsStore(s), Alloc(s), NEW u \in Urls, NEW e \in Elems, NEW data \in Stored,
           data.size \in Nat
    PROVE  Alloc(SetElement(s, u, e, data))
<1> DEFINE r == SetElement(s, u, e, data)
           old == EntryOf(s, u).elem[e].size
           others == Entries(s) \ {u}
<1>1. r.total_alloc = s.total_alloc - old + data.size
  BY DEF SetElement, EntryOf, IsStore
<1>2. PICK b \in Blocks : Set(s, r, u, e, data, b)
  BY SetFacts
<1> HIDE DEF r
<1>3. /\ IsStore(r) /\ r.entries[u] # NONE /\ r.entries[u].elem[e].size = data.size
      /\ \A d \in Elems : d # e => r.entries[u].elem[d] = EntryOf(s, u).elem[d]
      /\ \A w \in Urls : w # u => r.entries[w] = s.entries[w]
  BY <1>2 DEF Set
<1>4. Entries(r) = others \cup {u} /\ u \in Entries(r)
  BY <1>3 DEF Entries
<1>5. TotalSize(r, Entries(r)) = TotalSize(r, others) + EntrySize(r, u)
  <2>1. Entries(r) \ {u} = others
    BY <1>4
  <2>2. TotalSize(r, Entries(r)) = TotalSize(r, Entries(r) \ {u}) + TotalSize(r, {u})
    BY <1>3, <1>4, TotalSplits
  <2> QED  BY <1>3, <1>4, <2>1, <2>2, TotalOfOne
<1>6. TotalSize(r, others) = TotalSize(s, others) /\ TotalSize(s, others) \in Nat
  <2>1. \A w \in others : EntrySize(r, w) = EntrySize(s, w)
    BY <1>3 DEF EntrySize, Entries
  <2>2. TotalSize(s, others) \in Nat
    BY FilledIsFinite
  <2> QED  BY <2>1, <2>2, TotalSame
<1>7. \A d \in Elems : EntryOf(s, u).elem[d].size \in Nat
  <2>1. EntryOf(s, u) \in Entry(Stored)
    BY StoreFields, NewFacts DEF EntryOf
  <2> QED  BY <2>1, EntryFields DEF Element
<1> DEFINE was == EntryOf(s, u).elem["data"].size + EntryOf(s, u).elem["meta"].size
<1>8. EntrySize(r, u) = was - old + data.size /\ was \in Nat /\ old \in Nat
  <2>1. CASE e = "data"
    BY <1>3, <1>7, <2>1 DEF EntrySize, Elems
  <2>2. CASE e = "meta"
    BY <1>3, <1>7, <2>2 DEF EntrySize, Elems
  <2> QED  BY <2>1, <2>2 DEF Elems
<1>9. s.total_alloc = TotalSize(s, others) + was
  <2>1. CASE s.entries[u] = NONE
    <3>1. Entries(s) = others
      BY <2>1 DEF Entries
    <3>2. was = 0
      BY <2>1, NewFacts DEF EntryOf, Elems
    <3> HIDE DEF was, others
    <3> QED  BY <1>6, <3>1, <3>2 DEF Alloc
  <2>2. CASE s.entries[u] # NONE
    <3>1. u \in Entries(s) /\ was = EntrySize(s, u)
      BY <2>2 DEF EntryOf, EntrySize, Entries
    <3>2. TotalSize(s, Entries(s)) = TotalSize(s, others) + TotalSize(s, {u})
      BY <3>1, TotalSplits
    <3> QED  BY <3>1, <3>2, TotalOfOne DEF Alloc
  <2> QED  BY <2>1, <2>2
<1>10. r.total_alloc = TotalSize(r, Entries(r))
  <2> HIDE DEF was, old, others
  <2> QED  BY <1>1, <1>5, <1>6, <1>8, <1>9
<1> QED  BY <1>10 DEF Alloc, r

LEMMA GuiStoreAlloc ==
    ASSUME NEW s, IsStore(s), Alloc(s), s.open, NEW u \in Urls, NEW e \in Elems, NEW data \in Stored,
           data.size \in Nat, NEW r \in GuiStore(s, u, e, data)
    PROVE  Alloc(r.s)
<1>1. PICK v \in Evicted(s) :
        r \in IF v.entries[u] # NONE /\ v.entries[u].elem[e].heap
              THEN {Outcome("permission", v)}
              ELSE LET set == SetElement(v, u, e, data) IN
                   {Outcome("ok", WriteElement(set, u, e))}
                     \cup (IF CanFail THEN {Outcome("save_failed", set)} ELSE {})
  BY DEF GuiStore
<1>2. IsStore(v) /\ Alloc(v)
  <2>1. Fewer(s, v)
    BY EvictedFewer
  <2> QED  BY <2>1, EvictedAlloc DEF Fewer
<1> DEFINE m == SetElement(v, u, e, data)
           w == WriteElement(m, u, e)
<1>3. IsStore(m) /\ Alloc(m) /\ m.entries[u] # NONE /\ m.entries[u].elem[e].data = data
  <2>1. PICK b \in Blocks : Set(v, m, u, e, data, b)
    BY <1>2, SetFacts
  <2>2. Alloc(m)
    BY <1>2, SetAlloc
  <2> HIDE DEF m
  <2> QED  BY <2>1, <2>2 DEF Set
<1> HIDE DEF m
<1>4. Alloc(w)
  <2>1. w.total_alloc = m.total_alloc
    BY <1>3 DEF WriteElement, IsStore
  <2>2. w.entries = m.entries
    BY <1>3, WriteFacts DEF Written
  <2>3. AllocSame(m, w)
    BY <2>1, <2>2 DEF AllocSame
  <2> QED  BY <1>3, <2>3, SameKeeps
<1> HIDE DEF w
<1>5. r = Outcome("permission", v) \/ r = Outcome("ok", w) \/ r = Outcome("save_failed", m)
  BY <1>1 DEF m, w
<1> QED  BY <1>2, <1>3, <1>4, <1>5 DEF Outcome

\* An element that is taken to the heap or dropped from it keeps its size.
LEMMA RetakenAlloc ==
    ASSUME NEW s, IsStore(s), Alloc(s), NEW u \in Urls, s.entries[u] # NONE, NEW e \in Elems,
           NEW y \in Element(Stored), y.size = s.entries[u].elem[e].size
    PROVE  LET r == [Touched(s) EXCEPT !.entries[u].elem[e] = y] IN IsStore(r) /\ Alloc(r)
<1> DEFINE r == [Touched(s) EXCEPT !.entries[u].elem[e] = y]
<1>1. Retaken(s, r, u, e, y)
  BY RetakenFacts
<1>2. r.total_alloc = s.total_alloc
  BY DEF Touched, IsStore
<1> HIDE DEF r
<1>3. AllocSame(s, r)
  BY <1>1, <1>2 DEF AllocSame, Retaken
<1> QED  BY <1>1, <1>3, SameKeeps DEF Retaken, r

LEMMA TouchedAlloc ==
    ASSUME NEW s, IsStore(s), Alloc(s), NEW u \in Urls, s.entries[u] # NONE
    PROVE  IsStore(Touched(s)) /\ Alloc(Touched(s)) /\ Touched(s).entries = s.entries
<1>1. "data" \in Elems
  BY DEF Elems
<1>2. IsStore(Touched(s)) /\ Touched(s).entries = s.entries
  BY <1>1, TouchedFacts DEF Retaken
<1>3. Touched(s).total_alloc = s.total_alloc
  BY DEF Touched, IsStore
<1>4. AllocSame(s, Touched(s))
  BY <1>2, <1>3 DEF AllocSame
<1> QED  BY <1>2, <1>4, SameKeeps

LEMMA GuiFetchAlloc ==
    ASSUME NEW s, Basic(s), Alloc(s), s.open, NEW u \in Urls, NEW e \in Elems, NEW r \in GuiFetch(s, u, e)
    PROVE  Alloc(r.s)
<1> DEFINE el == s.entries[u].elem[e]
           got == IF el.heap THEN el.data ELSE ReadElement(s, u, e)
           y == IF el.heap THEN [el EXCEPT !.ref = el.ref + 1]
                ELSE [el EXCEPT !.heap = TRUE, !.ref = 1, !.data = got]
           z == [el EXCEPT !.ref = 0]
           kept == [Touched(s) EXCEPT !.entries[u].elem[e] = y]
           failed == [Touched(s) EXCEPT !.entries[u].elem[e] = z]
<1>0. IsStore(s)
  BY DEF Basic
<1>1. CASE s.entries[u] = NONE
  BY <1>1 DEF GuiFetch, Outcome
<1>2. CASE s.entries[u] # NONE
  <2>1. el \in Element(Stored) /\ got \in Stored \cup {NONE}
    BY <1>0, <1>2, StoreFields, EntryFields, ReadFacts DEF Element
  <2>2. Touched(s).entries = s.entries
    BY <1>0, <1>2, TouchedFacts
  <2>3. r.s \in {kept, failed, Touched(s)}
    <3>1. failed = [Touched(s) EXCEPT !.entries[u].elem[e].ref = 0]
      BY SMTT(30), <2>2
    <3>2. r \in (IF got = NONE THEN {Outcome("not_found", failed)}
                 ELSE {[ret |-> "ok", s |-> kept, data |-> got]})
                \cup (IF CanFail /\ ~el.heap THEN {Outcome("nomem", Touched(s))} ELSE {})
      BY <1>2, <3>1 DEF GuiFetch
    <3> HIDE DEF kept, failed, got, el
    <3> QED  BY <3>2 DEF Outcome
  <2>4. y \in Element(Stored) /\ y.size = el.size
    <3> HIDE DEF el, got
    <3>1. CASE el.heap
      <4>1. y = [el EXCEPT !.ref = el.ref + 1]
        BY <3>1
      <4> HIDE DEF y
      <4> QED  BY <2>1, <4>1 DEF Element
    <3>2. CASE ~el.heap
      <4>1. y = [el EXCEPT !.heap = TRUE, !.ref = 1, !.data = got]
        BY <3>2
      <4> HIDE DEF y
      <4>2. y \in Element(Stored)
        BY <2>1, <4>1 DEF Element
      <4>3. y.size = el.size
        BY <2>1, <4>1 DEF Element
      <4> QED  BY <4>2, <4>3
    <3> QED  BY <3>1, <3>2
  <2>5. z \in Element(Stored) /\ z.size = el.size
    <3> HIDE DEF el
    <3> QED  BY <2>1 DEF Element
  <2>6. Alloc(kept)
    <3> HIDE DEF y
    <3> QED  BY <1>0, <1>2, <2>4, RetakenAlloc
  <2>7. Alloc(failed)
    <3> HIDE DEF z
    <3> QED  BY <1>0, <1>2, <2>5, RetakenAlloc
  <2>8. Alloc(Touched(s))
    BY <1>0, <1>2, TouchedAlloc
  <2> HIDE DEF kept, failed
  <2> QED  BY <2>3, <2>6, <2>7, <2>8
<1> QED  BY <1>1, <1>2

LEMMA GuiReleaseAlloc ==
    ASSUME NEW s, Basic(s), Alloc(s), s.open, NEW u \in Urls, NEW e \in Elems, NEW r \in GuiRelease(s, u, e)
    PROVE  Alloc(r.s)
<1> DEFINE el == s.entries[u].elem[e]
           y == ReleaseAlloc(el)
           q == [Touched(s) EXCEPT !.entries[u].elem[e] = y]
<1>0. IsStore(s)
  BY DEF Basic
<1>1. CASE s.entries[u] = NONE
  BY <1>1 DEF GuiRelease, Outcome
<1>2. CASE s.entries[u] # NONE
  <2>1. el \in Element(Stored) /\ el.ref \in Nat /\ (el.heap => el.ref > 0)
    BY <1>0, <1>2, StoreFields, EntryFields DEF Basic, HeapOK, Element
  <2>2. y \in Element(Stored) /\ y.size = el.size
    <3> HIDE DEF el
    <3>1. CASE ~el.heap
      BY <2>1, <3>1 DEF ReleaseAlloc
    <3>2. CASE el.heap /\ el.ref = 1
      <4>1. y = [el EXCEPT !.ref = 0, !.heap = FALSE, !.data = NONE]
        BY <3>2 DEF ReleaseAlloc
      <4> HIDE DEF y
      <4>2. y \in Element(Stored)
        BY <2>1, <4>1 DEF Element
      <4>3. y.size = el.size
        BY <2>1, <4>1 DEF Element
      <4> QED  BY <4>2, <4>3
    <3>3. CASE el.heap /\ el.ref # 1
      <4>1. y = [el EXCEPT !.ref = el.ref - 1] /\ el.ref - 1 \in Nat
        BY <2>1, <3>3 DEF ReleaseAlloc
      <4> HIDE DEF y
      <4> QED  BY <2>1, <4>1 DEF Element
    <3> QED  BY <3>1, <3>2, <3>3
  <2>3. Touched(s).entries = s.entries
    BY <1>0, <1>2, TouchedFacts
  <2>4. r = Outcome("ok", IF q.entries[u].invalid THEN InvalidateEntries(q, {u}) ELSE q)
    BY <1>2, <2>3 DEF GuiRelease
  <2> HIDE DEF y
  <2>5. IsStore(q) /\ Alloc(q)
    BY <1>0, <1>2, <2>2, RetakenAlloc
  <2>6. u \in Entries(q)
    <3>1. Retaken(s, q, u, e, y)
      BY <1>0, <1>2, <2>2, RetakenFacts
    <3> HIDE DEF q
    <3> QED  BY <3>1 DEF Retaken, Entries
  <2> HIDE DEF q
  <2>7. Alloc(InvalidateEntries(q, {u}))
    BY <2>5, <2>6, InvalidateAlloc
  <2> QED  BY <2>4, <2>5, <2>7 DEF Outcome
<1> QED  BY <1>1, <1>2

LEMMA GuiInvalidateAlloc ==
    ASSUME NEW s, IsStore(s), Alloc(s), s.open, NEW u \in Urls, NEW r \in GuiInvalidate(s, u)
    PROVE  Alloc(r.s)
<1>1. CASE s.entries[u] = NONE
  BY <1>1 DEF GuiInvalidate, Outcome
<1>2. CASE s.entries[u] # NONE
  <2>1. r = Outcome("ok", InvalidateEntries(Touched(s), {u}))
    BY <1>2 DEF GuiInvalidate
  <2>2. IsStore(Touched(s)) /\ Alloc(Touched(s)) /\ u \in Entries(Touched(s))
    BY <1>2, TouchedAlloc DEF Entries
  <2> QED  BY <2>1, <2>2, InvalidateAlloc DEF Outcome
<1> QED  BY <1>1, <1>2

LEMMA MaintainedAlloc ==
    ASSUME NEW s, IsStore(s), Alloc(s)
    PROVE  Alloc(Maintained(s))
<1>1. WriteEntries(s).total_alloc = s.total_alloc /\ WriteEntries(s).entries = s.entries
      /\ IsStore(WriteEntries(s))
  BY WriteEntriesFacts DEF WriteEntries, IsStore, Resaved
<1> DEFINE q == WriteEntries(s)
<1> HIDE DEF q
<1>2. WriteBlocks(q).total_alloc = q.total_alloc /\ WriteBlocks(q).entries = q.entries
      /\ IsStore(WriteBlocks(q))
  BY <1>1, WriteBlocksFacts DEF WriteBlocks, IsStore, Resaved, q
<1> DEFINE p == WriteBlocks(q)
<1> HIDE DEF p
<1>3. Maintained(s) = [p EXCEPT !.maint = FALSE]
  BY DEF Maintained, p, q
<1>4. Maintained(s).total_alloc = s.total_alloc /\ Maintained(s).entries = s.entries
  BY <1>1, <1>2, <1>3 DEF IsStore, p, q
<1>5. AllocSame(s, Maintained(s))
  BY <1>4 DEF AllocSame
<1> QED  BY <1>5, SameKeeps

\* A process that is gone has nothing allocated.
LEMMA NothingAlloc ==
    ASSUME NEW s, s.entries = NoEntries, s.total_alloc = 0
    PROVE  Alloc(s)
<1>1. Entries(s) = {}
  BY DEF Entries, NoEntries
<1>2. Filled(s, {}) = {}
  BY DEF Filled
<1> QED  BY <1>1, <1>2, FS_EmptySet DEF Alloc, TotalSize

LEMMA StepAlloc ==
    ASSUME Base, Alloc(store), [Next]_vars
    PROVE  Alloc(store')
<1>0. Basic(store) /\ IsStore(store)
  BY DEF Base, Basic
<1>1. ASSUME NEW u \in Urls, NEW e \in Elems, Store(u, e)
      PROVE  Alloc(store')
  <2>1. PICK n \in Sizes[u][e] :
          /\ store.open
          /\ \E r \in GuiStore(store, u, e, [url |-> u, ver |-> NextVersion(u, e), size |-> n]) :
               store' = r.s
    BY <1>1 DEF Store
  <2> DEFINE data == [url |-> u, ver |-> NextVersion(u, e), size |-> n]
  <2>2. PICK r \in GuiStore(store, u, e, data) : store' = r.s
    BY <2>1
  <2>3. NextVersion(u, e) \in Versions
    <3>1. latest[u][e] # NONE => latest[u][e].ver \in {1, 2}
      BY DEF Base, LatestOK, Versions
    <3> QED  BY <3>1 DEF NextVersion, Versions
  <2>4. n \in Nat /\ n \in UNION {Sizes[w][d] : w \in Urls, d \in Elems}
    BY ClientAssumption
  <2>5. data \in Stored /\ data.size \in Nat
    BY <2>3, <2>4, ClientAssumption DEF Kinds, Data
  <2> HIDE DEF data
  <2> QED  BY <1>0, <2>1, <2>2, <2>5, GuiStoreAlloc
<1>2. ASSUME NEW u \in Urls, NEW e \in Elems, Fetch(u, e)
      PROVE  Alloc(store')
  BY <1>0, <1>2, GuiFetchAlloc DEF Fetch
<1>3. ASSUME NEW u \in Urls, NEW e \in Elems, Release(u, e)
      PROVE  Alloc(store')
  BY <1>0, <1>3, GuiReleaseAlloc DEF Release
<1>4. ASSUME NEW u \in Urls, Invalidate(u)
      PROVE  Alloc(store')
  BY <1>0, <1>4, GuiInvalidateAlloc DEF Invalidate
<1>5. CASE Maintain
  BY <1>0, <1>5, MaintainedAlloc DEF Maintain
<1>6. ASSUME NEW s, IsStore(s), store' = Closed(s)
      PROVE  Alloc(store')
  <2>1. store'.entries = NoEntries /\ store'.total_alloc = 0
    BY <1>6 DEF Closed, IsStore
  <2> QED  BY <2>1, NothingAlloc
<1>7. CASE Finalise
  <2>1. IsStore(WriteEntries(store))
    BY <1>0, WriteEntriesFacts DEF Resaved
  <2>2. IsStore(WriteBlocks(WriteEntries(store)))
    BY <2>1, WriteBlocksFacts DEF Resaved
  <2> QED  BY <1>6, <1>7, <2>2 DEF Finalise, Finalised
<1>8. CASE Quit
  <2>1. \E s : IsStore(s) /\ store' = Closed(s)
    <3> DEFINE e1 == [store EXCEPT !.saved.entries = IF store.entries_dirty THEN NONE ELSE @]
               e2 == WriteEntries(store)
               b1 == [e2 EXCEPT !.saved.blocks = IF store.blocks_dirty THEN NONE ELSE @]
               m == Maintained(store)
    <3>1. store' \in {Closed(store), Closed(e1), Closed(e2), Closed(b1), Closed(m)}
      BY <1>8 DEF Quit, Killed
    <3>2. IsStore(e1)
      BY <1>0 DEF IsStore
    <3>3. IsStore(e2)
      BY <1>0, WriteEntriesFacts DEF Resaved
    <3>4. IsStore(b1)
      <4> HIDE DEF e2
      <4> QED  BY <3>3 DEF IsStore
    <3>5. IsStore(m)
      BY <1>0, <1>8, MaintainedKeeps DEF Basic, Quit
    <3> HIDE DEF e1, e2, b1, m
    <3> QED  BY <1>0, <3>1, <3>2, <3>3, <3>4, <3>5
  <2> QED  BY <1>6, <2>1
<1>9. CASE Start
  <2> DEFINE table == IF store.saved.entries = NONE THEN NoEntries ELSE store.saved.entries
             map == IF store.saved.blocks = NONE THEN [e \in Elems |-> {0}] ELSE store.saved.blocks
             q == [store EXCEPT !.open = TRUE, !.entries = table, !.use_map = map]
             total == TotalSize(q, Entries(q))
  <2>1. store' = [q EXCEPT !.total_alloc = total]
    BY <1>9 DEF Start, Initialised
  <2> HIDE DEF table, map, total
  <2>2. store'.total_alloc = total /\ store'.entries = table /\ q.entries = table
    BY <1>0, <2>1 DEF IsStore
  <2> HIDE DEF q
  <2>3. Entries(store') = Entries(q) /\ \A u \in Entries(q) : EntrySize(q, u) = EntrySize(store', u)
    BY <2>2 DEF Entries, EntrySize
  <2>4. TotalSize(q, Entries(q)) = TotalSize(store', Entries(q))
    BY <2>3, TotalSame
  <2> QED  BY <2>2, <2>3, <2>4 DEF Alloc, total
<1>10. CASE UNCHANGED vars
  BY <1>10 DEF vars
<1> QED  BY <1>1, <1>2, <1>3, <1>4, <1>5, <1>7, <1>8, <1>9, <1>10 DEF Next

(***************************************************************************)
(* total_alloc, which store_evict() compares with the limit, is the sum of  *)
(* the sizes in the table, for any number of URLs and any sizes, however    *)
(* entries grow, shrink, are invalidated while in use or read back from the *)
(* index, whatever fails and whenever the process ends.                     *)
(***************************************************************************)
THEOREM AllocCounted == Spec => []AllocExact
<1> DEFINE Inv == Base /\ Alloc(store)
<1>1. Init => Inv
  <2>1. Init => Alloc(store)
    BY NothingAlloc DEF Init, FreshStore
  <2> QED  BY <2>1, InitKeeps
<1>2. Inv /\ [Next]_vars => Inv'
  <2>1. Inv /\ [Next]_vars => Base'
    BY StepKeeps DEF Kept
  <2>2. Inv /\ [Next]_vars => Alloc(store')
    BY StepAlloc
  <2> QED  BY <2>1, <2>2
<1>3. Inv => AllocExact
  BY DEF Alloc, AllocExact
<1> HIDE DEF Inv
<1> QED  BY <1>1, <1>2, <1>3, PTL DEF Spec

=============================================================================
