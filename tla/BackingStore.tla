---------------------------- MODULE BackingStore ----------------------------
(***************************************************************************)
(* The filing system backing store, content/fs_backing_store.c: a table of *)
(* entries, one per URL, each with a data and a metadata element.  An       *)
(* element lies in a block of a block file when it fits into one and a      *)
(* block is free, and in a file of its own otherwise; while the cache above *)
(* uses it, it is also on the heap, with a reference count.                 *)
(*                                                                         *)
(* The module has no variables.  A store is a record s whose fields are     *)
(*   open, entries, use_map, total_alloc, entries_dirty, blocks_dirty       *)
(*            the memory of the process (struct store_state), lost on exit; *)
(*   maint    whether control_maintenance() is scheduled;                   *)
(*   block, file, saved                                                     *)
(*            the disc: contents of the block files, of the single files,   *)
(*            and the two index files "entries" and "blocks".               *)
(* An operation maps a store to the set of its outcomes, records with the   *)
(* new store s, the error code ret and, for a fetch, the data returned.     *)
(*                                                                         *)
(* Sizes are counted in blocks, so that an element fits into a block when   *)
(* its size is at most 1.  The order of eviction among entries that are     *)
(* equally in use (use_count, last_used) is left open.  nsurl_hash() is     *)
(* taken to be injective.                                                   *)
(***************************************************************************)
EXTENDS Integers, FiniteSets, FiniteSetsExt

CONSTANTS
    Urls,        \* the keys
    NBlocks,     \* number of the last block, the first is 0
    limit,       \* size at which entries are evicted
    hysteresis,  \* how much an eviction removes
    CanFail,     \* whether writes, reads of an index and allocations can fail
    Stored,      \* what its clients store, and what is read back when that is broken
    NONE

ASSUME StoreAssumption ==
    /\ NBlocks \in Nat /\ limit \in Nat /\ hysteresis \in Nat
    /\ CanFail \in BOOLEAN /\ IsFiniteSet(Urls)

Elems == {"data", "meta"}
Blocks == 0 .. NBlocks

(***************************************************************************)
(* struct store_entry_element and struct store_entry.  Block 0 stands for   *)
(* "no block".                                                              *)
(***************************************************************************)
NewElement == [size |-> 0, block |-> 0, heap |-> FALSE, ref |-> 0, data |-> NONE]
NewEntry == [invalid |-> FALSE, elem |-> [e \in Elems |-> NewElement]]

NoEntries == [u \in Urls |-> NONE]

Entries(s) == {u \in Urls : s.entries[u] # NONE}
InUse(s, u) == \E e \in Elems : s.entries[u].elem[e].heap
EntrySize(s, u) == s.entries[u].elem["data"].size + s.entries[u].elem["meta"].size

\* The sizes of the entries of V, added up: how many blocks they fill.
Filled(s, V) == UNION {{u} \X (1 .. EntrySize(s, u)) : u \in V}
TotalSize(s, V) == Cardinality(Filled(s, V))

\* The store of a process that has just made a fresh cache directory.
FreshStore ==
    [open |-> TRUE, entries |-> NoEntries, use_map |-> [e \in Elems |-> {0}],
     total_alloc |-> 0, entries_dirty |-> FALSE, blocks_dirty |-> FALSE,
     maint |-> FALSE,
     block |-> [e \in Elems |-> [b \in Blocks |-> NONE]],
     file |-> [e \in Elems |-> [u \in Urls |-> NONE]],
     saved |-> [entries |-> NONE, blocks |-> NONE]]

\* Mutant: an entry in use goes at once.
InvalidateEntries_InUse(s, V) ==
    [s EXCEPT !.entries = [u \in Urls |-> IF u \in V THEN NONE ELSE @[u]],
              !.total_alloc = @ - TotalSize(s, V)]

\* Mutant: an entry in use is only marked, but its blocks are freed.
InvalidateEntries_FreesBlocks(s, V) ==
    LET gone == {u \in V : ~InUse(s, u)}
    IN [s EXCEPT
          !.entries = [u \in Urls |-> CASE u \in gone -> NONE
                                        [] u \in V \ gone -> [@[u] EXCEPT !.invalid = TRUE]
                                        [] OTHER -> @[u]],
          !.use_map = [e \in Elems |-> @[e] \ ({s.entries[u].elem[e].block : u \in V} \ {0})],
          !.total_alloc = @ - TotalSize(s, gone)]

(***************************************************************************)
(* invalidate_entry() for the entries of a set.  An entry with data on the  *)
(* heap is only marked; the others lose their blocks and files and go.      *)
(***************************************************************************)
InvalidateEntries(s, V) ==
    LET gone == {u \in V : ~InUse(s, u)}
        blockOf(u, e) == s.entries[u].elem[e].block
    IN [s EXCEPT
          !.entries = [u \in Urls |-> CASE u \in gone -> NONE
                                        [] u \in V \ gone -> [@[u] EXCEPT !.invalid = TRUE]
                                        [] OTHER -> @[u]],
          !.use_map = [e \in Elems |->
                         @[e] \ ({blockOf(u, e) : u \in gone} \ {0})],
          !.file = [e \in Elems |-> [u \in Urls |->
                      IF u \in gone /\ blockOf(u, e) = 0 THEN NONE ELSE @[e][u]]],
          !.total_alloc = @ - TotalSize(s, gone)]

(***************************************************************************)
(* store_evict().  compar() puts entries with data on the heap last, and    *)
(* among equals those with metadata on the heap; the loop stops once the    *)
(* sizes passed exceed the hysteresis, whether or not an entry could go.    *)
(***************************************************************************)
Rank(s, u) == (IF s.entries[u].elem["data"].heap THEN 2 ELSE 0)
            + (IF s.entries[u].elem["meta"].heap THEN 1 ELSE 0)

Victims(s) ==
    {V \in SUBSET Entries(s) :
        /\ \A u \in V, w \in Entries(s) \ V : Rank(s, u) <= Rank(s, w)
        /\ \/ V = Entries(s) /\ TotalSize(s, V) <= hysteresis
           \/ /\ TotalSize(s, V) > hysteresis
              /\ \E u \in V : /\ \A w \in V : Rank(s, w) <= Rank(s, u)
                              /\ TotalSize(s, V \ {u}) <= hysteresis}

Evicted(s) ==
    IF s.total_alloc < limit THEN {s} ELSE {InvalidateEntries(s, V) : V \in Victims(s)}

\* alloc_block(): the first free block, or 0 when all are in use.
AllocBlock(s, e) ==
    LET free == Blocks \ s.use_map[e] IN IF free = {} THEN 0 ELSE Min(free)

\* Mutants: the size replaced is not subtracted; the block is not marked; no
\* maintenance is scheduled.
SetElement_OldSize(s, u, e, data) ==
    LET ent == IF s.entries[u] = NONE THEN NewEntry ELSE s.entries[u]
    IN [s EXCEPT
          !.entries[u] = [ent EXCEPT !.elem[e] =
              [size |-> data.size, block |-> 0, heap |-> TRUE, ref |-> 1, data |-> data]],
          !.total_alloc = @ + data.size, !.entries_dirty = TRUE, !.maint = TRUE]

SetElement_Unmarked(s, u, e, data) ==
    LET ent == IF s.entries[u] = NONE THEN NewEntry ELSE s.entries[u]
    IN [s EXCEPT
          !.entries[u] = [ent EXCEPT !.elem[e] =
              [size |-> data.size, block |-> AllocBlock(s, e), heap |-> TRUE, ref |-> 1,
               data |-> data]],
          !.total_alloc = @ - ent.elem[e].size + data.size,
          !.entries_dirty = TRUE, !.maint = TRUE]

SetElement_Unscheduled(s, u, e, data) ==
    LET ent == IF s.entries[u] = NONE THEN NewEntry ELSE s.entries[u]
        b == AllocBlock(s, e)
    IN [s EXCEPT
          !.entries[u] = [ent EXCEPT !.elem[e] =
              [size |-> data.size, block |-> b, heap |-> TRUE, ref |-> 1, data |-> data]],
          !.total_alloc = @ - ent.elem[e].size + data.size,
          !.use_map[e] = @ \cup {b}, !.blocks_dirty = TRUE, !.entries_dirty = TRUE]

(***************************************************************************)
(* set_store_entry(), after the eviction.  An element too large for a block *)
(* keeps the block number it had.                                           *)
(***************************************************************************)
SetElement(s, u, e, data) ==
    LET ent == IF s.entries[u] = NONE THEN NewEntry ELSE s.entries[u]
        fits == data.size <= 1
        b == IF fits THEN AllocBlock(s, e) ELSE ent.elem[e].block
        found == fits /\ Blocks \ s.use_map[e] # {}
    IN [s EXCEPT
          !.entries[u] = [ent EXCEPT !.elem[e] =
              [size |-> data.size, block |-> b, heap |-> TRUE, ref |-> 1, data |-> data]],
          !.total_alloc = @ - ent.elem[e].size + data.size,
          !.use_map[e] = IF found THEN @ \cup {b} ELSE @,
          !.blocks_dirty = @ \/ found,
          !.entries_dirty = TRUE,
          !.maint = TRUE]

(***************************************************************************)
(* store_write_block(), store_write_file(): the element from its block on,  *)
(* piece by piece, or the whole of its file.                                *)
(***************************************************************************)
WriteElement(s, u, e) ==
    LET el == s.entries[u].elem[e]
    IN IF el.block # 0
       THEN [s EXCEPT !.block[e] = [b \in Blocks |->
                IF b \in el.block .. el.block + el.size - 1
                THEN [data |-> el.data, piece |-> b - el.block] ELSE @[b]]]
       ELSE [s EXCEPT !.file[e][u] = el.data]

(***************************************************************************)
(* store_read_block(), store_read_file(): NONE is a failure; what is read   *)
(* from blocks that do not hold the pieces of one element in order is       *)
(* garbage.                                                                 *)
(***************************************************************************)
Garbage == [url |-> NONE, ver |-> 0, size |-> 0]

ReadElement(s, u, e) ==
    LET el == s.entries[u].elem[e]
        first == s.block[e][el.block]
        whole == s.file[e][u]
        inOrder == /\ first # NONE
                   /\ \A i \in 0 .. el.size - 1 :
                         el.block + i \in Blocks => s.block[e][el.block + i]
                                                      = [data |-> first.data, piece |-> i]
    IN IF el.block # 0 THEN IF inOrder THEN first.data ELSE Garbage
       ELSE IF whole = NONE \/ whole.size < el.size THEN NONE
       ELSE IF whole.size = el.size THEN whole ELSE Garbage

\* entry_release_alloc()
ReleaseAlloc(el) ==
    IF ~el.heap THEN el
    ELSE IF el.ref = 1 THEN [el EXCEPT !.ref = 0, !.heap = FALSE, !.data = NONE]
    ELSE [el EXCEPT !.ref = @ - 1]

\* get_store_entry() on an entry that is there: it asks for maintenance.
Touched(s) == [s EXCEPT !.entries_dirty = TRUE, !.maint = TRUE]

Outcome(ret, s) == [ret |-> ret, s |-> s, data |-> NONE]

\* gui_llcache_store()
GuiStore(s, u, e, data) ==
    IF ~s.open THEN {Outcome("closed", s)} ELSE
    UNION {
      IF v.entries[u] # NONE /\ v.entries[u].elem[e].heap
      THEN {Outcome("permission", v)}
      ELSE LET set == SetElement(v, u, e, data) IN
           {Outcome("ok", WriteElement(set, u, e))}
             \cup (IF CanFail THEN {Outcome("save_failed", set)} ELSE {})
      : v \in Evicted(s)}

\* gui_llcache_fetch()
GuiFetch(s, u, e) ==
    IF ~s.open THEN {Outcome("closed", s)}
    ELSE IF s.entries[u] = NONE THEN {Outcome("not_found", s)}
    ELSE LET el == s.entries[u].elem[e]
             got == IF el.heap THEN el.data ELSE ReadElement(s, u, e)
             kept == [Touched(s) EXCEPT !.entries[u].elem[e] =
                        IF el.heap THEN [el EXCEPT !.ref = el.ref + 1]
                        ELSE [el EXCEPT !.heap = TRUE, !.ref = 1, !.data = got]]
             failed == [Touched(s) EXCEPT !.entries[u].elem[e].ref = 0]
         IN (IF got = NONE THEN {Outcome("not_found", failed)}
             ELSE {[ret |-> "ok", s |-> kept, data |-> got]})
            \cup (IF CanFail /\ ~el.heap THEN {Outcome("nomem", Touched(s))} ELSE {})

\* gui_llcache_release()
GuiRelease(s, u, e) ==
    IF ~s.open THEN {Outcome("closed", s)}
    ELSE IF s.entries[u] = NONE THEN {Outcome("not_found", s)}
    ELSE LET r == [Touched(s) EXCEPT !.entries[u].elem[e] = ReleaseAlloc(@)]
         IN {Outcome("ok", IF r.entries[u].invalid THEN InvalidateEntries(r, {u}) ELSE r)}

\* gui_llcache_invalidate()
GuiInvalidate(s, u) ==
    IF ~s.open THEN {Outcome("closed", s)}
    ELSE IF s.entries[u] = NONE THEN {Outcome("not_found", s)}
    ELSE {Outcome("ok", InvalidateEntries(Touched(s), {u}))}

(***************************************************************************)
(* control_maintenance(): write_entries() and then write_blocks(), each by  *)
(* removing the old file and renaming a new one.  The dirty flags are never *)
(* cleared.  Where an element is on the heap is written too, but dropped by *)
(* the reader, so that it is left out here.                                 *)
(***************************************************************************)
OffHeap(ent) ==
    [ent EXCEPT !.elem = [e \in Elems |->
        [@[e] EXCEPT !.heap = FALSE, !.ref = 0, !.data = NONE]]]

WriteEntries(s) ==
    IF ~s.entries_dirty THEN s
    ELSE [s EXCEPT !.saved.entries =
            [u \in Urls |-> IF s.entries[u] = NONE THEN NONE ELSE OffHeap(s.entries[u])]]
WriteBlocks(s) ==
    IF s.blocks_dirty THEN [s EXCEPT !.saved.blocks = s.use_map] ELSE s

Maintained(s) == [WriteBlocks(WriteEntries(s)) EXCEPT !.maint = FALSE]

\* The process is gone; what is on the disc stays.
Closed(s) ==
    [s EXCEPT !.open = FALSE, !.entries = NoEntries, !.use_map = [e \in Elems |-> {}],
              !.total_alloc = 0, !.entries_dirty = FALSE, !.blocks_dirty = FALSE,
              !.maint = FALSE]

\* gui_llcache_finalise()
Finalised(s) == Closed(WriteBlocks(WriteEntries(s)))

(***************************************************************************)
(* What a process that is killed leaves behind: the disc as it is or, when  *)
(* it was about to do maintenance, the index files half replaced.           *)
(***************************************************************************)
Killed(s) ==
    {Closed(s)} \cup
    (IF ~s.maint THEN {} ELSE
     LET e1 == [s EXCEPT !.saved.entries = IF s.entries_dirty THEN NONE ELSE @]
         e2 == WriteEntries(s)
         b1 == [e2 EXCEPT !.saved.blocks = IF s.blocks_dirty THEN NONE ELSE @]
     IN {Closed(e1), Closed(e2), Closed(b1), Closed(Maintained(s))})

(***************************************************************************)
(* gui_llcache_initialise() with a control file in order: read_entries()    *)
(* and read_blocks(), which starts with all but block 0 free when there is  *)
(* no index.                                                                *)
(***************************************************************************)
Initialised(s) ==
    LET table == IF s.saved.entries = NONE THEN NoEntries ELSE s.saved.entries
        r == [s EXCEPT !.open = TRUE, !.entries = table,
                       !.use_map = IF s.saved.blocks = NONE
                                   THEN [e \in Elems |-> {0}] ELSE s.saved.blocks]
    IN [r EXCEPT !.total_alloc = TotalSize(r, Entries(r))]

-----------------------------------------------------------------------------
\* Data is identified by the URL and the version it belongs to.
Data(Versions, Sizes) == [url : Urls \cup {NONE}, ver : Versions \cup {0}, size : Sizes \cup {0}]

Element(D) == [size : Nat, block : Blocks, heap : BOOLEAN, ref : Nat, data : D \cup {NONE}]
Entry(D) == [invalid : BOOLEAN, elem : [Elems -> Element(D)]]
Table(D) == [Urls -> Entry(D) \cup {NONE}]
Piece(D) == [data : D, piece : Nat]
UseMap == [Elems -> SUBSET Blocks]

\* NONE is none of the things that it can stand for the absence of.
ASSUME NoneAssumption ==
    /\ NONE \notin Stored /\ NONE \notin Entry(Stored) /\ NONE \notin Table(Stored)
    /\ NONE \notin Piece(Stored) /\ NONE \notin UseMap

ASSUME GarbageAssumption == Garbage \in Stored /\ NONE \notin Urls

IsStore(s) ==
    s \in [open : BOOLEAN, entries : Table(Stored), use_map : UseMap, total_alloc : {s.total_alloc},
           entries_dirty : BOOLEAN, blocks_dirty : BOOLEAN, maint : BOOLEAN,
           block : [Elems -> [Blocks -> Piece(Stored) \cup {NONE}]],
           file : [Elems -> [Urls -> Stored \cup {NONE}]],
           saved : [entries : Table(Stored) \cup {NONE}, blocks : UseMap \cup {NONE}]]
=============================================================================
