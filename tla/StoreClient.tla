---------------------------- MODULE StoreClient -----------------------------
(***************************************************************************)
(* The backing store under a client that keeps to content/backing_store.h:  *)
(* it releases exactly what it stored or fetched.  The process may finalise *)
(* the store and may be started again; it may also be ended without         *)
(* finalising, as the Qt front end does (it does not call netsurf_exit()).  *)
(***************************************************************************)
EXTENDS BackingStore

CONSTANTS
    Sizes,      \* the sizes, in blocks, that the data and metadata of a URL can have
    Quits,      \* when the process may end: "quiet" (no maintenance pending) or "any"
    Grows,      \* whether an element in a block may be replaced by one too large for it
    MaxHeld     \* bound of the references a client takes to an element

\* Two versions tell old data from new: each store of an element is of the other one.
Versions == {1, 2}
Kinds == Data(Versions, UNION {Sizes[u][e] : u \in Urls, e \in Elems})

ASSUME ClientAssumption ==
    /\ Sizes \in [Urls -> [Elems -> SUBSET Nat]] /\ Quits \in {"quiet", "any"} /\ Grows \in BOOLEAN
    /\ MaxHeld \in [Elems -> Nat] /\ Kinds \subseteq Stored

VARIABLES
    store,      \* the backing store
    held,       \* references the client owns
    latest      \* what was last stored, if it was

vars == <<store, held, latest>>

\* Every variable has its type.
StoreTypeOK ==
    /\ IsStore(store)
    /\ held \in [Urls -> [Elems -> Nat]]
    /\ latest \in [Urls -> [Elems -> Stored \cup {NONE}]]

Init ==
    /\ store = FreshStore
    /\ held = [u \in Urls |-> [e \in Elems |-> 0]]
    /\ latest = [u \in Urls |-> [e \in Elems |-> NONE]]

Replaceable(u, e, size) ==
    ~Grows /\ size > 1 /\ store.entries[u] # NONE => store.entries[u].elem[e].block = 0

NextVersion(u, e) == IF latest[u][e] = NONE THEN 1 ELSE 3 - latest[u][e].ver

Store(u, e) ==
    \E n \in Sizes[u][e] :
      LET data == [url |-> u, ver |-> NextVersion(u, e), size |-> n] IN
      /\ store.open /\ Replaceable(u, e, n)
      /\ \E r \in GuiStore(store, u, e, data) :
           /\ store' = r.s
           /\ IF r.ret = "ok"
              THEN /\ held' = [held EXCEPT ![u][e] = 1]
                   /\ latest' = [latest EXCEPT ![u][e] = data]
              ELSE UNCHANGED <<held, latest>>

Fetch(u, e) ==
    /\ store.open /\ held[u][e] < MaxHeld[e]
    /\ \E r \in GuiFetch(store, u, e) :
         /\ store' = r.s
         /\ held' = IF r.ret = "ok" THEN [held EXCEPT ![u][e] = @ + 1] ELSE held
    /\ UNCHANGED latest

Release(u, e) ==
    /\ store.open /\ held[u][e] > 0
    /\ \E r \in GuiRelease(store, u, e) : store' = r.s
    /\ held' = [held EXCEPT ![u][e] = @ - 1]
    /\ UNCHANGED latest

Invalidate(u) ==
    /\ store.open
    /\ \E r \in GuiInvalidate(store, u) : store' = r.s
    /\ UNCHANGED <<held, latest>>

Maintain ==
    /\ store.open /\ store.maint
    /\ store' = Maintained(store)
    /\ UNCHANGED <<held, latest>>

Gone == held' = [u \in Urls |-> [e \in Elems |-> 0]] /\ UNCHANGED latest

Finalise == store.open /\ store' = Finalised(store) /\ Gone

Quit ==
    /\ store.open
    /\ Quits = "any" \/ ~store.maint
    /\ store' \in Killed(store)
    /\ Gone

Start == ~store.open /\ store' = Initialised(store) /\ UNCHANGED <<held, latest>>

Next ==
    \/ \E u \in Urls, e \in Elems : Store(u, e) \/ Fetch(u, e) \/ Release(u, e)
    \/ \E u \in Urls : Invalidate(u)
    \/ Maintain \/ Finalise \/ Quit \/ Start

Spec == Init /\ [][Next]_vars

-----------------------------------------------------------------------------
(***************************************************************************)
(* The count of references to an element on the heap is the number the      *)
(* client owns, and what the client owns is on the heap: no release frees   *)
(* data in use, none is lost, however entries are evicted, invalidated and  *)
(* stored again meanwhile.                                                  *)
(***************************************************************************)
RefsExact ==
    \A u \in Urls, e \in Elems :
       held[u][e] = IF store.entries[u] = NONE THEN 0 ELSE store.entries[u].elem[e].ref

(***************************************************************************)
(* No two elements have the same block, and every block that an element has *)
(* is marked in the use map (alloc_block() would hand it out again).        *)
(***************************************************************************)
BlocksOwned ==
    \A u \in Entries(store), e \in Elems :
       LET b == store.entries[u].elem[e].block IN
       b # 0 => /\ b \in store.use_map[e]
                /\ \A w \in Entries(store) \ {u} : store.entries[w].elem[e].block # b

\* total_alloc, which decides about eviction, is the size of what is in the table.
AllocExact == store.total_alloc = TotalSize(store, Entries(store))

(***************************************************************************)
(* A fetch returns what was last stored under the URL, or fails: what the   *)
(* table describes is on the heap, on the disc, or its file is gone, also   *)
(* after a restart.                                                         *)
(***************************************************************************)
FetchedIsLatest ==
    \A u \in Entries(store), e \in Elems :
       LET el == store.entries[u].elem[e] IN
       el.size > 0 =>
         IF el.heap THEN el.data = latest[u][e]
         ELSE ReadElement(store, u, e) \in {latest[u][e], NONE}

(***************************************************************************)
(* The weaker claim of backing_store.h that "the url is used as the unique  *)
(* primary key for the data": what a fetch reads was stored under the URL.  *)
(***************************************************************************)
KeyedByUrl ==
    \A u \in Entries(store), e \in Elems :
       LET el == store.entries[u].elem[e] IN
       el.size > 0 /\ ~el.heap /\ ReadElement(store, u, e) # NONE
          => ReadElement(store, u, e).url = u

(***************************************************************************)
(* While no maintenance is pending, the index files describe what is on the *)
(* disc: no block that the saved table names has been given to another      *)
(* element, so that ending the process now harms nothing.                   *)
(***************************************************************************)
QuietIsSafe ==
    ~store.maint /\ store.saved.entries # NONE =>
       \A u \in Urls, e \in Elems :
          store.saved.entries[u] # NONE =>
             LET el == store.saved.entries[u].elem[e] IN
             el.block # 0 => /\ store.saved.blocks # NONE
                             /\ el.block \in store.saved.blocks[e]
                             /\ el.size > 0 => store.block[e][el.block].data.url = u

-----------------------------------------------------------------------------
=============================================================================
