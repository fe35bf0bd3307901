--------------------------- MODULE MCStoreClient ----------------------------
EXTENDS StoreClient, TLC

CONSTANTS page, image

\* Two URLs whose data wants the one block there is; the metadata of one is stored.
PageAndImage == (page :> [data |-> {1}, meta |-> {1}]) @@ (image :> [data |-> {1}, meta |-> {}])

\* The data of a URL may be fetched while it is in use, metadata is released at once.
DataTwice == [data |-> 2, meta |-> 1]

\* The view leaves out what is never read before it is written again (blocks that no
\* index names), and of versions keeps only whether they are the latest.
Names(t, e, b) == \E u \in Urls : t[u] # NONE /\ t[u].elem[e].block = b
Sized(t, u, e) == t[u] # NONE /\ t[u].elem[e].size > 0
Saved == IF store.saved.entries = NONE THEN NoEntries ELSE store.saved.entries
Version(d, e) ==
    IF d = NONE \/ d.ver = 0 THEN d
    ELSE <<d.url, d.size, IF d = latest[d.url][e] THEN 1 ELSE 2>>
BlockView(e, b) ==
    LET d == store.block[e][b]
    IN IF d # NONE /\ (Names(store.entries, e, b) \/ Names(Saved, e, b))
       THEN <<Version(d.data, e), d.piece>> ELSE NONE
ElementView(el, e) == <<el.size, el.block, el.ref, Version(el.data, e)>>
EntryView(ent) ==
    IF ent = NONE THEN NONE
    ELSE <<ent.invalid, ElementView(ent.elem["data"], "data"), ElementView(ent.elem["meta"], "meta")>>
View ==
    << store.open, store.maint, store.use_map, store.total_alloc, store.entries_dirty,
       store.blocks_dirty, store.saved,
       [e \in Elems |-> [b \in Blocks |-> BlockView(e, b)]],
       [e \in Elems |-> [u \in Urls |-> Version(store.file[e][u], e)]],
       [u \in Urls |-> EntryView(store.entries[u])],
       held,
       [u \in Urls |-> [e \in Elems |->
          IF latest[u][e] # NONE /\ (Sized(store.entries, u, e) \/ Sized(Saved, u, e))
          THEN latest[u][e].size ELSE NONE]] >>
=============================================================================
