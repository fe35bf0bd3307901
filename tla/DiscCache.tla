----------------------------- MODULE DiscCache ------------------------------
(***************************************************************************)
(* The low-level cache (content/llcache.c) as the client of the backing     *)
(* store: objects whose source data is in memory only, or on the disc too   *)
(* and then owned by the store; writing out, reading back, and the clean    *)
(* that gives memory back.  Users and callbacks are in LLCache; here an     *)
(* object has users or not, and only the cached list is kept.               *)
(*                                                                         *)
(* A response is identified by its URL and the time of the request; times   *)
(* only order the requests of a URL.  MustValidate holds the times of       *)
(* responses that forbid use without validation (no_cache).                 *)
(***************************************************************************)
EXTENDS BackingStore, SequencesExt

CONSTANTS
    MaxObjects,    \* memory, in objects
    MaxTime,       \* bound of the request times
    MustValidate,  \* which responses are VALIDATE_ALWAYS
    Sizes,         \* sizes of source data, in blocks
    ram_limit      \* llcache->limit, an object without data counting 1

Objects == 1 .. MaxObjects

\* What is stored of a response: its source data, and its headers with the time
\* of the request and the length of the data.
Source(u, v, n) == [url |-> u, ver |-> v, size |-> n]
Metadata(u, v, n, t) == [url |-> u, ver |-> v, size |-> 1, len |-> n, req_time |-> t]

Sources == {Source(u, v, n) : u \in Urls, v \in 0 .. MaxTime, n \in Sizes}
Headers == {Metadata(u, v, n, t) : u \in Urls, v \in 0 .. MaxTime, n \in Sizes, t \in 0 .. MaxTime}
Kinds == Sources \cup Headers \cup {Garbage}

ASSUME CacheAssumption ==
    /\ MaxObjects \in Nat /\ MaxTime \in Nat /\ ram_limit \in Nat
    /\ MustValidate \subseteq 1 .. MaxTime /\ Sizes \subseteq Nat /\ NONE \notin Objects
    /\ Kinds \subseteq Stored

VARIABLES
    store,         \* the backing store
    object,        \* struct llcache_object
    list,          \* llcache->cached_objects
    time,          \* last request time of a URL
    running        \* whether the process runs

vars == <<store, object, list, time, running>>

NoObject == [url |-> NONE, users |-> FALSE, candidate |-> NONE, candidate_count |-> 0,
             fetching |-> FALSE, disc |-> FALSE, source |-> NONE, source_len |-> 0,
             req_time |-> 0, ver |-> 0, no_cache |-> FALSE, expired |-> FALSE]

Init ==
    /\ store = FreshStore
    /\ object = [o \in Objects |-> NoObject]
    /\ list = <<>>
    /\ time = [u \in Urls |-> 0]
    /\ running = TRUE

\* What the operations of a handler work on: the store, the objects and the list.
Cache == [store |-> store, object |-> object, list |-> list]
Becomes(c) == store' = c.store /\ object' = c.object /\ list' = c.list

Free(c) == {o \in Objects : c.object[o].url = NONE}
Fresh(x) == ~x.no_cache /\ (~x.expired \/ x.fetching)

\* Mutant: the clean ignores that an object is being validated.
Unused_Candidate(x) == ~x.users /\ ~x.fetching
Unused(x) == ~x.users /\ x.candidate_count = 0 /\ ~x.fetching

\* The object of a URL with the latest request, if there is one.
Newest(c, u) ==
    LET same == {o \in ToSet(c.list) : c.object[o].url = u}
    IN IF same = {} THEN NONE
       ELSE CHOOSE o \in same : \A p \in same : c.object[p].req_time <= c.object[o].req_time

\* A store operation that has one outcome, used for what it leaves behind.
After(outcomes) == (CHOOSE r \in outcomes : TRUE).s

\* Mutant: what the store owns is not given back.
Destroy_Keeps(c, o) ==
    [c EXCEPT !.object[o] = NoObject, !.list = RemoveFirst(@, o)]

(***************************************************************************)
(* llcache_object_destroy(), after llcache_object_remove_from_list().       *)
(***************************************************************************)
Destroy(c, o) ==
    LET x == c.object[o]
    IN [store |-> IF x.source # NONE /\ x.disc
                  THEN After(GuiRelease(c.store, x.url, "data")) ELSE c.store,
        object |-> [c.object EXCEPT ![o] = NoObject],
        list |-> RemoveFirst(c.list, o)]

(***************************************************************************)
(* llcache_retrieve_persisted_data(): the outcomes, with the cache when the *)
(* source data is in memory and NONE for a failure.                         *)
(***************************************************************************)
RetrievePersisted(c, o) ==
    LET x == c.object[o]
    IN IF x.source # NONE \/ ~x.disc THEN {[ok |-> TRUE, c |-> c]}
       ELSE {[ok |-> r.ret = "ok",
              c |-> [c EXCEPT !.store = r.s,
                              !.object[o] = IF r.ret = "ok"
                                            THEN [@ EXCEPT !.source = r.data, !.source_len = r.data.size]
                                            ELSE @]]
             : r \in GuiFetch(c.store, x.url, "data")}

\* llcache_object_fetch() of a new object, put at the head of the list.
StartFetch(c, u, cand) ==
    LET o == Min(Free(c))
    IN [c EXCEPT !.object = [@ EXCEPT ![o] =
                    [NoObject EXCEPT !.url = u, !.users = TRUE, !.fetching = TRUE,
                                     !.req_time = time[u] + 1, !.candidate = cand,
                                     !.no_cache = cand # NONE /\ c.object[cand].no_cache]],
                 !.list = <<o>> \o @]

(***************************************************************************)
(* llcache_object_fetch_persistent() and llcache_process_metadata(): an     *)
(* object made of what the store says, its age decided by the clock; none   *)
(* when there is no metadata or it is of another URL.                       *)
(***************************************************************************)
FromStore(c, u) ==
    UNION {
      LET released == IF r.ret = "ok" THEN After(GuiRelease(r.s, u, "meta")) ELSE r.s
          o == Min(Free(c))
      IN IF r.ret # "ok" \/ r.data.url # u
         THEN {[c EXCEPT !.store = released]}
         ELSE {[store |-> released,
                object |-> [c.object EXCEPT ![o] =
                    [NoObject EXCEPT !.url = u, !.disc = TRUE, !.req_time = r.data.req_time,
                                     !.ver = r.data.ver, !.source_len = r.data.len, !.expired = old,
                                     !.no_cache = r.data.ver \in MustValidate]],
                list |-> <<o>> \o c.list] : old \in BOOLEAN}
      : r \in GuiFetch(c.store, u, "meta")}

(***************************************************************************)
(* llcache_object_retrieve_from_cache(): a fresh object is used, another    *)
(* becomes the candidate of a new one; an object whose data cannot be read  *)
(* back is destroyed and fetched again.                                     *)
(***************************************************************************)
Retrieved(c, u) ==
    LET found == IF Newest(c, u) # NONE THEN {c} ELSE FromStore(c, u)
    IN UNION {
         LET n == Newest(d, u) IN
         IF n = NONE THEN {StartFetch(d, u, NONE)}
         ELSE {IF ~r.ok THEN StartFetch(Destroy(r.c, n), u, NONE)
               ELSE IF Fresh(d.object[n]) THEN [r.c EXCEPT !.object[n].users = TRUE]
               ELSE StartFetch([r.c EXCEPT !.object[n].candidate_count = @ + 1], u, n)
               : r \in RetrievePersisted(d, n)}
         : d \in found}

Retrieve(u) ==
    /\ running /\ Cardinality(Free(Cache)) > 1 /\ time[u] < MaxTime
    /\ \E c \in Retrieved(Cache, u) :
         /\ Becomes(c)
         /\ time' = IF \E o \in Objects : c.object[o].url = u /\ c.object[o].req_time > time[u]
                    THEN [time EXCEPT ![u] = @ + 1] ELSE time
    /\ UNCHANGED running

(***************************************************************************)
(* A response arrives in full: the candidate is not needed any more         *)
(* (llcache_fetch_process_data(), FETCH_FINISHED).                          *)
(***************************************************************************)
Complete(o) ==
    /\ object[o].fetching
    /\ \E n \in Sizes :
         LET x == object[o]
             done == [x EXCEPT !.fetching = FALSE, !.candidate = NONE, !.ver = x.req_time,
                               !.no_cache = x.req_time \in MustValidate,
                               !.source_len = n,
                               !.source = Source(x.url, x.req_time, n)]
         IN object' = [p \in Objects |->
                         IF p = o THEN done
                         ELSE IF p = x.candidate THEN [object[p] EXCEPT !.candidate_count = @ - 1]
                         ELSE object[p]]
    /\ UNCHANGED <<store, list, time, running>>

\* llcache_fetch_notmodified() with a candidate.
NotModified(o) ==
    /\ object[o].fetching /\ object[o].candidate # NONE
    /\ LET x == object[o]
           old == object[x.candidate]
       IN object' = [object EXCEPT
            ![x.candidate] = [old EXCEPT !.users = old.users \/ x.users,
                                         !.candidate_count = old.candidate_count - 1,
                                         !.expired = FALSE, !.req_time = x.req_time],
            ![o] = [x EXCEPT !.users = FALSE, !.candidate = NONE, !.fetching = FALSE,
                             !.req_time = 0, !.no_cache = FALSE, !.expired = TRUE]]
    /\ UNCHANGED <<store, list, time, running>>

\* The last user goes (llcache_handle_release()).
Leave(o) ==
    /\ object[o].users
    /\ object' = [object EXCEPT ![o].users = FALSE]
    /\ UNCHANGED <<store, list, time, running>>

\* No lifetime remains (llcache_object_rfc2616_remaining_lifetime()).
Expire(o) ==
    /\ object[o].url # NONE /\ ~object[o].expired /\ ~object[o].fetching
    /\ object' = [object EXCEPT ![o].expired = TRUE]
    /\ UNCHANGED <<store, list, time, running>>

(***************************************************************************)
(* write_backing_store(): data and metadata are stored and the metadata is  *)
(* released; with both stored the store owns the source data.               *)
(***************************************************************************)
WriteOut(c, o) ==
    LET x == c.object[o]
        meta == Metadata(x.url, x.ver, x.source_len, x.req_time)
    IN UNION {
         IF d.ret # "ok" THEN {[c EXCEPT !.store = d.s]}
         ELSE {LET left == After(GuiRelease(m.s, x.url, "meta"))
               IN IF m.ret = "ok" THEN [c EXCEPT !.store = left, !.object[o].disc = TRUE]
                  ELSE [c EXCEPT !.store = After(GuiInvalidate(left, x.url))]
               : m \in GuiStore(d.s, x.url, "meta", meta)}
         : d \in GuiStore(c.store, x.url, "data", x.source)}

\* build_candidate_list()
Persistable(x) ==
    x.candidate_count = 0 /\ ~x.fetching /\ ~x.disc /\ ~x.expired /\ x.source # NONE

(***************************************************************************)
(* llcache_persist(): the list of candidates is built, then written as far  *)
(* as the time quantum and the bandwidth allow, but one at least.  What is  *)
(* a candidate when the list is built still is one when its turn comes.     *)
(***************************************************************************)
WrittenOut(c) ==
    LET after[n \in 0 .. Len(c.list)] ==
            IF n = 0 THEN {c}
            ELSE UNION {IF Persistable(d.object[c.list[n]]) THEN WriteOut(d, c.list[n]) ELSE {d}
                        : d \in after[n - 1]}
    IN after

Persisted(c) ==
    LET some(n) == \E i \in 1 .. n : Persistable(c.object[c.list[i]])
        ends == {n \in 0 .. Len(c.list) : some(Len(c.list)) => some(n)}
    IN UNION {WrittenOut(c)[n] : n \in ends}

Persist ==
    /\ \E o \in ToSet(list) : Persistable(object[o])
    /\ \E c \in Persisted(Cache) : Becomes(c)
    /\ UNCHANGED <<time, running>>

(***************************************************************************)
(* llcache_clean().  Each stage walks the list; the last three stop when    *)
(* the size is within the limit.  The size is unsigned: below zero it is    *)
(* beyond every limit.                                                      *)
(***************************************************************************)
ObjectSize(x) == IF x.source = NONE THEN 1 ELSE 1 + x.source_len
Over(size, lim) == size > lim \/ size < 0

Stale(x) == Unused(x) /\ x.expired

\* A stage's turn at the object o; d is the cache and the size so far.
DropStale(d, o) ==
    LET x == d.c.object[o]
        left == IF x.disc THEN [d.c EXCEPT !.store = After(GuiInvalidate(@, x.url))] ELSE d.c
    IN IF Stale(x) THEN [d EXCEPT !.c = Destroy(left, o)] ELSE d

\* The third stage releases the data of objects on the disc.
ReleaseBacked(d, lim, o) ==
    LET x == d.c.object[o]
    IN IF ~Over(d.size, lim) \/ ~Unused(x) \/ ~x.disc THEN d
       ELSE [c |-> [d.c EXCEPT !.store = After(GuiRelease(@, x.url, "data")), !.object[o].source = NONE],
             size |-> d.size - x.source_len]

\* The last two drop objects, those on the disc whose data is not in memory and
\* then those not on the disc.
Dropped(d, lim, disc, o) ==
    LET x == d.c.object[o]
        size == IF disc THEN ObjectSize(x) ELSE x.source_len + 1
    IN IF ~Over(d.size, lim) \/ ~Unused(x) \/ x.disc # disc \/ (disc /\ x.source # NONE) THEN d
       ELSE [c |-> Destroy(d.c, o), size |-> d.size - size]

Turn(stage, lim, d, o) ==
    CASE stage = "stale" -> DropStale(d, o)
      [] stage = "backed" -> ReleaseBacked(d, lim, o)
      [] stage = "disc" -> Dropped(d, lim, TRUE, o)
      [] stage = "memory" -> Dropped(d, lim, FALSE, o)

Turns(stage, lim, d) ==
    LET after[n \in 0 .. Len(d.c.list)] ==
            IF n = 0 THEN d ELSE Turn(stage, lim, after[n - 1], d.c.list[n])
    IN after

Stage(stage, lim, d) == Turns(stage, lim, d)[Len(d.c.list)]

Cleaned(c, lim) ==
    LET kept == Stage("stale", lim, [c |-> c, size |-> 0]).c
        size == FoldLeft(LAMBDA n, o : n + ObjectSize(kept.object[o]), 0, kept.list)
    IN {Stage("memory", lim, Stage("disc", lim, Stage("backed", lim, [c |-> p, size |-> size]))).c
        : p \in IF Over(size, lim) THEN Persisted(kept) ELSE {kept}}

llcache_clean(purge) ==
    /\ list # <<>>
    /\ \E c \in Cleaned(Cache, IF purge THEN 0 ELSE ram_limit) : Becomes(c)
    /\ UNCHANGED <<time, running>>

\* The store's own callback.
Maintain ==
    /\ store.maint
    /\ store' = Maintained(store)
    /\ UNCHANGED <<object, list, time, running>>

\* llcache_persist_slowcheck(): the disc is too slow to be of use.
SlowCheck ==
    /\ store.open
    /\ store' = Finalised(store)
    /\ UNCHANGED <<object, list, time, running>>

\* The process ends while no maintenance is pending, and another starts.
Quit ==
    /\ running /\ ~store.maint
    /\ store' = Closed(store)
    /\ object' = [o \in Objects |-> NoObject] /\ list' = <<>>
    /\ running' = FALSE
    /\ UNCHANGED time

Start ==
    /\ ~running
    /\ store' = Initialised(store) /\ running' = TRUE
    /\ UNCHANGED <<object, list, time>>

Next ==
    \/ \E u \in Urls : Retrieve(u)
    \/ \E o \in Objects : Complete(o) \/ NotModified(o) \/ Leave(o) \/ Expire(o)
    \/ \E purge \in BOOLEAN : llcache_clean(purge)
    \/ Persist \/ Maintain \/ SlowCheck \/ Quit \/ Start

Spec == Init /\ [][Next]_vars

-----------------------------------------------------------------------------
(***************************************************************************)
(* The store's count of references to the data of a URL is the number of    *)
(* objects whose source data it owns, and none is left on metadata: nothing *)
(* is freed under an object, nothing stays in memory for ever.              *)
(***************************************************************************)
SourceRefsExact ==
    store.open => \A u \in Urls :
       LET owners == {o \in Objects : /\ object[o].url = u /\ object[o].disc
                                      /\ object[o].source # NONE}
           refs(e) == IF store.entries[u] = NONE THEN 0 ELSE store.entries[u].elem[e].ref
       IN refs("data") = Cardinality(owners) /\ refs("meta") = 0

(***************************************************************************)
(* An object on the disc that has users has its source data in memory, and  *)
(* so has the object that another validates, which is of the same URL: the  *)
(* object destroyed because its data cannot be read back is used by nobody, *)
(* and a clean never takes what a 304 response would fall back to.          *)
(***************************************************************************)
UsedIsLoaded ==
    \A o \in Objects :
       /\ object[o].disc /\ object[o].users => object[o].source # NONE
       /\ object[o].candidate # NONE =>
             LET x == object[object[o].candidate]
             IN x.url = object[o].url /\ x.source # NONE

(***************************************************************************)
(* The source data of an object is that of the response whose headers the   *)
(* object has, also when one came from the disc and the store was           *)
(* overwritten meanwhile.                                                   *)
(***************************************************************************)
SourceMatches ==
    \A o \in Objects :
       object[o].source # NONE =>
          object[o].source.url = object[o].url /\ object[o].source.ver = object[o].ver

=============================================================================
