------------------------------ MODULE HLCache ------------------------------
(***************************************************************************)
(* The high-level cache, content/hlcache.c, with the life and the users of  *)
(* a content, content/content.c.                                            *)
(*                                                                         *)
(* A client retrieves a handle.  Until the type of what arrives is known    *)
(* the handle has a retrieval context, which owns a handle of the low-level *)
(* cache.  Then the context migrates: to a content that other handles share *)
(* already, to a new content, which takes the low-level handle over, to a   *)
(* download, or to an error.  Contents tell their users what becomes of     *)
(* them, and the users release handles while they are being told.           *)
(*                                                                         *)
(* The low-level cache, which LLCache models, appears as the client sees    *)
(* it: objects that arrive, and handles that are told of headers, data, the *)
(* end or an error.  HtmlLoad models what a page does between LOADING and   *)
(* DONE.  Clients are the ones of this program: they release a handle when  *)
(* told of an error, a window releases the handle of what it showed before  *)
(* when told that the next content is READY, and whoever aborts a handle    *)
(* that is not yet READY releases it.                                       *)
(***************************************************************************)
EXTENDS Integers, Sequences, FiniteSets, SequencesExt

CONSTANTS
    Handles,       \* hlcache_handle
    LLs,           \* llcache_handle
    Contents,      \* struct content, and the hlcache_entry that points to it
    Objects,       \* llcache_object
    Types,         \* what arrives: "image", "css", "page", "unknown"
    Aborted,       \* the types whose contents clients abort
    CanFail,       \* whether creating a content can fail
    NONE

ASSUME HLAssumption ==
    /\ Types \subseteq {"image", "css", "page", "unknown"}
    /\ Aborted \subseteq Types /\ CanFail \in BOOLEAN /\ IsFiniteSet(LLs)
    /\ NONE \notin Handles \cup LLs \cup Contents \cup Objects

VARIABLE hl        \* the two caches: a record of their tables

NoHandle  == [used |-> FALSE, entry |-> NONE, ctx |-> NONE, told |-> "none", aborted |-> FALSE]
NoLL      == [owner |-> "none", object |-> NONE, told |-> 0]
NoContent == [status |-> "none", users |-> <<>>, ll |-> NONE, type |-> "unknown",
              quirks |-> FALSE, locked |-> FALSE, converting |-> FALSE, stopped |-> FALSE]
NoObject  == [state |-> "none", got |-> 0, whole |-> TRUE, type |-> "unknown"]

Init ==
    hl = [handle  |-> [h \in Handles |-> NoHandle],
          ll      |-> [l \in LLs |-> NoLL],
          content |-> [k \in Contents |-> NoContent],
          object  |-> [o \in Objects |-> NoObject],
          content_list |-> <<>>,
          fault   |-> FALSE]

Expect(s, holds) == [s EXCEPT !.fault = @ \/ ~holds]

Used(s)        == {h \in Handles : s.handle[h].used}
FreeLLs(s)     == {l \in LLs : s.ll[l].owner = "none"}
FreeContents(s) == {k \in Contents : s.content[k].status = "none"}
FreeObjects(s) == {o \in Objects : s.object[o].state = "none"}
On(s, o)       == {l \in LLs : s.ll[l].owner # "none" /\ s.ll[l].object = o}

\* Some free element of S, all of them being alike; NONE when memory is short.
Some(S) == IF S = {} THEN NONE ELSE CHOOSE x \in S : TRUE

-----------------------------------------------------------------------------
(* The low-level cache *)

\* An object without handles, which stays in the cache or not, is forgotten:
\* a handle retrieved later may find one that is complete.
llcache_handle_release(s, l) ==
    LET o == s.ll[l].object
    IN IF l \in FreeLLs(s) THEN Expect(s, FALSE)
       ELSE [s EXCEPT !.ll[l] = NoLL, !.object[o] = IF On(s, o) = {l} THEN NoObject ELSE @]

\* The only handle of an object stops its fetch; one of several moves to a
\* snapshot of what has arrived.
llcache_handle_abort(s, l) ==
    LET o == s.ll[l].object
        p == Some(FreeObjects(s))
        cut == [s.object[o] EXCEPT !.whole = @ /\ s.object[o].state = "complete",
                                   !.state = "complete"]
    IN CASE l \in FreeLLs(s) -> Expect(s, FALSE)
         [] On(s, o) = {l} -> [s EXCEPT !.object[o] = cut]
         [] l \in On(s, o) /\ On(s, o) # {l} /\ p # NONE -> [s EXCEPT !.object[p] = cut, !.ll[l].object = p]
         [] l \in On(s, o) /\ On(s, o) # {l} /\ p = NONE -> s

-----------------------------------------------------------------------------
(* Handles *)

content_remove_user(s, k, h) ==
    [Expect(s, h \in Range(s.content[k].users)) EXCEPT
        !.content[k].users = RemoveFirst(@, h)]

\* The fetch of a nascent handle is dropped with its context, unless the
\* context is migrating (migrate_target).
DropContext(s, h, migrate_target) ==
    LET l == s.handle[h].ctx
    IN IF l = NONE \/ migrate_target THEN s
       ELSE [llcache_handle_release(llcache_handle_abort(s, l), l) EXCEPT !.handle[h].ctx = NONE]

\* Mutant: a handle released while its context migrates takes the context along.
Released_Migrating(s, h, migrate_target) ==
    LET q == IF s.handle[h].entry # NONE THEN content_remove_user(s, s.handle[h].entry, h)
             ELSE DropContext(s, h, FALSE)
    IN [q EXCEPT !.handle[h] = [NoHandle EXCEPT !.ctx = q.handle[h].ctx]]
Released(s, h, migrate_target) ==
    LET q == IF s.handle[h].entry # NONE THEN content_remove_user(s, s.handle[h].entry, h)
             ELSE DropContext(s, h, migrate_target)
    IN [q EXCEPT !.handle[h] = [NoHandle EXCEPT !.ctx = q.handle[h].ctx]]

\* What the client of h can make of a message: it releases h on an error, and
\* perhaps what it showed before on READY.
Callback(s, h, msg) ==
    LET told == [s EXCEPT !.handle[h].told = msg]
        shown == {g \in Used(s) \ {h} : s.handle[g].told \in {"READY", "DONE"}}
    IN CASE msg = "ERROR" -> {Released(s, h, FALSE)}
         [] msg = "READY" -> {told} \cup {Released(told, g, FALSE) : g \in shown}
         [] OTHER -> {told}

\* A turn of the loop: next is read before the callback and used after it.
Tell(s, k, h, msg) ==
    LET users == s.content[k].users
        i == CHOOSE j \in DOMAIN users : users[j] = h
        next == IF i < Len(users) THEN {users[i + 1]} ELSE {}
    IN IF h \notin Range(users) THEN {s}
       ELSE {Expect(q, next \subseteq Range(q.content[k].users)) : q \in Callback(s, h, msg)}

\* The states after each turn.
Turns(s, k, msg) ==
    LET users == s.content[k].users
        after[n \in 0 .. Len(users)] ==
            IF n = 0 THEN {s} ELSE UNION {Tell(q, k, users[n], msg) : q \in after[n - 1]}
    IN after

content_broadcast(s, k, msg) == Turns(s, k, msg)[Len(s.content[k].users)]

-----------------------------------------------------------------------------
(* Contents *)

content_set_ready(s, k) ==
    content_broadcast([Expect(s, s.content[k].locked) EXCEPT
                          !.content[k].locked = FALSE, !.content[k].converting = FALSE,
                          !.content[k].status = "READY"], k, "READY")

content_set_done(s, k) == content_broadcast([s EXCEPT !.content[k].status = "DONE"], k, "DONE")

\* content_broadcast_error() and content_set_error().
Failed(s, k) ==
    {[q EXCEPT !.content[k] = [@ EXCEPT !.locked = FALSE, !.converting = FALSE, !.status = "ERROR"]] :
        q \in content_broadcast(s, k, "ERROR")}

ReadyAndDone(s, k) == UNION {content_set_done(q, k) : q \in content_set_ready(s, k)}

\* An image is converted at once, a stylesheet when its imports are there, a
\* page in its own time.
content_convert(s, k) ==
    LET c == s.content[k]
        q == Expect(s, c.status \in {"LOADING", "ERROR"})
        locked == [q EXCEPT !.content[k].locked = TRUE, !.content[k].converting = TRUE]
    IN IF c.status # "LOADING" \/ c.locked THEN {q}
       ELSE IF c.type = "image" THEN ReadyAndDone(locked, k) \cup Failed(locked, k)
       ELSE {locked}

content_destroy(s, k) ==
    [llcache_handle_release(Expect(s, ~s.content[k].locked), s.content[k].ll)
        EXCEPT !.content[k] = NoContent]

-----------------------------------------------------------------------------
(* Migration *)

content_is_shareable(c) == c.type \in {"image", "css"}

Suitable(s, k, l, quirks) ==
    LET c == s.content[k]
    IN /\ c.status # "ERROR"
       /\ content_is_shareable(c)
       /\ c.quirks = quirks
       /\ s.ll[c.ll].object = s.ll[l].object

\* Mutant: a user that joins a finished content is told of its beginning only.
Attached_Loading(s, h, k) ==
    {[s EXCEPT !.content[k].users = <<h>> \o @, !.handle[h].entry = k, !.handle[h].told = "LOADING"]}
\* The messages bring the new user up to the state of the content.
Attached(s, h, k) ==
    LET joined == [s EXCEPT !.content[k].users = <<h>> \o @, !.handle[h].entry = k]
        loading == Callback(joined, h, "LOADING")
        ready == UNION {Callback(q, h, "READY") : q \in loading}
        done == UNION {Callback(q, h, "DONE") : q \in ready}
    IN CASE s.content[k].status = "LOADING" -> loading
         [] s.content[k].status = "READY" -> ready
         [] s.content[k].status = "DONE" -> done

\* Mutant: a hit leaves the low-level handle behind.
hlcache_find_content_Keeps(s, h, quirks) ==
    LET l == s.handle[h].ctx
        found == SelectInSeq(s.content_list, LAMBDA c : Suitable(s, c, l, quirks))
        k == Some(FreeContents(s))
        new == [NoContent EXCEPT !.status = "LOADING", !.ll = l, !.quirks = quirks,
                                 !.type = s.object[s.ll[l].object].type]
    IN IF found # 0 THEN Attached(s, h, s.content_list[found])
       ELSE IF k = NONE THEN {}
       ELSE Attached([s EXCEPT !.content[k] = new, !.content_list = <<k>> \o @,
                               !.ll[l] = [@ EXCEPT !.owner = "content", !.told = 1]], h, k)

\* The low-level handle is released, or goes to the new content.  The content
\* gets all of the data, what has been looked at to find the type included.
hlcache_find_content(s, h, quirks) ==
    LET l == s.handle[h].ctx
        found == SelectInSeq(s.content_list, LAMBDA c : Suitable(s, c, l, quirks))
        k == Some(FreeContents(s))
        new == [NoContent EXCEPT !.status = "LOADING", !.ll = l, !.quirks = quirks,
                                 !.type = s.object[s.ll[l].object].type]
    IN IF found # 0 THEN Attached(llcache_handle_release(s, l), h, s.content_list[found])
       ELSE IF k = NONE THEN {}
       ELSE Attached([s EXCEPT !.content[k] = new, !.content_list = <<k>> \o @,
                               !.ll[l] = [@ EXCEPT !.owner = "content", !.told = 1]], h, k)

\* The client is told of the error, and releases its handle; then the fetch is
\* stopped.
MigrateFails(s, h) ==
    LET l == s.handle[h].ctx
        q == Released(s, h, TRUE)
    IN llcache_handle_release(llcache_handle_abort(q, l), l)

\* The client takes the low-level handle, and releases the other.
Download(s, h) ==
    LET l == s.handle[h].ctx
    IN Released([s EXCEPT !.ll[l] = [@ EXCEPT !.owner = "download", !.told = 1]], h, TRUE)

\* Once the type is known: at the end the context is removed from the ring.
hlcache_migrate_ctx(s, h) ==
    LET type == s.object[s.ll[s.handle[h].ctx].object].type
        found == IF type = "unknown" THEN {}
                 ELSE UNION {hlcache_find_content(s, h, b) :
                                b \in IF type = "css" THEN BOOLEAN ELSE {FALSE}}
        ended == (IF type = "unknown" THEN {Download(s, h)} ELSE {})
                 \cup (IF CanFail \/ found = {} THEN {MigrateFails(s, h)} ELSE {})
    IN {[Expect(q, q.handle[h].ctx = s.handle[h].ctx) EXCEPT !.handle[h].ctx = NONE] :
           q \in found \cup ended}

-----------------------------------------------------------------------------
(* Events of the low-level cache *)

Becomes(P) == hl' \in P

OwnerOf(s, l) == IF s.ll[l].owner = "ctx" THEN CHOOSE h \in Handles : s.handle[h].ctx = l
                 ELSE CHOOSE k \in Contents : s.content[k].ll = l

Told(l, n) == [hl EXCEPT !.ll[l].told = n]

\* The type may be known from the headers, and is known from the data.
HAD_HEADERS(l) ==
    /\ hl.ll[l].owner = "ctx" /\ hl.ll[l].told = 0
    /\ hl.object[hl.ll[l].object].got > 0 \/ hl.object[hl.ll[l].object].state = "complete"
    /\ Becomes({Told(l, 1)} \cup hlcache_migrate_ctx(Told(l, 1), OwnerOf(hl, l)))

HAD_DATA(l) ==
    /\ hl.ll[l].told = 1 /\ hl.object[hl.ll[l].object].got = 2
    /\ CASE hl.ll[l].owner = "ctx" -> Becomes(hlcache_migrate_ctx(Told(l, 2), OwnerOf(hl, l)))
         [] hl.ll[l].owner = "download" -> hl' = Told(l, 2)
         [] hl.ll[l].owner = "content" ->
              LET k == OwnerOf(hl, l)
              IN \/ hl' = Told(l, 2)
                 \/ /\ CanFail
                    /\ Becomes({llcache_handle_abort([q EXCEPT !.content[k].status = "ERROR"], l) :
                                   q \in content_broadcast(Told(l, 2), k, "ERROR")})

\* Mutant: what ends before its type is known is not looked at any more.
DONE_Forgets(l) ==
    /\ hl.ll[l].told \in {1, 2} /\ hl.object[hl.ll[l].object].state = "complete"
    /\ hl.ll[l].told = 1 => hl.object[hl.ll[l].object].got < 2
    /\ CASE hl.ll[l].owner \in {"ctx", "download"} -> hl' = Told(l, 3)
         [] hl.ll[l].owner = "content" -> Becomes(content_convert(Told(l, 3), OwnerOf(hl, l)))
DONE(l) ==
    /\ hl.ll[l].told \in {1, 2} /\ hl.object[hl.ll[l].object].state = "complete"
    /\ hl.ll[l].told = 1 => hl.object[hl.ll[l].object].got < 2
    /\ CASE hl.ll[l].owner = "ctx" -> Becomes(hlcache_migrate_ctx(Told(l, 3), OwnerOf(hl, l)))
         [] hl.ll[l].owner = "download" -> hl' = Told(l, 3)
         [] hl.ll[l].owner = "content" -> Becomes(content_convert(Told(l, 3), OwnerOf(hl, l)))

\* A handle is told that the fetch failed, with what it belongs to.
Fails(s, l) ==
    LET q == [s EXCEPT !.ll[l].told = 3]
    IN CASE s.ll[l].owner = "ctx" -> Callback(q, OwnerOf(s, l), "ERROR")
         [] s.ll[l].owner = "content" ->
              content_broadcast([q EXCEPT !.content[OwnerOf(s, l)].status = "ERROR"], OwnerOf(s, l), "ERROR")
         [] OTHER -> {q}

\* The states after each of the handles of the object was told.
Failing(s, lls) ==
    LET after[n \in 0 .. Len(lls)] ==
            IF n = 0 THEN {s} ELSE UNION {Fails(q, lls[n]) : q \in after[n - 1]}
    IN after

ERROR(o) ==
    LET lls == SetToSeq(On(hl, o))
        s == [hl EXCEPT !.object[o] = [@ EXCEPT !.state = "complete", !.whole = FALSE]]
    IN /\ hl.object[o].state = "fetching"
       /\ Becomes(Failing(s, lls)[Len(lls)])

\* What the low-level cache can hold for something not asked for yet.
Cached == [state : {"complete"}, got : {1, 2}, whole : {TRUE}, type : Types]
Fetching == [NoObject EXCEPT !.state = "fetching"]

\* The answer is that an object of the cache is not modified: the handles move
\* to it.  A redirect moves them to another object before anything is known
\* of the first, which makes no difference here.
NotModified(o) ==
    /\ hl.object[o].state = "fetching" /\ hl.object[o].got = 0
    /\ \/ \E c \in Cached : hl' = [hl EXCEPT !.object[o] = c]
       \/ \E p \in Objects :
            /\ hl.object[p].state # "none" /\ hl.object[p].got > 0 /\ hl.object[p].whole
            /\ hl' = [hl EXCEPT !.object[o] = NoObject,
                                !.ll = [l \in LLs |-> IF l \in On(hl, o)
                                                      THEN [@[l] EXCEPT !.object = p] ELSE @[l]]]

\* The headers, the data, and the end.
Arrives(o) ==
    /\ hl.object[o].state = "fetching"
    /\ \/ /\ hl.object[o].got = 0
          /\ \E t \in Types : hl' = [hl EXCEPT !.object[o].got = 1, !.object[o].type = t]
       \/ hl.object[o].got = 1 /\ hl' = [hl EXCEPT !.object[o].got = 2]
       \/ hl.object[o].got > 0 /\ hl' = [hl EXCEPT !.object[o].state = "complete"]

\* A download ends, or is cancelled.
DownloadEnds(l) ==
    /\ hl.ll[l].owner = "download"
    /\ hl' = llcache_handle_release(IF hl.ll[l].told = 3 THEN hl ELSE llcache_handle_abort(hl, l), l)

-----------------------------------------------------------------------------
(* What a content does in its own time *)

\* html_box_convert_done(): a page stopped while it was LOADING ends in error.
ContentReady(k) ==
    /\ hl.content[k].converting /\ ~hl.content[k].stopped
    /\ Becomes(IF hl.content[k].type = "css" THEN ReadyAndDone(hl, k) ELSE content_set_ready(hl, k))

ContentDone(k) ==
    /\ hl.content[k].status = "READY"
    /\ Becomes(content_set_done(hl, k))

ContentFails(k) ==
    /\ hl.content[k].converting
    /\ Becomes(Failed(hl, k))

-----------------------------------------------------------------------------
(* Clients *)

\* The object is new, or one of the low-level cache that may be reused.
hlcache_handle_retrieve(h) ==
    LET l == Some(FreeLLs(hl))
        p == Some(FreeObjects(hl))
        started(s, o) == [s EXCEPT !.ll[l] = [owner |-> "ctx", object |-> o, told |-> 0],
                                   !.handle[h] = [NoHandle EXCEPT !.used = TRUE, !.ctx = l]]
    IN /\ ~hl.handle[h].used /\ l # NONE
       /\ \/ \E o \in Objects : /\ hl.object[o].state # "none" /\ hl.object[o].whole
                                /\ hl' = started(hl, o)
          \/ /\ p # NONE
             /\ \E x \in Cached \cup {Fetching} : hl' = started([hl EXCEPT !.object[p] = x], p)

hlcache_handle_release(h) == h \in Used(hl) /\ hl' = Released(hl, h, FALSE)

\* A content with other users is cloned, and the clone is aborted.  The clone
\* copies the status, the lock and how much its low-level handle has been told;
\* a conversion is repeated if it was over, and not begun if it was going on.
Cloned(s, h, c) ==
    LET k == s.handle[h].entry
        l == Some(FreeLLs(s))
    IN [content_remove_user([s EXCEPT
            !.content[c] = [s.content[k] EXCEPT !.users = <<h>>, !.ll = l, !.converting = FALSE],
            !.ll[l] = s.ll[s.content[k].ll],
            !.content_list = <<c>> \o @], k, h) EXCEPT !.handle[h].entry = c]

\* html_stop() is the only stop operation.
content_abort(s, k) ==
    LET c == s.content[k]
        stopped == IF c.type # "page" THEN {s}
                   ELSE CASE c.status = "LOADING" -> {[s EXCEPT !.content[k].stopped = TRUE]}
                          [] c.status = "READY" -> content_set_done(s, k)
                          [] c.status = "DONE" -> {s}
                          [] OTHER -> {Expect(s, FALSE)}
    IN {llcache_handle_abort(q, c.ll) : q \in stopped}

\* Mutant: a content that others use is aborted for all.
AbortedBy_Shared(s, h) ==
    LET k == s.handle[h].entry
    IN IF k = NONE THEN {DropContext(s, h, FALSE)} ELSE content_abort(s, k)
AbortedBy(s, h) ==
    LET k == s.handle[h].entry
        c == Some(FreeContents(s))
    IN IF k = NONE THEN {DropContext(s, h, FALSE)}
       ELSE IF Len(s.content[k].users) = 1 THEN content_abort(s, k)
       ELSE IF c = NONE \/ FreeLLs(s) = {} THEN {s}
       ELSE content_abort(Cloned(s, h, c), c)

\* A client that aborts what is not READY lets go of it; what is DONE is not
\* aborted.
hlcache_handle_abort(h) ==
    LET s == [hl EXCEPT !.handle[h].aborted = TRUE]
        told == hl.handle[h].told
    IN /\ h \in Used(hl) /\ told # "DONE"
       /\ hl.handle[h].entry # NONE => hl.content[hl.handle[h].entry].type \in Aborted
       /\ Becomes({IF told = "READY" THEN q ELSE Released(q, h, FALSE) : q \in AbortedBy(s, h)})

\* A content that nobody uses is destroyed, unless it is LOADING.
Unused(c) == c.status \notin {"none", "LOADING"} /\ c.users = <<>>

Cleaned(s, k) ==
    IF Unused(s.content[k])
    THEN [content_destroy(s, k) EXCEPT !.content_list = RemoveFirst(@, k)]
    ELSE s

\* The states of the walk along the list.
Cleaning(s) ==
    LET after[n \in 0 .. Len(s.content_list)] ==
            IF n = 0 THEN s ELSE Cleaned(after[n - 1], s.content_list[n])
    IN after

hlcache_clean ==
    /\ \E k \in Contents : Unused(hl.content[k])
    /\ hl' = Cleaning(hl)[Len(hl.content_list)]

-----------------------------------------------------------------------------
Next ==
    \/ \E h \in Handles : hlcache_handle_retrieve(h) \/ hlcache_handle_release(h) \/ hlcache_handle_abort(h)
    \/ \E l \in LLs : HAD_HEADERS(l) \/ HAD_DATA(l) \/ DONE(l) \/ DownloadEnds(l)
    \/ \E o \in Objects : Arrives(o) \/ ERROR(o) \/ NotModified(o)
    \/ \E k \in Contents : ContentReady(k) \/ ContentDone(k) \/ ContentFails(k)
    \/ hlcache_clean

Spec == Init /\ [][Next]_hl

-----------------------------------------------------------------------------
(* Properties *)

(* No assertion fails and nothing freed is used: a broadcast's next user is *)
(* still there after a callback, a user that is removed is in the list, a   *)
(* migrating context survives the release of its handle, contents are       *)
(* locked when they become READY, not when destroyed, and converted once.   *)
NoFault == ~hl.fault

(* A handle is in the list of users of the content it points to and of no   *)
(* other; contents point to handles in use.                                 *)
UsersAreHandles ==
    \A k \in Contents, h \in Handles :
        h \in Range(hl.content[k].users) <=> (hl.handle[h].used /\ hl.handle[h].entry = k)

(* A low-level handle belongs to one retrieval context or one content, which *)
(* hold no other, or to a download: a path that forgets it leaks the        *)
(* object's data, one that releases it twice frees it in use.               *)
LLOwnedOnce ==
    \A l \in LLs :
        Cardinality({h \in Handles : hl.handle[h].ctx = l})
        + Cardinality({k \in Contents : hl.content[k].status # "none" /\ hl.content[k].ll = l})
        = IF hl.ll[l].owner \in {"ctx", "content"} THEN 1 ELSE 0

(* However handles, contexts, contents and low-level handles come and go,   *)
(* each belongs to exactly one other.                                       *)
Ownership == UsersAreHandles /\ LLOwnedOnce

(* Whenever it joined, and whoever else came, left or aborted meanwhile, a  *)
(* handle has been told exactly how far its content is.                     *)
ToldInStep ==
    \A h \in Used(hl) :
        hl.handle[h].entry # NONE =>
            hl.handle[h].told = hl.content[hl.handle[h].entry].status

(* An abort concerns the handle that was aborted only: nobody else relies   *)
(* on an object whose fetch was stopped before its end.                     *)
AbortIsPrivate ==
    \A h \in Used(hl) : hl.handle[h].entry # NONE /\ ~hl.handle[h].aborted =>
        hl.object[hl.ll[hl.content[hl.handle[h].entry].ll].object].whole

(* Nobody waits for a call that does not come.  The low-level cache still    *)
(* has something to tell a retrieval context, and a content that is LOADING, *)
(* which hlcache_clean() never destroys, or the content is being converted:  *)
(* contexts migrate at the end of the data at the latest, aborts leave an    *)
(* end to be told of, and a content with an error does not stay LOADING.     *)
NobodyWaitsInVain ==
    /\ \A h \in Handles : hl.handle[h].ctx # NONE => hl.ll[hl.handle[h].ctx].told < 3
    /\ \A k \in Contents : hl.content[k].status = "LOADING" =>
          hl.content[k].converting \/ hl.ll[hl.content[k].ll].told < 3

=============================================================================
