------------------------------ MODULE LLCache ------------------------------
(***************************************************************************)
(* The low-level cache, content/llcache.c: objects (one per response),     *)
(* the users that read them through handles, freshness validation through  *)
(* candidate objects, redirects, retries, and the pass that brings users   *)
(* up to date with their object.                                           *)
(*                                                                         *)
(* One thread; the interleavings come from re-entrancy.  A fetch message   *)
(* (llcache_fetch_callback) or a timer (llcache_catch_up_all_users) calls  *)
(* users back, and "our contract with clients is that they can do whatever *)
(* they like from within their callback handlers".  ctl says which user is *)
(* being called and what the code does when that call returns; the         *)
(* client's operations may happen then or when the event loop is idle.     *)
(*                                                                         *)
(* Abstractions.  A response's cache headers are one of Responses; a body  *)
(* is a number of chunks; request times are ranks.  The backing store is   *)
(* closed, the state llcache_persist_slowcheck() leaves it in: it answers  *)
(* every call with an error, so objects stay in RAM.  Memory runs out when *)
(* Objects or Users are used up.                                           *)
(***************************************************************************)
EXTENDS Integers, Sequences, FiniteSets

CONSTANTS
    Objects,              \* bound: addresses of llcache_object
    Users,                \* bound: addresses of llcache_object_user
    Urls,
    MaxLen,               \* bound: chunks of source data
    MaxCandidates,        \* bound: candidate_count, which can only grow in places
    Responses,            \* cache control data a response's headers can give
    fetch_attempts,       \* option max_retried_fetches
    fetch_redirect_limit, \* option
    Messages,             \* fetch messages that can arrive; "UNASKED_304": servers may
                          \* answer 304 to a request that was not conditional
    Operations,           \* calls the client makes
    Modes,                \* how it retrieves: "get", "force" (FORCE_FETCH), "post"
    Returns,              \* what its callbacks return
    CanFail,              \* fetch_start() and allocations for a response can fail
    NONE

VARIABLES
    object,         \* struct llcache_object, per address
    user,           \* llcache_object_user and its llcache_handle, per address
    cached,         \* llcache->cached_objects
    uncached,       \* llcache->uncached_objects
    all_caught_up,  \* FALSE: llcache_catch_up_all_users() is scheduled
    ctl,            \* who is being called back, and from where
    fault           \* memory has been used after it was freed

vars == <<object, user, cached, uncached, all_caught_up, ctl, fault>>

-----------------------------------------------------------------------------
(* Data.                                                                   *)

\* llcache_fetch_state
INIT == 0
HEADERS == 1
DATA == 2
COMPLETE == 3

\* llcache_cache_control: life tells whether lifetime remains, validator
\* whether there is an ETag or a Last-Modified date; req is the rank of the
\* request time, 0 when there is none.
CacheControl == [no_cache : {"FRESH", "ALWAYS", "ONCE"}, life : BOOLEAN,
                 validator : BOOLEAN, req : 0..Cardinality(Objects)]

Invalid == [no_cache |-> "FRESH", life |-> FALSE, validator |-> FALSE, req |-> 0]

ASSUME LLCacheAssumption ==
    /\ IsFiniteSet(Objects)
    /\ NONE \notin Objects \cup Users \cup {"GOT_CERTS", "HAD_HEADERS", "HAD_DATA", "DONE"}
    /\ MaxLen \in Nat /\ fetch_attempts \in Nat /\ fetch_redirect_limit \in Nat
    /\ Responses \subseteq CacheControl
    /\ Modes \subseteq {"get", "force", "post"}
    /\ Returns \subseteq {"ok", "need_data", "error", "nomem"}
    /\ CanFail \in BOOLEAN

\* fetch is object->fetch.fetch: "ended" is a pointer the fetch layer has
\* already disposed of.  conditional: the request carried validators.  body
\* is what source_data holds: "none", "part" of the present response, "old"
\* part of an earlier one, the "whole" of one, or "mixed".
NewObject(url, mode, redirects) ==
    [used |-> TRUE, url |-> url, mode |-> mode, users |-> << >>, fetch |-> "none",
     state |-> INIT, len |-> 0, body |-> "none", cache |-> Invalid, conditional |-> FALSE,
     candidate |-> NONE, candidate_count |-> 0, redirect_count |-> redirects,
     retries_remaining |-> fetch_attempts, tried_with_auth |-> FALSE,
     tried_with_tls_downgrade |-> FALSE, stream |-> FALSE, chain |-> FALSE]

FreeObject == [NewObject(NONE, "get", 0) EXCEPT !.used = FALSE]

\* trusting: the client neither aborted the handle nor was told of an error.
NewUser(o) == [object |-> o, handle |-> TRUE, state |-> INIT, bytes |-> 0,
               iterator_target |-> FALSE, queued_for_delete |-> FALSE, trusting |-> TRUE]

FreeUser == [NewUser(NONE) EXCEPT !.handle = FALSE]

Idle == [kind |-> "idle"]

Init == /\ object = [o \in Objects |-> FreeObject]
        /\ user = [u \in Users |-> FreeUser]
        /\ cached = << >>
        /\ uncached = << >>
        /\ all_caught_up = TRUE
        /\ ctl = Idle
        /\ fault = FALSE

\* The client's code runs: the event loop is idle or a callback executes.
ClientRuns ==
    /\ ~fault
    /\ \/ ctl.kind = "idle"
       \/ ctl.kind = "event" /\ ctl.cur # NONE
       \/ ctl.kind = "pass" /\ ctl.call # NONE

-----------------------------------------------------------------------------
(* Lists and users.                                                        *)

Elems(s) == { s[i] : i \in 1..Len(s) }

\* The elements of s that are in S, in their order: the k-th of them is the
\* one with k - 1 before it.
Selected(s, S) ==
    LET I == { i \in 1..Len(s) : s[i] \in S }
        Rank(i) == Cardinality({ j \in I : j <= i })
    IN  [k \in 1..Cardinality(I) |-> s[CHOOSE i \in I : Rank(i) = k]]

Without(s, x) == Selected(s, Elems(s) \ {x})

Reversed(s) == [i \in 1..Len(s) |-> s[Len(s) + 1 - i]]

\* The element after x, as x->next.
Successor(s, x) ==
    LET i == CHOOSE i \in 1..Len(s) : s[i] = x
    IN  IF i < Len(s) THEN s[i + 1] ELSE NONE

First(s) == IF s = << >> THEN NONE ELSE Head(s)

\* The object map m with s for the users of o.
SetUsers(m, o, s) == [m EXCEPT ![o] = [@ EXCEPT !.users = s]]

\* llcache_object_add_user() on the object map m.
AddUser(m, o, u) == SetUsers(m, o, <<u>> \o m[o].users)

\* llcache_object_remove_user()
RemoveUser(m, o, u) == SetUsers(m, o, Without(m[o].users, u))

\* Mutant: the users stay in the list of the old object too.
MoveUsers_KeepsOld(m, from, to) ==
    SetUsers(m, to, Reversed(m[from].users) \o m[to].users)

\* The loop of llcache_fetch_redirect() and llcache_fetch_notmodified() that
\* moves the users one by one reverses their order.
MoveUsers(m, from, to) ==
    LET emptied == SetUsers(m, from, << >>)
    IN  SetUsers(emptied, to, Reversed(m[from].users) \o emptied[to].users)

\* Users after the ones of object from have been moved.
Moved(from, to) ==
    [u \in Users |-> IF u \in Elems(object[from].users)
                     THEN [user[u] EXCEPT !.object = to] ELSE user[u]]

SetCount(m, c, n) == [m EXCEPT ![c] = [@ EXCEPT !.candidate_count = n]]

\* Mutant: the pointer to the candidate is not cleared.
ReleaseCandidate_KeepsPointer(m, o) ==
    LET c == m[o].candidate
    IN  IF c = NONE THEN m
        ELSE SetCount(m, c, m[c].candidate_count - 1)

\* "Release candidate, if any".
ReleaseCandidate(m, o) ==
    LET c == m[o].candidate
        cleared == [m EXCEPT ![o] = [@ EXCEPT !.candidate = NONE]]
    IN  IF c = NONE THEN m
        ELSE SetCount(cleared, c, m[c].candidate_count - 1)

-----------------------------------------------------------------------------
(* Freshness, fetching and retrieval.                                      *)

\* llcache_object_rfc2616_remaining_lifetime() > 0
RemainingLifetime(o) == object[o].cache.no_cache = "FRESH" /\ object[o].cache.life

llcache_object_is_fresh(o) ==
    /\ object[o].cache.no_cache = "FRESH"
    /\ RemainingLifetime(o) \/ object[o].state # COMPLETE

Latest(m) == CHOOSE r \in { m[o].cache.req : o \in Objects } :
                 \A o \in Objects : m[o].cache.req <= r

\* Close the gaps between the ranks of the request times.
Ranked(m) ==
    [o \in Objects |->
        [m[o] EXCEPT !.cache = [@ EXCEPT !.req =
            Cardinality({ m[p].cache.req : p \in { q \in Objects :
                              m[q].cache.req \in 1..m[o].cache.req } })]]]

\* llcache_object_refetch() on the object r at time t.  The source data stays.
Refetch(r, t) == [r EXCEPT
    !.cache = [Invalid EXCEPT !.req = t],
    !.conditional = r.cache.validator,
    !.state = INIT,
    !.fetch = "running",
    !.body = IF @ = "part" THEN "old" ELSE @]

\* The possible object maps afterwards; the clock may or may not have moved
\* on since the last request.
Refetched(m, o) ==
    { Ranked([m EXCEPT ![o] = Refetch(m[o], t)]) : t \in {Latest(m), Latest(m) + 1} \ {0} }

\* The same when fetch_start() fails: the pointer is left as it was.
RefetchFailed(m, o) ==
    { [n EXCEPT ![o] = [@ EXCEPT !.fetch = m[o].fetch]] : n \in Refetched(m, o) }

\* The cached object for a URL with the latest request, the first in the
\* list among equals.
Newest(url) ==
    LET I == { i \in 1..Len(cached) : object[cached[i]].url = url }
        Req(i) == object[cached[i]].cache.req
        latest == { i \in I : \A j \in I : Req(j) <= Req(i) }
    IN  IF I = {} THEN NONE
        ELSE cached[CHOOSE i \in latest : \A j \in latest : i <= j]

\* llcache_object_retrieve(): the object found, or the free address o with a
\* new fetch, and what becomes of the lists and the object map.  A new fetch
\* has the stale object in the cache for a candidate.
Retrieved(url, mode, redirects) ==
    LET newest == IF mode = "get" THEN Newest(url) ELSE NONE
        Fetched(o) ==
            LET new == [object EXCEPT ![o] = NewObject(url, mode, redirects)]
                relying == [new EXCEPT ![o] = [@ EXCEPT !.candidate = newest,
                                                        !.cache = object[newest].cache]]
                validated == SetCount(relying, newest, object[newest].candidate_count + 1)
            IN  { [o |-> o, object |-> m,
                   cached |-> IF mode = "get" THEN <<o>> \o cached ELSE cached,
                   uncached |-> IF mode = "get" THEN uncached ELSE <<o>> \o uncached]
                    : m \in Refetched(IF newest = NONE THEN new ELSE validated, o) }
    IN  IF newest # NONE /\ llcache_object_is_fresh(newest)
        THEN { [o |-> newest, object |-> object, cached |-> cached, uncached |-> uncached] }
        ELSE UNION { Fetched(o) : o \in { p \in Objects :
                /\ ~object[p].used
                /\ newest # NONE => object[newest].candidate_count < MaxCandidates } }

\* llcache_object_retrieve() can return an error: no memory, or no fetch.
RetrieveFails(url, mode) ==
    \/ CanFail
    \/ Retrieved(url, mode, 0) = {}

-----------------------------------------------------------------------------
(* llcache_send_event_to_users(): call the users of an object in turn.     *)

Called(u, type) == [u EXCEPT !.iterator_target = TRUE,
                             !.trusting = @ /\ type # "ERROR"]

\* Begin with the first user of o; m is the object map at that time and then
\* what is left to do: follow a redirect, or nothing.
SendEvent(m, o, type, then) ==
    LET u == First(m[o].users)
    IN  /\ ctl' = [kind |-> "event", obj |-> o, type |-> type, cur |-> u, err |-> "ok",
                   then |-> then]
        /\ user' = IF u = NONE THEN user ELSE [user EXCEPT ![u] = Called(@, type)]

\* Mutant: a user released while it was called is not destroyed.
EventReturns_KeepsQueued(r) ==
    /\ ~fault
    /\ ctl.kind = "event" /\ ctl.cur # NONE
    /\ LET u == ctl.cur
           next == IF r = "ok" THEN Successor(object[ctl.obj].users, u) ELSE NONE
           called == IF next = NONE THEN user ELSE [user EXCEPT ![next] = Called(@, ctl.type)]
       IN  /\ user' = [called EXCEPT ![u] = [@ EXCEPT !.iterator_target = FALSE]]
           /\ ctl' = [ctl EXCEPT !.cur = next, !.err = r]
    /\ UNCHANGED <<object, cached, uncached, all_caught_up, fault>>

\* A callback returns: destroy the user if it was released meanwhile, and go
\* on with the next one unless the callback reported an error.
EventReturns(r) ==
    /\ ~fault
    /\ ctl.kind = "event" /\ ctl.cur # NONE
    /\ LET u == ctl.cur
           next == IF r = "ok" THEN Successor(object[ctl.obj].users, u) ELSE NONE
           called == IF next = NONE THEN user ELSE [user EXCEPT ![next] = Called(@, ctl.type)]
       IN  /\ IF user[u].queued_for_delete
              THEN /\ object' = RemoveUser(object, ctl.obj, u)
                   /\ user' = [called EXCEPT ![u] = FreeUser]
              ELSE /\ user' = [called EXCEPT ![u] = [@ EXCEPT !.iterator_target = FALSE]]
                   /\ UNCHANGED object
           /\ ctl' = [ctl EXCEPT !.cur = next, !.err = r]
    /\ UNCHANGED <<cached, uncached, all_caught_up, fault>>

-----------------------------------------------------------------------------
(* llcache_clean()                                                         *)

\* Mutant: a candidate is disposable.
Disposable_Candidate(o) ==
    /\ object[o].users = << >>
    /\ object[o].fetch = "none"

\* No users, not a candidate, no fetch: what every loop asks for.
Disposable(o) ==
    /\ object[o].users = << >>
    /\ object[o].candidate_count = 0
    /\ object[o].fetch = "none"

\* The objects destroyed: disposable ones that are uncached or stale, and
\* the first few fresh ones while the cache is over its limit, all of them
\* when it is purged.  Destroying an object leaves its candidate's count.
Discarded(purge) ==
    LET Uncached == { o \in Elems(uncached) : Disposable(o) }
        Stale == { o \in Elems(cached) : Disposable(o) /\ ~RemainingLifetime(o) }
        fresh == Selected(cached, { o \in Elems(cached) : Disposable(o) } \ Stale)
    IN  { Uncached \cup Stale \cup { fresh[i] : i \in 1..k } :
             k \in IF purge THEN {Len(fresh)} ELSE 0..Len(fresh) }

\* llcache_object_remove_from_list() and llcache_object_destroy() on the
\* objects of D; m is the object map before.
Destroy(m, D) ==
    /\ object' = [o \in Objects |-> IF o \in D THEN FreeObject ELSE m[o]]
    /\ cached' = Selected(cached, Objects \ D)
    /\ uncached' = Selected(uncached, Objects \ D)

llcache_clean ==
    /\ ~fault /\ ctl.kind = "idle"
    /\ \E D \in Discarded(FALSE) : D # {} /\ Destroy(object, D)
    /\ UNCHANGED <<user, all_caught_up, ctl, fault>>

-----------------------------------------------------------------------------
(* llcache_fetch_callback().  A message arrives while the event loop polls *)
(* the fetchers, so no other callback is in progress.                      *)

Arrives(msg, o) ==
    /\ ~fault /\ ctl.kind = "idle"
    /\ msg \in Messages
    /\ object[o].fetch = "running"

\* Mutant: no pass is scheduled.
NotCaughtUp_Forgets == UNCHANGED all_caught_up

\* llcache_users_not_caught_up() at the end of the handler.
NotCaughtUp == all_caught_up' = FALSE

\* The handler returns an error: EventDone deals with it.
HandlerFails(o, err) ==
    ctl' = [kind |-> "event", obj |-> o, type |-> "none", cur |-> NONE, err |-> err,
            then |-> NONE]

\* fetch_start() failed.
StartFails(o) == \E err \in {"error", "nomem"} : HandlerFails(o, err)

\* fetch_abort() or the fetch layer ended the fetch, and the response is over.
Ended(r) == [r EXCEPT !.fetch = "none", !.cache = Invalid, !.state = COMPLETE,
                      !.conditional = FALSE]

Header(o, c) ==
    /\ Arrives("HEADER", o)
    /\ object' = [object EXCEPT ![o] = [@ EXCEPT
                     !.state = HEADERS,
                     !.cache = [c EXCEPT !.req = object[o].cache.req]]]
    /\ NotCaughtUp
    /\ UNCHANGED <<user, cached, uncached, ctl, fault>>

\* llcache_fetch_process_data(): entering the DATA state releases the
\* candidate, and invalidates the cache control data of some responses.
Data(o, invalidate) ==
    /\ Arrives("DATA", o)
    /\ object[o].len < MaxLen
    /\ LET r == object[o]
           m == IF r.state = DATA THEN object ELSE ReleaseCandidate(object, o)
           drop == invalidate /\ r.state # DATA
       IN  object' = [m EXCEPT ![o] = [@ EXCEPT
                         !.state = DATA,
                         !.cache = IF drop THEN Invalid ELSE r.cache,
                         !.len = r.len + 1,
                         !.body = CASE r.body = "none" -> "part"
                                    [] r.body = "old" -> "mixed"
                                    [] OTHER -> r.body]]
    /\ NotCaughtUp
    /\ UNCHANGED <<user, cached, uncached, ctl, fault>>

\* There is no memory for a header, or for a chunk of data.
NoMemory(o, msg, invalidate) ==
    /\ CanFail
    /\ Arrives(msg, o)
    /\ LET r == object[o]
           m == IF msg = "HEADER" \/ r.state = DATA THEN object ELSE ReleaseCandidate(object, o)
           drop == invalidate /\ msg = "DATA" /\ r.state # DATA
       IN  object' = [m EXCEPT ![o] = [@ EXCEPT
                         !.state = IF msg = "HEADER" THEN HEADERS ELSE DATA,
                         !.cache = IF drop THEN Invalid ELSE r.cache]]
    /\ HandlerFails(o, "nomem")
    /\ UNCHANGED <<user, cached, uncached, all_caught_up, fault>>

Finished(o) ==
    /\ Arrives("FINISHED", o)
    /\ object' = [object EXCEPT ![o] = [@ EXCEPT
                     !.state = COMPLETE,
                     !.fetch = "none",
                     !.conditional = FALSE,
                     !.body = IF object[o].body \in {"none", "part"} THEN "whole" ELSE "mixed"]]
    /\ NotCaughtUp
    /\ UNCHANGED <<user, cached, uncached, ctl, fault>>

\* FETCH_PROGRESS, and FETCH_CERTS, whose chain the object keeps.
Inform(o, msg) ==
    /\ Arrives(msg, o)
    /\ object' = [object EXCEPT ![o] = [@ EXCEPT !.chain = object[o].chain \/ msg = "CERTS"]]
    /\ SendEvent(object, o, msg, NONE)
    /\ UNCHANGED <<cached, uncached, all_caught_up, fault>>

\* FETCH_ERROR and FETCH_CERT_ERR.
Fails(o, msg) ==
    /\ Arrives(msg, o)
    /\ msg = "CERT_ERR" => object[o].state = INIT
    /\ LET m == ReleaseCandidate(object, o)
       IN  object' = [m EXCEPT ![o] = Ended(@)]
    /\ SendEvent(object, o, "ERROR", NONE)
    /\ UNCHANGED <<cached, uncached, all_caught_up, fault>>

\* llcache_fetch_timeout(): the pointer to the fetch is not cleared before
\* the attempt to fetch again.
TimedOut(o) ==
    /\ Arrives("TIMEDOUT", o)
    /\ LET r == object[o]
           left == [object EXCEPT ![o] = [@ EXCEPT !.retries_remaining = r.retries_remaining - 1,
                                                   !.fetch = "ended"]]
           m == ReleaseCandidate(object, o)
       IN  \/ /\ r.retries_remaining > 1
              /\ object' \in Refetched(left, o)
              /\ NotCaughtUp
              /\ UNCHANGED <<user, ctl>>
           \/ /\ r.retries_remaining > 1
              /\ CanFail
              /\ object' \in RefetchFailed(left, o)
              /\ StartFails(o)
              /\ UNCHANGED <<user, all_caught_up>>
           \/ /\ r.retries_remaining <= 1
              /\ object' = [m EXCEPT ![o] = Ended(@)]
              /\ SendEvent(object, o, "ERROR", NONE)
              /\ UNCHANGED all_caught_up
    /\ UNCHANGED <<cached, uncached, fault>>

\* llcache_fetch_auth() (again: the URL database has details that were not
\* tried) and llcache_fetch_ssl_error() (again: no HSTS, no downgrade tried).
\* Both fetch again once, or tell the users.
Retries(o, msg, again) ==
    /\ Arrives(msg, o)
    /\ msg \in {"AUTH", "SSL_ERR"}
    /\ IF msg = "AUTH" THEN object[o].state < DATA ELSE object[o].state = INIT
    /\ LET r == object[o]
           tried == IF msg = "AUTH" THEN r.tried_with_auth ELSE r.tried_with_tls_downgrade
           m == ReleaseCandidate(object, o)
           stopped == [m EXCEPT ![o] = [@ EXCEPT
                          !.fetch = "none",
                          !.cache = Invalid,
                          !.tried_with_auth = IF msg = "AUTH" THEN again ELSE r.tried_with_auth,
                          !.tried_with_tls_downgrade =
                              r.tried_with_tls_downgrade \/ (msg = "SSL_ERR" /\ again)]]
       IN  /\ again => ~tried
           /\ \/ /\ again
                 /\ object' \in Refetched(stopped, o)
                 /\ NotCaughtUp
                 /\ UNCHANGED <<user, ctl>>
              \/ /\ again
                 /\ CanFail
                 /\ object' \in RefetchFailed(stopped, o)
                 /\ StartFails(o)
                 /\ UNCHANGED <<user, all_caught_up>>
              \/ /\ ~again
                 /\ object' = [stopped EXCEPT ![o] = Ended(@)]
                 /\ SendEvent(object, o, "ERROR", NONE)
                 /\ UNCHANGED all_caught_up
    /\ UNCHANGED <<cached, uncached, fault>>

\* llcache_fetch_notmodified(): the users go back to the candidate, whose
\* cache control data the new headers bring up to date.  Some servers answer
\* so though the request was not conditional.
NotModified(o, life) ==
    /\ Arrives("NOTMODIFIED", o)
    /\ object[o].state < DATA
    /\ object[o].conditional \/ "UNASKED_304" \in Messages
    /\ LET c == object[o].candidate
           new == object[o].cache
           Update(old) ==
               [no_cache |-> LET n == IF new.no_cache = "FRESH" THEN old.no_cache
                                                               ELSE new.no_cache
                             IN  IF n = "ONCE" THEN "FRESH" ELSE n,
                life |-> life,
                validator |-> old.validator \/ new.validator,
                req |-> new.req]
           back == ReleaseCandidate(MoveUsers(object, o, c), o)
           ended == [back EXCEPT ![o] = Ended(@)]
       IN  IF c = NONE
           THEN /\ object' = [object EXCEPT ![o] = Ended(@)]
                /\ UNCHANGED user
           ELSE /\ object' = [ended EXCEPT ![c] = [@ EXCEPT !.cache = Update(object[c].cache)]]
                /\ user' = Moved(o, c)
    /\ NotCaughtUp
    /\ UNCHANGED <<cached, uncached, ctl, fault>>

\* Mutant: the limit is not looked at.
Redirect_NoLimit(o, url, mode, acceptable) ==
    /\ Arrives("REDIRECT", o)
    /\ object[o].state < DATA
    /\ mode = object[o].mode \/ (object[o].mode = "post" /\ mode = "get")
    /\ LET m == ReleaseCandidate(object, o)
       IN  object' = [m EXCEPT ![o] = Ended(@)]
    /\ IF acceptable
       THEN SendEvent(object, o, "REDIRECT", [url |-> url, mode |-> mode])
       ELSE SendEvent(object, o, "ERROR", NONE)
    /\ UNCHANGED <<cached, uncached, all_caught_up, fault>>

\* llcache_fetch_redirect() up to the REDIRECT event; acceptable: the target
\* is a URL the response may redirect to.  301, 302 and 303 turn a POST into
\* a GET.
Redirect(o, url, mode, acceptable) ==
    /\ Arrives("REDIRECT", o)
    /\ object[o].state < DATA
    /\ mode = object[o].mode \/ (object[o].mode = "post" /\ mode = "get")
    /\ LET m == ReleaseCandidate(object, o)
       IN  object' = [m EXCEPT ![o] = Ended(@)]
    /\ IF acceptable /\ object[o].redirect_count <= fetch_redirect_limit
       THEN SendEvent(object, o, "REDIRECT", [url |-> url, mode |-> mode])
       ELSE SendEvent(object, o, "ERROR", NONE)
    /\ UNCHANGED <<cached, uncached, all_caught_up, fault>>

\* The users have been told of the redirect: retrieve the target and move
\* them there, or tell them of the error.
FollowRedirect ==
    /\ ~fault
    /\ ctl.kind = "event" /\ ctl.cur = NONE /\ ctl.then # NONE
    /\ LET o == ctl.obj
       IN  \/ /\ ctl.err = "ok"
              /\ \E res \in Retrieved(ctl.then.url, ctl.then.mode, object[o].redirect_count + 1) :
                    /\ object' = MoveUsers(res.object, o, res.o)
                    /\ user' = Moved(o, res.o)
                    /\ cached' = res.cached
                    /\ uncached' = res.uncached
              /\ ctl' = Idle
              /\ NotCaughtUp
           \/ /\ ctl.err # "ok" \/ RetrieveFails(ctl.then.url, ctl.then.mode)
              /\ SendEvent(object, o, "ERROR", NONE)
              /\ UNCHANGED <<object, cached, uncached, all_caught_up>>
    /\ UNCHANGED fault

\* The end of llcache_fetch_callback(): an error purges the cache if memory
\* ran out, and aborts the fetch, if there is one.
EventDone ==
    /\ ~fault
    /\ ctl.kind = "event" /\ ctl.cur = NONE /\ ctl.then = NONE
    /\ LET o == ctl.obj
           m == IF ctl.err # "ok" /\ object[o].fetch # "none"
                THEN [object EXCEPT ![o] = Ended(@)] ELSE object
       IN  \E D \in IF ctl.err = "nomem" THEN Discarded(TRUE) ELSE {{}} :
              /\ Destroy(m, D)
              /\ fault' = (o \in D \/ (ctl.err # "ok" /\ object[o].fetch = "ended"))
    /\ ctl' = Idle
    /\ NotCaughtUp
    /\ UNCHANGED user

-----------------------------------------------------------------------------
(* llcache_catch_up_all_users(): a pass over the cached objects (loop 1)   *)
(* and the uncached ones (loop 2).                                         *)

\* Begin with user u of object o; NONE: no user is left.
EnterUser(m, o, u, loop) ==
    [kind |-> "pass", loop |-> loop, obj |-> o, cur |-> u,
     objstate |-> IF o = NONE THEN INIT ELSE m[o].state, call |-> NONE, orig |-> 0]

Targeted(users, u) ==
    IF u = NONE THEN users
    ELSE [users EXCEPT ![u] = [@ EXCEPT !.iterator_target = TRUE]]

\* Mutant: the second list is not visited.
EnterObject_CachedOnly(o, loop) ==
    LET u == IF o = NONE THEN NONE ELSE First(object[o].users)
    IN  /\ ctl' = IF o = NONE THEN Idle ELSE EnterUser(object, o, u, loop)
        /\ user' = Targeted(user, u)

\* Begin with object o of the loop; at the end of loop 1 loop 2 begins.
EnterObject(o, loop) ==
    LET second == loop = 1 /\ o = NONE
        obj == IF second THEN First(uncached) ELSE o
        u == IF obj = NONE THEN NONE ELSE First(object[obj].users)
    IN  /\ ctl' = IF obj = NONE THEN Idle
                  ELSE EnterUser(object, obj, u, IF second THEN 2 ELSE loop)
        /\ user' = Targeted(user, u)

llcache_catch_up_all_users ==
    /\ ~fault /\ ctl.kind = "idle" /\ ~all_caught_up
    /\ all_caught_up' = TRUE
    /\ EnterObject(First(cached), 1)
    /\ UNCHANGED <<object, cached, uncached, fault>>

\* object = object->next, in whichever list the object is in by now.
NextObject ==
    /\ ~fault /\ ctl.kind = "pass" /\ ctl.cur = NONE
    /\ LET list == IF ctl.obj \in Elems(cached) THEN cached ELSE uncached
       IN  EnterObject(Successor(list, ctl.obj), ctl.loop)
    /\ UNCHANGED <<object, cached, uncached, all_caught_up, fault>>

\* llcache_object_notify_users(): what the user has to be told next, with the
\* handle's state h and the object state read when its turn began.
Due(h, o, objstate) ==
    LET r == object[o]
    IN  CASE h.state = INIT /\ objstate > INIT /\ r.chain -> "GOT_CERTS"
          [] h.state <= HEADERS /\ objstate > HEADERS /\ ~(h.state = INIT /\ r.chain)
                -> "HAD_HEADERS"
          [] h.state = DATA /\ objstate >= DATA /\ r.len > h.bytes -> "HAD_DATA"
          [] h.state = DATA /\ objstate > DATA /\ r.len <= h.bytes -> "DONE"
          [] OTHER -> NONE

\* Call the user with the next event; the handle advances before the call.
\* A streaming object forgets its data.
NotifyUser ==
    /\ ~fault /\ ctl.kind = "pass" /\ ctl.cur # NONE /\ ctl.call = NONE
    /\ LET u == ctl.cur
           o == ctl.obj
           h == user[u]
           call == Due(h, o, ctl.objstate)
           read == IF object[o].stream THEN 0 ELSE object[o].len
       IN  /\ call # NONE
           /\ user' = [user EXCEPT ![u] = [@ EXCEPT
                           !.state = CASE call = "GOT_CERTS" -> HEADERS
                                       [] call = "DONE" -> COMPLETE
                                       [] OTHER -> DATA,
                           !.bytes = IF call = "HAD_DATA" THEN read ELSE h.bytes]]
           /\ object' = IF call = "HAD_DATA"
                        THEN [object EXCEPT ![o] = [@ EXCEPT !.len = read]]
                        ELSE object
           /\ ctl' = [ctl EXCEPT !.call = call,
                                 !.orig = IF object[o].stream THEN 0 ELSE h.bytes]
    /\ UNCHANGED <<cached, uncached, all_caught_up, fault>>

\* Nothing (more) to tell: on to the next user.
NextUser ==
    /\ ~fault /\ ctl.kind = "pass" /\ ctl.cur # NONE /\ ctl.call = NONE
    /\ LET u == ctl.cur
           o == ctl.obj
           next == Successor(object[o].users, u)
           h == user[u]
       IN  /\ Due(h, o, ctl.objstate) = NONE
           /\ user' = Targeted([user EXCEPT ![u] = [@ EXCEPT
                           !.iterator_target = FALSE,
                           !.state = IF h.state = INIT /\ ctl.objstate > INIT
                                     THEN HEADERS ELSE h.state]],
                               next)
           /\ ctl' = EnterUser(object, o, next, ctl.loop)
    /\ UNCHANGED <<object, cached, uncached, all_caught_up, fault>>

\* The handle of a user that asked for a replay.
Replayed(h) == [h EXCEPT !.state = CASE ctl.call \in {"GOT_CERTS", "HAD_HEADERS"} -> HEADERS
                                     [] OTHER -> DATA,
                         !.bytes = IF ctl.call = "HAD_DATA" THEN ctl.orig ELSE @]

\* The callback returns r.  A user released meanwhile is destroyed; one that
\* needs more data is told again in another pass; an error ends the turn of
\* the object.
NotifyReturns(r) ==
    /\ ~fault /\ ctl.kind = "pass" /\ ctl.call # NONE
    /\ LET u == ctl.cur
           o == ctl.obj
           gone == user[u].queued_for_delete
           replay == ~gone /\ r = "need_data"
           next == IF r = "ok" \/ replay THEN Successor(object[o].users, u) ELSE NONE
           released == [user EXCEPT ![u] =
                           IF gone THEN FreeUser
                           ELSE [IF replay THEN Replayed(@) ELSE @
                                     EXCEPT !.iterator_target = FALSE]]
       IN  /\ object' = IF gone THEN RemoveUser(object, o, u) ELSE object
           /\ IF ~gone /\ r = "ok"
              THEN /\ ctl' = [ctl EXCEPT !.call = NONE]
                   /\ UNCHANGED user
              ELSE /\ ctl' = EnterUser(object, o, next, ctl.loop)
                   /\ user' = Targeted(released, next)
           /\ all_caught_up' = (all_caught_up /\ ~replay)
    /\ UNCHANGED <<cached, uncached, fault>>

-----------------------------------------------------------------------------
(* The public interface, called by the client.                             *)

Calls(op) == ClientRuns /\ op \in Operations

\* The client may use the handle of u: it has not released it.
Holds(u) == user[u].handle /\ ~user[u].queued_for_delete

FreeUsers == { u \in Users : user[u].object = NONE }

llcache_handle_retrieve(u, url, mode) ==
    /\ Calls("retrieve")
    /\ u \in FreeUsers
    /\ \E res \in Retrieved(url, mode, 0) :
          /\ object' = AddUser(res.object, res.o, u)
          /\ user' = [user EXCEPT ![u] = NewUser(res.o)]
          /\ cached' = res.cached
          /\ uncached' = res.uncached
    /\ NotCaughtUp
    /\ UNCHANGED <<ctl, fault>>

llcache_handle_release(u) ==
    /\ Calls("release")
    /\ Holds(u)
    /\ IF user[u].iterator_target
       THEN /\ user' = [user EXCEPT ![u] = [@ EXCEPT !.queued_for_delete = TRUE]]
            /\ UNCHANGED object
       ELSE /\ user' = [user EXCEPT ![u] = FreeUser]
            /\ object' = RemoveUser(object, user[u].object, u)
    /\ UNCHANGED <<cached, uncached, all_caught_up, ctl, fault>>

\* The new handle has the state of the old one but starts with no data read.
llcache_handle_clone(u, v) ==
    /\ Calls("clone")
    /\ Holds(u)
    /\ v \in FreeUsers
    /\ LET o == user[u].object
       IN  /\ object' = AddUser(object, o, v)
           /\ user' = [user EXCEPT ![v] = [NewUser(o) EXCEPT !.state = user[u].state,
                                                             !.trusting = user[u].trusting]]
    /\ UNCHANGED <<cached, uncached, all_caught_up, ctl, fault>>

\* The only user: stop the fetch.
AbortAlone(u) ==
    /\ Calls("abort")
    /\ Holds(u)
    /\ LET o == user[u].object
       IN  /\ Len(object[o].users) = 1
           /\ object' = [object EXCEPT ![o] = Ended(@)]
    /\ user' = [user EXCEPT ![u] = [@ EXCEPT !.trusting = FALSE]]
    /\ UNCHANGED <<cached, uncached, all_caught_up, ctl, fault>>

\* One of several: the handle moves to a snapshot s of the object, with the
\* user, or with a new user v when the user is being called back.
AbortShared(u, s, v) ==
    /\ Calls("abort")
    /\ Holds(u)
    /\ ~object[s].used
    /\ LET o == user[u].object
           r == object[o]
           snapshot == [NewObject(r.url, "get", 0) EXCEPT
                           !.len = r.len, !.body = r.body, !.chain = r.chain,
                           !.state = COMPLETE, !.retries_remaining = 0]
           moved == [user[u] EXCEPT !.object = s, !.trusting = FALSE,
                                    !.iterator_target = FALSE]
       IN  /\ Len(r.users) > 1
           /\ IF user[u].iterator_target
              THEN /\ v \in FreeUsers
                   /\ user' = [user EXCEPT ![v] = moved,
                                           ![u] = [@ EXCEPT !.handle = FALSE,
                                                            !.queued_for_delete = TRUE]]
                   /\ object' = AddUser([object EXCEPT ![s] = snapshot], s, v)
              ELSE /\ v = u
                   /\ user' = [user EXCEPT ![u] = moved]
                   /\ object' = AddUser(RemoveUser([object EXCEPT ![s] = snapshot], o, u), s, u)
    /\ uncached' = <<s>> \o uncached
    /\ UNCHANGED <<cached, all_caught_up, ctl, fault>>

\* Only a handle that is alone on its object can stream.
llcache_handle_force_stream(u) ==
    /\ Calls("force_stream")
    /\ Holds(u)
    /\ LET o == user[u].object
       IN  /\ Len(object[o].users) = 1
           /\ object' = [object EXCEPT ![o] = [@ EXCEPT !.stream = TRUE]]
           /\ IF o \in Elems(cached)
              THEN cached' = Without(cached, o) /\ uncached' = <<o>> \o uncached
              ELSE UNCHANGED <<cached, uncached>>
    /\ UNCHANGED <<user, all_caught_up, ctl, fault>>

llcache_handle_invalidate_cache_data(u) ==
    /\ Calls("invalidate")
    /\ Holds(u)
    /\ LET o == user[u].object
       IN  /\ object[o].fetch = "none"
           /\ object[o].cache.no_cache = "FRESH"
           /\ object' = [object EXCEPT ![o] = [@ EXCEPT
                             !.cache = [object[o].cache EXCEPT !.no_cache = "ONCE"]]]
    /\ UNCHANGED <<user, cached, uncached, all_caught_up, ctl, fault>>

\* Time passes: the lifetime of a response runs out.
Expires(o) ==
    /\ ~fault /\ ctl.kind = "idle"
    /\ object[o].cache.life
    /\ object' = [object EXCEPT ![o] = [@ EXCEPT
                     !.cache = [object[o].cache EXCEPT !.life = FALSE]]]
    /\ UNCHANGED <<user, cached, uncached, all_caught_up, ctl, fault>>

-----------------------------------------------------------------------------
Message(o) ==
    \/ \E c \in Responses : Header(o, c)
    \/ \E b \in BOOLEAN : Data(o, b)
    \/ \E msg \in {"HEADER", "DATA"}, b \in BOOLEAN : NoMemory(o, msg, b)
    \/ Finished(o)
    \/ \E msg \in {"PROGRESS", "CERTS"} : Inform(o, msg)
    \/ \E msg \in {"ERROR", "CERT_ERR"} : Fails(o, msg)
    \/ TimedOut(o)
    \/ \E msg \in {"AUTH", "SSL_ERR"}, again \in BOOLEAN : Retries(o, msg, again)
    \/ \E life \in BOOLEAN : NotModified(o, life)
    \/ \E url \in Urls, mode \in Modes \cup {"get"}, ok \in BOOLEAN : Redirect(o, url, mode, ok)

Client ==
    \/ \E u \in Users, url \in Urls, mode \in Modes : llcache_handle_retrieve(u, url, mode)
    \/ \E u \in Users : llcache_handle_release(u)
    \/ \E u, v \in Users : llcache_handle_clone(u, v)
    \/ \E u \in Users : AbortAlone(u)
    \/ \E u, v \in Users, s \in Objects : AbortShared(u, s, v)
    \/ \E u \in Users : llcache_handle_force_stream(u)
    \/ \E u \in Users : llcache_handle_invalidate_cache_data(u)

\* A callback returns, or the code goes on.
Continue ==
    \/ \E r \in Returns : EventReturns(r)
    \/ FollowRedirect
    \/ EventDone
    \/ NextObject
    \/ NotifyUser
    \/ NextUser
    \/ \E r \in Returns : NotifyReturns(r)

Next == \/ \E o \in Objects : Message(o) \/ Expires(o)
        \/ llcache_catch_up_all_users
        \/ Continue
        \/ Client
        \/ llcache_clean

Spec == Init /\ [][Next]_vars

\* A scheduled pass starts (gui_misc_schedule() keeps its promise), the code
\* goes on when a callback has returned, and callbacks return.
FairSpec == Spec /\ SF_vars(llcache_catch_up_all_users) /\ WF_vars(Continue)

-----------------------------------------------------------------------------
(* Properties.                                                             *)

ObjectRecord ==
    [used : BOOLEAN, url : Urls \cup {NONE}, mode : {"get", "force", "post"},
     users : Seq(Users), fetch : {"none", "running", "ended"}, state : INIT..COMPLETE,
     len : 0..MaxLen, body : {"none", "part", "old", "whole", "mixed"}, cache : CacheControl,
     conditional : BOOLEAN, candidate : Objects \cup {NONE}, candidate_count : Nat,
     redirect_count : Nat, retries_remaining : Nat, tried_with_auth : BOOLEAN,
     tried_with_tls_downgrade : BOOLEAN, stream : BOOLEAN, chain : BOOLEAN]

UserRecord ==
    [object : Objects \cup {NONE}, handle : BOOLEAN, state : INIT..COMPLETE, bytes : 0..MaxLen,
     iterator_target : BOOLEAN, queued_for_delete : BOOLEAN, trusting : BOOLEAN]

ControlRecord ==
    {Idle}
    \cup [kind : {"event"}, obj : Objects,
          type : {"PROGRESS", "CERTS", "ERROR", "REDIRECT", "none"},
          cur : Users \cup {NONE}, err : {"ok", "need_data", "error", "nomem"},
          then : {NONE} \cup [url : Urls, mode : {"get", "force", "post"}]]
    \cup [kind : {"pass"}, loop : {1, 2}, obj : Objects, cur : Users \cup {NONE},
          objstate : INIT..COMPLETE, orig : 0..MaxLen,
          call : {NONE, "GOT_CERTS", "HAD_HEADERS", "HAD_DATA", "DONE"}]

TypeOK == /\ object \in [Objects -> ObjectRecord]
          /\ user \in [Users -> UserRecord]
          /\ cached \in Seq(Objects) /\ uncached \in Seq(Objects)
          /\ all_caught_up \in BOOLEAN
          /\ ctl \in ControlRecord
          /\ fault \in BOOLEAN

\* A user marked for deletion, or kept without its handle, is the one being
\* called back: when the call returns nothing of it is left behind.
OnlyTheTargetLingers ==
    \A u \in Users :
        user[u].iterator_target \/ user[u].queued_for_delete
            => ctl.kind # "idle" /\ ctl.cur = u

\* Users that are released, moved and called at the same time: a user is in
\* the list of one object, the one its handle names, every object that has
\* users, or a fetch that will call back, is in the cache, and no user that
\* was released in a callback outlives the call.
UsersConsistent ==
    /\ \A o \in Objects : \A i, j \in 1..Len(object[o].users) :
          /\ user[object[o].users[i]].object = o
          /\ object[o].users[i] = object[o].users[j] => i = j
    /\ \A u \in Users : user[u].object # NONE => u \in Elems(object[user[u].object].users)
    /\ \A o \in Objects : object[o].used <=> o \in Elems(cached) \cup Elems(uncached)
    /\ OnlyTheTargetLingers

\* The object to fall back to when the server says that nothing changed is
\* still there, and knows how many objects rely on it at least.
CandidatesExist ==
    \A o \in Objects :
        /\ object[o].candidate # NONE => object[object[o].candidate].used
        /\ object[o].candidate_count >=
              Cardinality({ p \in Objects : object[p].candidate = o })

\* A chain of redirects ends: at most one more than the limit is followed.
RedirectsBounded ==
    \A o \in Objects : object[o].redirect_count <= fetch_redirect_limit + 1

\* llcache_object.candidate_count: "Count of objects this is a candidate for".
CandidateCountExact ==
    \A o \in Objects :
        object[o].candidate_count = Cardinality({ p \in Objects : object[p].candidate = o })

\* llcache_clean(): "The candidate count of uncacheable objects is always 0".
UncachedNotCandidate == \A o \in Elems(uncached) : object[o].candidate_count = 0

\* all_caught_up is what its name says when the event loop is idle: no user
\* has anything left to be told.
CaughtUp ==
    ctl.kind = "idle" /\ all_caught_up =>
        \A u \in Users : user[u].object # NONE
            => Due(user[u], user[u].object, object[user[u].object].state) = NONE

\* A client that is told DONE, that was told of no error and did not abort,
\* has been given one response, whole.
BodyIntact ==
    \A u \in Users :
        user[u].object # NONE /\ user[u].state = COMPLETE /\ user[u].trusting
            => object[user[u].object].body = "whole"

\* Nothing is used after it was freed.
NoFault == ~fault

\* A user whose object is complete is not left waiting for the news.
Behind(u) ==
    /\ user[u].object # NONE
    /\ object[user[u].object].state = COMPLETE
    /\ user[u].state # COMPLETE

NoneLeftBehind == \A u \in Users : []<>~Behind(u)

=============================================================================
