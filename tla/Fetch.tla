------------------------------- MODULE Fetch -------------------------------
(***************************************************************************)
(* The fetch layer: the scheduler of content/fetch.c (queue ring, active   *)
(* ring, dispatch under the overall and the per-host limit, polling) with  *)
(* the two forms a fetcher takes: the cURL fetcher, fetchers/curl.c, whose *)
(* callbacks run inside libcurl, and the self-contained fetchers that work *)
(* through a ring of their own when polled, here fetchers/data.c.          *)
(*                                                                         *)
(* Everything runs in one thread; the interleavings come from re-entrancy. *)
(* A poll sends messages to the client's callback, and the callback may    *)
(* start new fetches and abort any fetch it holds, the one it is being     *)
(* told about included.  A message being delivered is the variable cb; the *)
(* rest of the poll waits in phase and job until the callback returns.     *)
(*                                                                         *)
(* The client is the low-level cache (content/llcache.c): it forgets a     *)
(* fetch when told that it completed, and aborts it when told of a         *)
(* redirect, an unchanged document or an authentication request.           *)
(***************************************************************************)
EXTENDS Integers, Sequences, FiniteSets

CONSTANTS
    Fetches,               \* bound: addresses of struct fetch
    Hosts,                 \* host names of network URLs
    NoHost,                \* the null host of data:, file:, resource: ... URLs
    max_fetchers,          \* option: fetches active at a time
    max_fetchers_per_host, \* option: fetches active at a time for one host
    Certs,                 \* built WITH_OPENSSL: certificate chains are collected
    NONE                   \* no message, no job

ASSUME FetchAssumption ==
    /\ IsFiniteSet(Fetches)
    /\ NoHost \notin Hosts
    /\ max_fetchers \in Nat /\ max_fetchers_per_host \in Nat
    /\ Certs \in BOOLEAN

VARIABLES
    fetch,       \* struct fetch and the fetcher's own structure, per address
    queue_ring,  \* queued fetches, oldest first
    fetch_ring,  \* active fetches
    ring,        \* data.c: fetches its poll has still to process
    refcount,    \* per fetcher
    inside_curl, \* curl.c: libcurl may be on the stack
    disp,        \* who runs fetch_dispatch_jobs(): "no", "start", "poll", "fdset"
    phase,       \* where the poll is: "idle", "perform", "info", "data"
    poller,      \* who polls: "no", "poll", "fdset"
    job,         \* the completed fetch the poll is working on
    cb,          \* the message being delivered
    polled,      \* fetcher_poll() is scheduled
    held,        \* fetches the client has a pointer to
    fault        \* an unlinked or freed fetch has been unlinked or used

vars == <<fetch, queue_ring, fetch_ring, ring, refcount, inside_curl, disp, phase, poller,
          job, cb, polled, held, fault>>

Kinds == {"curl", "data"}

\* fetch_msg_type; last_msg only tells whether a message at or above
\* FETCH_MIN_FINISHED_MSG has been sent or the fetch aborted ("completed").
Progressing == {"PROGRESS", "CERTS", "HEADER", "DATA"}
AbortOn == {"REDIRECT", "NOTMODIFIED", "AUTH"}
ForgetOn == {"FINISHED", "TIMEDOUT", "ERROR", "CERT_ERR", "SSL_ERR"}
Messages == Progressing \cup AbortOn \cup ForgetOn

\* Outcome of a transfer as libcurl reports it; "none": still running.
Results == {"OK", "PARTIAL_FILE", "WRITE_ERROR", "CERT", "SSL_CONNECT", "TIMEDOUT", "FAILED"}

Free == [used |-> FALSE, kind |-> "data", host |-> NoHost, fetch_is_active |-> FALSE,
         completed |-> FALSE, curl_handle |-> FALSE, abort |-> FALSE, stopped |-> FALSE,
         had_headers |-> FALSE, sent_ssl_chain |-> FALSE, result |-> "none"]

New(k, h) == [Free EXCEPT !.used = TRUE, !.kind = k, !.host = h]

Init == /\ fetch = [f \in Fetches |-> Free]
        /\ queue_ring = << >>
        /\ fetch_ring = {}
        /\ ring = << >>
        /\ refcount = [k \in Kinds |-> 1]
        /\ inside_curl = FALSE
        /\ disp = "no"
        /\ phase = "idle"
        /\ poller = "no"
        /\ job = NONE
        /\ cb = NONE
        /\ polled = FALSE
        /\ held = {}
        /\ fault = FALSE

-----------------------------------------------------------------------------
(* Rings, messages and freeing.                                            *)

Drop(s, i) == [j \in 1..(Len(s) - 1) |-> IF j < i THEN s[j] ELSE s[j + 1]]

Indices(s, f) == { i \in 1..Len(s) : s[i] = f }

\* The client code can run: the event loop is idle or a callback executes.
ClientRuns == ~fault /\ disp = "no" /\ (phase = "idle" \/ cb # NONE)

\* The poll can go on.
PollRuns == ~fault /\ disp = "no" /\ cb = NONE

\* fetch_send_callback(): record r after a message of type t.
Told(r, t) == [r EXCEPT !.completed = @ \/ t \notin Progressing]

\* The message, what the sender does when the callback returns, and whether
\* the client still wants to hear of the fetch.
Deliver(f, t, next) ==
    /\ cb' = [fetch |-> f, type |-> t, next |-> next, wanted |-> f \in held]
    /\ held' = IF t \in ForgetOn THEN held \ {f} ELSE held

\* fetch_remove_from_queues(): which ring is decided by fetch_is_active.
\* RING_REMOVE of an unlinked element is a fault.
fetch_remove_from_queues(f) ==
    IF fetch[f].fetch_is_active
    THEN /\ fetch_ring' = fetch_ring \ {f}
         /\ UNCHANGED queue_ring
         /\ fault' = (f \notin fetch_ring)
    ELSE /\ UNCHANGED fetch_ring
         /\ IF Indices(queue_ring, f) = {}
            THEN UNCHANGED queue_ring /\ fault' = TRUE
            ELSE /\ \E i \in Indices(queue_ring, f) : queue_ring' = Drop(queue_ring, i)
                 /\ UNCHANGED fault

\* Mutant: the reference on the fetcher is not given back.
fetch_free_KeepsRef(f) ==
    /\ fetch' = [fetch EXCEPT ![f] = Free]
    /\ UNCHANGED refcount

\* fetch_free() once the client has been told: ops.free and the reference.
fetch_free(f) ==
    /\ fetch' = [fetch EXCEPT ![f] = Free]
    /\ refcount' = [refcount EXCEPT ![fetch[f].kind] = @ - 1]

-----------------------------------------------------------------------------
(* Starting and aborting: calls of the client.                             *)

\* fetch_start(): set up, reference the fetcher, queue, and dispatch.  A
\* fetch that cannot be set up changes nothing.
fetch_start(f, k, h) ==
    /\ ClientRuns
    /\ ~fetch[f].used
    /\ (h = NoHost) = (k = "data")
    /\ fetch' = [fetch EXCEPT ![f] = New(k, h)]
    /\ refcount' = [refcount EXCEPT ![k] = @ + 1]
    /\ ring' = IF k = "data" THEN Append(ring, f) ELSE ring
    /\ queue_ring' = Append(queue_ring, f)
    /\ held' = held \cup {f}
    /\ disp' = "start"
    /\ UNCHANGED <<fetch_ring, inside_curl, phase, poller, job, cb, polled, fault>>

\* fetch_abort() of a fetch libcurl may be working on, or that has a ring of
\* its own: only flagged, the poll cleans up.
AbortDeferred(f) ==
    /\ ClientRuns
    /\ f \in held
    /\ fetch[f].kind = "data" \/ (fetch[f].curl_handle /\ inside_curl)
    /\ fetch' = [fetch EXCEPT ![f] = [@ EXCEPT !.completed = TRUE, !.abort = TRUE]]
    /\ held' = held \ {f}
    /\ UNCHANGED <<queue_ring, fetch_ring, ring, refcount, inside_curl, disp, phase, poller,
                   job, cb, polled, fault>>

\* Mutant: the abort does not look at inside_curl.
AbortNow_InsideCurl(f) ==
    /\ ClientRuns
    /\ f \in held
    /\ fetch[f].kind = "curl"
    /\ fetch_remove_from_queues(f)
    /\ fetch_free(f)
    /\ held' = held \ {f}
    /\ UNCHANGED <<ring, inside_curl, disp, phase, poller, job, cb, polled>>

\* fetch_abort() otherwise: fetch_curl_stop() or, for a queued fetch, only
\* the unlinking; then it is freed.  Freeing the fetch that the poll is
\* about to free again is a fault.
AbortNow(f) ==
    /\ ClientRuns
    /\ f \in held
    /\ fetch[f].kind = "curl"
    /\ fetch[f].curl_handle => ~inside_curl
    /\ fetch_remove_from_queues(f)
    /\ fetch_free(f)
    /\ held' = held \ {f}
    /\ UNCHANGED <<ring, inside_curl, disp, phase, poller, job, cb, polled>>

-----------------------------------------------------------------------------
(* fetch_dispatch_jobs().                                                  *)

CountByHost(h) == Cardinality({ f \in fetch_ring : fetch[f].host = h })

\* Mutant: one more than the option allows.
HasRoom_OneMore(i) == CountByHost(fetch[queue_ring[i]].host) <= max_fetchers_per_host


HasRoom(i) == CountByHost(fetch[queue_ring[i]].host) < max_fetchers_per_host

\* The item fetch_choose_and_dispatch() selects: the first whose host has
\* room.  (It skips runs of items of the same host, which have none either.)
Chosen(i) == /\ i \in 1..Len(queue_ring)
             /\ HasRoom(i)
             /\ \A j \in 1..(i - 1) : ~HasRoom(j)

MayDispatch == Cardinality(fetch_ring) < max_fetchers

\* What the caller of fetch_dispatch_jobs() does with the result.
EndDispatch ==
    /\ disp' = "no"
    /\ IF disp = "start"
       THEN /\ polled' = (polled \/ fetch_ring # {})
            /\ UNCHANGED <<phase, poller, inside_curl>>
       ELSE /\ UNCHANGED polled
            /\ IF fetch_ring # {}
               THEN phase' = "perform" /\ poller' = disp /\ inside_curl' = TRUE
               ELSE UNCHANGED <<phase, poller, inside_curl>>

\* Mutant: fetch_is_active is not set.
DispatchStarted_NotActive(i) ==
    /\ disp # "no"
    /\ MayDispatch
    /\ Chosen(i)
    /\ fetch[queue_ring[i]].kind = "curl" => ~inside_curl
    /\ queue_ring' = Drop(queue_ring, i)
    /\ fetch_ring' = fetch_ring \cup {queue_ring[i]}
    /\ fetch' = [fetch EXCEPT ![queue_ring[i]] = [@ EXCEPT !.curl_handle = (fetch[queue_ring[i]].kind = "curl")]]
    /\ UNCHANGED <<ring, refcount, inside_curl, disp, phase, poller, job, cb, polled, held, fault>>

\* ops.start succeeds.  The cURL fetcher starts nothing from inside libcurl.
DispatchStarted(i) ==
    /\ disp # "no"
    /\ MayDispatch
    /\ Chosen(i)
    /\ fetch[queue_ring[i]].kind = "curl" => ~inside_curl
    /\ queue_ring' = Drop(queue_ring, i)
    /\ fetch_ring' = fetch_ring \cup {queue_ring[i]}
    /\ fetch' = [fetch EXCEPT ![queue_ring[i]] =
                   [@ EXCEPT !.fetch_is_active = TRUE, !.curl_handle = (fetch[queue_ring[i]].kind = "curl")]]
    /\ UNCHANGED <<ring, refcount, inside_curl, disp, phase, poller, job, cb, polled, held, fault>>

\* ops.start fails (inside libcurl, or a handle that cannot be configured):
\* the item goes to the end of the queue and dispatching stops.
DispatchDeferred(i) ==
    /\ disp # "no"
    /\ MayDispatch
    /\ Chosen(i)
    /\ fetch[queue_ring[i]].kind = "curl"
    /\ queue_ring' = Append(Drop(queue_ring, i), queue_ring[i])
    /\ EndDispatch
    /\ UNCHANGED <<fetch, fetch_ring, ring, refcount, job, cb, held, fault>>

\* Nothing more can be dispatched.
DispatchDone ==
    /\ disp # "no"
    /\ ~MayDispatch \/ \A i \in 1..Len(queue_ring) : ~HasRoom(i)
    /\ EndDispatch
    /\ UNCHANGED <<fetch, queue_ring, fetch_ring, ring, refcount, job, cb, held, fault>>

\* The scheduled fetcher_poll().
fetcher_poll ==
    /\ PollRuns
    /\ phase = "idle"
    /\ polled
    /\ polled' = FALSE
    /\ disp' = "poll"
    /\ UNCHANGED <<fetch, queue_ring, fetch_ring, ring, refcount, inside_curl, phase, poller,
                   job, cb, held, fault>>

\* The front end's pump, on its heartbeat or a socket event.
fetch_fdset ==
    /\ PollRuns
    /\ phase = "idle"
    /\ disp' = "fdset"
    /\ UNCHANGED <<fetch, queue_ring, fetch_ring, ring, refcount, inside_curl, phase, poller,
                   job, cb, polled, held, fault>>

-----------------------------------------------------------------------------
(* curl_multi_perform(): libcurl calls the fetcher back for any transfer   *)
(* that is running.                                                        *)

Performing(f) == /\ PollRuns
                 /\ phase = "perform"
                 /\ fetch[f].curl_handle
                 /\ fetch[f].result = "none"

quietInPoll == <<queue_ring, fetch_ring, ring, refcount, inside_curl, disp, phase, poller,
                 job, polled, fault>>

\* Returning 0 from a callback ends the transfer with CURLE_WRITE_ERROR.
Stop(r) == [r EXCEPT !.stopped = TRUE, !.result = "WRITE_ERROR"]

\* fetch_curl_progress(), when it is not rate limited.
fetch_curl_progress(f) ==
    /\ Performing(f)
    /\ ~fetch[f].abort
    /\ Deliver(f, "PROGRESS", "nothing")
    /\ UNCHANGED <<fetch, quietInPoll>>

\* fetch_curl_header(): the certificate chain goes before the first header.
fetch_curl_header(f) ==
    /\ Performing(f)
    /\ IF fetch[f].abort
       THEN /\ fetch' = [fetch EXCEPT ![f] = Stop(@)]
            /\ UNCHANGED <<cb, held>>
       ELSE /\ IF Certs /\ ~fetch[f].sent_ssl_chain
               THEN Deliver(f, "CERTS", "header")
               ELSE Deliver(f, "HEADER", "nothing")
            /\ fetch' = [fetch EXCEPT ![f] = [@ EXCEPT !.sent_ssl_chain = TRUE]]
    /\ UNCHANGED quietInPoll

\* What fetch_curl_process_headers() tells the client, by the response code:
\* "go on" for nothing.
HeaderOutcomes == {"go on", "NOTMODIFIED", "REDIRECT", "AUTH", "ERROR"}

\* fetch_curl_data().  The body of a 401 reply is skipped, so FETCH_AUTH
\* cannot come from here.
fetch_curl_data(f, o) ==
    /\ Performing(f)
    /\ \/ /\ fetch[f].abort
          /\ o = "go on"
          /\ fetch' = [fetch EXCEPT ![f] = Stop(@)]
          /\ UNCHANGED <<cb, held>>
       \/ /\ ~fetch[f].abort
          /\ o = "go on"
          /\ fetch' = [fetch EXCEPT ![f] = [@ EXCEPT !.had_headers = TRUE]]
          /\ Deliver(f, "DATA", "stop if aborted")
       \/ /\ ~fetch[f].abort
          /\ ~fetch[f].had_headers
          /\ o \in HeaderOutcomes \ {"go on", "AUTH"}
          /\ fetch' = [fetch EXCEPT ![f] = Told([@ EXCEPT !.had_headers = TRUE], o)]
          /\ Deliver(f, o, "stop")
    /\ UNCHANGED quietInPoll

\* libcurl reaches the end of a transfer, for whatever reason.
TransferEnds(f, r) ==
    /\ Performing(f)
    /\ fetch' = [fetch EXCEPT ![f] = [@ EXCEPT !.result = r]]
    /\ UNCHANGED <<cb, held, quietInPoll>>

\* curl_multi_perform() returns.
PerformReturns ==
    /\ PollRuns
    /\ phase = "perform"
    /\ phase' = "info"
    /\ UNCHANGED <<fetch, queue_ring, fetch_ring, ring, refcount, inside_curl, disp, poller,
                   job, cb, polled, held, fault>>

\* curl_multi_perform() reports that it could not run some transfer:
\* fetch_curl_poll() returns at once and leaves inside_curl set.
PerformFails ==
    /\ PollRuns
    /\ phase = "perform"
    /\ \E f \in Fetches : fetch[f].curl_handle
    /\ phase' = "data"
    /\ UNCHANGED <<fetch, queue_ring, fetch_ring, ring, refcount, inside_curl, disp, poller,
                   job, cb, polled, held, fault>>

-----------------------------------------------------------------------------
(* The callback returns to its sender.                                     *)

\* The client aborts a fetch that was redirected, not modified or refused
\* before it returns.
ClientReturns ==
    /\ ~fault
    /\ disp = "no"
    /\ cb # NONE
    /\ ~(cb.type \in AbortOn /\ cb.fetch \in held)
    /\ IF cb.next = "header"
       THEN /\ cb' = [cb EXCEPT !.type = "HEADER", !.next = "nothing",
                                !.wanted = cb.fetch \in held]
            /\ UNCHANGED fetch
       ELSE /\ cb' = NONE
            /\ IF cb.next = "stop" \/ (cb.next = "stop if aborted" /\ fetch[cb.fetch].abort)
               THEN fetch' = [fetch EXCEPT ![cb.fetch] = Stop(@)]
               ELSE UNCHANGED fetch
    /\ UNCHANGED <<held, quietInPoll>>

-----------------------------------------------------------------------------
(* Completed transfers: fetch_curl_done() looks at the headers if no data  *)
(* came, stops the transfer, reports certificates, tells the client the    *)
(* outcome and frees the fetch.                                            *)

\* Mutant: the message carries libcurl's code.
OutcomeOf_Raw == [r \in Results |-> r]


OutcomeOf == [OK |-> "FINISHED", PARTIAL_FILE |-> "FINISHED", WRITE_ERROR |-> "FINISHED",
              CERT |-> "CERT_ERR", SSL_CONNECT |-> "SSL_ERR", TIMEDOUT |-> "TIMEDOUT",
              FAILED |-> "ERROR"]

\* Mutant: a time-out is not told.
Outcome_NoTimeout(r, headersSaid) ==
    IF r.abort \/ headersSaid \/ r.result = "TIMEDOUT"
         \/ (r.stopped /\ r.result \in {"OK", "WRITE_ERROR"})
    THEN << >>
    ELSE << OutcomeOf[r.result] >>

\* What is left to tell once the transfer is stopped: nothing if the fetch was
\* aborted, was stopped on purpose, or the headers said it already.
Outcome(r, headersSaid) ==
    IF r.abort \/ headersSaid \/ (r.stopped /\ r.result \in {"OK", "WRITE_ERROR"})
    THEN << >>
    ELSE << OutcomeOf[r.result] >>

LooksAtHeaders(r) ==
    /\ ~r.had_headers
    /\ \/ r.result = "PARTIAL_FILE"
       \/ ~r.abort /\ ~r.stopped /\ r.result \in {"OK", "WRITE_ERROR"}

\* Mutant: what the headers say is recorded as sent, and is not sent.
fetch_curl_done_Lost(f, o) ==
    /\ PollRuns
    /\ phase = "info"
    /\ job = NONE
    /\ fetch[f].curl_handle
    /\ fetch[f].result # "none"
    /\ o # "go on" => LooksAtHeaders(fetch[f])
    /\ job' = [fetch |-> f, step |-> "stop", tell |-> Outcome(fetch[f], o # "go on")]
    /\ fetch' = [fetch EXCEPT ![f].completed = @ \/ o # "go on"]
    /\ UNCHANGED <<queue_ring, fetch_ring, ring, refcount, inside_curl, disp, phase, poller,
                   cb, polled, held, fault>>


fetch_curl_done(f, o) ==
    /\ PollRuns
    /\ phase = "info"
    /\ job = NONE
    /\ fetch[f].curl_handle
    /\ fetch[f].result # "none"
    /\ o # "go on" => LooksAtHeaders(fetch[f])
    /\ job' = [fetch |-> f, step |-> "stop", tell |-> Outcome(fetch[f], o # "go on")]
    /\ IF o = "go on"
       THEN /\ fetch' = [fetch EXCEPT ![f] =
                          [@ EXCEPT !.had_headers = fetch[f].had_headers \/ LooksAtHeaders(fetch[f])]]
            /\ UNCHANGED <<cb, held>>
       ELSE /\ fetch' = [fetch EXCEPT ![f] = Told([@ EXCEPT !.had_headers = TRUE], o)]
            /\ Deliver(f, o, "nothing")
    /\ UNCHANGED <<queue_ring, fetch_ring, ring, refcount, inside_curl, disp, phase, poller,
                   polled, fault>>

AtStep(s) == PollRuns /\ job # NONE /\ job.step = s

\* fetch_curl_stop(), then the certificates if they were not sent.
fetch_curl_stop ==
    /\ AtStep("stop")
    /\ fetch_remove_from_queues(job.fetch)
    /\ fetch' = [fetch EXCEPT ![job.fetch] =
                   [@ EXCEPT !.curl_handle = FALSE, !.sent_ssl_chain = TRUE]]
    /\ IF Certs /\ ~fetch[job.fetch].sent_ssl_chain
       THEN Deliver(job.fetch, "CERTS", "nothing")
       ELSE UNCHANGED <<cb, held>>
    /\ job' = [job EXCEPT !.step = "tell"]
    /\ UNCHANGED <<ring, refcount, inside_curl, disp, phase, poller, polled>>

\* Mutant: the poll does not look at the flag between messages.
CutShort_Never == FALSE

\* fetch_data_poll() checks before every message whether it was aborted.
CutShort == fetch[job.fetch].kind = "data" /\ fetch[job.fetch].abort

\* The next message about the fetch.
Tell ==
    /\ AtStep("tell")
    /\ job.tell # << >>
    /\ ~CutShort
    /\ fetch' = [fetch EXCEPT ![job.fetch] = Told(@, Head(job.tell))]
    /\ Deliver(job.fetch, Head(job.tell), "nothing")
    /\ job' = [job EXCEPT !.tell = Tail(@)]
    /\ UNCHANGED <<queue_ring, fetch_ring, ring, refcount, inside_curl, disp, phase, poller,
                   polled, fault>>

\* Nothing more to tell; a data fetch is unlinked only now.
ToldAll ==
    /\ AtStep("tell")
    /\ job.tell = << >> \/ CutShort
    /\ IF fetch[job.fetch].kind = "data"
       THEN fetch_remove_from_queues(job.fetch)
       ELSE UNCHANGED <<queue_ring, fetch_ring, fault>>
    /\ job' = [job EXCEPT !.step = "free"]
    /\ UNCHANGED <<fetch, ring, refcount, inside_curl, disp, phase, poller, cb, polled, held>>

\* fetch_free(): a client that was told no outcome gets an error first.
FreeJob ==
    /\ AtStep("free")
    /\ IF fetch[job.fetch].completed
       THEN /\ fetch_free(job.fetch)
            /\ job' = NONE
            /\ UNCHANGED <<cb, held>>
       ELSE /\ fetch' = [fetch EXCEPT ![job.fetch] = [@ EXCEPT !.completed = TRUE]]
            /\ Deliver(job.fetch, "ERROR", "nothing")
            /\ UNCHANGED <<job, refcount>>
    /\ UNCHANGED <<queue_ring, fetch_ring, ring, inside_curl, disp, phase, poller, polled, fault>>

\* Mutant: inside_curl stays set.
InfoDone_StaysInside ==
    /\ PollRuns
    /\ phase = "info"
    /\ job = NONE
    /\ \A f \in Fetches : fetch[f].curl_handle => fetch[f].result = "none"
    /\ phase' = "data"
    /\ UNCHANGED <<fetch, queue_ring, fetch_ring, ring, refcount, inside_curl, disp, poller,
                   job, cb, polled, held, fault>>

\* curl_multi_info_read() has no more messages.
InfoDone ==
    /\ PollRuns
    /\ phase = "info"
    /\ job = NONE
    /\ \A f \in Fetches : fetch[f].curl_handle => fetch[f].result = "none"
    /\ inside_curl' = FALSE
    /\ phase' = "data"
    /\ UNCHANGED <<fetch, queue_ring, fetch_ring, ring, refcount, disp, poller, job, cb,
                   polled, held, fault>>

-----------------------------------------------------------------------------
(* fetch_data_poll().                                                      *)

\* The messages of a data: URL: three headers, the data and the end, or an
\* error if it cannot be decoded.  A Content-Type too long for the header
\* buffer is not sent.
DataMessages == <<"HEADER", "HEADER", "HEADER", "DATA", "FINISHED">>

DataReplies == {DataMessages, Tail(DataMessages), <<"ERROR">>}

\* The first fetch of the ring is taken off and decoded, unless aborted.
fetch_data_process(reply) ==
    /\ PollRuns
    /\ phase = "data"
    /\ job = NONE
    /\ ring # << >>
    /\ fetch[Head(ring)].abort => reply = DataMessages
    /\ ring' = Tail(ring)
    /\ job' = [fetch |-> Head(ring), step |-> "tell", tell |-> reply]
    /\ UNCHANGED <<fetch, queue_ring, fetch_ring, refcount, inside_curl, disp, phase, poller,
                   cb, polled, held, fault>>

\* The ring is empty: the poll is over and is scheduled again (fetch_fdset()
\* does so only when some socket is open).
PollEnds(fds) ==
    /\ PollRuns
    /\ phase = "data"
    /\ job = NONE
    /\ ring = << >>
    /\ poller = "poll" => fds
    /\ polled' = (polled \/ fds)
    /\ phase' = "idle"
    /\ poller' = "no"
    /\ UNCHANGED <<fetch, queue_ring, fetch_ring, ring, refcount, inside_curl, disp, job, cb,
                   held, fault>>

-----------------------------------------------------------------------------

Client == \E f \in Fetches : \/ \E k \in Kinds, h \in Hosts \cup {NoHost} : fetch_start(f, k, h)
                             \/ AbortDeferred(f)
                             \/ AbortNow(f)

Dispatch == \/ \E i \in 1..Len(queue_ring) : DispatchStarted(i) \/ DispatchDeferred(i)
            \/ DispatchDone

Transfer == \E f \in Fetches : \/ fetch_curl_progress(f)
                               \/ fetch_curl_header(f)
                               \/ \E o \in HeaderOutcomes : fetch_curl_data(f, o)
                               \/ \E r \in Results : TransferEnds(f, r)

\* What follows in a poll once libcurl has been called.
PollGoesOn == \/ \E f \in Fetches, o \in HeaderOutcomes : fetch_curl_done(f, o)
              \/ fetch_curl_stop
              \/ Tell
              \/ ToldAll
              \/ FreeJob
              \/ InfoDone
              \/ \E reply \in DataReplies : fetch_data_process(reply)
              \/ \E fds \in BOOLEAN : PollEnds(fds)

Poll == \/ fetcher_poll
        \/ fetch_fdset
        \/ PerformReturns
        \/ PerformFails
        \/ PollGoesOn

Next == Client \/ Dispatch \/ Transfer \/ ClientReturns \/ Poll

Spec == Init /\ [][Next]_vars

\* The client aborts the fetch of the message it is handling.
ClientAnswers == /\ cb # NONE
                 /\ cb.type \in AbortOn
                 /\ AbortDeferred(cb.fetch) \/ AbortNow(cb.fetch)

\* Calls return; the front end's pump beats; libcurl returns to its caller and
\* ends every transfer (it is given time limits); a handle that could not be
\* configured can be in the end.
Fairness == /\ WF_vars(ClientReturns)
            /\ WF_vars(ClientAnswers)
            /\ WF_vars(Dispatch)
            /\ WF_vars(PollGoesOn)
            /\ WF_vars(fetch_fdset)
            /\ SF_vars(PerformReturns)
            /\ \A f \in Fetches :
                 /\ SF_vars(\E r \in Results : TransferEnds(f, r))
                 /\ SF_vars(\E i \in Indices(queue_ring, f) : DispatchStarted(i))

FairSpec == Spec /\ Fairness

-----------------------------------------------------------------------------
(* Properties.                                                             *)

fetch_t == [used: BOOLEAN, kind: Kinds, host: Hosts \cup {NoHost}, fetch_is_active: BOOLEAN,
            completed: BOOLEAN, curl_handle: BOOLEAN, abort: BOOLEAN, stopped: BOOLEAN,
            had_headers: BOOLEAN, sent_ssl_chain: BOOLEAN, result: Results \cup {"none"}]

job_t == [fetch: Fetches, step: {"stop", "tell", "free"}, tell: Seq(Messages)]

cb_t == [fetch: Fetches, type: Messages, wanted: BOOLEAN,
         next: {"nothing", "header", "stop", "stop if aborted"}]

\* NONE is neither a job nor a message.
ASSUME NoneAssumption == NONE \notin job_t /\ NONE \notin cb_t

\* Every variable has its type.
TypeOK == /\ fetch \in [Fetches -> fetch_t]
          /\ queue_ring \in Seq(Fetches)
          /\ fetch_ring \subseteq Fetches
          /\ ring \in Seq(Fetches)
          /\ refcount \in [Kinds -> Int]
          /\ inside_curl \in BOOLEAN
          /\ disp \in {"no", "start", "poll", "fdset"}
          /\ phase \in {"idle", "perform", "info", "data"}
          /\ poller \in {"no", "poll", "fdset"}
          /\ job = NONE \/ job \in job_t
          /\ cb = NONE \/ cb \in cb_t
          /\ polled \in BOOLEAN
          /\ held \subseteq Fetches
          /\ fault \in BOOLEAN

\* The options bound the active fetches, overall and per host, whatever
\* starts, fails, is deferred, aborted or freed in between.
WithinLimits ==
    /\ Cardinality(fetch_ring) <= max_fetchers
    /\ \A h \in Hosts \cup {NoHost} : CountByHost(h) <= max_fetchers_per_host

\* A fetch in a ring is allocated, in one ring only and once, and in the ring
\* its fetch_is_active flag names, which is what fetch_remove_from_queues()
\* relies on.
RingsConsistent ==
    /\ \A f \in fetch_ring : fetch[f].used /\ fetch[f].fetch_is_active
    /\ \A i \in 1..Len(queue_ring) :
          /\ fetch[queue_ring[i]].used /\ ~fetch[queue_ring[i]].fetch_is_active
          /\ \A j \in 1..Len(queue_ring) : queue_ring[i] = queue_ring[j] => i = j

\* No fetch is unlinked twice, or freed twice, however a callback's aborts
\* interleave with the poll that is delivering the message.
NoFault == ~fault

\* The client never keeps a pointer to a freed fetch: it was told the
\* outcome, or aborted the fetch itself, before the fetch layer freed it.
HeldIsUsed == \A f \in held : fetch[f].used

\* fetch_free() never has to make up an error: the fetcher reported an
\* outcome, or the client aborted, on every path that leads there.
OutcomeReported == job # NONE /\ job.step = "free" /\ cb = NONE => fetch[job.fetch].completed

\* curl.c says of an aborted fetch, in fetch_curl_done(): "fetch was aborted:
\* no callback".  No message is delivered for a fetch the client has aborted
\* or has already been told the outcome of.
NoCallbackAfterAbort == cb # NONE => cb.wanted

\* The same for every sender but the look at the headers of a completed
\* transfer: libcurl's callbacks, the outcome of a transfer, and the messages
\* of a data: URL, which may be aborted between any two of them.
AbortedIsSilent == cb # NONE /\ ~(job # NONE /\ job.step = "stop") => cb.wanted

\* A fetcher's reference count is one for its registration and one for each
\* of its fetches.
RefcountExact ==
    \A k \in Kinds :
        refcount[k] = 1 + Cardinality({ f \in Fetches : fetch[f].used /\ fetch[f].kind = k })

\* Once the client starts no more fetches, every fetch ends and is freed:
\* none is forgotten in the queue, in libcurl or in the data fetcher's ring.
\* (A client that starts a fetch in every callback can starve a queued one:
\* each refused start moves it to the end of the queue.)
Starts == \E f \in Fetches, k \in Kinds, h \in Hosts \cup {NoHost} : fetch_start(f, k, h)

EventuallyFreed ==
    <>[][~Starts]_vars => \A f \in Fetches : fetch[f].used ~> ~fetch[f].used

=============================================================================
