---------------------------- MODULE FetchProofs ----------------------------
(***************************************************************************)
(* Proofs about Fetch, for any set of fetches and hosts and any limits.    *)
(*                                                                         *)
(* RingsConsistent, HeldIsUsed and RefcountExact are not inductive: they   *)
(* need to know where the poll is (PollPlaces), that the fetch it works on *)
(* is alive, linked until it is stopped and unlinked from then on (JobOK), *)
(* that the data fetcher's ring holds live data fetches once (DataRing),   *)
(* and that a fetch whose client still holds it after a final message is   *)
(* the subject of the callback that is running (HeldOK).                   *)
(***************************************************************************)
EXTENDS Fetch, FiniteSetTheorems, TLAPS

Elems(s) == { s[i] : i \in 1..Len(s) }

Distinct(s) == \A i, j \in 1..Len(s) : s[i] = s[j] => i = j

\* RingsConsistent, as sets.
Rings == /\ \A f \in fetch_ring : fetch[f].used /\ fetch[f].fetch_is_active
         /\ \A f \in Elems(queue_ring) : fetch[f].used /\ ~fetch[f].fetch_is_active
         /\ Distinct(queue_ring)

Unlinked(f) == f \notin fetch_ring /\ f \notin Elems(queue_ring)

\* After a fault nothing runs.
Stopped == fault => disp = "no"

PollPlaces == /\ phase \in {"perform", "info"} => inside_curl
              /\ disp \in {"poll", "fdset"} => phase = "idle"
              /\ job # NONE => phase \in {"info", "data"}

CurlOK == \A f \in Fetches : fetch[f].curl_handle => fetch[f].used /\ fetch[f].kind = "curl"

DataRing == /\ \A f \in Elems(ring) : /\ fetch[f].used
                                      /\ fetch[f].kind = "data"
                                      /\ job # NONE => job.fetch # f
            /\ Distinct(ring)

\* The poll has unlinked the fetch it works on.
Gone == \/ fetch[job.fetch].kind = "curl" /\ job.step # "stop"
        \/ job.step = "free"

JobOK == ~fault /\ job # NONE =>
            /\ fetch[job.fetch].used
            /\ job.step = "stop" => fetch[job.fetch].curl_handle /\ phase = "info"
            /\ Gone => Unlinked(job.fetch)
            /\ fetch[job.fetch].kind = "curl" => Elems(job.tell) \subseteq ForgetOn

HeldOK == \A f \in held :
            /\ fetch[f].used
            /\ fetch[f].completed => cb # NONE /\ cb.fetch = f /\ cb.type \in AbortOn

IInv == /\ TypeOK
        /\ Rings
        /\ Stopped
        /\ PollPlaces
        /\ CurlOK
        /\ DataRing
        /\ JobOK
        /\ HeldOK

-----------------------------------------------------------------------------
(* Operators.                                                              *)

\* RING_REMOVE takes one element out of a ring and keeps the rest in order.
LEMMA DropSeq ==
    ASSUME NEW S, NEW s \in Seq(S), NEW i \in 1..Len(s)
    PROVE  /\ Drop(s, i) \in Seq(S)
           /\ Len(Drop(s, i)) = Len(s) - 1
           /\ \A j \in 1..Len(Drop(s, i)) :
                 Drop(s, i)[j] = s[IF j < i THEN j ELSE j + 1]
<1>1. Len(s) \in Nat /\ Len(s) - 1 \in Nat
  OBVIOUS
<1>2. \A j \in 1..(Len(s) - 1) : (IF j < i THEN s[j] ELSE s[j + 1]) \in S
  BY <1>1
<1> QED  BY <1>1, <1>2 DEF Drop

LEMMA ElemsFacts ==
    ASSUME NEW S, NEW s \in Seq(S)
    PROVE  /\ Elems(s) \subseteq S
           /\ \A f : (Indices(s, f) = {}) <=> (f \notin Elems(s))
<1>1. \A i \in 1..Len(s) : s[i] \in S
  OBVIOUS
<1> QED  BY <1>1 DEF Elems, Indices

\* RING_INSERT.
LEMMA AppendFacts ==
    ASSUME NEW S, NEW s \in Seq(S), NEW x \in S
    PROVE  /\ Elems(Append(s, x)) = Elems(s) \cup {x}
           /\ Distinct(s) /\ x \notin Elems(s) => Distinct(Append(s, x))
<1> DEFINE a == Append(s, x)
<1>1. Len(s) \in Nat /\ Len(a) = Len(s) + 1
  OBVIOUS
<1>2. a[Len(s) + 1] = x /\ \A i \in 1..Len(s) : a[i] = s[i]
  OBVIOUS
<1> HIDE DEF a
<1>3. \A i \in 1..Len(a) : i = Len(s) + 1 \/ i \in 1..Len(s)
  BY <1>1
<1>4. \A i \in 1..Len(s) : i \in 1..Len(a)
  BY <1>1
<1>5. Len(s) + 1 \in 1..Len(a)
  BY <1>1
<1>6. Elems(a) = Elems(s) \cup {x}
  <2>1. ASSUME NEW e \in Elems(a)
        PROVE  e \in Elems(s) \cup {x}
    BY <1>2, <1>3 DEF Elems
  <2>2. ASSUME NEW e \in Elems(s) \cup {x}
        PROVE  e \in Elems(a)
    <3>1. CASE e = x
      BY <3>1, <1>2, <1>5 DEF Elems
    <3>2. CASE e \in Elems(s)
      BY <3>2, <1>2, <1>4 DEF Elems
    <3> QED  BY <3>1, <3>2
  <2> QED  BY <2>1, <2>2
<1>7. Distinct(s) /\ x \notin Elems(s) => Distinct(a)
  BY <1>2, <1>3 DEF Distinct, Elems
<1> QED  BY <1>6, <1>7 DEF a

\* RING_REMOVE of an element that occurs once.
LEMMA DropFacts ==
    ASSUME NEW S, NEW s \in Seq(S), NEW i \in 1..Len(s), Distinct(s)
    PROVE  /\ Elems(Drop(s, i)) = Elems(s) \ {s[i]}
           /\ Distinct(Drop(s, i))
<1> DEFINE d == Drop(s, i)
<1>1. Len(s) \in Nat /\ Len(d) = Len(s) - 1
  BY DropSeq
<1>2. \A j \in 1..Len(d) : d[j] = s[IF j < i THEN j ELSE j + 1]
  BY DropSeq
<1> HIDE DEF d
<1>3. \A j \in 1..Len(d) : /\ (IF j < i THEN j ELSE j + 1) \in 1..Len(s)
                           /\ (IF j < i THEN j ELSE j + 1) # i
  BY <1>1
<1>4. ASSUME NEW e \in Elems(d)
      PROVE  e \in Elems(s) \ {s[i]}
  BY <1>2, <1>3 DEF Elems, Distinct
<1>5. ASSUME NEW e \in Elems(s) \ {s[i]}
      PROVE  e \in Elems(d)
  <2>1. PICK k \in 1..Len(s) : e = s[k] /\ k # i
    BY <1>5 DEF Elems
  <2>2. CASE k < i
    <3>1. k \in 1..Len(d)
      BY <2>2, <1>1
    <3> QED  BY <3>1, <2>1, <2>2, <1>2 DEF Elems
  <2>3. CASE k > i
    <3>1. k - 1 \in 1..Len(d) /\ ~(k - 1 < i) /\ (k - 1) + 1 = k
      BY <2>3, <1>1
    <3>2. d[k - 1] = s[k]
      BY <3>1, <1>2
    <3> QED  BY <3>1, <3>2, <2>1 DEF Elems
  <2> QED  BY <2>1, <2>2, <2>3, <1>1
<1>6. Distinct(d)
  <2> SUFFICES ASSUME NEW j \in 1..Len(d), NEW k \in 1..Len(d), d[j] = d[k]
               PROVE  j = k
    BY DEF Distinct
  <2>1. (IF j < i THEN j ELSE j + 1) = (IF k < i THEN k ELSE k + 1)
    BY <1>2, <1>3 DEF Distinct
  <2> QED  BY <2>1, <1>1
<1> QED  BY <1>4, <1>5, <1>6 DEF d

\* Taking the first element off a ring.
LEMMA TailFacts ==
    ASSUME NEW S, NEW s \in Seq(S), s # << >>
    PROVE  /\ Head(s) \in Elems(s)
           /\ Elems(Tail(s)) \subseteq Elems(s)
           /\ Distinct(s) => Head(s) \notin Elems(Tail(s)) /\ Distinct(Tail(s))
<1> DEFINE t == Tail(s)
<1>1. Len(s) \in Nat /\ Len(s) > 0 /\ Len(t) = Len(s) - 1
  OBVIOUS
<1>2. Head(s) = s[1] /\ \A i \in 1..Len(t) : t[i] = s[i + 1]
  OBVIOUS
<1> HIDE DEF t
<1>3. \A i \in 1..Len(t) : i + 1 \in 1..Len(s) /\ i + 1 # 1
  BY <1>1
<1>4. 1 \in 1..Len(s)
  BY <1>1
<1>5. Elems(t) \subseteq Elems(s)
  BY <1>2, <1>3 DEF Elems
<1>6. Distinct(s) => Head(s) \notin Elems(t)
  BY <1>2, <1>3, <1>4 DEF Elems, Distinct
<1>7. ASSUME Distinct(s), NEW i \in 1..Len(t), NEW j \in 1..Len(t), t[i] = t[j]
      PROVE  i = j
  <2>1. i + 1 = j + 1
    BY <1>2, <1>3, <1>7 DEF Distinct
  <2> QED  BY <2>1
<1>8. Distinct(s) => Distinct(t)
  BY <1>7 DEF Distinct
<1> QED  BY <1>2, <1>4, <1>5, <1>6, <1>8 DEF Elems, t

LEMMA ToldType ==
    ASSUME NEW r \in fetch_t, NEW t \in Messages
    PROVE  /\ Told(r, t) \in fetch_t
           /\ Told([r EXCEPT !.had_headers = TRUE], t) \in fetch_t
  BY DEF fetch_t, Told

LEMMA RecordTypes ==
    ASSUME NEW r \in fetch_t
    PROVE  /\ Free \in fetch_t
           /\ Stop(r) \in fetch_t
           /\ \A k \in Kinds, h \in Hosts \cup {NoHost} : New(k, h) \in fetch_t
           /\ [r EXCEPT !.completed = TRUE, !.abort = TRUE] \in fetch_t
           /\ [r EXCEPT !.completed = TRUE] \in fetch_t
           /\ [r EXCEPT !.sent_ssl_chain = TRUE] \in fetch_t
           /\ [r EXCEPT !.curl_handle = FALSE, !.sent_ssl_chain = TRUE] \in fetch_t
           /\ \A res \in Results : [r EXCEPT !.result = res] \in fetch_t
           /\ \A b \in BOOLEAN : [r EXCEPT !.had_headers = b] \in fetch_t
           /\ \A b \in BOOLEAN : [r EXCEPT !.fetch_is_active = TRUE, !.curl_handle = b] \in fetch_t
  BY ZenonT(60) DEF fetch_t, Free, Told, Stop, New, Kinds, Results

LEMMA MessageSets == /\ Progressing \subseteq Messages
                     /\ AbortOn \subseteq Messages
                     /\ ForgetOn \subseteq Messages
                     /\ HeaderOutcomes \ {"go on"} \subseteq Messages
                     /\ AbortOn \cap Progressing = {} /\ AbortOn \cap ForgetOn = {}
                     /\ ForgetOn \cap Progressing = {}
  BY DEF Messages, Progressing, AbortOn, ForgetOn, HeaderOutcomes

LEMMA OneElement ==
    ASSUME NEW S, NEW x \in S
    PROVE  <<x>> \in Seq(S)
  OBVIOUS

LEMMA OutcomeType ==
    ASSUME NEW r \in fetch_t, r.result # "none", NEW b \in BOOLEAN
    PROVE  /\ Outcome(r, b) \in Seq(ForgetOn)
           /\ Outcome(r, b) \in Seq(Messages)
<1>1. r.result \in Results
  BY DEF fetch_t
<1>2. OutcomeOf[r.result] \in ForgetOn
  BY <1>1 DEF OutcomeOf, ForgetOn, Results
<1>3. <<OutcomeOf[r.result]>> \in Seq(ForgetOn) /\ <<OutcomeOf[r.result]>> \in Seq(Messages)
  BY <1>2, MessageSets, OneElement
<1>4. Outcome(r, b) \in {<< >>, <<OutcomeOf[r.result]>>}
  BY DEF Outcome
<1>5. << >> \in Seq(ForgetOn) /\ << >> \in Seq(Messages)
  OBVIOUS
<1> QED  BY <1>3, <1>4, <1>5

LEMMA ReplyType ==
    ASSUME NEW reply \in DataReplies
    PROVE  reply \in Seq(Messages)
<1>1. "HEADER" \in Messages /\ "DATA" \in Messages /\ "FINISHED" \in Messages /\ "ERROR" \in Messages
  BY DEF Messages, Progressing, ForgetOn
<1>2. <<"HEADER", "HEADER", "HEADER", "DATA", "FINISHED">> \in Seq(Messages)
  BY <1>1
<1>3. Tail(<<"HEADER", "HEADER", "HEADER", "DATA", "FINISHED">>) \in Seq(Messages)
  BY <1>2
<1>4. <<"ERROR">> \in Seq(Messages)
  BY <1>1, OneElement
<1> QED  BY <1>2, <1>3, <1>4 DEF DataReplies, DataMessages

-----------------------------------------------------------------------------
(* Types.                                                                  *)

LEMMA InIsBoolean ==
    ASSUME NEW S, NEW x
    PROVE  (x \in S) \in BOOLEAN
  OBVIOUS

LEMMA DeliverType ==
    ASSUME TypeOK, NEW f \in Fetches, NEW t \in Messages,
           NEW next \in {"nothing", "header", "stop", "stop if aborted"},
           Deliver(f, t, next)
    PROVE  cb' \in cb_t /\ held' \subseteq Fetches
<1> DEFINE wanted == f \in held
<1>1. wanted \in BOOLEAN
  BY InIsBoolean
<1>2. /\ cb' = [fetch |-> f, type |-> t, next |-> next, wanted |-> wanted]
      /\ held' \subseteq held
  BY DEF Deliver
<1> HIDE DEF wanted
<1>3. cb' \in cb_t
  BY <1>1, <1>2 DEF cb_t
<1> QED  BY <1>2, <1>3 DEF TypeOK

LEMMA RemoveType ==
    ASSUME TypeOK, NEW f \in Fetches, fetch_remove_from_queues(f)
    PROVE  /\ fetch_ring' \subseteq Fetches
           /\ queue_ring' \in Seq(Fetches)
           /\ fault' \in BOOLEAN
<1>1. CASE fetch[f].fetch_is_active
  BY <1>1 DEF fetch_remove_from_queues, TypeOK
<1>2. CASE ~fetch[f].fetch_is_active /\ Indices(queue_ring, f) = {}
  BY <1>2 DEF fetch_remove_from_queues, TypeOK
<1>3. CASE ~fetch[f].fetch_is_active /\ Indices(queue_ring, f) # {}
  <2>1. PICK i \in Indices(queue_ring, f) : queue_ring' = Drop(queue_ring, i)
    BY <1>3 DEF fetch_remove_from_queues
  <2>2. i \in 1..Len(queue_ring)
    BY <2>1 DEF Indices
  <2> QED  BY <1>3, <2>1, <2>2, DropSeq DEF fetch_remove_from_queues, TypeOK
<1> QED  BY <1>1, <1>2, <1>3

LEMMA FreeType ==
    ASSUME TypeOK, NEW f \in Fetches, fetch_free(f)
    PROVE  fetch' \in [Fetches -> fetch_t] /\ refcount' \in [Kinds -> Int]
<1>1. fetch[f] \in fetch_t /\ fetch[f].kind \in Kinds
  BY DEF TypeOK, fetch_t
<1>2. Free \in fetch_t
  BY DEF fetch_t, Free, Kinds
<1> QED  BY <1>1, <1>2 DEF fetch_free, TypeOK

LEMMA EndDispatchType ==
    ASSUME TypeOK, EndDispatch
    PROVE  /\ disp' = "no"
           /\ phase' \in {"idle", "perform", "info", "data"}
           /\ poller' \in {"no", "poll", "fdset"}
           /\ inside_curl' \in BOOLEAN
           /\ polled' \in BOOLEAN
<1>1. CASE disp = "start"
  BY <1>1 DEF EndDispatch, TypeOK
<1>2. CASE disp # "start" /\ fetch_ring # {}
  <2>1. disp \in {"no", "poll", "fdset"}
    BY <1>2 DEF TypeOK
  <2> QED  BY <1>2, <2>1 DEF EndDispatch, TypeOK
<1>3. CASE disp # "start" /\ fetch_ring = {}
  BY <1>3 DEF EndDispatch, TypeOK
<1> QED  BY <1>1, <1>2, <1>3

\* The type invariant is inductive.
LEMMA TypeStep == TypeOK /\ [Next]_vars => TypeOK'
<1> SUFFICES ASSUME TypeOK, [Next]_vars
             PROVE  TypeOK'
  OBVIOUS
<1> USE DEF TypeOK
<1>t. /\ \A f \in Fetches : fetch[f] \in fetch_t
      /\ "ERROR" \in Messages
  BY DEF Messages, ForgetOn
<1>1. ASSUME NEW f \in Fetches, NEW k \in Kinds, NEW h \in Hosts \cup {NoHost}, fetch_start(f, k, h)
      PROVE  TypeOK'
  <2>0. New(k, h) \in fetch_t
    BY <1>t, RecordTypes
  <2>1. fetch' \in [Fetches -> fetch_t] /\ refcount' \in [Kinds -> Int]
    BY SMTT(30), <1>1, <2>0 DEF fetch_start
  <2>2. queue_ring' \in Seq(Fetches) /\ ring' \in Seq(Fetches)
    BY <1>1 DEF fetch_start
  <2> QED  BY <1>1, <2>1, <2>2 DEF fetch_start
<1>2. ASSUME NEW f \in Fetches, AbortDeferred(f)
      PROVE  TypeOK'
  <2>1. fetch' \in [Fetches -> fetch_t]
    BY <1>2, <1>t, RecordTypes DEF AbortDeferred
  <2> QED  BY <1>2, <2>1 DEF AbortDeferred
<1>3. ASSUME NEW f \in Fetches, AbortNow(f)
      PROVE  TypeOK'
  BY <1>3, RemoveType, FreeType DEF AbortNow
<1>4. ASSUME NEW i \in 1..Len(queue_ring), DispatchStarted(i)
      PROVE  TypeOK'
  <2>1. queue_ring[i] \in Fetches /\ (fetch[queue_ring[i]].kind = "curl") \in BOOLEAN
    OBVIOUS
  <2>2. fetch' \in [Fetches -> fetch_t]
    BY <1>4, <2>1, <1>t, RecordTypes DEF DispatchStarted
  <2> QED  BY SMTT(30), <1>4, <2>1, <2>2, DropSeq DEF DispatchStarted
<1>5. ASSUME NEW i \in 1..Len(queue_ring), DispatchDeferred(i)
      PROVE  TypeOK'
  <2>1. queue_ring' \in Seq(Fetches)
    BY SMTT(30), <1>5, DropSeq DEF DispatchDeferred
  <2> QED  BY <1>5, <2>1, EndDispatchType DEF DispatchDeferred
<1>6. CASE DispatchDone
  BY <1>6, EndDispatchType DEF DispatchDone
<1>7. ASSUME NEW f \in Fetches, fetch_curl_progress(f)
      PROVE  TypeOK'
  BY <1>7, DeliverType, MessageSets DEF fetch_curl_progress, quietInPoll, Progressing
<1>8. ASSUME NEW f \in Fetches, fetch_curl_header(f)
      PROVE  TypeOK'
  <2>1. CASE fetch[f].abort
    BY <1>8, <2>1, <1>t, RecordTypes DEF fetch_curl_header, quietInPoll
  <2>2. CASE ~fetch[f].abort
    <3>1. fetch' \in [Fetches -> fetch_t]
      BY <1>8, <2>2, <1>t, RecordTypes DEF fetch_curl_header
    <3>2. cb' \in cb_t /\ held' \subseteq Fetches
      BY <1>8, <2>2, DeliverType, MessageSets DEF fetch_curl_header, Progressing
    <3> QED  BY <1>8, <3>1, <3>2 DEF fetch_curl_header, quietInPoll
  <2> QED  BY SMTT(30), <2>1, <2>2
<1>9. ASSUME NEW f \in Fetches, NEW o \in HeaderOutcomes, fetch_curl_data(f, o)
      PROVE  TypeOK'
  <2>1. CASE fetch' = [fetch EXCEPT ![f] = Stop(@)] /\ UNCHANGED <<cb, held>>
    BY ZenonT(60), <1>9, <2>1, <1>t, RecordTypes DEF fetch_curl_data, quietInPoll
  <2>2. CASE /\ fetch' = [fetch EXCEPT ![f].had_headers = TRUE]
             /\ Deliver(f, "DATA", "stop if aborted")
    <3>1. fetch' \in [Fetches -> fetch_t]
      BY <2>2, <1>t, RecordTypes
    <3>2. cb' \in cb_t /\ held' \subseteq Fetches
      BY <2>2, DeliverType, MessageSets DEF Progressing
    <3> QED  BY <1>9, <3>1, <3>2 DEF fetch_curl_data, quietInPoll
  <2>3. CASE /\ o \in HeaderOutcomes \ {"go on", "AUTH"}
             /\ fetch' = [fetch EXCEPT ![f] = Told([@ EXCEPT !.had_headers = TRUE], o)]
             /\ Deliver(f, o, "stop")
    <3>1. fetch' \in [Fetches -> fetch_t]
      BY <2>3, <1>t, ToldType, MessageSets
    <3>2. cb' \in cb_t /\ held' \subseteq Fetches
      BY <2>3, DeliverType, MessageSets
    <3> QED  BY <1>9, <3>1, <3>2 DEF fetch_curl_data, quietInPoll
  <2> QED  BY <1>9, <2>1, <2>2, <2>3 DEF fetch_curl_data
<1>10. ASSUME NEW f \in Fetches, NEW r \in Results, TransferEnds(f, r)
       PROVE  TypeOK'
  <2>1. fetch' \in [Fetches -> fetch_t]
    BY <1>10, <1>t, RecordTypes DEF TransferEnds
  <2> QED  BY SMTT(30), <1>10, <2>1 DEF TransferEnds, quietInPoll
<1>11. CASE ClientReturns
  <2>1. cb \in cb_t /\ cb.fetch \in Fetches
    BY <1>11 DEF ClientReturns, cb_t
  <2>2. fetch' \in [Fetches -> fetch_t]
    <3>1. fetch' = fetch \/ fetch' = [fetch EXCEPT ![cb.fetch] = Stop(fetch[cb.fetch])]
      BY <1>11 DEF ClientReturns
    <3> QED  BY <2>1, <3>1, <1>t, RecordTypes
  <2>3. cb' = NONE \/ cb' \in cb_t
    <3>1. (cb.fetch \in held) \in BOOLEAN /\ "HEADER" \in Messages
      BY DEF Messages, Progressing
    <3> QED  BY <1>11, <2>1, <3>1 DEF ClientReturns, cb_t
  <2> QED  BY <1>11, <2>2, <2>3 DEF ClientReturns, quietInPoll
<1>12. CASE fetcher_poll
  BY <1>12 DEF fetcher_poll
<1>13. CASE fetch_fdset
  BY <1>13 DEF fetch_fdset
<1>14. CASE PerformReturns
  BY <1>14 DEF PerformReturns
<1>15. CASE PerformFails
  BY <1>15 DEF PerformFails
<1>16. ASSUME NEW f \in Fetches, NEW o \in HeaderOutcomes, fetch_curl_done(f, o)
       PROVE  TypeOK'
  <2>1. job' \in job_t
    <3>1. Outcome(fetch[f], o # "go on") \in Seq(Messages)
      BY <1>16, <1>t, OutcomeType DEF fetch_curl_done
    <3> QED  BY <1>16, <3>1 DEF fetch_curl_done, job_t
  <2>2. CASE o = "go on"
    <3>1. LooksAtHeaders(fetch[f]) \in BOOLEAN
      BY DEF LooksAtHeaders
    <3>2. fetch' \in [Fetches -> fetch_t]
      BY ZenonT(60), <1>16, <2>2, <3>1, <1>t, RecordTypes DEF fetch_curl_done
    <3> QED  BY <1>16, <2>1, <2>2, <3>2 DEF fetch_curl_done
  <2>3. CASE o # "go on"
    <3>1. fetch' \in [Fetches -> fetch_t]
      <4>1. fetch' = [fetch EXCEPT ![f] = Told([fetch[f] EXCEPT !.had_headers = TRUE], o)]
        BY <1>16, <2>3 DEF fetch_curl_done
      <4> QED  BY <2>3, <4>1, <1>t, ToldType, MessageSets
    <3>2. cb' \in cb_t /\ held' \subseteq Fetches
      BY <1>16, <2>3, DeliverType, MessageSets DEF fetch_curl_done
    <3> QED  BY <1>16, <2>1, <3>1, <3>2 DEF fetch_curl_done
  <2> QED  BY <2>2, <2>3
<1>j. ASSUME job # NONE
      PROVE  job \in job_t /\ job.fetch \in Fetches /\ job.tell \in Seq(Messages)
  BY <1>j DEF job_t
<1>17. CASE fetch_curl_stop
  <2>1. job # NONE
    BY <1>17 DEF fetch_curl_stop, AtStep
  <2>2. fetch' \in [Fetches -> fetch_t]
    BY <1>17, <2>1, <1>j, <1>t, RecordTypes DEF fetch_curl_stop
  <2>3. job' \in job_t
    BY <1>17, <2>1, <1>j DEF fetch_curl_stop, job_t
  <2>4. (cb' = NONE \/ cb' \in cb_t) /\ held' \subseteq Fetches
    <3>1. CASE Certs /\ ~fetch[job.fetch].sent_ssl_chain
      BY <1>17, <2>1, <3>1, <1>j, DeliverType, MessageSets DEF fetch_curl_stop, Progressing
    <3>2. CASE ~(Certs /\ ~fetch[job.fetch].sent_ssl_chain)
      BY <1>17, <3>2 DEF fetch_curl_stop
    <3> QED  BY <3>1, <3>2
  <2> QED  BY <1>17, <2>1, <2>2, <2>3, <2>4, <1>j, RemoveType DEF fetch_curl_stop
<1>18. CASE Tell
  <2>1. job # NONE /\ job.tell # << >> /\ Head(job.tell) \in Messages
    BY <1>18, <1>j DEF Tell, AtStep
  <2>2. fetch' \in [Fetches -> fetch_t]
    BY <1>18, <2>1, <1>j, <1>t, ToldType DEF Tell
  <2>3. job' \in job_t
    <3>1. Tail(job.tell) \in Seq(Messages)
      BY <2>1, <1>j
    <3> QED  BY <1>18, <2>1, <3>1, <1>j DEF Tell, job_t
  <2>4. cb' \in cb_t /\ held' \subseteq Fetches
    BY <1>18, <2>1, <1>j, DeliverType DEF Tell
  <2> QED  BY <1>18, <2>2, <2>3, <2>4 DEF Tell
<1>19. CASE ToldAll
  <2>1. job # NONE
    BY <1>19 DEF ToldAll, AtStep
  <2>2. job' \in job_t
    BY <1>19, <2>1, <1>j DEF ToldAll, job_t
  <2>3. /\ fetch_ring' \subseteq Fetches
        /\ queue_ring' \in Seq(Fetches)
        /\ fault' \in BOOLEAN
    BY <1>19, <2>1, <1>j, RemoveType DEF ToldAll
  <2> QED  BY <1>19, <2>2, <2>3 DEF ToldAll
<1>20. CASE FreeJob
  <2>1. job # NONE
    BY <1>20 DEF FreeJob, AtStep
  <2>2. CASE fetch[job.fetch].completed
    BY <1>20, <2>1, <2>2, <1>j, FreeType DEF FreeJob
  <2>3. CASE ~fetch[job.fetch].completed
    <3>1. fetch' \in [Fetches -> fetch_t]
      <4>1. fetch' = [fetch EXCEPT ![job.fetch] = [fetch[job.fetch] EXCEPT !.completed = TRUE]]
        BY <1>20, <2>3 DEF FreeJob
      <4> QED  BY <2>1, <4>1, <1>j, <1>t, RecordTypes
    <3>2. cb' \in cb_t /\ held' \subseteq Fetches
      BY <1>20, <2>1, <2>3, <1>j, DeliverType, MessageSets DEF FreeJob, ForgetOn
    <3> QED  BY SMTT(30), <1>20, <2>3, <3>1, <3>2 DEF FreeJob
  <2> QED  BY <2>2, <2>3
<1>21. CASE InfoDone
  BY <1>21 DEF InfoDone
<1>22. ASSUME NEW reply \in DataReplies, fetch_data_process(reply)
       PROVE  TypeOK'
  <2>1. ring # << >> /\ Head(ring) \in Fetches /\ Tail(ring) \in Seq(Fetches)
    BY <1>22 DEF fetch_data_process
  <2>2. job' \in job_t
    BY <1>22, <2>1, ReplyType DEF fetch_data_process, job_t
  <2> QED  BY <1>22, <2>1, <2>2 DEF fetch_data_process
<1>23. ASSUME NEW fds \in BOOLEAN, PollEnds(fds)
       PROVE  TypeOK'
  BY <1>23 DEF PollEnds
<1>24. CASE UNCHANGED vars
  BY <1>24 DEF vars
<1> QED
  BY <1>1, <1>2, <1>3, <1>4, <1>5, <1>6, <1>7, <1>8, <1>9, <1>10, <1>11, <1>12, <1>13, <1>14,
     <1>15, <1>16, <1>17, <1>18, <1>19, <1>20, <1>21, <1>22, <1>23, <1>24
  DEF Next, Client, Dispatch, Transfer, Poll, PollGoesOn

\* Every variable keeps its type (fetch.c, curl.c and data.c never leave the
\* structure of their records), for any fetches, hosts and limits.
THEOREM Typing == Spec => []TypeOK
<1>1. Init => TypeOK
  <2>1. Free \in fetch_t
    BY DEF Free, fetch_t, Kinds
  <2>2. << >> \in Seq(Fetches)
    OBVIOUS
  <2>3. [f \in Fetches |-> Free] \in [Fetches -> fetch_t] /\ [k \in Kinds |-> 1] \in [Kinds -> Int]
    BY <2>1
  <2> QED  BY <2>2, <2>3 DEF Init, TypeOK
<1> QED  BY <1>1, TypeStep, PTL DEF Spec

-----------------------------------------------------------------------------
(* The inductive invariant.                                                *)

\* What the rings and the fetcher's work depend on.
Keep(q, r) == /\ q.used = r.used
              /\ q.kind = r.kind
              /\ q.host = r.host
              /\ q.fetch_is_active = r.fetch_is_active
              /\ q.curl_handle = r.curl_handle

LEMMA RecordFields ==
    ASSUME NEW r \in fetch_t
    PROVE  /\ Keep(Stop(r), r) /\ Stop(r).completed = r.completed
           /\ \A t \in Messages :
                 /\ Keep(Told(r, t), r)
                 /\ t \in Progressing => Told(r, t).completed = r.completed
                 /\ Keep(Told([r EXCEPT !.had_headers = TRUE], t), r)
                 /\ t \in Progressing =>
                       Told([r EXCEPT !.had_headers = TRUE], t).completed = r.completed
           /\ LET q == [r EXCEPT !.completed = TRUE, !.abort = TRUE]
              IN  Keep(q, r)
           /\ LET q == [r EXCEPT !.completed = TRUE]
              IN  Keep(q, r)
           /\ LET q == [r EXCEPT !.sent_ssl_chain = TRUE]
              IN  Keep(q, r) /\ q.completed = r.completed
           /\ \A res \in Results : LET q == [r EXCEPT !.result = res]
                                   IN  Keep(q, r) /\ q.completed = r.completed
           /\ \A b : LET q == [r EXCEPT !.had_headers = b]
                     IN  Keep(q, r) /\ q.completed = r.completed
  BY DEF fetch_t, Keep, Told, Stop

\* A step that leaves the rings alone and changes no fetch in what they
\* depend on.
LEMMA QuietStep ==
    ASSUME IInv, TypeOK', ~fault,
           UNCHANGED <<queue_ring, fetch_ring, ring, fault>>,
           \A f \in Fetches : Keep(fetch'[f], fetch[f])
    PROVE  /\ Rings'
           /\ Stopped'
           /\ CurlOK'
           /\ job' = job => DataRing'
           /\ job' = job /\ (job # NONE => phase' = phase) => JobOK'
<1>1. fetch_ring \subseteq Fetches /\ Elems(queue_ring) \subseteq Fetches /\ Elems(ring) \subseteq Fetches
  BY ElemsFacts DEF IInv, TypeOK
<1>2. Rings'
  BY <1>1 DEF IInv, Rings, Keep
<1>3. Stopped'
  BY DEF Stopped
<1>4. CurlOK'
  BY DEF IInv, CurlOK, Keep
<1>5. job' = job => DataRing'
  BY <1>1 DEF IInv, DataRing, Keep
<1>6. job' = job /\ (job # NONE => phase' = phase) => JobOK'
  <2> SUFFICES ASSUME job' = job, job # NONE, phase' = phase
               PROVE  JobOK'
    BY DEF JobOK
  <2>1. job.fetch \in Fetches
    BY DEF IInv, TypeOK, job_t
  <2> QED  BY <2>1 DEF IInv, JobOK, Gone, Unlinked, Keep
<1> QED  BY <1>2, <1>3, <1>4, <1>5, <1>6

\* A message delivered when no other is being delivered.
LEMMA DeliverHeld ==
    ASSUME IInv, cb = NONE, NEW f \in Fetches, NEW t \in Messages,
           NEW next \in {"nothing", "header", "stop", "stop if aborted"},
           Deliver(f, t, next),
           \A g \in Fetches : fetch'[g].used = fetch[g].used,
           \A g \in Fetches : g # f => fetch'[g].completed = fetch[g].completed,
           t \in Progressing => fetch'[f].completed = fetch[f].completed
    PROVE  HeldOK'
<1>1. cb' \in cb_t /\ cb' # NONE /\ cb'.fetch = f /\ cb'.type = t
  <2>1. cb' \in cb_t
    BY DeliverType DEF IInv
  <2> QED  BY <2>1, NoneAssumption DEF Deliver
<1>2. held \subseteq Fetches /\ held' \subseteq held /\ (t \in ForgetOn => f \notin held')
  BY DEF IInv, TypeOK, Deliver
<1>3. t \in Progressing \/ t \in AbortOn \/ t \in ForgetOn
  BY DEF Messages
<1> QED  BY <1>1, <1>2, <1>3 DEF IInv, HeldOK

\* A step that tells the client nothing and gives it nothing.
LEMMA SilentHeld ==
    ASSUME IInv, held' \subseteq held,
           \A g \in held' : fetch'[g].used = fetch[g].used,
           \A g \in held' : fetch'[g].completed => fetch[g].completed,
           \A g \in held' : cb # NONE /\ cb.fetch = g /\ cb.type \in AbortOn => cb' = cb
    PROVE  HeldOK'
  BY DEF IInv, HeldOK

\* Unlinking a fetch.
LEMMA RemoveFacts ==
    ASSUME IInv, NEW f \in Fetches, fetch_remove_from_queues(f)
    PROVE  /\ fetch_ring' \subseteq fetch_ring /\ f \notin fetch_ring'
           /\ \A g \in fetch_ring : g # f => g \in fetch_ring'
           /\ Elems(queue_ring)' = Elems(queue_ring) \ {f}
           /\ Distinct(queue_ring')
           /\ Unlinked(f) => fault'
           /\ fetch[f].fetch_is_active /\ f \in fetch_ring => ~fault'
           /\ ~fetch[f].fetch_is_active /\ f \in Elems(queue_ring) => fault' = fault
<1>0. /\ queue_ring \in Seq(Fetches) /\ Distinct(queue_ring)
      /\ (Indices(queue_ring, f) = {}) <=> (f \notin Elems(queue_ring))
      /\ f \in fetch_ring => fetch[f].fetch_is_active
      /\ f \in Elems(queue_ring) => ~fetch[f].fetch_is_active
  BY ElemsFacts DEF IInv, TypeOK, Rings
<1>1. CASE fetch[f].fetch_is_active
  BY <1>0, <1>1 DEF fetch_remove_from_queues, Unlinked
<1>2. CASE ~fetch[f].fetch_is_active /\ Indices(queue_ring, f) = {}
  BY <1>0, <1>2 DEF fetch_remove_from_queues, Unlinked
<1>3. CASE ~fetch[f].fetch_is_active /\ Indices(queue_ring, f) # {}
  <2>1. PICK i \in Indices(queue_ring, f) : queue_ring' = Drop(queue_ring, i)
    BY <1>3 DEF fetch_remove_from_queues
  <2>2. i \in 1..Len(queue_ring) /\ queue_ring[i] = f
    BY <2>1 DEF Indices
  <2>3. Elems(queue_ring') = Elems(queue_ring) \ {f} /\ Distinct(queue_ring')
    BY <1>0, <2>1, <2>2, DropFacts
  <2> QED  BY <1>0, <1>3, <2>3 DEF fetch_remove_from_queues, Unlinked
<1> QED  BY <1>1, <1>2, <1>3

\* The invariant is preserved by every step.
LEMMA InvStep == IInv /\ [Next]_vars => IInv'
<1> SUFFICES ASSUME IInv, Next
             PROVE  IInv'
  <2>1. CASE UNCHANGED vars
    BY <2>1 DEF vars, IInv, TypeOK, Rings, Elems, Distinct, Stopped, PollPlaces, CurlOK, DataRing,
                JobOK, Gone, Unlinked, HeldOK
  <2> QED  BY <2>1
<1>t. TypeOK /\ TypeOK'
  BY TypeStep DEF IInv
<1>r. \A f \in Fetches : fetch[f] \in fetch_t
  BY <1>t DEF TypeOK
<1>n. ~fault
  <2> SUFFICES ASSUME fault
               PROVE  FALSE
    OBVIOUS
  <2>1. disp = "no"
    BY DEF IInv, Stopped
  <2> QED
    BY <2>1 DEF Next, Client, Dispatch, Transfer, Poll, PollGoesOn, ClientRuns, PollRuns,
       fetch_start, AbortDeferred, AbortNow, DispatchStarted, DispatchDeferred, DispatchDone,
       fetch_curl_progress, fetch_curl_header, fetch_curl_data, TransferEnds, Performing,
       ClientReturns, fetcher_poll, fetch_fdset, PerformReturns, PerformFails, fetch_curl_done,
       fetch_curl_stop, Tell, ToldAll, FreeJob, AtStep, InfoDone, fetch_data_process, PollEnds
<1>s. /\ fetch_ring \subseteq Fetches /\ held \subseteq Fetches
      /\ Elems(queue_ring) \subseteq Fetches /\ Elems(ring) \subseteq Fetches
      /\ queue_ring \in Seq(Fetches) /\ ring \in Seq(Fetches)
      /\ job # NONE => job \in job_t /\ job.fetch \in Fetches /\ job.tell \in Seq(Messages)
  BY <1>t, ElemsFacts DEF TypeOK, job_t
\* An action that changes no more than QuietStep allows and delivers nothing.
<1>q. ASSUME UNCHANGED <<queue_ring, fetch_ring, ring, fault, held, job>>,
             cb' = cb,
             fetch' = fetch,
             job # NONE => phase' = phase,
             PollPlaces'
      PROVE  IInv'
  <2>1. \A f \in Fetches : Keep(fetch'[f], fetch[f])
    BY <1>q DEF Keep
  <2>2. HeldOK'
    BY <1>q, SilentHeld
  <2> QED  BY <1>q, <1>t, <1>n, <2>1, <2>2, QuietStep DEF IInv
\* An action of libcurl's: a message about f at most, nothing else.
<1>p. ASSUME NEW f \in Fetches,
             UNCHANGED quietInPoll,
             cb = NONE,
             NEW r, fetch' = [fetch EXCEPT ![f] = r],
             Keep(r, fetch[f]),
             \/ UNCHANGED <<cb, held>> /\ r.completed = fetch[f].completed
             \/ \E t \in Messages, next \in {"nothing", "header", "stop", "stop if aborted"} :
                   /\ Deliver(f, t, next)
                   /\ t \in Progressing => r.completed = fetch[f].completed
      PROVE  IInv'
  <2>1. \A g \in Fetches : Keep(fetch'[g], fetch[g])
    BY <1>p, <1>t DEF TypeOK, Keep
  <2>2. /\ \A g \in Fetches : g # f => fetch'[g].completed = fetch[g].completed
        /\ fetch'[f] = r
    BY <1>p, <1>t DEF TypeOK
  <2>3. HeldOK'
    <3>1. CASE UNCHANGED <<cb, held>> /\ r.completed = fetch[f].completed
      BY <3>1, <2>1, <2>2, <1>s, <1>p, SilentHeld DEF Keep
    <3>2. CASE \E t \in Messages, next \in {"nothing", "header", "stop", "stop if aborted"} :
                   /\ Deliver(f, t, next)
                   /\ t \in Progressing => r.completed = fetch[f].completed
      BY <3>2, <2>1, <2>2, <1>p, DeliverHeld DEF Keep
    <3> QED  BY <1>p, <3>1, <3>2
  <2>4. PollPlaces'
    BY <1>p DEF IInv, PollPlaces, quietInPoll
  <2> QED  BY <1>p, <1>t, <1>n, <2>1, <2>3, <2>4, QuietStep DEF IInv, quietInPoll
<1>1. ASSUME NEW f \in Fetches, NEW k \in Kinds, NEW h \in Hosts \cup {NoHost}, fetch_start(f, k, h)
      PROVE  IInv'
  <2>1. /\ ~fetch[f].used
        /\ f \notin fetch_ring /\ f \notin Elems(queue_ring) /\ f \notin Elems(ring)
        /\ job # NONE => job.fetch # f
    BY <1>1, <1>n DEF fetch_start, IInv, Rings, DataRing, JobOK
  <2>2. /\ \A g \in Fetches : g # f => fetch'[g] = fetch[g]
        /\ fetch'[f].used /\ fetch'[f].kind = k /\ ~fetch'[f].fetch_is_active
        /\ ~fetch'[f].curl_handle /\ ~fetch'[f].completed
    BY <1>1, <1>t DEF fetch_start, TypeOK, New, Free
  <2>3. /\ Elems(queue_ring') = Elems(queue_ring) \cup {f} /\ Distinct(queue_ring')
        /\ Elems(ring') = (IF k = "data" THEN Elems(ring) \cup {f} ELSE Elems(ring))
        /\ Distinct(ring')
    <3>1. Distinct(queue_ring) /\ Distinct(ring) /\ queue_ring' = Append(queue_ring, f)
      BY <1>1 DEF fetch_start, IInv, Rings, DataRing
    <3>2. Elems(queue_ring') = Elems(queue_ring) \cup {f} /\ Distinct(queue_ring')
      BY <3>1, <1>s, <2>1, AppendFacts
    <3>3. CASE k = "data"
      <4>1. ring' = Append(ring, f)
        BY <1>1, <3>3 DEF fetch_start
      <4> QED  BY <3>1, <3>2, <3>3, <4>1, <1>s, <2>1, AppendFacts
    <3>4. CASE k # "data"
      BY <1>1, <3>1, <3>2, <3>4 DEF fetch_start
    <3> QED  BY <3>3, <3>4
  <2>4. Rings'
    BY <1>1, <1>s, <2>2, <2>3, <2>1 DEF fetch_start, IInv, Rings
  <2>5. Stopped' /\ PollPlaces'
    BY <1>1, <1>n DEF fetch_start, IInv, Stopped, PollPlaces
  <2>6. CurlOK'
    BY <2>2 DEF IInv, CurlOK
  <2>7. DataRing'
    BY <1>1, <1>s, <2>1, <2>2, <2>3 DEF fetch_start, IInv, DataRing
  <2>8. JobOK'
    BY <1>1, <1>s, <1>n, <2>1, <2>2, <2>3 DEF fetch_start, IInv, JobOK, Gone, Unlinked
  <2>9. HeldOK'
    BY <1>1, <1>s, <2>2 DEF fetch_start, IInv, HeldOK
  <2> QED  BY <1>t, <2>4, <2>5, <2>6, <2>7, <2>8, <2>9 DEF IInv
<1>2. ASSUME NEW f \in Fetches, AbortDeferred(f)
      PROVE  IInv'
  <2> DEFINE r == [fetch[f] EXCEPT !.completed = TRUE, !.abort = TRUE]
  <2>1. Keep(r, fetch[f])
    BY <1>r, RecordFields
  <2>2. fetch' = [fetch EXCEPT ![f] = r]
    BY <1>2 DEF AbortDeferred
  <2> HIDE DEF r
  <2>3. \A g \in Fetches : Keep(fetch'[g], fetch[g]) /\ (g # f => fetch'[g] = fetch[g])
    BY <1>t, <2>1, <2>2 DEF TypeOK, Keep
  <2>4. HeldOK'
    BY <1>2, <1>s, <2>3, SilentHeld DEF AbortDeferred
  <2>5. PollPlaces'
    BY <1>2 DEF AbortDeferred, IInv, PollPlaces
  <2> QED  BY <1>2, <1>t, <1>n, <2>3, <2>4, <2>5, QuietStep DEF AbortDeferred, IInv
<1>3. ASSUME NEW f \in Fetches, AbortNow(f)
      PROVE  IInv'
  <2>1. /\ \A g \in Fetches : g # f => fetch'[g] = fetch[g]
        /\ ~fetch'[f].curl_handle
    BY <1>3, <1>t DEF AbortNow, fetch_free, TypeOK, Free
  <2>2. /\ fetch_ring' \subseteq fetch_ring /\ f \notin fetch_ring'
        /\ Elems(queue_ring') = Elems(queue_ring) \ {f}
        /\ Distinct(queue_ring')
        /\ Unlinked(f) => fault'
    BY <1>3, RemoveFacts DEF AbortNow
  <2>3. f \notin Elems(ring) /\ f \notin held'
    BY <1>3 DEF AbortNow, IInv, DataRing
  <2>4. Rings'
    BY <1>s, <2>1, <2>2 DEF IInv, Rings
  <2>5. Stopped' /\ PollPlaces'
    BY <1>3 DEF AbortNow, ClientRuns, IInv, Stopped, PollPlaces
  <2>6. CurlOK'
    BY <2>1 DEF IInv, CurlOK
  <2>7. DataRing'
    BY <1>3, <1>s, <2>1, <2>3 DEF AbortNow, IInv, DataRing
  <2>8. ~fault' /\ job # NONE => job.fetch # f
    <3> SUFFICES ASSUME job # NONE, job.fetch = f
                 PROVE  fault'
      OBVIOUS
    <3>1. fetch[f].kind = "curl" /\ (fetch[f].curl_handle => ~inside_curl)
      BY <1>3 DEF AbortNow
    <3>2. job.step # "stop"
      BY <3>1, <1>n DEF IInv, JobOK, PollPlaces
    <3>3. Unlinked(f)
      BY <3>1, <3>2, <1>n DEF IInv, JobOK, Gone
    <3> QED  BY <3>3, <2>2
  <2>9. JobOK'
    BY <1>3, <1>s, <1>n, <2>1, <2>2, <2>8 DEF AbortNow, IInv, JobOK, Gone, Unlinked
  <2>10. HeldOK'
    BY <1>3, <1>s, <2>1, <2>3, SilentHeld DEF AbortNow
  <2> QED  BY <1>t, <2>4, <2>5, <2>6, <2>7, <2>9, <2>10 DEF IInv
<1>4. ASSUME NEW i \in 1..Len(queue_ring), DispatchStarted(i)
      PROVE  IInv'
  <2> DEFINE f == queue_ring[i]
  <2>1. f \in Fetches /\ f \in Elems(queue_ring) /\ fetch[f].used
    BY <1>s DEF Elems, IInv, Rings
  <2>2. /\ \A g \in Fetches : g # f => fetch'[g] = fetch[g]
        /\ fetch'[f].used = fetch[f].used /\ fetch'[f].kind = fetch[f].kind
        /\ fetch'[f].fetch_is_active
        /\ fetch'[f].curl_handle = (fetch[f].kind = "curl")
        /\ fetch'[f].completed = fetch[f].completed
    <3> DEFINE b == (fetch[f].kind = "curl")
               r == [fetch[f] EXCEPT !.fetch_is_active = TRUE, !.curl_handle = b]
    <3>1. fetch' = [fetch EXCEPT ![f] = r]
      BY <1>4 DEF DispatchStarted
    <3> HIDE DEF b
    <3>2. /\ r.used = fetch[f].used /\ r.kind = fetch[f].kind /\ r.fetch_is_active
          /\ r.curl_handle = b /\ r.completed = fetch[f].completed
      BY <1>r, <2>1 DEF fetch_t
    <3> HIDE DEF r
    <3>3. fetch'[f] = r /\ \A g \in Fetches : g # f => fetch'[g] = fetch[g]
      BY <3>1, <2>1, <1>t DEF TypeOK
    <3> QED  BY <3>2, <3>3 DEF b
  <2>3. Elems(queue_ring') = Elems(queue_ring) \ {f} /\ Distinct(queue_ring')
    BY <1>4, <1>s, DropFacts DEF DispatchStarted, IInv, Rings
  <2> HIDE DEF f
  <2>4. fetch_ring' = fetch_ring \cup {f} /\ UNCHANGED <<ring, disp, phase, inside_curl, job, cb, held, fault>>
    BY <1>4 DEF DispatchStarted, f
  <2>5. Rings'
    BY <1>s, <2>1, <2>2, <2>3, <2>4 DEF IInv, Rings
  <2>6. Stopped' /\ PollPlaces'
    BY <2>4 DEF IInv, Stopped, PollPlaces
  <2>7. CurlOK'
    BY <2>1, <2>2 DEF IInv, CurlOK
  <2>8. DataRing'
    BY <1>s, <2>2, <2>4 DEF IInv, DataRing
  <2>9. JobOK'
    <3> SUFFICES ASSUME job # NONE
                 PROVE  JobOK'
      BY <2>4 DEF JobOK
    <3>1. /\ job.fetch \in Fetches /\ job' = job /\ phase' = phase /\ fault' = fault
          /\ fetch'[job.fetch].used = fetch[job.fetch].used
          /\ fetch'[job.fetch].kind = fetch[job.fetch].kind
          /\ fetch[job.fetch].curl_handle => fetch'[job.fetch].curl_handle
      BY <1>s, <2>2, <2>4 DEF IInv, CurlOK
    <3>2. Gone => job.fetch # f
      BY <1>n, <2>1 DEF IInv, JobOK, Unlinked
    <3>3. Gone' => Gone /\ Unlinked(job.fetch)
      BY <1>n, <3>1 DEF IInv, JobOK, Gone
    <3>4. Gone' => Unlinked(job.fetch)'
      BY <2>3, <2>4, <3>2, <3>3 DEF Unlinked
    <3> QED  BY <1>n, <3>1, <3>4 DEF IInv, JobOK
  <2>10. HeldOK'
    BY <1>s, <2>2, <2>4 DEF IInv, HeldOK
  <2> QED  BY <1>t, <2>5, <2>6, <2>7, <2>8, <2>9, <2>10 DEF IInv
<1>5. ASSUME NEW i \in 1..Len(queue_ring), DispatchDeferred(i)
      PROVE  IInv'
  <2>1. Elems(queue_ring') = Elems(queue_ring) /\ Distinct(queue_ring')
    <3>1. /\ Drop(queue_ring, i) \in Seq(Fetches) /\ queue_ring[i] \in Fetches
          /\ Elems(Drop(queue_ring, i)) = Elems(queue_ring) \ {queue_ring[i]}
          /\ Distinct(Drop(queue_ring, i))
          /\ queue_ring[i] \in Elems(queue_ring)
      BY <1>s, DropSeq, DropFacts DEF IInv, Rings, Elems
    <3>2. /\ Elems(Append(Drop(queue_ring, i), queue_ring[i]))
               = (Elems(queue_ring) \ {queue_ring[i]}) \cup {queue_ring[i]}
          /\ Distinct(Append(Drop(queue_ring, i), queue_ring[i]))
      BY <3>1, AppendFacts
    <3>3. queue_ring' = Append(Drop(queue_ring, i), queue_ring[i])
      BY <1>5 DEF DispatchDeferred
    <3> QED  BY <3>1, <3>2, <3>3
  <2>2. UNCHANGED <<fetch, fetch_ring, ring, job, cb, held, fault>> /\ disp' = "no"
    BY <1>5 DEF DispatchDeferred, EndDispatch
  <2>3. PollPlaces' /\ (job # NONE => phase' = phase)
    BY <1>5, <1>t DEF DispatchDeferred, EndDispatch, IInv, PollPlaces, TypeOK
  <2>4. Rings' /\ Stopped' /\ CurlOK' /\ DataRing' /\ HeldOK'
    BY <2>1, <2>2 DEF IInv, Rings, Stopped, CurlOK, DataRing, HeldOK
  <2>5. JobOK'
    BY <2>1, <2>2, <2>3 DEF IInv, JobOK, Gone, Unlinked
  <2> QED  BY <1>t, <2>3, <2>4, <2>5 DEF IInv
<1>6. CASE DispatchDone
  <2>1. PollPlaces' /\ (job # NONE => phase' = phase)
    BY <1>6, <1>t DEF DispatchDone, EndDispatch, IInv, PollPlaces, TypeOK
  <2> QED  BY <1>6, <1>q, <2>1 DEF DispatchDone
<1>7. ASSUME NEW f \in Fetches, fetch_curl_progress(f)
      PROVE  IInv'
  <2>1. fetch' = [fetch EXCEPT ![f] = fetch[f]] /\ Keep(fetch[f], fetch[f])
    BY <1>7, <1>t DEF fetch_curl_progress, TypeOK, Keep
  <2> QED  BY <1>7, <1>p, <2>1, MessageSets DEF fetch_curl_progress, Performing, PollRuns, Progressing
<1>8. ASSUME NEW f \in Fetches, fetch_curl_header(f)
      PROVE  IInv'
  <2>1. cb = NONE /\ UNCHANGED quietInPoll
    BY <1>8 DEF fetch_curl_header, Performing, PollRuns
  <2>2. CASE fetch[f].abort
    <3>1. fetch' = [fetch EXCEPT ![f] = Stop(fetch[f])] /\ UNCHANGED <<cb, held>>
      BY <1>8, <2>2 DEF fetch_curl_header
    <3> QED  BY <2>1, <3>1, <1>p, <1>r, RecordFields
  <2>3. CASE ~fetch[f].abort
    <3> DEFINE r == [fetch[f] EXCEPT !.sent_ssl_chain = TRUE]
    <3>1. fetch' = [fetch EXCEPT ![f] = r]
      BY <1>8, <2>3 DEF fetch_curl_header
    <3>2. Keep(r, fetch[f]) /\ r.completed = fetch[f].completed
      BY <1>r, RecordFields
    <3>3. \E t \in Messages, next \in {"nothing", "header", "stop", "stop if aborted"} : Deliver(f, t, next)
      BY <1>8, <2>3, MessageSets DEF fetch_curl_header, Progressing
    <3> HIDE DEF r
    <3> QED  BY <2>1, <3>1, <3>2, <3>3, <1>p
  <2> QED  BY <2>2, <2>3
<1>9. ASSUME NEW f \in Fetches, NEW o \in HeaderOutcomes, fetch_curl_data(f, o)
      PROVE  IInv'
  <2>1. cb = NONE /\ UNCHANGED quietInPoll
    BY <1>9 DEF fetch_curl_data, Performing, PollRuns
  <2>2. CASE fetch' = [fetch EXCEPT ![f] = Stop(@)] /\ UNCHANGED <<cb, held>>
    BY <2>1, <2>2, <1>p, <1>r, RecordFields
  <2>3. CASE /\ fetch' = [fetch EXCEPT ![f] = [@ EXCEPT !.had_headers = TRUE]]
             /\ Deliver(f, "DATA", "stop if aborted")
    <3> DEFINE r == [fetch[f] EXCEPT !.had_headers = TRUE]
    <3>1. fetch' = [fetch EXCEPT ![f] = r]
      BY <2>3
    <3>2. Keep(r, fetch[f]) /\ r.completed = fetch[f].completed
      BY <1>r, RecordFields
    <3>3. \E t \in Messages, next \in {"nothing", "header", "stop", "stop if aborted"} : Deliver(f, t, next)
      BY <2>3, MessageSets DEF Progressing
    <3> HIDE DEF r
    <3> QED  BY <2>1, <3>1, <3>2, <3>3, <1>p
  <2>4. CASE /\ o \in HeaderOutcomes \ {"go on", "AUTH"}
             /\ fetch' = [fetch EXCEPT ![f] = Told([@ EXCEPT !.had_headers = TRUE], o)]
             /\ Deliver(f, o, "stop")
    <3> DEFINE r == Told([fetch[f] EXCEPT !.had_headers = TRUE], o)
    <3>1. fetch' = [fetch EXCEPT ![f] = r] /\ o \in Messages
      BY <2>4, MessageSets
    <3>2. Keep(r, fetch[f]) /\ (o \in Progressing => r.completed = fetch[f].completed)
      BY <1>r, <3>1, RecordFields
    <3> HIDE DEF r
    <3> QED  BY <2>1, <2>4, <3>1, <3>2, <1>p
  <2> QED  BY <1>9, <2>2, <2>3, <2>4 DEF fetch_curl_data
<1>10. ASSUME NEW f \in Fetches, NEW res \in Results, TransferEnds(f, res)
       PROVE  IInv'
  <2> DEFINE r == [fetch[f] EXCEPT !.result = res]
  <2>1. /\ fetch' = [fetch EXCEPT ![f] = r]
        /\ cb = NONE /\ UNCHANGED <<cb, held, quietInPoll>>
    BY <1>10 DEF TransferEnds, Performing, PollRuns
  <2>2. Keep(r, fetch[f]) /\ r.completed = fetch[f].completed
    BY <1>r, RecordFields
  <2> HIDE DEF r
  <2> QED  BY <2>1, <2>2, <1>p
<1>11. CASE ClientReturns
  <2>1. cb # NONE /\ cb.fetch \in Fetches /\ UNCHANGED <<held, quietInPoll>>
    BY <1>11, <1>t DEF ClientReturns, TypeOK, cb_t
  <2>2. fetch' = fetch \/ fetch' = [fetch EXCEPT ![cb.fetch] = Stop(fetch[cb.fetch])]
    BY <1>11 DEF ClientReturns
  <2>3. \A g \in Fetches : Keep(fetch'[g], fetch[g]) /\ fetch'[g].completed = fetch[g].completed
    <3>1. CASE fetch' = fetch
      BY <3>1 DEF Keep
    <3>2. CASE fetch' = [fetch EXCEPT ![cb.fetch] = Stop(fetch[cb.fetch])]
      <4>1. Keep(Stop(fetch[cb.fetch]), fetch[cb.fetch])
            /\ Stop(fetch[cb.fetch]).completed = fetch[cb.fetch].completed
        BY <2>1, <1>r, RecordFields
      <4> QED  BY <3>2, <4>1, <2>1, <1>t DEF TypeOK, Keep
    <3> QED  BY <2>2, <3>1, <3>2
  <2>4. HeldOK'
    <3>1. \A g \in held : ~(cb.fetch = g /\ cb.type \in AbortOn)
      BY <1>11 DEF ClientReturns
    <3> QED  BY <1>s, <2>1, <2>3, <3>1, SilentHeld DEF Keep
  <2>5. PollPlaces'
    BY <2>1 DEF IInv, PollPlaces, quietInPoll
  <2> QED  BY <1>t, <1>n, <2>1, <2>3, <2>4, <2>5, QuietStep DEF IInv, quietInPoll
<1>12. CASE fetcher_poll
  <2>1. PollPlaces' /\ (job # NONE => phase' = phase)
    BY <1>12 DEF fetcher_poll, IInv, PollPlaces
  <2> QED  BY <1>12, <1>q, <2>1 DEF fetcher_poll
<1>13. CASE fetch_fdset
  <2>1. PollPlaces' /\ (job # NONE => phase' = phase)
    BY <1>13 DEF fetch_fdset, IInv, PollPlaces
  <2> QED  BY <1>13, <1>q, <2>1 DEF fetch_fdset
<1>14. CASE PerformReturns
  <2>1. PollPlaces' /\ (job # NONE => phase' = phase)
    BY <1>14 DEF PerformReturns, PollRuns, IInv, PollPlaces
  <2> QED  BY <1>14, <1>q, <2>1 DEF PerformReturns
<1>15. CASE PerformFails
  <2>1. PollPlaces' /\ (job # NONE => phase' = phase)
    BY <1>15 DEF PerformFails, PollRuns, IInv, PollPlaces
  <2> QED  BY <1>15, <1>q, <2>1 DEF PerformFails
<1>16. ASSUME NEW f \in Fetches, NEW o \in HeaderOutcomes, fetch_curl_done(f, o)
       PROVE  IInv'
  <2>1. /\ cb = NONE /\ phase = "info" /\ job = NONE /\ fetch[f].curl_handle
        /\ fetch[f].used /\ fetch[f].kind = "curl"
        /\ UNCHANGED <<queue_ring, fetch_ring, ring, inside_curl, disp, phase, fault>>
    BY <1>16 DEF fetch_curl_done, PollRuns, IInv, CurlOK
  <2>2. /\ job' # NONE /\ job'.fetch = f /\ job'.step = "stop"
        /\ Elems(job'.tell) \subseteq ForgetOn
    <3>1. Outcome(fetch[f], o # "go on") \in Seq(ForgetOn)
      BY <1>16, <1>r, OutcomeType DEF fetch_curl_done
    <3>2. Elems(Outcome(fetch[f], o # "go on")) \subseteq ForgetOn
      BY <3>1, ElemsFacts
    <3>3. job' = [fetch |-> f, step |-> "stop", tell |-> Outcome(fetch[f], o # "go on")]
      BY <1>16 DEF fetch_curl_done
    <3>4. job' \in job_t
      <4>1. Outcome(fetch[f], o # "go on") \in Seq(Messages)
        BY <1>16, <1>r, OutcomeType DEF fetch_curl_done
      <4> QED  BY <3>3, <4>1 DEF job_t
    <3> QED  BY <3>2, <3>3, <3>4, NoneAssumption
  <2>3. \A g \in Fetches : Keep(fetch'[g], fetch[g]) /\ (g # f => fetch'[g] = fetch[g])
    <3>1. CASE o = "go on"
      <4> DEFINE r == [fetch[f] EXCEPT !.had_headers = fetch[f].had_headers \/ LooksAtHeaders(fetch[f])]
      <4>1. fetch' = [fetch EXCEPT ![f] = r]
        BY <1>16, <3>1 DEF fetch_curl_done
      <4>2. Keep(r, fetch[f])
        BY <1>r, RecordFields
      <4> HIDE DEF r
      <4> QED  BY <4>1, <4>2, <1>t DEF TypeOK, Keep
    <3>2. CASE o # "go on"
      <4> DEFINE r == Told([fetch[f] EXCEPT !.had_headers = TRUE], o)
      <4>1. fetch' = [fetch EXCEPT ![f] = r] /\ o \in Messages
        BY <1>16, <3>2, MessageSets DEF fetch_curl_done
      <4>2. Keep(r, fetch[f])
        BY <1>r, <4>1, RecordFields
      <4> HIDE DEF r
      <4> QED  BY <4>1, <4>2, <1>t DEF TypeOK, Keep
    <3> QED  BY <3>1, <3>2
  <2>4. HeldOK'
    <3>1. CASE o = "go on"
      <4>1. fetch'[f].completed = fetch[f].completed /\ UNCHANGED <<cb, held>>
        <5> DEFINE r == [fetch[f] EXCEPT !.had_headers = fetch[f].had_headers \/ LooksAtHeaders(fetch[f])]
        <5>1. fetch' = [fetch EXCEPT ![f] = r] /\ UNCHANGED <<cb, held>>
          BY <1>16, <3>1 DEF fetch_curl_done
        <5>2. r.completed = fetch[f].completed
          BY <1>r, RecordFields
        <5> HIDE DEF r
        <5> QED  BY <5>1, <5>2, <1>t DEF TypeOK
      <4> QED  BY <1>s, <2>3, <4>1, SilentHeld DEF Keep
    <3>2. CASE o # "go on"
      <4>1. Deliver(f, o, "nothing") /\ o \in Messages /\ o \notin Progressing
        BY <1>16, <3>2, MessageSets DEF fetch_curl_done, HeaderOutcomes, Progressing
      <4> QED  BY <2>1, <2>3, <4>1, DeliverHeld DEF Keep
    <3> QED  BY <3>1, <3>2
  <2>5. PollPlaces'
    BY <2>1 DEF IInv, PollPlaces
  <2>6. DataRing'
    BY <1>s, <2>1, <2>2, <2>3 DEF IInv, DataRing, Keep
  <2>7. JobOK'
    BY <2>1, <2>2, <2>3 DEF JobOK, Gone, Keep
  <2> QED  BY <1>t, <1>n, <2>1, <2>3, <2>4, <2>5, <2>6, <2>7, QuietStep DEF IInv
<1>17. CASE fetch_curl_stop
  <2> DEFINE f == job.fetch
  <2>1. /\ cb = NONE /\ job # NONE /\ job.step = "stop" /\ f \in Fetches
        /\ fetch[f].used /\ fetch[f].kind = "curl"
        /\ UNCHANGED <<ring, inside_curl, disp, phase>>
        /\ disp = "no"
    BY <1>17, <1>s, <1>n DEF fetch_curl_stop, AtStep, PollRuns, IInv, JobOK, CurlOK
  <2>2. /\ \A g \in Fetches : g # f => fetch'[g] = fetch[g]
        /\ fetch'[f].used = fetch[f].used
        /\ fetch'[f].kind = fetch[f].kind /\ ~fetch'[f].curl_handle
        /\ fetch'[f].fetch_is_active = fetch[f].fetch_is_active
        /\ fetch'[f].completed = fetch[f].completed
    <3> DEFINE r == [fetch[f] EXCEPT !.curl_handle = FALSE, !.sent_ssl_chain = TRUE]
    <3>1. fetch' = [fetch EXCEPT ![f] = r]
      BY <1>17 DEF fetch_curl_stop
    <3>2. /\ r.used = fetch[f].used /\ r.kind = fetch[f].kind /\ ~r.curl_handle
          /\ r.fetch_is_active = fetch[f].fetch_is_active /\ r.completed = fetch[f].completed
      BY <1>r, <2>1 DEF fetch_t
    <3> HIDE DEF r
    <3>3. fetch'[f] = r /\ \A g \in Fetches : g # f => fetch'[g] = fetch[g]
      BY <3>1, <2>1, <1>t DEF TypeOK
    <3> QED  BY <3>2, <3>3
  <2>3. job' # NONE /\ job'.fetch = f /\ job'.step = "tell" /\ job'.tell = job.tell
    <3>1. job' = [job EXCEPT !.step = "tell"]
      BY <1>17 DEF fetch_curl_stop
    <3>2. job' \in job_t
      BY <3>1, <2>1, <1>s DEF job_t
    <3> QED  BY <3>1, <3>2, <2>1, <1>s, NoneAssumption DEF job_t
  <2>4. /\ fetch_ring' \subseteq fetch_ring /\ f \notin fetch_ring'
        /\ Elems(queue_ring') = Elems(queue_ring) \ {f}
        /\ Distinct(queue_ring')
    BY <1>17, <2>1, RemoveFacts DEF fetch_curl_stop
  <2>5. HeldOK'
    <3>1. CASE Certs /\ ~fetch[job.fetch].sent_ssl_chain
      <4>1. Deliver(f, "CERTS", "nothing") /\ "CERTS" \in Messages
        BY <1>17, <3>1, MessageSets DEF fetch_curl_stop, Progressing
      <4> QED  BY <2>1, <2>2, <4>1, DeliverHeld
    <3>2. CASE ~(Certs /\ ~fetch[job.fetch].sent_ssl_chain)
      <4>1. UNCHANGED <<cb, held>>
        BY <1>17, <3>2 DEF fetch_curl_stop
      <4> QED  BY <1>s, <2>1, <2>2, <4>1, SilentHeld
    <3> QED  BY <3>1, <3>2
  <2> HIDE DEF f
  <2>6. Rings'
    BY <1>s, <2>2, <2>4 DEF IInv, Rings
  <2>7. Stopped' /\ PollPlaces'
    BY <2>1, <2>3 DEF IInv, Stopped, PollPlaces, f
  <2>8. CurlOK'
    BY <2>2 DEF IInv, CurlOK
  <2>9. DataRing'
    BY <1>s, <2>1, <2>2, <2>3 DEF IInv, DataRing, f
  <2>10. JobOK'
    BY <1>n, <2>1, <2>2, <2>3, <2>4 DEF IInv, JobOK, Gone, Unlinked, f
  <2> QED  BY <1>t, <2>5, <2>6, <2>7, <2>8, <2>9, <2>10 DEF IInv
<1>18. CASE Tell
  <2> DEFINE f == job.fetch
             t == Head(job.tell)
             r == Told(fetch[f], t)
  <2>1. /\ cb = NONE /\ job # NONE /\ job.step = "tell" /\ f \in Fetches
        /\ job.tell # << >> /\ t \in Messages
        /\ UNCHANGED <<queue_ring, fetch_ring, ring, inside_curl, disp, phase, fault>>
    BY <1>18, <1>s DEF Tell, AtStep, PollRuns
  <2>2. Keep(r, fetch[f]) /\ (t \in Progressing => r.completed = fetch[f].completed)
    BY <1>r, <2>1, RecordFields
  <2>3. fetch' = [fetch EXCEPT ![f] = r] /\ Deliver(f, t, "nothing")
    BY <1>18 DEF Tell
  <2>4. /\ job' # NONE /\ job'.fetch = f /\ job'.step = "tell"
        /\ Elems(job'.tell) \subseteq Elems(job.tell)
    <3>1. job' = [job EXCEPT !.tell = Tail(job.tell)] /\ Tail(job.tell) \in Seq(Messages)
      BY <1>18, <1>s, <2>1 DEF Tell
    <3>2. job' \in job_t
      BY <3>1, <2>1, <1>s DEF job_t
    <3>3. Elems(Tail(job.tell)) \subseteq Elems(job.tell)
      BY <1>s, <2>1, TailFacts
    <3> QED  BY <3>1, <3>2, <3>3, <2>1, <1>s, NoneAssumption DEF job_t
  <2> HIDE DEF r
  <2>5. \A g \in Fetches : Keep(fetch'[g], fetch[g]) /\ (g # f => fetch'[g] = fetch[g])
    BY <1>t, <2>2, <2>3 DEF TypeOK, Keep
  <2>6. HeldOK'
    <3>1. t \in Progressing => fetch'[f].completed = fetch[f].completed
      BY <1>t, <2>1, <2>2, <2>3 DEF TypeOK
    <3> QED  BY <2>1, <2>3, <2>5, <3>1, DeliverHeld DEF Keep
  <2> HIDE DEF f, t
  <2>7. PollPlaces'
    BY <2>1 DEF IInv, PollPlaces
  <2>8. DataRing'
    BY <1>s, <2>1, <2>4, <2>5 DEF IInv, DataRing, Keep, f
  <2>9. JobOK'
    BY <1>n, <2>1, <2>4, <2>5 DEF IInv, JobOK, Gone, Unlinked, Keep, f
  <2> QED  BY <1>t, <1>n, <2>1, <2>5, <2>6, <2>7, <2>8, <2>9, QuietStep DEF IInv
<1>19. CASE ToldAll
  <2> DEFINE f == job.fetch
  <2>1. /\ cb = NONE /\ job # NONE /\ job.step = "tell" /\ f \in Fetches /\ disp = "no"
        /\ UNCHANGED <<fetch, ring, inside_curl, disp, phase, cb, held>>
    BY <1>19, <1>s DEF ToldAll, AtStep, PollRuns
  <2>2. job' # NONE /\ job'.fetch = f /\ job'.step = "free" /\ job'.tell = job.tell
    <3>1. job' = [job EXCEPT !.step = "free"]
      BY <1>19 DEF ToldAll
    <3>2. job' \in job_t
      BY <3>1, <2>1, <1>s DEF job_t
    <3> QED  BY <3>1, <3>2, <2>1, <1>s, NoneAssumption DEF job_t
  <2>3. /\ fetch_ring' \subseteq fetch_ring /\ f \notin fetch_ring'
        /\ Elems(queue_ring') = Elems(queue_ring) \ {f}
        /\ Distinct(queue_ring')
    <3>1. CASE fetch[f].kind = "data"
      BY <1>19, <2>1, <3>1, RemoveFacts DEF ToldAll
    <3>2. CASE fetch[f].kind # "data"
      <4>1. fetch[f].kind = "curl"
        BY <3>2, <2>1, <1>r DEF fetch_t, Kinds
      <4>2. Unlinked(f)
        BY <4>1, <2>1, <1>n DEF IInv, JobOK, Gone
      <4> QED  BY <1>19, <3>2, <4>2 DEF ToldAll, IInv, Rings, Unlinked
    <3> QED  BY <3>1, <3>2
  <2> HIDE DEF f
  <2>4. Rings'
    BY <1>s, <2>1, <2>3 DEF IInv, Rings
  <2>5. Stopped' /\ PollPlaces'
    BY <2>1, <2>2 DEF IInv, Stopped, PollPlaces
  <2>6. CurlOK' /\ HeldOK'
    BY <2>1 DEF IInv, CurlOK, HeldOK
  <2>7. DataRing'
    BY <2>1, <2>2 DEF IInv, DataRing, f
  <2>8. JobOK'
    BY <1>n, <2>1, <2>2, <2>3 DEF IInv, JobOK, Gone, Unlinked, f
  <2> QED  BY <1>t, <2>4, <2>5, <2>6, <2>7, <2>8 DEF IInv
<1>20. CASE FreeJob
  <2> DEFINE f == job.fetch
  <2>1. /\ cb = NONE /\ job # NONE /\ job.step = "free" /\ f \in Fetches
        /\ UNCHANGED <<queue_ring, fetch_ring, ring, inside_curl, disp, phase, fault>>
        /\ fetch[f].used /\ Unlinked(f)
    BY <1>20, <1>s, <1>n DEF FreeJob, AtStep, PollRuns, IInv, JobOK, Gone
  <2>2. CASE fetch[f].completed
    <3>1. /\ \A g \in Fetches : g # f => fetch'[g] = fetch[g]
          /\ ~fetch'[f].curl_handle /\ job' = NONE /\ UNCHANGED <<cb, held>>
      BY <1>20, <1>t, <2>1, <2>2 DEF FreeJob, fetch_free, TypeOK, Free
    <3>2. f \notin held /\ f \notin Elems(ring)
      BY <2>1, <2>2 DEF IInv, HeldOK, DataRing
    <3> HIDE DEF f
    <3>3. Rings'
      BY <1>s, <2>1, <3>1 DEF IInv, Rings, Unlinked
    <3>4. Stopped' /\ PollPlaces'
      BY <2>1, <3>1 DEF IInv, Stopped, PollPlaces
    <3>5. CurlOK'
      BY <3>1 DEF IInv, CurlOK
    <3>6. DataRing'
      BY <1>s, <2>1, <3>1, <3>2 DEF IInv, DataRing
    <3>7. JobOK'
      BY <3>1 DEF JobOK
    <3>8. HeldOK'
      BY <1>s, <3>1, <3>2, SilentHeld
    <3> QED  BY <1>t, <3>3, <3>4, <3>5, <3>6, <3>7, <3>8 DEF IInv
  <2>3. CASE ~fetch[f].completed
    <3> DEFINE r == [fetch[f] EXCEPT !.completed = TRUE]
    <3>1. fetch' = [fetch EXCEPT ![f] = r] /\ Deliver(f, "ERROR", "nothing") /\ job' = job
      BY <1>20, <2>3 DEF FreeJob
    <3>2. Keep(r, fetch[f])
      BY <1>r, <2>1, RecordFields
    <3> HIDE DEF r
    <3>3. \A g \in Fetches : Keep(fetch'[g], fetch[g]) /\ (g # f => fetch'[g] = fetch[g])
      BY <1>t, <3>1, <3>2 DEF TypeOK, Keep
    <3>4. "ERROR" \in Messages /\ "ERROR" \notin Progressing
      BY DEF Messages, ForgetOn, Progressing
    <3>5. HeldOK'
      BY <2>1, <3>1, <3>3, <3>4, DeliverHeld DEF Keep
    <3>6. PollPlaces'
      BY <2>1, <3>1 DEF IInv, PollPlaces
    <3> QED  BY <1>t, <1>n, <2>1, <3>1, <3>3, <3>5, <3>6, QuietStep DEF IInv
  <2> QED  BY <2>2, <2>3
<1>21. CASE InfoDone
  <2>1. PollPlaces' /\ (job # NONE => phase' = phase)
    BY <1>21 DEF InfoDone, PollRuns, IInv, PollPlaces
  <2> QED  BY <1>21, <1>q, <2>1 DEF InfoDone
<1>22. ASSUME NEW reply \in DataReplies, fetch_data_process(reply)
       PROVE  IInv'
  <2> DEFINE f == Head(ring)
  <2>1. /\ phase = "data" /\ job = NONE /\ ring # << >>
        /\ UNCHANGED <<fetch, queue_ring, fetch_ring, inside_curl, disp, phase, cb, held, fault>>
        /\ ring' = Tail(ring)
    BY <1>22 DEF fetch_data_process
  <2>2. /\ f \in Elems(ring) /\ Elems(ring') \subseteq Elems(ring)
        /\ f \notin Elems(ring') /\ Distinct(ring')
    BY <1>s, <2>1, TailFacts DEF IInv, DataRing
  <2>3. fetch[f].used /\ fetch[f].kind = "data"
    BY <2>2 DEF IInv, DataRing
  <2>4. job' # NONE /\ job'.fetch = f /\ job'.step = "tell"
    <3>1. job' = [fetch |-> f, step |-> "tell", tell |-> reply]
      BY <1>22 DEF fetch_data_process
    <3>2. job' \in job_t
      BY <3>1, <2>2, <1>s, ReplyType DEF job_t
    <3> QED  BY <3>1, <3>2, NoneAssumption
  <2> HIDE DEF f
  <2>5. Rings' /\ CurlOK' /\ HeldOK' /\ Stopped'
    BY <2>1 DEF IInv, Rings, CurlOK, HeldOK, Stopped
  <2>6. PollPlaces'
    BY <2>1 DEF IInv, PollPlaces
  <2>7. DataRing'
    BY <2>1, <2>2, <2>4 DEF IInv, DataRing
  <2>8. JobOK'
    BY <2>1, <2>3, <2>4 DEF JobOK, Gone
  <2> QED  BY <1>t, <2>5, <2>6, <2>7, <2>8 DEF IInv
<1>23. ASSUME NEW fds \in BOOLEAN, PollEnds(fds)
       PROVE  IInv'
  <2>1. PollPlaces' /\ (job # NONE => phase' = phase)
    BY <1>23 DEF PollEnds, PollRuns, IInv, PollPlaces
  <2> QED  BY <1>23, <1>q, <2>1 DEF PollEnds
<1> QED
  BY <1>1, <1>2, <1>3, <1>4, <1>5, <1>6, <1>7, <1>8, <1>9, <1>10, <1>11, <1>12, <1>13, <1>14,
     <1>15, <1>16, <1>17, <1>18, <1>19, <1>20, <1>21, <1>22, <1>23
  DEF Next, Client, Dispatch, Transfer, Poll, PollGoesOn

LEMMA InvInit == Init => IInv
<1> SUFFICES ASSUME Init
             PROVE  IInv
  OBVIOUS
<1>1. TypeOK
  <2>1. Free \in fetch_t
    BY DEF Free, fetch_t, Kinds
  <2>2. << >> \in Seq(Fetches)
    OBVIOUS
  <2>3. [f \in Fetches |-> Free] \in [Fetches -> fetch_t] /\ [k \in Kinds |-> 1] \in [Kinds -> Int]
    BY <2>1
  <2> QED  BY <2>2, <2>3 DEF Init, TypeOK
<1>2. Elems(queue_ring) = {} /\ Elems(ring) = {} /\ Distinct(queue_ring) /\ Distinct(ring)
  BY DEF Init, Elems, Distinct
<1>3. \A f \in Fetches : ~fetch[f].curl_handle
  BY DEF Init, Free
<1> QED  BY <1>1, <1>2, <1>3 DEF Init, IInv, Rings, Stopped, PollPlaces, CurlOK, DataRing, JobOK, HeldOK

LEMMA Inductive == Spec => []IInv
  BY InvInit, InvStep, PTL DEF Spec

\* Every fetch in a ring is allocated, is in the ring its fetch_is_active flag
\* names, and is there once: what fetch_remove_from_queues() relies on.
THEOREM RingsStayConsistent == Spec => []RingsConsistent
<1>1. IInv => RingsConsistent
  BY DEF IInv, Rings, RingsConsistent, Elems, Distinct
<1> QED  BY <1>1, Inductive, PTL

\* The client never holds a pointer to a freed fetch, whichever callback it
\* aborts from and however the transfer ends.
THEOREM ClientPointersValid == Spec => []HeldIsUsed
<1>1. IInv => HeldIsUsed
  BY DEF IInv, HeldOK, HeldIsUsed
<1> QED  BY <1>1, Inductive, PTL

-----------------------------------------------------------------------------
(* Allocation: what a step may do to the fetches in use.                   *)

Same(q, r) == q.used = r.used /\ q.kind = r.kind /\ q.host = r.host

Kept(q, r) == Same(q, r) /\ q.fetch_is_active = r.fetch_is_active

NoChange == /\ \A f \in Fetches : Kept(fetch'[f], fetch[f])
            /\ refcount' = refcount

NoAllocation == /\ \A f \in Fetches : Same(fetch'[f], fetch[f])
                /\ refcount' = refcount

Allocates(f) == /\ ~fetch[f].used /\ fetch'[f].used
                /\ \A g \in Fetches : g # f => fetch'[g] = fetch[g]
                /\ refcount' = [refcount EXCEPT ![fetch'[f].kind] = @ + 1]

Frees(f) == /\ fetch[f].used /\ ~fetch'[f].used
            /\ \A g \in Fetches : g # f => fetch'[g] = fetch[g]
            /\ refcount' = [refcount EXCEPT ![fetch[f].kind] = @ - 1]

\* A step allocates a fetch, or frees one that is in use, or does neither; only
\* a successful start changes a flag then.
LEMMA AllocationStep ==
    ASSUME IInv, Next
    PROVE  \/ NoChange
           \/ NoAllocation /\ \E i \in 1..Len(queue_ring) : DispatchStarted(i)
           \/ \E f \in Fetches : Allocates(f) \/ Frees(f)
<1>t. TypeOK /\ \A f \in Fetches : fetch[f] \in fetch_t
  BY DEF IInv, TypeOK
<1>n. ASSUME job # NONE
      PROVE  job.fetch \in Fetches
  BY <1>n DEF IInv, TypeOK, job_t
<1>u. ASSUME NEW f \in Fetches, NEW r, fetch' = [fetch EXCEPT ![f] = r], Kept(r, fetch[f]),
             refcount' = refcount
      PROVE  NoChange
  BY <1>u, <1>t DEF TypeOK, NoChange, Kept, Same
<1>f. ASSUME NEW f \in Fetches, fetch[f].used, fetch_free(f)
      PROVE  Frees(f)
  <2>1. fetch' = [fetch EXCEPT ![f] = Free] /\ ~Free.used
    BY <1>f DEF fetch_free, Free
  <2> QED  BY <1>f, <1>t, <2>1 DEF fetch_free, TypeOK, Frees
<1>0. ASSUME fetch' = fetch, refcount' = refcount
      PROVE  NoChange
  BY <1>0 DEF NoChange, Kept, Same
<1>k. \A q, r : Keep(q, r) => Kept(q, r)
  BY DEF Keep, Kept, Same
<1>1. ASSUME NEW f \in Fetches, NEW k \in Kinds, NEW h \in Hosts \cup {NoHost}, fetch_start(f, k, h)
      PROVE  Allocates(f)
  <2>1. fetch' = [fetch EXCEPT ![f] = New(k, h)] /\ New(k, h).used /\ New(k, h).kind = k
    BY <1>1 DEF fetch_start, New, Free
  <2> QED  BY <1>1, <1>t, <2>1 DEF fetch_start, TypeOK, Allocates
<1>2. ASSUME NEW f \in Fetches, AbortDeferred(f)
      PROVE  NoChange
  <2> DEFINE r == [fetch[f] EXCEPT !.completed = TRUE, !.abort = TRUE]
  <2>1. fetch' = [fetch EXCEPT ![f] = r] /\ refcount' = refcount
    BY <1>2 DEF AbortDeferred
  <2>2. Kept(r, fetch[f])
    BY <1>t, <1>k, RecordFields
  <2> HIDE DEF r
  <2> QED  BY <2>1, <2>2, <1>u
<1>3. ASSUME NEW f \in Fetches, AbortNow(f)
      PROVE  Frees(f)
  BY <1>3, <1>f DEF AbortNow, IInv, HeldOK
<1>4. ASSUME NEW i \in 1..Len(queue_ring), DispatchStarted(i)
      PROVE  NoAllocation
  <2> DEFINE f == queue_ring[i]
             b == (fetch[f].kind = "curl")
             r == [fetch[f] EXCEPT !.fetch_is_active = TRUE, !.curl_handle = b]
  <2>1. fetch' = [fetch EXCEPT ![f] = r] /\ refcount' = refcount /\ f \in Fetches
    BY <1>4, <1>t DEF DispatchStarted, TypeOK
  <2> HIDE DEF b
  <2>2. Same(r, fetch[f])
    BY <1>t, <2>1 DEF fetch_t, Same
  <2> HIDE DEF f, r
  <2> QED  BY <2>1, <2>2, <1>t DEF TypeOK, NoAllocation, Same
<1>5. ASSUME NEW i \in 1..Len(queue_ring), DispatchDeferred(i)
      PROVE  NoChange
  BY <1>5, <1>0 DEF DispatchDeferred
<1>6. CASE DispatchDone
  BY <1>6, <1>0 DEF DispatchDone
<1>7. ASSUME NEW f \in Fetches, fetch_curl_progress(f)
      PROVE  NoChange
  BY <1>7, <1>0 DEF fetch_curl_progress, quietInPoll
<1>8. ASSUME NEW f \in Fetches, fetch_curl_header(f)
      PROVE  NoChange
  <2>1. Kept(Stop(fetch[f]), fetch[f]) /\ Kept([fetch[f] EXCEPT !.sent_ssl_chain = TRUE], fetch[f])
    BY <1>t, <1>k, RecordFields
  <2>2. /\ refcount' = refcount
        /\ \/ fetch' = [fetch EXCEPT ![f] = Stop(fetch[f])]
           \/ fetch' = [fetch EXCEPT ![f] = [fetch[f] EXCEPT !.sent_ssl_chain = TRUE]]
    BY <1>8 DEF fetch_curl_header, quietInPoll
  <2> QED  BY <2>1, <2>2, <1>u
<1>9. ASSUME NEW f \in Fetches, NEW o \in HeaderOutcomes, fetch_curl_data(f, o)
      PROVE  NoChange
  <2>1. /\ Kept(Stop(fetch[f]), fetch[f])
        /\ Kept([fetch[f] EXCEPT !.had_headers = TRUE], fetch[f])
        /\ o # "go on" => Kept(Told([fetch[f] EXCEPT !.had_headers = TRUE], o), fetch[f])
    BY <1>t, <1>k, RecordFields, MessageSets
  <2>2. /\ refcount' = refcount
        /\ \/ fetch' = [fetch EXCEPT ![f] = Stop(fetch[f])]
           \/ fetch' = [fetch EXCEPT ![f] = [fetch[f] EXCEPT !.had_headers = TRUE]]
           \/ /\ o # "go on"
              /\ fetch' = [fetch EXCEPT ![f] = Told([fetch[f] EXCEPT !.had_headers = TRUE], o)]
    BY <1>9 DEF fetch_curl_data, quietInPoll
  <2> QED  BY <2>1, <2>2, <1>u
<1>10. ASSUME NEW f \in Fetches, NEW res \in Results, TransferEnds(f, res)
       PROVE  NoChange
  <2> DEFINE r == [fetch[f] EXCEPT !.result = res]
  <2>1. fetch' = [fetch EXCEPT ![f] = r] /\ refcount' = refcount
    BY <1>10 DEF TransferEnds, quietInPoll
  <2>2. Kept(r, fetch[f])
    BY <1>t, <1>k, RecordFields
  <2> HIDE DEF r
  <2> QED  BY <2>1, <2>2, <1>u
<1>11. CASE ClientReturns
  <2>1. cb.fetch \in Fetches
    BY <1>11, <1>t DEF ClientReturns, TypeOK, cb_t
  <2>2. Kept(Stop(fetch[cb.fetch]), fetch[cb.fetch])
    BY <1>t, <2>1, <1>k, RecordFields
  <2>3. /\ refcount' = refcount
        /\ fetch' = fetch \/ fetch' = [fetch EXCEPT ![cb.fetch] = Stop(fetch[cb.fetch])]
    BY <1>11 DEF ClientReturns, quietInPoll
  <2> QED  BY <2>1, <2>2, <2>3, <1>u, <1>0
<1>12. CASE fetcher_poll \/ fetch_fdset \/ PerformReturns \/ PerformFails \/ InfoDone \/ ToldAll
  BY <1>12, <1>0 DEF fetcher_poll, fetch_fdset, PerformReturns, PerformFails, InfoDone, ToldAll
<1>13. ASSUME NEW f \in Fetches, NEW o \in HeaderOutcomes, fetch_curl_done(f, o)
       PROVE  NoChange
  <2> DEFINE q == [fetch[f] EXCEPT !.had_headers = fetch[f].had_headers \/ LooksAtHeaders(fetch[f])]
             r == Told([fetch[f] EXCEPT !.had_headers = TRUE], o)
  <2>1. Kept(q, fetch[f]) /\ (o # "go on" => Kept(r, fetch[f]))
    BY <1>t, <1>k, RecordFields, MessageSets
  <2>2. /\ refcount' = refcount
        /\ \/ fetch' = [fetch EXCEPT ![f] = q]
           \/ o # "go on" /\ fetch' = [fetch EXCEPT ![f] = r]
    BY <1>13 DEF fetch_curl_done
  <2> HIDE DEF q, r
  <2> QED  BY <2>1, <2>2, <1>u
<1>14. CASE fetch_curl_stop
  <2> DEFINE f == job.fetch
             r == [fetch[f] EXCEPT !.curl_handle = FALSE, !.sent_ssl_chain = TRUE]
  <2>1. fetch' = [fetch EXCEPT ![f] = r] /\ refcount' = refcount /\ f \in Fetches
    BY <1>14, <1>n DEF fetch_curl_stop, AtStep
  <2>2. Kept(r, fetch[f])
    BY <1>t, <2>1 DEF fetch_t, Kept, Same
  <2> HIDE DEF f, r
  <2> QED  BY <2>1, <2>2, <1>u
<1>15. CASE Tell
  <2> DEFINE f == job.fetch
             r == Told(fetch[f], Head(job.tell))
  <2>1. /\ fetch' = [fetch EXCEPT ![f] = r] /\ refcount' = refcount
        /\ f \in Fetches /\ Head(job.tell) \in Messages
    BY <1>15, <1>n, <1>t DEF Tell, AtStep, TypeOK, job_t
  <2>2. Kept(r, fetch[f])
    BY <1>t, <2>1, <1>k, RecordFields
  <2> HIDE DEF f, r
  <2> QED  BY <2>1, <2>2, <1>u
<1>16. CASE FreeJob
  <2> DEFINE f == job.fetch
             r == [fetch[f] EXCEPT !.completed = TRUE]
  <2>1. f \in Fetches /\ fetch[f].used
    BY <1>16, <1>n DEF FreeJob, AtStep, PollRuns, IInv, JobOK
  <2>2. \/ fetch_free(f)
        \/ fetch' = [fetch EXCEPT ![f] = r] /\ refcount' = refcount
    BY <1>16 DEF FreeJob
  <2>3. Kept(r, fetch[f])
    BY <1>t, <2>1, <1>k, RecordFields
  <2> HIDE DEF f, r
  <2> QED  BY <2>1, <2>2, <2>3, <1>u, <1>f
<1>17. ASSUME NEW reply \in DataReplies, fetch_data_process(reply)
       PROVE  NoChange
  BY <1>17, <1>0 DEF fetch_data_process
<1>18. ASSUME NEW fds \in BOOLEAN, PollEnds(fds)
       PROVE  NoChange
  BY <1>18, <1>0 DEF PollEnds
<1> QED
  BY <1>1, <1>2, <1>3, <1>4, <1>5, <1>6, <1>7, <1>8, <1>9, <1>10, <1>11, <1>12, <1>13, <1>14,
     <1>15, <1>16, <1>17, <1>18
  DEF Next, Client, Dispatch, Transfer, Poll, PollGoesOn

LEMMA Allocation ==
    ASSUME IInv, Next
    PROVE  NoAllocation \/ \E f \in Fetches : Allocates(f) \/ Frees(f)
  BY AllocationStep DEF NoChange, NoAllocation, Kept

InUse(k) == { f \in Fetches : fetch[f].used /\ fetch[f].kind = k }

\* fetch_start() and fetch_free() keep each fetcher's reference count at one
\* for its registration plus one for each of its fetches, so a fetcher in use
\* is never finalised.
THEOREM RefcountsExact == Spec => []RefcountExact
<1>1. Init => RefcountExact
  <2> SUFFICES ASSUME Init
               PROVE  RefcountExact
    OBVIOUS
  <2>1. \A k \in Kinds : { f \in Fetches : fetch[f].used /\ fetch[f].kind = k } = {} /\ refcount[k] = 1
    BY DEF Init, Free
  <2> QED  BY <2>1, FS_EmptySet DEF RefcountExact
<1>2. IInv /\ RefcountExact /\ [Next]_vars => RefcountExact'
  <2> SUFFICES ASSUME IInv, RefcountExact, Next
               PROVE  RefcountExact'
    <3>1. CASE UNCHANGED vars
      BY <3>1 DEF vars, RefcountExact
    <3> QED  BY <3>1
  <2> SUFFICES ASSUME NEW k \in Kinds
               PROVE  refcount'[k] = 1 + Cardinality(InUse(k)')
    BY DEF RefcountExact, InUse
  <2>t. refcount \in [Kinds -> Int] /\ \A f \in Fetches : fetch[f].kind \in Kinds /\ fetch'[f].kind \in Kinds
    BY TypeStep DEF IInv, TypeOK, fetch_t
  <2>0. refcount[k] = 1 + Cardinality(InUse(k)) /\ IsFiniteSet(InUse(k))
    BY FetchAssumption, FS_Subset DEF RefcountExact, InUse
  <2>1. CASE NoAllocation
    <3>1. InUse(k)' = InUse(k)
      BY <2>1 DEF NoAllocation, Same, InUse
    <3> QED  BY <2>0, <2>1, <3>1 DEF NoAllocation
  <2>2. ASSUME NEW f \in Fetches, Allocates(f)
        PROVE  refcount'[k] = 1 + Cardinality(InUse(k)')
    <3>1. CASE fetch'[f].kind = k
      <4>1. InUse(k)' = InUse(k) \cup {f} /\ f \notin InUse(k)
        BY <2>2, <3>1 DEF Allocates, InUse
      <4>2. Cardinality(InUse(k) \cup {f}) = Cardinality(InUse(k)) + 1
        BY <2>0, <4>1, FS_AddElement
      <4>3. refcount'[k] = refcount[k] + 1
        BY <2>2, <2>t, <3>1 DEF Allocates
      <4> QED  BY <2>0, <4>1, <4>2, <4>3, FS_CardinalityType
    <3>2. CASE fetch'[f].kind # k
      <4>1. InUse(k)' = InUse(k)
        BY <2>2, <3>2 DEF Allocates, InUse
      <4>2. refcount'[k] = refcount[k]
        BY <2>2, <2>t, <3>2 DEF Allocates
      <4> QED  BY <2>0, <4>1, <4>2
    <3> QED  BY <3>1, <3>2
  <2>3. ASSUME NEW f \in Fetches, Frees(f)
        PROVE  refcount'[k] = 1 + Cardinality(InUse(k)')
    <3>1. CASE fetch[f].kind = k
      <4>1. InUse(k)' = InUse(k) \ {f} /\ f \in InUse(k)
        BY <2>3, <3>1 DEF Frees, InUse
      <4>2. Cardinality(InUse(k) \ {f}) = Cardinality(InUse(k)) - 1
        BY <2>0, <4>1, FS_RemoveElement
      <4>3. refcount'[k] = refcount[k] - 1
        BY <2>3, <2>t, <3>1 DEF Frees
      <4> QED  BY <2>0, <4>1, <4>2, <4>3, FS_CardinalityType
    <3>2. CASE fetch[f].kind # k
      <4>1. InUse(k)' = InUse(k)
        BY <2>3, <3>2 DEF Frees, InUse
      <4>2. refcount'[k] = refcount[k]
        BY <2>3, <2>t, <3>2 DEF Frees
      <4> QED  BY <2>0, <4>1, <4>2
    <3> QED  BY <3>1, <3>2
  <2> QED  BY <2>1, <2>2, <2>3, Allocation
<1> QED  BY <1>1, <1>2, Inductive, PTL DEF Spec

-----------------------------------------------------------------------------
(* The limits on active fetches.                                           *)

\* Only a successful start makes a fetch active.
LEMMA RingStep ==
    ASSUME IInv, Next
    PROVE  \/ fetch_ring' \subseteq fetch_ring
           \/ \E i \in 1..Len(queue_ring) : DispatchStarted(i)
<1>1. ASSUME NEW f \in Fetches, fetch_remove_from_queues(f)
      PROVE  fetch_ring' \subseteq fetch_ring
  BY <1>1, RemoveFacts
<1>2. ASSUME AtStep("stop") \/ AtStep("tell")
      PROVE  job.fetch \in Fetches
  BY <1>2 DEF AtStep, IInv, TypeOK, job_t
<1>3. CASE Client
  BY <1>1, <1>3 DEF Client, fetch_start, AbortDeferred, AbortNow
<1>4. CASE Dispatch
  BY <1>4 DEF Dispatch, DispatchDeferred, DispatchDone
<1>5. CASE Transfer \/ ClientReturns
  BY <1>5 DEF Transfer, fetch_curl_progress, fetch_curl_header, fetch_curl_data, TransferEnds,
              ClientReturns, quietInPoll
<1>6. CASE fetch_curl_stop \/ ToldAll
  BY <1>1, <1>2, <1>6 DEF fetch_curl_stop, ToldAll
<1>7. CASE Poll /\ ~(fetch_curl_stop \/ ToldAll)
  BY <1>7 DEF Poll, PollGoesOn, fetcher_poll, fetch_fdset, PerformReturns, PerformFails,
              fetch_curl_done, Tell, FreeJob, InfoDone, fetch_data_process, PollEnds
<1> QED  BY <1>3, <1>4, <1>5, <1>6, <1>7 DEF Next

\* An active fetch keeps its host.
LEMMA HostStep ==
    ASSUME IInv, Next, NEW f \in fetch_ring, f \in fetch_ring'
    PROVE  fetch'[f].host = fetch[f].host
<1>1. f \in Fetches /\ fetch[f].used /\ fetch'[f].used
  BY InvStep DEF IInv, TypeOK, Rings
<1> QED  BY <1>1, Allocation DEF NoAllocation, Same, Allocates, Frees

Active(h) == { f \in fetch_ring : fetch[f].host = h }

\* However starts, refused starts, aborts and completions interleave, no more
\* fetches are active than the options max_fetchers and max_fetchers_per_host
\* allow.
THEOREM LimitsHold == Spec => []WithinLimits
<1>1. Init => WithinLimits
  <2> SUFFICES ASSUME Init
               PROVE  WithinLimits
    OBVIOUS
  <2>1. fetch_ring = {} /\ \A h : { f \in fetch_ring : fetch[f].host = h } = {}
    BY DEF Init
  <2> QED  BY <2>1, FS_EmptySet, FetchAssumption DEF WithinLimits, CountByHost
<1>2. IInv /\ WithinLimits /\ [Next]_vars => WithinLimits'
  <2> SUFFICES ASSUME IInv, WithinLimits, Next
               PROVE  WithinLimits'
    <3>1. CASE UNCHANGED vars
      BY <3>1 DEF vars, WithinLimits, CountByHost
    <3> QED  BY <3>1
  <2>0. /\ IsFiniteSet(fetch_ring) /\ Cardinality(fetch_ring) \in Nat
        /\ \A h : IsFiniteSet(Active(h)) /\ Cardinality(Active(h)) \in Nat
    <3>1. IsFiniteSet(fetch_ring)
      BY FetchAssumption, FS_Subset DEF IInv, TypeOK
    <3>2. \A h : Active(h) \subseteq fetch_ring
      BY DEF Active
    <3> QED  BY <3>1, <3>2, FS_Subset, FS_CardinalityType
  <2>l. /\ Cardinality(fetch_ring) <= max_fetchers
        /\ \A h \in Hosts \cup {NoHost} : Cardinality(Active(h)) <= max_fetchers_per_host
    BY DEF WithinLimits, CountByHost, Active
  <2>g. SUFFICES /\ Cardinality(fetch_ring') <= max_fetchers
                 /\ \A h \in Hosts \cup {NoHost} : Cardinality(Active(h)') <= max_fetchers_per_host
    BY DEF WithinLimits, CountByHost, Active
  <2>1. CASE fetch_ring' \subseteq fetch_ring
    <3>1. \A h : Active(h)' \subseteq Active(h)
      BY <2>1, HostStep DEF Active
    <3>2. Cardinality(fetch_ring') \in Nat /\ Cardinality(fetch_ring') <= Cardinality(fetch_ring)
      BY <2>0, <2>1, FS_Subset, FS_CardinalityType
    <3>3. ASSUME NEW h
          PROVE  Cardinality(Active(h)') \in Nat /\ Cardinality(Active(h)') <= Cardinality(Active(h))
      <4> DEFINE A == Active(h)
                 B == Active(h)'
      <4>1. B \subseteq A /\ IsFiniteSet(A)
        BY <2>0, <3>1
      <4> HIDE DEF A, B
      <4>2. IsFiniteSet(B) /\ Cardinality(B) <= Cardinality(A)
        BY <4>1, FS_Subset
      <4> QED  BY <4>2, FS_CardinalityType DEF A, B
    <3> QED  BY <2>0, <2>l, <3>2, <3>3, FetchAssumption
  <2>2. ASSUME NEW i \in 1..Len(queue_ring), DispatchStarted(i)
        PROVE  /\ Cardinality(fetch_ring') <= max_fetchers
               /\ \A h \in Hosts \cup {NoHost} : Cardinality(Active(h)') <= max_fetchers_per_host
    <3> DEFINE f == queue_ring[i]
               hf == fetch[f].host
    <3>1. /\ f \in Fetches /\ f \notin fetch_ring
          /\ fetch_ring' = fetch_ring \cup {f}
          /\ Cardinality(fetch_ring) < max_fetchers
          /\ Cardinality(Active(hf)) < max_fetchers_per_host
      BY <2>2 DEF DispatchStarted, MayDispatch, Chosen, HasRoom, CountByHost, Active, IInv, TypeOK,
                  Rings, Elems
    <3>2. fetch'[f].host = hf
      <4> DEFINE b == (fetch[f].kind = "curl")
                 r == [fetch[f] EXCEPT !.fetch_is_active = TRUE, !.curl_handle = b]
      <4>1. fetch' = [fetch EXCEPT ![f] = r]
        BY <2>2 DEF DispatchStarted
      <4> HIDE DEF b
      <4>2. r.host = hf
        BY <3>1 DEF IInv, TypeOK, fetch_t
      <4> HIDE DEF r
      <4> QED  BY <3>1, <4>1, <4>2 DEF IInv, TypeOK
    <3> HIDE DEF f, hf
    <3>h. \A g \in fetch_ring : fetch'[g].host = fetch[g].host
      BY <3>1, HostStep
    <3>3. ASSUME NEW h, h # hf
          PROVE  Active(h)' = Active(h)
      BY <3>1, <3>2, <3>3, <3>h DEF Active
    <3>4. { g \in fetch_ring' : fetch'[g].host = hf } = Active(hf) \cup {f} /\ f \notin Active(hf)
      BY <3>1, <3>2, <3>h DEF Active
    <3>5. Cardinality(fetch_ring') = Cardinality(fetch_ring) + 1
      BY <2>0, <3>1, FS_AddElement
    <3>6. Cardinality(Active(hf) \cup {f}) = Cardinality(Active(hf)) + 1
      BY <2>0, <3>4, FS_AddElement
    <3>7. Cardinality({ g \in fetch_ring' : fetch'[g].host = hf }) <= max_fetchers_per_host
      <4>1. Cardinality(Active(hf)) + 1 <= max_fetchers_per_host
        BY <2>0, <3>1, FetchAssumption
      <4> QED  BY <3>4, <3>6, <4>1
    <3>8. Cardinality(fetch_ring') <= max_fetchers
      BY <2>0, <3>1, <3>5, FetchAssumption
    <3>9. ASSUME NEW h \in Hosts \cup {NoHost}
          PROVE  Cardinality(Active(h)') <= max_fetchers_per_host
      <4>1. CASE h = hf
        <5>1. Active(h)' = { g \in fetch_ring' : fetch'[g].host = hf }
          BY <4>1 DEF Active
        <5> QED  BY <5>1, <3>7
      <4>2. CASE h # hf
        BY <4>2, <3>3, <2>l
      <4> QED  BY <4>1, <4>2
    <3> QED  BY <3>8, <3>9
  <2> QED  BY <2>1, <2>2, RingStep
<1> QED  BY <1>1, <1>2, Inductive, PTL DEF Spec

-----------------------------------------------------------------------------
(***************************************************************************)
(* Proofs about what the client of Fetch is told and when.                 *)
(*                                                                         *)
(* NoFault needs that every fetch in use is linked where its flag says     *)
(* until the poll unlinks it (AllLinked), and that the client has let go   *)
(* of a fetch by then (LetGo).  OutcomeReported and AbortedIsSilent need   *)
(* where completed comes from (Answered, StopsComplete), that a fetch not  *)
(* completed is still held (Awaited), and that a job's last message, and   *)
(* no other, is an outcome (JobTells).                                     *)
(***************************************************************************)

\* In the ring that fetch_is_active names.
Linked(f) == IF fetch[f].fetch_is_active THEN f \in fetch_ring ELSE f \in Elems(queue_ring)

AllLinked ==
    ~fault => \A f \in Fetches :
        fetch[f].used /\ (job # NONE /\ job.fetch = f => ~Gone) => Linked(f)

\* The one way to a fault: an abort from the callback for late certificates.
Faulted == fault => Certs /\ cb # NONE

LetGo ==
    ~Certs /\ job # NONE /\ cb # NONE /\ job.step # "stop" /\ fetch[job.fetch].kind = "curl"
        => job.fetch \notin held

\* A sender that goes on after the callback is libcurl, and its transfer is alive.
CbPlace ==
    ~fault /\ cb # NONE /\ cb.next # "nothing" =>
        /\ phase = "perform"
        /\ fetch[cb.fetch].curl_handle
        /\ cb.next = "stop" => fetch[cb.fetch].completed
        /\ cb.next = "header" => Certs

StopsComplete ==
    \A f \in Fetches :
        /\ fetch[f].abort \/ fetch[f].stopped => fetch[f].completed
        /\ fetch[f].stopped => fetch[f].result = "WRITE_ERROR" /\ fetch[f].kind = "curl"

Answered ==
    ~fault => \A f \in Fetches :
        fetch[f].used /\ fetch[f].completed =>
            \/ fetch[f].abort \/ fetch[f].stopped
            \/ cb # NONE /\ cb.fetch = f /\ cb.next = "stop"
            \/ job # NONE /\ job.fetch = f

Awaited == \A f \in Fetches : fetch[f].used /\ ~fetch[f].completed => f \in held

TellsOutcomeLast(s) == \A i \in 1..Len(s) : (s[i] \in Progressing) <=> (i # Len(s))

JobTells ==
    ~fault /\ job # NONE =>
        /\ job.tell = << >> \/ job.step = "free" => fetch[job.fetch].completed
        /\ TellsOutcomeLast(job.tell)
        /\ job.tell # << >> /\ fetch[job.fetch].completed => fetch[job.fetch].abort
        /\ ~Certs /\ job.tell # << >> /\ fetch[job.fetch].kind = "curl" =>
              cb = NONE /\ ~fetch[job.fetch].abort

Silent == ~Certs => AbortedIsSilent

OInv == /\ AllLinked
        /\ Faulted
        /\ LetGo
        /\ CbPlace
        /\ StopsComplete
        /\ Answered
        /\ Awaited
        /\ JobTells
        /\ Silent

-----------------------------------------------------------------------------
(* Records, messages and sequences of messages.                            *)

\* All that OInv looks at in a fetch.
Alike(q, r) == /\ Keep(q, r)
              /\ q.completed = r.completed
              /\ q.abort = r.abort
              /\ q.stopped = r.stopped
              /\ q.result = r.result

LEMMA MoreFields ==
    ASSUME NEW r \in fetch_t
    PROVE  /\ Alike([r EXCEPT !.sent_ssl_chain = TRUE], r)
           /\ \A b : Alike([r EXCEPT !.had_headers = b], r)
           /\ Keep(Stop(r), r) /\ Stop(r).completed = r.completed /\ Stop(r).abort = r.abort
           /\ Stop(r).stopped /\ Stop(r).result = "WRITE_ERROR"
           /\ \A res \in Results :
                LET q == [r EXCEPT !.result = res]
                IN  /\ Keep(q, r) /\ q.completed = r.completed /\ q.abort = r.abort
                    /\ q.stopped = r.stopped /\ q.result = res
           /\ \A t \in Messages :
                /\ Told(r, t).abort = r.abort /\ Told(r, t).stopped = r.stopped
                /\ Told(r, t).result = r.result
                /\ t \notin Progressing => Told(r, t).completed = TRUE
                /\ LET q == Told([r EXCEPT !.had_headers = TRUE], t)
                   IN  /\ q.abort = r.abort /\ q.stopped = r.stopped /\ q.result = r.result
                       /\ t \notin Progressing => q.completed = TRUE
           /\ LET q == [r EXCEPT !.completed = TRUE, !.abort = TRUE]
              IN  /\ q.completed /\ q.abort /\ q.stopped = r.stopped /\ q.result = r.result
           /\ LET q == [r EXCEPT !.curl_handle = FALSE, !.sent_ssl_chain = TRUE]
              IN  /\ q.used = r.used /\ q.kind = r.kind /\ q.completed = r.completed
                  /\ q.abort = r.abort /\ q.stopped = r.stopped /\ q.result = r.result
  BY DEF fetch_t, Keep, Alike, Told, Stop

\* What is delivered.
LEMMA DeliverFacts ==
    ASSUME TypeOK, NEW f \in Fetches, NEW t \in Messages,
           NEW next \in {"nothing", "header", "stop", "stop if aborted"},
           Deliver(f, t, next)
    PROVE  /\ cb' # NONE /\ cb'.fetch = f /\ cb'.type = t /\ cb'.next = next
           /\ f \in held => cb'.wanted
           /\ held' = IF t \in ForgetOn THEN held \ {f} ELSE held
<1> DEFINE wanted == f \in held
<1>1. /\ cb' = [fetch |-> f, type |-> t, next |-> next, wanted |-> wanted]
      /\ held' = IF t \in ForgetOn THEN held \ {f} ELSE held
  BY DEF Deliver
<1>2. f \in held => wanted = TRUE
  OBVIOUS
<1>3. cb' # NONE
  BY DeliverType, NoneAssumption
<1> HIDE DEF wanted
<1> QED  BY <1>1, <1>2, <1>3

LEMMA TellsOne ==
    ASSUME NEW x \in ForgetOn
    PROVE  TellsOutcomeLast(<<x>>)
<1>1. Len(<<x>>) = 1 /\ <<x>>[1] = x
  OBVIOUS
<1>2. \A i \in 1..1 : i = 1
  OBVIOUS
<1>3. x \notin Progressing
  BY MessageSets
<1> QED  BY <1>1, <1>2, <1>3 DEF TellsOutcomeLast

LEMMA TellsTail ==
    ASSUME NEW s \in Seq(Messages), s # << >>, TellsOutcomeLast(s)
    PROVE  /\ TellsOutcomeLast(Tail(s))
           /\ Tail(s) = << >> => Head(s) \notin Progressing
           /\ Tail(s) # << >> => Head(s) \in Progressing
<1> DEFINE t == Tail(s)
<1>1. Len(s) \in Nat /\ Len(s) > 0 /\ Len(t) = Len(s) - 1 /\ t \in Seq(Messages)
  OBVIOUS
<1>2. Head(s) = s[1] /\ \A i \in 1..Len(t) : t[i] = s[i + 1]
  OBVIOUS
<1> HIDE DEF t
<1>3. (t = << >>) <=> (Len(t) = 0)
  BY <1>1
<1>4. \A i \in 1..Len(t) : i + 1 \in 1..Len(s) /\ ((i + 1 = Len(s)) <=> (i = Len(t)))
  BY <1>1
<1>5. TellsOutcomeLast(t)
  BY <1>2, <1>4 DEF TellsOutcomeLast
<1>6. 1 \in 1..Len(s)
  BY <1>1
<1>7. (t = << >> => Head(s) \notin Progressing) /\ (t # << >> => Head(s) \in Progressing)
  BY <1>1, <1>2, <1>3, <1>6 DEF TellsOutcomeLast
<1> QED  BY <1>5, <1>7 DEF t

LEMMA RepliesTell ==
    ASSUME NEW reply \in DataReplies
    PROVE  reply # << >> /\ TellsOutcomeLast(reply)
<1>1. /\ "HEADER" \in Progressing /\ "DATA" \in Progressing
      /\ "FINISHED" \notin Progressing /\ "ERROR" \notin Progressing /\ "ERROR" \in ForgetOn
  BY DEF Progressing, ForgetOn
<1>2. TellsOutcomeLast(DataMessages) /\ DataMessages # << >>
  <2>1. \A i \in 1..5 : i = 1 \/ i = 2 \/ i = 3 \/ i = 4 \/ i = 5
    OBVIOUS
  <2>2. /\ Len(DataMessages) = 5 /\ DataMessages[1] = "HEADER" /\ DataMessages[2] = "HEADER"
        /\ DataMessages[3] = "HEADER" /\ DataMessages[4] = "DATA" /\ DataMessages[5] = "FINISHED"
    BY DEF DataMessages
  <2> QED  BY <1>1, <2>1, <2>2 DEF TellsOutcomeLast
<1>3. DataMessages \in Seq(Messages)
  BY ReplyType DEF DataReplies
<1>4. Tail(DataMessages) # << >>
  BY DEF DataMessages
<1>5. TellsOutcomeLast(Tail(DataMessages))
  BY <1>2, <1>3, TellsTail
<1>6. TellsOutcomeLast(<<"ERROR">>) /\ <<"ERROR">> # << >>
  BY <1>1, TellsOne
<1> QED  BY <1>2, <1>4, <1>5, <1>6 DEF DataReplies

\* The outcome of a transfer that fetch_curl_done() has looked at.
LEMMA OutcomeTells ==
    ASSUME NEW r \in fetch_t, r.result # "none", NEW said \in BOOLEAN,
           r.stopped => r.result = "WRITE_ERROR"
    PROVE  /\ TellsOutcomeLast(Outcome(r, said))
           /\ Outcome(r, said) = << >> => r.abort \/ said \/ r.stopped
           /\ Outcome(r, said) # << >> => ~r.abort /\ ~said /\ ~r.stopped
<1>1. r.result \in Results /\ OutcomeOf[r.result] \in ForgetOn
  <2>1. r.result \in Results
    BY DEF fetch_t
  <2> QED  BY <2>1 DEF OutcomeOf, ForgetOn, Results
<1>2. TellsOutcomeLast(<<OutcomeOf[r.result]>>) /\ <<OutcomeOf[r.result]>> # << >>
  BY <1>1, TellsOne
<1>3. TellsOutcomeLast(<< >>)
  BY DEF TellsOutcomeLast
<1>4. CASE r.abort \/ said \/ (r.stopped /\ r.result \in {"OK", "WRITE_ERROR"})
  BY <1>3, <1>4 DEF Outcome
<1>5. CASE ~(r.abort \/ said \/ (r.stopped /\ r.result \in {"OK", "WRITE_ERROR"}))
  BY <1>2, <1>5 DEF Outcome
<1> QED  BY <1>4, <1>5

-----------------------------------------------------------------------------
(* The invariant is preserved by every step.                               *)

LEMMA OStep == IInv /\ OInv /\ [Next]_vars => OInv'
<1> SUFFICES ASSUME IInv, OInv, Next
             PROVE  OInv'
  <2>1. CASE UNCHANGED vars
    BY <2>1 DEF vars, OInv, AllLinked, Linked, Elems, Faulted, LetGo, CbPlace, StopsComplete, Answered,
                Awaited, JobTells, TellsOutcomeLast, Silent, AbortedIsSilent, Gone
  <2> QED  BY <2>1
<1>i. IInv'
  BY InvStep
<1>t. TypeOK /\ TypeOK'
  BY <1>i DEF IInv
<1>r. \A f \in Fetches : fetch[f] \in fetch_t /\ fetch'[f] \in fetch_t
  BY <1>t DEF TypeOK
<1>n. ~fault
  <2> SUFFICES ASSUME fault
               PROVE  FALSE
    OBVIOUS
  <2>1. disp = "no"
    BY DEF IInv, Stopped
  <2> QED
    BY <2>1 DEF Next, Client, Dispatch, Transfer, Poll, PollGoesOn, ClientRuns, PollRuns,
       fetch_start, AbortDeferred, AbortNow, DispatchStarted, DispatchDeferred, DispatchDone,
       fetch_curl_progress, fetch_curl_header, fetch_curl_data, TransferEnds, Performing,
       ClientReturns, fetcher_poll, fetch_fdset, PerformReturns, PerformFails, fetch_curl_done,
       fetch_curl_stop, Tell, ToldAll, FreeJob, AtStep, InfoDone, fetch_data_process, PollEnds
<1>s. /\ fetch_ring \subseteq Fetches /\ held \subseteq Fetches /\ Elems(queue_ring) \subseteq Fetches
      /\ queue_ring \in Seq(Fetches) /\ ring \in Seq(Fetches)
      /\ job # NONE => job \in job_t /\ job.fetch \in Fetches /\ job.tell \in Seq(Messages)
      /\ cb # NONE => cb \in cb_t /\ cb.fetch \in Fetches
  BY <1>t, ElemsFacts DEF TypeOK, job_t, cb_t
<1>o. /\ AllLinked /\ Faulted /\ LetGo /\ CbPlace /\ StopsComplete /\ Answered /\ Awaited
      /\ JobTells /\ Silent
  BY DEF OInv
\* A step that changes nothing OInv looks at, but may end libcurl's turn.
<1>q. ASSUME UNCHANGED <<fetch, fetch_ring, fault, held, job, cb>>,
             Elems(queue_ring)' = Elems(queue_ring),
             cb # NONE /\ phase = "perform" => phase' = "perform"
      PROVE  OInv'
  <2>1. AllLinked'
    BY <1>q, <1>o DEF AllLinked, Linked, Gone
  <2>2. Faulted' /\ LetGo' /\ CbPlace' /\ StopsComplete'
    BY <1>q, <1>o DEF Faulted, LetGo, CbPlace, StopsComplete
  <2>3. Answered' /\ Awaited'
    BY <1>q, <1>o DEF Answered, Awaited
  <2>4. JobTells' /\ Silent'
    BY <1>q, <1>o DEF JobTells, Silent, AbortedIsSilent
  <2> QED  BY <2>1, <2>2, <2>3, <2>4 DEF OInv
\* A step of libcurl's that says nothing.
<1>a. ASSUME NEW f \in Fetches, Performing(f), UNCHANGED quietInPoll, UNCHANGED <<cb, held>>,
             NEW r, fetch' = [fetch EXCEPT ![f] = r], Keep(r, fetch[f]),
             r.completed = fetch[f].completed, r.abort = fetch[f].abort,
             r.stopped => fetch[f].abort /\ r.result = "WRITE_ERROR"
      PROVE  OInv'
  <2>1. fetch'[f] = r /\ \A g \in Fetches : g # f => fetch'[g] = fetch[g]
    BY <1>a, <1>t DEF TypeOK
  <2>2. job = NONE /\ cb = NONE /\ job' = NONE /\ cb' = NONE /\ ~fault'
    BY <1>a, <1>n DEF Performing, PollRuns, IInv, PollPlaces, quietInPoll
  <2>3. AllLinked'
    BY <1>a, <1>o, <1>n, <2>1, <2>2 DEF AllLinked, Linked, Keep, quietInPoll
  <2>4. StopsComplete'
    BY <1>a, <1>o, <2>1 DEF StopsComplete, Keep, Performing, IInv, CurlOK
  <2>5. Answered'
    BY <1>a, <1>o, <1>n, <2>1, <2>2 DEF Answered, Keep, StopsComplete, Performing
  <2>6. Awaited'
    BY <1>a, <1>o, <2>1 DEF Awaited, Keep
  <2> QED  BY <2>2, <2>3, <2>4, <2>5, <2>6
           DEF OInv, Faulted, LetGo, CbPlace, JobTells, Silent, AbortedIsSilent
\* A step of libcurl's that delivers a message.
<1>b. ASSUME NEW f \in Fetches, Performing(f), UNCHANGED quietInPoll, ~fetch[f].abort,
             NEW t \in Messages, NEW next \in {"nothing", "header", "stop", "stop if aborted"},
             Deliver(f, t, next),
             next = "header" => Certs,
             NEW r, fetch' = [fetch EXCEPT ![f] = r], Keep(r, fetch[f]),
             r.abort = fetch[f].abort, r.stopped = fetch[f].stopped, r.result = fetch[f].result,
             \/ t \in Progressing /\ next # "stop" /\ r.completed = fetch[f].completed
             \/ t \notin Progressing /\ next = "stop" /\ r.completed = TRUE
      PROVE  OInv'
  <2>1. fetch'[f] = r /\ \A g \in Fetches : g # f => fetch'[g] = fetch[g]
    BY <1>b, <1>t DEF TypeOK
  <2>2. job = NONE /\ cb = NONE /\ job' = NONE /\ ~fault' /\ phase' = "perform" /\ fetch[f].curl_handle
    BY <1>b, <1>n DEF Performing, PollRuns, IInv, PollPlaces, quietInPoll
  <2>3. fetch[f].used /\ ~fetch[f].stopped /\ ~fetch[f].completed /\ f \in held
    <3>1. fetch[f].used /\ ~fetch[f].stopped
      BY <1>b, <1>o, <2>2 DEF Performing, IInv, CurlOK, StopsComplete
    <3>2. ~fetch[f].completed
      BY <1>b, <1>o, <1>n, <2>2, <3>1 DEF Answered
    <3> QED  BY <3>1, <3>2, <1>o DEF Awaited
  <2>4. /\ cb' # NONE /\ cb'.fetch = f /\ cb'.next = next /\ cb'.wanted
        /\ \A g \in held : g # f => g \in held'
        /\ t \in Progressing => held' = held
    <3>1. /\ cb' # NONE /\ cb'.fetch = f /\ cb'.type = t /\ cb'.next = next
          /\ f \in held => cb'.wanted
          /\ held' = IF t \in ForgetOn THEN held \ {f} ELSE held
      BY <1>b, <1>t, DeliverFacts, Zenon
    <3>2. t \in Progressing => t \notin ForgetOn
      BY MessageSets
    <3>3. cb'.wanted
      BY <2>3, <3>1
    <3> QED  BY <3>1, <3>2, <3>3
  <2>5. AllLinked'
    BY <1>b, <1>o, <1>n, <2>1, <2>2 DEF AllLinked, Linked, Keep, quietInPoll
  <2>6. StopsComplete'
    BY <1>b, <1>o, <2>1, <2>3 DEF StopsComplete, Keep
  <2>7. Answered'
    BY ZenonT(60), <1>b, <1>o, <1>n, <2>1, <2>2, <2>3, <2>4 DEF Answered, Keep
  <2>8. Awaited'
    BY <1>b, <1>o, <2>1, <2>4 DEF Awaited, Keep
  <2>9. CbPlace'
    BY <1>b, <2>1, <2>2, <2>4 DEF CbPlace, Keep
  <2> QED  BY <2>2, <2>4, <2>5, <2>6, <2>7, <2>8, <2>9
           DEF OInv, Faulted, LetGo, JobTells, Silent, AbortedIsSilent
<1>1. ASSUME NEW f \in Fetches, NEW k \in Kinds, NEW h \in Hosts \cup {NoHost}, fetch_start(f, k, h)
      PROVE  OInv'
  <2>1. ~fetch[f].used /\ ~fetch[f].curl_handle /\ (job # NONE => job.fetch # f)
    BY <1>1, <1>n, <1>r DEF fetch_start, IInv, JobOK, CurlOK
  <2>2. /\ \A g \in Fetches : g # f => fetch'[g] = fetch[g]
        /\ fetch'[f].used /\ ~fetch'[f].fetch_is_active /\ ~fetch'[f].completed
        /\ ~fetch'[f].abort /\ ~fetch'[f].stopped
    BY <1>1, <1>t DEF fetch_start, TypeOK, New, Free
  <2>3. Elems(queue_ring)' = Elems(queue_ring) \cup {f}
    BY <1>1, <1>s, AppendFacts DEF fetch_start
  <2>4. held' = held \cup {f} /\ UNCHANGED <<fetch_ring, phase, job, cb, fault>>
    BY <1>1 DEF fetch_start
  <2>5. AllLinked'
    BY <1>o, <1>n, <1>s, <2>1, <2>2, <2>3, <2>4 DEF AllLinked, Linked, Gone
  <2>6. Faulted' /\ LetGo'
    BY <1>o, <1>s, <2>1, <2>2, <2>4 DEF Faulted, LetGo
  <2>7. CbPlace'
    BY <1>o, <1>s, <1>n, <2>1, <2>2, <2>4 DEF CbPlace
  <2>8. StopsComplete' /\ Answered' /\ Awaited'
    BY <1>o, <1>n, <2>2, <2>4 DEF StopsComplete, Answered, Awaited
  <2>9. JobTells' /\ Silent'
    BY <1>o, <1>s, <1>n, <2>1, <2>2, <2>4 DEF JobTells, Silent, AbortedIsSilent
  <2> QED  BY <2>5, <2>6, <2>7, <2>8, <2>9 DEF OInv
<1>2. ASSUME NEW f \in Fetches, AbortDeferred(f)
      PROVE  OInv'
  <2> DEFINE r == [fetch[f] EXCEPT !.completed = TRUE, !.abort = TRUE]
  <2>1. /\ Keep(r, fetch[f]) /\ r.completed /\ r.abort
        /\ r.stopped = fetch[f].stopped /\ r.result = fetch[f].result
    BY <1>r, RecordFields, MoreFields
  <2>2. fetch' = [fetch EXCEPT ![f] = r]
    BY <1>2 DEF AbortDeferred
  <2> HIDE DEF r
  <2>3. fetch'[f] = r /\ \A g \in Fetches : g # f => fetch'[g] = fetch[g]
    BY <1>t, <2>2 DEF TypeOK
  <2>4. /\ held' = held \ {f} /\ UNCHANGED <<queue_ring, fetch_ring, phase, job, cb, fault>>
        /\ job # NONE => cb # NONE
    BY <1>2 DEF AbortDeferred, ClientRuns, IInv, PollPlaces
  <2>5. AllLinked'
    BY <1>o, <1>s, <2>1, <2>3, <2>4 DEF AllLinked, Linked, Keep, Gone, Elems
  <2>6. Faulted' /\ LetGo'
    BY <1>o, <1>s, <2>1, <2>3, <2>4 DEF Faulted, LetGo, Keep
  <2>7. CbPlace'
    BY <1>o, <1>s, <2>1, <2>3, <2>4 DEF CbPlace, Keep
  <2>8. StopsComplete' /\ Answered' /\ Awaited'
    BY <1>o, <1>n, <2>1, <2>3, <2>4 DEF StopsComplete, Answered, Awaited, Keep
  <2>9. JobTells'
    BY <1>o, <1>s, <1>n, <2>1, <2>3, <2>4 DEF JobTells, Keep
  <2>10. Silent'
    BY <1>o, <2>4 DEF Silent, AbortedIsSilent
  <2> QED  BY <2>5, <2>6, <2>7, <2>8, <2>9, <2>10 DEF OInv
<1>3. ASSUME NEW f \in Fetches, AbortNow(f)
      PROVE  OInv'
  <2>1. /\ \A g \in Fetches : g # f => fetch'[g] = fetch[g]
        /\ ~fetch'[f].used /\ ~fetch'[f].abort /\ ~fetch'[f].stopped /\ fetch'[f].kind = "data"
    BY <1>3, <1>t DEF AbortNow, fetch_free, TypeOK, Free
  <2>2. /\ f \in held /\ fetch[f].used /\ fetch[f].kind = "curl"
        /\ fetch[f].curl_handle => ~inside_curl
        /\ held' = held \ {f} /\ UNCHANGED <<phase, job, cb>>
        /\ job # NONE => cb # NONE
    BY <1>3 DEF AbortNow, ClientRuns, IInv, PollPlaces, HeldOK
  <2>3. /\ fetch_ring' \subseteq fetch_ring
        /\ \A g \in fetch_ring : g # f => g \in fetch_ring'
        /\ Elems(queue_ring)' = Elems(queue_ring) \ {f}
        /\ Linked(f) => ~fault'
    BY <1>3, <1>n, RemoveFacts DEF AbortNow, Linked
  <2>4. CASE job # NONE /\ job.fetch = f
    <3>1. job.step # "stop"
      BY <2>2, <2>4, <1>n DEF IInv, JobOK, PollPlaces
    <3>2. Certs
      BY <3>1, <2>2, <2>4, <1>o DEF LetGo
    <3>3. fault'
      <4>1. Unlinked(f)
        BY <3>1, <2>2, <2>4, <1>n DEF IInv, JobOK, Gone
      <4> QED  BY <1>3, <4>1, RemoveFacts DEF AbortNow
    <3>4. Faulted' /\ LetGo' /\ AllLinked' /\ CbPlace' /\ Answered' /\ JobTells' /\ Silent'
      BY <3>2, <3>3, <2>2, <2>4 DEF Faulted, LetGo, AllLinked, CbPlace, Answered, JobTells, Silent
    <3>5. StopsComplete' /\ Awaited'
      BY <1>o, <2>1, <2>2 DEF StopsComplete, Awaited
    <3> QED  BY <3>4, <3>5 DEF OInv
  <2>5. CASE ~(job # NONE /\ job.fetch = f)
    <3>1. ~fault'
      BY <1>o, <1>n, <2>2, <2>3, <2>5 DEF AllLinked
    <3>2. AllLinked'
      BY <1>o, <1>n, <1>s, <2>1, <2>2, <2>3, <2>5 DEF AllLinked, Linked, Gone
    <3>3. Faulted' /\ LetGo'
      BY <1>o, <1>s, <2>1, <2>2, <2>5, <3>1 DEF Faulted, LetGo
    <3>4. CbPlace'
      <4>1. cb # NONE /\ cb.next # "nothing" => cb.fetch # f
        BY <1>o, <1>n, <2>2 DEF CbPlace, IInv, PollPlaces
      <4> QED  BY <1>o, <1>n, <1>s, <2>1, <2>2, <4>1 DEF CbPlace
    <3>5. StopsComplete' /\ Answered' /\ Awaited'
      BY <1>o, <1>n, <2>1, <2>2 DEF StopsComplete, Answered, Awaited
    <3>6. JobTells'
      BY <1>o, <1>n, <1>s, <2>1, <2>2, <2>5 DEF JobTells
    <3>7. Silent'
      BY <1>o, <2>2 DEF Silent, AbortedIsSilent
    <3> QED  BY <3>2, <3>3, <3>4, <3>5, <3>6, <3>7 DEF OInv
  <2> QED  BY <2>4, <2>5
<1>4. ASSUME NEW i \in 1..Len(queue_ring), DispatchStarted(i)
      PROVE  OInv'
  <2> DEFINE f == queue_ring[i]
             b == (fetch[f].kind = "curl")
             r == [fetch[f] EXCEPT !.fetch_is_active = TRUE, !.curl_handle = b]
  <2>1. f \in Fetches
    BY <1>s
  <2>2. fetch' = [fetch EXCEPT ![f] = r]
    BY <1>4 DEF DispatchStarted
  <2>3. Elems(queue_ring)' = Elems(queue_ring) \ {f}
    BY <1>4, <1>s, DropFacts DEF DispatchStarted, IInv, Rings
  <2>4. fetch_ring' = fetch_ring \cup {f} /\ UNCHANGED <<phase, job, cb, held, fault>>
    BY <1>4 DEF DispatchStarted
  <2> HIDE DEF b
  <2>5. /\ r.used = fetch[f].used /\ r.kind = fetch[f].kind /\ r.fetch_is_active /\ r.curl_handle = b
        /\ r.completed = fetch[f].completed /\ r.abort = fetch[f].abort
        /\ r.stopped = fetch[f].stopped /\ r.result = fetch[f].result
    BY <1>r, <2>1 DEF fetch_t
  <2>6. fetch[f].curl_handle => b
    BY <2>1 DEF IInv, CurlOK, b
  <2> HIDE DEF f, r
  <2>7. fetch'[f] = r /\ \A g \in Fetches : g # f => fetch'[g] = fetch[g]
    BY <1>t, <2>1, <2>2 DEF TypeOK
  <2>8. AllLinked'
    BY <1>o, <1>s, <2>1, <2>3, <2>4, <2>5, <2>7 DEF AllLinked, Linked, Gone
  <2>9. Faulted' /\ LetGo'
    BY <1>o, <1>s, <2>1, <2>4, <2>5, <2>7 DEF Faulted, LetGo
  <2>10. CbPlace'
    BY <1>o, <1>s, <2>1, <2>4, <2>5, <2>6, <2>7 DEF CbPlace
  <2>11. StopsComplete' /\ Answered' /\ Awaited'
    BY <1>o, <2>1, <2>4, <2>5, <2>7 DEF StopsComplete, Answered, Awaited
  <2>12. JobTells' /\ Silent'
    BY <1>o, <1>s, <2>1, <2>4, <2>5, <2>7 DEF JobTells, Silent, AbortedIsSilent
  <2> QED  BY <2>8, <2>9, <2>10, <2>11, <2>12 DEF OInv
<1>5. ASSUME NEW i \in 1..Len(queue_ring), DispatchDeferred(i)
      PROVE  OInv'
  <2> DEFINE d == Drop(queue_ring, i)
  <2>1. d \in Seq(Fetches) /\ queue_ring[i] \in Fetches /\ queue_ring[i] \in Elems(queue_ring)
    BY <1>s, DropSeq DEF Elems
  <2>2. Elems(d) = Elems(queue_ring) \ {queue_ring[i]}
    BY <1>s, DropFacts DEF IInv, Rings
  <2>3. queue_ring' = Append(d, queue_ring[i])
    BY <1>5 DEF DispatchDeferred
  <2> HIDE DEF d
  <2>4. Elems(queue_ring)' = Elems(queue_ring)
    <3>1. Elems(Append(d, queue_ring[i])) = Elems(d) \cup {queue_ring[i]}
      BY <2>1, AppendFacts
    <3> QED  BY <2>1, <2>2, <2>3, <3>1
  <2>5. phase = "perform" => phase' = "perform"
    BY <1>5 DEF DispatchDeferred, EndDispatch
  <2> QED  BY <1>5, <1>q, <2>4, <2>5 DEF DispatchDeferred
<1>6. CASE DispatchDone
  <2>1. phase = "perform" => phase' = "perform"
    BY <1>6 DEF DispatchDone, EndDispatch
  <2>2. Elems(queue_ring)' = Elems(queue_ring)
    BY <1>6 DEF DispatchDone
  <2> QED  BY <1>6, <1>q, <2>1, <2>2 DEF DispatchDone
<1>7. ASSUME NEW f \in Fetches, fetch_curl_progress(f)
      PROVE  OInv'
  <2>1. fetch' = [fetch EXCEPT ![f] = fetch[f]]
    BY <1>7, <1>t DEF fetch_curl_progress, TypeOK
  <2>2. Keep(fetch[f], fetch[f]) /\ "PROGRESS" \in Progressing /\ "PROGRESS" \in Messages
    BY DEF Keep, Progressing, Messages
  <2> QED  BY <1>7, <1>b, <2>1, <2>2 DEF fetch_curl_progress
<1>8. ASSUME NEW f \in Fetches, fetch_curl_header(f)
      PROVE  OInv'
  <2>0. Performing(f) /\ UNCHANGED quietInPoll
    BY <1>8 DEF fetch_curl_header
  <2>1. CASE fetch[f].abort
    <3> DEFINE r == Stop(fetch[f])
    <3>1. fetch' = [fetch EXCEPT ![f] = r] /\ UNCHANGED <<cb, held>>
      BY <1>8, <2>1 DEF fetch_curl_header
    <3>2. Keep(r, fetch[f]) /\ r.completed = fetch[f].completed /\ r.abort = fetch[f].abort
          /\ r.result = "WRITE_ERROR"
      BY <1>r, MoreFields
    <3> HIDE DEF r
    <3> QED  BY <1>a, <2>0, <2>1, <3>1, <3>2
  <2>2. CASE ~fetch[f].abort
    <3> DEFINE r == [fetch[f] EXCEPT !.sent_ssl_chain = TRUE]
    <3>1. fetch' = [fetch EXCEPT ![f] = r]
      BY <1>8, <2>2 DEF fetch_curl_header
    <3>2. Alike(r, fetch[f])
      BY <1>r, MoreFields
    <3> HIDE DEF r
    <3>3. (Deliver(f, "CERTS", "header") /\ Certs) \/ Deliver(f, "HEADER", "nothing")
      BY <1>8, <2>2 DEF fetch_curl_header
    <3>4. /\ "CERTS" \in Progressing /\ "CERTS" \in Messages
          /\ "HEADER" \in Progressing /\ "HEADER" \in Messages
      BY DEF Progressing, Messages
    <3> QED  BY <1>b, <2>0, <2>2, <3>1, <3>2, <3>3, <3>4 DEF Alike
  <2> QED  BY <2>1, <2>2
<1>9. ASSUME NEW f \in Fetches, NEW o \in HeaderOutcomes, fetch_curl_data(f, o)
      PROVE  OInv'
  <2>0. Performing(f) /\ UNCHANGED quietInPoll
    BY <1>9 DEF fetch_curl_data
  <2>1. CASE /\ fetch[f].abort
             /\ fetch' = [fetch EXCEPT ![f] = Stop(@)]
             /\ UNCHANGED <<cb, held>>
    <3> DEFINE r == Stop(fetch[f])
    <3>1. fetch' = [fetch EXCEPT ![f] = r]
      BY <2>1
    <3>2. Keep(r, fetch[f]) /\ r.completed = fetch[f].completed /\ r.abort = fetch[f].abort
          /\ r.result = "WRITE_ERROR"
      BY <1>r, MoreFields
    <3> HIDE DEF r
    <3> QED  BY <1>a, <2>0, <2>1, <3>1, <3>2
  <2>2. CASE /\ ~fetch[f].abort
             /\ fetch' = [fetch EXCEPT ![f] = [@ EXCEPT !.had_headers = TRUE]]
             /\ Deliver(f, "DATA", "stop if aborted")
    <3> DEFINE r == [fetch[f] EXCEPT !.had_headers = TRUE]
    <3>1. fetch' = [fetch EXCEPT ![f] = r]
      BY <2>2
    <3>2. Alike(r, fetch[f])
      BY <1>r, MoreFields
    <3>3. "DATA" \in Progressing /\ "DATA" \in Messages
      BY DEF Progressing, Messages
    <3> HIDE DEF r
    <3> QED  BY <1>b, <2>0, <2>2, <3>1, <3>2, <3>3 DEF Alike
  <2>3. CASE /\ ~fetch[f].abort
             /\ o \in HeaderOutcomes \ {"go on", "AUTH"}
             /\ fetch' = [fetch EXCEPT ![f] = Told([@ EXCEPT !.had_headers = TRUE], o)]
             /\ Deliver(f, o, "stop")
    <3> DEFINE r == Told([fetch[f] EXCEPT !.had_headers = TRUE], o)
    <3>1. fetch' = [fetch EXCEPT ![f] = r]
      BY <2>3
    <3>2. o \in Messages /\ o \notin Progressing
      BY <2>3, MessageSets DEF HeaderOutcomes, Progressing
    <3>3. Keep(r, fetch[f])
      BY <1>r, <3>2, RecordFields
    <3>4. /\ r.completed = TRUE /\ r.abort = fetch[f].abort
          /\ r.stopped = fetch[f].stopped /\ r.result = fetch[f].result
      BY <1>r, <3>2, MoreFields
    <3> HIDE DEF r
    <3> QED  BY <1>b, <2>0, <2>3, <3>1, <3>2, <3>3, <3>4
  <2> QED  BY <1>9, <2>1, <2>2, <2>3 DEF fetch_curl_data
<1>10. ASSUME NEW f \in Fetches, NEW res \in Results, TransferEnds(f, res)
       PROVE  OInv'
  <2> DEFINE r == [fetch[f] EXCEPT !.result = res]
  <2>1. fetch' = [fetch EXCEPT ![f] = r]
    BY <1>10 DEF TransferEnds
  <2>2. /\ Keep(r, fetch[f]) /\ r.completed = fetch[f].completed /\ r.abort = fetch[f].abort
        /\ r.stopped = fetch[f].stopped
    BY <1>r, MoreFields
  <2>3. ~fetch[f].stopped
    BY <1>10, <1>o DEF TransferEnds, Performing, StopsComplete
  <2> HIDE DEF r
  <2> QED  BY <1>10, <1>a, <2>1, <2>2, <2>3 DEF TransferEnds
<1>11. CASE ClientReturns
  <2>0. /\ cb # NONE /\ cb.fetch \in Fetches
        /\ UNCHANGED <<held, queue_ring, fetch_ring, phase, job, fault>>
    BY <1>11, <1>s DEF ClientReturns, quietInPoll
  <2>1. CASE cb.next = "header"
    <3> DEFINE wanted == cb.fetch \in held
               c == [cb EXCEPT !.type = "HEADER", !.next = "nothing", !.wanted = wanted]
    <3>1. cb' = c /\ UNCHANGED fetch /\ Certs
      BY <1>11, <2>0, <2>1, <1>o, <1>n DEF ClientReturns, CbPlace
    <3> HIDE DEF wanted
    <3>2. c.next = "nothing"
      BY <1>s, <2>0 DEF cb_t
    <3> HIDE DEF c
    <3>3. cb' # NONE
      <4>1. cb' = NONE \/ cb' \in cb_t
        BY <1>t DEF TypeOK
      <4>2. c \in cb_t
        <5>1. wanted \in BOOLEAN
          BY InIsBoolean DEF wanted
        <5>2. "HEADER" \in Messages
          BY DEF Messages, Progressing
        <5> QED  BY <1>s, <2>0, <5>1, <5>2 DEF cb_t, c
      <4> QED  BY <3>1, <4>2, NoneAssumption
    <3>4. AllLinked' /\ Faulted' /\ LetGo' /\ CbPlace' /\ StopsComplete' /\ Awaited' /\ Silent'
      BY <1>o, <2>0, <3>1, <3>2, <3>3
      DEF AllLinked, Linked, Gone, Elems, Faulted, LetGo, CbPlace, StopsComplete, Awaited, Silent
    <3>5. Answered'
      BY <1>o, <1>n, <2>0, <2>1, <3>1, <3>3 DEF Answered
    <3>6. JobTells'
      BY <1>o, <1>n, <2>0, <3>1 DEF JobTells
    <3> QED  BY <3>4, <3>5, <3>6 DEF OInv
  <2>2. CASE cb.next # "header"
    <3> DEFINE f == cb.fetch
               ends == cb.next = "stop" \/ (cb.next = "stop if aborted" /\ fetch[f].abort)
    <3>1. cb' = NONE
      BY <1>11, <2>2 DEF ClientReturns
    <3>2. /\ \A g \in Fetches : Keep(fetch'[g], fetch[g]) /\ fetch'[g].completed = fetch[g].completed
                                /\ fetch'[g].abort = fetch[g].abort
          /\ \A g \in Fetches : g # f \/ ~ends =>
                fetch'[g].stopped = fetch[g].stopped /\ fetch'[g].result = fetch[g].result
          /\ ends => fetch'[f].stopped /\ fetch'[f].result = "WRITE_ERROR"
      <4>1. CASE ends
        <5>1. fetch' = [fetch EXCEPT ![f] = Stop(fetch[f])]
          BY <1>11, <2>2, <4>1 DEF ClientReturns
        <5>2. fetch'[f] = Stop(fetch[f]) /\ \A g \in Fetches : g # f => fetch'[g] = fetch[g]
          BY <5>1, <2>0, <1>t DEF TypeOK
        <5>3. /\ Keep(Stop(fetch[f]), fetch[f]) /\ Stop(fetch[f]).completed = fetch[f].completed
              /\ Stop(fetch[f]).abort = fetch[f].abort
              /\ Stop(fetch[f]).stopped /\ Stop(fetch[f]).result = "WRITE_ERROR"
          BY <1>r, <2>0, MoreFields
        <5> QED  BY <4>1, <5>2, <5>3 DEF Keep
      <4>2. CASE ~ends
        <5>1. fetch' = fetch
          BY <1>11, <2>2, <4>2 DEF ClientReturns
        <5> QED  BY <4>2, <5>1 DEF Keep
      <4> QED  BY <4>1, <4>2
    <3>3. ends => fetch[f].completed /\ fetch[f].kind = "curl"
      BY <1>o, <1>n, <2>0 DEF CbPlace, StopsComplete, IInv, CurlOK
    <3>4. cb.next = "stop" => ends
      OBVIOUS
    <3> HIDE DEF f, ends
    <3>5. AllLinked'
      BY <1>o, <1>s, <2>0, <3>2 DEF AllLinked, Linked, Gone, Elems, Keep
    <3>6. StopsComplete'
      BY <1>o, <2>0, <3>2, <3>3 DEF StopsComplete, Keep, f
    <3>7. Answered'
      BY <1>o, <1>n, <2>0, <3>1, <3>2, <3>4 DEF Answered, Keep, f
    <3>8. Awaited'
      BY <1>o, <2>0, <3>2 DEF Awaited, Keep
    <3>9. JobTells'
      BY <1>o, <1>n, <1>s, <2>0, <3>1, <3>2 DEF JobTells, Keep
    <3>10. Faulted' /\ LetGo' /\ CbPlace' /\ Silent'
      BY <1>n, <2>0, <3>1 DEF Faulted, LetGo, CbPlace, Silent, AbortedIsSilent
    <3> QED  BY <3>5, <3>6, <3>7, <3>8, <3>9, <3>10 DEF OInv
  <2> QED  BY <2>1, <2>2
<1>12. CASE fetcher_poll \/ fetch_fdset
  <2>1. Elems(queue_ring)' = Elems(queue_ring)
    BY <1>12 DEF fetcher_poll, fetch_fdset
  <2> QED  BY <1>12, <1>q, <2>1 DEF fetcher_poll, fetch_fdset
<1>13. CASE PerformReturns \/ PerformFails \/ InfoDone
  <2>1. Elems(queue_ring)' = Elems(queue_ring) /\ cb = NONE
    BY <1>13 DEF PerformReturns, PerformFails, InfoDone, PollRuns
  <2> QED  BY <1>13, <1>q, <2>1 DEF PerformReturns, PerformFails, InfoDone
<1>14. ASSUME NEW f \in Fetches, NEW o \in HeaderOutcomes, fetch_curl_done(f, o)
       PROVE  OInv'
  <2> DEFINE said == (o # "go on")
             tell == Outcome(fetch[f], said)
             q == [fetch[f] EXCEPT !.had_headers = fetch[f].had_headers \/ LooksAtHeaders(fetch[f])]
             r == Told([fetch[f] EXCEPT !.had_headers = TRUE], o)
  <2>0. /\ ~fault' /\ job = NONE /\ cb = NONE /\ fetch[f].used /\ fetch[f].kind = "curl"
        /\ fetch[f].result # "none" /\ UNCHANGED <<queue_ring, fetch_ring, phase>>
    BY <1>14, <1>n DEF fetch_curl_done, PollRuns, IInv, CurlOK
  <2>1. job' # NONE /\ job'.fetch = f /\ job'.step = "stop" /\ job'.tell = tell
    <3>1. job' = [fetch |-> f, step |-> "stop", tell |-> tell]
      BY <1>14 DEF fetch_curl_done
    <3>2. tell \in Seq(Messages)
      BY <1>r, <2>0, OutcomeType
    <3> HIDE DEF tell
    <3>3. [fetch |-> f, step |-> "stop", tell |-> tell] \in job_t
      BY <3>2 DEF job_t
    <3> QED  BY <3>1, <3>3, NoneAssumption
  <2>2. /\ TellsOutcomeLast(tell)
        /\ tell = << >> => fetch[f].completed \/ said
        /\ tell # << >> => ~fetch[f].abort /\ ~said /\ ~fetch[f].completed
    <3>1. fetch[f].stopped => fetch[f].result = "WRITE_ERROR"
      BY <1>o DEF StopsComplete
    <3>2. /\ TellsOutcomeLast(tell)
          /\ tell = << >> => fetch[f].abort \/ said \/ fetch[f].stopped
          /\ tell # << >> => ~fetch[f].abort /\ ~said /\ ~fetch[f].stopped
      <4>1. said \in BOOLEAN
        OBVIOUS
      <4> HIDE DEF said
      <4> QED  BY <1>r, <2>0, <3>1, <4>1, OutcomeTells
    <3> HIDE DEF tell, said
    <3> QED  BY <1>o, <1>n, <2>0, <3>2 DEF StopsComplete, Answered
  <2>3. /\ \A g \in Fetches : g # f => fetch'[g] = fetch[g]
        /\ Keep(fetch'[f], fetch[f])
        /\ fetch'[f].abort = fetch[f].abort /\ fetch'[f].stopped = fetch[f].stopped
        /\ fetch'[f].result = fetch[f].result
        /\ said => fetch'[f].completed
        /\ ~said => cb' = NONE /\ held' = held /\ fetch'[f].completed = fetch[f].completed
        /\ held' \subseteq held /\ (\A g \in held : g # f => g \in held')
        /\ cb' # NONE => cb'.next = "nothing"
    <3>1. CASE o = "go on"
      <4>1. fetch' = [fetch EXCEPT ![f] = q] /\ UNCHANGED <<cb, held>>
        BY <1>14, <3>1 DEF fetch_curl_done
      <4>2. Alike(q, fetch[f])
        BY <1>r, MoreFields
      <4> HIDE DEF q
      <4>3. fetch'[f] = q /\ \A g \in Fetches : g # f => fetch'[g] = fetch[g]
        BY <1>t, <4>1 DEF TypeOK
      <4> QED  BY <2>0, <3>1, <4>1, <4>2, <4>3 DEF Alike
    <3>2. CASE o # "go on"
      <4>1. fetch' = [fetch EXCEPT ![f] = r] /\ Deliver(f, o, "nothing")
        BY <1>14, <3>2 DEF fetch_curl_done
      <4>2. o \in Messages /\ o \notin Progressing
        BY <3>2, MessageSets DEF HeaderOutcomes, Progressing
      <4>3. Keep(r, fetch[f])
        BY <1>r, <4>2, RecordFields
      <4>4. /\ r.completed = TRUE /\ r.abort = fetch[f].abort
            /\ r.stopped = fetch[f].stopped /\ r.result = fetch[f].result
        BY <1>r, <4>2, MoreFields
      <4> HIDE DEF r
      <4>5. fetch'[f] = r /\ \A g \in Fetches : g # f => fetch'[g] = fetch[g]
        BY <1>t, <4>1 DEF TypeOK
      <4>6. cb'.next = "nothing" /\ held' = IF o \in ForgetOn THEN held \ {f} ELSE held
        BY <1>t, <4>1, <4>2, DeliverFacts
      <4> QED  BY <3>2, <4>3, <4>4, <4>5, <4>6
    <3> QED  BY <3>1, <3>2
  <2> HIDE DEF said, tell, q, r
  <2>4. AllLinked'
    BY <1>o, <1>n, <2>0, <2>1, <2>3 DEF AllLinked, Linked, Gone, Elems, Keep
  <2>5. Faulted' /\ LetGo' /\ CbPlace' /\ Silent'
    BY <2>0, <2>1, <2>3 DEF Faulted, LetGo, CbPlace, Silent, AbortedIsSilent
  <2>6. StopsComplete' /\ Awaited'
    BY <1>o, <2>3 DEF StopsComplete, Awaited, Keep
  <2>7. Answered'
    BY <1>o, <1>n, <2>0, <2>1, <2>3 DEF Answered
  <2>8. JobTells'
    BY <2>1, <2>2, <2>3 DEF JobTells
  <2> QED  BY <2>4, <2>5, <2>6, <2>7, <2>8 DEF OInv
<1>15. CASE fetch_curl_stop
  <2> DEFINE f == job.fetch
             r == [fetch[f] EXCEPT !.curl_handle = FALSE, !.sent_ssl_chain = TRUE]
             j == [job EXCEPT !.step = "tell"]
  <2>0. /\ job # NONE /\ job.step = "stop" /\ cb = NONE /\ f \in Fetches /\ job \in job_t
        /\ fetch[f].used /\ fetch[f].kind = "curl" /\ UNCHANGED phase
    BY <1>15, <1>n, <1>s DEF fetch_curl_stop, AtStep, PollRuns, IInv, JobOK, CurlOK
  <2>1. /\ job' = j /\ job' # NONE /\ j.fetch = f /\ j.step = "tell" /\ j.tell = job.tell
    <3>1. job' = j
      BY <1>15 DEF fetch_curl_stop
    <3>2. j \in job_t /\ j.fetch = f /\ j.step = "tell" /\ j.tell = job.tell
      BY <2>0 DEF job_t
    <3> QED  BY <3>1, <3>2, NoneAssumption
  <2>2. /\ r.used = fetch[f].used /\ r.kind = fetch[f].kind
        /\ r.completed = fetch[f].completed /\ r.abort = fetch[f].abort
        /\ r.stopped = fetch[f].stopped /\ r.result = fetch[f].result
    <3>1. fetch[f] \in fetch_t
      BY <1>r, <2>0
    <3> HIDE DEF f
    <3> QED  BY <3>1, MoreFields
  <2>3. fetch'[f] = r /\ \A g \in Fetches : g # f => fetch'[g] = fetch[g]
    BY <1>15, <1>t, <2>0 DEF fetch_curl_stop, TypeOK
  <2>4. /\ held' = held
        /\ cb' # NONE => cb'.next = "nothing" /\ Certs
    <3>1. CASE Certs /\ ~fetch[f].sent_ssl_chain
      <4>1. Deliver(f, "CERTS", "nothing")
        BY <1>15, <3>1 DEF fetch_curl_stop
      <4>2. "CERTS" \in Messages /\ "CERTS" \notin ForgetOn
        BY DEF Messages, Progressing, ForgetOn
      <4> QED  BY <1>t, <2>0, <3>1, <4>1, <4>2, DeliverFacts
    <3>2. CASE ~(Certs /\ ~fetch[f].sent_ssl_chain)
      BY <1>15, <2>0, <3>2 DEF fetch_curl_stop
    <3> QED  BY <3>1, <3>2
  <2> HIDE DEF r, j, f
  <2>5. /\ ~fault' /\ (\A g \in fetch_ring : g # f => g \in fetch_ring')
        /\ Elems(queue_ring)' = Elems(queue_ring) \ {f}
    <3>1. fetch_remove_from_queues(f)
      BY <1>15 DEF fetch_curl_stop, f
    <3>2. Linked(f)
      BY <1>o, <1>n, <2>0 DEF AllLinked, Gone, f
    <3> QED  BY <1>n, <2>0, <3>1, <3>2, RemoveFacts DEF Linked
  <2>6. AllLinked'
    BY <1>o, <1>n, <2>0, <2>1, <2>2, <2>3, <2>5 DEF AllLinked, Linked, Gone, f
  <2>7. Faulted' /\ LetGo' /\ CbPlace' /\ Silent'
    BY <2>4, <2>5 DEF Faulted, LetGo, CbPlace, Silent, AbortedIsSilent
  <2>8. StopsComplete' /\ Awaited'
    BY <1>o, <2>2, <2>3, <2>4 DEF StopsComplete, Awaited
  <2>9. Answered'
    BY <1>o, <1>n, <2>0, <2>1, <2>3 DEF Answered, f
  <2>10. JobTells'
    BY <1>o, <1>n, <2>0, <2>1, <2>2, <2>3, <2>4 DEF JobTells, f
  <2> QED  BY <2>6, <2>7, <2>8, <2>9, <2>10 DEF OInv
<1>16. CASE Tell
  <2> DEFINE f == job.fetch
             t == Head(job.tell)
             r == Told(fetch[f], t)
             j == [job EXCEPT !.tell = Tail(@)]
  <2>0. /\ job # NONE /\ job.step = "tell" /\ cb = NONE /\ f \in Fetches /\ job \in job_t
        /\ fetch[f].used /\ job.tell \in Seq(Messages) /\ job.tell # << >>
        /\ fetch[f].kind = "data" => ~fetch[f].abort
        /\ fetch[f].kind \in {"curl", "data"}
        /\ ~fault' /\ UNCHANGED <<queue_ring, fetch_ring, phase>>
    BY <1>16, <1>n, <1>s, <1>r DEF Tell, AtStep, PollRuns, IInv, JobOK, CutShort, fetch_t, Kinds
  <2>1. t \in Messages /\ (fetch[f].kind = "curl" => t \in ForgetOn)
    <3>1. t \in Messages /\ t \in Elems(job.tell)
      BY <2>0, TailFacts
    <3> QED  BY <3>1, <2>0, <1>n DEF IInv, JobOK
  <2>2. /\ job' = j /\ job' # NONE /\ j.fetch = f /\ j.step = "tell" /\ j.tell = Tail(job.tell)
    <3>1. job' = j
      BY <1>16 DEF Tell
    <3>2. Tail(job.tell) \in Seq(Messages)
      BY <2>0
    <3>3. j \in job_t /\ j.fetch = f /\ j.step = "tell" /\ j.tell = Tail(job.tell)
      BY <2>0, <3>2 DEF job_t
    <3> QED  BY <3>1, <3>3, NoneAssumption
  <2>3. /\ TellsOutcomeLast(Tail(job.tell))
        /\ Tail(job.tell) = << >> => t \notin Progressing
        /\ Tail(job.tell) # << >> => t \in Progressing
    BY <1>o, <1>n, <2>0, TellsTail DEF JobTells
  <2>4. /\ Keep(r, fetch[f]) /\ r.abort = fetch[f].abort
        /\ r.stopped = fetch[f].stopped /\ r.result = fetch[f].result
        /\ t \in Progressing => r.completed = fetch[f].completed
        /\ t \notin Progressing => r.completed = TRUE
    <3>1. fetch[f] \in fetch_t /\ t \in Messages
      BY <1>r, <2>0, <2>1
    <3> HIDE DEF f, t
    <3>2. Keep(r, fetch[f]) /\ (t \in Progressing => r.completed = fetch[f].completed)
      BY <3>1, RecordFields
    <3> QED  BY <3>1, <3>2, MoreFields
  <2>5. fetch'[f] = r /\ \A g \in Fetches : g # f => fetch'[g] = fetch[g]
    BY <1>16, <1>t, <2>0 DEF Tell, TypeOK
  <2>6. ~Certs => f \in held
    <3>1. ~Certs => ~fetch[f].completed
      BY <1>o, <1>n, <2>0 DEF JobTells
    <3> QED  BY <3>1, <1>o, <2>0 DEF Awaited
  <2>7. /\ cb' # NONE /\ cb'.next = "nothing"
        /\ f \in held => cb'.wanted
        /\ held' = IF t \in ForgetOn THEN held \ {f} ELSE held
    <3>1. Deliver(f, t, "nothing")
      BY <1>16 DEF Tell
    <3> HIDE DEF f, t
    <3> QED  BY <1>t, <2>0, <2>1, <3>1, DeliverFacts
  <2>m. t \in ForgetOn => t \notin Progressing
    BY MessageSets
  <2> HIDE DEF f, t, r, j
  <2>8. AllLinked'
    BY <1>o, <1>n, <2>0, <2>2, <2>4, <2>5 DEF AllLinked, Linked, Gone, Elems, Keep, f
  <2>9. LetGo'
    BY <2>0, <2>1, <2>2, <2>4, <2>5, <2>7 DEF LetGo, Keep
  <2>10. Faulted' /\ CbPlace'
    BY <2>0, <2>7 DEF Faulted, CbPlace
  <2>11. Silent'
    <3>1. ~Certs => cb'.wanted
      BY <2>6, <2>7
    <3> QED  BY <3>1 DEF Silent, AbortedIsSilent
  <2>12. StopsComplete'
    BY <1>o, <2>4, <2>5 DEF StopsComplete, Keep
  <2>13. Awaited'
    BY <1>o, <2>4, <2>5, <2>7, <2>m DEF Awaited, Keep
  <2>14. Answered'
    BY <1>o, <1>n, <2>0, <2>2, <2>5 DEF Answered, f
  <2>15. JobTells'
    BY <1>o, <1>n, <2>0, <2>1, <2>2, <2>3, <2>4, <2>5, <2>m DEF JobTells, Keep, f
  <2> QED  BY <2>8, <2>9, <2>10, <2>11, <2>12, <2>13, <2>14, <2>15 DEF OInv
<1>17. CASE ToldAll
  <2> DEFINE f == job.fetch
             j == [job EXCEPT !.step = "free"]
  <2>0. /\ job # NONE /\ job.step = "tell" /\ cb = NONE /\ f \in Fetches /\ job \in job_t
        /\ fetch[f].used /\ fetch[f].kind \in {"curl", "data"}
        /\ fetch' = fetch /\ cb' = NONE /\ UNCHANGED <<held, phase>>
    BY <1>17, <1>n, <1>s, <1>r DEF ToldAll, AtStep, PollRuns, IInv, JobOK, fetch_t, Kinds
  <2>1. job' = j /\ job' # NONE /\ j.fetch = f /\ j.step = "free" /\ j.tell = job.tell
    <3>1. job' = j
      BY <1>17 DEF ToldAll
    <3>2. j \in job_t /\ j.fetch = f /\ j.step = "free" /\ j.tell = job.tell
      BY <2>0 DEF job_t
    <3> QED  BY <3>1, <3>2, NoneAssumption
  <2>2. fetch[f].completed
    <3>1. job.tell = << >> \/ fetch[f].abort
      BY <1>17 DEF ToldAll, CutShort
    <3> QED  BY <3>1, <1>o, <1>n, <2>0 DEF JobTells, StopsComplete
  <2> HIDE DEF f, j
  <2>3. /\ ~fault' /\ (\A g \in fetch_ring : g # f => g \in fetch_ring')
        /\ \A g \in Elems(queue_ring) : g # f => g \in Elems(queue_ring)'
    <3>1. CASE fetch[f].kind = "data"
      <4>1. fetch_remove_from_queues(f)
        BY <1>17, <3>1 DEF ToldAll, f
      <4>2. Linked(f)
        BY <1>o, <1>n, <2>0, <3>1 DEF AllLinked, Gone, f
      <4> QED  BY <1>n, <2>0, <4>1, <4>2, RemoveFacts DEF Linked
    <3>2. CASE fetch[f].kind # "data"
      BY <1>17, <1>n, <3>2 DEF ToldAll, f
    <3> QED  BY <3>1, <3>2
  <2>4. AllLinked'
    BY <1>o, <1>n, <2>0, <2>1, <2>3 DEF AllLinked, Linked, Gone, f
  <2>5. Faulted' /\ LetGo' /\ CbPlace' /\ StopsComplete' /\ Awaited' /\ Silent'
    BY <1>o, <2>0, <2>3 DEF Faulted, LetGo, CbPlace, StopsComplete, Awaited, Silent, AbortedIsSilent
  <2>6. Answered'
    BY <1>o, <1>n, <2>0, <2>1 DEF Answered, f
  <2>7. JobTells'
    BY <1>o, <1>n, <2>0, <2>1, <2>2 DEF JobTells, f
  <2> QED  BY <2>4, <2>5, <2>6, <2>7 DEF OInv
<1>18. CASE FreeJob
  <2> DEFINE f == job.fetch
  <2>0. /\ job # NONE /\ job.step = "free" /\ cb = NONE /\ f \in Fetches /\ fetch[f].completed
    BY <1>18, <1>n, <1>s, <1>o DEF FreeJob, AtStep, PollRuns, JobTells
  <2>1. /\ fetch' = [fetch EXCEPT ![f] = Free] /\ job' = NONE /\ cb' = NONE /\ ~fault'
        /\ UNCHANGED <<held, queue_ring, fetch_ring>>
    BY <1>18, <1>n, <2>0 DEF FreeJob, fetch_free
  <2> HIDE DEF f
  <2>2. /\ \A g \in Fetches : g # f => fetch'[g] = fetch[g]
        /\ ~fetch'[f].used /\ ~fetch'[f].abort /\ ~fetch'[f].stopped
    BY <1>t, <2>0, <2>1 DEF TypeOK, Free
  <2>3. AllLinked'
    BY <1>o, <1>n, <2>0, <2>1, <2>2 DEF AllLinked, Linked, Gone, Elems, f
  <2>4. StopsComplete' /\ Awaited'
    BY <1>o, <2>0, <2>1, <2>2 DEF StopsComplete, Awaited
  <2>5. Answered'
    BY <1>o, <1>n, <2>0, <2>1, <2>2 DEF Answered, f
  <2> QED  BY <2>1, <2>3, <2>4, <2>5
           DEF OInv, Faulted, LetGo, CbPlace, JobTells, Silent, AbortedIsSilent
<1>19. ASSUME NEW reply \in DataReplies, fetch_data_process(reply)
       PROVE  OInv'
  <2> DEFINE f == Head(ring)
  <2>0. /\ job = NONE /\ cb = NONE /\ cb' = NONE /\ ring # << >> /\ ~fault'
        /\ UNCHANGED <<fetch, queue_ring, fetch_ring, held, phase>>
    BY <1>19, <1>n DEF fetch_data_process, PollRuns
  <2>1. f \in Fetches /\ fetch[f].used /\ fetch[f].kind = "data"
    <3>1. f \in Elems(ring) /\ f \in Fetches
      BY <1>s, <2>0, TailFacts
    <3> QED  BY <3>1 DEF IInv, DataRing
  <2>2. job' # NONE /\ job'.fetch = f /\ job'.step = "tell" /\ job'.tell = reply
    <3>1. job' = [fetch |-> f, step |-> "tell", tell |-> reply]
      BY <1>19 DEF fetch_data_process
    <3> HIDE DEF f
    <3>2. [fetch |-> f, step |-> "tell", tell |-> reply] \in job_t
      BY <2>1, ReplyType DEF job_t
    <3> QED  BY <3>1, <3>2, NoneAssumption
  <2>3. reply # << >> /\ TellsOutcomeLast(reply)
    BY RepliesTell
  <2>4. fetch[f].completed => fetch[f].abort
    BY <1>o, <1>n, <2>0, <2>1 DEF Answered, StopsComplete
  <2> HIDE DEF f
  <2>5. AllLinked'
    BY <1>o, <1>n, <2>0, <2>1, <2>2 DEF AllLinked, Linked, Gone, Elems
  <2>6. Faulted' /\ LetGo' /\ CbPlace' /\ StopsComplete' /\ Awaited' /\ Silent'
    BY <1>o, <2>0 DEF Faulted, LetGo, CbPlace, StopsComplete, Awaited, Silent, AbortedIsSilent
  <2>7. Answered'
    BY <1>o, <1>n, <2>0, <2>2 DEF Answered
  <2>8. JobTells'
    BY <2>0, <2>1, <2>2, <2>3, <2>4 DEF JobTells
  <2> QED  BY <2>5, <2>6, <2>7, <2>8 DEF OInv
<1>20. ASSUME NEW fds \in BOOLEAN, PollEnds(fds)
       PROVE  OInv'
  <2>1. Elems(queue_ring)' = Elems(queue_ring) /\ cb = NONE
    BY <1>20 DEF PollEnds, PollRuns
  <2> QED  BY <1>20, <1>q, <2>1 DEF PollEnds
<1> QED
  BY <1>1, <1>2, <1>3, <1>4, <1>5, <1>6, <1>7, <1>8, <1>9, <1>10, <1>11, <1>12, <1>13, <1>14,
     <1>15, <1>16, <1>17, <1>18, <1>19, <1>20
  DEF Next, Client, Dispatch, Transfer, Poll, PollGoesOn

LEMMA OInit == Init => OInv
<1> SUFFICES ASSUME Init
             PROVE  OInv
  OBVIOUS
<1>1. \A f \in Fetches : fetch[f] = Free
  BY DEF Init
<1>2. ~fault /\ job = NONE /\ cb = NONE
  BY DEF Init
<1> QED  BY <1>1, <1>2 DEF OInv, AllLinked, Faulted, LetGo, CbPlace, StopsComplete, Answered, Awaited,
                           JobTells, Silent, AbortedIsSilent, Free

LEMMA OInductive == Spec => []OInv
  BY OInit, OStep, Inductive, PTL DEF Spec

-----------------------------------------------------------------------------

\* However the aborts and starts of a callback interleave with the poll that
\* is delivering the message, fetch_remove_from_queues() finds the fetch in
\* the ring that its flag names and no fetch is freed twice, in a build that
\* collects no certificate chains.  (With Certs there is one way to a fault,
\* and only one, by Faulted: an abort while a callback runs, of the fetch the
\* poll has already unlinked; the run fetch_abort_in_certs shows it.)
THEOREM NeverFaults ==
    ASSUME Certs = FALSE
    PROVE  Spec => []NoFault
<1>1. OInv => NoFault
  BY DEF OInv, Faulted, NoFault
<1> QED  BY <1>1, OInductive, PTL

\* fetch_free() never makes up an error: whichever way a fetch ends, its
\* fetcher has reported an outcome or the client has aborted it by then.
THEOREM OutcomesReported == Spec => []OutcomeReported
<1>1. OInv => OutcomeReported
  BY DEF OInv, Faulted, JobTells, OutcomeReported
<1> QED  BY <1>1, OInductive, PTL

\* A client hears nothing of a fetch that it has aborted or been told the
\* outcome of, from libcurl's callbacks, fetch_curl_done()'s outcome or
\* fetch_data_poll(), in a build without certificate chains.
THEOREM AbortedStaysSilent ==
    ASSUME Certs = FALSE
    PROVE  Spec => []AbortedIsSilent
<1>1. OInv => AbortedIsSilent
  BY DEF OInv, Silent
<1> QED  BY <1>1, OInductive, PTL

=============================================================================
