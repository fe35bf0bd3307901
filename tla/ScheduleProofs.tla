--------------------------- MODULE ScheduleProofs ---------------------------
(***************************************************************************)
(* Proofs about the callback scheduler: the inductive invariant IInv, the  *)
(* invariants it implies, and that the scheduler implements TimerService,  *)
(* for every set of keys and every heap.                                   *)
(***************************************************************************)
EXTENDS Schedule, TLAPS

\* The fields of an entry agree: the callback is null exactly in a killed or
\* a deleted entry, and only a queued entry has a timer.
Fields ==
    \A e \in Entries :
        /\ heap[e].callback = NULL <=> (heap[e].callback_killed \/ ~heap[e].live)
        /\ heap[e].timer => e \in queued_callbacks /\ ~heap[e].callback_killed

\* The three vectors hold allocated entries and never the same one twice;
\* of this_run only the part not yet deleted counts.
Disjoint ==
    /\ \A e \in queued_callbacks : heap[e].live
    /\ \A i \in 1..Len(pending_callbacks) :
          /\ heap[pending_callbacks[i]].live
          /\ pending_callbacks[i] \notin queued_callbacks
          /\ \A j \in 1..Len(pending_callbacks) :
                pending_callbacks[i] = pending_callbacks[j] => i = j
    /\ \A i \in 1..Len(this_run) : i >= pos =>
          /\ heap[this_run[i]].live
          /\ this_run[i] \notin queued_callbacks
          /\ \A j \in 1..Len(pending_callbacks) : this_run[i] # pending_callbacks[j]
          /\ \A j \in 1..Len(this_run) : j >= pos /\ this_run[i] = this_run[j] => i = j

\* An entry with a callback is in a vector, so schedule_remove() finds it.
Located ==
    \A e \in Entries : heap[e].callback # NULL =>
        \/ e \in queued_callbacks
        \/ InVec(pending_callbacks, e)
        \/ \E i \in 1..Len(this_run) : i >= pos /\ this_run[i] = e

\* Two entries never have the same callback.
Unique ==
    \A e, f \in Entries :
        heap[e].callback # NULL /\ heap[e].callback = heap[f].callback => e = f

\* schedule_run() is between its first line and its clear() exactly while
\* this_run has entries, and only then a callback executes.
LoopState == /\ pos = 0 <=> this_run = << >>
             /\ running # NULL => pos > 0

IInv == TypeOK /\ Fields /\ Disjoint /\ Located /\ Unique /\ LoopState

LEMMA InitIInv == Init => IInv
BY KeysAssumption DEF Init, IInv, TypeOK, Fields, Disjoint, Located, Unique, LoopState, Freed,
   qt_callback_t, InVec

\* What schedule_remove(k) leaves: entries for k are killed, others are as
\* they were.  Every entry for k is found.
LEMMA RemoveEffect ==
    ASSUME IInv, NEW k \in Keys
    PROVE  /\ schedule_remove(k) \in [Entries -> qt_callback_t]
           /\ \A e \in Entries :
                /\ heap[e].callback = k =>
                     /\ schedule_remove(k)[e].callback = NULL
                     /\ schedule_remove(k)[e].callback_killed
                     /\ ~schedule_remove(k)[e].timer
                     /\ schedule_remove(k)[e].live = heap[e].live
                /\ heap[e].callback # k => schedule_remove(k)[e] = heap[e]
<1>1. \A e \in Entries : heap[e].callback = k => e \in Match(k)
  BY KeysAssumption DEF IInv, Located, Match, InVec
<1>2. \A e \in Match(k) : heap[e].callback = k
  BY DEF Match
<1>3. \A e \in Entries : heap[e] \in qt_callback_t
  BY DEF IInv, TypeOK
<1> QED BY <1>1, <1>2, <1>3 DEF schedule_remove, qt_callback_t

LEMMA UnscheduleIInv ==
    ASSUME IInv, NEW k \in Keys, gui_misc_unschedule(k) PROVE IInv'
<1>1. /\ heap' \in [Entries -> qt_callback_t]
      /\ \A e \in Entries :
           /\ heap[e].callback = k =>
                /\ heap'[e].callback = NULL
                /\ heap'[e].callback_killed
                /\ ~heap'[e].timer
                /\ heap'[e].live = heap[e].live
           /\ heap[e].callback # k => heap'[e] = heap[e]
  BY RemoveEffect DEF gui_misc_unschedule
<1>2. UNCHANGED <<queued_callbacks, pending_callbacks, this_run, pos, running>>
  BY DEF gui_misc_unschedule
<1>a. TypeOK' BY <1>1, <1>2 DEF IInv, TypeOK
<1>b. Fields' BY <1>1, <1>2 DEF IInv, TypeOK, Fields
<1>c. Disjoint'
  <2>1. \A e \in Entries : heap'[e].live = heap[e].live
    BY <1>1 DEF IInv, TypeOK
  <2>2. /\ queued_callbacks \subseteq Entries
        /\ \A i \in 1..Len(pending_callbacks) : pending_callbacks[i] \in Entries
        /\ \A i \in 1..Len(this_run) : this_run[i] \in Entries
    BY DEF IInv, TypeOK
  <2> QED BY <1>2, <2>1, <2>2 DEF IInv, Disjoint
<1>d. Located' BY <1>1, <1>2 DEF IInv, Located, InVec
<1>e. Unique' BY <1>1, <1>2 DEF IInv, Unique
<1>f. LoopState' BY <1>2 DEF IInv, LoopState
<1> QED BY <1>a, <1>b, <1>c, <1>d, <1>e, <1>f DEF IInv

LEMMA ScheduleIInv ==
    ASSUME IInv, NEW k \in Keys, NEW n \in Entries, gui_misc_schedule(k, n) PROVE IInv'
<1>1. /\ heap' \in [Entries -> qt_callback_t]
      /\ heap'[n] = [live |-> TRUE, callback |-> k, callback_killed |-> FALSE, timer |-> TRUE]
      /\ \A e \in Entries : e # n =>
           /\ heap[e].callback = k =>
                /\ heap'[e].callback = NULL
                /\ heap'[e].callback_killed
                /\ ~heap'[e].timer
                /\ heap'[e].live = heap[e].live
           /\ heap[e].callback # k => heap'[e] = heap[e]
  BY RemoveEffect DEF gui_misc_schedule, qt_callback_t
<1>2. /\ queued_callbacks' = queued_callbacks \cup {n}
      /\ UNCHANGED <<pending_callbacks, this_run, pos, running>>
      /\ ~heap[n].live
  BY DEF gui_misc_schedule
<1>a. TypeOK' BY <1>1, <1>2 DEF IInv, TypeOK
<1>b. Fields' BY <1>1, <1>2, KeysAssumption DEF IInv, TypeOK, Fields
<1>c. Disjoint'
  <2>1. \A i \in 1..Len(pending_callbacks) : pending_callbacks[i] # n
    BY <1>2 DEF IInv, Disjoint
  <2>2. \A i \in 1..Len(this_run) : i >= pos => this_run[i] # n
    BY <1>2 DEF IInv, Disjoint
  <2>3. \A e \in Entries : e # n => heap'[e].live = heap[e].live
    BY <1>1 DEF IInv, TypeOK
  <2>4. \A i \in 1..Len(pending_callbacks) : pending_callbacks[i] \in Entries
    BY DEF IInv, TypeOK
  <2>5. \A i \in 1..Len(this_run) : this_run[i] \in Entries
    BY DEF IInv, TypeOK
  <2>6. queued_callbacks \subseteq Entries /\ heap'[n].live
    BY <1>1 DEF IInv, TypeOK
  <2> QED BY <1>2, <2>1, <2>2, <2>3, <2>4, <2>5, <2>6 DEF IInv, Disjoint
<1>d. Located' BY <1>1, <1>2 DEF IInv, Located, InVec
<1>e. Unique' BY <1>1, <1>2, KeysAssumption DEF IInv, Unique
<1>f. LoopState' BY <1>2 DEF IInv, LoopState
<1> QED BY <1>a, <1>b, <1>c, <1>d, <1>e, <1>f DEF IInv

LEMMA TimeoutIInv ==
    ASSUME IInv, NEW n \in Entries, timeout(n) PROVE IInv'
<1>1. /\ heap' \in [Entries -> qt_callback_t]
      /\ \A e \in Entries :
            /\ heap'[e].live = heap[e].live
            /\ heap'[e].callback = heap[e].callback
            /\ heap'[e].callback_killed = heap[e].callback_killed
            /\ heap'[e].timer = (heap[e].timer /\ e # n)
  BY DEF timeout, IInv, TypeOK, qt_callback_t
<1>2. /\ queued_callbacks' = queued_callbacks \ {n}
      /\ UNCHANGED <<this_run, pos, running>>
      /\ n \in queued_callbacks
      /\ heap[n].live
      /\ pos = 0
      /\ this_run = << >>
  BY DEF timeout, IInv, Fields, Disjoint, InEventLoop, LoopState
<1>3. /\ pending_callbacks' \in Seq(Entries)
      /\ Len(pending_callbacks') = Len(pending_callbacks) + 1
      /\ \A i \in 1..Len(pending_callbacks) : pending_callbacks'[i] = pending_callbacks[i]
      /\ pending_callbacks'[Len(pending_callbacks) + 1] = n
      /\ Len(pending_callbacks) \in Nat
  BY DEF timeout, IInv, TypeOK
<1>a. TypeOK' BY <1>1, <1>2, <1>3 DEF IInv, TypeOK
<1>b. Fields' BY <1>1, <1>2 DEF IInv, TypeOK, Fields
<1>c. Disjoint'
  <2>1. \A i \in 1..Len(pending_callbacks) : pending_callbacks[i] # n /\ pending_callbacks[i] \in Entries
    BY <1>2 DEF IInv, Disjoint, TypeOK
  <2>2. \A i \in 1..Len(pending_callbacks') :
           \/ i \in 1..Len(pending_callbacks)
           \/ i = Len(pending_callbacks) + 1
    BY <1>3
  <2>3. \A i \in 1..Len(pending_callbacks') :
           /\ heap'[pending_callbacks'[i]].live
           /\ pending_callbacks'[i] \notin queued_callbacks'
    BY <1>1, <1>2, <1>3, <2>1, <2>2 DEF IInv, Disjoint
  <2>4. \A i, j \in 1..Len(pending_callbacks') :
           pending_callbacks'[i] = pending_callbacks'[j] => i = j
    BY <1>3, <2>1, <2>2 DEF IInv, Disjoint
  <2>5. \A e \in queued_callbacks' : heap'[e].live
    BY <1>1, <1>2 DEF IInv, Disjoint, TypeOK
  <2>6. this_run' = << >>
    BY <1>2
  <2> QED BY <2>3, <2>4, <2>5, <2>6 DEF Disjoint
<1>d. Located'
  <2>1. InVec(pending_callbacks', n)
    BY <1>3 DEF InVec
  <2>2. \A e \in Entries : InVec(pending_callbacks, e) => InVec(pending_callbacks', e)
    BY <1>3 DEF InVec
  <2> QED BY <1>1, <1>2, <2>1, <2>2 DEF IInv, Located, InVec
<1>e. Unique' BY <1>1 DEF IInv, Unique
<1>f. LoopState' BY <1>2 DEF IInv, LoopState
<1> QED BY <1>a, <1>b, <1>c, <1>d, <1>e, <1>f DEF IInv

LEMMA RunIInv == ASSUME IInv, schedule_run PROVE IInv'
<1>1. /\ heap' = heap
      /\ queued_callbacks' = queued_callbacks
      /\ running' = running
      /\ this_run' = pending_callbacks
      /\ pending_callbacks' = << >>
      /\ pos' = 1
      /\ this_run = << >>
      /\ running = NULL
      /\ pending_callbacks # << >>
  BY DEF schedule_run, InEventLoop, IInv, LoopState
<1>2. pos' \in 0..Len(this_run')
  BY <1>1 DEF IInv, TypeOK
<1>a. TypeOK' BY <1>1, <1>2 DEF IInv, TypeOK
<1>b. Fields' BY <1>1 DEF IInv, Fields
<1>c. Disjoint' BY <1>1 DEF IInv, Disjoint
<1>d. Located' BY <1>1 DEF IInv, Located, InVec
<1>e. Unique' BY <1>1 DEF IInv, Unique
<1>f. LoopState' BY <1>1 DEF IInv, LoopState
<1> QED BY <1>a, <1>b, <1>c, <1>d, <1>e, <1>f DEF IInv

LEMMA RunCallbackIInv == ASSUME IInv, RunCallback PROVE IInv'
BY DEF RunCallback, IInv, TypeOK, qt_callback_t, Fields, Disjoint, Located, Unique, LoopState,
   InVec, Callable

\* Deleting the entry the loop is at and moving on, for both ways it happens.
LEMMA AdvanceIInv ==
    ASSUME IInv, pos > 0, DeleteAndAdvance, running' = NULL PROVE IInv'
<1> DEFINE d == this_run[pos]
<1>0. d \in Entries /\ pos \in 1..Len(this_run) /\ Len(this_run) \in Nat
  BY DEF IInv, TypeOK
<1>1. /\ heap' \in [Entries -> qt_callback_t]
      /\ heap'[d] = Freed
      /\ \A e \in Entries : e # d => heap'[e] = heap[e]
  BY <1>0 DEF DeleteAndAdvance, IInv, TypeOK, Freed, qt_callback_t
<1>2. UNCHANGED <<queued_callbacks, pending_callbacks>>
  BY DEF DeleteAndAdvance
<1>3. \/ pos < Len(this_run) /\ pos' = pos + 1 /\ this_run' = this_run
      \/ pos = Len(this_run) /\ pos' = 0 /\ this_run' = << >>
  BY <1>0 DEF DeleteAndAdvance
<1>4. /\ d \notin queued_callbacks
      /\ \A j \in 1..Len(pending_callbacks) : pending_callbacks[j] # d
      /\ \A j \in 1..Len(this_run) : j > pos => this_run[j] # d
  <2>1. \A j \in 1..Len(this_run) : j > pos => j >= pos /\ j # pos
    BY <1>0
  <2>2. pos >= pos
    BY <1>0
  <2> QED BY <1>0, <2>1, <2>2 DEF IInv, Disjoint
<1>a. TypeOK'
  <2>1. this_run' \in Seq(Entries) /\ pos' \in 0..Len(this_run')
    <3>1. CASE pos < Len(this_run) /\ pos' = pos + 1 /\ this_run' = this_run
      BY <3>1, <1>0 DEF IInv, TypeOK
    <3>2. CASE pos' = 0 /\ this_run' = << >>
      BY <3>2
    <3> QED BY <1>3, <3>1, <3>2
  <2> QED BY <1>1, <1>2, <2>1 DEF IInv, TypeOK
<1>b. Fields' BY <1>1, <1>2, <1>4 DEF IInv, Fields, Freed
<1>c. Disjoint'
  <2>1. \A e \in queued_callbacks' : heap'[e].live
    BY <1>1, <1>2, <1>4 DEF IInv, TypeOK, Disjoint
  <2>2. \A i \in 1..Len(pending_callbacks) : pending_callbacks[i] \in Entries
    BY DEF IInv, TypeOK
  <2>3. \A i \in 1..Len(pending_callbacks') :
          /\ heap'[pending_callbacks'[i]].live
          /\ pending_callbacks'[i] \notin queued_callbacks'
          /\ \A j \in 1..Len(pending_callbacks') :
                pending_callbacks'[i] = pending_callbacks'[j] => i = j
    BY <1>1, <1>2, <1>4, <2>2 DEF IInv, Disjoint
  <2>4. CASE pos' = 0 /\ this_run' = << >>
    BY <2>1, <2>3, <2>4 DEF Disjoint
  <2>5. CASE pos < Len(this_run) /\ pos' = pos + 1 /\ this_run' = this_run
    <3>1. \A i \in 1..Len(this_run') : i >= pos' => i > pos /\ i >= pos /\ this_run[i] \in Entries
      BY <2>5, <1>0 DEF IInv, TypeOK
    <3> HIDE DEF d
    <3>2. \A i \in 1..Len(this_run') : i >= pos' =>
            /\ heap'[this_run'[i]].live
            /\ this_run'[i] \notin queued_callbacks'
            /\ \A j \in 1..Len(pending_callbacks') : this_run'[i] # pending_callbacks'[j]
            /\ \A j \in 1..Len(this_run') : j >= pos' /\ this_run'[i] = this_run'[j] => i = j
      BY <2>5, <3>1, <1>1, <1>2, <1>4 DEF IInv, Disjoint
    <3> QED BY <2>1, <2>3, <3>2 DEF Disjoint
  <2> QED BY <1>3, <2>4, <2>5
<1>d. Located'
  <2> SUFFICES ASSUME NEW e \in Entries, heap'[e].callback # NULL
               PROVE  \/ e \in queued_callbacks'
                      \/ InVec(pending_callbacks', e)
                      \/ \E i \in 1..Len(this_run') : i >= pos' /\ this_run'[i] = e
    BY DEF Located
  <2>1. e # d /\ heap[e].callback # NULL
    BY <1>1 DEF Freed
  <2>2. CASE \E i \in 1..Len(this_run) : i >= pos /\ this_run[i] = e
    <3>1. PICK i \in 1..Len(this_run) : i >= pos /\ this_run[i] = e
      BY <2>2
    <3>2. i > pos
      BY <3>1, <2>1, <1>0
    <3>3. pos < Len(this_run) /\ i >= pos + 1
      BY <3>2, <1>0
    <3> QED BY <3>1, <3>3, <1>3, <1>0
  <2> QED BY <2>1, <2>2, <1>2 DEF IInv, Located, InVec
<1>e. Unique' BY <1>1 DEF IInv, Unique, Freed
<1>f. LoopState' BY <1>0, <1>3 DEF LoopState
<1> QED BY <1>a, <1>b, <1>c, <1>d, <1>e, <1>f DEF IInv

LEMMA NextIInv == IInv /\ [Next]_vars => IInv'
<1> SUFFICES ASSUME IInv, [Next]_vars PROVE IInv'
  OBVIOUS
<1>1. CASE \E k \in Keys : gui_misc_unschedule(k)
  BY <1>1, UnscheduleIInv
<1>2. CASE \E k \in Keys, e \in Entries : gui_misc_schedule(k, e)
  BY <1>2, ScheduleIInv
<1>3. CASE \E e \in Entries : timeout(e)
  BY <1>3, TimeoutIInv
<1>4. CASE schedule_run
  BY <1>4, RunIInv
<1>5. CASE RunCallback
  BY <1>5, RunCallbackIInv
<1>6. CASE CallbackReturns
  BY <1>6, AdvanceIInv DEF CallbackReturns
<1>7. CASE SkipKilled
  BY <1>7, AdvanceIInv DEF SkipKilled
<1>8. CASE UNCHANGED vars
  BY <1>8 DEF vars, IInv, TypeOK, Fields, Disjoint, Located, Unique, LoopState, InVec
<1> QED BY <1>1, <1>2, <1>3, <1>4, <1>5, <1>6, <1>7, <1>8 DEF Next

\* The scheduler's state stays inside its types.
THEOREM Typing == Spec => []TypeOK
<1>1. IInv => TypeOK
  BY DEF IInv
<1> QED BY InitIInv, NextIInv, <1>1, PTL DEF Spec

\* At every moment at most one entry is due for a (callback, context) pair.
THEOREM OneWaiting == Spec => []AtMostOneWaiting
<1>1. IInv => AtMostOneWaiting
  BY DEF IInv, Unique, AtMostOneWaiting, Waiting, Callable
<1> QED BY InitIInv, NextIInv, <1>1, PTL DEF Spec

\* The scheduler never fires or calls a deleted entry.
THEOREM NoDangling == Spec => []NoDanglingEntry
<1>1. IInv => NoDanglingEntry
  BY DEF IInv, Disjoint, NoDanglingEntry
<1> QED BY InitIInv, NextIInv, <1>1, PTL DEF Spec

-----------------------------------------------------------------------------
(* Refinement.                                                             *)

\* Under the invariant an entry waits exactly when it has a callback and is
\* not the one being executed.
LEMMA WaitingIff ==
    ASSUME IInv, NEW e \in Entries
    PROVE  Waiting(e) <=> heap[e].callback # NULL /\ ~(running # NULL /\ this_run[pos] = e)
<1>1. heap[e].callback # NULL => heap[e].live /\ Callable(e)
  BY DEF IInv, Fields, Callable
<1>2. /\ Len(this_run) \in Nat
      /\ pos \in 0..Len(this_run)
      /\ running # NULL => pos \in 1..Len(this_run)
  BY DEF IInv, TypeOK, LoopState
<1>3. ASSUME Waiting(e) PROVE heap[e].callback # NULL
  BY <1>3 DEF Waiting, Callable
<1>4. ASSUME Waiting(e), running # NULL, this_run[pos] = e PROVE FALSE
  <2>1. pos >= pos
    BY <1>2
  <2>2. e \notin queued_callbacks /\ ~InVec(pending_callbacks, e)
    BY <1>2, <1>4, <2>1 DEF IInv, Disjoint, InVec
  <2>3. PICK i \in 1..Len(this_run) : this_run[i] = e /\ i > pos
    BY <1>4, <2>2 DEF Waiting
  <2>4. i >= pos /\ i # pos
    BY <2>3, <1>2
  <2> QED BY <1>2, <1>4, <2>1, <2>3, <2>4 DEF IInv, Disjoint
<1>5. ASSUME heap[e].callback # NULL, ~(running # NULL /\ this_run[pos] = e)
      PROVE  Waiting(e)
  <2>1. CASE e \in queued_callbacks \/ InVec(pending_callbacks, e)
    BY <1>1, <1>5, <2>1 DEF Waiting
  <2>2. CASE \E i \in 1..Len(this_run) : i >= pos /\ this_run[i] = e
    <3>1. PICK i \in 1..Len(this_run) : i >= pos /\ this_run[i] = e
      BY <2>2
    <3>2. i > pos \/ (i = pos /\ running = NULL)
      BY <1>2, <1>5, <3>1
    <3> QED BY <1>1, <1>5, <3>1, <3>2 DEF Waiting
  <2> QED BY <1>5, <2>1, <2>2 DEF IInv, Located
<1> QED BY <1>3, <1>4, <1>5

armedKeys == { k \in Keys : \E e \in Entries : Waiting(e) /\ heap[e].callback = k }

\* The entry whose callback is executing.
Executing(e) == running # NULL /\ this_run[pos] = e

\* armedKeys without the detour through the vectors.
ArmedDirectly ==
    \A k \in Keys : k \in armedKeys <=>
        \E e \in Entries : heap[e].callback = k /\ ~Executing(e)

LEMMA ArmedIff == IInv => ArmedDirectly
BY WaitingIff, KeysAssumption DEF ArmedDirectly, armedKeys, Executing

LEMMA InitRefines == Init => Service!Init
BY DEF Init, Service!Init, Waiting, Callable, Freed

LEMMA NextRefines == IInv /\ IInv' /\ [Next]_vars => [Service!Next]_(Service!vars)
<1> SUFFICES ASSUME IInv, IInv', [Next]_vars PROVE [Service!Next]_(Service!vars)
  OBVIOUS
<1>a. ArmedDirectly /\ ArmedDirectly'
  BY ArmedIff, PTL
<1>b. armedKeys \subseteq Keys /\ armedKeys' \subseteq Keys
  BY DEF armedKeys
<1>c. SUFFICES \/ \E k \in Keys : \/ armedKeys' = (armedKeys \cup {k}) /\ running' = running
                                  \/ armedKeys' = (armedKeys \ {k}) /\ running' = running
                                  \/ /\ running = NULL /\ running' = k
                                     /\ k \in armedKeys /\ armedKeys' = armedKeys \ {k}
               \/ running # NULL /\ running' = NULL /\ armedKeys' = armedKeys
               \/ armedKeys' = armedKeys /\ running' = running
  BY DEF armedKeys, Service!Next, Service!vars, Service!Schedule, Service!Remove, Service!Call,
     Service!Return
<1>1. ASSUME NEW k \in Keys, gui_misc_unschedule(k)
      PROVE  armedKeys' = armedKeys \ {k} /\ running' = running
  <2>1. /\ running' = running /\ this_run' = this_run /\ pos' = pos
        /\ \A e \in Entries :
             /\ heap[e].callback = k => heap'[e].callback = NULL
             /\ heap[e].callback # k => heap'[e].callback = heap[e].callback
    BY <1>1, RemoveEffect DEF gui_misc_unschedule
  <2> QED BY <1>a, <1>b, <2>1, KeysAssumption DEF ArmedDirectly, Executing
<1>2. ASSUME NEW k \in Keys, NEW n \in Entries, gui_misc_schedule(k, n)
      PROVE  armedKeys' = armedKeys \cup {k} /\ running' = running
  <2>1. /\ running' = running /\ this_run' = this_run /\ pos' = pos
        /\ heap'[n].callback = k
        /\ heap[n].callback = NULL
        /\ \A e \in Entries : e # n =>
             /\ heap[e].callback = k => heap'[e].callback = NULL
             /\ heap[e].callback # k => heap'[e].callback = heap[e].callback
    BY <1>2, RemoveEffect DEF gui_misc_schedule, IInv, Fields, qt_callback_t
  <2>2. ~Executing(n)
    BY <1>2 DEF gui_misc_schedule, IInv, TypeOK, LoopState, Disjoint, Executing
  <2> QED BY <1>a, <1>b, <2>1, <2>2, KeysAssumption DEF ArmedDirectly, Executing
<1>3. ASSUME NEW n \in Entries, timeout(n)
      PROVE  armedKeys' = armedKeys /\ running' = running
  <2>1. /\ running' = running /\ this_run' = this_run /\ pos' = pos
        /\ \A e \in Entries : heap'[e].callback = heap[e].callback
    BY <1>3 DEF timeout, IInv, TypeOK, qt_callback_t
  <2> QED BY <1>a, <1>b, <2>1 DEF ArmedDirectly, Executing
<1>4. ASSUME schedule_run PROVE armedKeys' = armedKeys /\ running' = running
  <2>1. heap' = heap /\ running' = running /\ running = NULL
    BY <1>4 DEF schedule_run, InEventLoop, IInv, LoopState
  <2> QED BY <1>a, <1>b, <2>1 DEF ArmedDirectly, Executing
<1>5. ASSUME RunCallback
      PROVE  \E k \in Keys : /\ running = NULL /\ running' = k
                             /\ k \in armedKeys /\ armedKeys' = armedKeys \ {k}
  <2> DEFINE c == this_run[pos]
             k == heap[c].callback
  <2>1. /\ c \in Entries /\ k \in Keys /\ running = NULL /\ running' = k
        /\ heap' = heap /\ this_run' = this_run /\ pos' = pos
    BY <1>5 DEF RunCallback, Callable, IInv, TypeOK, qt_callback_t
  <2>2. \A e \in Entries : heap[e].callback = k => e = c
    BY <2>1, KeysAssumption DEF IInv, Unique
  <2>3. \A e \in Entries : Executing(e)' <=> e = c
    BY <2>1, KeysAssumption DEF Executing
  <2>4. \A e \in Entries : ~Executing(e)
    BY <2>1 DEF Executing
  <2> HIDE DEF c
  <2>5. k \in armedKeys
    BY <1>a, <2>1, <2>4 DEF ArmedDirectly
  <2>6. \A q \in Keys : q \in armedKeys' <=> q \in armedKeys /\ q # k
    BY <1>a, <2>1, <2>2, <2>3, <2>4 DEF ArmedDirectly
  <2> QED BY <1>b, <2>1, <2>5, <2>6
<1>6. ASSUME pos > 0, DeleteAndAdvance, running' = NULL,
             running # NULL \/ ~Callable(this_run[pos])
      PROVE  armedKeys' = armedKeys
  <2> DEFINE c == this_run[pos]
  <2>1. /\ c \in Entries
        /\ heap'[c].callback = NULL
        /\ \A e \in Entries : e # c => heap'[e] = heap[e]
    BY <1>6 DEF DeleteAndAdvance, IInv, TypeOK, Freed
  <2>2. \A e \in Entries : ~Executing(e)'
    BY <1>6 DEF Executing
  <2>3. heap[c].callback = NULL \/ Executing(c)
    BY <1>6, <2>1 DEF Executing, Callable, IInv, Fields
  <2>4. \A e \in Entries : Executing(e) => e = c
    BY DEF Executing
  <2> HIDE DEF c
  <2>5. \A q \in Keys : q \in armedKeys' <=> q \in armedKeys
    BY <1>a, <2>1, <2>2, <2>3, <2>4, KeysAssumption DEF ArmedDirectly
  <2> QED BY <1>b, <2>5
<1>7. CASE UNCHANGED vars
  BY <1>7 DEF vars, armedKeys, Waiting, Callable, InVec
<1>8. CASE CallbackReturns
  BY <1>6, <1>8 DEF CallbackReturns
<1>9. CASE SkipKilled
  BY <1>6, <1>9 DEF SkipKilled
<1> QED BY <1>1, <1>2, <1>3, <1>4, <1>5, <1>7, <1>8, <1>9 DEF Next

\* The Qt scheduler implements the service the browser core relies on.
THEOREM ScheduleRefinesService == Spec => ImplementsService
BY InitIInv, NextIInv, InitRefines, NextRefines, PTL DEF Spec, ImplementsService, Service!Spec

=============================================================================
