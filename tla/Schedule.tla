------------------------------ MODULE Schedule ------------------------------
(***************************************************************************)
(* The Qt front end's callback scheduler, frontends/qt6/schedule.cpp, with *)
(* the pump of frontends/qt6/main.cpp that drives it.                      *)
(*                                                                         *)
(* An entry (qt_callback_t) is created by gui_misc_schedule() with a       *)
(* single-shot timer and put in queued_callbacks.  When the timer fires    *)
(* the entry moves to pending_callbacks; schedule_run() takes the whole    *)
(* pending vector as this_run, calls each entry that has not been killed   *)
(* in the meantime and deletes it.  A callback may itself schedule and     *)
(* unschedule, also what is later in the run that is executing it.         *)
(*                                                                         *)
(* Entries are addresses of a finite heap: a deleted entry's address may   *)
(* be allocated again while this_run still holds it.  An entry killed      *)
(* while queued stays in queued_callbacks for ever, as in the code, so     *)
(* scheduling is possible only while an address is free.                   *)
(***************************************************************************)
EXTENDS Naturals, Sequences

CONSTANTS
    Keys,     \* (callback, context) pairs
    NULL,     \* the null callback
    Entries   \* bound: addresses a qt_callback_t can have

ASSUME KeysAssumption == NULL \notin Keys

VARIABLES
    heap,               \* the fields of the entry at each address
    queued_callbacks,   \* entries waiting for their timer (order is irrelevant)
    pending_callbacks,  \* entries whose timer has fired, in firing order
    this_run,           \* the entries schedule_run() is working on
    pos,                \* index of the entry the loop of schedule_run() is at; 0: not running
    running             \* the callback that is executing, or NULL

vars == <<heap, queued_callbacks, pending_callbacks, this_run, pos, running>>

\* struct qt_callback_t, and whether the address is allocated.
qt_callback_t == [ live: BOOLEAN, callback: Keys \cup {NULL},
                   callback_killed: BOOLEAN, timer: BOOLEAN ]

Freed == [live |-> FALSE, callback |-> NULL, callback_killed |-> FALSE, timer |-> FALSE]

InVec(v, e) == \E i \in 1..Len(v) : v[i] = e

Init == /\ heap = [e \in Entries |-> Freed]
        /\ queued_callbacks = {}
        /\ pending_callbacks = << >>
        /\ this_run = << >>
        /\ pos = 0
        /\ running = NULL

-----------------------------------------------------------------------------
(* gui_misc_schedule() is called from the event loop or from a callback.   *)

InEventLoop == pos = 0

CanCall == InEventLoop \/ running # NULL

\* Fault: entries whose timer has fired are not looked for.
Match_QueuedOnly(k) ==
    { e \in queued_callbacks : heap[e].callback = k }

\* Fault: the entries of the current run are not looked for.
Match_NotThisRun(k) ==
    { e \in Entries : /\ heap[e].callback = k
                      /\ e \in queued_callbacks \/ InVec(pending_callbacks, e) }

\* kill_match: the entries of the three vectors that are for key k.
Match(k) ==
    { e \in Entries : /\ heap[e].callback = k
                      /\ \/ e \in queued_callbacks
                         \/ InVec(pending_callbacks, e)
                         \/ InVec(this_run, e) }

\* schedule_remove(): the heap after every matching entry is killed.
schedule_remove(k) ==
    [e \in Entries |->
        IF e \in Match(k)
        THEN [heap[e] EXCEPT !.callback = NULL, !.callback_killed = TRUE, !.timer = FALSE]
        ELSE heap[e]]

\* gui_misc_schedule() with a negative interval.
gui_misc_unschedule(k) ==
    /\ CanCall
    /\ heap' = schedule_remove(k)
    /\ UNCHANGED <<queued_callbacks, pending_callbacks, this_run, pos, running>>

\* gui_misc_schedule() with an interval: remove, then queue a new entry e
\* with its timer started.
gui_misc_schedule(k, e) ==
    /\ CanCall
    /\ ~heap[e].live
    /\ heap' = [schedule_remove(k) EXCEPT ![e] =
                  [live |-> TRUE, callback |-> k, callback_killed |-> FALSE, timer |-> TRUE]]
    /\ queued_callbacks' = queued_callbacks \cup {e}
    /\ UNCHANGED <<pending_callbacks, this_run, pos, running>>

\* Fault: the entry is not erased from queued_callbacks.
timeout_NoErase(e) ==
    /\ InEventLoop
    /\ heap[e].timer
    /\ pending_callbacks' = Append(pending_callbacks, e)
    /\ heap' = [heap EXCEPT ![e].timer = FALSE]
    /\ UNCHANGED <<queued_callbacks, this_run, pos, running>>

\* The timeout handler of entry e's timer, run by the event loop.  (For a
\* killed entry the handler would change nothing.)
timeout(e) ==
    /\ InEventLoop
    /\ heap[e].timer
    /\ ~heap[e].callback_killed
    /\ queued_callbacks' = queued_callbacks \ {e}
    /\ pending_callbacks' = Append(pending_callbacks, e)
    /\ heap' = [heap EXCEPT ![e].timer = FALSE]
    /\ UNCHANGED <<this_run, pos, running>>

-----------------------------------------------------------------------------
(* schedule_run(), called by FetchPump::pump() on every heartbeat and      *)
(* every socket notification.                                              *)

\* Fault: a single pending entry is taken for an empty vector.
schedule_run_OffByOne ==
    /\ InEventLoop
    /\ Len(pending_callbacks) > 1
    /\ this_run' = pending_callbacks
    /\ pending_callbacks' = << >>
    /\ pos' = 1
    /\ UNCHANGED <<heap, queued_callbacks, running>>

schedule_run ==
    /\ InEventLoop
    /\ pending_callbacks # << >>
    /\ this_run' = pending_callbacks
    /\ pending_callbacks' = << >>
    /\ pos' = 1
    /\ UNCHANGED <<heap, queued_callbacks, running>>

Callable(e) == ~heap[e].callback_killed /\ heap[e].callback # NULL

\* The loop calls the entry it is at.
RunCallback ==
    /\ pos > 0
    /\ running = NULL
    /\ Callable(this_run[pos])
    /\ running' = heap[this_run[pos]].callback
    /\ UNCHANGED <<heap, queued_callbacks, pending_callbacks, this_run, pos>>

\* Fault: the loop runs past the end of the run.
DeleteAndAdvance_PastEnd ==
    /\ heap' = [heap EXCEPT ![this_run[pos]] = Freed]
    /\ IF pos <= Len(this_run)
       THEN pos' = pos + 1 /\ UNCHANGED this_run
       ELSE pos' = 0 /\ this_run' = << >>
    /\ UNCHANGED <<queued_callbacks, pending_callbacks>>

\* delete cb, and the next iteration or this_run.clear().
DeleteAndAdvance ==
    /\ heap' = [heap EXCEPT ![this_run[pos]] = Freed]
    /\ IF pos < Len(this_run)
       THEN pos' = pos + 1 /\ UNCHANGED this_run
       ELSE pos' = 0 /\ this_run' = << >>
    /\ UNCHANGED <<queued_callbacks, pending_callbacks>>

\* The callback returns to the loop.
CallbackReturns ==
    /\ pos > 0
    /\ running # NULL
    /\ running' = NULL
    /\ DeleteAndAdvance

\* An entry killed since its timer fired is passed over.
SkipKilled ==
    /\ pos > 0
    /\ running = NULL
    /\ ~Callable(this_run[pos])
    /\ DeleteAndAdvance
    /\ UNCHANGED running

Next == \/ \E k \in Keys : \/ gui_misc_unschedule(k)
                           \/ \E e \in Entries : gui_misc_schedule(k, e)
        \/ \E e \in Entries : timeout(e)
        \/ schedule_run
        \/ RunCallback
        \/ CallbackReturns
        \/ SkipKilled

Spec == Init /\ [][Next]_vars

\* The event loop delivers every elapsed timer although pumps come between
\* (strong fairness: a pump disables the handlers while it runs), the
\* heartbeat keeps calling schedule_run(), its loop does not stop and every
\* callback returns.
Fairness == /\ \A e \in Entries : SF_vars(timeout(e))
            /\ WF_vars(schedule_run)
            /\ WF_vars(RunCallback)
            /\ WF_vars(CallbackReturns)
            /\ WF_vars(SkipKilled)

FairSpec == Spec /\ Fairness

-----------------------------------------------------------------------------
(* Properties.                                                             *)

\* Every variable has its type; the loop index is inside the run.
TypeOK == /\ heap \in [Entries -> qt_callback_t]
          /\ queued_callbacks \subseteq Entries
          /\ pending_callbacks \in Seq(Entries)
          /\ this_run \in Seq(Entries)
          /\ pos \in 0..Len(this_run)
          /\ running \in Keys \cup {NULL}

\* Entries whose callback the scheduler still has to call: queued, pending,
\* or in the run and not reached yet.
Waiting(e) ==
    /\ heap[e].live
    /\ Callable(e)
    /\ \/ e \in queued_callbacks
       \/ InVec(pending_callbacks, e)
       \/ \E i \in 1..Len(this_run) :
             this_run[i] = e /\ (i > pos \/ (i = pos /\ running = NULL))

\* A callback is never due twice: schedule_remove() in gui_misc_schedule()
\* leaves no second entry for the same function and context, whichever of
\* the three vectors the first one has reached.
AtMostOneWaiting ==
    \A e, f \in Entries :
        Waiting(e) /\ Waiting(f) /\ heap[e].callback = heap[f].callback => e = f

\* No vector that will still be walked for calling or firing holds a deleted
\* entry, although this_run keeps the addresses it has already deleted and
\* a callback may be given one of them for a new entry.
NoDanglingEntry ==
    /\ \A e \in queued_callbacks : heap[e].live
    /\ \A i \in 1..Len(pending_callbacks) : heap[pending_callbacks[i]].live
    /\ \A i \in 1..Len(this_run) : i >= pos => heap[this_run[i]].live

\* The scheduler implements the service the core relies on: a callback is
\* called only while armed, once per arming, and never after it was removed,
\* also when the removal comes from an earlier callback of the same run.
Service == INSTANCE TimerService WITH
               armed <- { k \in Keys : \E e \in Entries : Waiting(e) /\ heap[e].callback = k }

ImplementsService == Service!Spec

\* misc.h: the callback is called as soon as possible after the interval: an
\* entry does not wait for ever, it is called or it is killed.
EventuallyCalled == \A e \in Entries : Waiting(e) ~> ~Waiting(e)

=============================================================================
