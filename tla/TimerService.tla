---------------------------- MODULE TimerService ----------------------------
(***************************************************************************)
(* What the browser core expects of the front end's gui_misc_schedule():   *)
(* a callback (function and context, here a key) is armed or not, arming   *)
(* an armed callback resets it, a negative interval disarms it, and a      *)
(* callback that is called is no longer armed.  Nothing is said of times:  *)
(* the core only relies on "not before it is armed, never after it is      *)
(* disarmed, once per arming".                                             *)
(***************************************************************************)

CONSTANTS
    Keys,   \* the (callback, context) pairs that are ever scheduled
    NULL    \* no callback

VARIABLES
    armed,    \* the keys whose callback is still to be called
    running   \* the key whose callback is executing, or NULL

vars == <<armed, running>>

Init == /\ armed = {}
        /\ running = NULL

\* gui_misc_schedule(t >= 0, k)
Schedule(k) == /\ armed' = armed \cup {k}
               /\ UNCHANGED running

\* gui_misc_schedule(t < 0, k)
Remove(k) == /\ armed' = armed \ {k}
             /\ UNCHANGED running

\* The front end calls an armed callback.
Call(k) == /\ running = NULL
           /\ k \in armed
           /\ armed' = armed \ {k}
           /\ running' = k

Return == /\ running # NULL
          /\ running' = NULL
          /\ UNCHANGED armed

Next == \/ \E k \in Keys : Schedule(k) \/ Remove(k) \/ Call(k)
        \/ Return

Spec == Init /\ [][Next]_vars

=============================================================================
