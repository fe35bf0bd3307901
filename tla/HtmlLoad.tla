------------------------------ MODULE HtmlLoad ------------------------------
(***************************************************************************)
(* The loading of one HTML page: content/content.c (the content's status,   *)
(* lock and users) with content/handlers/html (html.c, css.c, script.c,     *)
(* object.c, dom_event.c, box_construct.c).                                 *)
(*                                                                         *)
(* The page is parsed as its data arrives.  The parser meets children to    *)
(* fetch: linked and inline stylesheets and scripts.  Once the data has     *)
(* arrived and no fetch is outstanding (base.active is zero) the page is    *)
(* converted to boxes in slices run by the scheduler, which meets objects   *)
(* with a box; the page is READY when that ends and DONE when no object is  *)
(* outstanding.                                                             *)
(*                                                                         *)
(* Which elements a piece of data holds is left open: a parse inserts any   *)
(* set of the children not yet met, and a synchronous script ends it.  The  *)
(* scripts of this build (quickjs_backend.c) have no binding to the DOM and *)
(* so meet no children.  Images the parser fetches ahead are not counted    *)
(* and left out.  The users of the page are one flag: a page is not shared  *)
(* (no_share), and every user of a content releases it when told of an      *)
(* error.                                                                   *)
(***************************************************************************)
EXTENDS Integers, FiniteSets

CONSTANTS
    Children,      \* what the page fetches
    Kind,          \* [Children -> Kinds]
    Empty,         \* inline stylesheets without text
    Failures,      \* which of "data", "start", "forms", "box" can happen
    MaxEdits,      \* bound: how often the parser changes an inline stylesheet
    MaxMet         \* bound: how many elements a piece of data holds

Kinds == {"base", "quirks", "css", "style", "script", "object"}

\* enum html_script_type: how a script with a src attribute is run.
ScriptTypes == {"SYNC", "ASYNC", "DEFER"}

ASSUME HtmlAssumption ==
    /\ IsFiniteSet(Children)
    /\ Kind \in [Children -> Kinds]
    /\ Empty \subseteq Children
    /\ Failures \subseteq {"data", "start", "forms", "box"}
    /\ MaxEdits \in Nat /\ MaxMet \in Nat

VARIABLE c         \* struct html_content, with the struct content it begins with

Bases   == {x \in Children : Kind[x] = "base"}
Styles  == {x \in Children : Kind[x] = "style"}
Boxed   == {x \in Children : Kind[x] = "object"}
Sheets  == {x \in Children : Kind[x] \in {"base", "quirks", "css", "style"}}
Scripts == {x \in Children : Kind[x] = "script"}
Parsed  == {x \in Children : Kind[x] \notin {"base", "quirks", "object"}}

\* hlcache content of a child: not asked for, then as content_get_status() has
\* it; a child whose handle is gone is "failed" when the page let it go.
States == {"none", "loading", "ready", "done", "failed"}

Child(s) == [state |-> s, type |-> "none", started |-> FALSE, modified |-> FALSE, edits |-> 0]

\* html_create(): the page itself and the base stylesheet are being fetched.
Init ==
    c = [status |-> "LOADING", locked |-> FALSE, users |-> TRUE, ll |-> "open",
         active |-> 1 + Cardinality(Bases),
         paused |-> FALSE, parse_completed |-> FALSE, conversion_begun |-> FALSE,
         aborted |-> FALSE, select_ctx |-> FALSE, box |-> FALSE, sched |-> FALSE,
         destroyed |-> FALSE, fault |-> FALSE,
         child |-> [x \in Children |-> Child(IF Kind[x] = "base" THEN "loading" ELSE "none")]]

Fetching(p) == {x \in Children : p.child[x].state \in {"loading", "ready"}}
Held(p)     == {x \in Children : p.child[x].state \in {"loading", "ready", "done"}}

Assert(p, holds) == [p EXCEPT !.fault = @ \/ ~holds]

-----------------------------------------------------------------------------
(* content.c *)

\* Every user releases its handle on CONTENT_MSG_ERROR.
content_broadcast_error(p) == [p EXCEPT !.users = FALSE]

content_set_ready(p) == [Assert(p, p.locked) EXCEPT !.locked = FALSE, !.status = "READY"]
content_set_done(p)  == [p EXCEPT !.status = "DONE"]

\* Mutant: an error leaves the content locked.
content_set_error_Locked(p) == [p EXCEPT !.status = "ERROR"]
content_set_error(p) == [p EXCEPT !.locked = FALSE, !.status = "ERROR"]

content__reformat(p) == Assert(p, p.status \in {"READY", "DONE"} /\ ~p.locked)

-----------------------------------------------------------------------------
(* The parser *)

\* Scripts of a type that have been met.
Of(p, t) == {x \in Scripts : p.child[x].type = t}

\* The parser meets the elements S, and the scripts among them are of type t;
\* the fetches of F cannot be started.  A style element is only marked: a
\* scheduled callback fetches it.
Inserted(p, S, F, t) ==
    LET begun == S \ (F \cup Styles)
        styles == S \cap Styles
        met(x) == IF x \in styles
                  THEN [p.child[x] EXCEPT !.modified = TRUE, !.edits = @ + 1]
                  ELSE [p.child[x] EXCEPT !.state = IF x \in begun THEN "loading" ELSE "failed",
                                          !.started = x \in F \cap Scripts,
                                          !.type = IF x \in Scripts THEN t ELSE @]
    IN [p EXCEPT
          !.child  = [x \in Children |-> IF x \in S THEN met(x) ELSE p.child[x]],
          !.active = @ + Cardinality(begun),
          !.paused = @ \/ (t = "SYNC" /\ begun \cap Scripts # {}),
          !.sched  = @ \/ styles # {},
          !.users  = @ /\ F \cap (Sheets \ Styles) = {}]

Unmet(p) == {x \in Parsed :
                IF Kind[x] = "style" THEN p.child[x].edits < MaxEdits
                                     ELSE p.child[x].state = "none"}

\* What running the tokeniser on the data it has can lead to.
Parse(p) ==
    IF p.paused THEN {p}
    ELSE LET unmet == Unmet(p)
             met == {S \in SUBSET unmet :
                        Cardinality(S) <= MaxMet /\ Cardinality(S \cap Scripts) <= 1}
             types(S) == IF S \cap Scripts = {} THEN {"none"} ELSE ScriptTypes
             failed(S) == IF "start" \in Failures THEN SUBSET (S \ Styles) ELSE {{}}
         IN UNION {{Inserted(p, S, F, t) : F \in failed(S), t \in types(S)} : S \in met}

-----------------------------------------------------------------------------
(* Conversion *)

html_proceed_to_done(p) ==
    IF p.status = "READY" /\ p.active = 0 THEN content_set_done(p) ELSE p

\* Mutant: changed stylesheets are not waited for.
html_can_begin_conversion_Modified(p) == p.active = 0
html_can_begin_conversion(p) ==
    p.active = 0 /\ \A x \in Sheets : ~p.child[x].modified

\* The scripts that are there and have not run, deferred ones too if allowed.
html_script_exec(p, allow_defer) ==
    LET run == {x \in Of(p, "ASYNC") \cup (IF allow_defer THEN Of(p, "DEFER") ELSE {}) :
                   p.child[x].state = "done" /\ ~p.child[x].started}
        q == [p EXCEPT !.child = [x \in Children |->
                 IF x \in run THEN [@[x] EXCEPT !.started = TRUE] ELSE @[x]]]
    IN IF run = {} THEN p ELSE html_proceed_to_done(q)

\* Mutant: nobody is told that the base stylesheet is missing.
html_finish_conversion_Silent(p) ==
    CASE p.aborted -> content_set_error(content_broadcast_error(p))
      [] ~p.aborted /\ p.select_ctx -> p
      [] ~p.aborted /\ ~p.select_ctx ->
            IF \E x \in Bases : p.child[x].state # "done"
            THEN content_set_error(p) ELSE [p EXCEPT !.select_ctx = TRUE, !.box = TRUE]

\* Layout needs the base stylesheet.  The conversion to boxes is scheduled.
html_finish_conversion(p) ==
    CASE p.aborted -> content_set_error(content_broadcast_error(p))
      [] ~p.aborted /\ p.select_ctx -> p
      [] ~p.aborted /\ ~p.select_ctx ->
            IF \E x \in Bases : p.child[x].state # "done"
            THEN content_set_error(content_broadcast_error(p))
            ELSE [p EXCEPT !.select_ctx = TRUE, !.box = TRUE]

\* The result false: content_convert() looks at it, the callbacks of children
\* do not.
Refused(p, checked) == IF checked THEN content_set_error(p) ELSE p

\* After the parse: an aborted page ends here; a bad form action fails.
Converted(p, checked) ==
    IF p.aborted THEN {Refused(content_broadcast_error(content_set_error(p)), checked)}
    ELSE LET q == html_script_exec([p EXCEPT !.conversion_begun = TRUE], TRUE)
         IN {IF q.active = 0 THEN html_finish_conversion(q) ELSE q}
            \cup (IF "forms" \in Failures THEN {Refused(content_broadcast_error(q), checked)} ELSE {})

\* Completing the parse flushes what the parser still has, which can bring up
\* new children.  A parser that waits for a script that is being fetched is
\* completed later; one that waits for nothing has failed.
Completed(p, checked) ==
    {IF ~q.paused THEN [q EXCEPT !.parse_completed = TRUE]
     ELSE IF q.active > 0 THEN q
     ELSE Refused(content_broadcast_error(q), checked) : q \in IF p.parse_completed THEN {p} ELSE Parse(p)}

html_begin_conversion(p, checked) ==
    UNION {IF q.parse_completed /\ html_can_begin_conversion(q)
           THEN Converted(q, checked) ELSE {q} : q \in Completed(p, checked)}

\* Where a fetch has ended: the conversion begins if nothing is outstanding.
TryBegin(p, checked) ==
    IF html_can_begin_conversion(p) THEN html_begin_conversion(p, checked) ELSE {p}

\* The quirks stylesheet may be wanted; its failure to start is not an error.
Quirked(p, x) == [p EXCEPT !.child[x].state = "loading", !.active = @ + 1]

\* All of the page's own data has arrived.
Arrived(p) == [p EXCEPT !.active = @ - 1]

html_convert(p) ==
    UNION {TryBegin(Arrived(q), TRUE) :
             q \in {p} \cup {Quirked(p, x) : x \in {y \in Children : Kind[y] = "quirks"}}}

content_convert(p) ==
    LET q == Assert(p, p.status \in {"LOADING", "ERROR"})
    IN IF q.status # "LOADING" \/ q.locked THEN {q}
       ELSE html_convert([q EXCEPT !.locked = TRUE])

-----------------------------------------------------------------------------
(* Objects with a box *)

html_object_free_objects(p) ==
    [p EXCEPT !.child = [x \in Children |->
        IF x \in Boxed /\ x \in Held(p)
        THEN [@[x] EXCEPT !.state = "failed"] ELSE @[x]]]

\* Where html_object_callback() ends for LOADING, DONE and ERROR.
AllArrived(p) ==
    IF p.status = "READY" /\ p.active = 0
    THEN content_set_done(content__reformat(p)) ELSE p

\* Mutant: an object that fails stays counted.
ObjectEnded_ErrorCounted(p, x, s) ==
    AllArrived([p EXCEPT !.child[x].state = s, !.active = IF s = "done" THEN @ - 1 ELSE @])
ObjectEnded(p, x, s) ==
    AllArrived([p EXCEPT !.child[x].state = s, !.active = @ - 1])

\* An object that is READY becomes DONE within the call that aborts it, and its
\* callback runs; one that is still loading is let go of.  The order of the list
\* only decides whether a callback or html_stop() finds that nothing is left.
html_object_abort_objects(p) ==
    LET ready   == {x \in Boxed : p.child[x].state = "ready"}
        loading == {x \in Boxed : p.child[x].state = "loading"}
        q == [p EXCEPT
                !.child = [x \in Children |->
                    IF x \in ready \cup loading
                    THEN [p.child[x] EXCEPT !.state = IF x \in ready THEN "done" ELSE "failed"]
                    ELSE p.child[x]],
                !.active = @ - Cardinality(ready \cup loading)]
    IN IF ready = {} THEN q ELSE AllArrived(q)

\* Mutants: a page stopped meanwhile is shown; a failure leaves the status.
html_box_convert_done_Shown(p, success) ==
    LET q == [p EXCEPT !.box = FALSE]
    IN IF ~success THEN content_set_error(content_broadcast_error(html_object_free_objects(q)))
       ELSE html_proceed_to_done(content_set_ready(q))
html_box_convert_done_Loading(p, success) ==
    LET q == [p EXCEPT !.box = FALSE]
    IN IF ~success \/ q.aborted
       THEN content_broadcast_error(html_object_free_objects(q))
       ELSE html_proceed_to_done(content_set_ready(q))
html_box_convert_done(p, success) ==
    LET q == [p EXCEPT !.box = FALSE]
    IN IF ~success \/ q.aborted
       THEN content_set_error(content_broadcast_error(html_object_free_objects(q)))
       ELSE html_proceed_to_done(content_set_ready(q))

-----------------------------------------------------------------------------
(* Events of the page's own data: content_llcache_callback() *)

Becomes(P) == c' \in P

LLCACHE_EVENT_HAD_DATA ==
    /\ c.ll \in {"open", "aborted"} /\ ~c.destroyed
    /\ \/ Becomes(Parse(c))
       \/ /\ "data" \in Failures
          /\ c' = [content_broadcast_error(c) EXCEPT !.status = "ERROR", !.ll = "aborted"]

LLCACHE_EVENT_DONE ==
    /\ c.ll \in {"open", "aborted"} /\ ~c.destroyed
    /\ Becomes(content_convert([c EXCEPT !.ll = "done"]))

LLCACHE_EVENT_ERROR ==
    /\ c.ll = "open" /\ ~c.destroyed
    /\ c' = [content_broadcast_error(c) EXCEPT !.status = "ERROR", !.ll = "done"]

-----------------------------------------------------------------------------
(* Events of the children *)

\* html_convert_css_callback() and the callbacks of the three kinds of scripts,
\* for CONTENT_MSG_DONE and CONTENT_MSG_ERROR.  A synchronous script lets the
\* parse go on when no other one is outstanding.
Ended(p, x, s) ==
    [p EXCEPT !.child[x].state = s, !.active = @ - 1]

html_convert_css_callback(x, s) == TryBegin(Ended(c, x, s), FALSE)

convert_script_async_cb(x, s) ==
    LET p == Ended(c, x, s)
    IN IF html_can_begin_conversion(p) THEN html_begin_conversion(p, FALSE)
       ELSE {IF p.conversion_begun THEN html_script_exec(p, FALSE) ELSE p}

convert_script_defer_cb(x, s) == TryBegin(Ended(c, x, s), FALSE)

Started(p, x) == [p EXCEPT !.child[x].started = TRUE]
Unpaused(p)   == [p EXCEPT !.paused = FALSE]

\* Mutant: a script that fails leaves the parser waiting.
convert_script_sync_cb_StaysPaused(x, s) ==
    LET others == {y \in Of(c, "SYNC") \ {x} : ~c.child[y].started}
        p == Started(Ended(c, x, s), x)
    IN UNION {TryBegin(q, FALSE) : q \in IF others = {} /\ s = "done"
                                         THEN Parse(Unpaused(p)) ELSE {p}}
convert_script_sync_cb(x, s) ==
    LET others == {y \in Of(c, "SYNC") \ {x} : ~c.child[y].started}
        p == Started(Ended(c, x, s), x)
    IN UNION {TryBegin(q, FALSE) : q \in IF others = {} THEN Parse(Unpaused(p)) ELSE {p}}

ChildEnds(x) ==
    /\ x \in Fetching(c)
    /\ \E s \in {"done", "failed"} :
          CASE x \in Sheets -> Becomes(html_convert_css_callback(x, s))
            [] x \in Of(c, "SYNC")  -> Becomes(convert_script_sync_cb(x, s))
            [] x \in Of(c, "ASYNC") -> Becomes(convert_script_async_cb(x, s))
            [] x \in Of(c, "DEFER") -> Becomes(convert_script_defer_cb(x, s))
            [] Kind[x] = "object" -> c' = ObjectEnded(c, x, s)

\* html_object_callback() for CONTENT_MSG_READY.
ObjectReady(x) ==
    /\ x \in Boxed /\ c.child[x].state = "loading"
    /\ LET p == [c EXCEPT !.child[x].state = "ready"]
       IN c' = IF p.status \in {"READY", "DONE"} THEN content__reformat(p) ELSE p

-----------------------------------------------------------------------------
(* Callbacks of the scheduler *)

\* An inline stylesheet that changed is fetched anew; the fetch it replaces is
\* aborted.  One without text has nothing to fetch.
html_css_process_modified_style(p, x) ==
    CASE ~p.child[x].modified -> p.child[x]
      [] p.child[x].modified /\ x \in Empty -> [p.child[x] EXCEPT !.modified = FALSE]
      [] p.child[x].modified /\ x \notin Empty ->
            [p.child[x] EXCEPT !.modified = FALSE, !.state = "loading"]

\* Mutant: the fetch that is replaced stays counted.
html_css_process_modified_styles_Counted ==
    /\ c.sched
    /\ c' = [Assert(c, ~c.destroyed) EXCEPT
               !.sched = FALSE,
               !.child = [x \in Children |-> html_css_process_modified_style(c, x)],
               !.active = @ + Cardinality({x \in Sheets \ Empty : c.child[x].modified})]
html_css_process_modified_styles ==
    LET again == {x \in Sheets \ Empty : c.child[x].modified}
    IN /\ c.sched
       /\ c' = [Assert(c, ~c.destroyed) EXCEPT
                  !.sched = FALSE,
                  !.child = [x \in Children |-> html_css_process_modified_style(c, x)],
                  !.active = @ + Cardinality(again) - Cardinality(again \cap Fetching(c))]

\* html_fetch_object(): the fetch of an object begins, or cannot be started.
html_fetch_object(p, x, s) ==
    [p EXCEPT !.child[x].state = s, !.active = IF s = "loading" THEN @ + 1 ELSE @]

\* A slice of the conversion to boxes: it meets objects, fails, or is the last.
convert_xml_to_box ==
    /\ c.box
    /\ LET p == Assert(c, ~c.destroyed)
       IN \/ \E x \in Boxed : \E s \in {"loading"} \cup
                                (IF "start" \in Failures THEN {"failed"} ELSE {}) :
                /\ p.child[x].state = "none" /\ ~p.aborted
                /\ c' = html_fetch_object(p, x, s)
          \/ "box" \in Failures /\ c' = html_box_convert_done(p, FALSE)
          \/ c' = html_box_convert_done(p, TRUE)

-----------------------------------------------------------------------------
(* The users of the page and the cleaning of the cache *)

html_stop(p) ==
    CASE p.status = "LOADING" -> [p EXCEPT !.aborted = TRUE]
      [] p.status = "READY" -> html_proceed_to_done(html_object_abort_objects(p))
      [] p.status = "DONE" -> p
      [] OTHER -> Assert(p, FALSE)

content_abort ==
    /\ c.users
    /\ c' = [html_stop(c) EXCEPT !.ll = IF @ = "open" THEN "aborted" ELSE @]

Release == c.users /\ c' = [c EXCEPT !.users = FALSE]

html_destroy(p) ==
    [html_object_free_objects(p) EXCEPT
        !.box = FALSE, !.sched = FALSE, !.destroyed = TRUE,
        !.child = [x \in Children |->
            IF x \in Sheets \cup Scripts /\ x \in Held(p)
            THEN [@[x] EXCEPT !.state = "failed"] ELSE @[x]]]

content_destroy(p) == html_destroy(Assert(p, ~p.locked))

hlcache_clean ==
    /\ ~c.users /\ ~c.destroyed /\ c.status # "LOADING"
    /\ c' = content_destroy(c)

-----------------------------------------------------------------------------
Next ==
    \/ LLCACHE_EVENT_HAD_DATA \/ LLCACHE_EVENT_DONE \/ LLCACHE_EVENT_ERROR
    \/ \E x \in Children : ChildEnds(x) \/ ObjectReady(x)
    \/ html_css_process_modified_styles \/ convert_xml_to_box
    \/ content_abort \/ Release \/ hlcache_clean

\* A fetch ends (the fetch scheduler and the low-level cache see to that), the
\* scheduler runs its callbacks, boxes are made of finitely many elements and
\* the cache is cleaned every bg_clean_time.  Each of these can happen finitely
\* often, so that it is enough to say that one of them does while one can.
Progress ==
    \/ LLCACHE_EVENT_DONE \/ (\E x \in Children : ChildEnds(x))
    \/ html_css_process_modified_styles \/ convert_xml_to_box \/ hlcache_clean

Spec == Init /\ [][Next]_c /\ WF_c(Progress)

-----------------------------------------------------------------------------
(* Properties *)

ChildRecord == [state : States, type : ScriptTypes \cup {"none"}, started : BOOLEAN,
                modified : BOOLEAN, edits : Nat]

\* Every field has its type.  base.active is unsigned: it never goes below zero.
HtmlTypeOK ==
    c \in [status : {"LOADING", "READY", "DONE", "ERROR"}, locked : BOOLEAN, users : BOOLEAN,
           ll : {"open", "aborted", "done"}, active : Nat, paused : BOOLEAN,
           parse_completed : BOOLEAN, conversion_begun : BOOLEAN, aborted : BOOLEAN,
           select_ctx : BOOLEAN, box : BOOLEAN, sched : BOOLEAN, destroyed : BOOLEAN,
           fault : BOOLEAN, child : [Children -> ChildRecord]]

(* No assertion fails: content_set_ready() finds the content locked,        *)
(* content__reformat() and content_destroy() find it unlocked, html_stop()  *)
(* is never called for a page in error (whose users have been told of the   *)
(* error and are gone), and no callback of the scheduler or of a child runs *)
(* for a page that has been destroyed.                                      *)
NoFault == ~c.fault

(* base.active counts the fetches in progress and nothing else: the page's  *)
(* own data, and the stylesheets, scripts and objects with a box that have  *)
(* neither ended nor been replaced, aborted or let go of.                   *)
ActiveExact ==
    c.status # "ERROR" /\ ~c.destroyed =>
        c.active = (IF c.ll = "done" THEN 0 ELSE 1)
                   + Cardinality(Fetching(c))

(* A page whose data has arrived and that is not DONE waits for something   *)
(* that will call it again: a fetch in progress, the conversion to boxes or *)
(* the callback for changed stylesheets ("Once they have been processed, we *)
(* will be called again to begin the conversion for real", html.c:858).     *)
NeverStranded ==
    /\ c.status = "LOADING" /\ c.ll = "done" =>
          Fetching(c) # {} \/ c.box \/ c.sched
    /\ c.status = "READY" /\ ~c.destroyed => Fetching(c) \cap Boxed # {}

(* The selection context is made of complete stylesheets, after the parse:  *)
(* layout is static, so a sheet that came later would never be used.        *)
SheetsBeforeBoxes ==
    c.select_ctx => /\ c.parse_completed /\ ~c.paused
                    /\ \A x \in Sheets \cup Scripts : x \notin Fetching(c)
                    /\ \A x \in Sheets : ~c.child[x].modified

(* A page stopped while it loads is never shown, in whichever of its phases *)
(* the stop came.                                                           *)
StoppedIsNotShown == c.aborted => c.status \in {"LOADING", "ERROR"}

(* Every page ends DONE or in error, or is gone.                            *)
Settles == <>(c.status \in {"DONE", "ERROR"} \/ c.destroyed)

(* A page nobody uses any more is destroyed: hlcache_clean() passes over    *)
(* contents that are LOADING, so they must not stay so.                     *)
UnusedIsDestroyed == ~c.users ~> c.destroyed

=============================================================================
