----------------------------- MODULE HtmlProofs -----------------------------
(***************************************************************************)
(* Proofs about the loading of a page, for any set of children.             *)
(*                                                                         *)
(* The parts of the invariant are stated of any page p, because the         *)
(* operations of the model work on pages: a callback may end a fetch, let   *)
(* the parser go on, complete the parse and begin the conversion.           *)
(***************************************************************************)
EXTENDS HtmlLoad, FiniteSetTheorems, TLAPS

Page == [status : {"LOADING", "READY", "DONE", "ERROR"}, locked : BOOLEAN, users : BOOLEAN,
         ll : {"open", "aborted", "done"}, active : Int, paused : BOOLEAN,
         parse_completed : BOOLEAN, conversion_begun : BOOLEAN, aborted : BOOLEAN,
         select_ctx : BOOLEAN, box : BOOLEAN, sched : BOOLEAN, destroyed : BOOLEAN,
         fault : BOOLEAN, child : [Children -> ChildRecord]]

\* The page's own data is counted until all of it has arrived.
Own(p) == IF p.ll = "done" THEN 0 ELSE 1

\* Nothing can happen to a page any more but its destruction.
Spent(p) ==
    /\ Fetching(p) = {} /\ p.ll = "done"
    /\ \A x \in Sheets : ~p.child[x].modified

Phases(p) ==
    /\ p.locked <=> p.status = "LOADING" /\ p.ll = "done"
    /\ p.status \in {"READY", "DONE"} => p.ll = "done" /\ p.select_ctx /\ ~p.aborted
    /\ p.status = "ERROR" => ~p.users
    /\ p.box => p.status = "LOADING" /\ p.locked /\ p.select_ctx
    /\ p.status = "LOADING" /\ p.select_ctx => p.box
    /\ p.destroyed => /\ ~p.box /\ ~p.sched /\ ~p.users
                      /\ p.status # "LOADING" /\ Fetching(p) = {}
    /\ ~p.fault

Counted(p) ==
    /\ p.active >= Own(p) + Cardinality(Fetching(p))
    /\ p.status # "ERROR" /\ ~p.destroyed => p.active = Own(p) + Cardinality(Fetching(p))

\* A page in error never begins its conversion.
Dead(p) == p.status = "ERROR" => p.active >= 1 + Cardinality(Fetching(p)) \/ Spent(p)

Pausing(p) ==
    /\ p.parse_completed => p.ll = "done" /\ ~p.paused
    /\ \A x \in Scripts : p.child[x].type = "SYNC" /\ ~p.child[x].started =>
          p.destroyed \/ x \in Fetching(p)
    /\ \A x \in Scripts \cap Fetching(p) :
          /\ p.child[x].type \in ScriptTypes
          /\ p.child[x].type = "SYNC" => ~p.child[x].started /\ p.paused
    /\ p.paused /\ ~p.destroyed => \E x \in Scripts \cap Fetching(p) : p.child[x].type = "SYNC"

Ready(p) ==
    p.select_ctx => /\ p.parse_completed /\ ~p.paused
                    /\ \A x \in Sheets \cup Scripts : x \notin Fetching(p)
                    /\ \A x \in Sheets : ~p.child[x].modified

Marked(p) ==
    /\ \A x \in Children : p.child[x].modified => x \in Styles /\ (p.sched \/ p.destroyed)
    /\ p.sched => \E x \in Sheets : p.child[x].modified

Met(p) ==
    /\ \A x \in Boxed : p.child[x].state # "none" => p.select_ctx
    /\ \A x \in Children : Kind[x] = "quirks" /\ p.child[x].state # "none" => p.ll = "done"

Inv(p) == /\ p \in Page /\ Phases(p) /\ Counted(p) /\ Dead(p) /\ Pausing(p) /\ Ready(p)
          /\ Marked(p) /\ Met(p)

\* A page that has its data waits for something.
Waits(p) ==
    /\ p.status = "LOADING" /\ p.ll = "done" => Fetching(p) # {} \/ p.box \/ p.sched
    /\ p.status = "READY" /\ ~p.destroyed => Fetching(p) \cap Boxed # {}

-----------------------------------------------------------------------------
(* Kinds and counts.                                                        *)

LEMMA KindFacts ==
    /\ Bases \subseteq Sheets /\ Styles \subseteq Sheets
    /\ Sheets \subseteq Children /\ Scripts \subseteq Children /\ Boxed \subseteq Children
    /\ Sheets \cap Scripts = {} /\ Sheets \cap Boxed = {} /\ Scripts \cap Boxed = {}
    /\ Children = Sheets \cup Scripts \cup Boxed
    /\ Parsed \subseteq Children /\ Parsed \cap Boxed = {}
    /\ \A x \in Parsed : Kind[x] # "quirks"
  BY HtmlAssumption DEF Bases, Styles, Sheets, Scripts, Boxed, Parsed, Kinds

LEMMA FetchingFacts ==
    ASSUME NEW p
    PROVE  /\ Fetching(p) \subseteq Children
           /\ IsFiniteSet(Fetching(p)) /\ Cardinality(Fetching(p)) \in Nat
           /\ Fetching(p) = {} <=> Cardinality(Fetching(p)) = 0
<1>1. Fetching(p) \subseteq Children
  BY DEF Fetching
<1>2. IsFiniteSet(Fetching(p))
  BY <1>1, FS_Subset, HtmlAssumption
<1> QED  BY <1>1, <1>2, FS_CardinalityType, FS_EmptySet

LEMMA Fewer1 ==
    ASSUME NEW p, NEW x \in Fetching(p)
    PROVE  Cardinality(Fetching(p) \ {x}) = Cardinality(Fetching(p)) - 1
  BY FetchingFacts, FS_RemoveElement

LEMMA More ==
    ASSUME NEW p, NEW S \in SUBSET Children
    PROVE  /\ Cardinality(S) \in Nat /\ Cardinality(S \cap Fetching(p)) \in Nat
           /\ Cardinality(Fetching(p) \cup S) =
                Cardinality(Fetching(p)) + Cardinality(S) - Cardinality(S \cap Fetching(p))
           /\ Cardinality(Fetching(p) \ S) = Cardinality(Fetching(p)) - Cardinality(S \cap Fetching(p))
           /\ S \cap Fetching(p) = {} => Cardinality(S \cap Fetching(p)) = 0
<1>1. IsFiniteSet(S) /\ IsFiniteSet(S \cap Fetching(p))
  BY FS_Subset, HtmlAssumption
<1>2. S \cap Fetching(p) = Fetching(p) \cap S
  OBVIOUS
<1>3. IsFiniteSet(Fetching(p)) /\ Cardinality(Fetching(p)) \in Nat
  BY FetchingFacts
<1>4. Cardinality(S) \in Nat /\ Cardinality(S \cap Fetching(p)) \in Nat
  BY <1>1, FS_CardinalityType
<1>5. Cardinality(Fetching(p) \cup S) =
        Cardinality(Fetching(p)) + Cardinality(S) - Cardinality(Fetching(p) \cap S)
  BY <1>1, <1>3, FS_Union
<1>6. Cardinality(Fetching(p) \ S) = Cardinality(Fetching(p)) - Cardinality(Fetching(p) \cap S)
  BY <1>3, FS_Difference
<1> QED  BY <1>2, <1>4, <1>5, <1>6, FS_EmptySet

\* What a page looks like that can still be converted.
Live(p) ==
    /\ ~p.select_ctx /\ ~p.destroyed
    /\ p.status = "ERROR" => p.active >= 1 + Cardinality(Fetching(p))

LEMMA LiveFacts ==
    ASSUME NEW p, Inv(p), Live(p)
    PROVE  /\ p.status \in {"LOADING", "ERROR"} /\ ~p.box
           /\ p.active = 0 => p.status = "LOADING" /\ p.ll = "done" /\ Fetching(p) = {} /\ p.locked
           /\ p.status = "LOADING" /\ p.ll = "done" /\ ~html_can_begin_conversion(p) =>
                 Fetching(p) # {} \/ p.sched
<1>1. Cardinality(Fetching(p)) \in Nat /\ (Fetching(p) = {} <=> Cardinality(Fetching(p)) = 0)
  BY FetchingFacts
<1>2. p.status \in {"LOADING", "ERROR"} /\ ~p.box
  BY DEF Inv, Live, Phases, Page
<1>3. p.active = 0 => p.status = "LOADING" /\ p.ll = "done" /\ Fetching(p) = {} /\ p.locked
  BY <1>1, <1>2 DEF Inv, Live, Counted, Phases, Own, Page
<1>4. ASSUME p.status = "LOADING", p.ll = "done", ~html_can_begin_conversion(p)
      PROVE  Fetching(p) # {} \/ p.sched
  <2>1. CASE p.active # 0
    <3>1. p.active = 0 + Cardinality(Fetching(p))
      BY <1>4 DEF Inv, Live, Counted, Own
    <3> QED  BY <1>1, <2>1, <3>1
  <2>2. CASE p.active = 0
    <3>1. PICK x \in Sheets : p.child[x].modified
      BY <1>4, <2>2 DEF html_can_begin_conversion
    <3> QED  BY <3>1, KindFacts DEF Inv, Live, Marked
  <2> QED  BY <2>1, <2>2
<1> QED  BY <1>2, <1>3, <1>4

-----------------------------------------------------------------------------
(* Changes to one child.                                                    *)

\* q is p, but for its children, its users and the parser's progress.
ParserKeeps(p, q) ==
    /\ q.status = p.status /\ q.locked = p.locked /\ q.ll = p.ll
    /\ q.parse_completed = p.parse_completed /\ q.conversion_begun = p.conversion_begun
    /\ q.aborted = p.aborted /\ q.select_ctx = p.select_ctx /\ q.box = p.box
    /\ q.destroyed = p.destroyed /\ q.fault = p.fault

\* r is p with the child x in state st and n fetches counted.
Moved(p, r, x, st, n) ==
    /\ r \in Page /\ ParserKeeps(p, r)
    /\ r.active = n /\ r.paused = p.paused /\ r.sched = p.sched /\ r.users = p.users
    /\ r.child[x].state = st
    /\ \A y \in Children :
          /\ y # x => r.child[y].state = p.child[y].state
          /\ r.child[y].type = p.child[y].type /\ r.child[y].started = p.child[y].started
          /\ r.child[y].modified = p.child[y].modified

Move(p, x, st, n) == [p EXCEPT !.child[x].state = st, !.active = n]

LEMMA MovedFacts ==
    ASSUME NEW p \in Page, NEW x \in Children, NEW st \in States, NEW n \in Int
    PROVE  Moved(p, Move(p, x, st, n), x, st, n)
<1> DEFINE kid == [p.child[x] EXCEPT !.state = st]
           kids == [p.child EXCEPT ![x] = kid]
           r == [p EXCEPT !.child[x].state = st, !.active = n]
<1>1. p.child \in [Children -> ChildRecord] /\ p.child[x] \in ChildRecord
  BY DEF Page
<1>2. kid \in ChildRecord /\ kid.state = st /\ kid.type = p.child[x].type
      /\ kid.started = p.child[x].started /\ kid.modified = p.child[x].modified
  BY <1>1 DEF ChildRecord
<1>3. r = [p EXCEPT !.child = kids, !.active = n]
  BY DEF Page
<1> HIDE DEF kid
<1>4. kids \in [Children -> ChildRecord] /\ kids[x] = kid
      /\ \A y \in Children : y # x => kids[y] = p.child[y]
  BY <1>1, <1>2
<1> HIDE DEF kids, r
<1>5. /\ r \in Page /\ r.child = kids
      /\ r.active = n /\ r.paused = p.paused /\ r.sched = p.sched /\ r.users = p.users
  BY <1>3, <1>4 DEF Page
<1>6. ParserKeeps(p, r)
  BY <1>3 DEF Page, ParserKeeps
<1>7. \A y \in Children :
        /\ y # x => kids[y].state = p.child[y].state
        /\ kids[y].type = p.child[y].type /\ kids[y].started = p.child[y].started
        /\ kids[y].modified = p.child[y].modified
  BY <1>2, <1>4
<1>8. Moved(p, r, x, st, n)
  BY <1>2, <1>4, <1>5, <1>6, <1>7 DEF Moved
<1>9. r = Move(p, x, st, n)
  BY DEF r, Move
<1> QED  BY <1>8, <1>9

-----------------------------------------------------------------------------
(* The parser.                                                              *)

LEMMA InsertedKeeps ==
    ASSUME NEW p, Inv(p), Live(p), ~p.parse_completed, ~p.paused,
           NEW S \in SUBSET Unmet(p), Cardinality(S \cap Scripts) <= 1,
           NEW F \in SUBSET (S \ Styles),
           NEW t \in ScriptTypes \cup {"none"}, S \cap Scripts # {} => t \in ScriptTypes
    PROVE  /\ Inv(Inserted(p, S, F, t)) /\ Live(Inserted(p, S, F, t))
           /\ ParserKeeps(p, Inserted(p, S, F, t))
<1> DEFINE begun == S \ (F \cup Styles)
           styles == S \cap Styles
           met(x) == IF x \in styles
                     THEN [p.child[x] EXCEPT !.modified = TRUE, !.edits = @ + 1]
                     ELSE [p.child[x] EXCEPT !.state = IF x \in begun THEN "loading" ELSE "failed",
                                             !.started = x \in F \cap Scripts,
                                             !.type = IF x \in Scripts THEN t ELSE @]
           kids == [x \in Children |-> IF x \in S THEN met(x) ELSE p.child[x]]
           q == Inserted(p, S, F, t)
<1>0. p \in Page /\ p.child \in [Children -> ChildRecord]
  BY DEF Inv, Page
<1>1. S \subseteq Parsed /\ S \subseteq Children
      /\ \A x \in S \ Styles : p.child[x].state = "none"
  BY KindFacts DEF Unmet, Styles
<1>2. q = [p EXCEPT !.child = kids, !.active = @ + Cardinality(begun),
                    !.paused = @ \/ (t = "SYNC" /\ begun \cap Scripts # {}),
                    !.sched = @ \/ styles # {},
                    !.users = @ /\ F \cap (Sheets \ Styles) = {}]
  BY DEF Inserted
<1>3. \A x \in Children : /\ p.child[x] \in ChildRecord
                          /\ p.child[x].edits + 1 \in Nat
  BY <1>0 DEF ChildRecord
<1>4. \A x \in styles : /\ met(x) \in ChildRecord /\ met(x).modified = TRUE
                        /\ met(x).state = p.child[x].state /\ met(x).type = p.child[x].type
                        /\ met(x).started = p.child[x].started
  <2> SUFFICES ASSUME NEW x \in styles
               PROVE  /\ met(x) \in ChildRecord /\ met(x).modified = TRUE
                      /\ met(x).state = p.child[x].state /\ met(x).type = p.child[x].type
                      /\ met(x).started = p.child[x].started
    OBVIOUS
  <2>1. met(x) = [p.child[x] EXCEPT !.modified = TRUE, !.edits = @ + 1] /\ x \in Children
    BY <1>1
  <2> HIDE DEF met
  <2> QED  BY <1>3, <2>1 DEF ChildRecord
<1>5. \A x \in S \ styles :
         /\ met(x) \in ChildRecord /\ met(x).modified = p.child[x].modified
         /\ met(x).state = IF x \in begun THEN "loading" ELSE "failed"
         /\ met(x).started = (x \in F \cap Scripts)
         /\ met(x).type = IF x \in Scripts THEN t ELSE p.child[x].type
  <2> SUFFICES ASSUME NEW x \in S \ styles
               PROVE  /\ met(x) \in ChildRecord /\ met(x).modified = p.child[x].modified
                      /\ met(x).state = IF x \in begun THEN "loading" ELSE "failed"
                      /\ met(x).started = (x \in F \cap Scripts)
                      /\ met(x).type = IF x \in Scripts THEN t ELSE p.child[x].type
    OBVIOUS
  <2> DEFINE st == IF x \in begun THEN "loading" ELSE "failed"
             ty == IF x \in Scripts THEN t ELSE p.child[x].type
             go == x \in F \cap Scripts
  <2>1. met(x) = [p.child[x] EXCEPT !.state = st, !.started = go, !.type = ty] /\ x \in Children
    BY <1>1
  <2>2. st \in States /\ ty \in ScriptTypes \cup {"none"} /\ go \in BOOLEAN
    BY <1>3, <2>1 DEF ChildRecord, States
  <2> HIDE DEF met, st, ty, go
  <2>3. met(x) \in ChildRecord /\ met(x).modified = p.child[x].modified
        /\ met(x).state = st /\ met(x).started = go /\ met(x).type = ty
    BY <1>3, <2>1, <2>2 DEF ChildRecord
  <2> QED  BY <2>3 DEF st, ty, go
<1> HIDE DEF met
<1>6. kids \in [Children -> ChildRecord]
  BY <1>1, <1>3, <1>4, <1>5
<1>7. \A x \in Children : kids[x] = IF x \in S THEN met(x) ELSE p.child[x]
  OBVIOUS
<1>8. Cardinality(begun) \in Nat /\ begun \in SUBSET Children
  BY <1>1, More
<1> HIDE DEF kids, q
<1>9. /\ q \in Page /\ ParserKeeps(p, q) /\ q.child = kids
      /\ q.active = p.active + Cardinality(begun)
      /\ q.paused = (p.paused \/ (t = "SYNC" /\ begun \cap Scripts # {}))
      /\ q.sched = (p.sched \/ styles # {})
      /\ q.users = (p.users /\ F \cap (Sheets \ Styles) = {})
  <2> DEFINE pa == p.paused \/ (t = "SYNC" /\ begun \cap Scripts # {})
             sc == p.sched \/ styles # {}
             us == p.users /\ F \cap (Sheets \ Styles) = {}
             n == p.active + Cardinality(begun)
  <2>1. pa \in BOOLEAN /\ sc \in BOOLEAN /\ us \in BOOLEAN /\ n \in Int
    BY <1>0, <1>8 DEF Page
  <2>2. q = [p EXCEPT !.child = kids, !.active = n, !.paused = pa, !.sched = sc, !.users = us]
    BY <1>2
  <2> HIDE DEF pa, sc, us, n
  <2>3. q \in Page /\ q.child = kids /\ q.active = n /\ q.paused = pa /\ q.sched = sc /\ q.users = us
    BY ZenonT(60), <1>0, <1>6, <2>1, <2>2 DEF Page
  <2>4. ParserKeeps(p, q)
    BY <1>0, <2>2 DEF Page, ParserKeeps
  <2> QED  BY <2>3, <2>4 DEF pa, sc, us, n
<1>10. Fetching(q) = Fetching(p) \cup begun /\ begun \cap Fetching(p) = {}
  <2>1. begun \cap Fetching(p) = {}
    BY <1>1 DEF Fetching
  <2>2. \A x \in Children : kids[x].state \in {"loading", "ready"} <=>
           p.child[x].state \in {"loading", "ready"} \/ x \in begun
    <3> SUFFICES ASSUME NEW x \in Children
                 PROVE  kids[x].state \in {"loading", "ready"} <=>
                          p.child[x].state \in {"loading", "ready"} \/ x \in begun
      OBVIOUS
    <3>1. CASE x \in styles
      BY <1>4, <1>7, <3>1
    <3>2. CASE x \in S \ styles
      BY <1>1, <1>5, <1>7, <3>2
    <3>3. CASE x \notin S
      BY <1>7, <3>3
    <3> QED  BY <3>1, <3>2, <3>3
  <2> QED  BY <1>9, <2>1, <2>2, <1>8 DEF Fetching
<1>11. Cardinality(Fetching(q)) = Cardinality(Fetching(p)) + Cardinality(begun)
       /\ Cardinality(Fetching(p)) \in Nat
  <2>1. /\ Cardinality(Fetching(p) \cup begun) =
             Cardinality(Fetching(p)) + Cardinality(begun) - Cardinality(begun \cap Fetching(p))
        /\ Cardinality(begun \cap Fetching(p)) = 0
    BY <1>8, <1>10, More
  <2>2. Cardinality(Fetching(p)) \in Nat
    BY FetchingFacts
  <2> HIDE DEF begun
  <2> QED  BY <1>8, <1>10, <2>1, <2>2
<1>12. Phases(q)
  BY <1>9 DEF Inv, Live, Phases, ParserKeeps, Ready, Page
<1>13. Counted(q) /\ Dead(q) /\ Live(q)
  BY <1>8, <1>9, <1>11, <1>0 DEF Inv, Live, Counted, Dead, ParserKeeps, Own, Page
<1>14. Pausing(q)
  <2>1. \A x \in Scripts : kids[x].type = "SYNC" /\ ~kids[x].started => x \in Fetching(q)
    <3> SUFFICES ASSUME NEW x \in Scripts, kids[x].type = "SYNC", ~kids[x].started
                 PROVE  x \in Fetching(q)
      OBVIOUS
    <3>1. CASE x \in S
      <4>1. x \in S \ styles /\ x \in Children
        BY <3>1, KindFacts
      <4>2. x \notin F
        BY <1>5, <1>7, <4>1
      <4> QED  BY <1>10, <4>1, <4>2
    <3>2. CASE x \notin S
      BY <1>7, <1>10, <3>2, KindFacts DEF Inv, Live, Pausing
    <3> QED  BY <3>1, <3>2
  <2>2. \A x \in Scripts \cap Fetching(q) :
           /\ kids[x].type \in ScriptTypes
           /\ kids[x].type = "SYNC" => ~kids[x].started /\ q.paused
    <3> SUFFICES ASSUME NEW x \in Scripts \cap Fetching(q)
                 PROVE  /\ kids[x].type \in ScriptTypes
                        /\ kids[x].type = "SYNC" => ~kids[x].started /\ q.paused
      OBVIOUS
    <3>1. CASE x \in begun
      <4>1. x \in S \ styles /\ x \in Children /\ kids[x] = met(x)
        BY <1>7, <1>8, <3>1
      <4> QED  BY <1>5, <1>9, <3>1, <4>1
    <3>2. CASE x \notin begun
      <4>1. x \in Fetching(p) /\ x \in Children
        BY <1>10, <3>2, KindFacts
      <4>2. x \notin S
        BY <1>1, <4>1, KindFacts DEF Fetching
      <4> QED  BY <1>7, <1>9, <4>1, <4>2 DEF Inv, Pausing
    <3> QED  BY <3>1, <3>2
  <2>3. q.paused => \E x \in Scripts \cap Fetching(q) : kids[x].type = "SYNC"
    <3> SUFFICES ASSUME q.paused
                 PROVE  \E x \in Scripts \cap Fetching(q) : kids[x].type = "SYNC"
      OBVIOUS
    <3>1. t = "SYNC" /\ begun \cap Scripts # {}
      BY <1>9
    <3>2. PICK x \in begun \cap Scripts : TRUE
      BY <3>1
    <3>3. x \in S \ styles /\ x \in Children
      BY <3>2, <1>8
    <3> QED  BY <1>5, <1>7, <1>10, <3>1, <3>3
  <2> QED  BY <1>9, <2>1, <2>2, <2>3 DEF Pausing, ParserKeeps
<1>15. Ready(q)
  BY <1>9 DEF Ready, Live, ParserKeeps
<1>16. Marked(q)
  <2>1. \A x \in Children : kids[x].modified => x \in styles \/ p.child[x].modified
    BY <1>5, <1>7
  <2>2. \A x \in styles : x \in Sheets /\ kids[x].modified
    BY <1>1, <1>4, <1>7, KindFacts
  <2>3. \A x \in Sheets : p.child[x].modified => kids[x].modified
    BY <1>4, <1>5, <1>7, KindFacts
  <2> QED  BY <1>9, <2>1, <2>2, <2>3 DEF Inv, Marked, ParserKeeps
<1>17. Met(q)
  <2>1. \A x \in Children : x \notin Parsed => kids[x] = p.child[x]
    BY <1>1, <1>7
  <2> QED  BY <1>9, <2>1, KindFacts DEF Inv, Met, ParserKeeps
<1> QED  BY <1>9, <1>12, <1>13, <1>14, <1>15, <1>16, <1>17 DEF Inv, q

LEMMA ParseKeeps ==
    ASSUME NEW p, Inv(p), Live(p), ~p.parse_completed, NEW q \in Parse(p)
    PROVE  Inv(q) /\ Live(q) /\ ParserKeeps(p, q)
<1>1. CASE p.paused
  BY <1>1 DEF Parse, ParserKeeps
<1>2. CASE ~p.paused
  <2>1. PICK S \in SUBSET Unmet(p) :
          /\ Cardinality(S \cap Scripts) <= 1
          /\ \E F \in (IF "start" \in Failures THEN SUBSET (S \ Styles) ELSE {{}}),
                t \in (IF S \cap Scripts = {} THEN {"none"} ELSE ScriptTypes) :
                q = Inserted(p, S, F, t)
    BY <1>2 DEF Parse
  <2>2. PICK F \in SUBSET (S \ Styles),
             t \in (IF S \cap Scripts = {} THEN {"none"} ELSE ScriptTypes) :
             q = Inserted(p, S, F, t)
    BY <2>1
  <2>3. t \in ScriptTypes \cup {"none"} /\ (S \cap Scripts # {} => t \in ScriptTypes)
    OBVIOUS
  <2> QED  BY <1>2, <2>1, <2>2, <2>3, InsertedKeeps
<1> QED  BY <1>1, <1>2

-----------------------------------------------------------------------------
(* The conversion.                                                          *)

\* q is p after some scripts that are not synchronous have run.
Ran(p, q) ==
    /\ q \in Page /\ ParserKeeps(p, q)
    /\ q.active = p.active /\ q.paused = p.paused /\ q.sched = p.sched /\ q.users = p.users
    /\ \A x \in Children :
          /\ q.child[x].state = p.child[x].state /\ q.child[x].type = p.child[x].type
          /\ q.child[x].modified = p.child[x].modified
          /\ q.child[x].type = "SYNC" => q.child[x].started = p.child[x].started

LEMMA RanKeeps ==
    ASSUME NEW p, NEW q, Ran(p, q), Inv(p)
    PROVE  Inv(q) /\ (Live(p) => Live(q)) /\ Fetching(q) = Fetching(p)
<1>1. Fetching(q) = Fetching(p)
  BY DEF Ran, Fetching
<1>2. Phases(q)
  BY <1>1 DEF Ran, ParserKeeps, Inv, Phases
<1>3. Counted(q) /\ (Live(p) => Live(q))
  BY <1>1 DEF Ran, ParserKeeps, Inv, Counted, Own, Live
<1>4. Dead(q)
  BY <1>1, KindFacts DEF Ran, ParserKeeps, Inv, Dead, Spent
<1>5. Pausing(q)
  BY <1>1, KindFacts DEF Ran, ParserKeeps, Inv, Pausing
<1>6. Ready(q)
  BY <1>1, KindFacts DEF Ran, ParserKeeps, Inv, Ready
<1>7. Marked(q)
  BY KindFacts DEF Ran, ParserKeeps, Inv, Marked
<1>8. Met(q)
  BY KindFacts DEF Ran, ParserKeeps, Inv, Met
<1> QED  BY <1>1, <1>2, <1>3, <1>4, <1>5, <1>6, <1>7, <1>8 DEF Inv, Ran

LEMMA ScriptExecRan ==
    ASSUME NEW p \in Page, p.status # "READY", NEW a \in BOOLEAN
    PROVE  Ran(p, html_script_exec(p, a))
<1> DEFINE run == {x \in Of(p, "ASYNC") \cup (IF a THEN Of(p, "DEFER") ELSE {}) :
                      p.child[x].state = "done" /\ ~p.child[x].started}
           kids == [x \in Children |->
                      IF x \in run THEN [p.child[x] EXCEPT !.started = TRUE] ELSE p.child[x]]
           q == [p EXCEPT !.child = kids]
<1>1. html_script_exec(p, a) = IF run = {} THEN p ELSE html_proceed_to_done(q)
  BY DEF html_script_exec
<1>2. \A x \in Children : p.child[x] \in ChildRecord
  BY DEF Page
<1>3. \A x \in run : p.child[x].type # "SYNC" /\ x \in Children
  BY KindFacts DEF Of
<1> HIDE DEF run
<1>4. \A x \in Children : /\ kids[x] \in ChildRecord
                          /\ kids[x].state = p.child[x].state /\ kids[x].type = p.child[x].type
                          /\ kids[x].modified = p.child[x].modified
                          /\ kids[x].type = "SYNC" => kids[x].started = p.child[x].started
  <2> SUFFICES ASSUME NEW x \in Children
               PROVE  /\ kids[x] \in ChildRecord
                      /\ kids[x].state = p.child[x].state /\ kids[x].type = p.child[x].type
                      /\ kids[x].modified = p.child[x].modified
                      /\ kids[x].type = "SYNC" => kids[x].started = p.child[x].started
    OBVIOUS
  <2>1. CASE x \in run
    <3>1. kids[x] = [p.child[x] EXCEPT !.started = TRUE]
      BY <2>1
    <3> HIDE DEF kids
    <3> QED  BY <1>2, <1>3, <2>1, <3>1 DEF ChildRecord
  <2>2. CASE x \notin run
    BY <1>2, <2>2
  <2> QED  BY <2>1, <2>2
<1>5. kids \in [Children -> ChildRecord]
  BY <1>4
<1> HIDE DEF kids
<1>6. /\ q \in Page /\ q.child = kids /\ ParserKeeps(p, q)
      /\ q.active = p.active /\ q.paused = p.paused /\ q.sched = p.sched /\ q.users = p.users
  BY <1>5 DEF Page, ParserKeeps
<1> HIDE DEF q
<1>7. Ran(p, q)
  BY <1>4, <1>6 DEF Ran
<1>8. html_proceed_to_done(q) = q
  BY <1>6 DEF html_proceed_to_done, ParserKeeps
<1>9. Ran(p, p)
  BY DEF Ran, ParserKeeps
<1> QED  BY <1>1, <1>7, <1>8, <1>9

\* q is p in error, its users gone.
Failed(p, q) ==
    /\ q \in Page
    /\ q.status = "ERROR" /\ ~q.locked /\ ~q.users /\ q.child = p.child
    /\ q.ll = p.ll /\ q.active = p.active /\ q.paused = p.paused
    /\ q.parse_completed = p.parse_completed /\ q.aborted = p.aborted
    /\ q.select_ctx = p.select_ctx /\ q.box = p.box /\ q.sched = p.sched
    /\ q.destroyed = p.destroyed /\ q.fault = p.fault

LEMMA FailedFacts ==
    ASSUME NEW p \in Page
    PROVE  /\ Failed(p, content_set_error(content_broadcast_error(p)))
           /\ Failed(p, content_broadcast_error(content_set_error(p)))
           /\ Failed(p, content_set_error(content_broadcast_error(content_set_error(p))))
  BY DEF Page, Failed, content_set_error, content_broadcast_error

LEMMA FailedKeeps ==
    ASSUME NEW p, Inv(p), Live(p), Spent(p), NEW q, Failed(p, q)
    PROVE  Inv(q) /\ Waits(q)
<1>1. Fetching(q) = Fetching(p) /\ ~p.box
  BY LiveFacts DEF Failed, Fetching
<1>2. Cardinality(Fetching(p)) \in Nat
  BY FetchingFacts
<1>3. Phases(q)
  BY <1>1 DEF Failed, Inv, Live, Phases, Page
<1>4. Counted(q)
  BY <1>1 DEF Failed, Inv, Counted, Own
<1>5. Dead(q)
  BY <1>1 DEF Failed, Spent, Dead
<1>6. Pausing(q) /\ Ready(q) /\ Marked(q) /\ Met(q)
  BY <1>1 DEF Failed, Inv, Pausing, Ready, Marked, Met
<1>7. Waits(q)
  BY DEF Failed, Waits
<1> QED  BY <1>3, <1>4, <1>5, <1>6, <1>7 DEF Inv, Failed

\* The users of a page may go at any time.
LEMMA LeftKeeps ==
    ASSUME NEW p, Inv(p)
    PROVE  /\ Inv(content_broadcast_error(p)) /\ (Live(p) => Live(content_broadcast_error(p)))
           /\ Waits(p) => Waits(content_broadcast_error(p))
<1> DEFINE q == content_broadcast_error(p)
<1>1. /\ q \in Page /\ ~q.users /\ ParserKeeps(p, q) /\ q.child = p.child
      /\ q.active = p.active /\ q.paused = p.paused /\ q.sched = p.sched
  BY DEF content_broadcast_error, Page, ParserKeeps, Inv
<1> HIDE DEF q
<1>2. Fetching(q) = Fetching(p)
  BY <1>1 DEF Fetching
<1>3. Phases(q)
  BY <1>1, <1>2 DEF ParserKeeps, Inv, Phases
<1>4. Counted(q) /\ Dead(q) /\ (Live(p) => Live(q))
  BY <1>1, <1>2 DEF ParserKeeps, Inv, Counted, Own, Live, Dead, Spent
<1>5. Pausing(q) /\ Ready(q) /\ Marked(q) /\ Met(q)
  BY <1>1, <1>2 DEF ParserKeeps, Inv, Pausing, Ready, Marked, Met
<1>6. Waits(p) => Waits(q)
  BY <1>1, <1>2 DEF ParserKeeps, Waits
<1> QED  BY <1>1, <1>3, <1>4, <1>5, <1>6 DEF Inv, q

\* The selection context is made and the conversion to boxes begins.
LEMMA BoxKeeps ==
    ASSUME NEW p, Inv(p), Live(p), p.parse_completed, p.active = 0, Spent(p),
           NEW q, q = [p EXCEPT !.select_ctx = TRUE, !.box = TRUE]
    PROVE  Inv(q) /\ Waits(q)
<1>1. /\ q \in Page /\ q.select_ctx /\ q.box /\ q.child = p.child
      /\ q.status = p.status /\ q.locked = p.locked /\ q.ll = p.ll
      /\ q.parse_completed = p.parse_completed
      /\ q.aborted = p.aborted /\ q.destroyed = p.destroyed /\ q.fault = p.fault
      /\ q.active = p.active /\ q.paused = p.paused /\ q.sched = p.sched /\ q.users = p.users
  BY DEF Page, Inv
<1>2. Fetching(q) = Fetching(p)
  BY <1>1 DEF Fetching
<1>3. p.status = "LOADING" /\ p.ll = "done" /\ p.locked
  BY LiveFacts
<1>4. Phases(q)
  BY <1>1, <1>2, <1>3 DEF Inv, Live, Phases
<1>5. Counted(q) /\ Dead(q)
  BY <1>1, <1>2, <1>3 DEF Inv, Counted, Own, Dead
<1>6. Pausing(q) /\ Marked(q) /\ Met(q)
  BY <1>1, <1>2, <1>3 DEF Inv, Pausing, Marked, Met
<1>7. Ready(q)
  BY <1>1, <1>2 DEF Inv, Ready, Pausing, Spent
<1>8. Waits(q)
  BY <1>1, <1>3 DEF Waits
<1> QED  BY <1>1, <1>4, <1>5, <1>6, <1>7, <1>8 DEF Inv

LEMMA ConvertedKeeps ==
    ASSUME NEW p, Inv(p), Live(p), p.parse_completed, html_can_begin_conversion(p),
           NEW checked \in BOOLEAN, NEW r \in Converted(p, checked)
    PROVE  Inv(r) /\ ("forms" \notin Failures => Waits(r))
<1>1. /\ p.active = 0 /\ p.status = "LOADING" /\ p.ll = "done" /\ Fetching(p) = {}
      /\ Spent(p) /\ p \in Page
  BY LiveFacts DEF html_can_begin_conversion, Spent, Inv
<1>2. CASE p.aborted
  <2>1. r = Refused(content_broadcast_error(content_set_error(p)), checked)
    BY <1>2 DEF Converted
  <2>2. Failed(p, r)
    BY <1>1, <2>1, FailedFacts DEF Refused
  <2> QED  BY <1>1, <2>2, FailedKeeps
<1>3. CASE ~p.aborted
  <2> DEFINE b == [p EXCEPT !.conversion_begun = TRUE]
             q == html_script_exec(b, TRUE)
  <2>1. /\ Inv(b) /\ Live(b) /\ Spent(b) /\ b \in Page
        /\ b.status = "LOADING" /\ b.active = 0 /\ b.parse_completed /\ ~b.aborted
    <3>2. /\ b \in Page /\ b.child = p.child
          /\ b.status = p.status /\ b.locked = p.locked /\ b.ll = p.ll
          /\ b.parse_completed = p.parse_completed /\ b.select_ctx = p.select_ctx /\ b.box = p.box
          /\ b.aborted = p.aborted /\ b.destroyed = p.destroyed /\ b.fault = p.fault
          /\ b.active = p.active /\ b.paused = p.paused /\ b.sched = p.sched /\ b.users = p.users
      BY <1>1 DEF Page
    <3> HIDE DEF b
    <3>3. Fetching(b) = Fetching(p)
      BY <3>2 DEF Fetching
    <3>4. Inv(b)
      BY <3>2, <3>3 DEF Inv, Phases, Counted, Own, Dead, Spent, Pausing, Ready, Marked, Met
    <3> QED  BY <1>1, <1>3, <3>2, <3>3, <3>4 DEF Live, Spent
  <2> HIDE DEF b
  <2>2. Ran(b, q)
    BY <2>1, ScriptExecRan
  <2> HIDE DEF q
  <2>3. Inv(q) /\ Live(q) /\ Fetching(q) = Fetching(b)
    BY <2>1, <2>2, RanKeeps
  <2>4. /\ q.active = 0 /\ q.parse_completed /\ ~q.aborted /\ ~q.select_ctx /\ q \in Page
        /\ Spent(q)
    BY <2>1, <2>2, <2>3, KindFacts DEF Ran, ParserKeeps, Live, Spent
  <2>5. \/ r = html_finish_conversion(q)
        \/ "forms" \in Failures /\ r = Refused(content_broadcast_error(q), checked)
    BY <1>3, <2>4 DEF Converted, b, q
  <2>6. CASE r = html_finish_conversion(q)
    <3>1. \/ r = content_set_error(content_broadcast_error(q))
          \/ r = [q EXCEPT !.select_ctx = TRUE, !.box = TRUE]
      BY <2>4, <2>6 DEF html_finish_conversion
    <3>2. CASE r = content_set_error(content_broadcast_error(q))
      BY <2>3, <2>4, <3>2, FailedFacts, FailedKeeps
    <3>3. CASE r = [q EXCEPT !.select_ctx = TRUE, !.box = TRUE]
      BY <2>3, <2>4, <3>3, BoxKeeps
    <3> QED  BY <3>1, <3>2, <3>3
  <2>7. CASE "forms" \in Failures /\ r = Refused(content_broadcast_error(q), checked)
    <3>1. CASE checked
      <4>1. r = content_set_error(content_broadcast_error(q))
        BY <2>7, <3>1 DEF Refused
      <4> QED  BY <2>3, <2>4, <4>1, FailedFacts, FailedKeeps
    <3>2. CASE ~checked
      BY <2>3, <2>7, <3>2, LeftKeeps DEF Refused
    <3> QED  BY <3>1, <3>2
  <2> QED  BY <2>5, <2>6, <2>7
<1> QED  BY <1>2, <1>3

LEMMA CompletedKeeps ==
    ASSUME NEW p, Inv(p), Live(p), p.active = 0, NEW checked, NEW r \in Completed(p, checked)
    PROVE  /\ Inv(r) /\ Live(r) /\ r.status = "LOADING" /\ r.ll = "done"
           /\ ~r.parse_completed => Fetching(r) # {}
<1>0. p.status = "LOADING" /\ p.ll = "done"
  BY LiveFacts
<1>1. PICK q \in (IF p.parse_completed THEN {p} ELSE Parse(p)) :
        r = IF ~q.paused THEN [q EXCEPT !.parse_completed = TRUE]
            ELSE IF q.active > 0 THEN q
            ELSE Refused(content_broadcast_error(q), checked)
  BY DEF Completed
<1>2. Inv(q) /\ Live(q) /\ q.status = "LOADING" /\ q.ll = "done"
  <2>1. CASE p.parse_completed
    BY <1>0, <1>1, <2>1
  <2>2. CASE ~p.parse_completed
    BY <1>0, <1>1, <2>2, ParseKeeps DEF ParserKeeps
  <2> QED  BY <2>1, <2>2
<1>3. CASE q.paused
  <2>1. Fetching(q) # {}
    BY <1>2, <1>3 DEF Inv, Live, Pausing
  <2>2. q.active > 0
    BY <1>2, <2>1, LiveFacts, FetchingFacts DEF Inv, Counted, Own, Page
  <2> QED  BY <1>1, <1>2, <1>3, <2>1, <2>2
<1>4. CASE ~q.paused
  <2>1. r = [q EXCEPT !.parse_completed = TRUE]
    BY <1>1, <1>4
  <2>2. /\ r \in Page /\ r.child = q.child
        /\ r.status = q.status /\ r.locked = q.locked /\ r.ll = q.ll
        /\ r.parse_completed /\ r.select_ctx = q.select_ctx /\ r.box = q.box
        /\ r.aborted = q.aborted /\ r.destroyed = q.destroyed /\ r.fault = q.fault
        /\ r.active = q.active /\ r.paused = q.paused /\ r.sched = q.sched /\ r.users = q.users
    BY <1>2, <2>1 DEF Page, Inv
  <2>3. Fetching(r) = Fetching(q)
    BY <2>2 DEF Fetching
  <2>4. Inv(r)
    BY <1>2, <1>4, <2>2, <2>3 DEF Inv, Live, Phases, Counted, Own, Dead, Spent, Pausing, Ready, Marked, Met
  <2> QED  BY <1>2, <2>2, <2>3, <2>4 DEF Live
<1> QED  BY <1>3, <1>4

LEMMA TryKeeps ==
    ASSUME NEW p, Inv(p), Live(p), NEW checked \in BOOLEAN, NEW r \in TryBegin(p, checked)
    PROVE  Inv(r) /\ ("forms" \notin Failures => Waits(r))
<1>1. CASE ~html_can_begin_conversion(p)
  <2>1. r = p
    BY <1>1 DEF TryBegin
  <2> QED  BY <1>1, <2>1, LiveFacts DEF Waits
<1>2. CASE html_can_begin_conversion(p)
  <2>1. PICK q \in Completed(p, checked) :
          r \in IF q.parse_completed /\ html_can_begin_conversion(q)
                THEN Converted(q, checked) ELSE {q}
    BY <1>2 DEF TryBegin, html_begin_conversion
  <2>2. /\ Inv(q) /\ Live(q) /\ q.status = "LOADING" /\ q.ll = "done"
        /\ ~q.parse_completed => Fetching(q) # {}
    BY <1>2, <2>1, CompletedKeeps DEF html_can_begin_conversion
  <2>3. CASE q.parse_completed /\ html_can_begin_conversion(q)
    BY <2>1, <2>2, <2>3, ConvertedKeeps
  <2>4. CASE ~(q.parse_completed /\ html_can_begin_conversion(q))
    <3>1. r = q
      BY <2>1, <2>4
    <3>2. Fetching(q) # {} \/ q.sched
      BY <2>2, <2>4, LiveFacts
    <3> QED  BY <2>2, <3>1, <3>2 DEF Waits
  <2> QED  BY <2>3, <2>4
<1> QED  BY <1>1, <1>2

-----------------------------------------------------------------------------
(* The events of the page's own data.                                       *)

LEMMA InitInv == Init => Inv(c) /\ Waits(c)
<1> SUFFICES ASSUME Init
             PROVE  Inv(c) /\ Waits(c)
  OBVIOUS
<1>1. \A x \in Children : /\ c.child[x] = Child(IF Kind[x] = "base" THEN "loading" ELSE "none")
                          /\ c.child[x] \in ChildRecord
                          /\ c.child[x].state = IF Kind[x] = "base" THEN "loading" ELSE "none"
                          /\ c.child[x].type = "none" /\ ~c.child[x].modified /\ ~c.child[x].started
  BY DEF Init, Child, ChildRecord, States
<1>2. Fetching(c) = Bases
  BY <1>1 DEF Fetching, Bases
<1>3. Cardinality(Fetching(c)) \in Nat
  BY FetchingFacts
<1>4. /\ c.status = "LOADING" /\ ~c.locked /\ c.users /\ c.ll = "open"
      /\ c.active = 1 + Cardinality(Fetching(c)) /\ ~c.paused /\ ~c.parse_completed
      /\ ~c.aborted /\ ~c.select_ctx /\ ~c.box /\ ~c.sched /\ ~c.destroyed /\ ~c.fault
  BY <1>2 DEF Init
<1>5. c \in Page
  <2>1. c.child \in [Children -> ChildRecord]
    BY <1>1 DEF Init
  <2>2. 1 + Cardinality(Bases) \in Int
    BY <1>2, <1>3
  <2> QED  BY <2>1, <2>2 DEF Init, Page
<1>6. Phases(c) /\ Dead(c) /\ Ready(c) /\ Waits(c)
  BY <1>4 DEF Phases, Dead, Ready, Waits
<1>7. Counted(c)
  BY <1>3, <1>4 DEF Counted, Own
<1>8. Pausing(c)
  BY <1>1, <1>2, <1>4, KindFacts DEF Pausing
<1>9. Marked(c)
  BY <1>1, <1>4 DEF Marked
<1>10. Met(c)
  BY <1>1 DEF Met, Boxed
<1> QED  BY <1>5, <1>6, <1>7, <1>8, <1>9, <1>10 DEF Inv

\* A page whose data is still arriving.
LEMMA OpenFacts ==
    ASSUME Inv(c), c.ll # "done", ~c.destroyed
    PROVE  /\ Live(c) /\ ~c.parse_completed /\ ~c.locked /\ ~c.box
           /\ c.status \in {"LOADING", "ERROR"}
           /\ c.active >= 1 + Cardinality(Fetching(c))
           /\ c.status = "LOADING" => c.active = 1 + Cardinality(Fetching(c))
           /\ \A x \in Children : Kind[x] = "quirks" => x \notin Fetching(c)
<1>1. ~c.parse_completed /\ ~c.select_ctx
  BY DEF Inv, Pausing, Ready
<1>2. c.active >= 1 + Cardinality(Fetching(c))
      /\ (c.status = "LOADING" => c.active = 1 + Cardinality(Fetching(c)))
  BY DEF Inv, Counted, Own
<1>3. Live(c)
  BY <1>1, <1>2 DEF Live
<1>4. ~c.locked /\ ~c.box /\ c.status \in {"LOADING", "ERROR"}
  BY <1>1 DEF Inv, Phases, Page
<1>5. \A x \in Children : Kind[x] = "quirks" => x \notin Fetching(c)
  BY DEF Inv, Met, Fetching
<1> QED  BY <1>1, <1>2, <1>3, <1>4, <1>5

\* The page fails while its data arrives.
LEMMA DataFailed ==
    ASSUME Inv(c), c.ll # "done", ~c.destroyed, NEW l \in {"aborted", "done"},
           NEW q, q = [content_broadcast_error(c) EXCEPT !.status = "ERROR", !.ll = l]
    PROVE  Inv(q) /\ Waits(q)
<1>1. /\ q \in Page /\ q.child = c.child /\ q.status = "ERROR" /\ q.ll = l /\ ~q.users
      /\ q.locked = c.locked /\ q.parse_completed = c.parse_completed
      /\ q.select_ctx = c.select_ctx /\ q.box = c.box
      /\ q.aborted = c.aborted /\ q.destroyed = c.destroyed /\ q.fault = c.fault
      /\ q.active = c.active /\ q.paused = c.paused /\ q.sched = c.sched
  BY DEF content_broadcast_error, Inv, Page
<1>2. Fetching(q) = Fetching(c)
  BY <1>1 DEF Fetching
<1>3. /\ Live(c) /\ ~c.parse_completed /\ ~c.locked /\ ~c.box
      /\ c.active >= 1 + Cardinality(Fetching(c))
  BY OpenFacts
<1>4. Cardinality(Fetching(c)) \in Nat
  BY FetchingFacts
<1>5. Phases(q)
  BY <1>1, <1>2, <1>3 DEF Inv, Phases
<1>6. Counted(q) /\ Dead(q)
  BY <1>1, <1>2, <1>3, <1>4 DEF Inv, Counted, Dead, Own, Page
<1>7. Pausing(q) /\ Ready(q) /\ Marked(q) /\ Met(q)
  BY <1>1, <1>2, <1>3 DEF Inv, Pausing, Ready, Marked, Met, Live
<1>8. Waits(q)
  BY <1>1 DEF Waits
<1> QED  BY <1>1, <1>5, <1>6, <1>7, <1>8 DEF Inv

LEMMA HadDataKeeps ==
    ASSUME Inv(c), LLCACHE_EVENT_HAD_DATA
    PROVE  Inv(c') /\ Waits(c')
<1>0. c.ll # "done" /\ ~c.destroyed
  BY DEF LLCACHE_EVENT_HAD_DATA
<1>1. CASE c' \in Parse(c)
  <2>1. Live(c) /\ ~c.parse_completed
    BY <1>0, OpenFacts
  <2>2. Inv(c') /\ Live(c') /\ ParserKeeps(c, c')
    BY <1>1, <2>1, ParseKeeps
  <2>3. c'.status \in {"LOADING", "ERROR"} /\ c'.ll # "done"
    BY <1>0, <2>2, OpenFacts DEF ParserKeeps
  <2> QED  BY <2>2, <2>3 DEF Waits
<1>2. CASE c' = [content_broadcast_error(c) EXCEPT !.status = "ERROR", !.ll = "aborted"]
  BY <1>0, <1>2, DataFailed
<1> QED  BY <1>1, <1>2 DEF LLCACHE_EVENT_HAD_DATA, Becomes

LEMMA ErrorEventKeeps ==
    ASSUME Inv(c), LLCACHE_EVENT_ERROR
    PROVE  Inv(c') /\ Waits(c')
  BY DataFailed DEF LLCACHE_EVENT_ERROR

\* The page as html_convert() finds it, with the quirks stylesheet x asked for or
\* not, and its own data no longer counted.
LEMMA ConvertReady ==
    ASSUME Inv(c), c.ll # "done", ~c.destroyed, c.status = "LOADING",
           NEW S \in SUBSET {x \in Children : Kind[x] = "quirks"},
           NEW r \in Page,
           r.locked, r.ll = "done", r.active = c.active + Cardinality(S) - 1,
           r.status = c.status, r.users = c.users, r.parse_completed = c.parse_completed,
           r.select_ctx = c.select_ctx, r.box = c.box, r.aborted = c.aborted,
           r.destroyed = c.destroyed, r.fault = c.fault, r.paused = c.paused, r.sched = c.sched,
           \A x \in Children :
              /\ r.child[x].state = IF x \in S THEN "loading" ELSE c.child[x].state
              /\ r.child[x].type = c.child[x].type /\ r.child[x].started = c.child[x].started
              /\ r.child[x].modified = c.child[x].modified
    PROVE  Inv(r) /\ Live(r)
<1>1. /\ Live(c) /\ ~c.parse_completed /\ ~c.box
      /\ c.active = 1 + Cardinality(Fetching(c))
      /\ \A x \in Children : Kind[x] = "quirks" => x \notin Fetching(c)
  BY OpenFacts
<1>2. Fetching(r) = Fetching(c) \cup S
  BY DEF Fetching
<1>3. S \cap Fetching(c) = {} /\ S \in SUBSET Children
  BY <1>1
<1>4. Cardinality(Fetching(c)) \in Nat /\ Cardinality(S) \in Nat
      /\ Cardinality(Fetching(r)) = Cardinality(Fetching(c)) + Cardinality(S)
  <2>1. /\ Cardinality(S) \in Nat
        /\ Cardinality(Fetching(c) \cup S) =
             Cardinality(Fetching(c)) + Cardinality(S) - Cardinality(S \cap Fetching(c))
        /\ Cardinality(S \cap Fetching(c)) = 0
    BY <1>3, More
  <2> QED  BY <1>2, <2>1, FetchingFacts
<1>5. \A x \in S : x \in Sheets /\ x \notin Scripts /\ x \notin Boxed /\ x \in Children
  BY DEF Sheets, Scripts, Boxed
<1>6. Phases(r)
  BY <1>1 DEF Inv, Live, Phases
<1>7. Counted(r) /\ Dead(r) /\ Live(r)
  BY <1>1, <1>4 DEF Counted, Own, Dead, Live, Page
<1>8. Pausing(r)
  <2>1. \A x \in Scripts : x \in Fetching(r) <=> x \in Fetching(c)
    BY <1>2, <1>5
  <2> QED  BY <1>1, <2>1, KindFacts DEF Inv, Pausing, Live
<1>9. Ready(r) /\ Marked(r)
  BY <1>1, KindFacts DEF Inv, Ready, Marked, Live
<1>10. Met(r)
  BY <1>5, KindFacts DEF Inv, Met
<1> QED  BY <1>6, <1>7, <1>8, <1>9, <1>10 DEF Inv

\* k is the page as content_convert() locks it, w asks for the quirks sheet too.
LEMMA QuirksReady ==
    ASSUME Inv(c), c.ll # "done", ~c.destroyed, c.status = "LOADING",
           NEW k \in Page, k.child = c.child, k.status = c.status, k.ll = "done", k.locked = TRUE,
           k.users = c.users, k.parse_completed = c.parse_completed,
           k.select_ctx = c.select_ctx, k.box = c.box,
           k.aborted = c.aborted, k.destroyed = c.destroyed, k.fault = c.fault,
           k.active = c.active, k.paused = c.paused, k.sched = c.sched,
           NEW x \in {y \in Children : Kind[y] = "quirks"},
           NEW w, w = Quirked(k, x), NEW r, r = Arrived(w)
    PROVE  Inv(r) /\ Live(r)
<1>0. c.active \in Int /\ k.active + 1 \in Int /\ "loading" \in States /\ x \in Children
  BY DEF Page, States
<1>1. w = Move(k, x, "loading", k.active + 1)
  BY DEF Quirked, Move
<1>2. Moved(k, w, x, "loading", k.active + 1)
  BY <1>0, <1>1, MovedFacts
<1>3. w \in Page /\ w.active = c.active + 1
  BY <1>2 DEF Moved
<1>4. /\ r \in Page /\ r.child = w.child /\ r.active = w.active - 1
      /\ r.status = w.status /\ r.ll = w.ll /\ r.locked = w.locked
      /\ r.users = w.users /\ r.parse_completed = w.parse_completed
      /\ r.select_ctx = w.select_ctx /\ r.box = w.box
      /\ r.aborted = w.aborted /\ r.destroyed = w.destroyed /\ r.fault = w.fault
      /\ r.paused = w.paused /\ r.sched = w.sched
  BY <1>3 DEF Page, Arrived
<1>5. {x} \in SUBSET {y \in Children : Kind[y] = "quirks"} /\ Cardinality({x}) = 1
  BY FS_Singleton
<1>6. r.active = c.active + Cardinality({x}) - 1
  BY <1>0, <1>3, <1>4, <1>5
<1>7. \A y \in Children :
        /\ r.child[y].state = IF y \in {x} THEN "loading" ELSE c.child[y].state
        /\ r.child[y].type = c.child[y].type /\ r.child[y].started = c.child[y].started
        /\ r.child[y].modified = c.child[y].modified
  BY <1>2, <1>4 DEF Moved
<1>8. /\ r.status = c.status /\ r.ll = "done" /\ r.locked = TRUE
      /\ r.users = c.users /\ r.parse_completed = c.parse_completed
      /\ r.select_ctx = c.select_ctx /\ r.box = c.box
      /\ r.aborted = c.aborted /\ r.destroyed = c.destroyed /\ r.fault = c.fault
      /\ r.paused = c.paused /\ r.sched = c.sched
  BY <1>2, <1>4 DEF Moved, ParserKeeps
<1> QED  BY <1>4, <1>5, <1>6, <1>7, <1>8, ConvertReady

LEMMA PlainReady ==
    ASSUME Inv(c), c.ll # "done", ~c.destroyed, c.status = "LOADING",
           NEW k \in Page, k.child = c.child, k.status = c.status, k.ll = "done", k.locked = TRUE,
           k.users = c.users, k.parse_completed = c.parse_completed,
           k.select_ctx = c.select_ctx, k.box = c.box,
           k.aborted = c.aborted, k.destroyed = c.destroyed, k.fault = c.fault,
           k.active = c.active, k.paused = c.paused, k.sched = c.sched,
           NEW r, r = Arrived(k)
    PROVE  Inv(r) /\ Live(r)
<1>0. c.active \in Int
  BY DEF Page
<1>1. /\ r \in Page /\ r.child = c.child /\ r.active = c.active - 1
      /\ r.status = c.status /\ r.ll = "done" /\ r.locked = TRUE
      /\ r.users = c.users /\ r.parse_completed = c.parse_completed
      /\ r.select_ctx = c.select_ctx /\ r.box = c.box
      /\ r.aborted = c.aborted /\ r.destroyed = c.destroyed /\ r.fault = c.fault
      /\ r.paused = c.paused /\ r.sched = c.sched
  BY DEF Page, Arrived
<1>2. {} \in SUBSET {y \in Children : Kind[y] = "quirks"} /\ Cardinality({}) = 0
  BY FS_EmptySet
<1>3. r.active = c.active + Cardinality({}) - 1
  BY <1>0, <1>1, <1>2
<1>4. \A y \in Children :
        /\ r.child[y].state = IF y \in {} THEN "loading" ELSE c.child[y].state
        /\ r.child[y].type = c.child[y].type /\ r.child[y].started = c.child[y].started
        /\ r.child[y].modified = c.child[y].modified
  BY <1>1
<1> QED  BY <1>1, <1>2, <1>3, <1>4, ConvertReady

LEMMA DoneEventKeeps ==
    ASSUME Inv(c), LLCACHE_EVENT_DONE
    PROVE  Inv(c') /\ ("forms" \notin Failures => Waits(c'))
<1>0. c.ll # "done" /\ ~c.destroyed /\ c \in Page
  BY DEF LLCACHE_EVENT_DONE, Inv
<1>1. /\ Live(c) /\ ~c.parse_completed /\ ~c.locked /\ ~c.box
      /\ c.status \in {"LOADING", "ERROR"}
      /\ c.active >= 1 + Cardinality(Fetching(c)) /\ Cardinality(Fetching(c)) \in Nat
  BY <1>0, OpenFacts, FetchingFacts
<1> DEFINE p == [c EXCEPT !.ll = "done"]
           q == Assert(p, p.status \in {"LOADING", "ERROR"})
<1>2. /\ q \in Page /\ q.child = c.child /\ q.status = c.status /\ q.ll = "done"
      /\ q.users = c.users /\ q.locked = c.locked /\ q.parse_completed = c.parse_completed
      /\ q.select_ctx = c.select_ctx /\ q.box = c.box
      /\ q.aborted = c.aborted /\ q.destroyed = c.destroyed /\ q.fault = c.fault
      /\ q.active = c.active /\ q.paused = c.paused /\ q.sched = c.sched
  <2>1. p \in Page /\ p.status \in {"LOADING", "ERROR"}
    BY <1>0, <1>1 DEF Page
  <2>2. q = [p EXCEPT !.fault = p.fault]
    BY <2>1 DEF Assert, Page
  <2> QED  BY <1>0, <2>2 DEF Page
<1>3. c' \in IF q.status # "LOADING" \/ q.locked THEN {q} ELSE html_convert([q EXCEPT !.locked = TRUE])
  BY DEF LLCACHE_EVENT_DONE, Becomes, content_convert
<1> HIDE DEF p, q
<1>4. CASE c.status = "ERROR"
  <2>1. c' = q
    BY <1>2, <1>3, <1>4
  <2>2. Fetching(q) = Fetching(c)
    BY <1>2 DEF Fetching
  <2>3. Phases(q)
    BY <1>1, <1>2, <1>4, <2>2 DEF Inv, Phases
  <2>4. Counted(q) /\ Dead(q)
    BY <1>1, <1>2, <1>4, <2>2 DEF Counted, Dead, Own, Page
  <2>5. Pausing(q) /\ Ready(q) /\ Marked(q) /\ Met(q)
    BY <1>1, <1>2, <2>2 DEF Inv, Pausing, Ready, Marked, Met, Live
  <2>6. Waits(q)
    BY <1>2, <1>4 DEF Waits
  <2> QED  BY <1>2, <2>1, <2>3, <2>4, <2>5, <2>6 DEF Inv
<1>5. CASE c.status = "LOADING"
  <2> DEFINE k == [q EXCEPT !.locked = TRUE]
  <2>1. /\ k \in Page /\ k.child = c.child /\ k.status = c.status /\ k.ll = "done" /\ k.locked = TRUE
        /\ k.users = c.users /\ k.parse_completed = c.parse_completed
        /\ k.select_ctx = c.select_ctx /\ k.box = c.box
        /\ k.aborted = c.aborted /\ k.destroyed = c.destroyed /\ k.fault = c.fault
        /\ k.active = c.active /\ k.paused = c.paused /\ k.sched = c.sched
    BY <1>2 DEF Page
  <2>2. c' \in html_convert(k)
    BY <1>1, <1>2, <1>3, <1>5
  <2> HIDE DEF k
  <2>3. PICK w \in {k} \cup {Quirked(k, x) : x \in {y \in Children : Kind[y] = "quirks"}} :
          c' \in TryBegin(Arrived(w), TRUE)
    BY <2>2 DEF html_convert
  <2>4. Inv(Arrived(w)) /\ Live(Arrived(w))
    <3>1. CASE w = k
      BY <1>0, <1>5, <2>1, <3>1, PlainReady
    <3>2. CASE \E x \in {y \in Children : Kind[y] = "quirks"} : w = Quirked(k, x)
      BY <1>0, <1>5, <2>1, <3>2, QuirksReady
    <3> QED  BY <2>3, <3>1, <3>2
  <2> QED  BY <2>3, <2>4, TryKeeps
<1> QED  BY <1>1, <1>4, <1>5

-----------------------------------------------------------------------------
(* The events of the children.                                              *)

\* Everything a fetch that ends with state DONE leaves to wait for.
LEMMA ProceedKeeps ==
    ASSUME NEW p, Inv(p), p.select_ctx, ~p.destroyed
    PROVE  /\ Inv(html_proceed_to_done(p)) /\ Waits(html_proceed_to_done(p))
           /\ AllArrived(p) = html_proceed_to_done(p)
           /\ html_proceed_to_done(p).select_ctx /\ ~html_proceed_to_done(p).destroyed
           /\ html_proceed_to_done(p).ll = p.ll
<1>0. Cardinality(Fetching(p)) \in Nat /\ (Fetching(p) = {} <=> Cardinality(Fetching(p)) = 0)
  BY FetchingFacts
<1>1. AllArrived(p) = html_proceed_to_done(p)
  <2>1. p.status = "READY" => content__reformat(p) = p
    BY DEF Inv, Phases, content__reformat, Assert, Page
  <2> QED  BY <2>1 DEF AllArrived, html_proceed_to_done
<1>2. CASE p.status = "READY" /\ p.active = 0
  <2> DEFINE r == content_set_done(p)
  <2>1. /\ r \in Page /\ r.child = p.child /\ r.status = "DONE" /\ r.locked = p.locked /\ r.ll = p.ll
        /\ r.parse_completed = p.parse_completed /\ r.select_ctx = p.select_ctx /\ r.box = p.box
        /\ r.aborted = p.aborted /\ r.destroyed = p.destroyed /\ r.fault = p.fault
        /\ r.active = p.active /\ r.paused = p.paused /\ r.sched = p.sched /\ r.users = p.users
    BY DEF Inv, Page, content_set_done
  <2> HIDE DEF r
  <2>2. Fetching(r) = Fetching(p)
    BY <2>1 DEF Fetching
  <2>3. Phases(r)
    BY <1>2, <2>1, <2>2 DEF Inv, Phases
  <2>4. Counted(r) /\ Dead(r)
    BY <1>2, <2>1, <2>2 DEF Inv, Counted, Own, Dead
  <2>5. Pausing(r) /\ Ready(r) /\ Marked(r) /\ Met(r)
    BY <2>1, <2>2 DEF Inv, Pausing, Ready, Marked, Met
  <2>6. Waits(r)
    BY <2>1 DEF Waits
  <2>7. html_proceed_to_done(p) = r
    BY <1>2 DEF html_proceed_to_done, r
  <2> QED  BY <1>1, <2>1, <2>3, <2>4, <2>5, <2>6, <2>7 DEF Inv
<1>3. CASE ~(p.status = "READY" /\ p.active = 0)
  <2>1. html_proceed_to_done(p) = p
    BY <1>3 DEF html_proceed_to_done
  <2>2. p.status = "LOADING" => p.box
    BY DEF Inv, Phases
  <2>3. p.status = "READY" => Fetching(p) \cap Boxed # {}
    <3> SUFFICES ASSUME p.status = "READY"
                 PROVE  Fetching(p) \cap Boxed # {}
      OBVIOUS
    <3>1. p.active = 0 + Cardinality(Fetching(p))
      BY DEF Inv, Phases, Counted, Own
    <3>2. Fetching(p) # {}
      BY <1>0, <1>3, <3>1
    <3> QED  BY <3>2, KindFacts, FetchingFacts DEF Inv, Ready
  <2> QED  BY <1>1, <2>1, <2>2, <2>3 DEF Waits
<1> QED  BY <1>2, <1>3

\* p is the page after the fetch of x has ended.
Ends(p, x) ==
    /\ p \in Page /\ ParserKeeps(c, p)
    /\ p.active = c.active - 1 /\ p.sched = c.sched /\ p.users = c.users
    /\ p.child[x].state \in {"done", "failed"}
    /\ \A y \in Children : y # x => /\ p.child[y].state = c.child[y].state
                                    /\ p.child[y].started = c.child[y].started
    /\ \A y \in Children : /\ p.child[y].type = c.child[y].type
                           /\ p.child[y].modified = c.child[y].modified
    /\ x \in Scripts /\ p.child[x].type = "SYNC" => p.child[x].started

SyncIn(p) == \E y \in Scripts \cap Fetching(p) : p.child[y].type = "SYNC"

LEMMA EndsKeeps ==
    ASSUME Inv(c), NEW x \in Fetching(c), NEW p, Ends(p, x), p.paused <=> SyncIn(p)
    PROVE  /\ Inv(p) /\ ~p.destroyed /\ (x \notin Boxed => Live(c) /\ Live(p))
           /\ (x \in Boxed => p.select_ctx) /\ p.ll = c.ll
<1>1. x \in Children /\ Fetching(p) = Fetching(c) \ {x}
  BY DEF Fetching, Ends
<1>2. Cardinality(Fetching(p)) = Cardinality(Fetching(c)) - 1 /\ Cardinality(Fetching(c)) \in Nat
  BY <1>1, Fewer1, FetchingFacts
<1>3. ~c.destroyed
  BY DEF Inv, Phases
<1>4. c.status = "ERROR" => c.active >= 1 + Cardinality(Fetching(c))
  BY DEF Inv, Dead, Spent
<1>5. Phases(p)
  BY <1>3 DEF Inv, Phases, Ends, ParserKeeps
<1>6. Counted(p) /\ Dead(p)
  BY <1>2, <1>4 DEF Inv, Counted, Dead, Own, Ends, ParserKeeps, Page
<1>7. Pausing(p)
  <2>1. p.paused => c.paused
    BY <1>1, KindFacts DEF Inv, Pausing, SyncIn, Ends
  <2>2. \A y \in Scripts : p.child[y].type = "SYNC" /\ ~p.child[y].started => y \in Fetching(p)
    BY <1>1, <1>3, KindFacts DEF Inv, Pausing, Ends
  <2>3. \A y \in Scripts \cap Fetching(p) :
           /\ p.child[y].type \in ScriptTypes
           /\ p.child[y].type = "SYNC" => ~p.child[y].started /\ p.paused
    BY <1>1, KindFacts DEF Inv, Pausing, Ends, SyncIn
  <2> QED  BY <2>1, <2>2, <2>3 DEF Inv, Pausing, Ends, ParserKeeps, SyncIn
<1>8. Ready(p)
  <2>1. p.select_ctx => ~p.paused
    BY <1>1 DEF Inv, Ready, Ends, ParserKeeps, SyncIn
  <2> QED  BY <1>1, <2>1, KindFacts DEF Inv, Ready, Ends, ParserKeeps
<1>9. Marked(p)
  BY KindFacts DEF Inv, Marked, Ends, ParserKeeps
<1>10. Met(p)
  <2>1. \A y \in Children : p.child[y].state # "none" => c.child[y].state # "none"
    BY <1>1 DEF Ends, Fetching
  <2> QED  BY <2>1, KindFacts DEF Inv, Met, Ends, ParserKeeps
<1>11. x \notin Boxed => Live(c) /\ Live(p)
  <2>1. x \notin Boxed => ~c.select_ctx
    BY <1>1, KindFacts DEF Inv, Ready
  <2> QED  BY <1>2, <1>3, <1>4, <2>1 DEF Live, Ends, ParserKeeps, Inv, Page
<1>12. x \in Boxed => p.select_ctx
  BY DEF Inv, Met, Fetching, Ends, ParserKeeps
<1> QED  BY <1>3, <1>5, <1>6, <1>7, <1>8, <1>9, <1>10, <1>11, <1>12 DEF Inv, Ends, ParserKeeps

\* The fetch of anything but a synchronous script ends.
LEMMA EndedFacts ==
    ASSUME Inv(c), NEW x \in Fetching(c), NEW s \in {"done", "failed"}, NEW p, p = Ended(c, x, s)
    PROVE  /\ Moved(c, p, x, s, c.active - 1)
           /\ x \notin Of(c, "SYNC") => Ends(p, x) /\ (p.paused <=> SyncIn(p))
<1>0. x \in Children /\ c \in Page /\ c.active - 1 \in Int /\ s \in States
  BY DEF Fetching, Inv, Page, States
<1>1. p = Move(c, x, s, c.active - 1)
  BY DEF Ended, Move
<1>2. Moved(c, p, x, s, c.active - 1)
  BY <1>0, <1>1, MovedFacts
<1>3. Fetching(p) = Fetching(c) \ {x}
  BY <1>0, <1>2 DEF Fetching, Moved
<1>4. ASSUME x \notin Of(c, "SYNC") PROVE Ends(p, x) /\ (p.paused <=> SyncIn(p))
  <2>1. Ends(p, x)
    BY <1>0, <1>2, <1>4 DEF Moved, Ends, Of
  <2>2. ~c.destroyed
    BY DEF Inv, Phases
  <2>3. c.paused <=> SyncIn(c)
    BY <2>2 DEF Inv, Pausing, SyncIn
  <2>4. SyncIn(c) <=> SyncIn(p)
    BY <1>2, <1>3, <1>4, KindFacts DEF SyncIn, Of, Moved
  <2> QED  BY <1>2, <2>1, <2>3, <2>4 DEF Moved
<1> QED  BY <1>2, <1>4

LEMMA SheetEndKeeps ==
    ASSUME Inv(c), NEW x \in Fetching(c), NEW s \in {"done", "failed"}, x \notin Boxed,
           x \notin Of(c, "SYNC"), c' \in TryBegin(Ended(c, x, s), FALSE)
    PROVE  Inv(c') /\ ("forms" \notin Failures => Waits(c'))
<1>1. Inv(Ended(c, x, s)) /\ Live(Ended(c, x, s))
  BY EndedFacts, EndsKeeps
<1> QED  BY <1>1, TryKeeps

LEMMA AsyncEndKeeps ==
    ASSUME Inv(c), NEW x \in Fetching(c), NEW s \in {"done", "failed"}, x \notin Boxed,
           x \notin Of(c, "SYNC"), c' \in convert_script_async_cb(x, s)
    PROVE  Inv(c') /\ ("forms" \notin Failures => Waits(c'))
<1> DEFINE p == Ended(c, x, s)
<1>1. Inv(p) /\ Live(p)
  BY EndedFacts, EndsKeeps
<1>2. CASE html_can_begin_conversion(p)
  <2>1. c' \in TryBegin(p, FALSE)
    BY <1>2 DEF convert_script_async_cb, TryBegin
  <2> HIDE DEF p
  <2> QED  BY <1>1, <2>1, TryKeeps
<1>3. CASE ~html_can_begin_conversion(p)
  <2>1. c' = IF p.conversion_begun THEN html_script_exec(p, FALSE) ELSE p
    BY <1>3 DEF convert_script_async_cb
  <2> HIDE DEF p
  <2>2. p.status # "READY" /\ p \in Page /\ Waits(p)
    BY <1>1, <1>3, LiveFacts DEF Inv, Waits
  <2>3. CASE p.conversion_begun
    <3>1. Ran(p, c')
      BY <2>1, <2>2, <2>3, ScriptExecRan
    <3>2. Inv(c') /\ Fetching(c') = Fetching(p)
      BY <1>1, <3>1, RanKeeps
    <3> QED  BY <2>2, <3>1, <3>2 DEF Waits, Ran, ParserKeeps
  <2>4. CASE ~p.conversion_begun
    BY <1>1, <2>1, <2>2, <2>4
  <2> QED  BY <2>3, <2>4
<1> QED  BY <1>2, <1>3

\* A synchronous script is run, or found missing, when its fetch ends.
LEMMA StartedFacts ==
    ASSUME Inv(c), NEW x \in Fetching(c), x \in Of(c, "SYNC"), NEW s \in {"done", "failed"},
           NEW p, p = Ended(c, x, s), NEW q, q = Started(p, x)
    PROVE  Ends(q, x) /\ q.paused = c.paused /\ q \in Page
<1>1. Moved(c, p, x, s, c.active - 1) /\ x \in Children
  BY EndedFacts DEF Fetching
<1> DEFINE kid == [p.child[x] EXCEPT !.started = TRUE]
           kids == [p.child EXCEPT ![x] = kid]
<1>2. p \in Page /\ p.child \in [Children -> ChildRecord] /\ p.child[x] \in ChildRecord
  BY <1>1 DEF Moved, Page
<1>3. /\ kid \in ChildRecord /\ kid.started = TRUE /\ kid.state = s
      /\ kid.type = p.child[x].type /\ kid.modified = p.child[x].modified
  BY <1>1, <1>2 DEF ChildRecord, Moved
<1>4. q = [p EXCEPT !.child = kids]
  BY DEF Started
<1> HIDE DEF kid
<1>5. kids \in [Children -> ChildRecord] /\ kids[x] = kid
      /\ \A y \in Children : y # x => kids[y] = p.child[y]
  BY <1>1, <1>2, <1>3
<1> HIDE DEF kids
<1>6. /\ q \in Page /\ q.child = kids /\ ParserKeeps(p, q)
      /\ q.active = p.active /\ q.paused = p.paused /\ q.sched = p.sched /\ q.users = p.users
  BY <1>2, <1>4, <1>5 DEF Page, ParserKeeps
<1>7. ParserKeeps(c, q) /\ q.active = c.active - 1 /\ q.sched = c.sched /\ q.users = c.users
      /\ q.paused = c.paused
  BY <1>1, <1>6 DEF Moved, ParserKeeps
<1>8. \A y \in Children : y # x => /\ q.child[y].state = c.child[y].state
                                   /\ q.child[y].started = c.child[y].started
  BY <1>1, <1>5, <1>6 DEF Moved
<1>9. \A y \in Children : /\ q.child[y].type = c.child[y].type
                          /\ q.child[y].modified = c.child[y].modified
  BY <1>1, <1>3, <1>5, <1>6 DEF Moved
<1> QED  BY <1>3, <1>5, <1>6, <1>7, <1>8, <1>9 DEF Ends

LEMMA SyncEndKeeps ==
    ASSUME Inv(c), NEW x \in Fetching(c), x \in Of(c, "SYNC"), NEW s \in {"done", "failed"},
           c' \in convert_script_sync_cb(x, s)
    PROVE  Inv(c') /\ ("forms" \notin Failures => Waits(c'))
<1> DEFINE others == {y \in Of(c, "SYNC") \ {x} : ~c.child[y].started}
           p == Started(Ended(c, x, s), x)
<1>1. Ends(p, x) /\ p.paused = c.paused /\ p \in Page
  BY StartedFacts
<1>2. PICK q \in IF others = {} THEN Parse(Unpaused(p)) ELSE {p} : c' \in TryBegin(q, FALSE)
  BY DEF convert_script_sync_cb
<1> HIDE DEF p
<1>3. x \in Children /\ x \in Scripts /\ x \notin Boxed /\ ~c.destroyed /\ c.paused
  BY KindFacts DEF Of, Inv, Phases, Pausing
<1>4. Fetching(p) = Fetching(c) \ {x}
  BY <1>1, <1>3 DEF Ends, Fetching
<1>5. SyncIn(p) <=> others # {}
  <2>1. ASSUME NEW y \in others PROVE SyncIn(p)
    <3>1. y \in Scripts /\ c.child[y].type = "SYNC" /\ y # x /\ ~c.child[y].started
      BY <2>1 DEF Of
    <3>2. y \in Fetching(c)
      BY <1>3, <3>1 DEF Inv, Pausing
    <3> QED  BY <1>1, <1>4, <3>1, <3>2, KindFacts DEF SyncIn, Ends
  <2>2. ASSUME SyncIn(p) PROVE others # {}
    <3>1. PICK y \in Scripts \cap Fetching(p) : p.child[y].type = "SYNC"
      BY <2>2 DEF SyncIn
    <3>2. y \in Scripts \cap Fetching(c) /\ y # x /\ c.child[y].type = "SYNC" /\ ~c.child[y].started
      BY <1>1, <1>4, <3>1, KindFacts DEF Ends, Inv, Pausing
    <3> QED  BY <3>2 DEF Of
  <2> QED  BY <2>1, <2>2
<1> HIDE DEF others
<1>6. Inv(q) /\ Live(q)
  <2>1. CASE others = {}
    <3> DEFINE u == Unpaused(p)
    <3>1. /\ u \in Page /\ u.child = p.child /\ ParserKeeps(p, u) /\ u.paused = FALSE
          /\ u.active = p.active /\ u.sched = p.sched /\ u.users = p.users
      BY <1>1 DEF Unpaused, Page, ParserKeeps
    <3>2. q \in Parse(u)
      BY <1>2, <2>1
    <3> HIDE DEF u
    <3>3. Ends(u, x)
      BY <1>1, <3>1 DEF Ends, ParserKeeps
    <3>4. u.paused <=> SyncIn(u)
      BY <1>5, <2>1, <3>1 DEF SyncIn, Fetching
    <3>5. Inv(u) /\ Live(u) /\ ~c.parse_completed
      BY <1>3, <3>3, <3>4, EndsKeeps DEF Inv, Pausing
    <3>6. ~u.parse_completed
      BY <3>3, <3>5 DEF Ends, ParserKeeps
    <3> QED  BY <3>2, <3>5, <3>6, ParseKeeps
  <2>2. CASE others # {}
    <3>1. q = p
      BY <1>2, <2>2
    <3> QED  BY <1>1, <1>3, <1>5, <2>2, <3>1, EndsKeeps
  <2> QED  BY <2>1, <2>2
<1> QED  BY <1>2, <1>6, TryKeeps

LEMMA ObjectEndKeeps ==
    ASSUME Inv(c), NEW x \in Fetching(c), x \in Boxed, NEW s \in {"done", "failed"},
           c' = ObjectEnded(c, x, s)
    PROVE  Inv(c') /\ Waits(c')
<1> DEFINE p == Ended(c, x, s)
<1>1. x \notin Of(c, "SYNC")
  BY KindFacts DEF Of
<1>2. Inv(p) /\ p.select_ctx /\ ~p.destroyed
  BY <1>1, EndedFacts, EndsKeeps
<1>3. c' = AllArrived(p)
  BY DEF ObjectEnded, Ended
<1> HIDE DEF p
<1> QED  BY <1>2, <1>3, ProceedKeeps

LEMMA ChildEndsKeeps ==
    ASSUME Inv(c), NEW x \in Children, ChildEnds(x)
    PROVE  Inv(c') /\ ("forms" \notin Failures => Waits(c'))
<1>0. x \in Fetching(c) /\ (Kind[x] = "object" <=> x \in Boxed)
  BY DEF ChildEnds, Boxed
<1>1. PICK s \in {"done", "failed"} :
          CASE x \in Sheets -> c' \in html_convert_css_callback(x, s)
            [] x \in Of(c, "SYNC")  -> c' \in convert_script_sync_cb(x, s)
            [] x \in Of(c, "ASYNC") -> c' \in convert_script_async_cb(x, s)
            [] x \in Of(c, "DEFER") -> c' \in convert_script_defer_cb(x, s)
            [] Kind[x] = "object" -> c' = ObjectEnded(c, x, s)
  BY DEF ChildEnds, Becomes
<1>2. CASE x \in Sheets
  <2>1. c' \in TryBegin(Ended(c, x, s), FALSE) /\ x \notin Boxed /\ x \notin Of(c, "SYNC")
    BY <1>0, <1>1, <1>2, KindFacts DEF html_convert_css_callback, Of
  <2> QED  BY <1>0, <2>1, SheetEndKeeps
<1>3. CASE x \in Scripts
  <2>0. x \notin Sheets /\ x \notin Boxed /\ c.child[x].type \in ScriptTypes
    BY <1>0, <1>3, KindFacts DEF Inv, Pausing
  <2>1. CASE c.child[x].type = "SYNC"
    <3>1. x \in Of(c, "SYNC") /\ x \notin Of(c, "ASYNC") /\ x \notin Of(c, "DEFER")
      BY <1>3, <2>1 DEF Of
    <3>2. c' \in convert_script_sync_cb(x, s)
      BY <1>0, <1>1, <2>0, <3>1
    <3> QED  BY <1>0, <3>1, <3>2, SyncEndKeeps
  <2>2. CASE c.child[x].type = "ASYNC"
    <3>1. x \in Of(c, "ASYNC") /\ x \notin Of(c, "SYNC") /\ x \notin Of(c, "DEFER")
      BY <1>3, <2>2 DEF Of
    <3>2. c' \in convert_script_async_cb(x, s)
      BY <1>0, <1>1, <2>0, <3>1
    <3> QED  BY <1>0, <2>0, <3>1, <3>2, AsyncEndKeeps
  <2>3. CASE c.child[x].type = "DEFER"
    <3>1. x \in Of(c, "DEFER") /\ x \notin Of(c, "SYNC") /\ x \notin Of(c, "ASYNC")
      BY <1>3, <2>3 DEF Of
    <3>2. c' \in TryBegin(Ended(c, x, s), FALSE)
      BY <1>0, <1>1, <2>0, <3>1 DEF convert_script_defer_cb
    <3> QED  BY <1>0, <2>0, <3>1, <3>2, SheetEndKeeps
  <2> QED  BY <2>0, <2>1, <2>2, <2>3 DEF ScriptTypes
<1>4. CASE x \in Boxed
  <2>1. c' = ObjectEnded(c, x, s)
    BY <1>0, <1>1, <1>4, KindFacts DEF Of
  <2> QED  BY <1>0, <1>4, <2>1, ObjectEndKeeps
<1> QED  BY <1>2, <1>3, <1>4, KindFacts

LEMMA ObjectReadyKeeps ==
    ASSUME Inv(c), NEW x \in Children, ObjectReady(x)
    PROVE  Inv(c') /\ (Waits(c) => Waits(c'))
<1> DEFINE p == [c EXCEPT !.child[x].state = "ready"]
<1>0. x \in Boxed /\ c.child[x].state = "loading" /\ x \in Fetching(c)
      /\ c \in Page /\ c.active \in Int /\ "ready" \in States
  BY DEF ObjectReady, Fetching, Inv, Page, States
<1>1. p = Move(c, x, "ready", c.active)
  BY <1>0 DEF Move, Page
<1>2. c' = IF p.status \in {"READY", "DONE"} THEN content__reformat(p) ELSE p
  BY DEF ObjectReady
<1> HIDE DEF p
<1>3. Moved(c, p, x, "ready", c.active)
  BY <1>0, <1>1, MovedFacts
<1>4. Fetching(p) = Fetching(c)
  BY <1>0, <1>3 DEF Moved, Fetching
<1>5. Phases(p)
  BY <1>3, <1>4 DEF Moved, ParserKeeps, Inv, Phases
<1>6. Counted(p)
  BY <1>3, <1>4 DEF Moved, ParserKeeps, Inv, Counted, Own
<1>7. Dead(p)
  BY <1>3, <1>4, KindFacts DEF Moved, ParserKeeps, Inv, Dead, Spent
<1>8. Pausing(p) /\ Ready(p)
  BY <1>3, <1>4, KindFacts DEF Moved, ParserKeeps, Inv, Pausing, Ready
<1>9. Marked(p)
  BY <1>3, <1>4, KindFacts DEF Moved, ParserKeeps, Inv, Marked
<1>10. Met(p)
  BY <1>0, <1>3, KindFacts DEF Moved, ParserKeeps, Inv, Met
<1>11. Inv(p) /\ (Waits(c) => Waits(p))
  BY <1>3, <1>4, <1>5, <1>6, <1>7, <1>8, <1>9, <1>10 DEF Inv, Moved, Waits, ParserKeeps
<1>12. p.status \in {"READY", "DONE"} => content__reformat(p) = p
  BY <1>11 DEF Inv, Phases, content__reformat, Assert, Page
<1> QED  BY <1>2, <1>11, <1>12

-----------------------------------------------------------------------------
(* The callbacks of the scheduler.                                          *)

LEMMA StylesKeeps ==
    ASSUME Inv(c), html_css_process_modified_styles
    PROVE  Inv(c') /\ (Empty = {} => Waits(c'))
<1> DEFINE again == {x \in Sheets \ Empty : c.child[x].modified}
           kids == [x \in Children |-> html_css_process_modified_style(c, x)]
           n == c.active + Cardinality(again) - Cardinality(again \cap Fetching(c))
<1>0. /\ c.sched /\ ~c.destroyed /\ c \in Page /\ ~c.fault
      /\ \A x \in Children : c.child[x] \in ChildRecord
  BY DEF html_css_process_modified_styles, Inv, Phases, Page
<1>1. PICK m \in Sheets : c.child[m].modified
  BY <1>0 DEF Inv, Marked
<1>2. ~c.select_ctx /\ ~c.box
  BY <1>1 DEF Inv, Ready, Phases
<1>3. \A x \in Children :
        /\ kids[x] \in ChildRecord
        /\ kids[x].state = (IF x \in again THEN "loading" ELSE c.child[x].state)
        /\ kids[x].type = c.child[x].type /\ kids[x].started = c.child[x].started
        /\ ~kids[x].modified
  <2> SUFFICES ASSUME NEW x \in Children
               PROVE  /\ kids[x] \in ChildRecord
                      /\ kids[x].state = (IF x \in again THEN "loading" ELSE c.child[x].state)
                      /\ kids[x].type = c.child[x].type /\ kids[x].started = c.child[x].started
                      /\ ~kids[x].modified
    OBVIOUS
  <2>1. kids[x] = html_css_process_modified_style(c, x)
    OBVIOUS
  <2> HIDE DEF kids
  <2>2. c.child[x].modified => x \in Sheets
    BY KindFacts DEF Inv, Marked
  <2>3. CASE ~c.child[x].modified
    <3>1. kids[x] = c.child[x] /\ x \notin again
      BY <2>1, <2>3 DEF html_css_process_modified_style
    <3> QED  BY <1>0, <2>3, <3>1
  <2>4. CASE c.child[x].modified /\ x \in Empty
    <3>1. kids[x] = [c.child[x] EXCEPT !.modified = FALSE] /\ x \notin again
      BY <2>1, <2>4 DEF html_css_process_modified_style
    <3> QED  BY <1>0, <3>1 DEF ChildRecord
  <2>5. CASE c.child[x].modified /\ x \notin Empty
    <3>1. kids[x] = [c.child[x] EXCEPT !.modified = FALSE, !.state = "loading"] /\ x \in again
      BY <2>1, <2>2, <2>5 DEF html_css_process_modified_style
    <3> QED  BY <1>0, <3>1 DEF ChildRecord, States
  <2> QED  BY <2>3, <2>4, <2>5
<1>4. again \in SUBSET Children /\ \A x \in again : x \in Sheets /\ x \in Styles
  BY KindFacts DEF Inv, Marked
<1>5. /\ Cardinality(again) \in Nat /\ Cardinality(again \cap Fetching(c)) \in Nat
      /\ Cardinality(Fetching(c) \cup again) =
           Cardinality(Fetching(c)) + Cardinality(again) - Cardinality(again \cap Fetching(c))
      /\ Cardinality(Fetching(c)) \in Nat
  BY <1>4, More, FetchingFacts
<1>6. c' = [c EXCEPT !.sched = FALSE, !.child = kids, !.active = n]
  <2>1. Assert(c, ~c.destroyed) = c
    BY <1>0 DEF Assert, Page
  <2>2. c' = [Assert(c, ~c.destroyed) EXCEPT !.sched = FALSE, !.child = kids,
                !.active = @ + Cardinality(again) - Cardinality(again \cap Fetching(c))]
    BY DEF html_css_process_modified_styles
  <2> QED  BY <2>1, <2>2
<1>7. kids \in [Children -> ChildRecord] /\ n \in Int
  BY <1>0, <1>3, <1>5 DEF Page
<1> HIDE DEF kids, n
<1>8. /\ c' \in Page /\ c'.child = kids /\ c'.active = n /\ ~c'.sched /\ ParserKeeps(c, c')
      /\ c'.users = c.users /\ c'.paused = c.paused
  BY <1>0, <1>6, <1>7 DEF Page, ParserKeeps
<1> HIDE DEF again
<1>9. Fetching(c') = Fetching(c) \cup again
  BY <1>3, <1>4, <1>8 DEF Fetching
<1>10. c'.active = c.active + Cardinality(Fetching(c')) - Cardinality(Fetching(c))
       /\ Cardinality(Fetching(c')) \in Nat /\ c.active \in Int
  <2>1. c.active \in Int
    BY <1>0 DEF Page
  <2>2. Cardinality(Fetching(c')) \in Nat
    BY FetchingFacts
  <2> QED  BY <1>5, <1>8, <1>9, <2>1, <2>2 DEF n
<1>11. Phases(c')
  BY <1>0, <1>2, <1>8 DEF Inv, Phases, ParserKeeps
<1>12. c.status = "ERROR" => c.active >= 1 + Cardinality(Fetching(c))
  BY <1>1 DEF Inv, Dead, Spent
<1>13. Counted(c') /\ Dead(c')
  BY <1>0, <1>5, <1>8, <1>10, <1>12 DEF Inv, Counted, Dead, Own, ParserKeeps, Page
<1>14. Pausing(c')
  <2>1. \A x \in Scripts : x \in Fetching(c') <=> x \in Fetching(c)
    BY <1>4, <1>9, KindFacts
  <2>2. \A x \in Scripts : c'.child[x].type = c.child[x].type /\ c'.child[x].started = c.child[x].started
    BY <1>3, <1>8, KindFacts
  <2> QED  BY <1>0, <1>8, <2>1, <2>2 DEF Inv, Pausing, ParserKeeps
<1>15. Ready(c')
  BY <1>2, <1>8 DEF Ready, ParserKeeps
<1>16. Marked(c')
  BY <1>3, <1>8 DEF Marked
<1>17. Met(c')
  <2>1. \A x \in Children : Kind[x] \in {"quirks", "object"} => x \notin again
    BY <1>4 DEF Styles
  <2> QED  BY <1>3, <1>8, <2>1, KindFacts DEF Inv, Met, ParserKeeps, Boxed
<1>18. Empty = {} => Waits(c')
  <2> SUFFICES ASSUME Empty = {}
               PROVE  Waits(c')
    OBVIOUS
  <2>1. m \in again
    BY <1>1 DEF again
  <2>2. c'.status # "READY"
    BY <1>2, <1>8 DEF Inv, Phases, ParserKeeps
  <2> QED  BY <1>9, <2>1, <2>2 DEF Waits
<1> QED  BY <1>8, <1>11, <1>13, <1>14, <1>15, <1>16, <1>17, <1>18 DEF Inv

\* The children of S are let go of.
LetGo(p, S) == [x \in Children |->
                   IF x \in S THEN [p.child[x] EXCEPT !.state = "failed"] ELSE p.child[x]]

LetGone(p, k, S) ==
    /\ k \in [Children -> ChildRecord]
    /\ \A x \in Children :
          /\ k[x].state = IF x \in S THEN "failed" ELSE p.child[x].state
          /\ k[x].type = p.child[x].type /\ k[x].started = p.child[x].started
          /\ k[x].modified = p.child[x].modified

LEMMA LetGoFacts ==
    ASSUME NEW p \in Page, NEW S, NEW k, k = LetGo(p, S)
    PROVE  LetGone(p, k, S)
<1>1. \A x \in Children : p.child[x] \in ChildRecord
  BY DEF Page
<1>2. \A x \in Children : k[x] = IF x \in S THEN [p.child[x] EXCEPT !.state = "failed"] ELSE p.child[x]
  BY DEF LetGo
<1>3. \A x \in Children :
        /\ k[x] \in ChildRecord
        /\ k[x].state = IF x \in S THEN "failed" ELSE p.child[x].state
        /\ k[x].type = p.child[x].type /\ k[x].started = p.child[x].started
        /\ k[x].modified = p.child[x].modified
  <2> SUFFICES ASSUME NEW x \in Children
               PROVE  /\ k[x] \in ChildRecord
                      /\ k[x].state = IF x \in S THEN "failed" ELSE p.child[x].state
                      /\ k[x].type = p.child[x].type /\ k[x].started = p.child[x].started
                      /\ k[x].modified = p.child[x].modified
    OBVIOUS
  <2>1. CASE x \in S
    <3>1. k[x] = [p.child[x] EXCEPT !.state = "failed"] /\ p.child[x] \in ChildRecord
      BY <1>1, <1>2, <2>1
    <3> QED  BY <2>1, <3>1 DEF ChildRecord, States
  <2>2. CASE x \notin S
    BY <1>1, <1>2, <2>2
  <2> QED  BY <2>1, <2>2
<1>4. k \in [Children -> ChildRecord]
  BY <1>3 DEF LetGo
<1> QED  BY <1>3, <1>4 DEF LetGone

\* The page is in error because its boxes could not be made or it was stopped.
LEMMA BoxFailedKeeps ==
    ASSUME Inv(c), c.box, NEW q, q = [c EXCEPT !.box = FALSE],
           NEW r, r = content_set_error(content_broadcast_error(html_object_free_objects(q)))
    PROVE  Inv(r) /\ Waits(r)
<1>0. /\ c \in Page /\ c.status = "LOADING" /\ c.locked /\ c.select_ctx /\ ~c.destroyed
      /\ c.ll = "done" /\ ~c.fault
  BY DEF Inv, Phases
<1> DEFINE S == Boxed \cap Held(q)
           kids == LetGo(q, S)
<1>1. q \in Page /\ q.child = c.child
  BY <1>0 DEF Page
<1>2. html_object_free_objects(q) = [q EXCEPT !.child = kids]
  BY DEF html_object_free_objects, LetGo
<1>3. kids \in [Children -> ChildRecord] /\ \A x \in Children :
        /\ kids[x].state = IF x \in S THEN "failed" ELSE c.child[x].state
        /\ kids[x].type = c.child[x].type /\ kids[x].started = c.child[x].started
        /\ kids[x].modified = c.child[x].modified
  <2> HIDE DEF S
  <2>1. LetGone(q, kids, S)
    BY <1>1, LetGoFacts
  <2> HIDE DEF kids
  <2> QED  BY <1>1, <2>1 DEF LetGone
<1> HIDE DEF kids
<1> DEFINE f == [q EXCEPT !.child = kids]
<1>4. /\ r = content_set_error(content_broadcast_error(f))
      /\ f \in Page /\ f.child = kids /\ ~f.box
      /\ f.ll = c.ll /\ f.active = c.active /\ f.paused = c.paused
      /\ f.parse_completed = c.parse_completed /\ f.aborted = c.aborted
      /\ f.select_ctx = c.select_ctx /\ f.sched = c.sched
      /\ f.destroyed = c.destroyed /\ f.fault = c.fault
  BY <1>0, <1>1, <1>2, <1>3 DEF Page
<1> HIDE DEF f
<1>5. /\ r \in Page /\ r.child = kids /\ r.status = "ERROR" /\ ~r.locked /\ ~r.users /\ ~r.box
      /\ r.ll = c.ll /\ r.active = c.active /\ r.paused = c.paused
      /\ r.parse_completed = c.parse_completed /\ r.aborted = c.aborted
      /\ r.select_ctx = c.select_ctx /\ r.sched = c.sched
      /\ r.destroyed = c.destroyed /\ r.fault = c.fault
  BY <1>4, FailedFacts DEF Failed
<1>6. Fetching(r) = {}
  <2>1. \A x \in Children : x \in Fetching(c) => x \in S
    BY <1>0, <1>1, KindFacts DEF Inv, Ready, Fetching, Held
  <2>2. \A x \in Fetching(r) : x \in Fetching(c) /\ x \notin S
    BY <1>3, <1>5 DEF Fetching
  <2> QED  BY <2>1, <2>2, FetchingFacts
<1> HIDE DEF S
<1>7. Phases(r)
  BY <1>0, <1>5 DEF Inv, Phases
<1>8. Spent(r)
  BY <1>0, <1>3, <1>5, <1>6, KindFacts DEF Inv, Ready, Spent
<1>9. Counted(r) /\ Dead(r)
  <2>1. c.active >= Cardinality(Fetching(c)) /\ Cardinality(Fetching(c)) \in Nat /\ c.active \in Int
    BY <1>0, FetchingFacts DEF Inv, Counted, Own, Page
  <2>2. Cardinality(Fetching(r)) = 0 /\ Own(r) = 0
    BY <1>0, <1>5, <1>6, FetchingFacts DEF Own
  <2> QED  BY <1>5, <1>8, <2>1, <2>2 DEF Counted, Dead
<1>10. Ready(r) /\ Marked(r)
  BY <1>3, <1>5, <1>6, KindFacts DEF Inv, Ready, Marked
<1>11. Pausing(r)
  <2>1. \A x \in Scripts : x \notin Fetching(c)
    BY <1>0 DEF Inv, Ready
  <2>2. \A x \in Scripts : c.child[x].type = "SYNC" => c.child[x].started
    BY <1>0, <2>1 DEF Inv, Pausing
  <2>3. \A x \in Scripts : r.child[x].type = "SYNC" => r.child[x].started
    BY <1>3, <1>5, <2>2, KindFacts
  <2>4. r.parse_completed /\ ~r.paused
    BY <1>0, <1>5 DEF Inv, Ready
  <2> QED  BY <1>0, <1>5, <1>6, <2>3, <2>4 DEF Pausing
<1>12. Met(r)
  <2>1. \A x \in Children : Kind[x] = "quirks" => x \notin Boxed
    BY DEF Boxed
  <2> QED  BY <1>0, <1>3, <1>5, <2>1 DEF Inv, Met
<1>13. Waits(r)
  BY <1>5 DEF Waits
<1> QED  BY <1>5, <1>7, <1>9, <1>10, <1>11, <1>12, <1>13 DEF Inv

\* A box is made for the object x, whose fetch begins or cannot be started.
LEMMA ObjectMetKeeps ==
    ASSUME Inv(c), c.box, NEW x \in Boxed, c.child[x].state = "none",
           NEW s \in {"loading", "failed"},
           NEW n, n = IF s = "loading" THEN c.active + 1 ELSE c.active,
           NEW p, Moved(c, p, x, s, n)
    PROVE  Inv(p) /\ Waits(p)
<1>0. /\ c \in Page /\ c.status = "LOADING" /\ c.locked /\ c.select_ctx /\ ~c.destroyed
      /\ c.ll = "done" /\ c.active \in Int /\ x \in Children /\ x \notin Fetching(c)
  BY KindFacts DEF Inv, Phases, Page, Fetching
<1>1. Fetching(p) = IF s = "loading" THEN Fetching(c) \cup {x} ELSE Fetching(c)
  BY <1>0 DEF Moved, Fetching
<1>2. c.active = 0 + Cardinality(Fetching(c)) /\ Cardinality(Fetching(c)) \in Nat
  BY <1>0, FetchingFacts DEF Inv, Counted, Own
<1>3. p.active = Cardinality(Fetching(p)) /\ Cardinality(Fetching(p)) \in Nat
  <2>1. CASE s = "loading"
    <3>1. Cardinality(Fetching(c) \cup {x}) = Cardinality(Fetching(c)) + 1
      BY <1>0, FetchingFacts, FS_AddElement
    <3> QED  BY <1>0, <1>1, <1>2, <2>1, <3>1, FetchingFacts DEF Moved
  <2>2. CASE s = "failed"
    BY <1>0, <1>1, <1>2, <2>2, FetchingFacts DEF Moved
  <2> QED  BY <2>1, <2>2
<1>4. Phases(p) /\ Dead(p)
  BY <1>0 DEF Moved, ParserKeeps, Inv, Phases, Dead
<1>5. Counted(p)
  BY <1>0, <1>3 DEF Moved, ParserKeeps, Counted, Own
<1>6. \A y \in Sheets \cup Scripts : y \in Fetching(p) <=> y \in Fetching(c)
  BY <1>1, KindFacts
<1>7. Pausing(p) /\ Ready(p)
  BY <1>0, <1>6, KindFacts DEF Moved, ParserKeeps, Inv, Pausing, Ready
<1>8. Marked(p)
  BY KindFacts DEF Moved, ParserKeeps, Inv, Marked
<1>9. Met(p)
  BY <1>0 DEF Moved, ParserKeeps, Inv, Met
<1>10. Waits(p)
  BY <1>0 DEF Moved, ParserKeeps, Inv, Phases, Waits
<1> QED  BY <1>4, <1>5, <1>7, <1>8, <1>9, <1>10 DEF Inv, Moved

\* The boxes are made and the page is shown.
LEMMA BoxReadyKeeps ==
    ASSUME Inv(c), c.box, ~c.aborted,
           NEW r, r = [c EXCEPT !.box = FALSE, !.locked = FALSE, !.status = "READY"]
    PROVE  Inv(r) /\ r.select_ctx /\ ~r.destroyed
<1>0. /\ c \in Page /\ c.status = "LOADING" /\ c.locked /\ c.select_ctx /\ ~c.destroyed
      /\ c.ll = "done" /\ ~c.fault
  BY DEF Inv, Phases
<1>3. /\ r \in Page /\ r.child = c.child /\ r.status = "READY" /\ ~r.locked /\ ~r.box
      /\ r.users = c.users /\ r.ll = c.ll /\ r.active = c.active /\ r.paused = c.paused
      /\ r.parse_completed = c.parse_completed /\ r.aborted = c.aborted
      /\ r.select_ctx = c.select_ctx /\ r.sched = c.sched
      /\ r.destroyed = c.destroyed /\ r.fault = c.fault
  BY <1>0 DEF Page
<1>4. Fetching(r) = Fetching(c)
  BY <1>3 DEF Fetching
<1>5. Phases(r) /\ Dead(r)
  BY <1>0, <1>3 DEF Inv, Phases, Dead
<1>6. Counted(r)
  BY <1>0, <1>3, <1>4 DEF Inv, Counted, Own
<1>7. Pausing(r) /\ Ready(r) /\ Marked(r) /\ Met(r)
  <2>1. Pausing(r)
    BY <1>3, <1>4 DEF Inv, Pausing
  <2>2. Ready(r) /\ Marked(r) /\ Met(r)
    BY <1>3, <1>4 DEF Inv, Ready, Marked, Met
  <2> QED  BY <2>1, <2>2
<1> QED  BY <1>0, <1>3, <1>5, <1>6, <1>7 DEF Inv

LEMMA BoxDoneKeeps ==
    ASSUME Inv(c), c.box, NEW success \in BOOLEAN, NEW r, r = html_box_convert_done(c, success)
    PROVE  Inv(r) /\ Waits(r)
<1> DEFINE q == [c EXCEPT !.box = FALSE]
<1>1. q.aborted = c.aborted
  BY DEF Inv, Page
<1>2. CASE ~success \/ c.aborted
  <2>1. r = content_set_error(content_broadcast_error(html_object_free_objects(q)))
    BY <1>1, <1>2 DEF html_box_convert_done
  <2> QED  BY <2>1, BoxFailedKeeps
<1>3. CASE ~(~success \/ c.aborted)
  <2>1. r = html_proceed_to_done(content_set_ready(q))
    BY <1>1, <1>3 DEF html_box_convert_done
  <2>2. c \in Page /\ c.locked
    BY DEF Inv, Phases
  <2>3. Assert(q, q.locked) = q
    <3>1. q \in Page /\ q.locked
      BY <2>2 DEF Page
    <3> HIDE DEF q
    <3> QED  BY <3>1 DEF Page, Assert
  <2> DEFINE w == [c EXCEPT !.box = FALSE, !.locked = FALSE, !.status = "READY"]
  <2>4. content_set_ready(q) = w
    BY <2>3 DEF content_set_ready
  <2>5. Inv(w) /\ w.select_ctx /\ ~w.destroyed
    BY <1>3, BoxReadyKeeps
  <2> HIDE DEF w
  <2> QED  BY <2>1, <2>4, <2>5, ProceedKeeps
<1> QED  BY <1>2, <1>3

LEMMA BoxStepKeeps ==
    ASSUME Inv(c), convert_xml_to_box
    PROVE  Inv(c') /\ Waits(c')
<1>0. c.box /\ c \in Page /\ ~c.destroyed /\ ~c.fault /\ c.active \in Int
  BY DEF convert_xml_to_box, Inv, Phases, Page
<1>4. Assert(c, ~c.destroyed) = c
  BY <1>0 DEF Assert, Page
<1>1. \/ \E x \in Boxed : \E s \in {"loading", "failed"} :
            c.child[x].state = "none" /\ c' = html_fetch_object(c, x, s)
      \/ c' = html_box_convert_done(c, FALSE)
      \/ c' = html_box_convert_done(c, TRUE)
  BY <1>4 DEF convert_xml_to_box
<1>2. CASE c' = html_box_convert_done(c, FALSE) \/ c' = html_box_convert_done(c, TRUE)
  BY <1>0, <1>2, BoxDoneKeeps
<1>3. ASSUME NEW x \in Boxed, NEW s \in {"loading", "failed"}, c.child[x].state = "none",
             c' = html_fetch_object(c, x, s)
      PROVE  Inv(c') /\ Waits(c')
  <2> DEFINE n == IF s = "loading" THEN c.active + 1 ELSE c.active
  <2>1. c' = Move(c, x, s, n)
    BY <1>3 DEF Move, html_fetch_object
  <2>2. n \in Int /\ s \in States /\ x \in Children
    BY <1>0, KindFacts DEF States
  <2> HIDE DEF n
  <2>3. Moved(c, c', x, s, n)
    BY <1>0, <2>1, <2>2, MovedFacts
  <2>4. n = IF s = "loading" THEN c.active + 1 ELSE c.active
    BY DEF n
  <2> QED  BY <1>0, <1>3, <2>3, <2>4, ObjectMetKeeps
<1> QED  BY <1>1, <1>2, <1>3

-----------------------------------------------------------------------------
(* The users of the page.                                                   *)

LEMMA ReleaseKeeps ==
    ASSUME Inv(c), Release
    PROVE  Inv(c') /\ (Waits(c) => Waits(c'))
<1>1. c' = content_broadcast_error(c)
  BY DEF Release, content_broadcast_error
<1> QED  BY <1>1, LeftKeeps

Replace(p, k, n) == [p EXCEPT !.child = k, !.active = n]

Replaced(p, q, k, n) ==
    /\ q \in Page /\ q.child = k /\ q.active = n /\ ParserKeeps(p, q)
    /\ q.users = p.users /\ q.paused = p.paused /\ q.sched = p.sched

LEMMA ReplacedFacts ==
    ASSUME NEW p \in Page, NEW k, k \in [Children -> ChildRecord], NEW n \in Int
    PROVE  Replaced(p, Replace(p, k, n), k, n)
<1> DEFINE q == Replace(p, k, n)
<1>1. q \in Page /\ q.child = k /\ q.active = n
  BY DEF Page, Replace
<1>2. ParserKeeps(p, q) /\ q.users = p.users /\ q.paused = p.paused /\ q.sched = p.sched
  BY DEF Page, ParserKeeps, Replace
<1> QED  BY <1>1, <1>2 DEF Replaced

\* A page that is shown loses all its fetches when it is stopped.
LEMMA AbortObjectsKeeps ==
    ASSUME Inv(c), c.status = "READY", c.users,
           NEW r, r = html_object_abort_objects(c)
    PROVE  Inv(r) /\ r.select_ctx /\ ~r.destroyed /\ r.ll = "done"
<1> DEFINE ready == {x \in Boxed : c.child[x].state = "ready"}
           loading == {x \in Boxed : c.child[x].state = "loading"}
           kids == [x \in Children |->
                      IF x \in ready \cup loading
                      THEN [c.child[x] EXCEPT !.state = IF x \in ready THEN "done" ELSE "failed"]
                      ELSE c.child[x]]
           n == c.active - Cardinality(ready \cup loading)
           q == [c EXCEPT !.child = kids, !.active = n]
<1>0. c \in Page /\ c.select_ctx /\ ~c.destroyed /\ c.ll = "done" /\ ~c.fault /\ c.active \in Int
  BY DEF Inv, Phases, Page
<1>1. r = IF ready = {} THEN q ELSE AllArrived(q)
  BY DEF html_object_abort_objects
<1>2. ready \cup loading = Fetching(c)
  BY <1>0, KindFacts DEF Inv, Ready, Fetching
<1>3. n = 0
  <2>1. c.active = 0 + Cardinality(Fetching(c))
    BY <1>0 DEF Inv, Counted, Own
  <2>2. Cardinality(Fetching(c)) \in Nat
    BY FetchingFacts
  <2>3. n = c.active - Cardinality(Fetching(c))
    BY <1>2
  <2> HIDE DEF n
  <2> QED  BY <2>1, <2>2, <2>3
<1>4. \A x \in Children : /\ kids[x] \in ChildRecord
                          /\ kids[x].state = IF x \in Fetching(c)
                                THEN (IF x \in ready THEN "done" ELSE "failed") ELSE c.child[x].state
                          /\ kids[x].type = c.child[x].type
                          /\ kids[x].started = c.child[x].started
                          /\ kids[x].modified = c.child[x].modified
  <2> SUFFICES ASSUME NEW x \in Children
               PROVE  /\ kids[x] \in ChildRecord
                      /\ kids[x].state = IF x \in Fetching(c)
                            THEN (IF x \in ready THEN "done" ELSE "failed") ELSE c.child[x].state
                      /\ kids[x].type = c.child[x].type
                      /\ kids[x].started = c.child[x].started
                      /\ kids[x].modified = c.child[x].modified
    OBVIOUS
  <2> DEFINE st == IF x \in ready THEN "done" ELSE "failed"
  <2>1. c.child[x] \in ChildRecord /\ st \in States
    BY <1>0 DEF Page, States
  <2>2. kids[x] = IF x \in Fetching(c) THEN [c.child[x] EXCEPT !.state = st] ELSE c.child[x]
    BY <1>2
  <2> HIDE DEF kids, ready, st
  <2>3. CASE x \in Fetching(c)
    <3>1. kids[x] = [c.child[x] EXCEPT !.state = st]
      BY <2>2, <2>3
    <3>2. kids[x] \in ChildRecord /\ kids[x].state = st /\ kids[x].type = c.child[x].type
          /\ kids[x].started = c.child[x].started /\ kids[x].modified = c.child[x].modified
      BY <2>1, <3>1 DEF ChildRecord
    <3> QED  BY <2>3, <3>2 DEF st
  <2>4. CASE x \notin Fetching(c)
    BY <2>1, <2>2, <2>4
  <2> QED  BY <2>3, <2>4
<1>5. kids \in [Children -> ChildRecord]
  BY <1>4
<1> HIDE DEF kids, n, ready, loading
<1>6. /\ q \in Page /\ q.child = kids /\ q.active = 0 /\ ParserKeeps(c, q)
      /\ q.users = c.users /\ q.paused = c.paused /\ q.sched = c.sched
  <2>1. q = Replace(c, kids, n) /\ n \in Int
    BY <1>3 DEF Replace
  <2> HIDE DEF q
  <2>2. Replaced(c, q, kids, n)
    BY <1>0, <1>5, <2>1, ReplacedFacts
  <2> QED  BY <1>3, <2>2 DEF Replaced
<1> HIDE DEF q
<1>7. Fetching(q) = {}
  BY <1>4, <1>6 DEF Fetching
<1>8. Phases(q) /\ Dead(q)
  BY <1>0, <1>6 DEF Inv, Phases, Dead, ParserKeeps
<1>9. Counted(q)
  <2>1. Cardinality(Fetching(q)) = 0 /\ Own(q) = 0
    BY <1>0, <1>6, <1>7, FetchingFacts DEF Own, ParserKeeps
  <2> QED  BY <1>6, <2>1 DEF Counted
<1>10. Ready(q) /\ Marked(q)
  BY <1>4, <1>6, <1>7, KindFacts DEF Inv, Ready, Marked, ParserKeeps
<1>11. Pausing(q)
  <2>1. \A x \in Scripts : c.child[x].type = "SYNC" => c.child[x].started
    BY <1>0 DEF Inv, Ready, Pausing
  <2>2. \A x \in Scripts : q.child[x].type = "SYNC" => q.child[x].started
    BY <1>4, <1>6, <2>1, KindFacts
  <2>3. q.parse_completed /\ ~q.paused /\ q.ll = "done"
    BY <1>0, <1>6 DEF Inv, Ready, ParserKeeps
  <2> QED  BY <1>7, <2>2, <2>3 DEF Pausing
<1>12. Met(q)
  BY <1>0, <1>6 DEF Inv, Met, ParserKeeps
<1>13. Inv(q) /\ q.select_ctx /\ ~q.destroyed /\ q.ll = "done"
  BY <1>0, <1>6, <1>8, <1>9, <1>10, <1>11, <1>12 DEF Inv, ParserKeeps
<1> QED  BY <1>1, <1>13, ProceedKeeps

LEMMA AbortKeeps ==
    ASSUME Inv(c), content_abort
    PROVE  Inv(c') /\ (Waits(c) => Waits(c'))
<1> DEFINE s == html_stop(c)
<1>0. c.users /\ c.status # "ERROR" /\ c \in Page /\ ~c.destroyed
  BY DEF content_abort, Inv, Phases
<1>1. c' = [s EXCEPT !.ll = IF @ = "open" THEN "aborted" ELSE @]
  BY DEF content_abort
<1>2. CASE c.status = "LOADING"
  <2>1. s = [c EXCEPT !.aborted = TRUE]
    BY <1>2 DEF html_stop
  <2>2. /\ s \in Page /\ s.child = c.child /\ s.status = c.status /\ s.locked = c.locked
        /\ s.box = c.box /\ s.users = c.users /\ s.ll = c.ll /\ s.active = c.active
        /\ s.paused = c.paused /\ s.parse_completed = c.parse_completed
        /\ s.select_ctx = c.select_ctx /\ s.sched = c.sched
        /\ s.destroyed = c.destroyed /\ s.fault = c.fault
    BY <1>0, <2>1 DEF Page
  <2> HIDE DEF s
  <2>3. /\ c' \in Page /\ c'.child = c.child /\ c'.status = c.status /\ c'.locked = c.locked
        /\ c'.box = c.box /\ c'.users = c.users
        /\ c'.ll = (IF c.ll = "open" THEN "aborted" ELSE c.ll) /\ c'.active = c.active
        /\ c'.paused = c.paused /\ c'.parse_completed = c.parse_completed
        /\ c'.select_ctx = c.select_ctx /\ c'.sched = c.sched
        /\ c'.destroyed = c.destroyed /\ c'.fault = c.fault
    BY <1>1, <2>2 DEF Page
  <2>4. Fetching(c') = Fetching(c) /\ (c'.ll = "done" <=> c.ll = "done")
    BY <2>3 DEF Fetching
  <2>5. Phases(c') /\ Dead(c')
    BY <1>0, <1>2, <2>3, <2>4 DEF Inv, Phases, Dead
  <2>6. Counted(c')
    BY <2>3, <2>4 DEF Inv, Counted, Own
  <2>7. Pausing(c') /\ Ready(c') /\ Marked(c') /\ Met(c')
    BY <2>3, <2>4 DEF Inv, Pausing, Ready, Marked, Met
  <2>8. Waits(c) => Waits(c')
    BY <2>3, <2>4 DEF Waits
  <2> QED  BY <2>3, <2>5, <2>6, <2>7, <2>8 DEF Inv
<1>3. CASE c.status = "READY"
  <2> DEFINE a == html_object_abort_objects(c)
  <2>1. s = html_proceed_to_done(a)
    BY <1>3 DEF html_stop
  <2>2. Inv(a) /\ a.select_ctx /\ ~a.destroyed /\ a.ll = "done"
    BY <1>0, <1>3, AbortObjectsKeeps
  <2> HIDE DEF a
  <2>3. Inv(s) /\ Waits(s) /\ s.ll = "done"
    BY <2>1, <2>2, ProceedKeeps
  <2> HIDE DEF s
  <2>4. c' = s
    BY <1>1, <2>3 DEF Inv, Page
  <2> QED  BY <2>3, <2>4
<1>4. CASE c.status = "DONE"
  <2>1. s = c /\ c.ll = "done"
    BY <1>4 DEF html_stop, Inv, Phases
  <2>2. c' = c
    BY <1>0, <1>1, <2>1 DEF Page
  <2> QED  BY <2>2
<1> QED  BY <1>0, <1>2, <1>3, <1>4 DEF Page

LEMMA CleanKeeps ==
    ASSUME Inv(c), hlcache_clean
    PROVE  Inv(c') /\ Waits(c')
<1> DEFINE S == Held(c)
           kids == LetGo(c, S)
<1>0. /\ ~c.users /\ ~c.destroyed /\ c.status # "LOADING" /\ ~c.locked /\ c \in Page
      /\ c' = content_destroy(c)
  BY DEF hlcache_clean, Inv, Phases
<1>1. Assert(c, ~c.locked) = c
  BY <1>0 DEF Assert, Page
<1>2. html_object_free_objects(c) = [c EXCEPT !.child = LetGo(c, Boxed \cap Held(c))]
  BY DEF html_object_free_objects, LetGo
<1> DEFINE b == LetGo(c, Boxed \cap Held(c))
           d == [x \in Children |-> IF x \in Sheets \cup Scripts /\ x \in Held(c)
                                    THEN [b[x] EXCEPT !.state = "failed"] ELSE b[x]]
<1>3. c' = [[c EXCEPT !.child = b] EXCEPT
              !.box = FALSE, !.sched = FALSE, !.destroyed = TRUE, !.child = d]
  <2>1. c' = html_destroy(c)
    BY <1>0, <1>1 DEF content_destroy
  <2>2. [c EXCEPT !.child = b].child = b
    BY <1>0 DEF Page
  <2> QED  BY <1>2, <2>1, <2>2 DEF html_destroy
<1>4. d = kids
  <2>1. \A x \in Children : d[x] = kids[x]
    BY KindFacts DEF LetGo
  <2> QED  BY <2>1 DEF LetGo
<1>5. LetGone(c, kids, S)
  BY <1>0, LetGoFacts
<1> HIDE DEF b, d, kids, S
<1>6. /\ c' \in Page /\ c'.child = kids /\ ~c'.box /\ ~c'.sched /\ c'.destroyed
      /\ c'.status = c.status /\ c'.locked = c.locked /\ c'.users = c.users /\ c'.ll = c.ll
      /\ c'.active = c.active /\ c'.paused = c.paused /\ c'.parse_completed = c.parse_completed
      /\ c'.aborted = c.aborted /\ c'.select_ctx = c.select_ctx /\ c'.fault = c.fault
  BY <1>0, <1>3, <1>4, <1>5 DEF Page, LetGone
<1>7. Fetching(c') = {}
  BY <1>5, <1>6 DEF Fetching, LetGone, Held, S
<1>8. Phases(c')
  BY <1>0, <1>6, <1>7 DEF Inv, Phases
<1>9. c.active \in Int /\ Cardinality(Fetching(c)) \in Nat /\ Cardinality(Fetching(c')) = 0
  BY <1>0, <1>7, FetchingFacts DEF Page
<1>10. Counted(c')
  BY <1>0, <1>6, <1>9 DEF Inv, Counted, Own
<1>11. Dead(c')
  <2>1. Spent(c) => Spent(c')
    BY <1>5, <1>6, <1>7, KindFacts DEF Spent, LetGone
  <2> QED  BY <1>0, <1>6, <1>9, <2>1 DEF Inv, Dead
<1>12. Pausing(c')
  BY <1>6, <1>7 DEF Inv, Pausing
<1>13. Ready(c') /\ Marked(c')
  BY <1>5, <1>6, <1>7, KindFacts DEF Inv, Ready, Marked, LetGone
<1>14. Met(c')
  <2>1. \A x \in Children : kids[x].state # "none" => c.child[x].state # "none"
    BY <1>5 DEF LetGone, S, Held
  <2> QED  BY <1>6, <2>1, KindFacts DEF Inv, Met
<1>15. Waits(c')
  BY <1>0, <1>6 DEF Waits
<1> QED  BY <1>6, <1>8, <1>10, <1>11, <1>12, <1>13, <1>14, <1>15 DEF Inv

-----------------------------------------------------------------------------
(* The theorems.                                                            *)

LEMMA NextKeeps ==
    ASSUME Inv(c), [Next]_c
    PROVE  /\ Inv(c')
           /\ Empty = {} /\ "forms" \notin Failures /\ Waits(c) => Waits(c')
<1>1. CASE UNCHANGED c
  BY <1>1
<1>2. CASE LLCACHE_EVENT_HAD_DATA
  BY <1>2, HadDataKeeps
<1>3. CASE LLCACHE_EVENT_DONE
  BY <1>3, DoneEventKeeps
<1>4. CASE LLCACHE_EVENT_ERROR
  BY <1>4, ErrorEventKeeps
<1>5. CASE \E x \in Children : ChildEnds(x)
  BY <1>5, ChildEndsKeeps
<1>6. CASE \E x \in Children : ObjectReady(x)
  BY <1>6, ObjectReadyKeeps
<1>7. CASE html_css_process_modified_styles
  BY <1>7, StylesKeeps
<1>8. CASE convert_xml_to_box
  BY <1>8, BoxStepKeeps
<1>9. CASE content_abort
  BY <1>9, AbortKeeps
<1>10. CASE Release
  BY <1>10, ReleaseKeeps
<1>11. CASE hlcache_clean
  BY <1>11, CleanKeeps
<1> QED  BY <1>1, <1>2, <1>3, <1>4, <1>5, <1>6, <1>7, <1>8, <1>9, <1>10, <1>11 DEF Next

\* The inductive invariant holds in every state.
LEMMA Invariance == Spec => []Inv(c)
<1>1. Init => Inv(c)
  BY InitInv
<1>2. Inv(c) /\ [Next]_c => Inv(c)'
  BY NextKeeps
<1> QED  BY <1>1, <1>2, PTL DEF Spec

(* Every field has its type for any set of children, and base.active, which *)
(* is unsigned in the code, never goes below zero: no end of a fetch is     *)
(* counted twice, and none that was not counted when it began.              *)
THEOREM HtmlTyping == Spec => []HtmlTypeOK
<1>1. Inv(c) => HtmlTypeOK
  <2> SUFFICES ASSUME Inv(c) PROVE HtmlTypeOK
    OBVIOUS
  <2>1. c.active \in Nat
    BY FetchingFacts DEF Inv, Page, Counted, Own
  <2> QED  BY <2>1 DEF Inv, Page, HtmlTypeOK
<1> QED  BY <1>1, Invariance, PTL

(* No assertion of content.c or html.c fails and no callback runs for a     *)
(* page that has been destroyed, for any set of children and whichever of   *)
(* the failures the code handles can happen.                                *)
THEOREM PageNeverFaults == Spec => []NoFault
<1>1. Inv(c) => NoFault
  BY DEF Inv, Phases, NoFault
<1> QED  BY <1>1, Invariance, PTL

(* base.active is exactly the number of fetches in progress.                *)
THEOREM FetchesCounted == Spec => []ActiveExact
<1>1. Inv(c) => ActiveExact
  BY DEF Inv, Counted, Own, ActiveExact
<1> QED  BY <1>1, Invariance, PTL

(* Boxes are made of complete stylesheets: html_finish_conversion() makes   *)
(* the selection context only when the parse is complete, no stylesheet or  *)
(* script is being fetched and no inline stylesheet has changed, and none   *)
(* of this becomes untrue afterwards.                                       *)
THEOREM BoxesComeLast == Spec => []SheetsBeforeBoxes
<1>1. Inv(c) => SheetsBeforeBoxes
  BY DEF Inv, Ready, SheetsBeforeBoxes
<1> QED  BY <1>1, Invariance, PTL

(* A page that html_stop() was called for while it was loading never        *)
(* becomes READY or DONE.                                                   *)
THEOREM StoppedNeverShown == Spec => []StoppedIsNotShown
<1>1. Inv(c) => StoppedIsNotShown
  BY DEF Inv, Phases, Page, StoppedIsNotShown
<1> QED  BY <1>1, Invariance, PTL

(* A page always waits for something that will call it again, if no inline  *)
(* stylesheet is empty and no form has a bad action.  Both conditions are   *)
(* needed: the run html_empty_style shows the first case, and a callback    *)
(* that begins the conversion ignores the failure of a form (Refused).      *)
THEOREM AlwaysCalledAgain ==
    ASSUME Empty = {}, "forms" \notin Failures
    PROVE  Spec => []NeverStranded
<1>1. Init => Inv(c) /\ Waits(c)
  BY InitInv
<1>2. Inv(c) /\ Waits(c) /\ [Next]_c => (Inv(c) /\ Waits(c))'
  BY NextKeeps
<1>3. Waits(c) => NeverStranded
  BY DEF Waits, NeverStranded
<1> QED  BY <1>1, <1>2, <1>3, PTL DEF Spec

=============================================================================
