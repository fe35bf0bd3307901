----------------------------- MODULE MCHLCache -----------------------------
(* Instances of HLCache for TLC. *)
EXTENDS HLCache

Count(S, f(_)) == LET seen == {f(x) : x \in S} IN [v \in seen |-> Cardinality({x \in S : f(x) = v})]

Row(h) == LET r == hl.handle[h] IN <<r.used, r.told, r.aborted>>

\* The names of handles, low-level handles and contents mean nothing: a content
\* is its place in the list, a user its place with the content, and whatever is
\* still being retrieved or downloaded is told apart by how far it is.
View ==
    << [i \in DOMAIN hl.content_list |->
            LET c == hl.content[hl.content_list[i]]
            IN <<[c EXCEPT !.users = [j \in DOMAIN @ |-> Row(@[j])], !.ll = NONE], hl.ll[c.ll]>>],
       Count({h \in Handles : hl.handle[h].ctx # NONE}, LAMBDA h : <<Row(h), hl.ll[hl.handle[h].ctx]>>),
       Count({l \in LLs : hl.ll[l].owner = "download"}, LAMBDA l : hl.ll[l]),
       hl.object, hl.fault, Ownership >>

=============================================================================
