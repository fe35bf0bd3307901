----------------------------- MODULE MCLLCache -----------------------------
(* Instances of LLCache for TLC. *)
EXTENDS LLCache, TLC

Symmetry == Permutations(Objects) \cup Permutations(Users) \cup Permutations(Urls)

Response(n, l, v) == [no_cache |-> n, life |-> l, validator |-> v, req |-> 0]

\* A response that may be reused for a while, and one that must be validated.
Cacheable == { Response("FRESH", TRUE, TRUE), Response("ALWAYS", FALSE, TRUE) }

\* Only the former, and only the latter.
Reusable == { Response("FRESH", TRUE, TRUE) }

Validated == { Response("ALWAYS", FALSE, TRUE) }

\* No action depends on body and trusting: runs that check nothing about
\* them need not tell apart states that differ only there.
View == << [o \in Objects |-> [object[o] EXCEPT !.body = "none"]],
           [u \in Users |-> [user[u] EXCEPT !.trusting = TRUE]],
           cached, uncached, all_caught_up, ctl, fault >>

=============================================================================
