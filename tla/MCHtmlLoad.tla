----------------------------- MODULE MCHtmlLoad -----------------------------
(* Children named for their kinds. *)
EXTENDS HtmlLoad

Named == [x \in Children |-> IF x = "object2" THEN "object" ELSE x]
=============================================================================
