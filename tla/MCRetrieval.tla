---------------------------- MODULE MCRetrieval ----------------------------
(* Small instances of Retrieval for TLC. *)
EXTENDS Retrieval

CONSTANTS d1, d2, d3, s1, s2, c1, c2

\* d1 and d2 share the text "b", d3 is of another session.
SmallBody == (d1 :> <<"a", "b">>) @@ (d2 :> <<"b", "c">>) @@ (d3 :> <<"a">>)
SmallHome == (d1 :> s1) @@ (d2 :> s1) @@ (d3 :> s2)

SmallTaste ==
    { [sem |-> [a |-> 1, b |-> 2, c |-> 3], words |-> [a |-> 1, b |-> 3, c |-> 2], rerank |-> [a |-> 0, b |-> 0, c |-> 0]],
      [sem |-> [a |-> 2, b |-> 3, c |-> 1], words |-> [a |-> 1, b |-> 2, c |-> 2], rerank |-> [a |-> 3, b |-> 1, c |-> 2]] }

\* What happens after the answer is of no interest.
Unanswered == req.out = "none"

=============================================================================
