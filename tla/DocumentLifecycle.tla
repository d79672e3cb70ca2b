------------------------- MODULE DocumentLifecycle -------------------------
(***************************************************************************)
(* What a client that polls GET /documents/<id>/status is promised: an     *)
(* accepted document is "indexing" until it is "ready" or "failed"; a      *)
(* failed one may be tried again; an indexed one is never "indexing"       *)
(* again; a deleted one never comes back.                                  *)
(***************************************************************************)
CONSTANT Doc
VARIABLE status

Statuses == {"absent", "indexing", "ready", "failed", "gone"}

TypeOK == status \in [Doc -> Statuses]

Init == status = [d \in Doc |-> "absent"]

\* Document d goes from one of the statuses in From to the status "to".
Moves(d, From, to) ==
    /\ status[d] \in From
    /\ status' = [status EXCEPT ![d] = to]

Accept(d)  == Moves(d, {"absent"}, "indexing")
Succeed(d) == Moves(d, {"indexing", "failed"}, "ready")
Fail(d)    == Moves(d, {"indexing", "ready"}, "failed")
TryAgain(d) == Moves(d, {"failed"}, "indexing")
Remove(d)  == Moves(d, {"indexing", "ready", "failed"}, "gone")

Next == \E d \in Doc :
           Accept(d) \/ Succeed(d) \/ Fail(d) \/ TryAgain(d) \/ Remove(d)

Spec == Init /\ [][Next]_status
=============================================================================
