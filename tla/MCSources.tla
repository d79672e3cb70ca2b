----------------------------- MODULE MCSources -----------------------------
(* Small instances of Sources for TLC. *)
EXTENDS Sources, TLC

CONSTANTS p1, p2, a, b, n

\* Two sources around a member that is passed over.
ThreeFiles == <<a, n, b>>
ThreeKinds == [f \in {a, b, n} |-> IF f = n THEN "ignored path" ELSE "source"]

\* Bound: after the last event there are no more than two records, and a second
\* sync goes on while no more than one of them is ingested; once two syncs have
\* overlapped an event only follows while there is no more than one record.
Busy == {d \in DOMAIN docs : d \in jobs \/ reading[d] # {}}
Calm == IF overlap THEN events <= 1 \/ (events = 2 /\ Len(docs) <= 1)
                   ELSE events = 3 => Len(docs) <= 2 /\ (starts = 2 => Cardinality(Busy) <= 1)

Symmetry == Permutations(Proc)

=============================================================================
