---------------------------- MODULE MCIngestion ----------------------------
(* Small instances of Ingestion for TLC. *)
EXTENDS Ingestion, TLC

CONSTANTS d1, d2, f1, f2, w1, w2, t1, t2, j1, j2

OwnPaths == (d1 :> f1)

=============================================================================
