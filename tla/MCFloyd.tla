------------------------------- MODULE MCFloyd -------------------------------
(* Every matrix of the given weights with at most one pair not joined by an edge. *)
EXTENDS FloydWarshall
=============================================================================
