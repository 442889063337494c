------------------------------ MODULE MCMemPool ------------------------------
(* Small instances of MemPool: clients are interchangeable.                 *)
EXTENDS MemPool, TLC

MCSymmetry == Permutations(Clients)
=============================================================================
