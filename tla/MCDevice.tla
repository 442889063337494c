------------------------------ MODULE MCDevice ------------------------------
(* Small instances of QhgpuDevice: clients and items are interchangeable.   *)
EXTENDS QhgpuDevice

MCSymmetry == Permutations(Clients) \union Permutations(Items)
=============================================================================
