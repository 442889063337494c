------------------------------ MODULE MCSystem ------------------------------
(* Small instances of QhgpuSystem: which service each client asks for.      *)
EXTENDS QhgpuSystem

CONSTANTS c1, c2

MCClients == {c1, c2}

SvcOkFlaky   == (c1 :> "ok" @@ c2 :> "flaky")
SvcOkMissing == (c1 :> "ok" @@ c2 :> "missing")

InUse == Cardinality({i \in Items : itemReq[i] # NULL})

\* Bounds of the search: behaviours are followed up to the first lost slot, and
\* after an interrupted wait of c1 as long as its request is the only one and c2
\* has none; or, in one slot, as long as two items are in use at most.
WhileOwned == cause = {} \/ (cause = {"interrupted"} /\ InUse = 1 /\ ~ failed /\ pc[c2] = "idle")
FewAfterSignal == "interrupted" \in cause => InUse <= 2

ItemSymmetry == Permutations(Items) \union Permutations(SrItems)
=============================================================================
