------------------------------ MODULE BlockPool ------------------------------
(***************************************************************************)
(* What a memory pool promises its clients: a block is a non-empty run of  *)
(* units that nobody else owns, and it stays the client's until the client *)
(* frees it.                                                               *)
(***************************************************************************)
EXTENDS Integers

CONSTANTS
  Clients,  \* those who allocate, one block each
  Units     \* the units of the pool

VARIABLE owned   \* the units of each client's block, {} when it has none

BlockInit == owned = [c \in Clients |-> {}]

Unowned == {u \in Units : \A d \in Clients : u \notin owned[d]}

Alloc(c) ==
  /\ owned[c] = {}
  /\ \E i, j \in Units :
       /\ i <= j
       /\ i .. j \subseteq Unowned
       /\ owned' = [owned EXCEPT ![c] = i .. j]

Free(c) == owned' = [owned EXCEPT ![c] = {}]

BlockNext == \E c \in Clients : Alloc(c) \/ Free(c)

BlockSpec == BlockInit /\ [][BlockNext]_owned
=============================================================================
