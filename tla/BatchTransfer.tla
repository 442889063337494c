---------------------------- MODULE BatchTransfer ----------------------------
(***************************************************************************)
(* A list that is passed through one mmap slot in batches: the service     *)
(* (libsrv_batch.c) copies a batch out of the slot and asks the client for *)
(* the next with an ioctl, sorts the whole list, and hands the result back *)
(* batch by batch in the same way.                                         *)
(*                                                                         *)
(* The bound of both loops is sr->batch_size, which the daemon clears with *)
(* the rest of the service's request and does not fill in.  The sort itself *)
(* is that of RadixSort.                                                   *)
(***************************************************************************)
EXTENDS Integers, Sequences, SequencesExt, FiniteSets

CONSTANTS
  MAXBATCH,     \* _MAX_BATCH_SIZE
  Sizes,        \* list sizes clients ask for
  Keys

VARIABLES
  batchPc,    \* where client and service are
  size,       \* mmap_size
  batchSize,  \* batch_size of the service's request
  batchSlot,  \* the shared slot
  batchKeys,  \* hKeys, the service's copy of the list
  dKeys,      \* the list on the device
  turn, offset, \* i and offset of the two copying loops
  results     \* history: the slot at each call of batch_data_result

batchVars == <<batchPc, size, batchSize, batchSlot, batchKeys, dKeys, turn, offset, results>>

\* What malloc left in the list.
Unset == -1

\* The list in order, each element as often as in s.
Permuted(s) ==
  {[x \in DOMAIN s |-> s[p[x]]] : p \in {p \in [DOMAIN s -> DOMAIN s] : IsInjective(p)}}

Sorted(s) == CHOOSE t \in Permuted(s) : \A x, y \in DOMAIN s : x <= y => t[x] <= t[y]

BatchInit ==
  /\ batchPc = "idle" /\ size = 0 /\ batchSize = 0
  /\ batchSlot = <<>> /\ batchKeys = <<>> /\ dKeys = <<>>
  /\ turn = 0 /\ offset = 0 /\ results = <<>>

\* The number of batches that qhgpu_alloc_request computes.
RequestBatches(n) ==
  IF n % MAXBATCH = 0 THEN n \div MAXBATCH ELSE (n \div MAXBATCH) + 1

CpySize ==
  LET last == size % MAXBATCH
  IN  IF batchSize = turn + 1 /\ last # 0 THEN last ELSE MAXBATCH

\* The client allocates, fills the slot and calls.
Call(n) ==
  /\ batchPc = "idle"
  /\ batchPc' = "called" /\ size' = n
  /\ \E keys \in [1 .. n -> Keys] : batchSlot' = keys
  /\ UNCHANGED <<batchSize, batchKeys, dKeys, turn, offset, results>>

\* The daemon makes the service's request, without batch_size, and launches it.
BatchLaunch ==
  /\ batchPc = "called"
  /\ batchSize' = 0
  /\ batchKeys' = [x \in 1 .. size |-> Unset]
  /\ batchPc' = "in" /\ turn' = 0 /\ offset' = 0
  /\ UNCHANGED <<size, batchSlot, dKeys, results>>

\* memcpy: k elements of from, taken after f, go to to after t.
Copy(to, t, from, f, k) ==
  [x \in DOMAIN to |-> IF x \in t + 1 .. t + k THEN from[x - t + f] ELSE to[x]]

CopyIn ==
  /\ batchPc = "in" /\ turn < batchSize
  /\ batchKeys' = Copy(batchKeys, offset, batchSlot, 0, CpySize)
  /\ offset' = offset + CpySize
  /\ turn' = turn + 1
  /\ batchPc' = IF turn + 1 # batchSize THEN "load" ELSE "in"
  /\ UNCHANGED <<size, batchSize, batchSlot, dKeys, results>>

\* QHGPU_IOC_BATCH_H2D: batch_data_loader fills the whole slot again.
BatchH2D ==
  /\ batchPc = "load"
  /\ \E keys \in [1 .. size -> Keys] : batchSlot' = keys
  /\ batchPc' = "in"
  /\ UNCHANGED <<size, batchSize, batchKeys, dKeys, turn, offset, results>>

\* init_cl_radix_sort copies the list to the device.
SortInit ==
  /\ batchPc = "in" /\ turn = batchSize
  /\ dKeys' = batchKeys
  /\ batchPc' = "sort"
  /\ UNCHANGED <<size, batchSize, batchSlot, batchKeys, turn, offset, results>>

\* cl_radix_sort, as RadixSort shows it to work.
SortKeys ==
  /\ batchPc = "sort"
  /\ dKeys' = Sorted(dKeys)
  /\ batchPc' = "recup"
  /\ UNCHANGED <<size, batchSize, batchSlot, batchKeys, turn, offset, results>>

SortRecup ==
  /\ batchPc = "recup"
  /\ batchKeys' = dKeys
  /\ batchPc' = "out" /\ turn' = 0 /\ offset' = 0
  /\ UNCHANGED <<size, batchSize, batchSlot, dKeys, results>>

CopyOut ==
  /\ batchPc = "out" /\ turn < batchSize
  /\ batchSlot' = Copy(batchSlot, 0, batchKeys, offset, CpySize)
  /\ offset' = offset + CpySize
  /\ batchPc' = "result"
  /\ UNCHANGED <<size, batchSize, batchKeys, dKeys, turn, results>>

\* QHGPU_IOC_BATCH_D2H: batch_data_result looks at the slot.
BatchD2H ==
  /\ batchPc = "result"
  /\ results' = Append(results, batchSlot)
  /\ turn' = turn + 1 /\ batchPc' = "out"
  /\ UNCHANGED <<size, batchSize, batchSlot, batchKeys, dKeys, offset>>

\* The launch returns, and the answer ends the client's call.
BatchReturns ==
  /\ batchPc = "out" /\ turn = batchSize
  /\ batchPc' = "done"
  /\ UNCHANGED <<size, batchSize, batchSlot, batchKeys, dKeys, turn, offset, results>>

Service ==
  \/ BatchLaunch \/ CopyIn \/ BatchH2D \/ SortInit \/ SortKeys \/ SortRecup
  \/ CopyOut \/ BatchD2H \/ BatchReturns

BatchNext == (\E n \in Sizes : Call(n)) \/ Service

\* The service runs in a thread that the daemon waits for.
BatchSpec == BatchInit /\ [][BatchNext]_batchVars /\ WF_batchVars(Service)

-----------------------------------------------------------------------------
(* Properties                                                              *)

\* Every batch that the client's request has is handed back before the call returns.
EveryBatchReturned == batchPc = "done" => Len(results) = RequestBatches(size)
=============================================================================
