----------------------------- MODULE MCServices -----------------------------
(***************************************************************************)
(* Small instances of RadixSort, two without and one with TRANSPOSE, and   *)
(* Bfs.  The daemon launches one service at a time and each keeps its state *)
(* to itself: a behaviour is one of one service.                           *)
(*                                                                         *)
(* Of the lists, three keys do not fill the groups of the sort; of the     *)
(* graphs of four nodes, the list of those with five edges is too long for *)
(* the slot.                                                               *)
(***************************************************************************)
EXTENDS Bfs

VARIABLES
  scene,      \* the service that a behaviour is of
  stage, pass, nkeys, checkKeys, hKeys, inKeys, outKeys, inPermut, outPermut,  \* of the radix sort
  histo, globsum, dtemp, loc, at, log

radixVars == <<stage, pass, nkeys, checkKeys, hKeys, inKeys, outKeys, inPermut, outPermut,
               histo, globsum, dtemp, loc, at, log>>
mcVars == <<scene, radixVars, bfsVars>>

\* Two groups of two work items, passes of one bit.
Plain == INSTANCE RadixSort WITH
  ITEMS <- 2, GROUPS <- 2, HISTOSPLIT <- 2, TOTALBITS <- 3, BITS <- 1, TRANSPOSE <- FALSE,
  TRANSBLOCK <- 2, KERNELITEMS <- 2, Sizes <- {3, 4}, Keys <- {2, 3}

\* Two groups of one work item, passes of two bits.
Wide == INSTANCE RadixSort WITH
  ITEMS <- 1, GROUPS <- 2, HISTOSPLIT <- 2, TOTALBITS <- 4, BITS <- 2, TRANSPOSE <- FALSE,
  TRANSBLOCK <- 2, KERNELITEMS <- 1, Sizes <- {4}, Keys <- {2, 5}

\* One group of two work items, passes of one bit, two tiles to transpose.
Transposed == INSTANCE RadixSort WITH
  ITEMS <- 2, GROUPS <- 1, HISTOSPLIT <- 2, TOTALBITS <- 3, BITS <- 1, TRANSPOSE <- TRUE,
  TRANSBLOCK <- 2, KERNELITEMS <- 2, Sizes <- {8}, Keys <- {1, 2}

ASSUME Plain!RadixAssumption /\ Wide!RadixAssumption /\ Transposed!RadixAssumption

MCInit ==
  /\ scene \in {"plain", "wide", "transposed", "bfs"}
  /\ CASE scene = "transposed" -> Transposed!RadixInit
       [] scene = "wide" -> Wide!RadixInit
       [] OTHER -> Plain!RadixInit
  /\ BfsInit

InPlain(A) == scene = "plain" /\ A /\ UNCHANGED <<scene, bfsVars>>
InWide(A) == scene = "wide" /\ A /\ UNCHANGED <<scene, bfsVars>>
InTransposed(A) == scene = "transposed" /\ A /\ UNCHANGED <<scene, bfsVars>>
InBfs(A) == scene = "bfs" /\ A /\ UNCHANGED <<scene, radixVars>>

MCNext ==
  \/ InPlain(Plain!RadixNext) \/ InWide(Wide!RadixNext) \/ InTransposed(Transposed!RadixNext)
  \/ InBfs(BfsNext)

\* The fairness of each service; the end of a sort is checked for the plain one.
MCSpec ==
  /\ MCInit /\ [][MCNext]_mcVars
  /\ WF_mcVars(InPlain(Plain!Runs))
  /\ WF_mcVars(InBfs(BfsStep))

-----------------------------------------------------------------------------
(* What the services promise, in the words of their modules                *)

Sorts(plain, wide, transposed) ==
  (scene = "plain" => plain) /\ (scene = "wide" => wide) /\ (scene = "transposed" => transposed)

\* Work items of the radix sort's kernels never race.
RaceFree == Sorts(Plain!RaceFree, Wide!RaceFree, Transposed!RaceFree)

\* Scanned and pasted, the histogram says where the keys of each work item go; the
\* passes are stable and carry the permutation along.
StagesExact ==
  /\ Sorts(Plain!RadixTypeOK, Wide!RadixTypeOK, Transposed!RadixTypeOK)
  /\ Sorts(Plain!ScanIsPrefixSum, Wide!ScanIsPrefixSum, Transposed!ScanIsPrefixSum)
  /\ Sorts(Plain!PassesSort, Wide!PassesSort, Transposed!PassesSort)

\* The client's slot is in order and holds the client's keys; for the shorter lists
\* it is also compared with what the client's rxSort computes.
SortReachesClient ==
  /\ Sorts(Plain!SortReachesClient, Wide!SortReachesClient, Transposed!SortReachesClient)
  /\ Sorts(Plain!GpuSortIsCpuSort, Wide!GpuSortIsCpuSort, TRUE)

\* A service that is launched ends, on any schedule of its work items.
ServicesEnd ==
  /\ scene = "plain" /\ stage \notin {"idle", "aborted"} ~> stage = "done"
  /\ SearchEnds
=============================================================================
