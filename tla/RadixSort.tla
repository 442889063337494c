------------------------------ MODULE RadixSort ------------------------------
(***************************************************************************)
(* The radix sort of the sorting services: the host side (cl_radix_sort.c) *)
(* launches kernels (kernel/cl_radix_sort.cl) one after the other and      *)
(* waits for each with clFinish; the work items of a kernel interleave and *)
(* wait for each other only at the barriers of their group.                *)
(*                                                                         *)
(* A step of a work item is what it does between two barriers.  The log of *)
(* accesses is history: RaceFree shows that no finer step could be seen.   *)
(* Local memory starts undefined: a kernel that read a cell before writing *)
(* it would stop TLC.                                                      *)
(*                                                                         *)
(* Left out: timers, profiling and errors of OpenCL, on which every call   *)
(* asserts.                                                                *)
(***************************************************************************)
EXTENDS Integers, FiniteSets, FiniteSetsExt, TLC

CONSTANTS
  ITEMS, GROUPS, HISTOSPLIT, TOTALBITS, BITS, TRANSPOSE, TRANSBLOCK,
  KERNELITEMS,  \* _ITEMS as the kernel file defines it
  Sizes,        \* numbers of keys that clients ask for
  Keys          \* the keys they fill in

RADIX == 2 ^ BITS
PASS == TOTALBITS \div BITS
HISTOSIZE == ITEMS * GROUPS * RADIX
MAXINT == 2 ^ (TOTALBITS - 1)

\* The parameters satisfy what init_cl_radix_sort asserts of them, and the
\* client's keys are num % _MAXINT.
RadixAssumption ==
  /\ TOTALBITS % BITS = 0
  /\ HISTOSIZE % HISTOSPLIT = 0
  /\ HISTOSPLIT % 2 = 0 /\ (HISTOSIZE \div HISTOSPLIT) % 2 = 0
  /\ Keys \subseteq 0 .. MAXINT - 1
  /\ Sizes \subseteq Nat \ {0}

VARIABLES
  stage,      \* where the host is: the kernel it waits for
  pass,       \* the loop variable of cl_radix_sort
  nkeys, checkKeys, hKeys,                 \* host arrays
  inKeys, outKeys, inPermut, outPermut,    \* device buffers
  histo, globsum, dtemp,
  loc,        \* local memory, by group
  at,         \* how many barriers each work item has passed
  log         \* history: the accesses of the running kernel

host == <<stage, pass, nkeys, checkKeys, hKeys>>
keyBuffers == <<inKeys, outKeys, inPermut, outPermut>>
sums == <<histo, globsum, dtemp>>
radixVars == <<host, keyBuffers, sums, loc, at, log>>

Stages == {"idle", "aborted", "transpose", "histogram", "scan", "globscan",
           "paste", "reorder", "back", "recup", "done"}

Vector(S) == [0 .. nkeys - 1 -> S]

RadixTypeOK ==
  /\ stage \in Stages
  /\ pass \in 0 .. PASS
  /\ stage # "idle" =>
       /\ checkKeys \in Vector(Keys) /\ hKeys \in Vector(Keys)
       /\ stage # "aborted" => inKeys \in Vector(Keys) /\ inPermut \in Vector(0 .. nkeys - 1)
  /\ histo \in [0 .. HISTOSIZE - 1 -> -1 .. Max(Sizes)]
  /\ globsum \in [0 .. HISTOSPLIT - 1 -> -1 .. Max(Sizes)]

-----------------------------------------------------------------------------
(* Kernel launches                                                         *)

\* Rows and columns of the matrix that transpose is given.
NbRow == IF stage = "transpose" THEN GROUPS * ITEMS ELSE nkeys \div (GROUPS * ITEMS)
NbCol == IF stage = "transpose" THEN nkeys \div (GROUPS * ITEMS) ELSE GROUPS * ITEMS
Tile == IF NbRow % TRANSBLOCK = 0 /\ NbCol % TRANSBLOCK = 0 THEN TRANSBLOCK ELSE 1

\* nbitems and nblocitems of the launches.
NbItems ==
  CASE stage \in {"histogram", "reorder"} -> GROUPS * ITEMS
    [] stage \in {"scan", "paste"}        -> HISTOSIZE \div 2
    [] stage = "globscan"                 -> HISTOSPLIT \div 2
    [] stage \in {"transpose", "back"}    -> (NbRow \div Tile) * NbCol

NbLocItems ==
  CASE stage \in {"histogram", "reorder"} -> ITEMS
    [] stage \in {"scan", "paste"}        -> (HISTOSIZE \div 2) \div HISTOSPLIT
    [] stage = "globscan"                 -> HISTOSPLIT \div 2
    [] stage \in {"transpose", "back"}    -> Tile

GroupOf(ig) == ig \div NbLocItems
LocalId(ig) == ig % NbLocItems

\* n of scanhistograms, and the number of its sweeps.
ScanSize == 2 * NbLocItems
Sweeps == CHOOSE l \in 0 .. ScanSize : 2 ^ l = ScanSize

Segments ==
  CASE stage = "histogram" -> 3
    [] stage \in {"scan", "globscan"} -> 2 * Sweeps + 2
    [] stage = "paste" -> 1
    [] stage \in {"reorder", "transpose", "back"} -> 2

\* ig is a work item whose next segment is seg, and the barrier before it is
\* complete.
At(ig, seg) ==
  /\ ig \in DOMAIN at /\ at[ig] = seg
  /\ \A o \in DOMAIN at : GroupOf(o) = GroupOf(ig) => at[o] >= seg

Access(ig, reads, writes) ==
  /\ log' = log \union
       {<<ig, at[ig], cell, FALSE>> : cell \in reads} \union
       {<<ig, at[ig], cell, TRUE>> : cell \in writes}
  /\ at' = [at EXCEPT ![ig] = @ + 1]

Local(ig, S) == {<<"loc", GroupOf(ig), x>> : x \in S}
Global(array, S) == {<<array, x>> : x \in S}

WriteLocal(ig, f) == loc' = [loc EXCEPT ![GroupOf(ig)] = f @@ @]

-----------------------------------------------------------------------------
(* histogram                                                               *)

\* The keys of a work item, and where the kernels find the i-th one.
Mine(ig) == LET size == (nkeys \div GROUPS) \div ITEMS IN ig * size .. ig * size + size - 1

Index(i) ==
  IF TRANSPOSE
    THEN LET w == (nkeys \div GROUPS) \div KERNELITEMS
         IN  (i % w) * (GROUPS * KERNELITEMS) + (i \div w)
    ELSE i

Shortkey(key) == (key \div 2 ^ (pass * BITS)) % RADIX

\* Mutant: the work items of a group count in the same cells.
LocalHistoShared(ig) == {ir * ITEMS : ir \in 0 .. RADIX - 1}

LocalHisto(ig) == {ir * ITEMS + LocalId(ig) : ir \in 0 .. RADIX - 1}
GlobalHisto(ig) == {ir * GROUPS * ITEMS + ig : ir \in 0 .. RADIX - 1}

HistogramZero(ig) ==
  /\ stage = "histogram" /\ At(ig, 0)
  /\ WriteLocal(ig, [x \in LocalHisto(ig) |-> 0])
  /\ Access(ig, {}, Local(ig, LocalHisto(ig)))
  /\ UNCHANGED <<host, keyBuffers, sums>>

HistogramCount(ig) ==
  /\ stage = "histogram" /\ At(ig, 1)
  /\ LET short(i) == Shortkey(inKeys[Index(i)]) IN
       WriteLocal(ig, [x \in LocalHisto(ig) |->
         loc[GroupOf(ig)][x] + Cardinality({i \in Mine(ig) : short(i) * ITEMS + LocalId(ig) = x})])
  /\ Access(ig, Global("in", {Index(i) : i \in Mine(ig)}), Local(ig, LocalHisto(ig)))
  /\ UNCHANGED <<host, keyBuffers, sums>>

\* Mutant: the counts of a work item are stored together.
HistogramStoreRows(ig) ==
  /\ stage = "histogram" /\ At(ig, 2)
  /\ histo' = [ir \in {ig * RADIX + r : r \in 0 .. RADIX - 1} |->
                 loc[GroupOf(ig)][(ir % RADIX) * ITEMS + LocalId(ig)]] @@ histo
  /\ Access(ig, Local(ig, LocalHisto(ig)), Global("histo", {ig * RADIX + r : r \in 0 .. RADIX - 1}))
  /\ UNCHANGED <<host, keyBuffers, globsum, dtemp, loc>>

\* The histogram is laid out by digit, then by work item.
HistogramStore(ig) ==
  /\ stage = "histogram" /\ At(ig, 2)
  /\ histo' = [x \in GlobalHisto(ig) |->
                 loc[GroupOf(ig)][(x \div (GROUPS * ITEMS)) * ITEMS + LocalId(ig)]] @@ histo
  /\ Access(ig, Local(ig, LocalHisto(ig)), Global("histo", GlobalHisto(ig)))
  /\ UNCHANGED <<host, keyBuffers, globsum, dtemp, loc>>

-----------------------------------------------------------------------------
(* scanhistograms, once on the histogram and once on the sums of its parts *)

Scanning == stage \in {"scan", "globscan"}
Scanned == IF stage = "scan" THEN histo ELSE globsum
ScannedName == IF stage = "scan" THEN "histo" ELSE "globsum"
SumsName == IF stage = "scan" THEN "globsum" ELSE "dtemp"

ScanLoad(ig) ==
  /\ Scanning /\ At(ig, 0)
  /\ LET two == {2 * LocalId(ig), 2 * LocalId(ig) + 1} IN
       /\ WriteLocal(ig, [x \in two |-> Scanned[2 * ig + (x % 2)]])
       /\ Access(ig, Global(ScannedName, {2 * ig, 2 * ig + 1}), Local(ig, two))
  /\ UNCHANGED <<host, keyBuffers, sums>>

\* Up sweep: with decale = 2^(s-1) and d = n / 2^s.  After the last one work
\* item 0 stores the sum and clears the last element, without a barrier.
ScanUpStep(ig, s) ==
  /\ Scanning /\ At(ig, s)
  /\ LET it == LocalId(ig)
         temp == loc[GroupOf(ig)]
         ai == 2 ^ (s - 1) * (2 * it + 1) - 1
         bi == 2 ^ (s - 1) * (2 * it + 2) - 1
         works == it < ScanSize \div 2 ^ s
         clears == s = Sweeps /\ it = 0
     IN /\ IF works
             THEN WriteLocal(ig, bi :> IF clears THEN 0 ELSE temp[bi] + temp[ai])
             ELSE UNCHANGED loc
        /\ CASE clears /\ stage = "scan" ->
                  globsum' = [globsum EXCEPT ![GroupOf(ig)] = temp[bi] + temp[ai]] /\ UNCHANGED dtemp
             [] clears /\ stage = "globscan" ->
                  dtemp' = [dtemp EXCEPT ![GroupOf(ig)] = temp[bi] + temp[ai]] /\ UNCHANGED globsum
             [] OTHER -> UNCHANGED <<globsum, dtemp>>
        /\ Access(ig, IF works THEN Local(ig, {ai}) ELSE {},
                      (IF works THEN Local(ig, {bi}) ELSE {})
                        \union (IF clears THEN Global(SumsName, {GroupOf(ig)}) ELSE {}))
  /\ UNCHANGED <<host, keyBuffers, histo>>

\* Mutant: a work item with nothing to add does not go on to the barrier.
ScanUpLeaves(ig) ==
  \E s \in 1 .. Sweeps : LocalId(ig) < ScanSize \div 2 ^ s /\ ScanUpStep(ig, s)

ScanUp(ig) == \E s \in 1 .. Sweeps : ScanUpStep(ig, s)

\* Down sweep: d = 2^(s-1) and decale = n / 2^s.
ScanDown(ig) ==
  \E s \in 1 .. Sweeps :
    /\ Scanning /\ At(ig, Sweeps + s)
    /\ LET it == LocalId(ig)
           temp == loc[GroupOf(ig)]
           decale == ScanSize \div 2 ^ s
           ai == decale * (2 * it + 1) - 1
           bi == decale * (2 * it + 2) - 1
       IN IF it < 2 ^ (s - 1)
            THEN /\ WriteLocal(ig, ai :> temp[bi] @@ bi :> temp[bi] + temp[ai])
                 /\ Access(ig, {}, Local(ig, {ai, bi}))
            ELSE Access(ig, {}, {}) /\ UNCHANGED loc
    /\ UNCHANGED <<host, keyBuffers, sums>>

ScanStore(ig) ==
  /\ Scanning /\ At(ig, 2 * Sweeps + 1)
  /\ LET two == [x \in {2 * ig, 2 * ig + 1} |-> loc[GroupOf(ig)][2 * LocalId(ig) + (x % 2)]] IN
       /\ histo' = IF stage = "scan" THEN two @@ histo ELSE histo
       /\ globsum' = IF stage = "globscan" THEN two @@ globsum ELSE globsum
       /\ Access(ig, Local(ig, {2 * LocalId(ig), 2 * LocalId(ig) + 1}),
                     Global(ScannedName, DOMAIN two))
  /\ UNCHANGED <<host, keyBuffers, dtemp, loc>>

\* pastehistograms: each part of the histogram is raised by the parts before.
PasteHistograms(ig) ==
  /\ stage = "paste" /\ At(ig, 0)
  /\ histo' = [x \in {2 * ig, 2 * ig + 1} |-> histo[x] + globsum[GroupOf(ig)]] @@ histo
  /\ Access(ig, Global("globsum", {GroupOf(ig)}), Global("histo", {2 * ig, 2 * ig + 1}))
  /\ UNCHANGED <<host, keyBuffers, globsum, dtemp, loc>>

-----------------------------------------------------------------------------
(* reorder                                                                 *)

ReorderLoad(ig) ==
  /\ stage = "reorder" /\ At(ig, 0)
  /\ WriteLocal(ig, [x \in LocalHisto(ig) |-> histo[(x \div ITEMS) * GROUPS * ITEMS + ig]])
  /\ Access(ig, Global("histo", GlobalHisto(ig)), Local(ig, LocalHisto(ig)))
  /\ UNCHANGED <<host, keyBuffers, sums>>

\* The loop over a work item's keys: loc_histo counts on after each key.
ReorderMove(ig) ==
  /\ stage = "reorder" /\ At(ig, 1)
  /\ LET short(i) == Shortkey(inKeys[Index(i)])
         earlier(i) == Cardinality({j \in Mine(ig) : j < i /\ short(j) = short(i)})
         newpos(i) == loc[GroupOf(ig)][short(i) * ITEMS + LocalId(ig)] + earlier(i)
         to == {Index(newpos(i)) : i \in Mine(ig)}
         from(x) == CHOOSE i \in Mine(ig) :
                      Index(newpos(i)) = x /\ \A j \in Mine(ig) : Index(newpos(j)) = x => j <= i
     IN /\ outKeys' = [x \in to |-> inKeys[Index(from(x))]] @@ outKeys
        /\ outPermut' = [x \in to |-> inPermut[Index(from(x))]] @@ outPermut
        /\ WriteLocal(ig, [x \in LocalHisto(ig) |->
             loc[GroupOf(ig)][x] + Cardinality({i \in Mine(ig) : short(i) = x \div ITEMS})])
        /\ Access(ig, Global("in", {Index(i) : i \in Mine(ig)}),
                      Global("out", to) \union Local(ig, LocalHisto(ig)))
  /\ UNCHANGED <<host, inKeys, inPermut, sums>>

-----------------------------------------------------------------------------
(* transpose, when TRANSPOSE is set: the items of a group share a tile     *)

\* First row of the item's tile, its column, and the tile's first column.
Row0(ig) == (ig \div NbCol) * Tile
Col(ig) == ig % NbCol
Col0(ig) == (Col(ig) \div Tile) * Tile

TransposeLoad(ig) ==
  /\ stage \in {"transpose", "back"} /\ At(ig, 0)
  /\ LET k(iloc) == (Row0(ig) + iloc) * NbCol + Col(ig)
         cells == {iloc * Tile + LocalId(ig) : iloc \in 0 .. Tile - 1}
     IN /\ WriteLocal(ig, [x \in cells |-> <<inKeys[k(x \div Tile)], inPermut[k(x \div Tile)]>>])
        /\ Access(ig, Global("in", {k(iloc) : iloc \in 0 .. Tile - 1}), Local(ig, cells))
  /\ UNCHANGED <<host, keyBuffers, sums>>

TransposeStore(ig) ==
  /\ stage \in {"transpose", "back"} /\ At(ig, 1)
  /\ LET kt(iloc) == (Col0(ig) + iloc) * NbRow + Row0(ig) + LocalId(ig)
         cell(iloc) == LocalId(ig) * Tile + iloc
         to == {kt(iloc) : iloc \in 0 .. Tile - 1}
         cached(x) == loc[GroupOf(ig)][cell(CHOOSE iloc \in 0 .. Tile - 1 : kt(iloc) = x)]
     IN /\ outKeys' = [x \in to |-> cached(x)[1]] @@ outKeys
        /\ outPermut' = [x \in to |-> cached(x)[2]] @@ outPermut
        /\ Access(ig, Local(ig, {cell(iloc) : iloc \in 0 .. Tile - 1}), Global("out", to))
  /\ UNCHANGED <<host, inKeys, inPermut, sums, loc>>

-----------------------------------------------------------------------------
(* The host                                                                *)

RadixInit ==
  /\ stage = "idle" /\ pass = 0 /\ nkeys = 0
  /\ checkKeys = <<>> /\ hKeys = <<>>
  /\ inKeys = <<>> /\ outKeys = <<>> /\ inPermut = <<>> /\ outPermut = <<>>
  /\ histo = [x \in 0 .. HISTOSIZE - 1 |-> -1]
  /\ globsum = [x \in 0 .. HISTOSPLIT - 1 |-> -1]
  /\ dtemp = [x \in 0 .. HISTOSPLIT - 1 |-> -1]
  /\ loc = <<>> /\ at = <<>> /\ log = {}

\* clEnqueueNDRangeKernel
Enqueue(kernel) ==
  /\ stage' = kernel
  /\ at' = [ig \in 0 .. NbItems' - 1 |-> 0]
  /\ loc' = [g \in 0 .. (NbItems' \div NbLocItems') - 1 |-> <<>>]
  /\ log' = {}

\* The client fills its slot with random keys and calls.
Fill(n) == \E keys \in [0 .. n - 1 -> Keys] : hKeys' = keys /\ checkKeys' = keys

\* An assertion of init_cl_radix_sort on the size ends the daemon.
InitAborts(n) ==
  /\ n % (GROUPS * ITEMS) # 0
  /\ Fill(n)
  /\ stage' = "aborted" /\ nkeys' = n
  /\ UNCHANGED <<pass, keyBuffers, sums, loc, at, log>>

\* The padding for other sizes comes after the assertion and is never used.
Resize(n) == n % (GROUPS * ITEMS) = 0 /\ nkeys' = n

\* The keys are copied to the device with the identity permutation.  The new
\* buffers hold anything; -1 stands for it.
InitRadixSort(n) ==
  /\ Resize(n)
  /\ Fill(n)
  /\ inKeys' = hKeys'
  /\ inPermut' = [i \in 0 .. n - 1 |-> i]
  /\ outKeys' = [i \in 0 .. n - 1 |-> -1]
  /\ outPermut' = [i \in 0 .. n - 1 |-> -1]
  /\ Enqueue(IF TRANSPOSE THEN "transpose" ELSE "histogram")
  /\ UNCHANGED <<pass, sums>>

RadixLaunch(n) == stage = "idle" /\ (InitRadixSort(n) \/ InitAborts(n))

\* The last kernel has ended.
ToRecup == stage' = "recup" /\ loc' = <<>> /\ at' = <<>> /\ log' = {}

Finished == stage \notin {"idle", "aborted", "recup", "done"} /\ \A ig \in DOMAIN at : at[ig] = Segments

\* Exchange the pointers.
Swap ==
  /\ inKeys' = outKeys /\ outKeys' = inKeys
  /\ inPermut' = outPermut /\ outPermut' = inPermut

TransposeDone ==
  /\ stage = "transpose" /\ Finished
  /\ UNCHANGED <<pass, nkeys, checkKeys, hKeys, sums>>
  /\ Swap
  /\ Enqueue("histogram")

HistogramDone ==
  /\ stage = "histogram" /\ Finished
  /\ UNCHANGED <<pass, nkeys, checkKeys, hKeys, keyBuffers, sums>>
  /\ Enqueue("scan")

ScanDone ==
  /\ stage = "scan" /\ Finished
  /\ UNCHANGED <<pass, nkeys, checkKeys, hKeys, keyBuffers, sums>>
  /\ Enqueue("globscan")

GlobscanDone ==
  /\ stage = "globscan" /\ Finished
  /\ UNCHANGED <<pass, nkeys, checkKeys, hKeys, keyBuffers, sums>>
  /\ Enqueue("paste")

PasteDone ==
  /\ stage = "paste" /\ Finished
  /\ UNCHANGED <<pass, nkeys, checkKeys, hKeys, keyBuffers, sums>>
  /\ Enqueue("reorder")

\* The buffers are exchanged, and the loop goes on with the next pass.
ReorderDone ==
  /\ stage = "reorder" /\ Finished
  /\ UNCHANGED <<nkeys, checkKeys, hKeys, sums>>
  /\ Swap
  /\ pass' = pass + 1
  /\ CASE pass' < PASS -> Enqueue("histogram")
       [] pass' = PASS /\ TRANSPOSE -> Enqueue("back")
       [] OTHER -> ToRecup

BackDone ==
  /\ stage = "back" /\ Finished
  /\ UNCHANGED <<pass, nkeys, checkKeys, hKeys, sums>>
  /\ Swap
  /\ ToRecup

\* Mutant: the buffer that the last pass read from is read back.
RecupOther ==
  /\ stage = "recup"
  /\ hKeys' = outKeys
  /\ stage' = "done"
  /\ UNCHANGED <<pass, nkeys, checkKeys, keyBuffers, sums, loc, at, log>>

\* cl_radix_recup_gpu: only the keys are read back.
Recup ==
  /\ stage = "recup"
  /\ hKeys' = inKeys
  /\ stage' = "done"
  /\ UNCHANGED <<pass, nkeys, checkKeys, keyBuffers, sums, loc, at, log>>

Host ==
  \/ TransposeDone \/ HistogramDone \/ ScanDone \/ GlobscanDone \/ PasteDone
  \/ ReorderDone \/ BackDone \/ Recup

WorkItem(ig) ==
  \/ HistogramZero(ig) \/ HistogramCount(ig) \/ HistogramStore(ig)
  \/ ScanLoad(ig) \/ ScanUp(ig) \/ ScanDown(ig) \/ ScanStore(ig)
  \/ PasteHistograms(ig)
  \/ ReorderLoad(ig) \/ ReorderMove(ig)
  \/ TransposeLoad(ig) \/ TransposeStore(ig)

Runs == Host \/ \E ig \in DOMAIN at : WorkItem(ig)

RadixNext == (\E n \in Sizes : RadixLaunch(n)) \/ Runs

\* The host waits in clFinish and the device runs what is enqueued.
RadixSpec == RadixInit /\ [][RadixNext]_radixVars /\ WF_radixVars(Runs)

-----------------------------------------------------------------------------
(* Properties                                                              *)

\* Between two barriers no work item touches a cell that another work item of
\* its group writes, nor, during a whole kernel, one that an item of another
\* group writes.
RaceFree ==
  \A a \in {w \in log : w[4]} : \A b \in log :
    a[1] # b[1] /\ a[3] = b[3] => GroupOf(a[1]) = GroupOf(b[1]) /\ a[2] # b[2]

AtStart == \A ig \in DOMAIN at : at[ig] = 0

\* After the two scans and the pasting, the histogram holds for each digit and
\* each work item where the first of its keys with that digit belongs.
ScanIsPrefixSum ==
  stage = "reorder" /\ AtStart =>
    \A r \in 0 .. RADIX - 1, ig \in 0 .. GROUPS * ITEMS - 1 :
      LET short(i) == Shortkey(inKeys[Index(i)]) IN
      histo[r * GROUPS * ITEMS + ig] =
        Cardinality({i \in 0 .. nkeys - 1 :
          short(i) < r \/ (short(i) = r /\ \E b \in 0 .. ig - 1 : i \in Mine(b))})

\* Keys are distinguished by the bits that the first p passes look at.
Low(key, p) == key % 2 ^ (p * BITS)

\* Before each pass the keys are sorted by the bits seen so far, equal keys
\* keep their order, and the permutation says where each key came from.
PassesSort ==
  (stage = "histogram" /\ AtStart) \/ stage = "recup" =>
    LET key(i) == inKeys[IF stage = "recup" THEN i ELSE Index(i)]
        perm(i) == inPermut[IF stage = "recup" THEN i ELSE Index(i)]
    IN \A i \in 0 .. nkeys - 1 :
         /\ key(i) = checkKeys[perm(i)]
         /\ i > 0 => \/ Low(key(i - 1), pass) < Low(key(i), pass)
                     \/ Low(key(i - 1), pass) = Low(key(i), pass) /\ perm(i - 1) < perm(i)

\* rxSort, the sort on the CPU whose time the client compares, on other keys than
\* the GPU's: one stable counting sort for each of p digits of base k.
RxSort(data, p, k) ==
  LET size == Cardinality(DOMAIN data)
      digit(key, n) == (key \div k ^ n) % k
      place(d, n, j) ==
        Cardinality({i \in DOMAIN d : digit(d[i], n) <= digit(d[j], n)}) - 1
          - Cardinality({i \in j + 1 .. size - 1 : digit(d[i], n) = digit(d[j], n)})
      round[n \in 0 .. p] ==
        IF n = 0 THEN data
        ELSE LET d == round[n - 1]
             IN  [x \in DOMAIN data |-> d[CHOOSE j \in DOMAIN d : place(d, n - 1, j) = x]]
  IN round[p]

\* What arrives in the client's slot is what its CPU sort would make of the keys.
GpuSortIsCpuSort == stage = "done" => hKeys = RxSort(checkKeys, TOTALBITS - 1, 2)

\* The client's check: the slot is in order and holds the client's own keys.
SortReachesClient ==
  stage = "done" =>
    /\ \A i \in 1 .. nkeys - 1 : hKeys[i - 1] <= hKeys[i]
    /\ \A k \in Keys : Cardinality({i \in DOMAIN hKeys : hKeys[i] = k})
                      = Cardinality({i \in DOMAIN hKeys : checkKeys[i] = k})

\* Every sort that is launched ends.
SortEnds == stage \notin {"idle", "aborted"} ~> stage = "done"
=============================================================================
