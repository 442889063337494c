------------------------------- MODULE Startup -------------------------------
(***************************************************************************)
(* From insmod to the main loop: the module makes the device (main.c), a   *)
(* daemon opens it, registers its buffer, loads its services, asks for     *)
(* mmap slots and maps them (connector.c), while clients already call.     *)
(* Daemons may be killed at any time and started again.                    *)
(*                                                                         *)
(* A pointer is Null, Garbage (what vmalloc left there) or a page; where    *)
(* the daemon mapped a slot there is a page or MapFailed, which is not null. *)
(***************************************************************************)
EXTENDS Integers, FiniteSets

CONSTANTS
  Daemons, Clients,
  FileCounts,     \* how many service files the daemon may find
  Null, Garbage, MapFailed

\* A null pointer is no block, no page and no array of pages; a failed mmap gives no page.
ASSUME StartupAssumption ==
  /\ IsFiniteSet(Daemons) /\ FileCounts \subseteq Nat
  /\ Null \notin {Garbage, "block", "wild"} /\ MapFailed \notin {Null, Garbage}
  /\ {Null, Garbage, MapFailed} \cap (Daemons \X Nat) = {}
  /\ \A n \in FileCounts \cup {1} : \A k \in 0 .. n :
       Null \notin [0 .. k - 1 -> {Garbage} \cup (Daemons \X (0 .. n - 1))]

VARIABLES
  node,      \* "none" before insmod; whether /dev/qhgpu can be opened
  caches,    \* whether the caches for requests exist
  av,        \* qhgpu_av
  pool,      \* how far set_gpu_mempool came
  moduleCnt, checker, kmmap, pages, modules, mmapCount,  \* of the device
  dpc,       \* where each daemon is
  fd,        \* whether it holds the device
  cnt,       \* its service_cnt
  dmap,      \* mmap_addr_arr: the page behind each of its slots, or MapFailed
  cpc, cslot, caddr, cblock,   \* of a client: progress, slot, kmmap_addr, block of the pool
  late       \* history: the client came when the slots were mapped

device == <<node, caches, av, pool>>
slotTable == <<moduleCnt, checker, kmmap, pages, modules, mmapCount>>
daemons == <<dpc, fd, cnt, dmap>>
clients == <<cpc, cslot, caddr, cblock, late>>
startVars == <<device, slotTable, daemons, clients>>

DaemonPcs == {"off", "refused", "init", "bufs", "opencl", "loading", "setMmap", "checker", "kmmap",
              "arrays", "pages", "map", "loop", "dead"}

StartTypeOK ==
  /\ node \in {"none", "missing", "dead", "ready"} /\ caches \in BOOLEAN
  /\ av \in - Cardinality(Daemons) .. 1
  /\ pool \in {"empty", "noPages", "noBitmap", "noSizes", "noMap", "ready"}
  /\ dpc \in [Daemons -> DaemonPcs] /\ fd \in [Daemons -> BOOLEAN]
  /\ mmapCount \in 0 .. moduleCnt
  /\ cpc \in [Clients -> {"none", "id", "addr", "has", "called", "oops"}]
  /\ cslot \in [Clients -> Nat] /\ cblock \in [Clients -> {Null, "block", "wild"}]

StartInit ==
  /\ node = "none" /\ caches = FALSE /\ av = 1 /\ pool = "empty"
  /\ moduleCnt = 0 /\ checker = Null /\ kmmap = Null /\ pages = Null /\ modules = Null /\ mmapCount = 0
  /\ dpc = [d \in Daemons |-> "off"] /\ fd = [d \in Daemons |-> FALSE]
  /\ cnt = [d \in Daemons |-> 0] /\ dmap = [d \in Daemons |-> <<>>]
  /\ cpc = [c \in Clients |-> "none"] /\ cslot = [c \in Clients |-> 0]
  /\ caddr = [c \in Clients |-> Null] /\ cblock = [c \in Clients |-> Null]
  /\ late = [c \in Clients |-> FALSE]

-----------------------------------------------------------------------------
(* The module                                                              *)

\* qhgpu_init may stop at a cache, at the class or at the device number, or go
\* on without a device; mod_init returns 0 in every case.
QhgpuInit ==
  /\ node = "none"
  /\ \/ caches' = FALSE /\ node' = "missing"
     \/ caches' = TRUE /\ node' \in {"missing", "dead", "ready"}
  /\ UNCHANGED <<av, pool, slotTable, daemons, clients>>

Loaded == node # "none"

-----------------------------------------------------------------------------
(* A daemon                                                                *)

Goes(d, there) == dpc' = [dpc EXCEPT ![d] = there]

\* A daemon is started, for the first time or again, and calls open: the counter is
\* decremented and tested in one step.  A node without a device gives no
\* descriptor; neither does a module that is not loaded.
QhgpuOpen(d) ==
  /\ dpc[d] \in {"off", "dead"}
  /\ dmap' = [dmap EXCEPT ![d] = <<>>] /\ cnt' = [cnt EXCEPT ![d] = 0]
  /\ IF node = "ready"
       THEN /\ av' = av - 1
            /\ fd' = [fd EXCEPT ![d] = av' = 0]
            /\ Goes(d, IF av' = 0 THEN "init" ELSE "refused")
       ELSE Goes(d, "init") /\ UNCHANGED <<av, fd>>
  /\ UNCHANGED <<node, caches, pool, slotTable, clients>>

\* Mutant: the refused opener does not give its count back.
OpenRefusedKept(d) ==
  /\ dpc[d] = "refused"
  /\ Goes(d, "init")
  /\ UNCHANGED <<device, slotTable, fd, cnt, dmap, clients>>

\* A refused opener increments the counter again and goes on with devfd = -1.
OpenRefused(d) ==
  /\ dpc[d] = "refused"
  /\ av' = av + 1
  /\ Goes(d, "init")
  /\ UNCHANGED <<node, caches, pool, slotTable, fd, cnt, dmap, clients>>

\* Mutant: a release handler that gives the device back and resets nothing else.
DiesReleases(d) ==
  /\ Goes(d, "dead") /\ fd' = [fd EXCEPT ![d] = FALSE]
  /\ av' = IF fd[d] THEN av + 1 ELSE av

\* Killed, aborted or ended: the counter is not given back.
Dies(d) == Goes(d, "dead") /\ fd' = [fd EXCEPT ![d] = FALSE] /\ UNCHANGED av

\* gpu_init looks for a platform, a device, a context and a queue of its own; whatever
\* it returns, qc_init goes on.
GpuInit(d) ==
  /\ dpc[d] = "init"
  /\ Goes(d, "bufs")
  /\ UNCHANGED <<device, slotTable, fd, cnt, dmap, clients>>

\* The buffer and QHGPU_IOC_SET_GPU_BUFS:
\* mlock and the ioctl may fail, the ioctl at any of its four allocations.
SetGpuBufs(d) ==
  /\ dpc[d] = "bufs"
  /\ \/ ~ fd[d] /\ Dies(d) /\ UNCHANGED pool
     \/ /\ fd[d]
        /\ \/ pool' \in {"noPages", "noBitmap", "noSizes", "noMap"} /\ Dies(d)
           \/ pool' = "ready" /\ Goes(d, "opencl") /\ UNCHANGED <<fd, av>>
  /\ UNCHANGED <<node, caches, slotTable, cnt, dmap, clients>>

\* The OpenCL platform, device and context: each call asserts.
InitOpenCL(d) ==
  /\ dpc[d] = "opencl"
  /\ Goes(d, "loading")
  /\ UNCHANGED <<device, slotTable, fd, cnt, dmap, clients>>

\* One slot for each file, one slot when there is none.
LoadServices(d) ==
  /\ dpc[d] = "loading"
  /\ \E files \in FileCounts : cnt' = [cnt EXCEPT ![d] = IF files = 0 THEN 1 ELSE files]
  /\ Goes(d, "setMmap")
  /\ UNCHANGED <<device, slotTable, fd, dmap, clients>>

-----------------------------------------------------------------------------
(* QHGPU_IOC_SET_MMAP, without a lock                                      *)

SetMmapCount(d) ==
  /\ dpc[d] = "setMmap"
  /\ moduleCnt' = cnt[d]
  /\ Goes(d, "checker")
  /\ UNCHANGED <<device, checker, kmmap, pages, modules, mmapCount, fd, cnt, dmap, clients>>

\* No vmalloc is tested: the tables may be null, which is found out by whoever uses them.
SetMmapChecker(d) ==
  /\ dpc[d] = "checker"
  /\ checker' \in {Garbage, Null}
  /\ Goes(d, "kmmap")
  /\ UNCHANGED <<device, moduleCnt, kmmap, pages, modules, mmapCount, fd, cnt, dmap, clients>>

SetMmapKmmap(d) ==
  /\ dpc[d] = "kmmap"
  /\ kmmap' \in {[k \in 0 .. cnt[d] - 1 |-> Garbage], Null}
  /\ Goes(d, "arrays")
  /\ UNCHANGED <<device, moduleCnt, checker, pages, modules, mmapCount, fd, cnt, dmap, clients>>

SetMmapArrays(d) ==
  /\ dpc[d] = "arrays"
  /\ pages' \in {<<>>, Null} /\ modules' \in {Garbage, Null}
  /\ Goes(d, "pages")
  /\ UNCHANGED <<device, moduleCnt, checker, kmmap, mmapCount, fd, cnt, dmap, clients>>

\* Mutant: the ioctl does not return after the last page.
SetMmapPagesStuck(d) ==
  /\ dpc[d] = "pages" /\ pages # Null /\ Cardinality(DOMAIN pages) < cnt[d]
  /\ \/ /\ pages' = [j \in 0 .. Cardinality(DOMAIN pages) |-> <<d, j>>]
        /\ UNCHANGED <<dpc, fd, av>>
     \/ Dies(d) /\ UNCHANGED pages
  /\ UNCHANGED <<node, caches, pool, moduleCnt, checker, kmmap, modules, mmapCount, cnt, dmap, clients>>

\* The pages of one slot after the other; one that fails ends the daemon, and so
\* does the kernel that stores the first into a null table.
SetMmapPages(d) ==
  /\ dpc[d] = "pages"
  /\ \/ pages = Null /\ Dies(d) /\ UNCHANGED pages
     \/ /\ pages # Null /\ Cardinality(DOMAIN pages) = cnt[d]
        /\ Goes(d, "map") /\ UNCHANGED <<pages, fd, av>>
     \/ /\ pages # Null /\ Cardinality(DOMAIN pages) # cnt[d]
        /\ LET k == Cardinality(DOMAIN pages) IN
             \/ /\ pages' = [j \in 0 .. k |-> IF j = k THEN <<d, k>> ELSE pages[j]]
                /\ UNCHANGED <<dpc, fd, av>>
             \/ Dies(d) /\ UNCHANGED pages
  /\ UNCHANGED <<node, caches, pool, moduleCnt, checker, kmmap, modules, mmapCount, cnt, dmap, clients>>

\* The next entry of the daemon's mmap_addr_arr.
NextSlot(d, p) ==
  LET j == Cardinality(DOMAIN dmap[d]) IN
    dmap' = [dmap EXCEPT ![d] = [k \in 0 .. j |-> IF k = j THEN p ELSE dmap[d][k]]]

\* Mutant: qhgpu_mmap counts before it uses the counter for the clients' array.
QhgpuMmapShifted(d) ==
  \/ kmmap = Null /\ Dies(d) /\ UNCHANGED <<dmap, kmmap, mmapCount>>
  \/ /\ kmmap # Null /\ NextSlot(d, pages[mmapCount])
     /\ mmapCount' = mmapCount + 1
     /\ kmmap' = [kmmap EXCEPT ![(mmapCount + 1) % moduleCnt] = pages[mmapCount]]
     /\ UNCHANGED <<dpc, fd, av>>

\* One mmap call of the daemon that reaches the device: the area and the clients'
\* array get the pages that mmap_count says.  In a null array the kernel stores
\* nothing, and ends the daemon.
QhgpuMmap(d) ==
  \/ kmmap = Null /\ Dies(d) /\ UNCHANGED <<dmap, kmmap, mmapCount>>
  \/ /\ kmmap # Null /\ NextSlot(d, pages[mmapCount])
     /\ kmmap' = [kmmap EXCEPT ![mmapCount] = pages[mmapCount]]
     /\ mmapCount' = mmapCount + 1
     /\ UNCHANGED <<dpc, fd, av>>

\* One mmap call that fails on its way: init_mmap compares the result with NULL, which
\* it is not, and goes on to the next slot.
MmapFails(d) == NextSlot(d, MapFailed) /\ UNCHANGED <<kmmap, mmapCount, dpc, fd, av>>

InitMmap(d) ==
  /\ dpc[d] = "map"
  /\ IF Cardinality(DOMAIN dmap[d]) = cnt[d]
       THEN Goes(d, "loop") /\ UNCHANGED <<dmap, kmmap, mmapCount, fd, av>>
       ELSE QhgpuMmap(d) \/ MmapFails(d)
  /\ UNCHANGED <<node, caches, pool, moduleCnt, checker, pages, modules, cnt, clients>>

\* The exit request ends the loop; qc_finit unmaps nothing and closes.
QcFinit(d) ==
  /\ dpc[d] = "loop"
  /\ Dies(d)
  /\ UNCHANGED <<node, caches, pool, slotTable, cnt, dmap, clients>>

\* A signal, or a failed assertion while OpenCL is set up or services load.
Killed(d) ==
  /\ dpc[d] \notin {"off", "refused", "dead"}
  /\ Dies(d)
  /\ UNCHANGED <<node, caches, pool, slotTable, cnt, dmap, clients>>

-----------------------------------------------------------------------------
(* A client, from the moment its module can be loaded                      *)

ClientGoes(c, there) == cpc' = [cpc EXCEPT ![c] = there]

\* qhgpu_alloc_request: from the cache, then a slot, then its address.
AllocFromCache(c) ==
  /\ cpc[c] \in {"none", "has", "called"} /\ Loaded
  /\ ClientGoes(c, IF caches THEN "id" ELSE "oops")
  /\ late' = [late EXCEPT ![c] = \E d \in Daemons : dpc[d] = "loop"]
  /\ cblock' = [cblock EXCEPT ![c] = Null]
  /\ UNCHANGED <<device, slotTable, daemons, cslot, caddr>>

\* Which slots look free in the uncleared array is anybody's guess.
MmapId(c) ==
  /\ cpc[c] = "id"
  /\ IF moduleCnt > 0 /\ checker = Null
       THEN ClientGoes(c, "oops") /\ UNCHANGED cslot
       ELSE /\ \E k \in 0 .. moduleCnt : (k < moduleCnt \/ k = 0) /\ cslot' = [cslot EXCEPT ![c] = k]
            /\ ClientGoes(c, "addr")
  /\ UNCHANGED <<device, slotTable, daemons, caddr, cblock, late>>

\* Mutant: the address handed out is that of the slot mapped last.
MmapAddrPassLast(c) ==
  /\ cpc[c] = "addr"
  /\ IF kmmap = Null
       THEN ClientGoes(c, "oops") /\ UNCHANGED caddr
       ELSE /\ caddr' = [caddr EXCEPT ![c] = IF mmapCount = 0 THEN Garbage ELSE kmmap[mmapCount - 1]]
            /\ ClientGoes(c, "has")
  /\ UNCHANGED <<device, slotTable, daemons, cslot, cblock, late>>

MmapAddrPass(c) ==
  /\ cpc[c] = "addr"
  /\ IF kmmap = Null
       THEN ClientGoes(c, "oops") /\ UNCHANGED caddr
       ELSE caddr' = [caddr EXCEPT ![c] = kmmap[cslot[c]]] /\ ClientGoes(c, "has")
  /\ UNCHANGED <<device, slotTable, daemons, cslot, cblock, late>>

\* qhgpu_vmalloc: without units there is no block; with units, it uses the
\* bitmap, alloc_sz and the mapping, whichever of them set-up left null.
Vmalloc(c) ==
  /\ cpc[c] = "has"
  /\ CASE pool \in {"empty", "noPages"} -> UNCHANGED <<cpc, cblock>>
       [] pool \in {"noBitmap", "noSizes"} -> ClientGoes(c, "oops") /\ UNCHANGED cblock
       [] pool = "noMap" -> cblock' = [cblock EXCEPT ![c] = "wild"] /\ UNCHANGED cpc
       [] pool = "ready" -> cblock' = [cblock EXCEPT ![c] = "block"] /\ UNCHANGED cpc
  /\ UNCHANGED <<device, slotTable, daemons, cslot, caddr, late>>

\* qhgpu_call_sync enters the client's functions in module_arr.
CallSync(c) ==
  /\ cpc[c] = "has"
  /\ ClientGoes(c, IF modules = Null THEN "oops" ELSE "called")
  /\ UNCHANGED <<device, slotTable, daemons, cslot, caddr, cblock, late>>

ClientStep(c) == AllocFromCache(c) \/ MmapId(c) \/ MmapAddrPass(c) \/ Vmalloc(c) \/ CallSync(c)

DaemonStep(d) ==
  \/ QhgpuOpen(d) \/ OpenRefused(d) \/ GpuInit(d) \/ SetGpuBufs(d) \/ InitOpenCL(d) \/ LoadServices(d)
  \/ SetMmapCount(d) \/ SetMmapChecker(d) \/ SetMmapKmmap(d) \/ SetMmapArrays(d) \/ SetMmapPages(d) \/ InitMmap(d)

StartNext ==
  \/ QhgpuInit
  \/ \E d \in Daemons : DaemonStep(d) \/ QcFinit(d) \/ Killed(d)
  \/ \E c \in Clients : ClientStep(c)

DaemonRuns(d) == dpc[d] \notin {"off", "dead"} /\ DaemonStep(d)

\* A daemon that runs is scheduled; nobody has to start one, nor to ask.
StartSpec == StartInit /\ [][StartNext]_startVars /\ \A d \in Daemons : WF_startVars(DaemonRuns(d))

-----------------------------------------------------------------------------
(* Properties                                                              *)

\* The slots are mapped by a daemon that serves.
Serving(d) == dpc[d] = "loop"

\* A daemon past gpu_init uses the device's tables.
SettingUp(d) == dpc[d] \in {"opencl", "loading", "setMmap", "checker", "kmmap", "arrays", "pages", "map", "loop"}

\* What a daemon's first access to its slot k finds (vm_fault): the page of the area's
\* private data.
VmFault(d, k) == dmap[d][k]

\* Slot k of the daemon is slot k of the clients.
OneSlot(d, k) == kmmap # Null /\ VmFault(d, k) = kmmap[k]

\* When a daemon serves, different slots of it are different pages, and a slot is the
\* same page for it and for the clients if and only if no mmap call failed up to that
\* slot: one that fails unmaps its own slot and shifts all later ones.
SameMemory ==
  \A d \in Daemons : Serving(d) =>
    /\ DOMAIN dmap[d] = 0 .. moduleCnt - 1
    /\ \A k \in 0 .. moduleCnt - 1 :
         /\ OneSlot(d, k) <=> \A j \in 0 .. k : VmFault(d, j) # MapFailed
         /\ VmFault(d, k) \notin {Null, Garbage}
         /\ \A j \in 0 .. k - 1 : VmFault(d, j) = VmFault(d, k) => VmFault(d, k) = MapFailed

\* Whenever a client comes, although set-up takes no lock, may fail in the middle and may
\* be left by a dead daemon: the address of its slot is that slot's pages or what
\* vmalloc left in the table, and a wild block is owed to a failed vmap.  One that came
\* when a daemon was serving gets the pages of each slot that qhgpu_mmap has counted,
\* which are all slots if no mmap failed, and only a table that vmalloc did not give
\* makes it crash.
ClientsServed ==
  \A c \in Clients :
    LET gets == pages # Null /\ cslot[c] \in DOMAIN pages /\ caddr[c] = pages[cslot[c]] IN
      /\ cpc[c] \in {"has", "called"} => gets \/ caddr[c] = Garbage
      /\ cblock[c] = "wild" => pool = "noMap" /\ ~ late[c]
      /\ late[c] =>
           /\ cpc[c] = "oops" => Null \in {checker, kmmap, modules}
           /\ cpc[c] \in {"has", "called"} => (gets <=> cslot[c] < mmapCount)

\* However many daemons race for the device, one at most has it and only that one
\* sets it up, and whoever gets it finds it as insmod left it.  The counter of
\* mapped slots is never reset, so a second daemon would map past the table;
\* qhgpu_av keeps it out, also when the first one is dead.
OneDaemon ==
  [][/\ \A d, e \in Daemons : fd'[d] /\ fd'[e] => d = e
     /\ \A d \in Daemons : SettingUp(d)' => fd'[d]
     /\ \A d \in Daemons : ~ fd[d] /\ fd'[d] => pool = "empty" /\ moduleCnt = 0 /\ mmapCount = 0]_startVars

\* Start-up never blocks: a daemon that opened the device serves or ends.
StartEnds == \A d \in Daemons : dpc[d] = "init" ~> dpc[d] \in {"loop", "dead"}
=============================================================================
