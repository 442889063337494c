------------------------------- MODULE MemPool -------------------------------
(***************************************************************************)
(* The pool of GPU-visible memory (qhgpu/main.c): set_gpu_mempool,         *)
(* qhgpu_vmalloc and qhgpu_vfree.  Allocation runs under gmpool_lock and   *)
(* is one step.  Freeing reads alloc_sz before it takes the lock and is    *)
(* two.  Clients free each pointer once; a client with several pointers is *)
(* several clients here.                                                   *)
(*                                                                         *)
(* A pointer is the index of its first unit.  Set-up that fails before     *)
(* nunits is assigned looks like set-up that has not happened; set-up that *)
(* fails later leaves null pointers in gmpool, and what the kernel does    *)
(* with those is left out.                                                 *)
(***************************************************************************)
EXTENDS Integers

CONSTANTS
  Clients,   \* those who allocate
  BufSize,   \* QHGPU_BUF_SIZE, the bytes of the buffer the daemon registers
  UnitSize,  \* QHGPU_BUF_UNIT_SIZE
  PageSize,  \* PAGE_SIZE as main.c redefines it
  HwPage,    \* 1 << PAGE_SHIFT, the bytes that vmap maps for each page
  UvaOff,    \* where in its page the buffer starts: it comes from malloc
  Bytes,     \* the sizes that clients ask for
  Garbage    \* what kmalloc'ed memory may hold

NPages == BufSize \div PageSize

\* Mutant: one unit too many.
NUnitsOneMore == NPages \div (UnitSize \div PageSize) + 1

\* The divisor is QHGPU_BUF_NR_FRAMES_PER_UNIT.
NUnits == NPages \div (UnitSize \div PageSize)

\* Entry i of gmpool.pages, as a page counted from the one that holds uva.
PageEntry(i) == (UvaOff + i * PageSize) \div HwPage

\* The byte that kernel address kva + off reaches, counted from the start of
\* the page that holds uva: vmap lines up whole pages.
KernelByte(off) == PageEntry(off \div HwPage) * HwPage + (off % HwPage)

\* A unit is a whole number of pages: 1024*50 and 512 in main.c.
ASSUME PoolAssumption ==
  /\ NUnits \in Nat \ {0}
  /\ UnitSize \in Nat \ {0}
  /\ BufSize \in Nat /\ PageSize \in Nat \ {0} /\ UnitSize % PageSize = 0
  /\ Bytes \subseteq Nat
  /\ Garbage \subseteq Nat

Units == 0 .. NUnits - 1

VARIABLES
  nunits,   \* gmpool.nunits, 0 before set-up
  bitmap,   \* the set bits of gmpool.bitmap
  allocSz,  \* gmpool.alloc_sz
  pc,       \* a client has no pointer, has one, or is inside qhgpu_vfree
  ptr,      \* its pointer, as a unit
  nfree,    \* the local variable nunits of its qhgpu_vfree
  want,     \* history: the units it asked for
  alien     \* history: some qhgpu_vfree of an empty block found a size

poolVars == <<nunits, bitmap, allocSz, pc, ptr, nfree, want, alien>>

PoolTypeOK ==
  /\ nunits  \in {0, NUnits}
  /\ bitmap  \subseteq Units
  /\ allocSz \in [Units -> Nat]
  /\ pc      \in [Clients -> {"none", "live", "free"}]
  /\ ptr     \in [Clients -> Units]
  /\ nfree   \in [Clients -> Nat]
  /\ want    \in [Clients -> Nat]
  /\ alien   \in BOOLEAN

PoolInit ==
  /\ nunits  = 0
  /\ bitmap  = {}
  /\ allocSz = [u \in Units |-> 0]
  /\ pc      = [c \in Clients |-> "none"]
  /\ ptr     = [c \in Clients |-> 0]
  /\ nfree   = [c \in Clients |-> 0]
  /\ want    = [c \in Clients |-> 0]
  /\ alien   = FALSE

\* set_gpu_mempool, called once: one daemon opens the device, once.  memset
\* clears nunits bytes of alloc_sz, which is a quarter of its entries.
SetGpuMempool ==
  /\ nunits = 0
  /\ nunits' = NUnits
  /\ bitmap' = {}
  /\ \E junk \in [Units -> Garbage] :
       allocSz' = [u \in Units |-> IF 4 * (u + 1) <= NUnits THEN 0 ELSE junk[u]]
  /\ UNCHANGED <<pc, ptr, nfree, want, alien>>

\* DIV_ROUND_UP(nbytes, QHGPU_BUF_UNIT_SIZE)
UnitsFor(nbytes) == (nbytes + UnitSize - 1) \div UnitSize

Run(i, n) == i .. i + n - 1

\* Mutant: the last unit of the area is not looked at.
ZeroAreaShort(i, n) ==
  i \in 0 .. nunits - 1 \ bitmap /\ i + n <= nunits /\ Run(i, n - 1) \intersect bitmap = {}

\* Mutant: the area may reach past the end of the bitmap.
ZeroAreaPastEnd(i, n) ==
  i \in 0 .. nunits - 1 \ bitmap /\ Run(i, n) \intersect bitmap = {}

\* A zero area at i: bit i is zero even when no unit is asked for.
ZeroArea(i, n) ==
  /\ i \in 0 .. nunits - 1 /\ i \notin bitmap
  /\ i + n <= nunits
  /\ Run(i, n) \intersect bitmap = {}

\* bitmap_find_next_zero_area finds the first one.
FirstZeroArea(i, n) == ZeroArea(i, n) /\ \A j \in 0 .. i - 1 : ~ ZeroArea(j, n)

\* Mutant: alloc_sz gets one unit too many.
VmallocOversized(c, nbytes) ==
  /\ pc[c] = "none"
  /\ \E i \in Units :
       /\ FirstZeroArea(i, UnitsFor(nbytes))
       /\ bitmap' = bitmap \union Run(i, UnitsFor(nbytes))
       /\ allocSz' = [allocSz EXCEPT ![i] = UnitsFor(nbytes) + 1]
       /\ ptr' = [ptr EXCEPT ![c] = i]
  /\ want' = [want EXCEPT ![c] = UnitsFor(nbytes)]
  /\ pc' = [pc EXCEPT ![c] = "live"]
  /\ UNCHANGED <<nunits, nfree, alien>>

Vmalloc(c, nbytes) ==
  /\ pc[c] = "none"
  /\ \E i \in Units :
       /\ FirstZeroArea(i, UnitsFor(nbytes))
       /\ bitmap' = bitmap \union Run(i, UnitsFor(nbytes))
       /\ allocSz' = [allocSz EXCEPT ![i] = UnitsFor(nbytes)]
       /\ ptr' = [ptr EXCEPT ![c] = i]
  /\ want' = [want EXCEPT ![c] = UnitsFor(nbytes)]
  /\ pc' = [pc EXCEPT ![c] = "live"]
  /\ UNCHANGED <<nunits, nfree, alien>>

\* "out of GPU memory": NULL is returned.
VmallocFails(c, nbytes) ==
  /\ pc[c] = "none"
  /\ \A i \in Units : ~ ZeroArea(i, UnitsFor(nbytes))
  /\ UNCHANGED poolVars

\* qhgpu_vfree returns and the caller forgets its pointer.
Drop(c) ==
  /\ pc' = [pc EXCEPT ![c] = "none"]
  /\ ptr' = [ptr EXCEPT ![c] = 0]
  /\ want' = [want EXCEPT ![c] = 0]

\* qhgpu_vfree before the lock, and its early returns.
VfreeRead(c) ==
  /\ pc[c] = "live"
  /\ LET n == allocSz[ptr[c]] IN
       /\ alien' = (alien \/ (want[c] = 0 /\ n # 0))
       /\ IF n = 0 \/ n > nunits - ptr[c]
            THEN Drop(c) /\ UNCHANGED nfree
            ELSE /\ nfree' = [nfree EXCEPT ![c] = n]
                 /\ pc' = [pc EXCEPT ![c] = "free"]
                 /\ UNCHANGED <<ptr, want>>
  /\ UNCHANGED <<nunits, bitmap, allocSz>>

\* Mutant: the lock is taken for each unit.
VfreeClearUnit(c) ==
  /\ pc[c] = "free"
  /\ bitmap' = bitmap \ {ptr[c]}
  /\ nfree' = [nfree EXCEPT ![c] = @ - 1]
  /\ IF nfree[c] = 1
       THEN allocSz' = [allocSz EXCEPT ![ptr[c]] = 0] /\ Drop(c)
       ELSE /\ ptr' = [ptr EXCEPT ![c] = @ + 1] /\ want' = [want EXCEPT ![c] = @ - 1]
            /\ UNCHANGED <<allocSz, pc>>
  /\ UNCHANGED <<nunits, alien>>

\* qhgpu_vfree under the lock.
VfreeClear(c) ==
  /\ pc[c] = "free"
  /\ bitmap' = bitmap \ Run(ptr[c], nfree[c])
  /\ allocSz' = [allocSz EXCEPT ![ptr[c]] = 0]
  /\ nfree' = [nfree EXCEPT ![c] = 0]
  /\ Drop(c)
  /\ UNCHANGED <<nunits, alien>>

PoolNext ==
  \/ SetGpuMempool
  \/ \E c \in Clients :
       \/ \E nbytes \in Bytes : Vmalloc(c, nbytes) \/ VmallocFails(c, nbytes)
       \/ VfreeRead(c)
       \/ VfreeClear(c)

PoolSpec == PoolInit /\ [][PoolNext]_poolVars

-----------------------------------------------------------------------------
(* Properties                                                              *)

\* The units a client may use: from the return of qhgpu_vmalloc until
\* qhgpu_vfree clears them.
Block(c) == IF pc[c] = "none" THEN {} ELSE Run(ptr[c], want[c])

\* The bitmap marks exactly the units in use and no unit is in two blocks,
\* unless a block of zero bytes was freed while another block began at its
\* unit.
PoolSound ==
  ~ alien =>
    /\ \A u \in Units : u \in bitmap <=> \E c \in Clients : u \in Block(c)
    /\ \A c, d \in Clients : c # d => Block(c) \intersect Block(d) = {}

\* The address that fill_ku_request makes of a block's, uva + (p - kva), and
\* the block behind it lie inside the buffer that the daemon registered,
\* although units were counted in pages and blocks are placed in bytes.
BlockInBuffer ==
  \A c \in Clients : pc[c] # "none" => (ptr[c] + want[c]) * UnitSize <= BufSize

\* The size that qhgpu_vfree read without the lock is the size of the block
\* it then clears under the lock, garbage in alloc_sz, other clients and
\* blocks of zero bytes notwithstanding.
SizeStaysRight ==
  ~ alien => \A c \in Clients : pc[c] = "free" => nfree[c] = want[c]

\* The memory behind the addresses of a block.
Memory(c) ==
  {KernelByte(off) : off \in ptr[c] * UnitSize .. (ptr[c] + want[c]) * UnitSize - 1}

\* What one client writes into its block never shows up in another client's:
\* clients fill their buffers and have requests in flight at the same time
\* (test_module.c gives each of its three requests a buffer of its own).
BlocksShareNoMemory ==
  \A c, d \in Clients :
    c # d /\ pc[c] # "none" /\ pc[d] # "none" => Memory(c) \intersect Memory(d) = {}

\* The blocks as BlockPool sees them.
Owned == [c \in Clients |-> Block(c)]

Blocks == INSTANCE BlockPool WITH owned <- Owned

\* Up to the free of an empty block under which another block began, the allocator
\* with its unlocked read and its uncleared sizes implements BlockPool: each of its
\* steps hands out one run of units that nobody owns, takes back one whole block,
\* or leaves all blocks alone.
PoolIsBlockPool == [][~ alien' => [Blocks!BlockNext]_Owned]_poolVars
=============================================================================
