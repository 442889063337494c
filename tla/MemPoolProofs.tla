---------------------------- MODULE MemPoolProofs ----------------------------
(***************************************************************************)
(* The memory pool is sound for any number of units and clients, and, when *)
(* nobody asks for zero bytes, implements BlockPool.                       *)
(***************************************************************************)
EXTENDS MemPool, TLAPS

-----------------------------------------------------------------------------
(* Types                                                                   *)

\* DIV_ROUND_UP is a natural number, and zero only for zero bytes.
LEMMA UnitsForType ==
  ASSUME NEW nbytes \in Bytes
  PROVE  UnitsFor(nbytes) \in Nat /\ (nbytes # 0 => UnitsFor(nbytes) # 0)
<1>1. nbytes \in Nat /\ UnitSize \in Nat /\ UnitSize > 0
  BY PoolAssumption
<1>2. \A a, b \in Nat : b > 0 => a \div b \in Nat
  OBVIOUS
<1>3. \A a, b \in Nat : b > 0 /\ a >= b => a \div b # 0
  OBVIOUS
<1>4. nbytes + UnitSize - 1 \in Nat /\ (nbytes # 0 => nbytes + UnitSize - 1 >= UnitSize)
  BY <1>1
<1> QED BY <1>1, <1>2, <1>3, <1>4 DEF UnitsFor

\* Before set-up nobody has a pointer, and a block lies inside the pool.
Placed ==
  \A c \in Clients :
    /\ pc[c] # "none" => nunits = NUnits /\ ptr[c] + want[c] <= NUnits
    /\ pc[c] = "none" => want[c] = 0

TypeInv == PoolTypeOK /\ Placed

LEMMA TypeInit == PoolInit => TypeInv
<1> SUFFICES ASSUME PoolInit PROVE TypeInv
  OBVIOUS
<1>1. 0 \in Units /\ 0 \in Nat
  BY PoolAssumption DEF Units
<1>2. PoolTypeOK
  BY <1>1 DEF PoolInit, PoolTypeOK
<1>3. Placed
  BY DEF PoolInit, Placed
<1> QED BY <1>2, <1>3 DEF TypeInv

LEMMA TypeStep == TypeInv /\ [PoolNext]_poolVars => TypeInv'
<1> SUFFICES ASSUME TypeInv, [PoolNext]_poolVars PROVE TypeInv'
  OBVIOUS
<1> USE PoolAssumption DEF TypeInv, PoolTypeOK, Placed, Units
<1>1. CASE SetGpuMempool
  <2>1. PICK junk \in [Units -> Garbage] :
          allocSz' = [u \in Units |-> IF 4 * (u + 1) <= NUnits THEN 0 ELSE junk[u]]
    BY <1>1 DEF SetGpuMempool
  <2>2. allocSz' \in [Units -> Nat]
    BY <2>1
  <2> QED BY <1>1, <2>2 DEF SetGpuMempool
<1>2. ASSUME NEW c \in Clients, NEW nbytes \in Bytes, Vmalloc(c, nbytes) PROVE TypeInv'
  <2> DEFINE n == UnitsFor(nbytes)
  <2>0. n \in Nat
    BY UnitsForType
  <2> HIDE DEF n
  <2>1. PICK i \in Units : /\ FirstZeroArea(i, n)
                           /\ bitmap' = bitmap \union Run(i, n)
                           /\ allocSz' = [allocSz EXCEPT ![i] = n]
                           /\ ptr' = [ptr EXCEPT ![c] = i]
    BY <1>2 DEF Vmalloc, n
  <2>2. /\ want' = [want EXCEPT ![c] = n] /\ pc' = [pc EXCEPT ![c] = "live"]
        /\ UNCHANGED <<nunits, nfree, alien>>
    BY <1>2 DEF Vmalloc, n
  <2>3. i + n <= nunits /\ nunits = NUnits
    BY <2>0, <2>1 DEF FirstZeroArea, ZeroArea
  <2>4. bitmap' \subseteq Units
    BY <2>0, <2>1, <2>3 DEF Run
  <2> QED BY <2>0, <2>1, <2>2, <2>3, <2>4
<1>3. ASSUME NEW c \in Clients, VfreeRead(c) PROVE TypeInv'
  <2>1. UNCHANGED <<nunits, bitmap, allocSz>> /\ alien' \in BOOLEAN
    BY <1>3 DEF VfreeRead
  <2>2. CASE Drop(c) /\ UNCHANGED nfree
    BY <2>1, <2>2 DEF Drop
  <2>3. CASE /\ nfree' = [nfree EXCEPT ![c] = allocSz[ptr[c]]]
             /\ pc' = [pc EXCEPT ![c] = "free"]
             /\ UNCHANGED <<ptr, want>>
    BY <1>3, <2>1, <2>3 DEF VfreeRead
  <2> QED BY <1>3, <2>2, <2>3 DEF VfreeRead
<1>4. ASSUME NEW c \in Clients, VfreeClear(c) PROVE TypeInv'
  <2>0. 0 \in Units /\ 0 \in Nat
    OBVIOUS
  <2>1. PoolTypeOK'
    <3>1. bitmap' \subseteq Units /\ nunits' \in {0, NUnits} /\ alien' \in BOOLEAN
      BY <1>4 DEF VfreeClear
    <3>2. allocSz' \in [Units -> Nat] /\ nfree' \in [Clients -> Nat]
      BY <1>4, <2>0 DEF VfreeClear
    <3>3. ptr' \in [Clients -> Units] /\ want' \in [Clients -> Nat]
      BY <1>4, <2>0 DEF VfreeClear, Drop
    <3>4. pc' \in [Clients -> {"none", "live", "free"}]
      BY <1>4 DEF VfreeClear, Drop
    <3> QED BY <3>1, <3>2, <3>3, <3>4
  <2>2. Placed'
    BY <1>4 DEF VfreeClear, Drop
  <2> QED BY <2>1, <2>2
<1>5. CASE UNCHANGED poolVars
  BY <1>5 DEF poolVars
<1>6. ASSUME NEW c \in Clients, NEW nbytes \in Bytes, VmallocFails(c, nbytes) PROVE TypeInv'
  BY <1>5, <1>6 DEF VmallocFails
<1> QED BY <1>1, <1>2, <1>3, <1>4, <1>5, <1>6 DEF PoolNext

\* The pool's variables keep their types, whatever alloc_sz holds at set-up.
THEOREM PoolTypeCorrect == PoolSpec => []PoolTypeOK
<1>1. TypeInv => PoolTypeOK
  BY DEF TypeInv
<1> QED BY <1>1, TypeInit, TypeStep, PTL DEF PoolSpec

-----------------------------------------------------------------------------
(* Bounds                                                                  *)

\* Division rounds down, and is exact for a multiple.
LEMMA DivMul ==
  ASSUME NEW a \in Nat, NEW b \in Nat \ {0}
  PROVE  /\ a \div b \in Nat
         /\ (a \div b) * b <= a
         /\ a % b = 0 => (a \div b) * b = a
OBVIOUS

LEMMA MulMonotone ==
  ASSUME NEW a \in Nat, NEW b \in Nat, a <= b, NEW k \in Nat
  PROVE  a * k <= b * k
OBVIOUS

\* The units, counted in pages, fit into the buffer, counted in bytes.
LEMMA UnitsFit == NUnits * UnitSize <= BufSize
<1> DEFINE q == UnitSize \div PageSize
<1>1. q \in Nat /\ q * PageSize = UnitSize
  BY PoolAssumption, DivMul
<1>2. q # 0
  BY <1>1, PoolAssumption
<1>3. NPages \in Nat /\ NPages * PageSize <= BufSize
  BY PoolAssumption, DivMul DEF NPages
<1>4. NUnits \in Nat /\ NUnits * q <= NPages
  BY <1>1, <1>2, <1>3, DivMul DEF NUnits
<1> HIDE DEF q
<1>5. (NUnits * q) * PageSize <= NPages * PageSize
  BY <1>1, <1>3, <1>4, MulMonotone, PoolAssumption
<1>6. (NUnits * q) * PageSize = NUnits * UnitSize
  <2>1. \A x, y, z \in Nat : (x * y) * z = x * (y * z)
    OBVIOUS
  <2> QED BY <1>1, <1>4, <2>1, PoolAssumption
<1>7. NUnits * UnitSize \in Nat /\ NPages * PageSize \in Nat
  BY <1>3, <1>4, PoolAssumption
<1> QED BY <1>3, <1>5, <1>6, <1>7, PoolAssumption

\* Every block, and so the address that fill_ku_request makes of it, lies inside
\* the buffer that the daemon registered, for any sizes of buffer, unit and page
\* in which a unit is a whole number of pages.
THEOREM BlocksInBuffer == PoolSpec => []BlockInBuffer
<1>1. TypeInv => BlockInBuffer
  <2> SUFFICES ASSUME TypeInv, NEW c \in Clients, pc[c] # "none"
               PROVE  (ptr[c] + want[c]) * UnitSize <= BufSize
    BY DEF BlockInBuffer
  <2>1. ptr[c] + want[c] \in Nat /\ ptr[c] + want[c] <= NUnits
    BY PoolAssumption DEF TypeInv, PoolTypeOK, Placed, Units
  <2>2. (ptr[c] + want[c]) * UnitSize <= NUnits * UnitSize
    BY <2>1, MulMonotone, PoolAssumption
  <2>3. (ptr[c] + want[c]) * UnitSize \in Nat /\ NUnits * UnitSize \in Nat
    BY <2>1, PoolAssumption
  <2> QED BY <2>2, <2>3, UnitsFit, PoolAssumption
<1> QED BY <1>1, TypeInit, TypeStep, PTL DEF PoolSpec

-----------------------------------------------------------------------------
(* Soundness                                                               *)

\* A block with units has its size in alloc_sz, and a free in progress has
\* read it.
Sized ==
  \A c \in Clients :
    /\ pc[c] # "none" /\ want[c] # 0 => allocSz[ptr[c]] = want[c]
    /\ pc[c] = "free" => want[c] # 0 /\ nfree[c] = want[c]

Apart == \A c, d \in Clients : c # d => Block(c) \intersect Block(d) = {}

Marked == \A u \in Units : u \in bitmap <=> \E c \in Clients : u \in Block(c)

PoolInv == TypeInv /\ (~ alien => Sized /\ Apart /\ Marked)

LEMMA PoolInvInit == PoolInit => PoolInv
<1> SUFFICES ASSUME PoolInit PROVE PoolInv
  OBVIOUS
<1>1. Sized
  BY DEF PoolInit, Sized
<1>2. \A c \in Clients : Block(c) = {}
  BY DEF PoolInit, Block
<1>3. Apart /\ Marked
  BY <1>2 DEF Apart, Marked, PoolInit
<1> QED BY <1>1, <1>3, TypeInit DEF PoolInv

\* What an allocation does to the blocks.
LEMMA VmallocBlocks ==
  ASSUME PoolInv, NEW c \in Clients, NEW nbytes \in Bytes, Vmalloc(c, nbytes)
  PROVE  \E i \in Units, n \in Nat :
           /\ n = UnitsFor(nbytes)
           /\ i + n <= NUnits
           /\ i \notin bitmap
           /\ Run(i, n) \intersect bitmap = {}
           /\ Run(i, n) \subseteq Units
           /\ bitmap' = bitmap \union Run(i, n)
           /\ allocSz' = [allocSz EXCEPT ![i] = n]
           /\ ptr' = [ptr EXCEPT ![c] = i]
           /\ want' = [want EXCEPT ![c] = n]
           /\ Block(c) = {} /\ Block(c)' = Run(i, n)
           /\ \A d \in Clients \ {c} : Block(d)' = Block(d)
<1> DEFINE n == UnitsFor(nbytes)
<1>0. n \in Nat
  BY UnitsForType
<1> HIDE DEF n
<1>1. PICK i \in Units : /\ FirstZeroArea(i, n)
                         /\ bitmap' = bitmap \union Run(i, n)
                         /\ allocSz' = [allocSz EXCEPT ![i] = n]
                         /\ ptr' = [ptr EXCEPT ![c] = i]
  BY DEF Vmalloc, n
<1>2. /\ want' = [want EXCEPT ![c] = n] /\ pc' = [pc EXCEPT ![c] = "live"]
      /\ pc[c] = "none"
  BY DEF Vmalloc, n
<1>3. i \notin bitmap /\ i + n <= NUnits /\ Run(i, n) \intersect bitmap = {}
  BY <1>0, <1>1, PoolAssumption DEF FirstZeroArea, ZeroArea, PoolInv, TypeInv, PoolTypeOK, Units
<1>4. Run(i, n) \subseteq Units
  BY <1>0, <1>3, PoolAssumption DEF Run, Units
<1>5. Block(c) = {} /\ Block(c)' = Run(i, n)
  BY <1>1, <1>2 DEF Block, PoolInv, TypeInv, PoolTypeOK
<1>6. \A d \in Clients \ {c} : Block(d)' = Block(d)
  BY <1>1, <1>2 DEF Block, PoolInv, TypeInv, PoolTypeOK
<1> QED BY <1>0, <1>1, <1>2, <1>3, <1>4, <1>5, <1>6 DEF n

\* While alien is false, the first half of qhgpu_vfree changes no block.
LEMMA VfreeReadBlocks ==
  ASSUME PoolInv, NEW c \in Clients, VfreeRead(c), ~ alien'
  PROVE  /\ ~ alien
         /\ \A d \in Clients : Block(d)' = Block(d)
         /\ IF want[c] = 0
              THEN Drop(c) /\ UNCHANGED nfree
              ELSE /\ nfree' = [nfree EXCEPT ![c] = want[c]]
                   /\ pc' = [pc EXCEPT ![c] = "free"]
                   /\ UNCHANGED <<ptr, want>>
<1> USE DEF PoolInv, TypeInv, PoolTypeOK
<1>1. ~ alien /\ pc[c] = "live" /\ (want[c] # 0 \/ allocSz[ptr[c]] = 0)
  BY DEF VfreeRead
<1>2. want[c] # 0 => allocSz[ptr[c]] = want[c]
  BY <1>1 DEF Sized
<1>3. CASE want[c] = 0
  <2>1. Drop(c) /\ UNCHANGED nfree
    BY <1>1, <1>3 DEF VfreeRead
  <2>2. Block(c) = {} /\ Block(c)' = {}
    BY <1>1, <1>3, <2>1 DEF Drop, Block, Run, Units
  <2>3. \A d \in Clients \ {c} : Block(d)' = Block(d)
    BY <2>1 DEF Drop, Block
  <2> QED BY <1>1, <1>3, <2>1, <2>2, <2>3
<1>4. CASE want[c] # 0
  <2>1. want[c] <= nunits - ptr[c]
    BY <1>1, PoolAssumption DEF Placed, Units
  <2>2. /\ nfree' = [nfree EXCEPT ![c] = want[c]]
        /\ pc' = [pc EXCEPT ![c] = "free"]
        /\ UNCHANGED <<ptr, want>>
    BY <1>2, <1>4, <2>1, PoolAssumption DEF VfreeRead, Units
  <2>3. \A d \in Clients : Block(d)' = Block(d)
    BY <1>1, <2>2 DEF Block
  <2> QED BY <1>1, <1>4, <2>2, <2>3
<1> QED BY <1>3, <1>4

\* While alien is false, the second half frees exactly the client's block.
LEMMA VfreeClearBlocks ==
  ASSUME PoolInv, NEW c \in Clients, VfreeClear(c), ~ alien
  PROVE  /\ bitmap' = bitmap \ Block(c)
         /\ ptr[c] \in Block(c)
         /\ Block(c)' = {}
         /\ \A d \in Clients \ {c} : Block(d)' = Block(d)
<1> USE DEF PoolInv, TypeInv, PoolTypeOK
<1>1. pc[c] = "free" /\ nfree[c] = want[c] /\ want[c] # 0
  BY DEF VfreeClear, Sized
<1>2. Block(c) = Run(ptr[c], nfree[c])
  BY <1>1 DEF Block
<1>3. ptr[c] \in Block(c)
  BY <1>1, <1>2, PoolAssumption DEF Run, Units
<1>4. Block(c)' = {} /\ \A d \in Clients \ {c} : Block(d)' = Block(d)
  BY DEF VfreeClear, Drop, Block
<1> QED BY <1>2, <1>3, <1>4 DEF VfreeClear

LEMMA PoolInvStep == PoolInv /\ [PoolNext]_poolVars => PoolInv'
<1> SUFFICES ASSUME PoolInv, [PoolNext]_poolVars, ~ alien'
             PROVE  (Sized /\ Apart /\ Marked)'
  BY TypeStep DEF PoolInv
<1>0. TypeInv'
  BY TypeStep DEF PoolInv
<1> USE DEF PoolInv
<1>1. CASE SetGpuMempool
  <2>1. UNCHANGED <<pc, ptr, nfree, want, alien>> /\ bitmap' = {} /\ nunits = 0
    BY <1>1 DEF SetGpuMempool
  <2>2. \A c \in Clients : pc[c] = "none"
    BY <2>1, PoolAssumption DEF TypeInv, Placed
  <2>3. \A c \in Clients : Block(c) = {} /\ Block(c)' = {}
    BY <2>1, <2>2 DEF Block
  <2> QED BY <2>1, <2>2, <2>3 DEF Sized, Apart, Marked
<1>2. ASSUME NEW c \in Clients, NEW nbytes \in Bytes, Vmalloc(c, nbytes)
      PROVE  (Sized /\ Apart /\ Marked)'
  <2>1. PICK i \in Units, n \in Nat :
           /\ i \notin bitmap
           /\ Run(i, n) \intersect bitmap = {}
           /\ Run(i, n) \subseteq Units
           /\ bitmap' = bitmap \union Run(i, n)
           /\ allocSz' = [allocSz EXCEPT ![i] = n]
           /\ ptr' = [ptr EXCEPT ![c] = i]
           /\ want' = [want EXCEPT ![c] = n]
           /\ Block(c) = {} /\ Block(c)' = Run(i, n)
           /\ \A d \in Clients \ {c} : Block(d)' = Block(d)
    BY <1>2, VmallocBlocks
  <2>2. ~ alien /\ pc' = [pc EXCEPT ![c] = "live"] /\ UNCHANGED nfree
    BY <1>2 DEF Vmalloc
  <2>3. \A d \in Clients \ {c} : Block(d) \intersect Run(i, n) = {}
    BY <2>1, <2>2 DEF Marked
  <2>4. Apart'
    BY <2>1, <2>2, <2>3 DEF Apart
  <2>5. Marked'
    BY <2>1, <2>2 DEF Marked
  <2>6. \A d \in Clients : pc[d] # "none" /\ want[d] # 0 => ptr[d] # i
    <3> SUFFICES ASSUME NEW d \in Clients, pc[d] # "none", want[d] # 0 PROVE ptr[d] # i
      OBVIOUS
    <3>1. ptr[d] \in Block(d)
      BY PoolAssumption DEF Block, Run, TypeInv, PoolTypeOK, Units
    <3>2. ptr[d] \in bitmap
      BY <2>2, <3>1 DEF Marked, TypeInv, PoolTypeOK
    <3> QED BY <2>1, <3>2
  <2>7. Sized'
    BY <2>1, <2>2, <2>6 DEF Sized, TypeInv, PoolTypeOK
  <2> QED BY <2>4, <2>5, <2>7
<1>3. ASSUME NEW c \in Clients, VfreeRead(c)
      PROVE  (Sized /\ Apart /\ Marked)'
  <2>1. ~ alien /\ \A d \in Clients : Block(d)' = Block(d)
    BY <1>3, VfreeReadBlocks
  <2>2. UNCHANGED <<bitmap, allocSz>>
    BY <1>3 DEF VfreeRead
  <2>3. Apart' /\ Marked'
    BY <2>1, <2>2 DEF Apart, Marked
  <2>4. CASE want[c] = 0
    <3>1. Drop(c) /\ UNCHANGED nfree
      BY <1>3, <2>4, VfreeReadBlocks
    <3> QED BY <2>1, <2>2, <2>3, <3>1 DEF Drop, Sized, TypeInv, PoolTypeOK
  <2>5. CASE want[c] # 0
    <3>1. /\ nfree' = [nfree EXCEPT ![c] = want[c]]
          /\ pc' = [pc EXCEPT ![c] = "free"]
          /\ UNCHANGED <<ptr, want>>
      BY <1>3, <2>5, VfreeReadBlocks
    <3>2. pc[c] = "live"
      BY <1>3 DEF VfreeRead
    <3> QED BY <2>1, <2>2, <2>3, <2>5, <3>1, <3>2 DEF Sized, TypeInv, PoolTypeOK
  <2> QED BY <2>4, <2>5
<1>4. ASSUME NEW c \in Clients, VfreeClear(c)
      PROVE  (Sized /\ Apart /\ Marked)'
  <2>1. ~ alien
    BY <1>4 DEF VfreeClear
  <2>2. /\ bitmap' = bitmap \ Block(c)
        /\ ptr[c] \in Block(c)
        /\ Block(c)' = {}
        /\ \A d \in Clients \ {c} : Block(d)' = Block(d)
    BY <1>4, <2>1, VfreeClearBlocks
  <2>3. Apart'
    BY <2>1, <2>2 DEF Apart
  <2>4. Marked'
    BY <2>1, <2>2 DEF Marked, Apart
  <2>5. \A d \in Clients \ {c} : pc[d] # "none" /\ want[d] # 0 => ptr[d] # ptr[c]
    <3> SUFFICES ASSUME NEW d \in Clients \ {c}, pc[d] # "none", want[d] # 0 PROVE ptr[d] # ptr[c]
      OBVIOUS
    <3>1. ptr[d] \in Block(d)
      BY PoolAssumption DEF Block, Run, TypeInv, PoolTypeOK, Units
    <3> QED BY <2>1, <2>2, <3>1 DEF Apart
  <2>6. Sized'
    BY <1>4, <2>1, <2>5 DEF VfreeClear, Drop, Sized, TypeInv, PoolTypeOK
  <2> QED BY <2>3, <2>4, <2>6
<1>5. CASE UNCHANGED poolVars
  BY <1>5 DEF poolVars, Sized, Apart, Marked, Block, Run
<1>6. ASSUME NEW c \in Clients, NEW nbytes \in Bytes, VmallocFails(c, nbytes)
      PROVE  (Sized /\ Apart /\ Marked)'
  BY <1>5, <1>6 DEF VmallocFails
<1> QED BY <1>1, <1>2, <1>3, <1>4, <1>5, <1>6 DEF PoolNext

\* Blocks are disjoint and the bitmap is exact, for any pool and any clients,
\* as long as no block of zero bytes was freed under another block.
THEOREM PoolIsSound == PoolSpec => []PoolSound
<1>1. PoolInv => PoolSound
  BY DEF PoolInv, PoolSound, Apart, Marked
<1> QED BY <1>1, PoolInvInit, PoolInvStep, PTL DEF PoolSpec

\* The unlocked read of alloc_sz in qhgpu_vfree is harmless: what it read is
\* still right under the lock.
THEOREM SizesStayRight == PoolSpec => []SizeStaysRight
<1>1. PoolInv => SizeStaysRight
  BY DEF PoolInv, Sized, SizeStaysRight
<1> QED BY <1>1, PoolInvInit, PoolInvStep, PTL DEF PoolSpec

-----------------------------------------------------------------------------
(* Refinement                                                              *)

LEMMA RefInitMaps == PoolInit => Blocks!BlockInit
BY DEF PoolInit, Blocks!BlockInit, Owned, Block

LEMMA RefStepMaps ==
  PoolInv /\ [PoolNext]_poolVars => (~ alien' => [Blocks!BlockNext]_Owned)
<1> SUFFICES ASSUME PoolInv, [PoolNext]_poolVars, ~ alien',
                    Owned' # Owned
             PROVE  \E c \in Clients : Blocks!Alloc(c) \/ Blocks!Free(c)
  BY DEF Blocks!BlockNext
<1>1. CASE SetGpuMempool
  BY <1>1 DEF SetGpuMempool, Owned, Block
<1>2. ASSUME NEW c \in Clients, NEW nbytes \in Bytes, Vmalloc(c, nbytes) PROVE Blocks!Alloc(c)
  <2>1. PICK i \in Units, n \in Nat :
           /\ i + n <= NUnits
           /\ Run(i, n) \intersect bitmap = {}
           /\ Run(i, n) \subseteq Units
           /\ Block(c) = {} /\ Block(c)' = Run(i, n)
           /\ \A d \in Clients \ {c} : Block(d)' = Block(d)
    BY <1>2, VmallocBlocks
  <2>2. n # 0
    <3> SUFFICES ASSUME n = 0 PROVE Owned' = Owned
      OBVIOUS
    <3>1. Run(i, n) = {}
      BY PoolAssumption DEF Run, Units
    <3>2. \A d \in Clients : Block(d)' = Block(d)
      BY <2>1, <3>1
    <3> QED BY <3>2 DEF Owned
  <2>3. i + n - 1 \in Units /\ i <= i + n - 1
    BY <2>1, <2>2, PoolAssumption DEF Units
  <2>4. i .. i + n - 1 \subseteq Blocks!Unowned
    <3>1. ~ alien
      BY <1>2 DEF Vmalloc
    <3> QED BY <2>1, <3>1 DEF Blocks!Unowned, Owned, Run, PoolInv, Marked
  <2>5. Owned' = [Owned EXCEPT ![c] = i .. i + n - 1]
    BY <2>1 DEF Owned, Run
  <2> QED BY <2>1, <2>3, <2>4, <2>5 DEF Blocks!Alloc, Owned
<1>3. ASSUME NEW c \in Clients, VfreeRead(c) PROVE FALSE
  <2>1. \A d \in Clients : Block(d)' = Block(d)
    BY <1>3, VfreeReadBlocks
  <2> QED BY <2>1 DEF Owned
<1>4. ASSUME NEW c \in Clients, VfreeClear(c) PROVE Blocks!Free(c)
  <2>1. ~ alien
    BY <1>4 DEF VfreeClear
  <2>2. Block(c)' = {} /\ \A d \in Clients \ {c} : Block(d)' = Block(d)
    BY <1>4, <2>1, VfreeClearBlocks
  <2> QED BY <2>2 DEF Blocks!Free, Owned
<1>5. CASE UNCHANGED poolVars
  BY <1>5 DEF poolVars, Owned, Block
<1>6. ASSUME NEW c \in Clients, NEW nbytes \in Bytes, VmallocFails(c, nbytes) PROVE FALSE
  BY <1>5, <1>6 DEF VmallocFails, poolVars, Owned, Block
<1> QED BY <1>1, <1>2, <1>3, <1>4, <1>5, <1>6 DEF PoolNext

\* qhgpu_vmalloc and qhgpu_vfree keep what BlockPool promises, whatever alloc_sz
\* held at set-up and however the two halves of concurrent frees interleave with
\* allocations, up to the free of an empty block that finds another block's size.
THEOREM PoolStepsAreBlockSteps == PoolSpec => Blocks!BlockInit /\ PoolIsBlockPool
<1> QED BY PoolInvInit, PoolInvStep, RefInitMaps, RefStepMaps, PTL DEF PoolSpec, PoolIsBlockPool

\* Without requests for zero bytes every block has a unit and alien stays
\* false.
Positive == ~ alien /\ \A c \in Clients : pc[c] # "none" => want[c] # 0

RefInv == PoolInv /\ Positive

LEMMA RefInit == PoolInit => RefInv
BY PoolInvInit DEF RefInv, Positive, PoolInit

LEMMA RefStep ==
  ASSUME 0 \notin Bytes
  PROVE  RefInv /\ [PoolNext]_poolVars => RefInv'
<1> SUFFICES ASSUME RefInv, [PoolNext]_poolVars PROVE RefInv'
  OBVIOUS
<1>0. PoolInv'
  BY PoolInvStep DEF RefInv
<1> USE DEF RefInv, Positive, PoolInv, TypeInv, PoolTypeOK
<1>1. CASE SetGpuMempool
  BY <1>0, <1>1 DEF SetGpuMempool
<1>2. ASSUME NEW c \in Clients, NEW nbytes \in Bytes, Vmalloc(c, nbytes) PROVE Positive'
  <2>1. UnitsFor(nbytes) # 0
    BY UnitsForType
  <2> QED BY <1>2, <2>1 DEF Vmalloc
<1>3. ASSUME NEW c \in Clients, VfreeRead(c) PROVE Positive'
  BY <1>3 DEF VfreeRead, Drop
<1>4. ASSUME NEW c \in Clients, VfreeClear(c) PROVE Positive'
  BY <1>4 DEF VfreeClear, Drop
<1>5. CASE UNCHANGED poolVars
  BY <1>0, <1>5 DEF poolVars
<1>6. ASSUME NEW c \in Clients, NEW nbytes \in Bytes, VmallocFails(c, nbytes) PROVE Positive'
  BY <1>5, <1>6 DEF VmallocFails
<1> QED BY <1>0, <1>1, <1>2, <1>3, <1>4, <1>5, <1>6 DEF PoolNext

\* When nobody asks for zero bytes, the pool is a BlockPool for ever.
THEOREM PoolImplementsBlocks ==
  ASSUME 0 \notin Bytes
  PROVE  PoolSpec => Blocks!BlockSpec
<1>1. RefInv /\ [PoolNext]_poolVars => RefInv' /\ [Blocks!BlockNext]_Owned
  BY RefStep, RefStepMaps DEF RefInv, Positive
<1> QED BY <1>1, RefInit, RefInitMaps, PTL DEF PoolSpec, Blocks!BlockSpec
=============================================================================
