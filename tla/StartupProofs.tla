---------------------------- MODULE StartupProofs ----------------------------
(***************************************************************************)
(* One daemon at most has the device, now and for ever, and what it left   *)
(* when it served is what clients find, for any number of daemons, clients *)
(* and service files.  And the daemon's list of services stays in order,   *)
(* whichever services come and go.                                         *)
(***************************************************************************)
EXTENDS Startup, ServiceRegistry, SeqLemmas

-----------------------------------------------------------------------------
(* The invariant                                                           *)

SlotCounts == (FileCounts \ {0}) \cup {1}

\* The clients' array of n slots: what vmalloc left there, or pages.
Arrays(n) == [0 .. n - 1 -> {Garbage} \cup (Daemons \X (0 .. n - 1))]

StartTypes ==
  /\ node \in {"none", "missing", "dead", "ready"} /\ caches \in BOOLEAN
  /\ pool \in {"empty", "noPages", "noBitmap", "noSizes", "noMap", "ready"}
  /\ dpc \in [Daemons -> DaemonPcs] /\ fd \in [Daemons -> BOOLEAN]
  /\ cnt \in [Daemons -> SlotCounts \cup {0}] /\ DOMAIN dmap = Daemons
  /\ moduleCnt \in Nat /\ mmapCount \in 0 .. moduleCnt
  /\ cpc \in [Clients -> {"none", "id", "addr", "has", "called", "oops"}]
  /\ cslot \in [Clients -> Nat] /\ cblock \in [Clients -> {Null, "block", "wild"}]
  /\ DOMAIN caddr = Clients /\ late \in [Clients -> BOOLEAN]

\* The tables as insmod left them.
Pristine == pool = "empty" /\ moduleCnt = 0 /\ mmapCount = 0 /\ kmmap = Null /\ pages = Null

Refused == {d \in Daemons : dpc[d] = "refused"}

\* qhgpu_av is 1 until a daemon gets the device; from then on it is 0 less those
\* who were refused and have not yet given their count back.
CounterInv ==
  /\ node = "ready" => caches
  /\ \/ av = 1 /\ Refused = {} /\ Pristine /\ \A d \in Daemons : ~ fd[d]
     \/ av = - Cardinality(Refused) /\ node = "ready"

\* The pages of the first n slots are allocated.
PagesUpTo(d, n) ==
  pages # Null /\ DOMAIN pages = 0 .. n - 1 /\ \A k \in 0 .. n - 1 : pages[k] = <<d, k>>

\* The clients' array, if vmalloc gave one: the pages of as many slots as qhgpu_mmap
\* has counted, and behind them what vmalloc left.
KmmapRight(d) ==
  \/ kmmap = Null /\ mmapCount = 0
  \/ /\ kmmap \in Arrays(cnt[d])
     /\ \A k \in 0 .. cnt[d] - 1 : kmmap[k] = IF k < mmapCount THEN <<d, k>> ELSE Garbage

AllMapped(d, n) == \A j \in 0 .. n - 1 : dmap[d][j] # MapFailed

\* The daemon has called mmap n times: as many of the calls were counted as did not
\* fail, so a slot has its own number's pages just when none failed up to it.
MappedUpTo(d, n) ==
  /\ DOMAIN dmap[d] = 0 .. n - 1 /\ mmapCount <= n
  /\ mmapCount = n <=> AllMapped(d, n)
  /\ \A k \in 0 .. n - 1 :
       \/ dmap[d][k] = MapFailed
       \/ \E i \in 0 .. k : i < mmapCount /\ dmap[d][k] = <<d, i>> /\ (i = k <=> AllMapped(d, k + 1))
  /\ \A k \in 0 .. n - 1 : \A j \in 0 .. k - 1 : dmap[d][j] = dmap[d][k] => dmap[d][k] = MapFailed

\* How far the daemon that has the device came, and what it did to the tables.
Stage(d) ==
  \/ /\ dpc[d] \in {"init", "bufs"}
     /\ Pristine /\ dmap[d] = <<>>
  \/ /\ dpc[d] \in {"opencl", "loading", "setMmap"}
     /\ pool = "ready" /\ moduleCnt = 0 /\ mmapCount = 0 /\ kmmap = Null /\ pages = Null /\ dmap[d] = <<>>
     /\ dpc[d] = "setMmap" => cnt[d] \in SlotCounts
  \/ /\ dpc[d] \in {"checker", "kmmap"}
     /\ pool = "ready" /\ cnt[d] \in SlotCounts /\ moduleCnt = cnt[d]
     /\ mmapCount = 0 /\ kmmap = Null /\ pages = Null /\ dmap[d] = <<>>
  \/ /\ dpc[d] \in {"arrays", "pages"}
     /\ pool = "ready" /\ cnt[d] \in SlotCounts /\ moduleCnt = cnt[d]
     /\ mmapCount = 0 /\ KmmapRight(d) /\ dmap[d] = <<>>
     /\ \/ pages = Null
        \/ dpc[d] = "pages" /\ \E k \in 0 .. cnt[d] : PagesUpTo(d, k)
  \/ /\ dpc[d] \in {"map", "loop"}
     /\ pool = "ready" /\ cnt[d] \in SlotCounts /\ moduleCnt = cnt[d]
     /\ KmmapRight(d) /\ PagesUpTo(d, cnt[d])
     /\ \E n \in 0 .. cnt[d] : MappedUpTo(d, n) /\ (dpc[d] = "loop" => n = cnt[d])

HolderInv ==
  /\ \A d, e \in Daemons : fd[d] /\ fd[e] => d = e
  /\ \A d \in Daemons : SettingUp(d) => fd[d]
  /\ \A d \in Daemons : fd[d] => Stage(d)

\* The tables are as complete as they get, and nobody will touch them again.
Settled ==
  /\ pool = "ready" /\ av # 1
  /\ moduleCnt \in SlotCounts
  /\ pages # Null /\ DOMAIN pages = 0 .. moduleCnt - 1
  /\ \A k \in 0 .. moduleCnt - 1 : pages[k] \in Daemons \X Nat
  /\ kmmap # Null => \A k \in 0 .. moduleCnt - 1 : kmmap[k] = IF k < mmapCount THEN pages[k] ELSE Garbage
  /\ \A d \in Daemons : fd[d] => dpc[d] = "loop"

Served(c) ==
  /\ cpc[c] \in {"id", "addr", "has", "called", "oops"} /\ cblock[c] # "wild"
  /\ cpc[c] = "oops" => Null \in {checker, kmmap, modules}
  /\ cpc[c] \in {"addr", "has", "called"} => cslot[c] \in 0 .. moduleCnt - 1
  /\ cpc[c] \in {"has", "called"} => kmmap # Null /\ caddr[c] = kmmap[cslot[c]]

LateInv == \A c \in Clients : late[c] => Settled /\ Served(c)

StartInv == StartTypes /\ CounterInv /\ HolderInv /\ LateInv

-----------------------------------------------------------------------------
(* Numbers of slots, pages and refused daemons                             *)

LEMMA SlotCountsPositive == SlotCounts \subseteq Nat \ {0}
BY StartupAssumption DEF SlotCounts

LEMMA NullIsNoArray ==
  \A n \in SlotCounts : \A k \in 0 .. n : Null \notin [0 .. k - 1 -> {Garbage} \cup (Daemons \X (0 .. n - 1))]
BY StartupAssumption DEF SlotCounts

LEMMA SlotsCounted ==
  ASSUME NEW n \in Nat
  PROVE  Cardinality(0 .. n - 1) = n
<1>1. Cardinality(0 .. n - 1) = IF 0 <= n - 1 THEN (n - 1) - 0 + 1 ELSE 0
  BY FS_Interval
<1> QED BY <1>1

LEMMA NothingMapped == DOMAIN <<>> = 0 .. -1 /\ Cardinality(DOMAIN <<>>) = 0
<1>1. DOMAIN <<>> = {}
  OBVIOUS
<1>2. 0 .. -1 = {}
  OBVIOUS
<1> QED BY <1>1, <1>2, FS_EmptySet

LEMMA RefusedCounted ==
  ASSUME StartTypes
  PROVE  /\ IsFiniteSet(Refused) /\ Cardinality(Refused) \in 0 .. Cardinality(Daemons)
         /\ \A d \in Daemons \ Refused :
              Cardinality(Refused \cup {d}) = Cardinality(Refused) + 1
         /\ \A d \in Refused : /\ Cardinality(Refused \ {d}) = Cardinality(Refused) - 1
                              /\ Cardinality(Refused) # 0
<1>1. IsFiniteSet(Refused) /\ Refused \subseteq Daemons /\ IsFiniteSet(Daemons)
  BY StartupAssumption, FS_Subset DEF Refused
<1>2. Cardinality(Refused) \in Nat /\ Cardinality(Refused) <= Cardinality(Daemons) /\ Cardinality(Daemons) \in Nat
  BY <1>1, FS_Subset, FS_CardinalityType
<1>3. \A d \in Daemons \ Refused : Cardinality(Refused \cup {d}) = Cardinality(Refused) + 1
  BY <1>1, FS_AddElement
<1>4. \A d \in Refused : Cardinality(Refused \ {d}) = Cardinality(Refused) - 1
  BY <1>1, FS_RemoveElement
<1>5. \A d \in Refused : Cardinality(Refused) # 0
  BY <1>1, FS_EmptySet
<1> QED BY <1>1, <1>2, <1>3, <1>4, <1>5

-----------------------------------------------------------------------------
(* Frames                                                                  *)

\* What a daemon does not touch leaves the stage of another as it is.
LEMMA StageFrame ==
  ASSUME NEW d \in Daemons, UNCHANGED <<pool, slotTable>>,
         dpc'[d] = dpc[d], cnt'[d] = cnt[d], dmap'[d] = dmap[d], Stage(d)
  PROVE  Stage(d)'
<1>1. /\ UNCHANGED <<pool, moduleCnt, kmmap, pages, mmapCount>>
      /\ dpc'[d] = dpc[d] /\ cnt'[d] = cnt[d] /\ dmap'[d] = dmap[d]
  BY DEF slotTable
<1>2. ASSUME NEW n PROVE PagesUpTo(d, n)' <=> PagesUpTo(d, n)
  BY <1>1 DEF PagesUpTo
<1>3. KmmapRight(d)' <=> KmmapRight(d)
  BY <1>1 DEF KmmapRight, Arrays
<1>4. ASSUME NEW n PROVE MappedUpTo(d, n)' <=> MappedUpTo(d, n)
  <2>1. ASSUME NEW i PROVE AllMapped(d, i)' <=> AllMapped(d, i)
    BY <1>1 DEF AllMapped
  <2> QED BY <1>1, <2>1 DEF MappedUpTo
<1>5. Pristine' <=> Pristine
  BY <1>1 DEF Pristine
<1> QED BY <1>1, <1>2, <1>3, <1>4, <1>5 DEF Stage

\* Clients do not notice the steps that leave complete tables complete.
LEMMA LateFrame ==
  ASSUME LateInv, UNCHANGED clients,
         \A c \in Clients : late[c] => Settled' /\ UNCHANGED slotTable
  PROVE  LateInv'
BY DEF LateInv, Served, clients, slotTable

\* Steps that leave the tables alone, give nobody the device and do not move its
\* daemon keep complete tables complete.
LEMMA SettledFrame ==
  ASSUME Settled, UNCHANGED <<pool, slotTable>>, av' # 1,
         \A d \in Daemons : fd'[d] => fd[d] /\ dpc'[d] = dpc[d]
  PROVE  Settled'
BY DEF Settled, slotTable

LEMMA InitInv == StartInit => StartInv
<1> SUFFICES ASSUME StartInit PROVE StartInv
  OBVIOUS
<1>1. StartTypes
  <2>1. fd \in [Daemons -> BOOLEAN] /\ late \in [Clients -> BOOLEAN] /\ caches \in BOOLEAN
    BY DEF StartInit
  <2>2. dpc \in [Daemons -> DaemonPcs] /\ cnt \in [Daemons -> SlotCounts \cup {0}]
    BY DEF StartInit, DaemonPcs
  <2>3. moduleCnt \in Nat /\ mmapCount \in 0 .. moduleCnt
    BY DEF StartInit
  <2>4. /\ cpc \in [Clients -> {"none", "id", "addr", "has", "called", "oops"}]
        /\ cslot \in [Clients -> Nat] /\ cblock \in [Clients -> {Null, "block", "wild"}]
    BY DEF StartInit
  <2>5. DOMAIN dmap = Daemons /\ DOMAIN caddr = Clients
    BY DEF StartInit
  <2> QED BY <2>1, <2>2, <2>3, <2>4, <2>5 DEF StartInit, StartTypes
<1>2. CounterInv
  BY DEF StartInit, CounterInv, Refused, Pristine
<1>3. HolderInv
  BY DEF StartInit, HolderInv, SettingUp
<1>4. LateInv
  BY DEF StartInit, LateInv
<1> QED BY <1>1, <1>2, <1>3, <1>4 DEF StartInv

-----------------------------------------------------------------------------
(* A daemon with the device                                                *)

\* While qhgpu_av is 1 nobody has the device.
LEMMA HolderMeansTaken ==
  ASSUME StartInv, NEW d \in Daemons, fd[d]
  PROVE  av # 1 /\ av = - Cardinality(Refused) /\ node = "ready" /\ caches
<1>1. av = - Cardinality(Refused) /\ node = "ready" /\ caches
  BY DEF StartInv, CounterInv
<1>2. Cardinality(Refused) \in Nat
  BY RefusedCounted DEF StartInv
<1> QED BY <1>1, <1>2

\* Only one daemon has the device, so a step of it has to keep its own stage; and
\* while it is not in its main loop no client counts as late.
LEMMA HolderStep ==
  ASSUME StartInv, NEW d \in Daemons, fd[d], dpc[d] # "loop",
         NEW there \in DaemonPcs \ {"refused", "off", "dead"},
         Goes(d, there), UNCHANGED <<node, caches, av, fd, clients>>,
         StartTypes', Stage(d)'
  PROVE  StartInv'
<1> USE DEF StartInv
<1>1. dpc[d] # "refused"
  BY DEF HolderInv, Stage
<1>2. av # 1
  BY HolderMeansTaken
<1>3. Refused' = Refused
  BY <1>1 DEF Refused, Goes, StartTypes
<1>4. CounterInv'
  BY <1>2, <1>3 DEF CounterInv
<1>5. HolderInv'
  BY DEF HolderInv, SettingUp, Goes, StartTypes
<1>6. LateInv'
  BY LateFrame DEF LateInv, Settled
<1> QED BY <1>4, <1>5, <1>6

\* A daemon that ends keeps the count, so nobody follows it.
LEMMA DiesStep ==
  ASSUME StartInv, NEW d \in Daemons, dpc[d] # "refused", Dies(d),
         UNCHANGED <<node, caches, slotTable, cnt, dmap, clients>>,
         pool' \in {"empty", "noPages", "noBitmap", "noSizes", "noMap", "ready"},
         UNCHANGED pool \/ (fd[d] /\ dpc[d] # "loop")
  PROVE  StartInv'
<1> USE DEF StartInv
<1>0. /\ dpc' = [dpc EXCEPT ![d] = "dead"] /\ fd' = [fd EXCEPT ![d] = FALSE] /\ av' = av
      /\ dpc \in [Daemons -> DaemonPcs] /\ fd \in [Daemons -> BOOLEAN]
  BY DEF Dies, Goes, StartTypes
<1>1. StartTypes'
  BY <1>0 DEF StartTypes, DaemonPcs, slotTable, clients
<1>2. Refused' = Refused
  BY <1>0 DEF Refused
<1>3. CounterInv'
  <2>1. CASE av = 1 /\ Refused = {} /\ Pristine /\ \A e \in Daemons : ~ fd[e]
    BY <1>0, <1>2, <2>1 DEF CounterInv, Pristine, slotTable
  <2>2. CASE av = - Cardinality(Refused) /\ node = "ready"
    BY <1>0, <1>2, <2>2 DEF CounterInv
  <2> QED BY <2>1, <2>2 DEF CounterInv
<1>4. HolderInv'
  <2>1. \A e \in Daemons : fd'[e] => e # d /\ fd[e] /\ dpc'[e] = dpc[e]
    BY <1>0
  <2>2. \A e \in Daemons : SettingUp(e)' => e # d /\ SettingUp(e)
    BY <1>0 DEF SettingUp
  <2>3. \A e \in Daemons : SettingUp(e)' => fd'[e]
    BY <1>0, <2>2 DEF HolderInv
  <2>4. \A e \in Daemons : fd'[e] => Stage(e)'
    <3> SUFFICES ASSUME NEW e \in Daemons, fd'[e] PROVE Stage(e)'
      OBVIOUS
    <3>1. fd[e] /\ UNCHANGED pool
      BY <2>1 DEF HolderInv
    <3> QED BY <2>1, <3>1, StageFrame DEF HolderInv
  <2> QED BY <2>1, <2>3, <2>4 DEF HolderInv
<1>5. LateInv'
  <2>1. \A c \in Clients : late[c] => Settled /\ UNCHANGED pool
    BY DEF LateInv, Settled
  <2>2. \A e \in Daemons : fd'[e] => fd[e] /\ dpc'[e] = dpc[e]
    BY <1>0
  <2>3. \A c \in Clients : late[c] => Settled'
    BY <1>0, <2>1, <2>2, SettledFrame DEF Settled
  <2> QED BY <2>3, LateFrame DEF slotTable
<1> QED BY <1>1, <1>3, <1>4, <1>5

-----------------------------------------------------------------------------
(* The device is opened                                                    *)

\* The first opener gets the device, untouched; all the others are refused.
LEMMA OpenStep ==
  ASSUME StartInv, NEW d \in Daemons, QhgpuOpen(d)
  PROVE  StartInv'
<1> USE DEF StartInv
<1>0. /\ dpc[d] \in {"off", "dead"} /\ d \notin Refused
      /\ dmap' = [dmap EXCEPT ![d] = <<>>] /\ cnt' = [cnt EXCEPT ![d] = 0]
      /\ UNCHANGED <<node, caches, pool, slotTable, clients>>
      /\ dpc \in [Daemons -> DaemonPcs] /\ fd \in [Daemons -> BOOLEAN]
      /\ DOMAIN dmap = Daemons /\ cnt \in [Daemons -> SlotCounts \cup {0}]
  BY DEF QhgpuOpen, Refused, StartTypes
<1>1. ~ fd[d]
  BY <1>0 DEF HolderInv, Stage
<1>2. Cardinality(Refused) \in Nat /\ Cardinality(Refused \cup {d}) = Cardinality(Refused) + 1
  BY <1>0, RefusedCounted
<1>3. \A e \in Daemons : fd[e] => e # d /\ dmap'[e] = dmap[e] /\ cnt'[e] = cnt[e]
  BY <1>0, <1>1
<1>4. ASSUME NEW there \in {"init", "refused"}, Goes(d, there), fd' \in [Daemons -> BOOLEAN]
      PROVE  StartTypes'
  <2>1. dpc' \in [Daemons -> DaemonPcs]
    BY <1>0, <1>4 DEF Goes, DaemonPcs
  <2>2. cnt' \in [Daemons -> SlotCounts \cup {0}] /\ DOMAIN dmap' = Daemons
    BY <1>0
  <2> QED BY <1>0, <1>4, <2>1, <2>2 DEF StartTypes, slotTable, clients
<1>5. ASSUME NEW there \in {"init", "refused"}, Goes(d, there), UNCHANGED fd
      PROVE  HolderInv'
  <2>1. \A e \in Daemons : SettingUp(e)' => e # d /\ SettingUp(e)
    BY <1>0, <1>5 DEF SettingUp, Goes
  <2>2. \A e \in Daemons : fd[e] => Stage(e)'
    <3> SUFFICES ASSUME NEW e \in Daemons, fd[e] PROVE Stage(e)'
      OBVIOUS
    <3>1. dpc'[e] = dpc[e] /\ Stage(e)
      BY <1>0, <1>3, <1>5 DEF Goes, HolderInv
    <3> QED BY <1>0, <1>3, <3>1, StageFrame
  <2> QED BY <1>5, <2>1, <2>2 DEF HolderInv
<1>6. ASSUME NEW there \in {"init", "refused"}, Goes(d, there), UNCHANGED fd, av' # 1 \/ UNCHANGED av
      PROVE  LateInv'
  <2>1. \A e \in Daemons : fd'[e] => fd[e] /\ dpc'[e] = dpc[e]
    BY <1>0, <1>3, <1>6 DEF Goes
  <2>2. \A c \in Clients : late[c] => Settled /\ av' # 1
    BY <1>6 DEF LateInv, Settled
  <2>3. \A c \in Clients : late[c] => Settled'
    BY <1>0, <2>1, <2>2, SettledFrame
  <2> QED BY <1>0, <2>3, LateFrame DEF slotTable
<1>7. CASE node = "ready" /\ av = 1
  <2>1. /\ av' = 0 /\ fd' = [fd EXCEPT ![d] = TRUE] /\ dpc' = [dpc EXCEPT ![d] = "init"]
    <3>1. av' = 0
      BY <1>7 DEF QhgpuOpen
    <3>2. fd' = [fd EXCEPT ![d] = av' = 0] /\ dpc' = [dpc EXCEPT ![d] = "init"]
      BY <1>7, <3>1 DEF QhgpuOpen, Goes
    <3>3. (av' = 0) = TRUE
      BY <3>1
    <3> QED BY <3>1, <3>2, <3>3
  <2>2. Refused = {} /\ Pristine /\ caches /\ \A e \in Daemons : ~ fd[e]
    BY <1>2, <1>7 DEF CounterInv
  <2>3. fd' \in [Daemons -> BOOLEAN] /\ fd'[d] /\ \A e \in Daemons : fd'[e] => e = d
    BY <1>0, <2>1, <2>2
  <2>4. StartTypes'
    BY <1>4, <2>1, <2>3 DEF Goes
  <2>5. CounterInv'
    <3>1. Refused' = {}
      BY <1>0, <2>1, <2>2 DEF Refused
    <3>2. - Cardinality({}) = 0
      BY FS_EmptySet
    <3> QED BY <1>0, <1>7, <2>1, <2>2, <3>1, <3>2 DEF CounterInv
  <2>6. HolderInv'
    <3>1. \A e \in Daemons : ~ SettingUp(e)'
      BY <1>0, <2>1, <2>2 DEF HolderInv, SettingUp
    <3>2. Stage(d)'
      BY <1>0, <2>1, <2>2 DEF Stage, Pristine, slotTable
    <3> QED BY <2>3, <3>1, <3>2 DEF HolderInv
  <2>7. LateInv'
    BY <1>0, <1>7, LateFrame DEF LateInv, Settled
  <2> QED BY <2>4, <2>5, <2>6, <2>7
<1>8. CASE node = "ready" /\ av # 1
  <2>1. av = - Cardinality(Refused)
    BY <1>8 DEF CounterInv
  <2>2. av' = av - 1 /\ av' # 0 /\ av' # 1
    BY <1>2, <1>8, <2>1 DEF QhgpuOpen
  <2>3. fd' = [fd EXCEPT ![d] = FALSE] /\ Goes(d, "refused")
    BY <1>8, <2>2 DEF QhgpuOpen
  <2>4. fd' = fd
    BY <1>0, <1>1, <2>3
  <2>5. CounterInv'
    <3>1. Refused' = Refused \cup {d}
      BY <1>0, <2>3 DEF Refused, Goes
    <3>2. av' = - Cardinality(Refused')
      BY <1>2, <2>1, <2>2, <3>1
    <3> QED BY <1>0, <1>8, <3>2 DEF CounterInv
  <2> QED BY <1>0, <1>4, <1>5, <1>6, <2>2, <2>3, <2>4, <2>5
<1>9. CASE node # "ready"
  <2>1. Goes(d, "init") /\ UNCHANGED <<av, fd>>
    BY <1>9 DEF QhgpuOpen
  <2>2. Refused' = Refused
    BY <1>0, <2>1 DEF Refused, Goes
  <2>3. CounterInv'
    BY <1>0, <2>1, <2>2 DEF CounterInv, Pristine, slotTable
  <2> QED BY <1>0, <1>4, <1>5, <1>6, <2>1, <2>3
<1> QED BY <1>7, <1>8, <1>9

\* A refused opener gives its count back and goes on without the device.
LEMMA RefusedStep ==
  ASSUME StartInv, NEW d \in Daemons, OpenRefused(d)
  PROVE  StartInv'
<1> USE DEF StartInv
<1>0. /\ dpc[d] = "refused" /\ d \in Refused /\ av' = av + 1
      /\ dpc' = [dpc EXCEPT ![d] = "init"]
      /\ UNCHANGED <<node, caches, pool, slotTable, fd, cnt, dmap, clients>>
      /\ dpc \in [Daemons -> DaemonPcs]
  BY DEF OpenRefused, Goes, Refused, StartTypes
<1>1. StartTypes'
  BY <1>0 DEF StartTypes, DaemonPcs, slotTable, clients
<1>2. Refused' = Refused \ {d}
  BY <1>0 DEF Refused
<1>3. /\ Cardinality(Refused) \in Nat \ {0}
      /\ Cardinality(Refused \ {d}) = Cardinality(Refused) - 1
  BY <1>0, RefusedCounted
<1>4. av = - Cardinality(Refused) /\ node = "ready"
  BY <1>0 DEF CounterInv
<1>5. av' = - Cardinality(Refused') /\ av' # 1
  BY <1>0, <1>2, <1>3, <1>4
<1>6. CounterInv'
  BY <1>0, <1>4, <1>5 DEF CounterInv
<1>7. ~ fd[d]
  BY <1>0 DEF HolderInv, Stage
<1>8. \A e \in Daemons : fd[e] => e # d /\ dpc'[e] = dpc[e]
  BY <1>0, <1>7
<1>9. HolderInv'
  <2>1. \A e \in Daemons : SettingUp(e)' => SettingUp(e)
    BY <1>0 DEF SettingUp
  <2>2. \A e \in Daemons : fd[e] => Stage(e)'
    BY <1>0, <1>8, StageFrame DEF HolderInv
  <2> QED BY <1>0, <2>1, <2>2 DEF HolderInv
<1>10. LateInv'
  <2>1. \A c \in Clients : late[c] => Settled'
    BY <1>0, <1>5, <1>8, SettledFrame DEF LateInv
  <2> QED BY <1>0, <2>1, LateFrame DEF slotTable
<1> QED BY <1>1, <1>6, <1>9, <1>10

\* gpu_init is passed with the device or without it.
LEMMA GpuInitStep ==
  ASSUME StartInv, NEW d \in Daemons, GpuInit(d)
  PROVE  StartInv'
<1> USE DEF StartInv
<1>0. /\ dpc[d] = "init" /\ dpc' = [dpc EXCEPT ![d] = "bufs"]
      /\ UNCHANGED <<device, slotTable, fd, cnt, dmap, clients>>
      /\ dpc \in [Daemons -> DaemonPcs]
  BY DEF GpuInit, Goes, StartTypes
<1>1. StartTypes'
  BY <1>0 DEF StartTypes, DaemonPcs, device, slotTable, clients
<1>2. CASE fd[d]
  <2>1. Stage(d) /\ Pristine /\ dmap[d] = <<>>
    BY <1>0, <1>2 DEF HolderInv, Stage
  <2>2. Stage(d)'
    BY <1>0, <2>1 DEF Stage, Pristine, device, slotTable
  <2> QED BY <1>0, <1>1, <1>2, <2>2, HolderStep DEF DaemonPcs, Goes, device
<1>3. CASE ~ fd[d]
  <2>1. Refused' = Refused
    BY <1>0 DEF Refused
  <2>2. CounterInv'
    BY <1>0, <2>1 DEF CounterInv, Pristine, device, slotTable
  <2>3. \A e \in Daemons : fd[e] => e # d /\ dpc'[e] = dpc[e]
    BY <1>0, <1>3
  <2>4. HolderInv'
    <3>1. \A e \in Daemons : SettingUp(e)' => SettingUp(e)
      BY <1>0 DEF SettingUp
    <3>2. \A e \in Daemons : fd[e] => Stage(e)'
      BY <1>0, <2>3, StageFrame DEF HolderInv, device
    <3> QED BY <1>0, <3>1, <3>2 DEF HolderInv
  <2>5. LateInv'
    <3>1. \A c \in Clients : late[c] => Settled'
      BY <1>0, <2>3, SettledFrame DEF LateInv, Settled, device
    <3> QED BY <1>0, <3>1, LateFrame DEF slotTable
  <2> QED BY <1>1, <2>2, <2>4, <2>5
<1> QED BY <1>2, <1>3

-----------------------------------------------------------------------------
(* Set-up                                                                  *)

LEMMA SetGpuBufsStep ==
  ASSUME StartInv, NEW d \in Daemons, SetGpuBufs(d)
  PROVE  StartInv'
<1> USE DEF StartInv
<1>0. /\ dpc[d] = "bufs" /\ UNCHANGED <<node, caches, slotTable, cnt, dmap, clients>>
      /\ dpc \in [Daemons -> DaemonPcs]
  BY DEF SetGpuBufs, StartTypes
<1>1. CASE ~ fd[d] /\ Dies(d) /\ UNCHANGED pool
  BY <1>0, <1>1, DiesStep DEF StartTypes
<1>2. CASE fd[d] /\ pool' \in {"noPages", "noBitmap", "noSizes", "noMap"} /\ Dies(d)
  BY <1>0, <1>2, DiesStep
<1>3. CASE fd[d] /\ pool' = "ready" /\ Goes(d, "opencl") /\ UNCHANGED <<fd, av>>
  <2>1. dpc' = [dpc EXCEPT ![d] = "opencl"]
    BY <1>3 DEF Goes
  <2>2. Pristine /\ dmap[d] = <<>>
    BY <1>0, <1>3 DEF HolderInv, Stage
  <2>3. StartTypes'
    BY <1>0, <1>3, <2>1 DEF StartTypes, DaemonPcs, slotTable, clients
  <2>4. Stage(d)'
    BY <1>0, <1>3, <2>1, <2>2 DEF Stage, Pristine, slotTable
  <2> QED BY <1>0, <1>3, <2>3, <2>4, HolderStep DEF DaemonPcs
<1> QED BY <1>1, <1>2, <1>3 DEF SetGpuBufs

LEMMA InitOpenCLStep ==
  ASSUME StartInv, NEW d \in Daemons, InitOpenCL(d)
  PROVE  StartInv'
<1> USE DEF StartInv
<1>0. /\ dpc[d] = "opencl" /\ dpc' = [dpc EXCEPT ![d] = "loading"]
      /\ UNCHANGED <<device, slotTable, fd, cnt, dmap, clients>>
      /\ dpc \in [Daemons -> DaemonPcs]
  BY DEF InitOpenCL, Goes, StartTypes
<1>1. fd[d] /\ Stage(d)
  BY <1>0 DEF HolderInv, SettingUp
<1>2. StartTypes'
  BY <1>0 DEF StartTypes, DaemonPcs, device, slotTable, clients
<1>3. Stage(d)'
  BY <1>0, <1>1 DEF Stage, device, slotTable
<1> QED BY <1>0, <1>1, <1>2, <1>3, HolderStep DEF DaemonPcs, Goes, device

LEMMA LoadServicesStep ==
  ASSUME StartInv, NEW d \in Daemons, LoadServices(d)
  PROVE  StartInv'
<1> USE DEF StartInv
<1>0. /\ dpc[d] = "loading" /\ dpc' = [dpc EXCEPT ![d] = "setMmap"]
      /\ UNCHANGED <<device, slotTable, fd, dmap, clients>>
      /\ dpc \in [Daemons -> DaemonPcs] /\ cnt \in [Daemons -> SlotCounts \cup {0}]
  BY DEF LoadServices, Goes, StartTypes
<1>1. PICK n \in SlotCounts : cnt' = [cnt EXCEPT ![d] = n]
  BY DEF LoadServices, SlotCounts
<1>2. fd[d] /\ Stage(d)
  BY <1>0 DEF HolderInv, SettingUp
<1>3. StartTypes'
  BY <1>0, <1>1 DEF StartTypes, DaemonPcs, device, slotTable, clients
<1>4. Stage(d)'
  BY <1>0, <1>1, <1>2 DEF Stage, device, slotTable
<1> QED BY <1>0, <1>2, <1>3, <1>4, HolderStep DEF DaemonPcs, Goes, device

LEMMA SetMmapCountStep ==
  ASSUME StartInv, NEW d \in Daemons, SetMmapCount(d)
  PROVE  StartInv'
<1> USE DEF StartInv
<1>0. /\ dpc[d] = "setMmap" /\ dpc' = [dpc EXCEPT ![d] = "checker"] /\ moduleCnt' = cnt[d]
      /\ UNCHANGED <<device, checker, kmmap, pages, modules, mmapCount, fd, cnt, dmap, clients>>
      /\ dpc \in [Daemons -> DaemonPcs]
  BY DEF SetMmapCount, Goes, StartTypes
<1>1. fd[d] /\ Stage(d)
  BY <1>0 DEF HolderInv, SettingUp
<1>2. /\ cnt[d] \in SlotCounts /\ cnt[d] \in Nat /\ mmapCount = 0 /\ pool = "ready" /\ dmap[d] = <<>>
      /\ kmmap = Null /\ pages = Null
  BY <1>0, <1>1, SlotCountsPositive DEF Stage
<1>3. StartTypes'
  BY <1>0, <1>2 DEF StartTypes, DaemonPcs, device, clients
<1>4. Stage(d)'
  BY <1>0, <1>2 DEF Stage, device
<1> QED BY <1>0, <1>1, <1>3, <1>4, HolderStep DEF DaemonPcs, Goes, device

LEMMA SetMmapCheckerStep ==
  ASSUME StartInv, NEW d \in Daemons, SetMmapChecker(d)
  PROVE  StartInv'
<1> USE DEF StartInv
<1>0. /\ dpc[d] = "checker" /\ dpc' = [dpc EXCEPT ![d] = "kmmap"]
      /\ UNCHANGED <<device, moduleCnt, kmmap, pages, modules, mmapCount, fd, cnt, dmap, clients>>
      /\ dpc \in [Daemons -> DaemonPcs]
  BY DEF SetMmapChecker, Goes, StartTypes
<1>1. fd[d] /\ Stage(d)
  BY <1>0 DEF HolderInv, SettingUp
<1>2. StartTypes'
  BY <1>0 DEF StartTypes, DaemonPcs, device, clients
<1>3. Stage(d)'
  BY <1>0, <1>1 DEF Stage, device
<1> QED BY <1>0, <1>1, <1>2, <1>3, HolderStep DEF DaemonPcs, Goes, device

LEMMA SetMmapKmmapStep ==
  ASSUME StartInv, NEW d \in Daemons, SetMmapKmmap(d)
  PROVE  StartInv'
<1> USE DEF StartInv
<1>0. /\ dpc[d] = "kmmap" /\ dpc' = [dpc EXCEPT ![d] = "arrays"]
      /\ kmmap' = [k \in 0 .. cnt[d] - 1 |-> Garbage] \/ kmmap' = Null
      /\ UNCHANGED <<device, moduleCnt, checker, pages, modules, mmapCount, fd, cnt, dmap, clients>>
      /\ dpc \in [Daemons -> DaemonPcs]
  BY DEF SetMmapKmmap, Goes, StartTypes
<1>1. fd[d] /\ Stage(d)
  BY <1>0 DEF HolderInv, SettingUp
<1>2. StartTypes'
  BY <1>0 DEF StartTypes, DaemonPcs, device, clients
<1>3. /\ pool = "ready" /\ cnt[d] \in SlotCounts /\ moduleCnt = cnt[d]
      /\ mmapCount = 0 /\ pages = Null /\ dmap[d] = <<>>
  BY <1>0, <1>1 DEF Stage
<1>4. KmmapRight(d)'
  BY <1>0, <1>3, SlotCountsPositive DEF KmmapRight, Arrays
<1>5. Stage(d)'
  BY <1>0, <1>3, <1>4 DEF Stage, device
<1> QED BY <1>0, <1>1, <1>2, <1>5, HolderStep DEF DaemonPcs, Goes, device

LEMMA SetMmapArraysStep ==
  ASSUME StartInv, NEW d \in Daemons, SetMmapArrays(d)
  PROVE  StartInv'
<1> USE DEF StartInv
<1>0. /\ dpc[d] = "arrays" /\ dpc' = [dpc EXCEPT ![d] = "pages"]
      /\ pages' = <<>> \/ pages' = Null
      /\ UNCHANGED <<device, moduleCnt, checker, kmmap, mmapCount, fd, cnt, dmap, clients>>
      /\ dpc \in [Daemons -> DaemonPcs]
  BY DEF SetMmapArrays, Goes, StartTypes
<1>1. fd[d] /\ Stage(d)
  BY <1>0 DEF HolderInv, SettingUp
<1>2. StartTypes'
  BY <1>0 DEF StartTypes, DaemonPcs, device, clients
<1>3. /\ pool = "ready" /\ cnt[d] \in SlotCounts /\ moduleCnt = cnt[d] /\ cnt[d] \in Nat
      /\ mmapCount = 0 /\ KmmapRight(d) /\ dmap[d] = <<>>
  BY <1>0, <1>1, SlotCountsPositive DEF Stage
<1>4. <<>> # Null
  <2>1. <<>> \in [0 .. 0 - 1 -> {Garbage} \cup (Daemons \X (0 .. cnt[d] - 1))]
    BY NothingMapped
  <2>2. 0 \in 0 .. cnt[d] /\ cnt[d] \in SlotCounts
    BY <1>3
  <2>3. Null \notin [0 .. 0 - 1 -> {Garbage} \cup (Daemons \X (0 .. cnt[d] - 1))]
    BY <2>2, NullIsNoArray
  <2> QED BY <2>1, <2>3
<1>5. pages' = Null \/ PagesUpTo(d, 0)'
  BY <1>0, <1>4, NothingMapped DEF PagesUpTo
<1>6. KmmapRight(d)'
  BY <1>0, <1>3 DEF KmmapRight, Arrays
<1>7. Stage(d)'
  <2>1. 0 \in 0 .. cnt'[d]
    BY <1>0, <1>3
  <2> QED BY <1>0, <1>3, <1>5, <1>6, <2>1 DEF Stage, device
<1> QED BY <1>0, <1>1, <1>2, <1>7, HolderStep DEF DaemonPcs, Goes, device

\* The pages of the slots, one after the other.
LEMMA SetMmapPagesStep ==
  ASSUME StartInv, NEW d \in Daemons, SetMmapPages(d)
  PROVE  StartInv'
<1> USE DEF StartInv
<1>0. /\ dpc[d] = "pages"
      /\ UNCHANGED <<node, caches, pool, moduleCnt, checker, kmmap, modules, mmapCount, cnt, dmap, clients>>
      /\ dpc \in [Daemons -> DaemonPcs]
  BY DEF SetMmapPages, StartTypes
<1>1. fd[d] /\ Stage(d)
  BY <1>0 DEF HolderInv, SettingUp
<1>2. /\ pool = "ready" /\ cnt[d] \in SlotCounts /\ moduleCnt = cnt[d]
      /\ KmmapRight(d) /\ mmapCount = 0 /\ dmap[d] = <<>> /\ cnt[d] \in Nat
  BY <1>0, <1>1, SlotCountsPositive DEF Stage
<1>3. CASE Dies(d) /\ UNCHANGED pages
  BY <1>0, <1>3, DiesStep DEF slotTable, StartTypes
<1>4. CASE pages # Null /\ ~ (Dies(d) /\ UNCHANGED pages)
  <2>1. PICK k \in 0 .. cnt[d] : PagesUpTo(d, k)
    BY <1>0, <1>1, <1>4 DEF Stage
  <2>2. k \in Nat /\ k <= cnt[d] /\ Cardinality(DOMAIN pages) = k
    BY <1>2, <2>1, SlotsCounted DEF PagesUpTo
  <2>3. CASE k = cnt[d] /\ Goes(d, "map") /\ UNCHANGED <<pages, fd, av>>
    <3>1. dpc' = [dpc EXCEPT ![d] = "map"]
      BY <2>3 DEF Goes
    <3>2. StartTypes'
      BY <1>0, <2>3, <3>1 DEF StartTypes, DaemonPcs, clients
    <3>3. PagesUpTo(d, cnt[d])' /\ KmmapRight(d)'
      BY <1>0, <1>2, <2>1, <2>3 DEF PagesUpTo, KmmapRight, Arrays
    <3>4. MappedUpTo(d, 0)'
      BY <1>0, <1>2, NothingMapped DEF MappedUpTo, AllMapped
    <3>5. Stage(d)'
      <4>1. 0 \in 0 .. cnt'[d] /\ (dpc'[d] = "loop" => 0 = cnt'[d])
        BY <1>0, <1>2, <3>1
      <4> QED BY <1>0, <1>2, <3>1, <3>3, <3>4, <4>1 DEF Stage
    <3> QED BY <1>0, <1>1, <2>3, <3>2, <3>5, HolderStep DEF DaemonPcs
  <2>4. CASE /\ k # cnt[d] /\ UNCHANGED <<dpc, fd, av>>
             /\ pages' = [j \in 0 .. k |-> IF j = k THEN <<d, k>> ELSE pages[j]]
    <3>1. StartTypes'
      BY <1>0, <2>4 DEF StartTypes, clients
    <3>2. k + 1 \in 0 .. cnt[d]
      BY <1>2, <2>2, <2>4
    <3>3. /\ DOMAIN pages' = 0 .. (k + 1) - 1
          /\ \A j \in 0 .. (k + 1) - 1 : pages'[j] = <<d, j>>
      BY <2>1, <2>2, <2>4 DEF PagesUpTo
    <3>4. pages' # Null
      <4>1. \A j \in 0 .. k : <<d, j>> \in Daemons \X (0 .. cnt[d] - 1)
        BY <1>2, <2>2, <2>4
      <4>2. pages' = [j \in 0 .. k |-> IF j = k THEN <<d, k>> ELSE pages[j]] /\ (k + 1) - 1 = k
        BY <2>2, <2>4
      <4>3. \A j \in 0 .. k : pages'[j] \in Daemons \X (0 .. cnt[d] - 1)
        BY <3>3, <4>1, <4>2
      <4>4. pages' \in [0 .. (k + 1) - 1 -> {Garbage} \cup (Daemons \X (0 .. cnt[d] - 1))]
        BY <4>2, <4>3
      <4> QED BY <1>2, <3>2, <4>4, NullIsNoArray
    <3>5. PagesUpTo(d, k + 1)' /\ KmmapRight(d)'
      BY <1>0, <1>2, <3>3, <3>4 DEF PagesUpTo, KmmapRight, Arrays
    <3>6. Stage(d)'
      BY <1>0, <1>2, <2>4, <3>2, <3>5 DEF Stage
    <3>7. Goes(d, "pages")
      BY <1>0, <2>4 DEF Goes
    <3> QED BY <1>0, <1>1, <2>4, <3>1, <3>6, <3>7, HolderStep DEF DaemonPcs
  <2> QED BY <1>4, <2>2, <2>3, <2>4 DEF SetMmapPages
<1> QED BY <1>3, <1>4 DEF SetMmapPages

\* The daemon's next slot gets the page that is counted next, or none.
LEMMA NextSlotMaps ==
  ASSUME NEW d \in Daemons, DOMAIN dmap = Daemons, NEW n \in Nat, MappedUpTo(d, n), mmapCount \in Nat,
         NEW p, NextSlot(d, p), UNCHANGED cnt,
         \/ p = MapFailed /\ mmapCount' = mmapCount
         \/ p = <<d, mmapCount>> /\ p # MapFailed /\ mmapCount' = mmapCount + 1
  PROVE  MappedUpTo(d, n + 1)'
<1>1. Cardinality(DOMAIN dmap[d]) = n
  BY SlotsCounted DEF MappedUpTo
<1>2. /\ DOMAIN dmap'[d] = 0 .. n /\ dmap'[d][n] = p
      /\ \A k \in 0 .. n - 1 : dmap'[d][k] = dmap[d][k]
  BY <1>1 DEF NextSlot
<1>3. mmapCount <= n /\ (mmapCount = n <=> AllMapped(d, n))
  BY DEF MappedUpTo
<1>4. \A k \in 0 .. n : AllMapped(d, k)' <=> AllMapped(d, k)
  BY <1>2 DEF AllMapped
<1>5. AllMapped(d, n + 1)' <=> AllMapped(d, n) /\ p # MapFailed
  BY <1>2 DEF AllMapped
<1>6. mmapCount' <= n + 1 /\ (mmapCount' = n + 1 <=> AllMapped(d, n + 1)')
  BY <1>3, <1>5
<1>7. ASSUME NEW k \in 0 .. n
      PROVE  \/ dmap'[d][k] = MapFailed
             \/ \E i \in 0 .. k : /\ i < mmapCount' /\ dmap'[d][k] = <<d, i>>
                                  /\ i = k <=> AllMapped(d, k + 1)'
  <2>1. CASE k = n /\ p # MapFailed
    <3>1. mmapCount \in 0 .. n /\ mmapCount < mmapCount'
      BY <1>3, <2>1
    <3>2. mmapCount = n <=> AllMapped(d, n + 1)'
      BY <1>3, <1>5, <2>1
    <3> QED BY <1>2, <2>1, <3>1, <3>2
  <2>2. CASE k = n /\ p = MapFailed
    BY <1>2, <2>2
  <2>3. CASE k # n
    <3>1. k \in 0 .. n - 1 /\ k + 1 \in 0 .. n
      BY <2>3
    <3>2. \/ dmap[d][k] = MapFailed
          \/ \E i \in 0 .. k : i < mmapCount /\ dmap[d][k] = <<d, i>> /\ (i = k <=> AllMapped(d, k + 1))
      BY <3>1 DEF MappedUpTo
    <3>3. \A i \in 0 .. k : i < mmapCount => i < mmapCount'
      OBVIOUS
    <3> QED BY <1>2, <1>4, <3>1, <3>2, <3>3
  <2> QED BY <2>1, <2>2, <2>3
<1>8. ASSUME NEW k \in 0 .. n, NEW j \in 0 .. k - 1, dmap'[d][j] = dmap'[d][k]
      PROVE  dmap'[d][k] = MapFailed
  <2>1. j \in 0 .. n - 1 /\ dmap'[d][j] = dmap[d][j]
    BY <1>2
  <2>2. CASE k = n /\ p # MapFailed
    <3>1. dmap[d][j] = <<d, mmapCount>> /\ dmap[d][j] # MapFailed
      BY <1>2, <1>8, <2>1, <2>2
    <3>2. PICK i \in 0 .. j : i < mmapCount /\ dmap[d][j] = <<d, i>>
      BY <2>1, <3>1 DEF MappedUpTo
    <3> QED BY <3>1, <3>2
  <2>3. CASE k = n /\ p = MapFailed
    BY <1>2, <2>3
  <2>4. CASE k # n
    <3>1. k \in 0 .. n - 1 /\ dmap'[d][k] = dmap[d][k] /\ dmap[d][j] = dmap[d][k]
      <4>1. k \in 0 .. n - 1
        BY <2>4
      <4> QED BY <1>2, <1>8, <2>1, <4>1
    <3>2. dmap[d][k] = MapFailed
      BY <3>1 DEF MappedUpTo
    <3> QED BY <3>1, <3>2
  <2> QED BY <2>2, <2>3, <2>4
<1>9. (n + 1) - 1 = n
  OBVIOUS
<1> QED BY <1>2, <1>6, <1>7, <1>8, <1>9 DEF MappedUpTo

\* One mmap call maps the page that is counted next for the daemon and for the clients,
\* or it fails and nothing is counted.
LEMMA InitMmapStep ==
  ASSUME StartInv, NEW d \in Daemons, InitMmap(d)
  PROVE  StartInv'
<1> USE DEF StartInv
<1>0. /\ dpc[d] = "map"
      /\ UNCHANGED <<node, caches, pool, moduleCnt, checker, pages, modules, cnt, clients>>
      /\ dpc \in [Daemons -> DaemonPcs] /\ DOMAIN dmap = Daemons
  BY DEF InitMmap, StartTypes
<1>1. fd[d] /\ Stage(d)
  BY <1>0 DEF HolderInv, SettingUp
<1>2. /\ pool = "ready" /\ cnt[d] \in SlotCounts /\ moduleCnt = cnt[d]
      /\ cnt[d] \in Nat /\ KmmapRight(d) /\ PagesUpTo(d, cnt[d])
  BY <1>0, <1>1, SlotCountsPositive DEF Stage
<1>3. PICK n \in 0 .. cnt[d] : MappedUpTo(d, n)
  BY <1>0, <1>1 DEF Stage
<1>4. n \in Nat /\ n <= cnt[d] /\ Cardinality(DOMAIN dmap[d]) = n /\ mmapCount \in 0 .. n
  BY <1>2, <1>3, SlotsCounted DEF MappedUpTo, StartTypes
<1>5. PagesUpTo(d, cnt[d])'
  BY <1>0, <1>2 DEF PagesUpTo
<1>6. CASE n = cnt[d] /\ Goes(d, "loop") /\ UNCHANGED <<dmap, kmmap, mmapCount, fd, av>>
  <2>1. dpc' = [dpc EXCEPT ![d] = "loop"]
    BY <1>6 DEF Goes
  <2>2. StartTypes'
    BY <1>0, <1>6, <2>1 DEF StartTypes, DaemonPcs, clients
  <2>3. KmmapRight(d)' /\ MappedUpTo(d, n)'
    <3>1. UNCHANGED <<kmmap, mmapCount, dmap, cnt>>
      BY <1>0, <1>6
    <3>2. KmmapRight(d)'
      BY <1>2, <3>1 DEF KmmapRight, Arrays
    <3>3. ASSUME NEW i PROVE AllMapped(d, i)' <=> AllMapped(d, i)
      BY <3>1 DEF AllMapped
    <3>4. MappedUpTo(d, n)'
      BY <1>3, <3>1, <3>3 DEF MappedUpTo
    <3> QED BY <3>2, <3>4
  <2>4. Stage(d)'
    BY <1>0, <1>2, <1>5, <1>6, <2>1, <2>3 DEF Stage
  <2> QED BY <1>0, <1>1, <1>6, <2>2, <2>4, HolderStep DEF DaemonPcs
<1>7. CASE n # cnt[d] /\ MmapFails(d)
  <2>1. NextSlot(d, MapFailed) /\ UNCHANGED <<kmmap, mmapCount, dpc, fd, av>>
    BY <1>7 DEF MmapFails
  <2>2. MappedUpTo(d, n + 1)'
    BY <1>0, <1>3, <1>4, <2>1, NextSlotMaps
  <2>3. StartTypes'
    BY <1>0, <2>1 DEF StartTypes, NextSlot, clients
  <2>4. KmmapRight(d)'
    BY <1>0, <1>2, <2>1 DEF KmmapRight, Arrays
  <2>5. n + 1 \in 0 .. cnt'[d]
    BY <1>0, <1>2, <1>4, <1>7
  <2>6. Stage(d)'
    BY <1>0, <1>2, <1>5, <2>1, <2>2, <2>4, <2>5 DEF Stage
  <2>7. Goes(d, "map")
    BY <1>0, <2>1 DEF Goes
  <2> QED BY <1>0, <1>1, <2>1, <2>3, <2>6, <2>7, HolderStep DEF DaemonPcs
<1>8. CASE kmmap = Null /\ Dies(d) /\ UNCHANGED <<dmap, kmmap, mmapCount>>
  BY <1>0, <1>8, DiesStep DEF slotTable, StartTypes
<1>9. CASE /\ n # cnt[d] /\ kmmap # Null /\ NextSlot(d, pages[mmapCount])
           /\ kmmap' = [kmmap EXCEPT ![mmapCount] = pages[mmapCount]]
           /\ mmapCount' = mmapCount + 1
           /\ UNCHANGED <<dpc, fd, av>>
  <2> DEFINE m == mmapCount
  <2>1. m \in Nat /\ m \in 0 .. cnt[d] - 1 /\ pages[m] = <<d, m>>
    BY <1>2, <1>4, <1>9 DEF PagesUpTo
  <2>2. <<d, m>> # MapFailed
    <3>1. <<d, m>> \in Daemons \X Nat
      BY <2>1
    <3> QED BY <3>1, StartupAssumption
  <2>3. MappedUpTo(d, n + 1)'
    BY <1>0, <1>3, <1>4, <1>9, <2>1, <2>2, NextSlotMaps
  <2>4. StartTypes'
    <3>1. mmapCount' \in 0 .. moduleCnt' /\ DOMAIN dmap' = Daemons
      BY <1>0, <1>2, <1>9, <2>1 DEF NextSlot
    <3> QED BY <1>0, <1>9, <3>1 DEF StartTypes, clients
  <2>5. KmmapRight(d)'
    <3>1. kmmap \in Arrays(cnt[d]) /\ \A k \in 0 .. cnt[d] - 1 : kmmap[k] = IF k < m THEN <<d, k>> ELSE Garbage
      BY <1>2, <1>9 DEF KmmapRight
    <3>2. kmmap' = [kmmap EXCEPT ![m] = <<d, m>>]
      BY <1>9, <2>1
    <3>3. kmmap' \in Arrays(cnt[d])
      BY <2>1, <3>1, <3>2 DEF Arrays
    <3>4. \A k \in 0 .. cnt[d] - 1 : kmmap'[k] = IF k < m + 1 THEN <<d, k>> ELSE Garbage
      BY <2>1, <3>1, <3>2 DEF Arrays
    <3> QED BY <1>0, <1>9, <3>3, <3>4 DEF KmmapRight, Arrays
  <2>6. n + 1 \in 0 .. cnt'[d]
    BY <1>0, <1>2, <1>4, <1>9
  <2>7. Stage(d)'
    BY <1>0, <1>2, <1>5, <1>9, <2>3, <2>5, <2>6 DEF Stage
  <2>8. Goes(d, "map")
    BY <1>0, <1>9 DEF Goes
  <2> QED BY <1>0, <1>1, <1>9, <2>4, <2>7, <2>8, HolderStep DEF DaemonPcs
<1> QED BY <1>4, <1>6, <1>7, <1>8, <1>9 DEF InitMmap, QhgpuMmap

-----------------------------------------------------------------------------
(* insmod and the clients                                                  *)

LEMMA QhgpuInitStep ==
  ASSUME StartInv, QhgpuInit
  PROVE  StartInv'
<1> USE DEF StartInv
<1>0. /\ node = "none" /\ caches' \in BOOLEAN /\ (node' = "ready" => caches')
      /\ node' \in {"missing", "dead", "ready"}
      /\ UNCHANGED <<av, pool, slotTable, daemons, clients>>
  BY DEF QhgpuInit
<1>1. StartTypes'
  BY <1>0 DEF StartTypes, slotTable, daemons, clients
<1>2. CounterInv'
  BY <1>0 DEF CounterInv, Refused, Pristine, slotTable, daemons
<1>3. HolderInv'
  <2>1. \A d \in Daemons : fd[d] => Stage(d)'
    BY <1>0, StageFrame DEF HolderInv, daemons
  <2> QED BY <1>0, <2>1 DEF HolderInv, SettingUp, daemons
<1>4. LateInv'
  <2>1. \A c \in Clients : late[c] => Settled'
    BY <1>0, SettledFrame DEF LateInv, Settled, daemons
  <2> QED BY <1>0, <2>1, LateFrame DEF slotTable
<1> QED BY <1>1, <1>2, <1>3, <1>4

\* A client's step has only itself to account for.
LEMMA ClientFrame ==
  ASSUME StartInv, UNCHANGED <<device, slotTable, daemons>>, NEW c \in Clients,
         StartTypes', late'[c] => Settled /\ Served(c)',
         \A b \in Clients \ {c} : /\ late'[b] = late[b] /\ cpc'[b] = cpc[b] /\ cslot'[b] = cslot[b]
                                  /\ caddr'[b] = caddr[b] /\ cblock'[b] = cblock[b]
  PROVE  StartInv'
<1> USE DEF StartInv
<1>1. CounterInv'
  BY DEF CounterInv, Refused, Pristine, device, slotTable, daemons
<1>2. HolderInv'
  <2>1. \A d \in Daemons : fd[d] => Stage(d)'
    BY StageFrame DEF HolderInv, device, daemons
  <2> QED BY <2>1 DEF HolderInv, SettingUp, daemons
<1>3. Settled => Settled'
  BY DEF Settled, device, slotTable, daemons
<1>4. LateInv'
  <2> SUFFICES ASSUME NEW b \in Clients, late'[b] PROVE Settled' /\ Served(b)'
    BY DEF LateInv
  <2>1. CASE b = c
    BY <1>3, <2>1
  <2>2. CASE b # c
    BY <1>3, <2>2 DEF LateInv, Served, slotTable
  <2> QED BY <2>1, <2>2
<1> QED BY <1>1, <1>2, <1>4

\* A daemon in its main loop has left tables that nobody will touch again.
LEMMA LoopSettles ==
  ASSUME StartInv, NEW d \in Daemons, dpc[d] = "loop"
  PROVE  Settled /\ caches
<1> USE DEF StartInv
<1>1. fd[d] /\ Stage(d)
  BY DEF HolderInv, SettingUp
<1>2. /\ pool = "ready" /\ cnt[d] \in SlotCounts /\ moduleCnt = cnt[d] /\ cnt[d] \in Nat
      /\ KmmapRight(d) /\ PagesUpTo(d, cnt[d])
  BY <1>1, SlotCountsPositive DEF Stage
<1>3. av # 1 /\ caches
  BY <1>1, HolderMeansTaken
<1>4. \A e \in Daemons : fd[e] => dpc[e] = "loop"
  BY <1>1 DEF HolderInv
<1>5. \A k \in 0 .. moduleCnt - 1 : pages[k] = <<d, k>> /\ pages[k] \in Daemons \X Nat
  <2> SUFFICES ASSUME NEW k \in 0 .. moduleCnt - 1 PROVE pages[k] = <<d, k>> /\ pages[k] \in Daemons \X Nat
    OBVIOUS
  <2>1. pages[k] = <<d, k>> /\ k \in Nat
    BY <1>2 DEF PagesUpTo
  <2> QED BY <2>1
<1>6. pages # Null /\ DOMAIN pages = 0 .. moduleCnt - 1
  BY <1>2 DEF PagesUpTo
<1>7. kmmap # Null => \A k \in 0 .. moduleCnt - 1 : kmmap[k] = IF k < mmapCount THEN pages[k] ELSE Garbage
  BY <1>2, <1>5 DEF KmmapRight
<1> QED BY <1>2, <1>3, <1>4, <1>5, <1>6, <1>7 DEF Settled

LEMMA ClientInvStep ==
  ASSUME StartInv, NEW c \in Clients, ClientStep(c)
  PROVE  StartInv'
<1> USE DEF StartInv
<1>0. /\ cpc \in [Clients -> {"none", "id", "addr", "has", "called", "oops"}]
      /\ cslot \in [Clients -> Nat] /\ cblock \in [Clients -> {Null, "block", "wild"}]
      /\ DOMAIN caddr = Clients /\ late \in [Clients -> BOOLEAN] /\ moduleCnt \in Nat
  BY DEF StartTypes
<1>1. UNCHANGED <<device, slotTable, daemons>>
  BY DEF ClientStep, AllocFromCache, MmapId, MmapAddrPass, Vmalloc, CallSync
<1>2. ASSUME cpc' \in [Clients -> {"none", "id", "addr", "has", "called", "oops"}],
             cslot' \in [Clients -> Nat], cblock' \in [Clients -> {Null, "block", "wild"}],
             DOMAIN caddr' = Clients, late' \in [Clients -> BOOLEAN]
      PROVE  StartTypes'
  BY <1>1, <1>2 DEF StartTypes, device, slotTable, daemons
<1>3. late[c] => Settled /\ Served(c)
  BY DEF LateInv
<1>4. UNCHANGED <<checker, kmmap, modules, moduleCnt>>
  BY <1>1 DEF slotTable
<1>5. CASE AllocFromCache(c)
  <2>1. /\ cpc' = [cpc EXCEPT ![c] = IF caches THEN "id" ELSE "oops"]
        /\ late' = [late EXCEPT ![c] = \E d \in Daemons : dpc[d] = "loop"]
        /\ cblock' = [cblock EXCEPT ![c] = Null] /\ UNCHANGED <<cslot, caddr>>
    BY <1>5 DEF AllocFromCache, ClientGoes
  <2>2. late' \in [Clients -> BOOLEAN] /\ late'[c] = (\E d \in Daemons : dpc[d] = "loop")
    BY <1>0, <2>1
  <2>3. StartTypes'
    BY <1>0, <1>2, <2>1, <2>2
  <2>4. late'[c] => Settled /\ Served(c)'
    <3> SUFFICES ASSUME late'[c] PROVE Settled /\ Served(c)'
      OBVIOUS
    <3>1. Settled /\ caches
      BY <2>2, LoopSettles
    <3>2. cpc'[c] = "id" /\ cblock'[c] # "wild"
      BY <1>0, <2>1, <3>1, StartupAssumption
    <3> QED BY <3>1, <3>2 DEF Served
  <2> QED BY <1>0, <1>1, <2>1, <2>3, <2>4, ClientFrame
<1>6. CASE MmapId(c)
  <2>1. UNCHANGED <<caddr, cblock, late>> /\ cpc[c] = "id"
    BY <1>6 DEF MmapId
  <2>2. CASE checker = Null /\ ClientGoes(c, "oops") /\ UNCHANGED cslot
    <3>1. cpc' = [cpc EXCEPT ![c] = "oops"]
      BY <2>2 DEF ClientGoes
    <3>2. late'[c] => Settled /\ Served(c)'
      BY <1>0, <1>3, <1>4, <2>1, <2>2, <3>1 DEF Served
    <3> QED BY <1>0, <1>1, <1>2, <2>1, <2>2, <3>1, <3>2, ClientFrame
  <2>3. ASSUME NEW k \in 0 .. moduleCnt, k < moduleCnt \/ k = 0,
               cslot' = [cslot EXCEPT ![c] = k], cpc' = [cpc EXCEPT ![c] = "addr"]
        PROVE  StartInv'
    <3>1. StartTypes'
      BY <1>0, <1>2, <2>1, <2>3
    <3>2. late'[c] => Settled /\ Served(c)'
      <4> SUFFICES ASSUME late[c] PROVE Settled /\ Served(c)'
        BY <2>1
      <4>1. moduleCnt \in Nat \ {0}
        BY <1>3, SlotCountsPositive DEF Settled
      <4>2. k \in 0 .. moduleCnt - 1
        BY <2>3, <4>1
      <4> QED BY <1>0, <1>3, <1>4, <2>1, <2>3, <4>2 DEF Served
    <3> QED BY <1>0, <1>1, <2>1, <2>3, <3>1, <3>2, ClientFrame
  <2> QED BY <1>6, <2>2, <2>3 DEF MmapId, ClientGoes
<1>7. CASE MmapAddrPass(c)
  <2>1. UNCHANGED <<cslot, cblock, late>> /\ cpc[c] = "addr"
    BY <1>7 DEF MmapAddrPass
  <2>2. CASE kmmap = Null /\ ClientGoes(c, "oops") /\ UNCHANGED caddr
    <3>1. cpc' = [cpc EXCEPT ![c] = "oops"]
      BY <2>2 DEF ClientGoes
    <3>2. late'[c] => Settled /\ Served(c)'
      BY <1>0, <1>3, <1>4, <2>1, <2>2, <3>1 DEF Served
    <3> QED BY <1>0, <1>1, <1>2, <2>1, <2>2, <3>1, <3>2, ClientFrame
  <2>3. CASE kmmap # Null /\ caddr' = [caddr EXCEPT ![c] = kmmap[cslot[c]]] /\ ClientGoes(c, "has")
    <3>1. cpc' = [cpc EXCEPT ![c] = "has"]
      BY <2>3 DEF ClientGoes
    <3>2. StartTypes'
      BY <1>0, <1>2, <2>1, <2>3, <3>1
    <3>3. late'[c] => Settled /\ Served(c)'
      BY <1>0, <1>3, <1>4, <2>1, <2>3, <3>1 DEF Served
    <3> QED BY <1>0, <1>1, <2>1, <2>3, <3>1, <3>2, <3>3, ClientFrame
  <2> QED BY <1>7, <2>2, <2>3 DEF MmapAddrPass
<1>8. CASE Vmalloc(c)
  <2>1. UNCHANGED <<cslot, caddr, late>> /\ cpc[c] = "has"
    BY <1>8 DEF Vmalloc
  <2>2. CASE pool # "ready"
    <3>1. ~ late[c]
      BY <2>2 DEF LateInv, Settled
    <3>2. /\ cpc' = cpc \/ cpc' = [cpc EXCEPT ![c] = "oops"]
          /\ cblock' = cblock \/ cblock' = [cblock EXCEPT ![c] = "wild"]
      BY <1>8, <2>2 DEF Vmalloc, ClientGoes, StartTypes
    <3>3. StartTypes'
      BY <1>0, <1>2, <2>1, <3>2
    <3> QED BY <1>0, <1>1, <2>1, <3>1, <3>2, <3>3, ClientFrame
  <2>3. CASE pool = "ready"
    <3>1. cblock' = [cblock EXCEPT ![c] = "block"] /\ UNCHANGED cpc
      BY <1>8, <2>3 DEF Vmalloc
    <3>2. StartTypes'
      BY <1>0, <1>2, <2>1, <3>1
    <3>3. late'[c] => Settled /\ Served(c)'
      BY <1>0, <1>3, <1>4, <2>1, <3>1 DEF Served
    <3> QED BY <1>0, <1>1, <2>1, <3>1, <3>2, <3>3, ClientFrame
  <2> QED BY <2>2, <2>3
<1>9. CASE CallSync(c)
  <2>1. /\ UNCHANGED <<cslot, caddr, cblock, late>> /\ cpc[c] = "has"
        /\ cpc' = [cpc EXCEPT ![c] = IF modules = Null THEN "oops" ELSE "called"]
    BY <1>9 DEF CallSync, ClientGoes
  <2>2. StartTypes'
    BY <1>0, <1>2, <2>1
  <2>3. late'[c] => Settled /\ Served(c)'
    BY <1>0, <1>3, <1>4, <2>1 DEF Served
  <2> QED BY <1>0, <1>1, <2>1, <2>2, <2>3, ClientFrame
<1> QED BY <1>5, <1>6, <1>7, <1>8, <1>9 DEF ClientStep

-----------------------------------------------------------------------------
(* Theorems                                                                *)

LEMMA InvStep == StartInv /\ [StartNext]_startVars => StartInv'
<1> SUFFICES ASSUME StartInv, [StartNext]_startVars PROVE StartInv'
  OBVIOUS
<1>1. ASSUME NEW d \in Daemons, DaemonStep(d) PROVE StartInv'
  BY <1>1, OpenStep, RefusedStep, GpuInitStep, SetGpuBufsStep, InitOpenCLStep, LoadServicesStep,
     SetMmapCountStep, SetMmapCheckerStep, SetMmapKmmapStep, SetMmapArraysStep, SetMmapPagesStep, InitMmapStep
     DEF DaemonStep
<1>2. ASSUME NEW d \in Daemons, QcFinit(d) \/ Killed(d) PROVE StartInv'
  BY <1>2, DiesStep DEF QcFinit, Killed, StartInv, StartTypes
<1>3. ASSUME NEW c \in Clients, ClientStep(c) PROVE StartInv'
  BY <1>3, ClientInvStep
<1>4. CASE UNCHANGED startVars
  <2>1. UNCHANGED <<device, slotTable, daemons, clients>>
    BY <1>4 DEF startVars
  <2>2. StartTypes' /\ CounterInv'
    BY <2>1 DEF StartInv, StartTypes, CounterInv, Refused, Pristine, device, slotTable, daemons, clients
  <2>3. HolderInv'
    <3>1. \A d \in Daemons : fd[d] => Stage(d)'
      BY <2>1, StageFrame DEF StartInv, HolderInv, device, daemons
    <3> QED BY <2>1, <3>1 DEF StartInv, HolderInv, SettingUp, daemons
  <2>4. LateInv'
    BY <2>1, LateFrame DEF StartInv, LateInv, Settled, device, slotTable, daemons
  <2> QED BY <2>2, <2>3, <2>4 DEF StartInv
<1> QED BY <1>1, <1>2, <1>3, <1>4, QhgpuInitStep DEF StartNext

\* The counter of the device, the stage of its holder and what late clients were told
\* stay in step through every call, failure, exit and death.
THEOREM StartInvariance == StartSpec => []StartInv
BY InitInv, InvStep, PTL DEF StartSpec

\* The counter qhgpu_av stays within the number of daemons and the counter of mapped
\* slots within the table, however often daemons are refused, killed and started again.
THEOREM StartTypeCorrect == StartSpec => []StartTypeOK
<1>1. StartInv => StartTypeOK
  <2> SUFFICES ASSUME StartInv PROVE StartTypeOK
    OBVIOUS
  <2>1. Cardinality(Refused) \in 0 .. Cardinality(Daemons) /\ Cardinality(Daemons) \in Nat
    BY RefusedCounted, FS_CardinalityType, StartupAssumption DEF StartInv
  <2>2. av \in - Cardinality(Daemons) .. 1
    BY <2>1 DEF StartInv, CounterInv
  <2> QED BY <2>2 DEF StartInv, StartTypes, StartTypeOK
<1> QED BY <1>1, StartInvariance, PTL

\* When a daemon serves, a slot of it is the clients' page of that number if and only
\* if no mmap call failed up to that slot, and no two mapped slots share a page.
THEOREM MemoryShared == StartSpec => []SameMemory
<1>1. StartInv => SameMemory
  <2> SUFFICES ASSUME StartInv, NEW d \in Daemons, Serving(d)
               PROVE  /\ DOMAIN dmap[d] = 0 .. moduleCnt - 1
                      /\ \A k \in 0 .. moduleCnt - 1 :
                           /\ OneSlot(d, k) <=> \A j \in 0 .. k : VmFault(d, j) # MapFailed
                           /\ VmFault(d, k) \notin {Null, Garbage}
                           /\ \A j \in 0 .. k - 1 : VmFault(d, j) = VmFault(d, k) => VmFault(d, k) = MapFailed
    BY DEF SameMemory
  <2> DEFINE n == moduleCnt
  <2>1. Stage(d) /\ dpc[d] = "loop"
    BY DEF StartInv, HolderInv, SettingUp, Serving
  <2>2. n = cnt[d] /\ n \in Nat /\ MappedUpTo(d, n) /\ KmmapRight(d) /\ mmapCount \in 0 .. n
    BY <2>1 DEF Stage, StartInv, StartTypes
  <2>3. \A i \in Nat : <<d, i>> \notin {Null, Garbage, MapFailed} /\ MapFailed \notin {Null, Garbage}
    <3>1. \A i \in Nat : <<d, i>> \in Daemons \X Nat
      OBVIOUS
    <3> QED BY <3>1, StartupAssumption
  <2>4. ASSUME NEW k \in 0 .. n - 1
        PROVE  OneSlot(d, k) <=> \A j \in 0 .. k : VmFault(d, j) # MapFailed
    <3>1. (\A j \in 0 .. k : VmFault(d, j) # MapFailed) <=> AllMapped(d, k + 1)
      BY DEF VmFault, AllMapped
    <3>2. CASE kmmap = Null
      <4>1. mmapCount = 0
        <5>1. n \in SlotCounts /\ n \in 0 .. n
          BY <2>1, <2>2 DEF Stage
        <5>2. Null \notin Arrays(n)
          BY <5>1, NullIsNoArray DEF Arrays
        <5> QED BY <2>2, <3>2, <5>2 DEF KmmapRight
      <4>2. dmap[d][0] = MapFailed
        BY <2>2, <4>1 DEF MappedUpTo
      <4> QED BY <3>2, <4>2 DEF OneSlot, VmFault
    <3>3. CASE kmmap # Null
      <4>1. kmmap[k] = IF k < mmapCount THEN <<d, k>> ELSE Garbage
        BY <2>2, <3>3 DEF KmmapRight
      <4>2. CASE dmap[d][k] = MapFailed
        <5>1. kmmap[k] # MapFailed
          BY <2>2, <2>3, <4>1
        <5> QED BY <4>2, <5>1 DEF OneSlot, VmFault
      <4>3. CASE dmap[d][k] # MapFailed
        <5>1. PICK i \in 0 .. k : i < mmapCount /\ dmap[d][k] = <<d, i>> /\ (i = k <=> AllMapped(d, k + 1))
          BY <2>2, <4>3 DEF MappedUpTo
        <5>2. dmap[d][k] = kmmap[k] <=> i = k
          BY <2>2, <2>3, <4>1, <5>1
        <5> QED BY <3>1, <3>3, <5>1, <5>2 DEF OneSlot, VmFault
      <4> QED BY <4>2, <4>3
    <3> QED BY <3>2, <3>3
  <2>5. ASSUME NEW k \in 0 .. n - 1
        PROVE  VmFault(d, k) \notin {Null, Garbage}
    <3>1. dmap[d][k] = MapFailed \/ \E i \in 0 .. k : dmap[d][k] = <<d, i>>
      BY <2>2 DEF MappedUpTo
    <3> QED BY <2>3, <3>1 DEF VmFault
  <2>6. \A k \in 0 .. n - 1 : \A j \in 0 .. k - 1 : VmFault(d, j) = VmFault(d, k) => VmFault(d, k) = MapFailed
    BY <2>2 DEF MappedUpTo, VmFault
  <2> QED BY <2>2, <2>4, <2>5, <2>6 DEF MappedUpTo
<1> QED BY <1>1, StartInvariance, PTL

-----------------------------------------------------------------------------
(* Clients that come too early                                             *)

\* The clients' array holds the pages of a slot or what vmalloc left there, in every
\* state of set-up and after the death of whoever began it.
TableInv ==
  kmmap # Null =>
    /\ moduleCnt \in SlotCounts
    /\ \A k \in 0 .. moduleCnt - 1 :
         kmmap[k] = Garbage \/ (pages # Null /\ k \in DOMAIN pages /\ kmmap[k] = pages[k])

Gets(c) == pages # Null /\ cslot[c] \in DOMAIN pages /\ caddr[c] = pages[cslot[c]]

Told(c) ==
  /\ cpc[c] \in {"addr", "has", "called"} => cslot[c] = 0 \/ cslot[c] < moduleCnt
  /\ cpc[c] \in {"has", "called"} => Gets(c) \/ caddr[c] = Garbage
  /\ cblock[c] = "wild" => pool = "noMap"

EarlyInv == TableInv /\ \A c \in Clients : Told(c)

\* The tables only grow: the number of slots is set once, pages are added, and a pool
\* without a mapping stays without one.
TablesGrow ==
  /\ moduleCnt = 0 \/ UNCHANGED moduleCnt
  /\ pages # Null => pages' # Null /\ \A k \in DOMAIN pages : k \in DOMAIN pages' /\ pages'[k] = pages[k]
  /\ pool = "noMap" => pool' = "noMap"

\* What a daemon's step does to the tables, and that whoever changes them holds the device.
LEMMA DaemonGrows ==
  ASSUME StartInv, NEW d \in Daemons, DaemonStep(d)
  PROVE  /\ TablesGrow /\ UNCHANGED clients
         /\ UNCHANGED <<moduleCnt, kmmap, pages>> \/ fd'[d]
<1>1. CASE QhgpuOpen(d) \/ OpenRefused(d) \/ GpuInit(d) \/ InitOpenCL(d) \/ LoadServices(d)
  BY <1>1 DEF QhgpuOpen, OpenRefused, GpuInit, InitOpenCL, LoadServices, TablesGrow, slotTable, device
<1>2. CASE SetGpuBufs(d)
  <2>1. fd[d] => pool = "empty"
    BY <1>2 DEF SetGpuBufs, StartInv, HolderInv, Stage, Pristine
  <2> QED BY <1>2, <2>1 DEF SetGpuBufs, TablesGrow, slotTable
<1>3. CASE SetMmapCount(d)
  <2>1. fd[d] /\ moduleCnt = 0
    BY <1>3 DEF SetMmapCount, StartInv, HolderInv, SettingUp, Stage
  <2> QED BY <1>3, <2>1 DEF SetMmapCount, TablesGrow, device
<1>4. CASE SetMmapChecker(d) \/ SetMmapKmmap(d)
  <2>1. fd[d]
    BY <1>4 DEF SetMmapChecker, SetMmapKmmap, StartInv, HolderInv, SettingUp
  <2> QED BY <1>4, <2>1 DEF SetMmapChecker, SetMmapKmmap, TablesGrow, device
<1>5. CASE SetMmapArrays(d)
  <2>1. fd[d] /\ pages = Null
    BY <1>5 DEF SetMmapArrays, StartInv, HolderInv, SettingUp, Stage
  <2> QED BY <1>5, <2>1 DEF SetMmapArrays, TablesGrow, device
<1>6. CASE SetMmapPages(d)
  <2>1. fd[d] /\ Stage(d) /\ dpc[d] = "pages"
    BY <1>6 DEF SetMmapPages, StartInv, HolderInv, SettingUp
  <2>2. UNCHANGED <<pool, moduleCnt, kmmap, clients>>
    BY <1>6 DEF SetMmapPages
  <2>3. CASE UNCHANGED pages
    BY <2>2, <2>3 DEF TablesGrow
  <2>4. CASE ~ UNCHANGED pages
    <3>1. PICK k \in 0 .. cnt[d] : PagesUpTo(d, k)
      BY <1>6, <2>1, <2>4 DEF Stage, SetMmapPages
    <3>2. k \in Nat /\ Cardinality(DOMAIN pages) = k /\ DOMAIN pages = 0 .. k - 1
      <4>1. cnt[d] \in Nat
        BY <2>1, SlotCountsPositive DEF Stage
      <4> QED BY <3>1, <4>1, SlotsCounted DEF PagesUpTo
    <3>3. pages' = [j \in 0 .. k |-> IF j = k THEN <<d, k>> ELSE pages[j]] /\ UNCHANGED fd
      BY <1>6, <2>4, <3>2 DEF SetMmapPages
    <3>4. pages' # Null
      <4>1. k <= cnt[d] - 1 /\ cnt[d] \in SlotCounts /\ cnt[d] \in Nat
        <5>1. cnt[d] \in SlotCounts /\ cnt[d] \in Nat
          BY <2>1, SlotCountsPositive DEF Stage
        <5>2. k # cnt[d]
          BY <1>6, <2>4, <3>2 DEF SetMmapPages
        <5> QED BY <3>2, <5>1, <5>2
      <4>2. \A j \in 0 .. k : <<d, j>> \in Daemons \X (0 .. cnt[d] - 1)
        BY <3>2, <4>1
      <4>3. pages' \in [0 .. (k + 1) - 1 -> {Garbage} \cup (Daemons \X (0 .. cnt[d] - 1))]
        BY <3>1, <3>2, <3>3, <4>2 DEF PagesUpTo
      <4>4. k + 1 \in 0 .. cnt[d]
        BY <3>2, <4>1
      <4> QED BY <4>1, <4>3, <4>4, NullIsNoArray
    <3> QED BY <2>1, <2>2, <3>2, <3>3, <3>4 DEF TablesGrow, PagesUpTo
  <2> QED BY <2>3, <2>4
<1>7. CASE InitMmap(d)
  <2>1. fd[d]
    BY <1>7 DEF InitMmap, StartInv, HolderInv, SettingUp
  <2>2. UNCHANGED <<pool, moduleCnt, pages, clients>>
    BY <1>7 DEF InitMmap
  <2>3. UNCHANGED kmmap \/ fd'[d]
    BY <1>7, <2>1 DEF InitMmap, QhgpuMmap, MmapFails
  <2> QED BY <2>2, <2>3 DEF TablesGrow
<1> QED BY <1>1, <1>2, <1>3, <1>4, <1>5, <1>6, <1>7 DEF DaemonStep

LEMMA TableStep ==
  ASSUME StartInv, StartInv', TableInv, [StartNext]_startVars
  PROVE  TableInv'
<1>1. CASE \E d \in Daemons : fd'[d]
  <2>1. PICK d \in Daemons : Stage(d)'
    BY <1>1 DEF StartInv, HolderInv
  <2>2. CASE kmmap' = Null
    BY <2>2 DEF TableInv
  <2>3. CASE kmmap' # Null
    <3>1. /\ cnt'[d] \in SlotCounts /\ moduleCnt' = cnt'[d] /\ KmmapRight(d)'
          /\ mmapCount' = 0 \/ PagesUpTo(d, cnt[d])'
      BY <2>1, <2>3 DEF Stage, Pristine
    <3>2. ASSUME NEW k \in 0 .. moduleCnt' - 1
          PROVE  kmmap'[k] = Garbage \/ (pages' # Null /\ k \in DOMAIN pages' /\ kmmap'[k] = pages'[k])
      <4>1. kmmap'[k] = IF k < mmapCount' THEN <<d, k>> ELSE Garbage
        BY <2>3, <3>1 DEF KmmapRight
      <4>2. CASE mmapCount' = 0
        BY <4>1, <4>2
      <4>3. CASE PagesUpTo(d, cnt[d])'
        BY <3>1, <4>1, <4>3 DEF PagesUpTo
      <4> QED BY <3>1, <4>2, <4>3
    <3> QED BY <3>1, <3>2 DEF TableInv
  <2> QED BY <2>2, <2>3
<1>2. CASE UNCHANGED <<moduleCnt, kmmap, pages>>
  BY <1>2 DEF TableInv
<1>3. UNCHANGED <<moduleCnt, kmmap, pages>> \/ \E d \in Daemons : fd'[d]
  <2>1. ASSUME NEW d \in Daemons, DaemonStep(d)
        PROVE  UNCHANGED <<moduleCnt, kmmap, pages>> \/ fd'[d]
    BY <2>1, DaemonGrows
  <2>2. ASSUME NEW d \in Daemons, QcFinit(d) \/ Killed(d) PROVE UNCHANGED slotTable
    BY <2>2 DEF QcFinit, Killed
  <2>3. ASSUME NEW c \in Clients, ClientStep(c) PROVE UNCHANGED slotTable
    BY <2>3 DEF ClientStep, AllocFromCache, MmapId, MmapAddrPass, Vmalloc, CallSync
  <2>4. QhgpuInit \/ UNCHANGED startVars => UNCHANGED slotTable
    BY DEF QhgpuInit, startVars
  <2> QED BY <2>1, <2>2, <2>3, <2>4 DEF StartNext, slotTable
<1> QED BY <1>1, <1>2, <1>3

\* What a client was told stays true while tables only grow.
LEMMA ToldFrame ==
  ASSUME StartInv, TablesGrow, NEW c \in Clients, Told(c),
         cpc'[c] = cpc[c], cslot'[c] = cslot[c], caddr'[c] = caddr[c], cblock'[c] = cblock[c]
  PROVE  Told(c)'
<1>1. cslot[c] \in Nat /\ moduleCnt \in Nat
  BY DEF StartInv, StartTypes
<1>2. cpc[c] \in {"addr", "has", "called"} => cslot[c] = 0 \/ cslot[c] < moduleCnt'
  BY <1>1 DEF Told, TablesGrow
<1>3. Gets(c) => Gets(c)'
  BY DEF Gets, TablesGrow
<1> QED BY <1>2, <1>3 DEF Told, TablesGrow

LEMMA ToldStep ==
  ASSUME StartInv, EarlyInv, NEW c \in Clients, ClientStep(c), NEW b \in Clients
  PROVE  Told(b)'
<1>0. /\ cpc \in [Clients -> {"none", "id", "addr", "has", "called", "oops"}] /\ cslot \in [Clients -> Nat]
      /\ cblock \in [Clients -> {Null, "block", "wild"}] /\ DOMAIN caddr = Clients /\ moduleCnt \in Nat
  BY DEF StartInv, StartTypes
<1>1. UNCHANGED <<device, slotTable>>
  BY DEF ClientStep, AllocFromCache, MmapId, MmapAddrPass, Vmalloc, CallSync
<1>2. UNCHANGED <<moduleCnt, kmmap, pages, pool>>
  BY <1>1 DEF device, slotTable
<1>3. Told(b) /\ Told(c) /\ TableInv
  BY DEF EarlyInv
<1>4. CASE b # c
  <2>1. TablesGrow
    BY <1>2 DEF TablesGrow
  <2>2. cpc'[b] = cpc[b] /\ cslot'[b] = cslot[b] /\ caddr'[b] = caddr[b] /\ cblock'[b] = cblock[b]
    <3>1. CASE AllocFromCache(c) \/ MmapId(c) \/ MmapAddrPass(c) \/ CallSync(c)
      BY <1>0, <1>4, <3>1 DEF AllocFromCache, MmapId, MmapAddrPass, CallSync, ClientGoes
    <3>2. CASE Vmalloc(c)
      <4>1. pool \in {"empty", "noPages", "noBitmap", "noSizes", "noMap", "ready"}
        BY DEF StartInv, StartTypes
      <4>2. /\ cpc' = cpc \/ cpc' = [cpc EXCEPT ![c] = "oops"]
            /\ \/ cblock' = cblock
               \/ cblock' = [cblock EXCEPT ![c] = "wild"] \/ cblock' = [cblock EXCEPT ![c] = "block"]
            /\ UNCHANGED <<cslot, caddr>>
        BY <3>2, <4>1 DEF Vmalloc, ClientGoes
      <4> QED BY <1>0, <1>4, <4>2
    <3> QED BY <3>1, <3>2 DEF ClientStep
  <2> QED BY <1>3, <2>1, <2>2, ToldFrame
<1>5. CASE AllocFromCache(c)
  <2>1. cpc'[c] \in {"id", "oops"} /\ cblock'[c] # "wild"
    BY <1>0, <1>5, StartupAssumption DEF AllocFromCache, ClientGoes
  <2> QED BY <1>4, <2>1 DEF Told
<1>6. CASE MmapId(c)
  <2>1. cblock' = cblock /\ caddr' = caddr
    BY <1>6 DEF MmapId
  <2>2. \/ cpc'[c] = "oops"
        \/ cpc'[c] = "addr" /\ (cslot'[c] = 0 \/ cslot'[c] < moduleCnt)
    BY <1>0, <1>6 DEF MmapId, ClientGoes
  <2> QED BY <1>2, <1>3, <1>4, <2>1, <2>2 DEF Told
<1>7. CASE MmapAddrPass(c)
  <2>1. cblock' = cblock /\ cslot' = cslot /\ cpc[c] = "addr"
    BY <1>7 DEF MmapAddrPass
  <2>2. CASE cpc'[c] = "oops"
    BY <1>2, <1>3, <1>4, <2>1, <2>2 DEF Told
  <2>3. CASE kmmap # Null /\ cpc'[c] = "has" /\ caddr'[c] = kmmap[cslot[c]]
    <3>1. moduleCnt \in Nat \ {0}
      BY <1>3, <2>3, SlotCountsPositive DEF TableInv
    <3>2. cslot[c] \in 0 .. moduleCnt - 1
      BY <1>0, <1>3, <2>1, <3>1 DEF Told
    <3>3. caddr'[c] = Garbage \/ Gets(c)'
      BY <1>2, <1>3, <2>1, <2>3, <3>2 DEF TableInv, Gets
    <3> QED BY <1>0, <1>2, <1>3, <1>4, <2>1, <2>3, <3>2, <3>3 DEF Told
  <2> QED BY <1>0, <1>7, <2>2, <2>3 DEF MmapAddrPass, ClientGoes
<1>8. CASE Vmalloc(c)
  <2>1. cslot' = cslot /\ caddr' = caddr /\ cpc[c] = "has"
    BY <1>8 DEF Vmalloc
  <2>2. /\ cpc'[c] \in {"has", "oops"}
        /\ cblock'[c] = cblock[c] \/ cblock'[c] = "block" \/ pool = "noMap"
    BY <1>0, <1>8, <2>1 DEF Vmalloc, ClientGoes, StartInv, StartTypes
  <2>3. Gets(c) => Gets(c)'
    BY <1>2, <2>1 DEF Gets
  <2> QED BY <1>2, <1>3, <1>4, <2>1, <2>2, <2>3 DEF Told
<1>9. CASE CallSync(c)
  <2>1. cslot' = cslot /\ caddr' = caddr /\ cblock' = cblock /\ cpc[c] = "has" /\ cpc'[c] \in {"oops", "called"}
    BY <1>0, <1>9 DEF CallSync, ClientGoes
  <2>2. Gets(c) => Gets(c)'
    BY <1>2, <2>1 DEF Gets
  <2> QED BY <1>2, <1>3, <1>4, <2>1, <2>2 DEF Told
<1> QED BY <1>5, <1>6, <1>7, <1>8, <1>9 DEF ClientStep

LEMMA EarlyStep ==
  ASSUME StartInv, StartInv', EarlyInv, [StartNext]_startVars
  PROVE  EarlyInv'
<1>1. TableInv'
  BY TableStep DEF EarlyInv
<1>2. ASSUME NEW c \in Clients, TablesGrow, UNCHANGED clients PROVE Told(c)'
  BY <1>2, ToldFrame DEF EarlyInv, clients
<1>3. ASSUME NEW d \in Daemons, DaemonStep(d) PROVE TablesGrow /\ UNCHANGED clients
  BY <1>3, DaemonGrows
<1>4. ASSUME NEW d \in Daemons, QcFinit(d) \/ Killed(d) PROVE TablesGrow /\ UNCHANGED clients
  BY <1>4 DEF QcFinit, Killed, TablesGrow, slotTable
<1>5. QhgpuInit \/ UNCHANGED startVars => TablesGrow /\ UNCHANGED clients
  BY DEF QhgpuInit, startVars, TablesGrow, slotTable, device
<1>6. ASSUME NEW c \in Clients, NEW b \in Clients, ClientStep(b) PROVE Told(c)'
  BY <1>6, ToldStep
<1>7. \A c \in Clients : Told(c)'
  BY <1>2, <1>3, <1>4, <1>5, <1>6 DEF StartNext
<1> QED BY <1>1, <1>7 DEF EarlyInv

\* Clients get the pages of their slot or what vmalloc left in the table, whenever they
\* come; those that came when a daemon was serving get the pages of every counted slot,
\* for ever: not even the death of the daemon takes them away.
THEOREM ClientsAreServed == StartSpec => []ClientsServed
<1>1. StartInit => EarlyInv
  BY StartupAssumption DEF StartInit, EarlyInv, TableInv, Told
<1>2. StartInv /\ StartInv' /\ EarlyInv /\ [StartNext]_startVars => EarlyInv'
  BY EarlyStep
<1>3. StartInv /\ EarlyInv => ClientsServed
  <2> SUFFICES ASSUME StartInv, EarlyInv, NEW c \in Clients
               PROVE  /\ cpc[c] \in {"has", "called"} => Gets(c) \/ caddr[c] = Garbage
                      /\ cblock[c] = "wild" => pool = "noMap" /\ ~ late[c]
                      /\ late[c] => /\ cpc[c] = "oops" => Null \in {checker, kmmap, modules}
                                    /\ cpc[c] \in {"has", "called"} => (Gets(c) <=> cslot[c] < mmapCount)
    BY DEF ClientsServed, Gets
  <2>1. Told(c) /\ (late[c] => Settled /\ Served(c))
    BY DEF EarlyInv, StartInv, LateInv
  <2>2. ASSUME late[c], cpc[c] \in {"has", "called"} PROVE Gets(c) <=> cslot[c] < mmapCount
    <3>1. /\ cslot[c] \in 0 .. moduleCnt - 1 /\ kmmap # Null /\ caddr[c] = kmmap[cslot[c]]
          /\ pages # Null /\ DOMAIN pages = 0 .. moduleCnt - 1 /\ pages[cslot[c]] \in Daemons \X Nat
          /\ kmmap[cslot[c]] = IF cslot[c] < mmapCount THEN pages[cslot[c]] ELSE Garbage
      BY <2>1, <2>2 DEF Settled, Served
    <3>2. Garbage \notin Daemons \X Nat
      BY StartupAssumption
    <3> QED BY <3>1, <3>2 DEF Gets
  <2> QED BY <2>1, <2>2 DEF Told, Served
<1> QED BY <1>1, <1>2, <1>3, StartInvariance, PTL DEF StartSpec

\* What a step does that gives a daemon the device.
LEMMA DeviceIsGivenUntouched ==
  ASSUME StartInv, [StartNext]_startVars, NEW d \in Daemons, ~ fd[d], fd'[d]
  PROVE  pool = "empty" /\ moduleCnt = 0 /\ mmapCount = 0
<1>1. fd \in [Daemons -> BOOLEAN]
  BY DEF StartInv, StartTypes
<1>2. PICK e \in Daemons : QhgpuOpen(e)
  <2>1. ASSUME UNCHANGED fd PROVE FALSE
    BY <2>1
  <2>2. ASSUME NEW e \in Daemons, Dies(e) PROVE FALSE
    BY <1>1, <2>2 DEF Dies
  <2>3. ASSUME NEW e \in Daemons, DaemonStep(e) PROVE QhgpuOpen(e)
    BY <2>1, <2>2, <2>3 DEF DaemonStep, OpenRefused, GpuInit, SetGpuBufs, InitOpenCL, LoadServices,
       SetMmapCount, SetMmapChecker, SetMmapKmmap, SetMmapArrays, SetMmapPages, InitMmap,
       MmapFails, QhgpuMmap
  <2>4. ASSUME NEW e \in Daemons, QcFinit(e) \/ Killed(e) PROVE FALSE
    BY <2>2, <2>4 DEF QcFinit, Killed
  <2>5. ASSUME NEW c \in Clients, ClientStep(c) PROVE FALSE
    BY <2>1, <2>5 DEF ClientStep, AllocFromCache, MmapId, MmapAddrPass, Vmalloc, CallSync, daemons
  <2>6. ~ QhgpuInit
    BY <2>1 DEF QhgpuInit, daemons
  <2>7. ~ UNCHANGED startVars
    BY <2>1 DEF startVars, daemons
  <2> QED BY <2>3, <2>4, <2>5, <2>6, <2>7 DEF StartNext
<1>3. node = "ready" /\ av' = av - 1 /\ fd' = [fd EXCEPT ![e] = av' = 0]
  BY <1>2 DEF QhgpuOpen
<1>4. av' = 0
  BY <1>1, <1>3
<1>5. Cardinality(Refused) \in Nat
  BY RefusedCounted DEF StartInv
<1>6. av = 1
  BY <1>3, <1>4, <1>5 DEF StartInv, CounterInv
<1> QED BY <1>5, <1>6 DEF StartInv, CounterInv, Pristine

\* One daemon at most has the device, only that one sets it up, and whoever gets it
\* finds it as insmod left it, however many daemons race for it.
THEOREM OnlyOneDaemon == StartSpec => OneDaemon
<1>1. StartInv /\ [StartNext]_startVars =>
        \A d \in Daemons : ~ fd[d] /\ fd'[d] => pool = "empty" /\ moduleCnt = 0 /\ mmapCount = 0
  BY DeviceIsGivenUntouched
<1>2. StartInv /\ StartInv' /\ [StartNext]_startVars =>
        /\ \A d, e \in Daemons : fd'[d] /\ fd'[e] => d = e
        /\ \A d \in Daemons : SettingUp(d)' => fd'[d]
        /\ \A d \in Daemons : ~ fd[d] /\ fd'[d] => pool = "empty" /\ moduleCnt = 0 /\ mmapCount = 0
  BY <1>1 DEF StartInv, HolderInv
<1> QED BY <1>2, StartInvariance, PTL DEF StartSpec, OneDaemon

-----------------------------------------------------------------------------
(* The list of services                                                    *)

EntriesOf(f) == {i \in DOMAIN services : services[i].file = f}

RegistryTypes ==
  /\ services \in Seq(Entries) /\ nextId \in 1 .. MAXENTRIES + 1
  /\ refs \in [Libs -> Nat] /\ \A f \in Libs : refs[f] < nextId
  /\ pc \in {"load", "run", "unload", "exited"} /\ failed \in BOOLEAN
  /\ slots \in 0 .. Len(Files)
  /\ pc = "load" => at \in 0 .. Len(Files)
  /\ pc \in {"run", "unload"} => slots = Len(Files)

\* Entries are on the list in the order in which they were made, and the library of
\* an entry that is mapped is open.
ListInv ==
  /\ \A i \in DOMAIN services :
       /\ services[i].id < nextId
       /\ services[i].mapped => refs[services[i].file] > 0
  /\ \A i, j \in DOMAIN services : i < j => services[i].id < services[j].id

\* qc_unload_all_services is at an entry of the list and has saved the next one; as
\* long as no finit_service failed, that is the first one.
WalkInv ==
  pc = "unload" =>
    \/ at = NoEntry /\ saved = NoEntry
    \/ \E k \in DOMAIN services :
         at = services[k].id /\ saved = IdAt(services, k + 1) /\ (~ failed => k = 1)

RegistryInv == RegistryTypes /\ ListInv /\ WalkInv /\ OpenWhileListed

LEMMA EntryTypes ==
  ASSUME RegistryAssumption, NEW list \in Seq(Entries)
  PROVE  /\ Len(list) \in Nat /\ DOMAIN list = 1 .. Len(list)
         /\ \A j \in 1 .. Len(list) : /\ list[j] \in Entries /\ list[j].id \in 1 .. MAXENTRIES
                                      /\ list[j].file \in Libs /\ list[j].mapped \in BOOLEAN
<1>1. Len(list) \in Nat /\ DOMAIN list = 1 .. Len(list) /\ \A j \in 1 .. Len(list) : list[j] \in Entries
  OBVIOUS
<1>2. \A e \in Entries : e.id \in 1 .. MAXENTRIES /\ e.file \in Libs /\ e.mapped \in BOOLEAN
  BY DEF Entries
<1> QED BY <1>1, <1>2

\* A look-up of the name of an entry finds that entry or one before it.
LEMMA LookupFinds ==
  ASSUME NEW list \in Seq(Entries), NEW i \in DOMAIN list
  PROVE  /\ Lookup(list, ServiceOf[list[i].file]) \in 1 .. i
         /\ i = 1 => Lookup(list, ServiceOf[list[i].file]) = 1
<1> DEFINE name == ServiceOf[list[i].file]
           matches == {k \in DOMAIN list : ServiceOf[list[k].file] = name}
<1>1. DOMAIN list = 1 .. Len(list) /\ Len(list) \in Nat
  OBVIOUS
<1>2. matches \subseteq Nat /\ i \in matches
  BY <1>1
<1>3. Lookup(list, name) = CHOOSE k \in matches : \A j \in matches : k <= j
  BY <1>2 DEF Lookup
<1> HIDE DEF matches, name
<1>4. \E k \in matches : \A j \in matches : k <= j
  BY <1>2, FirstPlace
<1>5. Lookup(list, name) \in matches /\ \A j \in matches : Lookup(list, name) <= j
  BY <1>3, <1>4
<1>6. matches \subseteq 1 .. Len(list)
  BY <1>1 DEF matches
<1>7. Lookup(list, name) \in 1 .. Len(list) /\ Lookup(list, name) <= i
  BY <1>2, <1>5, <1>6
<1>8. i \in 1 .. Len(list)
  BY <1>1
<1>9. Lookup(list, name) \in 1 .. i /\ (i = 1 => Lookup(list, name) = 1)
  BY <1>1, <1>7, <1>8
<1> QED BY <1>9 DEF name

\* What an unload leaves of the list: entry r is gone, or none is, and the entries of
\* a library that is closed for the last time are no longer mapped.
Shrunk(r, f) ==
  LET from(j) == IF r = 0 \/ j < r THEN j ELSE j + 1 IN
  /\ services' \in Seq(Entries)
  /\ Len(services') = IF r = 0 THEN Len(services) ELSE Len(services) - 1
  /\ \A j \in 1 .. Len(services') :
       /\ from(j) \in 1 .. Len(services)
       /\ services'[j].id = services[from(j)].id
       /\ services'[j].file = services[from(j)].file
       /\ services'[j].mapped = (services[from(j)].mapped /\ (services[from(j)].file = f => refs[f] > 1))

LEMMA RemoveAtShrinks ==
  ASSUME NEW list \in Seq(Entries), NEW f \in Libs, NEW r \in 0 .. Len(services),
         services \in Seq(Entries), refs \in [Libs -> Nat],
         list = IF r = 0 THEN services ELSE RemoveAt(services, r),
         services' = Closed(list, f)
  PROVE  Shrunk(r, f)
<1> DEFINE from(j) == IF r = 0 \/ j < r THEN j ELSE j + 1
<1>0. Len(services) \in Nat /\ DOMAIN services = 1 .. Len(services)
  OBVIOUS
<1>1. /\ Len(list) = IF r = 0 THEN Len(services) ELSE Len(services) - 1
      /\ Len(list) \in Nat /\ DOMAIN list = 1 .. Len(list)
      /\ \A j \in 1 .. Len(list) : from(j) \in 1 .. Len(services) /\ list[j] = services[from(j)]
  <2>1. CASE r = 0
    BY <1>0, <2>1
  <2>2. CASE r # 0
    <3>1. /\ Len(list) = Len(services) - 1
          /\ DOMAIN list = 1 .. Len(services) - 1
          /\ \A j \in 1 .. Len(services) - 1 :
               list[j] = IF j < r THEN services[j] ELSE services[j + 1]
      <4>1. list = RemoveAt(services, r) /\ r \in 1 .. Len(services)
        BY <1>0, <2>2
      <4>2. services \in Seq(Entries)
        OBVIOUS
      <4> QED BY ONLY <4>1, <4>2, RemoveAtElements
    <3>2. Len(list) \in Nat
      OBVIOUS
    <3>3. ASSUME NEW j \in 1 .. Len(list)
          PROVE  from(j) \in 1 .. Len(services) /\ list[j] = services[from(j)]
      <4>1. CASE j < r
        BY <1>0, <2>2, <3>1, <4>1
      <4>2. CASE ~ (j < r)
        BY <1>0, <2>2, <3>1, <4>2
      <4> QED BY <4>1, <4>2
    <3> QED BY <2>2, <3>1, <3>2, <3>3
  <2> QED BY <2>1, <2>2
<1>2. \A j \in 1 .. Len(list) : list[j] \in Entries
  BY <1>1
<1> DEFINE gone(e) == [e EXCEPT !.mapped = FALSE]
<1>3. \A e \in Entries : gone(e) \in Entries /\ gone(e).id = e.id /\ gone(e).file = e.file /\ gone(e).mapped = FALSE
  BY DEF Entries
<1>4. CASE refs[f] > 1
  <2>1. services' = list
    BY <1>4 DEF Closed
  <2>2. \A j \in 1 .. Len(list) : list[j].mapped \in BOOLEAN
    BY <1>2 DEF Entries
  <2> QED BY <1>1, <1>4, <2>1, <2>2 DEF Shrunk
<1>5. CASE ~ (refs[f] > 1)
  <2>1. services' = [j \in 1 .. Len(list) |-> IF list[j].file = f THEN gone(list[j]) ELSE list[j]]
    BY <1>1, <1>5 DEF Closed
  <2> HIDE DEF gone
  <2>2. \A j \in 1 .. Len(list) : services'[j] \in Entries
    BY <1>2, <1>3, <2>1
  <2>3. services' \in Seq(Entries) /\ Len(services') = Len(list)
    <3>1. services' \in [1 .. Len(list) -> Entries]
      BY <2>1, <2>2
    <3>2. Len(list) \in Nat
      BY <1>1
    <3> QED BY ONLY <3>1, <3>2, FunctionIsList
  <2>4. \A j \in 1 .. Len(list) :
          /\ services'[j].id = list[j].id /\ services'[j].file = list[j].file
          /\ services'[j].mapped = (list[j].mapped /\ list[j].file # f)
    <3> SUFFICES ASSUME NEW j \in 1 .. Len(list)
                 PROVE  /\ services'[j].id = list[j].id /\ services'[j].file = list[j].file
                        /\ services'[j].mapped = (list[j].mapped /\ list[j].file # f)
      OBVIOUS
    <3>1. CASE list[j].file = f
      <4>1. services'[j] = gone(list[j]) /\ list[j] \in Entries
        BY <1>2, <2>1, <3>1
      <4>2. /\ services'[j].id = list[j].id /\ services'[j].file = list[j].file
            /\ services'[j].mapped = FALSE
        BY <1>3, <4>1
      <4>3. (list[j].mapped /\ list[j].file # f) = FALSE
        BY <3>1
      <4> QED BY <4>2, <4>3
    <3>2. CASE list[j].file # f
      <4>1. services'[j] = list[j] /\ list[j].mapped \in BOOLEAN
        BY <1>2, <2>1, <3>2 DEF Entries
      <4> QED BY <3>2, <4>1
    <3> QED BY <3>1, <3>2
  <2> QED BY <1>1, <1>5, <2>3, <2>4 DEF Shrunk
<1> QED BY <1>4, <1>5

\* finit_service unregisters the first entry of the name, which is the entry that is
\* unloaded or one before it.
LEMMA UnloadShrinks ==
  ASSUME RegistryAssumption, RegistryTypes, NEW i \in DOMAIN services, UnloadEntry(i)
  PROVE  \E r \in 0 .. i :
           /\ Shrunk(r, services[i].file)
           /\ r = 0 => failed'
           /\ r # 0 /\ Lookup(services, ServiceOf[services[i].file]) = i => r = i
<1> DEFINE f == services[i].file
           k == Lookup(services, ServiceOf[f])
<1>1. services \in Seq(Entries) /\ refs \in [Libs -> Nat]
  BY DEF RegistryTypes
<1>2. f \in Libs /\ i \in 1 .. Len(services) /\ Len(services) \in Nat
  BY <1>1, EntryTypes
<1>3. k \in 1 .. i
  BY <1>1, LookupFinds
<1>4. Finit[f] \in {"unregisters", "fails", "none"}
  BY <1>2 DEF RegistryAssumption, Libs
<1>5. ASSUME NEW r \in 0 .. i,
             services' = Closed(IF r = 0 THEN services ELSE RemoveAt(services, r), f)
      PROVE  Shrunk(r, f)
  <2> DEFINE list == IF r = 0 THEN services ELSE RemoveAt(services, r)
  <2>1. r \in 0 .. Len(services)
    BY <1>2, <1>5
  <2>2. list \in Seq(Entries)
    <3>1. CASE r = 0
      BY <1>1, <3>1
    <3>2. CASE r # 0
      <4>1. r \in 1 .. Len(services)
        BY <1>2, <2>1, <3>2
      <4> QED BY <1>1, <3>2, <4>1, RemoveAtType
    <3> QED BY <3>1, <3>2
  <2> QED BY <1>1, <1>2, <1>5, <2>1, <2>2, RemoveAtShrinks
<1>6. CASE Finit[f] = "unregisters"
  <2>1. services' = Closed(RemoveAt(services, k), f)
    <3>1. services' = Closed(Unregistered(services, ServiceOf[f]), f)
      BY <1>6 DEF UnloadEntry
    <3>2. Unregistered(services, ServiceOf[f]) = RemoveAt(services, k)
      BY <1>2, <1>3 DEF Unregistered
    <3> QED BY <3>1, <3>2
  <2>2. k \in 0 .. i /\ k # 0
    BY <1>2, <1>3
  <2>3. Shrunk(k, f)
    BY <1>5, <2>1, <2>2
  <2> QED BY <2>2, <2>3
<1>7. CASE Finit[f] = "fails"
  <2>1. services' = Closed(services, f) /\ failed'
    BY <1>7 DEF UnloadEntry
  <2>2. 0 \in 0 .. i
    BY <1>2
  <2> QED BY <1>5, <2>1, <2>2
<1>8. CASE Finit[f] = "none"
  <2>1. services' = Closed(RemoveAt(services, i), f)
    BY <1>8 DEF UnloadEntry
  <2>2. i \in 0 .. i /\ i # 0
    BY <1>2
  <2> QED BY <1>5, <2>1, <2>2
<1> QED BY <1>4, <1>6, <1>7, <1>8

\* What is left of the list is in order, and its mapped libraries are open.
LEMMA ListAfterUnload ==
  ASSUME RegistryAssumption, RegistryInv, NEW i \in DOMAIN services, UnloadEntry(i), UNCHANGED nextId,
         NEW r \in 0 .. i, Shrunk(r, services[i].file)
  PROVE  /\ ListInv' /\ services' \in Seq(Entries) /\ failed' \in BOOLEAN
         /\ refs' \in [Libs -> Nat] /\ \A g \in Libs : refs'[g] < nextId
<1> DEFINE f == services[i].file
           from(j) == IF r = 0 \/ j < r THEN j ELSE j + 1
<1> USE DEF RegistryInv
<1>1. services \in Seq(Entries) /\ refs \in [Libs -> Nat] /\ nextId \in Nat /\ \A g \in Libs : refs[g] < nextId
  BY DEF RegistryTypes, RegistryAssumption
<1>2. /\ f \in Libs /\ DOMAIN services = 1 .. Len(services) /\ Len(services) \in Nat
      /\ \A j \in 1 .. Len(services) : services[j].id \in Nat /\ services[j].file \in Libs
  <2>1. \A n \in 1 .. MAXENTRIES : n \in Nat
    BY DEF RegistryAssumption
  <2> QED BY <1>1, <2>1, EntryTypes
<1>3. services' \in Seq(Entries) /\ DOMAIN services' = 1 .. Len(services') /\ Len(services') \in Nat
  BY DEF Shrunk
<1>4. \A j \in 1 .. Len(services') :
       /\ from(j) \in 1 .. Len(services)
       /\ services'[j].id = services[from(j)].id
       /\ services'[j].file = services[from(j)].file
       /\ services'[j].mapped => services[from(j)].mapped /\ (services[from(j)].file = f => refs[f] > 1)
  BY DEF Shrunk
<1>5. refs[f] > 0
  BY DEF UnloadEntry, CanUnload, ListInv
<1>6. refs' = [refs EXCEPT ![f] = refs[f] - 1] /\ failed' \in BOOLEAN
  BY DEF UnloadEntry
<1>7. refs' \in [Libs -> Nat] /\ \A g \in Libs : refs'[g] <= refs[g]
  BY <1>1, <1>2, <1>5, <1>6
<1>8. \A g \in Libs : refs'[g] < nextId
  BY <1>1, <1>7
<1>9. ASSUME NEW j \in 1 .. Len(services')
      PROVE  services'[j].id < nextId' /\ (services'[j].mapped => refs'[services'[j].file] > 0)
  <2>1. services'[j].id < nextId
    BY <1>2, <1>4 DEF ListInv
  <2>2. CASE services[from(j)].file = f
    BY <1>1, <1>2, <1>4, <1>6, <2>1, <2>2
  <2>3. CASE services[from(j)].file # f
    <3>1. services[from(j)].mapped => refs[services[from(j)].file] > 0
      BY <1>2, <1>4 DEF ListInv
    <3>2. services[from(j)].file \in Libs
      BY <1>2, <1>4
    <3> QED BY <1>1, <1>4, <1>6, <2>1, <2>3, <3>1, <3>2
  <2> QED BY <2>2, <2>3
<1>10. ASSUME NEW j \in 1 .. Len(services'), NEW k \in 1 .. Len(services'), j < k
       PROVE  services'[j].id < services'[k].id
  <2>1. from(j) \in 1 .. Len(services) /\ from(k) \in 1 .. Len(services) /\ from(j) < from(k)
    BY <1>3, <1>4, <1>10
  <2> HIDE DEF from
  <2> QED BY <1>2, <1>4, <2>1 DEF ListInv
<1> QED BY <1>3, <1>6, <1>7, <1>8, <1>9, <1>10 DEF ListInv

\* A look-up that succeeds found an entry of the name.
LEMMA LookupMatches ==
  ASSUME NEW list \in Seq(Entries), NEW name, Lookup(list, name) # 0
  PROVE  Lookup(list, name) \in DOMAIN list /\ ServiceOf[list[Lookup(list, name)].file] = name
<1> DEFINE matches == {k \in DOMAIN list : ServiceOf[list[k].file] = name}
<1>1. matches # {} /\ Lookup(list, name) = CHOOSE k \in matches : \A j \in matches : k <= j
  BY DEF Lookup
<1>2. matches \subseteq Nat
  OBVIOUS
<1>3. \E k \in matches : \A j \in matches : k <= j
  BY <1>1, <1>2, FirstPlace
<1> QED BY <1>1, <1>3

\* Entries have different numbers, so an entry has one place.
LEMMA PlaceIsUnique ==
  ASSUME RegistryAssumption, NEW list \in Seq(Entries), NEW k \in DOMAIN list,
         \A i, j \in DOMAIN list : i < j => list[i].id < list[j].id
  PROVE  Place(list, list[k].id) = k
<1>1. Len(list) \in Nat /\ DOMAIN list = 1 .. Len(list)
  OBVIOUS
<1>2. \A j \in DOMAIN list : list[j].id \in Int
  <2>1. \A n \in 1 .. MAXENTRIES : n \in Int
    BY DEF RegistryAssumption
  <2> QED BY <1>1, <2>1, EntryTypes
<1>3. \A j \in DOMAIN list : list[j].id = list[k].id => j = k
  <2> SUFFICES ASSUME NEW j \in DOMAIN list, list[j].id = list[k].id, j # k PROVE FALSE
    OBVIOUS
  <2>1. j < k \/ k < j
    BY <1>1
  <2>2. list[j].id < list[k].id \/ list[k].id < list[j].id
    BY <2>1
  <2> QED BY <1>2, <2>2
<1> QED BY <1>3 DEF Place

\* When no finit_service failed and the first entry of a name was unloaded, libraries
\* are open as often as they are listed.
LEMMA OpenAfterUnload ==
  ASSUME RegistryAssumption, RegistryInv, NEW i \in DOMAIN services, UnloadEntry(i), ~ failed,
         Shrunk(i, services[i].file)
  PROVE  OpenWhileListed'
<1> DEFINE f == services[i].file
           up(j) == IF j < i THEN j ELSE j + 1
<1> USE DEF RegistryInv
<1>1. services \in Seq(Entries) /\ refs \in [Libs -> Nat]
  BY DEF RegistryTypes
<1>2. /\ f \in Libs /\ DOMAIN services = 1 .. Len(services) /\ Len(services) \in Nat
      /\ i \in 1 .. Len(services) /\ i # 0
  BY <1>1, EntryTypes
<1>3. DOMAIN services' = 1 .. Len(services) - 1
  <2>1. services' \in Seq(Entries) /\ Len(services') = Len(services) - 1
    BY <1>2 DEF Shrunk
  <2> QED BY <2>1
<1>4. \A j \in 1 .. Len(services) - 1 :
       /\ up(j) \in 1 .. Len(services)
       /\ services'[j].file = services[up(j)].file
       /\ services'[j].mapped = (services[up(j)].mapped /\ (services[up(j)].file = f => refs[f] > 1))
  BY <1>2 DEF Shrunk
<1>5. \A g \in Libs : refs[g] = Cardinality(EntriesOf(g))
  BY DEF OpenWhileListed, EntriesOf
<1>6. \A g \in Libs : EntriesOf(g) \subseteq 1 .. Len(services)
  BY <1>2 DEF EntriesOf
<1>7. \A g \in Libs : {j \in DOMAIN services' : services'[j].file = g}
                        = {j \in 1 .. Len(services) - 1 : up(j) \in EntriesOf(g)}
  BY <1>2, <1>3, <1>4 DEF EntriesOf
<1>8. \A g \in Libs : i \in EntriesOf(g) <=> g = f
  BY <1>2 DEF EntriesOf
<1>9. ASSUME NEW g \in Libs
      PROVE  refs'[g] = Cardinality({j \in DOMAIN services' : services'[j].file = g})
  <2>1. Cardinality(PlacesLeft(EntriesOf(g), Len(services), i)) =
          IF i \in EntriesOf(g) THEN Cardinality(EntriesOf(g)) - 1 ELSE Cardinality(EntriesOf(g))
    <3>1. EntriesOf(g) \subseteq 1 .. Len(services) /\ Len(services) \in Nat /\ i \in 1 .. Len(services)
      BY <1>2, <1>6
    <3> QED BY ONLY <3>1, PlacesAfterRemoval
  <2>2. refs'[g] = IF g = f THEN refs[g] - 1 ELSE refs[g]
    <3>1. refs' = [refs EXCEPT ![f] = @ - 1]
      BY DEF UnloadEntry
    <3>2. refs \in [Libs -> Nat] /\ f \in Libs /\ g \in Libs
      BY <1>1, <1>2
    <3> QED BY ONLY <3>1, <3>2
  <2>3. {j \in DOMAIN services' : services'[j].file = g} = PlacesLeft(EntriesOf(g), Len(services), i)
    BY <1>7 DEF PlacesLeft
  <2> QED BY <1>5, <1>8, <2>1, <2>2, <2>3
<1>10. ASSUME NEW j \in DOMAIN services' PROVE services'[j].mapped
  <2>1. services[up(j)].mapped /\ up(j) \in 1 .. Len(services) /\ up(j) # i
    <3>1. up(j) # i
      BY <1>2, <1>3
    <3> QED BY <1>2, <1>3, <1>4, <3>1 DEF OpenWhileListed
  <2>2. ASSUME services[up(j)].file = f PROVE refs[f] > 1
    <3>1. {i, up(j)} \subseteq EntriesOf(f) /\ IsFiniteSet(EntriesOf(f))
      <4>1. IsFiniteSet(1 .. Len(services))
        BY <1>2, FS_Interval
      <4>2. IsFiniteSet(EntriesOf(f))
        BY <1>2, <1>6, <4>1, FS_Subset
      <4> QED BY <1>2, <2>1, <2>2, <4>2 DEF EntriesOf
    <3>2. Cardinality({i, up(j)}) = 2
      <4>1. Cardinality({i}) = 1 /\ IsFiniteSet({i})
        BY FS_Singleton
      <4>2. {i, up(j)} = {i} \cup {up(j)} /\ up(j) \notin {i}
        BY <2>1
      <4> HIDE DEF up
      <4> QED BY <4>1, <4>2, FS_AddElement
    <3>3. Cardinality({i, up(j)}) <= Cardinality(EntriesOf(f))
      BY <3>1, FS_Subset
    <3>4. Cardinality(EntriesOf(f)) \in Nat
      BY <3>1, FS_CardinalityType
    <3> QED BY <1>2, <1>5, <3>2, <3>3, <3>4
  <2> QED BY <1>3, <1>4, <2>1, <2>2
<1> QED BY <1>9, <1>10 DEF OpenWhileListed

\* A service that registers is the last one on the list, and its library open once more.
LEMMA LoadKeeps ==
  ASSUME RegistryAssumption, RegistryInv, NEW f \in Libs, LoadService(f), UNCHANGED failed
  PROVE  /\ services' \in Seq(Entries) /\ nextId' \in 1 .. MAXENTRIES + 1
         /\ refs' \in [Libs -> Nat] /\ \A g \in Libs : refs'[g] < nextId'
         /\ ListInv' /\ OpenWhileListed'
<1> USE DEF RegistryInv
<1>1. /\ services \in Seq(Entries) /\ refs \in [Libs -> Nat] /\ nextId \in 1 .. MAXENTRIES + 1
      /\ MAXENTRIES \in Nat /\ \A g \in Libs : refs[g] < nextId
  BY DEF RegistryTypes, RegistryAssumption
<1>2. /\ Len(services) \in Nat /\ DOMAIN services = 1 .. Len(services)
      /\ \A j \in 1 .. Len(services) : services[j].file \in Libs /\ services[j].id \in 1 .. MAXENTRIES
  BY <1>1, EntryTypes
<1>3. CASE LoadFails(f)
  BY <1>1, <1>3 DEF LoadFails, ListInv, OpenWhileListed
<1>4. CASE LoadRegisters(f)
  <2> DEFINE e == [id |-> nextId, file |-> f, mapped |-> TRUE]
             n == Len(services)
  <2>1. /\ services' = Append(services, e) /\ nextId' = nextId + 1 /\ nextId <= MAXENTRIES
        /\ refs' = [refs EXCEPT ![f] = refs[f] + 1]
    BY <1>4 DEF LoadRegisters
  <2>2. e \in Entries /\ e.id = nextId /\ e.file = f /\ e.mapped = TRUE
    BY <1>1, <2>1 DEF Entries
  <2> HIDE DEF e
  <2>3. /\ services' \in Seq(Entries) /\ DOMAIN services' = 1 .. n + 1
        /\ \A j \in 1 .. n : services'[j] = services[j]
        /\ services'[n + 1] = e
    BY <1>1, <2>1, <2>2
  <2>4. nextId' \in 1 .. MAXENTRIES + 1
    BY <1>1, <2>1
  <2>5. refs' \in [Libs -> Nat] /\ \A g \in Libs : refs'[g] = IF g = f THEN refs[g] + 1 ELSE refs[g]
    BY <1>1, <2>1
  <2>6. \A g \in Libs : refs'[g] < nextId'
    BY <1>1, <2>1, <2>5
  <2>7. \A j \in 1 .. n + 1 : j \in 1 .. n \/ j = n + 1
    BY <1>2
  <2>8. ListInv'
    <3>1. ASSUME NEW j \in 1 .. n + 1
          PROVE  services'[j].id < nextId' /\ (services'[j].mapped => refs'[services'[j].file] > 0)
      <4>1. CASE j \in 1 .. n
        <5>1. services[j].id < nextId /\ (services[j].mapped => refs[services[j].file] > 0)
          BY <1>2, <4>1 DEF ListInv
        <5>2. services[j].file \in Libs /\ services[j].id \in Int
          BY <1>1, <1>2, <4>1
        <5> QED BY <1>1, <2>1, <2>3, <2>5, <4>1, <5>1, <5>2
      <4>2. CASE j = n + 1
        BY <1>1, <2>1, <2>2, <2>3, <2>5, <4>2
      <4> QED BY <2>7, <4>1, <4>2
    <3>2. ASSUME NEW j \in 1 .. n + 1, NEW k \in 1 .. n + 1, j < k
          PROVE  services'[j].id < services'[k].id
      <4>1. j \in 1 .. n
        BY <1>2, <3>2
      <4>2. CASE k \in 1 .. n
        BY <1>2, <2>3, <3>2, <4>1, <4>2 DEF ListInv
      <4>3. CASE k = n + 1
        BY <1>2, <2>2, <2>3, <4>1, <4>3 DEF ListInv
      <4> QED BY <2>7, <4>2, <4>3
    <3> QED BY <2>3, <3>1, <3>2 DEF ListInv
  <2>9. OpenWhileListed'
    <3> SUFFICES ASSUME ~ failed
                 PROVE  /\ \A j \in 1 .. n + 1 : services'[j].mapped
                        /\ \A g \in Libs : refs'[g] = Cardinality({j \in DOMAIN services' : services'[j].file = g})
      BY <2>3 DEF OpenWhileListed
    <3>1. \A j \in 1 .. n + 1 : services'[j].mapped
      BY <1>2, <2>2, <2>3, <2>7 DEF OpenWhileListed
    <3>2. ASSUME NEW g \in Libs
          PROVE  refs'[g] = Cardinality({j \in DOMAIN services' : services'[j].file = g})
      <4> DEFINE old == EntriesOf(g)
                 new == {j \in DOMAIN services' : services'[j].file = g}
      <4>1. refs[g] = Cardinality(old)
        BY DEF OpenWhileListed, EntriesOf
      <4>2. IsFiniteSet(old) /\ n + 1 \notin old
        <5>1. old \subseteq 1 .. n
          BY <1>2 DEF EntriesOf
        <5>2. IsFiniteSet(1 .. n)
          BY <1>2, FS_Interval
        <5> QED BY <1>2, <5>1, <5>2, FS_Subset
      <4>3. new = IF g = f THEN old \cup {n + 1} ELSE old
        BY <1>2, <2>2, <2>3, <2>7 DEF EntriesOf
      <4> HIDE DEF old, new
      <4>4. Cardinality(old \cup {n + 1}) = Cardinality(old) + 1
        BY <4>2, FS_AddElement
      <4>5. refs'[g] = Cardinality(new)
        BY <2>5, <4>1, <4>3, <4>4
      <4> QED BY <4>5 DEF new
    <3> QED BY <3>1, <3>2
  <2> QED BY <2>3, <2>4, <2>5, <2>6, <2>8, <2>9
<1> QED BY <1>3, <1>4 DEF LoadService

LEMMA UnloadServiceStep ==
  ASSUME RegistryAssumption, RegistryInv, NEW name, UnloadService(name)
  PROVE  RegistryInv'
<1> DEFINE i == Lookup(services, name)
<1> USE DEF RegistryInv
<1>1. pc = "run" /\ UnloadEntry(i) /\ UNCHANGED <<nextId, pc, at, saved, slots>> /\ services \in Seq(Entries)
  BY DEF UnloadService, RegistryTypes
<1>2. i \in DOMAIN services /\ Lookup(services, ServiceOf[services[i].file]) = i
  BY <1>1, LookupMatches DEF UnloadService
<1> HIDE DEF i
<1>3. PICK r \in 0 .. i : Shrunk(r, services[i].file) /\ (r = 0 => failed') /\ (r # 0 => r = i)
  BY <1>1, <1>2, UnloadShrinks
<1>4. /\ ListInv' /\ services' \in Seq(Entries) /\ failed' \in BOOLEAN
      /\ refs' \in [Libs -> Nat] /\ \A g \in Libs : refs'[g] < nextId
  BY <1>1, <1>2, <1>3, ListAfterUnload
<1>5. OpenWhileListed'
  <2>1. CASE failed'
    BY <2>1 DEF OpenWhileListed
  <2>2. CASE ~ failed'
    <3>1. ~ failed /\ r = i
      BY <1>1, <1>3, <2>2 DEF UnloadEntry
    <3> QED BY <1>1, <1>2, <1>3, <3>1, OpenAfterUnload
  <2> QED BY <2>1, <2>2
<1> QED BY <1>1, <1>4, <1>5 DEF RegistryTypes, WalkInv

\* One turn of list_for_each_safe: the saved entry moves up by one place at most, and
\* what is before it does not matter.
LEMMA UnloadAllStepKeeps ==
  ASSUME RegistryAssumption, RegistryInv, UnloadAllStep
  PROVE  RegistryInv'
<1> USE DEF RegistryInv
<1>0. /\ pc = "unload" /\ at # NoEntry /\ UNCHANGED <<nextId, pc, slots>>
      /\ UnloadEntry(Place(services, at)) /\ at' = saved
      /\ saved' = IF saved = NoEntry THEN NoEntry ELSE IdAt(services', Place(services', saved) + 1)
      /\ services \in Seq(Entries)
  BY DEF UnloadAllStep, RegistryTypes
<1>1. PICK k \in DOMAIN services : at = services[k].id /\ saved = IdAt(services, k + 1) /\ (~ failed => k = 1)
  BY <1>0 DEF WalkInv
<1>2. Place(services, at) = k
  BY <1>0, <1>1, PlaceIsUnique DEF ListInv
<1>3. UnloadEntry(k) /\ Len(services) \in Nat /\ k \in 1 .. Len(services) /\ DOMAIN services = 1 .. Len(services)
  BY <1>0, <1>2
<1>4. PICK r \in 0 .. k : /\ Shrunk(r, services[k].file) /\ (r = 0 => failed')
                          /\ (r # 0 /\ Lookup(services, ServiceOf[services[k].file]) = k => r = k)
  BY <1>3, UnloadShrinks
<1>5. /\ ListInv' /\ services' \in Seq(Entries) /\ failed' \in BOOLEAN
      /\ refs' \in [Libs -> Nat] /\ \A g \in Libs : refs'[g] < nextId
  BY <1>0, <1>3, <1>4, ListAfterUnload
<1>6. ASSUME ~ failed' PROVE ~ failed /\ k = 1 /\ r = 1
  <2>1. ~ failed
    BY <1>3, <1>6 DEF UnloadEntry
  <2>2. k = 1 /\ r # 0
    BY <1>1, <1>4, <1>6, <2>1
  <2> QED BY <2>1, <2>2
<1>7. OpenWhileListed'
  <2>1. CASE failed'
    BY <2>1 DEF OpenWhileListed
  <2>2. CASE ~ failed'
    BY <1>3, <1>4, <1>6, <2>2, OpenAfterUnload
  <2> QED BY <2>1, <2>2
<1>8. WalkInv'
  <2>1. CASE k + 1 \notin DOMAIN services
    BY <1>0, <1>1, <2>1 DEF WalkInv, IdAt
  <2>2. CASE k + 1 \in DOMAIN services
    <3> DEFINE m == IF r = 0 THEN k + 1 ELSE k
    <3>1. saved = services[k + 1].id /\ saved # NoEntry
      BY <1>0, <1>1, <1>3, <2>2, EntryTypes DEF IdAt, RegistryAssumption
    <3>2. m \in DOMAIN services' /\ services'[m].id = saved
      <4>1. CASE r = 0
        BY <1>3, <1>4, <2>2, <3>1, <4>1 DEF Shrunk
      <4>2. CASE r # 0
        <5>1. Len(services') = Len(services) - 1 /\ k \in 1 .. Len(services) - 1 /\ ~ (k < r)
          BY <1>3, <1>4, <2>2, <4>2 DEF Shrunk
        <5>2. services'[k].id = services[k + 1].id /\ services' \in Seq(Entries)
          BY <1>4, <4>2, <5>1 DEF Shrunk
        <5> QED BY <3>1, <4>2, <5>1, <5>2
      <4> QED BY <4>1, <4>2
    <3>3. ~ failed' => m = 1
      BY <1>6
    <3> HIDE DEF m
    <3>4. Place(services', saved) = m
      <4>1. \A i, j \in DOMAIN services' : i < j => services'[i].id < services'[j].id
        BY <1>5 DEF ListInv
      <4> QED BY <1>5, <3>2, <4>1, PlaceIsUnique
    <3>5. at' = services'[m].id /\ saved' = IdAt(services', m + 1)
      BY <1>0, <3>1, <3>2, <3>4
    <3>6. IdAt(services, m + 1)' = IdAt(services', m + 1)
      BY DEF IdAt, m
    <3> QED BY <3>2, <3>3, <3>5, <3>6 DEF WalkInv, IdAt
  <2> QED BY <2>1, <2>2
<1> QED BY <1>0, <1>5, <1>7, <1>8 DEF RegistryTypes

LEMMA RegistryInitInv ==
  ASSUME RegistryAssumption, RegistryInit
  PROVE  RegistryInv
<1>1. /\ services = <<>> /\ nextId = 1 /\ slots = 0 /\ failed = FALSE
      /\ refs = [f \in Libs |-> 0] /\ pc = "load" /\ at = 0
      /\ MAXENTRIES \in Nat /\ Len(Files) \in Nat
  BY DEF RegistryInit, RegistryAssumption
<1>2. services \in Seq(Entries) /\ DOMAIN services = {}
  BY <1>1
<1>3. RegistryTypes
  <2>1. refs \in [Libs -> Nat] /\ \A f \in Libs : refs[f] < nextId
    BY <1>1
  <2>2. nextId \in 1 .. MAXENTRIES + 1 /\ slots \in 0 .. Len(Files) /\ at \in 0 .. Len(Files)
    BY <1>1
  <2> QED BY <1>1, <1>2, <2>1, <2>2 DEF RegistryTypes
<1>4. OpenWhileListed
  <2>1. \A f \in Libs : {i \in DOMAIN services : services[i].file = f} = {}
    BY <1>2
  <2>2. Cardinality({}) = 0
    BY FS_EmptySet
  <2> QED BY <1>1, <1>2, <2>1, <2>2 DEF OpenWhileListed
<1> QED BY <1>1, <1>2, <1>3, <1>4 DEF RegistryInv, ListInv, WalkInv

\* A step that touches neither the list nor the counts of dlopen.
LEMMA ListFrame ==
  ASSUME RegistryInv, UNCHANGED <<services, nextId, refs, failed>>
  PROVE  /\ services' \in Seq(Entries) /\ nextId' \in 1 .. MAXENTRIES + 1
         /\ refs' \in [Libs -> Nat] /\ \A f \in Libs : refs'[f] < nextId'
         /\ failed' \in BOOLEAN /\ ListInv' /\ OpenWhileListed'
BY DEF RegistryInv, RegistryTypes, ListInv, OpenWhileListed

\* list_for_each_safe begins at the first entry and has saved the second one.
LEMMA UnloadAllKeeps ==
  ASSUME RegistryAssumption, RegistryInv, UnloadAll
  PROVE  RegistryInv'
<1>1. /\ pc = "run" /\ pc' = "unload" /\ UNCHANGED <<services, nextId, refs, slots, failed>>
      /\ at' = IdAt(services, 1) /\ saved' = IdAt(services, 2)
  BY DEF UnloadAll
<1>2. services \in Seq(Entries) /\ slots \in 0 .. Len(Files) /\ slots = Len(Files)
  BY <1>1 DEF RegistryInv, RegistryTypes
<1>3. Len(services) \in Nat /\ DOMAIN services = 1 .. Len(services)
  BY <1>2
<1>4. WalkInv'
  <2>1. CASE Len(services) = 0
    <3>1. at' = NoEntry /\ saved' = NoEntry
      BY <1>1, <1>3, <2>1 DEF IdAt
    <3> QED BY <3>1 DEF WalkInv
  <2>2. CASE Len(services) # 0
    <3>1. 1 \in DOMAIN services /\ 1 + 1 = 2
      BY <1>3, <2>2
    <3>2. at' = services[1].id /\ saved' = IdAt(services, 1 + 1)
      BY <1>1, <3>1 DEF IdAt
    <3> QED BY <1>1, <3>1, <3>2 DEF WalkInv, IdAt
  <2> QED BY <2>1, <2>2
<1> QED BY <1>1, <1>2, <1>4, ListFrame DEF RegistryInv, RegistryTypes

LEMMA RegistryStep ==
  ASSUME RegistryAssumption, RegistryInv, [RegistryNext]_registryVars
  PROVE  RegistryInv'
<1>0. /\ Files \in Seq(Libs) /\ Len(Files) \in Nat
      /\ slots \in 0 .. Len(Files) /\ pc \in {"load", "run", "unload", "exited"} /\ failed \in BOOLEAN
      /\ (pc = "load" => at \in 0 .. Len(Files)) /\ (pc \in {"run", "unload"} => slots = Len(Files))
  BY DEF RegistryAssumption, Libs, RegistryInv, RegistryTypes
<1>1. CASE LoadAllStep
  <2>1. /\ pc = "load" /\ at < Len(Files) /\ LoadService(Files[at + 1]) /\ at' = at + 1
        /\ UNCHANGED <<pc, saved, slots, failed>>
    BY <1>1 DEF LoadAllStep
  <2>2. Files[at + 1] \in Libs /\ at' \in 0 .. Len(Files)
    BY <1>0, <2>1
  <2> QED BY <1>0, <2>1, <2>2, LoadKeeps DEF RegistryInv, RegistryTypes, WalkInv
<1>2. CASE InitExits \/ Faults
  BY <1>0, <1>2, ListFrame DEF InitExits, Faults, RegistryInv, RegistryTypes, WalkInv
<1>3. CASE LoadAllReturns
  <2>1. /\ pc' = "run" /\ slots' = Len(Files)
        /\ UNCHANGED <<services, nextId, refs, failed>>
    BY <1>3 DEF LoadAllReturns
  <2> QED BY <1>0, <2>1, ListFrame DEF RegistryInv, RegistryTypes, WalkInv
<1>4. CASE UnloadAllReturns
  <2>1. /\ pc = "unload" /\ pc' = "run" /\ slots' = slots
        /\ UNCHANGED <<services, nextId, refs, failed>>
    BY <1>4 DEF UnloadAllReturns
  <2> QED BY <1>0, <2>1, ListFrame DEF RegistryInv, RegistryTypes, WalkInv
<1>5. ASSUME NEW f \in Libs, LoadAgain(f) PROVE RegistryInv'
  <2>1. pc = "run" /\ LoadService(f) /\ UNCHANGED <<pc, at, saved, slots, failed>>
    BY <1>5 DEF LoadAgain
  <2> QED BY <1>0, <2>1, LoadKeeps DEF RegistryInv, RegistryTypes, WalkInv
<1>6. CASE UNCHANGED registryVars
  <2>1. UNCHANGED <<services, nextId, refs, pc, at, saved, slots, failed>>
    BY <1>6 DEF registryVars
  <2>2. WalkInv'
    BY <2>1 DEF RegistryInv, WalkInv, IdAt
  <2> QED BY <1>0, <2>1, <2>2, ListFrame DEF RegistryInv, RegistryTypes
<1> QED BY <1>1, <1>2, <1>3, <1>4, <1>5, <1>6, UnloadAllKeeps, UnloadAllStepKeeps, UnloadServiceStep
        DEF RegistryNext

\* Every service of the list is a file that glob found, and there is a slot for each.
LEMMA SlotsEnough ==
  ASSUME RegistryAssumption, RegistryInv
  PROVE  SlotPerService
<1> DEFINE used == {services[i].file : i \in DOMAIN services}
<1>1. services \in Seq(Entries) /\ (pc \in {"run", "unload"} => slots = Len(Files))
  BY DEF RegistryInv, RegistryTypes
<1>2. Files \in Seq(Libs) /\ ToSet(Files) = Libs /\ Len(Files) \in Nat
  BY DEF RegistryAssumption, Libs
<1>3. used \subseteq Libs
  BY <1>1, EntryTypes
<1>4. IsFiniteSet(1 .. Len(Files)) /\ Cardinality(1 .. Len(Files)) = Len(Files)
  <2> DEFINE m == Len(Files)
  <2>1. m \in Nat /\ 1 \in Int /\ m \in Int
    BY <1>2
  <2> HIDE DEF m
  <2>2. IsFiniteSet(1 .. m) /\ Cardinality(1 .. m) = IF 1 > m THEN 0 ELSE m - 1 + 1
    BY ONLY <2>1, FS_Interval
  <2>3. Cardinality(1 .. m) = m
    BY ONLY <2>1, <2>2
  <2> QED BY <2>2, <2>3 DEF m
<1>5. Files \in Surjection(1 .. Len(Files), Libs)
  <2>1. Files \in [1 .. Len(Files) -> Libs]
    BY <1>2
  <2>2. \A f \in Libs : \E i \in 1 .. Len(Files) : Files[i] = f
    BY <1>2 DEF ToSet
  <2> QED BY <2>1, <2>2 DEF Surjection
<1>6. IsFiniteSet(Libs) /\ Cardinality(Libs) <= Len(Files)
  BY <1>4, <1>5, FS_Surjection
<1>7. IsFiniteSet(used) /\ Cardinality(used) <= Cardinality(Libs)
  BY <1>3, <1>6, FS_Subset
<1>8. Cardinality(used) \in Nat /\ Cardinality(Libs) \in Nat
  BY <1>6, <1>7, FS_CardinalityType
<1>9. Cardinality(used) <= Len(Files)
  BY <1>2, <1>6, <1>7, <1>8
<1> QED BY <1>1, <1>9 DEF SlotPerService

\* However services are loaded again, unloaded by name or all together, and whatever
\* their finit_service does, with names taken twice: the walk of
\* qc_unload_all_services stays on the list, look-ups meet only mapped libraries
\* until a finit_service fails, and there is a slot for every service.
THEOREM RegistryStaysConsistent ==
  ASSUME RegistryAssumption
  PROVE  RegistrySpec => []RegistryConsistent
<1>1. RegistryInit => RegistryInv
  BY RegistryInitInv
<1>2. RegistryInv /\ [RegistryNext]_registryVars => RegistryInv'
  BY RegistryStep
<1>3. RegistryInv => RegistryConsistent
  <2> SUFFICES ASSUME RegistryInv PROVE RegistryConsistent
    OBVIOUS
  <2>1. RegistryTypeOK
    <3>1. /\ refs \in [Libs -> Nat] /\ nextId \in 1 .. MAXENTRIES + 1 /\ MAXENTRIES \in Nat
          /\ \A f \in Libs : refs[f] < nextId
      BY DEF RegistryAssumption, RegistryInv, RegistryTypes
    <3>2. refs \in [Libs -> 0 .. MAXENTRIES]
      BY <3>1
    <3> QED BY <3>2 DEF RegistryTypeOK, RegistryInv, RegistryTypes
  <2>2. WalkStaysOnList
    BY DEF RegistryInv, WalkInv, WalkStaysOnList, IdAt
  <2>3. OpenWhileListed
    BY DEF RegistryInv
  <2> QED BY <2>1, <2>2, <2>3, SlotsEnough DEF RegistryConsistent
<1> QED BY <1>1, <1>2, <1>3, PTL DEF RegistrySpec
=============================================================================
