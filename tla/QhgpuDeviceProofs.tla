-------------------------- MODULE QhgpuDeviceProofs --------------------------
(***************************************************************************)
(* Invariance proofs for QhgpuDevice, for any sets of clients and items    *)
(* and any number of slots, under a daemon that reads and answers in any   *)
(* order.                                                                  *)
(***************************************************************************)
EXTENDS QhgpuDevice, SeqLemmas, FiniteSetTheorems

-----------------------------------------------------------------------------
(* Types                                                                   *)

\* The types and what they need to be inductive: a slot about to be claimed
\* exists, and a handler in progress has an item.
TypeInv ==
  /\ DevTypeOK
  /\ \A c \in Clients : pc[c] = "claim" => scan[c] < ModuleCnt
  /\ hand = NULL <=> dpc = "user"

LEMMA TypeInit == DevInit => TypeInv
BY DeviceAssumption DEF DevInit, TypeInv, DevTypeOK, Slots

\* Enqueue keeps the types of the queue.
LEMMA EnqueueType ==
  ASSUME TypeInv, NEW c \in Clients, Enqueue(c)
  PROVE  reqs' \in Seq(Items) /\ itemReq' \in [Items -> Clients \union {NULL}]
<1>1. PICK i \in Items : /\ itemReq' = [itemReq EXCEPT ![i] = c]
                         /\ reqs' = Append(reqs, i)
  BY DEF Enqueue
<1> QED BY <1>1 DEF TypeInv, DevTypeOK

LEMMA ClientType ==
  ASSUME TypeInv, NEW c \in Clients, ClientStep(c)
  PROVE  TypeInv'
<1> USE DeviceAssumption DEF TypeInv, DevTypeOK, Slots, Causes,
        clientVars, slotVars, queueVars, daemonVars, histVars
<1>1. CASE AllocRequest(c)
  BY <1>1 DEF AllocRequest
<1>2. CASE MmapIdTest(c)
  <2>1. CASE checker[scan[c]] = 0
    BY <1>2, <2>1 DEF MmapIdTest
  <2>2. CASE checker[scan[c]] # 0
    <3>1. scan[c] + 1 \in 0 .. ModuleCnt
      BY <1>2 DEF MmapIdTest
    <3>2. scan' \in [Clients -> 0 .. ModuleCnt]
      BY <1>2, <2>2, <3>1 DEF MmapIdTest
    <3>3. \A d \in Clients : pc'[d] = "claim" => scan'[d] < ModuleCnt
      BY <1>2, <2>2 DEF MmapIdTest
    <3> QED BY <1>2, <2>2, <3>2, <3>3 DEF MmapIdTest
  <2> QED BY <2>1, <2>2
<1>3. CASE MmapIdClaim(c)
  BY <1>3 DEF MmapIdClaim
<1>4. CASE MmapIdFallback(c)
  BY <1>4 DEF MmapIdFallback
<1>5. CASE ReturnMmap(c)
  BY <1>5 DEF ReturnMmap, GiveBack
<1>6. CASE FreeRequest(c)
  BY <1>6 DEF FreeRequest
<1>7. CASE CallSync(c)
  <2>1. reqs' \in Seq(Items) /\ itemReq' \in [Items -> Clients \union {NULL}]
    BY <1>7, EnqueueType DEF CallSync
  <2>2. moduleArr' \in [Slots -> Clients \union {NULL}]
    BY <1>7 DEF CallSync
  <2>3. cause' \in SUBSET Causes
    BY <1>7 DEF CallSync, CallCause
  <2> QED BY <1>7, <2>1, <2>2, <2>3 DEF CallSync
<1>8. CASE SyncReturn(c)
  BY <1>8 DEF SyncReturn, LeaveSync, GiveBack
<1>9. CASE SyncInterrupted(c)
  BY <1>9 DEF SyncInterrupted, LeaveSync, GiveBack
<1>10. CASE CallAsync(c)
  <2>1. reqs' \in Seq(Items) /\ itemReq' \in [Items -> Clients \union {NULL}]
    BY <1>10, EnqueueType DEF CallAsync
  <2>2. pend' \in [Clients -> Nat]
    BY <1>10 DEF CallAsync
  <2>3. cause' \in SUBSET Causes
    BY <1>10 DEF CallAsync, CallCause
  <2> QED BY <1>10, <2>1, <2>2, <2>3 DEF CallAsync
<1> QED BY <1>1, <1>2, <1>3, <1>4, <1>5, <1>6, <1>7, <1>8, <1>9, <1>10 DEF ClientStep

LEMMA DaemonType ==
  ASSUME TypeInv, DaemonStep
  PROVE  TypeInv'
<1> USE DeviceAssumption DEF TypeInv, DevTypeOK, Slots, Causes,
        clientVars, slotVars, queueVars, daemonVars, histVars
<1>1. CASE ReadTake
  BY <1>1 DEF ReadTake
<1>2. CASE ReadFile
  BY <1>2 DEF ReadFile
<1>3. ASSUME NEW sid \in Slots, WriteFound(sid) PROVE TypeInv'
  <2>1. PICK k \in 1 .. Len(rtdreqs) : hand' = rtdreqs[k] /\ rtdreqs' = RemoveAt(rtdreqs, k)
    BY <1>3 DEF WriteFound, FindRequest
  <2>2. rtdreqs' \in Seq(Items)
    BY <2>1, RemoveAtType
  <2>3. hand' \in Items
    BY <2>1
  <2> QED BY <1>3, <2>2, <2>3 DEF WriteFound
<1>4. ASSUME NEW sid \in Slots, WriteNotFound(sid) PROVE TypeInv'
  BY <1>4 DEF WriteNotFound, devVars
<1>5. CASE WriteCallback
  <2>1. done' \in [Clients -> BOOLEAN]
    BY <1>5 DEF WriteCallback
  <2>2. pend' \in [Clients -> Nat]
    BY <1>5 DEF WriteCallback
  <2> QED BY <1>5, <2>1, <2>2 DEF WriteCallback
<1>6. CASE WriteFinish
  BY <1>6 DEF WriteFinish
<1> QED BY <1>1, <1>2, <1>3, <1>4, <1>5, <1>6 DEF DaemonStep

LEMMA TypeStep == TypeInv /\ [DevNext]_devVars => TypeInv'
<1>1. TypeInv /\ UNCHANGED devVars => TypeInv'
  BY DEF TypeInv, DevTypeOK, devVars, clientVars, slotVars, queueVars, daemonVars, histVars
<1> QED BY <1>1, ClientType, DaemonType DEF DevNext

\* The variables of the device keep their types: in particular the slot a
\* request names always exists, whatever qhgpu_mmap_id found.
THEOREM TypeCorrect == DevSpec => []DevTypeOK
<1>1. TypeInv => DevTypeOK
  BY DEF TypeInv
<1> QED BY <1>1, TypeInit, TypeStep, PTL DEF DevSpec

-----------------------------------------------------------------------------
(* Items: what each step does to the items in flight                       *)

ListInv == TypeInv /\ ItemConservation

\* An unanswered item is one of the cache's objects and is in use.
LEMMA InFlightInUse ==
  ASSUME ListInv
  PROVE  /\ InFlight \subseteq Items
         /\ \A i \in InFlight : itemReq[i] \in Clients
<1> USE DEF ListInv, TypeInv, DevTypeOK, ItemConservation
<1>1. ToSet(reqs) \subseteq Items /\ ToSet(rtdreqs) \subseteq Items
  BY DEF ToSet
<1>2. InFlight \subseteq Items
  BY <1>1 DEF InFlight
<1> QED BY <1>2 DEF InFlight

\* qhgpu_call_sync and qhgpu_call_async add one item.
LEMMA EnqueueEffect ==
  ASSUME ListInv, NEW c \in Clients, Enqueue(c), UNCHANGED <<rtdreqs, hand, dpc>>
  PROVE  /\ ItemConservation'
         /\ \E i \in Items \ InFlight :
              /\ InFlight' = InFlight \union {i}
              /\ itemReq' = [itemReq EXCEPT ![i] = c]
<1> USE DEF ListInv, TypeInv, DevTypeOK, ItemConservation
<1>1. PICK i \in Items : /\ itemReq[i] = NULL
                         /\ itemReq' = [itemReq EXCEPT ![i] = c]
                         /\ reqs' = Append(reqs, i)
  BY DEF Enqueue
<1>2. i \notin ToSet(reqs) /\ i \notin ToSet(rtdreqs) /\ i # hand
  BY <1>1
<1>3. /\ IsInjective(reqs')
      /\ ToSet(reqs') = ToSet(reqs) \union {i}
  BY <1>1, <1>2, AppendDistinct
<1>4. ItemConservation'
  BY <1>1, <1>2, <1>3, DeviceAssumption
<1>5. InFlight' = InFlight \union {i} /\ i \notin InFlight
  BY <1>2, <1>3 DEF InFlight
<1> QED BY <1>1, <1>4, <1>5

\* A read, and a write up to the callback, move one item and answer none.
LEMMA MoveEffect ==
  ASSUME ListInv,
         ReadTake \/ ReadFile \/ \E sid \in Slots : WriteFound(sid)
  PROVE  ItemConservation' /\ InFlight' = InFlight /\ UNCHANGED itemReq
<1> USE DEF ListInv, TypeInv, DevTypeOK, ItemConservation, InFlight
<1>0. NULL \notin ToSet(reqs) /\ NULL \notin ToSet(rtdreqs)
  BY DeviceAssumption DEF ToSet
<1>1. CASE ReadTake
  <2>1. /\ dpc = "user" /\ dpc' = "read" /\ reqs # <<>>
        /\ hand' = Head(reqs) /\ reqs' = Tail(reqs)
        /\ rtdreqs' = rtdreqs /\ itemReq' = itemReq
    BY <1>1 DEF ReadTake
  <2>2. /\ hand' \in ToSet(reqs) /\ hand' \in Items
        /\ IsInjective(reqs')
        /\ ToSet(reqs') = ToSet(reqs) \ {hand'}
    BY <2>1, TailDistinct
  <2>3. hand = NULL
    BY <2>1
  <2> QED BY <2>1, <2>2, <2>3, DeviceAssumption
<1>2. CASE ReadFile
  <2>1. /\ dpc = "read" /\ dpc' = "user" /\ hand' = NULL
        /\ rtdreqs' = Append(rtdreqs, hand)
        /\ reqs' = reqs /\ itemReq' = itemReq
    BY <1>2 DEF ReadFile
  <2>2. /\ hand \in Items
        /\ IsInjective(rtdreqs')
        /\ ToSet(rtdreqs') = ToSet(rtdreqs) \union {hand}
    BY <2>1, AppendDistinct
  <2> QED BY <1>0, <2>1, <2>2, DeviceAssumption
<1>3. ASSUME NEW sid \in Slots, WriteFound(sid)
      PROVE  ItemConservation' /\ InFlight' = InFlight /\ UNCHANGED itemReq
  <2>1. PICK k \in 1 .. Len(rtdreqs) : hand' = rtdreqs[k] /\ rtdreqs' = RemoveAt(rtdreqs, k)
    BY <1>3 DEF WriteFound, FindRequest
  <2>2. dpc = "user" /\ dpc' = "found" /\ reqs' = reqs /\ itemReq' = itemReq /\ hand = NULL
    BY <1>3 DEF WriteFound
  <2>3. /\ hand' \in ToSet(rtdreqs) /\ hand' \in Items
        /\ IsInjective(rtdreqs')
        /\ ToSet(rtdreqs') = ToSet(rtdreqs) \ {hand'}
    BY <2>1, RemoveAtDistinct
  <2> QED BY <2>2, <2>3, DeviceAssumption
<1> QED BY <1>1, <1>2, <1>3

\* The callback answers the item in the handler's hand.
LEMMA CallbackEffect ==
  ASSUME ListInv, WriteCallback
  PROVE  /\ ItemConservation'
         /\ hand \in InFlight
         /\ itemReq[hand] \in Clients
         /\ InFlight' = InFlight \ {hand}
         /\ UNCHANGED itemReq
<1>1. /\ dpc = "found" /\ dpc' = "called" /\ hand' = hand
      /\ reqs' = reqs /\ rtdreqs' = rtdreqs /\ itemReq' = itemReq
  BY DEF WriteCallback, queueVars
<1>2. hand \in Items
  BY <1>1 DEF ListInv, TypeInv, DevTypeOK
<1> QED BY <1>1, <1>2 DEF ListInv, TypeInv, DevTypeOK, ItemConservation, InFlight

\* Freeing the item answers nothing more.
LEMMA FinishEffect ==
  ASSUME ListInv, WriteFinish
  PROVE  /\ ItemConservation'
         /\ hand \in Items
         /\ hand \notin InFlight
         /\ InFlight' = InFlight
         /\ itemReq' = [itemReq EXCEPT ![hand] = NULL]
<1>1. /\ dpc = "called" /\ dpc' = "user" /\ hand' = NULL
      /\ itemReq' = [itemReq EXCEPT ![hand] = NULL]
      /\ reqs' = reqs /\ rtdreqs' = rtdreqs
  BY DEF WriteFinish
<1>2. hand \in Items /\ hand \notin InFlight
  BY <1>1 DEF ListInv, TypeInv, DevTypeOK, ItemConservation, InFlight
<1>3. InFlight' = InFlight
  BY <1>1 DEF InFlight
<1>4. NULL \notin ToSet(reqs) /\ NULL \notin ToSet(rtdreqs)
  BY DeviceAssumption DEF ToSet, ListInv, TypeInv, DevTypeOK
<1> QED BY <1>1, <1>2, <1>3, <1>4, DeviceAssumption
       DEF ListInv, TypeInv, DevTypeOK, ItemConservation

\* Steps that leave the queues and the handlers alone.
LEMMA QuietEffect ==
  ASSUME ListInv, UNCHANGED <<reqs, rtdreqs, itemReq, hand, dpc>>
  PROVE  ItemConservation' /\ InFlight' = InFlight
BY DEF ListInv, ItemConservation, InFlight

-----------------------------------------------------------------------------
(* ItemConservation and NoLostWakeup                                       *)

\* The callback of a request is sync_callback exactly while its client is in
\* qhgpu_call_sync.
CallbackInv == \A c \in Clients : callback[c] = "sync" <=> pc[c] = "wait"

WakeInv == ListInv /\ CallbackInv /\ NoLostWakeup

LEMMA WakeInit == DevInit => WakeInv
<1> SUFFICES ASSUME DevInit PROVE WakeInv
  OBVIOUS
<1>1. TypeInv
  BY TypeInit
<1>2. ItemConservation
  BY DeviceAssumption DEF DevInit, ItemConservation, IsInjective, ToSet
<1>3. CallbackInv /\ NoLostWakeup
  BY DEF DevInit, CallbackInv, NoLostWakeup
<1> QED BY <1>1, <1>2, <1>3 DEF WakeInv, ListInv

\* A step that answers nothing and lets nobody go to sleep keeps NoLostWakeup.
LEMMA WakeKept ==
  ASSUME WakeInv,
         InFlight \subseteq InFlight',
         \A i \in InFlight : itemReq'[i] = itemReq[i],
         \A c \in Clients : pc'[c] = "wait" /\ ~ done'[c] => pc[c] = "wait" /\ ~ done[c]
  PROVE  NoLostWakeup'
BY DEF WakeInv, NoLostWakeup, InFlightOf

LEMMA WakeClient ==
  ASSUME WakeInv, NEW c \in Clients, ClientStep(c)
  PROVE  WakeInv'
<1>0. TypeInv'
  BY ClientType DEF WakeInv, ListInv
<1> USE DEF WakeInv, CallbackInv
<1>1. ASSUME \/ AllocRequest(c) \/ MmapIdTest(c) \/ MmapIdClaim(c) \/ MmapIdFallback(c)
             \/ ReturnMmap(c) \/ FreeRequest(c) \/ SyncReturn(c) \/ SyncInterrupted(c)
      PROVE  WakeInv'
  <2>1. UNCHANGED <<reqs, rtdreqs, itemReq, hand, dpc>>
    BY <1>1 DEF AllocRequest, MmapIdTest, MmapIdClaim, MmapIdFallback, ReturnMmap, FreeRequest,
       SyncReturn, SyncInterrupted, LeaveSync, queueVars, daemonVars
  <2>2. ItemConservation' /\ InFlight' = InFlight
    BY <2>1, QuietEffect
  <2>3. CallbackInv' /\ \A d \in Clients : pc'[d] = "wait" /\ ~ done'[d] => pc[d] = "wait" /\ ~ done[d]
    <3> USE DEF ListInv, TypeInv, DevTypeOK
    <3>1. CASE AllocRequest(c)
      BY <3>1 DEF AllocRequest
    <3>2. CASE MmapIdTest(c)
      BY <3>2 DEF MmapIdTest
    <3>3. CASE MmapIdClaim(c)
      BY <3>3 DEF MmapIdClaim
    <3>4. CASE MmapIdFallback(c)
      BY <3>4 DEF MmapIdFallback
    <3>5. CASE ReturnMmap(c) \/ FreeRequest(c)
      BY <3>5 DEF ReturnMmap, FreeRequest, clientVars
    <3>6. CASE SyncReturn(c) \/ SyncInterrupted(c)
      BY <3>6 DEF SyncReturn, SyncInterrupted, LeaveSync
    <3> QED BY <1>1, <3>1, <3>2, <3>3, <3>4, <3>5, <3>6
  <2>4. NoLostWakeup'
    BY <2>1, <2>2, <2>3, WakeKept
  <2> QED BY <1>0, <2>2, <2>3, <2>4 DEF ListInv
<1>2. CASE CallSync(c)
  <2>1. Enqueue(c) /\ UNCHANGED <<rtdreqs, hand, dpc>>
    BY <1>2 DEF CallSync, daemonVars
  <2>2. PICK i \in Items \ InFlight :
          InFlight' = InFlight \union {i} /\ itemReq' = [itemReq EXCEPT ![i] = c]
    BY <2>1, EnqueueEffect
  <2>3. ItemConservation'
    BY <2>1, EnqueueEffect
  <2>4. CallbackInv'
    BY <1>2 DEF CallSync, ListInv, TypeInv, DevTypeOK
  <2>5. NoLostWakeup'
    <3> SUFFICES ASSUME NEW d \in Clients, pc'[d] = "wait", ~ done'[d]
                 PROVE  \E j \in InFlight' : itemReq'[j] = d
      BY DEF NoLostWakeup, InFlightOf
    <3>1. CASE d = c
      BY <2>2, <3>1 DEF ListInv, TypeInv, DevTypeOK
    <3>2. CASE d # c
      <4>1. pc[d] = "wait" /\ ~ done[d]
        BY <1>2, <3>2 DEF CallSync, ListInv, TypeInv, DevTypeOK
      <4>2. PICK j \in InFlight : itemReq[j] = d
        BY <4>1 DEF NoLostWakeup, InFlightOf
      <4> QED BY <2>2, <4>2 DEF ListInv, TypeInv, DevTypeOK
    <3> QED BY <3>1, <3>2
  <2> QED BY <1>0, <2>3, <2>4, <2>5 DEF ListInv
<1>3. CASE CallAsync(c)
  <2>1. Enqueue(c) /\ UNCHANGED <<rtdreqs, hand, dpc, pc, done, callback>>
    BY <1>3 DEF CallAsync, daemonVars
  <2>2. PICK i \in Items \ InFlight :
          InFlight' = InFlight \union {i} /\ itemReq' = [itemReq EXCEPT ![i] = c]
    BY <2>1, EnqueueEffect
  <2>3. ItemConservation'
    BY <2>1, EnqueueEffect
  <2>4. \A j \in InFlight : itemReq'[j] = itemReq[j]
    BY <2>2, InFlightInUse DEF ListInv, TypeInv, DevTypeOK
  <2>5. NoLostWakeup'
    BY <2>1, <2>2, <2>4, WakeKept
  <2> QED BY <1>0, <2>1, <2>3, <2>5 DEF ListInv
<1> QED BY <1>1, <1>2, <1>3 DEF ClientStep

LEMMA WakeDaemon ==
  ASSUME WakeInv, DaemonStep
  PROVE  WakeInv'
<1>0. TypeInv'
  BY DaemonType DEF WakeInv, ListInv
<1> USE DEF WakeInv, CallbackInv
<1>1. CASE ReadTake \/ ReadFile \/ \E sid \in Slots : WriteFound(sid)
  <2>1. UNCHANGED <<callback, pc, done>>
    BY <1>1 DEF ReadTake, ReadFile, WriteFound, clientVars
  <2>2. ItemConservation' /\ InFlight' = InFlight /\ UNCHANGED itemReq
    BY <1>1, MoveEffect
  <2>3. NoLostWakeup'
    BY <2>1, <2>2, WakeKept
  <2> QED BY <1>0, <2>1, <2>2, <2>3 DEF ListInv
<1>2. CASE \E sid \in Slots : WriteNotFound(sid)
  <2>1. UNCHANGED <<reqs, rtdreqs, itemReq, hand, dpc, callback, pc, done>>
    BY <1>2 DEF WriteNotFound, devVars, clientVars, queueVars, daemonVars
  <2>2. ItemConservation' /\ InFlight' = InFlight
    BY <2>1, QuietEffect
  <2>3. NoLostWakeup'
    BY <2>1, <2>2, WakeKept
  <2> QED BY <1>0, <2>1, <2>2, <2>3 DEF ListInv
<1>3. CASE WriteCallback
  <2> DEFINE a == itemReq[hand]
  <2>1. /\ ItemConservation'
        /\ a \in Clients
        /\ InFlight' = InFlight \ {hand}
        /\ UNCHANGED itemReq
    BY <1>3, CallbackEffect
  <2>2. UNCHANGED <<callback, pc>>
    BY <1>3 DEF WriteCallback
  <2>3. NoLostWakeup'
    <3> SUFFICES ASSUME NEW d \in Clients, pc'[d] = "wait", ~ done'[d]
                 PROVE  \E j \in InFlight' : itemReq'[j] = d
      BY DEF NoLostWakeup, InFlightOf
    <3>1. d # a
      BY <1>3, <2>1, <2>2 DEF WriteCallback, ListInv, TypeInv, DevTypeOK
    <3>2. ~ done[d]
      BY <1>3, <2>1, <3>1 DEF WriteCallback, ListInv, TypeInv, DevTypeOK
    <3>3. PICK j \in InFlight : itemReq[j] = d
      BY <2>2, <3>2 DEF NoLostWakeup, InFlightOf
    <3> QED BY <2>1, <3>1, <3>3
  <2> QED BY <1>0, <2>1, <2>2, <2>3 DEF ListInv
<1>4. CASE WriteFinish
  <2>1. UNCHANGED <<callback, pc, done>>
    BY <1>4 DEF WriteFinish, clientVars
  <2>2. /\ ItemConservation' /\ InFlight' = InFlight
        /\ hand \in Items /\ hand \notin InFlight
        /\ itemReq' = [itemReq EXCEPT ![hand] = NULL]
    BY <1>4, FinishEffect
  <2>3. \A j \in InFlight : itemReq'[j] = itemReq[j]
    BY <2>2, InFlightInUse DEF ListInv, TypeInv, DevTypeOK
  <2>4. NoLostWakeup'
    BY <2>1, <2>2, <2>3, WakeKept
  <2> QED BY <1>0, <2>1, <2>2, <2>4 DEF ListInv
<1> QED BY <1>1, <1>2, <1>3, <1>4 DEF DaemonStep

LEMMA WakeStep == WakeInv /\ [DevNext]_devVars => WakeInv'
<1>1. ASSUME WakeInv, UNCHANGED devVars PROVE WakeInv'
  BY <1>1 DEF WakeInv, ListInv, TypeInv, DevTypeOK, ItemConservation, CallbackInv, NoLostWakeup,
     InFlightOf, InFlight, devVars, clientVars, slotVars, queueVars, daemonVars, histVars
<1> QED BY <1>1, WakeClient, WakeDaemon DEF DevNext

\* Whatever clients and daemon do, the lists of the device neither lose nor
\* duplicate a request item, and no item is freed while it is listed.
THEOREM ItemsConserved == DevSpec => []ItemConservation
<1>1. WakeInv => ItemConservation
  BY DEF WakeInv, ListInv
<1> QED BY <1>1, WakeInit, WakeStep, PTL DEF DevSpec

\* A client asleep in qhgpu_call_sync without an answer always has a request
\* that the daemon can still read or answer.
THEOREM WakeupNeverLost == DevSpec => []NoLostWakeup
<1>1. WakeInv => NoLostWakeup
  BY DEF WakeInv
<1> QED BY <1>1, WakeInit, WakeStep, PTL DEF DevSpec

-----------------------------------------------------------------------------
(* Slots                                                                   *)

\* While no window was hit: an owned slot is marked busy and has one owner, a
\* client without a request owns none, and a client in qhgpu_call_sync owns
\* its slot, whose batch functions are its own.
Owned ==
  /\ \A c \in Clients : holds[c] => checker[id[c]] = 1
  /\ \A c, d \in Clients : c # d /\ holds[c] /\ holds[d] => id[c] # id[d]
  /\ \A c \in Clients : holds[c] => pc[c] \in {"ready", "wait"}
  /\ \A c \in Clients : pc[c] = "wait" => holds[c] /\ moduleArr[id[c]] = c

SlotInv == TypeInv /\ (cause = {} => Owned)

LEMMA SlotInit == DevInit => SlotInv
<1>1. DevInit => Owned
  BY DEF DevInit, Owned
<1> QED BY <1>1, TypeInit DEF SlotInv

LEMMA SlotClient ==
  ASSUME SlotInv, NEW c \in Clients, ClientStep(c), cause' = {}
  PROVE  Owned'
<1> USE DEF SlotInv, TypeInv, DevTypeOK
<1>1. CASE AllocRequest(c)
  BY <1>1 DEF AllocRequest, Owned, slotVars, histVars
<1>2. CASE MmapIdTest(c)
  <2>1. UNCHANGED <<checker, moduleArr, id, holds, cause>>
    BY <1>2 DEF MmapIdTest, slotVars, histVars
  <2>2. \A d \in Clients : pc'[d] = pc[d] \/ (pc[d] = "scan" /\ pc'[d] = "claim")
    <3>1. pc' = [pc EXCEPT ![c] = "claim"] \/ pc' = pc
      BY <1>2 DEF MmapIdTest
    <3>2. pc[c] = "scan" /\ pc \in [Clients -> {"idle", "scan", "claim", "ready", "wait"}]
      BY <1>2 DEF MmapIdTest
    <3> HIDE DEF SlotInv, TypeInv, DevTypeOK
    <3> QED BY <3>1, <3>2
  <2> QED BY <2>1, <2>2 DEF Owned
<1>3. CASE MmapIdClaim(c)
  <2>0. scan[c] \in Slots
    BY <1>3, DeviceAssumption DEF MmapIdClaim, Slots
  <2>1. cause = {} /\ checker[scan[c]] = 0
    BY <1>3, <2>0 DEF MmapIdClaim
  <2>2. \A d \in Clients : holds[d] => id[d] # scan[c]
    BY <2>1 DEF Owned
  <2> QED BY <1>3, <2>0, <2>1, <2>2 DEF MmapIdClaim, Owned
<1>4. CASE MmapIdFallback(c)
  BY <1>4 DEF MmapIdFallback
<1>5. CASE ReturnMmap(c)
  <2>1. cause = {} /\ holds[c]
    BY <1>5 DEF ReturnMmap
  <2> QED BY <1>5, <2>1 DEF ReturnMmap, GiveBack, Owned, clientVars
<1>6. CASE FreeRequest(c)
  BY <1>6 DEF FreeRequest, Owned, slotVars
<1>7. CASE CallSync(c)
  <2>1. cause = {} /\ holds[c]
    BY <1>7 DEF CallSync, CallCause
  <2> QED BY <1>7, <2>1 DEF CallSync, Owned
<1>8. CASE SyncReturn(c)
  <2>1. cause = {} /\ holds[c]
    BY <1>8 DEF SyncReturn, Owned
  <2> QED BY <1>8, <2>1 DEF SyncReturn, LeaveSync, GiveBack, Owned
<1>9. CASE SyncInterrupted(c)
  BY <1>9 DEF SyncInterrupted
<1>10. CASE CallAsync(c)
  <2>1. cause = {}
    BY <1>10 DEF CallAsync
  <2> QED BY <1>10, <2>1 DEF CallAsync, Owned, slotVars
<1> QED BY <1>1, <1>2, <1>3, <1>4, <1>5, <1>6, <1>7, <1>8, <1>9, <1>10 DEF ClientStep

\* The daemon touches neither the slots nor where clients are.
LEMMA DaemonLeavesClients ==
  ASSUME DaemonStep
  PROVE  UNCHANGED <<checker, moduleArr, id, pc, callback, holds, cause>>
BY DEF DaemonStep, ReadTake, ReadFile, WriteFound, WriteNotFound, WriteCallback, WriteFinish,
   devVars, clientVars, slotVars, histVars

LEMMA SlotStep == SlotInv /\ [DevNext]_devVars => SlotInv'
<1> SUFFICES ASSUME SlotInv, [DevNext]_devVars PROVE SlotInv'
  OBVIOUS
<1>1. TypeInv'
  BY TypeStep DEF SlotInv
<1>2. ASSUME cause' = {} PROVE Owned'
  <2>1. CASE DaemonStep
    BY <1>2, <2>1, DaemonLeavesClients DEF SlotInv, Owned
  <2>2. CASE \E c \in Clients : ClientStep(c)
    BY <1>2, <2>2, SlotClient
  <2>3. CASE UNCHANGED devVars
    BY <1>2, <2>3 DEF SlotInv, Owned, devVars, clientVars, slotVars, histVars
  <2> QED BY <2>1, <2>2, <2>3 DEF DevNext
<1> QED BY <1>1, <1>2 DEF SlotInv

\* The fallback to slot 0, the unlocked scan, a use after the return and an
\* interrupted wait are the only ways in which two clients come to own one
\* slot, for any number of clients and slots.
THEOREM SlotsExclusive == DevSpec => []SlotExclusive
<1>1. SlotInv => SlotExclusive
  BY DEF SlotInv, Owned, SlotExclusive
<1> QED BY <1>1, SlotInit, SlotStep, PTL DEF DevSpec

\* Outside those windows the batch functions registered for the slot of a
\* waiting client are that client's.
THEOREM LoadersAreCallers == DevSpec => []LoaderIsCallers
<1>1. SlotInv => LoaderIsCallers
  BY DEF SlotInv, Owned, LoaderIsCallers
<1> QED BY <1>1, SlotInit, SlotStep, PTL DEF DevSpec

-----------------------------------------------------------------------------
(* Counting answers                                                        *)

\* The number of unanswered items a client should have.
Due(c) == IF pc[c] = "wait" THEN (IF done[c] THEN 0 ELSE 1) ELSE pend[c]

Exact ==
  \A c \in Clients :
    /\ Cardinality(InFlightOf(c)) = Due(c)
    /\ pc[c] # "ready" => pend[c] = 0

CountInv ==
  /\ WakeInv
  /\ SlotInv
  /\ IsFiniteSet(InFlight)
  /\ "interrupted" \notin cause => Exact
  /\ ServedSlotHeld

LEMMA CountInit == DevInit => CountInv
<1> SUFFICES ASSUME DevInit PROVE CountInv
  OBVIOUS
<1>1. InFlight = {}
  BY DEF DevInit, InFlight, ToSet
<1>2. \A c \in Clients : InFlightOf(c) = {}
  BY <1>1 DEF InFlightOf
<1>3. Exact
  BY <1>2, FS_EmptySet DEF DevInit, Exact, Due
<1>4. ServedSlotHeld
  BY <1>1 DEF ServedSlotHeld
<1> QED BY <1>1, <1>3, <1>4, FS_EmptySet, WakeInit, SlotInit DEF CountInv

\* A client whose count is zero has nothing in flight.
LEMMA NoneDue ==
  ASSUME CountInv, "interrupted" \notin cause, NEW c \in Clients, Due(c) = 0
  PROVE  InFlightOf(c) = {}
<1>1. IsFiniteSet(InFlightOf(c))
  BY FS_Subset DEF CountInv, InFlightOf
<1> QED BY <1>1, FS_EmptySet DEF CountInv, Exact

\* A step that changes neither the items in flight nor what is due.
LEMMA CountKept ==
  ASSUME CountInv,
         InFlight' = InFlight,
         \A i \in InFlight : itemReq'[i] = itemReq[i],
         "interrupted" \notin cause' =>
            /\ "interrupted" \notin cause
            /\ \A c \in Clients : Due(c)' = Due(c) /\ (pc'[c] # "ready" => pend'[c] = 0)
  PROVE  /\ IsFiniteSet(InFlight)'
         /\ ("interrupted" \notin cause => Exact)'
<1>1. \A c \in Clients : InFlightOf(c)' = InFlightOf(c)
  BY DEF InFlightOf
<1> QED BY <1>1 DEF CountInv, Exact

\* A call puts one more item of its client in flight.
LEMMA CountCall ==
  ASSUME CountInv, NEW c \in Clients, NEW i \in Items \ InFlight,
         InFlight' = InFlight \union {i},
         itemReq' = [itemReq EXCEPT ![i] = c],
         "interrupted" \notin cause' =>
            /\ "interrupted" \notin cause
            /\ Due(c)' = Due(c) + 1
            /\ pc'[c] # "ready" => pend'[c] = 0
            /\ \A d \in Clients \ {c} : Due(d)' = Due(d) /\ pc'[d] = pc[d] /\ pend'[d] = pend[d]
  PROVE  /\ IsFiniteSet(InFlight)'
         /\ ("interrupted" \notin cause => Exact)'
<1>0. itemReq \in [Items -> Clients \union {NULL}] /\ InFlight \subseteq Items
  BY InFlightInUse DEF CountInv, WakeInv, ListInv, TypeInv, DevTypeOK
<1>1. IsFiniteSet(InFlight)'
  BY FS_AddElement DEF CountInv
<1>2. \A d \in Clients : IsFiniteSet(InFlightOf(d))
  BY FS_Subset DEF CountInv, InFlightOf
<1>3. InFlightOf(c)' = InFlightOf(c) \union {i} /\ i \notin InFlightOf(c)
  BY <1>0 DEF InFlightOf
<1>4. \A d \in Clients \ {c} : InFlightOf(d)' = InFlightOf(d)
  BY <1>0 DEF InFlightOf
<1>5. Cardinality(InFlightOf(c)') = Cardinality(InFlightOf(c)) + 1
  BY <1>2, <1>3, FS_AddElement
<1>6. ("interrupted" \notin cause => Exact)'
  BY <1>4, <1>5 DEF CountInv, Exact
<1> QED BY <1>1, <1>6

LEMMA CountClient ==
  ASSUME CountInv, NEW c \in Clients, ClientStep(c)
  PROVE  CountInv'
<1>0. WakeInv' /\ SlotInv' /\ TypeInv
  BY WakeStep, SlotStep DEF CountInv, DevNext, SlotInv
<1>a. itemReq \in [Items -> Clients \union {NULL}] /\ InFlight \subseteq Items
  BY InFlightInUse DEF CountInv, WakeInv, ListInv, TypeInv, DevTypeOK
<1>1. ASSUME \/ AllocRequest(c) \/ MmapIdTest(c) \/ MmapIdClaim(c) \/ MmapIdFallback(c)
             \/ ReturnMmap(c) \/ FreeRequest(c) \/ SyncReturn(c) \/ SyncInterrupted(c)
      PROVE  CountInv'
  <2>1. UNCHANGED <<reqs, rtdreqs, itemReq, hand, dpc, pend>>
    BY <1>1 DEF AllocRequest, MmapIdTest, MmapIdClaim, MmapIdFallback, ReturnMmap, FreeRequest,
       SyncReturn, SyncInterrupted, LeaveSync, queueVars, daemonVars, clientVars
  <2>2. InFlight' = InFlight
    BY <2>1, QuietEffect DEF CountInv, WakeInv
  <2>3. cause \subseteq cause'
    BY <1>1 DEF AllocRequest, MmapIdTest, MmapIdClaim, MmapIdFallback, ReturnMmap, FreeRequest,
       SyncReturn, SyncInterrupted, LeaveSync, histVars
  <2>4. ASSUME "interrupted" \notin cause'
        PROVE  \A d \in Clients : Due(d)' = Due(d) /\ (pc'[d] # "ready" => pend'[d] = 0)
    <3>1. Exact
      BY <2>3, <2>4 DEF CountInv
    <3> USE DEF TypeInv, DevTypeOK, Exact, Due
    <3>2. CASE AllocRequest(c)
      BY <1>0, <3>1, <3>2 DEF AllocRequest
    <3>3. CASE MmapIdTest(c)
      BY <1>0, <3>1, <3>3 DEF MmapIdTest
    <3>4. CASE MmapIdClaim(c)
      BY <1>0, <3>1, <3>4 DEF MmapIdClaim
    <3>5. CASE MmapIdFallback(c)
      BY <1>0, <3>1, <3>5 DEF MmapIdFallback
    <3>6. CASE ReturnMmap(c)
      BY <1>0, <3>1, <3>6 DEF ReturnMmap, clientVars
    <3>7. CASE FreeRequest(c)
      BY <1>0, <3>1, <3>7 DEF FreeRequest
    <3>8. CASE SyncReturn(c)
      BY <1>0, <3>1, <3>8 DEF SyncReturn, LeaveSync
    <3>9. CASE SyncInterrupted(c)
      BY <2>4, <3>9 DEF SyncInterrupted
    <3> QED BY <1>1, <3>2, <3>3, <3>4, <3>5, <3>6, <3>7, <3>8, <3>9
  <2>5. IsFiniteSet(InFlight)' /\ ("interrupted" \notin cause => Exact)'
    BY <2>1, <2>2, <2>3, <2>4, CountKept
  <2>6. ServedSlotHeld'
    <3> SUFFICES ASSUME cause' = {}, NEW i \in InFlight PROVE holds'[itemReq[i]]
      BY <2>1, <2>2 DEF ServedSlotHeld
    <3>1. cause = {} /\ holds[itemReq[i]] /\ itemReq[i] \in Clients
      BY <2>3, InFlightInUse DEF CountInv, ServedSlotHeld, WakeInv
    <3>2. CASE itemReq[i] # c
      BY <1>0, <1>1, <3>1, <3>2 DEF AllocRequest, MmapIdTest, MmapIdClaim, MmapIdFallback, ReturnMmap,
         FreeRequest, SyncReturn, SyncInterrupted, LeaveSync, GiveBack, histVars, TypeInv, DevTypeOK
    <3>3. CASE itemReq[i] = c
      <4>1. InFlightOf(c) # {}
        BY <3>3 DEF InFlightOf
      <4>2. Due(c) # 0
        BY <3>1, <4>1, NoneDue
      <4>3. ~ (ReturnMmap(c) \/ FreeRequest(c) \/ SyncReturn(c) \/ SyncInterrupted(c))
        BY <4>2 DEF Due, ReturnMmap, FreeRequest, SyncReturn, SyncInterrupted
      <4>4. holds'[c] = holds[c] \/ holds'[c] = TRUE
        BY <1>0, <1>1, <4>3 DEF AllocRequest, MmapIdTest, MmapIdClaim, MmapIdFallback, histVars,
           TypeInv, DevTypeOK
      <4> QED BY <3>1, <3>3, <4>4
    <3> QED BY <3>2, <3>3
  <2> QED BY <1>0, <2>5, <2>6 DEF CountInv
<1>2. ASSUME CallSync(c) \/ CallAsync(c)
      PROVE  CountInv'
  <2>1. Enqueue(c) /\ UNCHANGED <<rtdreqs, hand, dpc, holds>> /\ cause' = cause \union CallCause(c)
    BY <1>2 DEF CallSync, CallAsync, daemonVars
  <2>2. PICK i \in Items \ InFlight :
          InFlight' = InFlight \union {i} /\ itemReq' = [itemReq EXCEPT ![i] = c]
    BY <2>1, EnqueueEffect DEF CountInv, WakeInv
  <2>3. /\ Due(c)' = Due(c) + 1
        /\ pc'[c] # "ready" => pend'[c] = 0
        /\ \A d \in Clients \ {c} : Due(d)' = Due(d) /\ pc'[d] = pc[d] /\ pend'[d] = pend[d]
    <3>1. CASE CallSync(c)
      BY <1>0, <3>1 DEF CallSync, Due, TypeInv, DevTypeOK
    <3>2. CASE CallAsync(c)
      BY <1>0, <3>2 DEF CallAsync, Due, TypeInv, DevTypeOK
    <3> QED BY <1>2, <3>1, <3>2
  <2>4. IsFiniteSet(InFlight)' /\ ("interrupted" \notin cause => Exact)'
    BY <2>1, <2>2, <2>3, CountCall
  <2>5. ServedSlotHeld'
    <3> SUFFICES ASSUME cause' = {}, NEW j \in InFlight' PROVE holds[itemReq'[j]]
      BY <2>1 DEF ServedSlotHeld
    <3>1. cause = {} /\ holds[c]
      BY <2>1 DEF CallCause
    <3>2. CASE j = i
      BY <1>a, <2>2, <3>1, <3>2
    <3>3. CASE j # i
      BY <1>a, <2>2, <3>1, <3>3 DEF CountInv, ServedSlotHeld
    <3> QED BY <3>2, <3>3
  <2> QED BY <1>0, <2>4, <2>5 DEF CountInv
<1> QED BY <1>1, <1>2 DEF ClientStep

LEMMA CountDaemon ==
  ASSUME CountInv, DaemonStep
  PROVE  CountInv'
<1>0. WakeInv' /\ SlotInv' /\ TypeInv /\ ListInv
  BY WakeStep, SlotStep DEF CountInv, DevNext, SlotInv, WakeInv
<1>1. UNCHANGED <<pc, callback, holds, cause>>
  BY DaemonLeavesClients
<1>2. ASSUME \/ ReadTake \/ ReadFile \/ WriteFinish
             \/ \E sid \in Slots : WriteFound(sid) \/ WriteNotFound(sid)
      PROVE  CountInv'
  <2>1. UNCHANGED <<done, pend>>
    BY <1>2 DEF ReadTake, ReadFile, WriteFinish, WriteFound, WriteNotFound, devVars, clientVars
  <2>2. InFlight' = InFlight /\ \A i \in InFlight : itemReq'[i] = itemReq[i]
    <3>1. CASE ReadTake \/ ReadFile \/ \E sid \in Slots : WriteFound(sid)
      BY <1>0, <3>1, MoveEffect
    <3>2. CASE WriteFinish
      <4>1. /\ hand \in Items /\ hand \notin InFlight /\ InFlight' = InFlight
            /\ itemReq' = [itemReq EXCEPT ![hand] = NULL]
        BY <1>0, <3>2, FinishEffect
      <4> QED BY <1>0, <4>1, InFlightInUse DEF TypeInv, DevTypeOK
    <3>3. CASE \E sid \in Slots : WriteNotFound(sid)
      BY <1>0, <3>3, QuietEffect DEF WriteNotFound, devVars, queueVars, daemonVars
    <3> QED BY <1>2, <3>1, <3>2, <3>3
  <2>3. ASSUME "interrupted" \notin cause'
        PROVE  \A d \in Clients : Due(d)' = Due(d) /\ (pc'[d] # "ready" => pend'[d] = 0)
    BY <1>1, <2>1, <2>3 DEF CountInv, Exact, Due
  <2>4. IsFiniteSet(InFlight)' /\ ("interrupted" \notin cause => Exact)'
    BY <1>1, <2>2, <2>3, CountKept
  <2>5. ServedSlotHeld'
    BY <1>1, <2>2 DEF CountInv, ServedSlotHeld
  <2> QED BY <1>0, <2>4, <2>5 DEF CountInv
<1>3. CASE WriteCallback
  <2>0. PICK a \in Clients : a = itemReq[hand]
    BY <1>0, <1>3, CallbackEffect
  <2>1. /\ hand \in InFlight /\ itemReq[hand] = a
        /\ InFlight' = InFlight \ {hand} /\ UNCHANGED itemReq
    BY <1>0, <1>3, <2>0, CallbackEffect
  <2>2. \A d \in Clients : IsFiniteSet(InFlightOf(d))
    BY FS_Subset DEF CountInv, InFlightOf
  <2>3. /\ InFlightOf(a)' = InFlightOf(a) \ {hand} /\ hand \in InFlightOf(a)
        /\ \A d \in Clients \ {a} : InFlightOf(d)' = InFlightOf(d)
    BY <2>1 DEF InFlightOf
  <2>4. Cardinality(InFlightOf(a)') = Cardinality(InFlightOf(a)) - 1
    BY <2>1, <2>2, <2>3, FS_RemoveElement
  <2>5. IsFiniteSet(InFlight)'
    BY <2>1, FS_RemoveElement DEF CountInv
  <2>6. ASSUME "interrupted" \notin cause'
        PROVE  Exact'
    <3>1. Exact
      BY <1>1, <2>6 DEF CountInv
    <3>2. Due(a) # 0
      BY <1>1, <2>1, <2>3, <2>6, NoneDue
    <3>3. callback[a] = "sync" <=> pc[a] = "wait"
      BY <2>1 DEF CountInv, WakeInv, CallbackInv
    <3>4. \A d \in Clients \ {a} : done'[d] = done[d] /\ pend'[d] = pend[d]
      BY <1>0, <1>3, <2>1 DEF WriteCallback, TypeInv, DevTypeOK
    <3>5. Due(a)' = Due(a) - 1 /\ (pc[a] # "ready" => pend'[a] = 0)
      <4>1. CASE pc[a] = "wait"
        BY <1>0, <1>1, <1>3, <2>1, <3>1, <3>2, <3>3, <4>1 DEF WriteCallback, Due, Exact, TypeInv, DevTypeOK
      <4>2. CASE pc[a] # "wait"
        BY <1>0, <1>1, <1>3, <2>1, <3>1, <3>2, <3>3, <4>2 DEF WriteCallback, Due, Exact, TypeInv, DevTypeOK
      <4> QED BY <4>1, <4>2
    <3>6. \A d \in Clients \ {a} : Due(d)' = Due(d)
      BY <1>1, <3>4 DEF Due
    <3> QED BY <1>1, <2>1, <2>3, <2>4, <3>1, <3>4, <3>5, <3>6 DEF Exact
  <2>7. ServedSlotHeld'
    BY <1>1, <2>1 DEF CountInv, ServedSlotHeld
  <2> QED BY <1>0, <2>5, <2>6, <2>7 DEF CountInv
<1> QED BY <1>2, <1>3 DEF DaemonStep

LEMMA CountStep == CountInv /\ [DevNext]_devVars => CountInv'
<1>1. ASSUME CountInv, UNCHANGED devVars PROVE CountInv'
  <2>1. WakeInv' /\ SlotInv'
    BY <1>1, WakeStep, SlotStep DEF CountInv
  <2>2. UNCHANGED <<reqs, rtdreqs, itemReq, hand, dpc, pc, done, pend, holds, cause>>
    BY <1>1 DEF devVars, clientVars, queueVars, daemonVars, histVars
  <2>3. InFlight' = InFlight
    BY <2>2 DEF InFlight
  <2>4. \A c \in Clients : InFlightOf(c)' = InFlightOf(c) /\ Due(c)' = Due(c)
    BY <2>2, <2>3 DEF InFlightOf, Due
  <2> QED BY <1>1, <2>1, <2>2, <2>3, <2>4 DEF CountInv, Exact, ServedSlotHeld
<1> QED BY <1>1, CountClient, CountDaemon DEF DevNext

\* Without interrupted waits, the answers a client still waits for are
\* exactly its requests in flight, for any number of clients and items: no
\* answer is lost, doubled or credited to another client.
THEOREM AnswersCountedExactly == DevSpec => []CompletionExact
<1>1. CountInv => CompletionExact
  BY DEF CountInv, Exact, Due, CompletionExact
<1> QED BY <1>1, CountInit, CountStep, PTL DEF DevSpec

\* Outside the known windows the slot of a request in flight belongs to its
\* client; this rests on the exact count, because a client gives its slot
\* back when it has counted all its answers.
THEOREM ServedSlotsHeld == DevSpec => []ServedSlotHeld
<1>1. CountInv => ServedSlotHeld
  BY DEF CountInv
<1> QED BY <1>1, CountInit, CountStep, PTL DEF DevSpec
=============================================================================
