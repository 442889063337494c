-------------------------- MODULE QhgpuSystemProofs --------------------------
(***************************************************************************)
(* Invariance proofs for QhgpuSystem, for any sets of clients, items and   *)
(* service requests, any number of slots and any services.  The device's   *)
(* invariants come from QhgpuDeviceProofs, which this module extends; the  *)
(* daemon's lemmas come from ConnectorProofs, of which CP is the instance  *)
(* whose requests are the device's.                                        *)
(***************************************************************************)
EXTENDS QhgpuSystem, QhgpuDeviceProofs

CP == INSTANCE ConnectorProofs WITH KuRequests <- KuRequest, ServiceOf <- SvcOf

-----------------------------------------------------------------------------
(* The invariant                                                           *)

Writing == dpc \in {"found", "called"}

\* The daemon's thread is in a handler exactly where its loop calls it.
HandlerInv ==
  /\ dpc = "read" =>
       /\ lpc = "get"
       /\ kureq \in KuRequest /\ kureq.item = hand /\ kureq.client = itemReq[hand]
  /\ dpc # "read" => kureq = NULL
  /\ Writing => lpc = "done" /\ postExecReqs # <<>>

\* The service requests for which the device must still find an item: all but
\* the one whose item a write in progress has already taken.
Owing == ToSet(allReqs) \ (IF Writing THEN {postExecReqs[1]} ELSE {})

OwingIn(n) == {s \in Owing : sr[s].id = n}
ListedIn(n) == {i \in ToSet(rtdreqs) : id[itemReq[i]] = n}

\* Slot by slot, the device has an item for every answer the daemon owes.
IdInv ==
  "interrupted" \notin cause =>
    /\ dpc = "read" => kureq.id = id[itemReq[hand]]
    /\ \A n \in Slots : Cardinality(OwingIn(n)) <= Cardinality(ListedIn(n))

\* While no slot ownership was lost, the daemon works for owners only, and
\* the item it has found is the executed request's client's.
OwnInv ==
  cause = {} =>
    /\ \A s \in Owing : holds[sr[s].client] /\ id[sr[s].client] = sr[s].id
    /\ Writing => itemReq[hand] = sr[postExecReqs[1]].client

\* While nothing failed, the daemon's list and the device's are in step.
FifoInv ==
  Conn!Alive /\ "interrupted" \notin cause /\ ~ failed /\ doneReqs = <<>> =>
    /\ lpc \in {"post", "launch"} => cur = 1
    /\ \A a, b \in SrItems : CP!Ahead(a, b) => Before(allReqs, a, b)
    /\ Writing => hand = sr[allReqs[1]].item
    /\ LET off == IF Writing THEN 1 ELSE 0 IN
         \A k \in 1 .. Len(rtdreqs) :
           /\ sr[allReqs[k + off]].item = rtdreqs[k]
           /\ sr[allReqs[k + off]].id = id[itemReq[rtdreqs[k]]]

SysInv ==
  /\ CountInv
  /\ CP!ConnInv
  /\ failed \in BOOLEAN
  /\ HandlerInv
  /\ EveryReadIsOwed
  /\ IdInv
  /\ OwnInv
  /\ FifoInv

-----------------------------------------------------------------------------
(* The daemon's lemmas, in this module's terms                             *)

LEMMA ConnectorFits == CP!ConnectorAssumption
BY SystemAssumption DEF CP!ConnectorAssumption, SvcOf, CP!ServiceKinds, Conn!ServiceKinds, KuRequest

\* Conn and CP are instances of the same definitions.
LEMMA SameLists ==
  /\ \A s : CP!ToSet(s) = ToSet(s)
  /\ \A s : CP!IsInjective(s) <=> IsInjective(s)
  /\ \A s, k : CP!RemoveAt(s, k) = RemoveAt(s, k)
  /\ \A s, a, b : CP!Before(s, a, b) <=> Before(s, a, b)
BY DEF CP!ToSet, ToSet, CP!IsInjective, IsInjective, CP!RemoveAt, RemoveAt, CP!Before, Before

LEMMA SameActions ==
  /\ Conn!ConnInit <=> CP!ConnInit
  /\ Conn!LoopStep <=> CP!LoopStep
  /\ Conn!ServiceDone <=> CP!ServiceDone
  /\ \A k : Conn!GetRequest(k) <=> CP!GetRequest(k)
<1>1. Conn!ConnInit <=> CP!ConnInit
  BY DEF Conn!ConnInit, CP!ConnInit
<1>2. Conn!LoopStep <=> CP!LoopStep
  BY DEF Conn!LoopStep, CP!LoopStep, Conn!EndPass, CP!EndPass, Conn!PostExec, CP!PostExec,
     Conn!PostFails, CP!PostFails, Conn!LaunchExec, CP!LaunchExec, Conn!LaunchFails, CP!LaunchFails,
     Conn!InPass, CP!InPass, Conn!StartPass, CP!StartPass, Conn!Kind, CP!Kind, Conn!listVars,
     CP!listVars, Conn!RemoveAt, CP!RemoveAt
<1>3. Conn!ServiceDone <=> CP!ServiceDone
  BY DEF Conn!ServiceDone, CP!ServiceDone, Conn!InPass, CP!InPass, Conn!RemoveAt, CP!RemoveAt,
     Conn!RemoveFirst, CP!RemoveFirst, Conn!SelectInSeq, CP!SelectInSeq, Conn!Min, CP!Min
<1>4. \A k : Conn!GetRequest(k) <=> CP!GetRequest(k)
  BY DEF Conn!GetRequest, CP!GetRequest, Conn!StartPass, CP!StartPass, Conn!FreeSrItems, CP!FreeSrItems
<1> QED BY <1>1, <1>2, <1>3, <1>4

\* What CP!ConnInv says of the lists.
LEMMA ConnFacts ==
  ASSUME CP!ConnInv
  PROVE  /\ sr \in [SrItems -> KuRequest \union {NULL}]
         /\ allReqs \in Seq(SrItems) /\ postExecReqs \in Seq(SrItems)
         /\ initReqs \in Seq(SrItems) /\ runningReqs \in Seq(SrItems) /\ doneReqs \in Seq(SrItems)
         /\ IsInjective(allReqs) /\ IsInjective(postExecReqs)
         /\ ToSet(postExecReqs) \intersect (ToSet(initReqs) \union ToSet(runningReqs)) = {}
         /\ ToSet(allReqs) = ToSet(initReqs) \union ToSet(runningReqs)
                               \union ToSet(postExecReqs) \union ToSet(doneReqs)
         /\ ToSet(allReqs) \subseteq SrItems
         /\ \A s \in ToSet(allReqs) : sr[s] \in KuRequest
         /\ lpc = "done" => cur = 1
         /\ postExecReqs # <<>> => postExecReqs[1] \in ToSet(postExecReqs)
<1> USE DEF CP!ConnInv, CP!ConnTypeOK
<1>1. ToSet(allReqs) \subseteq SrItems
  BY DEF ToSet
<1>2. \A s \in ToSet(allReqs) : sr[s] \in KuRequest
  BY <1>1, SameLists
<1>3. postExecReqs # <<>> => postExecReqs[1] \in ToSet(postExecReqs)
  BY DEF ToSet
<1>4. /\ IsInjective(allReqs) /\ IsInjective(postExecReqs)
      /\ ToSet(postExecReqs) \intersect (ToSet(initReqs) \union ToSet(runningReqs)) = {}
      /\ ToSet(allReqs) = ToSet(initReqs) \union ToSet(runningReqs)
                               \union ToSet(postExecReqs) \union ToSet(doneReqs)
  BY SameLists
<1> QED BY <1>1, <1>2, <1>3, <1>4

LEMMA QuietConn ==
  ASSUME CP!ConnInv, UNCHANGED <<sr, allReqs, initReqs, runningReqs, postExecReqs, doneReqs>>,
         lpc' \in {"done", "post", "launch", "get", "exited", "aborted"},
         cur' \in Nat \ {0}, lpc' = "done" => cur' = 1
  PROVE  CP!ConnInv'
BY CP!QuietStep, ConnectorFits DEF CP!listVars

LEMMA LoopEffect ==
  ASSUME CP!ConnInv, Conn!LoopStep
  PROVE  /\ CP!ConnInv'
         /\ UNCHANGED <<sr, allReqs, doneReqs>>
         /\ lpc \in {"done", "post", "launch"} /\ lpc' \in {"post", "launch", "get"}
         /\ cur' # 1 => Conn!LaunchFails \/ Conn!PostFails \/ (lpc' = lpc /\ cur' = cur)
         /\ \A a, b : CP!Ahead(a, b)' /\ ~ CP!Skipped(b) => CP!Ahead(a, b)
<1>1. CP!LoopStep
  BY SameActions
<1>2. CP!ConnInv'
  BY <1>1, CP!LoopStepInv, ConnectorFits
<1>3. \A a, b : CP!Ahead(a, b)' /\ ~ CP!Skipped(b) => CP!Ahead(a, b)
  BY <1>1, CP!AheadLoop, ConnectorFits
<1>4. /\ UNCHANGED <<sr, allReqs, doneReqs>>
      /\ lpc \in {"done", "post", "launch"} /\ lpc' \in {"post", "launch", "get"}
      /\ cur' # 1 => Conn!LaunchFails \/ Conn!PostFails \/ (lpc' = lpc /\ cur' = cur)
  BY DEF Conn!LoopStep, Conn!EndPass, Conn!PostExec, Conn!PostFails, Conn!LaunchExec,
     Conn!LaunchFails, Conn!InPass, Conn!StartPass, Conn!listVars
<1> QED BY <1>2, <1>3, <1>4

LEMMA DoneEffect ==
  ASSUME CP!ConnInv, Conn!ServiceDone
  PROVE  /\ CP!ConnInv'
         /\ postExecReqs # <<>>
         /\ ToSet(allReqs') = ToSet(allReqs) \ {postExecReqs[1]}
         /\ Len(allReqs') = Len(allReqs) - 1
         /\ \E k \in 1 .. Len(allReqs) :
              allReqs[k] = postExecReqs[1] /\ allReqs' = RemoveAt(allReqs, k)
         /\ sr' = [sr EXCEPT ![postExecReqs[1]] = NULL]
         /\ UNCHANGED <<initReqs, runningReqs, doneReqs, lpc, cur>>
         /\ \A a, b : CP!Ahead(a, b)' =>
              CP!Ahead(a, b) /\ (Before(allReqs, a, b) => Before(allReqs', a, b))
<1>1. CP!ServiceDone
  BY SameActions
<1>2. /\ CP!ConnInv'
      /\ cur = 1 /\ postExecReqs # <<>>
      /\ CP!ToSet(allReqs') = CP!ToSet(allReqs) \ {postExecReqs[1]}
      /\ Len(allReqs') = Len(allReqs) - 1
      /\ \E k \in 1 .. Len(allReqs) :
           allReqs[k] = postExecReqs[1] /\ allReqs' = CP!RemoveAt(allReqs, k)
  BY <1>1, CP!ServiceDoneEffect, ConnectorFits
<1>3. \A a, b : CP!Ahead(a, b)' =>
        CP!Ahead(a, b) /\ (CP!Before(allReqs, a, b) => CP!Before(allReqs', a, b))
  BY <1>1, CP!AheadDone, ConnectorFits
<1>4. /\ sr' = [sr EXCEPT ![postExecReqs[1]] = NULL]
      /\ UNCHANGED <<initReqs, runningReqs, doneReqs, lpc, cur>>
  BY <1>2 DEF Conn!ServiceDone
<1>5. ToSet(allReqs') = ToSet(allReqs) \ {postExecReqs[1]}
  BY <1>2, SameLists
<1>6. \E k \in 1 .. Len(allReqs) :
        allReqs[k] = postExecReqs[1] /\ allReqs' = RemoveAt(allReqs, k)
  BY <1>2, SameLists
<1>7. \A a, b : CP!Ahead(a, b)' =>
        CP!Ahead(a, b) /\ (Before(allReqs, a, b) => Before(allReqs', a, b))
  BY <1>3, SameLists
<1> QED BY <1>2, <1>4, <1>5, <1>6, <1>7

LEMMA GetEffect ==
  ASSUME CP!ConnInv, NEW k \in KuRequest, Conn!GetRequest(k)
  PROVE  /\ CP!ConnInv'
         /\ UNCHANGED postExecReqs
         /\ lpc = "get" /\ cur' = 1
         /\ \E s \in SrItems :
              /\ s \notin ToSet(allReqs)
              /\ sr' = [sr EXCEPT ![s] = k]
              /\ \/ UNCHANGED allReqs /\ lpc' = "exited"
                 \/ /\ allReqs' = Append(allReqs, s) /\ lpc' = "done"
                    /\ ToSet(allReqs') = ToSet(allReqs) \union {s}
         /\ doneReqs' = <<>> => doneReqs = <<>>
         /\ \A a, b : CP!Ahead(a, b)' /\ (CP!Ahead(a, b) => Before(allReqs, a, b))
              => Before(allReqs', a, b)
<1>1. CP!GetRequest(k)
  BY SameActions
<1>2. PICK s \in SrItems : CP!GetRequestInto(k, s)
  BY <1>1, CP!GetRequestEffect, ConnectorFits
<1>3. /\ CP!ConnInv'
      /\ s \notin CP!ToSet(allReqs)
      /\ SvcOf[k] # "exit" => CP!ToSet(allReqs') = CP!ToSet(allReqs) \union {s}
  BY <1>2, CP!GetRequestInv, ConnectorFits
<1>4. \A a, b : CP!Ahead(a, b)' /\ (CP!Ahead(a, b) => CP!Before(allReqs, a, b))
        => CP!Before(allReqs', a, b)
  BY <1>2, CP!AheadGet, ConnectorFits
<1>5. /\ s \notin ToSet(allReqs)
      /\ SvcOf[k] # "exit" => ToSet(allReqs') = ToSet(allReqs) \union {s}
      /\ \A a, b : CP!Ahead(a, b)' /\ (CP!Ahead(a, b) => Before(allReqs, a, b))
           => Before(allReqs', a, b)
  BY <1>3, <1>4, SameLists
<1>6. /\ sr' = [sr EXCEPT ![s] = k] /\ cur' = 1 /\ UNCHANGED postExecReqs
      /\ SvcOf[k] = "exit" => UNCHANGED allReqs /\ lpc' = "exited"
      /\ SvcOf[k] # "exit" => allReqs' = Append(allReqs, s) /\ lpc' = "done"
  BY <1>2 DEF CP!GetRequestInto
<1>7. doneReqs' = Append(doneReqs, s) \/ UNCHANGED doneReqs
  BY <1>2 DEF CP!GetRequestInto
<1>8. doneReqs' = <<>> => doneReqs = <<>>
  <2>1. doneReqs \in Seq(SrItems)
    BY ConnFacts
  <2> QED BY <1>7, <2>1, AppendProperties
<1>9. lpc = "get"
  BY DEF Conn!GetRequest
<1>10. \E r \in SrItems :
         /\ r \notin ToSet(allReqs)
         /\ sr' = [sr EXCEPT ![r] = k]
         /\ \/ UNCHANGED allReqs /\ lpc' = "exited"
            \/ /\ allReqs' = Append(allReqs, r) /\ lpc' = "done"
               /\ ToSet(allReqs') = ToSet(allReqs) \union {r}
  BY <1>5, <1>6
<1> QED BY <1>3, <1>5, <1>6, <1>8, <1>9, <1>10

-----------------------------------------------------------------------------
(* Every step is a step of the device and keeps the lists of the daemon    *)

\* The daemon answers with the id of a slot.
LEMMA AnsweringType ==
  ASSUME CP!ConnInv, Conn!InPass("done", postExecReqs)
  PROVE  /\ cur = 1 /\ postExecReqs # <<>> /\ Answering = sr[postExecReqs[1]]
         /\ Answering \in KuRequest /\ Answering.id \in Slots
<1>1. cur = 1 /\ postExecReqs # <<>>
  BY ConnFacts DEF Conn!InPass
<1>2. postExecReqs[1] \in ToSet(allReqs)
  BY <1>1, ConnFacts
<1>3. Answering = sr[postExecReqs[1]] /\ Answering \in KuRequest
  BY <1>1, <1>2, ConnFacts DEF Answering
<1> QED BY <1>1, <1>3 DEF KuRequest

LEMMA DeviceStep == SysInv /\ [SysNext]_sysVars => [DevNext]_devVars
<1> SUFFICES ASSUME SysInv, [SysNext]_sysVars PROVE [DevNext]_devVars
  OBVIOUS
<1>1. CASE DaemonWrite
  BY <1>1, AnsweringType DEF SysInv, DaemonWrite, DevNext, DaemonStep
<1>2. CASE DaemonWriteRefused
  BY <1>2, AnsweringType DEF SysInv, DaemonWriteRefused, DevNext, DaemonStep
<1>3. CASE DaemonRead \/ DaemonReadReturns \/ DaemonWriteCallback \/ DaemonWriteReturns
  BY <1>3 DEF DaemonRead, DaemonReadReturns, DaemonWriteCallback, DaemonWriteReturns, DevNext, DaemonStep
<1>4. CASE DaemonGetsNothing \/ DaemonLoop \/ DaemonKilled \/ UNCHANGED sysVars
  BY <1>4 DEF DaemonGetsNothing, DaemonLoop, DaemonKilled, sysVars
<1>5. ASSUME NEW c \in Clients, Client(c) PROVE DevNext
  BY <1>5 DEF Client, DevNext
<1> QED BY <1>1, <1>2, <1>3, <1>4, <1>5 DEF SysNext, Daemon

LEMMA ConnStep == SysInv /\ [SysNext]_sysVars => CP!ConnInv'
<1> SUFFICES ASSUME SysInv, [SysNext]_sysVars PROVE CP!ConnInv'
  OBVIOUS
<1>0. CP!ConnInv /\ CP!ConnTypeOK
  BY DEF SysInv, CP!ConnInv
<1>1. CASE DaemonReadReturns
  <2>1. kureq \in KuRequest /\ Conn!GetRequest(kureq)
    BY <1>1 DEF DaemonReadReturns, ReadFile, SysInv, HandlerInv
  <2> QED BY <1>0, <2>1, GetEffect
<1>2. CASE DaemonGetsNothing
  BY <1>0, <1>2, QuietConn DEF DaemonGetsNothing, Conn!PollTimeout, Conn!AllocFails, Conn!StartPass, Conn!listVars
<1>3. CASE DaemonWriteRefused
  BY <1>0, <1>3, QuietConn DEF DaemonWriteRefused, Conn!SendAborts, Conn!listVars, CP!ConnTypeOK
<1>4. CASE DaemonWriteReturns
  BY <1>0, <1>4, DoneEffect DEF DaemonWriteReturns
<1>5. CASE DaemonLoop
  BY <1>0, <1>5, LoopEffect DEF DaemonLoop
<1>6. CASE DaemonKilled
  BY <1>0, <1>6, QuietConn DEF DaemonKilled, CP!ConnTypeOK
<1>7. CASE UNCHANGED connVars
  BY <1>0, <1>7, QuietConn DEF connVars, CP!ConnInv, CP!ConnTypeOK
<1> QED BY <1>1, <1>2, <1>3, <1>4, <1>5, <1>6, <1>7
        DEF SysNext, Daemon, DaemonRead, DaemonWrite, DaemonWriteCallback, Client, sysVars

-----------------------------------------------------------------------------
(* What a step of a client leaves alone                                    *)

LEMMA ClientKeepsItems ==
  ASSUME CountInv, NEW c \in Clients, ClientStep(c)
  PROVE  /\ UNCHANGED <<rtdreqs, hand, dpc>>
         /\ cause \subseteq cause'
         /\ \A i \in ToSet(rtdreqs) \union {hand} : i # NULL => itemReq'[i] = itemReq[i]
<1>1. UNCHANGED <<rtdreqs, hand, dpc>> /\ cause \subseteq cause'
  BY DEF ClientStep, AllocRequest, MmapIdTest, MmapIdClaim, MmapIdFallback, ReturnMmap, FreeRequest,
     CallSync, SyncReturn, SyncInterrupted, CallAsync, LeaveSync, queueVars, daemonVars, histVars
<1>2. UNCHANGED itemReq \/ Enqueue(c)
  BY DEF ClientStep, AllocRequest, MmapIdTest, MmapIdClaim, MmapIdFallback, ReturnMmap, FreeRequest,
     CallSync, SyncReturn, SyncInterrupted, CallAsync, LeaveSync, queueVars
<1>3. CASE Enqueue(c)
  <2>1. PICK i \in Items : itemReq[i] = NULL /\ itemReq' = [itemReq EXCEPT ![i] = c]
    BY <1>3 DEF Enqueue
  <2>2. ToSet(rtdreqs) \subseteq Items /\ hand \in Items \union {NULL}
    BY DEF CountInv, WakeInv, ListInv, TypeInv, DevTypeOK, ToSet
  <2>3. i \notin ToSet(rtdreqs) /\ i # hand
    BY <2>1 DEF CountInv, WakeInv, ListInv, ItemConservation
  <2>4. itemReq \in [Items -> Clients \union {NULL}]
    BY DEF CountInv, WakeInv, ListInv, TypeInv, DevTypeOK
  <2> QED BY <1>1, <2>1, <2>2, <2>3, <2>4
<1> QED BY <1>1, <1>2, <1>3

\* Without interrupted waits, a client changes the id of its request or gives
\* its slot up only when it has no request in flight.
LEMMA ClientKeepsSlot ==
  ASSUME CountInv, NEW c \in Clients, ClientStep(c), "interrupted" \notin cause',
         NEW d \in Clients, id'[d] # id[d] \/ (holds[d] /\ ~ holds'[d])
  PROVE  InFlightOf(d) = {}
<1>1. "interrupted" \notin cause
  BY ClientKeepsItems
<1>2. Exact
  BY <1>1 DEF CountInv
<1>3. SUFFICES Due(d) = 0
  BY <1>1, NoneDue
<1>4. id \in [Clients -> Slots] /\ holds \in [Clients -> BOOLEAN]
  BY DEF CountInv, WakeInv, ListInv, TypeInv, DevTypeOK
<1>5. CASE MmapIdClaim(c) \/ MmapIdFallback(c)
  <2>1. d = c /\ pc[c] \in {"scan", "claim"}
    BY <1>4, <1>5 DEF MmapIdClaim, MmapIdFallback
  <2> QED BY <1>2, <2>1 DEF Exact, Due
<1>6. CASE ReturnMmap(c) \/ FreeRequest(c)
  <2>1. d = c /\ pc[c] = "ready" /\ pend[c] = 0
    BY <1>4, <1>6 DEF ReturnMmap, FreeRequest, GiveBack, clientVars
  <2> QED BY <2>1 DEF Due
<1>7. CASE SyncReturn(c)
  <2>1. d = c /\ pc[c] = "wait" /\ done[c]
    BY <1>4, <1>7 DEF SyncReturn, LeaveSync, GiveBack
  <2> QED BY <2>1 DEF Due
<1>8. CASE SyncInterrupted(c)
  BY <1>8 DEF SyncInterrupted
<1>9. CASE AllocRequest(c) \/ MmapIdTest(c) \/ CallSync(c) \/ CallAsync(c)
  BY <1>9 DEF AllocRequest, MmapIdTest, CallSync, CallAsync, histVars
<1> QED BY <1>5, <1>6, <1>7, <1>8, <1>9 DEF ClientStep

LEMMA OwingFinite ==
  ASSUME SysInv, NEW n
  PROVE  /\ IsFiniteSet(OwingIn(n)) /\ Cardinality(OwingIn(n)) \in Nat
         /\ IsFiniteSet(ListedIn(n)) /\ Cardinality(ListedIn(n)) \in Nat
<1>1. IsFiniteSet(ToSet(allReqs))
  BY ConnFacts, ToSetFinite DEF SysInv
<1>2. IsFiniteSet(OwingIn(n))
  BY <1>1, FS_Subset DEF OwingIn, Owing
<1>3. IsFiniteSet(ListedIn(n))
  BY FS_Subset DEF SysInv, CountInv, InFlight, ListedIn
<1> QED BY <1>2, <1>3, FS_CardinalityType

\* While no slot ownership was lost, the client of a request that the daemon
\* has is the client of an item that the device has.
LEMMA OwingInFlight ==
  ASSUME SysInv, cause = {}, NEW s \in Owing
  PROVE  /\ sr[s] \in KuRequest
         /\ \E i \in ToSet(rtdreqs) : itemReq[i] = sr[s].client
         /\ InFlightOf(sr[s].client) # {}
<1> DEFINE n == sr[s].id
<1>0. s \in ToSet(allReqs) /\ sr[s] \in KuRequest
  BY ConnFacts DEF SysInv, Owing
<1>1. n \in Slots /\ sr[s].client \in Clients
  BY <1>0 DEF KuRequest
<1>2. holds[sr[s].client] /\ id[sr[s].client] = n
  BY DEF SysInv, OwnInv
<1>3. s \in OwingIn(n)
  BY DEF OwingIn
<1>4. /\ IsFiniteSet(OwingIn(n)) /\ Cardinality(OwingIn(n)) \in Nat
      /\ IsFiniteSet(ListedIn(n)) /\ Cardinality(ListedIn(n)) \in Nat
  BY OwingFinite
<1>5. Cardinality(OwingIn(n)) <= Cardinality(ListedIn(n))
  BY <1>1 DEF SysInv, IdInv
<1>6. ListedIn(n) # {}
  <2>1. Cardinality(OwingIn(n)) # 0
    BY <1>3, <1>4, FS_EmptySet
  <2>2. Cardinality(ListedIn(n)) # 0
    BY <1>4, <1>5, <2>1
  <2> QED BY <2>2, FS_EmptySet
<1>7. PICK i \in ToSet(rtdreqs) : id[itemReq[i]] = n
  BY <1>6 DEF ListedIn
<1>8. i \in InFlight /\ itemReq[i] \in Clients
  BY InFlightInUse DEF InFlight, SysInv, CountInv, WakeInv
<1>9. holds[itemReq[i]]
  BY <1>8 DEF SysInv, CountInv, ServedSlotHeld
<1>10. itemReq[i] = sr[s].client
  BY <1>1, <1>2, <1>7, <1>8, <1>9 DEF SysInv, CountInv, SlotInv, Owned
<1>11. i \in InFlightOf(sr[s].client)
  BY <1>8, <1>10 DEF InFlightOf
<1> QED BY <1>0, <1>10, <1>11

-----------------------------------------------------------------------------
(* The invariant holds initially and every step keeps it                   *)

LEMMA SysInvInit == SysInit => SysInv
<1> SUFFICES ASSUME SysInit PROVE SysInv
  OBVIOUS
<1>1. /\ dpc = "user" /\ rtdreqs = <<>> /\ allReqs = <<>> /\ postExecReqs = <<>>
      /\ runningReqs = <<>> /\ initReqs = <<>>
      /\ lpc = "done" /\ kureq = NULL /\ failed = FALSE
  BY DEF SysInit, DevInit, Conn!ConnInit
<1>2. CountInv
  BY CountInit DEF SysInit
<1>3. CP!ConnInv
  BY SameActions, CP!ConnInvInit, ConnectorFits DEF SysInit
<1>4. Owing = {} /\ ToSet(rtdreqs) = {}
  BY <1>1 DEF Owing, ToSet
<1>5. IdInv
  <2>1. \A n \in Slots : OwingIn(n) = {} /\ ListedIn(n) = {}
    BY <1>4 DEF OwingIn, ListedIn
  <2>2. Cardinality({}) = 0
    BY FS_EmptySet
  <2>3. \A n \in Slots : Cardinality(OwingIn(n)) <= Cardinality(ListedIn(n))
    BY <2>1, <2>2
  <2> QED BY <1>1, <2>3 DEF IdInv
<1>6. \A a, b : ~ CP!Ahead(a, b)
  BY <1>1 DEF CP!Ahead, CP!Before, CP!ToSet
<1>7. FifoInv
  BY <1>1, <1>6 DEF FifoInv, Writing
<1>8. HandlerInv /\ OwnInv
  BY <1>1, <1>4 DEF HandlerInv, OwnInv, Writing
<1>9. EveryReadIsOwed
  BY <1>1 DEF EveryReadIsOwed
<1>10. failed \in BOOLEAN
  BY <1>1
<1> QED BY <1>2, <1>3, <1>5, <1>7, <1>8, <1>9, <1>10 DEF SysInv

LEMMA ClientKeepsInv ==
  ASSUME SysInv, NEW c \in Clients, Client(c)
  PROVE  HandlerInv' /\ EveryReadIsOwed' /\ IdInv' /\ OwnInv' /\ FifoInv'
<1>0. CountInv /\ CP!ConnInv /\ ClientStep(c)
  BY DEF SysInv, Client
<1>1. /\ UNCHANGED <<sr, allReqs, initReqs, runningReqs, postExecReqs, doneReqs, lpc, cur>>
      /\ UNCHANGED <<kureq, failed>>
  BY DEF Client, connVars
<1>2. /\ UNCHANGED <<rtdreqs, hand, dpc>>
      /\ cause \subseteq cause'
      /\ \A i \in ToSet(rtdreqs) \union {hand} : i # NULL => itemReq'[i] = itemReq[i]
  BY <1>0, ClientKeepsItems
<1>3. /\ Owing' = Owing /\ Writing' = Writing
      /\ dpc # "user" => hand # NULL
      /\ \A n : OwingIn(n)' = OwingIn(n)
  BY <1>0, <1>1, <1>2 DEF Owing, Writing, OwingIn, CountInv, WakeInv, ListInv, TypeInv, DevTypeOK
<1>4. \A i \in ToSet(rtdreqs) : i \in InFlight /\ i # NULL /\ itemReq[i] \in Clients /\ itemReq'[i] = itemReq[i]
  <2>1. ToSet(rtdreqs) \subseteq InFlight
    BY DEF InFlight
  <2>2. InFlight \subseteq Items /\ \A i \in InFlight : itemReq[i] \in Clients
    BY <1>0, InFlightInUse DEF CountInv, WakeInv
  <2> QED BY <1>2, <2>1, <2>2, DeviceAssumption
<1>5. HandlerInv'
  BY <1>1, <1>2, <1>3 DEF SysInv, HandlerInv
<1>6. EveryReadIsOwed'
  BY <1>1, <1>2 DEF SysInv, EveryReadIsOwed, Conn!Alive
<1>7. ASSUME "interrupted" \notin cause'
      PROVE  \A i \in InFlight : id'[itemReq[i]] = id[itemReq[i]]
  <2> SUFFICES ASSUME NEW i \in InFlight PROVE id'[itemReq[i]] = id[itemReq[i]]
    OBVIOUS
  <2>1. itemReq[i] \in Clients /\ InFlightOf(itemReq[i]) # {}
    BY <1>0, InFlightInUse DEF InFlightOf, CountInv, WakeInv
  <2> QED BY <1>0, <1>7, <2>1, ClientKeepsSlot
<1>8. IdInv'
  <2> SUFFICES ASSUME "interrupted" \notin cause'
               PROVE  /\ dpc' = "read" => kureq'.id = id'[itemReq'[hand']]
                      /\ \A n \in Slots : Cardinality(OwingIn(n)') <= Cardinality(ListedIn(n)')
    BY DEF IdInv
  <2>1. dpc = "read" => kureq.id = id'[itemReq[hand]]
    <3>1. dpc = "read" => hand \in InFlight
      BY DEF InFlight
    <3> QED BY <1>2, <1>7, <3>1 DEF SysInv, IdInv
  <2>2. \A n : ListedIn(n)' = ListedIn(n)
    BY <1>2, <1>4, <1>7 DEF ListedIn
  <2> QED BY <1>1, <1>2, <1>3, <2>1, <2>2 DEF SysInv, IdInv
<1>9. OwnInv'
  <2> SUFFICES ASSUME cause' = {}
               PROVE  /\ \A s \in Owing : holds'[sr[s].client] /\ id'[sr[s].client] = sr[s].id
                      /\ Writing => itemReq'[hand] = sr[postExecReqs[1]].client
    BY <1>1, <1>2, <1>3 DEF OwnInv
  <2>1. cause = {}
    BY <1>2
  <2>2. ASSUME NEW s \in Owing
        PROVE  holds'[sr[s].client] /\ id'[sr[s].client] = sr[s].id
    <3>1. sr[s].client \in Clients /\ InFlightOf(sr[s].client) # {}
      BY <2>1, OwingInFlight DEF KuRequest
    <3>2. holds[sr[s].client] /\ id[sr[s].client] = sr[s].id
      BY <2>1 DEF SysInv, OwnInv
    <3>3. ~ (id'[sr[s].client] # id[sr[s].client] \/ (holds[sr[s].client] /\ ~ holds'[sr[s].client]))
      BY <1>0, <3>1, ClientKeepsSlot
    <3> QED BY <3>2, <3>3
  <2>3. Writing => itemReq'[hand] = itemReq[hand]
    BY <1>2, <1>3 DEF Writing
  <2> QED BY <2>1, <2>2, <2>3 DEF SysInv, OwnInv
<1>10. FifoInv'
  <2>1. \A a, b : CP!Ahead(a, b)' <=> CP!Ahead(a, b)
    BY <1>1 DEF CP!Ahead
  <2> SUFFICES ASSUME Conn!Alive, "interrupted" \notin cause', ~ failed, doneReqs = <<>>,
                      NEW k \in 1 .. Len(rtdreqs)
               PROVE  id'[itemReq'[rtdreqs[k]]] = id[itemReq[rtdreqs[k]]]
    <3>1. Conn!Alive' <=> Conn!Alive
      BY <1>1 DEF Conn!Alive
    <3>2. "interrupted" \notin cause' => "interrupted" \notin cause
      BY <1>2
    <3> QED BY <1>1, <1>2, <1>3, <2>1, <3>1, <3>2 DEF SysInv, FifoInv
  <2>2. rtdreqs[k] \in ToSet(rtdreqs)
    BY <1>0 DEF CountInv, WakeInv, ListInv, TypeInv, DevTypeOK, ToSet
  <2> QED BY <1>4, <1>7, <2>2
<1> QED BY <1>5, <1>6, <1>8, <1>9, <1>10

\* The daemon outside the device: a step of its loop, an empty poll, a
\* refused answer, a kill.
LEMMA UserKeepsInv ==
  ASSUME SysInv, DaemonGetsNothing \/ DaemonWriteRefused \/ DaemonLoop \/ DaemonKilled
  PROVE  HandlerInv' /\ EveryReadIsOwed' /\ IdInv' /\ OwnInv' /\ FifoInv' /\ (failed \in BOOLEAN)'
<1>0. CP!ConnInv /\ failed \in BOOLEAN
  BY DEF SysInv
<1>1. dpc = "user" /\ UNCHANGED <<kureq, devVars>>
  BY DEF DaemonGetsNothing, DaemonWriteRefused, DaemonLoop, DaemonKilled, WriteNotFound
<1>2. UNCHANGED <<rtdreqs, itemReq, id, hand, dpc, holds, cause>>
  BY <1>1 DEF devVars, clientVars, queueVars, daemonVars, histVars
<1>3. UNCHANGED <<sr, allReqs, doneReqs>>
  <2>1. CASE DaemonLoop
    BY <1>0, <2>1, LoopEffect DEF DaemonLoop
  <2> QED BY <2>1 DEF DaemonGetsNothing, DaemonWriteRefused, DaemonKilled,
             Conn!PollTimeout, Conn!AllocFails, Conn!SendAborts, Conn!listVars
<1>4. ~ Writing /\ ~ Writing' /\ Owing' = Owing
  BY <1>1, <1>2, <1>3 DEF Writing, Owing
<1>5. Conn!Alive' => Conn!Alive
  <2>1. CASE DaemonLoop
    <3>1. lpc \in {"done", "post", "launch"}
      BY <1>0, <2>1, LoopEffect DEF DaemonLoop
    <3> QED BY <3>1 DEF Conn!Alive
  <2> QED BY <2>1 DEF DaemonGetsNothing, DaemonWriteRefused, DaemonKilled,
             Conn!PollTimeout, Conn!AllocFails, Conn!SendAborts, Conn!Alive
<1>6. HandlerInv'
  BY <1>1, <1>2, <1>4 DEF SysInv, HandlerInv
<1>7. EveryReadIsOwed'
  BY <1>2, <1>3, <1>5 DEF SysInv, EveryReadIsOwed
<1>8. IdInv'
  <2>1. \A n : OwingIn(n)' = OwingIn(n) /\ ListedIn(n)' = ListedIn(n)
    BY <1>2, <1>3, <1>4 DEF OwingIn, ListedIn
  <2> QED BY <1>1, <1>2, <2>1 DEF SysInv, IdInv
<1>9. OwnInv'
  BY <1>2, <1>3, <1>4 DEF SysInv, OwnInv
<1>10. FifoInv'
  <2> SUFFICES ASSUME Conn!Alive', "interrupted" \notin cause, ~ failed', doneReqs = <<>>
               PROVE  /\ ~ failed
                      /\ lpc' \in {"post", "launch"} => cur' = 1
                      /\ \A a, b \in SrItems : CP!Ahead(a, b)' => Before(allReqs, a, b)
    BY <1>2, <1>3, <1>4, <1>5 DEF SysInv, FifoInv
  <2>1. CASE DaemonLoop
    <3>1. /\ ~ failed /\ ~ Conn!LaunchFails /\ ~ Conn!PostFails
      BY <1>0, <2>1 DEF DaemonLoop
    <3>2. /\ lpc \in {"done", "post", "launch"}
          /\ cur' # 1 => (lpc' = lpc /\ cur' = cur)
          /\ \A a, b : CP!Ahead(a, b)' /\ ~ CP!Skipped(b) => CP!Ahead(a, b)
      BY <1>0, <2>1, <3>1, LoopEffect DEF DaemonLoop
    <3>3. /\ lpc \in {"post", "launch"} => cur = 1
          /\ \A a, b \in SrItems : CP!Ahead(a, b) => Before(allReqs, a, b)
      BY <1>5, <3>1 DEF SysInv, FifoInv
    <3>4. \A b : ~ CP!Skipped(b)
      BY <3>2, <3>3 DEF CP!Skipped
    <3> QED BY <3>1, <3>2, <3>3, <3>4
  <2>2. CASE DaemonGetsNothing
    <3>1. /\ lpc' = "done" /\ UNCHANGED <<failed, initReqs, runningReqs, postExecReqs>>
      BY <2>2 DEF DaemonGetsNothing, Conn!PollTimeout, Conn!AllocFails, Conn!StartPass, Conn!listVars
    <3>2. \A a, b : CP!Ahead(a, b)' <=> CP!Ahead(a, b)
      BY <3>1 DEF CP!Ahead
    <3> QED BY <1>5, <3>1, <3>2 DEF SysInv, FifoInv
  <2>3. CASE DaemonWriteRefused \/ DaemonKilled
    BY <2>3 DEF DaemonWriteRefused, DaemonKilled, Conn!SendAborts, Conn!Alive
  <2> QED BY <2>1, <2>2, <2>3
<1>11. (failed \in BOOLEAN)'
  BY <1>0 DEF DaemonGetsNothing, DaemonWriteRefused, DaemonLoop, DaemonKilled
<1> QED BY <1>6, <1>7, <1>8, <1>9, <1>10, <1>11

\* qhgpu_read takes the first request off reqs.
LEMMA ReadKeepsInv ==
  ASSUME SysInv, DaemonRead
  PROVE  HandlerInv' /\ EveryReadIsOwed' /\ IdInv' /\ OwnInv' /\ FifoInv'
<1> DEFINE i == Head(reqs)
<1>0. CountInv /\ lpc = "get"
  BY DEF SysInv, DaemonRead
<1>1. /\ dpc = "user" /\ dpc' = "read" /\ hand' = i /\ reqs # <<>>
      /\ UNCHANGED <<rtdreqs, itemReq, id, holds, cause>>
      /\ kureq' = [id |-> id[itemReq[i]], item |-> i, client |-> itemReq[i]]
  BY DEF DaemonRead, ReadTake, clientVars, histVars
<1>2. /\ UNCHANGED <<sr, allReqs, initReqs, runningReqs, postExecReqs, doneReqs, lpc, cur>>
      /\ UNCHANGED failed
  BY DEF DaemonRead, connVars
<1>3. i \in Items /\ itemReq[i] \in Clients
  <2>1. i \in ToSet(reqs)
    BY <1>0, <1>1, TailDistinct DEF CountInv, WakeInv, ListInv, TypeInv, DevTypeOK, ItemConservation
  <2> QED BY <1>0, <2>1, InFlightInUse DEF InFlight, CountInv, WakeInv
<1>4. kureq' \in KuRequest /\ kureq'.item = i /\ kureq'.client = itemReq[i] /\ kureq'.id = id[itemReq[i]]
  <2>1. id[itemReq[i]] \in Slots
    BY <1>0, <1>3 DEF CountInv, WakeInv, ListInv, TypeInv, DevTypeOK
  <2> QED BY <1>1, <1>3, <2>1 DEF KuRequest
<1> HIDE DEF i
<1>5. ~ Writing /\ ~ Writing' /\ Owing' = Owing
  BY <1>1, <1>2 DEF Writing, Owing
<1>6. HandlerInv'
  BY <1>0, <1>1, <1>2, <1>4, <1>5 DEF HandlerInv
<1>7. EveryReadIsOwed'
  BY <1>1, <1>2 DEF SysInv, EveryReadIsOwed, Conn!Alive
<1>8. IdInv'
  <2>1. \A n : OwingIn(n)' = OwingIn(n) /\ ListedIn(n)' = ListedIn(n)
    BY <1>1, <1>2, <1>5 DEF OwingIn, ListedIn
  <2> QED BY <1>1, <1>4, <2>1 DEF SysInv, IdInv
<1>9. OwnInv'
  BY <1>1, <1>2, <1>5 DEF SysInv, OwnInv
<1>10. FifoInv'
  <2>1. \A a, b : CP!Ahead(a, b)' <=> CP!Ahead(a, b)
    BY <1>2 DEF CP!Ahead
  <2> QED BY <1>1, <1>2, <1>5, <2>1 DEF SysInv, FifoInv, Conn!Alive
<1> QED BY <1>6, <1>7, <1>8, <1>9, <1>10

\* The callback of a write.
LEMMA CallbackKeepsInv ==
  ASSUME SysInv, DaemonWriteCallback
  PROVE  HandlerInv' /\ EveryReadIsOwed' /\ IdInv' /\ OwnInv' /\ FifoInv'
<1>1. /\ dpc = "found" /\ dpc' = "called"
      /\ UNCHANGED <<rtdreqs, itemReq, id, hand, holds, cause>>
  BY DEF DaemonWriteCallback, WriteCallback, queueVars, histVars
<1>2. /\ UNCHANGED <<sr, allReqs, initReqs, runningReqs, postExecReqs, doneReqs, lpc, cur>>
      /\ UNCHANGED <<kureq, failed>>
  BY DEF DaemonWriteCallback, connVars
<1>3. Writing /\ Writing' /\ Owing' = Owing
  BY <1>1, <1>2 DEF Writing, Owing
<1>4. HandlerInv'
  BY <1>1, <1>2, <1>3 DEF SysInv, HandlerInv
<1>5. EveryReadIsOwed'
  BY <1>1, <1>2 DEF SysInv, EveryReadIsOwed, Conn!Alive
<1>6. IdInv'
  <2>1. \A n : OwingIn(n)' = OwingIn(n) /\ ListedIn(n)' = ListedIn(n)
    BY <1>1, <1>2, <1>3 DEF OwingIn, ListedIn
  <2> QED BY <1>1, <2>1 DEF SysInv, IdInv
<1>7. OwnInv'
  BY <1>1, <1>2, <1>3 DEF SysInv, OwnInv
<1>8. FifoInv'
  <2>1. \A a, b : CP!Ahead(a, b)' <=> CP!Ahead(a, b)
    BY <1>2 DEF CP!Ahead
  <2> QED BY <1>1, <1>2, <1>3, <2>1 DEF SysInv, FifoInv, Conn!Alive
<1> QED BY <1>4, <1>5, <1>6, <1>7, <1>8

\* While nothing failed, the first request in post_exec_reqs is the oldest
\* request the daemon has.
LEMMA FirstIsOldest ==
  ASSUME SysInv, Conn!Alive, "interrupted" \notin cause, ~ failed, doneReqs = <<>>, postExecReqs # <<>>
  PROVE  allReqs[1] = postExecReqs[1] /\ 1 \in 1 .. Len(allReqs)
<1> DEFINE e == postExecReqs[1]
           a == allReqs[1]
<1>0. /\ allReqs \in Seq(SrItems) /\ postExecReqs \in Seq(SrItems)
      /\ IsInjective(allReqs) /\ IsInjective(postExecReqs)
      /\ ToSet(allReqs) = ToSet(initReqs) \union ToSet(runningReqs)
                            \union ToSet(postExecReqs) \union ToSet(doneReqs)
      /\ ToSet(allReqs) \subseteq SrItems
      /\ e \in ToSet(postExecReqs)
  BY ConnFacts DEF SysInv
<1>1. ToSet(doneReqs) = {}
  BY DEF ToSet
<1>2. 1 \in 1 .. Len(allReqs) /\ a \in ToSet(allReqs)
  <2>1. allReqs # <<>>
    BY <1>0 DEF ToSet
  <2> QED BY <1>0, <2>1 DEF ToSet
<1>3. ASSUME a # e PROVE FALSE
  <2>1. CP!Ahead(e, a)
    <3>1. CASE a \in ToSet(postExecReqs)
      <4>1. ~ Before(postExecReqs, a, e)
        BY <1>0 DEF Before, IsInjective
      <4>2. Before(postExecReqs, e, a)
        BY <1>0, <1>3, <3>1, <4>1, BeforeOrder
      <4> QED BY <4>2, SameLists DEF CP!Ahead
    <3>2. CASE a \in ToSet(runningReqs) \union ToSet(initReqs)
      BY <1>0, <3>2, SameLists DEF CP!Ahead
    <3> QED BY <1>0, <1>1, <1>2, <3>1, <3>2
  <2>2. Before(allReqs, e, a)
    BY <1>0, <1>2, <2>1 DEF SysInv, FifoInv
  <2>3. ~ Before(allReqs, e, a)
    BY <1>0, <1>2 DEF Before, IsInjective
  <2> QED BY <2>2, <2>3
<1> QED BY <1>2, <1>3

\* qhgpu_read files the request and the daemon lists it.
LEMMA ReadReturnsKeepsInv ==
  ASSUME SysInv, DaemonReadReturns
  PROVE  HandlerInv' /\ EveryReadIsOwed' /\ IdInv' /\ OwnInv' /\ FifoInv'
<1>0. CountInv /\ CP!ConnInv
  BY DEF SysInv
<1>1. /\ dpc = "read" /\ dpc' = "user" /\ rtdreqs' = Append(rtdreqs, hand) /\ kureq' = NULL
      /\ UNCHANGED <<itemReq, id, holds, cause, failed>>
      /\ Conn!GetRequest(kureq)
  BY DEF DaemonReadReturns, ReadFile, clientVars, histVars
<1>2. kureq \in KuRequest /\ kureq.item = hand /\ kureq.client = itemReq[hand]
  BY <1>1 DEF SysInv, HandlerInv
<1>3. /\ rtdreqs \in Seq(Items) /\ IsInjective(rtdreqs)
      /\ hand \in Items /\ hand \notin ToSet(rtdreqs) /\ hand \in InFlight
      /\ itemReq[hand] \in Clients
  <2>1. hand \in InFlight
    BY <1>1 DEF InFlight
  <2> QED BY <1>0, <2>1, InFlightInUse DEF CountInv, WakeInv, ListInv, TypeInv, DevTypeOK, ItemConservation
<1>4. PICK s \in SrItems :
        /\ s \notin ToSet(allReqs)
        /\ sr' = [sr EXCEPT ![s] = kureq]
        /\ \/ UNCHANGED allReqs /\ lpc' = "exited"
           \/ /\ allReqs' = Append(allReqs, s) /\ lpc' = "done"
              /\ ToSet(allReqs') = ToSet(allReqs) \union {s}
  BY <1>0, <1>1, <1>2, GetEffect
<1>5. sr'[s] = kureq /\ \A r \in ToSet(allReqs) : sr'[r] = sr[r]
  BY <1>0, <1>4, ConnFacts
<1>6. Owing = ToSet(allReqs) /\ Owing' = ToSet(allReqs') /\ ~ Writing /\ ~ Writing'
  BY <1>1 DEF Owing, Writing
<1>7. ToSet(rtdreqs') = ToSet(rtdreqs) \union {hand}
  BY <1>1, <1>3, AppendDistinct
<1>8. HandlerInv'
  BY <1>1, <1>6 DEF HandlerInv
<1>9. EveryReadIsOwed'
  <2> SUFFICES ASSUME Conn!Alive' PROVE Len(allReqs') = Len(rtdreqs')
    BY <1>1 DEF EveryReadIsOwed
  <2>1. allReqs' = Append(allReqs, s)
    BY <1>4 DEF Conn!Alive
  <2>2. lpc = "get"
    BY <1>1 DEF SysInv, HandlerInv
  <2>3. Len(allReqs) = Len(rtdreqs)
    BY <1>1, <2>2 DEF SysInv, EveryReadIsOwed, Conn!Alive
  <2>4. allReqs \in Seq(SrItems)
    BY <1>0, ConnFacts
  <2> QED BY <1>1, <1>3, <2>1, <2>3, <2>4
<1>10. IdInv'
  <2> SUFFICES ASSUME "interrupted" \notin cause, NEW n \in Slots
               PROVE  Cardinality(OwingIn(n)') <= Cardinality(ListedIn(n)')
    BY <1>1 DEF IdInv
  <2>1. kureq.id = id[itemReq[hand]]
    BY <1>1 DEF SysInv, IdInv
  <2>2. /\ IsFiniteSet(OwingIn(n)) /\ Cardinality(OwingIn(n)) \in Nat
        /\ IsFiniteSet(ListedIn(n)) /\ Cardinality(ListedIn(n)) \in Nat
        /\ Cardinality(OwingIn(n)) <= Cardinality(ListedIn(n))
    BY OwingFinite DEF SysInv, IdInv
  <2>3. s \notin OwingIn(n) /\ hand \notin ListedIn(n)
    BY <1>3, <1>4, <1>6 DEF OwingIn, ListedIn
  <2>4. CASE kureq.id = n
    <3>1. ListedIn(n)' = ListedIn(n) \union {hand}
      BY <1>1, <1>7, <2>1, <2>4 DEF ListedIn
    <3>2. OwingIn(n)' = OwingIn(n) \/ OwingIn(n)' = OwingIn(n) \union {s}
      BY <1>4, <1>5, <1>6, <2>4 DEF OwingIn
    <3>3. Cardinality(ListedIn(n)') = Cardinality(ListedIn(n)) + 1
      BY <2>2, <2>3, <3>1, FS_AddElement
    <3>4. Cardinality(OwingIn(n) \union {s}) = Cardinality(OwingIn(n)) + 1
      BY <2>2, <2>3, FS_AddElement
    <3> QED BY <2>2, <3>2, <3>3, <3>4
  <2>5. CASE kureq.id # n
    <3>1. ListedIn(n)' = ListedIn(n)
      BY <1>1, <1>7, <2>1, <2>5 DEF ListedIn
    <3>2. OwingIn(n)' = OwingIn(n)
      BY <1>4, <1>5, <1>6, <2>5 DEF OwingIn
    <3> QED BY <2>2, <3>1, <3>2
  <2> QED BY <2>4, <2>5
<1>11. OwnInv'
  <2> SUFFICES ASSUME cause = {}, NEW r \in Owing'
               PROVE  holds[sr'[r].client] /\ id[sr'[r].client] = sr'[r].id
    BY <1>1, <1>6 DEF OwnInv
  <2>1. CASE r \in Owing
    BY <1>5, <1>6, <2>1 DEF SysInv, OwnInv
  <2>2. CASE r = s
    <3>1. kureq.id = id[itemReq[hand]] /\ holds[itemReq[hand]]
      BY <1>0, <1>1, <1>3 DEF SysInv, IdInv, CountInv, ServedSlotHeld
    <3> QED BY <1>2, <1>5, <2>2, <3>1
  <2> QED BY <1>4, <1>6, <2>1, <2>2
<1>12. FifoInv'
  <2> SUFFICES ASSUME Conn!Alive', "interrupted" \notin cause, ~ failed, doneReqs' = <<>>
               PROVE  /\ lpc' \notin {"post", "launch"}
                      /\ \A a, b \in SrItems : CP!Ahead(a, b)' => Before(allReqs', a, b)
                      /\ \A k \in 1 .. Len(rtdreqs') :
                           /\ sr'[allReqs'[k + 0]].item = rtdreqs'[k]
                           /\ sr'[allReqs'[k + 0]].id = id[itemReq[rtdreqs'[k]]]
    BY <1>1, <1>6 DEF FifoInv
  <2>0. allReqs' = Append(allReqs, s) /\ lpc' = "done"
    BY <1>4 DEF Conn!Alive
  <2>1. Conn!Alive /\ doneReqs = <<>>
    <3>1. lpc = "get" /\ (doneReqs' = <<>> => doneReqs = <<>>)
      BY <1>0, <1>1, <1>2, GetEffect
    <3> QED BY <3>1 DEF Conn!Alive
  <2>2. /\ \A a, b \in SrItems : CP!Ahead(a, b) => Before(allReqs, a, b)
        /\ \A k \in 1 .. Len(rtdreqs) :
             /\ sr[allReqs[k + 0]].item = rtdreqs[k]
             /\ sr[allReqs[k + 0]].id = id[itemReq[rtdreqs[k]]]
    BY <1>6, <2>1 DEF SysInv, FifoInv
  <2>3. \A a, b \in SrItems : CP!Ahead(a, b)' => Before(allReqs', a, b)
    BY <1>0, <1>1, <1>2, <2>2, GetEffect
  <2>4. ASSUME NEW k \in 1 .. Len(rtdreqs')
        PROVE  /\ sr'[allReqs'[k]].item = rtdreqs'[k]
               /\ sr'[allReqs'[k]].id = id[itemReq[rtdreqs'[k]]]
    <3>1. allReqs \in Seq(SrItems) /\ Len(allReqs) = Len(rtdreqs) /\ Len(rtdreqs) \in Nat
      BY <1>0, <1>1, <1>3, <2>1, ConnFacts DEF SysInv, EveryReadIsOwed
    <3>2. CASE k \in 1 .. Len(rtdreqs)
      <4>1. rtdreqs'[k] = rtdreqs[k] /\ allReqs'[k] = allReqs[k]
        BY <1>1, <1>3, <2>0, <3>1, <3>2
      <4>2. allReqs[k] \in ToSet(allReqs)
        BY <3>1, <3>2 DEF ToSet
      <4>3. sr[allReqs[k]].item = rtdreqs[k] /\ sr[allReqs[k]].id = id[itemReq[rtdreqs[k]]]
        <5>1. k + 0 = k
          OBVIOUS
        <5> QED BY <2>2, <3>2, <5>1
      <4> QED BY <1>5, <4>1, <4>2, <4>3
    <3>3. CASE k = Len(rtdreqs) + 1
      <4>1. rtdreqs'[k] = hand /\ allReqs'[k] = s
        BY <1>1, <1>3, <2>0, <3>1, <3>3
      <4>2. kureq.id = id[itemReq[hand]]
        BY <1>1 DEF SysInv, IdInv
      <4> QED BY <1>2, <1>5, <4>1, <4>2
    <3> QED BY <1>1, <1>3, <3>1, <3>2, <3>3
  <2>5. \A k \in 1 .. Len(rtdreqs') : k + 0 = k
    BY <1>1, <1>3
  <2> QED BY <2>0, <2>3, <2>4, <2>5
<1> QED BY <1>8, <1>9, <1>10, <1>11, <1>12

\* qhgpu_write finds a request for the daemon's answer.
LEMMA WriteKeepsInv ==
  ASSUME SysInv, DaemonWrite
  PROVE  HandlerInv' /\ EveryReadIsOwed' /\ IdInv' /\ OwnInv' /\ FifoInv'
<1> DEFINE e == postExecReqs[1]
<1>0. CountInv /\ CP!ConnInv /\ Conn!InPass("done", postExecReqs)
  BY DEF SysInv, DaemonWrite
<1>1. /\ dpc = "user" /\ dpc' = "found"
      /\ UNCHANGED <<itemReq, id, holds, cause>>
      /\ UNCHANGED <<sr, allReqs, initReqs, runningReqs, postExecReqs, doneReqs, lpc, cur>>
      /\ UNCHANGED <<kureq, failed>>
  BY DEF DaemonWrite, WriteFound, clientVars, histVars, connVars
<1>2. /\ lpc = "done" /\ postExecReqs # <<>> /\ Answering = sr[e]
      /\ sr[e] \in KuRequest /\ sr[e].id \in Slots /\ sr[e].client \in Clients
      /\ e \in ToSet(postExecReqs) /\ e \in ToSet(allReqs)
  <2>1. e \in ToSet(postExecReqs) /\ e \in ToSet(allReqs)
    BY <1>0, AnsweringType, ConnFacts
  <2> QED BY <1>0, <2>1, AnsweringType DEF Conn!InPass, KuRequest
<1>3. PICK k \in 1 .. Len(rtdreqs) :
        /\ Matches(rtdreqs[k], sr[e].id)
        /\ \A j \in 1 .. k - 1 : ~ Matches(rtdreqs[j], sr[e].id)
        /\ hand' = rtdreqs[k]
        /\ rtdreqs' = RemoveAt(rtdreqs, k)
  BY <1>2 DEF DaemonWrite, WriteFound, FindRequest
<1>4. rtdreqs \in Seq(Items) /\ IsInjective(rtdreqs) /\ Len(rtdreqs) \in Nat
  BY <1>0 DEF CountInv, WakeInv, ListInv, TypeInv, DevTypeOK, ItemConservation
<1>5. /\ hand' \in ToSet(rtdreqs) /\ ToSet(rtdreqs') = ToSet(rtdreqs) \ {hand'}
      /\ Len(rtdreqs') = Len(rtdreqs) - 1
  BY <1>3, <1>4, RemoveAtDistinct, RemoveAtElements
<1>6. hand' \in InFlight /\ itemReq[hand'] \in Clients /\ id[itemReq[hand']] = sr[e].id
  <2>1. hand' \in InFlight
    BY <1>5 DEF InFlight
  <2> QED BY <1>0, <1>3, <2>1, InFlightInUse DEF Matches, CountInv, WakeInv
<1> HIDE DEF e
<1>7. /\ ~ Writing /\ Writing'
      /\ Owing = ToSet(allReqs) /\ Owing' = ToSet(allReqs) \ {e}
  BY <1>1 DEF Writing, Owing, e
<1>8. HandlerInv'
  BY <1>1, <1>2 DEF SysInv, HandlerInv, Writing
<1>9. EveryReadIsOwed'
  BY <1>1, <1>4, <1>5 DEF SysInv, EveryReadIsOwed, Conn!Alive
<1>10. IdInv'
  <2> SUFFICES ASSUME "interrupted" \notin cause, NEW n \in Slots
               PROVE  Cardinality(OwingIn(n)') <= Cardinality(ListedIn(n)')
    BY <1>1 DEF IdInv
  <2>1. /\ IsFiniteSet(OwingIn(n)) /\ Cardinality(OwingIn(n)) \in Nat
        /\ IsFiniteSet(ListedIn(n)) /\ Cardinality(ListedIn(n)) \in Nat
        /\ Cardinality(OwingIn(n)) <= Cardinality(ListedIn(n))
    BY OwingFinite DEF SysInv, IdInv
  <2>2. OwingIn(n)' = OwingIn(n) \ {e} /\ ListedIn(n)' = ListedIn(n) \ {hand'}
    BY <1>1, <1>5, <1>7 DEF OwingIn, ListedIn
  <2>3. CASE sr[e].id = n
    <3>1. e \in OwingIn(n) /\ hand' \in ListedIn(n)
      BY <1>2, <1>5, <1>6, <1>7, <2>3 DEF OwingIn, ListedIn
    <3>2. /\ Cardinality(OwingIn(n)') = Cardinality(OwingIn(n)) - 1
          /\ Cardinality(ListedIn(n)') = Cardinality(ListedIn(n)) - 1
      BY <2>1, <2>2, <3>1, FS_RemoveElement
    <3> QED BY <2>1, <3>2
  <2>4. CASE sr[e].id # n
    <3>1. e \notin OwingIn(n) /\ hand' \notin ListedIn(n)
      BY <1>6, <2>4 DEF OwingIn, ListedIn
    <3>2. OwingIn(n)' = OwingIn(n) /\ ListedIn(n)' = ListedIn(n)
      BY <2>2, <3>1
    <3> QED BY <2>1, <3>2
  <2> QED BY <2>3, <2>4
<1>11. OwnInv'
  <2> SUFFICES ASSUME cause = {}
               PROVE  /\ \A s \in Owing' : holds[sr[s].client] /\ id[sr[s].client] = sr[s].id
                      /\ itemReq[hand'] = sr[e].client
    BY <1>1, <1>7 DEF OwnInv, e
  <2>1. \A s \in Owing : holds[sr[s].client] /\ id[sr[s].client] = sr[s].id
    BY DEF SysInv, OwnInv
  <2>2. holds[sr[e].client] /\ id[sr[e].client] = sr[e].id
    BY <1>2, <1>7, <2>1
  <2>3. holds[itemReq[hand']]
    BY <1>0, <1>6 DEF CountInv, ServedSlotHeld
  <2>4. itemReq[hand'] = sr[e].client
    BY <1>0, <1>2, <1>6, <2>2, <2>3 DEF CountInv, SlotInv, Owned
  <2> QED BY <1>7, <2>1, <2>4
<1>12. FifoInv'
  <2> SUFFICES ASSUME Conn!Alive, "interrupted" \notin cause, ~ failed, doneReqs = <<>>
               PROVE  /\ hand' = sr[allReqs[1]].item
                      /\ \A j \in 1 .. Len(rtdreqs') :
                           /\ sr[allReqs[j + 1]].item = rtdreqs'[j]
                           /\ sr[allReqs[j + 1]].id = id[itemReq[rtdreqs'[j]]]
    <3>1. \A a, b : CP!Ahead(a, b)' <=> CP!Ahead(a, b)
      BY <1>1 DEF CP!Ahead
    <3>2. Conn!Alive' <=> Conn!Alive
      BY <1>1 DEF Conn!Alive
    <3> QED BY <1>1, <1>7, <3>1, <3>2 DEF SysInv, FifoInv
  <2>1. \A j \in 1 .. Len(rtdreqs) :
          sr[allReqs[j]].item = rtdreqs[j] /\ sr[allReqs[j]].id = id[itemReq[rtdreqs[j]]]
    <3>1. \A j \in 1 .. Len(rtdreqs) :
            sr[allReqs[j + 0]].item = rtdreqs[j] /\ sr[allReqs[j + 0]].id = id[itemReq[rtdreqs[j]]]
      BY <1>7 DEF SysInv, FifoInv
    <3>2. \A j \in 1 .. Len(rtdreqs) : j + 0 = j
      BY <1>4
    <3> QED BY <3>1, <3>2
  <2>2. allReqs[1] = e
    BY <1>2, FirstIsOldest DEF e
  <2>3. k = 1
    <3>1. 1 \in 1 .. Len(rtdreqs)
      BY <1>3, <1>4
    <3>2. rtdreqs[1] \in InFlight
      BY <1>4, <3>1 DEF InFlight, ToSet
    <3>3. itemReq[rtdreqs[1]] \in Clients
      BY <1>0, <3>2, InFlightInUse DEF CountInv, WakeInv
    <3>4. Matches(rtdreqs[1], sr[e].id)
      BY <2>1, <2>2, <3>1, <3>3, DeviceAssumption DEF Matches
    <3> QED BY <1>3, <1>4, <3>4
  <2>4. ASSUME NEW j \in 1 .. Len(rtdreqs')
        PROVE  j + 1 \in 1 .. Len(rtdreqs) /\ rtdreqs'[j] = rtdreqs[j + 1]
    <3>1. j \in 1 .. Len(rtdreqs) - 1 /\ ~ (j < k) /\ j + 1 \in 1 .. Len(rtdreqs)
      BY <1>4, <1>5, <2>3
    <3>2. \A m \in 1 .. Len(rtdreqs) - 1 : rtdreqs'[m] = IF m < k THEN rtdreqs[m] ELSE rtdreqs[m + 1]
      BY <1>3, <1>4, RemoveAtElements
    <3> QED BY <3>1, <3>2
  <2>5. hand' = sr[allReqs[1]].item
    BY <1>3, <1>4, <2>1, <2>3
  <2> QED BY <2>1, <2>4, <2>5
<1> QED BY <1>8, <1>9, <1>10, <1>11, <1>12

\* The item and the service request are freed.
LEMMA WriteReturnsKeepsInv ==
  ASSUME SysInv, DaemonWriteReturns
  PROVE  HandlerInv' /\ EveryReadIsOwed' /\ IdInv' /\ OwnInv' /\ FifoInv'
<1> DEFINE e == postExecReqs[1]
<1>0. CountInv /\ CP!ConnInv /\ Conn!ServiceDone
  BY DEF SysInv, DaemonWriteReturns
<1>1. /\ dpc = "called" /\ dpc' = "user" /\ itemReq' = [itemReq EXCEPT ![hand] = NULL]
      /\ UNCHANGED <<rtdreqs, id, holds, cause, kureq, failed>>
  BY DEF DaemonWriteReturns, WriteFinish, clientVars, histVars
<1>2. /\ postExecReqs # <<>>
      /\ ToSet(allReqs') = ToSet(allReqs) \ {e}
      /\ Len(allReqs') = Len(allReqs) - 1
      /\ \E k \in 1 .. Len(allReqs) : allReqs[k] = e /\ allReqs' = RemoveAt(allReqs, k)
      /\ sr' = [sr EXCEPT ![e] = NULL]
      /\ UNCHANGED <<initReqs, runningReqs, doneReqs, lpc, cur>>
      /\ \A a, b : CP!Ahead(a, b)' =>
           CP!Ahead(a, b) /\ (Before(allReqs, a, b) => Before(allReqs', a, b))
  BY <1>0, DoneEffect
<1>3. /\ rtdreqs \in Seq(Items) /\ Len(rtdreqs) \in Nat
      /\ \A i \in ToSet(rtdreqs) : itemReq'[i] = itemReq[i]
  <2>1. hand \notin ToSet(rtdreqs) /\ ToSet(rtdreqs) \subseteq Items
    BY <1>0 DEF CountInv, WakeInv, ListInv, TypeInv, DevTypeOK, ItemConservation, ToSet
  <2> QED BY <1>0, <1>1, <2>1 DEF CountInv, WakeInv, ListInv, TypeInv, DevTypeOK
<1>4. /\ allReqs \in Seq(SrItems) /\ IsInjective(allReqs) /\ Len(allReqs) \in Nat
      /\ ToSet(allReqs) \subseteq SrItems /\ sr \in [SrItems -> KuRequest \union {NULL}]
      /\ lpc = "done" /\ lpc' = "done"
  <2>1. lpc = "done"
    BY <1>0 DEF Conn!ServiceDone, Conn!InPass
  <2> QED BY <1>0, <1>2, <2>1, ConnFacts
<1>5. Writing /\ ~ Writing' /\ Owing' = Owing /\ \A s \in Owing : sr'[s] = sr[s]
  BY <1>1, <1>2, <1>4 DEF Writing, Owing
<1>6. HandlerInv'
  BY <1>1, <1>5 DEF SysInv, HandlerInv
<1>7. EveryReadIsOwed'
  BY <1>1, <1>2, <1>3, <1>4 DEF SysInv, EveryReadIsOwed, Conn!Alive
<1>8. IdInv'
  <2>1. \A n : OwingIn(n)' = OwingIn(n) /\ ListedIn(n)' = ListedIn(n)
    BY <1>1, <1>3, <1>5 DEF OwingIn, ListedIn
  <2> QED BY <1>1, <2>1 DEF SysInv, IdInv
<1>9. OwnInv'
  BY <1>1, <1>5 DEF SysInv, OwnInv
<1>10. FifoInv'
  <2> SUFFICES ASSUME Conn!Alive, "interrupted" \notin cause, ~ failed, doneReqs = <<>>
               PROVE  /\ \A a, b \in SrItems : CP!Ahead(a, b)' => Before(allReqs', a, b)
                      /\ \A j \in 1 .. Len(rtdreqs) :
                           /\ sr'[allReqs'[j + 0]].item = rtdreqs[j]
                           /\ sr'[allReqs'[j + 0]].id = id[itemReq'[rtdreqs[j]]]
    <3>1. Conn!Alive' <=> Conn!Alive
      BY <1>2 DEF Conn!Alive
    <3> QED BY <1>1, <1>2, <1>4, <1>5, <3>1 DEF FifoInv
  <2>1. /\ \A a, b \in SrItems : CP!Ahead(a, b) => Before(allReqs, a, b)
        /\ \A j \in 1 .. Len(rtdreqs) :
             sr[allReqs[j + 1]].item = rtdreqs[j] /\ sr[allReqs[j + 1]].id = id[itemReq[rtdreqs[j]]]
    BY <1>5 DEF SysInv, FifoInv
  <2>2. \A a, b \in SrItems : CP!Ahead(a, b)' => Before(allReqs', a, b)
    BY <1>2, <2>1
  <2>3. allReqs[1] = e /\ 1 \in 1 .. Len(allReqs)
    BY <1>2, FirstIsOldest
  <2>4. allReqs' = RemoveAt(allReqs, 1)
    BY <1>2, <1>4, <2>3 DEF IsInjective
  <2>5. Len(allReqs) = Len(rtdreqs) + 1
    BY <1>1 DEF SysInv, EveryReadIsOwed
  <2>6. ASSUME NEW j \in 1 .. Len(rtdreqs)
        PROVE  /\ sr'[allReqs'[j + 0]].item = rtdreqs[j]
               /\ sr'[allReqs'[j + 0]].id = id[itemReq'[rtdreqs[j]]]
    <3>1. j + 0 = j /\ j \in 1 .. Len(allReqs) - 1 /\ ~ (j < 1) /\ j + 1 \in 1 .. Len(allReqs) /\ j + 1 # 1
      BY <1>3, <2>5
    <3>2. allReqs'[j] = allReqs[j + 1]
      <4>1. \A m \in 1 .. Len(allReqs) - 1 :
              RemoveAt(allReqs, 1)[m] = IF m < 1 THEN allReqs[m] ELSE allReqs[m + 1]
        BY <1>4, <2>3, RemoveAtElements
      <4> QED BY <2>4, <3>1, <4>1
    <3>3. allReqs[j + 1] \in SrItems /\ allReqs[j + 1] # e
      BY <1>4, <2>3, <3>1 DEF IsInjective
    <3>4. sr'[allReqs[j + 1]] = sr[allReqs[j + 1]]
      BY <1>2, <1>4, <3>3
    <3>5. rtdreqs[j] \in ToSet(rtdreqs)
      BY <1>3 DEF ToSet
    <3> QED BY <1>3, <2>1, <3>1, <3>2, <3>4, <3>5
  <2> QED BY <2>2, <2>6
<1> QED BY <1>6, <1>7, <1>8, <1>9, <1>10

LEMMA SysInvStep == SysInv /\ [SysNext]_sysVars => SysInv'
<1> SUFFICES ASSUME SysInv, [SysNext]_sysVars PROVE SysInv'
  OBVIOUS
<1>1. CountInv' /\ CP!ConnInv'
  BY DeviceStep, ConnStep, CountStep DEF SysInv
<1>2. CASE UNCHANGED sysVars
  <2>1. /\ UNCHANGED <<rtdreqs, itemReq, id, hand, dpc, holds, cause>>
        /\ UNCHANGED <<sr, allReqs, initReqs, runningReqs, postExecReqs, doneReqs, lpc, cur, kureq, failed>>
    BY <1>2 DEF sysVars, connVars, devVars, clientVars, queueVars, daemonVars, histVars
  <2>2. /\ Owing' = Owing /\ Writing' = Writing
        /\ \A n : OwingIn(n)' = OwingIn(n) /\ ListedIn(n)' = ListedIn(n)
        /\ \A a, b : CP!Ahead(a, b)' <=> CP!Ahead(a, b)
    BY <2>1 DEF Owing, Writing, OwingIn, ListedIn, CP!Ahead
  <2>3. HandlerInv' /\ EveryReadIsOwed' /\ IdInv' /\ OwnInv'
    BY <2>1, <2>2 DEF SysInv, HandlerInv, EveryReadIsOwed, IdInv, OwnInv, Conn!Alive
  <2>4. FifoInv'
    BY <2>1, <2>2 DEF SysInv, FifoInv, Conn!Alive
  <2> QED BY <1>1, <2>1, <2>3, <2>4 DEF SysInv
<1>3. CASE SysNext
  <2>1. CASE DaemonGetsNothing \/ DaemonWriteRefused \/ DaemonLoop \/ DaemonKilled
    BY <1>1, <2>1, UserKeepsInv DEF SysInv
  <2>2. CASE \/ DaemonRead \/ DaemonReadReturns \/ DaemonWrite \/ DaemonWriteCallback
             \/ DaemonWriteReturns \/ \E c \in Clients : Client(c)
    <3>1. (failed \in BOOLEAN)'
      BY <2>2 DEF SysInv, DaemonRead, DaemonReadReturns, DaemonWrite, DaemonWriteCallback,
                  DaemonWriteReturns, Client
    <3> QED BY <1>1, <2>2, <3>1, ReadKeepsInv, ReadReturnsKeepsInv, WriteKeepsInv, CallbackKeepsInv,
               WriteReturnsKeepsInv, ClientKeepsInv DEF SysInv
  <2> QED BY <1>3, <2>1, <2>2 DEF SysNext, Daemon
<1> QED BY <1>2, <1>3

-----------------------------------------------------------------------------
(* What the invariant gives                                                *)

LEMMA SysInvTypes == SysInv => SysTypeOK
<1> SUFFICES ASSUME SysInv PROVE SysTypeOK
  OBVIOUS
<1>1. DevTypeOK
  BY DEF SysInv, CountInv, WakeInv, ListInv, TypeInv
<1>2. Conn!ConnTypeOK
  BY DEF SysInv, CP!ConnInv, CP!ConnTypeOK, Conn!ConnTypeOK
<1>3. kureq \in KuRequest \union {NULL}
  BY DEF SysInv, HandlerInv
<1> QED BY <1>1, <1>2, <1>3 DEF SysInv, SysTypeOK

\* The slot of the due answer has as many items as the daemon owes answers,
\* so at least one.
LEMMA SysInvFinds == SysInv => AnswerFindsRequest
<1> SUFFICES ASSUME SysInv, Conn!InPass("done", postExecReqs), dpc = "user", "interrupted" \notin cause
             PROVE  \E k \in 1 .. Len(rtdreqs) : Matches(rtdreqs[k], Answering.id)
  BY DEF AnswerFindsRequest
<1> DEFINE e == postExecReqs[1]
           n == Answering.id
<1>1. n \in Slots /\ n = sr[e].id /\ e \in Owing
  <2>1. n \in Slots /\ n = sr[e].id /\ postExecReqs # <<>>
    BY AnsweringType DEF SysInv
  <2> QED BY <2>1, ConnFacts DEF SysInv, Owing, Writing
<1>2. /\ IsFiniteSet(OwingIn(n)) /\ Cardinality(OwingIn(n)) \in Nat
      /\ IsFiniteSet(ListedIn(n)) /\ Cardinality(ListedIn(n)) \in Nat
  BY OwingFinite
<1>3. Cardinality(OwingIn(n)) <= Cardinality(ListedIn(n))
  BY <1>1 DEF SysInv, IdInv
<1>4. e \in OwingIn(n)
  BY <1>1 DEF OwingIn
<1> HIDE DEF n
<1>5. ListedIn(n) # {}
  <2>1. Cardinality(OwingIn(n)) # 0
    BY <1>2, <1>4, FS_EmptySet
  <2>2. Cardinality(ListedIn(n)) # 0
    BY <1>2, <1>3, <2>1
  <2> QED BY <2>2, FS_EmptySet
<1>6. PICK i \in ToSet(rtdreqs) : id[itemReq[i]] = n
  BY <1>5 DEF ListedIn
<1>7. itemReq[i] \in Clients
  BY InFlightInUse DEF InFlight, SysInv, CountInv, WakeInv
<1>8. PICK k \in 1 .. Len(rtdreqs) : rtdreqs[k] = i
  BY DEF ToSet, SysInv, CountInv, WakeInv, ListInv, TypeInv, DevTypeOK
<1> QED BY <1>6, <1>7, <1>8, DeviceAssumption DEF Matches, n

LEMMA SysInvClient == SysInv => AnswerReachesItsClient
<1> SUFFICES ASSUME SysInv, Writing, cause = {} PROVE itemReq[hand] = Answering.client
  BY DEF AnswerReachesItsClient, Writing
<1>1. cur = 1
  BY ConnFacts DEF SysInv, HandlerInv
<1> QED BY <1>1 DEF SysInv, OwnInv, Answering

LEMMA SysInvItem == SysInv => AnswerReachesItsItem
<1> SUFFICES ASSUME SysInv, Writing, "interrupted" \notin cause, ~ failed, doneReqs = <<>>
             PROVE  hand = Answering.item
  BY DEF AnswerReachesItsItem, Writing
<1>1. lpc = "done" /\ postExecReqs # <<>>
  BY DEF SysInv, HandlerInv
<1>2. cur = 1
  BY <1>1, ConnFacts DEF SysInv
<1>3. Conn!Alive
  BY <1>1 DEF Conn!Alive
<1>4. allReqs[1] = postExecReqs[1]
  BY <1>1, <1>3, FirstIsOldest
<1> QED BY <1>2, <1>3, <1>4 DEF SysInv, FifoInv, Answering

LEMMA SysInvOwnSlot == SysInv => ServiceRunsInOwnSlot
<1> SUFFICES ASSUME SysInv, cause = {}, NEW s \in ToSet(initReqs) \union ToSet(runningReqs)
             PROVE  holds[sr[s].client] /\ id[sr[s].client] = sr[s].id
  BY DEF ServiceRunsInOwnSlot
<1>1. s \in Owing
  BY ConnFacts DEF SysInv, HandlerInv, Owing
<1> QED BY <1>1 DEF SysInv, OwnInv

\* The variables of the device and of the daemon keep their types together.
THEOREM SysTypeCorrect == SysSpec => []SysTypeOK
BY SysInvInit, SysInvStep, SysInvTypes, PTL DEF SysSpec

\* A daemon that lives owes exactly one answer for every request the device
\* has filed for it in qhgpu_read, for any clients, slots and services.
THEOREM ReadsOwed == SysSpec => []EveryReadIsOwed
<1>1. SysInv => EveryReadIsOwed
  BY DEF SysInv
<1> QED BY <1>1, SysInvInit, SysInvStep, PTL DEF SysSpec

\* Unless a signal ended a wait, find_request finds a request for every
\* answer, even when several clients share a slot.
THEOREM AnswersFindRequests == SysSpec => []AnswerFindsRequest
BY SysInvInit, SysInvStep, SysInvFinds, PTL DEF SysSpec

\* While no slot ownership was lost, the client whose callback qhgpu_write
\* runs is the one whose request the daemon executed, in whatever order the
\* services complete.
THEOREM AnswersReachClients == SysSpec => []AnswerReachesItsClient
BY SysInvInit, SysInvStep, SysInvClient, PTL DEF SysSpec

\* With services that work, an answer completes the executed request itself,
\* even when requests share an id.
THEOREM AnswersReachItems == SysSpec => []AnswerReachesItsItem
BY SysInvInit, SysInvStep, SysInvItem, PTL DEF SysSpec

\* While no slot ownership was lost, launch and post run in a slot that the
\* request's client owns.
THEOREM ServicesInOwnSlots == SysSpec => []ServiceRunsInOwnSlot
BY SysInvInit, SysInvStep, SysInvOwnSlot, PTL DEF SysSpec

\* The device under the real daemon is the device under a daemon that reads
\* and answers in any order: qc_main_loop only uses the handlers as QhgpuDevice
\* allows.
THEOREM SystemImplementsDevice == SysSpec => DevSpec
<1>1. SysInit => DevInit
  BY DEF SysInit
<1> QED BY <1>1, SysInvInit, SysInvStep, DeviceStep, PTL DEF SysSpec, DevSpec

\* So what holds of the device under any daemon holds under this one: its
\* lists conserve the items, no wake-up is lost, answers are counted exactly,
\* and slots, loaders and served requests belong to their owners.
THEOREM DeviceGuarantees ==
  SysSpec => /\ []ItemConservation
             /\ []NoLostWakeup
             /\ []CompletionExact
             /\ []SlotExclusive
             /\ []ServedSlotHeld
             /\ []LoaderIsCallers
BY SystemImplementsDevice, ItemsConserved, WakeupNeverLost, AnswersCountedExactly, SlotsExclusive,
   ServedSlotsHeld, LoadersAreCallers, PTL
=============================================================================
