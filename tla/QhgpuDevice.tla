----------------------------- MODULE QhgpuDevice -----------------------------
(***************************************************************************)
(* The request side of the kernel device /dev/qhgpu (qhgpu/main.c): the    *)
(* table of mmap slots, the two request lists, the synchronous and         *)
(* asynchronous calls that kernel clients make, and the read and write     *)
(* handlers through which the single user-space daemon serves them.        *)
(*                                                                         *)
(* Kernel clients run concurrently with each other and with the daemon;    *)
(* the daemon has one thread, so at most one handler call is in progress.  *)
(* Every client owns one qhgpu_request object and sets its callback before *)
(* the first call, as every module under test_module/ does.                *)
(*                                                                         *)
(* Left out: the contents of the slots, errcode (the daemon only ever      *)
(* answers 0 and qhgpu_call_sync returns 0 whatever it is), and the        *)
(* QHGPU_TERMINATED tests (no code sets that state).  A failed             *)
(* kmem_cache_alloc returns -ENOMEM before any of this state changes.      *)
(***************************************************************************)
EXTENDS Integers, SequencesExt

CONSTANTS
  Clients,    \* kernel threads, each with one qhgpu_request
  Items,      \* the objects of qhgpu_request_item_cache
  ModuleCnt,  \* module_cnt, the number of mmap slots
  NULL        \* the null pointer

ASSUME DeviceAssumption ==
  /\ ModuleCnt \in Nat \ {0}
  /\ NULL \notin Clients
  /\ NULL \notin Items

Slots == 0 .. ModuleCnt - 1

VARIABLES
  checker,    \* module_active_checker: slot -> 0 (free) or 1 (any nonzero int)
  moduleArr,  \* module_arr: slot -> the client whose batch functions it points to
  reqs,       \* qhgpudev.reqs, the requests no read has returned yet
  rtdreqs,    \* qhgpudev.rtdreqs, the requests the daemon has and must answer
  itemReq,    \* item->r: the client whose request an item carries, NULL when free
  id,         \* req->id, the slot of a client's request
  callback,   \* req->callback: sync_callback or the client's own
  done,       \* data->done of the sync call a client is in
  pend,       \* async calls of a client its own callback has not counted yet
  scan,       \* i in qhgpu_mmap_id
  pc,         \* where a client is
  hand,       \* the item a handler has taken off a list
  dpc,        \* where the daemon is: user space or inside a handler
  holds,      \* history: the client owns the slot its request names
  cause       \* history: the windows through which ownership may have been lost

clientVars == <<id, callback, done, pend, scan, pc>>
slotVars   == <<checker, moduleArr>>
queueVars  == <<reqs, rtdreqs, itemReq>>
daemonVars == <<hand, dpc>>
histVars   == <<holds, cause>>
devVars    == <<clientVars, slotVars, queueVars, daemonVars, histVars>>

Causes == {"fallback", "race", "unheld", "interrupted"}

DevTypeOK ==
  /\ checker   \in [Slots -> {0, 1}]
  /\ moduleArr \in [Slots -> Clients \union {NULL}]
  /\ reqs      \in Seq(Items)
  /\ rtdreqs   \in Seq(Items)
  /\ itemReq   \in [Items -> Clients \union {NULL}]
  /\ id        \in [Clients -> Slots]
  /\ callback  \in [Clients -> {"own", "sync"}]
  /\ done      \in [Clients -> BOOLEAN]
  /\ pend      \in [Clients -> Nat]
  /\ scan      \in [Clients -> 0 .. ModuleCnt]
  /\ pc        \in [Clients -> {"idle", "scan", "claim", "ready", "wait"}]
  /\ hand      \in Items \union {NULL}
  /\ dpc       \in {"user", "read", "found", "called"}
  /\ holds     \in [Clients -> BOOLEAN]
  /\ cause     \in SUBSET Causes

\* QHGPU_IOC_SET_MMAP has run.  It takes module_active_checker and module_arr
\* from vmalloc and never clears them: a slot may look busy from the start.
DevInit ==
  /\ checker   \in [Slots -> {0, 1}]
  /\ moduleArr = [s \in Slots |-> NULL]
  /\ reqs      = <<>>
  /\ rtdreqs   = <<>>
  /\ itemReq   = [i \in Items |-> NULL]
  /\ id        = [c \in Clients |-> 0]
  /\ callback  = [c \in Clients |-> "own"]
  /\ done      = [c \in Clients |-> FALSE]
  /\ pend      = [c \in Clients |-> 0]
  /\ scan      = [c \in Clients |-> 0]
  /\ pc        = [c \in Clients |-> "idle"]
  /\ hand      = NULL
  /\ dpc       = "user"
  /\ holds     = [c \in Clients |-> FALSE]
  /\ cause     = {}

-----------------------------------------------------------------------------
(* qhgpu_alloc_request and the slot table                                  *)

\* qhgpu_alloc_request up to the scan of qhgpu_mmap_id.
AllocRequest(c) ==
  /\ pc[c] = "idle"
  /\ pc' = [pc EXCEPT ![c] = "scan"]
  /\ scan' = [scan EXCEPT ![c] = 0]
  /\ UNCHANGED <<id, callback, done, pend, slotVars, queueVars, daemonVars, histVars>>

\* One iteration of qhgpu_mmap_id's loop: the test of one slot.  No lock is
\* held, so other clients run between the test and the assignment.
MmapIdTest(c) ==
  /\ pc[c] = "scan"
  /\ scan[c] < ModuleCnt
  /\ IF checker[scan[c]] = 0
       THEN pc' = [pc EXCEPT ![c] = "claim"] /\ UNCHANGED scan
       ELSE scan' = [scan EXCEPT ![c] = @ + 1] /\ UNCHANGED pc
  /\ UNCHANGED <<id, callback, done, pend, slotVars, queueVars, daemonVars, histVars>>

\* Mutant: the slot is returned to the caller but not marked.
MmapIdClaimUnmarked(c) ==
  /\ pc[c] = "claim"
  /\ id' = [id EXCEPT ![c] = scan[c]]
  /\ pc' = [pc EXCEPT ![c] = "ready"]
  /\ holds' = [holds EXCEPT ![c] = TRUE]
  /\ scan' = [scan EXCEPT ![c] = 0]
  /\ UNCHANGED <<slotVars, callback, done, pend, queueVars, daemonVars, cause>>

\* module_active_checker[i] = 1; return i.
MmapIdClaim(c) ==
  /\ pc[c] = "claim"
  /\ checker' = [checker EXCEPT ![scan[c]] = 1]
  /\ id' = [id EXCEPT ![c] = scan[c]]
  /\ pc' = [pc EXCEPT ![c] = "ready"]
  /\ holds' = [holds EXCEPT ![c] = TRUE]
  /\ scan' = [scan EXCEPT ![c] = 0]
  /\ cause' = IF checker[scan[c]] = 0 THEN cause ELSE cause \union {"race"}
  /\ UNCHANGED <<moduleArr, callback, done, pend, queueVars, daemonVars>>

\* Mutant: the loop variable is returned when the loop runs out.
MmapIdFallbackPastEnd(c) ==
  /\ pc[c] = "scan"
  /\ scan[c] = ModuleCnt
  /\ id' = [id EXCEPT ![c] = scan[c]]
  /\ pc' = [pc EXCEPT ![c] = "ready"]
  /\ holds' = [holds EXCEPT ![c] = TRUE]
  /\ scan' = [scan EXCEPT ![c] = 0]
  /\ cause' = cause \union {"fallback"}
  /\ UNCHANGED <<callback, done, pend, slotVars, queueVars, daemonVars>>

\* No slot is free: qhgpu_mmap_id returns 0, which is also a valid slot.
MmapIdFallback(c) ==
  /\ pc[c] = "scan"
  /\ scan[c] = ModuleCnt
  /\ id' = [id EXCEPT ![c] = 0]
  /\ pc' = [pc EXCEPT ![c] = "ready"]
  /\ holds' = [holds EXCEPT ![c] = TRUE]
  /\ scan' = [scan EXCEPT ![c] = 0]
  /\ cause' = cause \union {"fallback"}
  /\ UNCHANGED <<callback, done, pend, slotVars, queueVars, daemonVars>>

\* qhgpu_return_mmap(req->id): the slot is free whoever holds it.
GiveBack(c) ==
  /\ checker' = [checker EXCEPT ![id[c]] = 0]
  /\ holds' = [holds EXCEPT ![c] = FALSE]
  /\ UNCHANGED moduleArr

\* A client calls qhgpu_return_mmap itself, as batch_test_module does after
\* qhgpu_call_sync has already returned the slot.
ReturnMmap(c) ==
  /\ pc[c] = "ready"
  /\ pend[c] = 0
  /\ GiveBack(c)
  /\ cause' = IF holds[c] THEN cause ELSE cause \union {"unheld"}
  /\ UNCHANGED <<clientVars, queueVars, daemonVars>>

\* qhgpu_free_request.  The slot is not returned.
FreeRequest(c) ==
  /\ pc[c] = "ready"
  /\ pend[c] = 0
  /\ pc' = [pc EXCEPT ![c] = "idle"]
  /\ holds' = [holds EXCEPT ![c] = FALSE]
  /\ UNCHANGED <<id, callback, done, pend, scan, cause, slotVars, queueVars, daemonVars>>

-----------------------------------------------------------------------------
(* Calls                                                                   *)

\* An item is allocated for the request and appended to reqs under reqlock.
Enqueue(c) ==
  \E i \in Items :
    /\ itemReq[i] = NULL
    /\ itemReq' = [itemReq EXCEPT ![i] = c]
    /\ reqs' = Append(reqs, i)

\* A call on a request whose slot has been returned uses a slot that may
\* belong to another client by now.
CallCause(c) == IF holds[c] THEN {} ELSE {"unheld"}

\* Mutant: qhgpu_call_sync does not install sync_callback.
CallSyncOwnCallback(c) ==
  /\ pc[c] = "ready"
  /\ pend[c] = 0
  /\ Enqueue(c)
  /\ done' = [done EXCEPT ![c] = FALSE]
  /\ moduleArr' = [moduleArr EXCEPT ![id[c]] = c]
  /\ pc' = [pc EXCEPT ![c] = "wait"]
  /\ cause' = cause \union CallCause(c)
  /\ UNCHANGED <<id, callback, pend, scan, checker, rtdreqs, daemonVars, holds>>

\* Mutant: qhgpu_call_sync does not register its batch functions.
CallSyncNoLoader(c) ==
  /\ pc[c] = "ready"
  /\ pend[c] = 0
  /\ Enqueue(c)
  /\ callback' = [callback EXCEPT ![c] = "sync"]
  /\ done' = [done EXCEPT ![c] = FALSE]
  /\ pc' = [pc EXCEPT ![c] = "wait"]
  /\ cause' = cause \union CallCause(c)
  /\ UNCHANGED <<id, pend, scan, slotVars, rtdreqs, daemonVars, holds>>

\* qhgpu_call_sync up to its wait.  The client makes it when its own async
\* calls have completed (async_benchmark waits for them).
CallSync(c) ==
  /\ pc[c] = "ready"
  /\ pend[c] = 0
  /\ Enqueue(c)
  /\ callback' = [callback EXCEPT ![c] = "sync"]
  /\ done' = [done EXCEPT ![c] = FALSE]
  /\ moduleArr' = [moduleArr EXCEPT ![id[c]] = c]
  /\ pc' = [pc EXCEPT ![c] = "wait"]
  /\ cause' = cause \union CallCause(c)
  /\ UNCHANGED <<id, pend, scan, checker, rtdreqs, daemonVars, holds>>

\* The end of qhgpu_call_sync: restore the callback, free the call data,
\* return the slot.
LeaveSync(c) ==
  /\ callback' = [callback EXCEPT ![c] = "own"]
  /\ done' = [done EXCEPT ![c] = FALSE]
  /\ pc' = [pc EXCEPT ![c] = "ready"]
  /\ GiveBack(c)
  /\ UNCHANGED <<id, pend, scan, queueVars, daemonVars>>

\* wait_event_interruptible ends because data->done == 1.
SyncReturn(c) ==
  /\ pc[c] = "wait"
  /\ done[c]
  /\ LeaveSync(c)
  /\ UNCHANGED cause

\* wait_event_interruptible ends because of a signal.  The code ignores its
\* result and leaves the item on its list.
SyncInterrupted(c) ==
  /\ pc[c] = "wait"
  /\ ~ done[c]
  /\ LeaveSync(c)
  /\ cause' = cause \union {"interrupted"}

\* Mutant: qhgpu_call_async returns the slot as qhgpu_call_sync does.
CallAsyncReturns(c) ==
  /\ pc[c] = "ready"
  /\ Enqueue(c)
  /\ pend' = [pend EXCEPT ![c] = @ + 1]
  /\ GiveBack(c)
  /\ cause' = cause \union CallCause(c)
  /\ UNCHANGED <<id, callback, done, scan, pc, rtdreqs, daemonVars>>

\* qhgpu_call_async.  Clients count the answers in their own callback.
CallAsync(c) ==
  /\ pc[c] = "ready"
  /\ Enqueue(c)
  /\ pend' = [pend EXCEPT ![c] = @ + 1]
  /\ cause' = cause \union CallCause(c)
  /\ UNCHANGED <<id, callback, done, scan, pc, slotVars, rtdreqs, daemonVars, holds>>

-----------------------------------------------------------------------------
(* The daemon's handlers                                                   *)

\* qhgpu_read under reqlock: the first request leaves reqs and is copied out.
ReadTake ==
  /\ dpc = "user"
  /\ reqs # <<>>
  /\ hand' = Head(reqs)
  /\ reqs' = Tail(reqs)
  /\ dpc' = "read"
  /\ UNCHANGED <<clientVars, slotVars, rtdreqs, itemReq, histVars>>

\* qhgpu_read under rtdreqlock: the request joins rtdreqs; read returns.
ReadFile ==
  /\ dpc = "read"
  /\ rtdreqs' = Append(rtdreqs, hand)
  /\ hand' = NULL
  /\ dpc' = "user"
  /\ UNCHANGED <<clientVars, slotVars, reqs, itemReq, histVars>>

\* Mutant: find_request does not compare ids.
MatchesAny(i, sid) == itemReq[i] # NULL

\* Mutant: find_request skips requests whose slot was returned.
MatchesMarked(i, sid) == itemReq[i] # NULL /\ id[itemReq[i]] = sid /\ checker[sid] # 0

\* find_request compares the id the request has now.
Matches(i, sid) == itemReq[i] # NULL /\ id[itemReq[i]] = sid

\* Mutant: find_request is called with offlist 0.
FindRequestListed(sid) ==
  /\ \E k \in 1 .. Len(rtdreqs) :
       /\ Matches(rtdreqs[k], sid)
       /\ hand' = rtdreqs[k]
  /\ UNCHANGED rtdreqs

\* Mutant: find_request searches from the tail of the list.
FindRequestLast(sid) ==
  \E k \in 1 .. Len(rtdreqs) :
    /\ Matches(rtdreqs[k], sid)
    /\ \A j \in k + 1 .. Len(rtdreqs) : ~ Matches(rtdreqs[j], sid)
    /\ hand' = rtdreqs[k]
    /\ rtdreqs' = RemoveAt(rtdreqs, k)

\* find_request(kuresp.id, 1): the first match leaves rtdreqs.
FindRequest(sid) ==
  \E k \in 1 .. Len(rtdreqs) :
    /\ Matches(rtdreqs[k], sid)
    /\ \A j \in 1 .. k - 1 : ~ Matches(rtdreqs[j], sid)
    /\ hand' = rtdreqs[k]
    /\ rtdreqs' = RemoveAt(rtdreqs, k)

WriteFound(sid) ==
  /\ dpc = "user"
  /\ FindRequest(sid)
  /\ dpc' = "found"
  /\ UNCHANGED <<clientVars, slotVars, reqs, itemReq, histVars>>

\* find_request returns NULL and qhgpu_write -EFAULT; nothing changes.
WriteNotFound(sid) ==
  /\ dpc = "user"
  /\ \A k \in 1 .. Len(rtdreqs) : ~ Matches(rtdreqs[k], sid)
  /\ UNCHANGED devVars

\* Mutant: the callback is only called for synchronous requests.
WriteCallbackSyncOnly ==
  /\ dpc = "found"
  /\ LET c == itemReq[hand] IN
       done' = [done EXCEPT ![c] = @ \/ callback[c] = "sync"]
  /\ dpc' = "called"
  /\ UNCHANGED <<id, callback, pend, scan, pc, slotVars, queueVars, hand, histVars>>

\* item->r->callback(item->r): sync_callback sets data->done; a client's own
\* callback counts the answer.
WriteCallback ==
  /\ dpc = "found"
  /\ LET c == itemReq[hand] IN
       IF callback[c] = "sync"
         THEN done' = [done EXCEPT ![c] = TRUE] /\ UNCHANGED pend
         ELSE pend' = [pend EXCEPT ![c] = IF @ > 0 THEN @ - 1 ELSE 0] /\ UNCHANGED done
  /\ dpc' = "called"
  /\ UNCHANGED <<id, callback, scan, pc, slotVars, queueVars, hand, histVars>>

\* The item goes back to its cache and write returns.
WriteFinish ==
  /\ dpc = "called"
  /\ itemReq' = [itemReq EXCEPT ![hand] = NULL]
  /\ hand' = NULL
  /\ dpc' = "user"
  /\ UNCHANGED <<clientVars, slotVars, reqs, rtdreqs, histVars>>

-----------------------------------------------------------------------------
ClientStep(c) ==
  \/ AllocRequest(c)
  \/ MmapIdTest(c)
  \/ MmapIdClaim(c)
  \/ MmapIdFallback(c)
  \/ ReturnMmap(c)
  \/ FreeRequest(c)
  \/ CallSync(c)
  \/ SyncReturn(c)
  \/ SyncInterrupted(c)
  \/ CallAsync(c)

\* A daemon that reads and answers in any order.
DaemonStep ==
  \/ ReadTake
  \/ ReadFile
  \/ \E sid \in Slots : WriteFound(sid) \/ WriteNotFound(sid)
  \/ WriteCallback
  \/ WriteFinish

DevNext == DaemonStep \/ \E c \in Clients : ClientStep(c)

DevSpec == DevInit /\ [][DevNext]_devVars
-----------------------------------------------------------------------------
(* Properties                                                              *)

\* The items whose request has not been answered: still on a list, or off it
\* inside a handler that has not called the callback yet.
InFlight ==
  ToSet(reqs) \union ToSet(rtdreqs)
    \union (IF dpc \in {"read", "found"} THEN {hand} ELSE {})

InFlightOf(c) == {i \in InFlight : itemReq[i] = c}

\* Every item of the cache is free, or on exactly one list, once, or in the
\* hand of one handler: qhgpu_read, find_request and qhgpu_write move an item
\* from list to list without losing it, listing it twice or freeing it while
\* it is listed.
ItemConservation ==
  /\ IsInjective(reqs)
  /\ IsInjective(rtdreqs)
  /\ ToSet(reqs) \intersect ToSet(rtdreqs) = {}
  /\ hand \notin ToSet(reqs) \union ToSet(rtdreqs)
  /\ \A i \in Items :
       itemReq[i] # NULL <=> i \in ToSet(reqs) \union ToSet(rtdreqs) \union {hand}

\* A client asleep in qhgpu_call_sync whose done flag is not set has an item
\* that a later read or write will still find: its wake-up is never lost,
\* whatever other clients, late answers and shared slots did before.
NoLostWakeup ==
  \A c \in Clients : pc[c] = "wait" /\ ~ done[c] => InFlightOf(c) # {}

\* Unless a signal ended a wait, a client that counts its answers counts
\* exactly: pend is the number of its unanswered async items, and inside
\* qhgpu_call_sync it has one unanswered item until done is set, then none.
CompletionExact ==
  "interrupted" \notin cause =>
    \A c \in Clients :
      Cardinality(InFlightOf(c)) =
        IF pc[c] = "wait" THEN (IF done[c] THEN 0 ELSE 1) ELSE pend[c]

\* Two clients own the same mmap slot only if one of the known windows was
\* hit: the scan of qhgpu_mmap_id found nothing and answered 0, two scans
\* raced, a slot was used or returned after its return, or a signal ended a
\* wait whose request the daemon still had.
SlotExclusive ==
  cause = {} =>
    \A c, d \in Clients : c # d /\ holds[c] /\ holds[d] => id[c] # id[d]

\* Outside those windows, the slot of an unanswered request is owned by its
\* client: the daemon never works in a slot that was handed to someone else.
ServedSlotHeld ==
  cause = {} => \A i \in InFlight : holds[itemReq[i]]

\* Outside those windows, while a client waits in qhgpu_call_sync the batch
\* functions that QHGPU_IOC_BATCH_H2D/D2H would call for its slot are its own.
LoaderIsCallers ==
  cause = {} => \A c \in Clients : pc[c] = "wait" => moduleArr[id[c]] = c
=============================================================================
