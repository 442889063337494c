----------------------------- MODULE QhgpuSystem -----------------------------
(***************************************************************************)
(* The device and the daemon together: kernel clients call into            *)
(* QhgpuDevice, the Connector serves them through read and write of        *)
(* /dev/qhgpu.  A handler is several steps of the device and the daemon's  *)
(* thread is inside it meanwhile; it goes on when the handler returns.     *)
(***************************************************************************)
EXTENDS QhgpuDevice

CONSTANTS
  SrItems,  \* the daemon's service requests
  Svc       \* the service each client's request names

\* struct qhgpu_ku_request as read returns it.  The daemon knows the id; the
\* item and the client it was read from are recorded to state properties.
KuRequest == [id : Slots, item : Items, client : Clients]

SvcOf == [k \in KuRequest |-> Svc[k.client]]

VARIABLES
  sr, allReqs, initReqs, runningReqs, postExecReqs, doneReqs, lpc, cur,
  kureq,    \* the request that the read in progress has copied out
  failed    \* history: some launch or post returned nonzero

Conn == INSTANCE Connector WITH KuRequests <- KuRequest, ServiceOf <- SvcOf

ASSUME SystemAssumption ==
  /\ Svc \in [Clients -> Conn!ServiceKinds]
  /\ NULL \notin SrItems
  /\ NULL \notin KuRequest

connVars == <<sr, allReqs, initReqs, runningReqs, postExecReqs, doneReqs, lpc, cur>>
sysVars == <<devVars, connVars, kureq, failed>>

SysTypeOK ==
  /\ DevTypeOK
  /\ Conn!ConnTypeOK
  /\ kureq \in KuRequest \union {NULL} /\ failed \in BOOLEAN

SysInit ==
  /\ DevInit
  /\ Conn!ConnInit
  /\ kureq = NULL /\ failed = FALSE

-----------------------------------------------------------------------------
\* poll has reported POLLIN: the daemon enters read.
DaemonRead ==
  /\ lpc = "get"
  /\ Conn!FreeSrItems # {}
  /\ ReadTake
  /\ LET i == Head(reqs) IN
       kureq' = [id |-> id[itemReq[i]], item |-> i, client |-> itemReq[i]]
  /\ UNCHANGED <<connVars, failed>>

\* read returns and the daemon lists the request.
DaemonReadReturns ==
  /\ ReadFile
  /\ Conn!GetRequest(kureq)
  /\ kureq' = NULL /\ UNCHANGED failed

\* poll finds nothing to read, or the daemon has no memory to read into.
DaemonGetsNothing ==
  /\ dpc = "user"
  /\ \/ reqs = <<>> /\ Conn!PollTimeout
     \/ reqs # <<>> /\ Conn!AllocFails
  /\ UNCHANGED <<devVars, kureq, failed>>

\* The service request whose answer is due: the current one of the pass over
\* post_exec_reqs.
Answering == sr[postExecReqs[cur]]

\* The daemon writes the answer and the device finds a request for it.
DaemonWrite ==
  /\ Conn!InPass("done", postExecReqs)
  /\ WriteFound(Answering.id)
  /\ UNCHANGED <<connVars, kureq, failed>>

\* The device finds none and the daemon aborts.
DaemonWriteRefused ==
  /\ Conn!InPass("done", postExecReqs)
  /\ WriteNotFound(Answering.id)
  /\ Conn!SendAborts
  /\ UNCHANGED <<kureq, failed>>

DaemonWriteCallback ==
  /\ WriteCallback
  /\ UNCHANGED <<connVars, kureq, failed>>

\* write returns and the daemon frees the service request.
DaemonWriteReturns ==
  /\ WriteFinish
  /\ Conn!ServiceDone
  /\ UNCHANGED <<kureq, failed>>

DaemonLoop ==
  /\ dpc = "user"
  /\ Conn!LoopStep
  /\ failed' = (failed \/ Conn!LaunchFails \/ Conn!PostFails)
  /\ UNCHANGED <<devVars, kureq>>

\* The daemon is killed outside a handler.  Nothing restarts it: qhgpu_open
\* admits one opener for the life of the module.
DaemonKilled ==
  /\ dpc = "user"
  /\ Conn!Alive
  /\ lpc' = "aborted"
  /\ UNCHANGED <<devVars, kureq, failed, sr, allReqs, initReqs, runningReqs, postExecReqs, doneReqs, cur>>

Daemon ==
  \/ DaemonRead
  \/ DaemonReadReturns
  \/ DaemonGetsNothing
  \/ DaemonWrite
  \/ DaemonWriteRefused
  \/ DaemonWriteCallback
  \/ DaemonWriteReturns
  \/ DaemonLoop

Client(c) == ClientStep(c) /\ UNCHANGED <<connVars, kureq, failed>>

SysNext == Daemon \/ DaemonKilled \/ \E c \in Clients : Client(c)

\* The daemon's thread runs whenever it can, and a client whose done flag is
\* set leaves its wait: the scheduler owes both nothing more.
SysFairness ==
  /\ WF_sysVars(Daemon)
  /\ \A c \in Clients : WF_sysVars(SyncReturn(c) /\ UNCHANGED <<connVars, kureq, failed>>)

SysSpec == SysInit /\ [][SysNext]_sysVars /\ SysFairness

-----------------------------------------------------------------------------
(* Properties                                                              *)

\* A daemon that lives owes one answer for every request the device holds
\* for it, signals and shared slots included: no request is read and then
\* forgotten, and none is answered twice.
EveryReadIsOwed ==
  Conn!Alive =>
    Len(allReqs) = Len(rtdreqs) + (IF dpc \in {"found", "called"} THEN 1 ELSE 0)

\* Unless a signal ended a wait, the answer the daemon writes finds a
\* request: qhgpu_write never returns -EFAULT, on which the daemon would
\* abort and leave every client waiting.
AnswerFindsRequest ==
  Conn!InPass("done", postExecReqs) /\ dpc = "user" /\ "interrupted" \notin cause =>
    \E k \in 1 .. Len(rtdreqs) : Matches(rtdreqs[k], Answering.id)

\* While no slot ownership was lost, the client that find_request selects by
\* id is the one whose request the daemon executed, in whatever order the
\* services completed.
AnswerReachesItsClient ==
  dpc \in {"found", "called"} /\ cause = {} => itemReq[hand] = Answering.client

\* Even when requests share an id, an answer completes the very request that
\* was executed as long as no service failed, none was unknown (its request
\* stays in rtdreqs for ever) and no wait was interrupted: find_request's first
\* match is then the oldest request the daemon has.
AnswerReachesItsItem ==
  /\ dpc \in {"found", "called"}
  /\ "interrupted" \notin cause
  /\ ~ failed
  /\ doneReqs = <<>>
  => hand = Answering.item

\* While no slot ownership was lost, the daemon runs a service only in the
\* slot that the request's client owns.
ServiceRunsInOwnSlot ==
  cause = {} =>
    \A s \in ToSet(initReqs) \union ToSet(runningReqs) :
      holds[sr[s].client] /\ id[sr[s].client] = sr[s].id

\* A client in qhgpu_call_sync for a service that works returns, if the
\* daemon lives and slots are not shared.
SyncCallReturns ==
  \A c \in Clients :
    Svc[c] = "ok" =>
      (pc[c] = "wait") ~> (pc[c] # "wait" \/ ~ Conn!Alive \/ cause # {})

\* qhgpu_write's switch on the error code expects QHGPU_NO_SERVICE to reach
\* the kernel: a client that asked for an unknown service gets an answer.
NoServiceAnswered ==
  \A c \in Clients :
    Svc[c] = "missing" =>
      (pc[c] = "wait") ~> (pc[c] # "wait" \/ ~ Conn!Alive \/ cause # {})
=============================================================================
