------------------------------ MODULE Connector ------------------------------
(***************************************************************************)
(* The user-space daemon (qhgpu/connector.c): one thread that takes every  *)
(* request through the lists init_reqs, running_reqs and post_exec_reqs    *)
(* and answers it.  A system call of the daemon is a step of this module;  *)
(* what the device does in it is in QhgpuDevice, and QhgpuSystem puts the  *)
(* two together.                                                           *)
(*                                                                         *)
(* The services are external to the loop: a service's launch and post      *)
(* return 0 or not.  Left out: the QC_LOG timing blocks, OpenCL set-up,    *)
(* and the lists memdone and prepared, which no code fills.                *)
(***************************************************************************)
EXTENDS Integers, SequencesExt

CONSTANTS
  KuRequests,  \* what a read of the device can return (struct qhgpu_ku_request)
  ServiceOf,   \* the service a request names, by how the loop sees it behave
  SrItems,     \* the malloc'ed service requests (struct _qhgpu_sritem)
  NULL         \* the null pointer

\* "exit":    the name starts with "000";
\* "missing": qc_lookup_service finds no such service;
\* "ok":      launch and post return 0;
\* "flaky":   launch and post may return 0 or not, each time they are called.
ServiceKinds == {"exit", "missing", "ok", "flaky"}

ASSUME ConnectorAssumption ==
  /\ ServiceOf \in [KuRequests -> ServiceKinds]
  /\ NULL \notin KuRequests
  /\ NULL \notin SrItems

VARIABLES
  sr,            \* the request a service request carries, NULL when freed
  allReqs,       \* all_reqs, linked through glist
  initReqs,      \* init_reqs
  runningReqs,   \* running_reqs
  postExecReqs,  \* post_exec_reqs
  doneReqs,      \* done_reqs
  lpc,           \* which pass of qc_main_loop the daemon is in, or how it ended
  cur            \* position of the pass in its list

listVars == <<initReqs, runningReqs, postExecReqs, doneReqs>>
connVars == <<sr, allReqs, listVars, lpc, cur>>

Kind(s) == ServiceOf[sr[s]]

ConnTypeOK ==
  /\ sr \in [SrItems -> KuRequests \union {NULL}]
  /\ allReqs \in Seq(SrItems)
  /\ initReqs \in Seq(SrItems)
  /\ runningReqs \in Seq(SrItems)
  /\ postExecReqs \in Seq(SrItems)
  /\ doneReqs \in Seq(SrItems)
  /\ lpc \in {"done", "post", "launch", "get", "exited", "aborted"}
  /\ cur \in Nat \ {0}

ConnInit ==
  /\ sr = [s \in SrItems |-> NULL]
  /\ allReqs = <<>>
  /\ initReqs = <<>>
  /\ runningReqs = <<>>
  /\ postExecReqs = <<>>
  /\ doneReqs = <<>>
  /\ lpc = "done"
  /\ cur = 1

-----------------------------------------------------------------------------
(* __qc_process_request: list_for_each_safe has saved the next element, so *)
(* an operation that unlinks the current one leaves cur at its successor.  *)

InPass(pass, list) == lpc = pass /\ cur <= Len(list)

StartPass(pass) == lpc' = pass /\ cur' = 1

EndPass(pass, list, next) ==
  /\ lpc = pass
  /\ cur > Len(list)
  /\ StartPass(next)
  /\ UNCHANGED <<sr, allReqs, listVars>>

-----------------------------------------------------------------------------
\* Mutant: qc_service_done does not unlink glist.
ServiceDoneInAll ==
  /\ InPass("done", postExecReqs)
  /\ postExecReqs' = RemoveAt(postExecReqs, cur)
  /\ sr' = [sr EXCEPT ![postExecReqs[cur]] = NULL]
  /\ UNCHANGED <<allReqs, initReqs, runningReqs, doneReqs, lpc, cur>>

\* qc_service_done, the write having succeeded: unlink from both lists, free.
ServiceDone ==
  /\ InPass("done", postExecReqs)
  /\ LET s == postExecReqs[cur] IN
       /\ postExecReqs' = RemoveAt(postExecReqs, cur)
       /\ allReqs' = RemoveFirst(allReqs, s)
       /\ sr' = [sr EXCEPT ![s] = NULL]
  /\ UNCHANGED <<initReqs, runningReqs, doneReqs, lpc, cur>>

\* qc_send_response, the write having failed: ssc() aborts the daemon.
SendAborts ==
  /\ InPass("done", postExecReqs)
  /\ lpc' = "aborted"
  /\ UNCHANGED <<sr, allReqs, listVars, cur>>

\* Mutant: the pass picks any request of the list.
PostExecAnyOrder ==
  /\ lpc = "post"
  /\ \E k \in 1 .. Len(runningReqs) :
       /\ Kind(runningReqs[k]) \in {"ok", "flaky"}
       /\ runningReqs' = RemoveAt(runningReqs, k)
       /\ postExecReqs' = Append(postExecReqs, runningReqs[k])
  /\ StartPass("launch")
  /\ UNCHANGED <<sr, allReqs, initReqs, doneReqs>>

\* qc_post_exec returns 0: the pass over running_reqs is a "once" pass and
\* ends with the first success.
PostExec ==
  /\ InPass("post", runningReqs)
  /\ Kind(runningReqs[cur]) \in {"ok", "flaky"}
  /\ runningReqs' = RemoveAt(runningReqs, cur)
  /\ postExecReqs' = Append(postExecReqs, runningReqs[cur])
  /\ StartPass("launch")
  /\ UNCHANGED <<sr, allReqs, initReqs, doneReqs>>

\* Mutant: the "once" pass also ends with the first failure.
PostFailsEndsPass ==
  /\ InPass("post", runningReqs)
  /\ Kind(runningReqs[cur]) = "flaky"
  /\ StartPass("launch")
  /\ UNCHANGED <<sr, allReqs, listVars>>

\* post returned nonzero: the pass goes on to the next request.
PostFails ==
  /\ InPass("post", runningReqs)
  /\ Kind(runningReqs[cur]) = "flaky"
  /\ cur' = cur + 1
  /\ UNCHANGED <<sr, allReqs, listVars, lpc>>

\* qc_launch_exec, launch having returned 0 in its thread.
LaunchExec ==
  /\ InPass("launch", initReqs)
  /\ Kind(initReqs[cur]) \in {"ok", "flaky"}
  /\ initReqs' = RemoveAt(initReqs, cur)
  /\ runningReqs' = Append(runningReqs, initReqs[cur])
  /\ UNCHANGED <<sr, allReqs, postExecReqs, doneReqs, lpc, cur>>

\* Mutant: a request whose launch failed is dropped.
LaunchFailsDrops ==
  /\ InPass("launch", initReqs)
  /\ Kind(initReqs[cur]) = "flaky"
  /\ initReqs' = RemoveAt(initReqs, cur)
  /\ allReqs' = RemoveFirst(allReqs, initReqs[cur])
  /\ sr' = [sr EXCEPT ![initReqs[cur]] = NULL]
  /\ UNCHANGED <<runningReqs, postExecReqs, doneReqs, lpc, cur>>

\* launch returned nonzero: the request stays and is launched again in the
\* next round.
LaunchFails ==
  /\ InPass("launch", initReqs)
  /\ Kind(initReqs[cur]) = "flaky"
  /\ cur' = cur + 1
  /\ UNCHANGED <<sr, allReqs, listVars, lpc>>

-----------------------------------------------------------------------------
(* qc_get_next_service_request                                             *)

\* poll waits for ever when all_reqs is empty and not at all otherwise.
PollTimeout ==
  /\ lpc = "get"
  /\ allReqs # <<>>
  /\ StartPass("done")
  /\ UNCHANGED <<sr, allReqs, listVars>>

FreeSrItems == {s \in SrItems : sr[s] = NULL}

\* poll reports POLLIN and qc_alloc_service_request returns NULL.
AllocFails ==
  /\ lpc = "get"
  /\ FreeSrItems = {}
  /\ StartPass("done")
  /\ UNCHANGED <<sr, allReqs, listVars>>

\* The read has returned k: the end of the loop for an exit request, which
\* is neither listed nor answered, otherwise qc_init_service_request, which
\* lists an unknown service's request in done_reqs (qc_fail_request).
GetRequest(k) ==
  /\ lpc = "get"
  /\ \E s \in FreeSrItems :
       /\ sr' = [sr EXCEPT ![s] = k]
       /\ allReqs' = IF ServiceOf[k] = "exit" THEN allReqs ELSE Append(allReqs, s)
       /\ doneReqs' = IF ServiceOf[k] = "missing" THEN Append(doneReqs, s) ELSE doneReqs
       /\ initReqs' = IF ServiceOf[k] \in {"ok", "flaky"} THEN Append(initReqs, s) ELSE initReqs
  /\ StartPass(IF ServiceOf[k] = "exit" THEN "exited" ELSE "done")
  /\ UNCHANGED <<runningReqs, postExecReqs>>

\* The steps of the loop that need nothing from the device.
LoopStep ==
  \/ EndPass("done", postExecReqs, "post")
  \/ EndPass("post", runningReqs, "launch")
  \/ EndPass("launch", initReqs, "get")
  \/ PostExec
  \/ PostFails
  \/ LaunchExec
  \/ LaunchFails

\* The daemon over a device that may accept or refuse any answer and return
\* any request.
ConnNext ==
  \/ LoopStep
  \/ ServiceDone
  \/ SendAborts
  \/ PollTimeout
  \/ AllocFails
  \/ \E k \in KuRequests : GetRequest(k)

\* The daemon's thread keeps running; only poll on an empty all_reqs blocks.
ConnFairness == WF_connVars(LoopStep \/ ServiceDone \/ PollTimeout)

ConnSpec == ConnInit /\ [][ConnNext]_connVars /\ ConnFairness

-----------------------------------------------------------------------------
(* Properties                                                              *)

Alive == lpc \notin {"exited", "aborted"}

\* all_reqs, from whose emptiness poll's timeout is computed, lists exactly
\* the requests of the other lists, each in one of them, once: the daemon
\* never sleeps with work to do, and a listed request is never freed.
ListsPartitionAll ==
  LET lists == postExecReqs \o runningReqs \o initReqs \o doneReqs IN
    /\ IsInjective(lists)
    /\ IsInjective(allReqs)
    /\ ToSet(lists) = ToSet(allReqs)
    /\ \A s \in ToSet(allReqs) : sr[s] # NULL

\* Requests of services that do not fail keep the order in which they were
\* read, whatever requests of failing services stay behind or overtake.
PipelineKeepsOrder ==
  LET pipeline == postExecReqs \o runningReqs \o initReqs IN
    \A i, j \in 1 .. Len(pipeline), m, n \in 1 .. Len(allReqs) :
      /\ pipeline[i] = allReqs[m] /\ Kind(pipeline[i]) = "ok"
      /\ pipeline[j] = allReqs[n] /\ Kind(pipeline[j]) = "ok"
      => (i < j <=> m < n)

\* The loop reaches every request of a service that works, although a pass
\* over running_reqs completes only one and failing requests are retried for
\* ever in front of it.
OkEventuallyAnswered ==
  \A s \in SrItems :
    (Alive /\ s \in ToSet(allReqs) /\ Kind(s) = "ok") ~> (s \notin ToSet(allReqs) \/ ~ Alive)
=============================================================================
