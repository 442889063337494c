--------------------------- MODULE ConnectorProofs ---------------------------
(***************************************************************************)
(* Invariance proofs for Connector, for any set of requests, any number of *)
(* service requests and any services.  The lemmas about one step do not    *)
(* use the specification, so that a module that composes the daemon with a *)
(* device can cite them for its own steps.                                 *)
(***************************************************************************)
EXTENDS Connector, SeqLemmas

-----------------------------------------------------------------------------
(* The lists                                                               *)

\* What ListsPartitionAll says of the four lists together, said of each of
\* them and each pair, and what a pass may rely on: an answered request
\* leaves the list, so the pass over post_exec_reqs stays at its head.
ConnInv ==
  /\ ConnTypeOK
  /\ IsInjective(allReqs)
  /\ IsInjective(initReqs) /\ IsInjective(runningReqs)
  /\ IsInjective(postExecReqs) /\ IsInjective(doneReqs)
  /\ ToSet(initReqs) \intersect ToSet(runningReqs) = {}
  /\ ToSet(initReqs) \intersect ToSet(postExecReqs) = {}
  /\ ToSet(initReqs) \intersect ToSet(doneReqs) = {}
  /\ ToSet(runningReqs) \intersect ToSet(postExecReqs) = {}
  /\ ToSet(runningReqs) \intersect ToSet(doneReqs) = {}
  /\ ToSet(postExecReqs) \intersect ToSet(doneReqs) = {}
  /\ ToSet(allReqs) = ToSet(initReqs) \union ToSet(runningReqs)
                        \union ToSet(postExecReqs) \union ToSet(doneReqs)
  /\ \A s \in ToSet(allReqs) : sr[s] # NULL
  /\ lpc = "done" => cur = 1

LEMMA ConnInvInit == ConnInit => ConnInv
BY DEF ConnInit, ConnInv, ConnTypeOK, IsInjective, ToSet

\* EndPass, PostFails, LaunchFails, PollTimeout, AllocFails and SendAborts
\* change no list.
LEMMA QuietStep ==
  ASSUME ConnInv, UNCHANGED <<sr, allReqs, listVars>>,
         lpc' \in {"done", "post", "launch", "get", "exited", "aborted"},
         cur' \in Nat \ {0}, lpc' = "done" => cur' = 1
  PROVE  ConnInv'
BY DEF ConnInv, ConnTypeOK, listVars

LEMMA LoopStepInv ==
  ASSUME ConnInv, LoopStep
  PROVE  ConnInv'
<1>0. cur \in Nat \ {0} /\ cur + 1 \in Nat \ {0}
  BY DEF ConnInv, ConnTypeOK
<1>1. CASE EndPass("done", postExecReqs, "post")
  BY <1>1, QuietStep DEF EndPass, StartPass
<1>2. CASE EndPass("post", runningReqs, "launch")
  BY <1>2, QuietStep DEF EndPass, StartPass
<1>3. CASE EndPass("launch", initReqs, "get")
  BY <1>3, QuietStep DEF EndPass, StartPass
<1>4. CASE PostExec
  <2>1. /\ cur \in 1 .. Len(runningReqs)
        /\ runningReqs' = RemoveAt(runningReqs, cur)
        /\ postExecReqs' = Append(postExecReqs, runningReqs[cur])
        /\ lpc' = "launch" /\ cur' = 1
        /\ UNCHANGED <<sr, allReqs, initReqs, doneReqs>>
    BY <1>0, <1>4 DEF PostExec, InPass, StartPass, ConnInv, ConnTypeOK
  <2>2. /\ runningReqs' \in Seq(SrItems) /\ IsInjective(runningReqs')
        /\ runningReqs[cur] \in SrItems /\ runningReqs[cur] \in ToSet(runningReqs)
        /\ ToSet(runningReqs') = ToSet(runningReqs) \ {runningReqs[cur]}
    BY <2>1, RemoveAtDistinct DEF ConnInv, ConnTypeOK
  <2>3. /\ postExecReqs' \in Seq(SrItems) /\ IsInjective(postExecReqs')
        /\ ToSet(postExecReqs') = ToSet(postExecReqs) \union {runningReqs[cur]}
    BY <2>1, <2>2, AppendDistinct DEF ConnInv, ConnTypeOK
  <2> QED BY <2>1, <2>2, <2>3 DEF ConnInv, ConnTypeOK
<1>5. CASE PostFails
  BY <1>0, <1>5, QuietStep DEF PostFails, InPass
<1>6. CASE LaunchExec
  <2>1. /\ cur \in 1 .. Len(initReqs)
        /\ initReqs' = RemoveAt(initReqs, cur)
        /\ runningReqs' = Append(runningReqs, initReqs[cur])
        /\ lpc' = "launch" /\ UNCHANGED <<sr, allReqs, postExecReqs, doneReqs, lpc, cur>>
    BY <1>0, <1>6 DEF LaunchExec, InPass, ConnInv, ConnTypeOK
  <2>2. /\ initReqs' \in Seq(SrItems) /\ IsInjective(initReqs')
        /\ initReqs[cur] \in SrItems /\ initReqs[cur] \in ToSet(initReqs)
        /\ ToSet(initReqs') = ToSet(initReqs) \ {initReqs[cur]}
    BY <2>1, RemoveAtDistinct DEF ConnInv, ConnTypeOK
  <2>3. /\ runningReqs' \in Seq(SrItems) /\ IsInjective(runningReqs')
        /\ ToSet(runningReqs') = ToSet(runningReqs) \union {initReqs[cur]}
    BY <2>1, <2>2, AppendDistinct DEF ConnInv, ConnTypeOK
  <2> QED BY <2>1, <2>2, <2>3 DEF ConnInv, ConnTypeOK
<1>7. CASE LaunchFails
  BY <1>0, <1>7, QuietStep DEF LaunchFails, InPass
<1> QED BY <1>1, <1>2, <1>3, <1>4, <1>5, <1>6, <1>7 DEF LoopStep

\* qc_service_done frees the first of post_exec_reqs and nothing else.
LEMMA ServiceDoneEffect ==
  ASSUME ConnInv, ServiceDone
  PROVE  /\ ConnInv'
         /\ cur = 1 /\ postExecReqs # <<>>
         /\ postExecReqs[1] \in ToSet(postExecReqs)
         /\ ToSet(allReqs') = ToSet(allReqs) \ {postExecReqs[1]}
         /\ Len(allReqs') = Len(allReqs) - 1
         /\ \E k \in 1 .. Len(allReqs) :
              allReqs[k] = postExecReqs[1] /\ allReqs' = RemoveAt(allReqs, k)
<1> DEFINE s == postExecReqs[cur]
<1>1. /\ cur = 1 /\ cur \in 1 .. Len(postExecReqs)
      /\ postExecReqs' = RemoveAt(postExecReqs, cur)
      /\ allReqs' = RemoveFirst(allReqs, s)
      /\ sr' = [sr EXCEPT ![s] = NULL]
      /\ UNCHANGED <<initReqs, runningReqs, doneReqs, lpc, cur>>
  BY DEF ServiceDone, InPass, ConnInv, ConnTypeOK
<1>2. /\ postExecReqs' \in Seq(SrItems) /\ IsInjective(postExecReqs')
      /\ s \in SrItems /\ s \in ToSet(postExecReqs)
      /\ ToSet(postExecReqs') = ToSet(postExecReqs) \ {s}
  BY <1>1, RemoveAtDistinct DEF ConnInv, ConnTypeOK
<1> HIDE DEF s
<1>3. PICK k \in 1 .. Len(allReqs) : allReqs[k] = s /\ allReqs' = RemoveAt(allReqs, k)
  BY <1>1, <1>2, RemoveFirstIsRemoveAt DEF ConnInv, ConnTypeOK
<1>4. /\ allReqs' \in Seq(SrItems) /\ IsInjective(allReqs')
      /\ ToSet(allReqs') = ToSet(allReqs) \ {s}
  BY <1>3, RemoveAtDistinct DEF ConnInv, ConnTypeOK
<1>5. Len(allReqs') = Len(allReqs) - 1
  BY <1>3, RemoveAtElements DEF ConnInv, ConnTypeOK
<1>6. sr' \in [SrItems -> KuRequests \union {NULL}] /\ \A r \in SrItems \ {s} : sr'[r] = sr[r]
  BY <1>1, <1>2 DEF ConnInv, ConnTypeOK
<1>7. ToSet(allReqs) \subseteq SrItems
  BY DEF ConnInv, ConnTypeOK, ToSet
<1>8. ConnInv'
  BY <1>1, <1>2, <1>4, <1>6, <1>7 DEF ConnInv, ConnTypeOK
<1> QED BY <1>1, <1>2, <1>3, <1>4, <1>5, <1>8 DEF s

\* GetRequest(k) with the service request it has allocated.
GetRequestInto(k, s) ==
  /\ sr[s] = NULL
  /\ sr' = [sr EXCEPT ![s] = k]
  /\ CASE ServiceOf[k] = "exit" ->
            UNCHANGED <<allReqs, initReqs, doneReqs>> /\ lpc' = "exited"
       [] ServiceOf[k] = "missing" ->
            /\ allReqs' = Append(allReqs, s) /\ doneReqs' = Append(doneReqs, s)
            /\ UNCHANGED initReqs /\ lpc' = "done"
       [] OTHER ->
            /\ allReqs' = Append(allReqs, s) /\ initReqs' = Append(initReqs, s)
            /\ UNCHANGED doneReqs /\ lpc' = "done"
  /\ cur' = 1
  /\ UNCHANGED <<runningReqs, postExecReqs>>

LEMMA GetRequestEffect ==
  ASSUME NEW k \in KuRequests, GetRequest(k)
  PROVE  \E s \in SrItems : GetRequestInto(k, s)
<1>1. ServiceOf[k] \in {"exit", "missing", "ok", "flaky"}
  BY ConnectorAssumption DEF ServiceKinds
<1> QED BY <1>1 DEF GetRequest, GetRequestInto, FreeSrItems, StartPass

\* The request that GetRequest lists is put into a service request that was
\* on no list, behind all others.
LEMMA GetRequestInv ==
  ASSUME ConnInv, NEW k \in KuRequests, NEW s \in SrItems, GetRequestInto(k, s)
  PROVE  /\ ConnInv'
         /\ s \notin ToSet(allReqs)
         /\ \A r \in ToSet(allReqs) : sr'[r] = sr[r]
         /\ ServiceOf[k] # "exit" => ToSet(allReqs') = ToSet(allReqs) \union {s}
<1>1. /\ sr[s] = NULL /\ sr' = [sr EXCEPT ![s] = k]
      /\ cur' = 1 /\ UNCHANGED <<runningReqs, postExecReqs>>
  BY DEF GetRequestInto
<1>2. s \notin ToSet(allReqs)
  BY <1>1 DEF ConnInv
<1>3. /\ sr' \in [SrItems -> KuRequests \union {NULL}]
      /\ \A r \in ToSet(allReqs) : sr'[r] = sr[r]
      /\ sr'[s] # NULL
  <2>1. ToSet(allReqs) \subseteq SrItems /\ sr \in [SrItems -> KuRequests \union {NULL}]
    BY DEF ConnInv, ConnTypeOK, ToSet
  <2> QED BY <1>1, <1>2, <2>1, ConnectorAssumption
<1>4. \A list \in Seq(SrItems) :
        IsInjective(list) /\ s \notin ToSet(list) =>
          /\ Append(list, s) \in Seq(SrItems) /\ IsInjective(Append(list, s))
          /\ ToSet(Append(list, s)) = ToSet(list) \union {s}
  BY AppendDistinct
<1>5. CASE ServiceOf[k] = "exit"
  <2>1. UNCHANGED <<allReqs, initReqs, doneReqs>> /\ lpc' = "exited"
    BY <1>5 DEF GetRequestInto
  <2>2. ConnInv'
    BY <1>1, <1>3, <2>1 DEF ConnInv, ConnTypeOK
  <2> QED BY <1>2, <1>3, <1>5, <2>2
<1>6. CASE ServiceOf[k] = "missing"
  <2>1. /\ allReqs' = Append(allReqs, s) /\ doneReqs' = Append(doneReqs, s)
        /\ UNCHANGED initReqs /\ lpc' = "done"
    BY <1>6 DEF GetRequestInto
  <2>2. /\ allReqs' \in Seq(SrItems) /\ IsInjective(allReqs')
        /\ ToSet(allReqs') = ToSet(allReqs) \union {s}
    BY <1>2, <1>4, <2>1 DEF ConnInv, ConnTypeOK
  <2>3. /\ doneReqs' \in Seq(SrItems) /\ IsInjective(doneReqs')
        /\ ToSet(doneReqs') = ToSet(doneReqs) \union {s}
    BY <1>2, <1>4, <2>1 DEF ConnInv, ConnTypeOK
  <2>4. ConnInv'
    BY <1>1, <1>2, <1>3, <2>1, <2>2, <2>3 DEF ConnInv, ConnTypeOK
  <2> QED BY <1>2, <1>3, <2>2, <2>4
<1>7. CASE ServiceOf[k] \notin {"exit", "missing"}
  <2>1. /\ allReqs' = Append(allReqs, s) /\ initReqs' = Append(initReqs, s)
        /\ UNCHANGED doneReqs /\ lpc' = "done"
    BY <1>7 DEF GetRequestInto
  <2>2. /\ allReqs' \in Seq(SrItems) /\ IsInjective(allReqs')
        /\ ToSet(allReqs') = ToSet(allReqs) \union {s}
    BY <1>2, <1>4, <2>1 DEF ConnInv, ConnTypeOK
  <2>3. /\ initReqs' \in Seq(SrItems) /\ IsInjective(initReqs')
        /\ ToSet(initReqs') = ToSet(initReqs) \union {s}
    BY <1>2, <1>4, <2>1 DEF ConnInv, ConnTypeOK
  <2>4. ConnInv'
    BY <1>1, <1>2, <1>3, <2>1, <2>2, <2>3 DEF ConnInv, ConnTypeOK
  <2> QED BY <1>2, <1>3, <2>2, <2>4
<1> QED BY <1>5, <1>6, <1>7

LEMMA ConnInvStep == ConnInv /\ [ConnNext]_connVars => ConnInv'
<1> SUFFICES ASSUME ConnInv, [ConnNext]_connVars PROVE ConnInv'
  OBVIOUS
<1>1. CASE SendAborts
  BY <1>1, QuietStep DEF SendAborts, ConnInv, ConnTypeOK
<1>2. CASE PollTimeout
  BY <1>2, QuietStep DEF PollTimeout, StartPass
<1>3. CASE AllocFails
  BY <1>3, QuietStep DEF AllocFails, StartPass
<1>4. CASE UNCHANGED connVars
  BY <1>4, QuietStep DEF connVars, ConnInv, ConnTypeOK
<1>5. ASSUME NEW k \in KuRequests, GetRequest(k) PROVE ConnInv'
  BY <1>5, GetRequestEffect, GetRequestInv
<1> QED
  BY <1>1, <1>2, <1>3, <1>4, <1>5, LoopStepInv, ServiceDoneEffect DEF ConnNext

\* The four lists one after the other hold what all_reqs holds.
LEMMA ConnInvPartition == ConnInv => ListsPartitionAll
<1> SUFFICES ASSUME ConnInv PROVE ListsPartitionAll
  OBVIOUS
<1> USE DEF ConnInv, ConnTypeOK
<1> DEFINE a == postExecReqs \o runningReqs
           b == a \o initReqs
           c == b \o doneReqs
<1>1. /\ a \in Seq(SrItems) /\ IsInjective(a)
      /\ ToSet(a) = ToSet(postExecReqs) \union ToSet(runningReqs)
  BY ConcatDistinct
<1> HIDE DEF a
<1>2. /\ b \in Seq(SrItems) /\ IsInjective(b)
      /\ ToSet(b) = ToSet(a) \union ToSet(initReqs)
  BY <1>1, ConcatDistinct
<1> HIDE DEF b
<1>3. /\ c \in Seq(SrItems) /\ IsInjective(c)
      /\ ToSet(c) = ToSet(b) \union ToSet(doneReqs)
  BY <1>1, <1>2, ConcatDistinct
<1> HIDE DEF c
<1>4. IsInjective(c) /\ ToSet(c) = ToSet(allReqs)
  BY <1>1, <1>2, <1>3
<1> QED BY <1>4 DEF ListsPartitionAll, a, b, c

\* The variables of the daemon keep their types, whatever the device returns
\* and however the services behave.
THEOREM ConnTypeCorrect == ConnSpec => []ConnTypeOK
<1>1. ConnInv => ConnTypeOK
  BY DEF ConnInv
<1> QED BY <1>1, ConnInvInit, ConnInvStep, PTL DEF ConnSpec

\* all_reqs lists exactly the requests of the other four lists, each in one
\* of them, once, and none of them is freed: qc_service_done unlinks from
\* both lists, and every other function moves a request between lists.
THEOREM ListsPartition == ConnSpec => []ListsPartitionAll
BY ConnInvInit, ConnInvStep, ConnInvPartition, PTL DEF ConnSpec

-----------------------------------------------------------------------------
(* The order of the pipeline                                               *)

\* a is further on its way through the lists than b.
Ahead(a, b) ==
  \/ Before(postExecReqs, a, b)
  \/ Before(runningReqs, a, b)
  \/ Before(initReqs, a, b)
  \/ a \in ToSet(postExecReqs) /\ b \in ToSet(runningReqs) \union ToSet(initReqs)
  \/ a \in ToSet(runningReqs) /\ b \in ToSet(initReqs)

\* The pass that is going on has been at b and left it where it was.
Skipped(b) ==
  \E k \in 1 .. cur - 1 :
    \/ lpc = "post" /\ k <= Len(runningReqs) /\ runningReqs[k] = b
    \/ lpc = "launch" /\ k <= Len(initReqs) /\ initReqs[k] = b

IsOk(s) == sr[s] # NULL /\ Kind(s) = "ok"

\* A pass skips only requests of services that fail, so those of services
\* that work are ahead of each other in the order in which they were read.
OrderInv ==
  /\ ConnInv
  /\ \A s \in SrItems : Skipped(s) => ~ IsOk(s)
  /\ \A a, b \in SrItems : IsOk(a) /\ IsOk(b) /\ Ahead(a, b) => Before(allReqs, a, b)

LEMMA OrderInvInit == ConnInit => OrderInv
<1>1. ConnInit => \A a, b \in SrItems : ~ Ahead(a, b)
  BY DEF ConnInit, Ahead, Before, ToSet
<1>2. ConnInit => \A s \in SrItems : ~ Skipped(s)
  BY DEF ConnInit, Skipped
<1> QED BY <1>1, <1>2, ConnInvInit DEF OrderInv

\* What is ahead or behind is on a list.
LEMMA AheadListed ==
  ASSUME ConnInv, NEW a, NEW b, Ahead(a, b)
  PROVE  a \in ToSet(allReqs) /\ b \in ToSet(allReqs) /\ a # b
<1> USE DEF ConnInv, ConnTypeOK
<1>1. \A list \in {postExecReqs, runningReqs, initReqs} :
        Before(list, a, b) => a \in ToSet(list) /\ b \in ToSet(list) /\ a # b
  BY BeforeOrder
<1> QED BY <1>1 DEF Ahead

\* A step of the loop lets a request pass another only if the pass has
\* skipped the other one.
LEMMA AheadLoop ==
  ASSUME ConnInv, LoopStep, NEW a, NEW b, Ahead(a, b)', ~ Skipped(b)
  PROVE  Ahead(a, b)
<1>1. CASE UNCHANGED <<initReqs, runningReqs, postExecReqs>>
  BY <1>1 DEF Ahead
<1>2. CASE PostExec
  <2> DEFINE e == runningReqs[cur]
  <2>1. /\ lpc = "post" /\ cur \in 1 .. Len(runningReqs)
        /\ runningReqs' = RemoveAt(runningReqs, cur)
        /\ postExecReqs' = Append(postExecReqs, e)
        /\ UNCHANGED initReqs
    BY <1>2 DEF PostExec, InPass, ConnInv, ConnTypeOK
  <2>2. /\ e \in SrItems /\ e \in ToSet(runningReqs)
        /\ ToSet(runningReqs') = ToSet(runningReqs) \ {e}
    BY <2>1, RemoveAtDistinct DEF ConnInv, ConnTypeOK
  <2>3. b \in ToSet(runningReqs) /\ b # e => Before(runningReqs, e, b)
    <3>1. ~ Before(runningReqs, b, e)
      BY <2>1 DEF Before, Skipped, ConnInv, ConnTypeOK, IsInjective
    <3> QED BY <2>2, <3>1, BeforeOrder DEF ConnInv, ConnTypeOK
  <2> HIDE DEF e
  <2>4. ToSet(postExecReqs') = ToSet(postExecReqs) \union {e}
    BY <2>1, <2>2, AppendDistinct DEF ConnInv, ConnTypeOK
  <2>5. Before(postExecReqs', a, b) => Before(postExecReqs, a, b) \/ (a \in ToSet(postExecReqs) /\ b = e)
    BY <2>1, <2>2, AppendBefore DEF ConnInv, ConnTypeOK
  <2>6. Before(runningReqs', a, b) => Before(runningReqs, a, b)
    BY <2>1, RemoveAtBefore DEF ConnInv, ConnTypeOK
  <2> QED BY <2>1, <2>2, <2>3, <2>4, <2>5, <2>6 DEF Ahead
<1>3. CASE LaunchExec
  <2> DEFINE e == initReqs[cur]
  <2>1. /\ lpc = "launch" /\ cur \in 1 .. Len(initReqs)
        /\ initReqs' = RemoveAt(initReqs, cur)
        /\ runningReqs' = Append(runningReqs, e)
        /\ UNCHANGED postExecReqs
    BY <1>3 DEF LaunchExec, InPass, ConnInv, ConnTypeOK
  <2>2. /\ e \in SrItems /\ e \in ToSet(initReqs)
        /\ ToSet(initReqs') = ToSet(initReqs) \ {e}
    BY <2>1, RemoveAtDistinct DEF ConnInv, ConnTypeOK
  <2>3. b \in ToSet(initReqs) /\ b # e => Before(initReqs, e, b)
    <3>1. ~ Before(initReqs, b, e)
      BY <2>1 DEF Before, Skipped, ConnInv, ConnTypeOK, IsInjective
    <3> QED BY <2>2, <3>1, BeforeOrder DEF ConnInv, ConnTypeOK
  <2> HIDE DEF e
  <2>4. ToSet(runningReqs') = ToSet(runningReqs) \union {e}
    BY <2>1, <2>2, AppendDistinct DEF ConnInv, ConnTypeOK
  <2>5. Before(runningReqs', a, b) => Before(runningReqs, a, b) \/ (a \in ToSet(runningReqs) /\ b = e)
    BY <2>1, <2>2, AppendBefore DEF ConnInv, ConnTypeOK
  <2>6. Before(initReqs', a, b) => Before(initReqs, a, b)
    BY <2>1, RemoveAtBefore DEF ConnInv, ConnTypeOK
  <2> QED BY <2>1, <2>2, <2>3, <2>4, <2>5, <2>6 DEF Ahead
<1> QED BY <1>1, <1>2, <1>3 DEF LoopStep, EndPass, PostFails, LaunchFails, listVars

\* Answering a request changes nothing between the others.
LEMMA AheadDone ==
  ASSUME ConnInv, ServiceDone, NEW a, NEW b, Ahead(a, b)'
  PROVE  Ahead(a, b) /\ (Before(allReqs, a, b) => Before(allReqs', a, b))
<1>1. /\ cur \in 1 .. Len(postExecReqs) /\ postExecReqs' = RemoveAt(postExecReqs, cur)
      /\ UNCHANGED <<initReqs, runningReqs>>
  BY DEF ServiceDone, InPass, ConnInv, ConnTypeOK
<1>2. /\ Before(postExecReqs', a, b) => Before(postExecReqs, a, b)
      /\ ToSet(postExecReqs') \subseteq ToSet(postExecReqs)
  BY <1>1, RemoveAtBefore, RemoveAtDistinct DEF ConnInv, ConnTypeOK
<1>3. Ahead(a, b)
  BY <1>1, <1>2 DEF Ahead
<1>4. PICK k \in 1 .. Len(allReqs) :
        allReqs[k] = postExecReqs[1] /\ allReqs' = RemoveAt(allReqs, k)
  BY ServiceDoneEffect
<1>5. ConnInv' /\ ToSet(allReqs') = ToSet(allReqs) \ {postExecReqs[1]}
  BY ServiceDoneEffect
<1>6. a \in ToSet(allReqs') /\ b \in ToSet(allReqs')
  <2>1. \A list \in {postExecReqs', runningReqs', initReqs'} :
          Before(list, a, b) => a \in ToSet(list) /\ b \in ToSet(list)
    BY <1>5, BeforeOrder DEF ConnInv, ConnTypeOK
  <2> QED BY <1>5, <2>1 DEF Ahead, ConnInv
<1>7. Before(allReqs, a, b) => Before(allReqs', a, b)
  BY <1>4, <1>5, <1>6, RemoveAtBefore DEF ConnInv, ConnTypeOK
<1> QED BY <1>3, <1>7

\* A new request is behind all others, on its list and on all_reqs.
LEMMA AheadGet ==
  ASSUME ConnInv, NEW k \in KuRequests, NEW s \in SrItems, GetRequestInto(k, s),
         NEW a, NEW b, Ahead(a, b)', Ahead(a, b) => Before(allReqs, a, b)
  PROVE  Before(allReqs', a, b)
<1>1. s \notin ToSet(allReqs)
  BY GetRequestInv
<1>2. UNCHANGED <<runningReqs, postExecReqs>>
  BY DEF GetRequestInto
<1>3. CASE ServiceOf[k] = "exit"
  BY <1>2, <1>3 DEF GetRequestInto, Ahead
<1>4. CASE ServiceOf[k] # "exit"
  <2>1. allReqs' = Append(allReqs, s)
    BY <1>4 DEF GetRequestInto
  <2>2. Before(allReqs', a, b) <=> Before(allReqs, a, b) \/ (a \in ToSet(allReqs) /\ b = s)
    BY <2>1, AppendBefore DEF ConnInv, ConnTypeOK
  <2>3. CASE UNCHANGED initReqs
    BY <1>2, <2>2, <2>3 DEF Ahead
  <2>4. CASE initReqs' = Append(initReqs, s)
    <3>1. /\ ToSet(initReqs') = ToSet(initReqs) \union {s}
          /\ Before(initReqs', a, b) <=> Before(initReqs, a, b) \/ (a \in ToSet(initReqs) /\ b = s)
      BY <1>1, <2>4, AppendDistinct, AppendBefore DEF ConnInv, ConnTypeOK
    <3>2. Ahead(a, b) \/ (a \in ToSet(allReqs) /\ b = s)
      BY <1>2, <3>1 DEF Ahead, ConnInv
    <3> QED BY <2>2, <3>2
  <2> QED BY <1>4, <2>3, <2>4 DEF GetRequestInto
<1> QED BY <1>3, <1>4

\* A pass skips a request only when its service fails.
LEMMA SkippedLoop ==
  ASSUME ConnInv, LoopStep, NEW s, Skipped(s)'
  PROVE  Skipped(s) \/ Kind(s) = "flaky"
<1>0. cur \in Nat \ {0} /\ Len(initReqs) \in Nat /\ Len(runningReqs) \in Nat
  BY DEF ConnInv, ConnTypeOK
<1>1. CASE cur' = 1
  BY <1>1 DEF Skipped
<1>2. CASE PostFails
  BY <1>0, <1>2 DEF PostFails, InPass, Skipped, listVars
<1>3. CASE LaunchFails
  BY <1>0, <1>3 DEF LaunchFails, InPass, Skipped, listVars
<1>4. CASE LaunchExec
  <2>1. /\ lpc = "launch" /\ cur \in 1 .. Len(initReqs)
        /\ initReqs' = RemoveAt(initReqs, cur)
        /\ UNCHANGED <<lpc, cur>>
    BY <1>0, <1>4 DEF LaunchExec, InPass
  <2>0. initReqs \in Seq(SrItems)
    BY DEF ConnInv, ConnTypeOK
  <2>2. /\ Len(initReqs') = Len(initReqs) - 1
        /\ \A i \in 1 .. Len(initReqs) - 1 :
             initReqs'[i] = IF i < cur THEN initReqs[i] ELSE initReqs[i + 1]
    BY <2>0, <2>1, RemoveAtElements
  <2>3. PICK k \in 1 .. cur - 1 : k <= Len(initReqs') /\ initReqs'[k] = s
    BY <2>1 DEF Skipped
  <2>4. k <= Len(initReqs) /\ initReqs[k] = s
    BY <1>0, <2>1, <2>2, <2>3
  <2> QED BY <2>1, <2>4 DEF Skipped
<1> QED BY <1>1, <1>2, <1>3, <1>4 DEF LoopStep, EndPass, StartPass, PostExec

LEMMA OrderInvStep == OrderInv /\ [ConnNext]_connVars => OrderInv'
<1> SUFFICES ASSUME OrderInv, [ConnNext]_connVars PROVE OrderInv'
  OBVIOUS
<1>0. ConnInv /\ ConnInv'
  BY ConnInvStep DEF OrderInv
<1>1. CASE LoopStep
  <2>1. UNCHANGED <<sr, allReqs>>
    BY <1>1 DEF LoopStep, EndPass, PostExec, PostFails, LaunchExec, LaunchFails
  <2>2. \A s : IsOk(s)' <=> IsOk(s)
    BY <2>1 DEF IsOk, Kind
  <2>3. ASSUME NEW s \in SrItems, Skipped(s)' PROVE ~ IsOk(s)'
    BY <1>0, <1>1, <2>2, <2>3, SkippedLoop DEF OrderInv, IsOk
  <2>4. ASSUME NEW a \in SrItems, NEW b \in SrItems, IsOk(a)', IsOk(b)', Ahead(a, b)'
        PROVE  Before(allReqs, a, b)'
    <3>1. ~ Skipped(b)
      BY <2>2, <2>4 DEF OrderInv
    <3>2. Ahead(a, b)
      BY <1>0, <1>1, <2>4, <3>1, AheadLoop
    <3> QED BY <2>1, <2>2, <2>4, <3>2 DEF OrderInv
  <2> QED BY <1>0, <2>3, <2>4 DEF OrderInv
<1>2. CASE ServiceDone
  <2>1. \A s : ~ Skipped(s)'
    BY <1>2 DEF ServiceDone, InPass, Skipped
  <2>2. ASSUME NEW a \in SrItems, NEW b \in SrItems, IsOk(a)', IsOk(b)', Ahead(a, b)'
        PROVE  Before(allReqs, a, b)'
    <3>1. Ahead(a, b) /\ (Before(allReqs, a, b) => Before(allReqs', a, b))
      BY <1>0, <1>2, <2>2, AheadDone
    <3>2. IsOk(a) /\ IsOk(b)
      BY <1>0, <1>2, <2>2 DEF ServiceDone, IsOk, Kind, ConnInv, ConnTypeOK
    <3> QED BY <3>1, <3>2 DEF OrderInv
  <2> QED BY <1>0, <2>1, <2>2 DEF OrderInv
<1>3. ASSUME NEW k \in KuRequests, GetRequest(k) PROVE OrderInv'
  <2>1. PICK s \in SrItems : GetRequestInto(k, s)
    BY <1>3, GetRequestEffect
  <2>2. \A r : ~ Skipped(r)'
    BY <2>1 DEF GetRequestInto, Skipped
  <2>3. ASSUME NEW a \in SrItems, NEW b \in SrItems, IsOk(a)', IsOk(b)', Ahead(a, b)'
        PROVE  Before(allReqs, a, b)'
    <3>1. Ahead(a, b) => IsOk(a) /\ IsOk(b)
      BY <1>0, <2>1, <2>3, AheadListed, GetRequestInv DEF IsOk, Kind
    <3>2. Ahead(a, b) => Before(allReqs, a, b)
      BY <3>1 DEF OrderInv
    <3> QED BY <1>0, <2>1, <2>3, <3>2, AheadGet
  <2> QED BY <1>0, <2>2, <2>3 DEF OrderInv
<1>4. CASE UNCHANGED <<sr, allReqs, initReqs, runningReqs, postExecReqs>>
           /\ \A s : Skipped(s)' => Skipped(s)
  <2>1. \A s : IsOk(s)' <=> IsOk(s)
    BY <1>4 DEF IsOk, Kind
  <2>2. \A a, b : Ahead(a, b)' <=> Ahead(a, b)
    BY <1>4 DEF Ahead
  <2> QED BY <1>0, <1>4, <2>1, <2>2 DEF OrderInv
<1>5. CASE SendAborts \/ PollTimeout \/ AllocFails \/ UNCHANGED connVars
  <2>1. \A s : Skipped(s)' => Skipped(s)
    BY <1>5 DEF SendAborts, PollTimeout, AllocFails, StartPass, connVars, listVars, Skipped
  <2>2. UNCHANGED <<sr, allReqs, initReqs, runningReqs, postExecReqs>>
    BY <1>5 DEF SendAborts, PollTimeout, AllocFails, connVars, listVars
  <2> QED BY <1>4, <2>1, <2>2
<1> QED BY <1>1, <1>2, <1>3, <1>5 DEF ConnNext

\* The three lists of the pipeline one after the other are in the order of
\* Ahead.
LEMMA OrderInvPipeline == OrderInv => PipelineKeepsOrder
<1> SUFFICES ASSUME OrderInv PROVE PipelineKeepsOrder
  OBVIOUS
<1> DEFINE front == postExecReqs \o runningReqs
           pipeline == front \o initReqs
<1>0. ConnInv /\ ConnTypeOK /\ Len(allReqs) \in Nat
  BY DEF OrderInv, ConnInv, ConnTypeOK
<1>1. /\ front \in Seq(SrItems) /\ IsInjective(front)
      /\ ToSet(front) = ToSet(postExecReqs) \union ToSet(runningReqs)
  BY <1>0, ConcatDistinct DEF ConnInv, ConnTypeOK
<1>2. \A a, b : Before(front, a, b) => Ahead(a, b)
  BY <1>0, ConcatBefore DEF Ahead, ConnTypeOK
<1> HIDE DEF front
<1>3. pipeline \in Seq(SrItems) /\ IsInjective(pipeline)
  BY <1>0, <1>1, ConcatDistinct DEF ConnInv, ConnTypeOK
<1>4. \A a, b : Before(pipeline, a, b) => Ahead(a, b)
  BY <1>0, <1>1, <1>2, ConcatBefore DEF Ahead, ConnTypeOK
<1> HIDE DEF pipeline
<1>5. Len(pipeline) \in Nat /\ \A i \in 1 .. Len(pipeline) : pipeline[i] \in SrItems
  BY <1>3
<1>6. ASSUME NEW i \in 1 .. Len(pipeline), NEW j \in 1 .. Len(pipeline), i < j,
             NEW m \in 1 .. Len(allReqs), NEW n \in 1 .. Len(allReqs),
             pipeline[i] = allReqs[m], Kind(pipeline[i]) = "ok",
             pipeline[j] = allReqs[n], Kind(pipeline[j]) = "ok"
      PROVE  m < n
  <2>1. Ahead(allReqs[m], allReqs[n])
    BY <1>4, <1>6 DEF Before
  <2>2. IsOk(allReqs[m]) /\ IsOk(allReqs[n])
    BY <1>0, <1>6, <2>1, AheadListed DEF IsOk, ConnInv
  <2>3. Before(allReqs, allReqs[m], allReqs[n])
    BY <1>5, <1>6, <2>1, <2>2 DEF OrderInv
  <2>4. PICK x, y \in 1 .. Len(allReqs) : x < y /\ allReqs[x] = allReqs[m] /\ allReqs[y] = allReqs[n]
    BY <2>3 DEF Before
  <2>5. x = m /\ y = n
    <3>1. IsInjective(allReqs) /\ DOMAIN allReqs = 1 .. Len(allReqs)
      BY <1>0 DEF ConnInv, ConnTypeOK
    <3> QED BY <1>6, <2>4, <3>1 DEF IsInjective
  <2> QED BY <2>4, <2>5
<1>7. ASSUME NEW i \in 1 .. Len(pipeline), NEW j \in 1 .. Len(pipeline),
             NEW m \in 1 .. Len(allReqs), NEW n \in 1 .. Len(allReqs),
             pipeline[i] = allReqs[m], Kind(pipeline[i]) = "ok",
             pipeline[j] = allReqs[n], Kind(pipeline[j]) = "ok"
      PROVE  i < j <=> m < n
  <2>1. i < j => m < n
    BY <1>6, <1>7
  <2>2. j < i => n < m
    BY <1>6, <1>7
  <2>3. i = j => m = n
    BY <1>0, <1>7 DEF ConnInv, ConnTypeOK, IsInjective
  <2> QED BY <1>0, <1>5, <2>1, <2>2, <2>3
<1> QED BY <1>7 DEF PipelineKeepsOrder, pipeline, front

\* Requests of services that do not fail keep the order in which they were
\* read, through all passes of the loop, however many requests of failing
\* services are skipped, retried or overtaken.
THEOREM OrderKept == ConnSpec => []PipelineKeepsOrder
BY OrderInvInit, OrderInvStep, OrderInvPipeline, PTL DEF ConnSpec
=============================================================================
