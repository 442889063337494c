---------------------------- MODULE FloydWarshall ----------------------------
(***************************************************************************)
(* All shortest paths as a service.  The client makes a random matrix in    *)
(* its slot and keeps a copy; the service enqueues a write, one kernel pass *)
(* for every node, and a read, none of which blocks, and waits only when    *)
(* all of them were accepted.  A launch that returns 1 is launched again by *)
(* the connector, while what it enqueued goes on.  Work items of a pass     *)
(* interleave; each reads three entries and may write one.  The queue is out  *)
(* of order and no command waits for another, so any may start next; here one *)
(* ends before the next starts, and overtaken tells when one went ahead of an *)
(* earlier one.                                                             *)
(***************************************************************************)
EXTENDS Integers, Sequences, FiniteSets, SequencesExt

CONSTANTS
  MATSIZE,    \* MAT_SIZE
  INF,        \* __INT_MAX, no edge
  WEIGHTS,    \* weights of edges
  GARBAGE,    \* what the memory of a new buffer may hold
  MISSING,    \* bound: pairs of nodes without an edge
  ATTEMPTS,   \* bound: launches of one request; nothing is refused in the last
  FAILURES,   \* bound: commands of one launch that are refused
  OVERTAKES   \* bound: how often a command starts before an earlier one

ASSUME FwAssumption ==
  /\ MATSIZE \in Nat \ {0} /\ INF \in Nat \ {0}
  /\ WEIGHTS \subseteq 1 .. INF - 1 /\ GARBAGE \subseteq 0 .. INF
  /\ ATTEMPTS \in Nat \ {0} /\ FAILURES \in Nat /\ OVERTAKES \in Nat

\* No path is as long as INF, and no sum of two entries leaves an int: 1023 edges
\* of weight 5000 and twice 9999999 in the code.
ASSUME FwNumbers == (\A w \in WEIGHTS : (MATSIZE - 1) * w < INF) /\ INF < 2 ^ 30

VARIABLES
  slot,       \* adj_mat_gpu, the mmap slot
  cpu,        \* adj_mat_cpu
  pc,         \* where the client, and during its call the service, is
  attempt,    \* which launch of the request this is
  given,      \* the command it enqueues next
  ret,        \* how many were refused
  queue,      \* commands not yet started
  buf,        \* the device buffer of each launch
  pass,       \* the pass that runs, or Idle
  item, temp, \* of a work item: "start", "write" or "done", and its tempWeight
  before,     \* history: the buffer when the pass started
  lost,       \* history: launches whose write was refused, or overtaken by their read
  overtaken   \* history: how often a command has started before an earlier one

running == <<pass, item, temp, before>>
device == <<queue, overtaken, buf, running>>
host == <<cpu, pc, attempt, given, ret, lost>>
fwVars == <<slot, host, device>>

Index == 0 .. MATSIZE - 1
Entry == Index \X Index
Launches == 1 .. ATTEMPTS
Passes == [op : {"pass"}, k : Index, of : Launches]
Transfers == [op : {"write", "read"}, of : Launches]
Idle == [op |-> "idle"]

Matrices == [Entry -> 0 .. INF]

DeviceTypeOK ==
  /\ slot \in Matrices
  /\ attempt \in Launches /\ given \in 1 .. MATSIZE + 3 /\ ret \in 0 .. FAILURES
  /\ queue \in Seq(Passes \cup Transfers)
  /\ buf \in [Launches -> Matrices]
  /\ pass \in Passes \cup {Idle}
  /\ item \in [Entry -> {"start", "write", "done"}] /\ temp \in Matrices
  /\ before \in Matrices
  /\ overtaken \in 0 .. OVERTAKES

FwInit ==
  /\ slot = [e \in Entry |-> 0] /\ cpu = slot
  /\ pc = "generate" /\ attempt = 1 /\ given = 1 /\ ret = 0 /\ lost = {}
  /\ queue = <<>>
  /\ buf \in [Launches -> {[e \in Entry |-> g] : g \in GARBAGE}]
  /\ pass = Idle /\ item = [e \in Entry |-> "done"] /\ temp = [e \in Entry |-> 0]
  /\ before = [e \in Entry |-> 0] /\ overtaken = 0

-----------------------------------------------------------------------------
(* The client                                                              *)

\* A symmetric matrix, with 0 on the diagonal, copied to the slot.
GenerateAdjacencyMatrix ==
  /\ pc = "generate"
  /\ \E w \in [{e \in Entry : e[1] < e[2]} -> WEIGHTS \cup {INF}] :
       /\ Cardinality({e \in DOMAIN w : w[e] = INF}) <= MISSING
       /\ cpu' = [e \in Entry |-> IF e[1] = e[2] THEN 0
                                  ELSE IF e[1] < e[2] THEN w[e] ELSE w[<<e[2], e[1]>>]]
  /\ slot' = cpu' /\ pc' = "launch"
  /\ UNCHANGED <<attempt, given, ret, lost, device>>

\* The entry at e after pass k.
Relaxed(m, k, e) ==
  LET through == m[<<e[1], k>>] + m[<<k, e[2]>>] IN IF m[e] > through THEN through ELSE m[e]

\* kfloyd_warshall_cpu: three loops that change the matrix in place; the matrix
\* after each turn.
CpuTurns(m) ==
  LET done[n \in 0 .. MATSIZE * MATSIZE * MATSIZE] ==
        IF n = 0 THEN m
        ELSE LET now == done[n - 1]
                 k == (n - 1) \div (MATSIZE * MATSIZE)
                 i == ((n - 1) \div MATSIZE) % MATSIZE
                 j == (n - 1) % MATSIZE
             IN [now EXCEPT ![<<i, j>>] = Relaxed(now, k, <<i, j>>)]
  IN done

FloydWarshallCpu(m) == CpuTurns(m)[MATSIZE * MATSIZE * MATSIZE]

\* The call has returned; the client computes the distances itself.
RunCpu ==
  /\ pc = "post"
  /\ cpu' = FloydWarshallCpu(cpu) /\ pc' = "end"
  /\ UNCHANGED <<slot, attempt, given, ret, lost, device>>

-----------------------------------------------------------------------------
(* The service                                                             *)

\* Mutant: the loop over the passes ends one early.
CommandsShort(a) ==
  <<[op |-> "write", of |-> a]>>
    \o [n \in 1 .. MATSIZE - 1 |-> [op |-> "pass", k |-> n - 1, of |-> a]]
    \o <<[op |-> "read", of |-> a]>>

\* What launch a enqueues; a pass has its k from clSetKernelArg just before.
Commands(a) ==
  <<[op |-> "write", of |-> a]>>
    \o [n \in 1 .. MATSIZE |-> [op |-> "pass", k |-> n - 1, of |-> a]]
    \o <<[op |-> "read", of |-> a]>>

\* run_floyd_warshall_gpu enqueues one command after the other.  The return values
\* are collected, so what follows a refused command is enqueued all the same; a
\* pass whose clSetKernelArg fails counts as refused.
Enqueue ==
  /\ pc = "launch" /\ given \in DOMAIN Commands(attempt)
  /\ \/ queue' = Append(queue, Commands(attempt)[given]) /\ UNCHANGED <<ret, lost>>
     \/ /\ ret < FAILURES /\ attempt < ATTEMPTS
        /\ ret' = ret + 1 /\ lost' = IF given = 1 THEN lost \cup {attempt} ELSE lost
        /\ UNCHANGED queue
  /\ given' = given + 1
  /\ UNCHANGED <<slot, cpu, pc, attempt, overtaken, buf, running>>

\* The launch waits in clFinish, or fails without it and is launched again.
Enqueued ==
  /\ pc = "launch" /\ given = Len(Commands(attempt)) + 1
  /\ IF ret = 0
       THEN pc' = "finish" /\ UNCHANGED <<attempt, given, ret>>
       ELSE attempt' = attempt + 1 /\ given' = 1 /\ ret' = 0 /\ UNCHANGED pc
  /\ UNCHANGED <<slot, cpu, lost, device>>

\* clFinish returns when the queue has run empty.
Finish ==
  /\ pc = "finish" /\ queue = <<>> /\ pass = Idle
  /\ pc' = "post"
  /\ UNCHANGED <<slot, cpu, attempt, given, ret, lost, device>>

-----------------------------------------------------------------------------
(* The device                                                              *)

\* The next command: any of the queue.
Starts(n) ==
  /\ pass = Idle /\ n \in DOMAIN queue
  /\ queue' = RemoveAt(queue, n)
  /\ IF n = 1 THEN UNCHANGED overtaken
              ELSE overtaken < OVERTAKES /\ overtaken' = overtaken + 1

WriteBuffer(n) ==
  /\ Starts(n) /\ queue[n].op = "write"
  /\ buf' = [buf EXCEPT ![queue[n].of] = slot]
  /\ UNCHANGED <<slot, host, running>>

\* Has launch a still to write its buffer?
WriteWaits(a) == \E p \in DOMAIN queue : queue[p] = [op |-> "write", of |-> a]

ReadBuffer(n) ==
  /\ Starts(n) /\ queue[n].op = "read"
  /\ slot' = buf[queue[n].of]
  /\ lost' = IF WriteWaits(queue[n].of) THEN lost \cup {queue[n].of} ELSE lost
  /\ UNCHANGED <<cpu, pc, attempt, given, ret, buf, running>>

PassStarts(n) ==
  /\ Starts(n) /\ queue[n].op = "pass"
  /\ pass' = queue[n] /\ item' = [e \in Entry |-> "start"]
  /\ before' = buf[queue[n].of]
  /\ UNCHANGED <<slot, host, buf, temp>>

\* Work item e: its sum and its test.
ItemTests(e) ==
  /\ pass # Idle /\ item[e] = "start"
  /\ LET m == buf[pass.of]
         tempWeight == m[<<e[1], pass.k>>] + m[<<pass.k, e[2]>>]
     IN IF m[e] > tempWeight
          THEN item' = [item EXCEPT ![e] = "write"] /\ temp' = [temp EXCEPT ![e] = tempWeight]
          ELSE item' = [item EXCEPT ![e] = "done"] /\ UNCHANGED temp
  /\ UNCHANGED <<slot, host, queue, overtaken, buf, pass, before>>

\* Mutant: the item writes to the transposed entry.
ItemWritesAcross(e) ==
  /\ pass # Idle /\ item[e] = "write"
  /\ buf' = [buf EXCEPT ![pass.of][<<e[2], e[1]>>] = temp[e]]
  /\ item' = [item EXCEPT ![e] = "done"] /\ temp' = [temp EXCEPT ![e] = 0]
  /\ UNCHANGED <<slot, host, queue, overtaken, pass, before>>

ItemWrites(e) ==
  /\ pass # Idle /\ item[e] = "write"
  /\ buf' = [buf EXCEPT ![pass.of][e] = temp[e]]
  /\ item' = [item EXCEPT ![e] = "done"] /\ temp' = [temp EXCEPT ![e] = 0]
  /\ UNCHANGED <<slot, host, queue, overtaken, pass, before>>

PassEnds ==
  /\ pass # Idle /\ \A e \in Entry : item[e] = "done"
  /\ pass' = Idle
  /\ UNCHANGED <<slot, host, queue, overtaken, buf, item, temp, before>>

FwNext ==
  \/ GenerateAdjacencyMatrix \/ RunCpu \/ Enqueue \/ Enqueued \/ Finish \/ PassEnds
  \/ \E n \in DOMAIN queue : WriteBuffer(n) \/ ReadBuffer(n) \/ PassStarts(n)
  \/ \E e \in Entry : ItemTests(e) \/ ItemWrites(e)

FwSpec == FwInit /\ [][FwNext]_fwVars

-----------------------------------------------------------------------------
(* Properties                                                              *)

\* Whatever the order of the work items, and although each reads entries that
\* others may write in the same pass, an entry is what it was before the pass until
\* its item is through, and then what pass k makes of the matrix before the pass.
PassExact ==
  pass # Idle =>
    \A e \in Entry :
      buf[pass.of][e] = IF item[e] = "done" THEN Relaxed(before, pass.k, e) ELSE before[e]

Least(S) == CHOOSE x \in S : \A y \in S : x \leq y

\* Lengths of shortest paths of at most n edges, INF where there is none.
ShortestWithin(m) ==
  LET best[n \in 0 .. MATSIZE] ==
        IF n = 0 THEN [e \in Entry |-> IF e[1] = e[2] THEN 0 ELSE INF]
        ELSE LET so == best[n - 1] IN
               [e \in Entry |-> Least({INF} \cup {so[<<e[1], v>>] + m[<<v, e[2]>>] : v \in Index})]
  IN best

Shortest(m) == ShortestWithin(m)[MATSIZE]

\* The slot against the shortest lengths: never below them, and exactly they when
\* every command waited for the ones before it.
Reaches(lengths) ==
  /\ \A e \in Entry : slot[e] >= lengths[e]
  /\ overtaken = 0 => slot = lengths

\* When the call returns the slot holds the lengths of the shortest paths, also
\* after launches of which a pass or the read was refused and whose commands ran
\* into the next launch.  Where commands overtook each other it may hold longer
\* ones, but never less than the shortest.  Only a write that was refused or
\* overtaken by its read may bring garbage to the slot.  The client's sequential
\* loops, changing its copy in place, compute the same.
ResultIsShortest ==
  lost = {} => /\ pc = "post" => Reaches(Shortest(cpu))
               /\ pc = "end" => Reaches(cpu)
=============================================================================
