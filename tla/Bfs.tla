--------------------------------- MODULE Bfs ---------------------------------
(***************************************************************************)
(* Breadth-first search as a service: the client module makes a random     *)
(* graph, writes it into its slot as a list of numbers, searches it itself, *)
(* calls the service and compares; the service reads the graph back from    *)
(* the slot and runs two kernels in turn until no node was updated.  Work   *)
(* items of a kernel interleave; the queue runs one kernel after the other. *)
(* A kernel that cannot be started ends the daemon; a transfer that fails is *)
(* only printed and the search goes on with what the memory holds.          *)
(***************************************************************************)
EXTENDS Integers, Sequences, FiniteSets, SequencesExt

CONSTANTS
  NODES,      \* MAT_SIZE
  CAPACITY,   \* numbers convert_to_exd may write (MAT_SIZE * MAT_SIZE)
  GARBAGE,    \* what the memory of a new buffer may hold
  FAILURES,   \* bound: kinds of transfers that fail
  BOOLWIDTH,  \* bytes of the daemon's bool, an enum; the kernel's bool is one byte
  Junk        \* what the service copies from behind its array

ASSUME BfsAssumption ==
  /\ {NODES, CAPACITY, BOOLWIDTH} \subseteq Nat \ {0} /\ Junk \notin Int
  /\ GARBAGE \subseteq Int /\ GARBAGE # {} /\ FAILURES \in Nat

VARIABLES
  adj,           \* adj_mat: which entries are not 0
  bfsSlot,       \* the mmap slot
  cpuCost,       \* h_cost_ref
  bfsPc,         \* where the client, and during its call the service, is
  graph,         \* h_graph_nodes and h_graph_edges of the service
  mask, updating, visited, cost, over,    \* on the device
  bfsItem, left, \* of a work item: "start", "edges" or "done", and the edges it has left
  failed         \* history: the transfers that failed

device == <<mask, updating, visited, cost, over, bfsItem, left>>
bfsVars == <<adj, bfsSlot, cpuCost, bfsPc, graph, failed, device>>

Node == 0 .. NODES - 1
\* The arrays written before the loop; clearing and reading d_over; reading the costs.
Arrays == {"mask", "updating", "visited", "cost"}
Transfers == Arrays \cup {"clear", "over", "result"}
NoGraph == [nodes |-> <<>>, edges |-> <<>>]

BfsTypeOK ==
  /\ adj \in [Node \X Node -> BOOLEAN]
  /\ bfsPc \in {"generate", "convert", "cpu", "load", "head", "bfs1", "bfs2", "over", "copy", "compare",
             "end", "wild", "exited"}
  /\ mask \in [Node -> 0 .. 1] /\ updating \in [Node -> 0 .. 1] /\ visited \in [Node -> 0 .. 1]
  /\ cost \in [Node -> Int] /\ over \in 0 .. 1
  /\ failed \subseteq Transfers

BfsInit ==
  /\ adj = [e \in Node \X Node |-> FALSE] /\ bfsSlot = <<>> /\ cpuCost = [v \in Node |-> - 1]
  /\ bfsPc = "generate" /\ graph = NoGraph /\ failed = {}
  /\ mask = [v \in Node |-> 0] /\ updating = mask /\ visited = mask
  /\ cost = [v \in Node |-> - 1] /\ over = 0
  /\ bfsItem = [v \in Node |-> "done"] /\ left = [v \in Node |-> {}]

Goes(there) == bfsPc' = there

\* These transfers fail now, which is printed.
Fail(transfers) ==
  /\ Cardinality(failed \cup transfers) \leq FAILURES
  /\ failed' = failed \cup transfers

-----------------------------------------------------------------------------
(* The client                                                              *)

\* A graph without loops whose edges go both ways, any of them.
GenerateAdjacencyMatrix ==
  /\ bfsPc = "generate"
  /\ \E edges \in SUBSET {e \in Node \X Node : e[1] < e[2]} :
       adj' = [e \in Node \X Node |-> e \in edges \/ <<e[2], e[1]>> \in edges]
  /\ Goes("convert")
  /\ UNCHANGED <<bfsSlot, cpuCost, graph, failed, device>>

Neighbours(v) == {w \in Node : adj[<<v, w>>]}

\* The targets of a node's edges, in the order of the columns.
Row(v) ==
  CHOOSE s \in [1 .. Cardinality(Neighbours(v)) -> Neighbours(v)] :
    \A i, j \in DOMAIN s : i < j => s[i] < s[j]

EdgesBefore(v) == Cardinality({e \in Node \X Node : e[1] < v /\ adj[e]})

\* The list: the size, start and number of edges of every node, 0, the number of
\* edges, then target and weight of each edge.
Exd ==
  <<NODES>>
    \o FlattenSeq([k \in 1 .. NODES |-> <<EdgesBefore(k - 1), Len(Row(k - 1))>>])
    \o <<0, EdgesBefore(NODES)>>
    \o FlattenSeq([k \in 1 .. NODES |-> FlattenSeq([i \in 1 .. Len(Row(k - 1)) |-> <<Row(k - 1)[i], 1>>])])

\* convert_to_exd gives up when an edge ends behind the capacity and returns -1,
\* which its caller takes for a size: from there on the code reads what nobody
\* wrote and is not followed further.
ConvertToExd ==
  /\ bfsPc = "convert"
  /\ LET data == Exd IN
       IF EdgesBefore(NODES) > 0 /\ Len(data) > CAPACITY - 1
         THEN Goes("wild") /\ UNCHANGED bfsSlot
         ELSE bfsSlot' = data /\ Goes("cpu")
  /\ UNCHANGED <<adj, cpuCost, graph, failed, device>>

\* What client and service read from the slot; the source in it is read and ignored.
LoadGraph(data) ==
  [nodes |-> [v \in 0 .. data[1] - 1 |-> [starting |-> data[2 + 2 * v], no_of_edges |-> data[3 + 2 * v]]],
   edges |-> [i \in 0 .. data[3 + 2 * data[1]] - 1 |-> data[4 + 2 * data[1] + 2 * i]]]

EdgesOf(g, v) == g.nodes[v].starting .. g.nodes[v].starting + g.nodes[v].no_of_edges - 1

\* run_bfs_cpu: the nodes of round k + 1 from those of the rounds up to k, and the
\* costs after k rounds.
NextRound(g, c, k) ==
  LET Updated(from) == {w \in Node : c[w] = - 1 /\ \E i \in EdgesOf(g, from) : g.edges[i] = w}
  IN [w \in Node |-> IF \E v \in Node : c[v] = k - 1 /\ w \in Updated(v) THEN k ELSE c[w]]

CpuRounds(g) ==
  LET round[k \in 0 .. NODES] ==
        IF k = 0 THEN [v \in Node |-> IF v = 0 THEN 0 ELSE - 1] ELSE NextRound(g, round[k - 1], k)
  IN round

RunBfsCpu(g) == CpuRounds(g)[NODES]

BfsCpu ==
  /\ bfsPc = "cpu"
  /\ cpuCost' = RunBfsCpu(LoadGraph(bfsSlot))
  /\ Goes("load")
  /\ UNCHANGED <<adj, bfsSlot, graph, failed, device>>

-----------------------------------------------------------------------------
(* The service                                                             *)

\* A host array of bools as the kernels see it: one byte after the other.
Bytes(h) == [v \in Node |-> IF v % BOOLWIDTH = 0 THEN h[v \div BOOLWIDTH] ELSE 0]

\* bfs_launch up to the loop: masks and costs for source 0 go to new buffers, which
\* keep what they hold where the transfer fails.
BfsLaunch ==
  /\ bfsPc = "load"
  /\ graph' = LoadGraph(bfsSlot)
  /\ \E unwritten \in SUBSET Arrays, g \in GARBAGE :
       LET atSource == [v \in Node |-> IF v = 0 THEN 1 ELSE 0]
           Byte(array, value) ==
             IF array \in unwritten THEN [v \in Node |-> IF g = 0 THEN 0 ELSE 1] ELSE Bytes(value)
       IN /\ Fail(unwritten)
          /\ mask' = Byte("mask", atSource) /\ visited' = Byte("visited", atSource)
          /\ updating' = Byte("updating", [v \in Node |-> 0])
          /\ cost' = IF "cost" \in unwritten THEN [v \in Node |-> g]
                     ELSE [v \in Node |-> IF v = 0 THEN 0 ELSE - 1]
  /\ over' \in 0 .. 1
  /\ Goes("head")
  /\ UNCHANGED <<adj, bfsSlot, cpuCost, bfsItem, left>>

\* Setting arguments, starting a kernel and clFinish exit when OpenCL fails.  A buffer
\* that is not created is only printed: a mapping that failed with it is written
\* through at once, and from there on or on the device the outcome is undefined.
ClFails ==
  /\ \/ bfsPc \in {"load", "head", "bfs1", "copy"} /\ Goes("exited")
     \/ bfsPc = "load" /\ Goes("wild")
  /\ UNCHANGED <<adj, bfsSlot, cpuCost, graph, failed, device>>

\* The head of the loop: d_over is cleared, or keeps its value, and BFS_1 starts.
RoundStarts ==
  /\ bfsPc = "head"
  /\ (over' = 0 /\ UNCHANGED failed) \/ (Fail({"clear"}) /\ UNCHANGED over)
  /\ bfsItem' = [v \in Node |-> "start"]
  /\ Goes("bfs1")
  /\ UNCHANGED <<adj, bfsSlot, cpuCost, graph, mask, updating, visited, cost, left>>

InKernel(kernel) == bfsPc = kernel /\ UNCHANGED <<adj, bfsSlot, cpuCost, bfsPc, graph, failed>>

\* BFS_1, work item v: its test of the mask.
Bfs1Tests(v) ==
  /\ InKernel("bfs1") /\ bfsItem[v] = "start"
  /\ IF mask[v] = 1
       THEN /\ mask' = [mask EXCEPT ![v] = 0]
            /\ bfsItem' = [bfsItem EXCEPT ![v] = "edges"] /\ left' = [left EXCEPT ![v] = EdgesOf(graph, v)]
       ELSE bfsItem' = [bfsItem EXCEPT ![v] = "done"] /\ UNCHANGED <<mask, left>>
  /\ UNCHANGED <<updating, visited, cost, over>>

NextEdge(v) == CHOOSE i \in left[v] : \A j \in left[v] : i \leq j

\* Mutant: the target's mark is not tested.
Bfs1EdgeUntested(v) ==
  /\ InKernel("bfs1") /\ bfsItem[v] = "edges" /\ left[v] # {}
  /\ LET w == graph.edges[NextEdge(v)] IN
       cost' = [cost EXCEPT ![w] = (cost[v] + 1) % NODES] /\ updating' = [updating EXCEPT ![w] = 1]
  /\ left' = [left EXCEPT ![v] = left[v] \ {NextEdge(v)}]
  /\ UNCHANGED <<mask, visited, over, bfsItem>>

\* BFS_1, one turn of its loop: a target that is not marked gets a cost.
Bfs1Edge(v) ==
  /\ InKernel("bfs1") /\ bfsItem[v] = "edges" /\ left[v] # {}
  /\ LET w == graph.edges[NextEdge(v)] IN
       IF visited[w] = 0
         THEN cost' = [cost EXCEPT ![w] = cost[v] + 1] /\ updating' = [updating EXCEPT ![w] = 1]
         ELSE UNCHANGED <<cost, updating>>
  /\ left' = [left EXCEPT ![v] = left[v] \ {NextEdge(v)}]
  /\ UNCHANGED <<mask, visited, over, bfsItem>>

\* All work items are through: the queue starts BFS_2.
Bfs1Ends ==
  /\ bfsPc = "bfs1" /\ \A v \in Node : bfsItem[v] # "start" /\ left[v] = {}
  /\ bfsItem' = [v \in Node |-> "start"] /\ Goes("bfs2")
  /\ UNCHANGED <<adj, bfsSlot, cpuCost, graph, failed, mask, updating, visited, cost, over, left>>

\* BFS_2, work item v: an updated node is marked and searched from next.
Bfs2(v) ==
  /\ InKernel("bfs2") /\ bfsItem[v] = "start"
  /\ bfsItem' = [bfsItem EXCEPT ![v] = "done"]
  /\ IF updating[v] = 1
       THEN /\ mask' = [mask EXCEPT ![v] = 1] /\ visited' = [visited EXCEPT ![v] = 1]
            /\ over' = 1 /\ updating' = [updating EXCEPT ![v] = 0]
       ELSE UNCHANGED <<mask, updating, visited, over>>
  /\ UNCHANGED <<cost, left>>

\* d_over is read back: another round, or the end, also when it could not be read.
RoundEnds ==
  /\ bfsPc = "bfs2" /\ \A v \in Node : bfsItem[v] = "done"
  /\ \/ Goes(IF over = 1 THEN "head" ELSE "copy") /\ UNCHANGED failed
     \/ Goes("copy") /\ Fail({"over"})
  /\ UNCHANGED <<adj, bfsSlot, cpuCost, graph, device>>

\* h_cost is read back, or is left with what it began with.  As many numbers as the
\* graph took are copied from its NODES numbers: Junk, or the end of the daemon.
CopyBack ==
  /\ bfsPc = "copy"
  /\ \E h_cost \in {cost, [v \in Node |-> IF v = 0 THEN 0 ELSE - 1]} :
       /\ (h_cost = cost /\ UNCHANGED failed) \/ Fail({"result"})
       /\ \/ /\ bfsSlot' = [k \in 1 .. Len(bfsSlot) |-> IF k \leq NODES THEN h_cost[k - 1] ELSE Junk]
             /\ Goes("compare")
          \/ /\ Len(bfsSlot) > NODES
             /\ Goes("exited") /\ UNCHANGED bfsSlot
  /\ UNCHANGED <<adj, cpuCost, graph, device>>

\* compare_results looks at the first NODES numbers; then the slot's pages are
\* freed in place of the pages of h_cost.
CompareResults ==
  /\ bfsPc = "compare"
  /\ Goes("end")
  /\ UNCHANGED <<adj, bfsSlot, cpuCost, graph, failed, device>>

BfsStep ==
  \/ GenerateAdjacencyMatrix \/ ConvertToExd \/ BfsCpu \/ BfsLaunch
  \/ RoundStarts \/ Bfs1Ends \/ RoundEnds \/ CopyBack \/ CompareResults
  \/ \E v \in Node : Bfs1Tests(v) \/ Bfs1Edge(v) \/ Bfs2(v)

BfsNext == BfsStep \/ ClFails

BfsSpec == BfsInit /\ [][BfsNext]_bfsVars /\ WF_bfsVars(BfsStep)

-----------------------------------------------------------------------------
(* Properties                                                              *)

\* The nodes at most k edges away from node 0 in the client's graph.
Within ==
  LET near[k \in 0 .. NODES] ==
        IF k = 0 THEN {0} ELSE near[k - 1] \cup {w \in Node : \E v \in near[k - 1] : adj[<<v, w>>]}
  IN near

Distance(v) ==
  IF v \notin Within[NODES] THEN - 1
  ELSE CHOOSE k \in 0 .. NODES : v \in Within[k] /\ (k > 0 => v \notin Within[k - 1])

Loaded == failed \cap Arrays = {}

\* In whatever order work items run, no node ever holds a cost that is not its
\* distance, and only marked nodes are searched from.
CostsAreDistances ==
  bfsPc \in {"head", "bfs1", "bfs2", "copy"} /\ Loaded =>
    \A v \in Node :
      /\ cost[v] \in {- 1, Distance(v)}
      /\ mask[v] = 1 => visited[v] = 1 /\ cost[v] = Distance(v)

\* The client's own costs are the distances in the graph it made, through list and
\* slot; what it compares them with never is another cost, at worst none where a
\* transfer back failed, and the same when d_over and the costs were read.
ComparePasses ==
  bfsPc = "compare" =>
    \A v \in Node :
      /\ cpuCost[v] = Distance(v)
      /\ Loaded => bfsSlot[v + 1] \in {- 1, cpuCost[v]}
      /\ failed \subseteq {"clear"} => bfsSlot[v + 1] = cpuCost[v]

\* On any graph and in any order of work items the search finds the distances, and
\* nothing but them.
SearchExact == BfsTypeOK /\ CostsAreDistances /\ ComparePasses

\* The rounds come to an end, unless OpenCL fails, the graph was too dense or d_over
\* could not be cleared.
SearchEnds == bfsPc = "convert" ~> bfsPc \in {"end", "wild", "exited"} \/ "clear" \in failed
=============================================================================
