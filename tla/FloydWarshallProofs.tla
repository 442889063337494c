------------------------- MODULE FloydWarshallProofs -------------------------
(***************************************************************************)
(* A kernel pass computes the same matrix in whatever order its work items *)
(* run, for every size of the matrix, every content of a buffer and every  *)
(* order and failure of commands.  For every number of nodes and every     *)
(* weights the call leaves lengths in the client's slot that are never     *)
(* below the shortest, and the shortest where no command overtook another. *)
(***************************************************************************)
EXTENDS FloydWarshall, SeqLemmas, TLAPS

\* What a work item keeps between its test and its write is what it would compute
\* from the matrix before the pass.
TempExact ==
  pass # Idle =>
    \A e \in Entry : item[e] = "write" =>
      /\ temp[e] = before[<<e[1], pass.k>>] + before[<<pass.k, e[2]>>]
      /\ before[e] > temp[e]

\* Nothing is refused in the last launch.
RefusedIsRetried == ret > 0 => attempt < ATTEMPTS

PassInv == DeviceTypeOK /\ RefusedIsRetried /\ PassExact /\ TempExact

\* Every command of a launch is a pass or a transfer of that launch.
LEMMA CommandsType ==
  ASSUME NEW a \in Launches
  PROVE  Commands(a) \in Seq(Passes \cup Transfers) /\ Len(Commands(a)) = MATSIZE + 2
<1> DEFINE C == Passes \cup Transfers
           passes == [n \in 1 .. MATSIZE |-> [op |-> "pass", k |-> n - 1, of |-> a]]
<1>1. [op |-> "write", of |-> a] \in C /\ [op |-> "read", of |-> a] \in C
  BY DEF Transfers
<1>2. passes \in Seq(C) /\ Len(passes) = MATSIZE
  <2>1. \A n \in 1 .. MATSIZE : [op |-> "pass", k |-> n - 1, of |-> a] \in C
    BY FwAssumption DEF Passes, Index
  <2> QED
    BY <2>1, FwAssumption
<1>3. <<[op |-> "write", of |-> a]>> \in Seq(C) /\ <<[op |-> "read", of |-> a]>> \in Seq(C)
  BY <1>1
<1> HIDE DEF C, passes
<1>4. <<[op |-> "write", of |-> a]>> \o passes \o <<[op |-> "read", of |-> a]>> \in Seq(C)
  BY <1>2, <1>3
<1>5. Len(<<[op |-> "write", of |-> a]>> \o passes \o <<[op |-> "read", of |-> a]>>) = MATSIZE + 2
  BY <1>2, <1>3, FwAssumption
<1> QED
  BY <1>4, <1>5 DEF Commands, C, passes

\* Pass k leaves the column and the row of node k alone, since no entry is negative:
\* this is why work items may read them while others write.
LEMMA RowColumnStable ==
  ASSUME NEW m \in Matrices, NEW k \in Index, NEW i \in Index
  PROVE  /\ Relaxed(m, k, <<i, k>>) = m[<<i, k>>]
         /\ Relaxed(m, k, <<k, i>>) = m[<<k, i>>]
<1>1. {<<i, k>>, <<k, i>>, <<k, k>>} \subseteq Entry
  BY DEF Entry
<1>2. m[<<i, k>>] \in Nat /\ m[<<k, i>>] \in Nat /\ m[<<k, k>>] \in Nat
  BY <1>1 DEF Matrices
<1> QED
  BY <1>2 DEF Relaxed

LEMMA PassInvInit == FwInit => PassInv
<1> SUFFICES ASSUME FwInit PROVE PassInv
  OBVIOUS
<1> USE DEF FwInit
<1>1. \A g \in GARBAGE : [e \in Entry |-> g] \in Matrices
  BY FwAssumption DEF Matrices
<1>2. [e \in Entry |-> 0] \in Matrices
  BY FwAssumption DEF Matrices
<1>3. DeviceTypeOK
  <2>1. buf \in [Launches -> Matrices]
    <3> DEFINE G == {[e \in Entry |-> g] : g \in GARBAGE}
    <3>1. buf \in [Launches -> G]
      OBVIOUS
    <3>2. G \subseteq Matrices
      BY <1>1
    <3> HIDE DEF G
    <3> QED
      BY <3>1, <3>2
  <2>2. attempt \in Launches /\ given \in 1 .. MATSIZE + 3 /\ ret \in 0 .. FAILURES
    BY FwAssumption DEF Launches
  <2>3. slot \in Matrices /\ temp \in Matrices /\ before \in Matrices
    BY <1>2
  <2>4. queue \in Seq(Passes \cup Transfers) /\ pass \in Passes \cup {Idle} /\ overtaken \in 0 .. OVERTAKES
        /\ item \in [Entry -> {"start", "write", "done"}]
    BY FwAssumption
  <2> QED
    BY <2>1, <2>2, <2>3, <2>4 DEF DeviceTypeOK
<1>4. RefusedIsRetried /\ PassExact /\ TempExact
  BY DEF RefusedIsRetried, PassExact, TempExact
<1> QED
  BY <1>3, <1>4 DEF PassInv

\* While a pass runs, the entries its items read are those of before.
LEMMA ReadsAreOld ==
  ASSUME DeviceTypeOK, PassExact, pass # Idle, NEW e \in Entry
  PROVE  LET m == buf[pass.of] IN
         /\ pass.k \in Index /\ pass.of \in Launches
         /\ <<e[1], pass.k>> \in Entry /\ <<pass.k, e[2]>> \in Entry
         /\ m \in Matrices
         /\ m[<<e[1], pass.k>>] = before[<<e[1], pass.k>>]
         /\ m[<<pass.k, e[2]>>] = before[<<pass.k, e[2]>>]
         /\ before[<<e[1], pass.k>>] \in Nat /\ before[<<pass.k, e[2]>>] \in Nat
<1>1. pass.k \in Index /\ pass.of \in Launches
  BY DEF DeviceTypeOK, Passes
<1>2. e[1] \in Index /\ e[2] \in Index
  BY DEF Entry
<1>3. <<e[1], pass.k>> \in Entry /\ <<pass.k, e[2]>> \in Entry
  BY <1>1, <1>2 DEF Entry
<1>4. buf[pass.of] \in Matrices /\ before \in Matrices
  BY <1>1 DEF DeviceTypeOK
<1>5. /\ Relaxed(before, pass.k, <<e[1], pass.k>>) = before[<<e[1], pass.k>>]
      /\ Relaxed(before, pass.k, <<pass.k, e[2]>>) = before[<<pass.k, e[2]>>]
  BY <1>1, <1>2, <1>4, RowColumnStable
<1>6. /\ buf[pass.of][<<e[1], pass.k>>] = before[<<e[1], pass.k>>]
      /\ buf[pass.of][<<pass.k, e[2]>>] = before[<<pass.k, e[2]>>]
  BY <1>3, <1>5 DEF PassExact
<1>7. before[<<e[1], pass.k>>] \in Nat /\ before[<<pass.k, e[2]>>] \in Nat
  BY <1>3, <1>4 DEF Matrices
<1> QED
  BY <1>1, <1>3, <1>4, <1>6, <1>7

LEMMA PassInvStep == PassInv /\ [FwNext]_fwVars => PassInv'
<1> SUFFICES ASSUME PassInv, [FwNext]_fwVars PROVE PassInv'
  OBVIOUS
<1> USE DEF PassInv
<1> DEFINE S == Passes \cup Transfers
<1>1. CASE GenerateAdjacencyMatrix
  <2> USE <1>1
  <2>1. slot' \in Matrices
    <3>1. PICK w \in [{e \in Entry : e[1] < e[2]} -> WEIGHTS \cup {INF}] :
            cpu' = [e \in Entry |-> IF e[1] = e[2] THEN 0
                                    ELSE IF e[1] < e[2] THEN w[e] ELSE w[<<e[2], e[1]>>]]
      BY DEF GenerateAdjacencyMatrix
    <3>2. ASSUME NEW e \in Entry
          PROVE  (IF e[1] = e[2] THEN 0 ELSE IF e[1] < e[2] THEN w[e] ELSE w[<<e[2], e[1]>>]) \in 0 .. INF
      <4>1. e[1] \in Int /\ e[2] \in Int /\ <<e[2], e[1]>> \in Entry
        BY FwAssumption DEF Entry, Index
      <4>2. \A x \in WEIGHTS \cup {INF} : x \in 0 .. INF
        BY FwAssumption
      <4>3. e[1] < e[2] => w[e] \in WEIGHTS \cup {INF}
        OBVIOUS
      <4>4. e[2] < e[1] => w[<<e[2], e[1]>>] \in WEIGHTS \cup {INF}
        BY <4>1
      <4> QED
        BY <4>1, <4>2, <4>3, <4>4, FwAssumption
    <3> QED
      BY <3>1, <3>2 DEF GenerateAdjacencyMatrix, Matrices
  <2> QED
    BY <2>1 DEF GenerateAdjacencyMatrix, device, running, DeviceTypeOK, RefusedIsRetried, PassExact, TempExact
<1>2. CASE RunCpu \/ Finish
  BY <1>2 DEF RunCpu, Finish, device, running, DeviceTypeOK, RefusedIsRetried, PassExact, TempExact
<1>3. CASE Enqueue
  <2> USE <1>3
  <2>1. given' \in 1 .. MATSIZE + 3 /\ Commands(attempt)[given] \in S
    BY CommandsType, FwAssumption DEF Enqueue, DeviceTypeOK
  <2>2. queue' \in Seq(S)
    <3>1. queue' = queue \/ queue' = Append(queue, Commands(attempt)[given])
      BY DEF Enqueue
    <3>2. queue \in Seq(S)
      BY DEF DeviceTypeOK
    <3> HIDE DEF S
    <3> QED
      BY <2>1, <3>1, <3>2
  <2>3. ret' \in 0 .. FAILURES /\ RefusedIsRetried'
    BY FwAssumption DEF Enqueue, DeviceTypeOK, RefusedIsRetried
  <2> QED
    BY <2>1, <2>2, <2>3 DEF Enqueue, running, DeviceTypeOK, PassExact, TempExact
<1>4. CASE Enqueued
  <2>1. attempt' \in Launches /\ given' \in 1 .. MATSIZE + 3 /\ ret' \in 0 .. FAILURES
    BY <1>4, FwAssumption DEF Enqueued, DeviceTypeOK, Launches, RefusedIsRetried
  <2>2. RefusedIsRetried'
    BY <1>4 DEF Enqueued, RefusedIsRetried
  <2> QED
    BY <1>4, <2>1, <2>2 DEF Enqueued, device, running, DeviceTypeOK, PassExact, TempExact
<1>5. ASSUME NEW n \in DOMAIN queue, Starts(n)
      PROVE  queue' \in Seq(S) /\ queue[n] \in S /\ overtaken' \in 0 .. OVERTAKES
  <2>1. queue' \in Seq(S) /\ queue[n] \in S
    BY <1>5, RemoveAtType DEF Starts, DeviceTypeOK
  <2>2. overtaken' \in 0 .. OVERTAKES
    BY <1>5, FwAssumption DEF Starts, DeviceTypeOK
  <2> QED BY <2>1, <2>2
<1>6. ASSUME NEW n \in DOMAIN queue, WriteBuffer(n)
      PROVE  PassInv'
  <2>1. queue' \in Seq(S) /\ queue[n] \in S /\ overtaken' \in 0 .. OVERTAKES /\ pass = Idle
    BY <1>5, <1>6 DEF WriteBuffer, Starts
  <2>2. queue[n].of \in Launches
    BY <1>6, <2>1 DEF Passes, Transfers
  <2>3. buf' \in [Launches -> Matrices]
    BY <1>6, <2>2 DEF WriteBuffer, DeviceTypeOK
  <2> QED
    BY <1>6, <2>1, <2>3 DEF WriteBuffer, host, running, DeviceTypeOK, RefusedIsRetried, PassExact, TempExact
<1>7. ASSUME NEW n \in DOMAIN queue, ReadBuffer(n)
      PROVE  PassInv'
  <2>1. queue' \in Seq(S) /\ queue[n] \in S /\ overtaken' \in 0 .. OVERTAKES
    BY <1>5, <1>7 DEF ReadBuffer
  <2>2. queue[n].of \in Launches
    BY <1>7, <2>1 DEF Passes, Transfers
  <2>3. slot' \in Matrices
    BY <1>7, <2>2 DEF ReadBuffer, DeviceTypeOK
  <2> QED
    BY <1>7, <2>1, <2>3 DEF ReadBuffer, host, running, DeviceTypeOK, RefusedIsRetried, PassExact, TempExact
<1>8. ASSUME NEW n \in DOMAIN queue, PassStarts(n)
      PROVE  PassInv'
  <2>1. queue' \in Seq(S) /\ queue[n] \in S /\ overtaken' \in 0 .. OVERTAKES /\ queue[n].op = "pass"
    BY <1>5, <1>8 DEF PassStarts
  <2>2. queue[n] \in Passes /\ queue[n].of \in Launches
    BY <2>1 DEF Passes, Transfers
  <2>3. before' \in Matrices /\ item' \in [Entry -> {"start", "write", "done"}]
    BY <1>8, <2>2 DEF PassStarts, DeviceTypeOK
  <2>4. DeviceTypeOK' /\ RefusedIsRetried'
    BY <1>8, <2>1, <2>2, <2>3 DEF PassStarts, host, DeviceTypeOK, RefusedIsRetried
  <2>5. PassExact' /\ TempExact'
    BY <1>8 DEF PassStarts, PassExact, TempExact
  <2> QED
    BY <2>4, <2>5
<1>9. ASSUME NEW d \in Entry, ItemTests(d)
      PROVE  PassInv'
  <2> DEFINE m == buf[pass.of]
             sum == before[<<d[1], pass.k>>] + before[<<pass.k, d[2]>>]
  <2>1. pass # Idle /\ item[d] = "start" /\ m[d] = before[d]
    BY <1>9 DEF ItemTests, PassExact
  <2>2. /\ m[<<d[1], pass.k>>] + m[<<pass.k, d[2]>>] = sum
        /\ before[<<d[1], pass.k>>] \in Nat /\ before[<<pass.k, d[2]>>] \in Nat
    BY <2>1, ReadsAreOld
  <2>3. before[d] \in 0 .. INF /\ sum \in Nat
    <3>1. before[d] \in 0 .. INF
      BY DEF DeviceTypeOK, Matrices
    <3>2. \A x, y \in Nat : x + y \in Nat
      OBVIOUS
    <3> QED
      BY <2>2, <3>1, <3>2
  <2> HIDE DEF m, sum
  <2>4. CASE before[d] > sum
    <3>1. item' = [item EXCEPT ![d] = "write"] /\ temp' = [temp EXCEPT ![d] = sum]
      BY <1>9, <2>1, <2>2, <2>4 DEF ItemTests, m
    <3>2. sum \in 0 .. INF
      BY <2>3, <2>4, FwAssumption
    <3>3. temp' \in Matrices /\ item' \in [Entry -> {"start", "write", "done"}]
      BY <3>1, <3>2 DEF DeviceTypeOK, Matrices
    <3>4. PassExact'
      BY <1>9, <2>1, <3>1 DEF ItemTests, DeviceTypeOK, PassExact
    <3>5. TempExact'
      BY <1>9, <2>1, <2>4, <3>1 DEF ItemTests, DeviceTypeOK, Matrices, TempExact, sum
    <3> QED
      BY <1>9, <3>3, <3>4, <3>5 DEF ItemTests, host, DeviceTypeOK, RefusedIsRetried
  <2>5. CASE ~(before[d] > sum)
    <3>1. item' = [item EXCEPT ![d] = "done"] /\ temp' = temp
      BY <1>9, <2>1, <2>2, <2>5 DEF ItemTests, m
    <3>2. Relaxed(before, pass.k, d) = before[d]
      BY <2>5 DEF Relaxed, sum
    <3>3. PassExact'
      BY <1>9, <2>1, <3>1, <3>2 DEF ItemTests, DeviceTypeOK, PassExact, m
    <3>4. TempExact'
      BY <1>9, <2>1, <3>1 DEF ItemTests, DeviceTypeOK, TempExact
    <3> QED
      BY <1>9, <3>1, <3>3, <3>4 DEF ItemTests, host, DeviceTypeOK, RefusedIsRetried
  <2> QED
    BY <2>4, <2>5
<1>10. ASSUME NEW d \in Entry, ItemWrites(d)
       PROVE  PassInv'
  <2>1. pass # Idle /\ item[d] = "write" /\ pass.of \in Launches
    BY <1>10 DEF ItemWrites, DeviceTypeOK, Passes
  <2>2. Relaxed(before, pass.k, d) = temp[d]
    BY <2>1 DEF TempExact, Relaxed
  <2>3. temp[d] \in 0 .. INF /\ 0 \in 0 .. INF
    BY FwAssumption DEF DeviceTypeOK, Matrices
  <2>4. buf[pass.of] \in Matrices /\ buf'[pass.of] = [buf[pass.of] EXCEPT ![d] = temp[d]]
    BY <1>10, <2>1 DEF ItemWrites, DeviceTypeOK
  <2>5. buf' \in [Launches -> Matrices] /\ temp' \in Matrices
    BY <1>10, <2>1, <2>3, <2>4 DEF ItemWrites, DeviceTypeOK, Matrices
  <2>6. DeviceTypeOK' /\ RefusedIsRetried'
    BY <1>10, <2>5 DEF ItemWrites, host, DeviceTypeOK, RefusedIsRetried
  <2>7. PassExact'
    BY <1>10, <2>1, <2>2, <2>4 DEF ItemWrites, DeviceTypeOK, Matrices, PassExact
  <2>8. TempExact'
    BY <1>10, <2>1 DEF ItemWrites, DeviceTypeOK, Matrices, TempExact
  <2> QED
    BY <2>6, <2>7, <2>8
<1>11. CASE PassEnds
  BY <1>11 DEF PassEnds, host, DeviceTypeOK, RefusedIsRetried, PassExact, TempExact
<1>12. CASE UNCHANGED fwVars
  BY <1>12 DEF fwVars, host, device, running, DeviceTypeOK, RefusedIsRetried, PassExact, TempExact
<1> QED
  BY <1>1, <1>2, <1>3, <1>4, <1>6, <1>7, <1>8, <1>9, <1>10, <1>11, <1>12 DEF FwNext

\* floydWarshallPass is exact: for every size of the matrix, in whatever order its
\* work items run, an entry is what it was before the pass until its item is
\* through and then the shorter of itself and the way through node k.
THEOREM PassesAreExact == FwSpec => []PassExact
<1>1. PassInv => PassExact
  BY DEF PassInv
<1> QED
  BY <1>1, PassInvInit, PassInvStep, PTL DEF FwSpec

-----------------------------------------------------------------------------
(* Shortest paths                                                          *)

\* A matrix of weights: no way is shorter than from a node to itself.
Weights(w) ==
  /\ w \in Matrices
  /\ \A i \in Index : w[<<i, i>>] = 0
  /\ \A i, j \in Index : i # j => w[<<i, j>>] > 0

\* What a matrix keeps whatever passes are made over it, starting with the weights w:
\* no entry is longer than the edge, and the last edge of a way can be told.
Lengths(m, w) ==
  /\ m \in Matrices
  /\ \A i \in Index : m[<<i, i>>] = 0
  /\ \A i, j \in Index : m[<<i, j>>] <= w[<<i, j>>]
  /\ \A i, j \in Index : i # j =>
       \E v \in Index : v # j /\ m[<<i, v>>] + w[<<v, j>>] <= m[<<i, j>>]

\* No entry is longer than a way through one of the first k nodes.
Closed(m, k) ==
  \A i, j \in Index, u \in 0 .. k - 1 : m[<<i, j>>] <= m[<<i, u>>] + m[<<u, j>>]

\* The matrix after pass k.
Pass(m, k) == [e \in Entry |-> Relaxed(m, k, e)]

LEMMA MatrixType ==
  ASSUME NEW m \in Matrices, NEW i \in Index, NEW j \in Index
  PROVE  <<i, j>> \in Entry /\ m[<<i, j>>] \in 0 .. INF /\ m[<<i, j>>] \in Nat
BY FwAssumption DEF Matrices, Entry

LEMMA PassEntry ==
  ASSUME NEW m \in Matrices, NEW k \in Index, NEW i \in Index, NEW j \in Index
  PROVE  /\ Pass(m, k)[<<i, j>>] = IF m[<<i, j>>] > m[<<i, k>>] + m[<<k, j>>]
                                    THEN m[<<i, k>>] + m[<<k, j>>] ELSE m[<<i, j>>]
         /\ Pass(m, k)[<<i, j>>] \in 0 .. INF
         /\ Pass(m, k)[<<i, j>>] <= m[<<i, j>>]
         /\ Pass(m, k)[<<i, j>>] <= m[<<i, k>>] + m[<<k, j>>]
<1>1. <<i, j>> \in Entry /\ m[<<i, j>>] \in 0 .. INF /\ m[<<i, k>>] \in Nat /\ m[<<k, j>>] \in Nat
  BY MatrixType
<1>2. Pass(m, k)[<<i, j>>] = IF m[<<i, j>>] > m[<<i, k>>] + m[<<k, j>>]
                             THEN m[<<i, k>>] + m[<<k, j>>] ELSE m[<<i, j>>]
  BY <1>1 DEF Pass, Relaxed
<1> QED BY <1>1, <1>2, FwAssumption

LEMMA PassType ==
  ASSUME NEW m \in Matrices, NEW k \in Index
  PROVE  Pass(m, k) \in Matrices
<1> SUFFICES ASSUME NEW e \in Entry PROVE Relaxed(m, k, e) \in 0 .. INF
  BY DEF Pass, Matrices
<1>1. PICK i \in Index, j \in Index : e = <<i, j>>
  BY DEF Entry
<1>2. Pass(m, k)[e] \in 0 .. INF
  BY <1>1, PassEntry
<1> QED BY <1>2 DEF Pass

LEMMA PassKeepsLengths ==
  ASSUME NEW w, Weights(w), NEW m, Lengths(m, w), NEW k \in Index
  PROVE  Lengths(Pass(m, k), w)
<1> DEFINE p == Pass(m, k)
<1>0. m \in Matrices /\ w \in Matrices /\ p \in Matrices
  BY PassType DEF Lengths, Weights
<1>1. ASSUME NEW i \in Index PROVE p[<<i, i>>] = 0
  <2>1. p[<<i, i>>] <= m[<<i, i>>] /\ m[<<i, i>>] = 0 /\ p[<<i, i>>] \in Nat
    BY <1>0, PassEntry, MatrixType DEF Lengths
  <2> QED BY <2>1
<1>2. ASSUME NEW i \in Index, NEW j \in Index PROVE p[<<i, j>>] <= w[<<i, j>>]
  <2>1. p[<<i, j>>] <= m[<<i, j>>] /\ m[<<i, j>>] <= w[<<i, j>>]
    BY <1>0, PassEntry DEF Lengths
  <2>2. p[<<i, j>>] \in Nat /\ m[<<i, j>>] \in Nat /\ w[<<i, j>>] \in Nat
    BY <1>0, MatrixType
  <2> QED BY <2>1, <2>2
<1>3. ASSUME NEW i \in Index, NEW j \in Index, i # j
      PROVE  \E v \in Index : v # j /\ p[<<i, v>>] + w[<<v, j>>] <= p[<<i, j>>]
  <2>1. CASE p[<<i, j>>] = m[<<i, j>>]
    <3>1. PICK v \in Index : v # j /\ m[<<i, v>>] + w[<<v, j>>] <= m[<<i, j>>]
      BY <1>3 DEF Lengths
    <3>2. p[<<i, v>>] <= m[<<i, v>>]
      BY <1>0, PassEntry
    <3>3. p[<<i, v>>] \in Nat /\ m[<<i, v>>] \in Nat /\ w[<<v, j>>] \in Nat /\ m[<<i, j>>] \in Nat
      BY <1>0, MatrixType
    <3>4. p[<<i, v>>] + w[<<v, j>>] <= p[<<i, j>>]
      BY <2>1, <3>1, <3>2, <3>3
    <3> QED BY <3>1, <3>4
  <2>2. CASE p[<<i, j>>] # m[<<i, j>>]
    <3>1. p[<<i, j>>] = m[<<i, k>>] + m[<<k, j>>] /\ m[<<i, j>>] > m[<<i, k>>] + m[<<k, j>>]
      BY <1>0, <2>2, PassEntry
    <3>2. k # j
      <4>1. m[<<j, j>>] = 0 /\ m[<<i, j>>] \in Nat
        BY <1>0, MatrixType DEF Lengths
      <4> QED BY <3>1, <4>1
    <3>3. PICK v \in Index : v # j /\ m[<<k, v>>] + w[<<v, j>>] <= m[<<k, j>>]
      BY <3>2 DEF Lengths
    <3>4. p[<<i, v>>] <= m[<<i, k>>] + m[<<k, v>>]
      BY <1>0, PassEntry
    <3>5. /\ p[<<i, v>>] \in Nat /\ m[<<i, k>>] \in Nat /\ m[<<k, v>>] \in Nat
          /\ w[<<v, j>>] \in Nat /\ m[<<k, j>>] \in Nat
      BY <1>0, MatrixType
    <3>6. p[<<i, v>>] + w[<<v, j>>] <= p[<<i, j>>]
      BY <3>1, <3>3, <3>4, <3>5
    <3> QED BY <3>3, <3>6
  <2> QED BY <2>1, <2>2
<1> HIDE DEF p
<1>4. Lengths(p, w)
  BY <1>0, <1>1, <1>2, <1>3 DEF Lengths
<1> QED BY <1>4 DEF p

\* Pass k adds node k to the nodes through which no way is shorter.
LEMMA PassCloses ==
  ASSUME NEW m \in Matrices, NEW k \in Index, Closed(m, k)
  PROVE  Closed(Pass(m, k), k + 1)
<1> DEFINE p == Pass(m, k)
<1> SUFFICES ASSUME NEW i \in Index, NEW j \in Index, NEW u \in 0 .. k
             PROVE  p[<<i, j>>] <= p[<<i, u>>] + p[<<u, j>>]
  <2>1. 0 .. (k + 1) - 1 = 0 .. k
    BY DEF Index
  <2> HIDE DEF p
  <2>2. Closed(p, k + 1)
    BY <2>1 DEF Closed
  <2> QED BY <2>2 DEF p
<1>0. u \in Index
  BY FwAssumption DEF Index
<1>1. /\ m[<<i, j>>] \in Nat /\ m[<<i, u>>] \in Nat /\ m[<<u, j>>] \in Nat /\ m[<<i, k>>] \in Nat
      /\ m[<<k, j>>] \in Nat /\ m[<<k, u>>] \in Nat /\ m[<<u, k>>] \in Nat /\ m[<<k, k>>] \in Nat
  BY <1>0, MatrixType
<1>2. /\ p[<<i, j>>] <= m[<<i, j>>] /\ p[<<i, j>>] <= m[<<i, k>>] + m[<<k, j>>]
      /\ p[<<i, u>>] = m[<<i, u>>] \/ p[<<i, u>>] = m[<<i, k>>] + m[<<k, u>>]
      /\ p[<<u, j>>] = m[<<u, j>>] \/ p[<<u, j>>] = m[<<u, k>>] + m[<<k, j>>]
      /\ p[<<i, j>>] \in Nat
  BY <1>0, PassEntry
<1>3. CASE u = k
  BY <1>1, <1>2, <1>3
<1>4. CASE u # k
  <2>1. u \in 0 .. k - 1
    BY <1>4, FwAssumption DEF Index
  <2>2. /\ m[<<i, j>>] <= m[<<i, u>>] + m[<<u, j>>]
        /\ m[<<k, j>>] <= m[<<k, u>>] + m[<<u, j>>]
        /\ m[<<i, k>>] <= m[<<i, u>>] + m[<<u, k>>]
    BY <2>1 DEF Closed
  <2> HIDE DEF p
  <2> QED BY <1>1, <1>2, <2>2
<1> QED BY <1>3, <1>4

LEMMA LeastOf ==
  ASSUME NEW S, S \subseteq Nat, S # {}
  PROVE  Least(S) \in S /\ \A y \in S : Least(S) <= y
BY FirstPlace DEF Least

\* The sums from which the length of a shortest path of one edge more is taken.
Sums(m, w, e) == {INF} \cup {m[<<e[1], v>>] + w[<<v, e[2]>>] : v \in Index}

Longer(m, w) == [e \in Entry |-> Least(Sums(m, w, e))]

NoEdges == [e \in Entry |-> IF e[1] = e[2] THEN 0 ELSE INF]

LEMMA LongerEntry ==
  ASSUME NEW m \in Matrices, NEW w \in Matrices, NEW i \in Index, NEW j \in Index
  PROVE  LET l == Longer(m, w)[<<i, j>>] IN
         /\ l \in 0 .. INF
         /\ \A v \in Index : l <= m[<<i, v>>] + w[<<v, j>>]
         /\ l = INF \/ \E v \in Index : l = m[<<i, v>>] + w[<<v, j>>]
<1> DEFINE S == Sums(m, w, <<i, j>>)
           l == Longer(m, w)[<<i, j>>]
<1>1. <<i, j>> \in Entry /\ \A v \in Index : m[<<i, v>>] \in Nat /\ w[<<v, j>>] \in Nat
  BY MatrixType
<1>2. S = {INF} \cup {m[<<i, v>>] + w[<<v, j>>] : v \in Index}
  BY DEF Sums
<1>3. S \subseteq Nat /\ INF \in S
  <2>1. \A v \in Index : m[<<i, v>>] + w[<<v, j>>] \in Nat
    BY <1>1
  <2> QED BY <1>2, <2>1, FwAssumption
<1>4. l = Least(S)
  BY <1>1 DEF Longer
<1> HIDE DEF S, l
<1>5. l \in S /\ \A y \in S : l <= y
  BY <1>3, <1>4, LeastOf
<1>6. l \in 0 .. INF
  BY <1>3, <1>5, FwAssumption
<1>7. \A v \in Index : l <= m[<<i, v>>] + w[<<v, j>>]
  BY <1>2, <1>5
<1>8. l = INF \/ \E v \in Index : l = m[<<i, v>>] + w[<<v, j>>]
  BY <1>2, <1>5
<1> QED BY <1>6, <1>7, <1>8 DEF l

LEMMA LongerType ==
  ASSUME NEW m \in Matrices, NEW w \in Matrices
  PROVE  Longer(m, w) \in Matrices
<1> SUFFICES ASSUME NEW e \in Entry PROVE Least(Sums(m, w, e)) \in 0 .. INF
  BY DEF Longer, Matrices
<1>1. PICK i \in Index, j \in Index : e = <<i, j>>
  BY DEF Entry
<1>2. Longer(m, w)[e] \in 0 .. INF
  BY <1>1, LongerEntry
<1> QED BY <1>2 DEF Longer

\* The recursive definition has the values it describes.
LEMMA ShortestWithinIs ==
  ASSUME NEW w \in Matrices
  PROVE  LET best == ShortestWithin(w) IN
         /\ best \in [0 .. MATSIZE -> Matrices] /\ best[0] = NoEdges
         /\ \A n \in 1 .. MATSIZE : best[n] = Longer(best[n - 1], w)
<1> DEFINE Describes(b) ==
             b = [n \in 0 .. MATSIZE |-> IF n = 0 THEN NoEdges ELSE Longer(b[n - 1], w)]
           step == [x \in Nat \X Matrices |-> Longer(x[2], w)]
<1>1. NoEdges \in Matrices
  BY FwAssumption DEF NoEdges, Matrices
<1>2. step \in Steps(Matrices)
  BY LongerType DEF Steps
<1>3. MATSIZE \in Nat
  BY FwAssumption
<1>4. \A n \in Nat, m \in Matrices : step[<<n, m>>] = Longer(m, w)
  OBVIOUS
<1> HIDE DEF step
<1>5. PICK f : Follows(f, Matrices, NoEdges, step, MATSIZE)
  BY <1>1, <1>2, <1>3, RecursionExists
<1>5a. /\ f \in [0 .. MATSIZE -> Matrices]
       /\ f[0] = NoEdges /\ \A n \in 1 .. MATSIZE : f[n] = step[<<n, f[n - 1]>>]
  BY <1>5 DEF Follows
<1>6. \A n \in 1 .. MATSIZE : f[n] = Longer(f[n - 1], w)
  <2> SUFFICES ASSUME NEW n \in 1 .. MATSIZE PROVE f[n] = Longer(f[n - 1], w)
    OBVIOUS
  <2>1. n \in Nat /\ f[n - 1] \in Matrices
    BY <1>3, <1>5a
  <2> QED BY <1>4, <1>5a, <2>1
<1>7. Describes(f)
  <2>1. \A n \in 0 .. MATSIZE : f[n] = IF n = 0 THEN NoEdges ELSE Longer(f[n - 1], w)
    BY <1>3, <1>5a, <1>6
  <2> QED BY <1>5a, <2>1
<1>8. ShortestWithin(w) = CHOOSE b : Describes(b)
  BY DEF ShortestWithin, NoEdges, Longer, Sums
<1> DEFINE best == ShortestWithin(w)
<1>9. Describes(best)
  BY <1>7, <1>8
<1> HIDE DEF best
<1>10. best[0] = NoEdges /\ \A n \in 1 .. MATSIZE : best[n] = Longer(best[n - 1], w)
  BY <1>3, <1>9
<1>11. \A n \in 0 .. MATSIZE : best[n] \in Matrices
  <2> DEFINE T == {n \in 0 .. MATSIZE : best[n] \in Matrices}
  <2>1. 0 \in T
    BY <1>1, <1>3, <1>10
  <2>2. \A n \in 0 .. MATSIZE - 1 : n \in T => n + 1 \in T
    <3> SUFFICES ASSUME NEW n \in 0 .. MATSIZE - 1, n \in T PROVE n + 1 \in T
      OBVIOUS
    <3>1. n + 1 \in 1 .. MATSIZE /\ (n + 1) - 1 = n
      BY <1>3
    <3>2. best[n + 1] = Longer(best[n], w)
      BY <1>10, <3>1
    <3> QED BY <3>1, <3>2, LongerType
  <2> HIDE DEF T
  <2>3. \A n \in 0 .. MATSIZE : n \in T
    BY <1>3, <2>1, <2>2, BoundedInduction
  <2> QED BY <2>3 DEF T
<1>12. best \in [0 .. MATSIZE -> Matrices]
  BY <1>9, <1>11
<1> QED BY <1>10, <1>12 DEF best

\* No path is shorter than an entry of a closed matrix.
LEMMA ClosedIsLower ==
  ASSUME NEW w, Weights(w), NEW m, Lengths(m, w), Closed(m, MATSIZE)
  PROVE  \A n \in 0 .. MATSIZE : \A i, j \in Index : m[<<i, j>>] <= ShortestWithin(w)[n][<<i, j>>]
<1> DEFINE best == ShortestWithin(w)
           T == {n \in 0 .. MATSIZE : \A i, j \in Index : m[<<i, j>>] <= best[n][<<i, j>>]}
<1>0. w \in Matrices /\ m \in Matrices /\ MATSIZE \in Nat
  BY FwAssumption DEF Weights, Lengths
<1>1. /\ best \in [0 .. MATSIZE -> Matrices] /\ best[0] = NoEdges
      /\ \A n \in 1 .. MATSIZE : best[n] = Longer(best[n - 1], w)
  BY <1>0, ShortestWithinIs
<1> HIDE DEF best
<1>2. 0 \in T
  <2> SUFFICES ASSUME NEW i \in Index, NEW j \in Index PROVE m[<<i, j>>] <= best[0][<<i, j>>]
    BY <1>0
  <2>1. <<i, j>> \in Entry /\ m[<<i, j>>] \in 0 .. INF /\ (i = j => m[<<i, j>>] = 0)
    BY <1>0, MatrixType DEF Lengths
  <2>2. best[0][<<i, j>>] = IF i = j THEN 0 ELSE INF
    BY <1>1, <2>1 DEF NoEdges
  <2> QED BY <2>1, <2>2, FwAssumption
<1>3. ASSUME NEW n \in 0 .. MATSIZE - 1, n \in T PROVE n + 1 \in T
  <2>1. n + 1 \in 1 .. MATSIZE /\ n + 1 \in 0 .. MATSIZE /\ (n + 1) - 1 = n /\ n \in 0 .. MATSIZE
    BY <1>0
  <2>2. best[n + 1] = Longer(best[n], w) /\ best[n] \in Matrices
    BY <1>1, <2>1
  <2> SUFFICES ASSUME NEW i \in Index, NEW j \in Index PROVE m[<<i, j>>] <= best[n + 1][<<i, j>>]
    BY <2>1
  <2>3. CASE best[n + 1][<<i, j>>] = INF
    <3>1. m[<<i, j>>] \in 0 .. INF
      BY <1>0, MatrixType
    <3> QED BY <2>3, <3>1, FwAssumption
  <2>4. CASE best[n + 1][<<i, j>>] # INF
    <3>1. PICK v \in Index : best[n + 1][<<i, j>>] = best[n][<<i, v>>] + w[<<v, j>>]
      <4>1. \/ Longer(best[n], w)[<<i, j>>] = INF
            \/ \E v \in Index : Longer(best[n], w)[<<i, j>>] = best[n][<<i, v>>] + w[<<v, j>>]
        BY <1>0, <2>2, LongerEntry
      <4> QED BY <2>2, <2>4, <4>1
    <3>2. m[<<i, v>>] <= best[n][<<i, v>>] /\ m[<<v, j>>] <= w[<<v, j>>]
      BY <1>3 DEF Lengths
    <3>3. v \in 0 .. MATSIZE - 1
      BY DEF Index
    <3>4. m[<<i, j>>] <= m[<<i, v>>] + m[<<v, j>>]
      BY <3>3 DEF Closed
    <3>5. /\ m[<<i, j>>] \in Nat /\ m[<<i, v>>] \in Nat /\ m[<<v, j>>] \in Nat
          /\ best[n][<<i, v>>] \in Nat /\ w[<<v, j>>] \in Nat
      BY <1>0, <2>2, MatrixType
    <3> QED BY <3>1, <3>2, <3>4, <3>5
  <2> QED BY <2>3, <2>4
<1> HIDE DEF T
<1>4. \A n \in 0 .. MATSIZE : n \in T
  BY <1>0, <1>2, <1>3, BoundedInduction
<1> QED BY <1>4 DEF T, best

\* The nodes nearer to i than j is.
Nearer(m, i, j) == {u \in Index : m[<<i, u>>] < m[<<i, j>>]}

LEMMA NearerCount ==
  ASSUME NEW m, NEW i \in Index, NEW j \in Index
  PROVE  /\ IsFiniteSet(Nearer(m, i, j)) /\ Cardinality(Nearer(m, i, j)) \in Nat
         /\ Cardinality(Nearer(m, i, j)) <= MATSIZE
<1>1. IsFiniteSet(Index) /\ Cardinality(Index) = MATSIZE
  <2>1. 0 \in Int /\ MATSIZE - 1 \in Int /\ MATSIZE \in Nat \ {0}
    BY FwAssumption
  <2>2. IsFiniteSet(0 .. MATSIZE - 1) /\ Cardinality(0 .. MATSIZE - 1) = MATSIZE
    BY <2>1, FS_Interval
  <2> QED BY <2>2 DEF Index
<1>2. Nearer(m, i, j) \subseteq Index
  BY DEF Nearer
<1> QED BY <1>1, <1>2, FS_Subset, FS_CardinalityType

\* A path with as many edges as there are nodes nearer than its end is as short as the entry.
LEMMA LengthIsReached ==
  ASSUME NEW w, Weights(w), NEW m, Lengths(m, w)
  PROVE  \A i, j \in Index : ShortestWithin(w)[MATSIZE][<<i, j>>] <= m[<<i, j>>]
<1> DEFINE best == ShortestWithin(w)
           rank(i, j) == Cardinality(Nearer(m, i, j))
           T == {n \in 0 .. MATSIZE : \A i, j \in Index : rank(i, j) <= n => best[n][<<i, j>>] <= m[<<i, j>>]}
<1>0. w \in Matrices /\ m \in Matrices /\ MATSIZE \in Nat
  BY FwAssumption DEF Weights, Lengths
<1>1. /\ best \in [0 .. MATSIZE -> Matrices] /\ best[0] = NoEdges
      /\ \A n \in 1 .. MATSIZE : best[n] = Longer(best[n - 1], w)
  BY <1>0, ShortestWithinIs
<1>2. ASSUME NEW i \in Index, NEW j \in Index, i # j
      PROVE  \E v \in Index : rank(i, v) < rank(i, j) /\ m[<<i, v>>] + w[<<v, j>>] <= m[<<i, j>>]
  <2>1. PICK v \in Index : v # j /\ m[<<i, v>>] + w[<<v, j>>] <= m[<<i, j>>]
    BY <1>2 DEF Lengths
  <2>2. /\ w[<<v, j>>] > 0 /\ w[<<v, j>>] \in Nat /\ m[<<i, v>>] \in Nat /\ m[<<i, j>>] \in Nat
        /\ \A u \in Index : m[<<i, u>>] \in Nat
    BY <1>0, <2>1, MatrixType DEF Weights
  <2>3. m[<<i, v>>] < m[<<i, j>>]
    BY <2>1, <2>2
  <2>4. Nearer(m, i, v) \subseteq Nearer(m, i, j)
    BY <2>2, <2>3 DEF Nearer
  <2>5. v \in Nearer(m, i, j) /\ v \notin Nearer(m, i, v)
    BY <2>2, <2>3 DEF Nearer
  <2>6. rank(i, v) < rank(i, j)
    <3>1. /\ IsFiniteSet(Nearer(m, i, j)) /\ rank(i, v) \in Nat /\ rank(i, j) \in Nat
      BY NearerCount
    <3>2. rank(i, v) <= rank(i, j) /\ (rank(i, v) = rank(i, j) => Nearer(m, i, v) = Nearer(m, i, j))
      BY <2>4, <3>1, FS_Subset
    <3> QED BY <2>5, <3>1, <3>2
  <2> QED BY <2>1, <2>6
<1>3. \A i, j \in Index : rank(i, j) \in Nat /\ rank(i, j) <= MATSIZE
  BY NearerCount
<1>4. \A i \in Index : rank(i, i) = 0
  <2> SUFFICES ASSUME NEW i \in Index PROVE Nearer(m, i, i) = {}
    BY FS_EmptySet
  <2>1. m[<<i, i>>] = 0 /\ \A u \in Index : m[<<i, u>>] \in Nat
    BY <1>0, MatrixType DEF Lengths
  <2> QED BY <2>1 DEF Nearer
<1> HIDE DEF best, rank
<1>5. 0 \in T
  <2> SUFFICES ASSUME NEW i \in Index, NEW j \in Index, rank(i, j) <= 0 PROVE best[0][<<i, j>>] <= m[<<i, j>>]
    BY <1>0
  <2>1. i = j
    <3> SUFFICES ASSUME i # j PROVE FALSE
      OBVIOUS
    <3>1. PICK v \in Index : rank(i, v) < rank(i, j)
      BY <1>2
    <3> QED BY <1>3, <3>1
  <2>2. <<i, j>> \in Entry /\ m[<<i, j>>] \in Nat
    BY <1>0, MatrixType
  <2>3. best[0][<<i, j>>] = 0
    BY <1>1, <2>1, <2>2 DEF NoEdges
  <2> QED BY <2>2, <2>3
<1>6. ASSUME NEW n \in 0 .. MATSIZE - 1, n \in T PROVE n + 1 \in T
  <2>1. n + 1 \in 1 .. MATSIZE /\ n + 1 \in 0 .. MATSIZE /\ (n + 1) - 1 = n /\ n \in 0 .. MATSIZE /\ n \in Nat
    BY <1>0
  <2>2. best[n + 1] = Longer(best[n], w) /\ best[n] \in Matrices /\ best[n + 1] \in Matrices
    BY <1>1, <2>1
  <2> SUFFICES ASSUME NEW i \in Index, NEW j \in Index, rank(i, j) <= n + 1
               PROVE  best[n + 1][<<i, j>>] <= m[<<i, j>>]
    BY <2>1
  <2>3. PICK v \in Index : rank(i, v) <= n /\ m[<<i, v>>] + w[<<v, j>>] <= m[<<i, j>>]
    <3>1. CASE i = j
      <4>1. rank(i, j) <= n
        BY <1>4, <2>1, <3>1
      <4>2. w[<<j, j>>] = 0 /\ m[<<i, j>>] \in Nat
        BY <1>0, MatrixType DEF Weights
      <4>3. m[<<i, j>>] + w[<<j, j>>] <= m[<<i, j>>]
        BY <4>2
      <4> QED BY <4>1, <4>3
    <3>2. CASE i # j
      <4>1. PICK v \in Index : rank(i, v) < rank(i, j) /\ m[<<i, v>>] + w[<<v, j>>] <= m[<<i, j>>]
        BY <1>2, <3>2
      <4>2. rank(i, v) <= n
        BY <1>3, <2>1, <4>1
      <4> QED BY <4>1, <4>2
    <3> QED BY <3>1, <3>2
  <2>4. best[n][<<i, v>>] <= m[<<i, v>>]
    BY <1>6, <2>3
  <2>5. best[n + 1][<<i, j>>] <= best[n][<<i, v>>] + w[<<v, j>>]
    BY <1>0, <2>2, LongerEntry
  <2>6. /\ m[<<i, j>>] \in Nat /\ m[<<i, v>>] \in Nat /\ best[n + 1][<<i, j>>] \in Nat
        /\ best[n][<<i, v>>] \in Nat /\ w[<<v, j>>] \in Nat
    BY <1>0, <2>2, MatrixType
  <2> QED BY <2>3, <2>4, <2>5, <2>6
<1> HIDE DEF T
<1>7. MATSIZE \in T
  <2>1. \A n \in 0 .. MATSIZE : n \in T
    BY <1>0, <1>5, <1>6, BoundedInduction
  <2> QED BY <1>0, <2>1
<1> QED BY <1>3, <1>7 DEF T, best

\* No entry of lengths is below the shortest path.
LEMMA NoneIsShorter ==
  ASSUME NEW w, Weights(w), NEW m, Lengths(m, w)
  PROVE  \A e \in Entry : m[e] >= Shortest(w)[e]
<1>0. w \in Matrices /\ m \in Matrices /\ MATSIZE \in 0 .. MATSIZE
  BY FwAssumption DEF Weights, Lengths
<1>1. Shortest(w) \in Matrices
  BY <1>0, ShortestWithinIs DEF Shortest
<1>2. \A i, j \in Index : m[<<i, j>>] >= Shortest(w)[<<i, j>>]
  <2> SUFFICES ASSUME NEW i \in Index, NEW j \in Index PROVE m[<<i, j>>] >= Shortest(w)[<<i, j>>]
    OBVIOUS
  <2>1. Shortest(w)[<<i, j>>] <= m[<<i, j>>]
    BY LengthIsReached DEF Shortest
  <2>2. m[<<i, j>>] \in Nat /\ Shortest(w)[<<i, j>>] \in Nat
    BY <1>0, <1>1, MatrixType
  <2> QED BY <2>1, <2>2
<1> QED BY <1>2 DEF Entry

\* A closed matrix of lengths holds the lengths of the shortest paths.
LEMMA ClosedIsShortest ==
  ASSUME NEW w, Weights(w), NEW m, Lengths(m, w), Closed(m, MATSIZE)
  PROVE  m = Shortest(w)
<1>0. w \in Matrices /\ m \in Matrices /\ MATSIZE \in 0 .. MATSIZE
  BY FwAssumption DEF Weights, Lengths
<1>1. Shortest(w) \in Matrices
  BY <1>0, ShortestWithinIs DEF Shortest
<1>2. \A i, j \in Index : m[<<i, j>>] = Shortest(w)[<<i, j>>]
  <2> SUFFICES ASSUME NEW i \in Index, NEW j \in Index PROVE m[<<i, j>>] = Shortest(w)[<<i, j>>]
    OBVIOUS
  <2>1. m[<<i, j>>] <= Shortest(w)[<<i, j>>] /\ Shortest(w)[<<i, j>>] <= m[<<i, j>>]
    BY <1>0, ClosedIsLower, LengthIsReached DEF Shortest
  <2>2. m[<<i, j>>] \in Nat /\ Shortest(w)[<<i, j>>] \in Nat
    BY <1>0, <1>1, MatrixType
  <2> QED BY <2>1, <2>2
<1>3. \A e \in Entry : m[e] = Shortest(w)[e]
  BY <1>2 DEF Entry
<1> QED BY <1>0, <1>1, <1>3 DEF Matrices

-----------------------------------------------------------------------------
(* The client's loops                                                      *)

\* One turn of the three loops, the turns being counted from 0.
Turn(now, n) ==
  LET k == n \div (MATSIZE * MATSIZE)
      i == (n \div MATSIZE) % MATSIZE
      j == n % MATSIZE
  IN [now EXCEPT ![<<i, j>>] = Relaxed(now, k, <<i, j>>)]

LEMMA TurnIndex ==
  ASSUME NEW k \in Index, NEW i \in Index, NEW j \in Index
  PROVE  LET n == k * (MATSIZE * MATSIZE) + (i * MATSIZE + j) IN
         /\ n \div (MATSIZE * MATSIZE) = k
         /\ (n \div MATSIZE) % MATSIZE = i /\ n % MATSIZE = j
         /\ i * MATSIZE + j \in 0 .. MATSIZE * MATSIZE - 1
         /\ n \in 0 .. MATSIZE * MATSIZE * MATSIZE - 1
<1> DEFINE N == MATSIZE
           NN == N * N
           t == i * N + j
           n == k * NN + t
<1>0. N \in Nat \ {0} /\ NN \in Nat \ {0} /\ k \in 0 .. N - 1 /\ i \in 0 .. N - 1 /\ j \in 0 .. N - 1
  BY FwAssumption DEF Index
<1>1. t \in 0 .. NN - 1
  <2>1. i * N <= (N - 1) * N /\ i * N \in Nat
    BY <1>0, ProductOrder
  <2>2. (N - 1) * N = NN - N
    BY <1>0
  <2> HIDE DEF NN
  <2> QED BY <1>0, <2>1, <2>2
<1>2. n \div NN = k
  <2> HIDE DEF NN, t
  <2> QED BY <1>0, <1>1, DivisionOf
<1>3. n \in 0 .. NN * N - 1
  <2>1. k * NN <= (N - 1) * NN /\ k * NN \in Nat
    BY <1>0, ProductOrder
  <2>2. (N - 1) * NN = NN * N - NN
    BY <1>0
  <2>3. NN * N \in Nat
    BY <1>0
  <2> HIDE DEF NN, t
  <2> QED BY <1>0, <1>1, <2>1, <2>2, <2>3
<1> DEFINE q == k * N + i
<1>4. q \in Nat /\ q % N = i
  <2>1. k \in Nat /\ N \in Nat \ {0} /\ i \in 0 .. N - 1
    BY <1>0
  <2> QED BY ONLY <2>1, DivisionOf
<1>5. n = q * N + j
  BY <1>0
<1> HIDE DEF q, n
<1>6. n \div N = q /\ n % N = j
  BY <1>0, <1>4, <1>5, DivisionOf
<1>7. (n \div N) % N = i
  BY <1>4, <1>6
<1> QED BY <1>1, <1>2, <1>3, <1>6, <1>7 DEF n

LEMMA TurnType ==
  ASSUME NEW m \in Matrices, NEW n \in 0 .. MATSIZE * MATSIZE * MATSIZE - 1
  PROVE  Turn(m, n) \in Matrices
<1> DEFINE N == MATSIZE
           NN == N * N
           k == n \div NN
           i == (n \div N) % N
           j == n % N
<1>0. N \in Nat \ {0} /\ NN \in Nat \ {0} /\ n \in Nat /\ NN * N \in Nat /\ n < NN * N
  BY FwAssumption
<1>1. i \in Index /\ j \in Index
  BY <1>0, DivisionParts DEF Index
<1>2. k \in Index
  <2>1. k \in Nat /\ n % NN \in 0 .. NN - 1 /\ n = k * NN + (n % NN)
    <3> HIDE DEF NN
    <3> QED BY <1>0, DivisionParts
  <2> HIDE DEF k
  <2>2. k < N
    <3> SUFFICES ASSUME N <= k PROVE FALSE
      BY <1>0, <2>1
    <3>1. N * NN <= k * NN
      BY <1>0, <2>1, ProductOrder
    <3>2. N * NN = NN * N /\ k * NN \in Nat
      BY <1>0, <2>1
    <3> HIDE DEF NN
    <3> QED BY <1>0, <2>1, <3>1, <3>2
  <2> QED BY <1>0, <2>1, <2>2 DEF Index
<1> HIDE DEF k, i, j
<1>3. Relaxed(m, k, <<i, j>>) \in 0 .. INF /\ <<i, j>> \in Entry
  <2>1. <<i, j>> \in Entry /\ Pass(m, k)[<<i, j>>] \in 0 .. INF
    BY <1>1, <1>2, PassEntry, MatrixType
  <2> QED BY <2>1 DEF Pass
<1>4. [m EXCEPT ![<<i, j>>] = Relaxed(m, k, <<i, j>>)] \in Matrices
  BY <1>3 DEF Matrices
<1> QED BY <1>4 DEF Turn, k, i, j

\* The recursive definition has the values it describes.
LEMMA CpuTurnsIs ==
  ASSUME NEW m \in Matrices
  PROVE  LET last == MATSIZE * MATSIZE * MATSIZE IN
         /\ last \in Nat
         /\ CpuTurns(m) \in [0 .. last -> Matrices] /\ CpuTurns(m)[0] = m
         /\ \A n \in 1 .. last : CpuTurns(m)[n] = Turn(CpuTurns(m)[n - 1], n - 1)
<1> DEFINE last == MATSIZE * MATSIZE * MATSIZE
           Describes(b) == b = [n \in 0 .. last |-> IF n = 0 THEN m ELSE Turn(b[n - 1], n - 1)]
           step == [x \in Nat \X Matrices |-> IF x[1] \in 1 .. last THEN Turn(x[2], x[1] - 1) ELSE x[2]]
           done == CpuTurns(m)
<1>1. last \in Nat
  BY FwAssumption
<1>2. done = CHOOSE b : Describes(b)
  BY DEF CpuTurns, Turn
<1>3. \A n \in 1 .. last, b \in Matrices : Turn(b, n - 1) \in Matrices
  <2> SUFFICES ASSUME NEW n \in 1 .. last, NEW b \in Matrices PROVE Turn(b, n - 1) \in Matrices
    OBVIOUS
  <2>1. n - 1 \in 0 .. last - 1
    BY <1>1
  <2> QED BY <2>1, TurnType
<1> HIDE DEF last, done
<1>4. step \in Steps(Matrices)
  BY <1>3 DEF Steps
<1>5. \A n \in 1 .. last, b \in Matrices : step[<<n, b>>] = Turn(b, n - 1)
  BY <1>1
<1> HIDE DEF step
<1>6. PICK f : Follows(f, Matrices, m, step, last)
  BY <1>1, <1>4, RecursionExists
<1>7. /\ f \in [0 .. last -> Matrices] /\ f[0] = m
      /\ \A n \in 1 .. last : f[n] = step[<<n, f[n - 1]>>]
  BY <1>6 DEF Follows
<1>8. \A n \in 0 .. last : f[n] = IF n = 0 THEN m ELSE Turn(f[n - 1], n - 1)
  <2> SUFFICES ASSUME NEW n \in 0 .. last, n # 0 PROVE f[n] = Turn(f[n - 1], n - 1)
    BY <1>7
  <2>1. n \in 1 .. last /\ f[n - 1] \in Matrices
    BY <1>1, <1>7
  <2> QED BY <1>5, <1>7, <2>1
<1>9. Describes(f)
  BY <1>7, <1>8
<1>10. Describes(done)
  BY <1>2, <1>9
<1>11. done[0] = m /\ \A n \in 1 .. last : done[n] = Turn(done[n - 1], n - 1)
  BY <1>1, <1>10
<1>12. \A n \in 0 .. last : done[n] \in Matrices
  <2> DEFINE T == {n \in 0 .. last : done[n] \in Matrices}
  <2>1. 0 \in T
    BY <1>1, <1>11
  <2>2. \A n \in 0 .. last - 1 : n \in T => n + 1 \in T
    <3> SUFFICES ASSUME NEW n \in 0 .. last - 1, n \in T PROVE n + 1 \in T
      OBVIOUS
    <3>1. n + 1 \in 1 .. last /\ (n + 1) - 1 = n
      BY <1>1
    <3>2. done[n + 1] = Turn(done[n], n)
      BY <1>11, <3>1
    <3>3. Turn(done[n], n) \in Matrices
      BY <1>3, <3>1
    <3> QED BY <1>1, <3>1, <3>2, <3>3
  <2> HIDE DEF T
  <2>3. \A n \in 0 .. last : n \in T
    BY <1>1, <2>1, <2>2, BoundedInduction
  <2> QED BY <2>3 DEF T
<1>13. done \in [0 .. last -> Matrices]
  BY <1>10, <1>12
<1> QED BY <1>1, <1>11, <1>13 DEF done, last

\* The matrix after t turns of the inner loops over B.
Part(B, k, t) == [e \in Entry |-> IF e[1] * MATSIZE + e[2] < t THEN Relaxed(B, k, e) ELSE B[e]]

LEMMA PartTurn ==
  ASSUME NEW B \in Matrices, NEW k \in Index, NEW t \in 0 .. MATSIZE * MATSIZE - 1
  PROVE  Turn(Part(B, k, t), k * (MATSIZE * MATSIZE) + t) = Part(B, k, t + 1)
<1> DEFINE N == MATSIZE
           i == t \div N
           j == t % N
           m == Part(B, k, t)
           Place(e) == e[1] * N + e[2]
<1>0. N \in Nat \ {0} /\ t \in Nat /\ N * N \in Nat
  BY FwAssumption
<1>1. i \in Nat /\ j \in 0 .. N - 1 /\ t = i * N + j
  BY ONLY <1>0, DivisionParts
<1> HIDE DEF i, j
<1>2. i \in Index /\ j \in Index
  <2>1. i < N
    <3> SUFFICES ASSUME N <= i PROVE FALSE
      BY <1>0, <1>1
    <3>1. N * N <= i * N
      BY <1>0, <1>1, ProductOrder
    <3>2. i * N \in Nat
      BY <1>0, <1>1
    <3>3. t < N * N
      BY <1>0
    <3> QED BY ONLY <1>0, <1>1, <3>1, <3>2, <3>3
  <2> QED BY <1>0, <1>1, <2>1 DEF Index
<1>3. Turn(m, k * (N * N) + t) = [m EXCEPT ![<<i, j>>] = Relaxed(m, k, <<i, j>>)]
  BY <1>1, <1>2, TurnIndex DEF Turn
<1>4. \A e \in Entry : m[e] = IF Place(e) < t THEN Relaxed(B, k, e) ELSE B[e]
  BY DEF Part
<1>5. {<<i, j>>, <<i, k>>, <<k, j>>} \subseteq Entry
  BY <1>2 DEF Entry
<1>6. m[<<i, k>>] = B[<<i, k>>] /\ m[<<k, j>>] = B[<<k, j>>]
  <2>1. Relaxed(B, k, <<i, k>>) = B[<<i, k>>] /\ Relaxed(B, k, <<k, j>>) = B[<<k, j>>]
    BY <1>2, RowColumnStable
  <2> HIDE DEF m, Place
  <2> QED BY <1>4, <1>5, <2>1
<1>7. Place(<<i, j>>) = t
  BY <1>1
<1>8. m[<<i, j>>] = B[<<i, j>>]
  <2>1. ~(Place(<<i, j>>) < t)
    BY <1>0, <1>7
  <2> HIDE DEF m, Place
  <2> QED BY <1>4, <1>5, <2>1
<1>9. Relaxed(m, k, <<i, j>>) = Relaxed(B, k, <<i, j>>)
  <2> HIDE DEF m
  <2> QED BY <1>6, <1>8 DEF Relaxed
<1>10. ASSUME NEW e \in Entry, e # <<i, j>>
       PROVE  (Place(e) < t) <=> (Place(e) < t + 1)
  <2>1. e = <<e[1], e[2]>> /\ e[1] \in Nat /\ e[2] \in 0 .. N - 1
    BY <1>0 DEF Entry, Index
  <2>2. Place(e) \in Nat
    BY <1>0, <2>1
  <2>3. Place(e) # t
    <3> SUFFICES ASSUME e[1] * N + e[2] = i * N + j PROVE FALSE
      BY <1>1
    <3>1. e[1] = i /\ e[2] = j
      BY ONLY <1>0, <1>1, <2>1, DivisionUnique, e[1] * N + e[2] = i * N + j
    <3> QED BY <1>10, <2>1, <3>1
  <2> HIDE DEF Place
  <2> QED BY <1>0, <2>2, <2>3
<1>11. Part(B, k, t + 1) = [e \in Entry |-> IF Place(e) < t + 1 THEN Relaxed(B, k, e) ELSE B[e]]
  BY DEF Part
<1>12. m = [e \in Entry |-> IF Place(e) < t THEN Relaxed(B, k, e) ELSE B[e]]
  BY DEF Part
<1>13. Place(<<i, j>>) < t + 1
  BY <1>0, <1>7
<1> HIDE DEF m, Place
<1>14. [m EXCEPT ![<<i, j>>] = Relaxed(B, k, <<i, j>>)]
         = [e \in Entry |-> IF Place(e) < t + 1 THEN Relaxed(B, k, e) ELSE B[e]]
  BY <1>5, <1>10, <1>12, <1>13
<1> QED BY <1>3, <1>9, <1>11, <1>14 DEF m

\* The inner loops over i and j, in place, make of the matrix what pass k makes of it.
LEMMA CpuPass ==
  ASSUME NEW w \in Matrices, NEW k \in Index
  PROVE  LET NN == MATSIZE * MATSIZE IN
         /\ CpuTurns(w)[k * NN] \in Matrices
         /\ CpuTurns(w)[(k + 1) * NN] = Pass(CpuTurns(w)[k * NN], k)
<1> DEFINE N == MATSIZE
           NN == N * N
           last == N * N * N
           turns == CpuTurns(w)
           from == k * NN
           B == turns[from]
           T == {t \in 0 .. NN : turns[from + t] = Part(B, k, t)}
<1>0. N \in Nat \ {0} /\ NN \in Nat \ {0} /\ k \in 0 .. N - 1 /\ last \in Nat /\ from \in Nat
  BY FwAssumption DEF Index
<1>1. from + NN <= last /\ from + NN = (k + 1) * NN
  <2>1. (k + 1) * NN <= N * NN
    BY <1>0, ProductOrder
  <2>2. from + NN = (k + 1) * NN /\ N * NN = last
    BY <1>0
  <2> QED BY ONLY <2>1, <2>2
<1>2. /\ turns \in [0 .. last -> Matrices]
      /\ \A n \in 1 .. last : turns[n] = Turn(turns[n - 1], n - 1)
  BY CpuTurnsIs
<1>3. \A t \in 0 .. NN : from + t \in 0 .. last
  <2> HIDE DEF NN, last, from
  <2> QED BY <1>0, <1>1
<1>4. B \in Matrices /\ from + 0 = from
  <2> HIDE DEF last, NN, from, turns
  <2> QED BY <1>0, <1>1, <1>2
<1>5. \A e \in Entry : e[1] * N + e[2] \in Nat /\ e[1] * N + e[2] < NN
  <2> SUFFICES ASSUME NEW e \in Entry PROVE e[1] * N + e[2] \in Nat /\ e[1] * N + e[2] < NN
    OBVIOUS
  <2>1. e[1] \in Index /\ e[2] \in Index
    BY DEF Entry
  <2>2. e[1] * N + e[2] \in 0 .. NN - 1
    BY <2>1, TurnIndex
  <2> HIDE DEF NN
  <2> QED BY <1>0, <2>2
<1>6. Part(B, k, 0) = B
  <2>1. B = [e \in Entry |-> B[e]]
    BY <1>4 DEF Matrices
  <2>2. \A e \in Entry : ~(e[1] * N + e[2] < 0)
    BY <1>5
  <2> HIDE DEF B
  <2> QED BY <2>1, <2>2 DEF Part
<1>7. Part(B, k, NN) = Pass(B, k)
  <2> HIDE DEF B
  <2> QED BY <1>5 DEF Part, Pass
<1>8. 0 \in T
  <2> HIDE DEF B, NN, from, turns
  <2> QED BY <1>0, <1>4, <1>6 DEF B
<1>9. \A t \in 0 .. NN - 1 : t \in T => t + 1 \in T
  <2> SUFFICES ASSUME NEW t \in 0 .. NN - 1, t \in T PROVE t + 1 \in T
    OBVIOUS
  <2>1. t \in 0 .. NN /\ t + 1 \in 0 .. NN
    <3> HIDE DEF NN
    <3> QED BY <1>0
  <2>2. from + (t + 1) \in 1 .. last /\ (from + (t + 1)) - 1 = from + t
    <3> HIDE DEF NN, last, from
    <3> QED BY <1>0, <1>3, <2>1
  <2>3. turns[from + (t + 1)] = Turn(turns[from + t], from + t)
    <3> HIDE DEF NN, last, from, turns
    <3> QED BY <1>2, <2>2
  <2>4. turns[from + t] = Part(B, k, t)
    OBVIOUS
  <2>5. Turn(Part(B, k, t), from + t) = Part(B, k, t + 1)
    <3> HIDE DEF B
    <3> QED BY <1>4, PartTurn
  <2>6. turns[from + (t + 1)] = Part(B, k, t + 1)
    <3> HIDE DEF B, NN, from, turns
    <3> QED BY <2>3, <2>4, <2>5
  <2> QED BY <2>1, <2>6
<1>10. NN \in T
  <2> HIDE DEF T
  <2>1. \A t \in 0 .. NN : t \in T
    <3> HIDE DEF NN
    <3> QED BY <1>0, <1>8, <1>9, BoundedInduction
  <2> HIDE DEF NN
  <2> QED BY <1>0, <2>1
<1>11. turns[from + NN] = Part(B, k, NN)
  BY <1>10
<1> QED BY <1>1, <1>4, <1>7, <1>11

\* Before any pass an entry is the edge itself.
LEMMA WeightsAreLengths ==
  ASSUME NEW w, Weights(w)
  PROVE  Lengths(w, w)
<1>0. w \in Matrices
  BY DEF Weights
<1>1. \A i, j \in Index : w[<<i, j>>] \in Nat
  BY <1>0, MatrixType
<1>2. \A i, j \in Index : w[<<i, j>>] <= w[<<i, j>>]
  <2>1. \A n \in Nat : n <= n
    OBVIOUS
  <2> QED BY ONLY <1>1, <2>1, Zenon
<1>3. \A i, j \in Index : i # j => \E v \in Index : v # j /\ w[<<i, v>>] + w[<<v, j>>] <= w[<<i, j>>]
  <2> SUFFICES ASSUME NEW i \in Index, NEW j \in Index, i # j
               PROVE  w[<<i, i>>] + w[<<i, j>>] <= w[<<i, j>>]
    OBVIOUS
  <2>1. w[<<i, i>>] = 0
    BY DEF Weights
  <2> QED BY <1>1, <2>1
<1> QED BY <1>2, <1>3 DEF Weights, Lengths

\* The client's loops compute the lengths of the shortest paths.
LEMMA CpuIsShortest ==
  ASSUME NEW w, Weights(w)
  PROVE  FloydWarshallCpu(w) = Shortest(w)
<1> DEFINE N == MATSIZE
           turns == CpuTurns(w)
           At(k) == turns[k * (N * N)]
           T == {k \in 0 .. N : Lengths(At(k), w) /\ Closed(At(k), k)}
<1>0. N \in Nat \ {0} /\ w \in Matrices
  BY FwAssumption DEF Weights
<1>1. At(0) = w
  <2>1. 0 * (N * N) = 0
    BY <1>0
  <2> QED BY <1>0, <2>1, CpuTurnsIs
<1>2. Lengths(w, w)
  BY WeightsAreLengths
<1>3. Closed(w, 0)
  BY DEF Closed
<1> HIDE DEF At
<1>4. 0 \in T
  BY <1>0, <1>1, <1>2, <1>3
<1>5. \A k \in 0 .. N - 1 : k \in T => k + 1 \in T
  <2> SUFFICES ASSUME NEW k \in 0 .. N - 1, k \in T PROVE k + 1 \in T
    OBVIOUS
  <2>1. k \in Index /\ k + 1 \in 0 .. N /\ Lengths(At(k), w) /\ Closed(At(k), k)
    BY <1>0 DEF Index
  <2>2. At(k) \in Matrices /\ At(k + 1) = Pass(At(k), k)
    BY <1>0, <2>1, CpuPass DEF At
  <2>3. Lengths(Pass(At(k), k), w)
    BY <2>1, PassKeepsLengths
  <2>4. Closed(Pass(At(k), k), k + 1)
    BY <2>1, <2>2, PassCloses
  <2> QED BY <2>1, <2>2, <2>3, <2>4
<1> HIDE DEF T
<1>6. \A k \in 0 .. N : k \in T
  BY <1>0, <1>4, <1>5, BoundedInduction
<1>7. N \in T
  BY <1>0, <1>6
<1>8. Lengths(At(N), w) /\ Closed(At(N), N)
  BY <1>7 DEF T
<1>9. At(N) = FloydWarshallCpu(w)
  <2>1. N * (N * N) = N * N * N
    BY <1>0
  <2> QED BY <2>1 DEF At, FloydWarshallCpu
<1> QED BY <1>8, <1>9, ClosedIsShortest

-----------------------------------------------------------------------------
(* The launches of a request                                               *)

\* Only what was enqueued is in the queue, or runs; and what the client and the
\* service know by their place.
QueueFlow ==
  /\ \A p \in DOMAIN queue : queue[p].of <= attempt /\ (queue[p].of = attempt => given > 1)
  /\ pass # Idle => pass.of <= attempt /\ (pass.of = attempt => given > 1)

HostFlow ==
  /\ pc \in {"generate", "launch", "finish", "post", "end"}
  /\ pc = "generate" => attempt = 1 /\ given = 1 /\ queue = <<>> /\ pass = Idle
  /\ pc \in {"finish", "post"} => given = MATSIZE + 3 /\ ret = 0
  /\ pc \in {"post", "end"} => queue = <<>> /\ pass = Idle

\* The queue ends with the last c of the commands the launch has enqueued; all that
\* is before them is of earlier launches.
Pending(c) ==
  /\ c \in 0 .. given - 1 /\ c <= Len(queue)
  /\ \A p \in 1 .. c : queue[Len(queue) - c + p] = Commands(attempt)[given - 1 - c + p]
  /\ \A p \in 1 .. Len(queue) - c : queue[p].of < attempt

\* What x commands of the launch have made of its buffer, and then of the slot.
Reached(x) ==
  /\ x = 0 => (pass # Idle => pass.of < attempt)
  /\ x > 0 => (pass # Idle => pass = Commands(attempt)[x])
  /\ x \in 1 .. MATSIZE + 1 => IF pass = Idle THEN Closed(buf[attempt], x - 1)
                                             ELSE Closed(before, x - 2)
  /\ x = MATSIZE + 2 => Closed(slot, MATSIZE)

\* A launch of which nothing was refused, on a device that ran everything in order:
\* how far it has come with it.
LaunchReached ==
  ret = 0 /\ overtaken = 0 => \E c \in 0 .. given - 1 :
               /\ Pending(c) /\ Reached(given - 1 - c)
               /\ c < given - 1 => Len(queue) = c

\* The write of launch a was enqueued and has run.
Written(a) ==
  /\ a < attempt \/ (a = attempt /\ given > 1)
  /\ \A p \in DOMAIN queue : queue[p].op = "write" => queue[p].of # a

\* As long as no write was refused, or overtaken by its read, the slot and the buffers
\* that were written hold nothing but lengths.
LengthsEverywhere ==
  lost = {} /\ pc \in {"launch", "finish", "post"} =>
    /\ Weights(cpu) /\ Lengths(slot, cpu)
    /\ pass # Idle /\ Written(pass.of) => Lengths(before, cpu)
    /\ \A a \in Launches : Written(a) /\ ~(pass # Idle /\ pass.of = a) => Lengths(buf[a], cpu)

ClientAgrees == pc = "end" /\ lost = {} => Reaches(cpu)

LaunchInv == QueueFlow /\ HostFlow /\ LaunchReached /\ LengthsEverywhere /\ ClientAgrees

LEMMA CommandAt ==
  ASSUME NEW a \in Launches
  PROVE  /\ DOMAIN Commands(a) = 1 .. MATSIZE + 2
         /\ \A n \in 1 .. MATSIZE + 2 :
              /\ Commands(a)[n].of = a
              /\ Commands(a)[n].op = IF n = 1 THEN "write" ELSE IF n = MATSIZE + 2 THEN "read" ELSE "pass"
              /\ n \in 2 .. MATSIZE + 1 => Commands(a)[n].k = n - 2
<1> DEFINE passes == [n \in 1 .. MATSIZE |-> [op |-> "pass", k |-> n - 1, of |-> a]]
           first == [op |-> "write", of |-> a]
           end == [op |-> "read", of |-> a]
           S == {first, end} \cup {[op |-> "pass", k |-> n - 1, of |-> a] : n \in 1 .. MATSIZE}
<1>0. MATSIZE \in Nat \ {0}
  BY FwAssumption
<1>1. passes \in [1 .. MATSIZE -> S] /\ first \in S /\ end \in S
  OBVIOUS
<1>2. \A n \in 1 .. MATSIZE : passes[n].op = "pass" /\ passes[n].k = n - 1 /\ passes[n].of = a
  BY <1>0
<1>3. first.op = "write" /\ first.of = a /\ end.op = "read" /\ end.of = a
  OBVIOUS
<1> HIDE DEF passes, S, first, end
<1>4. passes \in Seq(S) /\ Len(passes) = MATSIZE
  BY <1>0, <1>1, FunctionIsList
<1> DEFINE c == <<first>> \o passes \o <<end>>
<1>5. Len(c) = MATSIZE + 2 /\ DOMAIN c = 1 .. MATSIZE + 2
  BY <1>0, <1>1, <1>4
<1>6. c[1] = first /\ c[MATSIZE + 2] = end
  BY <1>0, <1>1, <1>4
<1>7. \A n \in 2 .. MATSIZE + 1 : c[n] = passes[n - 1]
  BY <1>0, <1>1, <1>4
<1>8. c = Commands(a)
  BY DEF Commands, first, end, passes
<1> HIDE DEF c
<1>9. \A n \in 1 .. MATSIZE + 2 :
        /\ c[n].of = a
        /\ c[n].op = IF n = 1 THEN "write" ELSE IF n = MATSIZE + 2 THEN "read" ELSE "pass"
        /\ n \in 2 .. MATSIZE + 1 => c[n].k = n - 2
  <2> SUFFICES ASSUME NEW n \in 1 .. MATSIZE + 2
               PROVE  /\ c[n].of = a
                      /\ c[n].op = IF n = 1 THEN "write" ELSE IF n = MATSIZE + 2 THEN "read" ELSE "pass"
                      /\ n \in 2 .. MATSIZE + 1 => c[n].k = n - 2
    OBVIOUS
  <2>1. CASE n = 1 \/ n = MATSIZE + 2
    BY <1>0, <1>3, <1>6, <2>1
  <2>2. CASE n \in 2 .. MATSIZE + 1
    <3>1. n - 1 \in 1 .. MATSIZE /\ (n - 1) - 1 = n - 2 /\ n # 1 /\ n # MATSIZE + 2
      BY <1>0, <2>2
    <3> QED BY <1>2, <1>7, <2>2, <3>1
  <2> QED BY <1>0, <2>1, <2>2
<1> QED BY <1>5, <1>8, <1>9

\* A command that starts leaves the queue, the others stay, and it overtook another
\* unless it was the first.
LEMMA Started ==
  ASSUME DeviceTypeOK, NEW n \in DOMAIN queue, Starts(n)
  PROVE  /\ pass = Idle
         /\ \A p \in DOMAIN queue' : \E q \in DOMAIN queue : queue'[p] = queue[q]
         /\ \A p \in DOMAIN queue : p # n => \E q \in DOMAIN queue' : queue'[q] = queue[p]
         /\ queue[n] \in Passes \cup Transfers /\ queue[n].of \in Launches
         /\ overtaken' = 0 => n = 1 /\ overtaken = 0
<1> DEFINE S == Passes \cup Transfers
<1>0. queue \in Seq(S)
  BY DEF DeviceTypeOK
<1>1. pass = Idle /\ queue' = RemoveAt(queue, n)
  BY DEF Starts
<1>2. queue[n] \in S => queue[n].of \in Launches
  BY DEF Passes, Transfers
<1> HIDE DEF S
<1>3. Len(queue) \in Nat /\ DOMAIN queue = 1 .. Len(queue) /\ n \in 1 .. Len(queue) /\ queue[n] \in S
  BY <1>0
<1>4. /\ DOMAIN queue' = 1 .. Len(queue) - 1
      /\ \A p \in 1 .. Len(queue) - 1 : queue'[p] = IF p < n THEN queue[p] ELSE queue[p + 1]
  BY <1>0, <1>1, <1>3, RemoveAtElements
<1>5. \A p \in DOMAIN queue' : \E q \in DOMAIN queue : queue'[p] = queue[q]
  <2> SUFFICES ASSUME NEW p \in DOMAIN queue' PROVE \E q \in DOMAIN queue : queue'[p] = queue[q]
    OBVIOUS
  <2>1. p \in DOMAIN queue /\ p + 1 \in DOMAIN queue
    BY <1>3, <1>4
  <2> QED BY <1>3, <1>4, <2>1
<1>6. \A p \in DOMAIN queue : p # n => \E q \in DOMAIN queue' : queue'[q] = queue[p]
  <2> SUFFICES ASSUME NEW p \in DOMAIN queue, p # n PROVE \E q \in DOMAIN queue' : queue'[q] = queue[p]
    OBVIOUS
  <2>1. CASE p < n
    <3>1. p \in DOMAIN queue'
      BY <1>3, <1>4, <2>1
    <3> QED BY <1>3, <1>4, <2>1, <3>1
  <2>2. CASE ~(p < n)
    <3>1. p - 1 \in DOMAIN queue' /\ ~(p - 1 < n) /\ (p - 1) + 1 = p
      BY <1>3, <1>4, <2>2
    <3> QED BY <1>3, <1>4, <3>1
  <2> QED BY <2>1, <2>2
<1>7. overtaken' = 0 => n = 1 /\ overtaken = 0
  BY FwAssumption DEF Starts, DeviceTypeOK
<1>8. queue[n] \in Passes \cup Transfers /\ queue[n].of \in Launches
  BY <1>2, <1>3 DEF S
<1> QED BY <1>1, <1>5, <1>6, <1>7, <1>8, Zenon

\* When it is the first the others move up.
LEMMA FirstStarted ==
  ASSUME DeviceTypeOK, 1 \in DOMAIN queue, Starts(1)
  PROVE  /\ pass = Idle /\ Len(queue) \in Nat \ {0} /\ DOMAIN queue = 1 .. Len(queue)
         /\ Len(queue') = Len(queue) - 1 /\ DOMAIN queue' = 1 .. Len(queue) - 1
         /\ \A p \in 1 .. Len(queue) - 1 : queue'[p] = queue[p + 1]
         /\ queue[1] \in Passes \cup Transfers /\ queue[1].of \in Launches
<1> DEFINE S == Passes \cup Transfers
<1>0. queue \in Seq(S)
  BY DEF DeviceTypeOK
<1>1. pass = Idle /\ queue' = RemoveAt(queue, 1)
  BY DEF Starts
<1>2. queue[1] \in S => queue[1].of \in Launches
  BY DEF Passes, Transfers
<1> HIDE DEF S
<1>3. Len(queue) \in Nat /\ DOMAIN queue = 1 .. Len(queue) /\ 1 \in 1 .. Len(queue) /\ queue[1] \in S
  BY <1>0
<1>4. /\ Len(queue') = Len(queue) - 1 /\ DOMAIN queue' = 1 .. Len(queue) - 1
      /\ \A p \in 1 .. Len(queue) - 1 : queue'[p] = IF p < 1 THEN queue[p] ELSE queue[p + 1]
  BY <1>0, <1>1, <1>3, RemoveAtElements
<1>5. \A p \in 1 .. Len(queue) - 1 : queue'[p] = queue[p + 1]
  BY <1>3, <1>4
<1>6. Len(queue) \in Nat \ {0}
  BY <1>3
<1>7. queue[1] \in Passes \cup Transfers
  BY <1>3 DEF S
<1> QED BY <1>1, <1>2, <1>3, <1>4, <1>5, <1>6, <1>7, Zenon

\* A command that is enqueued comes last.
LEMMA Accepted ==
  ASSUME DeviceTypeOK, NEW x \in Passes \cup Transfers, queue' = Append(queue, x)
  PROVE  /\ Len(queue) \in Nat /\ DOMAIN queue = 1 .. Len(queue)
         /\ Len(queue') = Len(queue) + 1 /\ DOMAIN queue' = 1 .. Len(queue) + 1
         /\ \A p \in 1 .. Len(queue) : queue'[p] = queue[p]
         /\ queue'[Len(queue) + 1] = x
<1> DEFINE S == Passes \cup Transfers
<1>0. queue \in Seq(S) /\ x \in S
  BY DEF DeviceTypeOK
<1> HIDE DEF S
<1> QED BY <1>0

LEMMA LaunchInvInit == FwInit => LaunchInv
<1> SUFFICES ASSUME FwInit PROVE LaunchInv
  OBVIOUS
<1> USE DEF FwInit
<1>1. QueueFlow /\ HostFlow /\ LengthsEverywhere /\ ClientAgrees
  BY DEF QueueFlow, HostFlow, LengthsEverywhere, ClientAgrees
<1>2. LaunchReached
  <2>1. Len(queue) = 0 /\ given - 1 - 0 = 0 /\ 0 \in 0 .. given - 1
    OBVIOUS
  <2>2. Pending(0)
    BY <2>1 DEF Pending
  <2>3. Reached(0)
    BY FwAssumption DEF Reached
  <2> QED BY <2>1, <2>2, <2>3 DEF LaunchReached
<1> QED BY <1>1, <1>2 DEF LaunchInv

LEMMA QueueFlowStep ==
  ASSUME DeviceTypeOK, QueueFlow, HostFlow, FwNext
  PROVE  QueueFlow'
<1>0. attempt \in Nat /\ given \in Nat /\ given > 0 /\ attempt \in Launches
  BY FwAssumption DEF DeviceTypeOK, Launches
<1>1. CASE GenerateAdjacencyMatrix \/ RunCpu \/ Finish \/ (\E e \in Entry : ItemTests(e) \/ ItemWrites(e))
  BY <1>1 DEF GenerateAdjacencyMatrix, RunCpu, Finish, ItemTests, ItemWrites, host, device, running, QueueFlow
<1>2. CASE Enqueue
  <2> DEFINE x == Commands(attempt)[given]
  <2>1. given \in 1 .. MATSIZE + 2 /\ x \in Passes \cup Transfers
    BY <1>0, <1>2, CommandsType, CommandAt DEF Enqueue
  <2>2. x.of = attempt /\ (x.op = "write" => given = 1)
    BY <1>0, <2>1, CommandAt
  <2>3. given' = given + 1 /\ attempt' = attempt /\ pass' = pass
    BY <1>2 DEF Enqueue, running
  <2> HIDE DEF x
  <2>4. CASE queue' = Append(queue, x)
    <3>1. /\ Len(queue) \in Nat /\ DOMAIN queue = 1 .. Len(queue)
          /\ DOMAIN queue' = 1 .. Len(queue) + 1
          /\ \A p \in 1 .. Len(queue) : queue'[p] = queue[p]
          /\ queue'[Len(queue) + 1] = x
      BY <2>1, <2>4, Accepted
    <3>2. \A p \in DOMAIN queue' : queue'[p].of <= attempt' /\ (queue'[p].of = attempt' => given' > 1)
      BY <1>0, <2>2, <2>3, <3>1 DEF QueueFlow
    <3>3. pass' # Idle => pass'.of <= attempt' /\ (pass'.of = attempt' => given' > 1)
      BY <1>0, <2>3 DEF QueueFlow
    <3> QED BY <3>2, <3>3 DEF QueueFlow
  <2>5. CASE queue' = queue
    BY <1>0, <2>3, <2>5 DEF QueueFlow
  <2> QED BY <1>2, <2>4, <2>5 DEF Enqueue, x
<1>3. CASE Enqueued
  <2>1. queue' = queue /\ pass' = pass
    BY <1>3 DEF Enqueued, device, running
  <2>2. (attempt' = attempt /\ given' = given) \/ attempt' = attempt + 1
    BY <1>3 DEF Enqueued
  <2>3. \A p \in DOMAIN queue : queue[p] \in Passes \cup Transfers
    BY DEF DeviceTypeOK
  <2>4. \A p \in DOMAIN queue : queue[p].of \in Launches
    BY <2>3 DEF Passes, Transfers
  <2>5. pass # Idle => pass.of \in Launches
    BY DEF DeviceTypeOK, Passes
  <2>6. \A a \in Launches : a \in Nat
    BY FwAssumption DEF Launches
  <2>7. CASE attempt' = attempt + 1
    <3>1. \A a \in Nat : a <= attempt => a <= attempt + 1 /\ a # attempt + 1
      BY <1>0
    <3> QED BY <2>1, <2>4, <2>5, <2>6, <2>7, <3>1 DEF QueueFlow
  <2>8. CASE attempt' = attempt /\ given' = given
    BY <2>1, <2>8 DEF QueueFlow
  <2> QED BY <2>2, <2>7, <2>8
<1>4. ASSUME NEW n \in DOMAIN queue, WriteBuffer(n) \/ ReadBuffer(n) \/ PassStarts(n)
      PROVE  QueueFlow'
  <2>1. Starts(n) /\ attempt' = attempt /\ given' = given /\ (pass' = pass \/ pass' = queue[n])
    BY <1>4 DEF WriteBuffer, ReadBuffer, PassStarts, host, running
  <2>2. \A p \in DOMAIN queue' : \E q \in DOMAIN queue : queue'[p] = queue[q]
    BY <2>1, Started
  <2> QED BY <2>1, <2>2 DEF QueueFlow
<1>5. CASE PassEnds
  BY <1>5 DEF PassEnds, host, QueueFlow
<1> QED BY <1>1, <1>2, <1>3, <1>4, <1>5 DEF FwNext

LEMMA HostFlowStep ==
  ASSUME DeviceTypeOK, HostFlow, FwNext
  PROVE  HostFlow'
<1>1. CASE GenerateAdjacencyMatrix \/ RunCpu \/ Finish
  BY <1>1 DEF GenerateAdjacencyMatrix, RunCpu, Finish, device, running, HostFlow
<1>2. CASE Enqueue
  BY <1>2 DEF Enqueue, HostFlow
<1>3. CASE Enqueued
  <2>1. Len(Commands(attempt)) = MATSIZE + 2 /\ MATSIZE \in Nat
    BY CommandsType, FwAssumption DEF DeviceTypeOK
  <2>2. pc = "launch" /\ given = MATSIZE + 3
    BY <1>3, <2>1 DEF Enqueued
  <2> QED BY <1>3, <2>2 DEF Enqueued, HostFlow
<1>4. ASSUME NEW n \in DOMAIN queue, WriteBuffer(n) \/ ReadBuffer(n) \/ PassStarts(n)
      PROVE  HostFlow'
  <2>1. pc' = pc /\ given' = given /\ ret' = ret
    BY <1>4 DEF WriteBuffer, ReadBuffer, PassStarts, host
  <2>2. queue # <<>>
    BY <1>4
  <2> QED BY <2>1, <2>2 DEF HostFlow
<1>5. CASE PassEnds \/ (\E e \in Entry : ItemTests(e) \/ ItemWrites(e))
  <2>1. pc' = pc /\ given' = given /\ ret' = ret /\ pass # Idle
    BY <1>5 DEF PassEnds, ItemTests, ItemWrites, host
  <2> QED BY <2>1 DEF HostFlow
<1> QED BY <1>1, <1>2, <1>3, <1>4, <1>5 DEF FwNext

\* A pass that is through has made Pass of the matrix it found.
LEMMA PassIsMade ==
  ASSUME DeviceTypeOK, PassExact, PassEnds
  PROVE  /\ pass.of \in Launches /\ pass.k \in Index /\ pass.op = "pass"
         /\ buf[pass.of] = Pass(before, pass.k)
<1>1. pass.of \in Launches /\ pass.k \in Index /\ pass.op = "pass"
  BY DEF DeviceTypeOK, Passes, PassEnds
<1>2. \A e \in Entry : buf[pass.of][e] = Relaxed(before, pass.k, e)
  BY DEF PassExact, PassEnds
<1>3. buf[pass.of] \in Matrices
  BY <1>1 DEF DeviceTypeOK
<1> QED BY <1>1, <1>2, <1>3 DEF Pass, Matrices

LEMMA ReachedStarts ==
  ASSUME DeviceTypeOK, LaunchReached,
         NEW n \in DOMAIN queue, WriteBuffer(n) \/ ReadBuffer(n) \/ PassStarts(n)
  PROVE  LaunchReached'
<1> DEFINE L == Len(queue)
           g == given - 1
<1> SUFFICES ASSUME ret = 0, overtaken = 0, n = 1
             PROVE  \E c \in 0 .. g : /\ Pending(c)' /\ Reached(g - c)'
                                      /\ c < g => L - 1 = c
  <2>1. Starts(n)
    BY DEF WriteBuffer, ReadBuffer, PassStarts
  <2>2. given' = given /\ ret' = ret /\ (overtaken' = 0 => overtaken = 0 /\ n = 1)
    BY <2>1, Started DEF WriteBuffer, ReadBuffer, PassStarts, host
  <2>3. n = 1 => Len(queue') = L - 1
    BY <2>1, FirstStarted
  <2> QED BY <2>2, <2>3 DEF LaunchReached
<1>0. /\ Starts(n) /\ attempt' = attempt /\ given' = given /\ attempt \in Launches
      /\ given \in 1 .. MATSIZE + 3 /\ g \in 0 .. MATSIZE + 2 /\ MATSIZE \in Nat \ {0}
  BY FwAssumption DEF WriteBuffer, ReadBuffer, PassStarts, host, DeviceTypeOK
<1>1. /\ n = 1 /\ pass = Idle /\ L \in Nat \ {0} /\ DOMAIN queue = 1 .. L
      /\ Len(queue') = L - 1
      /\ \A p \in 1 .. L - 1 : queue'[p] = queue[p + 1]
      /\ queue[1] \in Passes \cup Transfers /\ queue[1].of \in Launches
  BY <1>0, FirstStarted
<1>2. PICK c \in 0 .. g : Pending(c) /\ Reached(g - c) /\ (c < g => L = c)
  BY DEF LaunchReached
<1>3. /\ c <= L
      /\ \A p \in 1 .. c : queue[L - c + p] = Commands(attempt)[g - c + p]
      /\ \A p \in 1 .. L - c : queue[p].of < attempt
  BY <1>2 DEF Pending
<1> HIDE DEF L, g
<1>4. CASE c < L
  <2>1. c = g /\ g - c = 0 /\ 1 \in 1 .. L - c
    BY <1>0, <1>1, <1>2, <1>4
  <2>2. queue[1].of < attempt
    BY <1>3, <2>1
  <2>3. Pending(c)'
    <3>1. c <= L - 1 /\ c \in 0 .. g
      BY <1>1, <1>4, <1>2, <1>0
    <3>2. \A p \in 1 .. c : queue'[(L - 1) - c + p] = Commands(attempt)[g - c + p]
      <4> SUFFICES ASSUME NEW p \in 1 .. c PROVE queue'[(L - 1) - c + p] = queue[L - c + p]
        BY <1>3
      <4>1. (L - 1) - c + p \in 1 .. L - 1 /\ (L - 1) - c + p + 1 = L - c + p
        BY <1>0, <1>1, <1>4
      <4> QED BY <1>1, <4>1
    <3>3. \A p \in 1 .. (L - 1) - c : queue'[p].of < attempt
      <4> SUFFICES ASSUME NEW p \in 1 .. (L - 1) - c PROVE queue'[p].of < attempt
        OBVIOUS
      <4>1. p \in 1 .. L - 1 /\ p + 1 \in 1 .. L - c
        BY <1>0, <1>1, <1>4
      <4> QED BY <1>1, <1>3, <4>1
    <3> QED BY <1>0, <1>1, <3>1, <3>2, <3>3 DEF Pending, g
  <2>4. Reached(g - c)'
    <3>1. pass' = Idle \/ pass' = queue[1]
      BY <1>1 DEF WriteBuffer, ReadBuffer, PassStarts, running
    <3>2. 0 \notin 1 .. MATSIZE + 1 /\ 0 # MATSIZE + 2 /\ ~(0 > 0)
      BY <1>0
    <3>3. pass' # Idle => pass'.of < attempt'
      BY <1>0, <2>2, <3>1
    <3>4. Reached(0)'
      BY <3>2, <3>3 DEF Reached
    <3>5. (g - c)' = 0
      BY <1>0, <2>1 DEF g
    <3> QED BY <3>4, <3>5
  <2> QED BY <2>1, <2>3, <2>4, <1>2
<1>5. CASE c = L
  <2> DEFINE x == g - c
             d == c - 1
  <2>1. x + 1 \in 1 .. MATSIZE + 2 /\ x \in Nat /\ d \in 0 .. g /\ 1 \in 1 .. c /\ L - c + 1 = 1 /\ d = L - 1
        /\ g - d = x + 1 /\ g - c + 1 = x + 1
    BY <1>0, <1>1, <1>2, <1>5
  <2>2. queue[1] = Commands(attempt)[x + 1]
    BY <1>3, <2>1
  <2>3. Pending(d)'
    <3>1. \A p \in 1 .. d : queue'[(L - 1) - d + p] = Commands(attempt)[g - d + p]
      <4> SUFFICES ASSUME NEW p \in 1 .. d PROVE queue'[(L - 1) - d + p] = Commands(attempt)[g - d + p]
        OBVIOUS
      <4>1. (L - 1) - d + p = p /\ p \in 1 .. L - 1 /\ p + 1 \in 1 .. c /\ L - c + (p + 1) = p + 1
            /\ g - c + (p + 1) = g - d + p
        BY <1>0, <1>1, <1>2, <1>5
      <4> QED BY <1>1, <1>3, <4>1
    <3>2. \A p \in 1 .. (L - 1) - d : queue'[p].of < attempt
      BY <1>1, <2>1
    <3>3. d <= L - 1
      BY <1>1, <2>1
    <3> QED BY <1>0, <1>1, <2>1, <3>1, <3>2, <3>3 DEF Pending, g
  <2>4. /\ queue[1].of = attempt
        /\ queue[1].op = IF x + 1 = 1 THEN "write" ELSE IF x + 1 = MATSIZE + 2 THEN "read" ELSE "pass"
    BY <1>0, <2>1, <2>2, CommandAt
  <2>5. x \in 1 .. MATSIZE + 1 => Closed(buf[attempt], x - 1)
    BY <1>1, <1>2 DEF Reached
  <2> HIDE DEF x, d
  <2>6. Reached(x + 1)'
    <3>0. x + 1 > 0 /\ x + 1 # 0 /\ (x + 1) - 1 = x /\ (x + 1) - 2 = x - 1
      BY <2>1
    <3>1. CASE WriteBuffer(n)
      <4>1. x = 0 /\ pass' = Idle
        BY <1>1, <2>1, <2>4, <3>1 DEF WriteBuffer, running
      <4>2. Closed(buf[attempt], 0)'
        BY DEF Closed
      <4>3. (x + 1)' = 1 /\ 1 - 1 = 0 /\ 1 # MATSIZE + 2
        BY <1>0, <4>1 DEF x, g
      <4>4. Reached(1)'
        BY <4>1, <4>2, <4>3 DEF Reached
      <4> QED BY <4>3, <4>4
    <3>2. CASE ReadBuffer(n)
      <4>1. x = MATSIZE + 1 /\ pass' = Idle /\ slot' = buf[attempt]
        <5>1. pass' = pass /\ slot' = buf[queue[1].of] /\ queue[1].op = "read"
          BY <1>1, <3>2 DEF ReadBuffer, running
        <5> QED BY <1>0, <1>1, <2>1, <2>4, <5>1
      <4>2. Closed(slot', MATSIZE)
        <5>1. MATSIZE + 1 \in 1 .. MATSIZE + 1 /\ (MATSIZE + 1) - 1 = MATSIZE
          BY <1>0
        <5> QED BY <2>5, <4>1, <5>1
      <4>3. (x + 1)' = MATSIZE + 2 /\ MATSIZE + 2 \notin 1 .. MATSIZE + 1 /\ MATSIZE + 2 # 0
        BY <1>0, <4>1 DEF x, g
      <4>4. Reached(MATSIZE + 2)'
        BY <4>1, <4>2, <4>3 DEF Reached, Closed
      <4> QED BY <4>3, <4>4
    <3>3. CASE PassStarts(n)
      <4>1. x \in 1 .. MATSIZE /\ pass' = Commands(attempt)[x + 1] /\ before' = buf[attempt]
        BY <1>0, <1>1, <2>1, <2>2, <2>4, <3>3 DEF PassStarts
      <4>2. Closed(before', x - 1)
        BY <1>0, <2>5, <4>1
      <4>3. pass' # Idle
        BY <2>4, <4>1, <2>2, <3>3, <1>1 DEF PassStarts, Idle
      <4>4. x' = x /\ attempt' = attempt /\ x + 1 # MATSIZE + 2
        BY <1>0, <4>1 DEF x, g
      <4> QED BY <3>0, <4>1, <4>2, <4>3, <4>4 DEF Reached, Closed
    <3> QED BY <3>1, <3>2, <3>3
  <2>7. (g - d)' = (x + 1)' /\ (g - d)' = g - d
    BY <1>0, <2>1 DEF g, d, x
  <2> QED BY <2>1, <2>3, <2>6, <2>7
<1> QED BY <1>1, <1>2, <1>3, <1>4, <1>5, <1>0

LEMMA LaunchReachedStep ==
  ASSUME DeviceTypeOK, PassExact, QueueFlow, HostFlow, LaunchReached, FwNext
  PROVE  LaunchReached'
<1>0. /\ attempt \in Launches /\ attempt \in Nat /\ given \in 1 .. MATSIZE + 3 /\ MATSIZE \in Nat \ {0}
      /\ Len(queue) \in Nat
  BY FwAssumption DEF DeviceTypeOK, Launches
<1>1. CASE GenerateAdjacencyMatrix
  <2>1. /\ given = 1 /\ given' = 1 /\ queue' = <<>> /\ pass' = Idle
    BY <1>1 DEF GenerateAdjacencyMatrix, device, running, HostFlow
  <2>2. Len(queue') = 0 /\ 1 - 1 - 0 = 0 /\ 0 \in 0 .. 1 - 1 /\ 0 # MATSIZE + 2 /\ 0 \notin 1 .. MATSIZE + 1
    BY <1>0, <2>1
  <2>3. Pending(0)'
    BY <2>1, <2>2 DEF Pending
  <2>4. Reached(0)'
    BY <2>1, <2>2 DEF Reached
  <2> QED BY <2>1, <2>2, <2>3, <2>4 DEF LaunchReached
<1>2. CASE RunCpu \/ Finish
  BY <1>2 DEF RunCpu, Finish, device, running, LaunchReached, Pending, Reached, Closed
<1>3. CASE Enqueue
  <2> DEFINE x == Commands(attempt)[given]
             L == Len(queue)
             g == given - 1
  <2>1. given' = given + 1 /\ attempt' = attempt /\ UNCHANGED <<pass, before, buf, slot, overtaken>>
    BY <1>3 DEF Enqueue, running
  <2>2. CASE queue' = Append(queue, x) /\ UNCHANGED ret
    <3> SUFFICES ASSUME ret = 0, overtaken = 0
                 PROVE  \E c \in 0 .. given' - 1 :
                          /\ Pending(c)' /\ Reached(given - 1 - c)'
                          /\ c < given' - 1 => Len(queue') = c
      BY <2>1, <2>2 DEF LaunchReached
    <3>1. x \in Passes \cup Transfers
      BY <1>0, <1>3, CommandsType DEF Enqueue
    <3>2. /\ Len(queue') = L + 1 /\ \A p \in 1 .. L : queue'[p] = queue[p]
          /\ queue'[L + 1] = x
      BY <2>2, <3>1, Accepted
    <3>3. PICK c \in 0 .. g : Pending(c) /\ Reached(g - c) /\ (c < g => L = c)
      BY DEF LaunchReached
    <3>4. /\ c <= L
          /\ \A p \in 1 .. c : queue[L - c + p] = Commands(attempt)[g - c + p]
          /\ \A p \in 1 .. L - c : queue[p].of < attempt
      BY <3>3 DEF Pending
    <3> DEFINE d == c + 1
    <3> HIDE DEF L
    <3>5. /\ L \in Nat /\ d \in 0 .. given' - 1 /\ d <= L + 1 /\ given' - 1 - d = g - c
          /\ (L + 1) - d = L - c /\ given' - 1 = given /\ (d < given' - 1 => c < g)
      BY <1>0, <2>1, <3>3, <3>4 DEF L
    <3>6. \A p \in 1 .. d : queue'[(L + 1) - d + p] = Commands(attempt)[given' - 1 - d + p]
      <4> SUFFICES ASSUME NEW p \in 1 .. d
                   PROVE  queue'[L - c + p] = Commands(attempt)[g - c + p]
        BY <3>5
      <4>1. CASE p \in 1 .. c
        <5>1. L - c + p \in 1 .. L
          BY <1>0, <3>4, <3>5, <4>1
        <5> QED BY <3>2, <3>4, <4>1, <5>1
      <4>2. CASE p = c + 1
        <5>1. L - c + p = L + 1 /\ g - c + p = given
          BY <1>0, <3>5, <4>2
        <5> QED BY <3>2, <5>1
      <4> QED BY <1>0, <3>3, <4>1, <4>2
    <3>7. \A p \in 1 .. (L + 1) - d : queue'[p].of < attempt
      <4> SUFFICES ASSUME NEW p \in 1 .. L - c PROVE queue'[p].of < attempt
        BY <3>5
      <4>1. p \in 1 .. L
        BY <1>0, <3>3, <3>4, <3>5
      <4> QED BY <3>2, <3>4, <4>1
    <3>8. Pending(d)'
      BY <2>1, <3>2, <3>5, <3>6, <3>7 DEF Pending
    <3>9. Reached(given - 1 - d)'
      <4>1. (given - 1 - d)' = g - c
        BY <3>5
      <4>2. Reached(g - c)
        BY <3>3
      <4> HIDE DEF g, d
      <4> QED BY <2>1, <4>1, <4>2 DEF Reached, Closed
    <3>10. d < given' - 1 => Len(queue') = d
      BY <3>2, <3>3, <3>5
    <3> QED BY <3>5, <3>8, <3>9, <3>10
  <2>3. CASE ret' = ret + 1
    <3>1. ret' # 0
      BY <2>3, FwAssumption DEF DeviceTypeOK
    <3> QED BY <3>1 DEF LaunchReached
  <2> QED BY <1>3, <2>2, <2>3 DEF Enqueue
<1>4. CASE Enqueued
  <2>0. UNCHANGED <<slot, buf, queue, pass, before, overtaken>>
    BY <1>4 DEF Enqueued, device, running
  <2>1. CASE ret = 0
    <3>1. UNCHANGED <<attempt, given, ret>>
      BY <1>4, <2>1 DEF Enqueued
    <3> QED BY <2>0, <3>1 DEF LaunchReached, Pending, Reached, Closed
  <2>2. CASE ret # 0
    <3>1. attempt' = attempt + 1 /\ given' = 1
      BY <1>4, <2>2 DEF Enqueued
    <3>2. \A p \in DOMAIN queue : queue[p] \in Passes \cup Transfers
      BY DEF DeviceTypeOK
    <3>3. \A p \in DOMAIN queue : queue[p].of \in Launches
      BY <3>2 DEF Passes, Transfers
    <3>4. pass # Idle => pass.of \in Launches
      BY DEF DeviceTypeOK, Passes
    <3>5. \A a \in Launches : a <= attempt => a < attempt + 1
      BY <1>0, FwAssumption DEF Launches
    <3>6. Len(queue) - 0 = Len(queue) /\ 0 <= Len(queue) /\ DOMAIN queue = 1 .. Len(queue)
      BY <1>0 DEF DeviceTypeOK
    <3>7. \A p \in 1 .. Len(queue) - 0 : queue[p].of < attempt + 1
      BY <3>3, <3>5, <3>6 DEF QueueFlow
    <3>8. 1 - 1 - 0 = 0 /\ 0 \in 0 .. 1 - 1 /\ 0 # MATSIZE + 2 /\ 0 \notin 1 .. MATSIZE + 1 /\ 1 - 1 = 0
      BY <1>0
    <3>9. Pending(0)'
      BY <2>0, <3>1, <3>6, <3>7, <3>8 DEF Pending
    <3>10. Reached(0)'
      BY <2>0, <3>1, <3>4, <3>5, <3>8 DEF Reached, QueueFlow
    <3> QED BY <3>1, <3>8, <3>9, <3>10 DEF LaunchReached
  <2> QED BY <2>1, <2>2
<1>5. ASSUME NEW n \in DOMAIN queue, WriteBuffer(n) \/ ReadBuffer(n) \/ PassStarts(n)
      PROVE  LaunchReached'
  BY <1>5, ReachedStarts
<1>6. CASE \E e \in Entry : ItemTests(e) \/ ItemWrites(e)
  <2>1. pass # Idle /\ UNCHANGED <<slot, attempt, given, ret, queue, pass, before, overtaken>>
    BY <1>6 DEF ItemTests, ItemWrites, host
  <2> QED BY <2>1 DEF LaunchReached, Pending, Reached, Closed
<1>7. CASE PassEnds
  <2>1. pass # Idle /\ pass' = Idle /\ UNCHANGED <<slot, attempt, given, ret, queue, buf, overtaken>>
    BY <1>7 DEF PassEnds, host
  <2>2. /\ pass.of \in Launches /\ pass.k \in Index /\ pass.op = "pass"
        /\ buf[pass.of] = Pass(before, pass.k)
    BY <1>7, PassIsMade
  <2> SUFFICES ASSUME ret = 0, overtaken = 0, NEW c \in 0 .. given - 1,
                      Pending(c), Reached(given - 1 - c), c < given - 1 => Len(queue) = c
               PROVE  Pending(c)' /\ Reached(given - 1 - c)'
    <3>1. PICK c \in 0 .. given - 1 : /\ ret = 0 /\ overtaken = 0 => Pending(c) /\ Reached(given - 1 - c)
                                      /\ ret = 0 /\ overtaken = 0 => (c < given - 1 => Len(queue) = c)
      <4>1. 0 \in 0 .. given - 1
        BY <1>0
      <4> QED BY <4>1 DEF LaunchReached
    <3> QED BY <2>1, <3>1 DEF LaunchReached
  <2>3. Pending(c)'
    BY <2>1 DEF Pending
  <2> DEFINE x == given - 1 - c
  <2>4. x \in 0 .. MATSIZE + 2 /\ x' = x
    BY <1>0, <2>1
  <2>5. Reached(x)
    OBVIOUS
  <2> HIDE DEF x
  <2>6. x \in 1 .. MATSIZE + 1 => Closed(buf[attempt], x - 1)
    <3> SUFFICES ASSUME x \in 1 .. MATSIZE + 1 PROVE Closed(buf[attempt], x - 1)
      OBVIOUS
    <3>1. pass = Commands(attempt)[x] /\ Closed(before, x - 2)
      BY <1>0, <2>1, <2>5 DEF Reached
    <3>2. x \in 2 .. MATSIZE + 1 /\ pass.of = attempt /\ pass.k = x - 2
      BY <1>0, <2>2, <2>4, <3>1, CommandAt
    <3>3. Closed(Pass(before, x - 2), (x - 2) + 1)
      <4>1. before \in Matrices
        BY DEF DeviceTypeOK
      <4> QED BY <2>2, <3>1, <3>2, <4>1, PassCloses
    <3>4. (x - 2) + 1 = x - 1
      BY <3>2, <1>0
    <3> QED BY <2>2, <3>2, <3>3, <3>4
  <2>7. Reached(x)'
    BY <2>1, <2>4, <2>5, <2>6 DEF Reached, Closed
  <2> QED BY <2>3, <2>7 DEF x
<1> QED BY <1>1, <1>2, <1>3, <1>4, <1>5, <1>6, <1>7 DEF FwNext

\* The generated matrix is one of weights, and what the slot gets is the same.
LEMMA GeneratedIsWeights ==
  ASSUME GenerateAdjacencyMatrix
  PROVE  Weights(cpu') /\ Lengths(slot', cpu')
<1>1. PICK w \in [{e \in Entry : e[1] < e[2]} -> WEIGHTS \cup {INF}] :
        cpu' = [e \in Entry |-> IF e[1] = e[2] THEN 0
                                ELSE IF e[1] < e[2] THEN w[e] ELSE w[<<e[2], e[1]>>]]
  BY Zenon DEF GenerateAdjacencyMatrix
<1>2. \A x \in WEIGHTS \cup {INF} : x \in 0 .. INF /\ x > 0
  BY FwAssumption
<1>3. \A i, j \in Index : i < j => w[<<i, j>>] \in 0 .. INF /\ w[<<i, j>>] > 0
  <2> SUFFICES ASSUME NEW i \in Index, NEW j \in Index, i < j
               PROVE  w[<<i, j>>] \in WEIGHTS \cup {INF}
    BY <1>2
  <2>1. <<i, j>> \in {e \in Entry : e[1] < e[2]}
    BY DEF Entry
  <2> QED BY <2>1
<1>4. ASSUME NEW i \in Index, NEW j \in Index
      PROVE  /\ <<i, j>> \in Entry /\ i \in Int /\ j \in Int
             /\ cpu'[<<i, j>>] = IF i = j THEN 0 ELSE IF i < j THEN w[<<i, j>>] ELSE w[<<j, i>>]
  BY <1>1 DEF Entry, Index
<1>5. \A i, j \in Index : cpu'[<<i, j>>] \in 0 .. INF /\ (i # j => cpu'[<<i, j>>] > 0)
  <2> SUFFICES ASSUME NEW i \in Index, NEW j \in Index
               PROVE  cpu'[<<i, j>>] \in 0 .. INF /\ (i # j => cpu'[<<i, j>>] > 0)
    OBVIOUS
  <2>1. 0 \in 0 .. INF /\ i \in Int /\ j \in Int
    BY FwAssumption DEF Index
  <2>2. CASE i = j
    BY <1>4, <2>1, <2>2
  <2>3. CASE i < j
    BY <1>3, <1>4, <2>1, <2>3
  <2>4. CASE j < i
    <3>1. i # j /\ ~(i < j)
      BY <2>1, <2>4
    <3>2. cpu'[<<i, j>>] = w[<<j, i>>]
      BY <1>4, <3>1
    <3> QED BY <1>3, <2>4, <3>2
  <2> QED BY <2>1, <2>2, <2>3, <2>4
<1>6. \A i \in Index : cpu'[<<i, i>>] = 0
  BY <1>4
<1>7. cpu' \in Matrices
  <2>1. \A e \in Entry : cpu'[e] \in 0 .. INF
    BY <1>5 DEF Entry
  <2>2. cpu' = [e \in Entry |-> cpu'[e]]
    BY <1>1
  <2> QED BY <2>1, <2>2 DEF Matrices
<1>8. Weights(cpu')
  BY <1>5, <1>6, <1>7 DEF Weights
<1> QED BY <1>8, WeightsAreLengths DEF GenerateAdjacencyMatrix

LEMMA LengthsStep ==
  ASSUME DeviceTypeOK, PassExact, QueueFlow, HostFlow, LengthsEverywhere, FwNext
  PROVE  LengthsEverywhere'
<1>0. attempt \in Nat /\ given \in 1 .. MATSIZE + 3 /\ MATSIZE \in Nat \ {0} /\ attempt \in Launches
      /\ \A a \in Launches : a \in Nat /\ a > 0
  BY FwAssumption DEF DeviceTypeOK, Launches
<1>1. CASE GenerateAdjacencyMatrix
  <2>1. /\ given' = 1 /\ attempt' = 1 /\ pass' = Idle
    BY <1>1 DEF GenerateAdjacencyMatrix, device, running, HostFlow
  <2>2. \A a \in Launches : ~Written(a)'
    BY <1>0, <2>1 DEF Written
  <2>3. Weights(cpu') /\ Lengths(slot', cpu')
    BY <1>1, GeneratedIsWeights
  <2>4. Weights(cpu)' /\ Lengths(slot, cpu)'
    BY <2>3 DEF Weights, Lengths
  <2> QED BY <2>1, <2>2, <2>4 DEF LengthsEverywhere
<1>2. CASE RunCpu
  BY <1>2 DEF RunCpu, LengthsEverywhere
<1> DEFINE Told == lost = {} /\ pc \in {"launch", "finish", "post"}
<1>3. CASE Enqueue
  <2>1. UNCHANGED <<cpu, attempt, slot, before, buf, pass, pc>> /\ given' = given + 1
    BY <1>3 DEF Enqueue, running
  <2> SUFFICES ASSUME lost' = {}, Told
               PROVE  \A a \in Launches : Written(a)' => Written(a)
    <3>1. lost' = {} => lost = {}
      BY <1>3 DEF Enqueue
    <3>2. pass # Idle => pass.of \in Launches
      BY DEF DeviceTypeOK, Passes
    <3> QED BY <2>1, <3>1, <3>2 DEF LengthsEverywhere, Weights, Lengths
  <2> SUFFICES ASSUME NEW a \in Launches, Written(a)' PROVE Written(a)
    OBVIOUS
  <2> DEFINE x == Commands(attempt)[given]
  <2>2. x \in Passes \cup Transfers /\ x.of = attempt /\ (given = 1 => x.op = "write")
    <3>1. given \in 1 .. MATSIZE + 2
      BY <1>0, <1>3, CommandAt DEF Enqueue
    <3> QED BY <1>0, <3>1, CommandsType, CommandAt
  <2>3. a < attempt \/ a = attempt
    BY <2>1 DEF Written
  <2> HIDE DEF x
  <2>4. CASE queue' = Append(queue, x)
    <3>1. /\ Len(queue) \in Nat /\ DOMAIN queue = 1 .. Len(queue)
          /\ DOMAIN queue' = 1 .. Len(queue) + 1
          /\ \A p \in 1 .. Len(queue) : queue'[p] = queue[p]
          /\ queue'[Len(queue) + 1] = x
      BY <2>2, <2>4, Accepted
    <3>2. \A p \in DOMAIN queue : queue[p].op = "write" => queue[p].of # a
      BY <3>1 DEF Written
    <3>3. a = attempt => given > 1
      BY <1>0, <2>2, <3>1 DEF Written
    <3> QED BY <2>3, <3>2, <3>3 DEF Written
  <2>5. CASE queue' = queue /\ lost' = IF given = 1 THEN lost \cup {attempt} ELSE lost
    <3>1. given # 1
      BY <2>5
    <3>2. given > 1
      BY <1>0, <3>1
    <3> QED BY <2>3, <2>5, <3>2 DEF Written
  <2> QED BY <1>3, <2>4, <2>5 DEF Enqueue, x
<1>4. CASE Enqueued
  <2>1. UNCHANGED <<cpu, slot, before, buf, pass, queue, lost>> /\ pc = "launch"
    BY <1>4 DEF Enqueued, device, running
  <2>2. given > 1
    <3>1. Len(Commands(attempt)) = MATSIZE + 2
      BY <1>0, CommandsType
    <3> QED BY <1>0, <1>4, <3>1 DEF Enqueued
  <2>3. attempt' = attempt \/ attempt' = attempt + 1
    BY <1>4 DEF Enqueued
  <2>4. attempt' = attempt + 1 => given' = 1
    BY <1>0, <1>4 DEF Enqueued
  <2>5. \A a \in Launches : Written(a)' => a <= attempt
    BY <1>0, <2>3, <2>4 DEF Written
  <2>6. \A a \in Launches : Written(a)' => Written(a)
    <3>1. \A a \in Launches : Written(a)' => \A p \in DOMAIN queue : queue[p].op = "write" => queue[p].of # a
      BY <2>1 DEF Written
    <3>2. \A a \in Launches : a <= attempt => a < attempt \/ a = attempt
      BY <1>0
    <3> QED BY <2>2, <2>5, <3>1, <3>2 DEF Written
  <2>7. pass # Idle => pass.of \in Launches
    BY DEF DeviceTypeOK, Passes
  <2> QED BY <2>1, <2>6, <2>7 DEF LengthsEverywhere, Weights, Lengths
<1>5. CASE Finish
  BY <1>5 DEF Finish, device, running, LengthsEverywhere, Written, Weights, Lengths
<1>6. ASSUME NEW n \in DOMAIN queue, WriteBuffer(n) \/ ReadBuffer(n) \/ PassStarts(n)
      PROVE  LengthsEverywhere'
  <2>1. Starts(n) /\ UNCHANGED <<cpu, attempt, given, pc>> /\ lost \subseteq lost'
    BY <1>6 DEF WriteBuffer, ReadBuffer, PassStarts, host
  <2> DEFINE b == queue[n].of
  <2>2. /\ pass = Idle /\ b \in Launches
        /\ \A p \in DOMAIN queue : p # n => \E q \in DOMAIN queue' : queue'[q] = queue[p]
    BY <2>1, Started
  <2> SUFFICES ASSUME Told, lost' = {} PROVE LengthsEverywhere'
    BY <2>1 DEF LengthsEverywhere
  <2>3. Weights(cpu) /\ Lengths(slot, cpu) /\ \A a \in Launches : Written(a) => Lengths(buf[a], cpu)
    BY <2>2 DEF LengthsEverywhere
  <2>5. \A a \in Launches : Written(a)' /\ (queue[n].op = "write" => a # b) => Written(a)
    BY <2>1, <2>2 DEF Written
  <2>6. b < attempt \/ (b = attempt /\ given > 1)
    <3>1. b <= attempt /\ (b = attempt => given > 1)
      BY DEF QueueFlow
    <3>2. b \in Nat
      BY <1>0, <2>2
    <3> HIDE DEF b
    <3> QED BY <1>0, <3>1, <3>2
  <2>7. CASE WriteBuffer(n)
    <3>1. buf' = [buf EXCEPT ![b] = slot] /\ pass' = Idle /\ slot' = slot /\ queue[n].op = "write"
      BY <2>2, <2>7 DEF WriteBuffer, running
    <3> HIDE DEF b
    <3>2. \A a \in Launches : buf'[a] = IF a = b THEN slot ELSE buf[a]
      BY <3>1 DEF DeviceTypeOK
    <3>3. \A a \in Launches : Written(a)' => Lengths(buf'[a], cpu)
      BY <2>3, <2>5, <3>2
    <3> QED BY <2>1, <2>3, <3>1, <3>3 DEF LengthsEverywhere, Weights, Lengths
  <2>8. CASE ReadBuffer(n)
    <3>1. UNCHANGED <<buf, pass>> /\ slot' = buf[b] /\ queue[n].op # "write" /\ ~WriteWaits(b)
      BY <2>2, <2>8 DEF ReadBuffer, running
    <3>2. Written(b)
      <4>1. \A p \in DOMAIN queue : queue[p] \in Passes \cup Transfers
        BY DEF DeviceTypeOK
      <4>2. \A x \in Passes \cup Transfers : x.op = "write" => x = [op |-> "write", of |-> x.of]
        BY DEF Passes, Transfers
      <4>3. \A p \in DOMAIN queue : queue[p].op = "write" => queue[p].of # b
        BY <3>1, <4>1, <4>2 DEF WriteWaits
      <4> QED BY <2>6, <4>3 DEF Written
    <3> HIDE DEF b
    <3>3. Lengths(slot', cpu)
      BY <2>2, <2>3, <3>1, <3>2
    <3>4. \A a \in Launches : Written(a)' => Lengths(buf[a], cpu)
      BY <2>3, <2>5, <3>1
    <3> QED BY <2>1, <2>2, <2>3, <3>1, <3>3, <3>4 DEF LengthsEverywhere, Weights, Lengths
  <2>9. CASE PassStarts(n)
    <3>1. UNCHANGED <<buf, slot>> /\ before' = buf[b] /\ queue[n].op # "write" /\ pass' = queue[n] /\ pass'.of = b
      BY <2>2, <2>9 DEF PassStarts
    <3> HIDE DEF b
    <3>3. Written(pass.of)' => Lengths(before', cpu)
      <4>1. \A a \in Launches : a = pass'.of /\ Written(pass.of)' => Written(a)'
        <5>1. Written(pass.of)' =>
                /\ pass'.of < attempt' \/ (pass'.of = attempt' /\ given' > 1)
                /\ \A p \in DOMAIN queue' : queue'[p].op = "write" => queue'[p].of # pass'.of
          BY DEF Written
        <5> QED BY <5>1 DEF Written
      <4> QED BY <2>2, <2>3, <2>5, <3>1, <4>1
    <3>4. \A a \in Launches : Written(a)' => Lengths(buf[a], cpu)
      BY <2>3, <2>5, <3>1
    <3> QED BY <2>1, <2>2, <2>3, <3>1, <3>3, <3>4 DEF LengthsEverywhere, Weights, Lengths
  <2> QED BY <1>6, <2>7, <2>8, <2>9
<1>7. ASSUME NEW e \in Entry, ItemTests(e) \/ ItemWrites(e)
      PROVE  LengthsEverywhere'
  <2>1. pass # Idle /\ UNCHANGED <<slot, cpu, attempt, given, lost, pc, queue, pass, before>>
    BY <1>7 DEF ItemTests, ItemWrites, host
  <2>2. \A a \in Launches : a # pass.of => buf'[a] = buf[a]
    BY <1>7 DEF ItemTests, ItemWrites, DeviceTypeOK
  <2> SUFFICES ASSUME Told PROVE LengthsEverywhere'
    BY <2>1 DEF LengthsEverywhere
  <2>3. /\ Weights(cpu) /\ Lengths(slot, cpu) /\ (Written(pass.of) => Lengths(before, cpu))
        /\ \A a \in Launches : Written(a) /\ pass.of # a => Lengths(buf[a], cpu)
    BY <2>1 DEF LengthsEverywhere
  <2>4. (\A a \in Launches : Written(a)' => Written(a)) /\ (Written(pass.of)' => Written(pass.of))
    BY <2>1 DEF Written
  <2>5. \A a \in Launches : Written(a)' /\ pass.of # a => Lengths(buf'[a], cpu)
    BY <2>2, <2>3, <2>4
  <2> QED BY <2>1, <2>3, <2>4, <2>5 DEF LengthsEverywhere, Weights, Lengths
<1>8. CASE PassEnds
  <2>1. pass # Idle /\ pass' = Idle /\ UNCHANGED <<slot, cpu, attempt, given, lost, pc, queue, buf>>
    BY <1>8 DEF PassEnds, host
  <2> SUFFICES ASSUME Told PROVE LengthsEverywhere'
    BY <2>1 DEF LengthsEverywhere
  <2>2. /\ Weights(cpu) /\ Lengths(slot, cpu) /\ (Written(pass.of) => Lengths(before, cpu))
        /\ \A a \in Launches : Written(a) /\ pass.of # a => Lengths(buf[a], cpu)
    BY <2>1 DEF LengthsEverywhere
  <2>3. Written(pass.of) => Lengths(buf[pass.of], cpu)
    <3>1. pass.k \in Index /\ buf[pass.of] = Pass(before, pass.k)
      BY <1>8, PassIsMade
    <3> QED BY <2>2, <3>1, PassKeepsLengths
  <2>4. \A a \in Launches : Written(a) => Lengths(buf[a], cpu)
    BY <2>2, <2>3
  <2>5. \A a \in Launches : Written(a)' => Written(a)
    BY <2>1 DEF Written
  <2> QED BY <2>1, <2>2, <2>4, <2>5 DEF LengthsEverywhere, Weights, Lengths
<1> QED BY <1>1, <1>2, <1>3, <1>4, <1>5, <1>6, <1>7, <1>8 DEF FwNext

\* When the call has returned the slot holds lengths of ways, and if nothing was
\* overtaken it is closed, so they are the shortest.
LEMMA ReturnedIsShortest ==
  ASSUME DeviceTypeOK, LaunchInv, pc = "post", lost = {}
  PROVE  Reaches(Shortest(cpu)) /\ Weights(cpu)
<1>1. given = MATSIZE + 3 /\ ret = 0 /\ queue = <<>> /\ MATSIZE \in Nat
  BY FwAssumption DEF LaunchInv, HostFlow
<1>2. Weights(cpu) /\ Lengths(slot, cpu)
  BY DEF LaunchInv, LengthsEverywhere
<1>3. \A e \in Entry : slot[e] >= Shortest(cpu)[e]
  BY <1>2, NoneIsShorter
<1>4. ASSUME overtaken = 0
      PROVE  slot = Shortest(cpu)
  <2>1. PICK c \in 0 .. given - 1 : Pending(c) /\ Reached(given - 1 - c)
    BY <1>1, <1>4 DEF LaunchInv, LaunchReached
  <2>2. c = 0 /\ given - 1 - c = MATSIZE + 2
    <3>1. Len(queue) = 0
      BY <1>1
    <3>2. c <= 0
      BY <2>1, <3>1 DEF Pending
    <3> QED BY <1>1, <3>2
  <2>3. Closed(slot, MATSIZE)
    BY <2>1, <2>2 DEF Reached
  <2> QED BY <1>2, <2>3, ClosedIsShortest
<1> QED BY <1>2, <1>3, <1>4 DEF Reaches

LEMMA LaunchInvStep ==
  ASSUME PassInv, LaunchInv, [FwNext]_fwVars
  PROVE  LaunchInv'
<1>0. DeviceTypeOK /\ PassExact /\ QueueFlow /\ HostFlow /\ LaunchReached /\ LengthsEverywhere /\ ClientAgrees
  BY DEF PassInv, LaunchInv
<1>1. CASE FwNext
  <2>1. QueueFlow' /\ HostFlow'
    BY <1>0, <1>1, QueueFlowStep, HostFlowStep
  <2>2. LaunchReached'
    BY <1>0, <1>1, LaunchReachedStep
  <2>3. LengthsEverywhere'
    BY <1>0, <1>1, LengthsStep
  <2>4. ClientAgrees'
    <3>1. CASE RunCpu
      <4>1. /\ pc = "post" /\ cpu' = FloydWarshallCpu(cpu)
            /\ slot' = slot /\ lost' = lost /\ overtaken' = overtaken
        BY <3>1 DEF RunCpu, device
      <4> SUFFICES ASSUME lost = {} PROVE Reaches(cpu)'
        BY <4>1 DEF ClientAgrees
      <4>2. Reaches(Shortest(cpu)) /\ Weights(cpu)
        BY <1>0, <4>1, ReturnedIsShortest
      <4>3. cpu' = Shortest(cpu)
        BY <4>1, <4>2, CpuIsShortest
      <4> QED BY <4>1, <4>2, <4>3 DEF Reaches
    <3>2. CASE pc = "end"
      <4>1. queue = <<>> /\ pass = Idle
        BY <1>0, <3>2 DEF HostFlow
      <4>2. DOMAIN queue = {}
        BY <4>1
      <4> QED
        BY <1>1, <3>2, <4>1, <4>2
           DEF FwNext, GenerateAdjacencyMatrix, RunCpu, Enqueue, Enqueued, Finish, PassEnds, ItemTests, ItemWrites
    <3>3. CASE pc # "end" /\ ~RunCpu
      <4>1. pc' # "end"
        BY <1>1, <3>3
           DEF FwNext, GenerateAdjacencyMatrix, Enqueue, Enqueued, Finish, PassEnds, ItemTests, ItemWrites,
               WriteBuffer, ReadBuffer, PassStarts, host
      <4> QED BY <4>1 DEF ClientAgrees
    <3> QED BY <3>1, <3>2, <3>3
  <2> QED BY <2>1, <2>2, <2>3, <2>4 DEF LaunchInv
<1>2. CASE UNCHANGED fwVars
  <2> USE <1>0, <1>2 DEF fwVars, host, device, running
  <2>1. QueueFlow' /\ HostFlow' /\ ClientAgrees'
    BY DEF QueueFlow, HostFlow, ClientAgrees, Reaches
  <2>2. LaunchReached'
    BY DEF LaunchReached, Pending, Reached, Closed
  <2>3. LengthsEverywhere'
    BY DEF LengthsEverywhere, Written, Weights, Lengths
  <2> QED BY <2>1, <2>2, <2>3 DEF LaunchInv
<1> QED BY <1>1, <1>2

\* Unless a write was refused or overtaken by its read, the call returns with lengths
\* in the slot that are never below the shortest, and with the shortest where no
\* command overtook an earlier one: for every size of the matrix and every weights,
\* whatever was in the buffers, in whatever order the work items of a pass run, and
\* whichever passes and reads of earlier launches were refused.  The client's own
\* loops, in place, compute the shortest too.
THEOREM ResultsAreShortest == FwSpec => []ResultIsShortest
<1>1. FwInit => PassInv /\ LaunchInv
  BY PassInvInit, LaunchInvInit
<1>2. PassInv /\ LaunchInv /\ [FwNext]_fwVars => (PassInv /\ LaunchInv)'
  BY PassInvStep, LaunchInvStep
<1>3. PassInv /\ LaunchInv => ResultIsShortest
  BY ReturnedIsShortest DEF PassInv, LaunchInv, ClientAgrees, ResultIsShortest
<1> QED
  BY <1>1, <1>2, <1>3, PTL DEF FwSpec
=============================================================================
