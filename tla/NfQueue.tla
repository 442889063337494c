------------------------------- MODULE NfQueue -------------------------------
(***************************************************************************)
(* The kernel's packet queue as the firewalls of test_module use it through *)
(* libnetfilter_queue (external): a packet for which a hook returns NF_QUEUE *)
(* waits in the kernel until a verdict names it, and a copy goes to the     *)
(* socket of the process that created the queue.                            *)
(***************************************************************************)
EXTENDS Integers, Sequences, FiniteSets

CONSTANTS
  Packets,      \* packet ids; an id is used again once its packet is judged
  Addresses,    \* source addresses that occur
  QUEUEMAX,     \* packets the kernel lets wait
  None

NfQueueAssumption == QUEUEMAX \in Nat \ {0} /\ None \notin Addresses

VARIABLES
  bound,     \* a process has created the queue
  socket,    \* copies nobody has received yet
  waiting,   \* packets without a verdict
  src        \* the source address of a waiting packet

queueVars == <<bound, socket, waiting, src>>

QueueTypeOK ==
  /\ bound \in BOOLEAN /\ waiting \subseteq Packets /\ Cardinality(waiting) \leq QUEUEMAX
  /\ socket \in Seq(Packets) /\ src \in [Packets -> Addresses \cup {None}]

QueueInit == bound = FALSE /\ socket = <<>> /\ waiting = {} /\ src = [p \in Packets |-> None]

\* A TCP or UDP packet for which the hook returned NF_QUEUE; without a process,
\* or when too many wait, the kernel drops it.
NfQueued(p) ==
  /\ p \notin waiting
  /\ bound /\ Cardinality(waiting) < QUEUEMAX
  /\ \E a \in Addresses : src' = [src EXCEPT ![p] = a]
  /\ waiting' = waiting \cup {p} /\ socket' = Append(socket, p)
  /\ UNCHANGED bound

CreateQueue == bound' = TRUE /\ socket' = <<>> /\ UNCHANGED <<waiting, src>>

\* nfq_set_verdict for the packets of a set; one that does not wait is ignored.
SetVerdict(ps) ==
  /\ waiting' = waiting \ ps
  /\ src' = [p \in Packets |-> IF p \in ps THEN None ELSE src[p]]
  /\ UNCHANGED <<bound, socket>>

\* The kernel drops what waits.
DestroyQueue == bound' = FALSE /\ socket' = <<>> /\ waiting' = {} /\ src' = [p \in Packets |-> None]
=============================================================================
