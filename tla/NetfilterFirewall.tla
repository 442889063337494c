-------------------------- MODULE NetfilterFirewall --------------------------
(***************************************************************************)
(* The netfilter firewall: its module queues TCP and UDP packets and keeps  *)
(* a list of addresses written to /dev/drop; its program collects packets,  *)
(* copies of their payload included, and gives the verdicts.               *)
(*                                                                         *)
(* A payload is measured in buffer elements: copying one of reach k runs    *)
(* over the ids of the next k elements.                                    *)
(***************************************************************************)
EXTENDS NfQueue

CONSTANTS
  BUFFERED,      \* packets collected before they are judged
  ELEMENTS,      \* elements of u_packet_buff
  REACH,         \* elements behind its own that the longest payload runs over
  FILTERMAX      \* elements of filter_addr

NetfilterAssumption ==
  /\ {BUFFERED, ELEMENTS, REACH, FILTERMAX} \subseteq Nat /\ BUFFERED > 0
  /\ BUFFERED - 1 + REACH < ELEMENTS   \* 8 - 1 + 3 < 16

VARIABLES
  hooked,       \* the module is loaded
  filter,       \* filter_addr[0 .. filter_addr_cnt - 1]
  program,      \* "out", "recv" or "ended"
  ids,          \* the id of each element of u_packet_buff, None when it was run over
  index,        \* u_packet_buff_index
  firstRv       \* whether first_rv_time was ever set

netfilterVars == <<queueVars, hooked, filter, program, ids, index, firstRv>>

NetfilterTypeOK ==
  /\ QueueTypeOK /\ hooked \in BOOLEAN /\ firstRv \in BOOLEAN
  /\ filter \in Seq(Addresses) /\ program \in {"out", "recv", "ended"}
  /\ ids \in [0 .. ELEMENTS - 1 -> Packets \cup {None}] /\ index \in 0 .. BUFFERED - 1

NotLoaded ==
  /\ hooked = FALSE /\ filter = <<>> /\ program = "out"
  /\ ids = [k \in 0 .. ELEMENTS - 1 |-> None] /\ index = 0 /\ firstRv = FALSE

NetfilterInit == QueueInit /\ NotLoaded

-----------------------------------------------------------------------------
(* The module                                                              *)

\* The list is a static array: loading the module again begins with an empty one.
InitModule ==
  /\ ~ hooked /\ hooked' = TRUE /\ filter' = <<>>
  /\ UNCHANGED <<queueVars, program, ids, index, firstRv>>

CleanupModule ==
  /\ hooked /\ hooked' = FALSE
  /\ UNCHANGED <<queueVars, filter, program, ids, index, firstRv>>

\* main_hook says NF_QUEUE for TCP and UDP, whatever the list holds.
Arrive(p) == hooked /\ NfQueued(p) /\ UNCHANGED <<hooked, filter, program, ids, index, firstRv>>

\* The counter has no limit in the code; the model stops at the end of the array.
AddAddr(a) == Len(filter) < FILTERMAX /\ filter' = Append(filter, a)

\* app.c opens /dev/drop and writes a message with an address.
DropWrite ==
  /\ hooked
  /\ \E a \in Addresses : AddAddr(a)
  /\ UNCHANGED <<queueVars, hooked, program, ids, index, firstRv>>

-----------------------------------------------------------------------------
(* The program                                                             *)

\* A library call that fails ends the program.
NetlinkInit ==
  /\ program = "out"
  /\ \/ program' = "ended" /\ UNCHANGED <<queueVars, index>>
     \/ CreateQueue /\ index' = 0 /\ program' = "recv"
  /\ UNCHANGED <<hooked, filter, ids, firstRv>>

\* Element index takes the id, and the payload runs over the ids behind it.
Copied(p, reach) ==
  [k \in 0 .. ELEMENTS - 1 |->
     IF k = index THEN p ELSE IF k \in index + 1 .. index + reach THEN None ELSE ids[k]]

\* The elements the loop over the buffer passes to nfq_set_verdict.
Judged(n, buffer) == {buffer[i] : i \in 0 .. n - 1}

\* packet_buffering: the buffer is judged when it is full or the last verdicts are
\* older than a second (before the first ones, always); every verdict is NF_ACCEPT.
PacketBuffering(p, reach, elapsed) ==
  /\ ids' = Copied(p, reach)
  /\ firstRv = FALSE => elapsed
  /\ IF index + 1 = BUFFERED \/ elapsed
       THEN /\ waiting' = waiting \ Judged(index + 1, ids')
            /\ src' = [q \in Packets |-> IF q \in Judged(index + 1, ids') THEN None ELSE src[q]]
            /\ index' = 0 /\ firstRv' = TRUE
       ELSE index' = index + 1 /\ UNCHANGED <<waiting, src, firstRv>>

\* The loop of netlink_init: a packet is handled.
HandlePacket ==
  /\ program = "recv" /\ socket # <<>>
  /\ socket' = Tail(socket)
  /\ \E reach \in 0 .. REACH, elapsed \in BOOLEAN : PacketBuffering(Head(socket), reach, elapsed)
  /\ UNCHANGED <<bound, hooked, filter, program>>

\* A recv that fails, interrupted or overrun, ends the loop and the program.
RecvFails ==
  /\ program = "recv" /\ program' = "ended"
  /\ DestroyQueue
  /\ UNCHANGED <<hooked, filter, ids, index, firstRv>>

Traffic == \E p \in Packets : Arrive(p)

NetfilterNext ==
  \/ InitModule \/ CleanupModule \/ DropWrite \/ Traffic
  \/ NetlinkInit \/ HandlePacket \/ RecvFails

\* The program runs, a module that was unloaded is loaded again, and traffic goes on.
NetfilterSpec ==
  /\ NetfilterInit /\ [][NetfilterNext]_netfilterVars
  /\ WF_netfilterVars(HandlePacket) /\ SF_netfilterVars(Traffic)
  /\ WF_netfilterVars(InitModule)

-----------------------------------------------------------------------------
(* Properties                                                              *)

\* However long the payloads are, the ids in use are those of the packets that
\* were collected: an element is run over only before its own packet comes, and
\* there are elements enough behind the last one in use.
IdsIntact ==
  /\ \A i \in 0 .. index - 1 : ids[i] \in Packets
  /\ Cardinality({ids[i] : i \in 0 .. index - 1}) = index
  /\ program = "recv" =>
       waiting = {ids[i] : i \in 0 .. index - 1} \cup {socket[i] : i \in 1 .. Len(socket)}

\* The program collects every waiting packet once and knows its id, in a buffer that
\* is never overrun.
PacketsHeldOnce == NetfilterTypeOK /\ IdsIntact

\* Every packet that waits is judged or, when the program ends, dropped.
WaitingIsJudged == \A p \in Packets : p \in waiting ~> p \notin waiting
=============================================================================
