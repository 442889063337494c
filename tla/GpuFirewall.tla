----------------------------- MODULE GpuFirewall -----------------------------
(***************************************************************************)
(* The GPU firewall: the client module hooks in and asks for the service   *)
(* when it is loaded and again when it is unloaded; the service's launch   *)
(* toggles a thread that collects packets, has the GPU compare their source *)
(* addresses with the bad ones and gives the verdicts.                     *)
(***************************************************************************)
EXTENDS NfQueue, FirewallRules

CONSTANTS
  UPACKETBUFFSIZE,   \* packets the service collects
  DEVICEINTS,        \* addresses that fit into the GPU's buffer
  GRIDX, GRIDY,      \* the work items
  STRIDE,            \* packet_buff_index = y * STRIDE + x
  NEWWORDS,          \* words that a new buffer may hold
  REFUSALS           \* bound: commands of one buffer of packets that OpenCL refuses

Words == {0, 1} \cup Addresses

GpuFirewallAssumption ==
  /\ {UPACKETBUFFSIZE, DEVICEINTS, GRIDX, GRIDY, STRIDE} \subseteq Nat \ {0}
  /\ NEWWORDS # {} /\ NEWWORDS \subseteq Words /\ REFUSALS \in Nat
  /\ \A i \in 0 .. Len(BadAddress) - 1 : BadIpAddress(i) \notin {0, 1}

VARIABLES
  client,     \* the module: "out", "loading", "in", "noreq", "unloading", "unhook", "oops"
  daemon,     \* "idle", "joining" or "exited"
  offFlag, breakFlag,
  thread,     \* "none", "recv", "gpu", "verdict" or "ended"
  buff,       \* id_buff and sip_buff up to u_packet_buff_index
  firstRv,    \* the unit of first_rv_time: "ms" at the beginning, then "us"
  commands,   \* commands of the queue that are not finished
  devPackets, devRules,   \* packet_buff on the device; whether the rules are there
  item,       \* where each work item is
  mishap      \* history of the packets at hand: commands that were refused or that one
              \* which needs them overtook, and "overrun", a work item behind the buffer

control == <<client, daemon, offFlag, breakFlag>>
gpu == <<commands, devPackets, devRules, item, mishap>>
firewallVars == <<queueVars, control, thread, buff, firstRv, gpu>>

Items == (0 .. GRIDX - 1) \X (0 .. GRIDY - 1)
Commands == {"writePackets", "writeRules", "kernel", "read"}

FirewallTypeOK ==
  /\ QueueTypeOK
  /\ client \in {"out", "loading", "in", "noreq", "unloading", "unhook", "oops"}
  /\ daemon \in {"idle", "joining", "exited"} /\ offFlag \in 0 .. 1 /\ breakFlag \in BOOLEAN
  /\ thread \in {"none", "recv", "gpu", "verdict", "ended"}
  /\ buff \in Seq([id : Packets, sip : Words]) /\ Len(buff) \leq UPACKETBUFFSIZE
  /\ firstRv \in {"ms", "us"} /\ commands \subseteq Commands
  /\ devPackets \in [0 .. DEVICEINTS - 1 -> Words] /\ devRules \in BOOLEAN
  /\ item \in [Items -> {"match", "clear", "done"}]
  /\ mishap \subseteq Commands \cup {"overrun"}

FirewallInit ==
  /\ QueueInit /\ client = "out" /\ daemon = "idle" /\ offFlag = 0 /\ breakFlag = FALSE
  /\ thread = "none" /\ buff = <<>> /\ firstRv = "ms"
  /\ commands = {} /\ devPackets = [k \in 0 .. DEVICEINTS - 1 |-> 0] /\ devRules = FALSE
  /\ item = [w \in Items |-> "done"] /\ mishap = {}

-----------------------------------------------------------------------------
(* The client module and the service's launch                              *)

Hooked == client # "out"

Arrive(p) == Hooked /\ NfQueued(p) /\ UNCHANGED <<control, thread, buff, firstRv, gpu>>

\* The hook is registered first; without a request it stays, and nobody asks.
InitModule ==
  /\ client = "out"
  /\ client' \in {"loading", "noreq"}
  /\ UNCHANGED <<queueVars, daemon, offFlag, breakFlag, thread, buff, firstRv, gpu>>

\* cleanup_module calls with the request of init_module, or with a null pointer.
CleanupModule ==
  /\ client \in {"in", "noreq"}
  /\ client' = IF client = "in" THEN "unloading" ELSE "oops"
  /\ UNCHANGED <<queueVars, daemon, offFlag, breakFlag, thread, buff, firstRv, gpu>>

Unhook ==
  /\ client = "unhook" /\ client' = "out"
  /\ UNCHANGED <<queueVars, daemon, offFlag, breakFlag, thread, buff, firstRv, gpu>>

Reply == client' = IF client = "loading" THEN "in" ELSE "unhook"

\* netlink_init: where the library cannot open, bind or create, the daemon exits;
\* a failed nfq_unbind_pf is printed.  That there may be no thread is not noticed.
NetlinkInit ==
  \/ daemon' = "exited" /\ UNCHANGED <<queueVars, client, offFlag, thread, buff>>
  \/ /\ CreateQueue /\ buff' = <<>> /\ thread' \in {"recv", "none"} /\ offFlag' = 1
     /\ Reply /\ UNCHANGED daemon

\* gpu_firewall_launch toggles: on, or off up to pthread_join.
Launch ==
  /\ client \in {"loading", "unloading"} /\ daemon = "idle"
  /\ IF offFlag = 0
       THEN NetlinkInit /\ UNCHANGED breakFlag
       ELSE /\ offFlag' = 0 /\ breakFlag' = TRUE /\ daemon' = "joining"
            /\ UNCHANGED <<queueVars, client, thread, buff>>
  /\ UNCHANGED <<firstRv, gpu>>

\* Mutant: launch returns without joining the thread.
JoinAnyway ==
  /\ daemon = "joining"
  /\ DestroyQueue /\ daemon' = "idle" /\ Reply
  /\ UNCHANGED <<offFlag, breakFlag, thread, buff, firstRv, gpu>>

\* The daemon waits here, with all its other services, for the thread.  To join one
\* that was never created returns or ends the daemon, and its queue with it.
Join ==
  /\ daemon = "joining" /\ thread \in {"ended", "none"}
  /\ DestroyQueue
  /\ \/ daemon' = "idle" /\ Reply
     \/ thread = "none" /\ daemon' = "exited" /\ UNCHANGED client
  /\ UNCHANGED <<offFlag, breakFlag, thread, buff, firstRv, gpu>>

-----------------------------------------------------------------------------
(* The thread                                                              *)

Index(w) == w[2] * STRIDE + w[1]

\* The commands are queued, except those OpenCL refuses, which nobody asks about; the
\* buffers are new, and hold anything.  The kernel's test knows the number of packets
\* and not the size of the buffer.
DoWork(n) ==
  /\ \E refused \in SUBSET Commands :
       /\ Cardinality(refused) \leq REFUSALS
       /\ commands' = Commands \ refused /\ mishap' = refused
       /\ item' = [w \in Items |-> IF Index(w) < n /\ "kernel" \notin refused THEN "match" ELSE "done"]
  /\ devPackets' \in [0 .. DEVICEINTS - 1 -> NEWWORDS]
  /\ devRules' = FALSE

\* The entry of a TCP or UDP packet, the only ones the hook queues: id and source.
ShowPacket(p) == [id |-> p, sip |-> src[p]]

\* Mutant: the buffer is judged when one more packet than it holds has come.
PacketBufferingLate(p) ==
  /\ buff' = Append(buff, ShowPacket(p))
  /\ \E elapsed \in BOOLEAN :
       /\ firstRv = "ms" => elapsed
       /\ IF Len(buff') = UPACKETBUFFSIZE + 1 \/ elapsed
            THEN DoWork(Len(buff')) /\ thread' = "gpu"
            ELSE UNCHANGED <<gpu, thread>>

\* packet_buffering: id and source address are noted; the buffer is judged when it
\* is full or when the last verdicts are more than a second old.
PacketBuffering(p) ==
  /\ buff' = Append(buff, ShowPacket(p))
  /\ \E elapsed \in BOOLEAN :
       /\ firstRv = "ms" => elapsed
       /\ IF Len(buff') = UPACKETBUFFSIZE \/ elapsed
            THEN DoWork(Len(buff')) /\ thread' = "gpu"
            ELSE UNCHANGED <<gpu, thread>>

\* Mutant: the flag is not tested.
HandlePacketIgnores ==
  /\ thread = "recv" /\ socket # <<>>
  /\ socket' = Tail(socket)
  /\ PacketBuffering(Head(socket))
  /\ UNCHANGED <<bound, waiting, src, control, firstRv>>

\* handle_packet: recv blocks until there is a packet, and the flag is tested then.
HandlePacket ==
  /\ thread = "recv" /\ socket # <<>>
  /\ socket' = Tail(socket)
  /\ IF breakFlag
       THEN thread' = "ended" /\ UNCHANGED <<buff, gpu>>
       ELSE PacketBuffering(Head(socket))
  /\ UNCHANGED <<bound, waiting, src, control, firstRv>>

\* The packets whose entry came back as 0.
Accepted == {buff[i].id : i \in {j \in 1 .. Len(buff) : buff[j].sip = 0}}
Dropped == {buff[i].id : i \in 1 .. Len(buff)} \ Accepted

Verdicts ==
  /\ thread = "verdict"
  /\ SetVerdict(Accepted \cup Dropped)
  /\ buff' = <<>> /\ firstRv' = "us" /\ thread' = "recv" /\ mishap' = {}
  /\ UNCHANGED <<control, commands, devPackets, devRules, item>>

-----------------------------------------------------------------------------
(* The command queue and the kernel                                        *)

Needs ==
  [writePackets |-> {}, writeRules |-> {}, kernel |-> {"writePackets", "writeRules"},
   read |-> {"writePackets", "kernel"}]

\* The queue is out of order and no command names an event to wait for: any may run.
Runs(cmd) == cmd \in commands /\ mishap' = mishap \cup (Needs[cmd] \cap commands)

WritePackets ==
  /\ Runs("writePackets")
  /\ devPackets' = [k \in 0 .. DEVICEINTS - 1 |-> IF k < Len(buff) THEN buff[k + 1].sip ELSE devPackets[k]]
  /\ commands' = commands \ {"writePackets"}
  /\ UNCHANGED <<queueVars, control, thread, buff, firstRv, devRules, item>>

WriteRules ==
  /\ Runs("writeRules")
  /\ devRules' = TRUE /\ commands' = commands \ {"writeRules"}
  /\ UNCHANGED <<queueVars, control, thread, buff, firstRv, devPackets, item>>

ItemGoes(w, there) ==
  /\ item' = [item EXCEPT ![w] = there]
  /\ commands' = IF \A v \in Items : item'[v] = "done" THEN commands \ {"kernel"} ELSE commands
  /\ UNCHANGED <<queueVars, control, thread, buff, firstRv>>

\* A work item that is behind the buffer reads and writes what is there, perhaps rules.
Overruns(w) ==
  /\ "kernel" \in commands /\ Index(w) \geq DEVICEINTS
  /\ mishap' = mishap \cup {"overrun"} \cup (Needs.kernel \cap commands)
  /\ devRules' \in {devRules, FALSE} /\ UNCHANGED devPackets

\* One work item of packet_matching: the loop over the words, then the second test.
\* Each reads and writes one word that a neighbour may also use.  Words that were
\* never written match or do not.
Match(w) ==
  /\ item[w] = "match" /\ ItemGoes(w, "clear")
  /\ \/ Overruns(w)
     \/ /\ Runs("kernel") /\ Index(w) < DEVICEINTS /\ UNCHANGED devRules
        /\ \E found \in BOOLEAN :
             /\ devRules => (found <=> devPackets[Index(w)] \in RuleWords)
             /\ devPackets' = IF found THEN [devPackets EXCEPT ![Index(w)] = 1] ELSE devPackets

\* Mutant: an address that was not found stays as it is.
ClearKept(w) ==
  /\ item[w] = "clear" /\ ItemGoes(w, "done")
  /\ Overruns(w) \/ (Runs("kernel") /\ Index(w) < DEVICEINTS /\ UNCHANGED <<devPackets, devRules>>)

Clear(w) ==
  /\ item[w] = "clear" /\ ItemGoes(w, "done")
  /\ \/ Overruns(w)
     \/ /\ Runs("kernel") /\ Index(w) < DEVICEINTS /\ UNCHANGED devRules
        /\ devPackets' = IF devPackets[Index(w)] # 1 THEN [devPackets EXCEPT ![Index(w)] = 0] ELSE devPackets

\* DEVICEINTS words come back; the addresses behind them stay what they were.
ReadBack ==
  /\ Runs("read")
  /\ buff' = [i \in 1 .. Len(buff) |->
                IF i \leq DEVICEINTS THEN [buff[i] EXCEPT !.sip = devPackets[i - 1]] ELSE buff[i]]
  /\ commands' = commands \ {"read"}
  /\ UNCHANGED <<queueVars, control, thread, firstRv, devPackets, devRules, item>>

\* clFinish; the buffers are released.
Finish ==
  /\ thread = "gpu" /\ commands = {}
  /\ thread' = "verdict"
  /\ devPackets' = [k \in 0 .. DEVICEINTS - 1 |-> 0] /\ devRules' = FALSE
  /\ UNCHANGED <<queueVars, control, buff, firstRv, commands, item, mishap>>

-----------------------------------------------------------------------------
ThreadStep == HandlePacket \/ Verdicts \/ Finish

GpuStep == WritePackets \/ WriteRules \/ ReadBack \/ \E w \in Items : Match(w) \/ Clear(w)

DaemonStep == Launch \/ Join

Traffic == \E p \in Packets : Arrive(p)

FirewallNext ==
  \/ Traffic
  \/ InitModule \/ CleanupModule \/ Unhook
  \/ DaemonStep \/ ThreadStep \/ GpuStep

\* Daemon, thread and GPU run, and traffic goes on; the module need not be unloaded.
FirewallSpec ==
  /\ FirewallInit /\ [][FirewallNext]_firewallVars
  /\ WF_firewallVars(DaemonStep) /\ WF_firewallVars(ThreadStep) /\ WF_firewallVars(GpuStep)
  /\ WF_firewallVars(Unhook) /\ WF_firewallVars(Traffic)

-----------------------------------------------------------------------------
(* Properties                                                              *)

Received == {buff[i].id : i \in 1 .. Len(buff)}
Unread == {socket[i] : i \in 1 .. Len(socket)}

\* While the thread runs, every packet that waits in the kernel is in the socket
\* or in the buffer, once, and the buffer holds no other: no packet is judged
\* twice, forgotten, or mistaken for one of an earlier session.
EveryPacketHeldOnce ==
  thread \in {"recv", "gpu", "verdict"} =>
    /\ waiting = Received \cup Unread /\ Received \cap Unread = {}
    /\ Cardinality(Received) = Len(buff) /\ Cardinality(Unread) = Len(socket)

\* No packet from an address the kernel compares is let through, although two work
\* items write the same word without a barrier, and whether or not the kernel and the
\* read ran, in time or at all: unless a write was missing or late, or a work item
\* worked behind the buffer.
BadNeverAccepted ==
  thread = "verdict" /\ mishap \subseteq {"kernel", "read"} => \A p \in Accepted : ~ Compared(src[p])

\* When every command ran, each after those it needs, a packet in a place that one
\* work item handles, and that fits on the device, gets the verdict of the CPU
\* firewall, except for the half of the list that is not compared, for address 0,
\* which equals a high word, and for address 1, which is the mark of a match.
SingleVisitExact ==
  thread = "verdict" /\ mishap = {} =>
    \A i \in 1 .. Len(buff) :
      i \leq DEVICEINTS /\ Cardinality({w \in Items : Index(w) = i - 1}) = 1 /\ src[buff[i].id] \notin {0, 1} =>
        (buff[i].id \in Accepted <=>
           CpuVerdict(src[buff[i].id]) = "NF_ACCEPT" \/ ~ Compared(src[buff[i].id]))

\* The service collects every waiting packet once, in a buffer that is never overrun,
\* in every session.
PacketsHeldOnce == FirewallTypeOK /\ EveryPacketHeldOnce

\* What the kernel leaves in the buffer is the verdict, as far as it can be.
VerdictsRight == BadNeverAccepted /\ SingleVisitExact

\* In the first session every packet is judged, if there is a thread: the buffer fills
\* before the kernel's queue does, and switching off drops what is left.
QueuedIsJudged ==
  \A p \in Packets : (p \in waiting /\ ~ breakFlag /\ thread # "none") ~> p \notin waiting

\* Loading and unloading the module end, unless the daemon exited: the thread that
\* launch joins leaves recv at the next packet.
LaunchReturns == client \in {"loading", "unloading"} ~> client \in {"in", "out"} \/ daemon = "exited"
=============================================================================
