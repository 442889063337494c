----------------------------- MODULE ServiceProofs -----------------------------
(***************************************************************************)
(* What the services of the device promise, for every value of their       *)
(* constants.  Both firewalls hold every packet that waits once, and the   *)
(* kernel of the GPU firewall lets no packet from an address it compares   *)
(* through once packets and rules are written, for any traffic, any sizes  *)
(* of the buffers, any grid of work items and any order of commands.  A    *)
(* breadth-first search finds the distances in any graph, in any order of  *)
(* its work items, and nothing but them when transfers back fail.          *)
(***************************************************************************)
EXTENDS GpuFirewall, Bfs, SeqLemmas

-----------------------------------------------------------------------------
(* The GPU firewall: the packets                                           *)

\* The packets of the socket and of the buffer are different ones, and they are what
\* waits in the kernel, with the address each came from.
HeldInv ==
  /\ IsFiniteSet(waiting) /\ \A p \in waiting : src[p] \in Addresses
  /\ thread \in {"recv", "gpu", "verdict"} =>
       /\ waiting = Received \cup Unread /\ Received \cap Unread = {}
       /\ \A i, j \in 1 .. Len(buff) : buff[i].id = buff[j].id => i = j
       /\ IsInjective(socket)
  /\ thread = "recv" => Len(buff) < UPACKETBUFFSIZE

\* When the firewall is switched on, no thread runs and nothing waits from a session
\* before.
SessionInv ==
  /\ daemon = "joining" => offFlag = 0
  /\ offFlag = 0 /\ daemon # "joining" =>
       thread \in {"none", "ended"} /\ ~ bound /\ waiting = {}

FirewallInv == FirewallTypeOK /\ HeldInv /\ SessionInv

-----------------------------------------------------------------------------
(* The GPU firewall: the verdicts                                          *)

\* Where packet i of the buffer came from, and the work items that handle its word.
Source(i) == src[buff[i].id]
Visits(i) == {w \in Items : Index(w) = i - 1}

\* The word of an address that one work item handles, while that goes its way.
Word(a, where) ==
  IF where = "match" THEN a
  ELSE IF Compared(a) THEN 1
  ELSE IF where = "clear" THEN a ELSE 0

\* No write was missing or late, and no work item behind the buffer.
Sound == mishap \subseteq {"kernel", "read"}

\* Any number of work items may handle a word.  They leave a bad address there until
\* the first of them has found it, and from then on the mark.
WordInv(i) ==
  /\ Compared(Source(i)) =>
       \/ devPackets[i - 1] = 1
       \/ /\ devPackets[i - 1] = Source(i)
          /\ "kernel" \in commands => \A w \in Visits(i) : item[w] = "match"
  /\ mishap = {} =>
       \A w \in Items : Visits(i) = {w} /\ Source(i) \notin {0, 1} =>
         devPackets[i - 1] = Word(Source(i), item[w])

\* What came back for packet i.
ResultInv(i) ==
  /\ Compared(Source(i)) => buff[i].sip # 0
  /\ mishap = {} =>
       \A w \in Items : i \leq DEVICEINTS /\ Visits(i) = {w} /\ Source(i) \notin {0, 1} =>
         buff[i].sip = Word(Source(i), "done")

Writing == "writePackets" \in commands \/ "writeRules" \in commands

\* Without a mishap a command is finished after those it needs.
CommandsInv ==
  /\ thread # "gpu" => commands = {}
  /\ thread = "gpu" /\ mishap = {} =>
       (Writing => "kernel" \in commands) /\ ("kernel" \in commands => "read" \in commands)

\* While the writes go on, the kernel has not begun or will not.
SoundInv ==
  /\ Writing => "kernel" \notin commands \/ \A w \in Items : Index(w) < Len(buff) => item[w] = "match"
  /\ "writePackets" \in commands => \A i \in 1 .. Len(buff) : buff[i].sip = Source(i)
  /\ "writePackets" \notin commands => \A i \in 1 .. Len(buff) : i \leq DEVICEINTS => WordInv(i)
  /\ "writeRules" \notin commands => devRules
  /\ "read" \notin commands => \A i \in 1 .. Len(buff) : ResultInv(i)

VerdictInv ==
  /\ thread = "recv" \/ (thread = "gpu" /\ "read" \in commands) =>
       \A i \in 1 .. Len(buff) : buff[i].sip = Source(i)
  /\ thread = "gpu" /\ "kernel" \notin commands => \A w \in Items : item[w] = "done"
  /\ thread = "gpu" /\ Sound => SoundInv
  /\ thread = "verdict" /\ Sound => \A i \in 1 .. Len(buff) : ResultInv(i)

-----------------------------------------------------------------------------
(* The packets: the invariant is kept                                      *)

Entry == [id : Packets, sip : Words]

LEMMA BuffTypes ==
  ASSUME buff \in Seq(Entry)
  PROVE  /\ Len(buff) \in Nat /\ DOMAIN buff = 1 .. Len(buff)
         /\ \A i \in 1 .. Len(buff) : buff[i] \in Entry /\ buff[i].id \in Packets /\ buff[i].sip \in Words
<1>1. Len(buff) \in Nat /\ DOMAIN buff = 1 .. Len(buff) /\ \A i \in 1 .. Len(buff) : buff[i] \in Entry
  OBVIOUS
<1>2. \A e \in Entry : e.id \in Packets /\ e.sip \in Words
  BY DEF Entry
<1> QED BY <1>1, <1>2

LEMMA UnreadIsSocket ==
  ASSUME socket \in Seq(Packets)
  PROVE  Unread = ToSet(socket)
BY DEF Unread, ToSet

LEMMA FirewallInitInv ==
  ASSUME GpuFirewallAssumption, NfQueueAssumption, FirewallInit
  PROVE  FirewallInv
<1>1. UPACKETBUFFSIZE \in Nat \ {0} /\ QUEUEMAX \in Nat \ {0} /\ None \notin Addresses
  BY DEF GpuFirewallAssumption, NfQueueAssumption
<1>2. IsFiniteSet({}) /\ Cardinality({}) = 0
  BY FS_EmptySet
<1>3. waiting = {} /\ bound = FALSE /\ socket = <<>> /\ src = [p \in Packets |-> None]
  BY DEF FirewallInit, QueueInit
<1>4. FirewallTypeOK
  <2>1. QueueTypeOK
    <3>1. src \in [Packets -> Addresses \cup {None}] /\ socket \in Seq(Packets)
      BY <1>3
    <3>2. Cardinality(waiting) \leq QUEUEMAX
      BY <1>1, <1>2, <1>3
    <3> QED BY <1>3, <3>1, <3>2 DEF QueueTypeOK
  <2>2. buff = <<>> /\ Len(buff) = 0 /\ buff \in Seq([id : Packets, sip : Words])
    BY DEF FirewallInit
  <2>3. devPackets \in [0 .. DEVICEINTS - 1 -> Words] /\ item \in [Items -> {"match", "clear", "done"}]
    BY DEF FirewallInit, Words
  <2>4. /\ client = "out" /\ daemon = "idle" /\ offFlag = 0 /\ breakFlag \in BOOLEAN
        /\ thread = "none" /\ firstRv = "ms" /\ commands = {} /\ devRules \in BOOLEAN /\ mishap = {}
    BY DEF FirewallInit
  <2>5. offFlag \in 0 .. 1 /\ Len(buff) <= UPACKETBUFFSIZE
    BY <1>1, <2>2, <2>4
  <2> QED BY <2>1, <2>2, <2>3, <2>4, <2>5 DEF FirewallTypeOK
<1> QED BY <1>2, <1>3, <1>4 DEF FirewallInit, FirewallInv, HeldInv, SessionInv

\* A step that leaves queue, thread and buffer alone moves no packet.
LEMMA HeldFrame ==
  ASSUME FirewallInv, UNCHANGED <<queueVars, thread, buff>>
  PROVE  QueueTypeOK' /\ HeldInv'
<1>1. UNCHANGED <<bound, socket, waiting, src, thread, buff>>
  BY DEF queueVars
<1>2. QueueTypeOK'
  BY <1>1 DEF FirewallInv, FirewallTypeOK, QueueTypeOK
<1>3. Received' = Received /\ Unread' = Unread
  BY <1>1 DEF Received, Unread
<1>4. HeldInv'
  BY <1>1, <1>3 DEF FirewallInv, HeldInv
<1> QED BY <1>2, <1>4

LEMMA ArriveKeeps ==
  ASSUME GpuFirewallAssumption, NfQueueAssumption, FirewallInv, NEW p \in Packets, Arrive(p)
  PROVE  FirewallInv'
<1>1. /\ bound /\ p \notin waiting /\ Cardinality(waiting) < QUEUEMAX /\ UNCHANGED bound
      /\ waiting' = waiting \cup {p} /\ socket' = Append(socket, p)
      /\ \E a \in Addresses : src' = [src EXCEPT ![p] = a]
      /\ UNCHANGED <<control, thread, buff, firstRv, gpu>>
  BY DEF Arrive, NfQueued
<1>2. QueueTypeOK /\ IsFiniteSet(waiting) /\ QUEUEMAX \in Nat
  BY DEF FirewallInv, FirewallTypeOK, HeldInv, NfQueueAssumption
<1>3. IsFiniteSet(waiting') /\ Cardinality(waiting') \leq QUEUEMAX
  <2>1. IsFiniteSet(waiting') /\ Cardinality(waiting') = Cardinality(waiting) + 1
    BY <1>1, <1>2, FS_AddElement
  <2>2. Cardinality(waiting) \in Nat
    BY <1>2, FS_CardinalityType
  <2> QED BY <1>1, <1>2, <2>1, <2>2
<1>4. QueueTypeOK' /\ \A q \in waiting' : src'[q] \in Addresses
  <2>1. PICK a \in Addresses : src' = [src EXCEPT ![p] = a]
    BY <1>1
  <2>2. \A q \in Packets : src'[q] = IF q = p THEN a ELSE src[q]
    BY <1>2, <2>1 DEF QueueTypeOK
  <2>3. src' \in [Packets -> Addresses \cup {None}]
    BY <1>2, <2>1 DEF QueueTypeOK
  <2> QED BY <1>1, <1>2, <1>3, <2>2, <2>3 DEF QueueTypeOK, FirewallInv, HeldInv
<1>5. FirewallTypeOK'
  BY <1>1, <1>4 DEF FirewallInv, FirewallTypeOK, control, gpu
<1>6. ASSUME thread \in {"recv", "gpu", "verdict"}
      PROVE  /\ waiting' = Received' \cup Unread' /\ Received' \cap Unread' = {}
             /\ IsInjective(socket')
  <2>1. socket \in Seq(Packets) /\ Unread = ToSet(socket) /\ IsInjective(socket) /\ p \notin ToSet(socket)
        /\ p \notin Received
    BY <1>1, <1>2, <1>6, UnreadIsSocket DEF QueueTypeOK, FirewallInv, HeldInv
  <2>2. ToSet(socket') = ToSet(socket) \cup {p} /\ IsInjective(socket') /\ socket' \in Seq(Packets)
    BY <1>1, <2>1, AppendDistinct
  <2>3. Unread' = ToSet(socket') /\ Received' = Received
    BY <1>1, <2>2 DEF Unread, ToSet, Received
  <2> QED BY <1>1, <1>6, <2>1, <2>2, <2>3 DEF FirewallInv, HeldInv
<1>7. HeldInv'
  BY <1>1, <1>3, <1>4, <1>6 DEF FirewallInv, HeldInv
<1>8. SessionInv'
  BY <1>1 DEF FirewallInv, SessionInv, control
<1> QED BY <1>5, <1>7, <1>8 DEF FirewallInv

\* What DoWork makes of the device.
LEMMA DoWorkTypes ==
  ASSUME GpuFirewallAssumption, NEW n \in Nat, DoWork(n)
  PROVE  /\ commands' \subseteq Commands /\ devRules' \in BOOLEAN
         /\ devPackets' \in [0 .. DEVICEINTS - 1 -> Words]
         /\ item' \in [Items -> {"match", "clear", "done"}] /\ mishap' \subseteq Commands \cup {"overrun"}
BY DEF GpuFirewallAssumption, DoWork

\* The packet that is received moves from the socket to the buffer.
LEMMA HandlePacketKeeps ==
  ASSUME GpuFirewallAssumption, NfQueueAssumption, FirewallInv, HandlePacket
  PROVE  FirewallInv'
<1> DEFINE p == Head(socket)
<1>1. /\ thread = "recv" /\ socket # <<>> /\ socket' = Tail(socket)
      /\ UNCHANGED <<bound, waiting, src, control, firstRv>>
  BY DEF HandlePacket
<1>2. /\ FirewallTypeOK /\ QueueTypeOK /\ socket \in Seq(Packets) /\ buff \in Seq(Entry) /\ UPACKETBUFFSIZE \in Nat
      /\ Len(buff) < UPACKETBUFFSIZE
  BY <1>1 DEF FirewallInv, FirewallTypeOK, HeldInv, QueueTypeOK, GpuFirewallAssumption, Entry
<1>3. /\ waiting = Received \cup Unread /\ Received \cap Unread = {} /\ IsInjective(socket)
      /\ Unread = ToSet(socket) /\ \A i, j \in 1 .. Len(buff) : buff[i].id = buff[j].id => i = j
  BY <1>1, <1>2, UnreadIsSocket DEF FirewallInv, HeldInv
<1>4. /\ socket' \in Seq(Packets) /\ p \in Packets /\ p \in ToSet(socket)
      /\ IsInjective(socket') /\ ToSet(socket') = ToSet(socket) \ {p}
  BY <1>1, <1>2, <1>3, TailDistinct
<1>5. Unread' = ToSet(socket')
  BY <1>4 DEF Unread, ToSet
<1>6. QueueTypeOK'
  BY <1>1, <1>2, <1>4 DEF QueueTypeOK
<1>7. SessionInv'
  <2>1. ~ (offFlag = 0 /\ daemon # "joining")
    BY <1>1 DEF FirewallInv, SessionInv
  <2> QED BY <1>1, <2>1 DEF FirewallInv, SessionInv, control
<1>8. CASE breakFlag
  <2>1. thread' = "ended" /\ UNCHANGED <<buff, gpu>>
    BY <1>8 DEF HandlePacket
  <2>2. FirewallTypeOK' /\ HeldInv'
    BY <1>1, <1>2, <1>6, <2>1 DEF FirewallInv, FirewallTypeOK, HeldInv, control, gpu
  <2> QED BY <1>7, <2>2 DEF FirewallInv
<1>9. CASE ~ breakFlag
  <2> DEFINE n == Len(buff)
             e == ShowPacket(p)
  <2>1. buff' = Append(buff, e)
    BY <1>9 DEF HandlePacket, PacketBuffering
  <2>2. \/ DoWork(Len(buff')) /\ thread' = "gpu"
        \/ UNCHANGED <<gpu, thread>> /\ Len(buff') # UPACKETBUFFSIZE
    BY <1>9 DEF HandlePacket, PacketBuffering
  <2>3. src[p] \in Addresses
    BY <1>3, <1>4 DEF FirewallInv, HeldInv
  <2>4. e \in Entry /\ e.id = p
    BY <1>4, <2>3 DEF ShowPacket, Entry, Words
  <2> HIDE DEF e
  <2>5. /\ buff' \in Seq(Entry) /\ Len(buff') = n + 1 /\ n \in Nat
        /\ \A i \in 1 .. n : buff'[i] = buff[i]
        /\ buff'[n + 1] = e
    BY <1>2, <2>1, <2>4
  <2>6. Len(buff') <= UPACKETBUFFSIZE
    BY <1>2, <2>5
  <2>7. \A i \in 1 .. n + 1 : i \in 1 .. n \/ i = n + 1
    BY <2>5
  <2>8. Received' = Received \cup {p}
    BY <2>4, <2>5, <2>7 DEF Received
  <2>9. ASSUME NEW i \in 1 .. n + 1, NEW j \in 1 .. n + 1, buff'[i].id = buff'[j].id
        PROVE  i = j
    <3>1. \A k \in 1 .. n : buff'[k].id # p
      <4>1. p \notin Received
        BY <1>3, <1>4
      <4> QED BY <2>5, <4>1 DEF Received
    <3> QED BY <1>3, <2>4, <2>5, <2>7, <2>9, <3>1
  <2>10. /\ waiting' = Received' \cup Unread' /\ Received' \cap Unread' = {}
    BY <1>1, <1>3, <1>4, <1>5, <2>8
  <2>11. FirewallTypeOK'
    <3>1. CASE DoWork(Len(buff')) /\ thread' = "gpu"
      <4>1. Len(buff') \in Nat
        BY <2>5
      <4> QED BY <1>1, <1>2, <1>6, <2>5, <2>6, <3>1, <4>1, DoWorkTypes DEF FirewallTypeOK, control, Entry
    <3>2. CASE UNCHANGED <<gpu, thread>>
      BY <1>1, <1>2, <1>6, <2>5, <2>6, <3>2 DEF FirewallTypeOK, control, gpu, Entry
    <3> QED BY <2>2, <3>1, <3>2
  <2>12. thread' = "recv" => Len(buff') < UPACKETBUFFSIZE
    BY <1>2, <2>2, <2>5, <2>6
  <2>13. HeldInv'
    BY <1>1, <1>4, <2>5, <2>9, <2>10, <2>12 DEF FirewallInv, HeldInv
  <2> QED BY <1>7, <2>11, <2>13 DEF FirewallInv
<1> QED BY <1>8, <1>9

\* All packets of the buffer get a verdict, and only those.
LEMMA VerdictsKeep ==
  ASSUME GpuFirewallAssumption, NfQueueAssumption, FirewallInv, Verdicts
  PROVE  FirewallInv'
<1>1. /\ thread = "verdict" /\ buff' = <<>> /\ firstRv' = "us" /\ thread' = "recv"
      /\ mishap' = {} /\ UNCHANGED <<control, commands, devPackets, devRules, item>>
      /\ waiting' = waiting \ Received /\ UNCHANGED <<bound, socket>>
      /\ src' = [p \in Packets |-> IF p \in Received THEN None ELSE src[p]]
  <2>1. Accepted \cup Dropped = Received
    BY DEF Accepted, Dropped, Received
  <2> QED BY <2>1 DEF Verdicts, SetVerdict
<1>2. /\ FirewallTypeOK /\ QueueTypeOK /\ IsFiniteSet(waiting) /\ UPACKETBUFFSIZE \in Nat \ {0}
      /\ waiting = Received \cup Unread /\ Received \cap Unread = {} /\ IsInjective(socket)
  BY <1>1 DEF FirewallInv, FirewallTypeOK, HeldInv, GpuFirewallAssumption
<1>3. waiting' = Unread /\ Unread' = Unread
  BY <1>1, <1>2 DEF Unread
<1>4. Received' = {} /\ Len(buff') = 0
  BY <1>1 DEF Received
<1>5. IsFiniteSet(waiting') /\ Cardinality(waiting') <= Cardinality(waiting)
  BY <1>2, <1>3, FS_Subset
<1>6. QueueTypeOK' /\ \A p \in waiting' : src'[p] \in Addresses
  <2>1. Cardinality(waiting') \in Nat /\ Cardinality(waiting) \in Nat
    BY <1>2, <1>5, FS_CardinalityType
  <2>2. src' \in [Packets -> Addresses \cup {None}]
    BY <1>1, <1>2 DEF QueueTypeOK
  <2>3. Cardinality(waiting') <= QUEUEMAX
    BY <1>2, <1>5, <2>1 DEF QueueTypeOK, NfQueueAssumption
  <2>4. \A p \in waiting' : p \in Packets /\ p \notin Received /\ p \in waiting
    BY <1>1, <1>2 DEF QueueTypeOK
  <2> QED BY <1>1, <1>2, <2>2, <2>3, <2>4 DEF QueueTypeOK, FirewallInv, HeldInv
<1>7. FirewallTypeOK'
  <2>1. buff' \in Seq([id : Packets, sip : Words]) /\ Len(buff') <= UPACKETBUFFSIZE
    BY <1>1, <1>2, <1>4
  <2> QED BY <1>1, <1>2, <1>6, <2>1 DEF FirewallTypeOK, control, gpu
<1>8. HeldInv'
  BY <1>1, <1>2, <1>3, <1>4, <1>5, <1>6 DEF HeldInv
<1>9. SessionInv'
  BY <1>1 DEF FirewallInv, SessionInv, control
<1> QED BY <1>7, <1>8, <1>9 DEF FirewallInv

\* Words come back, ids stay.
LEMMA ReadBackBuff ==
  ASSUME FirewallTypeOK, GpuFirewallAssumption, ReadBack
  PROVE  /\ buff' \in Seq(Entry) /\ Len(buff') = Len(buff)
         /\ \A i \in 1 .. Len(buff) :
              /\ buff'[i].id = buff[i].id
              /\ buff'[i].sip = IF i \leq DEVICEINTS THEN devPackets[i - 1] ELSE buff[i].sip
<1>1. /\ buff \in Seq(Entry) /\ devPackets \in [0 .. DEVICEINTS - 1 -> Words] /\ DEVICEINTS \in Nat
  BY DEF FirewallTypeOK, GpuFirewallAssumption, Entry
<1>2. Len(buff) \in Nat /\ \A i \in 1 .. Len(buff) : buff[i] \in Entry
  BY <1>1, BuffTypes
<1> DEFINE put(e, s) == [e EXCEPT !.sip = s]
<1>3. \A e \in Entry, s \in Words : put(e, s) \in Entry /\ put(e, s).id = e.id /\ put(e, s).sip = s
  BY DEF Entry
<1>4. buff' = [i \in 1 .. Len(buff) |-> IF i \leq DEVICEINTS THEN put(buff[i], devPackets[i - 1]) ELSE buff[i]]
  BY DEF ReadBack
<1> HIDE DEF put
<1>5. \A i \in 1 .. Len(buff) : i \leq DEVICEINTS => devPackets[i - 1] \in Words
  BY <1>1, <1>2
<1>6. \A i \in 1 .. Len(buff) :
        /\ buff'[i] \in Entry
        /\ buff'[i].id = buff[i].id
        /\ buff'[i].sip = IF i \leq DEVICEINTS THEN devPackets[i - 1] ELSE buff[i].sip
  BY <1>2, <1>3, <1>4, <1>5
<1>7. buff' \in [1 .. Len(buff) -> Entry]
  BY <1>4, <1>6
<1>8. buff' \in Seq(Entry) /\ Len(buff') = Len(buff)
  BY ONLY <1>2, <1>7, FunctionIsList
<1> QED BY <1>6, <1>8

LEMMA ReadBackKeeps ==
  ASSUME GpuFirewallAssumption, FirewallInv, ReadBack
  PROVE  FirewallInv'
<1>1. /\ UNCHANGED <<bound, socket, waiting, src, control, thread, firstRv, devPackets, devRules, item>>
      /\ commands' = commands \ {"read"} /\ mishap' \subseteq mishap \cup commands
  BY DEF ReadBack, Runs, queueVars
<1>2. FirewallTypeOK /\ QueueTypeOK
  BY DEF FirewallInv, FirewallTypeOK
<1>3. /\ buff' \in Seq(Entry) /\ Len(buff') = Len(buff)
      /\ \A i \in 1 .. Len(buff) : buff'[i].id = buff[i].id
  BY <1>2, ReadBackBuff
<1>4. Received' = Received /\ Unread' = Unread
  BY <1>1, <1>3 DEF Received, Unread
<1>5. QueueTypeOK'
  BY <1>1, <1>2 DEF QueueTypeOK
<1>6. FirewallTypeOK'
  BY <1>1, <1>2, <1>3, <1>5 DEF FirewallTypeOK, control, Entry
<1>7. HeldInv'
  BY <1>1, <1>3, <1>4 DEF FirewallInv, HeldInv
<1>8. SessionInv'
  BY <1>1 DEF FirewallInv, SessionInv, control
<1> QED BY <1>6, <1>7, <1>8 DEF FirewallInv

\* netlink_init finds an empty queue: there is nothing that no thread would collect.
LEMMA LaunchKeeps ==
  ASSUME GpuFirewallAssumption, FirewallInv, Launch
  PROVE  FirewallInv'
<1>1. /\ client \in {"loading", "unloading"} /\ daemon = "idle" /\ UNCHANGED <<firstRv, gpu>>
      /\ FirewallTypeOK /\ QueueTypeOK /\ UPACKETBUFFSIZE \in Nat \ {0}
  BY DEF Launch, FirewallInv, FirewallTypeOK, GpuFirewallAssumption
<1>2. CASE offFlag # 0
  <2>1. /\ offFlag' = 0 /\ breakFlag' = TRUE /\ daemon' = "joining"
        /\ UNCHANGED <<queueVars, client, thread, buff>>
    BY <1>2 DEF Launch
  <2>2. QueueTypeOK' /\ HeldInv'
    BY <2>1, HeldFrame
  <2> QED BY <1>1, <2>1, <2>2 DEF FirewallInv, FirewallTypeOK, SessionInv, gpu
<1>3. CASE offFlag = 0 /\ daemon' = "exited" /\ UNCHANGED <<queueVars, client, offFlag, thread, buff>>
  <2>1. breakFlag' = breakFlag
    BY <1>3 DEF Launch
  <2>2. QueueTypeOK' /\ HeldInv'
    BY <1>3, HeldFrame
  <2> QED BY <1>1, <1>3, <2>1, <2>2 DEF FirewallInv, FirewallTypeOK, SessionInv, gpu, queueVars
<1>4. CASE /\ offFlag = 0 /\ CreateQueue /\ buff' = <<>> /\ thread' \in {"recv", "none"} /\ offFlag' = 1
           /\ Reply /\ UNCHANGED daemon
  <2>1. /\ breakFlag' = breakFlag /\ client' \in {"in", "unhook"}
        /\ socket' = <<>> /\ bound' = TRUE /\ UNCHANGED <<waiting, src>>
    BY <1>4 DEF Launch, CreateQueue, Reply
  <2>2. waiting = {}
    BY <1>1, <1>4 DEF FirewallInv, SessionInv
  <2>3. QueueTypeOK'
    BY <1>1, <2>1 DEF QueueTypeOK
  <2>4. buff' \in Seq([id : Packets, sip : Words]) /\ Len(buff') = 0
    BY <1>4
  <2>5. FirewallTypeOK'
    BY <1>1, <1>4, <2>1, <2>3, <2>4 DEF FirewallTypeOK, gpu
  <2>6. Received' = {} /\ Unread' = {} /\ IsInjective(socket')
    BY <1>4, <2>1, <2>4 DEF Received, Unread, IsInjective
  <2>7. HeldInv'
    BY <1>1, <1>4, <2>1, <2>2, <2>4, <2>6 DEF FirewallInv, HeldInv
  <2> QED BY <1>1, <1>4, <2>5, <2>7 DEF FirewallInv, SessionInv
<1> QED BY <1>2, <1>3, <1>4 DEF Launch, NetlinkInit

LEMMA JoinKeeps ==
  ASSUME NfQueueAssumption, FirewallInv, Join
  PROVE  FirewallInv'
<1>1. /\ daemon = "joining" /\ thread \in {"ended", "none"}
      /\ (daemon' = "idle" /\ client' \in {"in", "unhook"}) \/ (daemon' = "exited" /\ client' = client)
      /\ UNCHANGED <<offFlag, breakFlag, thread, buff, firstRv, gpu>>
      /\ bound' = FALSE /\ socket' = <<>> /\ waiting' = {} /\ src' = [p \in Packets |-> None]
  BY DEF Join, DestroyQueue, Reply
<1>2. IsFiniteSet({}) /\ Cardinality({}) = 0
  BY FS_EmptySet
<1>3. QueueTypeOK'
  <2>1. src' \in [Packets -> Addresses \cup {None}] /\ socket' \in Seq(Packets)
    BY <1>1
  <2>2. Cardinality(waiting') \leq QUEUEMAX
    BY <1>1, <1>2 DEF NfQueueAssumption
  <2> QED BY <1>1, <2>1, <2>2 DEF QueueTypeOK
<1>4. FirewallTypeOK'
  BY <1>1, <1>3 DEF FirewallInv, FirewallTypeOK, gpu
<1>5. HeldInv' /\ SessionInv'
  BY <1>1, <1>2 DEF HeldInv, SessionInv
<1> QED BY <1>4, <1>5 DEF FirewallInv

\* Steps of the module and of the GPU move no packet.
LEMMA QuietKeeps ==
  ASSUME GpuFirewallAssumption, FirewallInv,
         \/ InitModule \/ CleanupModule \/ Unhook \/ WritePackets \/ WriteRules \/ Finish
         \/ \E w \in Items : Match(w) \/ Clear(w)
         \/ UNCHANGED firewallVars
  PROVE  FirewallInv'
<1>0. FirewallTypeOK /\ DEVICEINTS \in Nat \ {0}
  BY DEF FirewallInv, GpuFirewallAssumption
<1>1. CASE InitModule \/ CleanupModule \/ Unhook \/ UNCHANGED firewallVars
  <2>1. /\ UNCHANGED <<queueVars, daemon, offFlag, breakFlag, thread, buff, firstRv, gpu>>
        /\ client' \in {"out", "loading", "in", "noreq", "unloading", "unhook", "oops"}
    BY <1>0, <1>1 DEF InitModule, CleanupModule, Unhook, firewallVars, control, FirewallTypeOK
  <2>2. QueueTypeOK' /\ HeldInv'
    BY <2>1, HeldFrame
  <2> QED BY <1>0, <2>1, <2>2 DEF FirewallInv, FirewallTypeOK, SessionInv, gpu, queueVars
<1>2. ASSUME UNCHANGED <<queueVars, control, thread, buff, firstRv>>,
             devPackets' \in [0 .. DEVICEINTS - 1 -> Words], devRules' \in BOOLEAN,
             commands' \subseteq Commands,
             item' \in [Items -> {"match", "clear", "done"}], mishap' \subseteq Commands \cup {"overrun"}
      PROVE  FirewallInv'
  <2>1. QueueTypeOK' /\ HeldInv'
    BY <1>2, HeldFrame
  <2> QED BY <1>0, <1>2, <2>1 DEF FirewallInv, FirewallTypeOK, SessionInv, control, queueVars
<1>3. /\ devPackets \in [0 .. DEVICEINTS - 1 -> Words] /\ devRules \in BOOLEAN
      /\ commands \subseteq Commands /\ item \in [Items -> {"match", "clear", "done"}]
      /\ 0 \in Words /\ 1 \in Words /\ mishap \subseteq Commands \cup {"overrun"}
  BY <1>0 DEF FirewallTypeOK, Words
<1>0a. ASSUME NEW cmd, Runs(cmd) PROVE mishap' \subseteq Commands \cup {"overrun"}
  BY <1>0a, <1>3 DEF Runs
<1>4. CASE WritePackets
  <2>1. buff \in Seq(Entry)
    BY <1>0 DEF FirewallTypeOK, Entry
  <2>2. Len(buff) \in Nat /\ \A i \in 1 .. Len(buff) : buff[i].sip \in Words
    BY <2>1, BuffTypes
  <2>3. \A k \in 0 .. DEVICEINTS - 1 : (IF k < Len(buff) THEN buff[k + 1].sip ELSE devPackets[k]) \in Words
    BY <1>0, <1>3, <2>2
  <2>4. devPackets' \in [0 .. DEVICEINTS - 1 -> Words]
    BY <1>4, <2>3 DEF WritePackets
  <2> QED BY <1>0a, <1>2, <1>3, <1>4, <2>4 DEF WritePackets
<1>5. CASE WriteRules
  BY <1>0a, <1>2, <1>3, <1>5 DEF WriteRules
<1>6. CASE Finish
  <2>1. /\ UNCHANGED <<queueVars, control, buff, firstRv, commands, item, mishap>> /\ devRules' = FALSE
        /\ thread = "gpu" /\ thread' = "verdict" /\ devPackets' \in [0 .. DEVICEINTS - 1 -> Words]
    BY <1>3, <1>6 DEF Finish
  <2>2. UNCHANGED <<bound, socket, waiting, src>>
    BY <2>1 DEF queueVars
  <2>3. QueueTypeOK' /\ Received' = Received /\ Unread' = Unread
    BY <1>0, <2>1, <2>2 DEF FirewallTypeOK, QueueTypeOK, Received, Unread
  <2>4. FirewallTypeOK'
    BY <1>0, <2>1, <2>3 DEF FirewallTypeOK, control
  <2>5. HeldInv' /\ SessionInv'
    BY <2>1, <2>2, <2>3 DEF FirewallInv, HeldInv, SessionInv, control
  <2> QED BY <2>4, <2>5 DEF FirewallInv
<1>7. ASSUME NEW w \in Items, Match(w) \/ Clear(w) PROVE FirewallInv'
  <2>1. PICK there \in {"clear", "done"} : ItemGoes(w, there)
    BY <1>7 DEF Match, Clear
  <2>2. /\ UNCHANGED <<queueVars, control, thread, buff, firstRv>>
        /\ commands' \subseteq commands /\ item' \in [Items -> {"match", "clear", "done"}]
    BY <1>3, <2>1 DEF ItemGoes
  <2>3. devPackets' \in [0 .. DEVICEINTS - 1 -> Words] /\ devRules' \in BOOLEAN
    BY <1>3, <1>7 DEF Match, Clear, Overruns
  <2>4. mishap' \subseteq Commands \cup {"overrun"}
    <3>1. CASE Overruns(w)
      BY <1>3, <3>1 DEF Overruns
    <3> QED BY <1>0a, <1>7, <3>1 DEF Match, Clear
  <2> QED BY <1>2, <1>3, <2>2, <2>3, <2>4
<1> QED BY <1>1, <1>4, <1>5, <1>6, <1>7

LEMMA FirewallStep ==
  ASSUME GpuFirewallAssumption, NfQueueAssumption, FirewallInv, [FirewallNext]_firewallVars
  PROVE  FirewallInv'
BY ArriveKeeps, HandlePacketKeeps, VerdictsKeep, ReadBackKeeps, LaunchKeeps, JoinKeeps, QuietKeeps
   DEF FirewallNext, Traffic, DaemonStep, ThreadStep, GpuStep

\* The ids of a buffer without duplicates are as many as it has entries.
LEMMA HeldOnce ==
  ASSUME FirewallInv
  PROVE  EveryPacketHeldOnce
<1> SUFFICES ASSUME thread \in {"recv", "gpu", "verdict"}
             PROVE  /\ waiting = Received \cup Unread /\ Received \cap Unread = {}
                    /\ Cardinality(Received) = Len(buff) /\ Cardinality(Unread) = Len(socket)
  BY DEF EveryPacketHeldOnce
<1>1. /\ waiting = Received \cup Unread /\ Received \cap Unread = {} /\ IsInjective(socket)
      /\ \A i, j \in 1 .. Len(buff) : buff[i].id = buff[j].id => i = j
      /\ socket \in Seq(Packets) /\ buff \in Seq(Entry)
  BY DEF FirewallInv, HeldInv, FirewallTypeOK, QueueTypeOK, Entry
<1>2. Cardinality(Unread) = Len(socket)
  BY <1>1, UnreadIsSocket, ToSetFinite
<1>3. Cardinality(Received) = Len(buff)
  <2> DEFINE names == [i \in 1 .. Len(buff) |-> buff[i].id]
  <2>1. Len(buff) \in Nat /\ \A i \in 1 .. Len(buff) : buff[i].id \in Packets
    BY <1>1, BuffTypes
  <2>2. names \in Seq(Packets) /\ Len(names) = Len(buff)
    <3>1. names \in [1 .. Len(buff) -> Packets]
      BY <2>1
    <3> HIDE DEF names
    <3> QED BY ONLY <2>1, <3>1, FunctionIsList
  <2>3. IsInjective(names)
    BY <1>1 DEF IsInjective
  <2>4. ToSet(names) = Received
    BY <2>2 DEF ToSet, Received
  <2> HIDE DEF names
  <2> QED BY <2>2, <2>3, <2>4, ToSetFinite
<1> QED BY <1>1, <1>2, <1>3

\* In every session of the GPU firewall each packet that waits in the kernel is in the
\* socket or in the buffer, once, and the buffer is never overrun: for any number of
\* packets and sizes of queue and buffer, and whatever becomes of the commands.
THEOREM GpuHoldsPacketsOnce ==
  ASSUME GpuFirewallAssumption, NfQueueAssumption
  PROVE  FirewallSpec => []PacketsHeldOnce
<1>1. FirewallInit => FirewallInv
  BY FirewallInitInv
<1>2. FirewallInv /\ [FirewallNext]_firewallVars => FirewallInv'
  BY FirewallStep
<1>3. FirewallInv => PacketsHeldOnce
  BY HeldOnce DEF FirewallInv, PacketsHeldOnce
<1> QED BY <1>1, <1>2, <1>3, PTL DEF FirewallSpec

-----------------------------------------------------------------------------
(* The verdicts: the invariant is kept                                     *)

JudgedInv == CommandsInv /\ VerdictInv

\* The words the kernel compares are the addresses of half of the list and 0.
LEMMA RuleFacts ==
  ASSUME GpuFirewallAssumption, BadAddressAssumption
  PROVE  /\ 1 \notin RuleWords
         /\ \A a : Compared(a) => a \in RuleWords /\ a # 0 /\ a # 1
         /\ \A a : a \in RuleWords /\ a # 0 => Compared(a)
<1> DEFINE n == Len(BadAddress)
<1>1. n \in Nat
  BY DEF BadAddressAssumption
<1>2. \A i \in 0 .. n - 1 : BadIpAddress(i) # 0 /\ BadIpAddress(i) # 1
  BY DEF GpuFirewallAssumption
<1>3. \A k \in 0 .. n - 1 : k \div 2 \in 0 .. n - 1 /\ k \div 2 \in 0 .. (n - 1) \div 2
  BY <1>1
<1>4. \A i \in 0 .. (n - 1) \div 2 :
        /\ i \in 0 .. n - 1 /\ 2 * i \in 0 .. n - 1 /\ (2 * i) % 2 = 0 /\ (2 * i) \div 2 = i
  BY <1>1
<1> HIDE DEF n
<1>5. \A a : a \in RuleWords <=> \E k \in 0 .. n - 1 : a = RuleWord(k)
  BY DEF RuleWords, n
<1>6. \A a : Compared(a) <=> \E i \in 0 .. (n - 1) \div 2 : a = BadIpAddress(i)
  BY DEF Compared, n
<1>7. \A k \in 0 .. n - 1 : RuleWord(k) = 0 \/ RuleWord(k) = BadIpAddress(k \div 2)
  BY DEF RuleWord
<1>8. \A i \in 0 .. (n - 1) \div 2 : RuleWord(2 * i) = BadIpAddress(i)
  BY <1>4 DEF RuleWord
<1>9. 1 \notin RuleWords
  BY <1>2, <1>3, <1>5, <1>7
<1>10. ASSUME NEW a, Compared(a) PROVE a \in RuleWords /\ a # 0 /\ a # 1
  <2>1. PICK i \in 0 .. (n - 1) \div 2 : a = BadIpAddress(i)
    BY <1>6, <1>10
  <2> QED BY <1>2, <1>4, <1>5, <1>8, <2>1
<1>11. ASSUME NEW a, a \in RuleWords, a # 0 PROVE Compared(a)
  <2>1. PICK k \in 0 .. n - 1 : a = RuleWord(k)
    BY <1>5, <1>11
  <2>2. a = BadIpAddress(k \div 2)
    BY <1>7, <1>11, <2>1
  <2> QED BY <1>3, <1>6, <2>2
<1> QED BY <1>9, <1>10, <1>11

LEMMA OverrunIsMishap ==
  ASSUME NEW w, Overruns(w)
  PROVE  "overrun" \in mishap' /\ "kernel" \in commands /\ mishap \subseteq mishap' /\ ~ Sound'
<1> DEFINE more == Needs.kernel \cap commands
<1>1. mishap' = mishap \cup {"overrun"} \cup more /\ "kernel" \in commands
  BY DEF Overruns
<1> HIDE DEF more
<1> QED BY <1>1 DEF Sound

\* A sound step follows a sound state, and had what it needs.
LEMMA RunsSound ==
  /\ mishap \subseteq mishap' => (Sound' => Sound) /\ (mishap' = {} => mishap = {})
  /\ \A cmd : Runs(cmd) => cmd \in commands /\ mishap \subseteq mishap'
  /\ Runs("kernel") /\ Sound' => "writePackets" \notin commands /\ "writeRules" \notin commands
  /\ Runs("read") /\ Sound' => "writePackets" \notin commands
  /\ Runs("read") /\ mishap' = {} => "writePackets" \notin commands /\ "kernel" \notin commands
<1>1. /\ Needs["kernel"] = {"writePackets", "writeRules"} /\ Needs["read"] = {"writePackets", "kernel"}
  BY DEF Needs
<1> QED BY <1>1 DEF Runs, Sound

\* A step that leaves thread, buffer, GPU and the addresses of the buffer's packets alone.
LEMMA JudgedFrame ==
  ASSUME JudgedInv, UNCHANGED <<thread, buff, gpu>>,
         \A i \in 1 .. Len(buff) : thread \in {"recv", "gpu", "verdict"} => src'[buff[i].id] = src[buff[i].id]
  PROVE  JudgedInv'
<1>1. UNCHANGED <<thread, buff, commands, devPackets, devRules, item, mishap>>
  BY DEF gpu
<1>2. CommandsInv'
  BY <1>1 DEF JudgedInv, CommandsInv, Writing
<1>3. CASE thread \notin {"recv", "gpu", "verdict"}
  BY <1>1, <1>2, <1>3 DEF JudgedInv, VerdictInv
<1>4. CASE thread \in {"recv", "gpu", "verdict"}
  <2>1. ASSUME NEW i \in 1 .. Len(buff)
        PROVE  /\ Source(i)' = Source(i) /\ Visits(i)' = Visits(i)
               /\ WordInv(i) => WordInv(i)'
               /\ ResultInv(i) => ResultInv(i)'
    <3>1. Source(i)' = Source(i) /\ Visits(i)' = Visits(i)
      BY <1>1, <1>4 DEF Source, Visits
    <3>2. \A w \in Items : Word(Source(i), item[w])' = Word(Source(i), item[w])
      BY <1>1, <3>1 DEF Word
    <3>3. WordInv(i) => WordInv(i)'
      BY <1>1, <3>1, <3>2 DEF WordInv
    <3>4. ResultInv(i) => ResultInv(i)'
      BY <1>1, <3>1, <3>2 DEF ResultInv
    <3> QED BY <3>1, <3>3, <3>4
  <2>2. SoundInv => SoundInv'
    BY <1>1, <2>1 DEF SoundInv, Writing
  <2>3. VerdictInv'
    BY <1>1, <2>1, <2>2 DEF JudgedInv, VerdictInv, Sound
  <2> QED BY <1>2, <2>3 DEF JudgedInv
<1> QED BY <1>3, <1>4

\* What came back stays right while the other commands run.
LEMMA ResultFrame ==
  ASSUME UNCHANGED <<src, buff>>, mishap \subseteq mishap', NEW i \in 1 .. Len(buff), ResultInv(i)
  PROVE  ResultInv(i)'
<1>1. Source(i)' = Source(i) /\ Visits(i)' = Visits(i)
  BY DEF Source, Visits
<1>2. Word(Source(i), "done")' = Word(Source(i), "done")
  BY <1>1 DEF Word
<1> QED BY <1>1, <1>2 DEF ResultInv

\* The words are the addresses, and no work item has begun.
LEMMA WritePacketsJudged ==
  ASSUME GpuFirewallAssumption, FirewallInv, JudgedInv, WritePackets
  PROVE  JudgedInv'
<1>1. /\ "writePackets" \in commands /\ commands' = commands \ {"writePackets"} /\ mishap' = mishap
      /\ devPackets' = [k \in 0 .. DEVICEINTS - 1 |-> IF k < Len(buff) THEN buff[k + 1].sip ELSE devPackets[k]]
      /\ UNCHANGED <<src, thread, buff, devRules, item>>
  BY DEF WritePackets, Runs, Needs, queueVars
<1>2. thread = "gpu"
  BY <1>1 DEF JudgedInv, CommandsInv
<1>3. DEVICEINTS \in Nat /\ Len(buff) \in Nat
  BY BuffTypes DEF GpuFirewallAssumption, FirewallInv, FirewallTypeOK, Entry
<1>4. CommandsInv'
  BY <1>1, <1>2 DEF JudgedInv, CommandsInv, Writing
<1>5. \A i \in 1 .. Len(buff) : Source(i)' = Source(i) /\ Visits(i)' = Visits(i)
  BY <1>1 DEF Source, Visits
<1>6. ASSUME NEW i \in 1 .. Len(buff), i \leq DEVICEINTS, Sound PROVE WordInv(i)'
  <2>1. i - 1 \in 0 .. DEVICEINTS - 1 /\ i - 1 < Len(buff) /\ (i - 1) + 1 = i
    BY <1>3, <1>6
  <2>2. devPackets'[i - 1] = buff[i].sip
    BY <1>1, <2>1
  <2>3. devPackets'[i - 1] = Source(i)
    BY <1>1, <1>2, <1>6, <2>2 DEF JudgedInv, VerdictInv, SoundInv
  <2>4. "kernel" \in commands => \A w \in Visits(i) : w \in Items /\ item[w] = "match"
    BY <1>1, <1>2, <1>6, <2>1 DEF JudgedInv, VerdictInv, SoundInv, Writing, Visits
  <2>5. mishap = {} => "kernel" \in commands
    BY <1>1, <1>2 DEF JudgedInv, CommandsInv, Writing
  <2>6. mishap = {} => \A w \in Items : Visits(i) = {w} => Word(Source(i), item[w])' = Source(i)
    BY <1>1, <1>5, <2>4, <2>5 DEF Word
  <2> QED BY <1>1, <1>5, <2>3, <2>4, <2>6 DEF WordInv
<1>7. Sound => SoundInv'
  <2> SUFFICES ASSUME Sound PROVE SoundInv'
    OBVIOUS
  <2>1. SoundInv
    BY <1>2 DEF JudgedInv, VerdictInv
  <2>2. \A i \in 1 .. Len(buff) : ResultInv(i) => ResultInv(i)'
    BY <1>1, ResultFrame
  <2> QED BY <1>1, <1>6, <2>1, <2>2 DEF SoundInv, Writing
<1>8. VerdictInv'
  BY <1>1, <1>2, <1>5, <1>7 DEF JudgedInv, VerdictInv, Sound
<1> QED BY <1>4, <1>8 DEF JudgedInv

LEMMA WriteRulesJudged ==
  ASSUME FirewallInv, JudgedInv, WriteRules
  PROVE  JudgedInv'
<1>1. /\ "writeRules" \in commands /\ commands' = commands \ {"writeRules"} /\ devRules' /\ mishap' = mishap
      /\ UNCHANGED <<src, thread, buff, devPackets, item>>
  BY DEF WriteRules, Runs, Needs, queueVars
<1>2. thread = "gpu"
  BY <1>1 DEF JudgedInv, CommandsInv
<1>3. CommandsInv'
  BY <1>1, <1>2 DEF JudgedInv, CommandsInv, Writing
<1>4. ASSUME NEW i \in 1 .. Len(buff)
      PROVE  /\ Source(i)' = Source(i)
             /\ WordInv(i) => WordInv(i)'
             /\ ResultInv(i) => ResultInv(i)'
  <2>1. Source(i)' = Source(i) /\ Visits(i)' = Visits(i)
    BY <1>1 DEF Source, Visits
  <2>2. \A w \in Items : Word(Source(i), item[w])' = Word(Source(i), item[w])
    BY <1>1, <2>1 DEF Word
  <2>3. ResultInv(i) => ResultInv(i)'
    BY <1>1, ResultFrame
  <2> QED BY <1>1, <2>1, <2>2, <2>3 DEF WordInv
<1>5. SoundInv => SoundInv'
  BY <1>1, <1>4 DEF SoundInv, Writing
<1>6. VerdictInv'
  BY <1>1, <1>2, <1>4, <1>5 DEF JudgedInv, VerdictInv, Sound
<1> QED BY <1>3, <1>6 DEF JudgedInv

\* What a work item does to the word it handles, others being there or not.
LEMMA MatchWord ==
  ASSUME GpuFirewallAssumption, BadAddressAssumption, FirewallInv, devRules, Sound',
         NEW i \in 1 .. Len(buff), i \leq DEVICEINTS, WordInv(i), NEW w \in Items, Match(w)
  PROVE  WordInv(i)'
<1>0. ~ Overruns(w)
  BY OverrunIsMishap
<1>1. /\ item[w] = "match" /\ item' = [item EXCEPT ![w] = "clear"] /\ UNCHANGED <<src, buff>>
      /\ "kernel" \in commands /\ mishap \subseteq mishap' /\ commands' \subseteq commands
      /\ \/ devPackets[Index(w)] \in RuleWords /\ devPackets' = [devPackets EXCEPT ![Index(w)] = 1]
         \/ devPackets[Index(w)] \notin RuleWords /\ devPackets' = devPackets
  BY <1>0 DEF Match, ItemGoes, Runs, queueVars
<1>2. /\ devPackets \in [0 .. DEVICEINTS - 1 -> Words] /\ item \in [Items -> {"match", "clear", "done"}]
      /\ i - 1 \in 0 .. DEVICEINTS - 1
  <2>1. DEVICEINTS \in Nat /\ Len(buff) \in Nat
    BY BuffTypes DEF GpuFirewallAssumption, FirewallInv, FirewallTypeOK, Entry
  <2> QED BY <2>1 DEF FirewallInv, FirewallTypeOK
<1>3. Source(i)' = Source(i) /\ Visits(i)' = Visits(i)
  BY <1>1 DEF Source, Visits
<1>4. \A v \in Items : item'[v] = IF v = w THEN "clear" ELSE item[v]
  BY <1>1, <1>2
<1>5. /\ 1 \notin RuleWords
      /\ Compared(Source(i)) => Source(i) \in RuleWords /\ Source(i) # 0 /\ Source(i) # 1
      /\ Source(i) \in RuleWords /\ Source(i) # 0 => Compared(Source(i))
  BY RuleFacts
<1>6. CASE Index(w) = i - 1
  <2>1. devPackets'[i - 1] = IF devPackets[i - 1] \in RuleWords THEN 1 ELSE devPackets[i - 1]
    BY <1>1, <1>2, <1>6
  <2>2. Compared(Source(i)) => devPackets'[i - 1] = 1
    BY <1>5, <2>1 DEF WordInv
  <2>3. ASSUME mishap' = {}, NEW v \in Items, Visits(i) = {v}, Source(i) \notin {0, 1}
        PROVE  devPackets'[i - 1] = Word(Source(i), item[v])'
    <3>1. v = w
      BY <1>6, <2>3 DEF Visits
    <3>2. devPackets[i - 1] = Source(i)
      BY <1>1, <2>3, <3>1 DEF WordInv, Word
    <3>3. Word(Source(i), item[v])' = IF Compared(Source(i)) THEN 1 ELSE Source(i)
      BY <1>3, <1>4, <3>1 DEF Word
    <3> QED BY <1>5, <2>1, <2>3, <3>2, <3>3
  <2> QED BY <1>3, <2>2, <2>3 DEF WordInv
<1>7. CASE Index(w) # i - 1
  <2>1. devPackets'[i - 1] = devPackets[i - 1]
    BY <1>1, <1>2, <1>7
  <2>2. \A v \in Visits(i) : v \in Items /\ item'[v] = item[v]
    BY <1>4, <1>7 DEF Visits
  <2>3. \A v \in Items : Visits(i) = {v} => Word(Source(i), item[v])' = Word(Source(i), item[v])
    BY <1>3, <2>2 DEF Word
  <2> QED BY <1>1, <1>3, <2>1, <2>2, <2>3 DEF WordInv
<1> QED BY <1>6, <1>7

LEMMA ClearWord ==
  ASSUME GpuFirewallAssumption, FirewallInv, Sound',
         NEW i \in 1 .. Len(buff), i \leq DEVICEINTS, WordInv(i), NEW w \in Items, Clear(w)
  PROVE  WordInv(i)'
<1>0. ~ Overruns(w)
  BY OverrunIsMishap
<1>1. /\ item[w] = "clear" /\ item' = [item EXCEPT ![w] = "done"] /\ UNCHANGED <<src, buff>>
      /\ "kernel" \in commands /\ mishap \subseteq mishap' /\ commands' \subseteq commands
      /\ devPackets' = IF devPackets[Index(w)] # 1 THEN [devPackets EXCEPT ![Index(w)] = 0] ELSE devPackets
  BY <1>0 DEF Clear, ItemGoes, Runs, queueVars
<1>2. /\ devPackets \in [0 .. DEVICEINTS - 1 -> Words] /\ item \in [Items -> {"match", "clear", "done"}]
      /\ i - 1 \in 0 .. DEVICEINTS - 1
  <2>1. DEVICEINTS \in Nat /\ Len(buff) \in Nat
    BY BuffTypes DEF GpuFirewallAssumption, FirewallInv, FirewallTypeOK, Entry
  <2> QED BY <2>1 DEF FirewallInv, FirewallTypeOK
<1>3. Source(i)' = Source(i) /\ Visits(i)' = Visits(i)
  BY <1>1 DEF Source, Visits
<1>4. \A v \in Items : item'[v] = IF v = w THEN "done" ELSE item[v]
  BY <1>1, <1>2
<1>5. CASE Index(w) = i - 1
  <2>1. devPackets'[i - 1] = IF devPackets[i - 1] # 1 THEN 0 ELSE 1
    BY <1>1, <1>2, <1>5
  <2>2. w \in Visits(i) /\ item[w] # "match"
    BY <1>1, <1>5 DEF Visits
  <2>3. Compared(Source(i)) => devPackets'[i - 1] = 1
    BY <1>1, <2>1, <2>2 DEF WordInv
  <2>4. ASSUME mishap' = {}, NEW v \in Items, Visits(i) = {v}, Source(i) \notin {0, 1}
        PROVE  devPackets'[i - 1] = Word(Source(i), item[v])'
    <3>1. v = w
      BY <2>2, <2>4
    <3>2. devPackets[i - 1] = IF Compared(Source(i)) THEN 1 ELSE Source(i)
      BY <1>1, <2>4, <3>1 DEF WordInv, Word
    <3>3. Word(Source(i), item[v])' = IF Compared(Source(i)) THEN 1 ELSE 0
      BY <1>3, <1>4, <3>1 DEF Word
    <3> QED BY <2>1, <2>4, <3>2, <3>3
  <2> QED BY <1>3, <2>3, <2>4 DEF WordInv
<1>6. CASE Index(w) # i - 1
  <2>1. devPackets'[i - 1] = devPackets[i - 1]
    BY <1>1, <1>2, <1>6
  <2>2. \A v \in Visits(i) : v \in Items /\ item'[v] = item[v]
    BY <1>4, <1>6 DEF Visits
  <2>3. \A v \in Items : Visits(i) = {v} => Word(Source(i), item[v])' = Word(Source(i), item[v])
    BY <1>3, <2>2 DEF Word
  <2> QED BY <1>1, <1>3, <2>1, <2>2, <2>3 DEF WordInv
<1> QED BY <1>5, <1>6

\* The kernel is finished when its last work item is.
LEMMA KernelJudged ==
  ASSUME GpuFirewallAssumption, BadAddressAssumption, FirewallInv, JudgedInv,
         NEW w \in Items, Match(w) \/ Clear(w)
  PROVE  JudgedInv'
<1>1. /\ "kernel" \in commands /\ mishap \subseteq mishap' /\ UNCHANGED <<src, thread, buff>>
      /\ commands' = IF \A v \in Items : item'[v] = "done" THEN commands \ {"kernel"} ELSE commands
      /\ Runs("kernel") \/ "overrun" \in mishap'
      /\ Sound' => UNCHANGED devRules
  <2>1. CASE Overruns(w)
    BY <2>1, OverrunIsMishap DEF Match, Clear, ItemGoes, queueVars
  <2>2. CASE ~ Overruns(w)
    BY <2>2, RunsSound DEF Match, Clear, ItemGoes, queueVars
  <2> QED BY <2>1, <2>2
<1>2. thread = "gpu" /\ (Sound' => Sound) /\ (mishap' = {} => mishap = {})
  BY <1>1, RunsSound DEF JudgedInv, CommandsInv
<1>3. Sound' => "writePackets" \notin commands /\ "writeRules" \notin commands /\ devRules
  <2>1. Sound' => Runs("kernel")
    BY <1>1 DEF Sound
  <2> QED BY <1>2, <2>1, RunsSound DEF JudgedInv, VerdictInv, SoundInv
<1>4. CommandsInv'
  BY <1>1, <1>2, <1>3 DEF JudgedInv, CommandsInv, Writing, Sound
<1>5. \A i \in 1 .. Len(buff) : Source(i)' = Source(i)
  BY <1>1 DEF Source
<1>6. ASSUME Sound' PROVE SoundInv'
  <2>1. SoundInv /\ devRules /\ devRules' /\ ~ Writing'
    BY <1>1, <1>2, <1>3, <1>6 DEF JudgedInv, VerdictInv, Writing
  <2>2. \A i \in 1 .. Len(buff) : i \leq DEVICEINTS => WordInv(i)'
    BY <1>3, <1>6, <2>1, MatchWord, ClearWord DEF SoundInv
  <2>3. \A i \in 1 .. Len(buff) : ResultInv(i) => ResultInv(i)'
    BY <1>1, ResultFrame
  <2>4. "read" \notin commands' => "read" \notin commands
    BY <1>1
  <2> QED BY <1>1, <2>1, <2>2, <2>3, <2>4 DEF SoundInv, Writing
<1>7. "kernel" \notin commands' => \A v \in Items : item'[v] = "done"
  BY <1>1
<1>8. VerdictInv'
  BY <1>1, <1>2, <1>5, <1>6, <1>7 DEF JudgedInv, VerdictInv
<1> QED BY <1>4, <1>8 DEF JudgedInv

\* What comes back is what the work items left; an address behind the words of the
\* device stays as it is and is not let through either.
LEMMA ReadBackJudged ==
  ASSUME GpuFirewallAssumption, BadAddressAssumption, FirewallInv, JudgedInv, ReadBack
  PROVE  JudgedInv'
<1>1. /\ Runs("read") /\ commands' = commands \ {"read"} /\ UNCHANGED <<src, thread, devPackets, devRules, item>>
  BY DEF ReadBack, queueVars
<1>2. /\ "read" \in commands /\ mishap \subseteq mishap' /\ (Sound' => Sound) /\ (mishap' = {} => mishap = {})
      /\ Sound' => "writePackets" \notin commands
      /\ mishap' = {} => "writePackets" \notin commands /\ "kernel" \notin commands
  BY <1>1, RunsSound
<1>3. thread = "gpu" /\ \A i \in 1 .. Len(buff) : buff[i].sip = Source(i)
  BY <1>2 DEF JudgedInv, CommandsInv, VerdictInv
<1>4. /\ Len(buff') = Len(buff)
      /\ \A i \in 1 .. Len(buff) :
           /\ buff'[i].id = buff[i].id
           /\ buff'[i].sip = IF i \leq DEVICEINTS THEN devPackets[i - 1] ELSE buff[i].sip
  BY ReadBackBuff DEF FirewallInv
<1>5. CommandsInv'
  BY <1>1, <1>2, <1>3 DEF JudgedInv, CommandsInv, Writing
<1>6. ASSUME Sound', NEW i \in 1 .. Len(buff)
      PROVE  Source(i)' = Source(i) /\ ResultInv(i)' /\ (i \leq DEVICEINTS => WordInv(i)')
  <2>1. Source(i)' = Source(i) /\ Visits(i)' = Visits(i)
    BY <1>1, <1>4 DEF Source, Visits
  <2>2. Compared(Source(i)) => Source(i) # 0
    BY RuleFacts
  <2>3. i \leq DEVICEINTS => WordInv(i)
    BY <1>2, <1>3, <1>6 DEF JudgedInv, VerdictInv, SoundInv
  <2>4. Compared(Source(i)) => buff'[i].sip # 0
    BY <1>3, <1>4, <2>2, <2>3 DEF WordInv
  <2>5. ASSUME mishap' = {}, NEW w \in Items, i \leq DEVICEINTS, Visits(i) = {w}, Source(i) \notin {0, 1}
        PROVE  buff'[i].sip = Word(Source(i), "done")
    <3>1. item[w] = "done"
      BY <1>2, <1>3, <2>5 DEF JudgedInv, VerdictInv
    <3>2. devPackets[i - 1] = Word(Source(i), item[w])
      BY <1>2, <2>3, <2>5 DEF WordInv
    <3> QED BY <1>4, <2>5, <3>1, <3>2
  <2>6. \A w \in Items : Word(Source(i), item[w])' = Word(Source(i), item[w])
    BY <1>1, <2>1 DEF Word
  <2>7. Word(Source(i), "done")' = Word(Source(i), "done")
    BY <2>1 DEF Word
  <2>8. ResultInv(i)'
    BY <2>1, <2>4, <2>5, <2>7 DEF ResultInv
  <2>9. i \leq DEVICEINTS => WordInv(i)'
    BY <1>1, <1>2, <2>1, <2>3, <2>6 DEF WordInv
  <2> QED BY <2>1, <2>8, <2>9
<1>7. ASSUME Sound' PROVE SoundInv'
  <2>1. SoundInv
    BY <1>2, <1>3, <1>7 DEF JudgedInv, VerdictInv
  <2> QED BY <1>1, <1>2, <1>4, <1>6, <1>7, <2>1 DEF SoundInv, Writing
<1>8. VerdictInv'
  BY <1>1, <1>3, <1>4, <1>7 DEF JudgedInv, VerdictInv
<1> QED BY <1>5, <1>8 DEF JudgedInv

LEMMA FinishJudged ==
  ASSUME FirewallInv, JudgedInv, Finish
  PROVE  JudgedInv'
<1>1. /\ thread = "gpu" /\ commands = {} /\ commands' = {} /\ thread' = "verdict" /\ UNCHANGED <<src, buff, mishap>>
  BY DEF Finish, queueVars
<1>2. ASSUME Sound', NEW i \in 1 .. Len(buff) PROVE ResultInv(i)'
  <2>1. ResultInv(i)
    BY <1>1, <1>2 DEF JudgedInv, VerdictInv, SoundInv, Sound
  <2> QED BY <1>1, <2>1, ResultFrame
<1> QED BY <1>1, <1>2 DEF JudgedInv, CommandsInv, VerdictInv

\* The thread queues its commands when the buffer is judged, and has none else.
LEMMA ThreadJudged ==
  ASSUME GpuFirewallAssumption, NfQueueAssumption, FirewallInv, FirewallInv', JudgedInv,
         BadAddressAssumption, HandlePacket \/ Verdicts \/ Join
  PROVE  JudgedInv'
<1>1. ASSUME thread' # "gpu", thread' # "verdict", commands' = {},
             thread' = "recv" => \A i \in 1 .. Len(buff') : buff'[i].sip = Source(i)'
      PROVE  JudgedInv'
  BY <1>1 DEF JudgedInv, CommandsInv, VerdictInv
<1>2. thread # "gpu" /\ commands = {}
  BY DEF JudgedInv, CommandsInv, HandlePacket, Verdicts, Join
<1>3. CASE ~ (HandlePacket /\ ~ breakFlag)
  <2>1. /\ thread' # "gpu" /\ thread' # "verdict" /\ commands' = {}
        /\ thread' = "recv" => Len(buff') = 0
    BY <1>2, <1>3 DEF HandlePacket, Verdicts, Join, gpu
  <2> QED BY <1>1, <2>1
<1>4. CASE HandlePacket /\ ~ breakFlag
  <2>1. /\ thread = "recv" /\ UNCHANGED src /\ buff' = Append(buff, ShowPacket(Head(socket)))
        /\ \/ DoWork(Len(buff')) /\ thread' = "gpu"
           \/ UNCHANGED <<gpu, thread>>
    BY <1>4 DEF HandlePacket, PacketBuffering
  <2>2. \A i \in 1 .. Len(buff') : buff'[i].sip = Source(i)'
    <3>1. buff \in Seq(Entry) /\ \A i \in 1 .. Len(buff) : buff[i].sip = src[buff[i].id]
      BY <2>1 DEF FirewallInv, FirewallTypeOK, Entry, JudgedInv, VerdictInv, Source
    <3> DEFINE e == ShowPacket(Head(socket))
    <3>2. e.sip = src[e.id]
      BY DEF ShowPacket
    <3>3. buff' \in Seq(Entry)
      BY DEF FirewallInv, FirewallTypeOK, Entry
    <3> HIDE DEF e
    <3>4. \A i \in 1 .. Len(buff') : (i \in 1 .. Len(buff) /\ buff'[i] = buff[i]) \/ buff'[i] = e
      BY <2>1, <3>1, <3>3 DEF e
    <3> QED BY <2>1, <3>1, <3>2, <3>4 DEF Source
  <2>3. CASE UNCHANGED <<gpu, thread>>
    BY <1>1, <1>2, <2>1, <2>2, <2>3 DEF gpu
  <2>4. CASE DoWork(Len(buff')) /\ thread' = "gpu"
    <3>1. /\ commands' = Commands \ mishap'
          /\ item' = [w \in Items |-> IF Index(w) < Len(buff') /\ "kernel" \notin mishap' THEN "match" ELSE "done"]
      BY <2>4 DEF DoWork
    <3>2. CommandsInv'
      BY <2>4, <3>1 DEF CommandsInv, Commands
    <3>3. \A i \in 1 .. Len(buff') : mishap' # {} => ResultInv(i)'
      <4>1. \A a : Compared(a) => a # 0
        BY RuleFacts
      <4>2. \A i \in 1 .. Len(buff') : Compared(Source(i)') => buff'[i].sip # 0
        BY <2>2, <4>1
      <4> QED BY <4>2 DEF ResultInv
    <3>4. Sound' => SoundInv'
      BY <2>2, <3>1, <3>3 DEF Sound, SoundInv, Writing, Commands
    <3>5. "kernel" \notin commands' => \A w \in Items : item'[w] = "done"
      BY <3>1 DEF Commands
    <3> QED BY <2>2, <2>4, <3>2, <3>4, <3>5 DEF JudgedInv, VerdictInv
  <2> QED BY <2>1, <2>3, <2>4
<1> QED BY <1>3, <1>4

\* No thread runs when the firewall is switched on; switching off leaves it alone.
LEMMA LaunchJudged ==
  ASSUME FirewallInv, JudgedInv, Launch
  PROVE  JudgedInv'
<1>1. CASE UNCHANGED <<queueVars, thread, buff>>
  <2>1. UNCHANGED <<thread, buff, gpu>> /\ src' = src
    BY <1>1 DEF Launch, queueVars
  <2> QED BY <2>1, JudgedFrame
<1>2. CASE offFlag = 0 /\ buff' = <<>> /\ thread' \in {"recv", "none"}
  <2>1. thread \in {"none", "ended"} /\ UNCHANGED gpu
    BY <1>2 DEF Launch, FirewallInv, SessionInv
  <2>2. commands' = {} /\ Len(buff') = 0
    BY <1>2, <2>1 DEF JudgedInv, CommandsInv, gpu
  <2> QED BY <1>2, <2>2 DEF JudgedInv, CommandsInv, VerdictInv
<1> QED BY <1>1, <1>2 DEF Launch, NetlinkInit

LEMMA JudgedStep ==
  ASSUME GpuFirewallAssumption, NfQueueAssumption, BadAddressAssumption,
         FirewallInv, FirewallInv', JudgedInv, [FirewallNext]_firewallVars
  PROVE  JudgedInv'
<1>1. CASE UNCHANGED firewallVars \/ InitModule \/ CleanupModule \/ Unhook
  <2>1. UNCHANGED <<thread, buff, gpu>> /\ src' = src
    BY <1>1 DEF firewallVars, queueVars, InitModule, CleanupModule, Unhook
  <2> QED BY <2>1, JudgedFrame
<1>2. ASSUME NEW p \in Packets, Arrive(p) PROVE JudgedInv'
  <2>1. UNCHANGED <<thread, buff, gpu>> /\ p \notin waiting /\ \E a \in Addresses : src' = [src EXCEPT ![p] = a]
    BY <1>2 DEF Arrive, NfQueued
  <2>2. ASSUME NEW i \in 1 .. Len(buff), thread \in {"recv", "gpu", "verdict"}
        PROVE  src'[buff[i].id] = src[buff[i].id]
    <3>1. buff[i].id \in waiting
      BY <2>2 DEF FirewallInv, HeldInv, Received
    <3> QED BY <2>1, <3>1 DEF FirewallInv, FirewallTypeOK, QueueTypeOK
  <2> QED BY <2>1, <2>2, JudgedFrame
<1> QED BY <1>1, <1>2, WritePacketsJudged, WriteRulesJudged, KernelJudged, ReadBackJudged, FinishJudged,
           ThreadJudged, LaunchJudged
        DEF FirewallNext, Traffic, DaemonStep, ThreadStep, GpuStep

\* What is in the buffer when the verdicts are given is right.
LEMMA JudgedGivesVerdicts ==
  ASSUME GpuFirewallAssumption, BadAddressAssumption, FirewallInv, JudgedInv
  PROVE  VerdictsRight
<1> SUFFICES ASSUME thread = "verdict", Sound PROVE VerdictsRight
  BY DEF VerdictsRight, BadNeverAccepted, SingleVisitExact, Sound
<1>1. \A i \in 1 .. Len(buff) : ResultInv(i)
  BY DEF JudgedInv, VerdictInv
<1>2. \A i, j \in 1 .. Len(buff) : buff[i].id = buff[j].id => i = j
  BY DEF FirewallInv, HeldInv
<1>3. \A i \in 1 .. Len(buff) : buff[i].id \in Accepted <=> buff[i].sip = 0
  BY <1>2 DEF Accepted
<1>4. BadNeverAccepted
  BY <1>1 DEF BadNeverAccepted, Accepted, ResultInv, Source
<1>5. ASSUME mishap = {}, NEW i \in 1 .. Len(buff), i \leq DEVICEINTS, Cardinality({w \in Items : Index(w) = i - 1}) = 1,
             src[buff[i].id] \notin {0, 1}
      PROVE  buff[i].id \in Accepted <=>
               CpuVerdict(src[buff[i].id]) = "NF_ACCEPT" \/ ~ Compared(src[buff[i].id])
  <2>1. PICK w : Visits(i) = {w}
    <3>1. IsFiniteSet(Items)
      <4>1. GRIDX - 1 \in Int /\ GRIDY - 1 \in Int
        BY DEF GpuFirewallAssumption
      <4>2. IsFiniteSet(0 .. GRIDX - 1) /\ IsFiniteSet(0 .. GRIDY - 1)
        BY <4>1, FS_Interval
      <4> QED BY <4>2, FS_Product DEF Items
    <3>2. IsFiniteSet(Visits(i))
      BY <3>1, FS_Subset DEF Visits
    <3> QED BY <1>5, <3>2, FS_Singleton DEF Visits
  <2>2. buff[i].sip = Word(Source(i), "done")
    BY <1>1, <1>5, <2>1 DEF ResultInv, Source, Visits
  <2>3. buff[i].sip = IF Compared(Source(i)) THEN 1 ELSE 0
    BY <2>2 DEF Word
  <2>4. Compared(Source(i)) => CpuVerdict(Source(i)) # "NF_ACCEPT"
    <3>1. Len(BadAddress) \in Nat
      BY DEF BadAddressAssumption
    <3>2. \A k \in 0 .. (Len(BadAddress) - 1) \div 2 : k \in 0 .. Len(BadAddress) - 1
      BY <3>1
    <3> QED BY <3>2 DEF Compared, CpuVerdict, CpuAddress, BadIpAddress
  <2> QED BY <1>3, <2>3, <2>4 DEF Source
<1>6. SingleVisitExact
  BY <1>5 DEF SingleVisitExact
<1> QED BY <1>4, <1>6 DEF VerdictsRight

\* In whatever order the commands run, and whichever OpenCL refuses: when packets and
\* rules were written before the kernel used them, and no work item worked behind the
\* buffer, no packet from an address that the kernel compares is let through, however
\* many work items share its word; and when each command ran after those it needs, a
\* packet that one work item handles gets the CPU firewall's verdict, up to the known
\* gaps.
THEOREM GpuVerdictsRight ==
  ASSUME GpuFirewallAssumption, NfQueueAssumption, BadAddressAssumption
  PROVE  FirewallSpec => []VerdictsRight
<1>1. FirewallInit => FirewallInv /\ JudgedInv
  <2>1. FirewallInit => JudgedInv
    BY DEF FirewallInit, JudgedInv, CommandsInv, VerdictInv
  <2> QED BY <2>1, FirewallInitInv
<1>2. FirewallInv /\ JudgedInv /\ [FirewallNext]_firewallVars => FirewallInv' /\ JudgedInv'
  BY FirewallStep, JudgedStep
<1>3. FirewallInv /\ JudgedInv => VerdictsRight
  BY JudgedGivesVerdicts
<1> QED BY <1>1, <1>2, <1>3, PTL DEF FirewallSpec

-----------------------------------------------------------------------------
(* The netfilter firewall                                                  *)

CONSTANTS BUFFERED, ELEMENTS, REACH, FILTERMAX
VARIABLES hooked, filter, program, ids, index, everJudged

Netfilter == INSTANCE NetfilterFirewall WITH firstRv <- everJudged

\* The instance has its own copy of the operator.
LEMMA SameCardinality == \A S : Netfilter!Cardinality(S) = Cardinality(S)
BY DEF Netfilter!Cardinality, Cardinality, Netfilter!IsFiniteSet, IsFiniteSet

\* The ids of the buffer's elements in use.
Collected == {ids[i] : i \in 0 .. index - 1}

\* The packets of the socket and of the elements in use are different ones, and they
\* are what waits in the kernel; nothing waits before the program runs and after it.
CollectedInv ==
  /\ IsFiniteSet(waiting)
  /\ \A i \in 0 .. index - 1 : ids[i] \in Packets
  /\ \A i, j \in 0 .. index - 1 : ids[i] = ids[j] => i = j
  /\ program = "recv" =>
       waiting = Collected \cup Unread /\ Collected \cap Unread = {} /\ IsInjective(socket)
  /\ program # "recv" => ~ bound /\ waiting = {}

NetfilterInv == Netfilter!NetfilterTypeOK /\ CollectedInv

LEMMA NetfilterInitInv ==
  ASSUME NfQueueAssumption, Netfilter!NetfilterAssumption, Netfilter!NetfilterInit
  PROVE  NetfilterInv
<1>1. /\ waiting = {} /\ bound = FALSE /\ socket = <<>> /\ src = [p \in Packets |-> None]
      /\ hooked = FALSE /\ filter = <<>> /\ program = "out" /\ index = 0 /\ everJudged = FALSE
      /\ ids = [k \in 0 .. ELEMENTS - 1 |-> None]
  BY DEF Netfilter!NetfilterInit, Netfilter!NotLoaded, Netfilter!QueueInit
<1>2. QUEUEMAX \in Nat /\ BUFFERED \in Nat /\ BUFFERED > 0
  BY DEF NfQueueAssumption, Netfilter!NetfilterAssumption
<1>3. IsFiniteSet({}) /\ Cardinality({}) = 0
  BY FS_EmptySet
<1>4. Netfilter!NetfilterTypeOK
  <2>1. /\ src \in [Packets -> Addresses \cup {None}] /\ socket \in Seq(Packets) /\ filter \in Seq(Addresses)
        /\ ids \in [0 .. ELEMENTS - 1 -> Packets \cup {None}]
    BY <1>1
  <2>2. Cardinality(waiting) \leq QUEUEMAX /\ index \in 0 .. BUFFERED - 1
    BY <1>1, <1>2, <1>3
  <2>3. /\ bound \in BOOLEAN /\ hooked \in BOOLEAN /\ everJudged \in BOOLEAN /\ waiting \subseteq Packets
        /\ program \in {"out", "recv", "ended"}
    BY <1>1
  <2> QED BY <2>1, <2>2, <2>3, SameCardinality DEF Netfilter!NetfilterTypeOK, Netfilter!QueueTypeOK
<1>5. CollectedInv
  BY <1>1, <1>3 DEF CollectedInv
<1> QED BY <1>4, <1>5 DEF NetfilterInv

\* The received packet takes the element behind those in use, whatever its payload
\* runs over.
LEMMA PacketCollected ==
  ASSUME NfQueueAssumption, Netfilter!NetfilterAssumption, NetfilterInv, Netfilter!HandlePacket
  PROVE  NetfilterInv'
<1> DEFINE p == Head(socket)
<1>1. /\ program = "recv" /\ socket # <<>> /\ socket' = Tail(socket)
      /\ UNCHANGED <<bound, hooked, filter, program>>
  BY DEF Netfilter!HandlePacket
<1>2. PICK reach \in 0 .. REACH, elapsed \in BOOLEAN : Netfilter!PacketBuffering(p, reach, elapsed)
  BY DEF Netfilter!HandlePacket
<1>3. /\ Netfilter!NetfilterTypeOK /\ Netfilter!QueueTypeOK /\ socket \in Seq(Packets) /\ IsFiniteSet(waiting)
      /\ ids \in [0 .. ELEMENTS - 1 -> Packets \cup {None}] /\ index \in 0 .. BUFFERED - 1
      /\ {BUFFERED, ELEMENTS, REACH} \subseteq Nat /\ BUFFERED - 1 + REACH < ELEMENTS
      /\ waiting \subseteq Packets /\ Cardinality(waiting) \leq QUEUEMAX /\ bound \in BOOLEAN
      /\ hooked \in BOOLEAN /\ everJudged \in BOOLEAN /\ filter \in Seq(Addresses)
      /\ src \in [Packets -> Addresses \cup {None}]
  <2>1. {BUFFERED, ELEMENTS, REACH} \subseteq Nat /\ BUFFERED - 1 + REACH < ELEMENTS
    BY DEF Netfilter!NetfilterAssumption
  <2>2. Netfilter!NetfilterTypeOK /\ IsFiniteSet(waiting)
    BY DEF NetfilterInv, CollectedInv
  <2> QED BY <2>1, <2>2, SameCardinality DEF Netfilter!NetfilterTypeOK, Netfilter!QueueTypeOK
<1>4. /\ waiting = Collected \cup Unread /\ Collected \cap Unread = {} /\ IsInjective(socket)
      /\ Unread = ToSet(socket)
      /\ \A i \in 0 .. index - 1 : ids[i] \in Packets
      /\ \A i, j \in 0 .. index - 1 : ids[i] = ids[j] => i = j
  BY <1>1, <1>3, UnreadIsSocket DEF NetfilterInv, CollectedInv
<1>5. /\ socket' \in Seq(Packets) /\ p \in Packets /\ p \in ToSet(socket)
      /\ IsInjective(socket') /\ ToSet(socket') = ToSet(socket) \ {p}
  BY <1>1, <1>3, <1>4, TailDistinct
<1>6. Unread' = ToSet(socket')
  BY <1>5 DEF Unread, ToSet
<1> HIDE DEF p
<1>7. ids' = Netfilter!Copied(p, reach)
  BY <1>2 DEF Netfilter!PacketBuffering
<1>8. ids' \in [0 .. ELEMENTS - 1 -> Packets \cup {None}]
  BY <1>3, <1>5, <1>7 DEF Netfilter!Copied
<1>9. index \in Nat /\ index < ELEMENTS /\ ids'[index] = p /\ \A i \in 0 .. index - 1 : ids'[i] = ids[i]
  <2>1. index \in 0 .. ELEMENTS - 1 /\ \A i \in 0 .. index - 1 :
          i \in 0 .. ELEMENTS - 1 /\ i # index /\ i \notin index + 1 .. index + reach
    BY <1>3
  <2> QED BY <1>3, <1>7, <2>1 DEF Netfilter!Copied
<1>10. Netfilter!Judged(index + 1, ids') = Collected \cup {p}
  <2>1. \A i \in 0 .. (index + 1) - 1 : i \in 0 .. index - 1 \/ i = index
    BY <1>3
  <2>2. index \in 0 .. (index + 1) - 1 /\ \A i \in 0 .. index - 1 : i \in 0 .. (index + 1) - 1
    BY <1>3
  <2> QED BY <1>9, <2>1, <2>2 DEF Netfilter!Judged, Collected
<1>11. CASE index + 1 = BUFFERED \/ elapsed
  <2>1. /\ waiting' = waiting \ (Collected \cup {p}) /\ index' = 0 /\ everJudged' = TRUE
        /\ src' = [q \in Packets |-> IF q \in Collected \cup {p} THEN None ELSE src[q]]
    BY <1>2, <1>10, <1>11 DEF Netfilter!PacketBuffering
  <2>2. waiting' = Unread'
    BY <1>4, <1>5, <1>6, <2>1
  <2>3. IsFiniteSet(waiting') /\ Cardinality(waiting') <= Cardinality(waiting)
    BY <1>3, <2>1, FS_Subset
  <2>4. Cardinality(waiting') \leq QUEUEMAX /\ index' \in 0 .. BUFFERED - 1
    <3>1. Cardinality(waiting') \in Nat /\ Cardinality(waiting) \in Nat
      BY <1>3, <2>3, FS_CardinalityType
    <3>2. Cardinality(waiting') \leq QUEUEMAX
      BY <1>3, <2>3, <3>1 DEF NfQueueAssumption
    <3> QED BY <1>3, <2>1, <3>2
  <2>5. src' \in [Packets -> Addresses \cup {None}]
    BY <1>3, <2>1 DEF Netfilter!QueueTypeOK
  <2>6. Netfilter!NetfilterTypeOK'
    <3>1. /\ bound' \in BOOLEAN /\ hooked' \in BOOLEAN /\ everJudged' \in BOOLEAN
          /\ waiting' \subseteq Packets /\ program' \in {"out", "recv", "ended"} /\ filter' \in Seq(Addresses)
      BY <1>1, <1>3, <2>1
    <3> QED BY <1>5, <1>8, <2>4, <2>5, <3>1, SameCardinality DEF Netfilter!NetfilterTypeOK, Netfilter!QueueTypeOK
  <2>7. Collected' = {}
    BY <2>1 DEF Collected
  <2> QED BY <1>1, <1>5, <2>1, <2>2, <2>3, <2>6, <2>7 DEF NetfilterInv, CollectedInv
<1>12. CASE ~ (index + 1 = BUFFERED \/ elapsed)
  <2>1. index' = index + 1 /\ UNCHANGED <<waiting, src, everJudged>>
    BY <1>2, <1>12 DEF Netfilter!PacketBuffering
  <2>2. index' \in 0 .. BUFFERED - 1 /\ \A i \in 0 .. index' - 1 : i \in 0 .. index - 1 \/ i = index
    BY <1>3, <1>12, <2>1
  <2>3. Netfilter!NetfilterTypeOK'
    BY <1>1, <1>3, <1>5, <1>8, <2>1, <2>2, SameCardinality DEF Netfilter!NetfilterTypeOK, Netfilter!QueueTypeOK
  <2>4. Collected' = Collected \cup {p}
    BY <1>10, <2>1 DEF Collected, Netfilter!Judged
  <2>5. p \notin Collected
    BY <1>4, <1>5
  <2>6. \A i \in 0 .. index' - 1 : ids'[i] \in Packets
    BY <1>4, <1>5, <1>9, <2>2
  <2>7. \A i, j \in 0 .. index' - 1 : ids'[i] = ids'[j] => i = j
    BY <1>4, <1>9, <2>2, <2>5 DEF Collected
  <2>8. waiting' = Collected' \cup Unread' /\ Collected' \cap Unread' = {}
    BY <1>4, <1>5, <1>6, <2>1, <2>4
  <2> QED BY <1>1, <1>3, <1>5, <2>1, <2>3, <2>6, <2>7, <2>8 DEF NetfilterInv, CollectedInv
<1> QED BY <1>11, <1>12

\* A step that leaves queue, program and buffer alone.
LEMMA CollectedFrame ==
  ASSUME NetfilterInv, UNCHANGED <<queueVars, program, ids, index>>,
         hooked' \in BOOLEAN, filter' \in Seq(Addresses), everJudged' = everJudged
  PROVE  NetfilterInv'
<1>1. UNCHANGED <<bound, socket, waiting, src, program, ids, index, everJudged>>
  BY DEF queueVars
<1>2. Unread' = Unread /\ Collected' = Collected
  BY <1>1 DEF Unread, Collected
<1> QED BY <1>1, <1>2, SameCardinality DEF NetfilterInv, CollectedInv, Netfilter!NetfilterTypeOK, Netfilter!QueueTypeOK

LEMMA NetfilterStep ==
  ASSUME NfQueueAssumption, Netfilter!NetfilterAssumption, NetfilterInv,
         [Netfilter!NetfilterNext]_(Netfilter!netfilterVars)
  PROVE  NetfilterInv'
<1>0. /\ Netfilter!NetfilterTypeOK /\ Netfilter!QueueTypeOK /\ CollectedInv /\ hooked \in BOOLEAN
      /\ filter \in Seq(Addresses) /\ QUEUEMAX \in Nat /\ BUFFERED \in Nat /\ BUFFERED > 0
  BY DEF NetfilterInv, Netfilter!NetfilterTypeOK, NfQueueAssumption, Netfilter!NetfilterAssumption
<1>1. CASE \/ Netfilter!InitModule \/ Netfilter!CleanupModule \/ Netfilter!DropWrite
           \/ UNCHANGED Netfilter!netfilterVars
  <2>1. UNCHANGED <<queueVars, program, ids, index>> /\ everJudged' = everJudged
    BY <1>1 DEF Netfilter!InitModule, Netfilter!CleanupModule, Netfilter!DropWrite, Netfilter!netfilterVars,
                Netfilter!queueVars, queueVars
  <2>2. \/ hooked' = TRUE /\ filter' = <<>>
        \/ hooked' = FALSE /\ filter' = filter
        \/ hooked' = hooked /\ \E a \in Addresses : filter' = Append(filter, a)
        \/ hooked' = hooked /\ filter' = filter
    BY <1>1 DEF Netfilter!InitModule, Netfilter!CleanupModule, Netfilter!DropWrite, Netfilter!AddAddr,
                Netfilter!netfilterVars
  <2>3. hooked' \in BOOLEAN
    BY <1>0, <2>2
  <2>4. filter' \in Seq(Addresses)
    <3>1. filter' = <<>> \/ filter' = filter \/ \E a \in Addresses : filter' = Append(filter, a)
      BY <2>2
    <3>2. <<>> \in Seq(Addresses) /\ filter \in Seq(Addresses)
      BY <1>0
    <3>3. \A a \in Addresses : Append(filter, a) \in Seq(Addresses)
      BY ONLY <3>2
    <3> QED BY <3>1, <3>2, <3>3
  <2> QED BY <2>1, <2>3, <2>4, CollectedFrame
<1>2. ASSUME NEW p \in Packets, Netfilter!Arrive(p) PROVE NetfilterInv'
  <2>1. /\ bound /\ p \notin waiting /\ Cardinality(waiting) < QUEUEMAX /\ UNCHANGED bound
        /\ waiting' = waiting \cup {p} /\ socket' = Append(socket, p)
        /\ \E a \in Addresses : src' = [src EXCEPT ![p] = a]
        /\ UNCHANGED <<hooked, filter, program, ids, index, everJudged>>
    <3>1. Netfilter!NfQueued(p) /\ UNCHANGED <<hooked, filter, program, ids, index, everJudged>>
      BY <1>2 DEF Netfilter!Arrive
    <3> QED BY <3>1, SameCardinality DEF Netfilter!NfQueued
  <2>2. program = "recv" /\ IsFiniteSet(waiting)
    BY <1>0, <2>1 DEF CollectedInv
  <2>3. /\ waiting = Collected \cup Unread /\ Collected \cap Unread = {} /\ IsInjective(socket)
        /\ socket \in Seq(Packets) /\ Unread = ToSet(socket)
    BY <1>0, <2>2, UnreadIsSocket DEF CollectedInv, Netfilter!QueueTypeOK
  <2>4. ToSet(socket') = ToSet(socket) \cup {p} /\ IsInjective(socket') /\ socket' \in Seq(Packets)
    BY <2>1, <2>3, AppendDistinct
  <2>5. Unread' = ToSet(socket') /\ Collected' = Collected
    BY <2>1, <2>4 DEF Unread, ToSet, Collected
  <2>6. IsFiniteSet(waiting') /\ Cardinality(waiting') \leq QUEUEMAX
    <3>1. IsFiniteSet(waiting') /\ Cardinality(waiting') = Cardinality(waiting) + 1
      BY <2>1, <2>2, FS_AddElement
    <3>2. Cardinality(waiting) \in Nat
      BY <2>2, FS_CardinalityType
    <3> QED BY <1>0, <2>1, <3>1, <3>2
  <2>7. src' \in [Packets -> Addresses \cup {None}]
    BY <1>0, <2>1 DEF Netfilter!QueueTypeOK
  <2>8. Netfilter!NetfilterTypeOK'
    <3>1. /\ bound' \in BOOLEAN /\ waiting' \subseteq Packets
          /\ ids' \in [0 .. ELEMENTS - 1 -> Packets \cup {None}] /\ index' \in 0 .. BUFFERED - 1
          /\ program' \in {"out", "recv", "ended"} /\ everJudged' \in BOOLEAN
      BY <1>0, <2>1, SameCardinality DEF Netfilter!NetfilterTypeOK, Netfilter!QueueTypeOK
    <3> QED BY <1>0, <2>1, <2>4, <2>6, <2>7, <3>1, SameCardinality DEF Netfilter!NetfilterTypeOK, Netfilter!QueueTypeOK
  <2>9. CollectedInv'
    BY <1>0, <2>1, <2>2, <2>3, <2>4, <2>5, <2>6 DEF CollectedInv
  <2> QED BY <2>8, <2>9 DEF NetfilterInv
<1>3. CASE Netfilter!NetlinkInit
  <2>1. program = "out" /\ waiting = {} /\ ~ bound /\ UNCHANGED <<hooked, filter, ids, everJudged>>
    BY <1>0, <1>3 DEF Netfilter!NetlinkInit, CollectedInv
  <2>2. CASE program' = "ended" /\ UNCHANGED <<queueVars, index>>
    <3>1. UNCHANGED <<bound, socket, waiting, src>>
      BY <2>2 DEF queueVars
    <3> QED BY <1>0, <2>1, <2>2, <3>1, SameCardinality DEF NetfilterInv, CollectedInv, Netfilter!NetfilterTypeOK, Netfilter!QueueTypeOK
  <2>3. CASE Netfilter!CreateQueue /\ index' = 0 /\ program' = "recv"
    <3>1. bound' = TRUE /\ socket' = <<>> /\ UNCHANGED <<waiting, src>>
      BY <2>3 DEF Netfilter!CreateQueue
    <3>2. Unread' = {} /\ Collected' = {} /\ IsInjective(socket')
      BY <2>3, <3>1 DEF Unread, Collected, IsInjective
    <3>3. index' \in 0 .. BUFFERED - 1 /\ socket' \in Seq(Packets) /\ 0 .. index' - 1 = {}
      BY <1>0, <2>3, <3>1
    <3>4. Netfilter!NetfilterTypeOK'
      BY <1>0, <2>1, <2>3, <3>1, <3>3, SameCardinality DEF Netfilter!NetfilterTypeOK, Netfilter!QueueTypeOK
    <3>5. CollectedInv'
      BY <1>0, <2>1, <2>3, <3>1, <3>2, <3>3 DEF CollectedInv
    <3> QED BY <3>4, <3>5 DEF NetfilterInv
  <2>4. UNCHANGED Netfilter!queueVars => UNCHANGED queueVars
    BY DEF Netfilter!queueVars, queueVars
  <2> QED BY <1>3, <2>2, <2>3, <2>4 DEF Netfilter!NetlinkInit
<1>4. CASE Netfilter!RecvFails
  <2>1. /\ program' = "ended" /\ bound' = FALSE /\ socket' = <<>> /\ waiting' = {}
        /\ src' = [p \in Packets |-> None] /\ UNCHANGED <<hooked, filter, ids, index, everJudged>>
    BY <1>4 DEF Netfilter!RecvFails, Netfilter!DestroyQueue
  <2>2. IsFiniteSet({}) /\ Cardinality({}) = 0
    BY FS_EmptySet
  <2>3. Netfilter!NetfilterTypeOK'
    <3>1. src' \in [Packets -> Addresses \cup {None}] /\ socket' \in Seq(Packets)
      BY <2>1
    <3>2. Cardinality(waiting') \leq QUEUEMAX
      BY <1>0, <2>1, <2>2
    <3>3. /\ bound' \in BOOLEAN /\ waiting' \subseteq Packets /\ program' \in {"out", "recv", "ended"}
          /\ ids' \in [0 .. ELEMENTS - 1 -> Packets \cup {None}] /\ index' \in 0 .. BUFFERED - 1
          /\ everJudged' \in BOOLEAN /\ hooked' \in BOOLEAN /\ filter' \in Seq(Addresses)
      BY <1>0, <2>1 DEF Netfilter!NetfilterTypeOK
    <3> QED BY <3>1, <3>2, <3>3, SameCardinality DEF Netfilter!NetfilterTypeOK, Netfilter!QueueTypeOK
  <2>4. CollectedInv'
    BY <1>0, <2>1, <2>2 DEF CollectedInv
  <2> QED BY <2>3, <2>4 DEF NetfilterInv
<1> QED BY <1>1, <1>2, <1>3, <1>4, PacketCollected DEF Netfilter!NetfilterNext, Netfilter!Traffic

\* However long the payloads that are copied into the buffer, the netfilter firewall
\* knows the id of every packet it has collected, and every packet that waits in the
\* kernel is in the socket or in the buffer: for any number of packets and any sizes.
THEOREM NetfilterHoldsPacketsOnce ==
  ASSUME NfQueueAssumption, Netfilter!NetfilterAssumption
  PROVE  Netfilter!NetfilterSpec => []Netfilter!PacketsHeldOnce
<1>1. Netfilter!NetfilterInit => NetfilterInv
  BY NetfilterInitInv
<1>2. NetfilterInv /\ [Netfilter!NetfilterNext]_(Netfilter!netfilterVars) => NetfilterInv'
  BY NetfilterStep
<1>3. NetfilterInv => Netfilter!PacketsHeldOnce
  <2> SUFFICES ASSUME NetfilterInv PROVE Netfilter!PacketsHeldOnce
    OBVIOUS
  <2>1. index \in Nat /\ Netfilter!NetfilterTypeOK /\ CollectedInv
    BY DEF NetfilterInv, Netfilter!NetfilterTypeOK, Netfilter!NetfilterAssumption
  <2>2. Cardinality(Collected) = index
    <3> DEFINE names == [k \in 1 .. index |-> ids[k - 1]]
    <3>1. \A k \in 1 .. index : k - 1 \in 0 .. index - 1
      BY <2>1
    <3>2. names \in [1 .. index -> Packets]
      BY <2>1, <3>1 DEF CollectedInv
    <3>3. IsInjective(names)
      <4> SUFFICES ASSUME NEW k \in 1 .. index, NEW l \in 1 .. index, ids[k - 1] = ids[l - 1] PROVE k = l
        BY DEF IsInjective
      <4>1. k - 1 = l - 1
        BY <2>1, <3>1 DEF CollectedInv
      <4> QED BY <4>1
    <3>4. Collected = {names[k] : k \in 1 .. index}
      <4>1. \A i \in 0 .. index - 1 : i + 1 \in 1 .. index /\ (i + 1) - 1 = i
        BY <2>1
      <4> QED BY <3>1, <4>1 DEF Collected
    <3> HIDE DEF names
    <3>5. names \in Seq(Packets) /\ Len(names) = index
      BY ONLY <2>1, <3>2, FunctionIsList
    <3>6. ToSet(names) = Collected
      BY <3>4, <3>5 DEF ToSet
    <3> QED BY <3>3, <3>5, <3>6, ToSetFinite
  <2>3. Netfilter!IdsIntact
    <3>1. program = "recv" => waiting = Collected \cup Unread
      BY <2>1 DEF CollectedInv
    <3>2. \A i \in 0 .. index - 1 : ids[i] \in Packets
      BY <2>1 DEF CollectedInv
    <3> QED BY <2>2, <3>1, <3>2, SameCardinality DEF Netfilter!IdsIntact, Collected, Unread
  <2> QED BY <2>1, <2>3 DEF Netfilter!PacketsHeldOnce
<1> QED BY <1>1, <1>2, <1>3, PTL DEF Netfilter!NetfilterSpec

-----------------------------------------------------------------------------
(* The breadth-first search                                                *)

\* The rows of the list hold every edge of their node.
LEMMA RowIs ==
  ASSUME NEW v \in Node
  PROVE  LET near == Neighbours(v) n == Cardinality(Neighbours(v)) IN
         /\ n \in Nat /\ IsFiniteSet(near) /\ Row(v) \in [1 .. n -> near] /\ Row(v) \in Seq(Node) /\ Len(Row(v)) = n
         /\ \A w \in Node : w \in near <=> \E x \in 1 .. n : Row(v)[x] = w
<1> DEFINE near == Neighbours(v)
           n == Cardinality(near)
           InOrder(s) == \A x, y \in DOMAIN s : x < y => s[x] < s[y]
<1>1. near \subseteq Node /\ IsFiniteSet(near) /\ near \subseteq Int
  <2>1. near \subseteq Node
    BY DEF Neighbours
  <2>2. IsFiniteSet(Node) /\ Node \subseteq Int
    BY BfsAssumption, FS_Interval DEF Node
  <2> QED BY <2>1, <2>2, FS_Subset
<1> HIDE DEF near
<1>2. n \in Nat /\ ExistsBijection(1 .. n, near)
  BY <1>1, FS_CardinalityType
<1>3. PICK f \in [1 .. n -> near] : \A x, y \in 1 .. n : f[x] = f[y] => x = y
  BY <1>2 DEF ExistsBijection, Bijection, Injection, IsInjective
<1> HIDE DEF n
<1>4. f \in [1 .. n -> Int]
  BY <1>1, <1>3
<1>5. PICK p \in [1 .. n -> 1 .. n] : IsInjective(p) /\ \A x, y \in 1 .. n : x <= y => f[p[x]] <= f[p[y]]
  BY <1>2, <1>4, SortingExists
<1> DEFINE t == [x \in 1 .. n |-> f[p[x]]]
<1>6. t \in [1 .. n -> near] /\ InOrder(t)
  <2>1. t \in [1 .. n -> near]
    BY <1>3, <1>5
  <2>2. ASSUME NEW x \in 1 .. n, NEW y \in 1 .. n, x < y
        PROVE  f[p[x]] < f[p[y]]
    <3>1. f[p[x]] <= f[p[y]] /\ p[x] # p[y] /\ p[x] \in 1 .. n /\ p[y] \in 1 .. n
      BY <1>5, <2>2 DEF IsInjective
    <3>2. f[p[x]] # f[p[y]] /\ f[p[x]] \in Int /\ f[p[y]] \in Int
      BY <1>3, <1>4, <3>1
    <3> QED BY <3>1, <3>2
  <2> QED BY <2>1, <2>2
<1> HIDE DEF t
<1>7. Row(v) \in [1 .. n -> near] /\ InOrder(Row(v))
  BY <1>6 DEF Row, n, near
<1>8. Row(v) \in Seq(Node) /\ Len(Row(v)) = n
  <2>1. Row(v) \in [1 .. n -> Node]
    BY <1>1, <1>7
  <2> QED BY <1>2, <2>1, FunctionIsList
<1>9. Row(v) \in Injection(1 .. n, near)
  <2> SUFFICES ASSUME NEW x \in 1 .. n, NEW y \in 1 .. n, Row(v)[x] = Row(v)[y] PROVE x = y
    BY <1>7 DEF Injection, IsInjective
  <2>1. x < y => Row(v)[x] < Row(v)[y]
    BY <1>7
  <2>2. y < x => Row(v)[y] < Row(v)[x]
    BY <1>7
  <2>3. Row(v)[x] \in Int
    BY <1>1, <1>7
  <2>4. ~ (x < y) /\ ~ (y < x)
    <3> DEFINE a == Row(v)[x]
               b == Row(v)[y]
    <3>1. a = b /\ a \in Int /\ (x < y => a < b) /\ (y < x => b < a)
      BY <2>1, <2>2, <2>3
    <3> HIDE DEF a, b
    <3> QED BY ONLY <3>1
  <2>5. x \in Int /\ y \in Int
    BY <1>2
  <2> QED BY ONLY <2>4, <2>5
<1>10. Row(v) \in Surjection(1 .. n, near)
  <2>1. Cardinality(1 .. n) = Cardinality(near)
    BY <1>2, FS_Interval DEF n
  <2> QED BY <1>1, <1>9, <2>1, FS_Injection
<1>11. \A w \in near : \E x \in 1 .. n : Row(v)[x] = w
  BY <1>10 DEF Surjection
<1>12. \A x \in 1 .. n : Row(v)[x] \in near
  BY <1>7
<1> QED BY <1>1, <1>2, <1>7, <1>8, <1>11, <1>12 DEF n, near

\* A node's edges follow those of the nodes before it.
LEMMA EdgesBeforeIs ==
  /\ EdgesBefore(0) = 0
  /\ \A v \in 0 .. NODES : EdgesBefore(v) \in Nat /\ EdgesBefore(v) <= EdgesBefore(NODES)
  /\ \A v \in Node : EdgesBefore(v + 1) = EdgesBefore(v) + Len(Row(v))
<1> DEFINE Edges(v) == {e \in Node \X Node : e[1] < v /\ adj[e]}
<1>0. IsFiniteSet(Node) /\ NODES \in Nat
  BY BfsAssumption, FS_Interval DEF Node
<1>1. IsFiniteSet(Node \X Node)
  BY <1>0, FS_Product
<1>2. \A v : IsFiniteSet(Edges(v)) /\ Cardinality(Edges(v)) \in Nat /\ EdgesBefore(v) = Cardinality(Edges(v))
  <2> SUFFICES ASSUME NEW v PROVE IsFiniteSet(Edges(v)) /\ Cardinality(Edges(v)) \in Nat /\ EdgesBefore(v) = Cardinality(Edges(v))
    OBVIOUS
  <2>1. Edges(v) \in SUBSET (Node \X Node)
    OBVIOUS
  <2>2. IsFiniteSet(Edges(v))
    BY <1>1, <2>1, FS_Subset
  <2> QED BY <2>2, FS_CardinalityType DEF EdgesBefore
<1>3. EdgesBefore(0) = 0
  <2>1. Edges(0) = {}
    BY <1>0 DEF Node
  <2> QED BY <1>2, <2>1, FS_EmptySet
<1>4. ASSUME NEW v \in Node
      PROVE  EdgesBefore(v + 1) = EdgesBefore(v) + Len(Row(v))
  <2> DEFINE near == Neighbours(v)
             own == {v} \X near
  <2>1. IsFiniteSet(near) /\ Cardinality(near) \in Nat /\ Len(Row(v)) = Cardinality(near) /\ near \subseteq Node
    BY RowIs DEF Neighbours
  <2>2. IsFiniteSet(own) /\ Cardinality(own) = Cardinality(near)
    <3>1. IsFiniteSet({v}) /\ Cardinality({v}) = 1
      BY FS_Singleton
    <3> HIDE DEF near
    <3>2. IsFiniteSet(own) /\ Cardinality(own) = Cardinality({v}) * Cardinality(near)
      BY <2>1, <3>1, FS_Product
    <3> QED BY <2>1, <3>1, <3>2
  <2>3. Edges(v + 1) = Edges(v) \cup own
    <3>1. \A u \in Node : u < v + 1 <=> (u < v \/ u = v)
      BY <1>0 DEF Node
    <3>2. \A e \in Node \X Node : e[1] \in Node /\ e = <<e[1], e[2]>> /\ e[2] \in Node
      OBVIOUS
    <3>3. \A e \in Node \X Node : e[1] = v => (adj[e] <=> e \in own)
      BY <3>2 DEF Neighbours
    <3>4. \A e \in own : e \in Node \X Node /\ e[1] = v
      BY <2>1
    <3> HIDE DEF own, near
    <3>5. \A e \in Node \X Node : e \in Edges(v + 1) <=> (e \in Edges(v) \/ e \in own)
      BY <3>1, <3>2, <3>3, <3>4
    <3> QED BY <3>4, <3>5
  <2>4. Edges(v) \cap own = {}
    <3>1. ~(v < v)
      BY <1>0 DEF Node
    <3> QED BY <3>1
  <2> HIDE DEF Edges, own, near
  <2>5. Cardinality(Edges(v + 1)) = Cardinality(Edges(v)) + Cardinality(own) - Cardinality({})
    BY <1>2, <2>2, <2>3, <2>4, FS_Union
  <2>6. Cardinality({}) = 0
    BY FS_EmptySet
  <2> QED BY <1>2, <2>1, <2>2, <2>5, <2>6
<1>5. ASSUME NEW v \in 0 .. NODES
      PROVE  EdgesBefore(v) <= EdgesBefore(NODES)
  <2>1. \A e \in Node \X Node : e[1] < NODES
    BY <1>0 DEF Node
  <2>2. Edges(v) \in SUBSET Edges(NODES)
    BY <2>1
  <2> HIDE DEF Edges
  <2> QED BY <1>2, <2>2, FS_Subset
<1> QED BY <1>2, <1>3, <1>4, <1>5

\* The parts of convert_to_exd's list.
LEMMA FourParts ==
  ASSUME NEW S, NEW p \in Seq(S), NEW e \in Seq(S), NEW a \in S, NEW b \in S, NEW c \in S
  PROVE  LET list == <<a>> \o p \o <<b, c>> \o e IN
         /\ list \in Seq(S) /\ Len(list) = 3 + Len(p) + Len(e) /\ list[1] = a /\ list[3 + Len(p)] = c
         /\ \A x \in 1 .. Len(p) : list[1 + x] = p[x]
         /\ \A x \in 1 .. Len(e) : list[3 + Len(p) + x] = e[x]
<1> DEFINE s == <<a>> \o p
           t == s \o <<b, c>>
           list == t \o e
<1>1. s \in Seq(S) /\ Len(s) = 1 + Len(p) /\ s[1] = a /\ \A x \in 1 .. Len(p) : s[1 + x] = p[x]
  OBVIOUS
<1>2. Len(p) \in Nat /\ Len(e) \in Nat
  OBVIOUS
<1> HIDE DEF s
<1>3. /\ t \in Seq(S) /\ Len(t) = Len(s) + 2 /\ t[Len(s) + 2] = c
      /\ \A x \in 1 .. Len(s) : t[x] = s[x]
  BY <1>1
<1> HIDE DEF t
<1>4. /\ list \in Seq(S) /\ Len(list) = Len(t) + Len(e)
      /\ \A x \in 1 .. Len(t) : list[x] = t[x]
      /\ \A x \in 1 .. Len(e) : list[Len(t) + x] = e[x]
  <2>1. /\ list \in Seq(S) /\ Len(list) = Len(t) + Len(e)
        /\ \A x \in 1 .. Len(t) + Len(e) : list[x] = IF x <= Len(t) THEN t[x] ELSE e[x - Len(t)]
    BY <1>3, Joined
  <2>2. Len(t) \in Nat
    BY <1>3
  <2> HIDE DEF list
  <2>3. \A x \in 1 .. Len(t) : x <= Len(t) /\ x \in 1 .. Len(t) + Len(e)
    BY <1>2, <2>2
  <2>4. \A x \in 1 .. Len(e) :
          ~(Len(t) + x <= Len(t)) /\ (Len(t) + x) - Len(t) = x /\ Len(t) + x \in 1 .. Len(t) + Len(e)
    BY <1>2, <2>2
  <2> QED BY <2>1, <2>3, <2>4
<1> HIDE DEF list
<1>5. Len(t) = 3 + Len(p) /\ Len(list) = 3 + Len(p) + Len(e)
  BY <1>1, <1>2, <1>3, <1>4
<1>6. list[1] = a /\ list[3 + Len(p)] = c
  <2>1. 1 \in 1 .. Len(s) /\ 1 \in 1 .. Len(t) /\ 3 + Len(p) \in 1 .. Len(t) /\ Len(s) + 2 = 3 + Len(p)
    BY <1>1, <1>2, <1>5
  <2> QED BY <1>1, <1>3, <1>4, <2>1
<1>7. \A x \in 1 .. Len(p) : list[1 + x] = p[x]
  <2> SUFFICES ASSUME NEW x \in 1 .. Len(p) PROVE list[1 + x] = p[x]
    OBVIOUS
  <2>1. 1 + x \in 1 .. Len(s) /\ 1 + x \in 1 .. Len(t)
    BY <1>1, <1>2, <1>5
  <2> QED BY <1>1, <1>3, <1>4, <2>1
<1>8. \A x \in 1 .. Len(e) : list[3 + Len(p) + x] = e[x]
  BY <1>4, <1>5
<1> QED BY <1>4, <1>5, <1>6, <1>7, <1>8 DEF list, t, s

\* The numbers of the list, before it is written.
Starts == [k \in 1 .. NODES |-> <<EdgesBefore(k - 1), Len(Row(k - 1))>>]
Targets(k) == [i \in 1 .. Len(Row(k - 1)) |-> <<Row(k - 1)[i], 1>>]
Lists == [k \in 1 .. NODES |-> FlattenSeq(Targets(k))]

\* Where its numbers are in the list.
LEMMA StartsAre ==
  LET p == FlattenSeq(Starts) IN
  /\ p \in Seq(Int) /\ Len(p) = 2 * NODES
  /\ \A v \in Node : p[2 * (v + 1) - 1] = EdgesBefore(v) /\ p[2 * (v + 1)] = Len(Row(v))
<1>1. NODES \in Nat
  BY BfsAssumption
<1>2. \A k \in 1 .. NODES : k - 1 \in Node
  BY <1>1 DEF Node
<1>3. \A k \in 1 .. NODES : EdgesBefore(k - 1) \in Int /\ Len(Row(k - 1)) \in Int
  <2> SUFFICES ASSUME NEW k \in 1 .. NODES PROVE EdgesBefore(k - 1) \in Int /\ Len(Row(k - 1)) \in Int
    OBVIOUS
  <2>1. k - 1 \in Node /\ k - 1 \in 0 .. NODES
    BY <1>1, <1>2
  <2> QED BY <2>1, EdgesBeforeIs, RowIs
<1>4. \A k \in 1 .. NODES : Starts[k] = <<EdgesBefore(k - 1), Len(Row(k - 1))>>
  BY DEF Starts
<1>5. \A k \in 1 .. NODES :
        /\ Starts[k] \in Seq(Int) /\ Len(Starts[k]) = 2
        /\ Starts[k][1] = EdgesBefore(k - 1) /\ Starts[k][2] = Len(Row(k - 1))
  <2> SUFFICES ASSUME NEW k \in 1 .. NODES
               PROVE  /\ Starts[k] \in Seq(Int) /\ Len(Starts[k]) = 2
                      /\ Starts[k][1] = EdgesBefore(k - 1) /\ Starts[k][2] = Len(Row(k - 1))
    OBVIOUS
  <2> DEFINE a == EdgesBefore(k - 1)
             b == Len(Row(k - 1))
  <2>1. a \in Int /\ b \in Int /\ Starts[k] = <<a, b>>
    BY <1>3, <1>4
  <2> HIDE DEF a, b
  <2>2. Starts[k] \in Seq(Int) /\ Len(Starts[k]) = 2 /\ Starts[k][1] = a /\ Starts[k][2] = b
    BY <2>1
  <2> QED BY <2>2 DEF a, b
<1>6. Starts \in Seq(Seq(Int)) /\ Len(Starts) = NODES
  <2> DEFINE Q == Seq(Int)
  <2>1. Starts = [k \in 1 .. NODES |-> Starts[k]]
    BY DEF Starts
  <2>2. \A k \in 1 .. NODES : Starts[k] \in Q
    BY <1>5
  <2> HIDE DEF Q
  <2>3. Starts \in [1 .. NODES -> Q]
    BY <2>1, <2>2
  <2>4. Starts \in Seq(Q) /\ Len(Starts) = NODES
    BY <1>1, <2>3, FunctionIsList
  <2> QED BY <2>4 DEF Q
<1> DEFINE p == FlattenSeq(Starts)
<1>7. /\ p \in Seq(Int) /\ Len(p) = 2 * Len(Starts)
      /\ \A k \in 1 .. Len(Starts) : p[2 * k - 1] = Starts[k][1] /\ p[2 * k] = Starts[k][2]
  <2>1. \A k \in 1 .. Len(Starts) : Len(Starts[k]) = 2
    BY <1>5, <1>6
  <2> QED BY ONLY <1>6, <2>1, FlattenPairs
<1> HIDE DEF p
<1>8. ASSUME NEW v \in Node
      PROVE  p[2 * (v + 1) - 1] = EdgesBefore(v) /\ p[2 * (v + 1)] = Len(Row(v))
  <2> DEFINE k == v + 1
  <2>1. k \in 1 .. NODES /\ k - 1 = v
    BY <1>1 DEF Node
  <2> HIDE DEF k
  <2>2. p[2 * k - 1] = EdgesBefore(v) /\ p[2 * k] = Len(Row(v))
    BY <1>5, <1>6, <1>7, <2>1
  <2> QED BY <2>2 DEF k
<1> QED BY <1>6, <1>7, <1>8 DEF p

LEMMA TargetsAre ==
  ASSUME NEW v \in Node
  PROVE  LET t == FlattenSeq(Targets(v + 1)) IN
         /\ t \in Seq(Int) /\ Len(t) = 2 * Len(Row(v))
         /\ \A x \in 1 .. Len(Row(v)) : t[2 * x - 1] = Row(v)[x]
<1> DEFINE r == Row(v)
           n == Len(r)
           seqs == [i \in 1 .. n |-> <<r[i], 1>>]
<1>1. r \in Seq(Node) /\ n \in Nat
  BY RowIs
<1>2. Node \subseteq Int /\ (v + 1) - 1 = v
  BY BfsAssumption DEF Node
<1>3. Targets(v + 1) = seqs
  BY <1>2 DEF Targets
<1>4. \A i \in 1 .. n : r[i] \in Int
  <2> HIDE DEF r
  <2>1. \A i \in 1 .. n : r[i] \in Node
    BY <1>1
  <2> QED BY ONLY <1>2, <2>1
<1> HIDE DEF r, n
<1>5. \A i \in 1 .. n : seqs[i] \in Seq(Int) /\ Len(seqs[i]) = 2 /\ seqs[i][1] = r[i]
  <2> SUFFICES ASSUME NEW i \in 1 .. n PROVE seqs[i] \in Seq(Int) /\ Len(seqs[i]) = 2 /\ seqs[i][1] = r[i]
    OBVIOUS
  <2>1. seqs[i] = <<r[i], 1>> /\ r[i] \in Int
    BY <1>4
  <2> HIDE DEF seqs
  <2> QED BY <2>1
<1>6. seqs \in Seq(Seq(Int)) /\ Len(seqs) = n
  <2> DEFINE Q == Seq(Int)
  <2>1. seqs = [i \in 1 .. n |-> seqs[i]]
    OBVIOUS
  <2>2. \A i \in 1 .. n : seqs[i] \in Q
    BY <1>5
  <2> HIDE DEF Q, seqs
  <2>3. seqs \in [1 .. n -> Q]
    BY <2>1, <2>2
  <2>4. seqs \in Seq(Q) /\ Len(seqs) = n
    BY <1>1, <2>3, FunctionIsList
  <2> QED BY <2>4 DEF Q
<1> HIDE DEF seqs
<1> DEFINE t == FlattenSeq(seqs)
<1>7. /\ t \in Seq(Int) /\ Len(t) = 2 * Len(seqs)
      /\ \A k \in 1 .. Len(seqs) : t[2 * k - 1] = seqs[k][1] /\ t[2 * k] = seqs[k][2]
  <2>1. \A k \in 1 .. Len(seqs) : Len(seqs[k]) = 2
    BY <1>5, <1>6
  <2> QED BY ONLY <1>6, <2>1, FlattenPairs
<1> HIDE DEF t
<1>8. t \in Seq(Int) /\ Len(t) = 2 * n /\ \A x \in 1 .. n : t[2 * x - 1] = r[x]
  BY <1>5, <1>6, <1>7
<1>9. FlattenSeq(Targets(v + 1)) = t
  BY <1>3 DEF t, seqs
<1> QED BY <1>8, <1>9 DEF r, n

LEMMA ListsAre ==
  LET e == FlattenSeq(Lists) IN
  /\ e \in Seq(Int) /\ Len(e) = 2 * EdgesBefore(NODES)
  /\ \A v \in Node : \A x \in 1 .. Len(Row(v)) : e[2 * (EdgesBefore(v) + x - 1) + 1] = Row(v)[x]
<1> DEFINE off == [k \in 0 .. NODES |-> 2 * EdgesBefore(k)]
           e == FlattenSeq(Lists)
<1>1. NODES \in Nat /\ (\A k \in 1 .. NODES : k - 1 \in Node /\ (k - 1) + 1 = k /\ k - 1 \in 0 .. NODES)
      /\ \A v \in Node : v + 1 \in 1 .. NODES /\ (v + 1) - 1 = v /\ v \in 0 .. NODES
  BY BfsAssumption DEF Node
<1>2. \A k \in 1 .. NODES : Lists[k] = FlattenSeq(Targets(k))
  BY DEF Lists
<1>3. \A v \in Node :
        /\ Lists[v + 1] \in Seq(Int) /\ Len(Lists[v + 1]) = 2 * Len(Row(v))
        /\ \A x \in 1 .. Len(Row(v)) : Lists[v + 1][2 * x - 1] = Row(v)[x]
  BY <1>1, <1>2, TargetsAre
<1>4. Lists \in Seq(Seq(Int)) /\ Len(Lists) = NODES
  <2> DEFINE Q == Seq(Int)
  <2>1. Lists = [k \in 1 .. NODES |-> Lists[k]]
    BY DEF Lists
  <2>2. \A k \in 1 .. NODES : Lists[k] \in Q
    <3> SUFFICES ASSUME NEW k \in 1 .. NODES PROVE Lists[k] \in Q
      OBVIOUS
    <3>1. Lists[(k - 1) + 1] \in Q
      BY <1>1, <1>3
    <3> QED BY <1>1, <3>1
  <2> HIDE DEF Q
  <2>3. Lists \in [1 .. NODES -> Q]
    BY <2>1, <2>2
  <2>4. Lists \in Seq(Q) /\ Len(Lists) = NODES
    BY <1>1, <2>3, FunctionIsList
  <2> QED BY <2>4 DEF Q
<1>5. /\ EdgesBefore(0) = 0 /\ \A v \in 0 .. NODES : EdgesBefore(v) \in Nat
      /\ \A v \in Node : EdgesBefore(v + 1) = EdgesBefore(v) + Len(Row(v))
  BY EdgesBeforeIs
<1>6. \A k \in 0 .. NODES : off[k] = 2 * EdgesBefore(k)
  OBVIOUS
<1>7. off \in [0 .. NODES -> Nat] /\ off[0] = 0
  BY <1>1, <1>5
<1> HIDE DEF off
<1>8. \A k \in 1 .. NODES : off[k] = off[k - 1] + Len(Lists[k])
  <2> SUFFICES ASSUME NEW k \in 1 .. NODES PROVE off[k] = off[k - 1] + Len(Lists[k])
    OBVIOUS
  <2> DEFINE v == k - 1
  <2>1. v \in Node /\ v + 1 = k /\ v \in 0 .. NODES /\ k \in 0 .. NODES
    BY <1>1
  <2> HIDE DEF v
  <2>2. EdgesBefore(k) = EdgesBefore(v) + Len(Row(v)) /\ EdgesBefore(v) \in Nat /\ Len(Row(v)) \in Nat
    BY <1>5, <2>1, RowIs
  <2>3. Len(Lists[k]) = 2 * Len(Row(v))
    BY <1>3, <2>1
  <2>4. off[k] = 2 * EdgesBefore(k) /\ off[v] = 2 * EdgesBefore(v)
    BY <1>6, <2>1
  <2>5. off[k] = off[v] + Len(Lists[k])
    BY <2>2, <2>3, <2>4
  <2> QED BY <2>5 DEF v
<1>9. /\ e \in Seq(Int) /\ Len(e) = off[Len(Lists)]
      /\ \A k \in 1 .. Len(Lists) : \A x \in 1 .. Len(Lists[k]) : e[off[k - 1] + x] = Lists[k][x]
  <2>1. /\ off \in [0 .. Len(Lists) -> Nat] /\ off[0] = 0
        /\ \A k \in 1 .. Len(Lists) : off[k] = off[k - 1] + Len(Lists[k])
    BY <1>4, <1>7, <1>8
  <2>2. LaidOut(Int, e, Lists, off)
    <3>1. e = FlattenSeq(Lists)
      OBVIOUS
    <3> HIDE DEF e
    <3>2. LaidOut(Int, FlattenSeq(Lists), Lists, off)
      <4> DEFINE Z == Int
      <4>1. Lists \in Seq(Seq(Z))
        BY <1>4
      <4> HIDE DEF Z
      <4>2. LaidOut(Z, FlattenSeq(Lists), Lists, off)
        BY ONLY <2>1, <4>1, FlattenPlaces
      <4> QED BY <4>2 DEF Z
    <3> QED BY <3>1, <3>2
  <2> QED BY <2>2 DEF LaidOut
<1> HIDE DEF e
<1>10. ASSUME NEW v \in Node, NEW x \in 1 .. Len(Row(v))
       PROVE  e[2 * (EdgesBefore(v) + x - 1) + 1] = Row(v)[x]
  <2>1. v + 1 \in 1 .. Len(Lists) /\ (v + 1) - 1 = v /\ EdgesBefore(v) \in Nat /\ Len(Row(v)) \in Nat
        /\ off[v] = 2 * EdgesBefore(v)
    BY <1>1, <1>4, <1>5, <1>6, RowIs
  <2>2. 2 * x - 1 \in 1 .. Len(Lists[v + 1]) /\ Lists[v + 1][2 * x - 1] = Row(v)[x]
    BY <1>3, <2>1
  <2>3. e[off[v] + (2 * x - 1)] = Row(v)[x]
    BY <1>9, <2>1, <2>2
  <2>4. off[v] + (2 * x - 1) = 2 * (EdgesBefore(v) + x - 1) + 1
    BY <2>1
  <2> QED BY <2>3, <2>4
<1>11. Len(e) = 2 * EdgesBefore(NODES)
  BY <1>1, <1>4, <1>6, <1>9
<1> QED BY <1>9, <1>10, <1>11 DEF e

\* The service and the client's own search read the client's graph from the list.
LEMMA GraphRead ==
  LET g == LoadGraph(Exd) IN
  /\ Len(Exd) \in Nat /\ NODES <= Len(Exd)
  /\ \A v \in Node : EdgesOf(g, v) \subseteq Nat
  /\ \A v, w \in Node : adj[<<v, w>>] <=> \E i \in EdgesOf(g, v) : g.edges[i] = w
  /\ \A v \in Node : \A i \in EdgesOf(g, v) : g.edges[i] \in Node
<1> DEFINE N == NODES
           p == FlattenSeq(Starts)
           e == FlattenSeq(Lists)
           B == EdgesBefore(N)
           g == LoadGraph(Exd)
<1>1. N \in Nat \ {0} /\ B \in Nat
  BY BfsAssumption, EdgesBeforeIs
<1>2. Exd = <<N>> \o p \o <<0, B>> \o e
  BY DEF Exd, Starts, Lists, Targets
<1>3. p \in Seq(Int) /\ Len(p) = 2 * N /\ e \in Seq(Int) /\ Len(e) = 2 * B
  BY StartsAre, ListsAre
<1>4. /\ \A v \in Node : p[2 * (v + 1) - 1] = EdgesBefore(v) /\ p[2 * (v + 1)] = Len(Row(v))
      /\ \A v \in Node : \A x \in 1 .. Len(Row(v)) : e[2 * (EdgesBefore(v) + x - 1) + 1] = Row(v)[x]
  BY StartsAre, ListsAre
<1> HIDE DEF p, e, B
<1>5. /\ Len(Exd) = 3 + Len(p) + Len(e) /\ Exd[1] = N /\ Exd[3 + Len(p)] = B
      /\ \A x \in 1 .. Len(p) : Exd[1 + x] = p[x]
      /\ \A x \in 1 .. Len(e) : Exd[3 + Len(p) + x] = e[x]
  <2>1. N \in Int /\ B \in Int /\ 0 \in Int
    BY <1>1
  <2> DEFINE list == <<N>> \o p \o <<0, B>> \o e
  <2>2. /\ Len(list) = 3 + Len(p) + Len(e) /\ list[1] = N /\ list[3 + Len(p)] = B
        /\ \A x \in 1 .. Len(p) : list[1 + x] = p[x]
        /\ \A x \in 1 .. Len(e) : list[3 + Len(p) + x] = e[x]
    <3> DEFINE Z == Int
               z == 0
    <3> HIDE DEF Z, z
    <3>1. N \in Z /\ B \in Z /\ z \in Z /\ p \in Seq(Z) /\ e \in Seq(Z)
      BY <1>3, <2>1 DEF Z, z
    <3> DEFINE same == <<N>> \o p \o <<z, B>> \o e
    <3>2. /\ Len(same) = 3 + Len(p) + Len(e) /\ same[1] = N /\ same[3 + Len(p)] = B
          /\ \A x \in 1 .. Len(p) : same[1 + x] = p[x]
          /\ \A x \in 1 .. Len(e) : same[3 + Len(p) + x] = e[x]
      BY ONLY <3>1, FourParts
    <3>3. same = list
      BY DEF z
    <3> HIDE DEF same
    <3> QED BY <3>2, <3>3
  <2>3. Exd = list
    BY <1>2
  <2> HIDE DEF list
  <2> QED BY <2>2, <2>3
<1>6. \A v \in Node : Exd[2 + 2 * v] = EdgesBefore(v) /\ Exd[3 + 2 * v] = Len(Row(v))
  <2> SUFFICES ASSUME NEW v \in Node PROVE Exd[2 + 2 * v] = EdgesBefore(v) /\ Exd[3 + 2 * v] = Len(Row(v))
    OBVIOUS
  <2>1. /\ 2 * (v + 1) - 1 \in 1 .. Len(p) /\ 2 * (v + 1) \in 1 .. Len(p)
        /\ 1 + (2 * (v + 1) - 1) = 2 + 2 * v /\ 1 + 2 * (v + 1) = 3 + 2 * v
    BY <1>1, <1>3 DEF Node
  <2> QED BY <1>4, <1>5, <2>1
<1>7. \A i \in 0 .. B - 1 : Exd[4 + 2 * N + 2 * i] = e[2 * i + 1]
  <2> SUFFICES ASSUME NEW i \in 0 .. B - 1 PROVE Exd[4 + 2 * N + 2 * i] = e[2 * i + 1]
    OBVIOUS
  <2>1. 2 * i + 1 \in 1 .. Len(e) /\ 3 + Len(p) + (2 * i + 1) = 4 + 2 * N + 2 * i
    BY <1>1, <1>3
  <2> QED BY <1>5, <2>1
<1>8. Exd[3 + 2 * N] = B
  BY <1>3, <1>5
<1> HIDE DEF g
<1>9. /\ g.nodes = [v \in 0 .. N - 1 |-> [starting |-> Exd[2 + 2 * v], no_of_edges |-> Exd[3 + 2 * v]]]
      /\ g.edges = [i \in 0 .. B - 1 |-> Exd[4 + 2 * N + 2 * i]]
  <2> DEFINE data == Exd
  <2> HIDE DEF data
  <2>1. data[1] = N /\ data[3 + 2 * N] = B
    BY <1>5, <1>8 DEF data
  <2>2. LoadGraph(data).nodes = [v \in 0 .. N - 1 |-> [starting |-> data[2 + 2 * v], no_of_edges |-> data[3 + 2 * v]]]
    BY <2>1 DEF LoadGraph
  <2>3. LoadGraph(data).edges = [i \in 0 .. B - 1 |-> data[4 + 2 * N + 2 * i]]
    BY <2>1 DEF LoadGraph
  <2> QED BY <2>2, <2>3 DEF data, g
<1>10. \A v \in Node : g.nodes[v].starting = EdgesBefore(v) /\ g.nodes[v].no_of_edges = Len(Row(v))
  BY <1>6, <1>9 DEF Node
<1>11. \A i \in 0 .. B - 1 : g.edges[i] = e[2 * i + 1]
  BY <1>7, <1>9
<1>12. ASSUME NEW v \in Node
       PROVE  LET from == EdgesBefore(v) n == Len(Row(v)) IN
              /\ from \in Nat /\ n \in Nat /\ EdgesOf(g, v) = from .. from + n - 1
              /\ \A i \in from .. from + n - 1 : i - from + 1 \in 1 .. n /\ g.edges[i] = Row(v)[i - from + 1]
              /\ \A x \in 1 .. n : from + x - 1 \in from .. from + n - 1 /\ g.edges[from + x - 1] = Row(v)[x]
  <2> DEFINE from == EdgesBefore(v)
             n == Len(Row(v))
  <2>1. from \in Nat /\ n \in Nat /\ from + n <= B
    <3>1. v \in 0 .. N /\ v + 1 \in 0 .. N
      BY <1>1 DEF Node
    <3>2. EdgesBefore(v + 1) = from + n /\ EdgesBefore(v + 1) <= B /\ from \in Nat
      BY <3>1, EdgesBeforeIs DEF B
    <3> QED BY <3>2, RowIs
  <2>2. EdgesOf(g, v) = from .. from + n - 1
    BY <1>10 DEF EdgesOf
  <2>3. \A x \in 1 .. n : e[2 * (from + x - 1) + 1] = Row(v)[x]
    BY <1>4
  <2> HIDE DEF from, n
  <2>4. ASSUME NEW x \in 1 .. n
        PROVE  from + x - 1 \in from .. from + n - 1 /\ g.edges[from + x - 1] = Row(v)[x]
    <3>1. from + x - 1 \in 0 .. B - 1 /\ from + x - 1 \in from .. from + n - 1
      BY <1>1, <2>1
    <3> QED BY <1>11, <2>3, <3>1
  <2>5. ASSUME NEW i \in from .. from + n - 1
        PROVE  i - from + 1 \in 1 .. n /\ g.edges[i] = Row(v)[i - from + 1]
    <3>1. i - from + 1 \in 1 .. n /\ from + (i - from + 1) - 1 = i
      BY <2>1
    <3> QED BY <2>4, <3>1
  <2> QED BY <2>1, <2>2, <2>4, <2>5 DEF from, n
<1>13. \A v \in Node : EdgesOf(g, v) \subseteq Nat
  BY <1>12
<1>14. ASSUME NEW v \in Node, NEW w \in Node
       PROVE  adj[<<v, w>>] <=> \E i \in EdgesOf(g, v) : g.edges[i] = w
  <2> DEFINE from == EdgesBefore(v)
             n == Len(Row(v))
  <2>1. adj[<<v, w>>] <=> \E x \in 1 .. n : Row(v)[x] = w
    <3>1. adj[<<v, w>>] <=> w \in Neighbours(v)
      BY DEF Neighbours
    <3> QED BY <3>1, RowIs
  <2>2. (\E x \in 1 .. n : Row(v)[x] = w) <=> \E i \in from .. from + n - 1 : g.edges[i] = w
    <3>1. /\ \A i \in from .. from + n - 1 : i - from + 1 \in 1 .. n /\ g.edges[i] = Row(v)[i - from + 1]
          /\ \A x \in 1 .. n : from + x - 1 \in from .. from + n - 1 /\ g.edges[from + x - 1] = Row(v)[x]
      BY <1>12
    <3> HIDE DEF from, n
    <3>2. ASSUME NEW x \in 1 .. n, Row(v)[x] = w
          PROVE  \E i \in from .. from + n - 1 : g.edges[i] = w
      BY <3>1, <3>2
    <3>3. ASSUME NEW i \in from .. from + n - 1, g.edges[i] = w
          PROVE  \E x \in 1 .. n : Row(v)[x] = w
      BY <3>1, <3>3
    <3> QED BY <3>2, <3>3
  <2> QED BY <1>12, <2>1, <2>2
<1>15. ASSUME NEW v \in Node, NEW i \in EdgesOf(g, v)
       PROVE  g.edges[i] \in Node
  <2> DEFINE x == i - EdgesBefore(v) + 1
             r == Row(v)
  <2>1. g.edges[i] = r[x] /\ x \in 1 .. Len(r)
    BY <1>12
  <2>2. r \in Seq(Node)
    BY RowIs
  <2> HIDE DEF x, r
  <2> QED BY <2>1, <2>2
<1>16. Len(Exd) \in Nat /\ N <= Len(Exd)
  BY <1>1, <1>3, <1>5
<1> QED BY <1>13, <1>14, <1>15, <1>16 DEF g

\* The nodes that a search starts from in round r, and a set as the masks have it.
Frontier(r) == IF r = 0 THEN {0} ELSE Within[r] \ Within[r - 1]
Marks(S) == [v \in Node |-> IF v \in S THEN 1 ELSE 0]

\* The costs after r rounds.
Costs(r) == [v \in Node |-> IF v \in Within[r] THEN Distance(v) ELSE - 1]

\* What the work items of BFS_1 have updated so far in round r.
Reached(r) ==
  {w \in Node \ Within[r] : \E v \in Node :
     bfsItem[v] = "edges" /\ \E i \in EdgesOf(graph, v) \ left[v] : graph.edges[i] = w}

HeadInv(r) ==
  /\ visited = Marks(Within[r]) /\ mask = Marks(Frontier(r)) /\ updating = Marks({})
  /\ cost = Costs(r) /\ left = [v \in Node |-> {}]

Bfs1Inv(r) ==
  /\ visited = Marks(Within[r])
  /\ \A v \in Node :
       /\ bfsItem[v] = "start" => mask[v] = Marks(Frontier(r))[v] /\ left[v] = {}
       /\ bfsItem[v] = "edges" => v \in Frontier(r) /\ mask[v] = 0 /\ left[v] \subseteq EdgesOf(graph, v)
       /\ bfsItem[v] = "done" => v \notin Frontier(r) /\ mask[v] = 0 /\ left[v] = {}
  /\ updating = Marks(Reached(r))
  /\ cost = [w \in Node |-> IF w \in Reached(r) THEN r + 1 ELSE Costs(r)[w]]

\* BFS_2 hands the updates of the round over to the masks.
Bfs2Inv(r) ==
  LET new == Marks(Within[r + 1] \ Within[r]) IN
  /\ cost = Costs(r + 1) /\ left = [v \in Node |-> {}]
  /\ \A v \in Node :
       /\ bfsItem[v] \in {"start", "done"}
       /\ bfsItem[v] = "start" => updating[v] = new[v] /\ mask[v] = 0 /\ visited[v] = Marks(Within[r])[v]
       /\ bfsItem[v] = "done" => updating[v] = 0 /\ mask[v] = new[v] /\ visited[v] = Marks(Within[r + 1])[v]
  /\ (\E v \in Node : bfsItem[v] = "done" /\ new[v] = 1) => over = 1

\* A round finds at least one node that no earlier one has found.
RoundInv(r) ==
  /\ Cardinality(Within[r]) > r
  /\ bfsPc = "head" => HeadInv(r)
  /\ bfsPc = "bfs1" => Bfs1Inv(r)
  /\ bfsPc = "bfs2" => Bfs2Inv(r)

\* When d_over is not cleared, rounds go on after the last one and change nothing.
Settled ==
  /\ visited = Marks(Within[NODES]) /\ mask = Marks({}) /\ updating = Marks({})
  /\ cost = Costs(NODES) /\ left = [v \in Node |-> {}]
  /\ \A v \in Node : bfsItem[v] # "edges"

\* The loop is left, perhaps too early, because d_over could not be read.
CopyInv ==
  /\ \A v \in Node :
       /\ cost[v] \in {- 1, Distance(v)}
       /\ mask[v] = 1 => visited[v] = 1 /\ cost[v] = Distance(v)
  /\ failed \subseteq {"clear"} => cost = Costs(NODES)

\* The graph reaches the service, and the client has its distances.
DataInv ==
  /\ bfsItem \in [Node -> {"start", "edges", "done"}] /\ left \in [Node -> SUBSET Int]
  /\ bfsPc \in {"generate", "convert", "cpu", "load"} => left = [v \in Node |-> {}]
  /\ bfsPc \in {"cpu", "load", "head", "bfs1", "bfs2", "copy"} => bfsSlot = Exd
  /\ bfsPc \in {"head", "bfs1", "bfs2", "copy"} => graph = LoadGraph(Exd)
  /\ bfsPc \in {"load", "head", "bfs1", "bfs2", "copy", "compare"} => cpuCost = Costs(NODES)

\* What holds while every array of the service was written.
SearchInv ==
  /\ BfsTypeOK /\ DataInv
  /\ bfsPc \in {"head", "bfs1", "bfs2"} => Settled \/ \E r \in 0 .. NODES - 1 : RoundInv(r)
  /\ bfsPc = "copy" => CopyInv
  /\ bfsPc = "compare" =>
       \A v \in Node : /\ bfsSlot[v + 1] \in {- 1, Distance(v)}
                       /\ failed \subseteq {"clear"} => bfsSlot[v + 1] = Costs(NODES)[v]

\* A node and its neighbours.
Grown(S) == S \cup {w \in Node : \E v \in S : adj[<<v, w>>]}

\* The nodes in reach, round by round.
LEMMA WithinIs ==
  /\ Within \in [0 .. NODES -> SUBSET Node] /\ Within[0] = {0}
  /\ \A k \in 1 .. NODES : Within[k] = Grown(Within[k - 1])
<1> DEFINE Q == SUBSET Node
           Describes(b) == b = [k \in 0 .. NODES |-> IF k = 0 THEN {0} ELSE Grown(b[k - 1])]
           step == [x \in Nat \X Q |-> Grown(x[2])]
<1>1. NODES \in Nat \ {0}
  BY BfsAssumption
<1>2. Within = CHOOSE b : Describes(b)
  BY DEF Within, Grown
<1>3. \A S \in Q : Grown(S) \in Q
  BY DEF Grown
<1>4. {0} \in Q
  BY <1>1 DEF Node
<1> HIDE DEF Q
<1>5. step \in Steps(Q) /\ \A n \in Nat, S \in Q : step[<<n, S>>] = Grown(S)
  BY <1>3 DEF Steps
<1> HIDE DEF step
<1>6. PICK f : Follows(f, Q, {0}, step, NODES)
  BY <1>1, <1>4, <1>5, RecursionExists
<1>7. /\ f \in [0 .. NODES -> Q] /\ f[0] = {0}
      /\ \A n \in 1 .. NODES : f[n] = step[<<n, f[n - 1]>>]
  BY <1>6 DEF Follows
<1>8. \A n \in 0 .. NODES : f[n] = IF n = 0 THEN {0} ELSE Grown(f[n - 1])
  <2> SUFFICES ASSUME NEW n \in 0 .. NODES, n # 0 PROVE f[n] = Grown(f[n - 1])
    BY <1>7
  <2>1. n \in 1 .. NODES /\ f[n - 1] \in Q /\ n \in Nat
    BY <1>1, <1>7
  <2> QED BY <1>5, <1>7, <2>1
<1>9. Describes(f)
  BY <1>7, <1>8
<1>10. Describes(Within)
  BY <1>2, <1>9
<1>11. Within[0] = {0} /\ \A n \in 1 .. NODES : Within[n] = Grown(Within[n - 1])
  <2> DEFINE W == Within
  <2>1. W = [k \in 0 .. NODES |-> IF k = 0 THEN {0} ELSE Grown(W[k - 1])]
    BY <1>10
  <2> HIDE DEF W
  <2> DEFINE e(n) == IF n = 0 THEN {0} ELSE Grown(W[n - 1])
  <2>2. \A n \in 0 .. NODES : W[n] = e(n)
    <3> HIDE DEF e
    <3>1. W = [k \in 0 .. NODES |-> e(k)]
      BY <2>1 DEF e
    <3> QED BY <3>1
  <2>3. 0 \in 0 .. NODES /\ \A n \in 1 .. NODES : n \in 0 .. NODES /\ n # 0
    BY <1>1
  <2>4. W[0] = {0} /\ \A n \in 1 .. NODES : W[n] = Grown(W[n - 1])
    BY <2>2, <2>3
  <2> QED BY <2>4 DEF W
<1>12. \A n \in 0 .. NODES : Within[n] \in Q
  <2> DEFINE T == {n \in 0 .. NODES : Within[n] \in Q}
  <2>1. 0 \in T
    BY <1>1, <1>4, <1>11
  <2>2. \A n \in 0 .. NODES - 1 : n \in T => n + 1 \in T
    <3> SUFFICES ASSUME NEW n \in 0 .. NODES - 1, n \in T PROVE n + 1 \in T
      OBVIOUS
    <3>1. n + 1 \in 1 .. NODES /\ (n + 1) - 1 = n /\ n + 1 \in 0 .. NODES
      BY <1>1
    <3>2. Within[n + 1] = Grown(Within[n])
      BY <1>11, <3>1
    <3> QED BY <1>3, <3>1, <3>2
  <2> HIDE DEF T
  <2>3. \A n \in 0 .. NODES : n \in T
    BY <1>1, <2>1, <2>2, BoundedInduction
  <2> QED BY <2>3 DEF T
<1>13. Within = [n \in 0 .. NODES |-> Within[n]]
  <2> DEFINE W == Within
             e(n) == IF n = 0 THEN {0} ELSE Grown(W[n - 1])
  <2>1. W = [n \in 0 .. NODES |-> e(n)]
    BY <1>10
  <2> HIDE DEF e
  <2>2. W = [n \in 0 .. NODES |-> W[n]]
    <3> HIDE DEF W
    <3> QED BY <2>1
  <2> QED BY <2>2
<1>14. Within \in [0 .. NODES -> Q]
  BY <1>12, <1>13
<1> QED BY <1>11, <1>14 DEF Q

LEMMA WithinGrows ==
  \A k \in 0 .. NODES : Within[k] \subseteq Node /\ \A j \in 0 .. k : Within[j] \subseteq Within[k]
<1> DEFINE T == {k \in 0 .. NODES : \A j \in 0 .. k : Within[j] \subseteq Within[k]}
<1>1. NODES \in Nat \ {0}
  BY BfsAssumption
<1>2. 0 \in T
  BY <1>1
<1>3. \A k \in 0 .. NODES - 1 : k \in T => k + 1 \in T
  <2> SUFFICES ASSUME NEW k \in 0 .. NODES - 1, k \in T PROVE k + 1 \in T
    OBVIOUS
  <2>1. k + 1 \in 1 .. NODES /\ (k + 1) - 1 = k /\ k + 1 \in 0 .. NODES
        /\ \A j \in 0 .. k + 1 : j \in 0 .. k \/ j = k + 1
    BY <1>1
  <2>2. Within[k] \subseteq Within[k + 1]
    BY <2>1, WithinIs DEF Grown
  <2> QED BY <2>1, <2>2
<1> HIDE DEF T
<1>4. \A k \in 0 .. NODES : k \in T
  BY <1>1, <1>2, <1>3, BoundedInduction
<1> QED BY <1>4, WithinIs DEF T

LEMMA DistanceIs ==
  ASSUME NEW d \in 0 .. NODES, NEW v \in Within[d], d > 0 => v \notin Within[d - 1]
  PROVE  Distance(v) = d
<1> DEFINE P(k) == v \in Within[k] /\ (k > 0 => v \notin Within[k - 1])
<1>1. NODES \in Nat \ {0}
  BY BfsAssumption
<1>2. v \in Within[NODES]
  BY <1>1, WithinGrows
<1>3. ASSUME NEW k \in 0 .. NODES, P(k) PROVE k = d
  <2>1. CASE k < d
    <3>1. d - 1 \in 0 .. NODES /\ k \in 0 .. d - 1
      BY <1>1, <2>1
    <3>2. Within[k] \subseteq Within[d - 1]
      BY <3>1, WithinGrows
    <3> QED BY <1>3, <2>1, <3>2
  <2>2. CASE d < k
    <3>1. k - 1 \in 0 .. NODES /\ d \in 0 .. k - 1
      BY <1>1, <2>2
    <3>2. Within[d] \subseteq Within[k - 1]
      BY <3>1, WithinGrows
    <3> QED BY <1>3, <2>2, <3>2
  <2> QED BY <1>1, <2>1, <2>2
<1>4. P(d)
  OBVIOUS
<1>5. Distance(v) = CHOOSE k \in 0 .. NODES : P(k)
  BY <1>2 DEF Distance
<1> HIDE DEF P
<1> QED BY <1>3, <1>4, <1>5

LEMMA DistanceWithin ==
  ASSUME NEW k \in 0 .. NODES, NEW v \in Within[k]
  PROVE  /\ Distance(v) \in 0 .. k /\ v \in Within[Distance(v)]
         /\ Distance(v) > 0 => v \notin Within[Distance(v) - 1]
<1> DEFINE T == {j \in 0 .. k : v \in Within[j]}
<1>1. NODES \in Nat /\ k \in Nat /\ k \in 0 .. k
  BY BfsAssumption
<1>2. PICK d \in T : \A j \in T : d <= j
  <2>1. T # {} /\ T \subseteq Nat
    BY <1>1
  <2> HIDE DEF T
  <2> QED BY <2>1, FirstPlace
<1>3. d \in 0 .. NODES /\ v \in Within[d] /\ d \in 0 .. k
  BY <1>1
<1>4. d > 0 => v \notin Within[d - 1]
  <2> SUFFICES ASSUME d > 0, v \in Within[d - 1] PROVE FALSE
    OBVIOUS
  <2>1. d - 1 \in T /\ ~(d <= d - 1)
    BY <1>1, <1>3
  <2> QED BY <1>2, <2>1
<1>5. Distance(v) = d
  BY <1>3, <1>4, DistanceIs
<1> QED BY <1>3, <1>4, <1>5

\* Who is not found in some round is not found in a later one.
LEMMA WithinFixed ==
  ASSUME NEW r \in 0 .. NODES - 1, Within[r + 1] = Within[r]
  PROVE  Within[NODES] = Within[r]
<1> DEFINE T == {n \in 0 .. NODES - r : Within[r + n] = Within[r]}
<1>1. NODES \in Nat \ {0} /\ NODES - r \in Nat /\ r \in Nat
  BY BfsAssumption
<1>2. 0 \in T
  BY <1>1
<1>3. \A n \in 0 .. (NODES - r) - 1 : n \in T => n + 1 \in T
  <2> SUFFICES ASSUME NEW n \in 0 .. (NODES - r) - 1, n \in T PROVE n + 1 \in T
    OBVIOUS
  <2>1. /\ r + (n + 1) \in 1 .. NODES /\ (r + (n + 1)) - 1 = r + n /\ n + 1 \in 0 .. NODES - r
        /\ r + 1 \in 1 .. NODES /\ (r + 1) - 1 = r
    BY <1>1
  <2>2. Within[r + (n + 1)] = Grown(Within[r + n]) /\ Within[r + 1] = Grown(Within[r])
    BY <2>1, WithinIs
  <2> QED BY <2>1, <2>2
<1> HIDE DEF T
<1>4. NODES - r \in T
  BY <1>1, <1>2, <1>3, BoundedInduction
<1>5. r + (NODES - r) = NODES
  BY <1>1
<1> QED BY <1>4, <1>5 DEF T

\* A round finds what has an edge from a node of the round before.
LEMMA FrontierStep ==
  ASSUME NEW r \in 0 .. NODES - 1, NEW w \in Node \ Within[r]
  PROVE  w \in Within[r + 1] <=> \E v \in Frontier(r) : adj[<<v, w>>]
<1>1. NODES \in Nat \ {0} /\ r \in Nat /\ r + 1 \in 1 .. NODES /\ (r + 1) - 1 = r
  BY BfsAssumption
<1>2. w \in Within[r + 1] <=> \E v \in Within[r] : adj[<<v, w>>]
  BY <1>1, WithinIs DEF Grown
<1>3. Frontier(r) \subseteq Within[r]
  BY <1>1, WithinIs DEF Frontier
<1>4. ASSUME NEW v \in Within[r], adj[<<v, w>>]
      PROVE  v \in Frontier(r)
  <2>1. CASE r = 0
    BY <2>1, WithinIs DEF Frontier
  <2>2. CASE r # 0
    <3> SUFFICES ASSUME v \in Within[r - 1] PROVE FALSE
      BY <2>2 DEF Frontier
    <3>1. r \in 1 .. NODES
      BY <1>1, <2>2
    <3>2. w \in Within[r]
      BY <1>4, <3>1, WithinIs DEF Grown
    <3> QED BY <3>2
  <2> QED BY <2>1, <2>2
<1> QED BY <1>2, <1>3, <1>4

LEMMA FrontierCosts ==
  ASSUME NEW r \in 0 .. NODES, NEW v \in Node
  PROVE  (v \in Frontier(r) <=> Costs(r)[v] = r) /\ (v \in Frontier(r) => v \in Within[r])
<1>1. NODES \in Nat \ {0} /\ r \in Nat /\ r # - 1
  BY BfsAssumption
<1>2. Frontier(r) \subseteq Within[r]
  BY <1>1, WithinIs DEF Frontier
<1>3. Costs(r)[v] = IF v \in Within[r] THEN Distance(v) ELSE - 1
  BY DEF Costs
<1>4. CASE v \notin Within[r]
  BY <1>1, <1>2, <1>3, <1>4
<1>5. CASE v \in Within[r]
  <2>1. CASE v \in Frontier(r)
    <3>1. r > 0 => v \notin Within[r - 1]
      BY <1>1, <2>1 DEF Frontier
    <3>2. Distance(v) = r
      BY <1>5, <3>1, DistanceIs
    <3> QED BY <1>3, <1>5, <2>1, <3>2
  <2>2. CASE v \notin Frontier(r)
    <3>1. r > 0 /\ v \in Within[r - 1]
      BY <1>1, <1>5, <2>2, WithinIs DEF Frontier
    <3>2. r - 1 \in 0 .. NODES
      BY <1>1, <3>1
    <3>3. Distance(v) \in 0 .. r - 1
      BY <3>1, <3>2, DistanceWithin
    <3> QED BY <1>1, <1>3, <1>5, <2>2, <3>3
  <2> QED BY <2>1, <2>2
<1> QED BY <1>4, <1>5

LEMMA CostsStep ==
  ASSUME NEW r \in 0 .. NODES - 1, NEW w \in Node
  PROVE  Costs(r + 1)[w] = IF w \in Within[r + 1] \ Within[r] THEN r + 1 ELSE Costs(r)[w]
<1>1. NODES \in Nat \ {0} /\ r \in Nat /\ r + 1 \in 0 .. NODES /\ (r + 1) - 1 = r /\ r \in 0 .. r + 1
  BY BfsAssumption
<1>2. Within[r] \subseteq Within[r + 1]
  BY <1>1, WithinGrows
<1>3. /\ Costs(r)[w] = IF w \in Within[r] THEN Distance(w) ELSE - 1
      /\ Costs(r + 1)[w] = IF w \in Within[r + 1] THEN Distance(w) ELSE - 1
  BY DEF Costs
<1>4. w \in Within[r + 1] \ Within[r] => Distance(w) = r + 1
  BY <1>1, DistanceIs
<1> QED BY <1>2, <1>3, <1>4

\* The client's own search finds the distances.
LEMMA CpuIsDistance == RunBfsCpu(LoadGraph(Exd)) = Costs(NODES)
<1> DEFINE g == LoadGraph(Exd)
           W == Within
           C == CpuRounds(g)
           Q == [Node -> - 1 .. NODES]
           first == [v \in Node |-> IF v = 0 THEN 0 ELSE - 1]
           Describes(b) == b = [k \in 0 .. NODES |-> IF k = 0 THEN first ELSE NextRound(g, b[k - 1], k)]
<1>1. NODES \in Nat \ {0} /\ 0 \in Node
  BY BfsAssumption DEF Node
<1>2. /\ \A v, w \in Node : adj[<<v, w>>] <=> \E i \in EdgesOf(g, v) : g.edges[i] = w
  BY GraphRead
<1>3. C = CHOOSE b : Describes(b)
  BY DEF CpuRounds
<1> HIDE DEF g
<1>4. \A k \in 1 .. NODES : NextRound(g, Costs(k - 1), k) = Costs(k)
  <2> SUFFICES ASSUME NEW k \in 1 .. NODES PROVE NextRound(g, Costs(k - 1), k) = Costs(k)
    OBVIOUS
  <2> DEFINE r == k - 1
             c == Costs(r)
             Finds(w) == \E v \in Node : c[v] = k - 1 /\ w \in {u \in Node : c[u] = - 1 /\ \E i \in EdgesOf(g, v) : g.edges[i] = u}
  <2>1. r \in 0 .. NODES - 1 /\ r + 1 = k /\ r \in 0 .. NODES /\ r \in Nat
    BY <1>1
  <2>2. NextRound(g, c, k) = [w \in Node |-> IF Finds(w) THEN k ELSE c[w]]
    BY DEF NextRound
  <2>3. Costs(k) = [w \in Node |-> Costs(k)[w]]
    BY DEF Costs
  <2>4. ASSUME NEW w \in Node PROVE (IF Finds(w) THEN k ELSE c[w]) = Costs(k)[w]
    <3>1. Costs(k)[w] = IF w \in Within[k] \ Within[r] THEN k ELSE c[w]
      <4>1. Costs(r + 1)[w] = IF w \in Within[r + 1] \ Within[r] THEN r + 1 ELSE Costs(r)[w]
        BY <2>1, CostsStep
      <4> QED BY <2>1, <4>1
    <3>2. c[w] = - 1 <=> w \notin Within[r]
      <4>1. c[w] = IF w \in Within[r] THEN Distance(w) ELSE - 1
        BY DEF Costs
      <4>2. w \in Within[r] => Distance(w) \in 0 .. r
        BY <2>1, DistanceWithin
      <4> QED BY <2>1, <4>1, <4>2
    <3>3. \A v \in Node : c[v] = k - 1 <=> v \in Frontier(r)
      BY <2>1, FrontierCosts
    <3>4. Frontier(r) \subseteq Node
      BY <1>1, <2>1, WithinIs DEF Frontier
    <3> HIDE DEF c, r
    <3>5. Finds(w) <=> w \notin Within[r] /\ \E v \in Frontier(r) : adj[<<v, w>>]
      BY <1>2, <3>2, <3>3, <3>4
    <3>6. w \notin Within[r] => (w \in Within[k] <=> \E v \in Frontier(r) : adj[<<v, w>>])
      <4>1. w \notin Within[r] => (w \in Within[r + 1] <=> \E v \in Frontier(r) : adj[<<v, w>>])
        BY <2>1, FrontierStep
      <4> QED BY <2>1, <4>1
    <3> QED BY <3>1, <3>5, <3>6
  <2> HIDE DEF Finds
  <2> QED BY <2>2, <2>3, <2>4
<1>5. Costs(0) = first
  <2>1. \A v \in Node : v \in Within[0] <=> v = 0
    BY WithinIs
  <2>2. Distance(0) = 0
    BY <1>1, WithinIs, DistanceIs
  <2> QED BY <2>1, <2>2 DEF Costs
<1> HIDE DEF first
<1> DEFINE f == [k \in 0 .. NODES |-> Costs(k)]
<1>6. Describes(f)
  <2> SUFFICES ASSUME NEW k \in 0 .. NODES PROVE Costs(k) = IF k = 0 THEN first ELSE NextRound(g, f[k - 1], k)
    OBVIOUS
  <2>1. k # 0 => k \in 1 .. NODES /\ k - 1 \in 0 .. NODES /\ f[k - 1] = Costs(k - 1)
    BY <1>1
  <2> HIDE DEF f
  <2> QED BY <1>4, <1>5, <2>1
<1>7. Describes(C)
  <2> HIDE DEF C, f
  <2> QED BY <1>3, <1>6
<1> HIDE DEF C
<1>8. C[0] = first /\ \A k \in 1 .. NODES : C[k] = NextRound(g, C[k - 1], k)
  BY <1>1, <1>7
<1> DEFINE T == {k \in 0 .. NODES : C[k] = Costs(k)}
<1>9. 0 \in T
  BY <1>1, <1>5, <1>8
<1>10. \A k \in 0 .. NODES - 1 : k \in T => k + 1 \in T
  <2> SUFFICES ASSUME NEW k \in 0 .. NODES - 1, k \in T PROVE k + 1 \in T
    OBVIOUS
  <2>1. k + 1 \in 1 .. NODES /\ (k + 1) - 1 = k /\ k + 1 \in 0 .. NODES
    BY <1>1
  <2>2. C[k + 1] = NextRound(g, C[k], k + 1) /\ NextRound(g, Costs(k), k + 1) = Costs(k + 1)
    BY <1>4, <1>8, <2>1
  <2> QED BY <2>1, <2>2
<1> HIDE DEF T
<1>11. NODES \in T
  BY <1>1, <1>9, <1>10, BoundedInduction
<1>12. C[NODES] = Costs(NODES)
  BY <1>11 DEF T
<1> QED BY <1>12 DEF RunBfsCpu, C, g

\* The client makes one graph.
LEMMA StillSearched ==
  ASSUME adj' = adj
  PROVE  /\ Exd' = Exd /\ Within' = Within /\ \A v : Distance(v)' = Distance(v)
         /\ \A r : Frontier(r)' = Frontier(r) /\ Costs(r)' = Costs(r)
<1>1. Exd' = Exd
  BY DEF Exd, EdgesBefore, Row, Neighbours
<1>2. Within' = Within
  BY DEF Within
<1>3. \A v : Distance(v)' = Distance(v)
  BY <1>2 DEF Distance
<1>4. \A r : Frontier(r)' = Frontier(r) /\ Costs(r)' = Costs(r)
  BY <1>2, <1>3 DEF Frontier, Costs
<1> QED BY <1>1, <1>2, <1>3, <1>4

\* A round that finds a node is not the last that there can be.
LEMMA MoreFound ==
  ASSUME NEW r \in 0 .. NODES - 1, Cardinality(Within[r]) > r, NEW w \in Within[r + 1] \ Within[r]
  PROVE  r + 1 \in 0 .. NODES - 1 /\ Cardinality(Within[r + 1]) > r + 1
<1>1. NODES \in Nat \ {0} /\ r \in Nat /\ r + 1 \in 0 .. NODES /\ r \in 0 .. r + 1 /\ r \in 0 .. NODES
  BY BfsAssumption
<1>2. IsFiniteSet(Node) /\ Cardinality(Node) = NODES
  BY <1>1, FS_Interval DEF Node
<1>3. Within[r] \in SUBSET Within[r + 1] /\ Within[r + 1] \in SUBSET Node
  BY <1>1, WithinGrows
<1> DEFINE a == Within[r]
           b == Within[r + 1]
<1>4. a \in SUBSET b /\ b \in SUBSET Node /\ w \in b /\ w \notin a /\ Cardinality(a) > r
  BY <1>3
<1> HIDE DEF a, b
<1>5. IsFiniteSet(b) /\ Cardinality(b) <= NODES /\ Cardinality(b) \in Nat
  BY <1>2, <1>4, FS_Subset, FS_CardinalityType
<1>6. IsFiniteSet(a) /\ Cardinality(a) <= Cardinality(b) /\ (Cardinality(b) = Cardinality(a) => b = a)
      /\ Cardinality(a) \in Nat
  BY <1>4, <1>5, FS_Subset, FS_CardinalityType
<1>7. Cardinality(a) < Cardinality(b)
  BY <1>4, <1>5, <1>6
<1>8. r + 1 < Cardinality(b) /\ r + 1 \in 0 .. NODES - 1
  BY ONLY <1>1, <1>4, <1>5, <1>6, <1>7
<1> QED BY <1>8 DEF b

LEMMA MarksType ==
  ASSUME NEW S
  PROVE  /\ Marks(S) \in [Node -> 0 .. 1] /\ \A v \in Node : Marks(S)[v] = IF v \in S THEN 1 ELSE 0
BY DEF Marks

\* Of the array of bools the kernels read bytes; the source is the first.
LEMMA BytesOfSource ==
  /\ Bytes([v \in Node |-> IF v = 0 THEN 1 ELSE 0]) = Marks({0})
  /\ Bytes([v \in Node |-> 0]) = Marks({})
<1> DEFINE h == [v \in Node |-> IF v = 0 THEN 1 ELSE 0]
           none == [v \in Node |-> 0]
<1>1. ASSUME NEW v \in Node
      PROVE  /\ (IF v % BOOLWIDTH = 0 THEN h[v \div BOOLWIDTH] ELSE 0) = IF v \in {0} THEN 1 ELSE 0
             /\ (IF v % BOOLWIDTH = 0 THEN none[v \div BOOLWIDTH] ELSE 0) = IF v \in {} THEN 1 ELSE 0
  <2>1. BOOLWIDTH \in Nat \ {0} /\ v \in Nat /\ v < NODES /\ NODES \in Nat
    BY BfsAssumption DEF Node
  <2> DEFINE d == v \div BOOLWIDTH
             m == v % BOOLWIDTH
  <2>2. d \in Nat /\ m \in 0 .. BOOLWIDTH - 1 /\ v = d * BOOLWIDTH + m
    BY <2>1, DivisionParts
  <2> HIDE DEF d, m
  <2>3. d <= d * BOOLWIDTH
    <3>1. d * 1 <= d * BOOLWIDTH
      BY <2>1, <2>2
    <3> QED BY <2>2, <3>1
  <2>4. d \in Node
    <3>1. d * BOOLWIDTH \in Nat
      BY <2>1, <2>2
    <3> QED BY <2>1, <2>2, <2>3, <3>1 DEF Node
  <2>5. m = 0 => (d = 0 <=> v = 0)
    <3>1. d = 0 => d * BOOLWIDTH = 0
      BY <2>1
    <3> QED BY <2>1, <2>2, <2>3, <3>1
  <2>6. (IF m = 0 THEN h[d] ELSE 0) = IF v \in {0} THEN 1 ELSE 0
    <3>1. v = 0 => m = 0
      <4>1. v = 0 => d * BOOLWIDTH = 0 /\ m = 0
        <5>1. d * BOOLWIDTH \in Nat
          BY <2>1, <2>2
        <5> QED BY <2>1, <2>2, <5>1
      <4> QED BY <4>1
    <3> QED BY <2>4, <2>5, <3>1
  <2>7. (IF m = 0 THEN none[d] ELSE 0) = IF v \in {} THEN 1 ELSE 0
    BY <2>4
  <2> QED BY <2>6, <2>7 DEF d, m
<1> QED BY <1>1 DEF Bytes, Marks

\* The graph, the client's distances and the types are kept, whatever fails.
LEMMA DataStep ==
  ASSUME BfsTypeOK, DataInv, [BfsNext]_bfsVars
  PROVE  BfsTypeOK' /\ DataInv'
<1>0. /\ mask \in [Node -> 0 .. 1] /\ updating \in [Node -> 0 .. 1] /\ visited \in [Node -> 0 .. 1]
      /\ cost \in [Node -> Int] /\ over \in 0 .. 1 /\ failed \subseteq Transfers
      /\ bfsItem \in [Node -> {"start", "edges", "done"}] /\ left \in [Node -> SUBSET Int]
  BY DEF BfsTypeOK, DataInv
<1>1. CASE GenerateAdjacencyMatrix
  <2>1. /\ bfsPc = "generate" /\ bfsPc' = "convert" /\ adj' \in [Node \X Node -> BOOLEAN]
        /\ UNCHANGED <<bfsSlot, cpuCost, graph, failed, mask, updating, visited, cost, over, bfsItem, left>>
    BY <1>1 DEF GenerateAdjacencyMatrix, Goes, device
  <2> QED BY <2>1 DEF BfsTypeOK, DataInv
<1>2. CASE ConvertToExd
  <2>1. /\ bfsPc = "convert" /\ (bfsPc' = "wild" \/ (bfsPc' = "cpu" /\ bfsSlot' = Exd))
        /\ UNCHANGED <<adj, cpuCost, graph, failed, mask, updating, visited, cost, over, bfsItem, left>>
    BY <1>2 DEF ConvertToExd, Goes, device
  <2> QED BY <2>1, StillSearched DEF BfsTypeOK, DataInv
<1>3. CASE BfsCpu
  <2>1. /\ bfsPc = "cpu" /\ bfsPc' = "load" /\ cpuCost' = RunBfsCpu(LoadGraph(bfsSlot))
        /\ UNCHANGED <<adj, bfsSlot, graph, failed, mask, updating, visited, cost, over, bfsItem, left>>
    BY <1>3 DEF BfsCpu, Goes, device
  <2>2. bfsSlot = Exd
    BY <2>1 DEF DataInv
  <2>3. cpuCost' = Costs(NODES)'
    BY <2>1, <2>2, CpuIsDistance, StillSearched
  <2> QED BY <2>1, <2>2, <2>3, StillSearched DEF BfsTypeOK, DataInv
<1>4. CASE BfsLaunch
  <2>1. /\ bfsPc = "load" /\ bfsPc' = "head" /\ graph' = LoadGraph(bfsSlot) /\ over' \in 0 .. 1
        /\ UNCHANGED <<adj, bfsSlot, cpuCost, bfsItem, left>>
    BY <1>4 DEF BfsLaunch, Goes
  <2>2. /\ mask' \in [Node -> 0 .. 1] /\ visited' \in [Node -> 0 .. 1] /\ updating' \in [Node -> 0 .. 1]
        /\ cost' \in [Node -> Int] /\ failed' \subseteq Transfers
    <3> DEFINE source == [v \in Node |-> IF v = 0 THEN 1 ELSE 0]
               none == [v \in Node |-> 0]
               fresh == [v \in Node |-> IF v = 0 THEN 0 ELSE - 1]
               bits(g) == [v \in Node |-> IF g = 0 THEN 0 ELSE 1]
               fill(g) == [v \in Node |-> g]
    <3>1. PICK unwritten \in SUBSET Arrays, g \in GARBAGE :
            /\ Fail(unwritten)
            /\ mask' = IF "mask" \in unwritten THEN bits(g) ELSE Bytes(source)
            /\ visited' = IF "visited" \in unwritten THEN bits(g) ELSE Bytes(source)
            /\ updating' = IF "updating" \in unwritten THEN bits(g) ELSE Bytes(none)
            /\ cost' = IF "cost" \in unwritten THEN fill(g) ELSE fresh
      BY <1>4 DEF BfsLaunch
    <3>2. Bytes(source) = Marks({0}) /\ Bytes(none) = Marks({})
      BY BytesOfSource
    <3>3. /\ Marks({0}) \in [Node -> 0 .. 1] /\ Marks({}) \in [Node -> 0 .. 1] /\ bits(g) \in [Node -> 0 .. 1]
          /\ fill(g) \in [Node -> Int] /\ fresh \in [Node -> Int]
      BY MarksType, BfsAssumption
    <3>4. failed' \subseteq Transfers
      BY <1>0, <3>1 DEF Fail, Transfers
    <3> HIDE DEF source, none, fresh, bits, fill
    <3> QED BY <3>1, <3>2, <3>3, <3>4
  <2> QED BY <1>0, <2>1, <2>2, StillSearched DEF BfsTypeOK, DataInv
<1>5. CASE RoundStarts
  <2>1. /\ bfsPc = "head" /\ bfsPc' = "bfs1" /\ bfsItem' = [v \in Node |-> "start"]
        /\ UNCHANGED <<adj, bfsSlot, cpuCost, graph, mask, updating, visited, cost, left>>
        /\ over' \in 0 .. 1 /\ failed' \subseteq Transfers
    BY <1>0, <1>5 DEF RoundStarts, Goes, Fail, Transfers
  <2> QED BY <1>0, <2>1, StillSearched DEF BfsTypeOK, DataInv
<1>6. ASSUME NEW v \in Node, Bfs1Tests(v) \/ Bfs1Edge(v) \/ Bfs2(v)
      PROVE  BfsTypeOK' /\ DataInv'
  <2>1. /\ UNCHANGED <<adj, bfsSlot, cpuCost, bfsPc, graph, failed>> /\ bfsPc \in {"bfs1", "bfs2"}
        /\ bfsPc = "bfs1" => graph = LoadGraph(Exd)
    BY <1>6 DEF Bfs1Tests, Bfs1Edge, Bfs2, InKernel, DataInv
  <2>2. /\ mask' \in [Node -> 0 .. 1] /\ visited' \in [Node -> 0 .. 1] /\ updating' \in [Node -> 0 .. 1]
        /\ over' \in 0 .. 1 /\ bfsItem' \in [Node -> {"start", "edges", "done"}]
    BY <1>0, <1>6 DEF Bfs1Tests, Bfs1Edge, Bfs2
  <2>3. cost' \in [Node -> Int]
    BY <1>0, <1>6 DEF Bfs1Tests, Bfs1Edge, Bfs2
  <2>4. left' \in [Node -> SUBSET Int]
    <3>1. CASE Bfs1Tests(v)
      <4>1. EdgesOf(graph, v) \in SUBSET Int
        BY <2>1, <3>1, GraphRead DEF Bfs1Tests, InKernel
      <4>2. left' = left \/ left' = [left EXCEPT ![v] = EdgesOf(graph, v)]
        BY <3>1 DEF Bfs1Tests
      <4> QED BY <1>0, <4>1, <4>2
    <3>2. CASE Bfs1Edge(v)
      <4>1. left[v] \ {NextEdge(v)} \in SUBSET Int /\ left' = [left EXCEPT ![v] = left[v] \ {NextEdge(v)}]
        BY <1>0, <3>2 DEF Bfs1Edge
      <4> QED BY <1>0, <4>1
    <3>3. CASE Bfs2(v)
      BY <1>0, <3>3 DEF Bfs2
    <3> QED BY <1>6, <3>1, <3>2, <3>3
  <2> QED BY <2>1, <2>2, <2>3, <2>4, StillSearched DEF BfsTypeOK, DataInv
<1>7. CASE Bfs1Ends
  <2>1. /\ bfsPc = "bfs1" /\ bfsPc' = "bfs2" /\ bfsItem' = [v \in Node |-> "start"]
        /\ UNCHANGED <<adj, bfsSlot, cpuCost, graph, failed, mask, updating, visited, cost, over, left>>
    BY <1>7 DEF Bfs1Ends, Goes
  <2> QED BY <1>0, <2>1, StillSearched DEF BfsTypeOK, DataInv
<1>8. CASE RoundEnds
  <2>1. /\ bfsPc = "bfs2" /\ bfsPc' \in {"head", "copy"} /\ failed' \subseteq Transfers
        /\ UNCHANGED <<adj, bfsSlot, cpuCost, graph, mask, updating, visited, cost, over, bfsItem, left>>
    BY <1>0, <1>8 DEF RoundEnds, Goes, device, Fail, Transfers
  <2> QED BY <1>0, <2>1, StillSearched DEF BfsTypeOK, DataInv
<1>9. CASE CopyBack
  <2>1. /\ bfsPc = "copy" /\ bfsPc' \in {"compare", "exited"} /\ failed' \subseteq Transfers
        /\ UNCHANGED <<adj, cpuCost, graph, mask, updating, visited, cost, over, bfsItem, left>>
    BY <1>0, <1>9 DEF CopyBack, Goes, device, Fail, Transfers
  <2> QED BY <1>0, <2>1, StillSearched DEF BfsTypeOK, DataInv
<1>10. CASE CompareResults \/ ClFails
  <2>1. /\ bfsPc' \in {"end", "exited", "wild"}
        /\ UNCHANGED <<adj, bfsSlot, cpuCost, graph, failed, mask, updating, visited, cost, over, bfsItem, left>>
    BY <1>10 DEF CompareResults, ClFails, Goes, device
  <2> QED BY <1>0, <2>1, StillSearched DEF BfsTypeOK, DataInv
<1>11. CASE UNCHANGED bfsVars
  <2>1. UNCHANGED <<adj, bfsSlot, cpuCost, bfsPc, graph, failed, mask, updating, visited, cost, over, bfsItem, left>>
    BY <1>11 DEF bfsVars, device
  <2> QED BY <2>1, StillSearched DEF BfsTypeOK, DataInv
<1> QED
  BY <1>1, <1>2, <1>3, <1>4, <1>5, <1>6, <1>7, <1>8, <1>9, <1>10, <1>11 DEF BfsNext, BfsStep

LEMMA BfsLaunchStep ==
  ASSUME SearchInv, BfsTypeOK', DataInv', BfsLaunch, Loaded'
  PROVE  SearchInv'
<1>0. /\ bfsPc = "load" /\ bfsPc' = "head" /\ UNCHANGED <<adj, bfsSlot, cpuCost, bfsItem, left>>
      /\ graph' = LoadGraph(bfsSlot) /\ BfsTypeOK /\ DataInv
      /\ mask' = Bytes([v \in Node |-> IF v = 0 THEN 1 ELSE 0])
      /\ visited' = Bytes([v \in Node |-> IF v = 0 THEN 1 ELSE 0])
      /\ updating' = Bytes([v \in Node |-> 0])
      /\ cost' = [v \in Node |-> IF v = 0 THEN 0 ELSE - 1]
  <2> DEFINE source == [v \in Node |-> IF v = 0 THEN 1 ELSE 0]
             none == [v \in Node |-> 0]
             fresh == [v \in Node |-> IF v = 0 THEN 0 ELSE - 1]
             bits(g) == [v \in Node |-> IF g = 0 THEN 0 ELSE 1]
             fill(g) == [v \in Node |-> g]
  <2>1. PICK unwritten \in SUBSET Arrays, g \in GARBAGE :
          /\ Fail(unwritten)
          /\ mask' = IF "mask" \in unwritten THEN bits(g) ELSE Bytes(source)
          /\ visited' = IF "visited" \in unwritten THEN bits(g) ELSE Bytes(source)
          /\ updating' = IF "updating" \in unwritten THEN bits(g) ELSE Bytes(none)
          /\ cost' = IF "cost" \in unwritten THEN fill(g) ELSE fresh
    BY DEF BfsLaunch
  <2>2. unwritten = {}
    BY <2>1 DEF Fail, Loaded
  <2> HIDE DEF source, none, fresh, bits, fill
  <2>3. mask' = Bytes(source) /\ visited' = Bytes(source) /\ updating' = Bytes(none) /\ cost' = fresh
    BY <2>1, <2>2
  <2> QED BY <2>3 DEF BfsLaunch, Goes, SearchInv, source, none, fresh
<1>1. /\ mask' = Marks({0}) /\ visited' = Marks({0}) /\ updating' = Marks({})
  BY <1>0, BytesOfSource
<1>2. Within[0] = {0} /\ Frontier(0) = {0} /\ 0 \in 0 .. NODES - 1 /\ NODES \in Nat \ {0}
  BY BfsAssumption, WithinIs DEF Frontier
<1>3. cost' = Costs(0)
  <2>1. \A v \in Node : v \in Within[0] <=> v = 0
    BY <1>2
  <2>2. Distance(0) = 0
    BY <1>2, DistanceIs
  <2> QED BY <1>0, <2>1, <2>2 DEF Costs
<1>4. RoundInv(0)'
  <2>1. Cardinality({0}) = 1
    BY FS_Singleton
  <2>2. left' = [v \in Node |-> {}]
    BY <1>0 DEF DataInv
  <2>3. HeadInv(0)'
    BY <1>0, <1>1, <1>2, <1>3, <2>2, StillSearched DEF HeadInv, Marks
  <2>4. Cardinality(Within[0])' > 0
    BY <1>0, <1>2, <2>1, StillSearched
  <2> QED BY <1>0, <2>3, <2>4 DEF RoundInv
<1> QED BY <1>0, <1>2, <1>4 DEF SearchInv

LEMMA RoundStartsStep ==
  ASSUME SearchInv, ~ Settled, BfsTypeOK', DataInv', RoundStarts
  PROVE  SearchInv'
<1>0. /\ bfsPc = "head" /\ bfsPc' = "bfs1" /\ bfsItem' = [v \in Node |-> "start"]
      /\ UNCHANGED <<adj, bfsSlot, cpuCost, graph, mask, updating, visited, cost, left>> /\ BfsTypeOK /\ DataInv
  BY DEF RoundStarts, Goes, SearchInv
<1>1. PICK r \in 0 .. NODES - 1 : RoundInv(r)
  BY <1>0 DEF SearchInv
<1>2. HeadInv(r) /\ Cardinality(Within[r]) > r
  BY <1>0, <1>1 DEF RoundInv
<1>3. Reached(r)' = {}
  BY <1>0 DEF Reached
<1>4. Bfs1Inv(r)'
  <2>1. visited' = Marks(Within[r])' /\ mask' = Marks(Frontier(r))' /\ updating' = Marks(Reached(r))'
    BY <1>0, <1>2, <1>3, StillSearched DEF HeadInv, Marks
  <2>2. cost' = [w \in Node |-> IF w \in Reached(r)' THEN r + 1 ELSE Costs(r)'[w]]
    <3>1. Costs(r) = [w \in Node |-> Costs(r)[w]]
      BY DEF Costs
    <3> QED BY <1>0, <1>2, <1>3, <3>1, StillSearched DEF HeadInv
  <2>3. \A v \in Node : bfsItem'[v] = "start" /\ left'[v] = {}
    BY <1>0, <1>2 DEF HeadInv
  <2> QED BY <1>0, <2>1, <2>2, <2>3 DEF Bfs1Inv
<1>5. RoundInv(r)'
  <2>1. Cardinality(Within[r])' > r
    BY <1>0, <1>2, StillSearched
  <2> QED BY <1>0, <1>4, <2>1 DEF RoundInv
<1> QED BY <1>0, <1>5 DEF SearchInv

\* When the search has settled its costs are the distances.
LEMMA SettledCopied ==
  ASSUME Settled', adj' = adj
  PROVE  CopyInv'
<1>1. \A v \in Node : Costs(NODES)[v] = Distance(v)
  BY DEF Costs, Distance
<1>2. mask' = Marks({}) /\ cost' = Costs(NODES) /\ Costs(NODES)' = Costs(NODES)
  BY StillSearched DEF Settled, Marks
<1>3. \A v \in Node : mask'[v] = 0 /\ cost'[v] = Distance(v)'
  BY <1>1, <1>2, MarksType, StillSearched
<1> QED BY <1>2, <1>3 DEF CopyInv

\* A round more changes nothing.
LEMMA SettledStep ==
  ASSUME SearchInv, Settled, BfsTypeOK', DataInv', bfsPc \in {"head", "bfs1", "bfs2"},
         \/ RoundStarts \/ Bfs1Ends \/ RoundEnds \/ \E v \in Node : Bfs1Tests(v) \/ Bfs1Edge(v) \/ Bfs2(v)
  PROVE  SearchInv'
<1>0. \A v \in Node : mask[v] = 0 /\ updating[v] = 0 /\ left[v] = {} /\ bfsItem[v] # "edges"
  BY DEF Settled, Marks
<1>1. bfsItem \in [Node -> {"start", "edges", "done"}]
  BY DEF SearchInv, DataInv
<1>2. /\ UNCHANGED <<adj, mask, updating, visited, cost, left>> /\ bfsPc' \in {"head", "bfs1", "bfs2", "copy"}
      /\ \A v \in Node : bfsItem'[v] # "edges"
  <2>1. CASE RoundStarts \/ Bfs1Ends \/ RoundEnds
    BY <1>0, <2>1 DEF RoundStarts, Bfs1Ends, RoundEnds, Goes, device
  <2>2. ASSUME NEW v \in Node, Bfs1Tests(v) \/ Bfs1Edge(v) \/ Bfs2(v)
        PROVE  /\ UNCHANGED <<adj, mask, updating, visited, cost, left, bfsPc>>
               /\ bfsItem' = [bfsItem EXCEPT ![v] = "done"]
    BY <1>0, <2>2 DEF Bfs1Tests, Bfs1Edge, Bfs2, InKernel
  <2>3. ASSUME NEW v \in Node, Bfs1Tests(v) \/ Bfs1Edge(v) \/ Bfs2(v)
        PROVE  \A u \in Node : bfsItem'[u] # "edges"
    BY <1>0, <1>1, <2>2, <2>3
  <2> QED BY <2>1, <2>2, <2>3
<1>3. Settled'
  BY <1>2, StillSearched DEF Settled, Marks
<1>4. CopyInv'
  BY <1>2, <1>3, SettledCopied
<1> QED BY <1>2, <1>3, <1>4 DEF SearchInv

\* What holds in a round of BFS_1.
LEMMA Bfs1Facts ==
  ASSUME SearchInv, bfsPc = "bfs1", NEW r \in 0 .. NODES - 1, RoundInv(r)
  PROVE  /\ BfsTypeOK /\ DataInv /\ Bfs1Inv(r) /\ Cardinality(Within[r]) > r
         /\ r \in Nat /\ r \in 0 .. NODES /\ NODES \in Nat
         /\ \A v \in Node : EdgesOf(graph, v) \subseteq Nat
         /\ \A v, w \in Node : adj[<<v, w>>] <=> \E i \in EdgesOf(graph, v) : graph.edges[i] = w
         /\ \A v \in Node : \A i \in EdgesOf(graph, v) : graph.edges[i] \in Node
         /\ Reached(r) \subseteq Within[r + 1] \ Within[r]
<1>1. BfsTypeOK /\ DataInv /\ Bfs1Inv(r) /\ Cardinality(Within[r]) > r
  BY DEF SearchInv, RoundInv
<1>2. r \in Nat /\ r \in 0 .. NODES /\ NODES \in Nat
  BY BfsAssumption
<1>3. graph = LoadGraph(Exd)
  BY <1>1 DEF DataInv
<1>4. /\ \A v \in Node : EdgesOf(graph, v) \subseteq Nat
      /\ \A v, w \in Node : adj[<<v, w>>] <=> \E i \in EdgesOf(graph, v) : graph.edges[i] = w
      /\ \A v \in Node : \A i \in EdgesOf(graph, v) : graph.edges[i] \in Node
  BY <1>3, GraphRead
<1>5. ASSUME NEW w \in Reached(r)
      PROVE  w \in Within[r + 1] \ Within[r]
  <2>1. w \in Node \ Within[r]
    BY DEF Reached
  <2>2. PICK v \in Node : bfsItem[v] = "edges" /\ \E i \in EdgesOf(graph, v) \ left[v] : graph.edges[i] = w
    BY DEF Reached
  <2>3. v \in Frontier(r) /\ adj[<<v, w>>]
    BY <1>1, <1>4, <2>1, <2>2 DEF Bfs1Inv
  <2> QED BY <2>1, <2>3, FrontierStep
<1> QED BY <1>1, <1>2, <1>4, <1>5

LEMMA Bfs1TestsStep ==
  ASSUME SearchInv, ~ Settled, BfsTypeOK', DataInv', NEW v \in Node, Bfs1Tests(v)
  PROVE  SearchInv'
<1>0. /\ bfsPc = "bfs1" /\ bfsItem[v] = "start" /\ bfsPc' = bfsPc
      /\ UNCHANGED <<adj, bfsSlot, cpuCost, graph, updating, visited, cost, over>>
  BY DEF Bfs1Tests, InKernel
<1>1. PICK r \in 0 .. NODES - 1 : RoundInv(r)
  BY <1>0 DEF SearchInv
<1>2. /\ BfsTypeOK /\ DataInv /\ Bfs1Inv(r) /\ Cardinality(Within[r]) > r
      /\ \A u \in Node : EdgesOf(graph, u) \subseteq Nat
  BY <1>0, <1>1, Bfs1Facts
<1>3. mask[v] = (IF v \in Frontier(r) THEN 1 ELSE 0) /\ left[v] = {}
  BY <1>0, <1>2, MarksType DEF Bfs1Inv
<1>4. /\ mask' = [mask EXCEPT ![v] = 0]
      /\ bfsItem' = [bfsItem EXCEPT ![v] = IF v \in Frontier(r) THEN "edges" ELSE "done"]
      /\ left' = [left EXCEPT ![v] = IF v \in Frontier(r) THEN EdgesOf(graph, v) ELSE {}]
  <2>1. CASE v \in Frontier(r)
    BY <1>3, <2>1 DEF Bfs1Tests
  <2>2. CASE v \notin Frontier(r)
    <3>1. bfsItem' = [bfsItem EXCEPT ![v] = "done"] /\ UNCHANGED <<mask, left>> /\ mask[v] = 0 /\ left[v] = {}
      BY <1>3, <2>2 DEF Bfs1Tests
    <3>2. mask = [mask EXCEPT ![v] = 0] /\ left = [left EXCEPT ![v] = {}]
      BY <1>2, <3>1 DEF BfsTypeOK, DataInv
    <3> QED BY <2>2, <3>1, <3>2
  <2> QED BY <2>1, <2>2
<1>5. /\ mask \in [Node -> 0 .. 1] /\ bfsItem \in [Node -> {"start", "edges", "done"}] /\ left \in [Node -> SUBSET Int]
  BY <1>2 DEF BfsTypeOK, DataInv
<1>6. /\ mask'[v] = 0 /\ bfsItem'[v] = (IF v \in Frontier(r) THEN "edges" ELSE "done")
      /\ left'[v] = (IF v \in Frontier(r) THEN EdgesOf(graph, v) ELSE {})
      /\ \A u \in Node : u # v => mask'[u] = mask[u] /\ bfsItem'[u] = bfsItem[u] /\ left'[u] = left[u]
  BY <1>4, <1>5
<1>7. Reached(r)' = Reached(r)
  <2>1. /\ Within' = Within /\ graph' = graph /\ \A u : EdgesOf(graph, u)' = EdgesOf(graph, u)
    BY <1>0, StillSearched DEF EdgesOf
  <2>2. ASSUME NEW u \in Node, NEW w \in Node
        PROVE  (bfsItem'[u] = "edges" /\ \E i \in EdgesOf(graph, u) \ left'[u] : graph.edges[i] = w)
                 <=> (bfsItem[u] = "edges" /\ \E i \in EdgesOf(graph, u) \ left[u] : graph.edges[i] = w)
    <3>1. CASE u = v
      BY <1>0, <1>6, <3>1
    <3>2. CASE u # v
      BY <1>6, <3>2
    <3> QED BY <3>1, <3>2
  <2> QED BY <2>1, <2>2 DEF Reached
<1>8. Bfs1Inv(r)'
  <2>1. visited' = Marks(Within[r])' /\ updating' = Marks(Reached(r))'
    BY <1>0, <1>2, <1>7, StillSearched DEF Bfs1Inv, Marks
  <2>2. cost' = [w \in Node |-> IF w \in Reached(r)' THEN r + 1 ELSE Costs(r)'[w]]
    BY <1>0, <1>2, <1>7, StillSearched DEF Bfs1Inv
  <2>3. ASSUME NEW u \in Node
        PROVE  /\ bfsItem'[u] = "start" => mask'[u] = Marks(Frontier(r))'[u] /\ left'[u] = {}
               /\ bfsItem'[u] = "edges" => u \in Frontier(r)' /\ mask'[u] = 0 /\ left'[u] \subseteq EdgesOf(graph, u)'
               /\ bfsItem'[u] = "done" => u \notin Frontier(r)' /\ mask'[u] = 0 /\ left'[u] = {}
    <3>1. Frontier(r)' = Frontier(r) /\ EdgesOf(graph, u)' = EdgesOf(graph, u) /\ Marks(Frontier(r))' = Marks(Frontier(r))
      BY <1>0, StillSearched DEF EdgesOf, Marks
    <3>2. CASE u = v
      BY <1>6, <3>1, <3>2
    <3>3. CASE u # v
      <4>1. mask'[u] = mask[u] /\ bfsItem'[u] = bfsItem[u] /\ left'[u] = left[u]
        BY <1>6, <3>3
      <4> QED BY <1>2, <3>1, <4>1 DEF Bfs1Inv
    <3> QED BY <3>2, <3>3
  <2> QED BY <2>1, <2>2, <2>3 DEF Bfs1Inv
<1>9. RoundInv(r)'
  BY <1>0, <1>2, <1>8, StillSearched DEF RoundInv
<1> QED BY <1>0, <1>9 DEF SearchInv

LEMMA NextEdgeIs ==
  ASSUME NEW v \in Node, left[v] # {}, left[v] \subseteq Nat
  PROVE  NextEdge(v) \in left[v]
<1>1. \E i \in left[v] : \A j \in left[v] : i <= j
  BY FirstPlace
<1> QED BY <1>1 DEF NextEdge

LEMMA Bfs1EdgeStep ==
  ASSUME SearchInv, ~ Settled, BfsTypeOK', DataInv', NEW v \in Node, Bfs1Edge(v)
  PROVE  SearchInv'
<1> DEFINE e == NextEdge(v)
           w == graph.edges[e]
<1>0. /\ bfsPc = "bfs1" /\ bfsItem[v] = "edges" /\ left[v] # {} /\ bfsPc' = bfsPc
      /\ UNCHANGED <<adj, bfsSlot, cpuCost, graph, mask, visited, over, bfsItem>>
      /\ left' = [left EXCEPT ![v] = left[v] \ {e}]
      /\ IF visited[w] = 0
           THEN cost' = [cost EXCEPT ![w] = cost[v] + 1] /\ updating' = [updating EXCEPT ![w] = 1]
           ELSE UNCHANGED <<cost, updating>>
  BY DEF Bfs1Edge, InKernel
<1>1. PICK r \in 0 .. NODES - 1 : RoundInv(r)
  BY <1>0 DEF SearchInv
<1>2. /\ BfsTypeOK /\ DataInv /\ Bfs1Inv(r) /\ Cardinality(Within[r]) > r
      /\ r \in Nat /\ r \in 0 .. NODES /\ NODES \in Nat
      /\ \A u \in Node : EdgesOf(graph, u) \subseteq Nat
      /\ \A u, x \in Node : adj[<<u, x>>] <=> \E i \in EdgesOf(graph, u) : graph.edges[i] = x
      /\ \A u \in Node : \A i \in EdgesOf(graph, u) : graph.edges[i] \in Node
      /\ Reached(r) \subseteq Within[r + 1] \ Within[r]
  BY <1>0, <1>1, Bfs1Facts
<1>3. v \in Frontier(r) /\ left[v] \subseteq EdgesOf(graph, v)
  BY <1>0, <1>2 DEF Bfs1Inv
<1>4. e \in left[v] /\ e \in EdgesOf(graph, v)
  BY <1>0, <1>2, <1>3, NextEdgeIs
<1> HIDE DEF e
<1>5. w \in Node /\ adj[<<v, w>>]
  BY <1>2, <1>4
<1> HIDE DEF w
<1>6. cost[v] = r
  <2>1. v \in Within[r] /\ Costs(r)[v] = r
    BY <1>2, <1>3, FrontierCosts
  <2>2. v \notin Reached(r)
    BY <1>2, <2>1
  <2> QED BY <1>2, <2>1, <2>2 DEF Bfs1Inv
<1>7. visited[w] = 0 <=> w \notin Within[r]
  <2>1. visited[w] = IF w \in Within[r] THEN 1 ELSE 0
    BY <1>2, <1>5, MarksType DEF Bfs1Inv
  <2> QED BY <2>1
<1>8. /\ cost \in [Node -> Int] /\ updating \in [Node -> 0 .. 1]
      /\ bfsItem \in [Node -> {"start", "edges", "done"}] /\ left \in [Node -> SUBSET Int]
  BY <1>2 DEF BfsTypeOK, DataInv
<1>9. left'[v] = left[v] \ {e} /\ \A u \in Node : u # v => left'[u] = left[u]
  BY <1>0, <1>8
<1>10. /\ Within' = Within /\ graph' = graph /\ bfsItem' = bfsItem /\ \A u : EdgesOf(graph, u)' = EdgesOf(graph, u)
  BY <1>0, StillSearched DEF EdgesOf
<1>11. Reached(r)' = IF w \in Within[r] THEN Reached(r) ELSE Reached(r) \cup {w}
  <2> DEFINE Now(x) == \E u \in Node : bfsItem[u] = "edges" /\ \E i \in EdgesOf(graph, u) \ left[u] : graph.edges[i] = x
             Then(x) == \E u \in Node : bfsItem[u] = "edges" /\ \E i \in EdgesOf(graph, u) \ left'[u] : graph.edges[i] = x
  <2>1. ASSUME NEW x \in Node
        PROVE  Then(x) <=> Now(x) \/ x = w
    <3>1. ASSUME NEW u \in Node, bfsItem[u] = "edges", NEW i \in EdgesOf(graph, u) \ left'[u], graph.edges[i] = x
          PROVE  Now(x) \/ x = w
      <4>1. CASE i \in left[u]
        <5>1. u = v /\ i = e
          BY <1>9, <3>1, <4>1
        <5> QED BY <3>1, <5>1 DEF w
      <4>2. CASE i \notin left[u]
        BY <3>1, <4>2
      <4> QED BY <4>1, <4>2
    <3>2. ASSUME NEW u \in Node, bfsItem[u] = "edges", NEW i \in EdgesOf(graph, u) \ left[u], graph.edges[i] = x
          PROVE  Then(x)
      <4>1. i \notin left'[u]
        BY <1>9
      <4> QED BY <3>2, <4>1
    <3>3. Then(w)
      <4>1. e \in EdgesOf(graph, v) \ left'[v]
        BY <1>4, <1>9
      <4> QED BY <1>0, <4>1 DEF w
    <3> QED BY <3>1, <3>2, <3>3
  <2>2. Reached(r) = {x \in Node \ Within[r] : Now(x)}
    BY DEF Reached
  <2>3. Reached(r)' = {x \in Node \ Within[r] : Then(x)}
    BY <1>10 DEF Reached
  <2> HIDE DEF Now, Then
  <2> QED BY <1>5, <2>1, <2>2, <2>3
<1>12. updating' = Marks(Reached(r)')
  <2>1. updating = Marks(Reached(r))
    BY <1>2 DEF Bfs1Inv
  <2>2. updating' = IF w \in Within[r] THEN updating ELSE [updating EXCEPT ![w] = 1]
    BY <1>0, <1>7
  <2> QED BY <1>5, <1>8, <1>11, <2>1, <2>2 DEF Marks
<1>13. cost' = [x \in Node |-> IF x \in Reached(r)' THEN r + 1 ELSE Costs(r)[x]]
  <2>1. cost = [x \in Node |-> IF x \in Reached(r) THEN r + 1 ELSE Costs(r)[x]]
    BY <1>2 DEF Bfs1Inv
  <2>2. cost' = IF w \in Within[r] THEN cost ELSE [cost EXCEPT ![w] = r + 1]
    BY <1>0, <1>6, <1>7
  <2> QED BY <1>5, <1>11, <2>1, <2>2
<1>14. Bfs1Inv(r)'
  <2>1. visited' = Marks(Within[r])' /\ updating' = Marks(Reached(r))'
    BY <1>0, <1>2, <1>12, StillSearched DEF Bfs1Inv, Marks
  <2>2. cost' = [x \in Node |-> IF x \in Reached(r)' THEN r + 1 ELSE Costs(r)'[x]]
    BY <1>0, <1>13, StillSearched
  <2>3. ASSUME NEW u \in Node
        PROVE  /\ bfsItem'[u] = "start" => mask'[u] = Marks(Frontier(r))'[u] /\ left'[u] = {}
               /\ bfsItem'[u] = "edges" => u \in Frontier(r)' /\ mask'[u] = 0 /\ left'[u] \subseteq EdgesOf(graph, u)'
               /\ bfsItem'[u] = "done" => u \notin Frontier(r)' /\ mask'[u] = 0 /\ left'[u] = {}
    <3>1. Frontier(r)' = Frontier(r) /\ EdgesOf(graph, u)' = EdgesOf(graph, u) /\ Marks(Frontier(r))' = Marks(Frontier(r))
      BY <1>0, StillSearched DEF EdgesOf, Marks
    <3>2. left'[u] \subseteq left[u]
      BY <1>9
    <3>3. mask' = mask /\ bfsItem' = bfsItem
      BY <1>0
    <3> QED BY <1>2, <3>1, <3>2, <3>3 DEF Bfs1Inv
  <2> QED BY <2>1, <2>2, <2>3 DEF Bfs1Inv
<1>15. RoundInv(r)'
  BY <1>0, <1>2, <1>14, StillSearched DEF RoundInv
<1> QED BY <1>0, <1>15 DEF SearchInv

LEMMA Bfs1EndsStep ==
  ASSUME SearchInv, ~ Settled, BfsTypeOK', DataInv', Bfs1Ends
  PROVE  SearchInv'
<1>0. /\ bfsPc = "bfs1" /\ bfsPc' = "bfs2" /\ bfsItem' = [v \in Node |-> "start"]
      /\ UNCHANGED <<adj, bfsSlot, cpuCost, graph, mask, updating, visited, cost, over, left>>
      /\ \A v \in Node : bfsItem[v] # "start" /\ left[v] = {}
  BY DEF Bfs1Ends, Goes
<1>1. PICK r \in 0 .. NODES - 1 : RoundInv(r)
  BY <1>0 DEF SearchInv
<1>2. /\ BfsTypeOK /\ DataInv /\ Bfs1Inv(r) /\ Cardinality(Within[r]) > r
      /\ r \in Nat /\ r \in 0 .. NODES /\ NODES \in Nat
      /\ \A u, x \in Node : adj[<<u, x>>] <=> \E i \in EdgesOf(graph, u) : graph.edges[i] = x
      /\ Reached(r) \subseteq Within[r + 1] \ Within[r]
  BY <1>0, <1>1, Bfs1Facts
<1>3. /\ Within[r] \subseteq Node /\ Within[r + 1] \subseteq Node /\ Frontier(r) \subseteq Node
  <2>1. r + 1 \in 0 .. NODES
    BY <1>2
  <2>2. Frontier(r) \subseteq Within[r]
    BY <1>2, WithinIs DEF Frontier
  <2> QED BY <1>2, <2>1, <2>2, WithinGrows
<1>4. \A v \in Frontier(r) : bfsItem[v] = "edges"
  <2> SUFFICES ASSUME NEW v \in Frontier(r) PROVE bfsItem[v] = "edges"
    OBVIOUS
  <2>1. v \in Node /\ bfsItem[v] \in {"start", "edges", "done"}
    BY <1>2, <1>3 DEF DataInv
  <2> QED BY <1>0, <1>2, <2>1 DEF Bfs1Inv
<1>5. Reached(r) = Within[r + 1] \ Within[r]
  <2> SUFFICES ASSUME NEW w \in Within[r + 1] \ Within[r] PROVE w \in Reached(r)
    BY <1>2
  <2>1. w \in Node \ Within[r]
    BY <1>3
  <2>2. PICK v \in Frontier(r) : adj[<<v, w>>]
    BY <2>1, FrontierStep
  <2>3. v \in Node /\ bfsItem[v] = "edges" /\ left[v] = {}
    BY <1>0, <1>3, <1>4
  <2> QED BY <1>2, <2>1, <2>2, <2>3 DEF Reached
<1>6. cost = Costs(r + 1)
  <2>1. \A w \in Node : Costs(r + 1)[w] = IF w \in Reached(r) THEN r + 1 ELSE Costs(r)[w]
    BY <1>5, CostsStep
  <2>2. cost = [w \in Node |-> IF w \in Reached(r) THEN r + 1 ELSE Costs(r)[w]]
    BY <1>2 DEF Bfs1Inv
  <2>3. Costs(r + 1) = [w \in Node |-> Costs(r + 1)[w]]
    BY DEF Costs
  <2> QED BY <2>1, <2>2, <2>3
<1>7. \A v \in Node : mask[v] = 0
  <2> SUFFICES ASSUME NEW v \in Node PROVE mask[v] = 0
    OBVIOUS
  <2>1. bfsItem[v] \in {"edges", "done"}
    BY <1>0, <1>2 DEF DataInv
  <2> QED BY <1>2, <2>1 DEF Bfs1Inv
<1>8. Bfs2Inv(r)'
  <2> DEFINE new == Marks(Within[r + 1] \ Within[r])
  <2>1. cost' = Costs(r + 1)'
    BY <1>0, <1>6, StillSearched
  <2>2. left' = [v \in Node |-> {}]
    <3>1. left = [v \in Node |-> left[v]]
      BY <1>2 DEF DataInv
    <3> QED BY <1>0, <3>1
  <2>3. new' = new /\ Marks(Within[r])' = Marks(Within[r])
    BY <1>0, StillSearched DEF Marks
  <2>4. updating = new /\ visited = Marks(Within[r])
    BY <1>2, <1>5 DEF Bfs1Inv
  <2>5. \A v \in Node : bfsItem'[v] = "start" /\ updating'[v] = new'[v] /\ mask'[v] = 0 /\ visited'[v] = Marks(Within[r])'[v]
    BY <1>0, <1>7, <2>3, <2>4
  <2> HIDE DEF new
  <2> QED BY <2>1, <2>2, <2>5 DEF Bfs2Inv, new
<1>9. RoundInv(r)'
  BY <1>0, <1>2, <1>8, StillSearched DEF RoundInv
<1> QED BY <1>0, <1>9 DEF SearchInv

LEMMA Bfs2Step ==
  ASSUME SearchInv, ~ Settled, BfsTypeOK', DataInv', NEW v \in Node, Bfs2(v)
  PROVE  SearchInv'
<1>0. /\ bfsPc = "bfs2" /\ bfsPc' = bfsPc /\ bfsItem[v] = "start"
      /\ bfsItem' = [bfsItem EXCEPT ![v] = "done"]
      /\ UNCHANGED <<adj, bfsSlot, cpuCost, graph, cost, left>>
      /\ IF updating[v] = 1
           THEN /\ mask' = [mask EXCEPT ![v] = 1] /\ visited' = [visited EXCEPT ![v] = 1]
                /\ over' = 1 /\ updating' = [updating EXCEPT ![v] = 0]
           ELSE UNCHANGED <<mask, updating, visited, over>>
  BY DEF Bfs2, InKernel
<1>1. PICK r \in 0 .. NODES - 1 : RoundInv(r)
  BY <1>0 DEF SearchInv
<1> DEFINE new == Marks(Within[r + 1] \ Within[r])
<1>2. /\ BfsTypeOK /\ DataInv /\ Bfs2Inv(r) /\ Cardinality(Within[r]) > r
      /\ r + 1 \in 0 .. NODES /\ r \in 0 .. r + 1
  BY <1>0, <1>1, BfsAssumption DEF SearchInv, RoundInv
<1>3. /\ mask \in [Node -> 0 .. 1] /\ updating \in [Node -> 0 .. 1] /\ visited \in [Node -> 0 .. 1]
      /\ over \in 0 .. 1 /\ bfsItem \in [Node -> {"start", "edges", "done"}]
  BY <1>2 DEF BfsTypeOK, DataInv
<1>4. /\ new[v] = (IF v \in Within[r + 1] \ Within[r] THEN 1 ELSE 0)
      /\ Marks(Within[r])[v] = (IF v \in Within[r] THEN 1 ELSE 0)
      /\ Marks(Within[r + 1])[v] = (IF v \in Within[r + 1] THEN 1 ELSE 0)
      /\ Within[r] \subseteq Within[r + 1]
  BY <1>2, MarksType, WithinGrows
<1>5. updating[v] = new[v] /\ mask[v] = 0 /\ visited[v] = Marks(Within[r])[v]
  BY <1>0, <1>2 DEF Bfs2Inv
<1>6. /\ bfsItem'[v] = "done" /\ updating'[v] = 0 /\ mask'[v] = new[v] /\ visited'[v] = Marks(Within[r + 1])[v]
      /\ over' = (IF new[v] = 1 THEN 1 ELSE over)
      /\ \A u \in Node : u # v => /\ bfsItem'[u] = bfsItem[u] /\ updating'[u] = updating[u]
                                  /\ mask'[u] = mask[u] /\ visited'[u] = visited[u]
      /\ mask' \in [Node -> 0 .. 1] /\ updating' \in [Node -> 0 .. 1] /\ visited' \in [Node -> 0 .. 1] /\ over' \in 0 .. 1
      /\ bfsItem' \in [Node -> {"start", "edges", "done"}]
  <2>1. CASE updating[v] = 1
    <3>1. new[v] = 1 /\ Marks(Within[r + 1])[v] = 1
      BY <1>4, <1>5, <2>1
    <3> HIDE DEF new
    <3> QED BY <1>0, <1>3, <2>1, <3>1
  <2>2. CASE updating[v] # 1
    <3>1. new[v] = 0 /\ Marks(Within[r + 1])[v] = Marks(Within[r])[v] /\ updating[v] = 0
      BY <1>4, <1>5, <2>2
    <3>2. UNCHANGED <<mask, updating, visited, over>>
      BY <1>0, <2>2
    <3> HIDE DEF new
    <3> QED BY <1>0, <1>3, <1>5, <3>1, <3>2
  <2> QED BY <2>1, <2>2
<1>7. new' = new /\ Marks(Within[r])' = Marks(Within[r]) /\ Marks(Within[r + 1])' = Marks(Within[r + 1])
  BY <1>0, StillSearched DEF Marks
<1>8. /\ cost = Costs(r + 1) /\ left = [u \in Node |-> {}]
      /\ \A u \in Node :
           /\ bfsItem[u] \in {"start", "done"}
           /\ bfsItem[u] = "start" => updating[u] = new[u] /\ mask[u] = 0 /\ visited[u] = Marks(Within[r])[u]
           /\ bfsItem[u] = "done" => updating[u] = 0 /\ mask[u] = new[u] /\ visited[u] = Marks(Within[r + 1])[u]
      /\ (\E u \in Node : bfsItem[u] = "done" /\ new[u] = 1) => over = 1
  BY <1>2 DEF Bfs2Inv
<1> HIDE DEF new
<1>9. \A u \in Node :
        /\ bfsItem'[u] \in {"start", "done"}
        /\ bfsItem'[u] = "start" => updating'[u] = new[u] /\ mask'[u] = 0 /\ visited'[u] = Marks(Within[r])[u]
        /\ bfsItem'[u] = "done" => updating'[u] = 0 /\ mask'[u] = new[u] /\ visited'[u] = Marks(Within[r + 1])[u]
  <2> SUFFICES ASSUME NEW u \in Node
               PROVE  /\ bfsItem'[u] \in {"start", "done"}
                      /\ bfsItem'[u] = "start" => updating'[u] = new[u] /\ mask'[u] = 0 /\ visited'[u] = Marks(Within[r])[u]
                      /\ bfsItem'[u] = "done" => updating'[u] = 0 /\ mask'[u] = new[u] /\ visited'[u] = Marks(Within[r + 1])[u]
    OBVIOUS
  <2>1. CASE u = v
    BY <1>6, <2>1
  <2>2. CASE u # v
    <3>1. /\ bfsItem'[u] = bfsItem[u] /\ updating'[u] = updating[u]
          /\ mask'[u] = mask[u] /\ visited'[u] = visited[u]
      BY <1>6, <2>2
    <3>2. /\ bfsItem[u] \in {"start", "done"}
          /\ bfsItem[u] = "start" => updating[u] = new[u] /\ mask[u] = 0 /\ visited[u] = Marks(Within[r])[u]
          /\ bfsItem[u] = "done" => updating[u] = 0 /\ mask[u] = new[u] /\ visited[u] = Marks(Within[r + 1])[u]
      BY <1>8
    <3> QED BY <3>1, <3>2
  <2> QED BY <2>1, <2>2
<1>10. (\E u \in Node : bfsItem'[u] = "done" /\ new[u] = 1) => over' = 1
  <2>1. (\E u \in Node : bfsItem'[u] = "done" /\ new[u] = 1)
          <=> (new[v] = 1 \/ \E u \in Node : bfsItem[u] = "done" /\ new[u] = 1)
    <3>1. ASSUME NEW u \in Node, bfsItem[u] = "done", new[u] = 1
          PROVE  bfsItem'[u] = "done"
      BY <1>6, <3>1
    <3>2. ASSUME NEW u \in Node, bfsItem'[u] = "done", new[u] = 1
          PROVE  new[v] = 1 \/ bfsItem[u] = "done"
      BY <1>6, <3>2
    <3> QED BY <1>6, <3>1, <3>2
  <2>2. (\E u \in Node : bfsItem[u] = "done" /\ new[u] = 1) => over = 1
    BY <1>8
  <2>3. over' = IF new[v] = 1 THEN 1 ELSE over
    BY <1>6
  <2> QED BY <2>1, <2>2, <2>3
<1>11. Bfs2Inv(r)'
  <2>1. cost' = Costs(r + 1)' /\ left' = [u \in Node |-> {}]
    <3>1. cost = Costs(r + 1) /\ left = [u \in Node |-> {}]
      BY <1>8
    <3> QED BY <1>0, <3>1, StillSearched
  <2> QED BY <1>7, <1>9, <1>10, <2>1 DEF Bfs2Inv, new
<1>12. RoundInv(r)'
  BY <1>0, <1>2, <1>11, StillSearched DEF RoundInv
<1> QED BY <1>0, <1>12 DEF SearchInv

LEMMA RoundEndsStep ==
  ASSUME SearchInv, ~ Settled, BfsTypeOK', DataInv', RoundEnds
  PROVE  SearchInv'
<1>0. /\ bfsPc = "bfs2" /\ \A v \in Node : bfsItem[v] = "done"
      /\ UNCHANGED <<adj, bfsSlot, cpuCost, graph, mask, updating, visited, cost, over, bfsItem, left>>
      /\ \/ bfsPc' = (IF over = 1 THEN "head" ELSE "copy") /\ failed' = failed
         \/ bfsPc' = "copy" /\ "over" \in failed'
  BY DEF RoundEnds, Goes, device, Fail
<1>1. PICK r \in 0 .. NODES - 1 : RoundInv(r)
  BY <1>0 DEF SearchInv
<1> DEFINE found == Within[r + 1] \ Within[r]
           new == Marks(found)
<1>2. /\ BfsTypeOK /\ DataInv /\ Bfs2Inv(r) /\ Cardinality(Within[r]) > r
      /\ r + 1 \in 0 .. NODES /\ r \in 0 .. r + 1 /\ r + 1 > 0 /\ (r + 1) - 1 = r
  BY <1>0, <1>1, BfsAssumption DEF SearchInv, RoundInv
<1>3. /\ cost = Costs(r + 1) /\ left = [u \in Node |-> {}]
      /\ \A u \in Node : updating[u] = 0 /\ mask[u] = new[u] /\ visited[u] = Marks(Within[r + 1])[u]
      /\ (\E u \in Node : new[u] = 1) => over = 1
  BY <1>0, <1>2 DEF Bfs2Inv
<1>4. found \subseteq Node /\ Within[r] \subseteq Within[r + 1] /\ \A u \in Node : new[u] = IF u \in found THEN 1 ELSE 0
  BY <1>2, WithinGrows, MarksType
<1>5. mask = new /\ visited = Marks(Within[r + 1]) /\ updating = Marks({})
  <2>1. /\ mask = [u \in Node |-> mask[u]] /\ visited = [u \in Node |-> visited[u]] /\ updating = [u \in Node |-> updating[u]]
    BY <1>2 DEF BfsTypeOK
  <2>2. /\ new = [u \in Node |-> new[u]] /\ Marks({}) = [u \in Node |-> 0]
        /\ Marks(Within[r + 1]) = [u \in Node |-> Marks(Within[r + 1])[u]]
    BY DEF Marks
  <2> HIDE DEF new
  <2> QED BY <1>3, <2>1, <2>2
<1>6. CopyInv' \/ (found = {} /\ cost = Costs(NODES)) \/ failed' \subseteq {"clear"}
  <2>1. \A v \in Node : Costs(r + 1)[v] = (IF v \in Within[r + 1] THEN Distance(v) ELSE - 1)
    BY DEF Costs
  <2>2. \A v \in Node : visited[v] = IF v \in Within[r + 1] THEN 1 ELSE 0
    BY <1>3, MarksType
  <2>3. \A v \in Node : /\ cost[v] \in {- 1, Distance(v)}
                        /\ mask[v] = 1 => visited[v] = 1 /\ cost[v] = Distance(v)
    <3> SUFFICES ASSUME NEW v \in Node
                 PROVE  /\ cost[v] \in {- 1, Distance(v)}
                        /\ mask[v] = 1 => visited[v] = 1 /\ cost[v] = Distance(v)
      OBVIOUS
    <3>1. cost[v] = IF v \in Within[r + 1] THEN Distance(v) ELSE - 1
      BY <1>3, <2>1
    <3>2. mask[v] = 1 => v \in Within[r + 1]
      <4>1. mask[v] = new[v] /\ new[v] = IF v \in found THEN 1 ELSE 0
        BY <1>3, <1>4
      <4> HIDE DEF new
      <4> QED BY <4>1
    <3> QED BY <2>2, <3>1, <3>2
  <2> QED BY <1>0, <2>3, StillSearched DEF CopyInv
<1>7. over = 1 \/ found = {}
  BY <1>3, <1>4
<1>8. CASE found # {}
  <2>1. over = 1
    BY <1>7, <1>8
  <2>2. r + 1 \in 0 .. NODES - 1 /\ Cardinality(Within[r + 1]) > r + 1
    BY <1>2, <1>8, MoreFound
  <2>3. found = Frontier(r + 1)
    BY <1>2 DEF Frontier
  <2>4. HeadInv(r + 1)
    BY <1>3, <1>5, <2>3 DEF HeadInv
  <2>5. HeadInv(r + 1)'
    BY <1>0, <2>4, StillSearched DEF HeadInv, Marks
  <2>6. CASE bfsPc' = "head"
    <3>1. RoundInv(r + 1)'
      BY <2>2, <2>5, <2>6, <1>0, StillSearched DEF RoundInv
    <3> QED BY <2>2, <2>6, <3>1 DEF SearchInv
  <2>7. CASE bfsPc' = "copy"
    <3>1. "over" \in failed'
      BY <1>0, <2>1, <2>7
    <3>2. CopyInv'
      BY <1>6, <1>8, <3>1
    <3> QED BY <2>7, <3>2 DEF SearchInv
  <2> QED BY <1>0, <2>6, <2>7
<1>9. CASE found = {}
  <2>1. Within[r + 1] = Within[r]
    BY <1>4, <1>9
  <2>2. Within[NODES] = Within[r + 1]
    BY <2>1, WithinFixed
  <2>3. Costs(NODES) = Costs(r + 1)
    BY <2>2 DEF Costs
  <2>4. Settled'
    BY <1>0, <1>3, <1>5, <1>9, <2>2, <2>3, StillSearched DEF Settled, Marks
  <2>5. bfsPc' = "copy" => CopyInv'
    BY <1>0, <2>4, SettledCopied
  <2> QED BY <1>0, <2>4, <2>5 DEF SearchInv
<1> QED BY <1>8, <1>9

\* The service's answer.
LEMMA AnswerStep ==
  ASSUME SearchInv, BfsTypeOK', DataInv', CopyBack
  PROVE  SearchInv'
<1> DEFINE fresh == [v \in Node |-> IF v = 0 THEN 0 ELSE - 1]
           n == Len(Exd)
<1>0. /\ bfsPc = "copy" /\ bfsPc' \in {"compare", "exited"} /\ UNCHANGED adj
      /\ BfsTypeOK /\ DataInv /\ CopyInv /\ bfsSlot = Exd
  BY DEF CopyBack, Goes, SearchInv, DataInv
<1>1. CASE bfsPc' = "exited"
  BY <1>1 DEF SearchInv
<1>2. CASE bfsPc' = "compare"
  <2>1. PICK h \in {cost, fresh} :
          /\ (h = cost /\ failed' = failed) \/ "result" \in failed'
          /\ bfsSlot' = [k \in 1 .. n |-> IF k <= NODES THEN h[k - 1] ELSE Junk]
    BY <1>0, <1>2 DEF CopyBack, Goes, Fail
  <2>2. n \in Nat /\ NODES <= n
    BY GraphRead
  <2>3. ASSUME NEW v \in Node PROVE bfsSlot'[v + 1] = h[v]
    <3>1. v + 1 \in 1 .. n /\ v + 1 <= NODES /\ (v + 1) - 1 = v
      BY <2>2, BfsAssumption DEF Node
    <3> HIDE DEF n, fresh
    <3> QED BY <2>1, <3>1
  <2>4. Distance(0) = 0 /\ 0 \in Node
    <3>1. NODES \in Nat \ {0}
      BY BfsAssumption
    <3> QED BY <3>1, WithinIs, DistanceIs DEF Node
  <2>5. \A v \in Node : cost[v] \in {- 1, Distance(v)} /\ fresh[v] \in {- 1, Distance(v)}
    BY <1>0, <2>4 DEF CopyInv
  <2>6. failed' \subseteq {"clear"} => h = Costs(NODES)
    BY <1>0, <2>1 DEF CopyInv
  <2> HIDE DEF fresh, n
  <2> QED BY <1>0, <1>2, <2>1, <2>3, <2>5, <2>6, StillSearched DEF SearchInv
<1> QED BY <1>0, <1>1, <1>2

\* What holds in every state.
WholeInv == BfsTypeOK /\ DataInv /\ (Loaded => SearchInv)

LEMMA SearchStart == BfsInit => WholeInv
<1> SUFFICES ASSUME BfsInit PROVE WholeInv
  OBVIOUS
<1>1. BfsTypeOK
  <2>1. NODES \in Nat \ {0}
    BY BfsAssumption
  <2> QED BY <2>1 DEF BfsInit, BfsTypeOK
<1>2. DataInv
  BY DEF BfsInit, DataInv
<1> QED BY <1>1, <1>2 DEF BfsInit, SearchInv, WholeInv

LEMMA SearchStep ==
  ASSUME WholeInv, [BfsNext]_bfsVars
  PROVE  WholeInv'
<1>1. BfsTypeOK' /\ DataInv'
  BY DataStep DEF WholeInv
<1>2. failed \subseteq failed'
  BY DEF BfsNext, BfsStep, GenerateAdjacencyMatrix, ConvertToExd, BfsCpu, BfsLaunch, RoundStarts, Bfs1Ends, RoundEnds,
         CopyBack, CompareResults, ClFails, Bfs1Tests, Bfs1Edge, Bfs2, InKernel, Fail, bfsVars
<1> SUFFICES ASSUME Loaded' PROVE SearchInv'
  BY <1>1 DEF WholeInv
<1>3. SearchInv
  BY <1>2 DEF WholeInv, Loaded
<1>4. CASE GenerateAdjacencyMatrix \/ ConvertToExd \/ BfsCpu \/ CompareResults \/ ClFails
  <2>1. bfsPc' \in {"convert", "wild", "cpu", "load", "end", "exited"}
    BY <1>4 DEF GenerateAdjacencyMatrix, ConvertToExd, BfsCpu, CompareResults, ClFails, Goes
  <2> QED BY <1>1, <2>1 DEF SearchInv
<1>5. CASE BfsLaunch \/ CopyBack
  BY <1>1, <1>3, <1>5, BfsLaunchStep, AnswerStep
<1>6. CASE \/ RoundStarts \/ Bfs1Ends \/ RoundEnds \/ \E v \in Node : Bfs1Tests(v) \/ Bfs1Edge(v) \/ Bfs2(v)
  <2>1. bfsPc \in {"head", "bfs1", "bfs2"}
    BY <1>6 DEF RoundStarts, Bfs1Ends, RoundEnds, Bfs1Tests, Bfs1Edge, Bfs2, InKernel
  <2>2. CASE Settled
    BY <1>1, <1>3, <1>6, <2>1, <2>2, SettledStep
  <2>3. CASE ~ Settled
    <3>1. ASSUME NEW v \in Node, Bfs1Tests(v) \/ Bfs1Edge(v) \/ Bfs2(v) PROVE SearchInv'
      BY <1>1, <1>3, <2>3, <3>1, Bfs1TestsStep, Bfs1EdgeStep, Bfs2Step
    <3> QED BY <1>1, <1>3, <1>6, <2>3, <3>1, RoundStartsStep, Bfs1EndsStep, RoundEndsStep
  <2> QED BY <2>2, <2>3
<1>7. CASE UNCHANGED bfsVars
  <2>1. UNCHANGED <<adj, bfsSlot, cpuCost, bfsPc, graph, failed, mask, updating, visited, cost, over, bfsItem, left>>
    BY <1>7 DEF bfsVars, device
  <2>2. ASSUME NEW r, RoundInv(r) PROVE RoundInv(r)'
    <3>1. Reached(r)' = Reached(r)
      BY <2>1, StillSearched DEF Reached, EdgesOf
    <3>2. \A v : EdgesOf(graph, v)' = EdgesOf(graph, v)
      BY <2>1 DEF EdgesOf
    <3>3. HeadInv(r) => HeadInv(r)'
      BY <2>1, StillSearched DEF HeadInv, Marks
    <3>4. Bfs1Inv(r) => Bfs1Inv(r)'
      BY <2>1, <3>1, <3>2, StillSearched DEF Bfs1Inv, Marks
    <3>5. Bfs2Inv(r) => Bfs2Inv(r)'
      BY <2>1, StillSearched DEF Bfs2Inv, Marks
    <3> QED BY <2>1, <2>2, <3>3, <3>4, <3>5, StillSearched DEF RoundInv
  <2>3. (Settled => Settled') /\ (CopyInv => CopyInv')
    BY <2>1, StillSearched DEF Settled, CopyInv, Marks
  <2> QED BY <1>1, <1>3, <2>1, <2>2, <2>3, StillSearched DEF SearchInv
<1> QED BY <1>4, <1>5, <1>6, <1>7 DEF BfsNext, BfsStep

\* The breadth-first search is right on every graph and in every order of its
\* work items, and whichever transfers fail after the arrays were written: a node
\* never holds a cost that is not its distance, and the client, whose own costs are
\* the distances, finds none else in its slot, and all of them unless d_over or the
\* costs could not be read, although the work items of a round write the same costs
\* and marks without a lock.
THEOREM SearchIsExact == BfsSpec => []SearchExact
<1>1. BfsInit => WholeInv
  BY SearchStart
<1>2. WholeInv /\ [BfsNext]_bfsVars => WholeInv'
  BY SearchStep
<1>3. WholeInv => SearchExact
  <2> SUFFICES ASSUME WholeInv PROVE SearchExact
    OBVIOUS
  <2>0. \A v \in Node : Costs(NODES)[v] = Distance(v)
    BY DEF Costs, Distance
  <2>1. CostsAreDistances
    <3> SUFFICES ASSUME bfsPc \in {"head", "bfs1", "bfs2", "copy"}, SearchInv, NEW v \in Node
                 PROVE  /\ cost[v] \in {- 1, Distance(v)}
                        /\ mask[v] = 1 => visited[v] = 1 /\ cost[v] = Distance(v)
      BY DEF CostsAreDistances, WholeInv
    <3>1. CASE bfsPc = "copy" \/ Settled
      <4>1. CASE bfsPc = "copy"
        BY <4>1 DEF SearchInv, CopyInv
      <4>2. CASE Settled
        <5>1. cost[v] = Distance(v) /\ mask[v] = 0
          BY <2>0, <4>2, MarksType DEF Settled
        <5> QED BY <5>1
      <4> QED BY <3>1, <4>1, <4>2
    <3>2. CASE bfsPc # "copy" /\ ~ Settled
      <4>1. PICK r \in 0 .. NODES - 1 : RoundInv(r)
        BY <3>2 DEF SearchInv
      <4>2. r \in 0 .. NODES /\ r + 1 \in 0 .. NODES /\ r \in 0 .. r + 1 /\ r + 1 > 0 /\ (r + 1) - 1 = r
        BY BfsAssumption
      <4>3. /\ Costs(r)[v] = (IF v \in Within[r] THEN Distance(v) ELSE - 1)
            /\ Costs(r + 1)[v] = (IF v \in Within[r + 1] THEN Distance(v) ELSE - 1)
        BY DEF Costs
      <4>4. Frontier(r) \subseteq Within[r]
        BY <4>2, WithinIs DEF Frontier
      <4>5. CASE bfsPc = "head"
        <5>1. HeadInv(r)
          BY <4>1, <4>5 DEF RoundInv
        <5> QED BY <4>3, <4>4, <5>1 DEF HeadInv, Marks
      <4>6. CASE bfsPc = "bfs1"
        <5>1. Bfs1Inv(r) /\ Reached(r) \subseteq Within[r + 1] \ Within[r] /\ DataInv
          BY <4>1, <4>6, Bfs1Facts
        <5>2. v \in Reached(r) => Distance(v) = r + 1
          BY <4>2, <5>1, DistanceIs
        <5>3. cost[v] = IF v \in Reached(r) THEN r + 1 ELSE Costs(r)[v]
          BY <5>1 DEF Bfs1Inv
        <5>4. mask[v] = 1 => v \in Frontier(r)
          <6>1. bfsItem[v] \in {"start", "edges", "done"}
            BY <5>1 DEF DataInv
          <6> QED BY <5>1, <6>1, MarksType DEF Bfs1Inv
        <5>5. visited[v] = IF v \in Within[r] THEN 1 ELSE 0
          BY <5>1, MarksType DEF Bfs1Inv
        <5> QED BY <4>3, <4>4, <5>1, <5>2, <5>3, <5>4, <5>5
      <4>7. CASE bfsPc = "bfs2"
        <5>1. Bfs2Inv(r)
          BY <4>1, <4>7 DEF RoundInv
        <5>2. cost[v] = Costs(r + 1)[v]
          BY <5>1 DEF Bfs2Inv
        <5>3. mask[v] = 1 => v \in Within[r + 1] /\ visited[v] = 1
          BY <5>1, MarksType DEF Bfs2Inv
        <5> QED BY <4>3, <5>2, <5>3
      <4> QED BY <3>2, <4>5, <4>6, <4>7
    <3> QED BY <3>1, <3>2
  <2>2. ComparePasses
    <3> SUFFICES ASSUME bfsPc = "compare", NEW v \in Node
                 PROVE  /\ cpuCost[v] = Distance(v)
                        /\ Loaded => bfsSlot[v + 1] \in {- 1, cpuCost[v]}
                        /\ failed \subseteq {"clear"} => bfsSlot[v + 1] = cpuCost[v]
      BY DEF ComparePasses
    <3>1. cpuCost = Costs(NODES)
      BY DEF WholeInv, DataInv
    <3>2. Loaded => SearchInv
      BY DEF WholeInv
    <3>3. failed \subseteq {"clear"} => Loaded
      BY DEF Loaded, Arrays
    <3> QED BY <2>0, <3>1, <3>2, <3>3 DEF SearchInv
  <2> QED BY <2>1, <2>2 DEF SearchExact, WholeInv
<1> QED BY <1>1, <1>2, <1>3, PTL DEF BfsSpec
=============================================================================
