----------------------------- MODULE MCFirewalls -----------------------------
(***************************************************************************)
(* Small instances of GpuFirewall and NetfilterFirewall.  Both queue the    *)
(* same packets, so one of them is in use at a time: a behaviour is one of  *)
(* one firewall.                                                            *)
(*                                                                         *)
(* The kernel of the GPU firewall compares the first of two bad addresses,  *)
(* 7; 9 is not compared, 0 equals a high word and 1 is the mark of a match. *)
(***************************************************************************)
EXTENDS Integers

CONSTANTS p1, p2, p3, None

VARIABLES
  scene,    \* the firewall that a behaviour is of
  bound, socket, waiting, src,                                     \* the kernel's queue
  client, daemon, offFlag, breakFlag, thread, buff, firstRv,       \* the GPU firewall
  commands, devPackets, devRules, item, mishap,
  hooked, filter, program, ids, index, everJudged                  \* the netfilter firewall

queueVars == <<bound, socket, waiting, src>>
gpuVars == <<client, daemon, offFlag, breakFlag, thread, buff, firstRv, commands, devPackets, devRules, item, mishap>>
netfilterVars == <<hooked, filter, program, ids, index, everJudged>>
mcVars == <<scene, queueVars, gpuVars, netfilterVars>>

BadAddresses == <<<<7, 0, 0, 0>>, <<9, 0, 0, 0>>>>

\* The firewall is switched on and off; one address of two fits on the device, and a
\* work item works behind it.
Switched == INSTANCE GpuFirewall WITH
  Packets <- {p1, p2, p3}, Addresses <- {5, 7}, QUEUEMAX <- 2, BadAddress <- BadAddresses,
  UPACKETBUFFSIZE <- 2, DEVICEINTS <- 1, GRIDX <- 2, GRIDY <- 1, STRIDE <- 1, NEWWORDS <- {0, 7}, REFUSALS <- 1

\* Of the work items two share a word; the firewall stays on.
Rules == INSTANCE GpuFirewall WITH
  Packets <- {p1, p2}, Addresses <- {0, 1, 7, 9}, QUEUEMAX <- 2, BadAddress <- BadAddresses,
  UPACKETBUFFSIZE <- 2, DEVICEINTS <- 2, GRIDX <- 2, GRIDY <- 2, STRIDE <- 1, NEWWORDS <- {0}, REFUSALS <- 1

\* Payloads run over up to two of the elements behind their own.
Netfilter == INSTANCE NetfilterFirewall WITH
  Packets <- {p1, p2, p3}, Addresses <- {5}, QUEUEMAX <- 3,
  BUFFERED <- 3, ELEMENTS <- 6, REACH <- 2, FILTERMAX <- 1, firstRv <- everJudged

ASSUME
  /\ Switched!NfQueueAssumption /\ Rules!NfQueueAssumption /\ Netfilter!NfQueueAssumption
  /\ Switched!BadAddressAssumption /\ Switched!GpuFirewallAssumption /\ Rules!GpuFirewallAssumption
  /\ Netfilter!NetfilterAssumption

MCInit ==
  /\ scene \in {"switched", "rules", "netfilter"}
  /\ IF scene = "rules" THEN Rules!FirewallInit ELSE Switched!FirewallInit
  /\ Netfilter!NotLoaded

InSwitched(A) == scene = "switched" /\ A /\ UNCHANGED <<scene, netfilterVars>>
InRules(A) == scene = "rules" /\ A /\ UNCHANGED <<scene, netfilterVars>>
InNetfilter(A) == scene = "netfilter" /\ A /\ UNCHANGED <<scene, gpuVars>>

RulesNext == Rules!Traffic \/ Rules!InitModule \/ Rules!Launch \/ Rules!ThreadStep \/ Rules!GpuStep

MCNext ==
  \/ InSwitched(Switched!FirewallNext) \/ InRules(RulesNext)
  \/ InNetfilter(Netfilter!NetfilterNext)

\* The fairness of each firewall; the rules are a question of safety only.
MCSpec ==
  /\ MCInit /\ [][MCNext]_mcVars
  /\ WF_mcVars(InSwitched(Switched!DaemonStep)) /\ WF_mcVars(InSwitched(Switched!ThreadStep))
  /\ WF_mcVars(InSwitched(Switched!GpuStep)) /\ WF_mcVars(InSwitched(Switched!Unhook))
  /\ WF_mcVars(InSwitched(Switched!Traffic))
  /\ WF_mcVars(InNetfilter(Netfilter!HandlePacket)) /\ SF_mcVars(InNetfilter(Netfilter!Traffic))
  /\ WF_mcVars(InNetfilter(Netfilter!InitModule))

-----------------------------------------------------------------------------
(* What the firewalls promise, in the words of their modules               *)

\* Both firewalls hold every packet that waits, once, and no other: none is
\* forgotten between two sessions of the GPU firewall, and no payload of the
\* netfilter firewall destroys the id of a packet that was collected.
PacketsHeldOnce ==
  /\ scene = "switched" => Switched!PacketsHeldOnce
  /\ scene = "rules" => Rules!PacketsHeldOnce
  /\ scene = "netfilter" => Netfilter!PacketsHeldOnce

\* An address that the kernel compares is never let through once packets and rules
\* are on the device, and when each command ran after those it needs, places of one
\* work item get the CPU firewall's verdict, up to the known gaps.
VerdictsRight ==
  /\ scene = "switched" => Switched!VerdictsRight
  /\ scene = "rules" => Rules!VerdictsRight

\* The packets of the GPU firewall's first session are all judged if it has a thread;
\* the netfilter firewall judges, or drops, every packet that waits.
PacketsJudged ==
  \A p \in {p1, p2, p3} :
    p \in waiting /\ scene # "rules" /\ (scene = "switched" => ~ breakFlag /\ thread # "none")
      ~> p \notin waiting

\* Loading and unloading the module of the GPU firewall end.
LaunchReturns ==
  scene = "switched" /\ client \in {"loading", "unloading"} ~> client \in {"in", "out"} \/ daemon = "exited"
=============================================================================
