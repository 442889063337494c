---------------------------- MODULE FirewallRules ----------------------------
(***************************************************************************)
(* The list of bad addresses and the two ways the firewalls compare a source *)
(* address with it: the CPU firewall calls inet_aton on every entry, the GPU *)
(* kernel reads a table of 64-bit numbers through a pointer to 32-bit words. *)
(***************************************************************************)
EXTENDS Integers, Sequences

CONSTANT BadAddress   \* dotted addresses, as four numbers each

BadAddressAssumption == BadAddress \in Seq([1 .. 4 -> 0 .. 255])

\* The first number is the lowest byte, as in a header on a little-endian host.
InetAton(dotted) ==
  (dotted[1] % 256) + 256 * ((dotted[2] % 256) + 256 * ((dotted[3] % 256) + 256 * (dotted[4] % 256)))

\* An entry of the CPU firewall's list of strings.
CpuAddress(i) == InetAton(BadAddress[i + 1])

\* bad_ip_address holds the same numbers in the same order, as unsigned long.
BadIpAddress(i) == InetAton(BadAddress[i + 1])

\* What the CPU firewall's hook says of a TCP or UDP packet.
CpuVerdict(saddr) ==
  IF \E i \in 0 .. Len(BadAddress) - 1 : saddr = CpuAddress(i) THEN "NF_DROP" ELSE "NF_ACCEPT"

\* Word k of the table as the kernel sees it: the odd ones are high words, all zero.
RuleWord(k) == IF k % 2 = 0 THEN BadIpAddress(k \div 2) ELSE 0

\* The kernel compares as many words as the table has entries, so it reaches half of them.
RuleWords == {RuleWord(k) : k \in 0 .. Len(BadAddress) - 1}

Compared(saddr) == saddr \in {BadIpAddress(i) : i \in 0 .. ((Len(BadAddress) - 1) \div 2)}
=============================================================================
