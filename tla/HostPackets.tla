---------------------------- MODULE HostPackets -----------------------------
(***************************************************************************)
(* What other hosts put on the wire for src/ip_stack.c, as the standards   *)
(* of ARP, IP, ICMP and TCP lay it out, and how they add up what it sends  *)
(* to them.  Nothing here says how the stack reads or writes it.           *)
(*                                                                         *)
(* The body of an IP packet is the bytes behind the first 20 of its        *)
(* header: options, message and the padding of the frame.  A frame also    *)
(* says how its sender put it together (made) and what it meant by it      *)
(* (meant), which the code never looks at.                                 *)
(***************************************************************************)
EXTENDS Integers, Sequences, SequencesExt

BASE == 256
Byte == 0 .. BASE - 1

(* The sum of a sequence of numbers.                                       *)
SumOf(terms) ==
  LET sum[i \in 0 .. Len(terms)] == IF i = 0 THEN 0 ELSE sum[i-1] + terms[i]
  IN  sum[Len(terms)]

(* What a receiver adds up, an odd byte padded with a zero, as one number; *)
(* the words sum to all ones, carries included, when BASE^2 - 1 divides it.*)
ReceiverSum(buf) ==
  SumOf([i \in 1 .. Len(buf) |-> IF i % 2 = 1 THEN buf[i] * BASE ELSE buf[i]])

Verifies(buf) == ReceiverSum(buf) % (BASE * BASE - 1) = 0

IsBytes(s, n) == s \in Seq(Byte) /\ Len(s) = n

(***************************************************************************)
(* TCP options.                                                            *)
(***************************************************************************)
END_OF_LIST == 0
NOP         == 1

IsOption(o) == o.kind \in Byte /\ o.value \in Seq(Byte) /\ Len(o.value) <= BASE - 3

(* The bytes of an option as they are on the wire.                         *)
Encode(option) ==
  IF option.kind \in {END_OF_LIST, NOP} THEN <<option.kind>>
  ELSE <<option.kind, 2 + Len(option.value)>> \o option.value

(* The options up to the i-th, one after the other.                        *)
Encoded(list, i) == FlattenSeq([j \in 1 .. i |-> Encode(list[j])])

(* An options field holds them, then zeros, and may be cut off.            *)
HoldsOptions(bytes, list) ==
  /\ Len(list) \in Nat /\ list = [i \in 1 .. Len(list) |-> list[i]]
  /\ \A i \in 1 .. Len(list) : IsOption(list[i])
  /\ bytes \in Seq(Byte)
  /\ LET said == Encoded(list, Len(list))
     IN  \A i \in 1 .. Len(bytes) : bytes[i] = IF i <= Len(said) THEN said[i] ELSE 0

(***************************************************************************)
(* Frames.                                                                 *)
(***************************************************************************)
IsArp(f) == f.type = "arp" /\ f.arp.sha = f.source

(* A request for the hardware address that belongs to ip.                  *)
AsksFor(f, ip) ==
  /\ IsArp(f) /\ f.length >= 42 /\ f.arp.ethernet
  /\ f.arp.oper = 1 /\ f.arp.tpa = ip

IsPacket(f) ==
  /\ f.type = "ip" /\ f.length \in Nat /\ f.ip.ihl \in 5 .. 15
  /\ f.ip.protocol = 1 => Len(f.made.message) >= 8
  /\ f.ip.protocol = 6 => Len(f.made.message) >= 20
  /\ IsBytes(f.made.ip_options, 4 * (f.ip.ihl - 5))
  /\ f.made.message \in Seq(Byte) /\ f.made.padding \in Seq(Byte)
  /\ f.ip.body = f.made.ip_options \o f.made.message \o f.made.padding
  /\ f.ip.total_length = 4 * f.ip.ihl + Len(f.made.message)
  /\ f.ip.total_length < BASE * BASE
  /\ IsBytes(f.ip.source_ip, 4)

IsWhole(f) == IsPacket(f) /\ f.length >= 14 + f.ip.total_length

(* The bytes of the message from position at on.                           *)
HoldsAt(message, at, bytes) ==
  /\ bytes \in Seq(Byte) /\ at + Len(bytes) <= Len(message) + 1
  /\ \A i \in 1 .. Len(bytes) : message[at + i - 1] = bytes[i]

AsksEcho(f) ==
  IsWhole(f) /\ f.ip.protocol = 1 /\ HoldsAt(f.made.message, 1, <<8, 0>>)

(* A segment for the port of the server, and where its header ends.        *)
IsSegment(f) ==
  IsWhole(f) /\ f.ip.protocol = 6 /\ HoldsAt(f.made.message, 3, <<0, 80>>)

HeaderEnd(message) == 4 * (message[13] \div 16)

SYN == 2
RST == 4
ACK == 16

Flag(message, flag) == (message[14] \div flag) % 2 = 1

Opens(message) ==
  Flag(message, SYN) /\ ~Flag(message, ACK) /\ ~Flag(message, RST)

(* A segment of a connection, with up to limit bytes of data.              *)
Carries(message, limit) ==
  /\ Flag(message, ACK) /\ ~Flag(message, SYN) /\ ~Flag(message, RST)
  /\ Len(message) - HeaderEnd(message) \in 0 .. limit

IsOther(f, ip, limit) ==
  \/ f.type = "unknown"
  \/ IsArp(f) /\ ~AsksFor(f, ip)
  \/ IsPacket(f) /\ ~IsWhole(f)
  \/ IsWhole(f) /\ ~AsksEcho(f) /\ ~IsSegment(f)
  \/ /\ IsSegment(f) /\ ~Opens(f.made.message)
     /\ ~Carries(f.made.message, limit) \/ f.ip.dest_ip # ip

(* What a frame means to a host with the address ip, for segments of up to *)
(* limit bytes of data.                                                    *)
IsMeant(f, ip, limit) ==
  \/ f.meant.kind = "arp" /\ AsksFor(f, ip) /\ f.meant.ip = f.arp.spa
  \/ /\ f.meant.kind = "ping" /\ AsksEcho(f) /\ f.meant.ip = f.ip.source_ip
     /\ Len(f.made.message) = 4 + Len(f.meant.data)
     /\ HoldsAt(f.made.message, 5, f.meant.data)
  \/ /\ f.meant.kind = "tcp" /\ IsSegment(f) /\ f.ip.dest_ip = ip
     /\ Carries(f.made.message, limit) /\ HeaderEnd(f.made.message) >= 20
     /\ f.meant.client = [ip |-> f.ip.source_ip, port |-> SubSeq(f.made.message, 1, 2)]
     /\ Len(f.made.message) = HeaderEnd(f.made.message) + Len(f.meant.data)
     /\ HoldsAt(f.made.message, HeaderEnd(f.made.message) + 1, f.meant.data)
  \/ /\ f.meant.kind = "syn" /\ IsSegment(f) /\ Opens(f.made.message)
     /\ HeaderEnd(f.made.message) <= Len(f.made.message)
     /\ HoldsOptions(SubSeq(f.made.message, 21, HeaderEnd(f.made.message)),
                     f.meant.list)
  \/ f.meant.kind = "other" /\ IsOther(f, ip, limit)
=============================================================================
