------------------------------ MODULE Checksum ------------------------------
(***************************************************************************)
(* The internet checksum of src/ip_stack.c, and the way send_tcp_packet    *)
(* computes it over a pseudo header and a segment in three parts.  A       *)
(* buffer is a sequence of bytes.                                          *)
(***************************************************************************)
EXTENDS HostPackets

WORDS == BASE * BASE                 \* values of a word, 0x10000

(***************************************************************************)
(* A faulty form of a definition below; nothing uses it.                   *)
(***************************************************************************)
FaultFinal(checksum) ==              \* one carry folded in, not two
  LET c1 == (checksum % WORDS) + (checksum \div WORDS)
  IN  WORDS - 1 - (c1 % WORDS)

(***************************************************************************)
(* The checksum.                                                           *)
(***************************************************************************)
ip_checksum_init == 0

(* The word of an odd byte at the end.                                     *)
LastByte(buf) == Last(buf) * BASE

(* The sum of a packet stays far below WORDS^2, so that the uint32_t of    *)
(* the code never wraps: a frame has fewer than WORDS words.               *)
ip_checksum_add(checksum, buf) ==
  LET sum == SumOf([i \in 1 .. Len(buf) \div 2 |-> buf[2*i - 1] * BASE + buf[2*i]])
      odd == IF Len(buf) % 2 = 1 THEN LastByte(buf) ELSE 0
  IN  checksum + sum + odd

ip_checksum_final(checksum) ==
  LET c1 == (checksum % WORDS) + (checksum \div WORDS)
      c2 == (c1 % WORDS) + (c1 \div WORDS)
  IN  WORDS - 1 - (c2 % WORDS)

ip_checksum(buf) == ip_checksum_final(ip_checksum_add(ip_checksum_init, buf))

(* htons: a word as it goes on the wire.                                   *)
Bytes(word) == <<word \div BASE, word % BASE>>

(* Addresses, protocol and length, and the segment, added one by one.      *)
SegmentChecksum(addresses, protocol, segment) ==
  LET a == ip_checksum_add(ip_checksum_init, addresses)
      b == ip_checksum_add(a, <<0, protocol>> \o Bytes(Len(segment)))
  IN  ip_checksum_final(ip_checksum_add(b, segment))
=============================================================================
