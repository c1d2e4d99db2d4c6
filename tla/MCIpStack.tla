----------------------------- MODULE MCIpStack ------------------------------
(***************************************************************************)
(* TLC's instance of IpStack: requests of two hosts with and without IP    *)
(* options, padded to the shortest frame, frames that are not for us, and  *)
(* a SYN with every list of up to MaxOptions options, among them values    *)
(* that look like kinds, and kinds nobody looks for.                       *)
(***************************************************************************)
EXTENDS IpStack

CONSTANT MaxOptions

LocalMac == "server"
LocalIp  == <<10, 0, 0, 2>>
PeerIp   == [alice |-> <<10, 0, 0, 255>>, bob |-> <<192, 168, 255, 254>>]
Peers    == DOMAIN PeerIp

Zeros(n) == [i \in 1 .. n |-> 0]
Nothing  == [kind |-> "other"]

Arp(peer, oper, tpa, length, ethernet, meant) ==
  [dest |-> "all", source |-> peer, type |-> "arp", length |-> length,
   arp |-> [ethernet |-> ethernet, oper |-> oper, sha |-> peer,
            spa |-> PeerIp[peer], tha |-> "none", tpa |-> tpa],
   meant |-> meant]

(* short: bytes of the packet that the frame lacks.                        *)
Packet(peer, ip_options, protocol, message, short, meant) ==
  LET total   == 20 + Len(ip_options) + Len(message)
      length  == IF total < 46 THEN 60 ELSE total + 14
      padding == Zeros(length - 14 - total)
  IN  [dest |-> LocalMac, source |-> peer, type |-> "ip", length |-> length - short,
       ip |-> [ihl |-> 5 + Len(ip_options) \div 4, total_length |-> total,
               identification |-> 1, protocol |-> protocol,
               source_ip |-> PeerIp[peer], dest_ip |-> LocalIp,
               body |-> ip_options \o message \o padding],
       made |-> [ip_options |-> ip_options, message |-> message, padding |-> padding],
       meant |-> meant]

IpOptions == {<<>>, <<1, 1, 1, 0>>}

Pings ==
  {Packet(peer, ip_options, 1, <<8, 0, 7, 7, 255, 255, 0, 1>> \o payload, 0,
          [kind |-> "ping", ip |-> PeerIp[peer],
           data |-> <<255, 255, 0, 1>> \o payload]) :
     peer \in Peers, ip_options \in IpOptions,
     payload \in {<<>>, <<255, 254, 3>>, [i \in 1 .. 30 |-> 255]}}

Client(peer, port) == [ip |-> PeerIp[peer], port |-> port]

AtStart == {Client("alice", <<4, 0>>)}

Message80(port, header, flags, rest) ==
  port \o <<0, 80>> \o Zeros(8) \o <<16 * (header \div 4), flags>> \o Zeros(6) \o rest

(* With data, of the client and of those that it may be mistaken for.      *)
SegmentOf(peer, port, ip_options, tcp_options, data) ==
  Packet(peer, ip_options, 6,
         Message80(port, 20 + Len(tcp_options), 16, tcp_options \o data), 0,
         [kind |-> "tcp", client |-> Client(peer, port), data |-> data])

Segments ==
  {SegmentOf("alice", <<4, 0>>, ip_options, tcp_options, data) :
     ip_options \in IpOptions, tcp_options \in {<<>>, <<1, 1, 1, 0>>},
     data \in {<<>>, <<9, 8, 7>>}}
  \cup {SegmentOf("alice", <<4, 1>>, <<>>, <<>>, <<6>>),
        SegmentOf("bob", <<4, 0>>, <<>>, <<>>, <<5>>)}

(* What is no segment of a connection: resets, SYN, no ACK, a header that  *)
(* is longer than the message, and a foreign destination.                  *)
Strays ==
  {Packet("alice", <<>>, 6, Message80(<<4, 0>>, header, flags, <<3>>), 0, Nothing) :
     <<header, flags>> \in {<<20, 20>>, <<20, 6>>, <<20, 18>>, <<20, 1>>, <<40, 16>>}}
  \cup {[Packet("alice", <<>>, 6, Message80(<<4, 0>>, 20, 16, <<3>>), 0, Nothing)
          EXCEPT !.ip.dest_ip = PeerIp["bob"]]}

Others ==
  {Arp("bob", 1, PeerIp["alice"], 42, TRUE, Nothing),
   Arp("bob", 2, LocalIp, 60, TRUE, Nothing),
   Arp("bob", 1, LocalIp, 41, TRUE, Nothing),
   Arp("bob", 1, LocalIp, 60, FALSE, Nothing),
   Packet("bob", <<>>, 1, <<0, 0, 7, 7, 0, 1, 0, 1>>, 0, Nothing),
   Packet("bob", <<>>, 1, <<8, 0>> \o Zeros(40), 1, Nothing),
   Packet("bob", <<>>, 17, Zeros(20), 0, Nothing),
   Packet("bob", <<>>, 6, <<4, 0, 0, 81>> \o Zeros(16), 0, Nothing),
   [dest |-> LocalMac, source |-> "bob", type |-> "unknown", length |-> 60,
    meant |-> Nothing]}

(* The data offset of a damaged SYN cuts its options off.                  *)
Syn(peer, said, cut) ==
  LET bytes == FlattenSeq([i \in DOMAIN said |-> Encode(said[i])])
      words == bytes \o Zeros((-Len(bytes)) % 4)
  IN  Packet(peer, <<>>, 6, Message80(<<4, 0>>, 20 + Len(words) - 4 * cut, 2, words), 0,
             [kind |-> "syn", list |-> said])

SomeOptions ==
  {[kind |-> NOP, value |-> <<>>], [kind |-> END_OF_LIST, value |-> <<>>],
   [kind |-> MSS, value |-> <<9, 3>>], [kind |-> MSS, value |-> <<0, 0>>],
   [kind |-> MSS, value |-> <<2, 4>>], [kind |-> SCALE, value |-> <<2>>],
   [kind |-> SCALE, value |-> <<15>>], [kind |-> SCALE, value |-> <<>>],
   [kind |-> 4, value |-> <<>>], [kind |-> 5, value |-> <<3, 3, 2>>]}

Syns == {Syn(peer, <<>>, 0) : peer \in Peers}
          \cup {Syn("alice", said, cut) : said \in SeqOf(SomeOptions, MaxOptions) \ {<<>>},
                                         cut \in {0, 1}}

FewFrames ==
  Pings \cup Segments \cup Strays \cup Others
    \cup {Arp(peer, 1, LocalIp, 60, TRUE, [kind |-> "arp", ip |-> PeerIp[peer]]) :
            peer \in Peers}

(* The second frame is of few kinds, each of another host or connection.   *)
LaterFrames ==
  {f \in FewFrames : f.meant.kind \in {"arp", "tcp"} /\ f.length = 60}
    \cup {f \in Pings : f.source = "bob" /\ f.length > 60}

SomeFrames(n) == IF n = 0 THEN Syns \cup FewFrames ELSE LaterFrames

SomeOutgoing ==
  {[dest |-> "alice", dest_ip |-> PeerIp["alice"],
    numbers |-> <<0, 80, 4, 0, 255, 255, 255, sequence, 0, 0, 1, 1>>, flags |-> 16,
    window |-> <<64, 0>>, syn |-> FALSE, data |-> data] :
     sequence \in {0, 254, 255}, data \in {<<>>, <<255>>, [i \in 1 .. 30 |-> 255]}}
  \cup {[dest |-> "bob", dest_ip |-> PeerIp["bob"],
         numbers |-> <<0, 80, 4, 0, 0, 0, 0, 1, 0, 0, 0, 1>>, flags |-> 18,
         window |-> <<64, 0>>, syn |-> TRUE, data |-> <<>>]}
=============================================================================
