------------------------------ MODULE IpStack -------------------------------
(***************************************************************************)
(* The packets of src/ip_stack.c as bytes: which frames handle_rx_packet   *)
(* looks at, the answers to ARP requests and pings, the options of a SYN   *)
(* and the data of a segment that go on to the connection, and the         *)
(* segments it sends.  What the connection makes of them is TcpConnection. *)
(*                                                                         *)
(* An IP address is four bytes.  The body of an IP packet is the bytes     *)
(* behind the first 20 of the header: options, message and the padding of  *)
(* the frame.                                                              *)
(***************************************************************************)
EXTENDS TcpOptions

CONSTANTS
  Frames(_),   \* frames that may arrive when n have been handled
  Outgoing,    \* [dest_ip, numbers, flags, window, syn, data]: what the
               \* connection may have to send
  Clients,     \* [ip, port]: who may have the connection at the start
  local_mac, ip_addr,
  MaxPackets   \* bound: frames handled and segments sent in a behaviour

ASSUME PacketAssumption ==
  /\ MaxPackets \in Nat /\ IsBytes(ip_addr, 4)
  /\ \A n \in 0 .. MaxPackets : \A f \in Frames(n) : IsMeant(f, ip_addr, MAX_SEGMENT)

ASSUME OutgoingAssumption ==
  \A s \in Outgoing :
    /\ IsBytes(s.dest_ip, 4) /\ IsBytes(s.numbers, 12) /\ IsBytes(s.window, 2)
    /\ s.flags \in Byte /\ s.syn \in BOOLEAN
    /\ s.data \in Seq(Byte) /\ Len(s.data) <= MAX_SEGMENT

VARIABLES
  identification_counter,
  remote,      \* tcp_conn.remote_ip and remote_port, NONE in TCP_LISTEN
  handled,     \* frames taken from the chip so far
  clients,     \* history: remote when each of them came
  sent,        \* frames sent
  segments     \* [data] handed on to the connection

packetVars == <<identification_counter, handled, clients, sent, segments>>
vars       == <<packetVars, remote, scanVars>>

NONE == [ip |-> <<>>, port |-> <<>>]

ARP_REQUEST   == 1
ICMP          == 1
TCP           == 6
ECHO_REQUEST  == 8
ETH_HEADER    == 14
IP_HEADER     == 20
PING_HEADER   == 8

(***************************************************************************)
(* Faulty forms of definitions below; nothing uses them.                   *)
(***************************************************************************)
FaultMessage(ip)         == ip.body              \* options taken for the message
FaultMessageLength(f)    == f.length - 14 - 4 * f.ip.ihl  \* with padding

(***************************************************************************)
(* ARP.                                                                    *)
(***************************************************************************)
(* ethernet: hardware and protocol types and their address lengths.        *)
ValidArp(frame) ==
  frame.length >= 42 /\ frame.arp.ethernet /\ frame.arp.oper \in {1, 2}

ArpReply(arp, source) ==
  [dest |-> source, source |-> local_mac, type |-> "arp", length |-> 42,
   arp |-> [ethernet |-> TRUE, oper |-> 2, sha |-> local_mac, spa |-> ip_addr,
            tha |-> arp.sha, tpa |-> arp.spa]]

HandleArp(frame) ==
  /\ frame.type = "arp"
  /\ sent' = IF ValidArp(frame) /\ frame.arp.oper = ARP_REQUEST
                /\ frame.arp.tpa = ip_addr
             THEN Append(sent, ArpReply(frame.arp, frame.source)) ELSE sent
  /\ UNCHANGED <<identification_counter, segments, scanVars>>

(***************************************************************************)
(* IP: validation, and the message behind the header.                      *)
(***************************************************************************)
ValidIp(frame) ==
  /\ frame.ip.total_length >= IP_HEADER
  /\ frame.length >= ETH_HEADER + frame.ip.total_length
  /\ frame.length >= ETH_HEADER + 4 * frame.ip.ihl
  /\ frame.ip.protocol \in {ICMP, TCP}

(* Where ihl says the header ends.                                         *)
Message(ip) == SubSeq(ip.body, 4 * ip.ihl - IP_HEADER + 1, Len(ip.body))

MessageLength(frame) == frame.ip.total_length - 4 * frame.ip.ihl

(* hton_ip: the header that new_ip_packet starts, without its checksum.    *)
HeaderBytes(ip) ==
  <<69, 0>> \o Bytes(ip.total_length) \o Bytes(ip.identification)
    \o <<64, 0, 128, ip.protocol, 0, 0>> \o ip.source_ip \o ip.dest_ip

(***************************************************************************)
(* Ping.                                                                   *)
(***************************************************************************)
PingReply(frame) ==
  LET message == Message(frame.ip)
      payload == SubSeq(message, PING_HEADER + 1, MessageLength(frame))
      rest    == SubSeq(message, 5, PING_HEADER) \o payload
      ip      == [ihl |-> 5, total_length |-> Len(payload) + IP_HEADER + PING_HEADER,
                  identification |-> identification_counter, protocol |-> ICMP,
                  source_ip |-> ip_addr, dest_ip |-> frame.ip.source_ip,
                  body |-> <<0, 0>> \o Bytes(ip_checksum(<<0, 0, 0, 0>> \o rest)) \o rest]
  IN  [dest |-> frame.source, source |-> local_mac, type |-> "ip",
       length |-> ip.total_length + ETH_HEADER,
       ip |-> ip, checksum |-> ip_checksum(HeaderBytes(ip))]

HandlePing(frame) ==
  /\ frame.type = "ip" /\ ValidIp(frame) /\ frame.ip.protocol = ICMP
  /\ IF Message(frame.ip)[1] = ECHO_REQUEST /\ Message(frame.ip)[2] = 0
     THEN /\ sent' = Append(sent, PingReply(frame))
          /\ identification_counter' = (identification_counter + 1) % WORDS
     ELSE UNCHANGED <<sent, identification_counter>>
  /\ UNCHANGED <<segments, scanVars>>

(***************************************************************************)
(* TCP: where handle_tcp_packet finds the options of a SYN and the data of *)
(* a segment, and how send_tcp_packet writes one.                          *)
(***************************************************************************)
DataOffset(segment) == 4 * (segment[13] \div 16)

HasFlag(segment, flag) == (segment[14] \div flag) % 2 = 1

IsSyn(segment) == HasFlag(segment, SYN) /\ ~HasFlag(segment, ACK)

Sender(frame) == [ip |-> frame.ip.source_ip, port |-> SubSeq(Message(frame.ip), 1, 2)]

(* connection_match                                                        *)
Matches(frame) == Sender(frame) = remote /\ frame.ip.dest_ip = ip_addr

(* A SYN counts while there is no connection, a segment while there is.    *)
TakeSyn(frame, segment) ==
  /\ remote = NONE
  /\ IF IsSyn(segment)
     THEN ScanOptions(frame.meant.list, SubSeq(segment, 21, DataOffset(segment)))
     ELSE UNCHANGED scanVars
  /\ UNCHANGED segments

(* Whether the window has room for it is up to TcpConnection.              *)
TakeSegment(frame, segment) ==
  LET data_length == MessageLength(frame) - DataOffset(segment)
      data        == SubSeq(segment, DataOffset(segment) + 1,
                            DataOffset(segment) + data_length)
  IN  /\ remote # NONE
      /\ segments' = IF /\ data_length \in 0 .. MAX_SEGMENT
                        /\ ~HasFlag(segment, SYN) /\ HasFlag(segment, ACK)
                     THEN Append(segments, data) ELSE segments
      /\ UNCHANGED scanVars

(* Another port, another connection, or a reset (see TcpConnection).       *)
NoSegment(frame, segment) ==
  \/ SubSeq(segment, 3, 4) # <<0, 80>>
  \/ remote # NONE /\ ~Matches(frame)
  \/ HasFlag(segment, RST)

HandleTcp(frame) ==
  /\ frame.type = "ip" /\ ValidIp(frame) /\ frame.ip.protocol = TCP
  /\ LET segment == Message(frame.ip)
     IN  IF NoSegment(frame, segment) THEN UNCHANGED <<segments, scanVars>>
         ELSE TakeSyn(frame, segment) \/ TakeSegment(frame, segment)
  /\ UNCHANGED <<identification_counter, sent>>

Ignore(frame) ==
  /\ frame.type = "unknown" \/ (frame.type = "ip" /\ ~ValidIp(frame))
  /\ UNCHANGED <<identification_counter, sent, segments, scanVars>>

(* A SYN is handled to its end before the next packet.                     *)
Idle == syn.state # "scan"

(* The frames at some places of a sequence.                                *)
Those(frames, at) ==
  FlattenSeq([i \in 1 .. Len(frames) |-> IF i \in at THEN <<frames[i]>> ELSE <<>>])

CarriesTcp(f)   == f.type = "ip" /\ f.ip.protocol = TCP
Carrying(frames) == Those(frames, {i \in DOMAIN frames : CarriesTcp(frames[i])})

Bounded == Len(handled) + Len(Carrying(sent)) < MaxPackets

handle_rx_packet(frame) ==
  /\ Idle /\ Bounded
  /\ handled' = Append(handled, frame) /\ clients' = Append(clients, remote)
  /\ UNCHANGED remote
  /\ HandleArp(frame) \/ HandlePing(frame) \/ HandleTcp(frame) \/ Ignore(frame)

SYN_OPTIONS == <<2, 4>> \o Bytes(MAX_SEGMENT) \o <<1, 3, 3, 0>>

Segment(s, checksum) ==
  LET options_sent == IF s.syn THEN SYN_OPTIONS ELSE <<>>
  IN  s.numbers \o <<16 * (5 + Len(options_sent) \div 4), s.flags>> \o s.window
        \o Bytes(checksum) \o <<0, 0>> \o options_sent \o s.data

IsTo(s, client) ==
  s.dest_ip = client.ip /\ SubSeq(s.numbers, 1, 4) = <<0, 80>> \o client.port

send_tcp_packet(s) ==
  LET checksum == SegmentChecksum(ip_addr \o s.dest_ip, TCP, Segment(s, 0))
      segment  == Segment(s, checksum)
      ip       == [ihl |-> 5, total_length |-> IP_HEADER + Len(segment),
                   identification |-> identification_counter, protocol |-> TCP,
                   source_ip |-> ip_addr, dest_ip |-> s.dest_ip, body |-> segment]
  IN  /\ Idle /\ Bounded /\ IsTo(s, remote)
      /\ sent' = Append(sent, [dest |-> s.dest, source |-> local_mac, type |-> "ip",
                               length |-> ETH_HEADER + ip.total_length, ip |-> ip,
                               checksum |-> ip_checksum(HeaderBytes(ip))])
      /\ identification_counter' = (identification_counter + 1) % WORDS
      /\ UNCHANGED <<handled, clients, remote, segments, scanVars>>

Init ==
  /\ identification_counter \in {0, WORDS - 1}
  /\ remote \in {NONE} \cup Clients
  /\ handled = <<>> /\ clients = <<>> /\ sent = <<>> /\ segments = <<>>
  /\ ScanInit

(* A SYN that is taken makes its sender the other end.                     *)
Scan ==
  /\ ScanNext
  /\ remote' = IF syn'.state = "taken" THEN Sender(Last(handled)) ELSE remote
  /\ UNCHANGED packetVars

(* The connection ends (see TcpConnection).                                *)
Leave ==
  /\ Idle /\ remote # NONE /\ remote' = NONE
  /\ UNCHANGED <<packetVars, scanVars>>

Next ==
  \/ \E frame \in Frames(Len(handled)) : handle_rx_packet(frame)
  \/ \E s \in Outgoing : send_tcp_packet(s)
  \/ Scan \/ Leave

Spec == Init /\ [][Next]_vars /\ WF_vars(Scan)

(***************************************************************************)
(* Properties.                                                             *)
(***************************************************************************)

Answers(reply, request) ==
  /\ reply.dest = request.source /\ reply.source = local_mac
  /\ \/ /\ request.meant.kind = "arp" /\ reply.type = "arp"
        /\ reply.arp.oper # ARP_REQUEST
        /\ <<reply.arp.spa, reply.arp.sha>> = <<ip_addr, local_mac>>
        /\ <<reply.arp.tpa, reply.arp.tha>> = <<request.meant.ip, request.source>>
     \/ /\ request.meant.kind = "ping" /\ reply.type = "ip"
        /\ reply.ip.dest_ip = request.meant.ip
        /\ Message(reply.ip)[1] # ECHO_REQUEST
        /\ SubSeq(Message(reply.ip), 5, MessageLength(reply)) = request.meant.data
        /\ reply.length = ETH_HEADER + reply.ip.total_length
        /\ Len(reply.ip.body) = MessageLength(reply)

IsRequest(f) == f.meant.kind \in {"arp", "ping"}
IsAnswer(f)  == f.type = "arp" \/ f.ip.protocol = ICMP
IsDataOf(f, client) == f.meant.kind = "tcp" /\ f.meant.client = client

Requests(frames) == Those(frames, {i \in DOMAIN frames : IsRequest(frames[i])})
Replies(frames)  == Those(frames, {i \in DOMAIN frames : IsAnswer(frames[i])})
Carriers(frames, from) ==
  Those(frames, {i \in DOMAIN frames : IsDataOf(frames[i], from[i])})

(* Every request gets its own answer, in order and once, back to the host  *)
(* that asked, with what it sent; nothing else is ever answered, answers   *)
(* of other hosts least of all.                                            *)
EachAnswered ==
  /\ Len(Replies(sent)) = Len(Requests(handled))
  /\ \A i \in DOMAIN Replies(sent) : Answers(Replies(sent)[i], Requests(handled)[i])

(* What is sent carries checksums that its receiver accepts.               *)
SentVerifies ==
  \A i \in DOMAIN sent : sent[i].type = "ip" =>
    /\ Verifies(HeaderBytes(sent[i].ip) \o Bytes(sent[i].checksum))
    /\ LET ip == sent[i].ip
           pseudo_header == ip.source_ip \o ip.dest_ip \o <<0, ip.protocol>>
                              \o Bytes(Len(ip.body))
       IN  IF ip.protocol = TCP THEN Verifies(pseudo_header \o ip.body)
           ELSE Verifies(ip.body)

(* The connection gets the bytes its client put into the segments, without *)
(* the options of the headers and the padding of the frame, and nothing of *)
(* another host or port, or of a client whose connection has ended.        *)
SegmentsExact ==
  LET carriers == Carriers(handled, clients)
  IN  segments = [i \in 1 .. Len(carriers) |-> carriers[i].meant.data]
=============================================================================
