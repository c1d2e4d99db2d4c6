--------------------------- MODULE TcpConnection ---------------------------
(***************************************************************************)
(* The single TCP connection of src/ip_stack.c: handle_tcp_packet with     *)
(* add_segment, send_tcp_packet, and the calls open_tcp, read_tcp,         *)
(* write_tcp, shutdown_tcp and close_tcp that the web server makes.        *)
(*                                                                         *)
(* Stream positions are relative to the initial sequence numbers, as the   *)
(* code keeps them: position 0 is the SYN and data starts at 1.  Streams   *)
(* are shorter than 2^32 - 1 bytes (the server refuses larger files), so   *)
(* positions do not wrap; NO_FIN stands for the code's 0xFFFFFFFF.         *)
(*                                                                         *)
(* A byte is the pair <<connection, position>> that identifies it, so a    *)
(* byte of another connection or of another place in the stream is seen    *)
(* as wrong.                                                               *)
(*                                                                         *)
(* The network loses, duplicates, delays and reorders packets at will: a   *)
(* packet handed to handle_tcp_packet is ANY packet that the client, given *)
(* how far its side has got, can have sent at some time of the connection. *)
(* The client is a well-behaved TCP: it sends only inside the window it    *)
(* was offered and acknowledges only what it received.  Packets of other   *)
(* clients arrive as well.  A client port is not used again while packets  *)
(* of its last connection are in the network.                              *)
(***************************************************************************)
EXTENDS CircleBuffer, SegmentSet, FiniteSets

CONSTANTS
  Clients,      \* remote (mac, ip, port) triples
  TCP_WINDOW,   \* receive window                          (0x1000)
  RX_SIZE,      \* RX_MASK + 1                             (0x2000)
  TX_SIZE,      \* TX_MASK + 1                             (0x2000)
  BUFFER_SIZE,  \* unacknowledged bytes write_tcp may hold (0x1000)
  MAX_SEGMENT,  \* largest payload                         (1400)
  SEG_MASK,     \* capacity of the segment table           (31)
  NO_FIN,       \* 0xFFFFFFFF: no FIN known
  Windows,      \* window fields a client may send
  Scales,       \* window scale options a client may send
  ReadSizes,    \* buffer sizes the application reads with
  MaxRx,        \* bound: bytes a client sends on one connection
  MaxTx,        \* bound: bytes the application writes on one connection
  MaxConn       \* bound: connections accepted

(* The window field of a TCP header has 16 bits.                           *)
WINDOW_VALUES == 65536

ASSUME SizeAssumption ==
  /\ TCP_WINDOW \in Nat \ {0} /\ TCP_WINDOW < WINDOW_VALUES
  /\ MAX_SEGMENT \in Nat \ {0} /\ MAX_SEGMENT <= TCP_WINDOW
  /\ BUFFER_SIZE \in Nat \ {0}
  /\ RX_SIZE \in Nat /\ RX_SIZE >= 2 * TCP_WINDOW
  /\ TX_SIZE \in Nat /\ TX_SIZE >= 2 * BUFFER_SIZE /\ TX_SIZE > MAX_SEGMENT
  /\ SEG_MASK \in Nat \ {0}

ASSUME BoundAssumption ==
  /\ MaxRx \in Nat /\ MaxTx \in Nat /\ MaxConn \in Nat
  /\ NO_FIN \in Nat /\ NO_FIN > MaxRx + 2 /\ NO_FIN > MaxTx + 2
  /\ Windows \subseteq Nat /\ ReadSizes \subseteq Nat
  /\ 0 \in Scales /\ \A s \in Scales : s \in Nat /\ 2^s \in Nat

(* The states of tcp_conn.state (ip_stack_local.h).                        *)
TCP_LISTEN       == 0
TCP_SYN_RECEIVED == 1
TCP_SYN_ACK_SENT == 2
TCP_CONNECTED    == 3
TCP_RX_CLOSED    == 4
TCP_TX_CLOSED    == 5
TCP_BOTH_CLOSED  == 6
TCP_SEND_RST     == 7
TCP_DATA_TO_READ == 8

(* ack_timeout: -1 (send at once), a deadline ahead, or a deadline passed. *)
NOW     == "now"
ARMED   == "armed"
EXPIRED == "expired"

VARIABLES
  connection_counter,
  (* struct tcp_conn *)
  state, connection_id, remote, remote_window_scale, remote_window,
  rx_buffer, rx_write, rx_read, rx_fin, rx_segments,
  tx_buffer, tx_write, tx_sent, tx_acked, tx_limit, tx_fin,
  ack_timeout,
  (* the application *)
  app_id,     \* connection id it works with, -1 for none
  wlen,       \* bytes still to write in the write_tcp call under way, or 0
  delivered,  \* bytes read_tcp has returned to it for app_id
  (* history of what went out, and of the fault message *)
  syn_acks,   \* sequence positions of the SYN-ACKs sent
  sent,       \* for each position sent, the byte of its last transmission
  fins,       \* positions at which a FIN was sent
  rx_edge,    \* right edge of the window last advertised
  illegal,    \* add_segment has printed "Illegal state"
  (* the client *)
  peer_next,  \* next position it expects, -1 before it has a SYN-ACK
  peer_eof,   \* it has accepted a FIN
  peer_sent,  \* end of what it has sent
  peer_fin    \* it has sent its FIN

ctlVars  == <<connection_counter, connection_id, remote, remote_window_scale>>
rxVars   == <<rx_buffer, rx_write, rx_read, rx_fin, rx_segments, illegal>>
txVars   == <<tx_buffer, tx_write, tx_sent, tx_acked, tx_limit, tx_fin,
              remote_window>>
appVars  == <<app_id, wlen, delivered>>
outVars  == <<syn_acks, sent, fins, rx_edge>>
peerVars == <<peer_next, peer_eof, peer_sent, peer_fin>>
vars     == <<ctlVars, state, ack_timeout, rxVars, txVars, appVars, outVars,
              peerVars>>

Byte(c, p) == <<c, p>>
Smaller(a, b) == IF a < b THEN a ELSE b
Larger(a, b)  == IF a > b THEN a ELSE b

(***************************************************************************)
(* Packets that may arrive.                                                *)
(***************************************************************************)
(* The payload of p: the bytes of the stream p belongs to.                 *)
Payload(p) == [k \in 0 .. p.len-1 |-> Byte(p.conn, p.seq + k)]

(* Position ranges a client may have sent: inside its stream, a FIN only   *)
(* at its end; once it has sent the FIN its pure ACKs follow the FIN.      *)
ClientRange(seq, len, fin) ==
  \/ seq + len <= peer_sent /\ (fin => peer_fin /\ seq + len = peer_sent)
  \/ peer_fin /\ seq = peer_sent + 1 /\ len = 0 /\ ~fin

(* Acknowledgements a client may have sent.  A client that took the        *)
(* SYN-ACK for position -1 stays at 0.                                     *)
ClientAck(ack) ==
  \/ peer_next = 0 /\ ack = 0
  \/ peer_next > 0 /\ ack \in 1 .. peer_next

(***************************************************************************)
(* Faulty forms of definitions below, the kind of slip a change to the     *)
(* code could make.  Nothing uses them; PROJECT.json names the property    *)
(* that each of them breaks.                                               *)
(***************************************************************************)
FaultTableFull          == Cardinality(rx_segments) = SEG_MASK + 1
FaultFinPosition(p)     == p.seq                    \* payload forgotten
FaultStateAfterAck(ack) == IF ack > tx_acked THEN TCP_CONNECTED ELSE state
FaultRaisedLimit(limit) == limit                    \* no maximum taken
FaultStateAfterRst      == TCP_LISTEN               \* freed at once
FaultWindowField        == TCP_WINDOW % WINDOW_VALUES   \* unread data ignored
FaultFinWanted          == tx_fin # NO_FIN          \* without waiting for acks
FaultBufferAvailable    == TX_SIZE - (tx_write - tx_acked)
FaultTimedOut           == FALSE                    \* nothing is sent again
FaultFinCounted(p)      == p.seq + p.len + 1        \* the FIN as a byte
FaultCloseTcp ==                                    \* whichever is current
  /\ wlen = 0 /\ app_id # -1
  /\ state' = TCP_LISTEN /\ app_id' = -1
  /\ UNCHANGED <<ctlVars, ack_timeout, rxVars, txVars, wlen, delivered,
                 outVars, peerVars>>

(***************************************************************************)
(* add_segment                                                             *)
(***************************************************************************)
TableFull == Cardinality(rx_segments) = SEG_MASK

(* latest_index is never assigned, so a full table always ends in the      *)
(* first "Illegal state" return, after the payload was copied.             *)
AddSegment(p) ==
  LET new  == [position |-> p.seq, length |-> p.len]
      segs == rx_segments \cup {new}
  IN  \/ /\ p.seq + p.len <= rx_write \/ new \in rx_segments
         /\ UNCHANGED <<rx_buffer, rx_segments, rx_write, illegal>>
      \/ /\ p.seq + p.len > rx_write
         /\ new \notin rx_segments
         /\ rx_buffer' = CopyTo(rx_buffer, RX_SIZE, p.seq, Payload(p), p.len)
         /\ \/ /\ TableFull
               /\ illegal' = TRUE
               /\ UNCHANGED <<rx_segments, rx_write>>
            \/ /\ ~TableFull
               /\ \E n \in rx_write .. NO_FIN :
                    /\ MergedTo(segs, rx_write, n)
                    /\ rx_write' = n
                    /\ rx_segments' = Ahead(segs, n)
               /\ UNCHANGED illegal

(***************************************************************************)
(* handle_tcp_packet.  Packets it drops change nothing and are no steps.   *)
(***************************************************************************)
(* LISTEN and a SYN without ACK.  mss and scale are what scan_options      *)
(* finds; an absent scale option counts as 0.                              *)
HandleSyn(c, win, scale, mss) ==
  /\ state = TCP_LISTEN
  /\ scale <= 14
  /\ mss # 0
  /\ connection_counter <= MaxConn
  /\ connection_id' = connection_counter
  /\ connection_counter' = connection_counter + 1
  /\ state' = TCP_SYN_RECEIVED
  /\ remote' = c
  /\ remote_window_scale' = scale
  /\ remote_window' = win * 2^scale
  /\ rx_write' = 1 /\ rx_read' = 1 /\ rx_fin' = NO_FIN /\ rx_segments' = {}
  /\ tx_write' = 1 /\ tx_sent' = 1 /\ tx_acked' = 0 /\ tx_fin' = NO_FIN
  /\ tx_limit' = 1 + remote_window'
  /\ ack_timeout' = NOW
  /\ syn_acks' = {} /\ sent' = <<>> /\ fins' = {} /\ rx_edge' = 1
  /\ peer_next' = -1 /\ peer_eof' = FALSE /\ peer_sent' = 1 /\ peer_fin' = FALSE
  /\ UNCHANGED <<rx_buffer, tx_buffer, illegal, appVars>>

(* The packets of this module are addressed to the server.  The code also  *)
(* compares the destination address here and drops what is for another     *)
(* one, which is no step; IpStack!Matches has all four comparisons.        *)
ConnectionMatch(p) == p.from = remote

StateAfterRst == TCP_SEND_RST

HandleRst(p) ==
  /\ state # TCP_LISTEN
  /\ ConnectionMatch(p)
  /\ p.rst
  /\ state' = StateAfterRst
  /\ ack_timeout' = NOW
  /\ UNCHANGED <<ctlVars, rxVars, txVars, appVars, outVars, peerVars>>

FitsWindow(p) == rx_write + p.len <= rx_read + TCP_WINDOW

FinPosition(p) == p.seq + p.len

RaisedLimit(limit) == Larger(tx_limit, limit)

StateAfterAck(ack) ==
  IF state = TCP_SYN_ACK_SENT /\ ack > tx_acked THEN TCP_CONNECTED ELSE state

HandleSegment(p) ==
  LET acked == p.ack > tx_acked
  IN  /\ state # TCP_LISTEN
      /\ ConnectionMatch(p)
      /\ ~p.rst
      /\ p.len <= MAX_SEGMENT
      /\ FitsWindow(p)
      /\ AddSegment(p)
      /\ tx_acked' = IF acked THEN p.ack ELSE tx_acked
      /\ remote_window' = p.win * 2^remote_window_scale
      /\ tx_limit' = RaisedLimit(tx_acked' + remote_window')
      /\ state' = StateAfterAck(p.ack)
      /\ rx_fin' = IF p.fin THEN FinPosition(p) ELSE rx_fin
      /\ ack_timeout' = IF p.fin \/ p.len > 0 \/ (acked /\ p.ack = tx_fin)
                        THEN NOW ELSE ack_timeout
      /\ UNCHANGED <<ctlVars, rx_read, tx_buffer, tx_write, tx_sent, tx_fin,
                     appVars, outVars, peerVars>>

(***************************************************************************)
(* send_tcp_packet                                                         *)
(***************************************************************************)
(* C's "!": the code tests "!state == TCP_DATA_TO_READ", and !state is 0   *)
(* or 1, so the block that records closed directions is never entered.     *)
CNot(x) == IF x = 0 THEN 1 ELSE 0

RecordClosed(s, fin) ==
  LET s1 == IF rx_write >= rx_fin
            THEN IF s = TCP_TX_CLOSED THEN TCP_BOTH_CLOSED ELSE TCP_RX_CLOSED
            ELSE s
  IN  IF fin
      THEN IF s1 = TCP_RX_CLOSED THEN TCP_BOTH_CLOSED ELSE TCP_TX_CLOSED
      ELSE s1

StateAfterSend(syn, fin) ==
  LET s1 == IF syn THEN TCP_SYN_ACK_SENT ELSE state
      s2 == IF s1 = TCP_SEND_RST THEN TCP_DATA_TO_READ ELSE s1
  IN  IF CNot(s2) = TCP_DATA_TO_READ THEN RecordClosed(s2, fin) ELSE s2

SendWanted == tx_sent < tx_write \/ ack_timeout = NOW \/ state = TCP_SEND_RST

TimedOut == ~SendWanted /\ tx_acked < tx_sent /\ ack_timeout = EXPIRED

WindowField == (rx_read + TCP_WINDOW - rx_write) % WINDOW_VALUES

(* The FIN flag: everything before tx_fin has been acknowledged.           *)
FinWanted == tx_acked >= tx_fin

SendTcpPacket ==
  LET from  == IF TimedOut THEN tx_acked ELSE tx_sent
      limit == IF TimedOut THEN tx_acked + remote_window ELSE tx_limit
      syn   == tx_acked = 0
      fin   == FinWanted
      len   == IF syn THEN 0
               ELSE Smaller(Smaller(tx_write - from, limit - from), MAX_SEGMENT)
      bytes == CopyFrom(tx_buffer, TX_SIZE, from, len)
      after == StateAfterSend(syn, fin)
  IN  /\ state # TCP_LISTEN
      /\ SendWanted \/ TimedOut
      /\ tx_limit' = limit
      /\ tx_sent' = from + len
      /\ IF after = TCP_BOTH_CLOSED
         THEN state' = TCP_SEND_RST /\ ack_timeout' = NOW
         ELSE state' = after /\ ack_timeout' = ARMED
      /\ syn_acks' = IF syn THEN syn_acks \cup {from - 1} ELSE syn_acks
      /\ sent' = [p \in DOMAIN sent \cup (from .. from+len-1) |->
                    IF p \in from .. from+len-1
                    THEN bytes[p - from] ELSE sent[p]]
      /\ fins' = IF fin THEN fins \cup {from + len} ELSE fins
      /\ rx_edge' = rx_write + WindowField
      /\ UNCHANGED <<ctlVars, rxVars, tx_buffer, tx_write, tx_acked, tx_fin,
                     remote_window, appVars, peerVars>>

(* get_now counts whole seconds, in milliseconds, and ACK_TIMEOUT is 20:   *)
(* a deadline has passed as soon as the clock moves at all.                *)
Tick ==
  /\ state # TCP_LISTEN
  /\ ack_timeout = ARMED
  /\ ack_timeout' = EXPIRED
  /\ UNCHANGED <<ctlVars, state, rxVars, txVars, appVars, outVars, peerVars>>

(***************************************************************************)
(* The application's calls.  write_tcp runs ip_stack_poll between chunks,  *)
(* so packets are handled and sent while wlen > 0, but no other call is.   *)
(***************************************************************************)
OpenTcp ==
  /\ app_id = -1
  /\ state # TCP_LISTEN
  /\ app_id' = connection_id
  /\ delivered' = <<>>
  /\ UNCHANGED <<ctlVars, state, ack_timeout, rxVars, txVars, wlen, outVars,
                 peerVars>>

Usable == state # TCP_LISTEN /\ connection_id = app_id

(* read_tcp on a reset connection with nothing left to read frees it.      *)
ReadReset ==
  /\ wlen = 0 /\ Usable
  /\ state = TCP_DATA_TO_READ
  /\ rx_read >= rx_write \/ rx_read >= rx_fin
  /\ state' = TCP_LISTEN
  /\ UNCHANGED <<ctlVars, ack_timeout, rxVars, txVars, appVars, outVars,
                 peerVars>>

(* read_tcp returning data; a read of nothing changes nothing.             *)
ReadTcp(size) ==
  LET len   == Smaller(size, rx_write - rx_read)
      bytes == CopyFrom(rx_buffer, RX_SIZE, rx_read, len)
  IN  /\ wlen = 0 /\ Usable
      /\ rx_read < rx_fin
      /\ len > 0
      /\ rx_read' = rx_read + len
      /\ delivered' = [i \in 1 .. rx_read + len - 1 |->
                         IF i < rx_read THEN delivered[i]
                         ELSE bytes[i - rx_read]]
      /\ ack_timeout' = NOW
      /\ UNCHANGED <<ctlVars, state, rx_buffer, rx_write, rx_fin, rx_segments,
                     illegal, txVars, app_id, wlen, outVars, peerVars>>

(* Entering write_tcp: the connection is checked here and not again.  The  *)
(* web server writes nothing after shutdown_tcp.                           *)
WriteCall(n) ==
  /\ wlen = 0 /\ Usable
  /\ tx_fin = NO_FIN
  /\ tx_write + n <= MaxTx + 1
  /\ wlen' = n
  /\ UNCHANGED <<ctlVars, state, ack_timeout, rxVars, txVars, app_id,
                 delivered, outVars, peerVars>>

BufferAvailable == BUFFER_SIZE - (tx_write - tx_acked)

WindowAvailable == tx_acked + remote_window - tx_write

WriteRoom == Smaller(WindowAvailable, BufferAvailable)

(* One pass of the write_tcp loop that finds room.                         *)
WriteChunk ==
  LET len   == Smaller(wlen, WriteRoom)
      bytes == [k \in 0 .. len-1 |-> Byte(app_id, tx_write + k)]
  IN  /\ wlen > 0
      /\ len > 0
      /\ tx_buffer' = CopyTo(tx_buffer, TX_SIZE, tx_write, bytes, len)
      /\ tx_write' = tx_write + len
      /\ wlen' = wlen - len
      /\ UNCHANGED <<ctlVars, state, ack_timeout, rxVars, tx_sent, tx_acked,
                     tx_limit, tx_fin, remote_window, app_id, delivered,
                     outVars, peerVars>>

ShutdownTcp ==
  /\ wlen = 0 /\ Usable
  /\ tx_fin' = tx_write
  /\ UNCHANGED <<ctlVars, state, ack_timeout, rxVars, tx_buffer, tx_write,
                 tx_sent, tx_acked, tx_limit, remote_window, appVars, outVars,
                 peerVars>>

(* close_tcp; the web server forgets the id with it.                       *)
CloseTcp ==
  /\ wlen = 0
  /\ app_id # -1
  /\ state' = IF connection_id = app_id THEN TCP_LISTEN ELSE state
  /\ app_id' = -1
  /\ UNCHANGED <<ctlVars, ack_timeout, rxVars, txVars, wlen, delivered,
                 outVars, peerVars>>

(***************************************************************************)
(* The client's own progress.                                              *)
(***************************************************************************)
stackVars == <<ctlVars, state, ack_timeout, rxVars, txVars, appVars, outVars>>

PeerAccept ==
  /\ peer_next = -1
  /\ \E s \in syn_acks : peer_next' = s + 1
  /\ UNCHANGED <<stackVars, peer_eof, peer_sent, peer_fin>>

PeerReceive ==
  /\ peer_next > 0 /\ ~peer_eof
  /\ peer_next \in DOMAIN sent
  /\ peer_next' = peer_next + 1
  /\ UNCHANGED <<stackVars, peer_eof, peer_sent, peer_fin>>

PeerReceiveFin ==
  /\ peer_next > 0 /\ ~peer_eof
  /\ peer_next \in fins
  /\ peer_next' = peer_next + 1
  /\ peer_eof' = TRUE
  /\ UNCHANGED <<stackVars, peer_sent, peer_fin>>

PeerSend ==
  /\ peer_next >= 0 /\ ~peer_fin
  /\ peer_sent < rx_edge /\ peer_sent <= MaxRx
  /\ peer_sent' = peer_sent + 1
  /\ UNCHANGED <<stackVars, peer_next, peer_eof, peer_fin>>

PeerFin ==
  /\ peer_next >= 0 /\ ~peer_fin
  /\ peer_fin' = TRUE
  /\ UNCHANGED <<stackVars, peer_next, peer_eof, peer_sent>>

(***************************************************************************)
Packet(c, seq, len, ack, win, fin, rst) ==
  [from |-> c, conn |-> IF c = remote THEN connection_id ELSE 0,
   seq |-> seq, len |-> len, ack |-> ack, win |-> win, fin |-> fin,
   rst |-> rst]

ArriveSyn ==
  \E c \in Clients, win \in Windows, scale \in Scales, mss \in {0, 1} :
    HandleSyn(c, win, scale, mss)

ArriveRst == \E c \in Clients : HandleRst(Packet(c, 0, 0, 0, 0, FALSE, TRUE))

(* Packets of other clients carry any numbers.                             *)
ArriveSegment ==
  \E c \in Clients, seq \in 1 .. MaxRx + 2, len \in 0 .. MAX_SEGMENT, fin \in BOOLEAN :
    /\ c = remote => peer_next >= 0 /\ ClientRange(seq, len, fin)
    /\ \E ack \in 0 .. MaxTx + 2, win \in Windows :
         /\ c = remote => ClientAck(ack)
         /\ HandleSegment(Packet(c, seq, len, ack, win, fin, FALSE))

Init ==
  /\ connection_counter = 1
  /\ state = TCP_LISTEN
  /\ connection_id = 0
  /\ remote \in Clients
  /\ remote_window_scale = 0 /\ remote_window = 0
  /\ rx_buffer = [i \in 0 .. RX_SIZE-1 |-> Byte(0, 0)]
  /\ rx_write = 0 /\ rx_read = 0 /\ rx_fin = 0 /\ rx_segments = {}
  /\ tx_buffer = [i \in 0 .. TX_SIZE-1 |-> Byte(0, 0)]
  /\ tx_write = 0 /\ tx_sent = 0 /\ tx_acked = 0 /\ tx_limit = 0 /\ tx_fin = 0
  /\ ack_timeout = ARMED
  /\ app_id = -1 /\ wlen = 0 /\ delivered = <<>>
  /\ syn_acks = {} /\ sent = <<>> /\ fins = {} /\ rx_edge = 0
  /\ illegal = FALSE
  /\ peer_next = -1 /\ peer_eof = FALSE /\ peer_sent = 0 /\ peer_fin = FALSE

Stack == ArriveSyn \/ ArriveRst \/ ArriveSegment \/ SendTcpPacket \/ Tick

Application ==
  \/ OpenTcp \/ ReadReset \/ (\E n \in ReadSizes : ReadTcp(n))
  \/ (\E n \in 1 .. MaxTx : WriteCall(n)) \/ WriteChunk
  \/ ShutdownTcp \/ CloseTcp

Client == PeerAccept \/ PeerReceive \/ PeerReceiveFin \/ PeerSend \/ PeerFin

Next == Stack \/ Application \/ Client

Spec == Init /\ [][Next]_vars

(***************************************************************************)
(* Properties.                                                             *)
(***************************************************************************)
(* Type invariant of the connection record, its counters and the history.  *)
TypeOK ==
  /\ connection_counter \in Nat /\ connection_id \in Nat
  /\ state \in 0 .. 8
  /\ remote \in Clients
  /\ remote_window_scale \in Scales /\ remote_window \in Nat
  /\ rx_buffer \in [0 .. RX_SIZE-1 -> Nat \X Nat]
  /\ rx_write \in Nat /\ rx_read \in Nat /\ rx_fin \in Nat
  /\ rx_segments \subseteq [position : Nat, length : Nat]
  /\ IsFiniteSet(rx_segments) /\ Cardinality(rx_segments) <= SEG_MASK
  /\ tx_buffer \in [0 .. TX_SIZE-1 -> Nat \X Nat]
  /\ tx_write \in Nat /\ tx_sent \in Nat /\ tx_acked \in Nat
  /\ tx_limit \in Nat /\ tx_fin \in Nat
  /\ ack_timeout \in {NOW, ARMED, EXPIRED}
  /\ app_id \in Nat \cup {-1} /\ wlen \in Nat
  /\ syn_acks \subseteq {-1, 0} /\ fins \subseteq Nat
  /\ rx_edge \in Nat /\ illegal \in BOOLEAN
  /\ peer_next \in Nat \cup {-1} /\ peer_sent \in Nat
  /\ peer_eof \in BOOLEAN /\ peer_fin \in BOOLEAN

(* What read_tcp has returned is the client's stream of the connection the *)
(* application opened, in order and without gaps, whatever was lost,       *)
(* repeated, reordered or cut differently on the way: no byte that was     *)
(* never received, and none of another connection.                         *)
ReadIntegrity ==
  app_id # -1 =>
    \A i \in DOMAIN delivered : delivered[i] = Byte(app_id, i)

(* Every transmission of a position carries the byte the application wrote *)
(* there: neither the rollback after a timeout, nor an acknowledgement     *)
(* that comes after it, lets send_tcp_packet read a ring position that     *)
(* write_tcp has used again.  Position 0 is the SYN's: after the timeout   *)
(* of a SYN-ACK the code does send one stale byte there, which the client  *)
(* has acknowledged already and discards.                                  *)
SendIntegrity ==
  state # TCP_LISTEN =>
    \A p \in DOMAIN sent \ {0} : sent[p] = Byte(connection_id, p)

(* The 16-bit window field is never the wrapped image of a negative        *)
(* number, and no window offered so far reaches past the room there is.    *)
WindowSound ==
  state # TCP_LISTEN =>
    /\ rx_read <= rx_write
    /\ rx_write <= rx_read + TCP_WINDOW
    /\ rx_edge <= rx_read + TCP_WINDOW

(* A client that has seen the end of the stream has seen all of it: the    *)
(* FIN goes out only where shutdown_tcp was called, after every byte.      *)
ClientSeesFinAtEnd ==
  state # TCP_LISTEN /\ peer_eof => tx_fin = tx_write /\ peer_next = tx_fin + 1

(* When read_tcp reports the end of the stream because of rx_fin, the      *)
(* client has closed its side and every byte it sent has been read.        *)
EofComplete ==
  state # TCP_LISTEN /\ rx_read >= rx_fin =>
    peer_fin /\ rx_read = peer_sent

(* write_tcp checks the connection once and then polls: the connection it  *)
(* checked is still the current one at every later pass of its loop.       *)
WriteHoldsConnection ==
  wlen > 0 => state # TCP_LISTEN /\ connection_id = app_id

(* A reset connection that was established stays reset until it is freed:  *)
(* no segment that was still under way revives it.                         *)
ResetIsFinal ==
  [][ ( /\ state \in {TCP_SEND_RST, TCP_DATA_TO_READ}
        /\ tx_acked > 0
        /\ connection_id' = connection_id )
      => state' \in {TCP_SEND_RST, TCP_DATA_TO_READ, TCP_LISTEN} ]_vars

(* The unsigned differences tx_write - tx_sent and tx_limit - tx_sent of   *)
(* send_tcp_packet never wrap, whatever window the client's reordered      *)
(* acknowledgements leave behind and wherever a timeout moves tx_sent.     *)
SendWithinLimits ==
  state # TCP_LISTEN => tx_sent <= tx_write /\ tx_sent <= tx_limit

(* add_segment names a state illegal and reports it: it is never reached.  *)
NoIllegalState == ~illegal
=============================================================================
