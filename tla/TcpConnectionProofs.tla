------------------------ MODULE TcpConnectionProofs ------------------------
(***************************************************************************)
(* Theorems about TcpConnection for every ring, window, payload and table  *)
(* size that its assumptions allow, and every number of clients and        *)
(* connections.                                                            *)
(***************************************************************************)
EXTENDS TcpStream, DataLemmas, SequenceTheorems

(***************************************************************************)
(* Type correctness.                                                       *)
(***************************************************************************)
(* The type invariant is inductive with two facts: a write_tcp under way   *)
(* belongs to an open connection, and nothing but the SYN-ACK is sent      *)
(* before the first acknowledgement.                                       *)
TypeInv ==
  /\ TypeOK
  /\ wlen > 0 => app_id \in Nat
  /\ tx_acked = 0 => tx_sent \in {0, 1}

LEMMA InitTypeInv == Init => TypeInv
<1> SUFFICES ASSUME Init
             PROVE  TypeInv
  OBVIOUS
<1>1. IsFiniteSet({}) /\ Cardinality({}) = 0
  BY FS_EmptySet
<1>2. /\ rx_buffer \in [0 .. RX_SIZE-1 -> Nat \X Nat]
      /\ tx_buffer \in [0 .. TX_SIZE-1 -> Nat \X Nat]
  BY DEF Init, Byte
<1>3. rx_segments = {} /\ SEG_MASK \in Nat
  BY SizeAssumption DEF Init
<1>4. /\ rx_segments \subseteq [position : Nat, length : Nat]
      /\ IsFiniteSet(rx_segments) /\ Cardinality(rx_segments) <= SEG_MASK
  BY <1>1, <1>3
<1>5. remote_window_scale \in Scales /\ rx_fin \in Nat
  BY BoundAssumption DEF Init
<1>6. illegal \in BOOLEAN /\ peer_eof \in BOOLEAN /\ peer_fin \in BOOLEAN
  BY Zenon DEF Init
<1>7. /\ connection_counter \in Nat /\ connection_id \in Nat
      /\ state \in 0 .. 8 /\ remote \in Clients /\ remote_window \in Nat
      /\ rx_write \in Nat /\ rx_read \in Nat
      /\ tx_write \in Nat /\ tx_sent \in {0, 1} /\ tx_acked \in Nat
      /\ tx_limit \in Nat /\ tx_fin \in Nat
      /\ app_id = -1 /\ wlen = 0
      /\ syn_acks = {} /\ fins = {} /\ rx_edge \in Nat
      /\ peer_next = -1 /\ peer_sent \in Nat
  BY DEF Init, TCP_LISTEN
<1>8. ack_timeout \in {NOW, ARMED, EXPIRED}
  BY DEF Init
<1> QED
  BY <1>2, <1>4, <1>5, <1>6, <1>7, <1>8 DEF TypeInv, TypeOK

(* The table stays within its capacity: a segment is added only when it is *)
(* not full, and the merge only removes segments.                          *)
LEMMA TableBounded ==
  ASSUME TypeOK, NEW new \in [position : Nat, length : Nat], NEW n \in Nat,
         ~TableFull, new \notin rx_segments
  PROVE  LET kept == Ahead(rx_segments \cup {new}, n)
         IN  /\ kept \subseteq [position : Nat, length : Nat]
             /\ IsFiniteSet(kept)
             /\ Cardinality(kept) <= SEG_MASK
<1> DEFINE segs == rx_segments \cup {new}
           kept == Ahead(segs, n)
<1>1. IsFiniteSet(rx_segments) /\ Cardinality(rx_segments) \in Nat
  BY FS_CardinalityType DEF TypeOK
<1>2. IsFiniteSet(segs) /\ Cardinality(segs) = Cardinality(rx_segments) + 1
  BY <1>1, FS_AddElement
<1>3. Cardinality(segs) <= SEG_MASK
  BY <1>1, <1>2, SizeAssumption DEF TypeOK, TableFull
<1>4. kept \subseteq segs
  BY DEF Ahead
<1>5. IsFiniteSet(kept) /\ Cardinality(kept) <= Cardinality(segs)
  BY <1>2, <1>4, FS_Subset
<1>6. Cardinality(kept) \in Nat /\ Cardinality(segs) \in Nat
  BY <1>2, <1>5, FS_CardinalityType
<1>7. kept \subseteq [position : Nat, length : Nat]
  BY <1>4 DEF TypeOK
<1> SUFFICES /\ kept \subseteq [position : Nat, length : Nat]
             /\ IsFiniteSet(kept)
             /\ Cardinality(kept) <= SEG_MASK
  OBVIOUS
<1> HIDE DEF kept, segs
<1>8. SEG_MASK \in Nat
  BY SizeAssumption
<1> QED
  BY <1>3, <1>5, <1>6, <1>7, <1>8

(* The type invariant in three parts, by the kind of value they type.      *)
Scalars ==
  /\ connection_counter \in Nat /\ connection_id \in Nat
  /\ state \in 0 .. 8
  /\ remote \in Clients
  /\ remote_window_scale \in Scales /\ remote_window \in Nat
  /\ rx_write \in Nat /\ rx_read \in Nat /\ rx_fin \in Nat
  /\ tx_write \in Nat /\ tx_sent \in Nat /\ tx_acked \in Nat
  /\ tx_limit \in Nat /\ tx_fin \in Nat
  /\ ack_timeout \in {NOW, ARMED, EXPIRED}
  /\ app_id \in Nat \cup {-1} /\ wlen \in Nat
  /\ syn_acks \subseteq {-1, 0} /\ fins \subseteq Nat
  /\ rx_edge \in Nat
  /\ peer_next \in Nat \cup {-1} /\ peer_sent \in Nat
  /\ wlen > 0 => app_id \in Nat
  /\ tx_acked = 0 => tx_sent \in {0, 1}

Tables ==
  /\ rx_buffer \in [0 .. RX_SIZE-1 -> Nat \X Nat]
  /\ tx_buffer \in [0 .. TX_SIZE-1 -> Nat \X Nat]
  /\ rx_segments \subseteq [position : Nat, length : Nat]
  /\ IsFiniteSet(rx_segments) /\ Cardinality(rx_segments) <= SEG_MASK

Flags == illegal \in BOOLEAN /\ peer_eof \in BOOLEAN /\ peer_fin \in BOOLEAN

LEMMA TypeParts ==
  /\ TypeInv => Scalars /\ Tables /\ Flags
  /\ Scalars' /\ Tables' /\ Flags' => TypeInv'
  BY DEF TypeInv, TypeOK, Scalars, Tables, Flags

LEMMA TypeSyn ==
  ASSUME TypeInv, ArriveSyn
  PROVE  TypeInv'
<1> USE DEF HandleSyn, ctlVars, rxVars, txVars, appVars, outVars, peerVars
<1>1. Scalars /\ Tables /\ Flags
  BY TypeParts
<1>2. PICK c \in Clients, win \in Windows, scale \in Scales, mss \in {0, 1} :
        HandleSyn(c, win, scale, mss)
  BY DEF ArriveSyn
<1>3. win \in Nat /\ 2^scale \in Nat /\ NO_FIN \in Nat
  BY BoundAssumption
<1> DEFINE power == 2^scale
<1>4. remote_window' = win * power /\ power \in Nat
  BY <1>2, <1>3
<1> HIDE DEF power
<1>5. remote_window' \in Nat
  BY <1>3, <1>4
<1>6. Scalars'
  BY <1>1, <1>2, <1>3, <1>5 DEF Scalars, TCP_SYN_RECEIVED, NOW
<1>7. rx_segments' = {} /\ UNCHANGED <<rx_buffer, tx_buffer>>
  BY <1>2
<1>8. Tables'
  <2> HIDE DEF HandleSyn, ctlVars, rxVars, txVars, appVars, outVars, peerVars
  <2>1. IsFiniteSet({}) /\ Cardinality({}) = 0
    BY FS_EmptySet
  <2>2. IsFiniteSet(rx_segments') /\ Cardinality(rx_segments') = 0
    BY <1>7, <2>1
  <2>3. SEG_MASK \in Nat
    BY SizeAssumption
  <2> QED
    BY <1>1, <1>7, <2>2, <2>3 DEF Tables
<1>9. Flags'
  BY <1>1, <1>2, Zenon DEF Flags
<1> QED
  BY <1>6, <1>8, <1>9, TypeParts

(* What a step of add_segment leaves in the ring and in the table.         *)
LEMMA TypeAddSegment ==
  ASSUME TypeInv, NEW p,
         p.conn \in Nat, p.seq \in Nat, p.len \in Nat,
         AddSegment(p), UNCHANGED tx_buffer
  PROVE  Tables' /\ rx_write' \in Nat /\ illegal' \in BOOLEAN
<1> DEFINE new  == [position |-> p.seq, length |-> p.len]
           segs == rx_segments \cup {new}
<1>1. Scalars /\ Tables /\ Flags
  BY TypeParts
<1>2. CASE UNCHANGED <<rx_buffer, rx_segments, rx_write, illegal>>
  <2>1. Tables' /\ rx_write' \in Nat
    BY <1>1, <1>2 DEF Tables, Scalars
  <2>2. illegal' \in BOOLEAN
    BY <1>1, <1>2, Zenon DEF Flags
  <2> QED
    BY <2>1, <2>2
<1>3. CASE /\ new \notin rx_segments
           /\ rx_buffer' = CopyTo(rx_buffer, RX_SIZE, p.seq, Payload(p), p.len)
           /\ \/ /\ TableFull
                 /\ illegal' = TRUE
                 /\ UNCHANGED <<rx_segments, rx_write>>
              \/ /\ ~TableFull
                 /\ \E n \in rx_write .. NO_FIN :
                      /\ MergedTo(segs, rx_write, n)
                      /\ rx_write' = n
                      /\ rx_segments' = Ahead(segs, n)
                 /\ UNCHANGED illegal
  <2>1. Payload(p) \in [0 .. p.len-1 -> Nat \X Nat]
    BY DEF Payload, Byte
  <2>2. RX_SIZE \in Nat \ {0}
    BY SizeAssumption
  <2>3. rx_buffer \in [0 .. RX_SIZE-1 -> Nat \X Nat]
    BY <1>1 DEF Tables
  <2>4. rx_buffer' \in [0 .. RX_SIZE-1 -> Nat \X Nat]
    BY <1>3, <2>1, <2>2, <2>3, CopyToType
  <2>5. CASE TableFull /\ illegal' = TRUE /\ UNCHANGED <<rx_segments, rx_write>>
    <3>1. Tables' /\ rx_write' \in Nat
      BY <1>1, <2>4, <2>5 DEF Tables, Scalars
    <3>2. illegal' \in BOOLEAN
      BY <2>5, Zenon
    <3> QED
      BY <3>1, <3>2
  <2>6. CASE /\ ~TableFull
             /\ \E n \in rx_write .. NO_FIN :
                  /\ rx_write' = n
                  /\ rx_segments' = Ahead(segs, n)
             /\ UNCHANGED illegal
    <3>1. PICK n \in rx_write .. NO_FIN :
            rx_write' = n /\ rx_segments' = Ahead(segs, n)
      BY <2>6
    <3>2. n \in Nat /\ new \in [position : Nat, length : Nat]
      BY <1>1 DEF Scalars
    <3>3. /\ Ahead(segs, n) \subseteq [position : Nat, length : Nat]
          /\ IsFiniteSet(Ahead(segs, n))
          /\ Cardinality(Ahead(segs, n)) <= SEG_MASK
      BY <1>3, <2>6, <3>2, TableBounded DEF TypeInv
    <3>4. Tables'
      BY <1>1, <2>4, <3>1, <3>3 DEF Tables
    <3>5. illegal' \in BOOLEAN
      BY <1>1, <2>6, Zenon DEF Flags
    <3> QED
      BY <3>1, <3>2, <3>4, <3>5
  <2> QED
    BY <1>3, <2>5, <2>6
<1> QED
  BY <1>2, <1>3 DEF AddSegment

LEMMA TypeSegment ==
  ASSUME TypeInv, ArriveSegment
  PROVE  TypeInv'
<1> USE DEF ctlVars, appVars, outVars, peerVars
<1>1. Scalars /\ Tables /\ Flags
  BY TypeParts
<1>2. PICK c \in Clients, seq \in 1 .. MaxRx + 2, len \in 0 .. MAX_SEGMENT,
           ack \in 0 .. MaxTx + 2, win \in Windows, fin \in BOOLEAN :
        HandleSegment(Packet(c, seq, len, ack, win, fin, FALSE))
  BY DEF ArriveSegment
<1> DEFINE p == Packet(c, seq, len, ack, win, fin, FALSE)
           power == 2^remote_window_scale
<1>3. /\ p.conn \in Nat /\ p.seq \in Nat /\ p.len \in Nat
      /\ p.ack \in Nat /\ p.win \in Nat
  BY <1>1, BoundAssumption, SizeAssumption DEF Packet, Scalars
<1>4. power \in Nat
  BY <1>1, BoundAssumption DEF Scalars
<1>5. /\ AddSegment(p)
      /\ tx_acked' = IF p.ack > tx_acked THEN p.ack ELSE tx_acked
      /\ remote_window' = p.win * power
      /\ tx_limit' = RaisedLimit(tx_acked' + remote_window')
      /\ state' = StateAfterAck(p.ack)
      /\ rx_fin' \in {p.seq + p.len, rx_fin}
      /\ ack_timeout' \in {NOW, ack_timeout}
      /\ UNCHANGED <<ctlVars, rx_read, tx_buffer, tx_write, tx_sent, tx_fin,
                     appVars, outVars, peerVars>>
  BY <1>2 DEF HandleSegment, FinPosition
<1> HIDE DEF p, power
<1>6. Tables' /\ rx_write' \in Nat /\ illegal' \in BOOLEAN
  BY <1>3, <1>5, TypeAddSegment
<1>7. remote_window' \in Nat /\ tx_acked' \in Nat
  BY <1>1, <1>3, <1>4, <1>5 DEF Scalars
<1>8. tx_limit' \in Nat
  BY <1>1, <1>5, <1>7 DEF Scalars, RaisedLimit, Larger
<1>9. state' \in 0 .. 8
  BY <1>1, <1>5 DEF Scalars, StateAfterAck, TCP_CONNECTED
<1>10. tx_acked' = 0 => tx_acked = 0
  BY <1>1, <1>3, <1>5 DEF Scalars
<1>11. Scalars'
  BY <1>1, <1>3, <1>5, <1>6, <1>7, <1>8, <1>9, <1>10 DEF Scalars
<1>12. Flags'
  BY <1>1, <1>5, <1>6, Zenon DEF Flags
<1> QED
  BY <1>6, <1>11, <1>12, TypeParts

LEMMA TypeSend ==
  ASSUME TypeInv, SendTcpPacket
  PROVE  TypeInv'
<1> DEFINE from  == IF TimedOut THEN tx_acked ELSE tx_sent
           limit == IF TimedOut THEN tx_acked + remote_window ELSE tx_limit
           syn   == tx_acked = 0
           fin   == FinWanted
           len   == IF syn THEN 0
                    ELSE Smaller(Smaller(tx_write - from, limit - from),
                                 MAX_SEGMENT)
           after == StateAfterSend(syn, fin)
<1>1. Scalars /\ Tables /\ Flags
  BY TypeParts
<1>2. /\ from \in Nat /\ limit \in Nat
      /\ tx_acked = 0 => from \in {0, 1}
  BY <1>1 DEF Scalars
<1>3. /\ tx_limit' = limit
      /\ tx_sent' = from + len
      /\ state' \in {TCP_SEND_RST, after}
      /\ ack_timeout' \in {NOW, ARMED}
      /\ syn_acks' = IF syn THEN syn_acks \cup {from - 1} ELSE syn_acks
      /\ fins' = IF fin THEN fins \cup {from + len} ELSE fins
      /\ rx_edge' = rx_write + WindowField
      /\ UNCHANGED <<ctlVars, rxVars, tx_buffer, tx_write, tx_acked, tx_fin,
                     remote_window, appVars, peerVars>>
  BY DEF SendTcpPacket
<1>4. from + len \in Nat
  <2>1. /\ tx_write \in Nat /\ MAX_SEGMENT \in Nat
    BY <1>1, SizeAssumption DEF Scalars
  <2> HIDE DEF from, limit
  <2> QED
    BY <1>2, <2>1 DEF Smaller
<1>5. WindowField \in Nat
  <2> DEFINE field == rx_read + TCP_WINDOW - rx_write
  <2>1. field \in Int
    BY <1>1, SizeAssumption DEF Scalars
  <2> HIDE DEF field
  <2>2. field % WINDOW_VALUES \in Nat
    BY <2>1 DEF WINDOW_VALUES
  <2> QED
    BY <2>2 DEF WindowField, field
<1>6. after \in 0 .. 8
  BY <1>1 DEF StateAfterSend, RecordClosed, Scalars, TCP_SYN_ACK_SENT,
       TCP_RX_CLOSED, TCP_TX_CLOSED, TCP_BOTH_CLOSED, TCP_SEND_RST,
       TCP_DATA_TO_READ
<1>7. tx_acked = 0 => tx_sent' \in {0, 1}
  BY <1>2, <1>3
<1> HIDE DEF from, limit, len, after, fin
<1>8. /\ tx_limit' \in Nat /\ tx_sent' \in Nat /\ state' \in 0 .. 8
      /\ ack_timeout' \in {NOW, ARMED, EXPIRED} /\ rx_edge' \in Nat
  BY <1>1, <1>2, <1>3, <1>4, <1>5, <1>6 DEF Scalars, TCP_SEND_RST
<1>9. syn_acks' \subseteq {-1, 0} /\ fins' \subseteq Nat
  <2>1. syn_acks' = syn_acks \/ (syn /\ syn_acks' = syn_acks \cup {from - 1})
    BY <1>3
  <2>2. syn => from - 1 \in {-1, 0}
    BY <1>2
  <2>3. fins' = fins \/ fins' = fins \cup {from + len}
    BY <1>3
  <2>4. syn_acks \subseteq {-1, 0} /\ fins \subseteq Nat
    BY <1>1 DEF Scalars
  <2> HIDE DEF syn
  <2>5. syn_acks' \subseteq {-1, 0}
    BY <2>1, <2>2, <2>4
  <2>6. fins' \subseteq Nat
    BY <1>4, <2>3, <2>4
  <2> QED
    BY <2>5, <2>6
<1>10. Scalars'
  BY <1>1, <1>3, <1>7, <1>8, <1>9
     DEF Scalars, ctlVars, rxVars, appVars, peerVars
<1>11. Tables'
  BY <1>1, <1>3 DEF Tables, rxVars
<1>12. Flags'
  BY <1>1, <1>3, Zenon DEF Flags, rxVars, peerVars
<1> QED
  BY <1>10, <1>11, <1>12, TypeParts

LEMMA TypeRead ==
  ASSUME TypeInv, NEW size \in Nat, ReadTcp(size)
  PROVE  TypeInv'
<1> USE DEF ctlVars, txVars, outVars, peerVars
<1>1. Scalars /\ Tables /\ Flags
  BY TypeParts
<1> DEFINE len == Smaller(size, rx_write - rx_read)
<1>2. /\ len > 0 /\ rx_read' = rx_read + len /\ ack_timeout' = NOW
      /\ UNCHANGED <<ctlVars, state, rx_buffer, rx_write, rx_fin, rx_segments,
                     illegal, txVars, app_id, wlen, outVars, peerVars>>
  BY DEF ReadTcp
<1>3. len \in Int
  BY <1>1 DEF Scalars, Smaller
<1> HIDE DEF len
<1>4. rx_read' \in Nat
  BY <1>1, <1>2, <1>3 DEF Scalars
<1>5. Scalars'
  BY <1>1, <1>2, <1>4 DEF Scalars
<1>6. Tables'
  BY <1>1, <1>2 DEF Tables
<1>7. Flags'
  BY <1>1, <1>2, Zenon DEF Flags
<1> QED
  BY <1>5, <1>6, <1>7, TypeParts

LEMMA TypeWriteChunk ==
  ASSUME TypeInv, WriteChunk
  PROVE  TypeInv'
<1> USE DEF ctlVars, rxVars, outVars, peerVars
<1>1. Scalars /\ Tables /\ Flags
  BY TypeParts
<1> DEFINE len   == Smaller(wlen, WriteRoom)
           bytes == [k \in 0 .. len-1 |-> Byte(app_id, tx_write + k)]
<1>2. /\ wlen > 0 /\ len > 0
      /\ tx_buffer' = CopyTo(tx_buffer, TX_SIZE, tx_write, bytes, len)
      /\ tx_write' = tx_write + len
      /\ wlen' = wlen - len
      /\ UNCHANGED <<ctlVars, state, ack_timeout, rxVars, tx_sent, tx_acked,
                     tx_limit, tx_fin, remote_window, app_id, delivered,
                     outVars, peerVars>>
  BY DEF WriteChunk
<1>3. len \in Nat /\ len <= wlen
  <2>1. WriteRoom \in Int
    BY <1>1, SizeAssumption
       DEF WriteRoom, WindowAvailable, BufferAvailable, Smaller, Scalars
  <2> QED
    BY <1>1, <1>2, <2>1 DEF Smaller, Scalars
<1> HIDE DEF len
<1>4. bytes \in [0 .. len-1 -> Nat \X Nat]
  BY <1>1, <1>2, <1>3 DEF Byte, Scalars
<1> HIDE DEF bytes
<1>5. tx_buffer' \in [0 .. TX_SIZE-1 -> Nat \X Nat]
  <2>1. TX_SIZE \in Nat \ {0} /\ tx_write \in Nat
    BY <1>1, SizeAssumption DEF Scalars
  <2>2. tx_buffer \in [0 .. TX_SIZE-1 -> Nat \X Nat]
    BY <1>1 DEF Tables
  <2> QED
    BY <1>2, <1>3, <1>4, <2>1, <2>2, CopyToType
<1>6. Tables'
  BY <1>1, <1>2, <1>5 DEF Tables
<1>7. tx_write' \in Nat /\ wlen' \in Nat
  BY <1>1, <1>2, <1>3 DEF Scalars
<1>8. Scalars'
  BY <1>1, <1>2, <1>7 DEF Scalars
<1>9. Flags'
  BY <1>1, <1>2, Zenon DEF Flags
<1> QED
  BY <1>6, <1>8, <1>9, TypeParts

(* The calls and steps that change only a few scalars.                     *)
LEMMA TypeSmallStep ==
  ASSUME TypeInv,
         \/ ArriveRst \/ Tick \/ OpenTcp \/ ReadReset
         \/ \E n \in 1 .. MaxTx : WriteCall(n)
         \/ ShutdownTcp \/ CloseTcp
  PROVE  TypeInv'
<1> USE DEF ctlVars, rxVars, txVars, appVars, outVars, peerVars
<1>1. Scalars /\ Tables /\ Flags
  BY TypeParts
<1>2. CASE ArriveRst
  <2>1. /\ state' = TCP_SEND_RST /\ ack_timeout' = NOW
        /\ UNCHANGED <<ctlVars, rxVars, txVars, appVars, outVars, peerVars>>
    BY <1>2 DEF ArriveRst, HandleRst, StateAfterRst
  <2>2. Scalars'
    BY <1>1, <2>1 DEF Scalars, TCP_SEND_RST
  <2>3. Tables'
    BY <1>1, <2>1 DEF Tables
  <2>4. Flags'
    BY <1>1, <2>1, Zenon DEF Flags
  <2> QED
    BY <2>2, <2>3, <2>4, TypeParts
<1>3. CASE Tick \/ OpenTcp \/ ReadReset \/ ShutdownTcp \/ CloseTcp
  <2>1. /\ UNCHANGED <<ctlVars, rxVars, outVars, peerVars, tx_buffer, wlen,
                       tx_write, tx_sent, tx_acked, tx_limit, remote_window>>
        /\ state' \in {state, TCP_LISTEN}
        /\ ack_timeout' \in {ack_timeout, EXPIRED}
        /\ tx_fin' \in {tx_fin, tx_write}
        /\ app_id' \in {app_id, connection_id, -1}
        /\ app_id' = -1 => app_id = -1 \/ wlen = 0
    BY <1>3 DEF Tick, OpenTcp, ReadReset, ShutdownTcp, CloseTcp
  <2>2. Scalars'
    BY <1>1, <2>1 DEF Scalars, TCP_LISTEN
  <2>3. Tables'
    BY <1>1, <2>1 DEF Tables
  <2>4. Flags'
    BY <1>1, <2>1, Zenon DEF Flags
  <2> QED
    BY <2>2, <2>3, <2>4, TypeParts
<1>4. ASSUME NEW n \in 1 .. MaxTx, WriteCall(n)
      PROVE  TypeInv'
  <2>1. /\ UNCHANGED <<ctlVars, state, ack_timeout, rxVars, txVars, app_id,
                       delivered, outVars, peerVars>>
        /\ wlen' = n /\ app_id = connection_id /\ n \in Nat
    BY <1>4, BoundAssumption DEF WriteCall, Usable
  <2>2. Scalars'
    BY <1>1, <2>1 DEF Scalars
  <2>3. Tables'
    BY <1>1, <2>1 DEF Tables
  <2>4. Flags'
    BY <1>1, <2>1, Zenon DEF Flags
  <2> QED
    BY <2>2, <2>3, <2>4, TypeParts
<1> QED
  BY <1>2, <1>3, <1>4

LEMMA TypeClient ==
  ASSUME TypeInv, Client
  PROVE  TypeInv'
<1> USE DEF Client, PeerAccept, PeerReceive, PeerReceiveFin, PeerSend, PeerFin
<1>1. Scalars /\ Tables /\ Flags
  BY TypeParts
<1>2. UNCHANGED stackVars
  BY DEF stackVars
<1>3. peer_next' \in Nat \cup {-1} /\ peer_sent' \in Nat
  BY <1>1 DEF Scalars
<1>4. Scalars'
  BY <1>1, <1>2, <1>3 DEF Scalars, stackVars, ctlVars, rxVars, txVars,
                          appVars, outVars
<1>5. Tables'
  BY <1>1, <1>2 DEF Tables, stackVars, rxVars, txVars
<1>6. Flags'
  <2>1. peer_eof' \in {TRUE, peer_eof} /\ peer_fin' \in {TRUE, peer_fin}
    OBVIOUS
  <2> QED
    BY <1>1, <1>2, <2>1, Zenon DEF Flags, stackVars, rxVars
<1> QED
  BY <1>4, <1>5, <1>6, TypeParts

(* Every variable of the connection keeps its type, for every size of the  *)
(* buffers and of the segment table.                                       *)
THEOREM TypeStep == TypeInv /\ [Next]_vars => TypeInv'
<1> SUFFICES ASSUME TypeInv, [Next]_vars
             PROVE  TypeInv'
  OBVIOUS
<1>1. CASE Stack
  BY <1>1, TypeSyn, TypeSegment, TypeSend, TypeSmallStep DEF Stack
<1>2. CASE Application
  <2>1. ASSUME NEW n \in ReadSizes, ReadTcp(n)
        PROVE  TypeInv'
    BY <2>1, TypeRead, BoundAssumption
  <2> QED
    BY <1>2, <2>1, TypeWriteChunk, TypeSmallStep DEF Application
<1>3. CASE Client
  BY <1>3, TypeClient
<1>4. CASE UNCHANGED vars
  <2>1. Scalars /\ Tables /\ Flags
    BY TypeParts
  <2>2. UNCHANGED <<stackVars, peerVars>>
    BY <1>4 DEF vars, stackVars, peerVars
  <2>3. Scalars'
    BY <2>1, <2>2 DEF Scalars, stackVars, ctlVars, rxVars, txVars, appVars,
                      outVars, peerVars
  <2>4. Tables'
    BY <2>1, <2>2 DEF Tables, stackVars, rxVars, txVars
  <2>5. Flags'
    BY <2>1, <2>2, Zenon DEF Flags, stackVars, rxVars, peerVars
  <2> QED
    BY <2>3, <2>4, <2>5, TypeParts
<1> QED
  BY <1>1, <1>2, <1>3, <1>4 DEF Next

(* The inductive type invariant holds of every behaviour.                  *)
THEOREM TypeInvariant == Spec => []TypeInv
  BY InitTypeInv, TypeStep, PTL DEF Spec

(* The type invariant of the connection holds in every reachable state.    *)
THEOREM TypeCorrect == Spec => []TypeOK
<1>1. TypeInv => TypeOK
  BY DEF TypeInv
<1> QED
  BY <1>1, TypeInvariant, PTL

(***************************************************************************)
(* The receive side.                                                       *)
(***************************************************************************)
(* The ring holds the byte of stream position x.                           *)
Stored(x) == rx_buffer[x % RX_SIZE] = Byte(connection_id, x)

(* The positions the connection keeps are in order, and what the client    *)
(* has sent ends inside the window last offered.                           *)
RxBounds ==
  /\ 1 <= rx_read /\ rx_read <= rx_write /\ rx_write <= peer_sent
  /\ peer_sent <= rx_edge /\ rx_edge <= rx_read + TCP_WINDOW
  /\ peer_sent <= MaxRx + 1

(* rx_fin, once set, is the end of everything the client has sent.         *)
RxFin == rx_fin # NO_FIN => peer_fin = TRUE /\ rx_fin = peer_sent

(* Segments in the table lie ahead of rx_write, inside what was sent.      *)
RxSegments ==
  \A s \in rx_segments :
    /\ s.position > rx_write
    /\ s.length > 0 => s.position + s.length <= peer_sent

(* The unread bytes and those of the table are in the ring.                *)
RxStored ==
  /\ \A x \in rx_read .. rx_write-1 : Stored(x)
  /\ \A s \in rx_segments :
       \A x \in s.position .. s.position+s.length-1 : Stored(x)

RxInv == state # TCP_LISTEN => RxBounds /\ RxFin /\ RxSegments /\ RxStored

(* The application has read exactly up to rx_read of its connection, and   *)
(* nothing of a connection that is not its own; ids are not used again.    *)
AppInv ==
  /\ connection_id < connection_counter /\ app_id < connection_counter
  /\ ReadIntegrity
  /\ state # TCP_LISTEN /\ app_id = connection_id
       => DOMAIN delivered = 1 .. rx_read-1
  /\ state # TCP_LISTEN /\ app_id # connection_id => rx_read = 1

(* The inductive invariant of the receive side.                            *)
ReceiveInv == TypeInv /\ RxInv /\ AppInv

LEMMA InitReceiveInv == Init => ReceiveInv
<1> SUFFICES ASSUME Init
             PROVE  ReceiveInv
  OBVIOUS
<1>1. RxInv
  BY DEF Init, RxInv
<1>2. AppInv
  BY DEF Init, AppInv, ReadIntegrity
<1> QED
  BY <1>1, <1>2, InitTypeInv DEF ReceiveInv

(* Steps that touch nothing of the receive side.                           *)
LEMMA RxKept ==
  ASSUME RxInv, state' # TCP_LISTEN => state # TCP_LISTEN,
         UNCHANGED <<connection_id, rx_buffer, rx_read, rx_write, rx_fin,
                     rx_segments, rx_edge, peer_sent, peer_fin>>
  PROVE  RxInv'
  BY DEF RxInv, RxBounds, RxFin, RxSegments, RxStored, Stored

LEMMA AppKept ==
  ASSUME AppInv, state' # TCP_LISTEN => state # TCP_LISTEN,
         UNCHANGED <<connection_counter, connection_id, app_id, delivered,
                     rx_read>>
  PROVE  AppInv'
  BY DEF AppInv, ReadIntegrity

LEMMA ReceiveSyn ==
  ASSUME ReceiveInv, ArriveSyn
  PROVE  RxInv' /\ AppInv'
<1>1. Scalars
  BY TypeParts DEF ReceiveInv
<1>2. /\ connection_id' = connection_counter
      /\ connection_counter' = connection_counter + 1
      /\ rx_write' = 1 /\ rx_read' = 1 /\ rx_fin' = NO_FIN
      /\ rx_segments' = {} /\ rx_edge' = 1 /\ peer_sent' = 1
      /\ UNCHANGED appVars
  BY DEF ArriveSyn, HandleSyn
<1>3. RxInv'
  BY <1>2, SizeAssumption, BoundAssumption
     DEF RxInv, RxBounds, RxFin, RxSegments, RxStored
<1>4. AppInv'
  BY <1>1, <1>2 DEF ReceiveInv, AppInv, ReadIntegrity, Scalars, appVars
<1> QED
  BY <1>3, <1>4

LEMMA ReceiveSend ==
  ASSUME ReceiveInv, SendTcpPacket
  PROVE  RxInv' /\ AppInv'
<1>1. Scalars
  BY TypeParts DEF ReceiveInv
<1>2. /\ state # TCP_LISTEN
      /\ rx_edge' = rx_write + WindowField
      /\ UNCHANGED <<ctlVars, rxVars, appVars, peerVars>>
  BY DEF SendTcpPacket
<1>3. RxBounds /\ RxFin /\ RxSegments /\ RxStored
  BY <1>2 DEF ReceiveInv, RxInv
<1>4. WindowField = rx_read + TCP_WINDOW - rx_write
  <2> DEFINE field == rx_read + TCP_WINDOW - rx_write
  <2>1. /\ rx_read \in Nat /\ rx_write \in Nat
        /\ TCP_WINDOW \in Nat /\ TCP_WINDOW < WINDOW_VALUES
    BY <1>1, SizeAssumption DEF Scalars
  <2>2. rx_read <= rx_write /\ rx_write <= rx_read + TCP_WINDOW
    BY <1>1, <1>3, <2>1 DEF Scalars, RxBounds
  <2>0. WINDOW_VALUES \in Nat \ {0}
    BY DEF WINDOW_VALUES
  <2>3. field \in 0 .. WINDOW_VALUES-1
    BY <2>1, <2>2, <2>0
  <2> HIDE DEF field
  <2>4. field % WINDOW_VALUES = field
    BY <2>3, <2>0, ModSmall
  <2> QED
    BY <2>4 DEF field, WindowField
<1>5. RxBounds'
  BY <1>1, <1>2, <1>3, <1>4, SizeAssumption
     DEF RxBounds, Scalars, ctlVars, rxVars, peerVars
<1>6. RxFin' /\ RxSegments' /\ RxStored'
  BY <1>2, <1>3 DEF RxFin, RxSegments, RxStored, Stored, ctlVars, rxVars,
                    peerVars
<1>7. AppInv'
  BY <1>2, AppKept DEF ReceiveInv, ctlVars, rxVars, appVars
<1> QED
  BY <1>5, <1>6, <1>7 DEF RxInv

(* read_tcp hands over the unread bytes in order.                          *)
LEMMA ReceiveRead ==
  ASSUME ReceiveInv, NEW size \in Nat, ReadTcp(size)
  PROVE  RxInv' /\ AppInv'
<1> DEFINE len   == Smaller(size, rx_write - rx_read)
           bytes == CopyFrom(rx_buffer, RX_SIZE, rx_read, len)
<1>1. Scalars
  BY TypeParts DEF ReceiveInv
<1>2. /\ state # TCP_LISTEN /\ connection_id = app_id
      /\ len > 0
      /\ rx_read' = rx_read + len
      /\ delivered' = [i \in 1 .. rx_read + len - 1 |->
                         IF i < rx_read THEN delivered[i]
                         ELSE bytes[i - rx_read]]
      /\ UNCHANGED <<connection_counter, connection_id, state, rx_buffer,
                     rx_write, rx_fin, rx_segments, app_id, rx_edge,
                     peer_sent, peer_fin>>
  BY DEF ReadTcp, Usable, ctlVars, outVars, peerVars
<1>3. RxBounds /\ RxFin /\ RxSegments /\ RxStored
  BY <1>2 DEF ReceiveInv, RxInv
<1>4. len \in Nat /\ len <= rx_write - rx_read
  BY <1>1, <1>2 DEF Scalars, Smaller
<1> HIDE DEF len
<1>5. RX_SIZE \in Nat \ {0} /\ rx_read \in Nat /\ Copies(RX_SIZE, len)
  BY <1>1, <1>2, <1>3, <1>4, SizeAssumption DEF Copies, Scalars, RxBounds
<1>6. bytes = [k \in 0 .. len-1 |-> rx_buffer[(rx_read + k) % RX_SIZE]]
  BY <1>4, <1>5, CopyFromReads
<1> HIDE DEF bytes
<1>7. ASSUME NEW i \in rx_read .. rx_read + len - 1
      PROVE  bytes[i - rx_read] = Byte(connection_id, i)
  <2>1. i - rx_read \in 0 .. len-1 /\ rx_read + (i - rx_read) = i
    BY <1>1, <1>4 DEF Scalars
  <2>2. i \in rx_read .. rx_write-1
    BY <1>1, <1>4 DEF Scalars
  <2>3. rx_buffer[i % RX_SIZE] = Byte(connection_id, i)
    BY <1>3, <2>2 DEF RxStored, Stored
  <2> QED
    BY <1>6, <2>1, <2>3
<1>8. /\ DOMAIN delivered = 1 .. rx_read-1
      /\ \A i \in DOMAIN delivered : delivered[i] = Byte(connection_id, i)
  BY <1>1, <1>2 DEF ReceiveInv, AppInv, ReadIntegrity, Scalars
<1>9. \A i \in 1 .. rx_read + len - 1 : delivered'[i] = Byte(connection_id, i)
  BY <1>1, <1>2, <1>4, <1>7, <1>8 DEF Scalars
<1>10. DOMAIN delivered' = 1 .. rx_read'-1
  <2>1. DOMAIN delivered' = 1 .. rx_read + len - 1
    BY <1>2
  <2>2. rx_read' = rx_read + len
    BY <1>2
  <2> QED
    BY <1>1, <1>4, <2>1, <2>2 DEF Scalars
<1>11. AppInv'
  BY <1>2, <1>9, <1>10 DEF ReceiveInv, AppInv, ReadIntegrity
<1>12. RxBounds'
  BY <1>1, <1>2, <1>3, <1>4, SizeAssumption DEF RxBounds, Scalars
<1>13. RxFin' /\ RxSegments'
  BY <1>2, <1>3 DEF RxFin, RxSegments
<1>14. RxStored'
  BY <1>1, <1>2, <1>3, <1>4 DEF RxStored, Stored, Scalars
<1> QED
  BY <1>11, <1>12, <1>13, <1>14 DEF RxInv

LEMMA ReceiveCalls ==
  ASSUME ReceiveInv, OpenTcp \/ CloseTcp
  PROVE  RxInv' /\ AppInv'
<1>1. Scalars
  BY TypeParts DEF ReceiveInv
<1>2. RxInv'
  BY RxKept DEF ReceiveInv, OpenTcp, CloseTcp, ctlVars, rxVars, outVars,
                peerVars
<1>3. CASE OpenTcp
  <2>1. /\ app_id = -1 /\ state # TCP_LISTEN
        /\ app_id' = connection_id /\ delivered' = <<>>
        /\ UNCHANGED <<connection_counter, connection_id, state, rx_read>>
    BY <1>3 DEF OpenTcp, ctlVars, rxVars
  <2>2. rx_read = 1 /\ connection_id < connection_counter
    BY <1>1, <2>1 DEF ReceiveInv, AppInv, Scalars
  <2>3. DOMAIN delivered' = {} /\ 1 .. rx_read'-1 = {}
    BY <2>1, <2>2
  <2> QED
    BY <1>2, <2>1, <2>2, <2>3 DEF AppInv, ReadIntegrity
<1>4. CASE CloseTcp
  <2>1. /\ state' = IF connection_id = app_id THEN TCP_LISTEN ELSE state
        /\ app_id' = -1
        /\ UNCHANGED <<connection_counter, connection_id, rx_read>>
    BY <1>4 DEF CloseTcp, ctlVars, rxVars
  <2>2. app_id' # connection_id' /\ app_id' < connection_counter'
    BY <1>1, <2>1 DEF Scalars
  <2> QED
    BY <1>2, <2>1, <2>2 DEF ReceiveInv, AppInv, ReadIntegrity
<1> QED
  BY <1>3, <1>4

(* A packet of the connection, inside what its client has sent.            *)
Sendable(p) ==
  /\ p.conn = connection_id
  /\ p.seq \in Nat /\ p.len \in 0 .. MAX_SEGMENT
  /\ p.len > 0 => p.seq + p.len <= peer_sent

(* A packet the connection takes is one its client can have sent.          *)
LEMMA SegmentFacts ==
  ASSUME ReceiveInv, ArriveSegment
  PROVE  \E p : /\ state # TCP_LISTEN
                /\ Sendable(p)
                /\ rx_fin' # rx_fin =>
                     peer_fin = TRUE /\ rx_fin' = p.seq + p.len
                       /\ p.seq + p.len = peer_sent
                /\ AddSegment(p)
                /\ UNCHANGED <<ctlVars, rx_read, appVars, outVars, peerVars>>
<1>1. Scalars /\ Flags
  BY TypeParts DEF ReceiveInv
<1>2. PICK c \in Clients, seq \in 1 .. MaxRx + 2, len \in 0 .. MAX_SEGMENT,
           ack \in 0 .. MaxTx + 2, win \in Windows, fin \in BOOLEAN :
        /\ c = remote => ClientRange(seq, len, fin)
        /\ HandleSegment(Packet(c, seq, len, ack, win, fin, FALSE))
  BY Zenon DEF ArriveSegment
<1> DEFINE p == Packet(c, seq, len, ack, win, fin, FALSE)
<1>3. /\ p.from = c /\ p.seq = seq /\ p.len = len /\ p.fin = fin
      /\ p.conn = IF c = remote THEN connection_id ELSE 0
  BY DEF Packet
<1>4. /\ state # TCP_LISTEN
      /\ c = remote
      /\ AddSegment(p)
      /\ rx_fin' = IF fin THEN seq + len ELSE rx_fin
      /\ UNCHANGED <<ctlVars, rx_read, appVars, outVars, peerVars>>
  BY <1>2, <1>3 DEF HandleSegment, ConnectionMatch, FinPosition
<1>5. ClientRange(seq, len, fin)
  BY <1>2, <1>4
<1>6. seq \in Nat /\ len \in 0 .. MAX_SEGMENT
  BY BoundAssumption
<1>7. len > 0 => seq + len <= peer_sent
  BY <1>5, <1>6 DEF ClientRange
<1>8. rx_fin' # rx_fin => fin /\ rx_fin' = seq + len
  BY <1>4
<1>9. fin => peer_fin /\ seq + len = peer_sent
  BY <1>5, Zenon DEF ClientRange
<1>10. peer_fin => peer_fin = TRUE
  BY <1>1, Zenon DEF Flags
<1>11. rx_fin' # rx_fin =>
         peer_fin = TRUE /\ rx_fin' = seq + len /\ seq + len = peer_sent
  BY <1>8, <1>9, <1>10
<1> QED
  BY <1>3, <1>4, <1>6, <1>7, <1>11 DEF Sendable

(* The copy that add_segment makes of a payload that reaches past rx_write. *)
CopyStep(p) ==
  /\ p.seq + p.len > rx_write
  /\ rx_buffer' = CopyTo(rx_buffer, RX_SIZE, p.seq, Payload(p), p.len)

(* Position x is stored already or p carries its byte.                     *)
Present(p, x) == InRange(x, p.seq, p.len) \/ Stored(x)

(* Copying the payload stores its bytes and keeps every other byte of the  *)
(* window: what it overwrites has been read already.                       *)
LEMMA CopyKeepsWindow ==
  ASSUME ReceiveInv, state # TCP_LISTEN, NEW p, Sendable(p), CopyStep(p),
         NEW x \in Nat, InRange(x, rx_read, TCP_WINDOW), Present(p, x)
  PROVE  rx_buffer'[x % RX_SIZE] = Byte(connection_id, x)
<1>1. /\ rx_read \in Nat /\ rx_write \in Nat /\ peer_sent \in Nat
      /\ rx_edge \in Nat
  BY TypeParts DEF ReceiveInv, Scalars
<1>2. /\ rx_read <= rx_write
      /\ peer_sent <= rx_edge /\ rx_edge <= rx_read + TCP_WINDOW
  BY DEF ReceiveInv, RxInv, RxBounds
<1>3. /\ TCP_WINDOW \in Nat /\ MAX_SEGMENT \in Nat
      /\ MAX_SEGMENT <= TCP_WINDOW
      /\ RX_SIZE \in Nat \ {0} /\ RX_SIZE >= 2 * TCP_WINDOW
  BY SizeAssumption
<1>4. CASE p.len = 0
  <2>1. rx_buffer' = rx_buffer
    BY <1>4 DEF CopyStep, CopyTo, Copies
  <2>2. Stored(x)
    BY <1>1, <1>4 DEF Sendable, Present, InRange
  <2> QED
    BY <2>1, <2>2 DEF Stored
<1>5. CASE p.len > 0
  <2> DEFINE start == p.seq
             len   == p.len
             bytes == Payload(p)
  <2>1. /\ start \in Nat /\ len \in Nat /\ len <= TCP_WINDOW
        /\ rx_read < start + len /\ start + len <= rx_read + TCP_WINDOW
    BY <1>1, <1>2, <1>3, <1>5 DEF Sendable, CopyStep
  <2>2. InRange(x, start, len) => bytes[x - start] = Byte(connection_id, x)
    <3> SUFFICES ASSUME InRange(x, start, len)
                 PROVE  bytes[x - start] = Byte(connection_id, x)
      OBVIOUS
    <3>1. x - start \in 0 .. len-1 /\ start + (x - start) = x
      BY <2>1 DEF InRange
    <3>2. bytes[x - start] = Byte(p.conn, start + (x - start))
      BY <3>1 DEF Payload
    <3> QED
      BY <3>1, <3>2 DEF Sendable
  <2>3. InRange(x, start, len) \/ rx_buffer[x % RX_SIZE] = Byte(connection_id, x)
    BY DEF Stored, Present
  <2>4. rx_buffer' = CopyTo(rx_buffer, RX_SIZE, start, bytes, len)
    BY DEF CopyStep
  <2> HIDE DEF start, len, bytes
  <2>5. CopyTo(rx_buffer, RX_SIZE, start, bytes, len)[x % RX_SIZE] =
          IF InRange(x, start, len) THEN bytes[x - start]
          ELSE rx_buffer[x % RX_SIZE]
    <3>1. /\ RX_SIZE \in Nat \ {0} /\ len \in 0 .. RX_SIZE-1 /\ x \in Nat
          /\ start \in Nat
          /\ x - start < RX_SIZE /\ start + len - 1 - x < RX_SIZE
      BY <1>1, <1>3, <2>1 DEF InRange
    <3> QED
      BY <3>1, CopyToWindow
  <2> QED
    BY <2>2, <2>3, <2>4, <2>5
<1> QED
  BY <1>4, <1>5 DEF Sendable

(* Where the merge ends: not past what the client has sent.                *)
LEMMA MergeBounded ==
  ASSUME ReceiveInv, state # TCP_LISTEN, NEW p, Sendable(p), NEW n \in Nat,
         n >= rx_write,
         MergedTo(rx_segments \cup {[position |-> p.seq, length |-> p.len]},
                  rx_write, n)
  PROVE  n <= peer_sent
<1> DEFINE segs == rx_segments \cup {[position |-> p.seq, length |-> p.len]}
<1>1. /\ rx_write \in Nat /\ peer_sent \in Nat /\ rx_write <= peer_sent
      /\ rx_segments \subseteq [position : Nat, length : Nat]
  BY TypeParts DEF ReceiveInv, Scalars, Tables, RxInv, RxBounds
<1>2. \A s \in segs : /\ s.position \in Nat /\ s.length \in Nat
                      /\ s.length > 0 => s.position + s.length <= peer_sent
  <2>1. \A s \in rx_segments : s.length > 0 => s.position + s.length <= peer_sent
    BY DEF ReceiveInv, RxInv, RxSegments
  <2>2. p.seq \in Nat /\ p.len \in Nat
        /\ (p.len > 0 => p.seq + p.len <= peer_sent)
    BY SizeAssumption DEF Sendable
  <2> QED
    BY <1>1, <2>1, <2>2
<1>3. \A x \in rx_write .. n-1 : Covered(segs, x)
  BY DEF MergedTo
<1> HIDE DEF segs
<1>4. CASE n = rx_write
  BY <1>1, <1>4
<1>5. CASE n > rx_write
  <2>1. n-1 \in rx_write .. n-1
    BY <1>1, <1>5
  <2>2. PICK s \in segs : s.position <= n-1 /\ n-1 < s.position + s.length
    BY <1>3, <2>1 DEF Covered
  <2> QED
    BY <1>1, <1>2, <2>2
<1> QED
  BY <1>1, <1>4, <1>5

(* add_segment keeps the ring, the table and rx_write in step.             *)
LEMMA ReceiveAddSegment ==
  ASSUME ReceiveInv, state # TCP_LISTEN, NEW p, Sendable(p), AddSegment(p),
         UNCHANGED <<connection_id, rx_read, peer_sent>>
  PROVE  /\ rx_write <= rx_write' /\ rx_write' <= peer_sent
         /\ RxSegments' /\ RxStored'
<1> DEFINE new  == [position |-> p.seq, length |-> p.len]
           segs == rx_segments \cup {new}
<1>1. /\ rx_read \in Nat /\ rx_write \in Nat /\ peer_sent \in Nat
      /\ rx_edge \in Nat /\ TCP_WINDOW \in Nat
      /\ rx_segments \subseteq [position : Nat, length : Nat]
  BY TypeParts, SizeAssumption DEF ReceiveInv, Scalars, Tables
<1>2. /\ rx_read <= rx_write /\ rx_write <= peer_sent
      /\ peer_sent <= rx_read + TCP_WINDOW
      /\ RxSegments /\ RxStored
  BY <1>1 DEF ReceiveInv, RxInv, RxBounds
<1>3. CASE UNCHANGED <<rx_buffer, rx_segments, rx_write, illegal>>
  BY <1>1, <1>2, <1>3 DEF RxSegments, RxStored, Stored
<1>4. ASSUME CopyStep(p)
      PROVE  /\ \A x \in rx_read .. rx_write-1 : Stored(x)'
             /\ \A s \in segs : \A x \in s.position .. s.position+s.length-1 :
                  x >= rx_read => Stored(x)'
  <2>1. ASSUME NEW x \in Nat, rx_read <= x, x < peer_sent, Present(p, x)
        PROVE  Stored(x)'
    <3>1. InRange(x, rx_read, TCP_WINDOW)
      BY <1>1, <1>2, <2>1 DEF InRange
    <3> QED
      BY <1>4, <2>1, <3>1, CopyKeepsWindow DEF Stored
  <2>2. ASSUME NEW x \in rx_read .. rx_write-1
        PROVE  Stored(x)'
    <3>1. x \in Nat /\ rx_read <= x /\ x < peer_sent
      BY <1>1, <1>2
    <3>2. Present(p, x)
      BY <1>2 DEF RxStored, Present
    <3> QED
      BY <2>1, <3>1, <3>2
  <2>3. ASSUME NEW s \in rx_segments,
               NEW x \in s.position .. s.position+s.length-1
        PROVE  Stored(x)'
    <3>1. /\ s.position \in Nat /\ s.length \in Nat
          /\ s.position > rx_write
          /\ s.length > 0 => s.position + s.length <= peer_sent
      BY <1>1, <1>2 DEF RxSegments
    <3>2. x \in Nat /\ rx_read <= x /\ x < peer_sent
      BY <1>1, <1>2, <3>1
    <3>3. Present(p, x)
      BY <1>2 DEF RxStored, Present
    <3> QED
      BY <2>1, <3>2, <3>3
  <2>4. ASSUME NEW x \in p.seq .. p.seq+p.len-1, x >= rx_read
        PROVE  Stored(x)'
    <3>1. /\ p.seq \in Nat /\ p.len \in Nat
          /\ p.len > 0 => p.seq + p.len <= peer_sent
      BY SizeAssumption DEF Sendable
    <3>2. x \in Nat /\ rx_read <= x /\ x < peer_sent
      BY <1>1, <2>4, <3>1
    <3>3. Present(p, x)
      BY DEF Present, InRange
    <3> QED
      BY <2>1, <3>2, <3>3
  <2>5. new.position = p.seq /\ new.length = p.len
    OBVIOUS
  <2>6. \A s \in segs : \A x \in s.position .. s.position+s.length-1 :
          x >= rx_read => Stored(x)'
    <3> SUFFICES ASSUME NEW s \in segs,
                        NEW x \in s.position .. s.position+s.length-1,
                        x >= rx_read
                 PROVE  Stored(x)'
      OBVIOUS
    <3>1. CASE s \in rx_segments
      BY <2>3, <3>1
    <3>2. CASE s = new
      BY <2>4, <2>5, <3>2
    <3> QED
      BY <3>1, <3>2
  <2> QED
    BY <2>2, <2>6
<1>5. CASE CopyStep(p) /\ TableFull /\ UNCHANGED <<rx_segments, rx_write>>
  <2>1. RxSegments'
    BY <1>2, <1>5 DEF RxSegments
  <2>2. \A s \in rx_segments : \A x \in s.position .. s.position+s.length-1 :
          x >= rx_read
    BY <1>1, <1>2 DEF RxSegments
  <2>3. RxStored'
    BY <1>4, <1>5, <2>2 DEF RxStored, Stored
  <2> QED
    BY <1>1, <1>2, <1>5, <2>1, <2>3
<1>6. ASSUME CopyStep(p), NEW n \in rx_write .. NO_FIN,
             MergedTo(segs, rx_write, n),
             rx_write' = n, rx_segments' = Ahead(segs, n)
      PROVE  /\ rx_write <= rx_write' /\ rx_write' <= peer_sent
             /\ RxSegments' /\ RxStored'
  <2>1. n \in Nat /\ n >= rx_write
    BY <1>1, BoundAssumption
  <2>2. n <= peer_sent
    BY <1>6, <2>1, MergeBounded
  <2>3. \A s \in segs : /\ s.position \in Nat /\ s.length \in Nat
                        /\ s.length > 0 => s.position + s.length <= peer_sent
    <3>1. \A s \in rx_segments :
            s.length > 0 => s.position + s.length <= peer_sent
      BY <1>2 DEF RxSegments
    <3>2. /\ p.seq \in Nat /\ p.len \in Nat
          /\ p.len > 0 => p.seq + p.len <= peer_sent
      BY SizeAssumption DEF Sendable
    <3> QED
      BY <1>1, <3>1, <3>2
  <2>4. \A s \in rx_segments' : s \in segs /\ s.position > n
    BY <1>6 DEF Ahead
  <2>5. RxSegments'
    BY <1>6, <2>3, <2>4 DEF RxSegments
  <2>6. \A x \in rx_write .. n-1 : Stored(x)'
    <3> SUFFICES ASSUME NEW x \in rx_write .. n-1
                 PROVE  Stored(x)'
      OBVIOUS
    <3>1. PICK s \in segs : s.position <= x /\ x < s.position + s.length
      BY <1>6 DEF MergedTo, Covered
    <3>2. x \in s.position .. s.position+s.length-1 /\ x >= rx_read
      BY <1>1, <1>2, <2>1, <2>3, <3>1
    <3> QED
      BY <1>4, <1>6, <3>2
  <2>7. \A x \in rx_read .. n-1 : Stored(x)'
    <3> SUFFICES ASSUME NEW x \in rx_read .. n-1
                 PROVE  Stored(x)'
      OBVIOUS
    <3>1. x \in rx_read .. rx_write-1 \/ x \in rx_write .. n-1
      BY <1>1, <2>1
    <3> QED
      BY <1>4, <1>6, <2>6, <3>1
  <2>8. \A s \in rx_segments' : \A x \in s.position .. s.position+s.length-1 :
          Stored(x)'
    <3> SUFFICES ASSUME NEW s \in rx_segments',
                        NEW x \in s.position .. s.position+s.length-1
                 PROVE  Stored(x)'
      OBVIOUS
    <3>1. s \in segs /\ s.position > n /\ s.position \in Nat /\ s.length \in Nat
      BY <2>3, <2>4
    <3>2. x >= rx_read
      BY <1>1, <1>2, <2>1, <3>1
    <3> QED
      BY <1>4, <1>6, <3>1, <3>2
  <2>9. RxStored'
    BY <1>6, <2>7, <2>8 DEF RxStored
  <2> QED
    BY <1>6, <2>1, <2>2, <2>5, <2>9
<1> QED
  BY <1>3, <1>5, <1>6 DEF AddSegment, CopyStep

LEMMA ReceiveSegment ==
  ASSUME ReceiveInv, ArriveSegment
  PROVE  RxInv' /\ AppInv'
<1>1. PICK p : /\ state # TCP_LISTEN
               /\ Sendable(p)
               /\ rx_fin' # rx_fin =>
                    peer_fin = TRUE /\ rx_fin' = p.seq + p.len
                      /\ p.seq + p.len = peer_sent
               /\ AddSegment(p)
               /\ UNCHANGED <<ctlVars, rx_read, appVars, outVars, peerVars>>
  BY SegmentFacts
<1>2. UNCHANGED <<connection_counter, connection_id, rx_read, app_id,
                  delivered, rx_edge, peer_sent, peer_fin>>
  BY <1>1 DEF ctlVars, appVars, outVars, peerVars
<1>3. RxBounds /\ RxFin
  BY <1>1 DEF ReceiveInv, RxInv
<1>4. /\ rx_write <= rx_write' /\ rx_write' <= peer_sent
      /\ RxSegments' /\ RxStored'
  BY <1>1, <1>2, ReceiveAddSegment
<1>5. RxBounds'
  <2>1. /\ rx_read \in Nat /\ rx_write \in Nat /\ peer_sent \in Nat
    BY TypeParts DEF ReceiveInv, Scalars
  <2>2. TypeInv'
    BY TypeSegment DEF ReceiveInv
  <2>3. rx_write' \in Nat
    BY <2>2 DEF TypeInv, TypeOK
  <2> QED
    BY <1>2, <1>3, <1>4, <2>1, <2>3 DEF RxBounds
<1>6. RxFin'
  BY <1>1, <1>2, <1>3 DEF RxFin
<1>7. AppInv'
  BY <1>1, <1>2, AppKept DEF ReceiveInv
<1> QED
  BY <1>4, <1>5, <1>6, <1>7 DEF RxInv

LEMMA ReceiveClient ==
  ASSUME ReceiveInv, Client
  PROVE  RxInv' /\ AppInv'
<1>1. UNCHANGED <<connection_counter, connection_id, state, rx_buffer,
                  rx_read, rx_write, rx_fin, rx_segments, rx_edge, app_id,
                  delivered>>
  BY DEF Client, PeerAccept, PeerReceive, PeerReceiveFin, PeerSend, PeerFin,
         stackVars, ctlVars, rxVars, outVars, appVars
<1>2. AppInv'
  BY <1>1, AppKept DEF ReceiveInv
<1>3. CASE UNCHANGED <<peer_sent, peer_fin>>
  BY <1>1, <1>2, <1>3, RxKept DEF ReceiveInv
<1>4. CASE PeerSend
  <2>1. /\ rx_fin \in Nat /\ rx_edge \in Nat /\ peer_sent \in Nat
        /\ rx_write \in Nat /\ rx_segments \subseteq [position : Nat, length : Nat]
    BY TypeParts DEF ReceiveInv, Scalars, Tables
  <2>2. /\ ~peer_fin
        /\ peer_sent < rx_edge /\ peer_sent <= MaxRx
        /\ peer_sent' = peer_sent + 1 /\ peer_fin' = peer_fin
    BY <1>4 DEF PeerSend
  <2>3. peer_fin # TRUE
    BY <2>2, Zenon
  <2>4. RxBounds => RxBounds'
    BY <1>1, <2>1, <2>2, BoundAssumption DEF RxBounds
  <2>5. RxFin => RxFin'
    BY <1>1, <2>2, <2>3 DEF RxFin
  <2>6. RxSegments => RxSegments'
    BY <1>1, <2>1, <2>2 DEF RxSegments
  <2>7. RxStored => RxStored'
    BY <1>1 DEF RxStored, Stored
  <2> QED
    BY <1>1, <1>2, <2>4, <2>5, <2>6, <2>7 DEF ReceiveInv, RxInv
<1>5. CASE PeerFin
  <2>1. peer_sent' = peer_sent /\ peer_fin' = TRUE
    BY <1>5 DEF PeerFin
  <2>2. RxInv'
    BY <1>1, <2>1 DEF ReceiveInv, RxInv, RxBounds, RxFin, RxSegments,
                      RxStored, Stored
  <2> QED
    BY <1>2, <2>2
<1> QED
  BY <1>3, <1>4, <1>5 DEF Client, PeerAccept, PeerReceive, PeerReceiveFin

(* The receive side of the connection keeps its invariant, whatever        *)
(* arrives and whichever call the application makes.                       *)
THEOREM ReceiveStep == ReceiveInv /\ [Next]_vars => ReceiveInv'
<1> SUFFICES ASSUME ReceiveInv, [Next]_vars
             PROVE  RxInv' /\ AppInv'
  BY TypeStep DEF ReceiveInv
<1> USE DEF ctlVars, rxVars, txVars, appVars, outVars, peerVars
<1>1. CASE Stack
  <2>1. CASE ArriveRst \/ Tick
    <3>1. /\ state # TCP_LISTEN
          /\ UNCHANGED <<ctlVars, rxVars, txVars, appVars, outVars, peerVars>>
      BY <2>1 DEF ArriveRst, HandleRst, Tick
    <3> QED
      BY <3>1, RxKept, AppKept DEF ReceiveInv
  <2> QED
    BY <1>1, <2>1, ReceiveSyn, ReceiveSegment, ReceiveSend DEF Stack
<1>2. CASE Application
  <2>1. ASSUME NEW n \in ReadSizes, ReadTcp(n)
        PROVE  RxInv' /\ AppInv'
    BY <2>1, ReceiveRead, BoundAssumption
  <2>2. ASSUME \/ ReadReset \/ WriteChunk \/ ShutdownTcp
               \/ \E n \in 1 .. MaxTx : WriteCall(n)
        PROVE  RxInv' /\ AppInv'
    <3>1. /\ state' # TCP_LISTEN => state # TCP_LISTEN
          /\ UNCHANGED <<ctlVars, rxVars, app_id, delivered, outVars, peerVars>>
      BY <2>2 DEF ReadReset, WriteChunk, ShutdownTcp, WriteCall
    <3> QED
      BY <3>1, RxKept, AppKept DEF ReceiveInv
  <2> QED
    BY <1>2, <2>1, <2>2, ReceiveCalls DEF Application
<1>3. CASE Client
  BY <1>3, ReceiveClient
<1>4. CASE UNCHANGED vars
  BY <1>4, RxKept, AppKept DEF vars, ReceiveInv
<1> QED
  BY <1>1, <1>2, <1>3, <1>4 DEF Next

(* The inductive invariant of the receive side holds of every behaviour.   *)
THEOREM ReceiveInvariant == Spec => []ReceiveInv
  BY InitReceiveInv, ReceiveStep, PTL DEF Spec

(* What read_tcp has returned is the client's stream of the application's  *)
(* connection, in order and without gaps.                                  *)
THEOREM ReadsAreTheStream == Spec => []ReadIntegrity
<1>1. ReceiveInv => ReadIntegrity
  BY DEF ReceiveInv, AppInv
<1> QED
  BY <1>1, ReceiveInvariant, PTL

(* The window offered never reaches past the room there is, and its 16-bit *)
(* field is never the image of a negative number.                          *)
THEOREM WindowsAreSound == Spec => []WindowSound
<1>1. ReceiveInv => WindowSound
  <2> SUFFICES ASSUME ReceiveInv, state # TCP_LISTEN
               PROVE  /\ rx_read <= rx_write
                      /\ rx_write <= rx_read + TCP_WINDOW
                      /\ rx_edge <= rx_read + TCP_WINDOW
    BY DEF WindowSound
  <2>1. /\ rx_read \in Nat /\ rx_write \in Nat /\ peer_sent \in Nat
        /\ rx_edge \in Nat /\ TCP_WINDOW \in Nat
    BY TypeParts, SizeAssumption DEF ReceiveInv, Scalars
  <2> QED
    BY <2>1 DEF ReceiveInv, RxInv, RxBounds
<1> QED
  BY <1>1, ReceiveInvariant, PTL

(* When read_tcp reports the end of the stream, the client has closed its  *)
(* side and everything it sent has been read.                              *)
THEOREM EndOfStreamIsComplete == Spec => []EofComplete
<1>1. ReceiveInv => EofComplete
  <2> SUFFICES ASSUME ReceiveInv, state # TCP_LISTEN, rx_read >= rx_fin
               PROVE  peer_fin = TRUE /\ rx_read = peer_sent
    BY Zenon DEF EofComplete
  <2>1. /\ rx_read \in Nat /\ rx_write \in Nat /\ peer_sent \in Nat
        /\ rx_fin \in Nat
    BY TypeParts DEF ReceiveInv, Scalars
  <2>2. RxBounds /\ RxFin
    BY DEF ReceiveInv, RxInv
  <2>3. rx_read <= peer_sent /\ rx_read < NO_FIN
    BY <2>1, <2>2, BoundAssumption DEF RxBounds
  <2>4. peer_fin = TRUE /\ rx_fin = peer_sent
    BY <2>1, <2>2, <2>3, BoundAssumption DEF RxFin
  <2> QED
    BY <2>1, <2>3, <2>4
<1> QED
  BY <1>1, ReceiveInvariant, PTL

(***************************************************************************)
(* The sending side, and the life of a connection: what the transmissions  *)
(* carry, where the FIN goes out, and which connection a write_tcp under   *)
(* way works on.                                                           *)
(***************************************************************************)
(* The transmit ring holds the byte of stream position x.                  *)
Written(x) == tx_buffer[x % TX_SIZE] = Byte(connection_id, x)

(* The positions of the sending side are in order.  A timeout moves        *)
(* tx_sent back to tx_acked, and an acknowledgement that comes after it    *)
(* lets write_tcp go on: tx_write runs ahead of tx_sent by twice what it   *)
(* may hold, and by no more.                                               *)
TxBounds ==
  /\ 1 <= tx_write /\ tx_write <= MaxTx + 1
  /\ tx_write <= tx_acked + BUFFER_SIZE
  /\ tx_write <= tx_sent + 2 * BUFFER_SIZE
  /\ tx_sent <= tx_write /\ tx_sent <= tx_limit
  /\ wlen > 0 => tx_write + wlen <= MaxTx + 1

(* Once set, tx_fin is the end of what was written, and stays it.          *)
TxFin == tx_fin # NO_FIN => tx_fin = tx_write /\ wlen = 0

(* The ring keeps the last TX_SIZE bytes written.                          *)
TxStored == \A x \in 1 .. tx_write-1 : x >= tx_write - TX_SIZE => Written(x)

(* What was sent was written, and lies less than BUFFER_SIZE ahead of      *)
(* tx_sent, also after a rollback.                                         *)
TxSent ==
  \A p \in DOMAIN sent :
    /\ p \in Nat /\ p < tx_write /\ p < tx_sent + BUFFER_SIZE
    /\ p # 0 => sent[p] = Byte(connection_id, p)

(* A FIN is sent only after tx_fin was set, and when the client has        *)
(* everything before it.  It may be sent at an earlier position, which the *)
(* client does not take any more.                                          *)
TxFins == \A q \in fins : q <= tx_write /\ tx_fin = tx_write /\ peer_next >= tx_write

(* How far the client is: it acknowledges what it has, it has what was     *)
(* sent, and after the FIN all of it.                                      *)
PeerBounds ==
  /\ tx_acked > 0 => tx_acked <= peer_next
  /\ peer_eof # TRUE => peer_next <= tx_write /\ peer_next <= tx_sent + BUFFER_SIZE
  /\ peer_eof = TRUE => tx_fin = tx_write /\ peer_next = tx_write + 1

(* It has received every position before that.                             *)
PeerHas ==
  /\ peer_eof # TRUE => \A p \in 1 .. peer_next-1 : p \in DOMAIN sent
  /\ peer_eof = TRUE => \A p \in 1 .. peer_next-2 : p \in DOMAIN sent

TxInv ==
  connection_id > 0 =>
    /\ TxBounds /\ TxFin /\ TxStored /\ TxSent /\ TxFins
    /\ PeerBounds /\ PeerHas

(* Connections are numbered in turn, nothing is known of a client before   *)
(* the first one, and a write_tcp under way works on the current one.      *)
LifeInv ==
  /\ connection_counter = connection_id + 1
  /\ connection_id = 0 =>
       state = TCP_LISTEN /\ syn_acks = {} /\ peer_next = -1
  /\ WriteHoldsConnection

(* The inductive invariant of the sending side.                            *)
SendInv == TypeInv /\ TxInv /\ LifeInv

(* The numbers of the sending side.                                        *)
TxTypes ==
  /\ connection_counter \in Nat /\ connection_id \in Nat
  /\ remote_window \in Nat
  /\ tx_write \in Nat /\ tx_sent \in Nat /\ tx_acked \in Nat
  /\ tx_limit \in Nat /\ tx_fin \in Nat
  /\ app_id \in Nat \cup {-1} /\ wlen \in Nat
  /\ peer_next \in Nat \cup {-1}

LEMMA TypesOfStep ==
  ASSUME SendInv, [Next]_vars
  PROVE  TxTypes /\ TxTypes'
<1>1. TypeInv /\ TypeInv'
  BY TypeStep DEF SendInv
<1>2. TxTypes
  BY <1>1 DEF TypeInv, TypeOK, TxTypes
<1>3. TxTypes'
  BY <1>1, Zenon DEF TypeInv, TypeOK, TxTypes
<1> QED
  BY <1>2, <1>3

LEMMA InitSendInv == Init => SendInv
<1> SUFFICES ASSUME Init
             PROVE  TxInv /\ LifeInv
  BY InitTypeInv DEF SendInv
<1>1. TxInv
  BY DEF Init, TxInv
<1>2. LifeInv
  BY DEF Init, LifeInv, WriteHoldsConnection
<1> QED
  BY <1>1, <1>2

(* Steps that touch nothing of the sending side.                           *)
LEMMA TxKept ==
  ASSUME TxInv,
         UNCHANGED <<connection_id, wlen, tx_buffer, tx_write, tx_sent,
                     tx_acked, tx_limit, tx_fin, sent, fins, peer_next,
                     peer_eof>>
  PROVE  TxInv'
  BY DEF TxInv, TxBounds, TxFin, TxStored, Written, TxSent, TxFins,
         PeerBounds, PeerHas

(* Steps that leave the connection, its client and the call under way.     *)
LEMMA LifeKept ==
  ASSUME LifeInv, state = TCP_LISTEN <=> state' = TCP_LISTEN,
         UNCHANGED <<connection_counter, connection_id, app_id, wlen>>,
         connection_id > 0 \/ UNCHANGED <<syn_acks, peer_next>>
  PROVE  LifeInv'
  BY DEF LifeInv, WriteHoldsConnection

(* A connection in use has a number.                                       *)
LEMMA Numbered ==
  ASSUME SendInv, state # TCP_LISTEN
  PROVE  /\ connection_id > 0
         /\ TxBounds /\ TxFin /\ TxStored /\ TxSent /\ TxFins
         /\ PeerBounds /\ PeerHas
<1>1. connection_id \in Nat
  BY DEF SendInv, TypeInv, TypeOK
<1> QED
  BY <1>1 DEF SendInv, LifeInv, TxInv

LEMMA SendSyn ==
  ASSUME SendInv, ArriveSyn
  PROVE  TxInv' /\ LifeInv'
<1>1. TxTypes /\ TxTypes'
  BY TypesOfStep DEF Next, Stack
<1>2. PICK c \in Clients, win \in Windows, scale \in Scales, mss \in {0, 1} :
        HandleSyn(c, win, scale, mss)
  BY DEF ArriveSyn
<1>3. /\ state = TCP_LISTEN /\ state' = TCP_SYN_RECEIVED
      /\ connection_id' = connection_counter
      /\ connection_counter' = connection_counter + 1
      /\ tx_write' = 1 /\ tx_sent' = 1 /\ tx_acked' = 0 /\ tx_fin' = NO_FIN
      /\ tx_limit' = 1 + remote_window'
      /\ peer_next' = -1 /\ peer_eof' = FALSE
      /\ UNCHANGED <<app_id, wlen>>
  BY <1>2 DEF HandleSyn, appVars
<1>0. sent' = <<>> /\ fins' = {}
  BY <1>2 DEF HandleSyn
<1>4. wlen = 0
  BY <1>1, <1>3 DEF TxTypes, SendInv, LifeInv, WriteHoldsConnection
<1>5. TxBounds'
  <2>1. BUFFER_SIZE \in Nat \ {0} /\ MaxTx \in Nat /\ wlen' = 0
    BY <1>3, <1>4, SizeAssumption, BoundAssumption
  <2>2. PICK w \in Nat : remote_window' = w
    BY <1>1 DEF TxTypes
  <2>3. tx_limit' = 1 + w
    BY <1>3, <2>2
  <2> QED
    BY <1>3, <2>1, <2>3 DEF TxBounds
<1>6. TxFin' /\ TxStored' /\ TxSent' /\ TxFins'
  <2>1. DOMAIN sent' = {}
    BY <1>0
  <2>2. 1 .. tx_write'-1 = {}
    BY <1>3
  <2> QED
    BY <1>0, <1>3, <2>1, <2>2 DEF TxFin, TxStored, TxSent, TxFins
<1>7. PeerBounds'
  <2>1. BUFFER_SIZE \in Nat
    BY SizeAssumption
  <2>2. ~(tx_acked' > 0)
    BY <1>3
  <2>3. peer_next' <= tx_write' /\ peer_next' <= tx_sent' + BUFFER_SIZE
    BY <1>3, <2>1
  <2>4. peer_eof' # TRUE
    BY <1>3, Zenon
  <2> QED
    BY <2>2, <2>3, <2>4 DEF PeerBounds
<1>8. PeerHas'
  <2>1. peer_next' - 1 = -2 /\ peer_next' - 2 = -3
    BY <1>3
  <2>2. 1 .. peer_next'-1 = {} /\ 1 .. peer_next'-2 = {}
    BY <2>1
  <2> QED
    BY <2>2 DEF PeerHas
<1>9. LifeInv'
  BY <1>1, <1>3, <1>4
     DEF SendInv, LifeInv, WriteHoldsConnection, TxTypes, TCP_LISTEN,
         TCP_SYN_RECEIVED
<1> QED
  BY <1>5, <1>6, <1>7, <1>8, <1>9 DEF TxInv

(* An acknowledgement raises tx_acked to something the client has.         *)
LEMMA SendSegment ==
  ASSUME SendInv, ArriveSegment
  PROVE  TxInv' /\ LifeInv'
<1>1. TxTypes /\ TxTypes'
  BY TypesOfStep DEF Next, Stack
<1>2. PICK c \in Clients, seq \in 1 .. MaxRx + 2, len \in 0 .. MAX_SEGMENT,
           fin \in BOOLEAN, ack \in 0 .. MaxTx + 2, win \in Windows :
        /\ c = remote => ClientAck(ack)
        /\ HandleSegment(Packet(c, seq, len, ack, win, fin, FALSE))
  BY Zenon DEF ArriveSegment
<1> DEFINE p == Packet(c, seq, len, ack, win, fin, FALSE)
<1>3. p.from = c /\ p.ack = ack
  BY DEF Packet
<1>4. /\ state # TCP_LISTEN
      /\ c = remote
      /\ tx_acked' = IF ack > tx_acked THEN ack ELSE tx_acked
      /\ tx_limit' = RaisedLimit(tx_acked' + remote_window')
      /\ state' = StateAfterAck(ack)
      /\ UNCHANGED <<ctlVars, tx_buffer, tx_write, tx_sent, tx_fin, appVars,
                     outVars, peerVars>>
  BY <1>2, <1>3 DEF HandleSegment, ConnectionMatch
<1>5. UNCHANGED <<connection_counter, connection_id, app_id, wlen, syn_acks,
                  sent, fins, peer_next, peer_eof>>
  BY <1>4 DEF ctlVars, appVars, outVars, peerVars
<1>6. /\ connection_id > 0
      /\ TxBounds /\ TxFin /\ TxStored /\ TxSent /\ TxFins
      /\ PeerBounds /\ PeerHas
  BY <1>4, Numbered
<1> HIDE DEF p
<1>7. tx_limit <= tx_limit'
  <2>1. PICK a \in Nat, w \in Nat : tx_acked' = a /\ remote_window' = w
    BY <1>1 DEF TxTypes
  <2>2. tx_limit' = Larger(tx_limit, a + w)
    BY <1>4, <2>1 DEF RaisedLimit
  <2>3. tx_limit \in Nat
    BY <1>1 DEF TxTypes
  <2> QED
    BY <2>1, <2>2, <2>3 DEF Larger
<1>8. tx_acked <= tx_acked'
  BY <1>1, <1>4 DEF TxTypes
<1>9. TxBounds'
  BY <1>1, <1>4, <1>5, <1>6, <1>7, <1>8, SizeAssumption DEF TxTypes, TxBounds
<1>10. tx_acked' > 0 => tx_acked' <= peer_next
  BY <1>1, <1>2, <1>4, <1>6 DEF TxTypes, PeerBounds, ClientAck
<1>11. PeerBounds'
  BY <1>4, <1>5, <1>6, <1>10 DEF PeerBounds
<1>12. TxFin' /\ TxStored' /\ TxSent' /\ TxFins' /\ PeerHas'
  BY <1>4, <1>5, <1>6
     DEF TxFin, TxStored, Written, TxSent, TxFins, PeerHas
<1>13. state' # TCP_LISTEN
  BY <1>4 DEF StateAfterAck, TCP_CONNECTED, TCP_LISTEN
<1>14. LifeInv'
  BY <1>4, <1>5, <1>13, LifeKept DEF SendInv
<1> QED
  BY <1>9, <1>11, <1>12, <1>14 DEF TxInv

(* What the step of send_tcp_packet does, with its local names.            *)
FirstSent == IF TimedOut THEN tx_acked ELSE tx_sent
SendLimit == IF TimedOut THEN tx_acked + remote_window ELSE tx_limit
SendLen   ==
  IF tx_acked = 0 THEN 0
  ELSE Smaller(Smaller(tx_write - FirstSent, SendLimit - FirstSent), MAX_SEGMENT)

LEMMA SendFacts ==
  ASSUME SendTcpPacket
  PROVE  /\ state # TCP_LISTEN
         /\ tx_limit' = SendLimit
         /\ tx_sent' = FirstSent + SendLen
         /\ sent' = [p \in DOMAIN sent \cup (FirstSent .. FirstSent+SendLen-1) |->
                       IF p \in FirstSent .. FirstSent+SendLen-1
                       THEN CopyFrom(tx_buffer, TX_SIZE, FirstSent, SendLen)[p - FirstSent]
                       ELSE sent[p]]
         /\ fins' = IF FinWanted THEN fins \cup {FirstSent + SendLen} ELSE fins
         /\ state' \in {StateAfterSend(tx_acked = 0, FinWanted), TCP_SEND_RST}
         /\ UNCHANGED <<connection_counter, connection_id, tx_buffer, tx_write,
                        tx_acked, tx_fin, app_id, wlen, peer_next, peer_eof>>
BY DEF SendTcpPacket, FirstSent, SendLimit, SendLen, ctlVars, appVars, peerVars

(* The bytes sent lie between the acknowledged and the written ones, in    *)
(* the part of the ring that was not used again.                           *)
LEMMA SendRange ==
  ASSUME SendInv, SendTcpPacket
  PROVE  /\ FirstSent \in Nat /\ SendLimit \in Nat /\ SendLen \in Nat
         /\ FirstSent + SendLen <= tx_write
         /\ FirstSent + SendLen <= SendLimit
         /\ tx_write <= FirstSent + 2 * BUFFER_SIZE
         /\ SendLen <= MAX_SEGMENT
         /\ FirstSent = tx_sent \/ tx_write <= FirstSent + BUFFER_SIZE
<1>1. TxTypes
  BY TypesOfStep DEF Next, Stack
<1>2. TxBounds
  BY Numbered, SendFacts
<1>3. BUFFER_SIZE \in Nat /\ MAX_SEGMENT \in Nat
  BY SizeAssumption
<1>4. /\ FirstSent \in Nat /\ SendLimit \in Nat
      /\ FirstSent <= tx_write /\ FirstSent <= SendLimit
      /\ tx_write <= FirstSent + 2 * BUFFER_SIZE
      /\ FirstSent = tx_sent \/ tx_write <= FirstSent + BUFFER_SIZE
  BY <1>1, <1>2, <1>3 DEF TxTypes, TxBounds, FirstSent, SendLimit, TimedOut
<1>5. /\ SendLen \in Nat /\ SendLen <= MAX_SEGMENT
      /\ FirstSent + SendLen <= tx_write /\ FirstSent + SendLen <= SendLimit
  BY <1>1, <1>3, <1>4 DEF TxTypes, SendLen, Smaller
<1> QED
  BY <1>4, <1>5

LEMMA SendSend ==
  ASSUME SendInv, SendTcpPacket
  PROVE  TxInv' /\ LifeInv'
<1> DEFINE from  == FirstSent
           len   == SendLen
           new   == from .. from+len-1
           bytes == CopyFrom(tx_buffer, TX_SIZE, from, len)
<1>1. TxTypes
  BY TypesOfStep DEF Next, Stack
<1>2. /\ state # TCP_LISTEN
      /\ tx_limit' = SendLimit
      /\ tx_sent' = from + len
      /\ sent' = [p \in DOMAIN sent \cup new |->
                    IF p \in new THEN bytes[p - from] ELSE sent[p]]
      /\ fins' = IF FinWanted THEN fins \cup {from + len} ELSE fins
      /\ state' \in {StateAfterSend(tx_acked = 0, FinWanted), TCP_SEND_RST}
      /\ UNCHANGED <<connection_counter, connection_id, tx_buffer, tx_write,
                     tx_acked, tx_fin, app_id, wlen, peer_next, peer_eof>>
  BY SendFacts
<1>3. /\ connection_id > 0
      /\ TxBounds /\ TxFin /\ TxStored /\ TxSent /\ TxFins
      /\ PeerBounds /\ PeerHas
  BY <1>2, Numbered
<1>4. /\ from \in Nat /\ SendLimit \in Nat /\ len \in Nat
      /\ from + len <= tx_write
      /\ from + len <= SendLimit
      /\ tx_write <= from + 2 * BUFFER_SIZE
      /\ len <= MAX_SEGMENT
      /\ from = tx_sent \/ tx_write <= from + BUFFER_SIZE
  BY SendRange
<1>5. /\ BUFFER_SIZE \in Nat /\ MAX_SEGMENT \in Nat
      /\ TX_SIZE \in Nat \ {0}
      /\ TX_SIZE >= 2 * BUFFER_SIZE /\ TX_SIZE > MAX_SEGMENT
      /\ MaxTx \in Nat /\ NO_FIN \in Nat /\ NO_FIN > MaxTx + 2
  BY SizeAssumption, BoundAssumption
<1> HIDE DEF from, len
<1>6. TxBounds'
  BY <1>1, <1>2, <1>3, <1>4, <1>5 DEF TxTypes, TxBounds
<1>7. ASSUME NEW p \in new, p # 0
      PROVE  bytes[p - from] = Byte(connection_id, p)
  <2>1. len > 0 /\ p \in Nat /\ from <= p /\ p < from + len
    BY <1>4
  <2>2. Copies(TX_SIZE, len)
    BY <1>4, <1>5, <2>1 DEF Copies
  <2>3. bytes = [k \in 0 .. len-1 |-> tx_buffer[(from + k) % TX_SIZE]]
    BY <1>4, <1>5, <2>2, CopyFromReads
  <2>4. p - from \in 0 .. len-1 /\ from + (p - from) = p
    BY <1>4, <2>1
  <2> HIDE DEF bytes
  <2>5. bytes[p - from] = tx_buffer[p % TX_SIZE]
    BY <2>3, <2>4
  <2>6. p \in 1 .. tx_write-1 /\ p >= tx_write - TX_SIZE
    BY <1>1, <1>4, <1>5, <1>7, <2>1 DEF TxTypes
  <2> QED
    BY <1>3, <2>5, <2>6 DEF TxStored, Written
<1>8. DOMAIN sent' = DOMAIN sent \cup new
  BY <1>2
<1>9. TxSent'
  <2> SUFFICES ASSUME NEW p \in DOMAIN sent'
               PROVE  /\ p \in Nat /\ p < tx_write /\ p < tx_sent' + BUFFER_SIZE
                      /\ p # 0 => sent'[p] = Byte(connection_id, p)
    BY <1>2 DEF TxSent
  <2>1. CASE p \in new
    <3>1. p \in Nat /\ p < from + len
      BY <1>4, <2>1
    <3>2. p < tx_write /\ p < tx_sent' + BUFFER_SIZE
      BY <1>1, <1>2, <1>4, <1>5, <3>1, SizeAssumption DEF TxTypes
    <3>3. sent'[p] = bytes[p - from]
      BY <1>2, <2>1
    <3> QED
      BY <1>7, <2>1, <3>1, <3>2, <3>3
  <2>2. CASE p \notin new
    <3>1. p \in DOMAIN sent
      BY <1>8, <2>2
    <3>2. sent'[p] = sent[p]
      BY <1>2, <2>2, <3>1
    <3>3. /\ p \in Nat /\ p < tx_write /\ p < tx_sent + BUFFER_SIZE
          /\ p # 0 => sent[p] = Byte(connection_id, p)
      BY <1>3, <3>1 DEF TxSent
    <3>4. p < tx_sent' + BUFFER_SIZE
      BY <1>1, <1>2, <1>4, <1>5, <3>3 DEF TxTypes
    <3> QED
      BY <3>2, <3>3, <3>4
  <2> QED
    BY <2>1, <2>2
<1>10. TxFin' /\ TxStored'
  BY <1>2, <1>3 DEF TxFin, TxStored, Written
<1>11. ASSUME FinWanted
       PROVE  tx_fin = tx_write /\ peer_next >= tx_write
  <2>1. tx_acked <= tx_write + 1
    <3>1. peer_next <= tx_write \/ peer_next = tx_write + 1
      BY <1>3, Zenon DEF PeerBounds
    <3>2. tx_acked > 0 => tx_acked <= peer_next
      BY <1>3 DEF PeerBounds
    <3> QED
      BY <1>1, <3>1, <3>2 DEF TxTypes
  <2>2. tx_acked < NO_FIN
    BY <1>1, <1>3, <1>5, <2>1 DEF TxTypes, TxBounds
  <2>3. tx_fin = tx_write
    BY <1>1, <1>3, <1>5, <1>11, <2>2 DEF TxTypes, FinWanted, TxFin
  <2>4. tx_acked > 0 /\ tx_acked >= tx_write
    BY <1>1, <1>3, <1>11, <2>3 DEF TxTypes, TxBounds, FinWanted
  <2> QED
    BY <1>1, <1>3, <2>3, <2>4 DEF TxTypes, PeerBounds
<1>12. TxFins'
  <2> SUFFICES ASSUME NEW q \in fins'
               PROVE  q <= tx_write /\ tx_fin = tx_write /\ peer_next >= tx_write
    BY <1>2 DEF TxFins
  <2>1. CASE q \in fins
    BY <1>3, <2>1 DEF TxFins
  <2>2. CASE q \notin fins
    <3>1. FinWanted /\ q = from + len
      BY <1>2, <2>2
    <3> QED
      BY <1>4, <1>11, <3>1
  <2> QED
    BY <2>1, <2>2
<1>13. PeerBounds'
  <2>1. peer_eof # TRUE => peer_next <= tx_sent' + BUFFER_SIZE
    BY <1>1, <1>2, <1>3, <1>4, <1>5 DEF TxTypes, PeerBounds
  <2> QED
    BY <1>2, <1>3, <2>1 DEF PeerBounds
<1>14. PeerHas'
  BY <1>2, <1>3, <1>8 DEF PeerHas
<1>15. state' # TCP_LISTEN
  BY <1>2 DEF StateAfterSend, RecordClosed, TCP_LISTEN, TCP_SYN_ACK_SENT,
       TCP_SEND_RST, TCP_DATA_TO_READ, TCP_RX_CLOSED, TCP_TX_CLOSED,
       TCP_BOTH_CLOSED
<1>16. LifeInv'
  BY <1>2, <1>3, <1>15, LifeKept DEF SendInv
<1> QED
  BY <1>6, <1>9, <1>10, <1>12, <1>13, <1>14, <1>16 DEF TxInv

(* A call of write_tcp is under way only on an open connection, before     *)
(* shutdown_tcp: nothing of its end is known to anyone.                    *)
LEMMA WritingFacts ==
  ASSUME SendInv, wlen > 0
  PROVE  /\ state # TCP_LISTEN /\ connection_id = app_id
         /\ tx_fin = NO_FIN /\ peer_eof # TRUE /\ fins = {}
         /\ tx_acked <= tx_write /\ tx_acked <= tx_sent + BUFFER_SIZE
<1>1. TxTypes
  BY DEF SendInv, TypeInv, TypeOK, TxTypes
<1>2. state # TCP_LISTEN /\ connection_id = app_id
  BY DEF SendInv, LifeInv, WriteHoldsConnection
<1>3. TxBounds /\ TxFin /\ TxFins /\ PeerBounds
  BY <1>2, Numbered
<1>4. MaxTx \in Nat /\ NO_FIN > MaxTx + 2 /\ NO_FIN \in Nat /\ BUFFER_SIZE \in Nat
  BY SizeAssumption, BoundAssumption
<1>5. tx_fin = NO_FIN
  BY <1>1, <1>3 DEF TxTypes, TxFin
<1>6. tx_fin # tx_write
  BY <1>1, <1>3, <1>4, <1>5 DEF TxTypes, TxBounds
<1>7. peer_eof # TRUE /\ fins = {}
  BY <1>3, <1>6, Zenon DEF PeerBounds, TxFins
<1>8. peer_next <= tx_write /\ peer_next <= tx_sent + BUFFER_SIZE
  BY <1>3, <1>7 DEF PeerBounds
<1>9. tx_acked > 0 => tx_acked <= peer_next
  BY <1>3 DEF PeerBounds
<1>10. tx_acked <= tx_write /\ tx_acked <= tx_sent + BUFFER_SIZE
  BY <1>1, <1>4, <1>8, <1>9 DEF TxTypes
<1> QED
  BY <1>2, <1>5, <1>7, <1>10

(* write_tcp stores the next bytes over positions that are TX_SIZE behind. *)
LEMMA SendWriteChunk ==
  ASSUME SendInv, WriteChunk
  PROVE  TxInv' /\ LifeInv'
<1> DEFINE len   == Smaller(wlen, WriteRoom)
           bytes == [k \in 0 .. len-1 |-> Byte(app_id, tx_write + k)]
<1>1. TxTypes
  BY TypesOfStep DEF Next, Application
<1>2. /\ wlen > 0 /\ len > 0
      /\ tx_buffer' = CopyTo(tx_buffer, TX_SIZE, tx_write, bytes, len)
      /\ tx_write' = tx_write + len
      /\ wlen' = wlen - len
      /\ UNCHANGED <<connection_counter, connection_id, state, tx_sent,
                     tx_acked, tx_limit, tx_fin, app_id, syn_acks, sent, fins,
                     peer_next, peer_eof>>
  BY DEF WriteChunk, ctlVars, outVars, peerVars
<1>3. /\ state # TCP_LISTEN /\ connection_id = app_id
      /\ tx_fin = NO_FIN /\ peer_eof # TRUE /\ fins = {}
      /\ tx_acked <= tx_write /\ tx_acked <= tx_sent + BUFFER_SIZE
  BY <1>2, WritingFacts
<1>4. /\ connection_id > 0
      /\ TxBounds /\ TxFin /\ TxStored /\ TxSent /\ PeerBounds /\ PeerHas
  BY <1>3, Numbered
<1>5. /\ BUFFER_SIZE \in Nat \ {0} /\ TX_SIZE \in Nat \ {0}
      /\ TX_SIZE >= 2 * BUFFER_SIZE /\ MaxTx \in Nat
  BY SizeAssumption, BoundAssumption
<1>6. /\ len \in Nat /\ len <= wlen
      /\ tx_write + len <= tx_acked + BUFFER_SIZE
  BY <1>1, <1>2, <1>5
     DEF TxTypes, WriteRoom, WindowAvailable, BufferAvailable, Smaller
<1> HIDE DEF len
<1>7. TxBounds'
  BY <1>1, <1>2, <1>3, <1>4, <1>5, <1>6 DEF TxTypes, TxBounds
<1>8. TxFin'
  BY <1>2, <1>3 DEF TxFin
<1>9. TxStored'
  <2> DEFINE end == tx_write'
  <2> SUFFICES ASSUME NEW x \in 1 .. end-1, x >= end - TX_SIZE
               PROVE  tx_buffer'[x % TX_SIZE] = Byte(connection_id, x)
    BY <1>2 DEF TxStored, Written
  <2>9. end = tx_write + len
    BY <1>2
  <2> HIDE DEF end
  <2>0. x \in 1 .. tx_write+len-1 /\ x >= tx_write + len - TX_SIZE
    BY <1>1, <1>5, <1>6, <2>9 DEF TxTypes
  <2>1. /\ x \in Nat /\ len \in 0 .. TX_SIZE-1
        /\ x - tx_write < TX_SIZE /\ tx_write + len - 1 - x < TX_SIZE
    <3>1. /\ tx_write \in Nat /\ tx_acked \in Nat
          /\ tx_acked <= tx_write /\ tx_write + len <= tx_acked + BUFFER_SIZE
      BY <1>1, <1>3, <1>6 DEF TxTypes
    <3>2. len <= BUFFER_SIZE /\ len <= TX_SIZE-1
      BY <1>5, <1>6, <3>1
    <3> QED
      BY <1>5, <1>6, <2>0, <3>1, <3>2
  <2>2. CopyTo(tx_buffer, TX_SIZE, tx_write, bytes, len)[x % TX_SIZE] =
          IF InRange(x, tx_write, len) THEN bytes[x - tx_write]
          ELSE tx_buffer[x % TX_SIZE]
    <3> HIDE DEF bytes
    <3>1. tx_write \in Nat
      BY <1>1 DEF TxTypes
    <3> QED
      BY <1>5, <2>1, <3>1, CopyToWindow
  <2>3. CASE InRange(x, tx_write, len)
    <3>1. x - tx_write \in 0 .. len-1 /\ tx_write + (x - tx_write) = x
      BY <1>1, <1>6, <2>1, <2>3 DEF InRange, TxTypes
    <3>2. bytes[x - tx_write] = Byte(app_id, x)
      BY <3>1
    <3> QED
      BY <1>2, <1>3, <2>2, <2>3, <3>2
  <2>4. CASE ~InRange(x, tx_write, len)
    <3>1. x \in 1 .. tx_write-1 /\ x >= tx_write - TX_SIZE
      BY <1>1, <1>5, <1>6, <2>0, <2>4 DEF InRange, TxTypes
    <3>2. tx_buffer[x % TX_SIZE] = Byte(connection_id, x)
      BY <1>4, <3>1 DEF TxStored, Written
    <3> QED
      BY <1>2, <2>2, <2>4, <3>2
  <2> QED
    BY <2>3, <2>4
<1>10. TxSent'
  BY <1>1, <1>2, <1>4, <1>6 DEF TxTypes, TxSent
<1>11. TxFins' /\ PeerHas'
  BY <1>2, <1>3, <1>4 DEF TxFins, PeerHas
<1>12. PeerBounds'
  <2>1. peer_next <= tx_write' /\ peer_next <= tx_sent + BUFFER_SIZE
    BY <1>1, <1>2, <1>3, <1>4, <1>5, <1>6 DEF TxTypes, PeerBounds
  <2> QED
    BY <1>2, <1>3, <1>4, <2>1 DEF PeerBounds
<1>13. LifeInv'
  BY <1>2, <1>3 DEF SendInv, LifeInv, WriteHoldsConnection
<1> QED
  BY <1>7, <1>8, <1>9, <1>10, <1>11, <1>12, <1>13 DEF TxInv

(* The calls that start and end the application's writing.                 *)
LEMMA SendCalls ==
  ASSUME SendInv,
         ShutdownTcp \/ CloseTcp \/ OpenTcp \/ ReadReset
           \/ \E n \in 1 .. MaxTx : WriteCall(n)
  PROVE  TxInv' /\ LifeInv'
<1> USE DEF ctlVars, rxVars, txVars, appVars, outVars, peerVars
<1>1. TxTypes
  BY DEF SendInv, TypeInv, TypeOK, TxTypes
<1>2. CASE CloseTcp \/ OpenTcp \/ ReadReset
  <2>1. /\ wlen = 0
        /\ state' \in {state, TCP_LISTEN}
        /\ UNCHANGED <<ctlVars, txVars, wlen, outVars, peerVars>>
    BY <1>1, <1>2 DEF SendInv, TypeInv, TxTypes, CloseTcp, OpenTcp, ReadReset
  <2>2. TxInv'
    BY <2>1, TxKept DEF SendInv
  <2>3. LifeInv'
    BY <2>1 DEF SendInv, LifeInv, WriteHoldsConnection
  <2> QED
    BY <2>2, <2>3
<1>3. CASE ShutdownTcp
  <2>1. /\ wlen = 0 /\ state # TCP_LISTEN
        /\ tx_fin' = tx_write
        /\ UNCHANGED <<ctlVars, state, tx_buffer, tx_write, tx_sent, tx_acked,
                       tx_limit, appVars, outVars, peerVars>>
    BY <1>3 DEF ShutdownTcp, Usable
  <2>2. /\ TxBounds /\ TxFin /\ TxStored /\ TxSent /\ TxFins
        /\ PeerBounds /\ PeerHas
    BY <2>1, Numbered
  <2>3. /\ TxBounds' /\ TxFin' /\ TxStored' /\ TxSent' /\ TxFins'
        /\ PeerBounds' /\ PeerHas'
    BY <2>1, <2>2 DEF TxBounds, TxFin, TxStored, Written, TxSent, TxFins,
                      PeerBounds, PeerHas
  <2>4. LifeInv'
    BY <2>1 DEF SendInv, LifeInv, WriteHoldsConnection
  <2> QED
    BY <2>3, <2>4 DEF TxInv
<1>4. ASSUME NEW n \in 1 .. MaxTx, WriteCall(n)
      PROVE  TxInv' /\ LifeInv'
  <2>1. /\ Usable /\ tx_fin = NO_FIN
        /\ tx_write + n <= MaxTx + 1
        /\ wlen' = n
        /\ UNCHANGED <<ctlVars, state, txVars, app_id, outVars, peerVars>>
    BY <1>4 DEF WriteCall
  <2>2. /\ TxBounds /\ TxFin /\ TxStored /\ TxSent /\ TxFins
        /\ PeerBounds /\ PeerHas
    BY <2>1, Numbered DEF Usable
  <2>3. TxBounds'
    BY <2>1, <2>2 DEF TxBounds
  <2>4. TxFin' /\ TxStored' /\ TxSent' /\ TxFins' /\ PeerBounds' /\ PeerHas'
    BY <2>1, <2>2 DEF TxFin, TxStored, Written, TxSent, TxFins, PeerBounds,
                      PeerHas
  <2>5. LifeInv'
    BY <2>1 DEF SendInv, LifeInv, WriteHoldsConnection, Usable
  <2> QED
    BY <2>3, <2>4, <2>5 DEF TxInv
<1> QED
  BY <1>2, <1>3, <1>4

(* The client takes only what was sent, and the FIN only at its place.     *)
LEMMA SendClient ==
  ASSUME SendInv, Client
  PROVE  TxInv' /\ LifeInv'
<1>1. TxTypes /\ SendInv
  BY DEF SendInv, TypeInv, TypeOK, TxTypes
<1>2. UNCHANGED <<connection_counter, connection_id, state, app_id, wlen,
                  tx_buffer, tx_write, tx_sent, tx_acked, tx_limit, tx_fin,
                  syn_acks, sent, fins>>
  BY DEF Client, PeerAccept, PeerReceive, PeerReceiveFin, PeerSend, PeerFin,
         stackVars, ctlVars, txVars, outVars, appVars
<1>3. connection_id = 0 => syn_acks = {} /\ peer_next = -1
  BY DEF SendInv, LifeInv
<1>4. CASE UNCHANGED <<peer_next, peer_eof>>
  BY <1>1, <1>2, <1>4, TxKept, LifeKept, <1>3 DEF SendInv, TxTypes, LifeInv, WriteHoldsConnection
<1>5. ASSUME \/ PeerAccept \/ PeerReceive \/ PeerReceiveFin
      PROVE  connection_id > 0
  BY <1>1, <1>3, <1>5 DEF TxTypes, PeerAccept, PeerReceive, PeerReceiveFin
<1>6. ASSUME \/ PeerAccept \/ PeerReceive \/ PeerReceiveFin
      PROVE  /\ TxBounds /\ TxFin /\ TxStored /\ TxSent /\ TxFins
             /\ PeerBounds /\ PeerHas /\ LifeInv'
  <2>1. connection_id > 0
    BY <1>5, <1>6
  <2> QED
    BY <1>2, <2>1, LifeKept DEF SendInv, TxInv
<1>7. TxBounds /\ TxFin /\ TxStored /\ TxSent
        => TxBounds' /\ TxFin' /\ TxStored' /\ TxSent'
  BY <1>2 DEF TxBounds, TxFin, TxStored, Written, TxSent
<1>8. BUFFER_SIZE \in Nat \ {0} /\ MaxTx \in Nat /\ NO_FIN \in Nat
  BY SizeAssumption, BoundAssumption
<1>9. CASE PeerAccept
  <2>1. peer_next = -1 /\ peer_eof' = peer_eof
    BY <1>9 DEF PeerAccept
  <2>2. PICK s \in syn_acks : peer_next' = s + 1
    BY <1>9 DEF PeerAccept
  <2>3. s \in {-1, 0}
    BY DEF SendInv, TypeInv, TypeOK
  <2>0. tx_write \in Nat /\ tx_write >= 1 /\ tx_acked \in Nat
    BY <1>1, <1>6, <1>9 DEF TxTypes, TxBounds
  <2>4. peer_eof # TRUE /\ ~(tx_acked > 0)
    <3>1. ~(peer_next = tx_write + 1)
      BY <2>0, <2>1
    <3>2. tx_acked > 0 => ~(tx_acked <= peer_next)
      BY <2>0, <2>1
    <3> QED
      BY <1>6, <1>9, <3>1, <3>2, Zenon DEF PeerBounds
  <2>5. fins = {}
    <3>1. ~(peer_next >= tx_write)
      BY <2>0, <2>1
    <3> QED
      BY <1>6, <1>9, <3>1, Zenon DEF TxFins
  <2>6. s + 1 \in {0, 1} /\ s + 1 <= tx_write /\ s + 1 <= tx_sent + BUFFER_SIZE
    BY <1>1, <1>6, <1>8, <1>9, <2>3 DEF TxTypes, TxBounds
  <2>7. TxFins'
    BY <1>2, <2>5 DEF TxFins
  <2>8. PeerBounds'
    <3>1. ~(tx_acked' > 0) /\ peer_eof' # TRUE
      BY <1>2, <2>1, <2>4, Zenon
    <3>2. peer_next' <= tx_write' /\ peer_next' <= tx_sent' + BUFFER_SIZE
      BY <1>2, <2>2, <2>6
    <3> QED
      BY <3>1, <3>2, Zenon DEF PeerBounds
  <2>9. PeerHas'
    <3>1. peer_eof' # TRUE
      BY <2>1, <2>4, Zenon
    <3>2. peer_next' - 1 = s
      BY <2>2, <2>3
    <3>3. 1 .. peer_next'-1 = {}
      BY <2>3, <3>2
    <3> QED
      BY <3>1, <3>3 DEF PeerHas
  <2> QED
    BY <1>6, <1>7, <1>9, <2>7, <2>8, <2>9 DEF TxInv
<1>10. CASE PeerReceive
  <2>1. /\ peer_next > 0 /\ peer_eof # TRUE
        /\ peer_next \in DOMAIN sent
        /\ peer_next' = peer_next + 1 /\ peer_eof' = peer_eof
    BY <1>10, Zenon DEF PeerReceive
  <2>2. peer_next < tx_write /\ peer_next < tx_sent + BUFFER_SIZE /\ peer_next \in Nat
    BY <1>6, <1>10, <2>1 DEF TxSent
  <2>3. TxFins'
    BY <1>1, <1>2, <1>6, <1>10, <2>1, <2>2 DEF TxFins, TxTypes
  <2>4. PeerBounds'
    <3>1. peer_eof' # TRUE
      BY <2>1, Zenon
    <3>2. peer_next' <= tx_write' /\ peer_next' <= tx_sent' + BUFFER_SIZE
      BY <1>1, <1>2, <1>8, <2>1, <2>2 DEF TxTypes
    <3>3. tx_acked' > 0 => tx_acked' <= peer_next'
      BY <1>1, <1>2, <1>6, <1>10, <2>1, <2>2 DEF PeerBounds, TxTypes
    <3> QED
      BY <3>1, <3>2, <3>3, Zenon DEF PeerBounds
  <2>5. PeerHas'
    <3>0. peer_eof' # TRUE
      BY <2>1, Zenon
    <3>1. peer_next' - 1 = peer_next
      BY <2>1, <2>2
    <3>2. \A p \in 1 .. peer_next : p \in DOMAIN sent
      BY <1>6, <1>10, <2>1, <2>2 DEF PeerHas
    <3> QED
      BY <1>2, <3>0, <3>1, <3>2 DEF PeerHas
  <2> QED
    BY <1>6, <1>7, <1>10, <2>3, <2>4, <2>5 DEF TxInv
<1>11. CASE PeerReceiveFin
  <2>1. /\ peer_next > 0 /\ peer_eof # TRUE
        /\ peer_next \in fins
        /\ peer_next' = peer_next + 1 /\ peer_eof' = TRUE
    BY <1>11, Zenon DEF PeerReceiveFin
  <2>2. peer_next = tx_write /\ tx_fin = tx_write
    BY <1>1, <1>6, <1>11, <2>1 DEF TxFins, PeerBounds, TxTypes
  <2>3. TxFins'
    BY <1>1, <1>2, <1>6, <1>11, <2>1, <2>2 DEF TxFins, TxTypes
  <2>4. PeerBounds'
    BY <1>1, <1>2, <1>6, <1>8, <1>11, <2>1, <2>2 DEF PeerBounds, TxTypes
  <2>5. PeerHas'
    BY <1>1, <1>2, <1>6, <1>11, <2>1, <2>2 DEF PeerHas, TxTypes
  <2> QED
    BY <1>6, <1>7, <1>11, <2>3, <2>4, <2>5 DEF TxInv
<1> QED
  BY <1>4, <1>9, <1>10, <1>11 DEF Client, PeerSend, PeerFin

(* The sending side keeps its invariant, whatever acknowledgements arrive, *)
(* whenever the timer expires and wherever in write_tcp that happens.      *)
THEOREM SendStep == SendInv /\ [Next]_vars => SendInv'
<1> SUFFICES ASSUME SendInv, [Next]_vars
             PROVE  TxInv' /\ LifeInv'
  BY TypeStep DEF SendInv
<1>1. TxTypes /\ TxInv /\ LifeInv
  BY TypesOfStep DEF SendInv
<1>2. connection_id > 0 \/ connection_id = 0
  BY <1>1 DEF TxTypes
<1>3. CASE \/ ArriveRst \/ Tick \/ UNCHANGED vars
           \/ \E n \in ReadSizes : ReadTcp(n)
  <2> DEFINE Idle ==
        /\ UNCHANGED <<ctlVars, txVars, app_id, wlen, outVars, peerVars>>
        /\ state' = state \/ (state # TCP_LISTEN /\ state' # TCP_LISTEN)
  <2>1. ASSUME ArriveRst
        PROVE  Idle
    BY <2>1 DEF ArriveRst, HandleRst, StateAfterRst, TCP_SEND_RST, TCP_LISTEN,
                appVars
  <2>2. ASSUME Tick
        PROVE  Idle
    BY <2>2 DEF Tick, appVars
  <2>3. ASSUME NEW n \in ReadSizes, ReadTcp(n)
        PROVE  Idle
    BY <2>3 DEF ReadTcp
  <2>4. ASSUME UNCHANGED vars
        PROVE  Idle
    BY <2>4 DEF vars, appVars
  <2>5. Idle
    <3> HIDE DEF Idle
    <3> QED
      BY <1>3, <2>1, <2>2, <2>3, <2>4
  <2>6. TxInv'
    BY <1>1, <2>5, TxKept DEF ctlVars, txVars, outVars, peerVars
  <2>7. LifeInv'
    BY <1>1, <1>2, <2>5, LifeKept DEF ctlVars, outVars, peerVars
  <2> QED
    BY <2>6, <2>7
<1>4. CASE Stack
  BY <1>3, <1>4, SendSyn, SendSegment, SendSend DEF Stack
<1>5. CASE Application
  BY <1>3, <1>5, SendWriteChunk, SendCalls DEF Application
<1> QED
  BY <1>3, <1>4, <1>5, SendClient DEF Next

(* The inductive invariant of the sending side holds of every behaviour.   *)
THEOREM SendInvariant == Spec => []SendInv
  BY InitSendInv, SendStep, PTL DEF Spec

(* Every transmission carries the bytes the application wrote at its       *)
(* position, after a timeout's rollback as well: write_tcp has not used    *)
(* the place of an unacknowledged byte again.                              *)
THEOREM TransmissionsAreTheStream == Spec => []SendIntegrity
<1>1. SendInv => SendIntegrity
  BY Numbered DEF SendIntegrity, TxSent
<1> QED
  BY <1>1, SendInvariant, PTL

(* The unsigned differences send_tcp_packet computes never wrap.           *)
THEOREM DifferencesNeverWrap == Spec => []SendWithinLimits
<1>1. SendInv => SendWithinLimits
  BY Numbered DEF SendWithinLimits, TxBounds
<1> QED
  BY <1>1, SendInvariant, PTL

(* A client that has seen the end of the stream has received all that the  *)
(* application wrote before shutdown_tcp.                                  *)
THEOREM FinComesLast == Spec => []ClientSeesFinAtEnd
<1>1. SendInv => ClientSeesFinAtEnd
  <2> SUFFICES ASSUME SendInv, state # TCP_LISTEN, peer_eof
               PROVE  tx_fin = tx_write /\ peer_next = tx_fin + 1
    BY Zenon DEF ClientSeesFinAtEnd
  <2>1. peer_eof = TRUE
    BY Zenon DEF SendInv, TypeInv, TypeOK
  <2> QED
    BY <2>1, Numbered DEF PeerBounds
<1> QED
  BY <1>1, SendInvariant, PTL

(* The connection write_tcp checked when it was called is the current one  *)
(* at every later pass of its loop: nothing it polls frees the connection. *)
THEOREM WriteKeepsItsConnection == Spec => []WriteHoldsConnection
<1>1. SendInv => WriteHoldsConnection
  BY DEF SendInv, LifeInv
<1> QED
  BY <1>1, SendInvariant, PTL

ResetStep ==
  ( /\ state \in {TCP_SEND_RST, TCP_DATA_TO_READ}
    /\ tx_acked > 0
    /\ connection_id' = connection_id )
  => state' \in {TCP_SEND_RST, TCP_DATA_TO_READ, TCP_LISTEN}

(* A reset connection that was established is never revived: it stays      *)
(* reset until it is freed.                                                *)
THEOREM ResetStaysFinal == Spec => ResetIsFinal
<1>1. [Next]_vars => [ResetStep]_vars
  <2> SUFFICES ASSUME [Next]_vars,
                      state \in {TCP_SEND_RST, TCP_DATA_TO_READ},
                      tx_acked > 0
               PROVE  state' \in {TCP_SEND_RST, TCP_DATA_TO_READ, TCP_LISTEN}
    BY DEF ResetStep
  <2>1. state # TCP_LISTEN /\ state # TCP_SYN_ACK_SENT /\ tx_acked # 0
    BY DEF TCP_SEND_RST, TCP_DATA_TO_READ, TCP_LISTEN, TCP_SYN_ACK_SENT
  <2>2. CASE ArriveSyn
    BY <2>1, <2>2 DEF ArriveSyn, HandleSyn
  <2>3. CASE ArriveRst
    BY <2>3 DEF ArriveRst, HandleRst, StateAfterRst
  <2>4. CASE ArriveSegment
    BY <2>1, <2>4 DEF ArriveSegment, HandleSegment, StateAfterAck
  <2>5. CASE SendTcpPacket
    <3>1. StateAfterSend(FALSE, FinWanted) = TCP_DATA_TO_READ
      BY DEF StateAfterSend, CNot, TCP_SEND_RST, TCP_DATA_TO_READ
    <3>2. state' \in {StateAfterSend(tx_acked = 0, FinWanted), TCP_SEND_RST}
      BY <2>5, SendFacts
    <3> QED
      BY <2>1, <3>1, <3>2, Zenon
  <2>6. CASE Tick \/ Application \/ Client \/ UNCHANGED vars
    <3>1. state' \in {state, TCP_LISTEN}
      BY <2>6 DEF Tick, Application, OpenTcp, ReadReset, ReadTcp, WriteCall,
                  WriteChunk, ShutdownTcp, CloseTcp, Client, PeerAccept,
                  PeerReceive, PeerReceiveFin, PeerSend, PeerFin, stackVars,
                  vars
    <3> QED
      BY <3>1
  <2> QED
    BY <2>2, <2>3, <2>4, <2>5, <2>6 DEF Next, Stack
<1> QED
  BY <1>1, PTL DEF Spec, ResetIsFinal, ResetStep
(***************************************************************************)
(* TcpConnection implements ByteStream: each of its steps is a step of the *)
(* abstract connection or leaves all of it unchanged.                      *)
(***************************************************************************)
(* A longer stream continues a shorter one.                                *)
LEMMA StreamPrefix ==
  ASSUME NEW c \in Nat, NEW a \in Nat, NEW b \in Nat, 1 <= a, a <= b
  PROVE  /\ Abstract!IsPrefix(Stream(c, a), Stream(c, b))
         /\ a < b => Abstract!IsStrictPrefix(Stream(c, a), Stream(c, b))
<1> DEFINE S == Nat \X Nat
<1>1. ASSUME NEW n \in Nat, 1 <= n
      PROVE  /\ Stream(c, n) \in Seq(S)
             /\ Len(Stream(c, n)) = n - 1
             /\ \A i \in 1 .. n-1 : Stream(c, n)[i] = Byte(c, i)
  <2>1. n - 1 \in Nat
    BY <1>1
  <2>2. Stream(c, n) \in [1 .. n-1 -> S]
    BY DEF Stream, Byte
  <2>3. Stream(c, n) \in Seq(S)
    BY <2>1, <2>2, SeqDef
  <2>4. DOMAIN Stream(c, n) = 1 .. n-1
    BY DEF Stream
  <2>5. /\ Len(Stream(c, n)) \in Nat
        /\ DOMAIN Stream(c, n) = 1 .. Len(Stream(c, n))
    BY <2>3, LenProperties
  <2>6. Len(Stream(c, n)) = n - 1
    BY <2>1, <2>4, <2>5
  <2>7. \A i \in 1 .. n-1 : Stream(c, n)[i] = Byte(c, i)
    BY DEF Stream
  <2> QED
    BY <2>3, <2>6, <2>7
<1> DEFINE s == Stream(c, a)
           t == Stream(c, b)
<1>2. /\ s \in Seq(S) /\ Len(s) = a - 1
      /\ \A i \in 1 .. a-1 : s[i] = Byte(c, i)
  BY <1>1
<1>3. /\ t \in Seq(S) /\ Len(t) = b - 1
      /\ \A i \in 1 .. b-1 : t[i] = Byte(c, i)
  BY <1>1
<1> HIDE DEF s, t
<1>4. SubSeq(s, 1, Len(s)) = s
  BY <1>2, SubSeqFull
<1>5. /\ SubSeq(t, 1, Len(s)) \in Seq(S)
      /\ Len(SubSeq(t, 1, Len(s))) = a - 1
      /\ \A i \in 1 .. a-1 : SubSeq(t, 1, Len(s))[i] = t[i]
  <2>1. \A i \in 1 .. a-1 : t[i] \in S
    BY <1>3 DEF Byte
  <2>2. /\ SubSeq(t, 1, a-1) \in Seq(S)
        /\ Len(SubSeq(t, 1, a-1)) = IF 1 <= a-1 THEN a-1-1+1 ELSE 0
        /\ \A i \in 1 .. a-1-1+1 : SubSeq(t, 1, a-1)[i] = t[1+i-1]
    <3> HIDE DEF S
    <3>1. 1 \in Int /\ a-1 \in Int
      OBVIOUS
    <3> QED
      BY <2>1, <3>1, SubSeqProperties
  <2> QED
    BY <1>2, <2>2
<1>6. SubSeq(t, 1, Len(s)) = s
  <2> DEFINE u == SubSeq(t, 1, Len(s))
  <2>1. u \in Seq(S) /\ Len(u) = a - 1 /\ \A i \in 1 .. a-1 : u[i] = t[i]
    BY <1>5
  <2> HIDE DEF u, S
  <2>2. \A i \in 1 .. a-1 : u[i] = s[i]
    BY <1>2, <1>3, <2>1
  <2>3. u = s
    BY <1>2, <2>1, <2>2, SeqEqual
  <2> QED
    BY <2>3 DEF u
<1>7. Len(s) <= Len(t)
  BY <1>2, <1>3
<1>8. a < b => s # t
  BY <1>2, <1>3
<1> QED
  BY <1>4, <1>6, <1>7, <1>8 DEF Abstract!IsPrefix, Abstract!IsStrictPrefix, s, t

(* What the two ends hold is the stream up to where they are: what was     *)
(* received, and what was read of the connection the application holds.    *)
LEMMA ReceivedIs ==
  SendInv /\ connection_id > 0 => PeerReceived = Stream(connection_id, PeerEnd)
<1> SUFFICES ASSUME SendInv, connection_id > 0
             PROVE  PeerReceived = Stream(connection_id, PeerEnd)
  OBVIOUS
<1>1. TxSent /\ PeerHas
  BY DEF SendInv, TxInv
<1>2. peer_next \in Nat \cup {-1} /\ peer_eof \in BOOLEAN
  BY DEF SendInv, TypeInv, TypeOK
<1>3. \A i \in 1 .. PeerEnd-1 : i \in DOMAIN sent /\ i # 0
  <2>1. CASE peer_eof = TRUE
    <3>1. PeerEnd - 1 = peer_next - 2
      BY <1>2, <2>1 DEF PeerEnd
    <3> QED
      BY <1>1, <2>1, <3>1 DEF PeerHas
  <2>2. CASE peer_eof # TRUE
    <3>1. PeerEnd = peer_next
      BY <1>2, <2>2 DEF PeerEnd
    <3> QED
      BY <1>1, <2>2, <3>1 DEF PeerHas
  <2> QED
    BY <2>1, <2>2
<1>4. \A i \in 1 .. PeerEnd-1 : sent[i] = Byte(connection_id, i)
  BY <1>1, <1>3 DEF TxSent
<1> QED
  BY <1>4 DEF PeerReceived, Stream

(* The invariant of the refinement: both sides, and that delivered is a    *)
(* sequence and a client's stream starts at 1.                             *)
ReadSequence == delivered = [i \in DOMAIN delivered |-> delivered[i]]

Started == connection_id > 0 => peer_sent >= 1

StreamInv == SendInv /\ ReceiveInv /\ ReadSequence /\ Started

LEMMA ReadIs ==
  StreamInv /\ Usable => delivered = Stream(connection_id, rx_read)
<1> SUFFICES ASSUME StreamInv, Usable
             PROVE  delivered = Stream(connection_id, rx_read)
  OBVIOUS
<1>1. app_id \in Nat /\ app_id = connection_id /\ state # TCP_LISTEN
  BY DEF Usable, StreamInv, SendInv, TypeInv, TypeOK
<1>2. /\ DOMAIN delivered = 1 .. rx_read-1
      /\ \A i \in DOMAIN delivered : delivered[i] = Byte(connection_id, i)
  BY <1>1 DEF StreamInv, ReceiveInv, AppInv, ReadIntegrity
<1>3. delivered = [i \in 1 .. rx_read-1 |-> delivered[i]]
  BY <1>2, Zenon DEF StreamInv, ReadSequence
<1> QED
  BY <1>2, <1>3 DEF Stream

LEMMA InitStreamInv == Init => StreamInv
<1> SUFFICES ASSUME Init
             PROVE  ReadSequence /\ Started
  BY InitSendInv, InitReceiveInv DEF StreamInv
<1>1. delivered = <<>> /\ connection_id = 0
  BY DEF Init
<1>2. ReadSequence
  BY <1>1 DEF ReadSequence
<1>3. Started
  BY <1>1 DEF Started
<1> QED
  BY <1>2, <1>3

LEMMA StreamStep == StreamInv /\ [Next]_vars => StreamInv'
<1> SUFFICES ASSUME StreamInv, [Next]_vars
             PROVE  ReadSequence' /\ Started'
  BY SendStep, ReceiveStep DEF StreamInv
<1>1. ReadSequence'
  <2>1. CASE delivered' = delivered
    BY <2>1 DEF StreamInv, ReadSequence
  <2>2. CASE OpenTcp
    <3>1. delivered' = <<>>
      BY <2>2 DEF OpenTcp
    <3> QED
      BY <3>1 DEF ReadSequence
  <2>3. ASSUME NEW n \in ReadSizes, ReadTcp(n)
        PROVE  ReadSequence'
    BY <2>3 DEF ReadTcp, ReadSequence
  <2>4. CASE Stack
    <3>1. ArriveSegment => delivered' = delivered
      BY SegmentFacts DEF StreamInv, appVars
    <3>2. SendTcpPacket => delivered' = delivered
      BY DEF SendTcpPacket, appVars
    <3>3. ArriveSyn \/ ArriveRst \/ Tick => delivered' = delivered
      BY DEF ArriveSyn, HandleSyn, ArriveRst, HandleRst, Tick, appVars
    <3> QED
      BY <2>1, <2>4, <3>1, <3>2, <3>3 DEF Stack
  <2>5. CASE Client
    <3>1. delivered' = delivered
      BY <2>5 DEF Client, PeerAccept, PeerReceive, PeerReceiveFin, PeerSend,
                  PeerFin, stackVars, appVars
    <3> QED
      BY <2>1, <3>1
  <2>6. CASE \/ ReadReset \/ WriteChunk \/ ShutdownTcp \/ CloseTcp
             \/ \E n \in 1 .. MaxTx : WriteCall(n)
    <3>1. delivered' = delivered
      BY <2>6 DEF ReadReset, WriteChunk, ShutdownTcp, CloseTcp, WriteCall,
                  appVars
    <3> QED
      BY <2>1, <3>1
  <2>7. CASE UNCHANGED vars
    <3>1. delivered' = delivered
      BY <2>7 DEF vars, appVars
    <3> QED
      BY <2>1, <3>1
  <2> QED
    BY <2>2, <2>3, <2>4, <2>5, <2>6, <2>7 DEF Next, Application
<1>2. Started'
  <2>1. connection_id \in Nat /\ peer_sent \in Nat
    BY DEF StreamInv, SendInv, TypeInv, TypeOK
  <2>2. CASE ArriveSyn
    <3>1. peer_sent' = 1
      BY <2>2 DEF ArriveSyn, HandleSyn
    <3> QED
      BY <3>1 DEF Started
  <2>3. CASE PeerSend
    <3>1. peer_sent' = peer_sent + 1 /\ connection_id' = connection_id
      BY <2>3 DEF PeerSend, stackVars, ctlVars
    <3> QED
      BY <2>1, <3>1 DEF StreamInv, Started
  <2>4. CASE UNCHANGED <<connection_id, peer_sent>>
    BY <2>4 DEF StreamInv, Started
  <2>5. CASE ArriveSegment \/ ArriveRst \/ SendTcpPacket \/ Tick
    <3>1. ArriveSegment => UNCHANGED <<connection_id, peer_sent>>
      BY SegmentFacts DEF StreamInv, ctlVars, peerVars
    <3>2. SendTcpPacket => UNCHANGED <<connection_id, peer_sent>>
      BY DEF SendTcpPacket, ctlVars, peerVars
    <3>3. ArriveRst \/ Tick => UNCHANGED <<connection_id, peer_sent>>
      BY DEF ArriveRst, HandleRst, Tick, ctlVars, peerVars
    <3> QED
      BY <2>4, <2>5, <3>1, <3>2, <3>3
  <2>6. CASE Application
    BY <2>4, <2>6 DEF Application, OpenTcp, ReadReset, ReadTcp, WriteCall,
                      WriteChunk, ShutdownTcp, CloseTcp, ctlVars, peerVars
  <2>7. CASE PeerAccept \/ PeerReceive \/ PeerReceiveFin \/ PeerFin
    BY <2>4, <2>7 DEF PeerAccept, PeerReceive, PeerReceiveFin, PeerFin,
                      stackVars, ctlVars
  <2>8. CASE UNCHANGED vars
    BY <2>4, <2>8 DEF vars, ctlVars, peerVars
  <2> QED
    BY <2>2, <2>3, <2>5, <2>6, <2>7, <2>8 DEF Next, Stack, Client
<1> QED
  BY <1>1, <1>2

(* The abstract state, in the two groups its steps leave alone.            *)
ClientEnd == <<Stream(connection_id, peer_sent), peer_fin, PeerReceived, peer_eof>>

AppEnd ==
  <<app_id, delivered, AtEnd, Stream(connection_id, tx_write), ShutDown>>

LEMMA AbstractSides ==
  /\ UNCHANGED ClientEnd => UNCHANGED Abstract!clientSide
  /\ UNCHANGED AppEnd => UNCHANGED Abstract!appSide
  BY DEF Abstract!clientSide, Abstract!appSide, ClientEnd, AppEnd

LEMMA AbstractKept ==
  ASSUME UNCHANGED <<connection_id, state # TCP_LISTEN, ClientEnd, AppEnd>>
  PROVE  UNCHANGED Abstract!vars
  BY AbstractSides DEF Abstract!vars

LEMMA InitRefines == Init => Abstract!Init
<1> SUFFICES ASSUME Init
             PROVE  Abstract!Init
  OBVIOUS
<1>1. /\ state = TCP_LISTEN /\ connection_id = 0 /\ peer_sent = 0
      /\ peer_next = -1 /\ tx_write = 0
      /\ app_id = -1 /\ delivered = <<>>
  BY DEF Init
<1>2. peer_fin = FALSE /\ peer_eof = FALSE
  BY Zenon DEF Init
<1>3. Stream(0, 0) = <<>>
  BY DEF Stream
<1>4. PeerReceived = <<>>
  <2>1. PeerEnd = -1
    BY <1>1, <1>2 DEF PeerEnd
  <2> QED
    BY <2>1 DEF PeerReceived
<1>5. AtEnd = FALSE /\ ShutDown = FALSE
  BY <1>1 DEF AtEnd, Usable, ShutDown
<1> QED
  BY <1>1, <1>2, <1>3, <1>4, <1>5, Zenon DEF Abstract!Init

(* A step that changes neither the numbers of a side nor what it has keeps *)
(* that side of the abstract connection.                                   *)
LEMMA ClientEndKept ==
  ASSUME UNCHANGED <<connection_id, peer_sent, peer_fin, peer_next, peer_eof, sent>>
  PROVE  UNCHANGED ClientEnd
  BY DEF ClientEnd, PeerReceived, PeerEnd

LEMMA SynConnects ==
  ASSUME StreamInv, ArriveSyn
  PROVE  Abstract!Connect
<1>1. /\ state = TCP_LISTEN /\ state' = TCP_SYN_RECEIVED
      /\ connection_id' = connection_counter
      /\ rx_read' = 1 /\ rx_fin' = NO_FIN
      /\ tx_write' = 1 /\ tx_fin' = NO_FIN
      /\ peer_next' = -1 /\ peer_sent' = 1
      /\ UNCHANGED <<app_id, delivered>>
  BY DEF ArriveSyn, HandleSyn, appVars
<1>2. peer_eof' = FALSE /\ peer_fin' = FALSE
  BY Zenon DEF ArriveSyn, HandleSyn
<1>3. connection_id' = connection_id + 1
  BY <1>1 DEF StreamInv, SendInv, LifeInv
<1>4. (state # TCP_LISTEN) = FALSE /\ (state' # TCP_LISTEN) = TRUE
  BY <1>1 DEF TCP_LISTEN, TCP_SYN_RECEIVED
<1>5. Stream(connection_id', 1) = <<>>
  BY DEF Stream
<1>6. PeerReceived' = <<>>
  <2>1. PeerEnd' = -1
    BY <1>1, <1>2 DEF PeerEnd
  <2> QED
    BY <2>1 DEF PeerReceived
<1>7. ShutDown' = FALSE
  BY <1>1 DEF ShutDown
<1>8. AtEnd = FALSE
  BY <1>1 DEF AtEnd, Usable
<1>9. AtEnd' = FALSE
  <2>1. ~(1 >= NO_FIN)
    BY BoundAssumption
  <2> QED
    BY <1>1, <2>1 DEF AtEnd
<1> QED
  BY <1>1, <1>2, <1>3, <1>4, <1>5, <1>6, <1>7, <1>8, <1>9 DEF Abstract!Connect

(* What is read when the end of the stream is reported.                    *)
LEMMA AtEndIs ==
  StreamInv /\ AtEnd =>
    /\ peer_fin = TRUE /\ rx_fin = peer_sent /\ rx_read = peer_sent
    /\ delivered = Stream(connection_id, peer_sent)
<1> SUFFICES ASSUME StreamInv, AtEnd
             PROVE  /\ peer_fin = TRUE /\ rx_fin = peer_sent
                    /\ rx_read = peer_sent
                    /\ delivered = Stream(connection_id, peer_sent)
  OBVIOUS
<1>1. Usable /\ state # TCP_LISTEN /\ rx_read >= rx_fin
  BY DEF AtEnd, Usable
<1>2. RxBounds /\ RxFin
  BY <1>1 DEF StreamInv, ReceiveInv, RxInv
<1>3. /\ rx_read \in Nat /\ rx_write \in Nat /\ rx_fin \in Nat
      /\ peer_sent \in Nat
  BY DEF StreamInv, SendInv, TypeInv, TypeOK
<1>4. rx_read <= peer_sent /\ rx_read < NO_FIN
  BY <1>2, <1>3, BoundAssumption DEF RxBounds
<1>5. rx_fin # NO_FIN
  BY <1>1, <1>3, <1>4, BoundAssumption
<1>6. peer_fin = TRUE /\ rx_fin = peer_sent
  BY <1>2, <1>5 DEF RxFin
<1>7. rx_read = peer_sent
  BY <1>1, <1>3, <1>4, <1>6
<1> QED
  BY <1>1, <1>6, <1>7, ReadIs

(* The same after a step.                                                  *)
LEMMA NextIs ==
  /\ (SendInv /\ connection_id > 0 => PeerReceived = Stream(connection_id, PeerEnd))'
  /\ (StreamInv /\ AtEnd =>
        /\ peer_fin = TRUE /\ rx_fin = peer_sent /\ rx_read = peer_sent
        /\ delivered = Stream(connection_id, peer_sent))'
  /\ (StreamInv /\ Usable => delivered = Stream(connection_id, rx_read))'
  BY ReceivedIs, AtEndIs, ReadIs, PTL

(* A segment is invisible, unless it carries the FIN that ends what the    *)
(* application reads.                                                      *)
LEMMA SegmentEndsOrStutters ==
  ASSUME StreamInv, StreamInv', ArriveSegment
  PROVE  Abstract!ReadEnds \/ UNCHANGED Abstract!vars
<1>1. PICK p : /\ state # TCP_LISTEN
               /\ rx_fin' # rx_fin => rx_fin' = p.seq + p.len /\ p.seq + p.len = peer_sent
               /\ UNCHANGED <<ctlVars, rx_read, appVars, outVars, peerVars>>
  BY SegmentFacts DEF StreamInv
<1>2. UNCHANGED <<tx_write, tx_fin>> /\ state' \in {state, TCP_CONNECTED}
  <2>1. PICK c \in Clients, seq \in 1 .. MaxRx + 2, len \in 0 .. MAX_SEGMENT,
             fin \in BOOLEAN, ack \in 0 .. MaxTx + 2, win \in Windows :
          HandleSegment(Packet(c, seq, len, ack, win, fin, FALSE))
    BY Zenon DEF ArriveSegment
  <2> QED
    BY <2>1 DEF HandleSegment, StateAfterAck
<1>3. UNCHANGED <<connection_id, app_id, delivered, peer_sent, peer_fin,
                  peer_next, peer_eof, sent>>
  BY <1>1 DEF ctlVars, appVars, outVars, peerVars
<1>4. state' # TCP_LISTEN
  BY <1>1, <1>2 DEF TCP_CONNECTED, TCP_LISTEN
<1>5. UNCHANGED ClientEnd
  BY <1>3, ClientEndKept
<1>6. UNCHANGED <<state # TCP_LISTEN, ShutDown, Stream(connection_id, tx_write)>>
  BY <1>1, <1>2, <1>3, <1>4 DEF ShutDown
<1>7. CASE AtEnd
  <2>1. rx_fin' = rx_fin
    BY <1>1, <1>7, AtEndIs
  <2>2. AtEnd' = AtEnd
    BY <1>1, <1>3, <1>4, <2>1 DEF AtEnd, Usable
  <2> QED
    BY <1>3, <1>5, <1>6, <2>2, AbstractKept DEF AppEnd
<1>8. CASE ~AtEnd /\ ~AtEnd'
  <2>1. AtEnd' = AtEnd
    BY <1>8 DEF AtEnd
  <2> QED
    BY <1>3, <1>5, <1>6, <2>1, AbstractKept DEF AppEnd
<1>9. CASE ~AtEnd /\ AtEnd'
  <2>1. peer_fin' = TRUE /\ delivered' = Stream(connection_id', peer_sent')
    BY <1>9, NextIs
  <2>2. peer_fin = TRUE /\ delivered = Stream(connection_id, peer_sent)
    BY <1>3, <2>1
  <2>3. state # TCP_LISTEN /\ app_id = connection_id
    BY <1>1, <1>3, <1>9 DEF AtEnd, Usable
  <2>4. AtEnd' = TRUE
    BY <1>9 DEF AtEnd
  <2> QED
    BY <1>3, <1>5, <1>6, <2>2, <2>3, <2>4, AbstractSides
       DEF Abstract!ReadEnds, Abstract!Holds
<1> QED
  BY <1>7, <1>8, <1>9

(* send_tcp_packet sends nothing new to a client that has it already.      *)
LEMMA SendStutters ==
  ASSUME StreamInv, StreamInv', SendTcpPacket
  PROVE  UNCHANGED Abstract!vars
<1>1. /\ state # TCP_LISTEN
      /\ UNCHANGED <<ctlVars, rxVars, tx_write, tx_fin, appVars, peerVars>>
  BY DEF SendTcpPacket
<1>2. UNCHANGED <<connection_id, rx_read, rx_fin, app_id, delivered,
                  peer_sent, peer_fin, peer_next, peer_eof>>
  BY <1>1 DEF ctlVars, rxVars, appVars, peerVars
<1>3. state' # TCP_LISTEN
  BY <1>1, SendFacts DEF StateAfterSend, RecordClosed, TCP_LISTEN,
       TCP_SYN_ACK_SENT, TCP_SEND_RST, TCP_DATA_TO_READ, TCP_RX_CLOSED,
       TCP_TX_CLOSED, TCP_BOTH_CLOSED
<1>4. connection_id > 0
  BY <1>1, Numbered DEF StreamInv
<1>5. PeerReceived' = PeerReceived
  <2>1. PeerReceived = Stream(connection_id, PeerEnd)
    BY <1>4, ReceivedIs DEF StreamInv
  <2>2. (connection_id > 0)'
    BY <1>2, <1>4
  <2>3. PeerReceived' = Stream(connection_id, PeerEnd)'
    BY <2>2, NextIs DEF StreamInv
  <2>4. PeerEnd' = PeerEnd
    BY <1>2 DEF PeerEnd
  <2> QED
    BY <1>2, <2>1, <2>3, <2>4
<1>6. UNCHANGED ClientEnd
  BY <1>2, <1>5 DEF ClientEnd
<1>7. UNCHANGED AppEnd
  BY <1>1, <1>2, <1>3 DEF AppEnd, AtEnd, Usable, ShutDown
<1> QED
  BY <1>1, <1>2, <1>3, <1>6, <1>7, AbstractKept

(* The calls.                                                              *)
LEMMA OpenAccepts ==
  ASSUME StreamInv, StreamInv', OpenTcp
  PROVE  Abstract!Accept
<1>1. /\ app_id = -1 /\ state # TCP_LISTEN
      /\ app_id' = connection_id /\ delivered' = <<>>
      /\ UNCHANGED <<ctlVars, state, rxVars, txVars, outVars, peerVars>>
  BY DEF OpenTcp
<1>2. UNCHANGED <<connection_id, state, rx_read, rx_fin, tx_write, tx_fin,
                  sent, peer_sent, peer_fin, peer_next, peer_eof>>
  BY <1>1 DEF ctlVars, rxVars, txVars, outVars, peerVars
<1>3. UNCHANGED Abstract!clientSide
  BY <1>2, ClientEndKept, AbstractSides
<1>4. UNCHANGED <<Stream(connection_id, tx_write), ShutDown>>
  BY <1>2 DEF ShutDown
<1>5. rx_read = 1
  <2>1. app_id # connection_id
    BY <1>1 DEF StreamInv, SendInv, TypeInv, TypeOK
  <2> QED
    BY <1>1, <2>1 DEF StreamInv, ReceiveInv, AppInv
<1>6. AtEnd' => peer_fin = TRUE /\ Stream(connection_id, peer_sent) = <<>>
  <2>1. SUFFICES ASSUME AtEnd'
                 PROVE  /\ peer_fin = TRUE
                        /\ Stream(connection_id, peer_sent) = <<>>
    OBVIOUS
  <2>2. peer_fin' = TRUE /\ rx_read' = peer_sent'
    BY <2>1, NextIs
  <2>3. peer_fin = TRUE /\ peer_sent = 1
    BY <1>2, <1>5, <2>2
  <2> QED
    BY <2>3 DEF Stream
<1>7. AtEnd' = (AtEnd' /\ peer_fin /\ Stream(connection_id, peer_sent) = <<>>)
  BY <1>6 DEF AtEnd
<1> QED
  BY <1>1, <1>2, <1>3, <1>4, <1>7 DEF Abstract!Accept

LEMMA ReadResetFrees ==
  ASSUME ReadReset
  PROVE  Abstract!Free
<1>1. /\ state # TCP_LISTEN /\ state' = TCP_LISTEN
      /\ UNCHANGED <<ctlVars, rxVars, txVars, appVars, outVars, peerVars>>
  BY DEF ReadReset, Usable
<1>2. UNCHANGED <<connection_id, app_id, delivered, tx_write, tx_fin,
                  sent, peer_sent, peer_fin, peer_next, peer_eof>>
  BY <1>1 DEF ctlVars, txVars, appVars, outVars, peerVars
<1>3. UNCHANGED Abstract!clientSide
  BY <1>2, ClientEndKept, AbstractSides
<1>4. UNCHANGED <<Stream(connection_id, tx_write), ShutDown>>
  BY <1>2 DEF ShutDown
<1>5. AtEnd' = FALSE /\ (state' # TCP_LISTEN) = FALSE
  BY <1>1 DEF AtEnd, Usable
<1> QED
  BY <1>1, <1>2, <1>3, <1>4, <1>5 DEF Abstract!Free

LEMMA ReadTcpReads ==
  ASSUME StreamInv, StreamInv', NEW n \in Nat, ReadTcp(n)
  PROVE  Abstract!Read
<1>1. /\ Usable /\ rx_read < rx_fin
      /\ rx_read' = rx_read + Smaller(n, rx_write - rx_read)
      /\ Smaller(n, rx_write - rx_read) > 0
      /\ UNCHANGED <<ctlVars, state, rx_write, rx_fin, txVars, app_id, outVars,
                     peerVars>>
  BY DEF ReadTcp
<1>2. UNCHANGED <<connection_id, app_id, tx_write, tx_fin, sent, peer_sent,
                  peer_fin, peer_next, peer_eof>>
  BY <1>1 DEF ctlVars, txVars, outVars, peerVars
<1>3. UNCHANGED Abstract!clientSide
  BY <1>2, ClientEndKept, AbstractSides
<1>4. UNCHANGED <<Stream(connection_id, tx_write), ShutDown>>
  BY <1>2 DEF ShutDown
<1>5. /\ state # TCP_LISTEN /\ app_id = connection_id /\ connection_id \in Nat
      /\ rx_read \in Nat /\ rx_write \in Nat /\ peer_sent \in Nat
      /\ rx_fin \in Nat
  BY <1>1 DEF Usable, StreamInv, SendInv, TypeInv, TypeOK
<1>6. 1 <= rx_read /\ rx_write <= peer_sent
  BY <1>5 DEF StreamInv, ReceiveInv, RxInv, RxBounds
<1> DEFINE next == rx_read + Smaller(n, rx_write - rx_read)
<1>7. next \in Nat /\ rx_read < next /\ next <= peer_sent
  BY <1>1, <1>5, <1>6 DEF Smaller
<1>8. rx_read' = next
  BY <1>1
<1> HIDE DEF next
<1>9. delivered = Stream(connection_id, rx_read)
  BY <1>1, ReadIs
<1>10. delivered' = Stream(connection_id, next)
  <2>1. Usable'
    BY <1>1, <1>2 DEF Usable
  <2> QED
    BY <1>2, <1>8, <2>1, NextIs
<1>11. Abstract!IsStrictPrefix(delivered, delivered')
  BY <1>5, <1>6, <1>7, <1>9, <1>10, StreamPrefix
<1>12. Abstract!IsPrefix(delivered', Stream(connection_id, peer_sent))
  BY <1>5, <1>6, <1>7, <1>10, StreamPrefix
<1>13. AtEnd' = (AtEnd' /\ peer_fin /\ delivered' = Stream(connection_id, peer_sent))
  <2>1. AtEnd' => peer_fin = TRUE /\ delivered' = Stream(connection_id, peer_sent)
    BY <1>2, NextIs
  <2> QED
    BY <2>1 DEF AtEnd
<1>14. ~AtEnd
  BY <1>1, <1>5 DEF AtEnd
<1> QED
  BY <1>1, <1>2, <1>3, <1>4, <1>5, <1>11, <1>12, <1>13, <1>14
     DEF Abstract!Read, Abstract!Holds

LEMMA WriteChunkWrites ==
  ASSUME StreamInv, WriteChunk
  PROVE  Abstract!Write
<1>1. /\ wlen > 0
      /\ Smaller(wlen, WriteRoom) > 0
      /\ tx_write' = tx_write + Smaller(wlen, WriteRoom)
      /\ UNCHANGED <<ctlVars, state, rxVars, tx_fin, app_id, delivered, outVars,
                     peerVars>>
  BY DEF WriteChunk
<1>2. UNCHANGED <<connection_id, state, app_id, delivered, rx_read, rx_fin,
                  tx_fin, sent, peer_sent, peer_fin, peer_next, peer_eof>>
  BY <1>1 DEF ctlVars, rxVars, outVars, peerVars
<1>3. UNCHANGED Abstract!clientSide
  BY <1>2, ClientEndKept, AbstractSides
<1>4. UNCHANGED <<AtEnd, ShutDown>>
  BY <1>2 DEF AtEnd, Usable, ShutDown
<1>5. state # TCP_LISTEN /\ connection_id = app_id /\ ~ShutDown
  BY <1>1, WritingFacts DEF StreamInv, ShutDown
<1>6. /\ tx_write \in Nat /\ 1 <= tx_write
      /\ connection_id \in Nat /\ wlen \in Nat
      /\ tx_acked \in Nat /\ remote_window \in Nat
  BY <1>5, Numbered DEF StreamInv, SendInv, TypeInv, TypeOK, TxBounds
<1> DEFINE next == tx_write + Smaller(wlen, WriteRoom)
<1>7. next \in Nat /\ tx_write < next
  BY <1>1, <1>6, SizeAssumption
     DEF Smaller, WriteRoom, WindowAvailable, BufferAvailable
<1>8. tx_write' = next
  BY <1>1
<1> HIDE DEF next
<1>9. Abstract!IsStrictPrefix(Stream(connection_id, tx_write),
                              Stream(connection_id, tx_write)')
  BY <1>2, <1>6, <1>7, <1>8, StreamPrefix
<1> QED
  BY <1>1, <1>2, <1>3, <1>4, <1>5, <1>9 DEF Abstract!Write, Abstract!Holds

LEMMA ShutdownShuts ==
  ASSUME StreamInv, ShutdownTcp
  PROVE  Abstract!Shutdown
<1>1. /\ Usable /\ tx_fin' = tx_write
      /\ UNCHANGED <<ctlVars, state, rxVars, tx_write, appVars, outVars,
                     peerVars>>
  BY DEF ShutdownTcp
<1>2. UNCHANGED <<connection_id, state, app_id, delivered, rx_read, rx_fin,
                  tx_write, sent, peer_sent, peer_fin, peer_next, peer_eof>>
  BY <1>1 DEF ctlVars, rxVars, appVars, outVars, peerVars
<1>3. UNCHANGED Abstract!clientSide
  BY <1>2, ClientEndKept, AbstractSides
<1>4. UNCHANGED <<AtEnd, Stream(connection_id, tx_write)>>
  BY <1>2 DEF AtEnd, Usable
<1>5. state # TCP_LISTEN /\ app_id = connection_id
  BY <1>1 DEF Usable
<1>6. connection_id > 0 /\ tx_write <= MaxTx + 1 /\ tx_write \in Nat
  BY <1>5, Numbered DEF StreamInv, SendInv, TypeInv, TypeOK, TxBounds
<1>7. tx_write # NO_FIN
  BY <1>6, BoundAssumption
<1>8. ShutDown' = TRUE
  BY <1>1, <1>2, <1>6, <1>7 DEF ShutDown
<1> QED
  BY <1>2, <1>3, <1>4, <1>5, <1>8 DEF Abstract!Shutdown, Abstract!Holds

LEMMA CloseCloses ==
  ASSUME StreamInv, CloseTcp
  PROVE  Abstract!Close
<1>1. /\ app_id # -1 /\ app_id' = -1
      /\ state' = IF connection_id = app_id THEN TCP_LISTEN ELSE state
      /\ UNCHANGED <<ctlVars, rxVars, txVars, wlen, delivered, outVars,
                     peerVars>>
  BY DEF CloseTcp
<1>2. UNCHANGED <<connection_id, delivered, tx_write, tx_fin, sent, peer_sent,
                  peer_fin, peer_next, peer_eof>>
  BY <1>1 DEF ctlVars, txVars, outVars, peerVars
<1>3. UNCHANGED Abstract!clientSide
  BY <1>2, ClientEndKept, AbstractSides
<1>4. UNCHANGED <<Stream(connection_id, tx_write), ShutDown>>
  BY <1>2 DEF ShutDown
<1>5. AtEnd' = FALSE
  <2>1. connection_id \in Nat
    BY DEF StreamInv, SendInv, TypeInv, TypeOK
  <2> QED
    BY <1>1, <1>2, <2>1 DEF AtEnd, Usable
<1>6. (state' # TCP_LISTEN) = (state # TCP_LISTEN /\ app_id # connection_id)
  BY <1>1
<1> QED
  BY <1>1, <1>2, <1>3, <1>4, <1>5, <1>6 DEF Abstract!Close

(* The client's steps.                                                     *)
LEMMA KnownClient ==
  ASSUME StreamInv
  PROVE  /\ peer_next \in Nat \cup {-1} /\ connection_id \in Nat
         /\ tx_write \in Nat
         /\ peer_next >= 0 => peer_next \in Nat /\ connection_id > 0
<1>1. /\ peer_next \in Nat \cup {-1} /\ connection_id \in Nat
      /\ tx_write \in Nat
  BY DEF StreamInv, SendInv, TypeInv, TypeOK
<1>2. connection_id = 0 => peer_next = -1
  BY DEF StreamInv, SendInv, LifeInv
<1> QED
  BY <1>1, <1>2

LEMMA AcceptStutters ==
  ASSUME StreamInv, StreamInv', PeerAccept
  PROVE  UNCHANGED Abstract!vars
<1>1. /\ peer_next = -1 /\ UNCHANGED <<stackVars, peer_eof, peer_sent, peer_fin>>
  BY DEF PeerAccept
<1>2. PICK s \in syn_acks : peer_next' = s + 1
  BY DEF PeerAccept
<1>3. /\ s \in {-1, 0} /\ connection_id \in Nat
      /\ connection_id = 0 => syn_acks = {}
      /\ tx_write \in Nat /\ peer_eof \in BOOLEAN
  BY DEF StreamInv, SendInv, TypeInv, TypeOK, LifeInv
<1>4. connection_id > 0
  BY <1>2, <1>3
<1>5. peer_eof = FALSE
  <2>1. PeerBounds /\ TxBounds
    BY <1>4 DEF StreamInv, SendInv, TxInv
  <2>2. peer_next # tx_write + 1
    BY <1>1, <1>3
  <2>3. peer_eof # TRUE
    BY <2>1, <2>2, Zenon DEF PeerBounds
  <2> QED
    BY <1>3, <2>3
<1>6. UNCHANGED <<connection_id, state, app_id, delivered, rx_read, rx_fin,
                  tx_write, tx_fin, sent>>
  BY <1>1 DEF stackVars, ctlVars, rxVars, txVars, appVars, outVars
<1>7. PeerReceived' = PeerReceived
  <2>1. PeerEnd = -1 /\ PeerEnd' = s + 1
    BY <1>1, <1>2, <1>5 DEF PeerEnd
  <2>2. 1 .. PeerEnd - 1 = {}
    BY <2>1
  <2>3. PeerEnd' - 1 = s
    BY <1>3, <2>1
  <2>4. 1 .. PeerEnd' - 1 = {}
    BY <1>3, <2>3
  <2>5. sent' = sent
    BY <1>6
  <2> QED
    BY <2>2, <2>4, <2>5 DEF PeerReceived
<1>8. UNCHANGED ClientEnd
  BY <1>1, <1>6, <1>7 DEF ClientEnd
<1>9. UNCHANGED AppEnd
  BY <1>6 DEF AppEnd, AtEnd, Usable, ShutDown
<1> QED
  BY <1>6, <1>8, <1>9, AbstractKept

LEMMA PeerReceives ==
  ASSUME StreamInv, StreamInv', PeerReceive
  PROVE  Abstract!Receive
<1>1. /\ peer_next > 0 /\ peer_next \in DOMAIN sent
      /\ peer_next' = peer_next + 1
      /\ UNCHANGED <<stackVars, peer_eof, peer_sent, peer_fin>>
  BY DEF PeerReceive
<1>2. peer_eof = FALSE
  BY Zenon DEF PeerReceive, StreamInv, SendInv, TypeInv, TypeOK
<1>3. UNCHANGED <<connection_id, state, app_id, delivered, rx_read, rx_fin,
                  tx_write, tx_fin, sent>>
  BY <1>1 DEF stackVars, ctlVars, rxVars, txVars, appVars, outVars
<1>4. /\ peer_next \in Nat /\ connection_id \in Nat /\ tx_write \in Nat
      /\ connection_id > 0
  <2>1. peer_next > 0
    BY <1>1
  <2> QED
    BY <2>1, KnownClient
<1>5. peer_next < tx_write
  BY <1>1, <1>4 DEF StreamInv, SendInv, TxInv, TxSent
<1> DEFINE next == peer_next + 1
<1>6. next \in Nat /\ next <= tx_write /\ 1 <= peer_next /\ peer_next < next
  BY <1>1, <1>4, <1>5
<1>7. PeerEnd = peer_next /\ PeerEnd' = next
  BY <1>1, <1>2 DEF PeerEnd
<1> HIDE DEF next
<1>8. PeerReceived = Stream(connection_id, peer_next)
  BY <1>4, <1>7, ReceivedIs DEF StreamInv
<1>9. PeerReceived' = Stream(connection_id, next)
  <2>1. (connection_id > 0)'
    BY <1>3, <1>4
  <2> QED
    BY <1>3, <1>7, <2>1, NextIs DEF StreamInv
<1>10. Abstract!IsStrictPrefix(PeerReceived, PeerReceived')
  BY <1>4, <1>6, <1>8, <1>9, StreamPrefix
<1>11. Abstract!IsPrefix(PeerReceived', Stream(connection_id, tx_write))
  BY <1>4, <1>6, <1>9, StreamPrefix
<1>12. UNCHANGED Abstract!appSide
  <2>1. UNCHANGED AppEnd
    BY <1>3 DEF AppEnd, AtEnd, Usable, ShutDown
  <2> QED
    BY <2>1, AbstractSides
<1> QED
  BY <1>1, <1>2, <1>3, <1>4, <1>10, <1>11, <1>12 DEF Abstract!Receive

LEMMA PeerReceivesEnd ==
  ASSUME StreamInv, PeerReceiveFin
  PROVE  Abstract!ReceiveEnd
<1>1. /\ peer_next > 0 /\ peer_next \in fins
      /\ peer_next' = peer_next + 1
      /\ UNCHANGED <<stackVars, peer_sent, peer_fin>>
  BY DEF PeerReceiveFin
<1>2. peer_eof = FALSE /\ peer_eof' = TRUE
  BY Zenon DEF PeerReceiveFin, StreamInv, SendInv, TypeInv, TypeOK
<1>3. UNCHANGED <<connection_id, state, app_id, delivered, rx_read, rx_fin,
                  tx_write, tx_fin, sent>>
  BY <1>1 DEF stackVars, ctlVars, rxVars, txVars, appVars, outVars
<1>4. /\ peer_next \in Nat /\ connection_id \in Nat /\ tx_write \in Nat
      /\ connection_id > 0
  <2>1. peer_next > 0
    BY <1>1
  <2> QED
    BY <2>1, KnownClient
<1>5. TxBounds /\ TxFins /\ PeerBounds
  BY <1>4 DEF StreamInv, SendInv, TxInv
<1>6. tx_fin = tx_write /\ peer_next = tx_write
  BY <1>1, <1>2, <1>4, <1>5 DEF TxFins, PeerBounds
<1>7. ShutDown
  BY <1>4, <1>5, <1>6, BoundAssumption DEF ShutDown, TxBounds
<1>8. PeerEnd = peer_next /\ PeerEnd' = peer_next
  BY <1>1, <1>2, <1>4 DEF PeerEnd
<1>9. PeerReceived = Stream(connection_id, tx_write)
  BY <1>4, <1>6, <1>8, ReceivedIs DEF StreamInv
<1>10. PeerReceived' = PeerReceived
  BY <1>3, <1>8 DEF PeerReceived
<1>11. UNCHANGED Abstract!appSide
  <2>1. UNCHANGED AppEnd
    BY <1>3 DEF AppEnd, AtEnd, Usable, ShutDown
  <2> QED
    BY <2>1, AbstractSides
<1> QED
  BY <1>1, <1>2, <1>3, <1>4, <1>7, <1>9, <1>10, <1>11 DEF Abstract!ReceiveEnd

LEMMA PeerSends ==
  ASSUME StreamInv, PeerSend \/ PeerFin
  PROVE  Abstract!ClientSend \/ Abstract!ClientClose
<1>1. peer_next >= 0 /\ UNCHANGED <<stackVars, peer_next, peer_eof>>
  BY DEF PeerSend, PeerFin
<1>2. UNCHANGED <<connection_id, state, app_id, delivered, rx_read, rx_fin,
                  tx_write, tx_fin, sent>>
  BY <1>1 DEF stackVars, ctlVars, rxVars, txVars, appVars, outVars
<1>3. connection_id \in Nat /\ peer_sent \in Nat /\ peer_fin \in BOOLEAN
  BY DEF StreamInv, SendInv, TypeInv, TypeOK
<1>4. connection_id > 0 /\ 1 <= peer_sent
  BY <1>1, <1>3 DEF StreamInv, SendInv, LifeInv, Started
<1>5. PeerReceived' = PeerReceived
  BY <1>1, <1>2 DEF PeerReceived, PeerEnd
<1>6. UNCHANGED Abstract!appSide
  <2>1. UNCHANGED AppEnd
    BY <1>2 DEF AppEnd, AtEnd, Usable, ShutDown
  <2> QED
    BY <2>1, AbstractSides
<1>7. CASE PeerSend
  <2>1. peer_sent' = peer_sent + 1 /\ ~peer_fin /\ peer_fin' = peer_fin
    BY <1>7 DEF PeerSend
  <2>2. Abstract!IsStrictPrefix(Stream(connection_id, peer_sent),
                                Stream(connection_id, peer_sent)')
    <3> DEFINE next == peer_sent + 1
    <3>1. next \in Nat /\ peer_sent < next
      BY <1>3
    <3>2. peer_sent' = next
      BY <2>1
    <3> HIDE DEF next
    <3> QED
      BY <1>2, <1>3, <1>4, <3>1, <3>2, StreamPrefix
  <2> QED
    BY <1>1, <1>2, <1>4, <1>5, <1>6, <2>1, <2>2 DEF Abstract!ClientSend
<1>8. CASE PeerFin
  <2>1. peer_sent' = peer_sent /\ ~peer_fin /\ peer_fin' = TRUE
    BY <1>8 DEF PeerFin
  <2> QED
    BY <1>1, <1>2, <1>4, <1>5, <1>6, <2>1 DEF Abstract!ClientClose
<1> QED
  BY <1>7, <1>8

(* Every step of the connection is a step of the byte stream or none.      *)
THEOREM StepRefines ==
  StreamInv /\ StreamInv' /\ [Next]_vars => [Abstract!Next]_(Abstract!vars)
<1> SUFFICES ASSUME StreamInv, StreamInv', [Next]_vars
             PROVE  Abstract!Next \/ UNCHANGED Abstract!vars
  OBVIOUS
<1>1. CASE \/ ArriveRst \/ Tick \/ UNCHANGED vars
           \/ \E n \in 1 .. MaxTx : WriteCall(n)
  <2> DEFINE Idle ==
        /\ UNCHANGED <<connection_id, app_id, delivered, rx_read, rx_fin,
                       tx_write, tx_fin, sent, peer_sent, peer_fin, peer_next,
                       peer_eof>>
        /\ state' = state \/ (state # TCP_LISTEN /\ state' # TCP_LISTEN)
  <2>1. ASSUME ArriveRst
        PROVE  Idle
    BY <2>1 DEF ArriveRst, HandleRst, StateAfterRst, TCP_SEND_RST, TCP_LISTEN,
                ctlVars, rxVars, txVars, appVars, outVars, peerVars
  <2>2. ASSUME Tick
        PROVE  Idle
    BY <2>2 DEF Tick, ctlVars, rxVars, txVars, appVars, outVars, peerVars
  <2>3. ASSUME NEW n \in 1 .. MaxTx, WriteCall(n)
        PROVE  Idle
    BY <2>3 DEF WriteCall, ctlVars, rxVars, txVars, outVars, peerVars
  <2>4. ASSUME UNCHANGED vars
        PROVE  Idle
    BY <2>4 DEF vars, ctlVars, rxVars, txVars, appVars, outVars, peerVars
  <2>5. Idle
    <3> HIDE DEF Idle
    <3> QED
      BY <1>1, <2>1, <2>2, <2>3, <2>4
  <2>6. UNCHANGED ClientEnd
    BY <2>5, ClientEndKept
  <2>7. UNCHANGED AppEnd
    BY <2>5 DEF AppEnd, AtEnd, Usable, ShutDown
  <2> QED
    BY <2>5, <2>6, <2>7, AbstractKept
<1>2. CASE Stack
  BY <1>1, <1>2, SynConnects, SegmentEndsOrStutters, SendStutters
     DEF Stack, Abstract!Next
<1>3. CASE Application
  <2>1. ASSUME NEW n \in ReadSizes, ReadTcp(n)
        PROVE  Abstract!Read
    BY <2>1, BoundAssumption, ReadTcpReads
  <2> QED
    BY <1>1, <1>3, <2>1, OpenAccepts, ReadResetFrees, WriteChunkWrites,
       ShutdownShuts, CloseCloses DEF Application, Abstract!Next
<1>4. CASE Client
  BY <1>4, AcceptStutters, PeerReceives, PeerReceivesEnd, PeerSends
     DEF Client, Abstract!Next
<1> QED
  BY <1>1, <1>2, <1>3, <1>4 DEF Next

(* The connection is the byte stream ByteStream promises: for every window,*)
(* ring, segment and table size, whatever is lost, repeated or reordered.  *)
THEOREM ConnectionIsAByteStream == Spec => ImplementsByteStream
<1>1. Spec => []StreamInv
  BY InitStreamInv, StreamStep, PTL DEF Spec
<1> QED
  BY <1>1, InitRefines, StepRefines, PTL
     DEF Spec, ImplementsByteStream, Abstract!Spec
=============================================================================
