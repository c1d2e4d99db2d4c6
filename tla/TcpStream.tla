----------------------------- MODULE TcpStream -----------------------------
(***************************************************************************)
(* TcpConnection implements ByteStream.  What the client has sent and what *)
(* the application has written are the streams up to the counters of the   *)
(* two ends; what was read is what read_tcp returned, and what the client  *)
(* received is what the transmissions carried, byte by byte.               *)
(***************************************************************************)
EXTENDS MCTcpConnection

Stream(c, end) == [i \in 1 .. end - 1 |-> Byte(c, i)]

(* The end of what the client has accepted; its counter also counts a FIN. *)
PeerEnd == IF peer_eof THEN peer_next - 1 ELSE peer_next

PeerReceived == [i \in 1 .. PeerEnd - 1 |-> sent[i]]

(* read_tcp reports the end of the stream because of rx_fin.               *)
AtEnd == Usable /\ rx_read >= rx_fin

(* shutdown_tcp was called on the connection.                              *)
ShutDown == connection_id > 0 /\ tx_fin # NO_FIN

Abstract == INSTANCE ByteStream WITH
  id      <- connection_id,
  open    <- state # TCP_LISTEN,
  reader  <- app_id,
  up      <- Stream(connection_id, peer_sent),
  upEnd   <- peer_fin,
  read    <- delivered,
  readEnd <- AtEnd,
  down    <- Stream(connection_id, tx_write),
  downEnd <- ShutDown,
  got     <- PeerReceived,
  gotEnd  <- peer_eof

(* The connection is a byte stream: rings, segment table, windows, the     *)
(* rollback after a timeout and the reuse of the one connection record are *)
(* invisible to its two ends.                                              *)
ImplementsByteStream == Abstract!Spec
=============================================================================
