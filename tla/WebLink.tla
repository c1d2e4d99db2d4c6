------------------------------ MODULE WebLink ------------------------------
(***************************************************************************)
(* The web server and one browser at the two ends of a link that loses     *)
(* packets.  TcpConnection lets any packet arrive that a client can have   *)
(* sent; here the packets are the ones really under way, the client sends  *)
(* again what is not acknowledged and acknowledges what it receives, as    *)
(* every TCP does, and one can ask whether the transfer ever finishes.     *)
(*                                                                         *)
(* A packet of the server is lost, or received before anything else        *)
(* happens; a packet to the server is lost, or waits until ip_stack_poll   *)
(* takes it, and what is sent while one waits is lost.                     *)
(***************************************************************************)
EXTENDS WebServer

CONSTANTS
  Reliable,       \* kinds of packets the link never loses
  POLL_LIMIT,     \* packets a loop of ip_stack_poll handles (12)
  CLIENT_BUFFER   \* receive buffer of the client: its largest window

ASSUME LinkAssumption ==
  /\ Reliable \subseteq {"synack", "window"}
  /\ POLL_LIMIT \in Nat \ {0}
  /\ CLIENT_BUFFER \in Nat \ {0} /\ 0 .. CLIENT_BUFFER \subseteq Windows

VARIABLES
  polled,   \* packets of the loop of ip_stack_poll under way
  toServer, \* the packet waiting for the server, or EMPTY
  toClient, \* the packet at the client, or EMPTY
  client,   \* "idle", "syn" (sent) or "open"
  una,      \* first byte the server has not acknowledged to it
  unread    \* bytes in its receive buffer

EMPTY == [kind |-> "none"]

clientVars == <<client, una, unread>>
linkVars   == <<polled, toServer, toClient, clientVars>>
allLinkVars == <<allVars, linkVars>>

(* What the server has sent reaches the client before anything else.       *)
Quiet == toClient = EMPTY /\ toClient' = EMPTY

(***************************************************************************)
(* The server's end: ip_stack_poll takes every packet that waits, and      *)
(* sends.                                                                  *)
(***************************************************************************)
(* Faulty forms of the next definitions.                                   *)
FaultPolling == TRUE       \* a handler called at any time
FaultCounted == polled     \* packets not counted

Polling == pc = "rx"

Counted == polled + 1

Received ==
  Packet(remote, toServer.seq, toServer.len, toServer.ack, toServer.win,
         toServer.fin, FALSE)

(* The early returns of handle_tcp_packet.                                 *)
Ignored ==
  CASE toServer.kind = "syn" -> state # TCP_LISTEN \/ connection_counter > MaxConn
    [] OTHER                 -> state = TCP_LISTEN \/ ~FitsWindow(Received)

LinkReceive ==
  /\ Quiet
  /\ Polling
  /\ toServer # EMPTY /\ polled < POLL_LIMIT
  /\ polled' = Counted
  /\ \/ ~Ignored /\ toServer.kind = "syn" /\ HandleSyn(remote, toServer.win, 0, 1)
     \/ ~Ignored /\ toServer.kind # "syn" /\ HandleSegment(Received)
     \/ Ignored /\ UNCHANGED vars
  /\ toServer' = EMPTY
  /\ UNCHANGED <<webVars, clientVars>>

LinkReceived ==
  /\ Quiet
  /\ toServer = EMPTY \/ polled = POLL_LIMIT
  /\ PollReceived
  /\ polled' = 0
  /\ UNCHANGED <<toServer, clientVars>>

SendFrom == IF TimedOut THEN tx_acked ELSE tx_sent

(* What send_tcp_packet builds, in the step that sends it.  A SYN-ACK sent *)
(* again after its timeout has a sequence number one too low.              *)
ServerPacket ==
  [kind |-> IF tx_acked = 0 THEN IF SendFrom = 1 THEN "synack" ELSE "resent"
            ELSE IF FinWanted THEN "fin"
            ELSE IF tx_sent' > SendFrom THEN "data" ELSE "ack",
   seq  |-> IF tx_acked = 0 THEN SendFrom - 1 ELSE SendFrom,
   ack  |-> rx_write]

LinkSend ==
  /\ toClient = EMPTY
  /\ PollSend
  /\ pc' = IF tx_sent' > SendFrom /\ Counted < POLL_LIMIT THEN "tx" ELSE caller
  /\ polled' = IF pc' = "tx" THEN Counted ELSE 0
  /\ \/ toClient' = ServerPacket
     \/ ServerPacket.kind \notin Reliable /\ toClient' = EMPTY
  /\ UNCHANGED <<toServer, clientVars>>

LinkServer ==
  \/ LinkReceive \/ LinkReceived \/ LinkSend
  \/ /\ Quiet
     /\ Server /\ pc # "rx" /\ (pc = "tx" => vars' = vars)
     /\ polled' = 0
     /\ request' = request          \* the one this client sends
     /\ UNCHANGED <<toServer, clientVars>>

(***************************************************************************)
(* The client's end.                                                       *)
(***************************************************************************)
ToServer(kind, seq, len, fin) ==
  \/ kind \notin Reliable /\ UNCHANGED toServer
  \/ /\ kind \in Reliable \/ toServer = EMPTY
     /\ toServer' = [kind |-> kind, seq |-> seq, len |-> len, fin |-> fin,
                     ack |-> peer_next', win |-> CLIENT_BUFFER - unread']

Reply == ToServer("ack", peer_sent, 0, FALSE)

Handshake == toClient.kind \in {"synack", "resent"}

Establish ==
  /\ client = "syn" /\ Handshake
  /\ PeerAccept /\ peer_next' = toClient.seq + 1
  /\ client' = "open" /\ UNCHANGED unread

Expected(kind) ==
  client = "open" /\ toClient.kind = kind /\ toClient.seq = peer_next

TakeByte ==
  /\ Expected("data") /\ unread < CLIENT_BUFFER
  /\ PeerReceive
  /\ unread' = unread + 1 /\ UNCHANGED client

TakeFin ==
  /\ Expected("fin") /\ ~peer_eof
  /\ PeerReceiveFin
  /\ UNCHANGED <<client, unread>>

(* What is out of order or comes again is answered by an acknowledgement.  *)
TakeNothing ==
  /\ client = "open" /\ toClient.kind # "ack"
  /\ ~(Expected("data") /\ unread < CLIENT_BUFFER) /\ ~(Expected("fin") /\ ~peer_eof)
  /\ UNCHANGED <<vars, client, unread>>

ClientReceive ==
  /\ toClient # EMPTY /\ toClient' = EMPTY
  /\ una' = Larger(una, toClient.ack)
  /\ \/ (Establish \/ TakeByte \/ TakeFin \/ TakeNothing) /\ Reply
     \/ toClient.kind = "ack" /\ UNCHANGED <<vars, client, unread, toServer>>
  /\ UNCHANGED <<webVars, polled>>

ClientRead ==
  /\ Quiet
  /\ client = "open" /\ unread > 0
  /\ unread' = 0
  /\ UNCHANGED <<allVars, polled, client, una>>
  /\ IF unread = CLIENT_BUFFER THEN ToServer("window", peer_sent, 0, FALSE)
     ELSE UNCHANGED toServer

RequestLength ==
  request.header + (IF request.kind = "upload" THEN request.body ELSE 0)

(* As the header of the answer says, which comes first.                    *)
AnswerLength == MESSAGE + (IF SendsFile THEN FILE_SIZE ELSE 0)

AnswerComplete == peer_next > AnswerLength

Connect ==
  /\ Quiet
  /\ client \in {"idle", "syn"}
  /\ client' = "syn"
  /\ UNCHANGED <<allVars, polled, una, unread>>
  /\ ToServer("syn", 0, 0, FALSE)

(* The request, which fits the first window, a byte at a time ...          *)
ClientRequest ==
  /\ Quiet
  /\ client = "open" /\ peer_sent <= RequestLength
  /\ PeerSend
  /\ UNCHANGED <<webVars, polled, clientVars>>
  /\ ToServer("data", peer_sent, 1, FALSE)

(* ... and again while it is not acknowledged.                             *)
ClientAgain ==
  /\ Quiet
  /\ client = "open" /\ una < peer_sent
  /\ UNCHANGED <<allVars, polled, clientVars>>
  /\ ToServer("data", una, 1, FALSE)

(* It closes when it has the answer.  The server never acknowledges a FIN. *)
ClientClose ==
  /\ Quiet
  /\ client = "open" /\ AnswerComplete /\ una = peer_sent
  /\ IF peer_fin THEN UNCHANGED vars ELSE PeerFin
  /\ UNCHANGED <<webVars, polled, clientVars>>
  /\ ToServer("fin", peer_sent, 0, TRUE)

Browser ==
  \/ ClientReceive \/ ClientRead \/ Connect \/ ClientRequest \/ ClientAgain
  \/ ClientClose

Clock == Quiet /\ Tick /\ UNCHANGED <<webVars, linkVars>>

(***************************************************************************)
LinkInit ==
  /\ WebInit
  /\ polled = 0 /\ toServer = EMPTY /\ toClient = EMPTY
  /\ client = "idle" /\ una = 1 /\ unread = 0

LinkNext == LinkServer \/ Browser \/ Clock

LinkSpec == LinkInit /\ [][LinkNext]_allLinkVars

Arrives(kind) == toServer = EMPTY /\ toServer'.kind = kind

Reaches(kind) == toClient'.kind = kind

(* The server's loop and the clock go on and the client takes what reaches *)
(* it; of the packets that are sent again and again some arrive.           *)
FairLinkSpec ==
  /\ LinkSpec
  /\ WF_allLinkVars(LinkServer)
  /\ WF_allLinkVars(Clock)
  /\ WF_allLinkVars(ClientReceive)
  /\ WF_allLinkVars(ClientRead)
  /\ WF_allLinkVars(ClientRequest)
  /\ WF_allLinkVars(Connect /\ Arrives("syn"))
  /\ SF_allLinkVars(ClientReceive /\ Arrives("ack"))
  /\ SF_allLinkVars(ClientAgain /\ Arrives("data"))
  /\ SF_allLinkVars(ClientClose /\ Arrives("fin"))
  /\ SF_allLinkVars(LinkSend /\ Reaches("ack"))
  /\ \A p \in 1 .. MaxTx :
       SF_allLinkVars(LinkSend /\ Reaches("data") /\ toClient'.seq = p)

(***************************************************************************)
(* Properties.                                                             *)
(***************************************************************************)
(* When the program ends, after "File transfer complete" or "Upload        *)
(* complete", the browser has the whole answer, though close_tcp drops     *)
(* what is not acknowledged.  That the answer is the file is not implied:  *)
(* main prints the same after send_http_file has sent an error message.    *)
CompleteMeansArrived == pc = "end" => AnswerComplete

(* A browser that connects gets the whole answer to its request, however   *)
(* often the link loses what is sent, unless the file cannot be read.      *)
AnswerArrives == client = "open" ~> AnswerComplete \/ job = "stalled"

(* The server is done with every connection it opens, and ready for the    *)
(* next: neither write_tcp nor shutdown_close is stuck in its loop.  Only  *)
(* the loop of send_http_file is, when fread returns nothing.              *)
ServerFreed == app_id # NONE ~> app_id = NONE \/ job = "stalled"

(* A poll comes back to the server, however fast packets arrive, so that   *)
(* neither the server nor what there is to send waits behind them.         *)
PollReturns == pc = "rx" ~> pc \notin {"rx", "tx"}
=============================================================================
