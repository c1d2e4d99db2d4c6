----------------------------- MODULE WebServer -----------------------------
(***************************************************************************)
(* The program of src/web_server.c around the connection: the loop of      *)
(* main, the answers it writes and shutdown_close, with ip_stack_poll      *)
(* called exactly where the code calls it.  The module adds the program    *)
(* counter of that single thread to TcpConnection: every call of the       *)
(* server is an action of TcpConnection, and the packets are handled only  *)
(* while the thread is inside ip_stack_poll.                               *)
(*                                                                         *)
(* The request of a connection is abstracted to what main tells apart: its *)
(* kind, the length of its header, and the length its body claims to have. *)
(***************************************************************************)
EXTENDS TcpConnection

CONSTANTS
  Requests,    \* requests a client may send: [kind, header, body]
  MAX_SIZE,    \* max_size: bytes of the read buffer
  MESSAGE,     \* length of an HTTP message or of the header of a file
  FILE_SIZE,   \* length of the served file
  FILE_CHUNK,  \* bytes fread takes at a time
  DRAIN        \* size of null_buf in shutdown_close

RequestKinds == {"page", "file", "missing", "upload", "bad_upload", "other"}

ASSUME WebAssumption ==
  /\ Requests \subseteq [kind : RequestKinds, header : Nat \ {0}, body : Nat]
  /\ MAX_SIZE \in Nat \ {0} /\ MESSAGE \in Nat \ {0} /\ FILE_SIZE \in Nat
  /\ FILE_CHUNK \in Nat \ {0} /\ DRAIN \in Nat \ {0}
  /\ 1 .. MAX_SIZE \subseteq ReadSizes /\ DRAIN \in ReadSizes

NONE == -1

VARIABLES
  pc,          \* where the thread is
  caller,      \* where ip_stack_poll returns to
  request,     \* the request of the connection being served
  read_count,  \* bytes of it in read_buffer
  required,    \* required_length, -1 before the header is complete
  job,         \* how the request is answered, see Jobs
  left         \* bytes of the file still to write

(* By a message, also after a saved upload or when the file is refused; by *)
(* the file; by the file, of which fread just returned nothing ("stalled"). *)
Jobs == {"none", "message", "saved", "refused", "file", "stalled"}

SendsFile == job \in {"file", "stalled"}

webVars == <<pc, caller, request, read_count, required, job, left>>
allVars == <<vars, webVars>>

Goto(place) == pc' = place /\ UNCHANGED caller
Poll(place) == pc' = "rx" /\ caller' = place   \* call ip_stack_poll, then place

(***************************************************************************)
(* Faulty forms of definitions below; nothing uses them.                   *)
(***************************************************************************)
FaultTooLong    == request.header + request.body > MAX_SIZE  \* no room for 0
FaultBodyLong   == request.body > MAX_SIZE       \* header not counted
FaultUploadRead == read_count >= request.body    \* nor here
FaultAfterDrain ==                               \* close_tcp forgotten
  /\ app_id' = NONE
  /\ UNCHANGED <<ctlVars, state, ack_timeout, rxVars, txVars, wlen, delivered,
                 outVars, peerVars>>
FaultAnswered   == ~SendsFile \/ left <= FILE_CHUNK

(***************************************************************************)
(* ip_stack_poll: packets are handled, then packets are sent until one     *)
(* carries no data.  Both loops may stop after any packet; WebLink counts  *)
(* the twelve that the code allows.                                        *)
(***************************************************************************)
PollReceive ==
  /\ pc = "rx"
  /\ ArriveSyn \/ ArriveRst \/ ArriveSegment
  /\ UNCHANGED webVars

PollReceived ==
  /\ pc = "rx"
  /\ Goto("tx")
  /\ UNCHANGED <<vars, request, read_count, required, job, left>>

PollSend ==
  /\ pc = "tx"
  /\ SendTcpPacket
  /\ \/ pc' = caller
     \/ tx_sent' > (IF TimedOut THEN tx_acked ELSE tx_sent) /\ pc' = "tx"
  /\ UNCHANGED <<caller, request, read_count, required, job, left>>

PollSent ==
  /\ pc = "tx"
  /\ state = TCP_LISTEN \/ ~(SendWanted \/ TimedOut)
  /\ Goto(caller)
  /\ UNCHANGED <<vars, request, read_count, required, job, left>>

(***************************************************************************)
(* read_tcp with its result: -1, or the number of bytes read.              *)
(***************************************************************************)
Drained == rx_read >= rx_write \/ rx_read >= rx_fin

ReadFails ==
  \/ ~Usable
  \/ state = TCP_DATA_TO_READ /\ Drained
  \/ rx_read >= rx_fin

ReadFailing ==
  /\ ReadFails
  /\ IF Usable /\ state = TCP_DATA_TO_READ THEN ReadReset ELSE UNCHANGED vars

ReadEmpty == ~ReadFails /\ rx_read = rx_write /\ UNCHANGED vars

(***************************************************************************)
(* The loop of main.                                                       *)
(***************************************************************************)
ServeNobody ==
  /\ pc = "serve" /\ app_id = NONE
  /\ state = TCP_LISTEN
  /\ read_count' = 0 /\ required' = NONE
  /\ Poll("serve")
  /\ UNCHANGED <<vars, request, job, left>>

ServeNew ==
  /\ pc = "serve" /\ app_id = NONE
  /\ OpenTcp
  /\ request' \in Requests
  /\ read_count' = 0 /\ required' = NONE
  /\ Poll("serve")
  /\ UNCHANGED <<job, left>>

BufferExhausted ==
  /\ pc = "serve" /\ app_id # NONE
  /\ MAX_SIZE - read_count <= 0
  /\ Goto("exit")
  /\ UNCHANGED <<vars, request, read_count, required, job, left>>

ServeRead ==
  /\ pc = "serve" /\ app_id # NONE
  /\ MAX_SIZE - read_count > 0
  /\ ReadFailing \/ ReadEmpty \/ ReadTcp(MAX_SIZE - read_count)
  /\ read_count' = read_count + (rx_read' - rx_read)
  /\ Goto("request")
  /\ UNCHANGED <<request, required, job, left>>

HeaderComplete == read_count >= request.header

(* header_scan finds no empty line yet.                                    *)
NoHeader ==
  /\ pc = "request" /\ required = NONE
  /\ ~HeaderComplete
  /\ Poll("serve")
  /\ UNCHANGED <<vars, request, read_count, required, job, left>>

(* The body has claimed a length that does not fit the buffer.             *)
TooLong == request.header + request.body > MAX_SIZE - 1

(* Every request answered by a message alone.                              *)
AnswerMessage ==
  /\ pc = "request" /\ required = NONE
  /\ HeaderComplete
  /\ \/ request.kind \in {"page", "missing", "bad_upload"}
     \/ request.kind = "upload" /\ TooLong
  /\ job' = "message"
  /\ Goto("answer")
  /\ UNCHANGED <<vars, request, read_count, required, left>>

AnswerFile ==
  /\ pc = "request" /\ required = NONE
  /\ HeaderComplete
  /\ request.kind = "file"
  /\ job' = "file" /\ left' = FILE_SIZE
  /\ Goto("answer")
  /\ UNCHANGED <<vars, request, read_count, required>>

(* send_http_file cannot open the file any more, or it is too large: an    *)
(* error message is the answer, but main goes on as after the file.        *)
RefuseFile ==
  /\ pc = "request" /\ required = NONE
  /\ HeaderComplete
  /\ request.kind = "file"
  /\ job' = "refused"
  /\ Goto("answer")
  /\ UNCHANGED <<vars, request, read_count, required, left>>

StartUpload ==
  /\ pc = "request" /\ required = NONE
  /\ HeaderComplete
  /\ request.kind = "upload" /\ ~TooLong
  /\ required' = request.header + request.body
  /\ UNCHANGED <<vars, pc, caller, request, read_count, job, left>>

UploadRead == read_count >= required

UploadMissing ==
  /\ pc = "request" /\ required # NONE
  /\ ~UploadRead
  /\ Poll("serve")
  /\ UNCHANGED <<vars, request, read_count, required, job, left>>

(* parse_http_content: the file is saved, or not (not found in the body,   *)
(* or refused by the user); either is answered by a message.               *)
FinishUpload ==
  /\ pc = "request" /\ required # NONE
  /\ UploadRead
  /\ job' \in {"saved", "message"}
  /\ Goto("answer")
  /\ UNCHANGED <<vars, request, read_count, required, left>>

(* A method that is neither GET nor POST reaches parse_http_content with   *)
(* required_length = -1 and boundary = NULL, which is undefined.           *)
OtherMethod ==
  /\ pc = "request" /\ required = NONE
  /\ HeaderComplete
  /\ request.kind = "other"
  /\ Goto("undefined")
  /\ UNCHANGED <<vars, request, read_count, required, job, left>>

(***************************************************************************)
(* Answers: write_tcp of the message or the file header, of the pieces of  *)
(* the file, then shutdown_close.                                          *)
(***************************************************************************)
WriteOrFail(n) == IF Usable THEN WriteCall(n) ELSE UNCHANGED vars

StartAnswer ==
  /\ pc = "answer"
  /\ WriteOrFail(MESSAGE)
  /\ Goto("write")
  /\ UNCHANGED <<request, read_count, required, job, left>>

WriteStep == WriteChunk \/ (WriteRoom <= 0 /\ UNCHANGED vars)

(* One pass of the loop in write_tcp, which ends by polling.               *)
WritePass ==
  /\ pc = "write" /\ wlen > 0
  /\ WriteStep
  /\ Poll("write")
  /\ UNCHANGED <<request, read_count, required, job, left>>

Answered == ~SendsFile \/ left = 0

(* One pass of the loop in send_http_file: it writes the next piece.       *)
WriteFile ==
  /\ pc = "write" /\ wlen = 0
  /\ ~Answered
  /\ LET read == Smaller(FILE_CHUNK, left)
     IN  WriteOrFail(read) /\ left' = left - read
  /\ job' = "file"
  /\ Goto("written")
  /\ UNCHANGED <<request, read_count, required>>

(* fread returns nothing, as the file has become shorter or cannot be      *)
(* read.  That is not below 0: the loop polls and tries again, for ever if *)
(* need be.                                                                *)
ReadNothing ==
  /\ pc = "write" /\ wlen = 0
  /\ ~Answered
  /\ job' = "stalled"
  /\ Poll("write")
  /\ UNCHANGED <<vars, request, read_count, required, left>>

(* ... until write_tcp returns, and polls.                                 *)
WrittenPass ==
  /\ pc = "written" /\ wlen > 0
  /\ WriteStep
  /\ Poll("written")
  /\ UNCHANGED <<request, read_count, required, job, left>>

FilePoll ==
  /\ pc = "written" /\ wlen = 0
  /\ Poll("write")
  /\ UNCHANGED <<vars, request, read_count, required, job, left>>

Shutdown ==
  /\ pc = "write" /\ wlen = 0
  /\ Answered
  /\ IF Usable THEN ShutdownTcp ELSE UNCHANGED vars
  /\ Goto("drain")
  /\ UNCHANGED <<request, read_count, required, job, left>>

(* Faulty form of Drain: a read that returns nothing ends the loop too.    *)
FaultDrain ==
  /\ pc = "drain"
  /\ \/ ReadTcp(DRAIN) /\ Goto("drain")
     \/ (ReadEmpty \/ ReadFailing) /\ Poll("close")
  /\ UNCHANGED <<request, read_count, required, job, left>>

(* Reads are repeated until one returns nothing; then, also after the read *)
(* that failed, shutdown_close polls.                                      *)
Drain ==
  /\ pc = "drain"
  /\ \/ ReadTcp(DRAIN) /\ Goto("drain")
     \/ ReadEmpty /\ Poll("drain")
     \/ ReadFailing /\ Poll("close")
  /\ UNCHANGED <<request, read_count, required, job, left>>

AfterDrain == CloseTcp

(* After a saved upload the program ends, and after send_http_file, what-  *)
(* ever it has sent.                                                       *)
Close ==
  /\ pc = "close"
  /\ AfterDrain
  /\ IF SendsFile \/ job \in {"refused", "saved"} THEN Goto("end")
     ELSE Poll("serve")
  /\ UNCHANGED <<request, read_count, required, job, left>>

(***************************************************************************)
WebInit ==
  /\ Init
  /\ pc = "rx" /\ caller = "serve"
  /\ request \in Requests /\ read_count = 0 /\ required = NONE
  /\ job = "none" /\ left = 0

Server ==
  \/ PollReceived \/ PollSend \/ PollSent
  \/ ServeNobody \/ ServeNew \/ BufferExhausted \/ ServeRead
  \/ NoHeader \/ AnswerMessage \/ AnswerFile \/ RefuseFile \/ StartUpload
  \/ UploadMissing \/ FinishUpload \/ OtherMethod
  \/ StartAnswer \/ WritePass \/ WriteFile \/ ReadNothing \/ WrittenPass
  \/ FilePoll
  \/ Shutdown \/ Drain \/ Close

(* The client and the clock go on whatever the thread does.                *)
World == (Client \/ Tick) /\ UNCHANGED webVars

WebNext == PollReceive \/ Server \/ World

WebSpec == WebInit /\ [][WebNext]_allVars

(***************************************************************************)
(* Properties.                                                             *)
(***************************************************************************)
(* Type invariant of the server's own state.                               *)
WebTypeOK ==
  /\ pc \in {"rx", "tx", "serve", "request", "answer", "write", "written",
             "drain", "close", "end", "exit", "undefined"}
  /\ caller \in {"serve", "write", "written", "drain", "close"}
  /\ request \in Requests
  /\ read_count \in 0 .. MAX_SIZE /\ required \in -1 .. MAX_SIZE - 1
  /\ job \in Jobs
  /\ left \in 0 .. FILE_SIZE

(* An upload that is saved was received completely: as many bytes as its   *)
(* header announced have been delivered, all of them of the connection it  *)
(* is answered on, and the client did send them.                           *)
SavedIsComplete ==
  job = "saved" /\ pc = "answer" =>
    /\ \A i \in 1 .. request.header + request.body :
         i \in DOMAIN delivered /\ delivered[i] = Byte(app_id, i)
    /\ connection_id = app_id => peer_sent > request.header + request.body

(* open_tcp never hands out a connection the server has answered already,  *)
(* or read anything from.                                                  *)
OpensFreshConnection ==
  app_id = NONE /\ state # TCP_LISTEN => rx_read = 1 /\ tx_write = 1

(* The end of the stream follows the whole answer: when shutdown_tcp has   *)
(* been called, what was written for the request is complete.              *)
ShutdownAfterAnswer ==
  state # TCP_LISTEN /\ tx_fin # NO_FIN =>
    tx_fin = 1 + MESSAGE + (IF SendsFile THEN FILE_SIZE ELSE 0)

(* A client can make the program give up with "Read buffer exhausted" only *)
(* by a header that does not end: an upload whose length was accepted fits *)
(* the buffer, however it is cut into reads and whatever request another   *)
(* connection has left behind.                                             *)
UploadFits == pc = "exit" => required = NONE
=============================================================================
