----------------------------- MODULE WebProofs -----------------------------
(***************************************************************************)
(* The program around the connection, for every value of the constants:    *)
(* each of its steps is a step of TcpConnection or leaves the connection   *)
(* alone, and what it reads, answers and shuts down belongs together.      *)
(* Then the link between it and a browser: what really travels on it is    *)
(* what WebServer lets arrive, so that everything proved of the server     *)
(* holds on the link, and a program that says the file is complete is      *)
(* right.                                                                  *)
(***************************************************************************)
EXTENDS WebLink, TcpConnectionProofs

(***************************************************************************)
(* The inductive invariant of the server.                                  *)
(***************************************************************************)
(* Where the program is, whether or not it is inside ip_stack_poll.        *)
Place == IF pc \in {"rx", "tx"} THEN caller ELSE pc

(* Nothing is written on a connection before open_tcp has handed it out.   *)
FreshInv ==
  state # TCP_LISTEN /\ app_id # connection_id =>
    tx_write = 1 /\ tx_fin = NO_FIN

(* Until the answer has been started, read_count is what was read of the   *)
(* connection, main goes on reading an upload only while some of it is     *)
(* missing, and saves it only when it has all of it.                       *)
ReadingInv ==
  app_id # NONE /\ Place \in {"serve", "request", "answer"} =>
    /\ DOMAIN delivered = 1 .. read_count
    /\ Usable => rx_read = read_count + 1
    /\ connection_id = app_id => read_count < peer_sent
    /\ required # NONE => required = request.header + request.body
    /\ Place = "serve" /\ required # NONE => read_count < required
    /\ Place = "answer" /\ job = "saved" =>
         read_count >= request.header + request.body

(* How much of the answer is still to be written, and how long it is.      *)
Remaining == IF SendsFile THEN left ELSE 0
JobLength == MESSAGE + (IF SendsFile THEN FILE_SIZE ELSE 0)

(* Which connection is being answered at each place.                       *)
AnswerPlaces ==
  /\ Place \in {"request", "answer"} => app_id # NONE
  /\ Place = "end" => app_id = NONE
  /\ Place = "exit" => required = NONE
  /\ Place \notin {"write", "written"} => wlen = 0
  /\ Place = "answer" /\ SendsFile => left = FILE_SIZE

(* What has been written, what write_tcp still holds and what is left of   *)
(* the file add up to the answer, until shutdown_tcp marks its end.        *)
AnswerAdds ==
  Usable =>
    /\ Place \in {"serve", "request", "answer", "exit", "undefined"} =>
         tx_write = 1 /\ tx_fin = NO_FIN
    /\ Place \in {"write", "written"} =>
         tx_fin = NO_FIN /\ tx_write + wlen + Remaining = 1 + JobLength
    /\ Place \in {"drain", "close"} => tx_fin = 1 + JobLength

ConnInv == SendInv /\ ReceiveInv /\ FreshInv
WebInv  == ConnInv /\ WebTypeOK /\ ReadingInv /\ AnswerPlaces /\ AnswerAdds

(* The numbers of the program.                                             *)
WebTypes ==
  /\ MAX_SIZE \in Nat \ {0} /\ MESSAGE \in Nat \ {0} /\ FILE_SIZE \in Nat
  /\ FILE_CHUNK \in Nat \ {0} /\ DRAIN \in Nat \ {0}
  /\ read_count \in Nat /\ read_count <= MAX_SIZE
  /\ left \in Nat /\ left <= FILE_SIZE
  /\ required \in Nat \cup {-1}
  /\ request.header \in Nat \ {0} /\ request.body \in Nat
  /\ request.kind \in RequestKinds

LEMMA TypesOfWeb == WebTypeOK => WebTypes
<1> SUFFICES ASSUME WebTypeOK
             PROVE  WebTypes
  OBVIOUS
<1>1. request \in [kind : RequestKinds, header : Nat \ {0}, body : Nat]
  BY WebAssumption DEF WebTypeOK
<1> QED
  BY <1>1, WebAssumption DEF WebTypes, WebTypeOK

(***************************************************************************)
(* Every step of the program is a step of the connection, or none.         *)
(***************************************************************************)
LEMMA ServeReadStep ==
  ASSUME WebTypeOK, ServeRead
  PROVE  Application \/ UNCHANGED vars
<1>1. CASE ReadFailing \/ ReadEmpty
  BY <1>1 DEF ReadFailing, ReadEmpty, Application
<1>2. CASE ReadTcp(MAX_SIZE - read_count)
  <2>1. MAX_SIZE - read_count \in 1 .. MAX_SIZE
    BY TypesOfWeb DEF WebTypes, ServeRead
  <2>2. MAX_SIZE - read_count \in ReadSizes
    BY <2>1, WebAssumption
  <2> QED
    BY <1>2, <2>2 DEF Application
<1> QED
  BY <1>1, <1>2 DEF ServeRead

LEMMA WriteCallStep ==
  ASSUME SendInv, NEW n \in Nat \ {0}, WriteOrFail(n)
  PROVE  Application \/ UNCHANGED vars
<1>1. CASE Usable /\ WriteCall(n)
  <2>1. tx_write \in Nat /\ tx_write >= 1
    BY <1>1, Numbered DEF Usable, SendInv, TypeInv, TypeOK, TxBounds
  <2>2. n <= MaxTx
    BY <1>1, <2>1, BoundAssumption DEF WriteCall
  <2>3. n \in 1 .. MaxTx
    BY <2>2, BoundAssumption
  <2> QED
    BY <1>1, <2>3 DEF Application
<1>2. CASE UNCHANGED vars
  BY <1>2
<1> QED
  BY <1>1, <1>2 DEF WriteOrFail

LEMMA ServerSteps ==
  ASSUME WebTypeOK, SendInv, Server
  PROVE  SendTcpPacket \/ Application \/ UNCHANGED vars
<1>1. CASE PollSend
  BY <1>1 DEF PollSend
<1>2. CASE \/ PollReceived \/ PollSent \/ ServeNobody \/ BufferExhausted
           \/ NoHeader \/ AnswerMessage \/ AnswerFile \/ RefuseFile
           \/ StartUpload \/ UploadMissing \/ FinishUpload \/ OtherMethod
           \/ FilePoll \/ ReadNothing
  BY <1>2 DEF PollReceived, PollSent, ServeNobody, BufferExhausted, NoHeader,
       AnswerMessage, AnswerFile, RefuseFile, StartUpload, UploadMissing,
       FinishUpload, OtherMethod, FilePoll, ReadNothing
<1>3. CASE StartAnswer
  BY <1>3, WebAssumption, WriteCallStep DEF StartAnswer
<1>4. CASE WriteFile
  <2>1. Smaller(FILE_CHUNK, left) \in Nat \ {0}
    BY <1>4, TypesOfWeb DEF WebTypes, WriteFile, Answered, Smaller
  <2> QED
    BY <1>4, <2>1, WriteCallStep DEF WriteFile
<1>5. CASE ServeNew \/ WritePass \/ WrittenPass \/ Shutdown \/ Close
  BY <1>5 DEF ServeNew, WritePass, WrittenPass, WriteStep, Shutdown, Close,
       AfterDrain, Application
<1>6. CASE Drain
  BY <1>6, WebAssumption DEF Drain, ReadEmpty, ReadFailing, Application
<1> QED
  BY <1>1, <1>2, <1>3, <1>4, <1>5, <1>6, ServeReadStep DEF Server

LEMMA WebStepIsConnectionStep ==
  ASSUME WebTypeOK, SendInv, [WebNext]_allVars
  PROVE  [Next]_vars
<1>1. CASE PollReceive \/ World
  BY <1>1 DEF PollReceive, World, Next, Stack
<1>2. CASE Server
  BY <1>2, ServerSteps DEF Next, Stack
<1>3. CASE UNCHANGED allVars
  BY <1>3 DEF allVars
<1> QED
  BY <1>1, <1>2, <1>3 DEF WebNext

(***************************************************************************)
(* Steps that leave the program where it is, or move it without a call.    *)
(***************************************************************************)
(* The packets, the client and the clock.                                  *)
Around == PollReceive \/ PollReceived \/ PollSend \/ PollSent \/ World

(* Steps that only decide what to do next.                                 *)
Decide ==
  \/ ServeNobody \/ BufferExhausted \/ NoHeader \/ AnswerMessage
  \/ AnswerFile \/ RefuseFile \/ StartUpload \/ UploadMissing
  \/ FinishUpload \/ OtherMethod \/ FilePoll \/ ReadNothing

(* Steps that may call the connection.                                     *)
Call ==
  \/ ServeNew \/ ServeRead \/ StartAnswer \/ WritePass \/ WriteFile
  \/ WrittenPass \/ Shutdown \/ Drain \/ Close

LEMMA WebSteps ==
  [WebNext]_allVars => Around \/ Decide \/ Call \/ UNCHANGED allVars
  BY DEF WebNext, Server, Around, Decide, Call

LEMMA AroundKeeps ==
  ASSUME WebTypeOK, Around \/ UNCHANGED allVars
  PROVE  /\ Place' = Place
         /\ UNCHANGED <<request, read_count, required, job, left>>
         /\ pc' \in {pc, "tx", caller} /\ caller' = caller
<1>1. CASE PollReceive \/ World \/ UNCHANGED allVars
  BY <1>1 DEF PollReceive, World, webVars, allVars, Place
<1>2. CASE PollReceived
  BY <1>2 DEF PollReceived, Goto, Place
<1>3. CASE PollSend
  BY <1>3 DEF PollSend, Place, WebTypeOK
<1>4. CASE PollSent
  BY <1>4 DEF PollSent, Goto, Place, WebTypeOK
<1> QED
  BY <1>1, <1>2, <1>3, <1>4 DEF Around

LEMMA DecideKeeps ==
  ASSUME Decide
  PROVE  UNCHANGED vars
  BY DEF Decide, ServeNobody, BufferExhausted, NoHeader, AnswerMessage,
     AnswerFile, RefuseFile, StartUpload, UploadMissing, FinishUpload,
     OtherMethod, FilePoll, ReadNothing

(***************************************************************************)
(* Type correctness.                                                       *)
(***************************************************************************)
LEMMA WebTypeRead ==
  ASSUME ConnInv, WebTypeOK, ServeRead
  PROVE  read_count' \in 0 .. MAX_SIZE
<1>1. WebTypes /\ rx_read \in Nat /\ rx_write \in Nat
  BY TypesOfWeb DEF ConnInv, SendInv, TypeInv, TypeOK
<1>2. CASE ReadFailing \/ ReadEmpty
  <2>1. rx_read' = rx_read
    BY <1>2 DEF ReadFailing, ReadEmpty, ReadReset, vars, rxVars
  <2> QED
    BY <1>1, <2>1 DEF ServeRead, WebTypes
<1>3. CASE ReadTcp(MAX_SIZE - read_count)
  <2> DEFINE len == Smaller(MAX_SIZE - read_count, rx_write - rx_read)
  <2>1. rx_read' = rx_read + len /\ len > 0
    BY <1>3 DEF ReadTcp
  <2>2. len \in Int /\ len <= MAX_SIZE - read_count
    BY <1>1 DEF WebTypes, Smaller
  <2> HIDE DEF len
  <2>3. read_count' = read_count + len
    BY <1>1, <2>1, <2>2 DEF ServeRead, WebTypes
  <2> QED
    BY <1>1, <2>1, <2>2, <2>3 DEF WebTypes
<1> QED
  BY <1>2, <1>3 DEF ServeRead

LEMMA WebTypeStep ==
  ConnInv /\ WebTypeOK /\ [WebNext]_allVars => WebTypeOK'
<1> SUFFICES ASSUME ConnInv, WebTypeOK, [WebNext]_allVars
             PROVE  WebTypeOK'
  OBVIOUS
<1>1. CASE Around \/ UNCHANGED allVars
  BY <1>1, AroundKeeps DEF WebTypeOK
<1>2. CASE Decide
  <2> USE DEF Goto, Poll, WebTypeOK, Jobs
  <2>1. ASSUME ServeNobody \/ BufferExhausted \/ NoHeader \/ UploadMissing
                 \/ OtherMethod \/ FilePoll \/ AnswerMessage \/ FinishUpload
                 \/ RefuseFile \/ ReadNothing
        PROVE  WebTypeOK'
    BY <2>1, WebAssumption DEF ServeNobody, BufferExhausted, NoHeader,
         UploadMissing, OtherMethod, FilePoll, AnswerMessage, FinishUpload,
         RefuseFile, ReadNothing, NONE
  <2>2. ASSUME AnswerFile
        PROVE  WebTypeOK'
    BY <2>2, WebAssumption DEF AnswerFile
  <2>3. ASSUME StartUpload
        PROVE  WebTypeOK'
    <3>1. required' \in -1 .. MAX_SIZE - 1
      BY <2>3, TypesOfWeb DEF StartUpload, TooLong, WebTypes
    <3> QED
      BY <2>3, <3>1 DEF StartUpload
  <2> QED
    BY <1>2, <2>1, <2>2, <2>3 DEF Decide
<1>3. CASE ServeRead
  BY <1>3, WebTypeRead DEF ServeRead, Goto, WebTypeOK
<1>4. CASE WriteFile
  <2>1. left' \in 0 .. FILE_SIZE
    BY <1>4, TypesOfWeb DEF WriteFile, WebTypes, Smaller
  <2> QED
    BY <1>4, <2>1 DEF WriteFile, Goto, WebTypeOK, Jobs
<1>5. CASE ServeNew
  BY <1>5, WebAssumption DEF ServeNew, Poll, WebTypeOK, NONE
<1>6. CASE StartAnswer \/ WritePass \/ WrittenPass \/ Shutdown \/ Close
  BY <1>6 DEF StartAnswer, WritePass, WrittenPass, Shutdown, Close,
       Poll, Goto, WebTypeOK
<1>7. CASE Drain
  BY <1>7 DEF Drain, Poll, Goto, WebTypeOK
<1> QED
  BY <1>1, <1>2, <1>3, <1>4, <1>5, <1>6, <1>7, WebSteps DEF Call

(***************************************************************************)
(* What the steps of the connection leave alone.                           *)
(***************************************************************************)
(* The numbers of the connection that the program depends on.              *)
ConnTypes ==
  /\ connection_counter \in Nat /\ connection_id \in Nat
  /\ connection_id < connection_counter
  /\ app_id \in Nat \cup {-1} /\ app_id < connection_counter
  /\ rx_read \in Nat /\ rx_write \in Nat /\ peer_sent \in Nat
  /\ tx_write \in Nat /\ tx_fin \in Nat /\ wlen \in Nat

LEMMA TypesOfConn ==
  /\ ConnInv => ConnTypes
  /\ ConnInv /\ [Next]_vars => ConnTypes'
<1>1. ConnInv => ConnTypes
  BY DEF ConnInv, SendInv, ReceiveInv, AppInv, TypeInv, TypeOK, ConnTypes
<1>2. SendInv /\ ReceiveInv => ConnTypes
  BY DEF SendInv, ReceiveInv, AppInv, TypeInv, TypeOK, ConnTypes
<1>3. (SendInv /\ ReceiveInv => ConnTypes)'
  BY <1>2, PTL
<1> QED
  BY <1>1, <1>3, SendStep, ReceiveStep DEF ConnInv

(* Packets and the client's own steps leave the application's side and the *)
(* positions it works with, unless the connection is a new one.            *)
LEMMA NetworkKeeps ==
  ASSUME ConnInv, Stack \/ Client \/ UNCHANGED vars
  PROVE  /\ UNCHANGED <<app_id, wlen, delivered>>
         /\ state' # TCP_LISTEN /\ UNCHANGED connection_id =>
              state # TCP_LISTEN /\ UNCHANGED <<tx_write, tx_fin, rx_read>>
         /\ ~ UNCHANGED connection_id =>
              /\ connection_id' = connection_counter
              /\ rx_read' = 1 /\ tx_write' = 1 /\ tx_fin' = NO_FIN
         /\ UNCHANGED connection_id => peer_sent <= peer_sent'
<1> USE DEF ctlVars, rxVars, txVars, appVars, outVars, peerVars
<1>1. ConnTypes
  BY TypesOfConn
<1>2. CASE ArriveSyn
  BY <1>1, <1>2 DEF ArriveSyn, HandleSyn, ConnTypes
<1>3. CASE ArriveSegment
  <2>1. PICK p : HandleSegment(p)
    BY <1>3, Zenon DEF ArriveSegment
  <2> QED
    BY <1>1, <2>1 DEF HandleSegment, ConnTypes
<1>4. CASE ArriveRst \/ Tick
  <2>1. /\ state # TCP_LISTEN
        /\ UNCHANGED <<ctlVars, rxVars, txVars, appVars, outVars, peerVars>>
    BY <1>4 DEF ArriveRst, HandleRst, Tick
  <2> QED
    BY <1>1, <2>1 DEF ConnTypes
<1>5. CASE SendTcpPacket
  BY <1>1, <1>5 DEF SendTcpPacket, ConnTypes
<1>6. CASE Client
  BY <1>1, <1>6 DEF Client, PeerAccept, PeerReceive, PeerReceiveFin, PeerSend,
       PeerFin, stackVars, ConnTypes
<1>7. CASE UNCHANGED vars
  BY <1>1, <1>7 DEF vars, ConnTypes
<1> QED
  BY <1>2, <1>3, <1>4, <1>5, <1>6, <1>7 DEF Stack

(* The calls keep the connection and what the client has sent.             *)
LEMMA CallKeeps ==
  ASSUME Application
  PROVE  /\ UNCHANGED <<connection_id, connection_counter, peer_sent>>
         /\ state' \in {state, TCP_LISTEN}
  BY DEF Application, OpenTcp, ReadReset, ReadTcp, WriteCall, WriteChunk,
     ShutdownTcp, CloseTcp, ctlVars, peerVars

LEMMA FreshStep == ConnInv /\ [Next]_vars => FreshInv'
<1> SUFFICES ASSUME ConnInv, [Next]_vars
             PROVE  FreshInv'
  OBVIOUS
<1> USE DEF ctlVars, rxVars, txVars, appVars, outVars, peerVars
<1>1. ConnTypes /\ FreshInv
  BY TypesOfConn DEF ConnInv
<1>2. CASE Stack \/ Client \/ UNCHANGED vars
  BY <1>1, <1>2, NetworkKeeps DEF FreshInv
<1>3. CASE OpenTcp
  BY <1>3 DEF OpenTcp, FreshInv
<1>4. CASE WriteChunk
  <2>1. state # TCP_LISTEN /\ connection_id = app_id
    BY <1>4, WritingFacts DEF WriteChunk, ConnInv
  <2> QED
    BY <1>4, <2>1 DEF WriteChunk, FreshInv
<1>5. CASE CloseTcp
  BY <1>1, <1>5 DEF CloseTcp, FreshInv
<1>6. CASE ShutdownTcp
  BY <1>6 DEF ShutdownTcp, Usable, FreshInv
<1>7. CASE \/ ReadReset \/ (\E n \in ReadSizes : ReadTcp(n))
           \/ (\E n \in 1 .. MaxTx : WriteCall(n))
  BY <1>1, <1>7 DEF ReadReset, ReadTcp, WriteCall, Usable, FreshInv
<1> QED
  BY <1>2, <1>3, <1>4, <1>5, <1>6, <1>7 DEF Next, Application

LEMMA ConnStep == ConnInv /\ [Next]_vars => ConnInv'
  BY SendStep, ReceiveStep, FreshStep DEF ConnInv

(***************************************************************************)
(* Around the program's own steps.                                         *)
(***************************************************************************)
(* The connection of the application, when a step leaves it open, was open *)
(* before and is where it was.                                             *)
LEMMA AroundConnection ==
  ASSUME ConnInv, WebTypeOK, Around \/ UNCHANGED allVars
  PROVE  /\ UNCHANGED <<app_id, wlen, delivered>>
         /\ Usable' => Usable /\ UNCHANGED <<tx_write, tx_fin, rx_read>>
         /\ connection_id' = app_id' =>
              connection_id = app_id /\ peer_sent <= peer_sent'
<1>1. Stack \/ Client \/ UNCHANGED vars
  BY DEF Around, PollReceive, PollReceived, PollSend, PollSent, World, Stack,
     allVars
<1>2. ConnTypes
  BY TypesOfConn
<1>3. connection_id' = app_id' => UNCHANGED connection_id
  BY <1>1, <1>2, NetworkKeeps DEF ConnTypes
<1> QED
  BY <1>1, <1>3, NetworkKeeps DEF Usable

LEMMA AroundReading ==
  ASSUME WebInv, Around \/ UNCHANGED allVars
  PROVE  ReadingInv'
<1>1. ConnInv /\ WebTypeOK /\ ReadingInv
  BY DEF WebInv
<1>2. SUFFICES ASSUME app_id' # NONE, Place' \in {"serve", "request", "answer"}
               PROVE  /\ DOMAIN delivered' = 1 .. read_count'
                      /\ Usable' => rx_read' = read_count' + 1
                      /\ connection_id' = app_id' => read_count' < peer_sent'
                      /\ required' # NONE =>
                           required' = request'.header + request'.body
                      /\ Place' = "serve" /\ required' # NONE =>
                           read_count' < required'
                      /\ Place' = "answer" /\ job' = "saved" =>
                           read_count' >= request'.header + request'.body
  BY DEF ReadingInv
<1>3. /\ Place' = Place
      /\ UNCHANGED <<app_id, delivered, request, read_count, required, job>>
  BY <1>1, AroundConnection, AroundKeeps
<1>4. Usable' => Usable /\ rx_read' = rx_read
  BY <1>1, AroundConnection
<1>5. connection_id' = app_id' => connection_id = app_id /\ peer_sent <= peer_sent'
  BY <1>1, AroundConnection
<1>6. /\ DOMAIN delivered = 1 .. read_count
      /\ Usable => rx_read = read_count + 1
      /\ connection_id = app_id => read_count < peer_sent
      /\ required # NONE => required = request.header + request.body
      /\ Place = "serve" /\ required # NONE => read_count < required
      /\ Place = "answer" /\ job = "saved" =>
           read_count >= request.header + request.body
  BY <1>1, <1>2, <1>3 DEF ReadingInv
<1>7. [Next]_vars
  BY <1>1, WebStepIsConnectionStep DEF ConnInv, Around, WebNext, Server
<1>8. PICK sent_next \in Nat : peer_sent' = sent_next
  BY <1>1, <1>7, TypesOfConn DEF ConnTypes
<1>9. peer_sent \in Nat /\ read_count \in Nat
  BY <1>1, TypesOfConn, TypesOfWeb DEF ConnTypes, WebTypes
<1>10. connection_id' = app_id' => read_count < peer_sent'
  BY <1>5, <1>6, <1>8, <1>9
<1> QED
  BY <1>3, <1>4, <1>6, <1>10

LEMMA AroundAnswer ==
  ASSUME WebInv, Around \/ UNCHANGED allVars
  PROVE  AnswerPlaces' /\ AnswerAdds'
  BY AroundConnection, AroundKeeps
     DEF WebInv, AnswerPlaces, AnswerAdds, Remaining, JobLength, SendsFile

(***************************************************************************)
(* Deciding what to do next.                                               *)
(***************************************************************************)
LEMMA DecideReading ==
  ASSUME WebInv, Decide
  PROVE  ReadingInv'
<1>1. UNCHANGED vars
  BY DecideKeeps
<1>2. /\ UNCHANGED <<app_id, delivered, rx_read, peer_sent, connection_id>>
      /\ Usable' = Usable
  BY <1>1 DEF vars, ctlVars, rxVars, appVars, peerVars, Usable
<1>3. ReadingInv
  BY DEF WebInv
<1> USE DEF Goto, Poll, Place, ReadingInv
<1>4. CASE \/ ServeNobody \/ BufferExhausted \/ OtherMethod \/ FilePoll
           \/ ReadNothing
  BY <1>2, <1>4 DEF ServeNobody, BufferExhausted, OtherMethod, FilePoll,
       ReadNothing
<1>5. CASE NoHeader \/ UploadMissing
  <2>1. UploadMissing => required' # NONE /\ read_count' < required'
    BY TypesOfWeb DEF UploadMissing, UploadRead, WebInv, WebTypes, NONE
  <2> QED
    BY <1>2, <1>3, <1>5, <2>1 DEF NoHeader, UploadMissing
<1>6. CASE AnswerMessage \/ AnswerFile \/ RefuseFile
  BY <1>2, <1>3, <1>6 DEF AnswerMessage, AnswerFile, RefuseFile
<1>7. CASE StartUpload
  BY <1>2, <1>3, <1>7 DEF StartUpload
<1>8. CASE FinishUpload
  BY <1>2, <1>3, <1>8 DEF FinishUpload, UploadRead
<1> QED
  BY <1>4, <1>5, <1>6, <1>7, <1>8 DEF Decide

(* The buffer is never full while the rest of an upload is missing.        *)
LEMMA BufferKept ==
  ASSUME WebInv, BufferExhausted
  PROVE  required = NONE
<1> SUFFICES ASSUME required # NONE
             PROVE  FALSE
  OBVIOUS
<1>1. read_count < required
  BY DEF WebInv, ReadingInv, BufferExhausted, Place
<1>2. required <= MAX_SIZE - 1
  BY TypesOfWeb DEF WebInv, WebTypeOK, WebTypes
<1> QED
  BY <1>1, <1>2, TypesOfWeb DEF WebInv, WebTypes, BufferExhausted, NONE

LEMMA DecideAnswer ==
  ASSUME WebInv, Decide
  PROVE  AnswerPlaces' /\ AnswerAdds'
<1>1. UNCHANGED vars
  BY DecideKeeps
<1>2. /\ UNCHANGED <<app_id, wlen, tx_write, tx_fin>>
      /\ Usable' = Usable
  BY <1>1 DEF vars, ctlVars, txVars, appVars, Usable
<1>3. AnswerPlaces /\ AnswerAdds
  BY DEF WebInv
<1> USE DEF Goto, Poll, Place, AnswerPlaces, AnswerAdds, Remaining, JobLength,
            SendsFile
<1>4. CASE ServeNobody \/ BufferExhausted \/ OtherMethod
  <2>1. BufferExhausted => required = NONE
    BY BufferKept
  <2> QED
    BY <1>2, <1>3, <1>4, <2>1 DEF ServeNobody, BufferExhausted, OtherMethod
<1>5. CASE NoHeader \/ UploadMissing \/ StartUpload
  BY <1>2, <1>3, <1>5 DEF NoHeader, UploadMissing, StartUpload
<1>6. CASE AnswerMessage \/ AnswerFile \/ RefuseFile \/ FinishUpload
  BY <1>2, <1>3, <1>6 DEF AnswerMessage, AnswerFile, RefuseFile, FinishUpload
<1>7. CASE FilePoll
  BY <1>2, <1>3, <1>7 DEF FilePoll
<1>8. CASE ReadNothing
  BY <1>2, <1>3, <1>8 DEF ReadNothing, Answered
<1> QED
  BY <1>4, <1>5, <1>6, <1>7, <1>8 DEF Decide

(***************************************************************************)
(* The calls.                                                              *)
(***************************************************************************)
LEMMA NewConnection ==
  ASSUME WebInv, ServeNew
  PROVE  ReadingInv' /\ AnswerPlaces' /\ AnswerAdds'
<1>1. ConnTypes
  BY TypesOfConn DEF WebInv
<1>2. /\ pc = "serve" /\ app_id = NONE /\ state # TCP_LISTEN
      /\ app_id' = connection_id /\ delivered' = <<>>
      /\ read_count' = 0 /\ required' = NONE
      /\ pc' = "rx" /\ caller' = "serve"
      /\ UNCHANGED <<connection_id, state, rx_read, peer_sent, tx_write,
                     tx_fin, wlen>>
  BY DEF ServeNew, OpenTcp, Poll, ctlVars, rxVars, txVars, peerVars
<1>3. app_id # connection_id /\ app_id' # NONE
  BY <1>1, <1>2 DEF ConnTypes, NONE
<1>4. rx_read = 1 /\ tx_write = 1 /\ tx_fin = NO_FIN
  BY <1>2, <1>3 DEF WebInv, ConnInv, FreshInv, ReceiveInv, AppInv
<1>5. peer_sent >= 1
  BY <1>1, <1>2 DEF WebInv, ConnInv, ReceiveInv, RxInv, RxBounds, ConnTypes
<1>6. Place = "serve" /\ Place' = "serve"
  BY <1>2 DEF Place
<1>7. DOMAIN delivered' = 1 .. 0
  BY <1>2
<1>8. ReadingInv'
  BY <1>1, <1>2, <1>4, <1>5, <1>6, <1>7 DEF ReadingInv, ConnTypes
<1>9. wlen = 0
  BY <1>6 DEF WebInv, AnswerPlaces
<1>10. AnswerPlaces' /\ AnswerAdds'
  BY <1>2, <1>4, <1>6, <1>9 DEF AnswerPlaces, AnswerAdds
<1> QED
  BY <1>8, <1>10

(* A read of ServeRead returns the next bytes of the connection, or none.  *)
LEMMA ReadKeepsCount ==
  ASSUME WebInv, ServeRead
  PROVE  /\ DOMAIN delivered' = 1 .. read_count'
         /\ Usable' => Usable /\ rx_read' = read_count' + 1
         /\ connection_id = app_id => read_count' < peer_sent
         /\ UNCHANGED <<app_id, connection_id, peer_sent, wlen, tx_write, tx_fin>>
<1>1. ConnTypes /\ WebTypes
  BY TypesOfConn, TypesOfWeb DEF WebInv
<1>2. /\ app_id # NONE
      /\ DOMAIN delivered = 1 .. read_count
      /\ Usable => rx_read = read_count + 1
      /\ connection_id = app_id => read_count < peer_sent
  BY DEF WebInv, ReadingInv, Place, ServeRead
<1>3. CASE ReadFailing \/ ReadEmpty
  <2>1. /\ UNCHANGED <<connection_id, app_id, delivered, wlen, rx_read,
                       tx_write, tx_fin, peer_sent>>
        /\ state' # TCP_LISTEN => state # TCP_LISTEN
    BY <1>3 DEF ReadFailing, ReadEmpty, ReadReset, vars, ctlVars, rxVars,
         txVars, appVars, peerVars
  <2>2. read_count' = read_count
    BY <1>1, <2>1 DEF ServeRead, ConnTypes, WebTypes
  <2> QED
    BY <1>2, <2>1, <2>2 DEF Usable
<1>4. CASE ReadTcp(MAX_SIZE - read_count)
  <2> DEFINE len == Smaller(MAX_SIZE - read_count, rx_write - rx_read)
  <2>1. /\ Usable /\ rx_read' = rx_read + len /\ len > 0
        /\ DOMAIN delivered' = 1 .. rx_read + len - 1
        /\ UNCHANGED <<app_id, connection_id, wlen, peer_sent, tx_write, tx_fin>>
    BY <1>4 DEF ReadTcp, ctlVars, txVars, peerVars
  <2>2. len \in Int /\ len <= rx_write - rx_read
    BY <1>1 DEF ConnTypes, WebTypes, Smaller
  <2> HIDE DEF len
  <2>3. read_count' = read_count + len
    BY <1>1, <2>1, <2>2 DEF ServeRead, ConnTypes, WebTypes
  <2>4. /\ rx_read + len = read_count + len + 1
        /\ rx_read + len - 1 = read_count + len
    BY <1>1, <1>2, <2>1, <2>2 DEF ConnTypes, WebTypes
  <2>5. DOMAIN delivered' = 1 .. read_count'
    BY <2>1, <2>3, <2>4
  <2>6. rx_write <= peer_sent
    BY <2>1 DEF Usable, WebInv, ConnInv, ReceiveInv, RxInv, RxBounds
  <2>7. read_count + len < peer_sent
    BY <1>1, <2>2, <2>4, <2>6 DEF ConnTypes, WebTypes
  <2> QED
    BY <2>1, <2>3, <2>4, <2>5, <2>7
<1> QED
  BY <1>3, <1>4 DEF ServeRead

LEMMA ReadPart ==
  ASSUME WebInv, ServeRead
  PROVE  ReadingInv' /\ AnswerPlaces' /\ AnswerAdds'
<1>1. /\ pc = "serve" /\ app_id # NONE /\ pc' = "request"
      /\ UNCHANGED <<request, required, job, left>>
  BY DEF ServeRead, Goto
<1>2. Place = "serve" /\ Place' = "request"
  BY <1>1 DEF Place
<1>3. ReadingInv'
  BY <1>1, <1>2, ReadKeepsCount DEF WebInv, ReadingInv
<1>4. AnswerPlaces' /\ AnswerAdds'
  BY <1>1, <1>2, ReadKeepsCount DEF WebInv, AnswerPlaces, AnswerAdds
<1> QED
  BY <1>3, <1>4

(* Steps that leave the program writing, draining or done read nothing.    *)
LEMMA AnsweringReads ==
  ASSUME \/ StartAnswer \/ WritePass \/ WriteFile \/ WrittenPass \/ Shutdown
         \/ Drain \/ Close
  PROVE  ReadingInv'
<1>1. CASE Close
  BY <1>1 DEF Close, AfterDrain, CloseTcp, ReadingInv, NONE
<1>2. CASE \/ StartAnswer \/ WritePass \/ WriteFile \/ WrittenPass \/ Shutdown
           \/ Drain
  BY <1>2 DEF StartAnswer, WritePass, WriteFile, WrittenPass, Shutdown, Drain,
       Goto, Poll, Place, ReadingInv
<1> QED
  BY <1>1, <1>2

(* Entering write_tcp, or not when the connection is gone.                 *)
LEMMA EntersWrite ==
  ASSUME NEW n, WriteOrFail(n)
  PROVE  /\ Usable' = Usable
         /\ UNCHANGED <<app_id, tx_write, tx_fin>>
         /\ Usable => wlen' = n
         /\ ~Usable => wlen' = wlen
  BY DEF WriteOrFail, WriteCall, Usable, vars, ctlVars, txVars, appVars

(* A pass of write_tcp moves bytes from what it holds to what is written.  *)
LEMMA WritePasses ==
  ASSUME ConnInv, WriteStep
  PROVE  /\ Usable' = Usable
         /\ UNCHANGED <<app_id, tx_fin>>
         /\ tx_write' + wlen' = tx_write + wlen
<1>1. ConnTypes
  BY TypesOfConn
<1>2. CASE WriteChunk
  <2> DEFINE len == Smaller(wlen, WriteRoom)
  <2>1. /\ tx_write' = tx_write + len /\ wlen' = wlen - len
        /\ UNCHANGED <<app_id, connection_id, state, tx_fin>>
    BY <1>2 DEF WriteChunk, ctlVars
  <2>2. len \in Int
    <3>1. WriteRoom \in Int
      BY SizeAssumption DEF ConnInv, SendInv, TypeInv, TypeOK, WriteRoom,
         Smaller, WindowAvailable, BufferAvailable
    <3> QED
      BY <1>1, <3>1 DEF ConnTypes, Smaller
  <2> HIDE DEF len
  <2>3. (tx_write + len) + (wlen - len) = tx_write + wlen
    BY <1>1, <2>2 DEF ConnTypes
  <2> QED
    BY <2>1, <2>3 DEF Usable
<1>3. CASE UNCHANGED vars
  BY <1>3 DEF vars, ctlVars, txVars, appVars, Usable
<1> QED
  BY <1>2, <1>3 DEF WriteStep

LEMMA StartPart ==
  ASSUME WebInv, StartAnswer
  PROVE  AnswerPlaces' /\ AnswerAdds'
<1>1. ConnTypes /\ WebTypes
  BY TypesOfConn, TypesOfWeb DEF WebInv
<1>2. /\ Place = "answer" /\ Place' = "write"
      /\ UNCHANGED <<job, left>>
  BY DEF StartAnswer, Goto, Place
<1>3. /\ Usable' = Usable
      /\ UNCHANGED <<app_id, tx_write, tx_fin>>
      /\ Usable => wlen' = MESSAGE
  BY EntersWrite DEF StartAnswer
<1>4. /\ SendsFile => left = FILE_SIZE
      /\ Usable => tx_write = 1 /\ tx_fin = NO_FIN
  BY <1>2 DEF WebInv, AnswerPlaces, AnswerAdds
<1>5. Remaining' = JobLength - MESSAGE /\ JobLength' = JobLength
  BY <1>1, <1>2, <1>4 DEF Remaining, JobLength, SendsFile, WebTypes
<1>6. JobLength \in Nat
  BY <1>1 DEF JobLength, WebTypes
<1>7. 1 + MESSAGE + (JobLength - MESSAGE) = 1 + JobLength
  BY <1>1, <1>6 DEF WebTypes
<1> QED
  BY <1>2, <1>3, <1>4, <1>5, <1>7 DEF AnswerPlaces, AnswerAdds

LEMMA PassPart ==
  ASSUME WebInv, WritePass \/ WrittenPass
  PROVE  AnswerPlaces' /\ AnswerAdds'
<1>1. ConnTypes /\ WebTypes
  BY TypesOfConn, TypesOfWeb DEF WebInv
<1>2. /\ Place \in {"write", "written"} /\ Place' = Place
      /\ WriteStep
      /\ UNCHANGED <<job, left>>
  BY DEF WritePass, WrittenPass, Poll, Place
<1>3. /\ Usable' = Usable
      /\ UNCHANGED <<app_id, tx_fin>>
      /\ tx_write' + wlen' = tx_write + wlen
  BY <1>2, WritePasses DEF WebInv
<1>4. Usable => tx_fin = NO_FIN /\ tx_write + wlen + Remaining = 1 + JobLength
  BY <1>2 DEF WebInv, AnswerAdds
<1>5. Remaining' = Remaining /\ JobLength' = JobLength
  BY <1>2 DEF Remaining, JobLength, SendsFile
<1> QED
  BY <1>2, <1>3, <1>4, <1>5 DEF AnswerPlaces, AnswerAdds

LEMMA FilePart ==
  ASSUME WebInv, WriteFile
  PROVE  AnswerPlaces' /\ AnswerAdds'
<1>1. ConnTypes /\ WebTypes
  BY TypesOfConn, TypesOfWeb DEF WebInv
<1> DEFINE read == Smaller(FILE_CHUNK, left)
<1>2. /\ Place = "write" /\ Place' = "written"
      /\ wlen = 0 /\ SendsFile /\ SendsFile'
      /\ WriteOrFail(read) /\ left' = left - read
  BY DEF WriteFile, Answered, SendsFile, Goto, Place
<1>3. read \in Nat
  BY <1>1 DEF WebTypes, Smaller
<1> HIDE DEF read
<1>4. /\ Usable' = Usable
      /\ UNCHANGED <<app_id, tx_write, tx_fin>>
      /\ Usable => wlen' = read
  BY <1>2, EntersWrite
<1>5. Usable => tx_fin = NO_FIN /\ tx_write + 0 + left = 1 + JobLength
  BY <1>2 DEF WebInv, AnswerAdds, Remaining
<1>6. Remaining' = left - read /\ JobLength' = JobLength
  BY <1>2 DEF Remaining, JobLength
<1>7. tx_write + read + (left - read) = tx_write + 0 + left
  BY <1>1, <1>3 DEF ConnTypes, WebTypes
<1> QED
  BY <1>2, <1>4, <1>5, <1>6, <1>7 DEF AnswerPlaces, AnswerAdds

LEMMA ShutdownPart ==
  ASSUME WebInv, Shutdown
  PROVE  AnswerPlaces' /\ AnswerAdds'
<1>1. ConnTypes /\ WebTypes
  BY TypesOfConn, TypesOfWeb DEF WebInv
<1>2. /\ Place = "write" /\ Place' = "drain"
      /\ wlen = 0 /\ Remaining = 0
      /\ UNCHANGED <<job, left>>
  BY DEF Shutdown, Answered, Goto, Place, Remaining
<1>3. /\ Usable' = Usable
      /\ UNCHANGED <<app_id, wlen>>
      /\ Usable => tx_fin' = tx_write
  BY DEF Shutdown, ShutdownTcp, Usable, vars, ctlVars, appVars
<1>4. Usable => tx_write + 0 + 0 = 1 + JobLength
  BY <1>2 DEF WebInv, AnswerAdds
<1>5. Usable => tx_write = 1 + JobLength
  BY <1>1, <1>4 DEF ConnTypes
<1>6. JobLength' = JobLength
  BY <1>2 DEF JobLength, SendsFile
<1> QED
  BY <1>2, <1>3, <1>5, <1>6 DEF AnswerPlaces, AnswerAdds

LEMMA DrainPart ==
  ASSUME WebInv, Drain
  PROVE  AnswerPlaces' /\ AnswerAdds'
<1>1. /\ Place = "drain" /\ Place' \in {"drain", "close"}
      /\ UNCHANGED <<job, left>>
  BY DEF Drain, Goto, Poll, Place
<1>2. /\ Usable' => Usable
      /\ UNCHANGED <<app_id, wlen, tx_fin>>
  BY DEF Drain, ReadTcp, ReadEmpty, ReadFailing, ReadReset, Usable, vars,
     ctlVars, txVars, appVars
<1>3. JobLength' = JobLength
  BY <1>1 DEF JobLength, SendsFile
<1> QED
  BY <1>1, <1>2, <1>3 DEF WebInv, AnswerPlaces, AnswerAdds

LEMMA ClosePart ==
  ASSUME WebInv, Close
  PROVE  AnswerPlaces' /\ AnswerAdds'
<1>1. ConnTypes
  BY TypesOfConn DEF WebInv
<1>2. /\ wlen' = 0 /\ app_id' = NONE /\ connection_id' = connection_id
      /\ Place' \in {"end", "serve"}
  BY DEF Close, AfterDrain, CloseTcp, Goto, Poll, Place, NONE, ctlVars
<1>3. ~Usable'
  BY <1>1, <1>2 DEF ConnTypes, Usable, NONE
<1> QED
  BY <1>2, <1>3 DEF AnswerPlaces, AnswerAdds

(***************************************************************************)
(* The invariant, and what follows from it.                                *)
(***************************************************************************)
LEMMA InitWebInv == WebInit => WebInv
<1> SUFFICES ASSUME WebInit
             PROVE  WebInv
  OBVIOUS
<1>1. SendInv /\ ReceiveInv
  BY InitSendInv, InitReceiveInv DEF WebInit
<1>2. state = TCP_LISTEN /\ app_id = NONE /\ wlen = 0 /\ Place = "serve"
  BY DEF WebInit, Init, NONE, Place
<1>3. WebTypeOK
  BY WebAssumption DEF WebInit, WebTypeOK, Jobs, NONE
<1>4. FreshInv /\ ReadingInv /\ AnswerPlaces /\ AnswerAdds
  BY <1>2 DEF FreshInv, ReadingInv, AnswerPlaces, AnswerAdds, Usable
<1> QED
  BY <1>1, <1>3, <1>4 DEF WebInv, ConnInv

(* No step of the program, the clients or the network breaks the           *)
(* invariant, and each is a step of the connection or none.                *)
THEOREM WebStep == WebInv /\ [WebNext]_allVars => WebInv' /\ [Next]_vars
<1> SUFFICES ASSUME WebInv, [WebNext]_allVars
             PROVE  WebInv' /\ [Next]_vars
  OBVIOUS
<1>1. [Next]_vars
  BY WebStepIsConnectionStep DEF WebInv, ConnInv
<1>2. ConnInv' /\ WebTypeOK'
  BY <1>1, ConnStep, WebTypeStep DEF WebInv
<1>3. CASE Around \/ UNCHANGED allVars
  BY <1>1, <1>2, <1>3, AroundReading, AroundAnswer DEF WebInv
<1>4. CASE Decide
  BY <1>1, <1>2, <1>4, DecideReading, DecideAnswer DEF WebInv
<1>5. CASE Call
  <2>1. ReadingInv'
    BY <1>5, NewConnection, ReadPart, AnsweringReads DEF Call
  <2>2. AnswerPlaces' /\ AnswerAdds'
    BY <1>5, NewConnection, ReadPart, StartPart, PassPart, FilePart,
       ShutdownPart, DrainPart, ClosePart DEF Call
  <2> QED
    BY <1>1, <1>2, <2>1, <2>2 DEF WebInv
<1> QED
  BY <1>3, <1>4, <1>5, WebSteps

(* The inductive invariant of the server holds of every behaviour.         *)
THEOREM WebInvariant == WebSpec => []WebInv
  BY InitWebInv, WebStep, PTL DEF WebSpec

(* Every step of the program is one of the connection or none: what is     *)
(* proved of TcpConnection holds of it.                                    *)
LEMMA ServerIsAConnection == WebSpec => Spec
<1>1. WebInit => Init
  BY DEF WebInit
<1> QED
  BY <1>1, WebInvariant, WebStep, PTL DEF WebSpec, Spec

(* The server's own state has its types.                                   *)
THEOREM WebTypeCorrect == WebSpec => []WebTypeOK
<1>1. WebInv => WebTypeOK
  BY DEF WebInv
<1> QED
  BY <1>1, WebInvariant, PTL

(* An upload that is saved has been received completely, on the connection *)
(* it is answered on.                                                      *)
THEOREM SavedUploadsAreComplete == WebSpec => []SavedIsComplete
<1>1. WebInv => SavedIsComplete
  <2> SUFFICES ASSUME WebInv, job = "saved", pc = "answer"
               PROVE  /\ \A i \in 1 .. request.header + request.body :
                           i \in DOMAIN delivered /\ delivered[i] = Byte(app_id, i)
                      /\ connection_id = app_id =>
                           peer_sent > request.header + request.body
    BY DEF SavedIsComplete
  <2>1. ConnTypes /\ WebTypes
    BY TypesOfConn, TypesOfWeb DEF WebInv
  <2>2. Place = "answer"
    BY DEF Place
  <2>3. app_id # NONE
    BY <2>2 DEF WebInv, AnswerPlaces
  <2>4. /\ DOMAIN delivered = 1 .. read_count
        /\ connection_id = app_id => read_count < peer_sent
        /\ read_count >= request.header + request.body
    BY <2>2, <2>3 DEF WebInv, ReadingInv
  <2>5. \A i \in DOMAIN delivered : delivered[i] = Byte(app_id, i)
    BY <2>3 DEF WebInv, ConnInv, ReceiveInv, AppInv, ReadIntegrity, NONE
  <2>6. \A i \in 1 .. request.header + request.body : i \in 1 .. read_count
    BY <2>1, <2>4 DEF WebTypes
  <2>7. connection_id = app_id => peer_sent > request.header + request.body
    BY <2>1, <2>4 DEF ConnTypes, WebTypes
  <2> QED
    BY <2>4, <2>5, <2>6, <2>7
<1> QED
  BY <1>1, WebInvariant, PTL

(* open_tcp never hands out a connection the server has read from or       *)
(* written on.                                                             *)
THEOREM ConnectionsAreFresh == WebSpec => []OpensFreshConnection
<1>1. WebInv => OpensFreshConnection
  <2> SUFFICES ASSUME WebInv, app_id = NONE, state # TCP_LISTEN
               PROVE  rx_read = 1 /\ tx_write = 1
    BY DEF OpensFreshConnection
  <2>1. app_id # connection_id
    BY TypesOfConn DEF WebInv, ConnTypes, NONE
  <2> QED
    BY <2>1 DEF WebInv, ConnInv, FreshInv, ReceiveInv, AppInv
<1> QED
  BY <1>1, WebInvariant, PTL

(* shutdown_tcp is called when the whole answer has been written, and not  *)
(* before: the end of the stream is the end of the answer.                 *)
THEOREM AnswersEndWhole == WebSpec => []ShutdownAfterAnswer
<1>1. WebInv /\ state # TCP_LISTEN /\ tx_fin # NO_FIN => tx_fin = 1 + JobLength
  <2> SUFFICES ASSUME WebInv, state # TCP_LISTEN, tx_fin # NO_FIN
               PROVE  tx_fin = 1 + JobLength
    OBVIOUS
  <2>1. connection_id = app_id
    BY DEF WebInv, ConnInv, FreshInv
  <2>2. Usable /\ app_id # NONE
    BY <2>1, TypesOfConn DEF WebInv, ConnTypes, Usable, NONE
  <2>3. Place \in {"drain", "close"}
    BY <2>2 DEF WebInv, AnswerPlaces, AnswerAdds, Place, WebTypeOK
  <2> QED
    BY <2>2, <2>3 DEF WebInv, AnswerAdds
<1> DEFINE length == IF SendsFile THEN FILE_SIZE ELSE 0
<1>2. JobLength = MESSAGE + length
  BY DEF JobLength
<1>3. ShutdownAfterAnswer <=>
        (state # TCP_LISTEN /\ tx_fin # NO_FIN => tx_fin = 1 + MESSAGE + length)
  BY DEF ShutdownAfterAnswer
<1>4. MESSAGE \in Nat /\ length \in Nat
  BY WebAssumption
<1> HIDE DEF length
<1>5. 1 + JobLength = 1 + MESSAGE + length
  BY <1>2, <1>4
<1>6. WebInv => ShutdownAfterAnswer
  BY <1>1, <1>3, <1>5
<1> QED
  BY <1>6, WebInvariant, PTL

(* The program never ends with "Read buffer exhausted" in the middle of an *)
(* upload whose length it has accepted.                                    *)
THEOREM UploadsFit == WebSpec => []UploadFits
<1>1. WebInv => UploadFits
  BY DEF WebInv, AnswerPlaces, UploadFits, Place
<1> QED
  BY <1>1, WebInvariant, PTL

(***************************************************************************)
(* The inductive invariant of the link.                                    *)
(***************************************************************************)
(* The browser's own numbers, and those of the packet it has got.          *)
BrowserTypes ==
  /\ client \in {"idle", "syn", "open"}
  /\ unread \in 0 .. CLIENT_BUFFER
  /\ una \in Nat \ {0}
  /\ toClient # EMPTY => toClient.ack \in Nat

(* A browser that has the SYN-ACK is the client of a connection.           *)
OpenInv ==
  client = "open" =>
    /\ connection_id > 0 /\ peer_next >= 0
    /\ peer_sent >= 1 /\ peer_sent <= MaxRx + 1

(* The packet that waits for the server stays one that a client in its     *)
(* state can have sent.                                                    *)
SlotInv ==
  toServer # EMPTY =>
    /\ toServer.kind \in {"syn", "ack", "data", "fin", "window"}
    /\ toServer.win \in 0 .. CLIENT_BUFFER
    /\ toServer.kind # "syn" =>
         /\ client = "open"
         /\ toServer.seq \in Nat \ {0} /\ toServer.len \in 0 .. 1
         /\ toServer.fin \in BOOLEAN
         /\ toServer.seq + toServer.len <= peer_sent
         /\ toServer.fin = TRUE =>
              peer_fin = TRUE /\ toServer.seq + toServer.len = peer_sent
         /\ ClientAck(toServer.ack)

(* While a SYN may still come, the server has received nothing, and is     *)
(* waiting for the request: it does not take a second connection.          *)
EarlyInv ==
  client # "open" \/ (toServer # EMPTY /\ toServer.kind = "syn") =>
    /\ Place \in {"serve", "request"}
    /\ connection_id > 0 => state # TCP_LISTEN /\ rx_write = 1

(* Nobody resets the connection, so the server keeps the one it has until  *)
(* it closes it.                                                           *)
HoldsInv ==
  /\ state \in {TCP_LISTEN, TCP_SYN_RECEIVED, TCP_SYN_ACK_SENT, TCP_CONNECTED}
  /\ app_id # NONE => Usable
  /\ Place \notin {"serve", "end"} => app_id # NONE

(* The browser closes when it has the answer, the server after it.         *)
ClosingInv ==
  /\ peer_fin = TRUE => client = "open" /\ AnswerComplete
  /\ Place \in {"close", "end"} => peer_fin = TRUE

LinkInv ==
  /\ WebInv
  /\ BrowserTypes /\ OpenInv /\ SlotInv /\ EarlyInv /\ HoldsInv /\ ClosingInv

(* The numbers of the client.                                              *)
PeerTypes ==
  /\ peer_next \in Nat \cup {-1} /\ peer_sent \in Nat
  /\ peer_eof \in BOOLEAN /\ peer_fin \in BOOLEAN

LEMMA TypesOfPeer ==
  /\ WebInv => PeerTypes
  /\ WebInv' => PeerTypes'
<1>1. WebInv => PeerTypes
  <2>1. TypeOK => PeerTypes
    BY Zenon DEF TypeOK, PeerTypes
  <2> QED
    BY <2>1 DEF WebInv, ConnInv, SendInv, TypeInv
<1>2. (WebInv => PeerTypes)'
  BY <1>1, PTL
<1> QED
  BY <1>1, <1>2

LEMMA InitLinkInv == LinkInit => LinkInv
<1> SUFFICES ASSUME LinkInit
             PROVE  LinkInv
  OBVIOUS
<1>1. WebInv
  BY InitWebInv DEF LinkInit
<1>2. /\ client = "idle" /\ unread = 0 /\ una = 1
      /\ toServer = EMPTY /\ toClient = EMPTY
  BY DEF LinkInit
<1>3. state = TCP_LISTEN /\ app_id = NONE /\ connection_id = 0 /\ Place = "serve"
  BY DEF LinkInit, WebInit, Init, NONE, Place
<1>4. BrowserTypes /\ OpenInv /\ SlotInv
  BY <1>2, LinkAssumption DEF BrowserTypes, OpenInv, SlotInv
<1>5. EarlyInv /\ HoldsInv
  BY <1>3 DEF EarlyInv, HoldsInv
<1>6. peer_fin # TRUE
  BY Zenon DEF LinkInit, WebInit, Init
<1>7. ClosingInv
  BY <1>3, <1>6 DEF ClosingInv
<1> QED
  BY <1>1, <1>4, <1>5, <1>7 DEF LinkInv

(***************************************************************************)
(* Every step of the link is a step of WebServer, or none.                 *)
(***************************************************************************)
(* How far the client can be.                                              *)
LEMMA PeerReach ==
  ASSUME WebInv, connection_id > 0
  PROVE  peer_next <= MaxTx + 2
<1>1. TxBounds /\ PeerBounds /\ tx_write \in Nat /\ tx_fin \in Nat
  BY DEF WebInv, ConnInv, SendInv, TxInv, TypeInv, TypeOK
<1>2. PeerTypes
  BY TypesOfPeer
<1>3. CASE peer_eof = TRUE
  BY <1>1, <1>3, BoundAssumption DEF TxBounds, PeerBounds
<1>4. CASE peer_eof # TRUE
  <2>1. peer_next <= tx_write
    BY <1>1, <1>4 DEF PeerBounds
  <2>2. peer_next \in Int
    BY <1>2 DEF PeerTypes
  <2> QED
    BY <1>1, <2>1, <2>2, BoundAssumption DEF TxBounds
<1> QED
  BY <1>3, <1>4

(* A segment that waits can arrive.                                        *)
LEMMA WaitingArrives ==
  ASSUME LinkInv, toServer # EMPTY, toServer.kind # "syn",
         HandleSegment(Received)
  PROVE  ArriveSegment
<1>1. PeerTypes /\ remote \in Clients /\ connection_id > 0 /\ peer_next >= 0
  BY TypesOfPeer
     DEF LinkInv, SlotInv, OpenInv, WebInv, ConnInv, SendInv, TypeInv, TypeOK
<1> DEFINE seq == toServer.seq
           len == toServer.len
           fin == toServer.fin
           ack == toServer.ack
           win == toServer.win
<1>2. /\ seq \in Nat \ {0} /\ len \in 0 .. 1
      /\ seq + len <= peer_sent /\ peer_sent <= MaxRx + 1
      /\ ClientAck(ack) /\ win \in 0 .. CLIENT_BUFFER
  BY DEF LinkInv, SlotInv, OpenInv
<1>3. fin \in BOOLEAN /\ (fin = TRUE => peer_fin = TRUE /\ seq + len = peer_sent)
  BY Zenon DEF LinkInv, SlotInv
<1>4. HandleSegment(Packet(remote, seq, len, ack, win, fin, FALSE))
  BY DEF Received
<1> HIDE DEF seq, len, fin, ack, win
<1>5. seq \in 1 .. MaxRx + 2 /\ len \in 0 .. MAX_SEGMENT /\ peer_sent \in Nat
  BY <1>1, <1>2, BoundAssumption, SizeAssumption DEF PeerTypes
<1>6. ack \in 0 .. MaxTx + 2
  BY <1>1, <1>2, PeerReach, BoundAssumption DEF LinkInv, PeerTypes, ClientAck
<1>7. win \in Windows
  BY <1>2, LinkAssumption
<1>8. ClientRange(seq, len, fin)
  BY <1>2, <1>3, Zenon DEF ClientRange
<1> QED
  BY <1>1, <1>2, <1>3, <1>4, <1>5, <1>6, <1>7, <1>8 DEF ArriveSegment

LEMMA ReceiveIsPoll ==
  ASSUME LinkInv, LinkReceive
  PROVE  /\ UNCHANGED webVars
         /\ PollReceive \/ UNCHANGED vars
<1>1. /\ pc = "rx" /\ toServer # EMPTY
      /\ UNCHANGED webVars
      /\ \/ toServer.kind = "syn" /\ HandleSyn(remote, toServer.win, 0, 1)
         \/ toServer.kind # "syn" /\ HandleSegment(Received)
         \/ UNCHANGED vars
  BY DEF LinkReceive, Polling
<1>2. CASE HandleSyn(remote, toServer.win, 0, 1)
  <2>1. remote \in Clients
    BY DEF LinkInv, WebInv, ConnInv, SendInv, TypeInv, TypeOK
  <2>2. toServer.win \in Windows /\ 0 \in Scales
    BY <1>1, LinkAssumption, BoundAssumption DEF LinkInv, SlotInv
  <2>3. ArriveSyn
    BY <1>2, <2>1, <2>2 DEF ArriveSyn
  <2> QED
    BY <1>1, <2>3 DEF PollReceive
<1> QED
  BY <1>1, <1>2, WaitingArrives DEF PollReceive

(* The browser's steps are the client's.                                   *)
LEMMA BrowserIsClient ==
  ASSUME Browser
  PROVE  UNCHANGED webVars /\ (Client \/ UNCHANGED vars)
<1>1. CASE ClientReceive
  BY <1>1 DEF ClientReceive, Establish, TakeByte, TakeFin, TakeNothing, Client
<1>2. CASE ClientRequest \/ ClientClose
  BY <1>2 DEF ClientRequest, ClientClose, Client
<1>3. CASE ClientRead \/ Connect \/ ClientAgain
  BY <1>3 DEF ClientRead, Connect, ClientAgain, allVars
<1> QED
  BY <1>1, <1>2, <1>3 DEF Browser

LEMMA LinkStepIsWebStep ==
  ASSUME LinkInv, [LinkNext]_allLinkVars
  PROVE  [WebNext]_allVars
<1>1. CASE LinkReceive
  BY <1>1, ReceiveIsPoll DEF WebNext, allVars
<1>2. CASE LinkReceived \/ LinkSend
  BY <1>2 DEF LinkReceived, LinkSend, WebNext, Server
<1>3. CASE Server
  BY <1>3 DEF WebNext
<1>4. CASE Browser
  BY <1>4, BrowserIsClient DEF WebNext, World, allVars
<1>5. CASE Clock
  BY <1>5 DEF Clock, WebNext, World
<1>6. CASE UNCHANGED allLinkVars
  BY <1>6 DEF allLinkVars
<1> QED
  BY <1>1, <1>2, <1>3, <1>4, <1>5, <1>6 DEF LinkNext, LinkServer

(***************************************************************************)
(* The server's end.                                                       *)
(***************************************************************************)
(* Neither sending nor a call touches what the client has sent or got.     *)
LEMMA ServerLeaves ==
  ASSUME SendTcpPacket \/ Application \/ UNCHANGED vars
  PROVE  UNCHANGED <<connection_id, rx_write, peer_next, peer_eof, peer_sent,
                     peer_fin>>
<1> USE DEF ctlVars, rxVars, peerVars
<1>1. CASE SendTcpPacket
  BY <1>1 DEF SendTcpPacket
<1>2. CASE Application
  BY <1>2 DEF Application, OpenTcp, ReadReset, ReadTcp, WriteCall, WriteChunk,
       ShutdownTcp, CloseTcp
<1>3. CASE UNCHANGED vars
  BY <1>3 DEF vars
<1> QED
  BY <1>1, <1>2, <1>3

(* Without a reset the connection goes through three states only.          *)
Live == {TCP_LISTEN, TCP_SYN_RECEIVED, TCP_SYN_ACK_SENT, TCP_CONNECTED}

LEMMA StateStays ==
  ASSUME state \in Live
  PROVE  /\ SendTcpPacket => state' \in Live \ {TCP_LISTEN}
         /\ ArriveSegment => state' \in Live \ {TCP_LISTEN}
         /\ Application => state' \in Live
<1> USE DEF Live, TCP_LISTEN, TCP_SYN_RECEIVED, TCP_SYN_ACK_SENT, TCP_CONNECTED
<1>1. ASSUME SendTcpPacket
      PROVE  state' \in Live \ {TCP_LISTEN}
  BY <1>1 DEF SendTcpPacket, StateAfterSend, CNot, TCP_SEND_RST,
       TCP_DATA_TO_READ, TCP_BOTH_CLOSED
<1>2. ASSUME ArriveSegment
      PROVE  state' \in Live \ {TCP_LISTEN}
  <2>1. PICK p : HandleSegment(p)
    BY <1>2, Zenon DEF ArriveSegment
  <2> QED
    BY <2>1 DEF HandleSegment, StateAfterAck
<1>3. ASSUME Application
      PROVE  state' \in Live
  BY <1>3, CallKeeps
<1> QED
  BY <1>1, <1>2, <1>3

(* The calls other than open_tcp and close_tcp keep the connection: a read *)
(* frees none, since none is reset.                                        *)
LEMMA CallLeaves ==
  ASSUME HoldsInv,
         \/ ServeRead \/ StartAnswer \/ WritePass \/ WriteFile \/ WrittenPass
         \/ Shutdown \/ Drain
  PROVE  UNCHANGED <<state, app_id, connection_id>>
<1>1. state # TCP_DATA_TO_READ
  BY DEF HoldsInv, TCP_DATA_TO_READ, TCP_LISTEN, TCP_SYN_RECEIVED,
     TCP_SYN_ACK_SENT, TCP_CONNECTED
<1>2. CASE ServeRead \/ Drain
  BY <1>1, <1>2 DEF ServeRead, Drain, ReadFailing, ReadEmpty, ReadReset, ReadTcp,
       vars, ctlVars, appVars
<1>3. CASE StartAnswer \/ WriteFile
  BY <1>3 DEF StartAnswer, WriteFile, WriteOrFail, WriteCall, vars, ctlVars,
       appVars
<1>4. CASE WritePass \/ WrittenPass
  BY <1>4 DEF WritePass, WrittenPass, WriteStep, WriteChunk, vars, ctlVars,
       appVars
<1>5. CASE Shutdown
  BY <1>5 DEF Shutdown, ShutdownTcp, vars, ctlVars, appVars
<1> QED
  BY <1>2, <1>3, <1>4, <1>5

(* Around the program's own steps nothing is closed.                       *)
LEMMA PollLeaves ==
  ASSUME HoldsInv, PollReceived \/ PollSend \/ PollSent
  PROVE  /\ UNCHANGED <<app_id, connection_id>>
         /\ state # TCP_LISTEN => state' # TCP_LISTEN
<1>1. CASE PollReceived \/ PollSent
  BY <1>1 DEF PollReceived, PollSent, vars, ctlVars, appVars
<1>2. CASE PollSend
  BY <1>2, StateStays DEF PollSend, HoldsInv, Live, SendTcpPacket, ctlVars, appVars
<1> QED
  BY <1>1, <1>2

LEMMA HoldsServer ==
  ASSUME LinkInv, Server
  PROVE  HoldsInv'
<1>1. HoldsInv /\ WebTypeOK /\ AnswerPlaces
  BY DEF LinkInv, WebInv
<1>2. state' \in Live
  <2>1. SendTcpPacket \/ Application \/ UNCHANGED vars
    BY ServerSteps DEF LinkInv, WebInv, ConnInv
  <2>2. state \in Live
    BY <1>1 DEF HoldsInv, Live
  <2> QED
    BY <2>1, <2>2, StateStays DEF vars
<1>3. CASE PollReceived \/ PollSend \/ PollSent
  BY <1>1, <1>2, <1>3, PollLeaves, AroundKeeps
     DEF Around, HoldsInv, Live, Usable
<1>4. CASE Decide
  <2>1. UNCHANGED <<state, app_id, connection_id>>
    BY <1>4, DecideKeeps DEF vars, ctlVars, appVars
  <2>2. Place' \notin {"serve", "end"} => app_id # NONE
    BY <1>1, <1>4
       DEF Decide, ServeNobody, BufferExhausted, NoHeader, AnswerMessage,
           AnswerFile, RefuseFile, StartUpload, UploadMissing, FinishUpload,
           OtherMethod, FilePoll, ReadNothing, Goto, Poll, Place, HoldsInv
  <2> QED
    BY <1>1, <1>2, <2>1, <2>2 DEF HoldsInv, Live, Usable
<1>5. CASE ServeNew
  <2>1. /\ app_id' = connection_id' /\ state' # TCP_LISTEN
        /\ connection_id \in Nat /\ app_id' = connection_id
    BY <1>5, TypesOfConn DEF ServeNew, OpenTcp, ctlVars, LinkInv, WebInv, ConnTypes
  <2> QED
    BY <1>2, <2>1 DEF HoldsInv, Live, Usable, NONE
<1>6. CASE \/ ServeRead \/ StartAnswer \/ WritePass \/ WriteFile \/ WrittenPass
           \/ Shutdown \/ Drain
  <2>1. app_id # NONE
    BY <1>1, <1>6
       DEF ServeRead, StartAnswer, WritePass, WriteFile, WrittenPass, Shutdown,
           Drain, Place, HoldsInv
  <2> QED
    BY <1>1, <1>2, <1>6, <2>1, CallLeaves DEF HoldsInv, Live, Usable
<1>7. CASE Close
  BY <1>2, <1>7
     DEF Close, AfterDrain, CloseTcp, Goto, Poll, Place, HoldsInv, Live, NONE
<1> QED
  BY <1>3, <1>4, <1>5, <1>6, <1>7 DEF Server, Decide

(* A program that may still get a SYN has read nothing, so its request is  *)
(* not complete.                                                           *)
LEMMA EarlyReads ==
  ASSUME LinkInv, connection_id > 0 => state # TCP_LISTEN /\ rx_write = 1,
         Place \in {"serve", "request"}, app_id # NONE
  PROVE  /\ MAX_SIZE - read_count > 0 /\ ~HeaderComplete
         /\ required # NONE => ~UploadRead
<1>1. ConnTypes /\ WebTypes
  BY TypesOfConn, TypesOfWeb DEF LinkInv, WebInv
<1>2. Usable /\ state # TCP_LISTEN
  BY DEF LinkInv, HoldsInv, Usable
<1>3. connection_id > 0
  BY <1>2, Numbered DEF LinkInv, WebInv, ConnInv
<1>4. rx_write = 1 /\ 1 <= rx_read /\ rx_read <= rx_write
  BY <1>2, <1>3 DEF LinkInv, WebInv, ConnInv, ReceiveInv, RxInv, RxBounds
<1>5. /\ rx_read = read_count + 1
      /\ required # NONE => required = request.header + request.body
  BY <1>2 DEF LinkInv, WebInv, ReadingInv
<1>6. read_count = 0
  BY <1>1, <1>4, <1>5 DEF ConnTypes, WebTypes
<1> QED
  BY <1>1, <1>5, <1>6 DEF WebTypes, HeaderComplete, UploadRead

(* It goes on waiting.                                                     *)
LEMMA EarlyServer ==
  ASSUME LinkInv, Server, UNCHANGED <<client, toServer>>
  PROVE  EarlyInv'
<1> SUFFICES ASSUME connection_id > 0 => state # TCP_LISTEN /\ rx_write = 1,
                    Place \in {"serve", "request"}
             PROVE  /\ Place' \in {"serve", "request"}
                    /\ connection_id' > 0 => state' # TCP_LISTEN /\ rx_write' = 1
  BY DEF EarlyInv, LinkInv
<1>1. HoldsInv /\ WebTypeOK /\ AnswerPlaces
  BY DEF LinkInv, WebInv
<1>2. UNCHANGED <<connection_id, rx_write>>
  <2>1. SendTcpPacket \/ Application \/ UNCHANGED vars
    BY ServerSteps DEF LinkInv, WebInv, ConnInv
  <2> QED
    BY <2>1, ServerLeaves
<1>3. /\ app_id # NONE =>
           /\ MAX_SIZE - read_count > 0 /\ ~HeaderComplete
           /\ required # NONE => ~UploadRead
      /\ Place = "request" => app_id # NONE
  BY <1>1, EarlyReads DEF AnswerPlaces
<1>4. CASE PollReceived \/ PollSend \/ PollSent
  BY <1>1, <1>2, <1>4, PollLeaves, AroundKeeps DEF Around
<1>5. CASE Decide
  <2>1. UNCHANGED state
    BY <1>5, DecideKeeps DEF vars
  <2>2. ~ (\/ BufferExhausted \/ AnswerMessage \/ AnswerFile \/ RefuseFile
           \/ FinishUpload \/ OtherMethod \/ FilePoll \/ ReadNothing)
    <3>1. pc = "request" => app_id # NONE
      BY <1>3 DEF Place
    <3>2. ~BufferExhausted /\ ~FilePoll /\ ~ReadNothing
      BY <1>3, TypesOfWeb
         DEF BufferExhausted, FilePoll, ReadNothing, Place, WebTypes, LinkInv, WebInv
    <3> QED
      BY <1>3, <3>1, <3>2
         DEF AnswerMessage, AnswerFile, RefuseFile, FinishUpload, OtherMethod
  <2>3. Place' \in {"serve", "request"}
    BY <1>5, <2>2
       DEF Decide, ServeNobody, NoHeader, StartUpload, UploadMissing, Goto,
           Poll, Place
  <2> QED
    BY <1>2, <2>1, <2>3
<1>6. CASE ServeNew \/ ServeRead
  <2>1. UNCHANGED state
    BY <1>1, <1>6, CallLeaves DEF ServeNew, OpenTcp
  <2>2. Place' \in {"serve", "request"}
    BY <1>6 DEF ServeNew, ServeRead, Goto, Poll, Place
  <2> QED
    BY <1>2, <2>1, <2>2
<1>7. ~ (\/ StartAnswer \/ WritePass \/ WriteFile \/ WrittenPass \/ Shutdown
         \/ Drain \/ Close)
  BY DEF StartAnswer, WritePass, WriteFile, WrittenPass, Shutdown, Drain, Close,
     Place
<1> QED
  BY <1>4, <1>5, <1>6, <1>7 DEF Server, Decide

(* shutdown_close goes on to close_tcp when it has read the end of what    *)
(* the browser has sent.                                                   *)
LEMMA DrainSeesEnd ==
  ASSUME LinkInv, Drain, Place' = "close"
  PROVE  peer_fin = TRUE
<1>1. HoldsInv /\ ReceiveInv
  BY DEF LinkInv, WebInv, ConnInv
<1>2. ReadFailing
  BY DEF Drain, Goto, Poll, Place
<1>3. Usable /\ state # TCP_LISTEN
  BY <1>1 DEF Drain, Place, HoldsInv, Usable
<1>4. state # TCP_DATA_TO_READ
  BY <1>1 DEF HoldsInv, TCP_DATA_TO_READ, TCP_LISTEN, TCP_SYN_RECEIVED,
     TCP_SYN_ACK_SENT, TCP_CONNECTED
<1>5. rx_read >= rx_fin
  BY <1>2, <1>3, <1>4 DEF ReadFailing, ReadFails
<1>6. RxBounds /\ RxFin
  BY <1>1, <1>3 DEF ReceiveInv, RxInv
<1>7. rx_read \in Nat /\ rx_write \in Nat /\ rx_fin \in Nat /\ peer_sent \in Nat
  BY <1>1 DEF ReceiveInv, TypeInv, TypeOK
<1>8. rx_fin # NO_FIN
  BY <1>5, <1>6, <1>7, BoundAssumption DEF RxBounds
<1> QED
  BY <1>6, <1>8 DEF RxFin

(* Before the answer has begun the browser has nothing of it, and does not *)
(* close; so the answer does not change once it has.                       *)
LEMMA RequestOpen ==
  ASSUME LinkInv, Place = "request"
  PROVE  peer_fin # TRUE
<1>1. app_id # NONE /\ Usable /\ state # TCP_LISTEN
  BY DEF LinkInv, HoldsInv, Usable
<1>2. connection_id > 0
  BY <1>1, Numbered DEF LinkInv, WebInv, ConnInv
<1>3. tx_write = 1 /\ tx_fin = NO_FIN
  BY <1>1 DEF LinkInv, WebInv, AnswerAdds
<1>4. PeerBounds
  BY <1>2 DEF LinkInv, WebInv, ConnInv, SendInv, TxInv
<1>5. peer_eof # TRUE
  <2>1. NO_FIN # 1
    BY BoundAssumption
  <2> QED
    BY <1>3, <1>4, <2>1 DEF PeerBounds
<1>6. peer_next <= 1 /\ peer_next \in Int
  BY <1>3, <1>4, <1>5, TypesOfPeer DEF LinkInv, PeerBounds, PeerTypes
<1>7. AnswerLength \in Nat /\ AnswerLength >= 1
  BY WebAssumption DEF AnswerLength
<1>8. ~AnswerComplete
  BY <1>6, <1>7 DEF AnswerComplete
<1> QED
  BY <1>8 DEF LinkInv, ClosingInv

LEMMA AnswerDecided ==
  ASSUME LinkInv, Server, peer_fin = TRUE
  PROVE  AnswerLength' = AnswerLength
<1>1. Place # "request"
  BY RequestOpen
<1>2. ~ (\/ AnswerMessage \/ AnswerFile \/ RefuseFile \/ FinishUpload)
  BY <1>1 DEF AnswerMessage, AnswerFile, RefuseFile, FinishUpload, Place
<1>3. CASE ReadNothing \/ WriteFile
  BY <1>3 DEF ReadNothing, WriteFile, Answered, AnswerLength, SendsFile
<1>4. CASE ~ReadNothing /\ ~WriteFile
  <2>1. UNCHANGED job
    BY <1>2, <1>4
       DEF Server, PollReceived, PollSend, PollSent, ServeNobody, ServeNew,
           BufferExhausted, ServeRead, NoHeader, StartUpload, UploadMissing,
           OtherMethod, StartAnswer, WritePass, WrittenPass, FilePoll,
           Shutdown, Drain, Close
  <2> QED
    BY <2>1 DEF AnswerLength, SendsFile
<1> QED
  BY <1>3, <1>4

LEMMA ClosingServer ==
  ASSUME LinkInv, Server, UNCHANGED <<client, request>>
  PROVE  ClosingInv'
<1>1. UNCHANGED <<peer_next, peer_fin>>
  <2>1. SendTcpPacket \/ Application \/ UNCHANGED vars
    BY ServerSteps DEF LinkInv, WebInv, ConnInv
  <2> QED
    BY <2>1, ServerLeaves
<1>2. peer_fin = TRUE => (AnswerComplete' <=> AnswerComplete)
  BY <1>1, AnswerDecided DEF AnswerComplete
<1>3. Place' \in {"close", "end"} => peer_fin = TRUE
  <2>1. CASE PollReceived \/ PollSend \/ PollSent
    BY <2>1, AroundKeeps DEF Around, LinkInv, WebInv, ClosingInv
  <2>2. CASE Decide
    <3>1. Place' \notin {"close", "end"}
      BY <2>2
         DEF Decide, ServeNobody, BufferExhausted, NoHeader, AnswerMessage,
             AnswerFile, RefuseFile, StartUpload, UploadMissing, FinishUpload,
             OtherMethod, FilePoll, ReadNothing, Goto, Poll, Place
    <3> QED
      BY <3>1
  <2>3. CASE \/ ServeNew \/ ServeRead \/ StartAnswer \/ WritePass \/ WriteFile
             \/ WrittenPass \/ Shutdown
    <3>1. Place' \in {"serve", "request", "write", "written", "drain"}
      BY <2>3, Zenon
         DEF ServeNew, ServeRead, StartAnswer, WritePass, WriteFile,
             WrittenPass, Shutdown, Goto, Poll, Place
    <3> QED
      BY <3>1
  <2>4. CASE Drain
    <3>1. Place' \in {"drain", "close"}
      BY <2>4, Zenon DEF Drain, Goto, Poll, Place
    <3>2. Place' = "close" => peer_fin = TRUE
      BY <2>4, DrainSeesEnd
    <3> QED
      BY <3>1, <3>2
  <2>5. CASE Close
    BY <2>5 DEF Close, Place, LinkInv, ClosingInv
  <2> QED
    BY <2>1, <2>2, <2>3, <2>4, <2>5, Zenon DEF Server, Decide
<1> QED
  BY <1>1, <1>2, <1>3 DEF LinkInv, ClosingInv

(* The server's steps on the link.                                         *)
LEMMA ServerPart ==
  ASSUME LinkInv, Server,
         UNCHANGED <<client, una, unread, toServer, request>>,
         toClient' = EMPTY \/ toClient'.ack = rx_write
  PROVE  BrowserTypes' /\ OpenInv' /\ SlotInv' /\ EarlyInv' /\ HoldsInv'
           /\ ClosingInv'
<1>1. UNCHANGED <<connection_id, peer_next, peer_sent, peer_fin>>
  <2>1. SendTcpPacket \/ Application \/ UNCHANGED vars
    BY ServerSteps DEF LinkInv, WebInv, ConnInv
  <2> QED
    BY <2>1, ServerLeaves
<1>2. BrowserTypes'
  <2>1. rx_write \in Nat
    BY TypesOfConn DEF LinkInv, WebInv, ConnTypes
  <2> QED
    BY <2>1 DEF LinkInv, BrowserTypes
<1>3. OpenInv'
  BY <1>1 DEF LinkInv, OpenInv
<1>4. SlotInv'
  BY <1>1 DEF LinkInv, SlotInv, ClientAck
<1> QED
  BY <1>2, <1>3, <1>4, EarlyServer, HoldsServer, ClosingServer

LEMMA LinkServerPart ==
  ASSUME LinkInv, LinkServer, ~LinkReceive
  PROVE  BrowserTypes' /\ OpenInv' /\ SlotInv' /\ EarlyInv' /\ HoldsInv'
           /\ ClosingInv'
<1>1. CASE LinkReceived
  BY <1>1, ServerPart DEF LinkReceived, PollReceived, Server, Quiet, clientVars
<1>2. CASE LinkSend
  <2>1. toClient' = EMPTY \/ toClient'.ack = rx_write
    BY <1>2 DEF LinkSend, ServerPacket
  <2>2. Server /\ UNCHANGED <<client, una, unread, toServer, request>>
    BY <1>2 DEF LinkSend, Server, PollSend, clientVars
  <2> QED
    BY <2>1, <2>2, ServerPart
<1>3. CASE Quiet /\ Server /\ request' = request /\ UNCHANGED <<toServer, clientVars>>
  BY <1>3, ServerPart DEF Quiet, clientVars
<1> QED
  BY <1>1, <1>2, <1>3 DEF LinkServer

(* ip_stack_poll takes the packet that waits.                              *)
LEMMA SynPart ==
  ASSUME LinkInv, LinkReceive, toServer.kind = "syn",
         HandleSyn(remote, toServer.win, 0, 1)
  PROVE  EarlyInv' /\ OpenInv' /\ HoldsInv' /\ ClosingInv'
<1>1. /\ pc = "rx" /\ toServer # EMPTY /\ state = TCP_LISTEN
      /\ UNCHANGED <<webVars, client, app_id>>
      /\ state' = TCP_SYN_RECEIVED /\ rx_write' = 1
  BY DEF LinkReceive, Polling, HandleSyn, clientVars, appVars
<1>2. Place' = Place
  BY <1>1 DEF webVars, Place
<1>3. connection_id = 0 /\ Place \in {"serve", "request"}
  <2>1. connection_id \in Nat
    BY TypesOfConn DEF LinkInv, WebInv, ConnTypes
  <2> QED
    BY <1>1, <2>1 DEF LinkInv, EarlyInv
<1>4. client # "open"
  BY <1>3 DEF LinkInv, OpenInv
<1>5. peer_fin' # TRUE
  BY Zenon DEF HandleSyn
<1>6. app_id = NONE
  BY <1>1 DEF LinkInv, HoldsInv, Usable
<1>7. EarlyInv' /\ OpenInv'
  BY <1>1, <1>2, <1>3, <1>4 DEF EarlyInv, OpenInv, TCP_SYN_RECEIVED, TCP_LISTEN
<1>8. HoldsInv'
  BY <1>1, <1>2, <1>6 DEF LinkInv, HoldsInv
<1>9. ClosingInv'
  BY <1>2, <1>3, <1>5 DEF ClosingInv
<1> QED
  BY <1>7, <1>8, <1>9

LEMMA SegmentPart ==
  ASSUME LinkInv, LinkReceive, toServer.kind # "syn", HandleSegment(Received)
  PROVE  EarlyInv' /\ OpenInv' /\ HoldsInv' /\ ClosingInv'
<1>1. /\ toServer # EMPTY /\ toServer' = EMPTY
      /\ UNCHANGED <<webVars, client, app_id, connection_id, peer_next,
                     peer_sent, peer_fin>>
      /\ state # TCP_LISTEN
  BY DEF LinkReceive, HandleSegment, clientVars, appVars, ctlVars, peerVars
<1>2. client = "open"
  BY <1>1 DEF LinkInv, SlotInv
<1>3. Place' = Place /\ (AnswerComplete' <=> AnswerComplete)
  BY <1>1 DEF webVars, Place, AnswerComplete, AnswerLength, SendsFile
<1>4. state' \in Live \ {TCP_LISTEN}
  <2>1. state \in Live
    BY DEF LinkInv, HoldsInv, Live
  <2> QED
    BY <1>1, <2>1, WaitingArrives, StateStays
<1>5. EarlyInv' /\ OpenInv'
  BY <1>1, <1>2 DEF LinkInv, EarlyInv, OpenInv
<1>6. HoldsInv'
  BY <1>1, <1>3, <1>4 DEF LinkInv, HoldsInv, Usable, Live
<1>7. ClosingInv'
  BY <1>1, <1>3 DEF LinkInv, ClosingInv
<1> QED
  BY <1>5, <1>6, <1>7

LEMMA ReceivePart ==
  ASSUME LinkInv, LinkReceive
  PROVE  BrowserTypes' /\ OpenInv' /\ SlotInv' /\ EarlyInv' /\ HoldsInv'
           /\ ClosingInv'
<1>1. /\ toClient' = EMPTY /\ toServer' = EMPTY
      /\ UNCHANGED <<client, una, unread>>
      /\ \/ toServer.kind = "syn" /\ HandleSyn(remote, toServer.win, 0, 1)
         \/ toServer.kind # "syn" /\ HandleSegment(Received)
         \/ UNCHANGED vars
      /\ UNCHANGED webVars
  BY DEF LinkReceive, Quiet, clientVars
<1>2. BrowserTypes' /\ SlotInv'
  BY <1>1 DEF LinkInv, BrowserTypes, SlotInv
<1>3. CASE UNCHANGED vars
  <2>1. /\ UNCHANGED <<state, app_id, connection_id, rx_write, peer_next,
                       peer_sent, peer_fin>>
        /\ Place' = Place /\ (AnswerComplete' <=> AnswerComplete)
    BY <1>1, <1>3
       DEF vars, ctlVars, rxVars, appVars, peerVars, webVars, Place,
           AnswerComplete, AnswerLength, SendsFile
  <2>2. EarlyInv' /\ OpenInv'
    BY <1>1, <2>1 DEF LinkInv, EarlyInv, OpenInv
  <2>3. HoldsInv' /\ ClosingInv'
    BY <1>1, <2>1 DEF LinkInv, HoldsInv, Usable, ClosingInv
  <2> QED
    BY <1>2, <2>2, <2>3
<1> QED
  BY <1>1, <1>2, <1>3, SynPart, SegmentPart

(***************************************************************************)
(* The browser's end.                                                      *)
(***************************************************************************)
(* A client only goes forward, and sends nothing after its FIN.            *)
Grows ==
  /\ peer_next >= 0 => peer_next' \in Nat /\ peer_next' >= peer_next
  /\ peer_next = 0 => peer_next' = 0
  /\ peer_sent' \in Nat /\ peer_sent' >= peer_sent
  /\ peer_fin = TRUE => peer_fin' = TRUE /\ peer_sent' = peer_sent

LEMMA ClientGrows ==
  ASSUME WebInv, Client \/ UNCHANGED vars
  PROVE  Grows
<1>1. PeerTypes
  BY TypesOfPeer
<1>2. CASE PeerAccept
  BY <1>1, <1>2 DEF PeerAccept, PeerTypes, Grows
<1>3. CASE PeerReceive \/ PeerReceiveFin
  BY <1>1, <1>3 DEF PeerReceive, PeerReceiveFin, PeerTypes, Grows
<1>4. CASE PeerSend
  BY <1>1, <1>4 DEF PeerSend, PeerTypes, Grows
<1>5. CASE PeerFin
  BY <1>1, <1>5 DEF PeerFin, PeerTypes, Grows
<1>6. CASE UNCHANGED vars
  BY <1>1, <1>6 DEF vars, peerVars, PeerTypes, Grows
<1> QED
  BY <1>2, <1>3, <1>4, <1>5, <1>6 DEF Client

(* So the packet that waits stays possible ...                             *)
LEMMA SlotKept ==
  ASSUME LinkInv, Client \/ UNCHANGED vars, UNCHANGED toServer,
         client = "open" => client' = "open"
  PROVE  SlotInv'
<1> SUFFICES ASSUME toServer # EMPTY, toServer.kind # "syn"
             PROVE  /\ client = "open"
                    /\ toServer.seq + toServer.len <= peer_sent'
                    /\ toServer.fin = TRUE =>
                         peer_fin' = TRUE
                           /\ toServer.seq + toServer.len = peer_sent'
                    /\ ClientAck(toServer.ack)'
  BY DEF LinkInv, SlotInv
<1>1. PeerTypes /\ Grows
  BY TypesOfPeer, ClientGrows DEF LinkInv
<1>2. /\ client = "open" /\ peer_next >= 0
      /\ toServer.seq \in Nat /\ toServer.len \in Nat
      /\ toServer.seq + toServer.len <= peer_sent
      /\ toServer.fin = TRUE =>
           peer_fin = TRUE /\ toServer.seq + toServer.len = peer_sent
      /\ ClientAck(toServer.ack)
  BY DEF LinkInv, SlotInv, OpenInv
<1>3. PICK sent_next \in Nat : peer_sent' = sent_next
  BY <1>1 DEF Grows
<1>4. PICK next \in Nat : peer_next' = next
  BY <1>1, <1>2 DEF Grows
<1>5. toServer.seq + toServer.len <= peer_sent'
  BY <1>1, <1>2, <1>3 DEF Grows, PeerTypes
<1>6. toServer.fin = TRUE =>
        peer_fin' = TRUE /\ toServer.seq + toServer.len = peer_sent'
  BY <1>1, <1>2 DEF Grows
<1>7. ClientAck(toServer.ack)'
  <2>1. CASE peer_next = 0
    <3>1. toServer.ack = 0 /\ peer_next' = 0
      BY <1>1, <1>2, <2>1 DEF Grows, ClientAck
    <3> QED
      BY <3>1 DEF ClientAck
  <2>2. CASE peer_next > 0
    <3>1. toServer.ack \in 1 .. peer_next /\ next >= peer_next
      BY <1>1, <1>2, <1>4, <2>2 DEF Grows, ClientAck
    <3>2. toServer.ack \in 1 .. next /\ next > 0
      BY <1>1, <1>4, <2>2, <3>1 DEF PeerTypes
    <3> QED
      BY <1>4, <3>2 DEF ClientAck
  <2> QED
    BY <1>1, <1>2, <2>1, <2>2 DEF PeerTypes
<1> QED
  BY <1>2, <1>5, <1>6, <1>7

(* ... and so is the one that takes its place.                             *)
LEMMA SlotFilled ==
  ASSUME LinkInv, Client \/ UNCHANGED vars,
         NEW kind \in {"ack", "data", "fin", "window"},
         NEW seq \in Nat \ {0}, NEW len \in 0 .. 1, NEW fin \in BOOLEAN,
         ToServer(kind, seq, len, fin),
         client' = "open", unread' \in 0 .. CLIENT_BUFFER, peer_next' \in Nat,
         seq + len <= peer_sent',
         fin = TRUE => peer_fin' = TRUE /\ seq + len = peer_sent'
  PROVE  /\ SlotInv'
         /\ toServer' = toServer \/ (toServer' # EMPTY => toServer'.kind # "syn")
<1>1. CASE UNCHANGED toServer
  BY <1>1, SlotKept
<1>2. CASE toServer' = [kind |-> kind, seq |-> seq, len |-> len, fin |-> fin,
                        ack |-> peer_next', win |-> CLIENT_BUFFER - unread']
  <2>1. /\ toServer'.kind = kind /\ toServer'.seq = seq /\ toServer'.len = len
        /\ toServer'.fin = fin /\ toServer'.ack = peer_next'
        /\ toServer'.win = CLIENT_BUFFER - unread'
    BY <1>2
  <2>2. CLIENT_BUFFER - unread' \in 0 .. CLIENT_BUFFER
    <3>1. PICK n \in 0 .. CLIENT_BUFFER : unread' = n
      OBVIOUS
    <3> QED
      BY <3>1, LinkAssumption
  <2>3. ClientAck(toServer.ack)'
    <3>1. PICK next \in Nat : peer_next' = next
      OBVIOUS
    <3>2. (next = 0 /\ next = 0) \/ (next > 0 /\ next \in 1 .. next)
      OBVIOUS
    <3> QED
      BY <2>1, <3>1, <3>2 DEF ClientAck
  <2>4. kind # "syn" /\ toServer'.fin \in BOOLEAN
    BY <2>1, Zenon
  <2> QED
    BY <2>1, <2>2, <2>3, <2>4 DEF SlotInv
<1> QED
  BY <1>1, <1>2 DEF ToServer

(* What a step of the browser leaves alone.                                *)
LEMMA BrowserLeaves ==
  ASSUME Browser
  PROVE  /\ UNCHANGED <<webVars, state, connection_id, app_id, rx_write>>
         /\ Place' = Place /\ AnswerLength' = AnswerLength
<1>1. UNCHANGED webVars /\ (Client \/ UNCHANGED vars)
  BY BrowserIsClient
<1>2. UNCHANGED <<state, connection_id, app_id, rx_write>>
  BY <1>1 DEF Client, PeerAccept, PeerReceive, PeerReceiveFin, PeerSend,
       PeerFin, stackVars, vars, ctlVars, rxVars, appVars
<1> QED
  BY <1>1, <1>2 DEF webVars, Place, AnswerLength, SendsFile

LEMMA BrowserHolds ==
  ASSUME LinkInv, Browser
  PROVE  HoldsInv'
  BY BrowserLeaves DEF LinkInv, HoldsInv, Usable

(* A SYN that waits was there before, or the browser is not connected yet. *)
LEMMA BrowserEarly ==
  ASSUME LinkInv, Browser,
         \/ client # "open"
         \/ client' = "open" /\ (toServer' = toServer
                                   \/ (toServer' # EMPTY => toServer'.kind # "syn"))
  PROVE  EarlyInv'
  BY BrowserLeaves DEF LinkInv, EarlyInv

LEMMA BrowserCloses ==
  ASSUME LinkInv, Browser, client = "open" => client' = "open",
         peer_fin' = TRUE => peer_fin = TRUE \/ (client = "open" /\ AnswerComplete)
  PROVE  ClosingInv'
<1>1. WebInv /\ ClosingInv /\ OpenInv
  BY DEF LinkInv
<1>2. Client \/ UNCHANGED vars
  BY BrowserIsClient
<1>3. PeerTypes /\ Grows
  BY <1>1, <1>2, TypesOfPeer, ClientGrows
<1>4. Place' = Place /\ AnswerLength' = AnswerLength
  BY BrowserLeaves
<1>5. peer_fin' = TRUE => client = "open" /\ AnswerComplete
  BY <1>1 DEF ClosingInv
<1>6. client = "open" /\ AnswerComplete => AnswerComplete'
  <2> SUFFICES ASSUME client = "open", AnswerComplete
               PROVE  AnswerComplete'
    OBVIOUS
  <2>1. peer_next >= 0 /\ peer_next \in Nat
    BY <1>1, <1>3 DEF OpenInv, PeerTypes
  <2>2. PICK next \in Nat : peer_next' = next
    BY <1>3, <2>1 DEF Grows
  <2>3. AnswerLength \in Nat
    BY WebAssumption DEF AnswerLength
  <2>4. next >= peer_next /\ peer_next > AnswerLength
    BY <1>3, <2>1, <2>2 DEF Grows, AnswerComplete
  <2>5. next > AnswerLength
    BY <2>1, <2>3, <2>4
  <2> QED
    BY <1>4, <2>2, <2>5 DEF AnswerComplete
<1> QED
  BY <1>1, <1>3, <1>4, <1>5, <1>6 DEF ClosingInv, Grows

(* Numbers that the browser's packets carry.                               *)
LEMMA OpenNumbers ==
  ASSUME LinkInv, client = "open"
  PROVE  /\ peer_sent \in Nat \ {0} /\ peer_next \in Nat
         /\ unread \in 0 .. CLIENT_BUFFER /\ una \in Nat \ {0}
<1>1. PeerTypes
  BY TypesOfPeer DEF LinkInv
<1> QED
  BY <1>1 DEF LinkInv, OpenInv, BrowserTypes, PeerTypes

(* A connected browser does something and sends a packet, or loses it.     *)
LEMMA OpenPart ==
  ASSUME LinkInv, Browser, client = "open", client' = "open",
         NEW kind \in {"ack", "data", "fin", "window"},
         NEW seq \in Nat \ {0}, NEW len \in 0 .. 1, NEW fin \in BOOLEAN,
         ToServer(kind, seq, len, fin),
         toClient' = EMPTY, una' \in Nat \ {0}, unread' \in 0 .. CLIENT_BUFFER,
         peer_sent' <= MaxRx + 1, seq + len <= peer_sent',
         fin = TRUE => peer_fin' = TRUE /\ seq + len = peer_sent',
         peer_fin' = TRUE => peer_fin = TRUE \/ AnswerComplete
  PROVE  BrowserTypes' /\ OpenInv' /\ SlotInv' /\ EarlyInv' /\ HoldsInv'
           /\ ClosingInv'
<1>1. Client \/ UNCHANGED vars
  BY BrowserIsClient
<1>2. Grows /\ peer_next >= 0 /\ connection_id > 0 /\ peer_sent \in Nat \ {0}
  BY <1>1, ClientGrows, OpenNumbers DEF LinkInv, OpenInv
<1>3. PICK next \in Nat : peer_next' = next
  BY <1>2 DEF Grows
<1>4. PICK sent_next \in Nat : peer_sent' = sent_next /\ sent_next >= 1
  BY <1>2 DEF Grows
<1>5. connection_id' = connection_id
  BY BrowserLeaves
<1>6. BrowserTypes'
  BY DEF BrowserTypes
<1>7. OpenInv'
  BY <1>2, <1>3, <1>4, <1>5 DEF OpenInv
<1>8. /\ SlotInv'
      /\ toServer' = toServer \/ (toServer' # EMPTY => toServer'.kind # "syn")
  BY <1>1, <1>3, SlotFilled
<1>9. EarlyInv'
  BY <1>8, BrowserEarly
<1>10. ClosingInv'
  BY BrowserCloses
<1> QED
  BY <1>6, <1>7, <1>8, <1>9, <1>10, BrowserHolds

(* It does something and sends nothing.                                    *)
LEMMA SilentPart ==
  ASSUME LinkInv, Browser, UNCHANGED <<vars, client, toServer>>,
         toClient' = EMPTY, una' \in Nat \ {0}, unread' \in 0 .. CLIENT_BUFFER
  PROVE  BrowserTypes' /\ OpenInv' /\ SlotInv' /\ EarlyInv' /\ HoldsInv'
           /\ ClosingInv'
<1>1. UNCHANGED <<connection_id, peer_next, peer_sent, peer_fin>>
  BY DEF vars, ctlVars, peerVars
<1>2. BrowserTypes' /\ OpenInv'
  BY <1>1 DEF LinkInv, BrowserTypes, OpenInv
<1>3. SlotInv'
  BY SlotKept
<1>4. EarlyInv'
  BY BrowserEarly
<1>5. ClosingInv'
  BY <1>1, BrowserCloses
<1> QED
  BY <1>2, <1>3, <1>4, <1>5, BrowserHolds

LEMMA ReceivedUna ==
  ASSUME LinkInv, ClientReceive
  PROVE  una' \in Nat \ {0}
<1>1. una \in Nat \ {0} /\ toClient.ack \in Nat
  BY DEF ClientReceive, LinkInv, BrowserTypes
<1> QED
  BY <1>1 DEF ClientReceive, Larger

(* The SYN-ACK: the browser has its connection.                            *)
LEMMA EstablishPart ==
  ASSUME LinkInv, ClientReceive, Establish, Reply
  PROVE  BrowserTypes' /\ OpenInv' /\ SlotInv' /\ EarlyInv' /\ HoldsInv'
           /\ ClosingInv'
<1>1. /\ client = "syn" /\ client' = "open" /\ unread' = unread
      /\ toClient' = EMPTY /\ PeerAccept
      /\ UNCHANGED <<peer_sent, peer_fin>>
  BY DEF ClientReceive, Establish, PeerAccept
<1>2. Browser /\ Client
  BY <1>1 DEF Browser, Client
<1>3. PICK s \in syn_acks : peer_next' = s + 1
  BY <1>1 DEF PeerAccept
<1>4. TypeInv /\ connection_id \in Nat /\ ConnTypes
  BY TypesOfConn DEF LinkInv, WebInv, ConnInv, SendInv, ConnTypes
<1>5. s \in {-1, 0} /\ peer_next' \in Nat
  <2>1. syn_acks \subseteq {-1, 0}
    BY <1>4 DEF TypeInv, TypeOK
  <2> QED
    BY <1>3, <2>1
<1>6. connection_id > 0
  <2>1. connection_id # 0
    BY <1>3 DEF LinkInv, WebInv, ConnInv, SendInv, LifeInv
  <2> QED
    BY <1>4, <2>1
<1>7. state # TCP_LISTEN
  BY <1>1, <1>6 DEF LinkInv, EarlyInv
<1>8. peer_sent \in Nat /\ peer_sent >= 1 /\ peer_sent <= MaxRx + 1
  <2>1. RxBounds
    BY <1>7 DEF LinkInv, WebInv, ConnInv, ReceiveInv, RxInv
  <2>2. rx_read \in Nat /\ rx_write \in Nat /\ peer_sent \in Nat
    BY <1>4 DEF TypeInv, TypeOK
  <2> QED
    BY <2>1, <2>2 DEF RxBounds
<1>9. una' \in Nat \ {0} /\ unread' \in 0 .. CLIENT_BUFFER
  BY <1>1, ReceivedUna DEF LinkInv, BrowserTypes
<1>10. BrowserTypes'
  BY <1>1, <1>9 DEF BrowserTypes
<1>11. OpenInv'
  <2>1. PICK next \in Nat : peer_next' = next
    BY <1>5
  <2>2. connection_id' = connection_id /\ peer_sent' = peer_sent
    BY <1>1, <1>2, BrowserLeaves
  <2> QED
    BY <1>6, <1>8, <2>1, <2>2 DEF OpenInv
<1>12. SlotInv'
  <2>1. peer_sent + 0 <= peer_sent' /\ peer_sent \in Nat \ {0}
    BY <1>1, <1>8
  <2>2. FALSE # TRUE
    BY Zenon
  <2>3. ToServer("ack", peer_sent, 0, FALSE)
    BY DEF Reply
  <2>4. "ack" \in {"ack", "data", "fin", "window"} /\ 0 \in 0 .. 1
    OBVIOUS
  <2> QED
    BY <1>1, <1>2, <1>5, <1>9, <2>1, <2>2, <2>3, <2>4, SlotFilled, Zenon
<1>13. EarlyInv'
  BY <1>1, <1>2, BrowserEarly
<1>14. ClosingInv'
  BY <1>1, <1>2, BrowserCloses
<1> QED
  BY <1>2, <1>10, <1>11, <1>12, <1>13, <1>14, BrowserHolds

(* Anything else the server sends is taken, or answered as it is.          *)
LEMMA TakePart ==
  ASSUME LinkInv, ClientReceive, TakeByte \/ TakeFin \/ TakeNothing, Reply
  PROVE  BrowserTypes' /\ OpenInv' /\ SlotInv' /\ EarlyInv' /\ HoldsInv'
           /\ ClosingInv'
<1>1. /\ client = "open" /\ client' = "open" /\ toClient' = EMPTY
      /\ UNCHANGED <<peer_sent, peer_fin>>
  BY DEF ClientReceive, TakeByte, TakeFin, TakeNothing, Expected, PeerReceive,
     PeerReceiveFin, vars, peerVars
<1>2. Browser
  BY DEF Browser
<1>3. /\ peer_sent \in Nat \ {0} /\ peer_sent <= MaxRx + 1
      /\ unread \in 0 .. CLIENT_BUFFER
  BY <1>1, OpenNumbers DEF LinkInv, OpenInv
<1>4. unread' \in 0 .. CLIENT_BUFFER
  BY <1>3, LinkAssumption DEF TakeByte, TakeFin, TakeNothing
<1>5. peer_sent + 0 <= peer_sent' /\ peer_sent' <= MaxRx + 1
  BY <1>1, <1>3
<1>6. FALSE # TRUE
  BY Zenon
<1>7. ToServer("ack", peer_sent, 0, FALSE) /\ una' \in Nat \ {0}
  BY ReceivedUna DEF Reply
<1>8. "ack" \in {"ack", "data", "fin", "window"} /\ 0 \in 0 .. 1
  OBVIOUS
<1> QED
  BY <1>1, <1>2, <1>3, <1>4, <1>5, <1>6, <1>7, <1>8, OpenPart, Zenon

LEMMA ClientReceivePart ==
  ASSUME LinkInv, ClientReceive
  PROVE  BrowserTypes' /\ OpenInv' /\ SlotInv' /\ EarlyInv' /\ HoldsInv'
           /\ ClosingInv'
<1>1. CASE UNCHANGED <<vars, client, unread, toServer>>
  <2>1. Browser /\ toClient' = EMPTY /\ unread' \in 0 .. CLIENT_BUFFER
    BY <1>1 DEF Browser, ClientReceive, LinkInv, BrowserTypes
  <2> QED
    BY <1>1, <2>1, ReceivedUna, SilentPart
<1> QED
  BY <1>1, EstablishPart, TakePart DEF ClientReceive

LEMMA ReadPartOfClient ==
  ASSUME LinkInv, ClientRead
  PROVE  BrowserTypes' /\ OpenInv' /\ SlotInv' /\ EarlyInv' /\ HoldsInv'
           /\ ClosingInv'
<1>1. /\ client = "open" /\ UNCHANGED <<vars, client, una>>
      /\ toClient' = EMPTY /\ unread' = 0
      /\ ToServer("window", peer_sent, 0, FALSE) \/ UNCHANGED toServer
  BY DEF ClientRead, Quiet, allVars
<1>2. Browser
  BY DEF Browser
<1>3. peer_sent \in Nat \ {0} /\ peer_sent <= MaxRx + 1 /\ una \in Nat \ {0}
  BY <1>1, OpenNumbers DEF LinkInv, OpenInv
<1>4. una' \in Nat \ {0} /\ unread' \in 0 .. CLIENT_BUFFER
  BY <1>1, <1>3, LinkAssumption
<1>5. CASE ToServer("window", peer_sent, 0, FALSE)
  <2>1. UNCHANGED <<peer_sent, peer_fin>>
    BY <1>1 DEF vars, peerVars
  <2>2. peer_sent + 0 <= peer_sent' /\ peer_sent' <= MaxRx + 1
    BY <1>3, <2>1
  <2>3. FALSE # TRUE
    BY Zenon
  <2>4. "window" \in {"ack", "data", "fin", "window"} /\ 0 \in 0 .. 1
    OBVIOUS
  <2> QED
    BY <1>1, <1>2, <1>3, <1>4, <1>5, <2>1, <2>2, <2>3, <2>4, OpenPart, Zenon
<1> QED
  BY <1>1, <1>2, <1>4, <1>5, SilentPart

LEMMA ConnectPart ==
  ASSUME LinkInv, Connect
  PROVE  BrowserTypes' /\ OpenInv' /\ SlotInv' /\ EarlyInv' /\ HoldsInv'
           /\ ClosingInv'
<1>1. /\ client # "open" /\ client' = "syn" /\ toClient' = EMPTY
      /\ UNCHANGED <<vars, una, unread>>
      /\ ToServer("syn", 0, 0, FALSE)
  BY DEF Connect, Quiet, allVars
<1>2. Browser
  BY DEF Browser
<1>3. unread \in 0 .. CLIENT_BUFFER /\ una \in Nat \ {0}
  BY DEF LinkInv, BrowserTypes
<1>4. BrowserTypes' /\ OpenInv'
  BY <1>1, <1>3 DEF BrowserTypes, OpenInv
<1>5. SlotInv'
  <2>1. CASE UNCHANGED toServer
    BY <1>1, <2>1, SlotKept
  <2>2. CASE toServer' = [kind |-> "syn", seq |-> 0, len |-> 0, fin |-> FALSE,
                          ack |-> peer_next', win |-> CLIENT_BUFFER - unread']
    <3>1. toServer'.kind = "syn" /\ toServer'.win = CLIENT_BUFFER - unread
      BY <1>1, <2>2
    <3>2. CLIENT_BUFFER - unread \in 0 .. CLIENT_BUFFER
      BY <1>3, LinkAssumption
    <3> QED
      BY <3>1, <3>2 DEF SlotInv
  <2> QED
    BY <1>1, <2>1, <2>2 DEF ToServer
<1>6. EarlyInv'
  BY <1>1, <1>2, BrowserEarly
<1>7. ClosingInv'
  BY <1>1, <1>2, BrowserCloses DEF vars, peerVars
<1> QED
  BY <1>2, <1>4, <1>5, <1>6, <1>7, BrowserHolds

LEMMA RequestPart ==
  ASSUME LinkInv, ClientRequest \/ ClientAgain
  PROVE  BrowserTypes' /\ OpenInv' /\ SlotInv' /\ EarlyInv' /\ HoldsInv'
           /\ ClosingInv'
<1>1. /\ client = "open" /\ toClient' = EMPTY
      /\ UNCHANGED <<client, una, unread, peer_fin>>
  BY DEF ClientRequest, ClientAgain, PeerSend, Quiet, allVars, vars, peerVars,
     clientVars
<1>2. Browser
  BY DEF Browser
<1>3. /\ peer_sent \in Nat \ {0} /\ peer_sent <= MaxRx + 1
      /\ una \in Nat \ {0} /\ unread \in 0 .. CLIENT_BUFFER
  BY <1>1, OpenNumbers DEF LinkInv, OpenInv
<1>4. FALSE # TRUE
  BY Zenon
<1>5. "data" \in {"ack", "data", "fin", "window"} /\ 1 \in 0 .. 1
  OBVIOUS
<1>6. una' \in Nat \ {0} /\ unread' \in 0 .. CLIENT_BUFFER
  BY <1>1, <1>3
<1>7. CASE ClientRequest
  <2>1. peer_sent + 1 = peer_sent' /\ peer_sent <= MaxRx
    BY <1>7 DEF ClientRequest, PeerSend
  <2>2. peer_sent + 1 <= peer_sent' /\ peer_sent' <= MaxRx + 1
    BY <1>3, <2>1, BoundAssumption
  <2>3. ToServer("data", peer_sent, 1, FALSE)
    BY <1>7 DEF ClientRequest
  <2> QED
    BY <1>1, <1>2, <1>3, <1>4, <1>5, <1>6, <2>2, <2>3, OpenPart, Zenon
<1>8. CASE ClientAgain
  <2>1. peer_sent' = peer_sent /\ una < peer_sent
    BY <1>8 DEF ClientAgain, allVars, vars, peerVars
  <2>2. una + 1 <= peer_sent' /\ peer_sent' <= MaxRx + 1
    BY <1>3, <2>1
  <2>3. ToServer("data", una, 1, FALSE)
    BY <1>8 DEF ClientAgain
  <2> QED
    BY <1>1, <1>2, <1>3, <1>4, <1>5, <1>6, <2>2, <2>3, OpenPart, Zenon
<1> QED
  BY <1>7, <1>8

LEMMA ClosePartOfClient ==
  ASSUME LinkInv, ClientClose
  PROVE  BrowserTypes' /\ OpenInv' /\ SlotInv' /\ EarlyInv' /\ HoldsInv'
           /\ ClosingInv'
<1>1. /\ client = "open" /\ toClient' = EMPTY /\ AnswerComplete
      /\ UNCHANGED <<client, una, unread>>
      /\ ToServer("fin", peer_sent, 0, TRUE)
  BY DEF ClientClose, Quiet, clientVars
<1>2. Browser
  BY DEF Browser
<1>3. peer_fin' = TRUE /\ peer_sent' = peer_sent
  <2>1. peer_fin \in BOOLEAN
    BY TypesOfPeer, Zenon DEF LinkInv, PeerTypes
  <2> QED
    BY <2>1, Zenon DEF ClientClose, PeerFin, vars, peerVars
<1>4. /\ peer_sent \in Nat \ {0} /\ peer_sent <= MaxRx + 1
      /\ una \in Nat \ {0} /\ unread \in 0 .. CLIENT_BUFFER
  BY <1>1, OpenNumbers DEF LinkInv, OpenInv
<1>5. peer_sent + 0 = peer_sent' /\ peer_sent + 0 <= peer_sent'
        /\ peer_sent' <= MaxRx + 1
  BY <1>3, <1>4
<1>6. una' \in Nat \ {0} /\ unread' \in 0 .. CLIENT_BUFFER
  BY <1>1, <1>4
<1>7. "fin" \in {"ack", "data", "fin", "window"} /\ 0 \in 0 .. 1
  OBVIOUS
<1> QED
  BY <1>1, <1>2, <1>3, <1>4, <1>5, <1>6, <1>7, OpenPart, Zenon

(***************************************************************************)
(* The theorems.                                                           *)
(***************************************************************************)
(* No step of the server, the browser, the link or the clock breaks the    *)
(* invariant, and each is a step of WebServer or none.                     *)
THEOREM LinkStep == LinkInv /\ [LinkNext]_allLinkVars => LinkInv' /\ [WebNext]_allVars
<1> SUFFICES ASSUME LinkInv, [LinkNext]_allLinkVars
             PROVE  LinkInv' /\ [WebNext]_allVars
  OBVIOUS
<1>1. [WebNext]_allVars
  BY LinkStepIsWebStep
<1>2. WebInv'
  BY <1>1, WebStep DEF LinkInv
<1> DEFINE Rest == BrowserTypes /\ OpenInv /\ SlotInv /\ EarlyInv /\ HoldsInv
                     /\ ClosingInv
<1>3. CASE LinkServer
  <2>1. Rest'
    BY <1>3, ReceivePart, LinkServerPart
  <2> QED
    BY <1>1, <1>2, <2>1 DEF LinkInv
<1>4. CASE Browser
  <2>1. Rest'
    BY <1>4, ClientReceivePart, ReadPartOfClient, ConnectPart, RequestPart,
       ClosePartOfClient DEF Browser
  <2> QED
    BY <1>1, <1>2, <2>1 DEF LinkInv
<1>5. CASE Clock \/ UNCHANGED allLinkVars
  <2>1. UNCHANGED <<webVars, linkVars, state, app_id, connection_id, rx_write,
                    peer_next, peer_sent, peer_fin>>
    BY <1>5 DEF Clock, Tick, allLinkVars, allVars, vars, ctlVars, rxVars,
         appVars, peerVars
  <2>2. /\ UNCHANGED <<client, una, unread, toServer, toClient>>
        /\ Place' = Place /\ (AnswerComplete' <=> AnswerComplete)
    BY <2>1 DEF webVars, linkVars, clientVars, Place, AnswerComplete,
         AnswerLength, SendsFile
  <2>3. BrowserTypes' /\ OpenInv' /\ SlotInv'
    BY <2>1, <2>2 DEF LinkInv, BrowserTypes, OpenInv, SlotInv, ClientAck
  <2>4. EarlyInv' /\ HoldsInv' /\ ClosingInv'
    BY <2>1, <2>2 DEF LinkInv, EarlyInv, HoldsInv, Usable, ClosingInv
  <2> QED
    BY <1>1, <1>2, <2>3, <2>4 DEF LinkInv
<1> QED
  BY <1>3, <1>4, <1>5 DEF LinkNext

(* The inductive invariant of the link holds of every behaviour.           *)
THEOREM LinkInvariant == LinkSpec => []LinkInv
  BY InitLinkInv, LinkStep, PTL DEF LinkSpec

(* What travels on the link is what WebServer lets arrive: the server and  *)
(* this browser are a behaviour of the server among any clients, so that   *)
(* every theorem about the server and the connection holds on the link.    *)
THEOREM LinkRefinesServer == LinkSpec => WebSpec
<1>1. LinkInit => WebInit
  BY DEF LinkInit
<1> QED
  BY <1>1, LinkInvariant, LinkStep, PTL DEF LinkSpec, WebSpec

(* When the program ends, saying that the file or the upload is complete,  *)
(* the browser has the whole answer, the file or a message, though         *)
(* close_tcp drops what is not acknowledged, since shutdown_close reads    *)
(* the browser's FIN first.                                                *)
THEOREM CompleteIsTrue == LinkSpec => []CompleteMeansArrived
<1>1. LinkInv => CompleteMeansArrived
  BY DEF LinkInv, ClosingInv, CompleteMeansArrived, Place
<1> QED
  BY <1>1, LinkInvariant, PTL
=============================================================================
