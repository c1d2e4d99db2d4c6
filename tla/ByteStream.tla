----------------------------- MODULE ByteStream -----------------------------
(***************************************************************************)
(* What the connection of src/ip_stack.c promises to the application and   *)
(* to the client: one stream of bytes in each direction, one connection    *)
(* at a time.  Nothing of packets, windows, rings, timers or positions is  *)
(* visible here.  TcpStream shows that TcpConnection implements it.        *)
(***************************************************************************)
EXTENDS Integers, SequencesExt

VARIABLES
  id,       \* number of the current connection
  open,     \* there is one
  reader,   \* the connection the application holds, -1 for none
  up,       \* bytes the client has sent on the current connection
  upEnd,    \* the client has closed its direction
  read,     \* bytes the application has read of the connection it holds
  readEnd,  \* it is told that the stream ends there
  down,     \* bytes the application has written
  downEnd,  \* the application has closed its direction
  got,      \* bytes the client has received
  gotEnd    \* it has seen the end of the stream

clientSide == <<up, upEnd, got, gotEnd>>
appSide    == <<reader, read, readEnd, down, downEnd>>
vars       == <<id, open, clientSide, appSide>>

Holds == open /\ reader = id

(* A connection never takes the place of one that still exists.            *)
Connect ==
  /\ ~open
  /\ open' = TRUE /\ id' = id + 1
  /\ up' = <<>> /\ got' = <<>> /\ down' = <<>>
  /\ upEnd' = FALSE /\ gotEnd' = FALSE /\ downEnd' = FALSE
  /\ UNCHANGED <<reader, read, readEnd>>

Accept ==
  /\ open /\ reader = -1
  /\ reader' = id
  /\ read' = <<>>
  /\ readEnd' = (readEnd' /\ upEnd /\ up = <<>>)
  /\ UNCHANGED <<id, open, clientSide, down, downEnd>>

(* The client's end may outlive the server's.                              *)
ClientSend ==
  /\ id > 0 /\ ~upEnd
  /\ IsStrictPrefix(up, up')
  /\ UNCHANGED <<id, open, upEnd, got, gotEnd, appSide>>

ClientClose ==
  /\ id > 0 /\ ~upEnd
  /\ upEnd' = TRUE
  /\ UNCHANGED <<id, open, up, got, gotEnd, appSide>>

(* The application reads on where it stopped, and only what was sent.      *)
Read ==
  /\ Holds /\ ~readEnd
  /\ IsStrictPrefix(read, read') /\ IsPrefix(read', up)
  /\ readEnd' = (readEnd' /\ upEnd /\ read' = up)
  /\ UNCHANGED <<id, open, clientSide, reader, down, downEnd>>

ReadEnds ==
  /\ Holds
  /\ upEnd /\ read = up
  /\ readEnd' = TRUE
  /\ UNCHANGED <<id, open, clientSide, reader, read, down, downEnd>>

Write ==
  /\ Holds /\ ~downEnd
  /\ IsStrictPrefix(down, down')
  /\ UNCHANGED <<id, open, clientSide, reader, read, readEnd, downEnd>>

Shutdown ==
  /\ Holds
  /\ downEnd' = TRUE
  /\ UNCHANGED <<id, open, clientSide, reader, read, readEnd, down>>

(* The client receives on where it stopped, and only what was written.     *)
Receive ==
  /\ id > 0 /\ ~gotEnd
  /\ IsStrictPrefix(got, got') /\ IsPrefix(got', down)
  /\ UNCHANGED <<id, open, up, upEnd, gotEnd, appSide>>

(* It sees the end only of a stream that was closed, after all of it.      *)
ReceiveEnd ==
  /\ id > 0 /\ ~gotEnd
  /\ downEnd /\ got = down
  /\ gotEnd' = TRUE
  /\ UNCHANGED <<id, open, up, upEnd, got, appSide>>

(* Reset or closed: the stack lets go of the connection ...                *)
Free ==
  /\ open
  /\ open' = FALSE /\ readEnd' = FALSE
  /\ UNCHANGED <<id, clientSide, reader, read, down, downEnd>>

(* ... and the application of the number it holds.                         *)
Close ==
  /\ reader # -1
  /\ reader' = -1 /\ readEnd' = FALSE
  /\ open' = (open /\ reader # id)
  /\ UNCHANGED <<id, clientSide, read, down, downEnd>>

Init ==
  /\ id = 0 /\ open = FALSE /\ reader = -1
  /\ up = <<>> /\ read = <<>> /\ down = <<>> /\ got = <<>>
  /\ upEnd = FALSE /\ readEnd = FALSE /\ downEnd = FALSE /\ gotEnd = FALSE

Next ==
  \/ Connect \/ Accept \/ Free \/ Close
  \/ ClientSend \/ ClientClose \/ Receive \/ ReceiveEnd
  \/ Read \/ ReadEnds \/ Write \/ Shutdown

Spec == Init /\ [][Next]_vars
=============================================================================
