----------------------------- MODULE EthDriver -----------------------------
(***************************************************************************)
(* The ENC28J60 driver of src/eth_driver.c over the register banks of      *)
(* src/gpio_spi.c, with the chip receiving and transmitting on its own.    *)
(*                                                                         *)
(* The driver is one thread.  A call is the sequence "todo" of what is     *)
(* left of it, one entry for each access to the chip and for each          *)
(* push_bank and pop_bank; the chip may act between any two of them.       *)
(*                                                                         *)
(* The receive ring holds cells 0 .. RX_END.  The chip stores a frame as   *)
(* the address of the next frame, a status, and the bytes.  A cell is the  *)
(* pair <<frame, offset>>; the address in the first cells of frame f is    *)
(* next_of[f].  Sizes include the byte that aligns the next frame.         *)
(***************************************************************************)
EXTENDS Integers, Sequences, SequencesExt

CONSTANTS
  RX_END,           \* last cell of the receive ring
  NEXT_LENGTH,      \* cells of the next-frame address (2)
  STATUS_LENGTH,    \* cells of the status             (4)
  PACKET_MAX_SIZE,  \* size of an eth_packet buffer    (2048)
  BANK_STACK_SIZE,  \* entries of the bank stack       (128)
  MAX_EPKTCNT,      \* frames the chip counts          (255)
  ERXRDPT_RESET,    \* the chip's ERXRDPT after reset
  Sizes,            \* sizes of the frames on the wire
  PacketLengths,    \* lengths of the packets given to send_packet
  MaxFrames,        \* bound: frames received
  MaxSends          \* bound: packets sent

ASSUME DriverAssumption ==
  /\ RX_END \in Nat /\ NEXT_LENGTH \in Nat \ {0} /\ STATUS_LENGTH \in Nat \ {0}
  /\ NEXT_LENGTH + STATUS_LENGTH < RX_END
  /\ PACKET_MAX_SIZE \in Nat \ {0} /\ BANK_STACK_SIZE \in Nat \ {0}
  /\ MAX_EPKTCNT \in Nat \ {0} /\ ERXRDPT_RESET \in 0 .. RX_END
  /\ Sizes \subseteq Nat \ {0} /\ PacketLengths \subseteq Nat
  /\ MaxFrames \in Nat /\ MaxSends \in Nat

N      == RX_END + 1
HEADER == NEXT_LENGTH + STATUS_LENGTH

VARIABLES
  (* the driver *)
  mode,          \* "reset", "up", "failed" or "exit"
  todo,          \* what is left of the call under way
  current_bank, bank_stack,
  read_pointer, next_packet, size, buffer,
  (* the chip *)
  board,         \* "present", or what an absent one reads as
  bank,          \* ECON1.BSEL
  memory, next_of, erdpt, erxrdpt, erxwrpt, epktcnt, rxen,
  tx_memory, txrts,
  (* history *)
  frames,        \* sizes of the frames the chip accepted, in order
  got,           \* what get_packet returned for each frame, in order
  sends,         \* the packets given to send_packet, in order
  transmitted    \* which of them the chip put on the wire, in order

bankVars == <<current_bank, bank_stack, bank>>
readVars == <<read_pointer, next_packet, size, buffer>>
ringVars == <<memory, next_of, erxwrpt, frames>>
txVars   == <<tx_memory, txrts, sends, transmitted>>
ethVars  == <<mode, todo, bankVars, readVars, board, ringVars, erdpt, erxrdpt,
              epktcnt, rxen, txVars, got>>

(***************************************************************************)
(* The calls, as what they do to the chip in order.                        *)
(***************************************************************************)
ANY == 4    \* ECON1, ECON2, ESTAT and the buffer memory are in every bank

Push(b)    == [do |-> "push", in |-> b]
Pop        == [do |-> "pop", in |-> ANY]
Use(r, b)  == [do |-> r, in |-> b]

(* push_bank, some accesses and pop_bank.                                  *)
InBank(b, accesses) == << Push(b) >> \o accesses \o << Pop >>

TestPresent ==
  InBank(0, << Use("clear", ANY), Use("expect 0", ANY) >>)
    \o InBank(0, << Use("set", ANY), Use("expect 3", ANY) >>)

(* init_gpio_spi, soft_reset and test_present.                             *)
FindBoard ==
  << Use("gpio", ANY), Use("reset", ANY) >> \o TestPresent

SetRxRange == InBank(0, << Use("ERXST", 0), Use("ERXND", 0) >>)

WaitBusy == InBank(3, << Use("MISTAT", 3) >>)

WritePhyReg == InBank(2, << Use("MIREGADR", 2), Use("MIWR", 2) >>) \o WaitBusy

SetReceiveEnable ==
  << Use("disable", ANY) >> \o InBank(2, << Use("MACON", 2) >>)
    \o InBank(3, << Use("MAADR", 3) >>) \o WritePhyReg \o << Use("enable", ANY) >>

InitEthernet ==
  FindBoard \o SetRxRange \o << Use("EWRPT", 0), Use("ERDPT", 0), Use("ESTAT", ANY) >>
    \o SetReceiveEnable

FaultBankGetPacket ==   \* faulty: the bank of EPKTCNT is kept for too long
  << Push(1), Use("count", 1) >> \o InBank(0, << Use("pointer", 0) >>)
    \o << Use("next", ANY), Use("status", ANY), Use("data", ANY), Pop >>
    \o InBank(0, << Use("free", 0) >>) \o << Use("decrement", ANY) >>

FaultGetPacket ==    \* faulty: the frame is freed before it is copied
  InBank(1, << Use("count", 1) >>) \o InBank(0, << Use("pointer", 0) >>)
    \o << Use("next", ANY), Use("status", ANY) >> \o InBank(0, << Use("free", 0) >>)
    \o << Use("data", ANY), Use("decrement", ANY) >>

GetPacket ==
  InBank(1, << Use("count", 1) >>) \o InBank(0, << Use("pointer", 0) >>)
    \o << Use("next", ANY), Use("status", ANY), Use("data", ANY) >>
    \o InBank(0, << Use("free", 0) >>) \o << Use("decrement", ANY) >>

FaultSendPacket ==   \* faulty: the end of the transmission is not awaited
  << Use("EWRPT", 0), Use("load", ANY) >>
    \o InBank(0, << Use("ETXST", 0), Use("ETXND", 0) >>) \o << Use("transmit", ANY) >>

SendPacket ==
  << Use("EWRPT", 0), Use("load", ANY) >>
    \o InBank(0, << Use("ETXST", 0), Use("ETXND", 0) >>)
    \o << Use("transmit", ANY), Use("wait", ANY) >>

CloseEthernet == InBank(2, << Use("MACON", 2) >>) \o << Use("disable", ANY) >>

Doing(what) == mode # "exit" /\ todo # <<>> /\ Head(todo).do = what
Done        == todo' = Tail(todo)

(***************************************************************************)
(* The bank stack.  Both operations end the program at the stack's limits. *)
(***************************************************************************)
SetBank(b) == current_bank' = b /\ bank' = b

otherVars == <<readVars, board, ringVars, erdpt, erxrdpt, epktcnt, rxen,
               txVars, got>>

Exit == mode' = "exit" /\ todo' = <<>> /\ UNCHANGED <<bankVars, otherVars>>

PushBank ==
  /\ Doing("push")
  /\ IF Len(bank_stack) >= BANK_STACK_SIZE
     THEN Exit
     ELSE /\ bank_stack' = Append(bank_stack, current_bank)
          /\ SetBank(Head(todo).in)
          /\ Done
          /\ UNCHANGED <<mode, otherVars>>

BankBelow == Last(bank_stack)

PopBank ==
  /\ Doing("pop")
  /\ \/ bank_stack = <<>> /\ Exit
     \/ /\ bank_stack # <<>>
        /\ SetBank(BankBelow)
        /\ bank_stack' = Front(bank_stack)
        /\ Done
        /\ UNCHANGED <<mode, otherVars>>

(***************************************************************************)
(* init_ethernet                                                           *)
(***************************************************************************)
(* clear_control_register and set_control_register on ECON1 also move the  *)
(* bank, past what current_bank says.                                      *)
TestWrite ==
  /\ Doing("clear") \/ Doing("set")
  /\ bank' = IF Doing("clear") THEN 0 ELSE 3
  /\ Done
  /\ UNCHANGED <<mode, current_bank, bank_stack, otherVars>>

ReadsAs(v) == board = "present" \/ (board = "zeros" /\ v = 0) \/ (board = "ones" /\ v = 3)

(* The failing branch of the first check pops once more.                   *)
TestRead ==
  /\ Doing("expect 0") \/ Doing("expect 3")
  /\ todo' = IF ReadsAs(IF Doing("expect 0") THEN 0 ELSE 3) THEN Tail(todo)
             ELSE IF Doing("expect 0") THEN << Pop, Pop, Use("absent", ANY) >>
             ELSE << Pop, Use("absent", ANY) >>
  /\ UNCHANGED <<mode, bankVars, otherVars>>

(* init_ethernet returns 0: no pins, no board, no stable clock in 100      *)
(* tries.                                                                  *)
InitFails ==
  /\ Doing("gpio") \/ Doing("absent") \/ Doing("ESTAT")
  /\ mode' = "failed" /\ todo' = <<>>
  /\ UNCHANGED <<bankVars, otherVars>>

GoOn ==
  /\ Doing("gpio") \/ Doing("ESTAT")
  /\ Done
  /\ UNCHANGED <<mode, bankVars, otherVars>>

(* Setting ERXST moves the chip's write pointer there; ERXRDPT is not set. *)
SetRxStart ==
  /\ Doing("ERXST")
  /\ erxwrpt' = 0
  /\ Done
  /\ UNCHANGED <<mode, bankVars, readVars, board, memory, next_of, frames,
                 erdpt, erxrdpt, epktcnt, rxen, txVars, got>>

SetReadPointer ==
  /\ Doing("ERDPT")
  /\ erdpt' = 0
  /\ Done
  /\ UNCHANGED <<mode, bankVars, readVars, board, ringVars, erxrdpt, epktcnt,
                 rxen, txVars, got>>

Enable ==
  /\ Doing("enable") \/ Doing("disable")
  /\ rxen' = Doing("enable")
  /\ mode' = IF Doing("enable") THEN "up" ELSE mode
  /\ Done
  /\ UNCHANGED <<bankVars, readVars, board, ringVars, erdpt, erxrdpt, epktcnt,
                 txVars, got>>

(* Registers whose contents the model does not keep.                       *)
OtherRegister ==
  /\ \E r \in {"reset", "ERXND", "EWRPT", "MACON", "MAADR", "MIREGADR",
               "MIWR", "MISTAT", "ETXST", "ETXND"} : Doing(r)
  /\ Done
  /\ UNCHANGED <<mode, bankVars, otherVars>>

(***************************************************************************)
(* get_packet                                                              *)
(***************************************************************************)
ReadCount ==
  /\ Doing("count")
  /\ todo' = IF epktcnt = 0 THEN << Pop >> ELSE Tail(todo)
  /\ UNCHANGED <<mode, bankVars, otherVars>>

ReadPointer ==
  /\ Doing("pointer")
  /\ read_pointer' = erdpt
  /\ Done
  /\ UNCHANGED <<mode, bankVars, next_packet, size, buffer, board, ringVars,
                 erdpt, erxrdpt, epktcnt, rxen, txVars, got>>

(* The chip's read pointer goes round at the end of the ring.              *)
Advance(n) == erdpt' = (erdpt + n) % N

(* What is not the first cell of a frame is no address.                    *)
AddressAt(p) == IF memory[p][2] = 0 THEN {next_of[memory[p][1]]} ELSE 0 .. RX_END

SizeOf(next) ==
  LET s == next - read_pointer - HEADER IN IF s < 0 THEN s + RX_END + 1 ELSE s

ReadNext ==
  /\ Doing("next")
  /\ next_packet' \in AddressAt(erdpt)
  /\ size' = SizeOf(next_packet')
  /\ buffer' = <<>>
  /\ Advance(NEXT_LENGTH)
  /\ Done
  /\ UNCHANGED <<mode, bankVars, read_pointer, board, ringVars, erxrdpt,
                 epktcnt, rxen, txVars, got>>

ReadStatus ==
  /\ Doing("status")
  /\ Advance(STATUS_LENGTH)
  /\ Done
  /\ UNCHANGED <<mode, bankVars, readVars, board, ringVars, erxrdpt, epktcnt,
                 rxen, txVars, got>>

(* buffer_read takes one byte after the other.                             *)
ReadData ==
  /\ Doing("data")
  /\ size <= PACKET_MAX_SIZE /\ Len(buffer) < size
  /\ buffer' = Append(buffer, memory[erdpt])
  /\ Advance(1)
  /\ UNCHANGED <<mode, todo, bankVars, read_pointer, next_packet, size, board,
                 ringVars, erxrdpt, epktcnt, rxen, txVars, got>>

ReadEnd ==
  /\ Doing("data")
  /\ size <= PACKET_MAX_SIZE /\ Len(buffer) >= size
  /\ Done
  /\ UNCHANGED <<mode, bankVars, otherVars>>

FaultAfterSkip == erdpt          \* faulty: the read pointer is left behind

AfterSkip == next_packet

(* A frame too large is not copied: ERDPT is written instead, in the bank  *)
(* the calls before have left.                                             *)
Oversize ==
  /\ Doing("data")
  /\ size > PACKET_MAX_SIZE
  /\ todo' = << Use("skip", 0) >> \o Tail(todo)
  /\ UNCHANGED <<mode, bankVars, otherVars>>

SkipData ==
  /\ Doing("skip")
  /\ erdpt' = AfterSkip
  /\ Done
  /\ UNCHANGED <<mode, bankVars, readVars, board, ringVars, erxrdpt, epktcnt,
                 rxen, txVars, got>>

FreeFrame ==
  /\ Doing("free")
  /\ erxrdpt' = next_packet
  /\ Done
  /\ UNCHANGED <<mode, bankVars, readVars, board, ringVars, erdpt, epktcnt,
                 rxen, txVars, got>>

(* Nothing is returned of a frame that exceeds the buffer.                 *)
REFUSED == <<>>

DecrementCount ==
  /\ Doing("decrement")
  /\ epktcnt' = epktcnt - 1
  /\ got' = Append(got, IF size > PACKET_MAX_SIZE THEN REFUSED ELSE buffer)
  /\ Done
  /\ UNCHANGED <<mode, bankVars, readVars, board, ringVars, erdpt, erxrdpt,
                 rxen, txVars>>

(***************************************************************************)
(* send_packet                                                             *)
(***************************************************************************)
LoadPacket ==
  /\ Doing("load")
  /\ tx_memory' = Len(sends)
  /\ Done
  /\ UNCHANGED <<mode, bankVars, readVars, board, ringVars, erdpt, erxrdpt,
                 epktcnt, rxen, txrts, sends, transmitted, got>>

RequestTransmit ==
  /\ Doing("transmit")
  /\ txrts' = TRUE
  /\ Done
  /\ UNCHANGED <<mode, bankVars, readVars, board, ringVars, erdpt, erxrdpt,
                 epktcnt, rxen, tx_memory, sends, transmitted, got>>

AwaitTransmit ==
  /\ Doing("wait")
  /\ ~txrts
  /\ Done
  /\ UNCHANGED <<mode, bankVars, otherVars>>

(***************************************************************************)
(* The chip.                                                               *)
(***************************************************************************)
Free == IF erxwrpt >= erxrdpt THEN N - 1 - (erxwrpt - erxrdpt)
        ELSE erxrdpt - erxwrpt - 1

(* A frame that does not fit is dropped, which changes nothing.            *)
ChipReceive(s) ==
  LET f == Len(frames) + 1
  IN  /\ rxen /\ board = "present"
      /\ f <= MaxFrames
      /\ epktcnt < MAX_EPKTCNT
      /\ HEADER + s <= Free
      /\ frames' = Append(frames, s)
      /\ memory' = [p \in 0 .. RX_END |->
                      LET k == (p - erxwrpt) % N
                      IN  IF k < HEADER + s THEN <<f, k>> ELSE memory[p]]
      /\ erxwrpt' = (erxwrpt + HEADER + s) % N
      /\ next_of' = Append(next_of, erxwrpt')
      /\ epktcnt' = epktcnt + 1
      /\ UNCHANGED <<mode, todo, bankVars, readVars, board, erdpt, erxrdpt,
                     rxen, txVars, got>>

ChipTransmit ==
  /\ txrts
  /\ txrts' = FALSE
  /\ transmitted' = Append(transmitted, tx_memory)
  /\ UNCHANGED <<mode, todo, bankVars, readVars, board, ringVars, erdpt,
                 erxrdpt, epktcnt, rxen, tx_memory, sends, got>>

(***************************************************************************)
(* A packet has length -1 from new_eth_packet on until it is built.        *)
Packets ==
  [type : {"ETH_NULL", "ETH_IP_PACKET"}, length : PacketLengths \cup {-1}]

(* send_packet returns 0 and leaves the chip alone.                        *)
Refused(p) ==
  p.type = "ETH_NULL" \/ p.length < 0 \/ p.length > PACKET_MAX_SIZE

CallSend ==
  /\ Len(sends) < MaxSends
  /\ \E p \in Packets : /\ sends' = Append(sends, p)
                        /\ todo' = IF Refused(p) THEN <<>> ELSE SendPacket

Call ==
  /\ mode = "up" /\ todo = <<>> /\ rxen
  /\ \/ todo' \in {GetPacket, CloseEthernet} /\ sends' = sends
     \/ CallSend
  /\ UNCHANGED <<mode, bankVars, readVars, board, ringVars, erdpt, erxrdpt,
                 epktcnt, rxen, tx_memory, txrts, transmitted, got>>

(* As soft_reset finds and leaves the chip.                                *)
EthInit ==
  /\ mode = "reset" /\ todo = InitEthernet
  /\ current_bank = 0 /\ bank_stack = <<>> /\ bank = 0
  /\ read_pointer = 0 /\ next_packet = 0 /\ size = 0 /\ buffer = <<>>
  /\ board \in {"present", "zeros", "ones"}
  /\ memory = [p \in 0 .. RX_END |-> <<0, -1>>] /\ next_of = <<>>
  /\ erdpt = 0 /\ erxrdpt = ERXRDPT_RESET /\ erxwrpt = 0
  /\ epktcnt = 0 /\ rxen = FALSE
  /\ tx_memory = 0 /\ txrts = FALSE
  /\ frames = <<>> /\ got = <<>>
  /\ sends = <<>> /\ transmitted = <<>>

Driver ==
  \/ PushBank \/ PopBank \/ TestWrite \/ TestRead \/ InitFails \/ GoOn
  \/ SetRxStart \/ SetReadPointer \/ Enable \/ OtherRegister
  \/ ReadCount \/ ReadPointer \/ ReadNext \/ ReadStatus \/ ReadData \/ ReadEnd
  \/ Oversize \/ SkipData \/ FreeFrame \/ DecrementCount
  \/ LoadPacket \/ RequestTransmit \/ AwaitTransmit

Chip == (\E s \in Sizes : ChipReceive(s)) \/ ChipTransmit

EthNext == Call \/ Driver \/ Chip

EthSpec == EthInit /\ [][EthNext]_ethVars

(***************************************************************************)
(* Properties.                                                             *)
(***************************************************************************)
(* Every access to a register happens while the bank the register is in is *)
(* selected, also those the driver makes without push_bank, trusting that  *)
(* the calls before it have left bank 0 behind.                            *)
AccessInBank ==
  todo # <<>> /\ Head(todo).do # "push" => Head(todo).in \in {ANY, bank}

(* Frame k of the wire as get_packet should return it.                     *)
Frame(k) == [i \in 1 .. frames[k] |-> <<k, HEADER + i - 1>>]

(* get_packet returns the frames the chip accepted, whole and in order,    *)
(* whatever arrives while it copies one and wherever the ring goes round;  *)
(* only frames too large for the buffer are left out.                      *)
FramesInOrder ==
  /\ Len(got) <= Len(frames)
  /\ \A k \in 1 .. Len(got) :
       got[k] = IF frames[k] <= PACKET_MAX_SIZE THEN Frame(k) ELSE REFUSED

(* Between two calls the driver and the chip agree where the next frame    *)
(* starts, and the count is the number of frames not read yet.             *)
InStep ==
  mode = "up" /\ todo = <<>> =>
    LET read == Len(got)
    IN  /\ epktcnt = Len(frames) - read
        /\ erdpt = IF read = 0 THEN 0 ELSE next_of[read]
        /\ read > 0 => erxrdpt = erdpt

(* The chip puts the packets given to send_packet on the wire, each once,  *)
(* in order and with the bytes it was given; when send_packet has returned *)
(* only packets with no type, or a length that is none, are left out.      *)
SentInOrder ==
  /\ \A i, j \in 1 .. Len(transmitted) : i < j => transmitted[i] < transmitted[j]
  /\ \A j \in 1 .. Len(transmitted) :
       sends[transmitted[j]].length \in 0 .. PACKET_MAX_SIZE
  /\ mode = "up" /\ todo = <<>> =>
       \A k \in 1 .. Len(sends) :
         \/ \E j \in 1 .. Len(transmitted) : transmitted[j] = k
         \/ sends[k].type = "ETH_NULL" \/ sends[k].length \notin 0 .. PACKET_MAX_SIZE

(* init_ethernet ends by returning, so that an absent board is reported as *)
(* "Unable to detect ENC28J60 board"; the stack check never ends it.       *)
AbsenceReported == mode # "exit"
=============================================================================
