------------------------------- MODULE SpiBus -------------------------------
(***************************************************************************)
(* The bit-banged SPI bus of src/gpio_spi.c, once Gpio has mapped the      *)
(* registers.  A call is the sequence "todo" of its accesses to them.  The *)
(* chip sees a change of the pins some time after it; SHORT_WAIT is long   *)
(* enough for that, and nothing else is.                                   *)
(*                                                                         *)
(* A byte is the set of its bits that are one, the pins are the set of     *)
(* those that are high.                                                    *)
(***************************************************************************)
EXTENDS Gpio, Sequences, SequencesExt

CONSTANTS
  Addresses, CELLS, Calls,   \* as in RegisterFile
  MaxCalls                   \* bound: calls in a behaviour

ASSUME BusAssumption ==
  Addresses \subseteq SUBSET (0 .. 4) /\ CELLS \in Nat \ {0} /\ MaxCalls \in Nat

VARIABLES
  (* the driver *)
  todo, call, calls,
  latch,       \* output levels of the pins
  input,       \* bits read so far by this call
  returned,
  (* the chip *)
  seen,        \* the pins as it saw them last
  miso,        \* its output
  shift,       \* bits clocked in since it was selected
  out,         \* byte it is sending
  registers, memory, read_at, write_at,
  (* history *)
  step, delivered   \* of this call: effects on the chip, bytes sent

driverVars == <<call, calls, latch, input, returned>>
chipVars   == <<seen, miso, shift, out, registers, memory, read_at, write_at,
                step, delivered>>
busVars    == <<todo, driverVars, chipVars, gpioVars>>

(***************************************************************************)
(* The calls as accesses to the GPIO registers.                            *)
(***************************************************************************)
Clr(pins)  == [do |-> "clr", pins |-> pins]
Set(pins)  == [do |-> "set", pins |-> pins]
Input(p)   == [do |-> "input", pins |-> {p}]
SetBit(p)  == [do |-> "output", pins |-> {p}]
Get        == [do |-> "get", pins |-> {}]
SHORT_WAIT == [do |-> "wait", pins |-> {}]

FaultOutput(p) == << SetBit(p) >>   \* faulty: the old function not cleared

Output(p) == << Input(p), SetBit(p) >>

init_spi ==
  << Input(MISO), Input(INT) >> \o Output(MOSI) \o Output(CS) \o Output(SCK)
    \o << Set({CS, MOSI}), Clr({SCK}) >>

assert_cs == << SHORT_WAIT, Clr({CS}) >>

deassert_cs ==
  << SHORT_WAIT, Clr({SCK}), SHORT_WAIT, Set({CS}), SHORT_WAIT, Set({SCK}) >>

FaultWriteBit(one) ==            \* faulty: no wait before the clock rises
  << SHORT_WAIT, Clr({SCK, MOSI}), Set(IF one THEN {MOSI} ELSE {}), Set({SCK}) >>

WriteBit(one) ==
  << SHORT_WAIT, Clr({SCK, MOSI}), Set(IF one THEN {MOSI} ELSE {}),
     SHORT_WAIT, Set({SCK}) >>

ReadBit == << SHORT_WAIT, Clr({SCK}), SHORT_WAIT, Set({SCK}), Get >>

(* The highest bit first.                                                  *)
spi_write_byte(b) == FlattenSeq([i \in 1 .. 8 |-> WriteBit(8 - i \in b)])

spi_read_byte == FlattenSeq([i \in 1 .. 8 |-> ReadBit])

(* The operation in the three highest bits of the first byte.              *)
OPERATION ==
  [read |-> {}, write |-> {6}, set |-> {7}, clear |-> {7, 5},
   buffer_write |-> {6, 5}, buffer_read |-> {5}, reset |-> {7, 6, 5}]

BUFFER_MEMORY == {4, 3, 1}     \* 0x1A, where 0x7A and 0x3A have an address

Command(c) ==
  OPERATION[c.do] \cup CASE c.do = "reset" -> 0 .. 4
                         [] c.do \in {"buffer_write", "buffer_read"} -> BUFFER_MEMORY
                         [] OTHER -> c.address

Bytes(c) ==
  IF c.do = "reset" THEN <<>>
  ELSE FlattenSeq([i \in DOMAIN c.data |->
         IF c.do \in {"read", "buffer_read"} THEN spi_read_byte
         ELSE spi_write_byte(c.data[i])])

Accesses(c) ==
  assert_cs \o spi_write_byte(Command(c)) \o Bytes(c) \o deassert_cs

ASSUME CallsAssumption ==
  /\ Calls \subseteq [do : DOMAIN OPERATION, address : Addresses,
                     data : Seq(SUBSET (0 .. 7))]
  /\ \A c \in Calls : c.do = "reset" => Len(c.data) = 1

NO_CALL == [do |-> "none", address |-> {}, data |-> <<>>]

(***************************************************************************)
(* The driver.                                                             *)
(***************************************************************************)
(* A pin that is not an output: the board keeps CS high.                   *)
Pins ==
  LET outputs == {p \in GPIOS : function[p] = 1}
  IN  (latch \cap outputs \cap {MOSI, SCK, CS}) \cup ({CS} \ outputs)

InitSpi ==
  /\ next = "pins"
  /\ next' = "spi" /\ todo' = init_spi
  /\ UNCHANGED <<uids, gpio_mmap, mappings, function, result, opens, before,
                 driverVars, chipVars>>

SpiReady ==
  /\ next = "spi" /\ todo = <<>>
  /\ Finish(1)
  /\ UNCHANGED <<uids, gpio_mmap, mappings, function, opens, before, todo,
                 driverVars, chipVars>>

Call ==
  /\ gpio_mmap = "mapped" /\ next = "idle"
  /\ todo = <<>> /\ call = NO_CALL /\ calls < MaxCalls
  /\ call' \in Calls /\ calls' = calls + 1
  /\ todo' = Accesses(call')
  /\ input' = <<>> /\ step' = 0 /\ delivered' = <<>>
  /\ UNCHANGED <<latch, returned, seen, miso, shift, out, registers, memory,
                 read_at, write_at, gpioVars>>

Doing(what) == todo # <<>> /\ Head(todo).do = what /\ todo' = Tail(todo)

PinWrite ==
  /\ \/ Doing("clr") /\ latch' = latch \ Head(todo).pins
     \/ Doing("set") /\ latch' = latch \cup Head(todo).pins
  /\ UNCHANGED <<call, calls, input, returned, chipVars, gpioVars>>

PinFunction ==
  /\ \E p \in GPIOS :
       \/ Doing("input") /\ Head(todo).pins = {p}
            /\ function' = [function EXCEPT ![p] = 0]
       \/ Doing("output") /\ Head(todo).pins = {p}
            /\ function' = [function EXCEPT ![p] = @ - (@ % 2) + 1]
  /\ UNCHANGED <<uids, gpio_mmap, mappings, next, result, opens, before,
                 driverVars, chipVars>>

PinRead ==
  /\ Doing("get")
  /\ input' = Append(input, miso)
  /\ UNCHANGED <<call, calls, latch, returned, chipVars, gpioVars>>

Wait ==
  /\ Doing("wait")
  /\ seen = Pins
  /\ UNCHANGED <<driverVars, chipVars, gpioVars>>

(* b <<= 1 for every bit read, and the shift down to bit 0 at the end.     *)
ByteRead(i) == {k \in 0 .. 7 : input[8 * i - k]}

Return ==
  /\ todo = <<>> /\ call # NO_CALL
  /\ returned' = [i \in 1 .. Len(input) \div 8 |-> ByteRead(i)]
  /\ call' = NO_CALL
  /\ UNCHANGED <<todo, calls, latch, input, chipVars, gpioVars>>

(***************************************************************************)
(* The chip: it takes a bit when the clock rises, puts one out when the    *)
(* clock falls, and forgets an unfinished byte when it is deselected.      *)
(***************************************************************************)
Last8(bits) == {k \in 0 .. 7 : bits[Len(bits) - k]}

(* A byte is complete; the first one of a call is its command.             *)
ChipByte(bits) ==
  LET command == Last8(SubSeq(bits, 1, 8))
      what    == CHOOSE w \in DOMAIN OPERATION : OPERATION[w] = command \ 0 .. 4
      a       == command \cap 0 .. 4
      byte    == Last8(bits)
      first   == Len(bits) = 8
      does(w) == what = w /\ first = (w = "reset")
  IN  /\ registers' = CASE does("write") -> [registers EXCEPT ![a] = byte]
                        [] does("set")   -> [registers EXCEPT ![a] = @ \cup byte]
                        [] does("clear") -> [registers EXCEPT ![a] = @ \ byte]
                        [] does("reset") -> [x \in Addresses |-> {}]
                        [] OTHER         -> registers
      /\ IF does("buffer_write")
         THEN memory' = [memory EXCEPT ![write_at] = byte]
                /\ write_at' = (write_at + 1) % CELLS
         ELSE UNCHANGED <<memory, write_at>>
      /\ read_at' = IF does("buffer_read") THEN (read_at + 1) % CELLS ELSE read_at
      /\ delivered' = IF does("read") \/ does("buffer_read")
                      THEN Append(delivered, out) ELSE delivered
      /\ out' = CASE what = "read"        -> registers[a]
                  [] what = "buffer_read" -> memory[read_at']
                  [] OTHER                -> out
      /\ step' = IF first = (what = "reset") THEN step + 1 ELSE step

ChipClocks == CS \notin Pins \cup seen    \* selected, before and now

ChipRise ==
  /\ ChipClocks /\ SCK \in Pins \ seen
  /\ shift' = Append(shift, MOSI \in Pins)
  /\ IF Len(shift') % 8 = 0 THEN ChipByte(shift')
     ELSE UNCHANGED <<out, registers, memory, read_at, write_at, step, delivered>>
  /\ seen' = Pins
  /\ UNCHANGED <<todo, driverVars, miso, gpioVars>>

ChipFall ==
  /\ ChipClocks /\ SCK \in seen \ Pins
  /\ miso' = (7 - (Len(shift) % 8) \in out)
  /\ seen' = Pins
  /\ UNCHANGED <<todo, driverVars, shift, out, registers, memory, read_at,
                 write_at, step, delivered, gpioVars>>

ChipOther ==
  /\ seen # Pins
  /\ ~ChipClocks \/ (SCK \in Pins <=> SCK \in seen)
  /\ shift' = IF CS \in Pins THEN <<>> ELSE shift
  /\ seen' = Pins
  /\ UNCHANGED <<todo, driverVars, miso, out, registers, memory, read_at,
                 write_at, step, delivered, gpioVars>>

(***************************************************************************)
GpioCall ==
  /\ todo = <<>> /\ call = NO_CALL
  /\ GpioNext
  /\ UNCHANGED <<todo, driverVars, chipVars>>

Init ==
  /\ GpioInit
  /\ todo = <<>> /\ call = NO_CALL /\ calls = 0
  /\ latch \in SUBSET {CS, SCK, MOSI}
  /\ input = <<>> /\ returned = <<>>
  /\ seen = Pins /\ miso = FALSE /\ shift = <<>> /\ out = {}
  /\ registers = [a \in Addresses |-> {}]
  /\ memory = [c \in 0 .. CELLS - 1 |-> {}]
  /\ read_at = 0 /\ write_at = 0
  /\ step = 0 /\ delivered = <<>>

Next ==
  \/ GpioCall \/ InitSpi \/ SpiReady
  \/ Call \/ PinWrite \/ PinFunction \/ PinRead \/ Wait \/ Return
  \/ ChipRise \/ ChipFall \/ ChipOther

Spec == Init /\ [][Next]_busVars

(***************************************************************************)
(* Properties.                                                             *)
(***************************************************************************)
File == INSTANCE RegisterFile

(* Whenever the chip sees the pins change, the calls do what RegisterFile  *)
(* says they do: no clock edge is missed or seen twice, no bit is taken    *)
(* from the wrong side of an edge, and no call runs into the next.         *)
ImplementsRegisterFile == File!Spec
=============================================================================
