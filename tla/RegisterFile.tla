---------------------------- MODULE RegisterFile ----------------------------
(***************************************************************************)
(* What src/gpio_spi.h promises: one thread reads, writes, sets and clears *)
(* control registers, and reads and writes the buffer memory of the chip   *)
(* one byte after the other.  A byte is the set of its bits that are one.  *)
(***************************************************************************)
EXTENDS Integers, Sequences

CONSTANTS
  Addresses,   \* of registers
  CELLS,       \* cells of the buffer memory
  Calls        \* [do, address, data]: data has an entry for every byte

VARIABLES
  registers, memory, read_at, write_at,
  call,        \* the call under way
  step,        \* bytes of it done
  delivered,   \* bytes the chip has given out for it
  returned     \* what the last call returned

fileVars == <<registers, memory, read_at, write_at, call, step, delivered, returned>>

NO_CALL == [do |-> "none", address |-> {}, data |-> <<>>]

Begin ==
  /\ call = NO_CALL
  /\ call' \in Calls
  /\ step' = 0 /\ delivered' = <<>>
  /\ UNCHANGED <<registers, memory, read_at, write_at, returned>>

Step(what) ==
  call.do = what /\ step < Len(call.data) /\ step' = step + 1
    /\ UNCHANGED <<call, returned>>

Change ==
  /\ Step("write") \/ Step("set") \/ Step("clear")
  /\ LET byte == call.data[step']
         old  == registers[call.address]
     IN  registers' = [registers EXCEPT ![call.address] =
           CASE call.do = "write" -> byte
             [] call.do = "set"   -> old \cup byte
             [] call.do = "clear" -> old \ byte]
  /\ UNCHANGED <<memory, read_at, write_at, delivered>>

Read ==
  /\ Step("read")
  /\ delivered' = Append(delivered, registers[call.address])
  /\ UNCHANGED <<registers, memory, read_at, write_at>>

BufferWrite ==
  /\ Step("buffer_write")
  /\ memory' = [memory EXCEPT ![write_at] = call.data[step']]
  /\ write_at' = (write_at + 1) % CELLS
  /\ UNCHANGED <<registers, read_at, delivered>>

BufferRead ==
  /\ Step("buffer_read")
  /\ delivered' = Append(delivered, memory[read_at])
  /\ read_at' = (read_at + 1) % CELLS
  /\ UNCHANGED <<registers, memory, write_at>>

Reset ==
  /\ Step("reset")
  /\ registers' = [a \in Addresses |-> {}]
  /\ UNCHANGED <<memory, read_at, write_at, delivered>>

Return ==
  /\ call # NO_CALL /\ step = Len(call.data)
  /\ call' = NO_CALL
  /\ returned' = delivered
  /\ UNCHANGED <<registers, memory, read_at, write_at, step, delivered>>

Init ==
  /\ registers = [a \in Addresses |-> {}]
  /\ memory = [c \in 0 .. CELLS - 1 |-> {}]
  /\ read_at = 0 /\ write_at = 0
  /\ call = NO_CALL /\ step = 0 /\ delivered = <<>> /\ returned = <<>>

Next == Begin \/ Change \/ Read \/ BufferWrite \/ BufferRead \/ Reset \/ Return

Spec == Init /\ [][Next]_fileVars
=============================================================================
