-------------------------------- MODULE Gpio --------------------------------
(***************************************************************************)
(* Opening and closing the GPIO registers in src/gpio_spi.c: mapping them, *)
(* giving root rights back, and the functions of the pins.  SpiBus goes on *)
(* where the registers are mapped.                                         *)
(*                                                                         *)
(* A user id is 0 for root or 1 for the user.  A pin function is the three *)
(* bits of its field: 0 input, 1 output, others alternate functions.       *)
(***************************************************************************)
EXTENDS Integers

CONSTANTS
  GPIOS,              \* pins of the board
  MOSI, MISO, SCK, CS, INT,
  Before,             \* [GPIOS -> function] before the program starts
  MaxOpens            \* bound: calls of init_gpio_spi and close_gpio_spi

ASSUME GpioAssumption ==
  /\ {MOSI, MISO, SCK, CS, INT} \subseteq GPIOS
  /\ MISO \notin {MOSI, SCK, CS, INT} /\ INT \notin {MOSI, SCK, CS}
  /\ MOSI \notin {SCK, CS} /\ SCK # CS
  /\ Before \subseteq [GPIOS -> 0 .. 7] /\ MaxOpens \in Nat

VARIABLES
  uids,        \* [real, effective, saved]
  gpio_mmap,   \* the pointer: "NULL" or "mapped"
  mappings,    \* mappings the process has
  function,    \* of every pin
  next,        \* the step of init_gpio_spi under way, "idle" otherwise
  result,      \* of the last call of init_gpio_spi or close_gpio_spi
  opens,
  before       \* history: the functions at the start

gpioVars == <<uids, gpio_mmap, mappings, function, next, result, opens, before>>

(***************************************************************************)
(* Faulty forms of definitions below; nothing uses them.                   *)
(***************************************************************************)
FaultRegained(u)     == FALSE                 \* not tried to get root back

(***************************************************************************)
(* setuid: root sets all three, others may take one they already have.     *)
(***************************************************************************)
MaySetuid(u) == uids.effective = 0 \/ u \in {uids.real, uids.saved}

Setuid(u) == IF uids.effective = 0 THEN [real |-> u, effective |-> u, saved |-> u]
             ELSE [uids EXCEPT !.effective = u]

Finish(value) == next' = "idle" /\ result' = value

(***************************************************************************)
(* init_gpio_spi                                                           *)
(***************************************************************************)
InitGpio ==
  /\ next = "idle" /\ opens < MaxOpens /\ opens' = opens + 1
  /\ IF gpio_mmap # "NULL" THEN Finish(0) ELSE next' = "base" /\ UNCHANGED result
  /\ UNCHANGED <<uids, gpio_mmap, mappings, function, before>>

(* The revision of the board may be missing in /proc/cpuinfo or unknown.   *)
PeripheralBase ==
  /\ next = "base"
  /\ \/ next' = "open" /\ UNCHANGED result
     \/ Finish(0)
  /\ UNCHANGED <<uids, gpio_mmap, mappings, function, opens, before>>

OpenMem ==
  /\ next = "open"
  /\ \/ uids.effective = 0 /\ next' = "map" /\ UNCHANGED result
     \/ Finish(0)
  /\ UNCHANGED <<uids, gpio_mmap, mappings, function, opens, before>>

MapRegisters ==
  /\ next = "map"
  /\ \/ /\ gpio_mmap' = "mapped" /\ mappings' = mappings + 1
        /\ next' = "drop" /\ UNCHANGED result
     \/ /\ Finish(0)
        /\ UNCHANGED <<gpio_mmap, mappings>>
  /\ UNCHANGED <<uids, function, opens, before>>

(* The pointer is given up, the mapping is not.                            *)
DropFails == Finish(0) /\ gpio_mmap' = "NULL"

DropGoesOn(step) == next' = step /\ UNCHANGED <<gpio_mmap, result>>

DropRoot ==
  /\ next = "drop"
  /\ IF MaySetuid(uids.real)
     THEN uids' = Setuid(uids.real) /\ DropGoesOn("verify")
     ELSE DropFails /\ UNCHANGED uids
  /\ UNCHANGED <<mappings, function, opens, before>>

Regained(u) == MaySetuid(u)

VerifyDrop ==
  /\ next = "verify"
  /\ uids' = IF MaySetuid(0) THEN Setuid(0) ELSE uids
  /\ IF Regained(0) THEN DropFails ELSE DropGoesOn("pins")
  /\ UNCHANGED <<mappings, function, opens, before>>

(***************************************************************************)
(* close_gpio_spi                                                          *)
(***************************************************************************)
CloseGpio ==
  /\ next = "idle" /\ opens < MaxOpens /\ opens' = opens + 1
  /\ IF gpio_mmap = "NULL"
     THEN result' = 0 /\ UNCHANGED <<gpio_mmap, mappings>>
     ELSE /\ mappings' = mappings - 1 /\ gpio_mmap' = "NULL"
          /\ result' = 1
  /\ UNCHANGED <<uids, function, next, before>>

(* Started with the set-user-id bit, with sudo, or as a plain program.     *)
GpioInit ==
  /\ uids \in {[real |-> 1, effective |-> 0, saved |-> 0],
               [real |-> 0, effective |-> 0, saved |-> 0],
               [real |-> 1, effective |-> 1, saved |-> 1]}
  /\ gpio_mmap = "NULL" /\ mappings = 0
  /\ function \in Before /\ before = function
  /\ next = "idle" /\ result = 0 /\ opens = 0

GpioNext ==
  \/ InitGpio \/ PeripheralBase \/ OpenMem \/ MapRegisters \/ DropRoot
  \/ VerifyDrop \/ CloseGpio

(***************************************************************************)
(* Properties.                                                             *)
(***************************************************************************)
InUse == gpio_mmap = "mapped" /\ next \in {"pins", "spi", "idle"}

(* While the registers are used they are mapped, and the process is not    *)
(* root and cannot become root again, however it was started: a start with *)
(* sudo is refused.                                                        *)
RootReleased ==
  InUse => mappings > 0 /\ 0 \notin {uids.real, uids.effective, uids.saved}

(* Once opened, the pins of the bus have their directions, whatever they   *)
(* were used for before, and no other pin has changed.                     *)
PinsDirected ==
  /\ InUse /\ next = "idle" =>
       /\ \A p \in {MISO, INT} : function[p] = 0
       /\ \A p \in {MOSI, CS, SCK} : function[p] = 1
  /\ \A p \in GPIOS \ {MOSI, MISO, SCK, CS, INT} : function[p] = before[p]
=============================================================================
