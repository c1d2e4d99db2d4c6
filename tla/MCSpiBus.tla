------------------------------ MODULE MCSpiBus ------------------------------
(***************************************************************************)
(* TLC's instance of SpiBus: pins that were inputs, outputs or had an      *)
(* alternate function; every kind of call, two registers, buffer transfers *)
(* longer than the buffer memory.                                          *)
(***************************************************************************)
EXTENDS SpiBus

SomeBefore == [GPIOS -> {0}] \cup [GPIOS -> {1}] \cup [GPIOS -> {4}]

SomeAddresses == {{}, {0, 2, 4}}
SomeBytes     == {{0, 7}, {1, 2, 6}, 0 .. 7}

SomeCalls ==
  [do : {"write", "set", "clear"}, address : SomeAddresses,
   data : [1 .. 1 -> SomeBytes]]
  \cup [do : {"read"}, address : SomeAddresses, data : {<<{}>>}]
  \cup [do : {"buffer_write"}, address : {{}},
        data : {<<>>, <<{0}, {7}, {1, 6}>>}]
  \cup [do : {"buffer_read"}, address : {{}}, data : {<<{}>>, <<{}, {}, {}>>}]
  \cup [do : {"reset"}, address : {{}}, data : {<<{}>>}]
=============================================================================
