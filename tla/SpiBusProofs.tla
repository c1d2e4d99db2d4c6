---------------------------- MODULE SpiBusProofs ----------------------------
(***************************************************************************)
(* Root rights, the pins and the wire, for every board, every set of calls *)
(* and any number of opens and closes.  What init_gpio_spi has established *)
(* holds as long as the bus is used (BusInv); and the bits that a call of  *)
(* any length puts on the pins have the effect that RegisterFile gives the *)
(* call, whenever the chip sees them change (WireInv).                     *)
(***************************************************************************)
EXTENDS SpiBus, DataLemmas

(***************************************************************************)
(* The inductive invariant.                                                *)
(***************************************************************************)
Bus == {MOSI, MISO, SCK, CS, INT}

Steps == {"idle", "base", "open", "map", "drop", "verify", "pins", "spi"}

(* The registers are mapped from the step that maps them on, and not while *)
(* init_gpio_spi has yet to do it.                                         *)
MappedInv ==
  /\ next \in Steps /\ gpio_mmap \in {"NULL", "mapped"} /\ mappings \in Nat
  /\ gpio_mmap = "mapped" => mappings > 0
  /\ next \in {"base", "open", "map"} => gpio_mmap = "NULL"
  /\ next \in {"drop", "verify", "pins", "spi"} => gpio_mmap = "mapped"

(* What a call of the bus does: it never touches the function of a pin.    *)
Outputs == {MOSI, SCK, CS}

Quiet == [do : {"wait", "clr", "set", "get"}, pins : SUBSET Outputs]

(* The functions of the pins after k accesses of init_spi.                 *)
Turned(k) ==
  /\ k >= 1 => function[MISO] = 0
  /\ k >= 2 => function[INT] = 0
  /\ k = 3 => function[MOSI] = 0
  /\ k >= 4 => function[MOSI] = 1
  /\ k = 5 => function[CS] = 0
  /\ k >= 6 => function[CS] = 1
  /\ k = 7 => function[SCK] = 0
  /\ k >= 8 => function[SCK] = 1

Directed == Turned(10)

PinsInv ==
  /\ function \in [GPIOS -> Int]
  /\ \A p \in GPIOS \ Bus : function[p] = before[p]
  /\ next \notin {"spi", "idle"} => todo = <<>>
  /\ next = "spi" =>
       \E k \in 0 .. 10 : todo = SubSeq(init_spi, k+1, 10) /\ Turned(k)
  /\ next = "idle" => todo \in Seq(Quiet)
  /\ next = "idle" /\ gpio_mmap = "mapped" => Directed

BusInv == MappedInv /\ RootReleased /\ PinsInv

(* The five pins of the bus are different pins of the board.               *)
LEMMA Pairwise ==
  /\ MISO # MOSI /\ MISO # SCK /\ MISO # CS /\ MISO # INT
  /\ INT # MOSI /\ INT # SCK /\ INT # CS
  /\ MOSI # SCK /\ MOSI # CS /\ SCK # CS
  /\ Bus \subseteq GPIOS
BY GpioAssumption DEF Bus

(* The ten accesses of init_spi.                                           *)
LEMMA TenOf ==
  ASSUME NEW a, NEW b, NEW c, NEW d, NEW e, NEW f, NEW g, NEW h, NEW i, NEW j, NEW s,
         s = << a, b >> \o << c, d >> \o << e, f >> \o << g, h >> \o << i, j >>
  PROVE  /\ Len(s) = 10
         /\ s[1] = a /\ s[2] = b /\ s[3] = c /\ s[4] = d /\ s[5] = e
         /\ s[6] = f /\ s[7] = g /\ s[8] = h /\ s[9] = i /\ s[10] = j
OBVIOUS

(* init_spi, access by access.                                             *)
LEMMA InitSpiIs ==
  /\ init_spi \in Seq([do : {"input", "output", "set", "clr"}, pins : SUBSET Bus])
  /\ Len(init_spi) = 10
  /\ init_spi[1] = Input(MISO) /\ init_spi[2] = Input(INT)
  /\ init_spi[3] = Input(MOSI) /\ init_spi[4] = SetBit(MOSI)
  /\ init_spi[5] = Input(CS) /\ init_spi[6] = SetBit(CS)
  /\ init_spi[7] = Input(SCK) /\ init_spi[8] = SetBit(SCK)
  /\ init_spi[9] = Set({CS, MOSI}) /\ init_spi[10] = Clr({SCK})
<1> DEFINE S == [do : {"input", "output", "set", "clr"}, pins : SUBSET Bus]
<1>1. init_spi = << Input(MISO), Input(INT) >> \o << Input(MOSI), SetBit(MOSI) >>
                   \o << Input(CS), SetBit(CS) >> \o << Input(SCK), SetBit(SCK) >>
                   \o << Set({CS, MOSI}), Clr({SCK}) >>
  BY Zenon DEF init_spi, Output
<1>2. ASSUME NEW pins \in SUBSET Bus, NEW what \in {"input", "output", "set", "clr"}
      PROVE  [do |-> what, pins |-> pins] \in S
  OBVIOUS
<1>3. /\ {MISO} \in SUBSET Bus /\ {INT} \in SUBSET Bus /\ {MOSI} \in SUBSET Bus
      /\ {CS} \in SUBSET Bus /\ {SCK} \in SUBSET Bus /\ {CS, MOSI} \in SUBSET Bus
  BY DEF Bus
<1> HIDE DEF S
<1>4. /\ << Input(MISO), Input(INT) >> \in Seq(S)
      /\ << Input(MOSI), SetBit(MOSI) >> \in Seq(S)
      /\ << Input(CS), SetBit(CS) >> \in Seq(S)
      /\ << Input(SCK), SetBit(SCK) >> \in Seq(S)
      /\ << Set({CS, MOSI}), Clr({SCK}) >> \in Seq(S)
  <2>1. /\ Input(MISO) \in S /\ Input(INT) \in S /\ Input(MOSI) \in S
        /\ Input(CS) \in S /\ Input(SCK) \in S
    BY <1>2, <1>3, Zenon DEF Input
  <2>2. SetBit(MOSI) \in S /\ SetBit(CS) \in S /\ SetBit(SCK) \in S
    BY <1>2, <1>3, Zenon DEF SetBit
  <2>3. Set({CS, MOSI}) \in S /\ Clr({SCK}) \in S
    BY <1>2, <1>3, Zenon DEF Set, Clr
  <2> QED
    BY <2>1, <2>2, <2>3
<1>5. init_spi \in Seq(S)
  BY <1>1, <1>4, ConcatProperties
<1>6. Len(init_spi) = 10
  BY <1>1, TenOf
<1>7. /\ init_spi[1] = Input(MISO) /\ init_spi[2] = Input(INT)
      /\ init_spi[3] = Input(MOSI) /\ init_spi[4] = SetBit(MOSI)
  BY <1>1, TenOf
<1>8. /\ init_spi[5] = Input(CS) /\ init_spi[6] = SetBit(CS)
      /\ init_spi[7] = Input(SCK) /\ init_spi[8] = SetBit(SCK)
  BY <1>1, TenOf
<1>9. init_spi[9] = Set({CS, MOSI}) /\ init_spi[10] = Clr({SCK})
  BY <1>1, TenOf
<1> QED
  BY <1>5, <1>6, <1>7, <1>8, <1>9 DEF S

(***************************************************************************)
(* A call is quiet.                                                        *)
(***************************************************************************)
LEMMA QuietAccesses ==
  /\ SHORT_WAIT \in Quiet /\ Get \in Quiet
  /\ \A pins \in SUBSET Outputs : Set(pins) \in Quiet /\ Clr(pins) \in Quiet
BY DEF Quiet, SHORT_WAIT, Get, Set, Clr

(* The accesses of a bit do not touch the function of a pin.               *)
LEMMA QuietBits ==
  /\ \A one \in BOOLEAN : WriteBit(one) \in Seq(Quiet)
  /\ ReadBit \in Seq(Quiet)
<1>1. ASSUME NEW one \in BOOLEAN
      PROVE  WriteBit(one) \in Seq(Quiet)
  <2>1. (IF one THEN {MOSI} ELSE {}) \in SUBSET Outputs
    BY DEF Outputs
  <2>2. {SCK, MOSI} \in SUBSET Outputs /\ {SCK} \in SUBSET Outputs
    BY DEF Outputs
  <2>3. /\ Clr({SCK, MOSI}) \in Quiet /\ Set({SCK}) \in Quiet
        /\ Set(IF one THEN {MOSI} ELSE {}) \in Quiet /\ SHORT_WAIT \in Quiet
    BY <2>1, <2>2, QuietAccesses, Zenon
  <2> QED
    BY <2>3 DEF WriteBit
<1>2. ReadBit \in Seq(Quiet)
  <2>1. {SCK} \in SUBSET Outputs
    BY DEF Outputs
  <2>2. Clr({SCK}) \in Quiet /\ Set({SCK}) \in Quiet /\ Get \in Quiet /\ SHORT_WAIT \in Quiet
    BY <2>1, QuietAccesses
  <2> QED
    BY <2>2 DEF ReadBit
<1> QED
  BY <1>1, <1>2

(* Parts of the same length k, laid end to end.                            *)
EndToEnd(flat, k, seqs) ==
  /\ Len(flat) = k * Len(seqs)
  /\ \A i \in 1 .. Len(seqs) : \A x \in 1 .. k : flat[k * (i - 1) + x] = seqs[i][x]

(* FlattenSeq lays parts of the same length end to end.                    *)
LEMMA FlattenEven ==
  ASSUME NEW S, NEW k \in Nat, NEW seqs \in Seq(Seq(S)),
         \A i \in 1 .. Len(seqs) : Len(seqs[i]) = k
  PROVE  FlattenSeq(seqs) \in Seq(S) /\ EndToEnd(FlattenSeq(seqs), k, seqs)
<1> DEFINE n == Len(seqs)
           flat == FlattenSeq(seqs)
<1>1. n \in Nat
  OBVIOUS
<1>2. PICK off :
        /\ IsOffsets(off, seqs, n)
        /\ Len(flat) = off[n]
        /\ \A i \in 1 .. n : \A x \in 1 .. Len(seqs[i]) : flat[off[i-1] + x] = seqs[i][x]
  BY FlattenAt
<1>3. flat \in Seq(S)
  BY FlattenAt
<1> HIDE DEF n, flat
<1>4. \A i \in 0 .. n : off[i] = k * i
  <2> DEFINE T == {i \in 0 .. n : off[i] = k * i}
  <2>1. 0 \in T
    BY <1>1, <1>2 DEF IsOffsets
  <2>2. ASSUME NEW i \in 1 .. n, i - 1 \in T
        PROVE  i \in T
    <3>1. off[i] = off[i-1] + k
      BY <1>1, <1>2 DEF IsOffsets, n
    <3>2. off[i-1] = k * (i - 1)
      BY <2>2
    <3>3. k * (i - 1) + k = k * i
      BY <1>1
    <3> QED
      BY <1>1, <3>1, <3>2, <3>3
  <2>3. Climbs(T, n)
    BY <2>1, <2>2 DEF Climbs
  <2> HIDE DEF T
  <2>4. \A i \in 0 .. n : i \in T
    BY <1>1, <2>3, ClimbsToTop
  <2> QED
    BY <2>4 DEF T
<1>5. Len(flat) = k * n
  BY <1>1, <1>2, <1>4
<1>6. ASSUME NEW i \in 1 .. n, NEW x \in 1 .. k
      PROVE  flat[k * (i - 1) + x] = seqs[i][x]
  <2>1. off[i-1] = k * (i - 1)
    BY <1>1, <1>4
  <2>2. Len(seqs[i]) = k
    BY DEF n
  <2>3. flat[off[i-1] + x] = seqs[i][x]
    BY <1>2, <2>2
  <2> QED
    BY <2>1, <2>3
<1> QED
  BY <1>3, <1>5, <1>6 DEF EndToEnd, n, flat

(***************************************************************************)
(* The accesses of a call, one by one.                                     *)
(***************************************************************************)
(* A call reads all its bytes but the first, or writes them.               *)
Reading(c) == c.do \in {"read", "buffer_read"}

ByteCount(c) == IF c.do = "reset" THEN 1 ELSE 1 + Len(c.data)

Sent(c, j) == IF j = 1 THEN Command(c) ELSE c.data[j-1]

(* Bit n of the call, from 0, is bit 7 - (n % 8) of a byte.                *)
BitIs(n, byte) == 7 - (n % 8) \in byte

SentBit(c, n) == BitIs(n, Sent(c, (n \div 8) + 1))

Taken(c, n) == Reading(c) /\ n >= 8

BitOf(c, n) == IF Taken(c, n) THEN ReadBit ELSE WriteBit(SentBit(c, n))

(* The assertion of CS, five accesses for every bit, the deassertion.      *)
CallLength(c) == 40 * ByteCount(c) + 8

Laid(c, s) ==
  /\ Len(s) = CallLength(c)
  /\ s[1] = SHORT_WAIT /\ s[2] = Clr({CS})
  /\ \A n \in 0 .. 8 * ByteCount(c) - 1 : \A m \in 1 .. 5 :
       s[2 + 5 * n + m] = BitOf(c, n)[m]
  /\ \A q \in 1 .. 6 : s[2 + 40 * ByteCount(c) + q] = deassert_cs[q]

(* A bit takes five accesses.                                              *)
LEMMA BitAccesses ==
  /\ \A one \in BOOLEAN :
       /\ WriteBit(one) \in Seq(Quiet) /\ Len(WriteBit(one)) = 5
  /\ ReadBit \in Seq(Quiet) /\ Len(ReadBit) = 5
BY QuietBits DEF WriteBit, ReadBit

(* A byte takes forty, five for each of its bits, the highest first.       *)
LEMMA ByteAccesses ==
  /\ \A b : /\ spi_write_byte(b) \in Seq(Quiet) /\ Len(spi_write_byte(b)) = 40
            /\ \A i \in 0 .. 7 : \A m \in 1 .. 5 :
                 spi_write_byte(b)[5 * i + m] = WriteBit(7 - i \in b)[m]
  /\ spi_read_byte \in Seq(Quiet) /\ Len(spi_read_byte) = 40
  /\ \A i \in 0 .. 7 : \A m \in 1 .. 5 : spi_read_byte[5 * i + m] = ReadBit[m]
<1>1. ASSUME NEW b
      PROVE  /\ spi_write_byte(b) \in Seq(Quiet) /\ Len(spi_write_byte(b)) = 40
             /\ \A i \in 0 .. 7 : \A m \in 1 .. 5 :
                  spi_write_byte(b)[5 * i + m] = WriteBit(7 - i \in b)[m]
  <2> DEFINE W(one) == WriteBit(one)
             bits == [i \in 1 .. 8 |-> W(8 - i \in b)]
  <2>1. \A one \in BOOLEAN : W(one) \in Seq(Quiet) /\ Len(W(one)) = 5
    BY BitAccesses
  <2> HIDE DEF W
  <2>2. \A i \in 1 .. 8 : W(8 - i \in b) \in Seq(Quiet) /\ Len(W(8 - i \in b)) = 5
    <3> TAKE i \in 1 .. 8
    <3>1. (8 - i \in b) \in BOOLEAN
      OBVIOUS
    <3> QED
      BY <2>1, <3>1, Zenon
  <2>3. bits \in Seq(Seq(Quiet)) /\ Len(bits) = 8 /\ \A i \in 1 .. Len(bits) : Len(bits[i]) = 5
    BY <2>2
  <2>4. \A i \in 0 .. 7 : bits[i + 1] = W(7 - i \in b)
    <3> TAKE i \in 0 .. 7
    <3>1. i + 1 \in 1 .. 8 /\ 8 - (i + 1) = 7 - i
      OBVIOUS
    <3> QED
      BY <3>1
  <2>5. spi_write_byte(b) = FlattenSeq(bits)
    BY Zenon DEF spi_write_byte, W
  <2> HIDE DEF bits
  <2>6. /\ FlattenSeq(bits) \in Seq(Quiet) /\ Len(FlattenSeq(bits)) = 5 * Len(bits)
        /\ \A i \in 1 .. Len(bits) : \A x \in 1 .. 5 :
             FlattenSeq(bits)[5 * (i - 1) + x] = bits[i][x]
    <3>1. 5 \in Nat
      OBVIOUS
    <3>2. FlattenSeq(bits) \in Seq(Quiet) /\ EndToEnd(FlattenSeq(bits), 5, bits)
      BY <2>3, <3>1, FlattenEven, Zenon
    <3> QED
      BY <3>2 DEF EndToEnd
  <2>7. ASSUME NEW i \in 0 .. 7, NEW m \in 1 .. 5
        PROVE  spi_write_byte(b)[5 * i + m] = WriteBit(7 - i \in b)[m]
    <3>1. i + 1 \in 1 .. Len(bits) /\ (i + 1) - 1 = i
      BY <2>3
    <3>2. FlattenSeq(bits)[5 * i + m] = bits[i + 1][m]
      BY <2>6, <3>1
    <3> QED
      BY <2>4, <2>5, <3>2 DEF W
  <2> QED
    BY <2>3, <2>5, <2>6, <2>7
<1>2. /\ spi_read_byte \in Seq(Quiet) /\ Len(spi_read_byte) = 40
      /\ \A i \in 0 .. 7 : \A m \in 1 .. 5 : spi_read_byte[5 * i + m] = ReadBit[m]
  <2> DEFINE bits == [i \in 1 .. 8 |-> ReadBit]
  <2>1. bits \in Seq(Seq(Quiet)) /\ Len(bits) = 8 /\ \A i \in 1 .. Len(bits) : Len(bits[i]) = 5
    BY BitAccesses
  <2>2. \A i \in 1 .. 8 : bits[i] = ReadBit
    OBVIOUS
  <2>3. spi_read_byte = FlattenSeq(bits)
    BY Zenon DEF spi_read_byte
  <2> HIDE DEF bits
  <2>4. /\ FlattenSeq(bits) \in Seq(Quiet) /\ Len(FlattenSeq(bits)) = 5 * Len(bits)
        /\ \A i \in 1 .. Len(bits) : \A x \in 1 .. 5 :
             FlattenSeq(bits)[5 * (i - 1) + x] = bits[i][x]
    <3>1. 5 \in Nat
      OBVIOUS
    <3>2. FlattenSeq(bits) \in Seq(Quiet) /\ EndToEnd(FlattenSeq(bits), 5, bits)
      BY <2>1, <3>1, FlattenEven, Zenon
    <3> QED
      BY <3>2 DEF EndToEnd
  <2>5. ASSUME NEW i \in 0 .. 7, NEW m \in 1 .. 5
        PROVE  spi_read_byte[5 * i + m] = ReadBit[m]
    <3>1. i + 1 \in 1 .. Len(bits) /\ (i + 1) - 1 = i /\ i + 1 \in 1 .. 8
      BY <2>1
    <3>2. FlattenSeq(bits)[5 * i + m] = bits[i + 1][m]
      BY <2>4, <3>1
    <3> QED
      BY <2>2, <2>3, <3>1, <3>2
  <2> QED
    BY <2>1, <2>3, <2>4, <2>5
<1> QED
  BY <1>1, <1>2

(* Four sequences laid end to end.                                         *)
FourLaid(S, s, a, b, d, e) ==
  /\ s \in Seq(S) /\ Len(s) = Len(a) + Len(b) + Len(d) + Len(e)
  /\ \A i \in 1 .. Len(a) : s[i] = a[i]
  /\ \A i \in 1 .. Len(b) : s[Len(a) + i] = b[i]
  /\ \A i \in 1 .. Len(d) : s[Len(a) + Len(b) + i] = d[i]
  /\ \A i \in 1 .. Len(e) : s[Len(a) + Len(b) + Len(d) + i] = e[i]

(* The elements of four sequences laid end to end are where they should    *)
(* be.                                                                     *)
LEMMA FourParts ==
  ASSUME NEW S, NEW a \in Seq(S), NEW b \in Seq(S), NEW d \in Seq(S), NEW e \in Seq(S)
  PROVE  FourLaid(S, a \o b \o d \o e, a, b, d, e)
<1> DEFINE t == a \o b
           u == t \o d
           s == u \o e
<1>1. /\ t \in Seq(S) /\ Len(t) = Len(a) + Len(b)
      /\ \A i \in 1 .. Len(a) + Len(b) : t[i] = IF i <= Len(a) THEN a[i] ELSE b[i - Len(a)]
  BY ConcatProperties
<1>2. /\ Len(a) \in Nat /\ Len(b) \in Nat /\ Len(d) \in Nat /\ Len(e) \in Nat
  OBVIOUS
<1> HIDE DEF t
<1>3. /\ u \in Seq(S) /\ Len(u) = Len(t) + Len(d)
      /\ \A i \in 1 .. Len(t) + Len(d) : u[i] = IF i <= Len(t) THEN t[i] ELSE d[i - Len(t)]
  BY <1>1, ConcatProperties
<1> HIDE DEF u
<1>5. /\ s \in Seq(S) /\ Len(s) = Len(u) + Len(e)
      /\ \A i \in 1 .. Len(u) + Len(e) : s[i] = IF i <= Len(u) THEN u[i] ELSE e[i - Len(u)]
  <2>1. u \in Seq(S)
    BY <1>3
  <2> QED
    BY <2>1, ConcatProperties
<1> HIDE DEF s
<1>6. \A i \in 1 .. Len(a) : s[i] = a[i]
  BY <1>1, <1>2, <1>3, <1>5
<1>7. \A i \in 1 .. Len(b) : s[Len(a) + i] = b[i]
  BY <1>1, <1>2, <1>3, <1>5
<1>8. \A i \in 1 .. Len(d) : s[Len(a) + Len(b) + i] = d[i]
  BY <1>1, <1>2, <1>3, <1>5
<1>9. \A i \in 1 .. Len(e) : s[Len(a) + Len(b) + Len(d) + i] = e[i]
  <2> TAKE i \in 1 .. Len(e)
  <2>1. Len(u) = Len(a) + Len(b) + Len(d) /\ Len(u) \in Nat
    BY <1>1, <1>2, <1>3
  <2>2. Len(u) + i \in 1 .. Len(u) + Len(e) /\ ~(Len(u) + i <= Len(u)) /\ Len(u) + i - Len(u) = i
    BY <1>2, <2>1
  <2>3. s[Len(u) + i] = e[i]
    BY <1>5, <2>2
  <2> QED
    BY <2>1, <2>3
<1>10. FourLaid(S, s, a, b, d, e)
  BY <1>1, <1>2, <1>3, <1>5, <1>6, <1>7, <1>8, <1>9 DEF FourLaid
<1> QED
  BY <1>10, Zenon DEF s, u, t

(* The types of a call, and that it has at least one byte.                 *)
LEMMA CallTypes ==
  ASSUME NEW c \in Calls
  PROVE  /\ c.do \in DOMAIN OPERATION /\ c.address \in Addresses
         /\ c.data \in Seq(SUBSET (0 .. 7)) /\ Len(c.data) \in Nat
         /\ ByteCount(c) \in Nat \ {0}
<1>1. /\ c.do \in DOMAIN OPERATION /\ c.address \in Addresses
      /\ c.data \in Seq(SUBSET (0 .. 7))
  BY CallsAssumption
<1>2. Len(c.data) \in Nat
  BY <1>1
<1> QED
  BY <1>1, <1>2 DEF ByteCount

(* The bytes after the first.                                              *)
LEMMA BytesLaid ==
  ASSUME NEW c \in Calls
  PROVE  /\ Bytes(c) \in Seq(Quiet) /\ Len(Bytes(c)) = 40 * (ByteCount(c) - 1)
         /\ \A j \in 1 .. ByteCount(c) - 1 : \A i \in 0 .. 7 : \A m \in 1 .. 5 :
              Bytes(c)[40 * (j - 1) + 5 * i + m] =
                IF Reading(c) THEN ReadBit[m] ELSE WriteBit(7 - i \in c.data[j])[m]
<1>0. c.data \in Seq(SUBSET (0 .. 7)) /\ Len(c.data) \in Nat
  BY CallTypes
<1>1. CASE c.do = "reset"
  <2>1. Bytes(c) = <<>> /\ ByteCount(c) = 1
    BY <1>1, Zenon DEF Bytes, ByteCount
  <2> QED
    BY <2>1
<1>2. CASE c.do # "reset"
  <2> DEFINE k == Len(c.data)
             Byte(i) == IF Reading(c) THEN spi_read_byte ELSE spi_write_byte(c.data[i])
             bytes   == [i \in DOMAIN c.data |-> Byte(i)]
  <2>1. Bytes(c) = FlattenSeq(bytes)
    BY <1>2, Zenon DEF Bytes, Reading
  <2>2. \A i : Byte(i) \in Seq(Quiet) /\ Len(Byte(i)) = 40
    BY ByteAccesses
  <2>3. ByteCount(c) - 1 = k
    BY <1>0, <1>2 DEF ByteCount
  <2>4. \A j : \A i \in 0 .. 7 : \A m \in 1 .. 5 :
          Byte(j)[5 * i + m] =
            IF Reading(c) THEN ReadBit[m] ELSE WriteBit(7 - i \in c.data[j])[m]
    BY ByteAccesses
  <2> HIDE DEF Byte
  <2>5. /\ bytes \in Seq(Seq(Quiet)) /\ Len(bytes) = k
        /\ \A i \in 1 .. k : bytes[i] = Byte(i)
    BY <1>0, <2>2
  <2>6. \A i \in 1 .. Len(bytes) : Len(bytes[i]) = 40
    BY <2>2, <2>5
  <2> HIDE DEF bytes
  <2>7. 40 \in Nat
    OBVIOUS
  <2>8. FlattenSeq(bytes) \in Seq(Quiet) /\ EndToEnd(FlattenSeq(bytes), 40, bytes)
    BY <2>5, <2>6, <2>7, FlattenEven, Zenon
  <2>9. /\ Len(Bytes(c)) = 40 * k
        /\ \A j \in 1 .. k : \A x \in 1 .. 40 : Bytes(c)[40 * (j - 1) + x] = bytes[j][x]
    BY <2>1, <2>5, <2>8 DEF EndToEnd
  <2>10. ASSUME NEW j \in 1 .. k, NEW i \in 0 .. 7, NEW m \in 1 .. 5
         PROVE  Bytes(c)[40 * (j - 1) + 5 * i + m] =
                  IF Reading(c) THEN ReadBit[m] ELSE WriteBit(7 - i \in c.data[j])[m]
    <3>1. 5 * i + m \in 1 .. 40
      OBVIOUS
    <3>2. Bytes(c)[40 * (j - 1) + (5 * i + m)] = bytes[j][5 * i + m]
      BY <2>9, <3>1
    <3>3. 40 * (j - 1) + (5 * i + m) = 40 * (j - 1) + 5 * i + m
      OBVIOUS
    <3>4. bytes[j][5 * i + m] = Byte(j)[5 * i + m]
      BY <2>5
    <3> QED
      BY <2>4, <3>2, <3>3, <3>4
  <2> QED
    BY <2>1, <2>3, <2>8, <2>9, <2>10
<1> QED
  BY <1>1, <1>2

(* The accesses of a call are where Laid says.                             *)
LEMMA AccessesLaid ==
  ASSUME NEW c \in Calls
  PROVE  Accesses(c) \in Seq(Quiet) /\ Laid(c, Accesses(c))
<1> DEFINE s == Accesses(c)
           w == spi_write_byte(Command(c))
           N == ByteCount(c)
<1>1. N \in Nat \ {0}
  BY CallTypes
<1>2. /\ assert_cs \in Seq(Quiet) /\ Len(assert_cs) = 2
      /\ assert_cs[1] = SHORT_WAIT /\ assert_cs[2] = Clr({CS})
      /\ deassert_cs \in Seq(Quiet) /\ Len(deassert_cs) = 6
  <2>1. {CS} \in SUBSET Outputs /\ {SCK} \in SUBSET Outputs
    BY DEF Outputs
  <2>2. /\ Clr({CS}) \in Quiet /\ Set({CS}) \in Quiet /\ SHORT_WAIT \in Quiet
        /\ Clr({SCK}) \in Quiet /\ Set({SCK}) \in Quiet
    BY <2>1, QuietAccesses
  <2> QED
    BY <2>2 DEF assert_cs, deassert_cs
<1>3. /\ w \in Seq(Quiet) /\ Len(w) = 40
      /\ \A i \in 0 .. 7 : \A m \in 1 .. 5 : w[5 * i + m] = WriteBit(7 - i \in Command(c))[m]
  BY ByteAccesses
<1>4. /\ Bytes(c) \in Seq(Quiet) /\ Len(Bytes(c)) = 40 * (N - 1)
      /\ \A j \in 1 .. N - 1 : \A i \in 0 .. 7 : \A m \in 1 .. 5 :
           Bytes(c)[40 * (j - 1) + 5 * i + m] =
             IF Reading(c) THEN ReadBit[m] ELSE WriteBit(7 - i \in c.data[j])[m]
  BY BytesLaid
<1>5. s = assert_cs \o w \o Bytes(c) \o deassert_cs
  BY Zenon DEF Accesses
<1> HIDE DEF s, w, N
<1>6. FourLaid(Quiet, s, assert_cs, w, Bytes(c), deassert_cs)
  BY <1>2, <1>3, <1>4, <1>5, FourParts, Zenon
<1>7. /\ s \in Seq(Quiet) /\ Len(s) = 40 * N + 8
      /\ s[1] = SHORT_WAIT /\ s[2] = Clr({CS})
      /\ \A i \in 1 .. 40 : s[2 + i] = w[i]
      /\ \A i \in 1 .. 40 * (N - 1) : s[42 + i] = Bytes(c)[i]
      /\ \A q \in 1 .. 6 : s[2 + 40 * N + q] = deassert_cs[q]
  <2>1. s \in Seq(Quiet) /\ Len(s) = 40 * N + 8
    BY <1>1, <1>2, <1>3, <1>4, <1>6 DEF FourLaid
  <2>2. s[1] = SHORT_WAIT /\ s[2] = Clr({CS})
    BY <1>2, <1>6 DEF FourLaid
  <2>3. \A i \in 1 .. 40 : s[2 + i] = w[i]
    BY <1>2, <1>3, <1>6 DEF FourLaid
  <2>4. ASSUME NEW i \in 1 .. 40 * (N - 1)
        PROVE  s[42 + i] = Bytes(c)[i]
    <3>1. s[Len(assert_cs) + Len(w) + i] = Bytes(c)[i]
      BY <1>4, <1>6, <2>4, Zenon DEF FourLaid
    <3>2. Len(assert_cs) + Len(w) + i = 42 + i
      BY <1>2, <1>3
    <3> QED
      BY <3>1, <3>2
  <2>5. ASSUME NEW q \in 1 .. 6
        PROVE  s[2 + 40 * N + q] = deassert_cs[q]
    <3>1. s[Len(assert_cs) + Len(w) + Len(Bytes(c)) + q] = deassert_cs[q]
      BY <1>2, <1>6, <2>5, Zenon DEF FourLaid
    <3>2. Len(assert_cs) + Len(w) + Len(Bytes(c)) + q = 2 + 40 * N + q
      BY <1>1, <1>2, <1>3, <1>4
    <3> QED
      BY <3>1, <3>2
  <2> QED
    BY <2>1, <2>2, <2>3, <2>4, <2>5
<1>8. ASSUME NEW n \in 0 .. 8 * N - 1, NEW m \in 1 .. 5
      PROVE  s[2 + 5 * n + m] = BitOf(c, n)[m]
  <2> DEFINE j == n \div 8
             i == n % 8
  <2>1. /\ j \in Nat /\ i \in 0 .. 7 /\ n = 8 * j + i /\ j < N
    BY <1>1
  <2>2. SentBit(c, n) = (7 - i \in Sent(c, j + 1))
    BY DEF SentBit, BitIs
  <2> HIDE DEF j, i
  <2>3. CASE j = 0
    <3>1. n = i /\ ~Taken(c, n) /\ Sent(c, j + 1) = Command(c)
      BY <2>1, <2>3 DEF Taken, Sent
    <3>2. s[2 + (5 * i + m)] = w[5 * i + m]
      <4>1. 5 * i + m \in 1 .. 40
        BY <2>1
      <4> QED
        BY <1>7, <4>1, Zenon
    <3>3. 2 + (5 * i + m) = 2 + 5 * n + m
      BY <2>1, <3>1
    <3>4. w[5 * i + m] = WriteBit(7 - i \in Command(c))[m]
      BY <1>3, <2>1
    <3>5. BitOf(c, n) = WriteBit(7 - i \in Command(c))
      BY <2>2, <3>1, Zenon DEF BitOf
    <3> QED
      BY <3>2, <3>3, <3>4, <3>5
  <2>4. CASE j > 0
    <3>1. n >= 8 /\ Sent(c, j + 1) = c.data[j] /\ j \in 1 .. N - 1
      BY <1>1, <2>1, <2>4 DEF Sent
    <3>2. 40 * (j - 1) + 5 * i + m \in 1 .. 40 * (N - 1)
      BY <1>1, <2>1, <3>1
    <3>3. s[42 + (40 * (j - 1) + 5 * i + m)] = Bytes(c)[40 * (j - 1) + 5 * i + m]
      BY <1>7, <3>2
    <3>4. 42 + (40 * (j - 1) + 5 * i + m) = 2 + 5 * n + m
      BY <2>1
    <3>5. Bytes(c)[40 * (j - 1) + 5 * i + m] =
            IF Reading(c) THEN ReadBit[m] ELSE WriteBit(7 - i \in c.data[j])[m]
      BY <1>4, <2>1, <3>1
    <3>6. Taken(c, n) <=> Reading(c)
      BY <3>1 DEF Taken
    <3>7. BitOf(c, n) = IF Reading(c) THEN ReadBit ELSE WriteBit(7 - i \in c.data[j])
      BY <2>2, <3>1, <3>6, Zenon DEF BitOf
    <3> QED
      BY <3>3, <3>4, <3>5, <3>7
  <2> QED
    BY <2>1, <2>3, <2>4
<1>9. Laid(c, s)
  BY <1>7, <1>8 DEF Laid, CallLength, N
<1> QED
  BY <1>7, <1>9 DEF s

(***************************************************************************)
(* Mapping the registers and giving root rights back.                      *)
(***************************************************************************)
rootVars == <<uids, gpio_mmap, mappings, next>>

(* MappedInv and RootReleased depend on four variables only.               *)
LEMMA RootKept ==
  ASSUME MappedInv, RootReleased, UNCHANGED rootVars
  PROVE  MappedInv' /\ RootReleased'
BY DEF MappedInv, RootReleased, InUse, rootVars

(* Every step keeps MappedInv and RootReleased.                            *)
LEMMA RootStep ==
  ASSUME MappedInv, RootReleased, [Next]_busVars
  PROVE  MappedInv' /\ RootReleased'
<1>1. CASE GpioCall
  <2>1. CASE InitGpio
    BY <2>1 DEF InitGpio, Finish, MappedInv, RootReleased, InUse, Steps
  <2>2. CASE PeripheralBase
    BY <2>2 DEF PeripheralBase, Finish, MappedInv, RootReleased, InUse, Steps
  <2>3. CASE OpenMem
    BY <2>3 DEF OpenMem, Finish, MappedInv, RootReleased, InUse, Steps
  <2>4. CASE MapRegisters
    BY <2>4 DEF MapRegisters, Finish, MappedInv, RootReleased, InUse, Steps
  <2>5. CASE DropRoot
    BY <2>5 DEF DropRoot, DropFails, DropGoesOn, Finish, MappedInv, RootReleased,
         InUse, Steps
  <2>6. CASE VerifyDrop
    <3>1. CASE MaySetuid(0)
      BY <2>6, <3>1 DEF VerifyDrop, Regained, DropFails, Finish, MappedInv,
           RootReleased, InUse, Steps
    <3>2. CASE ~MaySetuid(0)
      <4>1. 0 \notin {uids.real, uids.effective, uids.saved}
        BY <3>2 DEF MaySetuid
      <4>2. uids' = uids /\ next' = "pins" /\ UNCHANGED <<gpio_mmap, mappings>>
        BY <2>6, <3>2 DEF VerifyDrop, Regained, DropGoesOn
      <4>3. next = "verify"
        BY <2>6 DEF VerifyDrop
      <4> QED
        BY <4>1, <4>2, <4>3 DEF MappedInv, RootReleased, InUse, Steps
    <3> QED
      BY <3>1, <3>2
  <2>7. CASE CloseGpio
    BY <2>7 DEF CloseGpio, MappedInv, RootReleased, InUse, Steps
  <2> QED
    BY <1>1, <2>1, <2>2, <2>3, <2>4, <2>5, <2>6, <2>7 DEF GpioCall, GpioNext
<1>2. CASE InitSpi
  BY <1>2 DEF InitSpi, MappedInv, RootReleased, InUse, Steps
<1>3. CASE SpiReady
  BY <1>3 DEF SpiReady, Finish, MappedInv, RootReleased, InUse, Steps
<1>4. CASE UNCHANGED rootVars
  BY <1>4, RootKept
<1>5. CASE \/ Call \/ PinWrite \/ PinFunction \/ PinRead \/ Wait \/ Return
           \/ ChipRise \/ ChipFall \/ ChipOther \/ UNCHANGED busVars
  <2>1. UNCHANGED rootVars
    BY <1>5, Zenon DEF Call, PinWrite, PinFunction, PinRead, Wait, Return, ChipRise,
         ChipFall, ChipOther, rootVars, gpioVars, busVars
  <2> QED
    BY <2>1, RootKept
<1> QED
  BY <1>1, <1>2, <1>3, <1>5, Zenon DEF Next

(***************************************************************************)
(* The functions of the pins.                                              *)
(***************************************************************************)
pinVars == <<function, before, gpio_mmap, next, todo>>

(* PinsInv depends on five variables only.                                 *)
LEMMA PinsKept ==
  ASSUME PinsInv, UNCHANGED pinVars
  PROVE  PinsInv'
BY DEF PinsInv, pinVars, Directed, Turned

(* What is left of ten accesses, and the next of those of init_spi.        *)
LEMMA RestOf ==
  ASSUME NEW S, NEW s \in Seq(S), Len(s) = 10, NEW m \in 1 .. 11
  PROVE  /\ SubSeq(s, m, 10) \in Seq(S) /\ Len(SubSeq(s, m, 10)) = 11 - m
         /\ \A i \in 1 .. 11 - m : SubSeq(s, m, 10)[i] = s[m + i - 1]
<1>1. \A i \in m .. 10 : s[i] \in S
  <2> TAKE i \in m .. 10
  <2>1. i \in 1 .. Len(s)
    OBVIOUS
  <2> QED
    BY <2>1, ElementOfSeq
<1>2. /\ SubSeq(s, m, 10) \in Seq(S)
      /\ Len(SubSeq(s, m, 10)) = IF m <= 10 THEN 10-m+1 ELSE 0
      /\ \A i \in 1 .. 10-m+1 : SubSeq(s, m, 10)[i] = s[m + i - 1]
  BY <1>1, SubSeqProperties
<1> QED
  BY <1>2

(* The access of init_spi that comes next, and what is left after it.      *)
LEMMA NextAccess ==
  ASSUME NEW k \in 0 .. 10, todo = SubSeq(init_spi, k+1, 10), todo # <<>>
  PROVE  k < 10 /\ Head(todo) = init_spi[k+1] /\ Tail(todo) = SubSeq(init_spi, k+2, 10)
<1> DEFINE S == [do : {"input", "output", "set", "clr"}, pins : SUBSET Bus]
<1>1. init_spi \in Seq(S) /\ Len(init_spi) = 10
  BY InitSpiIs
<1> HIDE DEF S
<1>2. /\ todo \in Seq(S) /\ Len(todo) = 10 - k
      /\ \A i \in 1 .. 10 - k : todo[i] = init_spi[k + i]
  <2>1. k + 1 \in 1 .. 11 /\ 11 - (k+1) = 10 - k
    OBVIOUS
  <2>2. /\ todo \in Seq(S) /\ Len(todo) = 11 - (k+1)
        /\ \A i \in 1 .. 11 - (k+1) : todo[i] = init_spi[(k+1) + i - 1]
    BY <1>1, <2>1, RestOf
  <2> QED
    BY <2>1, <2>2
<1>3. k < 10
  BY <1>2
<1>4. Head(todo) = init_spi[k+1]
  BY <1>2, <1>3
<1>5. Tail(todo) = SubSeq(init_spi, k+2, 10)
  <2> DEFINE t == Tail(todo)
             u == SubSeq(init_spi, k+2, 10)
  <2>1. /\ t \in Seq(S) /\ Len(t) = 9 - k
        /\ \A i \in 1 .. 9 - k : t[i] = init_spi[k + 1 + i]
    BY <1>2, <1>3
  <2>2. /\ u \in Seq(S) /\ Len(u) = 9 - k
        /\ \A i \in 1 .. 9 - k : u[i] = init_spi[k + 1 + i]
    <3>1. k + 2 \in 1 .. 11 /\ 11 - (k+2) = 9 - k
      BY <1>3
    <3>2. /\ u \in Seq(S) /\ Len(u) = 11 - (k+2)
          /\ \A i \in 1 .. 11 - (k+2) : u[i] = init_spi[(k+2) + i - 1]
      BY <1>1, <3>1, RestOf
    <3> HIDE DEF u
    <3>3. \A i \in 1 .. 9 - k : (k+2) + i - 1 = k + 1 + i
      OBVIOUS
    <3> QED
      BY <3>1, <3>2, <3>3
  <2> HIDE DEF t, u
  <2>3. t = u
    BY <2>1, <2>2, SeqEqual
  <2> QED
    BY <2>3 DEF t, u
<1> QED
  BY <1>3, <1>4, <1>5

(* An access that leaves the functions alone.                              *)
LEMMA PinsPass ==
  ASSUME PinsInv, todo # <<>>, todo' = Tail(todo), Head(todo).do \notin {"input", "output"},
         UNCHANGED <<function, before, gpio_mmap, next>>
  PROVE  PinsInv'
<1>1. next \in {"spi", "idle"}
  BY DEF PinsInv
<1>2. CASE next = "spi"
  <2>1. PICK k \in 0 .. 10 : todo = SubSeq(init_spi, k+1, 10) /\ Turned(k)
    BY <1>2 DEF PinsInv
  <2>2. k < 10 /\ Head(todo) = init_spi[k+1] /\ Tail(todo) = SubSeq(init_spi, k+2, 10)
    BY <2>1, NextAccess
  <2>3. k >= 8
    <3>1. /\ \A p : Input(p).do = "input" /\ SetBit(p).do = "output"
      BY DEF Input, SetBit
    <3>2. \A i \in 1 .. 8 : init_spi[i].do \in {"input", "output"}
      BY <3>1, InitSpiIs
    <3> QED
      BY <2>2, <3>2
  <2>4. Turned(k+1)'
    BY <2>1, <2>2, <2>3 DEF Turned
  <2>5. k + 1 \in 0 .. 10 /\ todo' = SubSeq(init_spi, (k+1)+1, 10)
    BY <2>2
  <2>6. \E l \in 0 .. 10 : todo' = SubSeq(init_spi, l+1, 10) /\ Turned(l)'
    BY <2>4, <2>5
  <2> QED
    BY <1>2, <2>6 DEF PinsInv
<1>3. CASE next = "idle"
  <2>1. Tail(todo) \in Seq(Quiet)
    BY <1>3 DEF PinsInv
  <2> QED
    BY <1>3, <2>1 DEF PinsInv, Directed, Turned
<1> QED
  BY <1>1, <1>2, <1>3

(* An access that changes a function: k is the number of those done.       *)
LEMMA PinsTurn ==
  ASSUME PinsInv, PinFunction
  PROVE  PinsInv'
<1>1. PICK p \in GPIOS :
        \/ Doing("input") /\ Head(todo).pins = {p}
             /\ function' = [function EXCEPT ![p] = 0]
        \/ Doing("output") /\ Head(todo).pins = {p}
             /\ function' = [function EXCEPT ![p] = @ - (@ % 2) + 1]
  BY DEF PinFunction
<1>2. todo # <<>> /\ todo' = Tail(todo) /\ UNCHANGED <<before, gpio_mmap, next>>
  BY <1>1 DEF PinFunction, Doing
<1>3. next = "spi"
  <2>1. next \in {"spi", "idle"}
    BY <1>2 DEF PinsInv
  <2>2. CASE next = "idle"
    <3>1. todo \in Seq(Quiet) /\ Head(todo) \in Quiet
      BY <1>2, <2>2 DEF PinsInv
    <3>2. Head(todo).do \in {"input", "output"}
      BY <1>1 DEF Doing
    <3> QED
      BY <3>1, <3>2 DEF Quiet
  <2> QED
    BY <2>1, <2>2
<1>4. PICK k \in 0 .. 10 : todo = SubSeq(init_spi, k+1, 10) /\ Turned(k)
  BY <1>3 DEF PinsInv
<1>5. k < 10 /\ Head(todo) = init_spi[k+1] /\ Tail(todo) = SubSeq(init_spi, k+2, 10)
  BY <1>2, <1>4, NextAccess
<1>6. \/ k = 0 /\ p = MISO /\ function' = [function EXCEPT ![MISO] = 0]
      \/ k = 1 /\ p = INT /\ function' = [function EXCEPT ![INT] = 0]
      \/ k = 2 /\ p = MOSI /\ function' = [function EXCEPT ![MOSI] = 0]
      \/ k = 3 /\ p = MOSI /\ function' = [function EXCEPT ![MOSI] = @ - (@ % 2) + 1]
      \/ k = 4 /\ p = CS /\ function' = [function EXCEPT ![CS] = 0]
      \/ k = 5 /\ p = CS /\ function' = [function EXCEPT ![CS] = @ - (@ % 2) + 1]
      \/ k = 6 /\ p = SCK /\ function' = [function EXCEPT ![SCK] = 0]
      \/ k = 7 /\ p = SCK /\ function' = [function EXCEPT ![SCK] = @ - (@ % 2) + 1]
  <2>1. \A q : Head(todo) = Input(q) =>
               p = q /\ function' = [function EXCEPT ![q] = 0]
    <3> SUFFICES ASSUME NEW q, Head(todo) = Input(q)
                 PROVE  p = q /\ function' = [function EXCEPT ![q] = 0]
      OBVIOUS
    <3>1. Head(todo).do = "input" /\ Head(todo).pins = {q}
      BY DEF Input
    <3>2. {p} = {q} /\ function' = [function EXCEPT ![p] = 0]
      BY <1>1, <3>1, Zenon DEF Doing
    <3>3. p = q
      BY <3>2
    <3> QED
      BY <3>2, <3>3, Zenon
  <2>2. \A q : Head(todo) = SetBit(q) =>
               p = q /\ function' = [function EXCEPT ![q] = @ - (@ % 2) + 1]
    <3> SUFFICES ASSUME NEW q, Head(todo) = SetBit(q)
                 PROVE  p = q /\ function' = [function EXCEPT ![q] = @ - (@ % 2) + 1]
      OBVIOUS
    <3>1. Head(todo).do = "output" /\ Head(todo).pins = {q}
      BY DEF SetBit
    <3>2. {p} = {q} /\ function' = [function EXCEPT ![p] = @ - (@ % 2) + 1]
      BY <1>1, <3>1, Zenon DEF Doing
    <3>3. p = q
      BY <3>2
    <3> QED
      BY <3>2, <3>3, Zenon
  <2>3. CASE k \in 0 .. 7
    <3>1. \/ k = 0 /\ Head(todo) = Input(MISO)
          \/ k = 1 /\ Head(todo) = Input(INT)
          \/ k = 2 /\ Head(todo) = Input(MOSI)
          \/ k = 3 /\ Head(todo) = SetBit(MOSI)
          \/ k = 4 /\ Head(todo) = Input(CS)
          \/ k = 5 /\ Head(todo) = SetBit(CS)
          \/ k = 6 /\ Head(todo) = Input(SCK)
          \/ k = 7 /\ Head(todo) = SetBit(SCK)
      <4>1. k \in {0, 1, 2, 3, 4, 5, 6, 7}
        BY <2>3
      <4>2. /\ 0 + 1 = 1 /\ 1 + 1 = 2 /\ 2 + 1 = 3 /\ 3 + 1 = 4
            /\ 4 + 1 = 5 /\ 5 + 1 = 6 /\ 6 + 1 = 7 /\ 7 + 1 = 8
        OBVIOUS
      <4> QED
        BY <1>5, <4>1, <4>2, InitSpiIs, Zenon
    <3> QED
      BY <2>1, <2>2, <3>1, Zenon
  <2>4. CASE k \in {8, 9}
    <3>1. Head(todo).do \in {"set", "clr"}
      BY <1>5, <2>4, InitSpiIs DEF Set, Clr
    <3> QED
      BY <1>1, <3>1 DEF Doing
  <2> QED
    BY <1>5, <2>3, <2>4
<1>7. p \in Bus
  BY <1>6 DEF Bus
<1>8. function' \in [GPIOS -> Int] /\ \A q \in GPIOS \ Bus : function'[q] = before'[q]
  BY <1>1, <1>2, <1>7 DEF PinsInv
<1>9. Turned(k+1)'
  <2>1. function \in [GPIOS -> Int] /\ Turned(k)
    BY <1>4 DEF PinsInv
  <2>2. CASE k = 0
    BY <1>6, <2>1, <2>2, Pairwise DEF Turned, Bus
  <2>3. CASE k = 1
    BY <1>6, <2>1, <2>3, Pairwise DEF Turned, Bus
  <2>4. CASE k = 2
    BY <1>6, <2>1, <2>4, Pairwise DEF Turned, Bus
  <2>5. CASE k = 3
    BY <1>6, <2>1, <2>5, Pairwise DEF Turned, Bus
  <2>6. CASE k = 4
    BY <1>6, <2>1, <2>6, Pairwise DEF Turned, Bus
  <2>7. CASE k = 5
    BY <1>6, <2>1, <2>7, Pairwise DEF Turned, Bus
  <2>8. CASE k = 6
    BY <1>6, <2>1, <2>8, Pairwise DEF Turned, Bus
  <2>9. CASE k = 7
    BY <1>6, <2>1, <2>9, Pairwise DEF Turned, Bus
  <2> QED
    BY <1>6, <2>2, <2>3, <2>4, <2>5, <2>6, <2>7, <2>8, <2>9
<1>10. k + 1 \in 0 .. 10 /\ todo' = SubSeq(init_spi, (k+1)+1, 10)
  BY <1>2, <1>5
<1>11. \E l \in 0 .. 10 : todo' = SubSeq(init_spi, l+1, 10) /\ Turned(l)'
  BY <1>9, <1>10
<1> QED
  BY <1>2, <1>3, <1>8, <1>11 DEF PinsInv

(* Every step keeps PinsInv.                                               *)
LEMMA PinsStep ==
  ASSUME BusInv, [Next]_busVars
  PROVE  PinsInv'
<1> USE DEF BusInv
<1>1. CASE GpioCall
  <2>1. todo = <<>> /\ todo' = <<>> /\ UNCHANGED <<function, before>>
    BY <1>1 DEF GpioCall, GpioNext, InitGpio, PeripheralBase, OpenMem, MapRegisters,
         DropRoot, VerifyDrop, CloseGpio
  <2>2. next' # "spi" /\ next # "spi"
    BY <1>1 DEF GpioCall, GpioNext, InitGpio, PeripheralBase, OpenMem, MapRegisters,
         DropRoot, VerifyDrop, CloseGpio, Finish, DropFails, DropGoesOn
  <2>3. next' = "idle" /\ gpio_mmap' = "mapped" => next = "idle" /\ gpio_mmap = "mapped"
    BY <1>1 DEF GpioCall, GpioNext, InitGpio, PeripheralBase, OpenMem, MapRegisters,
         DropRoot, VerifyDrop, CloseGpio, Finish, DropFails, DropGoesOn, MappedInv
  <2> QED
    BY <2>1, <2>2, <2>3 DEF PinsInv, Directed, Turned
<1>2. CASE InitSpi
  <2>1. todo' = SubSeq(init_spi, 0+1, 10)
    <3>1. SubSeq(init_spi, 1, Len(init_spi)) = init_spi
      BY InitSpiIs, SubSeqFull
    <3> QED
      BY <1>2, <3>1, InitSpiIs DEF InitSpi
  <2>2. Turned(0)'
    BY DEF Turned
  <2>3. \E k \in 0 .. 10 : todo' = SubSeq(init_spi, k+1, 10) /\ Turned(k)'
    BY <2>1, <2>2
  <2> QED
    BY <1>2, <2>3 DEF InitSpi, PinsInv
<1>3. CASE SpiReady
  <2>1. next = "spi" /\ todo = <<>> /\ next' = "idle" /\ todo' = <<>>
        /\ UNCHANGED <<function, before>>
    BY <1>3 DEF SpiReady, Finish
  <2>2. PICK k \in 0 .. 10 : todo = SubSeq(init_spi, k+1, 10) /\ Turned(k)
    BY <2>1 DEF PinsInv
  <2>3. k = 10
    <3>1. Len(SubSeq(init_spi, k+1, 10)) = IF k + 1 <= 10 THEN 10 - k ELSE 0
      BY InitSpiIs
    <3> QED
      BY <2>1, <2>2, <3>1
  <2> QED
    BY <2>1, <2>2, <2>3 DEF PinsInv, Directed, Turned
<1>4. CASE Call
  <2>1. todo' \in Seq(Quiet)
    BY <1>4, AccessesLaid DEF Call
  <2>2. next = "idle" /\ UNCHANGED <<function, before, gpio_mmap, next>>
    BY <1>4 DEF Call, gpioVars
  <2> QED
    BY <2>1, <2>2 DEF PinsInv, Directed, Turned
<1>5. CASE PinWrite \/ PinRead \/ Wait
  <2>1. /\ todo # <<>> /\ todo' = Tail(todo) /\ Head(todo).do \in {"clr", "set", "get", "wait"}
        /\ UNCHANGED <<function, before, gpio_mmap, next>>
    BY <1>5 DEF PinWrite, PinRead, Wait, Doing, gpioVars
  <2> QED
    BY <2>1, PinsPass
<1>6. CASE PinFunction
  BY <1>6, PinsTurn
<1>7. CASE Return \/ ChipRise \/ ChipFall \/ ChipOther \/ UNCHANGED busVars
  <2>1. UNCHANGED pinVars
    BY <1>7, Zenon DEF Return, ChipRise, ChipFall, ChipOther, busVars, gpioVars, pinVars
  <2> QED
    BY <2>1, PinsKept
<1> QED
  BY <1>1, <1>2, <1>3, <1>4, <1>5, <1>6, <1>7, Zenon DEF Next

(* BusInv holds at the start.                                              *)
LEMMA InitBusInv == Init => BusInv
<1> SUFFICES ASSUME Init
             PROVE  BusInv
  OBVIOUS
<1>1. /\ gpio_mmap = "NULL" /\ mappings = 0 /\ next = "idle" /\ todo = <<>>
      /\ function \in Before /\ before = function
  BY DEF Init, GpioInit
<1>2. function \in [GPIOS -> Int]
  <2>1. function \in [GPIOS -> 0 .. 7]
    BY <1>1, GpioAssumption
  <2> QED
    BY <2>1
<1> QED
  BY <1>1, <1>2 DEF BusInv, MappedInv, RootReleased, InUse, PinsInv, Steps

(* The state of init_gpio_spi, the functions of the pins, and what a call  *)
(* under way may still do (MappedInv, RootReleased, PinsInv).              *)
THEOREM BusInvariant == Spec => []BusInv
<1>1. BusInv /\ [Next]_busVars => BusInv'
  BY RootStep, PinsStep DEF BusInv
<1> QED
  BY <1>1, InitBusInv, PTL DEF Spec

(* While the registers are used the process is not root and cannot become  *)
(* root again, however it was started and how often the bus is opened      *)
(* (drop_root, init_gpio_spi).                                             *)
THEOREM RootIsReleased == Spec => []RootReleased
<1>1. BusInv => RootReleased
  BY DEF BusInv
<1> QED
  BY <1>1, BusInvariant, PTL

(* Once init_spi has run the pins of the bus have their directions, on any *)
(* board, and no call and no reopening changes them or another pin         *)
(* (init_spi, set_pin_input, set_pin_output).                              *)
THEOREM PinsAreDirected == Spec => []PinsDirected
<1>1. BusInv => PinsDirected
  <2> SUFFICES ASSUME BusInv
               PROVE  PinsDirected
    OBVIOUS
  <2>1. \A p \in GPIOS \ {MOSI, MISO, SCK, CS, INT} : function[p] = before[p]
    BY DEF BusInv, PinsInv, Bus
  <2>2. ASSUME InUse, next = "idle"
        PROVE  /\ function[MISO] = 0 /\ function[INT] = 0
               /\ function[MOSI] = 1 /\ function[CS] = 1 /\ function[SCK] = 1
    BY <2>2 DEF BusInv, PinsInv, InUse, Directed, Turned
  <2> QED
    BY <2>1, <2>2 DEF PinsDirected
<1> QED
  BY <1>1, BusInvariant, PTL

(***************************************************************************)
(* What is left of a call after p of its accesses.                         *)
(***************************************************************************)
Left(c, p) ==
  /\ todo \in Seq(Quiet) /\ Len(todo) = CallLength(c) - p
  /\ \A i \in 1 .. CallLength(c) - p : todo[i] = Accesses(c)[p + i]

(* All of a call is left when it begins.                                   *)
LEMMA LeftAtFirst ==
  ASSUME NEW c \in Calls, todo' = Accesses(c)
  PROVE  Left(c, 0)'
<1>1. Accesses(c) \in Seq(Quiet) /\ Len(Accesses(c)) = CallLength(c)
  BY AccessesLaid DEF Laid
<1>2. CallLength(c) \in Nat
  BY CallTypes DEF CallLength
<1> QED
  BY <1>1, <1>2 DEF Left

(* An access of a call leaves one access less.                             *)
LEMMA LeftOne ==
  ASSUME NEW c \in Calls, NEW p \in 0 .. CallLength(c), Left(c, p),
         todo # <<>>, todo' = Tail(todo)
  PROVE  /\ p < CallLength(c) /\ Head(todo) \in Quiet
         /\ Head(todo) = Accesses(c)[p + 1] /\ Left(c, p + 1)'
<1>1. CallLength(c) \in Nat
  BY CallTypes DEF CallLength
<1>2. /\ todo \in Seq(Quiet) /\ Len(todo) = CallLength(c) - p
      /\ \A i \in 1 .. CallLength(c) - p : todo[i] = Accesses(c)[p + i]
  BY DEF Left
<1>3. p < CallLength(c)
  BY <1>1, <1>2
<1>4. Head(todo) \in Quiet /\ Head(todo) = todo[1]
  BY <1>2
<1>5. Head(todo) = Accesses(c)[p + 1]
  BY <1>1, <1>2, <1>3, <1>4
<1>6. /\ todo' \in Seq(Quiet) /\ Len(todo') = CallLength(c) - p - 1
      /\ \A i \in 1 .. CallLength(c) - p - 1 : todo'[i] = todo[i + 1]
  BY <1>1, <1>2, <1>3
<1>7. \A i \in 1 .. CallLength(c) - (p + 1) : todo'[i] = Accesses(c)[(p + 1) + i]
  <2> TAKE i \in 1 .. CallLength(c) - (p + 1)
  <2>1. i + 1 \in 1 .. CallLength(c) - p /\ p + (i + 1) = (p + 1) + i
        /\ i \in 1 .. CallLength(c) - p - 1
    BY <1>1
  <2>2. todo'[i] = todo[i + 1] /\ todo[i + 1] = Accesses(c)[p + (i + 1)]
    BY <1>2, <1>6, <2>1
  <2> QED
    BY <2>1, <2>2
<1>8. Left(c, p + 1)'
  <2>1. Len(todo') = CallLength(c) - (p + 1)
    BY <1>1, <1>6
  <2> QED
    BY <1>6, <1>7, <2>1, Zenon DEF Left
<1> QED
  BY <1>3, <1>4, <1>5, <1>8

(***************************************************************************)
(* The command byte and what the chip makes of it.                         *)
(***************************************************************************)
Kinds == {"read", "write", "set", "clear", "buffer_write", "buffer_read", "reset"}

(* The seven operations and their bits.                                    *)
LEMMA Operations ==
  /\ DOMAIN OPERATION = Kinds
  /\ OPERATION["read"] = {} /\ OPERATION["write"] = {6} /\ OPERATION["set"] = {7}
  /\ OPERATION["clear"] = {7, 5} /\ OPERATION["buffer_write"] = {6, 5}
  /\ OPERATION["buffer_read"] = {5} /\ OPERATION["reset"] = {7, 6, 5}
BY DEF OPERATION, Kinds

(* No two operations have the same bits.                                   *)
LEMMA OperationsDiffer ==
  ASSUME NEW v \in Kinds, NEW w \in Kinds, OPERATION[v] = OPERATION[w]
  PROVE  v = w
<1>1. /\ 5 \in OPERATION[v] <=> v \in {"clear", "buffer_write", "buffer_read", "reset"}
      /\ 6 \in OPERATION[v] <=> v \in {"write", "buffer_write", "reset"}
      /\ 7 \in OPERATION[v] <=> v \in {"set", "clear", "reset"}
  BY Operations DEF Kinds
<1>2. /\ 5 \in OPERATION[w] <=> w \in {"clear", "buffer_write", "buffer_read", "reset"}
      /\ 6 \in OPERATION[w] <=> w \in {"write", "buffer_write", "reset"}
      /\ 7 \in OPERATION[w] <=> w \in {"set", "clear", "reset"}
  BY Operations DEF Kinds
<1> QED
  BY <1>1, <1>2 DEF Kinds

What(command) == CHOOSE w \in DOMAIN OPERATION : OPERATION[w] = command \ 0 .. 4

(* The chip takes the operation and the address out of the command byte.   *)
LEMMA CommandUnderstood ==
  ASSUME NEW c \in Calls
  PROVE  /\ c.do \in Kinds /\ What(Command(c)) = c.do
         /\ Command(c) \in SUBSET (0 .. 7)
         /\ c.do \in {"read", "write", "set", "clear"} => Command(c) \cap 0 .. 4 = c.address
<1>1. c.do \in Kinds /\ c.address \in SUBSET (0 .. 4)
  BY CallTypes, Operations, BusAssumption
<1>2. OPERATION[c.do] \in SUBSET {5, 6, 7}
  BY <1>1, Operations DEF Kinds
<1> DEFINE low == CASE c.do = "reset" -> 0 .. 4
                    [] c.do \in {"buffer_write", "buffer_read"} -> BUFFER_MEMORY
                    [] OTHER -> c.address
<1>3. Command(c) = OPERATION[c.do] \cup low
  BY Zenon DEF Command
<1>4. low \in SUBSET (0 .. 4)
  BY <1>1 DEF BUFFER_MEMORY, Kinds
<1>5. c.do \in {"read", "write", "set", "clear"} => low = c.address
  OBVIOUS
<1> HIDE DEF low
<1>6. Command(c) \ 0 .. 4 = OPERATION[c.do] /\ Command(c) \cap 0 .. 4 = low
  <2> DEFINE op == OPERATION[c.do]
             digits == 0 .. 4
  <2>1. \A x \in op : x \notin digits
    BY <1>2
  <2>2. Command(c) = op \cup low /\ low \subseteq digits
    BY <1>3, <1>4
  <2> HIDE DEF op, digits
  <2>3. Command(c) \ digits = op /\ Command(c) \cap digits = low
    BY <2>1, <2>2
  <2> QED
    BY <2>3 DEF op, digits
<1>7. What(Command(c)) = c.do
  <2>1. DOMAIN OPERATION = Kinds
    BY Operations
  <2>2. \A w \in Kinds : OPERATION[w] = Command(c) \ 0 .. 4 => w = c.do
    BY <1>1, <1>6, OperationsDiffer, Zenon
  <2> QED
    BY <1>1, <1>6, <2>1, <2>2, Zenon DEF What
<1>8. Command(c) \in SUBSET (0 .. 7)
  <2>1. \A x \in OPERATION[c.do] : x \in 0 .. 7
    BY <1>2
  <2>2. \A x \in low : x \in 0 .. 7
    BY <1>4
  <2> QED
    BY <1>3, <2>1, <2>2, Zenon
<1> QED
  BY <1>1, <1>5, <1>6, <1>7, <1>8

(***************************************************************************)
(* The chip in the middle of a call: Len(shift) bits of it are in, the     *)
(* bytes they make up have had their effect, and out is what it sends.     *)
(***************************************************************************)
Byte == SUBSET (0 .. 7)

WireTypes ==
  /\ latch \subseteq Outputs /\ seen \subseteq Outputs
  /\ shift \in Seq(BOOLEAN) /\ input \in Seq(BOOLEAN) /\ miso \in BOOLEAN
  /\ CS \in seen => shift = <<>>

ChipTypes ==
  /\ out \in Byte /\ delivered \in Seq(Byte)
  /\ registers \in [Addresses -> Byte] /\ memory \in [0 .. CELLS-1 -> Byte]
  /\ read_at \in 0 .. CELLS-1 /\ write_at \in 0 .. CELLS-1

(* The bits clocked in are those sent; a chip that sends looks at none.    *)
BitsIn(c, bits) ==
  \A n \in 0 .. Len(bits) - 1 : Taken(c, n) \/ (bits[n+1] <=> SentBit(c, n))

Progress(c, b) ==
  /\ step = IF c.do = "reset" THEN b \div 8 ELSE IF b < 8 THEN 0 ELSE (b \div 8) - 1
  /\ Len(delivered) = IF Reading(c) THEN step ELSE 0
  /\ b >= 8 /\ c.do = "read" => out = registers[c.address]
  /\ b >= 8 /\ c.do = "buffer_read" => out = memory[read_at]

ChipAt(c) == BitsIn(c, shift) /\ Progress(c, Len(shift))

(* The byte j that the chip gives out, and its bits.                       *)
Given(j) == IF j <= Len(delivered) THEN delivered[j] ELSE out

GivenBit(n) == BitIs(n, Given(n \div 8))

(* What the driver has read before bit n.                                  *)
InputAt(c, n) ==
  /\ Len(input) = IF Reading(c) /\ n > 8 THEN n - 8 ELSE 0
  /\ \A x \in 1 .. Len(input) : input[x] <=> GivenBit(x + 7)

(* Eight bits make the byte that was sent.                                 *)
LEMMA EightBits ==
  ASSUME NEW c, NEW j \in Nat \ {0}, NEW bits, NEW b \in Nat, b = Len(bits), b >= 8 * j,
         Sent(c, j) \in Byte,
         \A n \in 8 * j - 8 .. 8 * j - 1 : bits[n+1] <=> SentBit(c, n)
  PROVE  {k \in 0 .. 7 : bits[8 * j - k]} = Sent(c, j)
<1>1. ASSUME NEW k \in 0 .. 7
      PROVE  bits[8 * j - k] <=> k \in Sent(c, j)
  <2> DEFINE n == 8 * j - 1 - k
  <2>1. /\ n \in 8 * j - 8 .. 8 * j - 1 /\ n + 1 = 8 * j - k
        /\ 7 - (n % 8) = k /\ (n \div 8) + 1 = j
    OBVIOUS
  <2>2. bits[n+1] <=> SentBit(c, n)
    BY <2>1
  <2>3. SentBit(c, n) <=> k \in Sent(c, j)
    BY <2>1 DEF SentBit, BitIs
  <2> QED
    BY <2>1, <2>2, <2>3, Zenon
<1>2. \A k \in Sent(c, j) : k \in 0 .. 7
  BY DEF Byte
<1> HIDE DEF Sent
<1> QED
  BY <1>1, <1>2, Zenon

(* A bit appended to a sequence of bits.                                   *)
LEMMA BitAppended ==
  ASSUME NEW s \in Seq(BOOLEAN), NEW one \in BOOLEAN
  PROVE  /\ Append(s, one) \in Seq(BOOLEAN) /\ Len(Append(s, one)) = Len(s) + 1
         /\ \A i \in 1 .. Len(s) : Append(s, one)[i] = s[i]
         /\ Append(s, one)[Len(s) + 1] = one
OBVIOUS

(* A byte that is sent is a byte, and after the first it is one of the     *)
(* data.                                                                   *)
LEMMA SentTyped ==
  ASSUME NEW c \in Calls, NEW j \in 1 .. ByteCount(c)
  PROVE  Sent(c, j) \in Byte /\ (j > 1 => Sent(c, j) = c.data[j-1] /\ c.do # "reset")
<1>1. c.data \in Seq(Byte) /\ Len(c.data) \in Nat /\ Command(c) \in Byte
  BY CallTypes, CommandUnderstood DEF Byte
<1>2. CASE j = 1
  BY <1>1, <1>2 DEF Sent
<1>3. CASE j > 1
  <2>1. c.do # "reset" /\ j - 1 \in 1 .. Len(c.data)
    BY <1>1, <1>3 DEF ByteCount
  <2>2. c.data[j-1] \in Byte
    BY <1>1, <2>1
  <2> QED
    BY <1>3, <2>1, <2>2 DEF Sent
<1> QED
  BY <1>2, <1>3

(* What ChipByte does at the end of byte j of a call c, with the command   *)
(* decoded.                                                                *)
Does(c, j, w) == c.do = w /\ (j = 1) = (w = "reset")

ByteEffect(c, j) ==
  /\ registers' = CASE Does(c, j, "write") -> [registers EXCEPT ![c.address] = Sent(c, j)]
                    [] Does(c, j, "set")   -> [registers EXCEPT ![c.address] = @ \cup Sent(c, j)]
                    [] Does(c, j, "clear") -> [registers EXCEPT ![c.address] = @ \ Sent(c, j)]
                    [] Does(c, j, "reset") -> [x \in Addresses |-> {}]
                    [] OTHER               -> registers
  /\ IF Does(c, j, "buffer_write")
     THEN memory' = [memory EXCEPT ![write_at] = Sent(c, j)]
            /\ write_at' = (write_at + 1) % CELLS
     ELSE UNCHANGED <<memory, write_at>>
  /\ read_at' = IF Does(c, j, "buffer_read") THEN (read_at + 1) % CELLS ELSE read_at
  /\ delivered' = IF Does(c, j, "read") \/ Does(c, j, "buffer_read")
                  THEN Append(delivered, out) ELSE delivered
  /\ out' = CASE c.do = "read"        -> registers[c.address]
              [] c.do = "buffer_read" -> memory[read_at']
              [] OTHER                -> out
  /\ step' = IF (j = 1) = (c.do = "reset") THEN step + 1 ELSE step

(* ChipByte does to a byte of a call what ByteEffect says.                 *)
LEMMA ByteDecoded ==
  ASSUME NEW c \in Calls, NEW j \in 1 .. ByteCount(c), NEW bits \in Seq(BOOLEAN),
         Len(bits) = 8 * j, BitsIn(c, bits), ChipByte(bits)
  PROVE  ByteEffect(c, j)
<1> DEFINE command == Last8(SubSeq(bits, 1, 8))
           a       == command \cap 0 .. 4
           byte    == Last8(bits)
           first   == Len(bits) = 8
<1>0. j \in Nat \ {0} /\ Len(bits) \in Nat
  BY CallTypes
<1>1. command = Command(c)
  <2>1. \A k \in 0 .. 7 : SubSeq(bits, 1, 8)[8 - k] = bits[8 - k]
    BY <1>0
  <2>2. Len(SubSeq(bits, 1, 8)) = 8
    BY <1>0
  <2>3. command = {k \in 0 .. 7 : bits[8 * 1 - k]}
    BY <2>1, <2>2 DEF Last8
  <2>4. \A n \in 8 * 1 - 8 .. 8 * 1 - 1 : bits[n+1] <=> SentBit(c, n)
    BY <1>0 DEF BitsIn, Taken
  <2>5. Sent(c, 1) = Command(c) /\ Sent(c, 1) \in Byte
    <3>1. 1 \in 1 .. ByteCount(c)
      BY CallTypes
    <3> QED
      BY <3>1, SentTyped DEF Sent
  <2>6. {k \in 0 .. 7 : bits[8 * 1 - k]} = Sent(c, 1)
    BY <1>0, <2>4, <2>5, EightBits
  <2> QED
    BY <2>3, <2>5, <2>6
<1>2. first <=> j = 1
  BY <1>0
<1>3. (j = 1 \/ ~Reading(c)) => byte = Sent(c, j)
  <2> SUFFICES ASSUME j = 1 \/ ~Reading(c)
               PROVE  byte = Sent(c, j)
    OBVIOUS
  <2>1. byte = {k \in 0 .. 7 : bits[8 * j - k]}
    BY DEF Last8
  <2>2. \A n \in 8 * j - 8 .. 8 * j - 1 : bits[n+1] <=> SentBit(c, n)
    BY <1>0 DEF BitsIn, Taken
  <2>3. Sent(c, j) \in Byte
    BY SentTyped
  <2>4. {k \in 0 .. 7 : bits[8 * j - k]} = Sent(c, j)
    BY <1>0, <2>2, <2>3, EightBits
  <2> QED
    BY <2>1, <2>4
<1>4. What(command) = c.do
  BY <1>1, CommandUnderstood
<1>5. c.do \in {"read", "write", "set", "clear"} => a = c.address
  BY <1>1, CommandUnderstood
<1> DEFINE does(w) == c.do = w /\ first = (w = "reset")
<1>6. /\ registers' = CASE does("write") -> [registers EXCEPT ![a] = byte]
                        [] does("set")   -> [registers EXCEPT ![a] = @ \cup byte]
                        [] does("clear") -> [registers EXCEPT ![a] = @ \ byte]
                        [] does("reset") -> [x \in Addresses |-> {}]
                        [] OTHER         -> registers
      /\ IF does("buffer_write")
         THEN memory' = [memory EXCEPT ![write_at] = byte]
                /\ write_at' = (write_at + 1) % CELLS
         ELSE UNCHANGED <<memory, write_at>>
      /\ read_at' = IF does("buffer_read") THEN (read_at + 1) % CELLS ELSE read_at
      /\ delivered' = IF does("read") \/ does("buffer_read")
                      THEN Append(delivered, out) ELSE delivered
      /\ out' = CASE c.do = "read"        -> registers[a]
                  [] c.do = "buffer_read" -> memory[read_at']
                  [] OTHER                -> out
      /\ step' = IF first = (c.do = "reset") THEN step + 1 ELSE step
  BY <1>4, Zenon DEF ChipByte, What
<1> HIDE DEF command, a, byte, first
<1>7. \A w : does(w) <=> Does(c, j, w)
  BY <1>2, Zenon DEF Does
<1>8. \A w \in {"write", "set", "clear", "buffer_write"} : does(w) => byte = Sent(c, j)
  BY <1>3 DEF Reading
<1>9. \A w \in {"write", "set", "clear"} : does(w) => a = c.address
  BY <1>5
<1> HIDE DEF does
<1>10. registers' = CASE Does(c, j, "write") -> [registers EXCEPT ![c.address] = Sent(c, j)]
                    [] Does(c, j, "set")   -> [registers EXCEPT ![c.address] = @ \cup Sent(c, j)]
                    [] Does(c, j, "clear") -> [registers EXCEPT ![c.address] = @ \ Sent(c, j)]
                    [] Does(c, j, "reset") -> [x \in Addresses |-> {}]
                    [] OTHER               -> registers
  BY <1>6, <1>7, <1>8, <1>9
<1>11. IF Does(c, j, "buffer_write")
       THEN memory' = [memory EXCEPT ![write_at] = Sent(c, j)]
              /\ write_at' = (write_at + 1) % CELLS
       ELSE UNCHANGED <<memory, write_at>>
  BY <1>6, <1>7, <1>8
<1>12. /\ read_at' = IF Does(c, j, "buffer_read") THEN (read_at + 1) % CELLS ELSE read_at
       /\ delivered' = IF Does(c, j, "read") \/ Does(c, j, "buffer_read")
                       THEN Append(delivered, out) ELSE delivered
  BY <1>6, <1>7
<1>13. out' = CASE c.do = "read"        -> registers[c.address]
                [] c.do = "buffer_read" -> memory[read_at']
                [] OTHER                -> out
  BY <1>5, <1>6
<1>14. step' = IF (j = 1) = (c.do = "reset") THEN step + 1 ELSE step
  BY <1>2, <1>6
<1> QED
  BY <1>10, <1>11, <1>12, <1>13, <1>14, Zenon DEF ByteEffect

(* The byte has the effect RegisterFile gives it; the first one of a call  *)
(* that is not a reset only tells the chip what to send.                   *)
LEMMA ByteTakesEffect ==
  ASSUME NEW c \in Calls, NEW j \in 1 .. ByteCount(c), call = c,
         UNCHANGED <<call, returned>>, ChipTypes, Progress(c, 8 * j - 1), ByteEffect(c, j)
  PROVE  /\ Progress(c, 8 * j)' /\ ChipTypes'
         /\ [File!Next]_File!fileVars
         /\ Reading(c) => \A i \in 1 .. j - 1 : Given(i)' = Given(i)
<1>0. /\ c.do \in Kinds /\ c.address \in Addresses /\ Len(c.data) \in Nat /\ CELLS \in Nat \ {0}
      /\ j \in Nat /\ j >= 1
  BY CallTypes, CommandUnderstood, BusAssumption
<1>1. /\ (8 * j - 1) \div 8 = j - 1 /\ (8 * j) \div 8 = j
      /\ 8 * j - 1 < 8 <=> j = 1
      /\ 8 * j >= 8
      /\ c.do = "reset" => j = 1
      /\ c.do # "reset" => j <= 1 + Len(c.data)
  BY <1>0 DEF ByteCount
<1>2. /\ step = IF c.do = "reset" \/ j = 1 THEN 0 ELSE j - 2
      /\ Len(delivered) = IF Reading(c) THEN step ELSE 0
      /\ j > 1 /\ c.do = "read" => out = registers[c.address]
      /\ j > 1 /\ c.do = "buffer_read" => out = memory[read_at]
  BY <1>0, <1>1 DEF Progress
<1>3. /\ Sent(c, j) \in Byte
      /\ j > 1 => Sent(c, j) = c.data[j-1] /\ c.do # "reset"
  BY SentTyped
<1>4. step' = IF c.do = "reset" THEN 1 ELSE j - 1
  BY <1>0, <1>1, <1>2 DEF ByteEffect
<1> DEFINE next_read == (read_at + 1) % CELLS
           next_write == (write_at + 1) % CELLS
<1>5. next_read \in 0 .. CELLS-1 /\ next_write \in 0 .. CELLS-1
  <2>1. read_at + 1 \in Nat /\ write_at + 1 \in Nat
    BY <1>0 DEF ChipTypes
  <2> QED
    BY <1>0, <2>1, ModParts
<1>6. UNCHANGED <<call, returned>>
  OBVIOUS
<1> DEFINE Goal == /\ Progress(c, 8 * j)' /\ ChipTypes'
                   /\ [File!Next]_File!fileVars
                   /\ Reading(c) => \A i \in 1 .. j - 1 : Given(i)' = Given(i)
<1>7. CASE j = 1 /\ c.do # "reset"
  <2>1. UNCHANGED <<registers, memory, write_at, read_at, delivered>>
    BY <1>7 DEF ByteEffect, Does
  <2>2. /\ c.do = "read" => out' = registers[c.address]
        /\ c.do = "buffer_read" => out' = memory[read_at]
        /\ c.do \notin {"read", "buffer_read"} => out' = out
    BY <2>1 DEF ByteEffect
  <2>3. out' \in Byte
    BY <1>0, <2>2 DEF ChipTypes
  <2>4. ChipTypes'
    BY <2>1, <2>3 DEF ChipTypes
  <2>5. step' = step
    BY <1>2, <1>4, <1>7
  <2>6. UNCHANGED File!fileVars
    BY <1>6, <2>1, <2>5 DEF File!fileVars
  <2>7. Progress(c, 8 * j)'
    BY <1>1, <1>2, <1>4, <1>7, <2>1, <2>2, <2>5 DEF Progress
  <2>8. \A i \in 1 .. j - 1 : FALSE
    BY <1>7
  <2> QED
    BY <2>4, <2>6, <2>7, <2>8
<1>8. CASE c.do = "reset"
  <2>1. j = 1 /\ Len(c.data) = 1
    BY <1>1, <1>8, CallsAssumption
  <2>2. /\ registers' = [x \in Addresses |-> {}]
        /\ UNCHANGED <<memory, write_at, read_at, delivered, out>>
    BY <1>8, <2>1 DEF ByteEffect, Does
  <2>3. File!Reset
    <3>1. step = 0 /\ step' = step + 1 /\ step < Len(c.data)
      BY <1>2, <1>4, <1>8, <2>1
    <3> QED
      BY <1>6, <1>8, <2>2, <3>1 DEF File!Reset, File!Step
  <2>4. ChipTypes'
    BY <2>2 DEF ChipTypes, Byte
  <2>5. Progress(c, 8 * j)'
    BY <1>1, <1>2, <1>4, <1>8, <2>1, <2>2 DEF Progress, Reading
  <2>6. ~Reading(c)
    BY <1>8 DEF Reading
  <2> QED
    BY <2>3, <2>4, <2>5, <2>6 DEF File!Next
<1>9. CASE j > 1 /\ c.do \in {"write", "set", "clear"}
  <2>1. UNCHANGED <<memory, write_at, read_at, delivered, out>>
    BY <1>9 DEF ByteEffect, Does
  <2>2. registers' = [registers EXCEPT ![c.address] =
          CASE c.do = "write" -> Sent(c, j)
            [] c.do = "set"   -> registers[c.address] \cup Sent(c, j)
            [] c.do = "clear" -> registers[c.address] \ Sent(c, j)]
    <3> DEFINE old == registers[c.address]
               New(byte) == [registers EXCEPT ![c.address] = byte]
    <3>1. ~(j = 1) /\ \A w : Does(c, j, w) <=> c.do = w /\ w # "reset"
      BY <1>9 DEF Does
    <3>2. registers' = CASE c.do = "write" -> New(Sent(c, j))
                         [] c.do = "set"   -> New(old \cup Sent(c, j))
                         [] c.do = "clear" -> New(old \ Sent(c, j))
      BY <1>9, <3>1 DEF ByteEffect
    <3> HIDE DEF New, old
    <3>3. registers' = New(CASE c.do = "write" -> Sent(c, j)
                             [] c.do = "set"   -> old \cup Sent(c, j)
                             [] c.do = "clear" -> old \ Sent(c, j))
      BY <1>9, <3>2
    <3> QED
      BY <3>3 DEF New, old
  <2>3. step' = step + 1 /\ step < Len(c.data) /\ Sent(c, j) = c.data[step']
    BY <1>0, <1>1, <1>2, <1>3, <1>4, <1>9
  <2>4. File!Change
    BY <1>6, <1>9, <2>1, <2>2, <2>3 DEF File!Change, File!Step
  <2>5. ChipTypes'
    <3>1. registers' \in [Addresses -> Byte]
      BY <1>0, <1>3, <1>9, <2>2 DEF ChipTypes, Byte
    <3> QED
      BY <2>1, <3>1 DEF ChipTypes
  <2>6. Progress(c, 8 * j)'
    BY <1>0, <1>1, <1>2, <1>4, <1>9, <2>1 DEF Progress, Reading
  <2>7. ~Reading(c)
    BY <1>9 DEF Reading
  <2> QED
    BY <2>4, <2>5, <2>6, <2>7 DEF File!Next
<1>10. CASE j > 1 /\ c.do = "buffer_write"
  <2>1. /\ UNCHANGED <<registers, read_at, delivered, out>>
        /\ memory' = [memory EXCEPT ![write_at] = Sent(c, j)] /\ write_at' = next_write
    BY <1>10 DEF ByteEffect, Does
  <2>2. step' = step + 1 /\ step < Len(c.data) /\ Sent(c, j) = c.data[step']
    BY <1>0, <1>1, <1>2, <1>3, <1>4, <1>10
  <2>3. File!BufferWrite
    BY <1>6, <1>10, <2>1, <2>2 DEF File!BufferWrite, File!Step
  <2> HIDE DEF next_write
  <2>4. ChipTypes'
    BY <1>3, <1>5, <2>1 DEF ChipTypes
  <2>5. Progress(c, 8 * j)'
    BY <1>0, <1>1, <1>2, <1>4, <1>10, <2>1 DEF Progress, Reading
  <2>6. ~Reading(c)
    BY <1>10 DEF Reading
  <2> QED
    BY <2>3, <2>4, <2>5, <2>6 DEF File!Next
<1>11. CASE j > 1 /\ Reading(c)
  <2>1. /\ UNCHANGED <<registers, memory, write_at>>
        /\ delivered' = Append(delivered, out)
        /\ read_at' = IF c.do = "read" THEN read_at ELSE next_read
        /\ out' = IF c.do = "read" THEN registers[c.address] ELSE memory[read_at']
    BY <1>11 DEF ByteEffect, Does, Reading
  <2>2. step' = step + 1 /\ step < Len(c.data) /\ step = j - 2 /\ Len(delivered) = j - 2
    BY <1>0, <1>1, <1>2, <1>4, <1>11 DEF Reading
  <2>3. c.do = "read" => File!Read
    BY <1>2, <1>6, <1>11, <2>1, <2>2 DEF File!Read, File!Step
  <2>4. c.do = "buffer_read" => File!BufferRead
    BY <1>2, <1>6, <1>11, <2>1, <2>2 DEF File!BufferRead, File!Step
  <2> HIDE DEF next_read
  <2>5. /\ delivered' \in Seq(Byte) /\ Len(delivered') = j - 1
        /\ \A i \in 1 .. j - 2 : delivered'[i] = delivered[i]
        /\ delivered'[j - 1] = out
    BY <1>0, <2>1, <2>2 DEF ChipTypes
  <2>6. ChipTypes'
    BY <1>0, <1>5, <2>1, <2>5 DEF ChipTypes
  <2>7. Progress(c, 8 * j)'
    BY <1>0, <1>1, <1>4, <1>11, <2>1, <2>5 DEF Progress, Reading
  <2>8. ASSUME NEW i \in 1 .. j - 1
        PROVE  Given(i)' = Given(i)
    BY <1>0, <2>2, <2>5 DEF Given
  <2>9. c.do \in {"read", "buffer_read"}
    BY <1>11 DEF Reading
  <2> QED
    BY <2>3, <2>4, <2>6, <2>7, <2>8, <2>9 DEF File!Next
<1> QED
  BY <1>0, <1>7, <1>8, <1>9, <1>10, <1>11 DEF Kinds, Reading

(***************************************************************************)
(* What a rise and a fall of the clock do in the middle of a call.         *)
(***************************************************************************)
LEMMA RiseTakesBit ==
  ASSUME NEW c \in Calls, call = c, WireTypes, ChipTypes, ChipAt(c), ChipRise,
         NEW b \in Nat, Len(shift) = b, b < 8 * ByteCount(c),
         Taken(c, b) \/ (MOSI \in Pins <=> SentBit(c, b))
  PROVE  /\ ChipAt(c)' /\ ChipTypes' /\ shift' \in Seq(BOOLEAN) /\ Len(shift') = b + 1
         /\ [File!Next]_File!fileVars
         /\ Reading(c) => \A i \in 1 .. b \div 8 : Given(i)' = Given(i)
<1> DEFINE one == MOSI \in Pins
<1>1. shift \in Seq(BOOLEAN) /\ one \in BOOLEAN /\ shift' = Append(shift, one)
  BY DEF WireTypes, ChipRise
<1>2. Taken(c, b) \/ (one <=> SentBit(c, b))
  OBVIOUS
<1> HIDE DEF one
<1>3. /\ shift' \in Seq(BOOLEAN) /\ Len(shift') = b + 1
      /\ \A i \in 1 .. b : shift'[i] = shift[i]
      /\ shift'[b + 1] = one
  BY <1>1, BitAppended
<1>4. BitsIn(c, shift')
  <2>1. ASSUME NEW n \in 0 .. b
        PROVE  Taken(c, n) \/ (shift'[n+1] <=> SentBit(c, n))
    <3>1. CASE n = b
      BY <1>2, <1>3, <3>1
    <3>2. CASE n < b
      <4>1. n + 1 \in 1 .. b /\ n \in 0 .. Len(shift) - 1
        BY <3>2
      <4>2. Taken(c, n) \/ (shift[n+1] <=> SentBit(c, n))
        BY <4>1 DEF ChipAt, BitsIn
      <4>3. shift'[n+1] = shift[n+1]
        BY <1>3, <4>1
      <4> QED
        BY <4>2, <4>3
    <3> QED
      BY <3>1, <3>2
  <2>2. Len(shift') - 1 = b
    BY <1>3
  <2> QED
    BY <2>1, <2>2, Zenon DEF BitsIn
<1>5. Progress(c, b)
  BY DEF ChipAt
<1>6. UNCHANGED <<call, returned>>
  BY DEF ChipRise, driverVars
<1>7. ASSUME Progress(c, b + 1)'
      PROVE  ChipAt(c)'
  <2>1. BitsIn(c, shift)'
    BY <1>4 DEF BitsIn, Taken, SentBit, BitIs
  <2>2. Progress(c, Len(shift))'
    BY <1>3, <1>7 DEF Progress
  <2> QED
    BY <2>1, <2>2 DEF ChipAt
<1>8. CASE (b + 1) % 8 # 0
  <2>1. UNCHANGED <<out, registers, memory, read_at, write_at, step, delivered>>
    BY <1>3, <1>8 DEF ChipRise
  <2>2. ChipTypes' /\ \A i : Given(i)' = Given(i)
    BY <2>1 DEF ChipTypes, Given
  <2>3. (b + 1) \div 8 = b \div 8 /\ (b + 1 < 8 <=> b < 8)
    BY <1>8
  <2>4. Progress(c, b + 1)'
    BY <1>5, <2>1, <2>3 DEF Progress
  <2>5. UNCHANGED File!fileVars
    BY <1>6, <2>1 DEF File!fileVars
  <2> QED
    BY <1>3, <1>7, <2>2, <2>4, <2>5
<1>9. CASE (b + 1) % 8 = 0
  <2> DEFINE j == (b + 1) \div 8
  <2>1. b + 1 = 8 * j /\ b = 8 * j - 1 /\ j \in Nat /\ j >= 1 /\ b \div 8 = j - 1
    BY <1>9
  <2>2. j \in 1 .. ByteCount(c)
    BY <2>1, CallTypes
  <2> HIDE DEF j
  <2>3. ChipByte(shift')
    BY <1>3, <1>9 DEF ChipRise
  <2>4. ByteEffect(c, j)
    BY <1>3, <1>4, <2>1, <2>2, <2>3, ByteDecoded
  <2>5. Progress(c, 8 * j - 1)
    BY <1>5, <2>1
  <2>6. /\ Progress(c, 8 * j)' /\ ChipTypes'
        /\ [File!Next]_File!fileVars
        /\ Reading(c) => \A i \in 1 .. j - 1 : Given(i)' = Given(i)
    BY <1>6, <2>2, <2>4, <2>5, ByteTakesEffect
  <2>7. Progress(c, b + 1)'
    BY <2>1, <2>6 DEF Progress
  <2> QED
    BY <1>3, <1>7, <2>1, <2>6, <2>7
<1> QED
  BY <1>8, <1>9

(* A fall of the clock puts out the bit the driver is to read.             *)
LEMMA FallGivesBit ==
  ASSUME NEW c \in Calls, call = c, ChipTypes, ChipAt(c), ChipFall,
         NEW n \in Nat, Len(shift) = n, Taken(c, n)
  PROVE  miso' <=> GivenBit(n)
<1>1. n >= 8 /\ Reading(c)
  BY DEF Taken
<1>2. c.do # "reset"
  BY <1>1 DEF Reading
<1>3. Len(delivered) = (n \div 8) - 1
  BY <1>1, <1>2 DEF ChipAt, Progress
<1>4. Given(n \div 8) = out
  <2>1. ~(n \div 8 <= Len(delivered))
    BY <1>3
  <2> QED
    BY <2>1 DEF Given
<1>5. miso' = (7 - (n % 8) \in out)
  BY DEF ChipFall
<1> QED
  BY <1>4, <1>5 DEF GivenBit, BitIs

(***************************************************************************)
(* The wires in the middle of a call.  The chip may not yet have seen the  *)
(* last change of the pins, and waits are what keeps it from missing one.  *)
(***************************************************************************)
(* The clock has risen for the bit before n, seen or not.                  *)
Between(c, n) ==
  /\ CS \notin latch
  /\ \/ n = 0 /\ Len(shift) = 0 /\ (SCK \in latch <=> SCK \in seen)
     \/ n > 0 /\ CS \notin seen /\ SCK \in latch /\ SCK \in seen /\ Len(shift) = n
     \/ n > 0 /\ CS \notin seen /\ SCK \in latch /\ SCK \notin seen /\ Len(shift) = n - 1
          /\ (Taken(c, n-1) \/ (MOSI \in latch <=> SentBit(c, n-1)))

(* The chip has seen all that the driver did.                              *)
Settled(n) == CS \notin latch /\ seen = latch /\ Len(shift) = n

(* The clock is low, seen or not.                                          *)
Low(n) == CS \notin latch \cup seen /\ SCK \notin latch /\ Len(shift) = n

(* After m accesses of bit n.                                              *)
BitAt(c, n, m) ==
  \/ m = 0 /\ Between(c, n)
  \/ m = 1 /\ Settled(n) /\ (n > 0 => SCK \in latch)
  \/ m = 2 /\ ~Taken(c, n) /\ Low(n) /\ MOSI \notin latch
  \/ m = 2 /\ Taken(c, n) /\ Low(n) /\ (SCK \notin seen => (miso <=> GivenBit(n)))
  \/ m = 3 /\ ~Taken(c, n) /\ Low(n) /\ (MOSI \in latch <=> SentBit(c, n))
  \/ m = 4 /\ ~Taken(c, n) /\ Low(n) /\ Settled(n) /\ (MOSI \in latch <=> SentBit(c, n))
  \/ m = 3 /\ Taken(c, n) /\ Low(n) /\ Settled(n) /\ (miso <=> GivenBit(n))
  \/ m = 4 /\ Taken(c, n) /\ CS \notin latch \cup seen /\ SCK \in latch
       /\ Len(shift) = (IF SCK \in seen THEN n + 1 ELSE n) /\ (miso <=> GivenBit(n))

(* After q accesses of deassert_cs, before CS rises.                       *)
EndAt(c, q) ==
  \/ q = 0 /\ Between(c, 8 * ByteCount(c))
  \/ q = 1 /\ Settled(8 * ByteCount(c))
  \/ q \in {2, 3} /\ Low(8 * ByteCount(c))

(* All of the call is done; what was read is what the chip gave.           *)
Done(c) ==
  /\ step = Len(c.data) /\ Len(delivered) = IF Reading(c) THEN step ELSE 0
  /\ Len(input) = 8 * Len(delivered)
  /\ \A x \in 1 .. Len(input) : input[x] <=> BitIs(x + 7, delivered[(x + 7) \div 8])

(* After p accesses of the call.                                           *)
BeginAt(p) ==
  /\ p \in {0, 1} /\ CS \in latch /\ (p = 1 => seen = latch)
  /\ step = 0 /\ delivered = <<>> /\ input = <<>>

MidAt(c, p) ==
  \E n \in 0 .. 8 * ByteCount(c) - 1 : \E m \in 0 .. 4 :
    p = 2 + 5 * n + m /\ BitAt(c, n, m) /\ InputAt(c, n) /\ ChipAt(c)

LastAt(c, p) ==
  \E q \in 0 .. 3 :
    /\ p = 2 + 40 * ByteCount(c) + q
    /\ EndAt(c, q) /\ InputAt(c, 8 * ByteCount(c)) /\ ChipAt(c)

AfterAt(c, p) == p >= 40 * ByteCount(c) + 6 /\ CS \in latch /\ Done(c)

CallAt(c, p) == BeginAt(p) \/ MidAt(c, p) \/ LastAt(c, p) \/ AfterAt(c, p)

(***************************************************************************)
(* The accesses of the driver.                                             *)
(***************************************************************************)
Performs(access) ==
  /\ access = SHORT_WAIT => seen = Pins /\ UNCHANGED <<latch, input>>
  /\ \A pins : access = Clr(pins) => latch' = latch \ pins /\ UNCHANGED input
  /\ \A pins : access = Set(pins) => latch' = latch \cup pins /\ UNCHANGED input
  /\ access = Get => input' = Append(input, miso) /\ UNCHANGED latch

DriverStep == PinWrite \/ PinRead \/ Wait

(* A step of the driver performs the access at the head of todo.           *)
LEMMA DriverPerforms ==
  ASSUME DriverStep
  PROVE  /\ todo # <<>> /\ todo' = Tail(todo) /\ Performs(Head(todo))
         /\ UNCHANGED <<call, calls, returned, chipVars, gpioVars>>
<1> DEFINE access == Head(todo)
<1>1. CASE PinWrite
  BY <1>1 DEF PinWrite, Doing, Performs, SHORT_WAIT, Clr, Set, Get
<1>2. CASE PinRead
  BY <1>2 DEF PinRead, Doing, Performs, SHORT_WAIT, Clr, Set, Get
<1>3. CASE Wait
  BY <1>3 DEF Wait, Doing, Performs, SHORT_WAIT, Clr, Set, Get, driverVars
<1> QED
  BY <1>1, <1>2, <1>3 DEF DriverStep

(* The accesses of a bit.                                                  *)
LEMMA BitIsMade ==
  /\ \A one : /\ WriteBit(one)[1] = SHORT_WAIT /\ WriteBit(one)[2] = Clr({SCK, MOSI})
              /\ WriteBit(one)[3] = Set(IF one THEN {MOSI} ELSE {})
              /\ WriteBit(one)[4] = SHORT_WAIT /\ WriteBit(one)[5] = Set({SCK})
  /\ ReadBit[1] = SHORT_WAIT /\ ReadBit[2] = Clr({SCK}) /\ ReadBit[3] = SHORT_WAIT
  /\ ReadBit[4] = Set({SCK}) /\ ReadBit[5] = Get
  /\ deassert_cs[1] = SHORT_WAIT /\ deassert_cs[2] = Clr({SCK})
  /\ deassert_cs[3] = SHORT_WAIT /\ deassert_cs[4] = Set({CS})
  /\ deassert_cs[5] = SHORT_WAIT /\ deassert_cs[6] = Set({SCK})
BY DEF WriteBit, ReadBit, deassert_cs

(* What has been read stays right while nothing is read or given out.      *)
LEMMA InputKept ==
  ASSUME NEW c, NEW n, InputAt(c, n), UNCHANGED <<input, delivered, out>>
  PROVE  InputAt(c, n)'
BY DEF InputAt, GivenBit, Given, BitIs

(* A bit that is written adds nothing to what is read.                     *)
LEMMA WrittenKept ==
  ASSUME NEW c, NEW n \in Nat, InputAt(c, n), ~Taken(c, n), UNCHANGED <<input, delivered, out>>
  PROVE  InputAt(c, n + 1)'
BY DEF InputAt, GivenBit, Given, BitIs, Taken

(* A bit that is read is the bit the chip gave.                            *)
LEMMA ReadAppended ==
  ASSUME NEW c, NEW n \in Nat, InputAt(c, n), Taken(c, n), UNCHANGED <<delivered, out>>,
         WireTypes, input' = Append(input, miso), miso <=> GivenBit(n)
  PROVE  InputAt(c, n + 1)'
<1>1. n >= 8 /\ Reading(c) /\ Len(input) = n - 8 /\ input \in Seq(BOOLEAN) /\ miso \in BOOLEAN
  BY DEF InputAt, Taken, WireTypes
<1>2. /\ Len(input') = n - 7
      /\ \A x \in 1 .. n - 8 : input'[x] = input[x]
      /\ input'[n - 7] = miso
  BY <1>1
<1>3. \A k : GivenBit(k)' <=> GivenBit(k)
  BY DEF GivenBit, Given, BitIs
<1>4. ASSUME NEW x \in 1 .. n - 7
      PROVE  input'[x] <=> GivenBit(x + 7)'
  <2>1. CASE x = n - 7
    <3>1. x + 7 = n
      BY <2>1
    <3> QED
      BY <1>2, <1>3, <2>1, <3>1
  <2>2. CASE x < n - 7
    <3>1. x \in 1 .. n - 8
      BY <1>1, <2>2
    <3>2. input[x] <=> GivenBit(x + 7)
      BY <1>1, <3>1 DEF InputAt
    <3> QED
      BY <1>2, <1>3, <3>1, <3>2
  <2> QED
    BY <1>1, <2>1, <2>2
<1>5. n + 1 > 8 /\ (n + 1) - 8 = n - 7
  BY <1>1
<1>6. (Len(input) = IF Reading(c) /\ n + 1 > 8 THEN (n + 1) - 8 ELSE 0)'
  BY <1>1, <1>2, <1>5 DEF Reading
<1> QED
  BY <1>2, <1>4, <1>6 DEF InputAt

(* An access of a bit leads to the next state of the wires.                *)
LEMMA BitStep ==
  ASSUME NEW c \in Calls, WireTypes, NEW n \in Nat, NEW m \in 0 .. 4,
         BitAt(c, n, m), InputAt(c, n), Pins = latch,
         Performs(BitOf(c, n)[m + 1]), UNCHANGED chipVars
  PROVE  /\ m < 4 => BitAt(c, n, m + 1)' /\ InputAt(c, n)'
         /\ m = 4 => Between(c, n + 1)' /\ InputAt(c, n + 1)'
<1> DEFINE one == SentBit(c, n)
           bit == IF one THEN {MOSI} ELSE {}
<1>0. MOSI # SCK /\ MOSI # CS /\ SCK # CS
  BY Pairwise
<1>1. /\ UNCHANGED <<seen, shift, miso, delivered, out>>
      /\ \A k : GivenBit(k)' <=> GivenBit(k)
      /\ \A k : (Taken(c, k)' <=> Taken(c, k)) /\ (SentBit(c, k)' <=> SentBit(c, k))
  BY DEF chipVars, GivenBit, Given, BitIs, Taken, Reading, SentBit
<1>2. ASSUME ~Taken(c, n)
      PROVE  /\ BitOf(c, n)[1] = SHORT_WAIT /\ BitOf(c, n)[2] = Clr({SCK, MOSI})
             /\ BitOf(c, n)[3] = Set(bit)
             /\ BitOf(c, n)[4] = SHORT_WAIT /\ BitOf(c, n)[5] = Set({SCK})
  <2>1. BitOf(c, n) = WriteBit(one)
    BY <1>2, Zenon DEF BitOf
  <2> HIDE DEF one
  <2> QED
    BY <2>1, BitIsMade
<1>3. ASSUME Taken(c, n)
      PROVE  /\ BitOf(c, n)[1] = SHORT_WAIT /\ BitOf(c, n)[2] = Clr({SCK})
             /\ BitOf(c, n)[3] = SHORT_WAIT
             /\ BitOf(c, n)[4] = Set({SCK}) /\ BitOf(c, n)[5] = Get
  <2>1. BitOf(c, n) = ReadBit
    BY <1>3, Zenon DEF BitOf
  <2> QED
    BY <2>1, BitIsMade
<1>4. (MOSI \in bit <=> one) /\ SCK \notin bit /\ CS \notin bit
  BY <1>0
<1> HIDE DEF bit
<1>5. CASE m = 0
  <2>1. seen = latch /\ UNCHANGED <<latch, input>>
    <3>1. BitOf(c, n)[m + 1] = SHORT_WAIT
      BY <1>2, <1>3, <1>5
    <3> QED
      BY <3>1 DEF Performs
  <2>2. Between(c, n)
    BY <1>5 DEF BitAt
  <2>3. Settled(n)' /\ (n > 0 => SCK \in latch')
    BY <1>1, <2>1, <2>2 DEF Between, Settled
  <2> QED
    BY <1>1, <1>5, <2>1, <2>3, InputKept DEF BitAt
<1>6. CASE m = 1 /\ ~Taken(c, n)
  <2>1. Settled(n)
    BY <1>6 DEF BitAt
  <2>2. latch' = latch \ {SCK, MOSI} /\ UNCHANGED input
    BY <1>2, <1>6 DEF Performs
  <2>3. Low(n)' /\ MOSI \notin latch'
    BY <1>1, <2>1, <2>2 DEF Settled, Low
  <2> QED
    BY <1>1, <1>6, <2>2, <2>3, InputKept DEF BitAt
<1>7. CASE m = 1 /\ Taken(c, n)
  <2>1. Settled(n) /\ SCK \in latch
    BY <1>7 DEF BitAt, Taken
  <2>2. latch' = latch \ {SCK} /\ UNCHANGED input
    BY <1>3, <1>7 DEF Performs
  <2>3. Low(n)' /\ SCK \in seen'
    BY <1>1, <2>1, <2>2 DEF Settled, Low
  <2> QED
    BY <1>1, <1>7, <2>2, <2>3, InputKept DEF BitAt
<1>8. CASE m = 2 /\ ~Taken(c, n)
  <2>1. Low(n) /\ MOSI \notin latch
    BY <1>8 DEF BitAt
  <2>2. latch' = latch \cup bit /\ UNCHANGED input
    BY <1>2, <1>8 DEF Performs
  <2>3. (MOSI \in latch' <=> one) /\ Low(n)'
    BY <1>1, <1>4, <2>1, <2>2 DEF Low
  <2> QED
    BY <1>1, <1>8, <2>2, <2>3, InputKept DEF BitAt
<1>9. CASE m = 2 /\ Taken(c, n)
  <2>1. Low(n) /\ (SCK \notin seen => (miso <=> GivenBit(n)))
    BY <1>9 DEF BitAt
  <2>2. seen = latch /\ UNCHANGED <<latch, input>>
    BY <1>3, <1>9 DEF Performs
  <2>3. Low(n)' /\ Settled(n)' /\ (miso' <=> GivenBit(n)')
    BY <1>1, <2>1, <2>2 DEF Low, Settled
  <2> QED
    BY <1>1, <1>9, <2>2, <2>3, InputKept DEF BitAt
<1>10. CASE m = 3 /\ ~Taken(c, n)
  <2>1. Low(n) /\ (MOSI \in latch <=> one)
    BY <1>10 DEF BitAt
  <2>2. seen = latch /\ UNCHANGED <<latch, input>>
    BY <1>2, <1>10 DEF Performs
  <2>3. Low(n)' /\ Settled(n)' /\ (MOSI \in latch' <=> one)
    BY <1>1, <2>1, <2>2 DEF Low, Settled
  <2> QED
    BY <1>1, <1>10, <2>2, <2>3, InputKept DEF BitAt
<1>11. CASE m = 3 /\ Taken(c, n)
  <2>1. Low(n) /\ Settled(n) /\ (miso <=> GivenBit(n))
    BY <1>11 DEF BitAt
  <2>2. latch' = latch \cup {SCK} /\ UNCHANGED input
    BY <1>3, <1>11 DEF Performs
  <2>3. /\ CS \notin latch' \cup seen' /\ SCK \in latch' /\ SCK \notin seen'
        /\ Len(shift') = n /\ (miso' <=> GivenBit(n)')
    BY <1>0, <1>1, <2>1, <2>2 DEF Low, Settled
  <2> QED
    BY <1>1, <1>11, <2>2, <2>3, InputKept DEF BitAt
<1>12. CASE m = 4 /\ ~Taken(c, n)
  <2>1. Low(n) /\ Settled(n) /\ (MOSI \in latch <=> one)
    BY <1>12 DEF BitAt
  <2>2. latch' = latch \cup {SCK} /\ UNCHANGED input
    BY <1>2, <1>12 DEF Performs
  <2>3. /\ CS \notin latch' \cup seen' /\ SCK \in latch' /\ SCK \notin seen'
        /\ Len(shift') = n /\ (MOSI \in latch' <=> one)
    BY <1>0, <1>1, <2>1, <2>2 DEF Low, Settled
  <2>4. (n + 1) - 1 = n /\ n + 1 > 0
    OBVIOUS
  <2>5. Between(c, n + 1)'
    BY <1>1, <2>3, <2>4 DEF Between
  <2>6. InputAt(c, n + 1)'
    BY <1>1, <1>12, <2>2, WrittenKept
  <2> QED
    BY <1>12, <2>5, <2>6
<1>13. CASE m = 4 /\ Taken(c, n)
  <2>1. /\ CS \notin latch \cup seen /\ SCK \in latch
        /\ Len(shift) = (IF SCK \in seen THEN n + 1 ELSE n) /\ (miso <=> GivenBit(n))
    BY <1>13 DEF BitAt
  <2>2. input' = Append(input, miso) /\ UNCHANGED latch
    BY <1>3, <1>13 DEF Performs
  <2>3. (n + 1) - 1 = n /\ n + 1 > 0
    OBVIOUS
  <2>4. Between(c, n + 1)'
    BY <1>1, <1>13, <2>1, <2>2, <2>3 DEF Between
  <2>5. InputAt(c, n + 1)'
    BY <1>1, <1>13, <2>1, <2>2, ReadAppended
  <2> QED
    BY <1>13, <2>4, <2>5
<1> QED
  BY <1>5, <1>6, <1>7, <1>8, <1>9, <1>10, <1>11, <1>12, <1>13

(* With the last bit in, the call has all its effects.                     *)
LEMMA AllDone ==
  ASSUME NEW c \in Calls, ChipTypes, ChipAt(c), Len(shift) = 8 * ByteCount(c),
         InputAt(c, 8 * ByteCount(c))
  PROVE  Done(c)
<1> DEFINE N == ByteCount(c)
<1>1. /\ N \in Nat /\ N >= 1 /\ Len(c.data) \in Nat
      /\ c.do = "reset" => N = 1 /\ Len(c.data) = 1
      /\ c.do # "reset" => N = 1 + Len(c.data)
  BY CallTypes, CallsAssumption DEF ByteCount
<1>2. Len(shift) = 8 * N /\ InputAt(c, 8 * N)
  OBVIOUS
<1> HIDE DEF N
<1>3. (8 * N) \div 8 = N /\ ~(8 * N < 8)
  BY <1>1
<1>4. step = Len(c.data) /\ Len(delivered) = IF Reading(c) THEN step ELSE 0
  <2>1. Progress(c, 8 * N)
    BY <1>2 DEF ChipAt
  <2>2. step = IF c.do = "reset" THEN N ELSE N - 1
    BY <1>3, <2>1 DEF Progress
  <2>3. Len(delivered) = IF Reading(c) THEN step ELSE 0
    BY <2>1, Zenon DEF Progress
  <2>4. CASE c.do = "reset"
    BY <1>1, <2>2, <2>3, <2>4
  <2>5. CASE c.do # "reset"
    BY <1>1, <2>2, <2>3, <2>5
  <2> QED
    BY <2>4, <2>5
<1>5. Reading(c) => c.do # "reset"
  BY DEF Reading
<1>6. Len(input) = 8 * Len(delivered)
  <2>1. Len(input) = IF Reading(c) /\ 8 * N > 8 THEN 8 * N - 8 ELSE 0
    BY <1>2 DEF InputAt
  <2>2. CASE Reading(c)
    <3>1. N = 1 + Len(delivered)
      BY <1>1, <1>4, <1>5, <2>2
    <3> QED
      BY <1>1, <2>1, <2>2, <3>1
  <2>3. CASE ~Reading(c)
    BY <1>4, <2>1, <2>3
  <2> QED
    BY <2>2, <2>3
<1>7. ASSUME NEW x \in 1 .. Len(input)
      PROVE  input[x] <=> BitIs(x + 7, delivered[(x + 7) \div 8])
  <2>1. (x + 7) \div 8 <= Len(delivered)
    BY <1>1, <1>4, <1>6
  <2>2. Given((x + 7) \div 8) = delivered[(x + 7) \div 8]
    BY <2>1 DEF Given
  <2>3. input[x] <=> GivenBit(x + 7)
    BY <1>2 DEF InputAt
  <2> QED
    BY <2>2, <2>3 DEF GivenBit
<1> QED
  BY <1>4, <1>6, <1>7 DEF Done

(* An access of deassert_cs leads to the next state of the wires.          *)
LEMMA EndStep ==
  ASSUME NEW c \in Calls, WireTypes, ChipTypes, NEW q \in 0 .. 3, EndAt(c, q), ChipAt(c),
         InputAt(c, 8 * ByteCount(c)), Pins = latch,
         Performs(deassert_cs[q + 1]), UNCHANGED chipVars
  PROVE  /\ q < 3 => EndAt(c, q + 1)' /\ InputAt(c, 8 * ByteCount(c))'
         /\ q = 3 => CS \in latch' /\ Done(c)'
<1> DEFINE b == 8 * ByteCount(c)
<1>0. MOSI # SCK /\ MOSI # CS /\ SCK # CS /\ b \in Nat /\ b > 0
  BY Pairwise, CallTypes
<1>1. UNCHANGED <<seen, shift, miso, delivered, out, step>>
  BY DEF chipVars
<1>2. InputAt(c, b)
  OBVIOUS
<1>3. EndAt(c, q) <=> \/ q = 0 /\ Between(c, b)
                      \/ q = 1 /\ Settled(b)
                      \/ q \in {2, 3} /\ Low(b)
  BY Zenon DEF EndAt, b
<1>4. /\ Settled(b)' /\ q = 0 => EndAt(c, q + 1)'
      /\ Low(b)' /\ q \in {1, 2} => EndAt(c, q + 1)'
  <2>1. ASSUME Settled(b)', q = 0
        PROVE  EndAt(c, q + 1)'
    BY <2>1 DEF EndAt, ByteCount
  <2>2. ASSUME Low(b)', q \in {1, 2}
        PROVE  EndAt(c, q + 1)'
    BY <2>2 DEF EndAt, ByteCount
  <2> QED
    BY <2>1, <2>2
<1>5. UNCHANGED input => InputAt(c, b)'
  BY <1>1, <1>2, InputKept
<1> HIDE DEF b
<1>6. CASE q = 0
  <2>1. seen = latch /\ UNCHANGED <<latch, input>>
    BY <1>6, BitIsMade DEF Performs
  <2>2. Settled(b)'
    BY <1>0, <1>1, <1>3, <1>6, <2>1 DEF Between, Settled
  <2> QED
    BY <1>4, <1>5, <1>6, <2>1, <2>2 DEF b
<1>7. CASE q = 1
  <2>1. latch' = latch \ {SCK} /\ UNCHANGED input
    BY <1>7, BitIsMade DEF Performs
  <2>2. Low(b)'
    BY <1>0, <1>1, <1>3, <1>7, <2>1 DEF Settled, Low
  <2> QED
    BY <1>4, <1>5, <1>7, <2>1, <2>2 DEF b
<1>8. CASE q = 2
  <2>1. UNCHANGED <<latch, input>>
    BY <1>8, BitIsMade DEF Performs
  <2>2. Low(b)'
    BY <1>0, <1>1, <1>3, <1>8, <2>1 DEF Low
  <2> QED
    BY <1>4, <1>5, <1>8, <2>1, <2>2 DEF b
<1>9. CASE q = 3
  <2>1. latch' = latch \cup {CS} /\ UNCHANGED input
    BY <1>9, BitIsMade DEF Performs
  <2>2. Done(c)
    BY <1>2, <1>3, <1>9, AllDone DEF Low, b
  <2>3. Done(c)'
    BY <1>1, <2>1, <2>2 DEF Done, BitIs, Reading
  <2> QED
    BY <1>9, <2>1, <2>3
<1> QED
  BY <1>6, <1>7, <1>8, <1>9

(***************************************************************************)
(* The steps of a call that is under way.                                  *)
(***************************************************************************)
LEMMA ChipKept ==
  ASSUME NEW c, ChipAt(c), UNCHANGED chipVars
  PROVE  ChipAt(c)'
BY DEF ChipAt, BitsIn, Progress, Taken, Reading, SentBit, BitIs, chipVars

(* Every access of a call leads to its next position.                      *)
LEMMA CallDriverStep ==
  ASSUME NEW c \in Calls, WireTypes, ChipTypes, NEW p \in 0 .. CallLength(c),
         Left(c, p), CallAt(c, p), DriverStep, Pins = latch
  PROVE  p + 1 \in 0 .. CallLength(c) /\ Left(c, p + 1)' /\ CallAt(c, p + 1)'
<1> DEFINE N == ByteCount(c)
           s == Accesses(c)
<1>0. /\ N \in Nat /\ N >= 1 /\ CallLength(c) = 40 * N + 8
      /\ MOSI # SCK /\ MOSI # CS /\ SCK # CS
  BY CallTypes, Pairwise DEF CallLength
<1>1. /\ todo # <<>> /\ todo' = Tail(todo) /\ Performs(Head(todo)) /\ UNCHANGED chipVars
  BY DriverPerforms
<1>2. p < CallLength(c) /\ Head(todo) = s[p + 1] /\ Left(c, p + 1)'
  BY <1>1, LeftOne
<1>3. Performs(s[p + 1])
  BY <1>1, <1>2
<1>4. Laid(c, s)
  BY AccessesLaid
<1> HIDE DEF s
<1>5. UNCHANGED <<seen, shift, miso, delivered, out, step>>
  BY <1>1 DEF chipVars
<1>6. CASE BeginAt(p)
  <2>1. /\ p \in {0, 1} /\ CS \in latch /\ (p = 1 => seen = latch)
        /\ step = 0 /\ delivered = <<>> /\ input = <<>>
    BY <1>6 DEF BeginAt
  <2>2. CASE p = 0
    <3>1. s[p + 1] = SHORT_WAIT
      BY <1>4, <2>2 DEF Laid
    <3>2. seen = latch /\ UNCHANGED <<latch, input>>
      BY <1>3, <3>1 DEF Performs
    <3>3. BeginAt(p + 1)'
      BY <1>5, <2>1, <2>2, <3>2 DEF BeginAt
    <3> QED
      BY <1>0, <1>2, <3>3 DEF CallAt
  <2>3. CASE p = 1
    <3>1. s[p + 1] = Clr({CS})
      BY <1>4, <2>3 DEF Laid
    <3>2. latch' = latch \ {CS} /\ UNCHANGED input
      BY <1>3, <3>1 DEF Performs
    <3>3. shift = <<>>
      BY <2>1, <2>3 DEF WireTypes
    <3>4. Between(c, 0)'
      BY <1>0, <1>5, <2>1, <2>3, <3>2, <3>3 DEF Between
    <3>5. InputAt(c, 0)'
      BY <1>5, <2>1, <3>2 DEF InputAt
    <3>6. ChipAt(c)
      BY <2>1, <3>3 DEF ChipAt, BitsIn, Progress
    <3>7. ChipAt(c)'
      BY <1>1, <3>6, ChipKept
    <3>8. 0 \in 0 .. 8 * N - 1 /\ 0 \in 0 .. 4 /\ p + 1 = 2 + 5 * 0 + 0
      BY <1>0, <2>3
    <3>9. BitAt(c, 0, 0)'
      BY <3>4 DEF BitAt
    <3>10. MidAt(c, p + 1)'
      BY <3>5, <3>7, <3>8, <3>9 DEF MidAt, ByteCount
    <3> QED
      BY <1>0, <1>2, <3>10 DEF CallAt
  <2> QED
    BY <2>1, <2>2, <2>3
<1>7. CASE MidAt(c, p)
  <2>1. PICK n \in 0 .. 8 * N - 1, m \in 0 .. 4 :
          p = 2 + 5 * n + m /\ BitAt(c, n, m) /\ InputAt(c, n) /\ ChipAt(c)
    BY <1>7 DEF MidAt
  <2>2. s[p + 1] = BitOf(c, n)[m + 1]
    <3>1. m + 1 \in 1 .. 5 /\ p + 1 = 2 + 5 * n + (m + 1)
      BY <1>0, <2>1
    <3> QED
      BY <1>4, <3>1 DEF Laid
  <2>3. n \in Nat /\ Performs(BitOf(c, n)[m + 1])
    BY <1>0, <1>3, <2>2
  <2>4. /\ m < 4 => BitAt(c, n, m + 1)' /\ InputAt(c, n)'
        /\ m = 4 => Between(c, n + 1)' /\ InputAt(c, n + 1)'
    BY <1>1, <2>1, <2>3, BitStep
  <2>5. ChipAt(c)'
    BY <1>1, <2>1, ChipKept
  <2>6. CASE m < 4
    <3>1. m + 1 \in 0 .. 4 /\ p + 1 = 2 + 5 * n + (m + 1)
      BY <1>0, <2>1, <2>6
    <3>2. MidAt(c, p + 1)'
      BY <2>4, <2>5, <2>6, <3>1 DEF MidAt, ByteCount
    <3> QED
      BY <1>0, <1>2, <3>2 DEF CallAt
  <2>7. CASE m = 4 /\ n < 8 * N - 1
    <3>1. n + 1 \in 0 .. 8 * N - 1 /\ 0 \in 0 .. 4 /\ p + 1 = 2 + 5 * (n + 1) + 0
      BY <1>0, <2>1, <2>7
    <3>2. BitAt(c, n + 1, 0)'
      BY <2>4, <2>7 DEF BitAt
    <3>3. MidAt(c, p + 1)'
      BY <2>4, <2>5, <2>7, <3>1, <3>2 DEF MidAt, ByteCount
    <3> QED
      BY <1>0, <1>2, <3>3 DEF CallAt
  <2>8. CASE m = 4 /\ n = 8 * N - 1
    <3>1. n + 1 = 8 * N /\ 0 \in 0 .. 3 /\ p + 1 = 2 + 40 * N + 0
      BY <1>0, <2>1, <2>8
    <3>2. EndAt(c, 0)' /\ InputAt(c, 8 * N)'
      BY <2>4, <2>8, <3>1 DEF EndAt, ByteCount
    <3>3. LastAt(c, p + 1)'
      BY <2>5, <3>1, <3>2 DEF LastAt, ByteCount
    <3> QED
      BY <1>0, <1>2, <3>3 DEF CallAt
  <2> QED
    BY <1>0, <2>6, <2>7, <2>8
<1>8. CASE LastAt(c, p)
  <2>1. PICK q \in 0 .. 3 : /\ p = 2 + 40 * N + q
                            /\ EndAt(c, q) /\ InputAt(c, 8 * N) /\ ChipAt(c)
    BY <1>8 DEF LastAt
  <2>2. s[p + 1] = deassert_cs[q + 1]
    <3>1. q + 1 \in 1 .. 6 /\ p + 1 = 2 + 40 * N + (q + 1)
      BY <1>0, <2>1
    <3> QED
      BY <1>4, <3>1 DEF Laid
  <2>3. Performs(deassert_cs[q + 1])
    BY <1>3, <2>2
  <2>4. /\ q < 3 => EndAt(c, q + 1)' /\ InputAt(c, 8 * N)'
        /\ q = 3 => CS \in latch' /\ Done(c)'
    BY <1>1, <2>1, <2>3, EndStep
  <2>5. ChipAt(c)'
    BY <1>1, <2>1, ChipKept
  <2>6. CASE q < 3
    <3>1. q + 1 \in 0 .. 3 /\ p + 1 = 2 + 40 * N + (q + 1)
      BY <1>0, <2>1, <2>6
    <3>2. LastAt(c, p + 1)'
      BY <2>4, <2>5, <2>6, <3>1 DEF LastAt, ByteCount
    <3> QED
      BY <1>0, <1>2, <3>2 DEF CallAt
  <2>7. CASE q = 3
    <3>1. p + 1 >= 40 * N + 6
      BY <1>0, <2>1, <2>7
    <3>2. AfterAt(c, p + 1)'
      BY <2>4, <2>7, <3>1 DEF AfterAt, ByteCount
    <3> QED
      BY <1>0, <1>2, <3>2 DEF CallAt
  <2> QED
    BY <2>6, <2>7
<1>9. CASE AfterAt(c, p)
  <2>1. p >= 40 * N + 6 /\ CS \in latch /\ Done(c)
    BY <1>9 DEF AfterAt
  <2>2. s[p + 1] = SHORT_WAIT \/ s[p + 1] = Set({SCK})
    <3>1. CASE p = 40 * N + 6
      <4>1. p + 1 = 2 + 40 * N + 5 /\ 5 \in 1 .. 6
        BY <1>0, <3>1
      <4> QED
        BY <1>4, <4>1, BitIsMade DEF Laid
    <3>2. CASE p = 40 * N + 7
      <4>1. p + 1 = 2 + 40 * N + 6 /\ 6 \in 1 .. 6
        BY <1>0, <3>2
      <4> QED
        BY <1>4, <4>1, BitIsMade DEF Laid
    <3> QED
      BY <1>0, <1>2, <2>1, <3>1, <3>2
  <2>3. CS \in latch' /\ UNCHANGED input
    BY <1>3, <2>1, <2>2 DEF Performs
  <2>4. Done(c)'
    BY <1>5, <2>1, <2>3 DEF Done, BitIs, Reading
  <2>5. AfterAt(c, p + 1)'
    <3>1. p + 1 >= 40 * N + 6
      BY <1>0, <2>1
    <3> QED
      BY <2>3, <2>4, <3>1 DEF AfterAt, ByteCount
  <2> QED
    BY <1>0, <1>2, <2>5 DEF CallAt
<1> QED
  BY <1>6, <1>7, <1>8, <1>9 DEF CallAt

(* What has been read stays right when the chip gives out another byte.    *)
LEMMA InputStays ==
  ASSUME NEW c, NEW n \in Nat, NEW b \in Nat, n <= b + 1, InputAt(c, n), UNCHANGED input,
         Reading(c) => \A i \in 1 .. b \div 8 : Given(i)' = Given(i)
  PROVE  InputAt(c, n)'
<1>1. Len(input) = IF Reading(c) /\ n > 8 THEN n - 8 ELSE 0
  BY DEF InputAt
<1>2. ASSUME NEW x \in 1 .. Len(input)
      PROVE  input[x] <=> GivenBit(x + 7)'
  <2>1. Reading(c) /\ n > 8 /\ x \in 1 .. n - 8
    BY <1>1
  <2>2. (x + 7) \div 8 \in 1 .. b \div 8
    BY <2>1
  <2>3. Given((x + 7) \div 8)' = Given((x + 7) \div 8)
    BY <2>1, <2>2
  <2>4. input[x] <=> GivenBit(x + 7)
    BY DEF InputAt
  <2> QED
    BY <2>3, <2>4 DEF GivenBit, BitIs
<1> QED
  BY <1>1, <1>2 DEF InputAt, Reading

(* A rise of the clock takes the bit the driver means, at most once.       *)
LEMMA CallRise ==
  ASSUME NEW c \in Calls, call = c, WireTypes, ChipTypes, NEW p \in 0 .. CallLength(c),
         CallAt(c, p), ChipRise, Pins = latch
  PROVE  CallAt(c, p)' /\ ChipTypes' /\ [File!Next]_File!fileVars
<1> DEFINE N == ByteCount(c)
           Kept(b) == Reading(c) => \A i \in 1 .. b \div 8 : Given(i)' = Given(i)
<1>0. N \in Nat /\ N >= 1
  BY CallTypes
<1>1. /\ CS \notin latch /\ CS \notin seen /\ SCK \in latch /\ SCK \notin seen
      /\ seen' = latch /\ UNCHANGED <<latch, input, miso>>
  BY DEF ChipRise, ChipClocks, driverVars
<1>2. ASSUME NEW b \in Nat, Len(shift) = b, b < 8 * N, ChipAt(c),
             Taken(c, b) \/ (MOSI \in latch <=> SentBit(c, b))
      PROVE  /\ ChipAt(c)' /\ ChipTypes' /\ Len(shift') = b + 1
             /\ [File!Next]_File!fileVars
             /\ Kept(b)
  <2>1. Taken(c, b) \/ (MOSI \in Pins <=> SentBit(c, b))
    BY <1>2
  <2> QED
    BY <1>2, <2>1, RiseTakesBit
<1> HIDE DEF Kept
<1>3. CASE MidAt(c, p)
  <2>1. PICK n \in 0 .. 8 * N - 1, m \in 0 .. 4 :
          p = 2 + 5 * n + m /\ BitAt(c, n, m) /\ InputAt(c, n) /\ ChipAt(c)
    BY <1>3 DEF MidAt
  <2>2. n \in Nat /\ n <= 8 * N - 1
    BY <1>0
  <2>3. \/ m = 0 /\ n > 0 /\ Len(shift) = n - 1
             /\ (Taken(c, n-1) \/ (MOSI \in latch <=> SentBit(c, n-1)))
        \/ m = 4 /\ Taken(c, n) /\ Len(shift) = n /\ (miso <=> GivenBit(n))
    BY <1>1, <2>1, <2>2 DEF BitAt, Between, Settled, Low
  <2>4. CASE m = 0
    <3>1. n - 1 \in Nat /\ n - 1 < 8 * N /\ Len(shift) = n - 1 /\ n > 0
          /\ (Taken(c, n-1) \/ (MOSI \in latch <=> SentBit(c, n-1)))
      BY <1>0, <2>2, <2>3, <2>4
    <3>2. /\ ChipAt(c)' /\ ChipTypes' /\ Len(shift') = (n - 1) + 1
          /\ [File!Next]_File!fileVars
          /\ Kept(n - 1)
      BY <1>2, <2>1, <3>1
    <3>3. Between(c, n)'
      <4>1. Len(shift') = n
        BY <2>2, <3>2
      <4> QED
        BY <1>1, <3>1, <4>1 DEF Between
    <3>4. InputAt(c, n)'
      <4>1. n <= (n - 1) + 1
        BY <2>2
      <4> QED
        BY <1>1, <2>1, <2>2, <3>1, <3>2, <4>1, InputStays DEF Kept
    <3>5. BitAt(c, n, m)'
      BY <2>4, <3>3 DEF BitAt
    <3>6. MidAt(c, p)'
      BY <2>1, <3>2, <3>4, <3>5 DEF MidAt, ByteCount
    <3> QED
      BY <3>2, <3>6 DEF CallAt
  <2>5. CASE m = 4
    <3>1. /\ ChipAt(c)' /\ ChipTypes' /\ Len(shift') = n + 1
          /\ [File!Next]_File!fileVars
          /\ Kept(n)
      BY <1>0, <1>2, <2>1, <2>2, <2>3, <2>5
    <3>2. Taken(c, n) /\ (miso <=> GivenBit(n))
      BY <2>3, <2>5
    <3>3. GivenBit(n)' <=> GivenBit(n)
      <4>1. n \div 8 \in 1 .. n \div 8 /\ Reading(c)
        BY <2>2, <3>2 DEF Taken
      <4>2. Given(n \div 8)' = Given(n \div 8)
        BY <3>1, <4>1 DEF Kept
      <4> QED
        BY <4>2 DEF GivenBit, BitIs
    <3>4. BitAt(c, n, m)'
      <4>1. Taken(c, n)'
        BY <3>2 DEF Taken, Reading
      <4>2. miso' <=> GivenBit(n)'
        BY <1>1, <3>2, <3>3
      <4> QED
        BY <1>1, <2>5, <3>1, <4>1, <4>2 DEF BitAt
    <3>5. InputAt(c, n)'
      <4>1. n <= n + 1
        BY <2>2
      <4> QED
        BY <1>1, <2>1, <2>2, <3>1, <4>1, InputStays DEF Kept
    <3>6. MidAt(c, p)'
      BY <2>1, <3>1, <3>4, <3>5 DEF MidAt, ByteCount
    <3> QED
      BY <3>1, <3>6 DEF CallAt
  <2> QED
    BY <2>3, <2>4, <2>5
<1>4. CASE LastAt(c, p)
  <2>1. PICK q \in 0 .. 3 : /\ p = 2 + 40 * N + q
                            /\ EndAt(c, q) /\ InputAt(c, 8 * N) /\ ChipAt(c)
    BY <1>4 DEF LastAt
  <2> DEFINE n == 8 * N
  <2>2. q = 0 /\ Between(c, n)
    BY <1>1, <2>1 DEF EndAt, Settled, Low
  <2>3. n \in Nat /\ n > 0 /\ n - 1 \in Nat /\ n - 1 < n
    BY <1>0
  <2>4. InputAt(c, n)
    BY <2>1
  <2>5. \A b \in Nat : b < n <=> b < 8 * N
    OBVIOUS
  <2> HIDE DEF n
  <2>6. Len(shift) = n - 1 /\ (Taken(c, n-1) \/ (MOSI \in latch <=> SentBit(c, n-1)))
    BY <1>1, <2>2, <2>3 DEF Between
  <2>7. /\ ChipAt(c)' /\ ChipTypes' /\ Len(shift') = (n - 1) + 1
        /\ [File!Next]_File!fileVars
        /\ Kept(n - 1)
    BY <1>2, <2>1, <2>3, <2>5, <2>6
  <2>8. Between(c, n)'
    <3>1. Len(shift') = n
      BY <2>3, <2>7
    <3> QED
      BY <1>1, <2>3, <3>1 DEF Between
  <2>9. InputAt(c, n)'
    <3>1. n <= (n - 1) + 1
      BY <2>3
    <3> QED
      BY <1>1, <2>3, <2>4, <2>7, <3>1, InputStays DEF Kept
  <2>10. LastAt(c, p)'
    BY <2>1, <2>2, <2>7, <2>8, <2>9 DEF LastAt, EndAt, ByteCount, n
  <2> QED
    BY <2>7, <2>10 DEF CallAt
<1> QED
  BY <1>1, <1>3, <1>4 DEF CallAt, BeginAt, AfterAt

(* A fall, or a change that is no edge of the clock, leaves the bits as    *)
(* they are.                                                               *)
LEMMA CallFall ==
  ASSUME NEW c \in Calls, call = c, WireTypes, ChipTypes, NEW p \in 0 .. CallLength(c),
         CallAt(c, p), ChipFall, Pins = latch
  PROVE  CallAt(c, p)' /\ ChipTypes' /\ UNCHANGED File!fileVars
<1> DEFINE N == ByteCount(c)
<1>0. N \in Nat /\ N >= 1
  BY CallTypes
<1>1. /\ CS \notin latch /\ CS \notin seen /\ SCK \notin latch /\ SCK \in seen
      /\ seen' = latch
      /\ UNCHANGED <<latch, input, shift, out, delivered, step, registers, memory, read_at,
                     write_at, call, returned>>
  BY DEF ChipFall, ChipClocks, driverVars
<1>2. ChipTypes' /\ UNCHANGED File!fileVars
  BY <1>1 DEF ChipTypes, File!fileVars
<1>3. ChipAt(c) => ChipAt(c)'
  BY <1>1 DEF ChipAt, BitsIn, Progress, Taken, Reading, SentBit, BitIs
<1>4. \A n : InputAt(c, n) => InputAt(c, n)'
  BY <1>1, InputKept
<1>5. \A n : Low(n) => Low(n)'
  BY <1>1 DEF Low
<1>6. CASE MidAt(c, p)
  <2>1. PICK n \in 0 .. 8 * N - 1, m \in 0 .. 4 :
          p = 2 + 5 * n + m /\ BitAt(c, n, m) /\ InputAt(c, n) /\ ChipAt(c)
    BY <1>6 DEF MidAt
  <2>2. \/ m = 2 /\ ~Taken(c, n) /\ Low(n) /\ MOSI \notin latch
        \/ m = 2 /\ Taken(c, n) /\ Low(n)
        \/ m = 3 /\ ~Taken(c, n) /\ Low(n) /\ (MOSI \in latch <=> SentBit(c, n))
    BY <1>1, <2>1 DEF BitAt, Between, Settled
  <2>3. Low(n)'
    BY <1>5, <2>2
  <2>4. Taken(c, n) => (miso' <=> GivenBit(n)')
    <3>1. n \in Nat
      BY <1>0
    <3>2. Len(shift) = n
      BY <2>2 DEF Low
    <3>3. Taken(c, n) => (miso' <=> GivenBit(n))
      BY <2>1, <3>1, <3>2, FallGivesBit
    <3> QED
      BY <1>1, <3>3 DEF GivenBit, Given, BitIs
  <2>5. BitAt(c, n, m)'
    BY <1>1, <2>2, <2>3, <2>4 DEF BitAt, Taken, Reading, SentBit, BitIs
  <2>6. MidAt(c, p)'
    BY <1>3, <1>4, <2>1, <2>5 DEF MidAt, ByteCount
  <2> QED
    BY <1>2, <2>6 DEF CallAt
<1>7. CASE LastAt(c, p)
  <2>1. PICK q \in 0 .. 3 : /\ p = 2 + 40 * N + q
                            /\ EndAt(c, q) /\ InputAt(c, 8 * N) /\ ChipAt(c)
    BY <1>7 DEF LastAt
  <2>2. q \in {2, 3} /\ Low(8 * N)
    BY <1>0, <1>1, <2>1 DEF EndAt, Between, Settled
  <2>3. EndAt(c, q)'
    BY <1>5, <2>2 DEF EndAt, ByteCount
  <2>4. LastAt(c, p)'
    BY <1>3, <1>4, <2>1, <2>3 DEF LastAt, ByteCount
  <2> QED
    BY <1>2, <2>4 DEF CallAt
<1> QED
  BY <1>1, <1>6, <1>7 DEF CallAt, BeginAt, AfterAt

(* A change of the pins that is no edge takes and gives no bit.            *)
LEMMA CallOther ==
  ASSUME NEW c \in Calls, call = c, WireTypes, ChipTypes, NEW p \in 0 .. CallLength(c),
         CallAt(c, p), ChipOther, Pins = latch
  PROVE  CallAt(c, p)' /\ ChipTypes' /\ UNCHANGED File!fileVars
<1> DEFINE N == ByteCount(c)
<1>0. N \in Nat /\ N >= 1
  BY CallTypes
<1>1. /\ seen # latch /\ seen' = latch
      /\ CS \notin latch /\ CS \notin seen => (SCK \in latch <=> SCK \in seen)
      /\ CS \notin latch => shift' = shift
      /\ UNCHANGED <<latch, input, miso, out, delivered, step, registers, memory, read_at,
                     write_at, call, returned>>
  BY DEF ChipOther, ChipClocks, driverVars
<1>2. ChipTypes' /\ UNCHANGED File!fileVars
  BY <1>1 DEF ChipTypes, File!fileVars
<1>3. CS \notin latch /\ ChipAt(c) => ChipAt(c)'
  BY <1>1 DEF ChipAt, BitsIn, Progress, Taken, Reading, SentBit, BitIs
<1>4. \A n : InputAt(c, n) => InputAt(c, n)'
  BY <1>1, InputKept
<1>5. \A n : Low(n) => Low(n)'
  BY <1>1 DEF Low
<1>6. \A n : Between(c, n) => Between(c, n)'
  BY <1>1 DEF Between
<1>7. \A n : (GivenBit(n)' <=> GivenBit(n)) /\ (Taken(c, n)' <=> Taken(c, n))
             /\ (SentBit(c, n)' <=> SentBit(c, n))
  BY <1>1 DEF GivenBit, Given, BitIs, Taken, Reading, SentBit
<1>8. CASE BeginAt(p)
  <2>1. BeginAt(p)'
    BY <1>1, <1>8 DEF BeginAt
  <2> QED
    BY <1>2, <2>1 DEF CallAt
<1>9. CASE MidAt(c, p)
  <2>1. PICK n \in 0 .. 8 * N - 1, m \in 0 .. 4 :
          p = 2 + 5 * n + m /\ BitAt(c, n, m) /\ InputAt(c, n) /\ ChipAt(c)
    BY <1>9 DEF MidAt
  <2>2. \/ m = 0 /\ Between(c, n)
        \/ m = 2 /\ ~Taken(c, n) /\ Low(n) /\ MOSI \notin latch
        \/ m = 2 /\ Taken(c, n) /\ Low(n) /\ (SCK \notin seen => (miso <=> GivenBit(n)))
        \/ m = 3 /\ ~Taken(c, n) /\ Low(n) /\ (MOSI \in latch <=> SentBit(c, n))
        \/ m = 4 /\ Taken(c, n) /\ CS \notin latch \cup seen /\ SCK \in latch
             /\ Len(shift) = (IF SCK \in seen THEN n + 1 ELSE n) /\ (miso <=> GivenBit(n))
    BY <1>1, <2>1 DEF BitAt, Settled
  <2>3. CS \notin latch
    BY <2>2 DEF Between, Low
  <2>4. CASE m = 0 /\ Between(c, n)
    BY <1>2, <1>3, <1>4, <1>6, <2>1, <2>3, <2>4 DEF CallAt, MidAt, BitAt, ByteCount
  <2>5. CASE m = 2 /\ ~Taken(c, n) /\ Low(n) /\ MOSI \notin latch
    <3>1. BitAt(c, n, m)'
      BY <1>1, <1>5, <1>7, <2>5 DEF BitAt
    <3> QED
      BY <1>2, <1>3, <1>4, <2>1, <2>3, <3>1 DEF CallAt, MidAt, ByteCount
  <2>6. CASE m = 2 /\ Taken(c, n) /\ Low(n) /\ (SCK \notin seen => (miso <=> GivenBit(n)))
    <3>1. SCK \notin seen
      BY <1>1, <2>6 DEF Low
    <3>2. BitAt(c, n, m)'
      BY <1>1, <1>5, <1>7, <2>6, <3>1 DEF BitAt
    <3> QED
      BY <1>2, <1>3, <1>4, <2>1, <2>3, <3>2 DEF CallAt, MidAt, ByteCount
  <2>7. CASE m = 3 /\ ~Taken(c, n) /\ Low(n) /\ (MOSI \in latch <=> SentBit(c, n))
    <3>1. BitAt(c, n, m)'
      BY <1>1, <1>5, <1>7, <2>7 DEF BitAt
    <3> QED
      BY <1>2, <1>3, <1>4, <2>1, <2>3, <3>1 DEF CallAt, MidAt, ByteCount
  <2>8. CASE m = 4 /\ Taken(c, n) /\ CS \notin latch \cup seen /\ SCK \in latch
               /\ Len(shift) = (IF SCK \in seen THEN n + 1 ELSE n) /\ (miso <=> GivenBit(n))
    <3>1. SCK \in seen /\ SCK \in seen' /\ shift' = shift
      BY <1>1, <2>8
    <3>2. BitAt(c, n, m)'
      BY <1>1, <1>7, <2>8, <3>1 DEF BitAt
    <3> QED
      BY <1>2, <1>3, <1>4, <2>1, <2>3, <3>2 DEF CallAt, MidAt, ByteCount
  <2> QED
    BY <2>2, <2>4, <2>5, <2>6, <2>7, <2>8
<1>10. CASE LastAt(c, p)
  <2>1. PICK q \in 0 .. 3 : /\ p = 2 + 40 * N + q
                            /\ EndAt(c, q) /\ InputAt(c, 8 * N) /\ ChipAt(c)
    BY <1>10 DEF LastAt
  <2>2. \/ q = 0 /\ Between(c, 8 * N)
        \/ q \in {2, 3} /\ Low(8 * N)
    BY <1>1, <2>1 DEF EndAt, Settled
  <2>3. CS \notin latch
    BY <2>2 DEF Between, Low
  <2>4. EndAt(c, q)'
    BY <1>5, <1>6, <2>2 DEF EndAt, ByteCount
  <2>5. LastAt(c, p)'
    BY <1>3, <1>4, <2>1, <2>3, <2>4 DEF LastAt, ByteCount
  <2> QED
    BY <1>2, <2>5 DEF CallAt
<1>11. CASE AfterAt(c, p)
  <2>1. AfterAt(c, p)'
    BY <1>1, <1>11 DEF AfterAt, Done, BitIs, Reading, ByteCount
  <2> QED
    BY <1>2, <2>1 DEF CallAt
<1> QED
  BY <1>8, <1>9, <1>10, <1>11 DEF CallAt

(***************************************************************************)
(* The end of a call: what it returns is what the chip gave out.           *)
(***************************************************************************)
LEMMA BytesReturned ==
  ASSUME NEW c, Done(c), delivered \in Seq(Byte), input \in Seq(BOOLEAN)
  PROVE  [i \in 1 .. Len(input) \div 8 |-> ByteRead(i)] = delivered
<1>1. /\ Len(input) = 8 * Len(delivered) /\ Len(delivered) \in Nat
      /\ \A x \in 1 .. Len(input) : input[x] <=> BitIs(x + 7, delivered[(x + 7) \div 8])
  BY DEF Done
<1>2. Len(input) \div 8 = Len(delivered)
  BY <1>1
<1>3. ASSUME NEW i \in 1 .. Len(delivered)
      PROVE  ByteRead(i) = delivered[i]
  <2>1. ASSUME NEW k \in 0 .. 7
        PROVE  input[8 * i - k] <=> k \in delivered[i]
    <3> DEFINE x == 8 * i - k
    <3>1. /\ x \in 1 .. Len(input) /\ (x + 7) \div 8 = i
          /\ 7 - ((x + 7) % 8) = k
      <4>1. x \in Nat /\ x >= 1 /\ x <= 8 * Len(delivered)
        BY <1>1
      <4>2. x + 7 = 8 * i + (7 - k)
        OBVIOUS
      <4>3. (8 * i + (7 - k)) \div 8 = i /\ 7 - ((8 * i + (7 - k)) % 8) = k
        OBVIOUS
      <4> HIDE DEF x
      <4> QED
        BY <1>1, <4>1, <4>2, <4>3
    <3>2. input[x] <=> BitIs(x + 7, delivered[i])
      BY <1>1, <3>1
    <3> QED
      BY <3>1, <3>2 DEF BitIs
  <2>2. \A k \in delivered[i] : k \in 0 .. 7
    BY DEF Byte
  <2> QED
    BY <2>1, <2>2, Zenon DEF ByteRead
<1>4. delivered = [i \in 1 .. Len(delivered) |-> delivered[i]]
  OBVIOUS
<1> QED
  BY <1>2, <1>3, <1>4

(***************************************************************************)
(* No call is under way.  Until init_spi has driven CS high for the first  *)
(* time a low CS may have selected the chip, which then sees one rise of   *)
(* the clock at most.                                                      *)
(***************************************************************************)
Clean == shift = <<>> /\ (SCK \in seen <=> SCK \in Pins)

(* After k accesses of init_spi.                                           *)
Starting(k) ==
  \/ k <= 6 /\ Clean
  \/ k = 7 /\ shift = <<>>
  \/ k = 8 /\ shift = <<>>
  \/ k = 8 /\ Len(shift) = 1 /\ SCK \in seen \cap Pins

Idle ==
  \/ CS \in latch
  \/ next # "spi" /\ ~(next = "idle" /\ gpio_mmap = "mapped") /\ Clean
  \/ next = "spi" /\ \E k \in 0 .. 8 : todo = SubSeq(init_spi, k+1, 10) /\ Starting(k)

CallInv ==
  /\ next = "idle" /\ gpio_mmap = "mapped"
  /\ \E p \in 0 .. CallLength(call) : Left(call, p) /\ CallAt(call, p)

WireInv ==
  /\ WireTypes /\ ChipTypes
  /\ call \in Calls \cup {NO_CALL}
  /\ call # NO_CALL => CallInv
  /\ call = NO_CALL => Idle /\ (next # "spi" => todo = <<>>)

(* NO_CALL is not a call.                                                  *)
LEMMA NoCallIsNone == NO_CALL \notin Calls
<1>1. "none" \notin Kinds
  BY DEF Kinds
<1>2. NO_CALL.do = "none"
  BY DEF NO_CALL
<1> QED
  BY <1>1, <1>2, CommandUnderstood

(* What the levels of the pins are, from the latch and the functions.      *)
LEMMA PinsAre ==
  ASSUME PinsInv, WireTypes
  PROVE  /\ Pins \subseteq Outputs
         /\ CS \in latch => CS \in Pins
         /\ SCK \in Pins <=> SCK \in latch /\ function[SCK] = 1
         /\ Directed => Pins = latch
<1>1. SCK # CS /\ MOSI # CS /\ MOSI # SCK /\ Bus \subseteq GPIOS
  BY Pairwise
<1> DEFINE outputs == {p \in GPIOS : function[p] = 1}
<1>2. Pins = (latch \cap outputs \cap {MOSI, SCK, CS}) \cup ({CS} \ outputs)
  BY Zenon DEF Pins
<1>3. latch \subseteq {MOSI, SCK, CS} /\ {MOSI, SCK, CS} \subseteq GPIOS
  BY <1>1 DEF WireTypes, Outputs, Bus
<1>4. Directed => function[MOSI] = 1 /\ function[SCK] = 1 /\ function[CS] = 1
  BY DEF Directed, Turned
<1> QED
  BY <1>1, <1>2, <1>3, <1>4 DEF Outputs

(* What is left of init_spi says how much of it has been done.             *)
LEMMA SameRest ==
  ASSUME NEW k \in 0 .. 10, NEW l \in 0 .. 10,
         SubSeq(init_spi, k+1, 10) = SubSeq(init_spi, l+1, 10)
  PROVE  k = l
<1>1. \A i \in 0 .. 10 : Len(SubSeq(init_spi, i+1, 10)) = 10 - i
  <2> TAKE i \in 0 .. 10
  <2>1. i + 1 \in 1 .. 11 /\ 11 - (i+1) = 10 - i
    OBVIOUS
  <2> QED
    BY <2>1, InitSpiIs, RestOf
<1> QED
  BY <1>1

(* An access of init_spi: two of them drive the pins, after the eighth; no *)
(* other pin than SCK changes before the seventh.                          *)
LEMMA StartingStep ==
  ASSUME PinsInv, NEW k \in 0 .. 10, todo = SubSeq(init_spi, k+1, 10), next = "spi",
         todo # <<>>
  PROVE  /\ k < 10 /\ Tail(todo) = SubSeq(init_spi, (k+1)+1, 10)
         /\ Turned(k)
         /\ k < 6 => Head(todo).do \in {"input", "output"} /\ Head(todo).pins # {SCK}
         /\ k < 8 => Head(todo).do \in {"input", "output"}
         /\ k = 8 => Head(todo) = Set({CS, MOSI})
         /\ k = 9 => Head(todo) = Clr({SCK})
<1>1. k < 10 /\ Head(todo) = init_spi[k+1] /\ Tail(todo) = SubSeq(init_spi, k+2, 10)
  BY NextAccess
<1>2. Turned(k)
  <2>1. PICK l \in 0 .. 10 : todo = SubSeq(init_spi, l+1, 10) /\ Turned(l)
    BY DEF PinsInv
  <2>2. k = l
    BY <2>1, SameRest
  <2> QED
    BY <2>1, <2>2
<1>3. \A p : /\ Input(p).do = "input" /\ Input(p).pins = {p}
             /\ SetBit(p).do = "output" /\ SetBit(p).pins = {p}
  BY DEF Input, SetBit
<1>4. {MISO} # {SCK} /\ {INT} # {SCK} /\ {MOSI} # {SCK} /\ {CS} # {SCK}
  BY Pairwise
<1>5. \A i \in 1 .. 8 : init_spi[i].do \in {"input", "output"}
  BY <1>3, InitSpiIs
<1>6. \A i \in 1 .. 6 : init_spi[i].pins # {SCK}
  <2>1. /\ init_spi[1].pins = {MISO} /\ init_spi[2].pins = {INT}
        /\ init_spi[3].pins = {MOSI} /\ init_spi[4].pins = {MOSI}
        /\ init_spi[5].pins = {CS} /\ init_spi[6].pins = {CS}
    BY <1>3, InitSpiIs, Zenon
  <2>2. \A i \in 1 .. 6 : i \in {1, 2, 3, 4, 5, 6}
    OBVIOUS
  <2> QED
    BY <1>4, <2>1, <2>2, Zenon
<1>7. k < 6 => Head(todo).do \in {"input", "output"} /\ Head(todo).pins # {SCK}
  <2> SUFFICES ASSUME k < 6
               PROVE  init_spi[k+1].do \in {"input", "output"} /\ init_spi[k+1].pins # {SCK}
    BY <1>1
  <2>1. k + 1 \in 1 .. 8 /\ k + 1 \in 1 .. 6
    OBVIOUS
  <2> QED
    BY <1>5, <1>6, <2>1
<1>8. k < 8 => Head(todo).do \in {"input", "output"}
  <2>1. k < 8 => k + 1 \in 1 .. 8
    OBVIOUS
  <2> QED
    BY <1>1, <1>5, <2>1
<1>9. k = 8 => Head(todo) = Set({CS, MOSI})
  BY <1>1, InitSpiIs
<1>10. k = 9 => Head(todo) = Clr({SCK})
  BY <1>1, InitSpiIs
<1>11. (k+1)+1 = k + 2
  OBVIOUS
<1> QED
  BY <1>1, <1>2, <1>7, <1>8, <1>9, <1>10, <1>11

(***************************************************************************)
(* What the wires carry.                                                   *)
(***************************************************************************)
LEMMA TypesStep ==
  ASSUME BusInv, WireInv, [Next]_busVars
  PROVE  WireTypes'
<1>0. PinsInv /\ WireTypes /\ Pins \subseteq Outputs
  BY PinsAre DEF BusInv, WireInv
<1>1. CASE DriverStep
  <2>1. /\ todo # <<>> /\ Performs(Head(todo))
        /\ UNCHANGED <<seen, shift, miso>>
    BY <1>1, DriverPerforms DEF chipVars
  <2>2. latch' \in {latch \ Head(todo).pins, latch \cup Head(todo).pins, latch}
    BY <1>1 DEF DriverStep, PinWrite, PinRead, Wait, Doing, driverVars
  <2>3. latch' \subseteq Outputs
    <3>1. CASE next = "spi"
      <4>1. PICK k \in 0 .. 10 : todo = SubSeq(init_spi, k+1, 10)
        BY <1>0, <3>1 DEF PinsInv
      <4>2. Head(todo).do \notin {"input", "output"}
        BY <1>1 DEF DriverStep, PinWrite, PinRead, Wait, Doing
      <4>3. Head(todo) = Set({CS, MOSI}) \/ Head(todo) = Clr({SCK})
        <5>1. k < 10 /\ ~(k < 8)
          BY <1>0, <2>1, <3>1, <4>1, <4>2, StartingStep
        <5>2. k = 8 \/ k = 9
          BY <5>1
        <5> QED
          BY <1>0, <2>1, <3>1, <4>1, <5>2, StartingStep
      <4>4. Head(todo).pins \subseteq Outputs
        BY <4>3 DEF Set, Clr, Outputs
      <4> QED
        BY <1>0, <2>2, <4>4 DEF WireTypes
    <3>2. CASE next # "spi"
      <4>1. todo \in Seq(Quiet)
        BY <1>0, <2>1, <3>2 DEF PinsInv
      <4>2. Head(todo) \in Quiet
        BY <2>1, <4>1
      <4>3. Head(todo).pins \subseteq Outputs
        BY <4>2 DEF Quiet
      <4> QED
        BY <1>0, <2>2, <4>3 DEF WireTypes
    <3> QED
      BY <3>1, <3>2
  <2>4. input' = input \/ input' = Append(input, miso)
    BY <1>1 DEF DriverStep, PinWrite, PinRead, Wait, driverVars
  <2>5. input' \in Seq(BOOLEAN)
    <3>1. input \in Seq(BOOLEAN) /\ miso \in BOOLEAN
      BY <1>0 DEF WireTypes
    <3> QED
      BY <2>4, <3>1, BitAppended
  <2> QED
    BY <1>0, <2>1, <2>3, <2>5 DEF WireTypes
<1>2. CASE ChipRise
  <2> DEFINE one == MOSI \in Pins
  <2>1. shift \in Seq(BOOLEAN) /\ one \in BOOLEAN /\ shift' = Append(shift, one)
    BY <1>0, <1>2 DEF WireTypes, ChipRise
  <2> HIDE DEF one
  <2>2. shift' \in Seq(BOOLEAN)
    BY <2>1, BitAppended
  <2>3. CS \notin Pins /\ seen' = Pins /\ UNCHANGED <<latch, input, miso>>
    BY <1>2 DEF ChipRise, ChipClocks, driverVars
  <2> QED
    BY <1>0, <2>2, <2>3 DEF WireTypes
<1>3. CASE ChipFall
  <2> DEFINE one == 7 - (Len(shift) % 8) \in out
  <2>1. one \in BOOLEAN /\ miso' = one
    BY <1>3 DEF ChipFall
  <2> HIDE DEF one
  <2>2. CS \notin Pins /\ seen' = Pins /\ UNCHANGED <<latch, input, shift>>
    BY <1>3 DEF ChipFall, ChipClocks, driverVars
  <2> QED
    BY <1>0, <2>1, <2>2 DEF WireTypes
<1>4. CASE ChipOther
  <2>1. /\ seen' = Pins /\ UNCHANGED <<latch, input, miso>>
        /\ shift' = IF CS \in Pins THEN <<>> ELSE shift
    BY <1>4 DEF ChipOther, driverVars
  <2>2. <<>> \in Seq(BOOLEAN)
    OBVIOUS
  <2> QED
    BY <1>0, <2>1, <2>2 DEF WireTypes
<1>5. CASE Call
  <2>1. input' = <<>> /\ UNCHANGED <<latch, seen, shift, miso>>
    BY <1>5 DEF Call
  <2>2. <<>> \in Seq(BOOLEAN)
    OBVIOUS
  <2> QED
    BY <1>0, <2>1, <2>2 DEF WireTypes
<1>6. CASE \/ GpioCall \/ InitSpi \/ SpiReady \/ PinFunction \/ Return \/ UNCHANGED busVars
  <2>1. UNCHANGED <<latch, seen, shift, input, miso>>
    BY <1>6, Zenon DEF GpioCall, InitSpi, SpiReady, PinFunction, Return, busVars, driverVars,
         chipVars
  <2> QED
    BY <1>0, <2>1 DEF WireTypes
<1> QED
  BY <1>1, <1>2, <1>3, <1>4, <1>5, <1>6 DEF Next, DriverStep

(* init_spi drives CS high, and after that keeps it so.                    *)
LEMMA DriveIdle ==
  ASSUME BusInv, WireInv, call = NO_CALL, DriverStep
  PROVE  CS \in latch' /\ next' = "spi"
<1>0. PinsInv /\ Idle /\ (next # "spi" => todo = <<>>)
  BY DEF BusInv, WireInv
<1>1. /\ todo # <<>> /\ Performs(Head(todo)) /\ UNCHANGED gpioVars
      /\ Head(todo).do \notin {"input", "output"}
  BY DriverPerforms DEF DriverStep, PinWrite, PinRead, Wait, Doing
<1>2. next = "spi" /\ next' = "spi"
  BY <1>0, <1>1 DEF gpioVars
<1>3. PICK k \in 0 .. 10 : todo = SubSeq(init_spi, k+1, 10)
  BY <1>0, <1>2 DEF PinsInv
<1>4. k < 10 /\ ~(k < 8)
  BY <1>0, <1>1, <1>2, <1>3, StartingStep
<1>5. CASE k = 8
  <2>1. Head(todo) = Set({CS, MOSI})
    BY <1>0, <1>1, <1>2, <1>3, <1>5, StartingStep
  <2>2. latch' = latch \cup {CS, MOSI}
    BY <1>1, <2>1 DEF Performs
  <2> QED
    BY <1>2, <2>2
<1>6. CASE k = 9
  <2>1. Head(todo) = Clr({SCK})
    BY <1>0, <1>1, <1>2, <1>3, <1>6, StartingStep
  <2>2. latch' = latch \ {SCK}
    BY <1>1, <2>1 DEF Performs
  <2>3. CS \in latch
    <3>1. \A l \in 0 .. 8 : todo # SubSeq(init_spi, l+1, 10)
      <4> TAKE l \in 0 .. 8
      <4>1. l \in 0 .. 10 /\ k # l
        BY <1>6
      <4> QED
        BY <1>3, <4>1, SameRest
    <3> QED
      BY <1>0, <1>2, <3>1 DEF Idle
  <2> QED
    BY <1>2, <2>2, <2>3, Pairwise
<1> QED
  BY <1>4, <1>5, <1>6

(* A pin that changes its function outside a call keeps Idle.              *)
LEMMA TurnIdle ==
  ASSUME BusInv, WireInv, call = NO_CALL, PinFunction
  PROVE  Idle' /\ next' = "spi"
<1>0. PinsInv /\ WireTypes /\ Idle /\ (next # "spi" => todo = <<>>)
  BY DEF BusInv, WireInv
<1>1. /\ todo # <<>> /\ todo' = Tail(todo) /\ Head(todo).do \in {"input", "output"}
      /\ UNCHANGED <<next, gpio_mmap, latch, seen, shift>>
  BY DEF PinFunction, Doing, driverVars, chipVars
<1>2. next = "spi" /\ next' = "spi"
  BY <1>0, <1>1
<1>3. CASE CS \in latch
  BY <1>1, <1>2, <1>3 DEF Idle
<1>4. CASE CS \notin latch
  <2>1. PICK k \in 0 .. 8 : todo = SubSeq(init_spi, k+1, 10) /\ Starting(k)
    BY <1>0, <1>2, <1>4 DEF Idle
  <2>2. k \in 0 .. 10
    OBVIOUS
  <2>3. k # 8
    <3>1. k = 8 => Head(todo).do = "set"
      BY <1>0, <1>1, <1>2, <2>1, <2>2, StartingStep DEF Set
    <3> QED
      BY <1>1, <3>1
  <2>4. todo' = SubSeq(init_spi, (k+1)+1, 10)
    BY <1>0, <1>1, <1>2, <2>1, <2>2, StartingStep
  <2>5. k >= 6 => shift = <<>>
    BY <2>1, <2>3 DEF Starting, Clean
  <2>6. Starting(k+1)'
    <3>1. CASE k >= 6
      <4>1. shift' = <<>> /\ k + 1 \in {7, 8}
        BY <1>1, <2>3, <2>5, <3>1
      <4> QED
        BY <4>1 DEF Starting
    <3>2. CASE k < 6
      <4>1. Head(todo).pins # {SCK}
        BY <1>0, <1>1, <1>2, <2>1, <2>2, <3>2, StartingStep
      <4>2. function'[SCK] = function[SCK] /\ function \in [GPIOS -> Int] /\ SCK \in GPIOS
        <5>1. PICK p \in GPIOS :
                /\ Head(todo).pins = {p}
                /\ \/ function' = [function EXCEPT ![p] = 0]
                   \/ function' = [function EXCEPT ![p] = @ - (@ % 2) + 1]
          BY DEF PinFunction
        <5>2. p # SCK
          BY <4>1, <5>1
        <5>3. function \in [GPIOS -> Int] /\ SCK \in GPIOS
          BY <1>0, Pairwise DEF PinsInv, Bus
        <5> QED
          BY <5>1, <5>2, <5>3
      <4>3. SCK \in Pins <=> SCK \in latch /\ function[SCK] = 1
        BY <1>0, PinsAre
      <4>4. SCK \in Pins' <=> SCK \in latch' /\ function'[SCK] = 1
        <5> DEFINE outputs == {p \in GPIOS : function'[p] = 1}
        <5>1. Pins' = (latch' \cap outputs \cap {MOSI, SCK, CS}) \cup ({CS} \ outputs)
          BY Zenon DEF Pins
        <5>2. SCK # CS /\ (SCK \in outputs <=> function'[SCK] = 1)
          BY <4>2, Pairwise
        <5> HIDE DEF outputs
        <5> QED
          BY <5>1, <5>2
      <4>5. Clean
        BY <2>1, <3>2 DEF Starting
      <4>6. Clean'
        BY <1>1, <4>2, <4>3, <4>4, <4>5 DEF Clean
      <4>7. k + 1 <= 6
        BY <3>2
      <4> QED
        BY <4>6, <4>7 DEF Starting
    <3> QED
      BY <3>1, <3>2
  <2>7. k + 1 \in 0 .. 8
    BY <2>3
  <2> QED
    BY <1>2, <2>4, <2>6, <2>7 DEF Idle
<1> QED
  BY <1>2, <1>3, <1>4

(* A change of the pins outside a call has no effect on the chip.          *)
LEMMA ChipIdle ==
  ASSUME BusInv, WireInv, call = NO_CALL, ChipRise \/ ChipFall \/ ChipOther
  PROVE  /\ Idle'
         /\ UNCHANGED <<out, registers, memory, read_at, write_at, step, delivered>>
<1>0. PinsInv /\ WireTypes /\ Idle
  BY DEF BusInv, WireInv
<1>1. seen' = Pins /\ UNCHANGED <<todo, latch, next, gpio_mmap, function>>
  BY DEF ChipRise, ChipFall, ChipOther, driverVars, gpioVars
<1>2. Pins' = Pins
  BY <1>1 DEF Pins
<1>3. CASE ChipOther
  <2>1. /\ UNCHANGED <<out, registers, memory, read_at, write_at, step, delivered>>
        /\ shift' = <<>> \/ shift' = shift
    BY <1>3 DEF ChipOther
  <2>2. Clean => Clean'
    BY <1>1, <1>2, <2>1 DEF Clean
  <2>3. \A k : Starting(k) => Starting(k)'
    BY <1>1, <1>2, <2>1, <2>2 DEF Starting
  <2> QED
    BY <1>0, <1>1, <2>1, <2>2, <2>3 DEF Idle
<1>4. CASE ChipFall
  <2>1. /\ UNCHANGED <<out, registers, memory, read_at, write_at, step, delivered, shift>>
        /\ CS \notin Pins /\ SCK \in seen /\ SCK \notin Pins
    BY <1>4 DEF ChipFall, ChipClocks
  <2>2. CS \notin latch /\ ~Clean
    BY <1>0, <2>1, PinsAre DEF Clean
  <2>3. \A k : Starting(k) => Starting(k)'
    BY <2>1, <2>2 DEF Starting
  <2> QED
    BY <1>0, <1>1, <2>1, <2>2, <2>3 DEF Idle
<1>5. CASE ChipRise
  <2>1. CS \notin Pins /\ SCK \notin seen /\ SCK \in Pins /\ shift' = Append(shift, MOSI \in Pins)
    BY <1>5 DEF ChipRise, ChipClocks
  <2>2. CS \notin latch /\ ~Clean
    BY <1>0, <2>1, PinsAre DEF Clean
  <2>3. next = "spi"
    BY <1>0, <2>2 DEF Idle
  <2>4. PICK k \in 0 .. 8 : todo = SubSeq(init_spi, k+1, 10) /\ Starting(k)
    BY <1>0, <2>2 DEF Idle
  <2>5. k = 8 /\ shift = <<>>
    <3>1. k = 7 \/ k = 8
      BY <2>2, <2>4 DEF Starting
    <3>2. k # 7
      <4>1. k \in 0 .. 10 /\ todo # <<>>
        <5>1. Len(todo) = 10 - k
          BY <2>4, InitSpiIs, RestOf
        <5> QED
          BY <5>1
      <4>2. Turned(k)
        BY <1>0, <2>3, <2>4, <4>1, StartingStep
      <4>3. k = 7 => function[SCK] = 0
        BY <4>2 DEF Turned
      <4> QED
        BY <1>0, <2>1, <4>3, PinsAre
    <3> QED
      BY <2>1, <2>4, <3>1, <3>2 DEF Starting
  <2>6. Len(shift') = 1
    BY <2>1, <2>5
  <2>7. UNCHANGED <<out, registers, memory, read_at, write_at, step, delivered>>
    <3>1. Len(shift') % 8 # 0
      BY <2>6
    <3> QED
      BY <1>5, <3>1 DEF ChipRise
  <2>8. Starting(8)'
    BY <1>1, <1>2, <2>1, <2>6 DEF Starting
  <2>9. 8 \in 0 .. 8 /\ todo' = SubSeq(init_spi, 8+1, 10) /\ next' = "spi"
    BY <1>1, <2>3, <2>4, <2>5
  <2> QED
    BY <2>7, <2>8, <2>9 DEF Idle
<1> QED
  BY <1>3, <1>4, <1>5

(* Steps outside a call change nothing that RegisterFile knows of.         *)
LEMMA IdleStep ==
  ASSUME BusInv, WireInv, call = NO_CALL, call' = NO_CALL, [Next]_busVars
  PROVE  /\ Idle' /\ (next' # "spi" => todo' = <<>>) /\ ChipTypes'
         /\ UNCHANGED File!fileVars
<1>0. /\ PinsInv /\ MappedInv /\ WireTypes /\ ChipTypes
      /\ Idle /\ (next # "spi" => todo = <<>>)
  BY DEF BusInv, WireInv
<1>1. ASSUME UNCHANGED <<out, registers, memory, read_at, write_at, step, delivered, returned>>
      PROVE  ChipTypes' /\ UNCHANGED File!fileVars
  BY <1>0, <1>1 DEF ChipTypes, File!fileVars
<1>2. CASE GpioCall
  <2>1. /\ todo = <<>> /\ todo' = <<>>
        /\ UNCHANGED <<function, latch, seen, shift>> /\ UNCHANGED chipVars /\ UNCHANGED returned
    BY <1>2 DEF GpioCall, GpioNext, InitGpio, PeripheralBase, OpenMem, MapRegisters,
         DropRoot, VerifyDrop, CloseGpio, driverVars, chipVars
  <2>2. next' # "spi" /\ next # "spi"
    BY <1>2 DEF GpioCall, GpioNext, InitGpio, PeripheralBase, OpenMem, MapRegisters,
         DropRoot, VerifyDrop, CloseGpio, Finish, DropFails, DropGoesOn
  <2>3. next' = "idle" /\ gpio_mmap' = "mapped" => next = "idle" /\ gpio_mmap = "mapped"
    BY <1>0, <1>2 DEF GpioCall, GpioNext, InitGpio, PeripheralBase, OpenMem, MapRegisters,
         DropRoot, VerifyDrop, CloseGpio, Finish, DropFails, DropGoesOn, MappedInv
  <2>4. Clean => Clean'
    BY <2>1 DEF Clean, Pins
  <2>5. Idle'
    BY <1>0, <2>1, <2>2, <2>3, <2>4 DEF Idle
  <2> QED
    BY <1>1, <2>1, <2>5 DEF chipVars
<1>3. CASE InitSpi
  <2>1. /\ next = "pins" /\ next' = "spi" /\ todo' = init_spi
        /\ UNCHANGED <<function, latch, seen, shift>> /\ UNCHANGED chipVars /\ UNCHANGED returned
    BY <1>3 DEF InitSpi, driverVars, chipVars
  <2>2. Clean => Clean'
    BY <2>1 DEF Clean, Pins
  <2>3. CS \in latch' \/ Clean'
    BY <1>0, <2>1, <2>2 DEF Idle
  <2>4. todo' = SubSeq(init_spi, 0+1, 10)
    <3>1. SubSeq(init_spi, 1, Len(init_spi)) = init_spi
      BY InitSpiIs, SubSeqFull
    <3> QED
      BY <2>1, <3>1, InitSpiIs
  <2>5. Clean' => Starting(0)'
    BY DEF Starting
  <2>6. 0 \in 0 .. 8
    OBVIOUS
  <2>7. Idle'
    BY <2>1, <2>3, <2>4, <2>5, <2>6 DEF Idle
  <2> QED
    BY <1>1, <2>1, <2>7 DEF chipVars
<1>4. CASE SpiReady
  <2>1. /\ next = "spi" /\ todo = <<>> /\ todo' = <<>> /\ next' = "idle"
        /\ UNCHANGED latch /\ UNCHANGED chipVars /\ UNCHANGED returned
    BY <1>4 DEF SpiReady, Finish, driverVars
  <2>2. CS \in latch
    <3>1. \A k \in 0 .. 8 : todo # SubSeq(init_spi, k+1, 10)
      <4> TAKE k \in 0 .. 8
      <4>1. k + 1 \in 1 .. 11 /\ 11 - (k+1) # 0
        OBVIOUS
      <4>2. Len(SubSeq(init_spi, k+1, 10)) # 0
        BY <4>1, InitSpiIs, RestOf
      <4> QED
        BY <2>1, <4>2
    <3> QED
      BY <1>0, <2>1, <3>1 DEF Idle
  <2>3. Idle'
    BY <2>1, <2>2 DEF Idle
  <2> QED
    BY <1>1, <2>1, <2>3 DEF chipVars
<1>5. CASE DriverStep
  <2>1. CS \in latch' /\ next' = "spi"
    BY <1>5, DriveIdle
  <2>2. UNCHANGED chipVars /\ UNCHANGED returned
    BY <1>5, DriverPerforms
  <2> QED
    BY <1>1, <2>1, <2>2 DEF Idle, chipVars
<1>6. CASE PinFunction
  <2>1. Idle' /\ next' = "spi"
    BY <1>6, TurnIdle
  <2>2. UNCHANGED chipVars /\ UNCHANGED returned
    BY <1>6 DEF PinFunction, driverVars
  <2> QED
    BY <1>1, <2>1, <2>2 DEF chipVars
<1>7. CASE ChipRise \/ ChipFall \/ ChipOther
  <2>1. Idle' /\ UNCHANGED <<out, registers, memory, read_at, write_at, step, delivered>>
    BY <1>7, ChipIdle
  <2>2. UNCHANGED returned /\ UNCHANGED <<todo, next>>
    BY <1>7 DEF ChipRise, ChipFall, ChipOther, driverVars, gpioVars
  <2> QED
    BY <1>0, <1>1, <2>1, <2>2
<1>8. CASE UNCHANGED busVars
  <2>1. /\ UNCHANGED chipVars /\ UNCHANGED returned
        /\ UNCHANGED <<todo, next, gpio_mmap, function, latch, seen, shift>>
    BY <1>8 DEF busVars, chipVars, driverVars, gpioVars
  <2>2. Clean <=> Clean'
    BY <2>1 DEF Clean, Pins
  <2>3. Pins' = Pins
    BY <2>1 DEF Pins
  <2>4. \A k : Starting(k) => Starting(k)'
    BY <2>1, <2>2, <2>3 DEF Starting
  <2>5. Idle'
    BY <1>0, <2>1, <2>2, <2>4 DEF Idle
  <2> QED
    BY <1>0, <1>1, <2>1, <2>5 DEF chipVars
<1>9. ~Call /\ ~Return
  BY NoCallIsNone DEF Call, Return
<1> QED
  BY <1>2, <1>3, <1>4, <1>5, <1>6, <1>7, <1>8, <1>9 DEF Next, DriverStep

(***************************************************************************)
(* The calls.                                                              *)
(***************************************************************************)
LEMMA CallBegins ==
  ASSUME BusInv, WireInv, Call
  PROVE  /\ CallInv' /\ ChipTypes' /\ call' \in Calls /\ File!Begin
<1>1. /\ next = "idle" /\ gpio_mmap = "mapped" /\ call = NO_CALL
      /\ call' \in Calls /\ todo' = Accesses(call')
      /\ input' = <<>> /\ step' = 0 /\ delivered' = <<>>
      /\ UNCHANGED <<latch, returned, seen, miso, shift, out, registers, memory, read_at,
                     write_at, next, gpio_mmap>>
  BY DEF Call, gpioVars
<1>2. CS \in latch
  BY <1>1 DEF WireInv, Idle
<1>3. PICK c \in Calls : c = call'
  BY <1>1
<1>4. Left(c, 0)'
  BY <1>1, <1>3, LeftAtFirst
<1>5. CallAt(c, 0)'
  BY <1>1, <1>2 DEF CallAt, BeginAt
<1>6. 0 \in 0 .. CallLength(c)
  BY CallTypes DEF CallLength
<1>7. CallInv'
  BY <1>1, <1>3, <1>4, <1>5, <1>6 DEF CallInv, CallLength, ByteCount
<1>8. ChipTypes'
  <2>1. <<>> \in Seq(Byte)
    OBVIOUS
  <2> QED
    BY <1>1, <2>1 DEF WireInv, ChipTypes
<1>9. File!Begin
  BY <1>1 DEF File!Begin, File!NO_CALL, NO_CALL
<1> QED
  BY <1>1, <1>7, <1>8, <1>9

(* A call returns when its effects are complete, with CS high.             *)
LEMMA CallReturns ==
  ASSUME WireInv, call # NO_CALL, Return
  PROVE  CS \in latch /\ File!Return
<1>1. /\ todo = <<>> /\ call' = NO_CALL
      /\ returned' = [i \in 1 .. Len(input) \div 8 |-> ByteRead(i)]
      /\ UNCHANGED <<registers, memory, read_at, write_at, step, delivered>>
  BY DEF Return, chipVars
<1>2. PICK c \in Calls : c = call
  BY DEF WireInv
<1>3. PICK p \in 0 .. CallLength(c) : Left(c, p) /\ CallAt(c, p)
  BY <1>2 DEF WireInv, CallInv
<1> DEFINE N == ByteCount(c)
<1>4. N \in Nat /\ CallLength(c) = 40 * N + 8 /\ N >= 1
  BY CallTypes DEF CallLength
<1>5. p = 40 * N + 8
  BY <1>1, <1>3, <1>4 DEF Left
<1> HIDE DEF N
<1>6. ~BeginAt(p)
  BY <1>4, <1>5 DEF BeginAt
<1>7. ~MidAt(c, p)
  <2> SUFFICES ASSUME NEW n \in 0 .. 8 * N - 1, NEW m \in 0 .. 4
               PROVE  p # 2 + 5 * n + m
    BY DEF MidAt, N
  <2> QED
    BY <1>4, <1>5
<1>8. ~LastAt(c, p)
  <2> SUFFICES ASSUME NEW q \in 0 .. 3
               PROVE  p # 2 + 40 * N + q
    BY DEF LastAt, N
  <2> QED
    BY <1>4, <1>5
<1>9. CS \in latch /\ Done(c)
  BY <1>3, <1>6, <1>7, <1>8 DEF CallAt, AfterAt
<1>10. returned' = delivered
  <2>1. delivered \in Seq(Byte) /\ input \in Seq(BOOLEAN)
    BY DEF WireInv, WireTypes, ChipTypes
  <2> QED
    BY <1>1, <1>9, <2>1, BytesReturned
<1>11. step = Len(call.data)
  BY <1>2, <1>9 DEF Done
<1>12. File!Return
  BY <1>1, <1>10, <1>11 DEF File!Return, File!NO_CALL, NO_CALL
<1> QED
  BY <1>9, <1>12

(* A step of a call goes on with it, as RegisterFile does or without       *)
(* effect.                                                                 *)
LEMMA CallStep ==
  ASSUME BusInv, WireInv, call # NO_CALL, [Next]_busVars, ~Return
  PROVE  CallInv' /\ ChipTypes' /\ call' = call /\ [File!Next]_File!fileVars
<1>0. /\ PinsInv /\ WireTypes /\ ChipTypes /\ next = "idle" /\ gpio_mmap = "mapped"
      /\ todo \in Seq(Quiet)
  BY DEF BusInv, WireInv, CallInv, PinsInv
<1>1. Pins = latch
  BY <1>0, PinsAre DEF PinsInv
<1>2. PICK c \in Calls : c = call
  BY DEF WireInv
<1>3. PICK p \in 0 .. CallLength(c) : Left(c, p) /\ CallAt(c, p)
  BY <1>2 DEF WireInv, CallInv
<1>4. ~GpioCall /\ ~InitSpi /\ ~SpiReady /\ ~Call
  BY <1>0 DEF GpioCall, InitSpi, SpiReady, Call
<1>5. ~PinFunction
  <2>1. PinFunction => todo # <<>> /\ Head(todo).do \in {"input", "output"}
    BY DEF PinFunction, Doing
  <2>2. todo # <<>> => Head(todo) \in Quiet
    BY <1>0
  <2> QED
    BY <2>1, <2>2 DEF Quiet
<1>6. ASSUME NEW k \in 0 .. CallLength(c), Left(c, k)', CallAt(c, k)',
             UNCHANGED <<call, next, gpio_mmap>>
      PROVE  CallInv'
  BY <1>0, <1>2, <1>6 DEF CallInv, CallLength, ByteCount
<1>7. CASE DriverStep
  <2>1. p + 1 \in 0 .. CallLength(c) /\ Left(c, p + 1)' /\ CallAt(c, p + 1)'
    BY <1>0, <1>1, <1>3, <1>7, CallDriverStep
  <2>2. UNCHANGED <<call, returned>> /\ UNCHANGED <<next, gpio_mmap>> /\ UNCHANGED chipVars
    BY <1>7, DriverPerforms DEF gpioVars
  <2>3. ChipTypes' /\ UNCHANGED File!fileVars
    BY <1>0, <2>2 DEF ChipTypes, chipVars, File!fileVars
  <2>4. CallInv'
    BY <1>6, <2>1, <2>2
  <2> QED
    BY <2>2, <2>3, <2>4
<1>8. CASE ChipRise \/ ChipFall \/ ChipOther
  <2>1. UNCHANGED <<call, todo>> /\ UNCHANGED <<next, gpio_mmap>>
    BY <1>8 DEF ChipRise, ChipFall, ChipOther, driverVars, gpioVars
  <2>2. Left(c, p)'
    BY <1>3, <2>1 DEF Left, CallLength, ByteCount
  <2>3. CallAt(c, p)' /\ ChipTypes' /\ [File!Next]_File!fileVars
    <3>1. CASE ChipRise
      BY <1>0, <1>1, <1>2, <1>3, <3>1, CallRise
    <3>2. CASE ChipFall
      BY <1>0, <1>1, <1>2, <1>3, <3>2, CallFall
    <3>3. CASE ChipOther
      BY <1>0, <1>1, <1>2, <1>3, <3>3, CallOther
    <3> QED
      BY <1>8, <3>1, <3>2, <3>3
  <2>4. CallInv'
    BY <1>6, <2>1, <2>2, <2>3
  <2> QED
    BY <2>1, <2>3, <2>4
<1>9. CASE UNCHANGED busVars
  <2>1. UNCHANGED <<call, todo, returned, input, latch>> /\ UNCHANGED <<next, gpio_mmap>>
        /\ UNCHANGED chipVars
    BY <1>9 DEF busVars, driverVars, gpioVars
  <2>2. CallInv'
    <3>1. /\ \A n : InputAt(c, n) => InputAt(c, n)'
          /\ \A n : Between(c, n) => Between(c, n)'
          /\ \A n : Settled(n) => Settled(n)'
          /\ \A n : Low(n) => Low(n)'
          /\ \A n : GivenBit(n)' <=> GivenBit(n)
      BY <2>1, InputKept DEF Between, Settled, Low, GivenBit, Given, BitIs, Taken, Reading,
         SentBit, chipVars
    <3>2. \A n : \A m : BitAt(c, n, m) => BitAt(c, n, m)'
      BY <2>1, <3>1 DEF BitAt, Taken, Reading, SentBit, BitIs, chipVars
    <3>3. ChipAt(c) => ChipAt(c)'
      BY <2>1, ChipKept
    <3>4. \A q : EndAt(c, q) => EndAt(c, q)'
      BY <3>1 DEF EndAt, ByteCount
    <3>5. MidAt(c, p) => MidAt(c, p)'
      BY <3>1, <3>2, <3>3 DEF MidAt, ByteCount
    <3>6. LastAt(c, p) => LastAt(c, p)'
      BY <3>1, <3>3, <3>4 DEF LastAt, ByteCount
    <3>7. BeginAt(p) => BeginAt(p)'
      BY <2>1 DEF BeginAt, chipVars
    <3>8. AfterAt(c, p) => AfterAt(c, p)'
      BY <2>1 DEF AfterAt, Done, BitIs, Reading, ByteCount, chipVars
    <3>9. CallAt(c, p)'
      BY <1>3, <3>5, <3>6, <3>7, <3>8 DEF CallAt
    <3>10. Left(c, p)'
      BY <1>3, <2>1 DEF Left, CallLength, ByteCount
    <3> QED
      BY <1>6, <2>1, <3>9, <3>10
  <2>3. ChipTypes' /\ UNCHANGED File!fileVars
    BY <1>0, <2>1 DEF ChipTypes, chipVars, File!fileVars
  <2> QED
    BY <2>1, <2>2, <2>3
<1> QED
  BY <1>4, <1>5, <1>7, <1>8, <1>9 DEF Next, DriverStep

(* Every step keeps WireInv and is a step of RegisterFile or a stutter.    *)
LEMMA WireStep ==
  ASSUME BusInv, WireInv, [Next]_busVars
  PROVE  WireInv' /\ [File!Next]_File!fileVars
<1>0. WireTypes'
  BY TypesStep
<1>1. CASE Call
  <2>1. CallInv' /\ ChipTypes' /\ call' \in Calls /\ File!Begin
    BY <1>1, CallBegins
  <2> QED
    BY <1>0, <2>1, NoCallIsNone DEF WireInv, File!Next
<1>2. CASE call # NO_CALL /\ Return
  <2>1. CS \in latch /\ File!Return
    BY <1>2, CallReturns
  <2>2. /\ call' = NO_CALL /\ todo' = <<>> /\ UNCHANGED latch /\ UNCHANGED chipVars
    BY <1>2 DEF Return
  <2>3. ChipTypes'
    BY <2>2 DEF WireInv, ChipTypes, chipVars
  <2> QED
    BY <1>0, <2>1, <2>2, <2>3 DEF WireInv, Idle, File!Next
<1>3. CASE call # NO_CALL /\ ~Return
  <2>1. CallInv' /\ ChipTypes' /\ call' = call /\ [File!Next]_File!fileVars
    BY <1>3, CallStep
  <2> QED
    BY <1>0, <1>3, <2>1 DEF WireInv
<1>4. CASE call = NO_CALL /\ ~Call
  <2>1. call' = NO_CALL
    BY <1>4, Zenon DEF Next, GpioCall, InitSpi, SpiReady, PinWrite, PinFunction, PinRead, Wait,
       Return, ChipRise, ChipFall, ChipOther, busVars, driverVars
  <2>2. Idle' /\ (next' # "spi" => todo' = <<>>) /\ ChipTypes' /\ UNCHANGED File!fileVars
    BY <1>4, <2>1, IdleStep
  <2> QED
    BY <1>0, <2>1, <2>2 DEF WireInv
<1> QED
  BY <1>1, <1>2, <1>3, <1>4

(* WireInv holds at the start, and RegisterFile starts as SpiBus does.     *)
LEMMA InitWireInv ==
  ASSUME Init
  PROVE  WireInv /\ File!Init
<1>1. /\ gpio_mmap = "NULL" /\ next = "idle" /\ todo = <<>> /\ call = NO_CALL
      /\ latch \in SUBSET {CS, SCK, MOSI} /\ input = <<>> /\ returned = <<>>
      /\ seen = Pins /\ miso = FALSE /\ shift = <<>> /\ out = {}
      /\ registers = [a \in Addresses |-> {}]
      /\ memory = [c \in 0 .. CELLS - 1 |-> {}]
      /\ read_at = 0 /\ write_at = 0
      /\ step = 0 /\ delivered = <<>>
  BY DEF Init, GpioInit
<1>2. WireTypes
  <2>1. seen \subseteq {MOSI, SCK, CS}
    BY <1>1 DEF Pins
  <2>2. <<>> \in Seq(BOOLEAN) /\ FALSE \in BOOLEAN
    OBVIOUS
  <2> QED
    BY <1>1, <2>1, <2>2 DEF WireTypes, Outputs
<1>3. ChipTypes
  <2>1. <<>> \in Seq(Byte) /\ {} \in Byte
    BY DEF Byte
  <2>2. 0 \in 0 .. CELLS - 1
    BY BusAssumption
  <2> QED
    BY <1>1, <2>1, <2>2 DEF ChipTypes
<1>4. Idle
  BY <1>1 DEF Idle, Clean
<1>5. File!Init
  BY <1>1 DEF File!Init, File!NO_CALL, NO_CALL
<1> QED
  BY <1>1, <1>2, <1>3, <1>4, <1>5 DEF WireInv

(* Whenever the chip sees the pins change, every call does to its          *)
(* registers and its buffer memory what gpio_spi.h says, and returns what  *)
(* the chip gave out, for every set of calls and transfers of any length   *)
(* (spi_write_byte, spi_read_byte, write_register, read_register,          *)
(* write_buffer, read_buffer, reset).                                      *)
THEOREM BusIsARegisterFile == Spec => ImplementsRegisterFile
<1>1. Init => WireInv /\ File!Init
  BY InitWireInv
<1>2. BusInv /\ WireInv /\ [Next]_busVars => WireInv' /\ [File!Next]_File!fileVars
  BY WireStep
<1>3. Spec => []BusInv
  BY BusInvariant
<1> QED
  BY <1>1, <1>2, <1>3, PTL DEF Spec, ImplementsRegisterFile, File!Spec
=============================================================================
