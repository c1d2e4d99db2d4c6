-------------------------- MODULE EthDriverProofs --------------------------
(***************************************************************************)
(* The driver and the chip, for every size of the ring, of the frames and  *)
(* of the packet buffer: each register is accessed in its bank, frames are *)
(* returned whole and in order however the chip's steps fall between the   *)
(* accesses, and packets are transmitted as they were given.               *)
(***************************************************************************)
EXTENDS EthDriver, DataLemmas

(***************************************************************************)
(* What is left of a call is described by where it leads.  A label is the  *)
(* bank in use, OUT when push_bank is not under way, and the stage of      *)
(* get_packet or send_packet, "start" in init_ethernet, "idle" outside.    *)
(***************************************************************************)
OUT == 5

Stages ==
  {"start", "idle", "found", "located", "sized", "copying", "skipping", "copied",
   "freed", "given", "loaded", "sending"}

Labels == [bank : 0 .. 3 \cup {OUT}, stage : Stages]

Operations ==
  {"push", "pop", "gpio", "reset", "clear", "set", "expect 0", "expect 3", "absent", "ESTAT",
   "ERXST", "ERDPT", "enable", "disable", "ERXND", "EWRPT", "MACON", "MAADR",
   "MIREGADR", "MIWR", "MISTAT", "ETXST", "ETXND", "count", "pointer", "next",
   "status", "data", "skip", "free", "decrement", "load", "transmit", "wait"}

Entries == [do : Operations, in : 0 .. 4]

IDLE == [bank |-> OUT, stage |-> "idle"]

(* An access of the call leads from one label to the next.                 *)
BankOf(a) == IF a.bank = OUT THEN 0 ELSE a.bank

BankMoves(e, a, b) ==
  /\ e.do = "push" => a.bank = OUT /\ e.in \in 0 .. 3 /\ b.bank = e.in
  /\ e.do = "pop" => a.bank # OUT /\ b.bank = OUT
  /\ e.do = "clear" => a.bank # OUT /\ b.bank = 0
  /\ e.do = "set" => a.bank # OUT /\ b.bank = 3
  /\ e.do = "data" => a.bank = OUT
  /\ e.do \notin {"push", "pop", "clear", "set"} => b.bank = a.bank
  /\ e.do # "push" => e.in \in {ANY, BankOf(a)}

StageMoves(e, a, b) ==
  /\ e.do = "count" => a.stage = "idle" /\ b.stage = "found" /\ a.bank # OUT
  /\ e.do = "pointer" => a.stage = "found" /\ b.stage = "located"
  /\ e.do = "next" => a.stage = "located" /\ b.stage = "sized"
  /\ e.do = "status" => a.stage = "sized" /\ b.stage = "copying"
  /\ e.do = "data" => a.stage = "copying" /\ b.stage = "copied"
  /\ e.do = "skip" => a.stage = "skipping" /\ b.stage = "copied"
  /\ e.do = "free" => a.stage = "copied" /\ b.stage = "freed"
  /\ e.do = "decrement" => a.stage = "freed" /\ b.stage = "idle"
  /\ e.do = "load" => a.stage = "given" /\ b.stage = "loaded"
  /\ e.do = "transmit" => a.stage = "loaded" /\ b.stage = "sending"
  /\ e.do = "wait" => a.stage = "sending" /\ b.stage = "idle"
  /\ e.do = "enable" => a.stage = "start" /\ b.stage = "idle"
  /\ e.do \in {"gpio", "ERXST", "ERDPT", "ESTAT", "expect 0", "expect 3"} =>
       a.stage = "start"
  /\ e.do \notin {"count", "pointer", "next", "status", "data", "skip", "free",
                  "decrement", "load", "transmit", "wait", "enable"} =>
       b.stage = a.stage
  /\ e.do # "absent"

Moves(e, a, b) == BankMoves(e, a, b) /\ StageMoves(e, a, b)

Leads(s, a, b) == s \in Seq(Entries) /\
  \E at \in [1 .. Len(s) + 1 -> Labels] :
    /\ at[1] = a /\ at[Len(s) + 1] = b
    /\ \A i \in 1 .. Len(s) : Moves(s[i], at[i], at[i+1])

(***************************************************************************)
(* The inductive invariant.                                                *)
(***************************************************************************)
(* Where frame k starts in the ring, and where the next one will.          *)
StartOf(k) == IF k = 1 THEN 0 ELSE next_of[k-1]
Length(k)  == HEADER + frames[k]
Cell(p)    == p % N

(* How far past ERXRDPT frame k starts.                                    *)
Offset(k) == (StartOf(k) - erxrdpt) % N

Read     == Len(got)
Accepted == Len(frames)

(* The first frame that the driver has not given back to the chip.         *)
First(stage) == IF stage = "freed" THEN Read + 2 ELSE Read + 1

READING ==
  {"found", "located", "sized", "copying", "skipping", "copied", "freed"}

Counts(stage) ==
  /\ Len(next_of) = Accepted /\ Read <= Accepted /\ epktcnt = Accepted - Read
  /\ stage \in READING => Read < Accepted
  /\ stage = "start" => rxen = FALSE /\ Accepted = 0

(* Frames follow one another in the ring, and the unread ones lie between  *)
(* ERXRDPT and the chip's write pointer.                                   *)
Chained ==
  /\ erxwrpt = StartOf(Accepted + 1)
  /\ \A k \in 1 .. Accepted : StartOf(k+1) = Cell(StartOf(k) + Length(k))

Apart(stage) ==
  \A j, k \in First(stage) .. Accepted + 1 :
    j < k => Offset(j) + Length(j) <= Offset(k)

(* The cells of the frames that have not been given back are intact.       *)
Stored(stage) ==
  \A k \in First(stage) .. Accepted : \A i \in 0 .. Length(k) - 1 :
    memory[Cell(StartOf(k) + i)] = <<k, i>>

Freed(stage) ==
  /\ stage # "freed" /\ Read > 0 => erxrdpt = StartOf(Read + 1)
  /\ stage = "freed" => erxrdpt = StartOf(Read + 2)

(* How far get_packet is with the frame it reads.                          *)
Sized ==
  /\ next_packet = StartOf(Read + 2) /\ size = frames[Read + 1]

Copied ==
  /\ size <= PACKET_MAX_SIZE =>
       \A i \in 1 .. Len(buffer) : buffer[i] = <<Read + 1, HEADER + i - 1>>

Pointed(stage) ==
  /\ stage \notin {"sized", "copying", "skipping", "copied", "freed"} =>
       erdpt = StartOf(Read + 1)
  /\ stage = "located" => read_pointer = erdpt
  /\ stage = "sized" =>
       Sized /\ buffer = <<>> /\ erdpt = Cell(StartOf(Read + 1) + NEXT_LENGTH)
  /\ stage = "copying" =>
       /\ Sized /\ Copied /\ Len(buffer) <= size
       /\ erdpt = Cell(StartOf(Read + 1) + HEADER + Len(buffer))
  /\ stage = "skipping" => Sized /\ size > PACKET_MAX_SIZE
  /\ stage \in {"copied", "freed"} =>
       /\ Sized /\ Copied /\ erdpt = StartOf(Read + 2)
       /\ size <= PACKET_MAX_SIZE => Len(buffer) = size

(* What get_packet has returned, and what the chip has sent.               *)
Returned ==
  \A k \in 1 .. Read :
    got[k] = IF frames[k] <= PACKET_MAX_SIZE THEN Frame(k) ELSE REFUSED

(* Packet k is the k-th given to send_packet.                              *)
Calls   == Len(sends)
Fit(p)  == p.type # "ETH_NULL" /\ p.length \in 0 .. PACKET_MAX_SIZE
Fits(k) == Fit(sends[k])

Transmitted ==
  /\ \A i, j \in 1 .. Len(transmitted) : i < j => transmitted[i] < transmitted[j]
  /\ \A j \in 1 .. Len(transmitted) :
       transmitted[j] \in 1 .. Calls /\ Fits(transmitted[j])

SentUpTo(n) ==
  /\ \A j \in 1 .. Len(transmitted) : transmitted[j] \in 1 .. n
  /\ \A k \in 1 .. n : Fits(k) => \E j \in 1 .. Len(transmitted) : transmitted[j] = k

(* All packets but the one of the call under way have been transmitted.    *)
Waiting == Calls > 0 /\ Fits(Calls) /\ SentUpTo(Calls - 1)

Sending(stage) ==
  /\ stage \in {"given", "loaded"} => txrts = FALSE /\ Waiting
  /\ stage \in {"loaded", "sending"} => tx_memory = Calls
  /\ stage = "sending" /\ txrts = TRUE => Waiting
  /\ stage = "sending" /\ txrts = FALSE => SentUpTo(Calls)
  /\ stage \notin {"given", "loaded", "sending"} => txrts = FALSE /\ SentUpTo(Calls)

StageInv(stage) ==
  /\ Counts(stage) /\ Chained /\ Apart(stage) /\ Stored(stage) /\ Freed(stage)
  /\ Pointed(stage) /\ Sending(stage)

(* The bank stack and the bank really selected, at a label.                *)
Selected(a) ==
  IF a.bank = OUT
  THEN bank_stack = <<>> /\ current_bank = 0 /\ bank = 0
  ELSE bank_stack = <<0>> /\ bank = a.bank

Running ==
  /\ mode \in {"reset", "up"}
  /\ \E a \in Labels :
       /\ Leads(todo, a, IDLE) /\ Selected(a)
       /\ mode = "reset" <=> a.stage = "start"
       /\ StageInv(a.stage)

(* init_ethernet has failed, or is about to.                               *)
ABSENT ==
  { << Pop, Pop, Use("absent", ANY) >>, << Pop, Use("absent", ANY) >>,
    << Use("absent", ANY) >> }

Stopped ==
  /\ \/ mode \in {"failed", "exit"} /\ todo = <<>>
     \/ mode = "reset" /\ todo \in ABSENT
  /\ rxen = FALSE /\ txrts = FALSE /\ Read <= Accepted

CallTypeOK ==
  mode \in {"reset", "up", "failed", "exit"} /\ todo \in Seq(Entries)

DataTypeOK ==
  /\ read_pointer \in 0 .. RX_END /\ next_packet \in 0 .. RX_END
  /\ size \in Int /\ buffer \in Seq(Nat \X Int)
  /\ memory \in [0 .. RX_END -> Nat \X Int] /\ next_of \in Seq(0 .. RX_END)
  /\ erdpt \in 0 .. RX_END /\ erxrdpt \in 0 .. RX_END /\ erxwrpt \in 0 .. RX_END
  /\ epktcnt \in Int /\ rxen \in BOOLEAN
  /\ tx_memory \in Nat /\ txrts \in BOOLEAN /\ sends \in Seq(Packets)
  /\ frames \in Seq(Nat \ {0}) /\ got \in Seq(Seq(Nat \X Int))
  /\ transmitted \in Seq(Nat)

EthInv ==
  /\ CallTypeOK /\ DataTypeOK /\ Returned /\ Transmitted
  /\ Running \/ Stopped

(***************************************************************************)
(* What leads where.                                                       *)
(***************************************************************************)
LEMMA LeadsNowhere ==
  /\ \A a \in Labels : Leads(<<>>, a, a)
  /\ \A a, b : Leads(<<>>, a, b) => a = b
<1>1. ASSUME NEW a \in Labels
      PROVE  Leads(<<>>, a, a)
  <2> DEFINE at == [i \in 1 .. 1 |-> a]
  <2>1. Len(<<>>) = 0 /\ <<>> \in Seq(Entries)
    OBVIOUS
  <2>2. at \in [1 .. 0 + 1 -> Labels] /\ at[1] = a /\ at[0 + 1] = a
    OBVIOUS
  <2> HIDE DEF at
  <2>3. \A i \in 1 .. 0 : Moves(<<>>[i], at[i], at[i+1])
    <3>1. 1 .. 0 = {}
      OBVIOUS
    <3> QED
      BY <3>1, Zenon
  <2>4. \E f \in [1 .. 0 + 1 -> Labels] :
          /\ f[1] = a /\ f[0 + 1] = a
          /\ \A i \in 1 .. 0 : Moves(<<>>[i], f[i], f[i+1])
    BY <2>2, <2>3, Zenon
  <2> QED
    BY <2>1, <2>4, Zenon DEF Leads
<1>2. ASSUME NEW a, NEW b, Leads(<<>>, a, b)
      PROVE  a = b
  BY <1>2 DEF Leads
<1> QED
  BY <1>1, <1>2

LEMMA LeadsOne ==
  ASSUME NEW e \in Entries, NEW a \in Labels, NEW b \in Labels, Moves(e, a, b)
  PROVE  Leads(<<e>>, a, b)
<1> DEFINE at == [i \in 1 .. 2 |-> IF i = 1 THEN a ELSE b]
<1>1. /\ at \in [1 .. 2 -> Labels] /\ at[1] = a /\ at[2] = b
      /\ Len(<<e>>) = 1 /\ <<e>>[1] = e /\ <<e>> \in Seq(Entries)
  OBVIOUS
<1> HIDE DEF at
<1>2. \A i \in 1 .. 1 : Moves(<<e>>[i], at[i], at[i+1])
  <2> SUFFICES ASSUME NEW i \in 1 .. 1
               PROVE  Moves(<<e>>[i], at[i], at[i+1])
    OBVIOUS
  <2>1. i = 1 /\ i + 1 = 2
    OBVIOUS
  <2> QED
    BY <1>1, <2>1
<1> QED
  BY <1>1, <1>2 DEF Leads

LEMMA LeadsConcat ==
  ASSUME NEW s, NEW t, NEW a, NEW b, NEW c, Leads(s, a, b), Leads(t, b, c)
  PROVE  Leads(s \o t, a, c)
<1>0. s \in Seq(Entries) /\ t \in Seq(Entries) /\ s \o t \in Seq(Entries)
  <2>1. s \in Seq(Entries) /\ t \in Seq(Entries)
    BY Zenon DEF Leads
  <2> QED
    BY <2>1, ConcatProperties
<1>1. PICK f \in [1 .. Len(s) + 1 -> Labels] :
        /\ f[1] = a /\ f[Len(s) + 1] = b
        /\ \A i \in 1 .. Len(s) : Moves(s[i], f[i], f[i+1])
  BY DEF Leads
<1>2. PICK g \in [1 .. Len(t) + 1 -> Labels] :
        /\ g[1] = b /\ g[Len(t) + 1] = c
        /\ \A i \in 1 .. Len(t) : Moves(t[i], g[i], g[i+1])
  BY DEF Leads
<1> DEFINE m == Len(s)
           n == Len(t)
           at == [i \in 1 .. m + n + 1 |-> IF i <= m THEN f[i] ELSE g[i - m]]
<1>3. /\ m \in Nat /\ n \in Nat /\ Len(s \o t) = m + n
      /\ \A i \in 1 .. m : (s \o t)[i] = s[i]
      /\ \A i \in m+1 .. m+n : (s \o t)[i] = t[i - m]
  BY <1>0, ConcatProperties
<1>4. /\ f \in [1 .. m + 1 -> Labels] /\ f[1] = a /\ f[m + 1] = b
      /\ g \in [1 .. n + 1 -> Labels] /\ g[1] = b /\ g[n + 1] = c
      /\ \A i \in 1 .. m : Moves(s[i], f[i], f[i+1])
      /\ \A i \in 1 .. n : Moves(t[i], g[i], g[i+1])
  BY <1>1, <1>2
<1>5. at \in [1 .. m + n + 1 -> Labels]
  <2> HIDE DEF m, n
  <2> SUFFICES ASSUME NEW i \in 1 .. m + n + 1
               PROVE  (IF i <= m THEN f[i] ELSE g[i - m]) \in Labels
    OBVIOUS
  <2>1. CASE i <= m
    BY <1>3, <1>4, <2>1
  <2>2. CASE i > m
    BY <1>3, <1>4, <2>2
  <2> QED
    BY <1>3, <2>1, <2>2
<1>6. at[1] = a /\ at[m + n + 1] = c
  <2> HIDE DEF m, n
  <2>1. at[1] = (IF 1 <= m THEN f[1] ELSE g[1 - m])
          /\ at[m + n + 1] = (IF m + n + 1 <= m THEN f[m + n + 1] ELSE g[m + n + 1 - m])
    BY <1>3
  <2>2. at[1] = a
    <3>1. CASE m = 0
      <4>1. at[1] = g[1] /\ f[m + 1] = f[1]
        BY <2>1, <3>1
      <4> QED
        BY <1>4, <4>1
    <3>2. CASE m > 0
      BY <1>3, <1>4, <2>1, <3>2
    <3> QED
      BY <1>3, <3>1, <3>2
  <2>3. at[m + n + 1] = c
    <3>1. m + n + 1 - m = n + 1 /\ ~ (m + n + 1 <= m)
      BY <1>3
    <3> QED
      BY <1>4, <2>1, <3>1
  <2> QED
    BY <2>2, <2>3
<1>7. \A i \in 1 .. m + n : Moves((s \o t)[i], at[i], at[i+1])
  <2> HIDE DEF m, n
  <2> SUFFICES ASSUME NEW i \in 1 .. m + n
               PROVE  Moves((s \o t)[i], at[i], at[i+1])
    OBVIOUS
  <2>1. at[i] = (IF i <= m THEN f[i] ELSE g[i - m])
          /\ at[i+1] = (IF i + 1 <= m THEN f[i+1] ELSE g[i + 1 - m])
    BY <1>3
  <2>2. CASE i < m
    <3>1. at[i] = f[i] /\ at[i+1] = f[i+1] /\ i \in 1 .. m
      BY <1>3, <2>1, <2>2
    <3> QED
      BY <1>3, <1>4, <3>1
  <2>3. CASE i = m
    <3>0. i <= m /\ ~ (i + 1 <= m) /\ i + 1 - m = 1 /\ i \in 1 .. m
      BY <1>3, <2>3
    <3>1. at[i] = f[i] /\ at[i+1] = g[1] /\ i \in 1 .. m
      BY <2>1, <3>0
    <3> QED
      BY <1>3, <1>4, <2>3, <3>1
  <2>4. CASE i > m
    <3>1. PICK k \in 1 .. n : k = i - m
      BY <1>3, <2>4
    <3>2. /\ ~ (i <= m) /\ ~ (i + 1 <= m) /\ i + 1 - m = k + 1
          /\ i \in m + 1 .. m + n
      BY <1>3, <2>4, <3>1
    <3>3. at[i] = g[k] /\ at[i+1] = g[k+1]
      BY <2>1, <3>1, <3>2
    <3>4. (s \o t)[i] = t[k]
      BY <1>3, <3>1, <3>2
    <3> QED
      BY <1>4, <3>3, <3>4
  <2> QED
    BY <1>3, <2>2, <2>3, <2>4
<1> HIDE DEF at, m, n
<1> QED
  BY <1>0, <1>3, <1>5, <1>6, <1>7 DEF Leads

LEMMA LeadsOn ==
  ASSUME NEW s, s # <<>>, NEW a, NEW c, Leads(s, a, c)
  PROVE  \E b \in Labels :
           a \in Labels /\ Moves(Head(s), a, b) /\ Leads(Tail(s), b, c)
<1>0. s \in Seq(Entries)
  BY Zenon DEF Leads
<1>1. PICK f \in [1 .. Len(s) + 1 -> Labels] :
        /\ f[1] = a /\ f[Len(s) + 1] = c
        /\ \A i \in 1 .. Len(s) : Moves(s[i], f[i], f[i+1])
  BY DEF Leads
<1>2. PICK n \in Nat : Len(s) = n + 1
  BY <1>0, EmptySeq, LenProperties
<1>3. /\ Head(s) = s[1] /\ Tail(s) \in Seq(Entries) /\ Len(Tail(s)) = n
      /\ \A i \in 1 .. n : Tail(s)[i] = s[i+1]
  BY <1>0, <1>2, HeadTailProperties
<1> DEFINE g == [i \in 1 .. n + 1 |-> f[i+1]]
<1>4. f \in [1 .. n + 2 -> Labels] /\ f[n + 2] = c
  BY <1>1, <1>2
<1>5. g \in [1 .. n + 1 -> Labels] /\ g[1] = f[2] /\ g[n + 1] = c
  BY <1>4
<1>6. \A i \in 1 .. n : Moves(Tail(s)[i], g[i], g[i+1])
  <2> SUFFICES ASSUME NEW i \in 1 .. n
               PROVE  Moves(Tail(s)[i], g[i], g[i+1])
    OBVIOUS
  <2>1. i + 1 \in 1 .. Len(s)
    BY <1>2
  <2>2. Moves(s[i+1], f[i+1], f[i+1+1])
    BY <1>1, <2>1
  <2>3. g[i] = f[i+1] /\ g[i+1] = f[i+1+1] /\ Tail(s)[i] = s[i+1]
    BY <1>3
  <2> QED
    BY <2>2, <2>3
<1> HIDE DEF g
<1>7. Leads(Tail(s), f[2], c)
  BY <1>3, <1>5, <1>6 DEF Leads
<1>8. /\ f[1] = a /\ f[1] \in Labels /\ f[2] \in Labels
      /\ Moves(s[1], f[1], f[2])
  <2>1. 1 \in 1 .. Len(s) /\ 1 \in 1 .. n + 2 /\ 2 \in 1 .. n + 2 /\ 1 + 1 = 2
    BY <1>2
  <2> QED
    BY <1>1, <1>4, <2>1
<1> QED
  BY <1>3, <1>7, <1>8


Lbl(b, x) == [bank |-> b, stage |-> x]

LEMMA LeadsTwo ==
  ASSUME NEW e, NEW f, NEW a, NEW b, NEW c, Leads(<<e>>, a, b), Leads(<<f>>, b, c)
  PROVE  Leads(<<e, f>>, a, c)
<1>1. <<e, f>> = <<e>> \o <<f>>
  <2>1. /\ <<e>> \in Seq({e, f}) /\ <<f>> \in Seq({e, f})
        /\ <<e, f>> \in Seq({e, f})
        /\ Len(<<e>>) = 1 /\ Len(<<f>>) = 1 /\ Len(<<e, f>>) = 2
        /\ <<e>>[1] = e /\ <<f>>[1] = f /\ <<e, f>>[1] = e /\ <<e, f>>[2] = f
    OBVIOUS
  <2>2. /\ <<e>> \o <<f>> \in Seq({e, f}) /\ Len(<<e>> \o <<f>>) = 2
        /\ (<<e>> \o <<f>>)[1] = e /\ (<<e>> \o <<f>>)[2] = f
    BY <2>1, ConcatProperties
  <2>3. \A i \in 1 .. 2 : <<e, f>>[i] = (<<e>> \o <<f>>)[i]
    BY <2>1, <2>2
  <2>4. \A i \in 1 .. Len(<<e, f>>) : <<e, f>>[i] = (<<e>> \o <<f>>)[i]
    BY <2>1, <2>3, Zenon
  <2>5. Len(<<e, f>>) = Len(<<e>> \o <<f>>)
    BY <2>1, <2>2
  <2> QED
    BY <2>1, <2>2, <2>4, <2>5, SeqEqual, Zenon
<1> QED
  BY <1>1, LeadsConcat, Zenon

LEMMA LeadsThree ==
  ASSUME NEW e, NEW f, NEW g, NEW a, NEW b, NEW c, NEW d,
         Leads(<<e>>, a, b), Leads(<<f>>, b, c), Leads(<<g>>, c, d)
  PROVE  Leads(<<e, f, g>>, a, d)
<1>1. <<e, f, g>> = <<e, f>> \o <<g>>
  <2> DEFINE S == {e, f, g}
  <2>1. /\ <<e, f>> \in Seq(S) /\ <<g>> \in Seq(S) /\ <<e, f, g>> \in Seq(S)
        /\ Len(<<e, f>>) = 2 /\ Len(<<g>>) = 1 /\ Len(<<e, f, g>>) = 3
        /\ <<e, f>>[1] = e /\ <<e, f>>[2] = f /\ <<g>>[1] = g
        /\ <<e, f, g>>[1] = e /\ <<e, f, g>>[2] = f /\ <<e, f, g>>[3] = g
    OBVIOUS
  <2>2. /\ <<e, f>> \o <<g>> \in Seq(S) /\ Len(<<e, f>> \o <<g>>) = 3
        /\ (<<e, f>> \o <<g>>)[1] = e /\ (<<e, f>> \o <<g>>)[2] = f
        /\ (<<e, f>> \o <<g>>)[3] = g
    BY <2>1, ConcatProperties
  <2>3. \A i \in 1 .. 3 : <<e, f, g>>[i] = (<<e, f>> \o <<g>>)[i]
    BY <2>1, <2>2
  <2>4. \A i \in 1 .. Len(<<e, f, g>>) : <<e, f, g>>[i] = (<<e, f>> \o <<g>>)[i]
    BY <2>1, <2>3, Zenon
  <2>5. Len(<<e, f, g>>) = Len(<<e, f>> \o <<g>>)
    BY <2>1, <2>2
  <2> QED
    BY <2>1, <2>2, <2>4, <2>5, SeqEqual, Zenon
<1>2. Leads(<<e, f>>, a, c)
  BY LeadsTwo, Zenon
<1> QED
  BY <1>1, <1>2, LeadsConcat, Zenon

LEMMA InBankLeads ==
  ASSUME NEW b \in 0 .. 3, NEW c \in 0 .. 3, NEW x \in Stages, NEW y \in Stages,
         NEW s, Leads(s, Lbl(b, x), Lbl(c, y))
  PROVE  Leads(InBank(b, s), Lbl(OUT, x), Lbl(OUT, y))
<1>1. /\ Lbl(OUT, x) \in Labels /\ Lbl(OUT, y) \in Labels
      /\ Lbl(b, x) \in Labels /\ Lbl(c, y) \in Labels
  BY DEF Lbl, Labels, OUT
<1>2. Push(b) \in Entries /\ Pop \in Entries
  <2>1. b \in 0 .. 4 /\ 4 \in 0 .. 4
    OBVIOUS
  <2>2. "push" \in Operations /\ "pop" \in Operations
    BY DEF Operations
  <2> QED
    BY <2>1, <2>2, Zenon DEF Push, Pop, Entries, ANY
<1>3. Moves(Push(b), Lbl(OUT, x), Lbl(b, x))
  BY DEF Moves, BankMoves, StageMoves, Push, Lbl, OUT
<1>4. Moves(Pop, Lbl(c, y), Lbl(OUT, y))
  BY DEF Moves, BankMoves, StageMoves, Pop, Lbl, OUT
<1>5. Leads(<<Push(b)>>, Lbl(OUT, x), Lbl(b, x)) /\ Leads(<<Pop>>, Lbl(c, y), Lbl(OUT, y))
  BY <1>1, <1>2, <1>3, <1>4, LeadsOne
<1>6. Leads(<<Push(b)>> \o s, Lbl(OUT, x), Lbl(c, y))
  BY <1>5, LeadsConcat, Zenon
<1> QED
  BY <1>5, <1>6, LeadsConcat, Zenon DEF InBank

LEMMA Entry ==
  /\ \A r \in Operations, b \in 0 .. 4 : Use(r, b) \in Entries
  /\ Pop \in Entries
<1>1. \A r \in Operations, b \in 0 .. 4 : Use(r, b) \in Entries
  BY Zenon DEF Use, Entries
<1>2. "pop" \in Operations
  BY DEF Operations
<1>3. ANY \in 0 .. 4
  BY DEF ANY
<1> QED
  BY <1>1, <1>2, <1>3, Zenon DEF Pop, Entries

LEMMA Label ==
  \A b \in 0 .. 3 \cup {OUT}, x \in Stages : Lbl(b, x) \in Labels
BY Zenon DEF Lbl, Labels

Plain == Operations \ {"push", "pop", "clear", "set"}

(* An access in its bank leads where its stage leads.                      *)
LEMMA UseLeads ==
  ASSUME NEW r \in Plain,
         NEW b \in 0 .. 3 \cup {OUT}, NEW in \in 0 .. 4,
         in = ANY \/ in = b \/ (in = 0 /\ b = OUT), r = "data" => b = OUT,
         NEW x \in Stages, NEW y \in Stages,
         StageMoves(Use(r, in), Lbl(b, x), Lbl(b, y))
  PROVE  Leads(<<Use(r, in)>>, Lbl(b, x), Lbl(b, y))
<1>1. Use(r, in) \in Entries /\ Lbl(b, x) \in Labels /\ Lbl(b, y) \in Labels
  BY Entry, Label DEF Plain
<1>2. Use(r, in).do = r /\ Use(r, in).in = in /\ Lbl(b, x).bank = b /\ Lbl(b, y).bank = b
  BY DEF Use, Lbl
<1>3. BankOf(Lbl(b, x)) = (IF b = OUT THEN 0 ELSE b)
  BY <1>2 DEF BankOf
<1>4. BankMoves(Use(r, in), Lbl(b, x), Lbl(b, y))
  BY <1>2, <1>3 DEF BankMoves, OUT, Plain
<1> QED
  BY <1>1, <1>4, LeadsOne DEF Moves

LEMMA Members ==
  /\ \A x \in {"start", "idle", "found", "located", "sized", "copying", "skipping",
             "copied", "freed", "given", "loaded", "sending"} : x \in Stages
  /\ \A r \in {"gpio", "reset", "expect 0", "expect 3", "ESTAT", "ERXST", "ERDPT", "enable",
             "disable", "ERXND", "EWRPT", "MACON", "MAADR", "MIREGADR", "MIWR",
             "MISTAT", "ETXST", "ETXND", "count", "pointer", "next", "status",
             "data", "skip", "free", "decrement", "load", "transmit", "wait"} : r \in Plain
  /\ 0 \in 0 .. 3 /\ 1 \in 0 .. 3 /\ 2 \in 0 .. 3 /\ 3 \in 0 .. 3
  /\ 0 \in 0 .. 4 /\ 1 \in 0 .. 4 /\ 2 \in 0 .. 4 /\ 3 \in 0 .. 4 /\ ANY \in 0 .. 4
BY DEF Stages, Plain, Operations, ANY

(* push_bank, one access and pop_bank.                                     *)
LEMMA InBankUse ==
  ASSUME NEW r \in Plain, NEW b \in 0 .. 3, NEW x \in Stages, NEW y \in Stages,
         StageMoves(Use(r, b), Lbl(b, x), Lbl(b, y)), r # "data"
  PROVE  Leads(InBank(b, <<Use(r, b)>>), Lbl(OUT, x), Lbl(OUT, y))
<1>1. b \in 0 .. 3 \cup {OUT} /\ b \in 0 .. 4
  OBVIOUS
<1>2. Leads(<<Use(r, b)>>, Lbl(b, x), Lbl(b, y))
  BY <1>1, UseLeads, Zenon
<1> QED
  BY <1>2, InBankLeads, Zenon

(* Registers that do not matter to where the call is.                      *)
Quiet ==
  {"reset", "disable", "ERXND", "EWRPT", "MACON", "MAADR", "MIREGADR", "MIWR", "MISTAT",
   "ETXST", "ETXND"}

LEMMA QuietMoves ==
  \A r \in Quiet : \A b, in, x :
    StageMoves(Use(r, in), Lbl(b, x), Lbl(b, x)) /\ r \in Plain /\ r # "data"
<1> SUFFICES ASSUME NEW r \in Quiet, NEW b, NEW in, NEW x
             PROVE  /\ StageMoves(Use(r, in), Lbl(b, x), Lbl(b, x))
                    /\ r \in Plain /\ r # "data"
  OBVIOUS
<1>1. r \in Plain
  BY Zenon DEF Quiet, Plain, Operations
<1>2. Use(r, in).do = r /\ Lbl(b, x).stage = x
  BY DEF Use, Lbl
<1>3. r \notin {"count", "pointer", "next", "status", "data", "skip", "free",
                "decrement", "load", "transmit", "wait", "enable", "gpio", "ERXST",
                "ERDPT", "ESTAT",
                "expect 0", "expect 3", "absent"}
  BY Zenon DEF Quiet
<1>4. StageMoves(Use(r, in), Lbl(b, x), Lbl(b, x))
  BY <1>2, <1>3, Zenon DEF StageMoves
<1> QED
  BY <1>1, <1>3, <1>4, Zenon

LEMMA QuietMembers ==
  /\ "disable" \in Quiet /\ "ERXND" \in Quiet /\ "EWRPT" \in Quiet
  /\ "MACON" \in Quiet /\ "MAADR" \in Quiet /\ "MIREGADR" \in Quiet
  /\ "MIWR" \in Quiet /\ "MISTAT" \in Quiet /\ "ETXST" \in Quiet
  /\ "ETXND" \in Quiet /\ "reset" \in Quiet
BY DEF Quiet

LEMMA QuietUse ==
  ASSUME NEW r \in Quiet, NEW x \in Stages
  PROVE  Leads(<<Use(r, ANY)>>, Lbl(OUT, x), Lbl(OUT, x))
<1>1. OUT \in 0 .. 3 \cup {OUT}
  OBVIOUS
<1> QED
  BY <1>1, QuietMoves, UseLeads, Members, Zenon

LEMMA QuietTwo ==
  ASSUME NEW r \in Quiet, NEW q \in Quiet, NEW b \in 0 .. 3, NEW x \in Stages
  PROVE  Leads(InBank(b, << Use(r, b), Use(q, b) >>), Lbl(OUT, x), Lbl(OUT, x))
<1>1. b \in 0 .. 3 \cup {OUT} /\ b \in 0 .. 4
  OBVIOUS
<1>2. Leads(<<Use(r, b)>>, Lbl(b, x), Lbl(b, x)) /\ r \in Plain
  BY <1>1, QuietMoves, UseLeads, Zenon
<1>3. Leads(<<Use(q, b)>>, Lbl(b, x), Lbl(b, x)) /\ q \in Plain
  BY <1>1, QuietMoves, UseLeads, Zenon
<1>4. Leads(<<Use(r, b), Use(q, b)>>, Lbl(b, x), Lbl(b, x))
  BY <1>1, <1>2, <1>3, LeadsTwo, Zenon
<1> QED
  BY <1>4, InBankLeads, Zenon

LEMMA GetPacketLeads == Leads(GetPacket, IDLE, IDLE)
<1>1. Leads(InBank(1, << Use("count", 1) >>), Lbl(OUT, "idle"), Lbl(OUT, "found"))
  <2>1. StageMoves(Use("count", 1), Lbl(1, "idle"), Lbl(1, "found"))
    BY DEF StageMoves, Use, Lbl, OUT
  <2> QED
    BY <2>1, InBankUse, Members, Zenon
<1>2. Leads(InBank(0, << Use("pointer", 0) >>), Lbl(OUT, "found"), Lbl(OUT, "located"))
  <2>1. StageMoves(Use("pointer", 0), Lbl(0, "found"), Lbl(0, "located"))
    BY DEF StageMoves, Use, Lbl
  <2> QED
    BY <2>1, InBankUse, Members, Zenon
<1>3. Leads(<< Use("next", ANY), Use("status", ANY), Use("data", ANY) >>,
            Lbl(OUT, "located"), Lbl(OUT, "copied"))
  <2>1. StageMoves(Use("next", ANY), Lbl(OUT, "located"), Lbl(OUT, "sized"))
    BY DEF StageMoves, Use, Lbl
  <2>2. StageMoves(Use("status", ANY), Lbl(OUT, "sized"), Lbl(OUT, "copying"))
    BY DEF StageMoves, Use, Lbl
  <2>3. StageMoves(Use("data", ANY), Lbl(OUT, "copying"), Lbl(OUT, "copied"))
    BY DEF StageMoves, Use, Lbl
  <2>4. OUT \in 0 .. 3 \cup {OUT}
    OBVIOUS
  <2>5. Leads(<<Use("next", ANY)>>, Lbl(OUT, "located"), Lbl(OUT, "sized"))
    BY <2>1, <2>4, UseLeads, Members, Zenon
  <2>6. Leads(<<Use("status", ANY)>>, Lbl(OUT, "sized"), Lbl(OUT, "copying"))
    BY <2>2, <2>4, UseLeads, Members, Zenon
  <2>7. Leads(<<Use("data", ANY)>>, Lbl(OUT, "copying"), Lbl(OUT, "copied"))
    BY <2>3, <2>4, UseLeads, Members, Zenon
  <2> QED
    BY <2>5, <2>6, <2>7, LeadsThree, Entry, Zenon
<1>4. Leads(InBank(0, << Use("free", 0) >>), Lbl(OUT, "copied"), Lbl(OUT, "freed"))
  <2>1. StageMoves(Use("free", 0), Lbl(0, "copied"), Lbl(0, "freed"))
    BY DEF StageMoves, Use, Lbl
  <2> QED
    BY <2>1, InBankUse, Members, Zenon
<1>5. Leads(<< Use("decrement", ANY) >>, Lbl(OUT, "freed"), Lbl(OUT, "idle"))
  <2>1. StageMoves(Use("decrement", ANY), Lbl(OUT, "freed"), Lbl(OUT, "idle"))
    BY DEF StageMoves, Use, Lbl
  <2>2. OUT \in 0 .. 3 \cup {OUT}
    OBVIOUS
  <2> QED
    BY <2>1, <2>2, UseLeads, Members, Zenon
<1>6. Leads(GetPacket, Lbl(OUT, "idle"), Lbl(OUT, "idle"))
  BY <1>1, <1>2, <1>3, <1>4, <1>5, LeadsConcat, Zenon DEF GetPacket
<1> QED
  BY <1>6, Zenon DEF IDLE, Lbl

LEMMA SendPacketLeads == Leads(SendPacket, Lbl(OUT, "given"), IDLE)
<1>0. OUT \in 0 .. 3 \cup {OUT}
  OBVIOUS
<1>1. Leads(<< Use("EWRPT", 0), Use("load", ANY) >>, Lbl(OUT, "given"), Lbl(OUT, "loaded"))
  <2>1. StageMoves(Use("load", ANY), Lbl(OUT, "given"), Lbl(OUT, "loaded"))
    BY DEF StageMoves, Use, Lbl
  <2>2. StageMoves(Use("EWRPT", 0), Lbl(OUT, "given"), Lbl(OUT, "given"))
    BY QuietMoves, QuietMembers, Zenon
  <2>3. Leads(<<Use("EWRPT", 0)>>, Lbl(OUT, "given"), Lbl(OUT, "given"))
    BY <1>0, <2>2, UseLeads, Members, Zenon
  <2>4. Leads(<<Use("load", ANY)>>, Lbl(OUT, "given"), Lbl(OUT, "loaded"))
    BY <1>0, <2>1, UseLeads, Members, Zenon
  <2> QED
    BY <2>3, <2>4, LeadsTwo, Entry, Zenon
<1>2. Leads(InBank(0, << Use("ETXST", 0), Use("ETXND", 0) >>),
            Lbl(OUT, "loaded"), Lbl(OUT, "loaded"))
  BY QuietTwo, QuietMembers, Members, Zenon
<1>3. Leads(<< Use("transmit", ANY), Use("wait", ANY) >>, Lbl(OUT, "loaded"), Lbl(OUT, "idle"))
  <2>1. StageMoves(Use("transmit", ANY), Lbl(OUT, "loaded"), Lbl(OUT, "sending"))
    BY DEF StageMoves, Use, Lbl
  <2>2. StageMoves(Use("wait", ANY), Lbl(OUT, "sending"), Lbl(OUT, "idle"))
    BY DEF StageMoves, Use, Lbl
  <2>3. Leads(<<Use("transmit", ANY)>>, Lbl(OUT, "loaded"), Lbl(OUT, "sending"))
    BY <1>0, <2>1, UseLeads, Members, Zenon
  <2>4. Leads(<<Use("wait", ANY)>>, Lbl(OUT, "sending"), Lbl(OUT, "idle"))
    BY <1>0, <2>2, UseLeads, Members, Zenon
  <2> QED
    BY <2>3, <2>4, LeadsTwo, Entry, Zenon
<1>4. Leads(SendPacket, Lbl(OUT, "given"), Lbl(OUT, "idle"))
  BY <1>1, <1>2, <1>3, LeadsConcat, Zenon DEF SendPacket
<1> QED
  BY <1>4, Zenon DEF IDLE, Lbl

LEMMA CloseEthernetLeads == Leads(CloseEthernet, IDLE, IDLE)
<1>1. Leads(InBank(2, << Use("MACON", 2) >>), Lbl(OUT, "idle"), Lbl(OUT, "idle"))
  BY InBankUse, QuietMoves, QuietMembers, Members, Zenon
<1>2. Leads(<< Use("disable", ANY) >>, Lbl(OUT, "idle"), Lbl(OUT, "idle"))
  BY QuietUse, QuietMembers, Members, Zenon
<1>3. Leads(CloseEthernet, Lbl(OUT, "idle"), Lbl(OUT, "idle"))
  BY <1>1, <1>2, LeadsConcat, Zenon DEF CloseEthernet
<1> QED
  BY <1>3, Zenon DEF IDLE, Lbl

(* The first access of init_ethernet that sets the driver up is its last.  *)
LEMMA InitEthernetLeads == Leads(InitEthernet, Lbl(OUT, "start"), IDLE)
<1> DEFINE S == Lbl(OUT, "start")
<1>0. OUT \in 0 .. 3 \cup {OUT}
  OBVIOUS
<1>1. Leads(TestPresent, S, S)
  <2>1. Leads(InBank(0, << Use("clear", ANY), Use("expect 0", ANY) >>), S, S)
    <3>1. Moves(Use("clear", ANY), Lbl(0, "start"), Lbl(0, "start"))
      BY DEF Moves, BankMoves, StageMoves, Use, Lbl, OUT
    <3>2. StageMoves(Use("expect 0", ANY), Lbl(0, "start"), Lbl(0, "start"))
      BY DEF StageMoves, Use, Lbl
    <3>3. "clear" \in Operations /\ 0 \in 0 .. 3 \cup {OUT}
      BY DEF Operations
    <3>4. Leads(<<Use("clear", ANY)>>, Lbl(0, "start"), Lbl(0, "start"))
      BY <3>1, <3>3, LeadsOne, Entry, Label, Members, Zenon
    <3>5. Leads(<<Use("expect 0", ANY)>>, Lbl(0, "start"), Lbl(0, "start"))
      BY <3>2, <3>3, UseLeads, Members, Zenon
    <3>6. Leads(<< Use("clear", ANY), Use("expect 0", ANY) >>, Lbl(0, "start"), Lbl(0, "start"))
      BY <3>3, <3>4, <3>5, LeadsTwo, Entry, Members, Zenon
    <3> QED
      BY <3>6, InBankLeads, Members, Zenon
  <2>2. Leads(InBank(0, << Use("set", ANY), Use("expect 3", ANY) >>), S, S)
    <3>1. Moves(Use("set", ANY), Lbl(0, "start"), Lbl(3, "start"))
      BY DEF Moves, BankMoves, StageMoves, Use, Lbl, OUT
    <3>2. StageMoves(Use("expect 3", ANY), Lbl(3, "start"), Lbl(3, "start"))
      BY DEF StageMoves, Use, Lbl
    <3>3. /\ "set" \in Operations /\ 0 \in 0 .. 3 \cup {OUT}
          /\ 3 \in 0 .. 3 \cup {OUT}
      BY DEF Operations
    <3>4. Leads(<<Use("set", ANY)>>, Lbl(0, "start"), Lbl(3, "start"))
      BY <3>1, <3>3, LeadsOne, Entry, Label, Members, Zenon
    <3>5. Leads(<<Use("expect 3", ANY)>>, Lbl(3, "start"), Lbl(3, "start"))
      BY <3>2, <3>3, UseLeads, Members, Zenon
    <3>6. Leads(<< Use("set", ANY), Use("expect 3", ANY) >>, Lbl(0, "start"), Lbl(3, "start"))
      BY <3>3, <3>4, <3>5, LeadsTwo, Entry, Members, Zenon
    <3> QED
      BY <3>6, InBankLeads, Members, Zenon
  <2> QED
    BY <2>1, <2>2, LeadsConcat, Zenon DEF TestPresent
<1>2. Leads(SetRxRange, S, S)
  <2>1. 0 \in 0 .. 3 \cup {OUT}
    OBVIOUS
  <2>2. StageMoves(Use("ERXST", 0), Lbl(0, "start"), Lbl(0, "start"))
    BY DEF StageMoves, Use, Lbl
  <2>3. StageMoves(Use("ERXND", 0), Lbl(0, "start"), Lbl(0, "start"))
    BY QuietMoves, QuietMembers, Zenon
  <2>4. Leads(<<Use("ERXST", 0)>>, Lbl(0, "start"), Lbl(0, "start"))
    BY <2>1, <2>2, UseLeads, Members, Zenon
  <2>5. Leads(<<Use("ERXND", 0)>>, Lbl(0, "start"), Lbl(0, "start"))
    BY <2>1, <2>3, UseLeads, Members, Zenon
  <2>6. Leads(<< Use("ERXST", 0), Use("ERXND", 0) >>, Lbl(0, "start"), Lbl(0, "start"))
    BY <2>4, <2>5, LeadsTwo, Entry, Members, Zenon
  <2> QED
    BY <2>6, InBankLeads, Members, Zenon DEF SetRxRange
<1>3. Leads(<< Use("EWRPT", 0), Use("ERDPT", 0), Use("ESTAT", ANY) >>, S, S)
  <2>1. StageMoves(Use("ERDPT", 0), S, S)
    BY DEF StageMoves, Use, Lbl
  <2>2. StageMoves(Use("ESTAT", ANY), S, S)
    BY DEF StageMoves, Use, Lbl
  <2>3. StageMoves(Use("EWRPT", 0), S, S)
    BY QuietMoves, QuietMembers, Zenon
  <2>4. Leads(<<Use("EWRPT", 0)>>, S, S) 
    BY <1>0, <2>3, UseLeads, Members, Zenon
  <2>5. Leads(<<Use("ERDPT", 0)>>, S, S) 
    BY <1>0, <2>1, UseLeads, Members, Zenon
  <2>6. Leads(<<Use("ESTAT", ANY)>>, S, S) 
    BY <1>0, <2>2, UseLeads, Members, Zenon
  <2> QED
    BY <2>4, <2>5, <2>6, LeadsThree, Entry, Members, Zenon
<1>4. Leads(SetReceiveEnable, S, Lbl(OUT, "idle"))
  <2>1. Leads(<< Use("disable", ANY) >>, S, S)
    BY QuietUse, QuietMembers, Members, Zenon
  <2>2. Leads(InBank(2, << Use("MACON", 2) >>), S, S)
    BY InBankUse, QuietMoves, QuietMembers, Members, Zenon
  <2>3. Leads(InBank(3, << Use("MAADR", 3) >>), S, S)
    BY InBankUse, QuietMoves, QuietMembers, Members, Zenon
  <2>4. Leads(WritePhyReg, S, S)
    <3>1. Leads(InBank(2, << Use("MIREGADR", 2), Use("MIWR", 2) >>), S, S)
      BY QuietTwo, QuietMembers, Members, Zenon
    <3>2. Leads(InBank(3, << Use("MISTAT", 3) >>), S, S)
      BY InBankUse, QuietMoves, QuietMembers, Members, Zenon
    <3> QED
      BY <3>1, <3>2, LeadsConcat, Zenon DEF WritePhyReg, WaitBusy
  <2>5. Leads(<< Use("enable", ANY) >>, S, Lbl(OUT, "idle"))
    <3>1. StageMoves(Use("enable", ANY), S, Lbl(OUT, "idle"))
      BY DEF StageMoves, Use, Lbl
    <3> QED
      BY <1>0, <3>1, UseLeads, Members, Zenon
  <2> QED
    BY <2>1, <2>2, <2>3, <2>4, <2>5, LeadsConcat, Zenon DEF SetReceiveEnable
<1>5. Leads(<< Use("gpio", ANY), Use("reset", ANY) >>, S, S)
  <2>1. StageMoves(Use("gpio", ANY), S, S)
    BY DEF StageMoves, Use, Lbl
  <2>2. Leads(<<Use("gpio", ANY)>>, S, S)
    BY <1>0, <2>1, UseLeads, Members, Zenon
  <2>3. Leads(<<Use("reset", ANY)>>, S, S)
    BY QuietUse, QuietMembers, Members, Zenon
  <2> QED
    BY <2>2, <2>3, LeadsTwo, Zenon
<1>6. Leads(FindBoard, S, S)
  BY <1>1, <1>5, LeadsConcat, Zenon DEF FindBoard
<1>7. Leads(InitEthernet, S, Lbl(OUT, "idle"))
  BY <1>2, <1>3, <1>4, <1>6, LeadsConcat, Zenon DEF InitEthernet
<1> QED
  BY <1>7, Zenon DEF IDLE, Lbl

(***************************************************************************)
(* Places in the ring.                                                     *)
(***************************************************************************)
LEMMA Ring ==
  /\ N \in Nat /\ N > 1 /\ RX_END = N - 1
  /\ NEXT_LENGTH \in Nat /\ STATUS_LENGTH \in Nat
  /\ NEXT_LENGTH > 0 /\ STATUS_LENGTH > 0 /\ HEADER = NEXT_LENGTH + STATUS_LENGTH
BY DriverAssumption DEF N, HEADER

(* A place at most once round the ring from another.                       *)
LEMMA Wrap ==
  ASSUME NEW x \in Int, -N < x, x < 2*N
  PROVE  Cell(x) = IF x < 0 THEN x + N ELSE IF x < N THEN x ELSE x - N
<1> DEFINE n == N
           a == x \div n
           r == x % n
<1>1. n \in Nat /\ n > 1 /\ -n < x /\ x < 2*n
  BY Ring
<1> HIDE DEF n
<1>2. r \in 0 .. n-1 /\ a \in Int /\ x = n * a + r
  BY <1>1
<1> HIDE DEF a, r
<1>3. a >= 2 => n * a >= 2 * n
  BY <1>1, <1>2
<1>4. a <= -2 => n * a <= -(2 * n)
  BY <1>1, <1>2
<1>5. a = -1 => n * a = -n
  BY <1>1
<1>6. a = 0 => n * a = 0
  BY <1>1
<1>7. a = 1 => n * a = n
  BY <1>1
<1>8. a \in {-1, 0, 1}
  BY <1>1, <1>2, <1>3, <1>4
<1>9. r = IF x < 0 THEN x + n ELSE IF x < n THEN x ELSE x - n
  BY <1>1, <1>2, <1>5, <1>6, <1>7, <1>8
<1> QED
  BY <1>9 DEF n, r, Cell

(***************************************************************************)
(* Steps.                                                                  *)
(***************************************************************************)
(* The access to be made next leads from a to b.                           *)
Under(a, b) ==
  /\ mode \in {"reset", "up"} /\ todo \in Seq(Entries) /\ todo # <<>>
  /\ Leads(todo, a, IDLE) /\ Selected(a)
  /\ (mode = "reset" <=> a.stage = "start") /\ StageInv(a.stage)
  /\ BankMoves(Head(todo), a, b) /\ StageMoves(Head(todo), a, b)
  /\ Leads(Tail(todo), b, IDLE)

LEMMA RunningUnder ==
  ASSUME Running, todo # <<>>
  PROVE  \E a \in Labels, b \in Labels : Under(a, b)
<1>1. PICK a \in Labels :
        /\ Leads(todo, a, IDLE) /\ Selected(a)
        /\ mode = "reset" <=> a.stage = "start"
        /\ StageInv(a.stage)
  BY Zenon DEF Running
<1>2. PICK b \in Labels : Moves(Head(todo), a, b) /\ Leads(Tail(todo), b, IDLE)
  BY <1>1, LeadsOn, Zenon
<1>3. todo \in Seq(Entries) /\ mode \in {"reset", "up"}
  BY <1>1, Zenon DEF Leads, Running
<1> QED
  BY <1>1, <1>2, <1>3, Zenon DEF Under, Moves

LEMMA StoppedHead ==
  ASSUME Stopped, todo # <<>>
  PROVE  /\ mode = "reset" /\ Head(todo) \in {Pop, Use("absent", ANY)}
         /\ Head(todo) = Pop => Tail(todo) \in ABSENT
<1>1. mode = "reset" /\ todo \in ABSENT
  BY Zenon DEF Stopped
<1>2. /\ Head(<< Pop, Pop, Use("absent", ANY) >>) = Pop
      /\ Tail(<< Pop, Pop, Use("absent", ANY) >>) = << Pop, Use("absent", ANY) >>
      /\ Head(<< Pop, Use("absent", ANY) >>) = Pop
      /\ Tail(<< Pop, Use("absent", ANY) >>) = << Use("absent", ANY) >>
      /\ Head(<< Use("absent", ANY) >>) = Use("absent", ANY)
  OBVIOUS
<1>3. Pop # Use("absent", ANY)
  BY DEF Pop, Use
<1> QED
  BY <1>1, <1>2, <1>3, Zenon DEF ABSENT

(* Any access but pop_bank and the report of an absent board.              *)
LEMMA DoingUnder ==
  ASSUME EthInv, NEW what, Doing(what), what \notin {"pop", "absent"}
  PROVE  \E a \in Labels, b \in Labels : Under(a, b) /\ Head(todo).do = what
<1>1. todo # <<>> /\ Head(todo).do = what
  BY Zenon DEF Doing
<1>2. ~ Stopped
  <2>1. Pop.do = "pop" /\ Use("absent", ANY).do = "absent"
    BY DEF Pop, Use
  <2> QED
    BY <1>1, <2>1, StoppedHead, Zenon
<1> QED
  BY <1>1, <1>2, RunningUnder, Zenon DEF EthInv

LEMMA SameData ==
  ASSUME UNCHANGED otherVars
  PROVE  /\ Returned => Returned'
         /\ Transmitted => Transmitted'
         /\ DataTypeOK => DataTypeOK'
         /\ \A x : StageInv(x) => StageInv(x)'
<1>1. /\ UNCHANGED <<read_pointer, next_packet, size, buffer>>
      /\ UNCHANGED <<memory, next_of, erxwrpt, frames, erdpt, erxrdpt, epktcnt, rxen>>
      /\ UNCHANGED <<tx_memory, txrts, sends, transmitted, got>>
  BY DEF otherVars, readVars, ringVars, txVars
<1>2. Returned => Returned'
  BY <1>1 DEF Returned, Read, Frame
<1>3. Transmitted => Transmitted'
  BY <1>1 DEF Transmitted, Fits, Calls
<1>4. DataTypeOK => DataTypeOK'
  BY <1>1 DEF DataTypeOK
<1>5. ASSUME NEW x, StageInv(x)
      PROVE  StageInv(x)'
  <2>1. Counts(x)'
    BY <1>1, <1>5 DEF StageInv, Counts, Accepted, Read
  <2>2. Chained' /\ Apart(x)'
    BY <1>1, <1>5 DEF StageInv, Chained, Apart, Accepted, Read, First, StartOf,
       Length, Offset
  <2>3. Stored(x)' /\ Freed(x)'
    BY <1>1, <1>5 DEF StageInv, Stored, Freed, Accepted, Read, First, StartOf, Length
  <2>4. Pointed(x)'
    BY <1>1, <1>5 DEF StageInv, Pointed, Sized, Copied, Accepted, Read, StartOf
  <2>5. Sending(x)'
    BY <1>1, <1>5 DEF StageInv, Sending, Waiting, SentUpTo, Fits, Calls
  <2> QED
    BY <2>1, <2>2, <2>3, <2>4, <2>5 DEF StageInv
<1> QED
  BY <1>2, <1>3, <1>4, <1>5

(* A step that leaves what is sent alone.                                  *)
LEMMA SendKept ==
  ASSUME UNCHANGED txVars
  PROVE  /\ Transmitted => Transmitted'
         /\ \A x : Sending(x) => Sending(x)'
         /\ \A x, y : /\ Sending(x) /\ x \notin {"given", "loaded", "sending"}
                     /\ y \notin {"given", "loaded", "sending"}
                     => Sending(y)'
<1>1. UNCHANGED <<tx_memory, txrts, sends, transmitted>>
  BY DEF txVars
<1>2. Transmitted => Transmitted'
  BY <1>1 DEF Transmitted, Fits, Calls
<1>3. (SentUpTo(Calls) => SentUpTo(Calls)') /\ (Waiting => Waiting') /\ Calls' = Calls
  BY <1>1 DEF Waiting, SentUpTo, Fits, Calls
<1>4. ASSUME NEW x, Sending(x)
      PROVE  Sending(x)'
  BY <1>1, <1>3, <1>4 DEF Sending
<1>5. ASSUME NEW x, NEW y, Sending(x), x \notin {"given", "loaded", "sending"},
             y \notin {"given", "loaded", "sending"}
      PROVE  Sending(y)'
  BY <1>1, <1>3, <1>5 DEF Sending
<1> QED
  BY <1>2, <1>4, <1>5

(* What a step must give so that the call goes on at b.                    *)
LEMMA GoesOn ==
  ASSUME NEW b \in Labels, Leads(todo', b, IDLE), mode' \in {"reset", "up"},
         (mode' = "reset") <=> (b.stage = "start"),
         Selected(b)', StageInv(b.stage)', DataTypeOK', Returned', Transmitted'
  PROVE  EthInv'
<1>1. todo' \in Seq(Entries)
  BY Zenon DEF Leads
<1>2. CallTypeOK'
  BY <1>1 DEF CallTypeOK
<1>3. Running'
  BY Zenon DEF Running
<1> QED
  BY <1>2, <1>3, Zenon DEF EthInv

(* An access that changes no data, and one that changes no bank either.    *)
LEMMA DataStays ==
  ASSUME EthInv, NEW a \in Labels, NEW b \in Labels, Under(a, b), Done,
         UNCHANGED <<mode, otherVars>>, Selected(b)', StageInv(b.stage),
         (b.stage = "start") <=> (a.stage = "start")
  PROVE  EthInv'
<1>1. UNCHANGED otherVars /\ mode' = mode
  OBVIOUS
<1>2. Returned /\ Transmitted /\ DataTypeOK
  BY Zenon DEF EthInv
<1>3. Returned' /\ Transmitted' /\ DataTypeOK' /\ StageInv(b.stage)'
  BY <1>1, <1>2, SameData, Zenon
<1>4. Leads(todo', b, IDLE)
  BY Zenon DEF Under, Done
<1>5. mode' \in {"reset", "up"} /\ (mode' = "reset" <=> b.stage = "start")
  BY <1>1 DEF Under
<1> QED
  BY <1>3, <1>4, <1>5, GoesOn, Zenon

LEMMA BankStays ==
  ASSUME NEW a \in Labels, NEW b \in Labels, Under(a, b), UNCHANGED bankVars,
         Head(todo).do \notin {"push", "pop", "clear", "set"}
  PROVE  Selected(b)'
BY DEF Under, BankMoves, Selected, bankVars

(* A failure of init_ethernet.                                             *)
LEMMA Fails ==
  ASSUME EthInv, UNCHANGED otherVars, rxen = FALSE, txrts = FALSE, Read <= Accepted,
         \/ mode' \in {"failed", "exit"} /\ todo' = <<>>
         \/ mode' = "reset" /\ todo' \in ABSENT
  PROVE  EthInv'
<1>1. Returned' /\ Transmitted' /\ DataTypeOK'
  BY SameData, Zenon DEF EthInv
<1>2. rxen' = rxen /\ txrts' = txrts /\ got' = got /\ frames' = frames
  BY DEF otherVars, ringVars, txVars
<1>3. Stopped'
  BY <1>2, Zenon DEF Stopped, Read, Accepted
<1>4. CallTypeOK'
  <2>1. << Pop >> \in Seq(Entries) /\ <<>> \in Seq(Entries)
    BY Entry
  <2>2. Use("absent", ANY) \in Entries
    <3>1. "absent" \in Operations
      BY Zenon DEF Operations
    <3> QED
      BY <3>1, Entry, Members, Zenon
  <2> DEFINE absent == Use("absent", ANY)
  <2> HIDE DEF absent
  <2>3. << Pop, Pop, absent >> \in Seq(Entries)
    BY <2>2, Entry DEF absent
  <2>4. << Pop, absent >> \in Seq(Entries) /\ << absent >> \in Seq(Entries)
    BY <2>2, Entry DEF absent
  <2>5. \A s \in ABSENT : s \in Seq(Entries)
    BY <2>3, <2>4, Zenon DEF ABSENT, absent
  <2> QED
    BY <2>1, <2>5 DEF CallTypeOK
<1> QED
  BY <1>1, <1>3, <1>4, Zenon DEF EthInv

(* The bank stack holds at most the bank 0 of the code outside push_bank.  *)
LEMMA PushBankStep ==
  ASSUME EthInv, PushBank
  PROVE  EthInv'
<1>1. Doing("push")
  BY DEF PushBank
<1>2. PICK a \in Labels, b \in Labels : Under(a, b) /\ Head(todo).do = "push"
  BY <1>1, DoingUnder
<1>3. /\ a.bank = OUT /\ Head(todo).in \in 0 .. 3 /\ b.bank = Head(todo).in
      /\ bank_stack = <<>> /\ current_bank = 0
  BY <1>2 DEF Under, BankMoves, Selected
<1>4. b.stage = a.stage
  BY <1>2, Zenon DEF Under, StageMoves
<1>5. ~ (Len(bank_stack) >= BANK_STACK_SIZE)
  BY <1>3, DriverAssumption
<1>6. /\ bank_stack' = Append(bank_stack, current_bank) /\ SetBank(Head(todo).in)
      /\ Done /\ UNCHANGED <<mode, otherVars>>
  BY <1>5, Zenon DEF PushBank
<1>7. bank_stack' = <<0>> /\ bank' = b.bank /\ b.bank # OUT
  BY <1>3, <1>6 DEF SetBank, OUT
<1>8. Selected(b)'
  BY <1>7 DEF Selected
<1>9. StageInv(b.stage)
  BY <1>2, <1>4 DEF Under
<1> QED
  BY <1>2, <1>4, <1>6, <1>8, <1>9, DataStays, Zenon

LEMMA PopBankStep ==
  ASSUME EthInv, PopBank
  PROVE  EthInv'
<1>1. todo # <<>> /\ Head(todo).do = "pop"
  BY DEF PopBank, Doing
<1>2. CASE Running
  <2>1. PICK a \in Labels, b \in Labels : Under(a, b)
    BY <1>1, <1>2, RunningUnder
  <2>2. b.stage = a.stage
    BY <1>1, <2>1, Zenon DEF Under, StageMoves
  <2>3. a.bank # OUT /\ b.bank = OUT /\ bank_stack = <<0>>
    BY <1>1, <2>1 DEF Under, BankMoves, Selected
  <2>4. /\ SetBank(BankBelow) /\ bank_stack' = Front(bank_stack)
        /\ Done /\ UNCHANGED <<mode, otherVars>>
    BY <2>3 DEF PopBank
  <2>5. Last(<<0>>) = 0 /\ Front(<<0>>) = <<>>
    BY DEF Last, Front
  <2>6. Selected(b)'
    BY <2>3, <2>4, <2>5 DEF Selected, SetBank, BankBelow
  <2>7. StageInv(b.stage)
    BY <2>1, <2>2 DEF Under
  <2> QED
    BY <2>1, <2>2, <2>4, <2>6, <2>7, DataStays, Zenon
<1>3. CASE Stopped
  <2>1. rxen = FALSE /\ txrts = FALSE /\ Read <= Accepted
    BY <1>3 DEF Stopped
  <2>2. CASE Exit
    BY <2>1, <2>2, Fails DEF Exit
  <2>3. CASE Done /\ UNCHANGED <<mode, otherVars>>
    <3>1. mode = "reset" /\ Tail(todo) \in ABSENT
      <4>1. Use("absent", ANY).do = "absent"
        BY DEF Use
      <4> QED
        BY <1>1, <1>3, <4>1, StoppedHead
    <3>2. mode' = "reset" /\ todo' \in ABSENT /\ UNCHANGED otherVars
      BY <2>3, <3>1 DEF Done
    <3> QED
      BY <2>1, <3>2, Fails, Zenon
  <2> QED
    BY <2>2, <2>3, Zenon DEF PopBank
<1> QED
  BY <1>2, <1>3, Zenon DEF EthInv

LEMMA TestWriteStep ==
  ASSUME EthInv, TestWrite
  PROVE  EthInv'
<1>1. PICK what \in {"clear", "set"} : Doing(what)
  BY Zenon DEF TestWrite
<1>2. PICK a \in Labels, b \in Labels : Under(a, b) /\ Head(todo).do = what
  BY <1>1, DoingUnder
<1>3. b.stage = a.stage
  BY <1>2, Zenon DEF Under, StageMoves
<1>4. /\ a.bank # OUT /\ bank_stack = <<0>>
      /\ b.bank = (IF what = "clear" THEN 0 ELSE 3)
  BY <1>2 DEF Under, BankMoves, Selected
<1>5. Doing("clear") <=> what = "clear"
  BY <1>1, <1>2 DEF Doing
<1>6. /\ bank' = b.bank /\ bank_stack' = <<0>> /\ b.bank # OUT
      /\ Done /\ UNCHANGED <<mode, otherVars>>
  BY <1>4, <1>5 DEF TestWrite, OUT
<1>7. Selected(b)'
  BY <1>6 DEF Selected
<1>8. StageInv(b.stage)
  BY <1>2, <1>3 DEF Under
<1> QED
  BY <1>2, <1>3, <1>6, <1>7, <1>8, DataStays, Zenon

(* Accesses that neither change the stage nor anything else.               *)
LEMMA AccessStep ==
  ASSUME EthInv, NEW what, Doing(what),
         what \notin {"push", "pop", "clear", "set", "absent", "count", "pointer",
                      "next", "status", "data", "skip", "free", "decrement",
                      "load", "transmit", "wait", "enable"},
         Done, UNCHANGED <<mode, bankVars, otherVars>>
  PROVE  EthInv'
<1>1. PICK a \in Labels, b \in Labels : Under(a, b) /\ Head(todo).do = what
  BY DoingUnder
<1>2. b.stage = a.stage
  BY <1>1, Zenon DEF Under, StageMoves
<1>3. Selected(b)'
  BY <1>1, BankStays
<1>4. StageInv(b.stage)
  BY <1>1, <1>2 DEF Under
<1> QED
  BY <1>1, <1>2, <1>3, <1>4, DataStays

(* Accesses of init_ethernet before the driver is up.                      *)
LEMMA AtStart ==
  ASSUME EthInv, NEW what, Doing(what),
         what \in {"gpio", "ERXST", "ERDPT", "ESTAT", "expect 0", "expect 3"}
  PROVE  StageInv("start") /\ mode = "reset"
<1>1. PICK a \in Labels, b \in Labels : Under(a, b) /\ Head(todo).do = what
  <2>1. what \notin {"pop", "absent"}
    BY Zenon
  <2> QED
    BY <2>1, DoingUnder, Zenon
<1>2. a.stage = "start"
  BY <1>1, Zenon DEF Under, StageMoves
<1> QED
  BY <1>1, <1>2, Zenon DEF Under

LEMMA StartStill ==
  ASSUME StageInv("start")
  PROVE  rxen = FALSE /\ txrts = FALSE /\ Read <= Accepted
BY DEF StageInv, Counts, Sending

LEMMA TestReadStep ==
  ASSUME EthInv, TestRead
  PROVE  EthInv'
<1>1. PICK what \in {"expect 0", "expect 3"} : Doing(what)
  BY Zenon DEF TestRead
<1>2. StageInv("start") /\ mode = "reset"
  <2>1. what \in {"gpio", "ERXST", "ERDPT", "ESTAT", "expect 0", "expect 3"}
    BY Zenon
  <2> QED
    BY <1>1, <2>1, AtStart, Zenon
<1>3. UNCHANGED <<mode, bankVars, otherVars>>
  BY Zenon DEF TestRead
<1>4. CASE todo' = Tail(todo)
  <2>1. what \notin {"push", "pop", "clear", "set", "absent", "count", "pointer",
                     "next", "status", "data", "skip", "free", "decrement",
                     "load", "transmit", "wait", "enable"}
    BY Zenon
  <2> QED
    BY <1>1, <1>3, <1>4, <2>1, AccessStep, Zenon DEF Done
<1>5. CASE todo' \in ABSENT
  <2>1. mode' = mode /\ UNCHANGED otherVars
    <3>1. mode' = mode
      BY Zenon DEF TestRead
    <3>2. UNCHANGED otherVars
      BY Zenon DEF TestRead
    <3> QED
      BY <3>1, <3>2, Zenon
  <2> QED
    BY <1>2, <1>5, <2>1, StartStill, Fails, Zenon
<1> QED
  BY <1>4, <1>5, Zenon DEF TestRead, ABSENT

LEMMA InitFailsStep ==
  ASSUME EthInv, InitFails
  PROVE  EthInv'
<1>1. /\ mode' = "failed" /\ todo' = <<>> /\ UNCHANGED otherVars
  BY DEF InitFails
<1>2. rxen = FALSE /\ txrts = FALSE /\ Read <= Accepted
  <2>1. CASE Doing("absent")
    <3>1. todo # <<>> /\ Head(todo).do = "absent"
      BY <2>1 DEF Doing
    <3>2. ~ Running
      <4>1. ASSUME NEW a \in Labels, NEW b \in Labels, Under(a, b)
            PROVE  FALSE
        BY <3>1, <4>1, Zenon DEF Under, StageMoves
      <4> QED
        BY <3>1, <4>1, RunningUnder, Zenon
    <3> QED
      BY <3>2 DEF EthInv, Stopped
  <2>2. CASE Doing("gpio") \/ Doing("ESTAT")
    <3>1. StageInv("start")
      BY <2>2, AtStart, Zenon
    <3> QED
      BY <3>1, StartStill, Zenon
  <2> QED
    BY <2>1, <2>2, Zenon DEF InitFails
<1> QED
  BY <1>1, <1>2, Fails, Zenon

LEMMA GoOnStep ==
  ASSUME EthInv, GoOn
  PROVE  EthInv'
<1>1. PICK what \in {"gpio", "ESTAT"} : Doing(what)
  BY Zenon DEF GoOn
<1>2. Done /\ UNCHANGED <<mode, bankVars, otherVars>>
  BY DEF GoOn
<1> QED
  BY <1>1, <1>2, AccessStep

LEMMA SetRxStartStep ==
  ASSUME EthInv, SetRxStart
  PROVE  EthInv'
<1>1. Doing("ERXST") /\ erxwrpt' = 0 /\ Done
  BY DEF SetRxStart
<1>2. erxwrpt = 0
  <2>1. StageInv("start")
    BY <1>1, AtStart, Zenon
  <2>2. Accepted = 0 /\ erxwrpt = StartOf(Accepted + 1)
    BY <2>1 DEF StageInv, Counts, Chained
  <2> QED
    BY <2>2 DEF StartOf
<1>3. UNCHANGED <<mode, bankVars, otherVars>>
  BY <1>1, <1>2 DEF SetRxStart, otherVars, ringVars
<1> QED
  BY <1>1, <1>3, AccessStep

LEMMA SetReadPointerStep ==
  ASSUME EthInv, SetReadPointer
  PROVE  EthInv'
<1>1. Doing("ERDPT") /\ erdpt' = 0 /\ Done
  BY DEF SetReadPointer
<1>2. DataTypeOK
  BY Zenon DEF EthInv
<1>3. erdpt = 0
  <2>1. StageInv("start")
    BY <1>1, AtStart, Zenon
  <2>2. Read = 0
    BY <1>2, <2>1 DEF StageInv, Counts, DataTypeOK, Read, Accepted
  <2>3. erdpt = StartOf(Read + 1)
    BY <2>1 DEF StageInv, Pointed
  <2> QED
    BY <2>2, <2>3 DEF StartOf
<1>4. UNCHANGED <<mode, bankVars, otherVars>>
  BY <1>1, <1>3 DEF SetReadPointer, otherVars
<1> QED
  BY <1>1, <1>4, AccessStep

LEMMA OtherRegisterStep ==
  ASSUME EthInv, OtherRegister
  PROVE  EthInv'
<1>1. PICK r \in {"reset", "ERXND", "EWRPT", "MACON", "MAADR", "MIREGADR", "MIWR",
                  "MISTAT", "ETXST", "ETXND"} : Doing(r)
  BY DEF OtherRegister
<1>2. Done /\ UNCHANGED <<mode, bankVars, otherVars>>
  BY DEF OtherRegister
<1> QED
  BY <1>1, <1>2, AccessStep

(* Turning reception on ends init_ethernet; it may be turned off later.    *)
LEMMA EnableStep ==
  ASSUME EthInv, Enable
  PROVE  EthInv'
<1>1. PICK what \in {"enable", "disable"} : Doing(what)
  BY Zenon DEF Enable
<1>2. PICK a \in Labels, b \in Labels : Under(a, b) /\ Head(todo).do = what
  BY <1>1, DoingUnder
<1>3. Doing("enable") <=> what = "enable"
  BY <1>1, <1>2 DEF Doing
<1>4. /\ UNCHANGED <<bankVars, readVars, ringVars, erdpt, erxrdpt, epktcnt, txVars, got>>
      /\ Done /\ mode' = (IF Doing("enable") THEN "up" ELSE mode)
      /\ rxen' = Doing("enable")
  BY DEF Enable
<1>5. rxen' \in BOOLEAN /\ (rxen' = TRUE <=> what = "enable")
  BY <1>3, <1>4, Zenon DEF Doing
<1>6. DataTypeOK' /\ Returned' /\ Transmitted'
  <2>1. DataTypeOK /\ Returned /\ Transmitted
    BY Zenon DEF EthInv
  <2>2. DataTypeOK'
    BY <1>4, <1>5, <2>1, Zenon DEF DataTypeOK, readVars, ringVars, txVars
  <2> QED
    BY <1>4, <2>1, <2>2, SendKept DEF Returned, Read, Frame, readVars, ringVars
<1>7. Selected(b)'
  BY <1>1, <1>2, <1>4, BankStays
<1>8. Leads(todo', b, IDLE)
  BY <1>2, <1>4, Zenon DEF Under, Done
<1>9. CASE what = "enable"
  <2>1. a.stage = "start" /\ b.stage = "idle" /\ mode' = "up"
    BY <1>2, <1>3, <1>4, <1>9, Zenon DEF Under, StageMoves
  <2>2. StageInv("start")
    BY <1>2, <2>1 DEF Under
  <2>3. StageInv("idle")'
    <3>0. Sending("idle")'
      <4>1. UNCHANGED txVars /\ Sending("start")
        BY <1>4, <2>2 DEF StageInv
      <4>2. /\ "start" \notin {"given", "loaded", "sending"}
            /\ "idle" \notin {"given", "loaded", "sending"}
        OBVIOUS
      <4> QED
        BY <4>1, <4>2, SendKept, Zenon
    <3>1. Counts("idle")' /\ Chained' /\ Sending("idle")'
      BY <1>4, <2>2, <3>0 DEF StageInv, Counts, Chained, Accepted, Read, StartOf,
         Length, ringVars, txVars, READING
    <3>2. Apart("idle")' /\ Stored("idle")' /\ Freed("idle")'
      <4>1. Apart("idle")'
        BY <1>4, <2>2 DEF StageInv, Apart, First, Accepted, Read, StartOf, Length,
           Offset, ringVars
      <4>2. Stored("idle")'
        BY <1>4, <2>2 DEF StageInv, Stored, First, Accepted, Read, StartOf, Length,
           ringVars
      <4>3. Freed("idle")'
        BY <1>4, <2>2 DEF StageInv, Freed, Read, StartOf, ringVars
      <4> QED
        BY <4>1, <4>2, <4>3
    <3>3. Pointed("idle")'
      BY <1>4, <2>2 DEF StageInv, Pointed, Accepted, Read, StartOf, ringVars
    <3> QED
      BY <3>1, <3>2, <3>3 DEF StageInv
  <2>4. StageInv(b.stage)' /\ (mode' = "reset" <=> b.stage = "start")
    BY <2>1, <2>3
  <2>5. mode' \in {"reset", "up"}
    BY <2>1
  <2> QED
    BY <1>6, <1>7, <1>8, <2>4, <2>5, GoesOn, Zenon
<1>10. CASE what = "disable"
  <2>1. b.stage = a.stage /\ mode' = mode /\ rxen' = FALSE
    BY <1>2, <1>3, <1>4, <1>5, <1>10, Zenon DEF Under, StageMoves
  <2>2. StageInv(b.stage)
    BY <1>2, <2>1 DEF Under
  <2>3. StageInv(b.stage)'
    <3> DEFINE x == b.stage
    <3>0. StageInv(x)
      BY <2>2
    <3> HIDE DEF x
    <3>01. Sending(x)'
      <4>1. UNCHANGED txVars /\ Sending(x)
        BY <1>4, <3>0 DEF StageInv
      <4> QED
        BY <4>1, SendKept, Zenon
    <3>1. Counts(x)' /\ Chained' /\ Sending(x)'
      BY <1>4, <2>1, <3>0, <3>01 DEF StageInv, Counts, Chained, Accepted, Read,
         StartOf, Length, ringVars
    <3>2. Apart(x)' /\ Stored(x)' /\ Freed(x)'
      <4>1. Apart(x)'
        BY <1>4, <3>0 DEF StageInv, Apart, First, Accepted, Read, StartOf, Length,
           Offset, ringVars
      <4>2. Stored(x)'
        BY <1>4, <3>0 DEF StageInv, Stored, First, Accepted, Read, StartOf, Length,
           ringVars
      <4>3. Freed(x)'
        BY <1>4, <3>0 DEF StageInv, Freed, Read, StartOf, ringVars
      <4> QED
        BY <4>1, <4>2, <4>3
    <3>3. Pointed(x)'
      BY <1>4, <3>0 DEF StageInv, Pointed, Sized, Copied, Accepted, Read, StartOf,
         ringVars, readVars
    <3>4. StageInv(x)'
      BY <3>1, <3>2, <3>3 DEF StageInv
    <3> QED
      BY <3>4 DEF x
  <2>4. mode' \in {"reset", "up"} /\ (mode' = "reset" <=> b.stage = "start")
    BY <1>2, <2>1 DEF Under
  <2> QED
    BY <1>6, <1>7, <1>8, <2>3, <2>4, GoesOn, Zenon
<1> QED
  BY <1>9, <1>10

(***************************************************************************)
(* Sending.                                                                *)
(***************************************************************************)
(* What the transmitter does leaves the receiver's part of the invariant.  *)
LEMMA SendingStage ==
  ASSUME NEW x \in Stages, NEW y \in Stages, StageInv(x), Sending(y)',
         \/ x = y
         \/ /\ x \in {"idle", "given", "loaded", "sending"}
            /\ y \in {"idle", "given", "loaded", "sending"},
         UNCHANGED <<readVars, ringVars, erdpt, erxrdpt, epktcnt, rxen, got>>
  PROVE  StageInv(y)'
<1>1. /\ UNCHANGED <<read_pointer, next_packet, size, buffer>>
      /\ UNCHANGED <<memory, next_of, erxwrpt, frames, erdpt, erxrdpt, epktcnt, rxen, got>>
  BY DEF readVars, ringVars
<1>2. Counts(y)' /\ Chained'
  BY <1>1 DEF StageInv, Counts, Chained, Accepted, Read, StartOf, Length, READING
<1>3. First(y) = First(x)
  BY DEF First
<1>4. Apart(y)' /\ Stored(y)'
  <2>1. Apart(y)'
    BY <1>1, <1>3 DEF StageInv, Apart, First, Accepted, Read, StartOf, Length, Offset
  <2>2. Stored(y)'
    BY <1>1, <1>3 DEF StageInv, Stored, First, Accepted, Read, StartOf, Length
  <2> QED
    BY <2>1, <2>2
<1>5. Freed(y)'
  BY <1>1 DEF StageInv, Freed, Read, StartOf
<1>6. Pointed(y)'
  BY <1>1 DEF StageInv, Pointed, Sized, Copied, Read, StartOf
<1> QED
  BY <1>2, <1>4, <1>5, <1>6 DEF StageInv

LEMMA SendStays ==
  ASSUME EthInv, UNCHANGED <<readVars, ringVars, erdpt, erxrdpt, epktcnt, rxen, got>>
  PROVE  /\ Returned'
         /\ tx_memory' \in Nat /\ sends' \in Seq(Packets) /\ txrts' \in BOOLEAN
              /\ transmitted' \in Seq(Nat) => DataTypeOK'
<1>1. Returned /\ DataTypeOK
  BY Zenon DEF EthInv
<1>2. Returned'
  BY <1>1 DEF Returned, Read, Frame, ringVars
<1>3. tx_memory' \in Nat /\ sends' \in Seq(Packets) /\ txrts' \in BOOLEAN
        /\ transmitted' \in Seq(Nat) => DataTypeOK'
  BY <1>1, Zenon DEF DataTypeOK, readVars, ringVars
<1> QED
  BY <1>2, <1>3

LEMMA LoadPacketStep ==
  ASSUME EthInv, LoadPacket
  PROVE  EthInv'
<1>1. Doing("load") /\ Done /\ mode' = mode
  BY DEF LoadPacket
<1>2. PICK a \in Labels, b \in Labels : Under(a, b) /\ Head(todo).do = "load"
  BY <1>1, DoingUnder
<1>3. /\ tx_memory' = Calls /\ txrts' = txrts
      /\ sends' = sends /\ transmitted' = transmitted /\ UNCHANGED bankVars
      /\ UNCHANGED <<readVars, ringVars, erdpt, erxrdpt, epktcnt, rxen, got>>
  BY DEF LoadPacket, Calls
<1>4. a.stage = "given" /\ b.stage = "loaded" /\ StageInv("given")
  BY <1>2, Zenon DEF Under, StageMoves
<1>5. txrts = FALSE /\ Waiting
  BY <1>4 DEF StageInv, Sending
<1>6. sends \in Seq(Packets) /\ Calls \in Nat /\ transmitted \in Seq(Nat)
  BY LenProperties DEF EthInv, DataTypeOK, Calls
<1>7. Sending("loaded")'
  BY <1>3, <1>5, <1>6 DEF Sending, Waiting, SentUpTo, Fits, Calls
<1>8. StageInv("loaded")'
  BY <1>3, <1>4, <1>7, SendingStage DEF Stages
<1>9. DataTypeOK' /\ Returned'
  <2>1. tx_memory' \in Nat /\ sends' \in Seq(Packets)
    BY <1>3, <1>6
  <2>2. transmitted' \in Seq(Nat)
    BY <1>3, <1>6
  <2>3. txrts' \in BOOLEAN
    BY <1>3, <1>5
  <2> QED
    BY <1>3, <2>1, <2>2, <2>3, SendStays
<1>10. Transmitted'
  BY <1>3 DEF EthInv, Transmitted, Fits, Calls
<1>11. Selected(b)' /\ Leads(todo', b, IDLE)
  BY <1>1, <1>2, <1>3, BankStays DEF Under, Done
<1>12. mode' \in {"reset", "up"} /\ (mode' = "reset" <=> b.stage = "start")
  BY <1>1, <1>2, <1>4 DEF Under
<1>13. StageInv(b.stage)'
  BY <1>4, <1>8
<1> QED
  BY <1>9, <1>10, <1>11, <1>12, <1>13, GoesOn, Zenon

LEMMA RequestTransmitStep ==
  ASSUME EthInv, RequestTransmit
  PROVE  EthInv'
<1>1. Doing("transmit") /\ Done /\ mode' = mode
  BY DEF RequestTransmit
<1>2. PICK a \in Labels, b \in Labels : Under(a, b) /\ Head(todo).do = "transmit"
  BY <1>1, DoingUnder
<1>3. /\ txrts' = TRUE /\ UNCHANGED <<tx_memory, sends, transmitted>>
      /\ UNCHANGED bankVars
      /\ UNCHANGED <<readVars, ringVars, erdpt, erxrdpt, epktcnt, rxen, got>>
  BY DEF RequestTransmit
<1>4. a.stage = "loaded" /\ b.stage = "sending" /\ StageInv("loaded")
  BY <1>2, Zenon DEF Under, StageMoves
<1>5. tx_memory = Calls /\ Waiting
  BY <1>4 DEF StageInv, Sending
<1>6. Sending("sending")'
  BY <1>3, <1>5 DEF Sending, Waiting, SentUpTo, Fits, Calls
<1>7. StageInv("sending")'
  BY <1>3, <1>4, <1>6, SendingStage DEF Stages
<1>8. DataTypeOK' /\ Returned'
  <2>1. tx_memory' \in Nat /\ sends' \in Seq(Packets) /\ transmitted' \in Seq(Nat)
    BY <1>3 DEF EthInv, DataTypeOK
  <2>2. txrts' \in BOOLEAN
    BY <1>3
  <2> QED
    BY <1>3, <2>1, <2>2, SendStays
<1>9. Transmitted'
  BY <1>3 DEF EthInv, Transmitted, Fits, Calls
<1>10. Selected(b)' /\ Leads(todo', b, IDLE)
  BY <1>1, <1>2, <1>3, BankStays DEF Under, Done
<1>11. mode' \in {"reset", "up"} /\ (mode' = "reset" <=> b.stage = "start")
  BY <1>1, <1>2, <1>4 DEF Under
<1>12. StageInv(b.stage)'
  BY <1>4, <1>7
<1> QED
  BY <1>8, <1>9, <1>10, <1>11, <1>12, GoesOn, Zenon

LEMMA AwaitTransmitStep ==
  ASSUME EthInv, AwaitTransmit
  PROVE  EthInv'
<1>1. Doing("wait") /\ Done /\ UNCHANGED <<mode, bankVars, otherVars>> /\ ~ txrts
  BY DEF AwaitTransmit
<1>2. PICK a \in Labels, b \in Labels : Under(a, b) /\ Head(todo).do = "wait"
  BY <1>1, DoingUnder
<1>3. a.stage = "sending" /\ b.stage = "idle" /\ StageInv("sending")
  BY <1>2, Zenon DEF Under, StageMoves
<1>4. StageInv("idle")
  <2>1. txrts = FALSE
    <3>1. txrts \in BOOLEAN
      BY Zenon DEF EthInv, DataTypeOK
    <3> QED
      BY <1>1, <3>1, Zenon
  <2>2. Sending("idle")
    BY <1>3, <2>1 DEF StageInv, Sending
  <2> QED
    BY <1>3, <2>2 DEF StageInv, Counts, Apart, Stored, Freed, Pointed, First, READING
<1>5. Selected(b)'
  BY <1>1, <1>2, BankStays
<1> QED
  BY <1>1, <1>2, <1>3, <1>4, <1>5, DataStays

(* The chip puts the packet of the request under way on the wire.          *)
LEMMA ChipTransmitStep ==
  ASSUME EthInv, ChipTransmit
  PROVE  EthInv'
<1>1. /\ txrts = TRUE /\ txrts' = FALSE
      /\ transmitted' = Append(transmitted, tx_memory)
      /\ UNCHANGED <<mode, todo, bankVars, tx_memory, sends>>
      /\ UNCHANGED <<readVars, ringVars, erdpt, erxrdpt, epktcnt, rxen, got>>
  <2>1. txrts \in BOOLEAN /\ txrts
    BY Zenon DEF EthInv, DataTypeOK, ChipTransmit
  <2> QED
    BY <2>1 DEF ChipTransmit
<1>2. PICK a \in Labels :
        /\ Leads(todo, a, IDLE) /\ Selected(a)
        /\ (mode = "reset" <=> a.stage = "start")
        /\ StageInv(a.stage)
  BY <1>1 DEF EthInv, Running, Stopped
<1>3. mode \in {"reset", "up"}
  BY <1>1 DEF EthInv, Running, Stopped
<1>4. a.stage = "sending" /\ tx_memory = Calls /\ Waiting
  BY <1>1, <1>2 DEF StageInv, Sending
<1>5. /\ sends \in Seq(Packets) /\ Calls \in Nat /\ transmitted \in Seq(Nat)
      /\ Len(transmitted) \in Nat /\ Transmitted /\ Calls' = Calls
  BY <1>1, LenProperties DEF EthInv, DataTypeOK, Calls
<1> DEFINE m == Len(transmitted)
<1>6. /\ transmitted' \in Seq(Nat) /\ Len(transmitted') = m + 1
      /\ \A j \in 1 .. m : transmitted'[j] = transmitted[j]
      /\ transmitted'[m + 1] = Calls
  BY <1>1, <1>4, <1>5, AppendProperties
<1>61. /\ \A j \in 1 .. m : transmitted[j] \in 1 .. Calls - 1
       /\ \A k \in 1 .. Calls - 1 :
            Fits(k) => \E j \in 1 .. m : transmitted[j] = k
       /\ Calls > 0 /\ Fits(Calls)
  BY <1>4 DEF Waiting, SentUpTo
<1>62. /\ \A i, j \in 1 .. m : i < j => transmitted[i] < transmitted[j]
       /\ \A j \in 1 .. m : Fits(transmitted[j])
  BY <1>5 DEF Transmitted
<1>63. \A k : Fits(k)' <=> Fits(k)
  BY <1>1 DEF Fits
<1>64. m \in Nat /\ Calls \in Nat
  BY <1>5
<1> HIDE DEF m
<1>7. Transmitted'
  <2>1. ASSUME NEW i \in 1 .. m + 1, NEW j \in 1 .. m + 1, i < j
        PROVE  transmitted'[i] < transmitted'[j]
    <3>1. i \in 1 .. m
      BY <1>64, <2>1
    <3>2. transmitted'[i] = transmitted[i] /\ transmitted[i] \in 1 .. Calls - 1
      BY <1>6, <1>61, <3>1
    <3>3. CASE j \in 1 .. m
      BY <1>6, <1>62, <2>1, <3>1, <3>2, <3>3
    <3>4. CASE j = m + 1
      BY <1>6, <1>64, <3>2, <3>4
    <3> QED
      BY <1>64, <3>3, <3>4
  <2>2. ASSUME NEW j \in 1 .. m + 1
        PROVE  transmitted'[j] \in 1 .. Calls /\ Fits(transmitted'[j])
    <3>1. CASE j \in 1 .. m
      BY <1>6, <1>61, <1>62, <1>64, <3>1
    <3>2. CASE j = m + 1
      BY <1>6, <1>61, <1>64, <3>2
    <3> QED
      BY <1>64, <3>1, <3>2
  <2> QED
    BY <1>5, <1>6, <1>63, <2>1, <2>2 DEF Transmitted
<1>8. Sending("sending")'
  <2>1. ASSUME NEW j \in 1 .. m + 1
        PROVE  transmitted'[j] \in 1 .. Calls
    <3>1. CASE j \in 1 .. m
      BY <1>6, <1>61, <1>64, <3>1
    <3>2. CASE j = m + 1
      BY <1>6, <1>61, <1>64, <3>2
    <3> QED
      BY <1>64, <3>1, <3>2
  <2>2. ASSUME NEW k \in 1 .. Calls, Fits(k)
        PROVE  \E j \in 1 .. m + 1 : transmitted'[j] = k
    <3>1. CASE k = Calls
      <4>1. m + 1 \in 1 .. m + 1
        BY <1>64
      <4> QED
        BY <1>6, <3>1, <4>1
    <3>2. CASE k # Calls
      <4>1. k \in 1 .. Calls - 1
        BY <1>64, <3>2
      <4>2. PICK j \in 1 .. m : transmitted[j] = k
        BY <1>61, <2>2, <4>1
      <4>3. j \in 1 .. m + 1 /\ transmitted'[j] = k
        BY <1>6, <1>64, <4>2
      <4> QED
        BY <4>3
    <3> QED
      BY <3>1, <3>2
  <2>3. SentUpTo(Calls)'
    BY <1>5, <1>6, <1>63, <2>1, <2>2 DEF SentUpTo
  <2> QED
    BY <1>1, <1>4, <1>5, <2>3 DEF Sending
<1>9. StageInv(a.stage)'
  <2>1. StageInv("sending")'
    BY <1>1, <1>2, <1>4, <1>8, SendingStage DEF Stages
  <2> QED
    BY <1>4, <2>1
<1>10. DataTypeOK' /\ Returned'
  <2>1. tx_memory' \in Nat /\ sends' \in Seq(Packets)
    BY <1>1 DEF EthInv, DataTypeOK
  <2>2. txrts' \in BOOLEAN
    BY <1>1
  <2> QED
    BY <1>1, <1>6, <2>1, <2>2, SendStays
<1>11. Selected(a)'
  BY <1>1, <1>2 DEF Selected, bankVars
<1>12. Leads(todo', a, IDLE)
  BY <1>1, <1>2
<1>13. mode' \in {"reset", "up"} /\ (mode' = "reset" <=> a.stage = "start")
  BY <1>1, <1>2, <1>3
<1> QED
  BY <1>7, <1>9, <1>10, <1>11, <1>12, <1>13, GoesOn, Zenon

LEMMA CallStep ==
  ASSUME EthInv, Call
  PROVE  EthInv'
<1>1. /\ mode = "up" /\ todo = <<>> /\ UNCHANGED <<mode, bankVars, tx_memory, txrts>>
      /\ transmitted' = transmitted
      /\ UNCHANGED <<readVars, ringVars, erdpt, erxrdpt, epktcnt, rxen, got>>
      /\ \/ todo' \in {GetPacket, CloseEthernet} /\ sends' = sends
         \/ CallSend
  BY DEF Call
<1>2. PICK a \in Labels :
        /\ Leads(todo, a, IDLE) /\ Selected(a)
        /\ (mode = "reset" <=> a.stage = "start")
        /\ StageInv(a.stage)
  BY <1>1, Zenon DEF EthInv, Running, Stopped
<1>3. a = IDLE /\ a.bank = OUT /\ a.stage = "idle" /\ StageInv("idle")
  <2>1. a = IDLE
    BY <1>1, <1>2, LeadsNowhere
  <2> QED
    BY <1>2, <2>1 DEF IDLE
<1>4. /\ txrts = FALSE /\ SentUpTo(Calls) /\ Transmitted
      /\ sends \in Seq(Packets) /\ Calls \in Nat /\ transmitted \in Seq(Nat)
      /\ tx_memory \in Nat
  BY <1>3, LenProperties DEF StageInv, Sending, EthInv, DataTypeOK, Calls
<1>5. \A b \in Labels : b.bank = OUT => Selected(b)'
  BY <1>1, <1>2, <1>3 DEF Selected, bankVars
<1>6. CASE todo' \in {GetPacket, CloseEthernet} /\ sends' = sends
  <2>1. Leads(todo', IDLE, IDLE)
    BY <1>6, GetPacketLeads, CloseEthernetLeads, Zenon
  <2>2. Transmitted' /\ SentUpTo(Calls)'
    BY <1>1, <1>4, <1>6 DEF Transmitted, SentUpTo, Fits, Calls
  <2>3. Sending("idle")'
    BY <1>1, <1>4, <2>2 DEF Sending
  <2>4. StageInv("idle")'
    BY <1>1, <1>3, <2>3, SendingStage DEF Stages
  <2>5. DataTypeOK' /\ Returned'
    BY <1>1, <1>4, <1>6, SendStays
  <2>6. mode' \in {"reset", "up"} /\ (mode' = "reset" <=> a.stage = "start")
    BY <1>1, <1>3
  <2> QED
    BY <1>3, <1>5, <2>1, <2>2, <2>4, <2>5, <2>6, GoesOn, Zenon
<1>7. CASE CallSend
  <2>1. PICK p \in Packets : /\ sends' = Append(sends, p)
                             /\ todo' = IF Refused(p) THEN <<>> ELSE SendPacket
    BY <1>7 DEF CallSend
  <2>2. /\ sends' \in Seq(Packets) /\ Calls' = Calls + 1
        /\ \A k \in 1 .. Calls : sends'[k] = sends[k]
        /\ sends'[Calls + 1] = p
    <3>1. sends \in Seq(Packets) /\ Len(sends) = Calls /\ sends' = Append(sends, p)
      BY <1>4, <2>1, Zenon DEF Calls
    <3>2. /\ Append(sends, p) \in Seq(Packets) /\ Len(Append(sends, p)) = Len(sends) + 1
          /\ \A k \in 1 .. Len(sends) : Append(sends, p)[k] = sends[k]
          /\ Append(sends, p)[Len(sends) + 1] = p
      BY <3>1, AppendProperties
    <3> QED
      BY <3>1, <3>2 DEF Calls
  <2>3. /\ \A k \in 1 .. Calls : Fit(sends'[k]) <=> Fits(k)
        /\ sends'[Calls + 1] = p
    BY <2>2 DEF Fits
  <2>4. Refused(p) <=> ~ Fit(p)
    <3>1. p.length \in Int /\ PACKET_MAX_SIZE \in Nat
      <4>1. p.length \in PacketLengths \cup {-1}
        BY Zenon DEF Packets
      <4>2. \A n \in PacketLengths \cup {-1} : n \in Int
        BY DriverAssumption
      <4> QED
        BY <4>1, <4>2, DriverAssumption
    <3> QED
      BY <3>1 DEF Refused, Fit
  <2>5. Transmitted'
    <3>1. \A j \in 1 .. Len(transmitted) :
            transmitted[j] \in 1 .. Calls + 1 /\ Fit(sends'[transmitted[j]])
      BY <1>4, <2>3 DEF Transmitted
    <3> QED
      BY <1>1, <1>4, <2>2, <3>1 DEF Transmitted, Fits
  <2>6. SentUpTo(Calls)
    BY <1>4
  <2>7. DataTypeOK' /\ Returned'
    BY <1>1, <1>4, <2>2, SendStays
  <2>8. CASE Refused(p)
    <3>1. SentUpTo(Calls)'
      <4>1. ASSUME NEW j \in 1 .. Len(transmitted)
            PROVE  transmitted[j] \in 1 .. Calls + 1
        BY <1>4, <2>6 DEF SentUpTo
      <4>2. ASSUME NEW k \in 1 .. Calls + 1, Fit(sends'[k])
            PROVE  \E j \in 1 .. Len(transmitted) : transmitted[j] = k
        <5>1. k \in 1 .. Calls
          <6>1. k # Calls + 1
            BY <2>3, <2>4, <2>8, <4>2, Zenon
          <6> QED
            BY <1>4, <6>1
        <5> QED
          BY <2>3, <2>6, <4>2, <5>1 DEF SentUpTo
      <4> QED
        BY <1>1, <2>2, <4>1, <4>2 DEF SentUpTo, Fits
    <3>2. Sending("idle")'
      BY <1>1, <1>4, <3>1 DEF Sending
    <3>3. StageInv("idle")'
      BY <1>1, <1>3, <3>2, SendingStage DEF Stages
    <3>4. Leads(todo', IDLE, IDLE)
      BY <1>3, <2>1, <2>8, LeadsNowhere, Zenon
    <3>5. mode' \in {"reset", "up"} /\ (mode' = "reset" <=> a.stage = "start")
      BY <1>1, <1>3
    <3> QED
      BY <1>3, <1>5, <2>5, <2>7, <3>3, <3>4, <3>5, GoesOn, Zenon
  <2>9. CASE ~ Refused(p)
    <3> DEFINE g == Lbl(OUT, "given")
    <3>1. g \in Labels /\ g.bank = OUT /\ g.stage = "given"
      BY DEF Lbl, Labels, Stages, OUT
    <3>2. Leads(todo', g, IDLE)
      BY <2>1, <2>9, SendPacketLeads, Zenon
    <3> HIDE DEF g
    <3>3. Waiting'
      <4>1. Calls' > 0 /\ Calls' - 1 = Calls
        BY <1>4, <2>2
      <4>2. SentUpTo(Calls - 1)'
        <5> DEFINE n == Calls
        <5>1. /\ \A j \in 1 .. Len(transmitted) : transmitted[j] \in 1 .. n
              /\ \A k \in 1 .. n :
                   Fit(sends'[k]) => \E j \in 1 .. Len(transmitted) : transmitted[j] = k
          BY <2>3, <2>6 DEF SentUpTo
        <5>2. Calls' - 1 = n /\ transmitted' = transmitted
          BY <1>1, <4>1
        <5> HIDE DEF n
        <5> QED
          BY <5>1, <5>2 DEF SentUpTo, Fits
      <4>3. Fits(Calls)'
        BY <2>2, <2>3, <2>4, <2>9 DEF Fits
      <4> QED
        BY <4>1, <4>2, <4>3 DEF Waiting
    <3>4. Sending("given")'
      BY <1>1, <1>4, <3>3 DEF Sending
    <3>5. StageInv("given")'
      BY <1>1, <1>3, <3>4, SendingStage DEF Stages
    <3>6. mode' \in {"reset", "up"} /\ (mode' = "reset" <=> g.stage = "start")
      BY <1>1, <3>1
    <3>7. StageInv(g.stage)'
      BY <3>1, <3>5
    <3> QED
      BY <1>5, <2>5, <2>7, <3>1, <3>2, <3>6, <3>7, GoesOn, Zenon
  <2> QED
    BY <2>8, <2>9
<1> QED
  BY <1>1, <1>6, <1>7

(***************************************************************************)
(* Receiving.                                                              *)
(***************************************************************************)
(* What the invariant says of the places of the frames.                    *)
LEMMA Layout ==
  ASSUME DataTypeOK, NEW x \in Stages, StageInv(x)
  PROVE  /\ Accepted \in Nat /\ Read \in Nat /\ Read <= Accepted
         /\ First(x) \in 1 .. Accepted + 1 /\ Read + 1 <= First(x)
         /\ \A k \in 1 .. Accepted + 1 : StartOf(k) \in 0 .. N-1
         /\ \A k \in 1 .. Accepted : frames[k] \in Nat /\ frames[k] > 0
         /\ \A k \in 1 .. Accepted : Length(k) \in Nat /\ Length(k) = HEADER + frames[k]
         /\ \A k \in 1 .. Accepted + 1 : Offset(k) \in 0 .. N-1
         /\ \A k \in First(x) .. Accepted : Length(k) < N
<1>1. Accepted \in Nat /\ Read \in Nat
  BY LenProperties DEF DataTypeOK, Accepted, Read
<1>2. /\ Read <= Accepted /\ Len(next_of) = Accepted
      /\ x = "freed" => Read < Accepted
  BY DEF StageInv, Counts, READING
<1>3. First(x) \in 1 .. Accepted + 1 /\ Read + 1 <= First(x)
  BY <1>1, <1>2 DEF First
<1>4. ASSUME NEW k \in 1 .. Accepted + 1
      PROVE  StartOf(k) \in 0 .. N-1
  <2>1. CASE k = 1
    BY <2>1, Ring DEF StartOf
  <2>2. CASE k # 1
    <3>1. k - 1 \in 1 .. Len(next_of)
      BY <1>1, <1>2, <2>2
    <3>2. next_of[k-1] \in 0 .. RX_END
      BY <3>1, ElementOfSeq DEF DataTypeOK
    <3> QED
      BY <2>2, <3>2, Ring DEF StartOf
  <2> QED
    BY <2>1, <2>2
<1>5. ASSUME NEW k \in 1 .. Accepted
      PROVE  frames[k] \in Nat /\ frames[k] > 0
  <2>1. frames \in Seq(Nat \ {0}) /\ k \in 1 .. Len(frames)
    BY DEF DataTypeOK, Accepted
  <2>2. frames[k] \in Nat \ {0}
    BY <2>1, ElementOfSeq, Zenon
  <2> QED
    BY <2>2
<1>6. ASSUME NEW k \in 1 .. Accepted
      PROVE  Length(k) \in Nat /\ Length(k) = HEADER + frames[k]
  BY <1>5, Ring DEF Length
<1>7. ASSUME NEW k \in 1 .. Accepted + 1
      PROVE  Offset(k) \in 0 .. N-1
  <2>1. StartOf(k) \in 0 .. N-1 /\ erxrdpt \in 0 .. N-1
    BY <1>4, Ring DEF DataTypeOK
  <2> QED
    BY <2>1, Ring DEF Offset
<1>8. ASSUME NEW k \in First(x) .. Accepted
      PROVE  Length(k) < N
  <2>1. k \in First(x) .. Accepted + 1 /\ k + 1 \in First(x) .. Accepted + 1
    BY <1>1, <1>3
  <2>2. Offset(k) + Length(k) <= Offset(k + 1)
    BY <2>1 DEF StageInv, Apart
  <2>3. k \in 1 .. Accepted + 1 /\ k + 1 \in 1 .. Accepted + 1 /\ k \in 1 .. Accepted
    BY <1>1, <1>3
  <2>4. Offset(k) \in 0 .. N-1 /\ Offset(k + 1) \in 0 .. N-1 /\ Length(k) \in Nat
    BY <1>6, <1>7, <2>3
  <2> QED
    BY <2>2, <2>4, Ring
<1> QED
  BY <1>1, <1>2, <1>3, <1>4, <1>5, <1>6, <1>7, <1>8

(* The frame that get_packet reads, while it has not been given back.      *)
LEMMA ReadFrame ==
  ASSUME DataTypeOK, NEW x \in Stages \ {"freed"}, StageInv(x), Read < Accepted
  PROVE  /\ Read + 1 \in 1 .. Accepted /\ Read + 2 \in 1 .. Accepted + 1
         /\ StartOf(Read + 1) \in 0 .. N-1 /\ StartOf(Read + 2) \in 0 .. N-1
         /\ frames[Read + 1] \in Nat /\ frames[Read + 1] > 0
         /\ Length(Read + 1) = HEADER + frames[Read + 1] /\ Length(Read + 1) < N
         /\ StartOf(Read + 2) = Cell(StartOf(Read + 1) + Length(Read + 1))
         /\ \A i \in 0 .. Length(Read + 1) - 1 :
              memory[Cell(StartOf(Read + 1) + i)] = <<Read + 1, i>>
<1>1. First(x) = Read + 1
  BY DEF First
<1>2. Accepted \in Nat /\ Read \in Nat
  BY Layout
<1>3. /\ Read + 1 \in 1 .. Accepted /\ Read + 2 \in 1 .. Accepted + 1
      /\ Read + 1 \in 1 .. Accepted + 1 /\ Read + 1 \in First(x) .. Accepted
      /\ Read + 1 + 1 = Read + 2
  BY <1>1, <1>2
<1>4. /\ StartOf(Read + 1) \in 0 .. N-1 /\ StartOf(Read + 2) \in 0 .. N-1
      /\ frames[Read + 1] \in Nat /\ frames[Read + 1] > 0
      /\ Length(Read + 1) = HEADER + frames[Read + 1] /\ Length(Read + 1) < N
  BY <1>3, Layout
<1>5. StartOf(Read + 2) = Cell(StartOf(Read + 1) + Length(Read + 1))
  BY <1>3 DEF StageInv, Chained
<1>6. \A i \in 0 .. Length(Read + 1) - 1 :
         memory[Cell(StartOf(Read + 1) + i)] = <<Read + 1, i>>
  BY <1>3 DEF StageInv, Stored
<1> QED
  BY <1>3, <1>4, <1>5, <1>6

(* What get_packet keeps of the frame leaves the chip's part as it is.     *)
LEMMA ReadingStage ==
  ASSUME NEW x \in Stages, NEW y \in READING, StageInv(x), y # "freed", x # "freed",
         x \in READING, Pointed(y)', UNCHANGED <<ringVars, erxrdpt, epktcnt, rxen, txVars, got>>
  PROVE  StageInv(y)'
<1>1. /\ UNCHANGED <<memory, next_of, erxwrpt, frames, erxrdpt, epktcnt, rxen, got>>
      /\ UNCHANGED <<tx_memory, txrts, sends, transmitted>>
  BY DEF ringVars, txVars
<1>2. First(x) = First(y)
  BY DEF First
<1>3. /\ x # "start" /\ x \notin {"given", "loaded", "sending"}
      /\ y # "start" /\ y \notin {"given", "loaded", "sending"}
  BY DEF READING
<1>4. Counts(y)' /\ Chained'
  BY <1>1, <1>3 DEF StageInv, Counts, Chained, Accepted, Read, StartOf, Length
<1>5. Apart(y)' /\ Stored(y)'
  <2>1. Apart(y)'
    BY <1>1, <1>2 DEF StageInv, Apart, First, Accepted, Read, StartOf, Length, Offset
  <2>2. Stored(y)'
    BY <1>1, <1>2 DEF StageInv, Stored, First, Accepted, Read, StartOf, Length
  <2> QED
    BY <2>1, <2>2
<1>6. Freed(y)' /\ Sending(y)'
  BY <1>1, <1>3 DEF StageInv, Freed, Sending, SentUpTo, Fits, Calls, Read, StartOf
<1> QED
  BY <1>4, <1>5, <1>6 DEF StageInv

LEMMA ReadCountStep ==
  ASSUME EthInv, ReadCount
  PROVE  EthInv'
<1>1. /\ Doing("count") /\ UNCHANGED <<mode, bankVars, otherVars>>
      /\ todo' = IF epktcnt = 0 THEN << Pop >> ELSE Tail(todo)
  BY DEF ReadCount
<1>2. PICK a \in Labels, b \in Labels : Under(a, b) /\ Head(todo).do = "count"
  BY <1>1, DoingUnder
<1>3. /\ a.stage = "idle" /\ b.stage = "found" /\ a.bank # OUT /\ b.bank = a.bank
      /\ StageInv("idle")
  BY <1>2, Zenon DEF Under, StageMoves, BankMoves
<1>4. DataTypeOK /\ Returned /\ Transmitted
  BY Zenon DEF EthInv
<1>5. CASE epktcnt = 0
  <2>1. Leads(<<Pop>>, a, IDLE)
    <3>1. Pop \in Entries /\ IDLE \in Labels
      BY Entry DEF IDLE, Labels, Stages
    <3>2. Moves(Pop, a, IDLE)
      BY <1>3 DEF Moves, BankMoves, StageMoves, Pop, IDLE
    <3> QED
      BY <3>1, <3>2, LeadsOne
  <2>2. Leads(todo', a, IDLE)
    BY <1>1, <1>5, <2>1
  <2>3. Selected(a)'
    BY <1>1, <1>2 DEF Under, Selected, bankVars
  <2>4. StageInv(a.stage)' /\ DataTypeOK' /\ Returned' /\ Transmitted'
    <3>1. UNCHANGED otherVars /\ StageInv(a.stage)
      BY <1>1, <1>3
    <3> QED
      BY <1>4, <3>1, SameData, Zenon
  <2>5. mode' \in {"reset", "up"} /\ (mode' = "reset" <=> a.stage = "start")
    BY <1>1, <1>2 DEF Under
  <2> QED
    BY <2>2, <2>3, <2>4, <2>5, GoesOn, Zenon
<1>6. CASE epktcnt # 0
  <2>1. Read < Accepted
    <3>1. Accepted \in Nat /\ Read \in Nat
      BY <1>3, <1>4, Layout DEF Stages
    <3> QED
      BY <1>3, <1>6, <3>1 DEF StageInv, Counts
  <2>2. StageInv("found")
    BY <1>3, <2>1 DEF StageInv, Counts, Apart, Stored, Freed, Pointed, First, Sending
  <2>3. Selected(b)'
    BY <1>1, <1>2, BankStays
  <2> QED
    BY <1>1, <1>2, <1>3, <1>6, <2>2, <2>3, DataStays DEF Done
<1> QED
  BY <1>5, <1>6

(* What a step of get_packet must give, up to the last byte of the frame.  *)
LEMMA ReadingGoesOn ==
  ASSUME EthInv, NEW a \in Labels, NEW b \in Labels, Under(a, b),
         a.stage \in READING, b.stage \in READING, a.stage # "freed", b.stage # "freed",
         Head(todo).do \notin {"push", "pop", "clear", "set"},
         Done, UNCHANGED <<mode, bankVars, board, ringVars, erxrdpt, epktcnt, rxen,
                           txVars, got>>,
         Pointed(b.stage)', DataTypeOK'
  PROVE  EthInv'
<1>1. StageInv(b.stage)'
  <2>1. a.stage \in Stages /\ StageInv(a.stage)
    BY DEF Labels, Under
  <2>2. UNCHANGED <<ringVars, erxrdpt, epktcnt, rxen, txVars, got>>
    OBVIOUS
  <2> QED
    BY <2>1, <2>2, ReadingStage, Zenon
<1>2. Selected(b)'
  BY BankStays
<1>3. Leads(todo', b, IDLE)
  BY DEF Under, Done
<1>4. Returned' /\ Transmitted'
  BY DEF EthInv, Returned, Transmitted, Fits, Calls, Read, Frame, ringVars, txVars
<1>5. mode' \in {"reset", "up"} /\ (mode' = "reset" <=> b.stage = "start")
  BY DEF Under, READING
<1> QED
  BY <1>1, <1>2, <1>3, <1>4, <1>5, GoesOn, Zenon

LEMMA ReadPointerStep ==
  ASSUME EthInv, ReadPointer
  PROVE  EthInv'
<1>1. /\ Doing("pointer") /\ Done /\ read_pointer' = erdpt
      /\ UNCHANGED <<next_packet, size, buffer, erdpt>>
      /\ UNCHANGED <<mode, bankVars, board, ringVars, erxrdpt, epktcnt, rxen, txVars, got>>
  BY DEF ReadPointer
<1>2. PICK a \in Labels, b \in Labels : Under(a, b) /\ Head(todo).do = "pointer"
  BY <1>1, DoingUnder
<1>3. a.stage = "found" /\ b.stage = "located" /\ StageInv("found")
  BY <1>2, Zenon DEF Under, StageMoves
<1>4. DataTypeOK'
  BY <1>1 DEF EthInv, DataTypeOK, ringVars, txVars
<1>5. erdpt = StartOf(Read + 1)
  BY <1>3 DEF StageInv, Pointed
<1>6. Pointed("located")'
  BY <1>1, <1>5 DEF Pointed, StartOf, Read, ringVars
<1>7. Pointed(b.stage)' /\ a.stage \in READING /\ b.stage \in READING
      /\ a.stage # "freed" /\ b.stage # "freed"
  BY <1>3, <1>6 DEF READING
<1> QED
  BY <1>1, <1>2, <1>4, <1>7, ReadingGoesOn

(* The address of the next frame gives the size of this one, wherever the  *)
(* ring goes round.                                                        *)
LEMMA SizeOfFrame ==
  ASSUME DataTypeOK, StageInv("located"), Read < Accepted, erdpt = StartOf(Read + 1),
         read_pointer = erdpt
  PROVE  /\ AddressAt(erdpt) = {StartOf(Read + 2)}
         /\ SizeOf(StartOf(Read + 2)) = frames[Read + 1]
<1> DEFINE st == StartOf(Read + 1)
           nx == StartOf(Read + 2)
           fr == frames[Read + 1]
<1>1. /\ st \in 0 .. N-1 /\ nx \in 0 .. N-1 /\ fr \in Nat /\ fr > 0
      /\ Length(Read + 1) = HEADER + fr /\ HEADER + fr < N
      /\ nx = Cell(st + (HEADER + fr))
      /\ \A i \in 0 .. HEADER + fr - 1 : memory[Cell(st + i)] = <<Read + 1, i>>
      /\ Read + 1 \in 1 .. Accepted
  <2>1. "located" \in Stages \ {"freed"}
    BY DEF Stages
  <2>2. /\ st \in 0 .. N-1 /\ nx \in 0 .. N-1 /\ fr \in Nat /\ fr > 0
        /\ Length(Read + 1) = HEADER + fr /\ Length(Read + 1) < N
        /\ nx = Cell(st + Length(Read + 1)) /\ Read + 1 \in 1 .. Accepted
    BY <2>1, ReadFrame
  <2>3. \A i \in 0 .. Length(Read + 1) - 1 : memory[Cell(st + i)] = <<Read + 1, i>>
    BY <2>1, ReadFrame
  <2> HIDE DEF st, nx, fr
  <2>4. Length(Read + 1) = HEADER + fr
    BY <2>2
  <2>5. HEADER + fr < N /\ nx = Cell(st + (HEADER + fr))
    BY <2>2, <2>4, Zenon
  <2>6. \A i \in 0 .. HEADER + fr - 1 : memory[Cell(st + i)] = <<Read + 1, i>>
    <3>1. ASSUME NEW i \in 0 .. HEADER + fr - 1
          PROVE  i \in 0 .. Length(Read + 1) - 1
      <4>1. PICK h \in Nat : h = HEADER
        BY Ring
      <4> QED
        BY <2>2, <2>4, <4>1
    <3> QED
      BY <2>3, <3>1, Zenon
  <2> QED
    BY <2>2, <2>4, <2>5, <2>6, Zenon
<1>2. Read \in Nat
  BY LenProperties DEF DataTypeOK, Read
<1>3. AddressAt(erdpt) = {nx}
  <2>1. Cell(st + 0) = st
    BY <1>1, Wrap, Ring
  <2>2. memory[erdpt] = <<Read + 1, 0>>
    <3>1. 0 \in 0 .. HEADER + fr - 1
      BY <1>1, Ring
    <3> QED
      BY <1>1, <2>1, <3>1
  <2>3. nx = next_of[Read + 1]
    BY <1>2 DEF StartOf
  <2>4. memory[erdpt][1] = Read + 1 /\ memory[erdpt][2] = 0
    BY <2>2
  <2> QED
    BY <2>3, <2>4, Zenon DEF AddressAt
<1>4. SizeOf(nx) = fr
  <2>1. nx = IF st + (HEADER + fr) < N THEN st + (HEADER + fr)
             ELSE st + (HEADER + fr) - N
    <3> HIDE DEF st, nx, fr
    <3> QED
      BY <1>1, Wrap, Ring
  <2>2. SizeOf(nx) = IF nx - st - HEADER < 0 THEN nx - st - HEADER + RX_END + 1
                     ELSE nx - st - HEADER
    BY DEF SizeOf
  <2> HIDE DEF st, nx, fr
  <2> QED
    BY <1>1, <2>1, <2>2, Ring
<1> QED
  BY <1>3, <1>4

LEMMA ReadNextStep ==
  ASSUME EthInv, ReadNext
  PROVE  EthInv'
<1>1. /\ Doing("next") /\ Done /\ next_packet' \in AddressAt(erdpt)
      /\ size' = SizeOf(next_packet') /\ buffer' = <<>>
      /\ erdpt' = (erdpt + NEXT_LENGTH) % N
      /\ read_pointer' = read_pointer
      /\ UNCHANGED <<mode, bankVars, board, ringVars, erxrdpt, epktcnt, rxen, txVars, got>>
  BY DEF ReadNext, Advance
<1>2. PICK a \in Labels, b \in Labels : Under(a, b) /\ Head(todo).do = "next"
  BY <1>1, DoingUnder
<1>3. a.stage = "located" /\ b.stage = "sized" /\ StageInv("located")
  BY <1>2, Zenon DEF Under, StageMoves
<1>4. DataTypeOK
  BY Zenon DEF EthInv
<1>5. Read < Accepted /\ erdpt = StartOf(Read + 1) /\ read_pointer = erdpt
  BY <1>3 DEF StageInv, Counts, Pointed, READING
<1>6. next_packet' = StartOf(Read + 2) /\ size' = frames[Read + 1]
  BY <1>1, <1>3, <1>4, <1>5, SizeOfFrame
<1>7. /\ StartOf(Read + 1) \in 0 .. N-1 /\ StartOf(Read + 2) \in 0 .. N-1
      /\ frames[Read + 1] \in Nat
  <2>1. "located" \in Stages \ {"freed"}
    BY DEF Stages
  <2> QED
    BY <1>3, <1>4, <1>5, <2>1, ReadFrame
<1>8. erdpt' = Cell(StartOf(Read + 1) + NEXT_LENGTH) /\ erdpt' \in 0 .. N-1
  <2>1. erdpt' = Cell(StartOf(Read + 1) + NEXT_LENGTH)
    BY <1>1, <1>5 DEF Cell
  <2>2. erdpt' \in 0 .. N-1
    <3>1. PICK p \in Nat : p = StartOf(Read + 1)
      BY <1>7, Ring
    <3>2. erdpt' = (p + NEXT_LENGTH) % N
      BY <1>1, <1>5, <3>1, Zenon
    <3> QED
      BY <3>2, Ring
  <2> QED
    BY <2>1, <2>2
<1>9. DataTypeOK'
  <2>1. /\ next_packet' \in 0 .. RX_END /\ size' \in Int /\ erdpt' \in 0 .. RX_END
    BY <1>6, <1>7, <1>8, Ring
  <2>2. buffer' \in Seq(Nat \X Int)
    BY <1>1
  <2> QED
    BY <1>1, <1>4, <2>1, <2>2, Zenon DEF DataTypeOK, ringVars, txVars
<1>10. Pointed("sized")'
  <2>1. Read' = Read /\ frames' = frames /\ next_of' = next_of
    BY <1>1 DEF Read, ringVars
  <2>2. StartOf(Read + 1)' = StartOf(Read + 1) /\ StartOf(Read + 2)' = StartOf(Read + 2)
    BY <2>1 DEF StartOf
  <2>3. Sized'
    BY <1>6, <2>1, <2>2 DEF Sized
  <2> QED
    BY <1>1, <1>8, <2>2, <2>3 DEF Pointed
<1>11. Pointed(b.stage)' /\ a.stage \in READING /\ b.stage \in READING
      /\ a.stage # "freed" /\ b.stage # "freed"
  BY <1>3, <1>10 DEF READING
<1> QED
  BY <1>1, <1>2, <1>9, <1>11, ReadingGoesOn

(* The frame read when its size is known: Sized names it.                  *)
LEMMA SizedFrame ==
  ASSUME DataTypeOK, NEW x \in Stages \ {"freed"}, StageInv(x), x \in READING, Sized
  PROVE  /\ StartOf(Read + 1) \in 0 .. N-1
         /\ size \in Nat /\ size > 0 /\ HEADER + size < N
         /\ next_packet = StartOf(Read + 2) /\ next_packet \in 0 .. N-1
         /\ next_packet = Cell(StartOf(Read + 1) + (HEADER + size))
         /\ \A i \in 0 .. HEADER + size - 1 :
              memory[Cell(StartOf(Read + 1) + i)] = <<Read + 1, i>>
<1>1. Read < Accepted
  BY DEF StageInv, Counts
<1>2. size = frames[Read + 1] /\ next_packet = StartOf(Read + 2)
  BY DEF Sized
<1>3. /\ StartOf(Read + 1) \in 0 .. N-1 /\ next_packet \in 0 .. N-1
      /\ size \in Nat /\ size > 0
      /\ Length(Read + 1) = HEADER + size /\ Length(Read + 1) < N
      /\ next_packet = Cell(StartOf(Read + 1) + Length(Read + 1))
  BY <1>1, <1>2, ReadFrame
<1>4. \A i \in 0 .. Length(Read + 1) - 1 :
         memory[Cell(StartOf(Read + 1) + i)] = <<Read + 1, i>>
  BY <1>1, ReadFrame
<1>5. Length(Read + 1) = HEADER + size
  BY <1>3
<1>6. /\ HEADER + size < N
      /\ next_packet = Cell(StartOf(Read + 1) + (HEADER + size))
  BY <1>3, <1>5, Zenon
<1>7. \A i \in 0 .. HEADER + size - 1 :
         memory[Cell(StartOf(Read + 1) + i)] = <<Read + 1, i>>
  <2>1. ASSUME NEW i \in 0 .. HEADER + size - 1
        PROVE  i \in 0 .. Length(Read + 1) - 1
    <3>1. PICK h \in Nat : h = HEADER
      BY Ring
    <3> QED
      BY <1>3, <1>5, <3>1
  <2> QED
    BY <1>4, <2>1, Zenon
<1> QED
  BY <1>2, <1>3, <1>6, <1>7, Zenon

(* The read pointer goes round the ring once at most while it advances.    *)
LEMMA CellAdds ==
  ASSUME NEW p \in 0 .. N-1, NEW k \in Nat, NEW n \in Nat, k + n < N
  PROVE  /\ Cell(p + k) \in 0 .. N-1 /\ Cell(p + k + n) \in 0 .. N-1
         /\ (Cell(p + k) + n) % N = Cell(p + k + n)
<1>1. N \in Nat /\ N > 1
  BY Ring
<1>2. Cell(p + k) = IF p + k < N THEN p + k ELSE p + k - N
  BY <1>1, Wrap
<1>3. Cell(p + k + n) = IF p + k + n < N THEN p + k + n ELSE p + k + n - N
  BY <1>1, Wrap
<1>4. Cell(p + k) \in 0 .. N-1
  BY <1>1, <1>2
<1>5. PICK c \in 0 .. N-1 : c = Cell(p + k)
  BY <1>4
<1>6. Cell(c + n) = IF c + n < N THEN c + n ELSE c + n - N
  BY <1>1, Wrap
<1>7. Cell(c + n) = Cell(p + k + n)
  BY <1>1, <1>2, <1>3, <1>5, <1>6
<1>8. Cell(p + k + n) \in 0 .. N-1
  BY <1>1, <1>3
<1> QED
  BY <1>4, <1>5, <1>7, <1>8 DEF Cell

LEMMA ReadStatusStep ==
  ASSUME EthInv, ReadStatus
  PROVE  EthInv'
<1>1. /\ Doing("status") /\ Done /\ erdpt' = (erdpt + STATUS_LENGTH) % N
      /\ UNCHANGED <<read_pointer, next_packet, size, buffer>>
      /\ UNCHANGED <<mode, bankVars, board, ringVars, erxrdpt, epktcnt, rxen, txVars, got>>
  BY DEF ReadStatus, Advance, readVars
<1>2. PICK a \in Labels, b \in Labels : Under(a, b) /\ Head(todo).do = "status"
  BY <1>1, DoingUnder
<1>3. a.stage = "sized" /\ b.stage = "copying" /\ StageInv("sized")
  BY <1>2, Zenon DEF Under, StageMoves
<1>4. DataTypeOK
  BY Zenon DEF EthInv
<1>5. Sized /\ buffer = <<>> /\ erdpt = Cell(StartOf(Read + 1) + NEXT_LENGTH)
  BY <1>3 DEF StageInv, Pointed
<1>6. /\ StartOf(Read + 1) \in 0 .. N-1 /\ size \in Nat /\ size > 0
      /\ HEADER + size < N
  <2>1. "sized" \in Stages \ {"freed"} /\ "sized" \in READING
    BY DEF Stages, READING
  <2> QED
    BY <1>3, <1>4, <1>5, <2>1, SizedFrame
<1>7. erdpt' = Cell(StartOf(Read + 1) + NEXT_LENGTH + STATUS_LENGTH) /\ erdpt' \in 0 .. N-1
  <2>1. NEXT_LENGTH \in Nat /\ STATUS_LENGTH \in Nat /\ NEXT_LENGTH + STATUS_LENGTH < N
    BY <1>6, Ring
  <2>2. /\ Cell(StartOf(Read + 1) + NEXT_LENGTH + STATUS_LENGTH) \in 0 .. N-1
        /\ (Cell(StartOf(Read + 1) + NEXT_LENGTH) + STATUS_LENGTH) % N
              = Cell(StartOf(Read + 1) + NEXT_LENGTH + STATUS_LENGTH)
    BY <1>6, <2>1, CellAdds, Zenon
  <2> QED
    BY <1>1, <1>5, <2>2, Zenon
<1>8. erdpt' = Cell(StartOf(Read + 1) + HEADER + 0)
  <2>1. StartOf(Read + 1) + NEXT_LENGTH + STATUS_LENGTH = StartOf(Read + 1) + HEADER + 0
    BY <1>6, Ring
  <2> QED
    BY <1>7, <2>1
<1>9. DataTypeOK'
  <2>1. erdpt' \in 0 .. RX_END
    BY <1>7, Ring
  <2> QED
    BY <1>1, <1>4, <2>1, Zenon DEF DataTypeOK, ringVars, txVars
<1>10. Pointed("copying")'
  <2>1. Read' = Read /\ frames' = frames /\ next_of' = next_of
    BY <1>1 DEF Read, ringVars
  <2>2. StartOf(Read + 1)' = StartOf(Read + 1) /\ StartOf(Read + 2)' = StartOf(Read + 2)
    BY <2>1 DEF StartOf
  <2>3. Sized'
    BY <1>1, <1>5, <2>1, <2>2 DEF Sized
  <2>4. buffer' = <<>> /\ Len(buffer') = 0 /\ size' = size
    BY <1>1, <1>5
  <2>5. Copied' /\ Len(buffer') <= size'
    BY <1>6, <2>4 DEF Copied
  <2>6. erdpt' = Cell(StartOf(Read + 1)' + HEADER + Len(buffer'))
    BY <1>8, <2>2, <2>4
  <2> QED
    BY <2>3, <2>5, <2>6 DEF Pointed, Cell
<1>11. Pointed(b.stage)' /\ a.stage \in READING /\ b.stage \in READING
      /\ a.stage # "freed" /\ b.stage # "freed"
  BY <1>3, <1>10 DEF READING
<1> QED
  BY <1>1, <1>2, <1>9, <1>11, ReadingGoesOn

(* A frame too large for the buffer takes another way to the next one.     *)
LEMMA OversizeStep ==
  ASSUME EthInv, Oversize
  PROVE  EthInv'
<1>1. /\ Doing("data") /\ todo' = << Use("skip", 0) >> \o Tail(todo)
      /\ size > PACKET_MAX_SIZE /\ UNCHANGED <<mode, bankVars, otherVars>>
  BY DEF Oversize
<1>2. PICK a \in Labels, b \in Labels : Under(a, b) /\ Head(todo).do = "data"
  BY <1>1, DoingUnder
<1>3. a.stage = "copying" /\ b.stage = "copied" /\ StageInv("copying")
  BY <1>2, Zenon DEF Under, StageMoves
<1>4. a.bank = OUT /\ b.bank = OUT
  BY <1>2, Zenon DEF Under, BankMoves
<1> DEFINE c == Lbl(OUT, "skipping")
<1>5. c \in Labels /\ c.bank = OUT /\ c.stage = "skipping"
  BY DEF Lbl, Labels, Stages, OUT
<1> HIDE DEF c
<1>6. Leads(todo', c, IDLE)
  <2>1. Moves(Use("skip", 0), c, b)
    BY <1>3, <1>4, <1>5 DEF Moves, BankMoves, StageMoves, BankOf, Use, OUT
  <2>2. Use("skip", 0) \in Entries
    BY Entry, Members DEF Plain
  <2>3. Leads(<< Use("skip", 0) >>, c, b)
    BY <1>5, <2>1, <2>2, LeadsOne
  <2>4. Leads(Tail(todo), b, IDLE)
    BY <1>2, Zenon DEF Under
  <2> QED
    BY <1>1, <2>3, <2>4, LeadsConcat, Zenon
<1>7. StageInv("skipping")
  <2>1. Pointed("skipping")
    BY <1>1, <1>3 DEF StageInv, Pointed
  <2> QED
    BY <1>3, <2>1 DEF StageInv, Counts, Apart, Stored, Freed, First, Sending, READING
<1>8. /\ StageInv(c.stage)' /\ DataTypeOK' /\ Returned' /\ Transmitted'
  <2>1. UNCHANGED otherVars
    BY <1>1, Zenon
  <2>2. Returned /\ Transmitted /\ DataTypeOK
    BY Zenon DEF EthInv
  <2> QED
    BY <1>5, <1>7, <2>1, <2>2, SameData
<1>9. Selected(c)'
  BY <1>1, <1>2, <1>4, <1>5 DEF Under, Selected, bankVars
<1>10. mode' \in {"reset", "up"} /\ (mode' = "reset" <=> c.stage = "start")
  BY <1>1, <1>2, <1>3, <1>5 DEF Under
<1> QED
  BY <1>5, <1>6, <1>8, <1>9, <1>10, GoesOn, Zenon

LEMMA SkipDataStep ==
  ASSUME EthInv, SkipData
  PROVE  EthInv'
<1>1. /\ Doing("skip") /\ Done /\ erdpt' = next_packet
      /\ UNCHANGED <<read_pointer, next_packet, size, buffer>>
      /\ UNCHANGED <<mode, bankVars, board, ringVars, erxrdpt, epktcnt, rxen, txVars, got>>
  BY DEF SkipData, AfterSkip, readVars
<1>2. PICK a \in Labels, b \in Labels : Under(a, b) /\ Head(todo).do = "skip"
  BY <1>1, DoingUnder
<1>3. a.stage = "skipping" /\ b.stage = "copied" /\ StageInv("skipping")
  BY <1>2, Zenon DEF Under, StageMoves
<1>4. DataTypeOK
  BY Zenon DEF EthInv
<1>5. Sized /\ size > PACKET_MAX_SIZE
  BY <1>3 DEF StageInv, Pointed
<1>6. DataTypeOK'
  BY <1>1, <1>4, Zenon DEF DataTypeOK, ringVars, txVars
<1>7. Pointed("copied")'
  <2>1. Read' = Read /\ frames' = frames /\ next_of' = next_of
    BY <1>1 DEF Read, ringVars
  <2>2. StartOf(Read + 2)' = StartOf(Read + 2)
    BY <2>1 DEF StartOf
  <2>3. Sized' /\ erdpt' = StartOf(Read + 2)'
    BY <1>1, <1>5, <2>1, <2>2 DEF Sized
  <2>4. ~ (size' <= PACKET_MAX_SIZE)
    <3>1. size \in Int
      BY <1>4 DEF DataTypeOK
    <3> QED
      BY <1>1, <1>5, <3>1, DriverAssumption
  <2>5. Copied'
    BY <2>4 DEF Copied
  <2> QED
    BY <2>3, <2>4, <2>5 DEF Pointed
<1>8. Pointed(b.stage)' /\ a.stage \in READING /\ b.stage \in READING
      /\ a.stage # "freed" /\ b.stage # "freed"
  BY <1>3, <1>7 DEF READING
<1> QED
  BY <1>1, <1>2, <1>6, <1>8, ReadingGoesOn

LEMMA ReadEndStep ==
  ASSUME EthInv, ReadEnd
  PROVE  EthInv'
<1>1. /\ Doing("data") /\ Done /\ Len(buffer) >= size
      /\ UNCHANGED <<mode, bankVars, otherVars>>
  BY DEF ReadEnd
<1>2. PICK a \in Labels, b \in Labels : Under(a, b) /\ Head(todo).do = "data"
  BY <1>1, DoingUnder
<1>3. a.stage = "copying" /\ b.stage = "copied" /\ StageInv("copying")
  BY <1>2, Zenon DEF Under, StageMoves
<1>4. DataTypeOK
  BY Zenon DEF EthInv
<1>5. /\ Sized /\ Copied /\ Len(buffer) <= size
      /\ erdpt = Cell(StartOf(Read + 1) + HEADER + Len(buffer))
  BY <1>3 DEF StageInv, Pointed
<1>6. /\ StartOf(Read + 1) \in 0 .. N-1 /\ size \in Nat
      /\ next_packet = StartOf(Read + 2)
      /\ next_packet = Cell(StartOf(Read + 1) + (HEADER + size))
  <2>1. "copying" \in Stages \ {"freed"} /\ "copying" \in READING
    BY DEF Stages, READING
  <2> QED
    BY <1>3, <1>4, <1>5, <2>1, SizedFrame
<1>7. Len(buffer) = size
  <2>1. Len(buffer) \in Nat
    BY <1>4, LenProperties DEF DataTypeOK
  <2> QED
    BY <1>1, <1>5, <1>6, <2>1
<1>8. erdpt = StartOf(Read + 2)
  <2>1. StartOf(Read + 1) + HEADER + Len(buffer) = StartOf(Read + 1) + (HEADER + size)
    BY <1>6, <1>7, Ring
  <2> QED
    BY <1>5, <1>6, <2>1
<1>9. StageInv("copied")
  <2>1. Pointed("copied")
    BY <1>5, <1>7, <1>8 DEF Pointed
  <2> QED
    BY <1>3, <2>1 DEF StageInv, Counts, Apart, Stored, Freed, First, Sending, READING
<1>10. Selected(b)'
  BY <1>1, <1>2, BankStays
<1> QED
  BY <1>1, <1>2, <1>3, <1>9, <1>10, DataStays

(* One more byte of the frame.                                             *)
LEMMA ReadDataStep ==
  ASSUME EthInv, ReadData
  PROVE  EthInv'
<1>1. /\ Doing("data") /\ todo' = todo /\ size <= PACKET_MAX_SIZE /\ Len(buffer) < size
      /\ buffer' = Append(buffer, memory[erdpt]) /\ erdpt' = (erdpt + 1) % N
      /\ UNCHANGED <<read_pointer, next_packet, size>>
      /\ UNCHANGED <<mode, bankVars, board, ringVars, erxrdpt, epktcnt, rxen, txVars, got>>
  BY DEF ReadData, Advance
<1>2. PICK a \in Labels, b \in Labels : Under(a, b) /\ Head(todo).do = "data"
  BY <1>1, DoingUnder
<1>3. a.stage = "copying" /\ StageInv("copying")
  BY <1>2, Zenon DEF Under, StageMoves
<1>4. DataTypeOK
  BY Zenon DEF EthInv
<1>5. /\ Sized /\ Copied /\ erdpt = Cell(StartOf(Read + 1) + HEADER + Len(buffer))
  BY <1>3 DEF StageInv, Pointed
<1>6. /\ StartOf(Read + 1) \in 0 .. N-1 /\ size \in Nat /\ HEADER + size < N
      /\ \A i \in 0 .. HEADER + size - 1 :
           memory[Cell(StartOf(Read + 1) + i)] = <<Read + 1, i>>
  <2>1. "copying" \in Stages \ {"freed"} /\ "copying" \in READING
    BY DEF Stages, READING
  <2> QED
    BY <1>3, <1>4, <1>5, <2>1, SizedFrame
<1>7. PICK n \in Nat : n = Len(buffer) /\ n < size
  BY <1>1, <1>4, LenProperties DEF DataTypeOK
<1>8. buffer \in Seq(Nat \X Int)
  BY <1>4 DEF DataTypeOK
<1>9. PICK st \in 0 .. N-1 : st = StartOf(Read + 1)
  BY <1>6
<1>10. PICK r \in Nat : r = Read + 1
  BY <1>4, LenProperties DEF DataTypeOK, Read
<1>11. /\ HEADER + n \in 0 .. HEADER + size - 1 /\ HEADER + n \in Nat
       /\ HEADER + n + 1 < N /\ st + HEADER + n = st + (HEADER + n)
       /\ st + (HEADER + n) + 1 = st + HEADER + (n + 1)
  <2>1. PICK h \in Nat : h = HEADER
    BY Ring
  <2>2. N \in Nat /\ h + size < N /\ size \in Nat
    BY <1>6, <2>1, Ring
  <2>3. HEADER + n \in 0 .. HEADER + size - 1 /\ HEADER + n \in Nat
    BY <1>7, <2>1, <2>2
  <2>4. HEADER + n + 1 < N
    BY <1>7, <2>1, <2>2
  <2>5. /\ st + HEADER + n = st + (HEADER + n)
        /\ st + (HEADER + n) + 1 = st + HEADER + (n + 1)
    BY <2>1
  <2> QED
    BY <2>3, <2>4, <2>5
<1>12. erdpt = Cell(st + (HEADER + n))
  BY <1>5, <1>7, <1>9, <1>11
<1>13. memory[erdpt] = <<r, HEADER + n>>
  BY <1>6, <1>9, <1>10, <1>11, <1>12
<1>14. erdpt' = Cell(st + HEADER + (n + 1)) /\ erdpt' \in 0 .. N-1
  <2>1. /\ Cell(st + (HEADER + n) + 1) \in 0 .. N-1
        /\ (Cell(st + (HEADER + n)) + 1) % N = Cell(st + (HEADER + n) + 1)
    BY <1>9, <1>11, CellAdds
  <2> QED
    BY <1>1, <1>11, <1>12, <2>1
<1>15. /\ buffer' \in Seq(Nat \X Int) /\ Len(buffer') = n + 1
       /\ \A i \in 1 .. n : buffer'[i] = buffer[i]
       /\ buffer'[n + 1] = <<r, HEADER + n>>
  <2>1. <<r, HEADER + n>> \in Nat \X Int
    BY <1>10, <1>11
  <2> QED
    BY <1>1, <1>7, <1>8, <1>13, <2>1, AppendProperties
<1>16. DataTypeOK'
  <2>1. erdpt' \in 0 .. RX_END
    BY <1>14, Ring
  <2> QED
    BY <1>1, <1>4, <1>15, <2>1, Zenon DEF DataTypeOK, ringVars, txVars
<1>17. Pointed("copying")'
  <2>1. Read' = Read /\ frames' = frames /\ next_of' = next_of
    BY <1>1 DEF Read, ringVars
  <2>2. StartOf(Read + 1)' = StartOf(Read + 1) /\ StartOf(Read + 2)' = StartOf(Read + 2)
    BY <2>1 DEF StartOf
  <2>3. Sized'
    BY <1>1, <1>5, <2>1, <2>2 DEF Sized
  <2>4. \A i \in 1 .. n : buffer[i] = <<r, HEADER + i - 1>>
    BY <1>1, <1>5, <1>7, <1>10 DEF Copied
  <2>5. \A i \in 1 .. n + 1 : buffer'[i] = <<r, HEADER + i - 1>>
    <3>1. ASSUME NEW i \in 1 .. n + 1
          PROVE  buffer'[i] = <<r, HEADER + i - 1>>
      <4>1. CASE i \in 1 .. n
        BY <1>15, <2>4, <4>1
      <4>2. CASE i = n + 1
        <5>1. HEADER + i - 1 = HEADER + n
          BY <1>7, <4>2, Ring
        <5> QED
          BY <1>15, <4>2, <5>1
      <4> QED
        BY <1>7, <4>1, <4>2
    <3> QED
      BY <3>1
  <2>6. Copied'
    BY <1>10, <1>15, <2>1, <2>5 DEF Copied
  <2>7. Len(buffer') <= size'
    BY <1>1, <1>6, <1>7, <1>15
  <2>8. erdpt' = Cell(StartOf(Read + 1)' + HEADER + Len(buffer'))
    BY <1>9, <1>14, <1>15, <2>2
  <2> QED
    BY <2>3, <2>6, <2>7, <2>8 DEF Pointed, Cell
<1>18. StageInv("copying")'
  <2>1. "copying" \in Stages /\ "copying" \in READING
    BY DEF Stages, READING
  <2>2. UNCHANGED <<ringVars, erxrdpt, epktcnt, rxen, txVars, got>>
    BY <1>1
  <2> QED
    BY <1>3, <1>17, <2>1, <2>2, ReadingStage
<1>19. StageInv(a.stage)'
  BY <1>3, <1>18
<1>20. Selected(a)'
  BY <1>1, <1>2 DEF Under, Selected, bankVars
<1>21. Leads(todo', a, IDLE)
  BY <1>1, <1>2 DEF Under
<1>22. Returned' /\ Transmitted'
  BY <1>1, SendKept DEF EthInv, Returned, Read, Frame, ringVars
<1>23. mode' \in {"reset", "up"} /\ (mode' = "reset" <=> a.stage = "start")
  BY <1>1, <1>2 DEF Under
<1> QED
  BY <1>16, <1>19, <1>20, <1>21, <1>22, <1>23, GoesOn, Zenon

(* Offsets from a later place of the ring.                                 *)
LEMMA OffsetShift ==
  ASSUME NEW s \in 0 .. N-1, NEW r \in 0 .. N-1, NEW e \in 0 .. N-1,
         Cell(r - e) <= Cell(s - e)
  PROVE  Cell(s - r) = Cell(s - e) - Cell(r - e)
<1>1. N \in Nat /\ N > 1
  BY Ring
<1>2. Cell(s - e) = IF s - e < 0 THEN s - e + N ELSE s - e
  BY <1>1, Wrap
<1>3. Cell(r - e) = IF r - e < 0 THEN r - e + N ELSE r - e
  BY <1>1, Wrap
<1>4. Cell(s - r) = IF s - r < 0 THEN s - r + N ELSE s - r
  BY <1>1, Wrap
<1> QED
  BY <1>1, <1>2, <1>3, <1>4

(* Giving a frame back moves ERXRDPT to the frame after it.                *)
LEMMA FreeFrameStep ==
  ASSUME EthInv, FreeFrame
  PROVE  EthInv'
<1>1. /\ Doing("free") /\ Done /\ erxrdpt' = next_packet
      /\ UNCHANGED <<read_pointer, next_packet, size, buffer>>
      /\ UNCHANGED <<memory, next_of, erxwrpt, frames>>
      /\ UNCHANGED <<tx_memory, txrts, sends, transmitted>>
      /\ UNCHANGED <<mode, bankVars, board, erdpt, epktcnt, rxen, got>>
  BY DEF FreeFrame, readVars, ringVars, txVars
<1>2. PICK a \in Labels, b \in Labels : Under(a, b) /\ Head(todo).do = "free"
  BY <1>1, DoingUnder
<1>3. a.stage = "copied" /\ b.stage = "freed" /\ StageInv("copied")
  BY <1>2, Zenon DEF Under, StageMoves
<1>4. DataTypeOK
  BY Zenon DEF EthInv
<1>5. /\ Sized /\ Copied /\ erdpt = StartOf(Read + 2)
      /\ size <= PACKET_MAX_SIZE => Len(buffer) = size
      /\ Read < Accepted
  BY <1>3 DEF StageInv, Pointed, Counts, READING
<1>6. "copied" \in Stages /\ First("copied") = Read + 1 /\ First("freed") = Read + 2
  BY DEF Stages, First
<1>7. /\ Accepted \in Nat /\ Read \in Nat /\ erxrdpt \in 0 .. N-1
      /\ \A k \in 1 .. Accepted + 1 : StartOf(k) \in 0 .. N-1 /\ Offset(k) \in 0 .. N-1
      /\ \A k \in 1 .. Accepted : Length(k) \in Nat
  <2>1. erxrdpt \in 0 .. N-1
    BY <1>4, Ring DEF DataTypeOK
  <2> QED
    BY <1>3, <1>4, <1>6, <2>1, Layout
<1>8. /\ Accepted' = Accepted /\ Read' = Read
      /\ \A k : StartOf(k)' = StartOf(k) /\ Length(k)' = Length(k)
  BY <1>1 DEF Accepted, Read, StartOf, Length
<1>9. erxrdpt' = StartOf(Read + 2) /\ Read + 2 \in 1 .. Accepted + 1
      /\ Read + 2 \in Read + 1 .. Accepted + 1
  BY <1>1, <1>5, <1>7 DEF Sized
<1>10. ASSUME NEW k \in Read + 2 .. Accepted + 1
       PROVE  Offset(k)' = Offset(k) - Offset(Read + 2)
  <2>1. k \in 1 .. Accepted + 1 /\ k \in Read + 1 .. Accepted + 1
    BY <1>7
  <2>2. Offset(Read + 2) <= Offset(k)
    <3>1. CASE k = Read + 2
      BY <1>7, <2>1, <3>1
    <3>2. CASE k # Read + 2
      <4>1. Read + 2 < k /\ Read + 2 \in 1 .. Accepted
        BY <1>7, <3>2
      <4>2. Offset(Read + 2) + Length(Read + 2) <= Offset(k)
        BY <1>3, <1>6, <1>9, <2>1, <4>1 DEF StageInv, Apart
      <4> QED
        BY <1>7, <1>9, <2>1, <4>1, <4>2
    <3> QED
      BY <3>1, <3>2
  <2>3. Offset(k)' = Cell(StartOf(k) - StartOf(Read + 2))
    BY <1>8, <1>9 DEF Offset, Cell
  <2>4. /\ Offset(k) = Cell(StartOf(k) - erxrdpt)
        /\ Offset(Read + 2) = Cell(StartOf(Read + 2) - erxrdpt)
    BY DEF Offset, Cell
  <2>5. StartOf(k) \in 0 .. N-1 /\ StartOf(Read + 2) \in 0 .. N-1
    BY <1>7, <1>9, <2>1
  <2>6. Cell(StartOf(k) - StartOf(Read + 2))
          = Cell(StartOf(k) - erxrdpt) - Cell(StartOf(Read + 2) - erxrdpt)
    BY <1>7, <2>2, <2>4, <2>5, OffsetShift
  <2> QED
    BY <2>3, <2>4, <2>6
<1>11. Apart("freed")'
  <2>1. ASSUME NEW j \in Read + 2 .. Accepted + 1, NEW k \in Read + 2 .. Accepted + 1,
               j < k
        PROVE  Offset(j)' + Length(j)' <= Offset(k)'
    <3>1. /\ j \in Read + 1 .. Accepted + 1 /\ k \in Read + 1 .. Accepted + 1
          /\ j \in 1 .. Accepted + 1 /\ k \in 1 .. Accepted + 1 /\ j \in 1 .. Accepted
      BY <1>7, <2>1
    <3>2. Offset(j) + Length(j) <= Offset(k)
      BY <1>3, <1>6, <2>1, <3>1 DEF StageInv, Apart
    <3>3. /\ Offset(j) \in Int /\ Offset(k) \in Int /\ Length(j) \in Int
          /\ Offset(Read + 2) \in Int
      BY <1>7, <1>9, <3>1, Ring
    <3>4. /\ Offset(j)' = Offset(j) - Offset(Read + 2) /\ Length(j)' = Length(j)
          /\ Offset(k)' = Offset(k) - Offset(Read + 2)
      BY <1>8, <1>10
    <3> QED
      BY <3>2, <3>3, <3>4
  <2>2. First("freed")' = Read + 2
    BY <1>8 DEF First
  <2> QED
    BY <1>8, <2>1, <2>2 DEF Apart
<1>12. Stored("freed")'
  <2>1. First("freed")' = Read + 2
    BY <1>8 DEF First
  <2>2. ASSUME NEW k \in Read + 2 .. Accepted, NEW i \in 0 .. Length(k) - 1
        PROVE  memory'[Cell(StartOf(k) + i)] = <<k, i>>
    <3>1. k \in Read + 1 .. Accepted
      BY <1>7
    <3> QED
      BY <1>1, <1>3, <1>6, <3>1 DEF StageInv, Stored
  <2> QED
    BY <1>8, <2>1, <2>2 DEF Stored, Cell
<1>13. Counts("freed")' /\ Chained' /\ Freed("freed")' /\ Sending("freed")'
  <2>0. Sending("freed")'
    <3>1. UNCHANGED txVars /\ Sending("copied")
      BY <1>1, <1>3 DEF StageInv, txVars
    <3>2. /\ "copied" \notin {"given", "loaded", "sending"}
          /\ "freed" \notin {"given", "loaded", "sending"}
      OBVIOUS
    <3> QED
      BY <3>1, <3>2, SendKept, Zenon
  <2>1. Counts("freed")' /\ Freed("freed")' /\ Sending("freed")'
    BY <1>1, <1>3, <1>8, <1>9, <2>0 DEF StageInv, Counts, Freed, READING
  <2>2. Chained'
    BY <1>1, <1>3, <1>8 DEF StageInv, Chained, Cell
  <2> QED
    BY <2>1, <2>2
<1>14. Pointed("freed")'
  <2>1. Sized' /\ Copied'
    BY <1>1, <1>5, <1>8 DEF Sized, Copied
  <2> QED
    BY <1>1, <1>5, <1>8, <2>1 DEF Pointed
<1>15. StageInv(b.stage)'
  BY <1>3, <1>11, <1>12, <1>13, <1>14 DEF StageInv
<1>16. DataTypeOK'
  BY <1>1, <1>4, Zenon DEF DataTypeOK
<1>17. Returned' /\ Transmitted'
  BY <1>1, SendKept DEF EthInv, Returned, Read, Frame, txVars
<1>18. Selected(b)'
  BY <1>1, <1>2, BankStays
<1>19. Leads(todo', b, IDLE)
  BY <1>1, <1>2 DEF Under, Done
<1>20. mode' \in {"reset", "up"} /\ (mode' = "reset" <=> b.stage = "start")
  BY <1>1, <1>2, <1>3 DEF Under
<1> QED
  BY <1>15, <1>16, <1>17, <1>18, <1>19, <1>20, GoesOn, Zenon

LEMMA DecrementCountStep ==
  ASSUME EthInv, DecrementCount
  PROVE  EthInv'
<1> DEFINE returned == IF size > PACKET_MAX_SIZE THEN REFUSED ELSE buffer
<1>1. /\ Doing("decrement") /\ Done /\ epktcnt' = epktcnt - 1
      /\ got' = Append(got, returned)
      /\ UNCHANGED <<read_pointer, next_packet, size, buffer>>
      /\ UNCHANGED <<memory, next_of, erxwrpt, frames>>
      /\ UNCHANGED <<tx_memory, txrts, sends, transmitted>>
      /\ UNCHANGED <<mode, bankVars, board, erdpt, erxrdpt, rxen>>
  BY DEF DecrementCount, readVars, ringVars, txVars
<1>2. PICK a \in Labels, b \in Labels : Under(a, b) /\ Head(todo).do = "decrement"
  BY <1>1, DoingUnder
<1>3. a.stage = "freed" /\ b.stage = "idle" /\ StageInv("freed")
  BY <1>2, Zenon DEF Under, StageMoves
<1>4. DataTypeOK
  BY Zenon DEF EthInv
<1>5. /\ Sized /\ Copied /\ erdpt = StartOf(Read + 2)
      /\ size <= PACKET_MAX_SIZE => Len(buffer) = size
      /\ Read < Accepted
  BY <1>3 DEF StageInv, Pointed, Counts, READING
<1>6. /\ Accepted \in Nat /\ Read \in Nat /\ frames[Read + 1] \in Nat /\ size \in Nat
  <2>1. "freed" \in Stages
    BY DEF Stages
  <2>2. Accepted \in Nat /\ Read \in Nat
    BY <1>3, <1>4, <2>1, Layout
  <2>3. Read + 1 \in 1 .. Accepted
    BY <1>5, <2>2
  <2>4. frames[Read + 1] \in Nat
    BY <1>3, <1>4, <2>1, <2>3, Layout
  <2> QED
    BY <1>5, <2>2, <2>4 DEF Sized
<1>7. /\ returned \in Seq(Nat \X Int)
      /\ returned = IF frames[Read + 1] <= PACKET_MAX_SIZE THEN Frame(Read + 1) ELSE REFUSED
  <2>1. buffer \in Seq(Nat \X Int) /\ REFUSED \in Seq(Nat \X Int)
    BY <1>4 DEF DataTypeOK, REFUSED
  <2>2. size = frames[Read + 1] /\ PACKET_MAX_SIZE \in Nat
    BY <1>5, DriverAssumption DEF Sized
  <2>3. CASE size > PACKET_MAX_SIZE
    BY <1>6, <2>1, <2>2, <2>3
  <2>4. CASE ~ (size > PACKET_MAX_SIZE)
    <3>1. size <= PACKET_MAX_SIZE
      BY <1>6, <2>2, <2>4
    <3>2. Len(buffer) = size /\ buffer \in [1 .. size -> Nat \X Int]
      BY <1>5, <2>1, <3>1, LenProperties
    <3>3. \A i \in 1 .. size : buffer[i] = <<Read + 1, HEADER + i - 1>>
      BY <1>5, <3>1, <3>2 DEF Copied
    <3>4. buffer = [i \in 1 .. size |-> <<Read + 1, HEADER + i - 1>>]
      BY <3>2, <3>3
    <3>5. buffer = Frame(Read + 1)
      BY <2>2, <3>4 DEF Frame
    <3> QED
      BY <2>1, <2>2, <2>4, <3>1, <3>5
  <2> QED
    BY <2>3, <2>4
<1> HIDE DEF returned
<1>8. /\ got' \in Seq(Seq(Nat \X Int)) /\ Len(got') = Read + 1
      /\ \A k \in 1 .. Read : got'[k] = got[k]
      /\ got'[Read + 1] = returned
  BY <1>1, <1>4, <1>7, AppendProperties DEF DataTypeOK, Read
<1>9. /\ Accepted' = Accepted /\ Read' = Read + 1
      /\ \A k : StartOf(k)' = StartOf(k) /\ Length(k)' = Length(k)
      /\ \A k : Offset(k)' = Offset(k)
  BY <1>1, <1>8 DEF Accepted, Read, StartOf, Length, Offset
<1>10. Returned'
  <2>1. \A k : Frame(k)' = Frame(k)
    BY <1>1 DEF Frame
  <2>2. ASSUME NEW k \in 1 .. Read + 1
        PROVE  got'[k] = IF frames'[k] <= PACKET_MAX_SIZE THEN Frame(k)' ELSE REFUSED
    <3>1. CASE k = Read + 1
      BY <1>1, <1>7, <1>8, <2>1, <3>1
    <3>2. CASE k # Read + 1
      <4>1. k \in 1 .. Read
        BY <1>6, <3>2
      <4> QED
        BY <1>1, <1>8, <2>1, <4>1 DEF EthInv, Returned
    <3> QED
      BY <3>1, <3>2
  <2> QED
    BY <1>9, <2>2 DEF Returned
<1>11. First("idle")' = First("freed")
  BY <1>6, <1>9 DEF First
<1>12. Apart("idle")' /\ Stored("idle")'
  BY <1>1, <1>3, <1>9, <1>11 DEF StageInv, Apart, Stored, Cell
<1>13. Counts("idle")'
  BY <1>1, <1>3, <1>5, <1>6, <1>9 DEF StageInv, Counts, READING
<1>14. Chained' /\ Sending("idle")'
  <2>1. UNCHANGED txVars /\ Sending("freed")
    BY <1>1, <1>3 DEF StageInv, txVars
  <2>2. /\ "freed" \notin {"given", "loaded", "sending"}
        /\ "idle" \notin {"given", "loaded", "sending"}
    OBVIOUS
  <2>3. Sending("idle")'
    BY <2>1, <2>2, SendKept, Zenon
  <2> QED
    BY <1>1, <1>3, <1>9, <2>3 DEF StageInv, Chained, Cell
<1>15. Freed("idle")' /\ Pointed("idle")'
  <2>1. Read + 1 + 1 = Read + 2
    BY <1>6
  <2> QED
    BY <1>1, <1>3, <1>5, <1>9, <2>1 DEF StageInv, Freed, Pointed
<1>16. StageInv(b.stage)'
  BY <1>3, <1>12, <1>13, <1>14, <1>15 DEF StageInv
<1>17. DataTypeOK'
  <2>1. epktcnt' \in Int
    BY <1>1, <1>4 DEF DataTypeOK
  <2> QED
    BY <1>1, <1>4, <1>8, <2>1, Zenon DEF DataTypeOK
<1>18. Transmitted'
  BY <1>1, SendKept DEF EthInv, txVars
<1>19. Selected(b)'
  BY <1>1, <1>2, BankStays
<1>20. Leads(todo', b, IDLE)
  BY <1>1, <1>2 DEF Under, Done
<1>21. mode' \in {"reset", "up"} /\ (mode' = "reset" <=> b.stage = "start")
  BY <1>1, <1>2, <1>3 DEF Under
<1> QED
  BY <1>10, <1>16, <1>17, <1>18, <1>19, <1>20, <1>21, GoesOn, Zenon

(* The cells of an unread frame are before the chip's write pointer: none  *)
(* of them is among the l cells that it writes from there.                 *)
LEMMA CellsApart ==
  ASSUME NEW s \in 0 .. N-1, NEW w \in 0 .. N-1, NEW e \in 0 .. N-1,
         NEW i \in Nat, NEW l \in Nat,
         Cell(s - e) + i < Cell(w - e), Cell(w - e) + l < N
  PROVE  /\ Cell(s + i) \in 0 .. N-1 /\ ~ (Cell(Cell(s + i) - w) < l)
<1>1. N \in Nat /\ N > 1
  BY Ring
<1>2. Cell(s - e) = IF s - e < 0 THEN s - e + N ELSE s - e
  BY <1>1, Wrap
<1>3. Cell(w - e) = IF w - e < 0 THEN w - e + N ELSE w - e
  BY <1>1, Wrap
<1>4. i < N
  BY <1>1, <1>2, <1>3
<1>5. Cell(s + i) = IF s + i < N THEN s + i ELSE s + i - N
  BY <1>1, <1>4, Wrap
<1>6. PICK c \in 0 .. N-1 : c = Cell(s + i)
  BY <1>1, <1>4, <1>5
<1>7. Cell(c - w) = IF c - w < 0 THEN c - w + N ELSE c - w
  BY <1>1, Wrap
<1>8. ~ (Cell(c - w) < l)
  BY <1>1, <1>2, <1>3, <1>4, <1>5, <1>6, <1>7
<1> QED
  BY <1>6, <1>8

(* The k-th cell from w on is k cells past w.                              *)
LEMMA CellPast ==
  ASSUME NEW w \in 0 .. N-1, NEW i \in 0 .. N-1
  PROVE  Cell(w + i) \in 0 .. N-1 /\ Cell(Cell(w + i) - w) = i
<1>1. N \in Nat /\ N > 1
  BY Ring
<1>2. Cell(w + i) = IF w + i < N THEN w + i ELSE w + i - N
  BY <1>1, Wrap
<1>3. PICK c \in 0 .. N-1 : c = Cell(w + i)
  BY <1>1, <1>2
<1>4. Cell(c - w) = IF c - w < 0 THEN c - w + N ELSE c - w
  BY <1>1, Wrap
<1>5. Cell(c - w) = i
  BY <1>1, <1>2, <1>3, <1>4
<1> QED
  BY <1>3, <1>5

(* What the chip has free is what is left of the ring behind its writing.  *)
LEMMA FreeIsLeft ==
  ASSUME NEW w \in 0 .. N-1, NEW e \in 0 .. N-1, w = erxwrpt, e = erxrdpt
  PROVE  Free = N - 1 - Cell(w - e)
<1>1. N \in Nat /\ N > 1
  BY Ring
<1>2. Cell(w - e) = IF w - e < 0 THEN w - e + N ELSE w - e
  BY <1>1, Wrap
<1>3. Free = IF w >= e THEN N - 1 - (w - e) ELSE e - w - 1
  BY DEF Free
<1> QED
  BY <1>1, <1>2, <1>3

(* The place after a frame that fits is as far on as the frame is long.    *)
LEMMA OffsetAfter ==
  ASSUME NEW w \in 0 .. N-1, NEW e \in 0 .. N-1, NEW l \in Nat, Cell(w - e) + l < N
  PROVE  /\ Cell(w + l) \in 0 .. N-1
         /\ Cell(Cell(w + l) - e) = Cell(w - e) + l
<1>1. N \in Nat /\ N > 1
  BY Ring
<1>2. Cell(w - e) = IF w - e < 0 THEN w - e + N ELSE w - e
  BY <1>1, Wrap
<1>3. l < N
  BY <1>1, <1>2
<1>4. Cell(w + l) = IF w + l < N THEN w + l ELSE w + l - N
  BY <1>1, <1>3, Wrap
<1>5. PICK c \in 0 .. N-1 : c = Cell(w + l)
  BY <1>1, <1>3, <1>4
<1>6. Cell(c - e) = IF c - e < 0 THEN c - e + N ELSE c - e
  BY <1>1, Wrap
<1>7. Cell(c - e) = Cell(w - e) + l
  BY <1>1, <1>2, <1>3, <1>4, <1>5, <1>6
<1> QED
  BY <1>5, <1>7

(* The chip stores a frame behind those that are there, at any stage of    *)
(* the driver.                                                             *)
LEMMA ChipReceiveStage ==
  ASSUME DataTypeOK, NEW x \in Stages, x # "start", StageInv(x), NEW s \in Nat, s > 0,
         ChipReceive(s)
  PROVE  StageInv(x)' /\ DataTypeOK'
<1> DEFINE l == HEADER + s
<1>0. PICK A \in Nat, w \in 0 .. N-1, e \in 0 .. N-1, r \in Nat :
        A = Accepted /\ w = erxwrpt /\ e = erxrdpt /\ r = Read
  <2>1. erxwrpt \in 0 .. N-1 /\ erxrdpt \in 0 .. N-1
    BY Ring DEF DataTypeOK
  <2>2. Accepted \in Nat /\ Read \in Nat
    BY Layout
  <2> QED
    BY <2>1, <2>2
<1>1. /\ l <= Free
      /\ frames' = Append(frames, s)
      /\ memory' = [p \in 0 .. RX_END |->
                      IF Cell(p - w) < l THEN <<A + 1, Cell(p - w)>> ELSE memory[p]]
      /\ erxwrpt' = Cell(w + l)
      /\ next_of' = Append(next_of, erxwrpt') /\ epktcnt' = epktcnt + 1
      /\ UNCHANGED <<read_pointer, next_packet, size, buffer>>
      /\ UNCHANGED <<tx_memory, txrts, sends, transmitted>>
      /\ UNCHANGED <<erdpt, erxrdpt, rxen, got>>
  <2>1. N \in Nat /\ w \in Nat /\ s \in Nat /\ HEADER \in Nat
    BY <1>0, Ring
  <2>2. w + HEADER + s = w + l
    BY <2>1
  <2>3. erxwrpt' = (w + HEADER + s) % N
    BY <1>0 DEF ChipReceive
  <2>4. erxwrpt' = Cell(w + l)
    BY <2>2, <2>3, Zenon DEF Cell
  <2> QED
    BY <1>0, <2>4 DEF ChipReceive, Cell, readVars, txVars, Accepted
<1>2. /\ A \in Nat /\ Read \in Nat /\ Read <= A
      /\ First(x) \in 1 .. A + 1 /\ Read + 1 <= First(x)
      /\ \A k \in 1 .. A + 1 : StartOf(k) \in 0 .. N-1
      /\ \A k \in 1 .. A : Length(k) \in Nat
      /\ \A k \in 1 .. A + 1 : Offset(k) \in 0 .. N-1
  BY <1>0, Layout
<1>3. /\ w = StartOf(A + 1) /\ w \in 0 .. N-1 /\ e \in 0 .. N-1 /\ l \in Nat /\ l > 0
  <2>1. w = StartOf(A + 1)
    BY <1>0 DEF StageInv, Chained
  <2>2. l \in Nat /\ l > 0
    BY Ring
  <2> QED
    BY <2>1, <2>2
<1>4. Offset(A + 1) = Cell(w - e) /\ Cell(w - e) + l < N
  <2>1. Offset(A + 1) = Cell(w - e)
    BY <1>0, <1>3, Zenon DEF Offset, Cell
  <2>2. Free = N - 1 - Cell(w - e)
    BY <1>0, FreeIsLeft
  <2>3. Cell(w - e) \in 0 .. N-1
    <3>1. A + 1 \in 1 .. A + 1
      OBVIOUS
    <3> QED
      BY <1>2, <2>1, <3>1
  <2> HIDE DEF l
  <2>4. PICK c \in 0 .. N-1 : c = Cell(w - e)
    BY <2>3
  <2>5. l <= N - 1 - c
    BY <1>1, <2>2, <2>4
  <2>6. c + l < N
    BY <1>3, <2>5, Ring
  <2> QED
    BY <2>1, <2>4, <2>6
<1> HIDE DEF l
<1>5. /\ Cell(w + l) \in 0 .. N-1 /\ Cell(Cell(w + l) - e) = Cell(w - e) + l
  BY <1>3, <1>4, OffsetAfter
<1>6. /\ frames \in Seq(Nat \ {0}) /\ Len(frames) = A
      /\ next_of \in Seq(0 .. RX_END) /\ Len(next_of) = A /\ Cell(w + l) \in 0 .. RX_END
  BY <1>0, <1>5, Ring DEF DataTypeOK, StageInv, Counts, Accepted
<1>7. /\ frames' \in Seq(Nat \ {0}) /\ Len(frames') = A + 1
      /\ \A k \in 1 .. A : frames'[k] = frames[k]
      /\ frames'[A + 1] = s
  <2>1. s \in Nat \ {0} /\ frames' = Append(frames, s)
    BY <1>1
  <2>2. /\ Append(frames, s) \in Seq(Nat \ {0})
        /\ Len(Append(frames, s)) = Len(frames) + 1
        /\ \A k \in 1 .. Len(frames) : Append(frames, s)[k] = frames[k]
        /\ Append(frames, s)[Len(frames) + 1] = s
    BY <1>6, <2>1, AppendProperties
  <2> QED
    BY <1>6, <2>1, <2>2, Zenon
<1>8. /\ next_of' \in Seq(0 .. RX_END) /\ Len(next_of') = A + 1
      /\ \A k \in 1 .. A : next_of'[k] = next_of[k]
      /\ next_of'[A + 1] = Cell(w + l)
  BY <1>1, <1>6, AppendProperties
<1>9. /\ Accepted' = A + 1 /\ Accepted = A /\ Read' = Read /\ First(x)' = First(x)
  BY <1>0, <1>1, <1>7 DEF Accepted, Read, First
<1>10. /\ \A k \in 1 .. A + 1 : StartOf(k)' = StartOf(k) /\ Offset(k)' = Offset(k)
       /\ StartOf(A + 2)' = Cell(w + l)
       /\ Offset(A + 2)' = Offset(A + 1) + l
  <2>1. ASSUME NEW k \in 1 .. A + 1
        PROVE  StartOf(k)' = StartOf(k)
    <3>1. k # 1 => k - 1 \in 1 .. A
      BY <1>2
    <3> QED
      BY <1>8, <3>1 DEF StartOf
  <2>2. StartOf(A + 2)' = Cell(w + l)
    <3>1. A + 2 - 1 = A + 1 /\ A + 2 # 1
      BY <1>2
    <3> QED
      BY <1>8, <3>1 DEF StartOf
  <2>3. \A k \in 1 .. A + 1 : Offset(k)' = Offset(k)
    BY <1>1, <2>1 DEF Offset
  <2>4. Offset(A + 2)' = Offset(A + 1) + l
    <3>1. Offset(A + 2)' = Cell(Cell(w + l) - e)
      BY <1>0, <1>1, <2>2 DEF Offset, Cell
    <3> QED
      BY <1>4, <1>5, <3>1
  <2> QED
    BY <2>1, <2>2, <2>3, <2>4
<1>11. /\ \A k \in 1 .. A : Length(k)' = Length(k)
       /\ Length(A + 1)' = l
  BY <1>7 DEF Length, l
<1>12. Apart(x)'
  <2>1. ASSUME NEW j \in First(x) .. A + 2, NEW k \in First(x) .. A + 2, j < k
        PROVE  Offset(j)' + Length(j)' <= Offset(k)'
    <3>1. CASE k <= A + 1
      <4>1. /\ j \in First(x) .. A + 1 /\ k \in First(x) .. A + 1
            /\ j \in 1 .. A + 1 /\ k \in 1 .. A + 1 /\ j \in 1 .. A
        BY <1>2, <2>1, <3>1
      <4>2. Offset(j) + Length(j) <= Offset(k)
        BY <1>9, <2>1, <4>1 DEF StageInv, Apart
      <4> QED
        BY <1>10, <1>11, <4>1, <4>2
    <3>2. CASE k = A + 2 /\ j = A + 1
      <4>1. A + 1 \in 1 .. A + 1
        BY <1>2
      <4> QED
        BY <1>2, <1>3, <1>10, <1>11, <3>2, <4>1, Ring
    <3>3. CASE k = A + 2 /\ j <= A
      <4>1. /\ j \in First(x) .. A + 1 /\ A + 1 \in First(x) .. A + 1 /\ j < A + 1
            /\ j \in 1 .. A + 1 /\ A + 1 \in 1 .. A + 1 /\ j \in 1 .. A
        BY <1>2, <2>1, <3>3
      <4>2. Offset(j) + Length(j) <= Offset(A + 1)
        BY <1>9, <4>1 DEF StageInv, Apart
      <4>3. Offset(j) \in 0 .. N-1 /\ Length(j) \in Nat /\ Offset(A + 1) \in 0 .. N-1
        BY <1>2, <4>1
      <4>4. /\ Offset(j)' = Offset(j) /\ Length(j)' = Length(j)
            /\ Offset(k)' = Offset(A + 1) + l
        BY <1>10, <1>11, <3>3, <4>1
      <4> QED
        BY <1>3, <4>2, <4>3, <4>4, Ring
    <3> QED
      BY <1>2, <2>1, <3>1, <3>2, <3>3
  <2>2. A + 1 + 1 = A + 2
    BY <1>2
  <2> QED
    BY <1>9, <2>1, <2>2 DEF Apart
<1>13. Stored(x)'
  <2>1. ASSUME NEW k \in First(x) .. A, NEW i \in 0 .. Length(k) - 1
        PROVE  memory'[Cell(StartOf(k) + i)] = <<k, i>>
    <3>1. /\ k \in 1 .. A /\ k \in 1 .. A + 1 /\ k \in First(x) .. A + 1
          /\ A + 1 \in First(x) .. A + 1 /\ k < A + 1 /\ A + 1 \in 1 .. A + 1
      BY <1>2
    <3>2. Offset(k) + Length(k) <= Offset(A + 1)
      BY <1>9, <3>1 DEF StageInv, Apart
    <3>3. /\ Offset(k) \in 0 .. N-1 /\ Length(k) \in Nat /\ StartOf(k) \in 0 .. N-1
          /\ Offset(A + 1) \in 0 .. N-1
      BY <1>2, <3>1
    <3>4. Offset(k) = Cell(StartOf(k) - e)
      BY <1>0 DEF Offset, Cell
    <3>5. i \in Nat /\ Cell(StartOf(k) - e) + i < Cell(w - e)
      BY <1>4, <3>2, <3>3, <3>4, Ring
    <3>6. Cell(StartOf(k) + i) \in 0 .. N-1 /\ ~ (Cell(Cell(StartOf(k) + i) - w) < l)
      BY <1>3, <1>4, <3>3, <3>5, CellsApart
    <3>7. memory'[Cell(StartOf(k) + i)] = memory[Cell(StartOf(k) + i)]
      BY <1>1, <3>6, Ring
    <3>8. memory[Cell(StartOf(k) + i)] = <<k, i>>
      BY <1>9 DEF StageInv, Stored
    <3> QED
      BY <3>7, <3>8
  <2>2. ASSUME NEW i \in 0 .. l - 1
        PROVE  memory'[Cell(w + i)] = <<A + 1, i>>
    <3>1. i \in 0 .. N-1 /\ i < l
      <4>1. Offset(A + 1) \in 0 .. N-1
        BY <1>2
      <4> QED
        BY <1>3, <1>4, <4>1, Ring
    <3>2. Cell(w + i) \in 0 .. N-1 /\ Cell(Cell(w + i) - w) = i
      BY <1>3, <3>1, CellPast
    <3> QED
      BY <1>1, <3>1, <3>2, Ring
  <2>3. ASSUME NEW k \in First(x) .. A + 1, NEW i \in 0 .. Length(k)' - 1
        PROVE  memory'[Cell(StartOf(k)' + i)] = <<k, i>>
    <3>1. CASE k \in First(x) .. A
      <4>1. k \in 1 .. A /\ k \in 1 .. A + 1
        BY <1>2, <3>1
      <4> QED
        BY <1>10, <1>11, <2>1, <3>1, <4>1
    <3>2. CASE k = A + 1
      <4>1. A + 1 \in 1 .. A + 1
        BY <1>2
      <4> QED
        BY <1>3, <1>10, <1>11, <2>2, <3>2, <4>1
    <3> QED
      BY <1>2, <3>1, <3>2
  <2> QED
    BY <1>9, <2>3 DEF Stored, Cell
<1>14. Counts(x)'
  <2>1. /\ Read <= A /\ epktcnt = A - Read
        /\ x \in READING => Read < A
    BY <1>9 DEF StageInv, Counts
  <2>2. Len(next_of') = A + 1 /\ epktcnt' = A + 1 - Read
    <3>1. epktcnt = A - r /\ epktcnt' = epktcnt + 1
      <4>1. epktcnt = A - r
        BY <1>0, <2>1, Zenon
      <4> QED
        BY <1>1, <4>1, Zenon
    <3>2. epktcnt' = A + 1 - r
      BY <3>1
    <3> QED
      BY <1>0, <1>8, <3>2
  <2> QED
    BY <1>2, <1>9, <2>1, <2>2 DEF Counts
<1>15. Chained'
  <2>1. A + 1 + 1 = A + 2
    BY <1>2
  <2>2. erxwrpt' = StartOf(A + 2)'
    BY <1>1, <1>10
  <2>3. ASSUME NEW k \in 1 .. A + 1
        PROVE  StartOf(k + 1)' = Cell(StartOf(k)' + Length(k)')
    <3>1. CASE k \in 1 .. A
      <4>1. k + 1 \in 1 .. A + 1 /\ k \in 1 .. A + 1
        BY <1>2, <3>1
      <4>2. StartOf(k + 1) = Cell(StartOf(k) + Length(k))
        BY <1>9, <3>1 DEF StageInv, Chained
      <4> QED
        BY <1>10, <1>11, <3>1, <4>1, <4>2
    <3>2. CASE k = A + 1
      <4>1. A + 1 \in 1 .. A + 1
        BY <1>2
      <4> QED
        BY <1>3, <1>10, <1>11, <2>1, <3>2, <4>1
    <3> QED
      BY <1>2, <3>1, <3>2
  <2> QED
    BY <1>9, <2>1, <2>2, <2>3 DEF Chained, Cell
<1>16. /\ StartOf(r + 1)' = StartOf(r + 1)
       /\ x \in READING => /\ StartOf(r + 2)' = StartOf(r + 2)
                            /\ frames'[r + 1] = frames[r + 1]
       /\ Read = r /\ Read' = r
  <2>0. Read = r /\ Read' = r
    BY <1>0, <1>9
  <2>1. r + 1 \in 1 .. A + 1
    BY <1>2, <2>0
  <2>2. x \in READING => r < A
    BY <1>9, <2>0 DEF StageInv, Counts
  <2>3. x \in READING => r + 2 \in 1 .. A + 1 /\ r + 1 \in 1 .. A
    BY <2>2
  <2> QED
    BY <1>7, <1>10, <2>0, <2>1, <2>3
<1>17. Freed(x)'
  <2>1. x = "freed" => x \in READING
    BY DEF READING
  <2> QED
    BY <1>1, <1>9, <1>16, <2>1 DEF StageInv, Freed
<1>18. Pointed(x)'
  <2>1. /\ x \in READING /\ Sized => Sized'
        /\ Copied => Copied'
    BY <1>1, <1>9, <1>16 DEF Sized, Copied
  <2>2. x \in {"sized", "copying", "skipping", "copied", "freed"} => x \in READING
    BY DEF READING
  <2> QED
    BY <1>1, <1>9, <1>16, <2>1, <2>2 DEF StageInv, Pointed, Cell
<1>19. Sending(x)'
  <2>1. UNCHANGED txVars /\ Sending(x)
    BY <1>1 DEF StageInv, txVars
  <2> QED
    BY <2>1, SendKept, Zenon
<1>20. StageInv(x)'
  BY <1>12, <1>13, <1>14, <1>15, <1>17, <1>18, <1>19 DEF StageInv
<1>21. DataTypeOK'
  <2>1. erxwrpt' \in 0 .. RX_END /\ epktcnt' \in Int
    BY <1>1, <1>6 DEF DataTypeOK
  <2>2. memory' \in [0 .. RX_END -> Nat \X Int]
    <3>1. ASSUME NEW p \in 0 .. RX_END
          PROVE  (IF Cell(p - w) < l THEN <<A + 1, Cell(p - w)>> ELSE memory[p]) \in Nat \X Int
      <4>1. memory[p] \in Nat \X Int
        BY DEF DataTypeOK
      <4>2. Cell(p - w) \in Int
        BY <1>3, Ring, Wrap
      <4>3. A + 1 \in Nat
        BY <1>2
      <4> QED
        BY <4>1, <4>2, <4>3
    <3> QED
      BY <1>1, <3>1
  <2> QED
    BY <1>1, <1>7, <1>8, <2>1, <2>2, Zenon DEF DataTypeOK
<1> QED
  BY <1>20, <1>21

LEMMA ChipReceiveStep ==
  ASSUME EthInv, NEW s \in Sizes, ChipReceive(s)
  PROVE  EthInv'
<1>1. s \in Nat /\ s > 0
  BY DriverAssumption
<1>2. /\ rxen /\ UNCHANGED <<mode, todo, bankVars, txVars, got>>
      /\ frames' = Append(frames, s)
  BY DEF ChipReceive
<1>3. rxen # FALSE
  BY <1>2, Zenon
<1>4. /\ mode \in {"reset", "up"}
      /\ \E a \in Labels :
           /\ Leads(todo, a, IDLE) /\ Selected(a)
           /\ (mode = "reset" <=> a.stage = "start")
           /\ StageInv(a.stage)
  BY <1>3, Zenon DEF EthInv, Running, Stopped
<1>5. PICK a \in Labels :
        /\ Leads(todo, a, IDLE) /\ Selected(a)
        /\ (mode = "reset" <=> a.stage = "start")
        /\ StageInv(a.stage)
  BY <1>4
<1>6. a.stage \in Stages /\ a.stage # "start"
  BY <1>3, <1>5 DEF Labels, StageInv, Counts
<1>7. DataTypeOK
  BY Zenon DEF EthInv
<1>8. StageInv(a.stage)' /\ DataTypeOK'
  BY <1>1, <1>5, <1>6, <1>7, ChipReceiveStage
<1>9. Returned'
  <2>1. Read' = Read /\ Read \in Nat /\ Accepted \in Nat /\ Read <= Accepted
    BY <1>2, <1>5, <1>6, <1>7, Layout DEF Read
  <2>2. \A k \in 1 .. Read : frames'[k] = frames[k]
    <3>1. frames \in Seq(Nat \ {0}) /\ s \in Nat \ {0} /\ Len(frames) = Accepted
      BY <1>1, <1>7 DEF DataTypeOK, Accepted
    <3>2. \A k \in 1 .. Accepted : frames'[k] = frames[k]
      BY <1>2, <3>1, AppendProperties
    <3> QED
      BY <2>1, <3>2
  <2> QED
    BY <1>2, <2>1, <2>2 DEF EthInv, Returned, Frame
<1>10. Transmitted'
  BY <1>2, SendKept DEF EthInv
<1>11. Selected(a)'
  BY <1>2, <1>5 DEF Selected, bankVars
<1>12. Leads(todo', a, IDLE)
  BY <1>2, <1>5
<1>13. mode' \in {"reset", "up"} /\ (mode' = "reset" <=> a.stage = "start")
  BY <1>2, <1>4, <1>5
<1> QED
  BY <1>8, <1>9, <1>10, <1>11, <1>12, <1>13, GoesOn, Zenon

(***************************************************************************)
(* Results.                                                                *)
(***************************************************************************)
LEMMA EthStarts ==
  EthInit => EthInv
<1> SUFFICES ASSUME EthInit
             PROVE  EthInv
  OBVIOUS
<1> DEFINE S == Lbl(OUT, "start")
<1>1. S \in Labels /\ S.bank = OUT /\ S.stage = "start"
  BY DEF Lbl, Labels, OUT, Stages
<1>2. Leads(todo, S, IDLE) /\ todo \in Seq(Entries)
  <2>1. Leads(todo, S, IDLE)
    BY InitEthernetLeads, Zenon DEF EthInit
  <2> QED
    BY <2>1, Zenon DEF Leads
<1>3. Selected(S)
  BY <1>1 DEF Selected, EthInit
<1>4. /\ Accepted = 0 /\ Read = 0 /\ Len(next_of) = 0 /\ Len(transmitted) = 0 /\ Calls = 0
      /\ StartOf(1) = 0
  BY DEF EthInit, Accepted, Read, StartOf, Calls
<1>5. StageInv("start")
  <2>1. Counts("start") /\ Chained
    BY <1>4 DEF Counts, Chained, EthInit, READING
  <2>2. Apart("start") /\ Stored("start")
    <3>1. First("start") = 1
      BY <1>4 DEF First
    <3>2. ASSUME NEW j \in 1 .. 1, NEW k \in 1 .. 1
          PROVE  ~ (j < k)
      OBVIOUS
    <3>3. 1 .. 0 = {}
      OBVIOUS
    <3>4. 0 + 1 = 1
      OBVIOUS
    <3>5. Apart("start")
      BY <1>4, <3>1, <3>2, <3>4 DEF Apart
    <3>6. Stored("start")
      BY <1>4, <3>1, <3>3 DEF Stored
    <3> QED
      BY <3>5, <3>6
  <2>3. Freed("start") /\ Pointed("start") /\ Sending("start")
    <3>1. Freed("start") /\ Pointed("start")
      BY <1>4 DEF Freed, Pointed, EthInit
    <3>2. Sending("start")
      BY <1>4 DEF Sending, SentUpTo, EthInit
    <3> QED
      BY <3>1, <3>2
  <2> QED
    BY <2>1, <2>2, <2>3 DEF StageInv
<1>6. Running
  <2>1. mode \in {"reset", "up"} /\ (mode = "reset" <=> S.stage = "start") /\ StageInv(S.stage)
    BY <1>1, <1>5 DEF EthInit
  <2> QED
    BY <1>1, <1>2, <1>3, <2>1, Zenon DEF Running
<1>7. DataTypeOK
  <2>1. 0 \in 0 .. RX_END /\ ERXRDPT_RESET \in 0 .. RX_END
    BY DriverAssumption
  <2>2. memory \in [0 .. RX_END -> Nat \X Int]
    BY DEF EthInit
  <2>3. /\ read_pointer \in 0 .. RX_END /\ next_packet \in 0 .. RX_END
        /\ erdpt \in 0 .. RX_END /\ erxrdpt \in 0 .. RX_END /\ erxwrpt \in 0 .. RX_END
    BY <2>1, Zenon DEF EthInit
  <2>4. /\ size \in Int /\ epktcnt \in Int /\ tx_memory \in Nat
    BY DEF EthInit
  <2>5. rxen \in BOOLEAN /\ txrts \in BOOLEAN
    BY DEF EthInit
  <2>6. /\ buffer \in Seq(Nat \X Int) /\ next_of \in Seq(0 .. RX_END)
        /\ frames \in Seq(Nat \ {0}) /\ got \in Seq(Seq(Nat \X Int))
        /\ transmitted \in Seq(Nat) /\ sends \in Seq(Packets)
    BY DEF EthInit
  <2> QED
    BY <2>2, <2>3, <2>4, <2>5, <2>6, Zenon DEF DataTypeOK
<1>8. CallTypeOK /\ Returned /\ Transmitted
  BY <1>2, <1>4 DEF CallTypeOK, Returned, Transmitted, EthInit
<1> QED
  BY <1>6, <1>7, <1>8, Zenon DEF EthInv

LEMMA EthSteps ==
  EthInv /\ [EthNext]_ethVars => EthInv'
<1> SUFFICES ASSUME EthInv, [EthNext]_ethVars
             PROVE  EthInv'
  OBVIOUS
<1>1. CASE Call
  BY <1>1, CallStep
<1>2. CASE Driver
  <2>1. CASE PushBank \/ PopBank \/ TestWrite \/ TestRead \/ InitFails \/ GoOn
    BY <2>1, PushBankStep, PopBankStep, TestWriteStep, TestReadStep, InitFailsStep,
       GoOnStep, Zenon
  <2>2. CASE SetRxStart \/ SetReadPointer \/ Enable \/ OtherRegister
    BY <2>2, SetRxStartStep, SetReadPointerStep, EnableStep, OtherRegisterStep, Zenon
  <2>3. CASE ReadCount \/ ReadPointer \/ ReadNext \/ ReadStatus \/ ReadData \/ ReadEnd
    BY <2>3, ReadCountStep, ReadPointerStep, ReadNextStep, ReadStatusStep,
       ReadDataStep, ReadEndStep, Zenon
  <2>4. CASE Oversize \/ SkipData \/ FreeFrame \/ DecrementCount
    BY <2>4, OversizeStep, SkipDataStep, FreeFrameStep, DecrementCountStep, Zenon
  <2>5. CASE LoadPacket \/ RequestTransmit \/ AwaitTransmit
    BY <2>5, LoadPacketStep, RequestTransmitStep, AwaitTransmitStep, Zenon
  <2> QED
    BY <1>2, <2>1, <2>2, <2>3, <2>4, <2>5, Zenon DEF Driver
<1>3. CASE Chip
  BY <1>3, ChipReceiveStep, ChipTransmitStep DEF Chip
<1>4. CASE UNCHANGED ethVars
  <2>1. UNCHANGED otherVars /\ UNCHANGED <<mode, todo, bankVars>>
    BY <1>4 DEF ethVars, otherVars
  <2>2. DataTypeOK' /\ Returned' /\ Transmitted'
    BY <2>1, SameData, Zenon DEF EthInv
  <2>3. CallTypeOK'
    BY <2>1 DEF EthInv, CallTypeOK
  <2>4. Running => Running'
    <3> SUFFICES ASSUME Running
                 PROVE  Running'
      OBVIOUS
    <3>1. PICK a \in Labels :
            /\ Leads(todo, a, IDLE) /\ Selected(a)
            /\ (mode = "reset" <=> a.stage = "start")
            /\ StageInv(a.stage)
      BY Zenon DEF Running
    <3>2. mode \in {"reset", "up"}
      BY Zenon DEF Running
    <3>3. StageInv(a.stage)'
      BY <2>1, <3>1, SameData, Zenon
    <3>4. Selected(a)'
      BY <2>1, <3>1 DEF Selected, bankVars
    <3>5. Leads(todo', a, IDLE)
      BY <2>1, <3>1
    <3>6. mode' \in {"reset", "up"} /\ (mode' = "reset" <=> a.stage = "start")
      BY <2>1, <3>1, <3>2
    <3> QED
      BY <3>3, <3>4, <3>5, <3>6, Zenon DEF Running
  <2>5. Stopped => Stopped'
    BY <2>1 DEF otherVars, ringVars, txVars, Stopped, Read, Accepted
  <2> QED
    BY <2>2, <2>3, <2>4, <2>5, Zenon DEF EthInv
<1> QED
  BY <1>1, <1>2, <1>3, <1>4, Zenon DEF EthNext

(* The label of the access to be made next tells how far the call is, and  *)
(* what the driver, the chip and the bank stack hold at that point.        *)
THEOREM EthInvariant == EthSpec => []EthInv
BY EthStarts, EthSteps, PTL DEF EthSpec

(* Every register is accessed while its bank is selected.                  *)
THEOREM AccessesInBank == EthSpec => []AccessInBank
<1>1. EthInv => AccessInBank
  <2> SUFFICES ASSUME EthInv, todo # <<>>, Head(todo).do # "push"
               PROVE  Head(todo).in \in {ANY, bank}
    BY DEF AccessInBank
  <2>1. CASE Running
    <3>1. PICK a \in Labels, b \in Labels : Under(a, b)
      BY <2>1, RunningUnder
    <3>2. bank = BankOf(a) /\ Head(todo).in \in {ANY, BankOf(a)}
      BY <3>1 DEF Under, BankMoves, Selected, BankOf
    <3> QED
      BY <3>2
  <2>2. CASE Stopped
    <3>1. Head(todo) \in {Pop, Use("absent", ANY)}
      BY <2>2, StoppedHead
    <3> QED
      BY <3>1 DEF Pop, Use
  <2> QED
    BY <2>1, <2>2, Zenon DEF EthInv
<1> QED
  BY <1>1, EthInvariant, PTL

(* Frames are returned whole and in order, for every size of ring, frame   *)
(* and buffer, whatever the chip receives between the accesses.            *)
THEOREM FramesAreInOrder == EthSpec => []FramesInOrder
<1>1. EthInv => FramesInOrder
  <2> SUFFICES ASSUME EthInv
               PROVE  FramesInOrder
    OBVIOUS
  <2>1. Read <= Accepted
    <3>1. CASE Running
      BY <3>1 DEF Running, StageInv, Counts
    <3>2. CASE Stopped
      BY <3>2 DEF Stopped
    <3> QED
      BY <3>1, <3>2, Zenon DEF EthInv
  <2> QED
    BY <2>1 DEF EthInv, Returned, FramesInOrder, Read, Accepted
<1> QED
  BY <1>1, EthInvariant, PTL

LEMMA Between ==
  ASSUME EthInv, mode = "up", todo = <<>>
  PROVE  StageInv("idle")
<1>1. PICK a \in Labels : Leads(todo, a, IDLE) /\ StageInv(a.stage)
  BY Zenon DEF EthInv, Running, Stopped
<1>2. a = IDLE
  BY <1>1, LeadsNowhere
<1> QED
  BY <1>1, <1>2 DEF IDLE

(* Between two calls the driver and the chip agree on the next frame.      *)
THEOREM StaysInStep == EthSpec => []InStep
<1>1. EthInv => InStep
  <2> SUFFICES ASSUME EthInv, mode = "up", todo = <<>>
               PROVE  LET read == Len(got)
                      IN  /\ epktcnt = Len(frames) - read
                          /\ erdpt = IF read = 0 THEN 0 ELSE next_of[read]
                          /\ read > 0 => erxrdpt = erdpt
    BY DEF InStep
  <2>1. StageInv("idle")
    BY Between
  <2>2. Read \in Nat
    BY LenProperties DEF EthInv, DataTypeOK, Read
  <2>3. /\ epktcnt = Accepted - Read /\ erdpt = StartOf(Read + 1)
        /\ Read > 0 => erxrdpt = StartOf(Read + 1)
    BY <2>1 DEF StageInv, Counts, Pointed, Freed
  <2>4. StartOf(Read + 1) = IF Read = 0 THEN 0 ELSE next_of[Read]
    BY <2>2 DEF StartOf
  <2> QED
    BY <2>3, <2>4 DEF Read, Accepted
<1> QED
  BY <1>1, EthInvariant, PTL

(* Each packet is on the wire once, in order, when its send has returned.  *)
THEOREM PacketsSentInOrder == EthSpec => []SentInOrder
<1>1. EthInv => SentInOrder
  <2> SUFFICES ASSUME EthInv
               PROVE  SentInOrder
    OBVIOUS
  <2>1. /\ \A i, j \in 1 .. Len(transmitted) : i < j => transmitted[i] < transmitted[j]
        /\ \A j \in 1 .. Len(transmitted) :
             sends[transmitted[j]].length \in 0 .. PACKET_MAX_SIZE
    BY DEF EthInv, Transmitted, Fits, Fit
  <2>2. ASSUME mode = "up", todo = <<>>, NEW k \in 1 .. Len(sends)
        PROVE  \/ \E j \in 1 .. Len(transmitted) : transmitted[j] = k
               \/ sends[k].type = "ETH_NULL"
               \/ sends[k].length \notin 0 .. PACKET_MAX_SIZE
    <3>1. SentUpTo(Len(sends))
      BY <2>2, Between DEF StageInv, Sending, Calls
    <3> QED
      BY <3>1, Zenon DEF SentUpTo, Fits, Fit
  <2> QED
    BY <2>1, <2>2, Zenon DEF SentInOrder
<1> QED
  BY <1>1, EthInvariant, PTL

=============================================================================
