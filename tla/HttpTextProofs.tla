--------------------------- MODULE HttpTextProofs ---------------------------
(***************************************************************************)
(* The command line and the text of a request, for command lines, options  *)
(* and requests of any length, and however a request is cut into reads.    *)
(***************************************************************************)
EXTENDS HttpText, DataLemmas

(***************************************************************************)
(* The command line: how its options lie in argv.                          *)
(***************************************************************************)
Arguments == UNION {ToSet(o) : o \in Options}

Laid(off, c) ==
  /\ IsOffsets(off, c, Len(c))
  /\ Len(FlattenSeq(c)) = off[Len(c)]
  /\ \A k, l \in 0 .. Len(c) : k <= l => off[k] <= off[l]
  /\ \A k \in 1 .. Len(c) : \A x \in 1 .. Len(c[k]) :
       FlattenSeq(c)[off[k-1] + x] = c[k][x]

(* The arguments of a command line before its option k+1.                  *)
Before(c) == CHOOSE off : Laid(off, c)

LEMMA OptionType ==
  ASSUME NEW o \in Options
  PROVE  /\ o \in Seq(Arguments) /\ Len(o) \in {1, 2}
         /\ Len(o) = 2 => o[1] \in {"-i", "-m"}
         /\ \A x \in 1 .. Len(o) : o[x] \in Arguments /\ o[x] # NO_NAME
<1>1. CASE o = <<o[1]>>
  <2>1. PICK a : o = <<a>>
    BY <1>1
  <2>2. a \in ToSet(o)
    BY <2>1 DEF ToSet
  <2>3. a \in Arguments
    BY <2>2 DEF Arguments
  <2>4. a # NO_NAME
    BY <2>3, CommandLineAssumption DEF Arguments
  <2>5. o \in Seq(Arguments) /\ Len(o) = 1 /\ o[1] = a
    BY <2>1, <2>3
  <2>6. \A x \in 1 .. Len(o) : x = 1
    BY <2>5
  <2> QED
    BY <2>3, <2>4, <2>5, <2>6
<1>2. CASE o = <<o[1], o[2]>> /\ o[1] \in {"-i", "-m"}
  <2>1. PICK a, b : o = <<a, b>>
    BY <1>2
  <2>2. a \in ToSet(o) /\ b \in ToSet(o)
    BY <2>1 DEF ToSet
  <2>3. a \in Arguments /\ b \in Arguments
    BY <2>2 DEF Arguments
  <2>4. a # NO_NAME /\ b # NO_NAME
    BY <2>3, CommandLineAssumption DEF Arguments
  <2>5. o \in Seq(Arguments) /\ Len(o) = 2 /\ o[1] = a /\ o[2] = b
    BY <2>1, <2>3
  <2>6. \A x \in 1 .. Len(o) : x = 1 \/ x = 2
    BY <2>5
  <2> QED
    BY <1>2, <2>3, <2>4, <2>5, <2>6
<1> QED
  BY <1>1, <1>2, CommandLineAssumption

LEMMA CommandType ==
  ASSUME NEW c \in SeqOf(Options, MaxOptions)
  PROVE  /\ c \in Seq(Options) /\ c \in Seq(Seq(Arguments))
         /\ Laid(Before(c), c)
<1>1. c \in Seq(Options)
  <2>1. PICK m \in 0 .. MaxOptions : c \in [1 .. m -> Options]
    BY DEF SeqOf
  <2>2. m \in Nat
    BY CommandLineAssumption
  <2> QED
    BY <2>1, <2>2, SeqDef
<1>2. Options \subseteq Seq(Arguments)
  BY OptionType
<1>3. c \in Seq(Seq(Arguments))
  <2>1. Len(c) \in Nat /\ c \in [1 .. Len(c) -> Options]
    BY <1>1, LenProperties
  <2>2. c \in [1 .. Len(c) -> Seq(Arguments)]
    BY <1>2, <2>1
  <2> QED
    BY <2>1, <2>2, SeqDef
<1>4. \E off : Laid(off, c)
  BY <1>3, FlattenAt DEF Laid
<1>5. Laid(Before(c), c)
  BY <1>4 DEF Before
<1> QED
  BY <1>1, <1>3, <1>5

(* What the loop sees when it stands in front of an option.                *)
LEMMA AtOption ==
  ASSUME NEW c \in SeqOf(Options, MaxOptions), Complete(c), NEW k \in 0 .. Len(c)
  PROVE  LET off  == Before(c)
             args == FlattenSeq(c)
             o    == c[k+1]
         IN  /\ off[k] \in Nat /\ Len(args) \in Nat /\ Len(c) \in Nat
             /\ k = Len(c) <=> off[k] + 1 > Len(args)
             /\ k < Len(c) =>
                  /\ k + 1 \in 1 .. Len(c) /\ k + 1 \in DOMAIN c
                  /\ o \in Options /\ Len(o) \in {1, 2}
                  /\ Len(o) = 2 <=> o[1] \in {"-i", "-m"}
                  /\ off[k+1] = off[k] + Len(o) /\ off[k+1] <= Len(args)
                  /\ args[off[k] + 1] = o[1] /\ o[1] \in Arguments /\ o[1] # NO_NAME
                  /\ Len(o) = 2 => args[off[k] + 2] = o[2] /\ o[2] \in Arguments
<1> DEFINE off  == Before(c)
           args == FlattenSeq(c)
           o    == c[k+1]
<1>1. /\ c \in Seq(Options) /\ Laid(off, c)
  BY CommandType
<1>2. Len(c) \in Nat
  BY <1>1
<1> HIDE DEF off
<1>3. /\ off \in [0 .. Len(c) -> Nat] /\ off[0] = 0
      /\ \A i \in 1 .. Len(c) : off[i] = off[i-1] + Len(c[i])
      /\ Len(args) = off[Len(c)]
      /\ \A i, l \in 0 .. Len(c) : i <= l => off[i] <= off[l]
      /\ \A i \in 1 .. Len(c) : \A x \in 1 .. Len(c[i]) :
           args[off[i-1] + x] = c[i][x]
  BY <1>1 DEF Laid, IsOffsets
<1>4. off[k] \in Nat /\ Len(args) \in Nat
  BY <1>2, <1>3
<1>5. ASSUME k < Len(c)
      PROVE  /\ k + 1 \in 1 .. Len(c) /\ k + 1 \in DOMAIN c
             /\ o \in Options /\ Len(o) \in {1, 2}
             /\ Len(o) = 2 <=> o[1] \in {"-i", "-m"}
             /\ off[k+1] = off[k] + Len(o) /\ off[k+1] <= Len(args)
             /\ args[off[k] + 1] = o[1] /\ o[1] \in Arguments /\ o[1] # NO_NAME
             /\ Len(o) = 2 => args[off[k] + 2] = o[2] /\ o[2] \in Arguments
  <2>1. k + 1 \in 1 .. Len(c) /\ k + 1 \in DOMAIN c /\ o \in Options
        /\ k + 1 \in 0 .. Len(c) /\ (k + 1) - 1 = k
    BY <1>1, <1>2, <1>5
  <2>2. /\ Len(o) \in {1, 2} /\ (Len(o) = 2 => o[1] \in {"-i", "-m"})
        /\ \A x \in 1 .. Len(o) : o[x] \in Arguments /\ o[x] # NO_NAME
    BY <2>1, OptionType
  <2>3. Len(o) = 1 => o[1] \notin {"-i", "-m"}
    BY <2>1 DEF Complete
  <2>4. off[k+1] = off[k] + Len(o)
    BY <1>3, <2>1
  <2>5. off[k+1] <= Len(args)
    BY <1>2, <1>3, <2>1
  <2>6. \A x \in 1 .. Len(o) : args[off[k] + x] = o[x]
    BY <1>3, <2>1
  <2>7. 1 \in 1 .. Len(o) /\ (Len(o) = 2 => 2 \in 1 .. Len(o))
    <3>1. \A n \in {1, 2} : 1 \in 1 .. n /\ (n = 2 => 2 \in 1 .. n)
      OBVIOUS
    <3> HIDE DEF o
    <3> QED
      BY <2>2, <3>1
  <2>8. args[off[k] + 1] = o[1] /\ o[1] \in Arguments /\ o[1] # NO_NAME
    BY <2>2, <2>6, <2>7
  <2>9. Len(o) = 2 => args[off[k] + 2] = o[2] /\ o[2] \in Arguments
    BY <2>2, <2>6, <2>7
  <2>10. Len(o) = 2 <=> o[1] \in {"-i", "-m"}
    <3> HIDE DEF o
    <3> QED
      BY <2>2, <2>3, Zenon
  <2> QED
    BY <2>1, <2>2, <2>4, <2>5, <2>8, <2>9, <2>10
<1>6. k = Len(c) <=> off[k] + 1 > Len(args)
  <2>1. CASE k = Len(c)
    BY <1>3, <1>4, <2>1
  <2>2. CASE k # Len(c)
    <3>1. k < Len(c)
      BY <1>2, <2>2
    <3>2. off[k] + 1 <= Len(args)
      BY <1>4, <1>5, <3>1
    <3> QED
      BY <1>4, <2>2, <3>2
  <2> QED
    BY <2>1, <2>2
<1> QED
  BY <1>2, <1>4, <1>5, <1>6 DEF off

(***************************************************************************)
(* The command line: what the loop knows.                                  *)
(***************************************************************************)
States == {"parse", "start", "help", "error", "waiting", "serving"}

(* The address is that of the last -i among the first k options.           *)
AddressRead(c, k, ip) ==
  \/ ip = DEFAULT_IP /\ \A i \in 1 .. k : c[i][1] # "-i"
  \/ \E i \in 1 .. k :
       /\ c[i][1] = "-i" /\ ip = c[i][2]
       /\ \A h \in i+1 .. k : c[h][1] # "-i"

(* The name is that of the only name among the first k options.            *)
NameRead(c, k, name) ==
  \/ name = NO_NAME /\ \A i \in 1 .. k : Len(c[i]) # 1
  \/ \E i \in 1 .. k :
       /\ Len(c[i]) = 1 /\ name = c[i][1] /\ name # NO_NAME
       /\ \A h \in 1 .. k : Len(c[h]) = 1 => h = i

(* The first k options have been read, none of them -m or -h.              *)
Read(c, k, ip, size, name) ==
  /\ \A i \in 1 .. k : /\ c[i][1] \notin {"-m", "-h"}
                       /\ c[i][1] = "-i" => c[i][2] \in Addresses
  /\ AddressRead(c, k, ip) /\ NameRead(c, k, name)
  /\ size = DEFAULT_SIZE

(* The loop stands in front of option k+1.                                 *)
InFront(c, at, ip, size, name) ==
  \E k \in 0 .. Len(c) : at = Before(c)[k] + 1 /\ Read(c, k, ip, size, name)

(* It has taken -m for a name and stands in front of the size.             *)
Astray(c, at, name) ==
  \E k \in 0 .. Len(c) - 1 :
    /\ at = Before(c)[k] + 2 /\ name # NO_NAME
    /\ c[k+1][1] = "-m" /\ c[k+1][2] \in DOMAIN SizeOf

Plain(c) == WellFormed(c) /\ OptionAt(c, "-m") = {}

ArgsInv ==
  /\ command \in SeqOf(Options, MaxOptions)
  /\ state \in States
  /\ state = "start" => j > Len(argv)
  /\ Complete(command) /\ state = "parse" =>
       \/ InFront(command, j, ip_addr, max_size, filename)
       \/ Astray(command, j, filename)
  /\ Complete(command) /\ state \in {"start", "waiting", "serving"} =>
       Read(command, Len(command), ip_addr, max_size, filename)
  /\ Plain(command) /\ state = "error" => j > Len(argv)

LEMMA ArgsInitially == ArgsInit => ArgsInv
<1> SUFFICES ASSUME ArgsInit
             PROVE  ArgsInv
  OBVIOUS
<1>1. /\ command \in SeqOf(Options, MaxOptions) /\ j = 1 /\ state = "parse"
      /\ ip_addr = DEFAULT_IP /\ max_size = DEFAULT_SIZE /\ filename = NO_NAME
  BY DEF ArgsInit
<1>2. Laid(Before(command), command) /\ Len(command) \in Nat
  BY <1>1, CommandType
<1>3. Before(command)[0] = 0 /\ 0 \in 0 .. Len(command)
  BY <1>2 DEF Laid, IsOffsets
<1>4. \A i \in 1 .. 0 : FALSE
  OBVIOUS
<1>5. Read(command, 0, ip_addr, max_size, filename)
  BY <1>1, <1>4 DEF Read, AddressRead, NameRead
<1>6. InFront(command, j, ip_addr, max_size, filename)
  BY <1>1, <1>3, <1>5 DEF InFront
<1> QED
  BY <1>1, <1>6 DEF ArgsInv, States

(* An option with its address is read.                                     *)
LEMMA ReadAddress ==
  ASSUME NEW c, NEW k \in Nat, NEW ip, NEW size, NEW name,
         Read(c, k, ip, size, name),
         c[k+1][1] = "-i", Len(c[k+1]) = 2, c[k+1][2] \in Addresses
  PROVE  Read(c, k+1, c[k+1][2], size, name)
<1>1. \A i \in 1 .. k+1 : i \in 1 .. k \/ i = k+1
  OBVIOUS
<1>2. k+1 \in 1 .. k+1 /\ \A h \in (k+1)+1 .. k+1 : FALSE
  OBVIOUS
<1>3. AddressRead(c, k+1, c[k+1][2])
  BY <1>2 DEF AddressRead
<1>4. NameRead(c, k+1, name)
  <2>1. CASE name = NO_NAME /\ \A i \in 1 .. k : Len(c[i]) # 1
    BY <1>1, <2>1 DEF NameRead
  <2>2. CASE \E i \in 1 .. k : /\ Len(c[i]) = 1 /\ name = c[i][1] /\ name # NO_NAME
                               /\ \A h \in 1 .. k : Len(c[h]) = 1 => h = i
    <3>1. PICK i \in 1 .. k : /\ Len(c[i]) = 1 /\ name = c[i][1] /\ name # NO_NAME
                              /\ \A h \in 1 .. k : Len(c[h]) = 1 => h = i
      BY <2>2
    <3>2. i \in 1 .. k+1 /\ \A h \in 1 .. k+1 : Len(c[h]) = 1 => h = i
      BY <1>1, <3>1
    <3> QED
      BY <3>1, <3>2 DEF NameRead
  <2> QED
    BY <2>1, <2>2 DEF Read, NameRead
<1>5. \A i \in 1 .. k+1 : /\ c[i][1] \notin {"-m", "-h"}
                          /\ c[i][1] = "-i" => c[i][2] \in Addresses
  BY <1>1 DEF Read
<1> QED
  BY <1>3, <1>4, <1>5 DEF Read

(* A first name is read.                                                   *)
LEMMA ReadName ==
  ASSUME NEW c, NEW k \in Nat, NEW ip, NEW size, NEW name,
         Read(c, k, ip, size, name), name = NO_NAME,
         Len(c[k+1]) = 1, c[k+1][1] \notin {"-h", "-i", "-m"}, c[k+1][1] # NO_NAME
  PROVE  Read(c, k+1, ip, size, c[k+1][1])
<1>1. \A i \in 1 .. k+1 : i \in 1 .. k \/ i = k+1
  OBVIOUS
<1>2. k+1 \in 1 .. k+1
  OBVIOUS
<1>3. \A i \in 1 .. k : Len(c[i]) # 1
  BY DEF Read, NameRead
<1>4. NameRead(c, k+1, c[k+1][1])
  <2>1. \A h \in 1 .. k+1 : Len(c[h]) = 1 => h = k+1
    BY <1>1, <1>3
  <2> QED
    BY <1>2, <2>1 DEF NameRead
<1>5. AddressRead(c, k+1, ip)
  <2>1. CASE ip = DEFAULT_IP /\ \A i \in 1 .. k : c[i][1] # "-i"
    BY <1>1, <2>1 DEF AddressRead
  <2>2. CASE \E i \in 1 .. k : /\ c[i][1] = "-i" /\ ip = c[i][2]
                               /\ \A h \in i+1 .. k : c[h][1] # "-i"
    <3>1. PICK i \in 1 .. k : /\ c[i][1] = "-i" /\ ip = c[i][2]
                              /\ \A h \in i+1 .. k : c[h][1] # "-i"
      BY <2>2
    <3>2. \A h \in i+1 .. k+1 : h \in i+1 .. k \/ h = k+1
      OBVIOUS
    <3>3. i \in 1 .. k+1 /\ \A h \in i+1 .. k+1 : c[h][1] # "-i"
      BY <3>1, <3>2
    <3> QED
      BY <3>1, <3>3 DEF AddressRead
  <2> QED
    BY <2>1, <2>2 DEF Read, AddressRead
<1>6. \A i \in 1 .. k+1 : /\ c[i][1] \notin {"-m", "-h"}
                          /\ c[i][1] = "-i" => c[i][2] \in Addresses
  BY <1>1 DEF Read
<1> QED
  BY <1>4, <1>5, <1>6 DEF Read

(* What a complete command line is, once all of it has been read.          *)
LEMMA ReadAll ==
  ASSUME NEW c \in SeqOf(Options, MaxOptions), Complete(c), NEW ip, NEW size, NEW name,
         Read(c, Len(c), ip, size, name)
  PROVE  /\ Plain(c) /\ size = DEFAULT_SIZE
         /\ ip = LastOf(c, "-i", DEFAULT_IP) /\ name = NameOf(c)
<1>1. Len(c) \in Nat /\ DOMAIN c = 1 .. Len(c)
  BY CommandType
<1>2. /\ \A i \in DOMAIN c : /\ c[i][1] \notin {"-m", "-h"}
                             /\ c[i][1] = "-i" => c[i][2] \in Addresses
      /\ size = DEFAULT_SIZE
  BY <1>1 DEF Read
<1>3. OptionAt(c, "-h") = {} /\ OptionAt(c, "-m") = {}
  <2>1. \A i \in DOMAIN c : c[i][1] # "-h" /\ c[i][1] # "-m"
    <3> TAKE i \in DOMAIN c
    <3>1. c[i][1] \notin {"-m", "-h"}
      BY <1>2
    <3> QED
      BY <3>1
  <2> QED
    BY <2>1, Zenon DEF OptionAt
<1>4. \A i, k \in NameAt(c) : i = k
  <2>1. \A i \in NameAt(c) : i \in 1 .. Len(c) /\ Len(c[i]) = 1
    BY <1>1 DEF NameAt
  <2>2. \/ \A i \in 1 .. Len(c) : Len(c[i]) # 1
        \/ \E i \in 1 .. Len(c) : \A h \in 1 .. Len(c) : Len(c[h]) = 1 => h = i
    BY DEF Read, NameRead
  <2> QED
    BY <2>1, <2>2, Zenon
<1>5. \A i \in OptionAt(c, "-i") : c[i][2] \in Addresses
  BY <1>2 DEF OptionAt
<1>6. Plain(c)
  BY <1>3, <1>4, <1>5 DEF Plain, WellFormed
<1>7. ip = LastOf(c, "-i", DEFAULT_IP)
  <2>1. CASE ip = DEFAULT_IP /\ \A i \in 1 .. Len(c) : c[i][1] # "-i"
    <3>1. OptionAt(c, "-i") = {}
      BY <1>1, <2>1 DEF OptionAt
    <3> QED
      BY <2>1, <3>1 DEF LastOf
  <2>2. CASE \E i \in 1 .. Len(c) : /\ c[i][1] = "-i" /\ ip = c[i][2]
                                    /\ \A h \in i+1 .. Len(c) : c[h][1] # "-i"
    <3>1. PICK i \in 1 .. Len(c) : /\ c[i][1] = "-i" /\ ip = c[i][2]
                                  /\ \A h \in i+1 .. Len(c) : c[h][1] # "-i"
      BY <2>2
    <3> DEFINE T == OptionAt(c, "-i")
    <3>2. T \subseteq Nat /\ i \in T
      BY <1>1, <3>1 DEF OptionAt
    <3>3. \A h \in T : h <= i
      <4> TAKE h \in T
      <4>1. h \in 1 .. Len(c) /\ c[h][1] = "-i"
        BY <1>1 DEF OptionAt
      <4>2. h \notin i+1 .. Len(c)
        BY <3>1, <4>1
      <4> QED
        BY <1>1, <4>1, <4>2
    <3> HIDE DEF T
    <3>4. Max(T) = i /\ T # {}
      BY <3>2, <3>3, MaxIs
    <3> QED
      BY <3>1, <3>4 DEF LastOf, T
  <2> QED
    BY <2>1, <2>2 DEF Read, AddressRead
<1>8. name = NameOf(c)
  <2>1. CASE name = NO_NAME /\ \A i \in 1 .. Len(c) : Len(c[i]) # 1
    <3>1. NameAt(c) = {}
      BY <1>1, <2>1, Zenon DEF NameAt
    <3> QED
      BY <2>1, <3>1 DEF NameOf
  <2>2. CASE \E i \in 1 .. Len(c) : Len(c[i]) = 1 /\ name = c[i][1]
    <3>1. PICK i \in 1 .. Len(c) : Len(c[i]) = 1 /\ name = c[i][1]
      BY <2>2
    <3>2. i \in NameAt(c)
      <4>1. i \in DOMAIN c
        BY <1>1, <3>1
      <4>2. c[i][1] # "-h"
        <5>1. c[i][1] \notin {"-m", "-h"}
          BY <1>2, <4>1
        <5> QED
          BY <5>1
      <4> QED
        BY <3>1, <4>1, <4>2, Zenon DEF NameAt
    <3>3. NameAt(c) = {i}
      BY <1>4, <3>2
    <3>4. (CHOOSE h \in NameAt(c) : TRUE) = i
      BY <3>3
    <3>5. NameAt(c) # {}
      BY <3>2
    <3>6. NameOf(c) = c[CHOOSE h \in NameAt(c) : TRUE][1]
      BY <3>5, Zenon DEF NameOf
    <3> HIDE DEF NameOf
    <3> QED
      BY <3>1, <3>4, <3>6, Zenon
  <2> QED
    BY <2>1, <2>2 DEF Read, NameRead
<1> QED
  BY <1>2, <1>6, <1>7, <1>8

(* Behind a -m the loop looks at its size, and has a name already.         *)
LEMMA Stray ==
  ASSUME NEW c \in SeqOf(Options, MaxOptions), Complete(c), NEW at, NEW name,
         Astray(c, at, name)
  PROVE  /\ at <= Len(FlattenSeq(c)) /\ ~(at > Len(FlattenSeq(c)))
         /\ FlattenSeq(c)[at] \notin {"-h", "-i", "-m"}
         /\ name # NO_NAME /\ ~Plain(c)
<1>1. PICK k \in 0 .. Len(c) - 1 :
        /\ at = Before(c)[k] + 2 /\ name # NO_NAME
        /\ c[k+1][1] = "-m" /\ c[k+1][2] \in DOMAIN SizeOf
  BY DEF Astray
<1>2. Len(c) \in Nat
  BY CommandType
<1>3. k \in 0 .. Len(c) /\ k < Len(c)
  BY <1>1, <1>2
<1>4. /\ Before(c)[k] \in Nat /\ Len(FlattenSeq(c)) \in Nat
      /\ k + 1 \in DOMAIN c /\ Len(c[k+1]) = 2
      /\ Before(c)[k+1] = Before(c)[k] + Len(c[k+1])
      /\ Before(c)[k+1] <= Len(FlattenSeq(c))
      /\ FlattenSeq(c)[Before(c)[k] + 2] = c[k+1][2]
  BY <1>1, <1>3, AtOption
<1>5. k + 1 \in OptionAt(c, "-m")
  BY <1>1, <1>4, Zenon DEF OptionAt
<1>6. ~Plain(c)
  BY <1>5 DEF Plain
<1>7. at <= Len(FlattenSeq(c)) /\ ~(at > Len(FlattenSeq(c)))
  BY <1>1, <1>4
<1>8. c[k+1][2] \notin {"-h", "-i", "-m"}
  BY <1>1, CommandLineAssumption
<1> QED
  BY <1>1, <1>4, <1>6, <1>7, <1>8

(* What every step of the loop keeps.                                      *)
LEMMA ArgsFrame ==
  ASSUME ArgsInv, command' = command
  PROVE  /\ command' \in SeqOf(Options, MaxOptions)
         /\ argv' = argv /\ (Complete(command') <=> Complete(command))
         /\ (Plain(command') <=> Plain(command))
         /\ Plain(command) => Complete(command)
<1>1. Plain(command) => Complete(command)
  BY DEF Plain, WellFormed
<1> QED
  BY <1>1 DEF ArgsInv, argv

LEMMA AddressStep == ArgsInv /\ Address => ArgsInv'
<1> SUFFICES ASSUME ArgsInv, Address
             PROVE  ArgsInv'
  OBVIOUS
<1> DEFINE c == command
<1>1. /\ state = "parse" /\ j <= Len(argv) /\ argv[j] = "-i" /\ j < Len(argv)
      /\ command' = command /\ max_size' = max_size /\ filename' = filename
  BY DEF Address, Arg, HasArgument
<1>2. \/ argv[j+1] \in Addresses /\ ip_addr' = argv[j+1] /\ j' = j + 2 /\ state' = "parse"
      \/ argv[j+1] \notin Addresses /\ ip_addr' = ip_addr /\ j' = j /\ state' = "error"
  BY <1>1, Zenon DEF Address, Skip
<1>3. c \in SeqOf(Options, MaxOptions)
  BY DEF ArgsInv
<1>4. ASSUME Complete(c)
      PROVE  \E k \in 0 .. Len(c) :
               /\ k < Len(c) /\ j = Before(c)[k] + 1
               /\ Read(c, k, ip_addr, max_size, filename)
               /\ Before(c)[k] \in Nat /\ Before(c)[k+1] = Before(c)[k] + 2
               /\ k + 1 \in 0 .. Len(c) /\ k + 1 \in DOMAIN c
               /\ c[k+1][1] = "-i" /\ Len(c[k+1]) = 2 /\ argv[j+1] = c[k+1][2]
  <2>1. InFront(c, j, ip_addr, max_size, filename) \/ Astray(c, j, filename)
    BY <1>1, <1>4 DEF ArgsInv
  <2>2. ~Astray(c, j, filename)
    BY <1>1, <1>3, <1>4, Stray DEF argv
  <2>3. PICK k \in 0 .. Len(c) : j = Before(c)[k] + 1
                                 /\ Read(c, k, ip_addr, max_size, filename)
    BY <2>1, <2>2 DEF InFront
  <2>4. Len(c) \in Nat /\ Before(c)[k] \in Nat /\ Len(argv) \in Nat
        /\ (k = Len(c) <=> Before(c)[k] + 1 > Len(argv))
    BY <1>3, <1>4, AtOption DEF argv
  <2>5. k < Len(c)
    BY <1>1, <2>3, <2>4
  <2>6. /\ k + 1 \in 1 .. Len(c) /\ k + 1 \in DOMAIN c
        /\ Len(c[k+1]) = 2 <=> c[k+1][1] \in {"-i", "-m"}
        /\ Before(c)[k+1] = Before(c)[k] + Len(c[k+1])
        /\ argv[Before(c)[k] + 1] = c[k+1][1]
        /\ Len(c[k+1]) = 2 => argv[Before(c)[k] + 2] = c[k+1][2]
    BY <1>3, <1>4, <2>5, AtOption DEF argv
  <2>7. c[k+1][1] = "-i" /\ Len(c[k+1]) = 2
    BY <1>1, <2>3, <2>6
  <2>8. j + 1 = Before(c)[k] + 2
    BY <2>3, <2>4
  <2> QED
    BY <2>3, <2>4, <2>5, <2>6, <2>7, <2>8
<1>5. ASSUME Complete(c), state' = "parse"
      PROVE  InFront(c, j', ip_addr', max_size', filename')
  <2>1. PICK k \in 0 .. Len(c) :
          /\ k < Len(c) /\ j = Before(c)[k] + 1
          /\ Read(c, k, ip_addr, max_size, filename)
          /\ Before(c)[k] \in Nat /\ Before(c)[k+1] = Before(c)[k] + 2
          /\ k + 1 \in 0 .. Len(c)
          /\ c[k+1][1] = "-i" /\ Len(c[k+1]) = 2 /\ argv[j+1] = c[k+1][2]
    BY <1>4, <1>5
  <2>2. argv[j+1] \in Addresses /\ ip_addr' = c[k+1][2] /\ j' = j + 2
    BY <1>2, <1>5, <2>1
  <2>3. k \in Nat
    BY <2>1
  <2>4. Read(c, k+1, ip_addr', max_size', filename')
    BY <1>1, <2>1, <2>2, <2>3, ReadAddress
  <2>5. j' = Before(c)[k+1] + 1
    BY <2>1, <2>2
  <2> QED
    BY <2>1, <2>4, <2>5 DEF InFront
<1>6. ASSUME Plain(c)
      PROVE  state' # "error"
  <2>1. Complete(c) /\ \A i \in OptionAt(c, "-i") : c[i][2] \in Addresses
    BY <1>6 DEF Plain, WellFormed
  <2>2. PICK k \in 0 .. Len(c) :
          k + 1 \in DOMAIN c /\ c[k+1][1] = "-i" /\ argv[j+1] = c[k+1][2]
    BY <1>4, <2>1
  <2>3. k + 1 \in OptionAt(c, "-i")
    BY <2>2, Zenon DEF OptionAt
  <2>4. argv[j+1] \in Addresses
    BY <2>1, <2>2, <2>3
  <2> QED
    BY <1>2, <2>4
<1>7. state' \in States /\ state' \notin {"start", "waiting", "serving"}
  BY <1>2 DEF States
<1> QED
  BY <1>1, <1>3, <1>5, <1>6, <1>7, ArgsFrame DEF ArgsInv

LEMMA NameStep == ArgsInv /\ Name => ArgsInv'
<1> SUFFICES ASSUME ArgsInv, Name
             PROVE  ArgsInv'
  OBVIOUS
<1> DEFINE c == command
<1>1. /\ state = "parse" /\ command' = command /\ max_size' = max_size
      /\ ip_addr' = ip_addr
  BY DEF Name
<1>2. \/ filename # NO_NAME /\ state' = "error" /\ j' = j /\ filename' = filename
      \/ filename = NO_NAME /\ state' = "parse" /\ j' = j + 1 /\ filename' = argv[j]
  BY <1>1, Zenon DEF Name, TakeName
<1>3. c \in SeqOf(Options, MaxOptions)
  BY DEF ArgsInv
<1>4. ASSUME Complete(c), NEW k \in 0 .. Len(c), j = Before(c)[k] + 1
      PROVE  /\ k < Len(c) /\ Before(c)[k] \in Nat
             /\ Before(c)[k+1] = Before(c)[k] + 1
             /\ k + 1 \in 0 .. Len(c) /\ k + 1 \in DOMAIN c /\ Len(c[k+1]) = 1
             /\ c[k+1][1] \notin {"-h", "-i", "-m"} /\ c[k+1][1] # NO_NAME
             /\ argv[j] = c[k+1][1]
  <2>1. Len(c) \in Nat /\ Before(c)[k] \in Nat /\ Len(argv) \in Nat
        /\ (k = Len(c) <=> Before(c)[k] + 1 > Len(argv))
    BY <1>3, <1>4, AtOption DEF argv
  <2>2. j \in DOMAIN argv \/ (j <= Len(argv) /\ argv[j] \in {"-i", "-m"} /\ ~(j < Len(argv)))
    BY DEF Name, Arg, HasArgument
  <2>3. argv \in Seq(Arguments)
    BY <1>3, CommandType, FlattenAt DEF argv
  <2>4. j <= Len(argv)
    BY <2>2, <2>3
  <2>5. k < Len(c)
    BY <1>4, <2>1, <2>4
  <2>6. /\ k + 1 \in 1 .. Len(c) /\ k + 1 \in DOMAIN c /\ Len(c[k+1]) \in {1, 2}
        /\ Len(c[k+1]) = 2 <=> c[k+1][1] \in {"-i", "-m"}
        /\ Before(c)[k+1] = Before(c)[k] + Len(c[k+1])
        /\ Before(c)[k+1] <= Len(argv)
        /\ argv[Before(c)[k] + 1] = c[k+1][1] /\ c[k+1][1] # NO_NAME
    BY <1>3, <1>4, <2>5, AtOption DEF argv
  <2>7. c[k+1][1] \in {"-i", "-m"} => j < Len(argv)
    <3>1. SUFFICES ASSUME Len(c[k+1]) = 2
                   PROVE  j < Len(argv)
      BY <2>6
    <3>2. Before(c)[k] + 2 <= Len(argv)
      BY <2>6, <3>1
    <3> QED
      BY <1>4, <2>1, <3>2
  <2>8. c[k+1][1] \notin {"-h", "-i", "-m"}
    BY <1>4, <2>6, <2>7, Zenon DEF Name, Arg, HasArgument
  <2>9. Len(c[k+1]) = 1
    BY <2>6, <2>8
  <2> QED
    BY <1>4, <2>1, <2>5, <2>6, <2>8, <2>9
<1>5. ASSUME Complete(c), state' = "parse"
      PROVE  InFront(c, j', ip_addr', max_size', filename')
  <2>1. InFront(c, j, ip_addr, max_size, filename) \/ Astray(c, j, filename)
    BY <1>1, <1>5 DEF ArgsInv
  <2>2. filename = NO_NAME /\ j' = j + 1 /\ filename' = argv[j]
    BY <1>2, <1>5
  <2>3. ~Astray(c, j, filename)
    BY <2>2 DEF Astray
  <2>4. PICK k \in 0 .. Len(c) : j = Before(c)[k] + 1
                                 /\ Read(c, k, ip_addr, max_size, filename)
    BY <2>1, <2>3 DEF InFront
  <2>5. /\ k \in Nat /\ k < Len(c) /\ Before(c)[k] \in Nat
        /\ Before(c)[k+1] = Before(c)[k] + 1
        /\ k + 1 \in 0 .. Len(c) /\ Len(c[k+1]) = 1
        /\ c[k+1][1] \notin {"-h", "-i", "-m"} /\ c[k+1][1] # NO_NAME
        /\ argv[j] = c[k+1][1]
    BY <1>4, <1>5, <2>4
  <2>6. Read(c, k+1, ip_addr', max_size', filename')
    BY <1>1, <2>2, <2>4, <2>5, ReadName
  <2>7. j' = Before(c)[k+1] + 1
    BY <2>2, <2>4, <2>5
  <2> QED
    BY <2>5, <2>6, <2>7 DEF InFront
<1>6. ASSUME Plain(c)
      PROVE  state' # "error"
  <2>1. Complete(c) /\ \A h, i \in NameAt(c) : h = i
    BY <1>6 DEF Plain, WellFormed
  <2>2. InFront(c, j, ip_addr, max_size, filename)
    BY <1>1, <1>3, <1>6, <2>1, Stray DEF ArgsInv
  <2>3. PICK k \in 0 .. Len(c) : j = Before(c)[k] + 1
                                 /\ Read(c, k, ip_addr, max_size, filename)
    BY <2>2 DEF InFront
  <2>4. /\ k < Len(c) /\ k + 1 \in DOMAIN c /\ Len(c[k+1]) = 1
        /\ c[k+1][1] \notin {"-h", "-i", "-m"}
    BY <1>4, <2>1, <2>3
  <2>5. k + 1 \in NameAt(c)
    BY <2>4, Zenon DEF NameAt
  <2>6. ASSUME NEW i \in 1 .. k, Len(c[i]) = 1
        PROVE  FALSE
    <3>1. c[i][1] \notin {"-m", "-h"}
      BY <2>3, <2>6 DEF Read
    <3>2. i \in DOMAIN c
      BY <1>3, <2>3, CommandType
    <3>3. i \in NameAt(c)
      BY <2>6, <3>1, <3>2, Zenon DEF NameAt
    <3>4. i = k + 1
      BY <2>1, <2>5, <3>3
    <3> QED
      BY <2>3, <3>4
  <2>7. filename = NO_NAME
    BY <2>3, <2>6 DEF Read, NameRead
  <2> QED
    BY <1>2, <2>7
<1>7. state' \in States /\ state' \notin {"start", "waiting", "serving"}
  BY <1>2 DEF States
<1> QED
  BY <1>1, <1>3, <1>5, <1>6, <1>7, ArgsFrame DEF ArgsInv

LEMMA SizeOptionStep == ArgsInv /\ SizeOption => ArgsInv'
<1> SUFFICES ASSUME ArgsInv, SizeOption
             PROVE  ArgsInv'
  OBVIOUS
<1> DEFINE c == command
<1>1. /\ state = "parse" /\ j <= Len(argv) /\ argv[j] = "-m" /\ j < Len(argv)
      /\ command' = command /\ ip_addr' = ip_addr
  BY DEF SizeOption, Arg, HasArgument
<1>2. \/ state' = "error"
      \/ /\ state' = "parse" /\ j' = j + 1 /\ filename' = argv[j]
         /\ argv[j+1] \in DOMAIN SizeOf
  BY <1>1, Zenon DEF SizeOption, TakeName
<1>3. c \in SeqOf(Options, MaxOptions)
  BY DEF ArgsInv
<1>4. ASSUME Complete(c)
      PROVE  \E k \in 0 .. Len(c) - 1 :
               /\ j = Before(c)[k] + 1 /\ Before(c)[k] \in Nat
               /\ c[k+1][1] = "-m" /\ "-m" # NO_NAME /\ argv[j+1] = c[k+1][2]
               /\ k + 1 \in OptionAt(c, "-m")
  <2>1. InFront(c, j, ip_addr, max_size, filename) \/ Astray(c, j, filename)
    BY <1>1, <1>4 DEF ArgsInv
  <2>2. ~Astray(c, j, filename)
    BY <1>1, <1>3, <1>4, Stray DEF argv
  <2>3. PICK k \in 0 .. Len(c) : j = Before(c)[k] + 1
                                 /\ Read(c, k, ip_addr, max_size, filename)
    BY <2>1, <2>2 DEF InFront
  <2>4. Len(c) \in Nat /\ Before(c)[k] \in Nat /\ Len(argv) \in Nat
        /\ (k = Len(c) <=> Before(c)[k] + 1 > Len(argv))
    BY <1>3, <1>4, AtOption DEF argv
  <2>5. k < Len(c)
    BY <1>1, <2>3, <2>4
  <2>6. /\ k + 1 \in 1 .. Len(c) /\ k + 1 \in DOMAIN c
        /\ Len(c[k+1]) = 2 <=> c[k+1][1] \in {"-i", "-m"}
        /\ argv[Before(c)[k] + 1] = c[k+1][1] /\ c[k+1][1] # NO_NAME
        /\ Len(c[k+1]) = 2 => argv[Before(c)[k] + 2] = c[k+1][2]
    BY <1>3, <1>4, <2>5, AtOption DEF argv
  <2>7. c[k+1][1] = "-m" /\ Len(c[k+1]) = 2
    BY <1>1, <2>3, <2>6
  <2>8. j + 1 = Before(c)[k] + 2 /\ k \in 0 .. Len(c) - 1
    BY <2>3, <2>4, <2>5
  <2>9. k + 1 \in OptionAt(c, "-m")
    BY <2>6, <2>7, Zenon DEF OptionAt
  <2> QED
    BY <2>3, <2>4, <2>6, <2>7, <2>8, <2>9
<1>5. ASSUME Complete(c), state' = "parse"
      PROVE  Astray(c, j', filename')
  <2>1. PICK k \in 0 .. Len(c) - 1 :
          /\ j = Before(c)[k] + 1 /\ Before(c)[k] \in Nat
          /\ c[k+1][1] = "-m" /\ "-m" # NO_NAME /\ argv[j+1] = c[k+1][2]
    BY <1>4, <1>5
  <2>2. j' = j + 1 /\ filename' = "-m" /\ argv[j+1] \in DOMAIN SizeOf
    BY <1>1, <1>2, <1>5
  <2>3. j' = Before(c)[k] + 2
    BY <2>1, <2>2
  <2>4. c[k+1][2] \in DOMAIN SizeOf /\ filename' # NO_NAME
    BY <2>1, <2>2
  <2> QED
    BY <2>1, <2>3, <2>4 DEF Astray
<1>6. ~Plain(c)
  <2> SUFFICES ASSUME Plain(c)
               PROVE  FALSE
    OBVIOUS
  <2>1. Complete(c) /\ OptionAt(c, "-m") = {}
    BY DEF Plain, WellFormed
  <2> QED
    BY <1>4, <2>1
<1>7. state' \in States /\ state' \notin {"start", "waiting", "serving"}
  BY <1>2 DEF States
<1> QED
  BY <1>1, <1>3, <1>5, <1>6, <1>7, ArgsFrame DEF ArgsInv

LEMMA EndOfArgumentsStep == ArgsInv /\ EndOfArguments => ArgsInv'
<1> SUFFICES ASSUME ArgsInv, EndOfArguments
             PROVE  ArgsInv'
  OBVIOUS
<1> DEFINE c == command
<1>1. /\ state = "parse" /\ j > Len(argv) /\ state' = "start"
      /\ command' = command /\ j' = j
      /\ ip_addr' = ip_addr /\ max_size' = max_size /\ filename' = filename
  BY DEF EndOfArguments, settings
<1>2. c \in SeqOf(Options, MaxOptions)
  BY DEF ArgsInv
<1>3. ASSUME Complete(c)
      PROVE  Read(c, Len(c), ip_addr, max_size, filename)
  <2>1. InFront(c, j, ip_addr, max_size, filename)
    BY <1>1, <1>2, <1>3, Stray DEF ArgsInv, argv
  <2>2. PICK k \in 0 .. Len(c) : j = Before(c)[k] + 1
                                 /\ Read(c, k, ip_addr, max_size, filename)
    BY <2>1 DEF InFront
  <2>3. k = Len(c)
    BY <1>1, <1>2, <1>3, <2>2, AtOption DEF argv
  <2> QED
    BY <2>2, <2>3
<1> QED
  BY <1>1, <1>2, <1>3, ArgsFrame DEF ArgsInv, States

LEMMA StartStep == ArgsInv /\ Start => ArgsInv'
<1> SUFFICES ASSUME ArgsInv, Start
             PROVE  ArgsInv'
  OBVIOUS
<1>1. /\ state = "start" /\ state' \in {"error", "waiting", "serving"}
      /\ command' = command /\ j' = j
      /\ ip_addr' = ip_addr /\ max_size' = max_size /\ filename' = filename
  BY DEF Start, settings
<1> QED
  BY <1>1, ArgsFrame DEF ArgsInv, States

LEMMA HelpStep == ArgsInv /\ Help => ArgsInv'
<1> SUFFICES ASSUME ArgsInv, Help
             PROVE  ArgsInv'
  OBVIOUS
<1>1. state' = "help" /\ command' = command
  BY DEF Help
<1> QED
  BY <1>1, ArgsFrame DEF ArgsInv, States

LEMMA ArgsPreserved == ArgsInv /\ ArgsNext => ArgsInv'
BY AddressStep, NameStep, SizeOptionStep, EndOfArgumentsStep, StartStep, HelpStep
   DEF ArgsNext

LEMMA ArgsStutter == ArgsInv /\ UNCHANGED argsVars => ArgsInv'
<1> SUFFICES ASSUME ArgsInv, UNCHANGED argsVars
             PROVE  ArgsInv'
  OBVIOUS
<1>1. /\ command' = command /\ j' = j /\ ip_addr' = ip_addr
      /\ max_size' = max_size /\ filename' = filename /\ state' = state
  BY DEF argsVars
<1> QED
  BY <1>1, ArgsFrame DEF ArgsInv

LEMMA ArgsInvMeans == ArgsInv => UsageHolds
<1> SUFFICES ASSUME ArgsInv
             PROVE  UsageHolds
  OBVIOUS
<1>1. ASSUME Complete(command), state \in {"start", "waiting", "serving"}
      PROVE  /\ Plain(command) /\ ip_addr = LastOf(command, "-i", DEFAULT_IP)
             /\ filename = NameOf(command)
  BY <1>1, ReadAll DEF ArgsInv
<1>2. Plain(command) => WellFormed(command) /\ OptionAt(command, "-m") = {}
  BY DEF Plain
<1>3. WellFormed(command) /\ OptionAt(command, "-m") = {} => Plain(command)
  BY DEF Plain
<1> QED
  BY <1>1, <1>2, <1>3, Zenon DEF UsageHolds, ArgsInv

LEMMA ArgsInvariant == Spec => []ArgsInv
<1>1. Init => ArgsInv
  BY ArgsInitially DEF Init
<1>2. ArgsInv /\ [Next]_<<argsVars, textVars>> => ArgsInv'
  <2> SUFFICES ASSUME ArgsInv, [Next]_<<argsVars, textVars>>
               PROVE  ArgsInv'
    OBVIOUS
  <2>1. ArgsNext \/ UNCHANGED argsVars
    BY DEF Next
  <2> QED
    BY <2>1, ArgsPreserved, ArgsStutter
<1> QED
  BY <1>1, <1>2, PTL DEF Spec

(* The loop of main over argv reads every command line of the usage text   *)
(* as it says, whatever the number and order of its options.               *)
THEOREM UsageIsAsDocumented == Spec => []UsageHolds
BY ArgsInvariant, ArgsInvMeans, PTL

(***************************************************************************)
(* The buffers of main and parse_http_content as copies of the text.       *)
(***************************************************************************)
LEMMA BytesDiffer ==
  /\ LF # CR /\ NUL \notin LineEnds
  /\ \A byte \in {SPACE, SLASH, QUOTE, SEMI, GET, POST, CONTENT_LENGTH, CONTENT_TYPE,
                  BOUNDARY, DISPOSITION, FILENAME_IS} : byte \notin LineEnds \cup {NUL}
  /\ GET # POST /\ SLASH # SPACE /\ SEMI # QUOTE
  /\ \A byte \in LineEnds \cup {NUL} : byte \notin Nat
<1>1. /\ Bytes[1] = CR /\ Bytes[2] = LF /\ Bytes[3] = NUL /\ Bytes[4] = SPACE
      /\ Bytes[5] = SLASH /\ Bytes[6] = QUOTE /\ Bytes[7] = SEMI /\ Bytes[8] = GET
      /\ Bytes[9] = POST /\ Bytes[10] = CONTENT_LENGTH /\ Bytes[11] = CONTENT_TYPE
      /\ Bytes[12] = BOUNDARY /\ Bytes[13] = DISPOSITION /\ Bytes[14] = FILENAME_IS
  BY DEF Bytes
<1>2. /\ LF # CR /\ NUL # LF /\ NUL # CR /\ GET # POST /\ SLASH # SPACE /\ SEMI # QUOTE
  BY <1>1, BytesAssumption
<1>3. /\ CR \notin Nat /\ LF \notin Nat /\ NUL \notin Nat
  BY <1>1, BytesAssumption
<1>4. \A k \in 4 .. 14 : Bytes[k] # CR /\ Bytes[k] # LF /\ Bytes[k] # NUL
  BY <1>1, BytesAssumption
<1>5. \A byte \in {SPACE, SLASH, QUOTE, SEMI, GET, POST, CONTENT_LENGTH, CONTENT_TYPE,
                   BOUNDARY, DISPOSITION, FILENAME_IS} : byte # CR /\ byte # LF /\ byte # NUL
  BY <1>1, <1>4
<1> QED
  BY <1>2, <1>3, <1>5 DEF LineEnds

(* n bytes of the text, with zeros for the line ends of the first h.       *)
Copy(text, from, n, h) ==
  [i \in 0 .. n-1 |-> IF i < h /\ text[from+i] \in LineEnds THEN NUL ELSE text[from+i]]

LEMMA SizeIs ==
  ASSUME NEW F, NEW n \in Nat, DOMAIN F = 0 .. n-1
  PROVE  Size(F) = n
<1>1. Cardinality(0 .. n-1) = IF 0 > n-1 THEN 0 ELSE n-1-0+1
  BY FS_Interval
<1> QED
  BY <1>1 DEF Size

LEMMA CopySize ==
  ASSUME NEW text, NEW from \in Nat, NEW n \in Nat, NEW h \in Int
  PROVE  DOMAIN Copy(text, from, n, h) = 0 .. n-1 /\ Size(Copy(text, from, n, h)) = n
<1>1. DOMAIN Copy(text, from, n, h) = 0 .. n-1
  BY DEF Copy
<1> QED
  BY <1>1, SizeIs

LEMMA SplitIs ==
  ASSUME NEW text, NEW from \in Nat, NEW n \in Nat, NEW h \in Int, h <= 0, NEW len \in Int
  PROVE  split_header(Copy(text, from, n, h), len) = Copy(text, from, n, len)
BY DEF split_header, Copy, LineEnds

LEMMA PartIs ==
  ASSUME NEW text, NEW from \in Nat, NEW n \in Nat, NEW h \in Int,
         NEW a \in Nat, NEW b \in Nat, h <= a, a <= b, b <= n
  PROVE  Part(Copy(text, from, n, h), a, b) = Copy(text, from + a, b - a, 0)
<1> DEFINE F == Copy(text, from, n, h)
<1>0. \A i \in 0 .. n-1 :
        /\ i >= h => F[i] = text[from+i]
        /\ text[from+i] \notin LineEnds => F[i] = text[from+i]
        /\ i < h /\ text[from+i] \in LineEnds => F[i] = NUL
  BY DEF Copy
<1> HIDE DEF F
<1>1. \A i \in 0 .. b-a-1 : F[a+i] = text[from+a+i]
  <2> TAKE i \in 0 .. b-a-1
  <2>1. a + i \in 0 .. n-1 /\ a + i >= h
    OBVIOUS
  <2> QED
    BY <1>0, <2>1
<1>2. Part(F, a, b) = [i \in 0 .. b-a-1 |-> F[a+i]]
  BY DEF Part
<1>3. Copy(text, from + a, b - a, 0) = [i \in 0 .. b-a-1 |-> text[from+a+i]]
  BY DEF Copy
<1>4. from + a \in Nat /\ b - a \in Nat
  OBVIOUS
<1> QED
  BY <1>1, <1>2, <1>3, <1>4 DEF F

LEMMA FirstIs ==
  ASSUME NEW S, S \subseteq Nat, NEW k \in S, \A i \in S : k <= i
  PROVE  First(S) = k
BY MinIs DEF First

Sums(c, a, b) == c = a + b

(***************************************************************************)
(* The strings and the fields of a header.                                 *)
(***************************************************************************)
(* The bytes of the text at from .. to, not counting to.                   *)
NoNul(text, from, to)  == \A i \in from .. to-1 : text[i] # NUL
InLine(text, from, to) == \A i \in from .. to-1 : text[i] \notin LineEnds \cup {NUL}

(* The end of a line of the header, and what Find returns for a parameter  *)
(* of it.                                                                  *)
LEMMA StringEndIs ==
  ASSUME NEW text, NEW from \in Nat, NEW n \in Nat, NEW h \in 0 .. n, NEW at \in 0 .. h-1,
         NEW a \in Nat, Sums(a, from, at), NEW to \in Nat, Sums(to, from, h),
         NEW e \in a .. to-1, InLine(text, a, e), text[e] \in LineEnds
  PROVE  StringEnd(Copy(text, from, n, h), at) = e - from
<1> DEFINE stop == e - from
<1>a. /\ stop \in at .. h-1 /\ from + stop = e
      /\ \A i \in at .. stop-1 : text[from+i] \notin LineEnds \cup {NUL}
      /\ text[from+stop] \in LineEnds
  <2>1. stop \in at .. h-1 /\ from + stop = e
    BY DEF Sums
  <2>2. \A i \in at .. stop-1 : from + i \in a .. e-1
    BY DEF Sums
  <2> QED
    BY <2>1, <2>2 DEF InLine
<1> HIDE DEF stop
<1> DEFINE F == Copy(text, from, n, h)
           T == {i \in at .. Size(F) - 1 : F[i] = NUL} \cup {Size(F)}
<1>0. \A i \in 0 .. n-1 :
        /\ i >= h => F[i] = text[from+i]
        /\ text[from+i] \notin LineEnds => F[i] = text[from+i]
        /\ i < h /\ text[from+i] \in LineEnds => F[i] = NUL
  BY DEF Copy
<1>1. Size(F) = n
  BY CopySize
<1> HIDE DEF F
<1>2. stop \in T
  BY <1>a, <1>0, <1>1
<1>3. \A i \in at .. stop-1 : F[i] # NUL
  <2> TAKE i \in at .. stop-1
  <2>1. i \in 0 .. n-1 /\ text[from+i] \notin LineEnds \cup {NUL}
    BY <1>a
  <2> QED
    BY <1>0, <2>1
<1>4. T \subseteq Nat /\ \A i \in T : i >= stop
  BY <1>a, <1>1, <1>3
<1>5. Min(T) = stop
  <2> HIDE DEF T
  <2> QED
    BY <1>2, <1>4, MinIs
<1> QED
  BY <1>5 DEF StringEnd, F, stop

LEMMA FindIs ==
  ASSUME NEW text, NEW from \in Nat, NEW n \in Nat, NEW h \in 0 .. n, NEW at \in 0 .. h-1,
         NEW keyword, keyword \notin LineEnds \cup {NUL}, 
         NEW a \in Nat, Sums(a, from, at), NEW to \in Nat, Sums(to, from, h),
         NoNul(text, from, to), NEW p \in a .. to-1, ParameterAt(text, a, keyword, p)
  PROVE  Find(Copy(text, from, n, h), at, keyword) = p - from
<1> DEFINE k == p - from
<1>a. /\ k \in at .. h-1 /\ from + k = p
      /\ \A i \in at .. h-1 : text[from+i] # NUL
      /\ ParameterAt(text, from + at, keyword, from + k)
  <2>1. k \in at .. h-1 /\ from + k = p
    BY DEF Sums
  <2>2. \A i \in at .. h-1 : from + i \in from .. to-1
    BY DEF Sums
  <2> QED
    BY <2>1, <2>2 DEF NoNul, Sums
<1> HIDE DEF k
<1> DEFINE F == Copy(text, from, n, h)
           E == StringEnd(F, at)
           T == {i \in at .. Size(F) - 1 : F[i] = NUL} \cup {Size(F)}
           S == {i \in at .. E - 1 : F[i] = keyword}
<1>0. \A i \in 0 .. n-1 :
        /\ i >= h => F[i] = text[from+i]
        /\ text[from+i] \notin LineEnds => F[i] = text[from+i]
        /\ i < h /\ text[from+i] \in LineEnds => F[i] = NUL
  BY DEF Copy
<1>1. Size(F) = n
  BY CopySize
<1> HIDE DEF F
<1>2. \A i \in at .. k-1 : text[from+i] \notin LineEnds \cup {keyword, NUL}
  <2> TAKE i \in at .. k-1
  <2>1. from + i \in from + at .. from + k - 1
    BY <1>a
  <2> QED
    BY <1>a, <2>1 DEF ParameterAt
<1>3. F[k] = keyword /\ \A i \in at .. k-1 : F[i] # keyword /\ F[i] # NUL
  BY <1>a, <1>0, <1>2 DEF ParameterAt
<1>4. E \in Nat /\ E > k
  <2>1. T \subseteq Nat /\ \A i \in T : i > k
    BY <1>a, <1>1, <1>3
  <2>2. n \in T
    BY <1>1
  <2>3. Min(T) \in T
    <3> HIDE DEF T
    <3> QED
      BY <2>1, <2>2, MinOf
  <2>4. E = Min(T)
    BY DEF StringEnd
  <2> QED
    BY <2>1, <2>3, <2>4
<1> HIDE DEF E
<1>5. S \subseteq Nat /\ k \in S /\ \A i \in S : k <= i
  BY <1>a, <1>3, <1>4
<1>6. First(S) = k
  <2> HIDE DEF S
  <2> QED
    BY <1>5, FirstIs
<1> QED
  BY <1>6 DEF Find, E, F, k

(* header_value finds the line that begins with the keyword.               *)
LEMMA HeaderValueIs ==
  ASSUME NEW text, NEW from \in Nat, NEW n \in Nat, NEW h \in 0 .. n,
         NEW keyword, keyword \notin LineEnds \cup {NUL}, 
         NEW to \in Nat, Sums(to, from, h), NEW last \in Nat, Sums(to, last, 1),
         NoNul(text, from, to), NEW p \in from .. last-1,
         FieldAt(text, from, last, keyword, p)
  PROVE  header_value(Copy(text, from, n, h), h, keyword) = p - from + 1
<1> DEFINE k == p - from
<1>a. /\ k \in 0 .. h-2 /\ from + k = p /\ p - from + 1 = k + 1
      /\ \A i \in 0 .. h-1 : text[from+i] # NUL
      /\ FieldAt(text, from, from + h - 1, keyword, from + k)
  <2>1. /\ k \in 0 .. h-2 /\ from + k = p /\ p - from + 1 = k + 1
        /\ last = from + h - 1
    BY DEF Sums
  <2>2. \A i \in 0 .. h-1 : from + i \in from .. to-1
    BY DEF Sums
  <2> QED
    BY <2>1, <2>2 DEF NoNul, Sums
<1> HIDE DEF k
<1> DEFINE F == Copy(text, from, n, h)
           S == {i \in 0 .. h-2 : (i = 0 \/ F[i-1] = NUL) /\ F[i] = keyword}
<1>0. \A i \in 0 .. n-1 :
        /\ i >= h => F[i] = text[from+i]
        /\ text[from+i] \notin LineEnds => F[i] = text[from+i]
        /\ i < h /\ text[from+i] \in LineEnds => F[i] = NUL
  BY DEF Copy
<1> HIDE DEF F
<1>1. \A i \in 0 .. h-1 : F[i] = keyword <=> text[from+i] = keyword
  BY <1>a, <1>0
<1>2. \A i \in 0 .. h-1 : F[i] = NUL <=> text[from+i] \in LineEnds
  BY <1>a, <1>0
<1> DEFINE T == {i \in from .. from+h-2 :
                   text[i] = keyword /\ (i = from \/ text[i-1] \in LineEnds)}
<1>3. T = {from + k}
  BY <1>a DEF FieldAt
<1>4. \A i \in 0 .. h-2 : i \in S <=> from + i \in T
  <2> TAKE i \in 0 .. h-2
  <2>1. i # 0 => (F[i-1] = NUL <=> text[from+i-1] \in LineEnds)
    BY <1>2
  <2> QED
    BY <1>1, <2>1
<1>5. S \subseteq 0 .. h-2
  OBVIOUS
<1> HIDE DEF S, T
<1>6. S \subseteq Nat /\ k \in S /\ \A i \in S : k <= i
  BY <1>a, <1>3, <1>4, <1>5
<1>7. First(S) = k
  BY <1>6, FirstIs
<1>8. k # -1
  BY <1>a
<1> QED
  BY <1>a, <1>7, <1>8 DEF header_value, S, F

(***************************************************************************)
(* The end of a header.                                                    *)
(***************************************************************************)
(* The empty lines header_scan sees are those of the text.                 *)
LEMMA EmptyLineEnds ==
  ASSUME NEW text, NEW from \in Nat, NEW n \in Nat, NEW len \in 0 .. n,
         NEW i \in 0 .. len-1, EmptyLine(Copy(text, from, n, 0), len, i)
  PROVE  \/ i + 1 <= len - 1 /\ EndsEmptyLine(text, from, from + i + 1)
         \/ i + 2 <= len - 1 /\ text[from+i+1] = CR /\ EndsEmptyLine(text, from, from + i + 2)
<1> DEFINE F == Copy(text, from, n, 0)
<1>0. \A k \in 0 .. n-1 : F[k] = text[from+k]
  BY DEF Copy
<1> HIDE DEF F
<1>1. /\ F[i] = LF
      /\ \/ i < len - 1 /\ F[i+1] = LF
         \/ i < len - 2 /\ F[i+1] = CR /\ F[i+2] = LF
  BY DEF EmptyLine, F
<1>2. F[i] = text[from+i]
  BY <1>0
<1>3. CASE i < len - 1 /\ F[i+1] = LF
  <2>1. i + 1 \in 0 .. n-1
    BY <1>3
  <2>2. text[from + (i+1)] = LF
    BY <1>0, <1>3, <2>1
  <2> QED
    BY <1>1, <1>2, <1>3, <2>2 DEF EndsEmptyLine
<1>4. CASE i < len - 2 /\ F[i+1] = CR /\ F[i+2] = LF
  <2>1. i + 1 \in 0 .. n-1 /\ i + 2 \in 0 .. n-1
    BY <1>4
  <2>2. text[from + (i+1)] = CR /\ text[from + (i+2)] = LF
    BY <1>0, <1>4, <2>1
  <2> QED
    BY <1>1, <1>2, <1>4, <2>2 DEF EndsEmptyLine
<1> QED
  BY <1>1, <1>3, <1>4

LEMMA ScanNone ==
  ASSUME NEW text, NEW from \in Nat, NEW n \in Nat,
         \A k \in from .. from + n - 1 : ~EndsEmptyLine(text, from, k)
  PROVE  header_scan(Copy(text, from, n, 0)) = -1
<1> DEFINE F   == Copy(text, from, n, 0)
           len == IF Size(F) > SCAN_LIMIT THEN SCAN_LIMIT ELSE Size(F)
           S   == {k \in 0 .. len-1 : EmptyLine(F, len, k)}
<1>1. len \in 0 .. n
  BY CopySize, RequestsAssumption
<1>2. ASSUME NEW i \in S
      PROVE  FALSE
  <2>1. i \in 0 .. len-1 /\ EmptyLine(F, len, i)
    BY <1>2
  <2> HIDE DEF len
  <2>2. \/ i + 1 <= len - 1 /\ EndsEmptyLine(text, from, from + i + 1)
        \/ i + 2 <= len - 1 /\ EndsEmptyLine(text, from, from + i + 2)
    BY <1>1, <2>1, EmptyLineEnds
  <2>3. /\ i + 1 <= len - 1 => from + i + 1 \in from .. from + n - 1
        /\ i + 2 <= len - 1 => from + i + 2 \in from .. from + n - 1
    BY <1>1, <2>1
  <2> QED
    BY <2>2, <2>3
<1>3. First(S) = -1
  BY <1>2 DEF First
<1> QED
  BY <1>3 DEF header_scan

LEMMA ScanFinds ==
  ASSUME NEW text, NEW from \in Nat, NEW n \in Nat, NEW k \in from .. from + n - 1,
         HeaderEnds(text, from, k), k < from + SCAN_LIMIT
  PROVE  header_scan(Copy(text, from, n, 0)) = k - from + 1
<1> DEFINE F   == Copy(text, from, n, 0)
           len == IF Size(F) > SCAN_LIMIT THEN SCAN_LIMIT ELSE Size(F)
           S   == {i \in 0 .. len-1 : EmptyLine(F, len, i)}
           h   == k - from + 1
           top == IF text[k-1] = LF /\ k - 1 >= from THEN h - 2 ELSE h - 3
<1>0. \A i \in 0 .. n-1 : F[i] = text[from+i]
  BY DEF Copy
<1>1. len \in 0 .. n /\ h \in 1 .. len /\ SCAN_LIMIT \in Nat
  BY CopySize, RequestsAssumption
<1> HIDE DEF F
<1>2. /\ text[k] = LF
      /\ \/ k - 1 >= from /\ text[k-1] = LF
         \/ k - 2 >= from /\ text[k-1] = CR /\ text[k-2] = LF
      /\ \A i \in from .. k-1 : ~EndsEmptyLine(text, from, i)
  BY DEF HeaderEnds, EndsEmptyLine
<1> HIDE DEF len
<1>3. LF # CR
  BY BytesDiffer
<1>4. top \in Nat /\ top \in 0 .. len-2
      /\ F[top] = LF /\ (F[top+1] = LF => top = h - 2) /\ (F[top+1] # LF => top = h - 3)
      /\ top \in S
  <2>1. CASE text[k-1] = LF /\ k - 1 >= from
    <3>1. top = h - 2 /\ h - 2 \in 0 .. n-1 /\ h - 1 \in 0 .. n-1
      BY <1>1, <2>1
    <3>2. F[h-2] = text[from + (h-2)] /\ F[h-1] = text[from + (h-1)]
      BY <1>0, <3>1
    <3>3. from + (h-2) = k - 1 /\ from + (h-1) = k /\ top + 1 = h - 1
      BY <3>1
    <3>4. F[top] = LF /\ F[top+1] = LF
      BY <1>2, <2>1, <3>1, <3>2, <3>3
    <3>5. top \in 0 .. len-2 /\ top < len - 1
      BY <1>1, <3>1
    <3> HIDE DEF top, h
    <3>6. EmptyLine(F, len, top)
      BY <3>4, <3>5 DEF EmptyLine
    <3> QED
      BY <1>1, <3>1, <3>4, <3>5, <3>6
  <2>2. CASE ~(text[k-1] = LF /\ k - 1 >= from)
    <3>0. k - 2 >= from /\ text[k-1] = CR /\ text[k-2] = LF
      BY <1>2, <2>2
    <3>1. top = h - 3 /\ h - 3 \in 0 .. n-1 /\ h - 2 \in 0 .. n-1 /\ h - 1 \in 0 .. n-1
      BY <1>1, <2>2, <3>0
    <3>2. F[h-3] = text[from + (h-3)] /\ F[h-2] = text[from + (h-2)]
          /\ F[h-1] = text[from + (h-1)]
      BY <1>0, <3>1
    <3>3. from + (h-3) = k - 2 /\ from + (h-2) = k - 1 /\ from + (h-1) = k
          /\ top + 1 = h - 2 /\ top + 2 = h - 1
      BY <3>1
    <3>4. F[top] = LF /\ F[top+1] = CR /\ F[top+2] = LF
      BY <1>2, <3>0, <3>1, <3>2, <3>3
    <3>5. top \in 0 .. len-2 /\ top < len - 2
      BY <1>1, <3>1
    <3> HIDE DEF top, h
    <3>6. EmptyLine(F, len, top)
      BY <3>4, <3>5 DEF EmptyLine
    <3> QED
      BY <1>1, <1>3, <3>1, <3>4, <3>5, <3>6
  <2> QED
    BY <2>1, <2>2
<1>5. ASSUME NEW i \in S
      PROVE  top <= i
  <2>1. i \in 0 .. len-1 /\ EmptyLine(F, len, i)
    BY <1>5
  <2>2. \/ i + 1 <= len - 1 /\ EndsEmptyLine(text, from, from + i + 1)
        \/ i + 2 <= len - 1 /\ text[from+i+1] = CR /\ EndsEmptyLine(text, from, from + i + 2)
    BY <1>1, <2>1, EmptyLineEnds DEF F
  <2>3. CASE EndsEmptyLine(text, from, from + i + 1)
    <3>1. from + i + 1 \notin from .. k-1
      BY <1>2, <2>3
    <3> QED
      BY <1>1, <2>1, <3>1
  <2>4. CASE text[from+i+1] = CR /\ EndsEmptyLine(text, from, from + i + 2)
    <3>1. from + i + 2 \notin from .. k-1
      BY <1>2, <2>4
    <3>2. i >= h - 3
      BY <1>1, <2>1, <3>1
    <3>3. i = h - 3 => from + i + 1 = k - 1
      BY <1>1, <2>1
    <3>4. i = h - 3 => text[k-1] # LF
      BY <1>3, <2>4, <3>3
    <3> QED
      BY <1>1, <2>1, <3>2, <3>4
  <2> QED
    BY <2>2, <2>3, <2>4
<1>6. S \subseteq Nat /\ top \in S
  BY <1>4
<1> HIDE DEF S
<1>7. First(S) = top
  <2> HIDE DEF top
  <2> QED
    BY <1>5, <1>6, FirstIs
<1>8. header_scan(F) = IF First(S) = -1 THEN -1
                       ELSE IF F[First(S)+1] = LF THEN First(S) + 2 ELSE First(S) + 3
  BY DEF header_scan, S, len
<1>9. header_scan(F) = IF F[top+1] = LF THEN top + 2 ELSE top + 3
  <2>1. top # -1
    BY <1>4
  <2> HIDE DEF top
  <2> QED
    BY <1>7, <1>8, <2>1
<1>10. header_scan(F) = h
  <2>1. top \in Nat /\ (F[top+1] = LF => top = h - 2) /\ (F[top+1] # LF => top = h - 3)
    BY <1>4
  <2>2. h \in Int
    BY <1>1
  <2> HIDE DEF top, h
  <2> QED
    BY <1>9, <2>1, <2>2
<1> QED
  BY <1>10 DEF F

LEMMA BufferSize ==
  ASSUME NEW s, Len(s) \in Nat
  PROVE  /\ DOMAIN AsBuffer(s) = 0 .. Len(s) - 1 /\ Size(AsBuffer(s)) = Len(s)
         /\ \A i \in 0 .. Len(s) - 1 : AsBuffer(s)[i] = s[i+1]
<1>1. /\ DOMAIN AsBuffer(s) = 0 .. Len(s) - 1
      /\ \A i \in 0 .. Len(s) - 1 : AsBuffer(s)[i] = s[i+1]
  BY DEF AsBuffer
<1> QED
  BY <1>1, SizeIs

(***************************************************************************)
(* The body of an upload: its markers, its name and its file.              *)
(***************************************************************************)
(* Between from and to, s is first found at p, not at the very end.        *)
FirstAt(text, from, to, p, s) ==
  /\ Len(s) \in Nat /\ p + Len(s) < to
  /\ BytesAt(text, p, s) /\ \A i \in from .. p-1 : ~BytesAt(text, i, s)

LEMMA NeedleIs ==
  ASSUME NEW text, NEW from \in Nat, NEW n \in Nat, NEW s,
         NEW to \in Nat, Sums(to, from, n), NEW e \in from .. to, FirstAt(text, from, to, e, s)
  PROVE  find_needle(Copy(text, from, n, 0), AsBuffer(s)) = e - from
<1> DEFINE F == Copy(text, from, n, 0)
           N == AsBuffer(s)
           S == {i \in 0 .. Size(F) - Size(N) - 1 : \A k \in DOMAIN N : F[i+k] = N[k]}
           m == Len(s)
           p == e - from
<1>a. /\ p \in 0 .. n - Len(s) - 1 /\ BytesAt(text, from + p, s)
      /\ \A i \in 0 .. p-1 : ~BytesAt(text, from + i, s)
  <2>1. p \in 0 .. n - Len(s) - 1 /\ from + p = e
    BY DEF FirstAt, Sums
  <2>2. \A i \in 0 .. p-1 : from + i \in from .. e-1
    OBVIOUS
  <2> QED
    BY <2>1, <2>2 DEF FirstAt
<1> HIDE DEF p
<1>0. \A i \in 0 .. n-1 : F[i] = text[from+i]
  BY DEF Copy
<1>1. /\ Size(F) = n /\ Size(N) = m /\ DOMAIN N = 0 .. m-1 /\ m \in Nat
      /\ \A i \in 0 .. m-1 : N[i] = s[i+1]
  BY BufferSize, CopySize DEF FirstAt
<1> HIDE DEF F, N
<1>2. ASSUME NEW i \in 0 .. n-m-1
      PROVE  i \in S <=> BytesAt(text, from + i, s)
  <2>1. i \in S <=> \A k \in 0 .. m-1 : F[i+k] = N[k]
    BY <1>1
  <2>2. \A k \in 0 .. m-1 : F[i+k] = text[from+i+k] /\ N[k] = s[k+1]
    <3> TAKE k \in 0 .. m-1
    <3>1. i + k \in 0 .. n-1
      BY <1>1
    <3>2. F[i+k] = text[from + (i+k)]
      BY <1>0, <3>1
    <3> QED
      BY <1>1, <3>2
  <2>3. BytesAt(text, from + i, s) <=> \A k \in 0 .. m-1 : text[from+i+k] = s[k+1]
    <3>1. \A k \in 0 .. m-1 : k + 1 \in 1 .. m /\ from + i + (k + 1) - 1 = from + i + k
      BY <1>1
    <3>2. \A k \in 1 .. m : k - 1 \in 0 .. m-1 /\ from + i + (k - 1) = from + i + k - 1
                            /\ (k - 1) + 1 = k
      BY <1>1
    <3> QED
      BY <3>1, <3>2 DEF BytesAt
  <2> QED
    BY <2>1, <2>2, <2>3
<1>3. p \in S
  BY <1>a, <1>2
<1>4. \A i \in S : p <= i
  <2> TAKE i \in S
  <2>1. i \in 0 .. n-m-1
    BY <1>1
  <2>2. BytesAt(text, from + i, s)
    BY <1>2, <2>1
  <2> QED
    BY <1>a, <2>1, <2>2
<1>5. S \subseteq Nat
  BY <1>1
<1> HIDE DEF S
<1>6. First(S) = p
  BY <1>3, <1>4, <1>5, FirstIs
<1> QED
  BY <1>6 DEF find_needle, S, F, N, p

(* FileName takes what stands between the quotes.                          *)
QuotedAt(text, to, k, s) ==
  /\ IsString(s, LineEnds \cup {SEMI}) /\ k + Len(s) + 2 < to
  /\ text[k] = QUOTE /\ text[k + Len(s) + 1] = QUOTE /\ BytesAt(text, k + 1, s)
  /\ text[k + Len(s) + 2] \in LineEnds \cup {SEMI}

LEMMA FileNameIs ==
  ASSUME NEW text, NEW from \in Nat, NEW n \in Nat, NEW h \in 0 .. n, NEW s,
         NEW at \in Nat, NEW p \in Nat, Sums(p, from, at), NEW to \in Nat, Sums(to, from, h),
         NoNul(text, from, to), QuotedAt(text, to, p, s)
  PROVE  FileName(Copy(text, from, n, h), at) = AsBuffer(s)
<1>b. IsString(s, LineEnds \cup {SEMI}) /\ at + Len(s) + 2 < h
  BY DEF QuotedAt, IsString, Sums
<1>a. /\ \A i \in 0 .. h-1 : text[from+i] # NUL
      /\ text[from+at] = QUOTE /\ text[from + at + Len(s) + 1] = QUOTE
      /\ BytesAt(text, from + at + 1, s)
      /\ text[from + at + Len(s) + 2] \in LineEnds \cup {SEMI}
  <2>1. \A i \in 0 .. h-1 : from + i \in from .. to-1
    BY DEF Sums
  <2> QED
    BY <2>1 DEF NoNul, QuotedAt, Sums
<1> DEFINE F == Copy(text, from, n, h)
           m == Len(s)
           e == at + m + 2
           E == StringEnd(F, at)
           T == {i \in at .. Size(F) - 1 : F[i] = NUL} \cup {Size(F)}
           S == {i \in at .. E-1 : F[i] = SEMI} \cup {E}
<1>0. \A i \in 0 .. n-1 :
        /\ text[from+i] \notin LineEnds => F[i] = text[from+i]
        /\ i < h /\ text[from+i] \in LineEnds => F[i] = NUL
  BY DEF Copy
<1>1. Size(F) = n
  BY CopySize
<1>2. m \in Nat /\ e \in 0 .. h-1 /\ e \in 0 .. n-1 /\ at < e /\ at + 1 < e
  BY <1>b DEF IsString
<1> HIDE DEF F
<1>3. /\ SEMI \notin LineEnds \cup {NUL} /\ QUOTE \notin LineEnds \cup {NUL, SEMI}
      /\ NUL \notin LineEnds
  BY BytesDiffer
<1>4. \A k \in 0 .. m-1 : /\ text[from + at + 1 + k] = s[k+1]
                          /\ s[k+1] \notin LineEnds \cup {SEMI}
  <2> TAKE k \in 0 .. m-1
  <2>1. k + 1 \in 1 .. m /\ from + at + 1 + (k + 1) - 1 = from + at + 1 + k
    BY <1>2
  <2> QED
    BY <1>a, <1>b, <2>1 DEF BytesAt, IsString
<1>5. \A i \in at .. e-1 : /\ text[from+i] \notin LineEnds \cup {SEMI, NUL}
                           /\ F[i] = text[from+i]
  <2> TAKE i \in at .. e-1
  <2>0. i \in 0 .. n-1 /\ i \in 0 .. h-1
    BY <1>2
  <2>1. text[from+i] \notin LineEnds \cup {SEMI}
    <3>1. CASE i = at
      BY <1>a, <1>3, <3>1
    <3>2. CASE i = e - 1
      <4>1. from + i = from + at + Len(s) + 1
        BY <1>2, <3>2
      <4> QED
        BY <1>a, <1>3, <4>1
    <3>3. CASE i # at /\ i # e - 1
      <4>1. i - at - 1 \in 0 .. m-1 /\ from + at + 1 + (i - at - 1) = from + i
        BY <1>2, <3>3
      <4> QED
        BY <1>4, <4>1
    <3> QED
      BY <3>1, <3>2, <3>3
  <2> QED
    BY <1>a, <1>0, <2>0, <2>1
<1>6. \A i \in at .. e-1 : F[i] # NUL /\ F[i] # SEMI
  BY <1>5
<1>7. from + e = from + at + Len(s) + 2
  BY <1>2
<1>8. F[e] = NUL \/ F[e] = SEMI
  <2>1. text[from+e] \in LineEnds \cup {SEMI} /\ e \in 0 .. n-1 /\ e < h
    BY <1>a, <1>2, <1>7
  <2> HIDE DEF e
  <2> QED
    BY <1>0, <1>3, <2>1
<1> HIDE DEF e, m
<1>9. T \subseteq Nat /\ n \in T /\ \A i \in T : e <= i
  BY <1>1, <1>2, <1>6
<1>10. E = Min(T)
  BY DEF StringEnd
<1>11. E \in Nat /\ e <= E /\ (F[e] = NUL => E = e) /\ (F[e] = SEMI => E # e)
  <2>1. F[e] = NUL => e \in T
    BY <1>1, <1>2
  <2>2. F[e] = SEMI => e \notin T
    BY <1>1, <1>2, <1>3
  <2> HIDE DEF T, E
  <2>3. Min(T) \in T /\ \A i \in T : Min(T) <= i
    BY <1>9, MinOf
  <2>4. E \in T /\ \A i \in T : E <= i
    BY <1>10, <2>3, Zenon
  <2>5. E \in Nat /\ e <= E /\ e \in Int
    BY <1>2, <1>9, <2>4
  <2>6. e \in T => E <= e
    BY <2>4
  <2> QED
    BY <2>1, <2>2, <2>4, <2>5, <2>6
<1> HIDE DEF E
<1>12. S \subseteq Nat /\ e \in S /\ \A i \in S : e <= i
  BY <1>2, <1>6, <1>8, <1>11
<1>13. Min(S) = e
  <2> HIDE DEF S
  <2> QED
    BY <1>12, MinIs
<1>14. FileName(F, at) = Part(F, at + 1, e - 1)
  <2>1. FileName(F, at) =
          LET stop == Min(S)
              head == IF F[at] = QUOTE THEN at + 1 ELSE at
              tail == IF F[stop-1] = QUOTE THEN stop - 1 ELSE stop
          IN  Part(F, head, tail)
    BY DEF FileName, E
  <2> HIDE DEF S
  <2>2. at \in at .. e-1 /\ e - 1 \in at .. e-1
    BY <1>2
  <2>3. from + (e - 1) = from + at + Len(s) + 1
    BY <1>2 DEF e, m
  <2>4. F[at] = QUOTE /\ F[e-1] = QUOTE
    BY <1>a, <1>5, <2>2, <2>3
  <2> QED
    BY <1>13, <2>1, <2>4
<1>15. Part(F, at + 1, e - 1) = [i \in 0 .. m-1 |-> F[at+1+i]]
  <2>1. e - 1 - (at + 1) - 1 = m - 1
    BY <1>2 DEF e
  <2> QED
    BY <2>1 DEF Part
<1>16. \A i \in 0 .. m-1 : F[at+1+i] = s[i+1]
  <2> TAKE i \in 0 .. m-1
  <2>1. at + 1 + i \in at .. e-1 /\ from + (at + 1 + i) = from + at + 1 + i
    BY <1>2 DEF e
  <2> QED
    BY <1>4, <1>5, <2>1
<1> QED
  BY <1>14, <1>15, <1>16 DEF AsBuffer, F, m

LEMMA RequestType ==
  ASSUME NEW r \in Requests
  PROVE  /\ Len(r.text) \in Nat
         /\ \A i \in 1 .. r.header : r.text[i] # NUL
         /\ r.header = -1 => /\ Len(r.text) > DEFAULT_SIZE
                             /\ \A k \in 1 .. Len(r.text) : ~EndsEmptyLine(r.text, 1, k)
         /\ r.header # -1 => /\ r.header \in 1 .. Len(r.text) /\ r.header < 1 + SCAN_LIMIT
                             /\ HeaderEnds(r.text, 1, r.header)
         /\ \A i \in 1 .. r.header-1 :
              r.text[i] = CONTENT_LENGTH /\ r.text[i+1] \in Nat =>
                r.header + r.text[i+1] <= Len(r.text)
<1>1. IsRequest(r) /\ SCAN_LIMIT \in Nat
      /\ IF r.header = -1 THEN Len(r.text) > DEFAULT_SIZE ELSE r.header <= SCAN_LIMIT
  BY RequestsAssumption
<1>2. Len(r.text) \in Nat /\ \A i \in 1 .. r.header : r.text[i] # NUL
  BY <1>1 DEF IsRequest, IsString
<1>3. /\ r.header = -1 => /\ Len(r.text) > DEFAULT_SIZE
                          /\ \A k \in 1 .. Len(r.text) : ~EndsEmptyLine(r.text, 1, k)
      /\ r.header # -1 => /\ r.header \in 1 .. Len(r.text)
                          /\ HeaderEnds(r.text, 1, r.header)
      /\ \A i \in 1 .. r.header-1 :
           r.text[i] = CONTENT_LENGTH /\ r.text[i+1] \in Nat =>
             r.header + r.text[i+1] <= Len(r.text)
  BY <1>1 DEF IsRequest
<1>4. r.header # -1 => r.header < 1 + SCAN_LIMIT
  BY <1>1, <1>2, <1>3
<1> QED
  BY <1>2, <1>3, <1>4

(* What Post reads from the header of an upload.                           *)
BoundaryAt(text, to, k, mark) ==
  /\ BytesAt(text, k+1, mark) /\ k + Len(mark) < to
  /\ text[k + Len(mark) + 1] \in LineEnds

LEMMA FieldsRead ==
  ASSUME NEW text, NEW n \in Nat, NEW h \in 1 .. n, HeaderEnds(text, 1, h),
         NEW end \in Nat, Sums(end, h, 1), NoNul(text, 1, end),
         NEW mark, IsString(mark, LineEnds), NEW total \in Nat,
         NEW l \in 1 .. h-1, FieldAt(text, 1, h, CONTENT_LENGTH, l),
         NEW q \in Nat, Sums(q, l, 1), text[q] = total,
         NEW t \in 1 .. h-1, FieldAt(text, 1, h, CONTENT_TYPE, t),
         NEW s \in Nat, Sums(s, t, 1), NEW k \in s .. h-1, ParameterAt(text, s, BOUNDARY, k),
         BoundaryAt(text, h, k, mark)
  PROVE  LET T             == Copy(text, 1, n, h)
             content_index == header_value(T, h, CONTENT_LENGTH)
             content_type  == header_value(T, h, CONTENT_TYPE)
             field         == Find(T, content_type, BOUNDARY)
         IN  /\ content_index # -1 /\ content_type # -1 /\ field # -1
             /\ T[content_index] = total /\ content_index \in 1 .. h-1
             /\ Part(T, field + 1, StringEnd(T, field)) = AsBuffer(mark)
<1> DEFINE T == Copy(text, 1, n, h)
           m == Len(mark)
<1>4. m \in Nat /\ \A i \in 1 .. m : mark[i] \notin LineEnds
  BY DEF IsString
<1>5. q = l + 1 /\ s = t + 1 /\ text[l+1] = total
  BY DEF Sums
<1>7. /\ ParameterAt(text, t+1, BOUNDARY, k)
      /\ BytesAt(text, k+1, mark) /\ k + m < h
      /\ text[k+m+1] \in LineEnds
  BY <1>5 DEF BoundaryAt
<1>8. /\ CONTENT_LENGTH \notin LineEnds \cup {NUL} /\ CONTENT_TYPE \notin LineEnds \cup {NUL}
      /\ BOUNDARY \notin LineEnds \cup {NUL} /\ \A byte \in LineEnds : byte \notin Nat
  BY BytesDiffer
<1>9. h \in 0 .. n /\ l \in Nat /\ t \in Nat /\ k \in Nat \ {0} /\ h \in Nat
  BY <1>5
<1>10. \A i \in 0 .. h-1 : text[1+i] # NUL
  <2>1. \A i \in 0 .. h-1 : 1 + i \in 1 .. end-1
    BY DEF Sums
  <2> QED
    BY <2>1 DEF NoNul
<1> HIDE DEF m
<1>20. PICK from \in Nat, to \in Nat, last \in Nat : from = 1 /\ to = h + 1 /\ last = h
  BY <1>9
<1>22. Sums(to, from, h) /\ Sums(to, last, 1)
  BY <1>20 DEF Sums
<1>11. l \in 1 .. h-2
  <2>1. l \in {i \in 1 .. h-1 : text[i] = CONTENT_LENGTH
                                /\ (i = 1 \/ text[i-1] \in LineEnds)}
    BY DEF FieldAt
  <2>2. l # h - 1
    <3>1. SUFFICES ASSUME l = h - 1
                   PROVE  FALSE
      OBVIOUS
    <3>3. text[h] = LF /\ text[l+1] \in Nat
      BY <1>5, <3>1 DEF HeaderEnds, EndsEmptyLine
    <3> QED
      BY <1>8, <1>9, <3>1, <3>3 DEF LineEnds
  <2> QED
    BY <1>9, <2>2
<1>21. T = Copy(text, from, n, h)
  BY <1>20
<1>12. NoNul(text, from, to)
  BY <1>9, <1>20 DEF NoNul, Sums
<1>13. header_value(T, h, CONTENT_LENGTH) = l /\ header_value(T, h, CONTENT_TYPE) = t
  <2>1. /\ l \in from .. last-1 /\ t \in from .. last-1
        /\ FieldAt(text, from, last, CONTENT_LENGTH, l)
        /\ FieldAt(text, from, last, CONTENT_TYPE, t)
    BY <1>9, <1>20
  <2>3. ASSUME NEW keyword, keyword \notin LineEnds \cup {NUL}, NEW p \in from .. last-1,
               FieldAt(text, from, last, keyword, p)
        PROVE  header_value(Copy(text, from, n, h), h, keyword) = p - from + 1
    BY <1>9, <1>12, <1>22, <2>3, HeaderValueIs
  <2>2. /\ header_value(Copy(text, from, n, h), h, CONTENT_LENGTH) = l - from + 1
        /\ header_value(Copy(text, from, n, h), h, CONTENT_TYPE) = t - from + 1
    BY <1>8, <2>1, <2>3
  <2> HIDE DEF T
  <2> QED
    BY <1>9, <1>20, <1>21, <2>2
<1>14. Find(T, t, BOUNDARY) = k - 1
  <2>1. PICK a \in Nat : a = t + 1
    BY <1>9
  <2>3. /\ Sums(a, from, t) /\ t \in 0 .. h-1 /\ k \in a .. to-1
        /\ ParameterAt(text, a, BOUNDARY, k)
    BY <1>7, <1>9, <1>20, <2>1 DEF Sums
  <2>4. ASSUME NEW keyword, keyword \notin LineEnds \cup {NUL},
               ParameterAt(text, a, keyword, k)
        PROVE  Find(Copy(text, from, n, h), t, keyword) = k - from
    BY <1>9, <1>12, <1>22, <2>3, <2>4, FindIs
  <2>2. Find(Copy(text, from, n, h), t, BOUNDARY) = k - from
    BY <1>8, <2>3, <2>4
  <2> HIDE DEF T
  <2> QED
    BY <1>20, <1>21, <2>2
<1>15. \A i \in 0 .. m-1 : text[1+k+i] = mark[i+1] /\ text[1+k+i] \notin LineEnds
  <2> TAKE i \in 0 .. m-1
  <2>1. i + 1 \in 1 .. m /\ k + 1 + (i+1) - 1 = 1 + k + i
    BY <1>4, <1>9
  <2> QED
    BY <1>4, <1>7, <2>1 DEF BytesAt, m
<1>16. StringEnd(T, k-1) = k + m
  <2>1. PICK at \in Nat, e \in Nat : at = k - 1 /\ e = k + m + 1
    BY <1>4, <1>9
  <2>2. InLine(text, k, k+m+1)
    <3> SUFFICES ASSUME NEW i \in k .. k+m
                 PROVE  text[i] \notin LineEnds \cup {NUL}
      BY <1>4, <1>9 DEF InLine
    <3>1. CASE i = k
      BY <1>7, <1>8, <3>1 DEF ParameterAt
    <3>2. CASE i # k
      <4>1. i - k - 1 \in 0 .. m-1 /\ 1 + k + (i-k-1) = i /\ i - 1 \in 0 .. h-1
            /\ 1 + (i-1) = i
        BY <1>4, <1>7, <1>9, <3>2
      <4> QED
        BY <1>10, <1>15, <4>1
    <3> QED
      BY <3>1, <3>2
  <2>4. /\ at \in 0 .. h-1 /\ Sums(k, from, at) /\ e \in k .. to-1
        /\ InLine(text, k, e) /\ text[e] \in LineEnds
    BY <1>4, <1>7, <1>9, <1>20, <2>1, <2>2 DEF Sums
  <2>3. StringEnd(Copy(text, from, n, h), at) = e - from
    BY <1>9, <1>22, <2>4, StringEndIs
  <2> HIDE DEF T
  <2> QED
    BY <1>4, <1>9, <1>20, <1>21, <2>1, <2>3
<1>17. Part(T, k, k+m) = AsBuffer(mark)
  <2>1. Part(T, k, k+m) = [i \in 0 .. m-1 |-> T[k+i]]
    <3>1. k + m - k - 1 = m - 1
      BY <1>4, <1>9
    <3> HIDE DEF T
    <3> QED
      BY <1>4, <1>9, <3>1 DEF Part
  <2>2. \A i \in 0 .. m-1 : T[k+i] = mark[i+1]
    <3> TAKE i \in 0 .. m-1
    <3>1. k + i \in 0 .. n-1 /\ 1 + (k+i) = 1 + k + i
      BY <1>4, <1>7, <1>9
    <3>2. T[k+i] = text[1 + (k+i)]
      BY <1>15, <3>1 DEF Copy
    <3> QED
      BY <1>15, <3>1, <3>2
  <2> QED
    BY <2>1, <2>2 DEF AsBuffer, m
<1>18. T[l] = total
  <2>1. l \in 0 .. n-1 /\ 1 + l = l + 1
    BY <1>9
  <2>2. text[1+l] \in Nat /\ text[1+l] = total
    BY <1>5, <2>1
  <2>3. text[1+l] \notin LineEnds
    BY <1>8, <2>2
  <2> QED
    BY <2>1, <2>2, <2>3 DEF Copy
<1>19. l \in 1 .. h-1 /\ l # -1 /\ t # -1 /\ k - 1 # -1 /\ k - 1 + 1 = k
  BY <1>9
<1> QED
  BY <1>12, <1>13, <1>14, <1>16, <1>17, <1>18, <1>19

HasHeader(r, n) == n \in r.header .. Len(r.text)

LEMMA UploadFields ==
  ASSUME NEW r \in Requests, r.kind = "upload", NEW n \in Nat, HasHeader(r, n)
  PROVE  LET T             == Copy(r.text, 1, n, r.header)
             content_index == header_value(T, r.header, CONTENT_LENGTH)
             content_type  == header_value(T, r.header, CONTENT_TYPE)
             field         == Find(T, content_type, BOUNDARY)
         IN  /\ content_index # -1 /\ content_type # -1 /\ field # -1
             /\ T[content_index] = Len(r.text) - r.header
             /\ Part(T, field + 1, StringEnd(T, field)) = AsBuffer(r.mark)
<1> DEFINE text == r.text
           h    == r.header
           mark == r.mark
<1>1. IsUpload(r, SCAN_LIMIT) /\ UploadHeader(r)
  BY RequestsAssumption DEF IsUpload
<1>2. /\ h \in 1 .. Len(text) /\ Len(text) \in Nat /\ HeaderEnds(text, 1, h)
      /\ \A i \in 1 .. h : text[i] # NUL
  <2>1. h > 0
    BY <1>1 DEF UploadHeader
  <2>2. h # -1
    BY <2>1
  <2> QED
    BY <2>2, RequestType
<1>3. IsString(mark, LineEnds)
  BY <1>1 DEF IsUpload, MarkedAt
<1>4. PICK l \in 1 .. h-1 : /\ FieldAt(text, 1, h, CONTENT_LENGTH, l)
                            /\ text[l+1] = Len(text) - h
  BY <1>1 DEF UploadHeader
<1>5. PICK t \in 1 .. h-1 :
        /\ FieldAt(text, 1, h, CONTENT_TYPE, t)
        /\ \E k \in t+1 .. h-1 :
             ParameterAt(text, t+1, BOUNDARY, k) /\ BoundaryAt(text, h, k, mark)
  BY <1>1 DEF UploadHeader, BoundaryAt
<1>6. PICK k \in t+1 .. h-1 :
        ParameterAt(text, t+1, BOUNDARY, k) /\ BoundaryAt(text, h, k, mark)
  BY <1>5
<1>7. n \in Nat /\ h \in 1 .. n /\ Len(text) - h \in Nat /\ NoNul(text, 1, h+1)
  BY <1>2 DEF NoNul, HasHeader
<1>8. PICK total \in Nat, end \in Nat, q \in Nat, s \in Nat :
        total = Len(text) - h /\ end = h+1 /\ q = l+1 /\ s = t+1
  BY <1>7
<1>9. n \in Nat /\ h \in 1 .. n /\ HeaderEnds(text, 1, h) /\ IsString(mark, LineEnds)
      /\ FieldAt(text, 1, h, CONTENT_LENGTH, l) /\ FieldAt(text, 1, h, CONTENT_TYPE, t)
      /\ BoundaryAt(text, h, k, mark)
  BY <1>2, <1>3, <1>4, <1>5, <1>6, <1>7
<1>10. /\ Sums(end, h, 1) /\ Sums(q, l, 1) /\ Sums(s, t, 1)
       /\ text[q] = total /\ NoNul(text, 1, end) /\ ParameterAt(text, s, BOUNDARY, k)
       /\ k \in s .. h-1
  BY <1>4, <1>6, <1>7, <1>8 DEF Sums
<1> DEFINE T             == Copy(text, 1, n, h)
           content_index == header_value(T, h, CONTENT_LENGTH)
           content_type  == header_value(T, h, CONTENT_TYPE)
           field         == Find(T, content_type, BOUNDARY)
<1> HIDE DEF text, h, mark
<1>11. /\ content_index # -1 /\ content_type # -1 /\ field # -1
       /\ T[content_index] = total
       /\ Part(T, field + 1, StringEnd(T, field)) = AsBuffer(mark)
  BY <1>9, <1>10, FieldsRead
<1> HIDE DEF T, field
<1> QED
  BY <1>8, <1>11 DEF text, h, mark, T, field

(* What ParseContent reads from the header of the part.                    *)
LEMMA PartFields ==
  ASSUME NEW text, NEW from \in Nat, NEW n \in Nat, NEW h \in 0 .. n,
         NEW to \in Nat, Sums(to, from, h), NoNul(text, from, to),
         NEW last \in Nat, Sums(to, last, 1),
         NEW i \in from .. last-1, FieldAt(text, from, last, DISPOSITION, i),
         NEW a \in Nat, Sums(a, i, 1), NEW k \in a .. last-1,
         ParameterAt(text, a, FILENAME_IS, k),
         NEW p \in Nat, Sums(p, k, 1), NEW s, QuotedAt(text, to, p, s)
  PROVE  LET F    == Copy(text, from, n, h)
             disp == header_value(F, h, DISPOSITION)
             name == Find(F, disp, FILENAME_IS)
         IN  disp # -1 /\ name # -1 /\ FileName(F, name + 1) = AsBuffer(s)
<1> DEFINE F == Copy(text, from, n, h)
<1>1. DISPOSITION \notin LineEnds \cup {NUL} /\ FILENAME_IS \notin LineEnds \cup {NUL}
  BY BytesDiffer
<1>3. PICK disp \in Nat : disp = i - from + 1
  OBVIOUS
<1>4. header_value(F, h, DISPOSITION) = disp
  <2>1. header_value(F, h, DISPOSITION) = i - from + 1
    BY <1>1, HeaderValueIs
  <2> QED
    BY <1>3, <2>1
<1>5. Sums(a, from, disp) /\ disp \in 0 .. h-1 /\ k \in a .. to-1
  BY <1>3 DEF Sums
<1>6. Find(F, disp, FILENAME_IS) = k - from
  BY <1>1, <1>5, FindIs
<1>7. PICK at \in Nat : at = k - from + 1
  BY <1>3, <1>5 DEF Sums
<1>8. Sums(p, from, at) /\ k - from \in Int /\ k - from # -1 /\ k - from + 1 = at
  BY <1>3, <1>5, <1>7 DEF Sums
<1>9. FileName(F, at) = AsBuffer(s)
  BY <1>8, FileNameIs
<1>10. disp # -1
  BY <1>3
<1> HIDE DEF F
<1>11. FileName(F, Find(F, disp, FILENAME_IS) + 1) = AsBuffer(s)
  BY <1>6, <1>8, <1>9
<1> QED
  BY <1>4, <1>6, <1>8, <1>10, <1>11 DEF F

(* The part between the markers.                                           *)
Measures(m, s) == m = Len(s)

LEMMA ContentIs ==
  ASSUME NEW text, NEW top \in Nat, NEW n \in Nat, NEW end \in Nat, Sums(end, top, n),
         NEW mark, boundary = AsBuffer(mark),
         NEW first \in top .. end, FirstAt(text, top, end, first, mark),
         NEW m \in Nat, Measures(m, mark), NEW from \in Nat, Sums(from, first, m),
         NEW second \in from .. end, FirstAt(text, from, end, second, mark),
         NEW last \in from .. second-4, PartEnds(text, second, last)
  PROVE  LET P  == Copy(text, top, n, 0)
             f0 == find_needle(P, boundary)
             b0 == f0 + Size(boundary)
             s0 == find_needle(Part(P, b0, Size(P)), boundary)
         IN  /\ f0 # -1 /\ s0 # -1
             /\ Part(P, b0, Cut(P, b0 + s0)) = Copy(text, from, last + 1 - from, 0)
<1> DEFINE P == Copy(text, top, n, 0)
<1>1. find_needle(P, boundary) = first - top
  BY NeedleIs
<1>2. Size(boundary) = m /\ Size(P) = n
  BY BufferSize, CopySize DEF Measures
<1>3. PICK b0 \in Nat, rest \in Nat : b0 = from - top /\ rest = n - b0
  BY DEF Sums
<1>4. Sums(from, top, b0) /\ Sums(end, from, rest) /\ b0 <= n
      /\ first - top \in Nat /\ first - top + m = b0
  BY <1>3 DEF Sums
<1>5. Part(P, b0, n) = Copy(text, from, rest, 0)
  <2>1. Part(P, b0, n) = Copy(text, top + b0, n - b0, 0)
    BY <1>3, <1>4, PartIs
  <2> QED
    BY <1>3, <2>1
<1>6. find_needle(Copy(text, from, rest, 0), boundary) = second - from
  BY <1>4, NeedleIs
<1>7. PICK c \in Nat : c = second - top
  BY DEF Sums
<1>8. Cut(P, c) = last + 1 - top
  <2>1. c - 4 \in 0 .. n-1 /\ top + (c-4) = second - 4
    BY <1>3, <1>7 DEF Sums
  <2>2. P[c-4] = text[second-4]
    BY <2>1 DEF Copy
  <2> HIDE DEF P
  <2> QED
    BY <1>7, <2>2 DEF Cut, PartEnds
<1>9. Part(P, b0, last + 1 - top) = Copy(text, from, last + 1 - from, 0)
  <2>1. last + 1 - top \in Nat /\ b0 <= last + 1 - top /\ last + 1 - top <= n
    BY <1>3, <1>4 DEF Sums
  <2>2. Part(P, b0, last + 1 - top) = Copy(text, top + b0, last + 1 - top - b0, 0)
    BY <1>4, <2>1, PartIs
  <2> QED
    BY <1>3, <2>2
<1>10. second - from \in Nat /\ b0 + (second - from) = c
  BY <1>3, <1>7
<1> HIDE DEF P
<1>11. find_needle(P, boundary) + Size(boundary) = b0
  BY <1>1, <1>2, <1>4
<1>12. find_needle(Part(P, b0, Size(P)), boundary) = second - from
  BY <1>2, <1>5, <1>6
<1>13. Part(P, b0, Cut(P, b0 + (second - from))) = Copy(text, from, last + 1 - from, 0)
  BY <1>8, <1>9, <1>10
<1>14. first - top # -1 /\ second - from # -1
  BY <1>4, <1>10
<1> QED
  BY <1>1, <1>11, <1>12, <1>13, <1>14 DEF P

(* The file behind the header of the part.                                 *)
IsFile(file, text, k, size) == file = [x \in 1 .. size |-> text[k+x]]

LEMMA FileIs ==
  ASSUME NEW text, NEW from \in Nat, NEW n \in Nat, NEW h \in 0 .. n,
         NEW k \in Nat, NEW to \in Nat, Sums(to, from, h), Sums(to, k, 1),
         NEW size \in Nat, Sums(n, h, size), NEW file, IsFile(file, text, k, size)
  PROVE  Part(Copy(text, from, n, h), h, Size(Copy(text, from, n, h))) = AsBuffer(file)
<1>0. file = [x \in 1 .. size |-> text[k+x]]
  BY DEF IsFile
<1>1. Len(file) = size
  BY <1>0
<1>2. AsBuffer(file) = [x \in 0 .. size-1 |-> file[x+1]]
  BY <1>1 DEF AsBuffer
<1>3. ASSUME NEW x \in 0 .. size-1
      PROVE  file[x+1] = text[k+1+x]
  <2>1. x + 1 \in 1 .. size /\ k + (x+1) = k+1+x
    OBVIOUS
  <2> QED
    BY <1>0, <2>1
<1>4. AsBuffer(file) = [x \in 0 .. size-1 |-> text[k+1+x]]
  BY <1>2, <1>3
<1>5. Part(Copy(text, from, n, h), h, n) = Copy(text, from + h, n - h, 0)
  BY PartIs
<1>6. from + h = k + 1 /\ n - h = size
  BY DEF Sums
<1>7. Copy(text, k + 1, size, 0) = [x \in 0 .. size-1 |-> text[k+1+x]]
  BY DEF Copy
<1>8. Size(Copy(text, from, n, h)) = n
  BY CopySize
<1> QED
  BY <1>4, <1>5, <1>6, <1>7, <1>8

LEMMA ContentParsed ==
  ASSUME NEW text, NEW top \in Nat, NEW n \in Nat, NEW end \in Nat, Sums(end, top, n),
         NEW mark, boundary = AsBuffer(mark),
         NEW first \in top .. end, FirstAt(text, top, end, first, mark),
         NEW m \in Nat, Measures(m, mark), NEW from \in Nat, Sums(from, first, m),
         NEW second \in from .. end, FirstAt(text, from, end, second, mark),
         NEW last \in from .. second-4, PartEnds(text, second, last),
         NEW k \in from .. last, k < from + SCAN_LIMIT, HeaderEnds(text, from, k),
         NEW to \in Nat, Sums(to, k, 1), NoNul(text, from, to),
         NEW i \in from .. k-1, FieldAt(text, from, k, DISPOSITION, i),
         NEW a \in Nat, Sums(a, i, 1), NEW q \in a .. k-1, ParameterAt(text, a, FILENAME_IS, q),
         NEW p \in Nat, Sums(p, q, 1), NEW s, QuotedAt(text, to, p, s),
         NEW size \in Nat, Sums(last, k, size),
         NEW file, IsFile(file, text, k, size)
  PROVE  ParseContent(Copy(text, top, n, 0)) = [name |-> AsBuffer(s), file |-> AsBuffer(file)]
<1> DEFINE P == Copy(text, top, n, 0)
           first0   == find_needle(P, boundary)
           begin0   == first0 + Size(boundary)
           second0  == find_needle(Part(P, begin0, Size(P)), boundary)
           content  == Part(P, begin0, Cut(P, begin0 + second0))
           header   == header_scan(content)
           fields   == split_header(content, header)
           disp     == header_value(fields, header, DISPOSITION)
           name     == Find(fields, disp, FILENAME_IS)
<1>1. PICK nn \in Nat, h \in Nat, stop \in Nat :
        nn = last + 1 - from /\ h = k - from + 1 /\ stop = last + 1
  OBVIOUS
<1>2. first0 # -1 /\ second0 # -1 /\ content = Copy(text, from, nn, 0)
  <2>1. content = Copy(text, from, last + 1 - from, 0) /\ first0 # -1 /\ second0 # -1
    BY ContentIs
  <2> HIDE DEF content, first0, second0
  <2> QED
    BY <1>1, <2>1
<1> HIDE DEF first0, second0, content, begin0
<1>3. header = h
  <2>1. k \in from .. from + nn - 1
    BY <1>1
  <2>2. header_scan(Copy(text, from, nn, 0)) = k - from + 1
    BY <2>1, ScanFinds
  <2> QED
    BY <1>1, <1>2, <2>2
<1>4. fields = Copy(text, from, nn, h)
  <2>1. split_header(Copy(text, from, nn, 0), h) = Copy(text, from, nn, h)
    BY SplitIs
  <2> HIDE DEF header
  <2> QED
    BY <1>2, <1>3, <2>1
<1> HIDE DEF header, fields
<1>5. /\ h \in 0 .. nn /\ Sums(stop, from, nn) /\ Sums(to, from, h)
      /\ Sums(nn, h, size)
  BY <1>1 DEF Sums
<1>6. disp # -1 /\ name # -1 /\ FileName(fields, name + 1) = AsBuffer(s)
  <2> DEFINE F     == Copy(text, from, nn, h)
             disp1 == header_value(F, h, DISPOSITION)
             name1 == Find(F, disp1, FILENAME_IS)
  <2>1. disp1 # -1 /\ name1 # -1 /\ FileName(F, name1 + 1) = AsBuffer(s)
    BY <1>5, PartFields
  <2>2. disp = disp1 /\ name = name1
    BY <1>3, <1>4
  <2> HIDE DEF disp, name, disp1, name1
  <2> QED
    BY <1>4, <2>1, <2>2
<1>7. Part(fields, header, Size(fields)) = AsBuffer(file)
  <2>1. k \in Nat
    OBVIOUS
  <2>2. Part(Copy(text, from, nn, h), h, Size(Copy(text, from, nn, h))) = AsBuffer(file)
    BY <1>5, <2>1, FileIs
  <2> QED
    BY <1>3, <1>4, <2>2
<1>8. header # -1
  BY <1>3
<1>9. ParseContent(P) =
        IF first0 = -1 \/ second0 = -1 THEN NOTHING
        ELSE IF header = -1 THEN NOTHING
        ELSE IF disp = -1 THEN NOTHING
        ELSE IF name = -1 THEN NOTHING
        ELSE [name |-> FileName(fields, name + 1), file |-> Part(fields, header, Size(fields))]
  BY Zenon DEF ParseContent, first0, second0, begin0, content, header, fields
<1> HIDE DEF disp, name, P
<1>10. ParseContent(P) = [name |-> AsBuffer(s), file |-> AsBuffer(file)]
  BY <1>2, <1>6, <1>7, <1>8, <1>9
<1> QED
  BY <1>10 DEF P

(* Where the boundary is, and where it is not.                             *)
LEMMA MarksFound ==
  ASSUME NEW text, NEW top \in Nat, NEW end \in Nat, end = Len(text) + 1, NEW mark,
         NEW first \in top .. Len(text), NEW second \in top .. Len(text),
         NEW m \in Nat, Measures(m, mark), m # 0,
         first + m <= second - 5, second + m <= Len(text),
         {i \in top .. Len(text) + 1 - m : BytesAt(text, i, mark)} = {first, second},
         NEW from \in Nat, Sums(from, first, m)
  PROVE  FirstAt(text, top, end, first, mark) /\ FirstAt(text, from, end, second, mark)
<1> DEFINE S == {i \in top .. Len(text) + 1 - m : BytesAt(text, i, mark)}
<1>1. first \in S /\ second \in S /\ \A i \in S : i = first \/ i = second
  OBVIOUS
<1>2. BytesAt(text, first, mark) /\ BytesAt(text, second, mark) /\ first < second
  BY <1>1
<1>3. \A i \in top .. Len(text) + 1 - m : i # first /\ i # second => ~BytesAt(text, i, mark)
  BY <1>1
<1> HIDE DEF S
<1>4. Len(text) \in Nat /\ Len(mark) = m
  BY DEF Measures
<1>5. \A i \in top .. first-1 : ~BytesAt(text, i, mark)
  <2> TAKE i \in top .. first-1
  <2>1. i \in top .. Len(text) + 1 - m /\ i # first /\ i # second
    BY <1>2, <1>4
  <2> QED
    BY <1>3, <2>1
<1>6. \A i \in from .. second-1 : ~BytesAt(text, i, mark)
  <2> TAKE i \in from .. second-1
  <2>1. i \in top .. Len(text) + 1 - m /\ i # first /\ i # second
    BY <1>4 DEF Sums
  <2> QED
    BY <1>3, <2>1
<1> QED
  BY <1>2, <1>4, <1>5, <1>6 DEF FirstAt

(* ParseContent finds the file of an upload and its name.                  *)
LEMMA UploadParsed ==
  ASSUME NEW r \in Requests, r.kind = "upload", boundary = AsBuffer(r.mark)
  PROVE  ParseContent(Copy(r.text, r.header + 1, Len(r.text) - r.header, 0))
           = [name |-> AsBuffer(r.name), file |-> AsBuffer(r.file)]
<1> DEFINE text == r.text
           mark == r.mark
           s    == r.name
           file == r.file
<1>1. IsUpload(r, SCAN_LIMIT) /\ SCAN_LIMIT \in Nat
  BY RequestsAssumption
<1>2. Len(text) \in Nat /\ r.header \in 1 .. Len(text)
  <2>1. r.header > 0
    BY <1>1 DEF IsUpload, UploadHeader
  <2>2. r.header # -1
    BY <2>1
  <2> QED
    BY <2>2, RequestType
<1>3. PICK first \in Nat, second \in Nat :
       /\ first \in r.header + 1 .. Len(text) /\ second \in r.header + 1 .. Len(text)
       /\ MarkedAt(r, first, second)
       /\ \E last, k \in first + Len(mark) .. second - 4 :
            /\ PartEnds(text, second, last)
            /\ k <= last /\ k < first + Len(mark) + SCAN_LIMIT
            /\ HeaderEnds(text, first + Len(mark), k)
            /\ \A i \in first + Len(mark) .. k : text[i] # NUL
            /\ NameField(r, first + Len(mark), k)
            /\ file = [i \in 1 .. last - k |-> text[k+i]]
  <2>1. r.header + 1 .. Len(text) \subseteq Nat
    BY <1>2
  <2> QED
    BY <1>1, <2>1, Zenon DEF IsUpload
<1>5. /\ IsString(mark, LineEnds) /\ mark # <<>>
      /\ first + Len(mark) <= second - 5 /\ second + Len(mark) <= Len(text)
      /\ {i \in r.header + 1 .. Len(text) + 1 - Len(mark) : BytesAt(text, i, mark)}
           = {first, second}
  BY <1>3 DEF MarkedAt
<1>6. Len(mark) \in Nat /\ Len(mark) # 0
  <2>1. Len(mark) \in Nat /\ mark = [i \in 1 .. Len(mark) |-> mark[i]]
    BY <1>5 DEF IsString
  <2>2. Len(mark) = 0 => mark = <<>>
    BY <2>1
  <2> QED
    BY <1>5, <2>1, <2>2
<1> HIDE DEF text, mark, s, file
<1>4. PICK last \in Nat, k \in Nat :
            /\ last \in first + Len(mark) .. second - 4
            /\ k \in first + Len(mark) .. second - 4
            /\ PartEnds(text, second, last)
            /\ k <= last /\ k < first + Len(mark) + SCAN_LIMIT
            /\ HeaderEnds(text, first + Len(mark), k)
            /\ \A i \in first + Len(mark) .. k : text[i] # NUL
            /\ NameField(r, first + Len(mark), k)
            /\ file = [i \in 1 .. last - k |-> text[k+i]]
  <2>1. first + Len(mark) .. second - 4 \subseteq Nat
    BY <1>6
  <2> QED
    BY <1>3, <2>1, Zenon
<1> HIDE DEF text, mark, s, file
<1>21. last - k \in Nat
  BY <1>4
<1>22. PICK m \in Nat, top \in Nat, n \in Nat :
         m = Len(mark) /\ top = r.header + 1 /\ n = Len(text) - r.header
  <2>1. Len(mark) \in Nat /\ r.header + 1 \in Nat /\ Len(text) - r.header \in Nat
    BY <1>2, <1>6
  <2> QED
    BY <2>1, Zenon
<1>23. PICK from \in Nat, to \in Nat, end \in Nat, size \in Nat :
         from = first + m /\ to = k + 1 /\ end = Len(text) + 1 /\ size = last - k
  <2>1. first + m \in Nat /\ k + 1 \in Nat /\ Len(text) + 1 \in Nat
    BY <1>2
  <2> QED
    BY <1>21, <2>1, Zenon
<1>7. /\ m = Len(mark) /\ from = first + m /\ top = r.header + 1
      /\ n = Len(text) - r.header /\ end = Len(text) + 1 /\ to = k + 1 /\ size = last - k
  BY <1>22, <1>23
<1>8. /\ Sums(end, top, n) /\ Sums(from, first, m) /\ Measures(m, mark) /\ Sums(to, k, 1)
      /\ Sums(last, k, size) /\ NoNul(text, from, to)
  <2>1. /\ end = top + n /\ last = k + size
    BY <1>2, <1>7
  <2>2. \A i \in from .. to-1 : text[i] # NUL
    <3>1. to - 1 = k /\ first + Len(mark) = from
      BY <1>7
    <3> QED
      BY <1>4, <3>1
  <2> QED
    BY <1>7, <2>1, <2>2 DEF Sums, Measures, NoNul
<1>9. FirstAt(text, top, end, first, mark) /\ FirstAt(text, from, end, second, mark)
  <2>1. /\ first \in top .. Len(text) /\ second \in top .. Len(text) /\ m # 0
        /\ first + m <= second - 5 /\ second + m <= Len(text)
        /\ {x \in top .. Len(text) + 1 - m : BytesAt(text, x, mark)} = {first, second}
    BY <1>3, <1>5, <1>6, <1>7
  <2> QED
    BY <1>7, <1>8, <2>1, MarksFound
<1>10. /\ first \in top .. end /\ second \in from .. end /\ last \in from .. second-4
       /\ k \in from .. last /\ k < from + SCAN_LIMIT
       /\ PartEnds(text, second, last) /\ HeaderEnds(text, from, k) /\ NameField(r, from, k)
       /\ IsFile(file, text, k, size)
  <2>1. first + Len(mark) = from /\ last - k = size
    BY <1>7
  <2>2. /\ PartEnds(text, second, last) /\ HeaderEnds(text, from, k) /\ NameField(r, from, k)
        /\ IsFile(file, text, k, size) /\ k < from + SCAN_LIMIT /\ k <= last
    BY <1>4, <2>1 DEF IsFile
  <2>3. /\ last \in from .. second-4 /\ k \in from .. second-4
    BY <1>4, <2>1, Zenon
  <2>4. first \in r.header + 1 .. Len(text) /\ second \in r.header + 1 .. Len(text)
    BY <1>3, Zenon
  <2>7. k <= last /\ k \in from .. second-4 /\ last \in Nat
    BY <2>2, <2>3, Zenon
  <2>5. first \in top .. end /\ second \in from .. end
    <3>1. first + Len(mark) <= second - 5 /\ Len(text) \in Nat
      BY <1>2, <1>5, Zenon
    <3>2. from <= second - 5 /\ first \in top .. Len(text) /\ second <= Len(text)
          /\ end = Len(text) + 1
      BY <1>7, <2>1, <2>4, <3>1
    <3> QED
      BY <3>1, <3>2
  <2>6. k \in from .. last
    BY <2>7
  <2> QED
    BY <2>2, <2>3, <2>5, <2>6
<1>11. PICK i \in from .. k-1 :
         /\ FieldAt(text, from, k, DISPOSITION, i)
         /\ \E q \in i+1 .. k-1 :
            /\ ParameterAt(text, i+1, FILENAME_IS, q) /\ text[q+1] = QUOTE
            /\ BytesAt(text, q+2, s) /\ text[q + Len(s) + 2] = QUOTE
            /\ text[q + Len(s) + 3] \in LineEnds \cup {SEMI}
            /\ q + Len(s) + 3 <= k
  BY <1>10 DEF NameField, text, s
<1>12. PICK q \in i+1 .. k-1 :
            /\ ParameterAt(text, i+1, FILENAME_IS, q) /\ text[q+1] = QUOTE
            /\ BytesAt(text, q+2, s) /\ text[q + Len(s) + 2] = QUOTE
            /\ text[q + Len(s) + 3] \in LineEnds \cup {SEMI}
            /\ q + Len(s) + 3 <= k
  BY <1>11
<1>13. IsString(s, LineEnds \cup {SEMI}) /\ Len(s) \in Nat
  BY <1>10 DEF NameField, IsString, s
<1>14. PICK a \in Nat, p \in Nat : a = i + 1 /\ p = q + 1
  BY <1>7, <1>10
<1>15. /\ Sums(a, i, 1) /\ Sums(p, q, 1) /\ q \in a .. k-1
       /\ ParameterAt(text, a, FILENAME_IS, q)
  BY <1>12, <1>14 DEF Sums
<1>16. QuotedAt(text, to, p, s)
  <2>1. /\ p + 1 = q + 2 /\ p + Len(s) + 1 = q + Len(s) + 2
        /\ p + Len(s) + 2 = q + Len(s) + 3 /\ p + Len(s) + 2 < to
    <3>1. q + Len(s) + 3 <= k /\ q \in Int /\ to = k + 1
      BY <1>7, <1>12, <1>14
    <3> QED
      BY <1>13, <1>14, <3>1
  <2> QED
    BY <1>12, <1>13, <1>14, <2>1 DEF QuotedAt
<1>17. k \in Nat /\ second \in Nat /\ i \in from .. k-1 /\ FieldAt(text, from, k, DISPOSITION, i)
  BY <1>10, <1>11
<1>18. boundary = AsBuffer(mark)
  BY DEF mark
<1>19. ParseContent(Copy(text, top, n, 0)) = [name |-> AsBuffer(s), file |-> AsBuffer(file)]
  BY <1>8, <1>9, <1>10, <1>15, <1>16, <1>17, <1>18, ContentParsed
<1> QED
  BY <1>7, <1>19 DEF text, mark, s, file

(***************************************************************************)
(* What main makes of a header.                                            *)
(***************************************************************************)
(* What Get and Post read of the first h bytes.                            *)
LEMMA CopyAt ==
  ASSUME NEW text, NEW n \in Nat, NEW h \in 0 .. n, NEW i \in 0 .. h-1,
         NEW at \in Nat, Sums(at, i, 1)
  PROVE  /\ i \in DOMAIN Copy(text, 1, n, h)
         /\ text[at] \notin LineEnds => Copy(text, 1, n, h)[i] = text[at]
         /\ text[at] \in LineEnds => Copy(text, 1, n, h)[i] = NUL
<1>1. i \in 0 .. n-1 /\ at = 1 + i
  BY DEF Sums
<1> QED
  BY <1>1 DEF Copy

(* The server waits for no more than the request holds.                    *)
LEMMA LengthKept ==
  ASSUME NEW r \in Requests, NEW n \in Nat, HasHeader(r, n), NEW h \in Nat, h = r.header,
         NEW content_index,
         content_index = header_value(Copy(r.text, 1, n, h), h, CONTENT_LENGTH),
         content_index # -1, Copy(r.text, 1, n, h)[content_index] \in Nat
  PROVE  Copy(r.text, 1, n, h)[content_index] + h <= Len(r.text)
<1> DEFINE text == r.text
           T    == Copy(text, 1, n, h)
           S    == {i \in 0 .. h-2 : (i = 0 \/ T[i-1] = NUL) /\ T[i] = CONTENT_LENGTH}
<1>1. /\ h \in 1 .. n /\ n <= Len(text) /\ Len(text) \in Nat
      /\ \A i \in 1 .. h-1 : text[i] = CONTENT_LENGTH /\ text[i+1] \in Nat =>
            h + text[i+1] <= Len(text)
  <2>1. h # -1
    OBVIOUS
  <2> QED
    BY <2>1, RequestType DEF HasHeader
<1>2. S # {} /\ S \subseteq Nat /\ content_index = First(S) + 1
  <2>1. content_index = IF First(S) = -1 THEN -1 ELSE First(S) + 1
    BY DEF header_value
  <2>2. S = {} => First(S) = -1
    BY DEF First
  <2> HIDE DEF S
  <2>3. S # {} /\ content_index = First(S) + 1
    BY <2>1, <2>2
  <2> QED
    BY <2>3 DEF S
<1>3. PICK line \in S : line = First(S)
  <2> HIDE DEF S
  <2> QED
    BY <1>2, MinOf DEF First
<1>4. /\ line \in 0 .. h-2 /\ T[line] = CONTENT_LENGTH /\ content_index = line + 1
  BY <1>2, <1>3
<1>5. PICK a \in Nat, b \in Nat, c \in Nat : a = line + 1 /\ b = line + 2 /\ c = line + 1
  BY <1>4
<1>6. /\ Sums(a, line, 1) /\ Sums(b, c, 1) /\ line \in 0 .. h-1 /\ c \in 0 .. h-1
      /\ h \in 0 .. n /\ content_index = c
  BY <1>1, <1>4, <1>5 DEF Sums
<1> HIDE DEF S
<1>7. /\ text[a] \in LineEnds => T[line] = NUL
      /\ text[a] \notin LineEnds => T[line] = text[a]
      /\ text[b] \in LineEnds => T[c] = NUL
      /\ text[b] \notin LineEnds => T[c] = text[b]
  BY <1>6, CopyAt
<1>8. CONTENT_LENGTH # NUL /\ NUL \notin Nat
  BY BytesDiffer
<1> HIDE DEF T
<1>9. text[a] = CONTENT_LENGTH /\ text[b] \in Nat /\ T[c] = text[b]
  BY <1>4, <1>6, <1>7, <1>8 DEF T
<1>10. a \in 1 .. h-1 /\ b = a + 1
  BY <1>4, <1>5
<1>11. h + text[b] <= Len(text)
  BY <1>1, <1>9, <1>10
<1> QED
  BY <1>6, <1>9, <1>11 DEF T

(* The name of a request and the file of the server.                       *)
NoFile == NameAt(command) = {}

LEMMA NameServed ==
  ASSUME ArgsInv, command \in Started, state \in {"serving", "waiting"}
  PROVE  /\ max_size = DEFAULT_SIZE /\ filename = NameOf(command)
         /\ NoFile <=> filename = NO_NAME
         /\ NoFile <=> Filename = <<>>
         /\ IsString(Filename, {SPACE}) /\ Filename = NameBytes[NameOf(command)]
<1> DEFINE c == command
<1>1. c \in SeqOf(Options, MaxOptions) /\ Complete(c) /\ NameOf(c) \in DOMAIN NameBytes
  BY StartedAssumption DEF ArgsInv
<1>2. Read(c, Len(c), ip_addr, max_size, filename)
  BY <1>1 DEF ArgsInv
<1>3. max_size = DEFAULT_SIZE /\ filename = NameOf(c)
  BY <1>1, <1>2, ReadAll
<1>4. ASSUME NameAt(c) # {}
      PROVE  NameOf(c) # NO_NAME
  <2> DEFINE i == CHOOSE i \in NameAt(c) : TRUE
  <2>1. i \in NameAt(c)
    BY <1>4
  <2>2. NameOf(c) = c[i][1]
    BY <1>4 DEF NameOf
  <2> HIDE DEF i
  <2>3. i \in DOMAIN c /\ Len(c[i]) = 1
    BY <2>1 DEF NameAt
  <2>4. c[i] \in Options
    BY <1>1, <2>3, CommandType
  <2>5. c[i][1] # NO_NAME
    <3>1. 1 \in 1 .. Len(c[i])
      BY <2>3
    <3> QED
      BY <2>4, <3>1, OptionType
  <2> QED
    BY <2>2, <2>5
<1>5. NameAt(c) = {} => NameOf(c) = NO_NAME
  BY DEF NameOf
<1>6. Filename = NameBytes[NameOf(c)]
  BY <1>3 DEF Filename
<1>7. /\ IsString(NameBytes[NameOf(c)], {SPACE})
      /\ NameBytes[NameOf(c)] = <<>> <=> NameOf(c) = NO_NAME
  BY <1>1, StartedAssumption
<1> QED
  BY <1>3, <1>4, <1>5, <1>6, <1>7 DEF NoFile

(* The request line of a request for a name, and its place in the header.  *)
LineAt(text, h, name, m) ==
  /\ m + 3 < h /\ text[1] = GET /\ text[2] = SLASH /\ text[m + 3] = SPACE
  /\ \A k \in 1 .. m : text[k+2] = name[k] /\ name[k] \notin LineEnds \cup {SPACE}

LEMMA LineIs ==
  ASSUME NEW r \in Requests, r.kind = "get", NEW h, h = r.header, NEW m, m = Len(r.name)
  PROVE  m \in Nat /\ h \in Nat /\ LineAt(r.text, h, r.name, m)
<1> DEFINE text == r.text
           name == r.name
<1>1. IsGet(r)
  BY RequestsAssumption
<1>2. /\ m \in Nat /\ \A k \in 1 .. m : name[k] \notin LineEnds \cup {SPACE}
      /\ h > 0 /\ text[1] = GET /\ text[2] = SLASH /\ text[m + 3] = SPACE
      /\ BytesAt(text, 3, name)
  BY <1>1 DEF IsGet, IsString
<1>3. h \in Nat /\ h > 0 /\ HeaderEnds(text, 1, h)
  <2>1. h # -1
    BY <1>2
  <2> QED
    BY <1>2, <2>1, RequestType
<1>4. \A k \in 1 .. m : text[k+2] = name[k]
  <2> TAKE k \in 1 .. m
  <2>1. 3 + k - 1 = k + 2
    BY <1>2
  <2> QED
    BY <1>2, <2>1 DEF BytesAt
<1>5. text[h] = LF
  BY <1>3 DEF HeaderEnds, EndsEmptyLine
<1>6. LF \in LineEnds /\ GET \notin LineEnds /\ SLASH \notin LineEnds /\ SPACE \notin LineEnds
  BY BytesDiffer DEF LineEnds
<1> HIDE DEF text, name
<1>7. m + 3 < h
  <2> SUFFICES ASSUME ~(m + 3 < h)
               PROVE  FALSE
    OBVIOUS
  <2>1. h = 1 \/ h = 2 \/ h = m + 3 \/ h - 2 \in 1 .. m
    BY <1>2, <1>3
  <2>2. CASE h - 2 \in 1 .. m
    <3>1. text[h] = name[h-2]
      <4>1. (h - 2) + 2 = h
        BY <1>3
      <4> QED
        BY <1>4, <2>2, <4>1
    <3> QED
      BY <1>2, <1>5, <1>6, <2>2, <3>1
  <2>3. CASE h = 1 \/ h = 2 \/ h = m + 3
    BY <1>2, <1>5, <1>6, <2>3
  <2> QED
    BY <2>1, <2>2, <2>3
<1> QED
  BY <1>2, <1>3, <1>4, <1>7 DEF LineAt, text, name

(* Serves compares the name with the file name byte by byte.               *)
LEMMA ServesIs ==
  ASSUME NEW text, NEW n \in Nat, NEW h \in 0 .. n, NEW name, NEW m \in Nat,
         LineAt(text, h, name, m), IsString(name, LineEnds \cup {SPACE}), m = Len(name),
         IsString(Filename, {SPACE})
  PROVE  Serves(Copy(text, 1, n, h)) <=> name = Filename
<1> DEFINE T == Copy(text, 1, n, h)
           f == Filename
           l == Len(f)
<1>1. l \in Nat /\ f = [k \in 1 .. l |-> f[k]] /\ \A k \in 1 .. l : f[k] # SPACE
  BY DEF IsString
<1>2. name = [k \in 1 .. m |-> name[k]]
  BY DEF IsString
<1>3. SPACE \notin LineEnds
  BY BytesDiffer
<1>4. /\ m + 3 < h /\ text[m + 3] = SPACE
      /\ \A k \in 1 .. m : text[k+2] = name[k] /\ name[k] \notin LineEnds \cup {SPACE}
  BY DEF LineAt
<1>5. DOMAIN T = 0 .. n-1
  BY DEF Copy
<1>6. \A k \in 1 .. m : T[1+k] = name[k]
  <2> TAKE k \in 1 .. m
  <2>1. PICK i \in 0 .. h-1, at \in Nat : i = 1 + k /\ at = k + 2
    BY <1>4
  <2>2. T[i] = text[at]
    <3>1. Sums(at, i, 1) /\ text[at] \notin LineEnds
      BY <1>4, <2>1 DEF Sums
    <3> QED
      BY <3>1, CopyAt
  <2> QED
    BY <1>4, <2>1, <2>2
<1>7. T[2+m] = SPACE
  <2>1. PICK i \in 0 .. h-1, at \in Nat : i = 2 + m /\ at = m + 3
    BY <1>4
  <2>2. T[i] = text[at]
    <3>1. Sums(at, i, 1) /\ text[at] \notin LineEnds
      BY <1>3, <1>4, <2>1 DEF Sums
    <3> QED
      BY <3>1, CopyAt
  <2> QED
    BY <1>4, <2>1, <2>2
<1> HIDE DEF T
<1>8. Serves(T) <=> /\ l + 2 \in 0 .. n-1 /\ \A k \in 1 .. l : T[1+k] = f[k]
                    /\ T[2+l] = SPACE
  BY <1>5 DEF Serves, NameEnds
<1> HIDE DEF f, l
<1>9. ASSUME name = f
      PROVE  Serves(T)
  <2>1. l = m
    BY <1>9 DEF l
  <2> QED
    BY <1>4, <1>6, <1>7, <1>8, <1>9, <2>1
<1>10. ASSUME Serves(T)
       PROVE  name = f
  <2>1. CASE l < m
    <3>1. l + 1 \in 1 .. m /\ 1 + (l + 1) = 2 + l
      BY <1>1, <2>1
    <3>2. T[2+l] = name[l+1]
      BY <1>6, <3>1
    <3> QED
      BY <1>4, <1>8, <1>10, <3>1, <3>2
  <2>2. CASE l > m
    <3>1. m + 1 \in 1 .. l /\ 1 + (m + 1) = 2 + m
      BY <1>1, <2>2
    <3>2. T[2+m] = f[m+1]
      BY <1>8, <1>10, <3>1
    <3> QED
      BY <1>1, <1>7, <3>1, <3>2
  <2>3. CASE l = m
    <3>1. \A k \in 1 .. m : name[k] = f[k]
      BY <1>6, <1>8, <1>10, <2>3
    <3> QED
      BY <1>1, <1>2, <2>3, <3>1
  <2> QED
    BY <1>1, <2>1, <2>2, <2>3
<1> QED
  BY <1>9, <1>10 DEF T, f

Answers(r, what) ==
  /\ what = "form" <=> r.name = <<>> /\ NoFile
  /\ what = "link" <=> r.name = <<>> /\ ~NoFile
  /\ what = "file" <=> ~NoFile /\ r.name = NameBytes[NameOf(command)]

LEMMA GetAnswers ==
  ASSUME ArgsInv, command \in Started, state \in {"serving", "waiting"},
         NEW r \in Requests, r.kind = "get", NEW n \in Nat, HasHeader(r, n),
         NEW h, h = r.header
  PROVE  /\ Copy(r.text, 1, n, h)[0] = GET
         /\ Answers(r, AnswerGet(Copy(r.text, 1, n, h)))
<1> DEFINE text == r.text
           name == r.name
           T    == Copy(text, 1, n, h)
<1>1. PICK m : m = Len(name)
  OBVIOUS
<1>2. m \in Nat /\ h \in Nat /\ LineAt(text, h, name, m)
  BY <1>1, LineIs
<1>3. h \in 0 .. n
  BY <1>2 DEF HasHeader
<1>4. IsString(name, LineEnds \cup {SPACE})
  BY RequestsAssumption DEF IsGet
<1>5. /\ NoFile <=> filename = NO_NAME
      /\ NoFile <=> Filename = <<>>
      /\ IsString(Filename, {SPACE}) /\ Filename = NameBytes[NameOf(command)]
  BY NameServed
<1>6. Serves(T) <=> name = Filename
  BY <1>1, <1>2, <1>3, <1>4, <1>5, ServesIs
<1>7. /\ m + 3 < h /\ text[1] = GET /\ text[2] = SLASH /\ text[m + 3] = SPACE
      /\ \A k \in 1 .. m : text[k+2] = name[k] /\ name[k] \notin LineEnds \cup {SPACE}
  BY <1>2 DEF LineAt
<1>8. GET \notin LineEnds /\ SLASH \notin LineEnds /\ SLASH # SPACE /\ SPACE \notin LineEnds
  BY BytesDiffer
<1>9. name = <<>> <=> m = 0
  <2>1. name = [k \in 1 .. m |-> name[k]] /\ m \in Nat
    BY <1>1, <1>2, <1>4 DEF IsString
  <2> HIDE DEF name
  <2>2. m = 0 => name = <<>>
    BY <2>1
  <2> QED
    BY <1>1, <2>2
<1>10. T[0] = GET /\ T[1] = SLASH /\ (T[2] = SPACE <=> m = 0)
  <2>1. PICK zero \in Nat, one \in Nat, two \in Nat, three \in Nat :
          zero = 0 /\ one = 1 /\ two = 2 /\ three = 3
    OBVIOUS
  <2>2. /\ zero \in 0 .. h-1 /\ one \in 0 .. h-1 /\ two \in 0 .. h-1
        /\ Sums(one, zero, 1) /\ Sums(two, one, 1) /\ Sums(three, two, 1)
    BY <1>2, <1>7, <2>1 DEF Sums
  <2>3. text[one] = GET /\ text[two] = SLASH
    BY <1>7, <2>1
  <2>4. T[zero] = GET /\ T[one] = SLASH
    BY <1>3, <1>8, <2>2, <2>3, CopyAt
  <2>5. text[three] \notin LineEnds /\ (text[three] = SPACE <=> m = 0)
    <3>1. CASE m = 0
      BY <1>7, <1>8, <2>1, <3>1
    <3>2. CASE m # 0
      <4>1. 1 \in 1 .. m /\ text[1+2] = name[1]
        BY <1>2, <1>7, <3>2
      <4>2. text[three] = name[1]
        BY <2>1, <4>1
      <4> QED
        BY <1>7, <3>2, <4>1, <4>2
    <3> QED
      BY <3>1, <3>2
  <2>6. T[two] = text[three]
    BY <1>3, <2>2, <2>5, CopyAt
  <2> HIDE DEF T
  <2> QED
    BY <2>1, <2>4, <2>5, <2>6
<1> HIDE DEF T, name
<1>11. AnswerGet(T) = IF name = <<>> THEN IF NoFile THEN "form" ELSE "link"
                      ELSE IF name = Filename THEN "file" ELSE "missing"
  BY <1>5, <1>6, <1>8, <1>9, <1>10, Zenon DEF AnswerGet
<1>12. Answers(r, AnswerGet(T))
  BY <1>5, <1>11, Zenon DEF Answers, name
<1> QED
  BY <1>10, <1>12 DEF T, name

(***************************************************************************)
(* The invariant.                                                          *)
(***************************************************************************)
Phases == {"none", "read", "scan", "ask", "form", "link", "file", "missing",
           "message", "saved", "exit"}

Accepted ==
  /\ request \in Requests /\ command \in Started /\ state \in {"serving", "waiting"}

(* The buffer holds what has arrived, up to the size that main allocates.  *)
Received ==
  /\ read_count \in 0 .. Len(request.text) /\ read_count <= DEFAULT_SIZE
  /\ read_count # 0 => buffer = Copy(request.text, 1, read_count, http_header)
  /\ phase = "scan" => read_count # 0
  /\ phase = "read" => read_count < Len(request.text)

HeaderRead ==
  \/ http_header = -1
  \/ http_header = request.header /\ http_header \in 1 .. read_count

BodyWaited ==
  phase \in {"read", "scan"} /\ http_header # -1 =>
    required \in Nat /\ required <= Len(request.text)

UploadRead ==
  request.kind = "upload" =>
    /\ phase \in {"read", "scan"} /\ http_header # -1 =>
         required = Len(request.text) /\ boundary = AsBuffer(request.mark)
    /\ phase \in {"ask", "saved", "message"} =>
         upload = [name |-> AsBuffer(request.name), file |-> AsBuffer(request.file)]

GetRead ==
  request.kind = "get" /\ phase \in {"form", "link", "file", "missing"} =>
    Answers(request, phase)

TextInv ==
  /\ ArgsInv /\ phase \in Phases
  /\ phase = "none" => request = NO_REQUEST /\ read_count = 0 /\ http_header = -1
  /\ phase # "none" => Accepted /\ Received /\ HeaderRead /\ BodyWaited
  /\ UploadRead /\ GetRead

LEMMA TextInitially == Init => TextInv
<1> SUFFICES ASSUME Init
             PROVE  TextInv
  OBVIOUS
<1>1. /\ request = NO_REQUEST /\ read_count = 0 /\ http_header = -1 /\ phase = "none"
  BY DEF Init
<1>2. ArgsInv
  BY ArgsInitially DEF Init
<1>3. request.kind = "none"
  BY <1>1 DEF NO_REQUEST
<1> QED
  BY <1>1, <1>2, <1>3, Zenon DEF TextInv, UploadRead, GetRead, Phases

(* A client is served by a server that has read its command line.          *)
LEMMA ArgsStep == TextInv /\ ArgsNext /\ UNCHANGED textVars => TextInv'
<1> SUFFICES ASSUME TextInv, ArgsNext, UNCHANGED textVars
             PROVE  TextInv'
  OBVIOUS
<1>1. ArgsInv'
  BY ArgsPreserved DEF TextInv
<1>2. /\ request' = request /\ read_count' = read_count /\ buffer' = buffer
      /\ http_header' = http_header /\ required' = required /\ boundary' = boundary
      /\ upload' = upload /\ phase' = phase
  BY DEF textVars
<1>3. state \in {"parse", "start"}
  BY DEF ArgsNext, Help, Address, SizeOption, Name, EndOfArguments, Start, Arg
<1>4. phase = "none"
  <2>1. state \notin {"serving", "waiting"}
    BY <1>3
  <2> QED
    BY <2>1, Zenon DEF TextInv, Accepted
<1>5. request.kind = "none" /\ request = NO_REQUEST
  BY <1>4 DEF TextInv, NO_REQUEST
<1> QED
  BY <1>1, <1>2, <1>4, <1>5, Zenon DEF TextInv, UploadRead, GetRead

LEMMA TextStutter == TextInv /\ UNCHANGED <<argsVars, textVars>> => TextInv'
<1> SUFFICES ASSUME TextInv, UNCHANGED <<argsVars, textVars>>
             PROVE  TextInv'
  OBVIOUS
<1>1. ArgsInv'
  BY ArgsStutter DEF TextInv
<1>2. /\ request' = request /\ read_count' = read_count /\ buffer' = buffer
      /\ http_header' = http_header /\ required' = required /\ boundary' = boundary
      /\ upload' = upload /\ phase' = phase /\ command' = command /\ state' = state
  BY DEF textVars, argsVars
<1> QED
  BY <1>1, <1>2 DEF TextInv, UploadRead, GetRead, Accepted, Received, HeaderRead, BodyWaited,
     Answers, NoFile

(* What the steps that serve a client leave alone.                         *)
LEMMA Serving ==
  ASSUME TextInv, UNCHANGED argsVars, phase # "none"
  PROVE  /\ ArgsInv' /\ command' = command /\ state' = state /\ max_size = DEFAULT_SIZE
         /\ request \in Requests /\ Accepted /\ Received /\ HeaderRead /\ BodyWaited
         /\ request' = request => Accepted'
<1>1. ArgsInv' /\ command' = command /\ state' = state
  BY ArgsStutter DEF TextInv, argsVars
<1>2. Accepted /\ Received /\ HeaderRead /\ BodyWaited /\ ArgsInv
  BY DEF TextInv
<1>3. max_size = DEFAULT_SIZE
  BY <1>2, NameServed DEF Accepted
<1>4. request' = request => Accepted'
  BY <1>1, <1>2 DEF Accepted
<1> QED
  BY <1>1, <1>2, <1>3, <1>4 DEF Accepted

LEMMA AcceptStep == TextInv /\ Accept /\ UNCHANGED argsVars => TextInv'
<1> SUFFICES ASSUME TextInv, Accept, UNCHANGED argsVars
             PROVE  TextInv'
  OBVIOUS
<1>1. /\ state \in {"serving", "waiting"} /\ command \in Started /\ phase = "none"
      /\ request' \in Requests /\ phase' = "read" /\ read_count' = read_count
      /\ http_header' = http_header
  BY DEF Accept
<1>2. read_count' = 0 /\ http_header' = -1
  BY <1>1 DEF TextInv
<1>3. ArgsInv' /\ command' = command /\ state' = state
  BY ArgsStutter DEF TextInv, argsVars
<1>4. Accepted' /\ HeaderRead' /\ BodyWaited' /\ UploadRead' /\ GetRead'
  BY <1>1, <1>2, <1>3 DEF Accepted, HeaderRead, BodyWaited, UploadRead, GetRead
<1>5. Received'
  <2>1. PICK r \in Requests : r = request'
    BY <1>1
  <2>2. Len(r.text) \in Nat /\ DEFAULT_SIZE \in Nat
    BY RequestType, CommandLineAssumption
  <2>3. Len(r.text) > 0
    <3>1. CASE r.header = -1
      BY <2>2, <3>1, RequestType
    <3>2. CASE r.header # -1
      <4>1. r.header \in 1 .. Len(r.text)
        BY <3>2, RequestType
      <4> QED
        BY <2>2, <4>1
    <3> QED
      BY <3>1, <3>2
  <2>4. Len(request'.text) \in Nat /\ Len(request'.text) > 0
    BY <2>1, <2>2, <2>3
  <2> QED
    BY <1>1, <1>2, <2>2, <2>4 DEF Received
<1> QED
  BY <1>1, <1>3, <1>4, <1>5 DEF TextInv, Phases

LEMMA ArriveStep == TextInv /\ Arrive /\ UNCHANGED argsVars => TextInv'
<1> SUFFICES ASSUME TextInv, Arrive, UNCHANGED argsVars
             PROVE  TextInv'
  OBVIOUS
<1>1. PICK n \in read_count + 1 .. Len(request.text) :
        /\ n <= max_size /\ read_count' = n
        /\ buffer' = [i \in 0 .. n - 1 |->
                       IF i < read_count THEN buffer[i] ELSE request.text[i + 1]]
  BY DEF Arrive
<1>2. /\ phase = "read" /\ phase' = "scan" /\ request' = request /\ upload' = upload
      /\ http_header' = http_header /\ required' = required /\ boundary' = boundary
  BY DEF Arrive
<1>3. /\ ArgsInv' /\ max_size = DEFAULT_SIZE /\ request \in Requests
      /\ Accepted' /\ Received /\ HeaderRead /\ BodyWaited
  BY <1>2, Serving
<1>4. Len(request.text) \in Nat
  BY <1>3, RequestType
<1>5. n \in Nat /\ n # 0 /\ read_count \in Nat /\ read_count < n /\ n <= Len(request.text)
  BY <1>1, <1>3, <1>4 DEF Received
<1>6. HeaderRead' /\ http_header \in Int /\ http_header <= read_count
  <2>1. CASE http_header = -1
    BY <1>2, <1>5, <2>1 DEF HeaderRead
  <2>2. CASE http_header # -1
    <3>1. http_header = request.header /\ http_header \in 1 .. read_count
      BY <1>3, <2>2 DEF HeaderRead
    <3> QED
      BY <1>1, <1>2, <1>5, <3>1 DEF HeaderRead
  <2> QED
    BY <2>1, <2>2
<1>7. buffer' = Copy(request.text, 1, n, http_header)
  <2>1. ASSUME NEW i \in 0 .. n-1
        PROVE  (IF i < read_count THEN buffer[i] ELSE request.text[i + 1])
                 = IF i < http_header /\ request.text[1+i] \in LineEnds THEN NUL
                   ELSE request.text[1+i]
    <3>1. CASE i < read_count
      <4>1. read_count # 0 /\ i \in 0 .. read_count - 1
        BY <1>5, <3>1
      <4>2. buffer = Copy(request.text, 1, read_count, http_header)
        BY <1>3, <4>1 DEF Received
      <4> QED
        BY <3>1, <4>1, <4>2 DEF Copy
    <3>2. CASE ~(i < read_count)
      <4>1. ~(i < http_header) /\ i + 1 = 1 + i
        BY <1>5, <1>6, <3>2
      <4> QED
        BY <3>2, <4>1
    <3> QED
      BY <3>1, <3>2
  <2> QED
    BY <1>1, <2>1 DEF Copy
<1>8. Received'
  BY <1>1, <1>2, <1>3, <1>4, <1>5, <1>7 DEF Received
<1>9. BodyWaited' /\ UploadRead' /\ GetRead'
  BY <1>2, <1>3 DEF BodyWaited, UploadRead, GetRead, TextInv
<1> QED
  BY <1>2, <1>3, <1>6, <1>8, <1>9 DEF TextInv, Phases

LEMMA BufferExhaustedStep == TextInv /\ BufferExhausted /\ UNCHANGED argsVars => TextInv'
<1> SUFFICES ASSUME TextInv, BufferExhausted, UNCHANGED argsVars
             PROVE  TextInv'
  OBVIOUS
<1>1. /\ phase = "read" /\ phase' = "exit" /\ request' = request
      /\ read_count' = read_count /\ buffer' = buffer /\ http_header' = http_header
  BY DEF BufferExhausted
<1>2. ArgsInv' /\ request \in Requests /\ Accepted' /\ Received /\ HeaderRead
  BY <1>1, Serving
<1> QED
  BY <1>1, <1>2 DEF TextInv, Phases, Received, HeaderRead, BodyWaited, UploadRead, GetRead

(* What has arrived, when main looks for the end of the header.            *)
LEMMA Arrived ==
  ASSUME TextInv, phase = "scan", http_header = -1
  PROVE  /\ read_count \in Nat /\ read_count <= Len(request.text) /\ read_count <= DEFAULT_SIZE
         /\ buffer = Copy(request.text, 1, read_count, -1) /\ request \in Requests
         /\ buffer = Copy(request.text, 1, read_count, 0)
         /\ Len(request.text) \in Nat
<1>1. Accepted /\ Received
  BY DEF TextInv
<1>2. request \in Requests /\ Len(request.text) \in Nat
  BY <1>1, RequestType DEF Accepted
<1>3. /\ read_count \in Nat /\ read_count <= Len(request.text) /\ read_count <= DEFAULT_SIZE
      /\ buffer = Copy(request.text, 1, read_count, -1)
  BY <1>1, <1>2 DEF Received
<1>4. Copy(request.text, 1, read_count, -1) = Copy(request.text, 1, read_count, 0)
  BY DEF Copy
<1> QED
  BY <1>2, <1>3, <1>4

(* header_scan finds the end of the header as soon as it has arrived.      *)
LEMMA Scanned ==
  ASSUME TextInv, phase = "scan", http_header = -1
  PROVE  IF HasHeader(request, read_count) /\ request.header # -1
         THEN header_scan(buffer) = request.header /\ request.header \in 1 .. read_count
         ELSE header_scan(buffer) = -1 /\ read_count < Len(request.text)
<1> DEFINE r    == request
           text == request.text
           n    == read_count
           h    == request.header
<1>1. /\ n \in Nat /\ n <= Len(text) /\ n <= DEFAULT_SIZE /\ r \in Requests
      /\ buffer = Copy(text, 1, n, 0) /\ Len(text) \in Nat
  BY Arrived
<1>2. /\ h = -1 => /\ Len(text) > DEFAULT_SIZE
                   /\ \A k \in 1 .. Len(text) : ~EndsEmptyLine(text, 1, k)
      /\ h # -1 => /\ h \in 1 .. Len(text) /\ h < 1 + SCAN_LIMIT
                   /\ HeaderEnds(text, 1, h)
  BY <1>1, RequestType
<1>3. DEFAULT_SIZE \in Nat
  BY CommandLineAssumption
<1> HIDE DEF text
<1>4. CASE HasHeader(r, n) /\ h # -1
  <2>1. h \in 1 .. n
    BY <1>1, <1>2, <1>4 DEF HasHeader
  <2>2. PICK from \in Nat : from = 1
    OBVIOUS
  <2>3. h \in from .. from + n - 1 /\ HeaderEnds(text, from, h) /\ h < from + SCAN_LIMIT
    BY <1>1, <1>2, <1>4, <2>1, <2>2
  <2>4. header_scan(Copy(text, from, n, 0)) = h - from + 1
    BY <1>1, <2>3, ScanFinds
  <2>5. header_scan(buffer) = h
    BY <1>1, <2>1, <2>2, <2>4
  <2> QED
    BY <1>4, <2>1, <2>5
<1>5. CASE ~(HasHeader(r, n) /\ h # -1)
  <2>1. n < Len(text) /\ \A k \in 1 .. n : ~EndsEmptyLine(text, 1, k)
    <3>1. CASE h = -1
      <4>1. \A k \in 1 .. n : k \in 1 .. Len(text)
        BY <1>1
      <4> QED
        BY <1>1, <1>2, <1>3, <3>1, <4>1
    <3>2. CASE h # -1
      <4>1. ~(n \in h .. Len(text)) /\ h \in 1 .. Len(text)
        BY <1>2, <1>5, <3>2 DEF HasHeader, text
      <4>2. n < h
        BY <1>1, <4>1
      <4>3. \A k \in 1 .. n : k \in 1 .. h-1
        BY <1>1, <4>1, <4>2
      <4>4. \A k \in 1 .. h-1 : ~EndsEmptyLine(text, 1, k)
        BY <1>2, <3>2 DEF HeaderEnds
      <4> QED
        BY <1>1, <4>1, <4>2, <4>3, <4>4
    <3> QED
      BY <3>1, <3>2
  <2>2. PICK from \in Nat : from = 1
    OBVIOUS
  <2>3. \A k \in from .. from + n - 1 : ~EndsEmptyLine(text, from, k)
    BY <1>1, <2>1, <2>2
  <2>4. header_scan(Copy(text, from, n, 0)) = -1
    BY <1>1, <2>3, ScanNone
  <2>5. header_scan(buffer) = -1
    BY <1>1, <2>2, <2>4
  <2> QED
    BY <1>5, <2>1, <2>5 DEF text
<1> QED
  BY <1>4, <1>5

LEMMA HeaderMissingStep == TextInv /\ HeaderMissing /\ UNCHANGED argsVars => TextInv'
<1> SUFFICES ASSUME TextInv, HeaderMissing, UNCHANGED argsVars
             PROVE  TextInv'
  OBVIOUS
<1>1. /\ phase = "scan" /\ phase' = "read" /\ request' = request /\ http_header = -1
      /\ read_count' = read_count /\ buffer' = buffer /\ http_header' = http_header
      /\ header_scan(buffer) = -1
  BY DEF HeaderMissing
<1>2. ArgsInv' /\ request \in Requests /\ Accepted' /\ Received /\ HeaderRead
  BY <1>1, Serving
<1>3. read_count < Len(request.text)
  <2>1. header_scan(buffer) = request.header => request.header = -1
    BY <1>1
  <2> QED
    BY <1>1, <2>1, Scanned, Zenon
<1> QED
  BY <1>1, <1>2, <1>3 DEF TextInv, Phases, Received, HeaderRead, BodyWaited, UploadRead, GetRead

(* The header that Get and Post go on with.                                *)
LEMMA HeaderFound ==
  ASSUME TextInv, phase = "scan", http_header = -1, http_header' = header_scan(buffer),
         http_header' # -1, buffer' = split_header(buffer, http_header'),
         request' = request, read_count' = read_count, UNCHANGED argsVars
  PROVE  /\ http_header' = request.header /\ request.header \in 1 .. read_count
         /\ HasHeader(request, read_count) /\ read_count \in Nat
         /\ buffer' = Copy(request.text, 1, read_count, request.header)
         /\ HeaderRead'
         /\ phase' # "read" => Received'
<1>1. /\ read_count \in Nat /\ read_count <= Len(request.text) /\ read_count <= DEFAULT_SIZE
      /\ buffer = Copy(request.text, 1, read_count, 0) /\ Len(request.text) \in Nat
  BY Arrived
<1>2. /\ HasHeader(request, read_count) /\ http_header' = request.header
      /\ request.header \in 1 .. read_count
  BY Scanned
<1>3. buffer' = Copy(request.text, 1, read_count, request.header)
  <2>1. PICK h \in Int : h = request.header
    BY <1>2
  <2>2. PICK from \in Nat, z \in Int : from = 1 /\ z = 0
    OBVIOUS
  <2>3. split_header(Copy(request.text, from, read_count, z), h)
          = Copy(request.text, from, read_count, h)
    BY <1>1, <2>2, SplitIs
  <2> QED
    BY <1>1, <1>2, <2>1, <2>2, <2>3
<1>4. HeaderRead'
  BY <1>2 DEF HeaderRead
<1>5. phase = "scan" => read_count # 0
  BY DEF TextInv, Received
<1> QED
  BY <1>1, <1>2, <1>3, <1>4, <1>5 DEF Received

LEMMA GetStep == TextInv /\ Get /\ UNCHANGED argsVars => TextInv'
<1> SUFFICES ASSUME TextInv, Get, UNCHANGED argsVars
             PROVE  TextInv'
  OBVIOUS
<1>1. /\ phase = "scan" /\ http_header = -1 /\ http_header' = header_scan(buffer)
      /\ http_header' # -1 /\ buffer' = split_header(buffer, http_header')
      /\ buffer'[0] = GET /\ phase' = AnswerGet(buffer')
      /\ request' = request /\ read_count' = read_count
  BY DEF Get
<1>2. /\ ArgsInv' /\ request \in Requests /\ Accepted' /\ Accepted /\ command' = command
  BY <1>1, Serving
<1>3. /\ http_header' = request.header /\ request.header \in 1 .. read_count
      /\ HasHeader(request, read_count) /\ read_count \in Nat
      /\ buffer' = Copy(request.text, 1, read_count, request.header)
      /\ HeaderRead' /\ (phase' # "read" => Received')
  BY <1>1, HeaderFound
<1>4. phase' \in {"form", "link", "file", "missing"}
  BY <1>1, Zenon DEF AnswerGet
<1>5. Received' /\ BodyWaited'
  <2>1. phase' \notin {"read", "scan"} /\ phase' # "read"
    BY <1>4
  <2>2. BodyWaited'
    BY <2>1, Zenon DEF BodyWaited
  <2> QED
    BY <1>3, <2>1, <2>2
<1>6. GetRead'
  <2> SUFFICES ASSUME request.kind = "get"
               PROVE  Answers(request, phase)'
    BY <1>1, Zenon DEF GetRead
  <2>1. PICK h : h = request.header
    OBVIOUS
  <2>2. ArgsInv /\ command \in Started /\ state \in {"serving", "waiting"}
    BY <1>2, Zenon DEF TextInv, Accepted
  <2>3. Answers(request, AnswerGet(Copy(request.text, 1, read_count, h)))
    BY <1>2, <1>3, <2>1, <2>2, GetAnswers
  <2>4. Answers(request, phase')
    BY <1>1, <1>3, <2>1, <2>3
  <2> QED
    BY <1>1, <1>2, <2>4, Zenon DEF Answers, NoFile
<1>7. UploadRead'
  <2>1. /\ phase' \notin {"read", "scan", "ask", "saved", "message"}
    BY <1>4
  <2> QED
    BY <1>1, <2>1, Zenon DEF UploadRead
<1>8. phase' \in Phases /\ phase' # "none"
  BY <1>4 DEF Phases
<1> QED
  BY <1>2, <1>3, <1>5, <1>6, <1>7, <1>8 DEF TextInv

LEMMA PostStep == TextInv /\ Post /\ UNCHANGED argsVars => TextInv'
<1> SUFFICES ASSUME TextInv, Post, UNCHANGED argsVars
             PROVE  TextInv'
  OBVIOUS
<1> DEFINE T             == Copy(request.text, 1, read_count, request.header)
           content_index == header_value(T, request.header, CONTENT_LENGTH)
           content_type  == header_value(T, request.header, CONTENT_TYPE)
           field         == Find(T, content_type, BOUNDARY)
           wanted        == Part(T, field + 1, StringEnd(T, field))
<1>1. /\ phase = "scan" /\ http_header = -1 /\ http_header' = header_scan(buffer)
      /\ http_header' # -1 /\ buffer' = split_header(buffer, http_header')
      /\ buffer'[0] = POST /\ upload' = upload
      /\ request' = request /\ read_count' = read_count
  BY DEF Post
<1>2. /\ ArgsInv' /\ request \in Requests /\ Accepted' /\ max_size = DEFAULT_SIZE
  BY <1>1, Serving
<1>3. /\ http_header' = request.header /\ request.header \in 1 .. read_count
      /\ HasHeader(request, read_count) /\ read_count \in Nat
      /\ buffer' = T
      /\ HeaderRead' /\ (phase' # "read" => Received')
  BY <1>1, HeaderFound
<1>4. \/ /\ phase' = "message"
         /\ \/ content_index = -1 \/ content_type = -1 \/ field = -1
            \/ T[content_index] \notin 0 .. max_size
            \/ T[content_index] + request.header > max_size - 1
      \/ /\ content_index # -1 /\ T[content_index] \in 0 .. max_size
         /\ required' = T[content_index] + request.header
         /\ boundary' = wanted /\ phase' = phase
  <2> HIDE DEF T
  <2>1. \/ /\ phase' = "message"
           /\ \/ content_index = -1
              \/ (IF content_type = -1 THEN -1 ELSE field) = -1
              \/ T[content_index] \notin 0 .. max_size
              \/ T[content_index] + request.header > max_size - 1
        \/ /\ content_index # -1 /\ T[content_index] \in 0 .. max_size
           /\ ~((IF content_type = -1 THEN -1 ELSE field) = -1)
           /\ required' = T[content_index] + request.header
           /\ boundary' = Part(T, (IF content_type = -1 THEN -1 ELSE field) + 1,
                               StringEnd(T, IF content_type = -1 THEN -1 ELSE field))
           /\ phase' = phase
    BY <1>3, Zenon DEF Post
  <2>2. CASE content_type = -1
    BY <2>1, <2>2
  <2>3. CASE content_type # -1
    BY <2>1, <2>3
  <2> QED
    BY <2>2, <2>3
<1> HIDE DEF T, content_index, content_type, field, wanted
<1>5. phase' \in {"message", "scan"} /\ Received'
  <2>1. phase' = "message" \/ phase' = "scan"
    BY <1>1, <1>4
  <2>2. phase' # "read"
    BY <2>1
  <2> QED
    BY <1>3, <2>1, <2>2
<1>6. GetRead' /\ phase' \in Phases /\ phase' # "none"
  <2>1. phase' \notin {"form", "link", "file", "missing"}
    BY <1>5
  <2> QED
    BY <1>5, <2>1 DEF GetRead, Phases
<1>7. BodyWaited'
  <2> SUFFICES ASSUME phase' = "scan"
               PROVE  required' \in Nat /\ required' <= Len(request'.text)
    BY <1>5 DEF BodyWaited
  <2>1. /\ content_index # -1 /\ T[content_index] \in 0 .. max_size
        /\ required' = T[content_index] + request.header
    BY <1>4
  <2>2. PICK h \in Nat : h = request.header
    BY <1>3
  <2>3. T[content_index] \in Nat /\ required' \in Nat
    BY <1>2, <1>3, <2>1, CommandLineAssumption
  <2>4. T[content_index] + h <= Len(request.text)
    <3>1. /\ content_index = header_value(Copy(request.text, 1, read_count, h), h, CONTENT_LENGTH)
          /\ T = Copy(request.text, 1, read_count, h)
      BY <2>2 DEF content_index, T
    <3> QED
      BY <1>2, <1>3, <2>1, <2>2, <2>3, <3>1, LengthKept
  <2> QED
    BY <1>1, <2>1, <2>2, <2>3, <2>4
<1>8. UploadRead'
  <2> SUFFICES ASSUME request.kind = "upload"
               PROVE  /\ phase' = "scan" /\ required' = Len(request.text)
                      /\ boundary' = AsBuffer(request.mark)
    BY <1>1, <1>5 DEF UploadRead
  <2>1. /\ content_index # -1 /\ content_type # -1 /\ field # -1
        /\ T[content_index] = Len(request.text) - request.header
        /\ wanted = AsBuffer(request.mark)
    BY <1>2, <1>3, UploadFields DEF T, content_index, content_type, field, wanted
  <2>2. Len(request.text) \in Nat /\ Len(request.text) < DEFAULT_SIZE /\ DEFAULT_SIZE \in Nat
    BY <1>2, RequestType, RequestsAssumption, CommandLineAssumption
  <2>3. /\ request.header \in Nat /\ request.header <= Len(request.text)
    BY <1>3, <2>2 DEF HasHeader
  <2>4. /\ T[content_index] \in 0 .. max_size
        /\ T[content_index] + request.header = Len(request.text)
        /\ ~(T[content_index] + request.header > max_size - 1)
    BY <1>2, <2>1, <2>2, <2>3
  <2> QED
    BY <1>1, <1>4, <2>1, <2>4
<1> QED
  BY <1>2, <1>3, <1>5, <1>6, <1>7, <1>8 DEF TextInv

LEMMA BodyMissingStep == TextInv /\ BodyMissing /\ UNCHANGED argsVars => TextInv'
<1> SUFFICES ASSUME TextInv, BodyMissing, UNCHANGED argsVars
             PROVE  TextInv'
  OBVIOUS
<1>1. /\ phase = "scan" /\ phase' = "read" /\ http_header # -1 /\ ~(read_count >= required)
      /\ request' = request /\ read_count' = read_count /\ buffer' = buffer
      /\ http_header' = http_header /\ required' = required /\ boundary' = boundary
      /\ upload' = upload
  BY DEF BodyMissing, BodyComplete
<1>2. ArgsInv' /\ request \in Requests /\ Accepted' /\ Received /\ HeaderRead /\ BodyWaited
  BY <1>1, Serving
<1>3. read_count < Len(request.text)
  <2>1. required \in Nat /\ required <= Len(request.text) /\ Len(request.text) \in Nat
    BY <1>1, <1>2, RequestType DEF BodyWaited
  <2>2. read_count \in Nat
    BY <1>2, <2>1 DEF Received
  <2> QED
    BY <1>1, <2>1, <2>2
<1> QED
  BY <1>1, <1>2, <1>3 DEF TextInv, Phases, Received, HeaderRead, BodyWaited, UploadRead, GetRead

LEMMA ParseStep == TextInv /\ Parse /\ UNCHANGED argsVars => TextInv'
<1> SUFFICES ASSUME TextInv, Parse, UNCHANGED argsVars
             PROVE  TextInv'
  OBVIOUS
<1>1. /\ phase = "scan" /\ phase' \in {"message", "ask"} /\ http_header # -1
      /\ read_count >= required /\ upload' = ParseContent(Part(buffer, http_header, required))
      /\ request' = request /\ read_count' = read_count /\ buffer' = buffer
      /\ http_header' = http_header
  BY DEF Parse, BodyComplete
<1>2. ArgsInv' /\ request \in Requests /\ Accepted' /\ Received /\ HeaderRead /\ BodyWaited
  BY <1>1, Serving
<1>3. UploadRead'
  <2> SUFFICES ASSUME request.kind = "upload"
               PROVE  upload' = [name |-> AsBuffer(request.name), file |-> AsBuffer(request.file)]
    BY <1>1 DEF UploadRead
  <2>1. required = Len(request.text) /\ boundary = AsBuffer(request.mark)
    BY <1>1 DEF TextInv, UploadRead
  <2>2. /\ http_header = request.header /\ http_header \in 1 .. read_count
        /\ Len(request.text) \in Nat /\ read_count \in 0 .. Len(request.text)
    BY <1>1, <1>2, RequestType DEF HeaderRead, Received
  <2>3. read_count = Len(request.text) /\ read_count # 0
    BY <1>1, <2>1, <2>2
  <2>4. buffer = Copy(request.text, 1, read_count, request.header)
    BY <1>2, <2>2, <2>3 DEF Received
  <2>5. PICK h \in Nat, from \in Nat, n \in Nat :
          h = request.header /\ from = 1 /\ n = read_count
    BY <2>2
  <2>6. h \in 1 .. n
    BY <2>2, <2>5
  <2>7. Part(Copy(request.text, from, n, h), h, n) = Copy(request.text, from + h, n - h, 0)
    BY <2>6, PartIs
  <2>8. /\ from + h = request.header + 1 /\ n - h = Len(request.text) - request.header
    BY <2>2, <2>3, <2>5
  <2>9. Part(buffer, http_header, required)
          = Copy(request.text, request.header + 1, Len(request.text) - request.header, 0)
    BY <2>1, <2>2, <2>3, <2>4, <2>5, <2>7, <2>8
  <2> QED
    BY <1>1, <1>2, <2>1, <2>9, UploadParsed
<1> QED
  BY <1>1, <1>2, <1>3 DEF TextInv, Phases, Received, HeaderRead, BodyWaited, GetRead

LEMMA AskStep ==
  ASSUME TextInv, NEW answer, Ask(answer), UNCHANGED argsVars
  PROVE  TextInv'
<1>1. phase = "ask" /\ phase' \in {"message", "saved", "ask"}
  <2>1. \/ phase' \in {"message"}
        \/ phase' \in {"saved", "message"}
        \/ phase' \in {"ask"}
    BY Zenon DEF Ask
  <2>2. phase = "ask"
    BY DEF Ask
  <2> QED
    BY <2>1, <2>2
<1>2. /\ request' = request /\ read_count' = read_count /\ buffer' = buffer
      /\ http_header' = http_header /\ upload' = upload
  BY Zenon DEF Ask
<1>3. ArgsInv' /\ request \in Requests /\ Accepted' /\ Received /\ HeaderRead /\ BodyWaited
  BY <1>1, <1>2, Serving
<1> QED
  BY <1>1, <1>2, <1>3 DEF TextInv, Phases, Received, HeaderRead, BodyWaited, UploadRead, GetRead

LEMMA TextInvariant == Spec => []TextInv
<1>1. TextInv /\ [Next]_<<argsVars, textVars>> => TextInv'
  <2> SUFFICES ASSUME TextInv, [Next]_<<argsVars, textVars>>
               PROVE  TextInv'
    OBVIOUS
  <2>1. CASE ArgsNext /\ UNCHANGED textVars
    BY <2>1, ArgsStep
  <2>2. CASE (Accept \/ Arrive) /\ UNCHANGED argsVars
    BY <2>2, AcceptStep, ArriveStep
  <2>3. CASE Server /\ UNCHANGED argsVars
    <3>1. ASSUME NEW answer, Ask(answer)
          PROVE  TextInv'
      BY <2>3, <3>1, AskStep
    <3> QED
      BY <2>3, <3>1, BufferExhaustedStep, HeaderMissingStep, GetStep, PostStep,
         BodyMissingStep, ParseStep DEF Server
  <2>4. CASE UNCHANGED <<argsVars, textVars>>
    BY <2>4, TextStutter
  <2> QED
    BY <2>1, <2>2, <2>3, <2>4 DEF Next
<1> QED
  BY <1>1, TextInitially, PTL DEF Spec

(* header_scan finds the end of the header where it is, however the        *)
(* request arrives.                                                        *)
THEOREM HeaderIsExact == Spec => []HeaderExact
<1>1. TextInv => HeaderExact
  <2>1. NO_REQUEST.header = -1
    BY DEF NO_REQUEST
  <2> QED
    BY <2>1, Zenon DEF TextInv, HeaderRead, HeaderExact
<1> QED
  BY <1>1, TextInvariant, PTL

(* main never waits for more than the client will send.                    *)
THEOREM NobodyWaits == Spec => []NoMutualWait
<1>1. TextInv => NoMutualWait
  BY Zenon DEF TextInv, Received, NoMutualWait
<1> QED
  BY <1>1, TextInvariant, PTL

(* The file is served under the name of the command line, under no other,  *)
(* and never by a server that waits for an upload.                         *)
THEOREM LinkIsServed == Spec => []LinkServesFile
<1>1. TextInv => LinkServesFile
  BY Zenon DEF TextInv, GetRead, Answers, NoFile, LinkServesFile
<1> QED
  BY <1>1, TextInvariant, PTL

(* parse_http_content finds the file of every upload, byte for byte, and   *)
(* its name.                                                               *)
THEOREM UploadArrives == Spec => []UploadRoundTrip
<1>1. TextInv => UploadRoundTrip
  BY Zenon DEF TextInv, UploadRead, UploadRoundTrip
<1> QED
  BY <1>1, TextInvariant, PTL
=============================================================================
