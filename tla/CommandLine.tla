---------------------------- MODULE CommandLine -----------------------------
(***************************************************************************)
(* The command line of src/web_server.c: the loop of main over argv, and   *)
(* the start of the server with what it found.  A command line is written  *)
(* as a sequence of options, each with its arguments; the code sees their  *)
(* concatenation, argv.                                                    *)
(***************************************************************************)
EXTENDS Integers, Sequences, SequencesExt

CONSTANTS
  Options,      \* what a user may write: <<"-h">>, <<"-i", address>>, ...
  Addresses,    \* arguments that parse as an address
  SizeOf,       \* arguments that parse as a number -> their value
  MaxOptions,   \* bound: options of a command line
  DEFAULT_IP, DEFAULT_SIZE, SIZE_LIMIT, NO_NAME

ASSUME CommandLineAssumption ==
  /\ DEFAULT_SIZE \in Nat /\ SIZE_LIMIT \in Nat /\ MaxOptions \in Nat
  /\ \A o \in Options : \/ o = <<o[1]>>
                        \/ o = <<o[1], o[2]>> /\ o[1] \in {"-i", "-m"}
  /\ NO_NAME \notin UNION {ToSet(o) : o \in Options}
  /\ DOMAIN SizeOf \cap {"-h", "-i", "-m"} = {}

VARIABLES
  command,     \* what the user wrote
  j,           \* index into argv
  ip_addr, max_size, filename,
  state        \* "parse", "start", "help", "error", "waiting", "serving"

argsVars == <<command, j, ip_addr, max_size, filename, state>>
settings == <<ip_addr, max_size, filename>>

argv == FlattenSeq(command)

(* Faulty forms of definitions below; nothing uses them.                   *)
FaultTakeName ==     \* the last name counts
  filename' = argv[j] /\ j' = j + 1 /\ UNCHANGED state

(***************************************************************************)
(* One round of the loop.                                                  *)
(***************************************************************************)
Skip == 2          \* j++ in the branch and in the loop

Arg(option) == state = "parse" /\ j <= Len(argv) /\ argv[j] = option

HasArgument == j < Len(argv)

Help ==
  /\ Arg("-h")
  /\ state' = "help"
  /\ UNCHANGED <<command, j, settings>>

Address ==
  /\ Arg("-i") /\ HasArgument
  /\ IF argv[j + 1] \in Addresses
     THEN ip_addr' = argv[j + 1] /\ j' = j + Skip /\ UNCHANGED state
     ELSE state' = "error" /\ UNCHANGED <<ip_addr, j>>
  /\ UNCHANGED <<command, max_size, filename>>

TakeName ==
  IF filename # NO_NAME
  THEN state' = "error" /\ UNCHANGED <<j, filename>>
  ELSE filename' = argv[j] /\ j' = j + 1 /\ UNCHANGED state

(* This branch does not end the round: "-m" is then taken for a name.  The *)
(* limit is compared with the old size.                                    *)
SizeOption ==
  /\ Arg("-m") /\ HasArgument
  /\ IF argv[j + 1] \notin DOMAIN SizeOf \/ max_size > SIZE_LIMIT
     THEN state' = "error" /\ UNCHANGED <<j, max_size, filename>>
     ELSE max_size' = SizeOf[argv[j + 1]] /\ TakeName
  /\ UNCHANGED <<command, ip_addr>>

Name ==
  /\ \/ \E i \in DOMAIN argv : i = j /\ argv[i] \notin {"-h", "-i", "-m"}
     \/ (Arg("-i") \/ Arg("-m")) /\ ~HasArgument
  /\ state = "parse"
  /\ TakeName
  /\ UNCHANGED <<command, ip_addr, max_size>>

EndOfArguments ==
  /\ state = "parse" /\ j > Len(argv)
  /\ state' = "start"
  /\ UNCHANGED <<command, j, settings>>

(* The stack may not start, the memory or the file may not be there.       *)
Start ==
  /\ state = "start"
  /\ state' \in {"error", IF filename = NO_NAME THEN "waiting" ELSE "serving"}
  /\ UNCHANGED <<command, j, settings>>

ArgsInit ==
  /\ command \in SeqOf(Options, MaxOptions)
  /\ j = 1 /\ state = "parse"
  /\ ip_addr = DEFAULT_IP /\ max_size = DEFAULT_SIZE /\ filename = NO_NAME

ArgsNext == Help \/ Address \/ SizeOption \/ Name \/ EndOfArguments \/ Start

(***************************************************************************)
(* Properties.                                                             *)
(***************************************************************************)
OptionAt(c, option) == {i \in DOMAIN c : c[i][1] = option}
NameAt(c)           == {i \in DOMAIN c : Len(c[i]) = 1 /\ c[i][1] # "-h"}

(* Every option has its argument; a lone one is not told from a name.      *)
Complete(c) == \A i \in DOMAIN c : Len(c[i]) = 1 => c[i][1] \notin {"-i", "-m"}

(* A line without help, with good arguments and at most one name.          *)
WellFormed(c) ==
  /\ Complete(c) /\ OptionAt(c, "-h") = {}
  /\ \A i, k \in NameAt(c) : i = k
  /\ \A i \in OptionAt(c, "-i") : c[i][2] \in Addresses
  /\ \A i \in OptionAt(c, "-m") : c[i][2] \in DOMAIN SizeOf

LastOf(c, option, default) ==
  IF OptionAt(c, option) = {} THEN default ELSE c[Max(OptionAt(c, option))][2]

NameOf(c) ==
  IF NameAt(c) = {} THEN NO_NAME ELSE c[CHOOSE i \in NameAt(c) : TRUE][1]

(* The options of the usage text may be written in any order and number,   *)
(* with or without a file name, and mean what it says; a line that it does *)
(* not allow starts nothing.  No line that it allows is refused before the *)
(* server starts, "-m size" excepted: SizeOption takes it for a file name. *)
UsageHolds ==
  /\ Complete(command) /\ state \in {"start", "waiting", "serving"} =>
       /\ WellFormed(command)
       /\ ip_addr = LastOf(command, "-i", DEFAULT_IP)
       /\ filename = NameOf(command)
       /\ \/ OptionAt(command, "-m") = {}
          \/ max_size = SizeOf[LastOf(command, "-m", "")]
  /\ WellFormed(command) /\ OptionAt(command, "-m") = {} /\ state = "error" =>
       j > Len(argv)
=============================================================================
