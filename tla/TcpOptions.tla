----------------------------- MODULE TcpOptions -----------------------------
(***************************************************************************)
(* The options of a SYN: scan_options of src/ip_stack.c step by step, and  *)
(* what handle_tcp_packet makes of the two options it looks for.  The      *)
(* options are a sequence of bytes; the pointer buf is an index into it.   *)
(* IpStack brings the SYN.                                                 *)
(***************************************************************************)
EXTENDS Checksum

CONSTANTS
  MAX_SEGMENT,   \* 1400
  MAX_SCALE      \* 14

ASSUME OptionsAssumption == MAX_SEGMENT \in 1 .. WORDS - 49 /\ MAX_SCALE \in Nat

MSS   == 2     \* maximum segment size
SCALE == 3     \* window scale

VARIABLES
  list,      \* history: the [kind, value] the client put into its options
  options,   \* the bytes of it
  kind,      \* what scan_options looks for
  buf,       \* its pointer
  found,     \* its results: kind -> value, -1 for none
  syn        \* [state : "none", "scan", "refused" or "taken",
             \*  max_segment, window_scale]

scanVars == <<list, options, kind, buf, found, syn>>

(***************************************************************************)
(* scan_options: one round of its loop.                                    *)
(***************************************************************************)
InLoop == buf < Len(options)

Return(value) ==
  /\ found' = [found EXCEPT ![kind] = value]
  /\ kind' = kind + 1 /\ buf' = 1
  /\ UNCHANGED <<list, options, syn>>

GoOn(position) == buf' = position /\ UNCHANGED <<list, options, kind, found, syn>>

(* Faulty forms of definitions below; nothing uses them.                   *)
FaultTruncated(size) ==                  \* checked for the wanted option only
  options[buf] = kind /\ buf + size > Len(options) + 1
FaultAfter(size)     == buf + size + 1   \* as if the size did not count itself
FaultPadding         ==                  \* no step over the byte
  syn.state = "scan" /\ kind <= SCALE /\ InLoop /\ options[buf] = NOP /\ GoOn(buf)

Truncated(size) == buf + size > Len(options) + 1

(* The size of an option is that of its kind and size bytes and its value. *)
After(size) == buf + size

Value(size) ==
  IF size = 4 THEN options[buf + 2] * BASE + options[buf + 3]
  ELSE IF size = 3 THEN options[buf + 2] ELSE -1

Scanning == syn.state = "scan" /\ kind \in {MSS, SCALE}

EndOfLoop == Scanning /\ ~InLoop /\ Return(-1)

EndOfList == Scanning /\ InLoop /\ options[buf] = END_OF_LIST /\ Return(-1)

Padding == Scanning /\ InLoop /\ options[buf] = NOP /\ GoOn(buf + 1)

Option ==
  /\ Scanning /\ InLoop
  /\ options[buf] \notin {END_OF_LIST, NOP}
  /\ LET size == options[buf + 1]
     IN  IF Truncated(size) THEN Return(-1)
         ELSE IF options[buf] = kind THEN Return(Value(size))
         ELSE GoOn(After(size))

(***************************************************************************)
(* handle_tcp_packet, TCP_LISTEN: a SYN is taken or ignored.               *)
(***************************************************************************)
Acceptable(f) == f[SCALE] <= MAX_SCALE /\ f[MSS] # 0

Decide ==
  /\ syn.state = "scan" /\ kind > SCALE
  /\ syn' = [state        |-> IF Acceptable(found) THEN "taken" ELSE "refused",
             max_segment  |-> IF found[MSS] < 0 \/ found[MSS] > MAX_SEGMENT
                              THEN MAX_SEGMENT ELSE found[MSS],
             window_scale |-> IF found[SCALE] < 0 THEN 0 ELSE found[SCALE]]
  /\ UNCHANGED <<list, options, kind, buf, found>>

(* A SYN arrives while tcp_conn is free; kind 2 is looked for first.       *)
ScanOptions(said, bytes) ==
  /\ list' = said /\ options' = bytes
  /\ kind' = MSS /\ buf' = 1 /\ found' = [k \in {MSS, SCALE} |-> -1]
  /\ syn' = [syn EXCEPT !.state = "scan"]

ScanInit ==
  /\ list = <<>> /\ options = <<>>
  /\ kind = MSS /\ buf = 1 /\ found = [k \in {MSS, SCALE} |-> -1]
  /\ syn = [state |-> "none", max_segment |-> 0, window_scale |-> 0]

ScanNext == EndOfLoop \/ EndOfList \/ Padding \/ Option \/ Decide

(***************************************************************************)
(* Properties.                                                             *)
(***************************************************************************)
(* Options that are wholly there, up to the end of the list.               *)
Live(i) ==
  /\ Len(Encoded(list, i)) <= Len(options)
  /\ \A j \in 1 .. i : list[j].kind # END_OF_LIST

(* What the client says with option k: the value of the first one.         *)
Said(k) ==
  LET at == {i \in DOMAIN list : Live(i) /\ list[i].kind = k}
      i  == CHOOSE j \in at : \A h \in at : j <= h
  IN  IF at = {} THEN -1
      ELSE CASE Len(list[i].value) = 2 -> list[i].value[1] * BASE + list[i].value[2]
             [] Len(list[i].value) = 1 -> list[i].value[1]
             [] OTHER -> -1

(* The bytes looked at, those of the option's value included, lie in the   *)
(* options.                                                                *)
WithinOptions ==
  [][syn.state = "scan" /\ (buf' > buf \/ found' # found)
       => IF options[buf] = NOP THEN buf <= Len(options)
          ELSE buf + options[buf + 1] - 1 <= Len(options)]_scanVars

(* The scans find what the client said, whatever precedes, follows or is   *)
(* cut off, and a connection starts with the scale it said and with        *)
(* segments that are neither empty nor larger than it takes.               *)
SynAgrees ==
  /\ syn.state \in {"taken", "refused"} => found = [k \in {MSS, SCALE} |-> Said(k)]
  /\ syn.state = "taken" =>
       /\ syn.max_segment \in 1 .. MAX_SEGMENT
       /\ Said(MSS) > 0 => syn.max_segment <= Said(MSS)
       /\ syn.window_scale = (IF Said(SCALE) < 0 THEN 0 ELSE Said(SCALE))

(* Every scan comes to an end.                                             *)
ScanEnds == syn.state = "scan" ~> syn.state # "scan"
=============================================================================
