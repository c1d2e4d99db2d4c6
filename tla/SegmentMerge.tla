---------------------------- MODULE SegmentMerge ----------------------------
(***************************************************************************)
(* The merge at the end of add_segment, loop by loop, and the comparison   *)
(* with what SegmentSet says of it in one step (MergedTo and Ahead).        *)
(* The table is the array it is in the code, in the order of arrival.      *)
(*                                                                         *)
(* The state is one merge under way: i and j are the indices of the inner  *)
(* loop, "updated" the condition of the outer one.                         *)
(***************************************************************************)
EXTENDS SegmentSet, Sequences

CONSTANTS
  MaxPosition,  \* segments start at 0 .. MaxPosition
  MaxLength,    \* and have 0 .. MaxLength bytes
  MaxSegments   \* entries of the table when the merge starts

ASSUME MergeAssumption ==
  MaxPosition \in Nat \ {0} /\ MaxLength \in Nat \ {0} /\ MaxSegments \in Nat \ {0}

VARIABLES
  table,    \* rx_segments, all of its entries
  count,    \* segment_count
  write,    \* rx_write
  i, j, updated,
  start,    \* rx_write when the merge began
  given     \* the segments when the merge began

mergeVars == <<table, count, write, i, j, updated, start, given>>

Segments == [position : 0 .. MaxPosition, length : 0 .. MaxLength]

(* Faulty forms of definitions below; nothing uses them.                   *)
FaultOld(s)   == s.position <= write
FaultUpdated  == updated              \* not cleared for the next pass

(* What add_segment has put into the table: it refuses a segment that ends *)
(* at or before rx_write and one that is there already, and every earlier  *)
(* merge has left only segments ahead of rx_write.                         *)
Tables ==
  {t \in UNION {[1 .. n -> Segments] : n \in 1 .. MaxSegments} :
     /\ \A a, b \in DOMAIN t : a # b => t[a] # t[b]
     /\ \A a \in DOMAIN t :
          /\ t[a].position + t[a].length > 1
          /\ a < Len(t) => t[a].position > 1}

MergeInit ==
  /\ table \in Tables
  /\ count = Len(table)
  /\ write = 1 /\ start = 1 /\ given = {table[a] : a \in DOMAIN table}
  /\ i = 0 /\ j = 0 /\ updated = FALSE

Old(s)     == s.position + s.length <= write
Touches(s) == s.position <= write

Other == table[i + 1]

DropSegment ==
  /\ i < count
  /\ Old(Other)
  /\ i' = i + 1
  /\ UNCHANGED <<table, count, write, j, updated, start, given>>

TakeSegment ==
  /\ i < count
  /\ ~Old(Other) /\ Touches(Other)
  /\ write' = Other.position + Other.length
  /\ updated' = TRUE
  /\ i' = i + 1
  /\ UNCHANGED <<table, count, j, start, given>>

KeepSegment ==
  /\ i < count
  /\ ~Old(Other) /\ ~Touches(Other)
  /\ table' = [table EXCEPT ![j + 1] = Other]
  /\ j' = j + 1
  /\ i' = i + 1
  /\ UNCHANGED <<count, write, updated, start, given>>

UpdatedAtStart == FALSE

NextPass ==
  /\ i = count
  /\ updated
  /\ count' = j
  /\ i' = 0 /\ j' = 0 /\ updated' = UpdatedAtStart
  /\ UNCHANGED <<table, write, start, given>>

Merge == DropSegment \/ TakeSegment \/ KeepSegment \/ NextPass

MergeSpec == MergeInit /\ [][Merge]_mergeVars /\ WF_mergeVars(Merge)

Finished == i = count /\ ~updated

(* When the loops end, rx_write is the first position no segment covers    *)
(* and the table holds exactly the segments beyond it: nothing that has    *)
(* become contiguous is left waiting, whatever the order of arrival, and   *)
(* nothing still ahead is lost.                                            *)
MergeAgrees ==
  Finished =>
    /\ MergedTo(given, start, write)
    /\ {table[a] : a \in 1 .. j} = Ahead(given, write)

(* The outer loop ends: every pass but the last drops a segment.           *)
MergeEnds == <>[]Finished
=============================================================================
