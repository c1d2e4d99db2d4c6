------------------------- MODULE SegmentMergeProofs -------------------------
(***************************************************************************)
(* The loops of the merge at the end of add_segment compute what           *)
(* SegmentSet says, for tables of any size in any order.                   *)
(***************************************************************************)
EXTENDS SegmentMerge, TLAPS

Ends(s) == s.position + s.length

(* The entries that still count: those this pass has kept, at the front of *)
(* the table, and those it has not looked at.                              *)
Waiting == {table[a] : a \in 1 .. j} \cup {table[a] : a \in i+1 .. count}

MergeTypeOK ==
  /\ table \in [DOMAIN table -> Segments]
  /\ count \in Nat /\ 1 .. count \subseteq DOMAIN table
  /\ i \in Nat /\ i <= count /\ j \in Nat /\ j <= i
  /\ write \in Nat /\ start \in Nat /\ start <= write
  /\ updated \in BOOLEAN
  /\ given \subseteq Segments

(* What no longer waits ends at or before rx_write, and everything up to   *)
(* rx_write is covered.                                                    *)
Merged ==
  /\ Waiting \subseteq given
  /\ \A s \in given \ Waiting : Ends(s) <= write
  /\ \A p \in start .. write-1 : Covered(given, p)

(* While rx_write has not moved in this pass, what the pass keeps is ahead *)
(* of it; when it has moved, a segment has been dropped.                   *)
PassKeeps == updated = FALSE => \A a \in 1 .. j : table[a].position > write
PassDrops == updated = TRUE => j < i

MergeInv == MergeTypeOK /\ Merged /\ PassKeeps /\ PassDrops

LEMMA SegmentType ==
  \A s \in Segments :
    /\ s.position \in Nat /\ s.length \in Nat /\ Ends(s) \in Nat
    /\ s.position <= Ends(s)
  BY MergeAssumption DEF Segments, Ends

LEMMA InitMergeInv == MergeInit => MergeInv
<1> SUFFICES ASSUME MergeInit
             PROVE  MergeInv
  OBVIOUS
<1>1. PICK n \in 1 .. MaxSegments : table \in [1 .. n -> Segments]
  BY DEF MergeInit, Tables
<1>2. n \in Nat
  BY <1>1, MergeAssumption
<1>3. DOMAIN table = 1 .. n /\ Len(table) = n
  <2>1. table \in Seq(Segments) /\ DOMAIN table = 1 .. n
    BY <1>1, <1>2
  <2> QED
    BY <1>2, <2>1
<1>4. given = {table[a] : a \in 1 .. n} /\ count = n
  BY <1>3 DEF MergeInit
<1>5. i = 0 /\ j = 0 /\ write = 1 /\ start = 1 /\ updated = FALSE
  BY DEF MergeInit
<1>6. MergeTypeOK
  <2>1. table \in [DOMAIN table -> Segments] /\ given \subseteq Segments
    BY <1>1, <1>3, <1>4
  <2>2. /\ count \in Nat /\ 1 .. count \subseteq DOMAIN table
        /\ i \in Nat /\ i <= count /\ j \in Nat /\ j <= i
        /\ write \in Nat /\ start \in Nat /\ start <= write
    BY <1>2, <1>3, <1>4, <1>5
  <2>3. updated \in BOOLEAN
    BY <1>5, Zenon
  <2> QED
    BY <2>1, <2>2, <2>3 DEF MergeTypeOK
<1>7. Waiting = given
  BY <1>4, <1>5 DEF Waiting
<1>8. Merged
  BY <1>5, <1>7 DEF Merged
<1> QED
  BY <1>5, <1>6, <1>8 DEF MergeInv, PassKeeps, PassDrops

(* The entry the pass looks at waits, and is a segment.                    *)
LEMMA OtherWaits ==
  ASSUME MergeInv, i < count
  PROVE  Other \in Segments /\ Other \in Waiting /\ i + 1 \in DOMAIN table
<1>1. i + 1 \in 1 .. count /\ i + 1 \in i+1 .. count
  BY DEF MergeInv, MergeTypeOK
<1> QED
  BY <1>1 DEF MergeInv, MergeTypeOK, Other, Waiting

(* Passing over an entry without keeping it removes it and nothing else.   *)
LEMMA PassOver ==
  ASSUME MergeInv, i < count, i' = i + 1, UNCHANGED <<table, count, j>>
  PROVE  Waiting' \subseteq Waiting /\ Waiting \subseteq Waiting' \cup {Other}
<1>1. Waiting' = {table[a] : a \in 1 .. j} \cup {table[a] : a \in (i+1)+1 .. count}
  BY DEF Waiting
<1>2. \A a : a \in i+1 .. count => a = i+1 \/ a \in (i+1)+1 .. count
  BY DEF MergeInv, MergeTypeOK
<1>3. \A a : a \in (i+1)+1 .. count => a \in i+1 .. count
  BY DEF MergeInv, MergeTypeOK
<1> QED
  BY <1>1, <1>2, <1>3 DEF Waiting, Other

LEMMA DropStep ==
  ASSUME MergeInv, DropSegment
  PROVE  MergeInv'
<1>1. /\ i < count /\ Old(Other) /\ i' = i + 1
      /\ UNCHANGED <<table, count, write, j, updated, start, given>>
  BY DEF DropSegment
<1>2. MergeTypeOK'
  BY <1>1 DEF MergeInv, MergeTypeOK
<1>3. Waiting' \subseteq Waiting /\ Waiting \subseteq Waiting' \cup {Other}
  BY <1>1, PassOver
<1>4. Ends(Other) <= write
  BY <1>1 DEF Old, Ends
<1>5. Merged'
  BY <1>1, <1>3, <1>4 DEF MergeInv, Merged
<1>6. PassKeeps' /\ PassDrops'
  BY <1>1 DEF MergeInv, MergeTypeOK, PassKeeps, PassDrops
<1> QED
  BY <1>2, <1>5, <1>6 DEF MergeInv

LEMMA TakeStep ==
  ASSUME MergeInv, TakeSegment
  PROVE  MergeInv'
<1>1. /\ i < count /\ ~Old(Other) /\ Touches(Other) /\ i' = i + 1
      /\ write' = Ends(Other) /\ updated' = TRUE
      /\ UNCHANGED <<table, count, j, start, given>>
  BY DEF TakeSegment, Ends
<1>2. /\ Other \in Segments /\ Other \in Waiting
      /\ Ends(Other) \in Nat /\ Other.position \in Nat
  BY <1>1, OtherWaits, SegmentType
<1>3. write \in Nat /\ start \in Nat /\ start <= write
  BY DEF MergeInv, MergeTypeOK
<1>4. Other.position <= write /\ write < Ends(Other)
  BY <1>1, <1>2, <1>3 DEF Old, Touches, Ends
<1>5. start <= Ends(Other)
  BY <1>2, <1>3, <1>4
<1>6. MergeTypeOK'
  BY <1>1, <1>2, <1>5 DEF MergeInv, MergeTypeOK
<1>7. Waiting' \subseteq Waiting /\ Waiting \subseteq Waiting' \cup {Other}
  BY <1>1, PassOver
<1>8. \A s \in given \ Waiting' : Ends(s) <= Ends(Other)
  <2> SUFFICES ASSUME NEW s \in given \ Waiting'
               PROVE  Ends(s) <= Ends(Other)
    OBVIOUS
  <2>1. s \in Segments /\ Ends(s) \in Nat
    BY SegmentType DEF MergeInv, MergeTypeOK
  <2>2. CASE s = Other
    BY <1>2, <2>2
  <2>3. CASE s \notin Waiting
    <3>1. Ends(s) <= write
      BY <2>3 DEF MergeInv, Merged
    <3> QED
      BY <1>2, <1>3, <1>4, <2>1, <3>1
  <2> QED
    BY <1>7, <2>2, <2>3
<1>9. \A p \in start .. Ends(Other)-1 : Covered(given, p)
  <2> SUFFICES ASSUME NEW p \in start .. Ends(Other)-1
               PROVE  Covered(given, p)
    OBVIOUS
  <2>1. CASE p < write
    <3>1. p \in start .. write-1
      BY <1>2, <1>3, <2>1
    <3> QED
      BY <3>1 DEF MergeInv, Merged
  <2>2. CASE ~ (p < write)
    <3>1. Other.position <= p /\ p < Ends(Other)
      BY <1>2, <1>3, <1>4, <2>2
    <3>2. Other \in given
      BY <1>2 DEF MergeInv, Merged
    <3> QED
      BY <3>1, <3>2 DEF Covered, Ends
  <2> QED
    BY <2>1, <2>2
<1>10. Merged'
  BY <1>1, <1>7, <1>8, <1>9 DEF MergeInv, Merged
<1>11. j < i + 1
  BY DEF MergeInv, MergeTypeOK
<1>12. PassKeeps' /\ PassDrops'
  BY <1>1, <1>11 DEF PassKeeps, PassDrops
<1> QED
  BY <1>6, <1>10, <1>12 DEF MergeInv

LEMMA KeepStep ==
  ASSUME MergeInv, KeepSegment
  PROVE  MergeInv'
<1>1. /\ i < count /\ ~Touches(Other)
      /\ table' = [table EXCEPT ![j + 1] = Other]
      /\ j' = j + 1 /\ i' = i + 1
      /\ UNCHANGED <<count, write, updated, start, given>>
  BY DEF KeepSegment
<1>2. Other \in Segments /\ i + 1 \in DOMAIN table
  BY <1>1, OtherWaits
<1>3. /\ i \in Nat /\ j \in Nat /\ j <= i /\ count \in Nat /\ write \in Nat
      /\ 1 .. count \subseteq DOMAIN table
  BY DEF MergeInv, MergeTypeOK
<1>4. j + 1 \in DOMAIN table
  BY <1>1, <1>3
<1>5. /\ DOMAIN table' = DOMAIN table
      /\ table'[j + 1] = Other
      /\ \A a \in DOMAIN table : a # j + 1 => table'[a] = table[a]
  BY <1>1, <1>4
<1>6. table' \in [DOMAIN table' -> Segments]
  BY <1>1, <1>2, <1>5 DEF MergeInv, MergeTypeOK
<1>7. MergeTypeOK'
  BY <1>1, <1>3, <1>5, <1>6 DEF MergeInv, MergeTypeOK
<1>8. \A a \in 1 .. j : table'[a] = table[a]
  BY <1>1, <1>3, <1>5
<1>9. \A a \in (i+1)+1 .. count : table'[a] = table[a]
  BY <1>1, <1>3, <1>5
<1>10. {table'[a] : a \in 1 .. j+1} = {table[a] : a \in 1 .. j} \cup {Other}
  <2>1. \A a : a \in 1 .. j+1 <=> a \in 1 .. j \/ a = j + 1
    BY <1>3
  <2> QED
    BY <1>5, <1>8, <2>1
<1>11. {table[a] : a \in i+1 .. count}
         = {table'[a] : a \in (i+1)+1 .. count} \cup {Other}
  <2>1. \A a : a \in i+1 .. count <=> a \in (i+1)+1 .. count \/ a = i + 1
    BY <1>1, <1>3
  <2> QED
    BY <1>9, <2>1 DEF Other
<1>12. Waiting' = {table'[a] : a \in 1 .. j+1} \cup {table'[a] : a \in (i+1)+1 .. count}
  BY <1>1 DEF Waiting
<1>13. Waiting' = Waiting
  BY <1>10, <1>11, <1>12 DEF Waiting
<1>14. Merged'
  BY <1>1, <1>13 DEF MergeInv, Merged
<1>15. Other.position > write
  BY <1>1, <1>2, <1>3, SegmentType DEF Touches
<1>16. PassKeeps'
  <2>1. \A a \in 1 .. j+1 : a = j + 1 \/ a \in 1 .. j
    BY <1>3
  <2>2. updated = FALSE => \A a \in 1 .. j : table'[a].position > write
    BY <1>8 DEF MergeInv, PassKeeps
  <2>3. updated = FALSE => \A a \in 1 .. j+1 : table'[a].position > write
    BY <1>5, <1>15, <2>1, <2>2
  <2> QED
    BY <1>1, <2>3 DEF PassKeeps
<1>17. PassDrops'
  BY <1>1, <1>3 DEF MergeInv, PassDrops
<1> QED
  BY <1>7, <1>14, <1>16, <1>17 DEF MergeInv

LEMMA NextPassStep ==
  ASSUME MergeInv, NextPass
  PROVE  MergeInv'
<1>1. /\ i = count
      /\ count' = j /\ i' = 0 /\ j' = 0 /\ updated' = FALSE
      /\ UNCHANGED <<table, write, start, given>>
  BY DEF NextPass, UpdatedAtStart
<1>2. /\ i \in Nat /\ j \in Nat /\ j <= i /\ count \in Nat
      /\ 1 .. count \subseteq DOMAIN table
  BY DEF MergeInv, MergeTypeOK
<1>3. 1 .. j \subseteq DOMAIN table
  BY <1>1, <1>2
<1>4. MergeTypeOK'
  <2>1. /\ UNCHANGED table /\ table \in [DOMAIN table -> Segments]
        /\ UNCHANGED given /\ given \subseteq Segments
        /\ UNCHANGED <<write, start>>
        /\ write \in Nat /\ start \in Nat /\ start <= write
    BY <1>1 DEF MergeInv, MergeTypeOK
  <2>2. /\ count' \in Nat /\ 1 .. count' \subseteq DOMAIN table
        /\ i' \in Nat /\ i' <= count' /\ j' \in Nat /\ j' <= i'
    BY <1>1, <1>2, <1>3
  <2>3. updated' \in BOOLEAN
    BY <1>1, Zenon
  <2> QED
    BY <2>1, <2>2, <2>3 DEF MergeTypeOK
<1>5. Waiting' = {table[a] : a \in 1 .. j} /\ Waiting = {table[a] : a \in 1 .. j}
  BY <1>1, <1>2 DEF Waiting
<1>6. Merged'
  BY <1>1, <1>5 DEF MergeInv, Merged
<1>7. PassKeeps' /\ PassDrops'
  BY <1>1 DEF PassKeeps, PassDrops
<1> QED
  BY <1>4, <1>6, <1>7 DEF MergeInv

(* No iteration of the merge loops breaks the invariant.                   *)
THEOREM MergeStep == MergeInv /\ [Merge]_mergeVars => MergeInv'
<1>1. MergeInv /\ UNCHANGED mergeVars => MergeInv'
  BY DEF mergeVars, MergeInv, MergeTypeOK, Merged, Waiting, PassKeeps, PassDrops
<1> QED
  BY <1>1, DropStep, TakeStep, KeepStep, NextPassStep DEF Merge

(* The inductive invariant of the merge holds of every behaviour.          *)
THEOREM MergeInvariant == MergeSpec => []MergeInv
  BY InitMergeInv, MergeStep, PTL DEF MergeSpec

(* When the loops of add_segment end, rx_write is the first position that  *)
(* no segment covers, and the table holds exactly the segments beyond it.  *)
THEOREM MergeComputesSegmentSet == MergeSpec => []MergeAgrees
<1>1. MergeInv => MergeAgrees
  <2> SUFFICES ASSUME MergeInv, i = count, ~updated
               PROVE  /\ MergedTo(given, start, write)
                      /\ {table[a] : a \in 1 .. j} = Ahead(given, write)
    BY DEF MergeAgrees, Finished
  <2>1. /\ write \in Nat /\ i \in Nat /\ count \in Nat
        /\ given \subseteq Segments
    BY DEF MergeInv, MergeTypeOK
  <2>2. updated = FALSE
    BY DEF MergeInv, MergeTypeOK
  <2>3. Waiting = {table[a] : a \in 1 .. j}
    BY <2>1 DEF Waiting
  <2>4. \A s \in Waiting : s.position > write
    BY <2>2, <2>3 DEF MergeInv, PassKeeps
  <2>5. \A s \in given \ Waiting : s.position <= write /\ Ends(s) <= write
    BY <2>1, SegmentType DEF MergeInv, Merged
  <2>6. ~Covered(given, write)
    BY <2>1, <2>4, <2>5, SegmentType DEF Covered, Ends
  <2>7. Waiting = Ahead(given, write)
    BY <2>1, <2>4, <2>5, SegmentType DEF MergeInv, Merged, Ahead
  <2> QED
    BY <2>3, <2>6, <2>7 DEF MergeInv, Merged, MergedTo
<1> QED
  BY <1>1, MergeInvariant, PTL

(* Every pass of the outer loop that is followed by another drops a        *)
(* segment: the table gets shorter, so the merge ends.                     *)
THEOREM PassesShrink == MergeSpec => [][NextPass => count' < count]_mergeVars
<1>1. MergeInv /\ NextPass => count' < count
  BY DEF MergeInv, MergeTypeOK, PassDrops, NextPass
<1> QED
  BY <1>1, MergeInvariant, PTL DEF MergeSpec

=============================================================================
