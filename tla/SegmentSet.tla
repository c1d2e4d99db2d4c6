----------------------------- MODULE SegmentSet -----------------------------
(***************************************************************************)
(* The result of the merge at the end of add_segment (src/ip_stack.c), for *)
(* a table taken as a set of records [position, length]: the code rejects  *)
(* a segment that is in the table already, and the order of the entries    *)
(* does not matter.  SegmentMerge checks these definitions against the     *)
(* loops of the code.                                                      *)
(***************************************************************************)
EXTENDS Integers

(* Faulty form of the next definition; nothing uses it.                    *)
FaultCovered(segs, p) ==
  \E s \in segs : s.position <= p /\ p <= s.position + s.length

Covered(segs, p) ==
  \E s \in segs : s.position <= p /\ p < s.position + s.length

(* n is where the merge leaves rx_write when it starts at w: everything    *)
(* from w up to n is in some segment, n itself is not.                     *)
MergedTo(segs, w, n) ==
  /\ ~Covered(segs, n)
  /\ \A p \in w .. n-1 : Covered(segs, p)

(* Segments the merge keeps: those still ahead of the new rx_write.        *)
Ahead(segs, n) == {s \in segs : s.position > n}
=============================================================================
