----------------------------- MODULE DataLemmas -----------------------------
(***************************************************************************)
(* Lemmas about the data that several components use: the rings of         *)
(* CircleBuffer and the sequences that are laid end to end, of any size.   *)
(***************************************************************************)
EXTENDS CircleBuffer, Sequences, SequencesExt, FiniteSetTheorems,
        WellFoundedInduction, SequenceTheorems, TLAPS

(***************************************************************************)
(* What the copy routines of CircleBuffer do: the range [start, start+len) *)
(* of stream positions lands at, or comes from, the positions taken modulo *)
(* the size of the ring.                                                   *)
(***************************************************************************)
(* A number is a multiple of n and its remainder.                          *)
LEMMA ModParts ==
  ASSUME NEW n \in Nat \ {0}, NEW p \in Nat
  PROVE  /\ p % n \in 0 .. n-1
         /\ p \div n \in Int
         /\ p = n * (p \div n) + (p % n)
  OBVIOUS

(* A number below n is its own remainder.                                  *)
LEMMA ModSmall ==
  ASSUME NEW n \in Nat \ {0}, NEW p \in 0 .. n-1
  PROVE  p % n = p
<1> DEFINE a == p \div n
           r == p % n
<1>1. r \in 0 .. n-1 /\ a \in Int /\ p = n * a + r
  BY ModParts
<1> HIDE DEF a, r
<1>2. a >= 1 => n * a >= n
  BY <1>1
<1>3. a <= -1 => n * a <= -n
  BY <1>1
<1>4. a = 0
  BY <1>1, <1>2, <1>3
<1> QED
  BY <1>1, <1>4 DEF r

(* Two positions in the same place of the ring, less than its size apart,  *)
(* are the same position.                                                  *)
LEMMA ModInjective ==
  ASSUME NEW n \in Nat \ {0}, NEW p \in Nat, NEW q \in Nat,
         p % n = q % n, p - q < n, q - p < n
  PROVE  p = q
<1> DEFINE a == p \div n
           b == q \div n
<1>1. /\ a \in Int /\ p = n * a + (p % n)
      /\ b \in Int /\ q = n * b + (q % n)
      /\ p % n \in Int
  BY ModParts
<1> HIDE DEF a, b
<1>2. p - q = n * a - n * b
  BY <1>1
<1>3. CASE a > b
  <2>1. n * a >= n * (b + 1)
    BY <1>1, <1>3
  <2>2. n * (b + 1) = n * b + n
    BY <1>1
  <2> QED
    BY <1>1, <1>2, <2>1, <2>2
<1>4. CASE b > a
  <2>1. n * b >= n * (a + 1)
    BY <1>1, <1>4
  <2>2. n * (a + 1) = n * a + n
    BY <1>1
  <2> QED
    BY <1>1, <1>2, <2>1, <2>2
<1>5. CASE a = b
  BY <1>1, <1>5
<1> QED
  BY <1>1, <1>3, <1>4, <1>5

(* The remainder of a sum goes round the ring at most once.                *)
LEMMA ModSum ==
  ASSUME NEW n \in Nat \ {0}, NEW p \in Nat, NEW k \in 0 .. n-1
  PROVE  (p + k) % n = IF (p % n) + k < n THEN (p % n) + k ELSE (p % n) + k - n
<1> DEFINE a == p \div n
           b == (p + k) \div n
           r == p % n
           s == (p + k) % n
<1>1. /\ a \in Int /\ r \in 0 .. n-1 /\ p = n * a + r
      /\ b \in Int /\ s \in 0 .. n-1 /\ p + k = n * b + s
  BY ModParts, p + k \in Nat
<1> HIDE DEF a, b, r, s
<1>2. n * b + s = n * a + r + k
  BY <1>1
<1>3. r + k < 2 * n
  BY <1>1
<1>4. b >= a
  <2> SUFFICES ASSUME b + 1 <= a
               PROVE  FALSE
    BY <1>1
  <2>1. n * a >= n * (b + 1) /\ n * (b + 1) = n * b + n
    BY <1>1
  <2> QED
    BY <1>1, <1>2, <2>1
<1>5. b <= a + 1
  <2> SUFFICES ASSUME b >= a + 2
               PROVE  FALSE
    BY <1>1
  <2>1. n * b >= n * (a + 2) /\ n * (a + 2) = n * a + 2 * n
    BY <1>1
  <2> QED
    BY <1>1, <1>2, <1>3, <2>1
<1>6. CASE b = a
  BY <1>1, <1>2, <1>6 DEF r, s
<1>7. CASE b = a + 1
  <2>1. n * (a + 1) = n * a + n
    BY <1>1
  <2> QED
    BY <1>1, <1>2, <1>7, <2>1 DEF r, s
<1> QED
  BY <1>1, <1>4, <1>5, <1>6, <1>7

(* The slot that each offset of a copied range falls on, and the two ends  *)
(* the code computes.                                                      *)
LEMMA RangeSlots ==
  ASSUME NEW n \in Nat \ {0}, NEW start \in Nat, NEW len \in Nat,
         Copies(n, len)
  PROVE  /\ start % n \in 0 .. n-1
         /\ (start + len - 1) % n =
              IF (start % n) + len - 1 < n THEN (start % n) + len - 1
              ELSE (start % n) + len - 1 - n
         /\ \A k \in 0 .. len-1 :
              (start + k) % n = IF (start % n) + k < n THEN (start % n) + k
                                ELSE (start % n) + k - n
<1>1. start % n \in 0 .. n-1
  BY ModParts
<1>2. \A k \in 0 .. len-1 : k \in 0 .. n-1
  BY DEF Copies
<1>3. \A k \in 0 .. len-1 :
        (start + k) % n = IF (start % n) + k < n THEN (start % n) + k
                          ELSE (start % n) + k - n
  BY <1>2, ModSum
<1>4. len - 1 \in 0 .. len-1 /\ start + len - 1 = start + (len - 1)
  BY DEF Copies
<1>5. (start + (len - 1)) % n = IF (start % n) + (len - 1) < n
                                THEN (start % n) + (len - 1)
                                ELSE (start % n) + (len - 1) - n
  BY <1>3, <1>4
<1> DEFINE r == start % n
<1>6. r \in Int /\ len \in Int /\ n \in Int
  BY <1>1
<1> HIDE DEF r
<1>7. r + (len - 1) = r + len - 1
  BY <1>6
<1> QED
  BY <1>1, <1>3, <1>4, <1>5, <1>7 DEF r

(* copy_to_circle_buffer leaves a ring of the same size, filled with bytes *)
(* of the ring and of the source.                                          *)
LEMMA CopyToType ==
  ASSUME NEW n \in Nat \ {0}, NEW start \in Nat, NEW len \in Nat,
         NEW S, NEW dest \in [0 .. n-1 -> S], NEW source \in [0 .. len-1 -> S]
  PROVE  CopyTo(dest, n, start, source, len) \in [0 .. n-1 -> S]
<1> DEFINE r == start % n
           e == (start + len - 1) % n
<1>1. CASE ~Copies(n, len)
  BY <1>1 DEF CopyTo
<1>2. CASE Copies(n, len)
  <2>1. /\ r \in 0 .. n-1
        /\ e = IF r + len - 1 < n THEN r + len - 1 ELSE r + len - 1 - n
    BY <1>2, RangeSlots
  <2>2. len \in 1 .. n-1
    BY <1>2 DEF Copies
  <2>3. CopyTo(dest, n, start, source, len) =
          IF r <= e
          THEN [i \in 0 .. n-1 |-> IF r <= i /\ i < r + len
                                   THEN source[i - r] ELSE dest[i]]
          ELSE [i \in 0 .. n-1 |->
                  IF r <= i THEN source[i - r]
                  ELSE IF i < len - (n - r) THEN source[n - r + i]
                  ELSE dest[i]]
    BY <1>2 DEF CopyTo
  <2> HIDE DEF r, e
  <2>4. CASE r <= e
    <3>1. \A i \in 0 .. n-1 : r <= i /\ i < r + len => i - r \in 0 .. len-1
      BY <2>1, <2>2
    <3> QED
      BY <2>3, <2>4, <3>1
  <2>5. CASE ~(r <= e)
    <3>1. \A i \in 0 .. n-1 : r <= i => i - r \in 0 .. len-1
      BY <2>1, <2>2, <2>5
    <3>2. \A i \in 0 .. n-1 : i < len - (n - r) => n - r + i \in 0 .. len-1
      BY <2>1, <2>2, <2>5
    <3> QED
      BY <2>3, <2>5, <3>1, <3>2
  <2> QED
    BY <2>4, <2>5
<1> QED
  BY <1>1, <1>2

(* copy_to_circle_buffer puts byte k of the source at position start + k   *)
(* of the ring, wrapped or not.                                            *)
THEOREM CopyToStores ==
  ASSUME NEW n \in Nat \ {0}, NEW start \in Nat, NEW len \in Nat,
         NEW dest, NEW source, Copies(n, len), NEW k \in 0 .. len-1
  PROVE  CopyTo(dest, n, start, source, len)[(start + k) % n] = source[k]
<1> DEFINE r == start % n
           e == (start + len - 1) % n
           s == (start + k) % n
<1>1. /\ r \in 0 .. n-1
      /\ e = IF r + len - 1 < n THEN r + len - 1 ELSE r + len - 1 - n
      /\ s = IF r + k < n THEN r + k ELSE r + k - n
  BY RangeSlots, ZenonT(30)
<1>2. len \in 1 .. n-1
  BY DEF Copies
<1>3. CopyTo(dest, n, start, source, len) =
        IF r <= e
        THEN [i \in 0 .. n-1 |-> IF r <= i /\ i < r + len
                                 THEN source[i - r] ELSE dest[i]]
        ELSE [i \in 0 .. n-1 |->
                IF r <= i THEN source[i - r]
                ELSE IF i < len - (n - r) THEN source[n - r + i]
                ELSE dest[i]]
  BY DEF CopyTo
<1> HIDE DEF r, e
<1>4. s \in 0 .. n-1
  BY <1>1, <1>2
<1> HIDE DEF s
<1>5. CASE r <= e
  <2>1. r <= s /\ s < r + len /\ s - r = k
    BY <1>1, <1>2, <1>5
  <2> QED
    BY <1>3, <1>4, <1>5, <2>1 DEF s
<1>6. CASE ~(r <= e)
  <2>1. CASE r + k < n
    <3>1. r <= s /\ s - r = k
      BY <1>1, <2>1
    <3> QED
      BY <1>3, <1>4, <1>6, <3>1 DEF s
  <2>2. CASE ~(r + k < n)
    <3>1. ~(r <= s) /\ s < len - (n - r) /\ n - r + s = k
      BY <1>1, <1>2, <1>6, <2>2
    <3> QED
      BY <1>3, <1>4, <1>6, <3>1 DEF s
  <2> QED
    BY <2>1, <2>2
<1> QED
  BY <1>5, <1>6

(* The places of the ring that a range of positions takes.                 *)
Slots(n, start, len) == {(start + k) % n : k \in 0 .. len-1}

(* copy_to_circle_buffer changes no place of the ring outside the range.   *)
THEOREM CopyToKeeps ==
  ASSUME NEW n \in Nat \ {0}, NEW start \in Nat, NEW len \in Nat,
         NEW dest, NEW source, NEW i \in 0 .. n-1
  PROVE  i \notin Slots(n, start, len)
           => CopyTo(dest, n, start, source, len)[i] = dest[i]
<1> DEFINE Missed == i \notin Slots(n, start, len)
<1> SUFFICES Missed => CopyTo(dest, n, start, source, len)[i] = dest[i]
  OBVIOUS
<1> DEFINE r == start % n
           e == (start + len - 1) % n
<1>1. CASE ~Copies(n, len)
  BY <1>1 DEF CopyTo
<1>2. CASE Copies(n, len)
  <2>1. /\ r \in 0 .. n-1
        /\ e = IF r + len - 1 < n THEN r + len - 1 ELSE r + len - 1 - n
        /\ Missed => \A k \in 0 .. len-1 :
             i # IF r + k < n THEN r + k ELSE r + k - n
    <3>1. /\ r \in 0 .. n-1
          /\ e = IF r + len - 1 < n THEN r + len - 1 ELSE r + len - 1 - n
          /\ \A k \in 0 .. len-1 :
               (start + k) % n = IF r + k < n THEN r + k ELSE r + k - n
      BY <1>2, RangeSlots
    <3>2. Missed => \A k \in 0 .. len-1 : i # (start + k) % n
      BY DEF Slots
    <3> HIDE DEF r, e, Missed
    <3> QED
      BY <3>1, <3>2
  <2>2. len \in 1 .. n-1
    BY <1>2 DEF Copies
  <2>3. CopyTo(dest, n, start, source, len) =
          IF r <= e
          THEN [j \in 0 .. n-1 |-> IF r <= j /\ j < r + len
                                   THEN source[j - r] ELSE dest[j]]
          ELSE [j \in 0 .. n-1 |->
                  IF r <= j THEN source[j - r]
                  ELSE IF j < len - (n - r) THEN source[n - r + j]
                  ELSE dest[j]]
    BY <1>2 DEF CopyTo
  <2> HIDE DEF r, e, Missed
  <2>4. CASE r <= e
    <3>1. Missed => ~(r <= i /\ i < r + len)
      <4>1. SUFFICES ASSUME Missed, r <= i, i < r + len
                     PROVE  FALSE
        OBVIOUS
      <4>2. PICK k \in 0 .. len-1 : r + k = i
        <5>1. i - r \in 0 .. len-1
          BY <2>1, <2>2, <4>1
        <5>2. r + (i - r) = i
          BY <2>1
        <5> QED
          BY <5>1, <5>2
      <4> QED
        BY <2>1, <4>1, <4>2
    <3> QED
      BY <2>3, <2>4, <3>1
  <2>5. CASE ~(r <= e)
    <3>1. Missed => ~(r <= i)
      <4>1. SUFFICES ASSUME Missed, r <= i
                     PROVE  FALSE
        OBVIOUS
      <4>2. PICK k \in 0 .. len-1 : r + k = i
        <5>1. i - r \in 0 .. len-1
          BY <2>1, <2>2, <2>5, <4>1
        <5>2. r + (i - r) = i
          BY <2>1
        <5> QED
          BY <5>1, <5>2
      <4> QED
        BY <2>1, <4>1, <4>2
    <3>2. Missed => ~(i < len - (n - r))
      <4>1. SUFFICES ASSUME Missed, i < len - (n - r)
                     PROVE  FALSE
        OBVIOUS
      <4>2. n - r + i \in 0 .. len-1
        BY <2>1, <2>2, <4>1
      <4>3. PICK k \in 0 .. len-1 : k = n - r + i
        BY <4>2
      <4> QED
        BY <2>1, <4>1, <4>3
    <3> QED
      BY <2>3, <2>5, <3>1, <3>2
  <2> QED
    BY <2>4, <2>5
<1> QED
  BY <1>1, <1>2

(* Position x is one of the len positions from start.                      *)
InRange(x, start, len) == x \in start .. start+len-1

(* A copy and a position of the stream, all within less than the size of   *)
(* the ring of each other: the place of the position holds the copied byte *)
(* if the range names it, and what it held before if it does not.          *)
THEOREM CopyToWindow ==
  ASSUME NEW n \in Nat \ {0}, NEW start \in Nat, NEW len \in 0 .. n-1,
         NEW x \in Nat, NEW dest, NEW source,
         x - start < n, start + len - 1 - x < n
  PROVE  CopyTo(dest, n, start, source, len)[x % n] =
           IF InRange(x, start, len) THEN source[x - start]
           ELSE dest[x % n]
<1>1. CASE InRange(x, start, len)
  <2>1. Copies(n, len)
    BY <1>1 DEF Copies, InRange
  <2>2. PICK k \in 0 .. len-1 : k = x - start
    <3>1. x - start \in 0 .. len-1
      BY <1>1 DEF InRange
    <3> QED
      BY <3>1
  <2>3. start + k = x
    BY <2>2
  <2>4. CopyTo(dest, n, start, source, len)[(start + k) % n] = source[k]
    BY <2>1, CopyToStores
  <2> QED
    BY <1>1, <2>2, <2>3, <2>4
<1>2. CASE ~InRange(x, start, len)
  <2>1. x % n \in 0 .. n-1
    BY ModParts
  <2>2. ASSUME NEW k \in 0 .. len-1
        PROVE  (start + k) % n # x % n
    <3>1. /\ start + k \in Nat /\ x \in Nat
          /\ start + k # x
          /\ (start + k) - x < n /\ x - (start + k) < n
      BY <1>2 DEF InRange
    <3> QED
      BY <3>1, ModInjective
  <2> DEFINE slot == x % n
  <2>3. slot \notin Slots(n, start, len)
    BY <2>2 DEF Slots
  <2>4. slot \in 0 .. n-1
    BY <2>1
  <2> HIDE DEF slot
  <2>5. CopyTo(dest, n, start, source, len)[slot] = dest[slot]
    BY <2>3, <2>4, CopyToKeeps
  <2> QED
    BY <1>2, <2>5 DEF slot
<1> QED
  BY <1>1, <1>2

(* copy_from_circle_buffer returns the bytes of the range, in order.       *)
THEOREM CopyFromReads ==
  ASSUME NEW n \in Nat \ {0}, NEW start \in Nat, NEW len \in Nat,
         NEW source, Copies(n, len)
  PROVE  CopyFrom(source, n, start, len) =
           [k \in 0 .. len-1 |-> source[(start + k) % n]]
<1> DEFINE r == start % n
           e == (start + len - 1) % n
           s(k) == (start + k) % n
<1>1. /\ r \in 0 .. n-1
      /\ e = IF r + len - 1 < n THEN r + len - 1 ELSE r + len - 1 - n
      /\ \A k \in 0 .. len-1 : s(k) = IF r + k < n THEN r + k ELSE r + k - n
  BY RangeSlots
<1>2. len \in 1 .. n-1
  BY DEF Copies
<1>3. CopyFrom(source, n, start, len) =
        IF r <= e
        THEN [k \in 0 .. len-1 |-> source[r + k]]
        ELSE [k \in 0 .. len-1 |->
                IF k < n - r THEN source[r + k] ELSE source[k - (n - r)]]
  BY DEF CopyFrom
<1> SUFFICES CopyFrom(source, n, start, len) =
               [k \in 0 .. len-1 |-> source[s(k)]]
  OBVIOUS
<1> HIDE DEF r, e, s
<1>4. CASE r <= e
  <2>1. \A k \in 0 .. len-1 : r + k = s(k)
    BY <1>1, <1>2, <1>4
  <2> QED
    BY <1>3, <1>4, <2>1
<1>5. CASE ~(r <= e)
  <2>1. \A k \in 0 .. len-1 :
          IF k < n - r THEN r + k = s(k) ELSE k - (n - r) = s(k)
    BY <1>1, <1>2, <1>5
  <2> QED
    BY <1>3, <1>5, <2>1
<1> QED
  BY <1>4, <1>5

(* What one routine stores the other returns.                              *)
THEOREM RoundTrip ==
  ASSUME NEW n \in Nat \ {0}, NEW start \in Nat, NEW len \in Nat,
         NEW S, NEW dest, NEW source \in [0 .. len-1 -> S], Copies(n, len)
  PROVE  CopyFrom(CopyTo(dest, n, start, source, len), n, start, len) = source
<1>1. \A k \in 0 .. len-1 :
        CopyTo(dest, n, start, source, len)[(start + k) % n] = source[k]
  BY CopyToStores
<1> DEFINE ring == CopyTo(dest, n, start, source, len)
<1>2. CopyFrom(ring, n, start, len) =
        [k \in 0 .. len-1 |-> ring[(start + k) % n]]
  BY CopyFromReads
<1> HIDE DEF ring
<1>3. source = [k \in 0 .. len-1 |-> source[k]]
  OBVIOUS
<1>4. \A k \in 0 .. len-1 : ring[(start + k) % n] = source[k]
  BY <1>1 DEF ring
<1> QED
  BY <1>2, <1>3, <1>4 DEF ring

(***************************************************************************)
(* Sequences that are built step by step.                                  *)
(***************************************************************************)
Less == {p \in Nat \X Nat : p[1] < p[2]}

(* A set of natural numbers has a least one.                               *)
LEMMA LeastOf ==
  ASSUME NEW T, T \subseteq Nat, T # {}
  PROVE  \E n \in T : \A m \in T : n <= m
<1>1. IsWellFoundedOn(Less, Nat)
  <2>1. Less \cap (Nat \X Nat) \subseteq OpToRel(<, Nat)
    BY DEF OpToRel, Less
  <2> QED
    BY <2>1, NatLessThanWellFounded, IsWellFoundedOnSubrelation
<1>2. PICK n \in T : \A m \in T : <<m, n>> \notin Less
  BY <1>1, WFMin
<1>3. ASSUME NEW m \in T
      PROVE  n <= m
  <2>1. <<m, n>> \notin Less
    BY <1>2
  <2>2. m \in Nat /\ n \in Nat
    OBVIOUS
  <2>3. <<m, n>> \in Nat \X Nat /\ <<m, n>>[1] = m /\ <<m, n>>[2] = n
    BY <2>2
  <2> QED
    BY <2>1, <2>2, <2>3 DEF Less
<1> QED
  BY <1>3

(* T holds 0 and, up to n, with each number the next one.                  *)
Climbs(T, n) == 0 \in T /\ \A i \in 1 .. n : i - 1 \in T => i \in T

LEMMA ClimbsToTop ==
  ASSUME NEW T, NEW n \in Nat, Climbs(T, n)
  PROVE  \A i \in 0 .. n : i \in T
<1> DEFINE Bad == {i \in Nat : i \in 0 .. n /\ i \notin T}
<1>1. ASSUME Bad # {}
      PROVE  FALSE
  <2>1. PICK k \in Bad : \A l \in Bad : k <= l
    <3>1. Bad \subseteq Nat
      OBVIOUS
    <3> HIDE DEF Bad
    <3> QED
      BY <1>1, <3>1, LeastOf
  <2>2. k \in 0 .. n /\ k \notin T /\ k # 0
    BY DEF Climbs
  <2>3. k \in 1 .. n /\ k - 1 \in 0 .. n /\ k - 1 \notin Bad
    BY <2>1, <2>2
  <2>4. k - 1 \in T
    BY <2>3
  <2> QED
    BY <2>2, <2>3, <2>4 DEF Climbs
<1> QED
  BY <1>1

(* f is what FlattenSeq has collected after each of n sequences.           *)
Collects(f, seqs, n) ==
  f = [i \in 1 .. n |-> IF i = 1 THEN seqs[i] ELSE f[i-1] \o seqs[i]]

LEMMA SomeCollects ==
  ASSUME NEW seqs, NEW n \in Nat
  PROVE  \E f : Collects(f, seqs, n)
<1> DEFINE Bad == {m \in Nat : ~ \E f : Collects(f, seqs, m)}
<1> SUFFICES ASSUME Bad # {}
             PROVE  FALSE
  OBVIOUS
<1>1. PICK m \in Bad : \A k \in Bad : m <= k
  <2>1. Bad \subseteq Nat
    OBVIOUS
  <2> HIDE DEF Bad
  <2> QED
    BY <2>1, LeastOf
<1>2. m # 0
  <2>1. Collects(<<>>, seqs, 0)
    BY DEF Collects
  <2> QED
    BY <2>1
<1>3. m - 1 \in Nat /\ m - 1 \notin Bad
  BY <1>1, <1>2
<1>4. PICK f : Collects(f, seqs, m-1)
  BY <1>3
<1> DEFINE last == IF m = 1 THEN seqs[m] ELSE f[m-1] \o seqs[m]
           g    == [i \in 1 .. m |-> IF i = m THEN last ELSE f[i]]
<1>5. \A i \in 1 .. m : g[i] = IF i = 1 THEN seqs[i] ELSE g[i-1] \o seqs[i]
  <2> TAKE i \in 1 .. m
  <2>1. i # 1 => i - 1 \in 1 .. m /\ g[i-1] = f[i-1]
    BY <1>3
  <2>2. CASE i = m
    BY <2>1, <2>2
  <2>3. CASE i # m
    <3>1. i \in 1 .. m-1
      BY <1>3, <2>3
    <3>2. f[i] = IF i = 1 THEN seqs[i] ELSE f[i-1] \o seqs[i]
      BY <1>4, <3>1 DEF Collects
    <3>3. g[i] = f[i]
      BY <2>3
    <3> QED
      BY <2>1, <3>2, <3>3
  <2> QED
    BY <2>2, <2>3
<1>6. Collects(g, seqs, m)
  <2>1. g = [i \in 1 .. m |-> g[i]]
    OBVIOUS
  <2> HIDE DEF g
  <2> QED
    BY <1>5, <2>1 DEF Collects
<1> QED
  BY <1>6

(* What FlattenSeq returns is the last of what it collects.                *)
LEMMA FlattenSeqCollects ==
  ASSUME NEW seqs, Len(seqs) \in Nat, Len(seqs) # 0
  PROVE  \E g : Collects(g, seqs, Len(seqs)) /\ FlattenSeq(seqs) = g[Len(seqs)]
<1> DEFINE n == Len(seqs)
           g == CHOOSE h : Collects(h, seqs, n)
<1>1. Collects(g, seqs, n)
  <2>1. n \in Nat
    OBVIOUS
  <2> HIDE DEF n
  <2>2. \E h : Collects(h, seqs, n)
    BY <2>1, SomeCollects
  <2> QED
    BY <2>2
<1>2. FlattenSeq(seqs) = g[n]
  <2> DEFINE f == CHOOSE h : h = [i \in 1 .. Len(seqs) |->
                   IF i = 1 THEN seqs[i] ELSE h[i-1] \o seqs[i]]
  <2>1. FlattenSeq(seqs) = f[Len(seqs)]
    BY DEF FlattenSeq
  <2>2. f = g
    BY Zenon DEF Collects
  <2> QED
    BY <2>1, <2>2
<1> HIDE DEF g
<1> QED
  BY <1>1, <1>2

(* off[k] elements of the flattened sequence come before those of          *)
(* seqs[k+1].                                                              *)
IsOffsets(off, seqs, n) ==
  /\ off \in [0 .. n -> Nat] /\ off[0] = 0
  /\ \A k \in 1 .. n : off[k] = off[k-1] + Len(seqs[k])

(* What has been collected after k sequences.                              *)
Placed(g, off, S, seqs, k) ==
  /\ g[k] \in Seq(S)
  /\ off[k] = Len(g[k])
  /\ off[k] = off[k-1] + Len(seqs[k])
  /\ \A i \in 0 .. k : off[i] \in Nat /\ off[i] <= off[k]
  /\ \A i \in 1 .. k : \A x \in 1 .. Len(seqs[i]) :
       g[k][off[i-1] + x] = seqs[i][x]

LEMMA PlacedNext ==
  ASSUME NEW S, NEW seqs, NEW g, NEW off, NEW k \in Nat, k > 1,
         seqs[k] \in Seq(S),
         g[k] = g[k-1] \o seqs[k],
         off[k] = Len(g[k]),
         \A i \in 1 .. k-1 : Placed(g, off, S, seqs, i),
         \A i \in 1 .. k-1 : seqs[i] \in Seq(S)
  PROVE  Placed(g, off, S, seqs, k)
<1> DEFINE h == k - 1
<1>0. h \in 1 .. k-1 /\ h \in Nat
  OBVIOUS
<1>1. /\ g[h] \in Seq(S) /\ off[h] = Len(g[h])
      /\ \A i \in 0 .. h : off[i] \in Nat /\ off[i] <= off[h]
      /\ \A i \in 1 .. h : \A x \in 1 .. Len(seqs[i]) :
            g[h][off[i-1] + x] = seqs[i][x]
  <2>1. Placed(g, off, S, seqs, h)
    BY <1>0
  <2> HIDE DEF h
  <2> QED
    BY <2>1 DEF Placed
<1>2. g[k] = g[h] \o seqs[k]
  OBVIOUS
<1>3. h + 1 = k
  OBVIOUS
<1> HIDE DEF h
<1>4. /\ g[k] \in Seq(S) /\ Len(g[k]) = Len(g[h]) + Len(seqs[k])
      /\ \A i \in 1 .. Len(g[h]) : g[k][i] = g[h][i]
      /\ \A i \in 1 .. Len(seqs[k]) : g[k][Len(g[h]) + i] = seqs[k][i]
  <2> DEFINE s == g[h]
             t == seqs[k]
  <2>1. s \in Seq(S) /\ t \in Seq(S)
    BY <1>1
  <2>2. g[k] = s \o t
    BY <1>2
  <2> HIDE DEF s, t
  <2>3. /\ s \o t \in Seq(S) /\ Len(s \o t) = Len(s) + Len(t)
        /\ Len(s) \in Nat /\ Len(t) \in Nat
        /\ \A i \in 1 .. Len(s) : (s \o t)[i] = s[i]
        /\ \A i \in 1 .. Len(t) : (s \o t)[Len(s) + i] = t[i]
    BY <2>1, ConcatProperties
  <2>4. /\ g[k] \in Seq(S) /\ Len(g[k]) = Len(s) + Len(t)
        /\ \A i \in 1 .. Len(s) : g[k][i] = s[i]
        /\ \A i \in 1 .. Len(t) : g[k][Len(s) + i] = t[i]
    BY <2>2, <2>3
  <2> QED
    BY <2>4 DEF s, t
<1>5. Len(seqs[k]) \in Nat /\ off[h] \in Nat
  BY <1>0, <1>1
<1>6. off[k] = off[h] + Len(seqs[k])
  BY <1>1, <1>4
<1>7. \A i \in 0 .. k : off[i] \in Nat /\ off[i] <= off[k]
  <2> TAKE i \in 0 .. k
  <2>1. CASE i = k
    BY <1>5, <1>6, <2>1
  <2>2. CASE i # k
    <3>1. i \in 0 .. h
      BY <1>0, <1>3, <2>2
    <3>2. off[i] \in Nat /\ off[i] <= off[h]
      BY <1>1, <3>1
    <3> QED
      BY <1>5, <1>6, <3>2
  <2> QED
    BY <2>1, <2>2
<1>8. \A i \in 1 .. k : \A x \in 1 .. Len(seqs[i]) :
        g[k][off[i-1] + x] = seqs[i][x]
  <2> TAKE i \in 1 .. k
  <2> TAKE x \in 1 .. Len(seqs[i])
  <2>1. CASE i = k
    <3>1. i - 1 = h
      BY <1>0, <1>3, <2>1
    <3>2. g[k][Len(g[h]) + x] = seqs[k][x]
      BY <1>4, <2>1
    <3> QED
      BY <1>1, <2>1, <3>1, <3>2
  <2>2. CASE i # k
    <3>1. i \in 1 .. h /\ i \in 1 .. k-1 /\ i \in 0 .. h /\ i - 1 \in 0 .. h
      BY <1>0, <1>3, <2>2
    <3>2. g[h][off[i-1] + x] = seqs[i][x] /\ off[i] <= off[h]
          /\ off[i-1] \in Nat
      BY <1>1, <3>1
    <3>3. off[i] = off[i-1] + Len(seqs[i])
      BY <3>1 DEF Placed
    <3>4. Len(seqs[i]) \in Nat
      BY <3>1
    <3>5. off[i-1] + x \in 1 .. Len(g[h])
      BY <1>1, <1>5, <3>2, <3>3, <3>4
    <3> QED
      BY <1>4, <3>2, <3>5
  <2> QED
    BY <2>1, <2>2
<1>9. off[k] = off[k-1] + Len(seqs[k])
  BY <1>6 DEF h
<1> QED
  BY <1>4, <1>7, <1>8, <1>9 DEF Placed

LEMMA AllPlaced ==
  ASSUME NEW S, NEW seqs \in Seq(Seq(S)), NEW g, Collects(g, seqs, Len(seqs)),
         NEW off, off = [k \in 0 .. Len(seqs) |-> IF k = 0 THEN 0 ELSE Len(g[k])]
  PROVE  \A k \in 1 .. Len(seqs) : Placed(g, off, S, seqs, k)
<1> DEFINE n == Len(seqs)
           Bad == {k \in Nat : k \in 1 .. n /\ ~Placed(g, off, S, seqs, k)}
<1>0. n \in Nat
  OBVIOUS
<1>1. \A k \in 1 .. n : seqs[k] \in Seq(S)
  OBVIOUS
<1>2. \A k \in 1 .. n : g[k] = IF k = 1 THEN seqs[k] ELSE g[k-1] \o seqs[k]
  BY DEF Collects
<1>3. \A k \in 1 .. n : off[k] = Len(g[k])
  OBVIOUS
<1>4. off[0] = 0
  OBVIOUS
<1>5. ASSUME Bad # {}
      PROVE  FALSE
  <2>1. PICK k \in Bad : \A l \in Bad : k <= l
    <3>1. Bad \subseteq Nat
      OBVIOUS
    <3> HIDE DEF Bad
    <3> QED
      BY <1>5, <3>1, LeastOf
  <2>2. k \in Nat /\ k \in 1 .. n /\ ~Placed(g, off, S, seqs, k)
    OBVIOUS
  <2>3. \A l \in 1 .. k-1 : l \in 1 .. n /\ Placed(g, off, S, seqs, l)
    <3> TAKE l \in 1 .. k-1
    <3>1. l \in 1 .. n /\ l \in Nat /\ ~(k <= l)
      BY <2>2
    <3>2. l \notin Bad
      BY <2>1, <3>1
    <3> QED
      BY <3>1, <3>2
  <2> HIDE DEF Bad, n
  <2>4. CASE k = 1
    <3>1. g[1] = seqs[1] /\ seqs[1] \in Seq(S) /\ off[1] = Len(seqs[1])
          /\ off[1] = Len(g[1])
      BY <1>1, <1>2, <1>3, <2>2, <2>4
    <3>2. Len(seqs[1]) \in Nat
      BY <3>1
    <3>3. \A i \in 0 .. 1 : off[i] \in Nat /\ off[i] <= off[1]
      <4> TAKE i \in 0 .. 1
      <4>1. i = 0 \/ i = 1
        OBVIOUS
      <4> QED
        BY <1>4, <3>1, <3>2, <4>1
    <3>4. \A i \in 1 .. 1 : \A x \in 1 .. Len(seqs[i]) :
            g[1][off[i-1] + x] = seqs[i][x]
      <4> TAKE i \in 1 .. 1
      <4> TAKE x \in 1 .. Len(seqs[i])
      <4>1. i = 1 /\ i - 1 = 0 /\ x \in Int
        BY <3>2
      <4> QED
        BY <1>4, <3>1, <4>1
    <3>5. off[1] = off[1-1] + Len(seqs[1])
      BY <1>4, <3>1, <3>2
    <3>6. Placed(g, off, S, seqs, 1)
      BY <3>1, <3>3, <3>4, <3>5 DEF Placed
    <3> QED
      BY <2>2, <2>4, <3>6
  <2>5. CASE k # 1
    <3>0. k > 1
      BY <1>0, <2>2, <2>5
    <3>1. seqs[k] \in Seq(S) /\ off[k] = Len(g[k]) /\ g[k] = g[k-1] \o seqs[k]
      BY <1>1, <1>2, <1>3, <2>2, <2>5
    <3>2. \A i \in 1 .. k-1 : seqs[i] \in Seq(S)
      BY <1>1, <2>3
    <3>3. Placed(g, off, S, seqs, k)
      BY <2>2, <2>3, <3>0, <3>1, <3>2, PlacedNext
    <3> QED
      BY <2>2, <3>3
  <2> QED
    BY <2>4, <2>5
<1> QED
  <2> SUFFICES ASSUME NEW k \in 1 .. n
               PROVE  Placed(g, off, S, seqs, k)
    OBVIOUS
  <2>1. k \in Nat /\ (~Placed(g, off, S, seqs, k) => k \in Bad)
    BY <1>0
  <2> HIDE DEF Bad
  <2> QED
    BY <1>5, <2>1

(* FlattenSeq returns a sequence of the elements it was given, each at its *)
(* offset.                                                                 *)
LEMMA FlattenAt ==
  ASSUME NEW S, NEW seqs \in Seq(Seq(S))
  PROVE  /\ FlattenSeq(seqs) \in Seq(S)
         /\ \E off :
              /\ IsOffsets(off, seqs, Len(seqs))
              /\ Len(FlattenSeq(seqs)) = off[Len(seqs)]
              /\ \A k, l \in 0 .. Len(seqs) : k <= l => off[k] <= off[l]
              /\ \A k \in 1 .. Len(seqs) : \A x \in 1 .. Len(seqs[k]) :
                   FlattenSeq(seqs)[off[k-1] + x] = seqs[k][x]
<1> DEFINE n == Len(seqs)
           flat == FlattenSeq(seqs)
<1>0. n \in Nat
  OBVIOUS
<1>1. CASE n = 0
  <2>1. flat = seqs /\ seqs = <<>>
    BY <1>1 DEF FlattenSeq
  <2>2. flat \in Seq(S) /\ Len(flat) = 0
    BY <2>1
  <2>3. PICK off : off = [k \in 0 .. 0 |-> 0]
    OBVIOUS
  <2>4. off \in [0 .. 0 -> Nat] /\ off[0] = 0
    BY <2>3
  <2>5. \A k \in 1 .. n : FALSE
    BY <1>1
  <2>6. IsOffsets(off, seqs, n)
    BY <1>1, <2>4, <2>5 DEF IsOffsets
  <2>7. \A k, l \in 0 .. n : k <= l => off[k] <= off[l]
    <3> TAKE k, l \in 0 .. n
    <3>1. k = 0 /\ l = 0
      BY <1>1
    <3> QED
      BY <2>4, <3>1
  <2> QED
    BY <1>1, <2>2, <2>4, <2>5, <2>6, <2>7
<1>2. CASE n # 0
  <2>1. PICK g : Collects(g, seqs, n) /\ flat = g[n]
    BY <1>0, <1>2, FlattenSeqCollects
  <2>2. PICK off : off = [k \in 0 .. n |-> IF k = 0 THEN 0 ELSE Len(g[k])]
    OBVIOUS
  <2>3. \A k \in 1 .. n : Placed(g, off, S, seqs, k)
    BY <2>1, <2>2, AllPlaced
  <2>4. n \in 1 .. n /\ Placed(g, off, S, seqs, n)
    BY <1>0, <1>2, <2>3
  <2>5. off[0] = 0 /\ off = [k \in 0 .. n |-> off[k]]
    BY <1>0, <2>2
  <2> HIDE DEF n, flat
  <2>6. /\ g[n] \in Seq(S) /\ off[n] = Len(g[n])
        /\ \A i \in 0 .. n : off[i] \in Nat
        /\ \A i \in 1 .. n : \A x \in 1 .. Len(seqs[i]) :
             g[n][off[i-1] + x] = seqs[i][x]
    BY <2>4 DEF Placed
  <2>7. \A k, l \in 0 .. n : k <= l => off[k] <= off[l]
    <3> TAKE k, l \in 0 .. n
    <3>1. CASE l = 0
      BY <2>6, <3>1
    <3>2. CASE l # 0
      <4>1. l \in 1 .. n
        BY <1>0, <3>2
      <4>2. \A i \in 0 .. l : off[i] <= off[l]
        BY <2>3, <4>1 DEF Placed
      <4> QED
        BY <4>2
    <3> QED
      BY <3>1, <3>2
  <2>8. off \in [0 .. n -> Nat]
    BY <2>5, <2>6
  <2>9. \A k \in 1 .. n : off[k] = off[k-1] + Len(seqs[k])
    BY <2>3 DEF Placed
  <2>10. IsOffsets(off, seqs, n)
    BY <2>5, <2>8, <2>9 DEF IsOffsets
  <2>11. flat \in Seq(S) /\ Len(flat) = off[n]
    BY <2>1, <2>6
  <2>12. \A k \in 1 .. n : \A x \in 1 .. Len(seqs[k]) : flat[off[k-1] + x] = seqs[k][x]
    BY <2>1, <2>6
  <2> QED
    BY <2>7, <2>10, <2>11, <2>12 DEF n, flat
<1> QED
  BY <1>1, <1>2

(* The smallest and the largest of a set of numbers.                       *)
LEMMA MinOf ==
  ASSUME NEW T, T \subseteq Nat, T # {}
  PROVE  Min(T) \in T /\ \A m \in T : Min(T) <= m
BY LeastOf DEF Min

LEMMA MinIs ==
  ASSUME NEW T, T \subseteq Nat, NEW n \in T, \A m \in T : n <= m
  PROVE  Min(T) = n
<1>1. Min(T) \in T /\ Min(T) <= n
  BY MinOf
<1>2. n <= Min(T) /\ Min(T) \in Nat /\ n \in Nat
  BY <1>1
<1> QED
  BY <1>1, <1>2

LEMMA MaxIs ==
  ASSUME NEW T, T \subseteq Nat, NEW n \in T, \A m \in T : m <= n
  PROVE  Max(T) = n
<1> DEFINE x == CHOOSE x \in T : \A y \in T : x >= y
<1>1. n \in T /\ \A y \in T : n >= y
  OBVIOUS
<1>2. x \in T /\ \A y \in T : x >= y
  BY <1>1, Zenon
<1> HIDE DEF x
<1>3. x >= n /\ n >= x /\ x \in Nat /\ n \in Nat
  BY <1>1, <1>2
<1>4. x = n
  BY <1>3
<1> QED
  BY <1>4 DEF Max, x
=============================================================================
