--------------------------- MODULE IpStackProofs ----------------------------
(***************************************************************************)
(* The packets of IpStack, for packets, options and data of every length.  *)
(***************************************************************************)
EXTENDS IpStack, DataLemmas

(***************************************************************************)
(* What is collected from the front of a sequence stays when more follows. *)
(***************************************************************************)
SameFront(s, t, n) == \A i \in 1 .. n : s[i] = t[i]

(* Equal fronts collect to equal fronts.                                   *)
LEMMA CollectsSame ==
  ASSUME NEW s, NEW t, NEW n \in Nat, NEW m \in Nat, n <= m,
         NEW f, NEW g, Collects(f, s, n), Collects(g, t, m),
         SameFront(s, t, n)
  PROVE  SameFront(f, g, n)
<1> DEFINE Bad == {i \in Nat : i \in 1 .. n /\ f[i] # g[i]}
<1>1. ASSUME Bad # {}
      PROVE  FALSE
  <2>1. PICK k \in Bad : \A l \in Bad : k <= l
    <3>1. Bad \subseteq Nat
      OBVIOUS
    <3> HIDE DEF Bad
    <3> QED
      BY <1>1, <3>1, LeastOf
  <2>2. k \in 1 .. n /\ f[k] # g[k] /\ k \in 1 .. m
    OBVIOUS
  <2>3. k # 1 => k - 1 \in 1 .. n /\ k - 1 \in Nat /\ k - 1 \notin Bad
    BY <2>1, <2>2
  <2>4. k # 1 => f[k-1] = g[k-1]
    BY <2>3
  <2> HIDE DEF Bad
  <2>5. f[k] = IF k = 1 THEN s[k] ELSE f[k-1] \o s[k]
    BY <2>2 DEF Collects
  <2>6. g[k] = IF k = 1 THEN t[k] ELSE g[k-1] \o t[k]
    BY <2>2 DEF Collects
  <2> QED
    BY <2>2, <2>4, <2>5, <2>6 DEF SameFront
<1> QED
  BY <1>1 DEF SameFront

(* t is s, of n sequences, with one more that is over S.                   *)
Longer(s, t, n, m, S) ==
  /\ n \in Nat /\ m \in Nat /\ Len(s) = n /\ Len(t) = m /\ m - 1 = n
  /\ n = 0 => s = <<>>
  /\ SameFront(s, t, n) /\ t[m] \in Seq(S)

(* Flattening a sequence with one more part appends that part.             *)
LEMMA FlattenAppend ==
  ASSUME NEW S, NEW s, NEW t, NEW n, NEW m, Longer(s, t, n, m, S)
  PROVE  FlattenSeq(t) = FlattenSeq(s) \o t[m]
<1> /\ n \in Nat /\ m \in Nat /\ Len(s) = n /\ Len(t) = m /\ m - 1 = n
    /\ n = 0 => s = <<>>
    /\ SameFront(s, t, n) /\ t[m] \in Seq(S)
  BY Zenon DEF Longer
<1> DEFINE S1 == FlattenSeq(s)
           T1 == FlattenSeq(t)
<1>0. m # 0 /\ n <= m /\ m \in 1 .. m /\ (n = 0 <=> m = 1) /\ (n # 0 => n \in 1 .. n)
  OBVIOUS
<1>1. PICK g : Collects(g, t, m) /\ T1 = g[m]
  BY <1>0, FlattenSeqCollects
<1>2. S1 = <<>> \/ n # 0
  BY DEF FlattenSeq
<1>3. n # 0 => \E f : Collects(f, s, n) /\ S1 = f[n]
  BY FlattenSeqCollects
<1>4. \A f : Collects(f, s, n) => SameFront(f, g, n)
  BY <1>0, <1>1, CollectsSame
<1>5. <<>> \o t[m] = t[m]
  BY ConcatEmptySeq
<1> HIDE DEF S1, T1
<1>6. g[m] = IF m = 1 THEN t[m] ELSE g[m-1] \o t[m]
  BY <1>0, <1>1 DEF Collects
<1>7. T1 = S1 \o t[m]
  <2>1. CASE n = 0
    BY <1>0, <1>1, <1>2, <1>5, <1>6, <2>1
  <2>2. CASE n # 0
    <3>1. PICK f : Collects(f, s, n) /\ S1 = f[n]
      BY <1>3, <2>2
    <3>2. f[n] = g[n]
      BY <1>0, <1>4, <2>2, <3>1 DEF SameFront
    <3>3. g[m] = g[n] \o t[m]
      BY <1>0, <1>6, <2>2
    <3> QED
      BY <1>1, <3>1, <3>2, <3>3
  <2> QED
    BY <2>1, <2>2
<1> QED
  BY <1>7 DEF S1, T1

(***************************************************************************)
(* Sums.                                                                   *)
(***************************************************************************)
(* f is what SumOf has added up after each of n terms.                     *)
Adds(f, terms, n) == f = [i \in 0 .. n |-> IF i = 0 THEN 0 ELSE f[i-1] + terms[i]]

(* There are partial sums of any n terms.                                  *)
LEMMA SomeAdds ==
  ASSUME NEW terms, NEW n \in Nat
  PROVE  \E f : Adds(f, terms, n)
<1> DEFINE Bad == {m \in Nat : ~ \E f : Adds(f, terms, m)}
<1> SUFFICES ASSUME Bad # {}
             PROVE  FALSE
  OBVIOUS
<1>1. PICK m \in Bad : \A k \in Bad : m <= k
  <2>1. Bad \subseteq Nat
    OBVIOUS
  <2> HIDE DEF Bad
  <2> QED
    BY <2>1, LeastOf
<1>2. m # 0
  <2> DEFINE z == [i \in 0 .. 0 |-> 0]
  <2>1. z = [i \in 0 .. 0 |-> IF i = 0 THEN 0 ELSE z[i-1] + terms[i]]
    OBVIOUS
  <2>2. Adds(z, terms, 0)
    BY <2>1 DEF Adds
  <2> QED
    BY <2>2
<1>3. m - 1 \in Nat /\ m - 1 \notin Bad
  BY <1>1, <1>2
<1>4. PICK f : Adds(f, terms, m-1)
  BY <1>3
<1> DEFINE g == [i \in 0 .. m |-> IF i = m THEN f[m-1] + terms[m] ELSE f[i]]
<1>5. \A i \in 0 .. m : g[i] = IF i = 0 THEN 0 ELSE g[i-1] + terms[i]
  <2> TAKE i \in 0 .. m
  <2>1. i # 0 => i - 1 \in 0 .. m /\ g[i-1] = f[i-1]
    BY <1>3
  <2>2. CASE i = m
    BY <1>2, <2>1, <2>2
  <2>3. CASE i # m
    <3>1. i \in 0 .. m-1
      BY <1>3, <2>3
    <3>2. f[i] = IF i = 0 THEN 0 ELSE f[i-1] + terms[i]
      BY <1>4, <3>1 DEF Adds
    <3>3. g[i] = f[i]
      BY <2>3
    <3> QED
      BY <2>1, <3>2, <3>3
  <2> QED
    BY <2>2, <2>3
<1>6. Adds(g, terms, m)
  <2>1. g = [i \in 0 .. m |-> g[i]]
    OBVIOUS
  <2> HIDE DEF g
  <2> QED
    BY <1>5, <2>1 DEF Adds
<1> QED
  BY <1>6

(* SumOf is the last of the partial sums.                                  *)
LEMMA SumAdds ==
  ASSUME NEW terms, Len(terms) \in Nat
  PROVE  \E g : Adds(g, terms, Len(terms)) /\ SumOf(terms) = g[Len(terms)]
<1> DEFINE n == Len(terms)
           g == CHOOSE h : Adds(h, terms, n)
<1>1. Adds(g, terms, n)
  <2>1. n \in Nat
    OBVIOUS
  <2> HIDE DEF n
  <2>2. \E h : Adds(h, terms, n)
    BY <2>1, SomeAdds
  <2> QED
    BY <2>2
<1>2. SumOf(terms) = g[n]
  <2> DEFINE f == CHOOSE h : h = [i \in 0 .. Len(terms) |->
                   IF i = 0 THEN 0 ELSE h[i-1] + terms[i]]
  <2>1. SumOf(terms) = f[Len(terms)]
    BY DEF SumOf
  <2>2. f = g
    BY Zenon DEF Adds
  <2> QED
    BY <2>1, <2>2
<1> HIDE DEF g
<1> QED
  BY <1>1, <1>2

(* Equal terms have equal partial sums.                                    *)
LEMMA AddsSame ==
  ASSUME NEW s, NEW t, NEW n \in Nat, NEW m \in Nat, n <= m,
         NEW f, NEW g, Adds(f, s, n), Adds(g, t, m), SameFront(s, t, n)
  PROVE  \A i \in 0 .. n : f[i] = g[i]
<1> DEFINE T == {i \in 0 .. n : f[i] = g[i]}
<1>1. 0 \in T
  BY DEF Adds
<1>2. ASSUME NEW i \in 1 .. n, i - 1 \in T
      PROVE  i \in T
  <2>1. i \in 0 .. n /\ i \in 0 .. m /\ i # 0
    OBVIOUS
  <2>2. f[i] = f[i-1] + s[i] /\ g[i] = g[i-1] + t[i]
    BY <2>1 DEF Adds
  <2>3. s[i] = t[i] /\ f[i-1] = g[i-1]
    BY <1>2 DEF SameFront
  <2> QED
    BY <2>1, <2>2, <2>3
<1>3. Climbs(T, n)
  BY <1>1, <1>2 DEF Climbs
<1> HIDE DEF T
<1>4. \A i \in 0 .. n : i \in T
  BY <1>3, ClimbsToTop
<1> QED
  BY <1>4 DEF T

(***************************************************************************)
(* The sum of bytes.                                                       *)
(***************************************************************************)
Weighed(octets, i) == IF i % 2 = 1 THEN octets[i] * 256 ELSE octets[i]

(* f is what a receiver has added up after each of n bytes.                *)
AddsBytes(f, octets, n) ==
  f[0] = 0 /\ \A i \in 1 .. n : f[i] = f[i-1] + Weighed(octets, i)

(* A receiver's sum is the last of its partial sums.                       *)
LEMMA ReceiverAdds ==
  ASSUME NEW octets, NEW n \in Nat, Len(octets) = n
  PROVE  \E f : AddsBytes(f, octets, n) /\ ReceiverSum(octets) = f[n]
<1> DEFINE t == [i \in 1 .. n |-> IF i % 2 = 1 THEN octets[i] * 256 ELSE octets[i]]
<1>1. ReceiverSum(octets) = SumOf(t)
  BY DEF ReceiverSum, BASE
<1>2. Len(t) = n /\ \A i \in 1 .. n : t[i] = Weighed(octets, i)
  BY DEF Weighed
<1> HIDE DEF t
<1>3. PICK f : Adds(f, t, n) /\ SumOf(t) = f[n]
  BY <1>2, SumAdds
<1>4. AddsBytes(f, octets, n)
  BY <1>2, <1>3 DEF AddsBytes, Adds
<1> QED
  BY <1>1, <1>3, <1>4

(* The bytes are the numbers up to 255.                                    *)
LEMMA BytesAre == Byte = 0 .. 255
BY SMT DEF Byte, BASE

(* A byte can be the high byte of a word.                                  *)
LEMMA ByteTimes ==
  ASSUME NEW x \in Byte
  PROVE  x \in Nat /\ x * 256 \in Nat
BY SMT DEF Byte, BASE

Small(w) == w \in Nat /\ w <= 65280

(* What one byte adds is at most 255 * 256.                                *)
LEMMA WeighedType ==
  ASSUME NEW octets, NEW i, octets[i] \in Byte
  PROVE  Small(Weighed(octets, i))
<1>1. PICK x \in 0 .. 255 : x = octets[i]
  BY DEF Byte, BASE
<1>2. x \in Nat /\ x <= 255
  BY SMT
<1>3. x \in Nat /\ x <= 65280
  BY <1>2, SMT
<1>4. x * 256 \in Nat
  BY <1>2, SMT
<1>5. x * 256 <= 65280
  BY <1>2, SMT
<1>6. Small(x) /\ Small(x * 256)
  BY <1>3, <1>4, <1>5, SMT DEF Small
<1>7. Weighed(octets, i) = x \/ Weighed(octets, i) = x * 256
  BY <1>1, SMT DEF Weighed
<1> QED
  BY <1>6, <1>7, Zenon

(* A sum of k small numbers.                                               *)
Bounded65280(y, k) == y \in Nat /\ y <= 65280 * k

(* One byte more raises the bound by one.                                  *)
LEMMA NextBound ==
  ASSUME NEW i \in Nat, i # 0, NEW y, NEW w, Bounded65280(y, i-1), Small(w)
  PROVE  Bounded65280(y + w, i)
<1>1. y \in Nat /\ w \in Nat /\ w <= 65280 /\ y <= 65280 * (i - 1)
  BY SMT DEF Bounded65280, Small
<1>2. y + w \in Nat
  BY <1>1, SMT
<1>3. y + w <= 65280 * i
  BY <1>1, SMT
<1> QED
  BY <1>2, <1>3, SMT DEF Bounded65280

(* After i bytes at most 65280 * i has been added.                         *)
LEMMA BytesAddUp ==
  ASSUME NEW octets, NEW n \in Nat, NEW f, AddsBytes(f, octets, n),
         \A i \in 1 .. n : octets[i] \in Byte
  PROVE  \A i \in 0 .. n : Bounded65280(f[i], i)
<1> DEFINE T == {i \in 0 .. n : Bounded65280(f[i], i)}
<1>1. 0 \in T
  <2>1. f[0] = 0 /\ 0 \in 0 .. n
    BY SMT DEF AddsBytes
  <2>2. Bounded65280(0, 0)
    BY SMT DEF Bounded65280
  <2> QED
    BY <2>1, <2>2, Zenon
<1>2. ASSUME NEW i \in 1 .. n, i - 1 \in T
      PROVE  i \in T
  <2>1. f[i] = f[i-1] + Weighed(octets, i)
    BY SMT DEF AddsBytes
  <2>2. Small(Weighed(octets, i))
    BY WeighedType, Zenon
  <2>3. Bounded65280(f[i-1], i-1)
    BY <1>2, Zenon
  <2>4. i \in Nat /\ i # 0 /\ i \in 0 .. n
    BY SMT
  <2>5. Bounded65280(f[i-1] + Weighed(octets, i), i)
    BY <2>2, <2>3, <2>4, NextBound, Zenon
  <2> QED
    BY <2>1, <2>4, <2>5, Zenon
<1>3. Climbs(T, n)
  BY <1>1, <1>2, Zenon DEF Climbs
<1> HIDE DEF T
<1>4. \A i \in 0 .. n : i \in T
  BY <1>3, ClimbsToTop, SMT
<1> QED
  BY <1>4, Zenon DEF T

(* The partial sums are numbers.                                           *)
LEMMA AddsNumbers ==
  ASSUME NEW octets, NEW n \in Nat, NEW f, AddsBytes(f, octets, n),
         \A i \in 1 .. n : octets[i] \in Byte
  PROVE  \A i \in 0 .. n : f[i] \in Nat
<1>1. \A i \in 0 .. n : Bounded65280(f[i], i)
  BY BytesAddUp, Zenon
<1> QED
  BY <1>1, SMT DEF Bounded65280

(* A receiver's sum is bounded by the length of what it adds.              *)
LEMMA ReceiverSumType ==
  ASSUME NEW octets \in Seq(Byte)
  PROVE  Bounded65280(ReceiverSum(octets), Len(octets))
<1>1. PICK n \in Nat : n = Len(octets)
  OBVIOUS
<1>2. \A i \in 1 .. n : octets[i] \in Byte
  BY <1>1, SMT
<1>3. PICK f : AddsBytes(f, octets, n) /\ ReceiverSum(octets) = f[n]
  BY <1>1, ReceiverAdds, SMT
<1>4. Bounded65280(f[n], n)
  <2>1. n \in 0 .. n
    BY SMT
  <2> QED
    BY <1>2, <1>3, <2>1, BytesAddUp, Zenon
<1> QED
  BY <1>1, <1>3, <1>4, Zenon

(* Bytes behind an even number of others count as they do alone.           *)
LEMMA ReceiverSumConcat ==
  ASSUME NEW a \in Seq(Byte), NEW b \in Seq(Byte), Len(a) % 2 = 0
  PROVE  ReceiverSum(a \o b) = ReceiverSum(a) + ReceiverSum(b)
<1> DEFINE c == a \o b
<1>1. PICK la \in Nat : la = Len(a)
  OBVIOUS
<1>2. PICK lb \in Nat : lb = Len(b)
  OBVIOUS
<1>3. /\ Len(c) = la + lb /\ \A i \in 1 .. la : c[i] = a[i]
      /\ \A i \in 1 .. lb : c[la + i] = b[i]
  BY <1>1, <1>2
<1>4. /\ \A i \in 1 .. la : a[i] \in Byte
      /\ \A i \in 1 .. lb : b[i] \in Byte
  BY <1>1, <1>2
<1>5. PICK n \in Nat : n = la + lb
  OBVIOUS
<1>6. la % 2 = 0
  BY <1>1
<1> HIDE DEF c
<1>7. PICK f : AddsBytes(f, c, n) /\ ReceiverSum(c) = f[n]
  BY <1>3, <1>5, ReceiverAdds
<1>8. PICK fa : AddsBytes(fa, a, la) /\ ReceiverSum(a) = fa[la]
  BY <1>1, ReceiverAdds
<1>9. PICK fb : AddsBytes(fb, b, lb) /\ ReceiverSum(b) = fb[lb]
  BY <1>2, ReceiverAdds
<1>10. /\ \A i \in 0 .. la : fa[i] \in Nat
       /\ \A i \in 0 .. lb : fb[i] \in Nat
  BY <1>4, <1>8, <1>9, AddsNumbers, Zenon
<1> DEFINE T == {i \in 0 .. la : f[i] = fa[i]}
           U == {i \in 0 .. lb : f[la + i] = fa[la] + fb[i]}
<1>11. Climbs(T, la)
  <2>1. 0 \in T
    BY <1>7, <1>8 DEF AddsBytes
  <2>2. ASSUME NEW i \in 1 .. la, i - 1 \in T
        PROVE  i \in T
    <3>1. i \in 1 .. n /\ i \in 0 .. la
      BY <1>5
    <3>2. f[i] = f[i-1] + Weighed(c, i) /\ fa[i] = fa[i-1] + Weighed(a, i)
      BY <1>7, <1>8, <3>1 DEF AddsBytes
    <3>3. Weighed(c, i) = Weighed(a, i)
      BY <1>3 DEF Weighed
    <3>4. f[i-1] = fa[i-1]
      BY <2>2
    <3> QED
      BY <3>1, <3>2, <3>3, <3>4
  <2> QED
    BY <2>1, <2>2 DEF Climbs
<1>12. f[la] = fa[la]
  <2> HIDE DEF T
  <2>1. \A i \in 0 .. la : i \in T
    BY <1>11, ClimbsToTop
  <2>2. la \in T
    BY <2>1
  <2> QED
    BY <2>2 DEF T
<1>13. Climbs(U, lb)
  <2>1. 0 \in U
    <3>1. fb[0] = 0 /\ fa[la] \in Nat /\ la + 0 = la
      BY <1>9, <1>10 DEF AddsBytes
    <3> QED
      BY <1>12, <3>1
  <2>2. ASSUME NEW i \in 1 .. lb, i - 1 \in U
        PROVE  i \in U
    <3>1. PICK k \in Nat : k = la + i
      OBVIOUS
    <3>2. k \in 1 .. n /\ k - 1 = la + (i - 1) /\ i \in 0 .. lb /\ k % 2 = i % 2
      BY <1>5, <1>6, <3>1
    <3>3. f[k] = f[k-1] + Weighed(c, k) /\ fb[i] = fb[i-1] + Weighed(b, i)
      BY <1>7, <1>9, <3>2 DEF AddsBytes
    <3>4. Weighed(c, k) = Weighed(b, i) /\ Weighed(b, i) \in Int
      <4>1. c[k] = b[i] /\ b[i] \in Byte
        BY <1>3, <1>4, <3>1, SMT
      <4>2. Weighed(b, i) \in Int
        BY <4>1, WeighedType, SMT DEF Small
      <4>3. Weighed(c, k) = Weighed(b, i)
        BY <3>2, <4>1, Zenon DEF Weighed
      <4> QED
        BY <4>2, <4>3, Zenon
    <3>5. f[k-1] = fa[la] + fb[i-1] /\ fa[la] \in Nat /\ fb[i-1] \in Nat
      BY <1>10, <2>2, <3>2
    <3>6. f[k] = fa[la] + fb[i]
      BY <3>3, <3>4, <3>5
    <3> QED
      BY <3>1, <3>2, <3>6
  <2> QED
    BY <2>1, <2>2 DEF Climbs
<1>14. f[n] = fa[la] + fb[lb]
  <2> HIDE DEF U
  <2>1. \A i \in 0 .. lb : i \in U
    BY <1>13, ClimbsToTop
  <2>2. lb \in U
    BY <2>1
  <2> QED
    BY <1>5, <2>2 DEF U
<1> QED
  BY <1>7, <1>8, <1>9, <1>14 DEF c

(* Two bytes add up to the word they are.                                  *)
LEMMA ReceiverSumOfTwo ==
  ASSUME NEW x \in Byte, NEW y \in Byte
  PROVE  ReceiverSum(<<x, y>>) = x * 256 + y
<1> DEFINE octets == <<x, y>>
<1>1. PICK two \in Nat : two = 2
  BY SMT
<1>2. Len(octets) = two /\ octets[1] = x /\ octets[2] = y
  BY <1>1, SMT
<1> HIDE DEF octets
<1>3. PICK f : AddsBytes(f, octets, two) /\ ReceiverSum(octets) = f[two]
  BY <1>2, ReceiverAdds, Zenon
<1>4. f[0] = 0 /\ f[1] = f[0] + Weighed(octets, 1) /\ f[2] = f[1] + Weighed(octets, 2)
  <2>1. 1 \in 1 .. two /\ 2 \in 1 .. two /\ 1 - 1 = 0 /\ 2 - 1 = 1
    BY <1>1, SMT
  <2>2. f[1] = f[1-1] + Weighed(octets, 1) /\ f[2] = f[2-1] + Weighed(octets, 2)
    BY <1>3, <2>1, SMT DEF AddsBytes
  <2> QED
    BY <1>3, <2>1, <2>2, SMT DEF AddsBytes
<1>5. Weighed(octets, 1) = x * 256
  BY <1>2, SMT DEF Weighed
<1>6. Weighed(octets, 2) = y
  BY <1>2, SMT DEF Weighed
<1>7. x * 256 \in Int /\ y \in Int
  BY SMT DEF Byte, BASE
<1>8. ReceiverSum(octets) = x * 256 + y
  BY <1>1, <1>3, <1>4, <1>5, <1>6, <1>7, SMT
<1> QED
  BY <1>8, Zenon DEF octets

(* The words of ip_checksum_add are the bytes of the receiver.             *)
LEMMA ChecksumAdds ==
  ASSUME NEW c \in Nat, NEW octets \in Seq(Byte)
  PROVE  ip_checksum_add(c, octets) = c + ReceiverSum(octets)
<1>1. PICK n \in Nat : n = Len(octets)
  OBVIOUS
<1>2. PICK h \in Nat : h = n \div 2
  BY SMT
<1>3. n = 2 * h \/ n = 2 * h + 1
  BY <1>2, SMT
<1> DEFINE t == [i \in 1 .. h |-> octets[2*i - 1] * 256 + octets[2*i]]
<1>4. /\ Len(t) = h
      /\ \A i \in 1 .. h : t[i] = octets[2*i - 1] * 256 + octets[2*i]
  BY SMT
<1>5. ip_checksum_add(c, octets) =
        c + SumOf(t) + (IF n % 2 = 1 THEN octets[n] * 256 ELSE 0)
  BY <1>1, <1>2, Zenon DEF ip_checksum_add, LastByte, Last, BASE
<1> HIDE DEF t
<1>6. PICK g : Adds(g, t, h) /\ SumOf(t) = g[h]
  BY <1>4, SumAdds, SMT
<1>7. PICK f : AddsBytes(f, octets, n) /\ ReceiverSum(octets) = f[n]
  BY <1>1, ReceiverAdds, SMT
<1>8. \A i \in 1 .. n : octets[i] \in Byte
  BY <1>1, SMT
<1>9. \A i \in 0 .. n : f[i] \in Nat
  BY <1>7, <1>8, AddsNumbers, Zenon
<1> DEFINE T == {i \in 0 .. h : g[i] = f[2*i]}
<1>10. Climbs(T, h)
  <2>1. 0 \in T
    <3>1. g[0] = 0 /\ f[0] = 0 /\ 2 * 0 = 0 /\ 0 \in 0 .. h
      BY <1>6, <1>7, SMT DEF Adds, AddsBytes
    <3> QED
      BY <3>1, Zenon
  <2>2. ASSUME NEW i \in 1 .. h, i - 1 \in T
        PROVE  i \in T
    <3>1. PICK k \in Nat : k = 2 * i
      BY SMT
    <3>2. PICK j \in Nat : j = k - 1
      BY <3>1, SMT
    <3>3. /\ k \in 1 .. n /\ j \in 1 .. n /\ j - 1 = 2 * (i - 1) /\ i \in 0 .. h
          /\ k % 2 = 0 /\ j % 2 = 1 /\ j - 1 \in 0 .. n /\ i # 0
      BY <1>3, <3>1, <3>2, SMT
    <3>4. f[k] = f[j] + Weighed(octets, k) /\ f[j] = f[j-1] + Weighed(octets, j)
      BY <1>7, <3>2, <3>3, SMT DEF AddsBytes
    <3>5. Weighed(octets, k) = octets[k] /\ Weighed(octets, j) = octets[j] * 256
      BY <3>3, SMT DEF Weighed
    <3>6. g[i] = g[i-1] + t[i]
      BY <1>6, <3>3, SMT DEF Adds
    <3>7. g[i-1] = f[j-1]
      BY <2>2, <3>3, Zenon
    <3>8. t[i] = octets[j] * 256 + octets[k]
      BY <1>4, <3>1, <3>2, Zenon
    <3>9. f[j-1] \in Nat /\ octets[j] * 256 \in Nat /\ octets[k] \in Nat
      BY <1>8, <1>9, <3>3, ByteTimes, ZenonT(40)
    <3>10. g[i] = f[k]
      BY <3>4, <3>5, <3>6, <3>7, <3>8, <3>9, SMT
    <3> QED
      BY <3>1, <3>3, <3>10, Zenon
  <2> QED
    BY <2>1, <2>2, Zenon DEF Climbs
<1>11. g[h] = f[2*h]
  <2> HIDE DEF T
  <2>1. \A i \in 0 .. h : i \in T
    BY <1>10, ClimbsToTop, SMT
  <2>2. h \in T
    BY <2>1, SMT
  <2> QED
    BY <2>2, Zenon DEF T
<1>12. CASE n = 2 * h
  <2>1. n % 2 # 1 /\ n \in 0 .. n
    BY <1>12, SMT
  <2>2. f[n] \in Nat
    BY <1>9, <2>1, Zenon
  <2>3. SumOf(t) = f[n]
    BY <1>6, <1>11, <1>12, Zenon
  <2>4. ip_checksum_add(c, octets) = c + f[n] + 0
    BY <1>5, <2>1, <2>3, Zenon
  <2> QED
    BY <1>7, <2>2, <2>4, SMT
<1>13. CASE n = 2 * h + 1
  <2>1. /\ n % 2 = 1 /\ n - 1 = 2 * h /\ n \in 1 .. n /\ n - 1 \in 0 .. n
    BY <1>13, SMT
  <2>2. f[n] = f[n-1] + Weighed(octets, n)
    BY <1>7, <2>1, SMT DEF AddsBytes
  <2>3. Weighed(octets, n) = octets[n] * 256
    BY <2>1, SMT DEF Weighed
  <2>4. SumOf(t) = f[n-1]
    BY <1>6, <1>11, <2>1, Zenon
  <2>5. ip_checksum_add(c, octets) = c + f[n-1] + octets[n] * 256
    BY <1>5, <2>1, <2>4, SMT
  <2>6. f[n-1] \in Nat /\ octets[n] * 256 \in Nat
    BY <1>8, <1>9, <2>1, ByteTimes, Zenon
  <2> QED
    BY <1>7, <2>2, <2>3, <2>5, <2>6, SMT
<1> QED
  BY <1>3, <1>12, <1>13, Zenon

(***************************************************************************)
(* The complement of a sum makes it a multiple of WORDS - 1.               *)
(***************************************************************************)
LEMMA DivIs ==
  ASSUME NEW n \in Nat \ {0}, NEW q \in Nat, NEW r \in 0 .. n-1, NEW x \in Nat,
         x = n * q + r
  PROVE  x % n = r /\ x \div n = q
<1> DEFINE a == x \div n
           s == x % n
<1>1. s \in 0 .. n-1 /\ a \in Int /\ x = n * a + s
  BY ModParts
<1> HIDE DEF a, s
<1>2. n * a + s = n * q + r
  BY <1>1
<1>3. CASE a >= q + 1
  <2>1. n * a >= n * (q + 1) /\ n * (q + 1) = n * q + n
    BY <1>1, <1>3
  <2> QED
    BY <1>1, <1>2, <2>1
<1>4. CASE a + 1 <= q
  <2>1. n * q >= n * (a + 1) /\ n * (a + 1) = n * a + n
    BY <1>1, <1>4
  <2> QED
    BY <1>1, <1>2, <2>1
<1>5. CASE a = q
  <2>1. s = r
    BY <1>1, <1>2, <1>5
  <2> QED
    BY <1>5, <2>1 DEF a, s
<1> QED
  BY <1>1, <1>3, <1>4, <1>5

(* A carry folded in takes away a multiple of n - 1.                       *)
Fold(x, n) == (x % n) + (x \div n)

(* The quotient and the remainder of a number below n * n are digits.      *)
LEMMA QuotientBelow ==
  ASSUME NEW n \in Nat, n > 1, NEW x \in Nat, x < n * n
  PROVE  /\ x \div n \in 0 .. n-1 /\ x % n \in 0 .. n-1
         /\ x = n * (x \div n) + (x % n)
<1> DEFINE q == x \div n
           r == x % n
<1>1. r \in 0 .. n-1 /\ q \in Int /\ x = n * q + r
  BY ModParts
<1> HIDE DEF q, r
<1>2. q <= -1 => n * q <= -n
  BY <1>1
<1>3. q >= n => n * q >= n * n
  BY <1>1
<1>4. q \in 0 .. n-1
  BY <1>1, <1>2, <1>3
<1> QED
  BY <1>1, <1>4, Zenon DEF q, r

(* A fold takes away a multiple of n - 1 and leaves at most two words.     *)
LEMMA FoldTakes ==
  ASSUME NEW n \in Nat, n > 1, NEW x \in Nat, x < n * n
  PROVE  /\ Fold(x, n) \in Nat /\ Fold(x, n) <= 2 * n - 2
         /\ \E q \in Nat : x = Fold(x, n) + (n - 1) * q
<1> DEFINE q == x \div n
           r == x % n
<1>1. r \in 0 .. n-1 /\ q \in 0 .. n-1 /\ x = n * q + r
  BY QuotientBelow
<1>2. Fold(x, n) = r + q
  BY DEF Fold
<1> HIDE DEF q, r
<1>3. PICK p \in Nat : p = n * q
  BY <1>1
<1>4. (n - 1) * q = p - q
  BY <1>1, <1>3
<1>5. x = p + r
  BY <1>1, <1>3
<1>6. PICK f \in Nat : f = r + q
  BY <1>1
<1>7. x = f + (n - 1) * q
  BY <1>1, <1>4, <1>5, <1>6
<1>8. f <= 2 * n - 2 /\ q \in Nat
  BY <1>1, <1>6
<1> QED
  BY <1>2, <1>6, <1>7, <1>8

(* A second fold leaves one word.                                          *)
LEMMA FoldSmall ==
  ASSUME NEW n \in Nat, n > 1, NEW x \in Nat, x <= 2 * n - 2
  PROVE  /\ Fold(x, n) \in 0 .. n-1
         /\ \E q \in Nat : x = Fold(x, n) + (n - 1) * q
<1>1. CASE x < n
  <2>1. x = n * 0 + x
    OBVIOUS
  <2>2. x % n = x /\ x \div n = 0
    BY <1>1, <2>1, DivIs
  <2>3. Fold(x, n) = x /\ x = x + (n - 1) * 0
    BY <2>2 DEF Fold
  <2> QED
    BY <1>1, <2>3
<1>2. CASE x >= n
  <2>1. PICK r \in 0 .. n-1 : r = x - n
    BY <1>2
  <2>2. x = n * 1 + r
    BY <2>1
  <2>3. x % n = r /\ x \div n = 1
    BY <2>1, <2>2, DivIs
  <2>4. Fold(x, n) = r + 1
    BY <2>3 DEF Fold
  <2>5. r + 1 \in 0 .. n-1 /\ x = (r + 1) + (n - 1) * 1
    BY <2>1
  <2> QED
    BY <2>4, <2>5
<1> QED
  BY <1>1, <1>2

(* The complement of the folded sum makes it a multiple of n - 1.          *)
LEMMA ComplementVerifies ==
  ASSUME NEW n \in Nat, n > 1, NEW x \in Nat, x < n * n,
         NEW y, y = n - 1 - (Fold(Fold(x, n), n) % n)
  PROVE  y \in 0 .. n-1 /\ (x + y) % (n - 1) = 0
<1>1. PICK c \in Nat : c = Fold(x, n) /\ c <= 2 * n - 2
  BY FoldTakes
<1>2. PICK a \in Nat : x = c + (n - 1) * a
  BY <1>1, FoldTakes
<1>3. PICK d \in 0 .. n-1 : d = Fold(c, n)
  BY <1>1, FoldSmall
<1>4. PICK b \in Nat : c = d + (n - 1) * b
  BY <1>1, <1>3, FoldSmall
<1>5. d % n = d
  BY ModSmall
<1>6. y = n - 1 - d
  BY <1>1, <1>3, <1>5
<1>7. PICK m \in Nat \ {0} : m = n - 1
  OBVIOUS
<1>8. x + y = m * (a + b + 1) + 0
  <2>1. m * (a + b + 1) = m * a + m * b + m
    BY <1>7
  <2>2. m * a \in Nat /\ m * b \in Nat
    BY <1>7
  <2>3. x = d + m * b + m * a
    BY <1>2, <1>4, <1>7, <2>2
  <2>4. y = m - d
    BY <1>6, <1>7
  <2> QED
    BY <2>1, <2>2, <2>3, <2>4
<1>9. x + y \in Nat /\ 0 \in 0 .. m-1 /\ a + b + 1 \in Nat
  BY <1>6, <1>7
<1>10. (x + y) % m = 0
  <2>1. PICK z \in Nat : z = x + y
    BY <1>9
  <2>2. PICK k \in Nat : k = a + b + 1
    BY <1>9
  <2>3. PICK o \in 0 .. m-1 : o = 0
    BY <1>9
  <2>4. z = m * k + o
    BY <1>8, <2>1, <2>2, <2>3, Zenon
  <2>5. z % m = o
    BY <2>4, DivIs
  <2> QED
    BY <2>1, <2>3, <2>5, Zenon
<1> QED
  BY <1>6, <1>7, <1>10

(* There is more than one word.                                            *)
LEMMA WordsType == WORDS \in Nat \ {0} /\ WORDS - 1 \in Nat /\ 20 < WORDS
BY SMT DEF WORDS, BASE

(* ip_checksum_final returns the checksum a receiver accepts.              *)
LEMMA FinalVerifies ==
  ASSUME NEW x \in Nat, x < WORDS * WORDS
  PROVE  /\ ip_checksum_final(x) \in 0 .. WORDS-1
         /\ (x + ip_checksum_final(x)) % (WORDS - 1) = 0
<1>1. WORDS \in Nat /\ WORDS > 1
  BY SMT DEF WORDS, BASE
<1>2. ip_checksum_final(x) = WORDS - 1 - (Fold(Fold(x, WORDS), WORDS) % WORDS)
  BY Zenon DEF ip_checksum_final, Fold
<1> QED
  BY <1>1, <1>2, ComplementVerifies

(***************************************************************************)
(* Sequences that grow at their end.                                       *)
(***************************************************************************)
IsSequence(s) == s \in Seq({s[i] : i \in 1 .. Len(s)})

(* A sequence over some set is a sequence over its elements.               *)
LEMMA SequenceIs ==
  ASSUME NEW S, NEW s \in Seq(S)
  PROVE  IsSequence(s)
<1> DEFINE R == {s[i] : i \in 1 .. Len(s)}
<1>1. PICK n \in Nat : n = Len(s)
  OBVIOUS
<1>2. s = [i \in 1 .. n |-> s[i]]
  BY <1>1
<1>3. \A i \in 1 .. n : s[i] \in R
  BY <1>1
<1> HIDE DEF R
<1>4. s \in [1 .. n -> R]
  BY <1>2, <1>3, Zenon
<1>5. s \in Seq(R)
  BY <1>4
<1> QED
  BY <1>5 DEF IsSequence, R

(* Append adds one element and keeps the others.                           *)
LEMMA Grows ==
  ASSUME NEW s, IsSequence(s), NEW x
  PROVE  /\ IsSequence(Append(s, x)) /\ Len(s) \in Nat
         /\ Len(Append(s, x)) = Len(s) + 1
         /\ SameFront(s, Append(s, x), Len(s)) /\ Append(s, x)[Len(s) + 1] = x
         /\ s = <<>> => Len(s) = 0
<1> DEFINE S == {s[i] : i \in 1 .. Len(s)} \cup {x}
<1>1. PICK S1 : S1 = {s[i] : i \in 1 .. Len(s)}
  OBVIOUS
<1>2. s \in Seq(S1)
  BY <1>1, Zenon DEF IsSequence
<1>3. s \in Seq(S1 \cup {x})
  BY <1>2
<1>4. Append(s, x) \in Seq(S1 \cup {x})
  BY <1>3
<1>5. IsSequence(Append(s, x))
  BY <1>4, SequenceIs, Zenon
<1>6. /\ Len(s) \in Nat /\ Len(Append(s, x)) = Len(s) + 1
      /\ \A i \in 1 .. Len(s) : s[i] = Append(s, x)[i]
      /\ Append(s, x)[Len(s) + 1] = x
      /\ s = <<>> => Len(s) = 0
  BY <1>3
<1> QED
  BY <1>5, <1>6, Zenon DEF SameFront

(* p is what passes of a sequence, q what passes when f has come.          *)
PassesOn(p, q, f, passes) ==
  IsSequence(p) /\ IF passes THEN q = Append(p, f) ELSE q = p

(* One frame more passes on exactly that frame, if it is one of those.     *)
LEMMA ThoseAppend ==
  ASSUME NEW S, NEW h \in Seq(S), NEW f \in S, NEW at, NEW bt,
         \A i \in 1 .. Len(h) : i \in at <=> i \in bt
  PROVE  PassesOn(Those(h, at), Those(Append(h, f), bt), f, Len(h) + 1 \in bt)
<1>1. PICK n \in Nat : n = Len(h)
  OBVIOUS
<1>2. PICK g : g = Append(h, f)
  OBVIOUS
<1>3. PICK m \in Nat : m = Len(g)
  BY <1>2
<1>4. /\ m - 1 = n /\ Len(h) + 1 = m
      /\ \A i \in 1 .. n : g[i] = h[i] /\ i \in 1 .. m /\ h[i] \in S
      /\ g[m] = f /\ m \in 1 .. m
  BY <1>1, <1>2, <1>3
<1>5. \A i \in 1 .. n : i \in at <=> i \in bt
  BY <1>1
<1> DEFINE s == [i \in 1 .. n |-> IF i \in at THEN <<h[i]>> ELSE <<>>]
           t == [i \in 1 .. m |-> IF i \in bt THEN <<g[i]>> ELSE <<>>]
<1>6. Len(s) = n /\ Len(t) = m
  OBVIOUS
<1>7. n = 0 => s = <<>>
  OBVIOUS
<1>8. SameFront(s, t, n)
  BY <1>4, <1>5 DEF SameFront
<1>9. t[m] = (IF m \in bt THEN <<f>> ELSE <<>>) /\ t[m] \in Seq(S)
  BY <1>4
<1>10. Those(h, at) = FlattenSeq(s) /\ Those(g, bt) = FlattenSeq(t)
  BY <1>1, <1>3, Zenon DEF Those
<1>11. s \in Seq(Seq(S))
  <2>1. \A i \in 1 .. n : s[i] \in Seq(S)
    BY <1>4
  <2> HIDE DEF s
  <2>2. s = [i \in 1 .. n |-> s[i]]
    BY DEF s
  <2>3. s \in [1 .. n -> Seq(S)]
    BY <2>1, <2>2, Zenon
  <2> QED
    BY <2>3
<1> HIDE DEF s, t
<1>12. Longer(s, t, n, m, S)
  BY <1>4, <1>6, <1>7, <1>8, <1>9, Zenon DEF Longer
<1>13. FlattenSeq(t) = FlattenSeq(s) \o t[m]
  BY <1>12, FlattenAppend, SMT
<1>14. PICK p : p = FlattenSeq(s)
  OBVIOUS
<1>15. p \in Seq(S) /\ IsSequence(p)
  BY <1>11, <1>14, FlattenAt, SequenceIs, Zenon
<1>16. Those(g, bt) = p \o t[m] /\ Those(h, at) = p
  BY <1>10, <1>13, <1>14, SMT
<1>17. PassesOn(p, p \o t[m], f, m \in bt)
  <2>1. p \o <<f>> = Append(p, f) /\ p \o <<>> = p
    BY <1>15
  <2>2. CASE m \in bt
    <3>1. p \o t[m] = Append(p, f)
      BY <1>9, <2>1, <2>2, SMT
    <3> QED
      BY <1>15, <2>2, <3>1, Zenon DEF PassesOn
  <2>3. CASE m \notin bt
    <3>1. p \o t[m] = p
      BY <1>9, <2>1, <2>3, SMT
    <3> QED
      BY <1>15, <2>3, <3>1, Zenon DEF PassesOn
  <2> QED
    BY <2>2, <2>3
<1> QED
  BY <1>2, <1>4, <1>16, <1>17, SMT

(* Both sequences are over a set.                                          *)
LEMMA OverSome ==
  ASSUME NEW h, IsSequence(h), NEW f
  PROVE  \E S : h \in Seq(S) /\ f \in S /\ Append(h, f) \in Seq(S)
<1>1. PICK R : R = {h[i] : i \in 1 .. Len(h)}
  OBVIOUS
<1>2. h \in Seq(R)
  BY <1>1, Zenon DEF IsSequence
<1>3. PICK S : S = R \cup {f}
  OBVIOUS
<1>4. h \in Seq(S) /\ f \in S
  BY <1>2, <1>3
<1>5. Append(h, f) \in Seq(S)
  BY <1>4
<1> QED
  BY <1>4, <1>5, Zenon

(* The segments of the clients of each time, after one frame more.         *)
LEMMA DataPassed ==
  ASSUME NEW h, IsSequence(h), NEW f, NEW c, IsSequence(c), Len(c) = Len(h), NEW r
  PROVE  PassesOn(Carriers(h, c), Carriers(Append(h, f), Append(c, r)), f, IsDataOf(f, r))
<1> DEFINE at == {i \in DOMAIN h : IsDataOf(h[i], c[i])}
           bt == {i \in DOMAIN Append(h, f) : IsDataOf(Append(h, f)[i], Append(c, r)[i])}
<1>1. PICK S : h \in Seq(S) /\ f \in S
  BY OverSome, Zenon
<1>2. PICK R : c \in Seq(R) /\ r \in R
  BY OverSome, Zenon
<1>3. \A i \in 1 .. Len(h) : i \in at <=> i \in bt
  BY <1>1, <1>2
<1>4. Len(h) + 1 \in bt <=> IsDataOf(f, r)
  BY <1>1, <1>2
<1>5. /\ Carriers(h, c) = Those(h, at)
      /\ Carriers(Append(h, f), Append(c, r)) = Those(Append(h, f), bt)
  BY Zenon DEF Carriers
<1> HIDE DEF at, bt
<1>6. PassesOn(Those(h, at), Those(Append(h, f), bt), f, Len(h) + 1 \in bt)
  BY <1>1, <1>3, ThoseAppend, Zenon
<1> QED
  BY <1>4, <1>5, <1>6, Zenon DEF PassesOn

(* The requests, after one frame more.                                     *)
LEMMA RequestPassed ==
  ASSUME NEW h, IsSequence(h), NEW f
  PROVE  PassesOn(Requests(h), Requests(Append(h, f)), f, IsRequest(f))
<1> DEFINE at == {i \in DOMAIN h : IsRequest(h[i])}
           bt == {i \in DOMAIN Append(h, f) : IsRequest(Append(h, f)[i])}
<1>1. PICK S : h \in Seq(S) /\ f \in S
  BY OverSome, Zenon
<1>2. \A i \in 1 .. Len(h) : i \in at <=> i \in bt
  BY <1>1
<1>3. Len(h) + 1 \in bt <=> IsRequest(f)
  BY <1>1
<1>4. Requests(h) = Those(h, at) /\ Requests(Append(h, f)) = Those(Append(h, f), bt)
  BY Zenon DEF Requests
<1> HIDE DEF at, bt
<1>5. PassesOn(Those(h, at), Those(Append(h, f), bt), f, Len(h) + 1 \in bt)
  BY <1>1, <1>2, ThoseAppend, Zenon
<1> QED
  BY <1>3, <1>4, <1>5, Zenon DEF PassesOn

(* The answers, after one frame more.                                      *)
LEMMA ReplyPassed ==
  ASSUME NEW h, IsSequence(h), NEW f
  PROVE  PassesOn(Replies(h), Replies(Append(h, f)), f, IsAnswer(f))
<1> DEFINE at == {i \in DOMAIN h : IsAnswer(h[i])}
           bt == {i \in DOMAIN Append(h, f) : IsAnswer(Append(h, f)[i])}
<1>1. PICK S : h \in Seq(S) /\ f \in S
  BY OverSome, Zenon
<1>2. \A i \in 1 .. Len(h) : i \in at <=> i \in bt
  BY <1>1
<1>3. Len(h) + 1 \in bt <=> IsAnswer(f)
  BY <1>1
<1>4. Replies(h) = Those(h, at) /\ Replies(Append(h, f)) = Those(Append(h, f), bt)
  BY Zenon DEF Replies
<1> HIDE DEF at, bt
<1>5. PassesOn(Those(h, at), Those(Append(h, f), bt), f, Len(h) + 1 \in bt)
  BY <1>1, <1>2, ThoseAppend, Zenon
<1> QED
  BY <1>3, <1>4, <1>5, Zenon DEF PassesOn

(* The frames that carry TCP, after one frame more.                        *)
LEMMA TcpPassed ==
  ASSUME NEW h, IsSequence(h), NEW f
  PROVE  PassesOn(Carrying(h), Carrying(Append(h, f)), f, CarriesTcp(f))
<1> DEFINE at == {i \in DOMAIN h : CarriesTcp(h[i])}
           bt == {i \in DOMAIN Append(h, f) : CarriesTcp(Append(h, f)[i])}
<1>1. PICK S : h \in Seq(S) /\ f \in S
  BY OverSome, Zenon
<1>2. \A i \in 1 .. Len(h) : i \in at <=> i \in bt
  BY <1>1
<1>3. Len(h) + 1 \in bt <=> CarriesTcp(f)
  BY <1>1
<1>4. Carrying(h) = Those(h, at) /\ Carrying(Append(h, f)) = Those(Append(h, f), bt)
  BY Zenon DEF Carrying
<1> HIDE DEF at, bt
<1>5. PassesOn(Those(h, at), Those(Append(h, f), bt), f, Len(h) + 1 \in bt)
  BY <1>1, <1>2, ThoseAppend, Zenon
<1> QED
  BY <1>3, <1>4, <1>5, Zenon DEF PassesOn

(***************************************************************************)
(* What the code finds in a packet is what its sender put there.           *)
(***************************************************************************)
(* The elements of d are those of s from low to high.                      *)
Lies(d, s, low, high, S) ==
  /\ s \in Seq(S) /\ d \in Seq(S) /\ low \in Nat \ {0} /\ high \in Nat
  /\ high = low - 1 + Len(d) /\ high <= Len(s)
  /\ \A i \in 1 .. Len(d) : s[low - 1 + i] = d[i]

(* SubSeq finds what lies there.                                           *)
LEMMA SliceIs ==
  ASSUME NEW S, NEW s, NEW d, NEW low, NEW high, Lies(d, s, low, high, S)
  PROVE  SubSeq(s, low, high) = d
<1>1. s \in Seq(S) /\ d \in Seq(S) /\ low \in Nat \ {0} /\ high \in Nat
  BY Zenon DEF Lies
<1>2. PICK n \in Nat : n = Len(d)
  BY <1>1
<1>3. PICK l \in Nat : l = Len(s)
  BY <1>1
<1>4. /\ high = low - 1 + n /\ high <= l
      /\ \A i \in 1 .. n : s[low - 1 + i] = d[i]
  BY <1>2, <1>3, Zenon DEF Lies
<1>5. high - low + 1 = n /\ (low <= high <=> n # 0) /\ low \in Int /\ high \in Int
  BY <1>1, <1>2, <1>4
<1>6. \A i \in low .. high : s[i] \in S
  BY <1>1, <1>2, <1>3, <1>4
<1>7. /\ SubSeq(s, low, high) \in Seq(S)
      /\ Len(SubSeq(s, low, high)) = IF low <= high THEN high - low + 1 ELSE 0
      /\ \A i \in 1 .. high - low + 1 : SubSeq(s, low, high)[i] = s[low + i - 1]
  BY <1>5, <1>6, SubSeqProperties
<1>8. PICK e : e = SubSeq(s, low, high)
  OBVIOUS
<1>9. e \in Seq(S) /\ Len(e) = n /\ \A i \in 1 .. n : e[i] = s[low + i - 1]
  BY <1>5, <1>7, <1>8
<1>10. \A i \in 1 .. n : e[i] = d[i]
  <2> TAKE i \in 1 .. n
  <2>1. PICK k \in Nat : k = low - 1 + i
    BY <1>1
  <2>2. e[i] = s[k] /\ s[k] = d[i]
    BY <1>1, <1>4, <1>9, <2>1, SMTT(30)
  <2> QED
    BY <2>2
<1>11. e = d
  BY <1>1, <1>2, <1>9, <1>10, SeqEqual
<1> QED
  BY <1>8, <1>11, Zenon

(* The end of s behind a.                                                  *)
LEMMA TailLies ==
  ASSUME NEW S, NEW a \in Seq(S), NEW d \in Seq(S), NEW s, s = a \o d
  PROVE  Lies(d, s, Len(a) + 1, Len(s), S)
<1>1. PICK la \in Nat : la = Len(a)
  OBVIOUS
<1>2. PICK ld \in Nat : ld = Len(d)
  OBVIOUS
<1>3. /\ s \in Seq(S) /\ Len(s) = la + ld
      /\ \A i \in 1 .. ld : s[la + i] = d[i]
  BY <1>1, <1>2
<1>4. PICK l \in Nat : l = Len(s)
  BY <1>3
<1>5. PICK low \in Nat : low = la + 1
  OBVIOUS
<1>6. /\ low \in Nat \ {0} /\ l \in Nat /\ l = low - 1 + ld /\ l <= l
      /\ low - 1 = la
  BY <1>3, <1>4, <1>5
<1>7. \A i \in 1 .. ld : s[low - 1 + i] = d[i]
  BY <1>3, <1>6
<1>8. Lies(d, s, low, l, S)
  BY <1>2, <1>3, <1>4, <1>6, <1>7, Zenon DEF Lies
<1> QED
  BY <1>1, <1>4, <1>5, <1>8

(* What follows the first part of three.                                   *)
LEMMA Middle ==
  ASSUME NEW S, NEW a \in Seq(S), NEW b \in Seq(S), NEW c \in Seq(S)
  PROVE  SubSeq(a \o b \o c, Len(a) + 1, Len(a \o b \o c)) = b \o c
<1>1. PICK d \in Seq(S) : d = b \o c
  <2>1. b \o c \in Seq(S)
    OBVIOUS
  <2> QED
    BY <2>1, Zenon
<1>2. PICK body : body = a \o d
  OBVIOUS
<1>3. body = a \o b \o c
  BY <1>1, <1>2, SMTT(30)
<1>4. Lies(d, body, Len(a) + 1, Len(body), S)
  BY <1>2, TailLies
<1>5. SubSeq(body, Len(a) + 1, Len(body)) = d
  BY <1>4, SliceIs, SMT
<1> QED
  BY <1>1, <1>3, <1>5

(* A packet with its message and what follows it.                          *)
IsMessage(f, message, padding, n) ==
  /\ message \in Seq(Byte) /\ padding \in Seq(Byte) /\ n = Len(message)
  /\ Message(f.ip) = message \o padding /\ MessageLength(f) = n

(* A packet holds its message, and is valid when it says so.               *)
LEMMA PacketHolds ==
  ASSUME NEW f, IsPacket(f)
  PROVE  /\ IsMessage(f, f.made.message, f.made.padding, Len(f.made.message))
         /\ ValidIp(f) <=> IsWhole(f) /\ f.ip.protocol \in {ICMP, TCP}
<1>1. /\ f.ip.ihl \in 5 .. 15 /\ f.length \in Nat
      /\ IsBytes(f.made.ip_options, 4 * (f.ip.ihl - 5))
      /\ f.made.message \in Seq(Byte) /\ f.made.padding \in Seq(Byte)
      /\ f.ip.body = f.made.ip_options \o f.made.message \o f.made.padding
      /\ f.ip.total_length = 4 * f.ip.ihl + Len(f.made.message)
  BY Zenon DEF IsPacket
<1>2. PICK a, b, c : a = f.made.ip_options /\ b = f.made.message /\ c = f.made.padding
  OBVIOUS
<1>3. PICK h \in 5 .. 15 : h = f.ip.ihl
  BY <1>1, Zenon
<1>4. PICK n \in Nat : n = Len(b)
  BY <1>1, <1>2
<1>5. /\ a \in Seq(Byte) /\ b \in Seq(Byte) /\ c \in Seq(Byte)
      /\ Len(a) = 4 * (h - 5)
  BY <1>1, <1>2, <1>3, Zenon DEF IsBytes
<1>6. PICK body : body = f.ip.body
  OBVIOUS
<1>7. body = a \o b \o c
  BY <1>1, <1>2, <1>6
<1>8. 4 * h - 20 + 1 = Len(a) + 1
  BY <1>5
<1>9. SubSeq(body, Len(a) + 1, Len(body)) = b \o c
  <2>1. SubSeq(a \o b \o c, Len(a) + 1, Len(a \o b \o c)) = b \o c
    BY <1>5, Middle, ZenonT(40)
  <2> QED
    BY <1>7, <2>1
<1>10. Message(f.ip) = b \o c
  BY <1>3, <1>6, <1>8, <1>9, Zenon DEF Message, IP_HEADER
<1>11. PICK t \in Nat : t = 4 * h + n
  OBVIOUS
<1>12. t = f.ip.total_length
  BY <1>1, <1>2, <1>3, <1>4, <1>11, Zenon
<1>13. MessageLength(f) = n
  BY <1>3, <1>11, <1>12 DEF MessageLength
<1>14. PICK l \in Nat : l = f.length
  BY <1>1, Zenon
<1>15. t >= 20 /\ (l >= 14 + t => l >= 14 + 4 * h)
  BY <1>11
<1>16. ValidIp(f) <=> l >= 14 + t /\ f.ip.protocol \in {ICMP, TCP}
  BY <1>3, <1>12, <1>14, <1>15, Zenon DEF ValidIp, ETH_HEADER, IP_HEADER
<1>17. IsWhole(f) <=> l >= 14 + t
  BY <1>12, <1>14, Zenon DEF IsWhole
<1>18. IsMessage(f, b, c, n)
  BY <1>4, <1>5, <1>10, <1>13, Zenon DEF IsMessage
<1> QED
  BY <1>2, <1>4, <1>16, <1>17, <1>18, Zenon

(* Bytes of the message are where the code looks for them.                 *)
Shows(s, m, n) ==
  /\ s \in Seq(Byte) /\ n \in Nat /\ n <= Len(s)
  /\ \A i \in 1 .. n : s[i] = m[i] /\ m[i] \in Byte

(* A packet's message is in front of its padding.                          *)
LEMMA MessageAt ==
  ASSUME NEW f, NEW m, NEW p, NEW n, IsMessage(f, m, p, n)
  PROVE  Shows(Message(f.ip), m, n)
<1>1. m \in Seq(Byte) /\ p \in Seq(Byte) /\ n = Len(m)
  BY Zenon DEF IsMessage
<1>2. PICK s : s = m \o p
  OBVIOUS
<1>3. s = Message(f.ip)
  BY <1>2, SMT DEF IsMessage
<1>4. /\ s \in Seq(Byte) /\ n \in Nat /\ n <= Len(s)
      /\ \A i \in 1 .. n : s[i] = m[i] /\ m[i] \in Byte
  BY <1>1, <1>2
<1>5. Shows(s, m, n)
  BY <1>4, Zenon DEF Shows
<1> QED
  BY <1>3, <1>5, Zenon

(* What stands in the message stands in the packet.                        *)
LEMMA FoundAt ==
  ASSUME NEW f, NEW m, NEW p, NEW n, IsMessage(f, m, p, n),
         NEW low \in Nat \ {0}, NEW bytes, HoldsAt(m, low, bytes),
         NEW high \in Nat, high = low - 1 + Len(bytes)
  PROVE  Lies(bytes, Message(f.ip), low, high, Byte)
<1>1. PICK s : s = Message(f.ip) /\ Shows(s, m, n)
  BY MessageAt, Zenon
<1>2. s \in Seq(Byte) /\ n \in Nat /\ n <= Len(s) /\ \A i \in 1 .. n : s[i] = m[i]
  BY <1>1, Zenon DEF Shows
<1>3. bytes \in Seq(Byte)
  BY Zenon DEF HoldsAt
<1>4. PICK k \in Nat : k = Len(bytes)
  BY <1>3
<1>5. n = Len(m)
  BY Zenon DEF IsMessage
<1>6. low + k <= n + 1 /\ \A i \in 1 .. k : m[low + i - 1] = bytes[i]
  BY <1>4, <1>5, Zenon DEF HoldsAt
<1>7. PICK l \in Nat : l = Len(s)
  BY <1>2
<1>8. high = low - 1 + k /\ high <= l
  BY <1>2, <1>4, <1>6, <1>7
<1>9. \A i \in 1 .. k : s[low - 1 + i] = bytes[i]
  <2> TAKE i \in 1 .. k
  <2>1. PICK j \in Nat : j = low + i - 1
    OBVIOUS
  <2>2. m[j] = bytes[i]
    BY <1>6, <2>1, Zenon
  <2>3. j \in 1 .. n /\ j = low - 1 + i
    BY <1>2, <1>6, <2>1
  <2> QED
    BY <1>2, <2>2, <2>3, Zenon
<1> QED
  BY <1>1, <1>2, <1>3, <1>4, <1>7, <1>8, <1>9, Zenon DEF Lies

(* A segment for the port of the server.                                   *)
LEMMA SegmentHolds ==
  ASSUME NEW f, IsSegment(f), NEW m, m = f.made.message,
         NEW segment, segment = Message(f.ip)
  PROVE  /\ f.type = "ip" /\ ValidIp(f) /\ f.ip.protocol = TCP
         /\ SubSeq(segment, 3, 4) = <<0, 80>>
         /\ DataOffset(segment) = HeaderEnd(m) /\ HeaderEnd(m) \in 0 .. 60
         /\ \A flag : HasFlag(segment, flag) <=> Flag(m, flag)
         /\ MessageLength(f) = Len(m)
         /\ Sender(f) = [ip |-> f.ip.source_ip, port |-> SubSeq(m, 1, 2)]
         /\ Sender(f) # NONE
<1> DEFINE n == Len(m)
           p == f.made.padding
<1>1. IsPacket(f) /\ IsWhole(f) /\ f.ip.protocol = 6 /\ HoldsAt(m, 3, <<0, 80>>)
  BY Zenon DEF IsSegment, IsWhole
<1>2. f.type = "ip" /\ f.ip.protocol = TCP /\ n >= 20
  BY <1>1, Zenon DEF IsPacket, TCP
<1>3. IsMessage(f, m, p, n) /\ ValidIp(f)
  BY <1>1, <1>2, PacketHolds, Zenon
<1> HIDE DEF p
<1>4. n \in Nat /\ \A i \in 1 .. n : segment[i] = m[i] /\ m[i] \in Byte
  <2>1. Shows(segment, m, n)
    BY <1>3, MessageAt, Zenon
  <2> QED
    BY <2>1, Zenon DEF Shows
<1>5. segment[13] = m[13] /\ segment[14] = m[14] /\ m[13] \in Byte /\ m[14] \in Byte
  <2>1. 13 \in 1 .. n /\ 14 \in 1 .. n
    BY <1>2, <1>4
  <2> QED
    BY <1>4, <2>1, Zenon
<1>6. SubSeq(segment, 3, 4) = <<0, 80>>
  <2>1. PICK low \in Nat \ {0} : low = 3
    OBVIOUS
  <2>2. PICK high \in Nat : high = 4
    OBVIOUS
  <2>3. PICK bytes : bytes = <<0, 80>>
    OBVIOUS
  <2>4. high = low - 1 + Len(bytes)
    BY <2>1, <2>2, <2>3
  <2>5. HoldsAt(m, low, bytes)
    BY <1>1, <2>1, <2>3, Zenon
  <2>6. Lies(bytes, segment, low, high, Byte)
    BY <1>3, <2>4, <2>5, FoundAt, Zenon
  <2>7. Lies(<<0, 80>>, segment, 3, 4, Byte)
    BY <2>1, <2>2, <2>3, <2>6, Zenon
  <2>8. PICK e : e = SubSeq(segment, 3, 4)
    OBVIOUS
  <2>9. e = <<0, 80>>
    BY <2>7, <2>8, SliceIs, Zenon
  <2> QED
    BY <2>8, <2>9, Zenon
<1>7. DataOffset(segment) = HeaderEnd(m)
  BY <1>5, Zenon DEF DataOffset, HeaderEnd
<1>8. HeaderEnd(m) \in 0 .. 60
  <2>1. PICK x \in 0 .. 255 : x = m[13]
    BY <1>5, BytesAre, Zenon
  <2>2. 4 * (x \div 16) \in 0 .. 60
    OBVIOUS
  <2> QED
    BY <2>1, <2>2, Zenon DEF HeaderEnd
<1>9. \A flag : HasFlag(segment, flag) <=> Flag(m, flag)
  BY <1>5, Zenon DEF HasFlag, Flag
<1>10. MessageLength(f) = n
  BY <1>3, Zenon DEF IsMessage
<1>11. SubSeq(segment, 1, 2) = SubSeq(m, 1, 2)
  <2>1. PICK d : d = SubSeq(m, 1, 2)
    OBVIOUS
  <2>2. d \in Seq(Byte) /\ Len(d) = 2 /\ \A i \in 1 .. 2 : d[i] = m[i]
    <3>1. m \in Seq(Byte) /\ Len(m) >= 20
      BY <1>2, <1>3, Zenon DEF IsMessage
    <3> QED
      BY <2>1, <3>1
  <2>3. HoldsAt(m, 1, d)
    <3>1. 1 + Len(d) <= Len(m) + 1
      BY <1>2, <1>4, <2>2
    <3>2. \A i \in 1 .. Len(d) : m[1 + i - 1] = d[i]
      BY <2>2
    <3> QED
      BY <2>2, <3>1, <3>2, Zenon DEF HoldsAt
  <2>4. PICK low \in Nat \ {0} : low = 1
    OBVIOUS
  <2>5. PICK high \in Nat : high = 2
    OBVIOUS
  <2>6. high = low - 1 + Len(d) /\ HoldsAt(m, low, d)
    BY <2>2, <2>3, <2>4, <2>5
  <2>7. Lies(d, segment, low, high, Byte)
    BY <1>3, <2>6, FoundAt, Zenon
  <2>8. SubSeq(segment, low, high) = d
    BY <2>7, SliceIs, Zenon
  <2> QED
    BY <2>1, <2>4, <2>5, <2>8, Zenon
<1>12. Sender(f) = [ip |-> f.ip.source_ip, port |-> SubSeq(m, 1, 2)]
  BY <1>11, Zenon DEF Sender
<1>13. Sender(f) # NONE
  <2>1. Len(f.ip.source_ip) = 4
    BY <1>1, Zenon DEF IsPacket, IsBytes
  <2>2. PICK a : a = f.ip.source_ip
    OBVIOUS
  <2>3. a # <<>>
    BY <2>1, <2>2
  <2>4. Sender(f).ip = a /\ NONE.ip = <<>>
    BY <2>2 DEF Sender, NONE
  <2> QED
    BY <2>3, <2>4
<1> QED
  BY <1>2, <1>3, <1>6, <1>7, <1>8, <1>9, <1>10, <1>12, <1>13, Zenon

(* A segment for another port does not look like one for the server.       *)
LEMMA OtherPort ==
  ASSUME NEW f, IsWhole(f), f.ip.protocol = TCP, ~ IsSegment(f)
  PROVE  SubSeq(Message(f.ip), 3, 4) # <<0, 80>>
<1> SUFFICES ASSUME SubSeq(Message(f.ip), 3, 4) = <<0, 80>>
             PROVE  FALSE
  OBVIOUS
<1> DEFINE m == f.made.message
           p == f.made.padding
           n == Len(m)
<1>1. IsPacket(f) /\ f.ip.protocol = 6
  BY Zenon DEF IsWhole, TCP
<1>2. n >= 20 /\ m \in Seq(Byte)
  BY <1>1, Zenon DEF IsPacket
<1>3. IsMessage(f, m, p, n)
  BY <1>1, PacketHolds, Zenon
<1> HIDE DEF m, p, n
<1>4. PICK s : s = Message(f.ip) /\ Shows(s, m, n)
  BY <1>3, MessageAt, Zenon
<1>5. s \in Seq(Byte) /\ n \in Nat /\ n <= Len(s) /\ \A i \in 1 .. n : s[i] = m[i]
  BY <1>4, Zenon DEF Shows
<1>6. s[3] = 0 /\ s[4] = 80
  <2>1. PICK e : e = SubSeq(s, 3, 4)
    OBVIOUS
  <2>2. e[1] = s[3] /\ e[2] = s[4]
    BY <1>2, <1>5, <2>1
  <2>3. e = <<0, 80>>
    BY <1>4, <2>1, Zenon
  <2>4. e[1] = 0 /\ e[2] = 80
    BY <2>3
  <2> QED
    BY <2>2, <2>4
<1>7. m[3] = 0 /\ m[4] = 80
  <2>1. 3 \in 1 .. n /\ 4 \in 1 .. n
    BY <1>2, <1>5
  <2> QED
    BY <1>5, <1>6, <2>1
<1>8. HoldsAt(m, 3, <<0, 80>>)
  <2>1. <<0, 80>> \in Seq(Byte) /\ Len(<<0, 80>>) = 2
    BY DEF Byte, BASE
  <2>2. 3 + 2 <= n + 1
    BY <1>2, <1>5
  <2>3. \A i \in 1 .. 2 : m[3 + i - 1] = <<0, 80>>[i]
    <3> TAKE i \in 1 .. 2
    <3>1. i = 1 \/ i = 2
      OBVIOUS
    <3>2. CASE i = 1
      BY <1>7, <3>2
    <3>3. CASE i = 2
      BY <1>7, <3>3
    <3> QED
      BY <3>1, <3>2, <3>3
  <2> QED
    BY <2>1, <2>2, <2>3, SMT DEF HoldsAt, n
<1> QED
  BY <1>1, <1>8, Zenon DEF IsSegment, m

(***************************************************************************)
(* What becomes of a frame of each kind.                                   *)
(***************************************************************************)
LEMMA Dispatch ==
  ASSUME NEW f, handle_rx_packet(f)
  PROVE  /\ f.type = "arp" => HandleArp(f)
         /\ f.type = "unknown" => Ignore(f)
         /\ f.type = "ip" /\ ~ ValidIp(f) => Ignore(f)
         /\ f.type = "ip" /\ ValidIp(f) /\ f.ip.protocol = ICMP => HandlePing(f)
         /\ f.type = "ip" /\ ValidIp(f) /\ f.ip.protocol = TCP => HandleTcp(f)
         /\ handled' = Append(handled, f) /\ clients' = Append(clients, remote)
<1>1. HandleArp(f) \/ HandlePing(f) \/ HandleTcp(f) \/ Ignore(f)
  BY Zenon DEF handle_rx_packet
<1>2. ICMP # TCP
  BY DEF ICMP, TCP
<1>3. HandleArp(f) => f.type = "arp"
  BY Zenon DEF HandleArp
<1>4. HandlePing(f) => f.type = "ip" /\ ValidIp(f) /\ f.ip.protocol = ICMP
  BY Zenon DEF HandlePing
<1>5. HandleTcp(f) => f.type = "ip" /\ ValidIp(f) /\ f.ip.protocol = TCP
  BY Zenon DEF HandleTcp
<1>6. Ignore(f) => f.type = "unknown" \/ (f.type = "ip" /\ ~ ValidIp(f))
  BY Zenon DEF Ignore
<1>7. handled' = Append(handled, f) /\ clients' = Append(clients, remote)
  BY Zenon DEF handle_rx_packet
<1>8. "arp" # "ip" /\ "arp" # "unknown" /\ "ip" # "unknown"
  OBVIOUS
<1>9. f.type = "arp" => HandleArp(f)
  BY <1>1, <1>4, <1>5, <1>6, <1>8, Zenon
<1>10. f.type = "unknown" => Ignore(f)
  BY <1>1, <1>3, <1>4, <1>5, <1>8, Zenon
<1>11. f.type = "ip" /\ ~ ValidIp(f) => Ignore(f)
  BY <1>1, <1>3, <1>4, <1>5, <1>8, Zenon
<1>12. f.type = "ip" /\ ValidIp(f) /\ f.ip.protocol = ICMP => HandlePing(f)
  BY <1>1, <1>2, <1>3, <1>5, <1>6, <1>8, Zenon
<1>13. f.type = "ip" /\ ValidIp(f) /\ f.ip.protocol = TCP => HandleTcp(f)
  BY <1>1, <1>2, <1>3, <1>4, <1>6, <1>8, Zenon
<1> QED
  BY <1>7, <1>9, <1>10, <1>11, <1>12, <1>13, Zenon

(* A segment hands on the data that its sender put into it.                *)
LEMMA TakesData ==
  ASSUME NEW f, IsMeant(f, ip_addr, MAX_SEGMENT), IsDataOf(f, remote),
         handle_rx_packet(f)
  PROVE  /\ segments' = Append(segments, f.meant.data)
         /\ UNCHANGED <<identification_counter, sent, scanVars>>
<1> DEFINE m == f.made.message
           p == f.made.padding
           n == Len(m)
<1>1. /\ IsSegment(f) /\ Carries(m, MAX_SEGMENT) /\ f.ip.dest_ip = ip_addr
      /\ remote = [ip |-> f.ip.source_ip, port |-> SubSeq(m, 1, 2)]
      /\ n = HeaderEnd(m) + Len(f.meant.data)
      /\ HoldsAt(m, HeaderEnd(m) + 1, f.meant.data)
  BY Zenon DEF IsMeant, IsDataOf
<1>2. PICK segment : segment = Message(f.ip)
  OBVIOUS
<1>3. /\ f.type = "ip" /\ ValidIp(f) /\ f.ip.protocol = TCP
      /\ SubSeq(segment, 3, 4) = <<0, 80>>
      /\ DataOffset(segment) = HeaderEnd(m) /\ HeaderEnd(m) \in 0 .. 60
      /\ \A flag : HasFlag(segment, flag) <=> Flag(m, flag)
      /\ MessageLength(f) = n /\ Sender(f) = remote /\ remote # NONE
  BY <1>1, <1>2, SegmentHolds, Zenon
<1>4. IsMessage(f, m, p, n)
  BY <1>1, PacketHolds, Zenon DEF IsSegment, IsWhole
<1> HIDE DEF m, p, n
<1>5. HandleTcp(f)
  BY <1>3, Dispatch, Zenon
<1>6. PICK d : d = f.meant.data
  OBVIOUS
<1>7. d \in Seq(Byte)
  BY <1>1, <1>6, Zenon DEF HoldsAt
<1>8. PICK k \in Nat : k = Len(d)
  BY <1>7
<1>9. PICK h \in 0 .. 60 : h = HeaderEnd(m)
  BY <1>3, Zenon
<1>10. TakeSegment(f, segment) /\ UNCHANGED <<identification_counter, sent>>
  <2>1. ~ NoSegment(f, segment)
    BY <1>1, <1>3, Zenon DEF NoSegment, Matches, Carries
  <2> QED
    BY <1>2, <1>3, <1>5, <2>1, Zenon DEF HandleTcp, TakeSyn
<1>11. PICK l : l = MessageLength(f) - DataOffset(segment)
  OBVIOUS
<1>12. l = k
  <2>1. n = h + k
    BY <1>1, <1>6, <1>8, <1>9, Zenon
  <2>2. l = n - h
    BY <1>3, <1>9, <1>11, Zenon
  <2> QED
    BY <2>1, <2>2
<1>13. PICK e : e = SubSeq(segment, h + 1, h + k)
  OBVIOUS
<1>14. e = d
  <2>1. PICK low \in Nat \ {0} : low = h + 1
    OBVIOUS
  <2>2. PICK high \in Nat : high = h + k
    OBVIOUS
  <2>3. HoldsAt(m, low, d) /\ high = low - 1 + Len(d)
    <3>1. HoldsAt(m, low, d)
      BY <1>1, <1>6, <1>9, <2>1, Zenon
    <3>2. high = low - 1 + Len(d)
      BY <1>8, <2>1, <2>2
    <3> QED
      BY <3>1, <3>2
  <2>4. Lies(d, segment, low, high, Byte)
    BY <1>2, <1>4, <2>3, FoundAt, Zenon
  <2>5. e = SubSeq(segment, low, high)
    BY <1>13, <2>1, <2>2, Zenon
  <2> QED
    BY <2>4, <2>5, SliceIs, Zenon
<1>15. k \in 0 .. MAX_SEGMENT
  <2>1. n - HeaderEnd(m) \in 0 .. MAX_SEGMENT
    BY <1>1, Zenon DEF Carries, n
  <2>2. n - HeaderEnd(m) = l
    BY <1>3, <1>11, Zenon
  <2> QED
    BY <1>12, <2>1, <2>2, Zenon
<1>16. /\ segments' = IF l \in 0 .. MAX_SEGMENT
                      THEN Append(segments, SubSeq(segment, h + 1, h + l)) ELSE segments
       /\ UNCHANGED scanVars
  <2>1. ~ HasFlag(segment, SYN) /\ HasFlag(segment, ACK)
    BY <1>1, <1>3, Zenon DEF Carries
  <2> QED
    BY <1>3, <1>9, <1>10, <1>11, <2>1, Zenon DEF TakeSegment
<1>17. segments' = Append(segments, e)
  BY <1>12, <1>13, <1>15, <1>16, Zenon
<1> QED
  BY <1>6, <1>10, <1>14, <1>16, <1>17, Zenon

(* A SYN is scanned for the options that its sender put into it.           *)
LEMMA TakesSyn ==
  ASSUME NEW f, IsMeant(f, ip_addr, MAX_SEGMENT), f.meant.kind = "syn",
         remote = NONE, handle_rx_packet(f)
  PROVE  /\ \E bytes : /\ HoldsOptions(bytes, f.meant.list)
                       /\ ScanOptions(f.meant.list, bytes)
         /\ UNCHANGED <<identification_counter, sent, segments>>
<1> DEFINE m == f.made.message
           p == f.made.padding
           n == Len(m)
<1>1. /\ IsSegment(f) /\ Opens(m) /\ HeaderEnd(m) <= n
      /\ HoldsOptions(SubSeq(m, 21, HeaderEnd(m)), f.meant.list)
  BY Zenon DEF IsMeant
<1>2. PICK segment : segment = Message(f.ip)
  OBVIOUS
<1>3. /\ f.type = "ip" /\ ValidIp(f) /\ f.ip.protocol = TCP
      /\ SubSeq(segment, 3, 4) = <<0, 80>>
      /\ DataOffset(segment) = HeaderEnd(m) /\ HeaderEnd(m) \in 0 .. 60
      /\ \A flag : HasFlag(segment, flag) <=> Flag(m, flag)
  BY <1>1, <1>2, SegmentHolds, Zenon
<1>4. IsMessage(f, m, p, n)
  BY <1>1, PacketHolds, Zenon DEF IsSegment, IsWhole
<1> HIDE DEF m, p, n
<1>5. HandleTcp(f)
  BY <1>3, Dispatch, Zenon
<1>6. /\ ScanOptions(f.meant.list, SubSeq(segment, 21, DataOffset(segment)))
      /\ UNCHANGED <<identification_counter, sent, segments>>
  <2>1. IsSyn(segment) /\ ~ HasFlag(segment, RST)
    BY <1>1, <1>3, Zenon DEF IsSyn, Opens
  <2>2. ~ NoSegment(f, segment)
    BY <1>3, <2>1, Zenon DEF NoSegment
  <2> QED
    BY <1>2, <1>5, <2>1, <2>2, Zenon DEF HandleTcp, TakeSyn, TakeSegment
<1>7. PICK h \in 0 .. 60 : h = HeaderEnd(m)
  BY <1>3, Zenon
<1>8. PICK e : e = SubSeq(segment, 21, h)
  OBVIOUS
<1>9. PICK d : d = SubSeq(m, 21, h)
  OBVIOUS
<1>10. e = d
  <2>1. CASE h < 21
    <3>1. 21 \in Int /\ h \in Int /\ h < 21
      BY <2>1
    <3>2. SubSeq(segment, 21, h) = <<>> /\ SubSeq(m, 21, h) = <<>>
      BY <3>1, SubSeqEmpty, Zenon
    <3> QED
      BY <1>8, <1>9, <3>2, Zenon
  <2>2. CASE h >= 21
    <3>1. Shows(segment, m, n)
      BY <1>2, <1>4, MessageAt, Zenon
    <3>2. /\ segment \in Seq(Byte) /\ n \in Nat /\ n <= Len(segment)
          /\ \A i \in 1 .. n : segment[i] = m[i] /\ m[i] \in Byte
      BY <3>1, Zenon DEF Shows
    <3>3. m \in Seq(Byte) /\ n = Len(m) /\ h <= n
      BY <1>1, <1>4, <1>7, Zenon DEF IsMessage
    <3>4. \A i \in 21 .. h : m[i] \in Byte
      BY <3>2, <3>3
    <3>5. /\ d \in Seq(Byte) /\ Len(d) = h - 20
          /\ \A i \in 1 .. h - 20 : d[i] = m[20 + i]
      <4>1. 21 \in Int /\ h \in Int /\ 21 <= h /\ h - 21 + 1 = h - 20
        BY <2>2
      <4>2. /\ SubSeq(m, 21, h) \in Seq(Byte) /\ Len(SubSeq(m, 21, h)) = h - 21 + 1
            /\ \A i \in 1 .. h - 21 + 1 : SubSeq(m, 21, h)[i] = m[21 + i - 1]
        BY <3>4, <4>1, SubSeqProperties
      <4>3. \A i \in 1 .. h - 20 : 21 + i - 1 = 20 + i
        BY <4>1
      <4> QED
        BY <1>9, <4>1, <4>2, <4>3, Zenon
    <3>6. /\ 21 \in Nat \ {0} /\ h \in Nat /\ h = 21 - 1 + Len(d) /\ h <= Len(segment)
      BY <3>2, <3>3, <3>5
    <3>7. \A i \in 1 .. Len(d) : segment[21 - 1 + i] = d[i]
      <4> TAKE i \in 1 .. Len(d)
      <4>1. PICK j \in Nat : j = 20 + i
        BY <3>5
      <4>2. j \in 1 .. n /\ 21 - 1 + i = j /\ d[i] = m[j]
        BY <3>2, <3>3, <3>5, <4>1
      <4> QED
        BY <3>2, <4>2, Zenon
    <3>8. Lies(d, segment, 21, h, Byte)
      BY <3>2, <3>5, <3>6, <3>7, Zenon DEF Lies
    <3> QED
      BY <1>8, <3>8, SliceIs, Zenon
  <2> QED
    BY <2>1, <2>2
<1>11. HoldsOptions(d, f.meant.list)
  BY <1>1, <1>7, <1>9, Zenon
<1>12. ScanOptions(f.meant.list, d)
  BY <1>3, <1>6, <1>7, <1>8, <1>10, Zenon
<1> QED
  BY <1>6, <1>11, <1>12, Zenon

(* A segment that neither opens a connection while there is none nor       *)
(* carries data of the one there is has no effect.                         *)
LEMMA IgnoresStray ==
  ASSUME NEW f, IsSegment(f), handle_rx_packet(f),
         ~ Opens(f.made.message) \/ remote # NONE,
         \/ ~ Carries(f.made.message, MAX_SEGMENT) \/ f.ip.dest_ip # ip_addr
         \/ remote # [ip |-> f.ip.source_ip, port |-> SubSeq(f.made.message, 1, 2)]
  PROVE  UNCHANGED <<identification_counter, sent, segments, scanVars>>
<1> DEFINE m == f.made.message
<1>1. PICK segment : segment = Message(f.ip)
  OBVIOUS
<1>2. /\ f.type = "ip" /\ ValidIp(f) /\ f.ip.protocol = TCP
      /\ DataOffset(segment) = HeaderEnd(m)
      /\ \A flag : HasFlag(segment, flag) <=> Flag(m, flag)
      /\ MessageLength(f) = Len(m)
      /\ Sender(f) = [ip |-> f.ip.source_ip, port |-> SubSeq(m, 1, 2)]
  <2>1. m = f.made.message
    OBVIOUS
  <2> HIDE DEF m
  <2> QED
    BY <1>1, <2>1, SegmentHolds, ZenonT(60)
<1>3. \/ ~ Carries(m, MAX_SEGMENT) \/ f.ip.dest_ip # ip_addr
      \/ remote # Sender(f)
  BY <1>2, Zenon
<1>4. ~ Opens(m) \/ remote # NONE
  OBVIOUS
<1> HIDE DEF m
<1>5. HandleTcp(f)
  BY <1>2, Dispatch, Zenon
<1>6. UNCHANGED <<identification_counter, sent>>
  BY <1>5, Zenon DEF HandleTcp
<1>7. CASE NoSegment(f, segment)
  BY <1>1, <1>5, <1>7, Zenon DEF HandleTcp
<1>8. CASE ~ NoSegment(f, segment)
  <2>1. ~ HasFlag(segment, RST) /\ (remote = NONE \/ Matches(f))
    BY <1>8, Zenon DEF NoSegment
  <2>2. CASE TakeSyn(f, segment)
    <3>1. remote = NONE
      BY <2>2, Zenon DEF TakeSyn
    <3>2. ~ IsSyn(segment)
      BY <1>2, <1>4, <2>1, <3>1, Zenon DEF IsSyn, Opens
    <3> QED
      BY <1>6, <2>2, <3>2, Zenon DEF TakeSyn
  <2>3. CASE TakeSegment(f, segment)
    <3>1. Matches(f)
      BY <2>1, <2>3, Zenon DEF TakeSegment
    <3>2. ~ Carries(m, MAX_SEGMENT)
      BY <1>3, <3>1, Zenon DEF Matches
    <3>3. ~ (/\ MessageLength(f) - DataOffset(segment) \in 0 .. MAX_SEGMENT
             /\ ~ HasFlag(segment, SYN) /\ HasFlag(segment, ACK))
      BY <1>2, <2>1, <3>2, Zenon DEF Carries
    <3> QED
      BY <1>6, <2>3, <3>3, Zenon DEF TakeSegment
  <2> QED
    BY <1>1, <1>5, <1>8, <2>2, <2>3, Zenon DEF HandleTcp
<1> QED
  BY <1>7, <1>8

(* Other frames have no effect.                                            *)
LEMMA OtherEcho ==
  ASSUME NEW f, IsWhole(f), f.ip.protocol = ICMP, NEW s, s = Message(f.ip)
  PROVE  AsksEcho(f) <=> s[1] = ECHO_REQUEST /\ s[2] = 0
<1> DEFINE m == f.made.message
           p == f.made.padding
           n == Len(m)
<1>1. IsPacket(f) /\ f.ip.protocol = 1
  BY Zenon DEF IsWhole, ICMP
<1>2. n >= 8 /\ m \in Seq(Byte)
  BY <1>1, Zenon DEF IsPacket
<1>3. IsMessage(f, m, p, n)
  BY <1>1, PacketHolds, Zenon
<1>4. AsksEcho(f) <=> HoldsAt(m, 1, <<8, 0>>)
  BY <1>1, Zenon DEF AsksEcho
<1> HIDE DEF m, p, n
<1>5. Shows(s, m, n)
  BY <1>3, MessageAt, Zenon
<1>6. n \in Nat /\ \A i \in 1 .. n : s[i] = m[i]
  BY <1>5, Zenon DEF Shows
<1>7. s[1] = m[1] /\ s[2] = m[2]
  <2>1. 1 \in 1 .. n /\ 2 \in 1 .. n
    BY <1>2, <1>6
  <2> QED
    BY <1>6, <2>1
<1>8. HoldsAt(m, 1, <<8, 0>>) <=> m[1] = 8 /\ m[2] = 0
  <2>1. PICK bytes : bytes = <<8, 0>>
    OBVIOUS
  <2>2. bytes \in Seq(Byte) /\ Len(bytes) = 2 /\ bytes[1] = 8 /\ bytes[2] = 0
    BY <2>1 DEF Byte, BASE
  <2>3. HoldsAt(m, 1, bytes) <=>
          /\ 1 + 2 <= n + 1
          /\ \A i \in 1 .. 2 : m[1 + i - 1] = bytes[i]
    BY <2>2, Zenon DEF HoldsAt, n
  <2>4. (\A i \in 1 .. 2 : m[1 + i - 1] = bytes[i]) <=> m[1] = bytes[1] /\ m[2] = bytes[2]
    OBVIOUS
  <2>5. 1 + 2 <= n + 1
    BY <1>2, <1>6
  <2>6. HoldsAt(m, 1, bytes) <=> m[1] = 8 /\ m[2] = 0
    BY <2>2, <2>3, <2>4, <2>5
  <2> QED
    BY <2>1, <2>6, Zenon
<1> QED
  BY <1>4, <1>7, <1>8, Zenon DEF ECHO_REQUEST

(* A frame of no interest changes nothing but handled.                     *)
LEMMA IgnoresOther ==
  ASSUME NEW f, IsMeant(f, ip_addr, MAX_SEGMENT), f.meant.kind = "other",
         handle_rx_packet(f)
  PROVE  UNCHANGED <<identification_counter, sent, segments, scanVars>>
<1>1. IsOther(f, ip_addr, MAX_SEGMENT)
  BY Zenon DEF IsMeant
<1>2. CASE f.type = "unknown"
  <2>1. Ignore(f)
    BY <1>2, Dispatch, Zenon
  <2> QED
    BY <2>1, Zenon DEF Ignore
<1>3. CASE IsArp(f) /\ ~ AsksFor(f, ip_addr)
  <2>1. f.type = "arp"
    BY <1>3, Zenon DEF IsArp
  <2>2. HandleArp(f)
    BY <2>1, Dispatch, Zenon
  <2>3. ~ (ValidArp(f) /\ f.arp.oper = ARP_REQUEST /\ f.arp.tpa = ip_addr)
    BY <1>3, Zenon DEF AsksFor, ValidArp, ARP_REQUEST
  <2> QED
    BY <2>2, <2>3, Zenon DEF HandleArp
<1>4. CASE IsPacket(f) /\ ~ IsWhole(f)
  <2>1. f.type = "ip" /\ ~ ValidIp(f)
    BY <1>4, PacketHolds, Zenon DEF IsPacket
  <2>2. Ignore(f)
    BY <2>1, Dispatch, Zenon
  <2> QED
    BY <2>2, Zenon DEF Ignore
<1>5. CASE IsWhole(f) /\ ~ AsksEcho(f) /\ ~ IsSegment(f)
  <2>1. f.type = "ip" /\ IsPacket(f)
    BY <1>5, Zenon DEF IsWhole, IsPacket
  <2>2. ValidIp(f) <=> f.ip.protocol \in {ICMP, TCP}
    BY <1>5, <2>1, PacketHolds, Zenon
  <2>3. CASE ~ ValidIp(f)
    <3>1. Ignore(f)
      BY <2>1, <2>3, Dispatch, Zenon
    <3> QED
      BY <3>1, Zenon DEF Ignore
  <2>4. CASE ValidIp(f) /\ f.ip.protocol = ICMP
    <3>1. HandlePing(f)
      BY <2>1, <2>4, Dispatch, Zenon
    <3>2. ~ (Message(f.ip)[1] = ECHO_REQUEST /\ Message(f.ip)[2] = 0)
      BY <1>5, <2>4, OtherEcho, Zenon
    <3> QED
      BY <3>1, <3>2, Zenon DEF HandlePing
  <2>5. CASE ValidIp(f) /\ f.ip.protocol = TCP
    <3>1. HandleTcp(f)
      BY <2>1, <2>5, Dispatch, Zenon
    <3>2. SubSeq(Message(f.ip), 3, 4) # <<0, 80>>
      BY <1>5, <2>5, OtherPort, Zenon
    <3> QED
      BY <3>1, <3>2, Zenon DEF HandleTcp, NoSegment
  <2> QED
    BY <2>2, <2>3, <2>4, <2>5, Zenon
<1>6. CASE /\ IsSegment(f) /\ ~ Opens(f.made.message)
           /\ ~ Carries(f.made.message, MAX_SEGMENT) \/ f.ip.dest_ip # ip_addr
  BY <1>6, IgnoresStray, Zenon
<1> QED
  BY <1>1, <1>2, <1>3, <1>4, <1>5, <1>6, Zenon DEF IsOther

(* A request for the hardware address of the server is answered.           *)
LEMMA AnswersArp ==
  ASSUME NEW f, IsMeant(f, ip_addr, MAX_SEGMENT), f.meant.kind = "arp",
         handle_rx_packet(f)
  PROVE  /\ \E r : /\ sent' = Append(sent, r) /\ r.type = "arp" /\ Answers(r, f)
         /\ UNCHANGED <<identification_counter, segments, scanVars>>
<1>1. AsksFor(f, ip_addr) /\ f.meant.ip = f.arp.spa
  BY Zenon DEF IsMeant
<1>2. f.type = "arp" /\ f.arp.sha = f.source
  BY <1>1, Zenon DEF AsksFor, IsArp
<1>3. HandleArp(f)
  BY <1>2, Dispatch, Zenon
<1>4. ValidArp(f) /\ f.arp.oper = ARP_REQUEST /\ f.arp.tpa = ip_addr
  BY <1>1, Zenon DEF AsksFor, ValidArp, ARP_REQUEST
<1>5. PICK r : r = ArpReply(f.arp, f.source)
  OBVIOUS
<1>6. sent' = Append(sent, r)
  BY <1>3, <1>4, <1>5, Zenon DEF HandleArp
<1>7. /\ r.dest = f.source /\ r.source = local_mac /\ r.type = "arp"
      /\ r.arp.oper = 2 /\ r.arp.spa = ip_addr /\ r.arp.sha = local_mac
      /\ r.arp.tpa = f.arp.spa /\ r.arp.tha = f.arp.sha
  BY <1>5 DEF ArpReply
<1>8. r.arp.oper # ARP_REQUEST
  BY <1>7 DEF ARP_REQUEST
<1>9. Answers(r, f)
  BY <1>1, <1>2, <1>7, <1>8, Zenon DEF Answers
<1> QED
  BY <1>3, <1>6, <1>7, <1>9, Zenon DEF HandleArp

(***************************************************************************)
(* Checksums that verify.                                                  *)
(***************************************************************************)
(* Fewer than WORDS bytes add up to less than WORDS squared.               *)
LEMMA SumBelow ==
  ASSUME NEW x, NEW k \in Nat, Bounded65280(x, k), k < WORDS
  PROVE  x \in Nat /\ x < WORDS * WORDS
BY SMT DEF Bounded65280, WORDS, BASE

(* The two bytes of a word add up to it.                                   *)
LEMMA BytesOf ==
  ASSUME NEW w \in 0 .. WORDS-1
  PROVE  /\ Bytes(w) \in Seq(Byte) /\ Len(Bytes(w)) = 2
         /\ ReceiverSum(Bytes(w)) = w
<1>1. BASE \in Nat /\ BASE > 1 /\ w \in Nat /\ w < BASE * BASE
  <2>1. BASE \in Nat /\ BASE > 1
    BY SMT DEF BASE
  <2>2. WORDS = BASE * BASE
    BY Zenon DEF WORDS
  <2>3. w \in Nat /\ w < WORDS
    BY WordsType, SMTT(30)
  <2> QED
    BY <2>1, <2>2, <2>3, Zenon
<1>2. PICK x \in 0 .. BASE-1 : x = w \div BASE
  BY <1>1, QuotientBelow, Zenon
<1>3. PICK y \in 0 .. BASE-1 : y = w % BASE
  BY <1>1, QuotientBelow, Zenon
<1>4. w = BASE * x + y
  <2>1. w = BASE * (w \div BASE) + (w % BASE)
    BY <1>1, QuotientBelow, Zenon
  <2> QED
    BY <1>2, <1>3, <2>1
<1>5. x \in Byte /\ y \in Byte /\ Bytes(w) = <<x, y>>
  BY <1>2, <1>3, Zenon DEF Byte, Bytes
<1>6. ReceiverSum(<<x, y>>) = w
  <2>1. ReceiverSum(<<x, y>>) = x * 256 + y
    BY <1>5, ReceiverSumOfTwo, ZenonT(40)
  <2>2. x * 256 + y = w
    BY <1>4, SMT DEF BASE
  <2> QED
    BY <2>1, <2>2, Zenon
<1>7. <<x, y>> \in Seq(Byte) /\ Len(<<x, y>>) = 2
  BY <1>5, SMT
<1> QED
  BY <1>5, <1>6, <1>7, Zenon

(* With its checksum a message adds up to a multiple of WORDS - 1.         *)
LEMMA ChecksumOf ==
  ASSUME NEW a \in Seq(Byte), Len(a) < WORDS
  PROVE  /\ ip_checksum(a) \in 0 .. WORDS-1
         /\ (ReceiverSum(a) + ip_checksum(a)) % (WORDS - 1) = 0
<1>1. PICK k \in Nat : k = Len(a)
  BY SMT
<1>2. Bounded65280(ReceiverSum(a), k)
  BY <1>1, ReceiverSumType, Zenon
<1>3. PICK x \in Nat : x = ReceiverSum(a) /\ x < WORDS * WORDS
  BY <1>1, <1>2, SumBelow, Zenon
<1>4. ip_checksum_add(ip_checksum_init, a) = 0 + x
  <2>1. ip_checksum_init = 0 /\ 0 \in Nat
    BY SMT DEF ip_checksum_init
  <2> QED
    BY <1>3, <2>1, ChecksumAdds, Zenon
<1>5. ip_checksum(a) = ip_checksum_final(x)
  <2>1. 0 + x = x
    BY SMT
  <2> QED
    BY <1>4, <2>1, Zenon DEF ip_checksum
<1> QED
  BY <1>3, <1>5, FinalVerifies, Zenon

(* What is known of bytes that stand before others.                        *)
EvenFront(a, n) == a \in Seq(Byte) /\ Len(a) = n /\ n \in Nat /\ n % 2 = 0

(* An even front adds up apart from what follows it.                       *)
LEMMA FrontSum ==
  ASSUME NEW a, NEW n, EvenFront(a, n), NEW b \in Seq(Byte)
  PROVE  /\ a \o b \in Seq(Byte) /\ Len(a \o b) = n + Len(b)
         /\ ReceiverSum(a \o b) = ReceiverSum(a) + ReceiverSum(b)
<1>1. a \in Seq(Byte) /\ Len(a) % 2 = 0 /\ Len(a) = n
  BY Zenon DEF EvenFront
<1>2. ReceiverSum(a \o b) = ReceiverSum(a) + ReceiverSum(b)
  BY <1>1, ReceiverSumConcat, SMT
<1>3. a \o b \in Seq(Byte) /\ Len(a \o b) = n + Len(b)
  BY <1>1, SMT
<1> QED
  BY <1>2, <1>3, SMT

(* A receiver's sum is a number.                                           *)
LEMMA SumIsNat ==
  ASSUME NEW a \in Seq(Byte)
  PROVE  ReceiverSum(a) \in Nat
<1>1. Bounded65280(ReceiverSum(a), Len(a))
  BY ReceiverSumType, Zenon
<1> QED
  BY <1>1, SMT DEF Bounded65280

(* Bytes before others, and their sum.                                     *)
FrontWith(a, n, x) == EvenFront(a, n) /\ ReceiverSum(a) = x /\ x \in Nat

(* Two even fronts are one.                                                *)
LEMMA FrontsCat ==
  ASSUME NEW a, NEW n, NEW x, FrontWith(a, n, x), NEW b, NEW m, NEW y, FrontWith(b, m, y)
  PROVE  FrontWith(a \o b, n + m, x + y)
<1>1. a \in Seq(Byte) /\ b \in Seq(Byte)
  BY Zenon DEF FrontWith, EvenFront
<1>2. EvenFront(a, n) /\ ReceiverSum(a) = x /\ ReceiverSum(b) = y
  BY Zenon DEF FrontWith
<1>3. n \in Nat /\ n % 2 = 0 /\ m \in Nat /\ m % 2 = 0 /\ Len(b) = m
  BY Zenon DEF FrontWith, EvenFront
<1>4. x \in Nat /\ y \in Nat
  BY Zenon DEF FrontWith
<1>5. n + m \in Nat /\ (n + m) % 2 = 0
  BY <1>3
<1>6. x + y \in Nat
  BY <1>4
<1>7. /\ a \o b \in Seq(Byte) /\ Len(a \o b) = n + Len(b)
      /\ ReceiverSum(a \o b) = ReceiverSum(a) + ReceiverSum(b)
  BY <1>1, <1>2, FrontSum, SMT
<1>8. PICK e : e = a \o b
  OBVIOUS
<1>9. e \in Seq(Byte) /\ Len(e) = n + m /\ ReceiverSum(e) = x + y
  BY <1>2, <1>3, <1>7, <1>8, SMT
<1>10. FrontWith(e, n + m, x + y)
  BY <1>5, <1>6, <1>9, Zenon DEF FrontWith, EvenFront
<1> QED
  BY <1>8, <1>10, SMT

(* e is a and then b, and k as long as the two.                            *)
Joins(e, k, a, n, b, m) == e = a \o b /\ k = n + m

(* The same, for a front with a name of its own.                           *)
LEMMA FrontsJoin ==
  ASSUME NEW a, NEW n, NEW x, FrontWith(a, n, x), NEW b, NEW m, NEW y, FrontWith(b, m, y),
         NEW e, NEW k, Joins(e, k, a, n, b, m)
  PROVE  FrontWith(e, k, x + y)
<1>1. e = a \o b /\ k = n + m
  BY SMT DEF Joins
<1>2. FrontWith(a \o b, n + m, x + y)
  BY FrontsCat, SMT
<1> QED
  BY <1>1, <1>2, SMT

(* Bytes of even length are an even front.                                 *)
LEMMA FrontIs ==
  ASSUME NEW a \in Seq(Byte), NEW n \in Nat, n % 2 = 0, Len(a) = n
  PROVE  FrontWith(a, n, ReceiverSum(a))
BY SumIsNat, Zenon DEF FrontWith, EvenFront

(* Two bytes are an even front.                                            *)
LEMMA TwoBytes ==
  ASSUME NEW x \in Byte, NEW y \in Byte
  PROVE  FrontWith(<<x, y>>, 2, x * 256 + y)
<1>1. <<x, y>> \in Seq(Byte) /\ Len(<<x, y>>) = 2
  BY SMT
<1>2. 2 \in Nat /\ 2 % 2 = 0 /\ x * 256 + y \in Nat
  BY SMT DEF Byte, BASE
<1>3. ReceiverSum(<<x, y>>) = x * 256 + y
  BY ReceiverSumOfTwo, ZenonT(40)
<1> QED
  BY <1>1, <1>2, <1>3, Zenon DEF FrontWith, EvenFront

(* A word is an even front.                                                *)
LEMMA WordFront ==
  ASSUME NEW w \in 0 .. WORDS-1
  PROVE  FrontWith(Bytes(w), 2, w)
<1>1. Bytes(w) \in Seq(Byte) /\ Len(Bytes(w)) = 2 /\ ReceiverSum(Bytes(w)) = w
  BY BytesOf, Zenon
<1>2. 2 \in Nat /\ 2 % 2 = 0 /\ w \in Nat
  BY SMT
<1> QED
  BY <1>1, <1>2, Zenon DEF FrontWith, EvenFront

(* A checksum behind what it sums.                                         *)
LEMMA AppendedVerifies ==
  ASSUME NEW a, NEW n, EvenFront(a, n), n < WORDS
  PROVE  /\ ip_checksum(a) \in 0 .. WORDS-1
         /\ Verifies(a \o Bytes(ip_checksum(a)))
<1>1. a \in Seq(Byte) /\ Len(a) = n
  BY Zenon DEF EvenFront
<1>2. PICK c : c = ip_checksum(a)
  OBVIOUS
<1>3. c \in 0 .. WORDS-1 /\ (ReceiverSum(a) + c) % (WORDS - 1) = 0
  BY <1>1, <1>2, ChecksumOf, Zenon
<1>4. Bytes(c) \in Seq(Byte) /\ ReceiverSum(Bytes(c)) = c
  BY <1>3, BytesOf, Zenon
<1>5. PICK b \in Seq(Byte) : b = Bytes(c)
  BY <1>4, Zenon
<1>6. ReceiverSum(a \o b) = ReceiverSum(a) + ReceiverSum(b)
  BY FrontSum, SMT
<1>7. PICK e : e = a \o b
  OBVIOUS
<1>8. ReceiverSum(e) = ReceiverSum(a) + c
  BY <1>4, <1>5, <1>6, <1>7, SMT
<1>9. Verifies(e)
  BY <1>3, <1>8, Zenon DEF Verifies, WORDS
<1>10. e = a \o Bytes(ip_checksum(a))
  BY <1>2, <1>5, <1>7, SMT
<1> QED
  BY <1>2, <1>3, <1>9, <1>10, Zenon

(* An IP address is an even front.                                         *)
LEMMA AddressFront ==
  ASSUME NEW a, IsBytes(a, 4)
  PROVE  FrontWith(a, 4, ReceiverSum(a))
<1>1. a \in Seq(Byte) /\ Len(a) = 4
  BY Zenon DEF IsBytes
<1>2. 4 \in Nat /\ 4 % 2 = 0
  BY SMT
<1> QED
  BY <1>1, <1>2, FrontIs, Zenon

(* The header of a packet that is sent.                                    *)
IsHeader(ip) ==
  /\ ip.total_length \in 0 .. WORDS-1 /\ ip.identification \in 0 .. WORDS-1
  /\ ip.protocol \in Byte /\ IsBytes(ip.source_ip, 4) /\ IsBytes(ip.dest_ip, 4)

(* The IP header that set_ip_header fills in verifies.                     *)
LEMMA HeaderVerifies ==
  ASSUME NEW ip, IsHeader(ip), NEW c, c = ip_checksum(HeaderBytes(ip))
  PROVE  Verifies(HeaderBytes(ip) \o Bytes(c))
<1>1. PICK t \in 0 .. WORDS-1 : t = ip.total_length
  BY Zenon DEF IsHeader
<1>2. PICK i \in 0 .. WORDS-1 : i = ip.identification
  BY Zenon DEF IsHeader
<1>3. PICK p \in Byte : p = ip.protocol
  BY Zenon DEF IsHeader
<1>4. PICK a : a = ip.source_ip /\ IsBytes(a, 4)
  BY Zenon DEF IsHeader
<1>5. PICK b : b = ip.dest_ip /\ IsBytes(b, 4)
  BY Zenon DEF IsHeader
<1>6. PICK f1 : f1 = <<69, 0>>
  OBVIOUS
<1>7. PICK f2 : f2 = <<64, 0, 128, p, 0, 0>>
  OBVIOUS
<1>8. FrontWith(f1, 2, ReceiverSum(f1))
  <2>1. f1 \in Seq(Byte) /\ Len(f1) = 2 /\ 2 \in Nat /\ 2 % 2 = 0
    BY <1>6, SMT DEF Byte, BASE
  <2> QED
    BY <2>1, FrontIs, Zenon
<1>9. FrontWith(f2, 6, ReceiverSum(f2))
  <2>1. f2 \in Seq(Byte) /\ Len(f2) = 6 /\ 6 \in Nat /\ 6 % 2 = 0
    BY <1>7, SMT DEF Byte, BASE
  <2> QED
    BY <2>1, FrontIs, Zenon
<1>10. PICK e1 : e1 = f1 \o Bytes(t)
  OBVIOUS
<1>11. PICK e2 : e2 = e1 \o Bytes(i)
  OBVIOUS
<1>12. PICK e3 : e3 = e2 \o f2
  OBVIOUS
<1>13. PICK e4 : e4 = e3 \o a
  OBVIOUS
<1>14. PICK e : e = e4 \o b
  OBVIOUS
<1>15. e = HeaderBytes(ip)
  BY <1>1, <1>2, <1>3, <1>4, <1>5, <1>6, <1>7, <1>10, <1>11, <1>12, <1>13, <1>14, SMT
     DEF HeaderBytes
<1>16. /\ Joins(e1, 4, f1, 2, Bytes(t), 2) /\ Joins(e2, 6, e1, 4, Bytes(i), 2)
       /\ Joins(e3, 12, e2, 6, f2, 6) /\ Joins(e4, 16, e3, 12, a, 4)
       /\ Joins(e, 20, e4, 16, b, 4)
  BY <1>10, <1>11, <1>12, <1>13, <1>14, SMT DEF Joins
<1>17. \E x : FrontWith(e, 20, x)
  <2>1. PICK x1 : FrontWith(e1, 4, x1)
    BY <1>8, <1>16, WordFront, FrontsJoin, SMT
  <2>2. PICK x2 : FrontWith(e2, 6, x2)
    BY <1>16, <2>1, WordFront, FrontsJoin, SMT
  <2>3. PICK x3 : FrontWith(e3, 12, x3)
    BY <1>9, <1>16, <2>2, FrontsJoin, SMT
  <2>4. PICK x4 : FrontWith(e4, 16, x4)
    BY <1>4, <1>16, <2>3, AddressFront, FrontsJoin, SMT
  <2> QED
    BY <1>5, <1>16, <2>4, AddressFront, FrontsJoin, SMT
<1>18. EvenFront(e, 20) /\ 20 < WORDS
  <2>1. 20 < WORDS
    BY WordsType, Zenon
  <2>2. PICK x : FrontWith(e, 20, x)
    BY <1>17, Zenon
  <2> QED
    BY <2>1, <2>2, Zenon DEF FrontWith
<1>19. Verifies(e \o Bytes(ip_checksum(e)))
  BY <1>18, AppendedVerifies, SMT
<1> QED
  BY <1>15, <1>19, SMT

(* The message of a reply with the bytes d behind its checksum.            *)
IsEcho(d, c, body) ==
  c = ip_checksum(<<0, 0, 0, 0>> \o d) /\ body = <<0, 0>> \o Bytes(c) \o d

(* The echo reply verifies, and carries what the request held.             *)
LEMMA PingVerifies ==
  ASSUME NEW d \in Seq(Byte), NEW k \in Nat, Len(d) = k, k + 4 < WORDS,
         NEW c, NEW body, IsEcho(d, c, body)
  PROVE  /\ c \in 0 .. WORDS-1 /\ Verifies(body) /\ Len(body) = k + 4
         /\ body[1] = 0 /\ Lies(d, body, 5, k + 4, Byte)
<1>1. PICK z : z = <<0, 0>>
  OBVIOUS
<1>2. PICK z4 : z4 = <<0, 0, 0, 0>>
  OBVIOUS
<1>3. PICK octets : octets = z4 \o d
  OBVIOUS
<1>4. PICK e : e = z \o Bytes(c)
  OBVIOUS
<1>5. c = ip_checksum(octets) /\ body = e \o d
  BY <1>1, <1>2, <1>3, <1>4, SMT DEF IsEcho
<1>6. Joins(e, 4, z, 2, Bytes(c), 2) /\ Joins(z4, 4, z, 2, z, 2)
  BY <1>1, <1>2, <1>4, SMT DEF Joins
<1>7. FrontWith(z, 2, 0)
  <2>1. 0 \in Byte /\ 0 * 256 + 0 = 0
    BY SMT DEF Byte, BASE
  <2> QED
    BY <1>1, <2>1, TwoBytes, ZenonT(40)
<1>8. FrontWith(z4, 4, 0)
  <2>1. FrontWith(z4, 4, 0 + 0)
    BY <1>6, <1>7, FrontsJoin, SMT
  <2>2. 0 + 0 = 0
    BY SMT
  <2> QED
    BY <2>1, <2>2, Zenon
<1>9. EvenFront(z4, 4) /\ ReceiverSum(z4) = 0
  BY <1>8, Zenon DEF FrontWith
<1>10. PICK x \in Nat : x = ReceiverSum(d)
  BY SumIsNat, Zenon
<1>11. octets \in Seq(Byte) /\ Len(octets) = 4 + Len(d) /\ ReceiverSum(octets) = x
  <2>1. /\ z4 \o d \in Seq(Byte) /\ Len(z4 \o d) = 4 + Len(d)
        /\ ReceiverSum(z4 \o d) = ReceiverSum(z4) + ReceiverSum(d)
    BY <1>9, FrontSum, SMT
  <2> QED
    BY <1>3, <1>9, <1>10, <2>1, SMT
<1>12. Len(octets) < WORDS
  BY <1>11, WordsType, SMT
<1>13. c \in 0 .. WORDS-1 /\ (x + c) % (WORDS - 1) = 0
  BY <1>5, <1>11, <1>12, ChecksumOf, Zenon
<1>14. FrontWith(e, 4, 0 + c)
  <2>1. FrontWith(Bytes(c), 2, c)
    BY <1>13, WordFront, Zenon
  <2> QED
    BY <1>6, <1>7, <2>1, FrontsJoin, SMT
<1>15. EvenFront(e, 4) /\ ReceiverSum(e) = 0 + c
  BY <1>14, Zenon DEF FrontWith
<1>16. body \in Seq(Byte) /\ Len(body) = 4 + Len(d) /\ ReceiverSum(body) = x + c
  <2>1. /\ e \o d \in Seq(Byte) /\ Len(e \o d) = 4 + Len(d)
        /\ ReceiverSum(e \o d) = ReceiverSum(e) + ReceiverSum(d)
    BY <1>15, FrontSum, SMT
  <2>2. c \in Nat
    BY <1>13, WordsType, SMT
  <2> QED
    BY <1>5, <1>10, <1>15, <2>1, <2>2, SMT
<1>17. Verifies(body)
  BY <1>13, <1>16, Zenon DEF Verifies, WORDS
<1>18. Len(body) = k + 4
  BY <1>16, SMT
<1>19. e \in Seq(Byte) /\ Len(e) = 4
  BY <1>15, Zenon DEF EvenFront
<1>20. Lies(d, body, 5, k + 4, Byte)
  <2>1. Lies(d, body, Len(e) + 1, Len(body), Byte)
    <3>1. body = e \o d
      BY <1>5, SMT

    <3>2. e \in Seq(Byte) /\ d \in Seq(Byte)
      BY <1>19
    <3> QED
      BY <3>1, <3>2, TailLies
  <2>2. Len(e) + 1 = 5
    BY <1>19, SMT
  <2> QED
    BY <1>18, <2>1, <2>2, Zenon
<1>21. body[1] = 0
  <2>1. e[1] = z[1] /\ z[1] = 0
    BY <1>1, <1>4, <1>13, BytesOf
  <2>2. body[1] = e[1]
    <3>1. body = e \o d
      BY <1>5, SMT
    <3>2. e \in Seq(Byte) /\ 1 \in 1 .. Len(e)
      BY <1>19
    <3> QED
      BY <3>1, <3>2, ConcatProperties
  <2> QED
    BY <2>1, <2>2
<1> QED
  BY <1>13, <1>17, <1>18, <1>20, <1>21, Zenon

(* What its receiver finds in a frame that was sent.                       *)
Accepted(r) ==
  r.type = "ip" =>
    /\ Verifies(HeaderBytes(r.ip) \o Bytes(r.checksum))
    /\ LET ip == r.ip
           pseudo_header == ip.source_ip \o ip.dest_ip \o <<0, ip.protocol>>
                              \o Bytes(Len(ip.body))
       IN  IF ip.protocol = TCP THEN Verifies(pseudo_header \o ip.body)
           ELSE Verifies(ip.body)

(* r answers f with body, of k bytes with its header.                      *)
IsReply(r, f, body, k) ==
  /\ r.dest = f.source /\ r.source = local_mac /\ r.type = "ip"
  /\ r.length = k + 14 /\ r.checksum = ip_checksum(HeaderBytes(r.ip))
  /\ r.ip.ihl = 5 /\ r.ip.total_length = k /\ r.ip.protocol = ICMP
  /\ r.ip.identification = identification_counter
  /\ r.ip.source_ip = ip_addr /\ r.ip.dest_ip = f.ip.source_ip
  /\ r.ip.body = body

(* The parts of the echo reply to f.                                       *)
LEMMA ReplyIs ==
  ASSUME NEW f
  PROVE  \E rest, c, body, k :
           /\ rest = SubSeq(Message(f.ip), 5, 8)
                       \o SubSeq(Message(f.ip), 9, MessageLength(f))
           /\ k = Len(SubSeq(Message(f.ip), 9, MessageLength(f))) + 20 + 8
           /\ IsEcho(rest, c, body)
           /\ IsReply(PingReply(f), f, body, k)
<1> DEFINE s == Message(f.ip)
           n == MessageLength(f)
           payload == SubSeq(s, 8 + 1, n)
           rest == SubSeq(s, 5, 8) \o payload
           c == ip_checksum(<<0, 0, 0, 0>> \o rest)
           k == Len(payload) + 20 + 8
           body == <<0, 0>> \o Bytes(c) \o rest
           ip == [ihl |-> 5, total_length |-> k, identification |-> identification_counter,
                  protocol |-> ICMP, source_ip |-> ip_addr,
                  dest_ip |-> f.ip.source_ip, body |-> body]
           l == k + 14
           h == ip_checksum(HeaderBytes(ip))
<1>1. PICK r : r = PingReply(f)
  OBVIOUS
<1>2. r = [dest |-> f.source, source |-> local_mac, type |-> "ip", length |-> l,
           ip |-> ip, checksum |-> h]
  BY <1>1, Zenon DEF PingReply, PING_HEADER, IP_HEADER, ETH_HEADER
<1>3. IsEcho(rest, c, body)
  BY Zenon DEF IsEcho
<1>4. /\ rest = SubSeq(Message(f.ip), 5, 8)
                  \o SubSeq(Message(f.ip), 9, MessageLength(f))
      /\ k = Len(SubSeq(Message(f.ip), 9, MessageLength(f))) + 20 + 8
  BY SMT
<1> HIDE DEF s, n, payload, rest, c, k, body
<1>5. /\ ip.ihl = 5 /\ ip.total_length = k /\ ip.protocol = ICMP
      /\ ip.identification = identification_counter /\ ip.source_ip = ip_addr
      /\ ip.dest_ip = f.ip.source_ip /\ ip.body = body
  BY Zenon
<1>6. h = ip_checksum(HeaderBytes(ip)) /\ l = k + 14
  OBVIOUS
<1> HIDE DEF l, ip, h
<1>7. /\ r.dest = f.source /\ r.source = local_mac /\ r.type = "ip"
      /\ r.length = l /\ r.ip = ip /\ r.checksum = h
  BY <1>2, SMT
<1>8. IsReply(r, f, body, k)
  BY <1>5, <1>6, <1>7, Zenon DEF IsReply
<1> QED
  BY <1>1, <1>3, <1>4, <1>8, Zenon

(* A ping is answered with what came with it.                              *)
LEMMA AnswersPing ==
  ASSUME NEW f, IsMeant(f, ip_addr, MAX_SEGMENT), f.meant.kind = "ping",
         handle_rx_packet(f), identification_counter \in 0 .. WORDS-1
  PROVE  /\ \E r : /\ sent' = Append(sent, r) /\ r.type = "ip" /\ r.ip.protocol = ICMP
                   /\ Answers(r, f) /\ Accepted(r)
         /\ identification_counter' = (identification_counter + 1) % WORDS
         /\ UNCHANGED <<segments, scanVars>>
<1> DEFINE m == f.made.message
           p == f.made.padding
           n == Len(m)
<1>1. /\ AsksEcho(f) /\ f.meant.ip = f.ip.source_ip
      /\ n = 4 + Len(f.meant.data) /\ HoldsAt(m, 5, f.meant.data)
  BY Zenon DEF IsMeant
<1>2. IsWhole(f) /\ IsPacket(f) /\ f.ip.protocol = 1
  BY <1>1, Zenon DEF AsksEcho, IsWhole
<1>3. /\ f.type = "ip" /\ n >= 8 /\ f.ip.ihl \in 5 .. 15
      /\ f.ip.total_length = 4 * f.ip.ihl + n
      /\ f.ip.total_length < WORDS /\ IsBytes(f.ip.source_ip, 4)
  BY <1>2, Zenon DEF IsPacket, WORDS
<1>4. IsMessage(f, m, p, n) /\ ValidIp(f)
  BY <1>2, PacketHolds, Zenon DEF ICMP
<1> HIDE DEF m, p, n
<1>5. PICK s : s = Message(f.ip)
  OBVIOUS
<1>6. /\ s \in Seq(Byte) /\ n \in Nat /\ n <= Len(s)
      /\ \A i \in 1 .. n : s[i] \in Byte
  <2>1. Shows(s, m, n)
    BY <1>4, <1>5, MessageAt, Zenon
  <2> QED
    BY <2>1, Zenon DEF Shows
<1>7. HandlePing(f)
  BY <1>2, <1>3, <1>4, Dispatch, Zenon DEF ICMP
<1>8. s[1] = ECHO_REQUEST /\ s[2] = 0
  BY <1>1, <1>2, <1>5, OtherEcho, Zenon DEF ICMP
<1>9. PICK d : d = f.meant.data
  OBVIOUS
<1>10. d \in Seq(Byte) /\ n = 4 + Len(d) /\ HoldsAt(m, 5, d)
  BY <1>1, <1>9, Zenon DEF HoldsAt
<1>11. f.ip.total_length >= n + 20 /\ n + 20 < WORDS /\ WORDS \in Nat
  <2>1. PICK h \in 5 .. 15 : h = f.ip.ihl
    BY <1>3, Zenon
  <2>2. PICK t : t = f.ip.total_length
    OBVIOUS
  <2>3. t = 4 * h + n /\ t < WORDS
    BY <1>3, <2>1, <2>2, Zenon
  <2>4. t >= n + 20 /\ n + 20 < WORDS
    BY <1>6, <2>3, WordsType
  <2> QED
    BY <2>2, <2>4, WordsType, Zenon
<1>12. PICK r : r = PingReply(f)
  OBVIOUS
<1>13. PICK rest, c, body, k :
         /\ rest = SubSeq(s, 5, 8) \o SubSeq(s, 9, n)
         /\ k = Len(SubSeq(s, 9, n)) + 20 + 8
         /\ IsEcho(rest, c, body)
         /\ IsReply(r, f, body, k)
  <2>1. n = MessageLength(f)
    BY <1>4, Zenon DEF IsMessage
  <2> QED
    BY <1>5, <1>12, <2>1, ReplyIs, Zenon
<1>14. k = n + 20
  <2>1. PICK part : part = SubSeq(s, 9, n)
    OBVIOUS
  <2>2. \A i \in 9 .. n : s[i] \in Byte
    BY <1>6
  <2>3. Len(part) = IF 9 <= n THEN n - 9 + 1 ELSE 0
    BY <1>6, <2>1, <2>2, SubSeqProperties
  <2>4. Len(part) = n - 8
    BY <1>3, <1>6, <2>3
  <2>5. k = Len(part) + 20 + 8
    BY <1>13, <2>1, Zenon
  <2> QED
    BY <1>6, <2>4, <2>5
<1>15. rest = d
  <2>1. /\ 5 \in 1 .. Len(s) + 1 /\ 8 \in 5 - 1 .. Len(s) /\ n \in 8 .. Len(s)
    BY <1>3, <1>6
  <2>2. SubSeq(s, 5, 8) \o SubSeq(s, 8 + 1, n) = SubSeq(s, 5, n)
    BY <1>6, <2>1, ConcatAdjacentSubSeq
  <2>3. PICK e : e = SubSeq(s, 5, n)
    OBVIOUS
  <2>4. 8 + 1 = 9
    OBVIOUS
  <2>5. rest = e
    <3>1. rest = SubSeq(s, 5, 8) \o SubSeq(s, 9, n)
      BY <1>13, SMT
    <3> QED
      BY <2>2, <2>3, <2>4, <3>1
  <2>6. 5 \in Nat \ {0} /\ n = 5 - 1 + Len(d)
    BY <1>10
  <2>7. Lies(d, s, 5, n, Byte)
    BY <1>4, <1>5, <1>6, <1>10, <2>6, FoundAt, Zenon
  <2>8. e = d
    BY <2>3, <2>7, SliceIs, Zenon
  <2> QED
    BY <2>5, <2>8
<1>16. /\ c \in 0 .. WORDS-1 /\ Verifies(body) /\ Len(body) = n
       /\ body[1] = 0 /\ Lies(d, body, 5, n, Byte)
  <2>1. PICK j \in Nat : j = Len(d) /\ j + 4 < WORDS /\ j + 4 = n
    BY <1>6, <1>10, <1>11
  <2>2. IsEcho(d, c, body)
    BY <1>13, <1>15, Zenon
  <2>3. /\ c \in 0 .. WORDS-1 /\ Verifies(body) /\ Len(body) = j + 4
        /\ body[1] = 0 /\ Lies(d, body, 5, j + 4, Byte)
    BY <1>10, <2>1, <2>2, PingVerifies, Zenon
  <2> QED
    BY <2>1, <2>3, Zenon
<1>17. /\ r.dest = f.source /\ r.source = local_mac /\ r.type = "ip"
       /\ r.length = k + 14 /\ r.checksum = ip_checksum(HeaderBytes(r.ip))
       /\ r.ip.ihl = 5 /\ r.ip.total_length = k /\ r.ip.protocol = ICMP
       /\ r.ip.identification = identification_counter
       /\ r.ip.source_ip = ip_addr /\ r.ip.dest_ip = f.ip.source_ip
       /\ r.ip.body = body
  BY <1>13, Zenon DEF IsReply
<1>18. Accepted(r)
  <2>1. IsHeader(r.ip)
    <3>1. k \in 0 .. WORDS-1
      BY <1>6, <1>11, <1>14
    <3>2. ICMP \in Byte
      BY DEF ICMP, Byte, BASE
    <3>3. IsBytes(ip_addr, 4)
      BY PacketAssumption, Zenon
    <3> QED
      BY <1>3, <1>17, <3>1, <3>2, <3>3, Zenon DEF IsHeader
  <2>2. Verifies(HeaderBytes(r.ip) \o Bytes(r.checksum))
    BY <1>17, <2>1, HeaderVerifies, SMT
  <2>3. ICMP # TCP
    BY DEF ICMP, TCP
  <2>4. Verifies(r.ip.body)
    BY <1>16, <1>17, Zenon
  <2> QED
    BY <1>17, <2>2, <2>3, <2>4, Zenon DEF Accepted
<1>19. PICK reply : reply = Message(r.ip)
  OBVIOUS
<1>20. reply = body
  <2>1. 4 * 5 - 20 + 1 = 1
    OBVIOUS
  <2>2. body \in Seq(Byte)
    BY <1>16, Zenon DEF Lies
  <2>3. PICK whole : whole = SubSeq(body, 1, Len(body))
    OBVIOUS
  <2>4. whole = body
    BY <2>2, <2>3, SubSeqFull
  <2>5. reply = SubSeq(r.ip.body, 4 * r.ip.ihl - 20 + 1, Len(r.ip.body))
    BY <1>19, Zenon DEF Message, IP_HEADER
  <2>6. reply = SubSeq(body, 4 * 5 - 20 + 1, Len(body))
    BY <1>17, <2>5, Zenon
  <2>7. reply = whole
    BY <2>1, <2>3, <2>6, Zenon
  <2> QED
    BY <2>4, <2>7
<1>21. MessageLength(r) = n
  <2>1. MessageLength(r) = r.ip.total_length - 4 * r.ip.ihl
    BY Zenon DEF MessageLength
  <2>2. k - 4 * 5 = n
    BY <1>6, <1>14
  <2> QED
    BY <1>17, <2>1, <2>2, Zenon
<1>22. SubSeq(Message(r.ip), 5, MessageLength(r)) = d
  <2>1. PICK e : e = SubSeq(body, 5, n)
    OBVIOUS
  <2>2. e = d
    BY <1>16, <2>1, SliceIs, Zenon
  <2> QED
    BY <1>19, <1>20, <1>21, <2>1, <2>2, Zenon
<1>23. Message(r.ip)[1] # ECHO_REQUEST
  <2>1. 0 # 8
    OBVIOUS
  <2> QED
    BY <1>16, <1>19, <1>20, <2>1, Zenon DEF ECHO_REQUEST
<1>24. r.length = ETH_HEADER + r.ip.total_length
  <2>1. k + 14 = 14 + k
    BY <1>6, <1>14
  <2> QED
    BY <1>17, <2>1, Zenon DEF ETH_HEADER
<1>25. Answers(r, f)
  <2>1. Len(r.ip.body) = MessageLength(r)
    BY <1>16, <1>17, <1>21, Zenon
  <2>2. r.ip.dest_ip = f.meant.ip
    BY <1>1, <1>17, Zenon
  <2>3. SubSeq(Message(r.ip), 5, MessageLength(r)) = f.meant.data
    BY <1>9, <1>22, Zenon
  <2> QED
    BY <1>17, <1>23, <1>24, <2>1, <2>2, <2>3, Zenon DEF Answers
<1>26. /\ sent' = Append(sent, r)
       /\ identification_counter' = (identification_counter + 1) % WORDS
       /\ UNCHANGED <<segments, scanVars>>
  BY <1>5, <1>7, <1>8, <1>12, Zenon DEF HandlePing
<1> QED
  BY <1>17, <1>18, <1>25, <1>26, Zenon

(***************************************************************************)
(* The segments that are sent.                                             *)
(***************************************************************************)
IsOutgoing(s) ==
  /\ IsBytes(s.dest_ip, 4) /\ IsBytes(s.numbers, 12) /\ IsBytes(s.window, 2)
  /\ s.flags \in Byte /\ s.syn \in BOOLEAN
  /\ s.data \in Seq(Byte) /\ Len(s.data) <= MAX_SEGMENT

(* The options of the SYN are an even front.                               *)
LEMMA SynOptionsFront ==
  FrontWith(SYN_OPTIONS, 8, ReceiverSum(SYN_OPTIONS))
<1>1. MAX_SEGMENT \in 0 .. WORDS-1
  BY OptionsAssumption, WordsType, SMT
<1>2. PICK a : a = <<2, 4>>
  OBVIOUS
<1>3. PICK e : e = <<1, 3, 3, 0>>
  OBVIOUS
<1>4. FrontWith(a, 2, ReceiverSum(a)) /\ FrontWith(e, 4, ReceiverSum(e))
  <2>1. a \in Seq(Byte) /\ Len(a) = 2 /\ e \in Seq(Byte) /\ Len(e) = 4
    BY <1>2, <1>3, SMT DEF Byte, BASE
  <2>2. 2 \in Nat /\ 2 % 2 = 0 /\ 4 \in Nat /\ 4 % 2 = 0
    BY SMT
  <2> QED
    BY <2>1, <2>2, FrontIs, Zenon
<1>5. PICK ab : ab = a \o Bytes(MAX_SEGMENT)
  OBVIOUS
<1>6. PICK o : o = ab \o e
  OBVIOUS
<1>7. o = SYN_OPTIONS
  BY <1>2, <1>3, <1>5, <1>6, SMT DEF SYN_OPTIONS
<1>8. Joins(ab, 4, a, 2, Bytes(MAX_SEGMENT), 2) /\ Joins(o, 8, ab, 4, e, 4)
  BY <1>5, <1>6, SMT DEF Joins
<1>9. PICK x : FrontWith(ab, 4, x)
  BY <1>1, <1>4, <1>8, WordFront, FrontsJoin, SMT
<1>10. PICK y : FrontWith(o, 8, y)
  BY <1>4, <1>8, <1>9, FrontsJoin, SMT
<1> QED
  BY <1>7, <1>10, Zenon DEF FrontWith

(* The parts of a segment, one after the other.                            *)
SegmentOf(e, numbers, offset, window, c, o, d) ==
  e = numbers \o offset \o window \o Bytes(c) \o <<0, 0>> \o o \o d

(* A segment of l bytes, the sum of x with its checksum.                   *)
Sums(e, l, x) ==
  e \in Seq(Byte) /\ Len(e) = l /\ ReceiverSum(e) = x

(* A segment adds up to the sum of its parts and its checksum.             *)
LEMMA PartsSum ==
  ASSUME NEW numbers, IsBytes(numbers, 12), NEW offset, IsBytes(offset, 2),
         NEW window, IsBytes(window, 2), NEW d \in Seq(Byte),
         NEW o, NEW k, NEW xo, FrontWith(o, k, xo)
  PROVE  \E x \in Nat : \A c \in 0 .. WORDS-1 : \A e :
           SegmentOf(e, numbers, offset, window, c, o, d)
             => Sums(e, 20 + k + Len(d), x + c)
<1>1. PICK x1 : FrontWith(numbers, 12, x1)
  <2>1. 12 \in Nat /\ 12 % 2 = 0
    BY SMT
  <2> QED
    BY <2>1, FrontIs, Zenon DEF IsBytes
<1>2. /\ \E x : FrontWith(offset, 2, x)
      /\ \E x : FrontWith(window, 2, x)
  <2>1. 2 \in Nat /\ 2 % 2 = 0
    BY SMT
  <2> QED
    BY <2>1, FrontIs, Zenon DEF IsBytes
<1>3. PICK x2 : FrontWith(offset, 2, x2)
  BY <1>2, Zenon
<1>4. PICK x3 : FrontWith(window, 2, x3)
  BY <1>2, Zenon
<1>5. PICK z : z = <<0, 0>>
  OBVIOUS
<1>6. FrontWith(z, 2, 0)
  <2>1. 0 \in Byte /\ 0 * 256 + 0 = 0
    BY SMT DEF Byte, BASE
  <2> QED
    BY <1>5, <2>1, TwoBytes, ZenonT(40)
<1>7. PICK xd \in Nat : xd = ReceiverSum(d)
  BY SumIsNat, Zenon
<1>8. /\ x1 \in Nat /\ x2 \in Nat /\ x3 \in Nat /\ xo \in Nat /\ k \in Nat
  BY <1>1, <1>3, <1>4, Zenon DEF FrontWith, EvenFront
<1>9. PICK x \in Nat : x = x1 + x2 + x3 + xo + xd
  BY <1>7, <1>8, SMT
<1>10. ASSUME NEW c \in 0 .. WORDS-1, NEW e,
              SegmentOf(e, numbers, offset, window, c, o, d)
       PROVE  Sums(e, 20 + k + Len(d), x + c)
  <2>1. PICK e1 : e1 = numbers \o offset
    OBVIOUS
  <2>2. PICK e2 : e2 = e1 \o window
    OBVIOUS
  <2>3. PICK e3 : e3 = e2 \o Bytes(c)
    OBVIOUS
  <2>4. PICK e4 : e4 = e3 \o z
    OBVIOUS
  <2>5. PICK e5 : e5 = e4 \o o
    OBVIOUS
  <2>6. PICK k5 \in Nat : k5 = 20 + k
    BY <1>8, SMT
  <2>7. e = e5 \o d
    BY <1>5, <1>10, <2>1, <2>2, <2>3, <2>4, <2>5, SMT DEF SegmentOf
  <2>8. /\ Joins(e1, 14, numbers, 12, offset, 2) /\ Joins(e2, 16, e1, 14, window, 2)
        /\ Joins(e3, 18, e2, 16, Bytes(c), 2) /\ Joins(e4, 20, e3, 18, z, 2)
        /\ Joins(e5, k5, e4, 20, o, k)
    BY <2>1, <2>2, <2>3, <2>4, <2>5, <2>6, SMT DEF Joins
  <2>9. FrontWith(Bytes(c), 2, c) /\ c \in Nat
    BY WordFront, WordsType, SMT
  <2>10. FrontWith(e1, 14, x1 + x2)
    BY <1>1, <1>3, <2>8, FrontsJoin, SMT
  <2>11. FrontWith(e2, 16, x1 + x2 + x3)
    BY <1>4, <2>8, <2>10, FrontsJoin, SMT
  <2>12. FrontWith(e3, 18, x1 + x2 + x3 + c)
    BY <2>8, <2>9, <2>11, FrontsJoin, SMT
  <2>13. FrontWith(e4, 20, x1 + x2 + x3 + c + 0)
    BY <1>6, <2>8, <2>12, FrontsJoin, SMT
  <2>14. FrontWith(e5, k5, x1 + x2 + x3 + c + 0 + xo)
    BY <2>8, <2>13, FrontsJoin, SMT
  <2>15. PICK y : y = x1 + x2 + x3 + c + 0 + xo
    OBVIOUS
  <2>16. EvenFront(e5, k5) /\ ReceiverSum(e5) = y
    BY <2>14, <2>15, Zenon DEF FrontWith
  <2>17. /\ e5 \o d \in Seq(Byte) /\ Len(e5 \o d) = k5 + Len(d)
         /\ ReceiverSum(e5 \o d) = ReceiverSum(e5) + ReceiverSum(d)
    BY <2>16, FrontSum, SMT
  <2>18. y + xd = x + c
    BY <1>7, <1>8, <1>9, <2>9, <2>15, SMT
  <2>19. e \in Seq(Byte) /\ Len(e) = k5 + Len(d) /\ ReceiverSum(e) = x + c
    BY <1>7, <2>7, <2>16, <2>17, <2>18, SMT
  <2> QED
    BY <2>6, <2>19, Zenon DEF Sums
<1> QED
  BY <1>10, Zenon

(* A segment of l bytes adds up to x and its checksum.                     *)
LEMMA SegmentSums ==
  ASSUME NEW s, IsOutgoing(s)
  PROVE  \E x \in Nat : \E l \in Nat :
           /\ l <= WORDS - 21
           /\ \A c \in 0 .. WORDS-1 : Sums(Segment(s, c), l, x + c)
<1>1. PICK o : o = IF s.syn THEN SYN_OPTIONS ELSE <<>>
  OBVIOUS
<1>2. PICK k \in {0, 8} : \E y : FrontWith(o, k, y)
  <2>1. CASE s.syn
    <3>1. o = SYN_OPTIONS
      BY <1>1, <2>1, Zenon
    <3> QED
      BY <3>1, SynOptionsFront, Zenon
  <2>2. CASE ~ s.syn
    <3>1. o = <<>>
      BY <1>1, <2>2, Zenon
    <3>2. o \in Seq(Byte) /\ Len(o) = 0 /\ 0 \in Nat /\ 0 % 2 = 0
      BY <3>1, SMT
    <3> QED
      BY <3>2, FrontIs, Zenon
  <2> QED
    BY <2>1, <2>2, Zenon DEF IsOutgoing
<1>3. PICK y : FrontWith(o, k, y)
  BY <1>2, Zenon
<1>4. PICK offset : offset = <<16 * (5 + Len(o) \div 4), s.flags>>
  OBVIOUS
<1>5. IsBytes(offset, 2)
  <2>1. Len(o) = k
    BY <1>3, Zenon DEF FrontWith, EvenFront
  <2>2. PICK b : b = 16 * (5 + k \div 4)
    OBVIOUS
  <2>3. b \in Byte
    BY <2>2, SMT DEF Byte, BASE
  <2>4. offset = <<b, s.flags>>
    BY <1>4, <2>1, <2>2, Zenon
  <2>5. s.flags \in Byte
    BY Zenon DEF IsOutgoing
  <2> QED
    BY <2>3, <2>4, <2>5 DEF IsBytes
<1>6. /\ IsBytes(s.numbers, 12) /\ IsBytes(s.window, 2)
      /\ s.data \in Seq(Byte) /\ Len(s.data) <= MAX_SEGMENT
  BY Zenon DEF IsOutgoing
<1>7. \A c : SegmentOf(Segment(s, c), s.numbers, offset, s.window, c, o, s.data)
  BY <1>1, <1>4, SMT DEF Segment, SegmentOf
<1>8. PICK x \in Nat : \A c \in 0 .. WORDS-1 : \A e :
           SegmentOf(e, s.numbers, offset, s.window, c, o, s.data)
             => Sums(e, 20 + k + Len(s.data), x + c)
  BY <1>3, <1>5, <1>6, PartsSum, Zenon
<1>9. PICK n \in Nat : n = Len(s.data)
  BY <1>6, SMT
<1>10. PICK l \in Nat : l = 20 + k + n
  BY SMT
<1>11. l <= WORDS - 21
  <2>1. MAX_SEGMENT \in 1 .. WORDS - 49 /\ n <= MAX_SEGMENT
    BY <1>6, <1>9, OptionsAssumption, Zenon
  <2> QED
    BY <1>10, <2>1, WordsType, SMT
<1>12. \A c \in 0 .. WORDS-1 : Sums(Segment(s, c), l, x + c)
  BY <1>7, <1>8, <1>9, <1>10, Zenon
<1> QED
  BY <1>11, <1>12, Zenon

PseudoHeader(source, dest, protocol, length) ==
  source \o dest \o <<0, protocol>> \o Bytes(length)

InTwo(u, a, b)     == u = a \o b
InTurn(u, a, b, c) == u = a \o b \o c

(* Three parts are one and two.                                            *)
LEMMA Regroups ==
  ASSUME NEW S, NEW a \in Seq(S), NEW b \in Seq(S), NEW c \in Seq(S),
         NEW u, NEW v, InTurn(u, a, b, c), InTwo(v, b, c)
  PROVE  InTwo(u, a, v)
<1>1. u = (a \o b) \o c /\ v = b \o c
  BY SMT DEF InTurn, InTwo
<1>2. (a \o b) \o c = a \o (b \o c)
  BY ConcatAssociative
<1> QED
  BY <1>1, <1>2, SMT DEF InTwo

(* The pseudo header is an even front: the addresses, then the rest.       *)
LEMMA PseudoFront ==
  ASSUME NEW a, IsBytes(a, 4), NEW b, IsBytes(b, 4), NEW p \in Byte,
         NEW l \in 0 .. WORDS-1
  PROVE  \E adr \in Seq(Byte), end \in Seq(Byte), x \in Nat, y \in Nat :
           /\ InTwo(adr, a, b) /\ ReceiverSum(adr) = x
           /\ InTwo(end, <<0, p>>, Bytes(l)) /\ ReceiverSum(end) = y
           /\ FrontWith(PseudoHeader(a, b, p, l), 12, x + y)
<1>1. PICK f : f = <<0, p>>
  OBVIOUS
<1>2. PICK e1 : e1 = a \o b
  OBVIOUS
<1>3. PICK e2 : e2 = f \o Bytes(l)
  OBVIOUS
<1>4. PICK e3 : e3 = e1 \o e2
  OBVIOUS
<1>5. /\ Joins(e1, 8, a, 4, b, 4) /\ Joins(e2, 4, f, 2, Bytes(l), 2)
      /\ Joins(e3, 12, e1, 8, e2, 4)
  BY <1>2, <1>3, <1>4, SMT DEF Joins
<1>6. FrontWith(f, 2, 0 * 256 + p)
  <2>1. 0 \in Byte
    BY SMT DEF Byte, BASE
  <2> QED
    BY <1>1, <2>1, TwoBytes, Zenon
<1>7. PICK x : FrontWith(e1, 8, x)
  BY <1>5, AddressFront, FrontsJoin, SMT
<1>8. PICK y : FrontWith(e2, 4, y)
  BY <1>5, <1>6, WordFront, FrontsJoin, SMT
<1>9. FrontWith(e3, 12, x + y)
  BY <1>5, <1>7, <1>8, FrontsJoin, SMT
<1>10. e3 = PseudoHeader(a, b, p, l)
  <2>1. f \in Seq(Byte) /\ e1 \in Seq(Byte)
    BY <1>6, <1>7, Zenon DEF FrontWith, EvenFront
  <2>2. Bytes(l) \in Seq(Byte)
    BY BytesOf, Zenon
  <2>3. PICK g \in Seq(Byte) : g = Bytes(l)
    BY <2>2, Zenon
  <2>4. InTurn(PseudoHeader(a, b, p, l), e1, f, g)
    BY <1>1, <1>2, <2>3, SMT DEF PseudoHeader, InTurn
  <2>5. InTwo(e2, f, g) /\ InTwo(e3, e1, e2)
    BY <1>3, <1>4, <2>3, SMT DEF InTwo
  <2>6. InTwo(PseudoHeader(a, b, p, l), e1, e2)
    BY <2>1, <2>4, <2>5, Regroups, Zenon
  <2> QED
    BY <2>5, <2>6, SMT DEF InTwo
<1>11. /\ e1 \in Seq(Byte) /\ ReceiverSum(e1) = x /\ x \in Nat
       /\ e2 \in Seq(Byte) /\ ReceiverSum(e2) = y /\ y \in Nat
  BY <1>7, <1>8, Zenon DEF FrontWith, EvenFront
<1>12. InTwo(e1, a, b) /\ InTwo(e2, <<0, p>>, Bytes(l))
  BY <1>1, <1>2, <1>3, SMT DEF InTwo
<1>13. FrontWith(PseudoHeader(a, b, p, l), 12, x + y)
  BY <1>9, <1>10, Zenon
<1> QED
  BY <1>11, <1>12, <1>13, Zenon

(* The sum of a segment and its pseudo header comes out as all ones.       *)
LEMMA SegmentVerifies ==
  ASSUME NEW s, IsOutgoing(s), NEW c,
         c = SegmentChecksum(ip_addr \o s.dest_ip, TCP, Segment(s, 0))
  PROVE  \E l \in Nat :
           /\ l <= WORDS - 21 /\ Len(Segment(s, c)) = l
           /\ Verifies(PseudoHeader(ip_addr, s.dest_ip, TCP, l) \o Segment(s, c))
<1>1. PICK x \in Nat, l \in Nat :
        l <= WORDS - 21 /\ \A k \in 0 .. WORDS-1 : Sums(Segment(s, k), l, x + k)
  BY SegmentSums, Zenon
<1>2. l \in 0 .. WORDS-1 /\ 0 \in 0 .. WORDS-1 /\ 12 + l \in Nat /\ 12 + l < WORDS
  BY <1>1, WordsType, SMT
<1>3. PICK e : e = Segment(s, 0)
  OBVIOUS
<1>4. e \in Seq(Byte) /\ Len(e) = l /\ ReceiverSum(e) = x
  <2>1. x + 0 = x
    BY SMT
  <2>2. Sums(e, l, x)
    BY <1>1, <1>2, <1>3, <2>1, Zenon
  <2> QED
    BY <2>2, Zenon DEF Sums
<1>5. IsBytes(ip_addr, 4) /\ IsBytes(s.dest_ip, 4) /\ TCP \in Byte
  <2>1. TCP \in Byte
    BY SMT DEF TCP, Byte, BASE
  <2> QED
    BY <2>1, PacketAssumption, Zenon DEF IsOutgoing
<1>6. PICK adr \in Seq(Byte), end \in Seq(Byte), xa \in Nat, xp \in Nat :
        /\ InTwo(adr, ip_addr, s.dest_ip) /\ ReceiverSum(adr) = xa
        /\ InTwo(end, <<0, TCP>>, Bytes(l)) /\ ReceiverSum(end) = xp
        /\ FrontWith(PseudoHeader(ip_addr, s.dest_ip, TCP, l), 12, xa + xp)
  BY <1>2, <1>5, PseudoFront, Zenon
<1>7. adr = ip_addr \o s.dest_ip /\ ReceiverSum(adr) = xa
  BY <1>6, SMT DEF InTwo
<1>8. end = <<0, TCP>> \o Bytes(l) /\ ReceiverSum(end) = xp
  BY <1>6, SMT DEF InTwo
<1>9. PICK p : p = PseudoHeader(ip_addr, s.dest_ip, TCP, l)
  OBVIOUS
<1>10. EvenFront(p, 12) /\ ReceiverSum(p) = xa + xp
  BY <1>6, <1>9, Zenon DEF FrontWith
<1>11. PICK t \in Nat : t = xa + xp + x
  BY SMT
<1>12. c = ip_checksum_final(t)
  <2>1. c = SegmentChecksum(adr, TCP, e)
    BY <1>3, <1>7, SMT
  <2>2. c = ip_checksum_final(ip_checksum_add(ip_checksum_add(
              ip_checksum_add(ip_checksum_init, adr), <<0, TCP>> \o Bytes(Len(e))), e))
    BY <2>1, SMT DEF SegmentChecksum
  <2>3. c = ip_checksum_final(ip_checksum_add(ip_checksum_add(
              ip_checksum_add(0, adr), end), e))
    BY <1>4, <1>8, <2>2, SMT DEF ip_checksum_init
  <2>4. ip_checksum_add(0, adr) = xa
    <3>1. 0 \in Nat /\ 0 + xa = xa
      BY SMT
    <3> QED
      BY <1>7, <3>1, ChecksumAdds, Zenon
  <2>5. ip_checksum_add(xa, end) = xa + xp /\ xa + xp \in Nat
    <3>1. xa + xp \in Nat
      BY SMT
    <3> QED
      BY <1>8, <3>1, ChecksumAdds, Zenon
  <2>6. ip_checksum_add(xa + xp, e) = t
    BY <1>4, <1>11, <2>5, ChecksumAdds, Zenon
  <2> QED
    BY <2>3, <2>4, <2>5, <2>6, Zenon
<1>13. t < WORDS * WORDS
  <2>1. PICK q : q = p \o e
    OBVIOUS
  <2>2. /\ p \o e \in Seq(Byte) /\ Len(p \o e) = 12 + Len(e)
        /\ ReceiverSum(p \o e) = ReceiverSum(p) + ReceiverSum(e)
    BY <1>4, <1>10, FrontSum, SMT
  <2>3. q \in Seq(Byte) /\ Len(q) = 12 + l /\ ReceiverSum(q) = t
    BY <1>4, <1>10, <1>11, <2>1, <2>2, SMT
  <2>4. Bounded65280(t, 12 + l)
    BY <2>3, ReceiverSumType, Zenon
  <2> QED
    BY <1>2, <2>4, SumBelow, Zenon
<1>14. c \in 0 .. WORDS-1 /\ (t + c) % (WORDS - 1) = 0
  BY <1>12, <1>13, FinalVerifies, Zenon
<1>15. PICK z : z = Segment(s, c)
  OBVIOUS
<1>16. z \in Seq(Byte) /\ Len(z) = l /\ ReceiverSum(z) = x + c
  BY <1>1, <1>14, <1>15, Zenon DEF Sums
<1>17. PICK q : q = p \o z
  OBVIOUS
<1>18. ReceiverSum(q) = t + c
  <2>1. ReceiverSum(p \o z) = ReceiverSum(p) + ReceiverSum(z)
    BY <1>10, <1>16, FrontSum, SMT
  <2>2. c \in Nat
    BY <1>14, WordsType, SMT
  <2> QED
    BY <1>10, <1>11, <1>16, <1>17, <2>1, <2>2, SMT
<1>19. Verifies(q)
  BY <1>14, <1>18, Zenon DEF Verifies, WORDS
<1>20. Verifies(PseudoHeader(ip_addr, s.dest_ip, TCP, l) \o Segment(s, c))
  BY <1>9, <1>15, <1>17, <1>19, SMT
<1> QED
  BY <1>1, <1>15, <1>16, <1>20, Zenon

(* A segment goes out in a packet that its receiver accepts.               *)
LEMMA SendsSegment ==
  ASSUME NEW s \in Outgoing, send_tcp_packet(s),
         identification_counter \in 0 .. WORDS-1
  PROVE  /\ \E r : /\ sent' = Append(sent, r) /\ r.type = "ip"
                   /\ r.ip.protocol = TCP /\ Accepted(r)
         /\ identification_counter' = (identification_counter + 1) % WORDS
         /\ UNCHANGED <<handled, clients, segments, scanVars>>
<1>1. IsOutgoing(s)
  BY OutgoingAssumption, Zenon DEF IsOutgoing
<1>2. PICK c : c = SegmentChecksum(ip_addr \o s.dest_ip, TCP, Segment(s, 0))
  OBVIOUS
<1>3. PICK body : body = Segment(s, c)
  OBVIOUS
<1>4. PICK l \in Nat :
        /\ l <= WORDS - 21 /\ Len(Segment(s, c)) = l
        /\ Verifies(PseudoHeader(ip_addr, s.dest_ip, TCP, l) \o Segment(s, c))
  BY <1>1, <1>2, SegmentVerifies, SMT
<1> DEFINE ip == [ihl |-> 5, total_length |-> IP_HEADER + Len(body),
                  identification |-> identification_counter, protocol |-> TCP,
                  source_ip |-> ip_addr, dest_ip |-> s.dest_ip, body |-> body]
           n == ETH_HEADER + ip.total_length
           h == ip_checksum(HeaderBytes(ip))
           r == [dest |-> s.dest, source |-> local_mac, type |-> "ip",
                 length |-> n, ip |-> ip, checksum |-> h]
<1>5. /\ sent' = Append(sent, r)
      /\ identification_counter' = (identification_counter + 1) % WORDS
      /\ UNCHANGED <<handled, clients, segments, scanVars>>
  BY <1>2, <1>3, Zenon DEF send_tcp_packet
<1>6. /\ ip.total_length = IP_HEADER + Len(body) /\ ip.protocol = TCP
      /\ ip.identification = identification_counter /\ ip.source_ip = ip_addr
      /\ ip.dest_ip = s.dest_ip /\ ip.body = body
  BY Zenon
<1>7. h = ip_checksum(HeaderBytes(ip))
  OBVIOUS
<1> HIDE DEF ip, n, h
<1>8. r.type = "ip" /\ r.ip = ip /\ r.checksum = h
  BY SMT
<1> HIDE DEF r
<1>9. IsHeader(ip)
  <2>1. Len(body) = l /\ IP_HEADER + l \in 0 .. WORDS-1
    BY <1>3, <1>4, WordsType, SMT DEF IP_HEADER
  <2>2. TCP \in Byte
    BY SMT DEF TCP, Byte, BASE
  <2>3. IsBytes(ip_addr, 4)
    BY PacketAssumption, Zenon
  <2> QED
    BY <1>1, <1>6, <2>1, <2>2, <2>3, Zenon DEF IsHeader, IsOutgoing
<1>10. Verifies(HeaderBytes(r.ip) \o Bytes(r.checksum))
  BY <1>7, <1>8, <1>9, HeaderVerifies, SMT
<1>11. Verifies(ip.source_ip \o ip.dest_ip \o <<0, ip.protocol>> \o Bytes(Len(ip.body))
                  \o ip.body)
  BY <1>3, <1>4, <1>6, SMT DEF PseudoHeader
<1>12. Accepted(r)
  BY <1>6, <1>8, <1>10, <1>11, SMT DEF Accepted
<1> QED
  BY <1>5, <1>6, <1>8, <1>12, Zenon

(***************************************************************************)
(* What one step does.                                                     *)
(***************************************************************************)
StackType ==
  /\ IsSequence(handled) /\ IsSequence(sent)
  /\ IsSequence(clients) /\ Len(clients) = Len(handled)
  /\ identification_counter \in 0 .. WORDS-1

(* There is room for a frame, so it is one that the assumption is about.   *)
LEMMA FrameIsMeant ==
  ASSUME StackType, NEW f \in Frames(Len(handled)), handle_rx_packet(f)
  PROVE  IsMeant(f, ip_addr, MAX_SEGMENT)
<1>1. PICK n : n = Len(handled)
  OBVIOUS
<1>2. PICK m : m = Len(Carrying(sent))
  OBVIOUS
<1>3. n \in Nat
  BY <1>1, Grows, Zenon DEF StackType
<1>4. m \in Nat
  <2>1. IsSequence(Carrying(sent))
    BY TcpPassed, Zenon DEF StackType, PassesOn
  <2> QED
    BY <1>2, <2>1, Grows, Zenon
<1>5. n + m < MaxPackets
  BY <1>1, <1>2, Zenon DEF handle_rx_packet, Bounded
<1>6. n \in 0 .. MaxPackets
  <2>1. MaxPackets \in Nat
    BY PacketAssumption, Zenon
  <2> QED
    BY <1>3, <1>4, <1>5, <2>1
<1> QED
  BY <1>1, <1>6, PacketAssumption, Zenon

(* The next number of a packet.                                            *)
LEMMA NextNumber ==
  ASSUME NEW n \in 0 .. WORDS-1
  PROVE  (n + 1) % WORDS \in 0 .. WORDS-1
<1>1. n + 1 \in Nat /\ WORDS \in Nat \ {0}
  BY WordsType
<1> HIDE DEF WORDS
<1> QED
  BY <1>1

(* A request is answered, and nothing else; the data of a segment goes on, *)
(* and nothing else.                                                       *)
Handles(f) ==
  /\ handled' = Append(handled, f) /\ clients' = Append(clients, remote)
  /\ IF IsRequest(f)
     THEN \E r : sent' = Append(sent, r) /\ IsAnswer(r) /\ Answers(r, f) /\ Accepted(r)
     ELSE sent' = sent
  /\ segments' = IF IsDataOf(f, remote) THEN Append(segments, f.meant.data)
                 ELSE segments
  /\ identification_counter' \in 0 .. WORDS-1
  /\ \/ UNCHANGED scanVars
     \/ \E bytes : HoldsOptions(bytes, f.meant.list) /\ ScanOptions(f.meant.list, bytes)

(* What a step for a frame does, whatever the frame is.                    *)
LEMMA FrameHandled ==
  ASSUME StackType, NEW f \in Frames(Len(handled)), handle_rx_packet(f)
  PROVE  Handles(f)
<1>1. IsMeant(f, ip_addr, MAX_SEGMENT)
  BY FrameIsMeant, Zenon
<1>2. handled' = Append(handled, f) /\ clients' = Append(clients, remote)
  BY Dispatch, Zenon
<1>3. identification_counter \in 0 .. WORDS-1
  BY Zenon DEF StackType
<1>4. CASE f.meant.kind = "arp"
  <2>1. /\ IsRequest(f) /\ ~ IsDataOf(f, remote)
    BY <1>4, Zenon DEF IsRequest, IsDataOf
  <2>2. PICK r : sent' = Append(sent, r) /\ r.type = "arp" /\ Answers(r, f)
    BY <1>1, <1>4, AnswersArp, Zenon
  <2>3. UNCHANGED <<identification_counter, segments, scanVars>>
    BY <1>1, <1>4, AnswersArp, Zenon
  <2>4. IsAnswer(r) /\ Accepted(r)
    BY <2>2, Zenon DEF IsAnswer, Accepted
  <2> QED
    BY <1>2, <1>3, <2>1, <2>2, <2>3, <2>4, Zenon DEF Handles
<1>5. CASE f.meant.kind = "ping"
  <2>1. /\ IsRequest(f) /\ ~ IsDataOf(f, remote)
    BY <1>5, Zenon DEF IsRequest, IsDataOf
  <2>2. /\ \E r : /\ sent' = Append(sent, r) /\ r.type = "ip" /\ r.ip.protocol = ICMP
                  /\ Answers(r, f) /\ Accepted(r)
        /\ identification_counter' = (identification_counter + 1) % WORDS
        /\ UNCHANGED <<segments, scanVars>>
    BY <1>1, <1>3, <1>5, AnswersPing, Zenon
  <2>3. PICK r : /\ sent' = Append(sent, r) /\ r.ip.protocol = ICMP
                 /\ Answers(r, f) /\ Accepted(r)
    BY <2>2, Zenon
  <2>4. IsAnswer(r)
    BY <2>3, Zenon DEF IsAnswer
  <2>5. identification_counter' \in 0 .. WORDS-1
    BY <1>3, <2>2, NextNumber, Zenon
  <2> QED
    BY <1>2, <2>1, <2>2, <2>3, <2>4, <2>5, Zenon DEF Handles
<1>6. CASE f.meant.kind = "tcp" /\ IsDataOf(f, remote)
  <2>1. ~ IsRequest(f)
    BY <1>6, Zenon DEF IsRequest
  <2>2. /\ segments' = Append(segments, f.meant.data)
        /\ UNCHANGED <<identification_counter, sent, scanVars>>
    BY <1>1, <1>6, TakesData, Zenon
  <2> QED
    BY <1>2, <1>3, <1>6, <2>1, <2>2, Zenon DEF Handles
<1>7. CASE f.meant.kind = "syn" /\ remote = NONE
  <2>1. ~ IsRequest(f) /\ ~ IsDataOf(f, remote)
    BY <1>7, Zenon DEF IsRequest, IsDataOf
  <2>2. /\ \E bytes : HoldsOptions(bytes, f.meant.list) /\ ScanOptions(f.meant.list, bytes)
        /\ UNCHANGED <<identification_counter, sent, segments>>
    BY <1>1, <1>7, TakesSyn, Zenon
  <2> QED
    BY <1>2, <1>3, <2>1, <2>2, Zenon DEF Handles
<1>8. ASSUME ~ IsRequest(f), ~ IsDataOf(f, remote),
             UNCHANGED <<identification_counter, sent, segments, scanVars>>
      PROVE  Handles(f)
  BY <1>2, <1>3, <1>8, Zenon DEF Handles
<1>9. CASE f.meant.kind = "tcp" /\ ~ IsDataOf(f, remote)
  <2>1. ~ IsRequest(f)
    BY <1>9, Zenon DEF IsRequest
  <2>2. /\ IsSegment(f) /\ Carries(f.made.message, MAX_SEGMENT)
        /\ f.meant.client = [ip |-> f.ip.source_ip, port |-> SubSeq(f.made.message, 1, 2)]
    BY <1>1, <1>9, Zenon DEF IsMeant
  <2>3. ~ Opens(f.made.message) /\ remote # f.meant.client
    BY <1>9, <2>2, Zenon DEF IsDataOf, Opens, Carries
  <2>4. UNCHANGED <<identification_counter, sent, segments, scanVars>>
    BY <2>2, <2>3, IgnoresStray, Zenon
  <2> QED
    BY <1>8, <1>9, <2>1, <2>4, Zenon
<1>10. CASE f.meant.kind = "syn" /\ remote # NONE
  <2>1. ~ IsRequest(f) /\ ~ IsDataOf(f, remote)
    BY <1>10, Zenon DEF IsRequest, IsDataOf
  <2>2. IsSegment(f) /\ Opens(f.made.message)
    BY <1>1, <1>10, Zenon DEF IsMeant
  <2>3. ~ Carries(f.made.message, MAX_SEGMENT)
    BY <2>2, Zenon DEF Opens, Carries
  <2>4. UNCHANGED <<identification_counter, sent, segments, scanVars>>
    BY <1>10, <2>2, <2>3, IgnoresStray, Zenon
  <2> QED
    BY <1>8, <2>1, <2>4, Zenon
<1>11. CASE f.meant.kind = "other"
  <2>1. ~ IsRequest(f) /\ ~ IsDataOf(f, remote)
    BY <1>11, Zenon DEF IsRequest, IsDataOf
  <2>2. UNCHANGED <<identification_counter, sent, segments, scanVars>>
    BY <1>1, <1>11, IgnoresOther, Zenon
  <2> QED
    BY <1>8, <2>1, <2>2, Zenon
<1> QED
  BY <1>1, <1>4, <1>5, <1>6, <1>7, <1>9, <1>10, <1>11, Zenon DEF IsMeant

(* The type invariant is inductive.                                        *)
LEMMA TypeHolds == Spec => []StackType
<1>1. Init => StackType
  <2> SUFFICES ASSUME Init
               PROVE  StackType
    OBVIOUS
  <2>1. IsSequence(<<>>)
    <3>1. <<>> \in Seq({})
      BY SMT
    <3> QED
      BY <3>1, SequenceIs, Zenon
  <2>2. 0 \in 0 .. WORDS-1 /\ WORDS - 1 \in 0 .. WORDS-1
    BY WordsType, SMT
  <2>3. identification_counter \in 0 .. WORDS-1
    BY <2>2, Zenon DEF Init
  <2> QED
    BY <2>1, <2>3, Zenon DEF Init, StackType
<1>2. StackType /\ [Next]_vars => StackType'
  <2> SUFFICES ASSUME StackType, [Next]_vars
               PROVE  StackType'
    OBVIOUS
  <2>1. CASE UNCHANGED packetVars
    BY <2>1, Zenon DEF StackType, packetVars
  <2>2. ASSUME NEW f \in Frames(Len(handled)), handle_rx_packet(f)
        PROVE  StackType'
    <3>1. Handles(f)
      BY <2>2, FrameHandled, Zenon
    <3>2. handled' = Append(handled, f) /\ identification_counter' \in 0 .. WORDS-1
      BY <3>1, Zenon DEF Handles
    <3>3. sent' = sent \/ \E r : sent' = Append(sent, r)
      BY <3>1, Zenon DEF Handles
    <3>4. IsSequence(handled') /\ IsSequence(sent')
      BY <3>2, <3>3, Grows, Zenon DEF StackType
    <3>5. clients' = Append(clients, remote)
      BY <3>1, Zenon DEF Handles
    <3>6. /\ IsSequence(clients') /\ Len(clients') = Len(clients) + 1
          /\ Len(handled') = Len(handled) + 1
      BY <3>2, <3>5, Grows, Zenon DEF StackType
    <3>7. Len(clients') = Len(handled')
      BY <3>6, Zenon DEF StackType
    <3> QED
      BY <3>2, <3>4, <3>6, <3>7, Zenon DEF StackType
  <2>3. ASSUME NEW s \in Outgoing, send_tcp_packet(s)
        PROVE  StackType'
    <3>1. identification_counter \in 0 .. WORDS-1
      BY Zenon DEF StackType
    <3>2. /\ \E r : sent' = Append(sent, r)
          /\ identification_counter' = (identification_counter + 1) % WORDS
          /\ handled' = handled /\ clients' = clients
      BY <2>3, <3>1, SendsSegment, Zenon
    <3>3. identification_counter' \in 0 .. WORDS-1
      BY <3>1, <3>2, NextNumber, Zenon
    <3>4. IsSequence(handled') /\ IsSequence(sent')
      BY <3>2, Grows, Zenon DEF StackType
    <3> QED
      BY <3>2, <3>3, <3>4, Zenon DEF StackType
  <2> QED
    BY <2>1, <2>2, <2>3, Zenon DEF Next, Scan, Leave, vars, packetVars
<1> QED
  BY <1>1, <1>2, PTL DEF Spec

(***************************************************************************)
(* The packets of a behaviour.                                             *)
(***************************************************************************)
(* Nothing has been handled or sent at the start.                          *)
LEMMA NoneYet ==
  /\ Requests(<<>>) = <<>> /\ Replies(<<>>) = <<>> /\ Carriers(<<>>, <<>>) = <<>>
<1>1. \A at : Those(<<>>, at) = <<>>
  <2> TAKE at
  <2>1. [i \in 1 .. Len(<<>>) |-> IF i \in at THEN <<(<<>>)[i]>> ELSE <<>>] = <<>>
    OBVIOUS
  <2>2. FlattenSeq(<<>>) = <<>>
    BY DEF FlattenSeq
  <2> QED
    BY <2>1, <2>2 DEF Those
<1> QED
  BY <1>1, Zenon DEF Requests, Replies, Carriers

(* u is s, of n elements, and x behind it.                                 *)
OneMore(u, s, x, n) == IsSequence(s) /\ u = Append(s, x) /\ n = Len(s)

Grown(u, s, x, n) ==
  /\ n \in Nat /\ Len(u) = n + 1 /\ DOMAIN s = 1 .. n /\ DOMAIN u = 1 .. n + 1
  /\ \A i \in 1 .. n : u[i] = s[i]
  /\ u[n + 1] = x

(* What Append makes of a sequence.                                        *)
LEMMA GrownBy ==
  ASSUME NEW s, NEW x, NEW u, NEW n, OneMore(u, s, x, n)
  PROVE  Grown(u, s, x, n)
<1>1. IsSequence(s) /\ u = Append(s, x) /\ n = Len(s)
  BY Zenon DEF OneMore
<1>2. /\ IsSequence(Append(s, x)) /\ Len(s) \in Nat /\ Len(Append(s, x)) = Len(s) + 1
      /\ SameFront(s, Append(s, x), Len(s)) /\ Append(s, x)[Len(s) + 1] = x
  BY <1>1, Grows, Zenon
<1>3. /\ IsSequence(u) /\ n \in Nat /\ Len(u) = n + 1
      /\ SameFront(s, u, n) /\ u[n + 1] = x
  BY <1>1, <1>2, Zenon
<1>4. DOMAIN s = 1 .. n
  <2>1. PICK S : S = {s[i] : i \in 1 .. Len(s)}
    OBVIOUS
  <2>2. s \in Seq(S)
    BY <1>1, <2>1, Zenon DEF IsSequence
  <2> QED
    BY <1>1, <2>2
<1>5. DOMAIN u = 1 .. n + 1
  <2>1. PICK S : S = {u[i] : i \in 1 .. Len(u)}
    OBVIOUS
  <2>2. u \in Seq(S)
    BY <1>3, <2>1, Zenon DEF IsSequence
  <2> QED
    BY <1>3, <2>2
<1>6. \A i \in 1 .. n : u[i] = s[i]
  BY <1>3 DEF SameFront
<1> QED
  BY <1>3, <1>4, <1>5, <1>6 DEF Grown

(* Requests and replies, one for one.                                      *)
Paired(p, q) ==
  Len(p) = Len(q) /\ \A i \in DOMAIN p : Answers(p[i], q[i])

(* Two sequences that pair up still do with one more pair.                 *)
LEMMA PairsGrow ==
  ASSUME NEW p, IsSequence(p), NEW q, IsSequence(q), Paired(p, q),
         NEW r, NEW f, Answers(r, f)
  PROVE  Paired(Append(p, r), Append(q, f))
<1>1. PICK n : n = Len(p)
  OBVIOUS
<1>2. PICK u : u = Append(p, r)
  OBVIOUS
<1>3. PICK v : v = Append(q, f)
  OBVIOUS
<1>4. OneMore(u, p, r, n) /\ OneMore(v, q, f, n)
  BY <1>1, <1>2, <1>3, Zenon DEF OneMore, Paired
<1>5. /\ n \in Nat /\ Len(u) = n + 1 /\ (\A i \in 1 .. n : u[i] = p[i])
      /\ u[n + 1] = r /\ DOMAIN p = 1 .. n /\ DOMAIN u = 1 .. n + 1
  BY <1>4, GrownBy DEF Grown
<1>6. Len(q) = n
  BY <1>1, Zenon DEF Paired
<1>7. Len(v) = n + 1 /\ (\A i \in 1 .. n : v[i] = q[i]) /\ v[n + 1] = f
  BY <1>4, GrownBy DEF Grown
<1>9. \A i \in DOMAIN u : Answers(u[i], v[i])
  <2> TAKE i \in DOMAIN u
  <2>1. i \in 1 .. n \/ i = n + 1
    BY <1>5
  <2>2. CASE i \in 1 .. n
    <3>1. Answers(p[i], q[i])
      BY <1>5, <2>2, Zenon DEF Paired
    <3> QED
      BY <1>5, <1>7, <2>2, <3>1, Zenon
  <2>3. CASE i = n + 1
    BY <1>5, <1>7, <2>3, Zenon
  <2> QED
    BY <2>1, <2>2, <2>3
<1> QED
  BY <1>2, <1>3, <1>5, <1>7, <1>9, Zenon DEF Paired

(* A step answers the request it handles, and no other.                    *)
LEMMA AnsweredStep ==
  ASSUME StackType, EachAnswered, [Next]_vars
  PROVE  EachAnswered'
<1>1. IsSequence(handled) /\ IsSequence(sent)
  BY Zenon DEF StackType
<1>2. Paired(Replies(sent), Requests(handled))
  BY Zenon DEF EachAnswered, Paired
<1>3. CASE UNCHANGED packetVars
  BY <1>3, Zenon DEF EachAnswered, packetVars
<1>4. ASSUME NEW f \in Frames(Len(handled)), handle_rx_packet(f)
      PROVE  Paired(Replies(sent'), Requests(handled'))
  <2>1. Handles(f)
    BY <1>4, FrameHandled, Zenon
  <2>2. PassesOn(Requests(handled), Requests(handled'), f, IsRequest(f))
    BY <1>1, <2>1, RequestPassed, Zenon DEF Handles
  <2>3. CASE IsRequest(f)
    <3>1. PICK r : sent' = Append(sent, r) /\ IsAnswer(r) /\ Answers(r, f)
      BY <2>1, <2>3, Zenon DEF Handles
    <3>2. PassesOn(Replies(sent), Replies(sent'), r, IsAnswer(r))
      BY <1>1, <3>1, ReplyPassed, Zenon
    <3>3. /\ Replies(sent') = Append(Replies(sent), r) /\ IsSequence(Replies(sent))
          /\ Requests(handled') = Append(Requests(handled), f)
          /\ IsSequence(Requests(handled))
      BY <2>2, <2>3, <3>1, <3>2, Zenon DEF PassesOn
    <3> QED
      BY <1>2, <3>1, <3>3, PairsGrow, Zenon
  <2>4. CASE ~ IsRequest(f)
    <3>1. sent' = sent /\ Requests(handled') = Requests(handled)
      BY <2>1, <2>2, <2>4, Zenon DEF Handles, PassesOn
    <3> QED
      BY <1>2, <3>1, Zenon
  <2> QED
    BY <2>3, <2>4, Zenon
<1>5. ASSUME NEW s \in Outgoing, send_tcp_packet(s)
      PROVE  Paired(Replies(sent'), Requests(handled'))
  <2>1. /\ \E r : sent' = Append(sent, r) /\ r.type = "ip" /\ r.ip.protocol = TCP
        /\ handled' = handled
    BY <1>5, SendsSegment, Zenon DEF StackType
  <2>2. PICK r : sent' = Append(sent, r) /\ r.type = "ip" /\ r.ip.protocol = TCP
    BY <2>1, Zenon
  <2>3. ~ IsAnswer(r)
    <3>1. TCP # ICMP
      BY SMT DEF TCP, ICMP
    <3> QED
      BY <2>2, <3>1 DEF IsAnswer
  <2>4. PassesOn(Replies(sent), Replies(sent'), r, IsAnswer(r))
    BY <1>1, <2>2, ReplyPassed, Zenon
  <2> QED
    BY <1>2, <2>1, <2>3, <2>4, Zenon DEF PassesOn
<1>6. Paired(Replies(sent'), Requests(handled')) => EachAnswered'
  BY Zenon DEF EachAnswered, Paired
<1> QED
  BY <1>3, <1>4, <1>5, <1>6, Zenon DEF Next, Scan, Leave, vars, packetVars

(* Every ARP request and every ping gets its own answer, in order, once,   *)
(* and back to the host that asked, with the bytes it sent, whatever else  *)
(* is handled and sent in between; nothing else gets one: handle_arp,      *)
(* handle_ping and handle_rx_packet, for messages of every length.         *)
THEOREM RequestsAnswered == Spec => []EachAnswered
<1>1. Init => EachAnswered
  <2> SUFFICES ASSUME Init
               PROVE  EachAnswered
    OBVIOUS
  <2>1. Replies(sent) = <<>> /\ Requests(handled) = <<>>
    BY NoneYet, Zenon DEF Init
  <2>2. PICK none : none = <<>>
    OBVIOUS
  <2>3. \A i \in DOMAIN none : FALSE
    BY <2>2
  <2> QED
    BY <2>1, <2>2, <2>3, Zenon DEF EachAnswered
<1>2. StackType /\ EachAnswered /\ [Next]_vars => EachAnswered'
  BY AnsweredStep, Zenon
<1> QED
  BY <1>1, <1>2, TypeHolds, PTL DEF Spec

(* Whatever a step sends, a receiver accepts.                              *)
LEMMA VerifiesStep ==
  ASSUME StackType, SentVerifies, [Next]_vars
  PROVE  SentVerifies'
<1>1. IsSequence(sent) /\ \A i \in DOMAIN sent : Accepted(sent[i])
  BY Zenon DEF StackType, SentVerifies, Accepted
<1>2. sent' = sent \/ \E r : sent' = Append(sent, r) /\ Accepted(r)
  <2>1. CASE UNCHANGED packetVars
    BY <2>1, Zenon DEF packetVars
  <2>2. ASSUME NEW f \in Frames(Len(handled)), handle_rx_packet(f)
        PROVE  sent' = sent \/ \E r : sent' = Append(sent, r) /\ Accepted(r)
    BY <2>2, FrameHandled, Zenon DEF Handles
  <2>3. ASSUME NEW s \in Outgoing, send_tcp_packet(s)
        PROVE  \E r : sent' = Append(sent, r) /\ Accepted(r)
    BY <2>3, SendsSegment, Zenon DEF StackType
  <2> QED
    BY <2>1, <2>2, <2>3, Zenon DEF Next, Scan, Leave, vars, packetVars
<1>3. \A i \in DOMAIN sent' : Accepted(sent'[i])
  <2>1. ASSUME NEW r, sent' = Append(sent, r), Accepted(r)
        PROVE  \A i \in DOMAIN sent' : Accepted(sent'[i])
    <3>1. PICK u : u = sent'
      OBVIOUS
    <3>2. PICK n : n = Len(sent)
      OBVIOUS
    <3>3. OneMore(u, sent, r, n)
      BY <1>1, <2>1, <3>1, <3>2, Zenon DEF OneMore
    <3>4. /\ n \in Nat /\ (\A i \in 1 .. n : u[i] = sent[i]) /\ u[n + 1] = r
          /\ DOMAIN sent = 1 .. n /\ DOMAIN u = 1 .. n + 1
      BY <3>3, GrownBy DEF Grown
    <3>5. \A i \in DOMAIN u : i \in DOMAIN sent \/ i = n + 1
      BY <3>4
    <3> QED
      BY <1>1, <2>1, <3>1, <3>4, <3>5, Zenon
  <2> QED
    BY <1>1, <1>2, <2>1, Zenon
<1> QED
  BY <1>3, Zenon DEF SentVerifies, Accepted

(* Every packet that is sent, answer or segment, carries an IP checksum    *)
(* and an ICMP or TCP checksum that its receiver accepts: ip_checksum,     *)
(* hton_ip, handle_ping and send_tcp_packet, for bytes of every value.     *)
THEOREM ChecksumsAccepted == Spec => []SentVerifies
<1>1. Init => SentVerifies
  <2> SUFFICES ASSUME Init
               PROVE  SentVerifies
    OBVIOUS
  <2>1. PICK none : none = <<>>
    OBVIOUS
  <2>2. \A i \in DOMAIN none : FALSE
    BY <2>1
  <2>3. sent = none
    BY <2>1, Zenon DEF Init
  <2> QED
    BY <2>2, <2>3, Zenon DEF SentVerifies
<1>2. StackType /\ SentVerifies /\ [Next]_vars => SentVerifies'
  BY VerifiesStep, Zenon
<1> QED
  BY <1>1, <1>2, TypeHolds, PTL DEF Spec

(* What the carriers c carry.                                              *)
DataOf(c) == [i \in 1 .. Len(c) |-> c[i].meant.data]

(* One carrier more carries one segment more.                              *)
LEMMA DataGrows ==
  ASSUME NEW c, IsSequence(c), NEW f
  PROVE  Append(DataOf(c), f.meant.data) = DataOf(Append(c, f))
<1>1. PICK n : n = Len(c)
  OBVIOUS
<1>2. PICK u : u = Append(c, f)
  OBVIOUS
<1>3. n \in Nat /\ Len(u) = n + 1 /\ (\A i \in 1 .. n : u[i] = c[i]) /\ u[n + 1] = f
  <2>1. OneMore(u, c, f, n)
    BY <1>1, <1>2, Zenon DEF OneMore
  <2> QED
    BY <2>1, GrownBy DEF Grown
<1>4. PICK x : x = f.meant.data
  OBVIOUS
<1>5. PICK t : t = [i \in 1 .. n |-> c[i].meant.data]
  OBVIOUS
<1>6. PICK w : w = [i \in 1 .. n + 1 |-> u[i].meant.data]
  OBVIOUS
<1>7. \A i \in 1 .. n + 1 : w[i] = IF i \in 1 .. n THEN t[i] ELSE x
  BY <1>3, <1>4, <1>5, <1>6
<1>8. PICK S : S = {t[i] : i \in 1 .. n} \cup {x}
  OBVIOUS
<1>9. t \in Seq(S) /\ Len(t) = n
  <2>1. \A i \in 1 .. n : t[i] \in S
    BY <1>8
  <2>2. t = [i \in 1 .. n |-> t[i]]
    BY <1>5
  <2>3. t \in [1 .. n -> S]
    BY <2>1, <2>2, Zenon
  <2>4. n \in Nat
    BY <1>3
  <2> QED
    BY <2>3, <2>4
<1>10. Append(t, x) = w
  <2>1. PICK v : v = Append(t, x)
    OBVIOUS
  <2>2. OneMore(v, t, x, n)
    BY <1>9, <2>1, SequenceIs, Zenon DEF OneMore
  <2>3. /\ \A i \in 1 .. n : v[i] = t[i]
        /\ v[n + 1] = x /\ DOMAIN v = 1 .. n + 1
    BY <2>2, GrownBy DEF Grown
  <2>4. \A i \in 1 .. n + 1 : v[i] = w[i]
    BY <1>3, <1>7, <2>3
  <2>5. w = [i \in 1 .. n + 1 |-> w[i]]
    BY <1>6
  <2>6. v = [i \in DOMAIN v |-> v[i]]
    <3>1. v \in Seq(S \cup {x})
      BY <1>9, <2>1
    <3> QED
      BY <3>1
  <2>7. v = w
    BY <2>3, <2>4, <2>5, <2>6, Zenon
  <2> QED
    BY <2>1, <2>7, Zenon
<1>11. DataOf(c) = t
  BY <1>1, <1>5, Zenon DEF DataOf
<1>12. DataOf(u) = w
  BY <1>3, <1>6, Zenon DEF DataOf
<1> QED
  BY <1>2, <1>4, <1>10, <1>11, <1>12, Zenon

(* A step hands on the segment its frame carries.                          *)
LEMMA SegmentsStep ==
  ASSUME StackType, SegmentsExact, [Next]_vars
  PROVE  SegmentsExact'
<1>1. /\ IsSequence(handled) /\ IsSequence(clients) /\ Len(clients) = Len(handled)
      /\ segments = DataOf(Carriers(handled, clients))
  BY Zenon DEF StackType, SegmentsExact, DataOf
<1>2. CASE UNCHANGED packetVars
  BY <1>2, Zenon DEF SegmentsExact, packetVars
<1>3. ASSUME NEW f \in Frames(Len(handled)), handle_rx_packet(f)
      PROVE  segments' = DataOf(Carriers(handled', clients'))
  <2>1. Handles(f)
    BY <1>3, FrameHandled, Zenon
  <2>2. PassesOn(Carriers(handled, clients), Carriers(handled', clients'), f,
                 IsDataOf(f, remote))
    BY <1>1, <2>1, DataPassed, Zenon DEF Handles
  <2>3. CASE IsDataOf(f, remote)
    <3>1. segments' = Append(segments, f.meant.data)
      BY <2>1, <2>3, Zenon DEF Handles
    <3>2. /\ IsSequence(Carriers(handled, clients))
          /\ Carriers(handled', clients') = Append(Carriers(handled, clients), f)
      BY <2>2, <2>3, Zenon DEF PassesOn
    <3> QED
      BY <1>1, <3>1, <3>2, DataGrows, Zenon
  <2>4. CASE ~ IsDataOf(f, remote)
    BY <1>1, <2>1, <2>2, <2>4, Zenon DEF Handles, PassesOn
  <2> QED
    BY <2>3, <2>4, Zenon
<1>4. ASSUME NEW s \in Outgoing, send_tcp_packet(s)
      PROVE  segments' = DataOf(Carriers(handled', clients'))
  <2>1. segments' = segments /\ handled' = handled /\ clients' = clients
    BY <1>4, SendsSegment, Zenon DEF StackType
  <2> QED
    BY <1>1, <2>1, Zenon
<1>5. segments' = DataOf(Carriers(handled', clients')) => SegmentsExact'
  BY Zenon DEF SegmentsExact, DataOf
<1> QED
  BY <1>2, <1>3, <1>4, <1>5, Zenon DEF Next, Scan, Leave, vars, packetVars

(* The connection gets the bytes of every segment of its client, in order, *)
(* without the options of its headers and the padding of its frame, and    *)
(* nothing of any other frame, whatever its ports, addresses and flags     *)
(* are: ntoh_ip, handle_ip_packet and handle_tcp_packet, for headers and   *)
(* data of every length.                                                   *)
THEOREM SegmentsHandedOn == Spec => []SegmentsExact
<1>1. Init => SegmentsExact
  <2> SUFFICES ASSUME Init
               PROVE  SegmentsExact
    OBVIOUS
  <2>1. Carriers(handled, clients) = <<>> /\ segments = <<>>
    BY NoneYet, Zenon DEF Init
  <2>2. PICK none : none = <<>>
    OBVIOUS
  <2>3. none = [i \in 1 .. Len(none) |-> none[i].meant.data]
    BY <2>2
  <2> QED
    BY <2>1, <2>2, <2>3, Zenon DEF SegmentsExact
<1>2. StackType /\ SegmentsExact /\ [Next]_vars => SegmentsExact'
  BY SegmentsStep, Zenon
<1> QED
  BY <1>1, <1>2, TypeHolds, PTL DEF Spec

(***************************************************************************)
(* The options of a SYN, one after the other.                              *)
(***************************************************************************)
LEMMA EncodeIs ==
  ASSUME NEW o, IsOption(o)
  PROVE  /\ Encode(o) \in Seq(Byte) /\ Encode(o)[1] = o.kind
         /\ o.kind \in {END_OF_LIST, NOP} => Len(Encode(o)) = 1
         /\ o.kind \notin {END_OF_LIST, NOP} =>
              /\ Len(Encode(o)) = 2 + Len(o.value) /\ Encode(o)[2] = 2 + Len(o.value)
              /\ \A x \in 1 .. Len(o.value) : Encode(o)[2 + x] = o.value[x]
<1>1. o.kind \in Byte /\ o.value \in Seq(Byte) /\ Len(o.value) <= BASE - 3
  BY Zenon DEF IsOption
<1>2. PICK v \in Seq(Byte) : v = o.value
  BY <1>1, Zenon
<1>3. PICK n \in Nat : n = Len(v)
  OBVIOUS
<1>4. PICK k \in Byte : k = o.kind
  BY <1>1, Zenon
<1>5. PICK e : e = Encode(o)
  OBVIOUS
<1>6. e = IF k \in {END_OF_LIST, NOP} THEN <<k>> ELSE <<k, 2 + n>> \o v
  BY <1>2, <1>3, <1>4, <1>5, SMT DEF Encode
<1>7. 2 + n \in Byte
  <2>1. n <= BASE - 3
    BY <1>1, <1>2, <1>3, Zenon
  <2> QED
    BY <2>1, SMT DEF Byte, BASE
<1>8. CASE k \in {END_OF_LIST, NOP}
  <2>1. e = <<k>>
    BY <1>6, <1>8, SMT
  <2>2. e \in Seq(Byte) /\ e[1] = k /\ Len(e) = 1
    BY <2>1
  <2> QED
    BY <1>4, <1>5, <1>8, <2>2, Zenon
<1>9. CASE k \notin {END_OF_LIST, NOP}
  <2>1. PICK h : h = <<k, 2 + n>>
    OBVIOUS
  <2>2. h \in Seq(Byte) /\ Len(h) = 2 /\ h[1] = k /\ h[2] = 2 + n
    BY <1>7, <2>1
  <2>3. e = h \o v
    BY <1>6, <1>9, <2>1, SMT
  <2>4. /\ e \in Seq(Byte) /\ Len(e) = 2 + n /\ e[1] = k /\ e[2] = 2 + n
        /\ \A x \in 1 .. n : e[2 + x] = v[x]
    <3>1. PICK two \in Nat : two = Len(h)
      BY <2>2
    <3>2. /\ e \in Seq(Byte) /\ Len(e) = two + n
          /\ \A x \in 1 .. two : e[x] = h[x]
          /\ \A x \in 1 .. n : e[two + x] = v[x]
      <4>1. h \in Seq(Byte)
        BY <2>2, Zenon
      <4> QED
        BY <1>3, <2>3, <3>1, <4>1
    <3>3. two = 2 /\ 1 \in 1 .. two /\ 2 \in 1 .. two
      BY <2>2, <3>1
    <3> QED
      BY <2>2, <3>2, <3>3, Zenon
  <2> QED
    BY <1>2, <1>3, <1>4, <1>5, <1>9, <2>4, Zenon
<1> QED
  BY <1>8, <1>9, Zenon

(* A list of options.                                                      *)
IsList(l, n) ==
  n = Len(l) /\ n \in Nat /\ \A i \in 1 .. n : IsOption(l[i])

(* e is what options 1 to i put on the wire, h what they and o do.         *)
Adjoins(e, h, o) ==
  /\ e \in Seq(Byte) /\ h \in Seq(Byte) /\ Encode(o) \in Seq(Byte)
  /\ Len(h) = Len(e) + Len(Encode(o))
  /\ \A x \in 1 .. Len(e) : h[x] = e[x]
  /\ \A x \in 1 .. Len(Encode(o)) : h[Len(e) + x] = Encode(o)[x]

(* The options up to i are bytes.                                          *)
LEMMA EncodedBytes ==
  ASSUME NEW l, NEW n, IsList(l, n), NEW i \in 0 .. n
  PROVE  Encoded(l, i) \in Seq(Byte)
<1> DEFINE s == [j \in 1 .. i |-> Encode(l[j])]
<1>1. i \in Nat /\ \A j \in 1 .. i : j \in 1 .. n
  BY DEF IsList
<1>2. \A j \in 1 .. i : s[j] \in Seq(Byte)
  <2> TAKE j \in 1 .. i
  <2>1. IsOption(l[j])
    BY <1>1, Zenon DEF IsList
  <2>2. Encode(l[j]) \in Seq(Byte)
    BY <2>1, EncodeIs, Zenon
  <2> QED
    BY <2>2, Zenon
<1>3. s \in [1 .. i -> Seq(Byte)]
  BY <1>2, Zenon
<1>4. Encoded(l, i) = FlattenSeq(s)
  BY Zenon DEF Encoded
<1> HIDE DEF s
<1>5. s \in Seq(Seq(Byte))
  BY <1>1, <1>3
<1>6. FlattenSeq(s) \in Seq(Byte)
  BY <1>5, FlattenAt, Zenon
<1> QED
  BY <1>4, <1>6, Zenon

(* The next option follows the options before it.                          *)
LEMMA EncodedNext ==
  ASSUME NEW l, NEW n, IsList(l, n), NEW i, NEW m, i \in 0 .. n, m \in 1 .. n, m - 1 = i
  PROVE  Adjoins(Encoded(l, i), Encoded(l, m), l[m])
<1> DEFINE s == [j \in 1 .. i |-> Encode(l[j])]
           t == [j \in 1 .. m |-> Encode(l[j])]
<1>1. i \in Nat /\ m \in Nat /\ m \in 1 .. m /\ \A j \in 1 .. i : j \in 1 .. m
  BY DEF IsList
<1>2. IsOption(l[m]) /\ n \in Nat
  BY Zenon DEF IsList
<1>3. PICK o : o = l[m]
  OBVIOUS
<1>4. Encode(o) \in Seq(Byte)
  BY <1>2, <1>3, EncodeIs, Zenon
<1>5. Longer(s, t, i, m, Byte)
  <2>1. Len(s) = i /\ Len(t) = m /\ (i = 0 => s = <<>>)
    BY <1>1
  <2>2. SameFront(s, t, i)
    BY <1>1, Zenon DEF SameFront
  <2>3. t[m] \in Seq(Byte)
    BY <1>1, <1>3, <1>4, Zenon
  <2> HIDE DEF s, t
  <2> QED
    BY <1>1, <2>1, <2>2, <2>3, Zenon DEF Longer
<1>6. Encoded(l, i) = FlattenSeq(s) /\ Encoded(l, m) = FlattenSeq(t) /\ t[m] = Encode(o)
  BY <1>1, <1>3, Zenon DEF Encoded
<1> HIDE DEF s, t
<1>7. FlattenSeq(t) = FlattenSeq(s) \o t[m]
  BY <1>5, FlattenAppend, SMT
<1>8. PICK e \in Seq(Byte) : e = Encoded(l, i)
  BY EncodedBytes, Zenon
<1>9. PICK h : h = Encoded(l, m)
  OBVIOUS
<1>10. PICK c \in Seq(Byte) : c = Encode(o)
  BY <1>4, Zenon
<1>11. h = e \o c
  BY <1>6, <1>7, <1>8, <1>9, <1>10, SMT
<1>12. /\ h \in Seq(Byte) /\ Len(h) = Len(e) + Len(c)
       /\ \A x \in 1 .. Len(e) : h[x] = e[x]
       /\ \A x \in 1 .. Len(c) : h[Len(e) + x] = c[x]
  BY <1>11
<1> QED
  BY <1>3, <1>8, <1>9, <1>10, <1>12, Zenon DEF Adjoins

(* e begins h.                                                             *)
Begins(e, h) ==
  /\ e \in Seq(Byte) /\ h \in Seq(Byte) /\ Len(e) <= Len(h)
  /\ \A x \in 1 .. Len(e) : h[x] = e[x]

(* Options that come later leave the earlier ones where they are.          *)
LEMMA EncodedBegins ==
  ASSUME NEW l, NEW n, IsList(l, n), NEW i \in 0 .. n, NEW j \in i .. n
  PROVE  Begins(Encoded(l, i), Encoded(l, j))
<1>0. i \in Nat /\ n \in Nat /\ i <= n
  BY DEF IsList
<1>1. PICK k \in Nat : k = n - i
  BY <1>0
<1> DEFINE T == {d \in 0 .. k : Begins(Encoded(l, i), Encoded(l, i + d))}
<1>2. 0 \in T
  <2>1. Encoded(l, i) \in Seq(Byte) /\ i + 0 = i
    BY <1>0, EncodedBytes
  <2>2. PICK e \in Seq(Byte) : e = Encoded(l, i)
    BY <2>1
  <2>3. Begins(e, e)
    BY SMT DEF Begins
  <2> QED
    BY <2>1, <2>2, <2>3
<1>3. ASSUME NEW d \in 1 .. k, d - 1 \in T
      PROVE  d \in T
  <2>1. PICK a \in 0 .. n : a = i + (d - 1)
    BY <1>0, <1>1
  <2>2. PICK b \in 1 .. n : b = i + d
    BY <1>0, <1>1
  <2>3. b - 1 = a
    BY <1>0, <2>1, <2>2
  <2>4. Adjoins(Encoded(l, a), Encoded(l, b), l[b])
    BY <2>3, EncodedNext, Zenon
  <2>5. Begins(Encoded(l, i), Encoded(l, a))
    BY <1>3, <2>1, Zenon
  <2>6. PICK e : e = Encoded(l, i)
    OBVIOUS
  <2>7. PICK f : f = Encoded(l, a)
    OBVIOUS
  <2>8. PICK h : h = Encoded(l, b)
    OBVIOUS
  <2>9. PICK c : c = Encode(l[b])
    OBVIOUS
  <2>10. /\ e \in Seq(Byte) /\ f \in Seq(Byte) /\ h \in Seq(Byte) /\ c \in Seq(Byte)
         /\ Len(e) <= Len(f) /\ Len(h) = Len(f) + Len(c)
         /\ \A x \in 1 .. Len(e) : f[x] = e[x]
         /\ \A x \in 1 .. Len(f) : h[x] = f[x]
    BY <2>4, <2>5, <2>6, <2>7, <2>8, <2>9, Zenon DEF Begins, Adjoins
  <2>11. /\ Len(e) <= Len(h)
         /\ \A x \in 1 .. Len(e) : h[x] = e[x]
    BY <2>10
  <2>12. Begins(e, h)
    BY <2>10, <2>11, Zenon DEF Begins
  <2>13. d \in 0 .. k
    OBVIOUS
  <2> QED
    BY <2>2, <2>6, <2>8, <2>12, <2>13, Zenon
<1>4. Climbs(T, k)
  BY <1>2, <1>3, Zenon DEF Climbs
<1>5. PICK d \in 0 .. k : i + d = j
  <2>1. j - i \in 0 .. k /\ i + (j - i) = j
    BY <1>0, <1>1
  <2> QED
    BY <2>1, Zenon
<1>6. d \in T
  <2> HIDE DEF T
  <2> QED
    BY <1>4, ClimbsToTop
<1> QED
  BY <1>5, <1>6, Zenon

(***************************************************************************)
(* What a scan meets among the options l, of which there are n, in the     *)
(* bytes b.                                                                *)
(***************************************************************************)
(* p is where option i + 1 starts, if there is one.                        *)
At(b, l, n, i, p) ==
  HoldsOptions(b, l) /\ n = Len(l) /\ i \in 0 .. n /\ p = Len(Encoded(l, i)) + 1

(* o is option m and stands at p.                                          *)
Stands(b, l, n, m, p, o) ==
  /\ m \in 1 .. n /\ o = l[m] /\ IsOption(o) /\ b[p] = o.kind
  /\ o.kind \in {END_OF_LIST, NOP} => Len(Encoded(l, m)) = p
  /\ o.kind \notin {END_OF_LIST, NOP} =>
       /\ Len(Encoded(l, m)) = p + 1 + Len(o.value)
       /\ p + 1 <= Len(b) => b[p + 1] = 2 + Len(o.value)
       /\ \A x \in 1 .. Len(o.value) :
            p + 1 + x <= Len(b) => b[p + 1 + x] = o.value[x]

(* The option bytes are the list, and zeros behind it.                     *)
LEMMA HeldIs ==
  ASSUME NEW b, NEW l, NEW n, HoldsOptions(b, l), n = Len(l)
  PROVE  /\ IsList(l, n) /\ DOMAIN l = 1 .. n /\ n \in Nat /\ b \in Seq(Byte)
         /\ \E said \in Seq(Byte) :
              /\ said = Encoded(l, n)
              /\ \A x \in 1 .. Len(b) : b[x] = IF x <= Len(said) THEN said[x] ELSE 0
<1>1. /\ n \in Nat /\ l = [i \in 1 .. n |-> l[i]] /\ b \in Seq(Byte)
      /\ \A i \in 1 .. n : IsOption(l[i])
      /\ \A x \in 1 .. Len(b) :
           b[x] = IF x <= Len(Encoded(l, n)) THEN Encoded(l, n)[x] ELSE 0
  BY Zenon DEF HoldsOptions
<1>2. IsList(l, n) /\ n \in 0 .. n
  <2>1. n \in Nat
    BY <1>1, Zenon
  <2>2. n \in 0 .. n
    BY <2>1
  <2> QED
    BY <1>1, <2>2, Zenon DEF IsList
<1>3. Encoded(l, n) \in Seq(Byte)
  BY <1>2, EncodedBytes, Zenon
<1>4. DOMAIN l = 1 .. n
  BY <1>1
<1> QED
  BY <1>1, <1>2, <1>3, <1>4, Zenon

(* Behind i options the list ends, or option i + 1 stands there.           *)
LEMMA OptionStands ==
  ASSUME NEW b, NEW l, NEW n, NEW i, NEW p, At(b, l, n, i, p), p \in 1 .. Len(b)
  PROVE  \/ i = n /\ b[p] = END_OF_LIST
         \/ \E m, o : m - 1 = i /\ Stands(b, l, n, m, p, o)
<1>1. /\ HoldsOptions(b, l) /\ n = Len(l) /\ i \in 0 .. n /\ p = Len(Encoded(l, i)) + 1
  BY Zenon DEF At
<1>2. IsList(l, n) /\ n \in Nat /\ b \in Seq(Byte)
  BY <1>1, HeldIs, Zenon
<1>3. PICK said \in Seq(Byte) :
        /\ said = Encoded(l, n)
        /\ \A x \in 1 .. Len(b) : b[x] = IF x <= Len(said) THEN said[x] ELSE 0
  BY <1>1, HeldIs, ZenonT(40)
<1>4. PICK lb \in Nat : lb = Len(b)
  BY <1>2
<1>5. PICK ls \in Nat : ls = Len(said)
  OBVIOUS
<1>6. p \in 1 .. lb /\ \A x \in 1 .. lb : b[x] = IF x <= ls THEN said[x] ELSE 0
  BY <1>3, <1>4, <1>5, Zenon
<1>7. CASE i = n
  <2>1. p = ls + 1
    BY <1>1, <1>3, <1>5, <1>7, Zenon
  <2>2. ~ (p <= ls)
    BY <1>5, <2>1
  <2>3. b[p] = 0
    BY <1>6, <2>2, Zenon
  <2> QED
    BY <1>7, <2>3, Zenon DEF END_OF_LIST
<1>8. CASE i # n
  <2>1. PICK m \in 1 .. n : m - 1 = i
    <3>1. i + 1 \in 1 .. n /\ (i + 1) - 1 = i
      BY <1>1, <1>2, <1>8
    <3> QED
      BY <3>1, Zenon
  <2>2. PICK o : o = l[m]
    OBVIOUS
  <2>3. IsOption(o)
    BY <1>2, <2>2, Zenon DEF IsList
  <2>4. PICK e : e = Encoded(l, i)
    OBVIOUS
  <2>5. PICK h : h = Encoded(l, m)
    OBVIOUS
  <2>6. PICK c : c = Encode(o)
    OBVIOUS
  <2>7. Adjoins(e, h, o)
    BY <1>1, <1>2, <2>1, <2>2, <2>4, <2>5, EncodedNext, Zenon
  <2>8. Begins(h, said)
    <3>1. m \in 0 .. n /\ n \in m .. n
      BY <1>2
    <3> QED
      BY <1>2, <1>3, <2>5, <3>1, EncodedBegins, Zenon
  <2>9. PICK le \in Nat : le = Len(e)
    <3>1. e \in Seq(Byte)
      BY <2>7, Zenon DEF Adjoins
    <3> QED
      BY <3>1
  <2>10. PICK lc \in Nat : lc = Len(c)
    <3>1. c \in Seq(Byte)
      BY <2>6, <2>7, Zenon DEF Adjoins
    <3> QED
      BY <3>1
  <2>11. PICK lh : lh = Len(h)
    OBVIOUS
  <2>12. lh = le + lc /\ \A x \in 1 .. lc : h[le + x] = c[x]
    BY <2>6, <2>7, <2>9, <2>10, <2>11, Zenon DEF Adjoins
  <2>13. lh <= ls /\ \A x \in 1 .. lh : said[x] = h[x]
    BY <1>5, <2>8, <2>11, Zenon DEF Begins
  <2>14. p = le + 1
    BY <1>1, <2>4, <2>9, Zenon
  <2>15. \A x \in 1 .. lc : le + x <= lb => b[le + x] = c[x]
    <3> SUFFICES ASSUME NEW x \in 1 .. lc, le + x <= lb
                 PROVE  b[le + x] = c[x]
      OBVIOUS
    <3>1. PICK y \in 1 .. lh : y = le + x
      BY <2>12
    <3>2. y \in 1 .. lb /\ y <= ls
      BY <1>4, <1>5, <2>12, <2>13, <3>1
    <3>3. b[y] = said[y] /\ said[y] = h[y]
      BY <1>6, <2>13, <3>2, Zenon
    <3>4. h[y] = c[x]
      BY <2>12, <3>1, Zenon
    <3> QED
      BY <3>1, <3>3, <3>4, Zenon
  <2>16. /\ c[1] = o.kind /\ o.value \in Seq(Byte)
         /\ o.kind \in {END_OF_LIST, NOP} => lc = 1
         /\ o.kind \notin {END_OF_LIST, NOP} =>
              /\ lc = 2 + Len(o.value) /\ c[2] = 2 + Len(o.value)
              /\ \A x \in 1 .. Len(o.value) : c[2 + x] = o.value[x]
    BY <2>3, <2>6, <2>10, EncodeIs, Zenon DEF IsOption
  <2>17. PICK v : v = o.value
    OBVIOUS
  <2>18. PICK lv \in Nat : lv = Len(v)
    BY <2>16, <2>17
  <2>19. lc >= 1
    BY <2>16, <2>17, <2>18
  <2>20. b[p] = o.kind
    <3>1. 1 \in 1 .. lc /\ le + 1 <= lb
      BY <1>4, <1>6, <2>14, <2>19
    <3> QED
      BY <2>14, <2>15, <2>16, <3>1, Zenon
  <2>21. ASSUME o.kind \in {END_OF_LIST, NOP}
         PROVE  lh = p
    BY <2>12, <2>14, <2>16, <2>21
  <2>22. ASSUME o.kind \notin {END_OF_LIST, NOP}
         PROVE  /\ lh = p + 1 + lv
                /\ p + 1 <= lb => b[p + 1] = 2 + lv
                /\ \A x \in 1 .. lv : p + 1 + x <= lb => b[p + 1 + x] = v[x]
    <3>1. /\ lc = 2 + lv /\ c[2] = 2 + lv /\ \A x \in 1 .. lv : c[2 + x] = v[x]
      BY <2>16, <2>17, <2>18, <2>22, Zenon
    <3>2. lh = p + 1 + lv
      BY <2>12, <2>14, <3>1
    <3>3. p + 1 <= lb => b[p + 1] = 2 + lv
      <4>1. 2 \in 1 .. lc /\ p + 1 = le + 2
        BY <2>14, <3>1
      <4> QED
        BY <2>15, <3>1, <4>1, Zenon
    <3>4. ASSUME NEW x \in 1 .. lv, p + 1 + x <= lb
          PROVE  b[p + 1 + x] = v[x]
      <4>1. PICK y \in 1 .. lc : y = 2 + x
        BY <3>1
      <4>2. p + 1 + x = le + y
        BY <2>14, <4>1
      <4>3. b[le + y] = c[y]
        BY <2>15, <3>4, <4>2, Zenon
      <4> QED
        BY <3>1, <4>1, <4>2, <4>3, Zenon
    <3> QED
      BY <3>2, <3>3, <3>4, Zenon
  <2>23. Stands(b, l, n, m, p, o)
    BY <1>4, <2>2, <2>3, <2>5, <2>11, <2>17, <2>18, <2>20, <2>21, <2>22, Zenon DEF Stands
  <2> QED
    BY <2>1, <2>23, Zenon
<1> QED
  BY <1>7, <1>8, Zenon

(***************************************************************************)
(* Live and Said of any options l in any bytes b.                          *)
(***************************************************************************)
LiveIn(l, b, i) ==
  /\ Len(Encoded(l, i)) <= Len(b)
  /\ \A j \in 1 .. i : l[j].kind # END_OF_LIST

ValueOf(o) ==
  CASE Len(o.value) = 2 -> o.value[1] * BASE + o.value[2]
    [] Len(o.value) = 1 -> o.value[1]
    [] OTHER -> -1

Saying(l, b, k) == {i \in DOMAIN l : LiveIn(l, b, i) /\ l[i].kind = k}

SaidIn(l, b, k) ==
  LET i == CHOOSE j \in Saying(l, b, k) : \A h \in Saying(l, b, k) : j <= h
  IN  IF Saying(l, b, k) = {} THEN -1 ELSE ValueOf(l[i])

(* What the client said, of the list and the bytes at hand.                *)
LEMMA SaidIs == \A k : Said(k) = SaidIn(list, options, k)
BY Zenon DEF Said, Live, SaidIn, Saying, LiveIn, ValueOf

(* An option's value is a number, or -1 for none.                          *)
LEMMA ValueType ==
  ASSUME NEW o, IsOption(o)
  PROVE  ValueOf(o) \in Nat \cup {-1}
<1>1. PICK v \in Seq(Byte) : v = o.value
  BY Zenon DEF IsOption
<1>2. Len(v) = 2 => v[1] \in Nat /\ v[2] \in Nat /\ v[1] * BASE + v[2] \in Nat
  <2> SUFFICES ASSUME Len(v) = 2
               PROVE  v[1] \in Nat /\ v[2] \in Nat /\ v[1] * BASE + v[2] \in Nat
    OBVIOUS
  <2>1. PICK x \in Byte, y \in Byte : x = v[1] /\ y = v[2]
    OBVIOUS
  <2>2. x \in Nat /\ y \in Nat /\ x * BASE + y \in Nat
    BY SMT DEF Byte, BASE
  <2> QED
    BY <2>1, <2>2, Zenon
<1>3. Len(v) = 1 => v[1] \in Nat
  <2> SUFFICES ASSUME Len(v) = 1
               PROVE  v[1] \in Nat
    OBVIOUS
  <2>1. PICK x \in Byte : x = v[1]
    OBVIOUS
  <2>2. x \in Nat
    BY SMT DEF Byte, BASE
  <2> QED
    BY <2>1, <2>2, Zenon
<1> QED
  BY <1>1, <1>2, <1>3 DEF ValueOf

(* What the client said is a number, or -1.                                *)
LEMMA SaidType ==
  ASSUME NEW l, NEW n, IsList(l, n), DOMAIN l = 1 .. n, NEW b, NEW k
  PROVE  SaidIn(l, b, k) \in Nat \cup {-1}
<1>1. CASE Saying(l, b, k) = {}
  BY <1>1 DEF SaidIn
<1>2. CASE Saying(l, b, k) # {}
  <2>1. Saying(l, b, k) \subseteq 1 .. n
    BY Zenon DEF Saying
  <2>2. PICK A : A = Saying(l, b, k)
    OBVIOUS
  <2>3. A # {} /\ A \subseteq Nat /\ A \subseteq 1 .. n
    BY <1>2, <2>1, <2>2
  <2>4. \E j \in A : \A h \in A : j <= h
    BY <2>3, LeastOf
  <2>5. PICK i : i = CHOOSE j \in A : \A h \in A : j <= h
    OBVIOUS
  <2>6. i \in A
    BY <2>4, <2>5, Zenon
  <2>7. IsOption(l[i])
    BY <2>3, <2>6, Zenon DEF IsList
  <2>8. SaidIn(l, b, k) = ValueOf(l[i])
    BY <1>2, <2>2, <2>5, Zenon DEF SaidIn
  <2> QED
    BY <2>7, <2>8, ValueType, Zenon
<1> QED
  BY <1>1, <1>2

(* Nothing is said with an option that nobody sees.                        *)
LEMMA SaidNothing ==
  ASSUME NEW l, NEW b, NEW n, NEW k, DOMAIN l = 1 .. n,
         \A j \in 1 .. n : ~ (LiveIn(l, b, j) /\ l[j].kind = k)
  PROVE  SaidIn(l, b, k) = -1
<1>1. Saying(l, b, k) = {}
  BY Zenon DEF Saying
<1> QED
  BY <1>1, Zenon DEF SaidIn

(* The first one counts.                                                   *)
FirstOf(l, b, n, m, k) ==
  /\ DOMAIN l = 1 .. n /\ m \in 1 .. n /\ LiveIn(l, b, m) /\ l[m].kind = k
  /\ \A j \in 1 .. n : j < m => l[j].kind # k

(* The client's word is the value of the first option of the kind.         *)
LEMMA SaidFirst ==
  ASSUME NEW l, NEW b, NEW n \in Nat, NEW k, NEW m, FirstOf(l, b, n, m, k)
  PROVE  SaidIn(l, b, k) = ValueOf(l[m])
<1> /\ DOMAIN l = 1 .. n /\ m \in 1 .. n /\ LiveIn(l, b, m) /\ l[m].kind = k
    /\ \A j \in 1 .. n : j < m => l[j].kind # k
  BY Zenon DEF FirstOf
<1>1. PICK A : A = Saying(l, b, k)
  OBVIOUS
<1>2. m \in A
  BY <1>1, Zenon DEF Saying
<1>3. \A h \in A : h \in 1 .. n /\ l[h].kind = k
  BY <1>1, Zenon DEF Saying
<1>4. \A h \in A : m <= h
  <2> SUFFICES ASSUME NEW h \in A
               PROVE  m <= h
    OBVIOUS
  <2>1. h \in 1 .. n /\ ~ (h < m)
    BY <1>3, Zenon
  <2> QED
    BY <2>1
<1>5. PICK i : i = CHOOSE j \in A : \A h \in A : j <= h
  OBVIOUS
<1>6. i \in A /\ \A h \in A : i <= h
  BY <1>2, <1>4, <1>5, Zenon
<1>7. i = m
  <2>1. i <= m /\ m <= i /\ i \in 1 .. n
    BY <1>2, <1>3, <1>4, <1>6, Zenon
  <2> QED
    BY <2>1
<1>8. A # {}
  BY <1>2
<1> QED
  BY <1>1, <1>5, <1>7, <1>8, Zenon DEF SaidIn

(***************************************************************************)
(* The rounds of a scan for options of kind k, which are neither the end   *)
(* of the list nor padding.                                                *)
(***************************************************************************)
(* The scan has got to p, past i options that are not the wanted one.      *)
Scanned(b, l, n, i, p, k) ==
  /\ At(b, l, n, i, p) /\ k \notin {END_OF_LIST, NOP}
  /\ \A j \in 1 .. i : l[j].kind # END_OF_LIST /\ l[j].kind # k

(* No option after the first i is seen that is of kind k.                  *)
LEMMA ScannedNothing ==
  ASSUME NEW b, NEW l, NEW n, NEW i, NEW p, NEW k, Scanned(b, l, n, i, p, k),
         \A j \in 1 .. n : j > i => ~ (LiveIn(l, b, j) /\ l[j].kind = k)
  PROVE  SaidIn(l, b, k) = -1
<1>1. HoldsOptions(b, l) /\ n = Len(l) /\ i \in 0 .. n
  BY Zenon DEF Scanned, At
<1>2. DOMAIN l = 1 .. n /\ n \in Nat
  BY <1>1, HeldIs, Zenon
<1>3. \A j \in 1 .. i : l[j].kind # k
  BY Zenon DEF Scanned
<1>4. \A j \in 1 .. n : j \in 1 .. i \/ j > i
  BY <1>1, <1>2
<1> QED
  BY <1>2, <1>3, <1>4, SaidNothing, Zenon

(* The options end before another of kind k could be there.                *)
LEMMA ScanRunsOut ==
  ASSUME NEW b, NEW l, NEW n, NEW i, NEW p, NEW k, Scanned(b, l, n, i, p, k),
         ~ (p < Len(b))
  PROVE  SaidIn(l, b, k) = -1
<1>1. /\ HoldsOptions(b, l) /\ n = Len(l) /\ i \in 0 .. n /\ p = Len(Encoded(l, i)) + 1
      /\ k \notin {END_OF_LIST, NOP}
  BY Zenon DEF Scanned, At
<1>2. IsList(l, n) /\ n \in Nat /\ b \in Seq(Byte)
  BY <1>1, HeldIs, Zenon
<1>3. PICK lb \in Nat : lb = Len(b)
  BY <1>2
<1>4. ASSUME NEW j \in 1 .. n, j > i, LiveIn(l, b, j), l[j].kind = k
      PROVE  FALSE
  <2>1. PICK a \in 0 .. n : a = j - 1
    BY <1>2
  <2>2. i \in 0 .. n /\ a \in i .. n /\ j - 1 = a
    BY <1>1, <1>4, <2>1
  <2>3. Begins(Encoded(l, i), Encoded(l, a))
    BY <1>2, <2>2, EncodedBegins, Zenon
  <2>4. Adjoins(Encoded(l, a), Encoded(l, j), l[j])
    BY <1>2, <2>2, EncodedNext, Zenon
  <2>5. PICK e \in Seq(Byte) : e = Encoded(l, i)
    BY <2>3, Zenon DEF Begins
  <2>6. PICK f \in Seq(Byte) : f = Encoded(l, a)
    BY <2>3, Zenon DEF Begins
  <2>7. PICK le \in Nat : le = Len(e)
    OBVIOUS
  <2>8. PICK lf \in Nat : lf = Len(f)
    OBVIOUS
  <2>9. PICK o : o = l[j]
    OBVIOUS
  <2>10. IsOption(o)
    BY <1>2, <2>9, Zenon DEF IsList
  <2>11. PICK v \in Seq(Byte) : v = o.value
    BY <2>10, Zenon DEF IsOption
  <2>12. PICK lv \in Nat : lv = Len(v)
    OBVIOUS
  <2>13. Len(Encode(o)) = 2 + lv
    BY <1>1, <1>4, <2>9, <2>10, <2>11, <2>12, EncodeIs, Zenon
  <2>14. Len(Encoded(l, j)) = lf + (2 + lv) /\ le <= lf
    BY <2>3, <2>4, <2>5, <2>6, <2>7, <2>8, <2>9, <2>13, Zenon DEF Begins, Adjoins
  <2>15. lf + (2 + lv) <= lb
    BY <1>3, <1>4, <2>14, Zenon DEF LiveIn
  <2>16. p = le + 1 /\ ~ (p < lb)
    BY <1>1, <1>3, <2>5, <2>7, Zenon
  <2> QED
    BY <2>14, <2>15, <2>16
<1> QED
  BY <1>4, ScannedNothing, Zenon

(* Option m ends the list or is cut off.                                   *)
LEMMA NothingFrom ==
  ASSUME NEW b \in Seq(Byte), NEW l, NEW n \in Nat, IsList(l, n), NEW m \in 1 .. n,
         \/ l[m].kind = END_OF_LIST
         \/ Len(Encoded(l, m)) > Len(b),
         NEW j \in m .. n
  PROVE  ~ LiveIn(l, b, j)
<1>1. CASE l[m].kind = END_OF_LIST
  <2>1. m \in 1 .. j
    OBVIOUS
  <2> QED
    BY <1>1, <2>1, Zenon DEF LiveIn
<1>2. CASE Len(Encoded(l, m)) > Len(b)
  <2>1. Begins(Encoded(l, m), Encoded(l, j))
    <3>1. m \in 0 .. n
      OBVIOUS
    <3> QED
      BY <3>1, EncodedBegins, Zenon
  <2>2. PICK e \in Seq(Byte) : e = Encoded(l, m)
    BY <2>1, Zenon DEF Begins
  <2>3. PICK f \in Seq(Byte) : f = Encoded(l, j)
    BY <2>1, Zenon DEF Begins
  <2>4. Len(e) <= Len(f)
    BY <2>1, <2>2, <2>3, Zenon DEF Begins
  <2>5. Len(e) > Len(b)
    BY <1>2, <2>2, Zenon
  <2>6. ~ (Len(f) <= Len(b))
    BY <2>4, <2>5
  <2> QED
    BY <2>3, <2>6, Zenon DEF LiveIn
<1> QED
  BY <1>1, <1>2

(* The list ends here, or its bytes do.                                    *)
LEMMA EndOfScan ==
  ASSUME NEW b, NEW l, NEW n, NEW i, NEW p, NEW k, Scanned(b, l, n, i, p, k),
         p \in 1 .. Len(b), b[p] = END_OF_LIST
  PROVE  SaidIn(l, b, k) = -1
<1>1. HoldsOptions(b, l) /\ n = Len(l) /\ i \in 0 .. n /\ At(b, l, n, i, p)
  BY Zenon DEF Scanned, At
<1>2. IsList(l, n) /\ n \in Nat /\ b \in Seq(Byte)
  BY <1>1, HeldIs, Zenon
<1>3. CASE i = n
  <2>1. \A j \in 1 .. n : ~ (j > i)
    BY <1>2, <1>3
  <2> QED
    BY <2>1, ScannedNothing, Zenon
<1>4. CASE i # n
  <2>1. PICK m, o : m - 1 = i /\ Stands(b, l, n, m, p, o)
    BY <1>1, <1>4, OptionStands, Zenon
  <2>2. m \in 1 .. n /\ l[m].kind = END_OF_LIST
    BY <2>1, Zenon DEF Stands
  <2>3. \A j \in 1 .. n : j > i => j \in m .. n
    BY <1>1, <1>2, <2>1, <2>2
  <2>4. \A j \in m .. n : ~ LiveIn(l, b, j)
    BY <1>2, <2>2, NothingFrom, Zenon
  <2> QED
    BY <2>3, <2>4, ScannedNothing, Zenon
<1> QED
  BY <1>3, <1>4, Zenon

(* The scan goes on behind an option that is not the wanted one.           *)
LEMMA ScanGoesOn ==
  ASSUME NEW b, NEW l, NEW n, NEW i, NEW p, NEW k, Scanned(b, l, n, i, p, k),
         NEW m, NEW o, m - 1 = i, Stands(b, l, n, m, p, o),
         o.kind # END_OF_LIST, o.kind # k
  PROVE  Scanned(b, l, n, m, Len(Encoded(l, m)) + 1, k)
<1>1. /\ HoldsOptions(b, l) /\ n = Len(l) /\ i \in 0 .. n /\ k \notin {END_OF_LIST, NOP}
      /\ \A j \in 1 .. i : l[j].kind # END_OF_LIST /\ l[j].kind # k
  BY Zenon DEF Scanned, At
<1>2. n \in Nat
  BY <1>1, HeldIs, Zenon
<1>3. m \in 1 .. n /\ o = l[m]
  BY Zenon DEF Stands
<1>4. m \in 0 .. n /\ \A j \in 1 .. m : j \in 1 .. i \/ j = m
  BY <1>1, <1>2, <1>3
<1>5. \A j \in 1 .. m : l[j].kind # END_OF_LIST /\ l[j].kind # k
  BY <1>1, <1>3, <1>4, Zenon
<1> QED
  BY <1>1, <1>4, <1>5, Zenon DEF Scanned, At

(* A NOP is an option of its own: the scan stands behind it.               *)
LEMMA ScanSteps ==
  ASSUME NEW b, NEW l, NEW n, NEW i, NEW p, NEW k, Scanned(b, l, n, i, p, k),
         p \in 1 .. Len(b), b[p] = NOP
  PROVE  \E m : Scanned(b, l, n, m, p + 1, k)
<1>1. At(b, l, n, i, p) /\ k \notin {END_OF_LIST, NOP}
  BY Zenon DEF Scanned
<1>2. NOP # END_OF_LIST
  BY DEF NOP, END_OF_LIST
<1>3. PICK m, o : m - 1 = i /\ Stands(b, l, n, m, p, o)
  BY <1>1, <1>2, OptionStands, Zenon
<1>4. o.kind = NOP /\ Len(Encoded(l, m)) = p
  BY <1>3, Zenon DEF Stands
<1>5. Scanned(b, l, n, m, Len(Encoded(l, m)) + 1, k)
  BY <1>1, <1>2, <1>3, <1>4, ScanGoesOn, Zenon
<1> QED
  BY <1>4, <1>5, Zenon

(* The value of an option of size bytes at p.                              *)
ValueAt(b, p, size) ==
  IF size = 4 THEN b[p + 2] * BASE + b[p + 3]
  ELSE IF size = 3 THEN b[p + 2] ELSE -1

(* An option is cut off, is the one wanted, or is stepped over whole.      *)
LEMMA ScanMeets ==
  ASSUME NEW b, NEW l, NEW n, NEW i, NEW p, NEW k, Scanned(b, l, n, i, p, k),
         p \in 1 .. Len(b), p < Len(b), b[p] \notin {END_OF_LIST, NOP}
  PROVE  /\ b[p + 1] \in Nat \ {0, 1}
         /\ p + b[p + 1] > Len(b) + 1 => SaidIn(l, b, k) = -1
         /\ ~ (p + b[p + 1] > Len(b) + 1) /\ b[p] = k =>
              SaidIn(l, b, k) = ValueAt(b, p, b[p + 1])
         /\ ~ (p + b[p + 1] > Len(b) + 1) /\ b[p] # k =>
              \E m : Scanned(b, l, n, m, p + b[p + 1], k)
<1>1. HoldsOptions(b, l) /\ n = Len(l) /\ i \in 0 .. n /\ At(b, l, n, i, p)
  BY Zenon DEF Scanned, At
<1>2. IsList(l, n) /\ n \in Nat /\ b \in Seq(Byte) /\ DOMAIN l = 1 .. n
  BY <1>1, HeldIs, Zenon
<1>3. PICK m, o : m - 1 = i /\ Stands(b, l, n, m, p, o)
  BY <1>1, OptionStands, Zenon
<1>4. PICK lb \in Nat : lb = Len(b)
  BY <1>2
<1>5. m \in 1 .. n /\ o = l[m] /\ IsOption(o) /\ b[p] = o.kind
  BY <1>3, Zenon DEF Stands
<1>6. PICK v \in Seq(Byte) : v = o.value
  BY <1>5, Zenon DEF IsOption
<1>7. PICK lv \in Nat : lv = Len(v)
  OBVIOUS
<1>8. PICK lm : lm = Len(Encoded(l, m))
  OBVIOUS
<1>9. /\ lm = p + 1 + lv
      /\ p + 1 <= lb => b[p + 1] = 2 + lv
      /\ \A x \in 1 .. lv : p + 1 + x <= lb => b[p + 1 + x] = v[x]
  BY <1>3, <1>4, <1>5, <1>6, <1>7, <1>8, Zenon DEF Stands
<1>10. p \in 1 .. lb /\ p < lb
  BY <1>4, Zenon
<1>11. PICK size : size = b[p + 1]
  OBVIOUS
<1>12. size = 2 + lv
  <2>1. p + 1 <= lb
    BY <1>10
  <2> QED
    BY <1>9, <1>11, <2>1, Zenon
<1>13. size \in Nat \ {0, 1}
  BY <1>12
<1>14. ASSUME p + size > lb + 1
       PROVE  SaidIn(l, b, k) = -1
  <2>1. lm > lb
    BY <1>9, <1>10, <1>12, <1>14
  <2>2. Len(Encoded(l, m)) > Len(b)
    BY <1>4, <1>8, <2>1, Zenon
  <2>3. \A j \in m .. n : ~ LiveIn(l, b, j)
    BY <1>2, <1>5, <2>2, NothingFrom, Zenon
  <2>4. \A j \in 1 .. n : j > i => j \in m .. n
    BY <1>1, <1>2, <1>3, <1>5
  <2> QED
    BY <2>3, <2>4, ScannedNothing, Zenon
<1>15. ASSUME ~ (p + size > lb + 1), b[p] = k
       PROVE  SaidIn(l, b, k) = ValueAt(b, p, size)
  <2>1. lm <= lb
    BY <1>9, <1>10, <1>12, <1>15
  <2>2. /\ \A j \in 1 .. i : l[j].kind # END_OF_LIST /\ l[j].kind # k
        /\ k # END_OF_LIST /\ l[m].kind = k
    BY <1>5, <1>15, Zenon DEF Scanned
  <2>3. \A j \in 1 .. m : j \in 1 .. i \/ j = m
    BY <1>1, <1>2, <1>3, <1>5
  <2>4. LiveIn(l, b, m)
    BY <1>4, <1>8, <2>1, <2>2, <2>3, Zenon DEF LiveIn
  <2>5. \A j \in 1 .. n : j < m => j \in 1 .. i
    BY <1>1, <1>2, <1>3, <1>5
  <2>6. SaidIn(l, b, k) = ValueOf(o)
    <3>1. \A j \in 1 .. n : j < m => l[j].kind # k
      BY <2>2, <2>5, Zenon
    <3>2. FirstOf(l, b, n, m, k)
      BY <1>2, <1>5, <2>2, <2>4, <3>1, Zenon DEF FirstOf
    <3>3. SaidIn(l, b, k) = ValueOf(l[m])
      BY <1>2, <3>2, SaidFirst
    <3> QED
      BY <1>5, <3>3, Zenon
  <2>7. lv = 2 => b[p + 2] = v[1] /\ b[p + 3] = v[2]
    <3> SUFFICES ASSUME lv = 2
                 PROVE  b[p + 2] = v[1] /\ b[p + 3] = v[2]
      OBVIOUS
    <3>1. /\ 1 \in 1 .. lv /\ 2 \in 1 .. lv /\ p + 1 + 1 = p + 2 /\ p + 1 + 2 = p + 3
          /\ p + 2 <= lb /\ p + 3 <= lb
      BY <1>9, <1>10, <2>1
    <3> QED
      BY <1>9, <3>1, Zenon
  <2>8. lv = 1 => b[p + 2] = v[1]
    <3> SUFFICES ASSUME lv = 1
                 PROVE  b[p + 2] = v[1]
      OBVIOUS
    <3>1. 1 \in 1 .. lv /\ p + 1 + 1 = p + 2 /\ p + 2 <= lb
      BY <1>9, <1>10, <2>1
    <3> QED
      BY <1>9, <3>1, Zenon
  <2>9. ValueOf(o) = IF lv = 2 THEN v[1] * BASE + v[2]
                     ELSE IF lv = 1 THEN v[1] ELSE -1
    BY <1>6, <1>7, SMT DEF ValueOf
  <2>10. (size = 4 <=> lv = 2) /\ (size = 3 <=> lv = 1)
    BY <1>12
  <2>11. ValueAt(b, p, size) = ValueOf(o)
    <3>1. CASE lv = 2
      <4>1. size = 4 /\ b[p + 2] = v[1] /\ b[p + 3] = v[2]
        BY <2>7, <2>10, <3>1, Zenon
      <4>2. ValueAt(b, p, size) = b[p + 2] * BASE + b[p + 3]
        BY <4>1, Zenon DEF ValueAt
      <4> QED
        BY <2>9, <3>1, <4>1, <4>2, Zenon
    <3>2. CASE lv # 2
      <4>1. size # 4
        BY <2>10, <3>2, Zenon
      <4>2. ValueAt(b, p, size) = IF size = 3 THEN b[p + 2] ELSE -1
        BY <4>1, Zenon DEF ValueAt
      <4>3. ValueOf(o) = IF lv = 1 THEN v[1] ELSE -1
        BY <2>9, <3>2, Zenon
      <4> QED
        BY <2>8, <2>10, <4>2, <4>3
    <3> QED
      BY <3>1, <3>2, Zenon
  <2> QED
    BY <2>6, <2>11, Zenon
<1>16. ASSUME ~ (p + size > lb + 1), b[p] # k
       PROVE  \E j : Scanned(b, l, n, j, p + size, k)
  <2>1. o.kind # END_OF_LIST /\ o.kind # k
    BY <1>5, <1>16, Zenon
  <2>2. Scanned(b, l, n, m, lm + 1, k)
    BY <1>3, <1>8, <2>1, ScanGoesOn, Zenon
  <2>3. lm + 1 = p + size
    BY <1>9, <1>10, <1>12
  <2> QED
    BY <2>2, <2>3, Zenon
<1> QED
  BY <1>4, <1>11, <1>13, <1>14, <1>15, <1>16, Zenon

(***************************************************************************)
(* The scans of a behaviour.                                               *)
(***************************************************************************)
(* What a connection starts with, by what the client said.                 *)
Agreed ==
  LET mss == SaidIn(list, options, MSS)
      scale == SaidIn(list, options, SCALE)
  IN  /\ syn.max_segment \in 1 .. MAX_SEGMENT
      /\ mss > 0 => syn.max_segment <= mss
      /\ syn.window_scale = (IF scale < 0 THEN 0 ELSE scale)

ScanPlaced == \E i : Scanned(options, list, Len(list), i, buf, kind)

ScanInv ==
  /\ HoldsOptions(options, list)
  /\ kind \in MSS .. SCALE + 1 /\ (kind = SCALE + 1 => buf = 1)
  /\ found = [k \in {MSS, SCALE} |-> found[k]]
  /\ \A k \in {MSS, SCALE} :
       found[k] = IF k < kind THEN SaidIn(list, options, k) ELSE -1
  /\ syn = [state |-> syn.state, max_segment |-> syn.max_segment,
            window_scale |-> syn.window_scale]
  /\ syn.state \in {"none", "scan", "refused", "taken"}
  /\ syn.state \in {"refused", "taken"} => kind = SCALE + 1
  /\ Scanning => ScanPlaced
  /\ syn.state = "taken" => Agreed

(* A scan begins in front of the first option.                             *)
LEMMA ScanStart ==
  ASSUME NEW b, NEW l, HoldsOptions(b, l), NEW k, k \notin {END_OF_LIST, NOP}
  PROVE  \E i : Scanned(b, l, Len(l), i, 1, k)
<1>1. PICK n \in Nat : n = Len(l)
  BY Zenon DEF HoldsOptions
<1>2. 0 \in 0 .. n /\ \A j \in 1 .. 0 : FALSE
  BY <1>1
<1>3. Encoded(l, 0) = <<>>
  <2>1. FlattenSeq(<<>>) = <<>>
    BY DEF FlattenSeq
  <2>2. [j \in 1 .. 0 |-> Encode(l[j])] = <<>>
    OBVIOUS
  <2> QED
    BY <2>1, <2>2 DEF Encoded
<1>4. 1 = Len(Encoded(l, 0)) + 1
  BY <1>3
<1>5. Scanned(b, l, n, 0, 1, k)
  BY <1>1, <1>2, <1>4, Zenon DEF Scanned, At
<1> QED
  BY <1>1, <1>5, Zenon

(* The two kinds looked for are neither NOP nor the end.                   *)
LEMMA Kinds ==
  /\ MSS = 2 /\ SCALE = 3 /\ MSS \notin {END_OF_LIST, NOP} /\ SCALE \notin {END_OF_LIST, NOP}
  /\ MSS # SCALE
BY DEF MSS, SCALE, END_OF_LIST, NOP

(* A scan that returns what the client said is followed by the next.       *)
LEMMA Returns ==
  ASSUME ScanInv, Scanning, NEW v, Return(v), v = SaidIn(list, options, kind)
  PROVE  ScanInv'
<1>1. /\ found' = [found EXCEPT ![kind] = v] /\ kind' = kind + 1 /\ buf' = 1
      /\ list' = list /\ options' = options /\ syn' = syn
  BY Zenon DEF Return
<1>2. /\ kind \in {MSS, SCALE} /\ syn.state = "scan"
      /\ found = [k \in {MSS, SCALE} |-> found[k]]
      /\ \A k \in {MSS, SCALE} :
           found[k] = IF k < kind THEN SaidIn(list, options, k) ELSE -1
  BY Zenon DEF Scanning, ScanInv
<1>3. \A k \in {MSS, SCALE} : found'[k] = IF k = kind THEN v ELSE found[k]
  BY <1>1, <1>2
<1>4. found' = [k \in {MSS, SCALE} |-> found'[k]]
  BY <1>1, <1>2
<1>5. \A k \in {MSS, SCALE} :
        found'[k] = IF k < kind' THEN SaidIn(list', options', k) ELSE -1
  <2> TAKE k \in {MSS, SCALE}
  <2>1. k < kind' <=> k < kind \/ k = kind
    BY <1>1, <1>2, Kinds
  <2>2. k = kind => ~ (k < kind)
    BY <1>2, Kinds
  <2>3. found[k] = IF k < kind THEN SaidIn(list, options, k) ELSE -1
    BY <1>2, Zenon
  <2>4. found'[k] = IF k = kind THEN v ELSE found[k]
    BY <1>3, Zenon
  <2> QED
    BY <1>1, <2>1, <2>2, <2>3, <2>4, Zenon
<1>6. kind' \in MSS .. SCALE + 1
  BY <1>1, <1>2, Kinds
<1>7. kind' \in {MSS, SCALE} =>
        \E i : Scanned(options', list', Len(list'), i, buf', kind')
  <2> SUFFICES ASSUME kind' \in {MSS, SCALE}
               PROVE  \E i : Scanned(options', list', Len(list'), i, buf', kind')
    OBVIOUS
  <2>1. HoldsOptions(options', list') /\ buf' = 1
    BY <1>1, Zenon DEF ScanInv
  <2>2. kind' \notin {END_OF_LIST, NOP}
    BY Kinds, Zenon
  <2>3. PICK k : k = kind'
    OBVIOUS
  <2>4. \E i : Scanned(options', list', Len(list'), i, 1, k)
    BY <2>1, <2>2, <2>3, ScanStart, Zenon
  <2> QED
    BY <2>1, <2>3, <2>4, Zenon
<1>8. syn'.state = "scan"
  BY <1>1, <1>2, Zenon
<1>9. (Scanning => ScanPlaced)'
  BY <1>7, Zenon DEF Scanning, ScanPlaced
<1>10. /\ HoldsOptions(options', list')
       /\ syn' = [state |-> syn'.state, max_segment |-> syn'.max_segment,
                  window_scale |-> syn'.window_scale]
  BY <1>1, Zenon DEF ScanInv
<1> QED
  BY <1>1, <1>4, <1>5, <1>6, <1>8, <1>9, <1>10, Zenon DEF ScanInv

(* A scan goes on at a place that it should reach.                         *)
LEMMA GoesOn ==
  ASSUME ScanInv, Scanning, NEW p, GoOn(p),
         \E i : Scanned(options, list, Len(list), i, p, kind)
  PROVE  ScanInv'
<1>1. /\ buf' = p /\ list' = list /\ options' = options /\ kind' = kind
      /\ found' = found /\ syn' = syn
  BY Zenon DEF GoOn
<1>2. syn'.state = "scan" /\ kind' # SCALE + 1
  <2>1. SCALE + 1 \notin {MSS, SCALE}
    BY Kinds
  <2> QED
    BY <1>1, <2>1, Zenon DEF Scanning
<1>3. ScanPlaced'
  BY <1>1, Zenon DEF ScanPlaced
<1>4. /\ HoldsOptions(options', list') /\ kind' \in MSS .. SCALE + 1
      /\ found' = [k \in {MSS, SCALE} |-> found'[k]]
      /\ \A k \in {MSS, SCALE} :
           found'[k] = IF k < kind' THEN SaidIn(list', options', k) ELSE -1
      /\ syn' = [state |-> syn'.state, max_segment |-> syn'.max_segment,
                 window_scale |-> syn'.window_scale]
  BY <1>1, Zenon DEF ScanInv
<1> QED
  BY <1>2, <1>3, <1>4, Zenon DEF ScanInv

(* A SYN starts a scan for the first kind.                                 *)
LEMMA Starts ==
  ASSUME ScanInv, NEW l, NEW b, HoldsOptions(b, l), ScanOptions(l, b)
  PROVE  ScanInv'
<1>1. /\ list' = l /\ options' = b /\ kind' = MSS /\ buf' = 1
      /\ found' = [k \in {MSS, SCALE} |-> -1] /\ syn' = [syn EXCEPT !.state = "scan"]
  BY Zenon DEF ScanOptions
<1>2. syn = [state |-> syn.state, max_segment |-> syn.max_segment,
             window_scale |-> syn.window_scale]
  BY Zenon DEF ScanInv
<1>3. PICK a, m, w : a = syn.state /\ m = syn.max_segment /\ w = syn.window_scale
  OBVIOUS
<1>4. syn' = [state |-> "scan", max_segment |-> m, window_scale |-> w]
  BY <1>1, <1>2, <1>3
<1>5. /\ syn'.state = "scan"
      /\ syn' = [state |-> syn'.state, max_segment |-> syn'.max_segment,
                 window_scale |-> syn'.window_scale]
  BY <1>4
<1>6. ScanPlaced'
  <2>1. \E i : Scanned(b, l, Len(l), i, 1, MSS)
    BY Kinds, ScanStart, Zenon
  <2> QED
    BY <1>1, <2>1, Zenon DEF ScanPlaced
<1>7. kind' \in MSS .. SCALE + 1 /\ \A k \in {MSS, SCALE} : ~ (k < kind')
  BY <1>1, Kinds
<1>8. /\ found' = [k \in {MSS, SCALE} |-> found'[k]]
      /\ \A k \in {MSS, SCALE} : found'[k] = -1
  BY <1>1
<1>9. HoldsOptions(options', list')
  BY <1>1, Zenon
<1> QED
  BY <1>1, <1>5, <1>6, <1>7, <1>8, <1>9, Zenon DEF ScanInv

(* What is known while a scan runs.                                        *)
LEMMA WhileScanning ==
  ASSUME ScanInv, Scanning
  PROVE  /\ options \in Seq(Byte) /\ buf \in Nat \ {0} /\ kind \in {MSS, SCALE}
         /\ kind \notin {END_OF_LIST, NOP} /\ found[kind] = -1
         /\ \E n, i : n = Len(list) /\ Scanned(options, list, n, i, buf, kind)
<1>1. /\ HoldsOptions(options, list) /\ kind \in {MSS, SCALE} /\ ScanPlaced
      /\ \A k \in {MSS, SCALE} :
           found[k] = IF k < kind THEN SaidIn(list, options, k) ELSE -1
  BY Zenon DEF ScanInv, Scanning
<1>2. PICK n, i : n = Len(list) /\ Scanned(options, list, n, i, buf, kind)
  BY <1>1, Zenon DEF ScanPlaced
<1>3. kind \notin {END_OF_LIST, NOP} /\ ~ (kind < kind)
  BY <1>1, Kinds
<1>4. IsList(list, n) /\ options \in Seq(Byte)
  BY <1>1, <1>2, HeldIs, Zenon
<1>5. i \in 0 .. n /\ buf = Len(Encoded(list, i)) + 1
  BY <1>2, Zenon DEF Scanned, At
<1>6. Encoded(list, i) \in Seq(Byte)
  BY <1>4, <1>5, EncodedBytes, Zenon
<1>7. buf \in Nat \ {0}
  BY <1>5, <1>6
<1>8. found[kind] = -1
  BY <1>1, <1>3, Zenon
<1> QED
  BY <1>1, <1>2, <1>3, <1>4, <1>7, <1>8, Zenon

(* Option keeps the invariant.                                             *)
LEMMA OptionStep ==
  ASSUME ScanInv, Option
  PROVE  ScanInv'
<1>1. /\ Scanning /\ buf < Len(options) /\ options[buf] \notin {END_OF_LIST, NOP}
  BY Zenon DEF Option, InLoop
<1>2. /\ options \in Seq(Byte) /\ buf \in Nat \ {0}
      /\ \E n, i : n = Len(list) /\ Scanned(options, list, n, i, buf, kind)
  BY <1>1, WhileScanning, Zenon
<1>3. PICK n, i : n = Len(list) /\ Scanned(options, list, n, i, buf, kind)
  BY <1>2, Zenon
<1>4. PICK size : size = options[buf + 1]
  OBVIOUS
<1>5. buf \in 1 .. Len(options)
  BY <1>1, <1>2
<1>6. /\ buf + size > Len(options) + 1 => SaidIn(list, options, kind) = -1
      /\ ~ (buf + size > Len(options) + 1) /\ options[buf] = kind =>
           SaidIn(list, options, kind) = ValueAt(options, buf, size)
      /\ ~ (buf + size > Len(options) + 1) /\ options[buf] # kind =>
           \E m : Scanned(options, list, n, m, buf + size, kind)
  BY <1>1, <1>3, <1>4, <1>5, ScanMeets, Zenon
<1>7. IF buf + size > Len(options) + 1 THEN Return(-1)
      ELSE IF options[buf] = kind THEN Return(ValueAt(options, buf, size))
      ELSE GoOn(buf + size)
  BY <1>4, Zenon DEF Option, Truncated, Value, After, ValueAt
<1>8. CASE buf + size > Len(options) + 1
  BY <1>1, <1>6, <1>7, <1>8, Returns, Zenon
<1>9. CASE ~ (buf + size > Len(options) + 1) /\ options[buf] = kind
  BY <1>1, <1>6, <1>7, <1>9, Returns, Zenon
<1>10. CASE ~ (buf + size > Len(options) + 1) /\ options[buf] # kind
  BY <1>1, <1>3, <1>6, <1>7, <1>10, GoesOn, Zenon
<1> QED
  BY <1>8, <1>9, <1>10, Zenon

(* Padding keeps the invariant.                                            *)
LEMMA PaddingStep ==
  ASSUME ScanInv, Padding
  PROVE  ScanInv'
<1>1. Scanning /\ buf < Len(options) /\ options[buf] = NOP /\ GoOn(buf + 1)
  BY Zenon DEF Padding, InLoop
<1>2. /\ options \in Seq(Byte) /\ buf \in Nat \ {0}
      /\ \E n, i : n = Len(list) /\ Scanned(options, list, n, i, buf, kind)
  BY <1>1, WhileScanning, Zenon
<1>3. buf \in 1 .. Len(options)
  BY <1>1, <1>2
<1>4. \E m : Scanned(options, list, Len(list), m, buf + 1, kind)
  BY <1>1, <1>2, <1>3, ScanSteps, Zenon
<1> QED
  BY <1>1, <1>4, GoesOn, Zenon

(* EndOfLoop and EndOfList keep the invariant.                             *)
LEMMA EndStep ==
  ASSUME ScanInv, EndOfLoop \/ EndOfList
  PROVE  ScanInv'
<1>1. Scanning /\ Return(-1)
  BY Zenon DEF EndOfLoop, EndOfList
<1>2. PICK n, i : n = Len(list) /\ Scanned(options, list, n, i, buf, kind)
  BY <1>1, WhileScanning, Zenon
<1>3. options \in Seq(Byte) /\ buf \in Nat \ {0}
  BY <1>1, WhileScanning, Zenon
<1>4. SaidIn(list, options, kind) = -1
  <2>1. CASE EndOfLoop
    <3>1. ~ (buf < Len(options))
      BY <2>1, Zenon DEF EndOfLoop, InLoop
    <3> QED
      BY <1>2, <3>1, ScanRunsOut, Zenon
  <2>2. CASE EndOfList
    <3>1. buf < Len(options) /\ options[buf] = END_OF_LIST
      BY <2>2, Zenon DEF EndOfList, InLoop
    <3>2. buf \in 1 .. Len(options)
      BY <1>3, <3>1
    <3> QED
      BY <1>2, <3>1, <3>2, EndOfScan, Zenon
  <2> QED
    BY <2>1, <2>2, Zenon
<1> QED
  BY <1>1, <1>4, Returns, Zenon

(* Decide keeps the invariant.                                             *)
LEMMA DecideStep ==
  ASSUME ScanInv, Decide
  PROVE  ScanInv'
<1> DEFINE state == IF Acceptable(found) THEN "taken" ELSE "refused"
           size  == IF found[MSS] < 0 \/ found[MSS] > MAX_SEGMENT
                    THEN MAX_SEGMENT ELSE found[MSS]
           scale == IF found[SCALE] < 0 THEN 0 ELSE found[SCALE]
<1>1. /\ kind > SCALE
      /\ syn' = [state |-> state, max_segment |-> size, window_scale |-> scale]
      /\ list' = list /\ options' = options /\ kind' = kind /\ buf' = buf
      /\ found' = found
  BY Zenon DEF Decide
<1>2. /\ HoldsOptions(options, list) /\ kind \in MSS .. SCALE + 1
      /\ found = [k \in {MSS, SCALE} |-> found[k]]
      /\ \A k \in {MSS, SCALE} :
           found[k] = IF k < kind THEN SaidIn(list, options, k) ELSE -1
  BY Zenon DEF ScanInv
<1>3. kind = SCALE + 1 /\ MSS < kind /\ SCALE < kind /\ kind \notin {MSS, SCALE}
  BY <1>1, <1>2, Kinds
<1>4. PICK n : n = Len(list)
  OBVIOUS
<1>5. IsList(list, n) /\ DOMAIN list = 1 .. n
  BY <1>2, <1>4, HeldIs, Zenon
<1>6. PICK mss \in Nat \cup {-1} : mss = SaidIn(list, options, MSS)
  BY <1>5, SaidType, Zenon
<1>7. PICK ws \in Nat \cup {-1} : ws = SaidIn(list, options, SCALE)
  BY <1>5, SaidType, Zenon
<1>8. found[MSS] = mss /\ found[SCALE] = ws
  BY <1>2, <1>3, <1>6, <1>7, Zenon
<1>9. /\ Acceptable(found) => mss # 0
      /\ size = (IF mss < 0 \/ mss > MAX_SEGMENT THEN MAX_SEGMENT ELSE mss)
      /\ scale = (IF ws < 0 THEN 0 ELSE ws)
  BY <1>8, Zenon DEF Acceptable
<1>10. state \in {"refused", "taken"} /\ (state = "taken" => Acceptable(found))
  BY Zenon
<1> HIDE DEF state, size, scale
<1>11. syn'.state = state /\ syn'.max_segment = size /\ syn'.window_scale = scale
  BY <1>1
<1>12. MAX_SEGMENT \in Nat \ {0}
  BY OptionsAssumption, WordsType, SMT
<1>13. state = "taken" => /\ size \in 1 .. MAX_SEGMENT
                          /\ mss > 0 => size <= mss
  BY <1>9, <1>10, <1>12, SMT
<1>14. syn'.state = "taken" => Agreed'
  <2> SUFFICES ASSUME state = "taken"
               PROVE  Agreed'
    BY <1>11, Zenon
  <2>1. /\ size \in 1 .. MAX_SEGMENT /\ mss > 0 => size <= mss
        /\ scale = (IF ws < 0 THEN 0 ELSE ws)
    BY <1>9, <1>13, Zenon
  <2>2. mss = SaidIn(list', options', MSS) /\ ws = SaidIn(list', options', SCALE)
    BY <1>1, <1>6, <1>7, Zenon
  <2> QED
    BY <1>9, <1>11, <1>13, <2>2, Zenon DEF Agreed
<1>15. syn' = [state |-> syn'.state, max_segment |-> syn'.max_segment,
               window_scale |-> syn'.window_scale]
  BY <1>1, <1>11, Zenon
<1>16. ~ Scanning'
  BY <1>1, <1>3, Zenon DEF Scanning
<1>17. /\ HoldsOptions(options', list') /\ kind' \in MSS .. SCALE + 1
       /\ found' = [k \in {MSS, SCALE} |-> found'[k]]
       /\ \A k \in {MSS, SCALE} :
            found'[k] = IF k < kind' THEN SaidIn(list', options', k) ELSE -1
       /\ kind' = SCALE + 1 /\ buf' = 1
  BY <1>1, <1>2, <1>3, Zenon DEF ScanInv
<1>18. syn'.state \in {"none", "scan", "refused", "taken"}
  BY <1>10, <1>11, Zenon
<1> QED
  BY <1>14, <1>15, <1>16, <1>17, <1>18, Zenon DEF ScanInv

(* The invariant of the scan is inductive.                                 *)
LEMMA ScanHolds == Spec => []ScanInv
<1>1. Init => ScanInv
  <2> SUFFICES ASSUME Init
               PROVE  ScanInv
    OBVIOUS
  <2>1. /\ list = <<>> /\ options = <<>> /\ kind = MSS
        /\ found = [k \in {MSS, SCALE} |-> -1]
        /\ syn = [state |-> "none", max_segment |-> 0, window_scale |-> 0]
        /\ buf = 1
    BY Zenon DEF Init, ScanInit
  <2>2. HoldsOptions(options, list)
    <3>1. PICK none : none = <<>>
      OBVIOUS
    <3>2. /\ Len(none) \in Nat /\ none = [i \in 1 .. Len(none) |-> none[i]]
          /\ \A i \in 1 .. Len(none) : FALSE
          /\ none \in Seq(Byte)
      BY <3>1
    <3>3. HoldsOptions(none, none)
      BY <3>2, Zenon DEF HoldsOptions
    <3> QED
      BY <2>1, <3>1, <3>3, Zenon
  <2>3. /\ syn.state = "none"
        /\ syn = [state |-> syn.state, max_segment |-> syn.max_segment,
                  window_scale |-> syn.window_scale]
    BY <2>1
  <2>4. /\ found = [k \in {MSS, SCALE} |-> found[k]]
        /\ \A k \in {MSS, SCALE} : found[k] = -1
    BY <2>1
  <2>5. kind \in MSS .. SCALE + 1 /\ \A k \in {MSS, SCALE} : ~ (k < kind)
    BY <2>1, Kinds
  <2> QED
    BY <2>1, <2>2, <2>3, <2>4, <2>5, Zenon DEF ScanInv, Scanning
<1>2. ScanInv /\ UNCHANGED scanVars => ScanInv'
  BY Zenon DEF ScanInv, Agreed, Scanning, ScanPlaced, scanVars
<1>3. StackType /\ ScanInv /\ [Next]_vars => ScanInv'
  <2> SUFFICES ASSUME StackType, ScanInv, [Next]_vars
               PROVE  ScanInv'
    OBVIOUS
  <2>1. CASE UNCHANGED vars
    BY <1>2, <2>1, Zenon DEF vars
  <2>2. ASSUME NEW f \in Frames(Len(handled)), handle_rx_packet(f)
        PROVE  ScanInv'
    <3>1. \/ UNCHANGED scanVars
          \/ \E bytes : HoldsOptions(bytes, f.meant.list)
                           /\ ScanOptions(f.meant.list, bytes)
      BY <2>2, FrameHandled, Zenon DEF Handles
    <3> QED
      BY <1>2, <3>1, Starts, Zenon
  <2>3. ASSUME NEW s \in Outgoing, send_tcp_packet(s)
        PROVE  ScanInv'
    BY <1>2, <2>3, SendsSegment, Zenon DEF StackType
  <2>4. CASE EndOfLoop \/ EndOfList
    BY <2>4, EndStep, Zenon
  <2>5. CASE Padding
    BY <2>5, PaddingStep, Zenon
  <2>6. CASE Option
    BY <2>6, OptionStep, Zenon
  <2>7. CASE Decide
    BY <2>7, DecideStep, Zenon
  <2>8. CASE Leave
    BY <1>2, <2>8, Zenon DEF Leave
  <2> QED
    BY <2>1, <2>2, <2>3, <2>4, <2>5, <2>6, <2>7, <2>8, Zenon DEF Next, Scan, ScanNext
<1> QED
  BY <1>1, <1>3, TypeHolds, PTL DEF Spec

(* The two scans of a SYN find what the client said with each option,      *)
(* whatever comes before or after it, is padding, ends the list or is cut  *)
(* off, and the connection starts with the scale it said and with segments *)
(* that are neither empty nor larger than it takes: scan_options and       *)
(* handle_tcp_packet, for every list of options.                           *)
THEOREM ScansAgree == Spec => []SynAgrees
<1>1. ScanInv => SynAgrees
  <2> SUFFICES ASSUME ScanInv
               PROVE  SynAgrees
    OBVIOUS
  <2>1. ASSUME syn.state \in {"taken", "refused"}
        PROVE  found = [k \in {MSS, SCALE} |-> Said(k)]
    <3>1. kind = SCALE + 1
      BY <2>1, Zenon DEF ScanInv
    <3>2. \A k \in {MSS, SCALE} : k < kind
      BY <3>1, Kinds
    <3>3. /\ found = [k \in {MSS, SCALE} |-> found[k]]
          /\ \A k \in {MSS, SCALE} :
               found[k] = IF k < kind THEN SaidIn(list, options, k) ELSE -1
      BY Zenon DEF ScanInv
    <3>4. \A k \in {MSS, SCALE} : found[k] = Said(k)
      BY <3>2, <3>3, SaidIs, Zenon
    <3> QED
      BY <3>3, <3>4, Zenon
  <2>2. ASSUME syn.state = "taken"
        PROVE  /\ syn.max_segment \in 1 .. MAX_SEGMENT
               /\ Said(MSS) > 0 => syn.max_segment <= Said(MSS)
               /\ syn.window_scale = (IF Said(SCALE) < 0 THEN 0 ELSE Said(SCALE))
    <3>1. Agreed
      BY <2>2, Zenon DEF ScanInv
    <3>2. Said(MSS) = SaidIn(list, options, MSS) /\ Said(SCALE) = SaidIn(list, options, SCALE)
      BY SaidIs, Zenon
    <3> QED
      BY <3>1, <3>2, Zenon DEF Agreed
  <2> QED
    BY <2>1, <2>2, Zenon DEF SynAgrees
<1> QED
  BY <1>1, ScanHolds, PTL

(* The scan looks at no byte behind the options: scan_options, for every   *)
(* list of options, cut off anywhere.                                      *)
THEOREM StaysWithinOptions == Spec => WithinOptions
<1> DEFINE Looks == syn.state = "scan" /\ (buf' > buf \/ found' # found)
                      => IF options[buf] = NOP THEN buf <= Len(options)
                         ELSE buf + options[buf + 1] - 1 <= Len(options)
<1>1. ASSUME StackType, ScanInv, [Next]_vars
      PROVE  [Looks]_scanVars
  <2> SUFFICES ASSUME syn.state = "scan", buf' > buf \/ found' # found,
                      ~ UNCHANGED scanVars
               PROVE  IF options[buf] = NOP THEN buf <= Len(options)
                      ELSE buf + options[buf + 1] - 1 <= Len(options)
    BY Zenon
  <2>1. ~ Idle
    BY Zenon DEF Idle
  <2>2. ASSUME Scanning
        PROVE  /\ options \in Seq(Byte) /\ buf \in Nat \ {0} /\ found[kind] = -1
               /\ found = [k \in {MSS, SCALE} |-> found[k]]
    BY <1>1, <2>2, WhileScanning, Zenon DEF ScanInv
  <2>3. ASSUME Scanning, Return(-1)
        PROVE  FALSE
    <3>1. PICK f : f = found
      OBVIOUS
    <3>2. f[kind] = -1 /\ f = [k \in {MSS, SCALE} |-> f[k]] /\ buf \in Nat \ {0}
      BY <2>2, <2>3, <3>1, Zenon
    <3>3. buf' = 1 /\ found' = [f EXCEPT ![kind] = -1]
      BY <2>3, <3>1, Zenon DEF Return
    <3>4. [f EXCEPT ![kind] = -1] = f
      BY <3>2
    <3>5. ~ (buf' > buf)
      BY <3>2, <3>3
    <3> QED
      BY <3>1, <3>3, <3>4, <3>5, Zenon
  <2>5. CASE Padding
    <3>1. Scanning /\ buf < Len(options) /\ options[buf] = NOP
      BY <2>5, Zenon DEF Padding, InLoop
    <3>2. buf <= Len(options)
      BY <2>2, <3>1
    <3> QED
      BY <3>1, <3>2, Zenon
  <2>6. CASE EndOfLoop \/ EndOfList
    BY <2>3, <2>6, Zenon DEF EndOfLoop, EndOfList
  <2>7. CASE Option
    <3>1. /\ Scanning /\ buf < Len(options) /\ options[buf] \notin {END_OF_LIST, NOP}
      BY <2>7, Zenon DEF Option, InLoop
    <3>2. ~ Truncated(options[buf + 1])
      BY <2>3, <2>7, <3>1, Zenon DEF Option
    <3>3. PICK size \in Byte : size = options[buf + 1]
      BY <2>2, <3>1
    <3>4. PICK b \in Nat : b = buf
      BY <2>2, <3>1
    <3>5. PICK lo \in Nat : lo = Len(options)
      BY <2>2, <3>1
    <3>6. ~ (b + size > lo + 1)
      BY <3>2, <3>3, <3>4, <3>5, Zenon DEF Truncated
    <3>7. b + size - 1 <= lo
      BY <3>6 DEF Byte, BASE
    <3> QED
      BY <3>1, <3>3, <3>4, <3>5, <3>7, Zenon
  <2>8. CASE Decide
    <3>1. kind > SCALE /\ buf' = buf /\ found' = found
      BY <2>8, Zenon DEF Decide
    <3>2. kind \in MSS .. SCALE + 1 /\ (kind = SCALE + 1 => buf = 1)
      BY <1>1, Zenon DEF ScanInv
    <3>3. kind = SCALE + 1
      BY <3>1, <3>2, Kinds
    <3>4. ~ (1 > 1)
      OBVIOUS
    <3> QED
      BY <3>1, <3>2, <3>3, <3>4, Zenon
  <2>9. Idle \/ UNCHANGED scanVars \/ ScanNext
    BY <1>1, Zenon DEF Next, Scan, Leave, vars, handle_rx_packet, send_tcp_packet
  <2> QED
    BY <2>1, <2>5, <2>6, <2>7, <2>8, <2>9, Zenon DEF ScanNext
<1>2. (Spec => [][Looks]_scanVars) => (Spec => WithinOptions)
  BY Zenon DEF WithinOptions
<1>3. Spec => [][Looks]_scanVars
  BY <1>1, TypeHolds, ScanHolds, PTL DEF Spec
<1> QED
  BY <1>2, <1>3, Zenon
=============================================================================
