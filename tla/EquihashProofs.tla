--------------------------- MODULE EquihashProofs ---------------------------
(***************************************************************************)
(* For every number of rounds, widths, hashes and strings of bytes: the    *)
(* rows keep their shape, an accepted solution uses no index twice, and    *)
(* the verdict is that of the definition.                                  *)
(*                                                                         *)
(* DistinctIndices compares the halves of a row only.  EquihashInv says    *)
(* that row m of a round with w indices to a row holds the indices at the  *)
(* positions (m - 1) * w + 1 .. m * w of the solution, all different; the  *)
(* one row that is left holds them all.                                    *)
(*                                                                         *)
(* VerdictInv adds what the rows mean: the indices are the numbers whose   *)
(* bits are those of the string, the segments left of row m are the        *)
(* exclusive or over node m, and every node below the rows is a collision. *)
(* So a pair that is refused refutes the solution, and the last row        *)
(* decides the rest.                                                       *)
(***************************************************************************)
EXTENDS EquihashProperties, SequenceTheorems, FiniteSetTheorems,
        WellFoundedInduction, TLAPS

Covers(row, w, m) ==
  /\ \A j \in 1..w : row.indices[j] = indices[(m - 1) * w + j]
  /\ \A k, j \in 1..w : k # j => row.indices[k] # row.indices[j]

RoundOK(l) ==
  /\ Len(indices) = 2^K
  /\ X \in [1..2^(K - l) -> Row(K + 1 - l, 2^l)]
  /\ \E n \in 0..(Len(X) \div 2) : Xc \in [1..n -> Row(K - l, 2^(l + 1))]
  /\ \A m \in DOMAIN X : Covers(X[m], 2^l, m)
  /\ \A m \in DOMAIN Xc : Covers(Xc[m], 2^(l + 1), m)

\* Every bit of the bytes taken is in an index or in the accumulator.
Expanded ==
  /\ i \in 0..Len(soln) /\ accBits \in 0..(BitLen - 1)
  /\ accValue \in 0..(2^WordBits - 1) /\ indices \in Seq(Indices)
  /\ ByteBits * i = BitLen * Len(indices) + accBits

EquihashInv ==
  /\ blake \in Hashes /\ soln \in Solutions
  /\ Expanded
  /\ result \in {"none", "valid", "invalid"}
  /\ X # <<>> => \E l \in 0..K : RoundOK(l)
  /\ X = <<>> => Xc = <<>> /\ result # "valid"
  /\ result = "valid" => Len(X) = 1

-----------------------------------------------------------------------------
\* A function on 1..n is a sequence of length n.
LEMMA Table1 ==
  ASSUME NEW n \in Nat, NEW S, NEW f \in [1..n -> S]
  PROVE  f \in Seq(S) /\ Len(f) = n /\ DOMAIN f = 1..n
OBVIOUS

\* A table that grows by one row.
LEMMA Appended ==
  ASSUME NEW S, NEW f \in Seq(S), NEW e \in S
  PROVE  /\ Append(f, e) \in [1..(Len(f) + 1) -> S]
         /\ \A m \in 1..Len(f) : Append(f, e)[m] = f[m]
         /\ Append(f, e)[Len(f) + 1] = e
<1>1. Append(f, e) \in Seq(S) /\ Len(Append(f, e)) = Len(f) + 1
  BY AppendProperties
<1>2. Append(f, e) \in [1..Len(Append(f, e)) -> S]
  BY <1>1, LenProperties
<1> QED BY <1>1, <1>2, AppendProperties

\* Quotients of naturals.
LEMMA Quotient ==
  ASSUME NEW x \in Nat, NEW a \in Nat \ {0}
  PROVE  x \div a \in Nat
OBVIOUS

\* Widths, and the powers of two of words and indices.
LEMMA Widths ==
  /\ ByteBits \in Nat \ {0} /\ BitLen \in Nat \ {0} /\ WordBits \in Nat
  /\ ByteBits <= BitLen /\ BitLen <= WordBits
  /\ \A n \in 0..WordBits : 2^n \in Nat \ {0}
  /\ Indices = 0..(2^BitLen - 1) /\ Indices \subseteq Nat
<1>1. /\ ByteBits \in Nat \ {0} /\ BitLen \in Nat \ {0} /\ WordBits \in Nat
      /\ ByteBits <= BitLen /\ BitLen <= WordBits /\ K \in Nat
  BY RoundsAssumption, WidthAssumption
<1>2. \A n \in 0..WordBits : n \in 0..(K + WordBits)
  BY <1>1
<1>3. \A n \in 0..WordBits : 2^n \in Nat \ {0}
  BY <1>2, PowersAssumption
<1>4. BitLen \in 0..WordBits
  BY <1>1
<1> DEFINE size == 2^BitLen
<1>5. size \in Nat \ {0}
  BY <1>3, <1>4
<1>6. Indices = 0..(size - 1)
  BY DEF Indices
<1> HIDE DEF size
<1>7. Indices \subseteq Nat
  BY <1>5, <1>6
<1> QED BY <1>1, <1>3, <1>6, <1>7 DEF size

\* The powers of two the rounds meet.
LEMMA Powers ==
  ASSUME NEW l \in 0..K
  PROVE  /\ K \in Nat /\ l \in Nat /\ l <= K
         /\ 2^l \in Nat \ {0} /\ 2^(l + 1) = 2 * 2^l
         /\ 2^(K - l) \in Nat \ {0}
         /\ l < K => /\ l + 1 \in 0..K /\ 2^(K - (l + 1)) \in Nat \ {0}
                     /\ 2^(K - l) = 2 * 2^(K - (l + 1))
         /\ l = K => 2^(K - l) = 1
<1>1. K \in Nat /\ l \in Nat /\ l <= K /\ K - l \in 0..K
  BY RoundsAssumption
<1>2. ASSUME l < K
      PROVE  l + 1 \in 0..K /\ K - (l + 1) \in 0..K /\ (K - (l + 1)) + 1 = K - l
  BY <1>1, <1>2
<1>3. l = K => 2^(K - l) = 1
  <2> SUFFICES ASSUME l = K PROVE 2^(K - l) = 1
    OBVIOUS
  <2>1. K - l = 0
    BY <1>1
  <2> QED BY <2>1
<1>4. \A n \in 0..K : n \in 0..(K + WordBits)
  BY <1>1, Widths
<1>5. \A n \in 0..K : 2^n \in Nat \ {0} /\ 2^(n + 1) = 2 * 2^n
  BY <1>4, PowersAssumption
<1> QED BY <1>1, <1>2, <1>3, <1>5

\* The places of a merged row are those of its halves.
LEMMA Places ==
  ASSUME NEW n \in Nat, NEW w \in Nat, NEW j \in Nat
  PROVE  /\ n * (2 * w) + j = (2 * n) * w + j
         /\ n * (2 * w) + j = (2 * n + 1) * w + (j - w)
<1>1. n * (2 * w) = (2 * n) * w /\ (2 * n + 1) * w = (2 * n) * w + w
  OBVIOUS
<1>2. n * (2 * w) \in Nat /\ (2 * n) * w \in Nat
  OBVIOUS
<1> QED BY <1>1, <1>2

\* Rows in order that share no index: the left one goes first.
LEMMA LeftFirst ==
  ASSUME NEW h \in Nat, NEW w \in Nat \ {0},
         NEW a \in Row(h, w), NEW b \in Row(h, w),
         ~IndicesBefore(b, a), DistinctIndices(a, b)
  PROVE  IndicesBefore(a, b)
<1>1. DOMAIN a.indices = 1..w /\ DOMAIN b.indices = 1..w /\ 1 \in 1..w
  BY DEF Row
<1>2. a.indices[1] \in Nat /\ b.indices[1] \in Nat
  BY <1>1, Widths DEF Row
<1>3. a.indices[1] # b.indices[1]
  BY <1>1 DEF DistinctIndices
<1>4. ~(b.indices[1] < a.indices[1])
  BY <1>1 DEF IndicesBefore
<1>5. a.indices[1] < b.indices[1]
  BY <1>2, <1>3, <1>4
<1> QED BY <1>1, <1>5 DEF IndicesBefore

\* What a merge makes of a good pair.
LEMMA MergedRow ==
  ASSUME NEW h \in Nat \ {0}, NEW w \in Nat \ {0}, NEW n \in Nat,
         NEW a \in Row(h, w), NEW b \in Row(h, w),
         ~IndicesBefore(b, a), DistinctIndices(a, b),
         Covers(a, w, 2 * n + 1), Covers(b, w, 2 * n + 2)
  PROVE  /\ Merged(a, b) \in Row(h - 1, 2 * w)
         /\ Covers(Merged(a, b), 2 * w, n + 1)
<1> DEFINE r == Merged(a, b)
<1>1. /\ a.hash \in [1..h -> SUBSET Bits] /\ b.hash \in [1..h -> SUBSET Bits]
      /\ a.indices \in [1..w -> Indices] /\ b.indices \in [1..w -> Indices]
  BY DEF Row
<1>2. /\ Len(a.hash) = h
      /\ a.indices \in Seq(Indices) /\ Len(a.indices) = w
      /\ b.indices \in Seq(Indices) /\ Len(b.indices) = w
  BY <1>1, Table1
<1>3. r.indices = a.indices \o b.indices
  BY LeftFirst DEF Merged
<1>4. /\ DOMAIN r.indices = 1..(2 * w)
      /\ \A j \in 1..(2 * w) :
           r.indices[j] = IF j <= w THEN a.indices[j] ELSE b.indices[j - w]
  <2> DEFINE p == a.indices
             q == b.indices
  <2>1. /\ p \in Seq(Indices) /\ Len(p) = w /\ q \in Seq(Indices) /\ Len(q) = w
        /\ w \in Nat
    BY <1>2
  <2> HIDE DEF p, q
  <2>2. Len(p \o q) = w + w /\ w + w = 2 * w
    BY <2>1
  <2>3. DOMAIN (p \o q) = 1..Len(p \o q)
    BY <2>1
  <2>4. \A j \in 1..Len(p \o q) : (p \o q)[j] = IF j <= w THEN p[j] ELSE q[j - w]
    BY <2>1
  <2>5. r.indices = p \o q
    BY <1>3 DEF p, q
  <2>6. /\ DOMAIN r.indices = 1..(2 * w)
        /\ \A j \in 1..(2 * w) : r.indices[j] = IF j <= w THEN p[j] ELSE q[j - w]
    BY <2>2, <2>3, <2>4, <2>5, Zenon
  <2> QED BY <2>6 DEF p, q
<1>5. \A j \in 1..(2 * w) :
        IF j <= w THEN j \in 1..w ELSE j - w \in 1..w
  OBVIOUS
<1>6. r.indices \in [1..(2 * w) -> Indices]
  <2>1. \A j \in 1..(2 * w) : r.indices[j] \in Indices
    BY <1>1, <1>4, <1>5
  <2>2. r.indices \in Seq(Indices)
    BY <1>2, <1>3
  <2> QED BY <1>4, <2>1, <2>2
<1>7. r.hash \in [1..(h - 1) -> SUBSET Bits]
  <2>1. r.hash = [s \in 1..(h - 1) |-> Xor(a.hash[s + 1], b.hash[s + 1])]
    BY <1>2 DEF Merged
  <2>2. \A s \in 1..(h - 1) : s + 1 \in 1..h
    OBVIOUS
  <2>3. \A s \in 1..(h - 1) : Xor(a.hash[s + 1], b.hash[s + 1]) \subseteq Bits
    BY <1>1, <2>2 DEF Xor
  <2> QED BY <2>1, <2>3
<1>8. r \in Row(h - 1, 2 * w)
  <2>1. r = [hash |-> r.hash, indices |-> r.indices]
    BY DEF Merged
  <2> QED BY <1>6, <1>7, <2>1 DEF Row
<1>9. ASSUME NEW j \in 1..(2 * w)
      PROVE  r.indices[j] = indices[n * (2 * w) + j]
  <2>1. CASE j <= w
    <3>1. r.indices[j] = indices[(2 * n) * w + j]
      <4>1. r.indices[j] = indices[((2 * n + 1) - 1) * w + j]
        BY <1>4, <1>5, <2>1 DEF Covers
      <4>2. (2 * n + 1) - 1 = 2 * n
        OBVIOUS
      <4> QED BY <4>1, <4>2
    <3> QED BY <3>1, Places
  <2>2. CASE ~(j <= w)
    <3>1. r.indices[j] = indices[(2 * n + 1) * w + (j - w)]
      <4>1. r.indices[j] = indices[((2 * n + 2) - 1) * w + (j - w)]
        BY <1>4, <1>5, <2>2 DEF Covers
      <4>2. (2 * n + 2) - 1 = 2 * n + 1
        OBVIOUS
      <4> QED BY <4>1, <4>2
    <3> QED BY <3>1, Places
  <2> QED BY <2>1, <2>2
<1>10. ASSUME NEW k \in 1..(2 * w), NEW j \in 1..(2 * w), k # j
       PROVE  r.indices[k] # r.indices[j]
  <2>1. CASE k <= w /\ j <= w
    BY <1>4, <1>5, <1>10, <2>1 DEF Covers
  <2>2. CASE ~(k <= w) /\ ~(j <= w)
    <3>1. k - w \in 1..w /\ j - w \in 1..w /\ k - w # j - w
      BY <1>5, <1>10, <2>2
    <3>2. b.indices[k - w] # b.indices[j - w]
      BY <3>1 DEF Covers
    <3> QED BY <1>4, <2>2, <3>2
  <2>3. CASE k <= w /\ ~(j <= w)
    BY <1>1, <1>4, <1>5, <2>3 DEF DistinctIndices
  <2>4. CASE ~(k <= w) /\ j <= w
    BY <1>1, <1>4, <1>5, <2>4 DEF DistinctIndices
  <2> QED BY <2>1, <2>2, <2>3, <2>4
<1>11. Covers(r, 2 * w, n + 1)
  <2>1. (n + 1) - 1 = n
    OBVIOUS
  <2> QED BY <1>9, <1>10, <2>1 DEF Covers
<1> QED BY <1>8, <1>11

-----------------------------------------------------------------------------
\* The invariant holds at first.
LEMMA InitEquihash == Init => EquihashInv
<1> SUFFICES ASSUME Init PROVE EquihashInv
  OBVIOUS
<1>1. soln \in Seq(Bytes) /\ i = 0 /\ accBits = 0 /\ accValue = 0 /\ indices = <<>>
  BY SolutionsAssumption DEF Init
<1>2. i \in 0..Len(soln) /\ indices \in Seq(Indices) /\ Len(indices) = 0
  BY <1>1
<1>3. accBits \in 0..(BitLen - 1) /\ ByteBits * i = BitLen * Len(indices) + accBits
  BY <1>1, <1>2, Widths
<1>4. accValue \in 0..(2^WordBits - 1)
  <2> DEFINE word == 2^WordBits
  <2>1. word \in Nat \ {0}
    BY Widths
  <2> HIDE DEF word
  <2>2. 0 \in 0..(word - 1)
    BY <2>1
  <2> QED BY <1>1, <2>2 DEF word
<1> QED BY <1>1, <1>2, <1>3, <1>4 DEF Init, EquihashInv, Expanded

\* A byte goes into the accumulator, and perhaps an index out of it.
LEMMA ExpandByteInv ==
  ASSUME EquihashInv, ExpandByte
  PROVE  EquihashInv'
<1>1. /\ X = <<>> /\ i < Len(soln) /\ i' = i + 1
      /\ accValue' = (accValue * 2^ByteBits + soln[i + 1]) % 2^WordBits
      /\ UNCHANGED <<blake, soln, X, Xc, result>>
  BY DEF ExpandByte, Shifted, arguments
<1>2. /\ soln \in Seq(Bytes) /\ i \in 0..Len(soln) /\ accBits \in 0..(BitLen - 1)
      /\ accValue \in 0..(2^WordBits - 1) /\ indices \in Seq(Indices)
      /\ ByteBits * i = BitLen * Len(indices) + accBits
  BY SolutionsAssumption DEF EquihashInv, Expanded
<1>3. i' \in 0..Len(soln)
  BY <1>1, <1>2
<1>4. accValue' \in 0..(2^WordBits - 1) /\ accValue' \in Nat
  <2> DEFINE word == 2^WordBits
             bits == 2^ByteBits
  <2>1. word \in Nat \ {0} /\ bits \in Nat \ {0}
    BY Widths
  <2>2. soln[i + 1] \in Nat
    <3>1. soln[i + 1] \in 0..(bits - 1)
      <4>1. i + 1 \in 1..Len(soln)
        BY <1>1, <1>2
      <4>2. soln[i + 1] \in Bytes
        BY <1>2, <4>1, ElementOfSeq
      <4> QED BY <4>2 DEF Bytes
    <3> HIDE DEF bits
    <3> QED BY <2>1, <3>1
  <2>3. accValue' = (accValue * bits + soln[i + 1]) % word
    BY <1>1
  <2>4. accValue \in 0..(word - 1)
    BY <1>2
  <2> HIDE DEF word, bits
  <2>5. accValue * bits \in Nat
    BY <2>1, <2>4
  <2>6. accValue' \in 0..(word - 1) /\ accValue' \in Nat
    BY <2>1, <2>2, <2>3, <2>5
  <2> QED BY <2>6 DEF word
<1>5. PICK n \in Nat : n = Len(indices)
  BY <1>2
<1>6. CASE FillsIndex
  <2> DEFINE index == (accValue' \div 2^accBits') % 2^BitLen
  <2>1. /\ accBits + ByteBits >= BitLen /\ accBits' = (accBits + ByteBits) - BitLen
        /\ indices' = Append(indices, index)
    BY <1>6 DEF ExpandByte, FillsIndex
  <2>2. accBits' \in 0..(BitLen - 1)
    BY <1>2, <2>1, Widths
  <2>3. index \in Indices
    <3> DEFINE a == 2^accBits'
               b == 2^BitLen
    <3>1. a \in Nat \ {0} /\ b \in Nat \ {0}
      <4>1. accBits' \in 0..WordBits /\ BitLen \in 0..WordBits
        BY <2>2, Widths
      <4> QED BY <4>1, Widths
    <3>2. index = (accValue' \div a) % b
      OBVIOUS
    <3> HIDE DEF a, b, index
    <3>3. accValue' \div a \in Nat
      BY <1>4, <3>1, Quotient
    <3>4. index \in 0..(b - 1)
      BY <3>1, <3>2, <3>3
    <3> QED BY <3>4, Widths DEF b
  <2> HIDE DEF index
  <2>4. indices' \in Seq(Indices) /\ Len(indices') = n + 1
    BY <1>2, <1>5, <2>1, <2>3, AppendProperties
  <2>5. ByteBits * (i + 1) = BitLen * (n + 1) + accBits'
    <3> DEFINE a == ByteBits * i
               b == BitLen * n
    <3>1. ByteBits * (i + 1) = a + ByteBits /\ BitLen * (n + 1) = b + BitLen
      BY <1>2, Widths
    <3>2. a \in Int /\ b \in Int /\ a = b + accBits
      BY <1>2, <1>5, Widths
    <3> HIDE DEF a, b
    <3>3. a + ByteBits = (b + BitLen) + accBits'
      BY <1>2, <2>1, <3>2, Widths
    <3> QED BY <3>1, <3>3
  <2>6. Expanded'
    BY <1>1, <1>3, <1>4, <2>2, <2>4, <2>5 DEF Expanded
  <2> QED BY <1>1, <2>6 DEF EquihashInv
<1>7. CASE ~FillsIndex
  <2>1. /\ ~(accBits + ByteBits >= BitLen) /\ accBits' = accBits + ByteBits
        /\ indices' = indices
    BY <1>7 DEF ExpandByte, FillsIndex
  <2>2. accBits' \in 0..(BitLen - 1)
    BY <1>2, <2>1, Widths
  <2>3. ByteBits * (i + 1) = BitLen * n + accBits'
    <3> DEFINE a == ByteBits * i
               b == BitLen * n
    <3>1. ByteBits * (i + 1) = a + ByteBits
      BY <1>2, Widths
    <3>2. a \in Int /\ b \in Int /\ a = b + accBits
      BY <1>2, <1>5, Widths
    <3> HIDE DEF a, b
    <3>3. a + ByteBits = b + accBits'
      BY <1>2, <2>1, <3>2, Widths
    <3> QED BY <3>1, <3>3 DEF b
  <2>4. Expanded'
    BY <1>1, <1>2, <1>3, <1>4, <1>5, <2>1, <2>2, <2>3 DEF Expanded
  <2> QED BY <1>1, <2>4 DEF EquihashInv
<1> QED BY <1>6, <1>7

\* When all bytes are taken there are 2^K indices.
LEMMA AllExpanded ==
  ASSUME EquihashInv, Len(soln) = SolutionWidth, i = Len(soln)
  PROVE  Len(indices) = 2^K
<1> DEFINE all == 2^K
           n == Len(indices)
<1>1. n \in Nat /\ accBits \in 0..(BitLen - 1) /\ ByteBits * i = BitLen * n + accBits
  BY DEF EquihashInv, Expanded
<1>2. all \in Nat /\ ByteBits * i = all * BitLen
  <2>1. K \in 0..K
    BY RoundsAssumption
  <2> QED BY <2>1, Powers, WidthAssumption
<1>3. BitLen \in Nat \ {0}
  BY Widths
<1> HIDE DEF all, n
<1>4. all * BitLen = BitLen * n + accBits
  BY <1>1, <1>2
<1>5. ASSUME all > n PROVE FALSE
  <2>1. PICK d \in Nat : all = n + 1 + d
    <3>1. all - n - 1 \in Nat
      BY <1>1, <1>2, <1>5
    <3> QED BY <1>1, <1>2, <3>1
  <2>2. all * BitLen = BitLen * n + BitLen + d * BitLen
    BY <1>1, <1>3, <2>1
  <2>3. d * BitLen \in Nat /\ BitLen * n \in Nat
    BY <1>1, <1>3
  <2> QED BY <1>1, <1>3, <1>4, <2>2, <2>3
<1>6. ASSUME all < n PROVE FALSE
  <2>1. PICK d \in Nat : n = all + 1 + d
    <3>1. n - all - 1 \in Nat
      BY <1>1, <1>2, <1>6
    <3> QED BY <1>1, <1>2, <3>1
  <2>2. BitLen * n = all * BitLen + BitLen + d * BitLen
    BY <1>2, <1>3, <2>1
  <2>3. d * BitLen \in Nat /\ all * BitLen \in Nat
    BY <1>2, <1>3
  <2> QED BY <1>1, <1>3, <1>4, <2>2, <2>3
<1>7. all = n
  BY <1>1, <1>2, <1>5, <1>6
<1> QED BY <1>7 DEF all, n

\* The rows of the first round.
LEMMA MakeRowsInv ==
  ASSUME EquihashInv, MakeRows, result = "none"
  PROVE  EquihashInv'
<1>1. /\ X = <<>> /\ Xc = <<>> /\ Len(indices) = 2^K
      /\ X' = [p \in 1..Len(indices) |->
                 [hash |-> blake[indices[p]], indices |-> <<indices[p]>>]]
      /\ UNCHANGED <<blake, soln, i, accBits, accValue, indices, Xc, result>>
  BY AllExpanded DEF MakeRows, EquihashInv, arguments, expansion
<1>2. /\ blake \in [Indices -> [1..(K + 1) -> SUBSET Bits]]
      /\ indices \in Seq(Indices)
  BY HashesAssumption DEF EquihashInv, Expanded
<1>3. K \in Nat /\ 0 \in 0..K /\ K - 0 = K /\ K + 1 - 0 = K + 1
      /\ 2^0 = 1 /\ 2^(0 + 1) = 2 /\ 2^K \in Nat
  <2>1. K \in Nat /\ 0 \in 0..K /\ K - 0 = K /\ K + 1 - 0 = K + 1
    BY RoundsAssumption
  <2>2. 2^0 = 1
    OBVIOUS
  <2> QED BY <2>1, <2>2, Powers
<1>4. ASSUME NEW p \in 1..Len(indices)
      PROVE  [hash |-> blake[indices[p]], indices |-> <<indices[p]>>] \in Row(K + 1, 1)
  <2>1. indices[p] \in Indices
    BY <1>2
  <2>2. blake[indices[p]] \in [1..(K + 1) -> SUBSET Bits]
    BY <1>2, <2>1
  <2>3. <<indices[p]>> \in [1..1 -> Indices]
    BY <2>1
  <2> QED BY <2>2, <2>3 DEF Row
<1>5. X' \in [1..2^(K - 0) -> Row(K + 1 - 0, 2^0)]
  BY <1>1, <1>3, <1>4
<1>6. X' # <<>> /\ DOMAIN X' = 1..Len(indices) /\ Len(X') \in Nat
  <2>1. 2^K # 0
    BY Powers, <1>3
  <2>2. 1 \in 1..Len(indices)
    BY <1>1, <1>3, <2>1
  <2>3. X' # <<>>
    BY <1>1, <2>2
  <2>4. Len(X') = 2^K
    BY <1>3, <1>5, Table1
  <2> QED BY <1>1, <1>3, <2>3, <2>4
<1>7. RoundOK(0)'
  <2>1. \E n \in 0..(Len(X') \div 2) : Xc' \in [1..n -> Row(K - 0, 2^(0 + 1))]
    <3>1. 0 \in 0..(Len(X') \div 2)
      BY <1>6
    <3>2. Xc' \in [1..0 -> Row(K - 0, 2^(0 + 1))]
      BY <1>1
    <3> QED BY <3>1, <3>2
  <2>2. ASSUME NEW m \in DOMAIN X' PROVE Covers(X[m], 2^0, m)'
    <3>1. m \in 1..Len(indices) /\ X'[m].indices = <<indices[m]>>
      BY <1>1, <1>6
    <3>2. \A j \in 1..1 : j = 1 /\ (m - 1) * 1 + j = m
      BY <3>1, <1>1, <1>3
    <3> QED BY <1>1, <1>3, <3>1, <3>2 DEF Covers
  <2>3. \A m \in DOMAIN Xc' : Covers(Xc[m], 2^(0 + 1), m)'
    BY <1>1
  <2> QED BY <1>1, <1>5, <2>1, <2>2, <2>3 DEF RoundOK
<1>20. Expanded'
  BY <1>1 DEF EquihashInv, Expanded
<1> QED BY <1>1, <1>3, <1>6, <1>7, <1>20 DEF EquihashInv

\* A pair of a round that is left: both rows are there.
LEMMA Pair ==
  ASSUME NEW l \in 0..K, RoundOK(l), PairLeft
  PROVE  /\ l < K /\ Len(X) = 2 * 2^(K - (l + 1)) /\ DOMAIN X = 1..Len(X)
         /\ 2^(K - (l + 1)) \in Nat
         /\ Len(Xc) \in Nat /\ Xc \in [1..Len(Xc) -> Row(K - l, 2^(l + 1))]
         /\ Len(Xc) + 1 <= Len(X) \div 2
         /\ 2 * Len(Xc) + 1 \in DOMAIN X /\ 2 * Len(Xc) + 2 \in DOMAIN X
<1>1. Len(X) = 2^(K - l) /\ DOMAIN X = 1..Len(X)
  BY Powers, Table1 DEF RoundOK
<1>2. PICK n \in 0..(Len(X) \div 2) : Xc \in [1..n -> Row(K - l, 2^(l + 1))]
  BY DEF RoundOK
<1>3. Len(X) > 1 /\ Len(X) \in Nat /\ n \in Nat
  BY <1>1, Powers DEF PairLeft
<1>4. Len(Xc) = n
  BY <1>2, <1>3, Table1
<1>5. l < K
  BY <1>1, <1>3, Powers
<1>6. Len(X) = 2 * 2^(K - (l + 1)) /\ 2^(K - (l + 1)) \in Nat
  BY <1>1, <1>5, Powers
<1> DEFINE half == 2^(K - (l + 1))
<1>7. half \in Nat /\ Len(X) = 2 * half /\ 2 * n < Len(X)
  BY <1>4, <1>6 DEF PairLeft
<1> HIDE DEF half
<1>8. n + 1 <= Len(X) \div 2 /\ 2 * n + 1 \in 1..Len(X) /\ 2 * n + 2 \in 1..Len(X)
  BY <1>3, <1>7
<1> QED BY <1>1, <1>2, <1>3, <1>4, <1>5, <1>6, <1>8

\* A good pair is merged.
LEMMA MergePairInv ==
  ASSUME EquihashInv, MergePair, result = "none"
  PROVE  EquihashInv'
<1>1. /\ PairLeft /\ GoodPair /\ Xc' = Append(Xc, Merged(Left, Right))
      /\ UNCHANGED <<blake, soln, i, accBits, accValue, indices, X, result>>
  BY DEF MergePair, arguments, expansion
<1>2. X # <<>>
  BY <1>1 DEF PairLeft
<1>3. PICK l \in 0..K : RoundOK(l)
  BY <1>2 DEF EquihashInv
<1>0. PICK n \in Nat : n = Len(Xc)
  BY <1>1, <1>3, Pair
<1> DEFINE w == 2^l
<1>4. /\ l < K /\ DOMAIN X = 1..Len(X)
      /\ Xc \in [1..n -> Row(K - l, 2^(l + 1))]
      /\ n + 1 <= Len(X) \div 2
      /\ 2 * n + 1 \in DOMAIN X /\ 2 * n + 2 \in DOMAIN X
  BY <1>0, <1>1, <1>3, Pair
<1>5. /\ w \in Nat \ {0} /\ 2^(l + 1) = 2 * w
      /\ K + 1 - l \in Nat \ {0} /\ (K + 1 - l) - 1 = K - l /\ l \in Nat
  <2>1. w \in Nat \ {0} /\ 2^(l + 1) = 2 * w
    BY Powers
  <2>2. K \in Nat /\ l \in Nat /\ l < K
    BY <1>4, RoundsAssumption
  <2> QED BY <2>1, <2>2
<1>6. /\ Left \in Row(K + 1 - l, w) /\ Right \in Row(K + 1 - l, w)
      /\ Covers(Left, w, 2 * n + 1) /\ Covers(Right, w, 2 * n + 2)
  <2>1. X \in [1..2^(K - l) -> Row(K + 1 - l, w)]
    BY <1>3 DEF RoundOK
  <2>2. DOMAIN X = 1..2^(K - l)
    BY <2>1
  <2> QED BY <1>0, <1>3, <1>4, <2>1, <2>2 DEF RoundOK, Left, Right
<1>7. /\ Merged(Left, Right) \in Row(K - l, 2^(l + 1))
      /\ Covers(Merged(Left, Right), 2^(l + 1), n + 1)
  <2> DEFINE h == K + 1 - l
             row == Merged(Left, Right)
  <2>1. /\ h \in Nat \ {0} /\ w \in Nat \ {0}
        /\ Left \in Row(h, w) /\ Right \in Row(h, w)
        /\ Covers(Left, w, 2 * n + 1) /\ Covers(Right, w, 2 * n + 2)
    BY <1>5, <1>6
  <2>2. ~IndicesBefore(Right, Left) /\ DistinctIndices(Left, Right)
    BY <1>1 DEF GoodPair
  <2>3. h - 1 = K - l /\ 2^(l + 1) = 2 * w
    BY <1>5
  <2> HIDE DEF w, h
  <2>4. row \in Row(h - 1, 2 * w) /\ Covers(row, 2 * w, n + 1)
    BY <2>1, <2>2, MergedRow
  <2> HIDE DEF row
  <2>5. row \in Row(K - l, 2^(l + 1)) /\ Covers(row, 2^(l + 1), n + 1)
    BY <2>3, <2>4
  <2> QED BY <2>5 DEF row
<1> DEFINE row == Merged(Left, Right)
           R == Row(K - l, 2^(l + 1))
<1>8. /\ Xc' \in [1..(n + 1) -> R]
      /\ \A m \in 1..n : Xc'[m] = Xc[m]
      /\ Xc'[n + 1] = row
  <2>1. Xc \in Seq(R) /\ row \in R /\ Xc' = Append(Xc, row)
    BY <1>1, <1>4, <1>7, Table1
  <2> HIDE DEF row, R
  <2> QED BY <1>0, <2>1, Appended
<1>9. RoundOK(l)'
  <2>1. n + 1 \in 0..(Len(X') \div 2)
    BY <1>1, <1>4
  <2>2. \A m \in DOMAIN Xc' : Covers(Xc[m], 2^(l + 1), m)'
    <3>1. \A m \in DOMAIN Xc' : m \in 1..n \/ m = n + 1
      BY <1>4, <1>8
    <3>2. \A m \in 1..n : Covers(Xc[m], 2^(l + 1), m)
      BY <1>3, <1>4 DEF RoundOK
    <3>3. ASSUME NEW m \in 1..n PROVE Covers(Xc[m], 2^(l + 1), m)'
      <4>1. Xc'[m] = Xc[m] /\ Covers(Xc[m], 2^(l + 1), m)
        BY <1>8, <3>2
      <4> QED BY <1>1, <4>1 DEF Covers
    <3>4. Covers(Xc[n + 1], 2^(l + 1), n + 1)'
      BY <1>1, <1>7, <1>8 DEF Covers
    <3> QED BY <3>1, <3>3, <3>4
  <2>3. \A m \in DOMAIN X' : Covers(X[m], 2^l, m)'
    BY <1>1, <1>3 DEF RoundOK, Covers
  <2> QED BY <1>1, <1>3, <1>8, <2>1, <2>2, <2>3 DEF RoundOK
<1>20. Expanded'
  BY <1>1 DEF EquihashInv, Expanded
<1> QED BY <1>1, <1>2, <1>9, <1>20 DEF EquihashInv

\* All pairs are merged: the next round.
LEMMA NextRoundInv ==
  ASSUME EquihashInv, NextRound, result = "none"
  PROVE  EquihashInv'
<1>1. /\ Len(X) > 1 /\ 2 * Len(Xc) = Len(X) /\ X' = Xc /\ Xc' = <<>>
      /\ UNCHANGED <<blake, soln, i, accBits, accValue, indices, result>>
  BY DEF NextRound, arguments, expansion
<1>2. X # <<>>
  BY <1>1
<1>3. PICK l \in 0..K : RoundOK(l)
  BY <1>2 DEF EquihashInv
<1>4. PICK n \in 0..(Len(X) \div 2) : Xc \in [1..n -> Row(K - l, 2^(l + 1))]
  BY <1>3 DEF RoundOK
<1>5. Len(X) = 2^(K - l) /\ Len(X) \in Nat
  BY <1>3, Powers, Table1 DEF RoundOK
<1>6. n \in Nat /\ Len(Xc) = n
  BY <1>4, <1>5, Table1
<1>7. l < K
  BY <1>1, <1>5, Powers
<1> DEFINE half == 2^(K - (l + 1))
<1>8. half \in Nat \ {0} /\ Len(X) = 2 * half /\ l + 1 \in 0..K
  BY <1>5, <1>7, Powers
<1>9. n = half
  <2> HIDE DEF half
  <2> QED BY <1>1, <1>6, <1>8
<1>10. /\ X' \in [1..2^(K - (l + 1)) -> Row(K + 1 - (l + 1), 2^(l + 1))]
       /\ DOMAIN X' = 1..n
  <2>1. K + 1 - (l + 1) = K - l
    BY Powers
  <2> QED BY <1>1, <1>4, <1>9, <2>1
<1>11. X' # <<>> /\ Len(X') \in Nat
  <2>1. 1 \in 1..n
    BY <1>8, <1>9
  <2> QED BY <1>1, <1>6, <1>10, <2>1
<1>12. RoundOK(l + 1)'
  <2>1. 0 \in 0..(Len(X') \div 2)
    BY <1>11
  <2>2. Xc' \in [1..0 -> Row(K - (l + 1), 2^((l + 1) + 1))]
    BY <1>1
  <2>3. ASSUME NEW m \in DOMAIN X' PROVE Covers(X[m], 2^(l + 1), m)'
    <3>1. m \in DOMAIN Xc /\ X'[m] = Xc[m]
      BY <1>1
    <3>2. Covers(Xc[m], 2^(l + 1), m)
      BY <1>3, <3>1 DEF RoundOK
    <3> QED BY <1>1, <3>1, <3>2 DEF Covers
  <2>4. \A m \in DOMAIN Xc' : Covers(Xc[m], 2^((l + 1) + 1), m)'
    BY <1>1
  <2> QED BY <1>1, <1>3, <1>10, <2>1, <2>2, <2>3, <2>4 DEF RoundOK
<1>20. Expanded'
  BY <1>1 DEF EquihashInv, Expanded
<1> QED BY <1>1, <1>8, <1>11, <1>12, <1>20 DEF EquihashInv

\* The check returns.
LEMMA ReturnInv ==
  ASSUME EquihashInv, NEW verdict \in {"valid", "invalid"}, Return(verdict),
         verdict = "valid" => Len(X) = 1
  PROVE  EquihashInv'
<1>1. result' = verdict /\ UNCHANGED <<blake, soln, i, accBits, accValue, indices, X, Xc>>
  BY DEF Return, arguments, expansion
<1>2. \A l \in 0..K : RoundOK(l) => RoundOK(l)'
  BY <1>1 DEF RoundOK, Covers
<1>3. X = <<>> => Len(X) = 0
  OBVIOUS
<1>4. Expanded'
  BY <1>1 DEF EquihashInv, Expanded
<1> QED BY <1>1, <1>2, <1>3, <1>4 DEF EquihashInv

\* Every step keeps the invariant.
LEMMA StepInv == EquihashInv /\ [Next]_vars => EquihashInv'
<1> SUFFICES ASSUME EquihashInv, [Next]_vars PROVE EquihashInv'
  OBVIOUS
<1>1. CASE UNCHANGED vars
  <2>1. UNCHANGED <<blake, soln, i, accBits, accValue, indices, X, Xc, result>>
    BY <1>1 DEF vars
  <2>2. \A l \in 0..K : RoundOK(l) => RoundOK(l)'
    BY <2>1 DEF RoundOK, Covers
  <2>3. Expanded'
    BY <2>1 DEF EquihashInv, Expanded
  <2> QED BY <2>1, <2>2, <2>3 DEF EquihashInv
<1>2. CASE result = "none" /\ WrongWidth
  BY <1>2, ReturnInv DEF WrongWidth
<1>8. CASE result = "none" /\ ExpandByte
  BY <1>8, ExpandByteInv
<1>3. CASE result = "none" /\ MakeRows
  BY <1>3, MakeRowsInv
<1>4. CASE result = "none" /\ RejectPair
  BY <1>4, ReturnInv DEF RejectPair
<1>5. CASE result = "none" /\ MergePair
  BY <1>5, MergePairInv
<1>6. CASE result = "none" /\ NextRound
  BY <1>6, NextRoundInv
<1>7. CASE result = "none" /\ LastRow
  BY <1>7, ReturnInv DEF LastRow
<1> QED BY <1>1, <1>2, <1>3, <1>4, <1>5, <1>6, <1>7, <1>8 DEF Next, Check, Returned

-----------------------------------------------------------------------------
\* The invariant gives the shape of the rows, and at the end all positions.
LEMMA InvShape == EquihashInv => EquihashTypeOK
BY DEF EquihashInv, Expanded, RoundOK, EquihashTypeOK

\* The row that is left at the end has all indices, and all different.
LEMMA InvDistinct == EquihashInv => NoIndexTwice
<1> SUFFICES ASSUME EquihashInv, result = "valid"
             PROVE  /\ Len(indices) = 2^K
                    /\ \A p, q \in DOMAIN indices : p # q => indices[p] # indices[q]
  BY DEF NoIndexTwice
<1>1. Len(X) = 1
  BY DEF EquihashInv
<1>2. X # <<>>
  BY <1>1
<1>3. PICK l \in 0..K : RoundOK(l)
  BY <1>2 DEF EquihashInv
<1>4. l = K
  <2>1. Len(X) = 2^(K - l)
    BY <1>3, Powers, Table1 DEF RoundOK
  <2> SUFFICES ASSUME l < K PROVE FALSE
    BY Powers
  <2> DEFINE half == 2^(K - (l + 1))
  <2>2. half \in Nat /\ 2^(K - l) = 2 * half
    BY Powers
  <2> HIDE DEF half
  <2> QED BY <1>1, <2>1, <2>2
<1> DEFINE w == 2^K
<1>5. w \in Nat /\ Len(indices) = w /\ Covers(X[1], w, 1)
  <2>1. DOMAIN X = 1..1
    BY <1>1, <1>3, <1>4, Powers, Table1 DEF RoundOK
  <2>2. K \in 0..K
    BY RoundsAssumption
  <2> QED BY <1>3, <1>4, <2>1, <2>2, Powers DEF RoundOK
<1>6. DOMAIN indices = 1..w
  <2>1. indices \in Seq(Indices)
    BY DEF EquihashInv, Expanded
  <2> QED BY <1>5, <2>1
<1>8. Len(indices) = 2^K
  BY <1>5
<1> HIDE DEF w
<1>7. \A j \in 1..w : X[1].indices[j] = indices[j]
  <2>1. \A j \in 1..w : (1 - 1) * w + j = j
    BY <1>5
  <2> QED BY <1>5, <2>1 DEF Covers
<1> QED BY <1>5, <1>6, <1>7, <1>8 DEF Covers

-----------------------------------------------------------------------------
\* Powers and bits

\* A set of numbers has a least one.
LEMMA Least ==
  ASSUME NEW S \in SUBSET Nat, S # {}
  PROVE  \E p \in S : \A q \in S : p <= q
<1> DEFINE Less == OpToRel(<, Nat)
<1>1. PICK p \in S : \A q \in S : ~(<<q, p>> \in Less)
  <2>1. IsWellFoundedOn(Less, Nat)
    BY NatLessThanWellFounded
  <2> HIDE DEF Less
  <2> QED BY <2>1, WFMin
<1>2. ASSUME NEW q \in S PROVE p <= q
  <2>1. p \in Nat /\ q \in Nat /\ ~(q < p)
    BY <1>1 DEF OpToRel
  <2> QED BY <2>1
<1> QED BY <1>2

\* Powers multiply.
LEMMA PowerSum ==
  ASSUME NEW a \in Nat, NEW b \in Nat, a + b <= K + WordBits
  PROVE  2^(a + b) = 2^a * 2^b
<1> DEFINE S == {n \in 0..b : 2^(a + n) # 2^a * 2^n}
<1>1. K + WordBits \in Nat
  BY RoundsAssumption, WidthAssumption
<1>2. \A n \in 0..b : n \in Nat /\ a + n \in 0..(K + WordBits) /\ n \in 0..(K + WordBits)
  BY <1>1
<1>3. \A n \in 0..b : 2^n \in Nat /\ 2^(a + n) \in Nat
  BY <1>2, PowersAssumption
<1>4. S = {}
  <2> SUFFICES ASSUME S # {} PROVE FALSE
    OBVIOUS
  <2>1. PICK p \in S : \A q \in S : p <= q
    <3>1. S \in SUBSET Nat
      OBVIOUS
    <3> HIDE DEF S
    <3> QED BY <3>1, Least
  <2>2. p \in 0..b /\ 2^(a + p) # 2^a * 2^p
    OBVIOUS
  <2>3. p # 0
    <3> SUFFICES ASSUME p = 0 PROVE FALSE
      OBVIOUS
    <3>1. a + p = a /\ 2^p = 1
      OBVIOUS
    <3>2. 2^a \in Nat
      BY <1>1, PowersAssumption
    <3> QED BY <2>2, <3>1, <3>2
  <2>4. PICK n \in 0..b : p = n + 1 /\ a + p = (a + n) + 1
    <3>1. p - 1 \in 0..b /\ p = (p - 1) + 1 /\ a + p = (a + (p - 1)) + 1
      BY <2>2, <2>3
    <3> QED BY <3>1
  <2>5. 2^(a + n) = 2^a * 2^n
    <3>1. ~(p <= n)
      BY <2>4
    <3> QED BY <2>1, <3>1
  <2>6. 2^p = 2 * 2^n /\ 2^(a + p) = 2 * 2^(a + n)
    BY <1>2, <2>4, PowersAssumption
  <2> DEFINE x == 2^a
             y == 2^n
  <2>7. x \in Nat /\ y \in Nat
    BY <1>1, <1>3, PowersAssumption
  <2>8. 2^(a + p) = 2 * (x * y) /\ 2^a * 2^p = x * (2 * y)
    BY <2>5, <2>6
  <2> HIDE DEF x, y
  <2>9. 2 * (x * y) = x * (2 * y)
    BY <2>7
  <2> QED BY <2>2, <2>8, <2>9
<1>5. b \in 0..b
  OBVIOUS
<1> QED BY <1>4, <1>5

\* Quotient and rest are the only ones.
LEMMA Euclid ==
  ASSUME NEW b \in Nat \ {0}, NEW q \in Nat, NEW r \in 0..(b - 1)
  PROVE  /\ q * b + r \in Nat
         /\ (q * b + r) \div b = q /\ (q * b + r) % b = r
<1> DEFINE x == q * b + r
           k == x \div b
           t == x % b
<1>1. q * b \in Nat /\ x \in Nat
  OBVIOUS
<1>2. k \in Nat /\ t \in 0..(b - 1) /\ x = b * k + t
  <2> HIDE DEF x
  <2> QED BY <1>1
<1> HIDE DEF k, t
<1>3. ASSUME k > q PROVE FALSE
  <2>1. PICK d \in Nat : k = q + 1 + d
    <3>1. k - q - 1 \in Nat
      BY <1>2, <1>3
    <3> QED BY <1>2, <3>1
  <2>2. b * k = q * b + b + d * b /\ d * b \in Nat
    BY <2>1
  <2> QED BY <1>1, <1>2, <2>2 DEF x
<1>4. ASSUME k < q PROVE FALSE
  <2>1. PICK d \in Nat : q = k + 1 + d
    <3>1. q - k - 1 \in Nat
      BY <1>2, <1>4
    <3> QED BY <1>2, <3>1
  <2>2. q * b = b * k + b + d * b /\ d * b \in Nat /\ b * k \in Nat
    BY <1>2, <2>1
  <2> QED BY <1>1, <1>2, <2>2 DEF x
<1>5. k = q
  BY <1>2, <1>3, <1>4
<1>6. t = r
  <2>1. b * k = q * b
    BY <1>5
  <2> QED BY <1>1, <1>2, <2>1 DEF x
<1> QED BY <1>1, <1>5, <1>6 DEF k, t

\* Quotients of quotients.
LEMMA QuotientTwice ==
  ASSUME NEW x \in Nat, NEW a \in Nat \ {0}, NEW b \in Nat \ {0}
  PROVE  (x \div a) \div b = x \div (a * b)
<1> DEFINE k == x \div a
           r == x % a
           q == k \div b
           s == k % b
<1>1. k \in Nat /\ r \in 0..(a - 1) /\ x = a * k + r
  OBVIOUS
<1> HIDE DEF k, r
<1>2. q \in Nat /\ s \in 0..(b - 1) /\ k = b * q + s
  BY <1>1
<1> HIDE DEF q, s
<1>3. a * b \in Nat \ {0}
  OBVIOUS
<1>4. a * s + r \in 0..(a * b - 1)
  <2>1. PICK d \in Nat : b = s + 1 + d
    <3>1. b - s - 1 \in Nat
      BY <1>2
    <3> QED BY <1>2, <3>1
  <2>2. a * b = a * s + a + a * d /\ a * d \in Nat /\ a * s \in Nat
    BY <1>2, <2>1
  <2> QED BY <1>1, <1>3, <2>2
<1>5. x = q * (a * b) + (a * s + r)
  <2>1. a * k = q * (a * b) + a * s
    BY <1>2
  <2>2. q * (a * b) \in Nat /\ a * s \in Nat
    BY <1>2, <1>3
  <2> QED BY <1>1, <2>1, <2>2
<1>6. x \div (a * b) = q
  BY <1>2, <1>3, <1>4, <1>5, Euclid
<1> QED BY <1>6 DEF q, k

\* What is added above a bit does not change it.
LEMMA EvenAbove ==
  ASSUME NEW z \in Nat, NEW y \in Nat, NEW p \in Nat \ {0}
  PROVE  (((2 * z) * p + y) \div p) % 2 = (y \div p) % 2
<1> DEFINE k == y \div p
           r == y % p
<1>1. k \in Nat /\ r \in 0..(p - 1) /\ y = p * k + r
  OBVIOUS
<1> HIDE DEF k, r
<1>2. (2 * z) * p + y = (2 * z + k) * p + r
  <2>1. (2 * z + k) * p = (2 * z) * p + p * k
    BY <1>1
  <2>2. (2 * z) * p \in Nat /\ p * k \in Nat
    BY <1>1
  <2> QED BY <1>1, <2>1, <2>2
<1>3. ((2 * z + k) * p + r) \div p = 2 * z + k
  <2>1. 2 * z + k \in Nat
    BY <1>1
  <2> QED BY <1>1, <2>1, Euclid
<1>4. (2 * z + k) % 2 = k % 2
  BY <1>1
<1> QED BY <1>2, <1>3, <1>4 DEF k

\* The bits of y behind those of x: the bits of y are the low ones.
LEMMA BitLow ==
  ASSUME NEW b \in Nat, b <= K + WordBits, NEW m \in 0..(b - 1),
         NEW x \in Nat, NEW y \in Nat
  PROVE  Bit(x * 2^b + y, m) = Bit(y, m)
<1>1. K + WordBits \in Nat
  BY RoundsAssumption, WidthAssumption
<1>2. PICK n \in Nat : b = (n + 1) + m /\ n \in 0..(K + WordBits)
                      /\ n + 1 \in 0..(K + WordBits) /\ m \in 0..(K + WordBits)
  <2>1. b - m - 1 \in Nat /\ b = ((b - m - 1) + 1) + m
    OBVIOUS
  <2> QED BY <1>1, <2>1
<1> DEFINE u == 2^n
           p == 2^m
<1>3. u \in Nat /\ p \in Nat \ {0} /\ 2^(n + 1) = 2 * u
  BY <1>2, PowersAssumption
<1>4. 2^b = (2 * u) * p
  <2>1. 2^((n + 1) + m) = 2^(n + 1) * 2^m
    <3>1. n + 1 \in Nat /\ m \in Nat /\ (n + 1) + m <= K + WordBits
      BY <1>2
    <3> QED BY <3>1, PowerSum
  <2> QED BY <1>2, <1>3, <2>1
<1> HIDE DEF u, p
<1>5. x * ((2 * u) * p) = (2 * (x * u)) * p /\ x * u \in Nat
  BY <1>3
<1>6. (((2 * (x * u)) * p + y) \div p) % 2 = (y \div p) % 2
  BY <1>3, <1>5, EvenAbove
<1> QED BY <1>4, <1>5, <1>6 DEF Bit, p

\* ... and the bits of x the others.
LEMMA BitHigh ==
  ASSUME NEW b \in Nat, NEW m \in Nat, b + m <= K + WordBits,
         NEW x \in Nat, NEW y \in 0..(2^b - 1)
  PROVE  Bit(x * 2^b + y, b + m) = Bit(x, m)
<1> DEFINE u == 2^b
           p == 2^m
<1>1. b \in 0..(K + WordBits) /\ m \in 0..(K + WordBits)
  BY RoundsAssumption, WidthAssumption
<1>2. u \in Nat \ {0} /\ p \in Nat \ {0} /\ 2^(b + m) = u * p
  BY <1>1, PowersAssumption, PowerSum
<1>3. y \in 0..(u - 1)
  OBVIOUS
<1> HIDE DEF u, p
<1>4. x * u + y \in Nat /\ (x * u + y) \div u = x
  BY <1>2, <1>3, Euclid
<1>5. (x * u + y) \div (u * p) = x \div p
  <2> DEFINE v == x * u + y
  <2>1. v \in Nat /\ v \div u = x
    BY <1>4
  <2> HIDE DEF v
  <2>2. (v \div u) \div p = v \div (u * p)
    BY <1>2, <2>1, QuotientTwice
  <2>3. v \div (u * p) = x \div p
    BY <2>1, <2>2
  <2> QED BY <2>3 DEF v
<1> QED BY <1>2, <1>5 DEF Bit, u, p

\* The low bits of a number: those of its rest.
LEMMA BitOfRest ==
  ASSUME NEW b \in Nat, b <= K + WordBits, NEW m \in 0..(b - 1), NEW x \in Nat
  PROVE  Bit(x % 2^b, m) = Bit(x, m)
<1> DEFINE u == 2^b
           q == x \div u
           r == x % u
<1>1. u \in Nat \ {0}
  <2>1. b \in 0..(K + WordBits)
    BY RoundsAssumption, WidthAssumption
  <2> QED BY <2>1, PowersAssumption
<1>2. q \in Nat /\ r \in Nat /\ x = q * u + r
  <2> HIDE DEF u
  <2> QED BY <1>1
<1>3. Bit(q * 2^b + r, m) = Bit(r, m)
  <2> HIDE DEF q, r
  <2> QED BY <1>2, BitLow
<1> QED BY <1>2, <1>3

\* The high bits of a number: those of its quotient.
LEMMA BitOfQuotient ==
  ASSUME NEW b \in Nat, NEW m \in Nat, b + m <= K + WordBits, NEW x \in Nat
  PROVE  Bit(x \div 2^b, m) = Bit(x, b + m)
<1> DEFINE u == 2^b
           p == 2^m
<1>1. b \in 0..(K + WordBits) /\ m \in 0..(K + WordBits)
  BY RoundsAssumption, WidthAssumption
<1>2. u \in Nat \ {0} /\ p \in Nat \ {0} /\ 2^(b + m) = u * p
  BY <1>1, PowersAssumption, PowerSum
<1> HIDE DEF u, p
<1>3. (x \div u) \div p = x \div (u * p)
  BY <1>2, QuotientTwice
<1> QED BY <1>2, <1>3 DEF Bit, u, p

\* A number below a power is known by its bits.
LEMMA BitsDetermine ==
  ASSUME NEW b \in Nat, b <= K + WordBits,
         NEW x \in 0..(2^b - 1), NEW y \in 0..(2^b - 1),
         \A m \in 0..(b - 1) : Bit(x, m) = Bit(y, m)
  PROVE  x = y
<1> DEFINE Same(n, v, w) == \A m \in 0..(n - 1) : Bit(v, m) = Bit(w, m)
           S == {n \in 0..b : \E v, w \in 0..(2^n - 1) : Same(n, v, w) /\ v # w}
<1>1. S = {}
  <2> SUFFICES ASSUME S # {} PROVE FALSE
    OBVIOUS
  <2>1. PICK p \in S : \A q \in S : p <= q
    <3>1. S \in SUBSET Nat
      OBVIOUS
    <3> HIDE DEF S
    <3> QED BY <3>1, Least
  <2>2. p \in 0..b
    OBVIOUS
  <2>3. PICK v, w \in 0..(2^p - 1) : Same(p, v, w) /\ v # w
    OBVIOUS
  <2>4. p # 0
    <3> SUFFICES ASSUME p = 0 PROVE FALSE
      OBVIOUS
    <3>1. 2^p = 1
      OBVIOUS
    <3> QED BY <2>3, <3>1
  <2>5. PICK n \in 0..b : p = n + 1
    <3>1. p - 1 \in 0..b /\ p = (p - 1) + 1
      BY <2>2, <2>4
    <3> QED BY <3>1
  <2>6. n \notin S
    <3>1. ~(p <= n)
      BY <2>5
    <3> HIDE DEF S
    <3> QED BY <2>1, <3>1
  <2> DEFINE u == 2^n
             v2 == v \div 2
             w2 == w \div 2
  <2>7. n + 1 \in 0..(K + WordBits) /\ n \in 0..(K + WordBits)
    BY <2>2, <2>5, RoundsAssumption, WidthAssumption
  <2>8. u \in Nat \ {0} /\ 2^p = 2 * u
    BY <2>5, <2>7, PowersAssumption
  <2>9. v \in 0..(2 * u - 1) /\ w \in 0..(2 * u - 1)
    BY <2>3, <2>8
  <2>10. v2 \in 0..(u - 1) /\ w2 \in 0..(u - 1)
         /\ v = 2 * v2 + (v % 2) /\ w = 2 * w2 + (w % 2)
    <3> HIDE DEF u
    <3> QED BY <2>8, <2>9
  <2>11. v % 2 = w % 2
    <3>1. Bit(v, 0) = Bit(w, 0)
      BY <2>2, <2>3, <2>4
    <3>2. 2^0 = 1 /\ v \div 1 = v /\ w \div 1 = w
      BY <2>9, <2>8
    <3> QED BY <3>1, <3>2 DEF Bit
  <2>12. ASSUME NEW m \in 0..(n - 1) PROVE Bit(v2, m) = Bit(w2, m)
    <3>1. 1 \in Nat /\ m \in Nat /\ 1 + m <= K + WordBits /\ 1 + m \in 0..(p - 1)
      <4>1. K + WordBits \in Nat
      BY RoundsAssumption, WidthAssumption
    <4>2. n \in Nat /\ m \in Nat /\ m < n /\ n + 1 <= K + WordBits
      BY <2>7, <4>1
    <4> HIDE DEF S
    <4> QED BY <2>5, <4>1, <4>2
    <3>2. v \in Nat /\ w \in Nat
      BY <2>8, <2>9
    <3>3. Bit(v \div 2^1, m) = Bit(v, 1 + m) /\ Bit(w \div 2^1, m) = Bit(w, 1 + m)
      BY <3>1, <3>2, BitOfQuotient
    <3>4. 2^1 = 2
      OBVIOUS
    <3> QED BY <2>3, <3>1, <3>3, <3>4
  <2>13. v2 = w2
    <3>1. Same(n, v2, w2)
      BY <2>12
    <3> HIDE DEF Same, v2, w2
    <3> QED BY <2>6, <2>10, <3>1
  <2> QED BY <2>3, <2>10, <2>11, <2>13
<1>2. b \in 0..b /\ Same(b, x, y)
  OBVIOUS
<1> HIDE DEF Same
<1> QED BY <1>1, <1>2

-----------------------------------------------------------------------------
\* The indices are those of the definition

\* The bit at a place of byte number i + 1.
LEMMA BitOfByte ==
  ASSUME NEW taken \in Nat, NEW n \in 1..ByteBits
  PROVE  BitOf(ByteBits * (taken + 1) - (n - 1)) = Bit(soln[taken + 1], n - 1)
<1> DEFINE b == ByteBits
           place == b * (taken + 1) - (n - 1)
<1>1. b \in Nat \ {0} /\ n \in 1..b
  BY Widths
<1>2. place - 1 = taken * b + (b - n)
  <2> HIDE DEF b
  <2>1. b * (taken + 1) = taken * b + b /\ taken * b \in Nat
    BY <1>1
  <2> QED BY <1>1, <2>1
<1>3. (place - 1) \div b = taken /\ (place - 1) % b = b - n
  <2>1. b - n \in 0..(b - 1)
    BY <1>1
  <2>2. taken * b + (b - n) \in Nat
        /\ (taken * b + (b - n)) \div b = taken /\ (taken * b + (b - n)) % b = b - n
    <3> HIDE DEF b
    <3> QED BY <1>1, <2>1, Euclid
  <2> HIDE DEF b, place
  <2> QED BY <1>2, <2>2
<1>4. b - 1 - (b - n) = n - 1
  BY <1>1
<1> QED BY <1>3, <1>4 DEF BitOf

\* The byte taken goes behind the bits the accumulator is counted to hold.
LEMMA NextTail ==
  ASSUME EquihashInv, AccumulatorHoldsTail, i < Len(soln),
         NEW n \in 1..(accBits + ByteBits)
  PROVE  Bit(Shifted(soln[i + 1]), n - 1) = BitOf(ByteBits * (i + 1) - (n - 1))
<1> DEFINE b == ByteBits
           byte == soln[i + 1]
<1>1. /\ b \in Nat \ {0} /\ WordBits \in Nat /\ i \in Nat /\ i + 1 \in 1..Len(soln)
      /\ accBits \in Nat /\ accBits + b <= WordBits /\ accValue \in Nat
      /\ WordBits <= K + WordBits /\ K + WordBits \in Nat
  <2>1. /\ b \in Nat \ {0} /\ BitLen \in Nat /\ WordBits \in Nat /\ K \in Nat
        /\ WordBits >= (b - 1) + BitLen
    BY WidthAssumption, RoundsAssumption
  <2>2. soln \in Seq(Bytes) /\ i \in 0..Len(soln) /\ accBits \in 0..(BitLen - 1)
        /\ accValue \in 0..(2^WordBits - 1)
    BY SolutionsAssumption DEF EquihashInv, Expanded
  <2>3. accValue \in Nat
    BY <2>1, <2>2, Widths
  <2> QED BY <2>1, <2>2, <2>3
<1>2. byte \in 0..(2^b - 1) /\ 2^b \in Nat /\ byte \in Nat
  <2>1. soln \in Seq(Bytes)
    BY SolutionsAssumption DEF EquihashInv
  <2>2. byte \in Bytes
    BY <1>1, <2>1
  <2>3. b \in 0..WordBits
    BY <1>1
  <2>4. 2^b \in Nat
    BY <2>3, Widths
  <2> QED BY <2>2, <2>4 DEF Bytes
<1> HIDE DEF byte
<1>3. Bit(Shifted(byte), n - 1) = Bit(accValue * 2^b + byte, n - 1)
  <2>1. n - 1 \in 0..(WordBits - 1)
    BY <1>1
  <2>2. accValue * 2^b + byte \in Nat
    BY <1>1, <1>2
  <2> DEFINE x == accValue * 2^b + byte
  <2> HIDE DEF x
  <2>3. Bit(x % 2^WordBits, n - 1) = Bit(x, n - 1)
    BY <1>1, <2>1, <2>2, BitOfRest DEF x
  <2> QED BY <2>3 DEF Shifted, x
<1>4. CASE n <= b
  <2>1. n \in 1..b /\ n - 1 \in 0..(b - 1) /\ b <= K + WordBits
    BY <1>1, <1>4
  <2>2. Bit(accValue * 2^b + byte, n - 1) = Bit(byte, n - 1)
    BY <1>1, <1>2, <2>1, BitLow
  <2>3. BitOf(ByteBits * (i + 1) - (n - 1)) = Bit(soln[i + 1], n - 1)
    BY <1>1, <2>1, BitOfByte
  <2> QED BY <1>3, <2>2, <2>3 DEF byte
<1>5. CASE n > b
  <2> DEFINE m == n - 1 - b
  <2>1. m \in Nat /\ b + m = n - 1 /\ b + m <= K + WordBits /\ m + 1 \in 1..accBits
    BY <1>1, <1>5
  <2> HIDE DEF m
  <2>2. Bit(accValue * 2^b + byte, b + m) = Bit(accValue, m)
    <3> HIDE DEF b
    <3>1. b \in Nat /\ m \in Nat /\ b + m <= K + WordBits /\ accValue \in Nat
      BY <1>1, <2>1
    <3>2. byte \in 0..(2^b - 1)
      BY <1>2
    <3> QED BY <3>1, <3>2, BitHigh
  <2>3. Bit(accValue, (m + 1) - 1) = BitOf(ByteBits * i - ((m + 1) - 1))
    BY <2>1 DEF AccumulatorHoldsTail
  <2>4. (m + 1) - 1 = m /\ ByteBits * i - m = ByteBits * (i + 1) - (n - 1)
    <3>1. b * (i + 1) = b * i + b /\ b * i \in Nat
      BY <1>1
    <3> QED BY <1>1, <2>1, <3>1 DEF b
  <2>5. Bit(accValue * 2^b + byte, n - 1) = Bit(accValue, m)
    BY <2>1, <2>2
  <2>6. Bit(Shifted(byte), n - 1) = BitOf(ByteBits * (i + 1) - (n - 1))
    BY <1>3, <2>3, <2>4, <2>5
  <2> QED BY <2>6 DEF byte
<1> QED BY <1>1, <1>4, <1>5

\* A number with the bits of place p is its index.
LEMMA IndexByBits ==
  ASSUME NEW p, NEW index \in Indices,
         \A k \in 1..BitLen : Bit(index, BitLen - k) = BitOf((p - 1) * BitLen + k)
  PROVE  Index(p) = index
<1> DEFINE Has(x) ==
      \A k \in 1..BitLen : Bit(x, BitLen - k) = BitOf((p - 1) * BitLen + k)
<1>1. Index(p) = CHOOSE x \in Indices : Has(x)
  BY DEF Index
<1>2. Has(index)
  OBVIOUS
<1>3. ASSUME NEW x \in Indices, Has(x) PROVE x = index
  <2>1. BitLen \in Nat /\ BitLen <= K + WordBits
    BY Widths, RoundsAssumption
  <2>2. x \in 0..(2^BitLen - 1) /\ index \in 0..(2^BitLen - 1)
    BY DEF Indices
  <2>3. ASSUME NEW m \in 0..(BitLen - 1) PROVE Bit(x, m) = Bit(index, m)
    <3>1. BitLen - m \in 1..BitLen /\ BitLen - (BitLen - m) = m
      BY <2>1
    <3> QED BY <1>2, <1>3, <3>1
  <2> QED BY <2>1, <2>2, <2>3, BitsDetermine
<1> HIDE DEF Has
<1> QED BY <1>1, <1>2, <1>3

\* The indices taken so far are those of the definition.
IndicesRight == \A p \in DOMAIN indices : indices[p] = Index(p)

\* What the definition speaks of does not change during a check.
LEMMA SameDefinition ==
  ASSUME UNCHANGED <<blake, soln>>
  PROVE  /\ \A n : BitOf(n)' = BitOf(n)
         /\ \A p : Index(p)' = Index(p)
         /\ \A P, s : XorOver(P, s)' = XorOver(P, s)
         /\ \A l, m : Collision(l, m)' = Collision(l, m)
         /\ IsSolution' = IsSolution
<1>1. \A n : BitOf(n)' = BitOf(n)
  BY DEF BitOf
<1>2. \A p : Index(p)' = Index(p)
  BY <1>1 DEF Index
<1>3. \A P, s : XorOver(P, s)' = XorOver(P, s)
  BY <1>2 DEF XorOver
<1>4. \A l, m : Collision(l, m)' = Collision(l, m)
  BY <1>2, <1>3 DEF Collision
<1>5. IsSolution' = IsSolution
  BY <1>2, <1>3, <1>4 DEF IsSolution
<1> QED BY <1>1, <1>2, <1>3, <1>4, <1>5

\* A byte is taken: the tail stays, and an index that is full is the next one.
LEMMA ExpandByteRight ==
  ASSUME EquihashInv, AccumulatorHoldsTail, IndicesRight, ExpandByte, result = "none"
  PROVE  AccumulatorHoldsTail' /\ IndicesRight'
<1> DEFINE value == Shifted(soln[i + 1])
           n == Len(indices)
           room == accBits + ByteBits
<1>1. /\ i < Len(soln) /\ i' = i + 1 /\ accValue' = value
      /\ UNCHANGED <<blake, soln, X, Xc, result>>
  BY DEF ExpandByte, arguments
<1>2. /\ ByteBits \in Nat \ {0} /\ BitLen \in Nat \ {0} /\ WordBits \in Nat
      /\ K + WordBits \in Nat /\ WordBits <= K + WordBits
      /\ accBits \in 0..(BitLen - 1) /\ i \in Nat /\ n \in Nat
      /\ indices \in Seq(Indices) /\ room \in Nat /\ room <= WordBits
      /\ ByteBits * i = BitLen * n + accBits
  <2>1. /\ i \in 0..Len(soln) /\ accBits \in 0..(BitLen - 1)
        /\ indices \in Seq(Indices) /\ ByteBits * i = BitLen * n + accBits
        /\ soln \in Seq(Bytes)
    BY SolutionsAssumption DEF EquihashInv, Expanded
  <2> QED BY <2>1, WidthAssumption, Widths, RoundsAssumption
<1>3. \A j \in 1..room : Bit(value, j - 1) = BitOf(ByteBits * (i + 1) - (j - 1))
  BY <1>1, NextTail
<1>4. \A q : BitOf(q)' = BitOf(q) /\ Index(q)' = Index(q)
  BY <1>1, SameDefinition
<1>5. value \in Nat
  <2>1. 2^WordBits \in Nat \ {0} /\ 2^ByteBits \in Nat /\ accValue \in Nat
    BY Widths DEF EquihashInv, Expanded
  <2>2. soln[i + 1] \in Nat
    <3>1. soln \in Seq(Bytes) /\ i + 1 \in 1..Len(soln)
      BY <1>1, <1>2, SolutionsAssumption DEF EquihashInv
    <3>2. soln[i + 1] \in Bytes
      BY <3>1
    <3> QED BY <2>1, <3>2 DEF Bytes
  <2>3. accValue * 2^ByteBits + soln[i + 1] \in Nat
    BY <2>1, <2>2
  <2> QED BY <2>1, <2>3 DEF Shifted
<1> HIDE DEF value
<1>6. accBits' \in 0..room
  <2>1. \/ accBits + ByteBits >= BitLen /\ accBits' = (accBits + ByteBits) - BitLen
        \/ accBits' = accBits + ByteBits
    BY DEF ExpandByte, FillsIndex
  <2> QED BY <1>2, <2>1
<1>7. AccumulatorHoldsTail'
  <2> SUFFICES ASSUME NEW j \in 1..accBits'
               PROVE  (Bit(accValue, j - 1) = BitOf(ByteBits * i - (j - 1)))'
    BY DEF AccumulatorHoldsTail
  <2>1. j \in 1..room
    BY <1>2, <1>6
  <2>2. Bit(value, j - 1) = BitOf(ByteBits * (i + 1) - (j - 1))
    BY <1>3, <2>1
  <2>3. BitOf(ByteBits * i - (j - 1))' = BitOf(ByteBits * (i + 1) - (j - 1))
    BY <1>1 DEF BitOf
  <2>4. Bit(accValue, j - 1)' = Bit(value, j - 1)
    BY <1>1 DEF Bit
  <2> QED BY <2>2, <2>3, <2>4
<1>8. CASE ~FillsIndex
  <2>1. indices' = indices
    BY <1>8 DEF ExpandByte
  <2> QED BY <1>4, <1>7, <2>1 DEF IndicesRight
<1>9. CASE FillsIndex
  <2> DEFINE index == (value \div 2^accBits') % 2^BitLen
  <2>1. /\ accBits' = room - BitLen /\ accBits' \in Nat
        /\ indices' = Append(indices, index)
    BY <1>1, <1>2, <1>9 DEF ExpandByte, FillsIndex
  <2>2. value \div 2^accBits' \in Nat /\ 2^BitLen \in Nat \ {0}
    <3>1. accBits' \in 0..WordBits /\ BitLen \in 0..WordBits
      BY <1>2, <1>6, Widths
    <3>2. 2^accBits' \in Nat \ {0} /\ 2^BitLen \in Nat \ {0}
      BY <3>1, Widths
    <3> QED BY <1>5, <3>2, Quotient
  <2>3. index \in Indices
    <3> DEFINE v == value \div 2^accBits'
               u == 2^BitLen
    <3>1. v \in Nat /\ u \in Nat \ {0}
      BY <2>2
    <3> HIDE DEF v, u
    <3>2. v % u \in 0..(u - 1)
      BY <3>1
    <3> QED BY <3>2 DEF v, u, Indices
  <2>4. ASSUME NEW k \in 1..BitLen
        PROVE  Bit(index, BitLen - k) = BitOf(((n + 1) - 1) * BitLen + k)
    <3> DEFINE m == BitLen - k
               v == value \div 2^accBits'
    <3>1. m \in 0..(BitLen - 1) /\ BitLen <= K + WordBits /\ m \in Nat
          /\ accBits' + m <= K + WordBits /\ accBits' + m + 1 \in 1..room
          /\ (accBits' + m + 1) - 1 = accBits' + m
      BY <1>2, <2>1
    <3>2. Bit(v % 2^BitLen, m) = Bit(v, m)
      <4> HIDE DEF v
      <4>1. v \in Nat
        BY <2>2 DEF v
      <4> QED BY <1>2, <3>1, <4>1, BitOfRest
    <3>3. Bit(v, m) = Bit(value, accBits' + m)
      BY <1>5, <2>1, <3>1, BitOfQuotient
    <3>4. Bit(value, accBits' + m) = BitOf(ByteBits * (i + 1) - (accBits' + m))
      BY <1>3, <3>1
    <3>5. ByteBits * (i + 1) - (accBits' + m) = ((n + 1) - 1) * BitLen + k
      <4> DEFINE a == ByteBits * i
                 c == BitLen * n
      <4>1. ByteBits * (i + 1) = a + ByteBits /\ ((n + 1) - 1) * BitLen = c
            /\ a \in Int /\ c \in Int /\ a = c + accBits
        BY <1>2
      <4>2. accBits' = (accBits + ByteBits) - BitLen /\ m = BitLen - k
            /\ accBits \in Int /\ ByteBits \in Int /\ BitLen \in Int
        BY <1>2, <2>1
      <4> HIDE DEF a, c, m
      <4>3. (a + ByteBits) - (accBits' + m) = c + k
        BY <4>1, <4>2
      <4> QED BY <4>1, <4>3
    <3> QED BY <3>2, <3>3, <3>4, <3>5
  <2>5. Index(n + 1) = index
    <3> HIDE DEF index
    <3> QED BY <2>3, <2>4, IndexByBits
  <2>6. IndicesRight'
    <3> SUFFICES ASSUME NEW p \in DOMAIN indices' PROVE indices'[p] = Index(p)'
      BY DEF IndicesRight
    <3> HIDE DEF index
    <3>1. p \in 1..(n + 1) /\ DOMAIN indices = 1..n
      BY <1>2, <2>1, <2>3
    <3>2. CASE p = n + 1
      BY <1>2, <1>4, <2>1, <2>3, <2>5, <3>2
    <3>3. CASE p \in 1..n
      BY <1>2, <1>4, <2>1, <2>3, <3>1, <3>3 DEF IndicesRight
    <3> QED BY <1>2, <3>1, <3>2, <3>3
  <2> QED BY <1>7, <2>6
<1> QED BY <1>8, <1>9

-----------------------------------------------------------------------------
\* Subtrees

\* The positions among P whose segment s has bit b.
With(P, s, b) == {p \in P : b \in blake[Index(p)][s]}

\* The exclusive or over two sets of positions that share none.
LEMMA XorOfUnion ==
  ASSUME NEW P, NEW Q, NEW s, IsFiniteSet(P), IsFiniteSet(Q), P \cap Q = {}
  PROVE  XorOver(P \cup Q, s) = Xor(XorOver(P, s), XorOver(Q, s))
<1>1. \A R : XorOver(R, s) = {b \in Bits : Cardinality(With(R, s, b)) % 2 = 1}
  BY DEF XorOver, With
<1>2. ASSUME NEW b \in Bits
      PROVE  Cardinality(With(P \cup Q, s, b)) % 2 = 1
               <=> \/ /\ Cardinality(With(P, s, b)) % 2 = 1
                      /\ ~(Cardinality(With(Q, s, b)) % 2 = 1)
                   \/ /\ ~(Cardinality(With(P, s, b)) % 2 = 1)
                      /\ Cardinality(With(Q, s, b)) % 2 = 1
  <2> DEFINE A == With(P, s, b)
             B == With(Q, s, b)
  <2>1. With(P \cup Q, s, b) = A \cup B /\ A \cap B = {}
        /\ A \in SUBSET P /\ B \in SUBSET Q
    BY DEF With
  <2> HIDE DEF A, B
  <2>2. IsFiniteSet(A) /\ IsFiniteSet(B)
    BY <2>1, FS_Subset
  <2>3. Cardinality(A \cup B) = Cardinality(A) + Cardinality(B) - Cardinality(A \cap B)
        /\ Cardinality(A) \in Nat /\ Cardinality(B) \in Nat
    BY <2>2, FS_Union, FS_CardinalityType
  <2>4. Cardinality(A \cap B) = 0
    BY <2>1, FS_EmptySet
  <2> DEFINE c == Cardinality(A)
             d == Cardinality(B)
             e == Cardinality(A \cup B)
  <2>5. e = c + d /\ c \in Nat /\ d \in Nat
    BY <2>3, <2>4
  <2> HIDE DEF c, d, e
  <2>6. e % 2 = 1 <=> ((c % 2 = 1 /\ ~(d % 2 = 1)) \/ (~(c % 2 = 1) /\ d % 2 = 1))
    BY <2>5
  <2> QED BY <2>1, <2>6 DEF A, B, c, d, e
<1>3. \A b : b \in XorOver(P \cup Q, s) <=> b \in Xor(XorOver(P, s), XorOver(Q, s))
  BY <1>1, <1>2 DEF Xor
<1> QED BY <1>3

\* ... and over one position.
LEMMA XorOfOne ==
  ASSUME NEW p, NEW s, blake[Index(p)][s] \subseteq Bits
  PROVE  XorOver({p}, s) = blake[Index(p)][s]
<1>1. XorOver({p}, s) = {b \in Bits : Cardinality(With({p}, s, b)) % 2 = 1}
  BY DEF XorOver, With
<1>2. ASSUME NEW b \in Bits
      PROVE  Cardinality(With({p}, s, b)) % 2 = 1 <=> b \in blake[Index(p)][s]
  <2>1. CASE b \in blake[Index(p)][s]
    <3>1. With({p}, s, b) = {p}
      BY <2>1 DEF With
    <3>2. Cardinality(With({p}, s, b)) = 1
      BY <3>1, FS_Singleton
    <3> QED BY <2>1, <3>2
  <2>2. CASE b \notin blake[Index(p)][s]
    <3>1. With({p}, s, b) = {}
      BY <2>2 DEF With
    <3>2. Cardinality(With({p}, s, b)) = 0
      BY <3>1, FS_EmptySet
    <3> QED BY <2>2, <3>2
  <2> QED BY <2>1, <2>2
<1> QED BY <1>1, <1>2

\* A leaf is its position.
LEMMA Leaf ==
  ASSUME NEW m \in Nat \ {0}
  PROVE  Node(0, m) = {m}
<1>1. 2^0 = 1 /\ (m - 1) * 1 + 1 = m /\ m * 1 = m
  OBVIOUS
<1>2. Node(0, m) = m..m
  BY <1>1 DEF Node
<1> QED BY <1>2

\* A node is its two halves.
LEMMA Halves ==
  ASSUME NEW l \in 0..K, NEW n \in Nat
  PROVE  /\ Node(l + 1, n + 1) = Node(l, 2 * n + 1) \cup Node(l, 2 * n + 2)
         /\ Node(l, 2 * n + 1) \cap Node(l, 2 * n + 2) = {}
         /\ IsFiniteSet(Node(l, 2 * n + 1)) /\ IsFiniteSet(Node(l, 2 * n + 2))
<1> DEFINE w == 2^l
           a == n * (2 * w)
<1>1. w \in Nat \ {0} /\ 2^(l + 1) = 2 * w
  BY Powers
<1>2. /\ Node(l + 1, n + 1) = (((n + 1) - 1) * (2 * w) + 1)..((n + 1) * (2 * w))
      /\ Node(l, 2 * n + 1) = (((2 * n + 1) - 1) * w + 1)..((2 * n + 1) * w)
      /\ Node(l, 2 * n + 2) = (((2 * n + 2) - 1) * w + 1)..((2 * n + 2) * w)
  BY <1>1 DEF Node
<1> HIDE DEF w
<1>3. /\ ((n + 1) - 1) * (2 * w) = a /\ (n + 1) * (2 * w) = a + 2 * w
      /\ ((2 * n + 1) - 1) * w = a /\ (2 * n + 1) * w = a + w
      /\ ((2 * n + 2) - 1) * w = a + w /\ (2 * n + 2) * w = a + 2 * w
      /\ a \in Nat
  BY <1>1
<1> HIDE DEF a
<1>4. /\ Node(l + 1, n + 1) = (a + 1)..(a + 2 * w)
      /\ Node(l, 2 * n + 1) = (a + 1)..(a + w)
      /\ Node(l, 2 * n + 2) = ((a + w) + 1)..(a + 2 * w)
  BY <1>2, <1>3
<1>5. IsFiniteSet((a + 1)..(a + w)) /\ IsFiniteSet(((a + w) + 1)..(a + 2 * w))
  <2>1. a + 1 \in Int /\ a + w \in Int /\ (a + w) + 1 \in Int /\ a + 2 * w \in Int
    BY <1>1, <1>3
  <2> QED BY <2>1, FS_Interval
<1>6. (a + 1)..(a + 2 * w) = ((a + 1)..(a + w)) \cup (((a + w) + 1)..(a + 2 * w))
  BY <1>1, <1>3
<1>7. ((a + 1)..(a + w)) \cap (((a + w) + 1)..(a + 2 * w)) = {}
  BY <1>1, <1>3
<1> QED BY <1>4, <1>5, <1>6, <1>7

\* The exclusive or over a node is that of its halves.
LEMMA XorOfNode ==
  ASSUME NEW l \in 0..K, NEW n \in Nat, NEW s
  PROVE  XorOver(Node(l + 1, n + 1), s)
           = Xor(XorOver(Node(l, 2 * n + 1), s), XorOver(Node(l, 2 * n + 2), s))
<1> DEFINE P == Node(l, 2 * n + 1)
           Q == Node(l, 2 * n + 2)
<1>1. Node(l + 1, n + 1) = P \cup Q /\ P \cap Q = {} /\ IsFiniteSet(P) /\ IsFiniteSet(Q)
  BY Halves
<1> HIDE DEF P, Q
<1>2. XorOver(P \cup Q, s) = Xor(XorOver(P, s), XorOver(Q, s))
  BY <1>1, XorOfUnion
<1> QED BY <1>1, <1>2 DEF P, Q

\* The root is all positions.
LEMMA Root == Node(K, 1) = Positions
<1> DEFINE w == 2^K
<1>1. w \in Nat
  <2>1. K \in 0..K
    BY RoundsAssumption
  <2> QED BY <2>1, Powers
<1>2. (1 - 1) * w + 1 = 1 /\ 1 * w = w
  <2> HIDE DEF w
  <2> QED BY <1>1
<1> QED BY <1>2 DEF Node, Positions

\* The places under a node are positions of the solution.
LEMMA InTree ==
  ASSUME NEW l \in 0..K, NEW m \in 1..2^(K - l), NEW j \in 1..2^l
  PROVE  (m - 1) * 2^l + j \in Positions
<1> DEFINE w == 2^l
           r == 2^(K - l)
<1>1. w \in Nat \ {0} /\ r \in Nat \ {0} /\ 2^K = r * w
  <2>1. K - l \in Nat /\ l \in Nat /\ (K - l) + l = K /\ K <= K + WordBits
    BY RoundsAssumption, WidthAssumption
  <2>2. 2^((K - l) + l) = 2^(K - l) * 2^l
    BY <2>1, PowerSum
  <2> QED BY <2>1, <2>2, Powers
<1>2. m \in 1..r /\ j \in 1..w
  OBVIOUS
<1> HIDE DEF w, r
<1>3. PICK d \in Nat : r = m + d
  <2>1. r - m \in Nat /\ r = m + (r - m)
    BY <1>1, <1>2
  <2> QED BY <2>1
<1>4. r * w = (m - 1) * w + w + d * w
  BY <1>1, <1>2, <1>3
<1>5. (m - 1) * w \in Nat /\ d * w \in Nat
  BY <1>1, <1>2, <1>3
<1>6. (m - 1) * w + j \in 1..(r * w)
  BY <1>1, <1>2, <1>4, <1>5
<1> QED BY <1>1, <1>6 DEF Positions, w

\* The rows that are left tell the level.
LEMMA OneLevel ==
  ASSUME NEW l \in 0..K, NEW j \in 0..K, 2^(K - l) = 2^(K - j)
  PROVE  l = j
<1>1. ASSUME NEW a \in 0..K, NEW b \in 0..K, a < b PROVE 2^a # 2^b
  <2>1. PICK d \in Nat : b = a + (d + 1)
    <3>1. b - a - 1 \in Nat /\ b = a + ((b - a - 1) + 1)
      BY <1>1, RoundsAssumption
    <3> QED BY <3>1
  <2>2. /\ a \in 0..K /\ d \in 0..K /\ d + 1 \in Nat /\ a \in Nat
        /\ a + (d + 1) <= K + WordBits
    BY <2>1, RoundsAssumption, WidthAssumption
  <2>3. 2^b = 2^a * 2^(d + 1)
    BY <2>1, <2>2, PowerSum
  <2>4. 2^(d + 1) = 2 * 2^d /\ 2^d \in Nat \ {0} /\ 2^a \in Nat \ {0}
    BY <2>2, Powers
  <2> DEFINE x == 2^a
             y == 2^d
  <2>5. 2^b = x * (2 * y) /\ x \in Nat \ {0} /\ y \in Nat \ {0}
    BY <2>3, <2>4
  <2> HIDE DEF x, y
  <2>6. x * (2 * y) # x
    <3>1. PICK e \in Nat : y = e + 1
      <4>1. y - 1 \in Nat /\ y = (y - 1) + 1
        BY <2>5
      <4> QED BY <4>1
    <3>2. x * (2 * y) = x + x + 2 * (x * e) /\ x * e \in Nat
      BY <2>5, <3>1
    <3> QED BY <2>5, <3>2
  <2> QED BY <2>5, <2>6 DEF x
<1>2. K - l \in 0..K /\ K - j \in 0..K /\ K \in Nat
  BY RoundsAssumption
<1>3. ~(K - l < K - j) /\ ~(K - j < K - l)
  BY <1>1, <1>2
<1> QED BY <1>2, <1>3

-----------------------------------------------------------------------------
\* The rounds

\* The segments of a row: those of its subtree that were not compared yet.
Segments(row, l, m) ==
  \A s \in DOMAIN row.hash : row.hash[s] = XorOver(Node(l, m), s + l)

\* Round l: every node below the rows of X, and below those merged, collides.
TreeOK(l) ==
  /\ \A m \in DOMAIN X : Segments(X[m], l, m)
  /\ \A m \in DOMAIN Xc : Segments(Xc[m], l + 1, m) /\ Collision(l + 1, m)
  /\ \A j \in 1..l : \A m \in 1..2^(K - j) : Collision(j, m)

VerdictInv ==
  /\ AccumulatorHoldsTail /\ IndicesRight
  /\ X # <<>> => Len(soln) = SolutionWidth
  /\ \A l \in 0..K : X # <<>> /\ Len(X) = 2^(K - l) => TreeOK(l)
  /\ VerdictIsRight

\* The indices of a row are those of the places under its node.
LEMMA RowPlaces ==
  ASSUME EquihashInv, IndicesRight, Len(indices) = 2^K,
         NEW l \in 0..K, NEW m \in 1..2^(K - l), NEW row, Covers(row, 2^l, m)
  PROVE  \A j \in 1..2^l : row.indices[j] = Index((m - 1) * 2^l + j)
<1> SUFFICES ASSUME NEW j \in 1..2^l
             PROVE  row.indices[j] = Index((m - 1) * 2^l + j)
  OBVIOUS
<1>1. row.indices[j] = indices[(m - 1) * 2^l + j]
  BY DEF Covers
<1>2. (m - 1) * 2^l + j \in 1..2^K
  BY InTree DEF Positions
<1>3. DOMAIN indices = 1..2^K
  <2>1. indices \in Seq(Indices)
    BY DEF EquihashInv, Expanded
  <2> QED BY <2>1
<1> QED BY <1>1, <1>2, <1>3 DEF IndicesRight

\* The two rows that are compared next.
LEMMA NextPair ==
  ASSUME EquihashInv, VerdictInv, NEW l \in 0..K, RoundOK(l), PairLeft,
         NEW n, n = Len(Xc)
  PROVE  /\ l < K /\ l + 1 \in 1..K /\ n \in Nat /\ n + 1 \in 1..2^(K - (l + 1))
         /\ DOMAIN Xc = 1..n /\ TreeOK(l)
         /\ Left \in Row(K + 1 - l, 2^l) /\ Right \in Row(K + 1 - l, 2^l)
         /\ Segments(Left, l, 2 * n + 1) /\ Segments(Right, l, 2 * n + 2)
         /\ \A j \in 1..2^l : Left.indices[j] = Index((2 * n) * 2^l + j)
         /\ \A j \in 1..2^l : Right.indices[j] = Index((2 * n + 1) * 2^l + j)
         /\ 2 * n + 1 \in 1..2^(K - l) /\ 2 * n + 2 \in 1..2^(K - l)
<1>1. /\ l < K /\ Len(X) = 2 * 2^(K - (l + 1)) /\ DOMAIN X = 1..Len(X)
      /\ 2^(K - (l + 1)) \in Nat /\ n \in Nat
      /\ Xc \in [1..n -> Row(K - l, 2^(l + 1))]
      /\ n + 1 <= Len(X) \div 2
      /\ 2 * n + 1 \in DOMAIN X /\ 2 * n + 2 \in DOMAIN X
  BY Pair
<1>2. /\ X \in [1..2^(K - l) -> Row(K + 1 - l, 2^l)] /\ Len(indices) = 2^K
      /\ Left = X[2 * n + 1] /\ Right = X[2 * n + 2]
      /\ Covers(Left, 2^l, 2 * n + 1) /\ Covers(Right, 2^l, 2 * n + 2)
  BY <1>1 DEF RoundOK, Left, Right
<1>3. DOMAIN X = 1..2^(K - l) /\ Len(X) = 2^(K - l)
  BY <1>2, Powers, Table1
<1>4. l + 1 \in 1..K
  BY <1>1, RoundsAssumption
<1>5. n + 1 \in 1..2^(K - (l + 1))
  <2> DEFINE half == 2^(K - (l + 1))
  <2>1. half \in Nat /\ Len(X) = 2 * half /\ n \in Nat /\ n + 1 <= Len(X) \div 2
    BY <1>1
  <2> HIDE DEF half
  <2>2. n + 1 \in 1..half
    BY <2>1
  <2> QED BY <2>2 DEF half
<1>6. TreeOK(l)
  <2>1. X # <<>>
    BY DEF PairLeft
  <2> QED BY <1>3, <2>1 DEF VerdictInv
<1>7. Left \in Row(K + 1 - l, 2^l) /\ Right \in Row(K + 1 - l, 2^l)
  BY <1>1, <1>2, <1>3
<1>8. Segments(Left, l, 2 * n + 1) /\ Segments(Right, l, 2 * n + 2)
  BY <1>1, <1>2, <1>6 DEF TreeOK
<1>9. 2 * n + 1 \in 1..2^(K - l) /\ 2 * n + 2 \in 1..2^(K - l)
  BY <1>1, <1>3
<1>10. /\ \A j \in 1..2^l : Left.indices[j] = Index(((2 * n + 1) - 1) * 2^l + j)
       /\ \A j \in 1..2^l : Right.indices[j] = Index(((2 * n + 2) - 1) * 2^l + j)
  BY <1>2, <1>9, RowPlaces DEF VerdictInv
<1>11. (2 * n + 1) - 1 = 2 * n /\ (2 * n + 2) - 1 = 2 * n + 1
  BY <1>1
<1> QED BY <1>1, <1>4, <1>5, <1>6, <1>7, <1>8, <1>9, <1>10, <1>11

\* The first places under a node and under its right half.
LEMMA FirstPlaces ==
  ASSUME NEW l \in 0..K, NEW n \in Nat
  PROVE  /\ 1 \in 1..2^l
         /\ ((n + 1) - 1) * 2^(l + 1) + 1 = (2 * n) * 2^l + 1
         /\ RightHalf(l + 1, n + 1) = (2 * n + 1) * 2^l + 1
<1> DEFINE w == 2^l
<1>1. w \in Nat \ {0} /\ 2^(l + 1) = 2 * w /\ (l + 1) - 1 = l /\ (n + 1) - 1 = n
  BY Powers
<1>2. RightHalf(l + 1, n + 1) = n * (2 * w) + w + 1
  BY <1>1 DEF RightHalf
<1> HIDE DEF w
<1>3. n * (2 * w) = (2 * n) * w /\ (2 * n + 1) * w = (2 * n) * w + w
      /\ (2 * n) * w \in Nat /\ 1 \in 1..w
  BY <1>1
<1> QED BY <1>1, <1>2, <1>3 DEF w

\* Two segments that differ nowhere have an empty exclusive or.
LEMMA XorEmpty ==
  ASSUME NEW S, NEW T
  PROVE  Xor(S, T) = {} <=> S = T
BY DEF Xor

\* A good pair makes its node a collision.
LEMMA GoodIsCollision ==
  ASSUME EquihashInv, VerdictInv, NEW l \in 0..K, RoundOK(l), PairLeft, GoodPair,
         NEW n, n = Len(Xc)
  PROVE  Collision(l + 1, n + 1)
<1>0. l \in Nat /\ K \in Nat
  BY RoundsAssumption
<1>1. /\ l < K /\ n \in Nat /\ TreeOK(l)
      /\ Left \in Row(K + 1 - l, 2^l) /\ Right \in Row(K + 1 - l, 2^l)
      /\ Segments(Left, l, 2 * n + 1) /\ Segments(Right, l, 2 * n + 2)
      /\ 2 * n + 1 \in 1..2^(K - l) /\ 2 * n + 2 \in 1..2^(K - l)
  BY NextPair
<1>2. ASSUME NEW s \in 1..(l + 1)
      PROVE  XorOver(Node(l + 1, n + 1), s) = {}
  <2>1. XorOver(Node(l + 1, n + 1), s)
          = Xor(XorOver(Node(l, 2 * n + 1), s), XorOver(Node(l, 2 * n + 2), s))
    BY <1>1, XorOfNode
  <2>2. CASE s \in 1..l
    <3>1. l \in 1..l /\ Collision(l, 2 * n + 1) /\ Collision(l, 2 * n + 2)
      BY <1>0, <1>1, <2>2 DEF TreeOK
    <3>2. XorOver(Node(l, 2 * n + 1), s) = {} /\ XorOver(Node(l, 2 * n + 2), s) = {}
      BY <2>2, <3>1 DEF Collision
    <3> QED BY <2>1, <3>2 DEF Xor
  <2>3. CASE s = l + 1
    <3>1. Left.hash[1] = Right.hash[1]
      BY DEF GoodPair, HasCollision
    <3>2. 1 \in DOMAIN Left.hash /\ 1 \in DOMAIN Right.hash
      BY <1>0, <1>1 DEF Row
    <3>3. Left.hash[1] = XorOver(Node(l, 2 * n + 1), s)
          /\ Right.hash[1] = XorOver(Node(l, 2 * n + 2), s)
      <4>1. 1 + l = s
        BY <1>0, <1>1, <2>3
      <4> QED BY <1>1, <3>2, <4>1 DEF Segments
    <3>4. Xor(Left.hash[1], Right.hash[1]) = {}
      BY <3>1 DEF Xor
    <3> QED BY <2>1, <3>3, <3>4
  <2> QED BY <1>0, <1>1, <2>2, <2>3
<1>3. Left.indices[1] < Right.indices[1]
  <2> DEFINE w == 2^l
             h == K + 1 - l
  <2>1. w \in Nat \ {0} /\ h \in Nat /\ Left \in Row(h, w) /\ Right \in Row(h, w)
    BY <1>0, <1>1, Powers
  <2> HIDE DEF w, h
  <2>2. IndicesBefore(Left, Right) /\ DistinctIndices(Left, Right)
    BY <2>1, LeftFirst DEF GoodPair
  <2>3. DOMAIN Left.indices = 1..w /\ DOMAIN Right.indices = 1..w /\ 1 \in 1..w
    BY <2>1 DEF Row
  <2>4. Left.indices[1] # Right.indices[1]
    BY <2>2, <2>3 DEF DistinctIndices
  <2>5. PICK k \in 1..w : /\ Left.indices[k] < Right.indices[k]
                          /\ \A j \in 1..(k - 1) : Left.indices[j] = Right.indices[j]
    BY <2>2, <2>3 DEF IndicesBefore
  <2>6. k = 1
    <3> SUFFICES ASSUME k # 1 PROVE FALSE
      OBVIOUS
    <3>1. 1 \in 1..(k - 1)
      BY <2>1
    <3> QED BY <2>4, <2>5, <3>1
  <2> QED BY <2>5, <2>6
<1>4. /\ Left.indices[1] = Index((2 * n) * 2^l + 1)
      /\ Right.indices[1] = Index((2 * n + 1) * 2^l + 1)
  <2>1. /\ \A j \in 1..2^l : Left.indices[j] = Index((2 * n) * 2^l + j)
        /\ \A j \in 1..2^l : Right.indices[j] = Index((2 * n + 1) * 2^l + j)
    BY NextPair
  <2>2. 1 \in 1..2^l
    BY <1>1, FirstPlaces
  <2> QED BY <2>1, <2>2
<1>5. Index(((n + 1) - 1) * 2^(l + 1) + 1) < Index(RightHalf(l + 1, n + 1))
  BY <1>1, <1>3, <1>4, FirstPlaces
<1> QED BY <1>2, <1>5 DEF Collision

\* The pairs of a solution are good.
LEMMA SolutionIsGood ==
  ASSUME EquihashInv, VerdictInv, NEW l \in 0..K, RoundOK(l), PairLeft, IsSolution
  PROVE  GoodPair
<1>0. PICK n : n = Len(Xc)
  OBVIOUS
<1>9. l \in Nat /\ K \in Nat
  BY RoundsAssumption
<1> DEFINE w == 2^l
<1>1. /\ l < K /\ l + 1 \in 1..K /\ n \in Nat /\ n + 1 \in 1..2^(K - (l + 1))
      /\ Left \in Row(K + 1 - l, w) /\ Right \in Row(K + 1 - l, w)
      /\ Segments(Left, l, 2 * n + 1) /\ Segments(Right, l, 2 * n + 2)
      /\ 2 * n + 1 \in 1..2^(K - l) /\ 2 * n + 2 \in 1..2^(K - l)
  BY <1>0, NextPair
<1>2. /\ \A j \in 1..w : Left.indices[j] = Index((2 * n) * w + j)
      /\ \A j \in 1..w : Right.indices[j] = Index((2 * n + 1) * w + j)
  BY <1>0, NextPair
<1>3. DOMAIN Left.indices = 1..w /\ DOMAIN Right.indices = 1..w
      /\ w \in Nat \ {0} /\ 1 \in 1..w
  BY <1>9, <1>1, Powers, FirstPlaces DEF Row
<1>4. Collision(l + 1, n + 1)
  BY <1>9, <1>1 DEF IsSolution
<1>5. HasCollision(Left, Right)
  <2>1. XorOver(Node(l + 1, n + 1), l + 1) = {}
    <3>1. l + 1 \in 1..(l + 1)
      BY <1>9, <1>1
    <3> QED BY <1>4, <3>1 DEF Collision
  <2>2. XorOver(Node(l + 1, n + 1), l + 1)
          = Xor(XorOver(Node(l, 2 * n + 1), l + 1), XorOver(Node(l, 2 * n + 2), l + 1))
    BY <1>1, XorOfNode
  <2>3. XorOver(Node(l, 2 * n + 1), l + 1) = XorOver(Node(l, 2 * n + 2), l + 1)
    BY <2>1, <2>2, XorEmpty
  <2>4. 1 \in DOMAIN Left.hash /\ 1 \in DOMAIN Right.hash
    BY <1>9, <1>1 DEF Row
  <2>5. 1 + l = l + 1
    BY <1>9, <1>1
  <2>6. Left.hash[1] = XorOver(Node(l, 2 * n + 1), l + 1)
        /\ Right.hash[1] = XorOver(Node(l, 2 * n + 2), l + 1)
    BY <1>9, <1>1, <2>4, <2>5 DEF Segments
  <2> QED BY <2>3, <2>6 DEF HasCollision
<1>6. Left.indices[1] < Right.indices[1]
  <2>1. Index(((n + 1) - 1) * 2^(l + 1) + 1) < Index(RightHalf(l + 1, n + 1))
    BY <1>4 DEF Collision
  <2>2. /\ Left.indices[1] = Index((2 * n) * 2^l + 1)
        /\ Right.indices[1] = Index((2 * n + 1) * 2^l + 1)
    BY <1>2, <1>3
  <2> QED BY <1>1, <2>1, <2>2, FirstPlaces
<1> HIDE DEF w
<1>7. ~IndicesBefore(Right, Left)
  <2> SUFFICES ASSUME IndicesBefore(Right, Left) PROVE FALSE
    OBVIOUS
  <2>1. PICK k \in 1..w : /\ Right.indices[k] < Left.indices[k]
                          /\ \A j \in 1..(k - 1) : Right.indices[j] = Left.indices[j]
    BY <1>3 DEF IndicesBefore
  <2>2. Left.indices[1] \in Nat /\ Right.indices[1] \in Nat
    BY <1>1, <1>3, Widths DEF Row
  <2>3. k # 1
    BY <1>6, <2>1, <2>2
  <2>4. 1 \in 1..(k - 1)
    BY <1>3, <2>3
  <2>5. Right.indices[1] = Left.indices[1]
    BY <2>1, <2>4
  <2> QED BY <1>6, <2>2, <2>5
<1>8. DistinctIndices(Left, Right)
  <2> SUFFICES ASSUME NEW p \in 1..w, NEW q \in 1..w
               PROVE  Left.indices[p] # Right.indices[q]
    BY <1>3 DEF DistinctIndices
  <2>1. (2 * n) * w + p \in Positions /\ (2 * n + 1) * w + q \in Positions
    <3>1. (2 * n + 1) - 1 = 2 * n /\ (2 * n + 2) - 1 = 2 * n + 1
      BY <1>1
    <3>2. ((2 * n + 1) - 1) * 2^l + p \in Positions
          /\ ((2 * n + 2) - 1) * 2^l + q \in Positions
      BY <1>1, InTree DEF w
    <3> QED BY <3>1, <3>2 DEF w
  <2>2. (2 * n) * w + p # (2 * n + 1) * w + q
    <3>1. (2 * n + 1) * w = (2 * n) * w + w /\ (2 * n) * w \in Nat
      BY <1>1, <1>3
    <3> QED BY <1>3, <3>1
  <2> QED BY <1>2, <2>1, <2>2 DEF IsSolution
<1> QED BY <1>5, <1>7, <1>8 DEF GoodPair
-----------------------------------------------------------------------------
\* Every step keeps the verdict right

\* What was read of the string, and the tree, do not change by themselves.
LEMMA SameReading ==
  ASSUME VerdictInv, UNCHANGED <<blake, soln, expansion>>
  PROVE  AccumulatorHoldsTail' /\ IndicesRight'
<1>1. /\ UNCHANGED <<i, accBits, accValue, indices>>
      /\ \A n : BitOf(n)' = BitOf(n)
      /\ \A p : Index(p)' = Index(p)
  BY SameDefinition DEF expansion
<1>2. ASSUME NEW n \in 1..accBits'
      PROVE  (Bit(accValue, n - 1) = BitOf(ByteBits * i - (n - 1)))'
  <2>1. Bit(accValue, n - 1) = BitOf(ByteBits * i - (n - 1))
    BY <1>1 DEF VerdictInv, AccumulatorHoldsTail
  <2>2. BitOf(ByteBits * i - (n - 1))' = BitOf(ByteBits * i - (n - 1))
    BY <1>1 DEF BitOf
  <2> QED BY <1>1, <2>1, <2>2 DEF Bit
<1>3. AccumulatorHoldsTail'
  BY <1>2 DEF AccumulatorHoldsTail
<1>4. IndicesRight'
  BY <1>1 DEF VerdictInv, IndicesRight
<1> QED BY <1>3, <1>4

\* The tree below the rows stays while hashes and bytes do.
LEMMA SameTree ==
  ASSUME UNCHANGED <<blake, soln, X, Xc>>, NEW l, TreeOK(l)
  PROVE  TreeOK(l)'
<1>1. \A m \in DOMAIN X : Segments(X[m], l, m)'
  BY SameDefinition DEF TreeOK, Segments
<1>2. \A m \in DOMAIN Xc : Segments(Xc[m], l + 1, m)' /\ Collision(l + 1, m)'
  BY SameDefinition DEF TreeOK, Segments
<1>3. \A j \in 1..l : \A m \in 1..2^(K - j) : Collision(j, m)'
  BY SameDefinition DEF TreeOK
<1> QED BY <1>1, <1>2, <1>3 DEF TreeOK

\* The check returns what the definition says.
LEMMA ReturnVerdict ==
  ASSUME VerdictInv, NEW verdict, Return(verdict), verdict = "valid" <=> IsSolution
  PROVE  VerdictInv'
<1>1. result' = verdict /\ UNCHANGED <<blake, soln, expansion, X, Xc>>
  BY DEF Return, arguments
<1>2. AccumulatorHoldsTail' /\ IndicesRight'
  BY <1>1, SameReading
<1>3. VerdictIsRight'
  BY <1>1, SameDefinition DEF VerdictIsRight
<1>4. \A l \in 0..K : (X # <<>> /\ Len(X) = 2^(K - l) => TreeOK(l))'
  BY <1>1, SameTree DEF VerdictInv
<1> QED BY <1>1, <1>2, <1>3, <1>4 DEF VerdictInv

\* While bytes are taken there are no rows.
LEMMA ExpandByteVerdict ==
  ASSUME EquihashInv, VerdictInv, ExpandByte, result = "none"
  PROVE  VerdictInv'
<1>1. X' = <<>> /\ result' = "none"
  BY DEF ExpandByte
<1>2. AccumulatorHoldsTail' /\ IndicesRight'
  BY ExpandByteRight DEF VerdictInv
<1> QED BY <1>1, <1>2 DEF VerdictInv, VerdictIsRight

\* The rows of the first round are the leaves.
LEMMA MakeRowsVerdict ==
  ASSUME EquihashInv, EquihashInv', VerdictInv, MakeRows, result = "none"
  PROVE  VerdictInv'
<1>1. /\ X = <<>> /\ Xc = <<>> /\ Len(indices) = 2^K /\ Len(soln) = SolutionWidth
      /\ X' = [p \in 1..Len(indices) |->
                 [hash |-> blake[indices[p]], indices |-> <<indices[p]>>]]
      /\ UNCHANGED <<blake, soln, expansion, Xc, result>>
  BY AllExpanded DEF MakeRows, EquihashInv, arguments
<1>2. AccumulatorHoldsTail' /\ IndicesRight'
  BY <1>1, SameReading
<1>3. VerdictIsRight'
  BY <1>1 DEF VerdictIsRight
<1>4. /\ K \in Nat /\ 0 \in 0..K /\ K - 0 = K /\ 2^K \in Nat /\ Len(X') = 2^K
      /\ DOMAIN X' = 1..2^K /\ DOMAIN indices = 1..2^K
  <2>1. K \in Nat /\ 0 \in 0..K /\ K - 0 = K
    BY RoundsAssumption
  <2>2. 2^K \in Nat
    BY <2>1, Powers
  <2>3. indices \in Seq(Indices)
    BY DEF EquihashInv, Expanded
  <2>4. DOMAIN X' = 1..2^K
    BY <1>1
  <2>5. Len(X') = 2^K
    BY <2>2, <2>4
  <2> QED BY <1>1, <2>1, <2>2, <2>3, <2>4, <2>5
<1>5. ASSUME NEW m \in 1..2^K
      PROVE  Segments(X[m], 0, m)'
  <2>1. X'[m].hash = blake[Index(m)] /\ indices[m] = Index(m) /\ Index(m) \in Indices
    <3>1. indices \in Seq(Indices)
      BY DEF EquihashInv, Expanded
    <3>2. X'[m].hash = blake[indices[m]]
      BY <1>1
    <3> QED BY <1>4, <3>1, <3>2 DEF VerdictInv, IndicesRight
  <2>2. blake \in [Indices -> [1..(K + 1) -> SUBSET Bits]]
    BY HashesAssumption DEF EquihashInv
  <2>3. m \in Nat \ {0}
    BY <1>4
  <2>4. ASSUME NEW s \in 1..(K + 1)
        PROVE  XorOver(Node(0, m), s + 0)' = blake[Index(m)][s]
    <3>1. XorOver({m}, s) = blake[Index(m)][s]
      BY <2>1, <2>2, XorOfOne
    <3>2. s + 0 = s /\ Node(0, m) = {m}
      BY <1>4, <2>3, Leaf
    <3>3. XorOver({m}, s)' = XorOver({m}, s)
      BY <1>1, SameDefinition
    <3> QED BY <3>1, <3>2, <3>3 DEF XorOver
  <2>5. DOMAIN X'[m].hash = 1..(K + 1)
    BY <2>1, <2>2
  <2> QED BY <2>1, <2>4, <2>5 DEF Segments
<1>6. TreeOK(0)'
  <2>1. \A j \in 1..0 : FALSE
    OBVIOUS
  <2>2. DOMAIN Xc' = {}
    BY <1>1
  <2> QED BY <1>4, <1>5, <2>1, <2>2 DEF TreeOK
<1>7. ASSUME NEW l \in 0..K, Len(X') = 2^(K - l)
      PROVE  TreeOK(l)'
  <2>1. l = 0
    BY <1>4, <1>7, OneLevel
  <2> QED BY <1>6, <2>1
<1>8. Len(soln') = SolutionWidth
  BY <1>1
<1> QED BY <1>2, <1>3, <1>7, <1>8 DEF VerdictInv

\* The level of the rows.
LEMMA LevelOf ==
  ASSUME NEW l \in 0..K, RoundOK(l)
  PROVE  /\ Len(X) = 2^(K - l) /\ DOMAIN X = 1..2^(K - l)
         /\ \A j \in 0..K : Len(X) = 2^(K - j) => j = l
<1>1. Len(X) = 2^(K - l) /\ DOMAIN X = 1..2^(K - l)
  BY Powers, Table1 DEF RoundOK
<1> QED BY <1>1, OneLevel

\* A pair merged stands for its node, which collides.
LEMMA MergePairVerdict ==
  ASSUME EquihashInv, VerdictInv, MergePair, result = "none"
  PROVE  VerdictInv'
<1>1. /\ PairLeft /\ GoodPair /\ Xc' = Append(Xc, Merged(Left, Right))
      /\ UNCHANGED <<blake, soln, expansion, X, result>>
  BY DEF MergePair, arguments
<1>2. PICK l \in 0..K : RoundOK(l)
  BY <1>1 DEF EquihashInv, PairLeft
<1>3. PICK n : n = Len(Xc)
  OBVIOUS
<1>4. /\ l < K /\ n \in Nat /\ DOMAIN Xc = 1..n /\ TreeOK(l)
      /\ Left \in Row(K + 1 - l, 2^l) /\ Right \in Row(K + 1 - l, 2^l)
      /\ Segments(Left, l, 2 * n + 1) /\ Segments(Right, l, 2 * n + 2)
  BY <1>1, <1>2, <1>3, NextPair
<1>5. Collision(l + 1, n + 1)
  BY <1>1, <1>2, <1>3, GoodIsCollision
<1>6. Segments(Merged(Left, Right), l + 1, n + 1)
  <2> DEFINE h == K + 1 - l
  <2>1. h \in Nat /\ l \in Nat
    BY RoundsAssumption
  <2>2. Left.hash \in [1..h -> SUBSET Bits] /\ Right.hash \in [1..h -> SUBSET Bits]
    BY <1>4 DEF Row
  <2> HIDE DEF h
  <2>3. Len(Left.hash) = h /\ DOMAIN Left.hash = 1..h /\ DOMAIN Right.hash = 1..h
    BY <2>1, <2>2, Table1
  <2>4. Merged(Left, Right).hash
          = [s \in 1..(h - 1) |-> Xor(Left.hash[s + 1], Right.hash[s + 1])]
    BY <2>3 DEF Merged
  <2>5. ASSUME NEW s \in 1..(h - 1)
        PROVE  Xor(Left.hash[s + 1], Right.hash[s + 1])
                 = XorOver(Node(l + 1, n + 1), s + (l + 1))
    <3>1. s + 1 \in 1..h /\ (s + 1) + l = s + (l + 1)
      BY <2>1
    <3>2. /\ Left.hash[s + 1] = XorOver(Node(l, 2 * n + 1), (s + 1) + l)
          /\ Right.hash[s + 1] = XorOver(Node(l, 2 * n + 2), (s + 1) + l)
      BY <1>4, <2>3, <3>1 DEF Segments
    <3>3. XorOver(Node(l + 1, n + 1), s + (l + 1))
            = Xor(XorOver(Node(l, 2 * n + 1), s + (l + 1)),
                  XorOver(Node(l, 2 * n + 2), s + (l + 1)))
      BY <1>4, XorOfNode
    <3> QED BY <3>1, <3>2, <3>3
  <2> QED BY <2>4, <2>5 DEF Segments
<1>7. /\ DOMAIN Xc' = 1..(n + 1) /\ Xc'[n + 1] = Merged(Left, Right)
      /\ \A m \in 1..n : Xc'[m] = Xc[m]
  <2> DEFINE S == {Xc[m] : m \in 1..n} \cup {Merged(Left, Right)}
             row == Merged(Left, Right)
  <2>1. Xc \in Seq(S) /\ row \in S
    <3>1. Xc = [m \in 1..n |-> Xc[m]]
      <4>1. \E R : Xc \in [1..n -> R]
        BY <1>1, <1>2, <1>3, Pair
      <4> QED BY <4>1
    <3>2. Xc \in [1..n -> S]
      BY <3>1
    <3> HIDE DEF S, row
    <3> QED BY <1>4, <3>2, Table1 DEF S, row
  <2>2. Xc' = Append(Xc, row)
    BY <1>1
  <2> HIDE DEF S, row
  <2> QED BY <1>3, <2>1, <2>2, Appended DEF row
<1>8. TreeOK(l)'
  <2>1. \A m \in DOMAIN X' : Segments(X[m], l, m)'
    BY <1>1, <1>4, SameDefinition DEF TreeOK, Segments
  <2>2. ASSUME NEW m \in DOMAIN Xc'
        PROVE  Segments(Xc[m], l + 1, m)' /\ Collision(l + 1, m)'
    <3>1. Segments(Xc'[m], l + 1, m) /\ Collision(l + 1, m)
      <4>1. CASE m = n + 1
        BY <1>5, <1>6, <1>7, <4>1
      <4>2. CASE m \in 1..n
        BY <1>4, <1>7, <4>2 DEF TreeOK
      <4>3. m \in 1..(n + 1)
        BY <1>7
      <4> QED BY <1>4, <4>1, <4>2, <4>3
    <3>2. Collision(l + 1, m)'
      BY <1>1, <3>1, SameDefinition
    <3>3. Segments(Xc[m], l + 1, m)'
      BY <1>1, <3>1, SameDefinition DEF Segments
    <3> QED BY <3>2, <3>3
  <2>3. \A j \in 1..l : \A m \in 1..2^(K - j) : Collision(j, m)'
    BY <1>1, <1>4, SameDefinition DEF TreeOK
  <2> QED BY <2>1, <2>2, <2>3 DEF TreeOK
<1>9. AccumulatorHoldsTail' /\ IndicesRight'
  BY <1>1, SameReading
<1>10. VerdictIsRight'
  BY <1>1 DEF VerdictIsRight
<1>11. \A j \in 0..K : Len(X') = 2^(K - j) => TreeOK(j)'
  BY <1>1, <1>2, <1>8, LevelOf
<1>12. X # <<>> /\ Len(soln') = SolutionWidth
  BY <1>1 DEF VerdictInv, PairLeft
<1> QED BY <1>9, <1>10, <1>11, <1>12 DEF VerdictInv
\* The rows of the next round are the nodes one level up.
LEMMA NextRoundVerdict ==
  ASSUME EquihashInv, VerdictInv, NextRound, result = "none"
  PROVE  VerdictInv'
<1>1. /\ Len(X) > 1 /\ 2 * Len(Xc) = Len(X) /\ X' = Xc /\ Xc' = <<>> /\ X # <<>>
      /\ UNCHANGED <<blake, soln, expansion, result>>
  BY DEF NextRound, arguments
<1>2. PICK l \in 0..K : RoundOK(l)
  BY <1>1 DEF EquihashInv
<1>3. TreeOK(l) /\ Len(X) = 2^(K - l)
  BY <1>1, <1>2, LevelOf DEF VerdictInv
<1>4. l < K
  BY <1>1, <1>3, Powers
<1> DEFINE half == 2^(K - (l + 1))
<1>5. half \in Nat /\ Len(X) = 2 * half /\ l + 1 \in 0..K /\ l \in Nat
  BY <1>3, <1>4, Powers
<1>6. Len(Xc) = half /\ DOMAIN Xc = 1..half
  <2>1. PICK n \in 0..(Len(X) \div 2) : Xc \in [1..n -> Row(K - l, 2^(l + 1))]
    BY <1>2 DEF RoundOK
  <2> HIDE DEF half
  <2>2. n \in Nat
    BY <1>5, <2>1
  <2>3. Len(Xc) = n /\ DOMAIN Xc = 1..n
    BY <2>1, <2>2, Table1
  <2> QED BY <1>1, <1>5, <2>2, <2>3
<1>7. TreeOK(l + 1)'
  <2>1. \A m \in DOMAIN X' : Segments(X[m], l + 1, m)'
    BY <1>1, <1>3, SameDefinition DEF TreeOK, Segments
  <2>2. DOMAIN Xc' = {}
    BY <1>1
  <2>3. ASSUME NEW j \in 1..(l + 1), NEW m \in 1..2^(K - j)
        PROVE  Collision(j, m)'
    <3>1. CASE j = l + 1
      <4>1. Collision(l + 1, m)
        BY <1>3, <1>6, <3>1 DEF TreeOK
      <4> QED BY <1>1, <3>1, <4>1, SameDefinition
    <3>2. CASE j \in 1..l
      <4>1. Collision(j, m)
        BY <1>3, <3>2 DEF TreeOK
      <4> QED BY <1>1, <4>1, SameDefinition
    <3> QED BY <1>5, <3>1, <3>2
  <2> QED BY <2>1, <2>2, <2>3 DEF TreeOK
<1>8. \A j \in 0..K : Len(X') = 2^(K - j) => TreeOK(j)'
  <2> SUFFICES ASSUME NEW j \in 0..K, Len(X') = 2^(K - j) PROVE TreeOK(j)'
    OBVIOUS
  <2>1. 2^(K - (l + 1)) = 2^(K - j)
    BY <1>1, <1>6
  <2>2. l + 1 = j
    BY <1>5, <2>1, OneLevel
  <2> QED BY <1>7, <2>2
<1>9. AccumulatorHoldsTail' /\ IndicesRight'
  BY <1>1, SameReading
<1>10. VerdictIsRight' /\ Len(soln') = SolutionWidth
  BY <1>1 DEF VerdictInv, VerdictIsRight
<1> QED BY <1>8, <1>9, <1>10 DEF VerdictInv

\* A pair that is not good refutes the solution.
LEMMA RejectPairVerdict ==
  ASSUME EquihashInv, VerdictInv, RejectPair
  PROVE  VerdictInv'
<1>1. PairLeft /\ ~GoodPair /\ Return("invalid")
  BY DEF RejectPair
<1>2. PICK l \in 0..K : RoundOK(l)
  BY <1>1 DEF EquihashInv, PairLeft
<1>3. ~IsSolution
  BY <1>1, <1>2, SolutionIsGood
<1> QED BY <1>1, <1>3, ReturnVerdict

\* The last row is the root: it is zero just for a solution.
LEMMA LastRowVerdict ==
  ASSUME EquihashInv, VerdictInv, LastRow
  PROVE  VerdictInv'
<1>1. Len(X) = 1 /\ X # <<>> /\ Return(IF IsZero(X[1]) THEN "valid" ELSE "invalid")
  BY DEF LastRow
<1>2. PICK l \in 0..K : RoundOK(l)
  BY <1>1 DEF EquihashInv
<1>3. K \in 0..K /\ K \in Nat \ {0} /\ K \in 1..K
  BY RoundsAssumption
<1>4. l = K /\ TreeOK(K) /\ RoundOK(K) /\ DOMAIN X = 1..1
  <2>1. 2^(K - K) = 1
    BY <1>3, Powers
  <2>2. l = K
    BY <1>1, <1>2, <1>3, <2>1, LevelOf
  <2> QED BY <1>1, <1>2, <1>3, <2>1, <2>2, LevelOf DEF VerdictInv
<1>5. X[1] \in Row(1, 2^K) /\ Covers(X[1], 2^K, 1) /\ Len(indices) = 2^K
      /\ Segments(X[1], K, 1)
  <2>1. 2^(K - K) = 1 /\ K + 1 - K = 1
    BY <1>3, Powers
  <2>2. X \in [1..1 -> Row(1, 2^K)]
    BY <1>4, <2>1 DEF RoundOK
  <2> QED BY <1>4, <2>2 DEF RoundOK, TreeOK
<1>6. IsZero(X[1]) <=> XorOver(Positions, K + 1) = {}
  <2>1. DOMAIN X[1].hash = {1}
    BY <1>5 DEF Row
  <2>2. X[1].hash[1] = XorOver(Node(K, 1), 1 + K)
    BY <1>5, <2>1 DEF Segments
  <2>3. 1 + K = K + 1
    BY <1>3
  <2> QED BY <2>1, <2>2, <2>3, Root DEF IsZero
<1>7. ASSUME NEW s \in 1..K PROVE XorOver(Positions, s) = {}
  <2>1. 1 \in 1..2^(K - K)
    BY <1>3, Powers
  <2>2. Collision(K, 1)
    BY <1>3, <1>4, <2>1 DEF TreeOK
  <2> QED BY <2>2, Root DEF Collision
<1>8. \A l0 \in 1..K : \A m \in 1..2^(K - l0) : Collision(l0, m)
  BY <1>4 DEF TreeOK
<1>9. ASSUME NEW p \in Positions, NEW q \in Positions, p # q
      PROVE  Index(p) # Index(q)
  <2> DEFINE w == 2^K
  <2>1. w \in Nat
    BY <1>3, Powers
  <2>2. \A j \in 1..w : X[1].indices[j] = Index((1 - 1) * w + j)
    <3>1. 1 \in 1..2^(K - K)
      BY <1>3, Powers
    <3> QED BY <1>3, <1>5, <3>1, RowPlaces DEF VerdictInv
  <2>3. p \in 1..w /\ q \in 1..w
    BY DEF Positions
  <2>4. X[1].indices[p] # X[1].indices[q]
    BY <1>5, <1>9, <2>3 DEF Covers
  <2> HIDE DEF w
  <2>5. (1 - 1) * w + p = p /\ (1 - 1) * w + q = q
    BY <2>1, <2>3
  <2> QED BY <2>2, <2>3, <2>4, <2>5
<1>10. Len(soln) = SolutionWidth
  BY <1>1 DEF VerdictInv
<1>11. IsSolution <=> IsZero(X[1])
  <2>1. \A s \in 1..(K + 1) : s \in 1..K \/ s = K + 1
    BY <1>3
  <2>2. K + 1 \in 1..(K + 1)
    BY <1>3
  <2> QED BY <1>6, <1>7, <1>8, <1>9, <1>10, <2>1, <2>2 DEF IsSolution
<1>12. CASE IsZero(X[1])
  BY <1>1, <1>11, <1>12, ReturnVerdict
<1>13. CASE ~IsZero(X[1])
  BY <1>1, <1>11, <1>13, ReturnVerdict
<1> QED BY <1>12, <1>13

\* Nothing has been taken at first.
LEMMA InitVerdict == Init => VerdictInv
BY DEF Init, VerdictInv, AccumulatorHoldsTail, IndicesRight, VerdictIsRight

\* Every step keeps the rows what they mean.
LEMMA StepVerdict ==
  EquihashInv /\ EquihashInv' /\ VerdictInv /\ [Next]_vars => VerdictInv'
<1> SUFFICES ASSUME EquihashInv, EquihashInv', VerdictInv, [Next]_vars
             PROVE  VerdictInv'
  OBVIOUS
<1>1. CASE UNCHANGED vars
  <2>1. UNCHANGED <<blake, soln, expansion, X, Xc, result>>
    BY <1>1 DEF vars, expansion
  <2>2. AccumulatorHoldsTail' /\ IndicesRight'
    BY <2>1, SameReading
  <2>3. VerdictIsRight'
    BY <2>1, SameDefinition DEF VerdictInv, VerdictIsRight
  <2>4. \A l \in 0..K : (X # <<>> /\ Len(X) = 2^(K - l) => TreeOK(l))'
    BY <2>1, SameTree DEF VerdictInv
  <2> QED BY <2>1, <2>2, <2>3, <2>4 DEF VerdictInv
<1>2. CASE result = "none" /\ WrongWidth
  <2>1. ~IsSolution
    BY <1>2 DEF WrongWidth, IsSolution
  <2> QED BY <1>2, <2>1, ReturnVerdict DEF WrongWidth
<1>3. CASE result = "none" /\ ExpandByte
  BY <1>3, ExpandByteVerdict
<1>4. CASE result = "none" /\ MakeRows
  BY <1>4, MakeRowsVerdict
<1>5. CASE result = "none" /\ RejectPair
  BY <1>5, RejectPairVerdict
<1>6. CASE result = "none" /\ MergePair
  BY <1>6, MergePairVerdict
<1>7. CASE result = "none" /\ NextRound
  BY <1>7, NextRoundVerdict
<1>8. CASE result = "none" /\ LastRow
  BY <1>8, LastRowVerdict
<1> QED BY <1>1, <1>2, <1>3, <1>4, <1>5, <1>6, <1>7, <1>8 DEF Next, Check, Returned

\* Rows that cover their places and have the segments left are subtrees.
LEMMA RowIsSubtree ==
  ASSUME EquihashInv, IndicesRight, Len(indices) = 2^K,
         NEW l \in 0..K, NEW m \in 1..2^(K - l), NEW h, NEW row \in Row(h, 2^l),
         Covers(row, 2^l, m), Segments(row, l, m)
  PROVE  IsSubtree(row, l, m)
<1>1. row.indices \in [1..2^l -> Indices] /\ 2^l \in Nat
  BY Powers DEF Row
<1>2. Len(row.indices) = 2^l
  BY <1>1, Table1
<1> QED BY <1>2, RowPlaces DEF IsSubtree, Segments

\* The invariant says what a row stands for.
LEMMA InvSubtrees == EquihashInv /\ VerdictInv => RowsAreSubtrees
<1> SUFFICES ASSUME EquihashInv, VerdictInv PROVE RowsAreSubtrees
  OBVIOUS
<1>1. CASE X = <<>>
  <2>1. Xc = <<>> /\ 0 \in 0..K
    BY <1>1, RoundsAssumption DEF EquihashInv
  <2>2. DOMAIN X = {} /\ DOMAIN Xc = {}
    BY <1>1, <2>1
  <2> QED BY <2>1, <2>2 DEF RowsAreSubtrees
<1>2. CASE X # <<>>
  <2>1. PICK l \in 0..K : RoundOK(l)
    BY <1>2 DEF EquihashInv
  <2>2. TreeOK(l) /\ DOMAIN X = 1..2^(K - l) /\ Len(X) = 2^(K - l)
    BY <1>2, <2>1, LevelOf DEF VerdictInv
  <2>3. ASSUME NEW m \in DOMAIN X PROVE IsSubtree(X[m], l, m)
    <3>1. X[m] \in Row(K + 1 - l, 2^l) /\ Covers(X[m], 2^l, m) /\ Len(indices) = 2^K
      BY <2>1, <2>2 DEF RoundOK
    <3>2. Segments(X[m], l, m)
      BY <2>2 DEF TreeOK
    <3> QED BY <2>2, <3>1, <3>2, RowIsSubtree DEF VerdictInv
  <2>4. ASSUME NEW m \in DOMAIN Xc PROVE IsSubtree(Xc[m], l + 1, m)
    <3>1. PICK n \in 0..(Len(X) \div 2) : Xc \in [1..n -> Row(K - l, 2^(l + 1))]
      BY <2>1 DEF RoundOK
    <3>2. Len(X) \in Nat /\ m \in 1..n /\ n >= 1
      <4>1. 2^(K - l) \in Nat
        BY Powers
      <4> QED BY <2>2, <3>1, <4>1
    <3>3. l + 1 \in 0..K /\ m \in 1..2^(K - (l + 1))
      <4>1. l < K
        <5> SUFFICES ASSUME l = K PROVE FALSE
          BY Powers
        <5>1. Len(X) = 1
          BY <2>2, Powers
        <5> QED BY <3>1, <3>2, <5>1
      <4> DEFINE half == 2^(K - (l + 1))
      <4>2. half \in Nat /\ Len(X) = 2 * half /\ l + 1 \in 0..K
        BY <2>2, <4>1, Powers
      <4> HIDE DEF half
      <4>3. m \in 1..half
        BY <3>1, <3>2, <4>2
      <4> QED BY <4>2, <4>3 DEF half
    <3>4. Xc[m] \in Row(K - l, 2^(l + 1)) /\ Covers(Xc[m], 2^(l + 1), m)
          /\ Len(indices) = 2^K
      BY <2>1, <3>1 DEF RoundOK
    <3>5. Segments(Xc[m], l + 1, m)
      BY <2>2 DEF TreeOK
    <3> QED BY <3>3, <3>4, <3>5, RowIsSubtree DEF VerdictInv
  <2> QED BY <2>3, <2>4 DEF RowsAreSubtrees
<1> QED BY <1>1, <1>2

-----------------------------------------------------------------------------
\* Every behaviour satisfies the invariant.
THEOREM EquihashInvariant == Spec => []EquihashInv
<1> QED BY InitEquihash, StepInv, PTL DEF Spec

\* The rows of a round are a power of two and of one shape, so that each has
\* its partner and the segments and indices the code reads are there.
THEOREM RowShapes == Spec => []EquihashTypeOK
<1> QED BY EquihashInvariant, InvShape, PTL

\* No accepted solution uses an index twice.
THEOREM AcceptedAreDistinct == Spec => []NoIndexTwice
<1> QED BY EquihashInvariant, InvDistinct, PTL

\* Invariant: what the rows mean, and that the verdict is the right one.
THEOREM VerdictInvariant == Spec => [](EquihashInv /\ VerdictInv)
<1>1. EquihashInv /\ VerdictInv /\ [Next]_vars => EquihashInv' /\ VerdictInv'
  BY StepInv, StepVerdict
<1> QED BY InitEquihash, InitVerdict, <1>1, PTL DEF Spec

\* However often the word was shifted, the bits counted in it are the last
\* ones of the bytes taken.
THEOREM TailIsHeld == Spec => []AccumulatorHoldsTail
<1>1. VerdictInv => AccumulatorHoldsTail
  BY DEF VerdictInv
<1> QED BY VerdictInvariant, <1>1, PTL

\* Row m of a round is node m of the tree over the solution: its indices in
\* the order they were submitted, and the segments not yet compared.
THEOREM RowsStandForSubtrees == Spec => []RowsAreSubtrees
<1> QED BY VerdictInvariant, InvSubtrees, PTL

\* IsValidSolution accepts exactly the solutions.
THEOREM VerdictIsExact == Spec => []VerdictIsRight
<1>1. VerdictInv => VerdictIsRight
  BY DEF VerdictInv
<1> QED BY VerdictInvariant, <1>1, PTL
=============================================================================
