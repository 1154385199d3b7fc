------------------------ MODULE EquihashProperties ------------------------
(***************************************************************************)
(* What Equihash::IsValidSolution promises: the verdict of the definition  *)
(* of a solution, whatever order the rounds look at it in.                 *)
(***************************************************************************)
EXTENDS Equihash, FiniteSets

Row(segments, width) ==
  [hash : [1..segments -> SUBSET Bits], indices : [1..width -> Indices]]

\* Type invariant of IsValidSolution.  All rows of a round have one shape:
\* two segments fewer and twice the indices are left after two rounds, and
\* the rows are a power of two, so that every row has its partner.
EquihashTypeOK ==
  /\ blake \in Hashes /\ soln \in Solutions
  /\ i \in 0..Len(soln) /\ accBits \in 0..(BitLen - 1)
  /\ accValue \in 0..(2^WordBits - 1) /\ indices \in Seq(Indices)
  /\ result \in {"none", "valid", "invalid"}
  /\ X # <<>> =>
       \E l \in 0..K :
         /\ X \in [1..2^(K - l) -> Row(K + 1 - l, 2^l)]
         /\ \E n \in 0..(Len(X) \div 2) :
              Xc \in [1..n -> Row(K - l, 2^(l + 1))]
  /\ X = <<>> => Xc = <<>>

-----------------------------------------------------------------------------
\* The definition of a solution, over the bits of its bytes and the whole tree

\* Bit n of a number, the lowest bit 0.
Bit(number, n) == (number \div 2^n) % 2

\* Bit n of the string of bytes, the first the highest of the first byte.
BitOf(n) ==
  Bit(soln[((n - 1) \div ByteBits) + 1], ByteBits - 1 - ((n - 1) % ByteBits))
\* The index at place p of the solution: the number of its BitLen bits.
Index(p) ==
  CHOOSE index \in Indices :
    \A n \in 1..BitLen : Bit(index, BitLen - n) = BitOf((p - 1) * BitLen + n)
Positions == 1..2^K

\* The positions under node m of level l.
Node(l, m) == ((m - 1) * 2^l + 1)..(m * 2^l)
RightHalf(l, m) == (m - 1) * 2^l + 2^(l - 1) + 1

\* The exclusive or of segment s over the positions P.
XorOver(P, s) ==
  {b \in Bits : Cardinality({p \in P : b \in blake[Index(p)][s]}) % 2 = 1}

\* Node m of level l is a collision of its halves, the left one first.
Collision(l, m) ==
  /\ \A s \in 1..l : XorOver(Node(l, m), s) = {}
  /\ Index((m - 1) * 2^l + 1) < Index(RightHalf(l, m))

IsSolution ==
  /\ Len(soln) = SolutionWidth
  /\ \A p, q \in Positions : p # q => Index(p) # Index(q)
  /\ \A s \in 1..(K + 1) : XorOver(Positions, s) = {}
  /\ \A l \in 1..K : \A m \in 1..2^(K - l) : Collision(l, m)

\* The rounds compare neighbours only, reorder what they merge and forget a
\* segment each, and the indices come from an accumulator of one word; still
\* the check accepts exactly the solutions.
\* equihash_original.cpp:285.
VerdictIsRight == result # "none" => (result = "valid" <=> IsSolution)

\* A row stands for a subtree of the solution: its indices in the order they
\* were submitted, and the exclusive or of the segments not yet compared.
\* The merge that reorders indices never has anything to reorder.
\* equihash_original.cpp:238, 309.
IsSubtree(row, l, m) ==
  /\ Len(row.indices) = 2^l
  /\ \A k \in 1..2^l : row.indices[k] = Index((m - 1) * 2^l + k)
  /\ \A s \in DOMAIN row.hash : row.hash[s] = XorOver(Node(l, m), s + l)
RowsAreSubtrees ==
  \E l \in 0..K :
    /\ \A m \in DOMAIN X : IsSubtree(X[m], l, m)
    /\ \A m \in DOMAIN Xc : IsSubtree(Xc[m], l + 1, m)

\* The accumulator is one word, is shifted for every byte and never cleared;
\* still the bits it is counted to hold are the last ones read of the string.
\* equihash_original.cpp:89.
AccumulatorHoldsTail ==
  \A n \in 1..accBits :
    Bit(accValue, n - 1) = BitOf(ByteBits * i - (n - 1))

\* An accepted solution holds 2^K indices, no one of them twice, although
\* DistinctIndices only ever compares the two halves of a row.
\* equihash.tcc:11.
NoIndexTwice ==
  result = "valid" =>
    /\ Len(indices) = 2^K
    /\ \A p, q \in DOMAIN indices : p # q => indices[p] # indices[q]
=============================================================================
