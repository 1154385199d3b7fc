------------------------------ MODULE Equihash ------------------------------
(***************************************************************************)
(* Equihash<N,K>::IsValidSolution: the bytes of a solution are 2^K indices *)
(* of BitLen bits; is the tree over them one of collisions?  ExpandArray   *)
(* takes the indices from the bytes through an accumulator of one word.    *)
(* Each index has a hash of K+1 segments.  The rows of a round are taken   *)
(* two by two; a pair must agree on its first segment, be in order and     *)
(* share no index, and merges into one row of the next round.              *)
(*                                                                         *)
(* A segment is the set of its one bits, so that exclusive or is symmetric *)
(* difference, and an index is a number: the code keeps indices big-endian *)
(* for memcmp to order them like numbers.                                  *)
(***************************************************************************)
EXTENDS Integers, Sequences

CONSTANTS
  K,          \* rounds
  ByteBits,   \* bits of a byte, 8
  WordBits,   \* bits of the accumulator, 32
  BitLen,     \* bits of an index, CollisionBitLength + 1
  Bits,       \* the bits of a segment
  Hashes,     \* the hashes BLAKE2b gives for some headers
  Solutions   \* the strings of bytes submitted

Bytes == 0..(2^ByteBits - 1)
Indices == 0..(2^BitLen - 1)
SolutionWidth == (2^K * BitLen) \div ByteBits

ASSUME RoundsAssumption == K \in Nat \ {0}
\* The asserts of ExpandArray: an index and the rest of a byte fit a word.
ASSUME WidthAssumption ==
  /\ ByteBits \in Nat \ {0} /\ BitLen \in Nat /\ WordBits \in Nat
  /\ BitLen >= ByteBits /\ WordBits >= (ByteBits - 1) + BitLen
  /\ ByteBits * SolutionWidth = 2^K * BitLen
\* Arithmetic of 1 << n, which the provers do not know.
ASSUME PowersAssumption ==
  \A n \in 0..(K + WordBits) : 2^n \in Nat \ {0} /\ 2^(n + 1) = 2 * 2^n
ASSUME HashesAssumption ==
  Hashes \subseteq [Indices -> [1..(K + 1) -> SUBSET Bits]]
ASSUME SolutionsAssumption == Solutions \subseteq Seq(Bytes)

VARIABLES
  blake,     \* argument base_state: the hash of every index
  soln,      \* argument soln
  i,         \* bytes of soln that ExpandArray has taken
  accBits,   \* the bits of accValue that belong to the next index
  accValue,
  indices,   \* the indices so far
  X,         \* the rows of this round
  Xc,        \* the rows merged so far
  result     \* "none" until the check returns "valid" or "invalid"

vars == <<blake, soln, i, accBits, accValue, indices, X, Xc, result>>
arguments == <<blake, soln>>
expansion == <<i, accBits, accValue, indices>>

Init ==
  /\ blake \in Hashes /\ soln \in Solutions
  /\ i = 0 /\ accBits = 0 /\ accValue = 0 /\ indices = <<>>
  /\ X = <<>> /\ Xc = <<>> /\ result = "none"

Return(verdict) == result' = verdict /\ UNCHANGED <<arguments, expansion, X, Xc>>

-----------------------------------------------------------------------------
\* Rows

Xor(s, t) == (s \ t) \cup (t \ s)

HasCollision(a, b) == a.hash[1] = b.hash[1]

\* memcmp of the indices
IndicesBefore(a, b) ==
  \E k \in DOMAIN a.indices :
    /\ a.indices[k] < b.indices[k]
    /\ \A j \in 1..(k - 1) : a.indices[j] = b.indices[j]

FirstDiffers(a, b) == a.indices[1] # b.indices[1]  \* mutant: only the first
DistinctIndices(a, b) ==
  \A p \in DOMAIN a.indices, q \in DOMAIN b.indices :
    a.indices[p] # b.indices[q]

IsZero(row) == \A s \in DOMAIN row.hash : row.hash[s] = {}

MergedUntrimmed(a, b) ==  \* mutant: the segment that collided stays
  [hash    |-> [s \in 1..Len(a.hash) |-> Xor(a.hash[s], b.hash[s])],
   indices |-> IF IndicesBefore(a, b) THEN a.indices \o b.indices
                                      ELSE b.indices \o a.indices]
Merged(a, b) ==
  [hash    |-> [s \in 1..(Len(a.hash) - 1) |-> Xor(a.hash[s + 1], b.hash[s + 1])],
   indices |-> IF IndicesBefore(a, b) THEN a.indices \o b.indices
                                      ELSE b.indices \o a.indices]

-----------------------------------------------------------------------------
\* GetIndicesFromMinimal and ExpandArray

ShiftedOver(byte) == (byte * 2^accBits + accValue) % 2^WordBits  \* mutant: from the low end
Shifted(byte) == (accValue * 2^ByteBits + byte) % 2^WordBits

FillsIndex == accBits + ByteBits >= BitLen

ExpandByte ==
  /\ X = <<>> /\ Len(soln) = SolutionWidth /\ i < Len(soln)
  /\ i' = i + 1
  /\ accValue' = Shifted(soln[i + 1])
  /\ \/ /\ FillsIndex
        /\ accBits' = (accBits + ByteBits) - BitLen
        /\ indices' = Append(indices, (accValue' \div 2^accBits') % 2^BitLen)
     \/ /\ ~FillsIndex
        /\ accBits' = accBits + ByteBits /\ UNCHANGED indices
  /\ UNCHANGED <<arguments, X, Xc, result>>

-----------------------------------------------------------------------------
\* The check

WrongWidth == X = <<>> /\ Len(soln) # SolutionWidth /\ Return("invalid")

MakeRows ==
  /\ X = <<>> /\ Len(soln) = SolutionWidth /\ i = Len(soln)
  /\ X' = [p \in 1..Len(indices) |->
             [hash |-> blake[indices[p]], indices |-> <<indices[p]>>]]
  /\ UNCHANGED <<arguments, expansion, Xc, result>>

Left == X[2 * Len(Xc) + 1]
Right == X[2 * Len(Xc) + 2]
PairLeft == Len(X) > 1 /\ 2 * Len(Xc) < Len(X)

OrderedWrong ==   \* mutant: the arguments of IndicesBefore swapped
  /\ HasCollision(Left, Right)
  /\ ~IndicesBefore(Left, Right)
  /\ DistinctIndices(Left, Right)
GoodPair ==
  /\ HasCollision(Left, Right)
  /\ ~IndicesBefore(Right, Left)
  /\ DistinctIndices(Left, Right)

RejectPair == PairLeft /\ ~GoodPair /\ Return("invalid")

MergePair ==
  /\ PairLeft /\ GoodPair
  /\ Xc' = Append(Xc, Merged(Left, Right))
  /\ UNCHANGED <<arguments, expansion, X, result>>

NextRound ==
  /\ Len(X) > 1 /\ 2 * Len(Xc) = Len(X)
  /\ X' = Xc /\ Xc' = <<>>
  /\ UNCHANGED <<arguments, expansion, result>>

LastRow == Len(X) = 1 /\ Return(IF IsZero(X[1]) THEN "valid" ELSE "invalid")

-----------------------------------------------------------------------------
Check == WrongWidth \/ ExpandByte \/ MakeRows \/ RejectPair \/ MergePair \/ NextRound \/ LastRow
Returned == result # "none" /\ UNCHANGED vars
Next == (result = "none" /\ Check) \/ Returned

Spec == Init /\ [][Next]_vars
=============================================================================
