------------------------------ MODULE Targets ------------------------------
(***************************************************************************)
(* Share target and block target: 256-bit numbers of 32-bit limbs, shifted *)
(* and compared limb by limb, and their compact form of a size and three   *)
(* bytes.  The share target is computed once from the configuration, the   *)
(* block target with every block from its bits, and every share is judged  *)
(* by both.                                                                *)
(***************************************************************************)
EXTENDS Integers

CONSTANTS
  ByteBits,   \* 8
  LimbBytes,  \* 4
  WIDTH,      \* limbs: 8
  Coeffs,     \* what shareTarget may be in the configuration
  Bits,       \* the bits of blocks, as [size, mantissa]
  Hashes      \* the hashes of shares, as numbers

LimbBits == ByteBits * LimbBytes
Size == LimbBytes * WIDTH             \* bytes of a number: 32
SignBit == 2^(3 * ByteBits - 1)       \* 0x00800000
Limit == 2^(LimbBits * WIDTH)         \* 2^256

\* A share target of 0 is a division by zero; that of 1 does not fit a uint256.
ASSUME CoeffsAssumption == Coeffs \subseteq Nat \ {0, 1}
ASSUME WidthsAssumption ==
  /\ ByteBits \in Nat \ {0} /\ WIDTH \in Nat \ {0, 1}
  /\ LimbBytes \in {2, 3, 4}
\* Arithmetic of 1 << n, which the provers do not know.
ASSUME PowersAssumption ==
  \A n \in 0..(LimbBits * (WIDTH + 1)) : 2^n \in Nat \ {0} /\ 2^(n + 1) = 2 * 2^n
ASSUME BitsAssumption == Bits \subseteq [size : 0..Size, mantissa : 0..(2 * SignBit - 1)]
ASSUME HashesAssumption == Hashes \subseteq 0..(Limit - 1)

VARIABLES
  shareTargetCoeff, shareTarget, shareTargetBits,
  bits,         \* of the last block, NoBlock before the first
  blockTarget,
  hash,         \* the number that shareHeaderHash of the share judged last is
  verdict       \* "none", "too small", "share", "block"

vars == <<shareTargetCoeff, shareTarget, shareTargetBits, bits, blockTarget,
          hash, verdict>>
config == <<shareTargetCoeff, shareTarget, shareTargetBits>>

NoBlock == [size |-> 0, mantissa |-> 0]

-----------------------------------------------------------------------------
\* uint256

Limbs == 0..(WIDTH - 1)
Limb(n) == n % 2^LimbBits
At(pn, t) == IF t \in Limbs THEN pn[t] ELSE 0

\* mpz_to_uint256, of a number below Limit
ToUint(n) == [t \in Limbs |-> Limb(n \div 2^(LimbBits * t))]

\* operator<<= and operator>>=: whole limbs, and the bits from the neighbour
LeftOf(pn, shift, t) ==
  LET k == shift \div LimbBits
      s == shift % LimbBits
  IN Limb(At(pn, t - k) * 2^s) + At(pn, t - k - 1) \div 2^(LimbBits - s)
ShiftLeft(pn, shift) == [t \in Limbs |-> LeftOf(pn, shift, t)]
ShiftRight(pn, shift) ==
  [t \in Limbs |->
     LET k == shift \div LimbBits
         s == shift % LimbBits
     IN At(pn, t + k) \div 2^s + Limb(At(pn, t + k + 1) * 2^(LimbBits - s))]

\* operator<, operator> and operator<=
LessFromLow(a, b) ==   \* mutant: the lowest limb decides first
  \E t \in Limbs : a[t] < b[t] /\ \A u \in 0..(t - 1) : a[u] = b[u]
Less(a, b) ==
  \E t \in Limbs : a[t] < b[t] /\ \A u \in (t + 1)..(WIDTH - 1) : a[u] = b[u]

\* GetCompact: the size is that of the type, whatever the number, and the
\* three bytes move down one when the first has the sign bit.
NoSignBit(pn) ==   \* mutant: the sign bit is left in the mantissa
  LET bn == ShiftRight(pn, ByteBits * (Size - 3))
  IN [size |-> Size, mantissa |-> bn[0] + bn[1] * 2^LimbBits]
SizeNotRaised(pn) ==   \* mutant: the mantissa is moved, the size is not
  LET bn == ShiftRight(pn, ByteBits * (Size - 3))
      nCompact == bn[0] + bn[1] * 2^LimbBits
  IN [size |-> Size, mantissa |-> IF nCompact >= SignBit THEN nCompact \div 2^ByteBits
                                                       ELSE nCompact]
GetCompact(pn) ==
  LET bn == ShiftRight(pn, ByteBits * (Size - 3))
      nCompact == bn[0] + bn[1] * 2^LimbBits
  IN IF nCompact >= SignBit
     THEN [size |-> Size + 1, mantissa |-> nCompact \div 2^ByteBits]
     ELSE [size |-> Size, mantissa |-> nCompact]

\* The number that bits stand for, as mpz_class computes it.
FromBits(nBits) ==
  LET target == nBits.mantissa % SignBit
  IN IF nBits.size <= 3 THEN target \div 2^(ByteBits * (3 - nBits.size))
                        ELSE target * 2^(ByteBits * (nBits.size - 3))

\* The same in uint256 arithmetic.
SizeFromOne(nBits) ==   \* mutant: 8*(2-exponent), 8*(exponent-2)
  IF nBits.size <= 2
  THEN ShiftRight(ToUint(nBits.mantissa % SignBit), ByteBits * (2 - nBits.size))
  ELSE ShiftLeft(ToUint(nBits.mantissa % SignBit), ByteBits * (nBits.size - 2))
hashTargetFromBits(nBits) ==
  IF nBits.size <= 3
  THEN ShiftRight(ToUint(nBits.mantissa % SignBit), ByteBits * (3 - nBits.size))
  ELSE ShiftLeft(ToUint(nBits.mantissa % SignBit), ByteBits * (nBits.size - 3))

-----------------------------------------------------------------------------
\* main
Init ==
  /\ shareTargetCoeff \in Coeffs
  /\ shareTarget = ToUint(Limit \div shareTargetCoeff)
  /\ shareTargetBits = GetCompact(shareTarget)
  /\ bits = NoBlock /\ blockTarget = ToUint(0)
  /\ hash = 0 /\ verdict = "none"

\* A block, from a signal or after a reconnect.
NewBlock(nBits) ==
  /\ FromBits(nBits) \in 1..(Limit - 1)
  /\ bits' = nBits /\ blockTarget' = ToUint(FromBits(nBits))
  /\ hash' = 0 /\ verdict' = "none"
  /\ UNCHANGED config

\* onShare, stratumCheckShare: "Too small share"; found block.  The native
\* handler leaves the question whether it is a block to the miner.
Judged(pn) ==
  IF Less(shareTarget, pn) THEN "too small"
  ELSE IF ~Less(blockTarget, pn) THEN "block" ELSE "share"
Judge(n) ==
  /\ bits # NoBlock
  /\ hash' = n /\ verdict' = Judged(ToUint(n))
  /\ UNCHANGED <<config, bits, blockTarget>>

Next ==
  \/ \E nBits \in Bits : NewBlock(nBits)
  \/ \E n \in Hashes : Judge(n)

Spec == Init /\ [][Next]_vars
=============================================================================
