------------------------- MODULE TargetsProperties -------------------------
(***************************************************************************)
(* What the targets promise.                                               *)
(***************************************************************************)
EXTENDS Targets

\* Type invariant: limbs stay limbs, and the compact form is one: its sign bit
\* is clear (the assert uint256.h:609) and its size one byte.
TargetsTypeOK ==
  /\ shareTargetCoeff \in Coeffs /\ bits \in Bits \cup {NoBlock}
  /\ {shareTarget, blockTarget} \subseteq [Limbs -> 0..(2^LimbBits - 1)]
  /\ hash \in 0..(Limit - 1)
  /\ shareTargetBits \in [size : {Size, Size + 1}, mantissa : 0..(SignBit - 1)]
  /\ verdict \in {"none", "too small", "share", "block"}

\* Miners of the native protocol are given the compact share target, the pool
\* judges by the long one: the compact form is never easier, so that no share
\* that meets it is too small, and by less than one unit of its last byte
\* harder.  main.cpp:627.
AdvertisedTargetIsFair ==
  LET unit == 2^(ByteBits * (shareTargetBits.size - 3))
  IN /\ FromBits(shareTargetBits) <= Limit \div shareTargetCoeff
     /\ Limit \div shareTargetCoeff < FromBits(shareTargetBits) + unit

\* The comparisons of limbs judge a share by the number its hash is, against the
\* share target of the configuration and the target of the last block.
\* zcashpool.cpp:192, 368, 379.
JudgedByNumber ==
  verdict # "none" =>
    CASE hash > Limit \div shareTargetCoeff                           -> verdict = "too small"
      [] hash <= Limit \div shareTargetCoeff /\ hash > FromBits(bits)  -> verdict = "share"
      [] OTHER                                                        -> verdict = "block"

\* The two ways from bits to a target agree: the shifts of uint256, whatever
\* limb boundary they cross, and those of mpz_class.  main.cpp:68, 449.
ConversionsAgree ==
  bits # NoBlock => hashTargetFromBits(bits) = blockTarget
=============================================================================
