----------------------------- MODULE MCTargets -----------------------------
(***************************************************************************)
(* Numbers of 4 limbs of 4 bytes of 1 bit.  As in the code, where they are *)
(* 8 limbs of 4 bytes of 8 bits, a limb has one byte more than a mantissa, *)
(* so that the shift of GetCompact ends in the top limb.  The shifts of    *)
(* hashTargetFromBits cross every limb boundary.                           *)
(***************************************************************************)
EXTENDS TargetsProperties

\* Every size where the number fits, with every mantissa, the sign bit set or not.
MCBits == [size : 0..Size, mantissa : 0..(2 * SignBit - 1)]
\* Powers of two, their neighbours, and so large that no mantissa is left.
MCCoeffs == {2, 3, 4, 5, 7, 15, 16, 17, 31, 33, 64, 1023, 1024, 65535}
\* The hashes at and beside each target, and the extremes.
MCHashes ==
  LET targets == {Limit \div coeff : coeff \in MCCoeffs}
                   \cup {FromBits(nBits) : nBits \in MCBits} \cup {0, Limit - 1}
  IN UNION {((n - 1)..(n + 1)) \cap (0..(Limit - 1)) : n \in targets}
=============================================================================
