----------------------------- MODULE MCEquihash -----------------------------
(***************************************************************************)
(* Two rounds over every string of six bytes of two bits, which is every   *)
(* array of four indices of three bits, and strings of a wrong size, with  *)
(* three tables of hashes.  The word is the shortest that is allowed, as   *)
(* for the code's longest index of 25 bits in words of 32.                 *)
(***************************************************************************)
EXTENDS EquihashProperties

Segment(digits) == [s \in 1..3 |-> IF digits[s] = 1 THEN {1} ELSE {}]
Table(rows) == [n \in Indices |-> Segment(rows[n + 1])]

\* Everything collides: order and distinctness decide.
AllZero == [n \in Indices |-> [s \in 1..3 |-> {}]]
\* <<0, 1, 2, 3>> is a solution.
OneSolution == Table(<< <<0, 0, 0>>, <<0, 1, 1>>, <<1, 0, 1>>, <<1, 1, 0>>,
                        <<0, 0, 1>>, <<1, 1, 1>>, <<1, 0, 0>>, <<0, 1, 0>> >>)
\* <<0, 1, 2, 3>> collides in both rounds and leaves a last segment.
LastSegment == Table(<< <<0, 0, 0>>, <<0, 1, 0>>, <<0, 0, 0>>, <<0, 1, 1>>,
                        <<1, 0, 0>>, <<1, 1, 0>>, <<0, 1, 1>>, <<1, 0, 1>> >>)

MCHashes == {AllZero, OneSolution, LastSegment}
MCSolutions == [1..6 -> Bytes] \cup {<<0, 1, 2>>, <<0, 1, 2, 3, 0, 1, 2>>}
=============================================================================
