------------------------------- MODULE Powers -------------------------------
(* Powers of two, and the length of a number in binary.                    *)
EXTENDS Integers

(* size_t{1} << k.                                                         *)
Pow2(k) == LET doubled[j \in 0 .. k] == IF j = 0 THEN 1 ELSE 2 * doubled[j - 1] IN doubled[k]

(* Binary digits of a number that is not negative.                         *)
BitLength(k) ==
  LET length[j \in 0 .. k] == IF j = 0 THEN 0 ELSE 1 + length[j \div 2] IN length[k]
=============================================================================
