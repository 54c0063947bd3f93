---------------------------- MODULE MCFitDomain ----------------------------
(* Five-bit significands.  Corners lie between -31/4 and 31/4.             *)
EXTENDS FitDomain, SequencesExt

MCEmin == -14
MCCorners ==
  {Zero} \cup {<<s * m, e>> : s \in {-1, 1}, m \in 2 ^ (p - 1) .. 2 ^ p - 1, e \in {-3, -2}}

(* Every float from -31/4 to 31/4 of an exponent of at least -6.           *)
Negative == FlattenSeq([k \in 1 .. 5 |-> [m \in 1 .. 2 ^ (p - 1) |-> <<m - 2 ^ p, -1 - k>>]])
Positive == FlattenSeq([k \in 1 .. 5 |-> [m \in 1 .. 2 ^ (p - 1) |-> <<2 ^ (p - 1) + m - 1, k - 7>>]])
MCxp == Negative \o <<Zero>> \o Positive
=============================================================================
