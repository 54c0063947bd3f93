---------------------------- MODULE MCLeafLookup ----------------------------
(* One and two axes, one and several bins, every tree of depth at most 3   *)
(* on a line and of depth at most 2 in the plane, with and without table;  *)
(* every coordinate of the domain and some outside.                        *)
EXTENDS LeafLookup

Closed(S) == \A p \in S : p # <<>> => SubSeq(p, 1, Len(p) - 1) \in S
Trees(children, depth) ==
  {S \in SUBSET UNION {[1 .. k -> 0 .. children - 1] : k \in 0 .. depth - 1} : Closed(S)}

Fit(bins, span, splits, limit) ==
  [n_subtrees |-> bins, span |-> span, splits |-> splits, table_bits |-> limit]

OneBin(tree) == [b \in {0} |-> tree]
(* One subtree unlike the others.                                          *)
OddOneOut(nbins, trees) ==
  {[b \in 0 .. nbins - 1 |-> IF b = odd THEN s ELSE t] :
     odd \in 0 .. nbins - 1, s \in trees, t \in trees}

Line == {Fit(<<1>>, 16, OneBin(t), limit) : t \in Trees(2, 3), limit \in {2, 3}}
TwoBins == {Fit(<<2>>, 8, s, 2) : s \in OddOneOut(2, Trees(2, 2))}
Plane == {Fit(<<1, 1>>, 8, OneBin(t), limit) : t \in Trees(4, 2), limit \in {2, 4}}
SixBins == {Fit(<<2, 3>>, 4, s, 2) : s \in OddOneOut(6, Trees(4, 1))}
MCFits == Line \cup TwoBins \cup Plane \cup SixBins

Infinity == 1000
Coords(top) == << 0 - Infinity, 0 - 1 >> \o [c \in 1 .. top + 1 |-> c - 1]
                 \o << top + 1, Infinity, NaN >>

Rotated(s, r) == SubSeq(s, r + 1, Len(s)) \o SubSeq(s, 1, r)

MCBatchesOf(f) ==
  LET top(d) == f.n_subtrees[d] * f.span
  IN  IF Len(f.n_subtrees) = 1
      THEN {Rotated([k \in DOMAIN Coords(top(1)) |-> << Coords(top(1))[k] >>], r) :
              r \in 0 .. lanes - 1} \cup {<<>>}
      ELSE {[k \in DOMAIN Coords(top(1)) |-> << Coords(top(1))[k], y >>] :
              y \in {Coords(top(2))[k] : k \in DOMAIN Coords(top(2))}}
=============================================================================
