------------------------------- MODULE Tiling -------------------------------
(***************************************************************************)
(* What the refinement of a domain promises, whatever order the panels are *)
(* visited in and whatever decides that one is good enough: a panel is     *)
(* either closed for good or replaced by all of its children.              *)
(* A panel is the path that leads to it, as in PolyTree.                   *)
(***************************************************************************)
EXTENDS Integers, Sequences

CONSTANTS NChild,  \* children of a panel
          RootSets \* the sets of root panels a refinement may start from

VARIABLES open,    \* panels still to be decided
          closed   \* leaves
vars == <<open, closed>>

ChildrenOf(b) == {Append(b, c) : c \in 0 .. NChild - 1}

Init == open \in RootSets /\ closed = {}

Close(b) ==
  /\ open' = open \ {b}
  /\ closed' = closed \cup {b}

Split(b) ==
  /\ open' = (open \ {b}) \cup ChildrenOf(b)
  /\ UNCHANGED closed

Next == \E b \in open : Close(b) \/ Split(b)

Spec == Init /\ [][Next]_vars
=============================================================================
