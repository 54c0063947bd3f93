----------------------------- MODULE SortedWalk -----------------------------
(***************************************************************************)
(* The walk over ascending points of a one-dimensional fit:                *)
(* for_each_sorted_run_1d of detail/function.hpp, one action per turn of   *)
(* each of its loops.  It looks a few points ahead, then gallops and       *)
(* bisects to the end of a run of points that share a leaf, and hands each *)
(* run to a callback.                                                      *)
(*                                                                         *)
(* Coordinates are integers; a leaf owns an interval of them.  NaN is a    *)
(* value no comparison accepts.                                            *)
(***************************************************************************)
EXTENDS Integers, Sequences

CONSTANTS
  Lo, Hi,            \* closed bounds of the fit
  LeafOf,            \* leaf id of every coordinate in the domain
  NLeaves,           \* num_leaves(), also the id of out-of-domain points
  NaN,
  Inputs,            \* the point sequences a caller may pass
  small_run_cutoff   \* 2

Coord == Int \cup {NaN}
lt(a, b) == a # NaN /\ b # NaN /\ a < b
le(a, b) == a # NaN /\ b # NaN /\ a <= b

(* xp[i] <= xp[i + 1], save that a NaN may stand anywhere.                 *)
Ascending(s) ==
  \A a, b \in 1 .. Len(s) : a < b /\ s[a] # NaN /\ s[b] # NaN => s[a] <= s[b]

ASSUME WalkConstants ==
  /\ Lo \in Int /\ Hi \in Int /\ Lo <= Hi
  /\ NLeaves \in Nat \ {0}
  /\ LeafOf \in [Lo .. Hi -> 0 .. NLeaves - 1]
  /\ \A a, b, c \in Lo .. Hi :
       a < b /\ b < c /\ LeafOf[a] = LeafOf[c] => LeafOf[b] = LeafOf[a]
  /\ NaN \notin Int
  /\ Inputs \subseteq Seq(Coord) /\ \A s \in Inputs : Ascending(s)
  /\ small_run_cutoff \in Nat \ {0}

VARIABLES
  xs,         \* the points; point p of the code is xs[p + 1]
  i, j, k,    \* start of the run; the run holds [i, j); it ends in [j, k]
  step,       \* stride of the gallop
  id,         \* leaf of the run
  first_nan,
  scanned,
  calls,      \* ghost: the runs handed to the callback so far
  pc
vars == << xs, i, j, k, step, id, first_nan, scanned, calls, pc >>

n == Len(xs)
ood_id == NLeaves
x(p) == xs[p + 1]

(* Function::sorted_leaf_id_at, which also serves the table of a subtree.  *)
LeafId(c) == IF le(Lo, c) /\ le(c, Hi) THEN LeafOf[c] ELSE ood_id

Call(leaf, begin, count) == [id |-> leaf, begin |-> begin, count |-> count]

Init ==
  /\ xs \in Inputs
  /\ i = 0 /\ j = 0 /\ k = 0
  /\ step = 0
  /\ id = ood_id
  /\ first_nan = n
  /\ scanned = FALSE
  /\ calls = <<>>
  /\ pc = "prefix"

(* The points below the domain, which come first.                          *)
SkipPrefix ==
  /\ pc = "prefix" /\ i < n /\ lt(x(i), Lo)
  /\ i' = i + 1
  /\ UNCHANGED << xs, j, k, step, id, first_nan, scanned, calls, pc >>

EndPrefix ==
  /\ pc = "prefix" /\ ~(i < n /\ lt(x(i), Lo))
  /\ calls' = IF i > 0 THEN Append(calls, Call(ood_id, 0, i)) ELSE calls
  /\ pc' = "top"
  /\ UNCHANGED << xs, i, j, k, step, id, first_nan, scanned >>

(* The first point above the domain starts a run to the end.               *)
SuffixPoint == Call(ood_id, i, 1)
SuffixRun == Call(ood_id, i, n - i)

Suffix ==
  /\ pc = "top" /\ i < n /\ lt(Hi, x(i))
  /\ calls' = Append(calls, SuffixRun)
  /\ pc' = "done"
  /\ UNCHANGED << xs, i, j, k, step, id, first_nan, scanned >>

OutOfDomainPoint ==
  /\ pc = "top" /\ i < n /\ ~lt(Hi, x(i)) /\ LeafId(x(i)) = ood_id
  /\ calls' = Append(calls, Call(ood_id, i, 1))
  /\ i' = i + 1
  /\ UNCHANGED << xs, j, k, step, id, first_nan, scanned, pc >>

StartRun ==
  /\ pc = "top" /\ i < n /\ ~lt(Hi, x(i)) /\ LeafId(x(i)) # ood_id
  /\ id' = LeafId(x(i))
  /\ j' = i + 1
  /\ pc' = "ahead"
  /\ UNCHANGED << xs, i, k, step, first_nan, scanned, calls >>

Same(p) == LeafId(x(p)) = id

(* A few points one by one.                                                *)
LookAhead ==
  /\ pc = "ahead" /\ j < n /\ j - i <= small_run_cutoff /\ Same(j)
  /\ j' = j + 1
  /\ UNCHANGED << xs, i, k, step, id, first_nan, scanned, calls, pc >>

EndsHere == ~(j < n /\ j - i <= small_run_cutoff /\ Same(j))

EndRun ==
  /\ calls' = Append(calls, Call(id, i, j - i))
  /\ i' = j
  /\ pc' = "top"
  /\ UNCHANGED << xs, j, k, step, id, first_nan, scanned >>

ShortRun ==
  /\ pc = "ahead" /\ EndsHere /\ j - i <= small_run_cutoff
  /\ EndRun

(* The first NaN from i on, before the points above the domain.            *)
ScanNothing == n
ScanNaN ==
  LET stop == {p \in i .. n - 1 : x(p) = NaN \/ lt(Hi, x(p))}
      first == CHOOSE p \in stop : \A r \in stop : p <= r
  IN  IF stop # {} /\ x(first) = NaN THEN first ELSE n

(* The run is long: look for a NaN, once per call, and choose how to go on. *)
LongRun ==
  /\ pc = "ahead" /\ EndsHere /\ j - i > small_run_cutoff
  /\ first_nan' = IF scanned THEN first_nan ELSE ScanNaN
  /\ scanned' = TRUE
  /\ k' = j
  /\ step' = small_run_cutoff
  /\ pc' = IF first_nan' = n THEN "gallop" ELSE "linear"
  /\ UNCHANGED << xs, i, j, id, calls >>

Gallop ==
  /\ pc = "gallop" /\ k < n /\ Same(k)
  /\ j' = k + 1
  /\ k' = k + step
  /\ step' = 2 * step
  /\ UNCHANGED << xs, i, id, first_nan, scanned, calls, pc >>

AtMostN(p) == IF p < n THEN p ELSE n

EndGallop ==
  /\ pc = "gallop" /\ ~(k < n /\ Same(k))
  /\ k' = AtMostN(k)
  /\ pc' = "bisect"
  /\ UNCHANGED << xs, i, j, step, id, first_nan, scanned, calls >>

Mid == j + (k - j) \div 2
ToMid == Mid
PastMid == Mid + 1

Bisect ==
  /\ pc = "bisect" /\ j < k
  /\ IF Same(Mid) THEN j' = PastMid /\ k' = k ELSE k' = Mid /\ j' = j
  /\ UNCHANGED << xs, i, step, id, first_nan, scanned, calls, pc >>

EndBisect ==
  /\ pc = "bisect" /\ ~(j < k)
  /\ EndRun

(* A NaN lies ahead: point by point to the end of the run.                 *)
Linear ==
  /\ pc = "linear" /\ j < n /\ Same(j)
  /\ j' = j + 1
  /\ UNCHANGED << xs, i, k, step, id, first_nan, scanned, calls, pc >>

EndLinear ==
  /\ pc = "linear" /\ ~(j < n /\ Same(j))
  /\ EndRun

Finish ==
  /\ pc = "top" /\ ~(i < n)
  /\ pc' = "done"
  /\ UNCHANGED << xs, i, j, k, step, id, first_nan, scanned, calls >>

Next ==
  \/ SkipPrefix \/ EndPrefix \/ Suffix \/ OutOfDomainPoint
  \/ StartRun \/ LookAhead \/ ShortRun \/ LongRun
  \/ Gallop \/ EndGallop \/ Bisect \/ EndBisect
  \/ Linear \/ EndLinear \/ Finish

(* The walk is one thread's loop; nothing else stops it.                   *)
Spec == Init /\ [][Next]_vars /\ WF_vars(Next)

-----------------------------------------------------------------------------
(* Correctness.                                                            *)

(* The cursors stay inside the batch: no lookup and no run reaches past    *)
(* the last point, though the gallop's k may.                              *)
TypeOK ==
  /\ i \in 0 .. n /\ j \in 0 .. n
  /\ k \in Nat /\ step \in Nat
  /\ pc = "bisect" => k <= n
  /\ id \in 0 .. NLeaves
  /\ first_nan \in 0 .. n
  /\ scanned \in BOOLEAN
  /\ \A c \in 1 .. Len(calls) : calls[c] \in [id : 0 .. NLeaves, begin : 0 .. n, count : 1 .. n]
  /\ pc \in {"prefix", "top", "ahead", "gallop", "bisect", "linear", "done"}

End(call) == call.begin + call.count

(* The callback sees every point once, in order, and at the end all.       *)
RunsPartition ==
  /\ \A c \in 1 .. Len(calls) :
       calls[c].begin = IF c = 1 THEN 0 ELSE End(calls[c - 1])
  /\ pc = "done" /\ n > 0 => calls # <<>> /\ End(calls[Len(calls)]) = n

LeafOfPoint(c) ==
  IF c = NaN THEN ood_id ELSE IF c \in Lo .. Hi THEN LeafOf[c] ELSE ood_id

(* Every point of a run has the leaf of the run: neither a gallop over a   *)
(* NaN nor the aggregated runs below and above the domain swallow a point  *)
(* of another leaf, or miss one that is out of the domain.                 *)
RunsPure ==
  \A c \in 1 .. Len(calls) : \A p \in calls[c].begin .. End(calls[c]) - 1 :
    LeafOfPoint(xs[p + 1]) = calls[c].id

(* The walk ends on every input.                                           *)
Ends == <>(pc = "done")
=============================================================================
