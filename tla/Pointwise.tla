------------------------------ MODULE Pointwise ------------------------------
(***************************************************************************)
(* What evaluating a batch promises: every point gets the answer of that   *)
(* point alone, once, whatever the order in which they are answered.       *)
(***************************************************************************)
EXTENDS Naturals, Sequences

CONSTANTS Batches,  \* the sequences of points a caller may pass
          Answer,   \* answer of every point
          None      \* not answered yet

VARIABLES xp,   \* the batch
          out   \* answer of every position of the batch

Init ==
  /\ xp \in Batches
  /\ out = [p \in 1 .. Len(xp) |-> None]

(* Some of the positions without an answer get theirs.                     *)
AnswerSome ==
  /\ UNCHANGED xp
  /\ DOMAIN out' = DOMAIN out
  /\ \A p \in DOMAIN out :
       out'[p] = out[p] \/ (out[p] = None /\ out'[p] = Answer[xp[p]])

(* A caller that has all its answers may pass another batch.               *)
NewBatch ==
  /\ \A p \in DOMAIN out : out[p] # None
  /\ xp' \in Batches
  /\ out' = [p \in 1 .. Len(xp') |-> None]

Next == AnswerSome \/ NewBatch

Spec == Init /\ [][Next]_<<xp, out>>
=============================================================================
