--------------------------- MODULE Bindings_proofs ---------------------------
(***************************************************************************)
(* What the C interface and the language bindings above it guarantee,      *)
(* proved.  First the interface, whatever the number of threads, of        *)
(* handles and of nested fits, the instruction sets of the machine and the *)
(* shapes that are asked for.  Then the bindings: they use the interface   *)
(* only as CApi describes it, every handle has one owner, and the          *)
(* exception of a callback is the one its caller sees.                     *)
(***************************************************************************)
EXTENDS Bindings, FiniteSetTheorems, SequenceTheorems, TLAPS

-----------------------------------------------------------------------------
(* Kernel selection                                                        *)

LEMMA LadderType ==
    /\ Len(Ladder) \in Nat \ {0} /\ DOMAIN Ladder = 1 .. Len(Ladder)
    /\ Ladder \in [1 .. Len(Ladder) -> STRING]
BY LadderAssumption, LenProperties, EmptySeq DEF Rungs

\* Some rung runs, so there is a widest one.
LEMMA WidestExists ==
    \E k \in DOMAIN Ladder : Ladder[k] \in Runs /\ \A j \in 1 .. k - 1 : Ladder[j] \notin Runs
<1> DEFINE Prefixes == {1 .. k : k \in {m \in DOMAIN Ladder : Ladder[m] \in Runs}}
<1>1. Len(Ladder) \in DOMAIN Ladder /\ Ladder[Len(Ladder)] \in Runs
    <2>1. Len(Ladder) \in 1 .. Len(Ladder)
        BY LadderType
    <2>2. QED  BY <2>1, LadderType, LadderAssumption, Zenon
<1>2. Prefixes # {}
    BY <1>1
<1>3. Prefixes \subseteq FiniteSubsetsOf(Nat)
    <2>1. SUFFICES ASSUME NEW k \in DOMAIN Ladder PROVE 1 .. k \in FiniteSubsetsOf(Nat)
        OBVIOUS
    <2>2. k \in Int /\ 1 .. k \subseteq Nat
        BY <2>1, LadderType
    <2>3. IsFiniteSet(1 .. k)
        BY <2>2, FS_Interval
    <2>4. QED  BY <2>2, <2>3 DEF FiniteSubsetsOf
<1>4. PICK S \in Prefixes : \A T \in Prefixes : ~ (<<T, S>> \in StrictSubsetOrdering(Nat))
    <2> HIDE DEF Prefixes
    <2>1. IsWellFoundedOn(StrictSubsetOrdering(Nat), FiniteSubsetsOf(Nat))
        BY FS_StrictSubsetOrderingWellFounded
    <2>2. QED  BY <1>2, <1>3, <2>1, WFMin
<1>5. PICK k \in DOMAIN Ladder : S = 1 .. k /\ Ladder[k] \in Runs
    OBVIOUS
<1>6. ASSUME NEW j \in 1 .. k - 1, Ladder[j] \in Runs PROVE FALSE
    <2>1. j \in DOMAIN Ladder /\ j \in Nat /\ k \in Nat /\ j < k
        BY <1>5, <1>6, LadderType
    <2>2. 1 .. j \in Prefixes
        BY <1>6, <2>1
    <2>3. 1 .. j \subseteq 1 .. k /\ k \in 1 .. k /\ k \notin 1 .. j
        BY <2>1, <1>5, LadderType
    <2>4. 1 .. j \in SUBSET Nat /\ 1 .. k \in SUBSET Nat
        BY <2>1
    <2>5. <<1 .. j, 1 .. k>> \in StrictSubsetOrdering(Nat)
        BY <2>3, <2>4 DEF StrictSubsetOrdering
    <2>6. QED  BY <1>4, <1>5, <2>2, <2>5
<1>7. QED  BY <1>5, <1>6

LEMMA SelectionSuits == SelectKernels \in Rungs /\ Suits(SelectKernels)
<1>1. Widest \in DOMAIN Ladder /\ Ladder[Widest] \in Runs /\ \A j \in 1 .. Widest - 1 : Ladder[j] \notin Runs
    BY WidestExists DEF Widest
<1>2. CASE ForceSelect # {}
    <2>1. SelectKernels = forced /\ forced \in Runs /\ forced \in Rungs
        BY <1>2 DEF SelectKernels, ForceSelect, Rungs
    <2>2. QED  BY <2>1 DEF Suits
<1>3. CASE ForceSelect = {}
    <2>1. SelectKernels = Ladder[Widest]
        BY <1>3 DEF SelectKernels
    <2>2. forced \notin Runs
        BY <1>3, LadderAssumption DEF ForceSelect, Rungs
    <2>3. ASSUME NEW j \in DOMAIN Ladder, NEW k \in DOMAIN Ladder, Ladder[k] = Ladder[Widest], j < k
          PROVE Ladder[j] \notin Runs
        <3>1. k = Widest
            BY <1>1, <2>3, LadderAssumption
        <3>2. j \in 1 .. Widest - 1
            BY <3>1, <2>3, LadderType
        <3>3. QED  BY <3>2, <1>1
    <2>4. QED  BY <1>1, <2>1, <2>2, <2>3 DEF Suits, Rungs
<1>4. QED  BY <1>2, <1>3

-----------------------------------------------------------------------------
(* The inductive invariant, in the three parts the actions disturb          *)

Fits == [dt : DTypes, in : Dims, out : Dims]

\* What a thread reads.
TextInv ==
    /\ err \in [Threads -> Reasons \cup {""}]
    /\ last \in [Threads -> [res : Results, why : Reasons \cup {""}]]
    /\ Reported
    /\ TypedAnswers

\* Where a thread is.
StackInv == stack \in [Threads -> Seq(Fits)]

\* A live handle has an evaluator of its own type and shape, no two handles
\* share one, and only the lost ones have no handle.
Owns(h) == /\ handles[h].impl \in Live(evals) \ lost
           /\ evals[handles[h].impl].dt = handles[h].dt
           /\ evals[handles[h].impl].in = handles[h].in
           /\ evals[handles[h].impl].out = handles[h].out
Ownership ==
    /\ \A h \in Live(handles) : Owns(h)
    /\ \A g, h \in Live(handles) : handles[g].impl = handles[h].impl => g = h
    /\ \A i \in Live(evals) \ lost : \E h \in Live(handles) : handles[h].impl = i
    /\ lost \subseteq Live(evals)

TableInv ==
    /\ evals \in [Ids -> Evaluators \cup {NULL}]
    /\ handles \in [Ids -> Tagged \cup {NULL}]
    /\ lost \subseteq Ids /\ forced \in Forcible
    /\ Ownership
    /\ RungRuns

Inv == TextInv /\ StackInv /\ TableInv

-----------------------------------------------------------------------------
(* Lemmas on the parts                                                     *)

LEMMA TextKept == ASSUME TextInv, UNCHANGED <<err, last>> PROVE TextInv'
BY DEF TextInv, Reported, TypedAnswers

LEMMA StackKept == ASSUME StackInv, UNCHANGED stack PROVE StackInv'
BY DEF StackInv

LEMMA TableKept == ASSUME TableInv, UNCHANGED <<evals, handles, lost, forced>> PROVE TableInv'
<1>1. Ownership'
    BY DEF TableInv, Ownership, Owns, Live
<1>2. RungRuns'
    BY DEF TableInv, RungRuns, Suits, Live
<1>3. QED  BY <1>1, <1>2 DEF TableInv

\* One thread writes its text and its outcome together.
LEMMA TextWritten ==
    ASSUME TextInv, NEW t \in Threads, NEW text \in Reasons \cup {""},
           NEW res \in Results, NEW why \in Reasons \cup {""},
           err' = Buffer(t, text), last' = [last EXCEPT ![t] = Outcome(res, why)],
           res = "failed" => text = why, res = "answered" => text = "", res # "misread"
    PROVE  TextInv'
<1>1. err' \in [Threads -> Reasons \cup {""}] /\ err'[t] = text
    BY DEF TextInv, Buffer
<1>2. Outcome(res, why) \in [res : Results, why : Reasons \cup {""}]
    BY DEF Outcome
<1>3. last' \in [Threads -> [res : Results, why : Reasons \cup {""}]]
    BY <1>2 DEF TextInv
<1>4. ASSUME NEW u \in Threads
      PROVE  /\ last'[u].res = "failed" => err'[u] = last'[u].why
             /\ last'[u].res = "answered" => err'[u] = ""
             /\ last'[u].res # "misread"
    <2>1. CASE u = t
        <3>1. last'[u].res = res /\ last'[u].why = why
            BY <2>1 DEF TextInv, Outcome
        <3>2. err'[u] = text
            BY <1>1, <2>1
        <3>3. QED  BY <3>1, <3>2
    <2>2. CASE u # t
        <3>1. last'[u] = last[u] /\ err'[u] = err[u]
            BY <2>2 DEF TextInv, Buffer
        <3>2. QED  BY <3>1 DEF TextInv, Reported, TypedAnswers
    <2>3. QED  BY <2>1, <2>2
<1>5. QED  BY <1>1, <1>3, <1>4 DEF TextInv, Reported, TypedAnswers

LEMMA SetLastErrorKeepsText ==
    ASSUME TextInv, NEW t \in Threads, NEW before \in Reasons \cup {""}, NEW why \in Reasons,
           SetLastError(t, before, why)
    PROVE  TextInv'
<1>1. PICK stored \in BOOLEAN :
        /\ err' = Buffer(t, IF stored THEN why ELSE before)
        /\ last' = [last EXCEPT ![t] = IF stored THEN Outcome("failed", why) ELSE Outcome("unstored", "")]
    BY DEF SetLastError
<1>2. CASE stored
    BY <1>1, <1>2, TextWritten DEF Results
<1>3. CASE ~ stored
    BY <1>1, <1>3, TextWritten DEF Results
<1>4. QED  BY <1>2, <1>3

LEMMA ThrewKeepsText ==
    ASSUME TextInv, NEW t \in Threads, NEW text \in Reasons \cup {""}, Threw(t, text)
    PROVE  TextInv'
BY TextWritten DEF Threw, Results

LEMMA TextRange == ASSUME TextInv, NEW t \in Threads PROVE err[t] \in Reasons \cup {""}
BY DEF TextInv

LEMMA ReasonsAre == "refused" \in Reasons /\ "fit" \in Reasons /\ "alloc" \in Reasons
BY DEF Reasons

\* Inside a fit the top of the stack is a fit, and popping it leaves fits.
LEMMA StackPopped ==
    ASSUME StackInv, NEW t \in Threads, InFit(t)
    PROVE  /\ Top(stack[t]) \in Fits
           /\ stack' = [stack EXCEPT ![t] = Pop(@)] => StackInv'
<1>1. stack[t] \in Seq(Fits) /\ Len(stack[t]) \in Nat \ {0}
    BY EmptySeq, LenProperties DEF StackInv, InFit
<1>2. \A k \in 1 .. Len(stack[t]) : stack[t][k] \in Fits
    BY <1>1, LenProperties
<1>3. Pop(stack[t]) \in Seq(Fits)
    BY <1>1, <1>2, SubSeqProperties DEF Pop
<1>4. QED  BY <1>1, <1>2, <1>3 DEF StackInv, Top

-----------------------------------------------------------------------------
(* The steps                                                               *)

LEMMA InitInv == CApiInit => Inv
<1> SUFFICES ASSUME CApiInit PROVE Inv
    OBVIOUS
<1>1. TextInv
    BY DEF CApiInit, TextInv, Reported, TypedAnswers, Outcome, Results
<1>2. StackInv
    BY EmptySeq DEF CApiInit, StackInv
<1>3. Live(evals) = {} /\ Live(handles) = {}
    BY DEF CApiInit, Live
<1>4. TableInv
    BY <1>3 DEF CApiInit, TableInv, Ownership, RungRuns
<1>5. QED  BY <1>1, <1>2, <1>4 DEF Inv

LEMMA FitRefusedInv ==
    ASSUME Inv, NEW t \in Threads, NEW fits, FitRefused(t, fits) PROVE Inv'
BY SetLastErrorKeepsText, StackKept, TableKept, ReasonsAre DEF Inv, FitRefused

LEMMA FitStartInv ==
    ASSUME Inv, NEW t \in Threads, NEW dt \in DTypes, NEW shape, FitStart(t, dt, shape) PROVE Inv'
<1>1. TextInv'
    BY TextWritten DEF Inv, FitStart, Results
<1>2. StackInv'
    <2>1. [dt |-> dt, in |-> shape[1], out |-> shape[2]] \in Fits
        BY DEF FitStart, Supported, Fits
    <2>2. stack[t] \in Seq(Fits)
        BY DEF Inv, StackInv
    <2>3. Append(stack[t], [dt |-> dt, in |-> shape[1], out |-> shape[2]]) \in Seq(Fits)
        BY <2>1, <2>2, AppendProperties
    <2>4. QED  BY <2>3 DEF Inv, StackInv, FitStart
<1>3. TableInv'
    BY TableKept DEF Inv, FitStart
<1>4. QED  BY <1>1, <1>2, <1>3 DEF Inv

LEMMA FitThrowsInv == ASSUME Inv, NEW t \in Threads, FitThrows(t) PROVE Inv'
<1>1. TextInv'
    BY SetLastErrorKeepsText, TextRange, ReasonsAre DEF Inv, FitThrows
<1>2. StackInv'
    BY StackPopped DEF Inv, FitThrows
<1>3. TableInv'
    BY TableKept DEF Inv, FitThrows
<1>4. QED  BY <1>1, <1>2, <1>3 DEF Inv

\* What a finished fit leaves behind is an evaluator the machine can run.
LEMMA BuiltIsEvaluator ==
    ASSUME Inv, NEW t \in Threads, InFit(t)
    PROVE  Built(t) \in Evaluators /\ Built(t) # NULL /\ Suits(Built(t).rung)
<1>1. Top(stack[t]) \in Fits
    BY StackPopped DEF Inv
<1>2. Built(t) \in Evaluators /\ Built(t).rung = SelectKernels
    BY <1>1, SelectionSuits DEF Built, Fits, Evaluators
<1>3. QED  BY <1>2, SelectionSuits, NullAssumption

LEMMA FitBuildsInv ==
    ASSUME Inv, NEW t \in Threads, NEW i \in Ids, NEW h \in Ids, FitBuilds(t, i, h) PROVE Inv'
<1> DEFINE e == Built(t)
           hd == [impl |-> i, dt |-> Tag(Built(t).dt), in |-> Built(t).in, out |-> Built(t).out]
<1>1. TextInv'
    <2>1. err' = Buffer(t, err[t])
        BY DEF Inv, TextInv, FitBuilds, Buffer
    <2>2. last' = [last EXCEPT ![t] = Outcome("fitted", "")]
        BY DEF FitBuilds
    <2>3. QED  BY <2>1, <2>2, TextRange, TextWritten DEF Inv, Results
<1>2. StackInv'
    BY StackPopped DEF Inv, FitBuilds
<1>3. e \in Evaluators /\ e # NULL /\ Suits(e.rung)
    BY BuiltIsEvaluator DEF FitBuilds
<1>4. hd \in Tagged /\ hd # NULL /\ hd.impl = i /\ hd.dt = e.dt /\ hd.in = e.in /\ hd.out = e.out
    BY <1>3, NullAssumption DEF Tagged, Evaluators, Tag
<1>5. /\ evals' = [evals EXCEPT ![i] = e] /\ handles' = [handles EXCEPT ![h] = hd]
      /\ lost' = lost /\ forced' = forced
    BY DEF FitBuilds
<1> HIDE DEF e, hd
<1>6. /\ evals' \in [Ids -> Evaluators \cup {NULL}] /\ handles' \in [Ids -> Tagged \cup {NULL}]
      /\ evals'[i] = e /\ handles'[h] = hd
      /\ \A j \in Ids \ {i} : evals'[j] = evals[j]
      /\ \A g \in Ids \ {h} : handles'[g] = handles[g]
    BY <1>3, <1>4, <1>5 DEF Inv, TableInv
<1>7. i \notin Live(evals) /\ h \notin Live(handles) /\ i \notin lost
    BY DEF FitBuilds, Fresh, Inv, TableInv, Ownership
<1>8. Live(evals)' = Live(evals) \cup {i} /\ Live(handles)' = Live(handles) \cup {h}
    BY <1>3, <1>4, <1>6 DEF Live
<1>9. \A g \in Live(handles) : g # h /\ handles'[g] = handles[g] /\ handles[g].impl # i
    BY <1>6, <1>7 DEF Inv, TableInv, Ownership, Owns, Live
<1>10. Ownership'
    <2>1. \A g \in Live(handles)' : Owns(g)'
        <3>1. Owns(h)'
            BY <1>4, <1>5, <1>6, <1>7, <1>8 DEF Owns
        <3>2. ASSUME NEW g \in Live(handles) PROVE Owns(g)'
            <4>1. Owns(g) /\ handles[g].impl \in Ids \ {i}
                BY <1>9 DEF Inv, TableInv, Ownership, Owns, Live
            <4>2. handles'[g] = handles[g] /\ evals'[handles[g].impl] = evals[handles[g].impl]
                BY <4>1, <1>6, <1>9
            <4>3. handles[g].impl \in Live(evals)' \ lost'
                BY <4>1, <1>5, <1>8 DEF Owns
            <4>4. QED  BY <4>1, <4>2, <4>3 DEF Owns
        <3>3. QED  BY <1>8, <3>1, <3>2
    <2>2. \A f, g \in Live(handles)' : handles'[f].impl = handles'[g].impl => f = g
        BY <1>4, <1>6, <1>8, <1>9 DEF Inv, TableInv, Ownership
    <2>3. \A j \in Live(evals)' \ lost' : \E g \in Live(handles)' : handles'[g].impl = j
        <3>1. \A j \in Live(evals) \ lost : \E g \in Live(handles) : handles[g].impl = j
            BY DEF Inv, TableInv, Ownership
        <3>2. handles'[h].impl = i /\ h \in Live(handles)'
            BY <1>4, <1>6, <1>8
        <3>3. ASSUME NEW j \in Live(evals) \ lost PROVE \E g \in Live(handles)' : handles'[g].impl = j
            <4>1. PICK g \in Live(handles) : handles[g].impl = j
                BY <3>1
            <4>2. QED  BY <4>1, <1>8, <1>9
        <3>4. Live(evals)' \ lost' = (Live(evals) \ lost) \cup {i}
            BY <1>5, <1>7, <1>8
        <3>5. QED  BY <3>2, <3>3, <3>4
    <2>4. lost' \subseteq Live(evals)'
        BY <1>5, <1>8 DEF Inv, TableInv, Ownership
    <2>5. QED  BY <2>1, <2>2, <2>3, <2>4 DEF Ownership
<1>11. RungRuns'
    BY <1>3, <1>5, <1>6, <1>7, <1>8 DEF RungRuns, Suits, Inv, TableInv, Live
<1>12. TableInv'
    BY <1>5, <1>6, <1>10, <1>11 DEF Inv, TableInv
<1>13. QED  BY <1>1, <1>2, <1>12 DEF Inv

\* The evaluator a failed `new` leaves behind is a lost one.
LEMMA HandleAllocFailsInv == ASSUME Inv, NEW t \in Threads, HandleAllocFails(t) PROVE Inv'
<1> DEFINE e == Built(t)
<1>1. TextInv'
    BY ThrewKeepsText, TextRange DEF Inv, HandleAllocFails
<1>2. StackInv'
    BY StackPopped DEF Inv, HandleAllocFails
<1>3. e \in Evaluators /\ e # NULL /\ Suits(e.rung)
    BY BuiltIsEvaluator DEF HandleAllocFails
<1>4. PICK i \in Fresh(evals) : evals' = [evals EXCEPT ![i] = e] /\ lost' = lost \cup {i}
    BY DEF HandleAllocFails
<1>5. handles' = handles /\ forced' = forced
    BY DEF HandleAllocFails
<1> HIDE DEF e
<1>6. /\ evals' \in [Ids -> Evaluators \cup {NULL}] /\ i \in Ids /\ evals'[i] = e
      /\ \A j \in Ids \ {i} : evals'[j] = evals[j]
    BY <1>3, <1>4 DEF Inv, TableInv, Fresh
<1>7. i \notin Live(evals)
    BY <1>4 DEF Fresh
<1>8. Live(evals)' = Live(evals) \cup {i} /\ Live(handles)' = Live(handles)
    BY <1>3, <1>5, <1>6 DEF Live
<1>9. Live(evals)' \ lost' = Live(evals) \ lost
    BY <1>4, <1>7, <1>8
<1>10. Ownership'
    <2>1. ASSUME NEW g \in Live(handles) PROVE Owns(g)'
        <3>1. Owns(g) /\ handles[g].impl \in Ids \ {i}
            BY <1>7 DEF Inv, TableInv, Ownership, Owns, Live
        <3>2. evals'[handles[g].impl] = evals[handles[g].impl]
            BY <3>1, <1>6
        <3>3. QED  BY <3>1, <3>2, <1>5, <1>9 DEF Owns
    <2>2. lost' \subseteq Live(evals)'
        BY <1>4, <1>8 DEF Inv, TableInv, Ownership
    <2>3. QED  BY <2>1, <2>2, <1>5, <1>8, <1>9 DEF Inv, TableInv, Ownership
<1>11. RungRuns'
    BY <1>3, <1>5, <1>6, <1>7, <1>8 DEF RungRuns, Suits, Inv, TableInv, Live
<1>12. TableInv'
    BY <1>4, <1>5, <1>6, <1>10, <1>11 DEF Inv, TableInv
<1>13. QED  BY <1>1, <1>2, <1>12 DEF Inv

\* An evaluation that is refused, one that throws, the by-value forms and the
\* queries write the thread's text and nothing else.
LEMMA EvalRefusedInv ==
    ASSUME Inv, NEW t \in Threads, NEW calls, EvalRefused(t, calls) PROVE Inv'
BY SetLastErrorKeepsText, StackKept, TableKept, ReasonsAre DEF Inv, EvalRefused, Cleared, Table

LEMMA EvalThrowsInv ==
    ASSUME Inv, NEW t \in Threads, NEW calls, EvalThrows(t, calls) PROVE Inv'
BY ThrewKeepsText, StackKept, TableKept DEF Inv, EvalThrows, Cleared, Table

LEMMA EvalNDInv == ASSUME Inv, NEW t \in Threads, EvalND(t) PROVE Inv'
BY SetLastErrorKeepsText, TextRange, StackKept, TableKept, ReasonsAre DEF Inv, EvalND, Table

LEMMA QueryNullInv == ASSUME Inv, NEW t \in Threads, QueryNull(t) PROVE Inv'
BY SetLastErrorKeepsText, TextRange, StackKept, TableKept, ReasonsAre DEF Inv, QueryNull, Table

\* A handle that takes the type of the call has an evaluator of that type.
LEMMA EvalAnswersInv == ASSUME Inv, NEW t \in Threads, EvalAnswers(t, Calls) PROVE Inv'
<1>1. ASSUME NEW call \in Calls, Served(call) PROVE ThroughPointer(call) = "answered"
    <2>1. call[3] \in Live(handles) /\ handles[call[3]].dt = call[2]
        BY <1>1 DEF Calls, Served, Accepts
    <2>2. evals[handles[call[3]].impl].dt = call[2]
        BY <2>1 DEF Inv, TableInv, Ownership, Owns
    <2>3. QED  BY <2>2 DEF ThroughPointer
<1>2. last' = [last EXCEPT ![t] = Outcome("answered", "")] /\ err' = Buffer(t, "")
    BY <1>1 DEF EvalAnswers, Cleared
<1>3. TextInv'
    BY <1>2, TextWritten DEF Inv, Results
<1>4. QED  BY <1>3, StackKept, TableKept DEF Inv, EvalAnswers, Table

\* A free takes the handle and the evaluator nobody else points to.
LEMMA FreeInv == ASSUME Inv, NEW t \in Threads, NEW h \in Live(handles), Free(t, h) PROVE Inv'
<1> DEFINE i == handles[h].impl
<1>1. TextInv' /\ StackInv'
    BY TextKept, StackKept DEF Inv, Free
<1>2. /\ evals' = [evals EXCEPT ![i] = NULL] /\ handles' = [handles EXCEPT ![h] = NULL]
      /\ lost' = lost /\ forced' = forced
    BY DEF Free
<1>3. i \in Live(evals) \ lost /\ h \in Ids /\ i \in Ids
    BY DEF Inv, TableInv, Ownership, Owns, Live
<1>4. \A g \in Live(handles) : g # h => handles[g].impl # i
    BY DEF Inv, TableInv, Ownership
<1> HIDE DEF i
<1>5. /\ evals' \in [Ids -> Evaluators \cup {NULL}] /\ handles' \in [Ids -> Tagged \cup {NULL}]
      /\ evals'[i] = NULL /\ handles'[h] = NULL
      /\ \A j \in Ids \ {i} : evals'[j] = evals[j]
      /\ \A g \in Ids \ {h} : handles'[g] = handles[g]
    BY <1>2, <1>3 DEF Inv, TableInv
<1>6. Live(evals)' = Live(evals) \ {i} /\ Live(handles)' = Live(handles) \ {h}
    BY <1>3, <1>5 DEF Live
<1>7. \A g \in Live(handles)' : handles'[g] = handles[g] /\ g \in Live(handles) /\ g # h
    BY <1>5, <1>6 DEF Live
<1>8. Ownership'
    <2>1. ASSUME NEW g \in Live(handles)' PROVE Owns(g)'
        <3>1. Owns(g) /\ handles'[g] = handles[g] /\ handles[g].impl # i
            BY <1>4, <1>7 DEF Inv, TableInv, Ownership
        <3>2. handles[g].impl \in Live(evals)' \ lost' /\ handles[g].impl \in Ids \ {i}
            BY <3>1, <1>2, <1>6 DEF Owns, Live
        <3>3. evals'[handles[g].impl] = evals[handles[g].impl]
            BY <3>2, <1>5
        <3>4. QED  BY <3>1, <3>2, <3>3 DEF Owns
    <2>2. \A f, g \in Live(handles)' : handles'[f].impl = handles'[g].impl => f = g
        BY <1>7 DEF Inv, TableInv, Ownership
    <2>3. ASSUME NEW j \in Live(evals)' \ lost' PROVE \E g \in Live(handles)' : handles'[g].impl = j
        <3>1. j \in Live(evals) \ lost /\ j # i
            BY <1>2, <1>6
        <3>2. PICK g \in Live(handles) : handles[g].impl = j
            BY <3>1 DEF Inv, TableInv, Ownership
        <3>3. g # h
            BY <3>1, <3>2 DEF i
        <3>4. QED  BY <3>2, <3>3, <1>6, <1>7
    <2>4. lost' \subseteq Live(evals)'
        BY <1>2, <1>3, <1>6 DEF Inv, TableInv, Ownership
    <2>5. QED  BY <2>1, <2>2, <2>3, <2>4 DEF Ownership
<1>9. RungRuns'
    BY <1>2, <1>5, <1>6 DEF RungRuns, Suits, Inv, TableInv, Live
<1>10. TableInv'
    BY <1>2, <1>5, <1>8, <1>9 DEF Inv, TableInv
<1>11. QED  BY <1>1, <1>10 DEF Inv

LEMMA NextInv == Inv /\ [CApiNext]_capi => Inv'
<1> SUFFICES ASSUME Inv, [CApiNext]_capi PROVE Inv'
    OBVIOUS
<1>1. ASSUME NEW t \in Threads, CApiStep(t) PROVE Inv'
    <2>1. CASE FitRefused(t, BOOLEAN \X Shapes)
        BY <2>1, FitRefusedInv
    <2>2. CASE \E dt \in DTypes, shape \in Shapes : FitStart(t, dt, shape)
        BY <2>2, FitStartInv
    <2>3. CASE FitThrows(t)
        BY <2>3, FitThrowsInv
    <2>4. CASE HandleAllocFails(t)
        BY <2>4, HandleAllocFailsInv
    <2>5. CASE \E i, h \in Ids : FitBuilds(t, i, h)
        BY <2>5, FitBuildsInv
    <2>6. CASE EvalRefused(t, Calls)
        BY <2>6, EvalRefusedInv
    <2>7. CASE EvalAnswers(t, Calls)
        BY <2>7, EvalAnswersInv
    <2>8. CASE EvalThrows(t, Calls)
        BY <2>8, EvalThrowsInv
    <2>9. CASE EvalND(t)
        BY <2>9, EvalNDInv
    <2>10. CASE QueryNull(t)
        BY <2>10, QueryNullInv
    <2>11. CASE \E h \in Live(handles) : Free(t, h)
        BY <2>11, FreeInv
    <2>12. QED
        BY <1>1, <2>1, <2>2, <2>3, <2>4, <2>5, <2>6, <2>7, <2>8, <2>9, <2>10, <2>11 DEF CApiStep
<1>2. CASE UNCHANGED capi
    BY <1>2, TextKept, StackKept, TableKept DEF Inv, capi
<1>3. QED  BY <1>1, <1>2 DEF CApiNext

LEMMA AlwaysInv == CApiSpec => []Inv
BY InitInv, NextInv, PTL DEF CApiSpec

-----------------------------------------------------------------------------
(* The theorems                                                            *)

\* With one owner each, the evaluators are owned exactly once.
LEMMA OwnedOnce == Inv => EvaluatorsOwned
<1> SUFFICES ASSUME Inv PROVE EvaluatorsOwned
    OBVIOUS
<1>1. ASSUME NEW h \in Live(handles)
      PROVE  LET e == evals[handles[h].impl] IN
             /\ e # NULL /\ handles[h].impl \notin lost
             /\ [e EXCEPT !.rung = NULL] =
                    [dt |-> handles[h].dt, in |-> handles[h].in, out |-> handles[h].out, rung |-> NULL]
    <2> DEFINE e == evals[handles[h].impl]
    <2>1. Owns(h) /\ e # NULL /\ e \in Evaluators
        BY DEF Inv, TableInv, Ownership, Owns, Live
    <2>2. handles[h].impl \notin lost /\ e.dt = handles[h].dt /\ e.in = handles[h].in /\ e.out = handles[h].out
        BY <2>1 DEF Owns
    <2> HIDE DEF e
    <2>3. e = [dt |-> e.dt, in |-> e.in, out |-> e.out, rung |-> e.rung]
        BY <2>1 DEF Evaluators
    <2>4. [e EXCEPT !.rung = NULL] = [dt |-> e.dt, in |-> e.in, out |-> e.out, rung |-> NULL]
        BY <2>3
    <2>5. QED  BY <2>1, <2>2, <2>4 DEF e
<1>2. ASSUME NEW i \in Live(evals) \ lost
      PROVE  Cardinality({h \in Live(handles) : handles[h].impl = i}) = 1
    <2>1. PICK h \in Live(handles) : handles[h].impl = i
        BY DEF Inv, TableInv, Ownership
    <2>2. \A g \in Live(handles) : handles[g].impl = i => g = h
        BY <2>1 DEF Inv, TableInv, Ownership
    <2>3. {g \in Live(handles) : handles[g].impl = i} = {h}
        BY <2>1, <2>2
    <2>4. QED  BY <2>3, FS_Singleton
<1>3. QED  BY <1>1, <1>2 DEF EvaluatorsOwned

\* Every variable of treeweave.cpp keeps its type through every call.
THEOREM InterfaceTyped == CApiSpec => []CApiTypeOK
<1>1. Inv => CApiTypeOK
    BY DEF Inv, TextInv, StackInv, TableInv, CApiTypeOK, Fits
<1>2. QED  BY <1>1, AlwaysInv, PTL

\* No evaluator is leaked, shared, freed twice or reached through a handle of
\* another type or shape, except those a failed `new` of a handle leaves behind
\* (treeweave.cpp:121).
THEOREM EvaluatorsAlwaysOwned == CApiSpec => []EvaluatorsOwned
BY OwnedOnce, AlwaysInv, PTL

\* Whatever other threads, nested fits and frees do in between, a thread whose
\* last call failed reads the reason of that call, and one whose last call
\* answered reads none (treeweave.cpp:33-56).
THEOREM FailuresAlwaysReported == CApiSpec => []Reported
<1>1. Inv => Reported
    BY DEF Inv, TextInv
<1>2. QED  BY <1>1, AlwaysInv, PTL

\* The void pointer of a handle is never cast to an evaluator of the other type
\* (checked_impl and the destructor, treeweave.cpp:58-110).
THEOREM AnswersAlwaysTyped == CApiSpec => []TypedAnswers
<1>1. Inv => TypedAnswers
    BY DEF Inv, TextInv
<1>2. QED  BY <1>1, AlwaysInv, PTL

\* On every machine, every evaluator runs kernels the machine has: the forced
\* rung if it can run it, else the widest it can (arch_dispatch.cpp).
THEOREM RungsAlwaysRun == CApiSpec => []RungRuns
<1>1. Inv => RungRuns
    BY DEF Inv, TableInv
<1>2. QED  BY <1>1, AlwaysInv, PTL

-----------------------------------------------------------------------------
(* The bindings: their inductive invariant, beside Inv of the interface.   *)

Frame == [latch : Errors \cup {None}, first : Errors \cup {None}, allow : BOOLEAN, h : Ids \cup {NULL}]
Shown == Errors \cup Reasons \cup {None, "fallback", "object", "threw", "value", "unwritten", "nan"}

HostTypes ==
    /\ host \in Hosts
    /\ ctx \in [Threads -> Seq(Frame)]
    /\ obj \in [Objects -> Ids \cup {NULL, None}]
    /\ abandoned \subseteq Ids
    /\ seen \in [Threads -> Shown]

\* The latches of a thread are those of its fits, and of one that returns; only
\* that one may hold a handle, and then its fit succeeded.  A latch is written
\* once.  A stored failure has a reason.
InStep(t) ==
    /\ host = "c" => ctx[t] = <<>>
    /\ host # "c" => Len(ctx[t]) - Len(stack[t]) \in {0, 1}
    /\ \A k \in 1 .. Len(ctx[t]) : k <= Len(stack[t]) => ctx[t][k].h = NULL
    /\ \A k \in 1 .. Len(ctx[t]) : ctx[t][k].latch = ctx[t][k].first
    /\ Returning(t) /\ Top(ctx[t]).h # NULL => last[t].res = "fitted"
    /\ last[t].res = "failed" => last[t].why \in Reasons

\* The handle a fit of thread t is returning.
Carried(t) == IF Returning(t) THEN {Top(ctx[t]).h} \ {NULL} ELSE {}

\* Every handle that is not forgotten has one owner, and each owner's is live.
OneOwner ==
    /\ \A o \in Objects : obj[o] \in Ids => obj[o] \in Live(handles) \ abandoned
    /\ \A t \in Threads : Carried(t) \subseteq Live(handles) \ abandoned
    /\ \A o, p \in Objects : obj[o] \in Ids /\ obj[o] = obj[p] => o = p
    /\ \A t, u \in Threads : t # u => Carried(t) \cap Carried(u) = {}
    /\ \A o \in Objects, t \in Threads : obj[o] \notin Carried(t)
    /\ host # "c" => \A h \in Live(handles) \ abandoned :
            (\E o \in Objects : obj[o] = h) \/ (\E t \in Threads : h \in Carried(t))
    /\ host = "c" => \A o \in Objects : obj[o] = None
    /\ abandoned # {} => host # "c"
    /\ abandoned \subseteq Live(handles)

HostInv ==
    /\ HostTypes
    /\ \A t \in Threads : InStep(t)
    /\ OneOwner
    /\ AnswersEvaluated

\* TLC checks it together with the invariant of the interface.
BInv == Inv /\ HostInv

-----------------------------------------------------------------------------
(* Latches                                                                 *)

LEMMA CtxType ==
    ASSUME HostTypes, NEW t \in Threads
    PROVE  /\ ctx[t] \in Seq(Frame) /\ Len(ctx[t]) \in Nat
           /\ \A k \in 1 .. Len(ctx[t]) : ctx[t][k] \in Frame
BY ElementOfSeq, LenProperties DEF HostTypes

LEMMA StackType ==
    ASSUME Inv, NEW t \in Threads
    PROVE  stack[t] \in Seq(Fits) /\ Len(stack[t]) \in Nat /\ (InFit(t) <=> Len(stack[t]) > 0)
BY EmptySeq, LenProperties DEF Inv, StackInv, InFit

\* Only a binding's thread returns from a fit.
LEMMA ReturningIsHost ==
    ASSUME Inv, HostTypes, NEW t \in Threads, InStep(t), Returning(t)
    PROVE  /\ host # "c" /\ Len(ctx[t]) = Len(stack[t]) + 1
           /\ Len(ctx[t]) \in 1 .. Len(ctx[t])
           /\ Top(ctx[t]) = ctx[t][Len(ctx[t])] /\ Top(ctx[t]) \in Frame
           /\ Top(ctx[t]).latch = Top(ctx[t]).first
<1>1. Len(ctx[t]) \in Nat /\ Len(stack[t]) \in Nat /\ Len(ctx[t]) > Len(stack[t])
    BY CtxType, StackType DEF Returning
<1>2. host # "c"
    BY <1>1, EmptySeq DEF InStep
<1>3. Len(ctx[t]) = Len(stack[t]) + 1
    BY <1>1, <1>2 DEF InStep
<1>4. Len(ctx[t]) \in 1 .. Len(ctx[t])
    BY <1>1, <1>3
<1>5. Top(ctx[t]) = ctx[t][Len(ctx[t])] /\ Top(ctx[t]) \in Frame
    BY <1>4, CtxType DEF Top
<1>6. QED  BY <1>2, <1>3, <1>4, <1>5 DEF InStep

LEMMA RunnableIsHost ==
    ASSUME Inv, HostTypes, NEW t \in Threads, InStep(t), Runnable(t)
    PROVE  /\ host # "c" /\ Len(ctx[t]) = Len(stack[t]) /\ ~ Returning(t)
           /\ InFit(t) => Len(ctx[t]) \in 1 .. Len(ctx[t])
           /\ InFit(t) => Top(ctx[t]) = ctx[t][Len(ctx[t])] /\ Top(ctx[t]) \in Frame /\ Top(ctx[t]).h = NULL
<1>1. Len(ctx[t]) \in Nat /\ Len(stack[t]) \in Nat /\ ~ (Len(ctx[t]) > Len(stack[t])) /\ host # "c"
    BY CtxType, StackType DEF Returning, Runnable
<1>2. Len(ctx[t]) = Len(stack[t])
    BY <1>1 DEF InStep
<1>3. InFit(t) => Len(ctx[t]) \in 1 .. Len(ctx[t])
    BY <1>1, <1>2, StackType
<1>4. InFit(t) => Top(ctx[t]) = ctx[t][Len(ctx[t])] /\ Top(ctx[t]) \in Frame /\ Top(ctx[t]).h = NULL
    BY <1>2, <1>3, CtxType DEF Top, InStep
<1>5. QED  BY <1>1, <1>2, <1>3, <1>4 DEF Runnable

\* A thread that no action touches.
LEMMA Untouched ==
    ASSUME NEW u \in Threads, InStep(u), host' = host, ctx'[u] = ctx[u],
           stack'[u] = stack[u], last'[u] = last[u]
    PROVE  InStep(u)' /\ Carried(u)' = Carried(u)
BY DEF InStep, Carried, Returning, Top

\* The bottom of the stack of latches after a thread leaves its top frame.
LEMMA LeaveFacts ==
    ASSUME Inv, HostTypes, NEW t \in Threads, InStep(t), Returning(t), Leave(t)
    PROVE  /\ ctx' \in [Threads -> Seq(Frame)]
           /\ \A u \in Threads \ {t} : ctx'[u] = ctx[u]
           /\ Len(ctx'[t]) = Len(stack[t])
           /\ \A k \in 1 .. Len(stack[t]) : ctx'[t][k] = ctx[t][k]
<1>1. Len(ctx[t]) = Len(stack[t]) + 1 /\ Len(stack[t]) \in Nat /\ ctx[t] \in Seq(Frame)
    BY ReturningIsHost, StackType, CtxType
<1>2. Pop(ctx[t]) = SubSeq(ctx[t], 1, Len(stack[t]))
    BY <1>1 DEF Pop
<1>3. /\ Pop(ctx[t]) \in Seq(Frame) /\ Len(Pop(ctx[t])) = Len(stack[t])
      /\ \A k \in 1 .. Len(stack[t]) : Pop(ctx[t])[k] = ctx[t][k]
    BY <1>1, <1>2, SubSeqProperties, CtxType
<1>4. ctx' = [ctx EXCEPT ![t] = Pop(ctx[t])] /\ ctx \in [Threads -> Seq(Frame)]
    BY DEF Leave, HostTypes
<1>5. ctx'[t] = Pop(ctx[t]) /\ ctx' \in [Threads -> Seq(Frame)] /\ \A u \in Threads \ {t} : ctx'[u] = ctx[u]
    BY <1>3, <1>4
<1>6. QED  BY <1>3, <1>5

-----------------------------------------------------------------------------
(* What a call of the interface leaves alone                                *)

LEMMA LiveIn == Live(handles) \subseteq Ids /\ NULL \notin Ids /\ None \notin Ids
BY NullAssumption, HostValuesAssumption DEF Live

LEMMA OutcomeFields ==
    ASSUME NEW res, NEW why PROVE Outcome(res, why).res = res /\ Outcome(res, why).why = why
BY DEF Outcome

\* An outcome that a failed call writes.
LEMMA FailedOutcome ==
    ASSUME Inv, NEW t \in Threads, NEW before, NEW why \in Reasons, SetLastError(t, before, why)
    PROVE  /\ \A u \in Threads \ {t} : last'[u] = last[u]
           /\ last'[t].res \in {"failed", "unstored"}
           /\ last'[t].res = "failed" => last'[t].why \in Reasons /\ err'[t] = why
           /\ last'[t].res = "unstored" => err'[t] = before
<1>1. PICK stored \in BOOLEAN :
        /\ err' = Buffer(t, IF stored THEN why ELSE before)
        /\ last' = [last EXCEPT ![t] = IF stored THEN Outcome("failed", why) ELSE Outcome("unstored", "")]
    BY DEF SetLastError
<1>2. last'[t] = (IF stored THEN Outcome("failed", why) ELSE Outcome("unstored", ""))
      /\ err'[t] = (IF stored THEN why ELSE before)
      /\ \A u \in Threads \ {t} : last'[u] = last[u]
    BY <1>1 DEF Inv, TextInv, Buffer
<1>3. CASE stored
    BY <1>2, <1>3, OutcomeFields
<1>4. CASE ~ stored
    <2>1. Outcome("unstored", "").res = "unstored"
        BY OutcomeFields
    <2>2. last'[t] = Outcome("unstored", "") /\ err'[t] = before
        BY <1>2, <1>4
    <2>3. last'[t].res = "unstored"
        BY <2>1, <2>2
    <2>4. QED  BY <1>2, <2>2, <2>3
<1>5. QED  BY <1>3, <1>4

LEMMA SetOutcome ==
    ASSUME Inv, NEW t \in Threads, NEW o, last' = [last EXCEPT ![t] = o]
    PROVE  last'[t] = o /\ \A u \in Threads \ {t} : last'[u] = last[u]
BY DEF Inv, TextInv

\* An evaluation or a query of thread t touches no other thread, and neither
\* stacks nor handles.
LEMMA EvalTouches ==
    ASSUME Inv, NEW t \in Threads, NEW calls,
           EvalRefused(t, calls) \/ EvalAnswers(t, calls) \/ EvalThrows(t, calls) \/ EvalND(t) \/ QueryNull(t)
    PROVE  /\ UNCHANGED <<stack, handles>>
           /\ \A u \in Threads \ {t} : last'[u] = last[u]
           /\ last'[t].res = "failed" => last'[t].why \in Reasons
<1>1. CASE EvalRefused(t, calls)
    BY <1>1, FailedOutcome, ReasonsAre DEF EvalRefused, Table
<1>2. CASE EvalAnswers(t, calls)
    <2>1. PICK res \in {ThroughPointer(call) : call \in {c \in calls : Served(c)}} :
            last' = [last EXCEPT ![t] = Outcome(res, "")]
        BY <1>2 DEF EvalAnswers
    <2>2. res # "failed"
        BY <2>1 DEF ThroughPointer
    <2>3. last'[t] = Outcome(res, "") /\ \A u \in Threads \ {t} : last'[u] = last[u]
        BY <2>1, SetOutcome
    <2>4. Outcome(res, "").res = res
        BY OutcomeFields
    <2>5. last'[t].res = res
        BY <2>3, <2>4
    <2>6. QED  BY <1>2, <2>2, <2>3, <2>5 DEF EvalAnswers, Table
<1>3. CASE EvalThrows(t, calls)
    <2>1. last' = [last EXCEPT ![t] = Outcome("threw", "")]
        BY <1>3 DEF EvalThrows, Threw
    <2>2. last'[t] = Outcome("threw", "") /\ \A u \in Threads \ {t} : last'[u] = last[u]
        BY <2>1, SetOutcome
    <2>3. Outcome("threw", "").res = "threw"
        BY OutcomeFields
    <2>4. last'[t].res = "threw"
        BY <2>2, <2>3
    <2>5. QED  BY <1>3, <2>2, <2>4 DEF EvalThrows, Table
<1>4. CASE EvalND(t)
    BY <1>4, FailedOutcome, ReasonsAre DEF EvalND, Table
<1>5. CASE QueryNull(t)
    BY <1>5, FailedOutcome, ReasonsAre DEF QueryNull, Table
<1>6. QED  BY <1>1, <1>2, <1>3, <1>4, <1>5

LEMMA StackSet ==
    ASSUME Inv, NEW t \in Threads, NEW s, stack' = [stack EXCEPT ![t] = s]
    PROVE  stack'[t] = s /\ \A u \in Threads \ {t} : stack'[u] = stack[u]
BY DEF Inv, StackInv

LEMMA StartTouches ==
    ASSUME Inv, NEW t \in Threads, NEW dt \in DTypes, NEW shape, FitStart(t, dt, shape)
    PROVE  /\ handles' = handles
           /\ \A u \in Threads \ {t} : stack'[u] = stack[u] /\ last'[u] = last[u]
           /\ Len(stack'[t]) = Len(stack[t]) + 1
           /\ last'[t].res = "none"
<1> DEFINE fit == [dt |-> dt, in |-> shape[1], out |-> shape[2]]
<1>1. fit \in Fits
    BY DEF FitStart, Supported, Fits
<1>2. stack' = [stack EXCEPT ![t] = Append(stack[t], fit)] /\ last' = [last EXCEPT ![t] = Outcome("none", "")]
    BY DEF FitStart
<1> HIDE DEF fit
<1>3. stack'[t] = Append(stack[t], fit) /\ \A u \in Threads \ {t} : stack'[u] = stack[u]
    BY <1>2, StackSet
<1>4. Len(stack'[t]) = Len(stack[t]) + 1
    BY <1>1, <1>3, StackType, AppendProperties
<1>5. last'[t] = Outcome("none", "") /\ \A u \in Threads \ {t} : last'[u] = last[u]
    BY <1>2, SetOutcome
<1>6. Outcome("none", "").res = "none"
    BY OutcomeFields
<1>7. last'[t].res = "none"
    BY <1>5, <1>6
<1>8. handles' = handles
    BY DEF FitStart
<1>9. QED  BY <1>3, <1>4, <1>5, <1>7, <1>8

LEMMA RefusedTouches ==
    ASSUME Inv, NEW t \in Threads, NEW fits, FitRefused(t, fits)
    PROVE  /\ UNCHANGED <<handles, stack>>
           /\ \A u \in Threads \ {t} : last'[u] = last[u]
           /\ last'[t].res \in {"failed", "unstored"}
           /\ last'[t].res = "failed" => last'[t].why \in Reasons
BY FailedOutcome, ReasonsAre DEF FitRefused

\* A fit that ends takes its frame off the stack.
LEMMA PopTouches ==
    ASSUME Inv, NEW t \in Threads, InFit(t), stack' = [stack EXCEPT ![t] = Pop(@)]
    PROVE  /\ \A u \in Threads \ {t} : stack'[u] = stack[u]
           /\ Len(stack'[t]) = Len(stack[t]) - 1
<1>1. stack[t] \in Seq(Fits) /\ Len(stack[t]) \in Nat \ {0}
    BY StackType
<1>2. Len(Pop(stack[t])) = Len(stack[t]) - 1
    BY <1>1, SubSeqProperties, LenProperties DEF Pop
<1>3. QED  BY <1>2, StackSet

LEMMA FailTouches ==
    ASSUME Inv, NEW t \in Threads, FitThrows(t) \/ HandleAllocFails(t)
    PROVE  /\ handles' = handles /\ InFit(t)
           /\ \A u \in Threads \ {t} : stack'[u] = stack[u] /\ last'[u] = last[u]
           /\ Len(stack'[t]) = Len(stack[t]) - 1
           /\ last'[t].res = "failed" => last'[t].why \in Reasons
<1>1. CASE FitThrows(t)
    <2>1. PICK why \in {"fit", "alloc"} : SetLastError(t, err[t], why)
        BY <1>1 DEF FitThrows
    <2>2. QED  BY <1>1, <2>1, FailedOutcome, ReasonsAre, PopTouches DEF FitThrows
<1>2. CASE HandleAllocFails(t)
    <2>1. last' = [last EXCEPT ![t] = Outcome("threw", "")]
        BY <1>2 DEF HandleAllocFails, Threw
    <2>2. last'[t] = Outcome("threw", "") /\ \A u \in Threads \ {t} : last'[u] = last[u]
        BY <2>1, SetOutcome
    <2>3. Outcome("threw", "").res = "threw"
        BY OutcomeFields
    <2>4. last'[t].res = "threw"
        BY <2>2, <2>3
    <2>5. QED  BY <1>2, <2>2, <2>4, PopTouches DEF HandleAllocFails
<1>3. QED  BY <1>1, <1>2

LEMMA BuildTouches ==
    ASSUME Inv, NEW t \in Threads, NEW i \in Ids, NEW h \in Ids, FitBuilds(t, i, h)
    PROVE  /\ h \notin Live(handles) /\ Live(handles)' = Live(handles) \cup {h} /\ InFit(t)
           /\ \A u \in Threads \ {t} : stack'[u] = stack[u] /\ last'[u] = last[u]
           /\ Len(stack'[t]) = Len(stack[t]) - 1
           /\ last'[t].res = "fitted"
<1>1. last' = [last EXCEPT ![t] = Outcome("fitted", "")]
    BY DEF FitBuilds
<1> DEFINE hd == [impl |-> i, dt |-> Tag(Built(t).dt), in |-> Built(t).in, out |-> Built(t).out]
<1>2. hd # NULL
    <2>1. Built(t) \in Evaluators
        BY BuiltIsEvaluator DEF FitBuilds
    <2>2. hd \in Tagged
        BY <2>1 DEF Tagged, Evaluators, Tag
    <2>3. QED  BY <2>2, NullAssumption
<1>3. handles' = [handles EXCEPT ![h] = hd]
    BY DEF FitBuilds
<1> HIDE DEF hd
<1>4. h \notin Live(handles) /\ Live(handles)' = Live(handles) \cup {h}
    BY <1>2, <1>3 DEF FitBuilds, Fresh, Live, Inv, TableInv
<1>5. last'[t] = Outcome("fitted", "") /\ \A u \in Threads \ {t} : last'[u] = last[u]
    BY <1>1, SetOutcome
<1>6. Outcome("fitted", "").res = "fitted"
    BY OutcomeFields
<1>7. last'[t].res = "fitted"
    BY <1>5, <1>6
<1>8. InFit(t) /\ stack' = [stack EXCEPT ![t] = Pop(@)]
    BY DEF FitBuilds
<1>9. QED  BY <1>4, <1>5, <1>7, <1>8, PopTouches

LEMMA FreeTouches ==
    ASSUME Inv, NEW t \in Threads, NEW h, Free(t, h)
    PROVE  h \in Live(handles) /\ Live(handles)' = Live(handles) \ {h} /\ UNCHANGED <<stack, last>>
BY DEF Free, Live, Inv, TableInv

-----------------------------------------------------------------------------
(* What a step of one thread keeps                                          *)

LEMMA OthersInStep ==
    ASSUME HostInv, NEW t \in Threads, host' = host, InStep(t)',
           \A u \in Threads \ {t} : ctx'[u] = ctx[u] /\ stack'[u] = stack[u] /\ last'[u] = last[u]
    PROVE  /\ \A u \in Threads : InStep(u)'
           /\ \A u \in Threads \ {t} : Carried(u)' = Carried(u)
<1>1. ASSUME NEW u \in Threads \ {t} PROVE InStep(u)' /\ Carried(u)' = Carried(u)
    BY Untouched DEF HostInv
<1>2. QED  BY <1>1

LEMMA GivesFacts ==
    ASSUME HostInv, NEW t \in Threads, NEW x \in Shown, Gives(t, x), host' = host,
           \A u \in Threads \ {t} : last'[u] = last[u],
           x = "value" => last'[t].res = "answered" \/ (host = "c" /\ last'[t].res = "unstored"),
           x = "nan" => last'[t].res = "failed"
    PROVE  AnswersEvaluated' /\ seen' \in [Threads -> Shown]
<1>1. seen' \in [Threads -> Shown] /\ seen'[t] = x /\ \A u \in Threads \ {t} : seen'[u] = seen[u]
    BY DEF Gives, HostInv, HostTypes
<1>2. ASSUME NEW u \in Threads
      PROVE  /\ seen'[u] = "value" => \/ last'[u].res = "answered"
                                      \/ host' = "c" /\ last'[u].res = "unstored"
             /\ seen'[u] = "nan" => last'[u].res = "failed"
    <2>1. CASE u = t
        BY <1>1, <2>1
    <2>2. CASE u # t
        <3>1. seen'[u] = seen[u] /\ last'[u] = last[u]
            BY <1>1, <2>2
        <3>2. QED  BY <3>1 DEF HostInv, AnswersEvaluated
    <2>3. QED  BY <2>1, <2>2
<1>3. QED  BY <1>1, <1>2 DEF AnswersEvaluated

\* What a binding gives its caller when no value comes of it.
LEMMA GivesOther ==
    ASSUME HostInv, NEW t \in Threads, NEW x \in Shown \ {"value", "nan"}, Gives(t, x), host' = host,
           \A u \in Threads \ {t} : last'[u] = last[u]
    PROVE  AnswersEvaluated' /\ seen' \in [Threads -> Shown]
BY GivesFacts

LEMMA OtherShown ==
    /\ None \in Shown \ {"value", "nan"}
    /\ Errors \cup {None} \subseteq Shown \ {"value", "nan"}
    /\ Reasons \cup {"fallback", "object", "threw", "unwritten"} \subseteq Shown \ {"value", "nan"}
<1>1. "value" \notin Errors \cup {None} /\ "nan" \notin Errors \cup {None}
    BY HostValuesAssumption
<1>2. QED  BY <1>1 DEF Shown, Reasons

LEMMA OwnersKept ==
    ASSUME OneOwner, UNCHANGED <<host, obj, abandoned>>, Live(handles)' = Live(handles),
           \A t \in Threads : Carried(t)' = Carried(t)
    PROVE  OneOwner'
BY DEF OneOwner

-----------------------------------------------------------------------------
(* The steps of a fit                                                       *)

LEMMA EnterInv ==
    ASSUME BInv, NEW t \in Threads, NEW dt \in DTypes, NEW shape, NEW allow \in BOOLEAN,
           Enter(t, dt, shape, allow)
    PROVE  HostInv'
<1> DEFINE fr == [latch |-> None, first |-> None, allow |-> allow, h |-> NULL]
           n == Len(ctx[t])
<1>1. /\ Inv /\ HostTypes /\ InStep(t) /\ Runnable(t) /\ UNCHANGED <<host, obj, abandoned>>
      /\ Gives(t, None)
    BY DEF BInv, HostInv, Enter
<1>2. host # "c" /\ n = Len(stack[t]) /\ ~ Returning(t) /\ n \in Nat
    BY <1>1, RunnableIsHost, CtxType
<1>3. fr \in Frame /\ fr.h = NULL /\ fr.latch = None /\ fr.first = None
    BY DEF Frame
<1>4. ctx' = [ctx EXCEPT ![t] = Append(ctx[t], fr)]
    BY DEF Enter
<1> HIDE DEF fr
<1>5. ctx'[t] = Append(ctx[t], fr) /\ \A u \in Threads \ {t} : ctx'[u] = ctx[u]
    BY <1>1, <1>4 DEF HostTypes
<1>6. /\ ctx'[t] \in Seq(Frame) /\ Len(ctx'[t]) = n + 1 /\ ctx'[t][n + 1] = fr
      /\ \A k \in 1 .. n : ctx'[t][k] = ctx[t][k]
    BY <1>1, <1>3, <1>5, CtxType, AppendProperties
<1>7. ctx' \in [Threads -> Seq(Frame)]
    <2>1. Append(ctx[t], fr) \in Seq(Frame)
        BY <1>5, <1>6
    <2>2. QED  BY <1>1, <1>4, <2>1 DEF HostTypes
<1>8. /\ handles' = handles
      /\ \A u \in Threads \ {t} : stack'[u] = stack[u] /\ last'[u] = last[u]
      /\ Len(stack'[t]) \in {n, n + 1}
      /\ last'[t].res = "failed" => last'[t].why \in Reasons
    <2>1. CASE FitStart(t, dt, shape)
        BY <1>1, <1>2, <2>1, StartTouches
    <2>2. CASE FitRefused(t, {<<FALSE, shape>>})
        BY <1>1, <1>2, <2>2, RefusedTouches
    <2>3. QED  BY <2>1, <2>2 DEF Enter
<1> HIDE DEF n
<1>9. Top(ctx'[t]).h = NULL
    BY <1>3, <1>6 DEF Top
<1>10. InStep(t)'
    <2>1. ASSUME NEW k \in 1 .. Len(ctx'[t]) PROVE ctx'[t][k].h = NULL /\ ctx'[t][k].latch = ctx'[t][k].first
        <3>1. CASE k = n + 1
            BY <1>3, <1>6, <3>1
        <3>2. CASE k \in 1 .. n
            <4>1. k \in 1 .. Len(ctx[t]) /\ k <= Len(stack[t])
                BY <1>2, <3>2 DEF n
            <4>2. QED  BY <1>1, <1>6, <3>2, <4>1 DEF InStep
        <3>3. QED  BY <1>2, <1>6, <3>1, <3>2
    <2>2. Len(ctx'[t]) - Len(stack'[t]) \in {0, 1}
        BY <1>2, <1>6, <1>8
    <2>3. QED  BY <1>1, <1>2, <1>8, <1>9, <2>1, <2>2 DEF InStep
<1>11. Carried(t)' = Carried(t)
    BY <1>2, <1>9 DEF Carried
<1>12. /\ \A u \in Threads : InStep(u)' 
       /\ \A u \in Threads \ {t} : Carried(u)' = Carried(u)
    BY <1>1, <1>5, <1>8, <1>10, OthersInStep DEF BInv
<1>13. OneOwner'
    <2>1. Live(handles)' = Live(handles)
        BY <1>8 DEF Live
    <2>2. QED  BY <1>1, <1>11, <1>12, <2>1, OwnersKept DEF BInv, HostInv
<1>14. AnswersEvaluated' /\ seen' \in [Threads -> Shown]
    BY <1>1, <1>8, GivesOther, OtherShown DEF BInv
<1>15. QED  BY <1>1, <1>7, <1>12, <1>13, <1>14 DEF HostInv, HostTypes

\* Writing to the top latch of a thread.
LEMMA TopWritten ==
    ASSUME HostTypes, NEW t \in Threads, Len(ctx[t]) \in 1 .. Len(ctx[t]), NEW fr \in Frame,
           ctx' = [ctx EXCEPT ![t][Len(ctx[t])] = fr]
    PROVE  /\ ctx' \in [Threads -> Seq(Frame)]
           /\ \A u \in Threads \ {t} : ctx'[u] = ctx[u]
           /\ Len(ctx'[t]) = Len(ctx[t]) /\ ctx'[t][Len(ctx[t])] = fr
           /\ \A k \in 1 .. Len(ctx[t]) - 1 : ctx'[t][k] = ctx[t][k]
<1> DEFINE n == Len(ctx[t])
           s == [ctx[t] EXCEPT ![n] = fr]
<1>1. ctx[t] \in Seq(Frame) /\ n \in Nat /\ n \in 1 .. n
    BY CtxType
<1>2. /\ s \in Seq(Frame) /\ Len(s) = n /\ s[n] = fr
      /\ \A k \in 1 .. n - 1 : s[k] = ctx[t][k]
    BY <1>1, ExceptSeq
<1>3. ctx' = [ctx EXCEPT ![t] = s] /\ ctx \in [Threads -> Seq(Frame)]
    BY DEF HostTypes
<1> HIDE DEF s
<1>4. ctx'[t] = s /\ ctx' \in [Threads -> Seq(Frame)] /\ \A u \in Threads \ {t} : ctx'[u] = ctx[u]
    BY <1>2, <1>3
<1>5. QED  BY <1>2, <1>4

LEMMA LatchInv ==
    ASSUME BInv, NEW t \in Threads, NEW e \in Errors, Latch(t, e)
    PROVE  HostInv'
<1> DEFINE n == Len(ctx[t])
           top == Top(ctx[t])
           fr == [top EXCEPT !.latch = e, !.first = IF top.first = None THEN e ELSE top.first]
<1>1. /\ Inv /\ HostTypes /\ InStep(t) /\ Runnable(t) /\ InFit(t) /\ UNCHANGED <<capi, host, obj, abandoned>>
      /\ Gives(t, None) /\ Open(Top(ctx[t]))
    BY DEF BInv, HostInv, Latch
<1>2. host # "c" /\ n = Len(stack[t]) /\ ~ Returning(t) /\ n \in Nat /\ n \in 1 .. n
      /\ Top(ctx[t]) = ctx[t][n] /\ ctx[t][n] \in Frame /\ ctx[t][n].h = NULL
    BY <1>1, RunnableIsHost, CtxType
<1>3. ctx[t][n].latch = None /\ ctx[t][n].first = None
    BY <1>1, <1>2 DEF Open, InStep
<1>4. fr \in Frame /\ fr.h = NULL /\ fr.latch = e /\ fr.first = e
    BY <1>2, <1>3 DEF Frame
<1>5. ctx' = [ctx EXCEPT ![t][n] = fr]
    BY <1>2 DEF Latch
<1> HIDE DEF fr
<1>6. /\ ctx' \in [Threads -> Seq(Frame)]
      /\ \A u \in Threads \ {t} : ctx'[u] = ctx[u]
      /\ Len(ctx'[t]) = n /\ ctx'[t][n] = fr
      /\ \A k \in 1 .. n - 1 : ctx'[t][k] = ctx[t][k]
    BY <1>1, <1>2, <1>4, <1>5, TopWritten
<1>7. UNCHANGED <<stack, last, handles>>
    BY <1>1 DEF capi
<1> HIDE DEF n
<1>8. InStep(t)'
    <2>1. ASSUME NEW k \in 1 .. Len(ctx'[t]) PROVE ctx'[t][k].h = NULL /\ ctx'[t][k].latch = ctx'[t][k].first
        <3>1. CASE k = n
            BY <1>4, <1>6, <3>1
        <3>2. CASE k \in 1 .. n - 1
            <4>1. k \in 1 .. Len(ctx[t]) /\ k <= Len(stack[t])
                BY <1>2, <3>2 DEF n
            <4>2. QED  BY <1>1, <1>6, <3>2, <4>1 DEF InStep
        <3>3. QED  BY <1>2, <1>6, <3>1, <3>2
    <2>2. ~ Returning(t)'
        BY <1>2, <1>6, <1>7 DEF Returning
    <2>3. QED  BY <1>1, <1>2, <1>6, <1>7, <2>1, <2>2 DEF InStep
<1>9. Carried(t)' = Carried(t)
    BY <1>2, <1>6, <1>7 DEF Carried, Returning
<1>10. /\ \A u \in Threads : InStep(u)'
       /\ \A u \in Threads \ {t} : Carried(u)' = Carried(u)
    BY <1>1, <1>6, <1>7, <1>8, OthersInStep DEF BInv
<1>11. OneOwner'
    <2>1. Live(handles)' = Live(handles)
        BY <1>7 DEF Live
    <2>2. QED  BY <1>1, <1>9, <1>10, <2>1, OwnersKept DEF BInv, HostInv
<1>12. AnswersEvaluated' /\ seen' \in [Threads -> Shown]
    BY <1>1, <1>7, GivesOther, OtherShown DEF BInv
<1>13. QED  BY <1>1, <1>6, <1>10, <1>11, <1>12 DEF HostInv, HostTypes

\* A fit that fails returns without a handle.
LEMMA FitFailsInv ==
    ASSUME BInv, NEW t \in Threads, Runnable(t), FitThrows(t) \/ HandleAllocFails(t),
           UNCHANGED <<ctx, host, obj, abandoned>>, Gives(t, None)
    PROVE  HostInv'
<1> DEFINE n == Len(ctx[t])
<1>1. Inv /\ HostTypes /\ InStep(t)
    BY DEF BInv, HostInv
<1>2. /\ handles' = handles /\ InFit(t)
      /\ \A u \in Threads \ {t} : stack'[u] = stack[u] /\ last'[u] = last[u]
      /\ Len(stack'[t]) = Len(stack[t]) - 1
      /\ last'[t].res = "failed" => last'[t].why \in Reasons
    BY <1>1, FailTouches
<1>3. host # "c" /\ n = Len(stack[t]) /\ ~ Returning(t) /\ n \in Nat /\ Top(ctx[t]).h = NULL
    BY <1>1, <1>2, RunnableIsHost, CtxType
<1>4. InStep(t)'
    <2>1. ASSUME NEW k \in 1 .. Len(ctx'[t]) PROVE ctx'[t][k].h = NULL /\ ctx'[t][k].latch = ctx'[t][k].first
        BY <1>1, <1>3 DEF InStep
    <2>2. Len(ctx'[t]) - Len(stack'[t]) \in {0, 1}
        BY <1>2, <1>3
    <2>3. Top(ctx'[t]).h = NULL
        BY <1>3
    <2>4. QED  BY <1>2, <1>3, <2>1, <2>2, <2>3 DEF InStep
<1>5. Carried(t)' = Carried(t)
    BY <1>3 DEF Carried
<1>6. /\ \A u \in Threads : InStep(u)'
      /\ \A u \in Threads \ {t} : Carried(u)' = Carried(u)
    BY <1>2, <1>4, OthersInStep DEF BInv
<1>7. OneOwner'
    <2>1. Live(handles)' = Live(handles)
        BY <1>2 DEF Live
    <2>2. QED  BY <1>5, <1>6, <2>1, OwnersKept DEF BInv, HostInv
<1>8. AnswersEvaluated' /\ seen' \in [Threads -> Shown]
    BY <1>2, GivesOther, OtherShown DEF BInv
<1>9. QED  BY <1>1, <1>6, <1>7, <1>8 DEF HostInv, HostTypes

\* A fit that succeeds carries a handle nobody else has.
LEMMA FitBuildsHostInv ==
    ASSUME BInv, NEW t \in Threads, NEW i \in Ids, NEW h \in Ids, Runnable(t), FitBuilds(t, i, h),
           ctx' = [ctx EXCEPT ![t][Len(ctx[t])].h = h], UNCHANGED <<host, obj, abandoned>>, Gives(t, None)
    PROVE  HostInv'
<1> DEFINE n == Len(ctx[t])
           fr == [ctx[t][n] EXCEPT !.h = h]
<1>1. Inv /\ HostTypes /\ InStep(t)
    BY DEF BInv, HostInv
<1>2. /\ h \notin Live(handles) /\ Live(handles)' = Live(handles) \cup {h} /\ InFit(t)
      /\ \A u \in Threads \ {t} : stack'[u] = stack[u] /\ last'[u] = last[u]
      /\ Len(stack'[t]) = Len(stack[t]) - 1
      /\ last'[t].res = "fitted"
    BY <1>1, BuildTouches
<1>3. /\ host # "c" /\ n = Len(stack[t]) /\ ~ Returning(t) /\ n \in Nat /\ n \in 1 .. n
      /\ ctx[t][n] \in Frame
    BY <1>1, <1>2, RunnableIsHost, CtxType
<1>4. Len(stack'[t]) = n - 1
    BY <1>2, <1>3
<1>5. fr \in Frame /\ fr.h = h /\ fr.latch = fr.first
    <2>1. ctx[t][n].latch = ctx[t][n].first
        BY <1>1, <1>3 DEF InStep
    <2>2. QED  BY <1>3, <2>1 DEF Frame
<1>6. ctx' = [ctx EXCEPT ![t][n] = fr]
    BY <1>1 DEF HostTypes
<1> HIDE DEF fr
<1>7. /\ ctx' \in [Threads -> Seq(Frame)]
      /\ \A u \in Threads \ {t} : ctx'[u] = ctx[u]
      /\ Len(ctx'[t]) = n /\ ctx'[t][n] = fr
      /\ \A k \in 1 .. n - 1 : ctx'[t][k] = ctx[t][k]
    BY <1>1, <1>3, <1>5, <1>6, TopWritten
<1> HIDE DEF n
<1>8. InStep(t)'
    <2>1. ASSUME NEW k \in 1 .. Len(ctx'[t])
          PROVE  (k <= Len(stack'[t]) => ctx'[t][k].h = NULL) /\ ctx'[t][k].latch = ctx'[t][k].first
        <3>1. CASE k = n
            <4>1. ~ (k <= Len(stack'[t]))
                BY <1>3, <1>4, <3>1
            <4>2. ctx'[t][k] = fr
                BY <1>7, <3>1
            <4>3. QED  BY <1>5, <4>1, <4>2
        <3>2. CASE k \in 1 .. n - 1
            <4>1. k \in 1 .. Len(ctx[t]) /\ k <= Len(stack[t])
                BY <1>3, <3>2 DEF n
            <4>2. QED  BY <1>1, <1>7, <3>2, <4>1 DEF InStep
        <3>3. QED  BY <1>3, <1>7, <3>1, <3>2
    <2>2. Len(ctx'[t]) - Len(stack'[t]) \in {0, 1}
        BY <1>3, <1>4, <1>7
    <2>3. QED  BY <1>2, <1>3, <2>1, <2>2 DEF InStep
<1>9. Carried(t)' = {h} /\ Carried(t) = {}
    <2>1. Returning(t)'
        BY <1>3, <1>4, <1>7 DEF Returning
    <2>2. Top(ctx'[t]).h = h
        BY <1>5, <1>7 DEF Top
    <2>3. QED  BY <1>3, <2>1, <2>2, LiveIn DEF Carried
<1>10. /\ \A u \in Threads : InStep(u)'
       /\ \A u \in Threads \ {t} : Carried(u)' = Carried(u)
    BY <1>1, <1>2, <1>7, <1>8, OthersInStep DEF BInv
<1>11. OneOwner'
    <2>1. OneOwner /\ h \notin abandoned
        BY <1>2 DEF BInv, HostInv, OneOwner
    <2>2. Live(handles)' \ abandoned' = (Live(handles) \ abandoned) \cup {h}
        BY <1>2, <2>1
    <2>3. \A u \in Threads : h \notin Carried(u)
        BY <1>2, <2>1 DEF OneOwner
    <2>4. \A o \in Objects : obj[o] # h
        BY <1>2, <2>1 DEF OneOwner
    <2>5. \A u, v \in Threads : u # v => Carried(u)' \cap Carried(v)' = {}
        BY <1>9, <1>10, <2>1, <2>3 DEF OneOwner
    <2>6. \A o \in Objects, u \in Threads : obj'[o] \notin Carried(u)'
        BY <1>9, <1>10, <2>1, <2>4 DEF OneOwner
    <2>7. \A u \in Threads : Carried(u)' \subseteq Live(handles)' \ abandoned'
        BY <1>9, <1>10, <2>1, <2>2 DEF OneOwner
    <2>8. ASSUME NEW g \in Live(handles)' \ abandoned'
          PROVE  (\E o \in Objects : obj'[o] = g) \/ (\E u \in Threads : g \in Carried(u)')
        <3>1. CASE g = h
            BY <1>9, <3>1
        <3>2. CASE g # h
            <4>1. (\E o \in Objects : obj[o] = g) \/ (\E u \in Threads : g \in Carried(u))
                BY <1>3, <2>1, <2>2, <3>2 DEF OneOwner
            <4>2. QED  BY <1>9, <1>10, <4>1
        <3>3. QED  BY <3>1, <3>2
    <2>9. QED  BY <1>2, <1>3, <2>1, <2>2, <2>5, <2>6, <2>7, <2>8 DEF OneOwner
<1>12. AnswersEvaluated' /\ seen' \in [Threads -> Shown]
    BY <1>2, GivesOther, OtherShown DEF BInv
<1>13. QED  BY <1>1, <1>7, <1>10, <1>11, <1>12 DEF HostInv, HostTypes

LEMMA FitEndsInv ==
    ASSUME BInv, NEW t \in Threads, FitEnds(t)
    PROVE  HostInv'
<1>1. CASE (FitThrows(t) \/ HandleAllocFails(t)) /\ ctx' = ctx
    BY <1>1, FitFailsInv DEF FitEnds
<1>2. CASE \E i, h \in Ids : FitBuilds(t, i, h) /\ ctx' = [ctx EXCEPT ![t][Len(ctx[t])].h = h]
    BY <1>2, FitBuildsHostInv DEF FitEnds
<1>3. QED  BY <1>1, <1>2 DEF FitEnds

-----------------------------------------------------------------------------
(* The return of a fit                                                      *)

LEMMA ReturnFacts ==
    ASSUME BInv, NEW t \in Threads, Returning(t), Leave(t), UNCHANGED <<host, stack, last>>
    PROVE  /\ ctx' \in [Threads -> Seq(Frame)]
           /\ \A u \in Threads : InStep(u)'
           /\ Carried(t)' = {} /\ \A u \in Threads \ {t} : Carried(u)' = Carried(u)
<1>1. Inv /\ HostTypes /\ InStep(t) /\ HostInv
    BY DEF BInv, HostInv
<1>2. /\ host # "c" /\ Len(ctx[t]) = Len(stack[t]) + 1 /\ Len(stack[t]) \in Nat
    BY <1>1, ReturningIsHost, StackType
<1>3. /\ ctx' \in [Threads -> Seq(Frame)]
      /\ \A u \in Threads \ {t} : ctx'[u] = ctx[u]
      /\ Len(ctx'[t]) = Len(stack[t])
      /\ \A k \in 1 .. Len(stack[t]) : ctx'[t][k] = ctx[t][k]
    BY <1>1, LeaveFacts
<1>4. ~ Returning(t)'
    BY <1>2, <1>3 DEF Returning
<1>5. InStep(t)'
    <2>1. ASSUME NEW k \in 1 .. Len(ctx'[t]) PROVE ctx'[t][k].h = NULL /\ ctx'[t][k].latch = ctx'[t][k].first
        <3>1. k \in 1 .. Len(ctx[t]) /\ k <= Len(stack[t]) /\ ctx'[t][k] = ctx[t][k]
            BY <1>2, <1>3
        <3>2. QED  BY <1>1, <3>1 DEF InStep
    <2>2. Len(ctx'[t]) - Len(stack'[t]) \in {0, 1}
        BY <1>2, <1>3
    <2>3. QED  BY <1>1, <1>2, <1>4, <2>1, <2>2 DEF InStep
<1>6. QED  BY <1>1, <1>3, <1>4, <1>5, OthersInStep DEF Carried

\* The handle of a returning fit is freed or forgotten, or there is none.
LEMMA OwnerGone ==
    ASSUME OneOwner, NEW t \in Threads, host' = host, obj' = obj,
           Carried(t)' = {}, \A u \in Threads \ {t} : Carried(u)' = Carried(u),
           Live(handles)' \ abandoned' = (Live(handles) \ abandoned) \ Carried(t),
           abandoned' \subseteq Live(handles)', abandoned' # {} => host # "c"
    PROVE  OneOwner'
<1> DEFINE kept == Live(handles) \ abandoned
<1>1. ASSUME NEW o \in Objects, obj[o] \in Ids PROVE obj[o] \in kept \ Carried(t)
    BY <1>1 DEF OneOwner
<1>2. \A u \in Threads \ {t} : Carried(u) \subseteq kept \ Carried(t)
    BY DEF OneOwner
<1>3. ASSUME NEW g \in kept \ Carried(t), host # "c"
      PROVE  (\E o \in Objects : obj'[o] = g) \/ (\E u \in Threads : g \in Carried(u)')
    <2>1. (\E o \in Objects : obj[o] = g) \/ (\E u \in Threads : g \in Carried(u))
        BY <1>3 DEF OneOwner
    <2>2. QED  BY <1>3, <2>1
<1>4. \A u, v \in Threads : u # v => Carried(u)' \cap Carried(v)' = {}
    BY DEF OneOwner
<1>5. \A o \in Objects, u \in Threads : obj'[o] \notin Carried(u)'
    BY DEF OneOwner
<1>6. \A u \in Threads : Carried(u)' \subseteq Live(handles)' \ abandoned'
    BY <1>2
<1>7. \A o \in Objects : obj'[o] \in Ids => obj'[o] \in Live(handles)' \ abandoned'
    BY <1>1
<1>8. /\ \A o, p \in Objects : obj'[o] \in Ids /\ obj'[o] = obj'[p] => o = p
      /\ host' = "c" => \A o \in Objects : obj'[o] = None
    BY DEF OneOwner
<1>9. QED  BY <1>3, <1>4, <1>5, <1>6, <1>7, <1>8 DEF OneOwner

\* The latch of a returning fit is what its caller gets.
LEMMA TopShown ==
    ASSUME Inv, HostTypes, NEW t \in Threads, InStep(t), Returning(t)
    PROVE  Top(ctx[t]).latch \in Errors \cup {None} /\ Top(ctx[t]).h \in Ids \cup {NULL}
BY ReturningIsHost DEF Frame

\* The fit frees the handle before it raises, or its owner does on the way out.
LEMMA FreesOnReturnInv ==
    ASSUME BInv, NEW t \in Threads, RaiseAndFree(t) \/ Unwind(t) PROVE HostInv'
<1>1. /\ Inv /\ HostTypes /\ InStep(t) /\ OneOwner /\ HostInv /\ Returning(t) /\ Leave(t)
      /\ UNCHANGED <<host, obj, abandoned>>
    BY DEF BInv, HostInv, RaiseAndFree, Latched, Unwind, Unlatched
<1> DEFINE h == Top(ctx[t]).h
<1>2. Carried(t) = {h} \ {NULL}
    BY <1>1 DEF Carried
<1>3. UNCHANGED <<stack, last>> /\ Live(handles)' = Live(handles) \ Carried(t)
    <2>1. CASE h # NULL
        <3>1. Free(t, h)
            BY <2>1 DEF RaiseAndFree, Unwind
        <3>2. QED  BY <1>1, <1>2, <2>1, <3>1, FreeTouches
    <2>2. CASE h = NULL
        <3>1. UNCHANGED <<stack, last, handles>>
            BY <2>2 DEF RaiseAndFree, Unwind, capi
        <3>2. QED  BY <1>2, <2>2, <3>1 DEF Live
    <2>3. QED  BY <2>1, <2>2
<1>4. /\ ctx' \in [Threads -> Seq(Frame)]
      /\ \A u \in Threads : InStep(u)'
      /\ Carried(t)' = {} /\ \A u \in Threads \ {t} : Carried(u)' = Carried(u)
    BY <1>1, <1>3, ReturnFacts
<1>5. OneOwner'
    <2>1. Carried(t) \cap abandoned = {} /\ abandoned \subseteq Live(handles)
          /\ (abandoned # {} => host # "c")
        BY <1>1 DEF OneOwner
    <2>2. QED  BY <1>1, <1>3, <1>4, <2>1, OwnerGone
<1>6. \E x \in Shown \ {"value", "nan"} : Gives(t, x)
    BY <1>1, TopShown, OtherShown DEF RaiseAndFree, Unwind
<1>7. AnswersEvaluated' /\ seen' \in [Threads -> Shown]
    BY <1>1, <1>3, <1>6, GivesOther
<1>8. QED  BY <1>1, <1>4, <1>5, <1>7 DEF HostInv, HostTypes

\* The handle of a returning fit is forgotten, by the fit or for want of an owner.
LEMMA LosesOnReturnInv ==
    ASSUME BInv, NEW t \in Threads, RaiseAndAbandon(t) \/ WrapFails(t) PROVE HostInv'
<1>1. /\ Inv /\ HostTypes /\ InStep(t) /\ OneOwner /\ HostInv /\ Returning(t) /\ Leave(t)
      /\ UNCHANGED <<host, obj, stack, last, handles>>
      /\ abandoned' = abandoned \cup Carried(t)
    BY DEF BInv, HostInv, RaiseAndAbandon, Latched, WrapFails, Unlatched, capi, Carried
<1>2. host # "c"
    BY <1>1, ReturningIsHost
<1>3. /\ ctx' \in [Threads -> Seq(Frame)]
      /\ \A u \in Threads : InStep(u)'
      /\ Carried(t)' = {} /\ \A u \in Threads \ {t} : Carried(u)' = Carried(u)
    BY <1>1, ReturnFacts
<1>4. Live(handles)' = Live(handles)
    BY <1>1 DEF Live
<1>5. Carried(t) \subseteq Live(handles) /\ abandoned \subseteq Live(handles)
    BY <1>1 DEF OneOwner
<1>6. OneOwner'
    BY <1>1, <1>3, <1>4, <1>5, <1>2, OwnerGone
<1>7. \E x \in Shown \ {"value", "nan"} : Gives(t, x)
    BY <1>1, TopShown, OtherShown DEF RaiseAndAbandon, WrapFails
<1>8. AnswersEvaluated' /\ seen' \in [Threads -> Shown]
    BY <1>1, <1>7, GivesOther
<1>9. abandoned' \subseteq Ids
    BY <1>1, <1>5, LiveIn
<1>10. QED  BY <1>1, <1>3, <1>6, <1>8, <1>9 DEF HostInv, HostTypes

\* Without a handle: the reason of the failed fit, or the exception of C++.
LEMMA NoHandleInv ==
    ASSUME BInv, NEW t \in Threads, RaiseLastError(t) \/ PassThrough(t) PROVE HostInv'
<1>1. /\ Inv /\ HostTypes /\ InStep(t) /\ OneOwner /\ HostInv /\ Returning(t) /\ Leave(t)
      /\ UNCHANGED <<host, obj, stack, last, handles, abandoned>>
    BY DEF BInv, HostInv, RaiseLastError, PassThrough, Unlatched, capi
<1>2. Carried(t) = {}
    <2>1. Top(ctx[t]).h = NULL
        BY <1>1 DEF RaiseLastError, PassThrough, InStep
    <2>2. QED  BY <2>1 DEF Carried
<1>3. /\ ctx' \in [Threads -> Seq(Frame)]
      /\ \A u \in Threads : InStep(u)'
      /\ Carried(t)' = {} /\ \A u \in Threads \ {t} : Carried(u)' = Carried(u)
    BY <1>1, ReturnFacts
<1>4. OneOwner'
    <2>1. Live(handles)' = Live(handles)
        BY <1>1 DEF Live
    <2>2. QED  BY <1>1, <1>2, <1>3, <2>1, OwnersKept
<1>5. \E x \in Shown \ {"value", "nan"} : Gives(t, x)
    <2>1. CASE RaiseLastError(t)
        <3>1. (IF err[t] = "" THEN "fallback" ELSE err[t]) \in Reasons \cup {"fallback"}
            BY <1>1, TextRange DEF Inv
        <3>2. QED  BY <2>1, <3>1, OtherShown DEF RaiseLastError
    <2>2. CASE PassThrough(t)
        BY <2>2, OtherShown DEF PassThrough
    <2>3. QED  BY <2>1, <2>2
<1>6. AnswersEvaluated' /\ seen' \in [Threads -> Shown]
    BY <1>1, <1>5, GivesOther
<1>7. QED  BY <1>1, <1>3, <1>4, <1>6 DEF HostInv, HostTypes

\* An object takes the handle over from the returning fit.
LEMMA WrapInv ==
    ASSUME BInv, NEW t \in Threads, Wrap(t) PROVE HostInv'
<1> DEFINE h == Top(ctx[t]).h
<1>1. /\ Inv /\ HostTypes /\ InStep(t) /\ OneOwner /\ HostInv /\ Returning(t) /\ Leave(t)
      /\ UNCHANGED <<host, stack, last, handles, abandoned>> /\ Gives(t, "object") /\ h # NULL
    BY DEF BInv, HostInv, Wrap, Unlatched, capi
<1>2. PICK o \in Objects : obj[o] = None /\ obj' = [obj EXCEPT ![o] = h]
    BY DEF Wrap
<1>3. h \in Ids /\ Carried(t) = {h} /\ host # "c"
    BY <1>1, TopShown, ReturningIsHost DEF Carried
<1>4. /\ ctx' \in [Threads -> Seq(Frame)]
      /\ \A u \in Threads : InStep(u)'
      /\ Carried(t)' = {} /\ \A u \in Threads \ {t} : Carried(u)' = Carried(u)
    BY <1>1, ReturnFacts
<1> HIDE DEF h
<1>5. /\ obj' \in [Objects -> Ids \cup {NULL, None}] /\ obj'[o] = h
      /\ \A p \in Objects \ {o} : obj'[p] = obj[p]
    BY <1>1, <1>2, <1>3 DEF HostTypes
<1>6. Live(handles)' = Live(handles)
    BY <1>1 DEF Live
<1>7. OneOwner'
    <2>1. h \in Live(handles) \ abandoned /\ \A p \in Objects : obj[p] # h
        BY <1>1, <1>3 DEF OneOwner
    <2>2. \A u \in Threads \ {t} : h \notin Carried(u)
        BY <1>1, <1>3 DEF OneOwner
    <2>3. \A p \in Objects : obj'[p] \in Ids => obj'[p] \in Live(handles)' \ abandoned'
        BY <1>1, <1>5, <1>6, <2>1 DEF OneOwner
    <2>4. \A u \in Threads : Carried(u)' \subseteq Live(handles)' \ abandoned'
        BY <1>1, <1>4, <1>6 DEF OneOwner
    <2>5. ASSUME NEW p \in Objects, NEW r \in Objects, obj'[p] \in Ids, obj'[p] = obj'[r] PROVE p = r
        <3>1. (p = o \/ r = o) => p = r
            BY <1>5, <2>1, <2>5
        <3>2. p # o /\ r # o => p = r
            BY <1>1, <1>5, <2>5 DEF OneOwner
        <3>3. QED  BY <3>1, <3>2
    <2>6. \A u, v \in Threads : u # v => Carried(u)' \cap Carried(v)' = {}
        BY <1>1, <1>4 DEF OneOwner
    <2>7. \A p \in Objects, u \in Threads : obj'[p] \notin Carried(u)'
        BY <1>1, <1>4, <1>5, <2>2 DEF OneOwner
    <2>8. ASSUME NEW g \in Live(handles)' \ abandoned'
          PROVE  (\E p \in Objects : obj'[p] = g) \/ (\E u \in Threads : g \in Carried(u)')
        <3>1. CASE g = h
            BY <1>5, <3>1
        <3>2. CASE g # h
            <4>1. (\E p \in Objects : obj[p] = g) \/ (\E u \in Threads : g \in Carried(u))
                BY <1>1, <1>3, <1>6 DEF OneOwner
            <4>2. g # None
                BY <1>6, LiveIn
            <4>3. CASE \E p \in Objects : obj[p] = g
                BY <1>2, <1>5, <4>2, <4>3
            <4>4. CASE \E u \in Threads : g \in Carried(u)
                BY <1>3, <1>4, <3>2, <4>4
            <4>5. QED  BY <4>1, <4>3, <4>4
        <3>3. QED  BY <3>1, <3>2
    <2>9. QED  BY <1>1, <1>3, <1>6, <2>3, <2>4, <2>5, <2>6, <2>7, <2>8 DEF OneOwner
<1>8. AnswersEvaluated' /\ seen' \in [Threads -> Shown]
    BY <1>1, GivesOther, OtherShown
<1>9. QED  BY <1>1, <1>4, <1>5, <1>7, <1>8 DEF HostInv, HostTypes

-----------------------------------------------------------------------------
(* The steps of an object                                                   *)

\* A call that a binding makes on a live handle is one the interface serves.
LEMMA ObjectCallsServed ==
    ASSUME Inv, NEW h \in Live(handles)
    PROVE  ObjectCalls(h) \subseteq Calls /\ \A call \in ObjectCalls(h) : Served(call)
<1>1. handles[h] \in Tagged /\ h # NULL
    BY LiveIn DEF Inv, TableInv, Live
<1>2. ASSUME NEW call \in ObjectCalls(h) PROVE call \in Calls /\ Served(call)
    <2>1. call \in Checked(h) \X {handles[h].dt} \X {h}
        BY DEF ObjectCalls
    <2>2. call = <<call[1], handles[h].dt, h>> /\ call[1] \in Checked(h)
        BY <2>1
    <2>3. /\ call[1] \in Entries
          /\ call[1] = "sorted" => handles[h].in = 1
          /\ call[1] = "transposed" => handles[h].out > 1
        BY <2>2 DEF Checked
    <2>4. handles[h].dt \in DTypes
        BY <1>1 DEF Tagged
    <2>5. call \in Calls
        BY <2>2, <2>3, <2>4 DEF Calls
    <2>6. call[2] = handles[h].dt /\ call[3] = h
        BY <2>2
    <2>7. QED  BY <1>1, <2>3, <2>5, <2>6 DEF Served, Accepts
<1>3. QED  BY <1>2

LEMMA AnswerFacts ==
    ASSUME Inv, NEW t \in Threads, NEW calls, calls \subseteq Calls, EvalAnswers(t, calls)
    PROVE  EvalAnswers(t, Calls) /\ last'[t].res = "answered" /\ err'[t] = ""
<1>1. ASSUME NEW call \in Calls, Served(call) PROVE ThroughPointer(call) = "answered"
    <2>1. call[3] \in Live(handles) /\ handles[call[3]].dt = call[2]
        BY <1>1 DEF Calls, Served, Accepts
    <2>2. evals[handles[call[3]].impl].dt = call[2]
        BY <2>1 DEF Inv, TableInv, Ownership, Owns
    <2>3. QED  BY <2>2 DEF ThroughPointer
<1>2. last' = [last EXCEPT ![t] = Outcome("answered", "")] /\ err' = Buffer(t, "")
    BY <1>1 DEF EvalAnswers, Cleared
<1>3. last'[t] = Outcome("answered", "") /\ Outcome("answered", "").res = "answered"
    BY <1>2, SetOutcome, OutcomeFields
<1>4. last'[t].res = "answered"
    BY <1>3
<1>5. err'[t] = ""
    BY <1>2 DEF Inv, TextInv, Buffer
<1>6. \E call \in calls : Served(call)
    BY DEF EvalAnswers
<1>7. "answered" \in {ThroughPointer(call) : call \in {c \in Calls : Served(c)}}
    BY <1>1, <1>6
<1>8. EvalAnswers(t, Calls)
    BY <1>2, <1>7 DEF EvalAnswers, Cleared
<1>9. QED  BY <1>4, <1>5, <1>8

\* A step that moves neither stacks nor handles nor anything of a binding.
LEMMA QuietStep ==
    ASSUME HostInv, NEW t \in Threads, UNCHANGED <<host, ctx, obj, abandoned, stack, handles>>,
           \A u \in Threads \ {t} : last'[u] = last[u], ~ Returning(t),
           last'[t].res = "failed" => last'[t].why \in Reasons
    PROVE  (\A u \in Threads : InStep(u)') /\ OneOwner'
<1>1. ~ Returning(t)' /\ Carried(t)' = Carried(t)
    BY DEF Returning, Carried
<1>2. InStep(t)'
    BY <1>1 DEF HostInv, InStep
<1>3. Live(handles)' = Live(handles)
    BY DEF Live
<1>4. /\ \A u \in Threads : InStep(u)'
      /\ \A u \in Threads \ {t} : Carried(u)' = Carried(u)
    BY <1>2, OthersInStep
<1>5. QED  BY <1>1, <1>3, <1>4, OwnersKept DEF HostInv

LEMMA EvaluateInv ==
    ASSUME BInv, NEW t \in Threads, NEW o \in Objects, Evaluate(t, o) PROVE HostInv'
<1> DEFINE calls == ObjectCalls(obj[o])
<1>1. /\ Inv /\ HostTypes /\ InStep(t) /\ OneOwner /\ HostInv
      /\ UNCHANGED <<host, ctx, obj, abandoned>> /\ Runnable(t) /\ obj[o] \in Ids
    BY DEF BInv, HostInv, Evaluate
<1>2. obj[o] \in Live(handles)
    BY <1>1 DEF OneOwner
<1>3. calls \subseteq Calls /\ \A call \in calls : Served(call)
    BY <1>1, <1>2, ObjectCallsServed
<1> HIDE DEF calls
<1>4. ~ EvalRefused(t, calls)
    BY <1>3 DEF EvalRefused
<1>5. \/ EvalAnswers(t, calls) /\ Gives(t, "value")
      \/ EvalThrows(t, calls) /\ Gives(t, "threw")
    <2>1. \/ (EvalRefused(t, calls) \/ EvalAnswers(t, calls)) /\ Gives(t, "value")
          \/ EvalThrows(t, calls) /\ Gives(t, "threw")
        BY DEF Evaluate, calls
    <2>2. QED  BY <1>4, <2>1
<1>6. /\ UNCHANGED <<stack, handles>>
      /\ \A u \in Threads \ {t} : last'[u] = last[u]
      /\ last'[t].res = "failed" => last'[t].why \in Reasons
    BY <1>1, <1>5, EvalTouches
<1>7. (\A u \in Threads : InStep(u)') /\ OneOwner'
    BY <1>1, <1>6, QuietStep DEF Runnable
<1>8. AnswersEvaluated' /\ seen' \in [Threads -> Shown]
    <2>1. CASE EvalAnswers(t, calls) /\ Gives(t, "value")
        <3>1. last'[t].res = "answered"
            BY <1>1, <1>3, <2>1, AnswerFacts
        <3>2. "value" \in Shown /\ "value" # "nan"
            BY DEF Shown
        <3>3. host' = host /\ Gives(t, "value") /\ HostInv
            BY <1>1, <2>1
        <3>4. QED  BY <1>6, <3>1, <3>2, <3>3, GivesFacts
    <2>2. CASE EvalThrows(t, calls) /\ Gives(t, "threw")
        BY <1>1, <1>6, <2>2, GivesOther, OtherShown
    <2>3. QED  BY <1>5, <2>1, <2>2
<1>9. QED  BY <1>1, <1>7, <1>8 DEF HostInv, HostTypes

LEMMA EvalFreedInv ==
    ASSUME BInv, NEW t \in Threads, NEW o \in Objects, JsEvalFreed(t, o) PROVE HostInv'
<1>1. /\ Inv /\ HostTypes /\ HostInv /\ UNCHANGED <<host, ctx, obj, abandoned>> /\ Runnable(t)
      /\ EvalRefused(t, {<<"eval", dt, NULL>> : dt \in DTypes}) /\ Gives(t, "unwritten")
    BY DEF BInv, HostInv, JsEvalFreed
<1>2. /\ UNCHANGED <<stack, handles>>
      /\ \A u \in Threads \ {t} : last'[u] = last[u]
      /\ last'[t].res = "failed" => last'[t].why \in Reasons
    BY <1>1, EvalTouches
<1>3. (\A u \in Threads : InStep(u)') /\ OneOwner'
    BY <1>1, <1>2, QuietStep DEF Runnable
<1>4. AnswersEvaluated' /\ seen' \in [Threads -> Shown]
    BY <1>1, <1>2, GivesOther, OtherShown
<1>5. QED  BY <1>1, <1>3, <1>4 DEF HostInv, HostTypes

\* An object gives up its handle, and the handle is freed or forgotten.
LEMMA ObjectDropped ==
    ASSUME HostInv, NEW o \in Objects, NEW v \in {NULL, None}, host # "c",
           obj' = [obj EXCEPT ![o] = v], UNCHANGED <<host, ctx, stack, last>>,
           Live(handles)' \ abandoned' = (Live(handles) \ abandoned) \ {obj[o]},
           abandoned' \subseteq Live(handles)'
    PROVE  /\ obj' \in [Objects -> Ids \cup {NULL, None}]
           /\ \A u \in Threads : InStep(u)'
           /\ OneOwner'
<1>1. /\ obj' \in [Objects -> Ids \cup {NULL, None}] /\ obj'[o] \notin Ids /\ obj'[o] = v
      /\ \A p \in Objects \ {o} : obj'[p] = obj[p]
    BY LiveIn DEF HostInv, HostTypes
<1>2. OneOwner
    BY DEF HostInv
<1>3. \A u \in Threads : InStep(u)' /\ Carried(u)' = Carried(u)
    BY Untouched DEF HostInv
<1>4. ASSUME NEW p \in Objects, obj'[p] \in Ids PROVE obj'[p] \in Live(handles)' \ abandoned'
    <2>1. p # o /\ obj'[p] = obj[p]
        BY <1>1, <1>4
    <2>2. obj[p] # obj[o] /\ obj[p] \in Live(handles) \ abandoned
        BY <1>2, <1>4, <2>1 DEF OneOwner
    <2>3. QED  BY <2>1, <2>2
<1>5. ASSUME NEW u \in Threads PROVE Carried(u)' \subseteq Live(handles)' \ abandoned'
    <2>1. Carried(u) \subseteq Live(handles) \ abandoned /\ obj[o] \notin Carried(u)
        BY <1>2 DEF OneOwner
    <2>2. QED  BY <1>3, <2>1
<1>6. \A p, r \in Objects : obj'[p] \in Ids /\ obj'[p] = obj'[r] => p = r
    BY <1>1, <1>2 DEF OneOwner
<1>7. \A u, w \in Threads : u # w => Carried(u)' \cap Carried(w)' = {}
    BY <1>2, <1>3 DEF OneOwner
<1>8. ASSUME NEW p \in Objects, NEW u \in Threads PROVE obj'[p] \notin Carried(u)'
    <2>1. CASE p = o
        BY <1>1, <1>5, <2>1, LiveIn
    <2>2. CASE p # o
        BY <1>1, <1>2, <1>3, <2>2 DEF OneOwner
    <2>3. QED  BY <2>1, <2>2
<1>9. ASSUME NEW g \in Live(handles)' \ abandoned'
       PROVE  (\E p \in Objects : obj'[p] = g) \/ (\E u \in Threads : g \in Carried(u)')
    <2>1. g \in Live(handles) \ abandoned /\ g # obj[o]
        OBVIOUS
    <2>2. (\E p \in Objects : obj[p] = g) \/ (\E u \in Threads : g \in Carried(u))
        BY <1>2, <2>1 DEF OneOwner
    <2>3. CASE \E p \in Objects : obj[p] = g
        BY <1>1, <2>1, <2>3
    <2>4. CASE \E u \in Threads : g \in Carried(u)
        BY <1>3, <2>4
    <2>5. QED  BY <2>2, <2>3, <2>4
<1>10. abandoned' # {} => host' # "c"
    OBVIOUS
<1>11. OneOwner'
    BY <1>4, <1>5, <1>6, <1>7, <1>8, <1>9, <1>10 DEF OneOwner
<1>12. QED  BY <1>1, <1>3, <1>11

\* A handle that an object has is not one that is forgotten.
LEMMA FreedIsKept ==
    ASSUME HostInv, NEW o \in Objects, Live(handles)' = Live(handles) \ {obj[o]}, abandoned' = abandoned
    PROVE  /\ Live(handles)' \ abandoned' = (Live(handles) \ abandoned) \ {obj[o]}
           /\ abandoned' \subseteq Live(handles)'
<1>1. OneOwner /\ abandoned \subseteq Live(handles)
    BY DEF HostInv, OneOwner
<1>2. obj[o] \notin abandoned
    <2>1. CASE obj[o] \in Ids
        BY <1>1, <2>1 DEF OneOwner
    <2>2. CASE obj[o] \notin Ids
        BY <1>1, <2>2, LiveIn
    <2>3. QED  BY <2>1, <2>2
<1>3. QED  BY <1>1, <1>2

LEMMA JsFreeInv ==
    ASSUME BInv, NEW t \in Threads, NEW o \in Objects, JsFree(t, o) PROVE HostInv'
<1>1. /\ Inv /\ HostTypes /\ HostInv /\ UNCHANGED <<host, ctx, abandoned>> /\ host # "c"
      /\ obj' = [obj EXCEPT ![o] = NULL] /\ Free(t, obj[o]) /\ Gives(t, None)
    BY DEF BInv, HostInv, JsFree, Runnable, Release
<1>2. UNCHANGED <<stack, last>> /\ Live(handles)' = Live(handles) \ {obj[o]}
    BY <1>1, FreeTouches
<1>3. /\ obj' \in [Objects -> Ids \cup {NULL, None}]
      /\ \A u \in Threads : InStep(u)'
      /\ OneOwner'
    BY <1>1, <1>2, FreedIsKept, ObjectDropped
<1>4. AnswersEvaluated' /\ seen' \in [Threads -> Shown]
    BY <1>1, <1>2, GivesOther, OtherShown
<1>5. QED  BY <1>1, <1>3, <1>4 DEF HostInv, HostTypes

LEMMA CollectInv ==
    ASSUME BInv, NEW t \in Threads, NEW o \in Objects, Collect(t, o) PROVE HostInv'
<1>1. /\ Inv /\ HostTypes /\ HostInv /\ UNCHANGED <<host, ctx, abandoned, seen>> /\ host # "c"
      /\ obj' = [obj EXCEPT ![o] = None]
    BY DEF BInv, HostInv, Collect
<1>2. UNCHANGED <<stack, last>> /\ Live(handles)' = Live(handles) \ {obj[o]}
    <2>1. CASE obj[o] \in Ids
        BY <1>1, <2>1, FreeTouches DEF Collect
    <2>2. CASE obj[o] \notin Ids
        <3>1. UNCHANGED <<stack, last, handles>>
            BY <2>2 DEF Collect, capi
        <3>2. QED  BY <2>2, <3>1, LiveIn DEF Live
    <2>3. QED  BY <2>1, <2>2
<1>3. /\ obj' \in [Objects -> Ids \cup {NULL, None}]
      /\ \A u \in Threads : InStep(u)'
      /\ OneOwner'
    BY <1>1, <1>2, FreedIsKept, ObjectDropped
<1>4. AnswersEvaluated'
    BY <1>1, <1>2 DEF HostInv, AnswersEvaluated
<1>5. QED  BY <1>1, <1>3, <1>4 DEF HostInv, HostTypes

LEMMA DropInv ==
    ASSUME BInv, NEW o \in Objects, Drop(o) PROVE HostInv'
<1>1. /\ HostTypes /\ HostInv /\ OneOwner /\ UNCHANGED <<host, ctx, stack, last, handles, seen>> /\ host # "c"
      /\ obj' = [obj EXCEPT ![o] = None] /\ abandoned' = abandoned \cup ({obj[o]} \ {NULL})
    BY DEF BInv, HostInv, Drop, capi
<1>2. obj[o] \in Ids \cup {NULL} /\ NULL \notin Ids
    BY <1>1, LiveIn DEF Drop, HostTypes
<1>3. Live(handles)' = Live(handles) /\ (obj[o] \in Ids => obj[o] \in Live(handles))
    BY <1>1 DEF Live, OneOwner
<1>4. abandoned \subseteq Live(handles) /\ NULL \notin Live(handles)
    BY <1>1, LiveIn DEF OneOwner
<1>5. /\ Live(handles)' \ abandoned' = (Live(handles) \ abandoned) \ {obj[o]}
      /\ abandoned' \subseteq Live(handles)'
    BY <1>1, <1>2, <1>3, <1>4
<1>6. /\ obj' \in [Objects -> Ids \cup {NULL, None}]
      /\ \A u \in Threads : InStep(u)'
      /\ OneOwner'
    BY <1>1, <1>5, ObjectDropped
<1>7. abandoned' \subseteq Ids
    BY <1>3, <1>5, LiveIn
<1>8. AnswersEvaluated'
    BY <1>1 DEF HostInv, AnswersEvaluated
<1>9. QED  BY <1>1, <1>6, <1>7, <1>8 DEF HostInv, HostTypes

-----------------------------------------------------------------------------
(* C and Fortran programs                                                   *)

\* A C or Fortran program keeps its handles outside the bindings.
LEMMA ProgramQuiet ==
    ASSUME BInv, Inv', host = "c", UNCHANGED <<host, ctx, obj, abandoned>>, NEW t \in Threads,
           \A u \in Threads \ {t} : last'[u] = last[u],
           last'[t].res = "failed" => last'[t].why \in Reasons
    PROVE  (\A u \in Threads : InStep(u)') /\ OneOwner'
<1>1. HostInv /\ HostTypes
    BY DEF BInv, HostInv
<1>2. \A u \in Threads : ctx[u] = <<>> /\ ctx'[u] = <<>>
    BY <1>1 DEF HostInv, InStep
<1>3. \A u \in Threads : Len(stack[u]) \in Nat /\ Len(stack'[u]) \in Nat
    BY LenProperties DEF BInv, Inv, StackInv
<1>4. \A u \in Threads : ~ Returning(u) /\ ~ Returning(u)'
    BY <1>2, <1>3, EmptySeq DEF Returning
<1>5. ASSUME NEW u \in Threads PROVE InStep(u)'
    <2>1. last'[u].res = "failed" => last'[u].why \in Reasons
        BY <1>1 DEF HostInv, InStep
    <2>2. Len(ctx'[u]) = 0
        BY <1>2, EmptySeq
    <2>3. QED  BY <1>2, <1>4, <2>1, <2>2 DEF InStep
<1>6. \A u \in Threads : Carried(u)' = {}
    BY <1>4 DEF Carried
<1>7. \A o \in Objects : obj'[o] = None
    BY <1>1 DEF HostInv, OneOwner
<1>8. abandoned' = {}
    BY <1>1 DEF HostInv, OneOwner
<1>9. OneOwner'
    <2>1. \A o, p \in Objects : obj'[o] \in Ids /\ obj'[o] = obj'[p] => o = p
        BY <1>7, LiveIn
    <2>2. QED  BY <1>6, <1>7, <1>8, <2>1, LiveIn DEF OneOwner
<1>10. QED  BY <1>5, <1>9

LEMMA CProgramInv ==
    ASSUME BInv, Inv', NEW t \in Threads, CProgram(t) PROVE HostInv'
<1>1. /\ Inv /\ HostInv /\ HostTypes /\ InStep(t) /\ host = "c" /\ UNCHANGED <<host, ctx, obj, abandoned>>
      /\ CApiStep(t) /\ Gives(t, None)
    BY DEF BInv, HostInv, CProgram
<1>2. /\ \A u \in Threads \ {t} : last'[u] = last[u]
      /\ last'[t].res = "failed" => last'[t].why \in Reasons
    <2>1. CASE FitRefused(t, BOOLEAN \X Shapes)
        BY <1>1, <2>1, RefusedTouches
    <2>2. CASE \E dt \in DTypes, shape \in Shapes : FitStart(t, dt, shape)
        BY <1>1, <2>2, StartTouches
    <2>3. CASE FitThrows(t) \/ HandleAllocFails(t)
        BY <1>1, <2>3, FailTouches
    <2>4. CASE \E i, h \in Ids : FitBuilds(t, i, h)
        BY <1>1, <2>4, BuildTouches
    <2>5. CASE EvalRefused(t, Calls) \/ EvalAnswers(t, Calls) \/ EvalThrows(t, Calls) \/ EvalND(t) \/ QueryNull(t)
        BY <1>1, <2>5, EvalTouches
    <2>6. CASE \E h \in Live(handles) : Free(t, h)
        BY <1>1, <2>6 DEF Free, InStep
    <2>7. QED  BY <1>1, <2>1, <2>2, <2>3, <2>4, <2>5, <2>6 DEF CApiStep
<1>3. (\A u \in Threads : InStep(u)') /\ OneOwner'
    BY <1>1, <1>2, ProgramQuiet
<1>4. AnswersEvaluated' /\ seen' \in [Threads -> Shown]
    BY <1>1, <1>2, GivesOther, OtherShown
<1>5. QED  BY <1>1, <1>3, <1>4 DEF HostInv, HostTypes

LEMMA FortranRejectsInv ==
    ASSUME BInv, Inv', NEW t \in Threads, FortranRejects(t) PROVE HostInv'
<1>1. /\ Inv /\ HostInv /\ HostTypes /\ InStep(t) /\ host = "c" /\ UNCHANGED <<host, ctx, obj, abandoned>>
      /\ QueryNull(t) \/ UNCHANGED capi
      /\ Gives(t, None)
    BY DEF BInv, HostInv, FortranRejects
<1>2. /\ \A u \in Threads \ {t} : last'[u] = last[u]
      /\ last'[t].res = "failed" => last'[t].why \in Reasons
    <2>1. CASE QueryNull(t)
        BY <1>1, <2>1, EvalTouches
    <2>2. CASE UNCHANGED capi
        BY <1>1, <2>2 DEF capi, InStep
    <2>3. QED  BY <1>1, <2>1, <2>2
<1>3. (\A u \in Threads : InStep(u)') /\ OneOwner'
    BY <1>1, <1>2, ProgramQuiet
<1>4. AnswersEvaluated' /\ seen' \in [Threads -> Shown]
    BY <1>1, <1>2, GivesOther, OtherShown
<1>5. QED  BY <1>1, <1>3, <1>4 DEF HostInv, HostTypes

LEMMA FortranCallsAre == FortranCalls \subseteq Calls
BY DEF FortranCalls, Calls, Entries

\* Fortran tells a refusal from a value by the text; a refusal whose text could
\* not be stored passes for a value.
LEMMA FortranEvalInv ==
    ASSUME BInv, Inv', NEW t \in Threads, FortranEval(t) PROVE HostInv'
<1>1. /\ Inv /\ HostInv /\ HostTypes /\ host = "c" /\ UNCHANGED <<host, ctx, obj, abandoned>>
    BY DEF BInv, HostInv, FortranEval
<1>2. CASE /\ EvalRefused(t, FortranCalls) \/ EvalAnswers(t, FortranCalls)
           /\ Gives(t, IF err'[t] = "" THEN "value" ELSE "nan")
    <2> DEFINE x == IF err'[t] = "" THEN "value" ELSE "nan"
    <2>1. /\ \A u \in Threads \ {t} : last'[u] = last[u]
          /\ last'[t].res = "failed" => last'[t].why \in Reasons
        BY <1>1, <1>2, EvalTouches
    <2>0. "value" \in Shown /\ "nan" \in Shown /\ "value" # "nan"
        BY DEF Shown
    <2> HIDE DEF x
    <2>2. ASSUME EvalRefused(t, FortranCalls)
          PROVE  AnswersEvaluated' /\ seen' \in [Threads -> Shown]
        <3>1. SetLastError(t, "", "refused")
            BY <2>2 DEF EvalRefused, Cleared
        <3>2. /\ last'[t].res \in {"failed", "unstored"}
              /\ last'[t].res = "failed" => err'[t] = "refused"
              /\ last'[t].res = "unstored" => err'[t] = ""
            BY <1>1, <3>1, FailedOutcome, ReasonsAre
        <3>3. CASE last'[t].res = "failed"
            <4>1. err'[t] # ""
                BY <3>2, <3>3
            <4>2. x = "nan"
                BY <4>1 DEF x
            <4>3. Gives(t, "nan")
                BY <1>2, <4>2 DEF x
            <4>4. QED  BY <1>1, <2>1, <2>0, <3>3, <4>3, GivesFacts
        <3>4. CASE last'[t].res = "unstored"
            <4>1. x = "value"
                BY <3>2, <3>4 DEF x
            <4>2. Gives(t, "value")
                BY <1>2, <4>1 DEF x
            <4>3. QED  BY <1>1, <2>1, <2>0, <3>4, <4>2, GivesFacts
        <3>5. QED  BY <3>2, <3>3, <3>4
    <2>3. ASSUME EvalAnswers(t, FortranCalls)
          PROVE  AnswersEvaluated' /\ seen' \in [Threads -> Shown]
        <3>1. last'[t].res = "answered" /\ err'[t] = ""
            BY <1>1, <2>3, AnswerFacts, FortranCallsAre
        <3>2. x = "value"
            BY <3>1 DEF x
        <3>3. Gives(t, "value")
            BY <1>2, <3>2 DEF x
        <3>4. QED  BY <1>1, <2>1, <2>0, <3>1, <3>3, GivesFacts
    <2>4. AnswersEvaluated' /\ seen' \in [Threads -> Shown]
        BY <1>2, <2>2, <2>3
    <2>5. (\A u \in Threads : InStep(u)') /\ OneOwner'
        BY <1>1, <2>1, ProgramQuiet
    <2>6. QED  BY <1>1, <2>4, <2>5 DEF HostInv, HostTypes
<1>3. CASE EvalThrows(t, FortranCalls) /\ Gives(t, "threw")
    <2>1. /\ \A u \in Threads \ {t} : last'[u] = last[u]
          /\ last'[t].res = "failed" => last'[t].why \in Reasons
        BY <1>1, <1>3, EvalTouches
    <2>2. AnswersEvaluated' /\ seen' \in [Threads -> Shown]
        BY <1>1, <1>3, <2>1, GivesOther, OtherShown
    <2>3. (\A u \in Threads : InStep(u)') /\ OneOwner'
        BY <1>1, <2>1, ProgramQuiet
    <2>4. QED  BY <1>1, <2>2, <2>3 DEF HostInv, HostTypes
<1>4. QED  BY <1>2, <1>3 DEF FortranEval

-----------------------------------------------------------------------------
(* Every step                                                               *)

\* The steps of Next, by what they do instead of by language.
HostStep(t) ==
    \/ \E dt \in DTypes, shape \in Shapes, allow \in BOOLEAN : Enter(t, dt, shape, allow)
    \/ \E e \in Errors : Latch(t, e)
    \/ FitEnds(t)
    \/ RaiseAndFree(t) \/ Unwind(t)
    \/ RaiseAndAbandon(t) \/ WrapFails(t)
    \/ RaiseLastError(t) \/ PassThrough(t)
    \/ Wrap(t)
    \/ \E o \in Objects : Evaluate(t, o) \/ JsEvalFreed(t, o) \/ JsFree(t, o) \/ Collect(t, o) \/ Drop(o)
    \/ CProgram(t) \/ FortranRejects(t) \/ FortranEval(t)

LEMMA NextIsHostStep == Next => \E t \in Threads : HostStep(t)
BY DEF Next, HostStep, PythonFit, JsFit, JuliaFit, MatlabFit, PythonTrampoline, NapiTrampoline,
       WasmTrampoline, JuliaTrampoline, MatlabTrampoline, PythonRaise, NapiRaise, MatlabRaise,
       WasmRaise, JuliaRaise, PythonEval, JsEval, JuliaEval, MatlabEval

\* A binding calls the interface the way any caller may, on handles that live.
LEMMA StepIsCall ==
    ASSUME BInv, NEW t \in Threads, HostStep(t)
    PROVE  CApiStep(t) \/ UNCHANGED capi
<1>1. Inv /\ HostTypes /\ InStep(t) /\ OneOwner
    BY DEF BInv, HostInv
<1>2. ASSUME NEW dt \in DTypes, NEW shape \in Shapes, NEW allow \in BOOLEAN, Enter(t, dt, shape, allow)
      PROVE  CApiStep(t)
    <2>1. CASE FitStart(t, dt, shape)
        BY <2>1 DEF CApiStep
    <2>2. CASE FitRefused(t, {<<FALSE, shape>>})
        <3>1. \A b \in BOOLEAN : <<b, shape>> \in BOOLEAN \X Shapes
            OBVIOUS
        <3>2. FitRefused(t, BOOLEAN \X Shapes)
            BY <2>2, <3>1 DEF FitRefused
        <3>3. QED  BY <3>2 DEF CApiStep
    <2>3. QED  BY <1>2, <2>1, <2>2 DEF Enter
<1>3. ASSUME NEW e \in Errors, Latch(t, e) PROVE UNCHANGED capi
    BY <1>3 DEF Latch
<1>4. CASE FitEnds(t)
    BY <1>4 DEF FitEnds, CApiStep
<1>5. CASE RaiseAndFree(t) \/ Unwind(t)
    <2>1. CASE Top(ctx[t]).h # NULL
        BY <1>5, <2>1 DEF RaiseAndFree, Unwind, CApiStep, Free
    <2>2. CASE Top(ctx[t]).h = NULL
        BY <1>5, <2>2 DEF RaiseAndFree, Unwind
    <2>3. QED  BY <2>1, <2>2
<1>6. CASE RaiseAndAbandon(t) \/ WrapFails(t) \/ RaiseLastError(t) \/ PassThrough(t) \/ Wrap(t)
    BY <1>6 DEF RaiseAndAbandon, WrapFails, RaiseLastError, PassThrough, Wrap
<1>7. ASSUME NEW o \in Objects, Evaluate(t, o) PROVE CApiStep(t)
    <2> DEFINE calls == ObjectCalls(obj[o])
    <2>1. obj[o] \in Live(handles)
        BY <1>1, <1>7 DEF OneOwner, Evaluate
    <2>2. calls \subseteq Calls
        BY <1>1, <2>1, ObjectCallsServed
    <2>3. EvalRefused(t, calls) \/ EvalAnswers(t, calls) \/ EvalThrows(t, calls)
        BY <1>7 DEF Evaluate
    <2> HIDE DEF calls
    <2>4. EvalRefused(t, calls) => EvalRefused(t, Calls)
        BY <2>2 DEF EvalRefused
    <2>5. EvalAnswers(t, calls) => EvalAnswers(t, Calls)
        BY <1>1, <2>2, AnswerFacts
    <2>6. EvalThrows(t, calls) => EvalThrows(t, Calls)
        BY <2>2 DEF EvalThrows
    <2>7. QED  BY <2>3, <2>4, <2>5, <2>6 DEF CApiStep
<1>8. ASSUME NEW o \in Objects, JsEvalFreed(t, o) PROVE CApiStep(t)
    <2>1. {<<"eval", dt, NULL>> : dt \in DTypes} \subseteq Calls
        BY DEF Calls, Entries
    <2>2. EvalRefused(t, {<<"eval", dt, NULL>> : dt \in DTypes})
        BY <1>8 DEF JsEvalFreed
    <2>3. EvalRefused(t, Calls)
        BY <2>1, <2>2 DEF EvalRefused
    <2>4. QED  BY <2>3 DEF CApiStep
<1>9. ASSUME NEW o \in Objects, JsFree(t, o) \/ Collect(t, o) \/ Drop(o) PROVE CApiStep(t) \/ UNCHANGED capi
    BY <1>9 DEF JsFree, Collect, Drop, CApiStep, Free
<1>10. CASE CProgram(t) \/ FortranRejects(t)
    BY <1>10 DEF CProgram, FortranRejects, CApiStep
<1>11. CASE FortranEval(t)
    <2>1. EvalRefused(t, FortranCalls) => EvalRefused(t, Calls)
        BY FortranCallsAre DEF EvalRefused
    <2>2. EvalAnswers(t, FortranCalls) => EvalAnswers(t, Calls)
        BY <1>1, FortranCallsAre, AnswerFacts
    <2>3. EvalThrows(t, FortranCalls) => EvalThrows(t, Calls)
        BY FortranCallsAre DEF EvalThrows
    <2>4. QED  BY <1>11, <2>1, <2>2, <2>3 DEF FortranEval, CApiStep
<1>12. QED
    BY <1>2, <1>3, <1>4, <1>5, <1>6, <1>7, <1>8, <1>9, <1>10, <1>11 DEF HostStep

LEMMA InitBInv == Init => BInv
<1> SUFFICES ASSUME Init PROVE BInv
    OBVIOUS
<1>1. Inv
    BY InitInv DEF Init
<1>2. Live(handles) = {}
    BY DEF Init, CApiInit, Live
<1>3. \A t \in Threads : ctx[t] = <<>> /\ stack[t] = <<>> /\ Len(<<>>) = 0
    BY EmptySeq DEF Init, CApiInit
<1>4. HostTypes
    BY EmptySeq DEF Init, HostTypes, Shown
<1>5. ASSUME NEW t \in Threads PROVE ~ Returning(t) /\ InStep(t) /\ last[t].res = "none"
    <2>1. last[t] = Outcome("none", "") /\ Outcome("none", "").res = "none"
        BY OutcomeFields DEF Init, CApiInit
    <2>2. last[t].res = "none"
        BY <2>1
    <2>3. QED  BY <1>3, <2>2 DEF InStep, Returning
<1>6. OneOwner
    <2>1. \A t \in Threads : Carried(t) = {}
        BY <1>5 DEF Carried
    <2>2. \A o \in Objects : obj[o] = None
        BY DEF Init
    <2>3. abandoned = {}
        BY DEF Init
    <2>4. QED  BY <1>2, <2>1, <2>2, <2>3, LiveIn DEF OneOwner
<1>7. AnswersEvaluated
    <2>1. \A t \in Threads : seen[t] = None
        BY DEF Init
    <2>2. None # "value" /\ None # "nan"
        BY HostValuesAssumption
    <2>3. QED  BY <2>1, <2>2 DEF AnswersEvaluated
<1>8. QED  BY <1>1, <1>4, <1>5, <1>6, <1>7 DEF BInv, HostInv

LEMMA NextBInv == BInv /\ [Next]_vars => BInv'
<1> SUFFICES ASSUME BInv, [Next]_vars PROVE BInv'
    OBVIOUS
<1>1. CASE Next
    <2>1. PICK t \in Threads : HostStep(t)
        BY <1>1, NextIsHostStep
    <2>2. Inv'
        <3>1. [CApiNext]_capi
            BY <2>1, StepIsCall DEF CApiNext
        <3>2. QED  BY <3>1, NextInv DEF BInv
    <2>3. HostInv'
        BY <2>1, <2>2, EnterInv, LatchInv, FitEndsInv, FreesOnReturnInv, LosesOnReturnInv, NoHandleInv,
           WrapInv, EvaluateInv, EvalFreedInv, JsFreeInv, CollectInv, DropInv, CProgramInv, FortranRejectsInv,
           FortranEvalInv DEF HostStep
    <2>4. QED  BY <2>2, <2>3 DEF BInv
<1>2. CASE UNCHANGED vars
    <2>1. UNCHANGED capi /\ UNCHANGED binding /\ UNCHANGED <<handles, stack, last>>
        BY <1>2 DEF vars, capi
    <2>2. Inv'
        BY <2>1, NextInv DEF BInv
    <2>3. \A t \in Threads : InStep(t)' /\ Carried(t)' = Carried(t)
        BY <2>1, Untouched DEF BInv, HostInv, binding
    <2>4. OneOwner'
        <3>1. Live(handles)' = Live(handles)
            BY <2>1 DEF Live
        <3>2. QED  BY <2>1, <2>3, <3>1, OwnersKept DEF BInv, HostInv, binding
    <2>5. HostTypes' /\ AnswersEvaluated'
        BY <2>1 DEF BInv, HostInv, HostTypes, AnswersEvaluated, binding
    <2>6. QED  BY <2>2, <2>3, <2>4, <2>5 DEF BInv, HostInv
<1>3. QED  BY <1>1, <1>2

LEMMA AlwaysBInv == Spec => []BInv
BY InitBInv, NextBInv, PTL DEF Spec

-----------------------------------------------------------------------------
(* The theorems                                                            *)

\* Every binding, whatever its callbacks raise and whenever its objects are
\* collected, makes only calls that CApi describes: no handle that is gone, no
\* fit out of turn, no shape outside those asked for.
THEOREM BindingsUseCApi == Spec => CApiSpec
<1>1. Init => CApiInit
    BY DEF Init
<1>2. BInv /\ [Next]_vars => [CApiNext]_capi
    <2>1. BInv /\ Next => [CApiNext]_capi
        BY NextIsHostStep, StepIsCall DEF CApiNext
    <2>2. UNCHANGED vars => UNCHANGED capi
        BY DEF vars
    <2>3. QED  BY <2>1, <2>2
<1>3. QED  BY <1>1, <1>2, AlwaysBInv, PTL DEF Spec, CApiSpec

\* So what CApi guarantees holds under every binding: no evaluator is leaked or
\* shared but by a failed `new` (treeweave.cpp:121), a thread reads its own
\* reason, no pointer is cast to the other type, every rung runs.
THEOREM CApiHoldsUnderBindings ==
    Spec => [](EvaluatorsOwned /\ Reported /\ TypedAnswers /\ RungRuns)
BY BindingsUseCApi, EvaluatorsAlwaysOwned, FailuresAlwaysReported, AnswersAlwaysTyped,
   RungsAlwaysRun, PTL

\* Every variable of a binding keeps its type, and a thread has one latch for
\* each of its fits, and one more only on the way back to the caller.
THEOREM BindingsTyped == Spec => []TypeOK
<1>1. BInv => TypeOK
    <2>1. Inv => CApiTypeOK
        BY DEF Inv, TextInv, StackInv, TableInv, CApiTypeOK, Fits
    <2>2. HostInv => TypeOK \/ ~ CApiTypeOK
        BY DEF HostInv, HostTypes, InStep, TypeOK, Frame, Shown
    <2>3. QED  BY <2>1, <2>2 DEF BInv
<1>2. QED  BY <1>1, AlwaysBInv, PTL

\* Only the returning frame of a thread holds a handle.
LEMMA CarriedIsHeld ==
    ASSUME BInv, host # "c", NEW t \in Threads, NEW h \in Ids
    PROVE  (\E k \in DOMAIN ctx[t] : ctx[t][k].h = h) <=> h \in Carried(t)
<1>1. Inv /\ HostTypes /\ InStep(t) /\ h # NULL /\ ctx[t] \in Seq(Frame)
      /\ DOMAIN ctx[t] = 1 .. Len(ctx[t]) /\ Len(ctx[t]) \in Nat /\ Len(stack[t]) \in Nat
    BY CtxType, StackType, LenProperties, LiveIn DEF BInv, HostInv
<1>2. CASE Returning(t)
    <2>1. /\ Len(ctx[t]) = Len(stack[t]) + 1 /\ Len(ctx[t]) \in 1 .. Len(ctx[t])
          /\ Top(ctx[t]) = ctx[t][Len(ctx[t])]
        BY <1>1, <1>2, ReturningIsHost
    <2>2. ASSUME NEW k \in 1 .. Len(ctx[t]), ctx[t][k].h = h PROVE k = Len(ctx[t])
        <3>1. ~ (k <= Len(stack[t]))
            BY <1>1, <2>2 DEF InStep
        <3>2. QED  BY <1>1, <2>1, <3>1
    <2>3. QED  BY <1>1, <1>2, <2>1, <2>2 DEF Carried
<1>3. CASE ~ Returning(t)
    <2>1. Len(ctx[t]) <= Len(stack[t])
        BY <1>1, <1>3 DEF Returning
    <2>2. \A k \in 1 .. Len(ctx[t]) : ctx[t][k].h = NULL
        BY <1>1, <2>1 DEF InStep
    <2>3. QED  BY <1>1, <1>3, <2>2 DEF Carried
<1>4. QED  BY <1>2, <1>3

\* Whatever fits fail, raise or nest, whatever allocation fails after them, and
\* whenever objects are freed, collected or dropped: a live handle has exactly
\* one owner, an object or a returning fit, which has not freed it, and no owner
\* has a handle that is gone.  A handle without an owner is one that was lost by
\* one of three named steps (RaiseAndAbandon, wasm.ts:190 and Treeweave.jl:294;
\* WrapFails, treeweave_napi.cpp:204; Drop, wasm.ts:129).
THEOREM HandlesAlwaysOwned == Spec => []HandlesOwned
<1>1. BInv => HandlesOwned
    <2> SUFFICES ASSUME BInv PROVE HandlesOwned
        OBVIOUS
    <2>1. OneOwner
        BY DEF BInv, HostInv
    <2>2. ASSUME host # "c", NEW h \in Ids
          PROVE  Cardinality({o \in Objects : obj[o] = h})
                    + Cardinality({t \in Threads : \E k \in DOMAIN ctx[t] : ctx[t][k].h = h})
                 = IF h \in Live(handles) \ abandoned THEN 1 ELSE 0
        <3> DEFINE objects == {o \in Objects : obj[o] = h}
                   fits == {t \in Threads : \E k \in DOMAIN ctx[t] : ctx[t][k].h = h}
        <3>1. \A t \in Threads : t \in fits <=> h \in Carried(t)
            BY <2>2, CarriedIsHeld
        <3> HIDE DEF fits
        <3>2. fits \subseteq Threads
            BY DEF fits
        <3>3. CASE \E o \in Objects : obj[o] = h
            <4>1. PICK o \in Objects : obj[o] = h
                BY <3>3
            <4>2. objects = {o}
                BY <2>1, <2>2, <4>1 DEF OneOwner
            <4>3. fits = {} /\ h \in Live(handles) \ abandoned
                BY <2>1, <2>2, <3>1, <3>2, <4>1 DEF OneOwner
            <4> HIDE DEF objects
            <4>4. Cardinality(objects) = 1 /\ Cardinality(fits) = 0
                BY <4>2, <4>3, FS_Singleton, FS_EmptySet
            <4>5. QED  BY <4>3, <4>4 DEF objects, fits
        <3>4. CASE (~ \E o \in Objects : obj[o] = h) /\ \E t \in Threads : h \in Carried(t)
            <4>1. PICK t \in Threads : h \in Carried(t)
                BY <3>4
            <4>2. fits = {t} /\ h \in Live(handles) \ abandoned
                BY <2>1, <3>1, <3>2, <4>1 DEF OneOwner
            <4>3. objects = {}
                BY <3>4
            <4> HIDE DEF objects
            <4>4. Cardinality(objects) = 0 /\ Cardinality(fits) = 1
                BY <4>2, <4>3, FS_Singleton, FS_EmptySet
            <4>5. QED  BY <4>2, <4>4 DEF objects, fits
        <3>5. CASE (~ \E o \in Objects : obj[o] = h) /\ ~ \E t \in Threads : h \in Carried(t)
            <4>1. fits = {} /\ objects = {} /\ h \notin Live(handles) \ abandoned
                BY <2>1, <2>2, <3>1, <3>2, <3>5 DEF OneOwner
            <4> HIDE DEF objects
            <4>2. Cardinality(objects) = 0 /\ Cardinality(fits) = 0
                BY <4>1, FS_EmptySet
            <4>3. QED  BY <4>1, <4>2 DEF objects, fits
        <3>6. QED  BY <3>3, <3>4, <3>5
    <2>3. abandoned \subseteq Live(handles)
        BY <2>1 DEF OneOwner
    <2>4. QED  BY <2>2, <2>3 DEF HandlesOwned
<1>2. QED  BY <1>1, AlwaysBInv, PTL

\* A value a caller gets was written by an evaluation, and the NaN of Fortran
\* stands for a refusal, except one whose text could not be stored.
THEOREM ValuesAlwaysEvaluated == Spec => []AnswersEvaluated
<1>1. BInv => AnswersEvaluated
    BY DEF BInv, HostInv
<1>2. QED  BY <1>1, AlwaysBInv, PTL

-----------------------------------------------------------------------------
(* What the caller of a binding fit sees                                    *)

Surfaces(t) ==
    Len(ctx'[t]) < Len(ctx[t]) /\ last[t].res # "threw" =>
        /\ Top(ctx[t]).first # None => seen'[t] = Top(ctx[t]).first
        /\ Top(ctx[t]).first = None /\ last[t].res = "failed" => seen'[t] = last[t].why

\* No step but the return of a fit shortens a stack of latches.
LEMMA OnlyReturnsShorten ==
    ASSUME BInv, NEW u \in Threads, HostStep(u), NEW t \in Threads, Len(ctx'[t]) < Len(ctx[t])
    PROVE  /\ t = u /\ Returning(t)
           /\ \/ RaiseAndFree(t) \/ RaiseAndAbandon(t) \/ RaiseLastError(t) \/ PassThrough(t)
              \/ Wrap(t) \/ WrapFails(t) \/ Unwind(t)
<1>1. Inv /\ HostInv /\ HostTypes /\ InStep(u) /\ Len(ctx[t]) \in Nat
    BY CtxType DEF BInv, HostInv
<1>2. ctx'[t] # ctx[t]
    BY <1>1
<1>3. ASSUME NEW dt \in DTypes, NEW shape \in Shapes, NEW allow \in BOOLEAN, Enter(u, dt, shape, allow)
      PROVE  FALSE
    <2> DEFINE fr == [latch |-> None, first |-> None, allow |-> allow, h |-> NULL]
    <2>1. ctx' = [ctx EXCEPT ![u] = Append(ctx[u], fr)] /\ fr \in Frame
        BY <1>3 DEF Enter, Frame
    <2> HIDE DEF fr
    <2>2. t = u /\ ctx'[t] = Append(ctx[t], fr)
        BY <1>1, <1>2, <2>1 DEF HostTypes
    <2>3. Len(ctx'[t]) = Len(ctx[t]) + 1
        BY <1>1, <2>1, <2>2, CtxType, AppendProperties
    <2>4. QED  BY <1>1, <2>3
<1>4. ASSUME NEW e \in Errors, Latch(u, e) PROVE FALSE
    <2> DEFINE top == Top(ctx[u])
               fr == [top EXCEPT !.latch = e, !.first = IF top.first = None THEN e ELSE top.first]
    <2>1. Runnable(u) /\ InFit(u) /\ ctx' = [ctx EXCEPT ![u][Len(ctx[u])] = fr]
        BY <1>4 DEF Latch
    <2>2. top \in Frame /\ Len(ctx[u]) \in 1 .. Len(ctx[u])
        BY <1>1, <2>1, RunnableIsHost
    <2>3. fr \in Frame
        BY <2>2 DEF Frame
    <2> HIDE DEF fr
    <2>4. Len(ctx'[u]) = Len(ctx[u]) /\ \A v \in Threads \ {u} : ctx'[v] = ctx[v]
        BY <1>1, <2>1, <2>2, <2>3, TopWritten
    <2>5. QED  BY <1>1, <1>2, <2>4
<1>5. CASE FitEnds(u)
    <2>1. PICK h \in Ids : InFit(u) /\ Runnable(u) /\ ctx' = [ctx EXCEPT ![u][Len(ctx[u])].h = h]
        BY <1>2, <1>5 DEF FitEnds, FitBuilds
    <2> DEFINE top == ctx[u][Len(ctx[u])]
               fr == [top EXCEPT !.h = h]
    <2>2. top \in Frame /\ Len(ctx[u]) \in 1 .. Len(ctx[u])
        BY <1>1, <2>1, RunnableIsHost
    <2>3. fr \in Frame /\ ctx' = [ctx EXCEPT ![u][Len(ctx[u])] = fr]
        BY <1>1, <2>1, <2>2 DEF Frame, HostTypes
    <2> HIDE DEF fr
    <2>4. Len(ctx'[u]) = Len(ctx[u]) /\ \A v \in Threads \ {u} : ctx'[v] = ctx[v]
        BY <1>1, <2>2, <2>3, TopWritten
    <2>5. QED  BY <1>1, <1>2, <2>4
<1>6. CASE \/ RaiseAndFree(u) \/ RaiseAndAbandon(u) \/ RaiseLastError(u) \/ PassThrough(u)
           \/ Wrap(u) \/ WrapFails(u) \/ Unwind(u)
    <2>1. Returning(u) /\ Leave(u)
        BY <1>6 DEF RaiseAndFree, RaiseAndAbandon, RaiseLastError, PassThrough, Wrap, WrapFails, Unwind,
                    Latched, Unlatched
    <2>2. t = u
        BY <1>2, <2>1 DEF Leave
    <2>3. QED  BY <1>6, <2>1, <2>2
<1>7. ASSUME NEW o \in Objects, Evaluate(u, o) \/ JsEvalFreed(u, o) \/ JsFree(u, o) \/ Collect(u, o) \/ Drop(o)
      PROVE  FALSE
    BY <1>2, <1>7 DEF Evaluate, JsEvalFreed, JsFree, Collect, Drop
<1>8. CASE CProgram(u) \/ FortranRejects(u) \/ FortranEval(u)
    BY <1>2, <1>8 DEF CProgram, FortranRejects, FortranEval
<1>9. QED  BY <1>3, <1>4, <1>5, <1>6, <1>7, <1>8 DEF HostStep

LEMMA ReturnsSurface ==
    ASSUME BInv, NEW t \in Threads, Returning(t),
           \/ RaiseAndFree(t) \/ RaiseAndAbandon(t) \/ RaiseLastError(t) \/ PassThrough(t)
           \/ Wrap(t) \/ WrapFails(t) \/ Unwind(t)
    PROVE  Surfaces(t)
<1>1. Inv /\ HostTypes /\ InStep(t) /\ HostInv
    BY DEF BInv, HostInv
<1>2. Top(ctx[t]).latch = Top(ctx[t]).first
    BY <1>1, ReturningIsHost
<1>3. \A x : Gives(t, x) => seen'[t] = x
    BY <1>1 DEF Gives, HostTypes
<1>4. CASE RaiseAndFree(t) \/ RaiseAndAbandon(t)
    <2>1. seen'[t] = Top(ctx[t]).latch /\ Top(ctx[t]).latch # None
        BY <1>3, <1>4 DEF RaiseAndFree, RaiseAndAbandon, Latched
    <2>2. QED  BY <1>2, <2>1 DEF Surfaces
<1>5. CASE RaiseLastError(t)
    <2>1. Top(ctx[t]).first = None
        BY <1>2, <1>5 DEF RaiseLastError, Unlatched
    <2>2. seen'[t] = (IF err[t] = "" THEN "fallback" ELSE err[t])
        BY <1>3, <1>5 DEF RaiseLastError
    <2>3. ASSUME last[t].res = "failed" PROVE seen'[t] = last[t].why
        <3>1. err[t] = last[t].why
            BY <1>1, <2>3 DEF Inv, TextInv, Reported
        <3>2. last[t].why \in Reasons
            BY <1>1, <2>3 DEF InStep
        <3>3. last[t].why # ""
            BY <3>2 DEF Reasons
        <3>4. QED  BY <2>2, <3>1, <3>3
    <2>4. QED  BY <2>1, <2>3 DEF Surfaces
<1>6. CASE PassThrough(t)
    BY <1>6 DEF PassThrough, Surfaces
<1>7. CASE Wrap(t) \/ WrapFails(t) \/ Unwind(t)
    <2>1. Top(ctx[t]).first = None /\ Top(ctx[t]).h # NULL
        BY <1>2, <1>7 DEF Wrap, WrapFails, Unwind, Unlatched
    <2>2. last[t].res = "fitted"
        BY <1>1, <2>1 DEF InStep
    <2>3. QED  BY <2>1, <2>2 DEF Surfaces
<1>8. QED  BY <1>4, <1>5, <1>6, <1>7

\* The caller of a fit whose callback raised sees the first exception, whatever
\* became of the fit; the caller of one that failed by itself sees the reason of
\* that fit, whatever nested fits and other threads reported meanwhile.
THEOREM FirstErrorAlwaysSurfaces == Spec => SurfacesFirstError
<1>1. BInv /\ [Next]_vars => [\A t \in Threads : Surfaces(t)]_vars
    <2> SUFFICES ASSUME BInv, Next, NEW t \in Threads, Len(ctx'[t]) < Len(ctx[t])
                 PROVE  Surfaces(t)
        BY DEF Surfaces
    <2>1. PICK u \in Threads : HostStep(u)
        BY NextIsHostStep
    <2>2. QED  BY <2>1, OnlyReturnsShorten, ReturnsSurface
<1>2. [][\A t \in Threads : Surfaces(t)]_vars => SurfacesFirstError
    BY PTL DEF Surfaces, SurfacesFirstError
<1>3. QED  BY <1>1, <1>2, AlwaysBInv, PTL DEF Spec
=============================================================================
