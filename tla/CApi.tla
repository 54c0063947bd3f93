-------------------------------- MODULE CApi --------------------------------
(***************************************************************************)
(* The extern "C" surface of src/capi/treeweave.cpp: opaque handles, the   *)
(* evaluators they own, and the error text of each thread.                 *)
(*                                                                         *)
(* A fit runs the user's callback, and the callback may call back into the *)
(* same interface on the same thread: stack[t] holds the fits thread t is  *)
(* inside of, and every operation is open to t between the start and the   *)
(* end of a fit.  An evaluation calls nothing back and is one step.        *)
(*                                                                         *)
(* Left out, since they change nothing: treeweave_memory_usage,            *)
(* treeweave_print_stats, treeweave_last_error, the version getters and    *)
(* the queries on a handle that is not NULL.                               *)
(***************************************************************************)
EXTENDS Integers, Sequences, FiniteSets

CONSTANTS Threads,      \* callers
          Ids,          \* addresses the allocator hands out, reused once freed
          NULL,         \* no object
          Shapes,       \* <<input_dim, output_dim>> asked of a fit
          Ladder,       \* ISA rungs, widest first; the last one always runs
          Runs,         \* the rungs this machine can run
          Forcible,     \* values of TREEWEAVE_FORCE_ARCH, "" when unset
          MaxDepth      \* fits in progress at one time (bound)

Dims == 1 .. 3
DTypes == {"f64", "f32"}
Entries == {"eval", "batch", "sorted", "transposed"}
Reasons == {"refused",  \* the arguments: a null pointer, a shape, a handle, a type
            "fit",      \* what() of what the fit threw
            "alloc"}    \* what() of std::bad_alloc

Results == {"none", "failed", "unstored", "threw", "fitted", "answered", "misread"}
Rungs == {Ladder[k] : k \in DOMAIN Ladder}
Evaluators == [dt : DTypes, in : Dims, out : Dims, rung : Rungs]
Tagged == [impl : Ids, dt : DTypes, in : Dims, out : Dims]

ASSUME LadderAssumption ==
    /\ Ladder \in Seq(STRING) /\ Ladder # <<>>
    /\ \A j, k \in DOMAIN Ladder : Ladder[j] = Ladder[k] => j = k
    /\ Runs \subseteq Rungs /\ Ladder[Len(Ladder)] \in Runs /\ "" \notin Runs
ASSUME NullAssumption == NULL \notin Ids \cup Evaluators \cup Tagged

VARIABLES err,          \* error_buffer() of a thread
          stack,        \* fits a thread is inside of, innermost last
          evals,        \* the live IEval objects
          handles,      \* the live treeweave_function objects
          lost,         \* evaluators whose only pointer is gone (ghost)
          last,         \* the latest call of a thread that reports an outcome
          forced        \* TREEWEAVE_FORCE_ARCH

capi == <<err, stack, evals, handles, lost, last, forced>>

Live(table) == {i \in Ids : table[i] # NULL}
Fresh(table) == Ids \ Live(table)
Outcome(res, why) == [res |-> res, why |-> why]
InProgress == Cardinality({f \in Threads \X (1 .. MaxDepth) : f[2] <= Len(stack[f[1]])})

CApiInit ==
    /\ err = [t \in Threads |-> ""]
    /\ stack = [t \in Threads |-> <<>>]
    /\ evals = [i \in Ids |-> NULL] /\ handles = [i \in Ids |-> NULL]
    /\ lost = {}
    /\ last = [t \in Threads |-> Outcome("none", "")]
    /\ forced \in Forcible

-----------------------------------------------------------------------------
(* Kernel selection *)

\* A forced rung counts when the ladder names it and the machine runs it.
UnsupportedForce == {k \in DOMAIN Ladder : Ladder[k] = forced}
ForceSelect == {k \in DOMAIN Ladder : Ladder[k] = forced /\ Ladder[k] \in Runs}

Widest == CHOOSE k \in DOMAIN Ladder :
    Ladder[k] \in Runs /\ \A j \in 1 .. k - 1 : Ladder[j] \notin Runs

SelectKernels == IF ForceSelect # {} THEN Ladder[CHOOSE k \in ForceSelect : TRUE]
                                     ELSE Ladder[Widest]

-----------------------------------------------------------------------------
(* The error text *)

\* One thread's buffer; the broken twin keeps one for the whole process.
SharedBuffer(t, text) == [u \in Threads |-> text]
Buffer(t, text) == [err EXCEPT ![t] = text]

\* The text is copied into a std::string.  The copy may fail, and then the
\* text from before stays; "std::bad_alloc" needs no allocation.
SetLastError(t, before, why) ==
    \E stored \in BOOLEAN :
        /\ why = "alloc" => stored
        /\ err' = Buffer(t, IF stored THEN why ELSE before)
        /\ last' = [last EXCEPT ![t] = IF stored THEN Outcome("failed", why)
                                                   ELSE Outcome("unstored", "")]

Threw(t, text) ==
    /\ err' = Buffer(t, text)
    /\ last' = [last EXCEPT ![t] = Outcome("threw", "")]

-----------------------------------------------------------------------------
(* Fits *)

\* The shapes with a factory.
Supported(shape) == shape[1] \in Dims /\ shape[2] \in Dims

\* A null pointer, an input_dim or an output_dim outside 1..3: no callback runs.
\* `fits` are the <<null pointer?, shape>> the caller may ask for now.
FitRefused(t, fits) ==
    /\ {fit \in fits : fit[1] \/ ~ Supported(fit[2])} # {}
    /\ SetLastError(t, "", "refused")
    /\ UNCHANGED <<stack, evals, handles, lost, forced>>

FitStart(t, dt, shape) ==
    /\ Supported(shape) /\ InProgress < MaxDepth
    /\ err' = Buffer(t, "")
    /\ stack' = [stack EXCEPT ![t] = Append(@, [dt |-> dt, in |-> shape[1], out |-> shape[2]])]
    /\ last' = [last EXCEPT ![t] = Outcome("none", "")]
    /\ UNCHANGED <<evals, handles, lost, forced>>

InFit(t) == stack[t] # <<>>
Top(s) == s[Len(s)]
Pop(s) == SubSeq(s, 1, Len(s) - 1)

\* The fit throws (depth, memory or argument error, or no memory), or the
\* callback does.  A call nested in the callback may have left its own text.
FitThrows(t) ==
    /\ InFit(t)
    /\ \E why \in {"fit", "alloc"} : SetLastError(t, err[t], why)
    /\ stack' = [stack EXCEPT ![t] = Pop(@)]
    /\ UNCHANGED <<evals, handles, lost, forced>>

\* The evaluator a finished fit creates.
Built(t) == [dt |-> Top(stack[t]).dt, in |-> Top(stack[t]).in, out |-> Top(stack[t]).out,
             rung |-> SelectKernels]
\* The tag of the handle, and that of an f32 twin copied from treeweave_fit.
TwinTag(dt) == "f64"
Tag(dt) == dt

FitBuilds(t, i, h) ==
    /\ InFit(t) /\ i \in Fresh(evals) /\ h \in Fresh(handles)
    /\ evals' = [evals EXCEPT ![i] = Built(t)]
    /\ handles' = [handles EXCEPT ![h] =
            [impl |-> i, dt |-> Tag(Built(t).dt), in |-> Built(t).in, out |-> Built(t).out]]
    /\ last' = [last EXCEPT ![t] = Outcome("fitted", "")]
    /\ stack' = [stack EXCEPT ![t] = Pop(@)]
    /\ UNCHANGED <<err, lost, forced>>

\* `new treeweave_function` stands outside the try block: its bad_alloc leaves
\* through the extern "C" function and the evaluator with it.
HandleAllocFails(t) ==
    /\ InFit(t)
    /\ \E i \in Fresh(evals) :
        evals' = [evals EXCEPT ![i] = Built(t)] /\ lost' = lost \cup {i}
    /\ Threw(t, err[t])
    /\ stack' = [stack EXCEPT ![t] = Pop(@)]
    /\ UNCHANGED <<handles, forced>>

-----------------------------------------------------------------------------
(* Evaluation.  A call is <<entry, dt, h>>: the twin for type dt, and a     *)
(* live handle or NULL.  `calls` are those the caller may make now.        *)

Table == <<stack, evals, handles, lost, forced>>
Calls == Entries \X DTypes \X (Live(handles) \cup {NULL})

\* checked_impl clears the text first, and takes no handle of the other type.
Cleared(t) == ""
AcceptsAny(h, dt) == h # NULL
Accepts(h, dt) == h # NULL /\ handles[h].dt = dt

Served(call) ==
    /\ Accepts(call[3], call[2])
    /\ call[1] = "sorted" => handles[call[3]].in = 1
    /\ call[1] = "transposed" => handles[call[3]].out > 1

\* impl is a void pointer: a call through the other type is undefined.
ThroughPointer(call) ==
    IF evals[handles[call[3]].impl].dt = call[2] THEN "answered" ELSE "misread"

EvalRefused(t, calls) ==
    /\ {call \in calls : ~ Served(call)} # {}
    /\ SetLastError(t, Cleared(t), "refused")
    /\ UNCHANGED Table

EvalAnswers(t, calls) ==
    /\ \E res \in {ThroughPointer(call) : call \in {c \in calls : Served(c)}} :
        last' = [last EXCEPT ![t] = Outcome(res, "")]
    /\ err' = Buffer(t, Cleared(t))
    /\ UNCHANGED Table

\* A batch takes scratch from the heap, unless it is sorted.
EvalThrows(t, calls) ==
    /\ {call \in calls : Served(call) /\ call[1] \in {"batch", "transposed"}} # {}
    /\ Threw(t, Cleared(t))
    /\ UNCHANGED Table

\* The by-value forms test the arity k before anything is cleared, and go on to
\* treeweave_eval otherwise.
EvalND(t) ==
    /\ {call \in Dims \X Live(handles) :
            handles[call[2]].in # call[1] \/ handles[call[2]].out # 1} # {}
    /\ SetLastError(t, err[t], "refused")
    /\ UNCHANGED Table

-----------------------------------------------------------------------------
(* The rest of the interface *)

\* treeweave_dtype, treeweave_input_dim and treeweave_output_dim of NULL.
QueryNull(t) == SetLastError(t, err[t], "refused") /\ UNCHANGED Table

\* The typed destructor runs through the tag, then the handle goes.
Free(t, h) ==
    /\ h \in Live(handles)
    /\ evals' = [evals EXCEPT ![handles[h].impl] = NULL]
    /\ handles' = [handles EXCEPT ![h] = NULL]
    /\ err' = err
    /\ UNCHANGED <<stack, lost, last, forced>>

CApiStep(t) ==
    \/ FitRefused(t, BOOLEAN \X Shapes)
    \/ \E dt \in DTypes, shape \in Shapes : FitStart(t, dt, shape)
    \/ FitThrows(t) \/ HandleAllocFails(t)
    \/ \E i, h \in Ids : FitBuilds(t, i, h)
    \/ EvalRefused(t, Calls) \/ EvalAnswers(t, Calls) \/ EvalThrows(t, Calls) \/ EvalND(t)
    \/ QueryNull(t)
    \/ \E h \in Live(handles) : Free(t, h)

CApiNext == \E t \in Threads : CApiStep(t)
CApiSpec == CApiInit /\ [][CApiNext]_capi

-----------------------------------------------------------------------------
(* What the interface promises *)

\* The type of every variable of treeweave.cpp.
CApiTypeOK ==
    /\ err \in [Threads -> Reasons \cup {""}]
    /\ stack \in [Threads -> Seq([dt : DTypes, in : Dims, out : Dims])]
    /\ evals \in [Ids -> Evaluators \cup {NULL}]
    /\ handles \in [Ids -> Tagged \cup {NULL}]
    /\ lost \subseteq Ids /\ forced \in Forcible
    /\ last \in [Threads -> [res : Results, why : Reasons \cup {""}]]

\* Every evaluator belongs to one handle, whose tags describe it, or went with
\* the exception of a failed `new` (treeweave.cpp:121): no fit that throws, is
\* refused or is freed leaves one behind, and no handle outlives its own.
EvaluatorsOwned ==
    /\ \A h \in Live(handles) :
        LET e == evals[handles[h].impl] IN
        /\ e # NULL /\ handles[h].impl \notin lost
        /\ [e EXCEPT !.rung = NULL] =
               [dt |-> handles[h].dt, in |-> handles[h].in, out |-> handles[h].out, rung |-> NULL]
    /\ \A i \in Live(evals) \ lost :
        Cardinality({h \in Live(handles) : handles[h].impl = i}) = 1

\* After a call that failed the thread reads the reason of that call, and after
\* an evaluation that answered it reads none, whatever other threads, nested
\* calls and the frees of other objects do in between (treeweave.h:233).
Reported == \A t \in Threads :
    /\ last[t].res = "failed" => err[t] = last[t].why
    /\ last[t].res = "answered" => err[t] = ""

\* An evaluation answers only from an evaluator of the type that was called:
\* the pointer behind `void *impl` is never cast to the other one.
TypedAnswers == \A t \in Threads : last[t].res # "misread"

\* Every evaluator runs kernels the machine has, of the rung that was forced or
\* else of one that nothing wider it can run precedes in the ladder.
Suits(rung) ==
    /\ rung \in Runs
    /\ rung # forced => /\ forced \notin Runs
                        /\ \A j, k \in DOMAIN Ladder : Ladder[k] = rung /\ j < k => Ladder[j] \notin Runs
RungRuns == \A i \in Live(evals) : Suits(evals[i].rung)

\* "No C++ exception ever crosses this boundary" (treeweave.h:26).
NoExceptionCrosses == \A t \in Threads : last[t].res # "threw"
=============================================================================
