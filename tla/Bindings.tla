------------------------------ MODULE Bindings ------------------------------
(***************************************************************************)
(* The language bindings over the C interface, composed with it.  A        *)
(* process has one host language.  Each binding hands treeweave_fit a      *)
(* trampoline that must not let the host's exception unwind the C++ frames *)
(* below it: it latches the first one, answers NaN from then on, and the   *)
(* binding raises it again once the C fit has returned.  ctx[t] holds one  *)
(* latch for each binding fit on the stack of thread t; it is one longer   *)
(* than stack[t] from the return of the C call to the return of the        *)
(* binding's own function.                                                 *)
(***************************************************************************)
EXTENDS CApi

CONSTANTS Hosts,        \* "c" (C, C++, Fortran), "python", "napi", "wasm", "julia", "matlab"
          Objects,      \* host objects that wrap a handle
          Errors,       \* exceptions a callback can raise
          None,         \* no exception, no object
          Main,         \* the thread of a single-threaded host
          Concurrent    \* hosts whose other threads call too (bound)

\* "No object" is no handle, and no exception is mistaken for a value.
ASSUME HostValuesAssumption ==
    /\ None \notin Ids \cup {NULL}
    /\ {"value", "nan"} \cap (Errors \cup {None}) = {}

VARIABLES host,         \* the language of this process
          ctx,          \* TrampolineState, FitState, _FitCtx, TrampState: one per fit
          obj,          \* handle an object holds, NULL once freed, None: no object
          abandoned,    \* live handles that nothing will ever free (ghost)
          seen          \* what the latest binding call of a thread gave its caller

binding == <<host, ctx, obj, abandoned, seen>>
vars == <<capi, binding>>


Init ==
    /\ CApiInit
    /\ host \in Hosts
    /\ ctx = [t \in Threads |-> <<>>]
    /\ obj = [o \in Objects |-> None]
    /\ abandoned = {}
    /\ seen = [t \in Threads |-> None]

Gives(t, what) == seen' = [seen EXCEPT ![t] = what]
Returning(t) == Len(ctx[t]) > Len(stack[t])
Runnable(t) == host # "c" /\ ~ Returning(t)

-----------------------------------------------------------------------------
(* A fit *)

\* What a binding rejects before it calls treeweave_fit.
ChecksShape == {"python", "napi", "wasm"}

\* The latch is fresh on the binding's stack frame.
Enter(t, dt, shape, allow) ==
    /\ Runnable(t)
    /\ FitStart(t, dt, shape) \/ (host \notin ChecksShape /\ FitRefused(t, {<<FALSE, shape>>}))
    /\ ctx' = [ctx EXCEPT ![t] = Append(@, [latch |-> None, first |-> None, allow |-> allow, h |-> NULL])]
    /\ Gives(t, None)
    /\ UNCHANGED <<host, obj, abandoned>>

PythonFit(t, dt, shape, allow) == host = "python" /\ Enter(t, dt, shape, allow)
\* The JavaScript fit is async: it resumes on an empty stack.
JsFit(t, dt, shape, allow) ==
    host \in {"napi", "wasm"} /\ stack[t] = <<>> /\ Enter(t, dt, shape, allow)
JuliaFit(t, dt, shape, allow) == host = "julia" /\ Enter(t, dt, shape, allow)
MatlabFit(t, dt, shape, allow) == host = "matlab" /\ dt = "f64" /\ Enter(t, dt, shape, allow)

\* Once an exception is latched the callback is not called again.
Reopened(frame) == TRUE
Open(frame) == frame.latch = None

Latch(t, e) ==
    /\ Runnable(t) /\ InFit(t) /\ Open(Top(ctx[t]))
    /\ LET frame == Top(ctx[t])
       IN  ctx' = [ctx EXCEPT ![t][Len(ctx[t])] =
            [frame EXCEPT !.latch = e, !.first = IF frame.first = None THEN e ELSE frame.first]]
    /\ Gives(t, None)
    /\ UNCHANGED <<capi, host, obj, abandoned>>

PythonTrampoline(t, e) == host = "python" /\ Latch(t, e)
NapiTrampoline(t, e) == host = "napi" /\ Latch(t, e)
WasmTrampoline(t, e) == host = "wasm" /\ Latch(t, e)
JuliaTrampoline(t, e) == host = "julia" /\ Latch(t, e)
MatlabTrampoline(t, e) == host = "matlab" /\ Latch(t, e)

\* The NaN of a latched trampoline never converges: such a fit builds a
\* function only when it may stop at the depth cap.
FitEnds(t) ==
    /\ Runnable(t) /\ InFit(t)
    /\ \/ (FitThrows(t) \/ HandleAllocFails(t)) /\ ctx' = ctx
       \/ /\ Open(Top(ctx[t])) \/ Top(ctx[t]).allow
          /\ \E i, h \in Ids : /\ FitBuilds(t, i, h)
                              /\ ctx' = [ctx EXCEPT ![t][Len(ctx[t])].h = h]
    /\ Gives(t, None)
    /\ UNCHANGED <<host, obj, abandoned>>

-----------------------------------------------------------------------------
(* The return of a fit *)

Leave(t) == ctx' = [ctx EXCEPT ![t] = Pop(@)]
Latched(t) == Returning(t) /\ last[t].res # "threw" /\ Top(ctx[t]).latch # None
Unlatched(t) == Returning(t) /\ last[t].res # "threw" /\ Top(ctx[t]).latch = None

\* Raise the latched exception; a handle that came back is freed first.
RaiseAndFree(t) ==
    /\ Latched(t) /\ Leave(t)
    /\ IF Top(ctx[t]).h # NULL THEN Free(t, Top(ctx[t]).h) ELSE UNCHANGED capi
    /\ Gives(t, Top(ctx[t]).latch)
    /\ UNCHANGED <<host, obj, abandoned>>

\* Raise the latched exception; a handle that came back is forgotten.
RaiseAndAbandon(t) ==
    /\ Latched(t) /\ Leave(t)
    /\ abandoned' = abandoned \cup ({Top(ctx[t]).h} \ {NULL})
    /\ Gives(t, Top(ctx[t]).latch)
    /\ UNCHANGED <<capi, host, obj>>

PythonRaise(t) == host = "python" /\ RaiseAndFree(t)
NapiRaise(t) == host = "napi" /\ RaiseAndFree(t)
MatlabRaise(t) == host = "matlab" /\ RaiseAndFree(t)
WasmRaise(t) == host = "wasm" /\ RaiseAndAbandon(t)
JuliaRaise(t) == host = "julia" /\ RaiseAndAbandon(t)

\* A NULL handle: raise the text of treeweave_last_error, or a fixed one.
RaiseLastError(t) ==
    /\ Unlatched(t) /\ Top(ctx[t]).h = NULL /\ Leave(t)
    /\ Gives(t, IF err[t] = "" THEN "fallback" ELSE err[t])
    /\ UNCHANGED <<capi, host, obj, abandoned>>

\* A handle: an object takes it over.
Wrap(t) ==
    /\ Unlatched(t) /\ Top(ctx[t]).h # NULL /\ Leave(t)
    /\ \E o \in Objects : obj[o] = None /\ obj' = [obj EXCEPT ![o] = Top(ctx[t]).h]
    /\ Gives(t, "object")
    /\ UNCHANGED <<capi, host, abandoned>>

\* Between the return of the C fit and the owner stands an allocation, in Julia
\* also the registration of the finalizer: when memory runs out there, nothing
\* has the handle.  (In WASM the owner is a JavaScript object, and running out of
\* memory ends the process.)
WrapFails(t) ==
    /\ host \in {"python", "napi", "julia", "matlab"}
    /\ Unlatched(t) /\ Top(ctx[t]).h # NULL /\ Leave(t)
    /\ abandoned' = abandoned \cup {Top(ctx[t]).h}
    /\ Gives(t, "threw")
    /\ UNCHANGED <<capi, host, obj>>

\* The owner exists, but what is built around it fails; its destructor frees
\* the handle.  (A closure of N-API may keep it until it is collected; no call
\* can reach it.)
Unwind(t) ==
    /\ host \in {"python", "napi", "matlab"}
    /\ Unlatched(t) /\ Top(ctx[t]).h # NULL /\ Leave(t)
    /\ Free(t, Top(ctx[t]).h)
    /\ Gives(t, "threw")
    /\ UNCHANGED <<host, obj, abandoned>>

\* A C++ exception out of treeweave_fit passes through the binding.
PassThrough(t) ==
    /\ Returning(t) /\ last[t].res = "threw" /\ Leave(t)
    /\ Gives(t, "threw")
    /\ UNCHANGED <<capi, host, obj, abandoned>>

-----------------------------------------------------------------------------
(* A fitted object *)

\* The bindings test what the C entry points would refuse.
Unchecked(h) == Entries
Checked(h) == {entry \in Entries :
    /\ entry = "sorted" => handles[h].in = 1
    /\ entry = "transposed" => handles[h].out > 1}

\* The twin is chosen by the handle's own type.
ObjectCalls(h) == Checked(h) \X {handles[h].dt} \X {h}

\* None of the bindings reads treeweave_last_error after an evaluation.
Evaluate(t, o) ==
    /\ Runnable(t) /\ obj[o] \in Ids
    /\ \/ (EvalRefused(t, ObjectCalls(obj[o])) \/ EvalAnswers(t, ObjectCalls(obj[o]))) /\ Gives(t, "value")
       \/ EvalThrows(t, ObjectCalls(obj[o])) /\ Gives(t, "threw")
    /\ UNCHANGED <<host, ctx, obj, abandoned>>

PythonEval(t, o) == host = "python" /\ Evaluate(t, o)
JsEval(t, o) == host \in {"napi", "wasm"} /\ Evaluate(t, o)
JuliaEval(t, o) == host = "julia" /\ Evaluate(t, o)
MatlabEval(t, o) == host = "matlab" /\ Evaluate(t, o)

\* After free() the JavaScript object passes NULL, and hands its caller the
\* buffer that nothing wrote.
JsEvalFreed(t, o) ==
    /\ host \in {"napi", "wasm"} /\ Runnable(t) /\ obj[o] = NULL
    /\ EvalRefused(t, {<<"eval", dt, NULL>> : dt \in DTypes})
    /\ Gives(t, "unwritten")
    /\ UNCHANGED <<host, ctx, obj, abandoned>>

\* free() of JavaScript: the object remains, without a handle.
Retain(o) == obj[o]
Release(o) == NULL
JsFree(t, o) ==
    /\ host \in {"napi", "wasm"} /\ Runnable(t) /\ obj[o] \in Ids
    /\ Free(t, obj[o])
    /\ obj' = [obj EXCEPT ![o] = Release(o)]
    /\ Gives(t, None)
    /\ UNCHANGED <<host, ctx, abandoned>>

\* The destructor, the finalizer or delete: at any point between two steps,
\* also while a failed fit is on its way back to its caller.
Collect(t, o) ==
    /\ host \in {"python", "napi", "julia", "matlab"} /\ obj[o] # None
    /\ IF obj[o] \in Ids THEN Free(t, obj[o]) ELSE UNCHANGED capi
    /\ obj' = [obj EXCEPT ![o] = None]
    /\ UNCHANGED <<host, ctx, abandoned, seen>>

\* The WASM object has free() and no finalizer: dropped with a handle, it takes
\* the handle with it.
Drop(o) ==
    /\ host = "wasm" /\ obj[o] # None
    /\ abandoned' = abandoned \cup ({obj[o]} \ {NULL})
    /\ obj' = [obj EXCEPT ![o] = None]
    /\ UNCHANGED <<capi, host, ctx, seen>>

-----------------------------------------------------------------------------
(* C and Fortran programs hold the handles themselves *)

CProgram(t) ==
    /\ host = "c" /\ CApiStep(t)
    /\ Gives(t, None)
    /\ UNCHANGED <<host, ctx, obj, abandoned>>

\* tw_eval asks the dimensions first, and a NULL handle has none.
FortranRejects(t) ==
    /\ host = "c"
    /\ QueryNull(t) \/ UNCHANGED capi
    /\ Gives(t, None)
    /\ UNCHANGED <<host, ctx, obj, abandoned>>

FortranCalls == {"eval", "batch"} \X DTypes \X Live(handles)
FortranEval(t) ==
    /\ host = "c"
    /\ \/ /\ EvalRefused(t, FortranCalls) \/ EvalAnswers(t, FortranCalls)
          /\ Gives(t, IF err'[t] = "" THEN "value" ELSE "nan")
       \/ EvalThrows(t, FortranCalls) /\ Gives(t, "threw")
    /\ UNCHANGED <<host, ctx, obj, abandoned>>

Next == \E t \in Threads :
    /\ t = Main \/ host \in Concurrent
    /\ \/ \E dt \in DTypes, shape \in Shapes, allow \in BOOLEAN :
            \/ PythonFit(t, dt, shape, allow) \/ JsFit(t, dt, shape, allow)
            \/ JuliaFit(t, dt, shape, allow) \/ MatlabFit(t, dt, shape, allow)
       \/ \E e \in Errors : \/ PythonTrampoline(t, e) \/ NapiTrampoline(t, e) \/ WasmTrampoline(t, e)
                            \/ JuliaTrampoline(t, e) \/ MatlabTrampoline(t, e)
       \/ FitEnds(t)
       \/ PythonRaise(t) \/ NapiRaise(t) \/ MatlabRaise(t) \/ WasmRaise(t) \/ JuliaRaise(t)
       \/ RaiseLastError(t) \/ Wrap(t) \/ WrapFails(t) \/ Unwind(t) \/ PassThrough(t)
       \/ \E o \in Objects : \/ PythonEval(t, o) \/ JsEval(t, o) \/ JuliaEval(t, o) \/ MatlabEval(t, o)
                             \/ JsEvalFreed(t, o) \/ JsFree(t, o)
                             \/ Collect(t, o) \/ Drop(o)
       \/ CProgram(t) \/ FortranRejects(t) \/ FortranEval(t)

Spec == Init /\ [][Next]_vars

-----------------------------------------------------------------------------
(* What the bindings promise *)

\* The type of every variable.
TypeOK ==
    /\ CApiTypeOK /\ host \in Hosts
    /\ ctx \in [Threads -> Seq([latch : Errors \cup {None}, first : Errors \cup {None}, allow : BOOLEAN, h : Ids \cup {NULL}])]
    /\ \A t \in Threads : host # "c" => Len(ctx[t]) - Len(stack[t]) \in {0, 1}
    /\ obj \in [Objects -> Ids \cup {NULL, None}] /\ abandoned \subseteq Ids
    /\ seen \in [Threads -> Errors \cup Reasons \cup
            {None, "fallback", "object", "threw", "value", "unwritten", "nan"}]

\* A binding fit whose callback raised gives its caller the first exception,
\* whatever became of the fit; one that failed by itself gives the reason of
\* that fit, not of one nested in it or of another thread.
SurfacesFirstError == [][\A t \in Threads :
    Len(ctx'[t]) < Len(ctx[t]) /\ last[t].res # "threw" =>
        /\ Top(ctx[t]).first # None => seen'[t] = Top(ctx[t]).first
        /\ Top(ctx[t]).first = None /\ last[t].res = "failed" => seen'[t] = last[t].why]_vars

\* Every live handle has one owner that will free it, an object or the fit that
\* is returning it, and no owner has a handle that is gone, whichever fits fail,
\* raise or nest and whenever objects are freed and collected.  A handle is lost
\* in three ways only: the WASM or the Julia fit forgets it because its callback
\* raised although the fit succeeded under the depth cap (RaiseAndAbandon); memory
\* runs out between the fit and its owner (WrapFails); a WASM object is dropped
\* without free() (Drop).  What is lost stays live, and no owner has it.
HandlesOwned ==
    /\ abandoned \subseteq Live(handles)
    /\ host # "c" => \A h \in Ids :
        Cardinality({o \in Objects : obj[o] = h})
            + Cardinality({t \in Threads : \E k \in DOMAIN ctx[t] : ctx[t][k].h = h})
        = IF h \in Live(handles) \ abandoned THEN 1 ELSE 0

\* A value a caller gets was written by an evaluation, and the Fortran NaN
\* stands for one that was refused (treeweave.f90:316-321); the exception is a
\* refusal of Fortran's whose text could not be stored.
AnswersEvaluated == \A t \in Threads :
    /\ seen[t] = "value" => \/ last[t].res = "answered"
                            \/ host = "c" /\ last[t].res = "unstored"
    /\ seen[t] = "nan" => last[t].res = "failed"
=============================================================================
