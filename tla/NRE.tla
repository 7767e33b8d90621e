-------------------------------- MODULE NRE --------------------------------
(***************************************************************************)
(* The non-recursive evaluation engine of tclBasic.c: the callback stack   *)
(* and its trampoline TclNRRunCallbacks, command dispatch TclNREvalObjv    *)
(* with the callbacks it schedules (NRCommand, NRRunObjProc, TEOV_Error,   *)
(* TEOV_Exception), the unknown-command fallback TEOV_NotFound, and script *)
(* cancellation (Tcl_CancelEval, CancelEvalProc, Tcl_Canceled).            *)
(*                                                                         *)
(* A callback record holds the name of its procPtr and its data (Rec).   *)
(* ee[e] is the callback stack of execution environment e, top last;       *)
(* TOP_CB(interp) is the top of ee[active].  Each activation of            *)
(* TclNRRunCallbacks on the C stack is an element of loops holding its     *)
(* rootPtr as <<env, length>>: the loop stops when TOP_CB equals rootPtr,  *)
(* i.e. when the stack of the active env has that length again; a root    *)
(* taken from an empty stack is NULL and equals the top of any empty      *)
(* stack.                                                                  *)
(*                                                                         *)
(* Sequential C code is translated as operators from a state record s (the*)
(* fields St names) to the state record after the code ran; an action     *)
(* commits the final record with Commit.                                   *)
(*                                                                         *)
(* The commands themselves (objProcs) are collaborators outside this file:*)
(* each command has a kind saying what its objProc does, from returning a *)
(* code to evaluating a further command through TclNREvalObjv.             *)
(***************************************************************************)
EXTENDS Integers, SequencesExt, FiniteSets, Registry

CONSTANTS
    Main,             \* the interpreter's own execution environment
    Envs,             \* every execution environment (Main and coroutines')
    UnknownName,      \* "::unknown", the global unknown-command handler
    MaxNestingDepth,  \* iPtr->maxNestingDepth (Tcl_SetRecursionLimit)
    MaxEvals,         \* bound: top-level Tcl_EvalObjv calls of the host
    MaxCancels,       \* bound: Tcl_CancelEval calls from other threads
    AllowExceptions,  \* TCL_ALLOW_EXCEPTIONS in iPtr->evalFlags
    ExecTraces        \* [traced names -> script]: the execution trace on the
                      \* command a fresh interp has under the name

VARIABLES
    ee,            \* [env -> Seq(callback record)]: execEnvPtr->callbackPtr
    active,        \* iPtr->execEnvPtr
    rewind,        \* [env -> BOOLEAN]: execEnvPtr->rewind
    evalFlags,     \* TCL_ALLOW_EXCEPTIONS is set in iPtr->evalFlags
    loops,         \* Seq(loop): active TclNRRunCallbacks calls, innermost last
    result,        \* the completion code passed along the callbacks
    numLevels,     \* iPtr->numLevels
    flags,         \* iPtr->flags & (CANCELED|TCL_CANCEL_UNWIND)
    asyncReady,    \* the cancel async handler is marked (TclAsyncReady)
    cancelUnwind,  \* cancelInfo->flags & TCL_CANCEL_UNWIND
    unwindAsked,   \* history: a request since the handler was last marked asked to unwind
    cmd,           \* Command structures (see Registry)
    evals,         \* host evaluations started
    reqs,          \* Tcl_CancelEval calls made
    hitCancel,     \* Tcl_Canceled reported a cancel error in this evaluation
    sawUnwind,     \* CancelEvalProc set TCL_CANCEL_UNWIND in this evaluation
    canceledEvals, \* host evaluations during which a cancel error was reported
    outcome        \* code and sawUnwind of the last completed host evaluation

nreVars == <<ee, active, rewind, evalFlags, loops, result, numLevels, flags, asyncReady,
             cancelUnwind, unwindAsked, cmd, evals, reqs, hitCancel, sawUnwind,
             canceledEvals, outcome>>

Codes == {"OK", "ERROR", "BREAK"}
CancelFlags == {"CANCELED", "UNWIND"}
None == "none"

\* What the objProc of a command of each kind does (the collaborators).
Code == [ok |-> "OK", error |-> "ERROR", break |-> "BREAK"]
ReturnKinds == DOMAIN Code
NRKinds == ReturnKinds \cup {"eval", "catch", "delete"}

\* A callback record: procPtr p and its data a.  The data field is named
\* after the procedure, so that records of different callbacks differ in
\* their fields and are never compared by data of different shapes.
Rec(p, a) == [f \in {"proc", p} |-> IF f = "proc" THEN p ELSE a]
Arg(r) == r[r.proc]

\* The data of a loop whose receiver needs none.
NoData == [none |-> TRUE]

\* What receives the result of a TclNRRunCallbacks when it returns (the
\* data a loop carries is what that code needs afterwards).
LoopConts == {"host", "return", "tebc", "rewind", "delete"}

-----------------------------------------------------------------------------
(* The state record of the sequential code and its commit. *)

St == [cb |-> ee[active], env |-> active, rw |-> rewind[active],
       ef |-> evalFlags, loops |-> loops, res |-> result, lv |-> numLevels, fl |-> flags,
       async |-> asyncReady, cmd |-> cmd, hit |-> hitCancel, saw |-> sawUnwind]

Commit(s) ==
    /\ ee' = [ee EXCEPT ![active] = s.cb]
    /\ evalFlags' = s.ef
    /\ loops' = s.loops
    /\ result' = s.res
    /\ numLevels' = s.lv
    /\ flags' = s.fl
    /\ asyncReady' = s.async
    /\ cmd' = s.cmd
    /\ hitCancel' = s.hit
    /\ sawUnwind' = s.saw

\* TclNRAddCallback on the current stack.
Push(s, r) == [s EXCEPT !.cb = Append(@, r)]

\* A TclNRRunCallbacks started now with rootPtr = TOP_CB(interp); cont
\* names the C code that receives its result.
LoopAt(s, cont) == [env |-> s.env, len |-> Len(s.cb), cont |-> cont, data |-> NoData]

\* TOP_CB(interp) == rootPtr, comparing pointers: equal records of one
\* stack, or two NULL tops.
TopIsRoot(root) ==
    /\ Len(ee[active]) = root.len
    /\ active = root.env \/ root.len = 0

-----------------------------------------------------------------------------
(* Cancellation, lines 3129-3180 and 3771-3878. *)

\* Variant of Tcl_Canceled that clears TCL_CANCEL_UNWIND with CANCELED
\* (showing UnwindNotSwallowed depends on the unwind flag staying set).
Tcl_CanceledClearsAll(s, unwindOnly, leaveErrMsg) ==
    IF s.fl = {} THEN [s EXCEPT !.res = "OK"]
    ELSE LET err == ~unwindOnly \/ "UNWIND" \in s.fl
         IN [s EXCEPT !.fl = {},
                      !.res = IF err THEN "ERROR" ELSE "OK",
                      !.hit = @ \/ (err /\ leaveErrMsg)]

\* Tcl_Canceled for an interp without masters: a set CANCELED or
\* TCL_CANCEL_UNWIND flag reports cancellation, CANCELED is one-shot; with
\* TCL_CANCEL_UNWIND in the caller's flags only an unwind is reported.
Tcl_Canceled(s, unwindOnly, leaveErrMsg) ==
    IF s.fl = {} THEN [s EXCEPT !.res = "OK"]
    ELSE LET err == ~unwindOnly \/ "UNWIND" \in s.fl
         IN [s EXCEPT !.fl = @ \ {"CANCELED"},
                      !.res = IF err THEN "ERROR" ELSE "OK",
                      !.hit = @ \/ (err /\ leaveErrMsg)]

\* Tcl_AsyncInvoke running the only async handler, CancelEvalProc: set
\* CANCELED, and TCL_CANCEL_UNWIND if the request asked for it.
CancelEvalProc(s) ==
    [s EXCEPT !.fl = @ \cup {"CANCELED"} \cup
                     (IF cancelUnwind THEN {"UNWIND"} ELSE {}),
              !.async = FALSE,
              !.saw = @ \/ cancelUnwind]

-----------------------------------------------------------------------------
(* Dispatch, lines 3666-3707 and 4028-4190. *)

\* Variant of TclInterpReady with the nesting limit off by one.
TclInterpReadyOffByOne(s) ==
    IF s.rw THEN [s EXCEPT !.res = "ERROR"]
    ELSE LET c == Tcl_Canceled(s, FALSE, TRUE)
         IN IF c.res # "OK" THEN c
            ELSE [c EXCEPT !.res = IF s.lv <= MaxNestingDepth + 1
                                   THEN "OK" ELSE "ERROR"]

\* TclInterpReady: rewinding or canceled, then the nesting limit.
TclInterpReady(s) ==
    IF s.rw THEN [s EXCEPT !.res = "ERROR"]
    ELSE LET c == Tcl_Canceled(s, FALSE, TRUE)
         IN IF c.res # "OK" THEN c
            ELSE [c EXCEPT !.res = IF s.lv <= MaxNestingDepth
                                   THEN "OK" ELSE "ERROR"]

\* Variant of TEOV_PushExceptionHandlers that never pushes TEOV_Exception.
TEOV_PushExceptionHandlersNoException(s) == Push(s, Rec("TEOV_Error", None))

\* TEOV_PushExceptionHandlers without TCL_EVAL_INVOKE: TEOV_Error always,
\* TEOV_Exception with the current evalFlags when entering level 1.
TEOV_PushExceptionHandlers(s) ==
    LET s1 == Push(s, Rec("TEOV_Error", None))
    IN IF s.lv = 1 THEN Push(s1, Rec("TEOV_Exception", s.ef))
       ELSE s1

\* commandFound: fill in the NRCommand record pushed at index at, take a
\* reference on the command and push NRRunObjProc with its objProc.
CommandFound(s, at, id) ==
    [s EXCEPT !.cb = Append([@ EXCEPT ![at] = Rec("NRCommand", id)],
                            Rec("NRRunObjProc", [objProc |-> s.cmd[id].kind,
                                                 clientData |-> id])),
              !.cmd = [@ EXCEPT ![id].refCount = @ + 1],
              !.res = "OK"]

\* The command has an execution trace (CMD_HAS_EXEC_TRACES).  Traces are
\* on the initial commands of the names in DOMAIN ExecTraces; the trace
\* scripts are "enterDelete" (the enter trace runs rename name {}),
\* "leaveDelete" (the leave trace does) and "noop".
HasExecTraces(id) == id[1] \in DOMAIN ExecTraces /\ id[2] = 0

\* Variant of TEOV_RunEnterTraces that keeps using the command it was
\* given after the trace, without the epoch check.
TEOV_RunEnterTracesNoRecheck(s, id, name) ==
    LET s1 == [s EXCEPT !.cmd[id].refCount = @ + 1]
        s2 == IF ExecTraces[id[1]] = "enterDelete"
              THEN [s1 EXCEPT !.cmd = Tcl_DeleteCommandFromToken(@, id)]
              ELSE s1
        s3 == [s2 EXCEPT !.cmd = TclCleanupCommand(@, id)]
    IN [s |-> [Push(s3, Rec("TEOV_RunLeaveTraces", id))
                  EXCEPT !.cmd[id].refCount = @ + 1],
        id |-> id]

\* TEOV_RunEnterTraces(interp, &cmdPtr, ...): hold the command across its
\* enter trace, then look the name up again if the trace changed the
\* command's epoch; schedule the leave traces, with a reference, on the
\* command found.  The trace script runs to completion with TCL_OK and
\* leaves the interp result alone.  Returns [s, id], id NoCmd when the
\* name no longer resolves.
TEOV_RunEnterTraces(s, id, name) ==
    LET s1 == [s EXCEPT !.cmd[id].refCount = @ + 1]
        s2 == IF ExecTraces[id[1]] = "enterDelete"
              THEN [s1 EXCEPT !.cmd = Tcl_DeleteCommandFromToken(@, id)]
              ELSE s1
        s3 == [s2 EXCEPT !.cmd = TclCleanupCommand(@, id)]
        nid == IF s2.cmd[id].epoch # s.cmd[id].epoch THEN Lookup(s3.cmd, name)
               ELSE id
    IN [s |-> IF nid = NoCmd THEN s3
              ELSE [Push(s3, Rec("TEOV_RunLeaveTraces", nid))
                        EXCEPT !.cmd[nid].refCount = @ + 1],
        id |-> nid]

RECURSIVE TclNREvalObjv(_, _, _)

\* TEOV_NotFound: without a handler "invalid command name"; otherwise the
\* blocking Tcl_EvalObjv(handler, TCL_EVAL_NOERR), which starts a nested
\* TclNRRunCallbacks rooted at the current top.
TEOV_NotFound(s) ==
    IF Lookup(s.cmd, UnknownName) = NoCmd THEN [s EXCEPT !.res = "ERROR"]
    ELSE TclNREvalObjv([s EXCEPT !.loops = Append(@, LoopAt(s, "return"))],
                       UnknownName, TRUE)

\* TclNREvalObjv(interp, objc, objv, flags, NULL) with flags 0 or
\* TCL_EVAL_NOERR.
TclNREvalObjv(s0, name, noerr) ==
    LET s1 == TclInterpReady([Push(s0, Rec("NRCommand", NoCmd))
                                  EXCEPT !.lv = @ + 1])
        at == Len(s1.cb)
        s2 == IF noerr THEN s1 ELSE TEOV_PushExceptionHandlers(s1)
        id == Lookup(s2.cmd, name)
        t  == TEOV_RunEnterTraces(s2, id, name)
    IN IF s1.res # "OK" THEN s1
       ELSE IF id = NoCmd THEN TEOV_NotFound(s2)
       ELSE IF ~HasExecTraces(id) THEN CommandFound(s2, at, id)
       ELSE IF t.id = NoCmd THEN TEOV_NotFound(t.s)
       ELSE CommandFound(t.s, at, t.id)

\* The command name has a deletion callback (Tcl_DeleteCommandFromToken
\* then runs code that NRE leaves to the modules that create such commands).
HasDeleteProc(c, n) == Lookup(c, n) # NoCmd /\ c[Lookup(c, n)].deleteProc # "none"

\* TclRenameCommand(interp, name, ""): delete an existing command.
TclRenameCommand(s, name) ==
    LET id == Lookup(s.cmd, name)
    IN IF id = NoCmd THEN [s EXCEPT !.res = "ERROR"]
       ELSE [s EXCEPT !.cmd = Tcl_DeleteCommandFromToken(@, id),
                      !.res = "OK"]

-----------------------------------------------------------------------------
(* The trampoline, lines 4192-4256, and the callbacks it runs. *)

Init ==
    /\ ee = [e \in Envs |-> <<>>]
    /\ active = Main
    /\ rewind = [e \in Envs |-> FALSE]
    /\ evalFlags = AllowExceptions
    /\ loops = <<>>
    /\ result = "OK"
    /\ numLevels = 0
    /\ flags = {}
    /\ asyncReady = FALSE
    /\ cancelUnwind = FALSE
    /\ unwindAsked = FALSE
    /\ cmd = InitCmd
    /\ evals = 0
    /\ reqs = 0
    /\ hitCancel = FALSE
    /\ sawUnwind = FALSE
    /\ canceledEvals = 0
    /\ outcome = [code |-> "OK", saw |-> FALSE]

\* The innermost TclNRRunCallbacks has a callback to run.
Running == loops # <<>> /\ ~TopIsRoot(Last(loops))
Top == Last(ee[active])
\* TOP_CB(interp) = callbackPtr->nextPtr, as the loop does before the call.
Popped == [St EXCEPT !.cb = Front(@)]
Runs(p) == Running /\ Top.proc = p

ctlVars == <<active, rewind, cancelUnwind, unwindAsked, evals, reqs, canceledEvals, outcome>>

\* Tcl_EvalObjv(interp, 1, {name}, 0) called by the embedding application
\* on an idle interpreter.
Tcl_EvalObjv(name) ==
    /\ loops = <<>>
    /\ evals < MaxEvals
    /\ Commit(TclNREvalObjv([St EXCEPT !.loops = <<LoopAt(St, "host")>>,
                                       !.hit = FALSE, !.saw = FALSE],
                            name, FALSE))
    /\ evals' = evals + 1
    /\ UNCHANGED <<active, rewind, cancelUnwind, unwindAsked, reqs, canceledEvals, outcome>>

\* Tcl_CancelEval from another thread: record the flags, mark the handler.
Tcl_CancelEval(unwind) ==
    /\ reqs < MaxCancels
    /\ cancelUnwind' = unwind
    /\ unwindAsked' = ((asyncReady /\ unwindAsked) \/ unwind)
    /\ asyncReady' = TRUE
    /\ reqs' = reqs + 1
    /\ UNCHANGED <<ee, active, rewind, evalFlags, loops, result, numLevels,
                   flags, cmd, evals, hitCancel, sawUnwind, canceledEvals, outcome>>

\* Variant of LoopReturn whose loop keeps spinning at rootPtr.
LoopReturnSpins ==
    /\ loops # <<>>
    /\ TopIsRoot(Last(loops))
    /\ Last(loops).cont \in {"host", "return"}
    /\ UNCHANGED nreVars

\* The innermost TclNRRunCallbacks finds TOP_CB == rootPtr and returns
\* result to its caller (Tcl_EvalObjv, which returns it); when that is the
\* host's call, the evaluation completes.
LoopReturn ==
    /\ loops # <<>>
    /\ TopIsRoot(Last(loops))
    /\ Last(loops).cont \in {"host", "return"}
    /\ loops' = Front(loops)
    /\ IF Len(loops) = 1
       THEN /\ outcome' = [code |-> result, saw |-> sawUnwind]
            /\ canceledEvals' = canceledEvals + (IF hitCancel THEN 1 ELSE 0)
       ELSE UNCHANGED <<outcome, canceledEvals>>
    /\ UNCHANGED <<ee, active, rewind, evalFlags, result, numLevels, flags,
                   asyncReady,
                   cancelUnwind, unwindAsked, cmd, evals, reqs, hitCancel, sawUnwind>>

\* NRCommand: release the command, leave the level, run pending async
\* handlers, then report a cancellation if the command succeeded.
NRCommand ==
    /\ Runs("NRCommand")
    /\ LET s0 == Popped
           s1 == IF Arg(Top) = NoCmd THEN s0
                 ELSE [s0 EXCEPT !.cmd = TclCleanupCommand(@, Arg(Top))]
           s2 == [s1 EXCEPT !.lv = @ - 1]
           s3 == IF s2.async THEN CancelEvalProc(s2) ELSE s2
       IN Commit(IF s3.res = "OK" THEN Tcl_Canceled(s3, FALSE, TRUE) ELSE s3)
    /\ UNCHANGED ctlVars

\* NRRunObjProc: call the objProc only if the result so far is TCL_OK.
\* The objProcs are the command kinds: return a code; evaluate a command
\* (eval); evaluate one under a catch callback (catch); delete a command
\* (rename name {}).
NRRunObjProc ==
    /\ Runs("NRRunObjProc")
    /\ LET s == Popped
           k == Arg(Top).objProc
       IN \/ s.res # "OK" /\ Commit(s)
          \/ s.res = "OK" /\ k \in ReturnKinds
                          /\ Commit([s EXCEPT !.res = Code[k]])
          \/ s.res = "OK" /\ k = "eval"
                          /\ \E n \in Names : Commit(TclNREvalObjv(s, n, FALSE))
          \/ s.res = "OK" /\ k = "catch"
                          /\ \E n \in Names :
                               Commit(TclNREvalObjv(Push(s, Rec("Catch", None)),
                                                    n, FALSE))
          \/ s.res = "OK" /\ k = "delete"
                          /\ \E n \in Names :
                               /\ ~HasDeleteProc(s.cmd, n)
                               /\ Commit(TclRenameCommand(s, n))
    /\ UNCHANGED ctlVars

\* TEOV_RunLeaveTraces: run the leave trace unless the command was deleted
\* meanwhile, then release the reference; the command's code passes.
TEOV_RunLeaveTraces ==
    /\ Runs("TEOV_RunLeaveTraces")
    /\ LET id == Arg(Top)
           s1 == IF ~Popped.cmd[id].deleted /\ ExecTraces[id[1]] = "leaveDelete"
                 THEN [Popped EXCEPT !.cmd = Tcl_DeleteCommandFromToken(@, id)]
                 ELSE Popped
       IN Commit([s1 EXCEPT !.cmd = TclCleanupCommand(@, id)])
    /\ UNCHANGED ctlVars

\* TEOV_Error: logs the command of a failure; the code passes unchanged.
TEOV_Error ==
    /\ Runs("TEOV_Error")
    /\ Commit(Popped)
    /\ UNCHANGED ctlVars

\* TEOV_Exception, back at level 0: a code other than OK and ERROR becomes
\* ERROR unless exceptions are allowed; the cancel flags are cleared.
TEOV_Exception ==
    /\ Runs("TEOV_Exception")
    /\ LET s == Popped
       IN Commit([s EXCEPT !.res = IF @ \notin {"OK", "ERROR"} /\ ~Arg(Top)
                                   THEN "ERROR" ELSE @,
                           !.fl = {}])
    /\ UNCHANGED ctlVars

\* The callback of a catch-like command (tclCmdAH.c and tclExecute.c, not
\* part of this file): a failure is caught unless the environment is being
\* rewound or the stack unwound, which it asks
\* Tcl_Canceled(interp, TCL_CANCEL_UNWIND).
CatchCallback ==
    /\ Runs("Catch")
    /\ LET s == Popped
       IN Commit(IF s.res = "OK" \/ s.rw THEN s
                 ELSE Tcl_Canceled(s, TRUE, FALSE))
    /\ UNCHANGED ctlVars

\* The host has made all its evaluations and is idle.
Finished ==
    /\ loops = <<>>
    /\ evals = MaxEvals
    /\ UNCHANGED nreVars

InterpStep ==
    \/ NRCommand \/ NRRunObjProc \/ TEOV_Error \/ TEOV_Exception
    \/ TEOV_RunLeaveTraces
    \/ CatchCallback \/ LoopReturn

Next ==
    \/ \E n \in Names : Tcl_EvalObjv(n)
    \/ \E u \in BOOLEAN : Tcl_CancelEval(u)
    \/ InterpStep
    \/ Finished

Spec == Init /\ [][Next]_nreVars /\ WF_nreVars(InterpStep)

-----------------------------------------------------------------------------
(* Properties. *)

\* The callback records dispatch can push, by procPtr and data.
IsCallback(r) ==
    CASE r.proc = "NRCommand"      -> Arg(r) \in DOMAIN cmd \cup {NoCmd}
      [] r.proc = "NRRunObjProc"   -> Arg(r) \in [objProc : NRKinds,
                                                  clientData : DOMAIN cmd]
      [] r.proc = "TEOV_Exception" -> Arg(r) \in BOOLEAN
      [] r.proc = "TEOV_RunLeaveTraces" -> Arg(r) \in DOMAIN cmd
      [] r.proc \in {"TEOV_Error", "Catch"} -> Arg(r) = None
      [] OTHER -> FALSE

\* Type invariant; numLevels also stays within the nesting limit that
\* TclInterpReady enforces (one above it for the command it refuses).
TypeOK ==
    /\ \A e \in DOMAIN ee : \A i \in DOMAIN ee[e] : IsCallback(ee[e][i])
    /\ loops \in Seq([env : Envs, len : Nat, cont : LoopConts, data : {NoData}])
    /\ result \in Codes
    /\ numLevels \in 0..(MaxNestingDepth + 1)
    /\ flags \subseteq CancelFlags
    /\ outcome \in [code : Codes, saw : BOOLEAN]

\* The NRCommand and TEOV_RunLeaveTraces records that hold a reference to
\* command id.
StackRefs(id) ==
    SumFunction([e \in DOMAIN ee |->
        Cardinality({i \in DOMAIN ee[e] :
                        /\ ee[e][i].proc \in {"NRCommand", "TEOV_RunLeaveTraces"}
                        /\ Arg(ee[e][i]) = id})])

\* Command lifetime (TclNREvalObjv's refCount++, NRCommand's and
\* Tcl_DeleteCommandFromToken's TclCleanupCommand): a command's refCount is
\* exactly its table entry plus the NRCommand and leave-trace records of
\* commands in progress, so a command deleted while it runs (even by
\* itself, or by its own execution trace) is freed only when its last
\* such record has run, and never referenced after.
CommandLifetime ==
    \A id \in DOMAIN cmd :
        IF cmd[id].freed THEN StackRefs(id) = 0
        ELSE cmd[id].refCount = (IF cmd[id].deleted THEN 0 ELSE 1) + StackRefs(id)

\* Cancellation with TCL_CANCEL_UNWIND (Tcl_Canceled, the catch check,
\* TEOV_Exception): once CancelEvalProc has set the unwind flag during a
\* top-level evaluation, no catch on the way up absorbs it and the host's
\* Tcl_EvalObjv returns TCL_ERROR.
UnwindNotSwallowed == outcome.saw => outcome.code = "ERROR"

\* TEOV_Exception at level 1: without TCL_ALLOW_EXCEPTIONS a break raised
\* at any depth, or by the unknown handler's nested evaluation, reaches the
\* host only as TCL_ERROR.
TopLevelCodes == ~AllowExceptions => outcome.code \in {"OK", "ERROR"}

\* Spec 4.5: the unwind state lasts until the stack is back at depth zero,
\* so each Tcl_CancelEval request makes at most one top-level evaluation
\* report a cancel error.
CancelNotSticky == canceledEvals <= reqs

\* Spec 4.5 and 7: a request with unwindAll cannot be caught.  Tcl_CancelEval
\* stores its flags in the one cancelInfo and marks the one async handler;
\* while the handler is still pending, the flags it will apply ask for the
\* unwind whenever any request made since it was marked did.
UnwindRequestKept == asyncReady /\ unwindAsked => cancelUnwind

\* Every Tcl_EvalObjv of the host returns: the trampoline and its nested
\* loops drain, whatever the commands and cancel requests do.
EvalCompletes == loops # <<>> ~> loops = <<>>

=============================================================================
