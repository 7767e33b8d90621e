------------------------------ MODULE Coroutine ------------------------------
(***************************************************************************)
(* Coroutines of tclBasic.c on top of the NRE engine: [coroutine]          *)
(* (TclNRCoroutineObjCmd), [yield] (TclNRYieldObjCmd), resuming a          *)
(* coroutine by calling its command (NRInterpCoroutine), deleting it       *)
(* (DeleteCoroutine, RewindCoroutine) and the callbacks that join the      *)
(* coroutine's execution environment to its caller's                       *)
(* (NRCoroutineCallerCallback, NRCoroutineFirstCallback,                   *)
(* NRCoroutineExitCallback, TEOEx_ByteCodeCallback, NRCallTEBC).            *)
(*                                                                         *)
(* A coroutine is identified with its command: the CoroutineData created  *)
(* with command id c is cor[c], and its execution environment is the env  *)
(* c.  Its fields are                                                      *)
(*   alive   corPtr->eePtr != NULL (the env exists);                       *)
(*   caller  corPtr->callerEEPtr;                                          *)
(*   level   corPtr->stackLevel: 0 for NULL (COR_IS_SUSPENDED), else the   *)
(*           depth in loops of the TEBC frame running the coroutine;       *)
(*   aux     corPtr->auxNumLevels;                                         *)
(*   freed   corPtr was released by ckfree;                                *)
(*   rest    the commands of the body's bytecode not yet started.          *)
(*                                                                         *)
(* TclExecuteByteCode (tclExecute.c, outside this file) is modelled from   *)
(* what this file relies on: a TEBC frame is a TclNRRunCallbacks rooted at *)
(* the bottom of the coroutine's stack (below it only the exit and         *)
(* bytecode callbacks); it records itself in stackLevel; it runs the      *)
(* body's commands in order, each dispatched with TCL_EVAL_NOERR, and      *)
(* stops at the first that does not return TCL_OK; a yield record reaching *)
(* it while it is the innermost frame suspends the coroutine, and when the *)
(* env is being rewound it returns TCL_ERROR.                              *)
(***************************************************************************)
EXTENDS NRE

CONSTANTS
    CorNames,   \* the names a [coroutine] command may be given
    Bodies      \* the bodies it may be given: non-empty sequences of command names

VARIABLE cor   \* [coroutine ids created so far -> CoroutineData]

vars == <<nreVars, cor>>

\* The records below a coroutine's bytecode: its exit callback and the
\* TEOEx_ByteCodeCallback of its body.
TebcBottom == 2

CorCallbacks == {"NRCoroutineCallerCallback", "NRCoroutineFirstCallback",
                 "NRCoroutineExitCallback"}

-----------------------------------------------------------------------------
(* The state record extended with every env's stack and rewind flag and   *)
(* the coroutines; the fields cb and rw are those of the env s.env.       *)

CSt == [cb |-> ee[active], env |-> active, rw |-> rewind[active],
        ef |-> evalFlags, loops |-> loops, res |-> result, lv |-> numLevels,
        fl |-> flags, async |-> asyncReady, cmd |-> cmd, hit |-> hitCancel,
        saw |-> sawUnwind, ees |-> ee, rws |-> rewind, cor |-> cor]

CCommit(s) ==
    /\ ee' = [s.ees EXCEPT ![s.env] = s.cb]
    /\ active' = s.env
    /\ rewind' = [s.rws EXCEPT ![s.env] = s.rw]
    /\ evalFlags' = s.ef
    /\ loops' = s.loops
    /\ result' = s.res
    /\ numLevels' = s.lv
    /\ flags' = s.fl
    /\ asyncReady' = s.async
    /\ cmd' = s.cmd
    /\ hitCancel' = s.hit
    /\ sawUnwind' = s.saw
    /\ cor' = s.cor
    /\ UNCHANGED <<cancelUnwind, unwindAsked, evals, reqs, canceledEvals, outcome>>

CPopped == [CSt EXCEPT !.cb = Front(@)]

\* iPtr->execEnvPtr = e: park the current stack, make e's current.
SwitchEnv(s, e) ==
    [s EXCEPT !.ees = [@ EXCEPT ![s.env] = s.cb],
              !.rws = [@ EXCEPT ![s.env] = s.rw],
              !.env = e, !.cb = s.ees[e], !.rw = s.rws[e]]

\* COR_IS_SUSPENDED(corPtr)
CorSuspended(s, c) == s.cor[c].level = 0

\* TclExecuteByteCode entered in env s.env: a nested TclNRRunCallbacks down
\* to the bottom of the coroutine's stack, recorded in stackLevel; cont and
\* data say who receives its result.
TebcEnter(s, cont, data) ==
    LET l == Append(s.loops, [env |-> s.env, len |-> TebcBottom,
                              cont |-> cont, data |-> data])
    IN [s EXCEPT !.loops = l, !.cor = [@ EXCEPT ![s.env].level = Len(l)]]

-----------------------------------------------------------------------------
(* Resuming, yielding, rewinding: lines 8137-8208 and 8341-8386. *)

\* Variant of NRInterpCoroutine that does not add the coroutine's own
\* levels back to numLevels.
NRInterpCoroutineNoNest(s, c) ==
    IF ~CorSuspended(s, c) THEN [s EXCEPT !.res = "ERROR"]
    ELSE LET s1 == [Push(s, Rec("NRCoroutineCallerCallback", c))
                      EXCEPT !.cor = [@ EXCEPT ![c].aux = s.lv,
                                               ![c].caller = s.env]]
             s2 == SwitchEnv(s1, c)
         IN TebcEnter([s2 EXCEPT !.res = IF s2.rw THEN "ERROR" ELSE "OK"],
                      "tebc", NoData)

\* Variant of NRInterpCoroutine without the COR_IS_SUSPENDED check.
NRInterpCoroutineNoBusyCheck(s, c) ==
    LET s1 == [Push(s, Rec("NRCoroutineCallerCallback", c))
                 EXCEPT !.cor = [@ EXCEPT ![c].aux = s.lv, ![c].caller = s.env],
                        !.lv = @ + s.cor[c].aux]
        s2 == SwitchEnv(s1, c)
    IN TebcEnter([s2 EXCEPT !.res = IF s2.rw THEN "ERROR" ELSE "OK"],
                 "tebc", NoData)

\* NRInterpCoroutine: refuse a running coroutine; otherwise swap the level
\* count, leave the caller callback in the caller's env, switch to the
\* coroutine's env and resume its TEBC, which returns TCL_ERROR at once
\* when the env is being rewound.
NRInterpCoroutine(s, c) ==
    IF ~CorSuspended(s, c) THEN [s EXCEPT !.res = "ERROR"]
    ELSE LET s1 == [Push(s, Rec("NRCoroutineCallerCallback", c))
                      EXCEPT !.cor = [@ EXCEPT ![c].aux = s.lv,
                                               ![c].caller = s.env],
                             !.lv = @ + s.cor[c].aux]
             s2 == SwitchEnv(s1, c)
         IN TebcEnter([s2 EXCEPT !.res = IF s2.rw THEN "ERROR" ELSE "OK"],
                      "tebc", NoData)

\* RewindCoroutine(corPtr, result): mark the env rewinding and resume it;
\* the saved interp state (the code result) is restored when its TEBC
\* returns, which the loop's cont "rewind" and data record.
RewindCoroutine(s, c, code) ==
    LET s1 == NRInterpCoroutine([s EXCEPT !.rws = [@ EXCEPT ![c] = TRUE]], c)
    IN [s1 EXCEPT !.loops = [@ EXCEPT ![Len(@)] = [@ EXCEPT !.cont = "rewind",
                                                           !.data = [code |-> code]]]]

\* Variant of TclNRYieldObjCmd that stores numLevels in auxNumLevels
\* without subtracting the caller's levels.
TclNRYieldObjCmdNoSwap(s) ==
    IF s.env = Main THEN [s EXCEPT !.res = "ERROR"]
    ELSE [Push(s, Rec("NRCallTEBC", [type |-> "YIELD", body |-> <<>>]))
            EXCEPT !.lv = s.cor[s.env].aux,
                   !.cor = [@ EXCEPT ![s.env].aux = s.lv],
                   !.res = "OK"]

\* TclNRYieldObjCmd: only inside a coroutine; swap the level count and
\* ask the TEBC below to suspend.
TclNRYieldObjCmd(s) ==
    IF s.env = Main THEN [s EXCEPT !.res = "ERROR"]
    ELSE [Push(s, Rec("NRCallTEBC", [type |-> "YIELD", body |-> <<>>]))
            EXCEPT !.lv = s.cor[s.env].aux,
                   !.cor = [@ EXCEPT ![s.env].aux = s.lv - @],
                   !.res = "OK"]

-----------------------------------------------------------------------------
(* Creating and deleting: lines 2146-2215, 2862-3025, 7902-7925 and       *)
(* 8388-8515.                                                             *)

\* The id of the next command created under name cn.
NewCorId(c, cn) == <<cn, Cardinality({i \in DOMAIN c : i[1] = cn})>>

\* TclNRCoroutineObjCmd after Tcl_NRCreateCommand found no command left
\* under cn: create the command (refCount 1 for the table, one more for
\* corPtr->cmdPtr), leave the caller and first callbacks in the caller's
\* env, switch to the new env, push the exit callback, have
\* TclNREvalObjEx schedule the body as bytecode, and run all that in a
\* nested TclNRRunCallbacks rooted at the caller's top on entry.
CoroutineCreateRest(s, cn, body, id) ==
    LET s1 == [s EXCEPT !.cmd = (id :> [CmdRec(cn, "resume", "DeleteCoroutine")
                                          EXCEPT !.refCount = 2]) @@ @]
        s2 == SwitchEnv(Push(Push(s1, Rec("NRCoroutineCallerCallback", id)),
                             Rec("NRCoroutineFirstCallback", id)), id)
        s3 == Push([s2 EXCEPT !.cor = [@ EXCEPT ![id].aux = s2.lv]],
                   Rec("NRCoroutineExitCallback", id))
        s4 == Push(Push(s3, Rec("TEOEx_ByteCodeCallback", s3.ef)),
                   Rec("NRCallTEBC", [type |-> "BC", body |-> body]))
    IN [s4 EXCEPT !.loops = Append(@, LoopAt(s, "return")), !.res = "OK"]

\* What the caller of Tcl_DeleteCommandFromToken does once it returns:
\* TclRenameCommand returns TCL_OK (2416-2417), Tcl_CreateObjCommand takes
\* the entry again and creates the new command (2176).  Its throw-away of
\* a command the deletion re-created (2177-2185) never applies here:
\* DeleteCoroutine and the coroutine's callbacks create no command.
AfterDelete(s, d) ==
    IF d.then = "rename" THEN [s EXCEPT !.res = "OK"]
    ELSE CoroutineCreateRest(s, d.cn, d.body, d.id)

RenameDone == [then |-> "rename", cn |-> None, body |-> <<>>, id |-> NoCmd,
               victim |-> NoCmd]

\* Tcl_DeleteCommandFromToken of a command whose deleteProc is
\* DeleteCoroutine: a suspended coroutine is rewound in a nested
\* TclNRRunCallbacks rooted at the current top, and the deletion finishes
\* when that returns; a running one is left to notice CMD_IS_DELETED.
TclDeleteCoroutineCommand(s, id, d) ==
    IF s.cmd[id].deleted THEN AfterDelete([s EXCEPT !.cmd = DeleteNested(@, id)], d)
    ELSE LET s1 == [s EXCEPT !.cmd = DeleteStart(@, id)]
         IN IF CorSuspended(s1, id)
            THEN RewindCoroutine(
                   [s1 EXCEPT !.loops = Append(@, [LoopAt(s1, "delete")
                                          EXCEPT !.data = [d EXCEPT !.victim = id]])],
                   id, "OK")
            ELSE AfterDelete([s1 EXCEPT !.cmd = DeleteFinish(@, id)], d)

\* TclNRCoroutineObjCmd(name cn, cmd body): allocate corPtr and its env
\* (caller = current env, not yet running), then Tcl_NRCreateCommand,
\* which first deletes a command already named cn.
TclNRCoroutineObjCmd(s, cn, body) ==
    LET id == NewCorId(s.cmd, cn)
        s1 == [s EXCEPT !.cor = (id :> [alive |-> TRUE, caller |-> s.env,
                                        level |-> 0, aux |-> 0,
                                        freed |-> FALSE, rest |-> <<>>]) @@ @]
        old == Lookup(s.cmd, cn)
    IN IF old = NoCmd THEN CoroutineCreateRest(s1, cn, body, id)
       ELSE IF s.cmd[old].deleteProc = "none"
       THEN CoroutineCreateRest([s1 EXCEPT !.cmd = Tcl_DeleteCommandFromToken(@, old)],
                                cn, body, id)
       ELSE TclDeleteCoroutineCommand(s1, old,
                [then |-> "create", cn |-> cn, body |-> body, id |-> id,
                 victim |-> NoCmd])

-----------------------------------------------------------------------------
(* The actions. *)

ctlRest == <<cancelUnwind, unwindAsked, evals, reqs, canceledEvals, outcome>>

\* NRRunObjProc with TCL_OK calling the objProc of [coroutine], [yield],
\* a coroutine's command (NRInterpCoroutine), or [rename name {}] of a
\* command with a deletion callback.
CorRunObjProc ==
    /\ Runs("NRRunObjProc")
    /\ result = "OK"
    /\ LET s == CPopped
           k == Arg(Top).objProc
       IN \/ k = "coroutine"
             /\ \E cn \in CorNames, b \in Bodies :
                  /\ NewCorId(cmd, cn) \in Envs
                  /\ CCommit(TclNRCoroutineObjCmd(s, cn, b))
          \/ k = "yield" /\ CCommit(TclNRYieldObjCmd(s))
          \/ k = "resume" /\ CCommit(NRInterpCoroutine(s, Arg(Top).clientData))
          \/ k = "delete"
             /\ \E n \in Names :
                  /\ HasDeleteProc(s.cmd, n)
                  /\ CCommit(TclDeleteCoroutineCommand(s, Lookup(s.cmd, n),
                                                        RenameDone))

\* NRCallTEBC(TCL_NR_BC_TYPE) run by a plain TclNRRunCallbacks: enter
\* TEBC on the body, which dispatches its first command.
NRCallTEBCBytecode ==
    /\ Runs("NRCallTEBC")
    /\ Arg(Top).type = "BC"
    /\ LET b == Arg(Top).body
           s == TebcEnter(CPopped, "tebc", NoData)
       IN CCommit(TclNREvalObjv([s EXCEPT !.cor = [@ EXCEPT ![active].rest = Tail(b)]],
                                Head(b), TRUE))

\* A yield request on top: a TEBC frame that is the innermost C frame
\* (TclNRRunCallbacks with tebcCall stops at NRCallTEBC) and the running
\* coroutine's suspends it: stackLevel = NULL, back to the caller's env,
\* the TEBC returns TCL_OK.  Any other loop calls NRCallTEBC, which fails
\* with "cannot yield: C stack busy".
NRCallTEBCYield ==
    /\ Runs("NRCallTEBC")
    /\ Arg(Top).type = "YIELD"
    /\ LET s == CPopped
           c == active
       IN CCommit(IF c # Main /\ cor[c].level = Len(loops)
                  THEN [SwitchEnv([s EXCEPT !.cor = [@ EXCEPT ![c].level = 0],
                                            !.loops = Front(@)],
                                  cor[c].caller) EXCEPT !.res = "OK"]
                  ELSE [s EXCEPT !.res = "ERROR"])

\* Variant of NRCoroutineCallerCallback without the CMD_IS_DELETED check.
NRCoroutineCallerCallbackNoRewind ==
    /\ Runs("NRCoroutineCallerCallback")
    /\ LET c == Arg(Top)
           s == CPopped
       IN CCommit(IF ~s.cor[c].alive
                  THEN [s EXCEPT !.cor = [@ EXCEPT ![c].freed = TRUE]]
                  ELSE s)

\* NRCoroutineCallerCallback: free corPtr once its env is gone; rewind a
\* coroutine whose command was deleted while it ran; else pass the result.
NRCoroutineCallerCallback ==
    /\ Runs("NRCoroutineCallerCallback")
    /\ LET c == Arg(Top)
           s == CPopped
       IN CCommit(IF ~s.cor[c].alive
                  THEN [s EXCEPT !.cor = [@ EXCEPT ![c].freed = TRUE]]
                  ELSE IF s.cmd[c].deleted THEN RewindCoroutine(s, c, s.res)
                  ELSE s)

\* NRCoroutineFirstCallback only records a CmdFrame; the result passes.
NRCoroutineFirstCallback ==
    /\ Runs("NRCoroutineFirstCallback")
    /\ Commit(Popped)
    /\ UNCHANGED <<ctlVars, cor>>

\* Variant of NRCoroutineExitCallback without TclCleanupCommandMacro.
NRCoroutineExitCallbackNoCleanup ==
    /\ Runs("NRCoroutineExitCallback")
    /\ LET c == Arg(Top)
           s == CPopped
           s1 == [s EXCEPT !.cmd = Tcl_DeleteCommandFromToken(
                                      [@ EXCEPT ![c].deleteProc = "none"], c),
                           !.cor = [@ EXCEPT ![c].alive = FALSE]]
       IN CCommit(SwitchEnv(s1, s.cor[c].caller))

\* Variant of NRCoroutineExitCallback that returns to the interp's main
\* env instead of corPtr->callerEEPtr.
NRCoroutineExitCallbackToMain ==
    /\ Runs("NRCoroutineExitCallback")
    /\ LET c == Arg(Top)
           s == CPopped
           s1 == [s EXCEPT !.cmd = TclCleanupCommand(Tcl_DeleteCommandFromToken(
                                      [@ EXCEPT ![c].deleteProc = "none"], c), c),
                           !.cor = [@ EXCEPT ![c].alive = FALSE]]
       IN CCommit(SwitchEnv(s1, Main))

\* NRCoroutineExitCallback, at the bottom of a finished or rewound
\* coroutine: delete its command without calling DeleteCoroutine, drop
\* corPtr's reference, delete the env, return to the caller's env.
NRCoroutineExitCallback ==
    /\ Runs("NRCoroutineExitCallback")
    /\ LET c == Arg(Top)
           s == CPopped
           s1 == [s EXCEPT !.cmd = TclCleanupCommand(Tcl_DeleteCommandFromToken(
                                      [@ EXCEPT ![c].deleteProc = "none"], c), c),
                           !.cor = [@ EXCEPT ![c].alive = FALSE]]
       IN CCommit(SwitchEnv(s1, s.cor[c].caller))

\* TEOEx_ByteCodeCallback: back at level 0, a code other than OK and
\* ERROR becomes ERROR unless exceptions were allowed, and the cancel
\* flags are cleared; evalFlags is reset in any case.
TEOEx_ByteCodeCallback ==
    /\ Runs("TEOEx_ByteCodeCallback")
    /\ LET s == Popped
           top == [s EXCEPT !.res = IF @ \notin {"OK", "ERROR"} /\ ~Arg(Top)
                                    THEN "ERROR" ELSE @,
                            !.fl = {}]
       IN Commit([IF s.lv = 0 THEN top ELSE s EXCEPT !.ef = FALSE])
    /\ UNCHANGED <<ctlVars, cor>>

\* A TEBC frame finds its coroutine's stack at the bottom after a command
\* returned TCL_OK and dispatches the next command of the body.
TebcNextCommand ==
    /\ loops # <<>>
    /\ TopIsRoot(Last(loops))
    /\ Last(loops).cont \in {"tebc", "rewind"}
    /\ result = "OK"
    /\ cor[active].rest # <<>>
    /\ CCommit(TclNREvalObjv([CSt EXCEPT !.cor = [@ EXCEPT ![active].rest = Tail(@)]],
                             Head(cor[active].rest), TRUE))

\* A TEBC frame at the bottom with the body done or failed returns to
\* NRCallTEBC or NRInterpCoroutine, which return its result; under
\* RewindCoroutine the saved interp state replaces it.
TebcReturn ==
    /\ loops # <<>>
    /\ TopIsRoot(Last(loops))
    /\ Last(loops).cont \in {"tebc", "rewind"}
    /\ result # "OK" \/ cor[active].rest = <<>>
    /\ loops' = Front(loops)
    /\ result' = IF Last(loops).cont = "rewind" THEN Last(loops).data.code ELSE result
    /\ UNCHANGED <<ee, active, rewind, evalFlags, numLevels, flags, asyncReady,
                   cmd, hitCancel, sawUnwind, cor, ctlRest>>

\* The TclNRRunCallbacks of DeleteCoroutine returns: the deletion of the
\* command finishes and its caller goes on.
DeleteReturn ==
    /\ loops # <<>>
    /\ TopIsRoot(Last(loops))
    /\ Last(loops).cont = "delete"
    /\ LET d == Last(loops).data
       IN CCommit(AfterDelete([CSt EXCEPT !.loops = Front(@),
                                          !.cmd = DeleteFinish(@, d.victim)], d))

CorStep ==
    \/ CorRunObjProc \/ NRCallTEBCBytecode \/ NRCallTEBCYield
    \/ NRCoroutineCallerCallback \/ NRCoroutineFirstCallback
    \/ NRCoroutineExitCallback \/ TEOEx_ByteCodeCallback
    \/ TebcNextCommand \/ TebcReturn \/ DeleteReturn

CorInit == Init /\ cor = [c \in {} |-> None]

CorNext ==
    \/ (\E n \in Names : Tcl_EvalObjv(n)) /\ UNCHANGED cor
    \/ (\E u \in BOOLEAN : Tcl_CancelEval(u)) /\ UNCHANGED cor
    \/ InterpStep /\ UNCHANGED cor
    \/ CorStep
    \/ Finished /\ UNCHANGED cor

CorSpec == CorInit /\ [][CorNext]_vars /\ WF_vars((InterpStep /\ UNCHANGED cor) \/ CorStep)

-----------------------------------------------------------------------------
(* Properties. *)

CorKinds == {"coroutine", "yield", "resume"}

IsCorCallback(r) ==
    CASE r.proc \in CorCallbacks -> Arg(r) \in DOMAIN cor
      [] r.proc = "TEOEx_ByteCodeCallback" -> Arg(r) \in BOOLEAN
      [] r.proc = "NRCallTEBC" -> Arg(r) \in [type : {"BC"}, body : Bodies]
                                             \cup [type : {"YIELD"}, body : {<<>>}]
      [] r.proc = "NRRunObjProc" -> Arg(r) \in [objProc : NRKinds \cup CorKinds,
                                               clientData : DOMAIN cmd]
      [] OTHER -> IsCallback(r)

\* Type invariant of the coroutine model.
CorTypeOK ==
    /\ \A e \in DOMAIN ee : \A i \in DOMAIN ee[e] : IsCorCallback(ee[e][i])
    /\ \A i \in DOMAIN loops : loops[i].env \in Envs /\ loops[i].cont \in LoopConts
    /\ active \in Envs
    /\ result \in Codes
    /\ numLevels \in Nat
    /\ flags \subseteq CancelFlags
    /\ DOMAIN cor \subseteq Envs \ {Main}
    /\ \A c \in DOMAIN cor :
          cor[c] \in [alive : BOOLEAN, caller : Envs, level : Nat, aux : Int,
                      freed : BOOLEAN, rest : Seq(Names)]

\* The NRCommand records of env e: the levels of commands in progress there.
NRCount(e) == Cardinality({i \in DOMAIN ee[e] : ee[e][i].proc = "NRCommand"})

\* The running env and its callers, following callerEEPtr to Main (cut at
\* the number of envs, so a cycle shows as a repeated env).
RECURSIVE CallerWalk(_, _)
CallerWalk(e, n) ==
    IF e = Main \/ n = 0 THEN <<e>> ELSE <<e>> \o CallerWalk(cor[e].caller, n - 1)

Chain == CallerWalk(active, Cardinality(Envs))

LevelsOf(w) == SumFunction([i \in DOMAIN w |-> NRCount(w[i])])

\* A yield request is on top of the running env: TclNRYieldObjCmd has
\* swapped the counts, the suspension has not happened yet.
YieldPending ==
    /\ ee[active] # <<>>
    /\ Last(ee[active]).proc = "NRCallTEBC"
    /\ Arg(Last(ee[active])).type = "YIELD"

\* The levels the code keeps across yield and resume (TclNRYieldObjCmd and
\* NRInterpCoroutine swap numLevels and auxNumLevels): numLevels counts the
\* commands in progress in the running env and all its callers, a running
\* coroutine's auxNumLevels those of its callers, and a suspended
\* coroutine's those it left in its own env; between a yield and the
\* suspension the running coroutine already counts as suspended.
LevelsAccounting ==
    LET y == YieldPending
        From(i) == LevelsOf(SubSeq(Chain, i, Len(Chain)))
    IN /\ numLevels = From(IF y THEN 2 ELSE 1)
       /\ \A i \in 1..(Len(Chain) - 1) :
             cor[Chain[i]].aux = IF y /\ i = 1 THEN NRCount(Chain[1])
                                 ELSE From(i + 1)
       /\ \A c \in DOMAIN cor :
             cor[c].alive /\ CorSuspended(CSt, c) /\ c \notin ToSet(Chain)
               => cor[c].aux = NRCount(c)

\* A coroutine never runs inside itself (NRInterpCoroutine refuses a
\* coroutine that is not suspended, the exit callback restores the
\* caller): the caller chain of the running env is a list of distinct live
\* coroutines ending in Main.
NoReentry ==
    /\ Last(Chain) = Main
    /\ IsInjective(Chain)
    /\ \A i \in 1..(Len(Chain) - 1) : cor[Chain[i]].alive

\* The callback records that use corPtr c.
CorRefs(c) ==
    SumFunction([e \in DOMAIN ee |->
        Cardinality({i \in DOMAIN ee[e] : ee[e][i].proc \in CorCallbacks
                                           /\ Arg(ee[e][i]) = c})])

\* Tcl_DeleteCommandFromToken(id) waits for DeleteCoroutine's nested loop.
DeletePending(id) ==
    \E i \in DOMAIN loops : loops[i].cont = "delete" /\ loops[i].data.victim = id

\* Lifetimes of coroutine commands and corPtr (corPtr's reference on its
\* command, dropped by the exit callback; ckfree of corPtr by the caller
\* callback that finds the env gone): a command's refCount is its table
\* entry (until its deletion finishes), the NRCommand records and
\* corPtr's reference; a freed corPtr is
\* used by no callback, and one whose env is gone is not leaked: a caller
\* callback that will free it is still pending.
CorLifetime ==
    /\ \A id \in DOMAIN cmd :
          IF cmd[id].freed THEN StackRefs(id) = 0
          ELSE cmd[id].refCount = (IF cmd[id].deleted /\ ~DeletePending(id) THEN 0 ELSE 1)
                                  + StackRefs(id)
                                  + (IF id \in DOMAIN cor /\ cor[id].alive THEN 1 ELSE 0)
    /\ \A c \in DOMAIN cor :
          /\ cor[c].freed => ~cor[c].alive /\ CorRefs(c) = 0
          /\ ~cor[c].alive /\ ~cor[c].freed => CorRefs(c) > 0

\* A coroutine whose command is deleted, running or suspended, is rewound
\* and its CoroutineData freed before the host's evaluation returns
\* (DeleteCoroutine's synchronous rewind, the caller callback's
\* CMD_IS_DELETED check, the exit callback): an idle interpreter holds no
\* deleted coroutine that is still alive or not yet freed.
DeletedCoroutineFreed ==
    loops = <<>> =>
        \A c \in DOMAIN cor : c \in DOMAIN cmd /\ cmd[c].deleted => cor[c].freed

-----------------------------------------------------------------------------
(* Refinement of CoroutineAbstract. *)

\* A coroutine exists once its command does (TclNRCoroutineObjCmd allocates
\* corPtr first, then Tcl_NRCreateCommand may rewind the coroutine that had
\* the name before); it is running while its env is on the caller chain of
\* the active env, suspended while it is alive and off the chain, done once
\* its env was deleted by the exit callback.
CorStatus(c) ==
    IF c \notin DOMAIN cor \/ c \notin DOMAIN cmd THEN "none"
    ELSE IF ~cor[c].alive THEN "done"
    ELSE IF c \in ToSet(Chain) THEN "running"
    ELSE "suspended"

CorAbs == INSTANCE CoroutineAbstract
              WITH Cors <- Envs \ {Main},
                   corState <- [c \in Envs \ {Main} |-> CorStatus(c)],
                   corStack <- Reverse(Front(Chain))

\* The env switches of NRInterpCoroutine, the yield in NRCallTEBC, the
\* exit callback and the rewinds of deletion implement spec 4.4: control
\* always returns to the coroutine's resumer, a coroutine starts running
\* when created and never runs after it is done.
CoroutineRefinement == CorAbs!Spec
=============================================================================
