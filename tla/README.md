# TLA+ models of the Tcl 8.6 evaluation core (src/generic/tclBasic.c)

This directory holds TLA+ models of the execution core of the interpreter in
`src/generic/tclBasic.c`:

- the non-recursive evaluation engine (NRE);
- command dispatch;
- the command table;
- coroutines;
- asynchronous script cancellation;
- TIP #280 argument-location tracking.

The models are checked with TLC. `PROJECT.json` lists the components, the runs,
the mutants that show each property depends on the code, the map from every
definition to the source lines it translates, the findings, and the hazards.

## The system and how its parts interact

- **Command registry.** `Tcl_CreateObjCommand`/`Tcl_CreateCommand`,
  `Tcl_DeleteCommandFromToken`, `TclCleanupCommand`, `TclRenameCommand`,
  `Tcl_HideCommand`, `Tcl_ExposeCommand` and `Tcl_SetCommandInfo` manage the
  `Command` structures and the global and hidden hash tables.
  - Deleting a command is logical: it sets `CMD_IS_DELETED`, bumps the epoch,
    runs the delete traces and calls `deleteProc`.
  - Freeing it is physical and waits until `refCount` reaches 0.
  - `cmdName` objects (tclObj.c) cache a resolved `Command` with its epoch and
    hold a reference on it; the epoch tells them when to look the name up again.
- **Trampoline.** `TclNRRunCallbacks` pops and runs callback records from the
  active execution environment's stack until the top is the `rootPtr` it
  started from.
  - C code that needs a result synchronously (`Tcl_EvalObjv`, the unknown
    handler in `TEOV_NotFound`, deletion of a suspended coroutine) starts a
    nested loop. This is the only way C-stack depth grows.
- **Dispatcher.** `TclNREvalObjv` pushes these records, most recent last:
  1. `NRCommand`, and it increments `numLevels`;
  2. `TclInterpReady` runs, checking rewind, cancellation and the nesting limit;
  3. the exception handlers `TEOV_Error` and, at level 1, `TEOV_Exception`;
  4. if the command has execution traces, `TEOV_RunEnterTraces` runs the enter
     trace, looks the name up again when the trace changed the command's
     epoch, and pushes `TEOV_RunLeaveTraces` with a reference;
  5. once the command is found, it takes a reference on it and pushes
     `NRRunObjProc`.

  `NRCommand` drops the reference, decrements `numLevels`, runs pending async
  handlers, and checks for cancellation.
- **Cancellation.** Another thread calls `Tcl_CancelEval`, which marks an async
  handler.
  - `CancelEvalProc` later sets `CANCELED` and, if asked, `TCL_CANCEL_UNWIND`
    in `iPtr->flags`.
  - `Tcl_Canceled` reports these flags. It clears `CANCELED`, but an unwind
    persists until `TEOV_Exception` resets both flags at level 0.
- **Coroutines.**
  - `coroutine` creates a command and a new execution environment, pushes the
    caller, first and exit callbacks, and runs the body as bytecode (TEBC) in a
    nested loop.
  - `yield` swaps `numLevels` with `auxNumLevels` and pushes a yield request,
    `NRCallTEBC(TCL_NR_YIELD_TYPE)`. TEBC suspends only if it is the innermost C
    frame; otherwise NRCallTEBC reports "cannot yield: C stack busy".
  - Resuming (`NRInterpCoroutine`) switches back to the coroutine's stack.
  - Deleting a suspended coroutine rewinds it (`RewindCoroutine`).
  - When the body ends, `NRCoroutineExitCallback` deletes the command and frees
    the environment.

- **Interpreter deletion.** `Tcl_DeleteInterp` only sets `DELETED`. From then
  on, create, hide and expose refuse to change the tables. `DeleteInterpProc`
  runs when the last `Tcl_Release` is done. It does three things in order:
  1. tears down the global namespace, deleting its commands;
  2. deletes the hidden commands;
  3. runs the deletion callbacks registered with `Tcl_CallWhenDeleted` and
     `Tcl_SetAssocData`. It detaches `iPtr->assocData` first, and repeats
     while callbacks register new ones.
- **Argument locations (TIP #280).** Around each command it runs, `TclEvalEx`
  calls `TclArgumentEnter` just before `Tcl_EvalObjv` and
  `TclArgumentRelease` just after it.
  - Enter records, in `iPtr->lineLAPtr`, each argument word that has a line
    number, keyed by its `Tcl_Obj`, with a reference count.
  - Release counts the word down again.
  - The bytecode engine does the same for its literals with
    `TclArgumentBCEnter`/`TclArgumentBCRelease` and `iPtr->lineLABCPtr`.
  - `TclArgumentGet` looks an object up, so that a script passed on as an
    argument (to `uplevel`, `eval` or a proc) keeps its absolute location.

## Modules

| Module | Models | State |
|---|---|---|
| `Registry.tla` | the command table: `CmdRec` (a new `Command`), `InitCmd` (the table of `Tcl_CreateInterp`), `Lookup`, `TclCleanupCommand`, and `Tcl_DeleteCommandFromToken` split into `DeleteNested`/`DeleteStart`/`DeleteFinish` so that a deletion callback can run in between | pure operators over `cmd` |
| `RegistryOps.tla` | extends Registry with the hash tables `tab` (key → Command, kept apart from each command's `hPtr` because rename lets them disagree), command traces, and the `cmdName` cache | one action per call: create (object or string command), rename, delete, hide, expose, `Tcl_SetCommandInfo`, add a command trace, resolve a name through its `cmdName` object, `Tcl_DeleteInterp`, and the release that runs `DeleteInterpProc`'s command teardown. `CreateCommand`, `DeleteFromToken` and `CallCommandTraces` are mutually recursive, as the C functions are when a trace re-creates a command |
| `NRE.tla` | callback stacks `ee`, the active env, nested trampoline activations `loops`, `numLevels`, the cancel flags, the async handler, and the commands | one action per callback (`NRCommand`, `NRRunObjProc`, `TEOV_RunLeaveTraces`, `TEOV_Error`, `TEOV_Exception`, catch callback), one for the trampoline returning (`LoopReturn`), and the host's `Tcl_EvalObjv` and another thread's `Tcl_CancelEval`. `TEOV_RunEnterTraces` is part of dispatch |
| `Coroutine.tla` | extends NRE with `cor` (the `CoroutineData`) and the coroutine callbacks | `CorRunObjProc` (the objProcs coroutine, yield, resume and delete), `NRCallTEBCBytecode`, `NRCallTEBCYield`, the first, caller and exit callbacks, `TEOEx_ByteCodeCallback`, and the TEBC steps `TebcNextCommand`/`TebcReturn`/`DeleteReturn` |
| `AssocData.tla` | the `AssocData` structures ever allocated (`d`), `iPtr->assocData` (`assoc`), the table detached by `DeleteInterpProc`'s loop, the per-thread key counter, the interp's life | one action per API call (`Tcl_CallWhenDeleted`, `Tcl_DontCallWhenDeleted`, `Tcl_SetAssocData`, `Tcl_DeleteAssocData`), `Tcl_DeleteInterp`, the last release, and one per iteration of the callback loop (detach, call the first entry, delete the emptied table, exit). While the loop runs no other action is enabled, so the iterations form one call |
| `ArgLocation.tla` | `stack` (the commands in progress, as CmdFrames), `la` (`lineLAPtr`) and `labc` (`lineLABCPtr`), each a function from `Tcl_Obj` to a counted entry | `EvalCommand` (TclEvalEx building the words and calling `TclArgumentEnter`), `EvalDone` (`TclArgumentRelease`), `BCExecute`/`BCDone` (the BC pair), `ArgumentGet` (the pc it sets in a bytecode frame) |
| `CoroutineAbstract.tla` | what coroutines promise (spec 4.4): each coroutine none, running, suspended or done, and the stack of running ones | `Create`, `Resume`, `Yield`, `Finish` |
| `MC_NRE.tla`, `MC_Coroutine.tla`, `MC_RegistryOps.tla`, `MC_AssocData.tla`, `MC_ArgLocation.tla` | model values and small command tables for TLC | |

Sequential C code is translated as an operator from a state record `s` (`St`
in NRE, `CSt` in Coroutine) to the record after the code ran. An action
commits the final record (`Commit`/`CCommit`). A whole handler is therefore a
single step, including the trailing calls it makes: for example, NRCommand's
async handler and its `Tcl_Canceled`.

Each command is one of a small set of *kinds*. A kind says what its objProc
does: return a code, evaluate another command (`eval`), evaluate one under a
catch, rename a command to `{}`, or `coroutine`/`yield`/resume. A command's
name, and a script, are model values. A coroutine body is a sequence of
command names, run in order by TEBC, each with `TCL_EVAL_NOERR`.

`tclExecute.c` (TEBC) and the catch command are not in `src/`. The parts of
them that the coroutine protocol needs are modelled from the code's contract
and marked `spec_modelled` in the map: `TebcEnter`, `TebcNextCommand`,
`TebcReturn`, `CatchCallback`, `CorSuspended`, and `BCExecute`/`BCDone`
(the calls of the BC argument functions). In the same way,
`Tcl_GetCommandFromObj` and `CacheRefs` (the `cmdName` object of tclObj.c)
and `Tcl_TraceCommand` (tclTrace.c) and `TclTeardownNamespace` (tclNamesp.c)
are modelled from their contract.

**Deletion callbacks (AssocData).** The procs are collaborators:
- `noop` and `victim` only clean up;
- `again` registers another `noop`;
- `canceller` unregisters the `victim`.

Hash order decides which entry the loop's `Tcl_FirstHashEntry` returns. Hash
order depends on the keys, so any entry may come next.

**Execution traces (NRE).** Commands of the names in `ExecTraces` carry an
execution trace whose script deletes the command on entry (`enterDelete`), on
leave (`leaveDelete`), or does nothing. A trace script runs to completion with
`TCL_OK`. It is one atomic step: its own evaluation depth and any cancellation
during it are not modelled.

**deleteProcs and the hidden table (RegistryOps).** Each initial command has
either no `deleteProc` or a partner: its `deleteProc` deletes the partner's
initial command by token, unless the partner is already `CMD_IS_DELETED`.
`hidden` lists the hidden table in hash-search order: bucket by bucket, and
newest first within a bucket, since `Tcl_CreateHashEntry` links a new entry at
the head of its chain. `HiddenSearch` is the loop at tclBasic.c:1403-1406.
`Tcl_NextHashEntry` returns the entry it cached before the loop body ran; if
that entry is gone, the search hands back a stale entry.

**Literal words (ArgLocation).** `TclEvalEx` gives a line only to a word known
at compile time, and builds a new `Tcl_Obj` for it. A word with a line is
therefore an object that no running command holds. A substituted or expanded
word has line -1 and may be any object. This includes the literal argument of
an outer command, read back from a variable.

With word expansion the words are copied into buffers from the top, and an
empty `{*}` word still takes a slot. `TclEvalEx` then advances `objv` past
the unused slots (5086) but not `lines`. A frame's `seen` is the line array
`TclArgumentEnter` actually reads (`ShiftedLines`): after `e` empty
expansions, word `i` is paired with the line of word `i - e`, or with an
unwritten slot, which can hold any value.

**Command traces (RegistryOps).** A trace is added on a name for `delete` or
`rename`. Its script re-creates the name (`proc a ...`), and may then call it,
which makes the name's `cmdName` object resolve the new command.

## Refinement

`Coroutine` implements `CoroutineAbstract`. The mapping sends each coroutine
to one of these states:
- `none` before its command exists;
- `done` once its `CoroutineData` is no longer alive;
- `running` while its env is on the caller chain;
- `suspended` otherwise.

The abstract stack is the caller chain without `Main`, innermost last. The
run `coroutine` checks `CoroutineRefinement == CorAbs!Spec` as a property.
Every step of the detailed spec is either a stutter of the abstract one or
one of `Create`, `Resume`, `Yield` and `Finish`. So control always returns to
the coroutine's resumer, a finished coroutine never runs again, and a deleted
suspended coroutine is resumed (rewound) before it is done.

## Runs

| Run | Config | Expect | What it shows |
|---|---|---|---|
| nre_core | MC_NRE.cfg | pass | `TypeOK`; `CommandLifetime`: `refCount` is exactly the table entry plus the in-progress NRCommand and leave-trace records, so a command that deletes itself, or is deleted by its own execution trace, is freed only after it returns; `UnwindNotSwallowed`: with exceptions disallowed, an unwind cancellation always reaches the host as an error; `TopLevelCodes`: break never reaches the host; `EvalCompletes`: every host evaluation returns. |
| nre_cancel_sticky | MC_NRE_sticky.cfg | violation | `CancelNotSticky` fails. One request cancels two evaluations, because the async handler runs in NRCommand *after* TEOV_Exception reset the flags. |
| coroutine | MC_Coroutine.cfg | pass | `CoroutineRefinement` (see above); `CorTypeOK`; `LevelsAccounting`: `numLevels` equals the commands in progress along the active caller chain, with suspended coroutines' levels parked in `auxNumLevels`; `NoReentry`: the caller chain is a simple path to Main; `CorLifetime`: a coroutine command's `refCount` is its table entry, plus its stack records, plus `corPtr->cmdPtr` while the coroutine is alive; `DeletedCoroutineFreed`: when the host is idle, every deleted coroutine is freed. |
| registry | MC_RegistryOps.cfg | pass | `RegTypeOK`; `TableConsistent`: every hash entry holds a live Command whose `hPtr` is that entry, and every live Command with an `hPtr` is held by it; `CommandRefs`: `refCount` is the table entry plus the `cmdName` objects caching it, and no freed Command is cached; `EpochSound`: a cached command whose epoch still matches is the one its name resolves to. Delete traces here re-create their command. `InterpTornDown`: once `DeleteInterpProc` has run, no table entry remains and every Command is deleted, even when the delete traces it fires (hidden commands last) try to re-create commands. |
| assoc | MC_AssocData.cfg | pass | `CallbacksOnce`: no AssocData is called or freed twice, or called after being freed; `EveryCallbackRuns`: when the interp is freed, every AssocData is freed and its proc has run unless it was unregistered, including callbacks registered by callbacks during the loop; `CancelHonoured`: an unregistration made by the extension code holds. |
| assoc_cancel | MC_AssocData_cancel.cfg | violation | `CancelHonoured` fails. A deletion callback calls `Tcl_DontCallWhenDeleted` for another callback that is still pending. `DeleteInterpProc` has set `iPtr->assocData` to NULL (tclBasic.c:1420), so the call finds nothing and the other callback still runs. |
| registry_recreate_call | MC_RegistryOps_uaf.cfg | violation | `CommandRefs` fails. A delete trace that does `proc a ...; a` while `Tcl_CreateObjCommand` replaces `a` leaves the `cmdName` object on a Command that the create then `ckfree`s (tclBasic.c:2184). |
| registry_rename_trace | MC_RegistryOps_rename.cfg | violation | `TableConsistent` fails. A rename trace on `a` that does `proc a ...` during `rename a b` frees the renamed command through the old entry, which still holds it, and `TclRenameCommand` then deletes the entry of the new `a` (tclBasic.c:2516). Both names end up undefined. |
| registry_hidden_search | MC_RegistryOps_hidden.cfg | violation | `NoStaleHashEntry` fails. Two hidden commands share a bucket, and their deleteProcs delete each other. The search of `DeleteInterpProc` deletes the chain's head, whose deleteProc deletes the next entry. `Tcl_NextHashEntry` then returns that freed entry (tclBasic.c:1404). |
| argloc_release | MC_ArgLocation.cfg | violation | `LocationKept` fails. A command's literal argument `o1` is passed by a nested command as a substituted word. `TclArgumentEnter` skips that word, but `TclArgumentRelease` deletes the outer command's entry (tclBasic.c:5376). |
| coroutine_live | MC_Coroutine_live.cfg | pass | `EvalCompletes` with coroutines created, suspended, resumed and deleted. |
| coroutine_busy | MC_Coroutine_busy.cfg | violation | `LevelsAccounting` fails. `yield` called by the unknown handler (a blocking nested `Tcl_EvalObjv`) gets "cannot yield: C stack busy" but leaves `numLevels` swapped (tclBasic.c:8162, 4330). |

Every property of a passing run has a mutant in `PROJECT.json`. A mutant is a
variant of a mapped definition of the kind a plausible bug would produce, and
TLC finds the property violated under it:

- an enter trace that skips the epoch re-check;
- a new Command created with `refCount` 0;
- a rename without its epoch bump, or without its reference across the traces;
- an expose that skips the "already exists" check;
- an exit callback that returns to the main env instead of the resumer (the
  refinement);
- an off-by-one in the nesting limit;
- a resume that does not refuse a running coroutine;
- a yield that does not swap the levels;
- an exit callback that does not delete its command;
- a caller callback that does not rewind a deleted coroutine;
- a create without the `DELETED` check;
- a `Tcl_DontCallWhenDeleted` that frees the structure but keeps the entry;
- a callback loop that calls the proc without deleting the entry, or stops
  after one pass;

## Bounds and why they suffice

**NRE runs**
- Six commands, one of each kind, plus the unknown handler and an undefined
  name.
- `MaxNestingDepth = 3` makes the unknown handler's recursion hit the nesting
  limit.
- `MaxEvals = 2` gives two host evaluations, which is what it takes for a flag
  left over from one evaluation to affect the next.
- `MaxCancels = 1` allows one cancel request in `nre_core`, which can arrive
  between any two steps. The sticky run also allows one: a single request
  is what the finding needs.
- `te` and `tl` return TCL_OK and carry execution traces. The enter trace of
  `te` deletes it, and the leave trace of `tl` deletes it.

**Coroutine runs**
- One coroutine name with up to six generations (`MaxCorGen`). A coroutine can
  therefore be re-created under its own name while the old one is suspended,
  running or being rewound.
- The bodies cover these cases:
  - `<<y,y>>`: yield twice;
  - `<<del,y>>`: delete yourself, then yield;
  - `<<mk>>`: create a coroutine inside a coroutine;
  - `<<C>>`: resume yourself or your caller;
  - `<<ev>>`: a nested evaluation;
  - `<<x>>`: an unknown command.
- `MaxCancels = 1` in `MC_Coroutine.cfg`, so a cancel request can arrive while
  coroutines are created, switched or rewound.

**Registry runs**
- The violation runs for traces use two names: `a`, a string command at start,
  and `b`, undefined. They have one hidden token `t`.
- The passing run starts with an extension pair instead: `a` (a string
  command) and `b` (an object command), whose deleteProcs delete each other.
  It has two hidden tokens in separate buckets, so hiding, deleting and
  tearing down a pair all happen. `Tcl_SetCommandInfo` may also install
  either deleteProc on any command (160594 states). The hidden-search run puts
  both tokens in one bucket.
- `MaxOps = 5` operations. The shortest interesting sequences take three or
  four of them:
  - a trace added, then a replacing create;
  - hide, create and expose;
  - a rename, a create under the old name, then a resolve.
- The trace scripts re-create `a`. The passing run has delete traces only.
  Each violation run adds exactly the trace that breaks the code.

- Interp deletion takes three of the five operations: trace `a`, hide it,
  then `Tcl_DeleteInterp`. That leaves two calls in the deleted interp before
  the release runs the teardown. The release is not counted as an operation.

**ArgLocation run**
- Two argument objects, one ByteCode with one literal, one object without a
  string rep, commands nested three deep, and up to two words per command.
- `MaxEmptyExpansions = 0`, so the trace is the release defect. With 1,
  TLC breaks `LocationKept` in a single command instead: its command name is
  substituted (line -1) and `{*}{}` shifts that line onto its literal
  argument.
- The violation takes two nested commands. The full state space (66975
  states) stays small, so the bounds cost nothing.

**AssocData runs**
- `MaxCalls = 4` calls of the extension code, one name for
  `Tcl_SetAssocData`, and the victim registered at most once.
- Four calls cover: register, unregister, set, delete, `Tcl_DeleteInterp`,
  and callbacks that register during the loop.
- `CounterWidth = 3` gives eight counter keys, enough for every registration
  the bound allows (at most eight, with `again`), so keys never repeat. The C
  counter is an `int` that would need about 2^32 registrations on one thread
  to wrap, so the wrap is not treated as a hazard.

All runs finish in under two minutes.

## Fairness

`WF` on the interpreter's own steps (`InterpStep`, and `CorStep` in the
coroutine spec). Once a command is running, the thread that runs the
interpreter keeps calling the next callback; nothing in `TclNRRunCallbacks`
waits on outside input. The host's calls and other threads' cancel requests get
no fairness: they may never happen. `Finished` is the idle host after its last
evaluation, so deadlock checking stays on.

## Not modelled

Each of these parts, and the reason, is listed in `PROJECT.json`:

- the parser front-ends (`TclEvalEx`), except the argument-location bracket
  around each command;
- the empty-table panics of `DeleteInterpProc` for the argument-location
  tables;
- expression math functions;
- of interpreter deletion, the frees of per-interp resources, which touch no
  modelled state;
- interp-wide execution traces, trace errors and the `CMD_TRACE_ACTIVE` re-entry
  guard of command traces;
- namespaces, imports and alias-loop checks;
- `tailcall`/`atProcExit`: its meaning lives in TEBC (tclExecute.c, not part
  of this repository). TEBC moves the queued `NRAtProcExitEval` callback to
  `iPtr->atExitPtr` when a proc frame returns. Without TEBC and proc frames,
  all that remains in tclBasic.c is the "only from a proc" error;
- `yieldto`;
- resource limits;
- the documentation and build files under `src/unnamed` and the TDBC stubs
  declarations.

## Findings

`PROJECT.json` lists seven findings:
- one spec divergence of cancellation (the sticky flags);
- the yield "C stack busy" level leak;
- two use-after-free paths in the registry, at tclBasic.c:2184/2011 and 2516.
  Both need a trace script that re-creates the command being replaced or
  renamed;
- a use-after-free in the hidden-command search of `DeleteInterpProc`
  (tclBasic.c:1404), when one hidden command's deleteProc deletes the next
  entry of the same bucket chain;
- an argument location removed early by `TclArgumentRelease` (5376) while its
  command still runs. A second defect in the same area has no run of its
  own: an empty `{*}` word shifts the line array against `objv` (5086); see
  the ArgLocation bounds;
- a deletion callback cannot unregister another pending callback during
  `DeleteInterpProc`, contrary to the comment of `Tcl_DontCallWhenDeleted`.

Two earlier findings still have their properties in `NRE.tla`, but they are no
longer runs:
- `UnwindNotSwallowed` fails with `AllowExceptions = TRUE` in the `MC_NRE.cfg`
  constants. NRCommand checks cancellation only after `TCL_OK`, so a break
  carries the unwind past the host.
- `UnwindRequestKept` fails with `MaxCancels = 2`. A plain `Tcl_CancelEval`
  overwrites a pending unwind request (tclBasic.c:3957).

## Plan for the next sittings

1. **Interpreter deletion during evaluation**: `Tcl_DeleteInterp` from a
   running command in NRE. `TclInterpReady` then refuses further commands,
   and the release waits for the evaluation to return.
2. **Composition**: the registry operations as objProcs inside NRE, so that create and rename happen while the command runs.
3. **`yieldto`** and the saved frame contexts of coroutines.
4. **`rand`/`srand`** (`ExprRandFunc`, `ExprSrandFunc`): the seed masking
   and Schrage's step as operators, checked against a reference modular
   multiplication over edge seeds. It needs a run of its own.
