------------------------------ MODULE Registry ------------------------------
(***************************************************************************)
(* The command table of an interpreter, tclBasic.c.                        *)
(*                                                                         *)
(* A Command structure is a record of the function cmd, indexed by an id   *)
(* <<name, generation>>: the name it was first created under and how many *)
(* commands of that name were created before it.  Its fields are the       *)
(* members of struct Command that the table operations read or write:      *)
(*   hPtr        the name of its entry in the global cmdTable, or NoName   *)
(*               once the entry is deleted (cmdPtr->hPtr == NULL);         *)
(*   refCount    cmdPtr->refCount;                                         *)
(*   deleted     CMD_IS_DELETED in cmdPtr->flags;                          *)
(*   epoch       cmdPtr->cmdEpoch;                                         *)
(*   kind        the objProc/nreProc, an element of a small set of kinds;  *)
(*   deleteProc  "none" or the name of the deletion callback;              *)
(*   deleteCalls how many times the deletion callback was invoked;         *)
(*   freed       the structure was released by ckfree.                     *)
(* These are pure operators over cmd; the modules that use them own the   *)
(* variable.                                                               *)
(***************************************************************************)
EXTENDS Naturals

CONSTANTS
    Names,      \* command names a script can use (model values)
    InitCmds,   \* [defined names -> kind]: the commands of a fresh interp
    NoCmd,      \* a NULL Command pointer
    NoName      \* a NULL hPtr

CmdRec(n, k, dp) ==
    [hPtr |-> n, refCount |-> 1, deleted |-> FALSE, epoch |-> 0,
     kind |-> k, deleteProc |-> dp, deleteCalls |-> 0, freed |-> FALSE]

\* The commands Tcl_CreateInterp registers, each with refCount 1 held by
\* its table entry.
InitCmd == [id \in {<<n, 0>> : n \in DOMAIN InitCmds} |->
                CmdRec(id[1], InitCmds[id[1]], "none")]

\* Tcl_FindCommand / TEOV_LookupCmdFromObj on the global table: the
\* command whose hash entry has key n.
Lookup(cmd, n) ==
    IF \E id \in DOMAIN cmd : cmd[id].hPtr = n
    THEN CHOOSE id \in DOMAIN cmd : cmd[id].hPtr = n
    ELSE NoCmd

\* TclCleanupCommand: drop one reference, ckfree at zero.
TclCleanupCommand(cmd, id) ==
    [cmd EXCEPT ![id] = [@ EXCEPT !.refCount = @ - 1,
                                  !.freed    = cmd[id].refCount - 1 <= 0]]

\* Tcl_DeleteCommandFromToken on a command already being deleted: bump the
\* epoch and remove the hash entry if it is still there; nothing else.
DeleteNested(cmd, id) ==
    [cmd EXCEPT ![id] = [@ EXCEPT !.epoch = @ + 1, !.hPtr = NoName]]

\* Tcl_DeleteCommandFromToken up to and including the call of the deletion
\* callback: bump the epoch, mark the command CMD_IS_DELETED, invoke
\* deleteProc if there is one (its effect is modelled by the caller).
DeleteStart(cmd, id) ==
    [cmd EXCEPT ![id] = [@ EXCEPT !.epoch = @ + 1, !.deleted = TRUE,
                                  !.deleteCalls =
                                    IF cmd[id].deleteProc # "none"
                                    THEN @ + 1 ELSE @]]

\* Tcl_DeleteCommandFromToken after the deletion callback returned: remove
\* the hash entry if the callback left it, then drop the table's reference.
DeleteFinish(cmd, id) ==
    TclCleanupCommand([cmd EXCEPT ![id].hPtr = NoName], id)

\* The whole of Tcl_DeleteCommandFromToken for a command whose deletion
\* callback does not touch the command table.
Tcl_DeleteCommandFromToken(cmd, id) ==
    IF cmd[id].deleted THEN DeleteNested(cmd, id)
    ELSE DeleteFinish(DeleteStart(cmd, id), id)
=============================================================================
