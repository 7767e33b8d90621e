----------------------------- MODULE RegistryOps -----------------------------
(***************************************************************************)
(* The command table under the script-level operations of tclBasic.c that *)
(* change it: Tcl_CreateObjCommand and Tcl_CreateCommand over an existing  *)
(* name, TclRenameCommand, Tcl_DeleteCommand, Tcl_HideCommand,             *)
(* Tcl_ExposeCommand and Tcl_SetCommandInfo, with command traces and with *)
(* commands resolved through cmdName objects.                              *)
(*                                                                         *)
(* Exposed names are Names, hidden-command tokens are Tokens (disjoint     *)
(* sets).  tab maps each key of the global command table and of the      *)
(* hidden command table to the Command its entry holds; a command's hPtr  *)
(* is the key of its own entry.  The two are kept apart because the code  *)
(* lets them disagree for a while: TclRenameCommand runs rename traces    *)
(* while the old entry still holds the command.  kind is "obj" for the    *)
(* commands of Tcl_CreateObjCommand and "string" for those of             *)
(* Tcl_CreateCommand (objProc TclInvokeStringCommand).                     *)
(*                                                                         *)
(* The cmdName object of each name (tclObj.c, outside this file) caches   *)
(* the command it resolved to with that command's cmdEpoch and holds a     *)
(* reference on it: Tcl_GetCommandFromObj reuses the cache while the       *)
(* command is not CMD_IS_DELETED and its epoch is unchanged, otherwise it *)
(* drops the reference and looks the name up again.                       *)
(*                                                                         *)
(* A command trace (tclTrace.c, outside this file) is added by a script   *)
(* on a name for one event, "delete" or "rename", and runs one of the     *)
(* scripts "Recreate" (proc <name> ..., Tcl_CreateObjCommand of the name  *)
(* it was added on) and "RecreateAndCall" (the same, then a call of it,   *)
(* so that the name's cmdName object resolves the new command).           *)
(* CallCommandTraces' CMD_TRACE_ACTIVE guard only matters for a trace     *)
(* that renames or deletes its own command again, which these scripts do  *)
(* not.  A deleteProc is "none" or the name of a partner: it deletes the  *)
(* partner's initial command by token unless that one is already          *)
(* CMD_IS_DELETED (two commands of an extension sharing one clientData).   *)
(*                                                                         *)
(* hidden lists the entries of the hidden command table in the order a    *)
(* hash search visits them: bucket by bucket, and within a bucket from     *)
(* the chain's head (Tcl_CreateHashEntry links a new entry at the head).  *)
(*                                                                         *)
(* interp is the interpreter's life: "live", "deleted" once              *)
(* Tcl_DeleteInterp set DELETED, "freed" once DeleteInterpProc ran when   *)
(* the script holding the interp released it (Tcl_EventuallyFree).        *)
(***************************************************************************)
EXTENDS Naturals, FiniteSets, Sequences, TLC, Registry

CONSTANTS
    Tokens,      \* hidden-command tokens
    Traces,      \* the [event, script] command traces scripts may add
    MaxOps,      \* bound: registry operations performed
    Bucket,      \* [Tokens -> Nat]: the hash bucket of each token
    DeleteProcs, \* [DOMAIN InitCmds -> Names \cup {"none"}]: whose initial
                 \* command each initial command's deleteProc deletes
    None         \* an empty cmdName cache, a command without trace

ASSUME /\ Names \cap Tokens = {}
       /\ Bucket \in [Tokens -> Nat]
       /\ DeleteProcs \in [DOMAIN InitCmds -> DOMAIN InitCmds \cup {"none"}]

Keys == Names \cup Tokens

VARIABLES
    cmd,         \* the Command structures (see Registry), with a trace
    tab,         \* [Keys -> command id or NoCmd]: the hash tables
    cache,       \* [Names -> None or [id, epoch]]: the cmdName objects
    ops,         \* operations performed
    interp,      \* "live", "deleted" (iPtr->flags & DELETED) or "freed"
    hidden,      \* the hidden table's entries in hash search order
    staleRead    \* a hash search returned an entry already deleted

regVars == <<cmd, tab, cache, ops, interp, hidden, staleRead>>

\* The id of the next command created under n.
NewId(c, n) == <<n, Cardinality({i \in DOMAIN c : i[1] = n})>>

\* A Command record with no command trace.
Untraced(rec) == [f \in DOMAIN rec \cup {"trace"} |->
                      IF f = "trace" THEN None ELSE rec[f]]

\* The references cmdName objects hold on command id.
CacheRefs(ca, id) == Cardinality({n \in Names : ca[n] # None /\ ca[n].id = id})

\* The least of a set I of positions in the search order, or 0.
FirstWhere(I) == IF I = {} THEN 0 ELSE CHOOSE i \in I : \A j \in I : i <= j

\* Tcl_CreateHashEntry of token t in the hidden table: t becomes the head
\* of its bucket's chain.
HiddenInsert(s, t) ==
    LET i == FirstWhere({j \in 1..Len(s) : Bucket[s[j]] >= Bucket[t]})
        at == IF i = 0 THEN Len(s) + 1 ELSE i
    IN SubSeq(s, 1, at - 1) \o <<t>> \o SubSeq(s, at, Len(s))

\* Tcl_DeleteHashEntry of key k (a no-op on the hidden order for a name).
HiddenRemove(s, k) == SelectSeq(s, LAMBDA u : u # k)

-----------------------------------------------------------------------------
(* Sequential code as operators on a record r = [cmd, tab, cache]. *)

\* Variant of NewCommand whose Command starts with refCount 0.
NewCommandNoRef(r, n, k) ==
    LET id == NewId(r.cmd, n)
    IN [r EXCEPT !.cmd = (id :> [Untraced(CmdRec(n, k, "none"))
                                    EXCEPT !.refCount = 0]) @@ @,
                 !.tab[n] = id]

\* ckalloc of a Command in the entry of n: refCount 1, epoch 0, no traces.
NewCommand(r, n, k) ==
    LET id == NewId(r.cmd, n)
    IN [r EXCEPT !.cmd = (id :> Untraced(CmdRec(n, k, "none"))) @@ @,
                 !.tab[n] = id]

\* Tcl_DeleteHashEntry(cmdPtr->hPtr); cmdPtr->hPtr = NULL.
DropEntry(r, id) ==
    IF r.cmd[id].hPtr = NoName THEN r
    ELSE [r EXCEPT !.tab[r.cmd[id].hPtr] = NoCmd, !.cmd[id].hPtr = NoName,
                   !.hidden = HiddenRemove(@, r.cmd[id].hPtr)]

\* Tcl_GetCommandFromObj(interp, objPtr) for the cmdName object of n.
Tcl_GetCommandFromObj(r, n) ==
    LET c == r.cache[n]
    IN IF c # None /\ ~r.cmd[c.id].deleted /\ r.cmd[c.id].epoch = c.epoch
       THEN r
       ELSE LET c1 == IF c = None THEN r.cmd ELSE TclCleanupCommand(r.cmd, c.id)
                id == r.tab[n]
            IN IF id = NoCmd THEN [r EXCEPT !.cmd = c1, !.cache[n] = None]
               ELSE [r EXCEPT !.cmd = [c1 EXCEPT ![id].refCount = @ + 1],
                              !.cache[n] = [id |-> id, epoch |-> c1[id].epoch]]

RECURSIVE CreateCommand(_, _, _), CallCommandTraces(_, _, _), DeleteFromToken(_, _),
          CreateCommandNoDeletedCheck(_, _, _), CallDeleteProc(_, _)

\* CallCommandTraces(iPtr, cmdPtr, ..., event): the command is held for the
\* duration of its trace scripts.
CallCommandTraces(r, id, ev) ==
    LET t == r.cmd[id].trace
    IN IF t = None \/ t.event # ev THEN r
       ELSE LET r1 == CreateCommand([r EXCEPT !.cmd[id].refCount = @ + 1],
                                    t.name, "obj")
                r2 == IF t.script = "RecreateAndCall"
                      THEN Tcl_GetCommandFromObj(r1, t.name) ELSE r1
            IN [r2 EXCEPT !.cmd[id].refCount = @ - 1]

\* cmdPtr->deleteProc(cmdPtr->deleteData): a partner's deleteProc deletes
\* the partner by token unless it is already being deleted.
CallDeleteProc(r, id) ==
    LET p == r.cmd[id].deleteProc
    IN IF p = "none" \/ r.cmd[<<p, 0>>].deleted THEN r
       ELSE DeleteFromToken(r, <<p, 0>>)

\* Tcl_DeleteCommandFromToken: a nested deletion only bumps the epoch and
\* drops the hash entry; otherwise mark the command, run and remove its
\* delete traces, call its deleteProc, drop the entry if still there,
\* release the table's ref.
DeleteFromToken(r, id) ==
    IF r.cmd[id].deleted
    THEN DropEntry([r EXCEPT !.cmd[id].epoch = @ + 1], id)
    ELSE LET r1 == CallCommandTraces([r EXCEPT !.cmd = DeleteStart(@, id)],
                                     id, "delete")
             r2 == CallDeleteProc([r1 EXCEPT !.cmd[id].trace = None], id)
             r3 == DropEntry(r2, id)
         IN [r3 EXCEPT !.cmd = TclCleanupCommand(@, id)]

\* Variant of CreateCommand without the DELETED check.
CreateCommandNoDeletedCheck(r, n, k) ==
    LET old == r.tab[n]
    IN IF old = NoCmd THEN NewCommand(r, n, k)
       ELSE IF k = "obj" /\ r.cmd[old].kind = "string"
       THEN [r EXCEPT !.cmd[old].kind = "obj", !.cmd[old].deleteProc = "none"]
       ELSE LET r1 == DeleteFromToken(r, old)
                again == r1.tab[n]
                r2 == IF again = NoCmd THEN r1
                      ELSE [r1 EXCEPT !.cmd[again].freed = TRUE]
            IN NewCommand(r2, n, k)

\* Tcl_CreateObjCommand (k = "obj") and Tcl_CreateCommand (k = "string")
\* of global name n.  Nothing is created in an interp marked DELETED.  An
\* existing string command only gets the new objProc and the caller's
\* deleteProc (a script-level create passes none) from
\* Tcl_CreateObjCommand; any other existing command is deleted, and a
\* command then found in the entry of n is thrown away (ckfree) before the
\* new one takes the entry.
CreateCommand(r, n, k) ==
    LET old == r.tab[n]
    IN IF r.interp # "live" THEN r
       ELSE IF old = NoCmd THEN NewCommand(r, n, k)
       ELSE IF k = "obj" /\ r.cmd[old].kind = "string"
       THEN [r EXCEPT !.cmd[old].kind = "obj", !.cmd[old].deleteProc = "none"]
       ELSE LET r1 == DeleteFromToken(r, old)
                again == r1.tab[n]
                r2 == IF again = NoCmd THEN r1
                      ELSE [r1 EXCEPT !.cmd[again].freed = TRUE]
            IN NewCommand(r2, n, k)

\* Variant of TclRenameCommand that takes no reference across the traces.
TclRenameCommandNoRef(r, old, new) ==
    LET id == r.tab[old]
    IN IF id = NoCmd THEN r
       ELSE IF new = NoName THEN DeleteFromToken(r, id)
       ELSE IF r.tab[new] # NoCmd THEN r
       ELSE LET oldH == r.cmd[id].hPtr
                r1 == CallCommandTraces([r EXCEPT !.tab[new] = id,
                                                  !.cmd[id].hPtr = new],
                                        id, "rename")
                r2 == [r1 EXCEPT !.tab[oldH] = NoCmd, !.cmd[id].epoch = @ + 1]
            IN [r2 EXCEPT !.cmd = TclCleanupCommand(@, id)]

\* Variant of TclRenameCommand that does not bump cmdEpoch.
TclRenameCommandNoEpoch(r, old, new) ==
    LET id == r.tab[old]
    IN IF id = NoCmd THEN r
       ELSE IF new = NoName THEN DeleteFromToken(r, id)
       ELSE IF r.tab[new] # NoCmd THEN r
       ELSE LET oldH == r.cmd[id].hPtr
                r1 == CallCommandTraces([r EXCEPT !.tab[new] = id,
                                                  !.cmd[id].hPtr = new,
                                                  !.cmd[id].refCount = @ + 1],
                                        id, "rename")
                r2 == [r1 EXCEPT !.tab[oldH] = NoCmd]
            IN [r2 EXCEPT !.cmd = TclCleanupCommand(@, id)]

\* TclRenameCommand(old, new), new = NoName for {}: delete; or refuse a
\* taken name; or enter the command under new, hold it across the rename
\* traces, and only then delete the old entry (oldHPtr) and bump the epoch.
TclRenameCommand(r, old, new) ==
    LET id == r.tab[old]
    IN IF id = NoCmd THEN r
       ELSE IF new = NoName THEN DeleteFromToken(r, id)
       ELSE IF r.tab[new] # NoCmd THEN r
       ELSE LET oldH == r.cmd[id].hPtr
                r1 == CallCommandTraces([r EXCEPT !.tab[new] = id,
                                                  !.cmd[id].hPtr = new,
                                                  !.cmd[id].refCount = @ + 1],
                                        id, "rename")
                r2 == [r1 EXCEPT !.tab[oldH] = NoCmd, !.cmd[id].epoch = @ + 1]
            IN [r2 EXCEPT !.cmd = TclCleanupCommand(@, id)]

\* Tcl_HideCommand(n, t): move an exposed command to a free hidden token,
\* bumping the epoch when it leaves an entry; refused once DELETED.
Tcl_HideCommand(r, n, t) ==
    LET id == r.tab[n]
    IN IF r.interp # "live" \/ id = NoCmd \/ r.tab[t] # NoCmd THEN r
       ELSE LET r1 == IF r.cmd[id].hPtr = NoName THEN r
                      ELSE [DropEntry(r, id) EXCEPT !.cmd[id].epoch = @ + 1]
            IN [r1 EXCEPT !.tab[t] = id, !.cmd[id].hPtr = t,
                          !.hidden = HiddenInsert(@, t)]

\* Variant of Tcl_ExposeCommand without the "already exists" check.
Tcl_ExposeCommandNoCheck(r, t, n) ==
    LET id == r.tab[t]
    IN IF r.interp # "live" \/ id = NoCmd THEN r
       ELSE [DropEntry(r, id) EXCEPT !.tab[n] = id, !.cmd[id].hPtr = n]

\* Tcl_ExposeCommand(t, n): move a hidden command to a free global name;
\* refused once DELETED.
Tcl_ExposeCommand(r, t, n) ==
    LET id == r.tab[t]
    IN IF r.interp # "live" \/ id = NoCmd \/ r.tab[n] # NoCmd THEN r
       ELSE [DropEntry(r, id) EXCEPT !.tab[n] = id, !.cmd[id].hPtr = n]

\* Tcl_SetCommandInfo(n, info): a NULL objProc makes the command a string
\* command (TclInvokeStringCommand), any other makes it an object command;
\* the command takes the deleteProc dp of info in either case.
Tcl_SetCommandInfo(r, n, k, dp) ==
    IF r.tab[n] = NoCmd THEN r
    ELSE [r EXCEPT !.cmd[r.tab[n]].kind = k, !.cmd[r.tab[n]].deleteProc = dp]

\* Tcl_DeleteCommand(n): find the exposed command and delete it.
Tcl_DeleteCommand(r, n) ==
    IF r.tab[n] = NoCmd THEN r ELSE DeleteFromToken(r, r.tab[n])

\* Tcl_TraceCommand(n, event, script) (tclTrace.c): add a trace to the
\* command of n; one trace per command.
Tcl_TraceCommand(r, n, tr) ==
    IF r.tab[n] = NoCmd \/ r.cmd[r.tab[n]].trace # None THEN r
    ELSE [r EXCEPT !.cmd[r.tab[n]].trace = [tr EXCEPT !.name = n]]

\* Tcl_DeleteInterp: mark the interp DELETED (once); the structure is
\* freed by DeleteInterpProc when the last Tcl_Preserve is released.
Tcl_DeleteInterp(r) ==
    IF r.interp # "live" THEN r ELSE [r EXCEPT !.interp = "deleted"]

RECURSIVE TclTeardownNamespace(_), HiddenSearch(_, _)

\* TclTeardownNamespace(globalNsPtr) (tclNamesp.c): delete the first
\* command of the global table until the table is empty.  Which entry is
\* first is the hash order, a fixed order the model takes by CHOOSE.
TclTeardownNamespace(r) ==
    IF \A n \in Names : r.tab[n] = NoCmd THEN r
    ELSE LET n == CHOOSE n \in Names : r.tab[n] # NoCmd
         IN TclTeardownNamespace(DeleteFromToken(r, r.tab[n]))

\* Tcl_NextHashEntry's nextEntryPtr once it returned the entry of t: the
\* entry after t in the same bucket's chain, or None at the chain's end.
ChainNext(s, t) ==
    LET i == FirstWhere({j \in 1..Len(s) : s[j] = t})
    IN IF i < Len(s) /\ Bucket[s[i + 1]] = Bucket[t] THEN s[i + 1] ELSE None

\* With no cached entry, Tcl_NextHashEntry reads the heads of the buckets
\* after t's in the table as it is now.
BucketScan(s, t) ==
    LET i == FirstWhere({j \in 1..Len(s) : Bucket[s[j]] > Bucket[t]})
    IN IF i = 0 THEN None ELSE s[i]

\* The loop of DeleteInterpProc at the entry t the search returned: delete
\* its command, then go to the chain successor cached before the deletion,
\* whether or not the deletion removed it, or to the first entry of a
\* later bucket.  An entry returned after it was deleted is freed memory
\* (staleRead); what the loop does with it is undefined, and the model
\* ends the search there.
HiddenSearch(r, t) ==
    IF t = None THEN r
    ELSE IF r.tab[t] = NoCmd THEN [r EXCEPT !.stale = TRUE]
    ELSE LET nxt == ChainNext(r.hidden, t)
             r1 == DeleteFromToken(r, r.tab[t])
         IN HiddenSearch(r1, IF nxt # None THEN nxt ELSE BucketScan(r1.hidden, t))

\* Tcl_FirstHashEntry and the loop of Tcl_NextHashEntry over the hidden
\* command table.
DeleteHiddenCommands(r) ==
    HiddenSearch(r, IF r.hidden = <<>> THEN None ELSE r.hidden[1])

\* DeleteInterpProc on an interp marked DELETED: tear down the global
\* namespace, then delete the hidden commands, then free the interp.
\* (The cancel, limit, assocData, frame, result, trace and literal
\* cleanups in between touch no Command.)
DeleteInterpProc(r) ==
    LET r1 == TclTeardownNamespace(r)
        r2 == DeleteHiddenCommands(r1)
    IN [r2 EXCEPT !.interp = "freed"]

-----------------------------------------------------------------------------
(* The operations, each one whole call made by a script or an extension. *)

R == [cmd |-> cmd, tab |-> tab, cache |-> cache, interp |-> interp,
      hidden |-> hidden, stale |-> staleRead]

\* The interp's structure still exists.
Alive == interp # "freed"

\* One operation, leaving the registry as record r.
Op(r) ==
    /\ Alive
    /\ ops < MaxOps
    /\ cmd' = r.cmd
    /\ tab' = r.tab
    /\ cache' = r.cache
    /\ ops' = ops + 1
    /\ interp' = r.interp
    /\ hidden' = r.hidden
    /\ staleRead' = r.stale

Init ==
    /\ cmd = [id \in DOMAIN InitCmd |->
                 [Untraced(InitCmd[id]) EXCEPT !.deleteProc = DeleteProcs[id[1]]]]
    /\ tab = [k \in Keys |-> IF <<k, 0>> \in DOMAIN InitCmd THEN <<k, 0>> ELSE NoCmd]
    /\ cache = [n \in Names |-> None]
    /\ ops = 0
    /\ interp = "live"
    /\ hidden = <<>>
    /\ staleRead = FALSE

CreateObjCommand(n) == Op(CreateCommand(R, n, "obj"))
CreateStringCommand(n) == Op(CreateCommand(R, n, "string"))
RenameCommand(old, new) == Op(TclRenameCommand(R, old, new))
DeleteCommand(n) == Op(Tcl_DeleteCommand(R, n))
HideCommand(n, t) == Op(Tcl_HideCommand(R, n, t))
ExposeCommand(t, n) == Op(Tcl_ExposeCommand(R, t, n))
SetCommandInfo(n, k, dp) == Op(Tcl_SetCommandInfo(R, n, k, dp))
TraceCommand(n, tr) == Op(Tcl_TraceCommand(R, n, tr))
\* A script invokes n through its cmdName object.
ResolveCommand(n) == Op(Tcl_GetCommandFromObj(R, n))
\* interp delete of this interp: a script goes on running in it.
DeleteInterp == Op(Tcl_DeleteInterp(R))
\* The script holding the deleted interp releases it (Tcl_Release).
ReleaseInterp ==
    /\ interp = "deleted"
    /\ LET r == DeleteInterpProc(R)
       IN /\ cmd' = r.cmd /\ tab' = r.tab /\ cache' = r.cache
          /\ interp' = r.interp /\ hidden' = r.hidden /\ staleRead' = r.stale
    /\ UNCHANGED ops

\* The script has ended, or the interp is gone.
Done == (ops = MaxOps \/ ~Alive) /\ UNCHANGED regVars

Next ==
    \/ \E n \in Names : CreateObjCommand(n) \/ CreateStringCommand(n)
                        \/ DeleteCommand(n) \/ ResolveCommand(n)
    \/ \E old \in Names, new \in Names \cup {NoName} : RenameCommand(old, new)
    \/ \E n \in Names, t \in Tokens : HideCommand(n, t) \/ ExposeCommand(t, n)
    \/ \E n \in Names, k \in {"obj", "string"},
          dp \in {DeleteProcs[x] : x \in DOMAIN DeleteProcs} \cup {"none"} :
            SetCommandInfo(n, k, dp)
    \/ \E n \in Names, tr \in Traces : TraceCommand(n, tr)
    \/ DeleteInterp \/ ReleaseInterp
    \/ Done

Spec == Init /\ [][Next]_regVars

-----------------------------------------------------------------------------
(* Properties. *)

RegTypeOK ==
    /\ \A id \in DOMAIN cmd :
          /\ cmd[id].hPtr \in Keys \cup {NoName}
          /\ cmd[id].refCount \in Nat
          /\ cmd[id].kind \in {"obj", "string"}
          /\ cmd[id].trace = None \/ cmd[id].trace.name \in Names
          /\ cmd[id].deleteProc \in DOMAIN InitCmds \cup {"none"}
    /\ tab \in [Keys -> DOMAIN cmd \cup {NoCmd}]
    /\ \A n \in Names : cache[n] = None \/ cache[n].id \in DOMAIN cmd
    /\ ops \in 0..MaxOps
    /\ interp \in {"live", "deleted", "freed"}
    /\ hidden \in Seq(Tokens)
    /\ staleRead \in BOOLEAN

\* The hash tables and the Commands agree after every call: each entry
\* holds a live Command whose hPtr is that entry, and each live Command
\* with an hPtr is what its entry holds.  Create, rename, hide and expose
\* move commands between entries in several steps, with traces run in
\* between; none of their combinations may leave an entry on a freed
\* command or a command whose entry holds another.
TableConsistent ==
    /\ \A k \in Keys :
          tab[k] # NoCmd => ~cmd[tab[k]].freed /\ cmd[tab[k]].hPtr = k
    /\ \A id \in DOMAIN cmd :
          ~cmd[id].freed /\ cmd[id].hPtr # NoName => tab[cmd[id].hPtr] = id

\* A Command's refCount is exactly its table entry plus the cmdName objects
\* that cache it, and a Command that was ckfree'd is cached by none: no
\* path of create, delete, rename and the traces they run frees a command
\* that a cmdName object still points to.
CommandRefs ==
    \A id \in DOMAIN cmd :
        IF cmd[id].freed THEN CacheRefs(cache, id) = 0
        ELSE cmd[id].refCount = (IF cmd[id].hPtr # NoName THEN 1 ELSE 0)
                                + CacheRefs(cache, id)

\* Spec 8: the cmdEpoch check is what keeps a cached resolution valid.  A
\* cmdName object whose command is not deleted and has the epoch it cached
\* still names the command its name resolves to: rename and hide, which
\* move a command away from its name, bump the epoch.
EpochSound ==
    \A n \in Names :
        LET c == cache[n]
        IN c # None /\ ~cmd[c.id].freed /\ ~cmd[c.id].deleted
           /\ cmd[c.id].epoch = c.epoch
           => tab[n] = c.id

\* DeleteInterpProc with the DELETED checks of create, hide and expose: a
\* freed interp leaves no Command that is not CMD_IS_DELETED, and no entry
\* in either table, even when the delete traces of the commands it tears
\* down (hidden ones last) try to re-create commands.
InterpTornDown ==
    interp = "freed" =>
        /\ \A k \in Keys : tab[k] = NoCmd
        /\ \A id \in DOMAIN cmd : cmd[id].freed \/ cmd[id].deleted

\* DeleteInterpProc's hash search over the hidden command table never
\* returns an entry that was already deleted.  The loop (tclBasic.c:1404)
\* deletes each returned command by token, and a deleteProc may delete
\* another hidden command; Tcl_NextHashEntry then hands back the entry it
\* cached as nextEntryPtr if that one shared the bucket of the first.
NoStaleHashEntry == ~staleRead
=============================================================================
