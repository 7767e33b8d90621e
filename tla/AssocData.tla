------------------------------ MODULE AssocData ------------------------------
(***************************************************************************)
(* The interpreter's deletion callbacks and associated data, tclBasic.c:  *)
(* Tcl_CallWhenDeleted, Tcl_DontCallWhenDeleted, Tcl_SetAssocData,         *)
(* Tcl_DeleteAssocData, and the loop of DeleteInterpProc that invokes     *)
(* them when the interp is freed.                                          *)
(*                                                                         *)
(* d is the sequence of every AssocData structure ever allocated (ckalloc),*)
(* indexed by allocation order; each records its proc, how often it was   *)
(* called and freed, whether it was called after being freed, and whether *)
(* Tcl_DontCallWhenDeleted freed it.  assoc is iPtr->assocData, None for a *)
(* NULL table, otherwise a function from keys to the index of the         *)
(* structure the entry holds (0: no entry).  Keys are the names given to  *)
(* Tcl_SetAssocData and the keys "Assoc Data Key #<n>" that              *)
(* Tcl_CallWhenDeleted makes from its per-thread counter ctr, an int      *)
(* modelled with CounterWidth bits.  clientData is the same for every     *)
(* registration and is left out.                                           *)
(*                                                                         *)
(* The procs are collaborators: "noop" and "victim" only clean up;        *)
(* "again" registers a further "noop" with Tcl_CallWhenDeleted;           *)
(* "canceller" unregisters the "victim" with Tcl_DontCallWhenDeleted.     *)
(*                                                                         *)
(* DeleteInterpProc runs when the last Tcl_Release of a deleted interp is *)
(* done.  Its loop over assocData is taken one iteration per step: the    *)
(* code is sequential and, while interp = "freeing", no other action is   *)
(* enabled, so the steps happen as one call.  The entry the hash search   *)
(* finds first depends on the hash of the keys, so any entry may be next.*)
(***************************************************************************)
EXTENDS Naturals, Sequences, FiniteSets

CONSTANTS
    Names,          \* names a extension passes to Tcl_SetAssocData
    HostProcs,      \* the procs the extension code registers
    CounterWidth,   \* bits of the assocDataCounter int
    MaxCalls,       \* bound: calls the extension code makes
    None            \* a NULL table

Procs == {"noop", "victim", "again", "canceller"}

ASSUME HostProcs \subseteq Procs

\* The key of a name, and the key "Assoc Data Key #<n>" of counter value n.
NameKey(n) == <<"name", n>>
CtrKey(n) == <<"key", n>>
Keys == {NameKey(n) : n \in Names} \cup {CtrKey(n) : n \in 0..(2^CounterWidth - 1)}

VARIABLES
    d,          \* Seq of AssocData structures ever allocated
    assoc,      \* iPtr->assocData
    detached,   \* hTablePtr of the loop in DeleteInterpProc, or None
    ctr,        \* *assocDataCounterPtr
    interp,     \* "live", "deleted", "freeing" (DeleteInterpProc), "freed"
    calls,      \* calls made by the extension code
    vc          \* history: Tcl_DontCallWhenDeleted(victim) was called
                \* while the victim's registration was pending

assocVars == <<d, assoc, detached, ctr, interp, calls, vc>>

EmptyTable == [k \in Keys |-> 0]
Entries(t) == {k \in Keys : t[k] # 0}

\* The AssocData of the victim is allocated and neither called nor freed.
VictimPending(r) ==
    \E i \in DOMAIN r.d : r.d[i].proc = "victim" /\ r.d[i].calls = 0
                          /\ r.d[i].frees = 0

-----------------------------------------------------------------------------
(* Sequential code as operators on a record r = [d, assoc, ctr, vc]. *)

\* ckalloc(sizeof(AssocData)) with proc p.
Alloc(r, p) ==
    [r EXCEPT !.d = Append(@, [proc |-> p, calls |-> 0, frees |-> 0,
                               usedFreed |-> FALSE, cancelled |-> FALSE])]

\* ckfree((char *) dPtr).
Free(r, i) == [r EXCEPT !.d[i].frees = @ + 1]

\* Tcl_CallWhenDeleted(interp, p, cd): a new AssocData under the key of the
\* counter, in a table created if NULL.  Tcl_CreateHashEntry returns an
\* existing entry for a repeated key; its structure is overwritten.
Tcl_CallWhenDeleted(r, p) ==
    LET t == IF r.assoc = None THEN EmptyTable ELSE r.assoc
    IN [Alloc(r, p) EXCEPT !.assoc = [t EXCEPT ![CtrKey(r.ctr)] = Len(r.d) + 1],
                           !.ctr = (@ + 1) % 2^CounterWidth]

\* Variant of Tcl_DontCallWhenDeleted that frees the structure and leaves
\* the hash entry in place.
Tcl_DontCallWhenDeletedKeepEntry(r, p) ==
    LET r0 == IF p = "victim" /\ VictimPending(r) THEN [r EXCEPT !.vc = TRUE]
              ELSE r
        match == IF r.assoc = None THEN {}
                 ELSE {k \in Entries(r.assoc) : r.d[r.assoc[k]].proc = p}
    IN IF match = {} THEN r0
       ELSE LET i == r.assoc[CHOOSE k \in match : TRUE]
            IN [Free(r0, i) EXCEPT !.d[i].cancelled = TRUE]

\* Tcl_DontCallWhenDeleted(interp, p, cd): search the table in hash order
\* for the first entry with proc p, free it and delete the entry; nothing
\* happens with a NULL table or no match.
Tcl_DontCallWhenDeleted(r, p) ==
    LET r0 == IF p = "victim" /\ VictimPending(r) THEN [r EXCEPT !.vc = TRUE]
              ELSE r
        match == IF r.assoc = None THEN {}
                 ELSE {k \in Entries(r.assoc) : r.d[r.assoc[k]].proc = p}
    IN IF match = {} THEN r0
       ELSE LET k == CHOOSE k \in match : TRUE
                i == r.assoc[k]
            IN [Free(r0, i) EXCEPT !.d[i].cancelled = TRUE, !.assoc[k] = 0]

\* dPtr->proc(dPtr->clientData, interp): the proc of structure i runs.
Invoke(r, i) ==
    LET r1 == [r EXCEPT !.d[i].calls = @ + 1,
                        !.d[i].usedFreed = @ \/ r.d[i].frees > 0]
    IN CASE r.d[i].proc = "again"     -> Tcl_CallWhenDeleted(r1, "noop")
         [] r.d[i].proc = "canceller" -> Tcl_DontCallWhenDeleted(r1, "victim")
         [] OTHER                     -> r1

\* Tcl_SetAssocData(interp, n, p, cd): an existing entry's structure gets
\* the new proc, otherwise a new structure is entered.
Tcl_SetAssocData(r, n, p) ==
    LET t == IF r.assoc = None THEN EmptyTable ELSE r.assoc
        k == NameKey(n)
    IN IF t[k] # 0 THEN [r EXCEPT !.assoc = t, !.d[t[k]].proc = p]
       ELSE [Alloc(r, p) EXCEPT !.assoc = [t EXCEPT ![k] = Len(r.d) + 1]]

\* Tcl_DeleteAssocData(interp, n): call the proc of the entry, then free
\* the structure and delete the entry.
Tcl_DeleteAssocData(r, n) ==
    IF r.assoc = None \/ r.assoc[NameKey(n)] = 0 THEN r
    ELSE LET i == r.assoc[NameKey(n)]
             r1 == Invoke(r, i)
         IN [Free(r1, i) EXCEPT !.assoc[NameKey(n)] = 0]

-----------------------------------------------------------------------------
(* The calls of the extension code, and the freeing of the interp. *)

R == [d |-> d, assoc |-> assoc, ctr |-> ctr, vc |-> vc]

\* One call of the extension code on an interp not yet freed, leaving r.
Call(r) ==
    /\ interp \in {"live", "deleted"}
    /\ calls < MaxCalls
    /\ d' = r.d /\ assoc' = r.assoc /\ ctr' = r.ctr /\ vc' = r.vc
    /\ calls' = calls + 1
    /\ UNCHANGED <<detached, interp>>

Init ==
    /\ d = <<>>
    /\ assoc = None
    /\ detached = None
    /\ ctr = 0
    /\ interp = "live"
    /\ calls = 0
    /\ vc = FALSE

\* The one registration of the victim.
CallWhenDeleted(p) ==
    /\ p = "victim" => ~\E i \in DOMAIN d : d[i].proc = "victim"
    /\ Call(Tcl_CallWhenDeleted(R, p))
DontCallWhenDeleted(p) == Call(Tcl_DontCallWhenDeleted(R, p))
SetAssocData(n, p) == Call(Tcl_SetAssocData(R, n, p))
DeleteAssocData(n) == Call(Tcl_DeleteAssocData(R, n))

\* Tcl_DeleteInterp sets DELETED (once).
DeleteInterp ==
    /\ interp = "live"
    /\ interp' = "deleted"
    /\ UNCHANGED <<d, assoc, detached, ctr, calls, vc>>

\* The last Tcl_Release: DeleteInterpProc starts (its steps before the
\* loop touch no AssocData).
ReleaseInterp ==
    /\ interp = "deleted"
    /\ interp' = "freeing"
    /\ UNCHANGED <<d, assoc, detached, ctr, calls, vc>>

\* while (iPtr->assocData != NULL): take the table and set assocData NULL.
AssocLoopDetach ==
    /\ interp = "freeing"
    /\ detached = None
    /\ assoc # None
    /\ detached' = assoc
    /\ assoc' = None
    /\ UNCHANGED <<d, ctr, interp, calls, vc>>

\* Variant of AssocLoopCall that calls the proc and leaves the entry.
AssocLoopCallKeepEntry(k) ==
    /\ interp = "freeing"
    /\ detached # None
    /\ detached[k] # 0
    /\ LET r == Free(Invoke(R, detached[k]), detached[k])
       IN d' = r.d /\ assoc' = r.assoc /\ ctr' = r.ctr /\ vc' = r.vc
    /\ UNCHANGED <<detached, interp, calls>>

\* One iteration of the inner loop: the first entry k of the taken table
\* is deleted, its proc called, its structure freed.
AssocLoopCall(k) ==
    /\ interp = "freeing"
    /\ detached # None
    /\ detached[k] # 0
    /\ LET r == Free(Invoke(R, detached[k]), detached[k])
       IN d' = r.d /\ assoc' = r.assoc /\ ctr' = r.ctr /\ vc' = r.vc
    /\ detached' = [detached EXCEPT ![k] = 0]
    /\ UNCHANGED <<interp, calls>>

\* Tcl_DeleteHashTable of the emptied taken table.
AssocLoopTableDone ==
    /\ interp = "freeing"
    /\ detached # None
    /\ Entries(detached) = {}
    /\ detached' = None
    /\ UNCHANGED <<d, assoc, ctr, interp, calls, vc>>

\* Variant of AssocLoopExit that leaves after one pass of the loop.
AssocLoopExitOnce ==
    /\ interp = "freeing"
    /\ detached = None
    /\ interp' = "freed"
    /\ UNCHANGED <<d, assoc, detached, ctr, calls, vc>>

\* The loop ends once assocData stayed NULL through a pass; the rest of
\* DeleteInterpProc frees the interp.
AssocLoopExit ==
    /\ interp = "freeing"
    /\ detached = None
    /\ assoc = None
    /\ interp' = "freed"
    /\ UNCHANGED <<d, assoc, detached, ctr, calls, vc>>

\* The extension code is done, or the interp is gone.
Done ==
    /\ calls = MaxCalls \/ interp = "freed"
    /\ UNCHANGED assocVars

Next ==
    \/ \E p \in HostProcs : CallWhenDeleted(p) \/ DontCallWhenDeleted(p)
    \/ \E n \in Names, p \in HostProcs \ {"victim"} : SetAssocData(n, p)
    \/ \E n \in Names : DeleteAssocData(n)
    \/ DeleteInterp \/ ReleaseInterp
    \/ AssocLoopDetach \/ \E k \in Keys : AssocLoopCall(k)
    \/ AssocLoopTableDone \/ AssocLoopExit
    \/ Done

Spec == Init /\ [][Next]_assocVars

-----------------------------------------------------------------------------
(* Properties. *)

\* No AssocData is called or freed twice, and no proc is called through a
\* structure already freed, whatever the procs register or unregister
\* while DeleteInterpProc runs them.
CallbacksOnce ==
    \A i \in DOMAIN d : d[i].calls <= 1 /\ d[i].frees <= 1 /\ ~d[i].usedFreed

\* When the interp is freed every AssocData ever allocated is freed, and
\* its proc has run unless Tcl_DontCallWhenDeleted removed it: callbacks
\* registered by callbacks while the interp is freed run too.
EveryCallbackRuns ==
    interp = "freed" =>
        \A i \in DOMAIN d : d[i].frees = 1 /\ (d[i].calls = 1 \/ d[i].cancelled)

\* The comment of Tcl_DontCallWhenDeleted: a registered callback is
\* unregistered by it and not called when the interp is deleted.
CancelHonoured ==
    vc => \A i \in DOMAIN d : d[i].proc = "victim" => d[i].calls = 0
=============================================================================
