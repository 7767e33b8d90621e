----------------------------- MODULE ArgLocation -----------------------------
(***************************************************************************)
(* TIP #280 argument location tracking of tclBasic.c: the tables          *)
(* iPtr->lineLAPtr and iPtr->lineLABCPtr, which map a Tcl_Obj used as a    *)
(* command argument to the CmdFrame and word it came from, so that a      *)
(* script passed as an argument (to uplevel, eval, a proc) can be given   *)
(* its absolute location.                                                 *)
(*                                                                         *)
(* TclEvalEx enters the words of each command with TclArgumentEnter just  *)
(* before Tcl_EvalObjv and removes them with TclArgumentRelease just      *)
(* after it (5117-5119); the nested evaluation in between may run further *)
(* TclEvalEx commands, so the commands in progress form a stack.  The     *)
(* bytecode engine does the same for the literals of a ByteCode with      *)
(* TclArgumentBCEnter and TclArgumentBCRelease; those callers live in     *)
(* tclExecute.c and are modelled by the same bracket.  TclArgumentGet     *)
(* answers the lookups.                                                   *)
(*                                                                         *)
(* A CmdFrame is identified by its position on the stack.  A table is a   *)
(* function whose DOMAIN is the set of keys (Tcl_Obj pointers) it holds;  *)
(* an entry is a CFWord/CFWordBC record: its framePtr, its word (for      *)
(* bytecode, the index of its ExtIndex) and its refCount.                 *)
(*                                                                         *)
(* The words of a command are objv[1..objc-1] (the loops start at i = 1); *)
(* line[i] is TRUE when lines[i] >= 0.  TclEvalEx gives a line only to a  *)
(* word known at compile time (4982-4983), and TclSubstTokens makes a new *)
(* Tcl_Obj for it, so such a word is an object no running command holds;  *)
(* a substituted or expanded word (lines = -1, 5075) may be any object,   *)
(* for instance the literal argument of an outer command read back from a *)
(* variable.                                                               *)
(*                                                                         *)
(* With word expansion, TclEvalEx fills objv and lines from the top of     *)
(* buffers sized objectsNeeded, where an empty {*} word still counts one   *)
(* slot (5038), and then advances objv past the unused slots (5086) but    *)
(* not lines.  The frame's line array (5115), which TclArgumentEnter reads,*)
(* is then shifted by the number e of empty expansions: objv[i] is paired  *)
(* with the line of word i - e, or with a slot no word was copied to       *)
(* (uninitialized or stale, any value) for i < e.  seen holds that array;  *)
(* line holds whether each word really has a line.                         *)
(***************************************************************************)
EXTENDS Naturals, SequencesExt, Functions

CONSTANTS
    Objs,        \* the Tcl_Obj pointers commands may use as words
    PureObjs,    \* objects without a string rep, or canonical lists
    Codes,       \* ByteCode structures the engine may execute
    ExtCmdLoc,   \* [codes in iPtr->lineBCPtr -> Seq(Objs)]: eiloc[i].obj
    MaxDepth,    \* bound: nesting of commands in progress
    MaxWords,    \* bound: argument words of one command
    MaxEmptyExpansions, \* bound: empty {*} words of one command
    None

ASSUME /\ PureObjs \subseteq Objs
       /\ DOMAIN ExtCmdLoc \subseteq Codes
       /\ \A c \in DOMAIN ExtCmdLoc : ExtCmdLoc[c] \in Seq(Objs \ PureObjs)
       /\ MaxDepth \in Nat /\ MaxWords \in Nat \ {0} /\ MaxEmptyExpansions \in Nat

VARIABLES
    stack,   \* commands in progress, innermost last: their CmdFrames
    la,      \* iPtr->lineLAPtr: [obj -> CFWord]
    labc     \* iPtr->lineLABCPtr: [obj -> CFWordBC]

vars == <<stack, la, labc>>

Entry == [frame : Nat, word : Nat, refCount : Nat \ {0}]
Frame == [type : {"eval", "bc"}, objv : Seq(Objs), line : Seq(BOOLEAN),
          seen : Seq(BOOLEAN), code : Codes \cup {None}, pc : Nat]

-----------------------------------------------------------------------------
(* Tcl_DeleteHashEntry of key o. *)
DropKey(tab, o) == [k \in DOMAIN tab \ {o} |-> tab[k]]

(* The loop body of TclArgumentEnter and TclArgumentBCEnter over the       *)
(* words objs[i] with i in keep, from i onwards: a new key gets an entry   *)
(* pointing at frame d and word i, a key already present only counts up.   *)
RECURSIVE EnterRefs(_, _, _, _, _)
EnterRefs(tab, objs, keep, d, i) ==
    IF i > Len(objs) THEN tab
    ELSE LET o   == objs[i]
             nxt == IF i \notin keep THEN tab
                    ELSE IF o \in DOMAIN tab
                         THEN [tab EXCEPT ![o].refCount = @ + 1]
                         ELSE (o :> [frame |-> d, word |-> i, refCount |-> 1])
                              @@ tab
         IN EnterRefs(nxt, objs, keep, d, i + 1)

(* The loop body of TclArgumentRelease and TclArgumentBCRelease: every     *)
(* word found in the table counts down, and the entry is deleted at zero. *)
RECURSIVE ReleaseRefs(_, _, _)
ReleaseRefs(tab, objs, i) ==
    IF i > Len(objs) THEN tab
    ELSE LET o   == objs[i]
             nxt == IF o \notin DOMAIN tab THEN tab
                    ELSE IF tab[o].refCount > 1
                         THEN [tab EXCEPT ![o].refCount = @ - 1]
                         ELSE DropKey(tab, o)
         IN ReleaseRefs(nxt, objs, i + 1)

(* TclArgumentEnter: words whose entry of cfPtr->line is < 0 are ignored. *)
ArgumentEnter(tab, fr, d) ==
    EnterRefs(tab, fr.objv, {i \in DOMAIN fr.seen : fr.seen[i]}, d, 1)

(* TclArgumentRelease: every word is looked up, whatever its line. *)
ArgumentRelease(tab, fr) == ReleaseRefs(tab, fr.objv, 1)

(* TclArgumentBCEnter: nothing when lineBCPtr has no ExtCmdLoc for c. *)
ArgumentBCEnter(tab, c, d) ==
    IF c \notin DOMAIN ExtCmdLoc THEN tab
    ELSE EnterRefs(tab, ExtCmdLoc[c], DOMAIN ExtCmdLoc[c], d, 1)

(* TclArgumentBCRelease. *)
ArgumentBCRelease(tab, c) ==
    IF c \notin DOMAIN ExtCmdLoc THEN tab
    ELSE ReleaseRefs(tab, ExtCmdLoc[c], 1)

(* The lookup of TclArgumentGet: pure objects bail out, then the argument *)
(* stack is searched before the bytecode literals.                        *)
LocationOf(o) ==
    CASE o \in PureObjs     -> None
      [] o \in DOMAIN la    -> [tab |-> "la", frame |-> la[o].frame,
                                word |-> la[o].word]
      [] o \in DOMAIN labc  -> [tab |-> "bc", frame |-> labc[o].frame,
                                word |-> labc[o].word]
      [] OTHER              -> None

(* Objects some running command, a ByteCode or a table still holds. *)
InUse == UNION {Range(stack[d].objv) : d \in DOMAIN stack}
         \cup UNION {Range(ExtCmdLoc[c]) : c \in DOMAIN ExtCmdLoc}
         \cup DOMAIN la

-----------------------------------------------------------------------------
Init == /\ stack = <<>>
        /\ la = <<>>
        /\ labc = <<>>

(* The line array of the frame after e empty expansions: word 0 (the     *)
(* command name) has line line0, the slots below e hold any value g.       *)
ShiftedLines(line, line0, e, g) ==
    [i \in DOMAIN line |-> CASE i < e  -> g[i]
                             [] i = e  -> line0
                             [] OTHER  -> line[i - e]]

(* TclEvalEx, one command: its words are built (a word with a line is a    *)
(* new object), expanded, the frame is on the stack, TclArgumentEnter      *)
(* runs, and Tcl_EvalObjv starts.                                          *)
EvalCommand ==
    /\ Len(stack) < MaxDepth
    /\ \E n \in 1..MaxWords, e \in 0..MaxEmptyExpansions, line0 \in BOOLEAN :
       \E objv \in [1..n -> Objs], line \in [1..n -> BOOLEAN],
         g \in [{i \in 1..n : i < e} -> BOOLEAN] :
        LET fr == [type |-> "eval", objv |-> objv, line |-> line,
                   seen |-> ShiftedLines(line, line0, e, g),
                   code |-> None, pc |-> 0]
        IN /\ \A i \in 1..n : line[i] => objv[i] \notin InUse \cup PureObjs
           /\ \A i, j \in 1..n : line[i] /\ line[j] /\ i # j => objv[i] # objv[j]
           /\ stack' = Append(stack, fr)
           /\ la' = ArgumentEnter(la, fr, Len(stack) + 1)
    /\ UNCHANGED labc

(* Tcl_EvalObjv of the innermost TclEvalEx command returns (with any code):*)
(* TclArgumentRelease runs and the command is done.                        *)
EvalDone ==
    /\ stack # <<>>
    /\ Last(stack).type = "eval"
    /\ la' = ArgumentRelease(la, Last(stack))
    /\ stack' = Front(stack)
    /\ UNCHANGED labc

(* The bytecode engine starts executing ByteCode c with TclArgumentBCEnter.*)
BCExecute(c) ==
    /\ Len(stack) < MaxDepth
    /\ stack' = Append(stack, [type |-> "bc", objv |-> <<>>, line |-> <<>>, seen |-> <<>>,
                               code |-> c, pc |-> 0])
    /\ labc' = ArgumentBCEnter(labc, c, Len(stack) + 1)
    /\ UNCHANGED la

(* The execution of the innermost ByteCode ends with TclArgumentBCRelease. *)
BCDone ==
    /\ stack # <<>>
    /\ Last(stack).type = "bc"
    /\ labc' = ArgumentBCRelease(labc, Last(stack).code)
    /\ stack' = Front(stack)
    /\ UNCHANGED la

(* TclArgumentGet(o) when the location is a bytecode literal: it sets the  *)
(* pc of the frame that entered it to the literal's ExtIndex (5582-5584). *)
(* The other outcomes only read.                                          *)
ArgumentGet(o) ==
    LET loc == LocationOf(o)
    IN /\ loc # None
       /\ loc.tab = "bc"
       /\ stack' = [stack EXCEPT ![loc.frame].pc = loc.word]
       /\ UNCHANGED <<la, labc>>

Next == \/ EvalCommand
        \/ EvalDone
        \/ \E c \in Codes : BCExecute(c)
        \/ BCDone
        \/ \E o \in Objs : ArgumentGet(o)

Spec == Init /\ [][Next]_vars

-----------------------------------------------------------------------------
TypeOK == /\ stack \in Seq(Frame)
          /\ \E K \in SUBSET Objs : la \in [K -> Entry]
          /\ \E K \in SUBSET Objs : labc \in [K -> Entry]

(* While a TclEvalEx command runs, TclArgumentGet finds for each of its   *)
(* words with a line the location that command entered for it.  The      *)
(* comments of TclArgumentEnter and TclArgumentRelease (5334-5336, 5352-  *)
(* 5353) say the count keeps an entry until no user is left.              *)
LocationKept ==
    \A d \in DOMAIN stack : \A i \in DOMAIN stack[d].line :
        stack[d].type = "eval" /\ stack[d].line[i]
            => LocationOf(stack[d].objv[i]) = [tab |-> "la", frame |-> d, word |-> i]
=============================================================================
