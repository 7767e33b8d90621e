-------------------------- MODULE CoroutineAbstract --------------------------
(***************************************************************************)
(* What coroutines promise (spec 4.4), without callback stacks, levels or *)
(* execution environments.  A coroutine is created running, and is        *)
(* suspended, running or done; the running ones form a stack of           *)
(* resumptions, innermost last, and only the innermost one can yield or   *)
(* finish, which hands control back to the one below it.  A suspended      *)
(* coroutine can be resumed (a rewind after deletion is a resume too); a  *)
(* done one never runs again.                                              *)
(***************************************************************************)
EXTENDS Naturals, SequencesExt

CONSTANT Cors        \* the coroutines that can be created

VARIABLES
    corState,        \* [Cors -> {"none", "suspended", "running", "done"}]
    corStack         \* the running coroutines, innermost last

absVars == <<corState, corStack>>

Init ==
    /\ corState = [c \in Cors |-> "none"]
    /\ corStack = <<>>

\* [coroutine]: the new coroutine starts running its body at once.
Create(c) ==
    /\ corState[c] = "none"
    /\ corState' = [corState EXCEPT ![c] = "running"]
    /\ corStack' = Append(corStack, c)

\* Invoking a suspended coroutine's command runs it on top of its resumer.
Resume(c) ==
    /\ corState[c] = "suspended"
    /\ corState' = [corState EXCEPT ![c] = "running"]
    /\ corStack' = Append(corStack, c)

\* [yield] suspends the innermost coroutine and returns to its resumer.
Yield ==
    /\ corStack # <<>>
    /\ corState' = [corState EXCEPT ![Last(corStack)] = "suspended"]
    /\ corStack' = Front(corStack)

\* The body of the innermost coroutine ends: it is done for good.
Finish ==
    /\ corStack # <<>>
    /\ corState' = [corState EXCEPT ![Last(corStack)] = "done"]
    /\ corStack' = Front(corStack)

Next == (\E c \in Cors : Create(c) \/ Resume(c)) \/ Yield \/ Finish

Spec == Init /\ [][Next]_absVars
=============================================================================
