---------------------------- MODULE MC_ArgLocation ----------------------------
(***************************************************************************)
(* Two argument objects, one ByteCode whose single literal is a third     *)
(* object, and a fourth object without a string rep; commands nest three  *)
(* deep with up to two argument words, enough for a command to pass the   *)
(* literal argument of the command that runs it as a substituted word.    *)
(***************************************************************************)
EXTENDS ArgLocation

MC_Objs == {"o1", "o2", "lit", "pure"}
MC_ExtCmdLoc == [c \in {"code"} |-> <<"lit">>]
====
