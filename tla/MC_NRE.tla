------------------------------- MODULE MC_NRE -------------------------------
(* A small interpreter for checking NRE: one command of each kind, the    *)
(* unknown handler defined as an eval-like command (so an undefined name  *)
(* recurses through nested TclNRRunCallbacks until the nesting limit), and *)
(* one name, "x", that is never defined.  "te" and "tl" return TCL_OK and *)
(* carry an execution trace: te's enter trace deletes it, tl's leave      *)
(* trace does.                                                             *)
EXTENDS NRE

MC_Names == {"ev", "ca", "br", "er", "del", "unknown", "x", "te", "tl"}

MC_InitCmds == [n \in {"ev", "ca", "br", "er", "del", "unknown", "te", "tl"} |->
                   CASE n = "ev"      -> "eval"
                     [] n = "ca"      -> "catch"
                     [] n = "br"      -> "break"
                     [] n = "er"      -> "error"
                     [] n = "del"     -> "delete"
                     [] n = "unknown" -> "eval"
                     [] n \in {"te", "tl"} -> "ok"]
MC_ExecTraces == [n \in {"te", "tl"} |-> IF n = "te" THEN "enterDelete"
                                       ELSE "leaveDelete"]
=============================================================================
