--------------------------- MODULE MC_RegistryOps ---------------------------
(* Two global names, "a" defined by Tcl_CreateCommand (a string command)  *)
(* and "b" undefined at first, and one hidden-command token.  The traces  *)
(* a script may add are given per run.                                     *)
(* The runs about deleteProcs start instead with an extension's pair "a"  *)
(* and "b" whose deleteProcs delete each other, and two hidden-command     *)
(* tokens in separate buckets or in one bucket of the hidden table.       *)
EXTENDS RegistryOps

MC_Names == {"a", "b"}
MC_Tokens == {"t"}
MC_InitCmds == [n \in {"a"} |-> "string"]
MC_NoDeleteProcs == [n \in {"a"} |-> "none"]
MC_OneBucket == [t \in MC_Tokens |-> 0]
\* Delete traces that re-create their command.
MC_DeleteTraces == {[event |-> "delete", script |-> "Recreate", name |-> "a"]}
\* ... and that also call it.
MC_CallTraces == {[event |-> "delete", script |-> "RecreateAndCall", name |-> "a"]}
\* Rename traces that re-create the old name.
MC_RenameTraces == {[event |-> "rename", script |-> "Recreate", name |-> "a"]}

MC_PairTokens == {"t", "u"}
MC_PairCmds == [n \in {"a", "b"} |-> IF n = "a" THEN "string" ELSE "obj"]
MC_Partners == [n \in {"a", "b"} |-> IF n = "a" THEN "b" ELSE "a"]
MC_SplitBuckets == [t \in MC_PairTokens |-> IF t = "t" THEN 0 ELSE 1]
MC_SharedBucket == [t \in MC_PairTokens |-> 0]
=============================================================================
