----------------------------- MODULE MC_AssocData -----------------------------
(* One name for Tcl_SetAssocData and a counter wide enough for every       *)
(* registration the bound allows.                                          *)
EXTENDS AssocData

MC_Names == {"n"}
\* Procs the extension code registers itself.
MC_HostProcs == {"noop", "victim", "again"}
\* ... including one that unregisters the victim.
MC_CancelProcs == {"noop", "victim", "canceller"}
=============================================================================
