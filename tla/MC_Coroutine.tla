---------------------------- MODULE MC_Coroutine ----------------------------
EXTENDS Coroutine

\* Commands of the interpreter: mk is [coroutine], y is [yield], ev
\* evaluates a command, del deletes one, and so does the unknown handler; x is
\* undefined, and C is the name coroutines are created under.
MC_Names == {"mk", "y", "ev", "del", "C", "unknown", "x"}
MC_InitCmds == [n \in {"mk", "y", "ev", "del", "unknown"} |->
                   CASE n = "mk" -> "coroutine"
                     [] n = "y" -> "yield"
                     [] n = "ev" -> "eval"
                     [] n = "del" -> "delete"
                     [] n = "unknown" -> "eval"]
\* The same interpreter with [interp alias {} unknown {} yield]: an unknown
\* command yields from inside TEOV_NotFound's blocking Tcl_EvalObjv.
MC_InitCmdsYieldUnknown == [MC_InitCmds EXCEPT !["unknown"] = "yield"]
MC_CorNames == {"C"}
\* No command has an execution trace.
MC_NoTraces == [n \in {} |-> "noop"]
\* Coroutine bodies: yield once or twice, delete a command and yield,
\* create a coroutine inside one, evaluate, resume C, an unknown command.
MC_Bodies == {<<"y">>, <<"y", "y">>, <<"del", "y">>, <<"mk">>, <<"ev">>,
              <<"C">>, <<"x">>}
\* Fewer bodies for the liveness run: yield, delete and yield, nest, resume.
MC_BodiesLive == {<<"y">>, <<"del", "y">>, <<"mk">>, <<"C">>}
\* Command ids a coroutine can get: every generation of C up to the bound.
MaxCorGen == 5
MC_Envs == {Main} \cup {<<"C", g>> : g \in 0..MaxCorGen}
=============================================================================
