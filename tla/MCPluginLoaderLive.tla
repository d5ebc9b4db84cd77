------------------------- MODULE MCPluginLoaderLive -------------------------
(* MCPluginLoader with a bound on the calls the application makes and weak *)
(* fairness of the steps of engine.c and plugin.c: a rwlock may prefer its *)
(* readers, so a writer is sure to get in only when the look-ups stop, and *)
(* a thread that is inside the library keeps running.                      *)
EXTENDS MCPluginLoader

CONSTANT MaxCalls   \* how many calls the application makes

VARIABLE calls      \* how many it has made

BoundedCall(t) == AppCall(t) /\ calls < MaxCalls /\ calls' = calls + 1

LibraryStep(t) == (TableOnly(t) \/ LoaderStep(t)) /\ UNCHANGED calls

BoundedInit == LoaderInit /\ calls = 0

BoundedSpec ==
    /\ BoundedInit
    /\ [][\E t \in Threads : BoundedCall(t) \/ LibraryStep(t)]_<<allVars, calls>>
    /\ \A t \in Threads : WF_<<allVars, calls>>(LibraryStep(t))
=============================================================================
