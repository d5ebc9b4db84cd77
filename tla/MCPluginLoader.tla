--------------------------- MODULE MCPluginLoader ---------------------------
(* PluginLoader with values for its constants: a directory with a plug-in  *)
(* and another file.  MCWants is that of queues/random.c, whose mq_entry() *)
(* registers one scheme; MCWantsTwo is that of a plug-in for two schemes,  *)
(* as the built-in engine is.                                              *)
EXTENDS PluginLoader, TLC

CONSTANTS t1, t2, amqp, random, proton, randomctor, randomso, readme, h

MCThreads      == {t1, t2}
MCSchemes      == {amqp, random}
MCConstructors == {proton, randomctor}
MCHandles      == {h, Null}
MCBuiltins     == <<amqp>>
MCFiles        == {randomso, readme}
MCLoadable     == {randomso}
MCNameLen      == [f \in MCFiles |-> 9]
MCHandleOf     == [f \in MCLoadable |-> h]
MCWants        == [f \in MCLoadable |-> <<<<random, randomctor>>>>]
MCWantsTwo     == [f \in MCLoadable |-> <<<<random, randomctor>>, <<amqp, randomctor>>>>]

Symmetry == Permutations(MCThreads)
=============================================================================
