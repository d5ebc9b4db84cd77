-------------------------- MODULE MCEngineRegistry --------------------------
(* EngineRegistry with values for its constants.                           *)
EXTENDS EngineRegistry, TLC

CONSTANTS t1, t2, amqp, other, proton, plugin, h

MCThreads      == {t1, t2}
MCSchemes      == {amqp, other}
MCConstructors == {proton, plugin}
MCHandles      == {h, Null}
MCBuiltins     == <<amqp>>

Symmetry == Permutations(MCThreads)
=============================================================================
