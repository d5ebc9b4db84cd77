---------------------------- MODULE MCProtonQueue ----------------------------
(* ProtonQueue with values for its constants.                              *)
EXTENDS ProtonQueue, TLC

CONSTANTS m1, m2

MCMsgHandles == {m1, m2}

Symmetry == Permutations(MCMsgHandles)
=============================================================================
