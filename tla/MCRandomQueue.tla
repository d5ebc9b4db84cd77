---------------------------- MODULE MCRandomQueue ----------------------------
(* RandomQueue with values for its constants.                              *)
EXTENDS RandomQueue, TLC

CONSTANTS m1, m2, east, west, inEast, unset

MCMsgHandles  == {m1, m2}
MCClusters    == {inEast, unset}
MCPartitionOf == [k \in MCClusters |-> IF k = inEast THEN east ELSE Null]

Symmetry == Permutations(MCMsgHandles)
=============================================================================
