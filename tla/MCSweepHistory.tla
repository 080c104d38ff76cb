--------------------------- MODULE MCSweepHistory ---------------------------
(* An instance of SweepHistory for TLC.                                      *)
EXTENDS SweepHistory, TLC

CONSTANTS node1, node2

\* A device on USB: it is at one of two nodes, and ready whenever it is there.
UsbRows == {[path |-> node1, ready |-> TRUE], [path |-> node2, ready |-> TRUE]}

SlotAndSweepSymmetry == Permutations(Slots) \cup Permutations(Sweeps)
=============================================================================
