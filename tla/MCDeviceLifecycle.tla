------------------------- MODULE MCDeviceLifecycle -------------------------
(* Instances of DeviceLifecycle for TLC.                                     *)
EXTENDS DeviceLifecycle, TLC

CONSTANTS node1, node2

\* A device on USB: it is at one of two nodes, and ready whenever it is there.
UsbRows == {[path |-> node1, ready |-> TRUE], [path |-> node2, ready |-> TRUE]}

\* A headset: BlueZ lists it, switched on or not, and gives it no path.
HeadsetRows == {[path |-> NoPath, ready |-> TRUE], [path |-> NoPath, ready |-> FALSE]}

OneRow == {[path |-> node1, ready |-> TRUE]}

SlotSymmetry == Permutations(Slots)

SlotAndSweepSymmetry == Permutations(Slots) \cup Permutations(Sweeps)
=============================================================================
