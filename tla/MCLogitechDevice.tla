-------------------------- MODULE MCLogitechDevice --------------------------
(* An instance of LogitechDevice for TLC.                                    *)
EXTENDS LogitechDevice

CONSTANTS d1, d2

\* A receiver of the kind that is paired by opening its lock.
Unifying == {[bolt |-> FALSE, noded |-> FALSE]}
=============================================================================
