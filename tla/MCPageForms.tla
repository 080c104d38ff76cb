---------------------------- MODULE MCPageForms ----------------------------
(* Instances of PageForms for TLC.                                           *)
EXTENDS PageForms, TLC

CONSTANTS key1, key2

NoOthers == [k \in Keys |-> {}]

\* Two controls that ride in the same message.
Together == [k \in Keys |-> Keys \ {k}]

TwoTogether == [k \in Keys |-> IF k \in {key1, key2} THEN {key1, key2} ELSE {}]

\* Writing the first moves the second.
FirstMovesSecond == [k \in Keys |-> IF k = key1 THEN {key2} ELSE {}]

ValueAndWriterSymmetry == Permutations(Values) \cup Permutations(Writers)
=============================================================================
