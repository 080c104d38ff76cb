-------------------------- MODULE MCDeviceSessions --------------------------
(***************************************************************************)
(* DeviceSessions for TLC, with the page of the shell and two overlapping  *)
(* writes of one control.  A run is of one of them, which the initial      *)
(* state chooses; the others stay as they are before anything is           *)
(* connected.                                                              *)
(***************************************************************************)
EXTENDS DeviceSessions

CONSTANTS c1, c2, d1, d2, a, key1, v1, v2, w1, w2

VARIABLES which,
    held, open, closing, selected, page, ui, write, poll, show, told, edits, moves, turns

pageVars == <<held, open, closing, selected, page, ui, write, poll, show, told, edits, moves, turns>>

Receivers == {[bolt |-> TRUE, noded |-> FALSE], [bolt |-> FALSE, noded |-> FALSE],
              [bolt |-> FALSE, noded |-> TRUE]}

Page == INSTANCE PageForms WITH Devices <- {a}, Keys <- {key1}, Values <- {v1, v2},
    Writers <- {w1, w2}, WritesWith <- [k \in {key1} |-> {}], Refreshes <- [k \in {key1} |-> {}],
    Exclusive <- {}, Restarting <- {}, Reshaping <- {}, Locking <- {}, Patient <- FALSE,
    TimesOut <- TRUE, MaxEdits <- 2, MaxMoves <- 0, MaxTurns <- 0

SessionsInit ==
    /\ which \in {"page", "jabra", "poly", "logitech"}
    /\ Page!Init /\ (which # "page" => selected = None /\ held = [u \in {a} |-> [k \in {key1} |-> v1]])
    /\ Jab!Init /\ (which # "jabra" => jabKind = "choice" /\ jabAccepts["headset"] = {0})
    /\ Dk!Init
    /\ Lg!Init /\ (which # "logitech" => lgKind.bolt /\ ~lgFlag)

SessionsNext ==
    \/ which = "page" /\ Page!Next /\ UNCHANGED <<which, vars>>
    \/ which = "jabra" /\ Jab!Next /\ UNCHANGED <<which, pageVars, dkVars, lgVars>>
    \/ which = "poly" /\ Dk!Next /\ UNCHANGED <<which, pageVars, jabVars, lgVars>>
    \/ which = "logitech" /\ Lg!Next /\ UNCHANGED <<which, pageVars, jabVars, dkVars>>

SessionsSpec ==
    /\ SessionsInit /\ [][SessionsNext]_<<which, pageVars, vars>>
    /\ Page!Fairness /\ Dk!Scheduled /\ Lg!Scheduled

-----------------------------------------------------------------------------
\* DeckardSession, LogitechDevice, PageForms: an operation ends, answered or not, and the control
\* that two overlapping writes fought over comes back and shows what the device holds.
OperationsEnd ==
    /\ Dk!OperationsEnd /\ Lg!PairingIsOver
    /\ Page!PendingEnds /\ Page!PageSettles
=============================================================================
