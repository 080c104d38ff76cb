--------------------------- MODULE DeviceSessions ---------------------------
(***************************************************************************)
(* Three devices whose page goes on while something else moves, beside     *)
(* each other: a Jabra headset, a Poly one and a Logitech receiver.  They  *)
(* share no state: each step is one of theirs.                             *)
(***************************************************************************)
EXTENDS Naturals

CONSTANTS
    None,
    Top, MaxProbes, MaxJabWrites, MaxJabTouches, MaxJabSittings,      \* JabraHeadset
    Levels, Attempts, Stash, MaxOps, MaxStirs,                        \* DeckardSession
    LgDevs, LgKinds, LgSlots, MaxLgOps, MaxLgStirs                    \* LogitechDevice

\* A setting has two values at least, and what stands for an absence is none of the things that may
\* be there.
ASSUME JabraAssumption ==
    LET ends == {"headset", "adapter"}
    IN  /\ Top \in Nat \ {0}
        /\ None \notin [ends -> SUBSET (0..Top)]
        /\ None \notin [row : ends, val : 0..Top, at : {"sent", "acked", "landed", "refused"}]

\* A write is read back some number of times, and one event at least is kept.
ASSUME PolyAssumption ==
    /\ Levels # {} /\ Attempts \in Nat /\ Stash \in Nat \ {0}
    /\ None \notin Levels \cup {"set", "get"}
    /\ None \notin [row : {"headset", "adapter"}, val : Levels \cup {None}, at : {"set", "get"},
                    tries : Nat]

ASSUME LogitechAssumption ==
    /\ LgSlots \in Nat \ {0} /\ LgDevs # {}
    /\ None \notin LgDevs \cup 0..LgSlots
    /\ \A slots \in SUBSET (1..LgSlots) : slots # None

VARIABLES
    jabKind, jabAccepts, jabHw, jabLimits, jabOffered, jabPage, jabNews, jabPoll, jabRead, jabOp,
    jabPending, jabClean, jabDropped, jabCount,
    dkLink, dkSession, dkAddr, dkHw, dkAsked, dkPipe, dkEvents, dkOp, dkCall, dkPage, dkTrouble,
    dkPressed, dkCount,
    lgKind, lgSlots, lgFlag, lgAir, lgNotes, lgPairing, lgThread, lgCall, lgCancel, lgPage, lgRows,
    lgName, lgListed, lgMemo, lgDrift, lgSaid, lgSpoilt, lgCount

jabVars == <<jabKind, jabAccepts, jabHw, jabLimits, jabOffered, jabPage, jabNews, jabPoll, jabRead,
    jabOp, jabPending, jabClean, jabDropped, jabCount>>
dkVars == <<dkLink, dkSession, dkAddr, dkHw, dkAsked, dkPipe, dkEvents, dkOp, dkCall, dkPage,
    dkTrouble, dkPressed, dkCount>>
lgVars == <<lgKind, lgSlots, lgFlag, lgAir, lgNotes, lgPairing, lgThread, lgCall, lgCancel, lgPage,
    lgRows, lgName, lgListed, lgMemo, lgDrift, lgSaid, lgSpoilt, lgCount>>
vars == <<jabVars, dkVars, lgVars>>

Jab == INSTANCE JabraHeadset
Dk == INSTANCE DeckardSession
Lg == INSTANCE LogitechDevice

Init == Jab!Init /\ Dk!Init /\ Lg!Init

Next ==
    \/ Jab!Next /\ UNCHANGED <<dkVars, lgVars>>
    \/ Dk!Next /\ UNCHANGED <<jabVars, lgVars>>
    \/ Lg!Next /\ UNCHANGED <<jabVars, dkVars>>

Spec == Init /\ [][Next]_vars

-----------------------------------------------------------------------------
TypeOK == Jab!TypeOK /\ Dk!TypeOK /\ Lg!TypeOK

\* At rest the page shows what the device holds, whatever order writes, polls, pushes and pairings
\* came in (jabra device.py and controller.py, poly device.py, logitech device.py).
PageSettles == Jab!PageSettles /\ Dk!PageSettles /\ Lg!PairingRowsAreTrue

\* A headset write goes to the end its row belongs to, through refreshes and requests that fail half
\* way (DeckardSession: device.py:355-409, session.py); what the page no longer offers the headset does
\* not take, and a refused value of a range costs one click (JabraHeadset: device.py:447-578).
HeadsetWritesGoHome ==
    /\ [](Dk!WriteGoesToItsEnd /\ Jab!LimitsAreTrue)
    /\ Jab!EdgeIsTheWall

\* LogitechDevice: a pairing hears the receiver, names a device that is new, leaves the receiver's
\* flag as it found it, and the next sweep lists what is in the slots (device.py:504-572, children.py).
PairingIsHonest ==
    /\ [](Lg!PairedIsNew /\ Lg!HearsWhilePairing)
    /\ Lg!FlagIsPutBack /\ Lg!ListedArePaired
=============================================================================
