---------------------------- MODULE DevicePages ----------------------------
(***************************************************************************)
(* The remaining device modules, the sweep that finds devices and the      *)
(* files a module obtains, beside each other.  They share no state: each   *)
(* step is one of theirs.                                                  *)
(***************************************************************************)
EXTENDS Naturals, Sequences

CONSTANTS
    None,
    RzKinds, Dpis, Binds, MaxRzOps, MaxRzStirs,                                 \* RazerDevice
    CrWriters, MaxCrOps, MaxCrStirs,                                            \* CreativeCard
    Links, Retries, MaxEbOps, MaxEbStirs,                                       \* EightBitDo
    SkKinds, Creds, Accts, FullTries, MaxSkOps, MaxSkStirs, MaxTicks,           \* SecurityKey
    UvWriters, Poll, MaxUvOps, MaxUvStirs,                                      \* UvcCamera
    Mons, MaxDmOps, MaxDmStirs,                                                 \* DellMonitor
    Machines, Ports, Sweeps, Switched, MaxMoves, MaxSweeps,                     \* DeviceSweep
    Sources, Writers, MaxVfJobs, MaxVfStirs                                     \* VendorFiles

\* The sweep knows these things; a thing that is plugged in nowhere is at no port.
ASSUME MachinesAssumption ==
    LET things == {"dock", "board", "card", "pad", "mouse", "camera", "receiver", "yubi", "panel"}
    IN  (\A machine \in Machines : machine \subseteq things) /\ None \notin Ports \cup things

ASSUME JobsAssumption == MaxVfJobs \in Nat

\* There are two monitors; what stands for a bus that is not known is none of theirs.
ASSUME MonitorsAssumption ==
    /\ \E m, n \in Mons : m # n /\ Mons = {m, n}
    /\ None \notin Mons \cup {"even"}

\* An interface that nobody claims is claimed by neither session, and a lock that is free held by nobody.
ASSUME SessionsAssumption == None \notin {"read", "write", "set", "task"}

\* A key gives a number of attempts.
ASSUME TriesAssumption == FullTries \in Nat

\* A controller is reached over USB or over Bluetooth.
ASSUME LinksAssumption == Links \subseteq {"usb", "ble"}

\* A mouse has no list of stages that stands for having none on the disk.
ASSUME StagesAssumption == None \notin Seq([{"x", "y"} -> Dpis])

VARIABLES
    rzHas, rzHw, rzDisk, rzOpen, rzStages, rzMacros, rzValues, rzShown, rzRows, rzSpoilt, rzCount,
    crCard, crHw, crPend, crIn, crHeld, crThread, crLink, crLast, crStirred, crCount,
    ebLink, ebPad, ebBus, ebHeld, ebSlot, ebDirty, ebThread, ebLast, ebBlur, ebEdited, ebCount,
    skKind, skKey, skUp, skOpen, skRows, skPass, skLock, skTask, skOp, skSaid, skBlind, skCount,
    uvCam, uvFd, uvHeld, uvPage, uvThread, uvWrote, uvBeside, uvCount,
    dmPanel, dmBus, dmSeen, dmFile, dmDev, dmOp, dmMeant, dmBeside, dmCount,
    dsAt, dsOff, dsSweep, dsDevices, dsCache, dsTmp, dsUp, dsTrue, dsBeside, dsCount,
    vfSource, vfData, vfNote, vfPin, vfImport, vfPhotos, vfStore, vfLast, vfBeside, vfCount

rzVars == <<rzHas, rzHw, rzDisk, rzOpen, rzStages, rzMacros, rzValues, rzShown, rzRows, rzSpoilt, rzCount>>
crVars == <<crCard, crHw, crPend, crIn, crHeld, crThread, crLink, crLast, crStirred, crCount>>
ebVars == <<ebLink, ebPad, ebBus, ebHeld, ebSlot, ebDirty, ebThread, ebLast, ebBlur, ebEdited, ebCount>>
skVars == <<skKind, skKey, skUp, skOpen, skRows, skPass, skLock, skTask, skOp, skSaid, skBlind, skCount>>
uvVars == <<uvCam, uvFd, uvHeld, uvPage, uvThread, uvWrote, uvBeside, uvCount>>
dmVars == <<dmPanel, dmBus, dmSeen, dmFile, dmDev, dmOp, dmMeant, dmBeside, dmCount>>
dsVars == <<dsAt, dsOff, dsSweep, dsDevices, dsCache, dsTmp, dsUp, dsTrue, dsBeside, dsCount>>
vfVars == <<vfSource, vfData, vfNote, vfPin, vfImport, vfPhotos, vfStore, vfLast, vfBeside, vfCount>>
vars == <<rzVars, crVars, ebVars, skVars, uvVars, dmVars, dsVars, vfVars>>

Rz == INSTANCE RazerDevice WITH Kinds <- RzKinds
Cr == INSTANCE CreativeCard
Eb == INSTANCE EightBitDo
Sk == INSTANCE SecurityKey
Uv == INSTANCE UvcCamera
Dm == INSTANCE DellMonitor
Ds == INSTANCE DeviceSweep
Vf == INSTANCE VendorFiles

Init == Rz!Init /\ Cr!Init /\ Eb!Init /\ Sk!Init /\ Uv!Init /\ Dm!Init /\ Ds!Init /\ Vf!Init

Next ==
    \/ Rz!Next /\ UNCHANGED <<crVars, ebVars, skVars, uvVars, dmVars, dsVars, vfVars>>
    \/ Cr!Next /\ UNCHANGED <<rzVars, ebVars, skVars, uvVars, dmVars, dsVars, vfVars>>
    \/ Eb!Next /\ UNCHANGED <<rzVars, crVars, skVars, uvVars, dmVars, dsVars, vfVars>>
    \/ Sk!Next /\ UNCHANGED <<rzVars, crVars, ebVars, uvVars, dmVars, dsVars, vfVars>>
    \/ Uv!Next /\ UNCHANGED <<rzVars, crVars, ebVars, skVars, dmVars, dsVars, vfVars>>
    \/ Dm!Next /\ UNCHANGED <<rzVars, crVars, ebVars, skVars, uvVars, dsVars, vfVars>>
    \/ Ds!Next /\ UNCHANGED <<rzVars, crVars, ebVars, skVars, uvVars, dmVars, vfVars>>
    \/ Vf!Next /\ UNCHANGED <<rzVars, crVars, ebVars, skVars, uvVars, dmVars, dsVars>>

Spec == Init /\ [][Next]_vars

-----------------------------------------------------------------------------
TypeOK ==
    /\ Rz!TypeOK /\ Cr!TypeOK /\ Eb!TypeOK /\ Sk!TypeOK
    /\ Uv!TypeOK /\ Dm!TypeOK /\ Ds!TypeOK /\ Vf!TypeOK

\* Once a device and its page are at rest, the page shows what the device does: what a write reads
\* back, and what a change of one setting does to another (the device.py of each module).
RowsAreTrue ==
    /\ Rz!MacroRowsAreTrue /\ Rz!LampIsAsShown
    /\ Cr!OutputIsShown /\ Cr!SelectedModeIsLive /\ Cr!SlidersAreTheCurve
    /\ Sk!SlotsAreShown /\ Sk!PinRowIsTrue /\ Sk!AttemptsAreTheUsers
    /\ Uv!PageFollowsCamera
    /\ Dm!RowsAreReadBack

\* What is said to be stored is, whatever happened on the way: a record synced to a controller, the
\* edits of a mouse and the macros kept for it, a panel after a calibration (8bitdo, razer, dell).
WorkIsKept ==
    /\ [](Eb!SavedIsKept /\ Eb!CleanIsStored /\ Dm!PanelIsAsMeant)
    /\ Rz!EditLands /\ Rz!SavedMacrosComeBack

\* A write leaves alone what it is not about though it carries it along: the other axis, the other
\* profiles, the other bytes, the other monitors (razer, 8bitdo, uvc, dell).
TheRestIsLeftAlone ==
    /\ [](Eb!OtherProfilesAreKept /\ Uv!LeavesTheRestAlone /\ Dm!CalibrationsAreKept)
    /\ Rz!OtherAxisStays

\* DeviceSweep: each thing has one row, which the most specialised module has
\* (core/discovery.py, the discover of each module).
EachThingHasItsRow == Ds!OneRowPerThing /\ Ds!MostSpecialisedHasIt

\* DeviceSweep, VendorFiles: a file that is read is one that was written to its end
\* (core/discovery.py, core/assets.py, core/photos.py).
FilesAreWhole == Ds!CacheIsWhole /\ Vf!PresentIsWhatIsAskedFor /\ Vf!PhotoIsTheLast
=============================================================================
