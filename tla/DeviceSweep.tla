---------------------------- MODULE DeviceSweep ----------------------------
(***************************************************************************)
(* What the list of devices is made from.  A sweep asks five enumerators   *)
(* one after the other, each of which finds what it can of the machine;    *)
(* what was found twice is dropped, a module claims each row, a module may *)
(* add rows only it can see, and the list is saved for the next start.     *)
(*                                                                         *)
(* A machine is a few things at ports.  Two sweeps may run at once.        *)
(***************************************************************************)
EXTENDS Naturals, FiniteSets, FiniteSetsExt

CONSTANTS
    Machines,       \* sets of things: "dock", "board", "card", "pad", "mouse", "camera", "receiver", "yubi", "panel"
    Ports,          \* where things are plugged in
    Sweeps,         \* enumerate() may run more than once at a time
    Switched,       \* the modules the user may switch off
    None,
    MaxMoves,       \* bound: plugging, pulling out, switching a module
    MaxSweeps       \* bound: sweeps begun

VARIABLES
    dsAt,           \* the port each thing is at, or None
    dsOff,          \* the modules switched off
    dsSweep,        \* each sweep: [pc, rows, calm]
    dsDevices,      \* the list on display
    dsCache,        \* the saved list: [state, rows]
    dsTmp,          \* the file it is written to first
    dsUp,           \* is the program running
    dsTrue,         \* was the list on display made while nothing changed, and is nothing changed since (ghost)
    dsBeside,       \* have two sweeps saved beside each other (ghost)
    dsCount

dsVars == <<dsAt, dsOff, dsSweep, dsDevices, dsCache, dsTmp, dsUp, dsTrue, dsBeside, dsCount>>

Modules == {"fido2_security_keys", "yubikeys", "dell_docks", "creative_peripherals", "logitech_peripherals",
            "uvc_cameras", "dell_monitors", "eightbitdo_controllers"}
Machine == DOMAIN dsAt
Here(t) == t \in Machine /\ dsAt[t] # None
At(t) == dsAt[t]

Usb(port, sub) == [port |-> port, sub |-> sub]
Name(t) == [port |-> t, sub |-> 0]              \* a serial number or a Bluetooth address
NoUsb == Usb(None, 0)

-----------------------------------------------------------------------------
(* hidraw: a row for each group of nodes. *)

HidNode(t, usb, uniq, kind, interfaces, number) ==
    [of |-> t, usb |-> usb, uniq |-> uniq, kind |-> kind, interfaces |-> interfaces, number |-> number]

\* A dock answers at two places below its hub, and a keyboard plugged into it at a third; a security
\* key types, and a camera has buttons.
HidNodes(t) ==
    CASE t = "dock"     -> {HidNode(t, Usb(At(t), 1), NoUsb, "dock_usb", 2, 1), HidNode(t, Usb(At(t), 2), NoUsb, "dock_usb", 1, 2)}
      [] t = "board"    -> {HidNode(t, Usb(At(t), 3), NoUsb, "keyboard", 2, n) : n \in {3, 4}}
      [] t = "yubi"     -> {HidNode(t, Usb(At(t), 4), NoUsb, "security_key", 2, 5), HidNode(t, Usb(At(t), 4), NoUsb, "keyboard", 2, 6)}
      [] t = "card"     -> {HidNode(t, Usb(At(t), 5), NoUsb, "none", 3, 7)}
      [] t = "receiver" -> {HidNode(t, Usb(At(t), 6), NoUsb, kind, 3, 8) : kind \in {"mouse"}}
      [] t = "camera"   -> {HidNode(t, Usb(At(t), 7), NoUsb, "none", 4, 9)}
      [] t = "mouse"    -> {HidNode(t, NoUsb, Name(t), "mouse", 0, 10)}
      [] OTHER          -> {}

DockKinds == {"dock_usb"}
SpecificKinds == DockKinds \cup {"security_key"}

\* Everything plugged into a dock is below the hub too, and is not the dock.
HubForAll(n) == [hub |-> n.usb.port, alone |-> IF n.usb = NoUsb THEN n.number ELSE 0, sub |-> 0]
GroupKey(n) ==
    IF n.usb = NoUsb THEN [hub |-> None, alone |-> n.number, sub |-> 0]
    ELSE [hub |-> n.usb.port, alone |-> 0, sub |-> IF n.kind \in DockKinds THEN 0 ELSE n.usb.sub]

Row(t, bus, id) ==
    [of |-> t, bus |-> bus, id |-> id, usb |-> NoUsb, addr |-> NoUsb, kind |-> "none", fido |-> FALSE, nodes |-> {}, uuids |-> FALSE, mod |-> "none"]

GroupKind(members) ==
    IF \E n \in members : n.kind \in SpecificKinds THEN (CHOOSE n \in members : n.kind \in SpecificKinds).kind
    ELSE IF \E n \in members : n.kind # "none" THEN (CHOOSE n \in members : n.kind # "none").kind ELSE "none"

Rank(n, kind) == (IF n.kind = kind THEN 10 ELSE 0) + n.interfaces
HidRow(members) ==
    LET kind == GroupKind(members)
        best == CHOOSE n \in members : \A o \in members : Rank(n, kind) >= Rank(o, kind)
    IN  [Row(best.of, "hid", IF best.uniq # NoUsb THEN best.uniq ELSE best.usb) EXCEPT
            !.usb = best.usb, !.addr = best.uniq, !.kind = kind, !.nodes = {n.number : n \in members},
            !.fido = \E n \in members : n.kind = "security_key"]

EnumerateHid ==
    LET nodes == UNION {HidNodes(t) : t \in {u \in Machine : Here(u)}}
    IN  {HidRow({n \in nodes : GroupKey(n) = key}) : key \in {GroupKey(n) : n \in nodes}}

-----------------------------------------------------------------------------
(* The other enumerators. *)

\* Things with a control interface, named by a serial number or by the port.
EnumerateUsb ==
    {[Row(t, "usb", IF t = "card" THEN Name(t) ELSE Usb(At(t), 5)) EXCEPT !.usb = Usb(At(t), 5)] :
        t \in {u \in {"card", "pad"} : Here(u)}}

\* A paired device is listed whether it is switched on or not.
EnumerateBluetooth ==
    {[Row(t, "bt", Name(t)) EXCEPT !.addr = Name(t), !.uuids = TRUE] : t \in Machine \cap {"mouse"}}

EnumerateDisplays == {Row(t, "drm", Usb(At(t), 8)) : t \in {u \in {"panel"} : Here(u)}}

\* A camera has a colour and an infrared node.
EnumerateV4l2 ==
    {[Row(t, "v4l2", Usb(At(t), 7)) EXCEPT !.usb = Usb(At(t), 7), !.nodes = {11, 12}] : t \in {u \in {"camera"} : Here(u)}}

Enumerators == <<"hid", "usb", "bt", "drm", "v4l2">>
Found(bus) ==
    CASE bus = "hid" -> EnumerateHid [] bus = "usb" -> EnumerateUsb [] bus = "bt" -> EnumerateBluetooth
      [] bus = "drm" -> EnumerateDisplays [] OTHER -> EnumerateV4l2

AllKept(rows) == rows

\* A hidraw row stands for the same thing's control channel and its Bluetooth row, and a camera's
\* row for its hidraw nodes, whose numbers it takes over.
OneRowPerDevice(rows) ==
    LET hid == {r \in rows : r.bus = "hid"}
        parents == {r.usb : r \in hid} \ {NoUsb}
        addresses == {r.addr : r \in hid} \ {NoUsb}
        cameras == {r.usb : r \in {s \in rows : s.bus = "v4l2"}}
        IsDuplicate(r) == \/ r.bus = "usb" /\ r.usb \in parents
                          \/ r.bus = "bt" /\ r.addr \in addresses
                          \/ r.bus = "hid" /\ r.usb \in cameras
        WithHidNodes(r) == IF r.bus # "v4l2" THEN r
                           ELSE [r EXCEPT !.nodes = @ \cup UNION {h.nodes : h \in {g \in hid : g.usb = r.usb}}]
    IN  {WithHidNodes(r) : r \in {s \in rows : ~IsDuplicate(s)}}

-----------------------------------------------------------------------------
(* Claims. *)

Matches(m, r) ==
    CASE m = "fido2_security_keys"    -> r.bus = "hid" /\ r.fido
      [] m = "yubikeys"               -> r.bus = "hid" /\ r.fido /\ r.of = "yubi"
      [] m = "dell_docks"             -> r.bus = "hid" /\ r.of = "dock"
      [] m = "creative_peripherals"   -> r.bus \in {"hid", "usb"} /\ r.of = "card"
      [] m = "logitech_peripherals"   -> \/ r.bus = "hid" /\ r.of \in {"mouse", "receiver", "camera"}
                                         \/ r.bus = "bt" /\ r.uuids
      [] m = "uvc_cameras"            -> r.bus = "v4l2"
      [] m = "dell_monitors"          -> r.bus = "drm"
      [] OTHER                        -> r.bus = "usb" /\ r.of = "pad"

Extends(m) == IF m = "yubikeys" THEN "fido2_security_keys" ELSE "none"
Specificity(m) == IF Extends(m) \in Modules THEN 1 ELSE 0

ClaimForAny(r) ==
    IF \E m \in Modules : Matches(m, r)
    THEN [r EXCEPT !.mod = CHOOSE m \in Modules : Matches(m, r) /\ \A o \in Modules : Matches(o, r) => Specificity(m) >= Specificity(o)]
    ELSE r

\* Without an active module that matches, a row keeps the module it came with.
Claim(r) ==
    LET hits == {m \in Modules \ dsOff : Matches(m, r)}
    IN  IF hits = {} THEN r ELSE [r EXCEPT !.mod = CHOOSE m \in hits : \A o \in hits : Specificity(m) >= Specificity(o)]

\* The mouse and keyboard behind a receiver have no node: its module asks it.
Children(r) == IF r.mod = "logitech_peripherals" /\ r.of = "receiver" /\ Here("receiver")
               THEN {[Row("child", "hid", Name("receiver")) EXCEPT !.mod = r.mod]} ELSE {}
Expand(rows) == rows \cup UNION {Children(r) : r \in rows}

Claimed(rows) == Expand({Claim(r) : r \in OneRowPerDevice(rows)})

-----------------------------------------------------------------------------
Whole(rows) == [state |-> "whole", rows |-> rows]
Torn == [state |-> "torn", rows |-> {}]
Absent == [state |-> "absent", rows |-> {}]

Idle == [pc |-> 0, rows |-> {}, calm |-> FALSE]
Published == 6
Writing == 7
Written == 8

Init ==
    /\ \E things \in Machines : dsAt \in [things -> Ports]
    /\ \A t, u \in Machine : t # u /\ dsAt[t] = dsAt[u] => {t, u} = {"dock", "board"}
    /\ dsOff = {} /\ dsSweep = [s \in Sweeps |-> Idle]
    /\ dsDevices = {} /\ dsCache = Whole({}) /\ dsTmp = Absent /\ dsUp = TRUE
    /\ dsTrue = FALSE /\ dsBeside = FALSE
    /\ dsCount = [moves |-> 0, sweeps |-> 0]

\* Plugging in, pulling out, switching a wireless thing on and off.
Move(t) ==
    /\ dsCount.moves < MaxMoves
    /\ \E p \in (Ports \cup {None}) \ {dsAt[t]} :
          /\ \A u \in Machine \ {t} : p # None /\ dsAt[u] = p => {t, u} = {"dock", "board"}
          /\ dsAt' = [dsAt EXCEPT ![t] = p]
    /\ dsCount' = [dsCount EXCEPT !.moves = @ + 1]
    /\ dsSweep' = [s \in Sweeps |-> [dsSweep[s] EXCEPT !.calm = FALSE]]
    /\ dsTrue' = FALSE
    /\ UNCHANGED <<dsOff, dsDevices, dsCache, dsTmp, dsUp, dsBeside>>

\* The modules page saves a choice at once; a sweep follows when the page is closed.
SetEnablement(m) ==
    /\ dsUp /\ dsCount.moves < MaxMoves
    /\ dsOff' = IF m \in dsOff THEN dsOff \ {m} ELSE dsOff \cup {m}
    /\ dsCount' = [dsCount EXCEPT !.moves = @ + 1]
    /\ dsTrue' = FALSE
    /\ UNCHANGED <<dsAt, dsSweep, dsDevices, dsCache, dsTmp, dsUp, dsBeside>>

StartSweep(s) ==
    /\ dsUp /\ dsSweep[s].pc = 0 /\ dsCount.sweeps < MaxSweeps
    /\ dsSweep' = [dsSweep EXCEPT ![s] = [pc |-> 1, rows |-> {}, calm |-> TRUE]]
    /\ dsCount' = [dsCount EXCEPT !.sweeps = @ + 1]
    /\ UNCHANGED <<dsAt, dsOff, dsDevices, dsCache, dsTmp, dsUp, dsTrue, dsBeside>>

GoesOn(s, pc, rows) == dsSweep' = [dsSweep EXCEPT ![s] = [pc |-> pc, rows |-> rows, calm |-> dsSweep[s].calm]]

Enumerate(s) ==
    /\ dsSweep[s].pc \in 1..4
    /\ GoesOn(s, dsSweep[s].pc + 1, dsSweep[s].rows \cup Found(Enumerators[dsSweep[s].pc]))
    /\ UNCHANGED <<dsAt, dsOff, dsDevices, dsCache, dsTmp, dsUp, dsTrue, dsBeside, dsCount>>

Publish(s) ==
    /\ dsSweep[s].pc = 5
    /\ LET rows == Claimed(dsSweep[s].rows \cup EnumerateV4l2)
       IN  /\ dsDevices' = rows
           /\ GoesOn(s, Published, rows)
    /\ dsTrue' = dsSweep[s].calm
    /\ UNCHANGED <<dsAt, dsOff, dsCache, dsTmp, dsUp, dsBeside, dsCount>>

Directly == dsCache' = Torn
Beforehand == UNCHANGED dsCache

\* What is saved is what is on display at that moment; the file written is empty until it is done,
\* and is not the one read.
BeginSave(s) ==
    /\ dsSweep[s].pc = Published
    /\ dsTmp' = Torn /\ Beforehand
    /\ GoesOn(s, Writing, dsDevices)
    /\ dsBeside' = (dsBeside \/ \E o \in Sweeps \ {s} : dsSweep[o].pc \in {Writing, Written})
    /\ UNCHANGED <<dsAt, dsOff, dsDevices, dsUp, dsTrue, dsCount>>

EndWrite(s) ==
    /\ dsSweep[s].pc = Writing
    /\ dsTmp' = Whole(dsSweep[s].rows)
    /\ GoesOn(s, Written, dsSweep[s].rows)
    /\ UNCHANGED <<dsAt, dsOff, dsDevices, dsCache, dsUp, dsTrue, dsBeside, dsCount>>

\* The file may have been put in place by another sweep already, which ends this one with an error.
InPlace(s) == IF dsTmp = Absent THEN dsCache ELSE dsTmp

Replace(s) ==
    /\ dsSweep[s].pc = Written
    /\ dsCache' = InPlace(s)
    /\ dsTmp' = Absent
    /\ dsSweep' = [dsSweep EXCEPT ![s] = Idle]
    /\ UNCHANGED <<dsAt, dsOff, dsDevices, dsUp, dsTrue, dsBeside, dsCount>>

\* The program ends at any moment, and what was being written stays as it is.
Crash ==
    /\ dsUp
    /\ dsUp' = FALSE
    /\ dsSweep' = [s \in Sweeps |-> Idle] /\ dsDevices' = {} /\ dsTrue' = FALSE
    /\ UNCHANGED <<dsAt, dsOff, dsCache, dsTmp, dsBeside, dsCount>>

\* The saved list is shown until the first sweep; it has no service ids, and an unreadable one is none.
Uncached(r) == [r EXCEPT !.uuids = FALSE, !.nodes = {}]
PaintFromCache ==
    /\ ~dsUp
    /\ dsUp' = TRUE
    /\ dsDevices' = {Claim(Uncached(r)) : r \in dsCache.rows}
    /\ UNCHANGED <<dsAt, dsOff, dsSweep, dsCache, dsTmp, dsTrue, dsBeside, dsCount>>

Next ==
    \/ \E t \in Machine : Move(t)
    \/ \E m \in Switched : SetEnablement(m)
    \/ \E s \in Sweeps : StartSweep(s) \/ Enumerate(s) \/ Publish(s) \/ BeginSave(s) \/ EndWrite(s) \/ Replace(s)
    \/ Crash \/ PaintFromCache

Spec == Init /\ [][Next]_dsVars

-----------------------------------------------------------------------------
TypeOK ==
    /\ dsAt \in [Machine -> Ports \cup {None}] /\ dsOff \subseteq Switched
    /\ \A s \in Sweeps : dsSweep[s].pc \in 0..Written
    /\ dsDevices \subseteq [of : Machine \cup {"child"}, bus : {"hid", "usb", "bt", "drm", "v4l2"},
                            id : [port : Ports \cup {None} \cup Machine, sub : 0..12],
                            usb : [port : Ports \cup {None}, sub : 0..8],
                            addr : [port : Machine \cup {None}, sub : {0}], kind : DockKinds \cup {"none", "keyboard", "mouse", "security_key"},
                            fido : BOOLEAN, nodes : SUBSET (1..12), uuids : BOOLEAN, mod : Modules \cup {"none"}]

\* Docks answer in several places, keys type, cameras have buttons, and a mouse is on Bluetooth and
\* on hidraw: each thing there is on one row, under a name no other row has.
OneRowPerThing ==
    dsTrue =>
        /\ \A t \in Machine : Here(t) \/ t = "mouse" => Cardinality({r \in dsDevices : r.of = t}) = 1
        /\ \A r, q \in dsDevices : r # q => [bus |-> r.bus, id |-> r.id, of |-> r.of = "child"] # [bus |-> q.bus, id |-> q.id, of |-> q.of = "child"]

\* The most specialised module that is switched on has each row, and a module that is off has none,
\* in whatever order modules are switched and sweeps run.
MostSpecialisedHasIt ==
    dsTrue => \A r \in dsDevices :
        /\ r.mod # "none" => r.mod \notin dsOff
        /\ \A m \in Modules \ dsOff : Matches(m, r) => r.mod \notin {"none", Extends(m)}

\* The program may end at any moment of a save: the saved list is a whole one, as long as two sweeps
\* do not save beside each other.
CacheIsWhole == ~dsBeside => dsCache # Torn

\* A module that is switched off is never matched: nor in the list painted when the program starts.
OffIsNeverMatched == [][~dsUp /\ dsUp' => \A r \in dsDevices' : r.mod \notin dsOff]_dsVars

\* A thing with an address of its own is known by the same name whichever enumerator found it, also
\* when it was switched off and on: its settings are kept under that name.
IdentityLasts ==
    [][\A r \in dsDevices, q \in dsDevices' : r.addr # NoUsb /\ r.addr = q.addr => r.bus = q.bus /\ r.id = q.id]_dsVars
=============================================================================
