----------------------------- MODULE EightBitDo -----------------------------
(***************************************************************************)
(* An 8BitDo controller.  Its three profiles are one record, read whole    *)
(* and written whole in a save session; edits change the record that is    *)
(* held and nothing else until Sync.  Every session opens the interface    *)
(* anew: over USB it takes it from the gamepad driver and claims it, and   *)
(* the thread of the poll and that of a save may both be at it.            *)
(*                                                                         *)
(* A profile is a pair of chunks, the first of which carries the marker of *)
(* a written profile; there are two profiles.                              *)
(***************************************************************************)
EXTENDS Naturals, Sequences

CONSTANTS
    Links,          \* subset of {"usb", "ble"}: the ways the controller is reached
    None,
    Retries,        \* sessions tried when the controller leaves the bus
    MaxEbOps,       \* bound: connects, edits, syncs and polls
    MaxEbStirs      \* bound: unplugs, answers not received

VARIABLES
    ebLink,         \* "usb" or "ble"
    ebPad,          \* the controller: [here, live, kept, save], the record in use and the one stored
    ebBus,          \* [driver, claim]: is the gamepad driver bound, which thread claims the interface
    ebHeld,         \* the configuration that is edited, or None
    ebSlot,         \* the profile being edited
    ebDirty,        \* are there edits the controller was not told of
    ebThread,       \* the sessions under way, of the reader and of the writer
    ebLast,         \* the record the last sync was to store and whether it was reported stored
    ebBlur,         \* was part of a profile never received, or the record read beside a save
    ebEdited,       \* the profiles edited so far, and the record before (ghost)
    ebCount

ebVars == <<ebLink, ebPad, ebBus, ebHeld, ebSlot, ebDirty, ebThread, ebLast, ebBlur, ebEdited, ebCount>>

Slots == 1..2
ChunkIds == 1..2
Threads == {"read", "write"}

Values == {"a", "b"}
Written == {<<"m", v>> : v \in Values}
Empty == <<"0", "0">>
Unread == "ff"
IsWritten(slot) == slot[1] = "m"

Idle == [step |-> "off", buf |-> None, todo |-> {}, rec |-> None, detached |-> FALSE, lost |-> FALSE, tries |-> 0]
NoSave == [open |-> FALSE, got |-> {}]

Bump(field) == ebCount' = [ebCount EXCEPT ![field] = @ + 1]
MayOp == ebCount.ops < MaxEbOps
MayStir == ebCount.stirs < MaxEbStirs

Init ==
    /\ ebLink \in Links
    /\ \E second \in {Empty, <<"m", "b">>} :
          LET rec == <<<<"m", "a">>, second>> IN
          ebPad = [here |-> TRUE, live |-> rec, kept |-> rec, save |-> NoSave]
    /\ ebBus = [driver |-> TRUE, claim |-> None]
    /\ ebHeld = None /\ ebSlot = 1 /\ ebDirty = FALSE
    /\ ebThread = [t \in Threads |-> Idle]
    /\ ebLast = None /\ ebBlur = FALSE
    /\ ebEdited = [slots |-> {}, was |-> ebPad.kept]
    /\ ebCount = [ops |-> 0, stirs |-> 0]

-----------------------------------------------------------------------------
(* Edits: they change the record that is held. *)

EditKeep == UNCHANGED <<ebLink, ebPad, ebBus, ebThread, ebLast, ebBlur>>

\* Sync owns the page: while the writer is at work no row can be edited.
MayEdit == ebHeld # None /\ ebThread["write"].step = "off" /\ MayOp

SelectProfile(slot) ==
    /\ MayEdit
    /\ ebSlot' = slot
    /\ Bump("ops")
    /\ UNCHANGED <<ebHeld, ebDirty, ebEdited>> /\ EditKeep

Edited ==
    /\ ebDirty' = TRUE
    /\ ebEdited' = [ebEdited EXCEPT !.slots = @ \cup {ebSlot}]
    /\ Bump("ops")

\* The rows of a profile that was never written cannot be edited.
Edit(value) ==
    /\ MayEdit /\ IsWritten(ebHeld[ebSlot])
    /\ ebHeld' = [ebHeld EXCEPT ![ebSlot][2] = value]
    /\ Edited
    /\ UNCHANGED ebSlot /\ EditKeep

\* Created or reset: a copy of the first profile that is written.
DefaultSlot == LET found == {s \in Slots : IsWritten(ebHeld[s])} IN
    IF found = {} THEN ebHeld[1] ELSE ebHeld[CHOOSE s \in found : \A t \in found : s <= t]

Reset ==
    /\ MayEdit
    /\ ebHeld' = [ebHeld EXCEPT ![ebSlot] = DefaultSlot]
    /\ Edited
    /\ UNCHANGED ebSlot /\ EditKeep

\* The base profile is not deleted.
Delete ==
    /\ MayEdit /\ ebSlot # 1 /\ IsWritten(ebHeld[ebSlot])
    /\ ebHeld' = [ebHeld EXCEPT ![ebSlot] = Empty]
    /\ Edited
    /\ UNCHANGED ebSlot /\ EditKeep

-----------------------------------------------------------------------------
(* Sessions.  A thread enters (over USB: takes the interface from its driver, then claims it),     *)
(* goes through the record and leaves.                                                             *)

SessionKeep == UNCHANGED <<ebLink, ebSlot, ebEdited, ebCount>>

Step(t, fields) == ebThread' = [ebThread EXCEPT ![t] = [x \in DOMAIN Idle |-> IF x \in DOMAIN fields THEN fields[x] ELSE @[x]]]

Nothing == [s \in Slots |-> [c \in ChunkIds |-> Unread]]
Pieces == Slots \X ChunkIds

\* connect and the poll, whose refresh is connect once more.
StartRead ==
    /\ MayOp /\ ebThread["read"].step = "off"
    /\ ebHeld = None => ebThread["write"].step = "off"
    /\ Step("read", [step |-> "enter", buf |-> Nothing, todo |-> Pieces])
    /\ Bump("ops")
    /\ UNCHANGED <<ebLink, ebPad, ebBus, ebHeld, ebSlot, ebDirty, ebLast, ebBlur, ebEdited>>

\* The record is assembled before the session is opened.
CleanAtOnce == FALSE
CleanWhenSaved == ebDirty

StartSync ==
    /\ MayEdit
    /\ Step("write", [step |-> "enter", rec |-> ebHeld, todo |-> Pieces])
    /\ ebLast' = [rec |-> ebHeld, ok |-> FALSE]
    /\ ebDirty' = CleanWhenSaved
    /\ Bump("ops")
    /\ UNCHANGED <<ebLink, ebPad, ebBus, ebHeld, ebSlot, ebBlur, ebEdited>>

Fail(t) == ebThread' = [ebThread EXCEPT ![t] = Idle]

\* The driver of the gamepad is taken off, and the session waits for it to be gone.
Detach(t) ==
    /\ ebThread[t].step = "enter"
    /\ IF ~ebPad.here THEN Fail(t) /\ UNCHANGED ebBus
       ELSE /\ Step(t, [step |-> "claim", detached |-> ebBus.driver /\ ebLink = "usb"])
            /\ ebBus' = IF ebLink = "usb" THEN [ebBus EXCEPT !.driver = FALSE] ELSE ebBus
    /\ UNCHANGED <<ebPad, ebHeld, ebDirty, ebLast, ebBlur>> /\ SessionKeep

\* A claim another session has fails, without a second try and without the driver being bound again.
Claim(t) ==
    /\ ebThread[t].step = "claim"
    /\ IF ~ebPad.here \/ ebBus.claim # None \/ (ebLink = "usb" /\ ebBus.driver) THEN Fail(t) /\ UNCHANGED ebBus
       ELSE Step(t, [step |-> "work"]) /\ ebBus' = [ebBus EXCEPT !.claim = t]
    /\ UNCHANGED <<ebPad, ebHeld, ebDirty, ebLast, ebBlur>> /\ SessionKeep

\* Leaving releases the interface and binds the driver that was taken off.
Left(t) == [driver |-> ebBus.driver \/ ebThread[t].detached, claim |-> None]

\* An error that says the controller left the bus starts the session over, a few times.
MayRetry(t) == ebLink = "usb" /\ ebThread[t].tries + 1 < Retries

Dropped(t) ==
    /\ ebThread[t].lost
    /\ IF MayRetry(t)
       THEN Step(t, [step |-> "enter", todo |-> Pieces, tries |-> ebThread[t].tries + 1, lost |-> FALSE,
                     detached |-> FALSE, buf |-> IF t = "read" THEN Nothing ELSE None])
       ELSE Fail(t)
    /\ UNCHANGED <<ebPad, ebBus, ebHeld, ebDirty, ebLast, ebBlur>> /\ SessionKeep

Upcoming(t) == CHOOSE p \in ebThread[t].todo : \A q \in ebThread[t].todo : p[1] < q[1] \/ (p[1] = q[1] /\ p[2] <= q[2])

\* One chunk is asked for and answered, or not in time.
ReadChunk ==
    LET t == ebThread["read"]  p == Upcoming("read") IN
    /\ t.step = "work" /\ t.todo # {} /\ ~t.lost
    /\ \/ Step("read", [todo |-> t.todo \ {p}, buf |-> [t.buf EXCEPT ![p[1]][p[2]] = ebPad.live[p[1]][p[2]]]])
          /\ UNCHANGED ebCount
       \/ MayStir /\ Bump("stirs") /\ Step("read", [todo |-> t.todo \ {p}])
    /\ UNCHANGED <<ebLink, ebPad, ebBus, ebHeld, ebSlot, ebDirty, ebLast, ebBlur, ebEdited>>

\* Over USB a chunk that is missing fails the read; over Bluetooth a profile of which nothing was
\* received does, and what is missing of another is filled.
CompleteAlways(buf) == TRUE
Complete(buf) ==
    IF ebLink = "usb" THEN \A p \in Pieces : buf[p[1]][p[2]] # Unread
    ELSE \A s \in Slots : \E c \in ChunkIds : buf[s][c] # Unread

\* What was read takes the place of what was held.
EndRead ==
    LET t == ebThread["read"] IN
    /\ t.step = "work" /\ t.todo = {} /\ ~t.lost
    /\ IF Complete(t.buf)
       THEN /\ ebHeld' = t.buf /\ ebSlot' = 1
            /\ ebBlur' = (ebBlur \/ ebThread["write"].step # "off"
                           \/ (ebLink = "ble" /\ \E p \in Pieces : t.buf[p[1]][p[2]] = Unread))
       ELSE UNCHANGED <<ebHeld, ebSlot, ebBlur>>
    /\ Fail("read")
    /\ ebBus' = Left("read")
    /\ UNCHANGED <<ebLink, ebPad, ebDirty, ebLast, ebEdited, ebCount>>

\* The prologue opens a save on the controller.
OpensNoSave == NoSave
OpensSave == [open |-> TRUE, got |-> {}]

OpenSave ==
    /\ ebThread["write"].step = "work" /\ ~ebThread["write"].lost
    /\ Step("write", [step |-> "send"])
    /\ ebPad' = [ebPad EXCEPT !.save = OpensSave]
    /\ UNCHANGED <<ebBus, ebHeld, ebDirty, ebLast, ebBlur>> /\ SessionKeep

WriteChunk ==
    LET t == ebThread["write"]  p == Upcoming("write") IN
    /\ t.step = "send" /\ t.todo # {} /\ ~t.lost
    /\ Step("write", [todo |-> t.todo \ {p}])
    /\ ebPad' = [ebPad EXCEPT !.live[p[1]][p[2]] = t.rec[p[1]][p[2]], !.save.got = @ \cup {p}]
    /\ UNCHANGED <<ebBus, ebHeld, ebDirty, ebLast, ebBlur>> /\ SessionKeep

\* The last packet of the session stores the record.
Stores(pad) == IF pad.save.open /\ pad.save.got = Pieces THEN pad.live ELSE pad.kept

Finalize ==
    /\ ebThread["write"].step = "send" /\ ebThread["write"].todo = {} /\ ~ebThread["write"].lost
    /\ ebPad' = [ebPad EXCEPT !.kept = Stores(ebPad), !.save = NoSave]
    /\ Fail("write")
    /\ ebBus' = Left("write")
    /\ ebLast' = [ebLast EXCEPT !.ok = TRUE]
    /\ ebDirty' = FALSE
    /\ UNCHANGED <<ebHeld, ebBlur>> /\ SessionKeep

-----------------------------------------------------------------------------
(* The cable: the controller comes back with what it stored, and with its driver. *)

Unplug ==
    /\ ebPad.here /\ MayStir
    /\ ebPad' = [ebPad EXCEPT !.here = FALSE, !.save = NoSave]
    /\ ebBus' = [driver |-> FALSE, claim |-> None]
    /\ ebThread' = [t \in Threads |-> [ebThread[t] EXCEPT !.lost = ebThread[t].step \in {"work", "send"}]]
    /\ Bump("stirs")
    /\ UNCHANGED <<ebLink, ebHeld, ebSlot, ebDirty, ebLast, ebBlur, ebEdited>>

Replug ==
    /\ ~ebPad.here
    /\ ebPad' = [ebPad EXCEPT !.here = TRUE, !.live = ebPad.kept]
    /\ ebBus' = [ebBus EXCEPT !.driver = TRUE]
    /\ UNCHANGED <<ebLink, ebHeld, ebSlot, ebDirty, ebThread, ebLast, ebBlur, ebEdited, ebCount>>

Disconnect ==
    /\ ebHeld # None /\ \A t \in Threads : ebThread[t].step = "off"
    /\ ebHeld' = None
    /\ UNCHANGED <<ebLink, ebPad, ebBus, ebSlot, ebDirty, ebThread, ebLast, ebBlur, ebEdited, ebCount>>

Next ==
    \/ \E s \in Slots : SelectProfile(s)
    \/ \E v \in Values : Edit(v)
    \/ Reset \/ Delete \/ StartRead \/ StartSync
    \/ \E t \in Threads : Detach(t) \/ Claim(t) \/ Dropped(t)
    \/ ReadChunk \/ EndRead \/ OpenSave \/ WriteChunk \/ Finalize \/ Unplug \/ Replug \/ Disconnect

Spec == Init /\ [][Next]_ebVars

-----------------------------------------------------------------------------
TypeOK ==
    /\ ebBus.claim \in Threads \cup {None}
    /\ \A t \in Threads : ebThread[t].step \in {"off", "enter", "claim", "work", "send"}
    /\ ebHeld # None => \A p \in Pieces : ebHeld[p[1]][p[2]] \in {"0", "m", Unread} \cup Values

\* EIGHTBITDO_UI_BEHAVIOUR.md: a record that is not committed by the save session is forgotten at
\* the next plug-in.  A sync reported done is what the controller comes back with.
SavedIsKept == (ebLast # None /\ ebLast.ok) => ebPad.kept = ebLast.rec

\* "Slots are edited in place": a profile nobody edited is never changed by a sync, whatever was
\* lost on the way and however often the session was tried.
OtherProfilesAreKept ==
    ~ebBlur => \A s \in Slots \ ebEdited.slots : ebPad.kept[s] = ebEdited.was[s]

\* While the page does not say that there are changes to sync, it shows what is stored.
CleanIsStored ==
    (ebHeld # None /\ ~ebDirty /\ ~ebBlur) => ebHeld = ebPad.kept

\* EIGHTBITDO_UI_BEHAVIOUR.md: edits are held, and the advisory says so, until Sync is pressed.
\* Nothing that happens meanwhile takes them back.
EditsWaitForSync == [][(ebDirty /\ ebHeld # None /\ EndRead) => ebHeld' = ebHeld]_ebVars
=============================================================================
