--------------------------- MODULE LogitechDevice ---------------------------
(***************************************************************************)
(* A Logitech receiver: its page with the pairing that runs in a worker    *)
(* thread, the entries discovery makes for the devices paired to it, and   *)
(* the page of one of those.  A pairing the shell gave up waiting for runs *)
(* on.  Not modelled: a pairing begun while the receiver is still open for  *)
(* an earlier one.                                                         *)
(*                                                                         *)
(* The vendored library and the receiver are modelled from their use.      *)
(***************************************************************************)
EXTENDS Naturals, Sequences, FiniteSets

CONSTANTS
    LgDevs,       \* devices that can be paired
    LgKinds,      \* receivers: [bolt, noded], whether it is Bolt and whether the kernel has a node per slot
    LgSlots,      \* slots of the receiver
    None,
    MaxLgOps,     \* bound: operations of the user
    MaxLgStirs    \* bound: pairings elsewhere, wakings, refusals

VARIABLES
    lgKind,       \* which receiver it is
    lgSlots,      \* the device in each slot
    lgFlag,       \* the receiver's WIRELESS notification flag
    lgAir,        \* "shut", "find" (Bolt discovery) or "open" (the lock)
    lgNotes,      \* notifications not read yet
    lgPairing,    \* receiver.pairing
    lgThread,     \* the thread of a pairing
    lgCall,       \* does the shell still wait for it
    lgCancel,     \* QtInteraction._cancelled, one for every session of the shell
    lgPage,       \* None, 0 for the receiver's page, or the slot whose child page is open
    lgRows,       \* the pairing rows of the receiver's page
    lgName,       \* the device an open child page is labelled with
    lgListed,     \* the children in the sidebar
    lgMemo,       \* _MEMO of this receiver
    lgDrift,      \* since the memo was made: has a device joined, has one left
    lgSaid,       \* what the last pairing reported
    lgSpoilt,     \* which of "refused", "cancelled", "woken", "late", "elsewhere" have happened
    lgCount

lgVars == <<lgKind, lgSlots, lgFlag, lgAir, lgNotes, lgPairing, lgThread, lgCall, lgCancel, lgPage,
            lgRows, lgName, lgListed, lgMemo, lgDrift, lgSaid, lgSpoilt, lgCount>>

Slots == 1..LgSlots
Taken(slots) == {s \in Slots : slots[s] # None}
Free == Slots \ Taken(lgSlots)
Paired == {lgSlots[s] : s \in Taken(lgSlots)}

Idle == [step |-> "off", known |-> None, flag |-> FALSE, before |-> {}, pressed |-> FALSE]
NoPairing == [open |-> FALSE, finding |-> FALSE, found |-> FALSE, key |-> FALSE, new |-> None]

Bump(field) == lgCount' = [lgCount EXCEPT ![field] = @ + 1]
MayStir == lgCount.stirs < MaxLgStirs
Spoil(how) == lgSpoilt' = lgSpoilt \cup {how} /\ Bump("stirs")
Drift(how) == lgDrift' = lgDrift \cup {how}

Init ==
    /\ lgKind \in LgKinds
    /\ lgSlots = [s \in Slots |-> IF s = 1 THEN CHOOSE d \in LgDevs : TRUE ELSE None]
    /\ lgFlag \in BOOLEAN
    /\ lgAir = "shut" /\ lgNotes = <<>> /\ lgPairing = NoPairing
    /\ lgThread = Idle /\ lgCall = FALSE /\ lgCancel = FALSE
    /\ lgPage = None /\ lgRows = {} /\ lgName = None
    /\ lgListed = {} /\ lgMemo = None /\ lgDrift = {}
    /\ lgSaid = None /\ lgSpoilt = {}
    /\ lgCount = [ops |-> 0, stirs |-> 0]

-----------------------------------------------------------------------------
(* Discovery: the children of the receiver. *)

\* Only the slots the kernel has no node for; each is labelled with the device that was in it.
ChildrenIn(slots) == IF lgKind.noded THEN {} ELSE {<<s, slots[s]>> : s \in Taken(slots)}

RememberedAlways(count) == lgMemo # None

\* _children_of: the memo answers when the receiver counts as many devices as it did.
Remembered(count) == lgMemo # None /\ lgMemo.count = count

Discover ==
    /\ lgCount.ops < MaxLgOps
    /\ LET count == Cardinality(Taken(lgSlots)) IN
       IF Remembered(count)
       THEN lgListed' = lgMemo.kids /\ UNCHANGED <<lgMemo, lgDrift>>
       ELSE /\ lgListed' = ChildrenIn(lgSlots)
            /\ lgMemo' = [count |-> count, kids |-> lgListed']
            /\ lgDrift' = {}
    /\ Bump("ops")
    /\ UNCHANGED <<lgKind, lgSlots, lgFlag, lgAir, lgNotes, lgPairing, lgThread, lgCall, lgCancel, lgPage,
                   lgRows, lgName, lgSaid, lgSpoilt>>

-----------------------------------------------------------------------------
(* The pages.  Connecting announces the software, which sets the flag. *)

PairingRowsAlways(slots) == {<<"pair">>} \cup {<<"unpair", s>> : s \in Taken(slots)}

\* _pairing: pairing while there is a slot, unpairing for each that is taken.
PairingRows(slots) ==
    (IF Cardinality(Taken(slots)) < LgSlots THEN {<<"pair">>} ELSE {})
    \cup {<<"unpair", s>> : s \in Taken(slots)}

Announce == lgFlag' \in {TRUE, lgFlag}

\* A connect of any device takes the dialog, and an earlier cancellation is forgotten.
Reset == lgCancel' = FALSE

\* A receiver that is opened anew has no pairing of its own behind it.
ConnectReceiver ==
    /\ lgPage = None /\ lgCount.ops < MaxLgOps
    /\ lgPage' = 0
    /\ Announce
    /\ lgRows' = PairingRows(lgSlots)
    /\ lgPairing' = NoPairing /\ lgNotes' = <<>> /\ lgSaid' = None
    /\ Reset
    /\ Bump("ops")
    /\ UNCHANGED <<lgKind, lgSlots, lgAir, lgThread, lgCall, lgName, lgListed, lgMemo, lgDrift, lgSpoilt>>

\* _resolve_slot: whatever is in the slot now.
ConnectChild(s) ==
    /\ lgPage = None /\ lgCount.ops < MaxLgOps
    /\ \E child \in lgListed : child[1] = s /\ lgName' = child[2]
    /\ s \in Taken(lgSlots)
    /\ lgPage' = s
    /\ Announce /\ Reset
    /\ Bump("ops")
    /\ UNCHANGED <<lgKind, lgSlots, lgAir, lgNotes, lgPairing, lgThread, lgCall, lgRows, lgListed, lgMemo,
                   lgDrift, lgSaid, lgSpoilt>>

\* Another device is connected meanwhile: the flag is one for all.
OtherConnects ==
    /\ lgCancel /\ MayStir
    /\ Reset /\ Spoil("reset")
    /\ UNCHANGED <<lgKind, lgSlots, lgFlag, lgAir, lgNotes, lgPairing, lgThread, lgCall, lgPage, lgRows,
                   lgName, lgListed, lgMemo, lgDrift, lgSaid>>

\* The receiver is closed under a thread that still pairs: its next read raises, and the flag it
\* would restore can no longer be written.
Disconnect ==
    /\ lgPage # None
    /\ lgPage' = None /\ lgRows' = {} /\ lgName' = None
    /\ lgThread' = Idle /\ lgCall' = FALSE
    /\ lgSpoilt' = IF lgThread.step # "off" THEN lgSpoilt \cup {"late"} ELSE lgSpoilt
    /\ UNCHANGED <<lgKind, lgSlots, lgFlag, lgAir, lgNotes, lgPairing, lgCancel, lgListed, lgMemo, lgDrift,
                   lgSaid, lgCount>>

-----------------------------------------------------------------------------
(* Pairing *)

\* The notification flag is set if it was off; what is paired already is known; the lock, or the
\* discovery of a Bolt receiver, is asked for, and a refusal is not looked at.
Ask(what) ==
    \/ lgAir' = what /\ lgNotes' = Append(lgNotes, <<what>>) /\ UNCHANGED <<lgSpoilt, lgCount>>
    \/ MayStir /\ Spoil("refused") /\ UNCHANGED <<lgAir, lgNotes>>

SetsNoFlag == lgFlag
SetsFlag == TRUE

StartPairing ==
    /\ lgPage = 0 /\ ~lgCall /\ <<"pair">> \in lgRows /\ lgCount.ops < MaxLgOps
    /\ lgThread.step = "off" /\ lgAir = "shut"
    /\ lgThread' = [step |-> "asking", known |-> Taken(lgSlots), flag |-> lgFlag, before |-> Taken(lgSlots),
                    pressed |-> FALSE]
    /\ lgCall' = TRUE
    /\ lgFlag' = SetsFlag
    /\ lgSaid' = None
    /\ Bump("ops")
    /\ UNCHANGED <<lgKind, lgSlots, lgAir, lgNotes, lgPairing, lgCancel, lgPage, lgRows, lgName, lgListed,
                   lgMemo, lgDrift, lgSpoilt>>

StepTo(step) == lgThread' = [lgThread EXCEPT !.step = step]

PairKeep == UNCHANGED <<lgCancel, lgKind, lgSlots, lgPage, lgName, lgListed, lgMemo, lgDrift>>

Open ==
    /\ lgThread.step = "asking"
    /\ StepTo(IF lgKind.bolt THEN "find" ELSE "lock")
    /\ Ask(IF lgKind.bolt THEN "find" ELSE "open")
    /\ UNCHANGED <<lgFlag, lgPairing, lgCall, lgRows, lgSaid>> /\ PairKeep

PumpingTwice == lgThread.step \in {"find", "lock"}
Pumping == lgThread.step \in {"find", "key", "lock"}

\* notifications.process: the receiver's own notifications.  Opening forgets the last new device.
ForgetNothing(p) == p
ForgetNew(p) == [p EXCEPT !.new = None]

Process(note) ==
    CASE note = <<"find">> -> [lgPairing EXCEPT !.finding = TRUE, !.found = FALSE, !.key = FALSE]
      [] note = <<"found">> -> [lgPairing EXCEPT !.found = TRUE]
      [] note = <<"unfound">> -> [lgPairing EXCEPT !.finding = FALSE, !.key = FALSE]
      [] note = <<"open">> -> ForgetNew([lgPairing EXCEPT !.open = TRUE, !.key = FALSE])
      [] note = <<"key">> -> [lgPairing EXCEPT !.key = TRUE]
      [] note = <<"closed">> -> [lgPairing EXCEPT !.open = FALSE, !.found = FALSE]
      [] OTHER -> [lgPairing EXCEPT !.open = FALSE, !.found = FALSE, !.new = note[2]]

\* The hook takes one connection, and registers its device if it was not known.
HookRegistersAll(slot) == TRUE
HookRegisters(slot) == slot \notin lgThread.known

Pump ==
    /\ Pumping /\ ~lgCancel /\ lgNotes # <<>>
    /\ lgNotes' = Tail(lgNotes)
    /\ LET note == Head(lgNotes) IN
       IF note[1] # "link" THEN lgPairing' = Process(note) /\ UNCHANGED lgThread
       ELSE IF lgThread.known = None THEN UNCHANGED <<lgPairing, lgThread>>
       ELSE /\ lgPairing' = IF HookRegisters(note[2]) THEN [lgPairing EXCEPT !.new = note[2]] ELSE lgPairing
            /\ lgThread' = [lgThread EXCEPT !.known = None]
    /\ UNCHANGED <<lgFlag, lgAir, lgCall, lgRows, lgSaid, lgSpoilt, lgCount>> /\ PairKeep

\* The middle steps of _pair_bolt: the device is asked for once it is described in full, and the
\* passkey is shown once it is there.
Found ==
    /\ lgThread.step = "find" /\ lgPairing.found /\ ~lgCancel
    /\ StepTo("key")
    /\ Ask("open")
    /\ UNCHANGED <<lgFlag, lgPairing, lgCall, lgRows, lgSaid>> /\ PairKeep

Passkey ==
    /\ lgThread.step = "key"
    /\ (lgPairing.key /\ ~lgCancel) \/ (lgNotes = <<>> /\ ~lgPairing.open)
    /\ StepTo("lock")
    /\ UNCHANGED <<lgFlag, lgAir, lgNotes, lgPairing, lgCall, lgRows, lgSaid, lgSpoilt, lgCount>> /\ PairKeep

\* The end of _pair, by whichever way: the flag is put back; a new device builds the rows again.
\* What is returned goes to the shell if it still waits.
ClearsFlagAlways(flag) == TRUE
ClearsFlag(flag) == ~flag

DescribeNot(new) == lgRows
DescribeAfter(new) == IF new # None THEN PairingRows(lgSlots) ELSE lgRows

Finish(new) ==
    /\ lgThread' = Idle
    /\ lgFlag' = (lgFlag /\ ~ClearsFlag(lgThread.flag))
    /\ lgRows' = DescribeAfter(new)
    /\ lgSaid' = IF lgCall THEN [new |-> new, before |-> lgThread.before] ELSE lgSaid
    /\ lgCall' = FALSE
    /\ UNCHANGED <<lgAir, lgNotes, lgPairing, lgCount>> /\ PairKeep

\* The loops are patient: one ends by itself when nothing is left to read.
PairingEnds ==
    /\ lgNotes = <<>>
    /\ \/ lgThread.step = "lock" /\ ~lgPairing.open /\ Finish(lgPairing.new)
       \/ lgThread.step = "find" /\ ~lgPairing.finding /\ ~lgPairing.found /\ Finish(None)
    /\ UNCHANGED lgSpoilt

\* The dialog's button, while a pairing shows it.  Only a connect takes it back.
PressCancel ==
    /\ Pumping /\ ~lgThread.pressed
    /\ lgCancel' = TRUE
    /\ lgThread' = [lgThread EXCEPT !.pressed = TRUE]
    /\ UNCHANGED <<lgKind, lgSlots, lgFlag, lgAir, lgNotes, lgPairing, lgCall, lgPage, lgRows, lgName,
                   lgListed, lgMemo, lgDrift, lgSaid, lgSpoilt, lgCount>>

\* The loop sees the flag between two reads; the receiver is left as it is.
Cancelled ==
    /\ Pumping /\ lgCancel
    /\ Finish(None)
    /\ lgSpoilt' = lgSpoilt \cup {"cancelled"}

\* set's wait_for, or the shell's, is over; the thread is not.
GiveUp ==
    /\ lgCall /\ MayStir
    /\ lgCall' = FALSE
    /\ Spoil("late")
    /\ UNCHANGED <<lgFlag, lgAir, lgNotes, lgPairing, lgThread, lgRows, lgSaid>> /\ PairKeep

\* _unpair: the receiver frees the slot, and the rows are built again.
Unpair(s) ==
    /\ lgPage = 0 /\ ~lgCall /\ <<"unpair", s>> \in lgRows /\ lgCount.ops < MaxLgOps
    /\ s \in Taken(lgSlots)
    /\ lgSlots' = [lgSlots EXCEPT ![s] = None]
    /\ lgRows' = PairingRows(lgSlots')
    /\ Drift("left")
    /\ Bump("ops")
    /\ UNCHANGED <<lgKind, lgFlag, lgAir, lgNotes, lgPairing, lgThread, lgCall, lgCancel, lgPage,
                   lgName, lgListed, lgMemo, lgSaid, lgSpoilt>>

-----------------------------------------------------------------------------
(* The receiver and the air. *)

AirKeep == UNCHANGED <<lgCancel, lgKind, lgPairing, lgThread, lgCall, lgPage, lgRows, lgName, lgListed,
                       lgMemo, lgSaid>>

\* A device is linked only to who asked to be told.
Tell(notes) == lgNotes' = lgNotes \o notes
Link(s) == IF lgFlag THEN <<<<"link", s>>>> ELSE <<>>

\* A device found by a Bolt receiver, and the passkey it makes once its lock is open.
DeviceFound ==
    /\ lgAir = "find" /\ Tell(<<<<"found">>, <<"unfound">>>>) /\ lgAir' = "shut"
    /\ UNCHANGED <<lgSlots, lgFlag, lgDrift, lgSpoilt, lgCount>> /\ AirKeep

PasskeyMade ==
    /\ lgAir = "open" /\ lgKind.bolt /\ <<"key">> \notin {lgNotes[i] : i \in DOMAIN lgNotes} /\ ~lgPairing.key
    /\ Tell(<<<<"key">>>>)
    /\ UNCHANGED <<lgAir, lgSlots, lgFlag, lgDrift, lgSpoilt, lgCount>> /\ AirKeep

DeviceJoins(d) ==
    /\ lgAir = "open" /\ d \notin Paired /\ Free # {}
    /\ LET s == CHOOSE f \in Free : \A g \in Free : f <= g IN
          /\ lgSlots' = [lgSlots EXCEPT ![s] = d]
          /\ Tell(Link(s) \o (IF lgKind.bolt THEN <<<<"paired", s>>>> ELSE <<<<"closed">>>>))
    /\ Drift("joined")
    /\ lgAir' = "shut"
    /\ UNCHANGED <<lgFlag, lgSpoilt, lgCount>> /\ AirKeep

LockTimesOut ==
    /\ lgAir # "shut"
    /\ Tell(IF lgAir = "find" THEN <<<<"unfound">>>> ELSE <<<<"closed">>>>)
    /\ lgAir' = "shut"
    /\ UNCHANGED <<lgSlots, lgFlag, lgDrift, lgSpoilt, lgCount>> /\ AirKeep

\* A device that is paired already switches on.
KnownWakes(s) ==
    /\ s \in Taken(lgSlots) /\ MayStir /\ lgCall /\ lgFlag
    /\ Tell(Link(s)) /\ Spoil("woken")
    /\ UNCHANGED <<lgAir, lgSlots, lgFlag, lgDrift>> /\ AirKeep

\* Another program pairs or unpairs while no page of ours is open.
Elsewhere ==
    /\ lgPage = None /\ lgAir = "shut" /\ MayStir
    /\ \E s \in Slots, d \in LgDevs \cup {None} :
          /\ d \notin Paired /\ lgSlots[s] # d
          /\ lgSlots' = [lgSlots EXCEPT ![s] = d]
          /\ lgDrift' = lgDrift \cup (IF lgSlots[s] # None THEN {"left"} ELSE {}) \cup (IF d # None THEN {"joined"} ELSE {})
    /\ Spoil("elsewhere")
    /\ UNCHANGED <<lgAir, lgFlag, lgNotes>> /\ AirKeep

Next ==
    \/ Discover \/ ConnectReceiver \/ Disconnect \/ StartPairing \/ GiveUp
    \/ \E s \in Slots : ConnectChild(s) \/ Unpair(s) \/ KnownWakes(s)
    \/ Open \/ Pump \/ Found \/ Passkey \/ PairingEnds
    \/ PressCancel \/ Cancelled \/ OtherConnects
    \/ DeviceFound \/ PasskeyMade \/ LockTimesOut \/ Elsewhere
    \/ \E d \in LgDevs : DeviceJoins(d)

\* The thread runs on, and the receiver closes what it opened when its time is over.
Scheduled ==
    /\ WF_lgVars(Open \/ Pump \/ Found \/ Passkey \/ PairingEnds \/ Cancelled)
    /\ WF_lgVars(LockTimesOut)

Spec == Init /\ [][Next]_lgVars /\ Scheduled

-----------------------------------------------------------------------------
TypeOK ==
    /\ lgSlots \in [Slots -> LgDevs \cup {None}]
    /\ lgAir \in {"shut", "find", "open"}
    /\ lgCall \in BOOLEAN /\ (lgCall => lgThread.step # "off")
    /\ lgCancel \in BOOLEAN
    /\ lgThread.step \in {"off", "asking", "find", "key", "lock"}
    /\ lgRows \subseteq {<<"pair">>} \cup {<<"unpair", s>> : s \in Slots}

\* A pairing that says it paired a device did: the device is in a slot that was empty when it began.
PairedIsNew ==
    (lgSaid # None /\ lgSaid.new # None /\ "refused" \notin lgSpoilt)
        => lgSaid.new \notin lgSaid.before

\* While a pairing reads notifications the receiver sends them, whatever an earlier one, given up or
\* cancelled, did to the flag.
HearsWhilePairing == Pumping => lgFlag

\* What a pairing did to the flag it undoes, and no more: a program that had it on keeps it.
FlagIsPutBack ==
    [][(lgThread.step # "off" /\ lgThread'.step = "off" /\ lgPage' = 0)
           => lgFlag' = lgThread.flag]_lgVars

\* The page of the receiver offers to unpair what is in its slots and to pair while there is room,
\* when nothing is being paired, and what was begun was read to its end.
PairingRowsAreTrue ==
    (/\ lgPage = 0 /\ lgAir = "shut" /\ lgThread.step = "off"
     /\ lgSpoilt \cap {"cancelled", "woken", "late"} = {}) => lgRows = PairingRows(lgSlots)

\* After a sweep the entries are the devices in the slots, unless one left and one joined since the
\* slots were last read.
ListedArePaired ==
    [][(Discover /\ lgDrift # {"left", "joined"}) => lgListed' = ChildrenIn(lgSlots)]_lgVars

\* children.py: "same receiver, same number of devices, same answer".
SameCountSameAnswer == [][Discover => lgListed' = ChildrenIn(lgSlots)]_lgVars

\* A pairing ends, through every step of a Bolt receiver's, unless the receiver refused one or an
\* earlier pairing was cancelled and left its notifications behind.
PairingIsOver ==
    (lgThread.step # "off") ~> (lgThread.step = "off" \/ lgSpoilt \cap {"refused", "cancelled"} # {})

\* shell/interaction.py: "Forget a previous cancellation. Called before each operation that uses
\* this": a pairing is cancelled only by a Cancel pressed since it began.
CancelIsForgotten == [][Cancelled => lgThread.pressed]_lgVars
=============================================================================
