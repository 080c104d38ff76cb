---------------------------- MODULE SecurityKey ----------------------------
(***************************************************************************)
(* A FIDO2 security key and, on top of it, a YubiKey.  Both keep what they *)
(* read in the device object and rebuild the page's rows from it; after a  *)
(* change they reopen the key or read that part of it again.  A YubiKey    *)
(* also reads its OTP slots and its accounts in the background, some time  *)
(* after connecting, and then fetches new codes each time a code expires.  *)
(* A write and the background task share one lock; disconnecting takes     *)
(* none.  A device object serves one connection.                           *)
(***************************************************************************)
EXTENDS Naturals, FiniteSets

CONSTANTS
    SkKinds,        \* subset of {"fido", "yubikey"}
    Creds,          \* passkeys
    Accts,          \* accounts of the OATH application
    FullTries,      \* attempts a key gives for its PIN
    None,
    MaxSkOps,       \* bound: writes
    MaxSkStirs,     \* bound: unplugs, reads refused because another program has the card
    MaxTicks        \* bound: expiries of a code

VARIABLES
    skKind,
    skKey,          \* the key itself
    skUp,           \* is the device connected, as the shell sees it
    skOpen,         \* does the device object hold the FIDO channel (_dev)
    skRows,         \* what the device object holds and its rows show
    skPass,         \* the password of the accounts it holds (_oath_password): "none", "right" or "wrong"
    skLock,         \* None, "set" or "task"
    skTask,         \* the background task: its step, and the time of the codes it waits to expire
    skOp,           \* the write under way, and the attempts it spent
    skSaid,         \* the attempts the last wrong PIN was answered with
    skBlind,        \* was the key unplugged, reset, or a read of it refused since connecting (ghost)
    skCount

skVars == <<skKind, skKey, skUp, skOpen, skRows, skPass, skLock, skTask, skOp, skSaid, skBlind, skCount>>

Slots == {1, 2}
Apps == {"OTP", "FIDO2", "OATH"}
Guesses == {"right", "wrong"}
NoOp == [kind |-> "none", arg |-> None, guess |-> None, step |-> "off", spent |-> 0]

Bump(field) == skCount' = [skCount EXCEPT ![field] = @ + 1]
MayStir == skCount.stirs < MaxSkStirs

\* The rows of a key that was not read, or of one that has none.
NoSlots == [state |-> "unread", of |-> [s \in Slots |-> FALSE]]
NoCodes == [state |-> "unread", items |-> {}, at |-> 0]
NoTask == [step |-> "off", at |-> 0]

\* What reopening the key reads: the standard's own information and the list of applications.
\* The passkeys, the slots and the accounts stay as they were.
Opened(rows) == [rows EXCEPT !.pin = skKey.pin, !.tries = skKey.tries, !.apps = skKey.apps]

Init ==
    /\ skKind \in SkKinds
    /\ \E pin \in BOOLEAN, creds \in {{}, Creds}, slots \in [Slots -> BOOLEAN], accts \in {{}, Accts}, locked \in BOOLEAN :
          /\ IF skKind = "fido" THEN slots = [s \in Slots |-> FALSE] /\ accts = {} /\ ~locked
             ELSE ~pin /\ slots = [s \in Slots |-> s = 1] /\ (locked => accts # {})
          /\ creds # {} => pin
          /\ skKey = [here |-> TRUE, link |-> FALSE, pin |-> pin, tries |-> FullTries, creds |-> creds, slots |-> slots,
                      accts |-> accts, locked |-> locked, apps |-> Apps, touch |-> FALSE, eject |-> 0, now |-> 0]
    /\ skUp = FALSE /\ skOpen = FALSE
    /\ skRows = [pin |-> FALSE, tries |-> 0, creds |-> None, slots |-> NoSlots, codes |-> NoCodes, apps |-> {}]
    /\ skPass = "none" /\ skLock = None /\ skTask = NoTask /\ skOp = NoOp /\ skSaid = None
    /\ skBlind = FALSE
    /\ skCount = [ops |-> 0, stirs |-> 0, ticks |-> 0]

-----------------------------------------------------------------------------
(* Connecting and the background task. *)

Reachable == skKey.here /\ "FIDO2" \in skKey.apps

Connect ==
    /\ ~skUp /\ skOp.step = "off" /\ Reachable
    /\ skUp' = TRUE /\ skOpen' = TRUE /\ skKey' = [skKey EXCEPT !.link = TRUE]
    /\ skRows' = Opened([skRows EXCEPT !.creds = None, !.slots = NoSlots, !.codes = NoCodes])
    /\ skPass' = "none"
    /\ skTask' = IF skKind = "yubikey" THEN [NoTask EXCEPT !.step = "settle"] ELSE NoTask
    /\ skBlind' = FALSE
    /\ UNCHANGED <<skKind, skLock, skOp, skSaid, skCount>>

\* The task is cancelled, and gives up the lock; a write is not.
Disconnect ==
    /\ skUp
    /\ skUp' = FALSE /\ skOpen' = FALSE /\ skPass' = "none" /\ skTask' = NoTask
    /\ skLock' = IF skLock = "task" THEN None ELSE skLock
    /\ UNCHANGED <<skKind, skKey, skRows, skOp, skSaid, skBlind, skCount>>

\* A read of the OTP slots, and one of the accounts: what it gives, and whether it was refused.
\* Slots that could not be read keep what was last read of them.
SlotReads(rows) ==
    {[slots |-> [state |-> "read", of |-> skKey.slots], failed |-> FALSE] : x \in {y \in {0} : skKey.here /\ "OTP" \in skKey.apps}}
    \cup {[slots |-> IF rows.slots = NoSlots THEN [NoSlots EXCEPT !.state = "none"] ELSE rows.slots, failed |-> TRUE] :
            x \in {y \in {0} : MayStir \/ ~skKey.here \/ "OTP" \notin skKey.apps}}

CodesFailed == [state |-> "failed", items |-> {}, at |-> 0]
CodesRead(pass) ==
    IF ~skKey.here \/ "OATH" \notin skKey.apps \/ (skKey.locked /\ pass = "wrong") THEN CodesFailed
    ELSE IF skKey.locked /\ pass = "none" THEN [state |-> "locked", items |-> {}, at |-> 0]
    ELSE [state |-> "codes", items |-> skKey.accts, at |-> IF skKey.accts = {} THEN 0 ELSE skKey.now]
CodeReads(pass) == {CodesRead(pass)} \cup (IF MayStir THEN {CodesFailed} ELSE {})

Stirred(failed) == IF failed /\ MayStir THEN Bump("stirs") ELSE UNCHANGED skCount

TaskKeep == UNCHANGED <<skKind, skKey, skUp, skOpen, skPass, skOp, skSaid>>

StartLoad ==
    /\ skTask.step = "settle" /\ skLock = None
    /\ IF skOpen THEN skLock' = "task" /\ skTask' = [skTask EXCEPT !.step = "load"]
       ELSE skTask' = NoTask /\ UNCHANGED skLock
    /\ UNCHANGED <<skRows, skBlind, skCount>> /\ TaskKeep

\* The codes are kept moving while there is one that expires; without, the task is over.
Expiring(codes) == codes.items # {}
Onward(codes) == IF Expiring(codes) THEN [step |-> "loop", at |-> codes.at] ELSE NoTask

\* The slots and the accounts are read unless a write did so first.
Load ==
    /\ skTask.step = "load"
    /\ \E slots \in (IF skRows.slots = NoSlots THEN SlotReads(skRows) ELSE {[slots |-> skRows.slots, failed |-> FALSE]}),
          codes \in (IF skRows.codes.state = "unread" THEN CodeReads(skPass) ELSE {skRows.codes}) :
          /\ skRows' = [skRows EXCEPT !.slots = slots.slots, !.codes = codes]
          /\ skTask' = Onward(codes)
          /\ skBlind' = (skBlind \/ slots.failed)
          /\ Stirred(slots.failed \/ codes.state = "failed")
    /\ skLock' = None
    /\ TaskKeep

StartFetch ==
    /\ skTask.step = "loop" /\ skLock = None /\ (skTask.at # skKey.now \/ ~skOpen)
    /\ IF skOpen THEN skLock' = "task" /\ skTask' = [skTask EXCEPT !.step = "fetch"]
       ELSE skTask' = NoTask /\ UNCHANGED skLock
    /\ UNCHANGED <<skRows, skBlind, skCount>> /\ TaskKeep

Fetch ==
    /\ skTask.step = "fetch"
    /\ \E codes \in CodeReads(skPass) :
          /\ skRows' = [skRows EXCEPT !.codes = codes]
          /\ skTask' = Onward(codes)
          /\ Stirred(codes.state = "failed")
    /\ skLock' = None
    /\ UNCHANGED skBlind /\ TaskKeep

-----------------------------------------------------------------------------
(* Writes.  The rows offer them; the lock is held from the first call to the last. *)

\* What the page offers: passkeys are changed by the rows that list them, the rest of the passkeys'
\* and the accounts' rows depend on what was read.
Programmable == skRows.slots.state = "read"

Offered(kind) ==
    CASE kind \in {"refresh", "set_pin", "test", "configure", "reset", "show"} -> {None}
      [] kind \in {"delete", "rename"} -> IF skRows.creds = None THEN {} ELSE skRows.creds
      [] kind = "program" -> {s \in Slots : Programmable}
      [] kind = "erase" -> IF Programmable THEN {s \in Slots : skRows.slots.of[s]} ELSE {}
      [] kind \in {"swap", "read_slots"} -> {x \in {None} : Programmable}
      [] kind = "add" -> {a \in Accts : skRows.codes.state = "codes"}
      [] kind = "remove" -> skRows.codes.items
      [] kind = "reread" -> {x \in {None} : skRows.codes.state = "codes"}
      [] kind = "unlock" -> {x \in {None} : skRows.codes.state = "locked"}
      [] kind = "toggle" -> {skRows.apps \ {app} : app \in skRows.apps} \cup {skRows.apps \cup {app} : app \in Apps \ skRows.apps}
      [] kind = "eject" -> {"touch", "time"}

FidoKinds == {"refresh", "set_pin", "test", "configure", "reset", "show", "delete", "rename"}
YubiKinds == {"program", "erase", "swap", "read_slots", "add", "remove", "reread", "unlock", "toggle", "eject"}
Asks(kind) == kind \in {"set_pin", "test", "configure", "show", "delete", "unlock"}

StartSet(kind, arg, guess) ==
    /\ skUp /\ skOp.step = "off" /\ skLock = None /\ skCount.ops < MaxSkOps
    /\ kind \in YubiKinds => skKind = "yubikey"
    /\ arg \in Offered(kind) /\ (~Asks(kind) => guess = "right")
    /\ skOp' = [kind |-> kind, arg |-> arg, guess |-> guess, step |-> "run", spent |-> 0]
    /\ skLock' = "set"
    /\ Bump("ops")
    /\ UNCHANGED <<skKind, skKey, skUp, skOpen, skRows, skPass, skTask, skSaid, skBlind>>

Alive == skOpen /\ skKey.here /\ skKey.link

Over == skOp' = [NoOp EXCEPT !.spent = skOp.spent] /\ skLock' = None
Proceed == skOp' = [skOp EXCEPT !.step = "reread"] /\ UNCHANGED skLock
SetKeep == UNCHANGED <<skKind, skUp, skTask>>

\* The key asks for its PIN when it has one; whether it has is what was read of it.
Sent == skOp.kind \in {"configure", "show", "delete"} \/ (skOp.kind \in {"set_pin", "test"} /\ skRows.pin)
Wrong == Alive /\ Sent /\ skKey.pin /\ skKey.tries > 0 /\ skOp.guess = "wrong"
Accepted == Alive /\ IF Sent THEN skKey.pin /\ skKey.tries > 0 /\ skOp.guess = "right"
                     ELSE skOp.kind = "set_pin" => ~skKey.pin

\* (with the same PIN once more)
WrongPinAgain ==
    /\ skOp.step = "run" /\ Wrong
    /\ skKey' = [skKey EXCEPT !.tries = @ - 1]
    /\ skSaid' = skRows.tries
    /\ skOp' = [skOp EXCEPT !.spent = @ + 1] /\ UNCHANGED skLock
    /\ UNCHANGED <<skOpen, skRows, skPass, skBlind, skCount>> /\ SetKeep

\* A wrong PIN costs an attempt, and is answered with the count read when the key was opened.
WrongPin ==
    /\ skOp.step = "run" /\ Wrong
    /\ skKey' = [skKey EXCEPT !.tries = @ - 1]
    /\ skSaid' = skRows.tries
    /\ skOp' = [NoOp EXCEPT !.spent = skOp.spent + 1] /\ skLock' = None
    /\ UNCHANGED <<skOpen, skRows, skPass, skBlind, skCount>> /\ SetKeep

\* Refused: no touch in time, a slot with an access code, a channel that is gone, no PIN given.
\* Renaming passes on no PIN, and is always refused.
SetFails ==
    /\ skOp.step = "run" /\ ~Wrong
    /\ Over
    /\ UNCHANGED <<skKey, skOpen, skRows, skPass, skSaid, skBlind, skCount>> /\ SetKeep

\* What the key does when it takes the write.
FidoDone(kind, arg) ==
    CASE kind = "set_pin" -> [skKey EXCEPT !.pin = TRUE, !.tries = FullTries]
      [] kind = "reset" -> [skKey EXCEPT !.pin = FALSE, !.tries = FullTries, !.creds = {}]
      [] kind = "delete" -> [skKey EXCEPT !.creds = @ \ {arg}, !.tries = FullTries]
      [] OTHER -> IF Sent THEN [skKey EXCEPT !.tries = FullTries] ELSE skKey

\* The test makes a credential that is not kept, and reads nothing again.
RunFido ==
    /\ skOp.step = "run" /\ skOp.kind \in FidoKinds \ {"rename"} /\ Accepted
    /\ skKey' = FidoDone(skOp.kind, skOp.arg)
    /\ IF skOp.kind = "test" THEN Over ELSE Proceed
    /\ UNCHANGED <<skOpen, skRows, skPass, skSaid, skBlind, skCount>> /\ SetKeep

\* The slots are reached over another interface of the key, which the FIDO channel does not need.
RunSlot ==
    /\ skOp.step = "run" /\ skOpen /\ skKey.here
    /\ skOp.kind \in {"program", "erase", "swap", "read_slots"}
    /\ skOp.kind = "read_slots" \/ "OTP" \in skKey.apps
    /\ skKey' = CASE skOp.kind = "program" -> [skKey EXCEPT !.slots[skOp.arg] = TRUE]
                  [] skOp.kind = "erase" -> [skKey EXCEPT !.slots[skOp.arg] = FALSE]
                  [] skOp.kind = "swap" -> [skKey EXCEPT !.slots = [s \in Slots |-> @[3 - s]]]
                  [] OTHER -> skKey
    /\ Proceed
    /\ UNCHANGED <<skOpen, skRows, skPass, skSaid, skBlind, skCount>> /\ SetKeep

RunAccount ==
    /\ skOp.step = "run" /\ skOpen
    /\ \/ skOp.kind = "reread" /\ UNCHANGED <<skKey, skPass>>
       \/ skOp.kind = "unlock" /\ skPass' = skOp.guess /\ UNCHANGED skKey
       \/ /\ skOp.kind \in {"add", "remove"}
          /\ skKey.here /\ "OATH" \in skKey.apps /\ (skKey.locked => skPass = "right")
          /\ skOp.kind = "remove" => skOp.arg \in skKey.accts
          /\ skKey' = [skKey EXCEPT !.accts = IF skOp.kind = "add" THEN @ \cup {skOp.arg} ELSE @ \ {skOp.arg}]
          /\ UNCHANGED skPass
    /\ Proceed
    /\ UNCHANGED <<skOpen, skRows, skSaid, skBlind, skCount>> /\ SetKeep

\* Applications: all of them are written, none may leave the key without an interface this page
\* can reach, and a change of interfaces restarts the key, which ends the channel.
Interfaces(apps) == apps \cap {"OTP", "FIDO2"}

RunToggle ==
    /\ skOp.step = "run" /\ skOp.kind = "toggle" /\ Alive
    /\ Interfaces(skOp.arg) # {}
    /\ LET restarts == Interfaces(skOp.arg) # Interfaces(skRows.apps) IN
          /\ skKey' = [skKey EXCEPT !.apps = skOp.arg, !.link = ~restarts]
          /\ IF restarts THEN Over ELSE Proceed
    /\ UNCHANGED <<skOpen, skRows, skPass, skSaid, skBlind, skCount>> /\ SetKeep

\* A time after which the key ejects needs the touch that inserts it again.
RunEject ==
    /\ skOp.step = "run" /\ skOp.kind = "eject" /\ Alive
    /\ skKey' = [skKey EXCEPT !.touch = skOp.arg \in {"touch", "time"}, !.eject = IF skOp.arg = "time" THEN 1 ELSE 0]
    /\ Proceed
    /\ UNCHANGED <<skOpen, skRows, skPass, skSaid, skBlind, skCount>> /\ SetKeep

\* What a write reads again before it is over.
ReopenNothing(rows) == rows
Reopened(rows) == Opened(rows)

Reopen ==
    /\ skOp.step = "reread" /\ skOp.kind \in {"refresh", "set_pin", "configure", "reset", "toggle", "eject"}
    /\ skOpen' = Reachable
    /\ skKey' = [skKey EXCEPT !.link = Reachable]
    /\ skRows' = IF Reachable THEN Reopened(skRows) ELSE skRows
    /\ Over
    /\ UNCHANGED <<skPass, skSaid, skBlind, skCount>> /\ SetKeep

RereadPasskeys ==
    /\ skOp.step = "reread" /\ skOp.kind \in {"show", "delete"}
    /\ skRows' = IF Alive THEN [skRows EXCEPT !.creds = skKey.creds] ELSE skRows
    /\ Over
    /\ UNCHANGED <<skKey, skOpen, skPass, skSaid, skBlind, skCount>> /\ SetKeep

AfterNoWrite(slots) == skRows
AfterWrite(slots) == [skRows EXCEPT !.slots = slots]

RereadSlots ==
    /\ skOp.step = "reread" /\ skOp.kind \in {"program", "erase", "swap", "read_slots"}
    /\ \E read \in SlotReads(skRows) :
          /\ skRows' = AfterWrite(read.slots)
          /\ skBlind' = (skBlind \/ read.failed)
          /\ Stirred(read.failed)
    /\ Over
    /\ UNCHANGED <<skKey, skOpen, skPass, skSaid>> /\ SetKeep

\* An unlocking that fails forgets the password.
RereadAccounts ==
    /\ skOp.step = "reread" /\ skOp.kind \in {"add", "remove", "reread", "unlock"}
    /\ \E codes \in CodeReads(skPass) :
          /\ skRows' = [skRows EXCEPT !.codes = codes]
          /\ skPass' = IF skOp.kind = "unlock" /\ codes.state = "failed" THEN "none" ELSE skPass
          /\ Stirred(codes.state = "failed")
    /\ Over
    /\ UNCHANGED <<skKey, skOpen, skSaid, skBlind>> /\ SetKeep

-----------------------------------------------------------------------------
(* The key and the clock. *)

Unplug ==
    /\ skKey.here /\ MayStir
    /\ skKey' = [skKey EXCEPT !.here = FALSE, !.link = FALSE]
    /\ skBlind' = TRUE
    /\ Bump("stirs")
    /\ UNCHANGED <<skKind, skUp, skOpen, skRows, skPass, skLock, skTask, skOp, skSaid>>

Replug ==
    /\ ~skKey.here
    /\ skKey' = [skKey EXCEPT !.here = TRUE]
    /\ UNCHANGED <<skKind, skUp, skOpen, skRows, skPass, skLock, skTask, skOp, skSaid, skBlind, skCount>>

Tick ==
    /\ skCount.ticks < MaxTicks
    /\ skKey' = [skKey EXCEPT !.now = @ + 1]
    /\ Bump("ticks")
    /\ UNCHANGED <<skKind, skUp, skOpen, skRows, skPass, skLock, skTask, skOp, skSaid, skBlind>>

Next ==
    \/ Connect \/ Disconnect \/ StartLoad \/ Load \/ StartFetch \/ Fetch
    \/ \E kind \in FidoKinds \cup YubiKinds, guess \in Guesses : \E arg \in Offered(kind) : StartSet(kind, arg, guess)
    \/ WrongPin \/ SetFails \/ RunFido \/ RunSlot \/ RunAccount \/ RunToggle \/ RunEject
    \/ Reopen \/ RereadPasskeys \/ RereadSlots \/ RereadAccounts
    \/ Unplug \/ Replug \/ Tick

Spec == Init /\ [][Next]_skVars

-----------------------------------------------------------------------------
TypeOK ==
    /\ skLock \in {None, "set", "task"}
    /\ skTask.step \in {"off", "settle", "load", "loop", "fetch"}
    /\ skKey.tries \in 0..FullTries /\ skKey.creds \subseteq Creds /\ skKey.accts \subseteq Accts
    /\ (skOp.step # "off") = (skLock = "set")

\* Slots are programmed over what their rows say is in them.  While no write is under way the rows
\* of the slots that were read say what the key holds, also after slots were exchanged and erased,
\* and whether the background task or a write read them first.
SlotsAreShown ==
    (skUp /\ skOp.step = "off" /\ ~skBlind /\ Programmable) => skRows.slots.of = skKey.slots

\* Whether a PIN is asked for follows what was read of the key: after a PIN was set and after a
\* factory reset the rows say what the key holds.
PinRowIsTrue == (skUp /\ skOp.step = "off" /\ ~skBlind) => skRows.pin = skKey.pin

\* A key gives few attempts at its PIN and then none: one entry of the user's costs one at most,
\* though some writes present the PIN twice.
AttemptsAreTheUsers == skOp.spent <= 1

\* FIDO2_UI_BEHAVIOUR.md: a failed attempt reports how many remain.
RetriesAreTold == [][WrongPin => skSaid' = skKey'.tries]_skVars

\* YUBIKEY_UI_BEHAVIOUR.md: codes have to keep moving.  A code that has expired and is shown has a
\* task that will replace it.
CodesKeepMoving ==
    (skUp /\ skOpen /\ skLock = None /\ Expiring(skRows.codes) /\ skRows.codes.at # skKey.now) => skTask.step # "off"
=============================================================================
