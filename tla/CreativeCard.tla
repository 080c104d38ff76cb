---------------------------- MODULE CreativeCard ----------------------------
(***************************************************************************)
(* A Creative sound card on its control channel.  Writes run in worker     *)
(* threads and nothing serialises them: each thread drains the endpoint,   *)
(* applies what it found to the state they share and looks for its own     *)
(* acknowledgement in it.  The card acknowledges at once, commits later    *)
(* and then pushes what became of it; equaliser values it never pushes.    *)
(*                                                                         *)
(* There are two stored modes, of which the card enters 1 only with Super  *)
(* X-Fi and 0 only without, and a curve is one level.                      *)
(***************************************************************************)
EXTENDS Naturals, Sequences

CONSTANTS
    CrWriters,    \* threads of the executor that write
    None,
    MaxCrOps,     \* bound: writes and connects
    MaxCrStirs    \* bound: buttons pressed on the card, unlocks refused, polls

VARIABLES
    crCard,       \* "booting", "locked" or "open" (the unlock handshake is done)
    crHw,         \* what the card does
    crPend,       \* what it acknowledged and has not committed, in order
    crIn,         \* frames the host has not read
    crHeld,       \* DeviceState
    crThread,     \* the writes under way
    crLink,       \* "closed", "claimed" (being opened) or "ready"
    crLast,       \* how the last write ended: None, or [row, val, ok, took]
    crStirred,    \* has a button of the card been pressed, or a poll run beside a write
    crCount

crVars == <<crCard, crHw, crPend, crIn, crHeld, crThread, crLink, crLast, crStirred, crCount>>

Outs == {"headphones", "line"}
Modes == {0, 1}
Off == 2
Flags == {"direct", "sxfi"}
Values(row) == CASE row \in Flags -> BOOLEAN [] row = "out" -> Outs [] row = "mode" -> Modes \cup {Off} [] OTHER -> {0, 1}
RowsOf == Flags \cup {"out", "mode", "band", "preset"}

\* A preset has a curve for each output; a stored mode has one of its own.
Tuned(preset, out) == IF out = "headphones" THEN preset ELSE 1 - preset
StoredCurve(mode) == mode

Resting == [step |-> "off", row |-> None, val |-> None, cmd |-> <<>>, batch |-> <<>>, took |-> FALSE, eq |-> None]

\* What a controller knows of a card it has not read yet.
Blank == [direct |-> FALSE, sxfi |-> None, out |-> None, mode |-> None, eq |-> None, curve |-> 0]

Bump(field) == crCount' = [crCount EXCEPT ![field] = @ + 1]
MayStir == crCount.stirs < MaxCrStirs

Init ==
    /\ crCard \in {"booting", "locked", "open"}
    /\ \E out \in Outs, sxfi \in BOOLEAN :
          crHw = [direct |-> FALSE, sxfi |-> sxfi, out |-> out, mode |-> IF sxfi THEN 1 ELSE 0, eq |-> FALSE, curve |-> 0]
    /\ crPend = <<>> /\ crIn = <<>>
    /\ crHeld = Blank
    /\ crThread = [w \in CrWriters |-> Resting]
    /\ crLink = "closed" /\ crLast = None /\ crStirred = FALSE
    /\ crCount = [ops |-> 0, stirs |-> 0]

-----------------------------------------------------------------------------
(* Opening: a controller of its own is made for each connection, both interfaces are claimed, the  *)
(* card unlocked, everything readable read.                                                        *)

Open ==
    /\ crLink = "closed" /\ crCount.ops < MaxCrOps
    /\ crLink' = "claimed"
    /\ crIn' = <<>> /\ crHeld' = Blank /\ crLast' = None
    /\ Bump("ops")
    /\ UNCHANGED <<crCard, crHw, crPend, crThread, crStirred>>

\* The card that boots answers NotYet, which is asked again a few times.
CardBoots == crCard = "booting" /\ crCard' = "locked"
             /\ UNCHANGED <<crHw, crPend, crIn, crHeld, crThread, crLink, crLast, crStirred, crCount>>

\* What sync reads: the features, the routing, and the equaliser.  Super X-Fi and the mode cannot
\* be asked for.
ReadAll(held) == [held EXCEPT !.direct = crHw.direct, !.out = crHw.out, !.eq = crHw.eq, !.curve = crHw.curve]

\* The handshake lasts longer than a commit.
Unlock ==
    /\ crLink = "claimed" /\ crCard # "booting" /\ crPend = <<>>
    /\ crCard' = "open" /\ crLink' = "ready"
    /\ crHeld' = ReadAll(crHeld)
    /\ UNCHANGED <<crHw, crPend, crIn, crThread, crLast, crStirred, crCount>>

UnlockFails ==
    /\ crLink = "claimed"
    /\ crCard = "booting" \/ (crCard = "locked" /\ MayStir)
    /\ crLink' = "closed"
    /\ Bump("stirs")
    /\ UNCHANGED <<crCard, crHw, crPend, crIn, crHeld, crThread, crLast, crStirred>>

\* A thread on a closed link has its next access refused.
Close ==
    /\ crLink = "ready"
    /\ crLink' = "closed"
    /\ crThread' = [w \in CrWriters |-> Resting]
    /\ UNCHANGED <<crCard, crHw, crPend, crIn, crHeld, crLast, crStirred, crCount>>

-----------------------------------------------------------------------------
(* What the card makes of a command: an acknowledgement now, the change later. *)

\* A mode of the other Super X-Fi state is refused, or acknowledged and not entered.
Enters(hw, mode) == hw.sxfi = (mode = 1)

Acks(row, val) ==
    IF row = "select" /\ ~Enters(crHw, val) THEN {<<"ack", row, val, FALSE>>, <<"ack", row, val, TRUE>>}
    ELSE {<<"ack", row, val, TRUE>>}

\* Switching Super X-Fi changes the mode with it.
Done(hw, row, val) ==
    CASE row = "sxfi" -> [hw EXCEPT !.sxfi = val, !.mode = IF val THEN 1 ELSE 0,
                                    !.curve = IF val # hw.sxfi THEN StoredCurve(IF val THEN 1 ELSE 0) ELSE @]
      [] row = "select" -> IF Enters(hw, val) THEN [hw EXCEPT !.mode = val, !.curve = StoredCurve(val)] ELSE hw
      [] OTHER -> [hw EXCEPT ![row] = val]

\* It tells what it changed; what was as asked already draws nothing but the routing.
Pushes(hw, row) ==
    CASE row = "sxfi" -> <<<<"push", "sxfi", hw.sxfi>>, <<"push", "mode", hw.mode>>>>
      [] row = "select" -> IF hw # crHw THEN <<<<"push", "mode", hw.mode>>>> ELSE <<>>
      [] row \in {"direct", "out"} -> <<<<"push", row, hw[row]>>>>
      [] OTHER -> <<>>

Commit ==
    /\ crPend # <<>>
    /\ crHw' = Done(crHw, crPend[1][1], crPend[1][2])
    /\ crIn' = crIn \o Pushes(crHw', crPend[1][1])
    /\ crPend' = Tail(crPend)
    /\ UNCHANGED <<crCard, crHeld, crThread, crLink, crLast, crStirred, crCount>>

\* A button on the card.
Button ==
    /\ MayStir /\ crPend = <<>>
    /\ \E row \in {"sxfi", "out"} : \E val \in Values(row) :
          /\ crHw' = Done(crHw, row, val)
          /\ crIn' = IF crLink = "closed" THEN crIn ELSE crIn \o Pushes(crHw', row)
    /\ crStirred' = TRUE
    /\ Bump("stirs")
    /\ UNCHANGED <<crCard, crPend, crHeld, crThread, crLink, crLast>>

-----------------------------------------------------------------------------
(* The host: frames are applied in the order they were drained. *)

\* A push tells what became of its field; that a feature was acknowledged is held at once; the
\* values of the equaliser are noted by their writer.
Tells(f, field) == IF f[1] = "push" THEN f[2] = field ELSE field = "direct" /\ f[2] = "direct" /\ f[4]

\* What is held of a field is what the last frame that tells it says.
Applied(held, frames) ==
    [field \in DOMAIN held |->
        LET told == {i \in DOMAIN frames : Tells(frames[i], field)} IN
        IF told = {} THEN held[field] ELSE frames[CHOOSE i \in told : \A j \in told : j <= i][3]]

AckOf(row, frames) == {f \in {frames[i] : i \in DOMAIN frames} : f[1] = "ack" /\ f[2] = row}

ThreadKeep == UNCHANGED <<crCard, crHw, crLink, crStirred, crCount>>

To(w, step) == crThread' = [crThread EXCEPT ![w].step = step, ![w].batch = <<>>]

End(w, ok) ==
    LET t == crThread[w] IN
    /\ crThread' = [crThread EXCEPT ![w] = Resting]
    /\ crLast' = [row |-> t.row, val |-> t.val, ok |-> ok, took |-> t.took, eq |-> t.eq]

\* A row is enabled while Direct Mode is off, which bypasses everything but the routing.
Offered(row) == row \in {"direct", "out"} \/ ~crHeld.direct

\* What a write sends first.  A mode is selected before the equaliser is switched on; a preset is
\* the curve for the routing that is held.
TunedForLine(preset) == Tuned(preset, "line")
TunedForRouting(preset) == Tuned(preset, crHeld.out)

First(row, val) ==
    CASE row = "mode" -> IF val = Off THEN <<"eq", FALSE>> ELSE <<"select", val>>
      [] row = "band" -> <<"curve", val>>
      [] row = "preset" -> <<"curve", TunedForRouting(val)>>
      [] OTHER -> <<row, val>>

\* The page holds the row of a write under way, and no other.
Begin(w, row, val) ==
    /\ crLink = "ready" /\ crThread[w].step = "off" /\ crCount.ops < MaxCrOps
    /\ Offered(row) /\ \A x \in CrWriters : crThread[x].row # row
    /\ crThread' = [crThread EXCEPT ![w] = [Resting EXCEPT
                       !.step = "send", !.row = row, !.val = val, !.cmd = First(row, val), !.eq = crHw.eq]]
    /\ crLast' = None
    /\ Bump("ops")
    /\ UNCHANGED <<crCard, crHw, crPend, crIn, crHeld, crLink, crStirred>>

\* command: what waits is applied before it is sent.
Send(w) ==
    /\ crThread[w].step = "send"
    /\ crHeld' = Applied(crHeld, crIn)
    /\ \E ack \in Acks(crThread[w].cmd[1], crThread[w].cmd[2]) :
          /\ crIn' = <<ack>>
          /\ crPend' = IF ack[4] THEN Append(crPend, crThread[w].cmd) ELSE crPend
          /\ crThread' = [crThread EXCEPT ![w].step = "ack", ![w].took = ack[4]]
    /\ UNCHANGED crLast /\ ThreadKeep

\* drain takes what is there; it is applied when nothing more comes.
Drain(w) ==
    /\ crThread[w].step \in {"ack", "look", "settle", "confirm"}
    /\ crThread[w].batch = <<>> /\ crIn # <<>>
    /\ crThread' = [crThread EXCEPT ![w].batch = crIn]
    /\ crIn' = <<>>
    /\ UNCHANGED <<crPend, crHeld, crLast>> /\ ThreadKeep

\* What follows the acknowledgement, and what is held of it: the card never tells the equaliser.
FollowingNothing(cmd) == "settle"
Following(cmd) == CASE cmd[1] = "select" -> "look" [] cmd = <<"eq", TRUE>> -> "reread" [] OTHER -> "settle"

Noted(held, cmd) == IF cmd[1] \in {"curve", "eq"} THEN [held EXCEPT ![cmd[1]] = cmd[2]] ELSE held

Apply(w) ==
    /\ crThread[w].batch # <<>>
    /\ LET t == crThread[w]
           held == Applied(crHeld, t.batch)
           acks == IF t.step = "ack" THEN AckOf(t.cmd[1], t.batch) ELSE {} IN
       IF acks = {} THEN crHeld' = held /\ To(w, t.step) /\ UNCHANGED crLast
       ELSE IF \E a \in acks : a[4]
       THEN crHeld' = Noted(held, t.cmd) /\ To(w, Following(t.cmd)) /\ UNCHANGED crLast
       ELSE crHeld' = held /\ End(w, FALSE)
    /\ UNCHANGED <<crPend, crIn>> /\ ThreadKeep

Drained(w) == crThread[w].batch = <<>> /\ crIn = <<>>

\* No acknowledgement in time: another thread had it.
NoAck(w) ==
    /\ crThread[w].step = "ack" /\ Drained(w)
    /\ End(w, FALSE)
    /\ UNCHANGED <<crPend, crIn, crHeld>> /\ ThreadKeep

\* _select_equalizer: a mode the card did not enter is not switched on into another one.  The
\* change of a mode is pushed within the drain.
StaysNever(mode) == FALSE
Stays(mode) == crHeld.mode # None /\ crHeld.mode # mode

Look(w) ==
    /\ crThread[w].step = "look" /\ Drained(w) /\ crPend = <<>>
    /\ IF Stays(crThread[w].val) THEN End(w, FALSE)
       ELSE crThread' = [crThread EXCEPT ![w].step = "send", ![w].cmd = <<"eq", TRUE>>] /\ UNCHANGED crLast
    /\ UNCHANGED <<crPend, crIn, crHeld>> /\ ThreadKeep

\* sync_equalizer: one request for each value, which answers with what is committed.
Reread(w) ==
    /\ crThread[w].step = "reread" /\ crPend = <<>>
    /\ crHeld' = [Applied(crHeld, crIn) EXCEPT !.eq = crHw.eq, !.curve = crHw.curve]
    /\ crIn' = <<>>
    /\ To(w, "settle")
    /\ UNCHANGED <<crPend, crLast>> /\ ThreadKeep

\* settle lasts longer than a commit, except that of the routing, which is asked for until it is
\* what was wanted or a while is over.
SettleIsEnough(row) == FALSE
NeedsConfirming(row) == row = "out"

Settled(w) ==
    /\ crThread[w].step = "settle" /\ Drained(w)
    /\ crPend = <<>> \/ crThread[w].row = "out"
    /\ IF NeedsConfirming(crThread[w].row) THEN To(w, "confirm") /\ UNCHANGED crLast ELSE End(w, TRUE)
    /\ UNCHANGED <<crPend, crIn, crHeld>> /\ ThreadKeep

Confirmed(w) ==
    /\ crThread[w].step = "confirm" /\ Drained(w)
    /\ crHw.out = crThread[w].val \/ crPend = <<>>
    /\ crHeld' = [crHeld EXCEPT !.out = crHw.out]
    /\ End(w, TRUE)
    /\ UNCHANGED <<crPend, crIn>> /\ ThreadKeep

\* refresh, by the poll of the page: everything readable is read again, whoever is writing.
Refresh ==
    /\ crLink = "ready" /\ MayStir
    /\ crHeld' = ReadAll(Applied(crHeld, crIn))
    /\ crIn' = <<>>
    /\ crLast' = None
    /\ crStirred' = (crStirred \/ \E w \in CrWriters : crThread[w].step # "off")
    /\ Bump("stirs")
    /\ UNCHANGED <<crCard, crHw, crPend, crThread, crLink>>

Next ==
    \/ Open \/ CardBoots \/ Unlock \/ UnlockFails \/ Close \/ Commit \/ Button \/ Refresh
    \/ \E w \in CrWriters :
          \/ \E row \in RowsOf : \E val \in Values(row) : Begin(w, row, val)
          \/ Send(w) \/ Drain(w) \/ Apply(w) \/ NoAck(w) \/ Look(w) \/ Reread(w) \/ Settled(w) \/ Confirmed(w)

Spec == Init /\ [][Next]_crVars

-----------------------------------------------------------------------------
TypeOK ==
    /\ crHw.out \in Outs /\ crHw.mode \in Modes /\ crHw.curve \in {0, 1}
    /\ crHeld.out \in Outs \cup {None} /\ crHeld.mode \in Modes \cup {None} /\ crHeld.curve \in {0, 1}
    /\ crLink \in {"closed", "claimed", "ready"}
    /\ \A w \in CrWriters : crThread[w].step \in {"off", "send", "ack", "look", "reread", "settle", "confirm"}

\* No button was pressed, no poll ran beside a write, and the last write is as it ended.
Untouched(row) == crLast # None /\ ~crStirred /\ crLast.row = row

\* A routing that was chosen is the one the page shows, although the card acknowledges before it
\* commits and pushes what was before.
OutputIsShown == (Untouched("out") /\ crLast.ok) => crHeld.out = crLast.val

\* A mode that is reported selected is live, as far as the card ever told its mode, and one that is
\* reported refused has not switched the equaliser on.
SelectedModeIsLive ==
    (Untouched("mode") /\ crLast.val # Off) =>
        /\ (crLast.ok /\ crHeld.mode # None) => crHw.mode = crLast.val
        /\ ~crLast.ok => crHw.eq = crLast.eq

\* After a mode, a band or a preset the sliders are the curve of the card, and that of a preset is
\* the one for the output in use.
SlidersAreTheCurve ==
    /\ \A row \in {"mode", "band", "preset"} :
          (Untouched(row) /\ crLast.ok /\ crLast.val # Off) => crHeld.curve = crHw.curve
    /\ (Untouched("preset") /\ crLast.ok) => crHw.curve = Tuned(crLast.val, crHw.out)

\* WRITING_A_MODULE.md: without a lock "a second reader on the same channel consumes the reply
\* another call is waiting for".  A write the card took is not reported as failed.
TakenIsNotFailed == (crLast # None /\ crLast.row # "mode" /\ ~crLast.ok) => ~crLast.took
=============================================================================
