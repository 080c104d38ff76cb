------------------------------ MODULE PageForms ------------------------------
(***************************************************************************)
(* The page of controls (shell/form.py, shell/window.py) and the           *)
(* coroutines of the controller that fill it (shell/app.py): the write     *)
(* with its optimistic value, the periodic refresh, the changes a device   *)
(* reports on its own, and the repaint of the whole page.                  *)
(*                                                                         *)
(* The coroutines touch devices and never a widget: they append calls to   *)
(* a queue (bridge.call_on_ui), and the GUI thread runs them in order, on  *)
(* whatever page is then on screen.  An action is what lies between two    *)
(* awaits of a coroutine, one queued call, or one press of the user.       *)
(*                                                                         *)
(* Every device has the same controls, as two devices of one module do.    *)
(***************************************************************************)
EXTENDS Naturals, Sequences

CONSTANTS
    Devices,    \* uids
    Keys,       \* the controls of a device
    Values,     \* what a control can hold
    Writers,    \* runs of _write and _write_rebooting that can overlap
    WritesWith, \* Capability.writes_with: the controls that ride in the same message
    Exclusive,  \* Capability.exclusive: the writes that own the whole device
    Restarting, \* Capability.reboots: the writes that restart the device
    Refreshes,  \* Capability.refreshes: the other controls a write moves
    Reshaping,  \* the writes that change the device's set of controls
    Locking,    \* the devices whose module serialises its reads and writes with a lock
    Patient,    \* TRUE: the user waits until the page shows how a write ended
    TimesOut,   \* TRUE: a write can outlast its timeout
    MaxEdits,   \* bound: changes the user makes to controls
    MaxMoves,   \* bound: selections, connects and disconnects
    MaxTurns,   \* bound: changes the devices make on their own
    None

ASSUME ControlsAssumption ==
    /\ None \notin Devices \cup Values \cup Writers
    /\ Writers \cap Devices = {}
    /\ WritesWith \in [Keys -> SUBSET Keys]
    /\ Refreshes \in [Keys -> SUBSET Keys]
    /\ Exclusive \subseteq Keys /\ Restarting \subseteq Keys /\ Reshaping \subseteq Keys
    /\ Locking \subseteq Devices
    /\ Patient \in BOOLEAN /\ TimesOut \in BOOLEAN
    /\ MaxEdits \in Nat /\ MaxMoves \in Nat /\ MaxTurns \in Nat

VARIABLES
    held,       \* what each device holds
    open,       \* _open
    closing,    \* the devices whose disconnect is awaited
    selected,   \* _selected
    page,       \* the forms on screen: whose they are, _values, _pending
    ui,         \* the calls queued for the GUI thread
    write,      \* the runs of _write and _write_rebooting
    poll,       \* per device, the values a periodic refresh has read and not handed over
    show,       \* per device, the run of _show_connected
    told,       \* per device, the changes it reported that are not delivered
    edits, moves, turns

counters == <<edits, moves, turns>>
vars == <<held, open, closing, selected, page, ui, write, poll, show, told, counters>>

\* No forms: the placeholder is shown.
EmptyPage == [of |-> None, val |-> [k \in Keys |-> None], pending |-> {}]

\* What a device holds, as the forms show it.
PageOf(u, vals) == [of |-> u, val |-> vals, pending |-> {}]

Readings == [Keys -> Values]

\* A dictionary of some controls' values.
Dicts == UNION {[S -> Values \cup {None}] : S \in SUBSET Keys}

Idle == [pc |-> "idle", dev |-> None, origin |-> None, key |-> None, value |-> None,
         prev |-> None, keys |-> {}]

\* A write owns its controls from the call that marks them to the one that clears them.
Holding == {"writing", "landed", "rereading", "repainting"}

NoShow == [pc |-> "none", vals |-> None]

WriteRecord ==
    {Idle}
    \cup [pc : {"queued"}, dev : {None}, origin : Devices, key : Keys, value : Values,
          prev : {None}, keys : {{}}]
    \cup [pc : Holding \cup {"orphan"}, dev : Devices, origin : Devices, key : Keys,
          value : Values, prev : Values \cup {None}, keys : SUBSET Keys]

ShowRecord ==
    {NoShow} \cup [pc : {"asked"}, vals : {None}] \cup [pc : {"read"}, vals : Readings]

Calls ==
    [op : {"pending"}, by : Writers, keys : SUBSET Keys, key : Keys, value : Values]
    \cup [op : {"clear"}, keys : SUBSET Keys]
    \cup [op : {"values"}, by : Writers \cup Devices, of : Dicts, confirmed : BOOLEAN]
    \cup [op : {"show"}, of : Devices, vals : Readings]
    \cup [op : {"blank"}]

TypeOK ==
    /\ held \in [Devices -> Readings]
    /\ open \subseteq Devices /\ closing \subseteq Devices
    /\ selected \in Devices \cup {None}
    /\ page \in {EmptyPage}
             \cup [of : Devices, val : [Keys -> Values \cup {None}], pending : SUBSET Keys]
    /\ ui \in Seq(Calls)
    /\ write \in [Writers -> WriteRecord]
    /\ poll \in [Devices -> Readings \cup {None}]
    /\ show \in [Devices -> ShowRecord]
    /\ told \in [Devices -> Seq(Keys \X Values)]
    /\ edits \in 0..MaxEdits /\ moves \in 0..MaxMoves /\ turns \in 0..MaxTurns

-----------------------------------------------------------------------------
(* The calls queued for the GUI thread                                       *)

Pending(w, keys, k, v) ==
    [op |-> "pending", by |-> w, keys |-> keys, key |-> k, value |-> v]
Clear(keys) == [op |-> "clear", keys |-> keys]
Offer(u, dict) == [op |-> "values", by |-> u, of |-> dict, confirmed |-> FALSE]
Confirm(w, dict) == [op |-> "values", by |-> w, of |-> dict, confirmed |-> TRUE]
Show(u, vals) == [op |-> "show", of |-> u, vals |-> vals]
Blank == [op |-> "blank"]

\* CapabilityForm.set_value for each value of the call: dropped for a pending control,
\* unless it is a confirmation, which also releases the control.  Faulty: never dropped.
SetValuesAnyway(p, c) ==
    [p EXCEPT !.val = [k \in Keys |-> IF k \in DOMAIN c.of THEN c.of[k] ELSE p.val[k]],
              !.pending = @ \ DOMAIN c.of]

SetValues(p, c) ==
    LET taken == IF c.confirmed THEN DOMAIN c.of ELSE DOMAIN c.of \ p.pending IN
    [p EXCEPT !.val = [k \in Keys |-> IF k \in taken THEN c.of[k] ELSE p.val[k]],
              !.pending = @ \ taken]

\* Faulty: the group is put into the set as one element (add for update).
SetPendingAsOne(p, c) ==
    [p EXCEPT !.val[c.key] = c.value, !.pending = @ \cup {c.keys}]

\* CapabilityForm.set_pending: the optimistic value, and every control of the group held.
SetPending(p, c) ==
    [p EXCEPT !.val[c.key] = c.value, !.pending = @ \cup c.keys]

\* The first queued call runs; without forms there is nothing to apply it to.
RunUI ==
    /\ ui # <<>>
    /\ ui' = Tail(ui)
    /\ LET c == Head(ui) IN
       \/ /\ c.op \in {"pending", "clear", "values"} /\ page.of = None
          /\ UNCHANGED page
       \/ /\ c.op = "pending" /\ page.of # None
          /\ page' = SetPending(page, c)
       \/ /\ c.op = "clear" /\ page.of # None
          /\ page' = [page EXCEPT !.pending = @ \ c.keys]
       \/ /\ c.op = "values" /\ page.of # None
          /\ page' = SetValues(page, c)
       \/ /\ c.op = "show"
          /\ page' = PageOf(c.of, c.vals)
       \/ /\ c.op = "blank"
          /\ page' = EmptyPage
    /\ UNCHANGED <<held, open, closing, selected, write, poll, show, told, counters>>

Init ==
    /\ held \in [Devices -> Readings]
    /\ open \in SUBSET Devices
    /\ closing = {}
    /\ selected \in Devices \cup {None} /\ (selected = None => open = {})
    /\ page = IF selected \in open THEN PageOf(selected, held[selected]) ELSE EmptyPage
    /\ ui = <<>>
    /\ write = [w \in Writers |-> Idle]
    /\ poll = [u \in Devices |-> None]
    /\ show = [u \in Devices |-> NoShow]
    /\ told = [u \in Devices |-> <<>>]
    /\ edits = 0 /\ moves = 0 /\ turns = 0

-----------------------------------------------------------------------------
(* Selecting, connecting and disconnecting, as far as they touch the page    *)

\* select: a device that is open has its page put back by a coroutine; until that has
\* run, the forms of the device shown before stay.
Select(u) ==
    /\ selected # u /\ moves < MaxMoves
    /\ moves' = moves + 1
    /\ selected' = u
    /\ \/ /\ u \in open /\ show[u].pc = "none"
          /\ show' = [show EXCEPT ![u].pc = "asked"]
          /\ UNCHANGED page
       \/ /\ u \notin open
          /\ page' = EmptyPage
          /\ UNCHANGED show
    /\ UNCHANGED <<held, open, closing, ui, write, poll, told, edits, turns>>

\* _connect has succeeded: the page is filled if the device is the selected one.
Connect(u) ==
    /\ u \notin open \cup closing /\ show[u].pc = "none" /\ moves < MaxMoves
    /\ moves' = moves + 1
    /\ open' = open \cup {u}
    /\ IF selected = u THEN show' = [show EXCEPT ![u].pc = "asked"] ELSE UNCHANGED show
    /\ UNCHANGED <<held, closing, selected, page, ui, write, poll, told, edits, turns>>

\* _teardown up to its await: its tasks end, and the disconnect begins.
Close(u) ==
    /\ open' = open \ {u}
    /\ closing' = closing \cup {u}
    /\ poll' = [poll EXCEPT ![u] = None]
    /\ told' = [told EXCEPT ![u] = <<>>]

StartTeardown(u) ==
    /\ u \in open /\ moves < MaxMoves
    /\ moves' = moves + 1
    /\ Close(u)
    /\ UNCHANGED <<held, selected, page, ui, write, show, edits, turns>>

FinishTeardown(u) ==
    /\ u \in closing
    /\ closing' = closing \ {u}
    /\ ui' = IF selected = u THEN Append(ui, Blank) ELSE ui
    /\ UNCHANGED <<held, open, selected, page, write, poll, show, told, counters>>

\* Nothing has taken the module's lock: no write of u has landed that has not returned,
\* and no refresh or page read has values that it has not returned.
Unlocked(u) ==
    u \in Locking =>
        /\ poll[u] = None /\ show[u].pc # "read"
        /\ \A w \in Writers : write[w].pc = "landed" => write[w].dev # u

\* _show_connected asks the device for its values, and queues the page when it has them,
\* whichever device is selected by then.  A read that fails leaves the page without values.
ReadPage(u) ==
    /\ show[u].pc = "asked" /\ Unlocked(u)
    /\ show' = [show EXCEPT ![u] = [pc |-> "read", vals |-> held[u]]]
    /\ UNCHANGED <<held, open, closing, selected, page, ui, write, poll, told, counters>>

QueuePage(u) ==
    /\ show[u].pc = "read"
    /\ show' = [show EXCEPT ![u] = NoShow]
    /\ ui' = Append(ui, Show(u, show[u].vals))
    /\ UNCHANGED <<held, open, closing, selected, page, write, poll, told, counters>>

-----------------------------------------------------------------------------
(* _write                                                                    *)

\* _group: what a write of k holds while it is in flight.
Group(k) == IF k \in Exclusive THEN Keys ELSE {k} \cup WritesWith[k]

\* What a patient user waits for: no write that holds k is under way, nor its calls.
CaughtUp(k) ==
    /\ \A w \in Writers :
         write[w].pc \notin {"idle", "orphan"} => k \notin Group(write[w].key)
    /\ \A i \in DOMAIN ui : ui[i].op \in {"pending", "clear"} => k \notin ui[i].keys

\* The user changes a control that is live; _on_changed spawns the write.
Edit(w, k, v) ==
    /\ page.of # None /\ k \notin page.pending /\ selected \in open
    /\ write[w].pc = "idle" /\ edits < MaxEdits
    /\ v # page.val[k]
    /\ Patient => CaughtUp(k)
    /\ edits' = edits + 1
    /\ write' = [write EXCEPT ![w] = [Idle EXCEPT !.pc = "queued", !.origin = page.of,
                                                  !.key = k, !.value = v]]
    /\ UNCHANGED <<held, open, closing, selected, page, ui, poll, show, told, moves, turns>>

\* The coroutine starts.  Its device is the one selected now; what to go back to is what
\* the form shows now; the controls it holds are marked by a queued call.
StartWrite(w) ==
    /\ write[w].pc = "queued" /\ selected \in open /\ page.of # None
    /\ LET k == write[w].key IN
       /\ write' = [write EXCEPT ![w].pc = "writing", ![w].dev = selected,
                                 ![w].prev = page.val[k], ![w].keys = Group(k)]
       /\ ui' = Append(ui, Pending(w, Group(k), k, write[w].value))
    /\ UNCHANGED <<held, open, closing, selected, page, poll, show, told, counters>>

\* Nothing is open, or the page has gone: nothing is written.
DropWrite(w) ==
    /\ write[w].pc = "queued" /\ (selected \notin open \/ page.of = None)
    /\ write' = [write EXCEPT ![w] = Idle]
    /\ UNCHANGED <<held, open, closing, selected, page, ui, poll, show, told, counters>>

\* The device takes the value, or the nearest one it has and says so.  What a restarting
\* write says is not listened to.
Land(w) ==
    /\ write[w].pc = "writing" /\ Unlocked(write[w].dev)
    /\ \E v \in Values :
         /\ held' = [held EXCEPT ![write[w].dev][write[w].key] = v]
         /\ write' = [write EXCEPT ![w].pc = "landed",
                                   ![w].value = IF write[w].key \in Restarting THEN @ ELSE v]
    /\ UNCHANGED <<open, closing, selected, page, ui, poll, show, told, counters>>

\* Faulty: only the control that was written is cleared; nothing is queued at all; the
\* value is not published.
ReleaseOne(w, calls, r) ==
    /\ ui' = ui \o Append(calls, Clear({write[w].key}))
    /\ write' = [write EXCEPT ![w] = r]
ReleaseNothing(w, calls, r) == UNCHANGED ui /\ write' = [write EXCEPT ![w] = r]
ReleaseUnsaid(w, calls, r) ==
    /\ ui' = Append(ui, Clear(write[w].keys))
    /\ write' = [write EXCEPT ![w] = r]

\* The end of _write, in every branch: these calls, then the one that clears the group.
Release(w, calls, r) ==
    /\ ui' = ui \o Append(calls, Clear(write[w].keys))
    /\ write' = [write EXCEPT ![w] = r]

One(k, v) == [x \in {k} |-> v]

\* The value is published as confirmed.  The advisories are then read from the device that
\* is selected now: with none, that raises, and the write ends there.
ConfirmWrite(w) ==
    /\ write[w].pc = "landed" /\ write[w].key \notin Restarting
    /\ LET k == write[w].key
           done == Confirm(w, One(k, write[w].value))
           goOn(pc) == /\ ui' = Append(ui, done)
                       /\ write' = [write EXCEPT ![w].pc = pc, ![w].dev = selected]
       IN \/ /\ selected \notin open \/ (Refreshes[k] = {} /\ k \notin Reshaping)
             /\ Release(w, <<done>>, Idle)
          \/ selected \in open /\ Refreshes[k] # {} /\ goOn("rereading")
          \/ selected \in open /\ Refreshes[k] = {} /\ k \in Reshaping /\ goOn("repainting")
    /\ UNCHANGED <<held, open, closing, selected, page, poll, show, told, counters>>

\* _repaint_side_effects: the device selected when it began is read, and what it says is
\* published as confirmed.  A read that fails is passed over.
Reread(w) ==
    /\ write[w].pc = "rereading"
    /\ LET k == write[w].key
           read == [x \in Refreshes[k] |-> held[write[w].dev][x]]
       IN \E calls \in {<<>>} \cup {<<Confirm(w, read)>> : u \in {write[w].dev} \cap open} :
            IF k \in Reshaping /\ selected \in open
            THEN /\ ui' = ui \o calls
                 /\ write' = [write EXCEPT ![w].pc = "repainting", ![w].dev = selected]
            ELSE Release(w, calls, Idle)
    /\ UNCHANGED <<held, open, closing, selected, page, poll, show, told, counters>>

\* The set of controls has changed: the whole page is put up again.
Repaint(w) ==
    /\ write[w].pc = "repainting"
    /\ Release(w, <<Show(write[w].dev, held[write[w].dev])>>, Idle)
    /\ UNCHANGED <<held, open, closing, selected, page, poll, show, told, counters>>

\* The module raises: the form goes back to the value it had.
RefuseWrite(w) ==
    /\ write[w].pc = "writing" /\ write[w].key \notin Restarting
    /\ Release(w, <<Confirm(w, One(write[w].key, write[w].prev))>>, Idle)
    /\ UNCHANGED <<held, open, closing, selected, page, poll, show, told, counters>>

\* No answer in time.  The coroutine is cancelled; the thread that writes is not.
TimeOutWrite(w) ==
    /\ TimesOut
    /\ write[w].pc = "writing" /\ write[w].key \notin Restarting
    /\ Release(w, <<Confirm(w, One(write[w].key, write[w].prev))>>,
               [write[w] EXCEPT !.pc = "orphan"])
    /\ UNCHANGED <<held, open, closing, selected, page, poll, show, told, counters>>

\* What a timed-out write left behind reaches the device, or does not.
OrphanLands(w) ==
    /\ write[w].pc = "orphan"
    /\ \/ /\ Unlocked(write[w].dev)
          /\ held' = [held EXCEPT ![write[w].dev][write[w].key] = write[w].value]
       \/ UNCHANGED held
    /\ write' = [write EXCEPT ![w] = Idle]
    /\ UNCHANGED <<open, closing, selected, page, ui, poll, show, told, counters>>

\* _write_rebooting: released first, then published as asked for unless the module raised
\* something else than a lost link; then the handle is closed.
EndRestartingWrite(w) ==
    /\ write[w].pc \in {"writing", "landed"} /\ write[w].key \in Restarting
    /\ LET u == write[w].dev
           clear == Clear(write[w].keys)
           blank == IF u \notin open /\ selected = u THEN <<Blank>> ELSE <<>>
       IN /\ \/ ui' = ui \o <<clear, Confirm(w, One(write[w].key, write[w].value))>> \o blank
             \/ write[w].pc = "writing" /\ ui' = ui \o <<clear>> \o blank
          /\ IF u \in open THEN Close(u) ELSE UNCHANGED <<open, closing, poll, told>>
    /\ write' = [write EXCEPT ![w] = Idle]
    /\ UNCHANGED <<held, selected, page, show, counters>>

-----------------------------------------------------------------------------
(* What arrives without being asked for                                      *)

\* _poll_loop: refresh reads the device.  POLL_INTERVAL outlasts the queue: the values of
\* the last refresh have been offered.
ReadPoll(u) ==
    /\ u \in open /\ poll[u] = None /\ Unlocked(u)
    /\ \A i \in DOMAIN ui : ui[i].op = "values" => ui[i].by # u
    /\ poll' = [poll EXCEPT ![u] = held[u]]
    /\ UNCHANGED <<held, open, closing, selected, page, ui, write, show, told, counters>>

\* Faulty: what a refresh read goes nowhere.
EndPollUnsaid(u) ==
    /\ poll[u] # None
    /\ poll' = [poll EXCEPT ![u] = None]
    /\ UNCHANGED <<held, open, closing, selected, page, ui, write, show, told, counters>>

\* It returns: its values are offered to the forms on screen, whose they may be.
EndPoll(u) ==
    /\ poll[u] # None
    /\ poll' = [poll EXCEPT ![u] = None]
    /\ ui' = Append(ui, Offer(u, poll[u]))
    /\ UNCHANGED <<held, open, closing, selected, page, write, show, told, counters>>

\* Somebody changes a setting on the device; a device that is open reports it.
Turn(u, k, v) ==
    /\ turns < MaxTurns /\ held[u][k] # v
    /\ turns' = turns + 1
    /\ held' = [held EXCEPT ![u][k] = v]
    /\ told' = [told EXCEPT ![u] = IF u \in open THEN Append(@, <<k, v>>) ELSE @]
    /\ UNCHANGED <<open, closing, selected, page, ui, write, poll, show, edits, moves>>

\* _watch_changes: what a device reports is dropped unless it is the one selected.
Deliver(u) ==
    /\ told[u] # <<>>
    /\ told' = [told EXCEPT ![u] = Tail(@)]
    /\ LET change == Head(told[u]) IN
       ui' = IF selected = u THEN Append(ui, Offer(u, One(change[1], change[2]))) ELSE ui
    /\ UNCHANGED <<held, open, closing, selected, page, write, poll, show, counters>>

-----------------------------------------------------------------------------
User ==
    \/ \E u \in Devices : Select(u) \/ Connect(u) \/ StartTeardown(u)
    \/ \E w \in Writers, k \in Keys, v \in Values : Edit(w, k, v)
    \/ \E u \in Devices, k \in Keys, v \in Values : Turn(u, k, v)

Loop ==
    \/ \E w \in Writers :
         \/ StartWrite(w) \/ DropWrite(w) \/ Land(w) \/ ConfirmWrite(w) \/ Reread(w)
         \/ Repaint(w) \/ RefuseWrite(w) \/ TimeOutWrite(w) \/ OrphanLands(w)
         \/ EndRestartingWrite(w)
    \/ \E u \in Devices :
         \/ FinishTeardown(u) \/ ReadPage(u) \/ QueuePage(u)
         \/ ReadPoll(u) \/ EndPoll(u) \/ Deliver(u)

Next == User \/ Loop \/ RunUI

Spec == Init /\ [][Next]_vars

-----------------------------------------------------------------------------
(* What holds whatever the user and the devices do                           *)

Holds(w, k) == write[w].pc \in Holding /\ k \in write[w].keys

\* One of these calls clears k.
Cleared(calls, k) == \E i \in DOMAIN calls : calls[i].op = "clear" /\ k \in calls[i].keys

\* Every control that is held is released by something that is on its way: a write that
\* owns it and ends with a call that clears it, or that call.  No order of failures,
\* repaints and overlapping writes leaves a control disabled for good.
PendingIsReleased ==
    \A k \in page.pending :
        \/ \E w \in Writers : Holds(w, k)
        \/ Cleared(ui, k)

(* What holds for a patient user                                               *)

\* The call that marks the controls of w has run.
Marked(w) ==
    write[w].pc = "writing" /\ \A i \in DOMAIN ui : ui[i].op = "pending" => ui[i].by # w

\* While a write is in flight its whole group is held and shows what was asked for: no
\* refresh, report, confirmation or release of another write gets in between.  Putting the
\* page up again forgets what is held, so that it is said of the page the user stays on.
WritesAreHeld ==
    moves = 0 =>
        \A w \in Writers : Marked(w) /\ page.of = write[w].dev =>
            /\ write[w].keys \subseteq page.pending
            /\ page.val[write[w].key] = write[w].value

\* Nothing is queued and no coroutine is about to fill or empty the page.
PageAtRest ==
    ui = <<>> /\ closing = {} /\ \A u \in Devices : show[u].pc = "none"

AllAtRest ==
    /\ PageAtRest
    /\ \A w \in Writers : write[w].pc = "idle"
    /\ \A u \in Devices : poll[u] = None /\ told[u] = <<>>

PageIsTrue == page.of # None => page.val = held[page.of]

\* With one device that locks and that nobody touches: once every write has been answered and
\* everything read has been shown, the page shows what the device holds, without waiting for
\* the next refresh, whatever was refused and in whatever order refreshes and writes crossed.
TruthAtRest == turns = 0 /\ AllAtRest => PageIsTrue

(* What the repository says and the code does not do                         *)

\* _device is "the open device the page is currently showing": what the user changes on
\* the page of a device is written to that device.
WritesReachTheirPage ==
    \A w \in Writers : write[w].pc \in {"writing", "landed"} => write[w].dev = write[w].origin

(* Fairness: what the loop can run it runs, every await ends, the GUI thread drains its  *)
(* queue.  Nothing is assumed of the user.                                               *)

Fairness ==
    /\ WF_vars(RunUI)
    /\ \A w \in Writers :
         /\ WF_vars(StartWrite(w)) /\ WF_vars(DropWrite(w))
         /\ WF_vars(RefuseWrite(w) \/ TimeOutWrite(w) \/ ConfirmWrite(w))
         /\ WF_vars(Reread(w)) /\ WF_vars(Repaint(w))
         /\ WF_vars(OrphanLands(w)) /\ WF_vars(EndRestartingWrite(w))
    /\ \A u \in Devices :
         /\ WF_vars(FinishTeardown(u)) /\ WF_vars(ReadPage(u)) /\ WF_vars(QueuePage(u))
         /\ WF_vars(ReadPoll(u)) /\ WF_vars(EndPoll(u)) /\ WF_vars(Deliver(u))

FairSpec == Spec /\ Fairness

\* A control that is held comes back, whatever became of the write.
PendingEnds == \A k \in Keys : k \in page.pending ~> k \notin page.pending

\* With one device, the page of an open device left alone ends up showing what it holds, whatever
\* was refused, timed out, landed late or was changed on the device meanwhile.
PageSettles == <>[](page.of \in open => PageIsTrue)
=============================================================================
