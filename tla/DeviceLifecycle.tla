-------------------------- MODULE DeviceLifecycle --------------------------
(***************************************************************************)
(* The controller of the desktop shell (shell/app.py): which device it     *)
(* holds open, which ones are opening or restarting, and how a sweep of    *)
(* the buses closes handles that went bad.                                 *)
(*                                                                         *)
(* Two threads act.  The GUI thread presses buttons, changes the selection *)
(* and repaints; it never touches a device, it only appends coroutines to  *)
(* the asyncio loop (bridge.spawn).  The asyncio thread runs coroutines;   *)
(* what lies between two awaits is one step, so an action below is one     *)
(* such segment, up to and including the next await or the return.         *)
(***************************************************************************)
EXTENDS Naturals, Sequences, FiniteSets

CONSTANTS
    Devices,    \* uids the buses can hold
    Slots,      \* Device objects (one per run of _connect) that can exist at once
    Sweeps,     \* runs of enumerate() outside a restart wait that can overlap
    Rows,       \* what enumeration can say of a device: [path, ready]
    Movable,    \* the devices whose row can change while the program runs
    Rebooters,  \* the devices with a setting that restarts them
    MaxMoves,   \* bound: changes on the buses
    MaxSpawned, \* bound: coroutines spawned by the GUI and not started
    Patient,    \* TRUE: the user presses again only once the page has caught up
    StaleOpens, \* TRUE: a handshake can succeed on a node the device has left
    Gone,       \* not in the enumeration
    NoPath,     \* the path of a Bluetooth device, and of any row read from the cache
    None

ASSUME DomainsAssumption ==
    /\ None \notin Devices \cup Slots \cup Sweeps
    /\ Sweeps \cap Devices = {}
    /\ Gone \notin Rows
    /\ \A r \in Rows : r.ready \in BOOLEAN
    /\ Movable \subseteq Devices /\ Rebooters \subseteq Devices
    /\ MaxMoves \in Nat /\ MaxSpawned \in Nat
    /\ Patient \in BOOLEAN /\ StaleOpens \in BOOLEAN

\* load_cache keeps no path, and State.UNKNOWN is not ready.
CachedRow == [path |-> NoPath, ready |-> FALSE]

\* Every run of enumerate(): on its own, or inside the restart wait of a device.
Enumerations == Sweeps \cup Devices

VARIABLES
    bus,          \* the hardware: uid -> row or Gone
    moves,        \* how often it changed
    due,          \* a sweep has been asked for (startup, udev or BlueZ) and not begun
    watching,     \* _hotplug/_bluetooth: subscribed
    devices,      \* _devices, by uid
    sweep,        \* the coroutines running enumerate()
    obj,          \* the Device objects with the _connect that made them
    open,         \* _open
    loops,        \* _polls and _watches: the two are written and popped together
    running,      \* the objects whose poll and watch tasks have not been cancelled
    busy,         \* _busy_uids
    reconnecting, \* _reconnecting_uids
    reboot,       \* where _write_rebooting stands, per uid
    selected,     \* _selected
    spawned,      \* coroutines handed to the asyncio loop and not started
    refresh,      \* a _refresh_connection_ui waits in the GUI thread's queue
    button        \* what set_connection last painted

bus_vars  == <<bus, moves>>
scan_vars == <<due, watching, devices, sweep>>
handles   == <<open, loops, running>>
ui_vars   == <<selected, button>>
vars == <<bus_vars, scan_vars, handles, obj, busy, reconnecting, reboot, spawned,
          refresh, ui_vars>>

IdleSweep == [pc |-> "idle", found |-> [u \in Devices |-> Gone], todo |-> {}]

NoObj == [uid |-> None, path |-> NoPath, task |-> "none", chan |-> "none", by |-> None]

RebootPhases ==
    {"none", "writing", "closing", "leaving", "lingering", "gone", "missing"}

SweepRecord == [pc : {"idle", "swept", "saving", "dropping"},
                found : [Devices -> Rows \cup {Gone}],
                todo : SUBSET Devices]

ObjRecord == [uid : Devices \cup {None},
              path : {r.path : r \in Rows} \cup {NoPath},
              task : {"none", "opening", "showing"},
              chan : {"none", "open", "closing", "closed"},
              by : Enumerations \cup {None}]

TypeOK ==
    /\ bus \in [Devices -> Rows \cup {Gone}]
    /\ moves \in 0..MaxMoves
    /\ due \in BOOLEAN /\ watching \in BOOLEAN
    /\ devices \in [Devices -> Rows \cup {CachedRow, Gone}]
    /\ sweep \in [Enumerations -> SweepRecord]
    /\ obj \in [Slots -> ObjRecord]
    /\ open \in [Devices -> Slots \cup {None}]
    /\ loops \in [Devices -> Slots \cup {None}]
    /\ running \subseteq Slots
    /\ busy \subseteq Devices /\ reconnecting \subseteq Devices
    /\ reboot \in [Devices -> RebootPhases]
    /\ selected \in Devices \cup {None}
    /\ spawned \in Seq([op : {"connect", "teardown"}, uid : Devices])
    /\ refresh \in BOOLEAN
    /\ button \in [connected : BOOLEAN, enabled : BOOLEAN]

-----------------------------------------------------------------------------
(* Reading the state                                                         *)

Connecting(u) == \E d \in Slots : obj[d].uid = u /\ obj[d].task = "opening"

\* A slot no coroutine, table or task refers to any more.
Unused(d) == obj[d].task = "none" /\ obj[d].chan \in {"none", "closed"} /\ d \notin running

\* Faulty: a device that came back at another node is taken for the one that was open.
StaleIfGone(u) == open[u] # None /\ devices[u] = Gone

\* _drop_stale: "uid not in present or present[uid].path != device.info.path".
Stale(u) ==
    /\ open[u] # None
    /\ devices[u] = Gone \/ devices[u].path # obj[open[u]].path

\* _is_back: enumerated and ready.
IsBack(u) == devices[u] # Gone /\ devices[u].ready

\* What _refresh_connection_ui paints for the page of s.
Painted(s, opened, opening, restarting) ==
    [connected |-> s # None /\ opened[s] # None,
     enabled   |-> s \notin opening \cup restarting]

\* The slot after its channel was closed: free unless something still runs for it.
Closed(o, d) ==
    [o EXCEPT ![d] = IF @.task = "none" /\ d \notin running THEN NoObj
                     ELSE [@ EXCEPT !.chan = "closed", !.by = None]]

\* Faulty: the handle leaves _open only after the disconnect.
ForgetTasks(U) ==
    /\ loops' = [u \in Devices |-> IF u \in U THEN None ELSE loops[u]]
    /\ running' = running \ {loops[u] : u \in U}
    /\ UNCHANGED open

\* Faulty: the tasks are cancelled and stay registered.
ForgetButKeepTasks(U) ==
    /\ open' = [u \in Devices |-> IF u \in U THEN None ELSE open[u]]
    /\ running' = running \ {loops[u] : u \in U}
    /\ UNCHANGED loops

\* _teardown(u) for u \in U, up to the disconnect: everything keyed by the uid goes.
\* Its two discards, of the busy and the restarting uids, are on the callers' lines.
Forget(U) ==
    /\ open' = [u \in Devices |-> IF u \in U THEN None ELSE open[u]]
    /\ loops' = [u \in Devices |-> IF u \in U THEN None ELSE loops[u]]
    /\ running' = running \ {loops[u] : u \in U}

\* _busy(uid, opening): mark it as opening or no longer opening, and repaint.  Faulty: a
\* uid is never marked, and a uid is never released.
MarkNothing(u, opening) == busy' = busy \ {u} /\ refresh' = TRUE
MarkForever(u, opening) == busy' = busy \cup {u} /\ refresh' = TRUE

MarkBusy(u, opening) ==
    /\ busy' = IF opening THEN busy \cup {u} ELSE busy \ {u}
    /\ refresh' = TRUE

\* Faulty: the whole row is kept where its path belongs.
OpeningOnRow(u) ==
    [uid |-> u, path |-> devices[u], task |-> "opening", chan |-> "none", by |-> None]

\* A Device object made by _connect(u), which then waits for the module and the handshake.
Opening(u) ==
    [uid |-> u, path |-> devices[u].path, task |-> "opening", chan |-> "none", by |-> None]

Init ==
    /\ bus \in [Devices -> Rows \cup {Gone}]
    /\ moves = 0
    /\ due = TRUE /\ watching = FALSE
    /\ devices \in [Devices -> {CachedRow, Gone}]
    /\ sweep = [s \in Enumerations |-> IdleSweep]
    /\ obj = [d \in Slots |-> NoObj]
    /\ open = [u \in Devices |-> None] /\ loops = [u \in Devices |-> None]
    /\ running = {} /\ busy = {} /\ reconnecting = {}
    /\ reboot = [u \in Devices |-> "none"]
    /\ selected = None
    /\ spawned = <<>>
    /\ refresh = FALSE
    /\ button = [connected |-> FALSE, enabled |-> TRUE]

-----------------------------------------------------------------------------
(* The hardware and the user                                                 *)

\* A device is plugged in, pulled, or comes back at another node, or a headset is
\* switched on or off.  Once subscribed, the settle timer ends in one more sweep.
Move(u) ==
    /\ u \in Movable /\ moves < MaxMoves
    /\ \E r \in (Rows \cup {Gone}) \ {bus[u]} : bus' = [bus EXCEPT ![u] = r]
    /\ moves' = moves + 1
    /\ due' = (due \/ watching)
    /\ UNCHANGED <<watching, devices, sweep, handles, obj, busy, reconnecting, reboot,
                   spawned, refresh, ui_vars>>

\* select: opens and closes nothing, repaints the button for the device now shown.  For
\* one that is open it also re-reads the page, which ends in one repaint more.
Select(u) ==
    /\ devices[u] # Gone /\ selected # u
    /\ selected' = u
    /\ button' = Painted(u, open, busy, reconnecting)
    /\ UNCHANGED <<bus_vars, scan_vars, handles, obj, busy, reconnecting, reboot, spawned,
                   refresh>>

\* What a patient user waits for: the last press has started and been painted.
CaughtUp == ~refresh /\ spawned = <<>>

\* DevicePage._on_connect sends the press one way or the other by what is painted.
Press(op) ==
    /\ selected # None /\ button.enabled
    /\ button.connected = (op = "teardown")
    /\ Patient => CaughtUp
    /\ Len(spawned) < MaxSpawned
    /\ spawned' = Append(spawned, [op |-> op, uid |-> selected])
    /\ UNCHANGED <<bus_vars, scan_vars, handles, obj, busy, reconnecting, reboot, refresh,
                   ui_vars>>

PressConnect == selected # None /\ open[selected] = None /\ Press("connect")

PressDisconnect == Press("teardown")

\* One queued repaint runs.  Several may be queued: the last clears the flag.
RefreshUI ==
    /\ refresh
    /\ refresh' \in BOOLEAN
    /\ button' = Painted(selected, open, busy, reconnecting)
    /\ UNCHANGED <<bus_vars, scan_vars, handles, obj, busy, reconnecting, reboot, spawned,
                   selected>>

-----------------------------------------------------------------------------
(* _connect                                                                  *)

\* Its first segment: look the row up, mark the uid busy, go and load the module.
StartConnect(d) ==
    /\ spawned # <<>> /\ Head(spawned).op = "connect"
    /\ LET u == Head(spawned).uid IN
       /\ devices[u] # Gone /\ open[u] = None
       /\ Unused(d)
       /\ obj' = [obj EXCEPT ![d] = Opening(u)]
       /\ MarkBusy(u, TRUE)
    /\ spawned' = Tail(spawned)
    /\ UNCHANGED <<bus_vars, scan_vars, handles, reconnecting, reboot, ui_vars>>

\* The early return: the row has gone, or the device is open already.
RefuseConnect ==
    /\ spawned # <<>> /\ Head(spawned).op = "connect"
    /\ LET u == Head(spawned).uid IN devices[u] = Gone \/ open[u] # None
    /\ spawned' = Tail(spawned)
    /\ UNCHANGED <<bus_vars, scan_vars, handles, obj, busy, reconnecting, reboot, refresh,
                   ui_vars>>

\* Device.connect raises or times out: _fail.  The object is dropped, nothing is open.
ConnectFails(d) ==
    /\ obj[d].task = "opening"
    /\ obj' = [obj EXCEPT ![d] = NoObj]
    /\ MarkBusy(obj[d].uid, FALSE)
    /\ UNCHANGED <<bus_vars, scan_vars, handles, reconnecting, reboot, spawned, ui_vars>>

\* The hardware answers a handshake on the node d was made for; a cached row has none, and
\* the module finds its own.  An old descriptor may still open "and reports success".
Answers(d) ==
    LET r == bus[obj[d].uid] IN
    StaleOpens \/ (r # Gone /\ r.ready /\ obj[d].path \in {r.path, NoPath})

\* Device.connect returns.  For the device on screen the values are read next, which
\* awaits; for any other the poll and watch tasks start in the same segment.
ConnectSucceeds(d) ==
    /\ obj[d].task = "opening" /\ Answers(d)
    /\ LET u == obj[d].uid IN
       /\ MarkBusy(u, FALSE)
       /\ open' = [open EXCEPT ![u] = d]
       /\ \/ /\ selected = u
             /\ obj' = [obj EXCEPT ![d].task = "showing", ![d].chan = "open"]
             /\ UNCHANGED <<loops, running>>
          \/ /\ selected # u
             /\ obj' = [obj EXCEPT ![d].task = "none", ![d].chan = "open"]
             /\ loops' = [loops EXCEPT ![u] = d]
             /\ running' = running \cup {d}
    /\ UNCHANGED <<bus_vars, scan_vars, reconnecting, reboot, spawned, ui_vars>>

\* _show_connected is back: the page's paint is queued, then the tasks are registered,
\* whatever happened to the device during the read.
FinishConnect(d) ==
    /\ obj[d].task = "showing"
    /\ obj' = [obj EXCEPT ![d].task = "none"]
    /\ loops' = [loops EXCEPT ![obj[d].uid] = d]
    /\ running' = running \cup {d}
    /\ refresh' = TRUE
    /\ UNCHANGED <<bus_vars, scan_vars, open, busy, reconnecting, reboot, spawned, ui_vars>>

-----------------------------------------------------------------------------
(* _teardown from the Disconnect button                                      *)

\* With a handle it awaits the disconnect; without one it runs to the end at once.
StartTeardown ==
    /\ spawned # <<>> /\ Head(spawned).op = "teardown"
    /\ LET u == Head(spawned).uid IN
       /\ Forget({u})
       /\ busy' = busy \ {u} /\ reconnecting' = reconnecting \ {u}
       /\ \/ /\ open[u] # None
             /\ obj' = [obj EXCEPT ![open[u]].chan = "closing", ![open[u]].by = None]
             /\ UNCHANGED refresh
          \/ /\ open[u] = None
             /\ refresh' = TRUE
             /\ UNCHANGED obj
    /\ spawned' = Tail(spawned)
    /\ UNCHANGED <<bus_vars, scan_vars, reboot, ui_vars>>

\* Faulty: a teardown that awaited a disconnect does not repaint.
CloseUnpainted(d) ==
    /\ obj[d].chan = "closing" /\ obj[d].by = None
    /\ obj' = Closed(obj, d)
    /\ UNCHANGED <<bus_vars, scan_vars, handles, busy, reconnecting, reboot, spawned,
                   refresh, ui_vars>>

\* The disconnect returned, raised or ran out of OP_TIMEOUT: dropped all the same.
FinishTeardown(d) ==
    /\ obj[d].chan = "closing" /\ obj[d].by = None
    /\ obj' = Closed(obj, d)
    /\ refresh' = TRUE
    /\ UNCHANGED <<bus_vars, scan_vars, handles, busy, reconnecting, reboot, spawned,
                   ui_vars>>

-----------------------------------------------------------------------------
(* enumerate and _drop_stale                                                 *)

\* The thread reads the buses.  The answer reaches the loop at some later time.
ReadBus(s) ==
    /\ sweep[s].pc = "idle"
    /\ sweep' = [sweep EXCEPT ![s] = [pc |-> "swept", found |-> bus, todo |-> {}]]
    /\ UNCHANGED <<bus_vars, watching, devices, handles, obj, busy, reconnecting, reboot,
                   spawned, refresh, ui_vars>>

\* Faulty: only a subscription starts a sweep.
SweepOnceWatching(s) == s \in Sweeps /\ due /\ watching /\ due' = FALSE /\ ReadBus(s)

HotplugSweep(s) == s \in Sweeps /\ due /\ due' = FALSE /\ ReadBus(s)

Rescan(s) == s \in Sweeps /\ UNCHANGED due /\ ReadBus(s)

\* The answer replaces _devices, and a thread goes to write the cache.
Apply(s) ==
    /\ sweep[s].pc = "swept"
    /\ devices' = sweep[s].found
    /\ sweep' = [sweep EXCEPT ![s] = [IdleSweep EXCEPT !.pc = "saving"]]
    /\ UNCHANGED <<bus_vars, due, watching, handles, obj, busy, reconnecting, reboot,
                   spawned, refresh, ui_vars>>

\* Closing what is in T, one after the other: uids without a handle take no time, and
\* the first that has one awaits its disconnect.
DropNext(s, T, o) ==
    \E u \in T, K \in SUBSET {v \in T : open[v] = None} :
      /\ open[u] # None
      /\ Forget(K \cup {u})
      /\ busy' = busy \ (K \cup {u}) /\ reconnecting' = reconnecting \ (K \cup {u})
      /\ obj' = [o EXCEPT ![open[u]].chan = "closing", ![open[u]].by = s]
      /\ sweep' = [sweep EXCEPT ![s] = [IdleSweep EXCEPT !.pc = "dropping",
                                                         !.todo = T \ (K \cup {u})]]
      /\ UNCHANGED <<watching, reboot>>

\* Nothing in T has a handle: enumerate ends, having subscribed to hotplug.
DropLast(s, T) ==
    /\ \A u \in T : open[u] = None
    /\ Forget(T)
    /\ sweep' = [sweep EXCEPT ![s] = IdleSweep]
    /\ watching' = TRUE

\* The end of a sweep of its own.
EndSweep(s, T, o) ==
    /\ s \in Sweeps
    /\ DropLast(s, T)
    /\ busy' = busy \ T /\ reconnecting' = reconnecting \ T
    /\ obj' = o
    /\ UNCHANGED reboot

\* The end of a sweep of the restart wait of u: look, and wait on or reconnect.
EndRebootSweep(u, T, o) ==
    /\ u \in Devices
    /\ DropLast(u, T)
    /\ \/ /\ reboot[u] \in {"leaving", "lingering"}
          /\ reboot' = [reboot EXCEPT ![u] = IF IsBack(u) THEN "lingering" ELSE "gone"]
          /\ obj' = o
          /\ busy' = busy \ T /\ reconnecting' = reconnecting \ T
       \/ /\ reboot[u] \in {"gone", "missing"} /\ ~IsBack(u)
          /\ reboot' = [reboot EXCEPT ![u] = "missing"]
          /\ obj' = o
          /\ busy' = busy \ T /\ reconnecting' = reconnecting \ T
       \/ /\ reboot[u] \in {"gone", "missing"} /\ IsBack(u)
          /\ reboot' = [reboot EXCEPT ![u] = "none"]
          /\ reconnecting' = (reconnecting \ T) \ {u}
          /\ IF selected = u /\ open[u] = None
             THEN \E d \in Slots : /\ Unused(d)
                                   /\ obj' = [o EXCEPT ![d] = Opening(u)]
                                   /\ busy' = (busy \ T) \cup {u}
             ELSE obj' = o /\ busy' = busy \ T

Continue(s, T, o) == DropNext(s, T, o) \/ EndSweep(s, T, o) \/ EndRebootSweep(s, T, o)

\* The cache is written; _drop_stale picks what is stale now and closes the first.
SaveDone(s) ==
    /\ sweep[s].pc = "saving"
    /\ Continue(s, {u \in Devices : Stale(u)}, obj)
    /\ refresh' = (refresh \/ reboot' # reboot)
    /\ UNCHANGED <<bus_vars, due, devices, spawned, ui_vars>>

\* The disconnect that a sweep awaits is over.
DropDone(d) ==
    LET s == obj[d].by IN
    /\ obj[d].chan = "closing" /\ s # None /\ sweep[s].pc = "dropping"
    /\ Continue(s, sweep[s].todo, Closed(obj, d))
    /\ refresh' = TRUE
    /\ UNCHANGED <<bus_vars, due, devices, spawned, ui_vars>>

\* Two sweeps write the same devices.json.tmp, and the rename of one of them finds it
\* moved away: the exception ends that enumerate before it drops anything.
SaveFails(s) ==
    /\ sweep[s].pc = "saving"
    /\ \E t \in Enumerations \ {s} : sweep[t].pc = "saving"
    /\ sweep' = [sweep EXCEPT ![s] = IdleSweep]
    /\ IF s \in Devices
       THEN /\ reboot' = [reboot EXCEPT ![s] = "none"]
            /\ reconnecting' = reconnecting \ {s}
            /\ refresh' = TRUE
       ELSE UNCHANGED <<reboot, reconnecting, refresh>>
    /\ UNCHANGED <<bus_vars, due, watching, devices, handles, obj, busy, spawned, ui_vars>>

-----------------------------------------------------------------------------
(* _write_rebooting, _reconnect_after_reboot, _await_return                  *)

\* A setting that restarts the device is written from its page.
WriteRebooting(u) ==
    /\ u \in Rebooters /\ selected = u /\ open[u] # None
    /\ reboot[u] = "none"
    /\ reboot' = [reboot EXCEPT ![u] = "writing"]
    /\ UNCHANGED <<bus_vars, scan_vars, handles, obj, busy, reconnecting, spawned, refresh,
                   ui_vars>>

\* The write is over, whatever it said.  The uid enters the restarting set and the
\* teardown of the same segment takes it out again.
LinkDrops(u) ==
    /\ reboot[u] = "writing"
    /\ Forget({u})
    /\ busy' = busy \ {u}
    /\ reconnecting' = (reconnecting \cup {u}) \ {u}
    /\ refresh' = TRUE
    /\ \/ /\ open[u] # None
          /\ obj' = [obj EXCEPT ![open[u]].chan = "closing", ![open[u]].by = u]
          /\ reboot' = [reboot EXCEPT ![u] = "closing"]
       \/ /\ open[u] = None
          /\ reboot' = [reboot EXCEPT ![u] = "leaving"]
          /\ UNCHANGED obj
    /\ UNCHANGED <<bus_vars, scan_vars, spawned, ui_vars>>

RebootClosed(d) ==
    LET u == obj[d].by IN
    /\ obj[d].chan = "closing" /\ u \in Devices /\ reboot[u] = "closing"
    /\ obj' = Closed(obj, d)
    /\ reboot' = [reboot EXCEPT ![u] = "leaving"]
    /\ refresh' = TRUE
    /\ UNCHANGED <<bus_vars, scan_vars, handles, busy, reconnecting, spawned, ui_vars>>

RebootSweep(u) ==
    /\ reboot[u] \in {"leaving", "lingering", "gone", "missing"}
    /\ UNCHANGED due
    /\ ReadBus(u)

\* REBOOT_DROP_TIMEOUT: it never left the bus, take it as present if it still is.
DropTimeout(u) ==
    /\ reboot[u] = "lingering" /\ sweep[u].pc = "idle"
    /\ reboot' = [reboot EXCEPT ![u] = "none"]
    /\ reconnecting' = reconnecting \ {u}
    /\ refresh' = TRUE
    /\ IF IsBack(u) /\ selected = u /\ open[u] = None
       THEN /\ \E d \in Slots : Unused(d) /\ obj' = [obj EXCEPT ![d] = Opening(u)]
            /\ busy' = busy \cup {u}
       ELSE UNCHANGED <<obj, busy>>
    /\ UNCHANGED <<bus_vars, scan_vars, handles, spawned, ui_vars>>

\* REBOOT_RECONNECT_TIMEOUT: it has not come back yet.
ReturnTimeout(u) ==
    /\ reboot[u] = "missing" /\ sweep[u].pc = "idle"
    /\ reboot' = [reboot EXCEPT ![u] = "none"]
    /\ reconnecting' = reconnecting \ {u}
    /\ refresh' = TRUE
    /\ UNCHANGED <<bus_vars, scan_vars, handles, obj, busy, spawned, ui_vars>>

-----------------------------------------------------------------------------
User ==
    \/ \E u \in Devices : Move(u) \/ Select(u) \/ WriteRebooting(u)
    \/ PressConnect \/ PressDisconnect
    \/ \E s \in Sweeps : Rescan(s)

\* One slot is as good as another: an object takes any that is unused.
Loop ==
    \/ RefuseConnect \/ StartTeardown
    \/ \E d \in Slots : \/ StartConnect(d) \/ ConnectFails(d) \/ ConnectSucceeds(d)
                        \/ FinishConnect(d) \/ FinishTeardown(d)
                        \/ DropDone(d) \/ RebootClosed(d)
    \/ \E s \in Sweeps : HotplugSweep(s)
    \/ \E s \in Enumerations : Apply(s) \/ SaveDone(s) \/ SaveFails(s)
    \/ \E u \in Devices : \/ LinkDrops(u) \/ RebootSweep(u)
                          \/ DropTimeout(u) \/ ReturnTimeout(u)

Next == User \/ Loop \/ RefreshUI

Spec == Init /\ [][Next]_vars
-----------------------------------------------------------------------------
(* What holds whatever the user, the buses and the devices do                *)

\* A handle the controller believes in is a channel that is open, of that device, whose
\* handshake is over: no teardown leaves a closed one behind in _open.
OpenIsLive ==
    \A u \in Devices : open[u] # None =>
        LET o == obj[open[u]] IN o.uid = u /\ o.chan = "open" /\ o.task # "opening"

\* A uid is marked as opening only while a _connect of it is under way: no order of
\* failures, teardowns and sweeps leaves a Connect button disabled for good.
BusyIsOpening == \A u \in busy : Connecting(u)

\* An open device whose page has been read is polled and watched: without these tasks
\* nothing the device does reaches the screen.
OpenIsPolled ==
    \A u \in Devices : open[u] # None /\ obj[open[u]].task = "none" => open[u] \in running

\* The registered tasks of a uid run and are of a device object of that uid, and tasks
\* run only for objects whose _connect is over: a teardown cancels what it should.
TasksAreTheirDevices ==
    /\ \A u \in Devices : loops[u] # None =>
           loops[u] \in running /\ obj[loops[u]].uid = u
    /\ \A d \in running : obj[d].task = "none"

\* No coroutine of u is between two segments.
AtRest(u) ==
    /\ \A d \in Slots : obj[d].uid = u => obj[d].task = "none" /\ obj[d].chan # "closing"
    /\ reboot[u] \in {"none", "writing"}

\* Once the GUI queue is empty and nothing happens to the device on screen, its button
\* says what is true: every change of _open and the busy sets ends in a repaint.
ButtonIsTruthful ==
    ~refresh /\ selected # None /\ AtRest(selected) =>
        button = Painted(selected, open, busy, reconnecting)

(* What holds for a patient user, one device moving at a time and no restarts *)

\* A device is marked as opening for as long as a _connect of it runs.
OpeningIsBusy == \A u \in Devices : Connecting(u) => u \in busy

\* Every open channel is in _open, where a teardown finds it.
NoLeakedChannel ==
    \A d \in Slots : obj[d].chan = "open" => open[obj[d].uid] = d

\* A device is opened by one _connect at a time.
OneConnectAtATime ==
    \A c, d \in Slots :
        obj[c].task = "opening" /\ obj[d].task = "opening" /\ obj[c].uid = obj[d].uid
        => c = d

(* What the repository says and the code does not do                         *)

\* _init_: the set says "which devices are opening or restarting", and set_connection
\* paints "Restarting" and disables the button for a uid in it.
RestartingIsMarked ==
    \A u \in Devices :
        reboot[u] \in {"closing", "leaving", "lingering", "gone", "missing"} =>
            u \in reconnecting

\* "every task and timer is cancelled on teardown": none runs for a channel that is closed.
TasksEndWithTheirDevice == \A d \in running : obj[d].chan = "open"

-----------------------------------------------------------------------------
(* Fairness: the loop runs what is ready, threads and timeouts end, and the GUI     *)
(* thread drains its queue.  Nothing is assumed of the user or the hardware.        *)

Fairness ==
    /\ WF_vars(RefuseConnect) /\ WF_vars(StartTeardown)
    /\ WF_vars(\E d \in Slots : StartConnect(d))
    /\ \A d \in Slots : /\ WF_vars(ConnectFails(d) \/ ConnectSucceeds(d))
                        /\ WF_vars(FinishConnect(d))
                        /\ WF_vars(FinishTeardown(d) \/ DropDone(d) \/ RebootClosed(d))
    /\ SF_vars(\E s \in Sweeps : HotplugSweep(s))
    /\ \A s \in Enumerations : WF_vars(Apply(s)) /\ WF_vars(SaveDone(s))
    /\ \A u \in Devices : /\ WF_vars(LinkDrops(u)) /\ WF_vars(RebootSweep(u))
                          /\ SF_vars(DropTimeout(u)) /\ SF_vars(ReturnTimeout(u))
    /\ WF_vars(RefreshUI /\ ~refresh')

FairSpec == Spec /\ Fairness

\* A Connect button disabled because its device is opening comes back.
BusyEnds == \A u \in Devices : u \in busy ~> u \notin busy

\* A sweep that was asked for is made, and ends.
SweepsEnd ==
    /\ due ~> ~due
    /\ \A s \in Enumerations : sweep[s].pc # "idle" ~> sweep[s].pc = "idle"
=============================================================================
