----------------------- MODULE DeviceLifecycleProofs -----------------------
(***************************************************************************)
(* What DeviceLifecycle keeps for every set of devices, every number of    *)
(* overlapping sweeps, objects and spawned coroutines, and every user; and *)
(* what a sweep leaves behind when nothing disturbs it (SweepHistory).     *)
(***************************************************************************)
EXTENDS SweepHistory, TLAPS

-----------------------------------------------------------------------------
(* The records the actions build are of their types                          *)

LEMMA RecordTypes ==
    /\ IdleSweep \in SweepRecord
    /\ NoObj \in ObjRecord
BY DEF IdleSweep, SweepRecord, NoObj, ObjRecord

\* Changing one field of a sweep or of an object keeps it typed.
LEMMA SweepFields ==
    ASSUME NEW f \in [Devices -> Rows \cup {Gone}], NEW T \in SUBSET Devices
    PROVE  /\ [pc |-> "swept", found |-> f, todo |-> {}] \in SweepRecord
           /\ [IdleSweep EXCEPT !.pc = "saving"] \in SweepRecord
           /\ [IdleSweep EXCEPT !.pc = "dropping", !.todo = T] \in SweepRecord
BY DEF IdleSweep, SweepRecord

LEMMA ClosingType ==
    ASSUME NEW o \in [Slots -> ObjRecord], NEW d \in Slots, NEW b \in Enumerations \cup {None}
    PROVE  [o EXCEPT ![d].chan = "closing", ![d].by = b] \in [Slots -> ObjRecord]
BY DEF ObjRecord

LEMMA ClosedType ==
    ASSUME NEW o \in [Slots -> ObjRecord], NEW d \in Slots
    PROVE  Closed(o, d) \in [Slots -> ObjRecord]
<1>1. [o[d] EXCEPT !.chan = "closed", !.by = None] \in ObjRecord
  BY DEF ObjRecord
<1>2. QED BY <1>1, RecordTypes DEF Closed

LEMMA OpeningType ==
    ASSUME TypeOK, NEW u \in Devices, devices[u] # Gone
    PROVE  Opening(u) \in ObjRecord
<1>1. devices[u].path \in {r.path : r \in Rows} \cup {NoPath}
  BY DEF TypeOK, CachedRow
<1>2. QED BY <1>1 DEF Opening, ObjRecord

LEMMA ForgetType ==
    ASSUME TypeOK, NEW U \in SUBSET Devices, Forget(U)
    PROVE  /\ open' \in [Devices -> Slots \cup {None}]
           /\ loops' \in [Devices -> Slots \cup {None}]
           /\ running' \subseteq Slots
BY DEF TypeOK, Forget

\* What the segments of _drop_stale, and of the restart wait behind it, do to the types.
LEMMA ContinueType ==
    ASSUME TypeOK,
           NEW s \in Enumerations, NEW T \in SUBSET Devices,
           NEW o \in [Slots -> ObjRecord],
           Continue(s, T, o)
    PROVE  /\ open' \in [Devices -> Slots \cup {None}]
           /\ loops' \in [Devices -> Slots \cup {None}]
           /\ running' \subseteq Slots
           /\ busy' \subseteq Devices /\ reconnecting' \subseteq Devices
           /\ watching' \in BOOLEAN
           /\ reboot' \in [Devices -> RebootPhases]
           /\ sweep' \in [Enumerations -> SweepRecord]
           /\ obj' \in [Slots -> ObjRecord]
<1>1. CASE DropNext(s, T, o)
  <2>1. PICK u \in T, K \in SUBSET {v \in T : open[v] = None} :
          /\ open[u] # None
          /\ Forget(K \cup {u})
          /\ busy' = busy \ (K \cup {u}) /\ reconnecting' = reconnecting \ (K \cup {u})
          /\ obj' = [o EXCEPT ![open[u]].chan = "closing", ![open[u]].by = s]
          /\ sweep' = [sweep EXCEPT ![s] = [IdleSweep EXCEPT !.pc = "dropping",
                                                             !.todo = T \ (K \cup {u})]]
          /\ UNCHANGED <<watching, reboot>>
    BY <1>1 DEF DropNext
  <2>2. open[u] \in Slots
    BY <2>1 DEF TypeOK
  <2>3. obj' \in [Slots -> ObjRecord]
    BY <2>1, <2>2, ClosingType
  <2>4. sweep' \in [Enumerations -> SweepRecord]
    BY <2>1, SweepFields DEF TypeOK
  <2>5. QED BY <2>1, <2>3, <2>4, ForgetType DEF TypeOK
<1>2. CASE EndSweep(s, T, o)
  BY <1>2, ForgetType, RecordTypes DEF EndSweep, DropLast, TypeOK
<1>3. CASE EndRebootSweep(s, T, o)
  <2>1. /\ s \in Devices /\ Forget(T)
        /\ sweep' = [sweep EXCEPT ![s] = IdleSweep] /\ watching' = TRUE
    BY <1>3 DEF EndRebootSweep, DropLast
  <2>2. /\ reboot' \in [Devices -> RebootPhases]
        /\ busy' \subseteq Devices /\ reconnecting' \subseteq Devices
    BY <1>3, <2>1 DEF EndRebootSweep, TypeOK, RebootPhases
  <2>3. obj' \in [Slots -> ObjRecord]
    BY <1>3, <2>1, OpeningType DEF EndRebootSweep, IsBack
  <2>4. QED BY <2>1, <2>2, <2>3, ForgetType, RecordTypes DEF TypeOK
<1>4. QED BY <1>1, <1>2, <1>3 DEF Continue

-----------------------------------------------------------------------------
(* Types                                                                     *)

LEMMA TypeInit == Init => TypeOK
<1> SUFFICES ASSUME Init PROVE TypeOK
  OBVIOUS
<1>1. /\ moves \in 0..MaxMoves
      /\ spawned \in Seq([op : {"connect", "teardown"}, uid : Devices])
  BY DomainsAssumption DEF Init, DomainsAssumption
<1>2. /\ sweep \in [Enumerations -> SweepRecord]
      /\ obj \in [Slots -> ObjRecord]
  BY RecordTypes DEF Init
<1>3. devices \in [Devices -> Rows \cup {CachedRow, Gone}]
  BY DEF Init
<1>4. QED BY <1>1, <1>2, <1>3 DEF Init, TypeOK, RebootPhases

LEMMA TypeUser == TypeOK /\ (User \/ RefreshUI) => TypeOK'
<1> SUFFICES ASSUME TypeOK, User \/ RefreshUI PROVE TypeOK'
  OBVIOUS
<1>1. CASE \E u \in Devices : Move(u)
  BY <1>1, DomainsAssumption
     DEF Move, TypeOK, DomainsAssumption, scan_vars, handles, ui_vars
<1>2. CASE \E u \in Devices : Select(u)
  BY <1>2 DEF Select, Painted, TypeOK, bus_vars, scan_vars, handles
<1>3. CASE \E u \in Devices : WriteRebooting(u)
  BY <1>3 DEF WriteRebooting, TypeOK, RebootPhases, bus_vars, scan_vars, handles, ui_vars
<1>4. ASSUME NEW op \in {"connect", "teardown"}, Press(op)
      PROVE  TypeOK'
  <2>1. [op |-> op, uid |-> selected] \in [op : {"connect", "teardown"}, uid : Devices]
    BY <1>4 DEF Press, TypeOK
  <2>2. spawned' \in Seq([op : {"connect", "teardown"}, uid : Devices])
    BY <1>4, <2>1 DEF Press, TypeOK
  <2>3. QED BY <1>4, <2>2 DEF Press, TypeOK, bus_vars, scan_vars, handles, ui_vars
<1>5. CASE PressConnect \/ PressDisconnect
  BY <1>4, <1>5 DEF PressConnect, PressDisconnect
<1>6. ASSUME NEW s \in Sweeps, Rescan(s)
      PROVE  TypeOK'
  BY <1>6, SweepFields
     DEF Rescan, ReadBus, TypeOK, Enumerations, bus_vars, handles, ui_vars
<1>7. CASE RefreshUI
  BY <1>7 DEF RefreshUI, Painted, TypeOK, bus_vars, scan_vars, handles
<1>8. QED BY <1>1, <1>2, <1>3, <1>5, <1>6, <1>7 DEF User

\* Every spawned coroutine is of one of the two kinds, of a device.
LEMMA SpawnedHead ==
    ASSUME TypeOK, spawned # <<>>
    PROVE  /\ Head(spawned) \in [op : {"connect", "teardown"}, uid : Devices]
           /\ Head(spawned).uid \in Devices
           /\ Tail(spawned) \in Seq([op : {"connect", "teardown"}, uid : Devices])
<1> DEFINE S == [op : {"connect", "teardown"}, uid : Devices]
<1>1. spawned \in Seq(S)
  BY DEF TypeOK
<1> HIDE DEF S
<1>2. Head(spawned) \in S /\ Tail(spawned) \in Seq(S)
  BY <1>1
<1>3. QED BY <1>2 DEF S

LEMMA TypeConnect ==
    ASSUME TypeOK, NEW d \in Slots,
           \/ StartConnect(d) \/ ConnectFails(d) \/ ConnectSucceeds(d) \/ FinishConnect(d)
    PROVE  TypeOK'
<1>1. CASE StartConnect(d)
  <2>1. Opening(Head(spawned).uid) \in ObjRecord
    BY <1>1, SpawnedHead, OpeningType DEF StartConnect
  <2>2. /\ obj' \in [Slots -> ObjRecord] /\ busy' \subseteq Devices
        /\ spawned' \in Seq([op : {"connect", "teardown"}, uid : Devices])
    BY <1>1, <2>1, SpawnedHead DEF StartConnect, MarkBusy, TypeOK
  <2>3. QED BY <1>1, <2>2
            DEF StartConnect, MarkBusy, TypeOK, bus_vars, scan_vars, handles, ui_vars
<1>2. CASE ConnectFails(d)
  BY <1>2, RecordTypes DEF ConnectFails, MarkBusy, TypeOK, bus_vars, scan_vars, handles, ui_vars
<1>3. CASE ConnectSucceeds(d) \/ FinishConnect(d)
  <2>1. ASSUME NEW t \in {"none", "showing"}
        PROVE  /\ [obj EXCEPT ![d].task = t, ![d].chan = "open"] \in [Slots -> ObjRecord]
               /\ [obj EXCEPT ![d].task = t] \in [Slots -> ObjRecord]
    <3>1. obj \in [Slots -> ObjRecord]
      BY DEF TypeOK
    <3>2. QED BY <3>1 DEF ObjRecord
  <2>2. obj' \in [Slots -> ObjRecord]
    BY <1>3, <2>1 DEF ConnectSucceeds, FinishConnect
  <2>3. /\ open' \in [Devices -> Slots \cup {None}]
        /\ loops' \in [Devices -> Slots \cup {None}]
    <3> DEFINE u == obj[d].uid
    <3>1. /\ [open EXCEPT ![u] = d] \in [Devices -> Slots \cup {None}]
          /\ [loops EXCEPT ![u] = d] \in [Devices -> Slots \cup {None}]
      BY DEF TypeOK
    <3>2. /\ open' \in {open, [open EXCEPT ![u] = d]}
          /\ loops' \in {loops, [loops EXCEPT ![u] = d]}
      BY <1>3 DEF ConnectSucceeds, FinishConnect
    <3>3. QED BY <3>1, <3>2 DEF TypeOK
  <2>4. QED BY <1>3, <2>2, <2>3
            DEF ConnectSucceeds, MarkBusy, FinishConnect, TypeOK, bus_vars, scan_vars, ui_vars
<1>4. QED BY <1>1, <1>2, <1>3

LEMMA TypeTeardown ==
    ASSUME TypeOK, \/ RefuseConnect \/ StartTeardown
                   \/ \E d \in Slots : FinishTeardown(d)
    PROVE  TypeOK'
<1>1. CASE RefuseConnect
  BY <1>1, SpawnedHead
     DEF RefuseConnect, TypeOK, bus_vars, scan_vars, handles, ui_vars
<1>2. CASE StartTeardown
  <2> DEFINE u == Head(spawned).uid
  <2>1. u \in Devices /\ Forget({u})
    BY <1>2, SpawnedHead DEF StartTeardown
  <2>2. obj' \in [Slots -> ObjRecord] /\ refresh' \in BOOLEAN
    <3>1. /\ obj \in [Slots -> ObjRecord] /\ open[u] \in Slots \cup {None}
          /\ refresh \in BOOLEAN
      BY <2>1 DEF TypeOK
    <3>2. CASE open[u] # None
      <4>1. obj' = [obj EXCEPT ![open[u]].chan = "closing", ![open[u]].by = None]
            /\ UNCHANGED refresh
        BY <1>2, <3>2 DEF StartTeardown
      <4> HIDE DEF u
      <4>2. QED BY <3>1, <3>2, <4>1, ClosingType
    <3>3. CASE open[u] = None
      BY <1>2, <3>1, <3>3 DEF StartTeardown
    <3>4. QED BY <3>2, <3>3
  <2>3. /\ spawned' \in Seq([op : {"connect", "teardown"}, uid : Devices])
        /\ open' \in [Devices -> Slots \cup {None}]
        /\ loops' \in [Devices -> Slots \cup {None}]
        /\ running' \subseteq Slots
    BY <1>2, <2>1, ForgetType, SpawnedHead DEF StartTeardown
  <2>4. busy' \subseteq Devices /\ reconnecting' \subseteq Devices
    BY <1>2 DEF StartTeardown, TypeOK
  <2> HIDE DEF u
  <2>5. QED BY <1>2, <2>2, <2>3, <2>4
            DEF StartTeardown, TypeOK, bus_vars, scan_vars, ui_vars
<1>3. CASE \E d \in Slots : FinishTeardown(d)
  BY <1>3, ClosedType DEF FinishTeardown, TypeOK, bus_vars, scan_vars, handles, ui_vars
<1>4. QED BY <1>1, <1>2, <1>3

LEMMA TypeSweep ==
    ASSUME TypeOK,
           \/ \E s \in Sweeps : HotplugSweep(s)
           \/ \E s \in Enumerations : Apply(s) \/ SaveDone(s) \/ SaveFails(s)
           \/ \E d \in Slots : DropDone(d)
    PROVE  TypeOK'
<1>1. ASSUME NEW s \in Sweeps, HotplugSweep(s)
      PROVE  TypeOK'
  BY <1>1, SweepFields
     DEF HotplugSweep, ReadBus, TypeOK, Enumerations, bus_vars, handles, ui_vars
<1>2. ASSUME NEW s \in Enumerations, Apply(s)
      PROVE  TypeOK'
  <2>1. sweep[s].found \in [Devices -> Rows \cup {CachedRow, Gone}]
    BY <1>2 DEF TypeOK, SweepRecord
  <2>2. [IdleSweep EXCEPT !.pc = "saving"] \in SweepRecord
    BY DEF IdleSweep, SweepRecord
  <2>3. QED BY <1>2, <2>1, <2>2 DEF Apply, TypeOK, bus_vars, handles, ui_vars
<1>3. ASSUME NEW s \in Enumerations, SaveDone(s)
      PROVE  TypeOK'
  <2>1. Continue(s, {u \in Devices : Stale(u)}, obj) /\ refresh' \in BOOLEAN
    BY <1>3 DEF SaveDone, TypeOK
  <2>2. obj \in [Slots -> ObjRecord] /\ {u \in Devices : Stale(u)} \in SUBSET Devices
    BY DEF TypeOK
  <2>3. QED BY <1>3, <2>1, <2>2, ContinueType DEF SaveDone, TypeOK, bus_vars, ui_vars
<1>4. ASSUME NEW s \in Enumerations, SaveFails(s)
      PROVE  TypeOK'
  BY <1>4, RecordTypes
     DEF SaveFails, TypeOK, RebootPhases, bus_vars, handles, ui_vars
<1>5. ASSUME NEW d \in Slots, DropDone(d)
      PROVE  TypeOK'
  <2> DEFINE s == obj[d].by
  <2>1. s \in Enumerations
    BY <1>5 DEF DropDone, TypeOK, ObjRecord
  <2>2. /\ sweep[s].todo \in SUBSET Devices
        /\ Closed(obj, d) \in [Slots -> ObjRecord]
    BY <2>1, ClosedType DEF TypeOK, SweepRecord
  <2>3. Continue(s, sweep[s].todo, Closed(obj, d)) /\ refresh' \in BOOLEAN
    BY <1>5 DEF DropDone
  <2> HIDE DEF s
  <2>4. QED BY <1>5, <2>1, <2>2, <2>3, ContinueType DEF DropDone, TypeOK, bus_vars, ui_vars
<1>6. QED BY <1>1, <1>2, <1>3, <1>4, <1>5

LEMMA TypeReboot ==
    ASSUME TypeOK,
           \/ \E u \in Devices : \/ LinkDrops(u) \/ RebootSweep(u)
                                 \/ DropTimeout(u) \/ ReturnTimeout(u)
           \/ \E d \in Slots : RebootClosed(d)
    PROVE  TypeOK'
<1>1. ASSUME NEW u \in Devices, LinkDrops(u)
      PROVE  TypeOK'
  <2>1. obj' \in [Slots -> ObjRecord] /\ reboot' \in [Devices -> RebootPhases]
    BY <1>1, ClosingType DEF LinkDrops, TypeOK, RebootPhases, Enumerations
  <2>2. Forget({u})
    BY <1>1 DEF LinkDrops
  <2>3. QED BY <1>1, <2>1, <2>2, ForgetType DEF LinkDrops, TypeOK, bus_vars, scan_vars, ui_vars
<1>2. ASSUME NEW u \in Devices, RebootSweep(u)
      PROVE  TypeOK'
  BY <1>2, SweepFields
     DEF RebootSweep, ReadBus, TypeOK, Enumerations, bus_vars, handles, ui_vars
<1>3. ASSUME NEW u \in Devices, DropTimeout(u)
      PROVE  TypeOK'
  <2>1. obj' \in [Slots -> ObjRecord] /\ reboot' \in [Devices -> RebootPhases]
    BY <1>3, OpeningType DEF DropTimeout, IsBack, TypeOK, RebootPhases
  <2>2. QED BY <1>3, <2>1 DEF DropTimeout, TypeOK, bus_vars, scan_vars, handles, ui_vars
<1>4. ASSUME NEW u \in Devices, ReturnTimeout(u)
      PROVE  TypeOK'
  BY <1>4 DEF ReturnTimeout, TypeOK, RebootPhases, bus_vars, scan_vars, handles, ui_vars
<1>5. ASSUME NEW d \in Slots, RebootClosed(d)
      PROVE  TypeOK'
  BY <1>5, ClosedType
     DEF RebootClosed, TypeOK, RebootPhases, bus_vars, scan_vars, handles, ui_vars
<1>6. QED BY <1>1, <1>2, <1>3, <1>4, <1>5

\* The state keeps its types, whatever the devices, the user and the sweeps do.
THEOREM TypeCorrect == Spec => []TypeOK
<1>1. Init => TypeOK
  BY TypeInit
<1>2. TypeOK /\ [Next]_vars => TypeOK'
  <2> SUFFICES ASSUME TypeOK, [Next]_vars PROVE TypeOK'
    OBVIOUS
  <2>1. CASE User \/ RefreshUI
    BY <2>1, TypeUser
  <2>2. CASE Loop
    BY <2>2, TypeConnect, TypeTeardown, TypeSweep, TypeReboot DEF Loop
  <2>3. CASE UNCHANGED vars
    BY <2>3 DEF TypeOK, vars, bus_vars, scan_vars, handles, ui_vars
  <2>4. QED BY <2>1, <2>2, <2>3 DEF Next
<1>3. QED BY <1>1, <1>2, PTL DEF Spec

-----------------------------------------------------------------------------
(* Busy uids                                                                 *)

\* What keeps a busy uid backed by a _connect: no opening object is lost, and a uid only
\* enters the set with one.
LEMMA BusyKept ==
    ASSUME BusyIsOpening,
           \A d \in Slots : obj[d].task = "opening" =>
               obj'[d].task = "opening" /\ obj'[d].uid = obj[d].uid,
           \A u \in busy' : u \in busy \/ Connecting(u)'
    PROVE  BusyIsOpening'
BY DEF BusyIsOpening, Connecting

\* A teardown ends no _connect.
LEMMA ClosedKeepsOpening ==
    ASSUME TypeOK, NEW c \in Slots, NEW d \in Slots, obj[d].task = "opening"
    PROVE  Closed(obj, c)[d].task = "opening" /\ Closed(obj, c)[d].uid = obj[d].uid
BY DEF Closed, TypeOK, ObjRecord

\* The same of the segments of _drop_stale, and of a reconnect that follows one.
LEMMA ContinueBusy ==
    ASSUME TypeOK, BusyIsOpening,
           NEW s \in Enumerations, NEW T \in SUBSET Devices, NEW o \in [Slots -> ObjRecord],
           \A d \in Slots : obj[d].task = "opening" =>
               o[d].task = "opening" /\ o[d].uid = obj[d].uid,
           Continue(s, T, o)
    PROVE  BusyIsOpening'
<1>1. CASE DropNext(s, T, o)
  <2>1. PICK u \in T : /\ open[u] # None
                       /\ obj' = [o EXCEPT ![open[u]].chan = "closing", ![open[u]].by = s]
                       /\ busy' \subseteq busy
    BY <1>1 DEF DropNext
  <2>2. \A d \in Slots : obj'[d].task = o[d].task /\ obj'[d].uid = o[d].uid
    BY <2>1 DEF ObjRecord
  <2>3. QED BY <2>1, <2>2, BusyKept
<1>2. CASE EndSweep(s, T, o)
  BY <1>2, BusyKept DEF EndSweep
<1>3. CASE EndRebootSweep(s, T, o)
  <2>1. CASE obj' = o /\ busy' \subseteq busy
    BY <2>1, BusyKept
  <2>2. ASSUME NEW d \in Slots, Unused(d), s \in Devices,
               obj' = [o EXCEPT ![d] = Opening(s)],
               busy' = (busy \ T) \cup {s}
        PROVE  BusyIsOpening'
    <3>1. obj'[d].uid = s /\ obj'[d].task = "opening"
      BY <2>2 DEF Opening
    <3>2. Connecting(s)'
      BY <3>1 DEF Connecting
    <3>3. obj[d].task # "opening"
      BY <2>2 DEF Unused
    <3>4. QED BY <2>2, <3>2, <3>3, BusyKept
  <2>3. QED BY <1>3, <2>1, <2>2 DEF EndRebootSweep
<1>4. QED BY <1>1, <1>2, <1>3 DEF Continue

\* A uid is in the busy set only while a _connect of it is under way: whatever fails, is
\* torn down, swept or restarted, no Connect button stays disabled for good.
THEOREM BusyCorrect == Spec => []BusyIsOpening
<1>1. Init => BusyIsOpening
  BY DEF Init, BusyIsOpening
<1>2. TypeOK /\ BusyIsOpening /\ [Next]_vars => BusyIsOpening'
  <2> SUFFICES ASSUME TypeOK, BusyIsOpening, [Next]_vars PROVE BusyIsOpening'
    OBVIOUS
  <2>1. CASE UNCHANGED <<obj, busy>>
    BY <2>1 DEF BusyIsOpening, Connecting
  <2>2. ASSUME NEW d \in Slots, StartConnect(d)
        PROVE  BusyIsOpening'
    <3>1. PICK u : /\ obj' = [obj EXCEPT ![d] = Opening(u)] /\ Unused(d)
                   /\ busy' = busy \cup {u}
      BY <2>2 DEF StartConnect, MarkBusy
    <3>2. obj'[d].uid = u /\ obj'[d].task = "opening"
      BY <3>1 DEF Opening, TypeOK
    <3>3. Connecting(u)' /\ obj[d].task # "opening"
      BY <3>1, <3>2 DEF Connecting, Unused
    <3>4. \A c \in Slots : c # d => obj'[c] = obj[c]
      BY <3>1 DEF TypeOK
    <3>5. QED BY <3>1, <3>2, <3>3, <3>4, BusyKept
  <2>3. ASSUME NEW d \in Slots, ConnectFails(d) \/ ConnectSucceeds(d)
        PROVE  BusyIsOpening'
    <3>1. /\ busy' = busy \ {obj[d].uid}
          /\ \A c \in Slots : c # d => obj'[c] = obj[c]
      BY <2>3 DEF ConnectFails, MarkBusy, ConnectSucceeds, TypeOK
    <3>2. QED BY <3>1 DEF BusyIsOpening, Connecting
  <2>4. ASSUME NEW d \in Slots, FinishConnect(d)
        PROVE  BusyIsOpening'
    <3>1. /\ busy' = busy /\ obj[d].task = "showing"
          /\ \A c \in Slots : c # d => obj'[c] = obj[c]
      BY <2>4 DEF FinishConnect, TypeOK
    <3>2. QED BY <3>1, BusyKept
  <2>5. CASE StartTeardown
    <3>1. PICK d : \/ obj' = [obj EXCEPT ![d].chan = "closing", ![d].by = None]
                   \/ obj' = obj
      BY <2>5 DEF StartTeardown
    <3>2. \A c \in Slots : obj'[c].task = obj[c].task /\ obj'[c].uid = obj[c].uid
      BY <3>1 DEF TypeOK, ObjRecord
    <3>3. busy' \subseteq busy
      BY <2>5 DEF StartTeardown
    <3>4. QED BY <3>2, <3>3, BusyKept
  <2>6. ASSUME NEW d \in Slots, FinishTeardown(d) \/ RebootClosed(d)
        PROVE  BusyIsOpening'
    <3>1. busy' = busy /\ obj' = Closed(obj, d)
      BY <2>6 DEF FinishTeardown, RebootClosed
    <3>2. QED BY <3>1, BusyKept, ClosedKeepsOpening
  <2>7. ASSUME NEW s \in Enumerations, SaveDone(s)
        PROVE  BusyIsOpening'
    <3>1. Continue(s, {u \in Devices : Stale(u)}, obj) /\ obj \in [Slots -> ObjRecord]
      BY <2>7 DEF SaveDone, TypeOK
    <3>2. QED BY <3>1, ContinueBusy
  <2>8. ASSUME NEW d \in Slots, DropDone(d)
        PROVE  BusyIsOpening'
    <3> DEFINE s == obj[d].by
    <3>1. s \in Enumerations /\ Continue(s, sweep[s].todo, Closed(obj, d))
      BY <2>8 DEF DropDone, TypeOK, ObjRecord
    <3>2. sweep[s].todo \in SUBSET Devices /\ Closed(obj, d) \in [Slots -> ObjRecord]
      BY <3>1, ClosedType DEF TypeOK, SweepRecord
    <3> HIDE DEF s
    <3>3. QED BY <3>1, <3>2, ClosedKeepsOpening, ContinueBusy
  <2>9. ASSUME NEW u \in Devices, LinkDrops(u)
        PROVE  BusyIsOpening'
    <3>1. /\ busy' \subseteq busy
          /\ \A c \in Slots : obj'[c].task = obj[c].task /\ obj'[c].uid = obj[c].uid
      BY <2>9 DEF LinkDrops, TypeOK, ObjRecord
    <3>2. QED BY <3>1, BusyKept
  <2>10. ASSUME NEW u \in Devices, DropTimeout(u)
         PROVE  BusyIsOpening'
    <3>1. CASE UNCHANGED <<obj, busy>>
      BY <2>1, <3>1
    <3>2. ASSUME NEW d \in Slots, Unused(d), obj' = [obj EXCEPT ![d] = Opening(u)],
                 busy' = busy \cup {u}
          PROVE  BusyIsOpening'
      <4>1. /\ obj'[d].uid = u /\ obj'[d].task = "opening"
            /\ \A c \in Slots : c # d => obj'[c] = obj[c]
        BY <3>2 DEF Opening, TypeOK
      <4>2. Connecting(u)' /\ obj[d].task # "opening"
        BY <3>2, <4>1 DEF Connecting, Unused
      <4>3. QED BY <3>2, <4>1, <4>2, BusyKept
    <3>3. QED BY <2>10, <3>1, <3>2 DEF DropTimeout
  <2>11. CASE User \/ RefreshUI \/ UNCHANGED vars
    <3>1. UNCHANGED <<obj, busy>>
      BY <2>11 DEF User, Move, Select, WriteRebooting, PressConnect, PressDisconnect, Press,
         Rescan, ReadBus, RefreshUI, vars
    <3>2. QED BY <2>1, <3>1
  <2>12. CASE \/ RefuseConnect
              \/ \E s \in Sweeps : HotplugSweep(s)
              \/ \E s \in Enumerations : Apply(s) \/ SaveFails(s)
              \/ \E u \in Devices : RebootSweep(u) \/ ReturnTimeout(u)
    <3>1. UNCHANGED <<obj, busy>>
      BY <2>12 DEF RefuseConnect, HotplugSweep, ReadBus, Apply, SaveFails, RebootSweep,
         ReturnTimeout
    <3>2. QED BY <2>1, <3>1
  <2>13. QED
    BY <2>2, <2>3, <2>4, <2>5, <2>6, <2>7, <2>8, <2>9, <2>10, <2>11, <2>12 DEF Next, Loop
<1>3. QED BY <1>1, <1>2, TypeCorrect, PTL DEF Spec

-----------------------------------------------------------------------------
(* Handles and tasks                                                         *)

\* None of the three is inductive alone: a teardown cancels what it finds in loops, so
\* what it may cancel is known only with the uids of the objects in both tables.
Handles == OpenIsLive /\ OpenIsPolled /\ TasksAreTheirDevices

\* A step that forgets some uids keeps the rest if it leaves their objects alone.
LEMMA HandlesKept ==
    ASSUME TypeOK, Handles, NEW U \in SUBSET Devices, Forget(U),
           \A v \in Devices \ U : open[v] # None => obj'[open[v]] = obj[open[v]],
           \A d \in running : obj'[d].task = "none" /\ obj'[d].uid = obj[d].uid
    PROVE  Handles'
<1>1. \A v \in Devices : /\ v \in U => open'[v] = None /\ loops'[v] = None
                         /\ v \notin U => open'[v] = open[v] /\ loops'[v] = loops[v]
  BY DEF Forget
<1>2. running' = running \ {loops[u] : u \in U}
  BY DEF Forget
<1>3. OpenIsLive'
  BY <1>1 DEF Handles, OpenIsLive
<1>4. OpenIsPolled'
  <2> SUFFICES ASSUME NEW v \in Devices, open'[v] # None, obj'[open'[v]].task = "none"
               PROVE  open'[v] \in running'
    BY DEF OpenIsPolled
  <2>1. /\ v \notin U /\ open'[v] = open[v]
        /\ open[v] \in running /\ obj[open[v]].uid = v
    BY <1>1 DEF Handles, OpenIsLive, OpenIsPolled
  <2>2. \A u \in U : loops[u] # open[v]
    BY <2>1 DEF Handles, TasksAreTheirDevices, TypeOK, OpenIsLive
  <2>3. QED BY <1>2, <2>1, <2>2
<1>5. TasksAreTheirDevices'
  <2>1. ASSUME NEW v \in Devices, loops'[v] # None
        PROVE  loops'[v] \in running' /\ obj'[loops'[v]].uid = v
    <3>1. /\ v \notin U /\ loops'[v] = loops[v] /\ loops[v] # None
          /\ loops[v] \in running /\ obj[loops[v]].uid = v
      BY <1>1, <2>1 DEF Handles, TasksAreTheirDevices
    <3>2. \A u \in U : loops[u] # loops[v]
      BY <3>1 DEF Handles, TasksAreTheirDevices
    <3>3. QED BY <1>2, <3>1, <3>2
  <2>2. QED BY <1>2, <2>1 DEF TasksAreTheirDevices
<1>6. QED BY <1>3, <1>4, <1>5 DEF Handles

\* A step that touches neither table keeps them if it leaves their objects alone.
LEMMA HandlesUntouched ==
    ASSUME TypeOK, Handles, UNCHANGED handles,
           \A v \in Devices : open[v] # None => obj'[open[v]] = obj[open[v]],
           \A d \in running : obj'[d].task = "none" /\ obj'[d].uid = obj[d].uid
    PROVE  Handles'
<1>1. Forget({})
  BY DEF Forget, TypeOK, handles
<1>2. QED BY <1>1, HandlesKept

\* The open slots are typed, and none of them is closing, opening or unused.
LEMMA OpenSlots ==
    ASSUME TypeOK, Handles, NEW v \in Devices, open[v] # None
    PROVE  /\ open[v] \in Slots /\ obj[open[v]].chan = "open" /\ obj[open[v]].uid = v
           /\ obj[open[v]].task # "opening" /\ ~Unused(open[v])
BY DEF TypeOK, Handles, OpenIsLive, Unused

\* Closing a channel leaves the open objects, and what runs for any object, alone.
LEMMA ClosedKeepsHandles ==
    ASSUME TypeOK, Handles, NEW c \in Slots, obj[c].chan = "closing"
    PROVE  /\ \A v \in Devices : open[v] # None => Closed(obj, c)[open[v]] = obj[open[v]]
           /\ \A d \in running : /\ Closed(obj, c)[d].task = "none"
                                 /\ Closed(obj, c)[d].uid = obj[d].uid
<1>1. \A d \in Slots : d # c => Closed(obj, c)[d] = obj[d]
  BY DEF Closed, TypeOK
<1>2. c \in running => /\ Closed(obj, c)[c].task = obj[c].task
                       /\ Closed(obj, c)[c].uid = obj[c].uid
  BY DEF Closed, TypeOK, ObjRecord
<1>3. \A d \in running : d \in Slots /\ obj[d].task = "none"
  BY DEF TypeOK, Handles, TasksAreTheirDevices
<1>4. \A v \in Devices : open[v] # None => open[v] # c /\ open[v] \in Slots
  BY OpenSlots
<1>5. QED BY <1>1, <1>2, <1>3, <1>4

\* Beginning to close the object of u leaves those of the other uids alone.
LEMMA ClosingKeepsHandles ==
    ASSUME TypeOK, Handles, NEW u \in Devices, open[u] # None,
           NEW o \in [Slots -> ObjRecord], NEW b,
           \A v \in Devices : open[v] # None => o[open[v]] = obj[open[v]],
           \A d \in running : o[d].task = "none" /\ o[d].uid = obj[d].uid,
           obj' = [o EXCEPT ![open[u]].chan = "closing", ![open[u]].by = b]
    PROVE  /\ \A v \in Devices \ {u} : open[v] # None => obj'[open[v]] = obj[open[v]]
           /\ \A d \in running : obj'[d].task = "none" /\ obj'[d].uid = obj[d].uid
<1>1. \A d \in Slots : /\ d # open[u] => obj'[d] = o[d]
                       /\ obj'[d].task = o[d].task /\ obj'[d].uid = o[d].uid
  BY DEF ObjRecord
<1>2. \A v \in Devices \ {u} : open[v] # None => open[v] # open[u] /\ open[v] \in Slots
  BY OpenSlots
<1>3. running \subseteq Slots
  BY DEF TypeOK
<1>4. QED BY <1>1, <1>2, <1>3

\* A new object takes a slot that no table refers to.
LEMMA OpeningKeepsHandles ==
    ASSUME TypeOK, Handles, NEW d \in Slots, Unused(d), NEW r,
           NEW o \in [Slots -> ObjRecord],
           \A v \in Devices : open[v] # None => o[open[v]] = obj[open[v]],
           \A c \in running : o[c].task = "none" /\ o[c].uid = obj[c].uid,
           obj' = [o EXCEPT ![d] = r]
    PROVE  /\ \A v \in Devices : open[v] # None => obj'[open[v]] = obj[open[v]]
           /\ \A c \in running : obj'[c].task = "none" /\ obj'[c].uid = obj[c].uid
<1>1. \A c \in Slots : c # d => obj'[c] = o[c]
  OBVIOUS
<1>2. d \notin running /\ running \subseteq Slots
  BY DEF Unused, TypeOK
<1>3. \A v \in Devices : open[v] # None => open[v] # d /\ open[v] \in Slots
  BY OpenSlots
<1>4. QED BY <1>1, <1>2, <1>3

LEMMA ContinueHandles ==
    ASSUME TypeOK, Handles,
           NEW s \in Enumerations, NEW T \in SUBSET Devices, NEW o \in [Slots -> ObjRecord],
           \A v \in Devices : open[v] # None => o[open[v]] = obj[open[v]],
           \A d \in running : o[d].task = "none" /\ o[d].uid = obj[d].uid,
           Continue(s, T, o)
    PROVE  Handles'
<1>1. CASE DropNext(s, T, o)
  <2>1. PICK u \in T, K \in SUBSET {v \in T : open[v] = None} :
          /\ open[u] # None /\ Forget(K \cup {u})
          /\ obj' = [o EXCEPT ![open[u]].chan = "closing", ![open[u]].by = s]
    BY <1>1 DEF DropNext
  <2>2. /\ \A v \in Devices \ {u} : open[v] # None => obj'[open[v]] = obj[open[v]]
        /\ \A d \in running : obj'[d].task = "none" /\ obj'[d].uid = obj[d].uid
    BY <2>1, ClosingKeepsHandles
  <2>3. QED BY <2>1, <2>2, HandlesKept
<1>2. CASE EndSweep(s, T, o)
  BY <1>2, HandlesKept DEF EndSweep, DropLast
<1>3. CASE EndRebootSweep(s, T, o)
  <2>1. Forget(T)
    BY <1>3 DEF EndRebootSweep, DropLast
  <2>2. CASE obj' = o
    BY <2>1, <2>2, HandlesKept
  <2>3. ASSUME NEW d \in Slots, Unused(d), obj' = [o EXCEPT ![d] = Opening(s)]
        PROVE  Handles'
    BY <2>1, <2>3, OpeningKeepsHandles, HandlesKept
  <2>4. QED BY <1>3, <2>2, <2>3 DEF EndRebootSweep
<1>4. QED BY <1>1, <1>2, <1>3 DEF Continue

\* The four actions of _connect.
LEMMA ConnectHandles ==
    ASSUME TypeOK, Handles, NEW d \in Slots,
           StartConnect(d) \/ ConnectFails(d) \/ ConnectSucceeds(d) \/ FinishConnect(d)
    PROVE  Handles'
<1>1. /\ running \subseteq Slots
      /\ \A v \in Devices : open[v] # None => open[v] \in Slots
      /\ obj \in [Slots -> ObjRecord]
  BY DEF TypeOK
<1>2. CASE StartConnect(d)
  <2>1. PICK r : obj' = [obj EXCEPT ![d] = r] /\ Unused(d) /\ UNCHANGED handles
    BY <1>2 DEF StartConnect
  <2>2. \A c \in running : obj[c].task = "none"
    BY DEF Handles, TasksAreTheirDevices
  <2>3. QED BY <1>1, <2>1, <2>2, OpeningKeepsHandles, HandlesUntouched
<1>3. CASE ConnectFails(d)
  <2>1. \A c \in Slots : c # d => obj'[c] = obj[c]
    BY <1>1, <1>3 DEF ConnectFails
  <2>2. \A v \in Devices : open[v] # None => open[v] # d
    BY <1>3, OpenSlots DEF ConnectFails
  <2>3. \A c \in running : c # d /\ obj[c].task = "none"
    BY <1>3 DEF ConnectFails, Handles, TasksAreTheirDevices
  <2>4. UNCHANGED handles
    BY <1>3 DEF ConnectFails
  <2>5. QED BY <1>1, <2>1, <2>2, <2>3, <2>4, HandlesUntouched
<1>4. CASE ConnectSucceeds(d)
  <2> DEFINE u == obj[d].uid
  <2>1. /\ open' = [open EXCEPT ![u] = d] /\ obj[d].task = "opening"
        /\ \/ UNCHANGED <<loops, running>> /\ obj'[d].task = "showing"
           \/ /\ loops' = [loops EXCEPT ![u] = d] /\ running' = running \cup {d}
              /\ obj'[d].task = "none"
        /\ obj'[d].chan = "open" /\ obj'[d].uid = u
        /\ \A c \in Slots : c # d => obj'[c] = obj[c]
    BY <1>1, <1>4 DEF ConnectSucceeds, ObjRecord
  <2>2. d \notin running /\ \A v \in Devices : open[v] # d /\ loops[v] # d
    <3>1. d # None
      BY DomainsAssumption
    <3>2. d \notin running
      BY <2>1 DEF Handles, TasksAreTheirDevices
    <3>3. \A v \in Devices : open[v] # d
      BY <2>1, <3>1, OpenSlots
    <3>4. \A v \in Devices : loops[v] # d
      BY <3>1, <3>2 DEF Handles, TasksAreTheirDevices
    <3>5. QED BY <3>2, <3>3, <3>4
  <2>3. \A v \in Devices : open'[v] = IF v = u THEN d ELSE open[v]
    BY <2>1 DEF TypeOK
  <2>4. /\ \A v \in Devices : loops'[v] # loops[v] => loops'[v] = d /\ v = u
        /\ running \subseteq running' /\ running' \subseteq running \cup {d}
    BY <2>1 DEF TypeOK
  <2>5. \A v \in Devices : loops'[v] = d => d \in running'
    BY <2>1, <2>2
  <2> HIDE DEF u
  <2>6. OpenIsLive'
    BY <1>1, <2>1, <2>2, <2>3 DEF Handles, OpenIsLive
  <2>7. OpenIsPolled'
    BY <1>1, <2>1, <2>2, <2>3, <2>4 DEF Handles, OpenIsPolled
  <2>8. TasksAreTheirDevices'
    BY <1>1, <2>1, <2>2, <2>4, <2>5 DEF Handles, TasksAreTheirDevices
  <2>9. QED BY <2>6, <2>7, <2>8 DEF Handles
<1>5. CASE FinishConnect(d)
  <2> DEFINE u == obj[d].uid
  <2>1. /\ open' = open /\ loops' = [loops EXCEPT ![u] = d] /\ running' = running \cup {d}
        /\ obj'[d].task = "none" /\ obj'[d].uid = u /\ obj'[d].chan = obj[d].chan
        /\ obj[d].task = "showing"
        /\ \A c \in Slots : c # d => obj'[c] = obj[c]
    BY <1>1, <1>5 DEF FinishConnect, ObjRecord
  <2>2. d \notin running /\ \A v \in Devices : loops[v] # d
    <3>1. d # None
      BY DomainsAssumption
    <3>2. d \notin running
      BY <2>1 DEF Handles, TasksAreTheirDevices
    <3>3. QED BY <3>1, <3>2 DEF Handles, TasksAreTheirDevices
  <2>3. \A v \in Devices : loops'[v] # loops[v] => loops'[v] = d /\ v = u
    BY <2>1 DEF TypeOK
  <2> HIDE DEF u
  <2>4. OpenIsLive'
    <3>1. \A v \in Devices : open[v] # None =>
             /\ obj'[open[v]].uid = obj[open[v]].uid
             /\ obj'[open[v]].chan = obj[open[v]].chan
             /\ obj'[open[v]].task # "opening"
      <4>1. ASSUME NEW v \in Devices, open[v] # None
            PROVE  /\ obj'[open[v]].uid = obj[open[v]].uid
                   /\ obj'[open[v]].chan = obj[open[v]].chan
                   /\ obj'[open[v]].task # "opening"
        <5>1. CASE open[v] = d
          BY <2>1, <5>1 DEF u
        <5>2. CASE open[v] # d
          BY <1>1, <2>1, <4>1, <5>2, OpenSlots
        <5>3. QED BY <5>1, <5>2
      <4>2. QED BY <4>1
    <3>2. \A v \in Devices : open[v] # None => obj[open[v]].uid = v /\ obj[open[v]].chan = "open"
      BY OpenSlots
    <3>3. QED BY <2>1, <3>1, <3>2 DEF OpenIsLive
  <2>5. OpenIsPolled'
    BY <1>1, <2>1 DEF Handles, OpenIsPolled
  <2>6. TasksAreTheirDevices'
    BY <1>1, <2>1, <2>2, <2>3 DEF Handles, TasksAreTheirDevices
  <2>7. QED BY <2>4, <2>5, <2>6 DEF Handles
<1>6. QED BY <1>2, <1>3, <1>4, <1>5

\* Whatever is pressed, pulled, swept or restarted, and in whatever order it happens: a
\* handle in _open is an open channel of that device (OpenIsLive), a device whose page has
\* been read is polled and watched (OpenIsPolled), and the registered tasks run and are of
\* the device they are registered for (TasksAreTheirDevices).
THEOREM HandlesCorrect == Spec => [](OpenIsLive /\ OpenIsPolled /\ TasksAreTheirDevices)
<1>1. Init => Handles
  BY DEF Init, Handles, OpenIsLive, OpenIsPolled, TasksAreTheirDevices
<1>2. TypeOK /\ Handles /\ [Next]_vars => Handles'
  <2> SUFFICES ASSUME TypeOK, Handles, [Next]_vars PROVE Handles'
    OBVIOUS
  <2>1. CASE UNCHANGED <<obj, handles>>
    BY <2>1, HandlesUntouched DEF Handles, TasksAreTheirDevices
  <2>2. ASSUME NEW u \in Devices, Forget({u}),
               \/ open[u] = None /\ UNCHANGED obj
               \/ /\ open[u] # None
                  /\ \E b : obj' = [obj EXCEPT ![open[u]].chan = "closing", ![open[u]].by = b]
        PROVE  Handles'
    <3>1. /\ obj \in [Slots -> ObjRecord]
          /\ \A d \in running : obj[d].task = "none"
      BY DEF TypeOK, Handles, TasksAreTheirDevices
    <3>2. CASE open[u] = None /\ UNCHANGED obj
      BY <2>2, <3>1, <3>2, HandlesKept
    <3>3. ASSUME open[u] # None, NEW b,
                 obj' = [obj EXCEPT ![open[u]].chan = "closing", ![open[u]].by = b]
          PROVE  Handles'
      BY <2>2, <3>1, <3>3, ClosingKeepsHandles, HandlesKept
    <3>4. QED BY <2>2, <3>2, <3>3
  <2>3. CASE StartTeardown
    <3>1. PICK u \in Devices :
            /\ Forget({u})
            /\ \/ /\ open[u] # None
                  /\ obj' = [obj EXCEPT ![open[u]].chan = "closing", ![open[u]].by = None]
               \/ open[u] = None /\ UNCHANGED obj
      BY <2>3, SpawnedHead DEF StartTeardown
    <3>2. QED BY <2>2, <3>1
  <2>4. ASSUME NEW u \in Devices, LinkDrops(u)
        PROVE  Handles'
    BY <2>2, <2>4 DEF LinkDrops
  <2>5. ASSUME NEW d \in Slots, FinishTeardown(d) \/ RebootClosed(d)
        PROVE  Handles'
    <3>1. /\ obj[d].chan = "closing" /\ obj' = Closed(obj, d) /\ UNCHANGED handles
      BY <2>5 DEF FinishTeardown, RebootClosed
    <3>2. QED BY <3>1, ClosedKeepsHandles, HandlesUntouched
  <2>6. ASSUME NEW s \in Enumerations, SaveDone(s)
        PROVE  Handles'
    <3>1. /\ Continue(s, {u \in Devices : Stale(u)}, obj) /\ obj \in [Slots -> ObjRecord]
          /\ \A d \in running : obj[d].task = "none"
      BY <2>6 DEF SaveDone, TypeOK, Handles, TasksAreTheirDevices
    <3>2. QED BY <3>1, ContinueHandles
  <2>7. ASSUME NEW d \in Slots, DropDone(d)
        PROVE  Handles'
    <3>1. PICK s \in Enumerations : Continue(s, sweep[s].todo, Closed(obj, d))
      BY <2>7 DEF DropDone, TypeOK, ObjRecord
    <3>2. sweep[s].todo \in SUBSET Devices /\ Closed(obj, d) \in [Slots -> ObjRecord]
      BY <3>1, ClosedType DEF TypeOK, SweepRecord
    <3>3. obj[d].chan = "closing"
      BY <2>7 DEF DropDone
    <3>4. QED BY <3>1, <3>2, <3>3, ClosedKeepsHandles, ContinueHandles
  <2>8. ASSUME NEW u \in Devices, DropTimeout(u)
        PROVE  Handles'
    <3>1. CASE UNCHANGED obj
      BY <2>1, <2>8, <3>1 DEF DropTimeout
    <3>2. ASSUME NEW d \in Slots, Unused(d), obj' = [obj EXCEPT ![d] = Opening(u)]
          PROVE  Handles'
      <4>1. /\ UNCHANGED handles /\ obj \in [Slots -> ObjRecord]
            /\ \A c \in running : obj[c].task = "none"
        BY <2>8 DEF DropTimeout, TypeOK, Handles, TasksAreTheirDevices
      <4>2. QED BY <3>2, <4>1, OpeningKeepsHandles, HandlesUntouched
    <3>3. QED BY <2>8, <3>1, <3>2 DEF DropTimeout
  <2>9. CASE User \/ RefreshUI \/ UNCHANGED vars
    <3>1. UNCHANGED <<obj, handles>>
      BY <2>9 DEF User, Move, Select, WriteRebooting, PressConnect, PressDisconnect, Press,
         Rescan, ReadBus, RefreshUI, vars
    <3>2. QED BY <2>1, <3>1
  <2>10. CASE \/ RefuseConnect
              \/ \E s \in Sweeps : HotplugSweep(s)
              \/ \E s \in Enumerations : Apply(s) \/ SaveFails(s)
              \/ \E u \in Devices : RebootSweep(u) \/ ReturnTimeout(u)
    <3>1. UNCHANGED <<obj, handles>>
      BY <2>10 DEF RefuseConnect, HotplugSweep, ReadBus, Apply, SaveFails, RebootSweep,
         ReturnTimeout
    <3>2. QED BY <2>1, <3>1
  <2>11. QED
    BY <2>3, <2>4, <2>5, <2>6, <2>7, <2>8, <2>9, <2>10, ConnectHandles DEF Next, Loop
<1>3. Handles => OpenIsLive /\ OpenIsPolled /\ TasksAreTheirDevices
  BY DEF Handles
<1>4. QED BY <1>1, <1>2, <1>3, TypeCorrect, PTL DEF Spec
-----------------------------------------------------------------------------
(* The button of the device on screen                                        *)

\* A step after which no repaint is owed keeps the button true if it touches only uids
\* that are not at rest after it.
LEMMA ButtonKept ==
    ASSUME TypeOK, ButtonIsTruthful, ~refresh' => ~refresh, UNCHANGED ui_vars,
           \A v \in Devices : AtRest(v)' =>
               /\ AtRest(v)
               /\ open'[v] = open[v]
               /\ (v \in busy') = (v \in busy)
               /\ (v \in reconnecting') = (v \in reconnecting)
    PROVE  ButtonIsTruthful'
<1> SUFFICES ASSUME ~refresh', selected' # None, AtRest(selected)'
             PROVE  button' = Painted(selected', open', busy', reconnecting')
  BY DEF ButtonIsTruthful
<1>1. selected' = selected /\ button' = button /\ selected \in Devices
  BY DEF ui_vars, TypeOK
<1>2. AtRest(selected') = AtRest(selected)
  BY <1>1
<1>3. /\ AtRest(selected) /\ open'[selected] = open[selected]
      /\ (selected \in busy') = (selected \in busy)
      /\ (selected \in reconnecting') = (selected \in reconnecting)
  BY <1>1 DEF AtRest
<1>4. button = Painted(selected, open, busy, reconnecting)
  BY <1>3, <1>1 DEF ButtonIsTruthful
<1>5. QED BY <1>1, <1>3, <1>4 DEF Painted

\* A step that paints nothing and changes nothing that is painted keeps it true.
LEMMA ButtonUntouched ==
    ASSUME TypeOK, ButtonIsTruthful, UNCHANGED <<ui_vars, open, busy, reconnecting, obj>>,
           ~refresh' => ~refresh,
           \A v \in Devices : reboot'[v] \in {"none", "writing"} =>
                                  reboot[v] \in {"none", "writing"}
    PROVE  ButtonIsTruthful'
BY ButtonKept DEF AtRest

\* Beginning to close the handle of u takes u, and no other uid, out of rest.
LEMMA ClosingKeepsButton ==
    ASSUME TypeOK, Handles, ButtonIsTruthful, NEW u \in Devices, open[u] # None, NEW b,
           obj' = [obj EXCEPT ![open[u]].chan = "closing", ![open[u]].by = b],
           UNCHANGED <<reboot, ui_vars>>, ~refresh' => ~refresh,
           Forget({u}), busy' = busy \ {u}, reconnecting' = reconnecting \ {u}
    PROVE  ButtonIsTruthful'
<1>1. open[u] \in Slots /\ obj[open[u]].uid = u
  BY OpenSlots
<1>2. /\ obj'[open[u]].chan = "closing" /\ obj'[open[u]].uid = u
      /\ \A d \in Slots : d # open[u] => obj'[d] = obj[d]
  BY <1>1 DEF TypeOK, ObjRecord
<1>3. ~AtRest(u)'
  BY <1>1, <1>2 DEF AtRest
<1>4. ASSUME NEW v \in Devices, v # u, AtRest(v)'
      PROVE  AtRest(v) /\ open'[v] = open[v]
  BY <1>1, <1>2, <1>4 DEF AtRest, Forget
<1>5. QED BY <1>3, <1>4, ButtonKept

\* What a sweep has found stale is open, so that it closes one handle and touches no other.
LEMMA SaveKeepsButton ==
    ASSUME TypeOK, Handles, ButtonIsTruthful, NEW s \in Enumerations, SaveDone(s)
    PROVE  ButtonIsTruthful'
<1> DEFINE T == {u \in Devices : Stale(u)}
<1>1. \A u \in T : u \in Devices /\ open[u] # None
  BY DEF Stale
<1>2. /\ Continue(s, T, obj) /\ refresh' = (refresh \/ reboot' # reboot)
      /\ UNCHANGED ui_vars /\ (~refresh' => ~refresh)
  BY DEF SaveDone, TypeOK
<1> HIDE DEF T
<1>3. CASE DropNext(s, T, obj)
  <2>1. PICK u \in T, K \in SUBSET {v \in T : open[v] = None} :
          /\ open[u] # None
          /\ Forget(K \cup {u})
          /\ busy' = busy \ (K \cup {u}) /\ reconnecting' = reconnecting \ (K \cup {u})
          /\ obj' = [obj EXCEPT ![open[u]].chan = "closing", ![open[u]].by = s]
          /\ UNCHANGED reboot
    BY <1>3 DEF DropNext
  <2>2. u \in Devices /\ K \cup {u} = {u}
    BY <1>1, <2>1
  <2>3. /\ Forget({u}) /\ busy' = busy \ {u} /\ reconnecting' = reconnecting \ {u}
        /\ UNCHANGED <<reboot, ui_vars>> /\ (~refresh' => ~refresh)
    BY <1>2, <2>1, <2>2
  <2>4. QED BY <2>1, <2>2, <2>3, ClosingKeepsButton
<1>4. ASSUME T = {} PROVE Forget(T) => open' = open
  BY <1>4 DEF Forget, TypeOK
<1>5. CASE EndSweep(s, T, obj)
  <2>1. /\ T = {} /\ Forget(T) /\ obj' = obj /\ reboot' = reboot
        /\ busy' = busy \ T /\ reconnecting' = reconnecting \ T
    BY <1>1, <1>5 DEF EndSweep, DropLast
  <2>2. UNCHANGED <<ui_vars, open, busy, reconnecting, obj>> /\ (~refresh' => ~refresh)
    BY <1>2, <1>4, <2>1
  <2>3. QED BY <2>1, <2>2, ButtonUntouched
<1>6. CASE EndRebootSweep(s, T, obj)
  <2>1. s \in Devices /\ T = {} /\ Forget(T)
    BY <1>1, <1>6 DEF EndRebootSweep, DropLast
  <2>2. CASE refresh'
    BY <2>2 DEF ButtonIsTruthful
  <2>3. CASE ~refresh'
    <3>1. reboot' = reboot /\ reboot \in [Devices -> RebootPhases]
      BY <1>2, <2>3 DEF TypeOK
    <3>2. obj' = obj /\ busy' = busy /\ reconnecting' = reconnecting
      BY <1>6, <2>1, <3>1 DEF EndRebootSweep
    <3>3. QED BY <1>2, <1>4, <2>1, <3>1, <3>2, ButtonUntouched
  <2>4. QED BY <2>2, <2>3
<1>7. QED BY <1>2, <1>3, <1>5, <1>6 DEF Continue

\* The first segment of a teardown repaints, or leaves its uid waiting for the disconnect.
LEMMA TeardownKeepsButton ==
    ASSUME TypeOK, Handles, ButtonIsTruthful, StartTeardown
    PROVE  ButtonIsTruthful'
<1>1. CASE refresh'
  BY <1>1 DEF ButtonIsTruthful
<1>2. CASE ~refresh'
  <2>1. PICK u \in Devices :
          /\ Forget({u}) /\ busy' = busy \ {u} /\ reconnecting' = reconnecting \ {u}
          /\ open[u] # None
          /\ obj' = [obj EXCEPT ![open[u]].chan = "closing", ![open[u]].by = None]
          /\ UNCHANGED refresh
    BY <1>2, SpawnedHead DEF StartTeardown
  <2>2. UNCHANGED <<reboot, ui_vars>>
    BY DEF StartTeardown
  <2>3. QED BY <2>1, <2>2, ClosingKeepsButton
<1>3. QED BY <1>1, <1>2

\* Whatever is pressed, pulled, swept or restarted: once no repaint waits in the queue and
\* no coroutine of the device on screen is between two awaits, its button says whether it
\* is open, and is enabled unless it is opening or restarting (_refresh_connection_ui is
\* reached by every path that changes _open or one of the two sets).
THEOREM ButtonCorrect == Spec => []ButtonIsTruthful
<1>1. Init => ButtonIsTruthful
  BY DEF Init, ButtonIsTruthful
<1>2. TypeOK /\ Handles /\ ButtonIsTruthful /\ [Next]_vars => ButtonIsTruthful'
  <2> SUFFICES ASSUME TypeOK, Handles, ButtonIsTruthful, [Next]_vars
               PROVE  ButtonIsTruthful'
    OBVIOUS
  <2>1. CASE refresh'
    BY <2>1 DEF ButtonIsTruthful
  <2>2. CASE RefreshUI \/ \E u \in Devices : Select(u)
    <3>1. /\ button' = Painted(selected', open, busy, reconnecting)
          /\ UNCHANGED <<open, busy, reconnecting>>
      BY <2>2 DEF RefreshUI, Select, handles
    <3>2. QED BY <3>1 DEF ButtonIsTruthful
  <2>3. CASE UNCHANGED <<ui_vars, open, busy, reconnecting, obj, refresh, reboot>>
    BY <2>3, ButtonUntouched
  <2>4. ASSUME NEW u \in Devices, WriteRebooting(u)
        PROVE  ButtonIsTruthful'
    <3>1. /\ UNCHANGED <<ui_vars, open, busy, reconnecting, obj, refresh>>
          /\ \A v \in Devices : reboot'[v] # reboot[v] => reboot[v] = "none"
      BY <2>4 DEF WriteRebooting, handles, TypeOK
    <3>2. QED BY <3>1, ButtonUntouched
  <2>5. CASE \/ \E u \in Devices : Move(u)
             \/ PressConnect \/ PressDisconnect \/ RefuseConnect
             \/ \E s \in Sweeps : Rescan(s) \/ HotplugSweep(s)
             \/ \E s \in Enumerations : Apply(s)
             \/ \E u \in Devices : RebootSweep(u)
             \/ UNCHANGED vars
    <3>1. UNCHANGED <<ui_vars, open, busy, reconnecting, obj, refresh, reboot>>
      BY <2>5 DEF Move, PressConnect, PressDisconnect, Press, RefuseConnect, Rescan,
         HotplugSweep, Apply, RebootSweep, ReadBus, vars, handles
    <3>2. QED BY <2>3, <3>1
  <2>6. ASSUME NEW s \in Enumerations, SaveFails(s), ~refresh'
        PROVE  ButtonIsTruthful'
    <3>1. UNCHANGED <<ui_vars, open, busy, reconnecting, obj, refresh, reboot>>
      BY <2>6 DEF SaveFails, handles
    <3>2. QED BY <2>3, <3>1
  <2>7. ASSUME NEW d \in Slots,
               \/ StartConnect(d) \/ ConnectFails(d) \/ ConnectSucceeds(d)
               \/ FinishConnect(d) \/ FinishTeardown(d) \/ DropDone(d) \/ RebootClosed(d)
        PROVE  refresh'
    BY <2>7 DEF StartConnect, ConnectFails, ConnectSucceeds, FinishConnect, MarkBusy,
       FinishTeardown, DropDone, RebootClosed
  <2>8. ASSUME NEW u \in Devices, LinkDrops(u) \/ DropTimeout(u) \/ ReturnTimeout(u)
        PROVE  refresh'
    BY <2>8 DEF LinkDrops, DropTimeout, ReturnTimeout
  <2>9. QED
    BY <2>1, <2>2, <2>4, <2>5, <2>6, <2>7, <2>8, SaveKeepsButton, TeardownKeepsButton
       DEF Next, User, Loop
<1>3. Spec => [](OpenIsLive /\ OpenIsPolled /\ TasksAreTheirDevices)
  BY HandlesCorrect
<1>4. Handles <=> OpenIsLive /\ OpenIsPolled /\ TasksAreTheirDevices
  BY DEF Handles
<1>5. QED BY <1>1, <1>2, <1>3, <1>4, TypeCorrect, PTL DEF Spec

\* The tasks of the bridge: the poll and watch tasks registered for a uid are running and of
\* a device object of that uid, and none runs for an object whose _connect is still under
\* way, however teardowns, sweeps and connects overlap.
THEOREM TasksCorrect == Spec => []TasksAreTheirDevices
BY HandlesCorrect, PTL

-----------------------------------------------------------------------------
(* One connect at a time, and no channel without a handle                    *)

\* What a sweep has found stale and not closed yet is torn down later by its uid, whatever
\* the user has made of that uid since.  It takes two stale handles in one sweep.
OneStaleAtATime == \A s \in Enumerations : sweep[s].todo = {}

\* A _connect of u under way finds no handle of u, and puts one there when it ends.
OpeningIsShut == \A u \in Devices : Connecting(u) => open[u] = None

\* At most one press is under way, of a device that no _connect is running for.
PressedIsAlone ==
    spawned # <<>> => Tail(spawned) = <<>> /\ ~Connecting(Head(spawned).uid)

\* A button that can be pressed is painted for a device that is not opening.
EnabledIsIdle == ~refresh /\ selected # None /\ button.enabled => selected \notin busy

\* An object that is opening, or whose channel is open, is of a device.
InUseIsNamed ==
    \A d \in Slots : obj[d].task = "opening" \/ obj[d].chan = "open" => obj[d].uid \in Devices

NeverRestarts == \A u \in Devices : reboot[u] = "none"

\* What is about the objects, and what is about the user's next press.
Single == /\ OpeningIsBusy /\ OneConnectAtATime /\ NoLeakedChannel
          /\ OpeningIsShut /\ InUseIsNamed

Solo == Single /\ PressedIsAlone /\ EnabledIsIdle /\ NeverRestarts

\* A step that begins no _connect and opens no channel, keeps the handles of the channels that
\* stay open and the mark of each _connect that goes on, and gives no handle to its uid.
LEMMA SingleKept ==
    ASSUME TypeOK, Single,
           \A d \in Slots : obj'[d].task = "opening" =>
               /\ obj[d].task = "opening" /\ obj'[d].uid = obj[d].uid
               /\ obj[d].uid \in busy' /\ open'[obj[d].uid] = None,
           \A d \in Slots : obj'[d].chan = "open" =>
               /\ obj[d].chan = "open" /\ obj'[d].uid = obj[d].uid
               /\ open'[obj[d].uid] = open[obj[d].uid]
    PROVE  Single'
<1>1. OpeningIsBusy' /\ OpeningIsShut'
  BY DEF OpeningIsBusy, OpeningIsShut, Connecting
<1>2. OneConnectAtATime' /\ InUseIsNamed'
  BY DEF Single, OneConnectAtATime, InUseIsNamed
<1>3. NoLeakedChannel'
  BY DEF Single, NoLeakedChannel
<1>4. QED BY <1>1, <1>2, <1>3 DEF Single

\* Closing the handle of u, or finding none, disturbs no _connect: none is of u.
LEMMA ForgetSingle ==
    ASSUME TypeOK, Handles, Single, NEW u \in Devices, ~Connecting(u), Forget({u}),
           busy' = busy \ {u},
           \/ open[u] = None /\ UNCHANGED obj
           \/ /\ open[u] # None
              /\ \E b : obj' = [obj EXCEPT ![open[u]].chan = "closing", ![open[u]].by = b]
    PROVE  Single'
<1>1. \A v \in Devices : open'[v] = IF v = u THEN None ELSE open[v]
  BY DEF Forget
<1>2. /\ \A d \in Slots : obj'[d].task = obj[d].task /\ obj'[d].uid = obj[d].uid
      /\ \A d \in Slots : obj'[d].chan = "open" => obj[d].chan = "open"
      /\ \A d \in Slots : obj'[d].chan = "open" => d # open[u]
  <2>1. CASE open[u] = None /\ UNCHANGED obj
    BY <2>1, DomainsAssumption DEF DomainsAssumption
  <2>2. CASE open[u] # None
    <3>1. PICK b : obj' = [obj EXCEPT ![open[u]].chan = "closing", ![open[u]].by = b]
      BY <2>2
    <3>2. open[u] \in Slots /\ obj \in [Slots -> ObjRecord]
      BY <2>2 DEF TypeOK
    <3>3. QED BY <3>1, <3>2 DEF ObjRecord
  <2>3. QED BY <2>1, <2>2
<1>3. ASSUME NEW d \in Slots, obj'[d].task = "opening"
      PROVE  /\ obj[d].task = "opening" /\ obj'[d].uid = obj[d].uid
             /\ obj[d].uid \in busy' /\ open'[obj[d].uid] = None
  <2>1. obj[d].task = "opening" /\ obj'[d].uid = obj[d].uid /\ obj[d].uid \in Devices
    BY <1>2, <1>3 DEF Single, InUseIsNamed
  <2>2. obj[d].uid # u /\ obj[d].uid \in busy /\ open[obj[d].uid] = None
    BY <2>1 DEF Single, OpeningIsBusy, OpeningIsShut, Connecting
  <2>3. QED BY <1>1, <2>1, <2>2
<1>4. ASSUME NEW d \in Slots, obj'[d].chan = "open"
      PROVE  /\ obj[d].chan = "open" /\ obj'[d].uid = obj[d].uid
             /\ open'[obj[d].uid] = open[obj[d].uid]
  <2>1. /\ obj[d].chan = "open" /\ open[obj[d].uid] = d /\ d # open[u]
        /\ obj[d].uid \in Devices
    BY <1>2, <1>4 DEF Single, NoLeakedChannel, InUseIsNamed
  <2>2. open'[obj[d].uid] = open[obj[d].uid]
    BY <1>1, <2>1
  <2>3. QED BY <1>2, <1>4, <2>1, <2>2
<1>5. QED BY <1>3, <1>4, SingleKept

\* A _connect that starts when none of its uid runs, fails, succeeds or has shown its page.
LEMMA ConnectSingle ==
    ASSUME TypeOK, Handles, Single, NEW d \in Slots,
           \/ StartConnect(d) /\ ~Connecting(Head(spawned).uid)
           \/ ConnectFails(d) \/ ConnectSucceeds(d) \/ FinishConnect(d)
    PROVE  Single'
<1>1. obj \in [Slots -> ObjRecord] /\ open \in [Devices -> Slots \cup {None}]
  BY DEF TypeOK
<1>2. CASE StartConnect(d)
  <2> DEFINE u == Head(spawned).uid
  <2>1. u \in Devices /\ spawned # <<>>
    BY <1>2, SpawnedHead DEF StartConnect
  <2>2. /\ obj' = [obj EXCEPT ![d] = Opening(u)] /\ busy' = busy \cup {u} /\ open' = open
        /\ open[u] = None /\ ~Connecting(u)
    BY <1>2 DEF StartConnect, MarkBusy, handles, ConnectFails, ConnectSucceeds,
       FinishConnect, Unused
  <2> HIDE DEF u
  <2>3. /\ obj'[d].uid = u /\ obj'[d].task = "opening" /\ obj'[d].chan = "none"
        /\ \A c \in Slots : c # d => obj'[c] = obj[c]
    BY <1>1, <2>2 DEF Opening
  <2>4. OpeningIsBusy' /\ OpeningIsShut'
    BY <2>2, <2>3 DEF Single, OpeningIsBusy, OpeningIsShut, Connecting
  <2>5. OneConnectAtATime'
    BY <2>2, <2>3 DEF Single, OneConnectAtATime, Connecting
  <2>6. NoLeakedChannel' /\ InUseIsNamed'
    BY <2>1, <2>2, <2>3 DEF Single, NoLeakedChannel, InUseIsNamed
  <2>7. QED BY <2>4, <2>5, <2>6 DEF Single
<1>3. CASE ConnectFails(d)
  <2>1. /\ obj'[d].task = "none" /\ obj'[d].chan = "none" /\ open' = open
        /\ \A c \in Slots : c # d => obj'[c] = obj[c]
        /\ busy' = busy \ {obj[d].uid} /\ obj[d].task = "opening"
    BY <1>1, <1>3 DEF ConnectFails, MarkBusy, NoObj, handles
  <2>2. ASSUME NEW c \in Slots, obj'[c].task = "opening"
        PROVE  /\ obj[c].task = "opening" /\ obj'[c].uid = obj[c].uid
               /\ obj[c].uid \in busy' /\ open'[obj[c].uid] = None
    <3>1. c # d /\ obj'[c] = obj[c] /\ obj[c].uid \in Devices
      BY <2>1, <2>2 DEF Single, InUseIsNamed
    <3>2. obj[c].uid # obj[d].uid
      BY <2>1, <2>2, <3>1 DEF Single, OneConnectAtATime
    <3>3. obj[c].uid \in busy /\ open[obj[c].uid] = None
      BY <2>2, <3>1 DEF Single, OpeningIsBusy, OpeningIsShut, Connecting
    <3>4. QED BY <2>1, <2>2, <3>1, <3>2, <3>3
  <2>3. \A c \in Slots : obj'[c].chan = "open" => obj'[c] = obj[c]
    BY <2>1
  <2>4. QED BY <2>1, <2>2, <2>3, SingleKept
<1>4. CASE ConnectSucceeds(d)
  <2> DEFINE u == obj[d].uid
  <2>1. /\ open' = [open EXCEPT ![u] = d] /\ obj[d].task = "opening"
        /\ obj'[d].task # "opening" /\ obj'[d].chan = "open" /\ obj'[d].uid = u
        /\ \A c \in Slots : c # d => obj'[c] = obj[c]
        /\ busy' = busy \ {u}
    BY <1>1, <1>4 DEF ConnectSucceeds, MarkBusy, ObjRecord
  <2>2. u \in Devices /\ open[u] = None
    BY <2>1 DEF Single, InUseIsNamed, OpeningIsShut, Connecting
  <2> HIDE DEF u
  <2>3. open'[u] = d /\ \A v \in Devices \ {u} : open'[v] = open[v]
    BY <1>1, <2>1, <2>2
  <2>4. ASSUME NEW c \in Slots, obj'[c].task = "opening"
        PROVE  /\ c # d /\ obj[c].task = "opening" /\ obj'[c].uid = obj[c].uid
               /\ obj[c].uid \in Devices \ {u}
               /\ obj[c].uid \in busy' /\ open'[obj[c].uid] = None
    <3>1. c # d /\ obj'[c] = obj[c] /\ obj[c].uid \in Devices
      BY <2>1, <2>4 DEF Single, InUseIsNamed
    <3>2. obj[c].uid # u
      BY <2>1, <2>4, <3>1 DEF Single, OneConnectAtATime, u
    <3>3. obj[c].uid \in busy /\ open[obj[c].uid] = None
      BY <2>4, <3>1 DEF Single, OpeningIsBusy, OpeningIsShut, Connecting
    <3>4. QED BY <2>1, <2>3, <2>4, <3>1, <3>2, <3>3
  <2>5. OpeningIsBusy' /\ OpeningIsShut' /\ OneConnectAtATime'
    BY <2>4 DEF Single, OneConnectAtATime, OpeningIsBusy, OpeningIsShut, Connecting
  <2>6. ASSUME NEW c \in Slots, obj'[c].chan = "open"
        PROVE  open'[obj'[c].uid] = c /\ obj'[c].uid \in Devices
    <3>1. CASE c = d
      BY <2>1, <2>2, <2>3, <3>1
    <3>2. CASE c # d
      <4>1. obj'[c] = obj[c] /\ open[obj[c].uid] = c /\ obj[c].uid \in Devices
        BY <2>1, <2>6, <3>2 DEF Single, NoLeakedChannel, InUseIsNamed
      <4>2. obj[c].uid # u
        BY <2>2, <4>1, DomainsAssumption DEF DomainsAssumption
      <4>3. QED BY <2>3, <4>1, <4>2
    <3>3. QED BY <3>1, <3>2
  <2>7. InUseIsNamed' /\ NoLeakedChannel'
    BY <2>4, <2>6 DEF InUseIsNamed, NoLeakedChannel
  <2>8. QED BY <2>5, <2>7 DEF Single
<1>5. CASE FinishConnect(d)
  <2>1. /\ obj'[d].task = "none" /\ obj'[d].chan = obj[d].chan /\ obj'[d].uid = obj[d].uid
        /\ \A c \in Slots : c # d => obj'[c] = obj[c]
        /\ UNCHANGED <<open, busy>>
    BY <1>1, <1>5 DEF FinishConnect, ObjRecord
  <2>2. ASSUME NEW c \in Slots, obj'[c].task = "opening"
        PROVE  /\ obj[c].task = "opening" /\ obj'[c].uid = obj[c].uid
               /\ obj[c].uid \in busy' /\ open'[obj[c].uid] = None
    BY <2>1, <2>2 DEF Single, InUseIsNamed, OpeningIsBusy, OpeningIsShut, Connecting
  <2>3. QED BY <2>1, <2>2, SingleKept
<1>6. QED BY <1>2, <1>3, <1>4, <1>5

\* The end of a disconnect: the slot is closed already for the tables.
LEMMA ClosedSingle ==
    ASSUME TypeOK, Single, NEW d \in Slots, obj[d].chan = "closing",
           obj' = Closed(obj, d), UNCHANGED <<open, busy>>
    PROVE  Single'
<1>1. obj \in [Slots -> ObjRecord]
  BY DEF TypeOK
<1>2. /\ \A c \in Slots : c # d => obj'[c] = obj[c]
      /\ obj'[d].chan # "open"
      /\ obj'[d].task = "opening" => obj[d].task = "opening" /\ obj'[d].uid = obj[d].uid
  BY <1>1 DEF Closed, ObjRecord, NoObj
<1>3. ASSUME NEW c \in Slots, obj'[c].task = "opening"
      PROVE  /\ obj[c].task = "opening" /\ obj'[c].uid = obj[c].uid
             /\ obj[c].uid \in busy' /\ open'[obj[c].uid] = None
  BY <1>2, <1>3 DEF Single, InUseIsNamed, OpeningIsBusy, OpeningIsShut, Connecting
<1>4. \A c \in Slots : obj'[c].chan = "open" => obj'[c] = obj[c]
  BY <1>2
<1>5. QED BY <1>3, <1>4, SingleKept

\* A sweep that finds one stale handle at most closes it and marks nothing else; the end of
\* that disconnect finds nothing left to drop.
LEMMA SweepSingle ==
    ASSUME TypeOK, Handles, Single, NeverRestarts, OneStaleAtATime,
           \/ \E s \in Enumerations : SaveDone(s)
           \/ \E d \in Slots : DropDone(d)
    PROVE  Single'
<1>1. ASSUME NEW s \in Enumerations, SaveDone(s)
      PROVE  Single'
  <2> DEFINE T == {u \in Devices : Stale(u)}
  <2>1. Continue(s, T, obj) /\ \A u \in T : u \in Devices /\ open[u] # None
    BY <1>1 DEF SaveDone, Stale
  <2> HIDE DEF T
  <2>2. CASE DropNext(s, T, obj)
    <3>1. PICK u \in T, K \in SUBSET {v \in T : open[v] = None} :
            /\ open[u] # None /\ Forget(K \cup {u})
            /\ busy' = busy \ (K \cup {u})
            /\ obj' = [obj EXCEPT ![open[u]].chan = "closing", ![open[u]].by = s]
      BY <2>2 DEF DropNext
    <3>2. u \in Devices /\ K \cup {u} = {u}
      BY <2>1, <3>1
    <3>3. ~Connecting(u)
      BY <3>1, <3>2 DEF Single, OpeningIsShut
    <3>4. Forget({u}) /\ busy' = busy \ {u}
      BY <3>1, <3>2
    <3>5. QED BY <3>1, <3>2, <3>3, <3>4, ForgetSingle
  <2>3. CASE EndSweep(s, T, obj)
    <3>1. T = {} /\ Forget(T) /\ obj' = obj /\ busy' = busy \ T
      BY <2>1, <2>3 DEF EndSweep, DropLast
    <3>2. UNCHANGED <<open, busy, obj>>
      BY <3>1 DEF Forget, TypeOK
    <3>3. QED BY <3>2 DEF Single, OpeningIsBusy, OneConnectAtATime, NoLeakedChannel,
                          OpeningIsShut, InUseIsNamed, Connecting
  <2>4. ~EndRebootSweep(s, T, obj)
    BY DEF EndRebootSweep, NeverRestarts
  <2>5. QED BY <2>1, <2>2, <2>3, <2>4 DEF Continue
<1>2. ASSUME NEW d \in Slots, DropDone(d)
      PROVE  Single'
  <2>1. PICK s \in Enumerations : s = obj[d].by
    BY <1>2 DEF DropDone, TypeOK, ObjRecord
  <2>2. sweep[s].todo = {} /\ Continue(s, {}, Closed(obj, d)) /\ obj[d].chan = "closing"
    BY <1>2, <2>1 DEF DropDone, OneStaleAtATime
  <2>3. ~DropNext(s, {}, Closed(obj, d)) /\ ~EndRebootSweep(s, {}, Closed(obj, d))
    BY DEF DropNext, EndRebootSweep, NeverRestarts
  <2>4. Forget({}) /\ obj' = Closed(obj, d) /\ busy' = busy \ {}
    BY <2>2, <2>3 DEF Continue, EndSweep, DropLast
  <2>5. UNCHANGED <<open, busy>>
    BY <2>4 DEF Forget, TypeOK
  <2>6. QED BY <2>2, <2>4, <2>5, ClosedSingle
<1>3. QED BY <1>1, <1>2

\* What the pressed button may start: nothing while its device is opening, since it is
\* disabled then, and a press waits for the repaint of everything before it.
LEMMA PressSingle ==
    ASSUME TypeOK, Solo, Patient,
           \/ PressConnect \/ PressDisconnect \/ RefreshUI
           \/ \E u \in Devices : Select(u)
    PROVE  Solo'
<1>1. UNCHANGED <<obj, open, busy, reboot>>
  BY DEF PressConnect, PressDisconnect, Press, RefreshUI, Select, handles
<1>2. Single' /\ NeverRestarts'
  BY <1>1 DEF Solo, Single, OpeningIsBusy, OneConnectAtATime, NoLeakedChannel, OpeningIsShut,
              InUseIsNamed, Connecting, NeverRestarts
<1>3. ASSUME NEW op \in {"connect", "teardown"}, Press(op)
      PROVE  PressedIsAlone' /\ EnabledIsIdle'
  <2>1. /\ spawned = <<>> /\ ~refresh /\ button.enabled /\ selected \in Devices
        /\ spawned' = Append(spawned, [op |-> op, uid |-> selected])
        /\ UNCHANGED <<refresh, ui_vars>>
    BY <1>3 DEF Press, CaughtUp, TypeOK
  <2>2. ~Connecting(selected)
    BY <2>1, DomainsAssumption
       DEF Solo, Single, EnabledIsIdle, OpeningIsBusy, DomainsAssumption
  <2>3. Tail(spawned') = <<>> /\ Head(spawned').uid = selected
    BY <2>1
  <2>4. PressedIsAlone'
    BY <1>1, <2>2, <2>3 DEF PressedIsAlone, Connecting
  <2>5. EnabledIsIdle'
    BY <1>1, <2>1 DEF Solo, EnabledIsIdle, ui_vars
  <2>6. QED BY <2>4, <2>5
<1>4. CASE PressConnect \/ PressDisconnect
  BY <1>2, <1>3, <1>4 DEF PressConnect, PressDisconnect, Solo
<1>5. CASE RefreshUI \/ \E u \in Devices : Select(u)
  <2>1. /\ button' = Painted(selected', open, busy, reconnecting)
        /\ UNCHANGED spawned
    BY <1>5 DEF RefreshUI, Select, handles
  <2>2. PressedIsAlone' /\ EnabledIsIdle'
    BY <1>1, <2>1 DEF Solo, PressedIsAlone, Connecting, EnabledIsIdle, Painted
  <2>3. QED BY <1>2, <2>2 DEF Solo
<1>6. QED BY <1>4, <1>5

\* The button stays disabled, or a repaint is owed, unless a step only ends openings.
LEMMA EnabledKept ==
    ASSUME EnabledIsIdle, UNCHANGED ui_vars, refresh' \/ (busy' \subseteq busy /\ ~refresh)
    PROVE  EnabledIsIdle'
BY DEF EnabledIsIdle, ui_vars

\* A step that starts no press and begins no _connect leaves the press under way alone.
LEMMA PressedKept ==
    ASSUME TypeOK, PressedIsAlone,
           spawned' = spawned \/ (spawned # <<>> /\ spawned' = Tail(spawned)),
           \A d \in Slots : obj'[d].task = "opening" =>
               (obj[d].task = "opening" /\ obj'[d].uid = obj[d].uid) \/ spawned' = <<>>
    PROVE  PressedIsAlone'
<1>1. CASE spawned' = <<>>
  BY <1>1 DEF PressedIsAlone
<1>2. CASE spawned' # <<>>
  <2>1. spawned' = spawned /\ spawned # <<>>
    BY <1>2 DEF PressedIsAlone
  <2>2. ~Connecting(Head(spawned).uid) /\ Tail(spawned) = <<>>
    BY <2>1 DEF PressedIsAlone
  <2>3. ~Connecting(Head(spawned).uid)'
    BY <1>2, <2>1, <2>2 DEF Connecting
  <2>4. QED BY <2>1, <2>2, <2>3 DEF PressedIsAlone
<1>3. QED BY <1>1, <1>2

LEMMA SoloCorrect ==
    ASSUME Patient, Rebooters = {}
    PROVE  Spec /\ []OneStaleAtATime => []Solo
<1>1. Init => Solo
  BY DomainsAssumption DEF Init, Solo, Single, OpeningIsBusy, OneConnectAtATime,
     NoLeakedChannel, OpeningIsShut, InUseIsNamed, PressedIsAlone, EnabledIsIdle,
     NeverRestarts, NoObj, Connecting
<1>2. TypeOK /\ Handles /\ Solo /\ OneStaleAtATime /\ [Next]_vars => Solo'
  <2> SUFFICES ASSUME TypeOK, Handles, Solo, OneStaleAtATime, [Next]_vars PROVE Solo'
    OBVIOUS
  <2>1. CASE UNCHANGED <<obj, open, busy, reboot, spawned, refresh, ui_vars>>
    BY <2>1 DEF Solo, Single, OpeningIsBusy, OneConnectAtATime, NoLeakedChannel,
       OpeningIsShut, InUseIsNamed, PressedIsAlone, EnabledIsIdle, NeverRestarts, Connecting,
       ui_vars
  <2>2. ASSUME Single', reboot' = reboot, UNCHANGED ui_vars,
               refresh' \/ (busy' \subseteq busy /\ ~refresh),
               spawned' = spawned \/ (spawned # <<>> /\ spawned' = Tail(spawned)),
               \A d \in Slots : obj'[d].task = "opening" =>
                   (obj[d].task = "opening" /\ obj'[d].uid = obj[d].uid) \/ spawned' = <<>>
        PROVE  Solo'
    BY <2>2, EnabledKept, PressedKept DEF Solo, NeverRestarts
  <2>3. ASSUME NEW d \in Slots,
               StartConnect(d) \/ ConnectFails(d) \/ ConnectSucceeds(d) \/ FinishConnect(d)
        PROVE  Solo'
    <3>1. Single'
      BY <2>3, ConnectSingle DEF Solo, PressedIsAlone, StartConnect
    <3>2. /\ refresh' /\ reboot' = reboot /\ UNCHANGED ui_vars
          /\ (spawned' = spawned \/ (spawned # <<>> /\ spawned' = Tail(spawned)))
      BY <2>3 DEF StartConnect, ConnectFails, ConnectSucceeds, FinishConnect, MarkBusy
    <3>3. StartConnect(d) => spawned' = <<>>
      BY DEF StartConnect, Solo, PressedIsAlone
    <3>4. ~StartConnect(d) => \A c \in Slots : obj'[c].task = "opening" => obj'[c] = obj[c]
      <4>1. /\ ConnectFails(d) => obj' = [obj EXCEPT ![d] = NoObj]
            /\ ConnectSucceeds(d) =>
                  \E t \in {"none", "showing"} :
                      obj' = [obj EXCEPT ![d].task = t, ![d].chan = "open"]
            /\ FinishConnect(d) => obj' = [obj EXCEPT ![d].task = "none"]
        BY DEF ConnectFails, ConnectSucceeds, FinishConnect
      <4>2. obj \in [Slots -> ObjRecord] /\ NoObj.task = "none"
        BY DEF TypeOK, NoObj
      <4>3. QED BY <2>3, <4>1, <4>2 DEF ObjRecord
    <3>5. QED BY <2>2, <3>1, <3>2, <3>3, <3>4
  <2>4. CASE StartTeardown
    <3> DEFINE u == Head(spawned).uid
    <3>1. u \in Devices /\ ~Connecting(u)
      BY <2>4, SpawnedHead DEF StartTeardown, Solo, PressedIsAlone
    <3>2. /\ Forget({u}) /\ busy' = busy \ {u} /\ reboot' = reboot
          /\ spawned # <<>> /\ spawned' = Tail(spawned) /\ UNCHANGED ui_vars
          /\ \/ /\ open[u] # None /\ UNCHANGED refresh
                /\ obj' = [obj EXCEPT ![open[u]].chan = "closing", ![open[u]].by = None]
             \/ open[u] = None /\ refresh' = TRUE /\ UNCHANGED obj
      BY <2>4 DEF StartTeardown
    <3> HIDE DEF u
    <3>3. Single'
      BY <3>1, <3>2, ForgetSingle DEF Solo
    <3>4. \A d \in Slots : obj'[d].task = obj[d].task /\ obj'[d].uid = obj[d].uid
      BY <3>1, <3>2 DEF TypeOK, ObjRecord
    <3>5. refresh' \/ (busy' \subseteq busy /\ ~refresh)
      BY <3>2 DEF TypeOK
    <3>6. QED BY <2>2, <3>2, <3>3, <3>4, <3>5
  <2>5. ASSUME NEW d \in Slots, FinishTeardown(d)
        PROVE  Solo'
    <3>1. /\ obj[d].chan = "closing" /\ obj' = Closed(obj, d)
          /\ UNCHANGED <<open, busy, reboot, spawned, ui_vars>> /\ refresh'
      BY <2>5 DEF FinishTeardown, handles
    <3>2. Single'
      BY <3>1, ClosedSingle DEF Solo
    <3>3. \A c \in Slots : obj'[c].task = "opening" =>
             obj[c].task = "opening" /\ obj'[c].uid = obj[c].uid
      BY <3>1 DEF Closed, NoObj, TypeOK, ObjRecord
    <3>4. QED BY <2>2, <3>1, <3>2, <3>3
  <2>6. CASE \/ \E s \in Enumerations : SaveDone(s)
             \/ \E d \in Slots : DropDone(d)
    <3>1. Single'
      BY <2>6, SweepSingle DEF Solo
    <3>2. PICK s \in Enumerations, T \in SUBSET Devices, o \in [Slots -> ObjRecord] :
            /\ Continue(s, T, o)
            /\ \A d \in Slots : o[d].task = "opening" =>
                   obj[d].task = "opening" /\ o[d].uid = obj[d].uid
      <4>1. ASSUME NEW s \in Enumerations, SaveDone(s)
            PROVE  Continue(s, {u \in Devices : Stale(u)}, obj)
        BY <4>1 DEF SaveDone
      <4>2. ASSUME NEW d \in Slots, DropDone(d)
            PROVE  /\ obj[d].by \in Enumerations /\ sweep[obj[d].by].todo \in SUBSET Devices
                   /\ Continue(obj[d].by, sweep[obj[d].by].todo, Closed(obj, d))
        BY <4>2 DEF DropDone, TypeOK, ObjRecord, SweepRecord
      <4>3. \A d, c \in Slots : Closed(obj, d)[c].task = "opening" =>
               obj[c].task = "opening" /\ Closed(obj, d)[c].uid = obj[c].uid
        BY DEF Closed, NoObj, TypeOK, ObjRecord
      <4>4. obj \in [Slots -> ObjRecord] /\ {u \in Devices : Stale(u)} \in SUBSET Devices
        BY DEF TypeOK
      <4>5. QED BY <2>6, <4>1, <4>2, <4>3, <4>4, ClosedType
    <3>3. DropNext(s, T, o) \/ EndSweep(s, T, o)
      BY <3>2 DEF Continue, EndRebootSweep, Solo, NeverRestarts
    <3>4. /\ busy' \subseteq busy /\ reboot' = reboot
          /\ \A d \in Slots : obj'[d].task = o[d].task /\ obj'[d].uid = o[d].uid
      <4>1. CASE EndSweep(s, T, o)
        BY <4>1 DEF EndSweep
      <4>2. CASE DropNext(s, T, o)
        <5>1. PICK u \in T : /\ obj' = [o EXCEPT ![open[u]].chan = "closing", ![open[u]].by = s]
                             /\ busy' \subseteq busy /\ reboot' = reboot
          BY <4>2 DEF DropNext
        <5>2. QED BY <5>1 DEF ObjRecord
      <4>3. QED BY <3>3, <4>1, <4>2
    <3>5. UNCHANGED <<spawned, ui_vars>> /\ (refresh' \/ ~refresh)
      BY <2>6 DEF SaveDone, DropDone, TypeOK
    <3>6. QED BY <2>2, <3>1, <3>2, <3>4, <3>5
  <2>7. CASE \/ PressConnect \/ PressDisconnect \/ RefreshUI
             \/ \E u \in Devices : Select(u)
    BY <2>7, PressSingle
  <2>8. CASE \/ \E u \in Devices : Move(u)
             \/ \E s \in Sweeps : Rescan(s) \/ HotplugSweep(s)
             \/ \E s \in Enumerations : Apply(s)
             \/ UNCHANGED vars
    <3>1. UNCHANGED <<obj, open, busy, reboot, spawned, refresh, ui_vars>>
      BY <2>8 DEF Move, Rescan, HotplugSweep, ReadBus, Apply, vars, handles
    <3>2. QED BY <2>1, <3>1
  <2>9. CASE RefuseConnect
    <3>1. /\ UNCHANGED <<obj, open, busy, reboot, refresh, ui_vars>>
          /\ spawned # <<>> /\ spawned' = Tail(spawned)
      BY <2>9 DEF RefuseConnect, handles
    <3>2. Single' /\ (refresh' \/ (busy' \subseteq busy /\ ~refresh))
      BY <3>1 DEF Solo, Single, OpeningIsBusy, OneConnectAtATime, NoLeakedChannel,
         OpeningIsShut, InUseIsNamed, Connecting, TypeOK
    <3>3. QED BY <2>2, <3>1, <3>2
  <2>10. ASSUME NEW s \in Enumerations, SaveFails(s)
         PROVE  Solo'
    <3>1. /\ UNCHANGED <<obj, open, busy, spawned, ui_vars>> /\ reboot' = reboot
          /\ (refresh' \/ ~refresh)
      BY <2>10 DEF SaveFails, handles, Solo, NeverRestarts, TypeOK
    <3>2. Single'
      BY <3>1 DEF Solo, Single, OpeningIsBusy, OneConnectAtATime, NoLeakedChannel,
         OpeningIsShut, InUseIsNamed, Connecting
    <3>3. QED BY <2>2, <3>1, <3>2
  <2>11. /\ \A u \in Devices : /\ ~WriteRebooting(u) /\ ~LinkDrops(u) /\ ~RebootSweep(u)
                               /\ ~DropTimeout(u) /\ ~ReturnTimeout(u)
         /\ \A d \in Slots : ~RebootClosed(d)
    BY DEF Solo, NeverRestarts, WriteRebooting, LinkDrops, RebootSweep, DropTimeout,
       ReturnTimeout, RebootClosed
  <2>12. QED
    BY <2>3, <2>4, <2>5, <2>6, <2>7, <2>8, <2>9, <2>10, <2>11 DEF Next, User, Loop
<1>3. Spec => [](OpenIsLive /\ OpenIsPolled /\ TasksAreTheirDevices)
  BY HandlesCorrect
<1>4. Handles <=> OpenIsLive /\ OpenIsPolled /\ TasksAreTheirDevices
  BY DEF Handles
<1>5. QED BY <1>1, <1>2, <1>3, <1>4, TypeCorrect, PTL DEF Spec

\* A user who waits for the page between two presses, and devices with no setting that restarts
\* them: as long as no sweep finds two stale handles at once, a device is opened by one _connect
\* at a time, and is marked as opening for as long as that one runs (_busy_uids is all that
\* keeps a second press of Connect from starting a second one).
THEOREM ConnectsCorrect ==
    ASSUME Patient, Rebooters = {}
    PROVE  Spec /\ []OneStaleAtATime => [](OneConnectAtATime /\ OpeningIsBusy)
<1>1. Solo => OneConnectAtATime /\ OpeningIsBusy
  BY DEF Solo, Single
<1>2. QED BY <1>1, SoloCorrect, PTL

\* Of the same user and devices: every open channel is in _open, where a teardown finds it, so
\* that none is left open that nobody will ever close.
THEOREM ChannelsCorrect ==
    ASSUME Patient, Rebooters = {}
    PROVE  Spec /\ []OneStaleAtATime => []NoLeakedChannel
<1>1. Solo => NoLeakedChannel
  BY DEF Solo, Single
<1>2. QED BY <1>1, SoloCorrect, PTL

\* With one device on the buses a sweep never finds two stale handles, so that there the two
\* theorems hold of every run: what _drop_stale has left to close is never more than that one.
THEOREM OneDeviceCorrect ==
    ASSUME NEW u, Devices = {u}
    PROVE  Spec => []OneStaleAtATime
<1>1. Init => OneStaleAtATime
  BY DEF Init, OneStaleAtATime, IdleSweep
<1>2. TypeOK /\ OneStaleAtATime /\ [Next]_vars => OneStaleAtATime'
  <2> SUFFICES ASSUME TypeOK, OneStaleAtATime, [Next]_vars PROVE OneStaleAtATime'
    OBVIOUS
  <2>1. CASE UNCHANGED sweep
    BY <2>1 DEF OneStaleAtATime
  <2>2. ASSUME NEW s \in Enumerations, NEW r, r.todo = {}, sweep' = [sweep EXCEPT ![s] = r]
        PROVE  OneStaleAtATime'
    BY <2>2 DEF OneStaleAtATime, TypeOK
  <2>3. ASSUME NEW s \in Enumerations, NEW T \in SUBSET Devices, NEW o, Continue(s, T, o)
        PROVE  OneStaleAtATime'
    <3>1. CASE DropNext(s, T, o)
      <4>1. PICK v \in T, K \in SUBSET T :
               sweep' = [sweep EXCEPT ![s] = [IdleSweep EXCEPT !.pc = "dropping",
                                                               !.todo = T \ (K \cup {v})]]
        BY <3>1 DEF DropNext
      <4>2. T \ (K \cup {v}) = {}
        BY <4>1
      <4>3. [IdleSweep EXCEPT !.pc = "dropping", !.todo = T \ (K \cup {v})].todo = {}
        BY <4>2 DEF IdleSweep
      <4>4. QED BY <2>2, <4>1, <4>3
    <3>2. CASE EndSweep(s, T, o) \/ EndRebootSweep(s, T, o)
      <4>1. sweep' = [sweep EXCEPT ![s] = IdleSweep] /\ IdleSweep.todo = {}
        BY <3>2 DEF EndSweep, EndRebootSweep, DropLast, IdleSweep
      <4>2. QED BY <2>2, <4>1
    <3>3. QED BY <2>3, <3>1, <3>2 DEF Continue
  <2>4. ASSUME NEW s \in Enumerations, ReadBus(s)
        PROVE  OneStaleAtATime'
    BY <2>2, <2>4 DEF ReadBus
  <2>5. CASE \/ \E s \in Sweeps : Rescan(s) \/ HotplugSweep(s)
             \/ \E v \in Devices : RebootSweep(v)
    BY <2>4, <2>5 DEF Rescan, HotplugSweep, RebootSweep, Enumerations
  <2>6. ASSUME NEW s \in Enumerations, Apply(s) \/ SaveFails(s)
        PROVE  OneStaleAtATime'
    <3>1. [IdleSweep EXCEPT !.pc = "saving"].todo = {} /\ IdleSweep.todo = {}
      BY DEF IdleSweep
    <3>2. QED BY <2>2, <2>6, <3>1 DEF Apply, SaveFails
  <2>7. ASSUME NEW s \in Enumerations, SaveDone(s)
        PROVE  OneStaleAtATime'
    BY <2>3, <2>7 DEF SaveDone
  <2>8. ASSUME NEW d \in Slots, DropDone(d)
        PROVE  OneStaleAtATime'
    <3>1. /\ obj[d].by \in Enumerations /\ sweep[obj[d].by].todo \in SUBSET Devices
          /\ Continue(obj[d].by, sweep[obj[d].by].todo, Closed(obj, d))
      BY <2>8 DEF DropDone, TypeOK, ObjRecord, SweepRecord
    <3>2. QED BY <2>3, <3>1
  <2>9. CASE \/ \E v \in Devices : \/ Move(v) \/ Select(v) \/ WriteRebooting(v)
                                   \/ LinkDrops(v) \/ DropTimeout(v) \/ ReturnTimeout(v)
             \/ PressConnect \/ PressDisconnect \/ RefreshUI \/ RefuseConnect \/ StartTeardown
             \/ \E d \in Slots : \/ StartConnect(d) \/ ConnectFails(d) \/ ConnectSucceeds(d)
                                 \/ FinishConnect(d) \/ FinishTeardown(d) \/ RebootClosed(d)
             \/ UNCHANGED vars
    <3>1. UNCHANGED sweep
      BY <2>9 DEF Move, Select, WriteRebooting, LinkDrops, DropTimeout, ReturnTimeout,
         PressConnect, PressDisconnect, Press, RefreshUI, RefuseConnect, StartTeardown,
         StartConnect, ConnectFails, ConnectSucceeds, FinishConnect, FinishTeardown,
         RebootClosed, vars, scan_vars
    <3>2. QED BY <2>1, <3>1
  <2>10. QED
    BY <2>5, <2>6, <2>7, <2>8, <2>9 DEF Next, User, Loop
<1>3. QED BY <1>1, <1>2, TypeCorrect, PTL DEF Spec

-----------------------------------------------------------------------------
(* SweepHistory: a sweep nothing disturbs.                                   *)

\* A sweep nothing has disturbed is the only one, while no _connect runs; what it has read is
\* the buses, and so is _devices once it has applied that; and what is stale by _devices is
\* among what it still has to drop, since a handle that goes meanwhile only takes one away.
Undisturbed ==
    \A s \in calm :
        /\ s \in Enumerations
        /\ \A t \in Enumerations \ {s} : sweep[t].pc = "idle"
        /\ \A d \in Slots : obj[d].task = "none"
        /\ sweep[s].pc = "swept" => (sweep[s].found = bus)
        /\ sweep[s].pc \in {"saving", "dropping"} => (devices = bus)
        /\ sweep[s].pc = "dropping" => \A u \in Devices : Stale(u) => u \in sweep[s].todo

\* The handles that are held after a step were held before it, by the same object at the
\* same node.
HandlesOnlyGo ==
    \A u \in Devices : open'[u] # None =>
        open'[u] = open[u] /\ obj'[open[u]].path = obj[open[u]].path

\* No step of a sweep gives a handle to a uid, or touches the object of one it leaves open;
\* and its last step finds nothing open in what it had to drop.
LEMMA ContinueOnlyDrops ==
    ASSUME TypeOK, Handles,
           NEW s \in Enumerations, NEW T \in SUBSET Devices, NEW o \in [Slots -> ObjRecord],
           \A v \in Devices : open[v] # None => o[open[v]] = obj[open[v]],
           \A d \in running : o[d].task = "none" /\ o[d].uid = obj[d].uid,
           Continue(s, T, o)
    PROVE  /\ HandlesOnlyGo
           /\ \A t \in Enumerations \ {s} : sweep'[t] = sweep[t]
           /\ \/ /\ sweep'[s].pc = "dropping"
                 /\ \A u \in T : open'[u] # None => u \in sweep'[s].todo
              \/ /\ sweep'[s].pc = "idle"
                 /\ \A u \in T : open'[u] = None
<1>1. sweep \in [Enumerations -> SweepRecord]
  BY DEF TypeOK
<1>2. CASE DropNext(s, T, o)
  <2>1. PICK u \in T, K \in SUBSET {v \in T : open[v] = None} :
          /\ open[u] # None /\ Forget(K \cup {u})
          /\ obj' = [o EXCEPT ![open[u]].chan = "closing", ![open[u]].by = s]
          /\ sweep' = [sweep EXCEPT ![s] = [IdleSweep EXCEPT !.pc = "dropping",
                                                             !.todo = T \ (K \cup {u})]]
    BY <1>2 DEF DropNext
  <2>2. \A v \in Devices \ {u} : open[v] # None => obj'[open[v]] = obj[open[v]]
    BY <2>1, ClosingKeepsHandles
  <2>3. \A v \in Devices : open'[v] = IF v \in K \cup {u} THEN None ELSE open[v]
    BY <2>1 DEF Forget
  <2>4. HandlesOnlyGo
    BY <2>2, <2>3 DEF HandlesOnlyGo
  <2>5. /\ sweep'[s].pc = "dropping" /\ sweep'[s].todo = T \ (K \cup {u})
        /\ \A t \in Enumerations \ {s} : sweep'[t] = sweep[t]
    BY <1>1, <2>1 DEF IdleSweep
  <2>6. QED BY <2>3, <2>4, <2>5
<1>3. CASE EndSweep(s, T, o) \/ EndRebootSweep(s, T, o)
  <2>1. /\ \A u \in T : open[u] = None
        /\ Forget(T) /\ sweep' = [sweep EXCEPT ![s] = IdleSweep]
        /\ obj' = o \/ \E d \in Slots : Unused(d) /\ obj' = [o EXCEPT ![d] = Opening(s)]
    BY <1>3 DEF EndSweep, EndRebootSweep, DropLast
  <2>2. \A v \in Devices : open[v] # None => obj'[open[v]] = obj[open[v]]
    BY <2>1, OpeningKeepsHandles
  <2>3. \A v \in Devices : open'[v] = IF v \in T THEN None ELSE open[v]
    BY <2>1 DEF Forget
  <2>4. HandlesOnlyGo
    BY <2>2, <2>3 DEF HandlesOnlyGo
  <2>5. /\ sweep'[s].pc = "idle"
        /\ \A t \in Enumerations \ {s} : sweep'[t] = sweep[t]
    BY <1>1, <2>1 DEF IdleSweep
  <2>6. QED BY <2>3, <2>4, <2>5
<1>4. QED BY <1>2, <1>3 DEF Continue

\* Both steps that drop are such a step of the sweep they are of, on what was stale or is
\* still to be dropped.
LEMMA DropStep ==
    ASSUME TypeOK, Handles,
           \/ \E s \in Enumerations : SaveDone(s)
           \/ \E d \in Slots : DropDone(d)
    PROVE  \E s \in Enumerations, T \in SUBSET Devices, o \in [Slots -> ObjRecord] :
             /\ Continue(s, T, o)
             /\ \A v \in Devices : open[v] # None => o[open[v]] = obj[open[v]]
             /\ \A d \in running : o[d].task = "none" /\ o[d].uid = obj[d].uid
             /\ \/ sweep[s].pc = "saving" /\ T = {u \in Devices : Stale(u)}
                \/ sweep[s].pc = "dropping" /\ T = sweep[s].todo
             /\ UNCHANGED <<bus, devices>>
<1>1. ASSUME NEW s \in Enumerations, SaveDone(s)
      PROVE  /\ Continue(s, {u \in Devices : Stale(u)}, obj) /\ sweep[s].pc = "saving"
             /\ {u \in Devices : Stale(u)} \in SUBSET Devices /\ obj \in [Slots -> ObjRecord]
             /\ \A d \in running : obj[d].task = "none"
             /\ UNCHANGED <<bus, devices>>
  BY <1>1 DEF SaveDone, TypeOK, Handles, TasksAreTheirDevices, bus_vars
<1>2. ASSUME NEW d \in Slots, DropDone(d)
      PROVE  /\ obj[d].by \in Enumerations /\ sweep[obj[d].by].todo \in SUBSET Devices
             /\ Continue(obj[d].by, sweep[obj[d].by].todo, Closed(obj, d))
             /\ sweep[obj[d].by].pc = "dropping" /\ obj[d].chan = "closing"
             /\ UNCHANGED <<bus, devices>>
  BY <1>2 DEF DropDone, TypeOK, ObjRecord, SweepRecord, bus_vars
<1>3. CASE \E s \in Enumerations : SaveDone(s)
  BY <1>1, <1>3
<1>4. ASSUME NEW d \in Slots, DropDone(d)
      PROVE  \E s \in Enumerations, T \in SUBSET Devices, o \in [Slots -> ObjRecord] :
               /\ Continue(s, T, o)
               /\ \A v \in Devices : open[v] # None => o[open[v]] = obj[open[v]]
               /\ \A c \in running : o[c].task = "none" /\ o[c].uid = obj[c].uid
               /\ sweep[s].pc = "dropping" /\ T = sweep[s].todo
               /\ UNCHANGED <<bus, devices>>
  <2>1. /\ obj \in [Slots -> ObjRecord]
        /\ Closed(obj, d) \in [Slots -> ObjRecord]
    BY ClosedType DEF TypeOK
  <2>2. /\ \A v \in Devices : open[v] # None => Closed(obj, d)[open[v]] = obj[open[v]]
        /\ \A c \in running : /\ Closed(obj, d)[c].task = "none"
                              /\ Closed(obj, d)[c].uid = obj[c].uid
    BY <1>2, <1>4, ClosedKeepsHandles
  <2>3. QED BY <1>2, <1>4, <2>1, <2>2
<1>5. QED BY <1>3, <1>4

\* A step that begins no connect and ends none only takes handles away.
LEMMA HandlesKeepNode ==
    ASSUME TypeOK, Handles, Next, \A d \in Slots : obj'[d].task = obj[d].task
    PROVE  HandlesOnlyGo
<1>1. obj \in [Slots -> ObjRecord] /\ open \in [Devices -> Slots \cup {None}]
  BY DEF TypeOK
<1>2. CASE UNCHANGED <<obj, open>>
  BY <1>2 DEF HandlesOnlyGo
<1>3. ASSUME NEW d \in Slots,
             \/ StartConnect(d) \/ ConnectFails(d) \/ ConnectSucceeds(d) \/ FinishConnect(d)
      PROVE  FALSE
  <2>1. StartConnect(d) => /\ obj' = [obj EXCEPT ![d] = Opening(Head(spawned).uid)]
                           /\ obj[d].task = "none"
    BY DEF StartConnect, Unused
  <2>2. ConnectFails(d) => obj' = [obj EXCEPT ![d] = NoObj] /\ obj[d].task = "opening"
    BY DEF ConnectFails
  <2>3. ConnectSucceeds(d) =>
          /\ \E t \in {"none", "showing"} :
                 obj' = [obj EXCEPT ![d].task = t, ![d].chan = "open"]
          /\ obj[d].task = "opening"
    BY DEF ConnectSucceeds
  <2>4. FinishConnect(d) => obj' = [obj EXCEPT ![d].task = "none"] /\ obj[d].task = "showing"
    BY DEF FinishConnect
  <2>5. \A u : Opening(u).task = "opening" /\ NoObj.task = "none"
    BY DEF Opening, NoObj
  <2>6. ~StartConnect(d) /\ ~ConnectFails(d)
    BY <1>1, <2>1, <2>2, <2>5
  <2>7. ~ConnectSucceeds(d)
    BY <1>1, <2>3 DEF ObjRecord
  <2>8. ~FinishConnect(d)
    BY <1>1, <2>4 DEF ObjRecord
  <2>9. QED BY <1>3, <2>6, <2>7, <2>8
<1>4. ASSUME NEW u \in Devices, DropTimeout(u)
      PROVE  UNCHANGED <<obj, open>>
  <2>1. ASSUME NEW d \in Slots, Unused(d), obj' = [obj EXCEPT ![d] = Opening(u)]
        PROVE  FALSE
    BY <1>1, <2>1 DEF Unused, Opening
  <2>2. QED BY <1>4, <2>1 DEF DropTimeout, handles
<1>5. ASSUME NEW d \in Slots, FinishTeardown(d) \/ RebootClosed(d)
      PROVE  HandlesOnlyGo
  BY <1>5, ClosedKeepsHandles DEF FinishTeardown, RebootClosed, HandlesOnlyGo, handles
<1>6. ASSUME NEW u \in Devices, Forget({u}),
             \/ UNCHANGED obj
             \/ /\ open[u] # None
                /\ \E b : obj' = [obj EXCEPT ![open[u]].chan = "closing", ![open[u]].by = b]
      PROVE  HandlesOnlyGo
  <2>1. \A v \in Devices : open'[v] = IF v = u THEN None ELSE open[v]
    BY <1>6 DEF Forget
  <2>2. \A d \in Slots : obj'[d].path = obj[d].path
    BY <1>1, <1>6 DEF ObjRecord
  <2>3. QED BY <1>1, <2>1, <2>2 DEF HandlesOnlyGo
<1>7. CASE StartTeardown \/ \E u \in Devices : LinkDrops(u)
  BY <1>6, <1>7, SpawnedHead DEF StartTeardown, LinkDrops
<1>8. CASE \/ \E s \in Enumerations : SaveDone(s)
           \/ \E d \in Slots : DropDone(d)
  BY <1>8, DropStep, ContinueOnlyDrops
<1>9. CASE User \/ RefreshUI \/ RefuseConnect
  BY <1>2, <1>9 DEF User, Move, Select, WriteRebooting, PressConnect, PressDisconnect, Press,
     Rescan, ReadBus, RefreshUI, RefuseConnect, handles
<1>10. CASE \/ \E s \in Sweeps : HotplugSweep(s)
            \/ \E s \in Enumerations : Apply(s) \/ SaveFails(s)
            \/ \E u \in Devices : RebootSweep(u) \/ ReturnTimeout(u)
  BY <1>2, <1>10 DEF HotplugSweep, ReadBus, Apply, SaveFails, RebootSweep, ReturnTimeout,
     handles
<1>11. QED
  BY <1>2, <1>3, <1>4, <1>5, <1>7, <1>8, <1>9, <1>10 DEF Next, Loop

\* A read of the buses is the only step after which a sweep has an answer to apply.
LEMMA ReadingIsReadBus ==
    ASSUME TypeOK, Next, NEW s \in Enumerations, Reading(s)
    PROVE  /\ sweep' = [sweep EXCEPT ![s] = [pc |-> "swept", found |-> bus, todo |-> {}]]
           /\ UNCHANGED <<bus, obj>>
<1>1. sweep \in [Enumerations -> SweepRecord]
  BY DEF TypeOK
<1>2. ASSUME NEW t \in Enumerations, ReadBus(t)
      PROVE  /\ sweep' = [sweep EXCEPT ![s] = [pc |-> "swept", found |-> bus, todo |-> {}]]
             /\ UNCHANGED <<bus, obj>>
  BY <1>1, <1>2 DEF ReadBus, Reading, bus_vars
<1>3. ASSUME NEW t \in Enumerations, NEW r, r.pc # "swept", sweep' = [sweep EXCEPT ![t] = r]
      PROVE  FALSE
  BY <1>1, <1>3 DEF Reading
<1>4. ~ UNCHANGED sweep
  BY DEF Reading
<1>5. CASE \/ \E t \in Sweeps : Rescan(t) \/ HotplugSweep(t)
           \/ \E u \in Devices : RebootSweep(u)
  BY <1>2, <1>5 DEF Rescan, HotplugSweep, RebootSweep, Enumerations
<1>6. ASSUME NEW t \in Enumerations, Apply(t) \/ SaveFails(t)
      PROVE  FALSE
  <2>1. [IdleSweep EXCEPT !.pc = "saving"].pc = "saving" /\ IdleSweep.pc = "idle"
    BY DEF IdleSweep
  <2>2. QED BY <1>3, <1>6, <2>1 DEF Apply, SaveFails
<1>7. ASSUME NEW t \in Enumerations, NEW T, NEW o, Continue(t, T, o)
      PROVE  FALSE
  <2>1. /\ IdleSweep.pc = "idle"
        /\ \A x : [IdleSweep EXCEPT !.pc = "dropping", !.todo = x].pc = "dropping"
    BY DEF IdleSweep
  <2>2. \/ sweep' = [sweep EXCEPT ![t] = IdleSweep]
        \/ \E x : sweep' = [sweep EXCEPT ![t] =
                                [IdleSweep EXCEPT !.pc = "dropping", !.todo = x]]
    BY <1>7 DEF Continue, DropNext, EndSweep, EndRebootSweep, DropLast
  <2>3. QED BY <1>3, <2>1, <2>2
<1>8. CASE \/ \E t \in Enumerations : SaveDone(t)
           \/ \E d \in Slots : DropDone(d)
  BY <1>7, <1>8 DEF SaveDone, DropDone, TypeOK, ObjRecord
<1>9. CASE \/ \E v \in Devices : \/ Move(v) \/ Select(v) \/ WriteRebooting(v)
                                 \/ LinkDrops(v) \/ DropTimeout(v) \/ ReturnTimeout(v)
           \/ PressConnect \/ PressDisconnect \/ RefreshUI \/ RefuseConnect \/ StartTeardown
  BY <1>4, <1>9 DEF Move, Select, WriteRebooting, LinkDrops, DropTimeout, ReturnTimeout,
     PressConnect, PressDisconnect, Press, RefreshUI, RefuseConnect, StartTeardown, scan_vars
<1>10. CASE \E d \in Slots : \/ StartConnect(d) \/ ConnectFails(d) \/ ConnectSucceeds(d)
                             \/ FinishConnect(d) \/ FinishTeardown(d) \/ RebootClosed(d)
  BY <1>4, <1>10 DEF StartConnect, ConnectFails, ConnectSucceeds, FinishConnect,
     FinishTeardown, RebootClosed, scan_vars
<1>11. QED BY <1>5, <1>6, <1>8, <1>9, <1>10 DEF Next, User, Loop

\* A sweep that begins alone is undisturbed.
LEMMA ReadingUndisturbed ==
    ASSUME TypeOK, CalmNext, NEW s \in Enumerations, Reading(s), Alone(s)
    PROVE  /\ \A t \in Enumerations \ {s} : sweep'[t].pc = "idle"
           /\ \A d \in Slots : obj'[d].task = "none"
           /\ sweep'[s].pc = "swept" /\ sweep'[s].found = bus'
<1>1. /\ sweep' = [sweep EXCEPT ![s] = [pc |-> "swept", found |-> bus, todo |-> {}]]
      /\ UNCHANGED <<bus, obj>>
  BY ReadingIsReadBus DEF CalmNext
<1>2. QED BY <1>1 DEF TypeOK, Alone

\* What a step leaves of a sweep that stays undisturbed: its own steps take it from the
\* answer to the rows, and from the rows to what is stale by them.
LEMMA StaysUndisturbed ==
    ASSUME TypeOK, Handles, Undisturbed, Next, NEW s \in calm,
           bus' = bus, \A d \in Slots : obj'[d].task = obj[d].task,
           \A t \in Enumerations : ~Reading(t)
    PROVE  /\ \A t \in Enumerations \ {s} : sweep'[t].pc = "idle"
           /\ sweep'[s].pc = "swept" => (sweep'[s].found = bus)
           /\ sweep'[s].pc \in {"saving", "dropping"} => (devices' = bus)
           /\ sweep'[s].pc = "dropping" => \A u \in Devices : Stale(u)' => u \in sweep'[s].todo
<1>1. /\ s \in Enumerations /\ \A t \in Enumerations \ {s} : sweep[t].pc = "idle"
      /\ sweep[s].pc = "swept" => (sweep[s].found = bus)
      /\ sweep[s].pc \in {"saving", "dropping"} => (devices = bus)
      /\ sweep[s].pc = "dropping" => \A u \in Devices : Stale(u) => u \in sweep[s].todo
      /\ sweep \in [Enumerations -> SweepRecord]
  BY DEF Undisturbed, TypeOK
<1>2. HandlesOnlyGo
  BY HandlesKeepNode
<1>3. ASSUME UNCHANGED devices, NEW u \in Devices, Stale(u)'
      PROVE  Stale(u) /\ open'[u] # None
  BY <1>2, <1>3 DEF Stale, HandlesOnlyGo
<1>4. CASE UNCHANGED <<sweep, devices>>
  BY <1>1, <1>3, <1>4
<1>5. ASSUME NEW t \in Enumerations, ReadBus(t)
      PROVE  FALSE
  BY <1>1, <1>5 DEF ReadBus, Reading
<1>6. ASSUME NEW t \in Enumerations, Apply(t)
      PROVE  /\ \A c \in Enumerations \ {s} : sweep'[c].pc = "idle"
             /\ sweep'[s].pc = "saving" /\ devices' = bus
  <2>1. t = s /\ sweep[t].pc = "swept"
    BY <1>1, <1>6 DEF Apply
  <2>2. /\ devices' = bus
        /\ sweep' = [sweep EXCEPT ![s] = [IdleSweep EXCEPT !.pc = "saving"]]
    BY <1>1, <1>6, <2>1 DEF Apply
  <2>3. QED BY <1>1, <2>2 DEF IdleSweep
<1>7. ASSUME NEW t \in Enumerations, SaveFails(t)
      PROVE  FALSE
  BY <1>1, <1>7 DEF SaveFails
<1>8. CASE \/ \E t \in Enumerations : SaveDone(t)
           \/ \E d \in Slots : DropDone(d)
  <2>1. PICK t \in Enumerations, T \in SUBSET Devices, o \in [Slots -> ObjRecord] :
          /\ Continue(t, T, o)
          /\ \A v \in Devices : open[v] # None => o[open[v]] = obj[open[v]]
          /\ \A d \in running : o[d].task = "none" /\ o[d].uid = obj[d].uid
          /\ \/ sweep[t].pc = "saving" /\ T = {u \in Devices : Stale(u)}
             \/ sweep[t].pc = "dropping" /\ T = sweep[t].todo
          /\ UNCHANGED <<bus, devices>>
    BY <1>8, DropStep
  <2>2. t = s
    BY <1>1, <2>1
  <2>3. /\ \A c \in Enumerations \ {s} : sweep'[c] = sweep[c]
        /\ \/ /\ sweep'[s].pc = "dropping"
              /\ \A u \in T : open'[u] # None => u \in sweep'[s].todo
           \/ sweep'[s].pc = "idle"
    BY <2>1, <2>2, ContinueOnlyDrops
  <2>4. \A u \in Devices : Stale(u) => u \in T
    BY <1>1, <2>1, <2>2
  <2>5. QED BY <1>1, <1>3, <2>1, <2>2, <2>3, <2>4
<1>9. CASE \/ \E v \in Devices : \/ Move(v) \/ Select(v) \/ WriteRebooting(v)
                                 \/ LinkDrops(v) \/ DropTimeout(v) \/ ReturnTimeout(v)
           \/ PressConnect \/ PressDisconnect \/ RefreshUI \/ RefuseConnect \/ StartTeardown
  <2>1. UNCHANGED <<sweep, devices>>
    BY <1>9 DEF Move, Select, WriteRebooting, LinkDrops, DropTimeout, ReturnTimeout,
       PressConnect, PressDisconnect, Press, RefreshUI, RefuseConnect, StartTeardown, scan_vars
  <2>2. QED BY <1>4, <2>1
<1>10. CASE \E d \in Slots : \/ StartConnect(d) \/ ConnectFails(d) \/ ConnectSucceeds(d)
                             \/ FinishConnect(d) \/ FinishTeardown(d) \/ RebootClosed(d)
  <2>1. UNCHANGED <<sweep, devices>>
    BY <1>10 DEF StartConnect, ConnectFails, ConnectSucceeds, FinishConnect, FinishTeardown,
       RebootClosed, scan_vars
  <2>2. QED BY <1>4, <2>1
<1>11. ~ \E t \in Sweeps : Rescan(t) \/ HotplugSweep(t)
  BY <1>5 DEF Rescan, HotplugSweep, Enumerations
<1>12. ~ \E u \in Devices : RebootSweep(u)
  BY <1>5 DEF RebootSweep, Enumerations
<1>13. CASE \E t \in Enumerations : Apply(t)
  BY <1>1, <1>6, <1>13
<1>14. QED
  BY <1>7, <1>8, <1>9, <1>10, <1>11, <1>12, <1>13 DEF Next, User, Loop

LEMMA UndisturbedKept ==
    TypeOK /\ Handles /\ Undisturbed /\ [CalmNext]_<<vars, calm>> => Undisturbed'
<1> SUFFICES ASSUME TypeOK, Handles, Undisturbed, [CalmNext]_<<vars, calm>>
             PROVE  Undisturbed'
  OBVIOUS
<1>1. CASE UNCHANGED <<vars, calm>>
  BY <1>1 DEF Undisturbed, Stale, vars, bus_vars, scan_vars, handles, ui_vars
<1>2. CASE CalmNext
  <2>1. CASE \E s \in Enumerations : Reading(s)
    <3>1. calm' = {s \in Enumerations : Reading(s) /\ Alone(s)}
      BY <1>2, <2>1 DEF CalmNext
    <3>2. QED BY <1>2, <3>1, ReadingUndisturbed DEF Undisturbed
  <2>2. CASE ~ \E s \in Enumerations : Reading(s)
    <3>1. calm' = IF Disturbance THEN {} ELSE calm
      BY <1>2, <2>2 DEF CalmNext
    <3>2. CASE Disturbance
      BY <3>1, <3>2 DEF Undisturbed
    <3>3. CASE ~Disturbance
      <4>1. /\ calm' = calm /\ bus' = bus /\ Next
            /\ \A d \in Slots : obj'[d].task = obj[d].task
        BY <1>2, <3>1, <3>3 DEF Disturbance, CalmNext
      <4>2. \A s \in calm : s \in Enumerations /\ \A d \in Slots : obj[d].task = "none"
        BY DEF Undisturbed
      <4>3. QED BY <2>2, <4>1, <4>2, StaysUndisturbed DEF Undisturbed
    <3>4. QED BY <3>2, <3>3
  <2>3. QED BY <2>1, <2>2
<1>3. QED BY <1>1, <1>2

\* When a sweep ends that no plug, no connect and no other sweep disturbed since it read the
\* buses, every handle held is at the node the device is at.  What the awaits between the read,
\* the cache write and the disconnects let in (teardowns, presses, restarts up to their own
\* reconnect) only takes handles away, and what is stale is dropped or already gone (_drop_stale).
THEOREM CalmSweepCorrect == CalmSpec => CalmSweepLeavesNoStale
<1> DEFINE NoStaleLeft ==
      \A s \in Enumerations : Ends(s) /\ s \in calm =>
          \A u \in Devices : open'[u] # None =>
              bus[u] # Gone /\ bus[u].path = obj'[open'[u]].path
<1>1. CalmInit => Init /\ Undisturbed
  BY DEF CalmInit, Undisturbed
<1>2. [CalmNext]_<<vars, calm>> => [Next]_vars
  BY DEF CalmNext
<1>3. TypeOK /\ Handles /\ Undisturbed /\ [CalmNext]_<<vars, calm>> => [NoStaleLeft]_<<vars, calm>>
  <2> SUFFICES ASSUME TypeOK, Handles, Undisturbed, CalmNext,
                      NEW s \in Enumerations, Ends(s), s \in calm,
                      NEW u \in Devices, open'[u] # None
               PROVE  bus[u] # Gone /\ bus[u].path = obj'[open'[u]].path
    OBVIOUS
  <2>1. /\ \A t \in Enumerations \ {s} : sweep[t].pc = "idle"
        /\ sweep[s].pc \in {"saving", "dropping"} => (devices = bus)
        /\ sweep[s].pc = "dropping" => \A v \in Devices : Stale(v) => v \in sweep[s].todo
        /\ sweep \in [Enumerations -> SweepRecord]
    BY DEF Undisturbed, TypeOK
  <2>2. sweep[s].pc # "idle" /\ sweep'[s].pc = "idle" /\ Next
    BY DEF Ends, CalmNext
  <2>3. CASE \/ \E t \in Enumerations : SaveDone(t)
             \/ \E d \in Slots : DropDone(d)
    <3>1. PICK t \in Enumerations, T \in SUBSET Devices, o \in [Slots -> ObjRecord] :
            /\ Continue(t, T, o)
            /\ \A v \in Devices : open[v] # None => o[open[v]] = obj[open[v]]
            /\ \A d \in running : o[d].task = "none" /\ o[d].uid = obj[d].uid
            /\ \/ sweep[t].pc = "saving" /\ T = {v \in Devices : Stale(v)}
               \/ sweep[t].pc = "dropping" /\ T = sweep[t].todo
      BY <2>3, DropStep
    <3>2. t = s
      BY <2>1, <3>1
    <3>3. HandlesOnlyGo /\ \A v \in T : open'[v] = None
      BY <2>2, <3>1, <3>2, ContinueOnlyDrops
    <3>4. devices = bus /\ (Stale(u) => u \in T)
      BY <2>1, <3>1, <3>2
    <3>5. ~Stale(u) /\ open'[u] = open[u] /\ obj'[open'[u]].path = obj[open[u]].path
      BY <3>3, <3>4 DEF HandlesOnlyGo
    <3>6. QED BY <3>4, <3>5 DEF Stale
  <2>4. ASSUME NEW t \in Enumerations, SaveFails(t)
        PROVE  FALSE
    BY <2>1, <2>2, <2>4 DEF SaveFails
  <2>5. ASSUME NEW t \in Enumerations, NEW r, r.pc # "idle", sweep' = [sweep EXCEPT ![t] = r]
        PROVE  FALSE
    BY <2>1, <2>2, <2>5
  <2>6. ASSUME NEW t \in Enumerations, ReadBus(t) \/ Apply(t)
        PROVE  FALSE
    <3>1. [IdleSweep EXCEPT !.pc = "saving"].pc = "saving"
      BY DEF IdleSweep
    <3>2. QED BY <2>5, <2>6, <3>1 DEF ReadBus, Apply
  <2>7. CASE \/ \E v \in Devices : \/ Move(v) \/ Select(v) \/ WriteRebooting(v)
                                   \/ LinkDrops(v) \/ DropTimeout(v) \/ ReturnTimeout(v)
             \/ PressConnect \/ PressDisconnect \/ RefreshUI \/ RefuseConnect \/ StartTeardown
    BY <2>2, <2>7 DEF Move, Select, WriteRebooting, LinkDrops, DropTimeout, ReturnTimeout,
       PressConnect, PressDisconnect, Press, RefreshUI, RefuseConnect, StartTeardown, scan_vars
  <2>8. CASE \E d \in Slots : \/ StartConnect(d) \/ ConnectFails(d) \/ ConnectSucceeds(d)
                              \/ FinishConnect(d) \/ FinishTeardown(d) \/ RebootClosed(d)
    BY <2>2, <2>8 DEF StartConnect, ConnectFails, ConnectSucceeds, FinishConnect,
       FinishTeardown, RebootClosed, scan_vars
  <2>9. CASE \/ \E t \in Sweeps : Rescan(t) \/ HotplugSweep(t)
             \/ \E v \in Devices : RebootSweep(v)
    BY <2>6, <2>9 DEF Rescan, HotplugSweep, RebootSweep, Enumerations
  <2>10. QED BY <2>2, <2>3, <2>4, <2>6, <2>7, <2>8, <2>9 DEF Next, User, Loop
<1>4. Spec => [](OpenIsLive /\ OpenIsPolled /\ TasksAreTheirDevices)
  BY HandlesCorrect
<1>5. Handles <=> OpenIsLive /\ OpenIsPolled /\ TasksAreTheirDevices
  BY DEF Handles
<1>6. CalmSpec => Spec
  BY <1>1, <1>2, PTL DEF CalmSpec, Spec
<1>7. CalmSpec => []Undisturbed
  BY <1>1, <1>4, <1>5, <1>6, TypeCorrect, UndisturbedKept, PTL DEF CalmSpec
<1>8. QED
  BY <1>3, <1>4, <1>5, <1>6, <1>7, TypeCorrect, PTL DEF CalmSpec, CalmSweepLeavesNoStale
=============================================================================
