--------------------------- MODULE PageFormsProofs ---------------------------
(***************************************************************************)
(* What PageForms keeps for every number of devices, controls, values and  *)
(* overlapping writes, and whatever the bounds.                            *)
(***************************************************************************)
EXTENDS PageForms, SequenceTheorems, TLAPS

-----------------------------------------------------------------------------
(* Types                                                                     *)

\* A dictionary of one control, and what a device holds, are dictionaries of values.
LEMMA DictsOfValues ==
    /\ \A k \in Keys, v \in Values \cup {None} : One(k, v) \in Dicts
    /\ \A S \in SUBSET Keys : \A d \in [S -> Values] : d \in Dicts
<1>1. ASSUME NEW k \in Keys, NEW v \in Values \cup {None} PROVE One(k, v) \in Dicts
  <2>1. {k} \in SUBSET Keys /\ One(k, v) \in [{k} -> Values \cup {None}]
    BY <1>1 DEF One
  <2> QED BY <2>1 DEF Dicts
<1>2. ASSUME NEW S \in SUBSET Keys, NEW d \in [S -> Values] PROVE d \in Dicts
  <2>1. d \in [S -> Values \cup {None}] BY <1>2
  <2> QED BY <2>1 DEF Dicts
<1> QED BY <1>1, <1>2

\* The calls the coroutines make are calls.
LEMMA CallsAreTyped ==
    /\ \A w \in Writers, keys \in SUBSET Keys, k \in Keys, v \in Values :
         Pending(w, keys, k, v) \in Calls
    /\ \A keys \in SUBSET Keys : Clear(keys) \in Calls
    /\ \A u \in Devices, d \in Dicts : Offer(u, d) \in Calls
    /\ \A w \in Writers, d \in Dicts : Confirm(w, d) \in Calls
    /\ \A u \in Devices, vals \in Readings : Show(u, vals) \in Calls
    /\ Blank \in Calls
BY DEF Calls, Pending, Clear, Offer, Confirm, Show, Blank

\* A queue stays a queue of calls when calls are put at its end, or its head is taken.
LEMMA QueueIsTyped ==
    ASSUME NEW q \in Seq(Calls)
    PROVE /\ \A c \in Calls : Append(q, c) \in Seq(Calls)
          /\ \A r \in Seq(Calls) : q \o r \in Seq(Calls)
          /\ q # <<>> => Head(q) \in Calls /\ Tail(q) \in Seq(Calls)
          /\ <<>> \in Seq(Calls)
          /\ \A c \in Calls : <<c>> \in Seq(Calls)
          /\ \A c, d \in Calls : <<c, d>> \in Seq(Calls)
OBVIOUS

LEMMA InitIsTyped == Init => TypeOK
BY ControlsAssumption
   DEF Init, TypeOK, ControlsAssumption, Readings, EmptyPage, PageOf, WriteRecord, ShowRecord,
       Idle, NoShow

\* What a call makes of a page that has forms is a page that has forms.
LEMMA PagesAreTyped ==
    ASSUME NEW p \in [of : Devices, val : [Keys -> Values \cup {None}], pending : SUBSET Keys],
           NEW c \in Calls
    PROVE /\ c.op = "pending" => SetPending(p, c) \in
               [of : Devices, val : [Keys -> Values \cup {None}], pending : SUBSET Keys]
          /\ c.op = "values" => SetValues(p, c) \in
               [of : Devices, val : [Keys -> Values \cup {None}], pending : SUBSET Keys]
          /\ c.op = "clear" => [p EXCEPT !.pending = @ \ c.keys] \in
               [of : Devices, val : [Keys -> Values \cup {None}], pending : SUBSET Keys]
<1>1. CASE c.op = "pending"
  <2>1. c.key \in Keys /\ c.value \in Values /\ c.keys \in SUBSET Keys
    BY <1>1 DEF Calls
  <2> QED BY <1>1, <2>1 DEF SetPending
<1>2. CASE c.op = "values"
  <2>1. c.of \in Dicts BY <1>2 DEF Calls
  <2>2. PICK S \in SUBSET Keys : c.of \in [S -> Values \cup {None}] BY <2>1 DEF Dicts
  <2> QED BY <1>2, <2>2 DEF SetValues
<1>3. CASE c.op = "clear"
  BY <1>3
<1> QED BY <1>1, <1>2, <1>3

\* One queued call.
LEMMA RunUIIsTyped == TypeOK /\ RunUI => TypeOK'
<1> SUFFICES ASSUME TypeOK, RunUI PROVE TypeOK'
  OBVIOUS
<1> DEFINE c == Head(ui)
           Forms == [of : Devices, val : [Keys -> Values \cup {None}], pending : SUBSET Keys]
<1>1. c \in Calls /\ ui' \in Seq(Calls)
  BY QueueIsTyped DEF RunUI, TypeOK
<1>2. page.of # None => page \in Forms
  BY DEF TypeOK, EmptyPage
<1>3. page' \in {EmptyPage} \cup Forms
  <2>1. CASE UNCHANGED page BY <2>1 DEF TypeOK
  <2>2. CASE c.op = "pending" /\ page.of # None /\ page' = SetPending(page, c)
    BY <1>1, <1>2, <2>2, PagesAreTyped
  <2>3. CASE c.op = "clear" /\ page.of # None /\ page' = [page EXCEPT !.pending = @ \ c.keys]
    BY <1>1, <1>2, <2>3, PagesAreTyped
  <2>4. CASE c.op = "values" /\ page.of # None /\ page' = SetValues(page, c)
    BY <1>1, <1>2, <2>4, PagesAreTyped
  <2>5. CASE c.op = "show" /\ page' = PageOf(c.of, c.vals)
    <3>1. c.of \in Devices /\ c.vals \in Readings BY <1>1, <2>5 DEF Calls
    <3> QED BY <2>5, <3>1 DEF PageOf, Readings
  <2>6. CASE page' = EmptyPage BY <2>6
  <2> QED BY <2>1, <2>2, <2>3, <2>4, <2>5, <2>6 DEF RunUI
<1> QED BY <1>1, <1>3 DEF RunUI, TypeOK, counters, EmptyPage

\* The records change from one shape to the next.
LEMMA ShowsAreTyped ==
    ASSUME NEW r \in ShowRecord
    PROVE /\ NoShow \in ShowRecord
          /\ r.pc = "none" => [r EXCEPT !.pc = "asked"] \in ShowRecord
          /\ r.pc = "read" => r.vals \in Readings
<1>1. CASE r = NoShow BY <1>1 DEF ShowRecord, NoShow
<1>2. CASE r \in [pc : {"asked"}, vals : {None}] BY <1>2 DEF ShowRecord
<1>3. CASE r \in [pc : {"read"}, vals : Readings] BY <1>3 DEF ShowRecord
<1> QED BY <1>1, <1>2, <1>3 DEF ShowRecord

LEMMA HoldersAreTyped ==
    ASSUME NEW r \in WriteRecord, r.pc \in Holding, NEW pc \in Holding \cup {"orphan"}
    PROVE /\ [r EXCEPT !.pc = pc] \in WriteRecord
          /\ \A u \in Devices : [r EXCEPT !.pc = pc, !.dev = u] \in WriteRecord
          /\ \A v \in Values : [r EXCEPT !.pc = pc, !.value = v] \in WriteRecord
          /\ r.value \in Values
<1> DEFINE Full == [pc : Holding \cup {"orphan"}, dev : Devices, origin : Devices, key : Keys,
                    value : Values, prev : Values \cup {None}, keys : SUBSET Keys]
<1>1. r \in Full BY DEF WriteRecord, Idle, Holding
<1>2. /\ [r EXCEPT !.pc = pc] \in Full
      /\ \A u \in Devices : [r EXCEPT !.pc = pc, !.dev = u] \in Full
      /\ \A v \in Values : [r EXCEPT !.pc = pc, !.value = v] \in Full
  BY <1>1
<1> QED BY <1>1, <1>2 DEF WriteRecord

LEMMA HeldIsTyped ==
    ASSUME TypeOK, NEW u \in Devices, NEW k \in Keys, NEW v \in Values
    PROVE [held EXCEPT ![u][k] = v] \in [Devices -> Readings]
<1>1. [held[u] EXCEPT ![k] = v] \in Readings BY DEF TypeOK, Readings
<1> QED BY <1>1 DEF TypeOK

\* What the user and the devices do.
LEMMA UserIsTyped == TypeOK /\ User => TypeOK'
<1> SUFFICES ASSUME TypeOK, User PROVE TypeOK'
  OBVIOUS
<1> USE ControlsAssumption DEF ControlsAssumption
<1>1. ASSUME NEW u \in Devices, Select(u) PROVE TypeOK'
  <2>1. show' \in [Devices -> ShowRecord]
    <3>1. CASE UNCHANGED show BY <3>1 DEF TypeOK
    <3>2. CASE show[u].pc = "none" /\ show' = [show EXCEPT ![u].pc = "asked"]
      <4>1. show \in [Devices -> ShowRecord] /\ show[u] \in ShowRecord BY DEF TypeOK
      <4>2. [show[u] EXCEPT !.pc = "asked"] \in ShowRecord
        BY <3>2, <4>1, ShowsAreTyped
      <4> QED BY <3>2, <4>1, <4>2
    <3> QED BY <1>1, <3>1, <3>2 DEF Select
  <2> QED BY <1>1, <2>1 DEF TypeOK, Select
<1>2. ASSUME NEW u \in Devices, Connect(u) PROVE TypeOK'
  <2>1. show' \in [Devices -> ShowRecord]
    BY <1>2, ShowsAreTyped DEF TypeOK, Connect
  <2> QED BY <1>2, <2>1 DEF TypeOK, Connect, EmptyPage
<1>3. ASSUME NEW u \in Devices, StartTeardown(u) PROVE TypeOK'
  BY <1>3 DEF TypeOK, StartTeardown, Close, EmptyPage
<1>4. ASSUME NEW w \in Writers, NEW k \in Keys, NEW v \in Values, Edit(w, k, v) PROVE TypeOK'
  <2>1. page.of \in Devices
    BY <1>4 DEF TypeOK, Edit, EmptyPage
  <2>2. [Idle EXCEPT !.pc = "queued", !.origin = page.of, !.key = k, !.value = v]
            \in WriteRecord
    BY <2>1 DEF WriteRecord, Idle
  <2>3. write' \in [Writers -> WriteRecord]
    BY <1>4, <2>2 DEF TypeOK, Edit
  <2> QED BY <1>4, <2>3 DEF TypeOK, Edit, EmptyPage
<1>5. ASSUME NEW u \in Devices, NEW k \in Keys, NEW v \in Values, Turn(u, k, v) PROVE TypeOK'
  <2>1. <<k, v>> \in Keys \X Values
    BY <1>5
  <2>2. told' \in [Devices -> Seq(Keys \X Values)]
    BY <1>5, <2>1 DEF TypeOK, Turn
  <2>3. held' \in [Devices -> Readings]
    BY <1>5, HeldIsTyped DEF Turn
  <2> QED BY <1>5, <2>2, <2>3 DEF TypeOK, Turn, EmptyPage
<1> QED BY <1>1, <1>2, <1>3, <1>4, <1>5 DEF User

\* A write that is past its start: its device, its control and its value are there.
LEMMA WritesAreTyped ==
    ASSUME TypeOK, NEW w \in Writers
    PROVE /\ write[w].pc # "idle" => write[w].key \in Keys /\ write[w].value \in Values
          /\ write[w].pc \in Holding \cup {"orphan"} =>
                write[w].dev \in Devices /\ write[w].prev \in Values \cup {None}
          /\ write[w].keys \in SUBSET Keys
          /\ Idle \in WriteRecord
BY DEF TypeOK, WriteRecord, Idle, Holding

\* How a write ends: its calls and its record.
LEMMA ReleaseIsTyped ==
    ASSUME TypeOK, NEW w \in Writers, NEW calls \in Seq(Calls), NEW r \in WriteRecord,
           Release(w, calls, r)
    PROVE ui' \in Seq(Calls) /\ write' \in [Writers -> WriteRecord]
<1>1. Clear(write[w].keys) \in Calls
  BY CallsAreTyped, WritesAreTyped
<1>2. Append(calls, Clear(write[w].keys)) \in Seq(Calls)
  BY <1>1, QueueIsTyped
<1>3. ui \in Seq(Calls) BY DEF TypeOK
<1> QED BY <1>2, <1>3, QueueIsTyped DEF Release, TypeOK

\* The runs of _write.
LEMMA WriterIsTyped ==
    ASSUME TypeOK, NEW w \in Writers,
           \/ StartWrite(w) \/ DropWrite(w) \/ Land(w) \/ ConfirmWrite(w) \/ Reread(w)
           \/ Repaint(w) \/ RefuseWrite(w) \/ TimeOutWrite(w) \/ OrphanLands(w)
           \/ EndRestartingWrite(w)
    PROVE TypeOK'
<1> USE ControlsAssumption DEF ControlsAssumption
<1> DEFINE k == write[w].key
<1>0. ui \in Seq(Calls) /\ write \in [Writers -> WriteRecord] /\ write[w] \in WriteRecord
  BY DEF TypeOK
<1>1. CASE StartWrite(w)
  <2>1. k \in Keys /\ write[w].value \in Values
    BY <1>1, WritesAreTyped DEF StartWrite
  <2>2. Group(k) \in SUBSET Keys
    BY <2>1 DEF Group
  <2>3. ui' \in Seq(Calls)
    BY <1>0, <1>1, <2>1, <2>2, CallsAreTyped, QueueIsTyped DEF StartWrite
  <2>4. page.val[k] \in Values \cup {None} /\ selected \in Devices
    BY <1>1, <2>1 DEF StartWrite, TypeOK, EmptyPage
  <2>5. write' \in [Writers -> WriteRecord]
    BY <1>0, <1>1, <2>1, <2>2, <2>4 DEF StartWrite, WriteRecord, Idle, Holding
  <2> QED BY <1>1, <2>3, <2>5 DEF StartWrite, TypeOK, counters, EmptyPage
<1>2. CASE DropWrite(w)
  <2>1. write' \in [Writers -> WriteRecord]
    BY <1>0, <1>2, WritesAreTyped DEF DropWrite
  <2> QED BY <1>2, <2>1 DEF DropWrite, TypeOK, counters, EmptyPage
<1>3. CASE Land(w)
  <2>1. k \in Keys /\ write[w].dev \in Devices
    BY <1>3, WritesAreTyped DEF Land, Holding
  <2>2. held' \in [Devices -> Readings]
    BY <1>3, <2>1, HeldIsTyped DEF Land
  <2>3. \A v \in Values : [write[w] EXCEPT !.pc = "landed", !.value = v] \in WriteRecord
    BY <1>0, <1>3, HoldersAreTyped DEF Land, Holding
  <2>4. write[w].value \in Values
    BY <1>3, WritesAreTyped DEF Land
  <2>5. PICK v \in Values :
           write' = [write EXCEPT ![w].pc = "landed",
                                  ![w].value = IF k \in Restarting THEN @ ELSE v]
    BY <1>3 DEF Land
  <2>6. write' \in [Writers -> WriteRecord]
    <3>1. CASE k \in Restarting
      <4>1. write' = [write EXCEPT ![w] = [write[w] EXCEPT !.pc = "landed", !.value = write[w].value]]
        BY <1>0, <2>5, <3>1
      <4> QED BY <1>0, <2>3, <2>4, <4>1
    <3>2. CASE k \notin Restarting
      <4>1. write' = [write EXCEPT ![w] = [write[w] EXCEPT !.pc = "landed", !.value = v]]
        BY <1>0, <2>5, <3>2
      <4> QED BY <1>0, <2>3, <4>1
    <3> QED BY <3>1, <3>2
  <2> QED BY <1>3, <2>2, <2>6 DEF Land, TypeOK, counters, EmptyPage
<1>4. CASE ConfirmWrite(w)
  <2>1. k \in Keys /\ write[w].value \in Values
    BY <1>4, WritesAreTyped DEF ConfirmWrite
  <2>2. Confirm(w, One(k, write[w].value)) \in Calls
    BY <2>1, CallsAreTyped, DictsOfValues
  <2>3. <<Confirm(w, One(k, write[w].value))>> \in Seq(Calls)
    BY <1>0, <2>2, QueueIsTyped
  <2>4. ASSUME NEW pc \in {"rereading", "repainting"}, selected \in open,
               write' = [write EXCEPT ![w].pc = pc, ![w].dev = selected]
        PROVE write' \in [Writers -> WriteRecord]
    <3>1. selected \in Devices BY <2>4 DEF TypeOK
    <3>2. [write[w] EXCEPT !.pc = pc, !.dev = selected] \in WriteRecord
      BY <1>0, <1>4, <3>1, HoldersAreTyped DEF ConfirmWrite, Holding
    <3>3. write' = [write EXCEPT ![w] = [write[w] EXCEPT !.pc = pc, !.dev = selected]]
      BY <1>0, <2>4
    <3> QED BY <1>0, <3>2, <3>3
  <2>5. ui' \in Seq(Calls) /\ write' \in [Writers -> WriteRecord]
    <3>1. CASE Release(w, <<Confirm(w, One(k, write[w].value))>>, Idle)
      BY <2>3, <3>1, ReleaseIsTyped, WritesAreTyped
    <3>2. CASE ~Release(w, <<Confirm(w, One(k, write[w].value))>>, Idle)
      <4>1. ui' = Append(ui, Confirm(w, One(k, write[w].value)))
        BY <1>4, <3>2 DEF ConfirmWrite
      <4>2. ui' \in Seq(Calls)
        BY <1>0, <2>2, <4>1, QueueIsTyped
      <4>3. \E pc \in {"rereading", "repainting"} :
               selected \in open /\ write' = [write EXCEPT ![w].pc = pc, ![w].dev = selected]
        BY <1>4, <3>2 DEF ConfirmWrite
      <4> QED BY <2>4, <4>2, <4>3
    <3> QED BY <3>1, <3>2
  <2> QED BY <1>4, <2>5 DEF ConfirmWrite, TypeOK, counters, EmptyPage
<1>5. CASE Reread(w)
  <2> DEFINE read == [x \in Refreshes[k] |-> held[write[w].dev][x]]
  <2>1. k \in Keys /\ write[w].dev \in Devices
    BY <1>5, WritesAreTyped DEF Reread, Holding
  <2>2. read \in [Refreshes[k] -> Values] /\ Refreshes[k] \in SUBSET Keys
    BY <2>1 DEF TypeOK, Readings
  <2>3. Confirm(w, read) \in Calls
    BY <2>2, CallsAreTyped, DictsOfValues
  <2>4. PICK calls \in {<<>>} \cup {<<Confirm(w, read)>> : u \in {write[w].dev} \cap open} :
            IF k \in Reshaping /\ selected \in open
            THEN /\ ui' = ui \o calls
                 /\ write' = [write EXCEPT ![w].pc = "repainting", ![w].dev = selected]
            ELSE Release(w, calls, Idle)
    BY <1>5 DEF Reread
  <2>5. calls \in Seq(Calls)
    BY <1>0, <2>3, <2>4, QueueIsTyped
  <2>6. ui' \in Seq(Calls) /\ write' \in [Writers -> WriteRecord]
    <3>1. CASE Release(w, calls, Idle)
      BY <2>5, <3>1, ReleaseIsTyped, WritesAreTyped
    <3>2. CASE ~Release(w, calls, Idle)
      <4>1. ui' \in Seq(Calls)
        <5>1. ui' = ui \o calls BY <2>4, <3>2
        <5> QED BY <1>0, <2>5, <5>1, QueueIsTyped
      <4>2. selected \in Devices /\ write' = [write EXCEPT ![w].pc = "repainting", ![w].dev = selected]
        BY <2>4, <3>2 DEF TypeOK
      <4>3. write' \in [Writers -> WriteRecord]
        <5>1. [write[w] EXCEPT !.pc = "repainting", !.dev = selected] \in WriteRecord
          BY <1>0, <1>5, <4>2, HoldersAreTyped DEF Reread, Holding
        <5>2. write' = [write EXCEPT ![w] = [write[w] EXCEPT !.pc = "repainting", !.dev = selected]]
          BY <1>0, <4>2
        <5> QED BY <1>0, <5>1, <5>2
      <4> QED BY <4>1, <4>3
    <3> QED BY <3>1, <3>2
  <2> QED BY <1>5, <2>6 DEF Reread, TypeOK, counters, EmptyPage
<1>6. CASE Repaint(w)
  <2>1. write[w].dev \in Devices
    BY <1>6, WritesAreTyped DEF Repaint, Holding
  <2>2. Show(write[w].dev, held[write[w].dev]) \in Calls
    BY <2>1, CallsAreTyped DEF TypeOK
  <2>3. <<Show(write[w].dev, held[write[w].dev])>> \in Seq(Calls)
    BY <1>0, <2>2, QueueIsTyped
  <2>4. ui' \in Seq(Calls) /\ write' \in [Writers -> WriteRecord]
    BY <1>6, <2>3, ReleaseIsTyped, WritesAreTyped DEF Repaint
  <2> QED BY <1>6, <2>4 DEF Repaint, TypeOK, counters, EmptyPage
<1>7. CASE RefuseWrite(w) \/ TimeOutWrite(w)
  <2>1. k \in Keys /\ write[w].prev \in Values \cup {None}
    BY <1>7, WritesAreTyped DEF RefuseWrite, TimeOutWrite, Holding
  <2>2. Confirm(w, One(k, write[w].prev)) \in Calls
    BY <2>1, CallsAreTyped, DictsOfValues
  <2>3. <<Confirm(w, One(k, write[w].prev))>> \in Seq(Calls)
    BY <1>0, <2>2, QueueIsTyped
  <2>4. write[w].pc = "writing" => [write[w] EXCEPT !.pc = "orphan"] \in WriteRecord
    BY <1>0 DEF WriteRecord, Idle, Holding
  <2>5. ui' \in Seq(Calls) /\ write' \in [Writers -> WriteRecord]
    <3>1. CASE RefuseWrite(w)
      BY <2>3, <3>1, ReleaseIsTyped, WritesAreTyped DEF RefuseWrite
    <3>2. CASE TimeOutWrite(w)
      BY <2>3, <2>4, <3>2, ReleaseIsTyped DEF TimeOutWrite
    <3> QED BY <1>7, <3>1, <3>2
  <2> QED BY <1>7, <2>5 DEF RefuseWrite, TimeOutWrite, TypeOK, counters, EmptyPage
<1>8. CASE OrphanLands(w)
  <2>1. k \in Keys /\ write[w].dev \in Devices /\ write[w].value \in Values
    BY <1>8, WritesAreTyped DEF OrphanLands, Holding
  <2>2. held' \in [Devices -> Readings]
    <3>1. CASE UNCHANGED held BY <3>1 DEF TypeOK
    <3>2. CASE held' = [held EXCEPT ![write[w].dev][k] = write[w].value]
      BY <2>1, <3>2, HeldIsTyped
    <3> QED BY <1>8, <3>1, <3>2 DEF OrphanLands
  <2>3. write' \in [Writers -> WriteRecord]
    BY <1>0, <1>8, WritesAreTyped DEF OrphanLands
  <2> QED BY <1>8, <2>2, <2>3 DEF OrphanLands, TypeOK, counters, EmptyPage
<1>9. CASE EndRestartingWrite(w)
  <2> DEFINE u == write[w].dev
             clear == Clear(write[w].keys)
             blank == IF u \notin open /\ selected = u THEN <<Blank>> ELSE <<>>
             said == Confirm(w, One(k, write[w].value))
  <2>1. k \in Keys /\ u \in Devices /\ write[w].value \in Values /\ write[w].keys \in SUBSET Keys
    BY <1>9, WritesAreTyped DEF EndRestartingWrite, Holding
  <2>2. clear \in Calls /\ said \in Calls /\ blank \in Seq(Calls)
    BY <1>0, <2>1, CallsAreTyped, DictsOfValues, QueueIsTyped
  <2>3. ui \o <<clear, said>> \in Seq(Calls) /\ ui \o <<clear>> \in Seq(Calls)
    BY <1>0, <2>2, QueueIsTyped
  <2>4. (ui \o <<clear, said>>) \o blank \in Seq(Calls) /\ (ui \o <<clear>>) \o blank \in Seq(Calls)
    BY <2>2, <2>3, QueueIsTyped
  <2>5. ui' \in Seq(Calls)
    BY <1>9, <2>4 DEF EndRestartingWrite
  <2>6. write' \in [Writers -> WriteRecord]
    BY <1>0, <1>9, WritesAreTyped DEF EndRestartingWrite
  <2>7. /\ open' \subseteq Devices /\ closing' \subseteq Devices
        /\ poll' \in [Devices -> Readings \cup {None}]
        /\ told' \in [Devices -> Seq(Keys \X Values)]
    <3>1. Close(u) \/ UNCHANGED <<open, closing, poll, told>>
      BY <1>9 DEF EndRestartingWrite
    <3>2. CASE UNCHANGED <<open, closing, poll, told>> BY <3>2 DEF TypeOK
    <3>3. CASE Close(u)
      <4>1. <<>> \in Seq(Keys \X Values) OBVIOUS
      <4>2. told' \in [Devices -> Seq(Keys \X Values)]
        BY <2>1, <3>3, <4>1 DEF Close, TypeOK
      <4>3. poll' \in [Devices -> Readings \cup {None}]
        BY <2>1, <3>3 DEF Close, TypeOK
      <4> QED BY <2>1, <3>3, <4>2, <4>3 DEF Close, TypeOK
    <3> QED BY <3>1, <3>2, <3>3
  <2> QED BY <1>9, <2>5, <2>6, <2>7 DEF EndRestartingWrite, TypeOK, counters, EmptyPage
<1> QED BY <1>1, <1>2, <1>3, <1>4, <1>5, <1>6, <1>7, <1>8, <1>9

\* The other coroutines.
LEMMA ReaderIsTyped ==
    ASSUME TypeOK, NEW u \in Devices,
           \/ FinishTeardown(u) \/ ReadPage(u) \/ QueuePage(u)
           \/ ReadPoll(u) \/ EndPoll(u) \/ Deliver(u)
    PROVE TypeOK'
<1>0. ui \in Seq(Calls) BY DEF TypeOK
<1>1. CASE FinishTeardown(u)
  <2>1. ui' \in Seq(Calls)
    BY <1>0, <1>1, CallsAreTyped, QueueIsTyped DEF FinishTeardown
  <2> QED BY <1>1, <2>1 DEF FinishTeardown, TypeOK, counters, EmptyPage
<1>2. CASE ReadPage(u)
  <2>1. [pc |-> "read", vals |-> held[u]] \in ShowRecord
    BY DEF TypeOK, ShowRecord
  <2>2. show' \in [Devices -> ShowRecord]
    BY <1>2, <2>1 DEF ReadPage, TypeOK
  <2> QED BY <1>2, <2>2 DEF ReadPage, TypeOK, counters, EmptyPage
<1>3. CASE QueuePage(u)
  <2>1. show[u].vals \in Readings
    BY <1>3, ShowsAreTyped DEF QueuePage, TypeOK
  <2>2. ui' \in Seq(Calls)
    BY <1>0, <1>3, <2>1, CallsAreTyped, QueueIsTyped DEF QueuePage
  <2>3. show' \in [Devices -> ShowRecord]
    BY <1>3 DEF QueuePage, TypeOK, ShowRecord
  <2> QED BY <1>3, <2>2, <2>3 DEF QueuePage, TypeOK, counters, EmptyPage
<1>4. CASE ReadPoll(u)
  <2>1. poll' \in [Devices -> Readings \cup {None}]
    BY <1>4 DEF ReadPoll, TypeOK
  <2> QED BY <1>4, <2>1 DEF ReadPoll, TypeOK, counters, EmptyPage
<1>5. CASE EndPoll(u)
  <2>1. poll[u] \in [Keys -> Values] /\ Keys \in SUBSET Keys
    BY <1>5 DEF EndPoll, TypeOK, Readings
  <2>2. poll[u] \in Dicts BY <2>1, DictsOfValues
  <2>3. ui' \in Seq(Calls)
    BY <1>0, <1>5, <2>2, CallsAreTyped, QueueIsTyped DEF EndPoll
  <2> QED BY <1>5, <2>3 DEF EndPoll, TypeOK, counters, EmptyPage
<1>6. CASE Deliver(u)
  <2>1. Head(told[u]) \in Keys \X Values /\ told' \in [Devices -> Seq(Keys \X Values)]
    BY <1>6 DEF Deliver, TypeOK
  <2>2. One(Head(told[u])[1], Head(told[u])[2]) \in Dicts
    BY <2>1, DictsOfValues
  <2>3. ui' \in Seq(Calls)
    BY <1>0, <1>6, <2>2, CallsAreTyped, QueueIsTyped DEF Deliver
  <2> QED BY <1>6, <2>1, <2>3 DEF Deliver, TypeOK, counters, EmptyPage
<1> QED BY <1>1, <1>2, <1>3, <1>4, <1>5, <1>6

\* Every state of every behaviour is well typed: what is queued, in flight and on screen
\* has the shape the code gives it.
THEOREM PageTypeCorrect == Spec => []TypeOK
<1>1. TypeOK /\ [Next]_vars => TypeOK'
  <2> SUFFICES ASSUME TypeOK, [Next]_vars PROVE TypeOK'
    OBVIOUS
  <2>1. CASE User BY <2>1, UserIsTyped
  <2>2. CASE Loop BY <2>2, WriterIsTyped, ReaderIsTyped DEF Loop
  <2>3. CASE RunUI BY <2>3, RunUIIsTyped
  <2>4. CASE UNCHANGED vars BY <2>4 DEF vars, TypeOK, counters, EmptyPage
  <2> QED BY <2>1, <2>2, <2>3, <2>4 DEF Next
<1> QED BY <1>1, InitIsTyped, PTL DEF Spec

-----------------------------------------------------------------------------
(* What is held is released                                                  *)

\* A queued call that will hold controls is followed by one that clears them, or the write
\* it belongs to has yet to end: PendingIsReleased, one call earlier.
QueuedIsReleased ==
    \A i \in DOMAIN ui : ui[i].op = "pending" =>
        \A k \in ui[i].keys :
            \/ \E w \in Writers : Holds(w, k)
            \/ \E j \in DOMAIN ui : j > i /\ ui[j].op = "clear" /\ k \in ui[j].keys

Released == PendingIsReleased /\ QueuedIsReleased

\* A coroutine that adds calls keeps it, provided it holds nothing new and clears whatever
\* its write stops holding.
LEMMA ReleasedByCalls ==
    ASSUME TypeOK, Released,
           NEW calls \in Seq(Calls), ui' = ui \o calls,
           \A i \in DOMAIN calls : calls[i].op # "pending",
           page' = page \/ page' = EmptyPage,
           \A w \in Writers, k \in Keys : Holds(w, k) => Holds(w, k)' \/ Cleared(calls, k)
    PROVE Released'
<1>0. ui \in Seq(Calls) BY DEF TypeOK
<1>1. /\ DOMAIN ui = 1..Len(ui) /\ DOMAIN calls = 1..Len(calls)
      /\ DOMAIN ui' = 1..(Len(ui) + Len(calls))
      /\ \A i \in DOMAIN ui : i \in DOMAIN ui' /\ ui'[i] = ui[i]
      /\ \A i \in DOMAIN calls : Len(ui) + i \in DOMAIN ui' /\ ui'[Len(ui) + i] = calls[i]
      /\ \A i \in DOMAIN ui' \ DOMAIN ui : i - Len(ui) \in DOMAIN calls /\ ui'[i] = calls[i - Len(ui)]
      /\ Len(ui) \in Nat /\ Len(calls) \in Nat
  BY <1>0
<1>2. ASSUME NEW k \in Keys, \E w \in Writers : Holds(w, k)
      PROVE \/ \E w \in Writers : Holds(w, k)'
            \/ \E j \in DOMAIN ui' : j > Len(ui) /\ ui'[j].op = "clear" /\ k \in ui'[j].keys
  <2>1. CASE Cleared(calls, k)
    <3>1. PICK i \in DOMAIN calls : calls[i].op = "clear" /\ k \in calls[i].keys
      BY <2>1 DEF Cleared
    <3>2. Len(ui) + i \in DOMAIN ui' /\ Len(ui) + i > Len(ui) /\ ui'[Len(ui) + i] = calls[i]
      BY <1>1
    <3> QED BY <3>1, <3>2
  <2>2. CASE ~Cleared(calls, k) BY <1>2, <2>2
  <2> QED BY <2>1, <2>2
<1>3. PendingIsReleased'
  <2>1. SUFFICES ASSUME NEW k \in page'.pending
                 PROVE (\E w \in Writers : Holds(w, k)') \/ Cleared(ui', k)
    BY DEF PendingIsReleased
  <2>2. k \in page.pending /\ k \in Keys
    BY DEF TypeOK, EmptyPage
  <2>3. CASE \E w \in Writers : Holds(w, k)
    BY <1>2, <2>2, <2>3 DEF Cleared
  <2>4. CASE Cleared(ui, k)
    BY <1>1, <2>4 DEF Cleared
  <2> QED BY <2>2, <2>3, <2>4 DEF Released, PendingIsReleased
<1>4. QueuedIsReleased'
  <2>1. SUFFICES ASSUME NEW i \in DOMAIN ui', ui'[i].op = "pending", NEW k \in ui'[i].keys
                 PROVE \/ \E w \in Writers : Holds(w, k)'
                       \/ \E j \in DOMAIN ui' : j > i /\ ui'[j].op = "clear" /\ k \in ui'[j].keys
    BY DEF QueuedIsReleased
  <2>2. i \in DOMAIN ui /\ ui[i].op = "pending" /\ k \in ui[i].keys
    BY <1>1, <2>1
  <2>3. k \in Keys
    BY <1>0, <2>2 DEF Calls
  <2>4. CASE \E w \in Writers : Holds(w, k)
    BY <1>1, <1>2, <2>2, <2>3, <2>4
  <2>5. CASE \E j \in DOMAIN ui : j > i /\ ui[j].op = "clear" /\ k \in ui[j].keys
    BY <1>1, <2>5
  <2> QED BY <2>2, <2>4, <2>5 DEF Released, QueuedIsReleased
<1> QED BY <1>3, <1>4 DEF Released

\* A step that queues nothing keeps it if no write stops holding.
LEMMA ReleasedByStep ==
    ASSUME TypeOK, Released, UNCHANGED ui, page' = page \/ page' = EmptyPage,
           \A w \in Writers, k \in Keys : Holds(w, k) => Holds(w, k)'
    PROVE Released'
<1> DEFINE calls == <<>>
<1>1. ui' = ui \o calls /\ calls \in Seq(Calls)
  BY DEF TypeOK
<1>2. \A i \in DOMAIN calls : calls[i].op # "pending"
  OBVIOUS
<1>3. \A w \in Writers, k \in Keys : Holds(w, k) => Holds(w, k)' \/ Cleared(calls, k)
  OBVIOUS
<1> HIDE DEF calls
<1> QED BY <1>1, <1>2, <1>3, ReleasedByCalls

\* The placeholder holds no control.
LEMMA NoPageNothingHeld == TypeOK /\ page.of = None => page.pending = {}
BY ControlsAssumption DEF TypeOK, EmptyPage, ControlsAssumption

\* One queued call.
LEMMA RunUIKeepsReleased == TypeOK /\ Released /\ RunUI => Released'
<1> SUFFICES ASSUME TypeOK, Released, RunUI PROVE Released'
  OBVIOUS
<1> DEFINE c == Head(ui)
<1>0. ui \in Seq(Calls) /\ c \in Calls /\ UNCHANGED write
  BY QueueIsTyped DEF TypeOK, RunUI
<1>1. /\ DOMAIN ui = 1..Len(ui) /\ Len(ui) \in Nat /\ Len(ui) > 0 /\ c = ui[1]
      /\ DOMAIN ui' = 1..(Len(ui) - 1)
      /\ \A i \in DOMAIN ui' : i + 1 \in DOMAIN ui /\ ui'[i] = ui[i + 1]
      /\ \A i \in DOMAIN ui : i > 1 => i - 1 \in DOMAIN ui' /\ ui'[i - 1] = ui[i]
  BY <1>0 DEF RunUI
<1>2. \A w, k : Holds(w, k)' <=> Holds(w, k)
  BY <1>0 DEF Holds
<1>3. ASSUME NEW k, Cleared(ui, k), ~(c.op = "clear" /\ k \in c.keys) PROVE Cleared(ui', k)
  <2>1. PICK i \in DOMAIN ui : ui[i].op = "clear" /\ k \in ui[i].keys
    BY <1>3 DEF Cleared
  <2>2. i > 1 BY <1>1, <1>3, <2>1
  <2> QED BY <1>1, <2>1, <2>2 DEF Cleared
<1>4. QueuedIsReleased'
  <2>1. SUFFICES ASSUME NEW i \in DOMAIN ui', ui'[i].op = "pending", NEW k \in ui'[i].keys
                 PROVE \/ \E w \in Writers : Holds(w, k)'
                       \/ \E j \in DOMAIN ui' : j > i /\ ui'[j].op = "clear" /\ k \in ui'[j].keys
    BY DEF QueuedIsReleased
  <2>2. i + 1 \in DOMAIN ui /\ ui[i + 1].op = "pending" /\ k \in ui[i + 1].keys
    BY <1>1, <2>1
  <2>3. CASE \E w \in Writers : Holds(w, k)
    BY <1>2, <2>3
  <2>4. CASE \E j \in DOMAIN ui : j > i + 1 /\ ui[j].op = "clear" /\ k \in ui[j].keys
    <3>1. PICK j \in DOMAIN ui : j > i + 1 /\ ui[j].op = "clear" /\ k \in ui[j].keys
      BY <2>4
    <3>2. j - 1 \in DOMAIN ui' /\ j - 1 > i /\ ui'[j - 1] = ui[j]
      BY <1>1, <3>1
    <3> QED BY <3>1, <3>2
  <2> QED BY <2>2, <2>3, <2>4 DEF Released, QueuedIsReleased
<1>5. PendingIsReleased'
  <2>1. SUFFICES ASSUME NEW k \in page'.pending
                 PROVE (\E w \in Writers : Holds(w, k)) \/ Cleared(ui', k)
    BY <1>2 DEF PendingIsReleased
  <2>2. CASE k \in page.pending /\ ~(c.op = "clear" /\ k \in c.keys)
    BY <1>3, <2>2 DEF Released, PendingIsReleased
  <2>3. CASE k \notin page.pending \/ (c.op = "clear" /\ k \in c.keys)
    <3>1. c.op = "pending" /\ k \in c.keys
      <4>1. CASE UNCHANGED page /\ page.of = None
        BY <2>1, <4>1, NoPageNothingHeld
      <4>2. CASE c.op = "pending" /\ page' = SetPending(page, c) /\ page.of # None
        <5>1. page'.pending = page.pending \cup c.keys
          BY <4>2 DEF SetPending, TypeOK, EmptyPage
        <5> QED BY <2>3, <4>2, <5>1
      <4>3. CASE c.op = "clear" /\ page' = [page EXCEPT !.pending = @ \ c.keys] /\ page.of # None
        BY <2>3, <4>3 DEF TypeOK, EmptyPage
      <4>4. CASE c.op = "values" /\ page' = SetValues(page, c) /\ page.of # None
        <5>1. page'.pending \subseteq page.pending
          BY <4>4 DEF SetValues, TypeOK, EmptyPage
        <5> QED BY <2>3, <4>4, <5>1
      <4>5. CASE page' = PageOf(c.of, c.vals) \/ page' = EmptyPage
        BY <4>5 DEF PageOf, EmptyPage
      <4> QED BY <4>1, <4>2, <4>3, <4>4, <4>5 DEF RunUI
    <3>2. CASE \E w \in Writers : Holds(w, k)
      BY <3>2
    <3>3. CASE \E j \in DOMAIN ui : j > 1 /\ ui[j].op = "clear" /\ k \in ui[j].keys
      BY <1>1, <3>3 DEF Cleared
    <3>4. 1 \in DOMAIN ui /\ ui[1].op = "pending" /\ k \in ui[1].keys
      BY <1>1, <3>1
    <3>5. \/ \E w \in Writers : Holds(w, k)
          \/ \E j \in DOMAIN ui : j > 1 /\ ui[j].op = "clear" /\ k \in ui[j].keys
      BY <3>4 DEF Released, QueuedIsReleased
    <3> QED BY <3>2, <3>3, <3>5
  <2> QED BY <2>2, <2>3
<1> QED BY <1>4, <1>5 DEF Released

\* A write that starts queues the call that holds its controls, and will end.
LEMMA StartKeepsReleased ==
    ASSUME TypeOK, Released, NEW w \in Writers, StartWrite(w)
    PROVE Released'
<1> DEFINE k == write[w].key
           c == Pending(w, Group(k), k, write[w].value)
<1>0. /\ ui \in Seq(Calls) /\ ui' = Append(ui, c) /\ UNCHANGED page
      /\ k \in Keys /\ write[w].value \in Values
  BY WritesAreTyped DEF TypeOK, StartWrite
<1>1. c \in Calls
  <2>1. Group(k) \in SUBSET Keys
    BY <1>0, ControlsAssumption DEF Group, ControlsAssumption
  <2> QED BY <1>0, <2>1, CallsAreTyped
<1>2. /\ DOMAIN ui = 1..Len(ui) /\ DOMAIN ui' = 1..(Len(ui) + 1) /\ Len(ui) \in Nat
      /\ \A i \in DOMAIN ui : i \in DOMAIN ui' /\ ui'[i] = ui[i]
      /\ ui'[Len(ui) + 1] = c
  BY <1>0, <1>1
<1>3. \A v \in Writers : v # w => write'[v] = write[v]
  BY DEF StartWrite, TypeOK
<1>4. write'[w].pc = "writing" /\ write'[w].keys = Group(k)
  BY DEF StartWrite, TypeOK
<1>5. \A x \in Group(k) : Holds(w, x)'
  BY <1>4 DEF Holds, Holding
<1>6. ASSUME NEW v \in Writers, NEW x, Holds(v, x) PROVE Holds(v, x)'
  BY <1>3, <1>6 DEF Holds, Holding, StartWrite
<1>7. PendingIsReleased'
  BY <1>0, <1>2, <1>6 DEF Released, PendingIsReleased, Cleared
<1>8. QueuedIsReleased'
  <2>1. SUFFICES ASSUME NEW i \in DOMAIN ui', ui'[i].op = "pending", NEW x \in ui'[i].keys
                 PROVE \/ \E v \in Writers : Holds(v, x)'
                       \/ \E j \in DOMAIN ui' : j > i /\ ui'[j].op = "clear" /\ x \in ui'[j].keys
    BY DEF QueuedIsReleased
  <2>2. CASE i \in DOMAIN ui
    <3>1. \/ \E v \in Writers : Holds(v, x)
          \/ \E j \in DOMAIN ui : j > i /\ ui[j].op = "clear" /\ x \in ui[j].keys
      BY <1>2, <2>1, <2>2 DEF Released, QueuedIsReleased
    <3> QED BY <1>2, <1>6, <3>1
  <2>3. CASE i \notin DOMAIN ui
    <3>1. i = Len(ui) + 1 BY <1>2, <2>3
    <3>2. x \in Group(k) BY <1>2, <2>1, <3>1 DEF Pending
    <3> QED BY <1>5, <3>2
  <2> QED BY <2>2, <2>3
<1> QED BY <1>7, <1>8 DEF Released

\* A write that ends clears what it held, whatever else it queues before.
LEMMA ReleaseKeepsReleased ==
    ASSUME TypeOK, Released, NEW w \in Writers, NEW calls \in Seq(Calls), NEW r,
           r.pc \notin Holding, Release(w, calls, r), UNCHANGED page,
           \A i \in DOMAIN calls : calls[i].op # "pending"
    PROVE Released'
<1> DEFINE last == Clear(write[w].keys)
           all == Append(calls, last)
<1>1. last \in Calls
  BY WritesAreTyped, CallsAreTyped
<1>2. all \in Seq(Calls) /\ ui' = ui \o all
  BY <1>1, QueueIsTyped DEF Release
<1>3. /\ DOMAIN all = 1..(Len(calls) + 1) /\ DOMAIN calls = 1..Len(calls) /\ Len(calls) \in Nat
      /\ \A i \in DOMAIN calls : all[i] = calls[i]
      /\ all[Len(calls) + 1] = last
  BY <1>1
<1>4. \A i \in DOMAIN all : all[i].op # "pending"
  BY <1>3 DEF Clear
<1>5. ASSUME NEW v \in Writers, NEW x \in Keys, Holds(v, x)
      PROVE Holds(v, x)' \/ Cleared(all, x)
  <2>1. CASE v = w
    <3>1. x \in last.keys /\ last.op = "clear" BY <1>5, <2>1 DEF Holds, Clear
    <3> QED BY <1>3, <3>1 DEF Cleared
  <2>2. CASE v # w
    BY <1>5, <2>2 DEF Holds, Release, TypeOK
  <2> QED BY <2>1, <2>2
<1> HIDE DEF all
<1> QED BY <1>2, <1>4, <1>5, ReleasedByCalls

\* The runs of _write.
LEMMA WriterKeepsReleased ==
    ASSUME TypeOK, Released, NEW w \in Writers,
           \/ StartWrite(w) \/ DropWrite(w) \/ Land(w) \/ ConfirmWrite(w) \/ Reread(w)
           \/ Repaint(w) \/ RefuseWrite(w) \/ TimeOutWrite(w) \/ OrphanLands(w)
           \/ EndRestartingWrite(w)
    PROVE Released'
<1> DEFINE k == write[w].key
<1>0. /\ ui \in Seq(Calls) /\ write \in [Writers -> WriteRecord]
      /\ Idle.pc \notin Holding /\ k \in Keys \cup {None}
  BY DEF TypeOK, Idle, Holding, WriteRecord
<1>1. ASSUME UNCHANGED <<page, ui>>, write[w].pc \notin Holding, NEW r, write' = [write EXCEPT ![w] = r]
      PROVE Released'
  <2>1. \A v \in Writers, x \in Keys : Holds(v, x) => Holds(v, x)'
    BY <1>0, <1>1 DEF Holds
  <2> QED BY <1>1, <2>1, ReleasedByStep
<1>2. ASSUME UNCHANGED page, NEW calls \in Seq(Calls), ui' = ui \o calls,
             \A i \in DOMAIN calls : calls[i].op # "pending",
             NEW r, write' = [write EXCEPT ![w] = r], r.pc \in Holding, r.keys = write[w].keys
      PROVE Released'
  <2>1. \A v \in Writers, x \in Keys : Holds(v, x) => Holds(v, x)'
    BY <1>0, <1>2 DEF Holds
  <2> QED BY <1>2, <2>1, ReleasedByCalls
<1>3. CASE StartWrite(w) BY <1>3, StartKeepsReleased
<1>4. CASE DropWrite(w) BY <1>1, <1>4 DEF DropWrite, Holding
<1>5. CASE OrphanLands(w) BY <1>1, <1>5 DEF OrphanLands, Holding
<1>6. CASE Land(w)
  <2>1. PICK v : write' = [write EXCEPT ![w].pc = "landed",
                                        ![w].value = IF k \in Restarting THEN @ ELSE v]
    BY <1>6 DEF Land
  <2>2. write'[w].pc = "landed" /\ write'[w].keys = write[w].keys
    BY <1>0, <2>1 DEF WriteRecord, Idle
  <2>3. \A v2 \in Writers, x \in Keys : Holds(v2, x) => Holds(v2, x)'
    BY <1>0, <2>1, <2>2 DEF Holds, Holding
  <2> QED BY <1>6, <2>3, ReleasedByStep DEF Land
<1>7. CASE ConfirmWrite(w)
  <2> DEFINE done == Confirm(w, One(k, write[w].value))
  <2>1. done \in Calls /\ done.op # "pending"
    BY <1>7, WritesAreTyped, CallsAreTyped, DictsOfValues DEF ConfirmWrite, Confirm
  <2>2. <<done>> \in Seq(Calls) /\ (\A i \in DOMAIN <<done>> : <<done>>[i].op # "pending")
    BY <2>1, QueueIsTyped
  <2>3. CASE Release(w, <<done>>, Idle)
    BY <1>0, <1>7, <2>2, <2>3, ReleaseKeepsReleased DEF ConfirmWrite
  <2>4. CASE ~Release(w, <<done>>, Idle)
    <3>1. PICK pc \in {"rereading", "repainting"} :
             /\ ui' = Append(ui, done)
             /\ write' = [write EXCEPT ![w].pc = pc, ![w].dev = selected]
      BY <1>7, <2>4 DEF ConfirmWrite
    <3> DEFINE r == [write[w] EXCEPT !.pc = pc, !.dev = selected]
    <3>2. write' = [write EXCEPT ![w] = r]
      <4> HIDE DEF done
      <4> QED BY <1>0, <3>1
    <3>4. ui' = ui \o <<done>>
      <4> HIDE DEF done
      <4> QED BY <1>0, <2>1, <3>1
    <3>3. r.pc \in Holding /\ r.keys = write[w].keys
      BY <1>0 DEF WriteRecord, Idle, Holding
    <3> HIDE DEF r
    <3> QED BY <1>2, <1>7, <2>2, <3>2, <3>3, <3>4 DEF ConfirmWrite
  <2> QED BY <2>3, <2>4
<1>8. CASE Reread(w)
  <2> DEFINE read == [x \in Refreshes[k] |-> held[write[w].dev][x]]
  <2>1. k \in Keys /\ write[w].dev \in Devices
    BY <1>8, WritesAreTyped DEF Reread, Holding
  <2>2. read \in [Refreshes[k] -> Values] /\ Refreshes[k] \in SUBSET Keys
    BY <2>1, ControlsAssumption DEF TypeOK, Readings, ControlsAssumption
  <2>3. Confirm(w, read) \in Calls /\ Confirm(w, read).op # "pending"
    BY <2>2, CallsAreTyped, DictsOfValues DEF Confirm
  <2>4. PICK calls \in {<<>>} \cup {<<Confirm(w, read)>> : u \in {write[w].dev} \cap open} :
            IF k \in Reshaping /\ selected \in open
            THEN /\ ui' = ui \o calls
                 /\ write' = [write EXCEPT ![w].pc = "repainting", ![w].dev = selected]
            ELSE Release(w, calls, Idle)
    BY <1>8 DEF Reread
  <2>5. calls \in Seq(Calls) /\ (\A i \in DOMAIN calls : calls[i].op # "pending")
    <3> DEFINE again == Confirm(w, read)
    <3>1. again \in Calls /\ again.op # "pending" BY <2>3
    <3>2. calls = <<>> \/ calls = <<again>> OBVIOUS
    <3> HIDE DEF again
    <3>3. CASE calls = <<>> BY <3>3
    <3>4. CASE calls = <<again>> BY <3>1, <3>4
    <3> QED BY <3>2, <3>3, <3>4
  <2>6. CASE Release(w, calls, Idle)
    BY <1>0, <1>8, <2>5, <2>6, ReleaseKeepsReleased DEF Reread
  <2>7. CASE ~Release(w, calls, Idle)
    <3>1. /\ ui' = ui \o calls
          /\ write' = [write EXCEPT ![w].pc = "repainting", ![w].dev = selected]
      BY <2>4, <2>7
    <3> DEFINE r == [write[w] EXCEPT !.pc = "repainting", !.dev = selected]
    <3>2. write' = [write EXCEPT ![w] = r]
      BY <1>0, <3>1
    <3>3. r.pc \in Holding /\ r.keys = write[w].keys
      BY <1>0 DEF WriteRecord, Idle, Holding
    <3> HIDE DEF r
    <3> QED BY <1>2, <1>8, <2>5, <3>1, <3>2, <3>3 DEF Reread
  <2> QED BY <2>6, <2>7
<1>9. CASE Repaint(w)
  <2> DEFINE again == Show(write[w].dev, held[write[w].dev])
  <2>1. again \in Calls /\ again.op # "pending"
    BY <1>9, WritesAreTyped, CallsAreTyped DEF Repaint, Holding, TypeOK, Show
  <2>2. <<again>> \in Seq(Calls) /\ (\A i \in DOMAIN <<again>> : <<again>>[i].op # "pending")
    BY <2>1, QueueIsTyped
  <2> QED BY <1>0, <1>9, <2>2, ReleaseKeepsReleased DEF Repaint
<1>10. CASE RefuseWrite(w) \/ TimeOutWrite(w)
  <2> DEFINE back == Confirm(w, One(k, write[w].prev))
             left == [write[w] EXCEPT !.pc = "orphan"]
  <2>1. back \in Calls /\ back.op # "pending"
    BY <1>10, WritesAreTyped, CallsAreTyped, DictsOfValues
       DEF RefuseWrite, TimeOutWrite, Holding, Confirm
  <2>2. <<back>> \in Seq(Calls) /\ (\A i \in DOMAIN <<back>> : <<back>>[i].op # "pending")
    BY <2>1, QueueIsTyped
  <2>3. left.pc \notin Holding
    BY <1>0 DEF WriteRecord, Idle, Holding
  <2>4. CASE RefuseWrite(w)
    BY <1>0, <2>2, <2>4, ReleaseKeepsReleased DEF RefuseWrite
  <2>5. CASE TimeOutWrite(w)
    <3> HIDE DEF left
    <3>1. Release(w, <<back>>, left) /\ UNCHANGED page
      BY <2>5 DEF TimeOutWrite, left
    <3> QED BY <2>2, <2>3, <3>1, ReleaseKeepsReleased
  <2> QED BY <1>10, <2>4, <2>5
<1>11. CASE EndRestartingWrite(w)
  <2> DEFINE clear == Clear(write[w].keys)
             said == Confirm(w, One(k, write[w].value))
             blank == IF write[w].dev \notin open /\ selected = write[w].dev THEN <<Blank>> ELSE <<>>
  <2>1. /\ clear \in Calls /\ clear.op = "clear" /\ clear.keys = write[w].keys
        /\ said \in Calls /\ said.op # "pending"
        /\ Blank \in Calls /\ Blank.op # "pending"
    BY <1>11, WritesAreTyped, CallsAreTyped, DictsOfValues
       DEF EndRestartingWrite, Clear, Confirm, Blank
  <2>2. PICK calls \in {<<clear, said, Blank>>, <<clear, said>>, <<clear, Blank>>, <<clear>>} :
           ui' = ui \o calls
    <3> HIDE DEF clear, said
    <3>1. blank \in {<<Blank>>, <<>>} OBVIOUS
    <3>2. ui' = (ui \o <<clear, said>>) \o blank \/ ui' = (ui \o <<clear>>) \o blank
      BY <1>11 DEF EndRestartingWrite, clear, said
    <3>3. /\ (ui \o <<clear, said>>) \o <<Blank>> = ui \o <<clear, said, Blank>>
          /\ (ui \o <<clear, said>>) \o <<>> = ui \o <<clear, said>>
          /\ (ui \o <<clear>>) \o <<Blank>> = ui \o <<clear, Blank>>
          /\ (ui \o <<clear>>) \o <<>> = ui \o <<clear>>
      BY <1>0, <2>1
    <3> QED BY <3>1, <3>2, <3>3
  <2>3. /\ calls \in Seq(Calls) /\ 1 \in DOMAIN calls /\ calls[1] = clear
        /\ \A i \in DOMAIN calls : calls[i].op # "pending"
    <3>1. \/ calls = <<clear, said, Blank>> \/ calls = <<clear, said>>
          \/ calls = <<clear, Blank>> \/ calls = <<clear>>
      BY <2>2
    <3> HIDE DEF clear, said
    <3>2. CASE calls = <<clear, said, Blank>> BY <2>1, <3>2
    <3>3. CASE calls = <<clear, said>> BY <2>1, <3>3
    <3>4. CASE calls = <<clear, Blank>> BY <2>1, <3>4
    <3>5. CASE calls = <<clear>> BY <2>1, <3>5
    <3> QED BY <3>1, <3>2, <3>3, <3>4, <3>5
  <2>4. \A v \in Writers, x \in Keys : Holds(v, x) => Holds(v, x)' \/ Cleared(calls, x)
    <3> SUFFICES ASSUME NEW v \in Writers, NEW x \in Keys, Holds(v, x)
                 PROVE Holds(v, x)' \/ Cleared(calls, x)
      OBVIOUS
    <3>1. CASE v = w BY <2>1, <2>3, <3>1 DEF Holds, Cleared
    <3>2. CASE v # w BY <1>0, <1>11, <3>2 DEF Holds, EndRestartingWrite
    <3> QED BY <3>1, <3>2
  <2> QED BY <1>11, <2>2, <2>3, <2>4, ReleasedByCalls DEF EndRestartingWrite
<1> QED BY <1>3, <1>4, <1>5, <1>6, <1>7, <1>8, <1>9, <1>10, <1>11

\* The other coroutines, the user and the devices: no write changes, and no call they queue
\* holds a control.
LEMMA OthersKeepReleased ==
    ASSUME TypeOK, Released, UNCHANGED write, page' = page \/ page' = EmptyPage,
           NEW c \in Calls, c.op # "pending", ui' = ui \/ ui' = Append(ui, c)
    PROVE Released'
<1>0. ui \in Seq(Calls) BY DEF TypeOK
<1>1. \A w \in Writers, k \in Keys : Holds(w, k) => Holds(w, k)'
  BY DEF Holds
<1>2. CASE ui' = ui BY <1>1, <1>2, ReleasedByStep
<1>3. CASE ui' = Append(ui, c)
  <2>1. <<c>> \in Seq(Calls) /\ ui' = ui \o <<c>> /\ (\A i \in DOMAIN <<c>> : <<c>>[i].op # "pending")
    BY <1>0, <1>3
  <2> QED BY <1>1, <2>1, ReleasedByCalls
<1> QED BY <1>2, <1>3

LEMMA ReaderKeepsReleased ==
    ASSUME TypeOK, Released, NEW u \in Devices,
           \/ FinishTeardown(u) \/ ReadPage(u) \/ QueuePage(u)
           \/ ReadPoll(u) \/ EndPoll(u) \/ Deliver(u)
    PROVE Released'
<1>0. Blank \in Calls /\ Blank.op # "pending"
  BY CallsAreTyped DEF Blank
<1>1. CASE FinishTeardown(u) BY <1>0, <1>1, OthersKeepReleased DEF FinishTeardown
<1>2. CASE ReadPage(u) \/ ReadPoll(u) BY <1>0, <1>2, OthersKeepReleased DEF ReadPage, ReadPoll
<1>3. CASE QueuePage(u)
  <2>1. show[u].vals \in Readings
    BY <1>3, ShowsAreTyped DEF QueuePage, TypeOK
  <2>2. Show(u, show[u].vals) \in Calls /\ Show(u, show[u].vals).op # "pending"
    BY <2>1, CallsAreTyped DEF Show
  <2> QED BY <1>3, <2>2, OthersKeepReleased DEF QueuePage
<1>4. CASE EndPoll(u)
  <2>1. poll[u] \in [Keys -> Values] /\ Keys \in SUBSET Keys
    BY <1>4 DEF EndPoll, TypeOK, Readings
  <2>2. Offer(u, poll[u]) \in Calls /\ Offer(u, poll[u]).op # "pending"
    BY <2>1, CallsAreTyped, DictsOfValues DEF Offer
  <2> QED BY <1>4, <2>2, OthersKeepReleased DEF EndPoll
<1>5. CASE Deliver(u)
  <2> DEFINE d == One(Head(told[u])[1], Head(told[u])[2])
  <2>1. Head(told[u]) \in Keys \X Values
    BY <1>5 DEF Deliver, TypeOK
  <2>2. Offer(u, d) \in Calls /\ Offer(u, d).op # "pending"
    BY <2>1, CallsAreTyped, DictsOfValues DEF Offer
  <2> QED BY <1>5, <2>2, OthersKeepReleased DEF Deliver
<1> QED BY <1>1, <1>2, <1>3, <1>4, <1>5

LEMMA UserKeepsReleased == TypeOK /\ Released /\ User => Released'
<1> SUFFICES ASSUME TypeOK, Released, User PROVE Released'
  OBVIOUS
<1>0. Blank \in Calls /\ Blank.op # "pending"
  BY CallsAreTyped DEF Blank
<1>1. ASSUME NEW u \in Devices, Select(u) \/ Connect(u) \/ StartTeardown(u) PROVE Released'
  BY <1>0, <1>1, OthersKeepReleased DEF Select, Connect, StartTeardown
<1>2. ASSUME NEW u \in Devices, NEW k \in Keys, NEW v \in Values, Turn(u, k, v) PROVE Released'
  BY <1>0, <1>2, OthersKeepReleased DEF Turn
<1>3. ASSUME NEW w \in Writers, NEW k \in Keys, NEW v \in Values, Edit(w, k, v) PROVE Released'
  <2>1. \A x \in Writers, y \in Keys : Holds(x, y) => Holds(x, y)'
    BY <1>3 DEF Edit, Holds, Holding, TypeOK
  <2> QED BY <1>3, <2>1, ReleasedByStep DEF Edit
<1> QED BY <1>1, <1>2, <1>3 DEF User

\* No order of failures, timeouts, repaints, disconnects and overlapping writes leaves a
\* control disabled with nothing on its way to enable it.
THEOREM ReleasedCorrect == Spec => []PendingIsReleased
<1>1. Init => Released
  BY DEF Init, Released, PendingIsReleased, QueuedIsReleased, PageOf, EmptyPage
<1>2. TypeOK /\ Released /\ [Next]_vars => Released'
  <2> SUFFICES ASSUME TypeOK, Released, [Next]_vars PROVE Released'
    OBVIOUS
  <2>1. CASE User BY <2>1, UserKeepsReleased
  <2>2. CASE Loop BY <2>2, WriterKeepsReleased, ReaderKeepsReleased DEF Loop
  <2>3. CASE RunUI BY <2>3, RunUIKeepsReleased
  <2>4. CASE UNCHANGED vars
    BY <2>4 DEF vars, Released, PendingIsReleased, QueuedIsReleased, Holds, Cleared
  <2> QED BY <2>1, <2>2, <2>3, <2>4 DEF Next
<1>3. Released => PendingIsReleased
  BY DEF Released
<1> QED BY <1>1, <1>2, <1>3, PageTypeCorrect, PTL DEF Spec

-----------------------------------------------------------------------------
(* What a write in flight holds                                              *)

\* writes_with is declared of every control of a group alike.
GroupsApart == \A k, j \in Keys : k \in Group(j) => Group(k) = Group(j)

Live(w) == write[w].pc \notin {"idle", "orphan"}

\* A patient user has one write of a group under way.
OneInAGroup ==
    \A w, x \in Writers : w # x /\ Live(w) /\ Live(x) => write[w].key \notin Group(write[x].key)

OwnsItsGroup == \A w \in Writers : write[w].pc \in Holding => write[w].keys = Group(write[w].key)

\* A call that leaves these controls as they are, as long as they are held.
Quiet(c, keys) ==
    /\ c.op \in {"pending", "clear"} => c.keys \cap keys = {}
    /\ c.op = "pending" => c.key \notin keys
    /\ c.op = "values" => ~c.confirmed \/ DOMAIN c.of \cap keys = {}
    /\ c.op # "show"

\* The call that marks the controls of w is queued, and none after it undoes that.
MarkComes(w) ==
    \E i \in DOMAIN ui :
        /\ ui[i] = Pending(w, write[w].keys, write[w].key, write[w].value)
        /\ \A j \in DOMAIN ui : j > i => Quiet(ui[j], write[w].keys)

\* It has run, and no call that is queued undoes that.
MarkStands(w) ==
    /\ \A j \in DOMAIN ui : Quiet(ui[j], write[w].keys)
    /\ page.of # None => /\ write[w].keys \subseteq page.pending
                         /\ page.val[write[w].key] = write[w].value

Marks == \A w \in Writers : write[w].pc = "writing" => MarkComes(w) \/ MarkStands(w)

\* Nobody is about to put the page up again.
NoRebuild ==
    /\ \A u \in Devices : show[u].pc = "none"
    /\ \A i \in DOMAIN ui : ui[i].op # "show"

Marking ==
    /\ \A w \in Writers : write[w].pc # "repainting"
    /\ OneInAGroup /\ OwnsItsGroup
    /\ moves = 0 => NoRebuild /\ Marks

\* A queue with calls put at its end: the old ones where they were, then the new ones.
LEMMA CallsAppended ==
    ASSUME NEW q \in Seq(Calls), NEW calls \in Seq(Calls)
    PROVE /\ DOMAIN q = 1..Len(q) /\ DOMAIN calls = 1..Len(calls)
          /\ DOMAIN (q \o calls) = 1..(Len(q) + Len(calls))
          /\ \A i \in DOMAIN q : i \in DOMAIN (q \o calls) /\ (q \o calls)[i] = q[i]
          /\ \A i \in DOMAIN calls :
                /\ Len(q) + i \in DOMAIN (q \o calls)
                /\ (q \o calls)[Len(q) + i] = calls[i]
          /\ \A i \in DOMAIN (q \o calls) \ DOMAIN q :
                i - Len(q) \in DOMAIN calls /\ (q \o calls)[i] = calls[i - Len(q)]
          /\ Len(q) \in Nat /\ Len(calls) \in Nat
OBVIOUS

\* A queue without its head.
LEMMA CallsShifted ==
    ASSUME NEW q \in Seq(Calls), q # <<>>
    PROVE /\ DOMAIN q = 1..Len(q) /\ Len(q) \in Nat /\ 1 \in DOMAIN q /\ Head(q) = q[1]
          /\ DOMAIN Tail(q) = 1..(Len(q) - 1)
          /\ \A i \in DOMAIN Tail(q) : i + 1 \in DOMAIN q /\ Tail(q)[i] = q[i + 1]
          /\ \A i \in DOMAIN q : i > 1 => i - 1 \in DOMAIN Tail(q) /\ Tail(q)[i - 1] = q[i]
OBVIOUS

\* Calls that are none of its controls' leave the mark of a write alone.
LEMMA MarkByCalls ==
    ASSUME TypeOK, NEW w \in Writers, MarkComes(w) \/ MarkStands(w),
           UNCHANGED page, write'[w] = write[w],
           NEW calls \in Seq(Calls), ui' = ui \o calls,
           \A i \in DOMAIN calls : Quiet(calls[i], write[w].keys)
    PROVE (MarkComes(w) \/ MarkStands(w))'
<1>0. ui \in Seq(Calls) BY DEF TypeOK
<1>1. \A j \in DOMAIN ui' \ DOMAIN ui : Quiet(ui'[j], write[w].keys)
  <2> SUFFICES ASSUME NEW j \in DOMAIN ui' \ DOMAIN ui PROVE Quiet(ui'[j], write[w].keys)
    OBVIOUS
  <2>1. j - Len(ui) \in DOMAIN calls /\ ui'[j] = calls[j - Len(ui)]
    BY <1>0, CallsAppended
  <2> QED BY <2>1
<1>2. CASE MarkComes(w)
  <2>1. PICK i \in DOMAIN ui :
           /\ ui[i] = Pending(w, write[w].keys, write[w].key, write[w].value)
           /\ \A j \in DOMAIN ui : j > i => Quiet(ui[j], write[w].keys)
    BY <1>2 DEF MarkComes
  <2>2. i \in DOMAIN ui' /\ ui'[i] = Pending(w, write[w].keys, write[w].key, write[w].value)
    BY <1>0, <2>1, CallsAppended
  <2>3. \A j \in DOMAIN ui' : j > i => Quiet(ui'[j], write[w].keys)
    <3> SUFFICES ASSUME NEW j \in DOMAIN ui', j > i PROVE Quiet(ui'[j], write[w].keys)
      OBVIOUS
    <3>1. CASE j \in DOMAIN ui
      <4>1. ui'[j] = ui[j] BY <1>0, <3>1, CallsAppended
      <4> QED BY <2>1, <3>1, <4>1
    <3> QED BY <1>1, <3>1
  <2> QED BY <2>2, <2>3 DEF MarkComes
<1>3. CASE MarkStands(w)
  <2>1. \A j \in DOMAIN ui' : Quiet(ui'[j], write[w].keys)
    <3> SUFFICES ASSUME NEW j \in DOMAIN ui' PROVE Quiet(ui'[j], write[w].keys)
      OBVIOUS
    <3>1. CASE j \in DOMAIN ui
      <4>1. ui'[j] = ui[j] BY <1>0, <3>1, CallsAppended
      <4> QED BY <1>3, <3>1, <4>1 DEF MarkStands
    <3> QED BY <1>1, <3>1
  <2> QED BY <1>3, <2>1 DEF MarkStands
<1> QED BY <1>2, <1>3

\* What a quiet call makes of the page keeps what is held and its value.
LEMMA QuietKeepsPage ==
    ASSUME TypeOK, NEW c \in Calls, NEW keys \in SUBSET Keys, NEW k \in keys, NEW v,
           Quiet(c, keys), RunUI, c = Head(ui),
           page.of # None => keys \subseteq page.pending /\ page.val[k] = v
    PROVE page'.of # None => keys \subseteq page'.pending /\ page'.val[k] = v
<1>1. page.of # None => page \in [of : Devices, val : [Keys -> Values \cup {None}], pending : SUBSET Keys]
  BY DEF TypeOK, EmptyPage
<1>2. CASE c.op \in {"pending", "clear", "values"} /\ page.of = None /\ UNCHANGED page
  BY <1>2
<1>3. CASE c.op = "pending" /\ page.of # None /\ page' = SetPending(page, c)
  BY <1>1, <1>3 DEF SetPending, Quiet
<1>4. CASE c.op = "clear" /\ page.of # None /\ page' = [page EXCEPT !.pending = @ \ c.keys]
  <2>1. page'.pending = page.pending \ c.keys /\ page'.val = page.val
    BY <1>1, <1>4
  <2> QED BY <1>4, <2>1 DEF Quiet
<1>5. CASE c.op = "values" /\ page.of # None /\ page' = SetValues(page, c)
  <2> DEFINE taken == IF c.confirmed THEN DOMAIN c.of ELSE DOMAIN c.of \ page.pending
  <2>1. /\ page'.pending = page.pending \ taken
        /\ page'.val = [x \in Keys |-> IF x \in taken THEN c.of[x] ELSE page.val[x]]
    BY <1>1, <1>5 DEF SetValues
  <2>2. taken \cap keys = {}
    BY <1>5 DEF Quiet
  <2> QED BY <1>5, <2>1, <2>2
<1>6. CASE page' = EmptyPage
  BY <1>6 DEF EmptyPage
<1> QED BY <1>2, <1>3, <1>4, <1>5, <1>6 DEF RunUI, Quiet

\* One queued call: the mark of w, or one that is none of its controls', or one before the mark.
LEMMA RunUIKeepsMark ==
    ASSUME TypeOK, RunUI, NEW w \in Writers, MarkComes(w) \/ MarkStands(w),
           write[w].pc = "writing", write[w].key \in write[w].keys
    PROVE (MarkComes(w) \/ MarkStands(w))'
<1> DEFINE c == Head(ui)
           keys == write[w].keys
           mark == Pending(w, keys, write[w].key, write[w].value)
<1>0. /\ ui \in Seq(Calls) /\ ui # <<>> /\ c \in Calls /\ ui' = Tail(ui) /\ UNCHANGED write
      /\ keys \in SUBSET Keys
  BY QueueIsTyped, WritesAreTyped DEF TypeOK, RunUI
<1>1. CASE MarkStands(w)
  <2>1. Quiet(c, keys)
    BY <1>0, <1>1, CallsShifted DEF MarkStands
  <2>2. page'.of # None => keys \subseteq page'.pending /\ page'.val[write[w].key] = write[w].value
    <3> DEFINE k == write[w].key
               v == write[w].value
    <3>1. k \in keys /\ (page.of # None => keys \subseteq page.pending /\ page.val[k] = v)
      BY <1>1 DEF MarkStands
    <3> HIDE DEF c, keys, k, v
    <3>2. c = Head(ui)
      BY DEF c
    <3>3. page'.of # None => keys \subseteq page'.pending /\ page'.val[k] = v
      BY <1>0, <2>1, <3>1, <3>2, QuietKeepsPage
    <3> QED BY <3>3 DEF k, v
  <2>3. \A j \in DOMAIN ui' : Quiet(ui'[j], keys)
    BY <1>0, <1>1, CallsShifted DEF MarkStands
  <2> QED BY <1>0, <2>2, <2>3 DEF MarkStands
<1>2. CASE MarkComes(w)
  <2>1. PICK i \in DOMAIN ui : ui[i] = mark /\ \A j \in DOMAIN ui : j > i => Quiet(ui[j], keys)
    BY <1>2 DEF MarkComes
  <2>2. CASE i = 1
    <3>1. c = mark BY <1>0, <2>1, <2>2, CallsShifted
    <3>2. \A j \in DOMAIN ui' : Quiet(ui'[j], keys)
      <4> SUFFICES ASSUME NEW j \in DOMAIN ui' PROVE Quiet(ui'[j], keys)
        OBVIOUS
      <4>1. j + 1 \in DOMAIN ui /\ ui'[j] = ui[j + 1] /\ j \in Nat /\ j > 0
        BY <1>0, CallsShifted
      <4> QED BY <2>1, <2>2, <4>1
    <3>3. page'.of # None => keys \subseteq page'.pending /\ page'.val[write[w].key] = write[w].value
      <4>1. c.op = "pending" /\ c.keys = keys /\ c.key = write[w].key /\ c.value = write[w].value
        BY <3>1 DEF Pending
      <4>2. (UNCHANGED page /\ page.of = None) \/ (page.of # None /\ page' = SetPending(page, c))
        BY <4>1 DEF RunUI
      <4>3. page.of # None => page \in [of : Devices, val : [Keys -> Values \cup {None}], pending : SUBSET Keys]
        BY DEF TypeOK, EmptyPage
      <4> HIDE DEF c
      <4> QED BY <1>0, <4>1, <4>2, <4>3 DEF SetPending
    <3> QED BY <1>0, <3>2, <3>3 DEF MarkStands
  <2>3. CASE i # 1
    <3>1. i - 1 \in DOMAIN ui' /\ ui'[i - 1] = mark
      BY <1>0, <2>1, <2>3, CallsShifted
    <3>2. \A j \in DOMAIN ui' : j > i - 1 => Quiet(ui'[j], keys)
      <4> SUFFICES ASSUME NEW j \in DOMAIN ui', j > i - 1 PROVE Quiet(ui'[j], keys)
        OBVIOUS
      <4>1. j + 1 \in DOMAIN ui /\ ui'[j] = ui[j + 1] /\ j \in Nat /\ i \in Nat
        BY <1>0, CallsShifted
      <4> QED BY <2>1, <4>1
    <3> QED BY <1>0, <3>1, <3>2 DEF MarkComes
  <2> QED BY <2>2, <2>3
<1> QED BY <1>1, <1>2

\* A call that is about these controls only, and rebuilds nothing.
About(c, keys) ==
    \/ c.op = "clear" /\ c.keys \subseteq keys
    \/ c.op = "values" /\ c.confirmed /\ DOMAIN c.of \subseteq keys
    \/ c.op = "values" /\ ~c.confirmed
    \/ c.op = "blank"

LEMMA AboutOthersIsQuiet ==
    ASSUME NEW c, NEW keys, NEW others, keys \cap others = {}, About(c, keys)
    PROVE Quiet(c, others)
BY DEF About, Quiet

\* The constants WritesAreHeld needs: a user who waits, groups that do not overlap, and no
\* control that moves others than its group's or reshapes the page.
SteadyForms ==
    /\ Patient /\ Reshaping = {} /\ GroupsApart
    /\ \A k \in Keys : Refreshes[k] \subseteq Group(k)

\* A queue with one more call: what was in it, and that call.
LEMMA CallAppended ==
    ASSUME NEW q \in Seq(Calls), NEW d \in Calls
    PROVE /\ Append(q, d) \in Seq(Calls)
          /\ \A i \in DOMAIN Append(q, d) :
                Append(q, d)[i] = d \/ (i \in DOMAIN q /\ Append(q, d)[i] = q[i])
          /\ \A i \in DOMAIN q : i \in DOMAIN Append(q, d) /\ Append(q, d)[i] = q[i]
          /\ \E j \in DOMAIN Append(q, d) :
                Append(q, d)[j] = d /\ \A i \in DOMAIN q : j > i
OBVIOUS

LEMMA GroupsAreTyped ==
    \A k \in Keys : Group(k) \in SUBSET Keys /\ k \in Group(k)
BY ControlsAssumption DEF Group, ControlsAssumption

\* Every step of a write but its start queues calls about its group only; it ends, or goes on
\* holding what it held.
LEMMA WriterAsksItsGroup ==
    ASSUME TypeOK, SteadyForms, Marking, NEW w \in Writers,
           \/ DropWrite(w) \/ Land(w) \/ ConfirmWrite(w) \/ Reread(w)
           \/ Repaint(w) \/ RefuseWrite(w) \/ TimeOutWrite(w) \/ OrphanLands(w)
           \/ EndRestartingWrite(w)
    PROVE /\ \E calls \in Seq(Calls) :
                /\ ui' = ui \o calls
                /\ \A i \in DOMAIN calls : About(calls[i], Group(write[w].key))
          /\ \E r \in WriteRecord :
                /\ write' = [write EXCEPT ![w] = r]
                /\ r.pc \in {"idle", "orphan", "landed", "rereading"}
                /\ r.pc # "idle" => r.key = write[w].key /\ r.keys = write[w].keys
                /\ r.pc \in {"landed", "rereading"} => Live(w)
          /\ UNCHANGED <<page, selected, show, moves>>
<1> DEFINE k == write[w].key
           G == Group(k)
           own == Clear(write[w].keys)
<1>0. /\ ui \in Seq(Calls) /\ write \in [Writers -> WriteRecord] /\ write[w] \in WriteRecord
      /\ Idle \in WriteRecord /\ Idle.pc = "idle" /\ write[w].pc # "idle"
      /\ k \in Keys /\ write[w].value \in Values
      /\ G \in SUBSET Keys /\ k \in G /\ Refreshes[k] \subseteq G
      /\ write[w].pc # "repainting"
  <2>1. write[w].pc # "idle"
    BY DEF DropWrite, Land, ConfirmWrite, Reread, Repaint, RefuseWrite, TimeOutWrite, OrphanLands,
           EndRestartingWrite
  <2>2. k \in Keys /\ write[w].value \in Values
    BY <2>1, WritesAreTyped
  <2> QED BY <2>1, <2>2, WritesAreTyped, GroupsAreTyped DEF TypeOK, Idle, SteadyForms, Marking
<1>1. write[w].pc \in Holding => /\ own \in Calls /\ About(own, G)
                                 /\ write[w].dev \in Devices /\ write[w].prev \in Values \cup {None}
  BY <1>0, WritesAreTyped, CallsAreTyped DEF About, Clear, Marking, OwnsItsGroup
<1>2. \A v \in Values \cup {None} : /\ Confirm(w, One(k, v)) \in Calls
                                   /\ About(Confirm(w, One(k, v)), G)
  <2> SUFFICES ASSUME NEW v \in Values \cup {None}
               PROVE Confirm(w, One(k, v)) \in Calls /\ About(Confirm(w, One(k, v)), G)
    OBVIOUS
  <2>1. One(k, v) \in Dicts /\ DOMAIN One(k, v) = {k}
    BY <1>0, DictsOfValues DEF One
  <2> QED BY <1>0, <2>1, CallsAreTyped DEF About, Confirm
<1>3. Blank \in Calls /\ About(Blank, G)
  BY CallsAreTyped DEF Blank, About
<1>4. ASSUME NEW r \in WriteRecord, write' = [write EXCEPT ![w] = r],
             r.pc \in {"idle", "orphan", "landed", "rereading"},
             r.pc # "idle" => r.key = write[w].key /\ r.keys = write[w].keys,
             r.pc \in {"landed", "rereading"} => Live(w)
      PROVE \E s \in WriteRecord :
                /\ write' = [write EXCEPT ![w] = s]
                /\ s.pc \in {"idle", "orphan", "landed", "rereading"}
                /\ s.pc # "idle" => s.key = write[w].key /\ s.keys = write[w].keys
                /\ s.pc \in {"landed", "rereading"} => Live(w)
  BY <1>4
<1>5. ASSUME NEW s \in Seq(Calls), ui' = ui \o s, \A i \in DOMAIN s : About(s[i], G)
      PROVE \E calls \in Seq(Calls) :
                ui' = ui \o calls /\ \A i \in DOMAIN calls : About(calls[i], G)
  BY <1>5
<1>6. ASSUME UNCHANGED ui
      PROVE \E calls \in Seq(Calls) :
                ui' = ui \o calls /\ \A i \in DOMAIN calls : About(calls[i], G)
  <2> DEFINE none == <<>>
  <2>1. none \in Seq(Calls) /\ ui' = ui \o none /\ \A i \in DOMAIN none : About(none[i], G)
    BY <1>0, <1>6
  <2> HIDE DEF none
  <2> QED BY <1>5, <2>1
<1>7. ASSUME NEW c \in Calls, About(c, G), ui' = Append(ui, c)
      PROVE \E calls \in Seq(Calls) :
                ui' = ui \o calls /\ \A i \in DOMAIN calls : About(calls[i], G)
  <2> DEFINE one == <<c>>
  <2>1. one \in Seq(Calls) /\ ui' = ui \o one /\ \A i \in DOMAIN one : About(one[i], G)
    BY <1>0, <1>7
  <2> HIDE DEF one
  <2> QED BY <1>5, <2>1
<1>8. ASSUME NEW c \in Calls, About(c, G), NEW d \in Calls, About(d, G), ui' = ui \o <<c, d>>
      PROVE \E calls \in Seq(Calls) :
                ui' = ui \o calls /\ \A i \in DOMAIN calls : About(calls[i], G)
  <2> DEFINE two == <<c, d>>
  <2>1. two \in Seq(Calls) /\ ui' = ui \o two /\ \A i \in DOMAIN two : About(two[i], G)
    BY <1>0, <1>8
  <2> HIDE DEF two
  <2> QED BY <1>5, <2>1
<1>9. ASSUME NEW c \in Calls, About(c, G), write[w].pc \in Holding, NEW r, Release(w, <<c>>, r)
      PROVE /\ \E calls \in Seq(Calls) :
                   ui' = ui \o calls /\ \A i \in DOMAIN calls : About(calls[i], G)
            /\ write' = [write EXCEPT ![w] = r]
  <2> DEFINE one == <<c>>
             two == Append(one, own)
  <2>1. own \in Calls /\ About(own, G) BY <1>1, <1>9
  <2>2. one \in Seq(Calls) /\ \A i \in DOMAIN one : one[i] = c
    BY <1>9
  <2>3. ui' = ui \o two /\ write' = [write EXCEPT ![w] = r]
    BY <1>9 DEF Release
  <2> HIDE DEF own, one
  <2>4. two \in Seq(Calls) /\ \A i \in DOMAIN two : two[i] = c \/ two[i] = own
    BY <2>1, <2>2, CallAppended
  <2> HIDE DEF two
  <2> QED BY <1>5, <1>9, <2>1, <2>3, <2>4
<1> HIDE DEF k, G, own
<1>10. CASE DropWrite(w)
  BY <1>0, <1>4, <1>6, <1>10 DEF DropWrite, counters, G, k
<1>11. CASE OrphanLands(w)
  BY <1>0, <1>4, <1>6, <1>11 DEF OrphanLands, counters, G, k
<1>12. CASE Land(w)
  <2>1. PICK v \in Values : write' = [write EXCEPT ![w].pc = "landed",
                                        ![w].value = IF k \in Restarting THEN @ ELSE v]
    BY <1>12 DEF Land, k
  <2> DEFINE x == IF k \in Restarting THEN write[w].value ELSE v
             r == [write[w] EXCEPT !.pc = "landed", !.value = x]
  <2>2. x \in Values BY <1>0
  <2>3. r \in WriteRecord
    BY <1>0, <1>12, <2>2, HoldersAreTyped DEF Land, Holding
  <2>4. write' = [write EXCEPT ![w] = r]
    BY <1>0, <2>1
  <2>5. r.pc = "landed" /\ r.key = write[w].key /\ r.keys = write[w].keys
    BY <1>0, <1>12 DEF WriteRecord, Idle, Land
  <2>6. Live(w)
    BY <1>12 DEF Live, Land
  <2> HIDE DEF r, x
  <2> QED BY <1>4, <1>6, <1>12, <2>3, <2>4, <2>5, <2>6 DEF Land, counters, G, k
<1>13. CASE ConfirmWrite(w)
  <2> DEFINE done == Confirm(w, One(k, write[w].value))
  <2>1. done \in Calls /\ About(done, G)
    BY <1>0, <1>2
  <2>2. write[w].pc \in Holding /\ Live(w)
    BY <1>13 DEF ConfirmWrite, Holding, Live
  <2>3. CASE Release(w, <<done>>, Idle)
    <3> HIDE DEF done
    <3> QED BY <1>0, <1>4, <1>9, <1>13, <2>1, <2>2, <2>3 DEF ConfirmWrite, counters, G, k
  <2>4. CASE ~Release(w, <<done>>, Idle)
    <3>1. /\ ui' = Append(ui, done) /\ selected \in Devices
          /\ write' = [write EXCEPT ![w].pc = "rereading", ![w].dev = selected]
      BY <1>13, <2>4 DEF ConfirmWrite, k, SteadyForms, TypeOK
    <3> DEFINE r == [write[w] EXCEPT !.pc = "rereading", !.dev = selected]
    <3>2. r \in WriteRecord
      BY <1>0, <2>2, <3>1, HoldersAreTyped DEF Holding
    <3>3. write' = [write EXCEPT ![w] = r]
      BY <1>0, <3>1
    <3>4. r.pc = "rereading" /\ r.key = write[w].key /\ r.keys = write[w].keys
      BY <1>0 DEF WriteRecord, Idle
    <3> HIDE DEF done, r
    <3> QED BY <1>4, <1>7, <1>13, <2>1, <2>2, <3>1, <3>2, <3>3, <3>4 DEF ConfirmWrite, counters, G, k
  <2> QED BY <2>3, <2>4
<1>14. CASE Reread(w)
  <2> DEFINE read == [x \in Refreshes[k] |-> held[write[w].dev][x]]
             again == Confirm(w, read)
  <2>1. write[w].pc \in Holding /\ Live(w) /\ k \notin Reshaping
    BY <1>14 DEF Reread, Holding, Live, SteadyForms
  <2>2. again \in Calls /\ About(again, G)
    <3>1. read \in [Refreshes[k] -> Values] /\ Refreshes[k] \in SUBSET Keys
      BY <1>0, <1>1, <2>1, ControlsAssumption DEF TypeOK, Readings, ControlsAssumption
    <3>2. read \in Dicts BY <3>1, DictsOfValues
    <3> QED BY <1>0, <3>2, CallsAreTyped DEF About, Confirm
  <2>3. Release(w, <<>>, Idle) \/ Release(w, <<again>>, Idle)
    BY <1>14, <2>1 DEF Reread, k
  <2> HIDE DEF again
  <2>4. CASE Release(w, <<>>, Idle)
    <3>1. Append(<<>>, own) = <<own>> /\ ui \o <<own>> = Append(ui, own)
      BY <1>0, <1>1, <2>1
    <3>2. ui' = Append(ui, own) /\ write' = [write EXCEPT ![w] = Idle]
      BY <2>4, <3>1 DEF Release, own
    <3> QED BY <1>0, <1>1, <1>4, <1>7, <1>14, <2>1, <3>2 DEF Reread, counters, G, k
  <2>5. CASE Release(w, <<again>>, Idle)
    BY <1>0, <1>4, <1>9, <1>14, <2>1, <2>2, <2>5 DEF Reread, counters, G, k
  <2> QED BY <2>3, <2>4, <2>5
<1>15. CASE Repaint(w)
  BY <1>0, <1>15 DEF Repaint
<1>16. CASE RefuseWrite(w) \/ TimeOutWrite(w)
  <2> DEFINE back == Confirm(w, One(k, write[w].prev))
             left == [write[w] EXCEPT !.pc = "orphan"]
  <2>1. write[w].pc \in Holding /\ Live(w)
    BY <1>16 DEF RefuseWrite, TimeOutWrite, Holding, Live
  <2>2. back \in Calls /\ About(back, G)
    BY <1>1, <1>2, <2>1
  <2>3. /\ left \in WriteRecord /\ left.pc = "orphan"
        /\ left.key = write[w].key /\ left.keys = write[w].keys
    BY <1>0, <2>1, HoldersAreTyped DEF WriteRecord, Idle, Holding
  <2>4. /\ Release(w, <<back>>, Idle) \/ Release(w, <<back>>, left)
        /\ UNCHANGED <<page, selected, show, moves>>
    BY <1>16 DEF RefuseWrite, TimeOutWrite, k, counters
  <2> HIDE DEF back, left
  <2>5. CASE Release(w, <<back>>, Idle)
    BY <1>0, <1>4, <1>9, <2>1, <2>2, <2>4, <2>5 DEF G, k
  <2>6. CASE Release(w, <<back>>, left)
    BY <1>4, <1>9, <2>1, <2>2, <2>3, <2>4, <2>6 DEF G, k
  <2> QED BY <2>4, <2>5, <2>6
<1>17. CASE EndRestartingWrite(w)
  <2> DEFINE said == Confirm(w, One(k, write[w].value))
             blank == IF write[w].dev \notin open /\ selected = write[w].dev THEN <<Blank>> ELSE <<>>
  <2>1. write[w].pc \in Holding
    BY <1>17 DEF EndRestartingWrite, Holding
  <2>2. said \in Calls /\ About(said, G) BY <1>0, <1>2
  <2>3. ui' = (ui \o <<own, said>>) \o blank \/ ui' = (ui \o <<own>>) \o blank
    BY <1>17 DEF EndRestartingWrite, own, k
  <2>4. blank = <<>> \/ blank = <<Blank>> OBVIOUS
  <2> HIDE DEF said, blank
  <2>5. /\ (ui \o <<own, said>>) \o <<Blank>> = ui \o <<own, said, Blank>>
        /\ (ui \o <<own, said>>) \o <<>> = ui \o <<own, said>>
        /\ (ui \o <<own>>) \o <<Blank>> = ui \o <<own, Blank>>
        /\ (ui \o <<own>>) \o <<>> = Append(ui, own)
    BY <1>0, <1>1, <1>3, <2>1, <2>2
  <2>6. \E calls \in Seq(Calls) : ui' = ui \o calls /\ \A i \in DOMAIN calls : About(calls[i], G)
    <3>1. CASE ui' = ui \o <<own, said, Blank>>
      <4> DEFINE three == <<own, said, Blank>>
      <4>1. three \in Seq(Calls) /\ ui' = ui \o three /\ \A i \in DOMAIN three : About(three[i], G)
        BY <1>1, <1>3, <2>1, <2>2, <3>1
      <4> HIDE DEF three
      <4> QED BY <1>5, <4>1
    <3>2. CASE ui' = ui \o <<own, said>> BY <1>1, <1>8, <2>1, <2>2, <3>2
    <3>3. CASE ui' = ui \o <<own, Blank>> BY <1>1, <1>3, <1>8, <2>1, <3>3
    <3>4. CASE ui' = Append(ui, own) BY <1>1, <1>7, <2>1, <3>4
    <3> QED BY <2>3, <2>4, <2>5, <3>1, <3>2, <3>3, <3>4
  <2> QED BY <1>0, <1>4, <1>17, <2>6 DEF EndRestartingWrite, G, k, counters
<1> QED BY <1>10, <1>11, <1>12, <1>13, <1>14, <1>15, <1>16, <1>17

\* Groups of two writes under way have no control in common.
LEMMA GroupsDoNotMeet ==
    ASSUME TypeOK, SteadyForms, OneInAGroup, NEW w \in Writers, NEW x \in Writers, w # x,
           Live(w), Live(x)
    PROVE Group(write[w].key) \cap Group(write[x].key) = {}
<1>1. write[w].key \in Keys /\ write[x].key \in Keys
  BY WritesAreTyped DEF Live
<1> QED BY <1>1, GroupsAreTyped DEF SteadyForms, GroupsApart, OneInAGroup

\* Calls about other groups, or about none, keep the marks of a step that changes no page; so
\* does a write that ends, or leaves "writing".
LEMMA MarksByCalls ==
    ASSUME TypeOK, SteadyForms, Marking, moves = 0,
           NEW w \in Writers, NEW calls \in Seq(Calls), ui' = ui \o calls,
           \A x \in Writers \ {w} : write'[x] = write[x],
           \A x \in Writers \ {w} : \A i \in DOMAIN calls :
               write[x].pc = "writing" => Quiet(calls[i], write[x].keys),
           write'[w].pc = "writing" => MarkComes(w)', UNCHANGED page
    PROVE Marks'
<1> SUFFICES ASSUME NEW x \in Writers, write'[x].pc = "writing"
             PROVE (MarkComes(x) \/ MarkStands(x))'
  BY DEF Marks
<1>1. CASE x = w BY <1>1
<1>2. CASE x # w
  <2>1. MarkComes(x) \/ MarkStands(x)
    BY <1>2 DEF Marking, Marks
  <2> QED BY <1>2, <2>1, MarkByCalls
<1> QED BY <1>1, <1>2

LEMMA NoRebuildByCalls ==
    ASSUME TypeOK, NoRebuild, NEW calls \in Seq(Calls), ui' = ui \o calls,
           \A i \in DOMAIN calls : calls[i].op # "show", UNCHANGED show
    PROVE NoRebuild'
<1> SUFFICES ASSUME NEW j \in DOMAIN ui' PROVE ui'[j].op # "show"
  BY DEF NoRebuild
<1>0. ui \in Seq(Calls) BY DEF TypeOK
<1>1. CASE j \in DOMAIN ui
  <2>1. ui'[j] = ui[j] BY <1>0, <1>1, CallsAppended
  <2> QED BY <1>1, <2>1 DEF NoRebuild
<1>2. CASE j \notin DOMAIN ui
  <2>1. j - Len(ui) \in DOMAIN calls /\ ui'[j] = calls[j - Len(ui)]
    BY <1>0, <1>2, CallsAppended
  <2> QED BY <2>1
<1> QED BY <1>1, <1>2

LEMMA StartKeepsMarking ==
    ASSUME TypeOK, SteadyForms, Marking, NEW w \in Writers, StartWrite(w)
    PROVE Marking'
<1> DEFINE k == write[w].key
           c == Pending(w, Group(k), k, write[w].value)
           r == [write[w] EXCEPT !.pc = "writing", !.dev = selected, !.prev = page.val[k], !.keys = Group(k)]
<1>0. /\ ui \in Seq(Calls) /\ write \in [Writers -> WriteRecord] /\ ui' = Append(ui, c)
      /\ k \in Keys /\ write[w].value \in Values /\ Group(k) \in SUBSET Keys /\ k \in Group(k)
      /\ UNCHANGED <<page, show, moves>> /\ write[w].pc = "queued"
  BY WritesAreTyped, GroupsAreTyped DEF TypeOK, StartWrite, counters
<1>1. c \in Calls
  BY <1>0, CallsAreTyped
<1>2. write' = [write EXCEPT ![w] = r] /\ write'[w] = r
  BY <1>0 DEF StartWrite
<1>3. /\ r.pc = "writing" /\ r.key = k /\ r.keys = Group(k) /\ r.value = write[w].value
  BY <1>0 DEF WriteRecord, Idle, Holding
<1>4. \A x \in Writers \ {w} : write'[x] = write[x]
  BY <1>2
<1>5. \A x \in Writers : /\ Live(x)' <=> Live(x)
                         /\ Live(x) => write'[x].key = write[x].key
  BY <1>0, <1>2, <1>3, <1>4 DEF Live
<1>6. OneInAGroup' /\ OwnsItsGroup' /\ \A x \in Writers : write'[x].pc # "repainting"
  <2>1. OneInAGroup' BY <1>5 DEF Marking, OneInAGroup, Group
  <2>2. OwnsItsGroup' BY <1>2, <1>3, <1>4 DEF Marking, OwnsItsGroup, Group
  <2>3. \A x \in Writers : write'[x].pc # "repainting" BY <1>2, <1>3, <1>4 DEF Marking
  <2> QED BY <2>1, <2>2, <2>3
<1>7. ASSUME moves = 0 PROVE NoRebuild' /\ Marks'
  <2> DEFINE one == <<c>>
  <2>1. one \in Seq(Calls) /\ ui' = ui \o one /\ DOMAIN one = {1} /\ one[1] = c
    <3> HIDE DEF c
    <3> QED BY <1>0, <1>1
  <2>2. ASSUME NEW x \in Writers \ {w}, write[x].pc = "writing" PROVE Quiet(c, write[x].keys)
    <3>1. Group(k) \cap Group(write[x].key) = {}
      BY <1>0, <2>2, GroupsDoNotMeet DEF Live, Marking
    <3>2. write[x].keys = Group(write[x].key)
      BY <2>2 DEF Marking, OwnsItsGroup, Holding
    <3> QED BY <1>0, <3>1, <3>2 DEF Quiet, Pending
  <2>3. MarkComes(w)'
    <3>1. ui'[Len(ui) + 1] = c /\ Len(ui) + 1 \in DOMAIN ui' /\ \A j \in DOMAIN ui' : ~(j > Len(ui) + 1)
      <4> HIDE DEF c
      <4> QED BY <1>0, <1>1
    <3> QED BY <1>2, <1>3, <3>1 DEF MarkComes, Pending
  <2>4. c.op # "show" BY DEF Pending
  <2> HIDE DEF one, c
  <2>5. NoRebuild'
    BY <1>0, <1>7, <2>1, <2>4, NoRebuildByCalls DEF Marking
  <2>6. Marks'
    BY <1>0, <1>4, <1>7, <2>1, <2>2, <2>3, MarksByCalls
  <2> QED BY <2>5, <2>6
<1> QED BY <1>0, <1>6, <1>7 DEF Marking

LEMMA WriterKeepsMarking ==
    ASSUME TypeOK, SteadyForms, Marking, NEW w \in Writers,
           \/ DropWrite(w) \/ Land(w) \/ ConfirmWrite(w) \/ Reread(w)
           \/ Repaint(w) \/ RefuseWrite(w) \/ TimeOutWrite(w) \/ OrphanLands(w)
           \/ EndRestartingWrite(w)
    PROVE Marking'
<1>1. PICK calls \in Seq(Calls) :
          /\ ui' = ui \o calls
          /\ \A i \in DOMAIN calls : About(calls[i], Group(write[w].key))
  BY WriterAsksItsGroup
<1>2. PICK r \in WriteRecord :
          /\ write' = [write EXCEPT ![w] = r]
          /\ r.pc \in {"idle", "orphan", "landed", "rereading"}
          /\ r.pc # "idle" => r.key = write[w].key /\ r.keys = write[w].keys
          /\ r.pc \in {"landed", "rereading"} => Live(w)
  BY WriterAsksItsGroup
<1>3. UNCHANGED <<page, selected, show, moves>>
  BY WriterAsksItsGroup
<1>4. \A x \in Writers \ {w} : write'[x] = write[x]
  BY <1>2 DEF TypeOK
<1>5. write'[w] = r
  BY <1>2 DEF TypeOK
<1>6. \A x \in Writers : Live(x)' => Live(x) /\ write'[x].key = write[x].key
  BY <1>2, <1>4, <1>5 DEF Live
<1>7. OneInAGroup' BY <1>6 DEF Marking, OneInAGroup, Group
<1>8. OwnsItsGroup'
  <2>1. r.pc \in Holding => write[w].pc \in Holding
    <3>1. r.pc \in Holding => Land(w) \/ ConfirmWrite(w) \/ Reread(w) \/ Repaint(w) \/ RefuseWrite(w)
                              \/ TimeOutWrite(w) \/ EndRestartingWrite(w)
      BY <1>5 DEF DropWrite, OrphanLands, Holding, Idle, TypeOK
    <3> QED BY <3>1 DEF Land, ConfirmWrite, Reread, Repaint, RefuseWrite, TimeOutWrite,
                        EndRestartingWrite, Holding
  <2> QED BY <1>2, <1>4, <1>5, <2>1 DEF Marking, OwnsItsGroup, Group, Holding
<1>9. \A x \in Writers : write'[x].pc # "repainting"
  BY <1>2, <1>4, <1>5 DEF Marking
<1>10. ASSUME moves = 0 PROVE NoRebuild' /\ Marks'
  <2>1. \A i \in DOMAIN calls : calls[i].op # "show"
    BY <1>1 DEF About
  <2>2. ASSUME NEW x \in Writers \ {w}, NEW i \in DOMAIN calls, write[x].pc = "writing"
        PROVE Quiet(calls[i], write[x].keys)
    <3>1. CASE Live(w)
      <4>1. Group(write[w].key) \cap Group(write[x].key) = {}
        BY <2>2, <3>1, GroupsDoNotMeet DEF Live, Marking
      <4>2. write[x].keys = Group(write[x].key)
        BY <2>2 DEF Marking, OwnsItsGroup, Holding
      <4> QED BY <1>1, <4>1, <4>2, AboutOthersIsQuiet
    <3>2. CASE ~Live(w)
      <4>1. OrphanLands(w)
        BY <3>2 DEF Live, DropWrite, Land, ConfirmWrite, Reread, Repaint, RefuseWrite, TimeOutWrite,
                    EndRestartingWrite
      <4>2. ui = ui \o calls /\ ui \in Seq(Calls)
        BY <1>1, <4>1 DEF OrphanLands, TypeOK
      <4>3. Len(ui) + i \in DOMAIN ui
        BY <4>2, CallsAppended
      <4>4. i \in 1..Len(calls) /\ DOMAIN ui = 1..Len(ui) /\ Len(ui) \in Nat /\ Len(calls) \in Nat
        BY <4>2, CallsAppended
      <4> QED BY <4>3, <4>4
    <3> QED BY <3>1, <3>2
  <2>3. write'[w].pc # "writing"
    BY <1>2, <1>5
  <2>4. NoRebuild'
    BY <1>1, <1>3, <1>10, <2>1, NoRebuildByCalls DEF Marking
  <2>5. Marks'
    BY <1>1, <1>3, <1>4, <1>10, <2>2, <2>3, MarksByCalls
  <2> QED BY <2>4, <2>5
<1> QED BY <1>3, <1>7, <1>8, <1>9, <1>10 DEF Marking

\* The rest: what is read and offered is taken by no control that is held.
LEMMA OthersKeepMarking ==
    ASSUME TypeOK, SteadyForms, Marking,
           \/ \E u \in Devices : Select(u) \/ Connect(u) \/ StartTeardown(u)
           \/ \E u \in Devices, k \in Keys, v \in Values : Turn(u, k, v)
           \/ \E u \in Devices : \/ FinishTeardown(u) \/ ReadPage(u) \/ QueuePage(u)
                                 \/ ReadPoll(u) \/ EndPoll(u) \/ Deliver(u)
           \/ UNCHANGED vars
    PROVE Marking'
<1>0. UNCHANGED write
  BY DEF Select, Connect, StartTeardown, Turn, FinishTeardown, ReadPage, QueuePage, ReadPoll,
         EndPoll, Deliver, vars
<1>1. OneInAGroup' /\ OwnsItsGroup' /\ \A x \in Writers : write'[x].pc # "repainting"
  BY <1>0 DEF Marking, OneInAGroup, OwnsItsGroup, Live
<1>2. ASSUME moves' = 0 PROVE NoRebuild' /\ Marks'
  <2>0. moves = 0 /\ moves \in Nat /\ ui \in Seq(Calls) /\ NoRebuild
    <3>1. moves' = moves \/ moves' = moves + 1
      BY DEF Select, Connect, StartTeardown, Turn, FinishTeardown, ReadPage, QueuePage, ReadPoll,
             EndPoll, Deliver, vars, counters
    <3> QED BY <1>2, <3>1 DEF TypeOK, Marking
  <2>1. /\ UNCHANGED <<page, show>>
        /\ \/ UNCHANGED ui
           \/ \E c \in Calls : ui' = Append(ui, c) /\ c.op \in {"values", "blank"}
                               /\ (c.op = "values" => ~c.confirmed)
    <3>1. CASE \E u \in Devices : Select(u) \/ Connect(u) \/ StartTeardown(u)
      BY <1>2, <2>0, <3>1 DEF Select, Connect, StartTeardown
    <3>2. CASE \/ \E u \in Devices, k \in Keys, v \in Values : Turn(u, k, v)
               \/ UNCHANGED vars
      BY <3>2 DEF Turn, vars
    <3>3. ASSUME NEW u \in Devices, FinishTeardown(u) PROVE <2>1!:
      BY <3>3, CallsAreTyped DEF FinishTeardown, Blank
    <3>4. ASSUME NEW u \in Devices, ReadPage(u) \/ QueuePage(u) PROVE FALSE
      BY <2>0, <3>4 DEF NoRebuild, ReadPage, QueuePage
    <3>5. ASSUME NEW u \in Devices, ReadPoll(u) PROVE <2>1!:
      BY <3>5 DEF ReadPoll
    <3>6. ASSUME NEW u \in Devices, EndPoll(u) PROVE <2>1!:
      <4>1. poll[u] \in [Keys -> Values] /\ Keys \in SUBSET Keys
        BY <3>6 DEF EndPoll, TypeOK, Readings
      <4>2. Offer(u, poll[u]) \in Calls
        BY <4>1, CallsAreTyped, DictsOfValues
      <4> QED BY <3>6, <4>2 DEF EndPoll, Offer
    <3>7. ASSUME NEW u \in Devices, Deliver(u) PROVE <2>1!:
      <4> DEFINE d == One(Head(told[u])[1], Head(told[u])[2])
      <4>1. Head(told[u]) \in Keys \X Values
        BY <3>7 DEF Deliver, TypeOK
      <4>2. Offer(u, d) \in Calls
        BY <4>1, CallsAreTyped, DictsOfValues
      <4>3. UNCHANGED ui \/ ui' = Append(ui, Offer(u, d))
        BY <3>7 DEF Deliver
      <4> HIDE DEF d
      <4> QED BY <3>7, <4>2, <4>3 DEF Deliver, Offer
    <3> QED BY <3>1, <3>2, <3>3, <3>4, <3>5, <3>6, <3>7
  <2>2. PICK calls \in Seq(Calls) : /\ ui' = ui \o calls
                                   /\ \A i \in DOMAIN calls : /\ calls[i].op \in {"values", "blank"}
                                                              /\ calls[i].op = "values" => ~calls[i].confirmed
    <3>1. CASE UNCHANGED ui
      <4> DEFINE none == <<>>
      <4>1. none \in Seq(Calls) /\ ui' = ui \o none /\ DOMAIN none = {}
        BY <2>0, <3>1
      <4> HIDE DEF none
      <4> QED BY <4>1
    <3>2. CASE ~UNCHANGED ui
      <4>1. PICK c \in Calls : ui' = Append(ui, c) /\ c.op \in {"values", "blank"}
                               /\ (c.op = "values" => ~c.confirmed)
        BY <2>1, <3>2
      <4> DEFINE one == <<c>>
      <4>2. one \in Seq(Calls) /\ ui' = ui \o one /\ DOMAIN one = {1} /\ one[1] = c
        BY <2>0, <4>1
      <4> HIDE DEF one
      <4> QED BY <4>1, <4>2
    <3> QED BY <3>1, <3>2
  <2>3. \A x \in Writers : \A i \in DOMAIN calls : Quiet(calls[i], write[x].keys)
    BY <2>2 DEF Quiet
  <2>4. NoRebuild'
    BY <2>0, <2>1, <2>2, NoRebuildByCalls
  <2>5. Marks'
    <3> SUFFICES ASSUME NEW x \in Writers, write'[x].pc = "writing"
                 PROVE (MarkComes(x) \/ MarkStands(x))'
      BY DEF Marks
    <3>1. MarkComes(x) \/ MarkStands(x)
      BY <1>0, <2>0 DEF Marking, Marks
    <3> QED BY <1>0, <2>1, <2>2, <2>3, <3>1, MarkByCalls
  <2> QED BY <2>4, <2>5
<1> QED BY <1>1, <1>2 DEF Marking

\* The user who waits starts no second write of a group.
LEMMA EditKeepsMarking ==
    ASSUME TypeOK, SteadyForms, Marking,
           NEW w \in Writers, NEW k \in Keys, NEW v \in Values, Edit(w, k, v)
    PROVE Marking'
<1>1. /\ write[w].pc = "idle" /\ CaughtUp(k) /\ UNCHANGED <<page, ui, show, moves>>
      /\ write \in [Writers -> WriteRecord]
  BY DEF Edit, SteadyForms, TypeOK
<1> DEFINE r == [Idle EXCEPT !.pc = "queued", !.origin = page.of, !.key = k, !.value = v]
<1>2. write' = [write EXCEPT ![w] = r] /\ r.pc = "queued" /\ r.key = k
  BY DEF Edit, Idle
<1>3. write'[w].pc = "queued" /\ write'[w].key = k /\ \A x \in Writers \ {w} : write'[x] = write[x]
  <2> HIDE DEF r
  <2> QED BY <1>1, <1>2
<1>4. \A x \in Writers \ {w} : Live(x) => k \notin Group(write[x].key)
  BY <1>1 DEF CaughtUp, Live
<1>5. \A x \in Writers \ {w} : Live(x) => write[x].key \notin Group(k)
  <2> SUFFICES ASSUME NEW x \in Writers \ {w}, Live(x), write[x].key \in Group(k) PROVE FALSE
    OBVIOUS
  <2>1. write[x].key \in Keys
    BY WritesAreTyped DEF Live
  <2> QED BY <1>4, <2>1, GroupsAreTyped DEF SteadyForms, GroupsApart
<1>6. OneInAGroup'
  BY <1>3, <1>4, <1>5 DEF Marking, OneInAGroup, Live, Group
<1>7. OwnsItsGroup' /\ \A x \in Writers : write'[x].pc # "repainting"
  BY <1>3 DEF Marking, OwnsItsGroup, Holding, Group
<1>8. moves = 0 => NoRebuild' /\ Marks'
  <2> SUFFICES ASSUME moves = 0 PROVE NoRebuild' /\ Marks'
    OBVIOUS
  <2>1. NoRebuild' BY <1>1 DEF Marking, NoRebuild
  <2>2. ASSUME NEW x \in Writers, write'[x].pc = "writing" PROVE (MarkComes(x) \/ MarkStands(x))'
    <3>1. x # w /\ write'[x] = write[x] BY <1>3, <2>2
    <3>2. MarkComes(x) \/ MarkStands(x) BY <2>2, <3>1 DEF Marking, Marks
    <3> QED BY <1>1, <3>1, <3>2 DEF MarkComes, MarkStands
  <2> QED BY <2>1, <2>2 DEF Marks
<1> QED BY <1>1, <1>6, <1>7, <1>8 DEF Marking

LEMMA RunUIKeepsMarking ==
    ASSUME TypeOK, SteadyForms, Marking, RunUI
    PROVE Marking'
<1>0. UNCHANGED <<write, show, moves>> /\ ui' = Tail(ui) /\ ui # <<>> /\ ui \in Seq(Calls)
  BY DEF RunUI, TypeOK, counters
<1>1. OneInAGroup' /\ OwnsItsGroup' /\ \A x \in Writers : write'[x].pc # "repainting"
  BY <1>0 DEF Marking, OneInAGroup, OwnsItsGroup, Live
<1>2. ASSUME moves = 0 PROVE NoRebuild' /\ Marks'
  <2>1. NoRebuild'
    BY <1>0, <1>2, CallsShifted DEF Marking, NoRebuild
  <2>2. ASSUME NEW x \in Writers, write'[x].pc = "writing" PROVE (MarkComes(x) \/ MarkStands(x))'
    <3>1. MarkComes(x) \/ MarkStands(x) BY <1>0, <1>2, <2>2 DEF Marking, Marks
    <3>2. write[x].keys = Group(write[x].key) /\ write[x].key \in Keys
      BY <1>0, <2>2, WritesAreTyped DEF Marking, OwnsItsGroup, Holding
    <3> QED BY <1>0, <2>2, <3>1, <3>2, GroupsAreTyped, RunUIKeepsMark
  <2> QED BY <2>1, <2>2 DEF Marks
<1> QED BY <1>0, <1>1, <1>2 DEF Marking

\* While the user stays on the page, a write in flight keeps its whole group disabled and its
\* value on screen, for any number of devices that offer what they hold and of writes that
\* are refused, time out or restart the device: set_value drops what is offered for a control
\* that is pending (form.py:480), and what a write says or clears is its own group's.
THEOREM HeldCorrect ==
    ASSUME Patient, Reshaping = {}, GroupsApart,
           \A k \in Keys : Refreshes[k] \subseteq Group(k)
    PROVE  Spec => []WritesAreHeld
<1>0. SteadyForms
  BY DEF SteadyForms
<1>1. Init => Marking
  BY DEF Init, Marking, OneInAGroup, OwnsItsGroup, NoRebuild, Marks, Live, Idle, NoShow, Holding
<1>2. TypeOK /\ Marking /\ [Next]_vars => Marking'
  <2> SUFFICES ASSUME TypeOK, Marking, [Next]_vars PROVE Marking'
    OBVIOUS
  <2>1. CASE User BY <1>0, <2>1, OthersKeepMarking, EditKeepsMarking DEF User
  <2>2. CASE Loop
    BY <1>0, <2>2, StartKeepsMarking, WriterKeepsMarking, OthersKeepMarking DEF Loop
  <2>3. CASE RunUI BY <1>0, <2>3, RunUIKeepsMarking
  <2>4. CASE UNCHANGED vars BY <1>0, <2>4, OthersKeepMarking
  <2> QED BY <2>1, <2>2, <2>3, <2>4 DEF Next
<1>3. TypeOK /\ Marking => WritesAreHeld
  <2> SUFFICES ASSUME TypeOK, Marking, moves = 0, NEW w \in Writers, Marked(w),
                      page.of = write[w].dev
               PROVE write[w].keys \subseteq page.pending /\ page.val[write[w].key] = write[w].value
    BY DEF WritesAreHeld
  <2>1. ~MarkComes(w)
    BY DEF Marked, MarkComes, Pending
  <2>2. MarkStands(w)
    BY <2>1 DEF Marking, Marks, Marked
  <2>3. page.of # None
    BY WritesAreTyped, ControlsAssumption DEF Marked, Holding, ControlsAssumption
  <2> QED BY <2>2, <2>3 DEF MarkStands
<1> QED BY <1>1, <1>2, <1>3, PageTypeCorrect, PTL DEF Spec

-----------------------------------------------------------------------------
(* What the page ends up showing                                             *)

OneOfAControl ==
    \A w, x \in Writers : w # x /\ Live(w) /\ Live(x) => write[w].key # write[x].key

\* What was read and not handed over is what the device holds, and it reports nothing.
Fresh(u) ==
    /\ poll[u] # None => poll[u] = held[u]
    /\ show[u].pc = "read" => show[u].vals = held[u]
    /\ told[u] = <<>>

ReadsAreFresh == \A u \in Devices : Fresh(u)

\* What a write will say of its control is what the device holds: the value it had, until the
\* device has taken one; then that one.
WritesKnow ==
    \A u \in Devices, w \in Writers :
        /\ write[w].pc = "writing" => write[w].prev = held[u][write[w].key]
        /\ write[w].pc = "landed" => write[w].value = held[u][write[w].key]

\* A call that puts no other value than v of control k on the page.
SaysTrue(c, k, v) ==
    /\ c.op = "values" /\ k \in DOMAIN c.of => c.of[k] = v
    /\ c.op = "show" => c.vals[k] = v
    /\ c.op = "pending" => c.key # k

\* One that puts a value of k on the page whatever is held.
Says(c, k) == c.op = "show" \/ (c.op = "values" /\ c.confirmed /\ k \in DOMAIN c.of)

Clears(c, k) == c.op = "clear" /\ k \in c.keys

\* A write of k is under way and has not said how it ended, or has and is not done.
Unsaid(k) == \E w \in Writers : write[w].key = k /\ write[w].pc \in {"writing", "landed"}
Finishing(k) == \E w \in Writers : write[w].key = k /\ write[w].pc \in {"rereading", "repainting"}

\* The truth about k is queued, and until it is on the page a patient user leaves k alone.
Coming(u, k) ==
    \E i \in DOMAIN ui :
        /\ Says(ui[i], k)
        /\ \A j \in DOMAIN ui : j >= i => SaysTrue(ui[j], k, held[u][k])
        /\ Finishing(k) \/ \E j \in DOMAIN ui : j > i /\ Clears(ui[j], k)

\* The truth about k is on the page, and no call that is queued undoes that.
Settled(u, k) ==
    /\ page.of # None => page.val[k] = held[u][k]
    /\ \A i \in DOMAIN ui : SaysTrue(ui[i], k, held[u][k])

Truth ==
    \A u \in Devices :
        /\ \A k \in Keys : Unsaid(k) \/ Coming(u, k) \/ Settled(u, k)
        /\ \A w \in Writers, k \in Keys :
             write[w].pc = "queued" /\ write[w].key = k => Settled(u, k)

Told == ReadsAreFresh /\ WritesKnow /\ Truth

\* Whose controls the writes are about, whatever they say of them.
Owning ==
    /\ \A w \in Writers : write[w].pc # "orphan"
    /\ OneOfAControl /\ OwnsItsGroup

Telling == Owning /\ (turns = 0 => Told)

\* The constants TruthAtRest needs: a device whose module locks, a user who waits, no write that
\* outlasts its timeout or restarts the device.
OneLockingDevice ==
    /\ \E a : Devices = {a}
    /\ Locking = Devices /\ Patient /\ ~TimesOut /\ Restarting = {}

\* Calls that say what the device holds, put at the end of the queue, keep what is settled, and
\* what is coming if a write that was not done yet is not done or clears its control.
LEMMA TruthByCalls ==
    ASSUME TypeOK, NEW u \in Devices, NEW k \in Keys,
           held'[u][k] = held[u][k], page' = page \/ page'.of = None,
           NEW calls \in Seq(Calls), ui' = ui \o calls,
           \A i \in DOMAIN calls : SaysTrue(calls[i], k, held[u][k])
    PROVE /\ Settled(u, k) => Settled(u, k)'
          /\ /\ Coming(u, k)
             /\ Finishing(k) => Finishing(k)' \/ \E i \in DOMAIN calls : Clears(calls[i], k)
             => Coming(u, k)'
<1>0. ui \in Seq(Calls) BY DEF TypeOK
<1>1. \A j \in DOMAIN ui' \ DOMAIN ui : SaysTrue(ui'[j], k, held[u][k])
  <2> SUFFICES ASSUME NEW j \in DOMAIN ui' \ DOMAIN ui PROVE SaysTrue(ui'[j], k, held[u][k])
    OBVIOUS
  <2>1. j - Len(ui) \in DOMAIN calls /\ ui'[j] = calls[j - Len(ui)]
    BY <1>0, CallsAppended
  <2> QED BY <2>1
<1>2. \A j \in DOMAIN ui : j \in DOMAIN ui' /\ ui'[j] = ui[j]
  BY <1>0, CallsAppended
<1>3. Settled(u, k) => Settled(u, k)'
  BY <1>1, <1>2 DEF Settled
<1>4. ASSUME Coming(u, k),
             Finishing(k) => Finishing(k)' \/ \E i \in DOMAIN calls : Clears(calls[i], k)
      PROVE Coming(u, k)'
  <2>1. PICK i \in DOMAIN ui :
            /\ Says(ui[i], k)
            /\ \A j \in DOMAIN ui : j >= i => SaysTrue(ui[j], k, held[u][k])
            /\ Finishing(k) \/ \E j \in DOMAIN ui : j > i /\ Clears(ui[j], k)
    BY <1>4 DEF Coming
  <2>2. i \in DOMAIN ui' /\ Says(ui'[i], k)
    BY <1>2, <2>1
  <2>3. \A j \in DOMAIN ui' : j >= i => SaysTrue(ui'[j], k, held'[u][k])
    BY <1>1, <1>2, <2>1
  <2>4. Finishing(k)' \/ \E j \in DOMAIN ui' : j > i /\ Clears(ui'[j], k)
    <3>1. CASE \E j \in DOMAIN ui : j > i /\ Clears(ui[j], k)
      BY <1>2, <3>1
    <3>2. CASE \E j \in DOMAIN calls : Clears(calls[j], k)
      <4>1. PICK j \in DOMAIN calls : Clears(calls[j], k) BY <3>2
      <4>2. Len(ui) + j \in DOMAIN ui' /\ ui'[Len(ui) + j] = calls[j]
        BY <1>0, CallsAppended
      <4>3. Len(ui) + j > i
        <5>1. DOMAIN ui = 1..Len(ui) /\ DOMAIN calls = 1..Len(calls) /\ Len(ui) \in Nat /\ Len(calls) \in Nat
          BY <1>0, CallsAppended
        <5> QED BY <2>1, <4>1, <5>1
      <4> QED BY <4>1, <4>2, <4>3
    <3> QED BY <1>4, <2>1, <3>1, <3>2
  <2> QED BY <2>2, <2>3, <2>4 DEF Coming
<1> QED BY <1>3, <1>4

\* A queue that ends with the truth about k, as long as its write is not done or clears k after it.
LEMMA TruthIsQueued ==
    ASSUME TypeOK, NEW u \in Devices, NEW k \in Keys, held'[u][k] = held[u][k],
           NEW calls \in Seq(Calls), ui' = ui \o calls,
           \A i \in DOMAIN calls : SaysTrue(calls[i], k, held[u][k]),
           NEW i \in DOMAIN calls, Says(calls[i], k),
           Finishing(k)' \/ \E j \in DOMAIN calls : j > i /\ Clears(calls[j], k)
    PROVE Coming(u, k)'
<1> DEFINE n == Len(ui)
<1>0. /\ ui \in Seq(Calls) /\ DOMAIN ui = 1..n /\ n \in Nat
      /\ DOMAIN calls = 1..Len(calls) /\ Len(calls) \in Nat
  BY CallsAppended DEF TypeOK
<1>1. \A j \in DOMAIN calls : n + j \in DOMAIN ui' /\ ui'[n + j] = calls[j]
  BY <1>0, CallsAppended
<1>2. ASSUME NEW j \in DOMAIN ui', j >= n + i PROVE SaysTrue(ui'[j], k, held'[u][k])
  <2>1. j \notin DOMAIN ui
    BY <1>0, <1>2
  <2>2. j - n \in DOMAIN calls /\ ui'[j] = calls[j - n]
    BY <1>0, <1>2, <2>1, CallsAppended
  <2> QED BY <2>2
<1>3. Finishing(k)' \/ \E j \in DOMAIN ui' : j > n + i /\ Clears(ui'[j], k)
  <2>1. CASE \E j \in DOMAIN calls : j > i /\ Clears(calls[j], k)
    <3>1. PICK j \in DOMAIN calls : j > i /\ Clears(calls[j], k) BY <2>1
    <3>2. n + j > n + i BY <1>0, <3>1
    <3> HIDE DEF n
    <3> QED BY <1>1, <3>1, <3>2
  <2> QED BY <2>1
<1> HIDE DEF n
<1>4. n + i \in DOMAIN ui' /\ Says(ui'[n + i], k)
  BY <1>1
<1> QED BY <1>2, <1>3, <1>4 DEF Coming

\* What the calls of this program say.
LEMMA WhatCallsSay ==
    ASSUME NEW w, NEW u, NEW keys, NEW vals, NEW j, NEW k, NEW v, NEW x
    PROVE /\ j # k => SaysTrue(Confirm(w, One(k, v)), j, x)
          /\ SaysTrue(Confirm(w, One(k, v)), k, v) /\ Says(Confirm(w, One(k, v)), k)
          /\ SaysTrue(Clear(keys), k, v) /\ (k \in keys => Clears(Clear(keys), k))
          /\ j # k => SaysTrue(Pending(w, keys, j, x), k, v)
          /\ SaysTrue(Show(u, vals), k, vals[k]) /\ Says(Show(u, vals), k)
          /\ SaysTrue(Blank, k, v)
          /\ SaysTrue(Offer(u, vals), k, vals[k]) /\ SaysTrue(Confirm(w, vals), k, vals[k])
BY DEF SaysTrue, Says, Clears, Confirm, Clear, Pending, Show, Blank, Offer, One

\* A step of the write of k: what it queues of the other controls leaves the truth about them
\* shown or on its way.
LEMMA TruthOfOthers ==
    ASSUME TypeOK, Telling, Told, NEW w \in Writers, Live(w),
           NEW k \in Keys, k = write[w].key, NEW u \in Devices,
           \A x \in Writers \ {w} : write'[x] = write[x], UNCHANGED page,
           NEW calls \in Seq(Calls), ui' = ui \o calls,
           \A j \in Keys \ {k} :
               /\ held'[u][j] = held[u][j]
               /\ \A i \in DOMAIN calls : SaysTrue(calls[i], j, held[u][j])
    PROVE /\ \A j \in Keys \ {k} : (Unsaid(j) \/ Coming(u, j) \/ Settled(u, j))'
          /\ \A x \in Writers \ {w}, j \in Keys :
                 write'[x].pc = "queued" /\ write'[x].key = j => Settled(u, j)'
<1>1. ASSUME NEW j \in Keys \ {k} PROVE (Unsaid(j) \/ Coming(u, j) \/ Settled(u, j))'
  <2>1. Unsaid(j) => Unsaid(j)' BY DEF Unsaid
  <2>2. Finishing(j) => Finishing(j)' BY DEF Finishing
  <2> QED BY <2>1, <2>2, TruthByCalls DEF Told, Truth
<1>2. ASSUME NEW x \in Writers \ {w}, NEW j \in Keys, write'[x].pc = "queued", write'[x].key = j
      PROVE Settled(u, j)'
  <2>1. write[x].pc = "queued" /\ write[x].key = j
    BY <1>2
  <2>2. j # k
    BY <2>1 DEF Telling, Owning, OneOfAControl, Live
  <2>3. Settled(u, j)
    BY <2>1 DEF Told, Truth
  <2> QED BY <2>2, <2>3, TruthByCalls
<1> QED BY <1>1, <1>2

\* The kinds of step a write takes after its device has answered, or refused: what it queues says
\* what the device holds, and the truth about its control before the call that clears it.
Answers(w, r, calls) ==
    /\ \A u \in Devices, j \in Keys :
           \A i \in DOMAIN calls : SaysTrue(calls[i], j, held[u][j])
    /\ \/ write[w].pc = "queued" /\ r.pc = "idle"
       \/ /\ write[w].pc \in {"writing", "landed"}
          /\ \E i \in DOMAIN calls :
                /\ Says(calls[i], write[w].key)
                /\ \/ r.pc \in {"rereading", "repainting"}
                   \/ \E j \in DOMAIN calls : j > i /\ Clears(calls[j], write[w].key)
       \/ /\ write[w].pc \in {"rereading", "repainting"}
          /\ \/ r.pc \in {"rereading", "repainting"}
             \/ \E i \in DOMAIN calls : Clears(calls[i], write[w].key)

LEMMA AnswersKeepTelling ==
    ASSUME TypeOK, Telling, Told, NEW w \in Writers, Live(w), NEW r \in WriteRecord,
           write' = [write EXCEPT ![w] = r],
           r.pc \in {"idle", "rereading", "repainting"},
           r.pc # "idle" => r.key = write[w].key,
           NEW calls \in Seq(Calls), ui' = ui \o calls, Answers(w, r, calls),
           UNCHANGED <<held, page, poll, show, told>>
    PROVE Told'
<1> PICK k \in Keys : k = write[w].key
  BY WritesAreTyped DEF Live
<1>0. /\ write'[w] = r /\ \A x \in Writers \ {w} : write'[x] = write[x]
  BY DEF TypeOK
<1>1. ReadsAreFresh'
  BY DEF Told, ReadsAreFresh, Fresh
<1>2. WritesKnow'
  BY <1>0 DEF Told, WritesKnow
<1>3. ASSUME NEW u \in Devices
      PROVE /\ \A j \in Keys : (Unsaid(j) \/ Coming(u, j) \/ Settled(u, j))'
            /\ \A x \in Writers, j \in Keys :
                   write'[x].pc = "queued" /\ write'[x].key = j => Settled(u, j)'
  <2>0. \A j \in Keys : \A i \in DOMAIN calls : SaysTrue(calls[i], j, held[u][j])
    BY DEF Answers
  <2>1. /\ \A j \in Keys \ {k} : (Unsaid(j) \/ Coming(u, j) \/ Settled(u, j))'
        /\ \A x \in Writers \ {w}, j \in Keys :
               write'[x].pc = "queued" /\ write'[x].key = j => Settled(u, j)'
    BY <1>0, <2>0, TruthOfOthers
  <2>2. (Unsaid(k) \/ Coming(u, k) \/ Settled(u, k))'
    <3>1. CASE write[w].pc = "queued"
      <4>1. Settled(u, k) BY <3>1 DEF Told, Truth
      <4> QED BY <1>0, <2>0, <4>1, TruthByCalls
    <3>2. CASE write[w].pc \in {"writing", "landed"}
      <4>1. PICK i \in DOMAIN calls :
                /\ Says(calls[i], k)
                /\ \/ r.pc \in {"rereading", "repainting"}
                   \/ \E j \in DOMAIN calls : j > i /\ Clears(calls[j], k)
        BY <3>2 DEF Answers
      <4>2. r.pc \in {"rereading", "repainting"} => Finishing(k)'
        BY <1>0 DEF Finishing
      <4> QED BY <1>0, <2>0, <4>1, <4>2, TruthIsQueued
    <3>3. CASE write[w].pc \in {"rereading", "repainting"}
      <4>1. ~Unsaid(k)
        BY <3>3 DEF Telling, Owning, OneOfAControl, Unsaid, Live
      <4>2. Coming(u, k) \/ Settled(u, k)
        BY <1>0, <4>1 DEF Told, Truth
      <4>3. Finishing(k)' \/ \E i \in DOMAIN calls : Clears(calls[i], k)
        BY <1>0, <3>3 DEF Answers, Finishing
      <4> QED BY <1>0, <2>0, <4>2, <4>3, TruthByCalls
    <3> QED BY <3>1, <3>2, <3>3 DEF Answers
  <2>3. \A x \in Writers : write'[x].pc = "queued" => x # w
    BY <1>0
  <2> QED BY <2>1, <2>2, <2>3
<1>4. Truth'
  BY <1>3 DEF Truth
<1> QED BY <1>1, <1>2, <1>4 DEF Told

\* The end of a write that has one more thing to say: that call, then the one that clears.
LEMMA ReleaseSays ==
    ASSUME TypeOK, NEW w \in Writers, NEW c \in Calls, NEW r, Release(w, <<c>>, r),
           write[w].keys \in SUBSET Keys
    PROVE \E calls \in Seq(Calls) :
             /\ ui' = ui \o calls
             /\ \A i \in DOMAIN calls : calls[i] = c \/ calls[i] = Clear(write[w].keys)
             /\ \E i, j \in DOMAIN calls : j > i /\ calls[i] = c /\ calls[j] = Clear(write[w].keys)
<1> DEFINE one == <<c>>
           own == Clear(write[w].keys)
           two == Append(one, own)
<1>1. own \in Calls BY CallsAreTyped
<1>2. one \in Seq(Calls) /\ DOMAIN one = {1} /\ one[1] = c
  OBVIOUS
<1>3. ui' = ui \o two
  BY DEF Release
<1> HIDE DEF one, own
<1>4. /\ two \in Seq(Calls)
      /\ \A i \in DOMAIN two : two[i] = own \/ (i \in DOMAIN one /\ two[i] = one[i])
      /\ \A i \in DOMAIN one : i \in DOMAIN two /\ two[i] = one[i]
      /\ \E j \in DOMAIN two : two[j] = own /\ \A i \in DOMAIN one : j > i
  BY <1>1, <1>2, CallAppended
<1> HIDE DEF two
<1>5. \E i, j \in DOMAIN two : j > i /\ two[i] = c /\ two[j] = own
  BY <1>2, <1>4
<1>6. \A i \in DOMAIN two : two[i] = c \/ two[i] = own
  BY <1>2, <1>4
<1> QED BY <1>3, <1>4, <1>5, <1>6 DEF own

\* A write that is under way owns its own control, and is the one device's.
LEMMA OwnersAreTyped ==
    ASSUME TypeOK, Telling, NEW w \in Writers, write[w].pc \in Holding
    PROVE /\ write[w] \in WriteRecord /\ write[w].key \in Keys /\ write[w].keys \in SUBSET Keys
          /\ write[w].key \in write[w].keys
          /\ write[w].dev \in Devices /\ write[w].value \in Values
          /\ write[w].prev \in Values \cup {None} /\ Live(w)
BY WritesAreTyped, GroupsAreTyped DEF TypeOK, Telling, Owning, OwnsItsGroup, Holding, Live

LEMMA StartKeepsTelling ==
    ASSUME TypeOK, Telling, Told, NEW w \in Writers, StartWrite(w)
    PROVE Told'
<1>1. PICK k \in Keys : k = write[w].key
  BY WritesAreTyped DEF StartWrite
<1> DEFINE c == Pending(w, Group(k), k, write[w].value)
           r == [write[w] EXCEPT !.pc = "writing", !.dev = selected, !.prev = page.val[k], !.keys = Group(k)]
<1>2. /\ ui' = Append(ui, c) /\ write' = [write EXCEPT ![w] = r]
      /\ write[w].pc = "queued" /\ page.of # None
      /\ UNCHANGED <<held, page, poll, show, told>>
  BY <1>1 DEF StartWrite, TypeOK
<1>3. r.pc = "writing" /\ r.key = k /\ r.prev = page.val[k]
  BY <1>1, <1>2, WritesAreTyped DEF WriteRecord, Idle, Holding, TypeOK
<1>4. c \in Calls
  BY <1>1, <1>2, WritesAreTyped, GroupsAreTyped, CallsAreTyped
<1>5. write'[w] = r /\ \A x \in Writers \ {w} : write'[x] = write[x]
  BY <1>2 DEF TypeOK
<1> DEFINE one == <<c>>
<1>6. one \in Seq(Calls) /\ ui' = ui \o one /\ \A i \in DOMAIN one : one[i] = c
  <2> HIDE DEF c
  <2> QED BY <1>2, <1>4 DEF TypeOK
<1>7. \A j \in Keys \ {k} : \A v : SaysTrue(c, j, v)
  BY WhatCallsSay
<1> HIDE DEF c, r, one
<1>8. ReadsAreFresh'
  BY <1>2 DEF Told, ReadsAreFresh, Fresh
<1>9. WritesKnow'
  <2>1. \A u \in Devices : page.val[k] = held[u][k]
    BY <1>1, <1>2 DEF Told, Truth, Settled
  <2> QED BY <1>2, <1>3, <1>5, <2>1 DEF Told, WritesKnow
<1>10. ASSUME NEW u \in Devices
       PROVE /\ \A j \in Keys : (Unsaid(j) \/ Coming(u, j) \/ Settled(u, j))'
             /\ \A x \in Writers, j \in Keys :
                    write'[x].pc = "queued" /\ write'[x].key = j => Settled(u, j)'
  <2>1. /\ \A j \in Keys \ {k} : (Unsaid(j) \/ Coming(u, j) \/ Settled(u, j))'
        /\ \A x \in Writers \ {w}, j \in Keys :
               write'[x].pc = "queued" /\ write'[x].key = j => Settled(u, j)'
    <3>1. \A j \in Keys \ {k} : \A i \in DOMAIN one : SaysTrue(one[i], j, held[u][j])
      BY <1>6, <1>7
    <3> QED BY <1>1, <1>2, <1>5, <1>6, <3>1, TruthOfOthers DEF Live
  <2>2. Unsaid(k)'
    BY <1>3, <1>5 DEF Unsaid
  <2> QED BY <1>3, <1>5, <2>1, <2>2
<1>11. Truth'
  BY <1>10 DEF Truth
<1> QED BY <1>8, <1>9, <1>11 DEF Told

\* The device takes a value: nothing that was read before is under way, because the module locks.
LEMMA LandKeepsTelling ==
    ASSUME TypeOK, Telling, Told, OneLockingDevice, NEW w \in Writers, Land(w)
    PROVE Told'
<1>1. PICK k \in Keys : k = write[w].key
  BY WritesAreTyped DEF Land
<1>2. PICK v \in Values : /\ held' = [held EXCEPT ![write[w].dev][k] = v]
                          /\ write' = [write EXCEPT ![w].pc = "landed", ![w].value = v]
  BY <1>1 DEF Land, OneLockingDevice
<1>3. /\ UNCHANGED <<page, ui, poll, show, told>> /\ write[w].pc = "writing"
      /\ Unlocked(write[w].dev) /\ ui \in Seq(Calls)
  BY DEF Land, TypeOK
<1>4. \A u \in Devices : u = write[w].dev /\ poll[u] = None /\ show[u].pc # "read"
  BY <1>3, OwnersAreTyped DEF Holding, OneLockingDevice, Unlocked
<1>5. \A u \in Devices : held'[u][k] = v /\ \A j \in Keys \ {k} : held'[u][j] = held[u][j]
  BY <1>2, <1>4 DEF TypeOK, Readings
<1> DEFINE r == [write[w] EXCEPT !.pc = "landed", !.value = v]
<1>6. r.pc = "landed" /\ r.key = k /\ r.value = v
  BY <1>1, <1>3, WritesAreTyped DEF WriteRecord, Idle, Holding, TypeOK
<1>7. write'[w] = r /\ \A x \in Writers \ {w} : write'[x] = write[x]
  BY <1>2 DEF TypeOK
<1> DEFINE none == <<>>
<1>8. none \in Seq(Calls) /\ ui' = ui \o none /\ DOMAIN none = {}
  BY <1>3
<1> HIDE DEF r, none
<1>9. ReadsAreFresh'
  BY <1>3, <1>4 DEF Told, ReadsAreFresh, Fresh
<1>10. WritesKnow'
  <2> SUFFICES ASSUME NEW u \in Devices, NEW x \in Writers
               PROVE /\ write'[x].pc = "writing" => write'[x].prev = held'[u][write'[x].key]
                     /\ write'[x].pc = "landed" => write'[x].value = held'[u][write'[x].key]
    BY DEF WritesKnow
  <2>1. CASE x = w BY <1>5, <1>6, <1>7, <2>1
  <2>2. CASE x # w /\ write[x].pc \in {"writing", "landed"}
    <3>1. write[x].key \in Keys \ {k}
      BY <1>1, <1>3, <2>2, WritesAreTyped DEF Telling, Owning, OneOfAControl, Live
    <3> QED BY <1>5, <1>7, <2>2, <3>1 DEF Told, WritesKnow
  <2> QED BY <1>7, <2>1, <2>2
<1>11. ASSUME NEW u \in Devices
       PROVE /\ \A j \in Keys : (Unsaid(j) \/ Coming(u, j) \/ Settled(u, j))'
             /\ \A x \in Writers, j \in Keys :
                    write'[x].pc = "queued" /\ write'[x].key = j => Settled(u, j)'
  <2>1. /\ \A j \in Keys \ {k} : (Unsaid(j) \/ Coming(u, j) \/ Settled(u, j))'
        /\ \A x \in Writers \ {w}, j \in Keys :
               write'[x].pc = "queued" /\ write'[x].key = j => Settled(u, j)'
    BY <1>1, <1>3, <1>5, <1>7, <1>8, TruthOfOthers DEF Live
  <2>2. Unsaid(k)'
    BY <1>6, <1>7 DEF Unsaid
  <2> QED BY <1>6, <1>7, <2>1, <2>2
<1>12. Truth'
  BY <1>11 DEF Truth
<1> QED BY <1>9, <1>10, <1>12 DEF Told

\* One call, and the write goes on.
LEMMA OneMoreSays ==
    ASSUME TypeOK, NEW c \in Calls, ui' = Append(ui, c)
    PROVE \E calls \in Seq(Calls) :
             ui' = ui \o calls /\ DOMAIN calls = {1} /\ calls[1] = c
<1> DEFINE one == <<c>>
<1>1. one \in Seq(Calls) /\ ui' = ui \o one /\ DOMAIN one = {1} /\ one[1] = c
  BY DEF TypeOK
<1> HIDE DEF one
<1> QED BY <1>1

\* What a write says of its own control is a call, and the truth if its value is.
LEMMA ConfirmTells ==
    ASSUME TypeOK, NEW w \in Writers, NEW k \in Keys, NEW v \in Values \cup {None},
           \A u \in Devices : held[u][k] = v
    PROVE /\ Confirm(w, One(k, v)) \in Calls /\ Says(Confirm(w, One(k, v)), k)
          /\ \A u \in Devices, j \in Keys : SaysTrue(Confirm(w, One(k, v)), j, held[u][j])
<1>1. Confirm(w, One(k, v)) \in Calls
  BY CallsAreTyped, DictsOfValues
<1> QED BY <1>1, WhatCallsSay

LEMMA EndKeepsTelling ==
    ASSUME TypeOK, Telling, Told, NEW w \in Writers, write[w].pc \in {"writing", "landed"},
           NEW k \in Keys, k = write[w].key, NEW v \in Values \cup {None},
           \A u \in Devices : held[u][k] = v,
           NEW r \in WriteRecord, r.pc \in {"idle", "rereading", "repainting"},
           r.pc # "idle" => r.key = k,
           \/ Release(w, <<Confirm(w, One(k, v))>>, r)
           \/ /\ ui' = Append(ui, Confirm(w, One(k, v))) /\ r.pc # "idle"
              /\ write' = [write EXCEPT ![w] = r],
           UNCHANGED <<held, page, poll, show, told>>
    PROVE Told'
<1> DEFINE c == Confirm(w, One(k, v))
           own == Clear(write[w].keys)
<1>1. /\ c \in Calls /\ Says(c, k)
      /\ \A u \in Devices, j \in Keys : SaysTrue(c, j, held[u][j])
  BY ConfirmTells
<1>2. /\ write[w].keys \in SUBSET Keys /\ k \in write[w].keys /\ Live(w)
  BY OwnersAreTyped DEF Holding
<1>3. /\ Clears(own, k)
      /\ \A u \in Devices, j \in Keys : SaysTrue(own, j, held[u][j])
  BY <1>2, WhatCallsSay
<1>4. CASE Release(w, <<c>>, r)
  <2>1. PICK calls \in Seq(Calls) :
            /\ ui' = ui \o calls
            /\ \A i \in DOMAIN calls : calls[i] = c \/ calls[i] = own
            /\ \E i, j \in DOMAIN calls : j > i /\ calls[i] = c /\ calls[j] = own
    BY <1>1, <1>2, <1>4, ReleaseSays
  <2>2. Answers(w, r, calls)
    BY <1>1, <1>3, <2>1 DEF Answers
  <2>3. write' = [write EXCEPT ![w] = r]
    BY <1>4 DEF Release
  <2> QED BY <1>2, <2>1, <2>2, <2>3, AnswersKeepTelling
<1>5. CASE ui' = Append(ui, c) /\ r.pc # "idle" /\ write' = [write EXCEPT ![w] = r]
  <2>1. PICK calls \in Seq(Calls) : ui' = ui \o calls /\ DOMAIN calls = {1} /\ calls[1] = c
    BY <1>1, <1>5, OneMoreSays
  <2>2. Answers(w, r, calls)
    BY <1>1, <1>5, <2>1 DEF Answers
  <2> QED BY <1>2, <1>5, <2>1, <2>2, AnswersKeepTelling
<1> QED BY <1>4, <1>5

LEMMA ConfirmKeepsTelling ==
    ASSUME TypeOK, Telling, Told, OneLockingDevice, NEW w \in Writers,
           ConfirmWrite(w) \/ RefuseWrite(w)
    PROVE Told'
<1>1. write[w].pc \in {"writing", "landed"} /\ UNCHANGED <<held, page, poll, show, told>>
  BY DEF ConfirmWrite, RefuseWrite
<1>2. PICK k \in Keys : k = write[w].key
  BY <1>1, WritesAreTyped
<1>3. /\ write[w] \in WriteRecord /\ write[w].pc \in Holding
      /\ write[w].value \in Values /\ write[w].prev \in Values \cup {None}
      /\ Idle \in WriteRecord /\ Idle.pc = "idle"
  BY <1>1, OwnersAreTyped DEF Holding, Idle, WriteRecord
<1>4. CASE RefuseWrite(w)
  <2>1. \A u \in Devices : held[u][k] = write[w].prev
    BY <1>2, <1>4 DEF Told, WritesKnow, RefuseWrite
  <2>2. Release(w, <<Confirm(w, One(k, write[w].prev))>>, Idle)
    BY <1>2, <1>4 DEF RefuseWrite
  <2> QED BY <1>1, <1>2, <1>3, <2>1, <2>2, EndKeepsTelling
<1>5. CASE ConfirmWrite(w)
  <2>1. \A u \in Devices : held[u][k] = write[w].value
    BY <1>2, <1>5 DEF Told, WritesKnow, ConfirmWrite
  <2> DEFINE done == Confirm(w, One(k, write[w].value))
  <2>2. CASE Release(w, <<done>>, Idle)
    BY <1>1, <1>2, <1>3, <2>1, <2>2, EndKeepsTelling
  <2>3. CASE ~Release(w, <<done>>, Idle)
    <3>1. PICK pc \in {"rereading", "repainting"} :
              /\ ui' = Append(ui, done) /\ selected \in Devices
              /\ write' = [write EXCEPT ![w].pc = pc, ![w].dev = selected]
      BY <1>2, <1>5, <2>3 DEF ConfirmWrite, TypeOK
    <3> DEFINE r == [write[w] EXCEPT !.pc = pc, !.dev = selected]
    <3>2. r \in WriteRecord
      BY <1>3, <3>1, HoldersAreTyped DEF Holding
    <3>3. write' = [write EXCEPT ![w] = r]
      BY <3>1 DEF TypeOK
    <3>4. r.pc = pc /\ r.key = k
      BY <1>2, <1>3, <1>1 DEF WriteRecord, Idle
    <3>5. r.pc \in {"idle", "rereading", "repainting"} /\ r.pc # "idle" /\ r.key = k
      BY <3>1, <3>4
    <3>6. ui' = Append(ui, done)
      BY <3>1
    <3> HIDE DEF r
    <3> QED BY <1>1, <1>2, <1>3, <2>1, <3>2, <3>3, <3>5, <3>6, EndKeepsTelling
  <2> QED BY <2>2, <2>3
<1> QED BY <1>4, <1>5

\* What is read again, or put up again, is what the one device holds.
LEMMA RereadKeepsTelling ==
    ASSUME TypeOK, Telling, Told, OneLockingDevice, NEW w \in Writers, Reread(w) \/ Repaint(w)
    PROVE Told'
<1>1. /\ write[w].pc \in {"rereading", "repainting"} /\ UNCHANGED <<held, page, poll, show, told>>
      /\ write[w].pc \in Holding
  BY DEF Reread, Repaint, Holding
<1>2. PICK k \in Keys : k = write[w].key
  BY <1>1, OwnersAreTyped
<1> DEFINE u == write[w].dev
           own == Clear(write[w].keys)
<1>3. /\ write[w] \in WriteRecord /\ u \in Devices /\ Live(w)
      /\ write[w].keys \in SUBSET Keys /\ k \in write[w].keys
      /\ Idle \in WriteRecord /\ Idle.pc = "idle"
      /\ \A x \in Devices : x = u
  BY <1>1, <1>2, OwnersAreTyped DEF Idle, WriteRecord, OneLockingDevice
<1>4. /\ own \in Calls /\ Clears(own, k)
      /\ \A x \in Devices, j \in Keys : SaysTrue(own, j, held[x][j])
  BY <1>3, WhatCallsSay, CallsAreTyped
\* With one call that says the truth, or none, and the one that clears the group.
<1>5. ASSUME NEW c \in Calls, Release(w, <<c>>, Idle),
             \A x \in Devices, j \in Keys : SaysTrue(c, j, held[x][j])
      PROVE Told'
  <2>1. PICK calls \in Seq(Calls) :
            /\ ui' = ui \o calls
            /\ \A i \in DOMAIN calls : calls[i] = c \/ calls[i] = own
            /\ \E i, j \in DOMAIN calls : j > i /\ calls[i] = c /\ calls[j] = own
    BY <1>3, <1>5, ReleaseSays
  <2>2. Answers(w, Idle, calls)
    BY <1>1, <1>2, <1>4, <1>5, <2>1 DEF Answers
  <2>3. write' = [write EXCEPT ![w] = Idle]
    BY <1>5 DEF Release
  <2> QED BY <1>1, <1>3, <2>1, <2>2, <2>3, AnswersKeepTelling
<1>6. CASE Repaint(w)
  <2> DEFINE again == Show(u, held[u])
  <2>1. again \in Calls /\ Release(w, <<again>>, Idle)
    BY <1>3, <1>6, CallsAreTyped DEF Repaint, TypeOK
  <2>2. \A x \in Devices, j \in Keys : SaysTrue(again, j, held[x][j])
    BY <1>3, WhatCallsSay
  <2> QED BY <1>5, <2>1, <2>2
<1>7. CASE Reread(w)
  <2> DEFINE read == [x \in Refreshes[k] |-> held[u][x]]
             again == Confirm(w, read)
  <2>1. again \in Calls
    <3>1. read \in [Refreshes[k] -> Values] /\ Refreshes[k] \in SUBSET Keys
      BY <1>3, ControlsAssumption DEF TypeOK, Readings, ControlsAssumption
    <3>2. read \in Dicts BY <3>1, DictsOfValues
    <3> QED BY <3>2, CallsAreTyped
  <2>2. \A x \in Devices, j \in Keys : SaysTrue(again, j, held[x][j])
    BY <1>3 DEF SaysTrue, Confirm
  <2>3. PICK said \in {<<>>, <<again>>} :
            \/ Release(w, said, Idle)
            \/ /\ ui' = ui \o said /\ selected \in Devices
               /\ write' = [write EXCEPT ![w].pc = "repainting", ![w].dev = selected]
    BY <1>2, <1>7 DEF Reread, TypeOK
  <2> HIDE DEF again
  <2>4. CASE Release(w, <<again>>, Idle)
    BY <1>5, <2>1, <2>2, <2>4
  <2>5. CASE Release(w, <<>>, Idle)
    <3>1. Append(<<>>, own) = <<own>> /\ ui \o <<own>> = Append(ui, own)
      BY <1>4 DEF TypeOK
    <3>2. ui' = Append(ui, own) /\ write' = [write EXCEPT ![w] = Idle]
      BY <2>5, <3>1 DEF Release
    <3>3. PICK calls \in Seq(Calls) : ui' = ui \o calls /\ DOMAIN calls = {1} /\ calls[1] = own
      BY <1>4, <3>2, OneMoreSays
    <3>4. Answers(w, Idle, calls)
      BY <1>1, <1>2, <1>4, <3>3 DEF Answers
    <3> QED BY <1>1, <1>3, <3>2, <3>3, <3>4, AnswersKeepTelling
  <2>6. CASE /\ ui' = ui \o said /\ selected \in Devices
             /\ write' = [write EXCEPT ![w].pc = "repainting", ![w].dev = selected]
    <3> DEFINE r == [write[w] EXCEPT !.pc = "repainting", !.dev = selected]
    <3>1. r \in WriteRecord
      BY <1>1, <1>3, <2>6, HoldersAreTyped DEF Holding
    <3>2. write' = [write EXCEPT ![w] = r]
      BY <2>6 DEF TypeOK
    <3>3. r.pc = "repainting" /\ r.key = k
      BY <1>1, <1>2, <1>3 DEF WriteRecord, Idle
    <3>4. said \in Seq(Calls) /\ \A i \in DOMAIN said : said[i] = again
      <4>1. CASE said = <<>>
        BY <4>1
      <4>2. CASE said = <<again>>
        BY <2>1, <4>2
      <4> QED BY <2>3, <4>1, <4>2
    <3>5. Answers(w, r, said)
      BY <1>1, <2>2, <3>3, <3>4 DEF Answers
    <3> HIDE DEF r
    <3> QED BY <1>1, <1>2, <1>3, <2>6, <3>1, <3>2, <3>3, <3>4, <3>5, AnswersKeepTelling
  <2> QED BY <2>3, <2>4, <2>5, <2>6
<1> QED BY <1>6, <1>7

LEMMA DropKeepsTelling ==
    ASSUME TypeOK, Telling, Told, NEW w \in Writers, DropWrite(w)
    PROVE Told'
<1> DEFINE none == <<>>
<1>1. none \in Seq(Calls) /\ ui' = ui \o none /\ DOMAIN none = {}
  BY DEF DropWrite, TypeOK
<1> HIDE DEF none
<1>2. /\ write' = [write EXCEPT ![w] = Idle] /\ Idle \in WriteRecord /\ Idle.pc = "idle"
      /\ UNCHANGED <<held, page, poll, show, told>> /\ Live(w)
  BY DEF DropWrite, Idle, WriteRecord, Live
<1>3. Answers(w, Idle, none)
  BY <1>1, <1>2 DEF Answers, DropWrite
<1> QED BY <1>1, <1>2, <1>3, AnswersKeepTelling

\* What a call that says the truth about k makes of a page that shows the truth about k; and a
\* call that says it whatever is held shows it.
LEMMA RunUITells ==
    ASSUME TypeOK, RunUI, NEW u \in Devices, NEW k \in Keys,
           SaysTrue(Head(ui), k, held[u][k]),
           (page.of # None => page.val[k] = held[u][k]) \/ Says(Head(ui), k)
    PROVE page'.of # None => page'.val[k] = held[u][k]
<1> DEFINE c == Head(ui)
           v == held[u][k]
<1>0. c \in Calls
  BY QueueIsTyped DEF RunUI, TypeOK
<1>1. page.of # None => page \in [of : Devices, val : [Keys -> Values \cup {None}], pending : SUBSET Keys]
  BY DEF TypeOK, EmptyPage
<1> HIDE DEF c, v
<1>2. SaysTrue(c, k, v) /\ ((page.of # None => page.val[k] = v) \/ Says(c, k))
  BY DEF c, v
<1>3. CASE c.op \in {"pending", "clear", "values"} /\ page.of = None /\ UNCHANGED page
  BY <1>3
<1>4. CASE c.op = "pending" /\ page.of # None /\ page' = SetPending(page, c)
  <2>1. c.key # k /\ page.val[k] = v
    BY <1>2, <1>4 DEF SaysTrue, Says
  <2>2. page'.val = [page.val EXCEPT ![c.key] = c.value]
    BY <1>1, <1>4 DEF SetPending
  <2>3. page'.val[k] = v
    BY <1>1, <1>4, <2>1, <2>2
  <2> QED BY <2>3 DEF v
<1>5. CASE c.op = "clear" /\ page.of # None /\ page' = [page EXCEPT !.pending = @ \ c.keys]
  <2>1. page'.val = page.val /\ page.val[k] = v
    BY <1>1, <1>2, <1>5 DEF Says
  <2> QED BY <2>1 DEF v
<1>6. CASE c.op = "values" /\ page.of # None /\ page' = SetValues(page, c)
  <2> DEFINE taken == IF c.confirmed THEN DOMAIN c.of ELSE DOMAIN c.of \ page.pending
  <2>1. page'.val = [x \in Keys |-> IF x \in taken THEN c.of[x] ELSE page.val[x]]
    BY <1>1, <1>6 DEF SetValues
  <2>2. k \in taken => c.of[k] = v
    BY <1>2, <1>6 DEF SaysTrue
  <2>3. k \notin taken => page.val[k] = v
    BY <1>2, <1>6 DEF Says
  <2> QED BY <2>1, <2>2, <2>3 DEF v
<1>7. CASE c.op = "show" /\ page' = PageOf(c.of, c.vals)
  BY <1>2, <1>7 DEF SaysTrue, PageOf, v
<1>8. CASE page' = EmptyPage
  BY <1>8 DEF EmptyPage
<1> QED BY <1>3, <1>4, <1>5, <1>6, <1>7, <1>8 DEF RunUI, c

LEMMA RunUIKeepsTelling ==
    ASSUME TypeOK, Telling, Told, RunUI
    PROVE Told'
<1>0. /\ UNCHANGED <<held, write, poll, show, told>> /\ ui' = Tail(ui) /\ ui # <<>>
      /\ ui \in Seq(Calls)
  BY DEF RunUI, TypeOK
<1>1. ReadsAreFresh' /\ WritesKnow'
  BY <1>0 DEF Told, ReadsAreFresh, Fresh, WritesKnow
<1>2. /\ 1 \in DOMAIN ui /\ Head(ui) = ui[1] /\ DOMAIN ui = 1..Len(ui) /\ Len(ui) \in Nat
      /\ \A i \in DOMAIN ui' : i + 1 \in DOMAIN ui /\ ui'[i] = ui[i + 1]
      /\ \A i \in DOMAIN ui : i > 1 => i - 1 \in DOMAIN ui' /\ ui'[i - 1] = ui[i]
      /\ DOMAIN ui' = 1..(Len(ui) - 1)
  BY <1>0, CallsShifted
<1>3. ASSUME NEW u \in Devices, NEW k \in Keys, Settled(u, k) PROVE Settled(u, k)'
  <2>1. page'.of # None => page'.val[k] = held[u][k]
    BY <1>2, <1>3, RunUITells DEF Settled
  <2>2. \A i \in DOMAIN ui' : SaysTrue(ui'[i], k, held[u][k])
    BY <1>2, <1>3 DEF Settled
  <2> QED BY <1>0, <2>1, <2>2 DEF Settled
<1>4. ASSUME NEW u \in Devices, NEW k \in Keys, Coming(u, k) PROVE Coming(u, k)' \/ Settled(u, k)'
  <2>1. PICK i \in DOMAIN ui :
            /\ Says(ui[i], k)
            /\ \A j \in DOMAIN ui : j >= i => SaysTrue(ui[j], k, held[u][k])
            /\ Finishing(k) \/ \E j \in DOMAIN ui : j > i /\ Clears(ui[j], k)
    BY <1>4 DEF Coming
  <2>2. CASE i = 1
    <3>1. page'.of # None => page'.val[k] = held[u][k]
      BY <1>2, <2>1, <2>2, RunUITells
    <3>2. \A j \in DOMAIN ui' : SaysTrue(ui'[j], k, held[u][k])
      BY <1>2, <2>1, <2>2
    <3> QED BY <1>0, <3>1, <3>2 DEF Settled
  <2>3. CASE i # 1
    <3>1. i \in Nat /\ i > 1
      BY <1>2, <2>1, <2>3
    <3>2. i - 1 \in DOMAIN ui' /\ Says(ui'[i - 1], k)
      BY <1>2, <2>1, <3>1
    <3>3. ASSUME NEW j \in DOMAIN ui', j >= i - 1 PROVE SaysTrue(ui'[j], k, held[u][k])
      <4>1. j + 1 \in DOMAIN ui /\ ui'[j] = ui[j + 1] /\ j + 1 >= i
        BY <1>2, <3>1, <3>3
      <4> QED BY <2>1, <4>1
    <3>4. ASSUME ~Finishing(k) PROVE \E j \in DOMAIN ui' : j > i - 1 /\ Clears(ui'[j], k)
      <4>1. PICK j \in DOMAIN ui : j > i /\ Clears(ui[j], k)
        BY <2>1, <3>4
      <4>2. j - 1 \in DOMAIN ui' /\ ui'[j - 1] = ui[j] /\ j - 1 > i - 1
        BY <1>2, <3>1, <4>1
      <4> QED BY <4>1, <4>2
    <3>5. Finishing(k)' <=> Finishing(k)
      BY <1>0 DEF Finishing
    <3> QED BY <1>0, <3>2, <3>3, <3>4, <3>5 DEF Coming
  <2> QED BY <2>2, <2>3
<1>5. \A k \in Keys : Unsaid(k) => Unsaid(k)'
  BY <1>0 DEF Unsaid
<1>6. Truth'
  BY <1>0, <1>3, <1>4, <1>5 DEF Told, Truth
<1> QED BY <1>1, <1>6 DEF Told

\* What is read without being asked for is what the device holds, and it is offered or put up
\* before the device takes another value.
LEMMA OthersKeepTelling ==
    ASSUME TypeOK, Telling, Told,
           \/ \E u \in Devices : Select(u) \/ Connect(u) \/ StartTeardown(u)
           \/ \E u \in Devices : \/ FinishTeardown(u) \/ ReadPage(u) \/ QueuePage(u)
                                 \/ ReadPoll(u) \/ EndPoll(u)
           \/ UNCHANGED vars,
           OneLockingDevice
    PROVE Told'
<1>0. UNCHANGED <<held, write>> /\ (page' = page \/ page'.of = None) /\ ui \in Seq(Calls)
  BY DEF Select, Connect, StartTeardown, FinishTeardown, ReadPage, QueuePage, ReadPoll, EndPoll, vars,
         EmptyPage, TypeOK
<1>1. WritesKnow'
  BY <1>0 DEF Told, WritesKnow
<1>2. ReadsAreFresh'
  <2> SUFFICES ASSUME NEW x \in Devices PROVE Fresh(x)'
    BY DEF ReadsAreFresh
  <2>0. Fresh(x)
    BY DEF Told, ReadsAreFresh
  <2>1. ASSUME NEW u \in Devices, Select(u) \/ Connect(u) PROVE Fresh(x)'
    <3>1. UNCHANGED <<poll, told>> /\ (show' = show \/ show' = [show EXCEPT ![u].pc = "asked"])
      BY <2>1 DEF Select, Connect
    <3>2. show'[x].pc = "read" => show'[x] = show[x]
      BY <3>1 DEF TypeOK, ShowRecord, NoShow
    <3> QED BY <1>0, <2>0, <3>1, <3>2 DEF Fresh
  <2>2. ASSUME NEW u \in Devices, StartTeardown(u) PROVE Fresh(x)'
    BY <1>0, <2>0, <2>2 DEF Fresh, StartTeardown, Close, TypeOK
  <2>3. ASSUME NEW u \in Devices, FinishTeardown(u) PROVE Fresh(x)'
    BY <1>0, <2>0, <2>3 DEF Fresh, FinishTeardown
  <2>4. ASSUME NEW u \in Devices, ReadPage(u) \/ QueuePage(u) PROVE Fresh(x)'
    <3>1. UNCHANGED <<poll, told>>
      BY <2>4 DEF ReadPage, QueuePage
    <3>2. CASE x = u
      <4>1. show'[x] = NoShow \/ show'[x] = [pc |-> "read", vals |-> held[x]]
        BY <2>4, <3>2 DEF ReadPage, QueuePage, TypeOK
      <4> QED BY <1>0, <2>0, <3>1, <4>1 DEF Fresh, NoShow
    <3>3. CASE x # u
      <4>1. show'[x] = show[x]
        BY <2>4, <3>3 DEF ReadPage, QueuePage, TypeOK
      <4> QED BY <1>0, <2>0, <3>1, <4>1 DEF Fresh
    <3> QED BY <3>2, <3>3
  <2>5. ASSUME NEW u \in Devices, ReadPoll(u) \/ EndPoll(u) PROVE Fresh(x)'
    BY <1>0, <2>0, <2>5 DEF Fresh, ReadPoll, EndPoll, TypeOK
  <2>6. CASE UNCHANGED vars
    BY <1>0, <2>0, <2>6 DEF Fresh, vars
  <2> QED BY <2>1, <2>2, <2>3, <2>4, <2>5, <2>6
<1>3. \E calls \in Seq(Calls) :
          /\ ui' = ui \o calls
          /\ \A u \in Devices, k \in Keys : \A i \in DOMAIN calls : SaysTrue(calls[i], k, held[u][k])
  <2>1. ASSUME UNCHANGED ui PROVE <1>3!:
    <3> DEFINE none == <<>>
    <3>1. none \in Seq(Calls) /\ ui' = ui \o none /\ DOMAIN none = {}
      BY <1>0, <2>1
    <3> HIDE DEF none
    <3> QED BY <3>1
  <2>2. ASSUME NEW c \in Calls, ui' = Append(ui, c),
               \A u \in Devices, k \in Keys : SaysTrue(c, k, held[u][k])
        PROVE <1>3!:
    <3>1. PICK calls \in Seq(Calls) : ui' = ui \o calls /\ DOMAIN calls = {1} /\ calls[1] = c
      BY <2>2, OneMoreSays
    <3> QED BY <2>2, <3>1
  <2>3. ASSUME NEW u \in Devices, FinishTeardown(u) PROVE <1>3!:
    <3>1. Blank \in Calls /\ \A x \in Devices, k \in Keys : SaysTrue(Blank, k, held[x][k])
      BY CallsAreTyped, WhatCallsSay
    <3> QED BY <2>1, <2>2, <2>3, <3>1 DEF FinishTeardown
  <2>4. ASSUME NEW u \in Devices, QueuePage(u) PROVE <1>3!:
    <3> DEFINE c == Show(u, show[u].vals)
    <3>1. show[u].vals = held[u] /\ ui' = Append(ui, c) /\ \A x \in Devices : x = u
      BY <2>4 DEF QueuePage, Told, ReadsAreFresh, Fresh, OneLockingDevice
    <3>2. c \in Calls /\ \A x \in Devices, k \in Keys : SaysTrue(c, k, held[x][k])
      BY <3>1, CallsAreTyped, WhatCallsSay DEF TypeOK
    <3> QED BY <2>2, <3>1, <3>2
  <2>5. ASSUME NEW u \in Devices, EndPoll(u) PROVE <1>3!:
    <3> DEFINE c == Offer(u, poll[u])
    <3>1. poll[u] = held[u] /\ ui' = Append(ui, c) /\ \A x \in Devices : x = u
      BY <2>5 DEF EndPoll, Told, ReadsAreFresh, Fresh, OneLockingDevice
    <3>2. held[u] \in [Keys -> Values] /\ Keys \in SUBSET Keys
      BY DEF TypeOK, Readings
    <3>3. c \in Calls /\ \A x \in Devices, k \in Keys : SaysTrue(c, k, held[x][k])
      BY <3>1, <3>2, CallsAreTyped, DictsOfValues, WhatCallsSay
    <3> QED BY <2>2, <3>1, <3>3
  <2>6. ASSUME NEW u \in Devices,
               Select(u) \/ Connect(u) \/ StartTeardown(u) \/ ReadPage(u) \/ ReadPoll(u)
        PROVE <1>3!:
    BY <2>1, <2>6 DEF Select, Connect, StartTeardown, ReadPage, ReadPoll
  <2>7. CASE UNCHANGED vars
    BY <2>1, <2>7 DEF vars
  <2> QED BY <2>3, <2>4, <2>5, <2>6, <2>7
<1>4. PICK calls \in Seq(Calls) :
          /\ ui' = ui \o calls
          /\ \A u \in Devices, k \in Keys : \A i \in DOMAIN calls : SaysTrue(calls[i], k, held[u][k])
  BY <1>3
<1>5. ASSUME NEW u \in Devices, NEW k \in Keys
      PROVE /\ (Unsaid(k) \/ Coming(u, k) \/ Settled(u, k))'
            /\ \A w \in Writers : write'[w].pc = "queued" /\ write'[w].key = k => Settled(u, k)'
  <2>1. (Unsaid(k) => Unsaid(k)') /\ (Finishing(k) => Finishing(k)')
    BY <1>0 DEF Unsaid, Finishing
  <2>2. (Settled(u, k) => Settled(u, k)') /\ (Coming(u, k) => Coming(u, k)')
    BY <1>0, <1>4, <2>1, TruthByCalls
  <2> QED BY <1>0, <2>1, <2>2 DEF Told, Truth
<1>6. Truth'
  BY <1>5 DEF Truth
<1> QED BY <1>1, <1>2, <1>6 DEF Told

LEMMA OwningByRecord ==
    ASSUME TypeOK, Owning, NEW w \in Writers, NEW r, write' = [write EXCEPT ![w] = r],
           r.pc # "orphan",
           r.pc # "idle" => Live(w) /\ r.key = write[w].key,
           r.pc \in Holding => r.keys = Group(write[w].key)
    PROVE Owning'
<1>1. write'[w] = r /\ \A x \in Writers \ {w} : write'[x] = write[x]
  BY DEF TypeOK
<1>2. \A x \in Writers : Live(x)' => Live(x) /\ write'[x].key = write[x].key
  BY <1>1 DEF Live
<1>3. OneOfAControl'
  BY <1>2 DEF Owning, OneOfAControl
<1>4. OwnsItsGroup'
  <2>1. \A x \in Writers \ {w} : write'[x].pc \in Holding => write'[x].keys = Group(write'[x].key)
    BY <1>1 DEF Owning, OwnsItsGroup
  <2>2. r.pc \in Holding => r.keys = Group(r.key)
    BY DEF Holding
  <2> QED BY <1>1, <2>1, <2>2 DEF OwnsItsGroup, Group
<1>5. \A x \in Writers : write'[x].pc # "orphan"
  BY <1>1 DEF Owning
<1> QED BY <1>3, <1>4, <1>5 DEF Owning

LEMMA WriterKeepsOwning ==
    ASSUME TypeOK, Owning, OneLockingDevice, NEW w \in Writers,
           \/ StartWrite(w) \/ DropWrite(w) \/ Land(w) \/ ConfirmWrite(w) \/ Reread(w)
           \/ Repaint(w) \/ RefuseWrite(w) \/ TimeOutWrite(w) \/ OrphanLands(w)
           \/ EndRestartingWrite(w)
    PROVE Owning'
<1>0. Idle.pc = "idle" /\ write[w] \in WriteRecord
  BY DEF Idle, TypeOK
<1>1. CASE write' = [write EXCEPT ![w] = Idle]
  BY <1>0, <1>1, OwningByRecord DEF Holding
<1>2. CASE StartWrite(w)
  <2> DEFINE r == [write[w] EXCEPT !.pc = "writing", !.dev = selected,
                                    !.prev = page.val[write[w].key], !.keys = Group(write[w].key)]
  <2>1. write' = [write EXCEPT ![w] = r] /\ Live(w)
    BY <1>2 DEF StartWrite, Live, TypeOK
  <2>2. r.pc = "writing" /\ r.key = write[w].key /\ r.keys = Group(write[w].key)
    BY <1>0, <1>2 DEF StartWrite, WriteRecord, Idle, Holding
  <2> HIDE DEF r
  <2> QED BY <2>1, <2>2, OwningByRecord DEF Holding
<1>3. CASE Land(w)
  <2>1. PICK x : write' = [write EXCEPT ![w].pc = "landed", ![w].value = x]
    <3>1. \A v : write' = [write EXCEPT ![w].pc = "landed",
                             ![w].value = IF write[w].key \in Restarting THEN @ ELSE v]
                 => write' = [write EXCEPT ![w].pc = "landed", ![w].value = v]
      BY DEF OneLockingDevice
    <3> QED BY <1>3, <3>1 DEF Land
  <2> DEFINE r == [write[w] EXCEPT !.pc = "landed", !.value = x]
  <2>2. write' = [write EXCEPT ![w] = r] /\ Live(w) /\ write[w].pc \in Holding
    BY <1>3, <2>1 DEF Land, Live, TypeOK, Holding
  <2>3. r.pc = "landed" /\ r.key = write[w].key /\ r.keys = write[w].keys
    BY <1>0, <1>3 DEF Land, WriteRecord, Idle, Holding
  <2> HIDE DEF r
  <2> QED BY <2>2, <2>3, OwningByRecord DEF Owning, OwnsItsGroup
<1>4. CASE (ConfirmWrite(w) \/ Reread(w)) /\ write' # [write EXCEPT ![w] = Idle]
  <2>1. PICK pc \in {"rereading", "repainting"} :
            write' = [write EXCEPT ![w].pc = pc, ![w].dev = selected]
    BY <1>4 DEF ConfirmWrite, Reread, Release
  <2> DEFINE r == [write[w] EXCEPT !.pc = pc, !.dev = selected]
  <2>2. write' = [write EXCEPT ![w] = r] /\ Live(w) /\ write[w].pc \in Holding
    BY <1>4, <2>1 DEF ConfirmWrite, Reread, Live, TypeOK, Holding
  <2>3. r.pc = pc /\ r.key = write[w].key /\ r.keys = write[w].keys
    BY <1>0, <2>2 DEF WriteRecord, Idle, Holding
  <2> HIDE DEF r
  <2> QED BY <2>1, <2>2, <2>3, OwningByRecord DEF Owning, OwnsItsGroup
<1>5. CASE TimeOutWrite(w) \/ OrphanLands(w) \/ EndRestartingWrite(w)
  BY <1>5 DEF TimeOutWrite, OrphanLands, EndRestartingWrite, Owning, OneLockingDevice
<1>6. DropWrite(w) \/ Repaint(w) \/ RefuseWrite(w) => write' = [write EXCEPT ![w] = Idle]
  BY DEF DropWrite, Repaint, RefuseWrite, Release
<1> QED BY <1>1, <1>2, <1>3, <1>4, <1>5, <1>6

\* A patient user changes a control that is live and that nothing is under way for: the page shows
\* it as it is.
LEMMA EditKeepsTelling ==
    ASSUME TypeOK, Telling, OneLockingDevice,
           NEW w \in Writers, NEW k \in Keys, NEW v \in Values, Edit(w, k, v)
    PROVE Telling'
<1> DEFINE r == [Idle EXCEPT !.pc = "queued", !.origin = page.of, !.key = k, !.value = v]
<1>1. /\ write[w].pc = "idle" /\ CaughtUp(k) /\ write' = [write EXCEPT ![w] = r]
      /\ UNCHANGED <<held, page, ui, poll, show, told, turns>>
  BY DEF Edit, OneLockingDevice
<1>2. r.pc = "queued" /\ r.key = k
  BY DEF Idle
<1> HIDE DEF r
<1>3. write'[w] = r /\ \A x \in Writers \ {w} : write'[x] = write[x]
  BY <1>1 DEF TypeOK
<1>4. \A x \in Writers : Live(x) => write[x].key # k
  BY <1>1, GroupsAreTyped DEF CaughtUp, Live
<1>5. OneOfAControl'
  BY <1>2, <1>3, <1>4 DEF Telling, Owning, OneOfAControl, Live
<1>6. OwnsItsGroup' /\ \A x \in Writers : write'[x].pc # "orphan"
  BY <1>2, <1>3 DEF Telling, Owning, OwnsItsGroup, Holding, Group
<1>7. ASSUME turns' = 0 PROVE Told'
  <2>1. Told BY <1>1, <1>7 DEF Telling, Owning
  <2>2. ReadsAreFresh' BY <1>1, <2>1 DEF Told, ReadsAreFresh, Fresh
  <2>3. WritesKnow' BY <1>1, <1>2, <1>3, <2>1 DEF Told, WritesKnow
  <2>4. ASSUME NEW u \in Devices PROVE Settled(u, k)
    <3>1. ~Unsaid(k) /\ ~Finishing(k)
      BY <1>4 DEF Unsaid, Finishing, Live
    <3>2. ~Coming(u, k)
      BY <1>1, <3>1 DEF Coming, CaughtUp, Clears
    <3> QED BY <2>1, <3>1, <3>2 DEF Told, Truth
  <2>5. ASSUME NEW u \in Devices, NEW j \in Keys
        PROVE /\ (Unsaid(j) \/ Coming(u, j) \/ Settled(u, j))'
              /\ \A x \in Writers : write'[x].pc = "queued" /\ write'[x].key = j => Settled(u, j)'
    <3>1. (Unsaid(j) => Unsaid(j)') /\ (Finishing(j) => Finishing(j)')
      BY <1>1, <1>3 DEF Unsaid, Finishing
    <3>2. (Settled(u, j) => Settled(u, j)') /\ (Coming(u, j) => Coming(u, j)')
      BY <1>1, <3>1 DEF Settled, Coming
    <3>3. ASSUME NEW x \in Writers, write'[x].pc = "queued", write'[x].key = j
          PROVE Settled(u, j)'
      <4>1. CASE x = w BY <1>2, <1>3, <2>4, <3>2, <3>3, <4>1
      <4>2. CASE x # w BY <1>3, <2>1, <3>2, <3>3, <4>2 DEF Told, Truth
      <4> QED BY <4>1, <4>2
    <3> QED BY <2>1, <3>1, <3>2, <3>3 DEF Told, Truth
  <2>6. Truth' BY <2>5 DEF Truth
  <2> QED BY <2>2, <2>3, <2>6 DEF Told
<1> QED BY <1>5, <1>6, <1>7 DEF Telling, Owning

LEMMA NextKeepsTelling ==
    ASSUME TypeOK, Telling, OneLockingDevice, [Next]_vars
    PROVE Telling'
<1>0. Owning /\ (turns = 0 => Told)
  BY DEF Telling, Owning
<1>1. CASE \E w \in Writers, k \in Keys, v \in Values : Edit(w, k, v)
  BY <1>1, EditKeepsTelling
<1>2. CASE \E u \in Devices, k \in Keys, v \in Values : Turn(u, k, v)
  <2>1. UNCHANGED write /\ turns' # 0
    BY <1>2 DEF Turn, TypeOK
  <2> QED BY <2>1 DEF Telling, Owning, OneOfAControl, OwnsItsGroup, Live
<1>3. CASE \/ \E u \in Devices : Select(u) \/ Connect(u) \/ StartTeardown(u)
           \/ \E u \in Devices : \/ FinishTeardown(u) \/ ReadPage(u) \/ QueuePage(u)
                                 \/ ReadPoll(u) \/ EndPoll(u)
           \/ UNCHANGED vars
  <2>1. UNCHANGED <<write, turns>>
    BY <1>3 DEF Select, Connect, StartTeardown, FinishTeardown, ReadPage, QueuePage, ReadPoll,
                EndPoll, vars, counters
  <2>2. turns = 0 => Told'
    BY <1>0, <1>3, OthersKeepTelling
  <2> QED BY <2>1, <2>2 DEF Telling, Owning, OneOfAControl, OwnsItsGroup, Live
<1>4. CASE \E u \in Devices : Deliver(u)
  <2>1. UNCHANGED <<write, turns>> /\ \E u \in Devices : told[u] # <<>>
    BY <1>4 DEF Deliver, counters
  <2>2. turns # 0
    BY <1>0, <2>1 DEF Told, ReadsAreFresh, Fresh
  <2> QED BY <2>1, <2>2 DEF Telling, Owning, OneOfAControl, OwnsItsGroup, Live
<1>5. CASE RunUI
  <2>1. UNCHANGED <<write, turns>>
    BY <1>5 DEF RunUI, counters
  <2>2. turns = 0 => Told'
    BY <1>0, <1>5, RunUIKeepsTelling
  <2> QED BY <2>1, <2>2 DEF Telling, Owning, OneOfAControl, OwnsItsGroup, Live
<1>6. ASSUME NEW w \in Writers,
             \/ StartWrite(w) \/ DropWrite(w) \/ Land(w) \/ ConfirmWrite(w) \/ Reread(w)
             \/ Repaint(w) \/ RefuseWrite(w) \/ TimeOutWrite(w) \/ OrphanLands(w)
             \/ EndRestartingWrite(w)
      PROVE Telling'
  <2>1. Owning'
    BY <1>0, <1>6, WriterKeepsOwning
  <2>2. turns' = turns
    BY <1>6 DEF StartWrite, DropWrite, Land, ConfirmWrite, Reread, Repaint, RefuseWrite,
                TimeOutWrite, OrphanLands, EndRestartingWrite, counters
  <2>3. ASSUME turns = 0 PROVE Told'
    <3>1. ~(TimeOutWrite(w) \/ OrphanLands(w) \/ EndRestartingWrite(w))
      BY <1>0 DEF TimeOutWrite, OrphanLands, EndRestartingWrite, Owning, OneLockingDevice
    <3> QED BY <1>0, <1>6, <2>3, <3>1, StartKeepsTelling, DropKeepsTelling, LandKeepsTelling,
              ConfirmKeepsTelling, RereadKeepsTelling
  <2> QED BY <2>1, <2>2, <2>3 DEF Telling, Owning
<1> QED BY <1>1, <1>2, <1>3, <1>4, <1>5, <1>6 DEF Next, User, Loop

\* On one device whose module locks, whose user waits for an answer, and which nobody touches:
\* when every write has been answered and everything read has been shown, the page shows what
\* the device holds.  No refresh read before a write is shown after it, because the module's
\* lock keeps a write out until the refresh has been handed over (what was offered before is
\* dropped, or overwritten by the confirmation queued behind it), and a refusal goes back to the
\* value the page showed when the write began, which was the device's (app.py:1066).  It holds
\* for every number of controls, values, edits and moves, whatever the groups, advisories and
\* reshaping writes.
THEOREM TruthCorrect ==
    ASSUME \E a : Devices = {a}, Locking = Devices, Patient, ~TimesOut, Restarting = {}
    PROVE  Spec => []TruthAtRest
<1>0. OneLockingDevice
  BY DEF OneLockingDevice
<1>1. Init => Telling
  <2> SUFFICES ASSUME Init PROVE Telling
    OBVIOUS
  <2>1. \A w \in Writers : write[w] = Idle /\ Idle.pc = "idle"
    BY DEF Init, Idle
  <2>2. \A u \in Devices : page.of # None => page = PageOf(u, held[u])
    BY <1>0 DEF Init, OneLockingDevice, EmptyPage
  <2>3. ReadsAreFresh
    BY DEF Init, ReadsAreFresh, Fresh, NoShow
  <2>4. Truth
    BY <2>1, <2>2 DEF Init, Truth, Settled, PageOf
  <2> QED BY <2>1, <2>3, <2>4 DEF Telling, Owning, Told, OneOfAControl, OwnsItsGroup, WritesKnow, Live, Holding
<1>2. TypeOK /\ Telling /\ [Next]_vars => Telling'
  BY <1>0, NextKeepsTelling
<1>3. TypeOK /\ Telling => TruthAtRest
  <2> SUFFICES ASSUME TypeOK, Telling, turns = 0, AllAtRest, page.of # None
               PROVE page.val = held[page.of]
    BY DEF TruthAtRest, PageIsTrue
  <2>1. page.of \in Devices /\ page.val \in [Keys -> Values \cup {None}]
    BY DEF TypeOK, EmptyPage
  <2>2. held[page.of] \in [Keys -> Values]
    BY <2>1 DEF TypeOK, Readings
  <2>3. ASSUME NEW k \in Keys PROVE page.val[k] = held[page.of][k]
    <3>1. ~Unsaid(k) BY DEF Unsaid, AllAtRest
    <3>2. ~Coming(page.of, k) BY DEF Coming, AllAtRest, PageAtRest
    <3> QED BY <2>1, <3>1, <3>2 DEF Telling, Owning, Told, Truth, Settled
  <2> QED BY <2>1, <2>2, <2>3
<1> QED BY <1>1, <1>2, <1>3, PageTypeCorrect, PTL DEF Spec
=============================================================================
