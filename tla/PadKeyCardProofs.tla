-------------------------- MODULE PadKeyCardProofs --------------------------
(***************************************************************************)
(* What the pages of a controller, of a security key and of a sound card   *)
(* rely on: the invariants of EightBitDo, SecurityKey and CreativeCard,    *)
(* for any edits, credentials, attempts, commands, pushes and writers.     *)
(***************************************************************************)
EXTENDS DevicePages, Sequences, FiniteSetTheorems, WellFoundedInduction, TLAPS

-----------------------------------------------------------------------------
(* EightBitDo. *)

EbChunks == {"0", "m", "ff", "a", "b"}
EbProfiles == [{1, 2} -> EbChunks]
EbRecs == [{1, 2} -> EbProfiles]
EbSaves == [open : BOOLEAN, got : SUBSET Eb!Pieces]
EbPads == [here : BOOLEAN, live : EbRecs, kept : EbRecs, save : EbSaves]
EbBuses == [driver : BOOLEAN, claim : Eb!Threads \cup {None}]
EbSteps == {"off", "enter", "claim", "work", "send"}
EbRuns == [step : EbSteps, buf : EbRecs \cup {None}, todo : SUBSET Eb!Pieces, rec : EbRecs \cup {None},
           detached : BOOLEAN, lost : BOOLEAN, tries : Nat]
EbLasts == [rec : EbRecs, ok : BOOLEAN]
EbEditeds == [slots : SUBSET {1, 2}, was : EbRecs]

EbTyped ==
    /\ ebPad \in EbPads /\ ebBus \in EbBuses /\ ebHeld \in EbRecs \cup {None} /\ ebSlot \in {1, 2}
    /\ ebDirty \in BOOLEAN /\ ebThread \in [Eb!Threads -> EbRuns] /\ ebLast \in EbLasts \cup {None}
    /\ ebBlur \in BOOLEAN /\ ebEdited \in EbEditeds /\ ebLink \in {"usb", "ble"}

EbWorks(th) == th.step \in {"work", "send"} /\ ~th.lost
EbSends(th) == th.step = "send" /\ ~th.lost

\* A session that is at the record has the interface to itself, and the controller is there.
EbShut(bus, pad, t, th) ==
    /\ th.lost => th.step \in {"work", "send"}
    /\ EbWorks(th) => bus.claim = t /\ pad.here

\* What was read is what the controller has, as far as it was received.
EbReader(r, pad) ==
    /\ r.step # "send"
    /\ r.step \in {"enter", "claim"} => r.buf = Eb!Nothing /\ r.todo = Eb!Pieces
    /\ EbWorks(r) => /\ r.buf \in EbRecs
                     /\ \A i, j \in {1, 2} : <<i, j>> \notin r.todo => r.buf[i][j] \in {pad.live[i][j], Eb!Unread}
                     /\ \A i, j \in {1, 2} : <<i, j>> \in r.todo => r.buf[i][j] = Eb!Unread

\* What is written is the record that is held, and the save session has what was sent.
EbWriter(w, pad, last, held, blur, edited) ==
    /\ w.step # "off" => /\ w.rec \in EbRecs /\ last \in EbLasts /\ last.rec = w.rec /\ ~last.ok
                         /\ ~blur => held = w.rec /\ \A s \in {1, 2} \ edited.slots : w.rec[s] = edited.was[s]
    /\ w.step \in {"enter", "claim", "work"} => w.todo = Eb!Pieces
    /\ EbSends(w) => /\ pad.save.open /\ pad.save.got = Eb!Pieces \ w.todo
                     /\ \A i, j \in {1, 2} : <<i, j>> \notin w.todo => pad.live[i][j] = w.rec[i][j]

\* What is stored, held and reported.
EbStored(pad, w) == pad.here /\ ~EbSends(w) => pad.live = pad.kept

EbKeeps(pad, last, held, dirty, blur, edited) ==
    /\ last # None /\ last.ok => pad.kept = last.rec
    /\ ~blur => /\ \A s \in {1, 2} \ edited.slots : pad.kept[s] = edited.was[s] /\ (held # None => held[s] = edited.was[s])
                /\ held # None /\ ~dirty => held = pad.kept

EbFollows ==
    /\ \A t \in Eb!Threads : EbShut(ebBus, ebPad, t, ebThread[t])
    /\ EbReader(ebThread["read"], ebPad)
    /\ EbWriter(ebThread["write"], ebPad, ebLast, ebHeld, ebBlur, ebEdited)
    /\ EbStored(ebPad, ebThread["write"])
    /\ EbKeeps(ebPad, ebLast, ebHeld, ebDirty, ebBlur, ebEdited)

LEMMA EbTwo == Eb!Slots = {1, 2} /\ Eb!ChunkIds = {1, 2}
BY DEF Eb!Slots, Eb!ChunkIds

LEMMA EbThreads == Eb!Threads = {"read", "write"}
BY DEF Eb!Threads

LEMMA EbPieces == Eb!Pieces = {<<i, j>> : i \in {1, 2}, j \in {1, 2}}
BY EbTwo DEF Eb!Pieces

LEMMA EbPair ==
    ASSUME NEW x, NEW y
    PROVE  DOMAIN <<x, y>> = {1, 2} /\ <<x, y>>[1] = x /\ <<x, y>>[2] = y
<1>1. DOMAIN <<x, y>> = 1..2 /\ 1..2 = {1, 2}
  OBVIOUS
<1>2. QED BY <1>1

LEMMA EbProfile ==
    ASSUME NEW x \in EbChunks, NEW y \in EbChunks
    PROVE  <<x, y>> \in EbProfiles
<1>1. <<x, y>> = [n \in {1, 2} |-> <<x, y>>[n]]
  BY EbPair
<1>2. QED BY <1>1, EbPair DEF EbProfiles

LEMMA EbNothing == Eb!Nothing \in EbRecs
BY EbTwo DEF Eb!Nothing, EbRecs, EbProfiles, EbChunks, Eb!Unread

LEMMA EbIdle == Eb!Idle \in EbRuns /\ Eb!Idle.step = "off" /\ ~Eb!Idle.lost
BY DEF Eb!Idle, EbRuns, EbSteps

LEMMA EbTypedSuffices == EbTyped => Eb!TypeOK
<1> SUFFICES ASSUME EbTyped PROVE Eb!TypeOK
  OBVIOUS
<1>1. ebBus.claim \in Eb!Threads \cup {None}
  BY DEF EbTyped, EbBuses
<1>2. \A t \in Eb!Threads : ebThread[t].step \in {"off", "enter", "claim", "work", "send"}
  BY DEF EbTyped, EbRuns, EbSteps
<1>3. ASSUME ebHeld # None, NEW p \in Eb!Pieces
      PROVE  ebHeld[p[1]][p[2]] \in {"0", "m", Eb!Unread} \cup Eb!Values
  <2>1. PICK i \in {1, 2}, j \in {1, 2} : p = <<i, j>>
    BY EbPieces
  <2>2. p[1] = i /\ p[2] = j
    BY <2>1
  <2>3. ebHeld[i][j] \in EbChunks
    BY <1>3 DEF EbTyped, EbRecs, EbProfiles
  <2>4. QED BY <2>2, <2>3 DEF EbChunks, Eb!Unread, Eb!Values
<1>4. QED BY <1>1, <1>2, <1>3 DEF Eb!TypeOK

LEMMA EbSuffices ==
    ASSUME EbTyped, EbFollows
    PROVE  Eb!SavedIsKept /\ Eb!OtherProfilesAreKept /\ Eb!CleanIsStored
BY EbTwo DEF EbFollows, EbKeeps, Eb!SavedIsKept, Eb!OtherProfilesAreKept, Eb!CleanIsStored

LEMMA EbInit == Eb!Init => EbTyped /\ EbFollows
<1> SUFFICES ASSUME Eb!Init PROVE EbTyped /\ EbFollows
  OBVIOUS
<1>1. <<"m", "a">> \in EbProfiles /\ <<"m", "b">> \in EbProfiles /\ <<"0", "0">> \in EbProfiles
  BY EbProfile DEF EbChunks
<1>2. PICK rec \in EbRecs : ebPad = [here |-> TRUE, live |-> rec, kept |-> rec, save |-> Eb!NoSave]
  <2> DEFINE f == <<"m", "a">>
  <2>1. PICK y \in {Eb!Empty, <<"m", "b">>} :
          ebPad = [here |-> TRUE, live |-> <<f, y>>, kept |-> <<f, y>>, save |-> Eb!NoSave]
    BY DEF Eb!Init
  <2>2. f \in EbProfiles /\ y \in EbProfiles
    BY <1>1 DEF Eb!Empty
  <2> DEFINE rec == <<f, y>>
  <2>3. rec = [n \in {1, 2} |-> rec[n]] /\ rec[1] = f /\ rec[2] = y
    BY EbPair
  <2>4. ebPad = [here |-> TRUE, live |-> rec, kept |-> rec, save |-> Eb!NoSave]
    BY <2>1
  <2> HIDE DEF f, rec, Eb!NoSave
  <2>5. rec \in EbRecs
    BY <2>2, <2>3 DEF EbRecs
  <2>6. QED BY <2>4, <2>5
<1> HIDE DEF Eb!NoSave
<1>3. Eb!NoSave \in EbSaves
  BY DEF EbSaves, Eb!NoSave
<1>4. /\ ebBus = [driver |-> TRUE, claim |-> None] /\ ebHeld = None /\ ebSlot = 1 /\ ebDirty = FALSE
      /\ ebThread = [t \in Eb!Threads |-> Eb!Idle] /\ ebLast = None /\ ebBlur = FALSE
      /\ ebEdited = [slots |-> {}, was |-> ebPad.kept]
  BY DEF Eb!Init
<1>5. ebPad \in EbPads /\ ebPad.kept = rec /\ ebPad.live = rec
  BY <1>2, <1>3 DEF EbPads
<1>6. ebThread \in [Eb!Threads -> EbRuns] /\ \A t \in Eb!Threads : ebThread[t].step = "off" /\ ~ebThread[t].lost
  BY <1>4, EbIdle
<1> HIDE DEF Eb!Init
<1>7. ebEdited \in EbEditeds
  BY <1>4, <1>5 DEF EbEditeds
<1>8. EbTyped
  <2>1. ebBus \in EbBuses
    BY <1>4 DEF EbBuses
  <2>2. ebLink \in {"usb", "ble"}
    BY LinksAssumption DEF Eb!Init
  <2> HIDE DEF Eb!Init
  <2>3. QED BY <1>4, <1>5, <1>6, <1>7, <2>1, <2>2 DEF EbTyped
<1>9. "read" \in Eb!Threads /\ "write" \in Eb!Threads
  BY EbThreads
<1>10. EbFollows
  BY <1>4, <1>5, <1>6, <1>9 DEF EbFollows, EbShut, EbReader, EbWriter, EbStored, EbKeeps, EbWorks, EbSends
<1>11. QED BY <1>8, <1>10

-----------------------------------------------------------------------------

\* An edit of the record that is held.
LEMMA EbEdits ==
    ASSUME EbTyped, EbFollows, Eb!MayEdit, Eb!EditKeep,
           NEW h \in EbRecs, ebHeld' = h, ebSlot' \in {1, 2}, ebEdited' \in EbEditeds,
           ebEdited'.was = ebEdited.was, ebEdited.slots \subseteq ebEdited'.slots,
           \A s \in {1, 2} \ ebEdited'.slots : h[s] = ebHeld[s],
           ebDirty' = TRUE \/ (ebDirty' = ebDirty /\ h = ebHeld)
    PROVE  EbTyped' /\ EbFollows'
<1>1. UNCHANGED <<ebLink, ebPad, ebBus, ebThread, ebLast, ebBlur>> /\ ebHeld # None /\ ebThread["write"].step = "off"
  BY DEF Eb!EditKeep, Eb!MayEdit
<1>2. EbTyped'
  BY <1>1 DEF EbTyped
<1>3. EbKeeps(ebPad, ebLast, h, ebDirty', ebBlur, ebEdited')
  BY <1>1 DEF EbFollows, EbKeeps
<1>4. EbWriter(ebThread["write"], ebPad, ebLast, h, ebBlur, ebEdited')
  BY <1>1 DEF EbFollows, EbWriter, EbSends
<1>5. EbFollows'
  BY <1>1, <1>3, <1>4 DEF EbFollows
<1>6. QED BY <1>2, <1>5

LEMMA EbEditing ==
    ASSUME EbTyped, EbFollows,
           (\E s \in Eb!Slots : Eb!SelectProfile(s)) \/ (\E v \in Eb!Values : Eb!Edit(v)) \/ Eb!Reset \/ Eb!Delete
    PROVE  EbTyped' /\ EbFollows'
<1> DEFINE e == [ebEdited EXCEPT !.slots = ebEdited.slots \cup {ebSlot}]
<1>1. ebEdited \in EbEditeds /\ ebSlot \in {1, 2} /\ ebHeld \in EbRecs \cup {None}
  BY DEF EbTyped
<1>2. e \in EbEditeds /\ e.was = ebEdited.was /\ ebEdited.slots \subseteq e.slots /\ ebSlot \in e.slots
  BY <1>1 DEF EbEditeds
<1> HIDE DEF e
<1>3. CASE \E s \in Eb!Slots : Eb!SelectProfile(s)
  <2>1. /\ Eb!MayEdit /\ Eb!EditKeep /\ ebHeld' = ebHeld /\ ebDirty' = ebDirty /\ ebEdited' = ebEdited
        /\ ebSlot' \in {1, 2}
    BY <1>3, EbTwo DEF Eb!SelectProfile
  <2>2. ebHeld \in EbRecs
    BY <1>1, <2>1 DEF Eb!MayEdit
  <2>3. QED BY <1>1, <2>1, <2>2, EbEdits
<1>4. ASSUME NEW h \in EbRecs, ebHeld' = h, \A s \in {1, 2} \ {ebSlot} : h[s] = ebHeld[s],
             Eb!MayEdit, Eb!EditKeep, Eb!Edited, ebSlot' = ebSlot
      PROVE  EbTyped' /\ EbFollows'
  <2>1. ebEdited' = e /\ ebDirty' = TRUE
    BY <1>4 DEF Eb!Edited, e
  <2>2. QED BY <1>1, <1>2, <1>4, <2>1, EbEdits
<1>5. CASE \E v \in Eb!Values : Eb!Edit(v)
  <2>1. PICK v \in Eb!Values : Eb!Edit(v)
    BY <1>5
  <2> DEFINE p == [ebHeld[ebSlot] EXCEPT ![2] = v]  h == [ebHeld EXCEPT ![ebSlot] = p]
  <2>2. ebHeld' = h /\ Eb!MayEdit /\ Eb!EditKeep /\ Eb!Edited /\ ebSlot' = ebSlot
    BY <2>1 DEF Eb!Edit
  <2>3. ebHeld \in EbRecs /\ v \in EbChunks
    BY <1>1, <2>2 DEF Eb!MayEdit, Eb!Values, EbChunks
  <2>4. p \in EbProfiles
    BY <1>1, <2>3 DEF EbRecs, EbProfiles
  <2> HIDE DEF p
  <2>5. h \in EbRecs /\ \A s \in {1, 2} \ {ebSlot} : h[s] = ebHeld[s]
    BY <1>1, <2>3, <2>4 DEF EbRecs
  <2>6. QED BY <1>4, <2>2, <2>5
<1>6. CASE Eb!Reset
  <2> DEFINE p == Eb!DefaultSlot  h == [ebHeld EXCEPT ![ebSlot] = p]
  <2>1. ebHeld' = h /\ Eb!MayEdit /\ Eb!EditKeep /\ Eb!Edited /\ ebSlot' = ebSlot
    BY <1>6 DEF Eb!Reset
  <2>2. ebHeld \in EbRecs
    BY <1>1, <2>1 DEF Eb!MayEdit
  <2>3. p \in EbProfiles
    <3> DEFINE found == {s \in Eb!Slots : Eb!IsWritten(ebHeld[s])}
               s0 == CHOOSE s \in found : \A t \in found : s <= t
    <3>1. CASE found = {}
      BY <2>2, <3>1 DEF Eb!DefaultSlot, EbRecs
    <3>2. CASE found # {}
      <4>1. found \subseteq {1, 2}
        BY EbTwo
      <4>2. p = ebHeld[s0]
        BY <3>2 DEF Eb!DefaultSlot
      <4> HIDE DEF found, p
      <4>3. \E s \in found : \A t \in found : s <= t
        <5>1. CASE 1 \in found
          <6>1. \A t \in found : 1 <= t
            BY <4>1
          <6>2. QED BY <5>1, <6>1
        <5>2. CASE 1 \notin found
          <6>1. found = {2}
            BY <3>2, <4>1, <5>2
          <6>2. QED BY <6>1
        <5>3. QED BY <5>1, <5>2
      <4>4. s0 \in {1, 2}
        BY <4>1, <4>3
      <4>5. QED BY <2>2, <4>2, <4>4 DEF EbRecs
    <3>3. QED BY <3>1, <3>2
  <2> HIDE DEF p
  <2>4. h \in EbRecs /\ \A s \in {1, 2} \ {ebSlot} : h[s] = ebHeld[s]
    BY <1>1, <2>2, <2>3 DEF EbRecs
  <2>5. QED BY <1>4, <2>1, <2>4
<1>7. CASE Eb!Delete
  <2> DEFINE p == Eb!Empty  h == [ebHeld EXCEPT ![ebSlot] = p]
  <2>1. ebHeld' = h /\ Eb!MayEdit /\ Eb!EditKeep /\ Eb!Edited /\ ebSlot' = ebSlot
    BY <1>7 DEF Eb!Delete
  <2>2. ebHeld \in EbRecs
    BY <1>1, <2>1 DEF Eb!MayEdit
  <2>3. p \in EbProfiles
    BY EbProfile DEF EbChunks, Eb!Empty
  <2> HIDE DEF p
  <2>4. h \in EbRecs /\ \A s \in {1, 2} \ {ebSlot} : h[s] = ebHeld[s]
    BY <1>1, <2>2, <2>3 DEF EbRecs
  <2>5. QED BY <1>4, <2>1, <2>4
<1>8. QED BY <1>3, <1>5, <1>6, <1>7

-----------------------------------------------------------------------------

EbRun(th, fields) == [x \in DOMAIN Eb!Idle |-> IF x \in DOMAIN fields THEN fields[x] ELSE th[x]]

LEMMA EbRunIs ==
    ASSUME NEW th, NEW fields
    PROVE  LET g(x) == IF x \in DOMAIN fields THEN fields[x] ELSE th[x] IN
           EbRun(th, fields) = [step |-> g("step"), buf |-> g("buf"), todo |-> g("todo"), rec |-> g("rec"),
                                detached |-> g("detached"), lost |-> g("lost"), tries |-> g("tries")]
BY DEF EbRun, Eb!Idle

LEMMA EbRuns1 ==
    ASSUME NEW t, NEW fields, Eb!Step(t, fields)
    PROVE  ebThread' = [ebThread EXCEPT ![t] = EbRun(ebThread[t], fields)]
BY DEF Eb!Step, EbRun

\* A step of the session t that is of the session and the bus.
EbStays == UNCHANGED <<ebLink, ebPad, ebHeld, ebSlot, ebDirty, ebLast, ebBlur, ebEdited>>

LEMMA EbMoves ==
    ASSUME EbTyped, EbFollows, EbStays, NEW t \in Eb!Threads, NEW th \in EbRuns,
           ebThread' = [ebThread EXCEPT ![t] = th], ebBus' \in EbBuses,
           EbShut(ebBus', ebPad, t, th),
           \A u \in Eb!Threads : u # t /\ EbWorks(ebThread[u]) => ebBus'.claim = u,
           t = "read" => EbReader(th, ebPad),
           t = "write" => /\ EbWriter(th, ebPad, ebLast, ebHeld, ebBlur, ebEdited)
                          /\ ~EbSends(ebThread[t]) \/ EbSends(th)
    PROVE  EbTyped' /\ EbFollows'
<1>1. ebThread'[t] = th /\ \A u \in Eb!Threads : u # t => ebThread'[u] = ebThread[u]
  BY DEF EbTyped
<1>2. ebPad' = ebPad /\ ebHeld' = ebHeld /\ ebDirty' = ebDirty /\ ebLast' = ebLast /\ ebBlur' = ebBlur /\ ebEdited' = ebEdited
  BY DEF EbStays
<1>3. EbTyped'
  <2>1. ebThread' \in [Eb!Threads -> EbRuns]
    BY DEF EbTyped
  <2>2. QED BY <2>1 DEF EbTyped, EbStays
<1>4. ASSUME NEW u \in Eb!Threads PROVE EbShut(ebBus', ebPad, u, ebThread'[u])
  BY <1>1 DEF EbFollows, EbShut
<1>5. EbReader(ebThread'["read"], ebPad)
  BY <1>1, EbThreads DEF EbFollows
<1>6. EbWriter(ebThread'["write"], ebPad, ebLast, ebHeld, ebBlur, ebEdited)
  BY <1>1, EbThreads DEF EbFollows
<1>7. EbStored(ebPad, ebThread'["write"])
  BY <1>1, EbThreads DEF EbFollows, EbStored
<1>8. EbFollows'
  BY <1>2, <1>4, <1>5, <1>6, <1>7 DEF EbFollows
<1>9. QED BY <1>3, <1>8

LEMMA EbStartsRead ==
    ASSUME EbTyped, EbFollows, Eb!StartRead
    PROVE  EbTyped' /\ EbFollows'
<1> DEFINE old == ebThread["read"]  f == [step |-> "enter", buf |-> Eb!Nothing, todo |-> Eb!Pieces]  th == EbRun(old, f)
<1>1. "read" \in Eb!Threads /\ old \in EbRuns /\ ebBus \in EbBuses
  BY EbThreads DEF EbTyped
<1>2. /\ ebThread' = [ebThread EXCEPT !["read"] = th] /\ old.step = "off" /\ EbStays /\ ebBus' = ebBus
  BY EbRuns1 DEF Eb!StartRead, EbStays
<1>3. ~old.lost
  BY <1>1, <1>2 DEF EbFollows, EbShut
<1> HIDE DEF old
<1>4. th = [step |-> "enter", buf |-> Eb!Nothing, todo |-> Eb!Pieces, rec |-> old.rec, detached |-> old.detached,
            lost |-> old.lost, tries |-> old.tries]
  BY EbRunIs
<1>5. th \in EbRuns /\ th.step = "enter" /\ th.buf = Eb!Nothing /\ th.todo = Eb!Pieces /\ ~th.lost
  BY <1>1, <1>3, <1>4, EbNothing DEF EbRuns, EbSteps
<1> HIDE DEF th
<1>6. EbShut(ebBus', ebPad, "read", th) /\ EbReader(th, ebPad)
  BY <1>5 DEF EbShut, EbReader, EbWorks
<1>7. \A u \in Eb!Threads : u # "read" /\ EbWorks(ebThread[u]) => ebBus'.claim = u
  BY <1>2 DEF EbFollows, EbShut
<1>8. QED BY <1>1, <1>2, <1>5, <1>6, <1>7, EbMoves

LEMMA EbStartsSync ==
    ASSUME EbTyped, EbFollows, Eb!StartSync
    PROVE  EbTyped' /\ EbFollows'
<1> DEFINE old == ebThread["write"]  f == [step |-> "enter", rec |-> ebHeld, todo |-> Eb!Pieces]  th == EbRun(old, f)
           l == [rec |-> ebHeld, ok |-> FALSE]
<1>1. "write" \in Eb!Threads /\ old \in EbRuns /\ ebHeld \in EbRecs \cup {None}
  BY EbThreads DEF EbTyped
<1>2. /\ ebThread' = [ebThread EXCEPT !["write"] = th] /\ old.step = "off" /\ ebHeld # None /\ ebLast' = l
      /\ UNCHANGED <<ebLink, ebPad, ebBus, ebHeld, ebSlot, ebBlur, ebEdited>> /\ ebDirty' = ebDirty
  BY EbRuns1 DEF Eb!StartSync, Eb!MayEdit, Eb!CleanWhenSaved
<1>3. ~old.lost /\ ebHeld \in EbRecs
  BY <1>1, <1>2 DEF EbFollows, EbShut
<1> HIDE DEF old
<1>4. th = [step |-> "enter", buf |-> old.buf, todo |-> Eb!Pieces, rec |-> ebHeld, detached |-> old.detached,
            lost |-> old.lost, tries |-> old.tries]
  BY EbRunIs
<1>5. th \in EbRuns /\ th.step = "enter" /\ th.rec = ebHeld /\ th.todo = Eb!Pieces /\ ~th.lost
  BY <1>1, <1>3, <1>4 DEF EbRuns, EbSteps
<1> HIDE DEF th
<1>6. l \in EbLasts /\ l.rec = ebHeld /\ ~l.ok
  BY <1>3 DEF EbLasts
<1> HIDE DEF l
<1>7. ebThread'["write"] = th /\ ebThread'["read"] = ebThread["read"] /\ ebThread' \in [Eb!Threads -> EbRuns]
  BY <1>1, <1>2, <1>5, EbThreads DEF EbTyped
<1>8. EbTyped'
  BY <1>2, <1>6, <1>7 DEF EbTyped
<1>9. EbShut(ebBus, ebPad, "write", th)
  BY <1>5 DEF EbShut, EbWorks
<1>10. ~ebBlur => \A s \in {1, 2} \ ebEdited.slots : ebHeld[s] = ebEdited.was[s]
  BY <1>2 DEF EbFollows, EbKeeps
<1>11. EbWriter(th, ebPad, l, ebHeld, ebBlur, ebEdited)
  BY <1>3, <1>5, <1>6, <1>10 DEF EbWriter, EbSends
<1>12. EbStored(ebPad, th)
  BY <1>2 DEF EbFollows, EbStored, EbSends, old
<1>13. EbKeeps(ebPad, l, ebHeld, ebDirty, ebBlur, ebEdited)
  BY <1>6 DEF EbFollows, EbKeeps
<1>14. \A t \in Eb!Threads : EbShut(ebBus, ebPad, t, ebThread'[t])
  BY <1>7, <1>9, EbThreads DEF EbFollows
<1>15. EbReader(ebThread'["read"], ebPad)
  BY <1>7 DEF EbFollows
<1>16. EbFollows'
  BY <1>2, <1>7, <1>11, <1>12, <1>13, <1>14, <1>15 DEF EbFollows
<1>17. QED BY <1>8, <1>16

\* A session that ends without having been at the record.
LEMMA EbFails ==
    ASSUME EbTyped, EbFollows, EbStays, NEW t \in Eb!Threads, Eb!Fail(t), ebBus' = ebBus, ~EbWorks(ebThread[t])
    PROVE  EbTyped' /\ EbFollows'
<1> DEFINE th == Eb!Idle
<1>1. th \in EbRuns /\ th.step = "off" /\ ~th.lost /\ ebThread' = [ebThread EXCEPT ![t] = th]
  BY EbIdle DEF Eb!Fail
<1> HIDE DEF th
<1>2. ebBus' \in EbBuses /\ \A u \in Eb!Threads : u # t /\ EbWorks(ebThread[u]) => ebBus'.claim = u
  BY DEF EbTyped, EbFollows, EbShut
<1>3. EbShut(ebBus', ebPad, t, th) /\ EbReader(th, ebPad) /\ EbWriter(th, ebPad, ebLast, ebHeld, ebBlur, ebEdited)
  BY <1>1 DEF EbShut, EbReader, EbWriter, EbWorks, EbSends
<1>4. ~EbSends(ebThread[t])
  BY DEF EbWorks, EbSends
<1>5. QED BY <1>1, <1>2, <1>3, <1>4, EbMoves

LEMMA EbDetaches ==
    ASSUME EbTyped, EbFollows, NEW t \in Eb!Threads, Eb!Detach(t)
    PROVE  EbTyped' /\ EbFollows'
<1> DEFINE old == ebThread[t]  d == ebBus.driver /\ ebLink = "usb"  f == [step |-> "claim", detached |-> d]
           th == EbRun(old, f)
<1>1. /\ old.step = "enter" /\ EbStays
      /\ IF ~ebPad.here THEN Eb!Fail(t) /\ ebBus' = ebBus
         ELSE /\ ebThread' = [ebThread EXCEPT ![t] = th]
              /\ ebBus' = IF ebLink = "usb" THEN [ebBus EXCEPT !.driver = FALSE] ELSE ebBus
  BY EbRuns1 DEF Eb!Detach, EbStays, Eb!SessionKeep
<1>2. old \in EbRuns /\ ebBus \in EbBuses /\ ~old.lost /\ ~EbWorks(old)
  BY <1>1 DEF EbTyped, EbFollows, EbShut, EbWorks
<1>3. CASE ~ebPad.here
  BY <1>1, <1>2, <1>3, EbFails
<1>4. CASE ebPad.here
  <2>1. ebBus' \in EbBuses /\ ebBus'.claim = ebBus.claim
    BY <1>1, <1>2, <1>4 DEF EbBuses
  <2>2. t = "read" => old.buf = Eb!Nothing /\ old.todo = Eb!Pieces
    BY <1>1 DEF EbFollows, EbReader
  <2>3. t = "write" => EbWriter(old, ebPad, ebLast, ebHeld, ebBlur, ebEdited)
    BY DEF EbFollows
  <2>4. ebThread' = [ebThread EXCEPT ![t] = th] /\ old.step = "enter"
    BY <1>1, <1>4
  <2>5. d \in BOOLEAN
    OBVIOUS
  <2>6. ~EbSends(ebThread[t])
    BY <1>1 DEF EbSends
  <2> HIDE DEF old, d
  <2>7. th = [step |-> "claim", buf |-> old.buf, todo |-> old.todo, rec |-> old.rec, detached |-> d, lost |-> old.lost,
              tries |-> old.tries]
    BY EbRunIs
  <2>8. /\ th \in EbRuns /\ th.step = "claim" /\ th.buf = old.buf /\ th.todo = old.todo /\ th.rec = old.rec /\ ~th.lost
    BY <1>2, <2>5, <2>7 DEF EbRuns, EbSteps
  <2> HIDE DEF th
  <2>9. EbShut(ebBus', ebPad, t, th) /\ (t = "read" => EbReader(th, ebPad))
    BY <2>2, <2>8 DEF EbShut, EbReader, EbWorks
  <2>10. t = "write" => EbWriter(th, ebPad, ebLast, ebHeld, ebBlur, ebEdited)
    BY <2>3, <2>4, <2>8 DEF EbWriter, EbSends
  <2>11. \A u \in Eb!Threads : u # t /\ EbWorks(ebThread[u]) => ebBus'.claim = u
    BY <2>1 DEF EbFollows, EbShut
  <2>12. QED BY <1>1, <2>1, <2>4, <2>6, <2>8, <2>9, <2>10, <2>11, EbMoves
<1>5. QED BY <1>3, <1>4

LEMMA EbClaims ==
    ASSUME EbTyped, EbFollows, NEW t \in Eb!Threads, Eb!Claim(t)
    PROVE  EbTyped' /\ EbFollows'
<1> DEFINE old == ebThread[t]  f == [step |-> "work"]  th == EbRun(old, f)
           taken == ~ebPad.here \/ ebBus.claim # None \/ (ebLink = "usb" /\ ebBus.driver)
<1>1. /\ old.step = "claim" /\ EbStays
      /\ IF taken THEN Eb!Fail(t) /\ ebBus' = ebBus
         ELSE ebThread' = [ebThread EXCEPT ![t] = th] /\ ebBus' = [ebBus EXCEPT !.claim = t]
  BY EbRuns1 DEF Eb!Claim, EbStays, Eb!SessionKeep
<1>2. old \in EbRuns /\ ebBus \in EbBuses /\ ~old.lost /\ ~EbWorks(old) /\ ebPad \in EbPads
  BY <1>1 DEF EbTyped, EbFollows, EbShut, EbWorks
<1>3. CASE taken
  BY <1>1, <1>2, <1>3, EbFails
<1>4. CASE ~taken
  <2>0. ebPad.here /\ ebBus.claim = None
    BY <1>2, <1>4 DEF EbPads
  <2>1. ebBus' \in EbBuses /\ ebBus'.claim = t
    BY <1>1, <1>2, <1>4 DEF EbBuses
  <2>2. t = "read" => old.buf = Eb!Nothing /\ old.todo = Eb!Pieces
    BY <1>1 DEF EbFollows, EbReader
  <2>3. t = "write" => EbWriter(old, ebPad, ebLast, ebHeld, ebBlur, ebEdited)
    BY DEF EbFollows
  <2>4. ebThread' = [ebThread EXCEPT ![t] = th] /\ old.step = "claim"
    BY <1>1, <1>4
  <2>5. ~EbSends(ebThread[t])
    BY <1>1 DEF EbSends
  <2>6. \A u \in Eb!Threads : ~EbWorks(ebThread[u])
    BY <2>0, SessionsAssumption, EbThreads DEF EbFollows, EbShut
  <2> HIDE DEF old
  <2>7. th = [step |-> "work", buf |-> old.buf, todo |-> old.todo, rec |-> old.rec, detached |-> old.detached,
              lost |-> old.lost, tries |-> old.tries]
    BY EbRunIs
  <2>8. /\ th \in EbRuns /\ th.step = "work" /\ th.buf = old.buf /\ th.todo = old.todo /\ th.rec = old.rec /\ ~th.lost
    BY <1>2, <2>7 DEF EbRuns, EbSteps
  <2> HIDE DEF th
  <2>9. t = "read" => EbReader(th, ebPad)
    <3> SUFFICES ASSUME t = "read" PROVE EbReader(th, ebPad)
      OBVIOUS
    <3>1. \A i, j \in {1, 2} : <<i, j>> \in Eb!Pieces /\ Eb!Nothing[i][j] = Eb!Unread
      BY EbPieces, EbTwo DEF Eb!Nothing
    <3>2. QED BY <2>2, <2>8, <3>1, EbNothing DEF EbReader
  <2>10. t = "write" => EbWriter(th, ebPad, ebLast, ebHeld, ebBlur, ebEdited)
    BY <2>3, <2>4, <2>8 DEF EbWriter, EbSends
  <2>11. EbShut(ebBus', ebPad, t, th)
    BY <2>0, <2>1, <2>8 DEF EbShut
  <2>12. QED BY <1>1, <2>1, <2>4, <2>5, <2>6, <2>8, <2>9, <2>10, <2>11, EbMoves
<1>5. QED BY <1>3, <1>4

\* The controller left the bus: the session starts over, or ends.
LEMMA EbDrops ==
    ASSUME EbTyped, EbFollows, NEW t \in Eb!Threads, Eb!Dropped(t)
    PROVE  EbTyped' /\ EbFollows'
<1> DEFINE old == ebThread[t]  b == IF t = "read" THEN Eb!Nothing ELSE None  n == old.tries + 1
           f == [step |-> "enter", todo |-> Eb!Pieces, tries |-> n, lost |-> FALSE, detached |-> FALSE, buf |-> b]
           th == EbRun(old, f)
<1>1. /\ old.lost /\ EbStays /\ ebBus' = ebBus
      /\ ebThread' = [ebThread EXCEPT ![t] = th] \/ Eb!Fail(t)
  BY EbRuns1 DEF Eb!Dropped, EbStays, Eb!SessionKeep
<1>2. old \in EbRuns /\ ebBus \in EbBuses /\ ~EbWorks(old) /\ ~EbSends(old) /\ old.step \in {"work", "send"}
  BY <1>1 DEF EbTyped, EbFollows, EbShut, EbWorks, EbSends
<1>3. CASE Eb!Fail(t)
  BY <1>1, <1>2, <1>3, EbFails
<1>4. CASE ebThread' = [ebThread EXCEPT ![t] = th]
  <2>1. t = "write" => EbWriter(old, ebPad, ebLast, ebHeld, ebBlur, ebEdited)
    BY DEF EbFollows
  <2>2. b \in EbRecs \cup {None} /\ (t = "read" => b = Eb!Nothing)
    BY EbNothing
  <2>3. n \in Nat
    BY <1>2 DEF EbRuns
  <2>4. ~EbSends(ebThread[t])
    BY <1>2
  <2> HIDE DEF old, b, n
  <2>5. th = [step |-> "enter", buf |-> b, todo |-> Eb!Pieces, rec |-> old.rec, detached |-> FALSE, lost |-> FALSE,
              tries |-> n]
    BY EbRunIs
  <2> HIDE DEF th
  <2>6. /\ th \in EbRuns /\ th.step = "enter" /\ th.buf = b /\ th.todo = Eb!Pieces /\ th.rec = old.rec /\ ~th.lost
    BY <1>2, <2>2, <2>3, <2>5 DEF EbRuns, EbSteps
  <2>7. EbShut(ebBus', ebPad, t, th) /\ (t = "read" => EbReader(th, ebPad))
    BY <2>2, <2>6 DEF EbShut, EbReader, EbWorks
  <2>8. t = "write" => EbWriter(th, ebPad, ebLast, ebHeld, ebBlur, ebEdited)
    BY <1>2, <2>1, <2>6 DEF EbWriter, EbSends
  <2>9. \A u \in Eb!Threads : u # t /\ EbWorks(ebThread[u]) => ebBus'.claim = u
    BY <1>1 DEF EbFollows, EbShut
  <2>10. ebBus' \in EbBuses
    BY <1>1, <1>2
  <2>11. QED BY <1>1, <1>4, <2>4, <2>6, <2>7, <2>8, <2>9, <2>10, EbMoves
<1>5. QED BY <1>1, <1>3, <1>4

-----------------------------------------------------------------------------

\* The chunk that is next is one of those to do.
LEMMA EbNextChunk ==
    ASSUME NEW t, NEW todo \in SUBSET Eb!Pieces, ebThread[t].todo = todo, todo # {}
    PROVE  \E i, j \in {1, 2} : Eb!Upcoming(t) = <<i, j>> /\ <<i, j>> \in todo
<1> DEFINE Before(p, q) == p[1] < q[1] \/ (p[1] = q[1] /\ p[2] <= q[2])
           up == CHOOSE p \in todo : \A q \in todo : Before(p, q)
<1>1. up = Eb!Upcoming(t)
  BY DEF Eb!Upcoming
<1>2. ASSUME NEW q \in todo PROVE \E i, j \in {1, 2} : q = <<i, j>>
  BY EbPieces
<1>3. \A i, j, k, l \in {1, 2} : Before(<<i, j>>, <<k, l>>) <=> (i < k \/ (i = k /\ j <= l))
  OBVIOUS
<1> HIDE DEF Before
<1>4. ASSUME NEW i \in {1, 2}, NEW j \in {1, 2}, <<i, j>> \in todo,
             \A k, l \in {1, 2} : <<k, l>> \in todo => i < k \/ (i = k /\ j <= l)
      PROVE  \E p \in todo : \A q \in todo : Before(p, q)
  <2>1. ASSUME NEW q \in todo PROVE Before(<<i, j>>, q)
    <3>1. PICK k, l \in {1, 2} : q = <<k, l>>
      BY <1>2
    <3>2. QED BY <1>3, <1>4, <3>1
  <2>2. QED BY <1>4, <2>1
<1>5. \E p \in todo : \A q \in todo : Before(p, q)
  <2>1. CASE <<1, 1>> \in todo
    BY <1>4, <2>1
  <2>2. CASE <<1, 1>> \notin todo /\ <<1, 2>> \in todo
    BY <1>4, <2>2
  <2>3. CASE <<1, 1>> \notin todo /\ <<1, 2>> \notin todo /\ <<2, 1>> \in todo
    BY <1>4, <2>3
  <2>4. CASE <<1, 1>> \notin todo /\ <<1, 2>> \notin todo /\ <<2, 1>> \notin todo
    <3>1. <<2, 2>> \in todo
      <4>1. PICK q \in todo : TRUE
        OBVIOUS
      <4>2. QED BY <1>2, <2>4, <4>1
    <3>2. QED BY <1>4, <2>4, <3>1
  <2>5. QED BY <2>1, <2>2, <2>3, <2>4
<1>6. up \in todo
  BY <1>5
<1> HIDE DEF up
<1>7. PICK i, j \in {1, 2} : up = <<i, j>>
  BY <1>2, <1>6
<1>8. QED BY <1>1, <1>6, <1>7

LEMMA EbReadsChunk ==
    ASSUME EbTyped, EbFollows, Eb!ReadChunk
    PROVE  EbTyped' /\ EbFollows'
<1> DEFINE old == ebThread["read"]  todo == old.todo  p == Eb!Upcoming("read")  rest == todo \ {p}
           b == [old.buf EXCEPT ![p[1]][p[2]] = ebPad.live[p[1]][p[2]]]
           got == EbRun(old, [todo |-> rest, buf |-> b])  missed == EbRun(old, [todo |-> rest])
<1>1. "read" \in Eb!Threads /\ old \in EbRuns /\ ebBus \in EbBuses /\ ebPad \in EbPads
  BY EbThreads DEF EbTyped
<1>2. /\ old.step = "work" /\ todo # {} /\ ~old.lost /\ EbStays /\ ebBus' = ebBus
      /\ \/ ebThread' = [ebThread EXCEPT !["read"] = got]
         \/ ebThread' = [ebThread EXCEPT !["read"] = missed]
  <2>1. \/ Eb!Step("read", [todo |-> rest, buf |-> b])
        \/ Eb!Step("read", [todo |-> rest])
    BY DEF Eb!ReadChunk
  <2>2. QED BY <2>1, EbRuns1 DEF Eb!ReadChunk, EbStays
<1>3. /\ EbWorks(old) /\ old.buf \in EbRecs /\ EbShut(ebBus, ebPad, "read", old)
      /\ \A i, j \in {1, 2} : <<i, j>> \notin todo => old.buf[i][j] \in {ebPad.live[i][j], Eb!Unread}
      /\ \A i, j \in {1, 2} : <<i, j>> \in todo => old.buf[i][j] = Eb!Unread
  BY <1>1, <1>2 DEF EbFollows, EbReader, EbWorks
<1>4. todo \in SUBSET Eb!Pieces
  BY <1>1 DEF EbRuns
<1>5. PICK i, j \in {1, 2} : p = <<i, j>> /\ <<i, j>> \in todo
  BY <1>2, <1>4, EbNextChunk
<1> HIDE DEF todo, p
<1>6. p[1] = i /\ p[2] = j /\ rest \in SUBSET Eb!Pieces
  BY <1>4, <1>5
<1>7. ebPad.live \in EbRecs /\ ebPad.live[i][j] \in EbChunks
  BY <1>1 DEF EbPads, EbRecs, EbProfiles
<1> DEFINE v == ebPad.live[i][j]  row == [old.buf[i] EXCEPT ![j] = v]  c == [old.buf EXCEPT ![i] = row]
<1>8. b = c
  BY <1>6
<1>9. row \in EbProfiles /\ \A l \in {1, 2} : row[l] = IF l = j THEN v ELSE old.buf[i][l]
  BY <1>3, <1>7 DEF EbRecs, EbProfiles
<1> HIDE DEF row, v
<1>10. c \in EbRecs /\ \A k \in {1, 2} : c[k] = IF k = i THEN row ELSE old.buf[k]
  BY <1>3, <1>9 DEF EbRecs
<1> HIDE DEF c, b
<1>11. \A k, l \in {1, 2} : c[k][l] = IF k = i /\ l = j THEN v ELSE old.buf[k][l]
  BY <1>9, <1>10
<1>12. \A k, l \in {1, 2} : <<k, l>> \in rest <=> <<k, l>> \in todo /\ ~(k = i /\ l = j)
  BY <1>5
<1> HIDE DEF rest
<1>13. ASSUME NEW th \in EbRuns, th.step = "work", ~th.lost, th.todo = rest, th.buf \in {c, old.buf},
              ebThread' = [ebThread EXCEPT !["read"] = th]
       PROVE  EbTyped' /\ EbFollows'
  <2>1. EbReader(th, ebPad)
    <3>1. th.buf \in EbRecs
      BY <1>3, <1>10, <1>13
    <3>2. ASSUME NEW k \in {1, 2}, NEW l \in {1, 2}, <<k, l>> \notin rest
          PROVE  th.buf[k][l] \in {ebPad.live[k][l], Eb!Unread}
      BY <1>3, <1>5, <1>11, <1>12, <1>13, <3>2 DEF v
    <3>3. ASSUME NEW k \in {1, 2}, NEW l \in {1, 2}, <<k, l>> \in rest
          PROVE  th.buf[k][l] = Eb!Unread
      BY <1>3, <1>11, <1>12, <1>13, <3>3
    <3>4. QED BY <1>13, <3>1, <3>2, <3>3 DEF EbReader
  <2>2. EbShut(ebBus', ebPad, "read", th)
    BY <1>2, <1>3, <1>13 DEF EbShut, EbWorks
  <2>3. \A u \in Eb!Threads : u # "read" /\ EbWorks(ebThread[u]) => ebBus'.claim = u
    BY <1>2 DEF EbFollows, EbShut
  <2>4. ebBus' \in EbBuses
    BY <1>1, <1>2
  <2>5. QED BY <1>1, <1>2, <1>13, <2>1, <2>2, <2>3, <2>4, EbMoves
<1> HIDE DEF old
<1>14. CASE ebThread' = [ebThread EXCEPT !["read"] = got]
  <2>1. got = [step |-> old.step, buf |-> b, todo |-> rest, rec |-> old.rec, detached |-> old.detached,
               lost |-> old.lost, tries |-> old.tries]
    BY EbRunIs
  <2> HIDE DEF got
  <2>2. got \in EbRuns /\ got.step = "work" /\ ~got.lost /\ got.todo = rest /\ got.buf = c
    BY <1>1, <1>2, <1>6, <1>8, <1>10, <2>1 DEF EbRuns
  <2>3. QED BY <1>13, <1>14, <2>2
<1>15. CASE ebThread' = [ebThread EXCEPT !["read"] = missed]
  <2>1. missed = [step |-> old.step, buf |-> old.buf, todo |-> rest, rec |-> old.rec, detached |-> old.detached,
                  lost |-> old.lost, tries |-> old.tries]
    BY EbRunIs
  <2> HIDE DEF missed
  <2>2. missed \in EbRuns /\ missed.step = "work" /\ ~missed.lost /\ missed.todo = rest /\ missed.buf = old.buf
    BY <1>1, <1>2, <1>6, <2>1 DEF EbRuns
  <2>3. QED BY <1>13, <1>15, <2>2
<1>16. QED BY <1>2, <1>14, <1>15

\* A record that was received whole is the one that is stored.
LEMMA EbReceived ==
    ASSUME EbTyped, EbFollows, EbWorks(ebThread["read"]), ebThread["read"].todo = {}, ebThread["write"].step = "off",
           \A i, j \in {1, 2} : ebThread["read"].buf[i][j] # Eb!Unread
    PROVE  ebThread["read"].buf = ebPad.kept
<1> DEFINE b == ebThread["read"].buf  live == ebPad.live
<1>1. ebPad.here
  BY EbThreads DEF EbFollows, EbShut
<1>2. live = ebPad.kept
  BY <1>1 DEF EbFollows, EbStored, EbSends
<1>3. b \in EbRecs /\ \A i, j \in {1, 2} : b[i][j] \in {live[i][j], Eb!Unread}
  BY DEF EbFollows, EbReader
<1>4. live \in EbRecs
  BY DEF EbTyped, EbPads
<1>5. \A i, j \in {1, 2} : b[i][j] = live[i][j]
  BY <1>3
<1> HIDE DEF b, live
<1>6. ASSUME NEW i \in {1, 2} PROVE b[i] = live[i]
  <2>1. b[i] \in EbProfiles /\ live[i] \in EbProfiles
    BY <1>3, <1>4 DEF EbRecs
  <2>2. QED BY <1>5, <2>1 DEF EbProfiles
<1>7. b = live
  BY <1>3, <1>4, <1>6 DEF EbRecs
<1>8. QED BY <1>2, <1>7 DEF b

LEMMA EbBlurs ==
    ASSUME NEW b, ebLink \in {"usb", "ble"}, Eb!Complete(b),
           ~(ebLink = "ble" /\ \E p \in Eb!Pieces : b[p[1]][p[2]] = Eb!Unread)
    PROVE  \A i, j \in {1, 2} : b[i][j] # Eb!Unread
<1>1. \A p \in Eb!Pieces : b[p[1]][p[2]] # Eb!Unread
  BY DEF Eb!Complete
<1>2. ASSUME NEW i \in {1, 2}, NEW j \in {1, 2} PROVE b[i][j] # Eb!Unread
  <2> DEFINE p == <<i, j>>
  <2>1. p \in Eb!Pieces /\ p[1] = i /\ p[2] = j
    BY EbPieces
  <2> HIDE DEF p
  <2>2. QED BY <1>1, <2>1
<1>3. QED BY <1>2

LEMMA EbEndsRead ==
    ASSUME EbTyped, EbFollows, Eb!EndRead
    PROVE  EbTyped' /\ EbFollows'
<1> DEFINE old == ebThread["read"]  b == old.buf  th == Eb!Idle  d == ebBus.driver \/ old.detached
           w == ebThread["write"]
           unread == ebLink = "ble" /\ \E p \in Eb!Pieces : b[p[1]][p[2]] = Eb!Unread
<1>1. /\ old.step = "work" /\ old.todo = {} /\ ~old.lost
      /\ ebThread' = [ebThread EXCEPT !["read"] = th] /\ ebBus' = [driver |-> d, claim |-> None]
      /\ UNCHANGED <<ebLink, ebPad, ebDirty, ebLast, ebEdited>>
      /\ IF Eb!Complete(b) THEN ebHeld' = b /\ ebSlot' = 1 /\ ebBlur' = (ebBlur \/ w.step # "off" \/ unread)
         ELSE UNCHANGED <<ebHeld, ebSlot, ebBlur>>
  BY DEF Eb!EndRead, Eb!Fail, Eb!Left
<1>2. "read" \in Eb!Threads /\ "write" \in Eb!Threads /\ old \in EbRuns /\ ebBus \in EbBuses
  BY EbThreads DEF EbTyped
<1>3. EbWorks(old) /\ b \in EbRecs
  BY <1>1 DEF EbFollows, EbReader, EbWorks
<1>4. ~EbWorks(w)
  BY <1>2, <1>3 DEF EbFollows, EbShut
<1>5. th \in EbRuns /\ th.step = "off" /\ ~th.lost
  BY EbIdle
<1>6. ebBus' \in EbBuses
  BY <1>1, <1>2 DEF EbBuses, EbRuns
<1> HIDE DEF th
<1>7. ebThread'["read"] = th /\ ebThread'["write"] = w /\ ebThread' \in [Eb!Threads -> EbRuns]
  BY <1>1, <1>2, <1>5 DEF EbTyped
<1>8. unread \in BOOLEAN
  OBVIOUS
<1>9. CASE Eb!Complete(b)
  <2>1. /\ ebHeld' = b /\ ebSlot' = 1 /\ ebBlur' = (ebBlur \/ w.step # "off" \/ unread)
    BY <1>1, <1>9
  <2>2. ~ebBlur' => ~ebBlur /\ w.step = "off" /\ b = ebPad.kept
    <3> SUFFICES ASSUME ~ebBlur' PROVE ~ebBlur /\ w.step = "off" /\ b = ebPad.kept
      OBVIOUS
    <3>1. ~ebBlur /\ w.step = "off" /\ ~unread
      BY <2>1
    <3>2. \A i, j \in {1, 2} : b[i][j] # Eb!Unread
      BY <1>9, <3>1, EbBlurs DEF EbTyped
    <3>3. QED BY <1>1, <1>3, <3>1, <3>2, EbReceived
  <2> HIDE DEF b, w, unread, old
  <2>3. EbTyped'
    BY <1>1, <1>3, <1>6, <1>7, <1>8, <2>1 DEF EbTyped
  <2>4. \A t \in Eb!Threads : EbShut(ebBus', ebPad, t, ebThread'[t])
    BY <1>4, <1>5, <1>7, EbThreads DEF EbFollows, EbShut, EbWorks, w
  <2>5. EbReader(ebThread'["read"], ebPad)
    BY <1>5, <1>7 DEF EbReader, EbWorks
  <2>6. EbWriter(w, ebPad, ebLast, b, ebBlur', ebEdited)
    BY <2>2 DEF EbFollows, EbWriter, w
  <2>7. EbKeeps(ebPad, ebLast, b, ebDirty, ebBlur', ebEdited)
    BY <2>2 DEF EbFollows, EbKeeps
  <2>8. EbFollows'
    BY <1>1, <1>7, <2>1, <2>4, <2>5, <2>6, <2>7 DEF EbFollows, w
  <2>9. QED BY <2>3, <2>8
<1>10. CASE ~Eb!Complete(b)
  <2>1. UNCHANGED <<ebHeld, ebSlot, ebBlur>>
    BY <1>1, <1>10
  <2> HIDE DEF b, unread, old
  <2>2. EbShut(ebBus', ebPad, "read", th) /\ EbReader(th, ebPad)
    BY <1>5 DEF EbShut, EbReader, EbWorks
  <2>3. \A u \in Eb!Threads : u # "read" /\ EbWorks(ebThread[u]) => ebBus'.claim = u
    BY <1>4, EbThreads
  <2>4. EbStays
    BY <1>1, <2>1 DEF EbStays
  <2>5. QED BY <1>1, <1>2, <1>5, <1>6, <2>2, <2>3, <2>4, EbMoves
<1>11. QED BY <1>9, <1>10

-----------------------------------------------------------------------------
\* The save session.

\* A step of the writer at the controller: it has the interface, so the reader is not at the record.
LEMMA EbSaves1 ==
    ASSUME EbTyped, EbFollows, EbWorks(ebThread["write"]),
           NEW th \in EbRuns, ebThread' = [ebThread EXCEPT !["write"] = th],
           NEW pad \in EbPads, ebPad' = pad, pad.here = ebPad.here, pad.kept = ebPad.kept,
           EbSends(th), th.rec = ebThread["write"].rec,
           pad.save.open, pad.save.got = Eb!Pieces \ th.todo,
           \A i, j \in {1, 2} : <<i, j>> \notin th.todo => pad.live[i][j] = th.rec[i][j],
           UNCHANGED <<ebLink, ebBus, ebHeld, ebSlot, ebDirty, ebLast, ebBlur, ebEdited>>
    PROVE  EbTyped' /\ EbFollows'
<1> DEFINE w == ebThread["write"]  r == ebThread["read"]
<1>1. "read" \in Eb!Threads /\ "write" \in Eb!Threads /\ w \in EbRuns
  BY EbThreads DEF EbTyped
<1>2. ebBus.claim = "write" /\ ebPad.here /\ ~EbWorks(r)
  BY <1>1 DEF EbFollows, EbShut
<1>3. ebThread'["write"] = th /\ ebThread'["read"] = r /\ ebThread' \in [Eb!Threads -> EbRuns]
  BY <1>1 DEF EbTyped
<1>4. EbTyped'
  BY <1>3 DEF EbTyped
<1>5. \A t \in Eb!Threads : EbShut(ebBus, pad, t, ebThread'[t])
  BY <1>2, <1>3, EbThreads DEF EbFollows, EbShut, EbWorks, EbSends
<1>6. EbReader(r, pad)
  BY <1>2 DEF EbFollows, EbReader
<1>7. EbWriter(th, pad, ebLast, ebHeld, ebBlur, ebEdited)
  BY DEF EbFollows, EbWriter, EbWorks, EbSends
<1>8. EbStored(pad, th)
  BY DEF EbStored
<1>9. EbKeeps(pad, ebLast, ebHeld, ebDirty, ebBlur, ebEdited)
  BY DEF EbFollows, EbKeeps
<1>10. EbFollows'
  BY <1>3, <1>5, <1>6, <1>7, <1>8, <1>9 DEF EbFollows
<1>11. QED BY <1>4, <1>10

LEMMA EbOpensSave ==
    ASSUME EbTyped, EbFollows, Eb!OpenSave
    PROVE  EbTyped' /\ EbFollows'
<1> DEFINE old == ebThread["write"]  th == EbRun(old, [step |-> "send"])
           save == [open |-> TRUE, got |-> {}]  pad == [ebPad EXCEPT !.save = save]
<1>1. /\ old.step = "work" /\ ~old.lost /\ ebThread' = [ebThread EXCEPT !["write"] = th] /\ ebPad' = pad
      /\ UNCHANGED <<ebLink, ebBus, ebHeld, ebSlot, ebDirty, ebLast, ebBlur, ebEdited>>
  BY EbRuns1 DEF Eb!OpenSave, Eb!OpensSave, Eb!SessionKeep
<1>2. old \in EbRuns /\ ebPad \in EbPads
  BY EbThreads DEF EbTyped
<1>3. EbWorks(old) /\ old.todo = Eb!Pieces
  BY <1>1 DEF EbFollows, EbWriter, EbWorks
<1> HIDE DEF old
<1>4. th = [step |-> "send", buf |-> old.buf, todo |-> old.todo, rec |-> old.rec, detached |-> old.detached,
            lost |-> old.lost, tries |-> old.tries]
  BY EbRunIs
<1> HIDE DEF th
<1>5. th \in EbRuns /\ EbSends(th) /\ th.todo = Eb!Pieces /\ th.rec = old.rec
  BY <1>1, <1>2, <1>3, <1>4 DEF EbRuns, EbSteps, EbSends
<1>6. save \in EbSaves /\ save.open /\ save.got = {}
  BY DEF EbSaves
<1> HIDE DEF save
<1>7. pad \in EbPads /\ pad.here = ebPad.here /\ pad.kept = ebPad.kept /\ pad.save = save
  BY <1>2, <1>6 DEF EbPads
<1> HIDE DEF pad
<1>8. pad.save.got = Eb!Pieces \ th.todo
  BY <1>5, <1>6, <1>7
<1>9. \A i, j \in {1, 2} : <<i, j>> \in th.todo
  BY <1>5, EbPieces
<1>10. QED BY <1>1, <1>3, <1>5, <1>6, <1>7, <1>8, <1>9, EbSaves1 DEF old

LEMMA EbWritesChunk ==
    ASSUME EbTyped, EbFollows, Eb!WriteChunk
    PROVE  EbTyped' /\ EbFollows'
<1> DEFINE old == ebThread["write"]  todo == old.todo  p == Eb!Upcoming("write")  rest == todo \ {p}
           th == EbRun(old, [todo |-> rest])
<1>1. /\ old.step = "send" /\ todo # {} /\ ~old.lost /\ ebThread' = [ebThread EXCEPT !["write"] = th]
      /\ ebPad' = [ebPad EXCEPT !.live[p[1]][p[2]] = old.rec[p[1]][p[2]], !.save.got = ebPad.save.got \cup {p}]
      /\ UNCHANGED <<ebLink, ebBus, ebHeld, ebSlot, ebDirty, ebLast, ebBlur, ebEdited>>
  BY EbRuns1 DEF Eb!WriteChunk, Eb!SessionKeep
<1>2. old \in EbRuns /\ ebPad \in EbPads
  BY EbThreads DEF EbTyped
<1>3. /\ EbWorks(old) /\ old.rec \in EbRecs
      /\ ebPad.save.open /\ ebPad.save.got = Eb!Pieces \ todo
      /\ \A i, j \in {1, 2} : <<i, j>> \notin todo => ebPad.live[i][j] = old.rec[i][j]
  BY <1>1 DEF EbFollows, EbWriter, EbWorks, EbSends
<1>4. todo \in SUBSET Eb!Pieces
  BY <1>2 DEF EbRuns
<1>5. PICK i, j \in {1, 2} : p = <<i, j>> /\ <<i, j>> \in todo
  BY <1>1, <1>4, EbNextChunk
<1> HIDE DEF todo, p
<1>6. p[1] = i /\ p[2] = j /\ rest \in SUBSET Eb!Pieces
  BY <1>4, <1>5
<1> DEFINE v == old.rec[i][j]  row == [ebPad.live[i] EXCEPT ![j] = v]  live == [ebPad.live EXCEPT ![i] = row]
           got == ebPad.save.got \cup {p}  save == [ebPad.save EXCEPT !.got = got]
           pad == [ebPad EXCEPT !.live = live, !.save = save]
<1>7. ebPad' = pad
  BY <1>1, <1>6
<1>8. v \in EbChunks /\ ebPad.live \in EbRecs /\ ebPad.save \in EbSaves
  BY <1>2, <1>3 DEF EbRecs, EbProfiles, EbPads
<1>9. got = Eb!Pieces \ rest /\ got \in SUBSET Eb!Pieces
  BY <1>3, <1>4, <1>5
<1>10. \A k, l \in {1, 2} : <<k, l>> \in rest <=> <<k, l>> \in todo /\ ~(k = i /\ l = j)
  BY <1>5
<1> HIDE DEF old, rest, got
<1>11. th = [step |-> old.step, buf |-> old.buf, todo |-> rest, rec |-> old.rec, detached |-> old.detached,
             lost |-> old.lost, tries |-> old.tries]
  BY EbRunIs
<1> HIDE DEF th
<1>12. th \in EbRuns /\ EbSends(th) /\ th.todo = rest /\ th.rec = old.rec
  BY <1>1, <1>2, <1>6, <1>11 DEF EbRuns, EbSends
<1>13. row \in EbProfiles /\ \A l \in {1, 2} : row[l] = IF l = j THEN v ELSE ebPad.live[i][l]
  BY <1>8 DEF EbRecs, EbProfiles
<1>14. v = old.rec[i][j]
  OBVIOUS
<1> HIDE DEF row, v
<1>15. live \in EbRecs /\ \A k \in {1, 2} : live[k] = IF k = i THEN row ELSE ebPad.live[k]
  BY <1>8, <1>13 DEF EbRecs
<1> HIDE DEF live
<1>16. save \in EbSaves /\ save.got = got /\ save.open
  BY <1>3, <1>8, <1>9 DEF EbSaves
<1> HIDE DEF save
<1>17. pad \in EbPads /\ pad.here = ebPad.here /\ pad.kept = ebPad.kept /\ pad.live = live /\ pad.save = save
  BY <1>2, <1>15, <1>16 DEF EbPads
<1> HIDE DEF pad
<1>18. \A k, l \in {1, 2} : <<k, l>> \notin th.todo => pad.live[k][l] = th.rec[k][l]
  BY <1>3, <1>10, <1>12, <1>13, <1>14, <1>15, <1>17
<1>19. pad.save.open /\ pad.save.got = Eb!Pieces \ th.todo
  BY <1>9, <1>12, <1>16, <1>17
<1>20. EbWorks(ebThread["write"]) /\ th.rec = ebThread["write"].rec /\ ebThread' = [ebThread EXCEPT !["write"] = th]
  BY <1>1, <1>3, <1>12 DEF old
<1>21. QED BY <1>1, <1>7, <1>12, <1>17, <1>18, <1>19, <1>20, EbSaves1

\* Two records with the same chunks are the same.
LEMMA EbSame ==
    ASSUME NEW b \in EbRecs, NEW c \in EbRecs, \A i, j \in {1, 2} : b[i][j] = c[i][j]
    PROVE  b = c
<1>1. ASSUME NEW i \in {1, 2} PROVE b[i] = c[i]
  <2>1. b[i] \in EbProfiles /\ c[i] \in EbProfiles
    BY DEF EbRecs
  <2>2. QED BY <2>1 DEF EbProfiles
<1>2. QED BY <1>1 DEF EbRecs

LEMMA EbFinalizes ==
    ASSUME EbTyped, EbFollows, Eb!Finalize
    PROVE  EbTyped' /\ EbFollows'
<1> DEFINE old == ebThread["write"]  r == ebThread["read"]  th == Eb!Idle  kept == Eb!Stores(ebPad)  save == Eb!NoSave
           pad == [ebPad EXCEPT !.kept = kept, !.save = save]  d == ebBus.driver \/ old.detached
           bus == [driver |-> d, claim |-> None]  last == [ebLast EXCEPT !.ok = TRUE]
<1>1. /\ old.step = "send" /\ old.todo = {} /\ ~old.lost /\ ebThread' = [ebThread EXCEPT !["write"] = th]
      /\ ebPad' = pad /\ ebBus' = bus /\ ebLast' = last /\ ebDirty' = FALSE
      /\ UNCHANGED <<ebLink, ebHeld, ebSlot, ebBlur, ebEdited>>
  BY DEF Eb!Finalize, Eb!SessionKeep, Eb!Fail, Eb!Left
<1>2. old \in EbRuns /\ ebPad \in EbPads /\ ebBus \in EbBuses /\ "read" \in Eb!Threads /\ "write" \in Eb!Threads
  BY EbThreads DEF EbTyped
<1>3. /\ EbWorks(old) /\ old.rec \in EbRecs /\ ebLast \in EbLasts /\ ebLast.rec = old.rec
      /\ ~ebBlur => ebHeld = old.rec /\ \A s \in {1, 2} \ ebEdited.slots : old.rec[s] = ebEdited.was[s]
      /\ ebPad.save.open /\ ebPad.save.got = Eb!Pieces
      /\ \A i, j \in {1, 2} : ebPad.live[i][j] = old.rec[i][j]
  BY <1>1 DEF EbFollows, EbWriter, EbWorks, EbSends
<1>4. ebPad.live \in EbRecs
  BY <1>2 DEF EbPads
<1>5. ebPad.live = old.rec
  BY <1>3, <1>4, EbSame
<1>6. kept = old.rec
  BY <1>3, <1>5 DEF Eb!Stores
<1>7. ~EbWorks(r)
  BY <1>2, <1>3 DEF EbFollows, EbShut
<1>8. bus \in EbBuses
  BY <1>2 DEF EbBuses, EbRuns
<1>9. save \in EbSaves
  BY DEF EbSaves, Eb!NoSave
<1>10. th \in EbRuns /\ th.step = "off" /\ ~th.lost
  BY EbIdle
<1> HIDE DEF kept, save, th, bus, old
<1>11. pad \in EbPads /\ pad.here = ebPad.here /\ pad.kept = old.rec /\ pad.live = old.rec
  BY <1>2, <1>3, <1>5, <1>6, <1>9 DEF EbPads
<1>12. last \in EbLasts /\ last.rec = old.rec /\ last.ok
  BY <1>3 DEF EbLasts
<1> HIDE DEF pad, last
<1>13. ebThread'["write"] = th /\ ebThread'["read"] = r /\ ebThread' \in [Eb!Threads -> EbRuns]
  BY <1>1, <1>2, <1>10 DEF EbTyped
<1>14. EbTyped'
  BY <1>1, <1>8, <1>11, <1>12, <1>13 DEF EbTyped
<1>15. \A t \in Eb!Threads : EbShut(bus, pad, t, ebThread'[t])
  BY <1>7, <1>10, <1>13, EbThreads DEF EbFollows, EbShut, EbWorks
<1>16. EbReader(r, pad)
  BY <1>7 DEF EbFollows, EbReader
<1>17. EbWriter(th, pad, last, ebHeld, ebBlur, ebEdited)
  BY <1>10 DEF EbWriter, EbSends
<1>18. EbStored(pad, th)
  BY <1>11 DEF EbStored
<1>19. EbKeeps(pad, last, ebHeld, FALSE, ebBlur, ebEdited)
  BY <1>3, <1>11, <1>12 DEF EbKeeps
<1>20. EbFollows'
  BY <1>1, <1>13, <1>15, <1>16, <1>17, <1>18, <1>19 DEF EbFollows
<1>21. QED BY <1>14, <1>20

-----------------------------------------------------------------------------
\* The cable.

LEMMA EbUnplugs ==
    ASSUME EbTyped, EbFollows, Eb!Unplug
    PROVE  EbTyped' /\ EbFollows'
<1> DEFINE save == Eb!NoSave  pad == [ebPad EXCEPT !.here = FALSE, !.save = save]
           bus == [driver |-> FALSE, claim |-> None]
           n(t) == [ebThread[t] EXCEPT !.lost = ebThread[t].step \in {"work", "send"}]
           r == ebThread["read"]  w == ebThread["write"]
<1>1. /\ ebPad' = pad /\ ebBus' = bus /\ ebThread' = [t \in Eb!Threads |-> n(t)]
      /\ UNCHANGED <<ebLink, ebHeld, ebSlot, ebDirty, ebLast, ebBlur, ebEdited>>
  BY DEF Eb!Unplug
<1>2. ebPad \in EbPads /\ "read" \in Eb!Threads /\ "write" \in Eb!Threads
  BY EbThreads DEF EbTyped
<1>3. save \in EbSaves
  BY DEF EbSaves, Eb!NoSave
<1> HIDE DEF save
<1>4. pad \in EbPads /\ ~pad.here /\ pad.kept = ebPad.kept
  BY <1>2, <1>3 DEF EbPads
<1> HIDE DEF pad
<1>5. bus \in EbBuses
  BY DEF EbBuses
<1> HIDE DEF bus
<1>6. ASSUME NEW t \in Eb!Threads
      PROVE  /\ n(t) \in EbRuns /\ n(t).step = ebThread[t].step /\ n(t).todo = ebThread[t].todo
             /\ n(t).buf = ebThread[t].buf /\ n(t).rec = ebThread[t].rec /\ ~EbWorks(n(t))
             /\ n(t).lost => n(t).step \in {"work", "send"}
  <2> DEFINE old == ebThread[t]  l == old.step \in {"work", "send"}
  <2>1. old \in EbRuns /\ l \in BOOLEAN
    BY DEF EbTyped
  <2>2. n(t) = [old EXCEPT !.lost = l]
    OBVIOUS
  <2>3. l => old.step \in {"work", "send"}
    OBVIOUS
  <2>4. ~l => old.step \notin {"work", "send"}
    OBVIOUS
  <2> HIDE DEF old, l, n
  <2>5. /\ n(t) \in EbRuns /\ n(t).step = old.step /\ n(t).todo = old.todo
        /\ n(t).buf = old.buf /\ n(t).rec = old.rec /\ n(t).lost = l
    BY <2>1, <2>2 DEF EbRuns
  <2>6. ~EbWorks(n(t)) /\ (n(t).lost => n(t).step \in {"work", "send"})
    BY <2>3, <2>4, <2>5 DEF EbWorks
  <2>7. QED BY <2>5, <2>6 DEF old
<1>7. ebThread' \in [Eb!Threads -> EbRuns] /\ \A t \in Eb!Threads : ebThread'[t] = n(t)
  BY <1>1, <1>6
<1> HIDE DEF n
<1>8. EbTyped'
  BY <1>1, <1>4, <1>5, <1>7 DEF EbTyped
<1>9. \A t \in Eb!Threads : EbShut(bus, pad, t, ebThread'[t])
  BY <1>6, <1>7 DEF EbShut
<1>10. EbReader(n("read"), pad)
  BY <1>2, <1>6 DEF EbFollows, EbReader
<1>11. EbWriter(n("write"), pad, ebLast, ebHeld, ebBlur, ebEdited)
  BY <1>2, <1>6 DEF EbFollows, EbWriter, EbSends, EbWorks
<1>12. EbStored(pad, n("write"))
  BY <1>4 DEF EbStored
<1>13. EbKeeps(pad, ebLast, ebHeld, ebDirty, ebBlur, ebEdited)
  BY <1>4 DEF EbFollows, EbKeeps
<1>14. EbFollows'
  BY <1>1, <1>2, <1>7, <1>9, <1>10, <1>11, <1>12, <1>13 DEF EbFollows
<1>15. QED BY <1>8, <1>14

\* Nobody is at the record of a controller that is not there.
LEMMA EbReplugs ==
    ASSUME EbTyped, EbFollows, Eb!Replug
    PROVE  EbTyped' /\ EbFollows'
<1> DEFINE pad == [ebPad EXCEPT !.here = TRUE, !.live = ebPad.kept]  bus == [ebBus EXCEPT !.driver = TRUE]
<1>1. /\ ~ebPad.here /\ ebPad' = pad /\ ebBus' = bus
      /\ UNCHANGED <<ebLink, ebHeld, ebSlot, ebDirty, ebThread, ebLast, ebBlur, ebEdited>>
  BY DEF Eb!Replug
<1>2. ebPad \in EbPads /\ ebBus \in EbBuses /\ "read" \in Eb!Threads /\ "write" \in Eb!Threads
  BY EbThreads DEF EbTyped
<1>3. pad \in EbPads /\ pad.here /\ pad.live = ebPad.kept /\ pad.kept = ebPad.kept
  BY <1>2 DEF EbPads
<1>4. bus \in EbBuses
  BY <1>2 DEF EbBuses
<1> HIDE DEF pad, bus
<1>5. \A t \in Eb!Threads : ~EbWorks(ebThread[t])
  BY <1>1 DEF EbFollows, EbShut
<1>6. EbTyped'
  BY <1>1, <1>3, <1>4 DEF EbTyped
<1>7. \A t \in Eb!Threads : EbShut(bus, pad, t, ebThread[t])
  BY <1>5 DEF EbFollows, EbShut
<1>8. EbReader(ebThread["read"], pad)
  BY <1>2, <1>5 DEF EbFollows, EbReader
<1>9. EbWriter(ebThread["write"], pad, ebLast, ebHeld, ebBlur, ebEdited)
  BY <1>2, <1>5 DEF EbFollows, EbWriter, EbSends, EbWorks
<1>10. EbStored(pad, ebThread["write"])
  BY <1>3 DEF EbStored
<1>11. EbKeeps(pad, ebLast, ebHeld, ebDirty, ebBlur, ebEdited)
  BY <1>3 DEF EbFollows, EbKeeps
<1>12. EbFollows'
  BY <1>1, <1>7, <1>8, <1>9, <1>10, <1>11 DEF EbFollows
<1>13. QED BY <1>6, <1>12

LEMMA EbCloses ==
    ASSUME EbTyped, EbFollows, Eb!Disconnect
    PROVE  EbTyped' /\ EbFollows'
<1>1. /\ ebHeld' = None /\ \A t \in Eb!Threads : ebThread[t].step = "off"
      /\ UNCHANGED <<ebLink, ebPad, ebBus, ebSlot, ebDirty, ebThread, ebLast, ebBlur, ebEdited>>
  BY DEF Eb!Disconnect
<1>2. "write" \in Eb!Threads
  BY EbThreads
<1>3. EbTyped'
  BY <1>1 DEF EbTyped
<1>4. EbWriter(ebThread["write"], ebPad, ebLast, None, ebBlur, ebEdited)
  BY <1>1, <1>2 DEF EbFollows, EbWriter, EbSends
<1>5. EbKeeps(ebPad, ebLast, None, ebDirty, ebBlur, ebEdited)
  BY DEF EbFollows, EbKeeps
<1>6. EbFollows'
  BY <1>1, <1>4, <1>5 DEF EbFollows
<1>7. QED BY <1>3, <1>6

EbNext == Eb!Next \/ UNCHANGED ebVars

LEMMA EbKept ==
    ASSUME EbTyped, EbFollows, EbNext
    PROVE  EbTyped' /\ EbFollows'
<1>1. CASE UNCHANGED ebVars
  <2>1. UNCHANGED <<ebLink, ebPad, ebBus, ebHeld, ebSlot, ebDirty, ebThread, ebLast, ebBlur, ebEdited>>
    BY <1>1 DEF ebVars
  <2>2. EbTyped'
    BY <2>1 DEF EbTyped
  <2>3. EbFollows'
    BY <2>1 DEF EbFollows
  <2>4. QED BY <2>2, <2>3
<1>2. CASE (\E s \in Eb!Slots : Eb!SelectProfile(s)) \/ (\E v \in Eb!Values : Eb!Edit(v)) \/ Eb!Reset \/ Eb!Delete
  BY <1>2, EbEditing
<1>3. ASSUME NEW t \in Eb!Threads, Eb!Detach(t) \/ Eb!Claim(t) \/ Eb!Dropped(t) PROVE EbTyped' /\ EbFollows'
  BY <1>3, EbDetaches, EbClaims, EbDrops
<1>4. CASE Eb!StartRead
  BY <1>4, EbStartsRead
<1>5. CASE Eb!StartSync
  BY <1>5, EbStartsSync
<1>6. CASE Eb!ReadChunk
  BY <1>6, EbReadsChunk
<1>7. CASE Eb!EndRead
  BY <1>7, EbEndsRead
<1>8. CASE Eb!OpenSave
  BY <1>8, EbOpensSave
<1>9. CASE Eb!WriteChunk
  BY <1>9, EbWritesChunk
<1>10. CASE Eb!Finalize
  BY <1>10, EbFinalizes
<1>11. CASE Eb!Unplug
  BY <1>11, EbUnplugs
<1>12. CASE Eb!Replug
  BY <1>12, EbReplugs
<1>13. CASE Eb!Disconnect
  BY <1>13, EbCloses
<1>14. QED BY <1>1, <1>2, <1>3, <1>4, <1>5, <1>6, <1>7, <1>8, <1>9, <1>10, <1>11, <1>12, <1>13 DEF EbNext, Eb!Next

-----------------------------------------------------------------------------
(* SecurityKey. *)

SkFlags == [{1, 2} -> BOOLEAN]
SkKeys == [here : BOOLEAN, link : BOOLEAN, pin : BOOLEAN, tries : 0..FullTries, creds : SUBSET Creds, slots : SkFlags,
           accts : SUBSET Accts, locked : BOOLEAN, apps : SUBSET Sk!Apps, touch : BOOLEAN, eject : {0, 1}, now : Nat]
SkSlotRows == [state : {"unread", "none", "read"}, of : SkFlags]
SkCodeRows == [state : {"unread", "failed", "locked", "codes"}, items : SUBSET Accts, at : Nat]
SkPages == [pin : BOOLEAN, tries : 0..FullTries, creds : (SUBSET Creds) \cup {None}, slots : SkSlotRows, codes : SkCodeRows,
            apps : SUBSET Sk!Apps]
SkTasks == [step : {"off", "settle", "load", "loop", "fetch"}, at : Nat]
SkArgs == Creds \cup {1, 2} \cup Accts \cup (SUBSET Sk!Apps) \cup {None, "touch", "time"}
SkOps == [kind : Sk!FidoKinds \cup Sk!YubiKinds \cup {"none"}, arg : SkArgs, guess : Sk!Guesses \cup {None},
          step : {"off", "run", "reread"}, spent : Nat]

SkTyped ==
    /\ skKey \in SkKeys /\ skRows \in SkPages /\ skTask \in SkTasks /\ skOp \in SkOps
    /\ skLock \in {None, "set", "task"}
    /\ skUp \in BOOLEAN /\ skBlind \in BOOLEAN
    /\ skOp.step # "off" /\ skOp.kind = "add" => skOp.arg \in Accts
    /\ skOp.step # "off" /\ skOp.kind = "toggle" => skOp.arg \subseteq Sk!Apps

SkReopens == {"refresh", "set_pin", "configure", "reset", "toggle", "eject"}
SkSlotKinds == {"program", "erase", "swap", "read_slots"}

\* The lock is of who uses it, and a device that is not connected has no task.
SkLocks(up, lock, task, op) ==
    /\ (op.step # "off") = (lock = "set")
    /\ (task.step \in {"load", "fetch"}) = (lock = "task")
    /\ ~up => task.step = "off"

\* A channel is to a key that can be opened again.
SkReaches(key, rows) == key.link => key.here /\ "FIDO2" \in key.apps /\ "FIDO2" \in rows.apps

\* What the rows say of a key that is connected and was not lost sight of, but for what a write will
\* read again.
SkTells(key, rows, op) ==
    /\ op.step = "reread" /\ op.kind \in SkReopens => key.link
    /\ ~(op.step = "reread" /\ op.kind \in {"set_pin", "reset"}) => rows.pin = key.pin
    /\ ~(op.step = "reread" /\ op.kind \in SkSlotKinds) /\ rows.slots.state = "read" => rows.slots.of = key.slots

SkSpends(op) == op.spent <= 1 /\ (op.step # "off" => op.spent = 0)

SkFollows ==
    /\ SkLocks(skUp, skLock, skTask, skOp) /\ SkReaches(skKey, skRows) /\ SkSpends(skOp)
    /\ skUp /\ ~skBlind => SkTells(skKey, skRows, skOp)

LEMMA SkTypedSuffices == SkTyped /\ SkFollows => Sk!TypeOK
BY DEF SkTyped, SkFollows, SkLocks, Sk!TypeOK, SkKeys, SkTasks

LEMMA SkSuffices ==
    ASSUME SkTyped, SkFollows
    PROVE  Sk!SlotsAreShown /\ Sk!PinRowIsTrue /\ Sk!AttemptsAreTheUsers
BY DEF SkTyped, SkFollows, SkTells, SkSpends, Sk!SlotsAreShown, Sk!PinRowIsTrue, Sk!AttemptsAreTheUsers, Sk!Programmable

LEMMA SkTwo == Sk!Slots = {1, 2}
BY DEF Sk!Slots

LEMMA SkFacts ==
    /\ Sk!NoOp \in SkOps /\ Sk!NoOp.step = "off" /\ Sk!NoOp.spent = 0
    /\ Sk!NoTask \in SkTasks /\ Sk!NoTask.step = "off"
    /\ Sk!NoSlots \in SkSlotRows /\ Sk!NoSlots.state = "unread"
    /\ Sk!NoCodes \in SkCodeRows /\ Sk!CodesFailed \in SkCodeRows
<1>1. Sk!NoOp \in SkOps /\ Sk!NoOp.step = "off" /\ Sk!NoOp.spent = 0
  <2>1. Sk!NoOp = [kind |-> "none", arg |-> None, guess |-> None, step |-> "off", spent |-> 0]
    BY DEF Sk!NoOp
  <2>2. None \in SkArgs
    BY DEF SkArgs
  <2> HIDE DEF SkArgs
  <2>3. QED BY <2>1, <2>2 DEF SkOps
<1>2. Sk!NoTask \in SkTasks /\ Sk!NoTask.step = "off"
  BY DEF Sk!NoTask, SkTasks
<1>3. Sk!NoSlots \in SkSlotRows /\ Sk!NoSlots.state = "unread"
  BY SkTwo DEF Sk!NoSlots, SkSlotRows, SkFlags
<1>4. Sk!NoCodes \in SkCodeRows /\ Sk!CodesFailed \in SkCodeRows
  BY DEF Sk!NoCodes, Sk!CodesFailed, SkCodeRows
<1>5. QED BY <1>1, <1>2, <1>3, <1>4

LEMMA SkInit == Sk!Init => SkTyped /\ SkFollows
<1> SUFFICES ASSUME Sk!Init PROVE SkTyped /\ SkFollows
  OBVIOUS
<1> DEFINE key(pin, creds, slots, accts, locked) ==
             [here |-> TRUE, link |-> FALSE, pin |-> pin, tries |-> FullTries, creds |-> creds, slots |-> slots,
              accts |-> accts, locked |-> locked, apps |-> Sk!Apps, touch |-> FALSE, eject |-> 0, now |-> 0]
<1>0. \E pin \in BOOLEAN, creds \in {{}, Creds}, slots \in [Sk!Slots -> BOOLEAN], accts \in {{}, Accts}, locked \in BOOLEAN :
        /\ IF skKind = "fido" THEN slots = [s \in Sk!Slots |-> FALSE] /\ accts = {} /\ ~locked
           ELSE ~pin /\ slots = [s \in Sk!Slots |-> s = 1] /\ (locked => accts # {})
        /\ creds # {} => pin
        /\ skKey = key(pin, creds, slots, accts, locked)
  BY DEF Sk!Init
<1>1. PICK pin \in BOOLEAN, creds \in {{}, Creds}, slots \in [Sk!Slots -> BOOLEAN], accts \in {{}, Accts}, locked \in BOOLEAN :
        skKey = key(pin, creds, slots, accts, locked)
  <2> HIDE DEF key, Sk!Init
  <2>1. QED BY <1>0
<1>2. skKey \in SkKeys /\ ~skKey.link
  <2>1. creds \in SUBSET Creds /\ accts \in SUBSET Accts /\ FullTries \in 0..FullTries /\ Sk!Apps \in SUBSET Sk!Apps
    BY TriesAssumption
  <2>2. slots \in SkFlags
    BY SkTwo DEF SkFlags
  <2> HIDE DEF Sk!Apps
  <2>3. QED BY <1>1, <2>1, <2>2 DEF SkKeys
<1>3. /\ skUp = FALSE /\ skLock = None /\ skTask = Sk!NoTask /\ skOp = Sk!NoOp /\ skBlind = FALSE
      /\ skRows = [pin |-> FALSE, tries |-> 0, creds |-> None, slots |-> Sk!NoSlots, codes |-> Sk!NoCodes, apps |-> {}]
  BY DEF Sk!Init
<1> HIDE DEF Sk!Init
<1>4. skRows \in SkPages
  BY <1>3, SkFacts, TriesAssumption DEF SkPages
<1>5. SkTyped
  BY <1>2, <1>3, <1>4, SkFacts DEF SkTyped
<1>6. SkFollows
  <2> DEFINE op == Sk!NoOp  task == Sk!NoTask
  <2>1. op.step = "off" /\ op.spent = 0 /\ task.step = "off"
    BY SkFacts
  <2> HIDE DEF op, task
  <2>2. SkLocks(FALSE, None, task, op)
    BY <2>1, SessionsAssumption DEF SkLocks
  <2>3. SkReaches(skKey, skRows) /\ SkSpends(op)
    BY <1>2, <2>1 DEF SkReaches, SkSpends
  <2>4. QED BY <1>3, <2>2, <2>3 DEF SkFollows, op, task
<1>7. QED BY <1>5, <1>6

LEMMA SkOpened ==
    ASSUME SkTyped, NEW rows \in SkPages
    PROVE  /\ Sk!Opened(rows) \in SkPages /\ Sk!Opened(rows).slots = rows.slots
           /\ Sk!Opened(rows).pin = skKey.pin /\ Sk!Opened(rows).apps = skKey.apps
<1>1. skKey.pin \in BOOLEAN /\ skKey.tries \in 0..FullTries /\ skKey.apps \in SUBSET Sk!Apps
  BY DEF SkTyped, SkKeys
<1>2. QED BY <1>1 DEF Sk!Opened, SkPages

LEMMA SkConnects ==
    ASSUME SkTyped, SkFollows, Sk!Connect
    PROVE  SkTyped' /\ SkFollows'
<1> DEFINE key == [skKey EXCEPT !.link = TRUE]  fresh == [skRows EXCEPT !.creds = None, !.slots = Sk!NoSlots, !.codes = Sk!NoCodes]
           rows == Sk!Opened(fresh)
<1>1. /\ ~skUp /\ skOp.step = "off" /\ skKey.here /\ "FIDO2" \in skKey.apps
      /\ skUp' = TRUE /\ skKey' = key /\ skRows' = rows /\ skBlind' = FALSE /\ UNCHANGED <<skLock, skOp>>
      /\ skTask' = Sk!NoTask \/ skTask' = [Sk!NoTask EXCEPT !.step = "settle"]
  BY DEF Sk!Connect, Sk!Reachable
<1>2. skKey \in SkKeys /\ skRows \in SkPages
  BY DEF SkTyped
<1>3. key \in SkKeys /\ key.link /\ key.here /\ key.apps = skKey.apps /\ key.pin = skKey.pin
  BY <1>1, <1>2 DEF SkKeys
<1>4. fresh \in SkPages /\ fresh.slots = Sk!NoSlots
  BY <1>2, SkFacts DEF SkPages
<1> HIDE DEF key, fresh
<1>5. rows \in SkPages /\ rows.slots.state = "unread" /\ rows.pin = key.pin /\ rows.apps = key.apps
  BY <1>3, <1>4, SkFacts, SkOpened
<1> HIDE DEF rows
<1>6. skTask' \in SkTasks /\ skTask'.step \in {"off", "settle"}
  BY <1>1, SkFacts DEF SkTasks
<1>7. SkTyped'
  BY <1>1, <1>3, <1>5, <1>6 DEF SkTyped
<1>8. SkLocks(TRUE, skLock, skTask', skOp)
  BY <1>1, <1>6 DEF SkFollows, SkLocks
<1>9. SkReaches(key, rows)
  BY <1>1, <1>3, <1>5 DEF SkReaches
<1>10. SkTells(key, rows, skOp)
  BY <1>1, <1>5 DEF SkTells
<1>11. SkFollows'
  BY <1>1, <1>8, <1>9, <1>10 DEF SkFollows
<1>12. QED BY <1>7, <1>11

LEMMA SkDisconnects ==
    ASSUME SkTyped, SkFollows, Sk!Disconnect
    PROVE  SkTyped' /\ SkFollows'
<1> DEFINE task == Sk!NoTask  lock == IF skLock = "task" THEN None ELSE skLock
<1>1. /\ skUp' = FALSE /\ skTask' = task /\ skLock' = lock /\ UNCHANGED <<skKey, skRows, skOp, skBlind>>
  BY DEF Sk!Disconnect
<1>2. task \in SkTasks /\ task.step = "off"
  BY SkFacts
<1> HIDE DEF task
<1>3. lock \in {None, "set", "task"} /\ lock # "task" /\ ((lock = "set") = (skLock = "set"))
  BY SessionsAssumption DEF SkTyped
<1> HIDE DEF lock
<1>4. SkTyped'
  BY <1>1, <1>2, <1>3 DEF SkTyped
<1>5. SkLocks(FALSE, lock, task, skOp)
  BY <1>2, <1>3 DEF SkFollows, SkLocks
<1>6. SkFollows'
  BY <1>1, <1>5 DEF SkFollows
<1>7. QED BY <1>4, <1>6

-----------------------------------------------------------------------------
\* The background task.

\* It takes the lock when nobody has it, or is over.
LEMMA SkStarts ==
    ASSUME SkTyped, SkFollows, Sk!StartLoad \/ Sk!StartFetch
    PROVE  SkTyped' /\ SkFollows'
<1>1. /\ skLock = None /\ skTask.step \in {"settle", "loop"} /\ UNCHANGED <<skKey, skUp, skRows, skOp, skBlind>>
      /\ \/ skLock' = "task" /\ (skTask' = [skTask EXCEPT !.step = "load"] \/ skTask' = [skTask EXCEPT !.step = "fetch"])
         \/ skTask' = Sk!NoTask /\ skLock' = skLock
  BY DEF Sk!StartLoad, Sk!StartFetch, Sk!TaskKeep
<1>2. skTask \in SkTasks
  BY DEF SkTyped
<1>3. /\ skTask' \in SkTasks
      /\ \/ skLock' = "task" /\ skTask'.step \in {"load", "fetch"}
         \/ skLock' = None /\ skTask'.step = "off"
  BY <1>1, <1>2, SkFacts DEF SkTasks
<1>4. SkTyped'
  BY <1>1, <1>3 DEF SkTyped
<1>5. SkLocks(skUp, skLock', skTask', skOp)
  BY <1>1, <1>3, SessionsAssumption DEF SkFollows, SkLocks
<1>6. SkFollows'
  BY <1>1, <1>5 DEF SkFollows
<1>7. QED BY <1>4, <1>6

LEMMA SkCodesRead ==
    ASSUME SkTyped, NEW pass, NEW codes \in Sk!CodeReads(pass)
    PROVE  codes \in SkCodeRows
<1>1. codes = Sk!CodesRead(pass) \/ codes = Sk!CodesFailed
  BY DEF Sk!CodeReads
<1>2. skKey.accts \in SUBSET Accts /\ skKey.now \in Nat
  BY DEF SkTyped, SkKeys
<1>3. Sk!CodesRead(pass) \in SkCodeRows
  <2>1. CASE Sk!CodesRead(pass) = Sk!CodesFailed
    BY <2>1, SkFacts
  <2>2. CASE Sk!CodesRead(pass) = [state |-> "locked", items |-> {}, at |-> 0]
    BY <2>2 DEF SkCodeRows
  <2>3. CASE Sk!CodesRead(pass) = [state |-> "codes", items |-> skKey.accts, at |-> IF skKey.accts = {} THEN 0 ELSE skKey.now]
    BY <1>2, <2>3 DEF SkCodeRows
  <2>4. QED BY <2>1, <2>2, <2>3 DEF Sk!CodesRead
<1>4. QED BY <1>1, <1>3, SkFacts

\* A read of the slots gives what the key holds, or leaves what was read and is noted as refused.
LEMMA SkSlotsRead ==
    ASSUME SkTyped, NEW read \in Sk!SlotReads(skRows)
    PROVE  /\ read.slots \in SkSlotRows /\ read.failed \in BOOLEAN
           /\ ~read.failed => read.slots.of = skKey.slots
<1> DEFINE now == [state |-> "read", of |-> skKey.slots]
           old == IF skRows.slots = Sk!NoSlots THEN [Sk!NoSlots EXCEPT !.state = "none"] ELSE skRows.slots
<1>1. read = [slots |-> now, failed |-> FALSE] \/ read = [slots |-> old, failed |-> TRUE]
  BY DEF Sk!SlotReads
<1>2. skKey.slots \in SkFlags /\ skRows.slots \in SkSlotRows
  BY DEF SkTyped, SkKeys, SkPages
<1>3. [Sk!NoSlots EXCEPT !.state = "none"] \in SkSlotRows
  BY SkFacts DEF SkSlotRows
<1>4. now \in SkSlotRows /\ now.of = skKey.slots
  BY <1>2 DEF SkSlotRows
<1>5. old \in SkSlotRows
  BY <1>2, <1>3
<1> HIDE DEF now, old
<1>6. CASE read = [slots |-> now, failed |-> FALSE]
  <2>1. read.slots = now /\ read.failed = FALSE
    BY <1>6
  <2>2. QED BY <1>4, <2>1
<1>7. CASE read = [slots |-> old, failed |-> TRUE]
  <2>1. read.slots = old /\ read.failed = TRUE
    BY <1>7
  <2>2. QED BY <1>5, <2>1
<1>8. QED BY <1>1, <1>6, <1>7

LEMMA SkOnward ==
    ASSUME NEW codes \in SkCodeRows
    PROVE  Sk!Onward(codes) \in SkTasks /\ Sk!Onward(codes).step \in {"off", "loop"}
<1>1. CASE Sk!Expiring(codes)
  <2>1. Sk!Onward(codes) = [step |-> "loop", at |-> codes.at]
    BY <1>1 DEF Sk!Onward
  <2>2. QED BY <2>1 DEF SkTasks, SkCodeRows
<1>2. CASE ~Sk!Expiring(codes)
  BY <1>2, SkFacts DEF Sk!Onward
<1>3. QED BY <1>1, <1>2

\* What the task read is on the page, and it gives the lock up.
LEMMA SkTaskReads ==
    ASSUME SkTyped, SkFollows, skTask.step \in {"load", "fetch"},
           NEW codes \in SkCodeRows, NEW slots \in SkSlotRows, NEW blind \in BOOLEAN,
           skRows' = [skRows EXCEPT !.slots = slots, !.codes = codes], skTask' = Sk!Onward(codes), skLock' = None,
           skBlind' = blind, skBlind => blind, ~blind => slots.of = skKey.slots \/ slots = skRows.slots,
           UNCHANGED <<skKey, skUp, skOp>>
    PROVE  SkTyped' /\ SkFollows'
<1> DEFINE rows == [skRows EXCEPT !.slots = slots, !.codes = codes]  task == Sk!Onward(codes)
<1>1. rows \in SkPages /\ rows.slots = slots /\ rows.pin = skRows.pin /\ rows.apps = skRows.apps
  BY DEF SkTyped, SkPages
<1>2. task \in SkTasks /\ task.step \in {"off", "loop"}
  BY SkOnward
<1> HIDE DEF rows, task
<1>3. skRows' = rows /\ skTask' = task
  BY DEF rows, task
<1>4. SkTyped'
  BY <1>1, <1>2, <1>3 DEF SkTyped
<1>5. skLock = "task" /\ skOp.step = "off" /\ skUp
  BY SessionsAssumption DEF SkFollows, SkLocks, SkTyped
<1>6. SkLocks(skUp, None, task, skOp)
  BY <1>2, <1>5, SessionsAssumption DEF SkLocks
<1>7. SkReaches(skKey, rows)
  BY <1>1 DEF SkFollows, SkReaches
<1>8. ~blind => SkTells(skKey, rows, skOp)
  BY <1>1, <1>5 DEF SkFollows, SkTells
<1>9. SkFollows'
  BY <1>3, <1>6, <1>7, <1>8 DEF SkFollows
<1>10. QED BY <1>4, <1>9

LEMMA SkLoads ==
    ASSUME SkTyped, SkFollows, Sk!Load
    PROVE  SkTyped' /\ SkFollows'
<1>1. PICK read \in (IF skRows.slots = Sk!NoSlots THEN Sk!SlotReads(skRows) ELSE {[slots |-> skRows.slots, failed |-> FALSE]}),
           codes \in (IF skRows.codes.state = "unread" THEN Sk!CodeReads(skPass) ELSE {skRows.codes}) :
        /\ skRows' = [skRows EXCEPT !.slots = read.slots, !.codes = codes]
        /\ skTask' = Sk!Onward(codes)
        /\ skBlind' = (skBlind \/ read.failed)
  BY DEF Sk!Load
<1>2. skTask.step = "load" /\ skLock' = None /\ UNCHANGED <<skKey, skUp, skOp>>
  BY DEF Sk!Load, Sk!TaskKeep
<1>3. skRows.slots \in SkSlotRows /\ skRows.codes \in SkCodeRows /\ skBlind \in BOOLEAN
  BY DEF SkTyped, SkPages
<1>4. codes \in SkCodeRows
  BY <1>3, SkCodesRead
<1>5. read.slots \in SkSlotRows /\ read.failed \in BOOLEAN /\ (~read.failed => read.slots.of = skKey.slots \/ read.slots = skRows.slots)
  <2>1. CASE skRows.slots = Sk!NoSlots
    BY <2>1, SkSlotsRead
  <2>2. CASE skRows.slots # Sk!NoSlots
    <3>1. read = [slots |-> skRows.slots, failed |-> FALSE]
      BY <2>2
    <3>2. read.slots = skRows.slots /\ read.failed = FALSE
      BY <3>1
    <3>3. QED BY <1>3, <3>2
  <2>3. QED BY <2>1, <2>2
<1> DEFINE blind == skBlind \/ read.failed
<1>6. blind \in BOOLEAN /\ skBlind' = blind /\ (skBlind => blind) /\ (~blind => ~read.failed)
  BY <1>1
<1> HIDE DEF blind
<1>7. QED BY <1>1, <1>2, <1>4, <1>5, <1>6, SkTaskReads

LEMMA SkFetches ==
    ASSUME SkTyped, SkFollows, Sk!Fetch
    PROVE  SkTyped' /\ SkFollows'
<1>1. PICK codes \in Sk!CodeReads(skPass) : skRows' = [skRows EXCEPT !.codes = codes] /\ skTask' = Sk!Onward(codes)
  BY DEF Sk!Fetch
<1>2. skTask.step = "fetch" /\ skLock' = None /\ UNCHANGED <<skKey, skUp, skOp, skBlind>>
  BY DEF Sk!Fetch, Sk!TaskKeep
<1>3. codes \in SkCodeRows
  BY SkCodesRead
<1>4. skRows.slots \in SkSlotRows /\ skBlind \in BOOLEAN /\ skRows \in SkPages
  BY DEF SkTyped, SkPages
<1>5. [skRows EXCEPT !.codes = codes] = [skRows EXCEPT !.slots = skRows.slots, !.codes = codes]
  BY <1>4 DEF SkPages
<1>6. QED BY <1>1, <1>2, <1>3, <1>4, <1>5, SkTaskReads

-----------------------------------------------------------------------------
\* Writes.

LEMMA SkOfferedArg ==
    ASSUME SkTyped, NEW kind \in Sk!FidoKinds \cup Sk!YubiKinds, NEW arg \in Sk!Offered(kind)
    PROVE  arg \in SkArgs /\ (kind = "add" => arg \in Accts) /\ (kind = "toggle" => arg \subseteq Sk!Apps)
<1>1. /\ skRows.creds \in (SUBSET Creds) \cup {None} /\ skRows.codes.items \in SUBSET Accts
      /\ skRows.apps \in SUBSET Sk!Apps
  BY DEF SkTyped, SkPages, SkCodeRows
<1>2. CASE kind \in {"refresh", "set_pin", "test", "configure", "reset", "show"}
  <2>1. arg = None
    BY <1>2 DEF Sk!Offered
  <2>2. QED BY <1>2, <2>1 DEF SkArgs
<1>3. CASE kind \in {"delete", "rename"}
  <2>1. arg \in Creds
    BY <1>1, <1>3 DEF Sk!Offered
  <2>2. QED BY <1>3, <2>1 DEF SkArgs
<1>4. CASE kind \in {"program", "erase"}
  <2>1. arg \in {1, 2}
    BY <1>4, SkTwo DEF Sk!Offered
  <2>2. QED BY <1>4, <2>1 DEF SkArgs
<1>5. CASE kind \in {"swap", "read_slots", "reread", "unlock"}
  <2>1. arg = None
    BY <1>5 DEF Sk!Offered
  <2>2. QED BY <1>5, <2>1 DEF SkArgs
<1>6. CASE kind \in {"add", "remove"}
  <2>1. arg \in Accts
    BY <1>1, <1>6 DEF Sk!Offered
  <2>2. QED BY <1>6, <2>1 DEF SkArgs
<1>7. CASE kind = "toggle"
  <2>1. arg \in {skRows.apps \ {app} : app \in skRows.apps} \cup {skRows.apps \cup {app} : app \in Sk!Apps \ skRows.apps}
    BY <1>7 DEF Sk!Offered
  <2>2. arg \in SUBSET Sk!Apps
    BY <1>1, <2>1
  <2>3. QED BY <1>7, <2>2 DEF SkArgs
<1>8. CASE kind = "eject"
  <2>1. arg \in {"touch", "time"}
    BY <1>8 DEF Sk!Offered
  <2>2. QED BY <1>8, <2>1 DEF SkArgs
<1>9. QED BY <1>2, <1>3, <1>4, <1>5, <1>6, <1>7, <1>8 DEF Sk!FidoKinds, Sk!YubiKinds

LEMMA SkStartsSet ==
    ASSUME SkTyped, SkFollows, NEW kind \in Sk!FidoKinds \cup Sk!YubiKinds, NEW guess \in Sk!Guesses,
           NEW arg \in Sk!Offered(kind), Sk!StartSet(kind, arg, guess)
    PROVE  SkTyped' /\ SkFollows'
<1> DEFINE op == [kind |-> kind, arg |-> arg, guess |-> guess, step |-> "run", spent |-> 0]
<1>1. /\ skOp.step = "off" /\ skLock = None /\ skOp' = op /\ skLock' = "set"
      /\ UNCHANGED <<skKey, skUp, skRows, skTask, skBlind>>
  BY DEF Sk!StartSet
<1>2. arg \in SkArgs /\ (kind = "add" => arg \in Accts) /\ (kind = "toggle" => arg \subseteq Sk!Apps)
  BY SkOfferedArg
<1>3. op.step = "run" /\ op.spent = 0 /\ op.kind = kind /\ op.arg = arg
  OBVIOUS
<1> HIDE DEF SkArgs
<1>4. op \in SkOps
  BY <1>2 DEF SkOps
<1> HIDE DEF op
<1>5. SkTyped'
  BY <1>1, <1>2, <1>3, <1>4 DEF SkTyped
<1>6. SkLocks(skUp, "set", skTask, op)
  BY <1>1, <1>3, SessionsAssumption DEF SkFollows, SkLocks
<1>7. SkSpends(op)
  BY <1>3 DEF SkSpends
<1>8. SkTells(skKey, skRows, skOp) => SkTells(skKey, skRows, op)
  BY <1>1, <1>3 DEF SkTells
<1>9. SkFollows'
  BY <1>1, <1>6, <1>7, <1>8 DEF SkFollows
<1>10. QED BY <1>5, <1>9

\* A step of a write: it goes on to read again, or is over.
SkGoes(op) ==
    \/ op.step = "off" /\ skLock' = None
    \/ op.step = "reread" /\ op.kind = skOp.kind /\ op.arg = skOp.arg /\ skLock' = skLock

LEMMA SkWriteGoes ==
    ASSUME SkTyped, SkFollows, skOp.step # "off",
           NEW key \in SkKeys, skKey' = key, NEW rows \in SkPages, skRows' = rows, NEW op \in SkOps, skOp' = op,
           NEW blind \in BOOLEAN, skBlind' = blind, UNCHANGED <<skUp, skTask>>,
           SkGoes(op), SkSpends(op), SkReaches(key, rows), skUp /\ ~blind => SkTells(key, rows, op)
    PROVE  SkTyped' /\ SkFollows'
<1>1. skLock = "set" /\ skTask.step \notin {"load", "fetch"}
  BY SessionsAssumption DEF SkFollows, SkLocks
<1>2. SkTyped'
  BY <1>1 DEF SkTyped, SkGoes
<1>3. SkLocks(skUp, skLock', skTask, op)
  BY <1>1, SessionsAssumption DEF SkFollows, SkLocks, SkGoes
<1>4. SkFollows'
  BY <1>3 DEF SkFollows
<1>5. QED BY <1>2, <1>4

LEMMA SkIsOver ==
    ASSUME SkTyped, SkFollows, skOp.step # "off", Sk!Over
    PROVE  skOp' \in SkOps /\ SkGoes(skOp') /\ SkSpends(skOp') /\ skOp'.step = "off"
<1> DEFINE op == [Sk!NoOp EXCEPT !.spent = skOp.spent]
<1>1. skOp' = op /\ skLock' = None
  BY DEF Sk!Over
<1>2. skOp.spent = 0
  BY DEF SkFollows, SkSpends
<1>3. op \in SkOps /\ op.step = "off" /\ op.spent = 0
  BY <1>2, SkFacts DEF SkOps
<1>4. QED BY <1>1, <1>3 DEF SkGoes, SkSpends

LEMMA SkProceeds ==
    ASSUME SkTyped, SkFollows, skOp.step # "off", Sk!Proceed
    PROVE  skOp' \in SkOps /\ SkGoes(skOp') /\ SkSpends(skOp') /\ skOp'.step = "reread" /\ skOp'.kind = skOp.kind
<1> DEFINE op == [skOp EXCEPT !.step = "reread"]
<1>1. skOp' = op /\ skLock' = skLock
  BY DEF Sk!Proceed
<1>2. skOp.spent = 0 /\ skOp \in SkOps
  BY DEF SkFollows, SkSpends, SkTyped
<1>3. op \in SkOps /\ op.step = "reread" /\ op.spent = 0 /\ op.kind = skOp.kind /\ op.arg = skOp.arg
  BY <1>2 DEF SkOps
<1>4. QED BY <1>1, <1>3 DEF SkGoes, SkSpends

LEMMA SkWrongPin ==
    ASSUME SkTyped, SkFollows, Sk!WrongPin
    PROVE  SkTyped' /\ SkFollows'
<1> DEFINE key == [skKey EXCEPT !.tries = skKey.tries - 1]  op == [Sk!NoOp EXCEPT !.spent = skOp.spent + 1]
<1>1. /\ skOp.step = "run" /\ skKey.tries > 0 /\ skKey' = key /\ skOp' = op /\ skLock' = None
      /\ UNCHANGED <<skRows, skBlind, skUp, skTask>>
  BY DEF Sk!WrongPin, Sk!Wrong, Sk!SetKeep
<1>2. skKey \in SkKeys /\ skRows \in SkPages /\ skBlind \in BOOLEAN
  BY DEF SkTyped
<1>3. skKey.tries \in 0..FullTries
  BY <1>2 DEF SkKeys
<1>4. skKey.tries - 1 \in 0..FullTries
  BY <1>1, <1>3, TriesAssumption
<1>5. /\ key \in SkKeys /\ key.link = skKey.link /\ key.here = skKey.here /\ key.apps = skKey.apps
      /\ key.pin = skKey.pin /\ key.slots = skKey.slots
  BY <1>2, <1>4 DEF SkKeys
<1>6. skOp.spent = 0
  BY <1>1 DEF SkFollows, SkSpends
<1>7. op \in SkOps /\ op.step = "off" /\ op.spent = 1
  BY <1>6, SkFacts DEF SkOps
<1> HIDE DEF key, op
<1>8. SkGoes(op) /\ SkSpends(op)
  BY <1>1, <1>7 DEF SkGoes, SkSpends
<1>9. SkReaches(key, skRows)
  BY <1>5 DEF SkFollows, SkReaches
<1>10. skUp /\ ~skBlind => SkTells(key, skRows, op)
  BY <1>1, <1>5, <1>7 DEF SkFollows, SkTells
<1>11. skOp.step # "off"
  BY <1>1
<1>12. QED BY <1>1, <1>2, <1>5, <1>7, <1>8, <1>9, <1>10, <1>11, SkWriteGoes

LEMMA SkFailsSet ==
    ASSUME SkTyped, SkFollows, Sk!SetFails
    PROVE  SkTyped' /\ SkFollows'
<1>1. skOp.step = "run" /\ Sk!Over /\ UNCHANGED <<skKey, skRows, skBlind, skUp, skTask>>
  BY DEF Sk!SetFails, Sk!SetKeep
<1>2. skKey \in SkKeys /\ skRows \in SkPages /\ skBlind \in BOOLEAN /\ skOp.step # "off"
  BY <1>1 DEF SkTyped
<1>3. skOp' \in SkOps /\ SkGoes(skOp') /\ SkSpends(skOp') /\ skOp'.step = "off"
  BY <1>1, <1>2, SkIsOver
<1> DEFINE op == skOp'
<1> HIDE DEF op
<1>4. SkReaches(skKey, skRows)
  BY DEF SkFollows
<1>5. skUp /\ ~skBlind => SkTells(skKey, skRows, op)
  BY <1>1, <1>3 DEF SkFollows, SkTells, op
<1>6. op \in SkOps /\ SkGoes(op) /\ SkSpends(op) /\ skOp' = op
  BY <1>3 DEF op
<1>7. QED BY <1>1, <1>2, <1>4, <1>5, <1>6, SkWriteGoes

\* The key takes the write and the page follows in what is read again.
LEMMA SkTakes ==
    ASSUME SkTyped, SkFollows, skOp.step = "run", Sk!Proceed,
           NEW key \in SkKeys, skKey' = key, UNCHANGED <<skRows, skBlind, skUp, skTask>>,
           key.link => key.here /\ "FIDO2" \in key.apps /\ "FIDO2" \in skRows.apps,
           skOp.kind \in SkReopens => key.link,
           skOp.kind \notin {"set_pin", "reset"} => key.pin = skKey.pin,
           skOp.kind \notin SkSlotKinds => key.slots = skKey.slots
    PROVE  SkTyped' /\ SkFollows'
<1> DEFINE op == skOp'
<1>1. skRows \in SkPages /\ skBlind \in BOOLEAN /\ skOp.step # "off"
  BY DEF SkTyped
<1>2. op \in SkOps /\ SkGoes(op) /\ SkSpends(op) /\ op.step = "reread" /\ op.kind = skOp.kind /\ skOp' = op
  BY <1>1, SkProceeds
<1> HIDE DEF op
<1>3. SkReaches(key, skRows)
  BY DEF SkReaches
<1>4. skUp /\ ~skBlind => SkTells(key, skRows, op)
  BY <1>2 DEF SkFollows, SkTells
<1>5. QED BY <1>1, <1>2, <1>3, <1>4, SkWriteGoes

\* The write is over and the key as it was, but for what the page does not say.
LEMMA SkEndsWrite ==
    ASSUME SkTyped, SkFollows, skOp.step = "run", Sk!Over,
           NEW key \in SkKeys, skKey' = key, UNCHANGED <<skRows, skBlind, skUp, skTask>>,
           key.link => key.here /\ "FIDO2" \in key.apps /\ "FIDO2" \in skRows.apps,
           key.pin = skKey.pin, key.slots = skKey.slots
    PROVE  SkTyped' /\ SkFollows'
<1> DEFINE op == skOp'
<1>1. skRows \in SkPages /\ skBlind \in BOOLEAN /\ skOp.step # "off"
  BY DEF SkTyped
<1>2. op \in SkOps /\ SkGoes(op) /\ SkSpends(op) /\ op.step = "off" /\ skOp' = op
  BY <1>1, SkIsOver
<1> HIDE DEF op
<1>3. SkReaches(key, skRows)
  BY DEF SkReaches
<1>4. skUp /\ ~skBlind => SkTells(key, skRows, op)
  BY <1>2 DEF SkFollows, SkTells
<1>5. QED BY <1>1, <1>2, <1>3, <1>4, SkWriteGoes

LEMMA SkRunsFido ==
    ASSUME SkTyped, SkFollows, Sk!RunFido
    PROVE  SkTyped' /\ SkFollows'
<1> DEFINE kind == skOp.kind  key == Sk!FidoDone(kind, skOp.arg)
<1>1. /\ skOp.step = "run" /\ kind \in Sk!FidoKinds \ {"rename"} /\ skKey' = key /\ skKey.here /\ skKey.link
      /\ UNCHANGED <<skRows, skBlind, skUp, skTask>>
      /\ IF kind = "test" THEN Sk!Over ELSE Sk!Proceed
  BY DEF Sk!RunFido, Sk!Accepted, Sk!Alive, Sk!SetKeep
<1>2. skKey \in SkKeys /\ skKey.creds \in SUBSET Creds /\ FullTries \in 0..FullTries
  BY TriesAssumption DEF SkTyped, SkKeys
<1>3. /\ key \in SkKeys /\ key.link = skKey.link /\ key.here = skKey.here /\ key.apps = skKey.apps /\ key.slots = skKey.slots
      /\ kind \notin {"set_pin", "reset"} => key.pin = skKey.pin
  <2>1. CASE kind = "set_pin"
    <3>1. key = [skKey EXCEPT !.pin = TRUE, !.tries = FullTries]
      BY <2>1 DEF Sk!FidoDone
    <3> HIDE DEF key
    <3>2. QED BY <1>2, <2>1, <3>1 DEF SkKeys
  <2>2. CASE kind = "reset"
    <3>1. key = [skKey EXCEPT !.pin = FALSE, !.tries = FullTries, !.creds = {}]
      BY <2>2 DEF Sk!FidoDone
    <3> HIDE DEF key
    <3>2. QED BY <1>2, <2>2, <3>1 DEF SkKeys
  <2>3. CASE kind = "delete"
    <3>1. key = [skKey EXCEPT !.creds = skKey.creds \ {skOp.arg}, !.tries = FullTries]
      BY <2>3 DEF Sk!FidoDone
    <3>2. skKey.creds \ {skOp.arg} \in SUBSET Creds
      BY <1>2
    <3> HIDE DEF key
    <3>3. QED BY <1>2, <2>3, <3>1, <3>2 DEF SkKeys
  <2>4. CASE kind \notin {"set_pin", "reset", "delete"}
    <3>1. key = [skKey EXCEPT !.tries = FullTries] \/ key = skKey
      BY <2>4 DEF Sk!FidoDone
    <3> HIDE DEF key
    <3>2. QED BY <1>2, <2>4, <3>1 DEF SkKeys
  <2>5. QED BY <2>1, <2>2, <2>3, <2>4
<1> HIDE DEF key
<1>4. key.link => key.here /\ "FIDO2" \in key.apps /\ "FIDO2" \in skRows.apps
  BY <1>3 DEF SkFollows, SkReaches
<1>5. kind \notin SkSlotKinds
  BY <1>1 DEF Sk!FidoKinds, SkSlotKinds
<1>6. CASE kind = "test"
  BY <1>1, <1>3, <1>4, <1>6, SkEndsWrite
<1>7. CASE kind # "test"
  BY <1>1, <1>3, <1>4, <1>5, <1>7, SkTakes
<1>8. QED BY <1>6, <1>7

LEMMA SkRunsSlot ==
    ASSUME SkTyped, SkFollows, Sk!RunSlot
    PROVE  SkTyped' /\ SkFollows'
<1> DEFINE key == CASE skOp.kind = "program" -> [skKey EXCEPT !.slots[skOp.arg] = TRUE]
                    [] skOp.kind = "erase" -> [skKey EXCEPT !.slots[skOp.arg] = FALSE]
                    [] skOp.kind = "swap" -> [skKey EXCEPT !.slots = [s \in Sk!Slots |-> skKey.slots[3 - s]]]
                    [] OTHER -> skKey
<1>1. /\ skOp.step = "run" /\ skOp.kind \in SkSlotKinds /\ skKey' = key /\ UNCHANGED <<skRows, skBlind, skUp, skTask>>
      /\ Sk!Proceed
  BY DEF Sk!RunSlot, Sk!SetKeep, SkSlotKinds
<1>2. skKey \in SkKeys /\ skKey.slots \in SkFlags
  BY DEF SkTyped, SkKeys
<1>3. \E flags \in SkFlags : key = [skKey EXCEPT !.slots = flags]
  <2>1. CASE skOp.kind = "program"
    <3> DEFINE flags == [skKey.slots EXCEPT ![skOp.arg] = TRUE]
    <3>1. key = [skKey EXCEPT !.slots = flags]
      BY <2>1
    <3>2. flags \in SkFlags
      BY <1>2 DEF SkFlags
    <3>3. QED BY <3>1, <3>2
  <2>2. CASE skOp.kind = "erase"
    <3> DEFINE flags == [skKey.slots EXCEPT ![skOp.arg] = FALSE]
    <3>1. key = [skKey EXCEPT !.slots = flags]
      BY <2>2
    <3>2. flags \in SkFlags
      BY <1>2 DEF SkFlags
    <3>3. QED BY <3>1, <3>2
  <2>3. CASE skOp.kind = "swap"
    <3> DEFINE flags == [s \in Sk!Slots |-> skKey.slots[3 - s]]
    <3>1. key = [skKey EXCEPT !.slots = flags]
      BY <2>3
    <3>2. \A s \in {1, 2} : skKey.slots[3 - s] \in BOOLEAN
      BY <1>2 DEF SkFlags
    <3>3. flags \in SkFlags
      BY <3>2, SkTwo DEF SkFlags
    <3>4. QED BY <3>1, <3>3
  <2>4. CASE skOp.kind \notin {"program", "erase", "swap"}
    <3>1. key = skKey
      BY <2>4
    <3> HIDE DEF key
    <3>2. key = [skKey EXCEPT !.slots = skKey.slots]
      BY <1>2, <3>1 DEF SkKeys
    <3>3. QED BY <1>2, <3>2
  <2>5. QED BY <2>1, <2>2, <2>3, <2>4
<1> HIDE DEF key
<1>4. key \in SkKeys /\ key.link = skKey.link /\ key.here = skKey.here /\ key.apps = skKey.apps /\ key.pin = skKey.pin
  <2>1. PICK flags \in SkFlags : key = [skKey EXCEPT !.slots = flags]
    BY <1>3
  <2>2. QED BY <1>2, <2>1 DEF SkKeys
<1>5. key.link => key.here /\ "FIDO2" \in key.apps /\ "FIDO2" \in skRows.apps
  BY <1>4 DEF SkFollows, SkReaches
<1>6. skOp.kind \notin SkReopens
  BY <1>1 DEF SkReopens, SkSlotKinds
<1>7. QED BY <1>1, <1>4, <1>5, <1>6, SkTakes

LEMMA SkRunsAccount ==
    ASSUME SkTyped, SkFollows, Sk!RunAccount
    PROVE  SkTyped' /\ SkFollows'
<1> DEFINE key == [skKey EXCEPT !.accts = IF skOp.kind = "add" THEN skKey.accts \cup {skOp.arg} ELSE skKey.accts \ {skOp.arg}]
<1>1. /\ skOp.step = "run" /\ skOp.kind \in {"reread", "unlock", "add", "remove"}
      /\ skKey' = skKey \/ skKey' = key
      /\ UNCHANGED <<skRows, skBlind, skUp, skTask>> /\ Sk!Proceed
  BY DEF Sk!RunAccount, Sk!SetKeep
<1>2. skKey \in SkKeys /\ skKey.accts \in SUBSET Accts
  BY DEF SkTyped, SkKeys
<1>3. (IF skOp.kind = "add" THEN skKey.accts \cup {skOp.arg} ELSE skKey.accts \ {skOp.arg}) \in SUBSET Accts
  BY <1>1, <1>2 DEF SkTyped
<1>4. PICK k \in {skKey, key} : skKey' = k
  BY <1>1
<1>5. /\ k \in SkKeys /\ k.link = skKey.link /\ k.here = skKey.here /\ k.apps = skKey.apps /\ k.pin = skKey.pin
      /\ k.slots = skKey.slots
  BY <1>2, <1>3, <1>4 DEF SkKeys
<1> HIDE DEF key
<1>6. k.link => k.here /\ "FIDO2" \in k.apps /\ "FIDO2" \in skRows.apps
  BY <1>5 DEF SkFollows, SkReaches
<1>7. skOp.kind \notin SkReopens
  BY <1>1 DEF SkReopens
<1>8. QED BY <1>1, <1>4, <1>5, <1>6, <1>7, SkTakes

\* Applications that leave the interfaces as they are leave the channel's.
LEMMA SkRunsToggle ==
    ASSUME SkTyped, SkFollows, Sk!RunToggle
    PROVE  SkTyped' /\ SkFollows'
<1> DEFINE apps == skOp.arg  restarts == Sk!Interfaces(apps) # Sk!Interfaces(skRows.apps)  link == ~restarts
           key == [skKey EXCEPT !.apps = apps, !.link = link]
<1>1. /\ skOp.step = "run" /\ skOp.kind = "toggle" /\ skKey.here /\ skKey.link /\ skKey' = key
      /\ UNCHANGED <<skRows, skBlind, skUp, skTask>>
      /\ IF restarts THEN Sk!Over ELSE Sk!Proceed
  BY DEF Sk!RunToggle, Sk!Alive, Sk!SetKeep
<1>2. skKey \in SkKeys /\ apps \in SUBSET Sk!Apps
  BY <1>1 DEF SkTyped
<1>3. link \in BOOLEAN
  OBVIOUS
<1>4. link => "FIDO2" \in apps /\ "FIDO2" \in skRows.apps
  BY <1>1 DEF SkFollows, SkReaches, Sk!Interfaces
<1>5. restarts => ~link
  OBVIOUS
<1>6. ~restarts => link
  OBVIOUS
<1> HIDE DEF link, restarts, apps
<1>7. key \in SkKeys /\ key.link = link /\ key.here /\ key.apps = apps /\ key.pin = skKey.pin /\ key.slots = skKey.slots
  BY <1>1, <1>2, <1>3 DEF SkKeys
<1> HIDE DEF key
<1>8. key.link => key.here /\ "FIDO2" \in key.apps /\ "FIDO2" \in skRows.apps
  BY <1>4, <1>7
<1>9. CASE restarts
  BY <1>1, <1>7, <1>8, <1>9, SkEndsWrite
<1>10. CASE ~restarts
  BY <1>1, <1>6, <1>7, <1>8, <1>10, SkTakes
<1>11. QED BY <1>9, <1>10

LEMMA SkRunsEject ==
    ASSUME SkTyped, SkFollows, Sk!RunEject
    PROVE  SkTyped' /\ SkFollows'
<1> DEFINE touch == skOp.arg \in {"touch", "time"}  eject == IF skOp.arg = "time" THEN 1 ELSE 0
           key == [skKey EXCEPT !.touch = touch, !.eject = eject]
<1>1. /\ skOp.step = "run" /\ skOp.kind = "eject" /\ skKey.link /\ skKey' = key
      /\ UNCHANGED <<skRows, skBlind, skUp, skTask>> /\ Sk!Proceed
  BY DEF Sk!RunEject, Sk!Alive, Sk!SetKeep
<1>2. skKey \in SkKeys /\ touch \in BOOLEAN /\ eject \in {0, 1}
  BY DEF SkTyped
<1> HIDE DEF touch, eject
<1>3. /\ key \in SkKeys /\ key.link = skKey.link /\ key.here = skKey.here /\ key.apps = skKey.apps /\ key.pin = skKey.pin
      /\ key.slots = skKey.slots
  BY <1>2 DEF SkKeys
<1> HIDE DEF key
<1>4. key.link => key.here /\ "FIDO2" \in key.apps /\ "FIDO2" \in skRows.apps
  BY <1>3 DEF SkFollows, SkReaches
<1>5. QED BY <1>1, <1>3, <1>4, SkTakes

\* What is read again after a write.

\* A key that cannot be opened again is one that was lost sight of.
LEMMA SkOpensAgain ==
    ASSUME SkTyped, SkFollows, Sk!Reopen
    PROVE  SkTyped' /\ SkFollows'
<1> DEFINE reachable == Sk!Reachable  key == [skKey EXCEPT !.link = reachable]
           rows == IF reachable THEN Sk!Opened(skRows) ELSE skRows  op == skOp'
<1>1. /\ skOp.step = "reread" /\ skOp.kind \in SkReopens /\ skKey' = key /\ skRows' = rows
      /\ UNCHANGED <<skBlind, skUp, skTask>> /\ Sk!Over
  BY DEF Sk!Reopen, Sk!Reopened, Sk!SetKeep, SkReopens
<1>2. skKey \in SkKeys /\ skRows \in SkPages /\ skBlind \in BOOLEAN /\ skOp.step # "off"
  BY <1>1 DEF SkTyped
<1>3. reachable \in BOOLEAN /\ (reachable => skKey.here /\ "FIDO2" \in skKey.apps)
  BY <1>2 DEF Sk!Reachable, SkKeys
<1>4. skKey.link => reachable
  BY DEF SkFollows, SkReaches, Sk!Reachable
<1> HIDE DEF reachable
<1>5. /\ key \in SkKeys /\ key.link = reachable /\ key.here = skKey.here /\ key.apps = skKey.apps /\ key.pin = skKey.pin
      /\ key.slots = skKey.slots
  BY <1>2, <1>3 DEF SkKeys
<1> HIDE DEF key
<1>6. /\ rows \in SkPages /\ rows.slots = skRows.slots
      /\ reachable => rows.pin = skKey.pin /\ rows.apps = skKey.apps
  BY <1>2, SkOpened
<1> HIDE DEF rows
<1>7. op \in SkOps /\ SkGoes(op) /\ SkSpends(op) /\ op.step = "off" /\ skOp' = op
  BY <1>1, <1>2, SkIsOver
<1> HIDE DEF op
<1>8. SkReaches(key, rows)
  BY <1>3, <1>5, <1>6 DEF SkReaches
<1>9. skUp /\ ~skBlind => SkTells(key, rows, op)
  <2> SUFFICES ASSUME skUp, ~skBlind PROVE SkTells(key, rows, op)
    OBVIOUS
  <2>1. skKey.link
    BY <1>1 DEF SkFollows, SkTells
  <2>2. rows.pin = key.pin
    BY <2>1, <1>4, <1>5, <1>6
  <2>3. rows.slots.state = "read" => rows.slots.of = key.slots
    BY <1>1, <1>5, <1>6 DEF SkFollows, SkTells, SkReopens, SkSlotKinds
  <2>4. QED BY <1>7, <2>2, <2>3 DEF SkTells
<1>10. QED BY <1>1, <1>2, <1>5, <1>6, <1>7, <1>8, <1>9, SkWriteGoes

LEMMA SkReadsPasskeys ==
    ASSUME SkTyped, SkFollows, Sk!RereadPasskeys
    PROVE  SkTyped' /\ SkFollows'
<1> DEFINE rows == IF Sk!Alive THEN [skRows EXCEPT !.creds = skKey.creds] ELSE skRows  op == skOp'
<1>1. /\ skOp.step = "reread" /\ skOp.kind \in {"show", "delete"} /\ UNCHANGED skKey /\ skRows' = rows
      /\ UNCHANGED <<skBlind, skUp, skTask>> /\ Sk!Over
  BY DEF Sk!RereadPasskeys, Sk!SetKeep
<1>2. skKey \in SkKeys /\ skRows \in SkPages /\ skBlind \in BOOLEAN /\ skOp.step # "off"
  BY <1>1 DEF SkTyped
<1>3. skKey.creds \in (SUBSET Creds) \cup {None}
  BY <1>2 DEF SkKeys
<1>4. rows \in SkPages /\ rows.slots = skRows.slots /\ rows.pin = skRows.pin /\ rows.apps = skRows.apps
  BY <1>2, <1>3 DEF SkPages
<1> HIDE DEF rows
<1>5. op \in SkOps /\ SkGoes(op) /\ SkSpends(op) /\ op.step = "off" /\ skOp' = op
  BY <1>1, <1>2, SkIsOver
<1> HIDE DEF op
<1>6. SkReaches(skKey, rows)
  BY <1>4 DEF SkFollows, SkReaches
<1>7. skUp /\ ~skBlind => SkTells(skKey, rows, op)
  BY <1>1, <1>4, <1>5 DEF SkFollows, SkTells, SkSlotKinds
<1>8. QED BY <1>1, <1>2, <1>4, <1>5, <1>6, <1>7, SkWriteGoes

\* Slots whose reading failed are ones the page lost sight of.
LEMMA SkReadsSlots ==
    ASSUME SkTyped, SkFollows, Sk!RereadSlots
    PROVE  SkTyped' /\ SkFollows'
<1>1. PICK read \in Sk!SlotReads(skRows) :
        skRows' = Sk!AfterWrite(read.slots) /\ skBlind' = (skBlind \/ read.failed)
  BY DEF Sk!RereadSlots
<1> DEFINE rows == [skRows EXCEPT !.slots = read.slots]  op == skOp'  blind == skBlind \/ read.failed
<1>2. /\ skOp.step = "reread" /\ skOp.kind \in SkSlotKinds /\ UNCHANGED skKey /\ skRows' = rows /\ skBlind' = blind
      /\ UNCHANGED <<skUp, skTask>> /\ Sk!Over
  BY <1>1 DEF Sk!RereadSlots, Sk!SetKeep, Sk!AfterWrite, SkSlotKinds
<1>3. skKey \in SkKeys /\ skRows \in SkPages /\ skBlind \in BOOLEAN /\ skOp.step # "off"
  BY <1>2 DEF SkTyped
<1>4. read.slots \in SkSlotRows /\ read.failed \in BOOLEAN /\ (~read.failed => read.slots.of = skKey.slots)
  BY <1>3, SkSlotsRead
<1>5. rows \in SkPages /\ rows.slots = read.slots /\ rows.pin = skRows.pin /\ rows.apps = skRows.apps
  BY <1>3, <1>4 DEF SkPages
<1>6. blind \in BOOLEAN /\ (~blind => ~skBlind /\ ~read.failed)
  BY <1>3, <1>4
<1> HIDE DEF rows, blind
<1>7. op \in SkOps /\ SkGoes(op) /\ SkSpends(op) /\ op.step = "off" /\ skOp' = op
  BY <1>2, <1>3, SkIsOver
<1> HIDE DEF op
<1>8. SkReaches(skKey, rows)
  BY <1>5 DEF SkFollows, SkReaches
<1>9. skUp /\ ~blind => SkTells(skKey, rows, op)
  <2> SUFFICES ASSUME skUp, ~blind PROVE SkTells(skKey, rows, op)
    OBVIOUS
  <2>1. rows.slots.of = skKey.slots
    BY <1>4, <1>5, <1>6
  <2>2. rows.pin = skKey.pin
    BY <1>2, <1>5, <1>6 DEF SkFollows, SkTells, SkSlotKinds
  <2>3. QED BY <1>7, <2>1, <2>2 DEF SkTells
<1>10. QED BY <1>2, <1>3, <1>5, <1>6, <1>7, <1>8, <1>9, SkWriteGoes

LEMMA SkReadsAccounts ==
    ASSUME SkTyped, SkFollows, Sk!RereadAccounts
    PROVE  SkTyped' /\ SkFollows'
<1>1. PICK codes \in Sk!CodeReads(skPass) : skRows' = [skRows EXCEPT !.codes = codes]
  BY DEF Sk!RereadAccounts
<1> DEFINE rows == [skRows EXCEPT !.codes = codes]  op == skOp'
<1>2. /\ skOp.step = "reread" /\ skOp.kind \in {"add", "remove", "reread", "unlock"} /\ UNCHANGED skKey /\ skRows' = rows
      /\ UNCHANGED <<skBlind, skUp, skTask>> /\ Sk!Over
  BY <1>1 DEF Sk!RereadAccounts, Sk!SetKeep
<1>3. skKey \in SkKeys /\ skRows \in SkPages /\ skBlind \in BOOLEAN /\ skOp.step # "off"
  BY <1>2 DEF SkTyped
<1>4. codes \in SkCodeRows
  BY SkCodesRead
<1>5. rows \in SkPages /\ rows.slots = skRows.slots /\ rows.pin = skRows.pin /\ rows.apps = skRows.apps
  BY <1>3, <1>4 DEF SkPages
<1> HIDE DEF rows
<1>6. op \in SkOps /\ SkGoes(op) /\ SkSpends(op) /\ op.step = "off" /\ skOp' = op
  BY <1>2, <1>3, SkIsOver
<1> HIDE DEF op
<1>7. SkReaches(skKey, rows)
  BY <1>5 DEF SkFollows, SkReaches
<1>8. skUp /\ ~skBlind => SkTells(skKey, rows, op)
  BY <1>2, <1>5, <1>6 DEF SkFollows, SkTells, SkSlotKinds
<1>9. QED BY <1>2, <1>3, <1>5, <1>6, <1>7, <1>8, SkWriteGoes

-----------------------------------------------------------------------------
\* The key and the clock.

LEMMA SkMoves ==
    ASSUME SkTyped, SkFollows, Sk!Unplug \/ Sk!Replug \/ Sk!Tick
    PROVE  SkTyped' /\ SkFollows'
<1>1. PICK key \in {[skKey EXCEPT !.here = FALSE, !.link = FALSE], [skKey EXCEPT !.here = TRUE], [skKey EXCEPT !.now = skKey.now + 1]} :
        skKey' = key
  BY DEF Sk!Unplug, Sk!Replug, Sk!Tick
<1>2. UNCHANGED <<skUp, skRows, skLock, skTask, skOp>> /\ skBlind' \in {TRUE, skBlind}
  BY DEF Sk!Unplug, Sk!Replug, Sk!Tick
<1>3. skKey \in SkKeys /\ skKey.now + 1 \in Nat
  BY DEF SkTyped, SkKeys
<1>4. /\ key \in SkKeys /\ key.pin = skKey.pin /\ key.slots = skKey.slots /\ key.apps = skKey.apps
      /\ key.link => skKey.link /\ (skKey.here => key.here)
  BY <1>3 DEF SkKeys
<1>5. ~skBlind' => key.link = skKey.link
  <2>1. CASE Sk!Unplug
    BY <2>1 DEF Sk!Unplug
  <2>2. CASE Sk!Replug \/ Sk!Tick
    BY <1>1, <1>3, <2>2 DEF Sk!Replug, Sk!Tick, SkKeys
  <2>3. QED BY <2>1, <2>2
<1>6. SkTyped'
  BY <1>1, <1>2, <1>4 DEF SkTyped
<1>7. SkReaches(key, skRows)
  BY <1>4 DEF SkFollows, SkReaches
<1>8. skUp /\ ~skBlind' => SkTells(skKey', skRows, skOp)
  BY <1>1, <1>2, <1>4, <1>5 DEF SkFollows, SkTells
<1>9. SkFollows'
  BY <1>1, <1>2, <1>7, <1>8 DEF SkFollows
<1>10. QED BY <1>6, <1>9

SkNext == Sk!Next \/ UNCHANGED skVars

LEMMA SkKept ==
    ASSUME SkTyped, SkFollows, SkNext
    PROVE  SkTyped' /\ SkFollows'
<1>1. CASE UNCHANGED skVars
  BY <1>1 DEF skVars, SkTyped, SkFollows
<1>2. CASE Sk!Connect \/ Sk!Disconnect
  BY <1>2, SkConnects, SkDisconnects
<1>3. CASE Sk!StartLoad \/ Sk!StartFetch
  BY <1>3, SkStarts
<1>4. CASE Sk!Load \/ Sk!Fetch
  BY <1>4, SkLoads, SkFetches
<1>5. CASE \E kind \in Sk!FidoKinds \cup Sk!YubiKinds, guess \in Sk!Guesses : \E arg \in Sk!Offered(kind) : Sk!StartSet(kind, arg, guess)
  BY <1>5, SkStartsSet
<1>6. CASE Sk!WrongPin \/ Sk!SetFails
  BY <1>6, SkWrongPin, SkFailsSet
<1>7. CASE Sk!RunFido \/ Sk!RunSlot
  BY <1>7, SkRunsFido, SkRunsSlot
<1>8. CASE Sk!RunAccount \/ Sk!RunToggle \/ Sk!RunEject
  BY <1>8, SkRunsAccount, SkRunsToggle, SkRunsEject
<1>9. CASE Sk!Reopen \/ Sk!RereadPasskeys
  BY <1>9, SkOpensAgain, SkReadsPasskeys
<1>10. CASE Sk!RereadSlots \/ Sk!RereadAccounts
  BY <1>10, SkReadsSlots, SkReadsAccounts
<1>11. CASE Sk!Unplug \/ Sk!Replug \/ Sk!Tick
  BY <1>11, SkMoves
<1>12. QED BY <1>1, <1>2, <1>3, <1>4, <1>5, <1>6, <1>7, <1>8, <1>9, <1>10, <1>11 DEF SkNext, Sk!Next

-----------------------------------------------------------------------------
(* CreativeCard. *)

CrOuts == {"headphones", "line"}
CrFields == {"direct", "sxfi", "out", "mode", "eq", "curve"}
CrHws == [direct : BOOLEAN, sxfi : BOOLEAN, out : CrOuts, mode : {0, 1}, eq : BOOLEAN, curve : {0, 1}]
CrHelds == [direct : BOOLEAN, sxfi : BOOLEAN \cup {None}, out : CrOuts \cup {None}, mode : {0, 1} \cup {None},
            eq : BOOLEAN \cup {None}, curve : {0, 1}]
CrCmds == ({"direct", "sxfi", "eq"} \X BOOLEAN) \cup ({"out"} \X CrOuts) \cup ({"select", "curve"} \X {0, 1})
CrPushes == ({"push"} \X {"direct", "sxfi"} \X BOOLEAN) \cup ({"push"} \X {"out"} \X CrOuts) \cup ({"push"} \X {"mode"} \X {0, 1})
CrAcks == {<<"ack", c[1], c[2], took>> : c \in CrCmds, took \in BOOLEAN}
CrFrames == CrPushes \cup CrAcks
CrSteps == {"off", "send", "ack", "look", "reread", "settle", "confirm"}
CrVals == BOOLEAN \cup CrOuts \cup {0, 1, 2}
CrRuns == [step : CrSteps, row : Cr!RowsOf \cup {None}, val : CrVals \cup {None}, cmd : CrCmds \cup {<<>>},
           batch : Seq(CrFrames), took : BOOLEAN, eq : BOOLEAN \cup {None}]

CrTyped ==
    /\ crHw \in CrHws /\ crHeld \in CrHelds
    /\ crPend \in Seq(CrCmds) /\ crIn \in Seq(CrFrames)
    /\ crThread \in [CrWriters -> CrRuns]
    /\ crLink \in {"closed", "claimed", "ready"} /\ crStirred \in BOOLEAN
    /\ \A w \in CrWriters : crThread[w].step # "off" => crThread[w].cmd \in CrCmds

\* A thread that sent its command and had it taken.
CrOwing(t) == t.step \in {"ack", "look", "reread", "settle", "confirm"} /\ t.took

\* What the host will hold when it has read everything.
CrView(held, in, t) == Cr!Applied(Cr!Applied(held, t.batch), in)

\* What is not committed yet changes nothing but what the thread waits for.
CrPending(hw, pend, t) ==
    \A i \in 1..Len(pend) : pend[i] = <<"out", hw.out>> \/ (i = Len(pend) /\ CrOwing(t) /\ pend[i] = t.cmd)

\* The acknowledgement of the command is among what is there.
CrAnswered(in, t) ==
    t.step = "ack" => LET frames == IF t.batch # <<>> THEN t.batch ELSE in IN
        Cr!AckOf(t.cmd[1], frames) = {<<"ack", t.cmd[1], t.cmd[2], t.took>>}

\* What the card will push is what it does.
CrTold(hw, held, in, link, t) ==
    /\ link # "closed" => CrView(held, in, t).mode \in {None, hw.mode}
    /\ link = "claimed" => Cr!Applied(hw, in).out = hw.out
    /\ link = "ready" => CrView(held, in, t).out = hw.out
    /\ link = "ready" /\ ~(t.step # "off" /\ t.row = "out") => held.out = hw.out /\ Cr!Applied(held, t.batch).out = hw.out

\* The command of a write.
CrCommanded(hw, t) ==
    CASE t.row = "mode" -> \/ t.val = 2 /\ t.cmd = <<"eq", FALSE>> /\ t.step \in {"send", "ack", "settle"}
                           \/ /\ t.val \in {0, 1} /\ t.cmd = <<"select", t.val>> /\ t.step \in {"send", "ack", "look"}
                              /\ hw.eq = t.eq
                           \/ t.val \in {0, 1} /\ t.cmd = <<"eq", TRUE>> /\ t.step \in {"send", "ack", "reread", "settle"}
      [] t.row = "band" -> t.cmd = <<"curve", t.val>> /\ t.step \in {"send", "ack", "settle"}
      [] t.row = "preset" -> t.cmd = <<"curve", Cr!Tuned(t.val, hw.out)>> /\ t.step \in {"send", "ack", "settle"}
      [] t.row = "out" -> t.cmd = <<"out", t.val>> /\ t.step \in {"send", "ack", "settle", "confirm"}
      [] t.row \in {"direct", "sxfi"} -> t.cmd = <<t.row, t.val>> /\ t.step \in {"send", "ack", "settle"}
      [] OTHER -> FALSE

\* What a taken command becomes, and what the host holds of it.
CrLanding(hw, held, pend, in, t) ==
    /\ CrOwing(t) /\ t.cmd[1] \in {"out", "curve"} => (pend # <<>> /\ pend[Len(pend)] = t.cmd) \/ hw[t.cmd[1]] = t.cmd[2]
    /\ t.step = "ack" /\ ~t.took => t.cmd[1] = "select"
    /\ t.step \in {"look", "reread", "settle", "confirm"} => t.took
    /\ t.step = "settle" /\ t.cmd[1] = "curve" => held.curve = t.cmd[2]
    /\ t.step = "settle" /\ t.cmd = <<"eq", TRUE>> => pend = <<>> /\ held.curve = hw.curve
    /\ t.step # "off" /\ t.cmd = <<"eq", TRUE>> => CrView(held, in, t).mode = None \/ hw.mode = t.val

CrEnded(hw, held, last) ==
    /\ last.row = "out" /\ last.ok => held.out = last.val
    /\ last.row = "mode" /\ last.val # 2 => (last.ok /\ held.mode # None => hw.mode = last.val) /\ (~last.ok => hw.eq = last.eq)
    /\ last.row \in {"mode", "band", "preset"} /\ last.ok /\ last.val # 2 => held.curve = hw.curve
    /\ last.row = "preset" /\ last.ok => hw.curve = Cr!Tuned(last.val, hw.out)

CrSound(hw, held, pend, in, link, last, t) ==
    /\ link # "ready" => t.step = "off"
    /\ last # None => t.step = "off" /\ link # "claimed" /\ CrEnded(hw, held, last)
    /\ link = "ready" \/ last # None => CrPending(hw, pend, t)
    /\ t.step \in {"off", "send", "reread"} => t.batch = <<>>
    /\ CrAnswered(in, t) /\ CrTold(hw, held, in, link, t)
    /\ t.step # "off" => CrCommanded(hw, t)
    /\ CrLanding(hw, held, pend, in, t)

CrAlone == (\A v, w \in CrWriters : v = w) /\ ~crStirred

CrFollows == CrAlone => \A w \in CrWriters : CrSound(crHw, crHeld, crPend, crIn, crLink, crLast, crThread[w])
-----------------------------------------------------------------------------
\* Commands and frames.

LEMMA CrCmdIs ==
    ASSUME NEW c \in CrCmds
    PROVE  /\ c = <<c[1], c[2]>> /\ c[1] \in {"direct", "sxfi", "eq", "out", "select", "curve"}
           /\ c[1] \in {"direct", "sxfi", "eq"} => c[2] \in BOOLEAN
           /\ c[1] = "out" => c[2] \in CrOuts
           /\ c[1] \in {"select", "curve"} => c[2] \in {0, 1}
BY DEF CrCmds

LEMMA CrCmdsAre ==
    /\ \A row \in {"direct", "sxfi", "eq"}, val \in BOOLEAN : <<row, val>> \in CrCmds
    /\ \A val \in CrOuts : <<"out", val>> \in CrCmds
    /\ \A row \in {"select", "curve"}, val \in {0, 1} : <<row, val>> \in CrCmds
BY DEF CrCmds

LEMMA CrPushIs ==
    ASSUME NEW f \in CrPushes
    PROVE  /\ f[1] = "push" /\ f[2] \in {"direct", "sxfi", "out", "mode"}
           /\ f[2] \in {"direct", "sxfi"} => f[3] \in BOOLEAN
           /\ f[2] = "out" => f[3] \in CrOuts
           /\ f[2] = "mode" => f[3] \in {0, 1}
BY DEF CrPushes

LEMMA CrAckIs ==
    ASSUME NEW f \in CrAcks
    PROVE  /\ f[1] = "ack" /\ (f[2] = "direct" => f[3] \in BOOLEAN) /\ f[4] \in BOOLEAN
<1>1. PICK c \in CrCmds, took \in BOOLEAN : f = <<"ack", c[1], c[2], took>>
  BY DEF CrAcks
<1>2. c[1] = "direct" => c[2] \in BOOLEAN
  BY CrCmdIs
<1>3. QED BY <1>1, <1>2

\* A frame that tells a field tells a value of it, and none tells the equaliser.
LEMMA CrTellsAre ==
    ASSUME NEW f \in CrFrames, NEW x, Cr!Tells(f, x)
    PROVE  /\ x \in {"direct", "sxfi", "out", "mode"}
           /\ x \in {"direct", "sxfi"} => f[3] \in BOOLEAN
           /\ x = "out" => f[3] \in CrOuts
           /\ x = "mode" => f[3] \in {0, 1}
<1>1. CASE f \in CrPushes
  BY <1>1, CrPushIs DEF Cr!Tells
<1>2. CASE f \in CrAcks
  BY <1>2, CrAckIs DEF Cr!Tells
<1>3. QED BY <1>1, <1>2 DEF CrFrames

-----------------------------------------------------------------------------
\* What is held when frames are applied.

\* Of numbers up to a bound one is the greatest.
LEMMA CrLatest ==
    ASSUME NEW n \in Nat, NEW S \in SUBSET (1..n), S # {}
    PROVE  \E i \in S : \A j \in S : j <= i
<1> DEFINE R == {ss \in Nat \X Nat : ss[1] < ss[2]}  T == {n - i : i \in S}
<1>1. IsWellFoundedOn(R, Nat)
  BY NatLessThanWellFounded, Zenon DEF OpToRel
<1> HIDE DEF R
<1>2. T \subseteq Nat /\ T # {}
  <2>1. \A i \in S : i \in Nat /\ i <= n
    OBVIOUS
  <2>2. \A i \in S : n - i \in Nat
    BY <2>1
  <2>3. QED BY <2>2
<1>3. PICK k \in T : \A l \in T : ~(<<l, k>> \in R)
  BY <1>1, <1>2, WFMin
<1>4. \A l \in T : ~(l < k)
  BY <1>2, <1>3 DEF R
<1>5. PICK i \in S : k = n - i
  OBVIOUS
<1>6. \A j \in S : n - j \in T
  OBVIOUS
<1> HIDE DEF T
<1>7. \A j \in S : ~(n - j < n - i)
  BY <1>4, <1>5, <1>6
<1>8. QED BY <1>7

\* A field that no frame tells is what it was, another what the last frame says that tells it.
LEMMA CrAppliedIs ==
    ASSUME NEW held, NEW frames \in Seq(CrFrames), NEW x \in DOMAIN held
    PROVE  \/ (\A i \in 1..Len(frames) : ~Cr!Tells(frames[i], x)) /\ Cr!Applied(held, frames)[x] = held[x]
           \/ \E i \in 1..Len(frames) : /\ Cr!Tells(frames[i], x) /\ Cr!Applied(held, frames)[x] = frames[i][3]
                                        /\ \A j \in 1..Len(frames) : Cr!Tells(frames[j], x) => j <= i
<1> DEFINE told == {i \in DOMAIN frames : Cr!Tells(frames[i], x)}
<1>1. Cr!Applied(held, frames)[x] = IF told = {} THEN held[x] ELSE frames[CHOOSE i \in told : \A j \in told : j <= i][3]
  BY DEF Cr!Applied
<1>2. DOMAIN frames = 1..Len(frames)
  OBVIOUS
<1>3. CASE told = {}
  BY <1>1, <1>2, <1>3
<1>4. CASE told # {}
  <2>1. told \in SUBSET (1..Len(frames)) /\ Len(frames) \in Nat
    BY <1>2
  <2>2. \E i \in told : \A j \in told : j <= i
    <3> HIDE DEF told
    <3>1. QED BY <1>4, <2>1, CrLatest
  <2> DEFINE last == CHOOSE i \in told : \A j \in told : j <= i
  <2>3. last \in told /\ \A j \in told : j <= last
    <3> HIDE DEF told
    <3>1. QED BY <2>2
  <2>4. Cr!Applied(held, frames)[x] = frames[last][3]
    BY <1>1, <1>4
  <2> HIDE DEF last
  <2>5. last \in 1..Len(frames) /\ Cr!Tells(frames[last], x)
    BY <1>2, <2>3
  <2>6. \A j \in 1..Len(frames) : Cr!Tells(frames[j], x) => j <= last
    BY <1>2, <2>3
  <2>7. QED BY <2>4, <2>5, <2>6
<1>5. QED BY <1>3, <1>4

LEMMA CrAppliedDomain ==
    ASSUME NEW held, NEW frames
    PROVE  Cr!Applied(held, frames) = [x \in DOMAIN held |-> Cr!Applied(held, frames)[x]]
BY DEF Cr!Applied

LEMMA CrHeldIs ==
    /\ \A held \in CrHelds : DOMAIN held = CrFields
    /\ \A hw \in CrHws : DOMAIN hw = CrFields
BY DEF CrHelds, CrHws, CrFields

LEMMA CrApplies ==
    ASSUME NEW held \in CrHelds, NEW frames \in Seq(CrFrames)
    PROVE  /\ Cr!Applied(held, frames) \in CrHelds
           /\ Cr!Applied(held, frames).curve = held.curve /\ Cr!Applied(held, frames).eq = held.eq
<1> DEFINE f == Cr!Applied(held, frames)
<1>1. f = [x \in CrFields |-> f[x]]
  BY CrAppliedDomain, CrHeldIs
<1>2. \A i \in 1..Len(frames) : frames[i] \in CrFrames
  OBVIOUS
<1>3. \A x \in CrFields :
        \/ f[x] = held[x]
        \/ \E i \in 1..Len(frames) : Cr!Tells(frames[i], x) /\ f[x] = frames[i][3]
  <2>1. \A x \in CrFields : x \in DOMAIN held
    BY CrHeldIs
  <2>2. QED BY <2>1, CrAppliedIs
<1> HIDE DEF f
<1>4. \A x \in CrFields :
        \/ f[x] = held[x]
        \/ /\ x \in {"direct", "sxfi", "out", "mode"}
           /\ x \in {"direct", "sxfi"} => f[x] \in BOOLEAN
           /\ x = "out" => f[x] \in CrOuts
           /\ x = "mode" => f[x] \in {0, 1}
  <2> SUFFICES ASSUME NEW x \in CrFields, NEW i \in 1..Len(frames), Cr!Tells(frames[i], x), f[x] = frames[i][3]
               PROVE  /\ x \in {"direct", "sxfi", "out", "mode"}
                      /\ x \in {"direct", "sxfi"} => f[x] \in BOOLEAN
                      /\ x = "out" => f[x] \in CrOuts
                      /\ x = "mode" => f[x] \in {0, 1}
    BY <1>3
  <2>1. QED BY <1>2, CrTellsAre
<1>5. /\ held.direct \in BOOLEAN /\ held.sxfi \in BOOLEAN \cup {None} /\ held.out \in CrOuts \cup {None}
      /\ held.mode \in {0, 1} \cup {None} /\ held.eq \in BOOLEAN \cup {None} /\ held.curve \in {0, 1}
  BY DEF CrHelds
<1>6. f["direct"] \in BOOLEAN /\ f["sxfi"] \in BOOLEAN \cup {None}
  BY <1>4, <1>5 DEF CrFields
<1>7. f["out"] \in CrOuts \cup {None} /\ f["mode"] \in {0, 1} \cup {None}
  BY <1>4, <1>5 DEF CrFields
<1>8. f["eq"] = held.eq /\ f["curve"] = held.curve
  BY <1>4 DEF CrFields
<1>9. f \in CrHelds
  BY <1>1, <1>5, <1>6, <1>7, <1>8 DEF CrHelds, CrFields
<1>10. QED BY <1>8, <1>9 DEF f

LEMMA CrAppliedNothing ==
    ASSUME NEW held \in CrHelds \cup CrHws
    PROVE  Cr!Applied(held, <<>>) = held
<1>1. held = [x \in DOMAIN held |-> held[x]]
  BY DEF CrHelds, CrHws
<1>2. QED BY <1>1 DEF Cr!Applied

\* One frame more.
LEMMA CrAppliedOneMore ==
    ASSUME NEW held, NEW frames \in Seq(CrFrames), NEW f \in CrFrames, NEW x \in DOMAIN held
    PROVE  Cr!Applied(held, Append(frames, f))[x] = IF Cr!Tells(f, x) THEN f[3] ELSE Cr!Applied(held, frames)[x]
<1> DEFINE more == Append(frames, f)  n == Len(frames)
<1>1. more \in Seq(CrFrames) /\ Len(more) = n + 1 /\ more[n + 1] = f /\ n \in Nat /\ \A i \in 1..n : more[i] = frames[i]
  OBVIOUS
<1> HIDE DEF more
<1>2. \/ (\A i \in 1..Len(more) : ~Cr!Tells(more[i], x)) /\ Cr!Applied(held, more)[x] = held[x]
      \/ \E i \in 1..Len(more) : /\ Cr!Tells(more[i], x) /\ Cr!Applied(held, more)[x] = more[i][3]
                                 /\ \A j \in 1..Len(more) : Cr!Tells(more[j], x) => j <= i
  BY <1>1, CrAppliedIs
<1>3. \/ (\A i \in 1..Len(frames) : ~Cr!Tells(frames[i], x)) /\ Cr!Applied(held, frames)[x] = held[x]
      \/ \E i \in 1..Len(frames) : /\ Cr!Tells(frames[i], x) /\ Cr!Applied(held, frames)[x] = frames[i][3]
                                   /\ \A j \in 1..Len(frames) : Cr!Tells(frames[j], x) => j <= i
  BY CrAppliedIs
<1> HIDE DEF n
<1>4. CASE Cr!Tells(f, x)
  <2>1. n + 1 \in 1..Len(more) /\ Cr!Tells(more[n + 1], x)
    BY <1>1, <1>4
  <2>2. PICK i \in 1..Len(more) : /\ Cr!Applied(held, more)[x] = more[i][3]
                                  /\ \A j \in 1..Len(more) : Cr!Tells(more[j], x) => j <= i
    BY <1>2, <2>1
  <2>3. i = n + 1
    BY <1>1, <2>1, <2>2
  <2>4. QED BY <1>1, <1>4, <2>2, <2>3 DEF more
<1>5. CASE ~Cr!Tells(f, x)
  <2>1. \A i \in 1..Len(more) : Cr!Tells(more[i], x) => i \in 1..n /\ more[i] = frames[i]
    BY <1>1, <1>5
  <2>2. \A i \in 1..n : i \in 1..Len(more)
    BY <1>1
  <2>3. CASE \A i \in 1..n : ~Cr!Tells(frames[i], x)
    <3>1. \A i \in 1..Len(more) : ~Cr!Tells(more[i], x)
      BY <2>1, <2>3
    <3>2. Cr!Applied(held, more)[x] = held[x]
      BY <1>2, <3>1
    <3>3. Cr!Applied(held, frames)[x] = held[x]
      BY <1>3, <2>3 DEF n
    <3>4. QED BY <1>5, <3>2, <3>3 DEF more
  <2>4. CASE \E k \in 1..n : Cr!Tells(frames[k], x)
    <3>1. PICK i \in 1..n : /\ Cr!Tells(frames[i], x) /\ Cr!Applied(held, frames)[x] = frames[i][3]
                            /\ \A j \in 1..n : Cr!Tells(frames[j], x) => j <= i
      BY <1>3, <2>4 DEF n
    <3>2. Cr!Tells(more[i], x) /\ i \in 1..Len(more)
      BY <1>1, <2>2, <3>1
    <3>3. PICK k \in 1..Len(more) : /\ Cr!Tells(more[k], x) /\ Cr!Applied(held, more)[x] = more[k][3]
                                    /\ \A j \in 1..Len(more) : Cr!Tells(more[j], x) => j <= k
      BY <1>2, <3>2
    <3>4. k \in 1..n /\ more[k] = frames[k]
      BY <2>1, <3>3
    <3>5. k <= i /\ i <= k
      BY <3>1, <3>2, <3>3, <3>4
    <3>6. k = i
      BY <1>1, <3>1, <3>4, <3>5
    <3>7. QED BY <1>5, <3>1, <3>3, <3>4, <3>6 DEF more
  <2>5. QED BY <2>3, <2>4
<1>6. QED BY <1>4, <1>5

\* What agrees on a field agrees on it after the same frames.
LEMMA CrAppliedAgree ==
    ASSUME NEW held, NEW other, NEW frames, NEW x \in DOMAIN held \cap DOMAIN other, held[x] = other[x]
    PROVE  Cr!Applied(held, frames)[x] = Cr!Applied(other, frames)[x]
BY DEF Cr!Applied

-----------------------------------------------------------------------------
\* What the values are.

LEMMA CrTypedSuffices == CrTyped => Cr!TypeOK
<1> SUFFICES ASSUME CrTyped PROVE Cr!TypeOK
  OBVIOUS
<1>1. crHw.out \in CrOuts /\ crHw.mode \in {0, 1} /\ crHw.curve \in {0, 1}
  BY DEF CrTyped, CrHws
<1>2. crHeld.out \in CrOuts \cup {None} /\ crHeld.mode \in {0, 1} \cup {None} /\ crHeld.curve \in {0, 1}
  BY DEF CrTyped, CrHelds
<1>3. \A w \in CrWriters : crThread[w].step \in CrSteps
  BY DEF CrTyped, CrRuns
<1>4. crLink \in {"closed", "claimed", "ready"}
  BY DEF CrTyped
<1>5. QED BY <1>1, <1>2, <1>3, <1>4 DEF Cr!TypeOK, Cr!Outs, Cr!Modes, CrOuts, CrSteps

LEMMA CrSame == Cr!Outs = CrOuts /\ Cr!Modes = {0, 1}
BY DEF Cr!Outs, CrOuts, Cr!Modes

LEMMA CrStarts ==
    /\ Cr!Blank \in CrHelds /\ Cr!Blank.mode = None
    /\ Cr!Resting \in CrRuns /\ Cr!Resting.step = "off" /\ Cr!Resting.batch = <<>>
<1>1. Cr!Blank \in CrHelds /\ Cr!Blank.mode = None
  BY DEF Cr!Blank, CrHelds
<1>2. Cr!Resting = [step |-> "off", row |-> None, val |-> None, cmd |-> <<>>, batch |-> <<>>, took |-> FALSE, eq |-> None]
  BY DEF Cr!Resting
<1>3. "off" \in CrSteps /\ <<>> \in Seq(CrFrames) /\ <<>> \in CrCmds \cup {<<>>}
  BY DEF CrSteps
<1> HIDE DEF CrSteps, CrFrames, CrCmds, CrVals, Cr!RowsOf
<1>4. Cr!Resting \in CrRuns
  BY <1>2, <1>3 DEF CrRuns
<1>5. QED BY <1>1, <1>2, <1>4

LEMMA CrDone ==
    ASSUME NEW hw \in CrHws, NEW c \in CrCmds
    PROVE  Cr!Done(hw, c[1], c[2]) \in CrHws
<1> DEFINE row == c[1]  val == c[2]
<1>1. /\ row \in {"direct", "sxfi", "eq", "out", "select", "curve"}
      /\ row \in {"direct", "sxfi", "eq"} => val \in BOOLEAN
      /\ row = "out" => val \in CrOuts
      /\ row \in {"select", "curve"} => val \in {0, 1}
  BY CrCmdIs
<1>2. hw.curve \in {0, 1}
  BY DEF CrHws
<1> HIDE DEF row, val
<1>3. CASE row = "sxfi"
  <2> DEFINE mode == IF val THEN 1 ELSE 0
             curve == IF val # hw.sxfi THEN Cr!StoredCurve(IF val THEN 1 ELSE 0) ELSE hw.curve
  <2>1. Cr!Done(hw, row, val) = [hw EXCEPT !.sxfi = val, !.mode = mode, !.curve = curve]
    BY <1>3 DEF Cr!Done
  <2>2. val \in BOOLEAN /\ mode \in {0, 1} /\ curve \in {0, 1}
    BY <1>1, <1>2, <1>3 DEF Cr!StoredCurve
  <2> HIDE DEF mode, curve
  <2>3. QED BY <2>1, <2>2 DEF CrHws, row, val
<1>4. CASE row = "select"
  <2>1. Cr!Done(hw, row, val) = hw \/ Cr!Done(hw, row, val) = [hw EXCEPT !.mode = val, !.curve = val]
    BY <1>4 DEF Cr!Done, Cr!StoredCurve
  <2>2. QED BY <1>1, <1>4, <2>1 DEF CrHws, row, val
<1>5. CASE row \in {"direct", "eq", "out", "curve"}
  <2>1. Cr!Done(hw, row, val) = [hw EXCEPT ![row] = val]
    BY <1>5 DEF Cr!Done
  <2>2. CASE row \in {"direct", "eq"}
    BY <1>1, <2>1, <2>2 DEF CrHws, row, val
  <2>3. CASE row = "out"
    BY <1>1, <2>1, <2>3 DEF CrHws, row, val
  <2>4. CASE row = "curve"
    BY <1>1, <2>1, <2>4 DEF CrHws, row, val
  <2>5. QED BY <1>5, <2>2, <2>3, <2>4
<1>6. QED BY <1>1, <1>3, <1>4, <1>5

LEMMA CrPushesAre ==
    ASSUME NEW hw \in CrHws, NEW row
    PROVE  Cr!Pushes(hw, row) \in Seq(CrPushes)
<1>1. /\ <<"push", "sxfi", hw.sxfi>> \in CrPushes /\ <<"push", "direct", hw.direct>> \in CrPushes
      /\ <<"push", "out", hw.out>> \in CrPushes /\ <<"push", "mode", hw.mode>> \in CrPushes
  BY DEF CrHws, CrPushes
<1> HIDE DEF CrPushes
<1>2. CASE row = "sxfi"
  <2>1. Cr!Pushes(hw, row) = <<<<"push", "sxfi", hw.sxfi>>, <<"push", "mode", hw.mode>>>>
    BY <1>2 DEF Cr!Pushes
  <2>2. QED BY <1>1, <2>1
<1>3. CASE row = "select"
  <2>1. Cr!Pushes(hw, row) = <<<<"push", "mode", hw.mode>>>> \/ Cr!Pushes(hw, row) = <<>>
    BY <1>3 DEF Cr!Pushes
  <2>2. CASE Cr!Pushes(hw, row) = <<<<"push", "mode", hw.mode>>>>
    BY <1>1, <2>2
  <2>3. CASE Cr!Pushes(hw, row) = <<>>
    BY <2>3
  <2>4. QED BY <2>1, <2>2, <2>3
<1>4. CASE row \in {"direct", "out"}
  <2>1. Cr!Pushes(hw, row) = <<<<"push", row, hw[row]>>>>
    BY <1>4 DEF Cr!Pushes
  <2>2. <<"push", row, hw[row]>> \in CrPushes
    BY <1>1, <1>4
  <2>3. QED BY <2>1, <2>2
<1>5. CASE row \notin {"sxfi", "select", "direct", "out"}
  BY <1>5 DEF Cr!Pushes
<1>6. QED BY <1>2, <1>3, <1>4, <1>5

LEMMA CrFramesJoin ==
    ASSUME NEW in \in Seq(CrFrames), NEW more \in Seq(CrPushes)
    PROVE  in \o more \in Seq(CrFrames)
<1>1. more \in Seq(CrFrames)
  BY DEF CrFrames
<1>2. QED BY <1>1

LEMMA CrAcksAre ==
    ASSUME NEW c \in CrCmds, NEW ack \in Cr!Acks(c[1], c[2])
    PROVE  /\ ack \in CrFrames /\ ack[4] \in BOOLEAN /\ ack = <<"ack", c[1], c[2], ack[4]>>
           /\ ~ack[4] => c[1] = "select"
<1>1. PICK took \in BOOLEAN : ack = <<"ack", c[1], c[2], took>> /\ (~took => c[1] = "select")
  BY DEF Cr!Acks
<1>2. <<"ack", c[1], c[2], took>> \in CrAcks
  BY DEF CrAcks
<1>3. QED BY <1>1, <1>2 DEF CrFrames

-----------------------------------------------------------------------------
\* The steps of a thread.

LEMMA CrRun ==
    ASSUME CrTyped, NEW w \in CrWriters
    PROVE  /\ crThread[w] \in CrRuns /\ crThread[w].batch \in Seq(CrFrames)
           /\ crThread[w].step # "off" => crThread[w].cmd \in CrCmds
BY DEF CrTyped, CrRuns

\* A step of a thread keeps what is known if it does so for the values it leaves behind.
LEMMA CrWriterKept ==
    ASSUME CrTyped, CrFollows, NEW w \in CrWriters, NEW r \in CrRuns, crThread' = [crThread EXCEPT ![w] = r],
           r.step # "off" => r.cmd \in CrCmds,
           NEW held \in CrHelds, crHeld' = held, NEW pend \in Seq(CrCmds), crPend' = pend,
           NEW in \in Seq(CrFrames), crIn' = in, NEW last, crLast' = last,
           UNCHANGED <<crHw, crLink, crStirred>>,
           CrSound(crHw, crHeld, crPend, crIn, crLink, crLast, crThread[w]) => CrSound(crHw, held, pend, in, crLink, last, r)
    PROVE  CrTyped' /\ CrFollows'
<1>1. crThread \in [CrWriters -> CrRuns]
  BY DEF CrTyped
<1>2. crThread' \in [CrWriters -> CrRuns] /\ crThread'[w] = r /\ \A v \in CrWriters : v # w => crThread'[v] = crThread[v]
  BY <1>1
<1>3. \A v \in CrWriters : crThread'[v].step # "off" => crThread'[v].cmd \in CrCmds
  BY <1>2 DEF CrTyped
<1>4. CrTyped'
  BY <1>2, <1>3 DEF CrTyped
<1>5. CrFollows'
  <2> SUFFICES ASSUME CrAlone', NEW v \in CrWriters
               PROVE  CrSound(crHw, held, pend, in, crLink, last, crThread'[v])
    BY DEF CrFollows
  <2>1. CrAlone /\ v = w
    BY DEF CrAlone
  <2>2. CrSound(crHw, crHeld, crPend, crIn, crLink, crLast, crThread[w])
    BY <2>1 DEF CrFollows
  <2>3. QED BY <1>2, <2>1, <2>2
<1>6. QED BY <1>4, <1>5

\* What is held once a thread has read nothing, or everything.
LEMMA CrViews ==
    ASSUME NEW held \in CrHelds, NEW in \in Seq(CrFrames), NEW t \in CrRuns
    PROVE  /\ CrView(held, in, t) \in CrHelds
           /\ t.batch = <<>> => CrView(held, in, t) = Cr!Applied(held, in) /\ Cr!Applied(held, t.batch) = held
           /\ in = <<>> => CrView(held, in, t) = Cr!Applied(held, t.batch)
<1>1. t.batch \in Seq(CrFrames)
  BY DEF CrRuns
<1>2. Cr!Applied(held, t.batch) \in CrHelds
  BY <1>1, CrApplies
<1>3. CrView(held, in, t) \in CrHelds
  BY <1>2, CrApplies DEF CrView
<1>4. QED BY <1>2, <1>3, CrAppliedNothing DEF CrView

LEMMA CrToIs ==
    ASSUME CrTyped, NEW w \in CrWriters, NEW step \in CrSteps, Cr!To(w, step)
    PROVE  \E r \in CrRuns :
              /\ crThread' = [crThread EXCEPT ![w] = r]
              /\ r.step = step /\ r.batch = <<>> /\ r.cmd = crThread[w].cmd /\ r.took = crThread[w].took
              /\ r.row = crThread[w].row /\ r.val = crThread[w].val /\ r.eq = crThread[w].eq
<1> DEFINE t == crThread[w]  r == [t EXCEPT !.step = step, !.batch = <<>>]
<1>1. t \in CrRuns /\ crThread \in [CrWriters -> CrRuns]
  BY DEF CrTyped
<1>2. crThread' = [crThread EXCEPT ![w] = r]
  BY <1>1 DEF Cr!To
<1>3. <<>> \in Seq(CrFrames)
  OBVIOUS
<1>4. /\ r \in CrRuns /\ r.step = step /\ r.batch = <<>> /\ r.cmd = t.cmd /\ r.took = t.took
      /\ r.row = t.row /\ r.val = t.val /\ r.eq = t.eq
  <2> HIDE DEF t
  <2>1. QED BY <1>1, <1>3 DEF CrRuns
<1> HIDE DEF r
<1>5. QED BY <1>2, <1>4

LEMMA CrEndIs ==
    ASSUME CrTyped, NEW w \in CrWriters, NEW ok \in BOOLEAN, Cr!End(w, ok)
    PROVE  \E last : \E r \in CrRuns :
              /\ crThread' = [crThread EXCEPT ![w] = r] /\ r.step = "off" /\ r.batch = <<>>
              /\ crLast' = last /\ last.ok = ok
              /\ last.row = crThread[w].row /\ last.val = crThread[w].val /\ last.eq = crThread[w].eq
<1> DEFINE t == crThread[w]  r == Cr!Resting  last == [row |-> t.row, val |-> t.val, ok |-> ok, took |-> t.took, eq |-> t.eq]
<1>1. crThread' = [crThread EXCEPT ![w] = r] /\ crLast' = last
  BY DEF Cr!End
<1>2. r \in CrRuns /\ r.step = "off" /\ r.batch = <<>>
  BY CrStarts
<1>3. last.ok = ok /\ last.row = t.row /\ last.val = t.val /\ last.eq = t.eq
  OBVIOUS
<1> HIDE DEF r, last
<1>4. QED BY <1>1, <1>2, <1>3

LEMMA CrFailed ==
    ASSUME CrTyped, NEW w \in CrWriters, Cr!End(w, FALSE)
    PROVE  \E last : \E r \in CrRuns :
              /\ crThread' = [crThread EXCEPT ![w] = r] /\ r.step = "off" /\ r.batch = <<>>
              /\ crLast' = last /\ last.ok = FALSE
              /\ last.row = crThread[w].row /\ last.val = crThread[w].val /\ last.eq = crThread[w].eq
<1>1. PICK ok \in BOOLEAN : ok = FALSE
  OBVIOUS
<1>2. Cr!End(w, ok)
  BY <1>1
<1>3. QED BY <1>1, <1>2, CrEndIs

LEMMA CrSucceeded ==
    ASSUME CrTyped, NEW w \in CrWriters, Cr!End(w, TRUE)
    PROVE  \E last : \E r \in CrRuns :
              /\ crThread' = [crThread EXCEPT ![w] = r] /\ r.step = "off" /\ r.batch = <<>>
              /\ crLast' = last /\ last.ok = TRUE
              /\ last.row = crThread[w].row /\ last.val = crThread[w].val /\ last.eq = crThread[w].eq
<1>1. PICK ok \in BOOLEAN : ok = TRUE
  OBVIOUS
<1>2. Cr!End(w, ok)
  BY <1>1
<1>3. QED BY <1>1, <1>2, CrEndIs

\* What the command says of the write.
LEMMA CrCommandedIs ==
    ASSUME NEW hw, NEW t, CrCommanded(hw, t)
    PROVE  \/ t.row = "mode" /\ t.val = 2 /\ t.cmd = <<"eq", FALSE>> /\ t.step \in {"send", "ack", "settle"}
           \/ /\ t.row = "mode" /\ t.val \in {0, 1} /\ t.cmd = <<"select", t.val>> /\ t.step \in {"send", "ack", "look"}
              /\ hw.eq = t.eq
           \/ t.row = "mode" /\ t.val \in {0, 1} /\ t.cmd = <<"eq", TRUE>> /\ t.step \in {"send", "ack", "reread", "settle"}
           \/ t.row = "band" /\ t.cmd = <<"curve", t.val>> /\ t.step \in {"send", "ack", "settle"}
           \/ t.row = "preset" /\ t.cmd = <<"curve", Cr!Tuned(t.val, hw.out)>> /\ t.step \in {"send", "ack", "settle"}
           \/ t.row = "out" /\ t.cmd = <<"out", t.val>> /\ t.step \in {"send", "ack", "settle", "confirm"}
           \/ t.row \in {"direct", "sxfi"} /\ t.cmd = <<t.row, t.val>> /\ t.step \in {"send", "ack", "settle"}
BY DEF CrCommanded

LEMMA CrSwitches ==
    /\ <<"eq", TRUE>>[1] = "eq" /\ <<"eq", FALSE>>[1] = "eq" /\ <<"eq", FALSE>> # <<"eq", TRUE>>
<1>1. <<"eq", FALSE>>[2] = FALSE /\ <<"eq", TRUE>>[2] = TRUE
  OBVIOUS
<1>2. <<"eq", FALSE>> # <<"eq", TRUE>>
  <2> SUFFICES ASSUME <<"eq", FALSE>> = <<"eq", TRUE>> PROVE FALSE
    OBVIOUS
  <2>1. <<"eq", FALSE>>[2] = <<"eq", TRUE>>[2]
    BY Zenon
  <2>2. QED BY <1>1, <2>1, Zenon
<1>3. QED BY <1>2

LEMMA CrFollowing ==
    ASSUME NEW cmd \in CrCmds
    PROVE  /\ Cr!Following(cmd) \in {"look", "reread", "settle"}
           /\ cmd[1] = "select" => Cr!Following(cmd) = "look"
           /\ cmd = <<"eq", TRUE>> => Cr!Following(cmd) = "reread"
           /\ cmd[1] # "select" /\ cmd # <<"eq", TRUE>> => Cr!Following(cmd) = "settle"
<1>1. cmd = <<"eq", TRUE>> => cmd[1] # "select"
  OBVIOUS
<1>2. QED BY <1>1 DEF Cr!Following

LEMMA CrCommandFollows ==
    ASSUME NEW hw, NEW t, CrCommanded(hw, t), t.step = "ack", t.cmd \in CrCmds,
           NEW r, r.row = t.row, r.val = t.val, r.cmd = t.cmd, r.eq = t.eq, r.step = Cr!Following(t.cmd)
    PROVE  CrCommanded(hw, r)
<1>1. /\ t.cmd[1] = "select" => r.step = "look"
      /\ t.cmd = <<"eq", TRUE>> => r.step = "reread"
      /\ t.cmd[1] # "select" /\ t.cmd # <<"eq", TRUE>> => r.step = "settle"
  BY CrFollowing
<1>2. CASE t.row = "mode" /\ t.val = 2 /\ t.cmd = <<"eq", FALSE>>
  <2>1. r.step = "settle"
    BY <1>1, <1>2, CrSwitches
  <2>2. QED BY <1>2, <2>1 DEF CrCommanded
<1>3. CASE t.row = "mode" /\ t.val \in {0, 1} /\ t.cmd = <<"select", t.val>> /\ hw.eq = t.eq
  <2>1. r.step = "look"
    BY <1>1, <1>3
  <2>2. QED BY <1>3, <2>1 DEF CrCommanded
<1>4. CASE t.row = "mode" /\ t.val \in {0, 1} /\ t.cmd = <<"eq", TRUE>>
  <2>1. r.step = "reread"
    BY <1>1, <1>4
  <2>2. QED BY <1>4, <2>1 DEF CrCommanded
<1>5. CASE t.row = "band" /\ t.cmd = <<"curve", t.val>>
  <2>1. t.cmd[1] = "curve"
    BY <1>5
  <2>2. r.step = "settle"
    BY <1>1, <2>1, CrSwitches
  <2>3. QED BY <1>5, <2>2 DEF CrCommanded
<1>6. CASE t.row = "preset" /\ t.cmd = <<"curve", Cr!Tuned(t.val, hw.out)>>
  <2>1. t.cmd[1] = "curve"
    BY <1>6
  <2>2. r.step = "settle"
    BY <1>1, <2>1, CrSwitches
  <2>3. QED BY <1>6, <2>2 DEF CrCommanded
<1>7. CASE t.row \in {"out", "direct", "sxfi"} /\ t.cmd = <<t.row, t.val>>
  <2>1. t.cmd[1] = t.row
    BY <1>7
  <2>2. r.step = "settle"
    BY <1>1, <1>7, <2>1, CrSwitches
  <2>3. QED BY <1>7, <2>2 DEF CrCommanded
<1>8. QED BY <1>2, <1>3, <1>4, <1>5, <1>6, <1>7, CrCommandedIs

LEMMA CrSelects ==
    ASSUME NEW hw, NEW t, CrCommanded(hw, t), t.cmd[1] = "select"
    PROVE  t.row = "mode" /\ t.val \in {0, 1} /\ t.cmd = <<"select", t.val>> /\ hw.eq = t.eq
<1>1. CASE t.cmd = <<"eq", FALSE>> \/ t.cmd = <<"eq", TRUE>>
  BY <1>1, CrSwitches
<1>2. CASE t.cmd = <<"curve", t.val>> \/ t.cmd = <<"curve", Cr!Tuned(t.val, hw.out)>>
  BY <1>2
<1>3. CASE t.row \in {"out", "direct", "sxfi"} /\ t.cmd = <<t.row, t.val>>
  BY <1>3
<1>4. QED BY <1>1, <1>2, <1>3, CrCommandedIs

LEMMA CrFirst ==
    ASSUME CrTyped, NEW row \in Cr!RowsOf, NEW val \in Cr!Values(row)
    PROVE  /\ Cr!First(row, val) \in CrCmds /\ val \in CrVals
           /\ row = "mode" => \/ val = 2 /\ Cr!First(row, val) = <<"eq", FALSE>>
                              \/ val \in {0, 1} /\ Cr!First(row, val) = <<"select", val>>
           /\ row = "band" => Cr!First(row, val) = <<"curve", val>>
           /\ row = "preset" => Cr!First(row, val) = <<"curve", Cr!Tuned(val, crHeld.out)>>
           /\ row \in {"direct", "sxfi", "out"} => Cr!First(row, val) = <<row, val>>
<1>1. row \in {"direct", "sxfi", "out", "mode", "band", "preset"}
  BY DEF Cr!RowsOf, Cr!Flags
<1>2. CASE row \in {"direct", "sxfi"}
  <2>1. val \in BOOLEAN /\ Cr!First(row, val) = <<row, val>>
    BY <1>2 DEF Cr!Values, Cr!Flags, Cr!First
  <2>2. QED BY <1>2, <2>1, CrCmdsAre DEF CrVals
<1>3. CASE row = "out"
  <2>1. val \in CrOuts /\ Cr!First(row, val) = <<"out", val>>
    BY <1>3, CrSame DEF Cr!Values, Cr!Flags, Cr!First
  <2>2. QED BY <1>3, <2>1, CrCmdsAre DEF CrVals
<1>4. CASE row = "mode"
  <2>1. val \in {0, 1, 2} /\ Cr!First(row, val) = (IF val = 2 THEN <<"eq", FALSE>> ELSE <<"select", val>>)
    BY <1>4, CrSame DEF Cr!Values, Cr!Flags, Cr!First, Cr!Off
  <2>2. <<"eq", FALSE>> \in CrCmds /\ <<"select", 0>> \in CrCmds /\ <<"select", 1>> \in CrCmds
    BY CrCmdsAre
  <2>3. QED BY <1>4, <2>1, <2>2 DEF CrVals
<1>5. CASE row = "band"
  <2>1. val \in {0, 1} /\ Cr!First(row, val) = <<"curve", val>>
    BY <1>5 DEF Cr!Values, Cr!Flags, Cr!First
  <2>2. QED BY <1>5, <2>1, CrCmdsAre DEF CrVals
<1>6. CASE row = "preset"
  <2>1. val \in {0, 1} /\ Cr!First(row, val) = <<"curve", Cr!Tuned(val, crHeld.out)>>
    BY <1>6 DEF Cr!Values, Cr!Flags, Cr!First, Cr!TunedForRouting
  <2>2. Cr!Tuned(val, crHeld.out) \in {0, 1}
    BY <2>1 DEF Cr!Tuned
  <2>3. QED BY <1>6, <2>1, <2>2, CrCmdsAre DEF CrVals
<1>7. QED BY <1>1, <1>2, <1>3, <1>4, <1>5, <1>6

\* A preset is tuned for the output in use: with no routing under way, what is held of it is true.
LEMMA CrBegins ==
    ASSUME CrTyped, CrFollows, NEW w \in CrWriters, NEW row \in Cr!RowsOf, NEW val \in Cr!Values(row), Cr!Begin(w, row, val)
    PROVE  CrTyped' /\ CrFollows'
<1> DEFINE t == crThread[w]  cmd == Cr!First(row, val)  eq == crHw.eq
           half == [Cr!Resting EXCEPT !.step = "send", !.row = row, !.val = val]  r == [half EXCEPT !.cmd = cmd, !.eq = eq]
<1>1. /\ crLink = "ready" /\ t.step = "off" /\ crLast' = None
      /\ UNCHANGED <<crHw, crPend, crIn, crHeld, crLink, crStirred>>
  BY DEF Cr!Begin
<1>2. crThread' = [crThread EXCEPT ![w] = r]
  <2>1. r = [Cr!Resting EXCEPT !.step = "send", !.row = row, !.val = val, !.cmd = cmd, !.eq = eq]
    OBVIOUS
  <2>2. QED BY <2>1 DEF Cr!Begin
<1>3. /\ cmd \in CrCmds /\ val \in CrVals
      /\ row = "mode" => (val = 2 /\ cmd = <<"eq", FALSE>>) \/ (val \in {0, 1} /\ cmd = <<"select", val>>)
      /\ row = "band" => cmd = <<"curve", val>>
      /\ row = "preset" => cmd = <<"curve", Cr!Tuned(val, crHeld.out)>>
      /\ row \in {"direct", "sxfi", "out"} => cmd = <<row, val>>
  BY CrFirst
<1> HIDE DEF cmd
<1>4. /\ crHw \in CrHws /\ crHeld \in CrHelds /\ crPend \in Seq(CrCmds) /\ crIn \in Seq(CrFrames) /\ t \in CrRuns
      /\ eq \in BOOLEAN
  BY DEF CrTyped, CrHws
<1> HIDE DEF eq
<1>5. /\ half \in CrRuns /\ half.step = "send" /\ half.row = row /\ half.val = val /\ half.batch = <<>>
  <2>1. "send" \in CrSteps
    BY DEF CrSteps
  <2>2. QED BY <1>3, <2>1, CrStarts DEF CrRuns
<1> HIDE DEF half
<1>6. /\ r \in CrRuns /\ r.step = "send" /\ r.row = row /\ r.val = val /\ r.cmd = cmd /\ r.batch = <<>> /\ r.eq = eq
  BY <1>3, <1>4, <1>5 DEF CrRuns
<1> HIDE DEF r
<1>7. ASSUME CrSound(crHw, crHeld, crPend, crIn, crLink, crLast, t)
      PROVE  CrSound(crHw, crHeld, crPend, crIn, crLink, None, r)
  <2>1. t.batch = <<>> /\ CrPending(crHw, crPend, t) /\ CrTold(crHw, crHeld, crIn, crLink, t)
    BY <1>1, <1>7 DEF CrSound
  <2>2. CrView(crHeld, crIn, r) = CrView(crHeld, crIn, t) /\ Cr!Applied(crHeld, r.batch) = crHeld
    BY <1>4, <1>6, <2>1, CrViews
  <2>3. crHeld.out = crHw.out
    BY <1>1, <2>1 DEF CrTold
  <2>4. CrPending(crHw, crPend, r)
    BY <1>1, <2>1 DEF CrPending, CrOwing
  <2>5. CrTold(crHw, crHeld, crIn, crLink, r)
    BY <1>1, <2>1, <2>2, <2>3 DEF CrTold
  <2>6. CrCommanded(crHw, r)
    <3>1. row \in {"direct", "sxfi", "out", "mode", "band", "preset"}
      BY DEF Cr!RowsOf, Cr!Flags
    <3>2. CASE row = "mode"
      BY <1>3, <1>6, <3>2 DEF CrCommanded, eq
    <3>3. CASE row = "preset"
      BY <1>3, <1>6, <2>3, <3>3 DEF CrCommanded
    <3>4. CASE row \in {"band", "out"}
      BY <1>3, <1>6, <3>4 DEF CrCommanded
    <3>5. CASE row \in {"direct", "sxfi"}
      BY <1>3, <1>6, <3>5 DEF CrCommanded
    <3>6. QED BY <3>1, <3>2, <3>3, <3>4, <3>5
  <2>7. cmd # <<"eq", TRUE>>
    <3>1. CASE row = "mode"
      <4>1. cmd = <<"eq", FALSE>> \/ cmd = <<"select", val>>
        BY <1>3, <3>1
      <4>2. CASE cmd = <<"eq", FALSE>>
        <5>1. cmd[2] = FALSE
          BY <4>2
        <5>2. cmd = <<"eq", TRUE>> => cmd[2] = TRUE
          OBVIOUS
        <5>3. QED BY <5>1, <5>2, Zenon
      <4>3. CASE cmd = <<"select", val>>
        <5>1. cmd[1] = "select"
          BY <4>3
        <5>2. cmd = <<"eq", TRUE>> => cmd[1] = "eq"
          OBVIOUS
        <5>3. QED BY <5>1, <5>2
      <4>4. QED BY <4>1, <4>2, <4>3
    <3>2. CASE row # "mode"
      <4>1. row \in {"direct", "sxfi", "out", "band", "preset"}
        BY <3>2 DEF Cr!RowsOf, Cr!Flags
      <4>2. cmd[1] \in {row, "curve"}
        BY <1>3, <4>1
      <4>3. cmd[1] # "eq"
        BY <4>1, <4>2
      <4>4. cmd = <<"eq", TRUE>> => cmd[1] = "eq"
        OBVIOUS
      <4>5. QED BY <4>3, <4>4
    <3>3. QED BY <3>1, <3>2
  <2>8. CrLanding(crHw, crHeld, crPend, crIn, r)
    BY <1>6, <2>7 DEF CrLanding, CrOwing
  <2>9. CrAnswered(crIn, r)
    BY <1>6 DEF CrAnswered
  <2>10. QED BY <1>1, <1>6, <2>4, <2>5, <2>6, <2>8, <2>9 DEF CrSound
<1> HIDE DEF t
<1>8. QED BY <1>1, <1>2, <1>3, <1>4, <1>6, <1>7, CrWriterKept DEF t
\* The acknowledgement among the frames.
LEMMA CrAckAlone ==
    ASSUME NEW ack, NEW row, ack[1] = "ack", ack[2] = row
    PROVE  Cr!AckOf(row, <<ack>>) = {ack}
BY DEF Cr!AckOf

LEMMA CrSends ==
    ASSUME CrTyped, CrFollows, NEW w \in CrWriters, Cr!Send(w)
    PROVE  CrTyped' /\ CrFollows'
<1> DEFINE t == crThread[w]  cmd == t.cmd  held == Cr!Applied(crHeld, crIn)
<1>1. t.step = "send" /\ crHeld' = held /\ UNCHANGED <<crHw, crLink, crStirred, crLast>>
  BY DEF Cr!Send, Cr!ThreadKeep
<1>2. PICK ack \in Cr!Acks(cmd[1], cmd[2]) :
        /\ crIn' = <<ack>> /\ crPend' = IF ack[4] THEN Append(crPend, cmd) ELSE crPend
        /\ crThread' = [crThread EXCEPT ![w].step = "ack", ![w].took = ack[4]]
  BY DEF Cr!Send
<1>3. /\ crHw \in CrHws /\ crHeld \in CrHelds /\ crPend \in Seq(CrCmds) /\ crIn \in Seq(CrFrames) /\ t \in CrRuns
      /\ crThread \in [CrWriters -> CrRuns] /\ cmd \in CrCmds
  BY <1>1 DEF CrTyped
<1>4. /\ ack \in CrFrames /\ ack[4] \in BOOLEAN /\ ack = <<"ack", cmd[1], cmd[2], ack[4]>>
      /\ ~ack[4] => cmd[1] = "select"
  BY <1>3, CrAcksAre
<1>5. ack[1] = "ack" /\ ack[2] = cmd[1]
  BY <1>4
<1> DEFINE took == ack[4]  r == [t EXCEPT !.step = "ack", !.took = took]  pend == IF took THEN Append(crPend, cmd) ELSE crPend
           in == <<ack>>
<1>6. crThread' = [crThread EXCEPT ![w] = r]
  BY <1>2, <1>3
<1> HIDE DEF cmd, took
<1>7. /\ r \in CrRuns /\ r.step = "ack" /\ r.took = took /\ r.cmd = t.cmd /\ r.batch = t.batch
      /\ r.row = t.row /\ r.val = t.val /\ r.eq = t.eq
  <2>1. "ack" \in CrSteps /\ took \in BOOLEAN
    BY <1>4 DEF CrSteps, took
  <2>2. QED BY <1>3, <2>1 DEF CrRuns
<1> HIDE DEF r
<1>8. held \in CrHelds /\ pend \in Seq(CrCmds) /\ in \in Seq(CrFrames)
  BY <1>3, <1>4, CrApplies
<1>9. /\ took => Len(pend) = Len(crPend) + 1 /\ pend[Len(pend)] = cmd /\ \A i \in 1..Len(crPend) : pend[i] = crPend[i]
      /\ ~took => pend = crPend
  BY <1>3
<1>10. crPend' = pend /\ crIn' = in
  BY <1>2 DEF took
<1> HIDE DEF pend
<1>11. ASSUME CrSound(crHw, crHeld, crPend, crIn, crLink, crLast, t)
       PROVE  CrSound(crHw, held, pend, in, crLink, crLast, r)
  <2>1. /\ t.batch = <<>> /\ CrTold(crHw, crHeld, crIn, crLink, t)
        /\ CrCommanded(crHw, t) /\ CrLanding(crHw, crHeld, crPend, crIn, t)
        /\ crLink = "ready" /\ CrPending(crHw, crPend, t) /\ ~(crLast # None)
    BY <1>1, <1>11 DEF CrSound
  <2>2. CrView(crHeld, crIn, t) = held
    BY <1>3, <2>1, CrViews
  <2>3. CrView(held, in, r).mode = held.mode /\ CrView(held, in, r).out = held.out /\ Cr!Applied(held, r.batch) = held
    <3>1. CrView(held, in, r) = Cr!Applied(held, in) /\ Cr!Applied(held, r.batch) = held
      BY <1>7, <1>8, <2>1, CrViews
    <3>2. in = Append(<<>>, ack) /\ <<>> \in Seq(CrFrames)
      OBVIOUS
    <3>3. ~Cr!Tells(ack, "mode") /\ ~Cr!Tells(ack, "out")
      BY <1>5 DEF Cr!Tells
    <3>4. "mode" \in DOMAIN held /\ "out" \in DOMAIN held /\ Cr!Applied(held, <<>>) = held
      BY <1>8, CrHeldIs, CrAppliedNothing DEF CrFields
    <3> HIDE DEF in, held
    <3>5. ack \in CrFrames
      BY <1>4
    <3>6. Cr!Applied(held, Append(<<>>, ack))["mode"] = held["mode"]
      BY <3>2, <3>3, <3>4, <3>5, CrAppliedOneMore
    <3>7. Cr!Applied(held, Append(<<>>, ack))["out"] = held["out"]
      BY <3>2, <3>3, <3>4, <3>5, CrAppliedOneMore
    <3>8. QED BY <3>1, <3>2, <3>6, <3>7
  <2>4. CrPending(crHw, pend, r)
    <3>1. \A i \in 1..Len(crPend) : crPend[i] = <<"out", crHw.out>>
      BY <1>1, <2>1 DEF CrPending, CrOwing
    <3>2. QED BY <1>3, <1>7, <1>9, <3>1 DEF CrPending, CrOwing, cmd
  <2>5. CrAnswered(in, r)
    <3>1. Cr!AckOf(cmd[1], in) = {<<"ack", cmd[1], cmd[2], took>>}
      BY <1>4, <1>5, CrAckAlone DEF took
    <3>2. QED BY <1>7, <2>1, <3>1 DEF CrAnswered, cmd
  <2>6. CrTold(crHw, held, in, crLink, r)
    BY <1>1, <1>7, <2>1, <2>2, <2>3 DEF CrTold
  <2>7. CrCommanded(crHw, r)
    BY <1>1, <1>7, <2>1 DEF CrCommanded
  <2>8. CrLanding(crHw, held, pend, in, r)
    <3>1. t.cmd = <<"eq", TRUE>> => held.mode = None \/ crHw.mode = t.val
      BY <1>1, <2>1, <2>2 DEF CrLanding
    <3>2. took => pend # <<>> /\ pend[Len(pend)] = r.cmd
      BY <1>3, <1>7, <1>8, <1>9 DEF cmd
    <3>3. ~took => r.cmd[1] = "select"
      BY <1>4, <1>7 DEF took, cmd
    <3>4. QED BY <1>7, <2>3, <3>1, <3>2, <3>3 DEF CrLanding, CrOwing
  <2>9. QED BY <1>7, <2>1, <2>4, <2>5, <2>6, <2>7, <2>8 DEF CrSound
<1>12. r.cmd \in CrCmds
  BY <1>3, <1>7 DEF cmd
<1> HIDE DEF held, in, t
<1>13. QED BY <1>1, <1>6, <1>7, <1>8, <1>10, <1>11, <1>12, CrWriterKept DEF t

LEMMA CrDrains ==
    ASSUME CrTyped, CrFollows, NEW w \in CrWriters, Cr!Drain(w)
    PROVE  CrTyped' /\ CrFollows'
<1> DEFINE t == crThread[w]  r == [t EXCEPT !.batch = crIn]  in == <<>>
<1>1. /\ t.step \in {"ack", "look", "settle", "confirm"} /\ t.batch = <<>> /\ crIn # <<>> /\ crIn' = in
      /\ UNCHANGED <<crHw, crHeld, crPend, crLink, crStirred, crLast>>
  BY DEF Cr!Drain, Cr!ThreadKeep
<1>2. /\ crHw \in CrHws /\ crHeld \in CrHelds /\ crPend \in Seq(CrCmds) /\ crIn \in Seq(CrFrames) /\ t \in CrRuns
      /\ crThread \in [CrWriters -> CrRuns] /\ t.cmd \in CrCmds
  BY <1>1 DEF CrTyped
<1>3. crThread' = [crThread EXCEPT ![w] = r]
  BY <1>2 DEF Cr!Drain
<1>4. /\ r \in CrRuns /\ r.step = t.step /\ r.took = t.took /\ r.cmd = t.cmd /\ r.batch = crIn
      /\ r.row = t.row /\ r.val = t.val /\ r.eq = t.eq
  BY <1>2 DEF CrRuns
<1> HIDE DEF r
<1>5. in \in Seq(CrFrames)
  OBVIOUS
<1>6. ASSUME CrSound(crHw, crHeld, crPend, crIn, crLink, crLast, t)
      PROVE  CrSound(crHw, crHeld, crPend, in, crLink, crLast, r)
  <2>1. /\ CrAnswered(crIn, t) /\ CrTold(crHw, crHeld, crIn, crLink, t)
        /\ CrCommanded(crHw, t) /\ CrLanding(crHw, crHeld, crPend, crIn, t)
        /\ crLink = "ready" /\ CrPending(crHw, crPend, t) /\ ~(crLast # None)
    BY <1>1, <1>6 DEF CrSound
  <2>2. CrView(crHeld, crIn, t) = Cr!Applied(crHeld, crIn)
    BY <1>1, <1>2, CrViews
  <2>3. CrView(crHeld, in, r) = Cr!Applied(crHeld, crIn) /\ Cr!Applied(crHeld, r.batch) = Cr!Applied(crHeld, crIn)
    BY <1>2, <1>4, <1>5, CrViews
  <2>4. CrPending(crHw, crPend, r)
    BY <1>4, <2>1 DEF CrPending, CrOwing
  <2>5. CrAnswered(in, r)
    BY <1>1, <1>4, <2>1 DEF CrAnswered
  <2>6. CrTold(crHw, crHeld, in, crLink, r)
    BY <1>4, <2>1, <2>2, <2>3 DEF CrTold
  <2>7. CrCommanded(crHw, r)
    BY <1>4, <2>1 DEF CrCommanded
  <2>8. CrLanding(crHw, crHeld, crPend, in, r)
    BY <1>4, <2>1, <2>2, <2>3 DEF CrLanding, CrOwing
  <2>9. QED BY <1>1, <1>4, <2>1, <2>4, <2>5, <2>6, <2>7, <2>8 DEF CrSound
<1> HIDE DEF in, t
<1>7. QED BY <1>1, <1>2, <1>3, <1>4, <1>5, <1>6, CrWriterKept DEF t
LEMMA CrNoted ==
    ASSUME NEW held \in CrHelds, NEW cmd \in CrCmds
    PROVE  /\ Cr!Noted(held, cmd) \in CrHelds
           /\ Cr!Noted(held, cmd).mode = held.mode /\ Cr!Noted(held, cmd).out = held.out
           /\ cmd[1] = "curve" => Cr!Noted(held, cmd).curve = cmd[2]
<1>1. cmd[1] = "curve" => cmd[2] \in {0, 1}
  BY CrCmdIs
<1>2. cmd[1] = "eq" => cmd[2] \in BOOLEAN
  BY CrCmdIs
<1>3. CASE cmd[1] = "curve"
  <2>1. Cr!Noted(held, cmd) = [held EXCEPT !["curve"] = cmd[2]]
    BY <1>3 DEF Cr!Noted
  <2>2. QED BY <1>1, <1>3, <2>1 DEF CrHelds
<1>4. CASE cmd[1] = "eq"
  <2>1. Cr!Noted(held, cmd) = [held EXCEPT !["eq"] = cmd[2]]
    BY <1>4 DEF Cr!Noted
  <2>2. QED BY <1>2, <1>4, <2>1 DEF CrHelds
<1>5. CASE cmd[1] \notin {"curve", "eq"}
  BY <1>5 DEF Cr!Noted
<1>6. QED BY <1>3, <1>4, <1>5

\* What a thread drained is applied, and its acknowledgement found among it: what a taken command
\* asked for is noted, and a refused one is a mode.
LEMMA CrApplying ==
    ASSUME CrTyped, CrFollows, NEW w \in CrWriters, Cr!Apply(w)
    PROVE  CrTyped' /\ CrFollows'
<1> DEFINE t == crThread[w]  cmd == t.cmd  read == Cr!Applied(crHeld, t.batch)
           acks == IF t.step = "ack" THEN Cr!AckOf(cmd[1], t.batch) ELSE {}
<1>1. /\ t.batch # <<>> /\ UNCHANGED <<crHw, crPend, crIn, crLink, crStirred>>
      /\ \/ acks = {} /\ crHeld' = read /\ Cr!To(w, t.step) /\ crLast' = crLast
         \/ (\E a \in acks : a[4]) /\ crHeld' = Cr!Noted(read, cmd) /\ Cr!To(w, Cr!Following(cmd)) /\ crLast' = crLast
         \/ acks # {} /\ (\A a \in acks : ~a[4]) /\ crHeld' = read /\ Cr!End(w, FALSE)
  BY DEF Cr!Apply, Cr!ThreadKeep
<1>2. /\ crHw \in CrHws /\ crHeld \in CrHelds /\ crPend \in Seq(CrCmds) /\ crIn \in Seq(CrFrames) /\ t \in CrRuns
      /\ t.batch \in Seq(CrFrames) /\ t.step \in CrSteps
      /\ t.step # "off" => cmd \in CrCmds
  BY DEF CrTyped, CrRuns
<1>3. read \in CrHelds /\ read.curve = crHeld.curve
  BY <1>2, CrApplies
<1>4. ASSUME CrSound(crHw, crHeld, crPend, crIn, crLink, crLast, t)
      PROVE  /\ t.step \in {"ack", "look", "settle", "confirm"} /\ crLink = "ready" /\ ~(crLast # None)
             /\ CrAnswered(crIn, t) /\ CrTold(crHw, crHeld, crIn, crLink, t)
             /\ CrCommanded(crHw, t) /\ CrLanding(crHw, crHeld, crPend, crIn, t) /\ CrPending(crHw, crPend, t)
             /\ CrView(crHeld, crIn, t) = Cr!Applied(read, crIn)
             /\ t.step = "ack" => acks = {<<"ack", cmd[1], cmd[2], t.took>>}
             /\ t.step # "ack" => acks = {}
  <2>1. t.step \in {"ack", "look", "settle", "confirm"}
    BY <1>1, <1>2, <1>4 DEF CrSound, CrSteps
  <2>2. /\ crLink = "ready" /\ ~(crLast # None)
        /\ CrAnswered(crIn, t) /\ CrTold(crHw, crHeld, crIn, crLink, t)
        /\ CrCommanded(crHw, t) /\ CrLanding(crHw, crHeld, crPend, crIn, t) /\ CrPending(crHw, crPend, t)
    BY <1>4, <2>1 DEF CrSound
  <2>3. CrView(crHeld, crIn, t) = Cr!Applied(read, crIn)
    BY DEF CrView
  <2>4. t.step = "ack" => acks = {<<"ack", cmd[1], cmd[2], t.took>>}
    BY <1>1, <2>2 DEF CrAnswered
  <2>5. t.step # "ack" => acks = {}
    OBVIOUS
  <2>6. QED BY <2>1, <2>2, <2>3, <2>4, <2>5
<1> HIDE DEF acks
<1>5. CASE acks = {} /\ crHeld' = read /\ Cr!To(w, t.step) /\ crLast' = crLast
  <2>1. PICK r \in CrRuns :
          /\ crThread' = [crThread EXCEPT ![w] = r]
          /\ r.step = t.step /\ r.batch = <<>> /\ r.cmd = t.cmd /\ r.took = t.took
          /\ r.row = t.row /\ r.val = t.val /\ r.eq = t.eq
    BY <1>2, <1>5, CrToIs
  <2>2. ASSUME CrSound(crHw, crHeld, crPend, crIn, crLink, crLast, t)
        PROVE  CrSound(crHw, read, crPend, crIn, crLink, crLast, r)
    <3>1. /\ t.step \in {"look", "settle", "confirm"} /\ crLink = "ready" /\ ~(crLast # None)
          /\ CrTold(crHw, crHeld, crIn, crLink, t)
          /\ CrCommanded(crHw, t) /\ CrLanding(crHw, crHeld, crPend, crIn, t) /\ CrPending(crHw, crPend, t)
          /\ CrView(crHeld, crIn, t) = Cr!Applied(read, crIn)
      BY <1>4, <1>5, <2>2
    <3>2. CrView(read, crIn, r) = Cr!Applied(read, crIn) /\ Cr!Applied(read, r.batch) = read
      BY <1>2, <1>3, <2>1, CrViews
    <3>3. CrPending(crHw, crPend, r)
      BY <2>1, <3>1 DEF CrPending, CrOwing
    <3>4. CrAnswered(crIn, r)
      BY <2>1, <3>1 DEF CrAnswered
    <3>5. CrTold(crHw, read, crIn, crLink, r)
      BY <2>1, <3>1, <3>2 DEF CrTold
    <3>6. CrCommanded(crHw, r)
      BY <2>1, <3>1 DEF CrCommanded
    <3>7. CrLanding(crHw, read, crPend, crIn, r)
      BY <1>3, <2>1, <3>1, <3>2 DEF CrLanding, CrOwing
    <3>8. QED BY <2>1, <3>1, <3>3, <3>4, <3>5, <3>6, <3>7 DEF CrSound
  <2>3. r.step # "off" => r.cmd \in CrCmds
    BY <1>2, <2>1
  <2> HIDE DEF read, t
  <2>4. QED BY <1>1, <1>2, <1>3, <1>5, <2>1, <2>2, <2>3, CrWriterKept DEF t
<1>6. CASE (\E a \in acks : a[4]) /\ crHeld' = Cr!Noted(read, cmd) /\ Cr!To(w, Cr!Following(cmd)) /\ crLast' = crLast
  <2> DEFINE held == Cr!Noted(read, cmd)  step == Cr!Following(cmd)
  <2>1. t.step = "ack" /\ cmd \in CrCmds
    BY <1>2, <1>6 DEF acks
  <2>2. /\ step \in {"look", "reread", "settle"} /\ step \in CrSteps
        /\ cmd[1] = "select" => step = "look"
        /\ cmd = <<"eq", TRUE>> => step = "reread"
        /\ cmd[1] # "select" /\ cmd # <<"eq", TRUE>> => step = "settle"
    BY <2>1, CrFollowing DEF CrSteps
  <2>3. held \in CrHelds /\ held.mode = read.mode /\ held.out = read.out /\ (cmd[1] = "curve" => held.curve = cmd[2])
    BY <1>3, <2>1, CrNoted
  <2>4. PICK r \in CrRuns :
          /\ crThread' = [crThread EXCEPT ![w] = r]
          /\ r.step = step /\ r.batch = <<>> /\ r.cmd = t.cmd /\ r.took = t.took
          /\ r.row = t.row /\ r.val = t.val /\ r.eq = t.eq
    BY <1>6, <2>2, CrToIs
  <2> HIDE DEF held, step
  <2>5. ASSUME CrSound(crHw, crHeld, crPend, crIn, crLink, crLast, t)
        PROVE  CrSound(crHw, held, crPend, crIn, crLink, crLast, r)
    <3>1. /\ crLink = "ready" /\ ~(crLast # None)
          /\ CrTold(crHw, crHeld, crIn, crLink, t)
          /\ CrCommanded(crHw, t) /\ CrLanding(crHw, crHeld, crPend, crIn, t) /\ CrPending(crHw, crPend, t)
          /\ CrView(crHeld, crIn, t) = Cr!Applied(read, crIn)
          /\ acks = {<<"ack", cmd[1], cmd[2], t.took>>}
      BY <1>4, <2>1, <2>5
    <3>2. t.took
      BY <1>6, <3>1
    <3>3. CrView(held, crIn, r) = Cr!Applied(held, crIn) /\ Cr!Applied(held, r.batch) = held
      BY <1>2, <2>3, <2>4, CrViews
    <3>4. Cr!Applied(held, crIn).mode = Cr!Applied(read, crIn).mode /\ Cr!Applied(held, crIn).out = Cr!Applied(read, crIn).out
      <4>1. "mode" \in DOMAIN held \cap DOMAIN read /\ "out" \in DOMAIN held \cap DOMAIN read
        BY <1>3, <2>3, CrHeldIs DEF CrFields
      <4> HIDE DEF read
      <4>2. QED BY <2>3, <4>1, CrAppliedAgree
    <3>5. CrPending(crHw, crPend, r)
      BY <2>1, <2>2, <2>4, <3>1 DEF CrPending, CrOwing
    <3>6. CrAnswered(crIn, r)
      BY <2>2, <2>4 DEF CrAnswered
    <3>7. CrTold(crHw, held, crIn, crLink, r)
      BY <2>1, <2>2, <2>3, <2>4, <3>1, <3>3, <3>4 DEF CrTold
    <3>8. CrCommanded(crHw, r)
      BY <2>1, <2>4, <3>1, CrCommandFollows DEF step
    <3>9. CrLanding(crHw, held, crPend, crIn, r)
      <4>1. CrOwing(r) /\ CrOwing(t)
        BY <2>1, <2>2, <2>4, <3>2 DEF CrOwing
      <4>2. r.step = "settle" => cmd # <<"eq", TRUE>> /\ r.step # "ack"
        BY <2>2, <2>4
      <4>3. r.cmd = <<"eq", TRUE>> => CrView(held, crIn, r).mode = None \/ crHw.mode = r.val
        BY <2>1, <2>4, <3>1, <3>3, <3>4 DEF CrLanding
      <4>4. r.step # "ack"
        BY <2>2, <2>4
      <4>5. t.cmd[1] \in {"out", "curve"} => (crPend # <<>> /\ crPend[Len(crPend)] = t.cmd) \/ crHw[t.cmd[1]] = t.cmd[2]
        BY <3>1, <4>1 DEF CrLanding
      <4>6. QED BY <2>3, <2>4, <3>2, <4>2, <4>3, <4>4, <4>5 DEF CrLanding
    <3>10. QED BY <2>2, <2>4, <3>1, <3>5, <3>6, <3>7, <3>8, <3>9 DEF CrSound
  <2>6. r.cmd \in CrCmds /\ crHeld' = held
    BY <1>6, <2>1, <2>4 DEF held
  <2> HIDE DEF t
  <2>7. QED BY <1>1, <1>2, <1>6, <2>3, <2>4, <2>5, <2>6, CrWriterKept DEF t
<1>7. CASE acks # {} /\ (\A a \in acks : ~a[4]) /\ crHeld' = read /\ Cr!End(w, FALSE)
  <2>1. PICK last : \E r \in CrRuns :
          /\ crThread' = [crThread EXCEPT ![w] = r] /\ r.step = "off" /\ r.batch = <<>>
          /\ crLast' = last /\ last.ok = FALSE /\ last.row = t.row /\ last.val = t.val /\ last.eq = t.eq
    BY <1>7, CrFailed
  <2>2. PICK r \in CrRuns :
          /\ crThread' = [crThread EXCEPT ![w] = r] /\ r.step = "off" /\ r.batch = <<>>
          /\ crLast' = last /\ last.ok = FALSE /\ last.row = t.row /\ last.val = t.val /\ last.eq = t.eq
    BY <2>1
  <2>3. ASSUME CrSound(crHw, crHeld, crPend, crIn, crLink, crLast, t)
        PROVE  CrSound(crHw, read, crPend, crIn, crLink, last, r)
    <3>1. t.step = "ack"
      BY <1>7 DEF acks
    <3>2. /\ crLink = "ready" /\ CrTold(crHw, crHeld, crIn, crLink, t)
          /\ CrCommanded(crHw, t) /\ CrLanding(crHw, crHeld, crPend, crIn, t) /\ CrPending(crHw, crPend, t)
          /\ CrView(crHeld, crIn, t) = Cr!Applied(read, crIn)
          /\ acks = {<<"ack", cmd[1], cmd[2], t.took>>}
      BY <1>4, <2>3, <3>1
    <3>3. ~t.took
      BY <1>7, <3>2
    <3>4. cmd[1] = "select"
      BY <3>1, <3>2, <3>3 DEF CrLanding
    <3>5. t.row = "mode" /\ crHw.eq = t.eq
      BY <3>2, <3>4, CrSelects
    <3>6. CrView(read, crIn, r) = Cr!Applied(read, crIn) /\ Cr!Applied(read, r.batch) = read
      BY <1>2, <1>3, <2>2, CrViews
    <3>7. CrPending(crHw, crPend, r)
      BY <3>2, <3>3 DEF CrPending, CrOwing
    <3>8. CrTold(crHw, read, crIn, crLink, r)
      BY <2>2, <3>2, <3>5, <3>6 DEF CrTold
    <3>9. CrEnded(crHw, read, last)
      BY <2>2, <3>5 DEF CrEnded
    <3>10. CrAnswered(crIn, r) /\ CrLanding(crHw, read, crPend, crIn, r)
      BY <2>2 DEF CrAnswered, CrLanding, CrOwing
    <3>11. QED BY <2>2, <3>2, <3>7, <3>8, <3>9, <3>10 DEF CrSound
  <2> HIDE DEF read, t
  <2>4. QED BY <1>1, <1>2, <1>3, <1>7, <2>2, <2>3, CrWriterKept DEF t
<1>8. QED BY <1>1, <1>5, <1>6, <1>7

\* No write waits for an acknowledgement that is not there: with one writer nobody else had it.
LEMMA CrIsAnswered ==
    ASSUME CrTyped, CrFollows, NEW w \in CrWriters, Cr!NoAck(w)
    PROVE  CrTyped' /\ CrFollows'
<1> DEFINE t == crThread[w]
<1>1. /\ t.step = "ack" /\ t.batch = <<>> /\ crIn = <<>> /\ Cr!End(w, FALSE)
      /\ UNCHANGED <<crHw, crPend, crIn, crHeld, crLink, crStirred>>
  BY DEF Cr!NoAck, Cr!Drained, Cr!ThreadKeep
<1>2. PICK last : \E r \in CrRuns :
        /\ crThread' = [crThread EXCEPT ![w] = r] /\ r.step = "off" /\ r.batch = <<>>
        /\ crLast' = last /\ last.ok = FALSE /\ last.row = t.row /\ last.val = t.val /\ last.eq = t.eq
  BY <1>1, CrFailed
<1>3. PICK r \in CrRuns : crThread' = [crThread EXCEPT ![w] = r] /\ r.step = "off" /\ crLast' = last
  BY <1>2
<1>4. crHeld \in CrHelds /\ crPend \in Seq(CrCmds) /\ crIn \in Seq(CrFrames)
  BY DEF CrTyped
<1>5. ~CrSound(crHw, crHeld, crPend, crIn, crLink, crLast, t)
  <2>1. Cr!AckOf(t.cmd[1], <<>>) = {}
    BY DEF Cr!AckOf
  <2>2. ~CrAnswered(crIn, t)
    BY <1>1, <2>1 DEF CrAnswered
  <2>3. QED BY <2>2 DEF CrSound
<1> HIDE DEF t
<1>6. QED BY <1>1, <1>3, <1>4, <1>5, CrWriterKept DEF t

\* A mode is looked at when the card has said what it will; what is switched on next is the mode
\* that is live, as far as the card ever told.
LEMMA CrLooks ==
    ASSUME CrTyped, CrFollows, NEW w \in CrWriters, Cr!Look(w)
    PROVE  CrTyped' /\ CrFollows'
<1> DEFINE t == crThread[w]
<1>1. /\ t.step = "look" /\ t.batch = <<>> /\ crIn = <<>> /\ crPend = <<>>
      /\ UNCHANGED <<crHw, crPend, crIn, crHeld, crLink, crStirred>>
      /\ \/ Cr!Stays(t.val) /\ Cr!End(w, FALSE)
         \/ /\ ~Cr!Stays(t.val) /\ crLast' = crLast
            /\ crThread' = [crThread EXCEPT ![w].step = "send", ![w].cmd = <<"eq", TRUE>>]
  BY DEF Cr!Look, Cr!Drained, Cr!ThreadKeep
<1>2. /\ crHw \in CrHws /\ crHeld \in CrHelds /\ crPend \in Seq(CrCmds) /\ crIn \in Seq(CrFrames) /\ t \in CrRuns
      /\ crThread \in [CrWriters -> CrRuns]
  BY DEF CrTyped
<1>3. ASSUME CrSound(crHw, crHeld, crPend, crIn, crLink, crLast, t)
      PROVE  /\ t.row = "mode" /\ t.val \in {0, 1} /\ crHw.eq = t.eq /\ crLink = "ready" /\ ~(crLast # None)
             /\ crHeld.mode \in {None, crHw.mode} /\ crHeld.out = crHw.out
  <2>1. CrCommanded(crHw, t) /\ CrTold(crHw, crHeld, crIn, crLink, t) /\ crLink = "ready" /\ ~(crLast # None)
    BY <1>1, <1>3 DEF CrSound
  <2>2. t.row = "mode" /\ t.val \in {0, 1} /\ crHw.eq = t.eq
    BY <1>1, <2>1, CrCommandedIs
  <2>3. CrView(crHeld, crIn, t) = crHeld
    BY <1>1, <1>2, CrViews
  <2>4. QED BY <2>1, <2>2, <2>3 DEF CrTold
<1>4. CASE Cr!Stays(t.val) /\ Cr!End(w, FALSE)
  <2>1. PICK last : \E r \in CrRuns :
          /\ crThread' = [crThread EXCEPT ![w] = r] /\ r.step = "off" /\ r.batch = <<>>
          /\ crLast' = last /\ last.ok = FALSE /\ last.row = t.row /\ last.val = t.val /\ last.eq = t.eq
    BY <1>4, CrFailed
  <2>2. PICK r \in CrRuns :
          /\ crThread' = [crThread EXCEPT ![w] = r] /\ r.step = "off" /\ r.batch = <<>>
          /\ crLast' = last /\ last.ok = FALSE /\ last.row = t.row /\ last.val = t.val /\ last.eq = t.eq
    BY <2>1
  <2>3. ASSUME CrSound(crHw, crHeld, crPend, crIn, crLink, crLast, t)
        PROVE  CrSound(crHw, crHeld, crPend, crIn, crLink, last, r)
    <3>1. CrView(crHeld, crIn, r) = crHeld /\ Cr!Applied(crHeld, r.batch) = crHeld
      BY <1>1, <1>2, <2>2, CrViews
    <3>2. CrPending(crHw, crPend, r)
      BY <1>1 DEF CrPending
    <3>3. CrTold(crHw, crHeld, crIn, crLink, r)
      BY <1>3, <2>3, <3>1 DEF CrTold
    <3>4. CrEnded(crHw, crHeld, last)
      BY <1>3, <2>2, <2>3 DEF CrEnded
    <3>5. CrAnswered(crIn, r) /\ CrLanding(crHw, crHeld, crPend, crIn, r)
      BY <2>2 DEF CrAnswered, CrLanding, CrOwing
    <3>6. QED BY <1>3, <2>2, <2>3, <3>2, <3>3, <3>4, <3>5 DEF CrSound
  <2> HIDE DEF t
  <2>4. QED BY <1>1, <1>2, <2>2, <2>3, CrWriterKept DEF t
<1>5. CASE /\ ~Cr!Stays(t.val) /\ crLast' = crLast
           /\ crThread' = [crThread EXCEPT ![w].step = "send", ![w].cmd = <<"eq", TRUE>>]
  <2> DEFINE cmd == <<"eq", TRUE>>  r == [t EXCEPT !.step = "send", !.cmd = cmd]
  <2>1. crThread' = [crThread EXCEPT ![w] = r]
    BY <1>2, <1>5
  <2>2. cmd \in CrCmds /\ "send" \in CrSteps
    BY CrCmdsAre DEF CrSteps
  <2> HIDE DEF cmd
  <2>3. /\ r \in CrRuns /\ r.step = "send" /\ r.cmd = cmd /\ r.took = t.took /\ r.batch = <<>>
        /\ r.row = t.row /\ r.val = t.val /\ r.eq = t.eq
    BY <1>1, <1>2, <2>2 DEF CrRuns
  <2> HIDE DEF r
  <2>4. ASSUME CrSound(crHw, crHeld, crPend, crIn, crLink, crLast, t)
        PROVE  CrSound(crHw, crHeld, crPend, crIn, crLink, crLast, r)
    <3>1. CrView(crHeld, crIn, r) = crHeld /\ Cr!Applied(crHeld, r.batch) = crHeld
      BY <1>1, <1>2, <2>3, CrViews
    <3>2. CrPending(crHw, crPend, r)
      BY <1>1 DEF CrPending
    <3>3. CrTold(crHw, crHeld, crIn, crLink, r)
      BY <1>3, <2>4, <3>1 DEF CrTold
    <3>4. CrCommanded(crHw, r)
      BY <1>3, <2>3, <2>4 DEF CrCommanded, cmd
    <3>5. crHeld.mode = None \/ crHw.mode = t.val
      BY <1>3, <1>5, <2>4 DEF Cr!Stays
    <3>6. CrAnswered(crIn, r)
      BY <2>3 DEF CrAnswered
    <3>7. CrLanding(crHw, crHeld, crPend, crIn, r)
      BY <2>3, <3>1, <3>5 DEF CrLanding, CrOwing
    <3>8. QED BY <1>3, <2>3, <2>4, <3>2, <3>3, <3>4, <3>6, <3>7 DEF CrSound
  <2> HIDE DEF t
  <2>5. QED BY <1>1, <1>2, <1>5, <2>1, <2>2, <2>3, <2>4, CrWriterKept DEF t
<1>6. QED BY <1>1, <1>4, <1>5

\* What is read again of the equaliser is what it is.
LEMMA CrRereads ==
    ASSUME CrTyped, CrFollows, NEW w \in CrWriters, Cr!Reread(w)
    PROVE  CrTyped' /\ CrFollows'
<1> DEFINE t == crThread[w]  read == Cr!Applied(crHeld, crIn)  held == [read EXCEPT !.eq = crHw.eq, !.curve = crHw.curve]
           in == <<>>
<1>1. /\ t.step = "reread" /\ crPend = <<>> /\ crHeld' = held /\ crIn' = in /\ Cr!To(w, "settle")
      /\ UNCHANGED <<crHw, crPend, crLink, crStirred, crLast>>
  BY DEF Cr!Reread, Cr!ThreadKeep
<1>2. /\ crHw \in CrHws /\ crHeld \in CrHelds /\ crPend \in Seq(CrCmds) /\ crIn \in Seq(CrFrames) /\ t \in CrRuns
      /\ t.cmd \in CrCmds /\ in \in Seq(CrFrames)
  BY <1>1 DEF CrTyped
<1>3. read \in CrHelds /\ crHw.eq \in BOOLEAN /\ crHw.curve \in {0, 1}
  BY <1>2, CrApplies DEF CrHws
<1> HIDE DEF read
<1>4. held \in CrHelds /\ held.mode = read.mode /\ held.out = read.out /\ held.curve = crHw.curve
  BY <1>3 DEF CrHelds
<1> HIDE DEF held
<1>5. PICK r \in CrRuns :
        /\ crThread' = [crThread EXCEPT ![w] = r]
        /\ r.step = "settle" /\ r.batch = <<>> /\ r.cmd = t.cmd /\ r.took = t.took
        /\ r.row = t.row /\ r.val = t.val /\ r.eq = t.eq
  <2>1. "settle" \in CrSteps
    BY DEF CrSteps
  <2>2. QED BY <1>1, <2>1, CrToIs
<1>6. ASSUME CrSound(crHw, crHeld, crPend, crIn, crLink, crLast, t)
      PROVE  CrSound(crHw, held, crPend, in, crLink, crLast, r)
  <2>1. /\ CrCommanded(crHw, t) /\ CrTold(crHw, crHeld, crIn, crLink, t) /\ CrLanding(crHw, crHeld, crPend, crIn, t)
        /\ crLink = "ready" /\ ~(crLast # None) /\ t.batch = <<>>
    BY <1>1, <1>6 DEF CrSound
  <2>2. t.row = "mode" /\ t.val \in {0, 1} /\ t.cmd = <<"eq", TRUE>>
    BY <1>1, <2>1, CrCommandedIs
  <2>3. CrView(crHeld, crIn, t) = read
    BY <1>2, <2>1, CrViews DEF read
  <2>4. CrView(held, in, r) = held /\ Cr!Applied(held, r.batch) = held
    BY <1>2, <1>4, <1>5, CrViews
  <2>5. CrPending(crHw, crPend, r)
    BY <1>1 DEF CrPending
  <2>6. CrTold(crHw, held, in, crLink, r)
    BY <1>4, <1>5, <2>1, <2>2, <2>3, <2>4 DEF CrTold
  <2>7. CrCommanded(crHw, r)
    BY <1>5, <2>2 DEF CrCommanded
  <2>8. t.cmd[1] = "eq"
    BY <2>2
  <2>9. CrLanding(crHw, held, crPend, in, r)
    BY <1>1, <1>4, <1>5, <2>1, <2>2, <2>3, <2>4, <2>8 DEF CrLanding, CrOwing
  <2>10. CrAnswered(in, r)
    BY <1>5 DEF CrAnswered
  <2>11. QED BY <1>5, <2>1, <2>5, <2>6, <2>7, <2>9, <2>10 DEF CrSound
<1> HIDE DEF in, t
<1>7. QED BY <1>1, <1>2, <1>4, <1>5, <1>6, CrWriterKept DEF t

\* A write that has settled has landed.
LEMMA CrSettles ==
    ASSUME CrTyped, CrFollows, NEW w \in CrWriters, Cr!Settled(w)
    PROVE  CrTyped' /\ CrFollows'
<1> DEFINE t == crThread[w]
<1>1. /\ t.step = "settle" /\ t.batch = <<>> /\ crIn = <<>> /\ (crPend = <<>> \/ t.row = "out")
      /\ UNCHANGED <<crHw, crPend, crIn, crHeld, crLink, crStirred>>
      /\ \/ t.row = "out" /\ Cr!To(w, "confirm") /\ crLast' = crLast
         \/ t.row # "out" /\ Cr!End(w, TRUE)
  BY DEF Cr!Settled, Cr!Drained, Cr!ThreadKeep, Cr!NeedsConfirming
<1>2. /\ crHw \in CrHws /\ crHeld \in CrHelds /\ crPend \in Seq(CrCmds) /\ crIn \in Seq(CrFrames) /\ t \in CrRuns
      /\ t.cmd \in CrCmds
  BY <1>1 DEF CrTyped
<1>3. ASSUME CrSound(crHw, crHeld, crPend, crIn, crLink, crLast, t)
      PROVE  /\ crLink = "ready" /\ ~(crLast # None) /\ CrPending(crHw, crPend, t)
             /\ CrTold(crHw, crHeld, crIn, crLink, t) /\ CrCommanded(crHw, t) /\ CrLanding(crHw, crHeld, crPend, crIn, t)
             /\ CrView(crHeld, crIn, t) = crHeld
  <2>1. /\ CrPending(crHw, crPend, t)
        /\ CrTold(crHw, crHeld, crIn, crLink, t) /\ CrCommanded(crHw, t) /\ CrLanding(crHw, crHeld, crPend, crIn, t)
        /\ crLink = "ready" /\ ~(crLast # None)
    BY <1>1, <1>3 DEF CrSound
  <2>2. CrView(crHeld, crIn, t) = crHeld
    BY <1>1, <1>2, CrViews
  <2>3. QED BY <2>1, <2>2
<1>4. CASE t.row = "out" /\ Cr!To(w, "confirm") /\ crLast' = crLast
  <2>1. PICK r \in CrRuns :
          /\ crThread' = [crThread EXCEPT ![w] = r]
          /\ r.step = "confirm" /\ r.batch = <<>> /\ r.cmd = t.cmd /\ r.took = t.took
          /\ r.row = t.row /\ r.val = t.val /\ r.eq = t.eq
    <3>1. "confirm" \in CrSteps
      BY DEF CrSteps
    <3>2. QED BY <1>4, <3>1, CrToIs
  <2>2. ASSUME CrSound(crHw, crHeld, crPend, crIn, crLink, crLast, t)
        PROVE  CrSound(crHw, crHeld, crPend, crIn, crLink, crLast, r)
    <3>1. CrView(crHeld, crIn, r) = crHeld /\ Cr!Applied(crHeld, r.batch) = crHeld
      BY <1>1, <1>2, <2>1, CrViews
    <3>2. CrPending(crHw, crPend, r)
      BY <1>1, <1>3, <2>1, <2>2 DEF CrPending, CrOwing
    <3>3. CrTold(crHw, crHeld, crIn, crLink, r)
      BY <1>3, <1>4, <2>1, <2>2, <3>1 DEF CrTold
    <3>4. CrCommanded(crHw, r)
      BY <1>3, <1>4, <2>1, <2>2 DEF CrCommanded
    <3>5. CrLanding(crHw, crHeld, crPend, crIn, r)
      BY <1>1, <1>3, <2>1, <2>2, <3>1 DEF CrLanding, CrOwing
    <3>6. CrAnswered(crIn, r)
      BY <2>1 DEF CrAnswered
    <3>7. QED BY <1>3, <2>1, <2>2, <3>2, <3>3, <3>4, <3>5, <3>6 DEF CrSound
  <2>3. r.cmd \in CrCmds
    BY <1>2, <2>1
  <2> HIDE DEF t
  <2>4. QED BY <1>1, <1>2, <1>4, <2>1, <2>2, <2>3, CrWriterKept DEF t
<1>5. CASE t.row # "out" /\ Cr!End(w, TRUE)
  <2>1. PICK last : \E r \in CrRuns :
          /\ crThread' = [crThread EXCEPT ![w] = r] /\ r.step = "off" /\ r.batch = <<>>
          /\ crLast' = last /\ last.ok = TRUE /\ last.row = t.row /\ last.val = t.val /\ last.eq = t.eq
    BY <1>5, CrSucceeded
  <2>2. PICK r \in CrRuns :
          /\ crThread' = [crThread EXCEPT ![w] = r] /\ r.step = "off" /\ r.batch = <<>>
          /\ crLast' = last /\ last.ok = TRUE /\ last.row = t.row /\ last.val = t.val /\ last.eq = t.eq
    BY <2>1
  <2>3. ASSUME CrSound(crHw, crHeld, crPend, crIn, crLink, crLast, t)
        PROVE  CrSound(crHw, crHeld, crPend, crIn, crLink, last, r)
    <3>1. CrView(crHeld, crIn, r) = crHeld /\ Cr!Applied(crHeld, r.batch) = crHeld
      BY <1>1, <1>2, <2>2, CrViews
    <3>2. CrPending(crHw, crPend, r)
      BY <1>1, <1>5 DEF CrPending
    <3>3. CrTold(crHw, crHeld, crIn, crLink, r)
      BY <1>3, <1>5, <2>2, <2>3, <3>1 DEF CrTold
    <3>4. CrLanding(crHw, crHeld, crPend, crIn, t) /\ crPend = <<>> /\ CrOwing(t) /\ CrView(crHeld, crIn, t) = crHeld
      BY <1>1, <1>3, <1>5, <2>3 DEF CrLanding, CrOwing
    <3>5. t.row = "mode" /\ t.val # 2 => (crHeld.mode = None \/ crHw.mode = t.val) /\ crHeld.curve = crHw.curve
      <4>1. t.row = "mode" /\ t.val # 2 => t.cmd = <<"eq", TRUE>>
        BY <1>1, <1>3, <2>3, CrCommandedIs
      <4>2. QED BY <1>1, <3>4, <4>1 DEF CrLanding
    <3>6. t.row = "band" => crHeld.curve = crHw.curve
      <4>1. t.row = "band" => t.cmd = <<"curve", t.val>>
        BY <1>3, <2>3 DEF CrCommanded
      <4>2. t.row = "band" => t.cmd[1] = "curve"
        BY <4>1
      <4>3. QED BY <1>1, <3>4, <4>2 DEF CrLanding
    <3>7. t.row = "preset" => crHeld.curve = crHw.curve /\ crHw.curve = Cr!Tuned(t.val, crHw.out)
      <4>1. t.row = "preset" => t.cmd = <<"curve", Cr!Tuned(t.val, crHw.out)>>
        BY <1>3, <2>3 DEF CrCommanded
      <4>2. t.row = "preset" => t.cmd[1] = "curve" /\ t.cmd[2] = Cr!Tuned(t.val, crHw.out)
        BY <4>1
      <4>3. QED BY <1>1, <3>4, <4>2 DEF CrLanding
    <3>8. CrEnded(crHw, crHeld, last)
      BY <1>5, <2>2, <3>5, <3>6, <3>7 DEF CrEnded
    <3>9. CrAnswered(crIn, r) /\ CrLanding(crHw, crHeld, crPend, crIn, r)
      BY <2>2 DEF CrAnswered, CrLanding, CrOwing
    <3>10. QED BY <1>3, <2>2, <2>3, <3>2, <3>3, <3>8, <3>9 DEF CrSound
  <2> HIDE DEF t
  <2>4. QED BY <1>1, <1>2, <2>2, <2>3, CrWriterKept DEF t
<1>6. QED BY <1>1, <1>4, <1>5

\* The routing is asked for until it is what was wanted, or is not to change any more.
LEMMA CrConfirms ==
    ASSUME CrTyped, CrFollows, NEW w \in CrWriters, Cr!Confirmed(w)
    PROVE  CrTyped' /\ CrFollows'
<1> DEFINE t == crThread[w]  out == crHw.out  held == [crHeld EXCEPT !.out = out]
<1>1. /\ t.step = "confirm" /\ t.batch = <<>> /\ crIn = <<>> /\ (out = t.val \/ crPend = <<>>)
      /\ crHeld' = held /\ Cr!End(w, TRUE)
      /\ UNCHANGED <<crHw, crPend, crIn, crLink, crStirred>>
  BY DEF Cr!Confirmed, Cr!Drained, Cr!ThreadKeep
<1>2. /\ crHw \in CrHws /\ crHeld \in CrHelds /\ crPend \in Seq(CrCmds) /\ crIn \in Seq(CrFrames) /\ t \in CrRuns
      /\ out \in CrOuts
  BY DEF CrTyped, CrHws
<1>3. held \in CrHelds /\ held.mode = crHeld.mode /\ held.out = crHw.out
  <2> HIDE DEF out
  <2>1. QED BY <1>2 DEF CrHelds, out
<1> HIDE DEF held
<1>4. PICK last : \E r \in CrRuns :
        /\ crThread' = [crThread EXCEPT ![w] = r] /\ r.step = "off" /\ r.batch = <<>>
        /\ crLast' = last /\ last.ok = TRUE /\ last.row = t.row /\ last.val = t.val /\ last.eq = t.eq
  BY <1>1, CrSucceeded
<1>5. PICK r \in CrRuns :
        /\ crThread' = [crThread EXCEPT ![w] = r] /\ r.step = "off" /\ r.batch = <<>>
        /\ crLast' = last /\ last.ok = TRUE /\ last.row = t.row /\ last.val = t.val /\ last.eq = t.eq
  BY <1>4
<1>6. ASSUME CrSound(crHw, crHeld, crPend, crIn, crLink, crLast, t)
      PROVE  CrSound(crHw, held, crPend, crIn, crLink, last, r)
  <2>1. /\ CrPending(crHw, crPend, t) /\ CrTold(crHw, crHeld, crIn, crLink, t)
        /\ CrCommanded(crHw, t) /\ CrLanding(crHw, crHeld, crPend, crIn, t)
        /\ crLink = "ready"
    BY <1>1, <1>6 DEF CrSound
  <2>2. t.row = "out" /\ t.cmd = <<"out", t.val>>
    BY <1>1, <2>1, CrCommandedIs
  <2>3. t.cmd[1] = "out" /\ t.cmd[2] = t.val
    BY <2>2
  <2>4. crHw.out = t.val
    BY <1>1, <2>1, <2>3 DEF CrLanding, CrOwing
  <2>5. CrView(crHeld, crIn, t) = crHeld
    BY <1>1, <1>2, CrViews
  <2>6. CrView(held, crIn, r) = held /\ Cr!Applied(held, r.batch) = held
    BY <1>1, <1>2, <1>3, <1>5, CrViews
  <2>7. CrPending(crHw, crPend, r)
    BY <2>1, <2>2, <2>4 DEF CrPending
  <2>8. CrTold(crHw, held, crIn, crLink, r)
    BY <1>3, <2>1, <2>5, <2>6 DEF CrTold
  <2>9. CrEnded(crHw, held, last)
    BY <1>3, <1>5, <2>2, <2>4 DEF CrEnded
  <2>10. CrAnswered(crIn, r) /\ CrLanding(crHw, held, crPend, crIn, r)
    BY <1>5 DEF CrAnswered, CrLanding, CrOwing
  <2>11. QED BY <1>5, <2>1, <2>7, <2>8, <2>9, <2>10 DEF CrSound
<1> HIDE DEF t
<1>7. QED BY <1>1, <1>2, <1>3, <1>5, <1>6, CrWriterKept DEF t
-----------------------------------------------------------------------------
\* The card and the link.

LEMMA CrInit == Cr!Init => CrTyped /\ CrFollows
<1> SUFFICES ASSUME Cr!Init PROVE CrTyped /\ CrFollows
  OBVIOUS
<1> DEFINE hw(out, sxfi) == [direct |-> FALSE, sxfi |-> sxfi, out |-> out, mode |-> IF sxfi THEN 1 ELSE 0, eq |-> FALSE, curve |-> 0]
<1>1. PICK out \in Cr!Outs, sxfi \in BOOLEAN : crHw = hw(out, sxfi)
  BY DEF Cr!Init
<1>2. crHw \in CrHws
  <2> DEFINE mode == IF sxfi THEN 1 ELSE 0
  <2>1. mode \in {0, 1} /\ out \in CrOuts
    BY CrSame
  <2>2. crHw = [direct |-> FALSE, sxfi |-> sxfi, out |-> out, mode |-> mode, eq |-> FALSE, curve |-> 0]
    BY <1>1
  <2> HIDE DEF mode
  <2>3. QED BY <2>1, <2>2 DEF CrHws
<1>3. /\ crPend = <<>> /\ crIn = <<>> /\ crHeld = Cr!Blank /\ crThread = [w \in CrWriters |-> Cr!Resting]
      /\ crLink = "closed" /\ crLast = None /\ crStirred = FALSE
  BY DEF Cr!Init
<1>4. \A w \in CrWriters : crThread[w] = Cr!Resting
  BY <1>3
<1>5. crThread \in [CrWriters -> CrRuns]
  BY <1>3, CrStarts
<1>6. CrTyped
  <2>1. crPend \in Seq(CrCmds) /\ crIn \in Seq(CrFrames)
    BY <1>3
  <2> HIDE DEF CrCmds, CrFrames
  <2>2. crHeld \in CrHelds /\ \A w \in CrWriters : crThread[w].step = "off"
    BY <1>3, <1>4, CrStarts
  <2>3. QED BY <1>2, <1>3, <1>5, <2>1, <2>2 DEF CrTyped
<1>7. ASSUME NEW t, t.step = "off", t.batch = <<>>
      PROVE  CrSound(crHw, crHeld, crPend, crIn, crLink, crLast, t)
  <2>1. CrTold(crHw, crHeld, crIn, crLink, t)
    BY <1>3 DEF CrTold
  <2>2. CrAnswered(crIn, t) /\ CrLanding(crHw, crHeld, crPend, crIn, t)
    BY <1>7 DEF CrAnswered, CrLanding, CrOwing
  <2>3. QED BY <1>3, <1>7, <2>1, <2>2 DEF CrSound
<1>8. CrFollows
  BY <1>4, <1>7, CrStarts DEF CrFollows
<1>9. QED BY <1>6, <1>8

\* A step of no thread.
LEMMA CrCardKept ==
    ASSUME CrTyped, CrFollows, crThread' = crThread,
           NEW hw \in CrHws, crHw' = hw, NEW held \in CrHelds, crHeld' = held, NEW pend \in Seq(CrCmds), crPend' = pend,
           NEW in \in Seq(CrFrames), crIn' = in, NEW link \in {"closed", "claimed", "ready"}, crLink' = link,
           NEW last, crLast' = last, crStirred' \in BOOLEAN, crStirred => crStirred',
           \A w \in CrWriters : CrAlone' /\ CrSound(crHw, crHeld, crPend, crIn, crLink, crLast, crThread[w])
                                => CrSound(hw, held, pend, in, link, last, crThread[w])
    PROVE  CrTyped' /\ CrFollows'
<1>1. CrTyped'
  BY DEF CrTyped
<1>2. CrFollows'
  <2> SUFFICES ASSUME CrAlone', NEW w \in CrWriters
               PROVE  CrSound(hw, held, pend, in, link, last, crThread[w])
    BY DEF CrFollows
  <2>1. CrAlone
    BY DEF CrAlone
  <2>2. CrSound(crHw, crHeld, crPend, crIn, crLink, crLast, crThread[w])
    BY <2>1 DEF CrFollows
  <2>3. QED BY <2>2
<1>3. QED BY <1>1, <1>2

\* A connection starts from nothing that is held.
LEMMA CrOpens ==
    ASSUME CrTyped, CrFollows, Cr!Open
    PROVE  CrTyped' /\ CrFollows'
<1> DEFINE held == Cr!Blank  in == <<>>
<1>1. /\ crLink = "closed" /\ crLink' = "claimed" /\ crIn' = in /\ crHeld' = held /\ crLast' = None
      /\ UNCHANGED <<crHw, crPend, crThread, crStirred>>
  BY DEF Cr!Open
<1>2. /\ crHw \in CrHws /\ held \in CrHelds /\ held.mode = None /\ in \in Seq(CrFrames) /\ crPend \in Seq(CrCmds)
      /\ crStirred \in BOOLEAN
  BY CrStarts DEF CrTyped
<1> HIDE DEF held
<1>3. ASSUME NEW w \in CrWriters, CrSound(crHw, crHeld, crPend, crIn, crLink, crLast, crThread[w])
      PROVE  CrSound(crHw, held, crPend, in, "claimed", None, crThread[w])
  <2> DEFINE t == crThread[w]
  <2>1. t.step = "off" /\ t.batch = <<>> /\ t \in CrRuns
    BY <1>1, <1>3, CrRun DEF CrSound
  <2> HIDE DEF t
  <2>2. CrView(held, in, t) = held /\ Cr!Applied(crHw, in) = crHw
    BY <1>2, <2>1, CrViews, CrAppliedNothing
  <2>3. CrTold(crHw, held, in, "claimed", t)
    BY <1>2, <2>2 DEF CrTold
  <2>4. CrAnswered(in, t) /\ CrLanding(crHw, held, crPend, in, t)
    BY <2>1 DEF CrAnswered, CrLanding, CrOwing
  <2>5. CrSound(crHw, held, crPend, in, "claimed", None, t)
    BY <2>1, <2>3, <2>4 DEF CrSound
  <2>6. QED BY <2>5 DEF t
<1> HIDE DEF in
<1>4. QED BY <1>1, <1>2, <1>3, CrCardKept

\* What was pushed while the link was made says what is read, or what is later told.
LEMMA CrReadAll ==
    ASSUME NEW hw \in CrHws, NEW held \in CrHelds
    PROVE  LET read == [held EXCEPT !.direct = hw.direct, !.out = hw.out, !.eq = hw.eq, !.curve = hw.curve]
           IN  read \in CrHelds /\ read.mode = held.mode /\ read.out = hw.out
<1> DEFINE half == [held EXCEPT !.direct = hw.direct, !.out = hw.out]
           read == [half EXCEPT !.eq = hw.eq, !.curve = hw.curve]
<1>1. hw.direct \in BOOLEAN /\ hw.out \in CrOuts /\ hw.eq \in BOOLEAN /\ hw.curve \in {0, 1}
  BY DEF CrHws
<1>2. half \in CrHelds /\ half.mode = held.mode /\ half.out = hw.out
  BY <1>1 DEF CrHelds
<1>3. read = [held EXCEPT !.direct = hw.direct, !.out = hw.out, !.eq = hw.eq, !.curve = hw.curve]
  OBVIOUS
<1> HIDE DEF half
<1>4. read \in CrHelds /\ read.mode = half.mode /\ read.out = half.out
  BY <1>1, <1>2 DEF CrHelds
<1> HIDE DEF read
<1>5. QED BY <1>2, <1>3, <1>4

LEMMA CrUnlocks ==
    ASSUME CrTyped, CrFollows, Cr!Unlock
    PROVE  CrTyped' /\ CrFollows'
<1> DEFINE held == Cr!ReadAll(crHeld)
<1>1. /\ crLink = "claimed" /\ crPend = <<>> /\ crLink' = "ready" /\ crHeld' = held
      /\ UNCHANGED <<crHw, crPend, crIn, crThread, crLast, crStirred>>
  BY DEF Cr!Unlock
<1>2. crHw \in CrHws /\ crHeld \in CrHelds /\ crPend \in Seq(CrCmds) /\ crIn \in Seq(CrFrames) /\ crStirred \in BOOLEAN
  BY DEF CrTyped
<1>3. held \in CrHelds /\ held.mode = crHeld.mode /\ held.out = crHw.out
  BY <1>2, CrReadAll DEF Cr!ReadAll
<1> HIDE DEF held
<1>4. ASSUME NEW w \in CrWriters, CrSound(crHw, crHeld, crPend, crIn, crLink, crLast, crThread[w])
      PROVE  CrSound(crHw, held, crPend, crIn, "ready", crLast, crThread[w])
  <2> DEFINE t == crThread[w]
  <2>1. /\ t.step = "off" /\ t.batch = <<>> /\ t \in CrRuns /\ ~(crLast # None)
        /\ CrTold(crHw, crHeld, crIn, crLink, t)
    BY <1>1, <1>4, CrRun DEF CrSound
  <2> HIDE DEF t
  <2>2. /\ CrView(crHeld, crIn, t) = Cr!Applied(crHeld, crIn)
        /\ CrView(held, crIn, t) = Cr!Applied(held, crIn) /\ Cr!Applied(held, t.batch) = held
    BY <1>2, <1>3, <2>1, CrViews
  <2>3. Cr!Applied(held, crIn).mode = Cr!Applied(crHeld, crIn).mode
    <3>1. "mode" \in DOMAIN held \cap DOMAIN crHeld
      BY <1>2, <1>3, CrHeldIs DEF CrFields
    <3>2. QED BY <1>3, <3>1, CrAppliedAgree
  <2>4. Cr!Applied(held, crIn).out = Cr!Applied(crHw, crIn).out
    <3>1. "out" \in DOMAIN held \cap DOMAIN crHw
      BY <1>2, <1>3, CrHeldIs DEF CrFields
    <3>2. QED BY <1>3, <3>1, CrAppliedAgree
  <2>5. CrTold(crHw, held, crIn, "ready", t)
    BY <1>1, <1>3, <2>1, <2>2, <2>3, <2>4 DEF CrTold
  <2>6. CrPending(crHw, crPend, t)
    BY <1>1 DEF CrPending
  <2>7. CrAnswered(crIn, t) /\ CrLanding(crHw, held, crPend, crIn, t)
    BY <2>1 DEF CrAnswered, CrLanding, CrOwing
  <2>8. CrSound(crHw, held, crPend, crIn, "ready", crLast, t)
    BY <2>1, <2>5, <2>6, <2>7 DEF CrSound
  <2>9. QED BY <2>8 DEF t
<1>5. QED BY <1>1, <1>2, <1>3, <1>4, CrCardKept

LEMMA CrStaysClosed ==
    ASSUME CrTyped, CrFollows, Cr!UnlockFails \/ Cr!CardBoots
    PROVE  CrTyped' /\ CrFollows'
<1>1. /\ crLink' = crLink \/ (crLink = "claimed" /\ crLink' = "closed")
      /\ UNCHANGED <<crHw, crPend, crIn, crHeld, crThread, crLast, crStirred>>
  BY DEF Cr!UnlockFails, Cr!CardBoots
<1>2. /\ crHw \in CrHws /\ crHeld \in CrHelds /\ crPend \in Seq(CrCmds) /\ crIn \in Seq(CrFrames) /\ crStirred \in BOOLEAN
      /\ crLink \in {"closed", "claimed", "ready"}
  BY DEF CrTyped
<1>3. PICK link \in {"closed", "claimed", "ready"} : crLink' = link
  BY <1>1, <1>2
<1>4. ASSUME NEW w \in CrWriters, CrSound(crHw, crHeld, crPend, crIn, crLink, crLast, crThread[w])
      PROVE  CrSound(crHw, crHeld, crPend, crIn, link, crLast, crThread[w])
  <2>1. CASE link = crLink
    BY <1>4, <2>1
  <2>2. CASE crLink = "claimed" /\ link = "closed"
    <3>1. CrTold(crHw, crHeld, crIn, link, crThread[w])
      BY <2>2 DEF CrTold
    <3>2. QED BY <1>4, <2>2, <3>1 DEF CrSound
  <2>3. QED BY <1>1, <1>3, <2>1, <2>2
<1>5. QED BY <1>1, <1>2, <1>3, <1>4, CrCardKept

LEMMA CrCloses ==
    ASSUME CrTyped, CrFollows, Cr!Close
    PROVE  CrTyped' /\ CrFollows'
<1>1. /\ crLink = "ready" /\ crLink' = "closed" /\ crThread' = [w \in CrWriters |-> Cr!Resting]
      /\ UNCHANGED <<crHw, crPend, crIn, crHeld, crLast, crStirred>>
  BY DEF Cr!Close
<1>2. \A w \in CrWriters : crThread'[w] = Cr!Resting
  BY <1>1
<1>3. crThread' \in [CrWriters -> CrRuns]
  BY <1>1, CrStarts
<1>4. CrTyped'
  BY <1>1, <1>2, <1>3, CrStarts DEF CrTyped
<1>5. ASSUME NEW w \in CrWriters, NEW r, r.step = "off", r.batch = <<>>,
             CrSound(crHw, crHeld, crPend, crIn, crLink, crLast, crThread[w])
      PROVE  CrSound(crHw, crHeld, crPend, crIn, "closed", crLast, r)
  <2>1. CrTold(crHw, crHeld, crIn, "closed", r)
    BY DEF CrTold
  <2>2. CrAnswered(crIn, r) /\ CrLanding(crHw, crHeld, crPend, crIn, r)
    BY <1>5 DEF CrAnswered, CrLanding, CrOwing
  <2>3. crLast # None => CrEnded(crHw, crHeld, crLast) /\ CrPending(crHw, crPend, crThread[w]) /\ ~CrOwing(crThread[w])
    BY <1>5 DEF CrSound, CrOwing
  <2>4. crLast # None => CrPending(crHw, crPend, r)
    BY <2>3 DEF CrPending
  <2>5. QED BY <1>5, <2>1, <2>2, <2>3, <2>4 DEF CrSound
<1>6. CrFollows'
  <2> SUFFICES ASSUME CrAlone', NEW w \in CrWriters
               PROVE  CrSound(crHw, crHeld, crPend, crIn, "closed", crLast, crThread'[w])
    BY <1>1 DEF CrFollows
  <2>1. CrAlone
    BY <1>1 DEF CrAlone
  <2>2. CrSound(crHw, crHeld, crPend, crIn, crLink, crLast, crThread[w])
    BY <2>1 DEF CrFollows
  <2>3. QED BY <1>2, <1>5, <2>2, CrStarts
<1>7. QED BY <1>4, <1>6

\* A button is pressed.
LEMMA CrPressed ==
    ASSUME CrTyped, CrFollows, Cr!Button
    PROVE  CrTyped' /\ CrFollows'
<1>0. PICK row \in {"sxfi", "out"} : \E val \in Cr!Values(row) :
        /\ crHw' = Cr!Done(crHw, row, val)
        /\ crIn' = IF crLink = "closed" THEN crIn ELSE crIn \o Cr!Pushes(crHw', row)
  BY DEF Cr!Button
<1>1. PICK val \in Cr!Values(row) :
        /\ crHw' = Cr!Done(crHw, row, val)
        /\ crIn' = IF crLink = "closed" THEN crIn ELSE crIn \o Cr!Pushes(crHw', row)
  BY <1>0
<1>2. crStirred' = TRUE /\ UNCHANGED <<crPend, crHeld, crThread, crLink, crLast>>
  BY DEF Cr!Button
<1>3. crHw \in CrHws /\ crIn \in Seq(CrFrames)
  BY DEF CrTyped
<1> DEFINE cmd == <<row, val>>
<1>4. cmd \in CrCmds
  <2>1. CASE row = "sxfi"
    <3>1. val \in BOOLEAN
      BY <2>1 DEF Cr!Values, Cr!Flags
    <3>2. QED BY <2>1, <3>1, CrCmdsAre
  <2>2. CASE row = "out"
    <3>1. val \in CrOuts
      BY <2>2, CrSame DEF Cr!Values, Cr!Flags
    <3>2. QED BY <2>2, <3>1, CrCmdsAre
  <2>3. QED BY <2>1, <2>2
<1>5. cmd[1] = row /\ cmd[2] = val
  OBVIOUS
<1> HIDE DEF cmd
<1>6. crHw' \in CrHws
  BY <1>1, <1>3, <1>4, <1>5, CrDone
<1>7. crIn' \in Seq(CrFrames)
  <2>1. Cr!Pushes(crHw', row) \in Seq(CrPushes)
    BY <1>6, CrPushesAre
  <2>2. crIn \o Cr!Pushes(crHw', row) \in Seq(CrFrames)
    BY <1>3, <2>1, CrFramesJoin
  <2>3. QED BY <1>1, <1>3, <2>2
<1>8. CrTyped'
  BY <1>2, <1>6, <1>7 DEF CrTyped
<1>9. CrFollows'
  BY <1>2 DEF CrFollows, CrAlone
<1>10. QED BY <1>8, <1>9

\* A poll that no write meets reads what is true.
LEMMA CrRefreshes ==
    ASSUME CrTyped, CrFollows, Cr!Refresh
    PROVE  CrTyped' /\ CrFollows'
<1> DEFINE read == Cr!Applied(crHeld, crIn)  held == Cr!ReadAll(read)  in == <<>>
           stirred == crStirred \/ \E w \in CrWriters : crThread[w].step # "off"
<1>1. /\ crLink = "ready" /\ crHeld' = held /\ crIn' = in /\ crLast' = None /\ crStirred' = stirred
      /\ UNCHANGED <<crHw, crPend, crThread, crLink>>
  BY DEF Cr!Refresh
<1>2. /\ crHw \in CrHws /\ crHeld \in CrHelds /\ crPend \in Seq(CrCmds) /\ crIn \in Seq(CrFrames) /\ in \in Seq(CrFrames)
      /\ stirred \in BOOLEAN /\ (crStirred => stirred)
  BY DEF CrTyped
<1>3. read \in CrHelds
  BY <1>2, CrApplies
<1> HIDE DEF read
<1>4. held \in CrHelds /\ held.mode = read.mode /\ held.out = crHw.out
  BY <1>2, <1>3, CrReadAll DEF Cr!ReadAll
<1>5. CrAlone' => \A w \in CrWriters : crThread[w].step = "off"
  BY <1>1 DEF CrAlone
<1> HIDE DEF held, stirred
<1>6. ASSUME NEW w \in CrWriters, CrAlone', CrSound(crHw, crHeld, crPend, crIn, crLink, crLast, crThread[w])
      PROVE  CrSound(crHw, held, crPend, in, crLink, None, crThread[w])
  <2> DEFINE t == crThread[w]
  <2>1. /\ t.step = "off" /\ t.batch = <<>> /\ t \in CrRuns
        /\ CrTold(crHw, crHeld, crIn, crLink, t) /\ CrPending(crHw, crPend, t)
    BY <1>1, <1>5, <1>6, CrRun DEF CrSound
  <2> HIDE DEF t
  <2>2. CrView(crHeld, crIn, t) = read /\ CrView(held, in, t) = held /\ Cr!Applied(held, t.batch) = held
    BY <1>2, <1>4, <2>1, CrViews DEF read
  <2>3. CrTold(crHw, held, in, crLink, t)
    BY <1>1, <1>4, <2>1, <2>2 DEF CrTold
  <2>4. CrAnswered(in, t) /\ CrLanding(crHw, held, crPend, in, t)
    BY <2>1 DEF CrAnswered, CrLanding, CrOwing
  <2>5. CrSound(crHw, held, crPend, in, crLink, None, t)
    BY <1>1, <2>1, <2>3, <2>4 DEF CrSound
  <2>6. QED BY <2>5 DEF t
<1> HIDE DEF in
<1>7. crLink \in {"closed", "claimed", "ready"}
  BY DEF CrTyped
<1>8. QED BY <1>1, <1>2, <1>4, <1>6, <1>7, CrCardKept

\* What a commit leaves as it was, and what it sets.
LEMMA CrDoneIs ==
    ASSUME NEW c \in CrCmds, NEW hw \in CrHws, NEW done, done = Cr!Done(hw, c[1], c[2])
    PROVE  /\ c[1] \notin {"sxfi", "select"} => done.mode = hw.mode
           /\ c[1] # "out" => done.out = hw.out
           /\ c[1] # "eq" => done.eq = hw.eq
           /\ c[1] \in {"out", "curve"} => done[c[1]] = c[2]
           /\ c = <<"out", hw.out>> => done = hw
<1> DEFINE row == c[1]  val == c[2]
<1>1. row \in {"direct", "sxfi", "eq", "out", "select", "curve"}
  BY CrCmdIs
<1> HIDE DEF row, val
<1>2. DOMAIN hw = CrFields
  BY CrHeldIs
<1>3. CASE row = "sxfi"
  <2> DEFINE mode == IF val THEN 1 ELSE 0
             curve == IF val # hw.sxfi THEN Cr!StoredCurve(IF val THEN 1 ELSE 0) ELSE hw.curve
  <2>1. done = [hw EXCEPT !.sxfi = val, !.mode = mode, !.curve = curve]
    BY <1>3 DEF Cr!Done, row, val
  <2> HIDE DEF mode, curve
  <2>2. done.out = hw.out /\ done.eq = hw.eq
    BY <2>1 DEF CrHws
  <2>3. c # <<"out", hw.out>>
    BY <1>3 DEF row
  <2>4. QED BY <1>3, <2>2, <2>3 DEF row
<1>4. CASE row = "select"
  <2>1. done = hw \/ done = [hw EXCEPT !.mode = val, !.curve = val]
    BY <1>4 DEF Cr!Done, Cr!StoredCurve, row, val
  <2>2. done.out = hw.out /\ done.eq = hw.eq
    BY <2>1 DEF CrHws
  <2>3. c # <<"out", hw.out>>
    BY <1>4 DEF row
  <2>4. QED BY <1>4, <2>2, <2>3 DEF row
<1>5. CASE row \in {"direct", "eq", "out", "curve"}
  <2>1. done = [hw EXCEPT ![row] = val]
    BY <1>5 DEF Cr!Done, row, val
  <2>2. row \in DOMAIN hw
    BY <1>2, <1>5 DEF CrFields
  <2>3. done[row] = val /\ done.mode = hw.mode
    BY <1>5, <2>1, <2>2
  <2>4. row # "out" => done.out = hw.out
    BY <2>1
  <2>5. row # "eq" => done.eq = hw.eq
    BY <2>1
  <2>6. c = <<"out", hw.out>> => done = hw
    <3> SUFFICES ASSUME c = <<"out", hw.out>> PROVE done = hw
      OBVIOUS
    <3>1. row = "out" /\ val = hw.out
      BY DEF row, val
    <3>2. done = [hw EXCEPT !["out"] = hw["out"]]
      BY <2>1, <3>1
    <3>3. hw = [x \in DOMAIN hw |-> hw[x]]
      BY DEF CrHws
    <3>4. QED BY <3>2, <3>3
  <2>7. QED BY <1>5, <2>3, <2>4, <2>5, <2>6 DEF row, val
<1>6. QED BY <1>1, <1>3, <1>4, <1>5

\* What the host will hold once it has read what a commit pushed.
LEMMA CrPushed ==
    ASSUME crHw \in CrHws, NEW c \in CrCmds, NEW in \in Seq(CrFrames), NEW h, "out" \in DOMAIN h, "mode" \in DOMAIN h,
           NEW hw \in CrHws, hw = Cr!Done(crHw, c[1], c[2])
    PROVE  LET more == Cr!Applied(h, in \o Cr!Pushes(hw, c[1]))
               old == Cr!Applied(h, in)
           IN  /\ IF c[1] = "out" THEN more.out = hw.out ELSE more.out = old.out
               /\ c[1] \notin {"sxfi", "select"} => more.mode = old.mode
               /\ more.mode = hw.mode \/ (more.mode = old.mode /\ hw.mode = crHw.mode)
<1> DEFINE more(pushes) == Cr!Applied(h, in \o pushes)  old == Cr!Applied(h, in)  row == c[1]
<1>1. /\ <<"push", "sxfi", hw.sxfi>> \in CrFrames /\ <<"push", "direct", hw.direct>> \in CrFrames
      /\ <<"push", "out", hw.out>> \in CrFrames /\ <<"push", "mode", hw.mode>> \in CrFrames
  BY DEF CrHws, CrPushes, CrFrames
<1>2. ASSUME NEW f \in CrFrames
      PROVE  /\ more(<<f>>).out = IF Cr!Tells(f, "out") THEN f[3] ELSE old.out
             /\ more(<<f>>).mode = IF Cr!Tells(f, "mode") THEN f[3] ELSE old.mode
  <2>1. in \o <<f>> = Append(in, f)
    OBVIOUS
  <2>2. Cr!Applied(h, Append(in, f))["out"] = IF Cr!Tells(f, "out") THEN f[3] ELSE Cr!Applied(h, in)["out"]
    BY CrAppliedOneMore
  <2>3. Cr!Applied(h, Append(in, f))["mode"] = IF Cr!Tells(f, "mode") THEN f[3] ELSE Cr!Applied(h, in)["mode"]
    BY CrAppliedOneMore
  <2>4. QED BY <2>1, <2>2, <2>3
<1>3. row \in {"direct", "sxfi", "eq", "out", "select", "curve"}
  BY CrCmdIs
<1>4. row \notin {"sxfi", "select"} => hw.mode = crHw.mode
  BY CrDoneIs
<1>5. CASE row = "sxfi"
  <2> DEFINE f == <<"push", "sxfi", hw.sxfi>>  g == <<"push", "mode", hw.mode>>
  <2>1. Cr!Pushes(hw, row) = <<f, g>>
    BY <1>5 DEF Cr!Pushes
  <2>2. f \in CrFrames /\ g \in CrFrames
    BY <1>1
  <2>3. ~Cr!Tells(f, "out") /\ ~Cr!Tells(g, "out") /\ Cr!Tells(g, "mode") /\ g[3] = hw.mode
    BY DEF Cr!Tells
  <2> HIDE DEF f, g
  <2>4. in \o <<f, g>> = Append(Append(in, f), g) /\ Append(in, f) \in Seq(CrFrames)
    BY <2>2
  <2>5. more(<<f, g>>).out = Cr!Applied(h, Append(in, f)).out /\ more(<<f, g>>).mode = hw.mode
    <3> DEFINE one == Append(in, f)
    <3>1. one \in Seq(CrFrames)
      BY <2>4
    <3> HIDE DEF one
    <3>2. Cr!Applied(h, Append(one, g))["out"] = IF Cr!Tells(g, "out") THEN g[3] ELSE Cr!Applied(h, one)["out"]
      BY <2>2, <3>1, CrAppliedOneMore
    <3>3. Cr!Applied(h, Append(one, g))["mode"] = IF Cr!Tells(g, "mode") THEN g[3] ELSE Cr!Applied(h, one)["mode"]
      BY <2>2, <3>1, CrAppliedOneMore
    <3>4. in \o <<f, g>> = Append(one, g)
      BY <2>4 DEF one
    <3>5. QED BY <2>3, <3>2, <3>3, <3>4 DEF one
  <2>6. Cr!Applied(h, Append(in, f)).out = old.out
    BY <2>2, <2>3, CrAppliedOneMore
  <2>7. QED BY <1>5, <2>1, <2>5, <2>6
<1>6. CASE row = "select"
  <2> DEFINE f == <<"push", "mode", hw.mode>>
  <2>1. (hw # crHw /\ Cr!Pushes(hw, row) = <<f>>) \/ (hw = crHw /\ Cr!Pushes(hw, row) = <<>>)
    BY <1>6 DEF Cr!Pushes
  <2>2. f \in CrFrames /\ ~Cr!Tells(f, "out") /\ Cr!Tells(f, "mode") /\ f[3] = hw.mode
    BY <1>1 DEF Cr!Tells
  <2> HIDE DEF f
  <2>3. CASE Cr!Pushes(hw, row) = <<f>>
    <3>1. more(<<f>>).out = old.out /\ more(<<f>>).mode = hw.mode
      BY <1>2, <2>2
    <3>2. QED BY <1>6, <2>3, <3>1
  <2>4. CASE hw = crHw /\ Cr!Pushes(hw, row) = <<>>
    <3>1. in \o <<>> = in
      OBVIOUS
    <3>2. QED BY <1>6, <2>4, <3>1
  <2>5. QED BY <2>1, <2>3, <2>4
<1>7. CASE row = "out"
  <2> DEFINE f == <<"push", "out", hw.out>>
  <2>1. Cr!Pushes(hw, row) = <<f>>
    BY <1>7 DEF Cr!Pushes
  <2>2. f \in CrFrames /\ Cr!Tells(f, "out") /\ ~Cr!Tells(f, "mode") /\ f[3] = hw.out
    BY <1>1 DEF Cr!Tells
  <2> HIDE DEF f
  <2>3. more(<<f>>).out = hw.out /\ more(<<f>>).mode = old.mode
    BY <1>2, <2>2
  <2>4. QED BY <1>4, <1>7, <2>1, <2>3
<1>8. CASE row = "direct"
  <2> DEFINE f == <<"push", "direct", hw.direct>>
  <2>1. Cr!Pushes(hw, row) = <<f>>
    BY <1>8 DEF Cr!Pushes
  <2>2. f \in CrFrames /\ ~Cr!Tells(f, "out") /\ ~Cr!Tells(f, "mode")
    BY <1>1 DEF Cr!Tells
  <2> HIDE DEF f
  <2>3. more(<<f>>).out = old.out /\ more(<<f>>).mode = old.mode
    BY <1>2, <2>2
  <2>4. QED BY <1>4, <1>8, <2>1, <2>3
<1>9. CASE row \in {"eq", "curve"}
  <2>1. Cr!Pushes(hw, row) = <<>>
    BY <1>9 DEF Cr!Pushes
  <2>2. in \o <<>> = in
    OBVIOUS
  <2>3. QED BY <1>4, <1>9, <2>1, <2>2
<1>10. QED BY <1>3, <1>5, <1>6, <1>7, <1>8, <1>9

LEMMA CrAckedAlike ==
    ASSUME NEW in \in Seq(CrFrames), NEW pushes \in Seq(CrPushes), NEW row
    PROVE  Cr!AckOf(row, in \o pushes) = Cr!AckOf(row, in)
<1> DEFINE frames == in \o pushes
<1>1. /\ DOMAIN frames = 1..Len(frames) /\ DOMAIN in = 1..Len(in)
      /\ \A i \in 1..Len(in) : i \in 1..Len(frames) /\ frames[i] = in[i]
      /\ \A i \in 1..Len(frames) : i \in 1..Len(in) \/ frames[i] \in CrPushes
  <2>1. Len(frames) = Len(in) + Len(pushes) /\ Len(in) \in Nat /\ Len(pushes) \in Nat
    OBVIOUS
  <2>2. \A i \in 1..Len(frames) : frames[i] = IF i <= Len(in) THEN in[i] ELSE pushes[i - Len(in)]
    OBVIOUS
  <2>3. DOMAIN frames = 1..Len(frames) /\ DOMAIN in = 1..Len(in)
    OBVIOUS
  <2>4. \A i \in 1..Len(pushes) : pushes[i] \in CrPushes
    OBVIOUS
  <2> HIDE DEF frames
  <2>5. \A i \in 1..Len(in) : i \in 1..Len(frames) /\ frames[i] = in[i]
    BY <2>1, <2>2
  <2>6. \A i \in 1..Len(frames) : i \in 1..Len(in) \/ i - Len(in) \in 1..Len(pushes)
    BY <2>1
  <2>7. QED BY <2>1, <2>2, <2>3, <2>4, <2>5, <2>6
<1>2. \A f \in CrPushes : f[1] # "ack"
  BY CrPushIs
<1> HIDE DEF frames
<1>3. QED BY <1>1, <1>2 DEF Cr!AckOf, frames

\* No write but that of the routing sends the routing.
LEMMA CrRoutes ==
    ASSUME NEW hw, NEW t, CrCommanded(hw, t), t.row # "out"
    PROVE  t.cmd[1] # "out"
<1>1. CASE t.cmd = <<"eq", FALSE>> \/ t.cmd = <<"eq", TRUE>>
  BY <1>1, CrSwitches
<1>2. CASE t.cmd = <<"select", t.val>> \/ t.cmd = <<"curve", t.val>> \/ t.cmd = <<"curve", Cr!Tuned(t.val, hw.out)>>
  BY <1>2
<1>3. CASE t.row \in {"direct", "sxfi"} /\ t.cmd = <<t.row, t.val>>
  BY <1>3
<1>4. QED BY <1>1, <1>2, <1>3, CrCommandedIs

\* The oldest command is committed.
LEMMA CrTailIs ==
    ASSUME NEW pend \in Seq(CrCmds), pend # <<>>
    PROVE  /\ pend[1] \in CrCmds /\ Tail(pend) \in Seq(CrCmds) /\ 1 \in 1..Len(pend)
           /\ \A i \in 1..Len(Tail(pend)) : Tail(pend)[i] = pend[i + 1] /\ i + 1 \in 1..Len(pend) /\ (i = Len(Tail(pend)) <=> i + 1 = Len(pend))
           /\ pend[Len(pend)] = pend[1] \/ (Tail(pend) # <<>> /\ Tail(pend)[Len(Tail(pend))] = pend[Len(pend)])
           /\ 1 = Len(pend) => Tail(pend) = <<>>
<1>1. Len(pend) \in Nat /\ Len(pend) > 0 /\ Len(Tail(pend)) = Len(pend) - 1
  OBVIOUS
<1>2. \A i \in 1..Len(Tail(pend)) : Tail(pend)[i] = pend[i + 1]
  OBVIOUS
<1> DEFINE tail == Tail(pend)
<1> HIDE DEF CrCmds
<1>4. \A i \in 1..Len(pend) : pend[i] \in CrCmds
  OBVIOUS
<1>0. tail \in Seq(CrCmds)
  OBVIOUS
<1> HIDE DEF tail
<1>3. tail \in Seq(CrCmds) /\ (Len(tail) = 0 => tail = <<>>) /\ (tail = <<>> => Len(tail) = 0)
  BY <1>0
<1>5. \A i \in 1..Len(tail) : i + 1 \in 1..Len(pend) /\ (i = Len(tail) <=> i + 1 = Len(pend))
  BY <1>1 DEF tail
<1>6. pend[Len(pend)] = pend[1] \/ (tail # <<>> /\ tail[Len(tail)] = pend[Len(pend)])
  <2>1. CASE Len(pend) = 1
    BY <2>1
  <2>2. CASE Len(pend) # 1
    <3>1. Len(tail) \in 1..Len(tail) /\ tail # <<>> /\ Len(tail) + 1 = Len(pend)
      BY <1>1, <1>3, <2>2 DEF tail
    <3>2. QED BY <1>2, <3>1 DEF tail
  <2>3. QED BY <2>1, <2>2
<1>7. 1 \in 1..Len(pend) /\ (1 = Len(pend) => tail = <<>>)
  BY <1>1, <1>3 DEF tail
<1>8. QED BY <1>2, <1>3, <1>4, <1>5, <1>6, <1>7 DEF tail

LEMMA CrCommits ==
    ASSUME CrTyped, CrFollows, Cr!Commit
    PROVE  CrTyped' /\ CrFollows'
<1> DEFINE c == crPend[1]  hw == Cr!Done(crHw, c[1], c[2])  pushes == Cr!Pushes(hw, c[1])  in == crIn \o pushes  pend == Tail(crPend)
<1>1. /\ crPend # <<>> /\ crHw' = hw /\ crIn' = in /\ crPend' = pend
      /\ UNCHANGED <<crHeld, crThread, crLink, crLast, crStirred>>
  BY DEF Cr!Commit
<1>2. /\ crHw \in CrHws /\ crHeld \in CrHelds /\ crPend \in Seq(CrCmds) /\ crIn \in Seq(CrFrames) /\ crStirred \in BOOLEAN
      /\ crLink \in {"closed", "claimed", "ready"}
  BY DEF CrTyped
<1>3. /\ c \in CrCmds /\ pend \in Seq(CrCmds) /\ 1 \in 1..Len(crPend)
      /\ \A i \in 1..Len(pend) : pend[i] = crPend[i + 1] /\ i + 1 \in 1..Len(crPend) /\ (i = Len(pend) <=> i + 1 = Len(crPend))
      /\ crPend[Len(crPend)] = c \/ (pend # <<>> /\ pend[Len(pend)] = crPend[Len(crPend)])
      /\ 1 = Len(crPend) => pend = <<>>
  BY <1>1, <1>2, CrTailIs
<1> HIDE DEF c, pend
<1>4. hw \in CrHws
  BY <1>2, <1>3, CrDone
<1>5. /\ c[1] \notin {"sxfi", "select"} => hw.mode = crHw.mode
      /\ c[1] # "out" => hw.out = crHw.out
      /\ c[1] # "eq" => hw.eq = crHw.eq
      /\ c[1] \in {"out", "curve"} => hw[c[1]] = c[2]
      /\ c = <<"out", crHw.out>> => hw = crHw
  BY <1>2, <1>3, CrDoneIs
<1>6. ASSUME NEW h, "out" \in DOMAIN h, "mode" \in DOMAIN h
      PROVE  /\ IF c[1] = "out" THEN Cr!Applied(h, in).out = hw.out ELSE Cr!Applied(h, in).out = Cr!Applied(h, crIn).out
             /\ c[1] \notin {"sxfi", "select"} => Cr!Applied(h, in).mode = Cr!Applied(h, crIn).mode
             /\ Cr!Applied(h, in).mode = hw.mode \/ (Cr!Applied(h, in).mode = Cr!Applied(h, crIn).mode /\ hw.mode = crHw.mode)
  <2> DEFINE done == hw
  <2>1. done = Cr!Done(crHw, c[1], c[2]) /\ done \in CrHws /\ in = crIn \o Cr!Pushes(done, c[1])
    BY <1>4
  <2> HIDE DEF done, in
  <2>2. QED BY <1>2, <1>3, <1>6, <2>1, CrPushed DEF done
<1> HIDE DEF hw
<1>7. pushes \in Seq(CrPushes)
  BY <1>4, CrPushesAre
<1> HIDE DEF pushes
<1>8. in \in Seq(CrFrames) /\ \A row : Cr!AckOf(row, in) = Cr!AckOf(row, crIn)
  BY <1>2, <1>7, CrFramesJoin, CrAckedAlike
<1> HIDE DEF in
<1>9. ASSUME NEW w \in CrWriters, CrSound(crHw, crHeld, crPend, crIn, crLink, crLast, crThread[w])
      PROVE  CrSound(hw, crHeld, pend, in, crLink, crLast, crThread[w])
  <2> DEFINE t == crThread[w]
  <2>1. /\ crLink # "ready" => t.step = "off"
        /\ crLast # None => t.step = "off" /\ crLink # "claimed" /\ CrEnded(crHw, crHeld, crLast)
        /\ crLink = "ready" \/ crLast # None => CrPending(crHw, crPend, t)
        /\ t.step \in {"off", "send", "reread"} => t.batch = <<>>
        /\ CrAnswered(crIn, t) /\ CrTold(crHw, crHeld, crIn, crLink, t)
        /\ t.step # "off" => CrCommanded(crHw, t)
        /\ CrLanding(crHw, crHeld, crPend, crIn, t)
    BY <1>9 DEF CrSound
  <2>2. t \in CrRuns /\ t.batch \in Seq(CrFrames)
    BY CrRun
  <2> HIDE DEF t
  <2> DEFINE read == Cr!Applied(crHeld, t.batch)
  <2>3. read \in CrHelds /\ (t.batch = <<>> => read = crHeld)
    BY <1>2, <2>2, CrApplies, CrAppliedNothing
  <2>4. CrView(crHeld, in, t) = Cr!Applied(read, in) /\ CrView(crHeld, crIn, t) = Cr!Applied(read, crIn)
    BY DEF CrView
  <2>5. "out" \in DOMAIN read /\ "mode" \in DOMAIN read /\ "out" \in DOMAIN hw /\ "mode" \in DOMAIN hw
        /\ "out" \in DOMAIN hw \cap DOMAIN crHw
    BY <1>2, <1>4, <2>3, CrHeldIs DEF CrFields
  <2>6. CrAnswered(in, t)
    BY <1>8, <2>1 DEF CrAnswered
  <2> HIDE DEF read
  <2>7. /\ IF c[1] = "out" THEN CrView(crHeld, in, t).out = hw.out ELSE CrView(crHeld, in, t).out = CrView(crHeld, crIn, t).out
        /\ c[1] \notin {"sxfi", "select"} => CrView(crHeld, in, t).mode = CrView(crHeld, crIn, t).mode
        /\ \/ CrView(crHeld, in, t).mode = hw.mode
           \/ CrView(crHeld, in, t).mode = CrView(crHeld, crIn, t).mode /\ hw.mode = crHw.mode
    BY <1>6, <2>4, <2>5
  <2>8. crLink # "closed" => CrView(crHeld, in, t).mode \in {None, hw.mode}
    BY <2>1, <2>7 DEF CrTold
  <2>9. CASE ~(crLink = "ready" \/ crLast # None)
    <3>1. crLink = "claimed" => Cr!Applied(hw, in).out = hw.out
      <4> SUFFICES ASSUME crLink = "claimed" PROVE Cr!Applied(hw, in).out = hw.out
        OBVIOUS
      <4>1. Cr!Applied(crHw, crIn).out = crHw.out
        BY <2>1 DEF CrTold
      <4>2. CASE c[1] = "out"
        BY <1>6, <2>5, <4>2
      <4>3. CASE c[1] # "out"
        <5>1. Cr!Applied(hw, in).out = Cr!Applied(hw, crIn).out
          BY <1>6, <2>5, <4>3
        <5>2. Cr!Applied(hw, crIn).out = Cr!Applied(crHw, crIn).out
          BY <1>5, <2>5, <4>3, CrAppliedAgree
        <5>3. QED BY <1>5, <4>1, <4>3, <5>1, <5>2
      <4>4. QED BY <4>2, <4>3
    <3>2. CrTold(hw, crHeld, in, crLink, t)
      BY <2>8, <2>9, <3>1 DEF CrTold
    <3>3. CrLanding(hw, crHeld, pend, in, t)
      BY <2>1, <2>9 DEF CrLanding, CrOwing
    <3>4. CrSound(hw, crHeld, pend, in, crLink, crLast, t)
      BY <2>1, <2>6, <2>9, <3>2, <3>3 DEF CrSound
    <3>5. QED BY <3>4 DEF t
  <2>10. CASE (crLink = "ready" \/ crLast # None) /\ c = <<"out", crHw.out>>
    <3>1. hw = crHw /\ c[1] = "out" /\ c[2] = hw.out /\ CrPending(crHw, crPend, t)
      BY <1>5, <2>1, <2>10
    <3>2. CrPending(hw, pend, t)
      BY <1>3, <3>1 DEF CrPending
    <3>3. CrTold(hw, crHeld, in, crLink, t)
      BY <2>1, <2>7, <2>8, <2>10, <3>1 DEF CrTold
    <3>4. CrLanding(hw, crHeld, pend, in, t)
      <4>1. CrView(crHeld, in, t).mode = CrView(crHeld, crIn, t).mode
        BY <2>7, <3>1
      <4>2. CrOwing(t) /\ t.cmd[1] \in {"out", "curve"} => (pend # <<>> /\ pend[Len(pend)] = t.cmd) \/ hw[t.cmd[1]] = t.cmd[2]
        BY <1>3, <2>1, <3>1 DEF CrLanding
      <4>3. QED BY <1>1, <2>1, <3>1, <4>1, <4>2 DEF CrLanding
    <3>5. CrSound(hw, crHeld, pend, in, crLink, crLast, t)
      BY <2>1, <2>6, <3>1, <3>2, <3>3, <3>4 DEF CrSound
    <3>6. QED BY <3>5 DEF t
  <2>11. CASE 1 = Len(crPend) /\ CrOwing(t) /\ c = t.cmd
    <3>1. t.step # "off" /\ pend = <<>> /\ crLink = "ready" /\ ~(crLast # None) /\ CrCommanded(crHw, t)
      BY <1>3, <2>1, <2>11 DEF CrOwing
    <3>2. CrPending(hw, pend, t)
      BY <3>1 DEF CrPending
    <3>3. t.row # "out" => c[1] # "out"
      BY <2>11, <3>1, CrRoutes
    <3>4. CrTold(hw, crHeld, in, crLink, t)
      BY <1>5, <2>1, <2>7, <2>8, <3>1, <3>3 DEF CrTold
    <3>5. CrCommanded(hw, t)
      <4>1. t.cmd = <<"select", t.val>> => hw.eq = crHw.eq
        BY <1>5, <2>11
      <4>2. t.row = "preset" => hw.out = crHw.out
        BY <1>5, <3>3
      <4>3. QED BY <3>1, <4>1, <4>2 DEF CrCommanded
    <3>6. CrLanding(hw, crHeld, pend, in, t)
      <4>1. t.cmd = <<"eq", TRUE>> => CrView(crHeld, in, t).mode = CrView(crHeld, crIn, t).mode /\ hw.mode = crHw.mode
        BY <1>5, <2>7, <2>11, CrSwitches
      <4>2. t.cmd[1] \in {"out", "curve"} => hw[t.cmd[1]] = t.cmd[2]
        BY <1>5, <2>11
      <4>3. ~(t.step = "settle" /\ t.cmd = <<"eq", TRUE>>)
        BY <1>1, <2>1 DEF CrLanding
      <4>4. QED BY <2>1, <4>1, <4>2, <4>3 DEF CrLanding
    <3>7. CrSound(hw, crHeld, pend, in, crLink, crLast, t)
      BY <2>1, <2>6, <3>1, <3>2, <3>4, <3>5, <3>6 DEF CrSound
    <3>8. QED BY <3>7 DEF t
  <2>12. (crLink = "ready" \/ crLast # None) => c = <<"out", crHw.out>> \/ (1 = Len(crPend) /\ CrOwing(t) /\ c = t.cmd)
    BY <1>3, <2>1 DEF CrPending, c
  <2>13. QED BY <2>9, <2>10, <2>11, <2>12
<1>10. QED BY <1>1, <1>2, <1>3, <1>4, <1>8, <1>9, CrCardKept

CrNext == Cr!Next \/ UNCHANGED crVars

LEMMA CrKept ==
    ASSUME CrTyped, CrFollows, CrNext
    PROVE  CrTyped' /\ CrFollows'
<1>1. CASE UNCHANGED crVars
  <2>1. UNCHANGED <<crHw, crPend, crIn, crHeld, crThread, crLink, crLast, crStirred>>
    BY <1>1 DEF crVars
  <2>2. CrTyped'
    BY <2>1 DEF CrTyped
  <2>3. CrFollows'
    BY <2>1 DEF CrFollows, CrAlone
  <2>4. QED BY <2>2, <2>3
<1>2. CASE Cr!Open \/ Cr!Unlock \/ Cr!Close
  BY <1>2, CrOpens, CrUnlocks, CrCloses
<1>3. CASE Cr!UnlockFails \/ Cr!CardBoots
  BY <1>3, CrStaysClosed
<1>4. CASE Cr!Commit
  BY <1>4, CrCommits
<1>5. CASE Cr!Button \/ Cr!Refresh
  BY <1>5, CrPressed, CrRefreshes
<1>6. ASSUME NEW w \in CrWriters, NEW row \in Cr!RowsOf, NEW val \in Cr!Values(row), Cr!Begin(w, row, val)
      PROVE  CrTyped' /\ CrFollows'
  BY <1>6, CrBegins
<1>7. ASSUME NEW w \in CrWriters, Cr!Send(w) \/ Cr!Drain(w) \/ Cr!Apply(w) \/ Cr!NoAck(w) PROVE CrTyped' /\ CrFollows'
  BY <1>7, CrSends, CrDrains, CrApplying, CrIsAnswered
<1>8. ASSUME NEW w \in CrWriters, Cr!Look(w) \/ Cr!Reread(w) \/ Cr!Settled(w) \/ Cr!Confirmed(w) PROVE CrTyped' /\ CrFollows'
  BY <1>8, CrLooks, CrRereads, CrSettles, CrConfirms
<1>9. QED BY <1>1, <1>2, <1>3, <1>4, <1>5, <1>6, <1>7, <1>8 DEF CrNext, Cr!Next

\* What the ends of the writes say of the rows.
LEMMA CrSuffices ==
    ASSUME CrTyped, CrFollows, NEW w, CrWriters = {w}
    PROVE  Cr!OutputIsShown /\ Cr!SelectedModeIsLive /\ Cr!SlidersAreTheCurve
<1>1. crLast # None /\ ~crStirred => CrEnded(crHw, crHeld, crLast)
  BY DEF CrFollows, CrAlone, CrSound
<1>2. Cr!OutputIsShown
  BY <1>1 DEF Cr!OutputIsShown, Cr!Untouched, CrEnded
<1>3. Cr!SelectedModeIsLive
  BY <1>1 DEF Cr!SelectedModeIsLive, Cr!Untouched, Cr!Off, CrEnded
<1>4. Cr!SlidersAreTheCurve
  BY <1>1 DEF Cr!SlidersAreTheCurve, Cr!Untouched, Cr!Off, CrEnded
<1>5. QED BY <1>2, <1>3, <1>4
=============================================================================
