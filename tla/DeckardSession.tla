--------------------------- MODULE DeckardSession ---------------------------
(***************************************************************************)
(* A Poly headset reached through its adapter: the Deckard session, and    *)
(* PolyHeadsetDevice on it.  Both ends answer on one link, have settings   *)
(* of the same names and ids, and differ only in the address a request     *)
(* carries; what they push carries none the session looks at.  One setting *)
(* stands for each end's settings.                                         *)
(***************************************************************************)
EXTENDS Filtering, SequencesExt

CONSTANTS
    Levels,        \* the values of the setting
    Attempts,       \* reads that confirm a write
    Stash,          \* MAX_EVENT_BACKLOG
    None,
    MaxOps,         \* bound: operations
    MaxStirs        \* bound: changes on either end, requests left unanswered, links lost

VARIABLES
    dkLink,       \* "closed" | "open" | "gone", which only connecting again mends
    dkSession,    \* PolyHeadsetDevice._hp is set
    dkAddr,       \* br_address: the end requests are addressed to
    dkHw,         \* per end: the value it holds
    dkAsked,      \* requests sent and not handled
    dkPipe,       \* frames sent by the ends and not read
    dkEvents,     \* the values of the events stashed
    dkOp,         \* the operation under way
    dkCall,       \* the request waiting: "set", "get" or None
    dkPage,       \* per row: _values
    dkTrouble,    \* which of "late", "silent", "dropped", "foreign" have happened
    dkPressed,    \* the Reconnect button was pressed on a device that is not connected
    dkCount

dkVars == <<dkLink, dkSession, dkAddr, dkHw, dkAsked, dkPipe, dkEvents, dkOp, dkCall, dkPage,
            dkTrouble, dkPressed, dkCount>>
ends == <<dkHw, dkAsked>>
state == <<dkLink, dkSession, dkPressed, dkCount>>

Ends == {"headset", "adapter"}
Answer(kind, v) == [t |-> kind, val |-> v, end |-> None]
Event(e, v) == [t |-> "event", val |-> v, end |-> e]
Events == [t : {"event"}, val : Levels, end : Ends]

Init ==
    /\ dkLink = "closed" /\ dkSession = FALSE
    /\ dkAddr = "headset"
    /\ dkHw = [e \in Ends |-> CHOOSE v \in Levels : TRUE]
    /\ dkAsked = <<>> /\ dkPipe = <<>> /\ dkEvents = <<>>
    /\ dkOp = None /\ dkCall = None /\ dkPage = None
    /\ dkTrouble = {} /\ dkPressed = FALSE
    /\ dkCount = [ops |-> 0, stirs |-> 0]

Bump(field) == dkCount' = [dkCount EXCEPT ![field] = @ + 1]
CanStir == dkCount.stirs < MaxStirs

\* The handshake, the attached headset's address, and the snapshot of both ends.
Attached ==
    /\ dkLink' = "open" /\ dkSession' = TRUE
    /\ dkAddr' = "headset"
    /\ dkPage' = dkHw
    /\ dkAsked' = <<>> /\ dkPipe' = <<>> /\ dkEvents' = <<>>

Connect ==
    /\ dkLink = "closed"
    /\ Attached
    /\ UNCHANGED <<dkHw, dkOp, dkCall, dkTrouble, dkPressed, dkCount>>

\* An operation holds the device's lock from here to its end.
Begin(op) ==
    /\ dkOp = None /\ dkCount.ops < MaxOps
    /\ dkOp' = op
    /\ Bump("ops")

\* The end the row belongs to is addressed for as long as its operation runs.
Write(row, v) ==
    /\ dkSession
    /\ Begin([row |-> row, val |-> v, at |-> "set", tries |-> Attempts])
    /\ dkAddr' = row
    /\ UNCHANGED <<dkLink, dkSession, dkHw, dkAsked, dkPipe, dkEvents, dkCall, dkPage, dkTrouble,
                   dkPressed>>

\* _read_snapshot: the headset's setting, then the adapter's.
Refresh ==
    /\ dkSession
    /\ Begin([row |-> "headset", val |-> None, at |-> "get", tries |-> 1])
    /\ dkAddr' = "headset"
    /\ UNCHANGED <<dkLink, dkSession, dkHw, dkAsked, dkPipe, dkEvents, dkCall, dkPage, dkTrouble,
                   dkPressed>>

\* The Reconnect button: the session is closed and built again, or not built.
Reconnect ==
    /\ dkOp = None /\ dkSession /\ dkCount.ops < MaxOps
    /\ Bump("ops")
    /\ \/ Attached
       \/ /\ dkLink = "gone" /\ dkSession' = FALSE
          /\ UNCHANGED <<dkLink, dkAddr, dkPage, dkAsked, dkPipe, dkEvents>>
    /\ UNCHANGED <<dkHw, dkOp, dkCall, dkTrouble, dkPressed>>

\* Every key is refused without a session, Reconnect among them.
Refused ==
    /\ dkLink # "closed" /\ ~dkSession
    /\ dkPressed' = TRUE
    /\ UNCHANGED <<dkLink, dkSession, dkAddr, ends, dkPipe, dkEvents, dkOp, dkCall, dkPage, dkTrouble,
                   dkCount>>

-----------------------------------------------------------------------------
(* One exchange. *)

Send ==
    /\ dkOp # None /\ dkCall = None
    /\ dkCall' = dkOp.at
    /\ dkAsked' = Append(dkAsked, [t |-> dkOp.at, end |-> dkAddr, val |-> dkOp.val])
    /\ UNCHANGED <<dkAddr, dkHw, dkPipe, dkEvents, dkOp, dkPage, dkTrouble>> /\ UNCHANGED state

KeptAll(events) == events

Kept(events) == IF Len(events) <= Stash THEN events
                ELSE SubSeq(events, Len(events) - Stash + 1, Len(events))

\* The address goes back to the headset however the operation ended.
StaysOnFailure(ok) == dkAddr' = IF ok THEN "headset" ELSE dkAddr

Restored(ok) == dkAddr' = "headset"

Ended(ok) == dkOp' = None /\ Restored(ok)

\* A write that was answered is confirmed by the newest event stashed, or read back.
Confirming(events) ==
    IF events # <<>> /\ Last(events) = dkOp.val
    THEN /\ dkPage' = [dkPage EXCEPT ![dkOp.row] = dkOp.val]
         /\ Ended(TRUE)
    ELSE /\ dkOp' = [dkOp EXCEPT !.at = "get"]
         /\ UNCHANGED <<dkPage, dkAddr>>

\* A reading confirms the write, is tried again, or fails it; a refresh goes on to the adapter.
ReadingOf(v) ==
    IF dkOp.val = None
    THEN /\ dkPage' = [dkPage EXCEPT ![dkOp.row] = v]
         /\ IF dkOp.row = "headset" THEN dkOp' = [dkOp EXCEPT !.row = "adapter"] /\ dkAddr' = "adapter"
            ELSE Ended(TRUE)
    ELSE IF v = dkOp.val
    THEN dkPage' = [dkPage EXCEPT ![dkOp.row] = v] /\ Ended(TRUE)
    ELSE /\ UNCHANGED dkPage
         /\ IF dkOp.tries > 1 THEN dkOp' = [dkOp EXCEPT !.tries = @ - 1] /\ UNCHANGED dkAddr
            ELSE Ended(FALSE)

\* receive gives what is there.  A reply is known by its id alone; what lay behind it is lost.
Receive ==
    /\ dkCall # None /\ dkPipe # <<>>
    /\ \E n \in 1..Len(dkPipe) :
        LET batch == SubSeq(dkPipe, 1, n)
            own == {i \in 1..n : batch[i].t = dkCall}
            upto == IF own = {} THEN n ELSE CHOOSE i \in own : \A j \in own : i <= j
            met == Filtered(SubSeq(batch, 1, upto), Events)
            events == Kept(dkEvents \o [i \in 1..Len(met) |-> met[i].val])
            behind == SubSeq(batch, upto + 1, n)
        IN /\ dkPipe' = SubSeq(dkPipe, n + 1, Len(dkPipe))
           /\ dkTrouble' = dkTrouble
                \cup (IF Filtered(behind, Events) # <<>> THEN {"dropped"} ELSE {})
                \cup (IF \E i \in 1..Len(met) : met[i].end = "adapter" THEN {"foreign"} ELSE {})
           /\ IF own = {} THEN dkEvents' = events /\ UNCHANGED <<dkCall, dkOp, dkPage, dkAddr>>
              ELSE /\ dkCall' = None
                   /\ IF dkCall = "set" THEN dkEvents' = <<>> /\ Confirming(events)
                      ELSE dkEvents' = events /\ ReadingOf(batch[upto].val)
    /\ UNCHANGED ends /\ UNCHANGED state

\* The deadline of the exchange: a write fails, a row of a refresh is left out.
OverdueUnread == dkCall # None /\ dkPipe # <<>>

Overdue == dkCall # None

Timeout ==
    /\ Overdue
    /\ dkCall' = None
    /\ dkTrouble' = dkTrouble \cup {"late"}
    /\ IF dkOp.val = None /\ dkOp.row = "headset"
       THEN dkOp' = [dkOp EXCEPT !.row = "adapter"] /\ dkAddr' = "adapter"
       ELSE Ended(FALSE)
    /\ UNCHANGED <<ends, dkPipe, dkEvents, dkPage>> /\ UNCHANGED state

\* The poll, under the device's lock: every event is taken for the headset's.
ShownFirst(values) == Head(values)

ShownInOrder(values) == Last(values)

DrainEvents ==
    /\ dkSession /\ dkOp = None /\ dkLink = "open"
    /\ LET got == Filtered(dkPipe, Events)
           values == dkEvents \o [i \in 1..Len(got) |-> got[i].val]
       IN /\ values # <<>> \/ dkPipe # <<>>
          /\ dkPage' = IF values = <<>> THEN dkPage
                       ELSE [dkPage EXCEPT !["headset"] = ShownInOrder(values)]
          /\ dkTrouble' = dkTrouble
                \cup (IF \E i \in 1..Len(got) : got[i].end = "adapter" THEN {"foreign"} ELSE {})
    /\ dkEvents' = <<>> /\ dkPipe' = <<>>
    /\ UNCHANGED <<dkAddr, ends, dkOp, dkCall>> /\ UNCHANGED state

-----------------------------------------------------------------------------
(* The ends. *)

Handle(kind) == dkAsked # <<>> /\ Head(dkAsked).t = kind /\ dkAsked' = Tail(dkAsked)

HandleGet ==
    /\ Handle("get")
    /\ dkPipe' = Append(dkPipe, Answer("get", dkHw[Head(dkAsked).end]))
    /\ UNCHANGED <<dkAddr, dkHw, dkEvents, dkOp, dkCall, dkPage, dkTrouble>> /\ UNCHANGED state

\* A write is answered; the headset announces what changed, before the answer or after it.
HandleSet ==
    /\ Handle("set")
    /\ LET r == Head(dkAsked) IN
        /\ dkHw' = [dkHw EXCEPT ![r.end] = r.val]
        /\ \/ dkPipe' = dkPipe \o <<Event(r.end, r.val), Answer("set", r.val)>>
           \/ dkPipe' = dkPipe \o <<Answer("set", r.val), Event(r.end, r.val)>>
    /\ UNCHANGED <<dkAddr, dkEvents, dkOp, dkCall, dkPage, dkTrouble>> /\ UNCHANGED state

\* A button of the headset, or the adapter's own change: announced.
Touch(e, v) ==
    /\ dkLink = "open" /\ CanStir
    /\ dkHw' = [dkHw EXCEPT ![e] = v]
    /\ dkPipe' = Append(dkPipe, Event(e, v))
    /\ Bump("stirs")
    /\ UNCHANGED <<dkLink, dkSession, dkAddr, dkAsked, dkEvents, dkOp, dkCall, dkPage, dkTrouble,
                   dkPressed>>

Silent ==
    /\ dkAsked # <<>> /\ CanStir
    /\ dkAsked' = Tail(dkAsked)
    /\ dkTrouble' = dkTrouble \cup {"silent"}
    /\ Bump("stirs")
    /\ UNCHANGED <<dkLink, dkSession, dkAddr, dkHw, dkPipe, dkEvents, dkOp, dkCall, dkPage, dkPressed>>

\* The headset leaves its adapter's range, between two operations.
GoesAway ==
    /\ dkLink = "open" /\ dkOp = None /\ CanStir
    /\ dkLink' = "gone"
    /\ dkAsked' = <<>> /\ dkPipe' = <<>>
    /\ Bump("stirs")
    /\ UNCHANGED <<dkSession, dkAddr, dkHw, dkEvents, dkOp, dkCall, dkPage, dkTrouble, dkPressed>>

-----------------------------------------------------------------------------
Exchange == Send \/ Receive \/ Timeout

Next ==
    \/ Connect \/ Refresh \/ Reconnect \/ Refused
    \/ \E e \in Ends, v \in Levels : Write(e, v) \/ Touch(e, v)
    \/ Exchange \/ DrainEvents
    \/ HandleGet \/ HandleSet \/ Silent \/ GoesAway

Spec == Init /\ [][Next]_dkVars

Scheduled == WF_dkVars(Exchange)

-----------------------------------------------------------------------------
TypeOK ==
    /\ dkAddr \in Ends /\ dkHw \in [Ends -> Levels]
    /\ dkSession => dkPage \in [Ends -> Levels]
    /\ dkEvents \in Seq(Levels) /\ Len(dkEvents) <= Stash
    /\ dkCall \in {None, "set", "get"}

\* A write reaches the end its row belongs to and no other, through refreshes, adapter writes and
\* requests that failed half way: one address serves both ends and every operation borrows it.
WriteGoesToItsEnd ==
    /\ (dkOp # None => dkAddr = dkOp.row)
    /\ (dkOp = None => dkAddr = "headset")

\* With answers on time the page comes to rest on what the headset holds, whatever order its
\* buttons, the writes and the readings came in.
PageSettles ==
    (/\ dkSession /\ dkLink = "open" /\ dkOp = None
     /\ dkPipe = <<>> /\ dkEvents = <<>> /\ dkTrouble = {})
        => dkPage["headset"] = dkHw["headset"]

\* An operation ends, on a link where nobody answers too: it costs its deadlines.
OperationsEnd == dkOp # None ~> dkOp = None

\* device.py: reconnecting is for what a refresh cannot fix, "a stalled link, a headset that
\* rebooted or moved host": the button still does something after it failed once.
ReconnectIsNeverRefused == ~dkPressed
=============================================================================
