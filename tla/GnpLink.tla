------------------------------ MODULE GnpLink ------------------------------
(***************************************************************************)
(* The conversation with a Jabra device over its hidraw node:              *)
(* HidTransport with its cross-process lock, and GnpSession on it.         *)
(*                                                                         *)
(* A link is one HidTransport: the device page of this program, of another *)
(* one, or the one that a second connect makes.  Every report the device   *)
(* sends goes to each link that holds the node open, so that a sequence    *)
(* number is all that tells whose reply is whose.  A packet is one report. *)
(***************************************************************************)
EXTENDS Filtering, SequencesExt, FiniteSets

CONSTANTS
    Links,          \* transports that may talk to the device
    Numbers,        \* sequence numbers are 1..Numbers and then 1 again
    Backlog,        \* maxlen of the events a session keeps
    None,
    MaxRequests,    \* bound: requests, of all links
    MaxStirs        \* bound: events the device pushes and re-enumerations

ASSUME LinksAssumption ==
    /\ Numbers \in Nat \ {0} /\ Backlog \in Nat \ {0}
    /\ MaxRequests \in Nat /\ MaxStirs \in Nat
    /\ None \notin Links

VARIABLES
    gnpOwner,    \* per link: what became of the device object that made it
    gnpLock,     \* the link that holds the flock
    gnpFd,       \* per link: "none" | "live" | "dead", a node that re-enumerated
    gnpWork,     \* requests the device has and has not answered
    gnpInbox,    \* per link: packets read by nobody yet
    gnpSeq,      \* per link: SequenceCounter
    gnpCall,     \* per link: the request waiting, with the newest reply that was not its own
    gnpEvents,   \* per link: events stashed
    gnpSeen,     \* per link: what drain_events handed out, in order
    gnpResult,   \* per link: what its last request returned
    gnpCount     \* what the bounds count

gnpVars == <<gnpOwner, gnpLock, gnpFd, gnpWork, gnpInbox, gnpSeq, gnpCall, gnpEvents, gnpSeen, gnpResult,
             gnpCount>>
session == <<gnpSeq, gnpCall, gnpResult>>
stash == <<gnpEvents, gnpSeen>>

Reply(r) == [t |-> "reply", seq |-> r.seq, id |-> r.id, who |-> r.who]
Pushed(n) == [t |-> "event", seq |-> 0, id |-> n, who |-> None]
IsReply(p) == p.t = "reply"

Requests == [who : Links, seq : 1..Numbers, id : Nat]
Replies == [t : {"reply"}, seq : 1..Numbers, id : Nat, who : Links]
Events == [t : {"event"}, seq : {0}, id : Nat, who : {None}]
Packets == Replies \cup Events

\* Pre-incremented, wrapping past zero.
NextUnmoved(n) == n

NextNumber(n) == IF n = Numbers THEN 1 ELSE n + 1

\* deque(maxlen): the oldest goes.
KeptAll(events) == events

Kept(events) == IF Len(events) <= Backlog THEN events
                ELSE SubSeq(events, Len(events) - Backlog + 1, Len(events))

Init ==
    /\ gnpOwner = [l \in Links |-> "new"]
    /\ gnpLock = None
    /\ gnpFd = [l \in Links |-> "none"]
    /\ gnpWork = <<>>
    /\ gnpInbox = [l \in Links |-> <<>>]
    /\ gnpSeq = [l \in Links |-> Numbers]
    /\ gnpCall = [l \in Links |-> None]
    /\ gnpEvents = [l \in Links |-> <<>>] /\ gnpSeen = [l \in Links |-> <<>>]
    /\ gnpResult = [l \in Links |-> None]
    /\ gnpCount = [requests |-> 0, pushes |-> 0, drops |-> 0]

Owner(l, what) == gnpOwner' = [gnpOwner EXCEPT ![l] = what]

Bump(field) == gnpCount' = [gnpCount EXCEPT ![field] = @ + 1]

-----------------------------------------------------------------------------
(* The transport. *)

\* _DeviceLock.acquire: not blocking, a second process is told the device is busy.
AcquireAnyway(l) == gnpLock' = l

Acquire(l) == gnpLock = None /\ gnpLock' = l

\* JabraDevice.connect: the node is opened and asked who answers.
Connect(l) ==
    /\ gnpOwner[l] = "new"
    /\ Acquire(l)
    /\ Owner(l, "connecting")
    /\ gnpFd' = [gnpFd EXCEPT ![l] = "live"]
    /\ UNCHANGED <<gnpWork, gnpInbox, session, stash, gnpCount>>

Discovered(l) ==
    /\ gnpOwner[l] = "connecting" /\ gnpResult[l] # None /\ gnpResult[l].how # "timeout"
    /\ Owner(l, "connected")
    /\ UNCHANGED <<gnpLock, gnpFd, gnpWork, gnpInbox, session, stash, gnpCount>>

\* "no GNP endpoint answered": the device object is given up, its transport is not closed.
NobodyAnswered(l) ==
    /\ gnpOwner[l] = "connecting" /\ gnpResult[l] # None /\ gnpResult[l].how = "timeout"
    /\ Owner(l, "failed")
    /\ UNCHANGED <<gnpLock, gnpFd, gnpWork, gnpInbox, session, stash, gnpCount>>

\* close: the descriptor goes, and the lock with it.
Closed(l) ==
    /\ gnpFd' = [gnpFd EXCEPT ![l] = "none"]
    /\ gnpInbox' = [gnpInbox EXCEPT ![l] = <<>>]
    /\ gnpLock' = IF gnpLock = l THEN None ELSE gnpLock

\* disconnect takes no lock: the operation whose request is waiting goes on with the rest of it.
Disconnect(l) ==
    /\ gnpOwner[l] = "connected"
    /\ Closed(l)
    /\ Owner(l, IF gnpCall[l] = None THEN "closed" ELSE "closing")
    /\ UNCHANGED <<gnpWork, session, stash, gnpCount>>

\* send on a node that is gone reconnects, which closes first and takes no lock again.
SendWritten(l, r) ==
    IF gnpFd[l] = "live"
    THEN gnpWork' = Append(gnpWork, r) /\ UNCHANGED <<gnpFd, gnpInbox, gnpLock>>
    ELSE /\ gnpWork' = Append(gnpWork, r)
         /\ gnpFd' = [gnpFd EXCEPT ![l] = "live"]
         /\ gnpInbox' = [gnpInbox EXCEPT ![l] = <<>>]
         /\ gnpLock' = IF gnpLock = l THEN None ELSE gnpLock

-----------------------------------------------------------------------------
(* The session. *)

Request(l) ==
    /\ gnpCall[l] = None /\ gnpCount.requests < MaxRequests
    /\ gnpOwner[l] = "connecting" => gnpResult[l] = None
    /\ gnpOwner[l] \in {"connecting", "connected", "closing"}
    /\ gnpSeq' = [gnpSeq EXCEPT ![l] = NextNumber(@)]
    /\ LET r == [who |-> l, seq |-> gnpSeq'[l], id |-> gnpCount.requests]
       IN /\ gnpCall' = [gnpCall EXCEPT ![l] = [seq |-> r.seq, id |-> r.id, stale |-> None]]
          /\ SendWritten(l, r)
    /\ Bump("requests")
    /\ UNCHANGED <<gnpOwner, gnpResult, stash>>

Return(l, how, packet) ==
    /\ gnpCall' = [gnpCall EXCEPT ![l] = None]
    /\ gnpResult' = [gnpResult EXCEPT ![l] =
                        [how |-> how, id |-> gnpCall[l].id, packet |-> packet]]

\* receive gives what is there; the reply is returned from the middle of it, what follows is lost.
AwaitReply(l) ==
    /\ gnpCall[l] # None /\ gnpFd[l] = "live" /\ gnpInbox[l] # <<>>
    /\ \E n \in 1..Len(gnpInbox[l]) :
        LET batch == SubSeq(gnpInbox[l], 1, n)
            own == {i \in 1..n : IsReply(batch[i]) /\ batch[i].seq = gnpCall[l].seq}
            read == IF own = {} THEN batch ELSE SubSeq(batch, 1, CHOOSE i \in own : \A j \in own : i <= j)
            others == Filtered(read, Replies)
        IN /\ gnpInbox' = [gnpInbox EXCEPT ![l] = SubSeq(@, n + 1, Len(@))]
           /\ gnpEvents' = [gnpEvents EXCEPT ![l] = Kept(@ \o Filtered(read, Events))]
           /\ IF own # {} THEN Return(l, "matched", Last(read))
              ELSE /\ gnpCall' = [gnpCall EXCEPT ![l].stale = IF others = <<>> THEN @ ELSE Last(others)]
                   /\ UNCHANGED gnpResult
    /\ UNCHANGED <<gnpOwner, gnpLock, gnpFd, gnpWork, gnpSeq, gnpSeen, gnpCount>>

\* A read finds the node gone: it is closed, and the loop spins until its deadline.
ReadFails(l) ==
    /\ gnpCall[l] # None /\ gnpFd[l] = "dead"
    /\ Closed(l)
    /\ UNCHANGED <<gnpOwner, gnpWork, session, stash, gnpCount>>

\* Past the deadline the newest reply to something else is taken, or the request fails.
OverdueWhenAnswered(l) == gnpCall[l] # None /\ gnpCall[l].stale # None

Overdue(l) == gnpCall[l] # None

Timeout(l) ==
    /\ Overdue(l)
    /\ Return(l, IF gnpCall[l].stale = None THEN "timeout" ELSE "stale", gnpCall[l].stale)
    /\ UNCHANGED <<gnpOwner, gnpLock, gnpFd, gnpWork, gnpInbox, gnpSeq, stash, gnpCount>>

\* drain_events: what is there is read, stray replies are dropped, the stash is handed out.
HandedOutAgain(l, events) == gnpSeen' = [gnpSeen EXCEPT ![l] = @ \o events]
                             /\ gnpEvents' = [gnpEvents EXCEPT ![l] = events]

HandedOut(l, events) == gnpSeen' = [gnpSeen EXCEPT ![l] = @ \o events]
                        /\ gnpEvents' = [gnpEvents EXCEPT ![l] = <<>>]

DrainEvents(l) ==
    /\ gnpOwner[l] = "connected" /\ gnpCall[l] = None /\ gnpFd[l] = "live"
    /\ gnpInbox[l] # <<>> \/ gnpEvents[l] # <<>>
    /\ HandedOut(l, Kept(gnpEvents[l] \o Filtered(gnpInbox[l], Events)))
    /\ gnpInbox' = [gnpInbox EXCEPT ![l] = <<>>]
    /\ UNCHANGED <<gnpOwner, gnpLock, gnpFd, gnpWork, session, gnpCount>>

-----------------------------------------------------------------------------
(* The device. *)

\* A report reaches every process that has the node open.
Broadcast(packet) ==
    gnpInbox' = [l \in Links |-> IF gnpFd[l] = "live" THEN Append(gnpInbox[l], packet) ELSE gnpInbox[l]]

Answer ==
    /\ gnpWork # <<>>
    /\ Broadcast(Reply(Head(gnpWork)))
    /\ gnpWork' = Tail(gnpWork)
    /\ UNCHANGED <<gnpOwner, gnpLock, gnpFd, session, stash, gnpCount>>

\* A request the device never answers.
Ignore ==
    /\ gnpWork # <<>>
    /\ gnpWork' = Tail(gnpWork)
    /\ UNCHANGED <<gnpOwner, gnpLock, gnpFd, gnpInbox, session, stash, gnpCount>>

Push ==
    /\ gnpCount.pushes + gnpCount.drops < MaxStirs
    /\ Broadcast(Pushed(gnpCount.pushes))
    /\ Bump("pushes")
    /\ UNCHANGED <<gnpOwner, gnpLock, gnpFd, gnpWork, session, stash>>

\* The dongle re-enumerates: every descriptor is dead, what it had to answer is gone.
Reenumerate ==
    /\ gnpCount.pushes + gnpCount.drops < MaxStirs
    /\ gnpFd' = [l \in Links |-> IF gnpFd[l] = "live" THEN "dead" ELSE gnpFd[l]]
    /\ gnpWork' = <<>>
    /\ gnpInbox' = [l \in Links |-> <<>>]
    /\ Bump("drops")
    /\ UNCHANGED <<gnpOwner, gnpLock, session, stash>>

-----------------------------------------------------------------------------
Waiting(l) == AwaitReply(l) \/ ReadFails(l) \/ Timeout(l)

Next ==
    \/ \E l \in Links : Connect(l) \/ Discovered(l) \/ NobodyAnswered(l) \/ Disconnect(l)
    \/ \E l \in Links : Request(l) \/ Waiting(l) \/ DrainEvents(l)
    \/ Answer \/ Ignore \/ Push \/ Reenumerate

Spec == Init /\ [][Next]_gnpVars

Scheduled == \A l \in Links : WF_gnpVars(Waiting(l))

-----------------------------------------------------------------------------
TypeOK ==
    /\ gnpOwner \in [Links -> {"new", "connecting", "connected", "failed", "closing", "closed"}]
    /\ gnpLock \in Links \cup {None}
    /\ gnpFd \in [Links -> {"none", "live", "dead"}]
    /\ gnpWork \in Seq(Requests)
    /\ gnpSeq \in [Links -> 1..Numbers]
    /\ gnpCall \in [Links -> [seq : 1..Numbers, id : Nat, stale : Replies \cup {None}] \cup {None}]
    /\ gnpInbox \in [Links -> Seq(Packets)]
    /\ gnpEvents \in [Links -> Seq(Events)] /\ \A l \in Links : Len(gnpEvents[l]) <= Backlog
    /\ gnpSeen \in [Links -> Seq(Events)]
    /\ gnpResult \in [Links -> [how : {"matched", "stale", "timeout"}, id : Nat,
                                packet : Replies \cup {None}] \cup {None}]
    /\ gnpCount \in [requests : 0..MaxRequests, pushes : Nat, drops : Nat]

\* A reply accepted by its number is the reply to this request and not to an earlier one of the
\* same process that was given up: the off-by-one that follows from it never ends by itself.
RepliesAreOwn ==
    \A l \in Links :
        (gnpResult[l] # None /\ gnpResult[l].how = "matched" /\ gnpResult[l].packet.who = l)
            => gnpResult[l].packet.id = gnpResult[l].id

\* What the device pushes reaches the page at most once and in the order it was pushed, however
\* many requests it was met behind.
EventsInOrder ==
    \A l \in Links : LET seen == gnpSeen[l] \o gnpEvents[l]
                     IN \A i, j \in 1..Len(seen) : i < j => seen[i].id < seen[j].id

Talking == {l \in Links : gnpFd[l] = "live"}

\* As long as the device does not re-enumerate and no closed link is used again, one link at most
\* talks to it: nothing on the wire would tell the answers to two of them apart.
AloneUntilReopened ==
    (gnpCount.drops = 0 /\ \A l \in Talking : gnpOwner[l] # "closing") => Cardinality(Talking) <= 1

\* JABRA_UI_BEHAVIOUR.md: "One conversation per device, across processes."
OneConversation == Cardinality(Talking) <= 1

\* device.py: "close the link rather than leave the flock held by a device the shell believes
\* failed to open."
FailedConnectLetsGo == \A l \in Links : gnpOwner[l] = "failed" => gnpLock # l

\* A request comes back, answered or not: a device that says nothing costs its deadline.
RequestsEnd == \A l \in Links : gnpCall[l] # None ~> gnpCall[l] = None
=============================================================================
