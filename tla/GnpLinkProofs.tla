--------------------------- MODULE GnpLinkProofs ---------------------------
(***************************************************************************)
(* What a Jabra device's sessions can rely on, for any number of           *)
(* transports, requests and pushes: one conversation at a time, events in  *)
(* the order they were pushed, and replies that are their own.             *)
(***************************************************************************)
EXTENDS GnpLink, FilteringProofs, FiniteSetTheorems, TLAPS

-----------------------------------------------------------------------------
(* What a read and a drain do to the packets.                              *)

\* What the backlog keeps is an end of what came, and no longer than it.
LEMMA KeptIsAnEnd ==
    ASSUME NEW events \in Seq(Events)
    PROVE  /\ Kept(events) \in Seq(Events) /\ Len(Kept(events)) <= Backlog
           /\ \E gone \in Seq(Events) : events = gone \o Kept(events)
<1> DEFINE n == Len(events) - Backlog
<1>1. CASE Len(events) <= Backlog
  <2>1. Kept(events) = events
    BY <1>1 DEF Kept
  <2>2. events = <<>> \o events /\ <<>> \in Seq(Events)
    BY ConcatEmptySeq, EmptySeq
  <2>3. QED BY <1>1, <2>1, <2>2
<1>2. CASE ~(Len(events) <= Backlog)
  <2>1. /\ n \in 1..Len(events) /\ Backlog \in Nat /\ n + 1 \in Int /\ Len(events) \in Int
        /\ n \in 0..Len(events) /\ 1 \in 1..(Len(events) + 1) /\ Len(events) \in n..Len(events)
    BY <1>2, LinksAssumption DEF LinksAssumption
  <2>2. Kept(events) = SubSeq(events, n + 1, Len(events))
    BY <1>2 DEF Kept
  <2>3. \A i \in (n + 1)..Len(events) : events[i] \in Events
    BY <2>1
  <2>4. Kept(events) \in Seq(Events) /\ Len(Kept(events)) = Backlog
    BY <2>1, <2>2, <2>3, SubSeqProperties
  <2>5. SubSeq(events, 1, n) \o SubSeq(events, n + 1, Len(events)) = SubSeq(events, 1, Len(events))
    BY <2>1, ConcatAdjacentSubSeq
  <2>6. SubSeq(events, 1, Len(events)) = events
    BY SubSeqFull
  <2>7. SubSeq(events, 1, n) \in Seq(Events)
    BY <2>1
  <2>8. events = SubSeq(events, 1, n) \o Kept(events)
    BY <2>2, <2>5, <2>6, Zenon
  <2>9. Len(Kept(events)) <= Backlog
    BY <2>1, <2>4
  <2> HIDE DEF n
  <2>10. QED BY <2>4, <2>7, <2>8, <2>9, Zenon
<1>3. QED BY <1>1, <1>2

\* A sequence is its first n members and those after them.
LEMMA InTwo ==
    ASSUME NEW S, NEW s \in Seq(S), NEW n \in 0..Len(s)
    PROVE  /\ SubSeq(s, 1, n) \in Seq(S) /\ SubSeq(s, n + 1, Len(s)) \in Seq(S)
           /\ Len(SubSeq(s, 1, n)) = n
           /\ \A i \in 1..n : SubSeq(s, 1, n)[i] = s[i]
           /\ s = SubSeq(s, 1, n) \o SubSeq(s, n + 1, Len(s))
<1>1. /\ Len(s) \in Nat /\ n \in Nat /\ n \in 0..Len(s) /\ 1 \in 1..(Len(s) + 1)
      /\ Len(s) \in n..Len(s) /\ 1 - 1 = 0 /\ n \in (1 - 1)..Len(s)
  OBVIOUS
<1>2. SubSeq(s, 1, n) \o SubSeq(s, n + 1, Len(s)) = SubSeq(s, 1, Len(s))
  BY <1>1, ConcatAdjacentSubSeq
<1>3. SubSeq(s, 1, Len(s)) = s
  BY SubSeqFull
<1>4. SubSeq(s, 1, n) \in Seq(S) /\ SubSeq(s, n + 1, Len(s)) \in Seq(S)
  BY <1>1
<1>5. Len(SubSeq(s, 1, n)) = n /\ \A i \in 1..n : SubSeq(s, 1, n)[i] = s[i]
  BY <1>1
<1>6. QED BY <1>2, <1>3, <1>4, <1>5, Zenon

\* What a read takes from the inbox: the packets up to its answer, or all of them, and with an
\* answer those behind it, which nobody sees.
Matching(l, p) == IsReply(p) /\ p.seq = gnpCall[l].seq

Read(l, read, rest, left) ==
    /\ gnpInbox[l] = read \o (rest \o left)
    /\ gnpInbox' = [gnpInbox EXCEPT ![l] = left]
    /\ gnpEvents' = [gnpEvents EXCEPT ![l] = Kept(@ \o Filtered(read, Events))]
    /\ \/ /\ Len(read) > 0 /\ Matching(l, Last(read)) /\ Return(l, "matched", Last(read))
       \/ LET others == Filtered(read, Replies)
          IN /\ gnpCall' = [gnpCall EXCEPT ![l].stale = IF others = <<>> THEN @ ELSE Last(others)]
             /\ gnpResult' = gnpResult

LEMMA AwaitReads ==
    ASSUME TypeOK, NEW l \in Links, AwaitReply(l)
    PROVE  \E read, rest, left \in Seq(Packets) : Read(l, read, rest, left)
<1> DEFINE inbox == gnpInbox[l]
<1>1. inbox \in Seq(Packets) /\ Len(inbox) \in Nat
  BY DEF TypeOK
<1> DEFINE Batch(n) == SubSeq(inbox, 1, n)
           Own(n) == {i \in 1..n : IsReply(Batch(n)[i]) /\ Batch(n)[i].seq = gnpCall[l].seq}
           Upto(n) == IF Own(n) = {} THEN Batch(n)
                      ELSE SubSeq(Batch(n), 1, CHOOSE i \in Own(n) : \A j \in Own(n) : i <= j)
<1>2. PICK n \in 1..Len(inbox) :
        /\ gnpInbox' = [gnpInbox EXCEPT ![l] = SubSeq(@, n + 1, Len(@))]
        /\ gnpEvents' = [gnpEvents EXCEPT ![l] = Kept(@ \o Filtered(Upto(n), Events))]
        /\ IF Own(n) # {} THEN Return(l, "matched", Last(Upto(n)))
           ELSE LET others == Filtered(Upto(n), Replies)
                IN /\ gnpCall' = [gnpCall EXCEPT ![l].stale =
                                     IF others = <<>> THEN @ ELSE Last(others)]
                   /\ UNCHANGED gnpResult
  BY Zenon DEF AwaitReply
<1> DEFINE batch == Batch(n)
           own == Own(n)
           left == SubSeq(inbox, n + 1, Len(inbox))
<1>3. n \in 0..Len(inbox) /\ n \in Nat
  BY <1>1
<1>4. /\ batch \in Seq(Packets) /\ left \in Seq(Packets) /\ Len(batch) = n
      /\ inbox = batch \o left
  BY <1>1, <1>3, InTwo, Zenon
<1>5. gnpInbox' = [gnpInbox EXCEPT ![l] = left]
  BY <1>2 DEF TypeOK
<1>6. own = {i \in 1..n : Matching(l, batch[i])}
  BY DEF Matching
<1>7. Upto(n) = IF own = {} THEN batch
                ELSE SubSeq(batch, 1, CHOOSE i \in own : \A j \in own : i <= j)
  OBVIOUS
<1> DEFINE upto == Upto(n)
<1>8. /\ gnpEvents' = [gnpEvents EXCEPT ![l] = Kept(@ \o Filtered(upto, Events))]
      /\ IF own # {} THEN Return(l, "matched", Last(upto))
         ELSE LET others == Filtered(upto, Replies)
              IN /\ gnpCall' = [gnpCall EXCEPT ![l].stale = IF others = <<>> THEN @ ELSE Last(others)]
                 /\ gnpResult' = gnpResult
  BY <1>2
<1> HIDE DEF upto, own, batch, left, Upto, Own, Batch
<1>9. CASE own = {}
  <2>1. upto = batch
    BY <1>7, <1>9 DEF upto
  <2>2. <<>> \in Seq(Packets) /\ <<>> \o left = left
    BY <1>4, EmptySeq, ConcatEmptySeq
  <2>3. inbox = batch \o (<<>> \o left)
    BY <1>4, <2>2, Zenon
  <2>4. Read(l, batch, <<>>, left)
    BY <1>5, <1>8, <1>9, <2>1, <2>3, Zenon DEF Read
  <2>5. QED BY <1>4, <2>2, <2>4, Zenon
<1>10. CASE own # {}
  <2>1. own \in SUBSET Nat
    BY <1>3, <1>6
  <2>2. PICK k \in own : \A j \in own : k <= j
    BY <1>10, <2>1, LeastMember, Zenon
  <2> DEFINE first == CHOOSE i \in own : \A j \in own : i <= j
  <2>3. first \in own
    BY <2>2, Zenon
  <2> DEFINE read == SubSeq(batch, 1, first)
             rest == SubSeq(batch, first + 1, Len(batch))
  <2>4. upto = read
    BY <1>7, <1>10, Zenon DEF upto
  <2> HIDE DEF first
  <2>5. first \in 1..n /\ Matching(l, batch[first])
    BY <1>6, <2>3
  <2>6. first \in 0..Len(batch) /\ first \in 1..first /\ first > 0
    BY <1>3, <1>4, <2>5
  <2>7. /\ read \in Seq(Packets) /\ rest \in Seq(Packets) /\ batch = read \o rest
        /\ Len(read) = first /\ \A i \in 1..first : read[i] = batch[i]
    BY <1>4, <2>6, InTwo, Zenon
  <2> HIDE DEF read, rest
  <2>8. inbox = read \o (rest \o left)
    <3>1. \A a, b, c \in Seq(Packets) : (a \o b) \o c = a \o (b \o c)
      BY ConcatAssociative
    <3>2. (read \o rest) \o left = read \o (rest \o left)
      BY <1>4, <2>7, <3>1, Zenon
    <3>3. QED BY <1>4, <2>7, <3>2, Zenon
  <2>9. Len(read) > 0 /\ Matching(l, Last(read))
    BY <2>5, <2>6, <2>7 DEF Last
  <2>10. /\ gnpEvents' = [gnpEvents EXCEPT ![l] = Kept(@ \o Filtered(read, Events))]
         /\ Return(l, "matched", Last(read))
    BY <1>8, <1>10, <2>4, Zenon
  <2>11. Read(l, read, rest, left)
    BY <1>5, <2>8, <2>9, <2>10, Zenon DEF Read
  <2>12. QED BY <1>4, <2>7, <2>11, Zenon
<1>11. QED BY <1>9, <1>10

-----------------------------------------------------------------------------
(* The types.                                                              *)

\* What a list of one type keeps of a filter is of the filter's set.
LEMMA FilteredPackets ==
    ASSUME NEW s \in Seq(Packets)
    PROVE  Filtered(s, Events) \in Seq(Events) /\ Filtered(s, Replies) \in Seq(Replies)
<1>1. Filtered(s, Events) \in Seq(Packets \cap Events) /\ Filtered(s, Replies) \in Seq(Packets \cap Replies)
  BY FilteredType, Zenon
<1>2. Packets \cap Events = Events /\ Packets \cap Replies = Replies
  BY DEF Packets
<1>3. QED BY <1>1, <1>2

LEMMA TypeInit == Init => TypeOK
<1> SUFFICES ASSUME Init PROVE TypeOK
  OBVIOUS
<1>1. gnpWork \in Seq(Requests) /\ gnpCount \in [requests : 0..MaxRequests, pushes : Nat, drops : Nat]
  BY LinksAssumption DEF Init, LinksAssumption
<1>2. gnpInbox \in [Links -> Seq(Packets)] /\ gnpEvents \in [Links -> Seq(Events)]
      /\ gnpSeen \in [Links -> Seq(Events)] /\ \A l \in Links : Len(gnpEvents[l]) <= Backlog
  BY LinksAssumption DEF Init, LinksAssumption
<1>3. gnpSeq \in [Links -> 1..Numbers]
  BY LinksAssumption DEF Init, LinksAssumption
<1>4. QED BY <1>1, <1>2, <1>3 DEF Init, TypeOK

\* The steps of the transport keep nothing but what it is and what was read from it.
LEMMA TypeTransport ==
    ASSUME TypeOK, NEW l \in Links,
           Connect(l) \/ Discovered(l) \/ NobodyAnswered(l) \/ Disconnect(l) \/ ReadFails(l)
    PROVE  TypeOK'
<1>1. /\ gnpOwner' \in [Links -> {"new", "connecting", "connected", "failed", "closing", "closed"}]
      /\ gnpLock' \in Links \cup {None} /\ gnpFd' \in [Links -> {"none", "live", "dead"}]
  BY DEF Connect, Discovered, NobodyAnswered, Disconnect, ReadFails, Closed, Owner, Acquire, TypeOK
<1>2. gnpInbox' \in [Links -> Seq(Packets)]
  <2>1. <<>> \in Seq(Packets)
    OBVIOUS
  <2>2. gnpInbox' = gnpInbox \/ gnpInbox' = [gnpInbox EXCEPT ![l] = <<>>]
    BY DEF Connect, Discovered, NobodyAnswered, Disconnect, ReadFails, Closed
  <2>3. QED BY <2>1, <2>2 DEF TypeOK
<1>3. UNCHANGED <<gnpWork, gnpSeq, gnpCall, gnpEvents, gnpSeen, gnpResult, gnpCount>>
  BY DEF Connect, Discovered, NobodyAnswered, Disconnect, ReadFails, session, stash
<1>4. QED BY <1>1, <1>2, <1>3 DEF TypeOK

LEMMA TypeRequest ==
    ASSUME TypeOK, NEW l \in Links, Request(l)
    PROVE  TypeOK'
<1> DEFINE r == [who |-> l, seq |-> gnpSeq'[l], id |-> gnpCount.requests]
<1>1. gnpSeq' \in [Links -> 1..Numbers] /\ gnpSeq'[l] \in 1..Numbers
  BY LinksAssumption DEF Request, NextNumber, TypeOK, LinksAssumption
<1>2. gnpCount' \in [requests : 0..MaxRequests, pushes : Nat, drops : Nat] /\ gnpCount.requests \in Nat
  <2>1. gnpCount' = [gnpCount EXCEPT !.requests = @ + 1] /\ gnpCount.requests < MaxRequests
    BY DEF Request, Bump
  <2>2. gnpCount \in [requests : 0..MaxRequests, pushes : Nat, drops : Nat] /\ MaxRequests \in Nat
    BY LinksAssumption DEF TypeOK, LinksAssumption
  <2>3. QED BY <2>1, <2>2
<1>3. r \in Requests
  BY <1>1, <1>2 DEF Requests
<1>4. gnpCall' = [gnpCall EXCEPT ![l] = [seq |-> r.seq, id |-> r.id, stale |-> None]]
      /\ SendWritten(l, r)
  BY DEF Request
<1>5. [seq |-> r.seq, id |-> r.id, stale |-> None] \in [seq : 1..Numbers, id : Nat, stale : Replies \cup {None}]
  BY <1>1, <1>2
<1> HIDE DEF r
<1>6. gnpCall' \in [Links -> [seq : 1..Numbers, id : Nat, stale : Replies \cup {None}] \cup {None}]
  BY <1>4, <1>5 DEF TypeOK
<1>7. /\ gnpWork' \in Seq(Requests)
      /\ gnpLock' \in Links \cup {None} /\ gnpFd' \in [Links -> {"none", "live", "dead"}]
  <2>1. gnpWork' = Append(gnpWork, r) /\ gnpWork \in Seq(Requests)
    BY <1>4 DEF SendWritten, TypeOK
  <2>2. /\ gnpLock' \in {gnpLock, None} /\ gnpLock \in Links \cup {None}
        /\ gnpFd \in [Links -> {"none", "live", "dead"}]
        /\ gnpFd' = gnpFd \/ gnpFd' = [gnpFd EXCEPT ![l] = "live"]
    BY <1>4 DEF SendWritten, TypeOK
  <2>3. gnpWork' \in Seq(Requests)
    BY <1>3, <2>1
  <2>4. QED BY <2>2, <2>3
<1>8. gnpInbox' \in [Links -> Seq(Packets)]
  <2>1. <<>> \in Seq(Packets)
    OBVIOUS
  <2>2. gnpInbox' = gnpInbox \/ gnpInbox' = [gnpInbox EXCEPT ![l] = <<>>]
    BY <1>4 DEF SendWritten
  <2>3. QED BY <2>1, <2>2 DEF TypeOK
<1>9. UNCHANGED <<gnpOwner, gnpResult, gnpEvents, gnpSeen>>
  BY DEF Request, stash
<1>10. QED BY <1>1, <1>2, <1>6, <1>7, <1>8, <1>9 DEF TypeOK

\* A request that returns leaves its number, and a reply or nothing.
LEMMA TypeReturn ==
    ASSUME TypeOK, NEW l \in Links, gnpCall[l] # None, NEW how \in {"matched", "stale", "timeout"},
           NEW packet \in Replies \cup {None}, Return(l, how, packet)
    PROVE  /\ gnpCall' \in [Links -> [seq : 1..Numbers, id : Nat, stale : Replies \cup {None}] \cup {None}]
           /\ gnpResult' \in [Links -> [how : {"matched", "stale", "timeout"}, id : Nat,
                                        packet : Replies \cup {None}] \cup {None}]
<1>1. gnpCall[l] \in [seq : 1..Numbers, id : Nat, stale : Replies \cup {None}]
  BY DEF TypeOK
<1>2. [how |-> how, id |-> gnpCall[l].id, packet |-> packet]
        \in [how : {"matched", "stale", "timeout"}, id : Nat, packet : Replies \cup {None}]
  BY <1>1
<1>3. QED BY <1>2 DEF Return, TypeOK

LEMMA TypeAwaitReply ==
    ASSUME TypeOK, NEW l \in Links, AwaitReply(l)
    PROVE  TypeOK'
<1>1. PICK read \in Seq(Packets), rest \in Seq(Packets), left \in Seq(Packets) : Read(l, read, rest, left)
  BY AwaitReads, Zenon
<1>2. gnpCall[l] # None /\ UNCHANGED <<gnpOwner, gnpLock, gnpFd, gnpWork, gnpSeq, gnpSeen, gnpCount>>
  BY DEF AwaitReply
<1>3. gnpInbox' \in [Links -> Seq(Packets)]
  BY <1>1 DEF Read, TypeOK
<1>4. Filtered(read, Events) \in Seq(Events) /\ Filtered(read, Replies) \in Seq(Replies)
  BY FilteredPackets, Zenon
<1>5. gnpEvents' \in [Links -> Seq(Events)] /\ \A m \in Links : Len(gnpEvents'[m]) <= Backlog
  <2> DEFINE came == gnpEvents[l] \o Filtered(read, Events)
  <2>1. gnpEvents' = [gnpEvents EXCEPT ![l] = Kept(came)]
    BY <1>1 DEF Read, TypeOK
  <2>2. came \in Seq(Events)
    BY <1>4 DEF TypeOK
  <2> HIDE DEF came
  <2>3. Kept(came) \in Seq(Events) /\ Len(Kept(came)) <= Backlog
    BY <2>2, KeptIsAnEnd, Zenon
  <2>4. QED BY <2>1, <2>3 DEF TypeOK
<1>6. /\ gnpCall' \in [Links -> [seq : 1..Numbers, id : Nat, stale : Replies \cup {None}] \cup {None}]
      /\ gnpResult' \in [Links -> [how : {"matched", "stale", "timeout"}, id : Nat,
                                   packet : Replies \cup {None}] \cup {None}]
  <2>1. CASE Len(read) > 0 /\ Matching(l, Last(read)) /\ Return(l, "matched", Last(read))
    <3>1. Last(read) \in Packets
      BY <2>1 DEF Last
    <3>2. Last(read) \in Replies
      BY <2>1, <3>1 DEF Matching, IsReply, Packets, Events
    <3>3. QED BY <1>2, <2>1, <3>2, TypeReturn
  <2>2. CASE /\ gnpResult' = gnpResult
             /\ gnpCall' = [gnpCall EXCEPT ![l].stale =
                     IF Filtered(read, Replies) = <<>> THEN @ ELSE Last(Filtered(read, Replies))]
    <3> DEFINE others == Filtered(read, Replies)
               stale == IF others = <<>> THEN gnpCall[l].stale ELSE Last(others)
               call == [gnpCall[l] EXCEPT !.stale = stale]
    <3>1. gnpCall[l] \in [seq : 1..Numbers, id : Nat, stale : Replies \cup {None}]
      BY <1>2 DEF TypeOK
    <3>2. others # <<>> => Last(others) \in Replies
      BY <1>4 DEF Last
    <3>3. stale \in Replies \cup {None}
      BY <3>1, <3>2
    <3>4. gnpCall' = [gnpCall EXCEPT ![l] = call]
      BY <2>2 DEF TypeOK
    <3> HIDE DEF stale
    <3>5. call \in [seq : 1..Numbers, id : Nat, stale : Replies \cup {None}]
      BY <3>1, <3>3
    <3> HIDE DEF call
    <3>6. /\ gnpCall \in [Links -> [seq : 1..Numbers, id : Nat, stale : Replies \cup {None}] \cup {None}]
          /\ gnpResult' \in [Links -> [how : {"matched", "stale", "timeout"}, id : Nat,
                                       packet : Replies \cup {None}] \cup {None}]
      BY <2>2 DEF TypeOK
    <3>7. QED BY <3>4, <3>5, <3>6
  <2>3. QED BY <1>1, <2>1, <2>2, Zenon DEF Read
<1>7. QED BY <1>2, <1>3, <1>5, <1>6 DEF TypeOK

LEMMA TypeTimeout ==
    ASSUME TypeOK, NEW l \in Links, Timeout(l)
    PROVE  TypeOK'
<1>1. /\ gnpCall[l] # None
      /\ Return(l, IF gnpCall[l].stale = None THEN "timeout" ELSE "stale", gnpCall[l].stale)
      /\ UNCHANGED <<gnpOwner, gnpLock, gnpFd, gnpWork, gnpInbox, gnpSeq, gnpEvents, gnpSeen, gnpCount>>
  BY DEF Timeout, Overdue, stash
<1>2. gnpCall[l].stale \in Replies \cup {None}
  BY <1>1 DEF TypeOK
<1>3. /\ gnpCall' \in [Links -> [seq : 1..Numbers, id : Nat, stale : Replies \cup {None}] \cup {None}]
      /\ gnpResult' \in [Links -> [how : {"matched", "stale", "timeout"}, id : Nat,
                                   packet : Replies \cup {None}] \cup {None}]
  BY <1>1, <1>2, TypeReturn
<1>4. QED BY <1>1, <1>3 DEF TypeOK

LEMMA TypeDrainEvents ==
    ASSUME TypeOK, NEW l \in Links, DrainEvents(l)
    PROVE  TypeOK'
<1> DEFINE came == gnpEvents[l] \o Filtered(gnpInbox[l], Events)
<1>1. came \in Seq(Events)
  <2>1. Filtered(gnpInbox[l], Events) \in Seq(Events)
    BY FilteredPackets DEF TypeOK
  <2>2. QED BY <2>1 DEF TypeOK
<1>2. /\ gnpSeen' = [gnpSeen EXCEPT ![l] = @ \o Kept(came)]
      /\ gnpEvents' = [gnpEvents EXCEPT ![l] = <<>>]
      /\ gnpInbox' = [gnpInbox EXCEPT ![l] = <<>>]
  BY DEF DrainEvents, HandedOut
<1> HIDE DEF came
<1>3. Kept(came) \in Seq(Events)
  BY <1>1, KeptIsAnEnd, Zenon
<1>4. gnpSeen' \in [Links -> Seq(Events)]
  BY <1>2, <1>3 DEF TypeOK
<1>5. /\ gnpInbox' \in [Links -> Seq(Packets)] /\ gnpEvents' \in [Links -> Seq(Events)]
      /\ \A m \in Links : Len(gnpEvents'[m]) <= Backlog
  <2>1. <<>> \in Seq(Packets) /\ <<>> \in Seq(Events) /\ Len(<<>>) <= Backlog
    BY LinksAssumption DEF LinksAssumption
  <2>2. QED BY <1>2, <2>1 DEF TypeOK
<1>6. UNCHANGED <<gnpOwner, gnpLock, gnpFd, gnpWork, gnpSeq, gnpCall, gnpResult, gnpCount>>
  BY DEF DrainEvents, session
<1>7. QED BY <1>4, <1>5, <1>6 DEF TypeOK

\* A packet reaches the links that are open, and no other.
LEMMA TypeBroadcast ==
    ASSUME TypeOK, NEW packet \in Packets, Broadcast(packet)
    PROVE  gnpInbox' \in [Links -> Seq(Packets)]
BY DEF Broadcast, TypeOK

LEMMA TypeDevice ==
    ASSUME TypeOK, Answer \/ Ignore \/ Push \/ Reenumerate
    PROVE  TypeOK'
<1>1. gnpWork # <<>> => Tail(gnpWork) \in Seq(Requests) /\ Head(gnpWork) \in Requests
  BY DEF TypeOK
<1>2. CASE Answer
  <2>1. Reply(Head(gnpWork)) \in Packets
    BY <1>1, <1>2 DEF Answer, Reply, Requests, Replies, Packets
  <2>2. gnpInbox' \in [Links -> Seq(Packets)]
    BY <1>2, <2>1, TypeBroadcast DEF Answer
  <2>3. QED BY <1>1, <1>2, <2>2 DEF Answer, TypeOK, session, stash
<1>3. CASE Ignore
  BY <1>1, <1>3 DEF Ignore, TypeOK, session, stash
<1>4. CASE Push
  <2>1. Pushed(gnpCount.pushes) \in Packets
    BY DEF Pushed, Events, Packets, TypeOK
  <2>2. gnpInbox' \in [Links -> Seq(Packets)]
    BY <1>4, <2>1, TypeBroadcast DEF Push
  <2>3. gnpCount' \in [requests : 0..MaxRequests, pushes : Nat, drops : Nat]
    <3>1. gnpCount' = [gnpCount EXCEPT !.pushes = @ + 1]
      BY <1>4 DEF Push, Bump
    <3>2. gnpCount \in [requests : 0..MaxRequests, pushes : Nat, drops : Nat]
      BY DEF TypeOK
    <3>3. QED BY <3>1, <3>2
  <2>4. QED BY <1>4, <2>2, <2>3 DEF Push, TypeOK, session, stash
<1>5. CASE Reenumerate
  <2>1. gnpCount' \in [requests : 0..MaxRequests, pushes : Nat, drops : Nat]
    <3>1. gnpCount' = [gnpCount EXCEPT !.drops = @ + 1]
      BY <1>5 DEF Reenumerate, Bump
    <3>2. gnpCount \in [requests : 0..MaxRequests, pushes : Nat, drops : Nat]
      BY DEF TypeOK
    <3>3. QED BY <3>1, <3>2
  <2>2. /\ gnpWork' \in Seq(Requests) /\ gnpInbox' \in [Links -> Seq(Packets)]
        /\ gnpFd' \in [Links -> {"none", "live", "dead"}]
    BY <1>5 DEF Reenumerate, TypeOK
  <2>3. QED BY <1>5, <2>1, <2>2 DEF Reenumerate, TypeOK, session, stash
<1>6. QED BY <1>2, <1>3, <1>4, <1>5

LEMMA TypeNext == TypeOK /\ [Next]_gnpVars => TypeOK'
<1> SUFFICES ASSUME TypeOK, [Next]_gnpVars PROVE TypeOK'
  OBVIOUS
<1>1. CASE UNCHANGED gnpVars
  BY <1>1 DEF gnpVars, TypeOK
<1>2. QED
  BY <1>1, TypeTransport, TypeRequest, TypeAwaitReply, TypeTimeout, TypeDrainEvents, TypeDevice
     DEF Next, Waiting

\* The sessions, the transports and the device keep to their types, with any number of them.
THEOREM LinkTypeCorrect == Spec => []TypeOK
BY TypeInit, TypeNext, PTL DEF Spec

-----------------------------------------------------------------------------
(* The events.                                                             *)

\* The numbers of a list of events grow, and are of the first n that were pushed.
Ordered(s, n) ==
    /\ \A i, j \in 1..Len(s) : i < j => s[i].id < s[j].id
    /\ \A i \in 1..Len(s) : s[i].id < n

\* Everything a link has been told and the page has seen, has to see, or has not read.
ToldOf(l) == (gnpSeen[l] \o gnpEvents[l]) \o Filtered(gnpInbox[l], Events)

ToldInOrder == \A l \in Links : Ordered(ToldOf(l), gnpCount.pushes)

\* The members of two sequences one after the other.
Joined(a, c) ==
    /\ Len(a \o c) = Len(a) + Len(c) /\ Len(a) \in Nat /\ Len(c) \in Nat
    /\ \A i \in 1..Len(a) : (a \o c)[i] = a[i]
    /\ \A i \in 1..Len(c) : (a \o c)[Len(a) + i] = c[i]

LEMMA JoinOfTwo ==
    ASSUME NEW S, NEW a \in Seq(S), NEW c \in Seq(S)
    PROVE  Joined(a, c)
<1>1. Len(a \o c) = Len(a) + Len(c) /\ Len(a) \in Nat /\ Len(c) \in Nat
  OBVIOUS
<1>2. \A i \in 1..Len(a) : (a \o c)[i] = a[i]
  OBVIOUS
<1>3. \A i \in 1..Len(c) : (a \o c)[Len(a) + i] = c[i]
  OBVIOUS
<1>4. QED BY <1>1, <1>2, <1>3 DEF Joined

\* And of three.
LEMMA JoinOfThree ==
    ASSUME NEW S, NEW a \in Seq(S), NEW b \in Seq(S), NEW c \in Seq(S)
    PROVE  /\ Len(a \o (b \o c)) = Len(a) + Len(b) + Len(c) /\ Len(b) \in Nat
           /\ \A i \in 1..Len(a) : (a \o (b \o c))[i] = a[i]
           /\ \A i \in 1..Len(c) : (a \o (b \o c))[Len(a) + Len(b) + i] = c[i]
<1> DEFINE bc == b \o c
<1>1. Joined(b, c) /\ bc \in Seq(S)
  BY JoinOfTwo
<1>2. /\ Len(bc) = Len(b) + Len(c) /\ Len(b) \in Nat /\ Len(c) \in Nat
      /\ \A i \in 1..Len(c) : bc[Len(b) + i] = c[i]
  BY <1>1 DEF Joined
<1> HIDE DEF bc
<1>3. Joined(a, bc)
  BY <1>1, JoinOfTwo
<1>4. /\ Len(a \o bc) = Len(a) + Len(bc) /\ Len(a) \in Nat
      /\ \A i \in 1..Len(a) : (a \o bc)[i] = a[i]
      /\ \A i \in 1..Len(bc) : (a \o bc)[Len(a) + i] = bc[i]
  BY <1>3 DEF Joined
<1>5. ASSUME NEW i \in 1..Len(c)
      PROVE  (a \o bc)[Len(a) + Len(b) + i] = c[i]
  <2>1. Len(b) + i \in 1..Len(bc) /\ Len(a) + Len(b) + i = Len(a) + (Len(b) + i)
    BY <1>2, <1>4
  <2>2. QED BY <1>2, <1>4, <2>1
<1>6. Len(a \o bc) = Len(a) + Len(b) + Len(c)
  BY <1>2, <1>4
<1>7. QED BY <1>2, <1>4, <1>5, <1>6 DEF bc

\* Sequences put together are put together in either grouping.
Grouped(a, b, c) == (a \o b) \o c = a \o (b \o c)

LEMMA Grouping ==
    ASSUME NEW S, NEW a \in Seq(S), NEW b \in Seq(S), NEW c \in Seq(S)
    PROVE  Grouped(a, b, c)
BY ConcatAssociative DEF Grouped

\* What is left of an ordered list without a piece of it is ordered.
LEMMA OrderedWithout ==
    ASSUME NEW a \in Seq(Events), NEW b \in Seq(Events), NEW c \in Seq(Events), NEW n \in Nat,
           Ordered(a \o (b \o c), n)
    PROVE  Ordered(a \o c, n)
<1> DEFINE whole == a \o (b \o c)
           less == a \o c
           At(i) == IF i <= Len(a) THEN i ELSE Len(b) + i
<1>1. /\ Len(whole) = Len(a) + Len(b) + Len(c)
      /\ Len(a) \in Nat /\ Len(b) \in Nat /\ Len(c) \in Nat
      /\ \A i \in 1..Len(a) : whole[i] = a[i]
      /\ \A i \in 1..Len(c) : whole[Len(a) + Len(b) + i] = c[i]
  <2>1. Joined(a, c)
    BY JoinOfTwo
  <2>2. QED BY <2>1, JoinOfThree DEF Joined
<1>2. /\ Len(less) = Len(a) + Len(c)
      /\ \A i \in 1..Len(a) : less[i] = a[i]
      /\ \A i \in 1..Len(c) : less[Len(a) + i] = c[i]
  <2>1. Joined(a, c)
    BY JoinOfTwo
  <2>2. QED BY <2>1 DEF Joined
<1>3. Ordered(whole, n)
  OBVIOUS
<1> HIDE DEF whole, less
<1>4. ASSUME NEW i \in 1..Len(less)
      PROVE  At(i) \in 1..Len(whole) /\ less[i] = whole[At(i)]
  <2>1. CASE i <= Len(a)
    BY <2>1, <1>1, <1>2
  <2>2. CASE ~(i <= Len(a))
    <3> DEFINE k == i - Len(a)
    <3>1. /\ k \in 1..Len(c) /\ i = Len(a) + k /\ At(i) = Len(a) + Len(b) + k
          /\ At(i) \in 1..Len(whole)
      BY <2>2, <1>1, <1>2
    <3> HIDE DEF k, At
    <3>2. QED BY <1>1, <1>2, <3>1
  <2>3. QED BY <2>1, <2>2
<1>5. \A i, j \in 1..Len(less) : i < j => At(i) < At(j)
  BY <1>1, <1>2
<1> HIDE DEF At
<1>6. Ordered(less, n)
  BY <1>3, <1>4, <1>5 DEF Ordered
<1>7. QED BY <1>6 DEF less

\* A new event is later than those before it, and there is one more.
LEMMA OrderedAppend ==
    ASSUME NEW s \in Seq(Events), NEW n \in Nat, Ordered(s, n)
    PROVE  Ordered(Append(s, Pushed(n)), n + 1) /\ Ordered(s, n + 1)
<1>1. \A i \in 1..Len(s) : s[i].id \in Nat
  <2>1. \A i \in 1..Len(s) : s[i] \in Events
    OBVIOUS
  <2>2. QED BY <2>1 DEF Events
<1>2. Ordered(s, n + 1)
  BY <1>1 DEF Ordered
<1>3. Pushed(n).id = n /\ Pushed(n) \in Events
  BY DEF Pushed, Events
<1> DEFINE more == Append(s, Pushed(n))
<1>4. /\ Len(more) = Len(s) + 1 /\ more[Len(s) + 1] = Pushed(n)
      /\ \A i \in 1..Len(s) : more[i] = s[i]
  BY <1>3, AppendProperties
<1> HIDE DEF more
<1>5. \A i \in 1..Len(more) : i \in 1..Len(s) \/ i = Len(s) + 1
  BY <1>4
<1>6. Ordered(more, n + 1)
  BY <1>1, <1>3, <1>4, <1>5 DEF Ordered
<1>7. QED BY <1>2, <1>6 DEF more

LEMMA ToldType ==
    ASSUME TypeOK, NEW l \in Links
    PROVE  /\ gnpSeen[l] \in Seq(Events) /\ gnpEvents[l] \in Seq(Events)
           /\ gnpSeen[l] \o gnpEvents[l] \in Seq(Events)
           /\ gnpInbox[l] \in Seq(Packets) /\ Filtered(gnpInbox[l], Events) \in Seq(Events)
           /\ ToldOf(l) \in Seq(Events)
<1>1. gnpSeen[l] \in Seq(Events) /\ gnpEvents[l] \in Seq(Events) /\ gnpInbox[l] \in Seq(Packets)
  BY DEF TypeOK
<1>2. Filtered(gnpInbox[l], Events) \in Seq(Events)
  BY <1>1, FilteredPackets, Zenon
<1>3. QED BY <1>1, <1>2 DEF ToldOf

\* A step of one link changes what that link was told and no more.
LEMMA OthersToldTheSame ==
    ASSUME ToldInOrder, NEW l \in Links, gnpCount'.pushes = gnpCount.pushes,
           \A m \in Links \ {l} : /\ gnpSeen'[m] = gnpSeen[m] /\ gnpEvents'[m] = gnpEvents[m]
                                  /\ gnpInbox'[m] = gnpInbox[m],
           Ordered(ToldOf(l)', gnpCount.pushes)
    PROVE  ToldInOrder'
<1> SUFFICES ASSUME NEW m \in Links PROVE Ordered(ToldOf(m)', gnpCount'.pushes)
  BY DEF ToldInOrder
<1>1. CASE m = l
  BY <1>1
<1>2. CASE m # l
  <2>1. ToldOf(m)' = ToldOf(m)
    BY <1>2 DEF ToldOf
  <2>2. QED BY <2>1 DEF ToldInOrder
<1>3. QED BY <1>1, <1>2

\* What a link had not read is gone with its descriptor.
LEMMA ForgottenInOrder ==
    ASSUME TypeOK, ToldInOrder, NEW l \in Links,
           gnpSeen'[l] = gnpSeen[l], gnpEvents'[l] = gnpEvents[l], gnpInbox'[l] = <<>>
    PROVE  Ordered(ToldOf(l)', gnpCount.pushes)
<1> DEFINE a == gnpSeen[l] \o gnpEvents[l]
           b == Filtered(gnpInbox[l], Events)
<1>1. a \in Seq(Events) /\ b \in Seq(Events) /\ <<>> \in Seq(Events) /\ gnpCount.pushes \in Nat
  BY ToldType, EmptySeq DEF TypeOK
<1>2. ToldOf(l)' = a \o <<>>
  BY FilteredEmpty DEF ToldOf
<1>3. Ordered(a \o b, gnpCount.pushes)
  BY DEF ToldInOrder, ToldOf
<1> HIDE DEF a, b
<1>4. b \o <<>> = b
  BY <1>1, ConcatEmptySeq
<1>5. QED BY <1>1, <1>2, <1>3, <1>4, OrderedWithout

\* What a read stashes is past what was handed out, and before what is left.
LEMMA AwaitReplyInOrder ==
    ASSUME TypeOK, ToldInOrder, NEW l \in Links, AwaitReply(l)
    PROVE  ToldInOrder'
<1>1. PICK read \in Seq(Packets), rest \in Seq(Packets), left \in Seq(Packets) : Read(l, read, rest, left)
  BY AwaitReads, Zenon
<1>2. gnpInbox[l] = read \o (rest \o left) /\ rest \o left \in Seq(Packets)
  BY <1>1 DEF Read
<1> DEFINE s == gnpSeen[l]
           e == gnpEvents[l]
           r == Filtered(read, Events)
           x == Filtered(rest, Events)
           f == Filtered(left, Events)
           k == Kept(e \o r)
<1>3. s \in Seq(Events) /\ e \in Seq(Events) /\ r \in Seq(Events) /\ x \in Seq(Events) /\ f \in Seq(Events)
  BY ToldType, FilteredPackets, Zenon
<1>4. /\ Filtered(read \o (rest \o left), Events) = r \o Filtered(rest \o left, Events)
      /\ Filtered(rest \o left, Events) = x \o f
  <2> DEFINE tail == rest \o left
  <2>1. tail \in Seq(Packets)
    BY <1>2
  <2> HIDE DEF tail
  <2>2. Filtered(read \o tail, Events) = r \o Filtered(tail, Events)
    BY <2>1, FilteredConcat
  <2>3. Filtered(rest \o left, Events) = x \o f
    BY FilteredConcat
  <2>4. QED BY <2>2, <2>3 DEF tail
<1>5. Filtered(read \o (rest \o left), Events) = r \o (x \o f)
  BY <1>4, Zenon
<1>6. ToldOf(l) = (s \o e) \o (r \o (x \o f))
  BY <1>2, <1>5, Zenon DEF ToldOf
<1>7. gnpSeen'[l] = s /\ gnpEvents'[l] = k /\ gnpInbox'[l] = left
  BY <1>1 DEF Read, TypeOK, AwaitReply
<1>8. ToldOf(l)' = (s \o k) \o f
  BY <1>7, Zenon DEF ToldOf
<1>9. e \o r \in Seq(Events)
  BY <1>3
<1>10. k \in Seq(Events) /\ \E gone \in Seq(Events) : e \o r = gone \o k
  BY <1>9, KeptIsAnEnd, Zenon
<1> HIDE DEF s, e, r, x, f, k
<1>11. PICK gone \in Seq(Events) : e \o r = gone \o k
  BY <1>10
<1>12. (s \o e) \o (r \o (x \o f)) = s \o (gone \o (k \o (x \o f)))
  <2> DEFINE xf == x \o f
  <2>1. xf \in Seq(Events)
    BY <1>3
  <2> HIDE DEF xf
  <2> DEFINE rxf == r \o xf
  <2>2. rxf \in Seq(Events)
    BY <1>3, <2>1
  <2> HIDE DEF rxf
  <2>3. Grouped(s, e, rxf) /\ Grouped(e, r, xf) /\ Grouped(gone, k, xf)
    BY <1>3, <1>10, <2>1, <2>2, Grouping
  <2>4. QED BY <1>11, <2>3, Zenon DEF xf, rxf, Grouped
<1>13. k \o (x \o f) \in Seq(Events) /\ s \o k \in Seq(Events) /\ gnpCount.pushes \in Nat
  BY <1>3, <1>10, <1>11 DEF TypeOK
<1>14. Ordered(s \o (gone \o (k \o (x \o f))), gnpCount.pushes)
  BY <1>6, <1>12 DEF ToldInOrder
<1>15. Ordered(s \o (k \o (x \o f)), gnpCount.pushes)
  BY <1>3, <1>13, <1>14, OrderedWithout
<1>16. (s \o k) \o (x \o f) = s \o (k \o (x \o f))
  <2> DEFINE xf == x \o f
  <2>1. xf \in Seq(Events)
    BY <1>3
  <2> HIDE DEF xf
  <2>2. Grouped(s, k, xf)
    BY <1>3, <1>10, <2>1, Grouping
  <2>3. QED BY <2>2 DEF xf, Grouped
<1>17. Ordered((s \o k) \o f, gnpCount.pushes)
  BY <1>3, <1>13, <1>15, <1>16, OrderedWithout
<1>18. /\ gnpCount' = gnpCount
       /\ \A m \in Links \ {l} : /\ gnpSeen'[m] = gnpSeen[m] /\ gnpEvents'[m] = gnpEvents[m]
                                 /\ gnpInbox'[m] = gnpInbox[m]
  BY <1>1 DEF Read, TypeOK, AwaitReply
<1>19. QED BY <1>8, <1>17, <1>18, OthersToldTheSame

\* What is handed out is past what was, and leaves nothing behind.
LEMMA DrainEventsInOrder ==
    ASSUME TypeOK, ToldInOrder, NEW l \in Links, DrainEvents(l)
    PROVE  ToldInOrder'
<1> DEFINE s == gnpSeen[l]
           e == gnpEvents[l]
           f == Filtered(gnpInbox[l], Events)
           k == Kept(e \o f)
<1>1. s \in Seq(Events) /\ e \in Seq(Events) /\ f \in Seq(Events) /\ gnpCount.pushes \in Nat
  BY ToldType DEF TypeOK
<1>2. gnpSeen'[l] = s \o k /\ gnpEvents'[l] = <<>> /\ gnpInbox'[l] = <<>>
  BY DEF DrainEvents, HandedOut, TypeOK
<1>3. Ordered((s \o e) \o f, gnpCount.pushes)
  BY DEF ToldInOrder, ToldOf
<1>4. e \o f \in Seq(Events)
  BY <1>1
<1>5. k \in Seq(Events) /\ \E gone \in Seq(Events) : e \o f = gone \o k
  BY <1>4, KeptIsAnEnd, Zenon
<1>6. ToldOf(l)' = ((s \o k) \o <<>>) \o <<>>
  BY <1>2, FilteredEmpty, Zenon DEF ToldOf
<1> HIDE DEF s, e, f, k
<1>7. PICK gone \in Seq(Events) : e \o f = gone \o k
  BY <1>5
<1>8. (s \o e) \o f = s \o (gone \o k)
  <2>1. Grouped(s, e, f)
    BY <1>1, Grouping
  <2>2. QED BY <1>7, <2>1, Zenon DEF Grouped
<1>9. Ordered(s \o k, gnpCount.pushes)
  BY <1>1, <1>3, <1>5, <1>8, OrderedWithout
<1>10. ((s \o k) \o <<>>) \o <<>> = s \o k
  <2>1. s \o k \in Seq(Events)
    BY <1>1, <1>5
  <2>2. (s \o k) \o <<>> = s \o k
    BY <2>1, ConcatEmptySeq
  <2>3. QED BY <2>2
<1>11. /\ gnpCount' = gnpCount
       /\ \A m \in Links \ {l} : /\ gnpSeen'[m] = gnpSeen[m] /\ gnpEvents'[m] = gnpEvents[m]
                                 /\ gnpInbox'[m] = gnpInbox[m]
  BY DEF DrainEvents, HandedOut, TypeOK
<1>12. QED BY <1>6, <1>9, <1>10, <1>11, OthersToldTheSame

\* An answer is not told to the page; a push is, as the last one.
LEMMA DeviceInOrder ==
    ASSUME TypeOK, ToldInOrder, Answer \/ Push
    PROVE  ToldInOrder'
<1>1. UNCHANGED <<gnpSeen, gnpEvents>> /\ gnpCount.pushes \in Nat
  BY DEF Answer, Push, stash, TypeOK
<1>2. CASE Answer
  <2> DEFINE p == Reply(Head(gnpWork))
  <2>1. p \in Packets \ Events /\ gnpCount' = gnpCount /\ Broadcast(p)
    <3>1. Head(gnpWork) \in Requests
      BY <1>2 DEF Answer, TypeOK
    <3>2. QED BY <1>2, <3>1 DEF Answer, Reply, Requests, Replies, Events, Packets
  <2> HIDE DEF p
  <2>2. ASSUME NEW l \in Links
        PROVE  ToldOf(l)' = ToldOf(l)
    <3>1. Filtered(Append(gnpInbox[l], p), Events) = Filtered(gnpInbox[l], Events)
      BY <2>1, FilteredAppend, ToldType
    <3>2. gnpInbox'[l] = gnpInbox[l] \/ gnpInbox'[l] = Append(gnpInbox[l], p)
      BY <2>1 DEF Broadcast
    <3>3. QED BY <1>1, <3>1, <3>2 DEF ToldOf
  <2>3. QED BY <2>1, <2>2 DEF ToldInOrder
<1>3. CASE Push
  <2> DEFINE n == gnpCount.pushes
             p == Pushed(n)
  <2>1. p \in Events /\ p \in Packets /\ gnpCount'.pushes = n + 1 /\ Broadcast(p)
    <3>1. gnpCount' = [gnpCount EXCEPT !.pushes = @ + 1]
      BY <1>3 DEF Push, Bump
    <3>2. gnpCount \in [requests : 0..MaxRequests, pushes : Nat, drops : Nat]
      BY DEF TypeOK
    <3>3. gnpCount'.pushes = n + 1
      BY <3>1, <3>2
    <3>4. QED BY <1>1, <1>3, <3>3 DEF Push, Pushed, Events, Packets
  <2>2. ASSUME NEW l \in Links
        PROVE  Ordered(ToldOf(l)', n + 1)
    <3> DEFINE s == gnpSeen[l] \o gnpEvents[l]
               f == Filtered(gnpInbox[l], Events)
    <3>1. s \in Seq(Events) /\ f \in Seq(Events) /\ gnpInbox[l] \in Seq(Packets)
      BY ToldType
    <3>2. Ordered(s \o f, n) /\ s \o f \in Seq(Events)
      BY <3>1 DEF ToldInOrder, ToldOf
    <3>3. Filtered(Append(gnpInbox[l], p), Events) = Append(f, p)
      BY <2>1, <3>1, FilteredAppend
    <3>4. gnpInbox'[l] = gnpInbox[l] \/ gnpInbox'[l] = Append(gnpInbox[l], p)
      BY <2>1 DEF Broadcast
    <3>5. ToldOf(l)' = s \o f \/ ToldOf(l)' = s \o Append(f, p)
      BY <1>1, <3>3, <3>4 DEF ToldOf
    <3>6. Ordered(Append(s \o f, p), n + 1) /\ Ordered(s \o f, n + 1)
      BY <1>1, <3>2, OrderedAppend
    <3> HIDE DEF s, f, p
    <3>7. s \o Append(f, p) = Append(s \o f, p)
      <4>1. p \in Events
        BY <2>1
      <4>2. <<p>> \in Seq(Events) /\ Append(f, p) = f \o <<p>> /\ Append(s \o f, p) = (s \o f) \o <<p>>
        BY <3>1, <3>2, <4>1, AppendIsConcat
      <4>3. (s \o f) \o <<p>> = s \o (f \o <<p>>)
        BY <3>1, <4>2, ConcatAssociative
      <4>4. QED BY <4>2, <4>3
    <3>8. QED BY <3>5, <3>6, <3>7
  <2>3. QED BY <2>1, <2>2 DEF ToldInOrder
<1>4. QED BY <1>2, <1>3

LEMMA ToldInit == Init => ToldInOrder
<1> SUFFICES ASSUME Init, NEW l \in Links PROVE Ordered(ToldOf(l), gnpCount.pushes)
  BY DEF ToldInOrder
<1>1. ToldOf(l) = (<<>> \o <<>>) \o <<>>
  BY FilteredEmpty DEF ToldOf, Init
<1>2. (<<>> \o <<>>) \o <<>> = <<>>
  OBVIOUS
<1>3. QED BY <1>1, <1>2 DEF Ordered

LEMMA ToldNext == TypeOK /\ ToldInOrder /\ [Next]_gnpVars => ToldInOrder'
<1> SUFFICES ASSUME TypeOK, ToldInOrder, [Next]_gnpVars PROVE ToldInOrder'
  OBVIOUS
<1>1. ASSUME UNCHANGED <<gnpInbox, gnpEvents, gnpSeen>>, gnpCount'.pushes = gnpCount.pushes
      PROVE  ToldInOrder'
  BY <1>1 DEF ToldInOrder, ToldOf
<1>2. ASSUME NEW l \in Links, Connect(l) \/ Discovered(l) \/ NobodyAnswered(l) \/ Timeout(l)
      PROVE  ToldInOrder'
  BY <1>1, <1>2 DEF Connect, Discovered, NobodyAnswered, Timeout, session, stash
<1>3. ASSUME NEW l \in Links, Disconnect(l) \/ Request(l) \/ ReadFails(l)
      PROVE  ToldInOrder'
  <2>1. UNCHANGED <<gnpEvents, gnpSeen>>
        /\ (gnpInbox' = gnpInbox \/ gnpInbox' = [gnpInbox EXCEPT ![l] = <<>>])
    BY <1>3 DEF Disconnect, Request, ReadFails, Closed, SendWritten, stash
  <2>2. gnpCount'.pushes = gnpCount.pushes
    <3>1. gnpCount' = gnpCount \/ gnpCount' = [gnpCount EXCEPT !.requests = @ + 1]
      BY <1>3 DEF Disconnect, Request, ReadFails, Bump
    <3>2. QED BY <3>1 DEF TypeOK
  <2>3. CASE gnpInbox' = [gnpInbox EXCEPT ![l] = <<>>]
    <3>1. gnpInbox'[l] = <<>> /\ \A m \in Links \ {l} : gnpInbox'[m] = gnpInbox[m]
      BY <2>3 DEF TypeOK
    <3>2. Ordered(ToldOf(l)', gnpCount.pushes)
      BY <2>1, <3>1, ForgottenInOrder
    <3>3. QED BY <2>1, <2>2, <3>1, <3>2, OthersToldTheSame
  <2>4. QED BY <1>1, <2>1, <2>2, <2>3
<1>4. CASE Reenumerate
  <2>1. UNCHANGED <<gnpEvents, gnpSeen>> /\ \A l \in Links : gnpInbox'[l] = <<>>
    BY <1>4 DEF Reenumerate, stash
  <2>2. gnpCount'.pushes = gnpCount.pushes
    <3>1. gnpCount' = [gnpCount EXCEPT !.drops = @ + 1]
      BY <1>4 DEF Reenumerate, Bump
    <3>2. QED BY <3>1 DEF TypeOK
  <2>3. \A l \in Links : Ordered(ToldOf(l)', gnpCount.pushes)
    BY <2>1, ForgottenInOrder
  <2>4. QED BY <2>2, <2>3 DEF ToldInOrder
<1>5. CASE Ignore
  BY <1>1, <1>5 DEF Ignore, stash
<1>6. CASE UNCHANGED gnpVars
  BY <1>1, <1>6 DEF gnpVars
<1>7. QED
  BY <1>2, <1>3, <1>4, <1>5, <1>6, AwaitReplyInOrder, DrainEventsInOrder, DeviceInOrder
     DEF Next, Waiting

\* Whatever a session reads its way past, loses to its backlog or to a dead descriptor, and however
\* many requests it waits for meanwhile: what reaches the page is in the order the device pushed it,
\* and none of it twice (session.py:213-240, 276-288).
THEOREM EventsCorrect == Spec => []EventsInOrder
<1>1. TypeOK /\ ToldInOrder => EventsInOrder
  <2> SUFFICES ASSUME TypeOK, ToldInOrder, NEW l \in Links
               PROVE  \A i, j \in 1..Len(gnpSeen[l] \o gnpEvents[l]) :
                        i < j => (gnpSeen[l] \o gnpEvents[l])[i].id < (gnpSeen[l] \o gnpEvents[l])[j].id
    BY DEF EventsInOrder
  <2> DEFINE a == gnpSeen[l] \o gnpEvents[l]
             b == Filtered(gnpInbox[l], Events)
  <2>1. a \in Seq(Events) /\ b \in Seq(Events) /\ <<>> \in Seq(Events) /\ gnpCount.pushes \in Nat
    BY ToldType, EmptySeq DEF TypeOK
  <2>2. Ordered(a \o b, gnpCount.pushes)
    BY DEF ToldInOrder, ToldOf
  <2> HIDE DEF a, b
  <2>3. b \o <<>> = b /\ a \o <<>> = a
    BY <2>1, ConcatEmptySeq
  <2>4. Ordered(a, gnpCount.pushes)
    BY <2>1, <2>2, <2>3, OrderedWithout
  <2>5. QED BY <2>4 DEF Ordered, a
<1>2. QED BY <1>1, TypeInit, TypeNext, ToldInit, ToldNext, PTL DEF Spec

-----------------------------------------------------------------------------
(* The replies.                                                            *)

\* The requests of a link that the device has, or whose answer the link has not read.
Owed(l) ==
    {r \in Requests :
        /\ r.who = l
        /\ \/ \E i \in 1..Len(gnpWork) : gnpWork[i] = r
           \/ \E i \in 1..Len(gnpInbox[l]) : gnpInbox[l][i] = Reply(r)}

\* No answer is owed for longer than it takes to come round to its number again.
NoneIsARoundOld == \A l \in Links : \A r \in Owed(l) : gnpCount.requests - r.id <= Numbers

\* How many numbers were given out since this one.
Since(seq, last) == IF seq <= last THEN last - seq ELSE (last - seq) + Numbers

\* What is owed is as old as its number says, or a whole round older; the number of the request
\* that waits is of it alone.
NumbersTellApart ==
    \A l \in Links :
        /\ gnpCall[l] # None => gnpCall[l].seq = gnpSeq[l]
        /\ \A r \in Owed(l) :
            /\ gnpCount.requests - r.id > Since(r.seq, gnpSeq[l])
            /\ (gnpCall[l] # None /\ r.seq = gnpSeq[l]) => r.id = gnpCall[l].id

RepliesMatched == NumbersTellApart /\ RepliesAreOwn

\* A step that gives out no number and owes nothing new leaves the numbers telling.
LEMMA StillApart ==
    ASSUME NumbersTellApart, gnpSeq' = gnpSeq, gnpCount'.requests = gnpCount.requests,
           \A l \in Links : /\ Owed(l)' \subseteq Owed(l)
                            /\ gnpCall'[l] # None => /\ gnpCall[l] # None
                                                     /\ gnpCall'[l].seq = gnpCall[l].seq
                                                     /\ gnpCall'[l].id = gnpCall[l].id
    PROVE  NumbersTellApart'
BY DEF NumbersTellApart, Since

\* What the device has less of, and the links read of, is owed no more; nothing else is.
LEMMA OwedLess ==
    ASSUME NEW l \in Links,
           gnpWork' = gnpWork \/ gnpWork' = <<>>,
           gnpInbox'[l] = gnpInbox[l] \/ gnpInbox'[l] = <<>>
    PROVE  Owed(l)' \subseteq Owed(l)
BY DEF Owed

LEMMA OwedLater ==
    ASSUME TypeOK, NEW l \in Links, gnpWork # <<>>, gnpWork' = Tail(gnpWork),
           gnpInbox'[l] = gnpInbox[l] \/ gnpInbox'[l] = Append(gnpInbox[l], Reply(Head(gnpWork)))
    PROVE  Owed(l)' \subseteq Owed(l)
<1> DEFINE work == gnpWork
           inbox == gnpInbox[l]
<1>1. work \in Seq(Requests) /\ inbox \in Seq(Packets)
  BY DEF TypeOK
<1>2. /\ Len(Tail(work)) = Len(work) - 1 /\ Len(work) \in Nat /\ Len(work) > 0
      /\ \A i \in 1..Len(Tail(work)) : Tail(work)[i] = work[i + 1]
      /\ Head(work) = work[1] /\ Head(work) \in Requests
  BY <1>1
<1>3. SUFFICES ASSUME NEW r \in Requests, r.who = l,
                      \/ \E i \in 1..Len(Tail(work)) : Tail(work)[i] = r
                      \/ \E i \in 1..Len(gnpInbox'[l]) : gnpInbox'[l][i] = Reply(r)
               PROVE  \/ \E i \in 1..Len(work) : work[i] = r
                      \/ \E i \in 1..Len(inbox) : inbox[i] = Reply(r)
  BY DEF Owed, Reply
<1>4. CASE \E i \in 1..Len(Tail(work)) : Tail(work)[i] = r
  <2>1. PICK i \in 1..Len(Tail(work)) : Tail(work)[i] = r
    BY <1>4
  <2>2. i + 1 \in 1..Len(work) /\ work[i + 1] = r
    BY <1>2, <2>1
  <2>3. QED BY <2>2
<1>5. CASE \E i \in 1..Len(gnpInbox'[l]) : gnpInbox'[l][i] = Reply(r)
  <2>1. PICK i \in 1..Len(gnpInbox'[l]) : gnpInbox'[l][i] = Reply(r)
    BY <1>5
  <2>2. CASE gnpInbox'[l] = inbox
    BY <2>1, <2>2
  <2>3. CASE gnpInbox'[l] = Append(inbox, Reply(Head(work)))
    <3>1. Reply(Head(work)) \in Packets
      BY <1>2 DEF Reply, Requests, Replies, Packets
    <3>2. (i \in 1..Len(inbox) /\ inbox[i] = Reply(r)) \/ Reply(Head(work)) = Reply(r)
      BY <1>1, <2>1, <2>3, <3>1
    <3>3. Reply(Head(work)) = Reply(r) => Head(work) = r
      BY <1>2 DEF Reply, Requests
    <3>4. 1 \in 1..Len(work)
      BY <1>2
    <3>5. QED BY <1>2, <3>2, <3>3, <3>4
  <2>4. QED BY <2>2, <2>3
<1>6. QED BY <1>3, <1>4, <1>5

\* The number moves on by one, and no number that is less than a round old is given out again.
LEMMA NumberMovesOn ==
    ASSUME NEW a \in 1..Numbers, NEW b \in 1..Numbers, NEW age \in Int,
           age > Since(a, b), age < Numbers
    PROVE  a # NextNumber(b) /\ age + 1 > Since(a, NextNumber(b))
BY LinksAssumption DEF LinksAssumption, Since, NextNumber

LEMMA AppendMember ==
    ASSUME NEW S, NEW s \in Seq(S), NEW x \in S, NEW i \in 1..Len(Append(s, x))
    PROVE  (i \in 1..Len(s) /\ s[i] = Append(s, x)[i]) \/ Append(s, x)[i] = x
OBVIOUS

\* The one step that owes more: the newest number, to its own link.
LEMMA RequestApart ==
    ASSUME TypeOK, NumbersTellApart, NoneIsARoundOld', NEW l \in Links, Request(l)
    PROVE  NumbersTellApart'
<1> DEFINE seq == gnpSeq'[l]
           new == [who |-> l, seq |-> seq, id |-> gnpCount.requests]
<1>1. /\ seq = NextNumber(gnpSeq[l]) /\ gnpCount' = [gnpCount EXCEPT !.requests = @ + 1]
      /\ gnpWork' = Append(gnpWork, new)
      /\ gnpInbox' = gnpInbox \/ gnpInbox' = [gnpInbox EXCEPT ![l] = <<>>]
      /\ gnpCall' = [gnpCall EXCEPT ![l] = [seq |-> seq, id |-> gnpCount.requests, stale |-> None]]
      /\ \A m \in Links \ {l} : gnpSeq'[m] = gnpSeq[m]
  BY DEF Request, Bump, SendWritten, TypeOK
<1>2. /\ gnpCount.requests \in Nat /\ gnpCount'.requests = gnpCount.requests + 1
      /\ gnpSeq[l] \in 1..Numbers /\ seq \in 1..Numbers /\ Numbers \in Nat /\ Numbers > 0
  <2>1. gnpCount \in [requests : 0..MaxRequests, pushes : Nat, drops : Nat] /\ MaxRequests \in Nat
        /\ gnpSeq[l] \in 1..Numbers /\ Numbers \in Nat /\ Numbers > 0
    BY LinksAssumption DEF TypeOK, LinksAssumption
  <2>2. QED BY <1>1, <2>1 DEF NextNumber
<1> HIDE DEF seq
<1>3. new \in Requests
  BY <1>2 DEF Requests
<1>4. ASSUME NEW m \in Links, NEW r \in Owed(m)'
      PROVE  r \in Owed(m) \/ (r = new /\ m = l)
  <2>1. r \in Requests /\ r.who = m
    BY <1>4 DEF Owed
  <2>2. CASE \E i \in 1..Len(gnpWork') : gnpWork'[i] = r
    <3>1. PICK i \in 1..Len(gnpWork') : gnpWork'[i] = r
      BY <2>2
    <3>2. (i \in 1..Len(gnpWork) /\ gnpWork[i] = r) \/ r = new
      <4>1. gnpWork \in Seq(Requests) /\ i \in 1..Len(Append(gnpWork, new)) /\ Append(gnpWork, new)[i] = r
        BY <1>1, <3>1 DEF TypeOK
      <4> HIDE DEF new
      <4>2. \/ i \in 1..Len(gnpWork) /\ gnpWork[i] = Append(gnpWork, new)[i]
            \/ Append(gnpWork, new)[i] = new
        BY <1>3, <4>1, AppendMember
      <4>3. QED BY <4>1, <4>2
    <3>3. QED BY <2>1, <3>2 DEF Owed
  <2>3. CASE \E i \in 1..Len(gnpInbox'[m]) : gnpInbox'[m][i] = Reply(r)
    <3>1. gnpInbox'[m] = gnpInbox[m] \/ gnpInbox'[m] = <<>>
      BY <1>1 DEF TypeOK
    <3>2. \E i \in 1..Len(gnpInbox[m]) : gnpInbox[m][i] = Reply(r)
      BY <2>3, <3>1
    <3>3. QED BY <2>1, <3>2 DEF Owed
  <2>4. QED BY <1>4, <2>2, <2>3 DEF Owed, Reply
<1>5. ASSUME NEW m \in Links, NEW r \in Owed(m)'
      PROVE  /\ gnpCount'.requests - r.id > Since(r.seq, gnpSeq'[m])
             /\ (gnpCall'[m] # None /\ r.seq = gnpSeq'[m]) => r.id = gnpCall'[m].id
  <2>1. r \in Requests
    BY <1>5 DEF Owed
  <2>2. r.seq \in 1..Numbers /\ r.id \in Nat
    BY <2>1 DEF Requests
  <2>3. CASE r = new /\ m = l
    BY <1>1, <1>2, <2>3 DEF Since, TypeOK, seq
  <2>4. CASE r \in Owed(m) /\ m # l
    <3>1. /\ gnpCount.requests - r.id > Since(r.seq, gnpSeq[m])
          /\ (gnpCall[m] # None /\ r.seq = gnpSeq[m]) => r.id = gnpCall[m].id
          /\ gnpSeq'[m] = gnpSeq[m] /\ gnpSeq[m] \in 1..Numbers /\ gnpCall'[m] = gnpCall[m]
      BY <1>1, <2>4 DEF NumbersTellApart, TypeOK
    <3>2. QED BY <1>2, <2>2, <3>1 DEF Since
  <2>5. CASE r \in Owed(m) /\ m = l
    <3>1. gnpCount.requests - r.id > Since(r.seq, gnpSeq[l])
      BY <2>5 DEF NumbersTellApart
    <3>2. gnpCount'.requests - r.id <= Numbers
      BY <1>5 DEF NoneIsARoundOld
    <3>3. gnpCount.requests - r.id < Numbers
      BY <1>2, <2>2, <3>2
    <3>4. r.seq # seq /\ gnpCount.requests + 1 - r.id > Since(r.seq, seq)
      <4> DEFINE age == gnpCount.requests - r.id
      <4>1. age \in Int /\ age > Since(r.seq, gnpSeq[l]) /\ age < Numbers
        BY <1>2, <2>2, <3>1, <3>3
      <4>2. gnpCount.requests + 1 - r.id = age + 1
        BY <1>2, <2>2
      <4> HIDE DEF age
      <4>3. r.seq # seq /\ age + 1 > Since(r.seq, seq)
        BY <1>1, <1>2, <2>2, <4>1, NumberMovesOn
      <4>4. QED BY <4>2, <4>3
    <3>5. gnpSeq'[m] = seq /\ gnpCount'.requests - r.id = gnpCount.requests + 1 - r.id
      BY <1>2, <2>2, <2>5 DEF seq
    <3>6. QED BY <3>4, <3>5
  <2>6. QED BY <1>4, <2>3, <2>4, <2>5
<1>6. ASSUME NEW m \in Links, gnpCall'[m] # None
      PROVE  gnpCall'[m].seq = gnpSeq'[m]
  BY <1>1, <1>6 DEF NumbersTellApart, TypeOK, seq
<1>7. QED BY <1>5, <1>6 DEF NumbersTellApart

\* What a read takes is owed no more, and the reply it returns is of the request that waited.
LEMMA AwaitReplyApart ==
    ASSUME TypeOK, RepliesMatched, NEW l \in Links, AwaitReply(l)
    PROVE  RepliesMatched'
<1>1. PICK read \in Seq(Packets), rest \in Seq(Packets), left \in Seq(Packets) : Read(l, read, rest, left)
  BY AwaitReads, Zenon
<1> DEFINE more == rest \o left
<1>2. /\ gnpInbox[l] = read \o more /\ more \in Seq(Packets)
      /\ gnpInbox' = [gnpInbox EXCEPT ![l] = left]
      /\ gnpCall[l] # None /\ UNCHANGED <<gnpWork, gnpSeq, gnpCount>>
  <2>1. gnpCall[l] # None /\ UNCHANGED <<gnpWork, gnpSeq, gnpCount>>
    BY DEF AwaitReply
  <2>2. gnpInbox[l] = read \o more /\ gnpInbox' = [gnpInbox EXCEPT ![l] = left]
    BY <1>1 DEF Read
  <2>3. more \in Seq(Packets)
    OBVIOUS
  <2>4. QED BY <2>1, <2>2, <2>3
<1>3. Joined(rest, left)
  BY JoinOfTwo
<1>4. \A i \in 1..Len(left) : Len(rest) + i \in 1..Len(more) /\ more[Len(rest) + i] = left[i]
  BY <1>3 DEF Joined
<1> HIDE DEF more
<1>5. Joined(read, more)
  BY <1>2, JoinOfTwo
<1>6. /\ Len(gnpInbox[l]) = Len(read) + Len(more) /\ Len(read) \in Nat /\ Len(more) \in Nat
      /\ \A i \in 1..Len(read) : gnpInbox[l][i] = read[i]
      /\ \A i \in 1..Len(more) : gnpInbox[l][Len(read) + i] = more[i]
  BY <1>2, <1>5 DEF Joined
<1>7. ASSUME NEW i \in 1..Len(left)
      PROVE  \E j \in 1..Len(gnpInbox[l]) : gnpInbox[l][j] = left[i]
  <2>1. Len(rest) + i \in 1..Len(more) /\ more[Len(rest) + i] = left[i]
    BY <1>4
  <2> DEFINE k == Len(rest) + i
  <2> HIDE DEF k
  <2>2. k \in 1..Len(more) /\ more[k] = left[i]
    BY <2>1 DEF k
  <2>3. Len(read) + k \in 1..Len(gnpInbox[l]) /\ gnpInbox[l][Len(read) + k] = left[i]
    BY <1>6, <2>2
  <2>4. QED BY <2>3
<1>8. ASSUME NEW m \in Links
      PROVE  Owed(m)' \subseteq Owed(m)
  <2>1. CASE m # l
    BY <1>2, <2>1, OwedLess DEF TypeOK
  <2>2. CASE m = l
    <3>1. gnpInbox'[l] = left
      BY <1>2 DEF TypeOK
    <3>2. \A r \in Requests : (\E i \in 1..Len(left) : left[i] = Reply(r))
                                => \E i \in 1..Len(gnpInbox[l]) : gnpInbox[l][i] = Reply(r)
      BY <1>7
    <3>3. SUFFICES ASSUME NEW r \in Owed(l)' PROVE r \in Owed(l)
      BY <2>2
    <3>4. r \in Requests /\ r.who = l
      BY DEF Owed
    <3>5. \/ \E i \in 1..Len(gnpWork) : gnpWork[i] = r
          \/ \E i \in 1..Len(left) : left[i] = Reply(r)
      BY <1>2, <3>1 DEF Owed, Reply
    <3>6. QED BY <3>2, <3>4, <3>5 DEF Owed
  <2>3. QED BY <2>1, <2>2
<1>9. CASE Len(read) > 0 /\ Matching(l, Last(read)) /\ Return(l, "matched", Last(read))
  <2> DEFINE p == Last(read)
             r == [who |-> l, seq |-> p.seq, id |-> p.id]
  <2>1. p = read[Len(read)] /\ Len(read) \in 1..Len(read) /\ Len(read) \in 1..Len(gnpInbox[l])
    BY <1>6, <1>9 DEF Last
  <2>2. gnpInbox[l][Len(read)] = p /\ p \in Packets
    BY <1>6, <2>1
  <2> HIDE DEF p
  <2>3. p \in Replies /\ p.seq = gnpCall[l].seq
    BY <1>9, <2>2 DEF Matching, IsReply, Packets, Events, p
  <2>4. p.seq \in 1..Numbers /\ p.id \in Nat /\ p = [t |-> "reply", seq |-> p.seq, id |-> p.id, who |-> p.who]
    BY <2>3 DEF Replies
  <2>5. ASSUME p.who = l
        PROVE  p.id = gnpCall[l].id
    <3>1. r \in Requests /\ r.who = l /\ r.seq = p.seq /\ r.id = p.id
      BY <2>4 DEF Requests
    <3>2. Reply(r) = p
      BY <2>4, <2>5 DEF Reply
    <3> HIDE DEF r
    <3>3. r \in Owed(l)
      BY <2>1, <2>2, <3>1, <3>2 DEF Owed
    <3>4. gnpCall[l].seq = gnpSeq[l]
      BY <1>2 DEF RepliesMatched, NumbersTellApart
    <3>5. r.seq = gnpSeq[l]
      BY <2>3, <3>1, <3>4
    <3>6. r.id = gnpCall[l].id
      BY <1>2, <3>3, <3>5 DEF RepliesMatched, NumbersTellApart
    <3>7. QED BY <3>1, <3>6
  <2>6. /\ gnpCall' = [gnpCall EXCEPT ![l] = None]
        /\ gnpResult' = [gnpResult EXCEPT ![l] = [how |-> "matched", id |-> gnpCall[l].id, packet |-> p]]
    BY <1>9 DEF Return, p
  <2>7. NumbersTellApart'
    <3>1. \A m \in Links : gnpCall'[m] # None => gnpCall'[m] = gnpCall[m]
      BY <2>6 DEF TypeOK
    <3>2. QED BY <1>2, <1>8, <3>1, StillApart DEF RepliesMatched
  <2>8. RepliesAreOwn'
    <3>1. \A m \in Links \ {l} : gnpResult'[m] = gnpResult[m]
      BY <2>6 DEF TypeOK
    <3>2. gnpResult'[l] = [how |-> "matched", id |-> gnpCall[l].id, packet |-> p]
      BY <2>6 DEF TypeOK
    <3>3. QED BY <2>5, <3>1, <3>2 DEF RepliesMatched, RepliesAreOwn
  <2>9. QED BY <2>7, <2>8 DEF RepliesMatched
<1>10. CASE /\ gnpResult' = gnpResult
            /\ gnpCall' = [gnpCall EXCEPT ![l].stale =
                    IF Filtered(read, Replies) = <<>> THEN @ ELSE Last(Filtered(read, Replies))]
  <2>1. gnpCall[l] \in [seq : 1..Numbers, id : Nat, stale : Replies \cup {None}]
    BY <1>2 DEF TypeOK
  <2>2. \A m \in Links \ {l} : gnpCall'[m] = gnpCall[m]
    BY <1>10 DEF TypeOK
  <2>3. gnpCall'[l].seq = gnpCall[l].seq /\ gnpCall'[l].id = gnpCall[l].id
    <3> DEFINE stale == IF Filtered(read, Replies) = <<>> THEN gnpCall[l].stale
                        ELSE Last(Filtered(read, Replies))
    <3>1. gnpCall'[l] = [gnpCall[l] EXCEPT !.stale = stale]
      BY <1>10 DEF TypeOK
    <3> HIDE DEF stale
    <3>2. QED BY <2>1, <3>1
  <2>4. NumbersTellApart'
    BY <1>2, <1>8, <2>2, <2>3, StillApart DEF RepliesMatched
  <2>5. QED BY <1>10, <2>4 DEF RepliesMatched, RepliesAreOwn
<1>11. QED BY <1>1, <1>9, <1>10, Zenon DEF Read

LEMMA TimeoutApart ==
    ASSUME TypeOK, RepliesMatched, NEW l \in Links, Timeout(l)
    PROVE  RepliesMatched'
<1>1. /\ gnpCall[l] # None /\ UNCHANGED <<gnpWork, gnpInbox, gnpSeq, gnpCount>>
      /\ Return(l, IF gnpCall[l].stale = None THEN "timeout" ELSE "stale", gnpCall[l].stale)
  BY DEF Timeout, Overdue
<1>2. \A m \in Links : /\ gnpCall'[m] # None => gnpCall'[m] = gnpCall[m]
                       /\ m # l => gnpResult'[m] = gnpResult[m]
  BY <1>1 DEF Return, TypeOK
<1>3. gnpResult'[l].how # "matched"
  BY <1>1 DEF Return, TypeOK
<1>4. \A m \in Links : Owed(m)' \subseteq Owed(m)
  BY <1>1, OwedLess
<1>5. NumbersTellApart'
  BY <1>1, <1>2, <1>4, StillApart DEF RepliesMatched
<1>6. RepliesAreOwn'
  BY <1>2, <1>3 DEF RepliesMatched, RepliesAreOwn
<1>7. QED BY <1>5, <1>6 DEF RepliesMatched

LEMMA MatchedNext ==
    TypeOK /\ RepliesMatched /\ NoneIsARoundOld' /\ [Next]_gnpVars => RepliesMatched'
<1> SUFFICES ASSUME TypeOK, RepliesMatched, NoneIsARoundOld', [Next]_gnpVars PROVE RepliesMatched'
  OBVIOUS
<1>1. ASSUME gnpWork' = gnpWork \/ gnpWork' = <<>>,
             \A l \in Links : gnpInbox'[l] = gnpInbox[l] \/ gnpInbox'[l] = <<>>,
             UNCHANGED session, gnpCount'.requests = gnpCount.requests
      PROVE  RepliesMatched'
  <2>1. \A l \in Links : Owed(l)' \subseteq Owed(l)
    BY <1>1, OwedLess
  <2>2. NumbersTellApart'
    BY <1>1, <2>1, StillApart DEF RepliesMatched, session
  <2>3. QED BY <1>1, <2>2 DEF RepliesMatched, RepliesAreOwn, session
<1>2. ASSUME NEW l \in Links,
             Connect(l) \/ Discovered(l) \/ NobodyAnswered(l) \/ Disconnect(l) \/ ReadFails(l)
                \/ DrainEvents(l)
      PROVE  RepliesMatched'
  <2>1. UNCHANGED <<gnpWork, session, gnpCount>>
    BY <1>2 DEF Connect, Discovered, NobodyAnswered, Disconnect, ReadFails, DrainEvents
  <2>2. gnpInbox' = gnpInbox \/ gnpInbox' = [gnpInbox EXCEPT ![l] = <<>>]
    BY <1>2 DEF Connect, Discovered, NobodyAnswered, Disconnect, ReadFails, DrainEvents, Closed
  <2>3. \A m \in Links : gnpInbox'[m] = gnpInbox[m] \/ gnpInbox'[m] = <<>>
    BY <2>2 DEF TypeOK
  <2>4. QED BY <1>1, <2>1, <2>3
<1>3. ASSUME NEW l \in Links, Request(l)
      PROVE  RepliesMatched'
  <2>1. NumbersTellApart'
    BY <1>3, RequestApart DEF RepliesMatched
  <2>2. gnpResult' = gnpResult
    BY <1>3 DEF Request
  <2>3. QED BY <2>1, <2>2 DEF RepliesMatched, RepliesAreOwn
<1>4. CASE Answer \/ Ignore
  <2>1. /\ gnpWork # <<>> /\ gnpWork' = Tail(gnpWork) /\ UNCHANGED <<session, gnpCount>>
        /\ \A l \in Links : gnpInbox'[l] = gnpInbox[l]
                            \/ gnpInbox'[l] = Append(gnpInbox[l], Reply(Head(gnpWork)))
    BY <1>4 DEF Answer, Ignore, Broadcast
  <2>2. \A l \in Links : Owed(l)' \subseteq Owed(l)
    BY <2>1, OwedLater
  <2>3. NumbersTellApart'
    BY <2>1, <2>2, StillApart DEF RepliesMatched, session
  <2>4. QED BY <2>1, <2>3 DEF RepliesMatched, RepliesAreOwn, session
<1>5. CASE Push
  <2>1. /\ gnpWork' = gnpWork /\ UNCHANGED session
        /\ gnpCount' = [gnpCount EXCEPT !.pushes = @ + 1]
        /\ \A l \in Links : gnpInbox'[l] = gnpInbox[l]
                            \/ gnpInbox'[l] = Append(gnpInbox[l], Pushed(gnpCount.pushes))
    BY <1>5 DEF Push, Broadcast, Bump
  <2>2. gnpCount'.requests = gnpCount.requests
    BY <2>1 DEF TypeOK
  <2>3. Pushed(gnpCount.pushes) \in Packets /\ \A r : Pushed(gnpCount.pushes) # Reply(r)
    <3>1. gnpCount.pushes \in Nat
      BY DEF TypeOK
    <3>2. Pushed(gnpCount.pushes).t = "event" /\ \A r : Reply(r).t = "reply"
      BY DEF Pushed, Reply
    <3>3. QED BY <3>1, <3>2 DEF Pushed, Events, Packets
  <2>4. ASSUME NEW l \in Links
        PROVE  Owed(l)' \subseteq Owed(l)
    <3>1. gnpInbox[l] \in Seq(Packets)
      BY DEF TypeOK
    <3>2. \A r \in Requests : (\E i \in 1..Len(gnpInbox'[l]) : gnpInbox'[l][i] = Reply(r))
                                => \E i \in 1..Len(gnpInbox[l]) : gnpInbox[l][i] = Reply(r)
      BY <2>1, <2>3, <3>1
    <3>3. QED BY <2>1, <3>2 DEF Owed, Reply
  <2>5. NumbersTellApart'
    BY <2>1, <2>2, <2>4, StillApart DEF RepliesMatched, session
  <2>6. QED BY <2>1, <2>5 DEF RepliesMatched, RepliesAreOwn, session
<1>6. CASE Reenumerate
  <2>1. /\ gnpWork' = <<>> /\ UNCHANGED session /\ \A l \in Links : gnpInbox'[l] = <<>>
        /\ gnpCount' = [gnpCount EXCEPT !.drops = @ + 1]
    BY <1>6 DEF Reenumerate, Bump
  <2>2. gnpCount'.requests = gnpCount.requests
    BY <2>1 DEF TypeOK
  <2>3. QED BY <1>1, <2>1, <2>2
<1>7. CASE UNCHANGED gnpVars
  BY <1>1, <1>7 DEF gnpVars, session
<1>8. QED
  BY <1>2, <1>3, <1>4, <1>5, <1>6, <1>7, AwaitReplyApart, TimeoutApart DEF Next, Waiting

LEMMA MatchedInit == Init => RepliesMatched
BY DEF Init, RepliesMatched, NumbersTellApart, RepliesAreOwn, Owed

\* Numbers are enough to tell the answers of one process apart, with any number of processes, of
\* requests given up and of links lost, as long as no answer comes after its number was given out
\* again (session.py:203-231 accepts by the number alone).
THEOREM RepliesCorrect == Spec /\ []NoneIsARoundOld => []RepliesAreOwn
<1>1. RepliesMatched => RepliesAreOwn
  BY DEF RepliesMatched
<1>2. Spec => []TypeOK
  BY LinkTypeCorrect
<1>3. QED BY <1>1, <1>2, MatchedInit, MatchedNext, PTL DEF Spec

\* In particular where all requests have numbers of their own.
THEOREM RepliesOfOneRound ==
    ASSUME MaxRequests <= Numbers
    PROVE  Spec => []RepliesAreOwn
<1>1. TypeOK => NoneIsARoundOld
  <2> SUFFICES ASSUME TypeOK, NEW l \in Links, NEW r \in Owed(l)
               PROVE  gnpCount.requests - r.id <= Numbers
    BY DEF NoneIsARoundOld
  <2>1. r.id \in Nat
    BY DEF Owed, Requests
  <2>2. gnpCount.requests \in 0..MaxRequests
    BY DEF TypeOK
  <2>3. QED BY <2>1, <2>2, LinksAssumption DEF LinksAssumption
<1>2. QED BY <1>1, LinkTypeCorrect, RepliesCorrect, PTL

-----------------------------------------------------------------------------
(* The lock.                                                               *)

\* The part of the state that the lock is about.
LockTypes ==
    /\ gnpOwner \in [Links -> {"new", "connecting", "connected", "failed", "closing", "closed"}]
    /\ gnpFd \in [Links -> {"none", "live", "dead"}]
    /\ gnpCount \in [requests : Nat, pushes : Nat, drops : Nat]

\* Until the device re-enumerates no descriptor is dead, a link that may send has one that is
\* live, and a live one is of the link that holds the lock, or of a link that was closed under
\* its operation.
LiveIsLocked ==
    gnpCount.drops = 0 =>
        \A l \in Links :
            /\ gnpFd[l] # "dead"
            /\ gnpOwner[l] \in {"connecting", "connected"} => gnpFd[l] = "live"
            /\ gnpFd[l] = "live" => gnpOwner[l] = "closing" \/ gnpLock = l

Locked == LockTypes /\ LiveIsLocked

LEMMA LockedInit == Init => Locked
BY DEF Init, Locked, LockTypes, LiveIsLocked

\* A step of one link that opens no descriptor, and neither takes nor gives up another's lock.
LEMMA LockedKept ==
    ASSUME Locked, LockTypes', gnpCount'.drops = gnpCount.drops, NEW l \in Links,
           \A m \in Links \ {l} : gnpOwner'[m] = gnpOwner[m] /\ gnpFd'[m] = gnpFd[m],
           \A m \in Links \ {l} : gnpLock = m => gnpLock' = m,
           gnpCount.drops = 0 =>
               /\ gnpFd'[l] # "dead"
               /\ gnpOwner'[l] \in {"connecting", "connected"} => gnpFd'[l] = "live"
               /\ gnpFd'[l] = "live" => gnpOwner'[l] = "closing" \/ gnpLock' = l
    PROVE  Locked'
BY DEF Locked, LiveIsLocked

\* Opening, and what is decided of a link when its discovery is over.
LEMMA ConnectLocked ==
    ASSUME Locked, NEW l \in Links,
           Connect(l) \/ Discovered(l) \/ NobodyAnswered(l)
    PROVE  Locked'
<1>0. None \notin Links
  BY LinksAssumption DEF LinksAssumption
<1>1. LockTypes'
  BY DEF Connect, Discovered, NobodyAnswered, Owner, Locked, LockTypes
<1>2. /\ gnpCount' = gnpCount
      /\ \A m \in Links \ {l} : gnpOwner'[m] = gnpOwner[m] /\ gnpFd'[m] = gnpFd[m]
      /\ \A m \in Links \ {l} : gnpLock = m => gnpLock' = m
  BY <1>0 DEF Connect, Discovered, NobodyAnswered, Owner, Acquire, Locked, LockTypes
<1>3. gnpCount.drops = 0 =>
        /\ gnpFd'[l] # "dead"
        /\ gnpOwner'[l] \in {"connecting", "connected"} => gnpFd'[l] = "live"
        /\ gnpFd'[l] = "live" => gnpOwner'[l] = "closing" \/ gnpLock' = l
  BY <1>0 DEF Connect, Discovered, NobodyAnswered, Owner, Acquire, Locked, LockTypes, LiveIsLocked
<1>4. QED BY <1>1, <1>2, <1>3, LockedKept

\* Closing lets go of the link's own lock and of no other.
LEMMA DisconnectLocked ==
    ASSUME Locked, NEW l \in Links, Disconnect(l)
    PROVE  Locked'
<1>1. LockTypes' /\ gnpCount' = gnpCount
  BY DEF Disconnect, Closed, Owner, Locked, LockTypes
<1>2. /\ \A m \in Links \ {l} : gnpOwner'[m] = gnpOwner[m] /\ gnpFd'[m] = gnpFd[m]
      /\ \A m \in Links \ {l} : gnpLock = m => gnpLock' = m
      /\ gnpFd'[l] = "none" /\ gnpOwner'[l] \in {"closed", "closing"}
  BY DEF Disconnect, Closed, Owner, Locked, LockTypes
<1>3. QED BY <1>1, <1>2, LockedKept

\* A send opens the node again only where it is dead, or under an operation that outlived its link.
LEMMA RequestLocked ==
    ASSUME Locked, NEW l \in Links, Request(l)
    PROVE  Locked'
<1>1. /\ gnpOwner' = gnpOwner /\ gnpCount' = [gnpCount EXCEPT !.requests = @ + 1]
      /\ gnpOwner[l] \in {"connecting", "connected", "closing"}
  BY DEF Request, Bump
<1>2. \/ gnpFd[l] = "live" /\ UNCHANGED <<gnpFd, gnpLock>>
      \/ /\ gnpFd[l] # "live" /\ gnpFd' = [gnpFd EXCEPT ![l] = "live"]
         /\ gnpLock' = IF gnpLock = l THEN None ELSE gnpLock
  BY DEF Request, SendWritten
<1>3. LockTypes' /\ gnpCount'.drops = gnpCount.drops
  BY <1>1, <1>2 DEF Locked, LockTypes
<1>4. /\ \A m \in Links \ {l} : gnpOwner'[m] = gnpOwner[m] /\ gnpFd'[m] = gnpFd[m]
      /\ \A m \in Links \ {l} : gnpLock = m => gnpLock' = m
  BY <1>1, <1>2 DEF Locked, LockTypes
<1>5. gnpCount.drops = 0 =>
        /\ gnpFd'[l] # "dead"
        /\ gnpOwner'[l] \in {"connecting", "connected"} => gnpFd'[l] = "live"
        /\ gnpFd'[l] = "live" => gnpOwner'[l] = "closing" \/ gnpLock' = l
  BY <1>1, <1>2 DEF Locked, LockTypes, LiveIsLocked
<1>6. QED BY <1>3, <1>4, <1>5, LockedKept

\* A read fails on a descriptor that died, which takes a re-enumeration.
LEMMA ReadFailsLocked ==
    ASSUME Locked, NEW l \in Links, ReadFails(l)
    PROVE  Locked'
<1>1. LockTypes' /\ gnpCount' = gnpCount
  BY DEF ReadFails, Closed, Locked, LockTypes
<1>2. gnpCount.drops # 0
  BY DEF ReadFails, Locked, LiveIsLocked
<1>3. QED BY <1>1, <1>2 DEF Locked, LiveIsLocked

LEMMA DeviceLocked ==
    ASSUME Locked, Push \/ Reenumerate
    PROVE  Locked'
<1>1. CASE Push
  <2>1. /\ gnpCount' = [gnpCount EXCEPT !.pushes = @ + 1]
        /\ UNCHANGED <<gnpOwner, gnpLock, gnpFd>>
    BY <1>1 DEF Push, Bump
  <2>2. QED BY <2>1 DEF Locked, LockTypes, LiveIsLocked
<1>2. CASE Reenumerate
  <2>1. /\ gnpCount' = [gnpCount EXCEPT !.drops = @ + 1] /\ gnpOwner' = gnpOwner
        /\ gnpFd' = [l \in Links |-> IF gnpFd[l] = "live" THEN "dead" ELSE gnpFd[l]]
    BY <1>2 DEF Reenumerate, Bump
  <2>2. LockTypes'
    BY <2>1 DEF Locked, LockTypes
  <2>3. gnpCount'.drops # 0
    BY <2>1 DEF Locked, LockTypes
  <2>4. QED BY <2>2, <2>3 DEF Locked, LiveIsLocked
<1>3. QED BY <1>1, <1>2

\* For any number of processes and of connects, and whatever they ask: until the device
\* re-enumerates (reconnect gives the lock up, hid.py:317) or a link closed under its operation
\* sends again, the lock leaves one transport at most that the device's answers reach.
THEOREM AloneCorrect == Spec => []AloneUntilReopened
<1>1. Init => Locked
  BY LockedInit
<1>2. Locked /\ [Next]_gnpVars => Locked'
  <2> SUFFICES ASSUME Locked, [Next]_gnpVars PROVE Locked'
    OBVIOUS
  <2>1. CASE UNCHANGED <<gnpOwner, gnpLock, gnpFd, gnpCount>>
    BY <2>1 DEF Locked, LockTypes, LiveIsLocked
  <2>2. ASSUME NEW l \in Links, AwaitReply(l) \/ Timeout(l) \/ DrainEvents(l)
        PROVE  Locked'
    BY <2>1, <2>2 DEF AwaitReply, Timeout, DrainEvents
  <2>3. CASE Answer \/ Ignore \/ UNCHANGED gnpVars
    BY <2>1, <2>3 DEF Answer, Ignore, gnpVars
  <2>4. QED
    BY <2>2, <2>3, ConnectLocked, DisconnectLocked, RequestLocked, ReadFailsLocked, DeviceLocked
       DEF Next, Waiting
<1>3. Locked => AloneUntilReopened
  <2> SUFFICES ASSUME Locked, gnpCount.drops = 0, \A l \in Talking : gnpOwner[l] # "closing"
               PROVE  Cardinality(Talking) <= 1
    BY DEF AloneUntilReopened
  <2>1. Talking \subseteq {gnpLock}
    BY DEF Locked, LiveIsLocked, Talking
  <2>2. Talking = {} \/ Talking = {gnpLock}
    BY <2>1
  <2>3. Cardinality(Talking) = 0 \/ Cardinality(Talking) = 1
    BY <2>2, FS_EmptySet, FS_Singleton, Zenon
  <2>4. QED BY <2>3
<1>4. QED BY <1>1, <1>2, <1>3, PTL DEF Spec
=============================================================================
