------------------------- MODULE HeadsetLinksProofs -------------------------
(***************************************************************************)
(* What a Sony headset's page can rely on, for every message, every        *)
(* setting and any number of operations and of troubles: the last word of  *)
(* the headset is never lost, the page follows it in order, and with a     *)
(* headset that is attentive and left alone a write lands, and changes     *)
(* nothing else.  At the end the Sony and the Jabra link beside each       *)
(* other, as the run has them.                                             *)
(***************************************************************************)
EXTENDS MCHeadsetLinks, GnpLinkProofs, TLAPS

Untroubled == mdrTrouble \subseteq {"lost"}

\* What the user last asked for holds.
Reached ==
    mdrGoal # Nothing =>
        IF mdrGoal.field = Nothing THEN mdrGated = mdrGoal.val
        ELSE mdrHw[mdrGoal.field] = mdrGoal.val

\* A command of the operation under way, before the headset has handled it: a read once the write
\* is made, a write that changes the field asked for and no other, a gated change.
Current(cmd) ==
    \/ cmd = Get /\ Reached
    \/ \E m \in Messages, f \in Fields :
          /\ cmd = Set(m, f) /\ mdrGoal = [field |-> f, val |-> m[f]]
          /\ \A g \in Fields \ {f} : m[g] = mdrHw[g]
    \/ \E v \in Levels :
          cmd = Gate(v) /\ mdrGoal = [field |-> Nothing, val |-> v] /\ mdrView = mdrHw

Rest(cmd) == IF cmd.t = "set" THEN <<Get>> ELSE <<>>
Operation(cmd) == IF cmd.t = "set" THEN <<cmd, Get>> ELSE <<cmd>>

\* Between two commands the link is empty; between two operations the page is up to date.
BetweenCommands ==
    /\ mdrCall = Nothing /\ mdrAsked = <<>> /\ mdrPipe = <<>>
    /\ \/ mdrTodo = <<>> /\ mdrView = mdrHw /\ Reached
       \/ \E cmd \in Commands : mdrTodo = Operation(cmd) /\ Current(cmd)

Unhandled ==
    /\ mdrAsked = <<mdrCall.cmd>> /\ mdrPipe = <<>>
    /\ Current(mdrCall.cmd) /\ ~mdrCall.confirmed

ReadAnswered ==
    /\ mdrCall.cmd.t = "get" /\ mdrAsked = <<>> /\ Reached
    /\ mdrPipe = <<Ack, State("ret")>> \/ mdrPipe = <<State("ret")>>

WriteAnswered ==
    /\ mdrCall.cmd.t = "set" /\ mdrAsked = <<>> /\ Reached
    /\ \/ mdrPipe = <<Ack>> \/ mdrPipe = <<>>
       \/ mdrPipe = <<Ack, State("ntfy")>> \/ mdrPipe = <<State("ntfy")>>

\* The dialog of the change asked for is up.
DialogIsUp ==
    /\ mdrGoal # Nothing /\ mdrGoal.field = Nothing /\ mdrDialog = mdrGoal.val
    /\ mdrView = mdrHw

GateAnswered ==
    /\ mdrCall.cmd.t = "gate"
    /\ \/ /\ ~mdrCall.confirmed /\ mdrAsked = <<>> /\ DialogIsUp
          /\ mdrPipe = <<Ack, Alert>> \/ mdrPipe = <<Alert>>
       \/ mdrAsked = <<Confirm>> /\ mdrPipe = <<>> /\ DialogIsUp
       \/ /\ mdrAsked = <<>> /\ Reached /\ mdrView = mdrHw
          /\ mdrPipe = <<Ack>> \/ mdrPipe = <<>>

DuringACommand ==
    /\ mdrCall # Nothing /\ mdrTodo = Rest(mdrCall.cmd)
    /\ Unhandled \/ ReadAnswered \/ WriteAnswered \/ GateAnswered

\* On a link that is down nothing is under way.
ClosedIsSilent ==
    mdrLink = "closed" =>
        /\ mdrAsked = <<>> /\ mdrPipe = <<>> /\ mdrInbox = <<>> /\ mdrTodo = <<>>
        /\ mdrCall = Nothing /\ mdrDialog = Nothing /\ mdrGoal = Nothing

OneAtATime ==
    (mdrLink = "open" /\ Untroubled) =>
        mdrInbox = <<>> /\ (BetweenCommands \/ DuringACommand)

\* A write still to be handled is read back, whatever has happened in between.
ReadBack(s, next) ==
    \A i \in 1..Len(s) :
        s[i].t = "set" => (\E j \in (i + 1)..Len(s) : s[j] = Get) \/ Contains(next, Get)

WritesAreReadBack ==
    "ignored" \notin mdrTrouble => ReadBack(mdrAsked, mdrTodo) /\ ReadBack(mdrTodo, <<>>)

LastWord(view, frames) ==
    IF Reports(frames) = <<>> THEN view ELSE Last(Reports(frames)).val

LastWordIsTrue ==
    (mdrLink = "open" /\ "ignored" \notin mdrTrouble) =>
        \/ Contains(mdrAsked, Get) \/ Contains(mdrTodo, Get)
        \/ LastWord(mdrView, mdrInbox \o mdrPipe) = mdrHw

-----------------------------------------------------------------------------
(* What a drain does to the frames. *)

LEMMA DrawnType ==
    ASSUME NEW frames \in Seq(Frames)
    PROVE  Reports(frames) \in Seq(Told) /\ Alerts(frames) \in Seq({Alert})
<1>1. Frames \cap Told = Told /\ Frames \cap {Alert} = {Alert}
  BY DEF Frames
<1>2. Filtered(frames, Told) \in Seq(Frames \cap Told)
  BY FilteredType, Zenon
<1>3. Filtered(frames, {Alert}) \in Seq(Frames \cap {Alert})
  BY FilteredType, Zenon
<1>4. QED BY <1>1, <1>2, <1>3, Zenon DEF Reports, Alerts

\* A drain leaves commands to send, frames to read and a state to show.
LEMMA DrainedType ==
    ASSUME MdrTypeOK, NEW frames \in Seq(Frames), Drained(frames)
    PROVE  /\ mdrInbox' \in Seq(Frames) /\ mdrView' \in Messages \cup {Unread}
           /\ mdrTodo' \in Seq(Commands)
<1>1. CASE mdrCall.cmd = Confirm
  BY <1>1 DEF Drained, MdrTypeOK
<1>2. CASE mdrCall.cmd # Confirm
  <2>1. Reports(frames) \in Seq(Told) /\ Alerts(frames) \in Seq({Alert})
    BY DrawnType
  <2>2. Reports(frames) # <<>> => Last(Reports(frames)) \in Told
    BY <2>1 DEF Last
  <2>3. mdrView' \in Messages \cup {Unread}
    BY <1>2, <2>2 DEF Drained, MdrTypeOK, Told
  <2>4. [i \in 1..Len(Alerts(frames)) |-> Confirm] \in Seq(Commands)
    BY <2>1 DEF Commands
  <2>5. mdrTodo' \in Seq(Commands)
    BY <1>2, <2>4, ConcatProperties DEF Drained, MdrTypeOK
  <2>6. QED BY <1>2, <2>3, <2>5 DEF Drained
<1>3. QED BY <1>1, <1>2

LEMMA EndCallType ==
    ASSUME MdrTypeOK, NEW frames \in Seq(Frames), EndCall(frames)
    PROVE  /\ mdrInbox' \in Seq(Frames) /\ mdrView' \in Messages \cup {Unread}
           /\ mdrTodo' \in Seq(Commands) /\ mdrCall' = Nothing
BY DrainedType DEF EndCall

LEMMA FramesAre ==
    /\ Ack \in Frames /\ Alert \in Frames
    /\ \A m \in Messages : [t |-> "ntfy", val |-> m] \in Told /\ [t |-> "ret", val |-> m] \in Told
    /\ Told \subseteq Frames /\ Ack \notin Told /\ Alert \notin Told /\ Ack # Alert
BY DEF Frames, Told, Ack, Alert

LEMMA CommandsAre ==
    /\ Get \in Commands /\ Confirm \in Commands
    /\ \A m \in Messages, f \in Fields : Set(m, f) \in Commands
    /\ \A v \in Levels : Gate(v) \in Commands
BY DEF Commands

-----------------------------------------------------------------------------
(* The type invariant. *)

LEMMA MdrTypeInit == MdrInit => MdrTypeOK
<1> SUFFICES ASSUME MdrInit PROVE MdrTypeOK
  OBVIOUS
<1>1. mdrHw \in Messages
  BY HeadsetAssumption DEF MdrInit, Messages, HeadsetAssumption
<1>2. QED BY <1>1, HeadsetAssumption DEF MdrInit, MdrTypeOK, HeadsetAssumption

LEMMA MdrTypeStep == MdrTypeOK /\ [MdrNext]_mdrVars => MdrTypeOK'
<1> SUFFICES ASSUME MdrTypeOK, [MdrNext]_mdrVars PROVE MdrTypeOK'
  OBVIOUS
<1> USE CommandsAre, FramesAre
<1>1. CASE MdrConnect
  BY <1>1 DEF MdrConnect, MdrTypeOK
<1>2. CASE Refresh
  BY <1>2 DEF Refresh, Begin, MdrTypeOK
<1>3. CASE MdrDisconnect
  BY <1>3 DEF MdrDisconnect, HangUp, MdrTypeOK
<1>4. CASE LinkLost
  BY <1>4 DEF LinkLost, HangUp, MdrTypeOK
<1>5. ASSUME NEW f \in Fields, NEW v \in Levels, Write(f, v) PROVE MdrTypeOK'
  <2>1. Message(f, v) \in Messages
    BY HeadsetAssumption DEF Message, Messages, MdrTypeOK, HeadsetAssumption
  <2>2. [field |-> f, val |-> v] \in Goals
    BY DEF Goals
  <2>3. <<Set(Message(f, v), f), Get>> \in Seq(Commands)
    BY <2>1
  <2>4. QED BY <1>5, <2>2, <2>3 DEF Write, Begin, MdrTypeOK
<1>6. ASSUME NEW f \in Fields, NEW v \in Levels, Touch(f, v) PROVE MdrTypeOK'
  <2>1. mdrHw' \in Messages
    BY <1>6 DEF Touch, Messages, MdrTypeOK
  <2>2. [t |-> "ntfy", val |-> mdrHw'] \in Frames
    BY <2>1, Zenon
  <2>3. mdrPipe' \in Seq(Frames)
    BY <1>6, <2>2 DEF Touch, MdrTypeOK
  <2>4. QED BY <1>6, <2>1, <2>3 DEF Touch, MdrTypeOK
<1>7. ASSUME NEW v \in Levels, WriteGated(v) PROVE MdrTypeOK'
  <2>1. [field |-> Nothing, val |-> v] \in Goals
    BY DEF Goals
  <2>2. QED BY <1>7, <2>1 DEF WriteGated, Begin, MdrTypeOK
<1>8. CASE Send
  <2>1. Head(mdrTodo) \in Commands /\ Tail(mdrTodo) \in Seq(Commands)
    BY <1>8, HeadTailProperties DEF Send, MdrTypeOK
  <2>2. mdrCall' \in Calls
    BY <1>8, <2>1 DEF Send, Calls
  <2>3. mdrAsked' \in Seq(Commands)
    BY <1>8, <2>1 DEF Send, MdrTypeOK
  <2>4. QED BY <1>8, <2>1, <2>2, <2>3 DEF Send, Untouched, MdrTypeOK
<1>9. CASE ReadAck
  <2>1. mdrCall' \in Calls
    BY <1>9 DEF ReadAck, Calls, MdrTypeOK
  <2>2. QED BY <1>9, <2>1 DEF ReadAck, Untouched, MdrTypeOK
<1>10. CASE ReadData
  <2>1. Head(mdrPipe) \in Frames /\ mdrPipe' \in Seq(Frames)
    BY <1>10 DEF ReadData, MdrTypeOK
  <2> DEFINE frames == Append(mdrInbox, Head(mdrPipe))
  <2>2. frames \in Seq(Frames)
    BY <2>1 DEF MdrTypeOK
  <2>3. /\ mdrInbox' \in Seq(Frames) /\ mdrView' \in Messages \cup {Unread}
        /\ mdrTodo' \in Seq(Commands) /\ mdrCall' \in Calls \cup {Nothing}
    <3>1. CASE EndCall(frames)
      BY <2>2, <3>1, EndCallType
    <3>2. CASE mdrInbox' = frames /\ UNCHANGED <<mdrView, mdrTodo, mdrCall>>
      BY <2>2, <3>2 DEF MdrTypeOK
    <3>3. QED BY <1>10, <3>1, <3>2 DEF ReadData
  <2>4. QED BY <1>10, <2>1, <2>3 DEF ReadData, Untouched, MdrTypeOK
<1>11. CASE ReadAlert
  <2>1. mdrCall' \in Calls
    BY <1>11 DEF ReadAlert, Calls, MdrTypeOK
  <2>2. QED BY <1>11, <2>1 DEF ReadAlert, MdrReply, Untouched, MdrTypeOK
<1>12. CASE Quiet
  <2>1. mdrInbox \in Seq(Frames)
    BY DEF MdrTypeOK
  <2>2. /\ mdrInbox' \in Seq(Frames) /\ mdrView' \in Messages \cup {Unread}
        /\ mdrTodo' \in Seq(Commands) /\ mdrCall' = Nothing
    BY <1>12, <2>1, EndCallType DEF Quiet
  <2>3. mdrTrouble' \subseteq {"late", "ignored", "touched", "lost", "expired"}
    BY <1>12 DEF Quiet, MdrTypeOK
  <2>4. QED BY <1>12, <2>2, <2>3 DEF Quiet, MdrTypeOK
<1>13. CASE Deadline
  <2>1. mdrInbox \in Seq(Frames)
    BY DEF MdrTypeOK
  <2>2. /\ mdrInbox' \in Seq(Frames) /\ mdrView' \in Messages \cup {Unread}
        /\ mdrTodo' \in Seq(Commands) /\ mdrCall' = Nothing
    BY <1>13, <2>1, EndCallType DEF Deadline
  <2>3. QED BY <1>13, <2>2 DEF Deadline, MdrTypeOK
<1>14. CASE HandleGet
  <2>1. State("ret") \in Frames
    BY DEF State, MdrTypeOK
  <2>2. mdrPipe' \in Seq(Frames)
    BY <1>14, <2>1 DEF HandleGet, MdrTypeOK
  <2>3. QED BY <1>14, <2>2 DEF HandleGet, Handle, Untouched, MdrTypeOK
<1>15. CASE HandleSet
  <2>1. PICK m \in Messages, f \in Fields :
          /\ Handle(Set(m, f))
          /\ mdrHw' = m
          /\ mdrPipe' \in {Append(mdrPipe, Ack), mdrPipe \o <<Ack, [t |-> "ntfy", val |-> m]>>}
          /\ UNCHANGED <<mdrInbox, mdrView, mdrTodo, mdrCall>> /\ Untouched
    BY <1>15 DEF HandleSet
  <2>2. [t |-> "ntfy", val |-> m] \in Frames
    BY Zenon
  <2>3. <<Ack>> \in Seq(Frames) /\ <<Ack, [t |-> "ntfy", val |-> m]>> \in Seq(Frames)
    BY <2>2
  <2>4. mdrPipe \in Seq(Frames)
    BY DEF MdrTypeOK
  <2>5. Append(mdrPipe, Ack) \in Seq(Frames)
    BY <2>4
  <2>6. mdrPipe \o <<Ack, [t |-> "ntfy", val |-> m]>> \in Seq(Frames)
    BY <2>3, <2>4, ConcatProperties, Zenon
  <2>7. mdrPipe' \in Seq(Frames)
    BY <2>1, <2>5, <2>6, Zenon
  <2>8. QED BY <2>1, <2>7 DEF Handle, Untouched, MdrTypeOK
<1>16. CASE HandleGate
  BY <1>16 DEF HandleGate, Handle, MdrTypeOK
<1>17. CASE HandleConfirm
  BY <1>17 DEF HandleConfirm, Handle, MdrTypeOK
<1>18. CASE DialogExpires
  BY <1>18 DEF DialogExpires, MdrTypeOK
<1>19. CASE MdrIgnore
  BY <1>19 DEF MdrIgnore, MdrTypeOK
<1>20. CASE UNCHANGED mdrVars
  BY <1>20 DEF mdrVars, MdrTypeOK
<1>21. QED
  BY <1>1, <1>2, <1>3, <1>4, <1>5, <1>6, <1>7, <1>8, <1>9, <1>10, <1>11, <1>12, <1>13, <1>14,
     <1>15, <1>16, <1>17, <1>18, <1>19, <1>20 DEF MdrNext, Host, Headset

\* What the session keeps about a Sony headset is what the rest of the code takes it for: the
\* commands and the frames are ones the protocol has, the state shown is one of the headset's or
\* none, and a call under way is cleared when it ends (session.py:66-154, headphones.py:351-428).
THEOREM MdrTypeCorrect == MdrSpec => []MdrTypeOK
<1>1. QED BY MdrTypeInit, MdrTypeStep, PTL DEF MdrSpec

-----------------------------------------------------------------------------
(* One command at a time. *)

\* What the commands and the frames are told apart by.
LEMMA Apart ==
    /\ Get.t = "get" /\ Confirm.t = "confirm"
    /\ \A m, f : Set(m, f).t = "set" /\ Set(m, f).val = m /\ Set(m, f).field = f
    /\ \A v : Gate(v).t = "gate" /\ Gate(v).val = v
    /\ Ack.t = "ack" /\ Alert.t = "alert"
    /\ \A kind : State(kind).t = kind /\ State(kind).val = mdrHw
BY DEF Get, Confirm, Set, Gate, Ack, Alert, State

LEMMA AfterAck ==
    ASSUME NEW p, Head(p) = Ack, p # <<>>, NEW x, x # Ack
    PROVE  /\ p = <<Ack>> \/ p = <<>> => Tail(p) = <<>>
           /\ p = <<Ack, x>> \/ p = <<x>> => Tail(p) = <<x>>
<1>1. CASE p = <<Ack>>
  BY <1>1
<1>2. CASE p = <<Ack, x>>
  BY <1>2
<1>3. CASE p = <<x>>
  BY <1>3
<1>4. QED BY <1>1, <1>2, <1>3

\* A drain of nothing, and of one report.
LEMMA DrainOfNothing ==
    ASSUME MdrTypeOK, mdrCall.cmd # Confirm, EndCall(<<>>)
    PROVE  mdrCall' = Nothing /\ mdrInbox' = <<>> /\ mdrView' = mdrView /\ mdrTodo' = mdrTodo
<1>1. Reports(<<>>) = <<>> /\ Alerts(<<>>) = <<>>
  BY FilteredEmpty, Zenon DEF Reports, Alerts
<1>2. [i \in 1..Len(<<>>) |-> Confirm] = <<>>
  OBVIOUS
<1>3. <<>> \o mdrTodo = mdrTodo
  BY ConcatEmptySeq DEF MdrTypeOK
<1>4. QED BY <1>1, <1>2, <1>3, Zenon DEF EndCall, Drained

LEMMA DrainOfOne ==
    ASSUME MdrTypeOK, mdrCall.cmd # Confirm, NEW x \in Told, EndCall(<<x>>)
    PROVE  mdrCall' = Nothing /\ mdrInbox' = <<>> /\ mdrView' = x.val /\ mdrTodo' = mdrTodo
<1>1. x \notin {Alert}
  BY FramesAre
<1>2. Reports(<<x>>) = <<x>> /\ Alerts(<<x>>) = <<>>
  BY <1>1, FilteredOfOne, Zenon DEF Reports, Alerts
<1>3. [i \in 1..Len(<<>>) |-> Confirm] = <<>>
  OBVIOUS
<1>4. <<>> \o mdrTodo = mdrTodo
  BY ConcatEmptySeq DEF MdrTypeOK
<1>5. <<x>> # <<>> /\ Last(<<x>>) = x
  BY DEF Last
<1>6. QED BY <1>2, <1>3, <1>4, <1>5, Zenon DEF EndCall, Drained

LEMMA ClosedInit == MdrInit => ClosedIsSilent
BY DEF MdrInit, ClosedIsSilent

LEMMA ClosedStep == MdrTypeOK /\ ClosedIsSilent /\ [MdrNext]_mdrVars => ClosedIsSilent'
<1> SUFFICES ASSUME MdrTypeOK, ClosedIsSilent, [MdrNext]_mdrVars PROVE ClosedIsSilent'
  OBVIOUS
<1>1. CASE MdrConnect
  BY <1>1 DEF MdrConnect, ClosedIsSilent
<1>2. CASE Refresh
  BY <1>2 DEF Refresh, ClosedIsSilent
<1>3. CASE MdrDisconnect \/ LinkLost
  BY <1>3 DEF MdrDisconnect, LinkLost, HangUp, ClosedIsSilent
<1>4. ASSUME NEW f \in Fields, NEW v \in Levels, Write(f, v) \/ Touch(f, v)
      PROVE  ClosedIsSilent'
  BY <1>4 DEF Write, Touch, ClosedIsSilent
<1>5. ASSUME NEW v \in Levels, WriteGated(v) PROVE ClosedIsSilent'
  BY <1>5 DEF WriteGated, ClosedIsSilent
<1>6. CASE Host
  BY <1>6 DEF Host, Send, ReadAck, ReadData, ReadAlert, Quiet, Deadline, Due, Untouched,
              ClosedIsSilent
<1>7. CASE Headset
  BY <1>7 DEF Headset, HandleGet, HandleSet, HandleGate, HandleConfirm, Handle, Untouched,
              ClosedIsSilent
<1>8. CASE DialogExpires \/ MdrIgnore
  BY <1>8 DEF DialogExpires, MdrIgnore, ClosedIsSilent
<1>9. CASE UNCHANGED mdrVars
  BY <1>9 DEF mdrVars, ClosedIsSilent
<1>10. QED BY <1>1, <1>2, <1>3, <1>4, <1>5, <1>6, <1>7, <1>8, <1>9 DEF MdrNext

\* What the steps below start from.
Orderly == MdrTypeOK /\ ClosedIsSilent /\ OneAtATime

\* Trouble is not forgotten.
LEMMA TroubleStays == [MdrNext]_mdrVars /\ Untroubled' => Untroubled
BY DEF MdrNext, MdrConnect, Refresh, Begin, MdrDisconnect, LinkLost, HangUp, Write, Touch, WriteGated,
       Host, Send, ReadAck, ReadData, ReadAlert, Quiet, Deadline, Untouched, Headset, HandleGet,
       HandleSet, HandleGate, HandleConfirm, DialogExpires, MdrIgnore, mdrVars, Untroubled
\* An operation begins on an empty link, with the page up to date.
LEMMA IdleIsCurrent ==
    ASSUME Orderly, Untroubled, mdrLink = "open", Idle
    PROVE  /\ mdrAsked = <<>> /\ mdrPipe = <<>> /\ mdrInbox = <<>> /\ mdrView = mdrHw
BY DEF Orderly, OneAtATime, BetweenCommands, DuringACommand, Operation, Idle

LEMMA BeginOrderly ==
    ASSUME Orderly, Untroubled',
           \/ Refresh
           \/ \E f \in Fields, v \in Levels : Write(f, v)
           \/ \E v \in Levels : WriteGated(v)
    PROVE  OneAtATime'
<1> USE Apart, CommandsAre
<1>1. /\ Untroubled /\ mdrLink = "open" /\ Idle
      /\ UNCHANGED <<mdrHw, mdrGated, mdrAsked, mdrPipe, mdrInbox, mdrView, mdrCall>>
  BY DEF Refresh, Write, WriteGated, Begin, Untroubled
<1>2. /\ mdrCall' = Nothing /\ mdrAsked' = <<>> /\ mdrPipe' = <<>> /\ mdrInbox' = <<>>
      /\ mdrView' = mdrHw' /\ mdrView = mdrHw
  BY <1>1, IdleIsCurrent DEF Idle
<1>3. SUFFICES \E cmd \in Commands : mdrTodo' = Operation(cmd) /\ Current(cmd)'
  BY <1>2 DEF OneAtATime, BetweenCommands
<1>4. CASE Refresh
  <2>1. mdrTodo' = <<Get>> /\ mdrGoal' = Nothing
    BY <1>4 DEF Refresh, Begin
  <2>2. Current(Get)'
    BY <2>1 DEF Current, Reached
  <2>3. QED BY <2>1, <2>2 DEF Operation
<1>5. ASSUME NEW f \in Fields, NEW v \in Levels, Write(f, v)
      PROVE  \E cmd \in Commands : mdrTodo' = Operation(cmd) /\ Current(cmd)'
  <2>0. Message(f, v) \in Messages
    BY HeadsetAssumption DEF Message, Messages, Orderly, MdrTypeOK, HeadsetAssumption
  <2>1. PICK m \in Messages : m = Message(f, v)
    BY <2>0
  <2>2. m[f] = v /\ \A g \in Fields \ {f} : m[g] = mdrHw'[g]
    BY <1>1, <1>2, <2>1, HeadsetAssumption DEF Message, Orderly, MdrTypeOK, HeadsetAssumption
  <2>3. mdrTodo' = <<Set(m, f), Get>> /\ mdrGoal' = [field |-> f, val |-> v]
    BY <1>5, <2>1 DEF Write, Begin
  <2>4. Current(Set(m, f))'
    BY <2>2, <2>3 DEF Current
  <2>5. Set(m, f) \in Commands /\ mdrTodo' = Operation(Set(m, f))
    BY <2>3 DEF Operation
  <2>6. QED BY <2>4, <2>5
<1>6. ASSUME NEW v \in Levels, WriteGated(v)
      PROVE  \E cmd \in Commands : mdrTodo' = Operation(cmd) /\ Current(cmd)'
  <2>1. mdrTodo' = <<Gate(v)>> /\ mdrGoal' = [field |-> Nothing, val |-> v]
    BY <1>6 DEF WriteGated, Begin
  <2>2. Current(Gate(v))'
    BY <1>2, <2>1 DEF Current
  <2>3. Gate(v) \in Commands /\ mdrTodo' = Operation(Gate(v))
    BY <2>1 DEF Operation
  <2>4. QED BY <2>2, <2>3
<1>7. QED BY <1>4, <1>5, <1>6

LEMMA SendOrderly ==
    ASSUME Orderly, Untroubled', Send
    PROVE  OneAtATime'
<1>1. /\ Untroubled /\ mdrLink = "open" /\ mdrCall = Nothing /\ mdrTodo # <<>>
      /\ UNCHANGED <<mdrHw, mdrGated, mdrPipe, mdrInbox, mdrView, mdrGoal, mdrDialog>>
  BY DEF Send, Untouched, Untroubled
<1>2. mdrAsked = <<>> /\ mdrPipe = <<>> /\ mdrInbox = <<>>
  BY <1>1 DEF Orderly, OneAtATime, BetweenCommands, DuringACommand
<1>3. PICK cmd \in Commands : mdrTodo = Operation(cmd) /\ Current(cmd)
  BY <1>1 DEF Orderly, OneAtATime, BetweenCommands, DuringACommand
<1>4. Head(mdrTodo) = cmd /\ Tail(mdrTodo) = Rest(cmd)
  BY <1>3 DEF Operation, Rest
<1>5. mdrCall' = [cmd |-> cmd, acked |-> FALSE, confirmed |-> FALSE] /\ mdrCall' # Nothing
  <2>1. mdrCall' = [cmd |-> cmd, acked |-> FALSE, confirmed |-> FALSE]
    BY <1>4 DEF Send
  <2>2. mdrCall' \in Calls
    BY <2>1 DEF Calls
  <2>3. QED BY <2>1, <2>2, HeadsetAssumption DEF HeadsetAssumption
<1>6. mdrAsked' = <<cmd>> /\ mdrTodo' = Rest(cmd)
  BY <1>2, <1>4 DEF Send
<1>7. Current(cmd)'
  BY <1>1, <1>3 DEF Current, Reached
<1>8. Unhandled'
  BY <1>1, <1>2, <1>5, <1>6, <1>7 DEF Unhandled
<1>9. QED BY <1>1, <1>2, <1>5, <1>6, <1>8 DEF OneAtATime, DuringACommand

\* What a call under way finds.
LEMMA DuringIs ==
    ASSUME Orderly, Untroubled, mdrCall # Nothing
    PROVE  mdrLink = "open" /\ mdrInbox = <<>> /\ DuringACommand /\ mdrCall \in Calls
BY DEF Orderly, OneAtATime, BetweenCommands, ClosedIsSilent, MdrTypeOK

LEMMA ReadAckOrderly ==
    ASSUME Orderly, Untroubled', ReadAck
    PROVE  OneAtATime'
<1> USE Apart
<1>1. /\ Untroubled /\ mdrCall # Nothing /\ mdrPipe # <<>> /\ Head(mdrPipe) = Ack
      /\ mdrPipe' = Tail(mdrPipe)
      /\ UNCHANGED <<mdrHw, mdrGated, mdrAsked, mdrInbox, mdrView, mdrTodo, mdrGoal, mdrDialog,
                     mdrLink>>
  BY DEF ReadAck, Untouched, Untroubled
<1>2. mdrLink = "open" /\ mdrInbox = <<>> /\ DuringACommand /\ mdrCall \in Calls
  BY <1>1, DuringIs
<1>3. mdrCall' \in Calls /\ mdrCall'.cmd = mdrCall.cmd /\ mdrCall'.confirmed = mdrCall.confirmed
  BY <1>2 DEF ReadAck, Calls
<1>4. mdrCall' # Nothing
  BY <1>3, HeadsetAssumption DEF HeadsetAssumption
<1>5. State("ret")' = State("ret") /\ State("ntfy")' = State("ntfy")
  BY <1>1 DEF State
<1> DEFINE ret == State("ret")
           ntfy == State("ntfy")
<1>0. ret # Ack /\ ntfy # Ack
  OBVIOUS
<1>6. SUFFICES Unhandled' \/ ReadAnswered' \/ WriteAnswered' \/ GateAnswered'
  BY <1>1, <1>2, <1>3, <1>4, <1>6 DEF OneAtATime, DuringACommand, Rest
<1>7. CASE Unhandled
  BY <1>1, <1>7 DEF Unhandled
<1>8. CASE ReadAnswered
  <2>1. mdrPipe' = <<State("ret")>>
    <3>1. mdrPipe = <<Ack, ret>> \/ mdrPipe = <<ret>>
      BY <1>8 DEF ReadAnswered
    <3> HIDE DEF ret
    <3>2. Tail(mdrPipe) = <<ret>>
      BY <1>0, <1>1, <3>1, AfterAck
    <3>3. QED BY <1>1, <3>2 DEF ret
  <2>2. QED BY <1>1, <1>3, <1>5, <1>8, <2>1 DEF ReadAnswered, Reached
<1>9. CASE WriteAnswered
  <2>1. mdrPipe' = <<>> \/ mdrPipe' = <<State("ntfy")>>
    <3>1. \/ mdrPipe = <<Ack>> \/ mdrPipe = <<>>
          \/ mdrPipe = <<Ack, ntfy>> \/ mdrPipe = <<ntfy>>
      BY <1>9 DEF WriteAnswered
    <3> HIDE DEF ntfy
    <3>2. Tail(mdrPipe) = <<ntfy>> \/ Tail(mdrPipe) = <<>>
      <4>1. CASE mdrPipe = <<Ack>> \/ mdrPipe = <<>>
        BY <1>0, <1>1, <4>1, AfterAck
      <4>2. CASE mdrPipe = <<Ack, ntfy>> \/ mdrPipe = <<ntfy>>
        BY <1>0, <1>1, <4>2, AfterAck
      <4>3. QED BY <3>1, <4>1, <4>2
    <3>3. QED BY <1>1, <3>2 DEF ntfy
  <2>2. QED BY <1>1, <1>3, <1>5, <1>9, <2>1 DEF WriteAnswered, Reached
<1>10. CASE GateAnswered
  <2>1. CASE ~mdrCall.confirmed /\ mdrAsked = <<>> /\ DialogIsUp
    <3>1. CASE mdrPipe = <<Ack, Alert>>
      BY <1>1, <1>3, <1>10, <2>1, <3>1 DEF GateAnswered, DialogIsUp
    <3>2. CASE mdrPipe = <<Alert>>
      BY <1>1, <3>2
    <3>3. CASE /\ mdrPipe = <<Ack>> \/ mdrPipe = <<>>
               /\ mdrAsked = <<>> /\ Reached /\ mdrView = mdrHw
      <4>1. mdrPipe' = <<>>
        BY <1>0, <1>1, <3>3, AfterAck
      <4>2. QED BY <1>1, <1>3, <1>10, <3>3, <4>1 DEF GateAnswered, Reached
    <3>4. QED BY <1>1, <1>10, <3>1, <3>2, <3>3 DEF GateAnswered
  <2>2. CASE ~(~mdrCall.confirmed /\ mdrAsked = <<>> /\ DialogIsUp)
    <3>1. mdrPipe = <<Ack>> /\ mdrAsked = <<>> /\ Reached /\ mdrView = mdrHw
      BY <1>1, <1>10, <2>2 DEF GateAnswered
    <3>2. mdrPipe' = <<>>
      BY <1>1, <3>1
    <3>3. QED BY <1>1, <1>3, <1>10, <3>1, <3>2 DEF GateAnswered, Reached
  <2>3. QED BY <2>1, <2>2
<1>11. QED BY <1>2, <1>7, <1>8, <1>9, <1>10 DEF DuringACommand

LEMMA ReadDataOrderly ==
    ASSUME Orderly, Untroubled', ReadData
    PROVE  OneAtATime'
<1> USE Apart
<1>1. /\ Untroubled /\ mdrCall # Nothing /\ mdrPipe # <<>> /\ Head(mdrPipe) # Ack
      /\ mdrCall.cmd.t = "gate" => Head(mdrPipe) # Alert \/ mdrCall.confirmed
      /\ mdrPipe' = Tail(mdrPipe)
      /\ UNCHANGED <<mdrHw, mdrGated, mdrAsked, mdrGoal, mdrDialog, mdrLink>>
  BY DEF ReadData, Untouched, Untroubled
<1>2. mdrLink = "open" /\ mdrInbox = <<>> /\ DuringACommand /\ mdrCall \in Calls
  BY <1>1, DuringIs
<1>3. mdrHw \in Messages /\ mdrHw' = mdrHw
  BY <1>1 DEF Orderly, MdrTypeOK
<1>4. /\ State("ret") \in Told /\ State("ntfy") \in Told
  BY <1>3, FramesAre DEF State
<1>5. ~Unhandled /\ ~GateAnswered
  BY <1>1 DEF Unhandled, GateAnswered
<1>6. ASSUME NEW x \in Told, mdrPipe = <<x>>, Answers(x, mdrCall.cmd), mdrCall.cmd # Confirm
      PROVE  /\ mdrPipe' = <<>> /\ mdrCall' = Nothing /\ mdrInbox' = <<>>
             /\ mdrView' = x.val /\ mdrTodo' = mdrTodo
  <2>1. Head(mdrPipe) = x /\ Tail(mdrPipe) = <<>> /\ Append(mdrInbox, x) = <<x>>
    BY <1>2, <1>6
  <2>2. EndCall(<<x>>)
    BY <1>6, <2>1 DEF ReadData
  <2>3. QED BY <1>1, <1>6, <2>1, <2>2, DrainOfOne DEF Orderly
<1>7. CASE ReadAnswered
  <2>1. mdrPipe = <<State("ret")>>
    BY <1>1, <1>7 DEF ReadAnswered
  <2>2. Answers(State("ret"), mdrCall.cmd) /\ mdrCall.cmd # Confirm
    BY <1>7 DEF ReadAnswered, Answers
  <2>3. /\ mdrPipe' = <<>> /\ mdrCall' = Nothing /\ mdrInbox' = <<>>
        /\ mdrView' = mdrHw /\ mdrTodo' = mdrTodo
    BY <1>4, <1>6, <2>1, <2>2
  <2>4. mdrTodo = <<>> /\ mdrAsked = <<>> /\ Reached
    BY <1>2, <1>7 DEF DuringACommand, ReadAnswered, Rest
  <2>5. BetweenCommands'
    BY <1>1, <2>3, <2>4 DEF BetweenCommands, Reached
  <2>6. QED BY <2>3, <2>5 DEF OneAtATime
<1>8. CASE WriteAnswered
  <2>1. mdrPipe = <<State("ntfy")>>
    BY <1>1, <1>8 DEF WriteAnswered
  <2>2. Answers(State("ntfy"), mdrCall.cmd) /\ mdrCall.cmd # Confirm
    BY <1>8 DEF WriteAnswered, Answers
  <2>3. /\ mdrPipe' = <<>> /\ mdrCall' = Nothing /\ mdrInbox' = <<>> /\ mdrTodo' = mdrTodo
    BY <1>4, <1>6, <2>1, <2>2
  <2>4. mdrTodo = <<Get>> /\ mdrAsked = <<>> /\ Reached
    BY <1>2, <1>8 DEF DuringACommand, WriteAnswered, Rest
  <2>5. mdrTodo' = Operation(Get) /\ Current(Get)'
    BY <1>1, <2>3, <2>4 DEF Operation, Current, Reached
  <2>6. BetweenCommands'
    BY <1>1, <2>3, <2>4, <2>5, CommandsAre DEF BetweenCommands
  <2>7. QED BY <2>3, <2>6 DEF OneAtATime
<1>9. QED BY <1>2, <1>5, <1>7, <1>8 DEF DuringACommand

LEMMA ReadAlertOrderly ==
    ASSUME Orderly, Untroubled', ReadAlert
    PROVE  OneAtATime'
<1> USE Apart
<1>1. /\ Untroubled /\ mdrCall # Nothing /\ mdrCall.cmd.t = "gate" /\ ~mdrCall.confirmed
      /\ mdrPipe # <<>> /\ Head(mdrPipe) = Alert /\ mdrPipe' = Tail(mdrPipe)
      /\ mdrAsked' = Append(mdrAsked, Confirm)
      /\ UNCHANGED <<mdrHw, mdrGated, mdrInbox, mdrView, mdrTodo, mdrGoal, mdrDialog, mdrLink>>
  BY DEF ReadAlert, MdrReply, Untouched, Untroubled
<1>2. mdrLink = "open" /\ mdrInbox = <<>> /\ DuringACommand /\ mdrCall \in Calls
  BY <1>1, DuringIs
<1>3. mdrCall' \in Calls /\ mdrCall'.cmd = mdrCall.cmd
  BY <1>2 DEF ReadAlert, Calls
<1>4. mdrCall' # Nothing
  BY <1>3, HeadsetAssumption DEF HeadsetAssumption
<1>5. mdrAsked = <<>> /\ DialogIsUp /\ mdrPipe = <<Alert>>
  BY <1>1, <1>2 DEF DuringACommand, Unhandled, ReadAnswered, WriteAnswered, GateAnswered
<1>6. mdrAsked' = <<Confirm>> /\ mdrPipe' = <<>>
  BY <1>1, <1>5
<1>7. GateAnswered'
  BY <1>1, <1>3, <1>5, <1>6 DEF GateAnswered, DialogIsUp
<1>8. QED BY <1>1, <1>2, <1>3, <1>4, <1>7 DEF OneAtATime, DuringACommand, Rest

LEMMA QuietOrderly ==
    ASSUME Orderly, Untroubled', Quiet
    PROVE  OneAtATime'
<1> USE Apart
<1>1. /\ Untroubled /\ mdrCall # Nothing /\ mdrPipe = <<>> /\ mdrAsked = <<>>
      /\ UNCHANGED <<mdrHw, mdrGated, mdrAsked, mdrPipe, mdrGoal>>
  BY DEF Quiet, Untroubled
<1>2. mdrLink = "open" /\ mdrInbox = <<>> /\ DuringACommand /\ mdrCall \in Calls
  BY <1>1, DuringIs
<1>3. /\ WriteAnswered \/ (mdrCall.cmd.t = "gate" /\ mdrView = mdrHw)
      /\ Reached
  BY <1>1, <1>2 DEF DuringACommand, Unhandled, ReadAnswered, WriteAnswered, GateAnswered
<1>4. mdrCall.cmd # Confirm
  BY <1>3 DEF WriteAnswered
<1>5. /\ mdrCall' = Nothing /\ mdrInbox' = <<>> /\ mdrView' = mdrView /\ mdrTodo' = mdrTodo
  BY <1>2, <1>4, DrainOfNothing DEF Quiet, Orderly
<1>6. Reached'
  BY <1>1, <1>3 DEF Reached
<1>7. CASE WriteAnswered
  <2>1. mdrTodo' = Operation(Get)
    BY <1>2, <1>5, <1>7 DEF DuringACommand, WriteAnswered, Rest, Operation
  <2>2. Current(Get)'
    BY <1>6 DEF Current
  <2>3. BetweenCommands'
    BY <1>1, <1>5, <2>1, <2>2, CommandsAre DEF BetweenCommands
  <2>4. QED BY <1>5, <2>3 DEF OneAtATime
<1>8. CASE mdrCall.cmd.t = "gate" /\ mdrView = mdrHw
  <2>1. mdrTodo' = <<>>
    BY <1>2, <1>5, <1>8 DEF DuringACommand, Rest
  <2>2. BetweenCommands'
    BY <1>1, <1>5, <1>6, <1>8, <2>1 DEF BetweenCommands
  <2>3. QED BY <1>5, <2>2 DEF OneAtATime
<1>9. QED BY <1>3, <1>7, <1>8
\* The headset handles a command: the one of the call, or the confirmation of its dialog.
LEMMA HandleGetOrderly ==
    ASSUME Orderly, Untroubled', HandleGet
    PROVE  OneAtATime'
<1> USE Apart
<1>1. /\ Untroubled /\ mdrAsked # <<>> /\ Head(mdrAsked) = Get /\ mdrAsked' = Tail(mdrAsked)
      /\ mdrPipe' = mdrPipe \o <<Ack, State("ret")>>
      /\ UNCHANGED <<mdrHw, mdrGated, mdrInbox, mdrView, mdrTodo, mdrGoal, mdrDialog, mdrLink,
                     mdrCall>>
  BY DEF HandleGet, Handle, Untouched, Untroubled
<1>2. mdrLink = "open" /\ mdrInbox = <<>> /\ DuringACommand
  BY <1>1 DEF Orderly, OneAtATime, BetweenCommands, ClosedIsSilent, MdrTypeOK
<1>3. Unhandled
  BY <1>1, <1>2 DEF DuringACommand, ReadAnswered, WriteAnswered, GateAnswered
<1>4. mdrCall.cmd = Get /\ mdrAsked' = <<>> /\ mdrPipe = <<>> /\ Reached
  BY <1>1, <1>3 DEF Unhandled, Current
<1>5. mdrPipe' = <<Ack, State("ret")>>
  BY <1>1, <1>4
<1>6. State("ret")' = State("ret")
  BY <1>1 DEF State
<1>7. ReadAnswered'
  BY <1>1, <1>4, <1>5, <1>6 DEF ReadAnswered, Reached
<1>8. QED BY <1>1, <1>2, <1>7 DEF OneAtATime, DuringACommand, Rest

LEMMA HandleSetOrderly ==
    ASSUME Orderly, Untroubled', HandleSet
    PROVE  OneAtATime'
<1> USE Apart
<1>1. PICK m \in Messages, f \in Fields :
        /\ Handle(Set(m, f))
        /\ mdrHw' = m
        /\ mdrPipe' \in {Append(mdrPipe, Ack), mdrPipe \o <<Ack, [t |-> "ntfy", val |-> m]>>}
        /\ UNCHANGED <<mdrInbox, mdrView, mdrTodo, mdrCall>> /\ Untouched
  BY DEF HandleSet
<1>2. /\ Untroubled /\ mdrAsked # <<>> /\ Head(mdrAsked) = Set(m, f) /\ mdrAsked' = Tail(mdrAsked)
      /\ UNCHANGED <<mdrGated, mdrInbox, mdrView, mdrTodo, mdrGoal, mdrDialog, mdrLink, mdrCall>>
  BY <1>1 DEF Handle, Untouched, Untroubled
<1>3. mdrLink = "open" /\ mdrInbox = <<>> /\ DuringACommand
  BY <1>2 DEF Orderly, OneAtATime, BetweenCommands, ClosedIsSilent, MdrTypeOK
<1>4. Unhandled
  BY <1>2, <1>3 DEF DuringACommand, ReadAnswered, WriteAnswered, GateAnswered
<1>5. mdrCall.cmd = Set(m, f) /\ mdrAsked' = <<>> /\ mdrPipe = <<>>
  BY <1>2, <1>4 DEF Unhandled
<1>6. mdrGoal = [field |-> f, val |-> m[f]]
  BY <1>4, <1>5 DEF Unhandled, Current
<1>7. State("ntfy")' = [t |-> "ntfy", val |-> m]
  BY <1>1 DEF State
<1>8. mdrPipe' = <<Ack>> \/ mdrPipe' = <<Ack, State("ntfy")'>>
  BY <1>1, <1>5, <1>7
<1>9. Reached'
  BY <1>1, <1>2, <1>6, HeadsetAssumption DEF Reached, HeadsetAssumption
<1>10. WriteAnswered'
  BY <1>2, <1>5, <1>8, <1>9 DEF WriteAnswered
<1>11. QED BY <1>2, <1>3, <1>10 DEF OneAtATime, DuringACommand, Rest

LEMMA HandleGateOrderly ==
    ASSUME Orderly, Untroubled', HandleGate
    PROVE  OneAtATime'
<1> USE Apart
<1>1. PICK v \in Levels : /\ Handle(Gate(v)) /\ mdrDialog' = v
                          /\ mdrPipe' = mdrPipe \o <<Ack, Alert>>
  BY DEF HandleGate
<1>2. /\ Untroubled /\ mdrAsked # <<>> /\ Head(mdrAsked) = Gate(v) /\ mdrAsked' = Tail(mdrAsked)
      /\ UNCHANGED <<mdrHw, mdrGated, mdrInbox, mdrView, mdrTodo, mdrGoal, mdrLink, mdrCall>>
  BY <1>1 DEF HandleGate, Handle, Untroubled
<1>3. mdrLink = "open" /\ mdrInbox = <<>> /\ DuringACommand
  BY <1>2 DEF Orderly, OneAtATime, BetweenCommands, ClosedIsSilent, MdrTypeOK
<1>4. Unhandled
  BY <1>2, <1>3 DEF DuringACommand, ReadAnswered, WriteAnswered, GateAnswered
<1>5. mdrCall.cmd = Gate(v) /\ mdrAsked' = <<>> /\ mdrPipe = <<>> /\ ~mdrCall.confirmed
  BY <1>2, <1>4 DEF Unhandled
<1>6. mdrGoal = [field |-> Nothing, val |-> v] /\ mdrView = mdrHw
  BY <1>4, <1>5 DEF Unhandled, Current
<1>7. mdrGoal # Nothing
  BY <1>6, HeadsetAssumption DEF HeadsetAssumption, Goals
<1>8. mdrPipe' = <<Ack, Alert>>
  BY <1>1, <1>5
<1>9. DialogIsUp'
  BY <1>1, <1>2, <1>6, <1>7 DEF DialogIsUp
<1>10. GateAnswered'
  BY <1>2, <1>5, <1>8, <1>9 DEF GateAnswered
<1>11. QED BY <1>2, <1>3, <1>10 DEF OneAtATime, DuringACommand, Rest

LEMMA HandleConfirmOrderly ==
    ASSUME Orderly, Untroubled', HandleConfirm
    PROVE  OneAtATime'
<1> USE Apart
<1>1. /\ Untroubled /\ mdrAsked # <<>> /\ Head(mdrAsked) = Confirm /\ mdrAsked' = Tail(mdrAsked)
      /\ mdrGated' = IF mdrDialog = Nothing THEN mdrGated ELSE mdrDialog
      /\ mdrPipe' = Append(mdrPipe, Ack)
      /\ UNCHANGED <<mdrHw, mdrInbox, mdrView, mdrTodo, mdrGoal, mdrLink, mdrCall>>
  BY DEF HandleConfirm, Handle, Untroubled
<1>2. mdrLink = "open" /\ mdrInbox = <<>> /\ DuringACommand
  BY <1>1 DEF Orderly, OneAtATime, BetweenCommands, ClosedIsSilent, MdrTypeOK
<1>3. ~Unhandled
  BY <1>1 DEF Unhandled, Current
<1>4. /\ mdrCall.cmd.t = "gate" /\ mdrAsked = <<Confirm>> /\ mdrPipe = <<>> /\ DialogIsUp
  BY <1>1, <1>2, <1>3 DEF DuringACommand, ReadAnswered, WriteAnswered, GateAnswered
<1>5. mdrDialog # Nothing
  BY <1>4, HeadsetAssumption DEF DialogIsUp, Orderly, MdrTypeOK, Goals, HeadsetAssumption
<1>6. Reached' /\ mdrView' = mdrHw'
  BY <1>1, <1>4, <1>5 DEF DialogIsUp, Reached
<1>7. mdrAsked' = <<>> /\ mdrPipe' = <<Ack>>
  BY <1>1, <1>4
<1>8. GateAnswered'
  BY <1>1, <1>4, <1>6, <1>7 DEF GateAnswered
<1>9. QED BY <1>1, <1>2, <1>8 DEF OneAtATime, DuringACommand, Rest

LEMMA OneAtATimeInit == MdrInit => OneAtATime
BY DEF MdrInit, OneAtATime

LEMMA OneAtATimeStep == Orderly /\ [MdrNext]_mdrVars => OneAtATime'
<1> SUFFICES ASSUME Orderly, [MdrNext]_mdrVars, Untroubled' PROVE OneAtATime'
  BY DEF OneAtATime
<1>1. CASE MdrConnect
  <2>1. /\ mdrAsked' = <<>> /\ mdrPipe' = <<>> /\ mdrInbox' = <<>> /\ mdrCall' = Nothing
        /\ mdrGoal' = Nothing /\ mdrTodo' = <<Get>>
    BY <1>1 DEF MdrConnect, Orderly, ClosedIsSilent
  <2>2. mdrTodo' = Operation(Get) /\ Current(Get)'
    BY <2>1, Apart DEF Operation, Current, Reached
  <2>3. BetweenCommands'
    BY <2>1, <2>2, CommandsAre DEF BetweenCommands
  <2>4. QED BY <2>1, <2>3 DEF OneAtATime
<1>2. CASE MdrDisconnect \/ LinkLost
  BY <1>2 DEF MdrDisconnect, LinkLost, HangUp, OneAtATime
<1>3. CASE Refresh
  BY <1>3, BeginOrderly
<1>4. ASSUME NEW f \in Fields, NEW v \in Levels, Write(f, v) PROVE OneAtATime'
  BY <1>4, BeginOrderly
<1>5. ASSUME NEW f \in Fields, NEW v \in Levels, Touch(f, v) PROVE OneAtATime'
  BY <1>5 DEF Touch, Untroubled
<1>6. ASSUME NEW v \in Levels, WriteGated(v) PROVE OneAtATime'
  BY <1>6, BeginOrderly
<1>7. CASE Host
  <2>1. CASE Deadline
    BY <2>1 DEF Deadline, Untroubled
  <2>2. QED BY <1>7, <2>1, SendOrderly, ReadAckOrderly, ReadDataOrderly, ReadAlertOrderly,
               QuietOrderly DEF Host
<1>8. CASE Headset
  BY <1>8, HandleGetOrderly, HandleSetOrderly, HandleGateOrderly, HandleConfirmOrderly DEF Headset
<1>9. CASE DialogExpires \/ MdrIgnore
  <2>1. "expired" \in mdrTrouble' \/ "ignored" \in mdrTrouble'
    BY <1>9 DEF DialogExpires, MdrIgnore
  <2>2. QED BY <2>1 DEF Untroubled
<1>10. CASE UNCHANGED mdrVars
  <2>1. State("ret")' = State("ret") /\ State("ntfy")' = State("ntfy")
    BY <1>10 DEF mdrVars, State
  <2>2. Reached' = Reached /\ \A cmd \in Commands : Current(cmd)' = Current(cmd)
    BY <1>10 DEF mdrVars, Reached, Current
  <2>3. QED
    BY <1>10, <2>1, <2>2 DEF mdrVars, Orderly, OneAtATime, Untroubled, BetweenCommands, DuringACommand,
       Unhandled, ReadAnswered, WriteAnswered, GateAnswered, DialogIsUp, Reached, Current
<1>11. QED BY <1>1, <1>2, <1>3, <1>4, <1>5, <1>6, <1>7, <1>8, <1>9, <1>10 DEF MdrNext

LEMMA OrderlyCorrect == MdrSpec => []Orderly
<1>1. MdrInit => Orderly
  BY MdrTypeInit, ClosedInit, OneAtATimeInit DEF Orderly
<1>2. Orderly /\ [MdrNext]_mdrVars => Orderly'
  BY MdrTypeStep, ClosedStep, OneAtATimeStep DEF Orderly
<1>3. QED BY <1>1, <1>2, PTL DEF MdrSpec

\* A write that returned has been made: on a headset that is attentive and left alone, an operation
\* that has ended has left what the user asked for, the change behind a dialog included, although
\* send_command and send_reboot_command report nothing (session.py:66-154, headphones.py:248-342).
THEOREM WriteLandsCorrect == MdrSpec => []WriteLands
<1>1. Orderly => WriteLands
  <2> SUFFICES ASSUME Orderly, Idle, mdrAsked = <<>>, mdrGoal # Nothing, mdrTrouble \subseteq {"lost"}
      PROVE  Reached
    BY DEF WriteLands, Reached
  <2>1. mdrLink = "open"
    BY DEF Orderly, ClosedIsSilent, MdrTypeOK
  <2>2. BetweenCommands
    BY <2>1 DEF Orderly, OneAtATime, Untroubled, Idle, DuringACommand
  <2>3. QED BY <2>2 DEF BetweenCommands, Operation, Idle
<1>2. QED BY <1>1, OrderlyCorrect, PTL

\* A write changes the field the user moved and no other, although every field of the group rides
\* in the message: what it re-sends for the others is what the headset holds (device.py:315-348).
THEOREM WriteKeepsTheOthersCorrect == MdrSpec => WriteKeepsTheOthers
<1> DEFINE Spared == \A m \in Messages, f \in Fields :
                       (mdrTrouble \subseteq {"lost"} /\ Handle(Set(m, f)) /\ HandleSet)
                          => \A g \in Fields \ {f} : mdrHw'[g] = mdrHw[g]
<1>1. Orderly /\ [MdrNext]_mdrVars => Spared
  <2> SUFFICES ASSUME Orderly, NEW m \in Messages, NEW f \in Fields,
                      mdrTrouble \subseteq {"lost"}, Handle(Set(m, f)), HandleSet
      PROVE  \A g \in Fields \ {f} : mdrHw'[g] = mdrHw[g]
    OBVIOUS
  <2>1. PICK sent \in Messages, field \in Fields : Handle(Set(sent, field)) /\ mdrHw' = sent
    BY DEF HandleSet
  <2>2. mdrHw' = m /\ mdrAsked # <<>> /\ Head(mdrAsked) = Set(m, f)
    BY <2>1, Apart DEF Handle
  <2>3. DuringACommand
    BY <2>2 DEF Orderly, OneAtATime, Untroubled, BetweenCommands, ClosedIsSilent, MdrTypeOK
  <2>4. Unhandled
    BY <2>2, <2>3, Apart DEF DuringACommand, ReadAnswered, WriteAnswered, GateAnswered
  <2>5. Current(Set(m, f))
    BY <2>2, <2>4 DEF Unhandled
  <2>6. \A g \in Fields \ {f} : m[g] = mdrHw[g]
    BY <2>5, Apart DEF Current
  <2>7. QED BY <2>2, <2>6
<1>2. MdrSpec => [][Spared]_mdrVars
  BY <1>1, OrderlyCorrect, PTL DEF MdrSpec
<1>3. QED BY <1>2 DEF WriteKeepsTheOthers

-----------------------------------------------------------------------------
(* The last word of the headset. *)

LEMMA ReadBackEmpty ==
    ASSUME NEW next
    PROVE  ReadBack(<<>>, next)
BY DEF ReadBack

\* What is handled leaves the rest read back.
LEMMA ReadBackTail ==
    ASSUME NEW s \in Seq(Commands), s # <<>>, NEW next, ReadBack(s, next)
    PROVE  ReadBack(Tail(s), next)
<1> SUFFICES ASSUME NEW i \in 1..Len(Tail(s)), Tail(s)[i].t = "set", ~Contains(next, Get)
    PROVE  \E j \in (i + 1)..Len(Tail(s)) : Tail(s)[j] = Get
  BY DEF ReadBack
<1>1. Len(Tail(s)) = Len(s) - 1 /\ \A k \in 1..Len(Tail(s)) : Tail(s)[k] = s[k + 1]
  OBVIOUS
<1>2. i + 1 \in 1..Len(s) /\ s[i + 1].t = "set"
  BY <1>1
<1>3. PICK j \in (i + 1 + 1)..Len(s) : s[j] = Get
  BY <1>2 DEF ReadBack
<1>4. j - 1 \in (i + 1)..Len(Tail(s)) /\ Tail(s)[j - 1] = Get
  BY <1>1, <1>3
<1>5. QED BY <1>4

\* A command that writes nothing, at the end.
LEMMA ReadBackAppend ==
    ASSUME NEW s \in Seq(Commands), NEW c \in Commands, NEW next, ReadBack(s, next), c.t # "set"
    PROVE  ReadBack(Append(s, c), next)
<1> DEFINE a == Append(s, c)
<1>1. Len(a) = Len(s) + 1 /\ a[Len(a)] = c /\ \A k \in 1..Len(s) : a[k] = s[k]
  OBVIOUS
<1> SUFFICES ASSUME NEW i \in 1..Len(a), a[i].t = "set", ~Contains(next, Get)
    PROVE  \E j \in (i + 1)..Len(a) : a[j] = Get
  BY DEF ReadBack
<1> HIDE DEF a
<1>2. i \in 1..Len(s) /\ s[i].t = "set"
  BY <1>1
<1>3. PICK j \in (i + 1)..Len(s) : s[j] = Get
  BY <1>2 DEF ReadBack
<1>4. QED BY <1>1, <1>3

\* The next command is sent.
LEMMA ReadBackSend ==
    ASSUME NEW s \in Seq(Commands), NEW next \in Seq(Commands), next # <<>>,
           ReadBack(s, next), ReadBack(next, <<>>)
    PROVE  ReadBack(Append(s, Head(next)), Tail(next)) /\ ReadBack(Tail(next), <<>>)
<1>1. ReadBack(Tail(next), <<>>)
  BY ReadBackTail
<1> DEFINE a == Append(s, Head(next))
<1>2. Len(a) = Len(s) + 1 /\ a[Len(a)] = next[1] /\ \A k \in 1..Len(s) : a[k] = s[k]
  BY HeadTailProperties
<1>3. /\ Len(Tail(next)) = Len(next) - 1 /\ Len(next) \in Nat \ {0}
      /\ \A k \in 1..Len(Tail(next)) : Tail(next)[k] = next[k + 1]
  OBVIOUS
<1>4. ReadBack(a, Tail(next))
  <2> SUFFICES ASSUME NEW i \in 1..Len(a), a[i].t = "set", ~Contains(Tail(next), Get)
      PROVE  \E j \in (i + 1)..Len(a) : a[j] = Get
    BY DEF ReadBack
  <2> HIDE DEF a
  <2>1. \A k \in 2..Len(next) : next[k] # Get
    <3> SUFFICES ASSUME NEW k \in 2..Len(next), next[k] = Get PROVE FALSE
      OBVIOUS
    <3>1. k - 1 \in 1..Len(Tail(next)) /\ Tail(next)[k - 1] = Get
      BY <1>3
    <3>2. QED BY <3>1 DEF Contains
  <2>2. CASE i = Len(a)
    <3>1. 1 \in 1..Len(next) /\ next[1].t = "set"
      BY <1>2, <1>3, <2>2
    <3>2. ~Contains(<<>>, Get)
      BY DEF Contains
    <3>3. \E j \in (1 + 1)..Len(next) : next[j] = Get
      BY <3>1, <3>2 DEF ReadBack
    <3>4. QED BY <2>1, <3>3
  <2>3. CASE i # Len(a)
    <3>1. i \in 1..Len(s) /\ s[i].t = "set"
      BY <1>2, <2>3
    <3>2. (\E j \in (i + 1)..Len(s) : s[j] = Get) \/ Contains(next, Get)
      BY <3>1 DEF ReadBack
    <3>3. CASE Contains(next, Get)
      <4>1. next[1] = Get
        BY <1>3, <2>1, <3>3 DEF Contains
      <4>2. QED BY <1>2, <3>1, <4>1
    <3>4. CASE \E j \in (i + 1)..Len(s) : s[j] = Get
      BY <1>2, <3>4
    <3>5. QED BY <3>2, <3>3, <3>4
  <2>4. QED BY <2>2, <2>3
<1>5. QED BY <1>1, <1>4

\* Confirmations put before what is to be sent.
LEMMA ReadBackConfirms ==
    ASSUME NEW s \in Seq(Commands), NEW c \in Seq({Confirm}), ReadBack(s, <<>>)
    PROVE  ReadBack(c \o s, <<>>) /\ (Contains(s, Get) => Contains(c \o s, Get))
<1> DEFINE a == c \o s
<1>1. /\ Len(a) = Len(c) + Len(s) /\ Len(c) \in Nat /\ Len(s) \in Nat
      /\ \A k \in 1..Len(a) : a[k] = IF k <= Len(c) THEN Confirm ELSE s[k - Len(c)]
  OBVIOUS
<1> HIDE DEF a
<1>2. ReadBack(a, <<>>)
  <2> SUFFICES ASSUME NEW i \in 1..Len(a), a[i].t = "set"
      PROVE  \E j \in (i + 1)..Len(a) : a[j] = Get
    BY DEF ReadBack
  <2>1. i > Len(c)
    BY <1>1, Apart
  <2>2. i - Len(c) \in 1..Len(s) /\ s[i - Len(c)].t = "set"
    BY <1>1, <2>1
  <2>3. ~Contains(<<>>, Get)
    BY DEF Contains
  <2>4. PICK j \in ((i - Len(c)) + 1)..Len(s) : s[j] = Get
    BY <2>2, <2>3 DEF ReadBack
  <2>5. j + Len(c) \in (i + 1)..Len(a) /\ a[j + Len(c)] = Get
    BY <1>1, <2>1, <2>4
  <2>6. QED BY <2>5
<1>3. ASSUME Contains(s, Get) PROVE Contains(a, Get)
  <2>1. PICK j \in 1..Len(s) : s[j] = Get
    BY <1>3 DEF Contains
  <2>2. j + Len(c) \in 1..Len(a) /\ a[j + Len(c)] = Get
    BY <1>1, <2>1
  <2>3. QED BY <2>2 DEF Contains
<1>4. QED BY <1>2, <1>3 DEF a

\* What still has to be sent may change, if a read stays in it.
LEMMA ReadBackNext ==
    ASSUME NEW s, NEW next, NEW after, ReadBack(s, next),
           Contains(next, Get) => Contains(after, Get)
    PROVE  ReadBack(s, after)
BY DEF ReadBack

LEMMA NotEmpty ==
    \A x : ~Contains(<<>>, x)
BY DEF Contains

\* What a drain does to the commands left to send.
LEMMA DrainedTodo ==
    ASSUME MdrTypeOK, NEW frames \in Seq(Frames), Drained(frames), ReadBack(mdrTodo, <<>>)
    PROVE  ReadBack(mdrTodo', <<>>) /\ (Contains(mdrTodo, Get) => Contains(mdrTodo', Get))
<1>1. CASE mdrCall.cmd = Confirm
  BY <1>1 DEF Drained
<1>2. CASE mdrCall.cmd # Confirm
  <2> DEFINE c == [i \in 1..Len(Alerts(frames)) |-> Confirm]
  <2>1. c \in Seq({Confirm})
    BY DrawnType
  <2>2. mdrTodo' = c \o mdrTodo
    BY <1>2 DEF Drained
  <2> HIDE DEF c
  <2>3. QED BY <2>1, <2>2, ReadBackConfirms DEF MdrTypeOK
<1>3. QED BY <1>1, <1>2

LEMMA ReadBackInit == MdrInit => WritesAreReadBack
BY ReadBackEmpty DEF MdrInit, WritesAreReadBack

LEMMA ReadBackStep == MdrTypeOK /\ WritesAreReadBack /\ [MdrNext]_mdrVars => WritesAreReadBack'
<1> SUFFICES ASSUME MdrTypeOK, WritesAreReadBack, [MdrNext]_mdrVars, "ignored" \notin mdrTrouble'
    PROVE  ReadBack(mdrAsked, mdrTodo)' /\ ReadBack(mdrTodo, <<>>)'
  BY DEF WritesAreReadBack
<1>1. "ignored" \notin mdrTrouble
  BY DEF MdrNext, MdrConnect, Refresh, Begin, MdrDisconnect, LinkLost, HangUp, Write, Touch, WriteGated,
       Host, Send, ReadAck, ReadData, ReadAlert, Quiet, Deadline, Untouched, Headset, HandleGet,
       HandleSet, HandleGate, HandleConfirm, DialogExpires, MdrIgnore, mdrVars
<1>2. ReadBack(mdrAsked, mdrTodo) /\ ReadBack(mdrTodo, <<>>)
  BY <1>1 DEF WritesAreReadBack
<1>3. ASSUME mdrTodo' = mdrTodo, mdrAsked' = mdrAsked
      PROVE  ReadBack(mdrAsked, mdrTodo)' /\ ReadBack(mdrTodo, <<>>)'
  BY <1>2, <1>3
<1>4. ASSUME mdrTodo' = mdrTodo, mdrAsked # <<>>, mdrAsked' = Tail(mdrAsked)
      PROVE  ReadBack(mdrAsked, mdrTodo)' /\ ReadBack(mdrTodo, <<>>)'
  BY <1>2, <1>4, ReadBackTail DEF MdrTypeOK
<1>5. ASSUME mdrTodo = <<>>, mdrAsked' = mdrAsked, ReadBack(mdrTodo', <<>>)
      PROVE  ReadBack(mdrAsked, mdrTodo)' /\ ReadBack(mdrTodo, <<>>)'
  <2>1. ReadBack(mdrAsked, mdrTodo')
    BY <1>2, <1>5, NotEmpty, ReadBackNext
  <2>2. QED BY <1>5, <2>1
<1>6. ASSUME NEW frames \in Seq(Frames), Drained(frames), mdrAsked' = mdrAsked
      PROVE  ReadBack(mdrAsked, mdrTodo)' /\ ReadBack(mdrTodo, <<>>)'
  <2>1. ReadBack(mdrTodo', <<>>) /\ (Contains(mdrTodo, Get) => Contains(mdrTodo', Get))
    BY <1>2, <1>6, DrainedTodo
  <2>2. ReadBack(mdrAsked, mdrTodo')
    BY <1>2, <2>1, ReadBackNext
  <2>3. QED BY <1>6, <2>1, <2>2
<1>7. CASE MdrConnect \/ Refresh
  <2>1. ReadBack(<<Get>>, <<>>)
    BY Apart DEF ReadBack
  <2>2. CASE MdrConnect
    <3>1. mdrTodo' = <<Get>> /\ mdrAsked' = mdrAsked
      BY <2>2 DEF MdrConnect
    <3>2. Contains(<<Get>>, Get)
      BY DEF Contains
    <3>3. ReadBack(mdrAsked, mdrTodo')
      BY <1>2, <3>1, <3>2, ReadBackNext
    <3>4. QED BY <2>1, <3>1, <3>3
  <2>3. CASE Refresh
    BY <1>5, <2>1, <2>3 DEF Refresh, Begin, Idle
  <2>4. QED BY <1>7, <2>2, <2>3
<1>8. ASSUME NEW f \in Fields, NEW v \in Levels, Write(f, v)
      PROVE  ReadBack(mdrAsked, mdrTodo)' /\ ReadBack(mdrTodo, <<>>)'
  <2>1. \A m : ReadBack(<<Set(m, f), Get>>, <<>>)
    BY Apart DEF ReadBack
  <2>2. QED BY <1>5, <1>8, <2>1 DEF Write, Begin, Idle
<1>9. ASSUME NEW v \in Levels, WriteGated(v)
      PROVE  ReadBack(mdrAsked, mdrTodo)' /\ ReadBack(mdrTodo, <<>>)'
  <2>1. ReadBack(<<Gate(v)>>, <<>>)
    BY Apart DEF ReadBack
  <2>2. QED BY <1>5, <1>9, <2>1 DEF WriteGated, Begin, Idle
<1>10. CASE MdrDisconnect \/ LinkLost
  BY <1>10, ReadBackEmpty DEF MdrDisconnect, LinkLost, HangUp
<1>11. ASSUME NEW f \in Fields, NEW v \in Levels, Touch(f, v)
       PROVE  ReadBack(mdrAsked, mdrTodo)' /\ ReadBack(mdrTodo, <<>>)'
  BY <1>3, <1>11 DEF Touch
<1>12. CASE Send
  <2>1. /\ mdrTodo # <<>> /\ mdrAsked' = Append(mdrAsked, Head(mdrTodo))
        /\ mdrTodo' = Tail(mdrTodo)
    BY <1>12 DEF Send
  <2>2. QED BY <1>2, <2>1, ReadBackSend DEF MdrTypeOK
<1>13. CASE ReadAck
  BY <1>3, <1>13 DEF ReadAck
<1>14. CASE ReadData
  <2>1. Append(mdrInbox, Head(mdrPipe)) \in Seq(Frames)
    BY <1>14 DEF ReadData, MdrTypeOK
  <2>2. CASE Drained(Append(mdrInbox, Head(mdrPipe)))
    BY <1>6, <1>14, <2>1, <2>2 DEF ReadData
  <2>3. QED BY <1>3, <1>14, <2>2 DEF ReadData, EndCall
<1>15. CASE ReadAlert
  <2>1. mdrTodo' = mdrTodo /\ mdrAsked' = Append(mdrAsked, Confirm)
    BY <1>15 DEF ReadAlert, MdrReply
  <2>2. Confirm \in Commands /\ Confirm.t # "set" /\ mdrAsked \in Seq(Commands)
    BY CommandsAre, Apart DEF MdrTypeOK
  <2>3. QED BY <1>2, <2>1, <2>2, ReadBackAppend
<1>16. CASE Quiet \/ Deadline
  <2>1. mdrInbox \in Seq(Frames) /\ mdrAsked' = mdrAsked /\ Drained(mdrInbox)
    BY <1>16 DEF Quiet, Deadline, EndCall, MdrTypeOK
  <2>2. QED BY <1>6, <2>1
<1>17. CASE Headset
  BY <1>4, <1>17 DEF Headset, HandleGet, HandleSet, HandleGate, HandleConfirm, Handle
<1>18. CASE DialogExpires
  BY <1>3, <1>18 DEF DialogExpires
<1>19. CASE MdrIgnore
  BY <1>4, <1>19 DEF MdrIgnore
<1>20. CASE UNCHANGED mdrVars
  BY <1>3, <1>20 DEF mdrVars
<1>21. QED
  BY <1>7, <1>8, <1>9, <1>10, <1>11, <1>12, <1>13, <1>14, <1>15, <1>16, <1>17, <1>18, <1>19, <1>20
     DEF MdrNext, Host

LEMMA ContainsAppend ==
    ASSUME NEW s \in Seq(Commands), NEW c \in Commands, NEW x
    PROVE  Contains(Append(s, c), x) <=> Contains(s, x) \/ c = x
<1> DEFINE a == Append(s, c)
<1>1. Len(a) = Len(s) + 1 /\ a[Len(a)] = c /\ \A k \in 1..Len(s) : a[k] = s[k]
  OBVIOUS
<1> HIDE DEF a
<1>2. Contains(a, x) <=> Contains(s, x) \/ c = x
  BY <1>1 DEF Contains
<1>3. QED BY <1>2 DEF a

LEMMA ContainsTail ==
    ASSUME NEW s \in Seq(Commands), s # <<>>, NEW x
    PROVE  Contains(s, x) <=> Head(s) = x \/ Contains(Tail(s), x)
<1>1. /\ Len(Tail(s)) = Len(s) - 1 /\ Len(s) \in Nat \ {0} /\ Head(s) = s[1]
      /\ \A k \in 1..Len(Tail(s)) : Tail(s)[k] = s[k + 1]
  OBVIOUS
<1>2. ASSUME Contains(s, x), Head(s) # x PROVE Contains(Tail(s), x)
  <2>1. PICK k \in 1..Len(s) : s[k] = x
    BY <1>2 DEF Contains
  <2>2. k - 1 \in 1..Len(Tail(s)) /\ Tail(s)[k - 1] = x
    BY <1>1, <1>2, <2>1
  <2>3. QED BY <2>2 DEF Contains
<1>3. ASSUME Contains(Tail(s), x) PROVE Contains(s, x)
  <2>1. PICK k \in 1..Len(Tail(s)) : Tail(s)[k] = x
    BY <1>3 DEF Contains
  <2>2. k + 1 \in 1..Len(s) /\ s[k + 1] = x
    BY <1>1, <2>1
  <2>3. QED BY <2>2 DEF Contains
<1>4. ASSUME Head(s) = x PROVE Contains(s, x)
  BY <1>1, <1>4 DEF Contains
<1>5. QED BY <1>2, <1>3, <1>4

\* What the frames report, in their order.
News(frames) == [i \in 1..Len(Reports(frames)) |-> Reports(frames)[i].val]

LEMMA NewsType ==
    ASSUME NEW frames \in Seq(Frames)
    PROVE  News(frames) \in Seq(Messages) /\ Len(News(frames)) = Len(Reports(frames))
<1>1. Reports(frames) \in Seq(Told)
  BY DrawnType
<1>2. \A i \in 1..Len(Reports(frames)) : Reports(frames)[i].val \in Messages
  <2>1. \A x \in Told : x.val \in Messages
    BY DEF Told
  <2>2. \A i \in 1..Len(Reports(frames)) : Reports(frames)[i] \in Told
    BY <1>1
  <2>3. QED BY <2>1, <2>2
<1>3. QED BY <1>1, <1>2 DEF News

LEMMA NewsOfNothing == News(<<>>) = <<>>
<1>1. Reports(<<>>) = <<>>
  BY FilteredEmpty, Zenon DEF Reports
<1>2. QED BY <1>1 DEF News

LEMMA NewsConcat ==
    ASSUME NEW a \in Seq(Frames), NEW b \in Seq(Frames)
    PROVE  News(a \o b) = News(a) \o News(b)
<1> DEFINE ra == Reports(a)
           rb == Reports(b)
           rab == Reports(a \o b)
<1>0. a \o b \in Seq(Frames)
  BY ConcatProperties
<1>1. rab = ra \o rb
  <2>1. Filtered(a \o b, Told) = Filtered(a, Told) \o Filtered(b, Told)
    BY FilteredConcat
  <2>2. QED BY <2>1, Zenon DEF Reports
<1>2. ra \in Seq(Told) /\ rb \in Seq(Told)
  BY DrawnType
<1> HIDE DEF ra, rb, rab
<1>3. Len(rab) = Len(ra) + Len(rb) /\ Len(ra) \in Nat /\ Len(rb) \in Nat
  BY <1>1, <1>2
<1>4. \A i \in 1..Len(rab) : rab[i] = IF i <= Len(ra) THEN ra[i] ELSE rb[i - Len(ra)]
  BY <1>1, <1>2
<1>5. /\ News(a) = [i \in 1..Len(ra) |-> ra[i].val] /\ News(b) = [i \in 1..Len(rb) |-> rb[i].val]
      /\ News(a \o b) = [i \in 1..Len(rab) |-> rab[i].val]
  BY DEF News, ra, rb, rab
<1> DEFINE na == News(a)
           nb == News(b)
           nab == News(a \o b)
<1>6. na \in Seq(Messages) /\ nb \in Seq(Messages) /\ nab \in Seq(Messages)
  BY <1>0, NewsType
<1>7. /\ Len(na) = Len(ra) /\ Len(nb) = Len(rb) /\ Len(nab) = Len(rab)
  BY <1>0, NewsType DEF ra, rb, rab
<1>8. /\ \A i \in 1..Len(ra) : na[i] = ra[i].val
      /\ \A i \in 1..Len(rb) : nb[i] = rb[i].val
      /\ \A i \in 1..Len(rab) : nab[i] = rab[i].val
  BY <1>5
<1> HIDE DEF na, nb, nab
<1>9. na \o nb \in Seq(Messages) /\ Len(na \o nb) = Len(nab)
  BY <1>3, <1>6, <1>7
<1>10. \A i \in 1..Len(nab) : nab[i] = (na \o nb)[i]
  <2> TAKE i \in 1..Len(nab)
  <2>1. CASE i <= Len(ra)
    BY <1>3, <1>4, <1>6, <1>7, <1>8, <2>1
  <2>2. CASE ~(i <= Len(ra))
    <3>1. i - Len(ra) \in 1..Len(rb) /\ nab[i] = rb[i - Len(ra)].val
      BY <1>3, <1>4, <1>7, <1>8, <2>2
    <3>2. nab[i] = nb[i - Len(na)]
      BY <1>7, <1>8, <3>1
    <3>3. QED BY <1>3, <1>6, <1>7, <2>2, <3>1, <3>2
  <2>3. QED BY <2>1, <2>2
<1>11. nab = na \o nb
  BY <1>6, <1>9, <1>10, SeqEqual
<1>12. QED BY <1>11 DEF na, nb, nab

LEMMA NewsOfOne ==
    ASSUME NEW x \in Frames
    PROVE  News(<<x>>) = IF x \in Told THEN <<x.val>> ELSE <<>>
<1>1. Reports(<<x>>) = IF x \in Told THEN <<x>> ELSE <<>>
  BY FilteredOfOne, Zenon DEF Reports
<1>2. CASE x \in Told
  <2>1. Reports(<<x>>) = <<x>>
    BY <1>1, <1>2
  <2>2. <<x>> \in Seq(Frames)
    OBVIOUS
  <2>3. Len(News(<<x>>)) = 1 /\ News(<<x>>) \in Seq(Messages)
    BY <2>1, <2>2, NewsType
  <2>4. News(<<x>>)[1] = x.val
    BY <2>1 DEF News
  <2>5. News(<<x>>) = <<x.val>>
    BY <2>3, <2>4
  <2>6. QED BY <1>2, <2>5
<1>3. CASE x \notin Told
  <2>1. Reports(<<x>>) = <<>>
    BY <1>1, <1>3
  <2>2. QED BY <1>3, <2>1 DEF News
<1>4. QED BY <1>2, <1>3

\* The last word is the last of the news, or what is shown where there is none.
LEMMA LastWordIs ==
    ASSUME NEW frames \in Seq(Frames), NEW view
    PROVE  LastWord(view, frames) =
               IF News(frames) = <<>> THEN view ELSE News(frames)[Len(News(frames))]
<1>1. Reports(frames) \in Seq(Told) /\ Len(News(frames)) = Len(Reports(frames))
  BY DrawnType, NewsType
<1>2. CASE Reports(frames) = <<>>
  BY <1>2 DEF LastWord, News
<1>3. CASE Reports(frames) # <<>>
  <2>1. Len(Reports(frames)) \in 1..Len(Reports(frames))
    BY <1>1, <1>3
  <2>2. News(frames)[Len(News(frames))] = Last(Reports(frames)).val
    BY <1>1, <2>1 DEF News, Last
  <2>3. News(frames) # <<>>
    BY <1>1, <2>1, NewsType
  <2>4. QED BY <1>3, <2>2, <2>3 DEF LastWord
<1>4. QED BY <1>2, <1>3

-----------------------------------------------------------------------------
(* The page follows the headset: what each step does to the reports on their way. *)

Coming == News(mdrInbox \o mdrPipe)

ComingStays == UNCHANGED <<mdrView, Coming>>

ComingIsDelivered ==
    \E n \in 1..Len(Coming) :
        mdrView' = Coming[n] /\ Coming' = SubSeq(Coming, n + 1, Len(Coming))

LEMMA ComingType ==
    ASSUME MdrTypeOK
    PROVE  mdrInbox \o mdrPipe \in Seq(Frames) /\ Coming \in Seq(Messages)
<1>1. mdrInbox \o mdrPipe \in Seq(Frames)
  BY ConcatProperties DEF MdrTypeOK
<1>2. QED BY <1>1, NewsType DEF Coming

\* Frames sent come after those on their way.
LEMMA ComingGrows ==
    ASSUME MdrTypeOK, NEW y \in Seq(Frames), mdrPipe' = mdrPipe \o y, mdrInbox' = mdrInbox
    PROVE  Coming' = Coming \o News(y)
<1>1. mdrInbox \in Seq(Frames) /\ mdrPipe \in Seq(Frames)
  BY DEF MdrTypeOK
<1>2. mdrInbox \o (mdrPipe \o y) = (mdrInbox \o mdrPipe) \o y
  BY <1>1, ConcatAssociative
<1>3. News((mdrInbox \o mdrPipe) \o y) = News(mdrInbox \o mdrPipe) \o News(y)
  BY ComingType, NewsConcat, Zenon
<1>4. QED BY <1>2, <1>3, Zenon DEF Coming

LEMMA NewsOfTwo ==
    ASSUME NEW x \in Frames, NEW y \in Frames
    PROVE  News(<<x, y>>) = News(<<x>>) \o News(<<y>>)
<1>1. <<x>> \in Seq(Frames) /\ <<y>> \in Seq(Frames)
  OBVIOUS
<1>2. <<x, y>> = <<x>> \o <<y>>
  <2> DEFINE p == <<x>> \o <<y>>
             q == <<x, y>>
  <2>1. p \in Seq(Frames) /\ q \in Seq(Frames)
    BY <1>1, ConcatProperties
  <2>2. Len(p) = 2 /\ Len(q) = 2 /\ p[1] = x /\ p[2] = y /\ q[1] = x /\ q[2] = y
    BY <1>1
  <2> HIDE DEF p, q
  <2>3. \A i \in 1..Len(p) : p[i] = q[i]
    <3> TAKE i \in 1..Len(p)
    <3>1. i = 1 \/ i = 2
      BY <2>2
    <3>2. QED BY <2>2, <3>1
  <2>4. p = q
    BY <2>1, <2>2, <2>3, SeqEqual
  <2>5. QED BY <2>4 DEF p, q
<1>3. News(<<x>> \o <<y>>) = News(<<x>>) \o News(<<y>>)
  BY <1>1, NewsConcat
<1>4. QED BY <1>2, <1>3, Zenon

LEMMA NewsOfAcks ==
    /\ News(<<Ack>>) = <<>> /\ News(<<Alert>>) = <<>> /\ News(<<Ack, Alert>>) = <<>>
    /\ \A x \in Told : News(<<x>>) = <<x.val>> /\ News(<<Ack, x>>) = <<x.val>>
<1>1. News(<<Ack>>) = <<>> /\ News(<<Alert>>) = <<>>
  BY FramesAre, NewsOfOne
<1>2. <<>> \o <<>> = <<>>
  OBVIOUS
<1>3. News(<<Ack, Alert>>) = <<>>
  BY <1>1, <1>2, FramesAre, NewsOfTwo, Zenon
<1>4. ASSUME NEW x \in Told PROVE News(<<x>>) = <<x.val>> /\ News(<<Ack, x>>) = <<x.val>>
  <2>1. News(<<x>>) = <<x.val>>
    BY FramesAre, NewsOfOne
  <2>2. <<>> \o <<x.val>> = <<x.val>>
    OBVIOUS
  <2>3. News(<<Ack, x>>) = <<x.val>>
    BY <1>1, <2>1, <2>2, FramesAre, NewsOfTwo, Zenon
  <2>4. QED BY <2>1, <2>3
<1>5. QED BY <1>1, <1>3, <1>4

\* The first frame is that of the pipe, and those after it.
LEMMA FirstFrame ==
    ASSUME MdrTypeOK, mdrPipe # <<>>
    PROVE  /\ Head(mdrPipe) \in Frames /\ Tail(mdrPipe) \in Seq(Frames)
           /\ Append(mdrInbox, Head(mdrPipe)) \in Seq(Frames)
           /\ mdrPipe = <<Head(mdrPipe)>> \o Tail(mdrPipe)
           /\ Append(mdrInbox, Head(mdrPipe)) \o Tail(mdrPipe) = mdrInbox \o mdrPipe
<1> DEFINE x == Head(mdrPipe)
           t == Tail(mdrPipe)
<1>1. mdrInbox \in Seq(Frames) /\ mdrPipe \in Seq(Frames)
  BY DEF MdrTypeOK
<1>2. x \in Frames /\ t \in Seq(Frames) /\ mdrPipe = <<x>> \o t
  BY <1>1
<1> HIDE DEF x, t
<1>3. Append(mdrInbox, x) = mdrInbox \o <<x>> /\ Append(mdrInbox, x) \in Seq(Frames)
  BY <1>1, <1>2, AppendIsConcat
<1>4. <<x>> \in Seq(Frames)
  BY <1>2
<1>5. (mdrInbox \o <<x>>) \o t = mdrInbox \o (<<x>> \o t)
  BY <1>1, <1>2, <1>4, ConcatAssociative
<1>6. Append(mdrInbox, x) \o t = mdrInbox \o mdrPipe
  BY <1>2, <1>3, <1>5, Zenon
<1>7. QED BY <1>2, <1>3, <1>6 DEF x, t

\* An acknowledgement or an alert that is read was no news.
LEMMA ComingSkips ==
    ASSUME MdrTypeOK, mdrPipe # <<>>, News(<<Head(mdrPipe)>>) = <<>>,
           mdrPipe' = Tail(mdrPipe), mdrInbox' = mdrInbox
    PROVE  Coming' = Coming
<1> DEFINE x == Head(mdrPipe)
           t == Tail(mdrPipe)
<1>1. mdrInbox \in Seq(Frames) /\ mdrPipe \in Seq(Frames)
  BY DEF MdrTypeOK
<1>2. x \in Frames /\ t \in Seq(Frames) /\ mdrPipe = <<x>> \o t
  BY FirstFrame
<1>3. News(<<x>>) = <<>> /\ mdrPipe' = t
  OBVIOUS
<1> HIDE DEF x, t
<1>4. <<x>> \in Seq(Frames) /\ News(t) \in Seq(Messages)
  BY <1>2, NewsType
<1>5. News(<<x>> \o t) = News(<<x>>) \o News(t)
  BY <1>2, <1>4, NewsConcat, Zenon
<1>6. <<>> \o News(t) = News(t)
  BY <1>4, ConcatEmptySeq
<1>7. News(mdrPipe) = News(t)
  BY <1>2, <1>3, <1>5, <1>6, Zenon
<1>8. /\ News(mdrInbox \o mdrPipe) = News(mdrInbox) \o News(mdrPipe)
      /\ News(mdrInbox \o t) = News(mdrInbox) \o News(t)
  BY <1>1, <1>2, NewsConcat, Zenon
<1>9. QED BY <1>3, <1>7, <1>8, Zenon DEF Coming

\* A drain delivers every report it finds, in order: the page shows the last of them.
LEMMA DrainDelivers ==
    ASSUME MdrTypeOK, NEW frames \in Seq(Frames), NEW rest \in Seq(Frames),
           frames \o rest = mdrInbox \o mdrPipe, mdrPipe' = rest, Drained(frames)
    PROVE  ComingStays \/ ComingIsDelivered
<1> DEFINE nf == News(frames)
           nr == News(rest)
<1>1. Coming = nf \o nr
  BY NewsConcat, Zenon DEF Coming
<1>2. nf \in Seq(Messages) /\ nr \in Seq(Messages)
  BY NewsType
<1>3. CASE mdrCall.cmd = Confirm
  <2>1. mdrInbox' = frames /\ mdrView' = mdrView
    BY <1>3 DEF Drained
  <2>2. QED BY <2>1, Zenon DEF ComingStays, Coming
<1>4. CASE mdrCall.cmd # Confirm
  <2>1. mdrInbox' = <<>> /\ mdrView' = LastWord(mdrView, frames)
    BY <1>4 DEF Drained, LastWord
  <2>2. Coming' = nr
    <3>1. <<>> \o rest = rest
      BY ConcatEmptySeq
    <3>2. QED BY <2>1, <3>1, Zenon DEF Coming
  <2>3. mdrView' = IF nf = <<>> THEN mdrView ELSE nf[Len(nf)]
    BY <2>1, LastWordIs
  <2> HIDE DEF nf, nr
  <2>4. CASE nf = <<>>
    <3>1. <<>> \o nr = nr
      BY <1>2, ConcatEmptySeq
    <3>2. QED BY <1>1, <2>2, <2>3, <2>4, <3>1, Zenon DEF ComingStays
  <2>5. CASE nf # <<>>
    <3> DEFINE n == Len(nf)
    <3>1. /\ n \in 1..Len(Coming) /\ Coming[n] = nf[n]
          /\ SubSeq(Coming, n + 1, Len(Coming)) = nr
      <4>1. n \in Nat \ {0} /\ Len(nf \o nr) = n + Len(nr) /\ Len(nr) \in Nat
        BY <1>2, <2>5
      <4>2. (nf \o nr)[n] = nf[n]
        BY <1>2, <4>1
      <4> DEFINE c == nf \o nr
                 u == SubSeq(c, n + 1, Len(c))
      <4>3. c \in Seq(Messages) /\ n \in 1..Len(c)
        BY <1>2, <4>1
      <4>4. u \in Seq(Messages) /\ Len(u) = Len(nr)
        BY <4>1, <4>3
      <4>5. \A i \in 1..Len(u) : u[i] = nr[i]
        BY <1>2, <4>1, <4>3, <4>4
      <4>6. u = nr
        <5> HIDE DEF u
        <5>1. QED BY <1>2, <4>4, <4>5, SeqEqual
      <4>7. QED BY <1>1, <4>1, <4>2, <4>6
    <3>2. QED BY <2>2, <2>3, <2>5, <3>1 DEF ComingIsDelivered
  <2>6. QED BY <2>4, <2>5
<1>5. QED BY <1>3, <1>4
\* What a step does to the headset, the reports on their way and the page, action by action.
LEMMA HandleGetReports ==
    ASSUME MdrTypeOK, HandleGet
    PROVE  mdrView' = mdrView /\ mdrHw' = mdrHw /\ Coming' = Append(Coming, mdrHw)
<1>1. /\ mdrPipe' = mdrPipe \o <<Ack, State("ret")>> /\ mdrInbox' = mdrInbox
      /\ mdrView' = mdrView /\ mdrHw' = mdrHw
  BY DEF HandleGet
<1>2. State("ret") \in Told /\ State("ret").val = mdrHw /\ mdrHw \in Messages
  BY FramesAre DEF State, MdrTypeOK
<1>3. <<Ack, State("ret")>> \in Seq(Frames)
  BY <1>2, FramesAre
<1>4. News(<<Ack, State("ret")>>) = <<mdrHw>>
  BY <1>2, NewsOfAcks
<1>5. Coming' = Coming \o <<mdrHw>>
  BY <1>1, <1>3, <1>4, ComingGrows
<1>6. Coming \o <<mdrHw>> = Append(Coming, mdrHw)
  BY <1>2, ComingType, AppendIsConcat
<1>7. QED BY <1>1, <1>5, <1>6

LEMMA HandleSetChanges ==
    ASSUME MdrTypeOK, HandleSet
    PROVE  mdrView' = mdrView /\ mdrHw' \in Messages /\ Coming' \in {Coming, Append(Coming, mdrHw')}
<1>1. PICK m \in Messages, f \in Fields :
        /\ Handle(Set(m, f))
        /\ mdrHw' = m
        /\ mdrPipe' \in {Append(mdrPipe, Ack), mdrPipe \o <<Ack, [t |-> "ntfy", val |-> m]>>}
        /\ UNCHANGED <<mdrInbox, mdrView, mdrTodo, mdrCall>> /\ Untouched
  BY DEF HandleSet
<1> DEFINE told == [t |-> "ntfy", val |-> m]
<1>2. told \in Told /\ told.val = m
  BY FramesAre
<1>3. Coming \in Seq(Messages) /\ mdrPipe \in Seq(Frames)
  BY ComingType DEF MdrTypeOK
<1>4. CASE mdrPipe' = Append(mdrPipe, Ack)
  <2>1. <<Ack>> \in Seq(Frames) /\ mdrPipe' = mdrPipe \o <<Ack>>
    BY <1>3, <1>4, FramesAre, AppendIsConcat
  <2>2. Coming' = Coming \o News(<<Ack>>)
    BY <1>1, <2>1, ComingGrows
  <2>3. Coming' = Coming
    BY <1>3, <2>2, NewsOfAcks, ConcatEmptySeq
  <2>4. QED BY <1>1, <2>3
<1>5. CASE mdrPipe' = mdrPipe \o <<Ack, told>>
  <2> HIDE DEF told
  <2>1. <<Ack, told>> \in Seq(Frames)
    BY <1>2, FramesAre
  <2>2. Coming' = Coming \o News(<<Ack, told>>)
    BY <1>1, <1>5, <2>1, ComingGrows
  <2>3. News(<<Ack, told>>) = <<m>>
    BY <1>2, NewsOfAcks
  <2>4. Coming \o <<m>> = Append(Coming, m)
    BY <1>3, AppendIsConcat
  <2>5. Coming' = Append(Coming, m)
    BY <2>2, <2>3, <2>4, Zenon
  <2>6. QED BY <1>1, <2>5
<1>6. QED BY <1>1, <1>4, <1>5

LEMMA TouchChanges ==
    ASSUME MdrTypeOK, NEW f \in Fields, NEW v \in Levels, Touch(f, v)
    PROVE  mdrView' = mdrView /\ mdrHw' \in Messages /\ Coming' = Append(Coming, mdrHw')
<1>1. mdrHw' \in Messages
  BY DEF Touch, Messages, MdrTypeOK
<1> DEFINE h == mdrHw'
           told == [t |-> "ntfy", val |-> h]
<1>2. told \in Told /\ told.val = h /\ told \in Frames
  BY <1>1, FramesAre
<1>3. mdrPipe' = Append(mdrPipe, told) /\ mdrInbox' = mdrInbox /\ mdrView' = mdrView
  BY DEF Touch
<1> HIDE DEF told, h
<1>4. Coming \in Seq(Messages) /\ mdrPipe \in Seq(Frames) /\ h \in Messages
  BY <1>1, ComingType DEF MdrTypeOK, h
<1>5. <<told>> \in Seq(Frames) /\ mdrPipe' = mdrPipe \o <<told>>
  BY <1>2, <1>3, <1>4, AppendIsConcat
<1>6. Coming' = Coming \o News(<<told>>)
  BY <1>3, <1>5, ComingGrows
<1>7. News(<<told>>) = <<h>>
  BY <1>2, NewsOfAcks
<1>8. Coming \o <<h>> = Append(Coming, h)
  BY <1>4, AppendIsConcat
<1>9. Coming' = Append(Coming, h)
  BY <1>6, <1>7, <1>8, Zenon
<1>10. QED BY <1>1, <1>3, <1>9 DEF h

LEMMA DialogIsNoNews ==
    ASSUME MdrTypeOK, HandleGate \/ HandleConfirm
    PROVE  ComingStays /\ mdrHw' = mdrHw
<1>1. Coming \in Seq(Messages) /\ mdrPipe \in Seq(Frames)
  BY ComingType DEF MdrTypeOK
<1>2. mdrInbox' = mdrInbox /\ mdrView' = mdrView /\ mdrHw' = mdrHw
  BY DEF HandleGate, HandleConfirm
<1>3. \E y \in Seq(Frames) : mdrPipe' = mdrPipe \o y /\ News(y) = <<>>
  <2>1. CASE HandleGate
    <3>1. <<Ack, Alert>> \in Seq(Frames)
      BY FramesAre
    <3>2. mdrPipe' = mdrPipe \o <<Ack, Alert>>
      BY <2>1 DEF HandleGate
    <3>3. QED BY <3>1, <3>2, NewsOfAcks, Zenon
  <2>2. CASE HandleConfirm
    <3>1. <<Ack>> \in Seq(Frames)
      BY FramesAre
    <3>2. mdrPipe' = mdrPipe \o <<Ack>>
      BY <1>1, <2>2, FramesAre, AppendIsConcat DEF HandleConfirm
    <3>3. QED BY <3>1, <3>2, NewsOfAcks, Zenon
  <2>3. QED BY <2>1, <2>2
<1>4. PICK y \in Seq(Frames) : mdrPipe' = mdrPipe \o y /\ News(y) = <<>>
  BY <1>3
<1>5. Coming' = Coming \o <<>>
  BY <1>2, <1>4, ComingGrows
<1>6. QED BY <1>1, <1>2, <1>5, ConcatEmptySeq DEF ComingStays

LEMMA HostDelivers ==
    ASSUME MdrTypeOK, Host
    PROVE  mdrHw' = mdrHw /\ (ComingStays \/ ComingIsDelivered)
<1>1. CASE Send
  <2>1. mdrInbox' = mdrInbox /\ mdrPipe' = mdrPipe /\ mdrView' = mdrView /\ mdrHw' = mdrHw
    BY <1>1 DEF Send
  <2>2. QED BY <2>1 DEF ComingStays, Coming
<1>2. CASE ReadAck
  <2>1. /\ mdrPipe # <<>> /\ Head(mdrPipe) = Ack /\ mdrPipe' = Tail(mdrPipe)
        /\ mdrInbox' = mdrInbox /\ mdrView' = mdrView /\ mdrHw' = mdrHw
    BY <1>2 DEF ReadAck
  <2>2. News(<<Head(mdrPipe)>>) = <<>>
    BY <2>1, NewsOfAcks
  <2>3. Coming' = Coming
    BY <2>1, <2>2, ComingSkips
  <2>4. QED BY <2>1, <2>3 DEF ComingStays
<1>3. CASE ReadAlert
  <2>1. /\ mdrPipe # <<>> /\ Head(mdrPipe) = Alert /\ mdrPipe' = Tail(mdrPipe)
        /\ mdrInbox' = mdrInbox /\ mdrView' = mdrView /\ mdrHw' = mdrHw
    BY <1>3 DEF ReadAlert
  <2>2. News(<<Head(mdrPipe)>>) = <<>>
    BY <2>1, NewsOfAcks
  <2>3. Coming' = Coming
    BY <2>1, <2>2, ComingSkips
  <2>4. QED BY <2>1, <2>3 DEF ComingStays
<1>4. CASE ReadData
  <2> DEFINE frames == Append(mdrInbox, Head(mdrPipe))
             rest == Tail(mdrPipe)
  <2>1. mdrPipe # <<>> /\ mdrPipe' = rest /\ mdrHw' = mdrHw
    BY <1>4 DEF ReadData
  <2>2. frames \in Seq(Frames) /\ rest \in Seq(Frames) /\ frames \o rest = mdrInbox \o mdrPipe
    BY <2>1, FirstFrame
  <2>3. Drained(frames) \/ (mdrInbox' = frames /\ mdrView' = mdrView)
    BY <1>4 DEF ReadData, EndCall
  <2> HIDE DEF frames, rest
  <2>4. CASE Drained(frames)
    BY <2>1, <2>2, <2>4, DrainDelivers
  <2>5. CASE mdrInbox' = frames /\ mdrView' = mdrView
    BY <2>1, <2>2, <2>5, Zenon DEF ComingStays, Coming
  <2>6. QED BY <2>1, <2>3, <2>4, <2>5
<1>5. CASE Quiet \/ Deadline
  <2>1. mdrPipe' = mdrPipe /\ mdrHw' = mdrHw /\ Drained(mdrInbox)
    BY <1>5 DEF Quiet, Deadline, EndCall
  <2>2. mdrInbox \in Seq(Frames) /\ mdrPipe \in Seq(Frames)
    BY DEF MdrTypeOK
  <2>3. QED BY <2>1, <2>2, DrainDelivers
<1>6. QED BY <1>1, <1>2, <1>3, <1>4, <1>5 DEF Host

\* The link goes down: what was on it is lost, and the page with it.
LEMMA HangUpDrops ==
    ASSUME MdrDisconnect \/ LinkLost
    PROVE  mdrHw' = mdrHw /\ mdrView' = Unread /\ Coming' = <<>>
<1>1. mdrHw' = mdrHw /\ mdrView' = Unread /\ mdrInbox' = <<>> /\ mdrPipe' = <<>>
  BY DEF MdrDisconnect, LinkLost, HangUp
<1>2. <<>> \o <<>> = <<>>
  OBVIOUS
<1>3. QED BY <1>1, <1>2, NewsOfNothing, Zenon DEF Coming

\* The rest leaves all three as they are.
LEMMA OthersStay ==
    ASSUME \/ MdrConnect \/ Refresh \/ DialogExpires \/ MdrIgnore \/ UNCHANGED mdrVars
           \/ \E f \in Fields, v \in Levels : Write(f, v)
           \/ \E v \in Levels : WriteGated(v)
    PROVE  ComingStays /\ mdrHw' = mdrHw
<1>1. mdrHw' = mdrHw /\ mdrView' = mdrView /\ mdrInbox' = mdrInbox /\ mdrPipe' = mdrPipe
  BY DEF MdrConnect, Refresh, DialogExpires, MdrIgnore, mdrVars, Write, WriteGated
<1>2. QED BY <1>1 DEF ComingStays, Coming

-----------------------------------------------------------------------------
(* The session implements the lagging view. *)

LEMMA LagInit == MdrInit => Lag!Init
<1> SUFFICES ASSUME MdrInit PROVE Lag!Init
  OBVIOUS
<1>1. mdrHw \in Messages /\ mdrView = Unread /\ mdrInbox = <<>> /\ mdrPipe = <<>>
  BY MdrTypeInit DEF MdrTypeOK, MdrInit
<1>2. <<>> \o <<>> = <<>>
  OBVIOUS
<1>3. Coming = <<>>
  BY <1>1, <1>2, NewsOfNothing, Zenon DEF Coming
<1>4. QED BY <1>1, <1>3 DEF Lag!Init, Coming, News

LEMMA LagStep == MdrTypeOK /\ [MdrNext]_mdrVars => [Lag!Next]_(Lag!lagVars)
<1> SUFFICES ASSUME MdrTypeOK, [MdrNext]_mdrVars PROVE Lag!Next \/ UNCHANGED Lag!lagVars
  OBVIOUS
<1>1. ASSUME mdrHw' = mdrHw, ComingStays PROVE UNCHANGED Lag!lagVars
  BY <1>1 DEF Lag!lagVars, ComingStays, Coming, News
<1>2. ASSUME mdrHw' = mdrHw, ComingIsDelivered PROVE Lag!Deliver
  BY <1>2 DEF Lag!Deliver, ComingIsDelivered, Coming, News
<1>3. ASSUME mdrHw' = mdrHw, mdrView' = mdrView, Coming' = Append(Coming, mdrHw)
      PROVE  Lag!Report
  BY <1>3 DEF Lag!Report, Coming, News
<1>4. ASSUME mdrHw' \in Messages, mdrView' = mdrView, Coming' \in {Coming, Append(Coming, mdrHw')}
      PROVE  Lag!Change
  BY <1>4 DEF Lag!Change, Coming, News
<1>5. ASSUME mdrHw' = mdrHw, mdrView' = Unread, Coming' = <<>> PROVE Lag!Drop
  BY <1>5 DEF Lag!Drop, Coming, News
<1>6. CASE Host
  BY <1>1, <1>2, <1>6, HostDelivers DEF Lag!Next
<1>7. CASE HandleGet
  BY <1>3, <1>7, HandleGetReports DEF Lag!Next
<1>8. CASE HandleSet
  BY <1>4, <1>8, HandleSetChanges DEF Lag!Next
<1>9. CASE HandleGate \/ HandleConfirm
  BY <1>1, <1>9, DialogIsNoNews
<1>10. ASSUME NEW f \in Fields, NEW v \in Levels, Touch(f, v) PROVE Lag!Change
  BY <1>4, <1>10, TouchChanges
<1>11. CASE MdrDisconnect \/ LinkLost
  BY <1>5, <1>11, HangUpDrops DEF Lag!Next
<1>12. CASE \/ MdrConnect \/ Refresh \/ DialogExpires \/ MdrIgnore \/ UNCHANGED mdrVars
            \/ \E f \in Fields, v \in Levels : Write(f, v)
            \/ \E v \in Levels : WriteGated(v)
  BY <1>1, <1>12, OthersStay
<1>13. QED BY <1>6, <1>7, <1>8, <1>9, <1>10, <1>11, <1>12 DEF MdrNext, Headset, Lag!Next

\* The page of a Sony headset is a view that lags behind an ordered link: every report is delivered
\* in order or lost with the link, and the page never goes back to an older value, whatever
\* deadlines pass and whatever answers come late (session.py:66-154, headphones.py:351-428).
THEOREM ViewCorrect == MdrSpec => ViewFollowsInOrder
<1>1. MdrSpec => Lag!Init /\ [][Lag!Next]_(Lag!lagVars)
  BY LagInit, LagStep, MdrTypeCorrect, PTL DEF MdrSpec
<1>2. QED BY <1>1 DEF ViewFollowsInOrder, Lag!Spec

-----------------------------------------------------------------------------
(* The last word. *)

LEMMA LastWordOf ==
    ASSUME MdrTypeOK
    PROVE  LastWord(mdrView, mdrInbox \o mdrPipe) =
               IF Coming = <<>> THEN mdrView ELSE Coming[Len(Coming)]
BY ComingType, LastWordIs DEF Coming

\* The same of the state after a step.
LEMMA LastWordAfter ==
    ASSUME MdrTypeOK'
    PROVE  LastWord(mdrView, mdrInbox \o mdrPipe)' =
               IF Coming' = <<>> THEN mdrView' ELSE Coming'[Len(Coming')]
<1> DEFINE q == mdrInbox' \o mdrPipe'
<1>1. q \in Seq(Frames)
  BY ConcatProperties DEF MdrTypeOK
<1>2. LastWord(mdrView, mdrInbox \o mdrPipe)' = LastWord(mdrView', q) /\ Coming' = News(q)
  BY DEF Coming
<1> HIDE DEF q
<1>3. LastWord(mdrView', q) = IF News(q) = <<>> THEN mdrView' ELSE News(q)[Len(News(q))]
  BY <1>1, LastWordIs
<1>4. QED BY <1>2, <1>3

\* A delivery changes what is shown, and not the last word.
LEMMA LastWordStays ==
    ASSUME MdrTypeOK, MdrTypeOK', ComingStays \/ ComingIsDelivered
    PROVE  LastWord(mdrView, mdrInbox \o mdrPipe)' = LastWord(mdrView, mdrInbox \o mdrPipe)
<1> DEFINE c == Coming
           d == Coming'
<1>1. c \in Seq(Messages)
  BY ComingType
<1>2. LastWord(mdrView, mdrInbox \o mdrPipe) = IF c = <<>> THEN mdrView ELSE c[Len(c)]
  BY LastWordOf
<1>3. LastWord(mdrView, mdrInbox \o mdrPipe)' = IF d = <<>> THEN mdrView' ELSE d[Len(d)]
  BY LastWordAfter
<1>4. CASE ComingStays
  BY <1>2, <1>3, <1>4, Zenon DEF ComingStays
<1>5. CASE ComingIsDelivered
  <2>1. PICK n \in 1..Len(c) : mdrView' = c[n] /\ d = SubSeq(c, n + 1, Len(c))
    BY <1>5 DEF ComingIsDelivered
  <2> HIDE DEF c, d
  <2>2. c # <<>>
    BY <1>1, <2>1
  <2>3. CASE n = Len(c)
    <3>1. d = <<>>
      BY <1>1, <2>1, <2>3
    <3>2. QED BY <1>2, <1>3, <2>1, <2>2, <2>3, <3>1
  <2>4. CASE n # Len(c)
    <3>1. /\ n + 1 \in Int /\ Len(c) \in Int /\ n \in Nat /\ n < Len(c)
          /\ \A i \in (n + 1)..Len(c) : c[i] \in Messages
      BY <1>1, <2>1, <2>4
    <3>2. /\ d \in Seq(Messages) /\ Len(d) = Len(c) - n
          /\ \A i \in 1..(Len(c) - (n + 1) + 1) : d[i] = c[(n + 1) + i - 1]
      BY <2>1, <3>1, SubSeqProperties
    <3>3. d[Len(d)] = c[Len(c)] /\ d # <<>>
      BY <3>1, <3>2
    <3>4. QED BY <1>2, <1>3, <2>2, <3>3
  <2>5. QED BY <2>3, <2>4
<1>6. QED BY <1>4, <1>5

\* A report of what the headset holds is the last word.
LEMMA LastWordReported ==
    ASSUME MdrTypeOK, MdrTypeOK', NEW h \in Messages, Coming' = Append(Coming, h)
    PROVE  LastWord(mdrView, mdrInbox \o mdrPipe)' = h
<1> DEFINE c == Coming
           d == Coming'
<1>1. c \in Seq(Messages) /\ d = Append(c, h)
  BY ComingType
<1>2. LastWord(mdrView, mdrInbox \o mdrPipe)' = IF d = <<>> THEN mdrView' ELSE d[Len(d)]
  BY LastWordAfter
<1> HIDE DEF c, d
<1>3. d # <<>> /\ d[Len(d)] = h
  BY <1>1
<1>4. QED BY <1>2, <1>3

Heard == MdrTypeOK /\ ClosedIsSilent /\ WritesAreReadBack /\ LastWordIsTrue

LEMMA LastWordInit == MdrInit => LastWordIsTrue
BY DEF MdrInit, LastWordIsTrue

LEMMA LastWordStep == Heard /\ MdrTypeOK' /\ [MdrNext]_mdrVars => LastWordIsTrue'
<1> DEFINE word == LastWord(mdrView, mdrInbox \o mdrPipe)
           Asking == Contains(mdrAsked, Get) \/ Contains(mdrTodo, Get)
<1> SUFFICES ASSUME Heard, MdrTypeOK', [MdrNext]_mdrVars, mdrLink' = "open",
                    "ignored" \notin mdrTrouble'
    PROVE  Asking' \/ word' = mdrHw'
  BY DEF LastWordIsTrue
<1> HIDE DEF word
<1>1. /\ "ignored" \notin mdrTrouble
      /\ MdrTypeOK /\ ReadBack(mdrAsked, mdrTodo) /\ ReadBack(mdrTodo, <<>>)
      /\ mdrAsked \in Seq(Commands) /\ mdrTodo \in Seq(Commands)
  <2>1. "ignored" \notin mdrTrouble
    BY DEF MdrNext, MdrConnect, Refresh, Begin, MdrDisconnect, LinkLost, HangUp, Write, Touch,
       WriteGated, Host, Send, ReadAck, ReadData, ReadAlert, Quiet, Deadline, Untouched, Headset,
       HandleGet, HandleSet, HandleGate, HandleConfirm, DialogExpires, MdrIgnore, mdrVars
  <2>2. QED BY <2>1 DEF Heard, WritesAreReadBack, MdrTypeOK
<1>2. mdrLink = "open" => Asking \/ word = mdrHw
  BY <1>1 DEF Heard, LastWordIsTrue, word
<1>3. ASSUME ComingStays \/ ComingIsDelivered PROVE word' = word
  BY <1>1, <1>3, LastWordStays DEF word
<1>4. CASE MdrConnect \/ Refresh
  <2>1. mdrTodo' = <<Get>>
    BY <1>4 DEF MdrConnect, Refresh, Begin
  <2>2. QED BY <2>1 DEF Contains
<1>5. ASSUME NEW f \in Fields, NEW v \in Levels, Write(f, v) PROVE Asking' \/ word' = mdrHw'
  <2>1. mdrTodo' = <<Set(Message(f, v), f), Get>>
    BY <1>5 DEF Write, Begin
  <2>2. Len(mdrTodo') = 2 /\ mdrTodo'[2] = Get
    BY <2>1
  <2>3. QED BY <2>2 DEF Contains
<1>6. ASSUME NEW v \in Levels, WriteGated(v) PROVE Asking' \/ word' = mdrHw'
  <2>1. mdrLink = "open" /\ mdrTodo = <<>> /\ mdrAsked' = mdrAsked
    BY <1>6 DEF WriteGated, Begin, Idle
  <2>2. word' = word /\ mdrHw' = mdrHw
    BY <1>3, <1>6, OthersStay
  <2>3. QED BY <1>2, <2>1, <2>2, NotEmpty
<1>7. ASSUME NEW f \in Fields, NEW v \in Levels, Touch(f, v) PROVE word' = mdrHw'
  <2>1. mdrHw' \in Messages /\ Coming' = Append(Coming, mdrHw')
    BY <1>1, <1>7, TouchChanges
  <2> DEFINE h == mdrHw'
  <2> HIDE DEF h
  <2>2. word' = h
    BY <1>1, <2>1, LastWordReported DEF word, h
  <2>3. QED BY <2>2 DEF h
<1>8. CASE MdrDisconnect \/ LinkLost
  BY <1>8 DEF MdrDisconnect, LinkLost, HangUp
<1>9. CASE Send
  <2>1. /\ mdrLink = "open" /\ mdrTodo # <<>> /\ mdrTodo' = Tail(mdrTodo)
        /\ mdrAsked' = Append(mdrAsked, Head(mdrTodo)) /\ Head(mdrTodo) \in Commands
    BY <1>1, <1>9, HeadTailProperties DEF Send
  <2>2. Asking => Asking'
    BY <1>1, <2>1, ContainsAppend, ContainsTail
  <2>3. word' = word /\ mdrHw' = mdrHw
    <3>1. mdrHw' = mdrHw /\ (ComingStays \/ ComingIsDelivered)
      BY <1>1, <1>9, HostDelivers DEF Host
    <3>2. QED BY <1>3, <3>1
  <2>4. QED BY <1>2, <2>1, <2>2, <2>3
<1>10. CASE Host /\ ~Send
  <2>1. mdrHw' = mdrHw /\ word' = word
    BY <1>1, <1>3, <1>10, HostDelivers
  <2>2. mdrLink = "open"
    BY <1>10 DEF Host, ReadAck, ReadData, ReadAlert, Quiet, Deadline, Asking, Heard, ClosedIsSilent,
                 MdrTypeOK
  <2>3. Contains(mdrAsked, Get) => Contains(mdrAsked', Get)
    <3>1. CASE ReadAlert
      <4>1. mdrAsked' = Append(mdrAsked, Confirm)
        BY <3>1 DEF ReadAlert, MdrReply
      <4>2. QED BY <1>1, <4>1, CommandsAre, ContainsAppend
    <3>2. CASE ~ReadAlert
      BY <1>10, <3>2 DEF Host, ReadAck, ReadData, Quiet, Deadline
    <3>3. QED BY <3>1, <3>2
  <2>4. Contains(mdrTodo, Get) => Contains(mdrTodo', Get)
    <3>1. ASSUME NEW frames \in Seq(Frames), Drained(frames)
          PROVE  Contains(mdrTodo, Get) => Contains(mdrTodo', Get)
      BY <1>1, <3>1, DrainedTodo
    <3>2. CASE ReadAck \/ ReadAlert
      BY <3>2 DEF ReadAck, ReadAlert
    <3>3. CASE Quiet \/ Deadline
      <4>1. mdrInbox \in Seq(Frames) /\ Drained(mdrInbox)
        BY <1>1, <3>3 DEF Quiet, Deadline, EndCall, MdrTypeOK
      <4>2. QED BY <3>1, <4>1
    <3>4. CASE ReadData
      <4> DEFINE frames == Append(mdrInbox, Head(mdrPipe))
      <4>1. mdrPipe # <<>> /\ (Drained(frames) \/ mdrTodo' = mdrTodo)
        BY <3>4 DEF ReadData, EndCall
      <4>2. frames \in Seq(Frames)
        BY <1>1, <4>1, FirstFrame
      <4> HIDE DEF frames
      <4>3. QED BY <3>1, <4>1, <4>2
    <3>5. QED BY <1>10, <3>2, <3>3, <3>4 DEF Host
  <2>5. QED BY <1>2, <2>1, <2>2, <2>3, <2>4
<1>11. CASE HandleGet
  <2>1. mdrHw' = mdrHw /\ Coming' = Append(Coming, mdrHw) /\ mdrHw \in Messages
    BY <1>1, <1>11, HandleGetReports DEF MdrTypeOK
  <2>2. word' = mdrHw
    BY <1>1, <2>1, LastWordReported DEF word
  <2>3. QED BY <2>1, <2>2
<1>12. CASE HandleSet
  <2>1. /\ mdrAsked # <<>> /\ Head(mdrAsked).t = "set" /\ mdrAsked' = Tail(mdrAsked)
        /\ mdrTodo' = mdrTodo
    BY <1>12, Apart DEF HandleSet, Handle
  <2>2. 1 \in 1..Len(mdrAsked) /\ mdrAsked[1].t = "set"
    BY <1>1, <2>1
  <2>3. (\E j \in (1 + 1)..Len(mdrAsked) : mdrAsked[j] = Get) \/ Contains(mdrTodo, Get)
    BY <1>1, <2>2 DEF ReadBack
  <2>4. ASSUME NEW j \in (1 + 1)..Len(mdrAsked), mdrAsked[j] = Get PROVE Contains(Tail(mdrAsked), Get)
    <3>1. Len(Tail(mdrAsked)) = Len(mdrAsked) - 1 /\ Tail(mdrAsked)[j - 1] = mdrAsked[j]
      BY <1>1, <2>1
    <3>2. j - 1 \in 1..Len(Tail(mdrAsked)) /\ Tail(mdrAsked)[j - 1] = Get
      BY <1>1, <2>4, <3>1
    <3>3. QED BY <3>2 DEF Contains
  <2>5. QED BY <2>1, <2>3, <2>4
<1>13. CASE HandleGate \/ HandleConfirm
  <2>1. /\ mdrAsked # <<>> /\ Head(mdrAsked) # Get /\ mdrAsked' = Tail(mdrAsked)
        /\ mdrTodo' = mdrTodo /\ mdrLink' = mdrLink
    BY <1>13, Apart DEF HandleGate, HandleConfirm, Handle
  <2>2. mdrHw' = mdrHw /\ word' = word
    BY <1>1, <1>3, <1>13, DialogIsNoNews
  <2>3. Contains(mdrAsked, Get) => Contains(mdrAsked', Get)
    BY <1>1, <2>1, ContainsTail
  <2>4. QED BY <1>2, <2>1, <2>2, <2>3
<1>14. CASE MdrIgnore
  BY <1>14 DEF MdrIgnore
<1>15. CASE DialogExpires \/ UNCHANGED mdrVars
  <2>1. mdrHw' = mdrHw /\ word' = word
    BY <1>3, <1>15, OthersStay
  <2>2. mdrAsked' = mdrAsked /\ mdrTodo' = mdrTodo /\ mdrLink' = mdrLink
    BY <1>15 DEF DialogExpires, mdrVars
  <2>3. QED BY <1>2, <2>1, <2>2
<1>16. QED
  BY <1>4, <1>5, <1>6, <1>7, <1>8, <1>9, <1>10, <1>11, <1>12, <1>13, <1>14, <1>15
     DEF MdrNext, Headset

\* Nothing a Sony headset says is lost: as long as it handles what it is sent, the page shows what
\* it holds, or a report of that is on its way, or a read is still to be answered, after whatever
\* deadlines, late answers and changes made on the headset (session.py:66-154,
\* headphones.py:351-428).
THEOREM LastWordCorrect == MdrSpec => []LastWordIsTheTruth
<1>1. MdrInit => Heard
  BY MdrTypeInit, ClosedInit, ReadBackInit, LastWordInit DEF Heard
<1>2. Heard /\ [MdrNext]_mdrVars => Heard'
  BY MdrTypeStep, ClosedStep, ReadBackStep, LastWordStep DEF Heard
<1>3. Heard => LastWordIsTheTruth
  <2>1. ReadIsComing <=> Contains(mdrAsked, Get) \/ Contains(mdrTodo, Get)
    BY DEF ReadIsComing
  <2>2. QED BY <2>1 DEF Heard, LastWordIsTrue, LastWordIsTheTruth, LastWord
<1>4. QED BY <1>1, <1>2, <1>3, PTL DEF MdrSpec

-----------------------------------------------------------------------------
(* Both links. *)

\* The link that is not connected keeps every variable it has.
LEMMA OtherLinkStays ==
    ASSUME LinksTypeOK, [LinksNext]_vars
    PROVE  [Next]_gnpVars /\ [MdrNext]_mdrVars
BY DEF LinksNext, vars

\* The sessions of both headsets, their queues and what is shown of them are what the rest of the
\* code takes them for (jabra session.py:96-231, sony session.py:66-174).
THEOREM LinksTypeCorrect == LinksSpec => []LinksTypeOK
<1>1. LinksInit => LinksTypeOK
  BY TypeInit, MdrTypeInit DEF LinksInit, LinksTypeOK
<1>2. LinksTypeOK /\ [LinksNext]_vars => LinksTypeOK'
  <2> SUFFICES ASSUME LinksTypeOK, [LinksNext]_vars PROVE LinksTypeOK'
    OBVIOUS
  <2>1. TypeOK' /\ MdrTypeOK'
    BY OtherLinkStays, TypeNext, MdrTypeStep DEF LinksTypeOK
  <2>2. QED BY <2>1 DEF LinksTypeOK
<1>3. QED BY <1>1, <1>2, PTL DEF LinksSpec
=============================================================================
