----------------------------- MODULE MdrSession -----------------------------
(***************************************************************************)
(* A Sony headset behind its RFCOMM link: Session.send_command and         *)
(* send_reboot_command, the operations of Headphones built from them, and  *)
(* SonyDevice, which serialises them under one lock.                       *)
(*                                                                         *)
(* One message of several fields stands for the settings that travel       *)
(* together (noise control, speak-to-chat, the equalizer bands); one gated *)
(* setting stands for those the device applies only after a dialog is      *)
(* confirmed, and then reboots.  The link is a stream: frames arrive in    *)
(* order and none is lost while it is up.                                  *)
(***************************************************************************)
EXTENDS Filtering, SequencesExt

CONSTANTS
    Fields,         \* the fields of the message
    Levels,         \* what a field holds
    Default,        \* the level written for a field never read
    Held,           \* the levels the headset starts with, the same for every field
    Unread,
    Nothing,
    MaxOperations,  \* bound: operations the user starts
    MaxTroubles     \* bound: changes made on the headset, commands it ignores, links lost

VARIABLES
    mdrLink,      \* "closed" | "open"
    mdrHw,        \* what the headset holds
    mdrGated,     \* the gated setting on the headset
    mdrDialog,    \* the change waiting for its dialog to be confirmed
    mdrAsked,     \* commands sent and not handled
    mdrPipe,      \* frames sent by the headset and not read
    mdrInbox,     \* Session.inbox
    mdrView,      \* DeviceState: what the page is painted from
    mdrTodo,      \* commands left in the operation under way
    mdrCall,      \* the command waiting for its answer
    mdrGoal,      \* the last thing the user asked for: what a write must leave behind
    mdrTrouble,   \* which of "late" (a command is left behind before the headset has handled
                  \* it), "ignored", "touched", "lost", "expired" have happened
    mdrCount      \* what the bounds count

mdrVars == <<mdrLink, mdrHw, mdrGated, mdrDialog, mdrAsked, mdrPipe, mdrInbox, mdrView,
             mdrTodo, mdrCall, mdrGoal, mdrTrouble, mdrCount>>

Messages == [Fields -> Levels]

Get == [t |-> "get"]
Set(m, f) == [t |-> "set", val |-> m, field |-> f]
Gate(v) == [t |-> "gate", val |-> v]
Confirm == [t |-> "confirm"]
Ack == [t |-> "ack"]
State(kind) == [t |-> kind, val |-> mdrHw]
Alert == [t |-> "alert"]

Commands ==
    {Get, Confirm} \cup {Set(m, f) : m \in Messages, f \in Fields} \cup {Gate(v) : v \in Levels}
Told == [t : {"ret", "ntfy"}, val : Messages]
Frames == {Ack, Alert} \cup Told

Calls == [cmd : Commands, acked : BOOLEAN, confirmed : BOOLEAN]
Goals == [field : Fields \cup {Nothing}, val : Levels]

\* What stands for an absence is none of the things that may be there.
ASSUME HeadsetAssumption ==
    /\ Held \subseteq Levels /\ Default \in Levels
    /\ Nothing \notin Fields \cup Levels \cup Goals \cup Calls
    /\ Unread \notin Messages

\* The frame whose command byte is that of the request with its low bit set.
Answers(frame, cmd) ==
    \/ cmd.t = "get" /\ frame.t = "ret"
    \/ cmd.t = "set" /\ frame.t = "ntfy"

Idle == mdrTodo = <<>> /\ mdrCall = Nothing
Untouched == UNCHANGED <<mdrLink, mdrGated, mdrDialog, mdrGoal, mdrTrouble, mdrCount>>

MdrInit ==
    /\ mdrLink = "closed"
    /\ \E l \in Held : mdrHw = [f \in Fields |-> l]
    /\ mdrGated = Default
    /\ mdrDialog = Nothing
    /\ mdrAsked = <<>> /\ mdrPipe = <<>> /\ mdrInbox = <<>>
    /\ mdrView = Unread
    /\ mdrTodo = <<>> /\ mdrCall = Nothing
    /\ mdrGoal = Nothing
    /\ mdrTrouble = {}
    /\ mdrCount = [operations |-> 0, troubles |-> 0]

Begin(todo, goal) ==
    /\ Idle
    /\ mdrTodo' = todo
    /\ mdrGoal' = goal
    /\ mdrCount.operations < MaxOperations
    /\ mdrCount' = [mdrCount EXCEPT !.operations = @ + 1]

\* SonyDevice.connect: the channel, then the handshake, whose reads fill the state.
MdrConnect ==
    /\ mdrLink = "closed"
    /\ mdrLink' = "open"
    /\ mdrTodo' = <<Get>>
    /\ UNCHANGED <<mdrHw, mdrGated, mdrDialog, mdrAsked, mdrPipe, mdrInbox, mdrView, mdrCall,
                   mdrGoal, mdrTrouble, mdrCount>>

\* SonyDevice.refresh: every supported parameter is read again.
Refresh ==
    /\ mdrLink = "open"
    /\ Begin(<<Get>>, Nothing)
    /\ UNCHANGED <<mdrLink, mdrHw, mdrGated, mdrDialog, mdrAsked, mdrPipe, mdrInbox, mdrView,
                   mdrCall, mdrTrouble>>

\* _write_ncasm, _write_stc, a band: the other fields are what was last read, or the default
\* where nothing was; then the value is read back.
MessageOfDefaults(f, v) == [g \in Fields |-> IF g = f THEN v ELSE Default]

Message(f, v) ==
    [g \in Fields |-> IF g = f THEN v ELSE IF mdrView = Unread THEN Default ELSE mdrView[g]]

Write(f, v) ==
    /\ mdrLink = "open"
    /\ Begin(<<Set(Message(f, v), f), Get>>, [field |-> f, val |-> v])
    /\ UNCHANGED <<mdrLink, mdrHw, mdrGated, mdrDialog, mdrAsked, mdrPipe, mdrInbox, mdrView,
                   mdrCall, mdrTrouble>>

\* set_sound_quality, set_custom_button, set_multipoint.
WriteGated(v) ==
    /\ mdrLink = "open"
    /\ Begin(<<Gate(v)>>, [field |-> Nothing, val |-> v])
    /\ UNCHANGED <<mdrLink, mdrHw, mdrGated, mdrDialog, mdrAsked, mdrPipe, mdrInbox, mdrView,
                   mdrCall, mdrTrouble>>

Send ==
    /\ mdrLink = "open" /\ mdrCall = Nothing /\ mdrTodo # <<>>
    /\ mdrCall' = [cmd |-> Head(mdrTodo), acked |-> FALSE, confirmed |-> FALSE]
    /\ mdrTodo' = Tail(mdrTodo)
    /\ mdrAsked' = Append(mdrAsked, Head(mdrTodo))
    /\ UNCHANGED <<mdrHw, mdrPipe, mdrInbox, mdrView>> /\ Untouched

\* _drain: everything stashed is applied in order; an alert met on the way is confirmed by a
\* command of its own.  The nested command of _confirm_alert is not followed by a drain.
Reports(frames) == Filtered(frames, Told)

Alerts(frames) == Filtered(frames, {Alert})

DrainedOldestFirst(frames) ==
    /\ mdrInbox' = <<>>
    /\ mdrView' = IF Reports(frames) = <<>> THEN mdrView ELSE Head(Reports(frames)).val
    /\ UNCHANGED mdrTodo

Drained(frames) ==
    IF mdrCall.cmd = Confirm
    THEN mdrInbox' = frames /\ UNCHANGED <<mdrView, mdrTodo>>
    ELSE /\ mdrInbox' = <<>>
         /\ mdrView' = IF Reports(frames) = <<>> THEN mdrView ELSE Last(Reports(frames)).val
         /\ mdrTodo' = [i \in 1..Len(Alerts(frames)) |-> Confirm]
                           \o mdrTodo

EndCallUncleared(frames) == mdrCall' = [mdrCall EXCEPT !.cmd = Nothing] /\ Drained(frames)

EndCall(frames) == mdrCall' = Nothing /\ Drained(frames)

ReadAck ==
    /\ mdrCall # Nothing /\ mdrPipe # <<>> /\ Head(mdrPipe) = Ack
    /\ mdrCall' = [mdrCall EXCEPT !.acked = TRUE]
    /\ mdrPipe' = Tail(mdrPipe)
    /\ UNCHANGED <<mdrHw, mdrAsked, mdrInbox, mdrView, mdrTodo>> /\ Untouched

\* A data frame is stashed, and ends the wait when it is the answer.
ReadData ==
    /\ mdrCall # Nothing /\ mdrPipe # <<>> /\ Head(mdrPipe) # Ack
    /\ mdrCall.cmd.t = "gate" => Head(mdrPipe) # Alert \/ mdrCall.confirmed
    /\ mdrPipe' = Tail(mdrPipe)
    /\ LET frames == Append(mdrInbox, Head(mdrPipe)) IN
          IF Answers(Head(mdrPipe), mdrCall.cmd)
          THEN EndCall(frames)
          ELSE mdrInbox' = frames /\ UNCHANGED <<mdrView, mdrTodo, mdrCall>>
    /\ UNCHANGED <<mdrHw, mdrAsked>> /\ Untouched

\* send_reboot_command answers the dialog the instant it arrives.
ReplyNever == UNCHANGED mdrAsked

MdrReply == mdrAsked' = Append(mdrAsked, Confirm)

ReadAlert ==
    /\ mdrCall # Nothing /\ mdrCall.cmd.t = "gate" /\ ~mdrCall.confirmed
    /\ mdrPipe # <<>> /\ Head(mdrPipe) = Alert
    /\ mdrPipe' = Tail(mdrPipe)
    /\ MdrReply
    /\ mdrCall' = [mdrCall EXCEPT !.confirmed = TRUE]
    /\ UNCHANGED <<mdrHw, mdrInbox, mdrView, mdrTodo>> /\ Untouched

\* Nothing more to read within the grace: the command was acknowledged and answers nothing.  A
\* headset slower than the grace is late, whatever was acknowledged.
Quiet ==
    /\ mdrCall # Nothing /\ mdrPipe = <<>>
    /\ IF mdrCall.cmd.t = "gate" THEN mdrCall.confirmed ELSE mdrCall.acked
    /\ EndCall(mdrInbox)
    /\ mdrTrouble' = IF mdrAsked = <<>> THEN mdrTrouble ELSE mdrTrouble \cup {"late"}
    /\ UNCHANGED <<mdrLink, mdrHw, mdrGated, mdrDialog, mdrAsked, mdrPipe, mdrGoal, mdrCount>>

\* The deadline passes: the command returns as if it had been answered.
DueOnceAcknowledged == mdrCall # Nothing /\ mdrCall.acked

Due == mdrCall # Nothing

Deadline ==
    /\ Due
    /\ EndCall(mdrInbox)
    /\ mdrTrouble' = mdrTrouble \cup {"late"}
    /\ UNCHANGED <<mdrLink, mdrHw, mdrGated, mdrDialog, mdrAsked, mdrPipe, mdrGoal, mdrCount>>

\* The link ends under an operation, or is closed: what was on it is gone.
HangUp ==
    /\ mdrLink' = "closed"
    /\ mdrAsked' = <<>> /\ mdrPipe' = <<>> /\ mdrInbox' = <<>>
    /\ mdrView' = Unread
    /\ mdrTodo' = <<>> /\ mdrCall' = Nothing
    /\ mdrDialog' = Nothing /\ mdrGoal' = Nothing

LinkLost ==
    /\ mdrLink = "open" /\ mdrCount.troubles < MaxTroubles
    /\ HangUp
    /\ mdrTrouble' = mdrTrouble \cup {"lost"}
    /\ mdrCount' = [mdrCount EXCEPT !.troubles = @ + 1]
    /\ UNCHANGED <<mdrHw, mdrGated>>

MdrDisconnect ==
    /\ mdrLink = "open"
    /\ HangUp
    /\ UNCHANGED <<mdrHw, mdrGated, mdrTrouble, mdrCount>>

-----------------------------------------------------------------------------
(* The headset. *)

Handle(cmd) == mdrAsked # <<>> /\ Head(mdrAsked) = cmd /\ mdrAsked' = Tail(mdrAsked)

HandleGet ==
    /\ Handle(Get)
    /\ mdrPipe' = mdrPipe \o <<Ack, State("ret")>>
    /\ UNCHANGED <<mdrHw, mdrInbox, mdrView, mdrTodo, mdrCall>> /\ Untouched

\* A write is acknowledged, and may be announced as well.
HandleSet ==
    \E m \in Messages, f \in Fields :
        /\ Handle(Set(m, f))
        /\ mdrHw' = m
        /\ mdrPipe' \in {Append(mdrPipe, Ack), mdrPipe \o <<Ack, [t |-> "ntfy", val |-> m]>>}
        /\ UNCHANGED <<mdrInbox, mdrView, mdrTodo, mdrCall>> /\ Untouched

HandleGate ==
    \E v \in Levels :
        /\ Handle(Gate(v))
        /\ mdrDialog' = v
        /\ mdrPipe' = mdrPipe \o <<Ack, Alert>>
        /\ UNCHANGED <<mdrLink, mdrHw, mdrGated, mdrInbox, mdrView, mdrTodo, mdrCall, mdrGoal,
                       mdrTrouble, mdrCount>>

\* A confirmed change is applied; one whose dialog has gone is not.
HandleConfirm ==
    /\ Handle(Confirm)
    /\ mdrGated' = IF mdrDialog = Nothing THEN mdrGated ELSE mdrDialog
    /\ mdrDialog' = Nothing
    /\ mdrPipe' = Append(mdrPipe, Ack)
    /\ UNCHANGED <<mdrLink, mdrHw, mdrInbox, mdrView, mdrTodo, mdrCall, mdrGoal, mdrTrouble,
                   mdrCount>>

DialogExpires ==
    /\ mdrDialog # Nothing
    /\ mdrDialog' = Nothing
    /\ mdrTrouble' = mdrTrouble \cup {"expired"}
    /\ UNCHANGED <<mdrLink, mdrHw, mdrGated, mdrAsked, mdrPipe, mdrInbox, mdrView, mdrTodo, mdrCall,
                   mdrGoal, mdrCount>>

MdrIgnore ==
    /\ mdrAsked # <<>> /\ mdrCount.troubles < MaxTroubles
    /\ mdrAsked' = Tail(mdrAsked)
    /\ mdrTrouble' = mdrTrouble \cup {"ignored"}
    /\ mdrCount' = [mdrCount EXCEPT !.troubles = @ + 1]
    /\ UNCHANGED <<mdrLink, mdrHw, mdrGated, mdrDialog, mdrPipe, mdrInbox, mdrView, mdrTodo,
                   mdrCall, mdrGoal>>

\* The wearer changes the setting on the headset, which announces it.
Touch(f, v) ==
    /\ mdrLink = "open" /\ mdrCount.troubles < MaxTroubles
    /\ mdrHw' = [mdrHw EXCEPT ![f] = v]
    /\ mdrPipe' = Append(mdrPipe, [t |-> "ntfy", val |-> mdrHw'])
    /\ mdrTrouble' = mdrTrouble \cup {"touched"}
    /\ mdrCount' = [mdrCount EXCEPT !.troubles = @ + 1]
    /\ UNCHANGED <<mdrLink, mdrGated, mdrDialog, mdrAsked, mdrInbox, mdrView, mdrTodo, mdrCall,
                   mdrGoal>>

-----------------------------------------------------------------------------
Host ==
    \/ Send \/ ReadAck \/ ReadData \/ ReadAlert \/ Quiet \/ Deadline

Headset ==
    \/ HandleGet \/ HandleSet \/ HandleGate \/ HandleConfirm

MdrNext ==
    \/ MdrConnect \/ Refresh \/ MdrDisconnect \/ LinkLost
    \/ \E f \in Fields, v \in Levels : Write(f, v) \/ Touch(f, v)
    \/ \E v \in Levels : WriteGated(v)
    \/ Host \/ Headset \/ DialogExpires \/ MdrIgnore

MdrSpec == MdrInit /\ [][MdrNext]_mdrVars

\* The host's thread runs, and its deadlines pass.
MdrScheduled == WF_mdrVars(Host)

-----------------------------------------------------------------------------
MdrTypeOK ==
    /\ mdrLink \in {"closed", "open"}
    /\ mdrHw \in Messages
    /\ mdrGated \in Levels /\ mdrDialog \in Levels \cup {Nothing}
    /\ mdrAsked \in Seq(Commands) /\ mdrTodo \in Seq(Commands)
    /\ mdrPipe \in Seq(Frames) /\ mdrInbox \in Seq(Frames)
    /\ mdrView \in Messages \cup {Unread}
    /\ mdrCall \in Calls \cup {Nothing} /\ mdrGoal \in Goals \cup {Nothing}
    /\ mdrTrouble \subseteq {"late", "ignored", "touched", "lost", "expired"}

\* Nothing the headset says is lost: as long as it handles what it is sent, either the page is
\* painted from what the headset holds, or a report of that is on its way, or a read is still to be
\* answered.  That is what stashing every frame met while waiting, and applying all of them in
\* order, is for; no deadline, late answer or change on the headset may break it.
ReadIsComing ==
    \/ \E s \in {mdrAsked, mdrTodo} : Contains(s, Get)

LastWordIsTheTruth ==
    LET coming == Reports(mdrInbox \o mdrPipe)
    IN (mdrLink = "open" /\ "ignored" \notin mdrTrouble /\ ~ReadIsComing)
          => (IF coming = <<>> THEN mdrView ELSE Last(coming).val) = mdrHw

\* A write changes the field the user moved and no other, although every field rides in the
\* message: with an attentive headset that nobody touches, the values it re-sends are current.
WriteKeepsTheOthers ==
    [][\A m \in Messages, f \in Fields :
          (mdrTrouble \subseteq {"lost"} /\ Handle(Set(m, f)) /\ HandleSet)
              => \A g \in Fields \ {f} : mdrHw'[g] = mdrHw[g]]_mdrVars

\* A write that returned has been made: send_command and send_reboot_command report nothing, so an
\* operation that ended on an attentive headset must have left what the user asked for, the change
\* behind a dialog included, once the headset has handled what it was sent.
WriteLands ==
    (/\ Idle /\ mdrAsked = <<>> /\ mdrGoal # Nothing
     /\ mdrTrouble \subseteq {"lost"})
        => IF mdrGoal.field = Nothing THEN mdrGated = mdrGoal.val
           ELSE mdrHw[mdrGoal.field] = mdrGoal.val

\* Every operation ends, whatever the headset does: a command it never answers costs its deadline.
OperationsEnd == mdrCall # Nothing ~> mdrCall = Nothing

\* The page follows the headset in order, as the abstract view promises.
Lag == INSTANCE LaggingView WITH
    Values <- Messages, truth <- mdrHw, view <- mdrView,
    news <- [i \in 1..Len(Reports(mdrInbox \o mdrPipe)) |-> Reports(mdrInbox \o mdrPipe)[i].val]

ViewFollowsInOrder == Lag!Spec
=============================================================================
