----------------------------- MODULE UvcCamera -----------------------------
(***************************************************************************)
(* A UVC camera.  Writes and the poll run in threads of their own with no  *)
(* lock between them, over one descriptor that a change of the format      *)
(* closes and opens again.  A vendor control is a buffer that carries two  *)
(* settings, each written by reading it all and writing it all back; the   *)
(* format is written the same way.  The camera says itself which of its    *)
(* controls is inactive, and what it really took.                          *)
(***************************************************************************)
EXTENDS Naturals

CONSTANTS
    UvWriters,      \* threads of writes
    Poll,           \* the thread of the poll
    MaxUvOps,       \* bound: writes and polls
    MaxUvStirs      \* bound: settings not taken, descriptors not opened, other programs at the camera

VARIABLES
    uvCam,          \* the camera: [auto, bytes, fov, armed, fmt, busy]
    uvFd,           \* is the descriptor of the session open
    uvHeld,         \* what the device object holds: [keys, inactive, mode]
    uvPage,         \* what the page was built from: [keys, locked, mode]
    uvThread,       \* [step, job, buf, todo] of each thread
    uvWrote,        \* what each byte of the buffer was last set to by a write of its own (ghost)
    uvBeside,       \* did two threads run beside each other, or something stir (ghost)
    uvCount

uvVars == <<uvCam, uvFd, uvHeld, uvPage, uvThread, uvWrote, uvBeside, uvCount>>

Threads == UvWriters \cup {Poll}

\* The focus is inactive while it is automatic; the larger size exists in one pixel format only.
Controls == {"auto", "focus"}
Inactive(cam) == cam.auto
Formats == {"yuyv", "mjpg"}
Sizes(pix) == IF pix = "mjpg" THEN {"small", "large"} ELSE {"small"}
Fitted(fmt) == [fmt EXCEPT !.size = IF @ \in Sizes(fmt.pix) THEN @ ELSE "small"]

Jobs ==
    [kind : {"auto", "focus"}, at : {1}, to : {"on", "off"}]
    \cup [kind : {"byte"}, at : {1, 2}, to : {"on"}]
    \cup [kind : {"blob"}, at : {1}, to : {"wide", "narrow"}]
    \cup [kind : {"pix"}, at : {1}, to : Formats]
    \cup [kind : {"size"}, at : {1}, to : {"small", "large"}]

NoJob == [kind |-> "none", at |-> 1, to |-> "off"]
Idle == [step |-> "off", job |-> NoJob, bytes |-> <<"off", "off">>, fmt |-> [pix |-> "yuyv", size |-> "small"],
         todo |-> {}, ok |-> TRUE]

Described(held) == [keys |-> held.keys, locked |-> held.inactive, mode |-> held.mode]

Init ==
    /\ \E auto \in BOOLEAN :
          uvCam = [auto |-> auto, bytes |-> <<"off", "off">>, fov |-> "wide", armed |-> FALSE,
                   fmt |-> [pix |-> "yuyv", size |-> "small"], busy |-> FALSE]
    /\ uvFd = TRUE
    /\ uvHeld = [keys |-> Controls, inactive |-> Inactive(uvCam), mode |-> uvCam.fmt]
    /\ uvPage = Described(uvHeld)
    /\ uvThread = [t \in Threads |-> Idle]
    /\ uvWrote = uvCam.bytes
    /\ uvBeside = FALSE
    /\ uvCount = [ops |-> 0, stirs |-> 0]

Bump(field) == uvCount' = [uvCount EXCEPT ![field] = @ + 1]
Stirs == uvCount.stirs < MaxUvStirs /\ Bump("stirs") /\ uvBeside' = TRUE
Calm == UNCHANGED <<uvCount, uvBeside>>

Step(t, fields) == uvThread' = [uvThread EXCEPT ![t] = [x \in DOMAIN Idle |-> IF x \in DOMAIN fields THEN fields[x] ELSE @[x]]]
To(t, step) == Step(t, [step |-> step])
Over(t) == uvThread' = [uvThread EXCEPT ![t] = Idle]
At(t, step) == uvThread[t].step = step
Job(t) == uvThread[t].job
AtRest == \A t \in Threads : At(t, "off")

Start(t) == uvCount.ops < MaxUvOps /\ At(t, "off") /\ Bump("ops") /\ uvBeside' = (uvBeside \/ ~AtRest)
StartKeep == UNCHANGED <<uvCam, uvFd, uvHeld, uvPage, uvWrote>>

-----------------------------------------------------------------------------
(* Writes. *)

\* A row that is locked is not edited; sizes are offered for the format in use.
StartWrite(t, job) ==
    /\ Start(t)
    /\ job.kind \in Controls => job.kind \in uvPage.keys
    /\ job.kind = "focus" => ~uvPage.locked
    /\ job.kind = "size" => job.to \in Sizes(uvPage.mode.pix)
    /\ Step(t, [step |-> "write", job |-> job])
    /\ StartKeep

\* A descriptor that is closed at that moment fails the write.
NoDescriptor(t) ==
    /\ ~uvFd /\ uvThread[t].step \in {"write", "put", "verify", "payload", "apply", "flags"}
    /\ Over(t)
    /\ UNCHANGED <<uvCam, uvFd, uvHeld, uvPage, uvWrote>> /\ Calm

SetControl(t) ==
    /\ At(t, "write") /\ uvFd /\ Job(t).kind \in Controls
    /\ uvCam' = IF Job(t).kind = "auto" THEN [uvCam EXCEPT !.auto = Job(t).to = "on"] ELSE uvCam
    /\ To(t, "flags")
    /\ UNCHANGED <<uvFd, uvHeld, uvPage, uvWrote>> /\ Calm

ReadByte(t) ==
    /\ At(t, "write") /\ uvFd /\ Job(t).kind = "byte"
    /\ Step(t, [step |-> "put", bytes |-> uvCam.bytes])
    /\ UNCHANGED <<uvCam, uvFd, uvHeld, uvPage, uvWrote>> /\ Calm

\* The buffer goes back with one byte changed; a camera may accept it and keep what it had.
FreshBuffer(bytes, at, to) == [b \in 1..2 |-> IF b = at THEN to ELSE "off"]
ChangedBuffer(bytes, at, to) == [bytes EXCEPT ![at] = to]

PutByte(t) ==
    /\ At(t, "put") /\ uvFd
    /\ \/ /\ uvCam' = [uvCam EXCEPT !.bytes = ChangedBuffer(uvThread[t].bytes, Job(t).at, Job(t).to)]
          /\ uvWrote' = [uvWrote EXCEPT ![Job(t).at] = Job(t).to]
          /\ Calm
       \/ Stirs /\ UNCHANGED <<uvCam, uvWrote>>
    /\ To(t, "verify")
    /\ UNCHANGED <<uvFd, uvHeld, uvPage>>

Verify(t) ==
    /\ At(t, "verify") /\ uvFd
    /\ IF uvCam.bytes[Job(t).at] = Job(t).to THEN To(t, "flags") ELSE Over(t)
    /\ UNCHANGED <<uvCam, uvFd, uvHeld, uvPage, uvWrote>> /\ Calm

\* Commands go to one selector.  One of the fields of view takes two of them, of which the second
\* does nothing unless it follows the first.
Prelude(t) ==
    /\ At(t, "write") /\ uvFd /\ Job(t).kind = "blob"
    /\ uvCam' = [uvCam EXCEPT !.armed = Job(t).to = "narrow"]
    /\ To(t, "payload")
    /\ UNCHANGED <<uvFd, uvHeld, uvPage, uvWrote>> /\ Calm

Payload(t) ==
    /\ At(t, "payload") /\ uvFd
    /\ uvCam' = [uvCam EXCEPT !.armed = FALSE, !.fov = IF Job(t).to = "narrow" /\ ~uvCam.armed THEN @ ELSE Job(t).to]
    /\ To(t, "flags")
    /\ UNCHANGED <<uvFd, uvHeld, uvPage, uvWrote>> /\ Calm

\* A format that is in use already is not written.
ReadFormat(t) ==
    /\ At(t, "write") /\ uvFd /\ Job(t).kind \in {"pix", "size"}
    /\ Step(t, [step |-> IF uvCam.fmt[Job(t).kind] = Job(t).to THEN "close" ELSE "apply", fmt |-> uvCam.fmt])
    /\ UNCHANGED <<uvCam, uvFd, uvHeld, uvPage, uvWrote>> /\ Calm

\* The camera takes the nearest format it has, unless a program is capturing from it.  One that is
\* not what was asked for is an error, after the same reopening and reading again.
Apply(t) ==
    LET asked == [uvThread[t].fmt EXCEPT ![Job(t).kind] = Job(t).to] IN
    /\ At(t, "apply") /\ uvFd
    /\ uvCam' = IF uvCam.busy THEN uvCam ELSE [uvCam EXCEPT !.fmt = Fitted(asked)]
    /\ Step(t, [step |-> "close", ok |-> ~uvCam.busy /\ Fitted(asked)[Job(t).kind] = Job(t).to])
    /\ UNCHANGED <<uvFd, uvHeld, uvPage, uvWrote>> /\ Calm

Close(t) ==
    /\ At(t, "close")
    /\ uvFd' = FALSE
    /\ To(t, "open")
    /\ UNCHANGED <<uvCam, uvHeld, uvPage, uvWrote>> /\ Calm

\* A camera that cannot be opened again is left without a descriptor, connected all the same.
Open(t) ==
    /\ At(t, "open")
    /\ \/ uvFd' = TRUE /\ To(t, "reload") /\ Calm
       \/ uvFd' = uvFd /\ Over(t) /\ Stirs
    /\ UNCHANGED <<uvCam, uvHeld, uvPage, uvWrote>>

\* The rows are built again: the sizes offered are those of the format in use.
ReloadNothing(held) == held
Reloaded(held) == [held EXCEPT !.mode = uvCam.fmt]

Reload(t) ==
    /\ At(t, "reload")
    /\ IF uvFd THEN uvHeld' = Reloaded(uvHeld) /\ uvPage' = Described(uvHeld')
       ELSE UNCHANGED <<uvHeld, uvPage>>
    /\ IF uvFd /\ uvThread[t].ok THEN To(t, "flags") ELSE Over(t)
    /\ UNCHANGED <<uvCam, uvFd, uvWrote>> /\ Calm

\* Every write that landed ends by asking the camera which of its controls are inactive.
RefreshFlags(t) ==
    /\ At(t, "flags") /\ uvFd
    /\ uvHeld' = [uvHeld EXCEPT !.inactive = IF "focus" \in uvHeld.keys THEN Inactive(uvCam) ELSE @]
    /\ uvPage' = [uvPage EXCEPT !.locked = uvHeld'.inactive]
    /\ Over(t)
    /\ UNCHANGED <<uvCam, uvFd, uvWrote>> /\ Calm

-----------------------------------------------------------------------------
(* The poll reads everything again.  The list of controls ends where the descriptor does; the      *)
(* formats of a closed one are an error.                                                           *)

StartPoll ==
    /\ Start(Poll)
    /\ Step(Poll, [step |-> "list", todo |-> Controls])
    /\ StartKeep

ListControls ==
    /\ At(Poll, "list")
    /\ IF uvFd /\ uvThread[Poll].todo # {}
       THEN \E c \in uvThread[Poll].todo : Step(Poll, [todo |-> uvThread[Poll].todo \ {c}]) /\ UNCHANGED uvHeld
       ELSE /\ uvHeld' = [uvHeld EXCEPT !.keys = Controls \ uvThread[Poll].todo, !.inactive = Inactive(uvCam)]
            /\ To(Poll, "modes")
    /\ UNCHANGED <<uvCam, uvFd, uvPage, uvWrote>> /\ Calm

ListModes ==
    /\ At(Poll, "modes")
    /\ IF uvFd THEN uvHeld' = [uvHeld EXCEPT !.mode = uvCam.fmt] /\ To(Poll, "describe")
       ELSE UNCHANGED uvHeld /\ Over(Poll)
    /\ UNCHANGED <<uvCam, uvFd, uvPage, uvWrote>> /\ Calm

Describe ==
    /\ At(Poll, "describe")
    /\ uvPage' = IF uvFd THEN Described(uvHeld) ELSE uvPage
    /\ Over(Poll)
    /\ UNCHANGED <<uvCam, uvFd, uvHeld, uvWrote>> /\ Calm

\* Another program opens the camera with a format of its own, and lets it go.
Capture ==
    /\ ~uvCam.busy /\ Stirs
    /\ \E pix \in Formats : uvCam' = [uvCam EXCEPT !.busy = TRUE, !.fmt = Fitted([@ EXCEPT !.pix = pix])]
    /\ UNCHANGED <<uvFd, uvHeld, uvPage, uvThread, uvWrote>>

Release ==
    /\ uvCam.busy
    /\ uvCam' = [uvCam EXCEPT !.busy = FALSE]
    /\ UNCHANGED <<uvFd, uvHeld, uvPage, uvThread, uvWrote>> /\ Calm

Next ==
    \/ \E t \in UvWriters : \E job \in Jobs : StartWrite(t, job)
    \/ \E t \in UvWriters :
          \/ NoDescriptor(t) \/ SetControl(t) \/ ReadByte(t) \/ PutByte(t) \/ Verify(t) \/ Prelude(t)
          \/ Payload(t) \/ ReadFormat(t) \/ Apply(t) \/ Close(t) \/ Open(t) \/ Reload(t) \/ RefreshFlags(t)
    \/ StartPoll \/ ListControls \/ ListModes \/ Describe \/ Capture \/ Release

Spec == Init /\ [][Next]_uvVars

-----------------------------------------------------------------------------
TypeOK ==
    /\ uvHeld.keys \subseteq Controls /\ uvPage.keys \subseteq Controls
    /\ uvCam.fmt.size \in Sizes(uvCam.fmt.pix)
    /\ \A t \in Threads : uvThread[t].step \in {"off", "write", "put", "verify", "payload", "apply", "close", "open",
                                                "reload", "flags", "list", "modes", "describe"}

\* The camera says what it does not offer at the moment: once writes are over, as long as they came
\* one at a time, the page lists all of its controls, locks the one that is inactive and offers the
\* sizes of the format in use.
PageFollowsCamera ==
    (AtRest /\ ~uvBeside) => uvPage = [keys |-> Controls, locked |-> Inactive(uvCam), mode |-> uvCam.fmt]

\* session.py:490: a write changes one byte of a vendor control and leaves the rest as it was ...
LeavesTheRest == uvCam.bytes = uvWrote

\* ... and does while writes come one at a time.
LeavesTheRestAlone == ~uvBeside => LeavesTheRest

=============================================================================
