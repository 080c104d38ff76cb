---------------------------- MODULE JabraHeadset ----------------------------
(***************************************************************************)
(* A Jabra headset and the adapter it connects through, above the link:    *)
(* JabraHeadsetDevice, the write and event paths of its controller, and    *)
(* the limits it learns and keeps.  The two ends share property names; the *)
(* page has one row for the property at each.                              *)
(***************************************************************************)
EXTENDS Integers, FiniteSets, FiniteSetsExt

CONSTANTS
    Top,            \* the catalogue declares the values 0..Top
    MaxProbes,      \* writes _find_edge makes at most
    None,
    MaxJabWrites,   \* bound: writes the user makes
    MaxJabTouches,  \* bound: changes made on the headset
    MaxJabSittings  \* bound: connections

VARIABLES
    jabKind,      \* "choice" | "range": how the property is shown
    jabAccepts,   \* per end: the values the hardware takes
    jabHw,        \* per end: the value it holds
    jabLimits,    \* limits learned, on disk and applied at connect
    jabOffered,   \* per row: the values offered, or None before connect
    jabPage,      \* per row: _values
    jabNews,      \* a config-change event waits to be drained
    jabPoll,      \* the poll: "idle" | "reread" | "read" | "passed"
    jabRead,      \* what it read again
    jabOp,        \* the write under way
    jabPending,   \* the rows whose write is in flight
    jabClean,     \* history: nobody touched the headset during a write
    jabDropped,   \* history: a change was left unread because a write was in flight
    jabCount

jabVars == <<jabKind, jabAccepts, jabHw, jabLimits, jabOffered, jabPage, jabNews, jabPoll,
             jabRead, jabOp, jabPending, jabClean, jabDropped, jabCount>>
nature == <<jabKind, jabAccepts>>
history == <<jabClean, jabDropped>>
poll == <<jabPoll, jabRead>>

Ends == {"headset", "adapter"}
Catalogue == 0..Top

\* The furthest accepted value between one that worked and one that did not: Python rounds halves
\* to the even number, and no more than MaxProbes values are tried.
Middle(good, bad) ==
    LET sum == good + bad
    IN IF sum % 2 = 0 THEN sum \div 2
       ELSE IF (sum \div 2) % 2 = 0 THEN sum \div 2 ELSE sum \div 2 + 1

AdjacentByTwo(good, bad) == bad - good \in -2..2

Adjacent(good, bad) == bad - good \in -1..1

FindEdge(accepts, from, refused) ==
    LET edge[n \in 0..MaxProbes, good \in Catalogue, bad \in Catalogue] ==
            LET mid == Middle(good, bad)
            IN IF n = 0 \/ Adjacent(good, bad) \/ mid \in {good, bad} THEN good
               ELSE IF mid \in accepts THEN edge[n - 1, mid, bad] ELSE edge[n - 1, good, mid]
    IN edge[MaxProbes, from, refused]

Init ==
    /\ jabKind \in {"choice", "range"}
    /\ \E low, high \in Catalogue :
        /\ low <= high
        /\ jabAccepts = [e \in Ends |-> IF e = "headset" THEN low..high ELSE Catalogue \ {low}]
        /\ jabHw = [e \in Ends |-> IF e = "headset" THEN low ELSE Max(Catalogue \ {low})]
    /\ jabLimits = [e \in Ends |-> Catalogue]
    /\ jabOffered = None /\ jabPage = None
    /\ jabNews = FALSE
    /\ jabPoll = "idle" /\ jabRead = 0
    /\ jabOp = None /\ jabPending = {}
    /\ jabClean = TRUE /\ jabDropped = FALSE
    /\ jabCount = [writes |-> 0, touches |-> 0, sittings |-> 0]

Bump(field) == jabCount' = [jabCount EXCEPT ![field] = @ + 1]

\* _discover: both ends are read, the limits learned before are applied.
Connect ==
    /\ jabOffered = None /\ jabCount.sittings < MaxJabSittings
    /\ jabOffered' = jabLimits
    /\ jabPage' = jabHw
    /\ jabNews' = FALSE
    /\ Bump("sittings")
    /\ UNCHANGED <<nature, jabHw, jabLimits, poll, jabOp, jabPending, history>>

\* The page closes between operations; a poll under way ends with it.
Disconnect ==
    /\ jabOffered # None /\ jabOp = None
    /\ jabOffered' = None /\ jabPage' = None
    /\ jabPoll' = "idle" /\ jabRead' = 0
    /\ UNCHANGED <<nature, jabHw, jabLimits, jabNews, jabOp, jabPending, history, jabCount>>

-----------------------------------------------------------------------------
(* A write: registered as pending, sent, read back. *)

Set(row, v) ==
    /\ jabOffered # None /\ jabOp = None /\ jabCount.writes < MaxJabWrites
    /\ v \in jabOffered[row]
    /\ jabOp' = [row |-> row, val |-> v, at |-> "sent"]
    /\ jabPending' = jabPending \cup {row}
    /\ Bump("writes")
    /\ UNCHANGED <<nature, jabHw, jabLimits, jabOffered, jabPage, jabNews, poll, history>>

UnregisteredIfRefused(row) ==
    jabPending' = IF jabHw[row] = jabOp.val THEN jabPending ELSE jabPending \ {row}

Unregistered(row) == jabPending' = jabPending \ {row}

At(where) == jabOp # None /\ jabOp.at = where

\* An accepted write changes the end it is addressed to, which announces it.
Accepted ==
    /\ At("sent") /\ jabOp.val \in jabAccepts[jabOp.row]
    /\ jabHw' = [jabHw EXCEPT ![jabOp.row] = jabOp.val]
    /\ jabNews' = (jabNews \/ jabOp.row = "headset")
    /\ jabOp' = [jabOp EXCEPT !.at = "acked"]
    /\ UNCHANGED <<nature, jabLimits, jabOffered, jabPage, poll, jabPending, history, jabCount>>

\* A value the hardware does not have is answered with ILLEGAL_PARAM, or acknowledged and ignored.
Declined ==
    /\ At("sent") /\ jabOp.val \notin jabAccepts[jabOp.row]
    /\ \/ jabOp' = [jabOp EXCEPT !.at = "acked"] /\ UNCHANGED jabPending
       \/ jabOp' = [jabOp EXCEPT !.at = "refused"] /\ Unregistered(jabOp.row)
    /\ UNCHANGED <<nature, jabHw, jabLimits, jabOffered, jabPage, jabNews, poll, history, jabCount>>

\* _settled_read: one of its reads gives the value, or none does.
ReadBack ==
    /\ At("acked")
    /\ jabOp' = [jabOp EXCEPT !.at = IF jabHw[jabOp.row] = jabOp.val THEN "landed" ELSE "refused"]
    /\ Unregistered(jabOp.row)
    /\ UNCHANGED <<nature, jabHw, jabLimits, jabOffered, jabPage, jabNews, poll, history, jabCount>>

Land ==
    /\ At("landed")
    /\ jabPage' = [jabPage EXCEPT ![jabOp.row] = jabOp.val]
    /\ jabOp' = None
    /\ jabDropped' = (jabDropped /\ jabOp.row # "headset")
    /\ UNCHANGED <<nature, jabHw, jabLimits, jabOffered, jabNews, poll, jabPending, jabClean, jabCount>>

Learned(row, values) ==
    /\ jabOffered' = [jabOffered EXCEPT ![row] = values]
    /\ jabLimits' = [jabLimits EXCEPT ![row] = values]
    /\ jabOp' = None

\* A choice loses the option; the last one locks the row instead.
BelowIt(row, v) == {w \in jabOffered[row] : w < v}

OthersOf(row, v) == jabOffered[row] \ {v}

RejectChoice ==
    /\ At("refused") /\ jabKind = "choice"
    /\ Learned(jabOp.row, OthersOf(jabOp.row, jabOp.val))
    /\ UNCHANGED <<nature, jabHw, jabPage, jabNews, poll, jabPending, history, jabCount>>

\* A range is narrowed to the edge found by writing: every probe, and the read that settles the
\* page after them, goes to the headset, whichever end the row belongs to.
RejectRange ==
    /\ At("refused") /\ jabKind = "range" /\ jabOp.val # jabPage[jabOp.row]
    /\ LET row == jabOp.row
           edge == FindEdge(jabAccepts["headset"], jabPage[row], jabOp.val)
           ends == IF edge \in jabAccepts["headset"] THEN edge ELSE jabHw["headset"]
       IN /\ Learned(row, IF jabOp.val > jabPage[row]
                          THEN {v \in jabOffered[row] : v <= edge}
                          ELSE {v \in jabOffered[row] : v >= edge})
          /\ jabHw' = [jabHw EXCEPT !["headset"] = ends]
          /\ jabPage' = [jabPage EXCEPT ![row] = ends]
    /\ jabNews' = TRUE
    /\ jabDropped' = FALSE
    /\ UNCHANGED <<nature, poll, jabPending, jabClean, jabCount>>

\* Refused although the page holds it already: the row is locked.
LockRow ==
    /\ At("refused") /\ jabKind = "range" /\ jabOp.val = jabPage[jabOp.row]
    /\ Learned(jabOp.row, {})
    /\ UNCHANGED <<nature, jabHw, jabPage, jabNews, poll, jabPending, history, jabCount>>

-----------------------------------------------------------------------------
(* The poll: changes, every half second, under no lock. *)

\* The events are taken, and what changed is read again unless its write is in flight.
Reread == jabPending \cap {"headset"} = {}

Drain ==
    /\ jabOffered # None /\ jabPoll = "idle" /\ jabNews
    /\ jabNews' = FALSE
    /\ jabPoll' = IF Reread THEN "reread" ELSE "idle"
    /\ jabDropped' = (jabDropped \/ ~Reread)
    /\ UNCHANGED <<nature, jabHw, jabLimits, jabOffered, jabPage, jabRead, jabOp, jabPending,
                   jabClean, jabCount>>

ReadAgain ==
    /\ jabPoll = "reread"
    /\ jabPoll' = "read" /\ jabRead' = jabHw["headset"]
    /\ UNCHANGED <<nature, jabHw, jabLimits, jabOffered, jabPage, jabNews, jabOp, jabPending,
                   history, jabCount>>

FilterStale ==
    /\ jabPoll = "read"
    /\ jabPoll' = IF Reread THEN "passed" ELSE "idle"
    /\ jabDropped' = (jabDropped \/ ~Reread)
    /\ UNCHANGED <<nature, jabHw, jabLimits, jabOffered, jabPage, jabNews, jabRead, jabOp,
                   jabPending, jabClean, jabCount>>

ShowNothing == UNCHANGED jabPage

ShowPolled == jabPage' = [jabPage EXCEPT !["headset"] = jabRead]

Emit ==
    /\ jabPoll = "passed"
    /\ ShowPolled
    /\ jabPoll' = "idle" /\ jabRead' = 0
    /\ UNCHANGED <<nature, jabHw, jabLimits, jabOffered, jabNews, jabOp, jabPending, history, jabCount>>

\* The wearer, or another host, changes the setting; the headset announces it.
Touch(v) ==
    /\ v \in jabAccepts["headset"] /\ v # jabHw["headset"] /\ jabCount.touches < MaxJabTouches
    /\ jabHw' = [jabHw EXCEPT !["headset"] = v]
    /\ jabNews' = TRUE
    /\ jabClean' = (jabClean /\ jabOp = None)
    /\ Bump("touches")
    /\ UNCHANGED <<nature, jabLimits, jabOffered, jabPage, poll, jabOp, jabPending, jabDropped>>

-----------------------------------------------------------------------------
Write == \/ Accepted \/ Declined \/ ReadBack \/ Land \/ RejectChoice \/ RejectRange \/ LockRow

Changes == \/ Drain \/ ReadAgain \/ FilterStale \/ Emit

Next ==
    \/ Connect \/ Disconnect
    \/ \E row \in Ends, v \in Catalogue : Set(row, v)
    \/ \E v \in Catalogue : Touch(v)
    \/ Write \/ Changes

Spec == Init /\ [][Next]_jabVars

-----------------------------------------------------------------------------
TypeOK ==
    /\ \A e \in Ends : jabHw[e] \in jabAccepts[e] /\ jabLimits[e] \subseteq Catalogue
    /\ jabOffered # None => jabPage \in [Ends -> Catalogue]
    /\ jabPoll \in {"idle", "reread", "read", "passed"} /\ jabRead \in Catalogue
    /\ jabPending \subseteq Ends /\ Cardinality(jabPending) <= 1

AtRest == jabOffered # None /\ jabOp = None /\ ~jabNews /\ jabPoll = "idle"

\* With the poll, the writer and the wearer all at work, the page comes to rest on what the headset
\* holds: the value a poll read before a write is never the last one shown.
PageSettles ==
    (AtRest /\ jabClean /\ ~jabDropped)
        => jabPage["headset"] = jabHw["headset"]

\* controller.py: the event "is what removes any need to poll for externally-made changes"; a change
\* made on the headset, while no write of its own row lands, is shown in the end.
ChangesAreShown ==
    (AtRest /\ jabClean) => jabPage["headset"] = jabHw["headset"]

\* What a row of the headset no longer offers the headset does not take: one refused value removes
\* itself and what lies beyond it, and nothing that works.
LimitsAreTrue ==
    jabClean => jabAccepts["headset"] \subseteq jabLimits["headset"]

\* A refused value of a range costs one click: the slider then ends where the hardware does.
EdgeIsTheWall ==
    [][(At("refused") /\ jabKind = "range" /\ jabOp.row = "headset" /\ jabOp' = None /\ jabClean)
          => IF jabOp.val > jabPage["headset"]
             THEN Max(jabLimits'["headset"]) = Max(jabAccepts["headset"])
             ELSE Min(jabLimits'["headset"]) = Min(jabAccepts["headset"])]_jabVars

\* capabilities.py: "The adapter's own settings, read from the adapter rather than the headset."
AdapterWriteIsApart ==
    [][(jabOp # None /\ jabOp.row = "adapter" /\ Write) => jabHw'["headset"] = jabHw["headset"]]_jabVars

\* device.py: "Learned per session, not cached", because "writing it to the capability cache would
\* make one refused click permanent".
OneRefusedClickIsForgotten ==
    [][Connect => \A row \in Ends : jabOffered'[row] = Catalogue]_jabVars
=============================================================================
