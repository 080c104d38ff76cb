----------------------------- MODULE RazerDevice ----------------------------
(***************************************************************************)
(* A Razer mouse or keyboard behind the OpenRazer daemon: RazerDevice, the *)
(* rows its page offers, and what it keeps on disk (DPI stages and a copy  *)
(* of the macros).  The lock makes each operation one step.  What the page *)
(* shows is kept beside what the module holds, because a refresh tells the *)
(* page only what differs from the latter.                                 *)
(*                                                                         *)
(* DPI and colours are levels; there are two stages and one lighting zone. *)
(***************************************************************************)
EXTENDS Naturals, Sequences

CONSTANTS
    Kinds,        \* sets of daemon capabilities a device may have
    Dpis,         \* the DPI values
    Binds,        \* keys a macro can be on
    None,
    MaxRzOps,     \* bound: operations of the user, reconnects included
    MaxRzStirs    \* bound: what other programs, the user at the device and a full disk do

VARIABLES
    rzHas,        \* what the daemon reports: "dpi", "dpi_stages", "macro_logic", "lighting"
    rzHw,         \* what the device and the daemon hold
    rzDisk,       \* dpi_stages.json and macros.json
    rzOpen,
    rzStages,     \* _stages
    rzMacros,     \* _macros
    rzValues,     \* _values
    rzShown,      \* what the page shows
    rzRows,       \* the writable rows of the page
    rzSpoilt,     \* which of "elsewhere", "refused", "unsaved" have happened
    rzCount

rzVars == <<rzHas, rzHw, rzDisk, rzOpen, rzStages, rzMacros, rzValues, rzShown, rzRows, rzSpoilt, rzCount>>

Axes == {"x", "y"}
Other(axis) == CHOOSE a \in Axes : a # axis
Pairs == [Axes -> Dpis]
Colours == {0, 1}

\* The effects, by what each takes.
Effects == {"none", "static", "dual", "reactive", "wave"}
ColoursOf(e) == CASE e \in {"static", "reactive"} -> 1 [] e = "dual" -> 2 [] OTHER -> 0
Known(e) == e \in Effects

\* default_dpi_stages: both axes of a default stage are equal.
Default == <<[a \in Axes |-> CHOOSE d \in Dpis : TRUE], [a \in Axes |-> CHOOSE d \in Dpis : TRUE]>>

LoadUnread == <<rzDisk'.stages>>

LoadStages == IF "dpi" \notin rzHas THEN <<>> ELSE IF rzDisk'.stages = None THEN Default ELSE rzDisk'.stages

-----------------------------------------------------------------------------
(* The rows: what build and macros offer to be written. *)

DeviceRows ==
    (IF "dpi" \in rzHas THEN {<<"dpi.lock">>, <<"dpi", "x">>, <<"dpi", "y">>} ELSE {})
    \cup (IF "dpi_stages" \in rzHas THEN {<<"dpi.active">>} ELSE {})

StageRows(n) ==
    IF n = 0 THEN {}
    ELSE {<<"stage", i, a>> : i \in 1..n, a \in Axes} \cup {<<"dpi.apply">>}
         \cup (IF "dpi_stages" \in rzHas THEN {<<"dpi.sync">>} ELSE {})

\* Restoring is offered when something was saved, exporting and deleting for what is recorded.
MacroRowsAlwaysRestoring(macros) == {<<"save">>, <<"restore">>} \cup {<<"delete", b>> : b \in macros}

MacroRows(macros) ==
    {<<"save">>, <<"autorestore">>, <<"import">>, <<"reread">>}
    \cup {<<"delete", b>> : b \in macros}
    \cup (IF rzDisk'.macros # {} THEN {<<"restore">>} ELSE {})
    \cup (IF macros # {} THEN {<<"export">>} ELSE {})

ZoneRows == {<<"effect">>, <<"color">>}

Rows(stages, macros) ==
    DeviceRows \cup StageRows(Len(stages))
    \cup (IF "macro_logic" \in rzHas THEN MacroRows(macros) ELSE {})
    \cup (IF "lighting" \in rzHas THEN ZoneRows ELSE {})

\* A row gated by `requires` is enabled by what the page shows.
Enabled(row) ==
    /\ row \in rzRows
    /\ row = <<"color">> => rzShown.effect # None /\ ColoursOf(rzShown.effect) > 0

-----------------------------------------------------------------------------
(* Reading *)

\* The lock is decided afresh whenever the values are read.
ReadValues(v, stages, macros) ==
    [v EXCEPT !.lock = rzHw'.dpi["x"] = rzHw'.dpi["y"], !.x = rzHw'.dpi["x"], !.y = rzHw'.dpi["y"],
              !.active = rzHw'.active, !.stages = stages, !.macros = macros, !.auto = rzDisk'.auto,
              !.effect = IF Known(rzHw'.effect) THEN rzHw'.effect ELSE @,
              !.colour = rzHw'.colour]

\* _rebuild: stages from disk, rows, values; the shell sees a new revision and shows the page again.
Rebuild(macros) ==
    /\ rzMacros' = macros
    /\ rzStages' = LoadStages
    /\ rzRows' = Rows(rzStages', macros)
    /\ rzValues' = ReadValues(rzValues, rzStages', macros)
    /\ rzShown' = rzValues'

Keep == UNCHANGED <<rzStages, rzMacros, rzRows>>

Init ==
    /\ rzHas \in Kinds
    /\ \E d \in Dpis, e \in {"static", "custom"} :
          rzHw = [dpi |-> [a \in Axes |-> d], active |-> 1, stages |-> Default,
                  macros |-> {}, effect |-> e, colour |-> 0]
    /\ \E saved \in SUBSET Binds, auto \in BOOLEAN :
          /\ "macro_logic" \notin rzHas => saved = {} /\ ~auto
          /\ rzDisk = [stages |-> None, macros |-> saved, auto |-> auto]
    /\ rzOpen = FALSE /\ rzStages = <<>> /\ rzMacros = {} /\ rzRows = {}
    /\ rzValues = [lock |-> FALSE, x |-> 0, y |-> 0, active |-> 0, stages |-> <<>>, macros |-> {},
                   auto |-> FALSE, effect |-> None, colour |-> 0]
    /\ rzShown = rzValues
    /\ rzSpoilt = {}
    /\ rzCount = [ops |-> 0, stirs |-> 0]

Bump(field) == rzCount' = [rzCount EXCEPT ![field] = @ + 1]
MayStir == rzCount.stirs < MaxRzStirs
Spoil(how) == rzSpoilt' = rzSpoilt \cup {how} /\ Bump("stirs")

\* _connect_sync: the rebuild, then the macros that are to come back by themselves.
RestoredNone == rzHw.macros

RestoredAtConnect ==
    IF "macro_logic" \in rzHas /\ rzDisk.auto THEN rzHw.macros \cup rzDisk.macros ELSE rzHw.macros

Connect ==
    /\ ~rzOpen /\ rzCount.ops < MaxRzOps
    /\ rzOpen' = TRUE
    /\ rzHw' = [rzHw EXCEPT !.macros = RestoredAtConnect]
    /\ UNCHANGED <<rzHas, rzDisk, rzSpoilt>>
    /\ Rebuild(RestoredAtConnect)
    /\ Bump("ops")

Disconnect ==
    /\ rzOpen
    /\ rzOpen' = FALSE
    /\ Keep /\ UNCHANGED <<rzHas, rzHw, rzDisk, rzValues, rzShown, rzSpoilt, rzCount>>

\* refresh returns what differs from _values; the form takes that and nothing else.
Refresh ==
    /\ rzOpen
    /\ UNCHANGED <<rzHw, rzDisk>>
    /\ rzValues' = ReadValues(rzValues, rzStages, rzMacros)
    /\ rzShown' = [f \in DOMAIN rzShown |-> IF rzValues'[f] # rzValues[f] THEN rzValues'[f] ELSE rzShown[f]]
    /\ Keep /\ UNCHANGED <<rzHas, rzOpen, rzSpoilt, rzCount>>

Operation(row) == rzOpen /\ Enabled(row) /\ rzCount.ops < MaxRzOps /\ Bump("ops") /\ UNCHANGED <<rzHas, rzOpen>>

-----------------------------------------------------------------------------
(* DPI *)

\* The pair that goes out when one axis is moved: the other is what _values holds.
PairOfOne(axis, v) == [a \in Axes |-> v]

PairToWrite(axis, v) ==
    IF rzValues.lock THEN [a \in Axes |-> v] ELSE [a \in Axes |-> IF a = axis THEN v ELSE rzValues[a]]

WriteDpi(axis, v) ==
    /\ Operation(<<"dpi", axis>>)
    /\ rzHw' = [rzHw EXCEPT !.dpi = PairToWrite(axis, v)]
    /\ rzValues' = [rzValues EXCEPT !.x = rzHw'.dpi["x"], !.y = rzHw'.dpi["y"]]
    /\ rzShown' = [rzShown EXCEPT ![axis] = v]
    /\ Keep /\ UNCHANGED <<rzDisk, rzSpoilt>>

\* Locking makes the axes equal; _write_dpi sees the lock already on.
WriteLock(on) ==
    /\ Operation(<<"dpi.lock">>)
    /\ rzHw' = [rzHw EXCEPT !.dpi = IF on THEN [a \in Axes |-> rzValues.x] ELSE @]
    /\ rzValues' = [rzValues EXCEPT !.lock = on, !.x = IF on THEN rzHw'.dpi["x"] ELSE @,
                                    !.y = IF on THEN rzHw'.dpi["y"] ELSE @]
    /\ rzShown' = [rzShown EXCEPT !.lock = on]
    /\ Keep /\ UNCHANGED <<rzDisk, rzSpoilt>>

\* _save_stages: a disk that refuses is logged, and the rebuild reads the old stages again.
SaveNothing(stages) == UNCHANGED rzDisk

SaveStages(stages) == rzDisk' = [rzDisk EXCEPT !.stages = stages]

EditStage(i, axis, v) ==
    /\ Operation(<<"stage", i, axis>>)
    /\ \/ SaveStages([rzStages EXCEPT ![i][axis] = v]) /\ UNCHANGED rzSpoilt
       \/ UNCHANGED rzDisk /\ rzSpoilt' = rzSpoilt \cup {"unsaved"}
    /\ UNCHANGED rzHw
    /\ Rebuild(rzMacros)

ApplyStage(i) ==
    /\ Operation(<<"dpi.apply">>) /\ i \in DOMAIN rzStages
    /\ rzHw' = [rzHw EXCEPT !.dpi = rzStages[i]]
    /\ rzValues' = [rzValues EXCEPT !.x = rzStages[i]["x"], !.y = rzStages[i]["y"]]
    /\ Keep /\ UNCHANGED <<rzDisk, rzShown, rzSpoilt>>

SyncStages ==
    /\ Operation(<<"dpi.sync">>)
    /\ rzHw' = [rzHw EXCEPT !.stages = rzStages, !.active = 1]
    /\ Keep /\ UNCHANGED <<rzDisk, rzValues, rzShown, rzSpoilt>>

WriteDpiStage(i) ==
    /\ Operation(<<"dpi.active">>)
    /\ rzHw' = [rzHw EXCEPT !.active = i]
    /\ rzShown' = [rzShown EXCEPT !.active = i]
    /\ Keep /\ UNCHANGED <<rzDisk, rzValues, rzSpoilt>>

-----------------------------------------------------------------------------
(* Macros: the daemon holds them in memory. *)

SaveMacros ==
    /\ Operation(<<"save">>)
    /\ rzDisk' = [rzDisk EXCEPT !.macros = rzHw.macros]
    /\ UNCHANGED <<rzHw, rzSpoilt>>
    /\ Rebuild(rzHw.macros)

\* Restore, import and delete; a macro the daemon refuses is skipped.
Reload(row, macros) ==
    /\ Operation(row)
    /\ rzHw' = [rzHw EXCEPT !.macros = macros]
    /\ UNCHANGED <<rzDisk, rzSpoilt>>
    /\ Rebuild(macros)

RestoreMacros == \E some \in SUBSET rzDisk.macros : Reload(<<"restore">>, rzHw.macros \cup some)
ImportMacros == \E some \in SUBSET Binds \ {{}} : Reload(<<"import">>, rzHw.macros \cup some)
DeleteMacro(b) == Reload(<<"delete", b>>, rzHw.macros \ {b})
RereadMacros == Reload(<<"reread">>, rzHw.macros)

SetAutorestore(on) ==
    /\ Operation(<<"autorestore">>)
    /\ rzDisk' = [rzDisk EXCEPT !.auto = on]
    /\ rzValues' = [rzValues EXCEPT !.auto = on]
    /\ rzShown' = [rzShown EXCEPT !.auto = on]
    /\ Keep /\ UNCHANGED <<rzHw, rzSpoilt>>

-----------------------------------------------------------------------------
(* Lighting: a written value is held first, and the effect it belongs to is applied as a whole. *)

ApplyNothing(held) == rzHw' = rzHw

ApplyEffect(held) ==
    rzHw' = IF held.effect = None THEN rzHw
            ELSE [rzHw EXCEPT !.effect = held.effect,
                              !.colour = IF ColoursOf(held.effect) > 0 THEN held.colour ELSE @]

WriteLight(row, field, v) ==
    /\ Operation(row)
    /\ rzValues' = [rzValues EXCEPT ![field] = v]
    /\ \/ ApplyEffect(rzValues') /\ rzShown' = [rzShown EXCEPT ![field] = v] /\ UNCHANGED rzSpoilt
       \/ UNCHANGED <<rzHw, rzShown>> /\ rzSpoilt' = rzSpoilt \cup {"refused"}
    /\ Keep /\ UNCHANGED rzDisk

-----------------------------------------------------------------------------
(* What is not ours. *)

\* Another program, or the DPI button.
Elsewhere ==
    /\ MayStir
    /\ \/ \E p \in Pairs : "dpi" \in rzHas /\ rzHw' = [rzHw EXCEPT !.dpi = p]
       \/ \E b \in Binds : "macro_logic" \in rzHas /\ rzHw' = [rzHw EXCEPT !.macros = @ \cup {b}]
       \/ \E e \in Effects : "lighting" \in rzHas /\ rzHw' = [rzHw EXCEPT !.effect = e]
    /\ Spoil("elsewhere")
    /\ Keep /\ UNCHANGED <<rzHas, rzDisk, rzOpen, rzValues, rzShown>>

\* The daemon stops, and is back before the keyboard is opened again.
DaemonRestarts ==
    /\ ~rzOpen /\ MayStir /\ rzHw.macros # {}
    /\ rzHw' = [rzHw EXCEPT !.macros = {}]
    /\ Bump("stirs")
    /\ Keep /\ UNCHANGED <<rzHas, rzDisk, rzOpen, rzValues, rzShown, rzSpoilt>>

Next ==
    \/ Connect \/ Disconnect \/ Refresh
    \/ \E a \in Axes, d \in Dpis : WriteDpi(a, d) \/ (\E i \in 1..2 : EditStage(i, a, d))
    \/ \E on \in BOOLEAN : WriteLock(on) \/ SetAutorestore(on)
    \/ \E i \in 1..2 : ApplyStage(i) \/ WriteDpiStage(i)
    \/ SyncStages \/ SaveMacros \/ RestoreMacros \/ ImportMacros \/ RereadMacros
    \/ \E b \in Binds : DeleteMacro(b)
    \/ \E e \in Effects : WriteLight(<<"effect">>, "effect", e)
    \/ \E c \in Colours : WriteLight(<<"color">>, "colour", c)
    \/ Elsewhere \/ DaemonRestarts

Spec == Init /\ [][Next]_rzVars

-----------------------------------------------------------------------------
TypeOK ==
    /\ rzHw.dpi \in Pairs /\ rzHw.active \in 1..2 /\ rzHw.macros \subseteq Binds
    /\ rzDisk.stages \in Seq(Pairs) \cup {None} /\ rzDisk.macros \subseteq Binds
    /\ rzMacros \subseteq Binds /\ rzStages \in Seq(Pairs)
    /\ rzValues.lock \in BOOLEAN /\ rzValues.effect \in Effects \cup {None}

\* Moving one axis leaves the other as it is on the mouse, although the daemon only takes the pair:
\* what is re-sent is current, over refreshes, stages and the lock, unless somebody else set it.
OtherAxisStays ==
    [][\A a \in Axes, v \in Dpis :
          (WriteDpi(a, v) /\ ~rzValues.lock /\ rzSpoilt = {}) => rzHw'.dpi[Other(a)] = rzHw.dpi[Other(a)]]_rzVars

\* An edited stage is on the page and will be there on the next connect: the rebuild that follows
\* reads the stages from the disk again.
EditLands ==
    [][\A i \in 1..2, a \in Axes, v \in Dpis :
          (EditStage(i, a, v) /\ rzSpoilt' = {}) => rzStages'[i][a] = v]_rzVars

\* A button that puts the saved macros back is offered when there are some, after whatever was saved,
\* deleted, imported or restored, and the macros that can be deleted are those last read.
MacroRowsAreTrue ==
    rzOpen /\ "macro_logic" \in rzHas =>
        /\ <<"restore">> \in rzRows <=> rzDisk.macros # {}
        /\ \A b \in Binds : <<"delete", b>> \in rzRows <=> b \in rzMacros

\* A keyboard that restores by itself has every saved macro once it is open, whatever became of the
\* daemon meanwhile.
SavedMacrosComeBack ==
    [][(Connect /\ "macro_logic" \in rzHas /\ rzDisk.auto) => rzDisk.macros \subseteq rzHw'.macros]_rzVars

\* The effect and the colour on the page are those of the lamp: one write re-sends the other's
\* value, which has to be the one that is shown.
LampIsAsShown ==
    (rzOpen /\ "lighting" \in rzHas /\ rzSpoilt = {} /\ rzShown.effect # None)
        => /\ rzShown.effect = rzHw.effect
           /\ ColoursOf(rzHw.effect) > 0 => rzShown.colour = rzHw.colour

\* capabilities.py: the lock "keeps the two axes equal: moving either slider moves the other with it."
BothSlidersMove ==
    [][(Refresh /\ rzSpoilt = {} /\ rzValues'.lock) => rzShown'.x = rzShown'.y]_rzVars

\* device.py: "Start locked when the axes already match"; a page that was unlocked stays so.
UnlockedStaysUnlocked == [][(Refresh /\ rzSpoilt = {}) => rzShown'.lock = rzShown.lock]_rzVars
=============================================================================
