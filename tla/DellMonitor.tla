---------------------------- MODULE DellMonitor ----------------------------
(***************************************************************************)
(* Dell monitors over DDC/CI: every request is one run of ddcutil on the   *)
(* bus found when the device was opened.  Writes are not verified by       *)
(* ddcutil; the module waits and reads back.  A device serialises its own  *)
(* writes; two devices share one list of what is on which bus and one file *)
(* of calibrations.                                                        *)
(*                                                                         *)
(* A panel has one continuous feature, which settles on even values, and   *)
(* one word that packs the computer of each of two inputs.                 *)
(***************************************************************************)
EXTENDS Naturals

CONSTANTS
    Mons,           \* the monitors, two of them
    None,
    MaxDmOps,       \* bound: writes
    MaxDmStirs      \* bound: requests refused, cables exchanged, settings changed in the monitor's menu

VARIABLES
    dmPanel,        \* each monitor: [lum, word, pip, blank], what it is set to and whether it is blanked
    dmBus,          \* the bus each monitor is on
    dmSeen,         \* the shared list: the bus each was seen on, or None once it has expired
    dmFile,         \* the file of calibrations: what it has of each monitor
    dmDev,          \* the device objects: [bus, rows, range], bus None when closed
    dmOp,           \* the write under way at each device
    dmMeant,        \* what each panel was last set to, in full and by whom it belongs (ghost)
    dmBeside,       \* did something refuse, move or write beside another (ghost)
    dmCount

dmVars == <<dmPanel, dmBus, dmSeen, dmFile, dmDev, dmOp, dmMeant, dmBeside, dmCount>>

Lums == 0..4
Buses == Mons                                   \* named for the monitor that was on it first
Inputs == {1, 2}
Settled(lum) == IF lum % 2 = 0 THEN lum ELSE lum - 1

NoRange == None
Closed == [bus |-> None, rows |-> [lum |-> 2, word |-> <<0, 0>>, pip |-> 0], range |-> NoRange]
NoOp == [kind |-> "none", step |-> "off", at |-> 1, to |-> 0, was |-> 0, word |-> <<0, 0>>, file |-> [m \in Mons |-> None], tries |-> 0]

Init ==
    /\ dmPanel = [m \in Mons |-> [lum |-> 2, word |-> <<0, 0>>, pip |-> 0, blank |-> FALSE]]
    /\ dmBus = [m \in Mons |-> m]
    /\ dmSeen = [m \in Mons |-> None]
    /\ dmFile = [m \in Mons |-> None]
    /\ dmDev = [d \in Mons |-> Closed]
    /\ dmOp = [d \in Mons |-> NoOp]
    /\ dmMeant = [m \in Mons |-> [lum |-> 2, word |-> <<0, 0>>]]
    /\ dmBeside = FALSE
    /\ dmCount = [ops |-> 0, stirs |-> 0]

Bump(field) == dmCount' = [dmCount EXCEPT ![field] = @ + 1]
Stirs == dmCount.stirs < MaxDmStirs /\ Bump("stirs") /\ dmBeside' = TRUE
Calm == UNCHANGED <<dmCount, dmBeside>>

\* The monitor a device's requests reach.
OnBus(bus) == CHOOSE m \in Mons : dmBus[m] = bus
Target(d) == OnBus(dmDev[d].bus)
Reached(d) == dmPanel[Target(d)]

Step(d, fields) == dmOp' = [dmOp EXCEPT ![d] = [x \in DOMAIN NoOp |-> IF x \in DOMAIN fields THEN fields[x] ELSE @[x]]]
Over(d) == dmOp' = [dmOp EXCEPT ![d] = NoOp]
At(d, kind, step) == dmOp[d].kind = kind /\ dmOp[d].step = step

Snapshot(d, rows) == [lum |-> Reached(d).lum, word |-> Reached(d).word, pip |-> IF Reached(d).blank THEN rows.pip ELSE Reached(d).pip]
Keep == UNCHANGED <<dmBus, dmSeen>>

-----------------------------------------------------------------------------
(* Opening: the bus comes from the shared list, which is filled again when it has expired or does  *)
(* not know the monitor.                                                                           *)

Detected == IF \E m \in Mons : dmSeen[m] # None THEN dmSeen ELSE dmBus

Connect(d) ==
    /\ dmDev[d].bus = None /\ dmOp[d].kind = "none"
    /\ dmSeen' = Detected
    /\ LET m == OnBus(Detected[d]) IN
          dmDev' = [dmDev EXCEPT ![d] = [bus |-> Detected[d], range |-> dmFile[d],
                       rows |-> [lum |-> dmPanel[m].lum, word |-> dmPanel[m].word, pip |-> dmPanel[m].pip]]]
    /\ UNCHANGED <<dmPanel, dmBus, dmFile, dmOp, dmMeant>> /\ Calm

\* Closing takes no lock, and a write under way finds its device gone at the next request.
Disconnect(d) ==
    /\ dmDev[d].bus # None
    /\ dmDev' = [dmDev EXCEPT ![d] = Closed]
    /\ UNCHANGED <<dmPanel, dmBus, dmSeen, dmFile, dmOp, dmMeant, dmCount>>
    /\ dmBeside' = (dmBeside \/ dmOp[d].kind # "none")

GoneMidway(d) ==
    /\ dmDev[d].bus = None /\ dmOp[d].kind # "none"
    /\ Over(d)
    /\ UNCHANGED <<dmPanel, dmFile, dmDev, dmMeant>> /\ Keep /\ Calm

\* The shared list is used for a few seconds.
Expire ==
    /\ dmSeen # [m \in Mons |-> None]
    /\ dmSeen' = [m \in Mons |-> None]
    /\ UNCHANGED <<dmPanel, dmBus, dmFile, dmDev, dmOp, dmMeant>> /\ Calm

-----------------------------------------------------------------------------
(* Writes. *)

\* A calibrated slider moves in the steps the panel has.
Offered(d, job) == job.kind # "lum" \/ dmDev[d].range = NoRange \/ job.to = Settled(job.to)

Kinds == [kind : {"lum"}, at : {1}, to : {1, 4}] \cup [kind : {"kvm"}, at : Inputs, to : {1}]
         \cup [kind : {"pip"}, at : {1}, to : {1}] \cup [kind : {"reset", "calibrate", "reread"}, at : {1}, to : {0}]

StartSet(d, job) ==
    /\ dmDev[d].bus # None /\ dmOp[d].kind = "none" /\ dmCount.ops < MaxDmOps /\ Offered(d, job)
    /\ Step(d, [kind |-> job.kind, step |-> "begin", at |-> job.at, to |-> job.to])
    /\ Bump("ops")
    /\ UNCHANGED <<dmPanel, dmFile, dmDev, dmMeant, dmBeside>> /\ Keep

\* A request ddcutil reports an error for, after a retry, fails the write.
Refused(d) ==
    /\ dmOp[d].step = "begin" /\ dmDev[d].bus # None /\ Stirs
    /\ Over(d)
    /\ UNCHANGED <<dmPanel, dmFile, dmDev, dmMeant>> /\ Keep

SetPanel(d, panel) == dmPanel' = [dmPanel EXCEPT ![Target(d)] = panel]
Meant(d, field, value) == dmMeant' = [dmMeant EXCEPT ![Target(d)] = [@ EXCEPT ![field] = value]]
Open(d) == dmDev[d].bus # None

\* A continuous feature: the panel may settle on a value near the one asked for, or keep its own.
PutLum(d) ==
    /\ At(d, "lum", "begin") /\ Open(d)
    /\ \/ SetPanel(d, [Reached(d) EXCEPT !.lum = Settled(dmOp[d].to)]) /\ Meant(d, "lum", Settled(dmOp[d].to)) /\ Calm
       \/ UNCHANGED <<dmPanel, dmMeant>> /\ Stirs
    /\ Step(d, [step |-> "readback"])
    /\ UNCHANGED <<dmFile, dmDev>> /\ Keep

\* Near enough is taken for a feature that was not calibrated, if it moved at all.
Lands(d, actual) == actual = dmOp[d].to \/ (dmDev[d].range = NoRange /\ actual # dmDev[d].rows.lum)

JudgedBlindly(d, actual) == dmOp[d].to
Judged(d, actual) == actual

ReadLum(d) ==
    /\ At(d, "lum", "readback") /\ Open(d)
    /\ dmDev' = IF Lands(d, Reached(d).lum) THEN [dmDev EXCEPT ![d].rows.lum = Judged(d, Reached(d).lum)] ELSE dmDev
    /\ Over(d)
    /\ UNCHANGED <<dmPanel, dmFile, dmMeant>> /\ Keep /\ Calm

\* The computer of one input: the word is read, one field of it changed, and written back.
ReadWord(d) ==
    /\ At(d, "kvm", "begin") /\ Open(d)
    /\ Step(d, [step |-> "put", word |-> Reached(d).word])
    /\ UNCHANGED <<dmPanel, dmFile, dmDev, dmMeant>> /\ Keep /\ Calm

FieldAlone(word, at, to) == [i \in Inputs |-> IF i = at THEN to ELSE 0]
WithField(word, at, to) == [word EXCEPT ![at] = to]

PutWord(d) ==
    /\ At(d, "kvm", "put") /\ Open(d)
    /\ SetPanel(d, [Reached(d) EXCEPT !.word = WithField(dmOp[d].word, dmOp[d].at, dmOp[d].to)])
    /\ Meant(d, "word", [dmMeant[Target(d)].word EXCEPT ![dmOp[d].at] = dmOp[d].to])
    /\ Step(d, [step |-> "readback"])
    /\ UNCHANGED <<dmFile, dmDev>> /\ Keep /\ Calm

ReadBackWord(d) ==
    /\ At(d, "kvm", "readback") /\ Open(d)
    /\ dmDev' = IF Reached(d).word[dmOp[d].at] = dmOp[d].to THEN [dmDev EXCEPT ![d].rows.word = Reached(d).word] ELSE dmDev
    /\ Over(d)
    /\ UNCHANGED <<dmPanel, dmFile, dmMeant>> /\ Keep /\ Calm

\* A picture beside the picture blanks the panel, which answers nothing until it is back; it is
\* asked a few times, and believed if it never answers.
PutPip(d) ==
    /\ At(d, "pip", "begin") /\ Open(d)
    /\ \/ SetPanel(d, [Reached(d) EXCEPT !.pip = dmOp[d].to, !.blank = TRUE]) /\ Calm
       \/ UNCHANGED dmPanel /\ Stirs
    /\ Step(d, [step |-> "readback"])
    /\ UNCHANGED <<dmFile, dmDev, dmMeant>> /\ Keep

PipTries == 2
Came(d) == ~Reached(d).blank /\ Reached(d).pip = dmOp[d].to

AskPip(d) ==
    /\ At(d, "pip", "readback") /\ Open(d)
    /\ IF ~Came(d) /\ dmOp[d].tries + 1 < PipTries THEN Step(d, [tries |-> dmOp[d].tries + 1]) /\ UNCHANGED dmDev
       ELSE /\ dmDev' = IF Came(d) \/ Reached(d).blank THEN [dmDev EXCEPT ![d].rows.pip = dmOp[d].to] ELSE dmDev
            /\ Over(d)
    /\ UNCHANGED <<dmPanel, dmFile, dmMeant>> /\ Keep /\ Calm

BackOnScreen(m) ==
    /\ dmPanel[m].blank
    /\ dmPanel' = [dmPanel EXCEPT ![m].blank = FALSE]
    /\ UNCHANGED <<dmFile, dmDev, dmOp, dmMeant>> /\ Keep /\ Calm

FactoryReset(d) ==
    /\ At(d, "reset", "begin") /\ Open(d)
    /\ SetPanel(d, [lum |-> 2, word |-> <<0, 0>>, pip |-> 0, blank |-> FALSE])
    /\ dmMeant' = [dmMeant EXCEPT ![Target(d)] = [lum |-> 2, word |-> <<0, 0>>]]
    /\ Step(d, [step |-> "snapshot"])
    /\ UNCHANGED <<dmFile, dmDev>> /\ Keep /\ Calm

Reread(d) ==
    /\ At(d, "reread", "begin") /\ Open(d)
    /\ Step(d, [step |-> "snapshot"])
    /\ UNCHANGED <<dmPanel, dmFile, dmDev, dmMeant>> /\ Keep /\ Calm

TakeSnapshot(d) ==
    /\ dmOp[d].step = "snapshot" /\ Open(d)
    /\ dmDev' = [dmDev EXCEPT ![d].rows = Snapshot(d, @)]
    /\ Over(d)
    /\ UNCHANGED <<dmPanel, dmFile, dmMeant>> /\ Keep /\ Calm

-----------------------------------------------------------------------------
(* Calibration: the feature is set to what shows its lowest value and its steps, and then set back *)
(* to what it was, also when a request failed.  The range found goes into the file.                *)

BeginProbe(d) ==
    /\ At(d, "calibrate", "begin") /\ Open(d)
    /\ Step(d, [step |-> "probe", was |-> Reached(d).lum])
    /\ UNCHANGED <<dmPanel, dmFile, dmDev, dmMeant>> /\ Keep /\ Calm

Probe(d) ==
    /\ At(d, "calibrate", "probe") /\ Open(d)
    /\ \/ SetPanel(d, [Reached(d) EXCEPT !.lum = 0]) /\ Step(d, [step |-> "restore", to |-> 1]) /\ Calm
       \/ UNCHANGED dmPanel /\ Step(d, [step |-> "restore", to |-> 0]) /\ Stirs
    /\ UNCHANGED <<dmFile, dmDev, dmMeant>> /\ Keep

LeftAsProbed(d) == Reached(d)
Restored(d) == [Reached(d) EXCEPT !.lum = dmOp[d].was]

\* A probe that failed leaves the feature without a range, and the calibration without one an error.
Restore(d) ==
    /\ At(d, "calibrate", "restore") /\ Open(d)
    /\ \/ SetPanel(d, Restored(d)) /\ Calm
       \/ UNCHANGED dmPanel /\ Stirs
    /\ IF dmOp[d].to = 1 THEN Step(d, [step |-> "load"]) ELSE Over(d)
    /\ UNCHANGED <<dmFile, dmDev, dmMeant>> /\ Keep

LoadFile(d) ==
    /\ At(d, "calibrate", "load") /\ Open(d)
    /\ dmDev' = [dmDev EXCEPT ![d].range = "even"]
    /\ Step(d, [step |-> "save", file |-> dmFile])
    /\ UNCHANGED <<dmPanel, dmFile, dmMeant>> /\ Keep
    /\ UNCHANGED dmCount /\ dmBeside' = (dmBeside \/ \E e \in Mons : At(e, "calibrate", "save"))

EntryAlone(file, d) == [m \in Mons |-> IF m = d THEN "even" ELSE None]
WithEntry(file, d) == [file EXCEPT ![d] = "even"]

SaveFile(d) ==
    /\ At(d, "calibrate", "save") /\ Open(d)
    /\ dmFile' = WithEntry(dmOp[d].file, d)
    /\ Step(d, [step |-> "snapshot"])
    /\ UNCHANGED <<dmPanel, dmDev, dmMeant>> /\ Keep /\ Calm

\* The monitor's own menu, and cables put into each other's place.
Menu(m) ==
    /\ dmPanel' = [dmPanel EXCEPT ![m].lum = 4] /\ dmMeant' = [dmMeant EXCEPT ![m].lum = 4]
    /\ Stirs
    /\ UNCHANGED <<dmFile, dmDev, dmOp>> /\ Keep

SwapCables ==
    /\ Stirs
    /\ dmBus' = [m \in Mons |-> dmBus[CHOOSE n \in Mons : n # m]]
    /\ UNCHANGED <<dmPanel, dmSeen, dmFile, dmDev, dmOp, dmMeant>>

Next ==
    \/ \E d \in Mons :
          \/ Connect(d) \/ Disconnect(d) \/ GoneMidway(d) \/ \E job \in Kinds : StartSet(d, job)
          \/ Refused(d) \/ PutLum(d) \/ ReadLum(d) \/ ReadWord(d) \/ PutWord(d) \/ ReadBackWord(d)
          \/ PutPip(d) \/ AskPip(d) \/ BackOnScreen(d) \/ FactoryReset(d) \/ Reread(d) \/ TakeSnapshot(d)
          \/ BeginProbe(d) \/ Probe(d) \/ Restore(d) \/ LoadFile(d) \/ SaveFile(d) \/ Menu(d)
    \/ Expire \/ SwapCables

Spec == Init /\ [][Next]_dmVars

-----------------------------------------------------------------------------
TypeOK ==
    /\ \A m \in Mons : dmPanel[m].lum \in Lums /\ dmSeen[m] \in Buses \cup {None} /\ dmFile[m] \in {None, "even"}
    /\ \A d \in Mons : dmDev[d].bus \in Buses \cup {None} /\ dmDev[d].range \in {None, "even"}

AtRest(d) == Open(d) /\ dmOp[d].kind = "none"

\* What a row shows is what the panel reported, not what was asked of it: values it settled on,
\* fields of a word that other rows wrote, and everything a factory reset or a calibration touched.
RowsAreReadBack ==
    \A d \in Mons : (AtRest(d) /\ ~dmBeside) =>
        dmDev[d].rows.lum = Reached(d).lum /\ dmDev[d].rows.word = Reached(d).word

\* Calibration tries values on a panel in use, and writing one field of a word writes it all: at
\* rest a panel is set to what it was last set to, no more and no less.
PanelIsAsMeant ==
    \A d \in Mons : (AtRest(d) /\ ~dmBeside) =>
        Reached(d).lum = dmMeant[Target(d)].lum /\ Reached(d).word = dmMeant[Target(d)].word

\* One file holds the calibrations of all monitors: saving one keeps the others, as long as two are
\* not saved at the same moment.
CalibrationsAreKept == \A d \in Mons : (Open(d) /\ ~dmBeside /\ dmOp[d].kind # "calibrate") => dmFile[d] = dmDev[d].range
=============================================================================
