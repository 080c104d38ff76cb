---------------------------- MODULE VendorFiles ----------------------------
(***************************************************************************)
(* Files that are not the program's own: the data a module takes from its  *)
(* manufacturer, downloaded or taken out of an installer, and the photo of *)
(* a device, chosen by the user or fetched from the vendor.  Each is       *)
(* checked first and then put where the next start finds it.               *)
(***************************************************************************)
EXTENDS Naturals, FiniteSets

CONSTANTS
    Sources,        \* how a module obtains its data: "fetch", "installer"
    Writers,        \* who may store a photo: the user and a fetch
    None,
    MaxVfJobs,      \* bound: imports and photos
    MaxVfStirs      \* bound: crashes, failing writes, releases of the program

VARIABLES
    vfSource,       \* how this module obtains its data
    vfData,         \* what is installed: [state, version]
    vfNote,         \* the note beside it of where it came from: [state, version]
    vfPin,          \* the version this release of the module asks for
    vfImport,       \* the import under way: [step, payload, note]
    vfPhotos,       \* the photo files of one device: suffix -> photo, 0 for none, Part for a part of one
    vfStore,        \* the photo each writer is storing: [step, suffix, photo]
    vfLast,         \* the photo stored last, 0 for none (ghost)
    vfBeside,       \* did a write fail, the program end midway, or two store at once (ghost)
    vfCount

vfVars == <<vfSource, vfData, vfNote, vfPin, vfImport, vfPhotos, vfStore, vfLast, vfBeside, vfCount>>

Versions == 1..2
Photos == 1..MaxVfJobs
Part == MaxVfJobs + 1
\* In the order in which they are looked for; a file being written has one suffix more.
Suffixes == {"jpg", "jpg.tmp", "png", "png.tmp"}
Images == {"jpg", "png"}
Temporary(suffix) == IF suffix = "jpg" THEN "jpg.tmp" ELSE "png.tmp"
NoFile == [state |-> "none", version |-> 0]
Torn == [state |-> "torn", version |-> 0]
Whole(v) == [state |-> "whole", version |-> v]

NoImport == [step |-> "off", payload |-> "none", tried |-> FALSE]
NoStore == [step |-> "off", suffix |-> "jpg", photo |-> 0]

Init ==
    /\ vfSource \in Sources
    /\ vfData = NoFile /\ vfNote = NoFile /\ vfPin = 1
    /\ vfImport = NoImport
    /\ vfPhotos = [s \in Suffixes |-> 0] /\ vfStore = [w \in Writers |-> NoStore]
    /\ vfLast = 0 /\ vfBeside = FALSE
    /\ vfCount = [jobs |-> 0, stirs |-> 0]

Bump(field) == vfCount' = [vfCount EXCEPT ![field] = @ + 1]
Stirs == vfCount.stirs < MaxVfStirs /\ Bump("stirs") /\ vfBeside' = TRUE
Calm == UNCHANGED <<vfCount, vfBeside>>
KeepPhotos == UNCHANGED <<vfPhotos, vfStore, vfLast>>
KeepAssets == UNCHANGED <<vfSource, vfData, vfNote, vfPin, vfImport>>

-----------------------------------------------------------------------------
(* Vendor data.  It is offered when a device is opened and is missing or older than asked for.      *)

\* An installer's data has no version to ask for.
Expected == IF vfSource = "fetch" THEN vfPin ELSE 0
Status ==
    IF vfData.state = "none" THEN "missing"
    ELSE IF vfNote.state = "whole" /\ Expected # 0 /\ vfNote.version # Expected THEN "stale" ELSE "present"

\* The user may decline, which is no error; what is taken may be what is expected or not.
Offer ==
    /\ vfImport.step = "off" /\ Status # "present" /\ vfCount.jobs < MaxVfJobs
    /\ Bump("jobs") /\ UNCHANGED vfBeside
    /\ \E payload \in {"good", "corrupt", "other"} : vfImport' = [step |-> "obtain", payload |-> payload, tried |-> TRUE]
    /\ UNCHANGED <<vfSource, vfData, vfNote, vfPin>> /\ KeepPhotos

\* A digest, a size, a number of entries; the data in an unpacked installer, converted aside.
AcceptsAll(payload) == payload # "corrupt"
Accepts(payload) == payload = "good"

CheckPayload ==
    /\ vfImport.step = "obtain"
    /\ vfImport' = IF Accepts(vfImport.payload) THEN [vfImport EXCEPT !.step = IF vfSource = "fetch" THEN "write" ELSE "clear"] ELSE NoImport
    /\ UNCHANGED <<vfSource, vfData, vfNote, vfPin>> /\ KeepPhotos /\ Calm

\* A download is written over what is there; an installer's data takes the place of the whole directory.
Clear ==
    /\ vfImport.step = "clear"
    /\ vfData' = NoFile /\ vfNote' = NoFile
    /\ vfImport' = [vfImport EXCEPT !.step = "write"]
    /\ UNCHANGED <<vfSource, vfPin>> /\ KeepPhotos /\ Calm

BeginWrite ==
    /\ vfImport.step = "write"
    /\ vfData' = Torn
    /\ vfImport' = [vfImport EXCEPT !.step = "written"]
    /\ UNCHANGED <<vfSource, vfNote, vfPin>> /\ KeepPhotos /\ Calm

EndWrite ==
    /\ vfImport.step = "written"
    /\ \/ vfData' = (IF vfImport.payload = "good" THEN Whole(vfPin) ELSE Torn) /\ vfImport' = [vfImport EXCEPT !.step = "note"] /\ Calm
       \/ UNCHANGED vfData /\ vfImport' = NoImport /\ Stirs
    /\ UNCHANGED <<vfSource, vfNote, vfPin>> /\ KeepPhotos

Unnoted == vfNote

Noted == Whole(Expected)

WriteNote ==
    /\ vfImport.step = "note"
    /\ vfNote' = Noted
    /\ vfImport' = NoImport
    /\ UNCHANGED <<vfSource, vfData, vfPin>> /\ KeepPhotos /\ Calm

\* A later release of the program asks for a later version.
Release ==
    /\ vfPin < 2 /\ vfImport.step = "off" /\ vfCount.stirs < MaxVfStirs
    /\ vfPin' = vfPin + 1
    /\ Bump("stirs")
    /\ UNCHANGED <<vfSource, vfData, vfNote, vfImport, vfBeside>> /\ KeepPhotos

-----------------------------------------------------------------------------
(* The photo of a device.  A photo is named for the device and for what kind of image it is: the    *)
(* old one goes first, the new one is written beside its place and then put there.                  *)

StartStore(w, suffix) ==
    /\ vfStore[w].step = "off" /\ vfCount.jobs < MaxVfJobs
    /\ Bump("jobs")
    /\ vfStore' = [vfStore EXCEPT ![w] = [step |-> "remove", suffix |-> suffix, photo |-> vfCount.jobs + 1]]
    /\ vfBeside' = (vfBeside \/ \E o \in Writers \ {w} : vfStore[o].step # "off")
    /\ KeepAssets /\ UNCHANGED <<vfPhotos, vfLast>>

KeepOthers(photos, suffix) == [photos EXCEPT ![suffix] = 0]
Emptied(photos, suffix) == [s \in Suffixes |-> 0]

RemoveOld(w) ==
    /\ vfStore[w].step = "remove"
    /\ vfPhotos' = Emptied(vfPhotos, vfStore[w].suffix)
    /\ vfStore' = [vfStore EXCEPT ![w].step = "begin"]
    /\ vfLast' = 0
    /\ KeepAssets /\ Calm

WritePart(w) ==
    /\ vfStore[w].step = "begin"
    /\ vfPhotos' = [vfPhotos EXCEPT ![Temporary(vfStore[w].suffix)] = Part]
    /\ vfStore' = [vfStore EXCEPT ![w].step = "part"]
    /\ KeepAssets /\ UNCHANGED vfLast /\ Calm

\* Put in its place, or not, when the disk is full; another writer may have put it there.
PutInPlace(w) ==
    /\ vfStore[w].step = "part"
    /\ LET suffix == vfStore[w].suffix IN
          \/ /\ vfPhotos[Temporary(suffix)] # 0
             /\ vfPhotos' = [vfPhotos EXCEPT ![suffix] = vfStore[w].photo, ![Temporary(suffix)] = 0]
             /\ vfLast' = vfStore[w].photo /\ Calm
          \/ vfPhotos[Temporary(suffix)] = 0 /\ UNCHANGED <<vfPhotos, vfLast>> /\ Calm
          \/ UNCHANGED <<vfPhotos, vfLast>> /\ Stirs
    /\ vfStore' = [vfStore EXCEPT ![w] = NoStore]
    /\ KeepAssets

ClearPhoto ==
    /\ vfPhotos # [s \in Suffixes |-> 0]
    /\ vfPhotos' = [s \in Suffixes |-> 0] /\ vfLast' = 0
    /\ vfBeside' = (vfBeside \/ \E w \in Writers : vfStore[w].step # "off")
    /\ KeepAssets /\ UNCHANGED <<vfStore, vfCount>>

\* The program ends midway.
Crash ==
    /\ vfImport.step # "off" \/ \E w \in Writers : vfStore[w].step # "off"
    /\ Stirs
    /\ vfImport' = NoImport /\ vfStore' = [w \in Writers |-> NoStore]
    /\ vfNote' \in IF vfImport.step = "note" THEN {vfNote, NoFile} ELSE {vfNote}
    /\ UNCHANGED <<vfSource, vfData, vfPin, vfPhotos, vfLast>>

\* The first file named for the device that is not empty.
Order == <<"jpg", "jpg.tmp", "png", "png.tmp">>
Cached ==
    IF \E i \in 1..4 : vfPhotos[Order[i]] # 0
    THEN vfPhotos[Order[CHOOSE i \in 1..4 : vfPhotos[Order[i]] # 0 /\ \A j \in 1..(i - 1) : vfPhotos[Order[j]] = 0]]
    ELSE 0

Next ==
    \/ Offer \/ CheckPayload \/ Clear \/ BeginWrite \/ EndWrite \/ WriteNote \/ Release
    \/ \E w \in Writers : (\E suffix \in Images : StartStore(w, suffix)) \/ RemoveOld(w) \/ WritePart(w) \/ PutInPlace(w)
    \/ ClearPhoto \/ Crash

Spec == Init /\ [][Next]_vfVars

-----------------------------------------------------------------------------
TypeOK ==
    /\ vfData.state \in {"none", "torn", "whole"} /\ vfNote.state \in {"none", "whole"} /\ vfPin \in Versions
    /\ \A s \in Suffixes : vfPhotos[s] \in Photos \cup {0, Part}

\* Imports are declined, corrupt, of something else, and repeated after a release asks for another
\* version: what counts as present is whole and what this release asks for.
PresentIsWhatIsAskedFor ==
    (vfImport.step = "off" /\ ~vfBeside /\ Status = "present") =>
        vfData.state = "whole" /\ vfNote.state = "whole" /\ (Expected # 0 => vfData.version = vfPin)

\* Photos of different kinds take each other's place: the one on the page is the one stored last.
PhotoIsTheLast == ((\A w \in Writers : vfStore[w].step = "off") /\ ~vfBeside) => Cached = vfLast

\* What is installed was checked, whatever became of the import that installed it.
PresentIsWhole == (vfImport.step = "off" /\ Status = "present") => vfData.state = "whole"

\* A photo is shown whole or not at all.
PhotoIsWhole == Cached # Part
=============================================================================
