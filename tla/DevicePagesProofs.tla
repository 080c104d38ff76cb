-------------------------- MODULE DevicePagesProofs --------------------------
(***************************************************************************)
(* The properties of DevicePages, for any values of its constants: what is *)
(* installed of the vendors' data, which rows the sidebar has, and what    *)
(* the pages of the devices show and their writes leave behind.            *)
(***************************************************************************)
EXTENDS DevicePages, PadKeyCardProofs, Sequences, FiniteSetTheorems, TLAPS

-----------------------------------------------------------------------------
(* VendorFiles. *)

VfSteps == {"off", "obtain", "clear", "write", "written", "note"}

\* What is installed when no import is under way: nothing, or whole data and the note of the
\* version it is of.
VfConsistent ==
    \/ vfData.state = "none" /\ vfNote.state = "none"
    \/ /\ vfData.state = "whole" /\ vfNote.state = "whole"
       /\ vfSource = "fetch" => vfNote.version = vfData.version

\* An import that nothing disturbed passes from one such state to the next.
VfImporting ==
    /\ vfPin \in 1..2
    /\ vfImport \in [step : VfSteps, payload : {"none", "good", "corrupt", "other"}, tried : BOOLEAN]
    /\ vfImport.step \notin {"off", "obtain"} => vfImport.payload = "good"
    /\ vfImport.step \in {"off", "obtain", "clear"} => VfConsistent
    /\ vfImport.step = "note" => vfData = Vf!Whole(vfPin)

VfInstalled == ~vfBeside => VfImporting

LEMMA VfInstalledInit == Vf!Init => VfInstalled
<1> SUFFICES ASSUME Vf!Init PROVE VfImporting
  BY DEF VfInstalled
<1>1. /\ vfImport = [step |-> "off", payload |-> "none", tried |-> FALSE]
      /\ vfData.state = "none" /\ vfNote.state = "none" /\ vfPin = 1
  BY DEF Vf!Init, Vf!NoFile, Vf!NoImport
<1>2. QED 
  BY <1>1 DEF VfImporting, VfSteps, VfConsistent

VfNext == Vf!Next \/ UNCHANGED vfVars

\* What the photos do leaves the import alone.
LEMMA VfPhotosLeaveImports ==
    ASSUME NEW w \in Writers,
           \/ \E suffix \in Vf!Images : Vf!StartStore(w, suffix)
           \/ Vf!RemoveOld(w) \/ Vf!WritePart(w) \/ Vf!PutInPlace(w)
    PROVE  /\ UNCHANGED <<vfSource, vfData, vfNote, vfPin, vfImport>>
           /\ vfBeside => vfBeside'
<1>1. CASE \E suffix \in Vf!Images : Vf!StartStore(w, suffix)
  BY <1>1 DEF Vf!StartStore, Vf!KeepAssets
<1>2. CASE Vf!RemoveOld(w) \/ Vf!WritePart(w)
  BY <1>2 DEF Vf!RemoveOld, Vf!WritePart, Vf!KeepAssets, Vf!Calm
<1>3. CASE Vf!PutInPlace(w)
  BY <1>3 DEF Vf!PutInPlace, Vf!KeepAssets, Vf!Calm, Vf!Stirs
<1>4. QED BY <1>1, <1>2, <1>3

LEMMA VfInstalledKept ==
    ASSUME VfInstalled, VfNext, ~vfBeside'
    PROVE  VfImporting'
<1> USE DEF VfImporting, VfSteps, VfInstalled
<1>1. CASE Vf!Offer
  BY <1>1 DEF Vf!Offer, VfConsistent
<1>2. CASE Vf!CheckPayload
  BY <1>2 DEF Vf!CheckPayload, Vf!Calm, Vf!Accepts, Vf!NoImport, VfConsistent
<1>3. CASE Vf!Clear
  BY <1>3 DEF Vf!Clear, Vf!Calm
<1>4. CASE Vf!BeginWrite
  BY <1>4 DEF Vf!BeginWrite, Vf!Calm
<1>5. CASE Vf!EndWrite
  BY <1>5 DEF Vf!EndWrite, Vf!Calm, Vf!Stirs
<1>6. CASE Vf!WriteNote
  BY <1>6 DEF Vf!WriteNote, Vf!Calm, Vf!Noted, Vf!Expected, Vf!Whole, Vf!NoImport, VfConsistent
<1>7. CASE Vf!Release
  BY <1>7 DEF Vf!Release, VfConsistent
<1>8. CASE Vf!Crash
  BY <1>8 DEF Vf!Crash, Vf!Stirs
<1>9. CASE UNCHANGED <<vfSource, vfData, vfNote, vfPin, vfImport>> /\ ~vfBeside
  BY <1>9 DEF VfConsistent
<1>10. CASE Vf!ClearPhoto \/ UNCHANGED vfVars
  BY <1>9, <1>10 DEF Vf!ClearPhoto, Vf!KeepAssets, vfVars
<1>11. QED
  BY <1>1, <1>2, <1>3, <1>4, <1>5, <1>6, <1>7, <1>8, <1>9, <1>10, VfPhotosLeaveImports
  DEF VfNext, Vf!Next

\* Data that is neither missing nor stale is what was noted for the version asked for.
LEMMA VfInstalledIsAskedFor ==
    ASSUME VfInstalled
    PROVE  Vf!PresentIsWhatIsAskedFor
BY DEF VfInstalled, VfImporting, VfConsistent, Vf!PresentIsWhatIsAskedFor, Vf!Status, Vf!Expected

\* The one photo there is, under the name of its kind, when nobody is storing another.
VfNoPhotos == [s \in Vf!Suffixes |-> 0]
VfShelved ==
    \/ vfPhotos = VfNoPhotos /\ vfLast = 0
    \/ \E s \in Vf!Images : vfPhotos = [VfNoPhotos EXCEPT ![s] = vfLast] /\ vfLast # 0

VfStores == [step : {"off", "remove", "begin", "part"}, suffix : Vf!Images, photo : Nat]

\* One photo is stored at a time; once the old one is gone there is the new one's part at most.
VfStoring ==
    /\ vfStore \in [Writers -> VfStores]
    /\ \A w \in Writers : vfStore[w].step # "off" => vfStore[w].photo # 0
    /\ \A w, o \in Writers : vfStore[w].step # "off" /\ vfStore[o].step # "off" => w = o
    /\ (\A w \in Writers : vfStore[w].step = "off") => VfShelved
    /\ \A w \in Writers :
          /\ vfStore[w].step = "begin" => vfPhotos = VfNoPhotos /\ vfLast = 0
          /\ vfStore[w].step = "part" =>
                vfPhotos = [VfNoPhotos EXCEPT ![Vf!Temporary(vfStore[w].suffix)] = Vf!Part]

VfCounts == vfCount \in [jobs : Nat, stirs : Nat]

VfStored == VfCounts /\ (~vfBeside => VfStoring)

LEMMA VfStoredInit == Vf!Init => VfStored
BY DEF Vf!Init, VfStored, VfCounts, VfStoring, VfStores, Vf!NoStore, VfShelved, VfNoPhotos, Vf!Images, Vf!Suffixes

LEMMA VfCountsKept == VfCounts /\ VfNext => VfCounts'
<1> SUFFICES ASSUME VfCounts, VfNext PROVE VfCounts'
  OBVIOUS
<1>1. CASE vfCount' = vfCount
  BY <1>1 DEF VfCounts
<1>2. CASE Vf!Bump("jobs") \/ Vf!Bump("stirs")
  BY <1>2 DEF VfCounts, Vf!Bump
<1>3. CASE UNCHANGED vfVars
  BY <1>1, <1>3 DEF vfVars
<1>4. CASE Vf!Next
  BY <1>1, <1>2, <1>4 DEF Vf!Next, Vf!Offer, Vf!CheckPayload, Vf!Clear, Vf!BeginWrite, Vf!EndWrite, Vf!WriteNote,
     Vf!Release, Vf!StartStore, Vf!RemoveOld, Vf!WritePart, Vf!PutInPlace, Vf!ClearPhoto, Vf!Crash, Vf!Calm, Vf!Stirs
<1>5. QED BY <1>3, <1>4 DEF VfNext

\* What a writer that is not off becomes, when it is the only one.
LEMMA VfOneStores ==
    ASSUME VfStoring, NEW w \in Writers, NEW new \in VfStores, vfStore' = [vfStore EXCEPT ![w] = new],
           \A o \in Writers \ {w} : vfStore[o].step = "off",
           new.step # "off" => new.photo # 0,
           new.step = "off" => VfShelved',
           new.step = "begin" => vfPhotos' = VfNoPhotos /\ vfLast' = 0,
           new.step = "part" => vfPhotos' = [VfNoPhotos EXCEPT ![Vf!Temporary(new.suffix)] = Vf!Part]
    PROVE  VfStoring'
<1>1. /\ vfStore' \in [Writers -> VfStores] /\ vfStore'[w] = new
      /\ \A o \in Writers \ {w} : vfStore'[o].step = "off"
  BY DEF VfStoring
<1> QED BY <1>1 DEF VfStoring

LEMMA VfOthersAreOff ==
    ASSUME VfStoring, NEW w \in Writers, vfStore[w].step # "off"
    PROVE  /\ \A o \in Writers \ {w} : vfStore[o].step = "off"
           /\ vfStore[w] \in VfStores /\ vfStore[w].photo # 0
BY DEF VfStoring

LEMMA VfStoreSteps ==
    ASSUME VfStored, MaxVfJobs \in Nat, NEW w \in Writers, ~vfBeside',
           \/ \E suffix \in Vf!Images : Vf!StartStore(w, suffix)
           \/ Vf!RemoveOld(w) \/ Vf!WritePart(w) \/ Vf!PutInPlace(w)
    PROVE  VfStoring'
<1>1. VfStoring
  BY VfPhotosLeaveImports DEF VfStored
<1>2. ASSUME NEW suffix \in Vf!Images, Vf!StartStore(w, suffix)
      PROVE  VfStoring'
  <2> DEFINE new == [step |-> "remove", suffix |-> suffix, photo |-> vfCount.jobs + 1]
  <2>1. new \in VfStores /\ new.photo # 0 /\ new.step = "remove"
    BY DEF VfStores, VfStored, VfCounts
  <2>2. vfStore' = [vfStore EXCEPT ![w] = new] /\ \A o \in Writers \ {w} : vfStore[o].step = "off"
    BY <1>2 DEF Vf!StartStore
  <2> HIDE DEF new
  <2>3. QED BY <1>1, <2>1, <2>2, VfOneStores
<1>3. CASE Vf!RemoveOld(w)
  <2> DEFINE new == [vfStore[w] EXCEPT !.step = "begin"]
  <2>1. vfStore[w].step # "off" /\ vfPhotos' = VfNoPhotos /\ vfLast' = 0 /\ vfStore' = [vfStore EXCEPT ![w] = new]
    BY <1>3 DEF Vf!RemoveOld, Vf!Emptied, VfNoPhotos
  <2>2. new \in VfStores /\ new.step = "begin" /\ new.photo # 0
    BY <1>1, <2>1, VfOthersAreOff DEF VfStores
  <2> HIDE DEF new
  <2>3. QED BY <1>1, <2>1, <2>2, VfOneStores, VfOthersAreOff
<1>4. CASE Vf!WritePart(w)
  <2> DEFINE new == [vfStore[w] EXCEPT !.step = "part"]
  <2>1. /\ vfStore[w].step # "off" /\ vfStore' = [vfStore EXCEPT ![w] = new]
        /\ vfPhotos' = [VfNoPhotos EXCEPT ![Vf!Temporary(vfStore[w].suffix)] = Vf!Part]
    BY <1>1, <1>4 DEF Vf!WritePart, VfStoring
  <2>2. new \in VfStores /\ new.step = "part" /\ new.photo # 0 /\ new.suffix = vfStore[w].suffix
    BY <1>1, <2>1, VfOthersAreOff DEF VfStores
  <2> HIDE DEF new
  <2>3. QED BY <1>1, <2>1, <2>2, VfOneStores, VfOthersAreOff
<1>5. CASE Vf!PutInPlace(w)
  <2> DEFINE suffix == vfStore[w].suffix
  <2>1. /\ vfStore[w].step = "part" /\ vfStore' = [vfStore EXCEPT ![w] = Vf!NoStore]
        /\ vfPhotos = [VfNoPhotos EXCEPT ![Vf!Temporary(suffix)] = Vf!Part]
        /\ suffix \in Vf!Images
    BY <1>1, <1>5, VfOthersAreOff DEF Vf!PutInPlace, VfStoring, VfStores
  <2>2. vfPhotos[Vf!Temporary(suffix)] # 0
    BY <2>1 DEF VfNoPhotos, Vf!Images, Vf!Suffixes, Vf!Temporary, Vf!Part
  <2>3. /\ vfPhotos' = [vfPhotos EXCEPT ![suffix] = vfStore[w].photo, ![Vf!Temporary(suffix)] = 0]
        /\ vfLast' = vfStore[w].photo
    BY <1>5, <2>2 DEF Vf!PutInPlace, Vf!Stirs
  <2>4. vfPhotos' = [VfNoPhotos EXCEPT ![suffix] = vfLast'] /\ vfLast' # 0
    BY <1>1, <2>1, <2>3, VfOthersAreOff DEF VfNoPhotos, Vf!Images, Vf!Suffixes, Vf!Temporary
  <2>5. VfShelved'
    BY <2>1, <2>4 DEF VfShelved
  <2>6. Vf!NoStore \in VfStores /\ Vf!NoStore.step = "off"
    BY DEF Vf!NoStore, VfStores, Vf!Images
  <2>7. QED BY <1>1, <2>1, <2>5, <2>6, VfOneStores, VfOthersAreOff
<1>6. QED BY <1>2, <1>3, <1>4, <1>5

LEMMA VfStoredKept ==
    ASSUME VfStored, MaxVfJobs \in Nat, VfNext
    PROVE  VfStored'
<1> SUFFICES ASSUME ~vfBeside' PROVE VfStoring'
  BY VfCountsKept DEF VfStored
<1>1. CASE Vf!ClearPhoto
  <2>1. ~vfBeside /\ vfPhotos' = VfNoPhotos /\ vfLast' = 0 /\ vfStore' = vfStore
        /\ \A w \in Writers : vfStore[w].step = "off"
    BY <1>1 DEF Vf!ClearPhoto, VfNoPhotos
  <2>2. QED BY <2>1 DEF VfStored, VfStoring, VfShelved
<1>2. CASE Vf!Crash
  BY <1>2 DEF Vf!Crash, Vf!Stirs
<1>3. CASE UNCHANGED <<vfPhotos, vfStore, vfLast, vfBeside>>
  BY <1>3 DEF VfStored, VfStoring, VfShelved
<1>4. CASE Vf!Offer \/ Vf!CheckPayload \/ Vf!Clear \/ Vf!BeginWrite \/ Vf!EndWrite \/ Vf!WriteNote \/ Vf!Release
  BY <1>3, <1>4 DEF Vf!Offer, Vf!CheckPayload, Vf!Clear, Vf!BeginWrite, Vf!EndWrite, Vf!WriteNote,
     Vf!Release, Vf!KeepPhotos, Vf!Calm, Vf!Stirs
<1>5. CASE UNCHANGED vfVars
  BY <1>3, <1>5 DEF vfVars
<1>6. QED
  BY <1>1, <1>2, <1>4, <1>5, VfStoreSteps DEF VfNext, Vf!Next

\* The first file there is, in the order in which they are looked for, is the one there is.
LEMMA VfStoredIsTheLast ==
    ASSUME VfStored
    PROVE  Vf!PhotoIsTheLast
<1> SUFFICES ASSUME VfShelved PROVE Vf!Cached = vfLast
  BY DEF VfStored, VfStoring, Vf!PhotoIsTheLast
<1>1. CASE vfPhotos = VfNoPhotos /\ vfLast = 0
  BY <1>1 DEF Vf!Cached, VfNoPhotos, Vf!Suffixes, Vf!Order
<1>2. ASSUME NEW s \in Vf!Images, vfPhotos = [VfNoPhotos EXCEPT ![s] = vfLast], vfLast # 0
      PROVE  Vf!Cached = vfLast
  <2>1. PICK k \in 1..4 : Vf!Order[k] = s /\ \A i \in 1..4 : vfPhotos[Vf!Order[i]] # 0 <=> i = k
    BY <1>2 DEF VfNoPhotos, Vf!Suffixes, Vf!Order, Vf!Images
  <2>2. vfPhotos[s] = vfLast
    BY <1>2 DEF VfNoPhotos, Vf!Suffixes, Vf!Images
  <2>3. \A i \in 1..4 : (vfPhotos[Vf!Order[i]] # 0 /\ \A j \in 1..(i - 1) : vfPhotos[Vf!Order[j]] = 0) <=> i = k
    BY <2>1
  <2>4. (CHOOSE i \in 1..4 : vfPhotos[Vf!Order[i]] # 0 /\ \A j \in 1..(i - 1) : vfPhotos[Vf!Order[j]] = 0) = k
    BY <2>3
  <2>5. QED BY <2>1, <2>2, <2>4 DEF Vf!Cached
<1>3. QED BY <1>1, <1>2 DEF VfShelved

\* The type invariant of the files.
VfTyped ==
    /\ vfData \in [state : {"none", "torn", "whole"}, version : 0..2]
    /\ vfNote \in [state : {"none", "whole"}, version : 0..2]
    /\ vfPin \in 1..2
    /\ vfPhotos \in [Vf!Suffixes -> 0..(MaxVfJobs + 1)]
    /\ vfStore \in [Writers -> [step : {"off", "remove", "begin", "part"}, suffix : Vf!Images, photo : 0..MaxVfJobs]]
    /\ VfCounts

LEMMA VfTypedInit == Vf!Init => VfTyped
BY JobsAssumption DEF Vf!Init, VfTyped, VfCounts, Vf!NoFile, Vf!NoStore, Vf!Images

LEMMA VfTypedKept ==
    ASSUME VfTyped, VfNext
    PROVE  VfTyped'
<1>1. VfCounts'
  BY VfCountsKept DEF VfTyped
<1>2. CASE UNCHANGED <<vfData, vfNote, vfPin, vfPhotos, vfStore>>
  BY <1>1, <1>2 DEF VfTyped
<1>3. CASE Vf!Offer \/ Vf!CheckPayload \/ UNCHANGED vfVars
  BY <1>2, <1>3 DEF Vf!Offer, Vf!CheckPayload, Vf!KeepPhotos, vfVars
<1>4. CASE Vf!Clear \/ Vf!BeginWrite \/ Vf!EndWrite \/ Vf!WriteNote \/ Vf!Release
  <2>1. UNCHANGED <<vfPhotos, vfStore>>
    BY <1>4 DEF Vf!Clear, Vf!BeginWrite, Vf!EndWrite, Vf!WriteNote, Vf!Release, Vf!KeepPhotos
  <2>2. vfPin' \in 1..2
    BY <1>4 DEF VfTyped, Vf!Clear, Vf!BeginWrite, Vf!EndWrite, Vf!WriteNote, Vf!Release
  <2>3. vfData' \in [state : {"none", "torn", "whole"}, version : 0..2]
    BY <1>4 DEF VfTyped, Vf!Clear, Vf!BeginWrite, Vf!EndWrite, Vf!WriteNote, Vf!Release, Vf!NoFile, Vf!Torn, Vf!Whole
  <2>4. vfNote' \in [state : {"none", "whole"}, version : 0..2]
    BY <1>4 DEF VfTyped, Vf!Clear, Vf!BeginWrite, Vf!EndWrite, Vf!WriteNote, Vf!Release, Vf!NoFile, Vf!Noted, Vf!Expected, Vf!Whole
  <2>5. QED BY <1>1, <2>1, <2>2, <2>3, <2>4 DEF VfTyped
<1>5. ASSUME NEW w \in Writers, NEW suffix \in Vf!Images, Vf!StartStore(w, suffix) PROVE VfTyped'
  <2> DEFINE new == [step |-> "remove", suffix |-> suffix, photo |-> vfCount.jobs + 1]
  <2>1. vfStore' = [vfStore EXCEPT ![w] = new] /\ vfCount.jobs < MaxVfJobs /\ UNCHANGED <<vfData, vfNote, vfPin, vfPhotos>>
    BY <1>5 DEF Vf!StartStore, Vf!KeepAssets
  <2>2. vfCount.jobs + 1 \in 0..MaxVfJobs
    BY <2>1, JobsAssumption DEF VfTyped, VfCounts
  <2>3. new \in [step : {"off", "remove", "begin", "part"}, suffix : Vf!Images, photo : 0..MaxVfJobs]
    BY <2>2
  <2> HIDE DEF new
  <2>4. QED BY <1>1, <2>1, <2>3 DEF VfTyped
<1>6. ASSUME NEW w \in Writers, Vf!RemoveOld(w) \/ Vf!WritePart(w) \/ Vf!PutInPlace(w) PROVE VfTyped'
  <2> DEFINE Store == [step : {"off", "remove", "begin", "part"}, suffix : Vf!Images, photo : 0..MaxVfJobs]
  <2>1. vfStore[w] \in Store /\ vfStore \in [Writers -> Store]
    BY DEF VfTyped
  <2>2. UNCHANGED <<vfData, vfNote, vfPin>>
    BY <1>6 DEF Vf!RemoveOld, Vf!WritePart, Vf!PutInPlace, Vf!KeepAssets
  <2>3. vfStore' \in [Writers -> Store]
    <3>1. CASE Vf!RemoveOld(w)
      <4>1. [vfStore[w] EXCEPT !.step = "begin"] \in Store
        BY <2>1
      <4>2. QED BY <2>1, <3>1, <4>1 DEF Vf!RemoveOld
    <3>2. CASE Vf!WritePart(w)
      <4>1. [vfStore[w] EXCEPT !.step = "part"] \in Store
        BY <2>1
      <4>2. QED BY <2>1, <3>2, <4>1 DEF Vf!WritePart
    <3>3. CASE Vf!PutInPlace(w)
      <4>1. Vf!NoStore \in Store
        BY JobsAssumption DEF Vf!NoStore, Vf!Images
      <4>2. QED BY <2>1, <3>3, <4>1 DEF Vf!PutInPlace
    <3>4. QED BY <1>6, <3>1, <3>2, <3>3
  <2>4. vfPhotos' \in [Vf!Suffixes -> 0..(MaxVfJobs + 1)]
    <3>1. CASE Vf!RemoveOld(w)
      BY <3>1, JobsAssumption DEF Vf!RemoveOld, Vf!Emptied
    <3>2. CASE Vf!WritePart(w)
      <4> DEFINE Photos == 0..(MaxVfJobs + 1)
      <4>1. Vf!Part \in Photos /\ vfPhotos \in [Vf!Suffixes -> Photos]
        BY JobsAssumption DEF VfTyped, Vf!Part
      <4> HIDE DEF Photos
      <4>2. vfPhotos' \in [Vf!Suffixes -> Photos]
        BY <3>2, <4>1 DEF Vf!WritePart
      <4>3. QED BY <4>2 DEF Photos
    <3>3. CASE Vf!PutInPlace(w)
      <4> DEFINE n == vfStore[w].photo
      <4>1. n \in 0..(MaxVfJobs + 1)
        BY <2>1, JobsAssumption
      <4>2. \/ UNCHANGED vfPhotos
            \/ vfPhotos' = [vfPhotos EXCEPT ![vfStore[w].suffix] = n, ![Vf!Temporary(vfStore[w].suffix)] = 0]
        BY <3>3 DEF Vf!PutInPlace
      <4> DEFINE Photos == 0..(MaxVfJobs + 1)
      <4>3. n \in Photos /\ 0 \in Photos /\ vfPhotos \in [Vf!Suffixes -> Photos]
        BY <4>1, JobsAssumption DEF VfTyped
      <4> HIDE DEF n, Photos
      <4>4. vfPhotos' \in [Vf!Suffixes -> Photos]
        BY <4>2, <4>3
      <4>5. QED BY <4>4 DEF Photos
    <3>4. QED BY <1>6, <3>1, <3>2, <3>3
  <2>5. QED BY <1>1, <2>2, <2>3, <2>4 DEF VfTyped
<1>7. CASE Vf!ClearPhoto
  BY <1>1, <1>7, JobsAssumption DEF VfTyped, Vf!ClearPhoto, Vf!KeepAssets
<1>8. CASE Vf!Crash
  <2>1. UNCHANGED <<vfData, vfPin, vfPhotos>> /\ vfStore' = [w \in Writers |-> Vf!NoStore] /\ vfNote' \in {vfNote, Vf!NoFile}
    BY <1>8 DEF Vf!Crash
  <2>2. Vf!NoStore \in [step : {"off", "remove", "begin", "part"}, suffix : Vf!Images, photo : 0..MaxVfJobs]
    BY JobsAssumption DEF Vf!NoStore, Vf!Images
  <2>3. QED BY <1>1, <2>1, <2>2 DEF VfTyped, Vf!NoFile
<1>9. QED BY <1>3, <1>4, <1>5, <1>6, <1>7, <1>8 DEF VfNext, Vf!Next

LEMMA VfTypedSuffices == VfTyped => Vf!TypeOK
BY JobsAssumption DEF VfTyped, Vf!TypeOK, Vf!Photos, Vf!Part, Vf!Versions

-----------------------------------------------------------------------------
(* DeviceSweep: what the rows are. *)

DsNext == Ds!Next \/ UNCHANGED dsVars

DsKinds == {"none", "keyboard", "mouse", "security_key", "dock_usb"}
DsPlace == [port : Ports \cup {None}, sub : 0..8]
DsId == [port : Ports \cup {None} \cup Ds!Machine, sub : 0..12]
DsAddr == [port : Ds!Machine \cup {None}, sub : {0}]
DsRow == [of : Ds!Machine \cup {"child"}, bus : {"hid", "usb", "bt", "drm", "v4l2"}, id : DsId, usb : DsPlace,
          addr : DsAddr, kind : DsKinds, fido : BOOLEAN, nodes : SUBSET (1..12), uuids : BOOLEAN,
          mod : Ds!Modules \cup {"none"}]
DsNode == [of : Ds!Machine, usb : DsPlace, uniq : DsAddr, kind : DsKinds, interfaces : 0..4, number : 1..12]

LEMMA DsNodeType ==
    ASSUME dsAt \in [Ds!Machine -> Ports \cup {None}], NEW t \in Ds!Machine
    PROVE  Ds!HidNodes(t) \subseteq DsNode
<1> DEFINE place(n) == [port |-> dsAt[t], sub |-> n]
<1>1. \A n \in 0..8 : place(n) \in DsPlace
  BY DEF DsPlace
<1>2. [port |-> None, sub |-> 0] \in DsPlace /\ [port |-> None, sub |-> 0] \in DsAddr /\ [port |-> t, sub |-> 0] \in DsAddr
  BY DEF DsPlace, DsAddr
<1> DEFINE none == [port |-> None, sub |-> 0]
           name == [port |-> t, sub |-> 0]
           node(u, q, k, i, n) == [of |-> t, usb |-> u, uniq |-> q, kind |-> k, interfaces |-> i, number |-> n]
<1>3. \A u \in DsPlace, q \in DsAddr, k \in DsKinds, i \in 0..4, n \in 1..12 : node(u, q, k, i, n) \in DsNode
  BY DEF DsNode
<1>4. Ds!HidNodes(t) \subseteq
        {node(place(1), none, "dock_usb", 2, 1), node(place(2), none, "dock_usb", 1, 2), node(place(3), none, "keyboard", 2, 3),
         node(place(3), none, "keyboard", 2, 4), node(place(4), none, "security_key", 2, 5), node(place(4), none, "keyboard", 2, 6),
         node(place(5), none, "none", 3, 7), node(place(6), none, "mouse", 3, 8), node(place(7), none, "none", 4, 9),
         node(none, name, "mouse", 0, 10)}
  <2>1. CASE t = "dock"
    BY <2>1 DEF Ds!HidNodes, Ds!HidNode, Ds!Usb, Ds!NoUsb, Ds!At, Ds!Name
  <2>2. CASE t = "board"
    BY <2>2 DEF Ds!HidNodes, Ds!HidNode, Ds!Usb, Ds!NoUsb, Ds!At, Ds!Name
  <2>3. CASE t \in {"yubi", "card"}
    BY <2>3 DEF Ds!HidNodes, Ds!HidNode, Ds!Usb, Ds!NoUsb, Ds!At, Ds!Name
  <2>4. CASE t \in {"receiver", "camera"}
    BY <2>4 DEF Ds!HidNodes, Ds!HidNode, Ds!Usb, Ds!NoUsb, Ds!At, Ds!Name
  <2>5. CASE t \notin {"dock", "board", "yubi", "card", "receiver", "camera"}
    BY <2>5 DEF Ds!HidNodes, Ds!HidNode, Ds!Usb, Ds!NoUsb, Ds!At, Ds!Name
  <2>6. QED BY <2>1, <2>2, <2>3, <2>4, <2>5
<1> HIDE DEF node, place, none, name
<1>5. place(1) \in DsPlace /\ place(2) \in DsPlace /\ place(3) \in DsPlace /\ place(4) \in DsPlace
      /\ place(5) \in DsPlace /\ place(6) \in DsPlace /\ place(7) \in DsPlace
  BY <1>1
<1>6. none \in DsPlace /\ none \in DsAddr /\ name \in DsAddr
  BY <1>2 DEF none, name
<1>7. QED BY <1>3, <1>4, <1>5, <1>6 DEF DsKinds

\* Among nodes there is one with the most interfaces.
LEMMA DsBest ==
    ASSUME NEW M, M \subseteq DsNode, M # {}, NEW kind
    PROVE  \E n \in M : \A o \in M : Ds!Rank(n, kind) >= Ds!Rank(o, kind)
<1> DEFINE r(n) == Ds!Rank(n, kind)
<1>1. \A n \in M : r(n) \in 0..14
  BY DEF Ds!Rank, DsNode
<1> HIDE DEF r
<1> SUFFICES \E n \in M : \A o \in M : r(n) >= r(o)
  BY DEF r
<1> DEFINE reach(k) == \E o \in M : r(o) >= k
<1>2. reach(0)
  BY <1>1
<1>3. ~reach(15)
  BY <1>1
<1>4. \E k \in 0..14 : reach(k) /\ ~reach(k + 1)
  <2> HIDE DEF reach
  <2> SUFFICES ASSUME \A k \in 0..14 : reach(k) => reach(k + 1) PROVE FALSE
    OBVIOUS
  <2>1. reach(1) BY <1>2
  <2>2. reach(2) BY <2>1
  <2>3. reach(3) BY <2>2
  <2>4. reach(4) BY <2>3
  <2>5. reach(5) BY <2>4
  <2>6. reach(6) BY <2>5
  <2>7. reach(7) BY <2>6
  <2>8. reach(8) BY <2>7
  <2>9. reach(9) BY <2>8
  <2>10. reach(10) BY <2>9
  <2>11. reach(11) BY <2>10
  <2>12. reach(12) BY <2>11
  <2>13. reach(13) BY <2>12
  <2>14. reach(14) BY <2>13
  <2>15. QED BY <2>14, <1>3
<1>5. PICK k \in 0..14 : reach(k) /\ ~reach(k + 1)
  BY <1>4
<1>6. PICK n \in M : r(n) >= k
  BY <1>5
<1>7. \A o \in M : r(n) >= r(o)
  BY <1>1, <1>5, <1>6
<1>8. QED BY <1>7

LEMMA DsBareRow ==
    ASSUME NEW t \in Ds!Machine \cup {"child"}, NEW bus \in {"hid", "usb", "bt", "drm", "v4l2"}, NEW id \in DsId
    PROVE  Ds!Row(t, bus, id) \in DsRow
<1>1. [port |-> None, sub |-> 0] \in DsPlace /\ [port |-> None, sub |-> 0] \in DsAddr
  BY DEF DsPlace, DsAddr
<1>2. QED BY <1>1 DEF Ds!Row, DsRow, Ds!NoUsb, Ds!Usb, DsKinds

LEMMA DsGroupKindType ==
    ASSUME NEW M, M \subseteq DsNode
    PROVE  Ds!GroupKind(M) \in DsKinds
<1>1. CASE \E n \in M : n.kind \in Ds!SpecificKinds
  BY <1>1 DEF Ds!GroupKind, DsNode
<1>2. CASE ~(\E n \in M : n.kind \in Ds!SpecificKinds) /\ \E n \in M : n.kind # "none"
  BY <1>2 DEF Ds!GroupKind, DsNode
<1>3. CASE ~(\E n \in M : n.kind \in Ds!SpecificKinds) /\ ~\E n \in M : n.kind # "none"
  BY <1>3 DEF Ds!GroupKind, DsKinds
<1>4. QED BY <1>1, <1>2, <1>3

LEMMA DsHidRowType ==
    ASSUME NEW M, M \subseteq DsNode, M # {}
    PROVE  Ds!HidRow(M) \in DsRow
<1> DEFINE kind == Ds!GroupKind(M)
           best == CHOOSE n \in M : \A o \in M : Ds!Rank(n, kind) >= Ds!Rank(o, kind)
           id == IF best.uniq # Ds!NoUsb THEN best.uniq ELSE best.usb
           numbers == {n.number : n \in M}
           fido == \E n \in M : n.kind = "security_key"
           row == Ds!Row(best.of, "hid", id)
<1>1. Ds!HidRow(M) = [row EXCEPT !.usb = best.usb, !.addr = best.uniq, !.kind = kind, !.nodes = numbers, !.fido = fido]
  BY DEF Ds!HidRow
<1>2. best \in M
  BY DsBest
<1>3. kind \in DsKinds
  BY DsGroupKindType
<1> HIDE DEF kind, best
<1>4. best.of \in Ds!Machine /\ best.usb \in DsPlace /\ best.uniq \in DsAddr
  BY <1>2 DEF DsNode
<1>5. id \in DsId
  BY <1>4 DEF DsId, DsPlace, DsAddr
<1>6. numbers \in SUBSET (1..12)
  BY DEF DsNode
<1>7. fido \in BOOLEAN
  OBVIOUS
<1> HIDE DEF id, numbers, fido
<1>8. row \in DsRow
  BY <1>4, <1>5, DsBareRow
<1> HIDE DEF row
<1>9. QED BY <1>1, <1>3, <1>4, <1>6, <1>7, <1>8 DEF DsRow

LEMMA DsFoundType ==
    ASSUME dsAt \in [Ds!Machine -> Ports \cup {None}], NEW bus
    PROVE  Ds!Found(bus) \subseteq DsRow
<1>0. /\ \A t \in Ds!Machine, n \in 0..8 : Ds!Usb(dsAt[t], n) \in DsPlace /\ Ds!Usb(dsAt[t], n) \in DsId
      /\ \A t \in Ds!Machine : Ds!Name(t) \in DsAddr /\ Ds!Name(t) \in DsId
  BY DEF Ds!Usb, Ds!Name, DsPlace, DsAddr, DsId
<1>1. Ds!EnumerateHid \subseteq DsRow
  <2> DEFINE nodes == UNION {Ds!HidNodes(t) : t \in {u \in Ds!Machine : Ds!Here(u)}}
             members(key) == {n \in nodes : Ds!GroupKey(n) = key}
  <2>1. nodes \subseteq DsNode
    BY DsNodeType
  <2>2. Ds!EnumerateHid = {Ds!HidRow(members(key)) : key \in {Ds!GroupKey(n) : n \in nodes}}
    BY DEF Ds!EnumerateHid
  <2> HIDE DEF nodes
  <2>3. ASSUME NEW n \in nodes PROVE Ds!HidRow(members(Ds!GroupKey(n))) \in DsRow
    <3> DEFINE M == members(Ds!GroupKey(n))
    <3>1. M \subseteq DsNode /\ n \in M
      BY <2>1
    <3> HIDE DEF M
    <3>2. Ds!HidRow(M) \in DsRow
      BY <3>1, DsHidRowType
    <3>3. QED BY <3>2 DEF M
  <2>4. QED BY <2>2, <2>3
<1>2. Ds!EnumerateUsb \subseteq DsRow
  <2> SUFFICES ASSUME NEW r \in Ds!EnumerateUsb PROVE r \in DsRow
    OBVIOUS
  <2>1. PICK t \in {u \in {"card", "pad"} : Ds!Here(u)} :
            r = [Ds!Row(t, "usb", IF t = "card" THEN Ds!Name(t) ELSE Ds!Usb(Ds!At(t), 5)) EXCEPT !.usb = Ds!Usb(Ds!At(t), 5)]
    BY DEF Ds!EnumerateUsb
  <2> DEFINE id == IF t = "card" THEN Ds!Name(t) ELSE Ds!Usb(dsAt[t], 5)
             row == Ds!Row(t, "usb", id)
  <2>2. t \in Ds!Machine /\ Ds!Usb(dsAt[t], 5) \in DsPlace /\ id \in DsId
    BY <1>0 DEF Ds!Here
  <2> HIDE DEF id
  <2>3. row \in DsRow
    BY <2>2, DsBareRow
  <2>4. r = [row EXCEPT !.usb = Ds!Usb(dsAt[t], 5)]
    BY <2>1 DEF Ds!At, id
  <2> HIDE DEF row
  <2>5. QED BY <2>2, <2>3, <2>4 DEF DsRow
<1>3. Ds!EnumerateBluetooth \subseteq DsRow
  <2> SUFFICES ASSUME NEW r \in Ds!EnumerateBluetooth PROVE r \in DsRow
    OBVIOUS
  <2>1. PICK t \in Ds!Machine : r = [Ds!Row(t, "bt", Ds!Name(t)) EXCEPT !.addr = Ds!Name(t), !.uuids = TRUE]
    BY DEF Ds!EnumerateBluetooth
  <2> DEFINE row == Ds!Row(t, "bt", Ds!Name(t))
  <2>2. row \in DsRow
    BY <1>0, DsBareRow
  <2>3. r = [row EXCEPT !.addr = Ds!Name(t), !.uuids = TRUE]
    BY <2>1
  <2> HIDE DEF row
  <2>4. QED BY <1>0, <2>2, <2>3 DEF DsRow
<1>4. Ds!EnumerateDisplays \subseteq DsRow
  BY <1>0, DsBareRow DEF Ds!EnumerateDisplays, Ds!Here, Ds!At
<1>5. Ds!EnumerateV4l2 \subseteq DsRow
  <2> SUFFICES ASSUME NEW r \in Ds!EnumerateV4l2 PROVE r \in DsRow
    OBVIOUS
  <2>1. PICK t \in {u \in {"camera"} : Ds!Here(u)} :
            r = [Ds!Row(t, "v4l2", Ds!Usb(Ds!At(t), 7)) EXCEPT !.usb = Ds!Usb(Ds!At(t), 7), !.nodes = {11, 12}]
    BY DEF Ds!EnumerateV4l2
  <2> DEFINE row == Ds!Row(t, "v4l2", Ds!Usb(dsAt[t], 7))
  <2>2. t \in Ds!Machine
    BY DEF Ds!Here
  <2>3. row \in DsRow
    BY <1>0, <2>2, DsBareRow
  <2> DEFINE place == Ds!Usb(dsAt[t], 7)
             pair == {11, 12}
  <2>4. r = [row EXCEPT !.usb = place, !.nodes = pair]
    BY <2>1 DEF Ds!At
  <2>5. place \in DsPlace /\ pair \in SUBSET (1..12)
    BY <1>0, <2>2
  <2> HIDE DEF row, place, pair
  <2>6. QED BY <2>3, <2>4, <2>5 DEF DsRow
<1>6. QED BY <1>1, <1>2, <1>3, <1>4, <1>5 DEF Ds!Found

LEMMA DsClaimType ==
    ASSUME NEW r \in DsRow
    PROVE  Ds!Claim(r) \in DsRow /\ Ds!Uncached(r) \in DsRow
<1>1. Ds!Uncached(r) \in DsRow
  BY DEF Ds!Uncached, DsRow
<1> DEFINE hits == {m \in Ds!Modules \ dsOff : Ds!Matches(m, r)}
           it == CHOOSE m \in hits : \A o \in hits : Ds!Specificity(m) >= Ds!Specificity(o)
<1>2. CASE hits = {}
  BY <1>1, <1>2 DEF Ds!Claim
<1>3. CASE hits # {}
  <2>1. \A m \in hits : Ds!Specificity(m) \in {0, 1}
    BY DEF Ds!Specificity
  <2>2. \E m \in hits : \A o \in hits : Ds!Specificity(m) >= Ds!Specificity(o)
    <3> HIDE DEF hits
    <3> QED BY <1>3, <2>1
  <2>3. it \in hits
    BY <2>2
  <2>4. Ds!Claim(r) = [r EXCEPT !.mod = it]
    BY <1>3 DEF Ds!Claim
  <2>5. it \in Ds!Modules
    BY <2>3
  <2> HIDE DEF it
  <2>6. Ds!Claim(r) \in DsRow
    BY <2>4, <2>5 DEF DsRow
  <2>7. QED BY <1>1, <2>6
<1>4. QED BY <1>2, <1>3

LEMMA DsOneType ==
    ASSUME NEW R, R \subseteq DsRow
    PROVE  Ds!OneRowPerDevice(R) \subseteq DsRow
<1> DEFINE hid == {r \in R : r.bus = "hid"}
           nodes(r) == r.nodes \cup UNION {h.nodes : h \in {g \in hid : g.usb = r.usb}}
           with(r) == IF r.bus # "v4l2" THEN r ELSE [r EXCEPT !.nodes = nodes(r)]
<1>1. \A r \in R : nodes(r) \in SUBSET (1..12)
  BY DEF DsRow
<1> HIDE DEF nodes
<1>2. \A r \in R : with(r) \in DsRow
  BY <1>1 DEF DsRow
<1>3. Ds!OneRowPerDevice(R) \subseteq {with(r) : r \in R}
  BY DEF Ds!OneRowPerDevice, nodes
<1> HIDE DEF with
<1>4. QED BY <1>2, <1>3

LEMMA DsClaimedType ==
    ASSUME NEW R, R \subseteq DsRow
    PROVE  Ds!Claimed(R) \subseteq DsRow
<1>1. Ds!OneRowPerDevice(R) \subseteq DsRow
  BY DsOneType
<1> DEFINE claimed == {Ds!Claim(r) : r \in Ds!OneRowPerDevice(R)}
<1>2. claimed \subseteq DsRow
  BY <1>1, DsClaimType
<1> HIDE DEF claimed
<1>3. \A r \in claimed : Ds!Children(r) \subseteq DsRow
  <2> TAKE r \in claimed
  <2>1. CASE r.mod = "logitech_peripherals" /\ r.of = "receiver" /\ Ds!Here("receiver")
    <3> DEFINE row == Ds!Row("child", "hid", Ds!Name("receiver"))
    <3>1. Ds!Children(r) = {[row EXCEPT !.mod = "logitech_peripherals"]}
      BY <2>1 DEF Ds!Children
    <3>2. Ds!Name("receiver") \in DsId
      BY <2>1 DEF Ds!Here, Ds!Name, DsId
    <3>3. row \in DsRow
      BY <3>2, DsBareRow
    <3> HIDE DEF row
    <3>4. QED BY <3>1, <3>3 DEF DsRow, Ds!Modules
  <2>2. CASE ~(r.mod = "logitech_peripherals" /\ r.of = "receiver" /\ Ds!Here("receiver"))
    BY <2>2 DEF Ds!Children
  <2>3. QED BY <2>1, <2>2
<1>4. Ds!Claimed(R) = claimed \cup UNION {Ds!Children(r) : r \in claimed}
  BY DEF Ds!Claimed, Ds!Expand, claimed
<1>5. QED BY <1>2, <1>3, <1>4

-----------------------------------------------------------------------------
(* DeviceSweep: the sweeps and the saved list. *)

DsFile == [state : {"whole", "torn", "absent"}, rows : SUBSET DsRow]

DsTyped ==
    /\ dsAt \in [Ds!Machine -> Ports \cup {None}] /\ dsOff \subseteq Switched
    /\ dsSweep \in [Sweeps -> [pc : 0..8, rows : SUBSET DsRow, calm : BOOLEAN]]
    /\ dsDevices \in SUBSET DsRow
    /\ dsCache \in DsFile /\ dsTmp \in DsFile
    /\ dsTrue \in BOOLEAN

LEMMA DsTypedInit == Ds!Init => DsTyped
<1> SUFFICES ASSUME Ds!Init PROVE DsTyped
  OBVIOUS
<1>1. PICK things \in Machines : dsAt \in [things -> Ports]
  BY DEF Ds!Init
<1>2. dsAt \in [Ds!Machine -> Ports \cup {None}]
  BY <1>1 DEF Ds!Machine
<1> DEFINE idle == [pc |-> 0, rows |-> {}, calm |-> FALSE]
<1>3. idle \in [pc : 0..8, rows : SUBSET DsRow, calm : BOOLEAN]
  OBVIOUS
<1>4. dsSweep = [s \in Sweeps |-> idle]
  BY DEF Ds!Init, Ds!Idle
<1> HIDE DEF idle
<1>5. dsSweep \in [Sweeps -> [pc : 0..8, rows : SUBSET DsRow, calm : BOOLEAN]]
  BY <1>3, <1>4
<1>6. dsCache \in DsFile /\ dsTmp \in DsFile
  BY DEF Ds!Init, DsFile, Ds!Whole, Ds!Absent
<1>7. QED BY <1>2, <1>5, <1>6 DEF Ds!Init, DsTyped

\* What a step of a sweep makes of that sweep, and of the others nothing.
LEMMA DsOneMoves ==
    ASSUME DsTyped, NEW s \in Sweeps,
           Ds!StartSweep(s) \/ Ds!Enumerate(s) \/ Ds!Publish(s) \/ Ds!BeginSave(s) \/ Ds!EndWrite(s) \/ Ds!Replace(s)
    PROVE  \E sweep \in [pc : 0..8, rows : SUBSET DsRow, calm : BOOLEAN] :
              /\ dsSweep' = [dsSweep EXCEPT ![s] = sweep]
              /\ UNCHANGED <<dsAt, dsOff>>
              /\ \/ sweep.pc \in 1..6 /\ UNCHANGED <<dsCache, dsTmp, dsBeside>> /\ dsDevices' \in {dsDevices, sweep.rows}
                    /\ dsTrue' \in BOOLEAN
                 \/ Ds!BeginSave(s) /\ sweep.pc = 7
                 \/ Ds!EndWrite(s) /\ sweep.pc = 8
                 \/ Ds!Replace(s) /\ sweep.pc = 0
<1> DEFINE Sweep == [pc : 0..8, rows : SUBSET DsRow, calm : BOOLEAN]
           here == dsSweep[s]
<1>0. here \in Sweep /\ dsTrue \in BOOLEAN /\ dsAt \in [Ds!Machine -> Ports \cup {None}]
  BY DEF DsTyped
<1>1. CASE Ds!StartSweep(s)
  <2> DEFINE new == [pc |-> 1, rows |-> {}, calm |-> TRUE]
  <2>1. new \in Sweep /\ new.pc \in 1..6
    OBVIOUS
  <2>2. dsSweep' = [dsSweep EXCEPT ![s] = new] /\ UNCHANGED <<dsAt, dsOff, dsCache, dsTmp, dsBeside, dsDevices, dsTrue>>
    BY <1>1 DEF Ds!StartSweep
  <2> HIDE DEF new
  <2>3. QED BY <1>0, <2>1, <2>2
<1>2. CASE Ds!Enumerate(s)
  <2> DEFINE found == here.rows \cup Ds!Found(Ds!Enumerators[here.pc])
             c == here.pc + 1
             new == [pc |-> c, rows |-> found, calm |-> here.calm]
  <2>1. found \in SUBSET DsRow
    BY <1>0, DsFoundType
  <2>2. c \in 1..6
    BY <1>2 DEF Ds!Enumerate
  <2>3. dsSweep' = [dsSweep EXCEPT ![s] = new] /\ UNCHANGED <<dsAt, dsOff, dsCache, dsTmp, dsBeside, dsDevices, dsTrue>>
    BY <1>2 DEF Ds!Enumerate, Ds!GoesOn
  <2> HIDE DEF found, c
  <2>4. new \in Sweep /\ new.pc = c
    BY <1>0, <2>1, <2>2
  <2> HIDE DEF new
  <2>5. QED BY <1>0, <2>2, <2>3, <2>4
<1>3. CASE Ds!Publish(s)
  <2> DEFINE found == here.rows \cup Ds!EnumerateV4l2
             rows == Ds!Claimed(found)
             new == [pc |-> 6, rows |-> rows, calm |-> here.calm]
  <2>1. Ds!EnumerateV4l2 \subseteq DsRow
    BY <1>0, DsFoundType DEF Ds!Found
  <2>2. found \subseteq DsRow
    BY <1>0, <2>1
  <2>3. rows \in SUBSET DsRow
    BY <2>2, DsClaimedType
  <2>4. /\ dsSweep' = [dsSweep EXCEPT ![s] = new] /\ UNCHANGED <<dsAt, dsOff, dsCache, dsTmp, dsBeside>>
        /\ dsDevices' = rows /\ dsTrue' \in BOOLEAN
    BY <1>0, <1>3 DEF Ds!Publish, Ds!GoesOn, Ds!Published
  <2> HIDE DEF rows
  <2>5. new \in Sweep /\ new.pc \in 1..6 /\ new.rows = rows
    BY <1>0, <2>3
  <2> HIDE DEF new
  <2>6. QED BY <1>0, <2>4, <2>5
<1>4. CASE Ds!BeginSave(s)
  <2> DEFINE new == [pc |-> 7, rows |-> dsDevices, calm |-> here.calm]
  <2>1. dsSweep' = [dsSweep EXCEPT ![s] = new] /\ UNCHANGED <<dsAt, dsOff>>
    BY <1>4 DEF Ds!BeginSave, Ds!GoesOn, Ds!Writing
  <2>2. new \in Sweep /\ new.pc = 7
    BY <1>0 DEF DsTyped
  <2> HIDE DEF new
  <2>3. QED BY <1>4, <2>1, <2>2
<1>5. CASE Ds!EndWrite(s)
  <2> DEFINE new == [pc |-> 8, rows |-> here.rows, calm |-> here.calm]
  <2>1. dsSweep' = [dsSweep EXCEPT ![s] = new] /\ UNCHANGED <<dsAt, dsOff>>
    BY <1>5 DEF Ds!EndWrite, Ds!GoesOn, Ds!Written
  <2>2. new \in Sweep /\ new.pc = 8
    BY <1>0
  <2> HIDE DEF new
  <2>3. QED BY <1>5, <2>1, <2>2
<1>6. CASE Ds!Replace(s)
  <2> DEFINE new == [pc |-> 0, rows |-> {}, calm |-> FALSE]
  <2>1. dsSweep' = [dsSweep EXCEPT ![s] = new] /\ UNCHANGED <<dsAt, dsOff>>
    BY <1>6 DEF Ds!Replace, Ds!Idle
  <2>2. new \in Sweep /\ new.pc = 0
    OBVIOUS
  <2> HIDE DEF new
  <2>3. QED BY <1>6, <2>1, <2>2
<1>7. QED BY <1>1, <1>2, <1>3, <1>4, <1>5, <1>6

LEMMA DsTypedKept ==
    ASSUME DsTyped, DsNext
    PROVE  DsTyped'
<1> DEFINE Sweep == [pc : 0..8, rows : SUBSET DsRow, calm : BOOLEAN]
<1>1. ASSUME UNCHANGED dsAt PROVE DsRow' = DsRow /\ Sweep' = Sweep /\ DsFile' = DsFile /\ Ds!Machine' = Ds!Machine
  BY <1>1 DEF DsRow, DsFile, DsId, DsAddr, DsPlace, Ds!Machine
<1>2. CASE UNCHANGED dsVars
  BY <1>1, <1>2 DEF dsVars, DsTyped
<1>3. ASSUME NEW t \in Ds!Machine, Ds!Move(t) PROVE DsTyped'
  <2>1. PICK p \in Ports \cup {None} : dsAt' = [dsAt EXCEPT ![t] = p]
    BY <1>3 DEF Ds!Move
  <2>2. dsAt' \in [Ds!Machine -> Ports \cup {None}] /\ Ds!Machine' = Ds!Machine
    BY <2>1 DEF DsTyped, Ds!Machine
  <2>3. DsRow' = DsRow /\ Sweep' = Sweep /\ DsFile' = DsFile
    BY <2>2 DEF DsRow, DsFile, DsId, DsAddr, DsPlace
  <2>4. /\ dsSweep' = [s \in Sweeps |-> [dsSweep[s] EXCEPT !.calm = FALSE]]
        /\ dsTrue' = FALSE /\ UNCHANGED <<dsOff, dsDevices, dsCache, dsTmp>>
    BY <1>3 DEF Ds!Move
  <2>5. ASSUME NEW s \in Sweeps PROVE [dsSweep[s] EXCEPT !.calm = FALSE] \in Sweep
    BY DEF DsTyped
  <2> HIDE DEF Sweep
  <2>6. dsSweep' \in [Sweeps -> Sweep]
    BY <2>4, <2>5
  <2>7. QED BY <2>2, <2>3, <2>4, <2>6 DEF DsTyped, Sweep
<1>4. CASE \E m \in Switched : Ds!SetEnablement(m)
  <2>1. dsOff' \subseteq Switched
    BY <1>4 DEF Ds!SetEnablement, DsTyped
  <2>2. UNCHANGED <<dsAt, dsSweep, dsDevices, dsCache, dsTmp>> /\ dsTrue' = FALSE
    BY <1>4 DEF Ds!SetEnablement
  <2>3. QED BY <1>1, <2>1, <2>2 DEF DsTyped
<1>5. ASSUME NEW s \in Sweeps,
             Ds!StartSweep(s) \/ Ds!Enumerate(s) \/ Ds!Publish(s) \/ Ds!BeginSave(s) \/ Ds!EndWrite(s) \/ Ds!Replace(s)
      PROVE  DsTyped'
  <2>1. PICK new \in Sweep :
              /\ dsSweep' = [dsSweep EXCEPT ![s] = new]
              /\ UNCHANGED <<dsAt, dsOff>>
              /\ \/ new.pc \in 1..6 /\ UNCHANGED <<dsCache, dsTmp, dsBeside>> /\ dsDevices' \in {dsDevices, new.rows}
                    /\ dsTrue' \in BOOLEAN
                 \/ Ds!BeginSave(s) /\ new.pc = 7
                 \/ Ds!EndWrite(s) /\ new.pc = 8
                 \/ Ds!Replace(s) /\ new.pc = 0
    BY <1>5, DsOneMoves
  <2>2. dsSweep \in [Sweeps -> Sweep]
    BY DEF DsTyped
  <2>3. new.rows \in SUBSET DsRow /\ dsSweep[s].rows \in SUBSET DsRow
    BY <2>2
  <2> HIDE DEF Sweep
  <2>4. dsSweep' \in [Sweeps -> Sweep]
    BY <2>1, <2>2
  <2>5. dsDevices' \in SUBSET DsRow /\ dsCache' \in DsFile /\ dsTmp' \in DsFile /\ dsTrue' \in BOOLEAN
    <3>0. dsDevices \in SUBSET DsRow /\ dsCache \in DsFile /\ dsTmp \in DsFile /\ dsTrue \in BOOLEAN
      BY DEF DsTyped
    <3>1. CASE Ds!BeginSave(s)
      BY <3>0, <3>1 DEF Ds!BeginSave, Ds!Beforehand, DsFile, Ds!Torn
    <3>2. CASE Ds!EndWrite(s)
      BY <3>0, <3>2, <2>3 DEF Ds!EndWrite, DsFile, Ds!Whole
    <3>3. CASE Ds!Replace(s)
      BY <3>0, <3>3 DEF Ds!Replace, Ds!InPlace, DsFile, Ds!Absent
    <3>4. CASE UNCHANGED <<dsCache, dsTmp, dsBeside>> /\ dsDevices' \in {dsDevices, new.rows} /\ dsTrue' \in BOOLEAN
      BY <3>0, <3>4, <2>3
    <3>5. QED BY <2>1, <3>1, <3>2, <3>3, <3>4
  <2>6. QED BY <1>1, <2>1, <2>4, <2>5 DEF DsTyped, Sweep
<1>6. CASE Ds!Crash
  <2>1. /\ dsSweep' = [s \in Sweeps |-> [pc |-> 0, rows |-> {}, calm |-> FALSE]] /\ dsDevices' = {} /\ dsTrue' = FALSE
        /\ UNCHANGED <<dsAt, dsOff, dsCache, dsTmp>>
    BY <1>6 DEF Ds!Crash, Ds!Idle
  <2> DEFINE idle == [pc |-> 0, rows |-> {}, calm |-> FALSE]
  <2>2. idle \in Sweep
    OBVIOUS
  <2> HIDE DEF Sweep, idle
  <2>3. dsSweep' \in [Sweeps -> Sweep]
    BY <2>1, <2>2 DEF idle
  <2>4. QED BY <1>1, <2>1, <2>3 DEF DsTyped, Sweep
<1>7. CASE Ds!PaintFromCache
  <2>1. UNCHANGED <<dsAt, dsOff, dsSweep, dsCache, dsTmp, dsTrue>> /\ dsDevices' = {Ds!Claim(Ds!Uncached(r)) : r \in dsCache.rows}
    BY <1>7 DEF Ds!PaintFromCache
  <2>2. dsCache.rows \subseteq DsRow
    BY DEF DsTyped, DsFile
  <2>3. dsDevices' \subseteq DsRow
    BY <2>1, <2>2, DsClaimType
  <2>4. QED BY <1>1, <2>1, <2>3 DEF DsTyped
<1>8. QED BY <1>2, <1>3, <1>4, <1>5, <1>6, <1>7 DEF DsNext, Ds!Next

\* The type invariant of the sweep.
LEMMA DsTypedSuffices == DsTyped => Ds!TypeOK
<1> SUFFICES ASSUME DsTyped PROVE Ds!TypeOK
  OBVIOUS
<1>1. DsKinds = Ds!DockKinds \cup {"none", "keyboard", "mouse", "security_key"}
  BY DEF DsKinds, Ds!DockKinds
<1>2. \A s \in Sweeps : dsSweep[s].pc \in 0..8
  BY DEF DsTyped
<1>3. QED BY <1>1, <1>2 DEF DsTyped, Ds!TypeOK, DsRow, DsId, DsPlace, DsAddr, Ds!Written

-----------------------------------------------------------------------------
DsSaves(s) == dsSweep[s].pc \in {7, 8}

\* One sweep saves at a time, and what it is about to put in place is written to its end.
DsSaving ==
    /\ dsCache # Ds!Torn
    /\ \A s \in Sweeps : dsSweep[s].pc = 8 => dsTmp # Ds!Torn
    /\ \A s, o \in Sweeps : DsSaves(s) /\ DsSaves(o) => s = o

DsSaved == ~dsBeside => DsSaving

LEMMA DsSavedInit == Ds!Init => DsSaved
<1> SUFFICES ASSUME Ds!Init PROVE DsSaving
  BY DEF DsSaved
<1>1. /\ dsSweep = [s \in Sweeps |-> [pc |-> 0, rows |-> {}, calm |-> FALSE]]
      /\ dsCache = [state |-> "whole", rows |-> {}]
  BY DEF Ds!Init, Ds!Idle, Ds!Whole
<1>2. \A s \in Sweeps : dsSweep[s].pc = 0
  BY <1>1
<1>3. QED BY <1>1, <1>2 DEF DsSaving, DsSaves, Ds!Torn

LEMMA DsSavedKept ==
    ASSUME DsTyped, DsSaved, DsNext
    PROVE  DsSaved'
<1> USE DEF DsSaved
<1>1. CASE UNCHANGED <<dsSweep, dsCache, dsTmp, dsBeside>>
  BY <1>1 DEF DsSaving, DsSaves
<1>2. ASSUME NEW t \in Ds!Machine, Ds!Move(t) PROVE DsSaved'
  <2>1. /\ dsSweep' = [s \in Sweeps |-> [dsSweep[s] EXCEPT !.calm = FALSE]]
        /\ UNCHANGED <<dsCache, dsTmp, dsBeside>>
    BY <1>2 DEF Ds!Move
  <2>2. \A s \in Sweeps : dsSweep'[s].pc = dsSweep[s].pc
    BY <2>1 DEF DsTyped
  <2>3. QED BY <2>1, <2>2 DEF DsSaving, DsSaves
<1>3. CASE Ds!Crash
  <2>1. dsSweep' = [s \in Sweeps |-> [pc |-> 0, rows |-> {}, calm |-> FALSE]] /\ UNCHANGED <<dsCache, dsTmp, dsBeside>>
    BY <1>3 DEF Ds!Crash, Ds!Idle
  <2>2. \A s \in Sweeps : dsSweep'[s].pc = 0
    BY <2>1
  <2>3. QED BY <2>1, <2>2 DEF DsSaving, DsSaves
<1>4. ASSUME NEW s \in Sweeps,
             Ds!StartSweep(s) \/ Ds!Enumerate(s) \/ Ds!Publish(s) \/ Ds!BeginSave(s) \/ Ds!EndWrite(s) \/ Ds!Replace(s)
      PROVE  DsSaved'
  <2>1. PICK new \in [pc : 0..8, rows : SUBSET DsRow, calm : BOOLEAN] :
              /\ dsSweep' = [dsSweep EXCEPT ![s] = new]
              /\ UNCHANGED <<dsAt, dsOff>>
              /\ \/ new.pc \in 1..6 /\ UNCHANGED <<dsCache, dsTmp, dsBeside>> /\ dsDevices' \in {dsDevices, new.rows}
                    /\ dsTrue' \in BOOLEAN
                 \/ Ds!BeginSave(s) /\ new.pc = 7
                 \/ Ds!EndWrite(s) /\ new.pc = 8
                 \/ Ds!Replace(s) /\ new.pc = 0
    BY <1>4, DsOneMoves
  <2>2. dsSweep'[s].pc = new.pc /\ \A o \in Sweeps \ {s} : dsSweep'[o] = dsSweep[o]
    BY <2>1 DEF DsTyped
  <2> SUFFICES ASSUME ~dsBeside' PROVE DsSaving'
    OBVIOUS
  <2>3. CASE new.pc \in 1..6 /\ UNCHANGED <<dsCache, dsTmp, dsBeside>>
    BY <2>2, <2>3 DEF DsSaving, DsSaves
  <2>4. CASE Ds!BeginSave(s) /\ new.pc = 7
    <3>1. /\ UNCHANGED dsCache /\ ~dsBeside
          /\ \A o \in Sweeps \ {s} : ~DsSaves(o)
      BY <2>4 DEF Ds!BeginSave, Ds!Beforehand, Ds!Writing, Ds!Written, DsSaves
    <3>2. QED BY <2>2, <2>4, <3>1 DEF DsSaving, DsSaves
  <2>5. CASE Ds!EndWrite(s) /\ new.pc = 8
    <3>1. /\ dsSweep[s].pc = 7 /\ UNCHANGED <<dsCache, dsBeside>>
          /\ dsTmp' = [state |-> "whole", rows |-> dsSweep[s].rows]
      BY <2>5 DEF Ds!EndWrite, Ds!Writing, Ds!Whole
    <3>2. dsTmp' # Ds!Torn
      BY <3>1 DEF Ds!Torn
    <3>3. QED BY <2>2, <2>5, <3>1, <3>2 DEF DsSaving, DsSaves, Ds!Torn
  <2>6. CASE Ds!Replace(s) /\ new.pc = 0
    <3>1. /\ dsSweep[s].pc = 8 /\ UNCHANGED dsBeside
          /\ dsCache' \in {dsCache, dsTmp} /\ dsTmp' = [state |-> "absent", rows |-> {}]
      BY <2>6 DEF Ds!Replace, Ds!InPlace, Ds!Written, Ds!Absent
    <3>2. QED BY <2>2, <2>6, <3>1 DEF DsSaving, DsSaves, Ds!Torn
  <2>7. QED BY <2>1, <2>3, <2>4, <2>5, <2>6
<1>5. CASE UNCHANGED dsVars
  BY <1>1, <1>5 DEF dsVars
<1>6. CASE \E m \in Switched : Ds!SetEnablement(m)
  BY <1>1, <1>6 DEF Ds!SetEnablement
<1>7. CASE Ds!PaintFromCache
  BY <1>1, <1>7 DEF Ds!PaintFromCache
<1>8. QED BY <1>2, <1>3, <1>4, <1>5, <1>6, <1>7 DEF DsNext, Ds!Next

-----------------------------------------------------------------------------
(* DeviceSweep: each thing has its row. *)

DsThings == {"dock", "board", "card", "pad", "mouse", "camera", "receiver", "yubi", "panel"}
DsSomewhere(t) == t \in Ds!Machine /\ dsAt[t] # None

\* Nothing is where something else is, but for the keyboard plugged into a dock.
DsApart ==
    /\ Ds!Machine \subseteq DsThings /\ None \notin Ports /\ None \notin DsThings
    /\ dsAt \in [Ds!Machine -> Ports \cup {None}]
    /\ \A t, u \in Ds!Machine : t # u /\ dsAt[t] = dsAt[u] /\ dsAt[t] # None => {t, u} = {"dock", "board"}

DsAll == Ds!EnumerateHid \cup Ds!EnumerateUsb \cup Ds!EnumerateBluetooth \cup Ds!EnumerateDisplays \cup Ds!EnumerateV4l2

DsSoFar(pc, rows) ==
    /\ pc = 1 => rows = {}
    /\ pc = 2 => rows = Ds!EnumerateHid
    /\ pc = 3 => rows = Ds!EnumerateHid \cup Ds!EnumerateUsb
    /\ pc = 4 => rows = Ds!EnumerateHid \cup Ds!EnumerateUsb \cup Ds!EnumerateBluetooth
    /\ pc = 5 => rows = Ds!EnumerateHid \cup Ds!EnumerateUsb \cup Ds!EnumerateBluetooth \cup Ds!EnumerateDisplays

\* What a calm sweep has found is what there is, and so is the list it makes.
DsHonest ==
    /\ DsApart
    /\ ~dsUp => ~dsTrue /\ \A s \in Sweeps : dsSweep[s].pc = 0
    /\ \A s \in Sweeps : dsSweep[s].calm => DsSoFar(dsSweep[s].pc, dsSweep[s].rows)
    /\ dsTrue => dsDevices = Ds!Claimed(DsAll)

LEMMA DsHonestInit ==
    ASSUME Ds!Init, \A things \in Machines : things \subseteq DsThings, None \notin Ports, None \notin DsThings
    PROVE  DsHonest
<1>1. PICK things \in Machines : dsAt \in [things -> Ports]
  BY DEF Ds!Init
<1>2. DsApart
  BY <1>1 DEF DsApart, Ds!Init, Ds!Machine
<1>3. dsSweep = [s \in Sweeps |-> [pc |-> 0, rows |-> {}, calm |-> FALSE]]
  BY DEF Ds!Init, Ds!Idle
<1>4. \A s \in Sweeps : dsSweep[s].pc = 0
  BY <1>3
<1>5. QED BY <1>2, <1>4 DEF DsHonest, DsSoFar, Ds!Init

\* What there is depends on what is plugged in, and the list on the modules that are on as well.
LEMMA DsSameThings ==
    ASSUME UNCHANGED dsAt
    PROVE  /\ Ds!EnumerateHid' = Ds!EnumerateHid /\ Ds!EnumerateUsb' = Ds!EnumerateUsb
           /\ Ds!EnumerateBluetooth' = Ds!EnumerateBluetooth
           /\ Ds!EnumerateDisplays' = Ds!EnumerateDisplays /\ Ds!EnumerateV4l2' = Ds!EnumerateV4l2
           /\ UNCHANGED dsOff => Ds!Claimed(DsAll)' = Ds!Claimed(DsAll)
           /\ \A s \in Sweeps : DsSoFar(dsSweep[s].pc, dsSweep[s].rows)' <=> DsSoFar(dsSweep'[s].pc, dsSweep'[s].rows)
<1> USE DEF Ds!Machine, Ds!Here, Ds!At
<1>1. Ds!EnumerateHid' = Ds!EnumerateHid
  BY DEF Ds!EnumerateHid, Ds!HidNodes
<1>2. Ds!EnumerateUsb' = Ds!EnumerateUsb /\ Ds!EnumerateBluetooth' = Ds!EnumerateBluetooth
  BY DEF Ds!EnumerateUsb, Ds!EnumerateBluetooth
<1>3. Ds!EnumerateDisplays' = Ds!EnumerateDisplays /\ Ds!EnumerateV4l2' = Ds!EnumerateV4l2
  BY DEF Ds!EnumerateDisplays, Ds!EnumerateV4l2
<1>4. DsAll' = DsAll
  BY <1>1, <1>2, <1>3 DEF DsAll
<1>5. ASSUME UNCHANGED dsOff PROVE Ds!Claimed(DsAll)' = Ds!Claimed(DsAll)
  BY <1>4, <1>5 DEF Ds!Claimed, Ds!Expand, Ds!Children, Ds!Claim
<1>6. QED BY <1>1, <1>2, <1>3, <1>5 DEF DsSoFar

LEMMA DsHonestKept ==
    ASSUME DsTyped, DsHonest, DsNext
    PROVE  DsHonest'
<1> DEFINE Sweep == [pc : 0..8, rows : SUBSET DsRow, calm : BOOLEAN]
<1>0. dsSweep \in [Sweeps -> Sweep]
  BY DEF DsTyped
<1>1. ASSUME UNCHANGED dsAt PROVE DsApart'
  BY <1>1 DEF DsHonest, DsApart, Ds!Machine
<1>2. CASE UNCHANGED <<dsAt, dsOff, dsSweep, dsDevices, dsTrue, dsUp>>
  <2>1. UNCHANGED dsAt /\ UNCHANGED dsOff
    BY <1>2
  <2>2. QED BY <1>1, <1>2, <2>1, DsSameThings DEF DsHonest
<1>3. ASSUME NEW t \in Ds!Machine, Ds!Move(t) PROVE DsHonest'
  <2>1. PICK p \in Ports \cup {None} :
            /\ \A u \in Ds!Machine \ {t} : p # None /\ dsAt[u] = p => {t, u} = {"dock", "board"}
            /\ dsAt' = [dsAt EXCEPT ![t] = p]
    BY <1>3 DEF Ds!Move
  <2>2. DsApart'
    BY <2>1 DEF DsHonest, DsApart, Ds!Machine
  <2>3. dsSweep' = [s \in Sweeps |-> [dsSweep[s] EXCEPT !.calm = FALSE]] /\ dsTrue' = FALSE /\ UNCHANGED dsUp
    BY <1>3 DEF Ds!Move
  <2>4. \A s \in Sweeps : dsSweep'[s].calm = FALSE /\ dsSweep'[s].pc = dsSweep[s].pc
    BY <2>3, <1>0
  <2>5. QED BY <2>2, <2>3, <2>4 DEF DsHonest
<1>4. CASE \E m \in Switched : Ds!SetEnablement(m)
  <2>1. UNCHANGED dsAt /\ UNCHANGED <<dsSweep, dsUp>> /\ dsTrue' = FALSE
    BY <1>4 DEF Ds!SetEnablement
  <2>2. QED BY <1>1, <2>1, DsSameThings DEF DsHonest
<1>5. CASE Ds!Crash
  <2>1. UNCHANGED dsAt /\ dsTrue' = FALSE /\ dsSweep' = [s \in Sweeps |-> [pc |-> 0, rows |-> {}, calm |-> FALSE]]
    BY <1>5 DEF Ds!Crash, Ds!Idle
  <2>2. \A s \in Sweeps : dsSweep'[s].pc = 0
    BY <2>1
  <2>3. QED BY <1>1, <2>1, <2>2 DEF DsHonest, DsSoFar
<1>6. CASE Ds!PaintFromCache
  <2>1. UNCHANGED dsAt /\ ~dsUp /\ dsUp' /\ UNCHANGED <<dsSweep, dsTrue>>
    BY <1>6 DEF Ds!PaintFromCache
  <2>2. QED BY <1>1, <2>1 DEF DsHonest, DsSoFar
<1>7. ASSUME NEW s \in Sweeps, NEW new \in Sweep, dsSweep' = [dsSweep EXCEPT ![s] = new],
             UNCHANGED dsAt, UNCHANGED dsOff, UNCHANGED dsUp, dsUp,
             dsTrue' => dsDevices' = Ds!Claimed(DsAll),
             new.calm => DsSoFar(new.pc, new.rows)
      PROVE  DsHonest'
  <2> HIDE DEF Sweep
  <2>1. dsSweep'[s] = new /\ \A o \in Sweeps \ {s} : dsSweep'[o] = dsSweep[o]
    BY <1>0, <1>7
  <2>2. DsApart'
    BY <1>1, <1>7
  <2>3. QED BY <1>7, <2>1, <2>2, DsSameThings DEF DsHonest
<1>8. ASSUME NEW s \in Sweeps,
             Ds!StartSweep(s) \/ Ds!Enumerate(s) \/ Ds!Publish(s) \/ Ds!BeginSave(s) \/ Ds!EndWrite(s) \/ Ds!Replace(s)
      PROVE  DsHonest'
  <2> DEFINE here == dsSweep[s]
  <2>0. here \in Sweep
    BY <1>0
  <2>1. dsUp
    BY <1>8 DEF DsHonest, Ds!StartSweep, Ds!Enumerate, Ds!Publish, Ds!BeginSave, Ds!EndWrite, Ds!Replace,
       Ds!Published, Ds!Writing, Ds!Written
  <2>2. UNCHANGED dsAt /\ UNCHANGED dsOff /\ UNCHANGED dsUp
    BY <1>8 DEF Ds!StartSweep, Ds!Enumerate, Ds!Publish, Ds!BeginSave, Ds!EndWrite, Ds!Replace
  <2>3. here.calm => DsSoFar(here.pc, here.rows)
    BY DEF DsHonest
  <2>4. UNCHANGED <<dsDevices, dsTrue>> => (dsTrue' => dsDevices' = Ds!Claimed(DsAll))
    BY DEF DsHonest
  <2>5. CASE Ds!StartSweep(s)
    <3> DEFINE new == [pc |-> 1, rows |-> {}, calm |-> TRUE]
    <3>1. new \in Sweep /\ DsSoFar(new.pc, new.rows)
      BY DEF DsSoFar
    <3>2. dsSweep' = [dsSweep EXCEPT ![s] = new] /\ UNCHANGED <<dsDevices, dsTrue>>
      BY <2>5 DEF Ds!StartSweep
    <3> HIDE DEF new
    <3>3. QED BY <1>7, <2>1, <2>2, <2>4, <3>1, <3>2
  <2>6. CASE Ds!Enumerate(s)
    <3> DEFINE found == here.rows \cup Ds!Found(Ds!Enumerators[here.pc])
               c == here.pc + 1
               new == [pc |-> c, rows |-> found, calm |-> here.calm]
    <3>1. found \in SUBSET DsRow
      BY <2>0, DsFoundType DEF DsTyped
    <3>2. here.pc \in 1..4 /\ c \in 0..8
      BY <2>6 DEF Ds!Enumerate
    <3>3. dsSweep' = [dsSweep EXCEPT ![s] = new] /\ UNCHANGED <<dsDevices, dsTrue>>
      BY <2>6 DEF Ds!Enumerate, Ds!GoesOn
    <3>4. /\ here.pc = 1 => c = 2 /\ found = here.rows \cup Ds!EnumerateHid
          /\ here.pc = 2 => c = 3 /\ found = here.rows \cup Ds!EnumerateUsb
          /\ here.pc = 3 => c = 4 /\ found = here.rows \cup Ds!EnumerateBluetooth
          /\ here.pc = 4 => c = 5 /\ found = here.rows \cup Ds!EnumerateDisplays
      BY DEF Ds!Found, Ds!Enumerators
    <3> HIDE DEF found, c
    <3>5. new \in Sweep /\ new.pc = c /\ new.rows = found /\ new.calm = here.calm
      BY <2>0, <3>1, <3>2
    <3> HIDE DEF new
    <3>6. new.calm => DsSoFar(new.pc, new.rows)
      <4>1. CASE here.pc = 1
        BY <4>1, <2>3, <3>4, <3>5 DEF DsSoFar
      <4>2. CASE here.pc = 2
        BY <4>2, <2>3, <3>4, <3>5 DEF DsSoFar
      <4>3. CASE here.pc = 3
        BY <4>3, <2>3, <3>4, <3>5 DEF DsSoFar
      <4>4. CASE here.pc = 4
        BY <4>4, <2>3, <3>4, <3>5 DEF DsSoFar
      <4>5. QED BY <3>2, <4>1, <4>2, <4>3, <4>4
    <3>7. QED BY <1>7, <2>1, <2>2, <2>4, <3>3, <3>5, <3>6
  <2>7. CASE Ds!Publish(s)
    <3> DEFINE found == here.rows \cup Ds!EnumerateV4l2
               rows == Ds!Claimed(found)
               new == [pc |-> 6, rows |-> rows, calm |-> here.calm]
    <3>1. Ds!EnumerateV4l2 \subseteq DsRow
      BY DsFoundType DEF Ds!Found, DsTyped
    <3>2. found \subseteq DsRow
      BY <2>0, <3>1
    <3>3. rows \in SUBSET DsRow
      BY <3>2, DsClaimedType
    <3>4. dsSweep' = [dsSweep EXCEPT ![s] = new] /\ dsDevices' = rows /\ dsTrue' = here.calm /\ here.pc = 5
      BY <2>7 DEF Ds!Publish, Ds!GoesOn, Ds!Published
    <3>5. here.calm => found = DsAll
      BY <2>3, <3>4 DEF DsAll, DsSoFar
    <3>6. dsTrue' => dsDevices' = Ds!Claimed(DsAll)
      BY <3>4, <3>5
    <3> HIDE DEF rows
    <3>7. new \in Sweep /\ DsSoFar(new.pc, new.rows)
      BY <2>0, <3>3 DEF DsSoFar
    <3> HIDE DEF new
    <3>8. QED BY <1>7, <2>1, <2>2, <3>4, <3>6, <3>7
  <2>8. CASE Ds!BeginSave(s) \/ Ds!EndWrite(s) \/ Ds!Replace(s)
    <3>1. PICK new \in Sweep : dsSweep' = [dsSweep EXCEPT ![s] = new] /\ DsSoFar(new.pc, new.rows)
      <4>1. PICK new \in Sweep :
              /\ dsSweep' = [dsSweep EXCEPT ![s] = new]
              /\ UNCHANGED <<dsAt, dsOff>>
              /\ \/ new.pc \in 1..6 /\ UNCHANGED <<dsCache, dsTmp, dsBeside>> /\ dsDevices' \in {dsDevices, new.rows}
                    /\ dsTrue' \in BOOLEAN
                 \/ Ds!BeginSave(s) /\ new.pc = 7
                 \/ Ds!EndWrite(s) /\ new.pc = 8
                 \/ Ds!Replace(s) /\ new.pc = 0
        BY <1>8, DsOneMoves
      <4>2. dsSweep'[s] = new
        BY <4>1, <1>0
      <4>3. dsSweep'[s].pc \in {0, 7, 8}
        <5>1. CASE Ds!BeginSave(s)
          BY <5>1, <2>0, <1>0 DEF Ds!BeginSave, Ds!GoesOn, Ds!Writing
        <5>2. CASE Ds!EndWrite(s)
          BY <5>2, <2>0, <1>0 DEF Ds!EndWrite, Ds!GoesOn, Ds!Written
        <5>3. CASE Ds!Replace(s)
          BY <5>3, <2>0, <1>0 DEF Ds!Replace, Ds!Idle
        <5>4. QED BY <2>8, <5>1, <5>2, <5>3
      <4>4. DsSoFar(new.pc, new.rows)
        BY <4>2, <4>3 DEF DsSoFar
      <4>5. QED BY <4>1, <4>4
    <3>2. UNCHANGED <<dsDevices, dsTrue>>
      BY <2>8 DEF Ds!BeginSave, Ds!EndWrite, Ds!Replace
    <3>3. QED BY <1>7, <2>1, <2>2, <2>4, <3>1, <3>2
  <2>9. QED BY <1>8, <2>5, <2>6, <2>7, <2>8
<1>9. CASE UNCHANGED dsVars
  BY <1>2, <1>9 DEF dsVars
<1>10. QED BY <1>3, <1>4, <1>5, <1>6, <1>8, <1>9 DEF DsNext, Ds!Next

-----------------------------------------------------------------------------
\* Of the modules that are on and match, the most specialised one gets the row.
LEMMA DsClaims ==
    ASSUME NEW r \in DsRow, r.mod = "none"
    PROVE  /\ Ds!Claim(r).of = r.of /\ Ds!Claim(r).bus = r.bus /\ Ds!Claim(r).id = r.id
           /\ \A m \in Ds!Modules : Ds!Matches(m, Ds!Claim(r)) = Ds!Matches(m, r)
           /\ Ds!Claim(r).mod # "none" => Ds!Claim(r).mod \notin dsOff
           /\ \A m \in Ds!Modules \ dsOff : Ds!Matches(m, r) => Ds!Claim(r).mod \notin {"none", Ds!Extends(m)}
<1> DEFINE hits == {m \in Ds!Modules \ dsOff : Ds!Matches(m, r)}
           it == CHOOSE m \in hits : \A o \in hits : Ds!Specificity(m) >= Ds!Specificity(o)
<1>1. CASE hits = {}
  BY <1>1 DEF Ds!Claim
<1>2. CASE hits # {}
  <2>1. \A m \in hits : Ds!Specificity(m) \in {0, 1}
    BY DEF Ds!Specificity
  <2>2. \E m \in hits : \A o \in hits : Ds!Specificity(m) >= Ds!Specificity(o)
    <3> HIDE DEF hits
    <3> QED BY <1>2, <2>1
  <2>3. it \in hits /\ \A o \in hits : Ds!Specificity(it) >= Ds!Specificity(o)
    BY <2>2
  <2>4. Ds!Claim(r) = [r EXCEPT !.mod = it]
    BY <1>2 DEF Ds!Claim
  <2> HIDE DEF it
  <2>5. it \in Ds!Modules /\ it \notin dsOff /\ it # "none"
    BY <2>3 DEF Ds!Modules
  <2>6. /\ Ds!Claim(r).of = r.of /\ Ds!Claim(r).bus = r.bus /\ Ds!Claim(r).id = r.id /\ Ds!Claim(r).fido = r.fido
        /\ Ds!Claim(r).uuids = r.uuids /\ Ds!Claim(r).mod = it
    BY <2>4 DEF DsRow
  <2>7. \A m \in Ds!Modules : Ds!Matches(m, Ds!Claim(r)) = Ds!Matches(m, r)
    BY <2>6 DEF Ds!Matches
  <2>8. ASSUME NEW m \in Ds!Modules \ dsOff, Ds!Matches(m, r) PROVE it # Ds!Extends(m)
    <3>1. CASE m = "yubikeys"
      <4>1. Ds!Specificity(m) = 1 /\ Ds!Specificity("fido2_security_keys") = 0 /\ Ds!Extends(m) = "fido2_security_keys"
        BY <3>1 DEF Ds!Specificity, Ds!Extends, Ds!Modules
      <4>2. Ds!Specificity(it) >= Ds!Specificity(m)
        BY <2>3, <2>8
      <4>3. QED BY <4>1, <4>2
    <3>2. CASE m # "yubikeys"
      BY <3>2, <2>5 DEF Ds!Extends
    <3>3. QED BY <3>1, <3>2
  <2>9. QED BY <2>5, <2>6, <2>7, <2>8
<1>3. QED BY <1>1, <1>2

\* The places below its hub at which a thing answers through hidraw.
DsSubs(t) ==
    CASE t = "dock" -> {1, 2} [] t = "board" -> {3} [] t = "yubi" -> {4} [] t = "card" -> {5}
      [] t = "receiver" -> {6} [] t = "camera" -> {7} [] OTHER -> {}
DsHidThings == {"dock", "board", "yubi", "card", "receiver", "camera", "mouse"}

LEMMA DsNodesOf ==
    ASSUME DsApart, NEW t \in Ds!Machine
    PROVE  /\ Ds!HidNodes(t) \subseteq DsNode /\ (Ds!HidNodes(t) # {} <=> t \in DsHidThings)
           /\ \A n \in Ds!HidNodes(t) :
                 /\ n.of = t /\ (n.kind \in Ds!DockKinds <=> t = "dock")
                 /\ t = "mouse" => n.usb = Ds!NoUsb /\ n.uniq = Ds!Name(t) /\ n.number = 10
                 /\ t # "mouse" => n.uniq = Ds!NoUsb /\ \E k \in DsSubs(t) : n.usb = Ds!Usb(dsAt[t], k)
<1>0. Ds!HidNodes(t) \subseteq DsNode
  BY DsNodeType DEF DsApart
<1> USE DEF Ds!HidNode, Ds!At, Ds!DockKinds, DsSubs, DsHidThings
<1>1. CASE t = "dock"
  BY <1>0, <1>1 DEF Ds!HidNodes
<1>2. CASE t = "board"
  <2>1. {3, 4} # {} /\ Ds!HidNodes(t) = {Ds!HidNode(t, Ds!Usb(dsAt[t], 3), Ds!NoUsb, "keyboard", 2, n) : n \in {3, 4}}
    BY <1>2 DEF Ds!HidNodes
  <2>2. Ds!HidNodes(t) # {}
    <3>1. Ds!HidNode(t, Ds!Usb(dsAt[t], 3), Ds!NoUsb, "keyboard", 2, 3) \in Ds!HidNodes(t)
      BY <2>1
    <3> QED BY <3>1
  <2>3. QED BY <1>0, <1>2, <2>1, <2>2
<1>3. CASE t = "yubi"
  BY <1>0, <1>3 DEF Ds!HidNodes
<1>4. CASE t = "card"
  BY <1>0, <1>4 DEF Ds!HidNodes
<1>5. CASE t = "receiver"
  <2>1. Ds!HidNodes(t) = {Ds!HidNode(t, Ds!Usb(dsAt[t], 6), Ds!NoUsb, "mouse", 3, 8)}
    BY <1>5 DEF Ds!HidNodes
  <2>2. DsSubs(t) = {6} /\ t \in DsHidThings /\ Ds!HidNodes(t) # {}
    BY <1>5, <2>1
  <2>3. \A n \in Ds!HidNodes(t) : n.of = t /\ n.kind = "mouse" /\ n.uniq = Ds!NoUsb /\ n.usb = Ds!Usb(dsAt[t], 6)
    BY <2>1
  <2> HIDE DEF DsSubs, DsHidThings
  <2>4. QED BY <1>0, <1>5, <2>2, <2>3
<1>6. CASE t = "camera"
  BY <1>0, <1>6 DEF Ds!HidNodes
<1>7. CASE t = "mouse"
  BY <1>0, <1>7 DEF Ds!HidNodes
<1>8. CASE t \in {"pad", "panel"}
  BY <1>0, <1>8 DEF Ds!HidNodes
<1>9. QED BY <1>1, <1>2, <1>3, <1>4, <1>5, <1>6, <1>7, <1>8 DEF DsApart, DsThings

\* The nodes of a thing are one group, and no other node is of it.
LEMMA DsGroups ==
    ASSUME DsApart, NEW t, NEW u, DsSomewhere(t), DsSomewhere(u),
           NEW n \in Ds!HidNodes(t), NEW m \in Ds!HidNodes(u)
    PROVE  Ds!GroupKey(n) = Ds!GroupKey(m) <=> t = u
<1> DEFINE key(x, sub) == [hub |-> x, alone |-> 0, sub |-> sub]
<1>1. ASSUME NEW x \in Ds!Machine, DsSomewhere(x), NEW a \in Ds!HidNodes(x), x # "mouse"
      PROVE  \E k \in DsSubs(x) : Ds!GroupKey(a) = key(dsAt[x], IF x = "dock" THEN 0 ELSE k)
  <2>1. PICK k \in DsSubs(x) : a.usb = Ds!Usb(dsAt[x], k)
    BY <1>1, DsNodesOf
  <2>2. a.usb.port = dsAt[x] /\ a.usb.sub = k /\ a.usb # Ds!NoUsb
    BY <1>1, <2>1 DEF Ds!Usb, Ds!NoUsb, DsSomewhere
  <2>3. a.kind \in Ds!DockKinds <=> x = "dock"
    BY <1>1, DsNodesOf
  <2>4. QED BY <2>2, <2>3 DEF Ds!GroupKey
<1>2. ASSUME NEW x \in Ds!Machine, NEW a \in Ds!HidNodes(x), x = "mouse"
      PROVE  Ds!GroupKey(a) = [hub |-> None, alone |-> 10, sub |-> 0]
  <2>1. a.usb = Ds!NoUsb /\ a.number = 10
    BY <1>2, DsNodesOf
  <2>2. QED BY <2>1 DEF Ds!GroupKey
<1>3. t \in Ds!Machine /\ u \in Ds!Machine
  BY DEF DsSomewhere
<1>4. CASE t = "mouse" /\ u = "mouse"
  BY <1>2, <1>3, <1>4
<1>5. CASE t = "mouse" /\ u # "mouse"
  <2>1. Ds!GroupKey(n).alone = 10
    BY <1>2, <1>3, <1>5
  <2>2. Ds!GroupKey(m).alone = 0
    BY <1>1, <1>3, <1>5
  <2>3. QED BY <2>1, <2>2, <1>5
<1>6. CASE t # "mouse" /\ u = "mouse"
  <2>1. Ds!GroupKey(m).alone = 10
    BY <1>2, <1>3, <1>6
  <2>2. Ds!GroupKey(n).alone = 0
    BY <1>1, <1>3, <1>6
  <2>3. QED BY <2>1, <2>2, <1>6
<1>7. CASE t # "mouse" /\ u # "mouse"
  <2>1. PICK k \in DsSubs(t) : Ds!GroupKey(n) = key(dsAt[t], IF t = "dock" THEN 0 ELSE k)
    BY <1>1, <1>3, <1>7
  <2>2. PICK l \in DsSubs(u) : Ds!GroupKey(m) = key(dsAt[u], IF u = "dock" THEN 0 ELSE l)
    BY <1>1, <1>3, <1>7
  <2>3. ASSUME Ds!GroupKey(n) = Ds!GroupKey(m), t # u PROVE FALSE
    <3>1. dsAt[t] = dsAt[u] /\ (IF t = "dock" THEN 0 ELSE k) = (IF u = "dock" THEN 0 ELSE l)
      BY <2>1, <2>2, <2>3
    <3>2. {t, u} = {"dock", "board"}
      BY <1>3, <2>3, <3>1 DEF DsApart, DsSomewhere
    <3>3. QED BY <2>3, <3>1, <3>2 DEF DsSubs
  <2>4. ASSUME t = u PROVE Ds!GroupKey(n) = Ds!GroupKey(m)
    <3>1. t # "dock" => k = l
      BY <2>4, <1>3, <1>7 DEF DsSubs, DsApart, DsThings
    <3>2. QED BY <2>1, <2>2, <2>4, <3>1
  <2>5. QED BY <2>3, <2>4
<1>8. QED BY <1>4, <1>5, <1>6, <1>7

\* The row of a thing is known by its kind of bus and a place or a name of its own.
DsIs(r, t) ==
    /\ r \in DsRow /\ r.of = t /\ r.mod = "none"
    /\ r.bus = "hid" => /\ t \in DsHidThings
                        /\ t = "mouse" => r.usb = Ds!NoUsb /\ r.addr = Ds!Name(t) /\ r.id = Ds!Name(t)
                        /\ t # "mouse" => /\ r.addr = Ds!NoUsb
                                          /\ \E k \in DsSubs(t) : r.usb = Ds!Usb(dsAt[t], k) /\ r.id = Ds!Usb(dsAt[t], k)
    /\ r.bus = "usb" => /\ t \in {"card", "pad"} /\ r.usb = Ds!Usb(dsAt[t], 5)
                        /\ r.id = IF t = "card" THEN Ds!Name(t) ELSE Ds!Usb(dsAt[t], 5)
    /\ r.bus = "bt" => t = "mouse" /\ r.addr = Ds!Name(t)
    /\ r.bus = "drm" => t = "panel"
    /\ r.bus = "v4l2" => t = "camera" /\ r.usb = Ds!Usb(dsAt[t], 7)

\* What each enumerator finds.
DsHid(t) == Ds!HidRow(Ds!HidNodes(t))

LEMMA DsHidFound ==
    ASSUME DsApart
    PROVE  /\ \A r \in Ds!EnumerateHid : \E t \in DsHidThings : DsSomewhere(t) /\ r = DsHid(t)
           /\ \A t \in DsHidThings : DsSomewhere(t) =>
                 DsHid(t) \in Ds!EnumerateHid /\ DsHid(t).bus = "hid" /\ DsIs(DsHid(t), t)
<1> DEFINE things == {u \in Ds!Machine : Ds!Here(u)}
           nodes == UNION {Ds!HidNodes(t) : t \in things}
           members(key) == {n \in nodes : Ds!GroupKey(n) = key}
<1>1. \A t : t \in things <=> DsSomewhere(t)
  BY DEF Ds!Here, DsSomewhere
<1>2. Ds!EnumerateHid = {Ds!HidRow(members(key)) : key \in {Ds!GroupKey(n) : n \in nodes}}
  BY DEF Ds!EnumerateHid
<1>3. ASSUME NEW t \in things, NEW n \in Ds!HidNodes(t) PROVE members(Ds!GroupKey(n)) = Ds!HidNodes(t)
  <2>1. ASSUME NEW m \in nodes, Ds!GroupKey(m) = Ds!GroupKey(n) PROVE m \in Ds!HidNodes(t)
    <3>1. PICK u \in things : m \in Ds!HidNodes(u)
      OBVIOUS
    <3>2. u = t
      BY <1>1, <2>1, <3>1, DsGroups
    <3>3. QED BY <3>1, <3>2
  <2>2. ASSUME NEW m \in Ds!HidNodes(t) PROVE m \in nodes /\ Ds!GroupKey(m) = Ds!GroupKey(n)
    BY <1>1, DsGroups
  <2>3. QED BY <2>1, <2>2
<1>4. ASSUME NEW r \in Ds!EnumerateHid PROVE \E t \in DsHidThings : DsSomewhere(t) /\ r = DsHid(t)
  <2>1. PICK n \in nodes : r = Ds!HidRow(members(Ds!GroupKey(n)))
    BY <1>2
  <2>2. PICK t \in things : n \in Ds!HidNodes(t)
    OBVIOUS
  <2>3. r = DsHid(t)
    BY <2>1, <2>2, <1>3 DEF DsHid
  <2>4. t \in DsHidThings
    BY <2>2, DsNodesOf
  <2>5. QED BY <1>1, <2>2, <2>3, <2>4
<1>5. ASSUME NEW t \in DsHidThings, DsSomewhere(t)
      PROVE  DsHid(t) \in Ds!EnumerateHid /\ DsHid(t).bus = "hid" /\ DsIs(DsHid(t), t)
  <2>1. t \in things /\ t \in Ds!Machine
    BY <1>1, <1>5 DEF DsSomewhere
  <2>2. Ds!HidNodes(t) \subseteq DsNode /\ Ds!HidNodes(t) # {}
    BY <2>1, DsNodesOf
  <2>3. PICK n \in Ds!HidNodes(t) : TRUE
    BY <2>2
  <2>4. DsHid(t) \in Ds!EnumerateHid
    <3>1. n \in nodes /\ members(Ds!GroupKey(n)) = Ds!HidNodes(t)
      BY <1>3, <2>1, <2>3
    <3> HIDE DEF members, nodes
    <3>2. QED BY <1>2, <3>1 DEF DsHid
  <2> DEFINE M == Ds!HidNodes(t)
             kind == Ds!GroupKind(M)
             best == CHOOSE x \in M : \A o \in M : Ds!Rank(x, kind) >= Ds!Rank(o, kind)
             id == IF best.uniq # Ds!NoUsb THEN best.uniq ELSE best.usb
             numbers == {x.number : x \in M}
             fido == \E x \in M : x.kind = "security_key"
             row == Ds!Row(best.of, "hid", id)
  <2>5. DsHid(t) = [row EXCEPT !.usb = best.usb, !.addr = best.uniq, !.kind = kind, !.nodes = numbers, !.fido = fido]
    BY DEF DsHid, Ds!HidRow
  <2>6. best \in M
    BY <2>2, DsBest
  <2>7. DsHid(t) \in DsRow
    BY <2>2, DsHidRowType DEF DsHid
  <2> HIDE DEF M, kind, best, numbers, fido
  <2> HIDE DEF id
  <2>8. row \in [of : {best.of}, bus : {"hid"}, id : {id}, usb : {Ds!NoUsb}, addr : {Ds!NoUsb}, kind : {"none"},
                 fido : {FALSE}, nodes : {{}}, uuids : {FALSE}, mod : {"none"}]
    BY DEF Ds!Row
  <2> HIDE DEF row
  <2>9. /\ DsHid(t).of = best.of /\ DsHid(t).bus = "hid" /\ DsHid(t).id = id /\ DsHid(t).usb = best.usb
        /\ DsHid(t).addr = best.uniq /\ DsHid(t).mod = "none"
    BY <2>5, <2>8
  <2>10. /\ best.of = t
         /\ t = "mouse" => best.usb = Ds!NoUsb /\ best.uniq = Ds!Name(t)
         /\ t # "mouse" => best.uniq = Ds!NoUsb /\ \E k \in DsSubs(t) : best.usb = Ds!Usb(dsAt[t], k)
    BY <2>1, <2>6, DsNodesOf DEF M
  <2>11. Ds!Name("mouse") # Ds!NoUsb
    BY DEF Ds!Name, Ds!NoUsb, Ds!Usb, DsApart, DsThings
  <2>12. /\ t = "mouse" => id = Ds!Name(t)
         /\ t # "mouse" => id = best.usb
    BY <2>10, <2>11 DEF id
  <2>13. QED BY <2>4, <2>7, <2>9, <2>10, <2>12 DEF DsIs
<1>6. QED BY <1>4, <1>5

LEMMA DsOthersFound ==
    ASSUME DsApart
    PROVE  /\ \A r \in Ds!EnumerateUsb : r.bus = "usb" /\ DsSomewhere(r.of) /\ DsIs(r, r.of)
           /\ \A t \in {"card", "pad"} : DsSomewhere(t) =>
                 /\ \E r \in Ds!EnumerateUsb : r.of = t
                 /\ \A r, q \in Ds!EnumerateUsb : r.of = t /\ q.of = t => r = q
           /\ \A r \in Ds!EnumerateBluetooth : r.bus = "bt" /\ DsIs(r, "mouse")
           /\ "mouse" \in Ds!Machine => Ds!EnumerateBluetooth # {}
           /\ \A r, q \in Ds!EnumerateBluetooth : r = q
           /\ \A r \in Ds!EnumerateDisplays : r.bus = "drm" /\ DsSomewhere("panel") /\ DsIs(r, "panel")
           /\ DsSomewhere("panel") => Ds!EnumerateDisplays # {}
           /\ \A r, q \in Ds!EnumerateDisplays : r = q
           /\ \A r \in Ds!EnumerateV4l2 : r.bus = "v4l2" /\ DsSomewhere("camera") /\ DsIs(r, "camera")
           /\ DsSomewhere("camera") => Ds!EnumerateV4l2 # {}
           /\ \A r, q \in Ds!EnumerateV4l2 : r = q
<1> DEFINE port(t) == Ds!Usb(dsAt[t], 5)
           usb(t) == [Ds!Row(t, "usb", IF t = "card" THEN Ds!Name(t) ELSE port(t)) EXCEPT !.usb = port(t)]
           bt == [Ds!Row("mouse", "bt", Ds!Name("mouse")) EXCEPT !.addr = Ds!Name("mouse"), !.uuids = TRUE]
           drm == Ds!Row("panel", "drm", Ds!Usb(dsAt["panel"], 8))
           v4l2 == [Ds!Row("camera", "v4l2", Ds!Usb(dsAt["camera"], 7)) EXCEPT !.usb = Ds!Usb(dsAt["camera"], 7), !.nodes = {11, 12}]
<1>0. \A bus : Ds!Found(bus) \subseteq DsRow
  BY DsFoundType DEF DsApart
<1>1. Ds!EnumerateUsb = {usb(t) : t \in {u \in {"card", "pad"} : DsSomewhere(u)}} /\ Ds!EnumerateUsb \subseteq DsRow
  BY <1>0 DEF Ds!EnumerateUsb, Ds!Here, DsSomewhere, Ds!At, Ds!Found
<1>2. Ds!EnumerateBluetooth = (IF "mouse" \in Ds!Machine THEN {bt} ELSE {}) /\ Ds!EnumerateBluetooth \subseteq DsRow
  BY <1>0 DEF Ds!EnumerateBluetooth, Ds!Found
<1>3. Ds!EnumerateDisplays = (IF DsSomewhere("panel") THEN {drm} ELSE {}) /\ Ds!EnumerateDisplays \subseteq DsRow
  BY <1>0 DEF Ds!EnumerateDisplays, Ds!Here, DsSomewhere, Ds!At, Ds!Found
<1>4. Ds!EnumerateV4l2 = (IF DsSomewhere("camera") THEN {v4l2} ELSE {}) /\ Ds!EnumerateV4l2 \subseteq DsRow
  BY <1>0 DEF Ds!EnumerateV4l2, Ds!Here, DsSomewhere, Ds!At, Ds!Found
<1>5. \A t : /\ usb(t).of = t /\ usb(t).bus = "usb" /\ usb(t).usb = port(t) /\ usb(t).mod = "none"
            /\ usb(t).id = IF t = "card" THEN Ds!Name(t) ELSE port(t)
  BY DEF Ds!Row
<1>6. bt.of = "mouse" /\ bt.bus = "bt" /\ bt.addr = Ds!Name("mouse") /\ bt.mod = "none"
  BY DEF Ds!Row
<1>7. drm.of = "panel" /\ drm.bus = "drm" /\ drm.mod = "none"
  BY DEF Ds!Row
<1>8. v4l2.of = "camera" /\ v4l2.bus = "v4l2" /\ v4l2.usb = Ds!Usb(dsAt["camera"], 7) /\ v4l2.mod = "none"
  BY DEF Ds!Row
<1> HIDE DEF usb, bt, drm, v4l2
<1>9. \A t \in {"card", "pad"} : DsSomewhere(t) => usb(t) \in Ds!EnumerateUsb
  BY <1>1
<1>10. \A r \in Ds!EnumerateUsb : \E t \in {"card", "pad"} : DsSomewhere(t) /\ r = usb(t)
  BY <1>1
<1>11. \A r \in Ds!EnumerateUsb : r.bus = "usb" /\ DsSomewhere(r.of) /\ DsIs(r, r.of) /\ r = usb(r.of)
  BY <1>1, <1>5, <1>10 DEF DsIs
<1>12. /\ \A r \in Ds!EnumerateBluetooth : r.bus = "bt" /\ DsIs(r, "mouse")
       /\ "mouse" \in Ds!Machine => Ds!EnumerateBluetooth # {}
       /\ \A r, q \in Ds!EnumerateBluetooth : r = q
  BY <1>2, <1>6 DEF DsIs
<1>13. /\ \A r \in Ds!EnumerateDisplays : r.bus = "drm" /\ DsSomewhere("panel") /\ DsIs(r, "panel")
       /\ DsSomewhere("panel") => Ds!EnumerateDisplays # {}
       /\ \A r, q \in Ds!EnumerateDisplays : r = q
  BY <1>3, <1>7 DEF DsIs
<1>14. /\ \A r \in Ds!EnumerateV4l2 : r.bus = "v4l2" /\ DsSomewhere("camera") /\ DsIs(r, "camera")
       /\ DsSomewhere("camera") => Ds!EnumerateV4l2 # {}
       /\ \A r, q \in Ds!EnumerateV4l2 : r = q
  BY <1>4, <1>8 DEF DsIs
<1>15. QED BY <1>5, <1>9, <1>11, <1>12, <1>13, <1>14

DsHidRows(R) == {r \in R : r.bus = "hid"}
DsIsDuplicate(R, r) ==
    \/ r.bus = "usb" /\ r.usb \in {h.usb : h \in DsHidRows(R)} \ {Ds!NoUsb}
    \/ r.bus = "bt" /\ r.addr \in {h.addr : h \in DsHidRows(R)} \ {Ds!NoUsb}
    \/ r.bus = "hid" /\ r.usb \in {s.usb : s \in {q \in R : q.bus = "v4l2"}}
DsWith(R, r) ==
    IF r.bus # "v4l2" THEN r
    ELSE [r EXCEPT !.nodes = @ \cup UNION {h.nodes : h \in {g \in DsHidRows(R) : g.usb = r.usb}}]
DsKept(R) == {r \in R : ~DsIsDuplicate(R, r)}

LEMMA DsOneIs == \A R : Ds!OneRowPerDevice(R) = {DsWith(R, r) : r \in DsKept(R)}
BY DEF Ds!OneRowPerDevice, DsWith, DsKept, DsIsDuplicate, DsHidRows

LEMMA DsAllIs ==
    ASSUME DsApart, NEW r \in DsAll
    PROVE  /\ DsIs(r, r.of) /\ r.of \in Ds!Machine
           /\ r.bus = "hid" => DsSomewhere(r.of) /\ r = DsHid(r.of)
           /\ r.bus = "usb" => DsSomewhere(r.of) /\ r \in Ds!EnumerateUsb
           /\ r.bus = "bt" => r \in Ds!EnumerateBluetooth
           /\ r.bus = "drm" => DsSomewhere("panel") /\ r \in Ds!EnumerateDisplays
           /\ r.bus = "v4l2" => DsSomewhere("camera") /\ r \in Ds!EnumerateV4l2
<1>1. CASE r \in Ds!EnumerateHid
  <2>1. PICK t \in DsHidThings : DsSomewhere(t) /\ r = DsHid(t)
    BY <1>1, DsHidFound
  <2>2. r.bus = "hid" /\ DsIs(r, t)
    BY <2>1, DsHidFound
  <2>3. r.of = t
    BY <2>2 DEF DsIs
  <2>4. QED BY <2>1, <2>2, <2>3 DEF DsSomewhere
<1>2. CASE r \in Ds!EnumerateUsb
  <2>1. r.bus = "usb" /\ DsSomewhere(r.of) /\ DsIs(r, r.of)
    BY <1>2, DsOthersFound
  <2>2. QED BY <1>2, <2>1 DEF DsSomewhere
<1>3. CASE r \in Ds!EnumerateBluetooth
  <2>1. r.bus = "bt" /\ DsIs(r, "mouse")
    BY <1>3, DsOthersFound
  <2>2. "mouse" \in Ds!Machine
    BY <1>3 DEF Ds!EnumerateBluetooth
  <2>3. QED BY <1>3, <2>1, <2>2 DEF DsIs
<1>4. CASE r \in Ds!EnumerateDisplays
  <2>1. r.bus = "drm" /\ DsSomewhere("panel") /\ DsIs(r, "panel")
    BY <1>4, DsOthersFound
  <2>2. QED BY <1>4, <2>1 DEF DsIs, DsSomewhere
<1>5. CASE r \in Ds!EnumerateV4l2
  <2>1. r.bus = "v4l2" /\ DsSomewhere("camera") /\ DsIs(r, "camera")
    BY <1>5, DsOthersFound
  <2>2. QED BY <1>5, <2>1 DEF DsIs, DsSomewhere
<1>6. QED BY <1>1, <1>2, <1>3, <1>4, <1>5 DEF DsAll

\* Of the rows a thing has at first, one is kept.
LEMMA DsKeptIsOne ==
    ASSUME DsApart, NEW r \in DsKept(DsAll), NEW q \in DsKept(DsAll), r.of = q.of
    PROVE  r = q
<1> DEFINE t == r.of
<1>0. r \in DsAll /\ q \in DsAll /\ ~DsIsDuplicate(DsAll, r) /\ ~DsIsDuplicate(DsAll, q)
  BY DEF DsKept
<1>1. DsIs(r, t) /\ DsIs(q, t) /\ r.bus \in {"hid", "usb", "bt", "drm", "v4l2"} /\ q.bus \in {"hid", "usb", "bt", "drm", "v4l2"}
  BY <1>0, DsAllIs DEF DsIs, DsRow
<1>2. ASSUME NEW a \in DsAll, NEW b \in DsAll, DsIs(a, t), DsIs(b, t), a.bus = "hid", b.bus # "hid"
      PROVE  DsIsDuplicate(DsAll, a) \/ DsIsDuplicate(DsAll, b)
  <2>1. DsSomewhere(t) /\ t \in DsHidThings
    BY <1>2, DsAllIs DEF DsIs
  <2>2. b.bus \in {"usb", "bt", "v4l2"} /\ (b.bus = "usb" => t = "card")
    BY <1>2, <2>1 DEF DsIs, DsRow, DsHidThings
  <2>3. CASE b.bus = "usb"
    <3>1. a.usb = Ds!Usb(dsAt[t], 5) /\ b.usb = Ds!Usb(dsAt[t], 5)
      BY <1>2, <2>2, <2>3 DEF DsIs, DsSubs
    <3>2. b.usb # Ds!NoUsb
      BY <3>1, <2>1 DEF Ds!Usb, Ds!NoUsb, DsSomewhere
    <3>3. QED BY <1>2, <2>3, <3>1, <3>2 DEF DsIsDuplicate, DsHidRows
  <2>4. CASE b.bus = "bt"
    <3>1. a.addr = Ds!Name("mouse") /\ b.addr = Ds!Name("mouse")
      BY <1>2, <2>4 DEF DsIs
    <3>2. b.addr # Ds!NoUsb
      BY <3>1 DEF Ds!Name, Ds!NoUsb, Ds!Usb, DsApart, DsThings
    <3>3. QED BY <1>2, <2>4, <3>1, <3>2 DEF DsIsDuplicate, DsHidRows
  <2>5. CASE b.bus = "v4l2"
    <3>1. a.usb = Ds!Usb(dsAt[t], 7) /\ b.usb = Ds!Usb(dsAt[t], 7)
      BY <1>2, <2>5 DEF DsIs, DsSubs
    <3>2. QED BY <1>2, <2>5, <3>1 DEF DsIsDuplicate
  <2>6. QED BY <2>2, <2>3, <2>4, <2>5
<1>3. CASE r.bus = "hid" /\ q.bus # "hid"
  BY <1>0, <1>1, <1>2, <1>3
<1>4. CASE r.bus # "hid" /\ q.bus = "hid"
  BY <1>0, <1>1, <1>2, <1>4
<1>5. CASE r.bus = "hid" /\ q.bus = "hid"
  BY <1>0, <1>5, DsAllIs
<1>6. CASE r.bus # "hid" /\ q.bus # "hid"
  <2>1. r.bus = q.bus
    BY <1>1, <1>6 DEF DsIs
  <2>2. CASE r.bus = "usb"
    <3>1. r \in Ds!EnumerateUsb /\ q \in Ds!EnumerateUsb /\ DsSomewhere(t) /\ t \in {"card", "pad"}
      BY <1>0, <1>1, <2>1, <2>2, DsAllIs DEF DsIs
    <3>2. QED BY <3>1, DsOthersFound
  <2>3. CASE r.bus = "bt"
    BY <1>0, <2>1, <2>3, DsAllIs, DsOthersFound
  <2>4. CASE r.bus = "drm"
    BY <1>0, <2>1, <2>4, DsAllIs, DsOthersFound
  <2>5. CASE r.bus = "v4l2"
    BY <1>0, <2>1, <2>5, DsAllIs, DsOthersFound
  <2>6. QED BY <1>1, <1>6, <2>2, <2>3, <2>4, <2>5
<1>7. QED BY <1>3, <1>4, <1>5, <1>6

\* No thing is left out.
LEMMA DsKeptHasAll ==
    ASSUME DsApart, NEW t \in Ds!Machine, DsSomewhere(t) \/ t = "mouse"
    PROVE  \E r \in DsKept(DsAll) : r.of = t
<1>0. \A h \in DsHidRows(DsAll) : DsSomewhere(h.of) /\ h = DsHid(h.of) /\ DsIs(h, h.of) /\ h.of \in DsHidThings
  BY DsAllIs DEF DsHidRows, DsIs
<1>1. \A s \in DsAll : s.bus = "v4l2" => s.usb = Ds!Usb(dsAt["camera"], 7) /\ DsSomewhere("camera")
  BY DsAllIs DEF DsIs
<1>2. CASE t \in DsHidThings \ {"camera"} /\ DsSomewhere(t)
  <2> DEFINE r == DsHid(t)
  <2>1. r \in DsAll /\ r.bus = "hid" /\ DsIs(r, t)
    BY <1>2, DsHidFound DEF DsAll
  <2> HIDE DEF r
  <2>2. DsSomewhere("camera") => r.usb # Ds!Usb(dsAt["camera"], 7)
    <3>1. CASE t = "mouse"
      BY <2>1, <3>1 DEF DsIs, Ds!NoUsb, Ds!Usb
    <3>2. CASE t # "mouse"
      <4>1. PICK k \in DsSubs(t) : r.usb = Ds!Usb(dsAt[t], k)
        BY <2>1, <3>2 DEF DsIs
      <4>2. k # 7
        BY <1>2 DEF DsSubs, DsHidThings
      <4>3. QED BY <4>1, <4>2 DEF Ds!Usb
    <3>3. QED BY <3>1, <3>2
  <2>3. ~DsIsDuplicate(DsAll, r)
    BY <1>1, <2>1, <2>2 DEF DsIsDuplicate
  <2>4. QED BY <2>1, <2>3 DEF DsKept, DsIs
<1>3. CASE t = "camera" /\ DsSomewhere(t)
  <2>1. PICK r \in Ds!EnumerateV4l2 : r.bus = "v4l2" /\ DsIs(r, "camera")
    BY <1>3, DsOthersFound
  <2>2. QED BY <1>3, <2>1 DEF DsKept, DsIsDuplicate, DsIs, DsAll
<1>4. CASE t = "panel" /\ DsSomewhere(t)
  <2>1. PICK r \in Ds!EnumerateDisplays : r.bus = "drm" /\ DsIs(r, "panel")
    BY <1>4, DsOthersFound
  <2>2. QED BY <1>4, <2>1 DEF DsKept, DsIsDuplicate, DsIs, DsAll
<1>5. CASE t = "pad" /\ DsSomewhere(t)
  <2>1. PICK r \in Ds!EnumerateUsb : r.of = t
    BY <1>5, DsOthersFound
  <2>2. r.bus = "usb" /\ DsIs(r, t) /\ r.usb = Ds!Usb(dsAt[t], 5)
    BY <2>1, DsOthersFound DEF DsIs
  <2>3. ASSUME NEW h \in DsHidRows(DsAll), h.usb # Ds!NoUsb PROVE h.usb # r.usb
    <3>1. h.of # "mouse" /\ h.bus = "hid" /\ h.of \in DsHidThings /\ DsSomewhere(h.of)
      BY <1>0, <2>3 DEF DsIs, DsHidRows
    <3>2. PICK k \in DsSubs(h.of) : h.usb = Ds!Usb(dsAt[h.of], k)
      BY <1>0, <3>1 DEF DsIs
    <3>3. CASE k = 5
      <4>1. h.of = "card"
        BY <3>1, <3>2, <3>3 DEF DsSubs, DsHidThings
      <4>2. dsAt["card"] # dsAt["pad"]
        BY <1>5, <3>1, <4>1 DEF DsApart, DsSomewhere
      <4>3. QED BY <1>5, <2>2, <3>2, <4>1, <4>2 DEF Ds!Usb
    <3>4. CASE k # 5
      BY <2>2, <3>2, <3>4 DEF Ds!Usb
    <3>5. QED BY <3>3, <3>4
  <2>4. ~DsIsDuplicate(DsAll, r)
    BY <2>2, <2>3 DEF DsIsDuplicate
  <2>5. QED BY <2>1, <2>4 DEF DsKept, DsAll
<1>6. CASE t = "mouse" /\ ~DsSomewhere(t)
  <2>1. PICK r \in Ds!EnumerateBluetooth : r.bus = "bt" /\ DsIs(r, "mouse")
    BY <1>6, DsOthersFound
  <2>2. r.addr = Ds!Name("mouse") /\ r.of = "mouse"
    BY <2>1 DEF DsIs
  <2>3. ASSUME NEW h \in DsHidRows(DsAll), h.addr # Ds!NoUsb PROVE FALSE
    <3>1. h.of # "mouse" /\ h.bus = "hid"
      BY <1>0, <1>6 DEF DsHidRows
    <3>2. QED BY <1>0, <2>3, <3>1 DEF DsIs
  <2>4. ~DsIsDuplicate(DsAll, r)
    BY <2>1, <2>3 DEF DsIsDuplicate
  <2>5. QED BY <1>6, <2>1, <2>2, <2>4 DEF DsKept, DsAll
<1>7. QED BY <1>2, <1>3, <1>4, <1>5, <1>6 DEF DsApart, DsThings, DsHidThings

\* The rows with the hidraw nodes taken over.
LEMMA DsOneFacts ==
    ASSUME DsApart
    PROVE  /\ \A r \in Ds!OneRowPerDevice(DsAll) : DsIs(r, r.of) /\ r.of \in Ds!Machine
           /\ \A r, q \in Ds!OneRowPerDevice(DsAll) : r.of = q.of => r = q
           /\ \A t \in Ds!Machine : DsSomewhere(t) \/ t = "mouse" => \E r \in Ds!OneRowPerDevice(DsAll) : r.of = t
<1> DEFINE One == Ds!OneRowPerDevice(DsAll)
<1>1. One = {DsWith(DsAll, r) : r \in DsKept(DsAll)}
  BY DsOneIs
<1>2. \A r \in DsAll : DsIs(r, r.of) /\ r.of \in Ds!Machine
  BY DsAllIs
<1>3. DsAll \subseteq DsRow
  BY <1>2 DEF DsIs
<1>4. One \subseteq DsRow
  BY <1>3, DsOneType
<1>5. ASSUME NEW r \in DsKept(DsAll)
      PROVE  DsIs(DsWith(DsAll, r), r.of) /\ DsWith(DsAll, r).of = r.of /\ r.of \in Ds!Machine
  <2> DEFINE nodes == r.nodes \cup UNION {h.nodes : h \in {g \in DsHidRows(DsAll) : g.usb = r.usb}}
  <2>1. r \in DsRow /\ DsIs(r, r.of) /\ r.of \in Ds!Machine
    BY <1>2, <1>3 DEF DsKept
  <2>2. DsWith(DsAll, r) \in DsRow
    BY <1>1, <1>4
  <2>3. DsWith(DsAll, r) = IF r.bus # "v4l2" THEN r ELSE [r EXCEPT !.nodes = nodes]
    BY DEF DsWith
  <2> HIDE DEF nodes
  <2>4. /\ DsWith(DsAll, r).of = r.of /\ DsWith(DsAll, r).bus = r.bus /\ DsWith(DsAll, r).mod = r.mod
        /\ DsWith(DsAll, r).usb = r.usb /\ DsWith(DsAll, r).addr = r.addr /\ DsWith(DsAll, r).id = r.id
    BY <2>1, <2>3 DEF DsRow
  <2>5. QED BY <2>1, <2>2, <2>4 DEF DsIs
<1> HIDE DEF One
<1>6. \A r \in One : DsIs(r, r.of) /\ r.of \in Ds!Machine
  BY <1>1, <1>5
<1>7. ASSUME NEW r \in One, NEW q \in One, r.of = q.of PROVE r = q
  <2>1. PICK a \in DsKept(DsAll) : r = DsWith(DsAll, a)
    BY <1>1
  <2>2. PICK b \in DsKept(DsAll) : q = DsWith(DsAll, b)
    BY <1>1
  <2>3. a.of = b.of
    BY <1>5, <1>7, <2>1, <2>2
  <2>4. a = b
    BY <2>3, DsKeptIsOne
  <2>5. QED BY <2>1, <2>2, <2>4
<1>8. ASSUME NEW t \in Ds!Machine, DsSomewhere(t) \/ t = "mouse" PROVE \E r \in One : r.of = t
  <2>1. PICK r \in DsKept(DsAll) : r.of = t
    BY <1>8, DsKeptHasAll
  <2>2. QED BY <1>1, <1>5, <2>1
<1>9. QED BY <1>6, <1>7, <1>8 DEF One

LEMMA DsSubsTell ==
    ASSUME NEW x \in DsHidThings, NEW y \in DsHidThings, NEW k, k \in DsSubs(x), k \in DsSubs(y)
    PROVE  x = y
<1>1. CASE x = "dock" BY <1>1 DEF DsSubs, DsHidThings
<1>2. CASE x = "board" BY <1>2 DEF DsSubs, DsHidThings
<1>3. CASE x = "yubi" BY <1>3 DEF DsSubs, DsHidThings
<1>4. CASE x = "card" BY <1>4 DEF DsSubs, DsHidThings
<1>5. CASE x = "receiver" BY <1>5 DEF DsSubs, DsHidThings
<1>6. CASE x = "camera" BY <1>6 DEF DsSubs, DsHidThings
<1>7. CASE x = "mouse" BY <1>7 DEF DsSubs
<1>8. QED BY <1>1, <1>2, <1>3, <1>4, <1>5, <1>6, <1>7 DEF DsHidThings

\* No two things have the same name on the same kind of bus.
LEMMA DsNamesTell ==
    ASSUME DsApart, NEW a, NEW b, DsIs(a, a.of), DsIs(b, b.of), a.of \in Ds!Machine, b.of \in Ds!Machine,
           a.bus = b.bus, a.id = b.id
    PROVE  a.of = b.of
<1>1. a.bus \in {"hid", "usb", "bt", "drm", "v4l2"}
  BY DEF DsIs, DsRow
<1>2. CASE a.bus = "hid"
  <2> DEFINE tells(x) == x.of = "mouse" /\ x.id = Ds!Name("mouse")
  <2>1. a.of \in DsHidThings /\ b.of \in DsHidThings
    BY <1>2 DEF DsIs
  <2>2. CASE a.of # "mouse" /\ b.of # "mouse"
    <3>1. PICK k \in DsSubs(a.of) : a.id = Ds!Usb(dsAt[a.of], k)
      BY <1>2, <2>2 DEF DsIs
    <3>2. PICK l \in DsSubs(b.of) : b.id = Ds!Usb(dsAt[b.of], l)
      BY <1>2, <2>2 DEF DsIs
    <3>3. Ds!Usb(dsAt[a.of], k) = Ds!Usb(dsAt[b.of], l)
      BY <3>1, <3>2
    <3>4. k = l
      BY <3>3 DEF Ds!Usb
    <3>5. QED BY <3>4, <2>1, <2>2 DEF DsSubs, DsHidThings
  <2>3. ASSUME NEW x, NEW y, DsIs(x, x.of), DsIs(y, y.of), x.bus = "hid", y.bus = "hid", x.id = y.id, x.of = "mouse", y.of # "mouse"
        PROVE  FALSE
    <3>1. PICK k \in DsSubs(y.of) : y.id = Ds!Usb(dsAt[y.of], k)
      BY <2>3 DEF DsIs
    <3>2. x.id.sub = 0
      BY <2>3 DEF DsIs, Ds!Name
    <3>3. y.id.sub = k
      BY <3>1 DEF Ds!Usb
    <3>4. k # 0
      BY DEF DsSubs
    <3>5. QED BY <2>3, <3>2, <3>3, <3>4
  <2>4. QED BY <1>2, <2>2, <2>3
<1>3. CASE a.bus \in {"bt", "drm", "v4l2"}
  BY <1>3 DEF DsIs
<1>4. CASE a.bus = "usb"
  BY <1>4 DEF DsIs, Ds!Name, Ds!Usb
<1>5. QED BY <1>1, <1>2, <1>3, <1>4

LEMMA DsListIsRight ==
    ASSUME DsApart, dsDevices = Ds!Claimed(DsAll), dsTrue
    PROVE  Ds!OneRowPerThing /\ Ds!MostSpecialisedHasIt
<1> DEFINE One == Ds!OneRowPerDevice(DsAll)
           child == [Ds!Row("child", "hid", Ds!Name("receiver")) EXCEPT !.mod = "logitech_peripherals"]
<1>1. /\ \A r \in One : DsIs(r, r.of) /\ r.of \in Ds!Machine
      /\ \A r, q \in One : r.of = q.of => r = q
      /\ \A t \in Ds!Machine : DsSomewhere(t) \/ t = "mouse" => \E r \in One : r.of = t
  BY DsOneFacts
<1>2. \A r \in dsDevices :
         \/ r = child /\ (\E o \in One : Ds!Claim(o).mod = "logitech_peripherals")
         \/ \E o \in One : r = Ds!Claim(o)
  BY DEF Ds!Claimed, Ds!Expand, Ds!Children
<1>3. \A o \in One : Ds!Claim(o) \in dsDevices
  BY DEF Ds!Claimed, Ds!Expand
<1>4. child.of = "child" /\ child.bus = "hid" /\ child.mod = "logitech_peripherals" /\ child.fido = FALSE
  BY DEF Ds!Row
<1> HIDE DEF One, child
<1>5. \A o \in One :
        /\ Ds!Claim(o).of = o.of /\ Ds!Claim(o).bus = o.bus /\ Ds!Claim(o).id = o.id
        /\ Ds!Claim(o).mod # "none" => Ds!Claim(o).mod \notin dsOff
        /\ \A m \in Ds!Modules \ dsOff : Ds!Matches(m, Ds!Claim(o)) => Ds!Claim(o).mod \notin {"none", Ds!Extends(m)}
  <2> TAKE o \in One
  <2>1. o \in DsRow /\ o.mod = "none"
    BY <1>1 DEF DsIs
  <2>2. QED BY <2>1, DsClaims
<1>6. "child" \notin Ds!Machine
  BY DEF DsApart, DsThings
<1>7. Ds!OneRowPerThing
  <2>1. ASSUME NEW t \in Ds!Machine, Ds!Here(t) \/ t = "mouse"
        PROVE  Cardinality({r \in dsDevices : r.of = t}) = 1
    <3>1. PICK o \in One : o.of = t
      BY <1>1, <2>1 DEF Ds!Here, DsSomewhere
    <3>2. \A r \in dsDevices : r.of = t <=> r = Ds!Claim(o)
      <4> TAKE r \in dsDevices
      <4>1. CASE r = child
        BY <1>4, <1>5, <1>6, <3>1, <4>1
      <4>2. CASE \E p \in One : r = Ds!Claim(p)
        BY <1>1, <1>5, <3>1, <4>2
      <4>3. QED BY <1>2, <4>1, <4>2
    <3>3. {r \in dsDevices : r.of = t} = {Ds!Claim(o)}
      BY <1>3, <3>2
    <3>4. QED BY <3>3, FS_Singleton
  <2>2. ASSUME NEW r \in dsDevices, NEW q \in dsDevices, r # q
        PROVE  [bus |-> r.bus, id |-> r.id, of |-> r.of = "child"] # [bus |-> q.bus, id |-> q.id, of |-> q.of = "child"]
    <3> SUFFICES ASSUME r.bus = q.bus, r.id = q.id, (r.of = "child") = (q.of = "child") PROVE FALSE
      OBVIOUS
    <3>1. CASE r = child \/ q = child
      BY <1>1, <1>2, <1>4, <1>5, <1>6, <2>2, <3>1
    <3>2. CASE r # child /\ q # child
      <4>1. PICK a \in One : r = Ds!Claim(a)
        BY <1>2, <3>2
      <4>2. PICK b \in One : q = Ds!Claim(b)
        BY <1>2, <3>2
      <4>3. a.bus = b.bus /\ a.id = b.id
        BY <1>5, <4>1, <4>2
      <4>4. a.of = b.of
        BY <1>1, <4>3, DsNamesTell
      <4>5. QED BY <1>1, <2>2, <4>1, <4>2, <4>4
    <3>3. QED BY <3>1, <3>2
  <2>3. QED BY <2>1, <2>2 DEF Ds!OneRowPerThing, Ds!Cardinality, Cardinality, Ds!IsFiniteSet, IsFiniteSet
<1>8. Ds!MostSpecialisedHasIt
  <2>1. ASSUME NEW m \in Ds!Modules PROVE ~Ds!Matches(m, child)
    BY <1>4 DEF Ds!Matches
  <2>2. QED BY <1>2, <1>5, <2>1, <1>4 DEF Ds!MostSpecialisedHasIt
<1>9. QED BY <1>7, <1>8

LEMMA DsHonestSuffices ==
    ASSUME DsHonest
    PROVE  Ds!OneRowPerThing /\ Ds!MostSpecialisedHasIt
<1>1. CASE dsTrue
  BY <1>1, DsListIsRight DEF DsHonest
<1>2. CASE ~dsTrue
  BY <1>2 DEF Ds!OneRowPerThing, Ds!MostSpecialisedHasIt
<1>3. QED BY <1>1, <1>2

-----------------------------------------------------------------------------
(* The theorems.  A step is one of one component's; the others stay as they are. *)

LEMMA DsSteps == [Next]_vars => DsNext
BY DEF Next, vars, DsNext

LEMMA VfAnySteps == [Next]_vars => VfNext
BY DEF Next, vars, VfNext

SweepInvariant == DsTyped /\ DsSaved /\ DsHonest
VendorInvariant == VfTyped /\ VfInstalled /\ VfStored

LEMMA SweepInvariantInit == Ds!Init => SweepInvariant
<1>1. Ds!Init => DsHonest
  BY DsHonestInit, MachinesAssumption DEF DsThings
<1>2. QED BY <1>1, DsTypedInit, DsSavedInit DEF SweepInvariant

LEMMA SweepInvariantKept == SweepInvariant /\ [Next]_vars => SweepInvariant'
BY DsSteps, DsTypedKept, DsSavedKept, DsHonestKept DEF SweepInvariant

LEMMA VendorInvariantKept == VendorInvariant /\ [Next]_vars => VendorInvariant'
<1> SUFFICES ASSUME VendorInvariant, VfNext PROVE VendorInvariant'
  BY VfAnySteps
<1>1. VfInstalled'
  BY VfInstalledKept DEF VendorInvariant, VfInstalled
<1>2. VfStored'
  BY VfStoredKept, JobsAssumption DEF VendorInvariant
<1>3. QED BY <1>1, <1>2, VfTypedKept DEF VendorInvariant

\* A file that is read is one that was written to its end: the saved list, the data a module
\* obtained and the photo of a device (core/discovery.py, core/assets.py, core/photos.py).
THEOREM FilesAreWholeAlways == Spec => []FilesAreWhole
<1> DEFINE Inv == SweepInvariant /\ VendorInvariant
<1>1. Init => Inv
  BY SweepInvariantInit, VfTypedInit, VfInstalledInit, VfStoredInit DEF Init, VendorInvariant
<1>2. Inv /\ [Next]_vars => Inv'
  BY SweepInvariantKept, VendorInvariantKept
<1>3. Inv => FilesAreWhole
  <2> SUFFICES ASSUME Inv PROVE FilesAreWhole
    OBVIOUS
  <2>1. Ds!CacheIsWhole
    BY DEF SweepInvariant, DsSaved, DsSaving, Ds!CacheIsWhole
  <2>2. Vf!PresentIsWhatIsAskedFor /\ Vf!PhotoIsTheLast
    BY VfInstalledIsAskedFor, VfStoredIsTheLast DEF VendorInvariant
  <2>3. QED BY <2>1, <2>2 DEF FilesAreWhole
<1> HIDE DEF Inv
<1>4. QED BY <1>1, <1>2, <1>3, PTL DEF Spec

\* Whatever is plugged in and wherever, each thing has one row, of a name of its own, and the most
\* specialised module that is on has it, once a sweep ran undisturbed (core/discovery.py).
THEOREM EachThingHasItsRowAlways == Spec => []EachThingHasItsRow
<1>1. Init => SweepInvariant
  BY SweepInvariantInit DEF Init
<1>2. SweepInvariant => EachThingHasItsRow
  BY DsHonestSuffices DEF SweepInvariant, EachThingHasItsRow
<1>3. QED BY <1>1, <1>2, SweepInvariantKept, PTL DEF Spec

-----------------------------------------------------------------------------
(* DellMonitor. *)

DmWords == [Dm!Inputs -> Dm!Lums]
DmFiles == [Mons -> {None, "even"}]
DmMeanings == [lum : Dm!Lums, word : DmWords]
DmPanels == [lum : Dm!Lums, word : DmWords, pip : Dm!Lums, blank : BOOLEAN]
DmShown == [lum : Dm!Lums, word : DmWords, pip : Dm!Lums]
DmDevices == [bus : Mons \cup {None}, rows : DmShown, range : {None, "even"}]
DmKinds == {"none", "lum", "kvm", "pip", "reset", "reread", "calibrate"}
DmSteps == {"off", "begin", "put", "readback", "snapshot", "probe", "restore", "load", "save"}
DmWrites == [kind : DmKinds, step : DmSteps, at : Dm!Inputs, to : Dm!Lums, was : Dm!Lums, word : DmWords,
             file : DmFiles, tries : Nat]


LEMMA DmNoWord == <<0, 0>> \in DmWords
<1> DEFINE w == <<0, 0>>
<1>1. DOMAIN w = 1..2 /\ w[1] = 0 /\ w[2] = 0 /\ w \in Seq(Nat)
  OBVIOUS
<1>2. 1..2 = {1, 2}
  OBVIOUS
<1>3. w = [i \in DOMAIN w |-> w[i]]
  OBVIOUS
<1>4. QED BY <1>1, <1>2, <1>3 DEF DmWords, Dm!Inputs, Dm!Lums

\* What is to be done with a device, with some fields of it changed.
DmRun(op, fields) == [x \in DOMAIN Dm!NoOp |-> IF x \in DOMAIN fields THEN fields[x] ELSE op[x]]

LEMMA DmRunIs ==
    ASSUME NEW op, NEW fields
    PROVE  LET g(x) == IF x \in DOMAIN fields THEN fields[x] ELSE op[x] IN
           DmRun(op, fields) = [kind |-> g("kind"), step |-> g("step"), at |-> g("at"), to |-> g("to"),
                                was |-> g("was"), word |-> g("word"), file |-> g("file"), tries |-> g("tries")]
BY DEF DmRun, Dm!NoOp

LEMMA DmNoOpType == Dm!NoOp \in DmWrites
<1> DEFINE w == <<0, 0>>
<1>1. w \in DmWords
  BY DmNoWord
<1> HIDE DEF w
<1>2. Dm!NoOp = [kind |-> "none", step |-> "off", at |-> 1, to |-> 0, was |-> 0, word |-> w, file |-> [m \in Mons |-> None], tries |-> 0]
  BY DEF w, Dm!NoOp
<1>3. QED BY <1>1, <1>2 DEF DmWrites, DmKinds, DmSteps, DmFiles, Dm!Inputs, Dm!Lums

DmTyped ==
    /\ dmPanel \in [Mons -> DmPanels] /\ dmFile \in DmFiles
    /\ dmBus \in [Mons -> Mons] /\ \A b \in Mons : \E m \in Mons : dmBus[m] = b
    /\ dmSeen = [m \in Mons |-> None] \/ dmSeen \in [Mons -> Mons]
    /\ dmDev \in [Mons -> DmDevices] /\ dmOp \in [Mons -> DmWrites]
    /\ dmMeant \in [Mons -> DmMeanings]
    /\ dmBeside \in BOOLEAN

LEMMA DmTypedSuffices == DmTyped => Dm!TypeOK
BY DEF DmTyped, Dm!TypeOK, DmPanels, DmFiles, Dm!Buses, DmDevices

LEMMA DmTypedInit == Dm!Init => DmTyped
<1> SUFFICES ASSUME Dm!Init PROVE DmTyped
  OBVIOUS
<1> DEFINE w == <<0, 0>>
<1>1. w \in DmWords
  BY DmNoWord
<1>2. /\ dmPanel = [m \in Mons |-> [lum |-> 2, word |-> w, pip |-> 0, blank |-> FALSE]]
      /\ dmDev = [d \in Mons |-> [bus |-> None, rows |-> [lum |-> 2, word |-> w, pip |-> 0], range |-> None]]
      /\ dmMeant = [m \in Mons |-> [lum |-> 2, word |-> w]]
  BY DEF Dm!Init, Dm!Closed, Dm!NoRange
<1> HIDE DEF w
<1>3. dmPanel \in [Mons -> DmPanels] /\ dmDev \in [Mons -> DmDevices] /\ dmMeant \in [Mons -> DmMeanings]
  BY <1>1, <1>2 DEF DmPanels, DmDevices, DmShown, DmMeanings, Dm!Lums
<1>4. dmOp \in [Mons -> DmWrites]
  BY DmNoOpType DEF Dm!Init
<1>5. QED BY <1>3, <1>4 DEF DmTyped, Dm!Init, DmFiles

LEMMA DmTargets ==
    ASSUME DmTyped, NEW d \in Mons, dmDev[d].bus # None
    PROVE  Dm!Target(d) \in Mons /\ dmBus[Dm!Target(d)] = dmDev[d].bus
BY DEF DmTyped, Dm!Target, Dm!OnBus, DmDevices


\* A device at work o: between its first request and its last the panel, what it is meant to be and
\* the rows part in one field at most.
DmOk(o, p, m, r, f, file) ==
    /\ o.kind = "none" <=> o.step = "off"
    /\ r.bus = None => o.kind = "none"
    /\ p.word = m.word
    /\ IF o.step = "restore" THEN o.was = m.lum ELSE p.lum = m.lum
    /\ o.step = "probe" => o.was = p.lum
    /\ o.kind = "lum" /\ r.range # None => o.to = Dm!Settled(o.to)
    /\ o.kind = "lum" /\ o.step = "readback" => p.lum = Dm!Settled(o.to)
    /\ o.kind = "kvm" /\ o.step = "put" => o.word = p.word
    /\ o.kind = "kvm" /\ o.step = "readback" => p.word[o.at] = o.to
    /\ r.bus # None /\ o.step # "snapshot" =>
          /\ (o.kind = "lum" /\ o.step = "readback") \/ r.rows.lum = m.lum
          /\ (o.kind = "kvm" /\ o.step = "readback") \/ r.rows.word = p.word
    /\ r.bus # None /\ o.step \notin {"save"} => f = r.range
    /\ o.step = "save" => o.file = file /\ r.range = "even" /\ o.kind = "calibrate"

DmFollows ==
    ~dmBeside =>
        /\ \A m \in Mons : dmBus[m] = m /\ dmSeen[m] \in {None, m}
        /\ \A d \in Mons : dmDev[d].bus \in {None, d} /\ DmOk(dmOp[d], dmPanel[d], dmMeant[d], dmDev[d], dmFile[d], dmFile)
        /\ \A d, e \in Mons : dmOp[d].step = "save" /\ dmOp[e].step = "save" => d = e

LEMMA DmFollowsInit == Dm!Init => DmFollows
<1> SUFFICES ASSUME Dm!Init PROVE DmFollows
  OBVIOUS
<1> DEFINE w == <<0, 0>>
<1>2. /\ dmPanel = [m \in Mons |-> [lum |-> 2, word |-> w, pip |-> 0, blank |-> FALSE]]
      /\ dmDev = [d \in Mons |-> [bus |-> None, rows |-> [lum |-> 2, word |-> w, pip |-> 0], range |-> None]]
      /\ dmMeant = [m \in Mons |-> [lum |-> 2, word |-> w]]
      /\ dmOp = [d \in Mons |-> Dm!NoOp] /\ Dm!NoOp.kind = "none" /\ Dm!NoOp.step = "off"
  BY DEF Dm!Init, Dm!Closed, Dm!NoRange, Dm!NoOp
<1> HIDE DEF w
<1>3. QED BY <1>2 DEF DmFollows, DmOk, Dm!Init

LEMMA DmSuffices ==
    ASSUME DmTyped, DmFollows
    PROVE  Dm!RowsAreReadBack /\ Dm!PanelIsAsMeant /\ Dm!CalibrationsAreKept
<1>1. \A d \in Mons : ~dmBeside /\ Dm!Open(d) => Dm!Target(d) = d
  BY DmTargets DEF DmFollows, Dm!Open
<1>2. QED BY <1>1 DEF DmFollows, DmOk, Dm!RowsAreReadBack, Dm!PanelIsAsMeant, Dm!CalibrationsAreKept, Dm!AtRest, Dm!Reached, Dm!Open

\* What d does to itself and to its monitor keeps both.
LEMMA DmGoes ==
    ASSUME DmTyped, DmFollows, NEW d \in Mons,
           dmPanel' \in [Mons -> DmPanels], dmMeant' \in [Mons -> DmMeanings],
           dmFile' \in DmFiles, dmBus' = dmBus, dmSeen' \in {dmSeen, dmBus}, dmBeside' \in BOOLEAN,
           NEW r \in DmDevices, dmDev' = [dmDev EXCEPT ![d] = r],
           NEW o \in DmWrites, dmOp' = [dmOp EXCEPT ![d] = o],
           ~dmBeside' =>
              /\ ~dmBeside /\ r.bus \in {None, d}
              /\ \A e \in Mons : e # d => dmPanel'[e] = dmPanel[e] /\ dmMeant'[e] = dmMeant[e]
              /\ dmFile' = dmFile \/ (dmOp[d].step = "save" /\ dmFile' = [dmFile EXCEPT ![d] = "even"])
              /\ o.step = "save" => \A e \in Mons : e # d => dmOp[e].step # "save"
              /\ DmOk(o, dmPanel'[d], dmMeant'[d], r, dmFile'[d], dmFile')
    PROVE  DmTyped' /\ DmFollows'
<1>1. DmTyped'
  BY DEF DmTyped
<1>2. DmFollows'
  <2> SUFFICES ASSUME ~dmBeside' PROVE DmFollows'
    BY DEF DmFollows
  <2>1. \A m \in Mons : dmBus'[m] = m /\ dmSeen'[m] \in {None, m}
    BY DEF DmFollows
  <2>2. ASSUME NEW e \in Mons
        PROVE  dmDev'[e].bus \in {None, e} /\ DmOk(dmOp'[e], dmPanel'[e], dmMeant'[e], dmDev'[e], dmFile'[e], dmFile')
    <3>1. CASE e = d
      BY <3>1 DEF DmTyped
    <3>2. CASE e # d
      <4>1. /\ dmOp'[e] = dmOp[e] /\ dmPanel'[e] = dmPanel[e] /\ dmMeant'[e] = dmMeant[e] /\ dmDev'[e] = dmDev[e]
            /\ dmFile'[e] = dmFile[e]
        BY <3>2 DEF DmTyped, DmFiles
      <4>2. dmFile' = dmFile \/ dmOp[e].step # "save"
        BY <3>2 DEF DmFollows
      <4>3. QED BY <4>1, <4>2 DEF DmFollows, DmOk
    <3>3. QED BY <3>1, <3>2
  <2>3. \A a, e \in Mons : dmOp'[a].step = "save" /\ dmOp'[e].step = "save" => a = e
    BY DEF DmFollows, DmTyped
  <2>4. QED BY <2>1, <2>2, <2>3 DEF DmFollows
<1>3. QED BY <1>1, <1>2

DmStays == UNCHANGED <<dmPanel, dmFile, dmDev, dmMeant, dmBus, dmSeen>>

LEMMA DmConnects ==
    ASSUME DmTyped, DmFollows, NEW d \in Mons, Dm!Connect(d)
    PROVE  DmTyped' /\ DmFollows'
<1> DEFINE bus == Dm!Detected[d]
           m == Dm!OnBus(bus)
           r == [bus |-> bus, range |-> dmFile[d],
                 rows |-> [lum |-> dmPanel[m].lum, word |-> dmPanel[m].word, pip |-> dmPanel[m].pip]]
<1>1. /\ dmDev[d].bus = None /\ dmOp[d].kind = "none" /\ dmSeen' = Dm!Detected
      /\ dmDev' = [dmDev EXCEPT ![d] = r]
      /\ UNCHANGED <<dmPanel, dmBus, dmFile, dmOp, dmMeant, dmBeside>>
  BY DEF Dm!Connect, Dm!Calm
<1>2. Dm!Detected \in {dmSeen, dmBus} /\ Dm!Detected \in [Mons -> Mons]
  BY DEF DmTyped, Dm!Detected
<1>3. m \in Mons /\ dmBus[m] = bus /\ bus \in Mons
  BY <1>2 DEF DmTyped, Dm!OnBus
<1>4. ~dmBeside => bus = d /\ m = d
  BY <1>2, <1>3, MonitorsAssumption DEF DmFollows
<1> HIDE DEF bus, m
<1>5. r \in DmDevices
  BY <1>3 DEF DmTyped, DmDevices, DmShown, DmPanels, DmFiles
<1>6. dmOp' = [dmOp EXCEPT ![d] = dmOp[d]] /\ dmOp[d] \in DmWrites
  BY <1>1 DEF DmTyped
<1>7. ~dmBeside => DmOk(dmOp[d], dmPanel[d], dmMeant[d], r, dmFile[d], dmFile)
  BY <1>1, <1>4 DEF DmFollows, DmOk, DmTyped
<1>8. /\ dmPanel' \in [Mons -> DmPanels] /\ dmMeant' \in [Mons -> DmMeanings]
      /\ dmFile' \in DmFiles /\ dmBeside' \in BOOLEAN
  BY <1>1 DEF DmTyped
<1>9. ~dmBeside => dmOp[d].step # "save"
  BY <1>1 DEF DmFollows, DmOk
<1> HIDE DEF r
<1>10. r.bus = bus
  BY DEF r
<1>11. QED BY <1>1, <1>2, <1>4, <1>5, <1>6, <1>7, <1>8, <1>9, <1>10, DmGoes

LEMMA DmDisconnects ==
    ASSUME DmTyped, DmFollows, NEW d \in Mons, Dm!Disconnect(d)
    PROVE  DmTyped' /\ DmFollows'
<1> DEFINE w == <<0, 0>>
           r == [bus |-> None, rows |-> [lum |-> 2, word |-> w, pip |-> 0], range |-> None]
<1>1. w \in DmWords
  BY DmNoWord
<1>2. /\ dmDev' = [dmDev EXCEPT ![d] = r]
      /\ UNCHANGED <<dmPanel, dmBus, dmSeen, dmFile, dmOp, dmMeant>>
      /\ dmBeside' = (dmBeside \/ dmOp[d].kind # "none")
  BY DEF Dm!Disconnect, Dm!Closed, Dm!NoRange
<1> HIDE DEF w
<1>3. r \in DmDevices
  BY <1>1 DEF DmDevices, DmShown, Dm!Lums
<1>4. dmOp' = [dmOp EXCEPT ![d] = dmOp[d]] /\ dmOp[d] \in DmWrites
  BY <1>2 DEF DmTyped
<1>5. ~dmBeside' => ~dmBeside /\ DmOk(dmOp[d], dmPanel[d], dmMeant[d], r, dmFile[d], dmFile) /\ dmOp[d].step # "save"
  BY <1>2 DEF DmFollows, DmOk
<1>6. /\ dmPanel' \in [Mons -> DmPanels] /\ dmMeant' \in [Mons -> DmMeanings]
      /\ dmFile' \in DmFiles /\ dmBeside' \in BOOLEAN
  BY <1>2 DEF DmTyped
<1> HIDE DEF r
<1>7. r.bus = None
  BY DEF r
<1>8. QED BY <1>2, <1>3, <1>4, <1>5, <1>6, <1>7, DmGoes

\* A step of the device that leaves its monitor and its rows as they are.
LEMMA DmOnlyRuns ==
    ASSUME DmTyped, DmFollows, NEW d \in Mons, DmStays, dmBeside' \in BOOLEAN,
           NEW o \in DmWrites, dmOp' = [dmOp EXCEPT ![d] = o],
           ~dmBeside' =>
              /\ ~dmBeside
              /\ DmOk(o, dmPanel[d], dmMeant[d], dmDev[d], dmFile[d], dmFile)
              /\ o.step # "save"
    PROVE  DmTyped' /\ DmFollows'
<1>1. dmDev' = [dmDev EXCEPT ![d] = dmDev[d]] /\ dmDev[d] \in DmDevices
  BY DEF DmTyped, DmStays
<1>2. /\ dmPanel' \in [Mons -> DmPanels] /\ dmMeant' \in [Mons -> DmMeanings]
      /\ dmFile' \in DmFiles
  BY DEF DmTyped, DmStays
<1>3. ~dmBeside' => dmDev[d].bus \in {None, d}
  BY DEF DmFollows
<1>4. QED BY <1>1, <1>2, <1>3, DmGoes DEF DmStays

\* The end of a write.
LEMMA DmEnds ==
    ASSUME DmTyped, DmFollows, NEW d \in Mons, DmStays, dmBeside' \in BOOLEAN, Dm!Over(d),
           ~dmBeside' => ~dmBeside /\ (dmOp[d].kind = "none" \/ dmDev[d].bus = None)
    PROVE  DmTyped' /\ DmFollows'
<1> DEFINE o == Dm!NoOp
<1>1. o \in DmWrites /\ o.kind = "none" /\ o.step = "off"
  BY DmNoOpType DEF Dm!NoOp
<1>2. dmOp' = [dmOp EXCEPT ![d] = o]
  BY DEF Dm!Over
<1> HIDE DEF o
<1>3. ~dmBeside' => DmOk(o, dmPanel[d], dmMeant[d], dmDev[d], dmFile[d], dmFile)
  BY <1>1 DEF DmFollows, DmOk
<1>4. QED BY <1>1, <1>2, <1>3, DmOnlyRuns

LEMMA DmRuns ==
    ASSUME NEW d, NEW fields, Dm!Step(d, fields)
    PROVE  dmOp' = [dmOp EXCEPT ![d] = DmRun(dmOp[d], fields)]
BY DEF Dm!Step, DmRun

LEMMA DmStepsOn ==
    ASSUME DmTyped, NEW d \in Mons, NEW s \in DmSteps, Dm!Step(d, [step |-> s])
    PROVE  \E o \in DmWrites : dmOp' = [dmOp EXCEPT ![d] = o] /\ o = [dmOp[d] EXCEPT !.step = s]
<1> DEFINE f == [step |-> s]  op == dmOp[d]  o == DmRun(op, f)
<1>1. op \in DmWrites
  BY DEF DmTyped
<1>2. dmOp' = [dmOp EXCEPT ![d] = o]
  BY DmRuns
<1> HIDE DEF op
<1>3. o = [op EXCEPT !.step = s]
  BY <1>1, DmRunIs DEF DmWrites
<1>4. o \in DmWrites
  BY <1>1, <1>3 DEF DmWrites
<1>5. QED BY <1>2, <1>3, <1>4 DEF op

LEMMA DmStarts ==
    ASSUME DmTyped, DmFollows, NEW d \in Mons, NEW job \in Dm!Kinds, Dm!StartSet(d, job)
    PROVE  DmTyped' /\ DmFollows'
<1> DEFINE f == [kind |-> job.kind, step |-> "begin", at |-> job.at, to |-> job.to]  op == dmOp[d]  o == DmRun(op, f)
<1>1. op \in DmWrites /\ op.kind = "none"
  BY DEF DmTyped, Dm!StartSet
<1>2. dmOp' = [dmOp EXCEPT ![d] = o] /\ dmBeside' = dmBeside /\ DmStays
  BY DmRuns DEF Dm!StartSet, Dm!Keep, DmStays
<1>3. dmDev[d].bus # None /\ (job.kind = "lum" /\ dmDev[d].range # None => job.to = Dm!Settled(job.to))
  BY DEF Dm!StartSet, Dm!Offered, Dm!NoRange
<1>4. job.kind \in DmKinds \ {"none"} /\ job.at \in Dm!Inputs /\ job.to \in Dm!Lums
  BY DEF Dm!Kinds, DmKinds, Dm!Inputs, Dm!Lums
<1> HIDE DEF op
<1>5. /\ o.kind = job.kind /\ o.step = "begin" /\ o.at = job.at /\ o.to = job.to
      /\ o = [kind |-> job.kind, step |-> "begin", at |-> job.at, to |-> job.to, was |-> op.was, word |-> op.word,
              file |-> op.file, tries |-> op.tries]
  BY <1>1, DmRunIs DEF DmWrites
<1>6. o \in DmWrites
  BY <1>1, <1>4, <1>5 DEF DmWrites, DmSteps
<1> HIDE DEF o
<1>7. ~dmBeside => DmOk(o, dmPanel[d], dmMeant[d], dmDev[d], dmFile[d], dmFile)
  BY <1>1, <1>3, <1>4, <1>5 DEF DmFollows, DmOk, op
<1>8. dmBeside' \in BOOLEAN
  BY <1>2 DEF DmTyped
<1>9. QED BY <1>2, <1>5, <1>6, <1>7, <1>8, DmOnlyRuns

LEMMA DmRefusals ==
    ASSUME DmTyped, DmFollows, NEW d \in Mons, Dm!Refused(d) \/ Dm!GoneMidway(d)
    PROVE  DmTyped' /\ DmFollows'
BY DmEnds DEF Dm!Refused, Dm!GoneMidway, Dm!Keep, Dm!Calm, Dm!Stirs, DmStays, DmTyped


\* A request that the monitor of d takes.
LEMMA DmSets ==
    ASSUME DmTyped, DmFollows, NEW d \in Mons, dmDev[d].bus # None,
           NEW p \in DmPanels, dmPanel' = [dmPanel EXCEPT ![Dm!Target(d)] = p],
           NEW m \in DmMeanings, dmMeant' = [dmMeant EXCEPT ![Dm!Target(d)] = m],
           UNCHANGED <<dmFile, dmDev, dmBus, dmSeen>>, dmBeside' \in BOOLEAN,
           NEW o \in DmWrites, dmOp' = [dmOp EXCEPT ![d] = o],
           ~dmBeside' => ~dmBeside /\ o.step # "save" /\ (Dm!Target(d) = d => DmOk(o, p, m, dmDev[d], dmFile[d], dmFile))
    PROVE  DmTyped' /\ DmFollows'
<1> DEFINE t == Dm!Target(d)
<1>1. t \in Mons /\ (~dmBeside => t = d)
  BY DmTargets DEF DmFollows
<1> HIDE DEF t
<1>2. dmPanel' = [dmPanel EXCEPT ![t] = p] /\ dmMeant' = [dmMeant EXCEPT ![t] = m]
  BY DEF t
<1>3. /\ dmPanel' \in [Mons -> DmPanels] /\ dmMeant' \in [Mons -> DmMeanings] /\ dmFile' \in DmFiles
  <2>1. dmPanel' \in [Mons -> DmPanels]
    BY <1>1, <1>2 DEF DmTyped
  <2>2. dmMeant' \in [Mons -> DmMeanings]
    BY <1>1, <1>2 DEF DmTyped
  <2>3. QED BY <2>1, <2>2 DEF DmTyped
<1>4. dmDev' = [dmDev EXCEPT ![d] = dmDev[d]] /\ dmDev[d] \in DmDevices /\ (~dmBeside => dmDev[d].bus \in {None, d})
  BY DEF DmTyped, DmFollows
<1>5. ~dmBeside => dmPanel'[d] = p /\ dmMeant'[d] = m
  BY <1>1, <1>2 DEF DmTyped
<1>6. \A e \in Mons : ~dmBeside /\ e # d => dmPanel'[e] = dmPanel[e] /\ dmMeant'[e] = dmMeant[e]
  BY <1>1, <1>2 DEF DmTyped
<1>7. ~dmBeside' => DmOk(o, dmPanel'[d], dmMeant'[d], dmDev[d], dmFile'[d], dmFile')
  BY <1>1, <1>5 DEF t
<1>8. QED BY <1>3, <1>4, <1>6, <1>7, DmGoes

LEMMA DmSetsSome ==
    ASSUME DmTyped, NEW d \in Mons, dmDev[d].bus # None
    PROVE  /\ Dm!Target(d) \in Mons /\ Dm!Reached(d) = dmPanel[Dm!Target(d)]
           /\ Dm!Reached(d) \in DmPanels /\ dmMeant[Dm!Target(d)] \in DmMeanings
           /\ dmPanel = [dmPanel EXCEPT ![Dm!Target(d)] = Dm!Reached(d)]
           /\ dmMeant = [dmMeant EXCEPT ![Dm!Target(d)] = dmMeant[Dm!Target(d)]]
           /\ DmFollows /\ ~dmBeside =>
                 /\ Dm!Target(d) = d /\ dmDev[d].bus = d
                 /\ DmOk(dmOp[d], Dm!Reached(d), dmMeant[d], dmDev[d], dmFile[d], dmFile)
<1> DEFINE t == Dm!Target(d)
<1>1. t \in Mons /\ Dm!Reached(d) = dmPanel[t] /\ (DmFollows /\ ~dmBeside => t = d)
  BY DmTargets DEF DmFollows, Dm!Reached
<1> HIDE DEF t
<1>2. dmPanel[t] \in DmPanels /\ dmMeant[t] \in DmMeanings
  BY <1>1 DEF DmTyped
<1>3. dmPanel = [dmPanel EXCEPT ![t] = dmPanel[t]] /\ dmMeant = [dmMeant EXCEPT ![t] = dmMeant[t]]
  BY <1>1 DEF DmTyped
<1>4. DmFollows /\ ~dmBeside => dmDev[d].bus = d /\ DmOk(dmOp[d], dmPanel[t], dmMeant[d], dmDev[d], dmFile[d], dmFile)
  BY <1>1 DEF DmFollows
<1>5. QED BY <1>1, <1>2, <1>3, <1>4 DEF t

\* A panel that takes a value, or does not, is read back.
LEMMA DmPutsLum ==
    ASSUME DmTyped, DmFollows, NEW d \in Mons, Dm!PutLum(d)
    PROVE  DmTyped' /\ DmFollows'
<1> DEFINE t == Dm!Target(d)  v == Dm!Settled(dmOp[d].to)  n == Dm!Reached(d)  k == dmMeant[t]
           p == [n EXCEPT !.lum = v]  m == [k EXCEPT !.lum = v]
<1>1. /\ dmOp[d].kind = "lum" /\ dmOp[d].step = "begin" /\ dmDev[d].bus # None
      /\ UNCHANGED <<dmFile, dmDev, dmBus, dmSeen>> /\ Dm!Step(d, [step |-> "readback"])
  BY DEF Dm!PutLum, Dm!At, Dm!Open, Dm!Keep
<1>2. n \in DmPanels /\ k \in DmMeanings /\ (~dmBeside => t = d /\ DmOk(dmOp[d], n, k, dmDev[d], dmFile[d], dmFile))
  BY <1>1, DmSetsSome
<1>3. PICK o \in DmWrites : dmOp' = [dmOp EXCEPT ![d] = o] /\ o = [dmOp[d] EXCEPT !.step = "readback"]
  BY <1>1, DmStepsOn DEF DmSteps
<1>4. o.kind = "lum" /\ o.step = "readback" /\ o.to = dmOp[d].to
  BY <1>1, <1>3 DEF DmTyped, DmWrites
<1>5. v \in Dm!Lums
  BY DEF Dm!Settled, Dm!Lums, DmTyped, DmWrites
<1>6. CASE /\ dmPanel' = [dmPanel EXCEPT ![t] = p] /\ dmMeant' = [dmMeant EXCEPT ![t] = m]
           /\ dmBeside' = dmBeside
  <2> HIDE DEF n, k
  <2>1. p \in DmPanels /\ m \in DmMeanings
    BY <1>2, <1>5 DEF DmPanels, DmMeanings
  <2>2. ~dmBeside => DmOk(o, p, m, dmDev[d], dmFile[d], dmFile)
    BY <1>1, <1>2, <1>4 DEF DmOk, DmPanels, DmMeanings
  <2>3. dmBeside' \in BOOLEAN
    BY <1>6 DEF DmTyped
  <2> HIDE DEF p, m
  <2>4. QED BY <1>1, <1>3, <1>4, <1>6, <2>1, <2>2, <2>3, DmSets
<1>7. CASE UNCHANGED <<dmPanel, dmMeant>> /\ dmBeside' = TRUE
  BY <1>1, <1>3, <1>7, DmOnlyRuns DEF DmStays
<1>8. QED
  BY <1>1, <1>6, <1>7 DEF Dm!PutLum, Dm!SetPanel, Dm!Meant, Dm!Calm, Dm!Stirs

\* What is read of the monitor goes to the rows, and the write is over.
LEMMA DmReads ==
    ASSUME DmTyped, DmFollows, NEW d \in Mons, dmDev[d].bus # None,
           NEW r \in DmDevices, r.bus = dmDev[d].bus, dmDev' = [dmDev EXCEPT ![d] = r],
           UNCHANGED <<dmPanel, dmMeant, dmFile, dmBus, dmSeen, dmBeside>>, Dm!Over(d),
           ~dmBeside => /\ r.range = dmDev[d].range /\ dmOp[d].step \notin {"restore", "save"}
                        /\ r.rows.lum = dmPanel[d].lum /\ r.rows.word = dmPanel[d].word
    PROVE  DmTyped' /\ DmFollows'
<1> DEFINE o == Dm!NoOp
<1>1. o \in DmWrites /\ o.kind = "none" /\ o.step = "off" /\ dmOp' = [dmOp EXCEPT ![d] = o]
  BY DmNoOpType DEF Dm!NoOp, Dm!Over
<1> HIDE DEF o
<1>2. ~dmBeside => r.bus \in {None, d} /\ DmOk(o, dmPanel[d], dmMeant[d], r, dmFile[d], dmFile)
  BY <1>1 DEF DmFollows, DmOk
<1>3. dmPanel' \in [Mons -> DmPanels] /\ dmMeant' \in [Mons -> DmMeanings] /\ dmFile' \in DmFiles /\ dmBeside' \in BOOLEAN
  BY DEF DmTyped
<1>4. QED BY <1>1, <1>2, <1>3, DmGoes

LEMMA DmRowsLike ==
    ASSUME DmTyped, NEW d \in Mons, NEW rows \in DmShown
    PROVE  LET r == [dmDev[d] EXCEPT !.rows = rows] IN
           r \in DmDevices /\ r.bus = dmDev[d].bus /\ r.range = dmDev[d].range /\ r.rows = rows
<1> DEFINE v == dmDev[d]
<1>1. v \in DmDevices
  BY DEF DmTyped
<1> HIDE DEF v
<1>2. LET r == [v EXCEPT !.rows = rows] IN r \in DmDevices /\ r.bus = v.bus /\ r.range = v.range /\ r.rows = rows
  BY <1>1 DEF DmDevices
<1>3. QED BY <1>2 DEF v

LEMMA DmRowsAre ==
    ASSUME DmTyped, NEW d \in Mons
    PROVE  dmDev[d].rows \in DmShown
BY DEF DmTyped, DmDevices

LEMMA DmReadsLum ==
    ASSUME DmTyped, DmFollows, NEW d \in Mons, Dm!ReadLum(d)
    PROVE  DmTyped' /\ DmFollows'
<1> DEFINE n == Dm!Reached(d)  t == Dm!Target(d)
           rows == [dmDev[d].rows EXCEPT !.lum = n.lum]  r == [dmDev[d] EXCEPT !.rows = rows]
<1>1. /\ dmOp[d].kind = "lum" /\ dmOp[d].step = "readback" /\ dmDev[d].bus # None /\ Dm!Over(d)
      /\ UNCHANGED <<dmPanel, dmMeant, dmFile, dmBus, dmSeen, dmBeside>>
      /\ dmDev' = IF Dm!Lands(d, n.lum) THEN [dmDev EXCEPT ![d] = r] ELSE dmDev
  BY DEF Dm!ReadLum, Dm!At, Dm!Open, Dm!Keep, Dm!Calm, Dm!Judged
<1>2. n \in DmPanels /\ (~dmBeside => t = d /\ n = dmPanel[d] /\ DmOk(dmOp[d], n, dmMeant[d], dmDev[d], dmFile[d], dmFile))
  BY <1>1, DmSetsSome
<1> HIDE DEF n, t
<1>3. rows \in DmShown /\ rows.lum = n.lum /\ rows.word = dmDev[d].rows.word
  BY <1>2, DmRowsAre DEF DmShown, DmPanels
<1> HIDE DEF rows
<1>4. r \in DmDevices /\ r.bus = dmDev[d].bus /\ r.range = dmDev[d].range /\ r.rows = rows
  BY <1>3, DmRowsLike
<1> HIDE DEF r
<1>5. CASE Dm!Lands(d, n.lum)
  <2>1. ~dmBeside => r.rows.lum = dmPanel[d].lum /\ r.rows.word = dmPanel[d].word
    BY <1>1, <1>2, <1>3, <1>4 DEF DmOk
  <2>2. QED BY <1>1, <1>4, <1>5, <2>1, DmReads
<1>6. CASE ~Dm!Lands(d, n.lum)
  <2>1. dmDev' = [dmDev EXCEPT ![d] = dmDev[d]] /\ dmDev[d] \in DmDevices
    BY <1>1, <1>6 DEF DmTyped
  <2>2. ~dmBeside => dmDev[d].rows.lum = dmPanel[d].lum /\ dmDev[d].rows.word = dmPanel[d].word
    BY <1>1, <1>2, <1>6 DEF DmOk, Dm!Lands, Dm!NoRange
  <2>3. QED BY <1>1, <2>1, <2>2, DmReads
<1>7. QED BY <1>5, <1>6

LEMMA DmReadsWord ==
    ASSUME DmTyped, DmFollows, NEW d \in Mons, Dm!ReadWord(d)
    PROVE  DmTyped' /\ DmFollows'
<1> DEFINE n == Dm!Reached(d)  f == [step |-> "put", word |-> n.word]  op == dmOp[d]  o == DmRun(op, f)
<1>1. /\ op.kind = "kvm" /\ op.step = "begin" /\ dmDev[d].bus # None /\ DmStays /\ dmBeside' = dmBeside
      /\ dmOp' = [dmOp EXCEPT ![d] = o]
  BY DmRuns DEF Dm!ReadWord, Dm!At, Dm!Open, Dm!Keep, Dm!Calm, DmStays
<1>2. n \in DmPanels /\ (~dmBeside => n = dmPanel[d] /\ DmOk(op, n, dmMeant[d], dmDev[d], dmFile[d], dmFile))
  BY <1>1, DmSetsSome
<1>3. op \in DmWrites
  BY DEF DmTyped
<1> HIDE DEF n, op
<1>4. o = [kind |-> op.kind, step |-> "put", at |-> op.at, to |-> op.to, was |-> op.was, word |-> n.word,
           file |-> op.file, tries |-> op.tries]
  BY DmRunIs
<1>5. o \in DmWrites /\ o.kind = "kvm" /\ o.step = "put" /\ o.word = n.word /\ o.to = op.to
  BY <1>1, <1>2, <1>3, <1>4 DEF DmWrites, DmSteps, DmPanels
<1> HIDE DEF o
<1>6. ~dmBeside => DmOk(o, n, dmMeant[d], dmDev[d], dmFile[d], dmFile)
  BY <1>1, <1>2, <1>5 DEF DmOk
<1>7. dmBeside' \in BOOLEAN
  BY <1>1 DEF DmTyped
<1>8. QED BY <1>1, <1>2, <1>5, <1>6, <1>7, DmOnlyRuns

LEMMA DmPutsWord ==
    ASSUME DmTyped, DmFollows, NEW d \in Mons, Dm!PutWord(d)
    PROVE  DmTyped' /\ DmFollows'
<1> DEFINE t == Dm!Target(d)  op == dmOp[d]  n == Dm!Reached(d)  k == dmMeant[t]
           v == [op.word EXCEPT ![op.at] = op.to]  u == [k.word EXCEPT ![op.at] = op.to]
           p == [n EXCEPT !.word = v]  m == [k EXCEPT !.word = u]
<1>1. /\ op.kind = "kvm" /\ op.step = "put" /\ dmDev[d].bus # None
      /\ UNCHANGED <<dmFile, dmDev, dmBus, dmSeen, dmBeside>> /\ Dm!Step(d, [step |-> "readback"])
      /\ dmPanel' = [dmPanel EXCEPT ![t] = p]
      /\ dmMeant' = [dmMeant EXCEPT ![t] = m]
  BY DEF Dm!PutWord, Dm!At, Dm!Open, Dm!Keep, Dm!Calm, Dm!SetPanel, Dm!Meant, Dm!WithField
<1>2. n \in DmPanels /\ k \in DmMeanings /\ (~dmBeside => t = d /\ DmOk(op, n, k, dmDev[d], dmFile[d], dmFile))
  BY <1>1, DmSetsSome
<1>3. PICK o \in DmWrites : dmOp' = [dmOp EXCEPT ![d] = o] /\ o = [op EXCEPT !.step = "readback"]
  BY <1>1, DmStepsOn DEF DmSteps
<1>4. op \in DmWrites
  BY DEF DmTyped
<1> HIDE DEF op, n, k
<1>5. o.kind = "kvm" /\ o.step = "readback" /\ o.to = op.to /\ o.at = op.at
  BY <1>1, <1>3, <1>4 DEF DmWrites
<1>6. v \in DmWords /\ u \in DmWords /\ v[op.at] = op.to
  BY <1>2, <1>4 DEF DmWrites, DmWords, DmMeanings
<1>7. p \in DmPanels /\ m \in DmMeanings /\ p.word = v /\ m.word = u /\ p.lum = n.lum /\ m.lum = k.lum
  <2> HIDE DEF v, u
  <2>1. QED BY <1>2, <1>6 DEF DmPanels, DmMeanings
<1>8. ~dmBeside => u = v
  BY <1>1, <1>2 DEF DmOk
<1> HIDE DEF v, u, p, m
<1>9. ~dmBeside => DmOk(o, p, m, dmDev[d], dmFile[d], dmFile)
  BY <1>1, <1>2, <1>5, <1>6, <1>7, <1>8 DEF DmOk
<1>10. dmBeside' \in BOOLEAN
  BY <1>1 DEF DmTyped
<1>11. QED BY <1>1, <1>3, <1>5, <1>7, <1>9, <1>10, DmSets

LEMMA DmReadsWordBack ==
    ASSUME DmTyped, DmFollows, NEW d \in Mons, Dm!ReadBackWord(d)
    PROVE  DmTyped' /\ DmFollows'
<1> DEFINE n == Dm!Reached(d)  t == Dm!Target(d)
           rows == [dmDev[d].rows EXCEPT !.word = n.word]  r == [dmDev[d] EXCEPT !.rows = rows]
<1>1. /\ dmOp[d].kind = "kvm" /\ dmOp[d].step = "readback" /\ dmDev[d].bus # None /\ Dm!Over(d)
      /\ UNCHANGED <<dmPanel, dmMeant, dmFile, dmBus, dmSeen, dmBeside>>
      /\ dmDev' = IF n.word[dmOp[d].at] = dmOp[d].to THEN [dmDev EXCEPT ![d] = r] ELSE dmDev
  BY DEF Dm!ReadBackWord, Dm!At, Dm!Open, Dm!Keep, Dm!Calm
<1>2. n \in DmPanels /\ (~dmBeside => t = d /\ n = dmPanel[d] /\ DmOk(dmOp[d], n, dmMeant[d], dmDev[d], dmFile[d], dmFile))
  BY <1>1, DmSetsSome
<1> HIDE DEF n, t
<1>3. rows \in DmShown /\ rows.word = n.word /\ rows.lum = dmDev[d].rows.lum
  BY <1>2, DmRowsAre DEF DmShown, DmPanels
<1> HIDE DEF rows
<1>4. r \in DmDevices /\ r.bus = dmDev[d].bus /\ r.range = dmDev[d].range /\ r.rows = rows
  BY <1>3, DmRowsLike
<1> HIDE DEF r
<1>5. CASE n.word[dmOp[d].at] = dmOp[d].to
  <2>1. ~dmBeside => r.rows.lum = dmPanel[d].lum /\ r.rows.word = dmPanel[d].word
    BY <1>1, <1>2, <1>3, <1>4 DEF DmOk
  <2>2. QED BY <1>1, <1>4, <1>5, <2>1, DmReads
<1>6. CASE n.word[dmOp[d].at] # dmOp[d].to
  <2>1. dmDev' = [dmDev EXCEPT ![d] = dmDev[d]] /\ dmDev[d] \in DmDevices
    BY <1>1, <1>6 DEF DmTyped
  <2>2. dmBeside
    BY <1>1, <1>2, <1>6 DEF DmOk
  <2>3. QED BY <1>1, <2>1, <2>2, DmReads
<1>7. QED BY <1>5, <1>6

LEMMA DmPutsPip ==
    ASSUME DmTyped, DmFollows, NEW d \in Mons, Dm!PutPip(d)
    PROVE  DmTyped' /\ DmFollows'
<1> DEFINE t == Dm!Target(d)  op == dmOp[d]  n == Dm!Reached(d)  k == dmMeant[t]
           p == [n EXCEPT !.pip = op.to, !.blank = TRUE]
<1>1. /\ op.kind = "pip" /\ op.step = "begin" /\ dmDev[d].bus # None
      /\ UNCHANGED <<dmFile, dmDev, dmBus, dmSeen, dmMeant>> /\ Dm!Step(d, [step |-> "readback"])
      /\ \/ dmPanel' = [dmPanel EXCEPT ![t] = p] /\ dmBeside' = dmBeside
         \/ dmPanel' = dmPanel /\ dmBeside' = TRUE
  BY DEF Dm!PutPip, Dm!At, Dm!Open, Dm!Keep, Dm!Calm, Dm!Stirs, Dm!SetPanel
<1>2. /\ n \in DmPanels /\ k \in DmMeanings /\ dmMeant' = [dmMeant EXCEPT ![t] = k]
      /\ dmPanel = [dmPanel EXCEPT ![t] = n]
      /\ (~dmBeside => t = d /\ DmOk(op, n, k, dmDev[d], dmFile[d], dmFile))
  BY <1>1, DmSetsSome
<1>3. PICK o \in DmWrites : dmOp' = [dmOp EXCEPT ![d] = o] /\ o = [op EXCEPT !.step = "readback"]
  BY <1>1, DmStepsOn DEF DmSteps
<1>4. op \in DmWrites
  BY DEF DmTyped
<1> HIDE DEF op, n, k
<1>5. o.kind = "pip" /\ o.step = "readback"
  BY <1>1, <1>3, <1>4 DEF DmWrites
<1>6. p \in DmPanels /\ p.lum = n.lum /\ p.word = n.word
  BY <1>2, <1>4 DEF DmPanels, DmWrites
<1> HIDE DEF p
<1>7. ~dmBeside => DmOk(o, p, k, dmDev[d], dmFile[d], dmFile)
  BY <1>1, <1>2, <1>5, <1>6 DEF DmOk
<1>8. dmBeside' \in BOOLEAN
  BY <1>1 DEF DmTyped
<1>9. CASE dmPanel' = [dmPanel EXCEPT ![t] = p] /\ dmBeside' = dmBeside
  BY <1>1, <1>2, <1>3, <1>5, <1>6, <1>7, <1>8, <1>9, DmSets
<1>10. CASE dmPanel' = dmPanel /\ dmBeside' = TRUE
  <2>1. dmPanel' = [dmPanel EXCEPT ![t] = n]
    BY <1>2, <1>10
  <2>2. QED BY <1>1, <1>2, <1>3, <1>8, <1>10, <2>1, DmSets
<1>11. QED BY <1>1, <1>9, <1>10

LEMMA DmAsksPip ==
    ASSUME DmTyped, DmFollows, NEW d \in Mons, Dm!AskPip(d)
    PROVE  DmTyped' /\ DmFollows'
<1> DEFINE op == dmOp[d]  n == Dm!Reached(d)  f == [tries |-> op.tries + 1]  o == DmRun(op, f)
           rows == [dmDev[d].rows EXCEPT !.pip = op.to]  r == [dmDev[d] EXCEPT !.rows = rows]
<1>1. /\ op.kind = "pip" /\ op.step = "readback" /\ dmDev[d].bus # None
      /\ UNCHANGED <<dmPanel, dmMeant, dmFile, dmBus, dmSeen, dmBeside>>
      /\ \/ dmDev' = dmDev /\ dmOp' = [dmOp EXCEPT ![d] = o]
         \/ dmDev' = [dmDev EXCEPT ![d] = r] /\ Dm!Over(d)
         \/ dmDev' = dmDev /\ Dm!Over(d)
  BY DmRuns DEF Dm!AskPip, Dm!At, Dm!Open, Dm!Keep, Dm!Calm
<1>2. ~dmBeside => n = dmPanel[d] /\ DmOk(op, n, dmMeant[d], dmDev[d], dmFile[d], dmFile)
  BY <1>1, DmSetsSome
<1>3. op \in DmWrites
  BY DEF DmTyped
<1> HIDE DEF op, n
<1>4. CASE dmDev' = dmDev /\ dmOp' = [dmOp EXCEPT ![d] = o]
  <2>1. o = [kind |-> op.kind, step |-> op.step, at |-> op.at, to |-> op.to, was |-> op.was, word |-> op.word,
             file |-> op.file, tries |-> op.tries + 1]
    BY DmRunIs
  <2>2. o \in DmWrites /\ o.kind = "pip" /\ o.step = "readback"
    BY <1>1, <1>3, <2>1 DEF DmWrites
  <2> HIDE DEF o
  <2>3. ~dmBeside => DmOk(o, dmPanel[d], dmMeant[d], dmDev[d], dmFile[d], dmFile)
    BY <1>1, <1>2, <2>2 DEF DmOk
  <2>4. DmStays /\ dmBeside' = dmBeside /\ dmBeside' \in BOOLEAN
    BY <1>1, <1>4 DEF DmStays, DmTyped
  <2>5. QED BY <1>4, <2>2, <2>3, <2>4, DmOnlyRuns
<1>5. rows \in DmShown /\ rows.word = dmDev[d].rows.word /\ rows.lum = dmDev[d].rows.lum
  BY <1>3, DmRowsAre DEF DmShown, DmWrites
<1> HIDE DEF rows
<1>6. r \in DmDevices /\ r.bus = dmDev[d].bus /\ r.range = dmDev[d].range /\ r.rows = rows
  BY <1>5, DmRowsLike
<1>7. ~dmBeside => dmDev[d].rows.lum = dmPanel[d].lum /\ dmDev[d].rows.word = dmPanel[d].word
  BY <1>1, <1>2 DEF DmOk
<1> HIDE DEF r
<1>8. CASE dmDev' = [dmDev EXCEPT ![d] = r] /\ Dm!Over(d)
  BY <1>1, <1>5, <1>6, <1>7, <1>8, DmReads DEF op
<1>9. CASE dmDev' = dmDev /\ Dm!Over(d)
  <2>1. dmDev' = [dmDev EXCEPT ![d] = dmDev[d]] /\ dmDev[d] \in DmDevices
    BY <1>9 DEF DmTyped
  <2>2. QED BY <1>1, <1>7, <1>9, <2>1, DmReads DEF op
<1>10. QED BY <1>1, <1>4, <1>8, <1>9

LEMMA DmResets ==
    ASSUME DmTyped, DmFollows, NEW d \in Mons, Dm!FactoryReset(d)
    PROVE  DmTyped' /\ DmFollows'
<1> DEFINE t == Dm!Target(d)  op == dmOp[d]  w == <<0, 0>>
           p == [lum |-> 2, word |-> w, pip |-> 0, blank |-> FALSE]  m == [lum |-> 2, word |-> w]
<1>1. /\ op.kind = "reset" /\ op.step = "begin" /\ dmDev[d].bus # None
      /\ UNCHANGED <<dmFile, dmDev, dmBus, dmSeen, dmBeside>> /\ Dm!Step(d, [step |-> "snapshot"])
      /\ dmPanel' = [dmPanel EXCEPT ![t] = p] /\ dmMeant' = [dmMeant EXCEPT ![t] = m]
  BY DEF Dm!FactoryReset, Dm!At, Dm!Open, Dm!Keep, Dm!Calm, Dm!SetPanel
<1>2. ~dmBeside => DmOk(op, dmPanel[d], dmMeant[d], dmDev[d], dmFile[d], dmFile)
  BY DEF DmFollows
<1>3. PICK o \in DmWrites : dmOp' = [dmOp EXCEPT ![d] = o] /\ o = [op EXCEPT !.step = "snapshot"]
  BY <1>1, DmStepsOn DEF DmSteps
<1>4. op \in DmWrites /\ dmBeside' \in BOOLEAN
  BY <1>1 DEF DmTyped
<1>5. w \in DmWords
  BY DmNoWord
<1> HIDE DEF op, w
<1>6. o.kind = "reset" /\ o.step = "snapshot"
  BY <1>1, <1>3, <1>4 DEF DmWrites
<1>7. p \in DmPanels /\ m \in DmMeanings
  BY <1>5 DEF DmPanels, DmMeanings, Dm!Lums
<1>8. ~dmBeside => DmOk(o, p, m, dmDev[d], dmFile[d], dmFile)
  BY <1>1, <1>2, <1>6 DEF DmOk
<1> HIDE DEF p, m
<1>9. QED BY <1>1, <1>3, <1>4, <1>6, <1>7, <1>8, DmSets

LEMMA DmRereads ==
    ASSUME DmTyped, DmFollows, NEW d \in Mons, Dm!Reread(d)
    PROVE  DmTyped' /\ DmFollows'
<1> DEFINE op == dmOp[d]
<1>1. /\ op.kind = "reread" /\ op.step = "begin" /\ dmDev[d].bus # None /\ DmStays /\ dmBeside' = dmBeside
      /\ Dm!Step(d, [step |-> "snapshot"])
  BY DEF Dm!Reread, Dm!At, Dm!Open, Dm!Keep, Dm!Calm, DmStays
<1>2. ~dmBeside => DmOk(op, dmPanel[d], dmMeant[d], dmDev[d], dmFile[d], dmFile)
  BY DEF DmFollows
<1>3. PICK o \in DmWrites : dmOp' = [dmOp EXCEPT ![d] = o] /\ o = [op EXCEPT !.step = "snapshot"]
  BY <1>1, DmStepsOn DEF DmSteps
<1>4. op \in DmWrites /\ dmBeside' \in BOOLEAN
  BY <1>1 DEF DmTyped
<1> HIDE DEF op
<1>5. o.kind = "reread" /\ o.step = "snapshot"
  BY <1>1, <1>3, <1>4 DEF DmWrites
<1>6. ~dmBeside => DmOk(o, dmPanel[d], dmMeant[d], dmDev[d], dmFile[d], dmFile)
  BY <1>1, <1>2, <1>5 DEF DmOk
<1>7. QED BY <1>1, <1>3, <1>4, <1>5, <1>6, DmOnlyRuns

LEMMA DmSnapshots ==
    ASSUME DmTyped, DmFollows, NEW d \in Mons, Dm!TakeSnapshot(d)
    PROVE  DmTyped' /\ DmFollows'
<1> DEFINE op == dmOp[d]  n == Dm!Reached(d)  rows == Dm!Snapshot(d, dmDev[d].rows)  r == [dmDev[d] EXCEPT !.rows = rows]
<1>1. /\ op.step = "snapshot" /\ dmDev[d].bus # None /\ Dm!Over(d)
      /\ UNCHANGED <<dmPanel, dmMeant, dmFile, dmBus, dmSeen, dmBeside>>
      /\ dmDev' = [dmDev EXCEPT ![d] = r]
  BY DEF Dm!TakeSnapshot, Dm!Open, Dm!Keep, Dm!Calm
<1>2. n \in DmPanels /\ (~dmBeside => n = dmPanel[d])
  BY <1>1, DmSetsSome
<1>3. rows = [lum |-> n.lum, word |-> n.word, pip |-> IF n.blank THEN dmDev[d].rows.pip ELSE n.pip]
  BY DEF Dm!Snapshot
<1> HIDE DEF op, n, rows
<1>4. rows \in DmShown /\ rows.word = n.word /\ rows.lum = n.lum
  BY <1>2, <1>3, DmRowsAre DEF DmShown, DmPanels
<1>5. r \in DmDevices /\ r.bus = dmDev[d].bus /\ r.range = dmDev[d].range /\ r.rows = rows
  BY <1>4, DmRowsLike
<1> HIDE DEF r
<1>6. QED BY <1>1, <1>2, <1>4, <1>5, DmReads DEF op

LEMMA DmProbesBegin ==
    ASSUME DmTyped, DmFollows, NEW d \in Mons, Dm!BeginProbe(d)
    PROVE  DmTyped' /\ DmFollows'
<1> DEFINE n == Dm!Reached(d)  f == [step |-> "probe", was |-> n.lum]  op == dmOp[d]  o == DmRun(op, f)
<1>1. /\ op.kind = "calibrate" /\ op.step = "begin" /\ dmDev[d].bus # None /\ DmStays /\ dmBeside' = dmBeside
      /\ dmOp' = [dmOp EXCEPT ![d] = o]
  BY DmRuns DEF Dm!BeginProbe, Dm!At, Dm!Open, Dm!Keep, Dm!Calm, DmStays
<1>2. n \in DmPanels /\ (~dmBeside => n = dmPanel[d] /\ DmOk(op, n, dmMeant[d], dmDev[d], dmFile[d], dmFile))
  BY <1>1, DmSetsSome
<1>3. op \in DmWrites /\ dmBeside' \in BOOLEAN
  BY <1>1 DEF DmTyped
<1> HIDE DEF n, op
<1>4. o = [kind |-> op.kind, step |-> "probe", at |-> op.at, to |-> op.to, was |-> n.lum, word |-> op.word,
           file |-> op.file, tries |-> op.tries]
  BY DmRunIs
<1>5. o \in DmWrites /\ o.kind = "calibrate" /\ o.step = "probe" /\ o.was = n.lum
  BY <1>1, <1>2, <1>3, <1>4 DEF DmWrites, DmSteps, DmPanels
<1> HIDE DEF o
<1>6. ~dmBeside => DmOk(o, n, dmMeant[d], dmDev[d], dmFile[d], dmFile)
  BY <1>1, <1>2, <1>5 DEF DmOk
<1>7. QED BY <1>1, <1>2, <1>3, <1>5, <1>6, DmOnlyRuns

LEMMA DmProbes ==
    ASSUME DmTyped, DmFollows, NEW d \in Mons, Dm!Probe(d)
    PROVE  DmTyped' /\ DmFollows'
<1> DEFINE t == Dm!Target(d)  op == dmOp[d]  n == Dm!Reached(d)  k == dmMeant[t]
           p == [n EXCEPT !.lum = 0]
           Went(to) == DmRun(op, [step |-> "restore", to |-> to])
<1>1. /\ op.kind = "calibrate" /\ op.step = "probe" /\ dmDev[d].bus # None
      /\ UNCHANGED <<dmFile, dmDev, dmBus, dmSeen, dmMeant>>
      /\ \/ dmPanel' = [dmPanel EXCEPT ![t] = p] /\ dmBeside' = dmBeside /\ dmOp' = [dmOp EXCEPT ![d] = Went(1)]
         \/ dmPanel' = dmPanel /\ dmBeside' = TRUE /\ dmOp' = [dmOp EXCEPT ![d] = Went(0)]
  BY DmRuns DEF Dm!Probe, Dm!At, Dm!Open, Dm!Keep, Dm!Calm, Dm!Stirs, Dm!SetPanel
<1>2. /\ n \in DmPanels /\ k \in DmMeanings /\ dmMeant' = [dmMeant EXCEPT ![t] = k]
      /\ dmPanel = [dmPanel EXCEPT ![t] = n]
      /\ (~dmBeside => t = d /\ DmOk(op, n, k, dmDev[d], dmFile[d], dmFile))
  BY <1>1, DmSetsSome
<1>3. op \in DmWrites /\ dmBeside' \in BOOLEAN
  BY <1>1 DEF DmTyped
<1> HIDE DEF op, n, k
<1>4. ASSUME NEW to \in {0, 1}
      PROVE  Went(to) \in DmWrites /\ Went(to).kind = op.kind /\ Went(to).step = "restore" /\ Went(to).was = op.was
  <2> DEFINE o == Went(to)
  <2>1. o = [kind |-> op.kind, step |-> "restore", at |-> op.at, to |-> to, was |-> op.was, word |-> op.word,
             file |-> op.file, tries |-> op.tries]
    BY DmRunIs
  <2>2. QED BY <1>3, <2>1 DEF DmWrites, DmSteps, Dm!Lums
<1>5. p \in DmPanels /\ p.word = n.word
  BY <1>2 DEF DmPanels, Dm!Lums
<1> HIDE DEF p, Went
<1>6. ~dmBeside => DmOk(Went(1), p, k, dmDev[d], dmFile[d], dmFile)
  BY <1>1, <1>2, <1>4, <1>5 DEF DmOk
<1>7. CASE dmPanel' = [dmPanel EXCEPT ![t] = p] /\ dmBeside' = dmBeside /\ dmOp' = [dmOp EXCEPT ![d] = Went(1)]
  BY <1>1, <1>2, <1>3, <1>4, <1>5, <1>6, <1>7, DmSets
<1>8. CASE dmPanel' = dmPanel /\ dmBeside' = TRUE /\ dmOp' = [dmOp EXCEPT ![d] = Went(0)]
  <2>1. dmPanel' = [dmPanel EXCEPT ![t] = n]
    BY <1>2, <1>8
  <2>2. QED BY <1>1, <1>2, <1>3, <1>4, <1>8, <2>1, DmSets
<1>9. QED BY <1>1, <1>7, <1>8

LEMMA DmRestores ==
    ASSUME DmTyped, DmFollows, NEW d \in Mons, Dm!Restore(d)
    PROVE  DmTyped' /\ DmFollows'
<1> DEFINE t == Dm!Target(d)  op == dmOp[d]  n == Dm!Reached(d)  k == dmMeant[t]
           p == [n EXCEPT !.lum = op.was]
           o == IF op.to = 1 THEN [op EXCEPT !.step = "load"] ELSE Dm!NoOp
<1>1. /\ op.kind = "calibrate" /\ op.step = "restore" /\ dmDev[d].bus # None
      /\ UNCHANGED <<dmFile, dmDev, dmBus, dmSeen, dmMeant>>
      /\ \/ dmPanel' = [dmPanel EXCEPT ![t] = p] /\ dmBeside' = dmBeside
         \/ dmPanel' = dmPanel /\ dmBeside' = TRUE
      /\ IF op.to = 1 THEN Dm!Step(d, [step |-> "load"]) ELSE Dm!Over(d)
  BY DEF Dm!Restore, Dm!Restored, Dm!At, Dm!Open, Dm!Keep, Dm!Calm, Dm!Stirs, Dm!SetPanel
<1>2. /\ n \in DmPanels /\ k \in DmMeanings /\ dmMeant' = [dmMeant EXCEPT ![t] = k]
      /\ dmPanel = [dmPanel EXCEPT ![t] = n]
      /\ (~dmBeside => t = d /\ DmOk(op, n, k, dmDev[d], dmFile[d], dmFile))
  BY <1>1, DmSetsSome
<1>3. op \in DmWrites /\ dmBeside' \in BOOLEAN
  BY <1>1 DEF DmTyped
<1>4. dmOp' = [dmOp EXCEPT ![d] = o] /\ o \in DmWrites
  BY <1>1, DmStepsOn, DmNoOpType DEF Dm!Over, DmSteps
<1> HIDE DEF op, n, k
<1>5. o.kind \in {"calibrate", "none"} /\ o.step = IF o.kind = "none" THEN "off" ELSE "load"
  BY <1>1, <1>3 DEF DmWrites, Dm!NoOp
<1>6. p \in DmPanels /\ p.word = n.word /\ p.lum = op.was
  BY <1>2, <1>3 DEF DmPanels, DmWrites
<1> HIDE DEF p, o
<1>7. ~dmBeside => DmOk(o, p, k, dmDev[d], dmFile[d], dmFile)
  BY <1>1, <1>2, <1>5, <1>6 DEF DmOk
<1>8. CASE dmPanel' = [dmPanel EXCEPT ![t] = p] /\ dmBeside' = dmBeside
  BY <1>1, <1>2, <1>3, <1>4, <1>5, <1>6, <1>7, <1>8, DmSets
<1>9. CASE dmPanel' = dmPanel /\ dmBeside' = TRUE
  <2>1. dmPanel' = [dmPanel EXCEPT ![t] = n]
    BY <1>2, <1>9
  <2>2. QED BY <1>1, <1>2, <1>3, <1>4, <1>9, <2>1, DmSets
<1>10. QED BY <1>1, <1>8, <1>9

LEMMA DmLoads ==
    ASSUME DmTyped, DmFollows, NEW d \in Mons, Dm!LoadFile(d)
    PROVE  DmTyped' /\ DmFollows'
<1> DEFINE f == [step |-> "save", file |-> dmFile]  op == dmOp[d]  o == DmRun(op, f)
           r == [dmDev[d] EXCEPT !.range = "even"]
<1>1. /\ op.kind = "calibrate" /\ op.step = "load" /\ dmDev[d].bus # None
      /\ UNCHANGED <<dmPanel, dmFile, dmMeant, dmBus, dmSeen>>
      /\ dmBeside' = (dmBeside \/ \E e \in Mons : dmOp[e].kind = "calibrate" /\ dmOp[e].step = "save")
      /\ dmOp' = [dmOp EXCEPT ![d] = o] /\ dmDev' = [dmDev EXCEPT ![d] = r]
  BY DmRuns DEF Dm!LoadFile, Dm!At, Dm!Open, Dm!Keep
<1>2. ~dmBeside => dmDev[d].bus \in {None, d} /\ DmOk(op, dmPanel[d], dmMeant[d], dmDev[d], dmFile[d], dmFile)
  BY DEF DmFollows
<1>3. op \in DmWrites /\ dmBeside' \in BOOLEAN /\ dmDev[d] \in DmDevices /\ dmFile \in DmFiles
  BY <1>1 DEF DmTyped
<1>4. ~dmBeside' => \A e \in Mons : dmOp[e].step # "save"
  BY <1>1 DEF DmFollows, DmOk
<1> HIDE DEF op
<1>5. o = [kind |-> op.kind, step |-> "save", at |-> op.at, to |-> op.to, was |-> op.was, word |-> op.word,
           file |-> dmFile, tries |-> op.tries]
  BY DmRunIs
<1>6. o \in DmWrites /\ o.kind = "calibrate" /\ o.step = "save" /\ o.file = dmFile
  BY <1>1, <1>3, <1>5 DEF DmWrites, DmSteps
<1>7. r \in DmDevices /\ r.bus = dmDev[d].bus /\ r.rows = dmDev[d].rows /\ r.range = "even"
  BY <1>3 DEF DmDevices
<1> HIDE DEF o, r
<1>8. ~dmBeside => DmOk(o, dmPanel[d], dmMeant[d], r, dmFile[d], dmFile)
  BY <1>1, <1>2, <1>6, <1>7 DEF DmOk
<1>9. dmPanel' \in [Mons -> DmPanels] /\ dmMeant' \in [Mons -> DmMeanings] /\ dmFile' \in DmFiles
  BY <1>1 DEF DmTyped
<1>10. QED BY <1>1, <1>2, <1>3, <1>4, <1>6, <1>7, <1>8, <1>9, DmGoes

LEMMA DmSaves ==
    ASSUME DmTyped, DmFollows, NEW d \in Mons, Dm!SaveFile(d)
    PROVE  DmTyped' /\ DmFollows'
<1> DEFINE op == dmOp[d]
<1>1. /\ op.kind = "calibrate" /\ op.step = "save" /\ dmDev[d].bus # None
      /\ UNCHANGED <<dmPanel, dmDev, dmMeant, dmBus, dmSeen, dmBeside>>
      /\ dmFile' = [op.file EXCEPT ![d] = "even"] /\ Dm!Step(d, [step |-> "snapshot"])
  BY DEF Dm!SaveFile, Dm!WithEntry, Dm!At, Dm!Open, Dm!Keep, Dm!Calm
<1>2. ~dmBeside => dmDev[d].bus \in {None, d} /\ DmOk(op, dmPanel[d], dmMeant[d], dmDev[d], dmFile[d], dmFile)
  BY DEF DmFollows
<1>3. op \in DmWrites /\ dmBeside' \in BOOLEAN /\ dmDev[d] \in DmDevices /\ dmDev' = [dmDev EXCEPT ![d] = dmDev[d]]
  BY <1>1 DEF DmTyped
<1>4. PICK o \in DmWrites : dmOp' = [dmOp EXCEPT ![d] = o] /\ o = [op EXCEPT !.step = "snapshot"]
  BY <1>1, DmStepsOn DEF DmSteps
<1> HIDE DEF op
<1>5. o.kind = "calibrate" /\ o.step = "snapshot"
  BY <1>1, <1>3, <1>4 DEF DmWrites
<1>6. dmFile' \in DmFiles /\ dmFile'[d] = "even"
  BY <1>1, <1>3 DEF DmWrites, DmFiles
<1>7. ~dmBeside => dmFile' = [dmFile EXCEPT ![d] = "even"]
  BY <1>1, <1>2 DEF DmOk
<1>8. ~dmBeside => DmOk(o, dmPanel[d], dmMeant[d], dmDev[d], dmFile'[d], dmFile')
  BY <1>1, <1>2, <1>5, <1>6 DEF DmOk
<1>9. dmPanel' \in [Mons -> DmPanels] /\ dmMeant' \in [Mons -> DmMeanings]
  BY <1>1 DEF DmTyped
<1>10. QED BY <1>1, <1>2, <1>3, <1>4, <1>5, <1>6, <1>7, <1>8, <1>9, DmGoes DEF op

\* What is not ours: the panel is back on screen, the menu, the list expires, the cables.
LEMMA DmOutside ==
    ASSUME DmTyped, DmFollows,
           \/ \E m \in Mons : Dm!BackOnScreen(m) \/ Dm!Menu(m)
           \/ Dm!Expire \/ Dm!SwapCables
    PROVE  DmTyped' /\ DmFollows'
<1>1. ASSUME NEW m \in Mons, Dm!BackOnScreen(m)
      PROVE  DmTyped' /\ DmFollows'
  <2> DEFINE p == [dmPanel[m] EXCEPT !.blank = FALSE]
  <2>1. dmPanel' = [dmPanel EXCEPT ![m] = p] /\ UNCHANGED <<dmFile, dmDev, dmOp, dmMeant, dmBus, dmSeen, dmBeside>>
    BY <1>1 DEF Dm!BackOnScreen, Dm!Keep, Dm!Calm
  <2>2. p \in DmPanels /\ p.lum = dmPanel[m].lum /\ p.word = dmPanel[m].word
    <3>1. dmPanel[m] \in DmPanels
      BY DEF DmTyped
    <3>2. QED BY <3>1 DEF DmPanels
  <2> HIDE DEF p
  <2>3. DmTyped'
    BY <2>1, <2>2 DEF DmTyped
  <2>4. \A e \in Mons : dmPanel'[e].lum = dmPanel[e].lum /\ dmPanel'[e].word = dmPanel[e].word
    BY <2>1, <2>2 DEF DmTyped
  <2>5. DmFollows'
    BY <2>1, <2>4 DEF DmFollows, DmOk
  <2>6. QED BY <2>3, <2>5
<1>2. ASSUME NEW m \in Mons, Dm!Menu(m)
      PROVE  DmTyped' /\ DmFollows'
  <2> DEFINE p == [dmPanel[m] EXCEPT !.lum = 4]  k == [dmMeant[m] EXCEPT !.lum = 4]
  <2>1. /\ dmPanel' = [dmPanel EXCEPT ![m] = p] /\ dmMeant' = [dmMeant EXCEPT ![m] = k]
        /\ UNCHANGED <<dmFile, dmDev, dmOp, dmBus, dmSeen>> /\ dmBeside' = TRUE
    BY <1>2 DEF Dm!Menu, Dm!Keep, Dm!Stirs
  <2>2. p \in DmPanels /\ k \in DmMeanings
    <3>1. dmPanel[m] \in DmPanels /\ dmMeant[m] \in DmMeanings
      BY DEF DmTyped
    <3>2. 4 \in Dm!Lums
      BY DEF Dm!Lums
    <3>3. p \in DmPanels
      BY <3>1, <3>2 DEF DmPanels
    <3>4. k \in DmMeanings
      BY <3>1, <3>2 DEF DmMeanings
    <3>5. QED BY <3>3, <3>4
  <2> HIDE DEF p, k
  <2>3. dmPanel' \in [Mons -> DmPanels] /\ dmMeant' \in [Mons -> DmMeanings]
    BY <2>1, <2>2 DEF DmTyped
  <2>4. QED BY <2>1, <2>3 DEF DmTyped, DmFollows
<1>3. CASE Dm!Expire
  BY <1>3 DEF Dm!Expire, Dm!Calm, DmTyped, DmFollows
<1>4. CASE Dm!SwapCables
  <2> DEFINE next(m) == CHOOSE n \in Mons : n # m
  <2>1. /\ dmBus' = [m \in Mons |-> dmBus[next(m)]] /\ dmBeside' = TRUE
        /\ UNCHANGED <<dmPanel, dmSeen, dmFile, dmDev, dmOp, dmMeant>>
    BY <1>4 DEF Dm!SwapCables, Dm!Stirs
  <2>2. \A m \in Mons : next(m) \in Mons /\ next(m) # m
    BY MonitorsAssumption
  <2>3. \A m \in Mons : next(next(m)) = m
    BY <2>2, MonitorsAssumption
  <2> HIDE DEF next
  <2>4. dmBus' \in [Mons -> Mons] /\ \A b \in Mons : \E m \in Mons : dmBus'[m] = b
    BY <2>1, <2>2, <2>3 DEF DmTyped
  <2>5. QED BY <2>1, <2>4 DEF DmTyped, DmFollows
<1>5. QED BY <1>1, <1>2, <1>3, <1>4

DmNext == Dm!Next \/ UNCHANGED dmVars

LEMMA DmKept ==
    ASSUME DmTyped, DmFollows, DmNext
    PROVE  DmTyped' /\ DmFollows'
<1>1. CASE UNCHANGED dmVars
  BY <1>1 DEF dmVars, DmTyped, DmFollows
<1>2. CASE Dm!Next
  <2>1. CASE Dm!Expire \/ Dm!SwapCables
    BY <2>1, DmOutside
  <2>2. ASSUME NEW d \in Mons, Dm!Connect(d) \/ Dm!Disconnect(d) \/ Dm!GoneMidway(d) \/ \E job \in Dm!Kinds : Dm!StartSet(d, job)
        PROVE  DmTyped' /\ DmFollows'
    BY <2>2, DmConnects, DmDisconnects, DmRefusals, DmStarts
  <2>3. ASSUME NEW d \in Mons, \/ Dm!Refused(d) \/ Dm!PutLum(d) \/ Dm!ReadLum(d) \/ Dm!ReadWord(d) \/ Dm!PutWord(d)
                               \/ Dm!ReadBackWord(d) \/ Dm!PutPip(d) \/ Dm!AskPip(d)
        PROVE  DmTyped' /\ DmFollows'
    BY <2>3, DmRefusals, DmPutsLum, DmReadsLum, DmReadsWord, DmPutsWord, DmReadsWordBack, DmPutsPip, DmAsksPip
  <2>4. ASSUME NEW d \in Mons, \/ Dm!FactoryReset(d) \/ Dm!Reread(d) \/ Dm!TakeSnapshot(d) \/ Dm!BeginProbe(d)
                               \/ Dm!Probe(d) \/ Dm!Restore(d) \/ Dm!LoadFile(d) \/ Dm!SaveFile(d)
        PROVE  DmTyped' /\ DmFollows'
    BY <2>4, DmResets, DmRereads, DmSnapshots, DmProbesBegin, DmProbes, DmRestores, DmLoads, DmSaves
  <2>5. ASSUME NEW d \in Mons, Dm!BackOnScreen(d) \/ Dm!Menu(d)
        PROVE  DmTyped' /\ DmFollows'
    BY <2>5, DmOutside
  <2>6. QED BY <1>2, <2>1, <2>2, <2>3, <2>4, <2>5 DEF Dm!Next
<1>3. QED BY <1>1, <1>2 DEF DmNext

-----------------------------------------------------------------------------
(* UvcCamera. *)

UvBytes == [{1, 2} -> {"on", "off"}]
UvFormats == {f \in [pix : Uv!Formats, size : {"small", "large"}] : f.size \in Uv!Sizes(f.pix)}
UvCams == [auto : BOOLEAN, bytes : UvBytes, fov : {"wide", "narrow"}, armed : BOOLEAN, fmt : UvFormats, busy : BOOLEAN]
UvHelds == [keys : SUBSET Uv!Controls, inactive : BOOLEAN, mode : UvFormats]
UvPages == [keys : SUBSET Uv!Controls, locked : BOOLEAN, mode : UvFormats]
UvSteps == {"off", "write", "put", "verify", "payload", "apply", "close", "open", "reload", "flags", "list", "modes", "describe"}
UvRuns == [step : UvSteps, job : Uv!Jobs \cup {Uv!NoJob}, bytes : UvBytes, fmt : UvFormats, todo : SUBSET Uv!Controls, ok : BOOLEAN]

\* What a thread is at is what its write is about.
UvFits(th) ==
    /\ th.step \in {"put", "verify"} => th.job.kind = "byte"
    /\ th.step = "payload" => th.job.kind = "blob"
    /\ th.step = "apply" => th.job.kind \in {"pix", "size"}

UvTyped ==
    /\ uvCam \in UvCams /\ uvFd \in BOOLEAN /\ uvHeld \in UvHelds /\ uvPage \in UvPages
    /\ uvThread \in [Uv!Threads -> UvRuns] /\ \A t \in Uv!Threads : UvFits(uvThread[t])
    /\ uvWrote \in UvBytes /\ uvBeside \in BOOLEAN

\* The only thread at work, th: between its first request and its last the page and the camera part
\* in what th is about to read again, and in nothing else.
UvOk(th, cam, wrote, held, page, fd) ==
    /\ cam.bytes = wrote
    /\ th.step = "put" => th.bytes = cam.bytes
    /\ held.keys = Uv!Controls /\ page.keys = Uv!Controls
    /\ fd \/ th.step = "open"
    /\ th.step = "flags" \/ (held.inactive = cam.auto /\ page.locked = cam.auto)
    /\ th.step \in {"close", "open", "reload"} \/ (held.mode = cam.fmt /\ page.mode = cam.fmt)

UvAlone(t) == \A u \in Uv!Threads : u # t => uvThread[u].step = "off"

UvFollows ==
    ~uvBeside => \E t \in Uv!Threads : UvAlone(t) /\ UvOk(uvThread[t], uvCam, uvWrote, uvHeld, uvPage, uvFd)

LEMMA UvBlank == <<"off", "off">> \in UvBytes
<1> DEFINE w == <<"off", "off">>
<1>1. DOMAIN w = 1..2 /\ w[1] = "off" /\ w[2] = "off"
  OBVIOUS
<1>2. 1..2 = {1, 2}
  OBVIOUS
<1>3. w = [i \in DOMAIN w |-> w[i]]
  OBVIOUS
<1>4. QED BY <1>1, <1>2, <1>3 DEF UvBytes

\* What a thread is to do, with some fields of it changed.
UvRun(th, fields) == [x \in DOMAIN Uv!Idle |-> IF x \in DOMAIN fields THEN fields[x] ELSE th[x]]

LEMMA UvRunIs ==
    ASSUME NEW th, NEW fields
    PROVE  LET g(x) == IF x \in DOMAIN fields THEN fields[x] ELSE th[x] IN
           UvRun(th, fields) = [step |-> g("step"), job |-> g("job"), bytes |-> g("bytes"), fmt |-> g("fmt"),
                                todo |-> g("todo"), ok |-> g("ok")]
BY DEF UvRun, Uv!Idle

LEMMA UvSteps1 ==
    ASSUME NEW t, NEW fields, Uv!Step(t, fields)
    PROVE  uvThread' = [uvThread EXCEPT ![t] = UvRun(uvThread[t], fields)]
BY DEF Uv!Step, UvRun

LEMMA UvIdleType == Uv!Idle \in UvRuns /\ Uv!Idle.step = "off"
<1> DEFINE w == <<"off", "off">>
<1>1. w \in UvBytes
  BY UvBlank
<1> HIDE DEF w
<1>2. Uv!Idle = [step |-> "off", job |-> Uv!NoJob, bytes |-> w, fmt |-> [pix |-> "yuyv", size |-> "small"], todo |-> {}, ok |-> TRUE]
  BY DEF w, Uv!Idle
<1>3. [pix |-> "yuyv", size |-> "small"] \in UvFormats
  BY DEF UvFormats, Uv!Formats, Uv!Sizes
<1>4. Uv!NoJob \in Uv!Jobs \cup {Uv!NoJob}
  OBVIOUS
<1>5. QED BY <1>1, <1>2, <1>3, <1>4 DEF UvRuns, UvSteps

LEMMA UvTypedSuffices == UvTyped => Uv!TypeOK
BY DEF UvTyped, Uv!TypeOK, UvCams, UvHelds, UvPages, UvRuns, UvSteps, UvFormats

LEMMA UvInit == Uv!Init => UvTyped /\ UvFollows
<1> SUFFICES ASSUME Uv!Init PROVE UvTyped /\ UvFollows
  OBVIOUS
<1> DEFINE w == <<"off", "off">>  f == [pix |-> "yuyv", size |-> "small"]
<1>1. w \in UvBytes /\ f \in UvFormats
  BY UvBlank DEF UvFormats, Uv!Formats, Uv!Sizes
<1>2. PICK auto \in BOOLEAN :
        uvCam = [auto |-> auto, bytes |-> w, fov |-> "wide", armed |-> FALSE, fmt |-> f, busy |-> FALSE]
  BY DEF Uv!Init
<1>3. /\ uvFd = TRUE /\ uvThread = [t \in Uv!Threads |-> Uv!Idle] /\ uvBeside = FALSE
      /\ uvWrote = uvCam.bytes
      /\ uvHeld = [keys |-> Uv!Controls, inactive |-> uvCam.auto, mode |-> uvCam.fmt]
      /\ uvPage = [keys |-> uvHeld.keys, locked |-> uvHeld.inactive, mode |-> uvHeld.mode]
  BY DEF Uv!Init, Uv!Described, Uv!Inactive
<1> HIDE DEF w, f
<1>4. uvCam \in UvCams /\ uvHeld \in UvHelds /\ uvPage \in UvPages /\ uvWrote \in UvBytes
  BY <1>1, <1>2, <1>3 DEF UvCams, UvHelds, UvPages
<1>5. uvThread \in [Uv!Threads -> UvRuns] /\ \A t \in Uv!Threads : uvThread[t].step = "off"
  BY <1>3, UvIdleType
<1>6. UvTyped
  BY <1>3, <1>4, <1>5 DEF UvTyped, UvFits
<1>7. Poll \in Uv!Threads
  BY DEF Uv!Threads
<1>8. UvAlone(Poll) /\ UvOk(uvThread[Poll], uvCam, uvWrote, uvHeld, uvPage, uvFd)
  BY <1>2, <1>3, <1>5, <1>7 DEF UvAlone, UvOk
<1>9. QED BY <1>6, <1>7, <1>8 DEF UvFollows

LEMMA UvSuffices ==
    ASSUME UvTyped, UvFollows
    PROVE  Uv!PageFollowsCamera /\ Uv!LeavesTheRestAlone
<1>1. Uv!LeavesTheRestAlone
  BY DEF UvFollows, UvOk, Uv!LeavesTheRestAlone, Uv!LeavesTheRest
<1>2. ASSUME Uv!AtRest, ~uvBeside
      PROVE  uvPage = [keys |-> Uv!Controls, locked |-> uvCam.auto, mode |-> uvCam.fmt]
  <2>1. PICK t \in Uv!Threads : UvOk(uvThread[t], uvCam, uvWrote, uvHeld, uvPage, uvFd)
    BY <1>2 DEF UvFollows
  <2>2. uvThread[t].step = "off"
    BY <1>2 DEF Uv!AtRest, Uv!At
  <2>3. uvPage \in UvPages
    BY DEF UvTyped
  <2>4. QED BY <2>1, <2>2, <2>3 DEF UvOk, UvPages
<1>3. QED BY <1>1, <1>2 DEF Uv!PageFollowsCamera, Uv!Inactive

\* A thread at work is the only one, unless threads ran beside each other before.
LEMMA UvActs ==
    ASSUME UvFollows, NEW t \in Uv!Threads, ~uvBeside, uvThread[t].step # "off"
    PROVE  UvAlone(t) /\ UvOk(uvThread[t], uvCam, uvWrote, uvHeld, uvPage, uvFd)
BY DEF UvFollows, UvAlone

\* A step of the thread t.
LEMMA UvGoes ==
    ASSUME UvTyped, NEW t \in Uv!Threads,
           uvCam' \in UvCams, uvFd' \in BOOLEAN, uvHeld' \in UvHelds, uvPage' \in UvPages, uvWrote' \in UvBytes,
           uvBeside' \in BOOLEAN,
           NEW th \in UvRuns, UvFits(th), uvThread' = [uvThread EXCEPT ![t] = th],
           ~uvBeside' => UvAlone(t) /\ UvOk(th, uvCam', uvWrote', uvHeld', uvPage', uvFd')
    PROVE  UvTyped' /\ UvFollows'
<1>1. uvThread'[t] = th /\ \A u \in Uv!Threads : u # t => uvThread'[u] = uvThread[u]
  BY DEF UvTyped
<1>2. UvTyped'
  BY <1>1 DEF UvTyped
<1>3. UvFollows'
  <2> SUFFICES ASSUME ~uvBeside' PROVE UvFollows'
    BY DEF UvFollows
  <2>1. UvAlone(t)'
    BY <1>1 DEF UvAlone
  <2>2. QED BY <1>1, <2>1 DEF UvFollows
<1>4. QED BY <1>2, <1>3

\* A step that leaves the camera, the device and the page as they are.
UvStays == UNCHANGED <<uvCam, uvFd, uvHeld, uvPage, uvWrote>>

LEMMA UvOnlyRuns ==
    ASSUME UvTyped, UvFollows, NEW t \in Uv!Threads, UvStays, uvBeside' \in BOOLEAN,
           NEW th \in UvRuns, UvFits(th), uvThread' = [uvThread EXCEPT ![t] = th],
           ~uvBeside' => UvAlone(t) /\ UvOk(th, uvCam, uvWrote, uvHeld, uvPage, uvFd)
    PROVE  UvTyped' /\ UvFollows'
<1>1. uvCam' \in UvCams /\ uvFd' \in BOOLEAN /\ uvHeld' \in UvHelds /\ uvPage' \in UvPages /\ uvWrote' \in UvBytes
  BY DEF UvTyped, UvStays
<1>2. QED BY <1>1, UvGoes DEF UvStays

LEMMA UvStepsOn ==
    ASSUME UvTyped, NEW t \in Uv!Threads, NEW s \in UvSteps, Uv!To(t, s)
    PROVE  \E th \in UvRuns : uvThread' = [uvThread EXCEPT ![t] = th] /\ th = [uvThread[t] EXCEPT !.step = s]
<1> DEFINE f == [step |-> s]  old == uvThread[t]  th == UvRun(old, f)
<1>1. old \in UvRuns
  BY DEF UvTyped
<1>2. uvThread' = [uvThread EXCEPT ![t] = th]
  BY UvSteps1 DEF Uv!To
<1> HIDE DEF old
<1>3. th = [old EXCEPT !.step = s]
  BY <1>1, UvRunIs DEF UvRuns
<1>4. th \in UvRuns
  BY <1>1, <1>3 DEF UvRuns
<1>5. QED BY <1>2, <1>3, <1>4 DEF old

\* A thread ends: what it was about has been read again, or nothing was there to do it with.
LEMMA UvEnds ==
    ASSUME UvTyped, NEW t \in Uv!Threads, Uv!Over(t),
           uvCam' \in UvCams, uvFd' \in BOOLEAN, uvHeld' \in UvHelds, uvPage' \in UvPages, uvWrote' \in UvBytes,
           uvBeside' \in BOOLEAN,
           ~uvBeside' => UvAlone(t) /\ UvOk(Uv!Idle, uvCam', uvWrote', uvHeld', uvPage', uvFd')
    PROVE  UvTyped' /\ UvFollows'
<1> DEFINE th == Uv!Idle
<1>1. th \in UvRuns /\ UvFits(th) /\ uvThread' = [uvThread EXCEPT ![t] = th]
  BY UvIdleType DEF UvFits, Uv!Over
<1> HIDE DEF th
<1>2. ~uvBeside' => UvAlone(t) /\ UvOk(th, uvCam', uvWrote', uvHeld', uvPage', uvFd')
  BY DEF th
<1>3. QED BY <1>1, <1>2, UvGoes

LEMMA UvStarts ==
    ASSUME UvTyped, UvFollows, NEW t \in Uv!Threads, NEW job \in Uv!Jobs, Uv!StartWrite(t, job)
    PROVE  UvTyped' /\ UvFollows'
<1> DEFINE f == [step |-> "write", job |-> job]  old == uvThread[t]  th == UvRun(old, f)
<1>1. old \in UvRuns
  BY DEF UvTyped
<1>2. /\ uvThread' = [uvThread EXCEPT ![t] = th] /\ UvStays /\ old.step = "off"
      /\ uvBeside' = (uvBeside \/ ~Uv!AtRest)
  BY UvSteps1 DEF Uv!StartWrite, Uv!Start, Uv!StartKeep, UvStays, Uv!At
<1> HIDE DEF old
<1>3. th = [step |-> "write", job |-> job, bytes |-> old.bytes, fmt |-> old.fmt, todo |-> old.todo, ok |-> old.ok]
  BY UvRunIs
<1>4. th \in UvRuns /\ UvFits(th) /\ th.step = "write"
  BY <1>1, <1>3 DEF UvRuns, UvSteps, UvFits
<1> HIDE DEF th
<1>5. ASSUME ~uvBeside' PROVE UvAlone(t) /\ UvOk(th, uvCam, uvWrote, uvHeld, uvPage, uvFd)
  <2>1. \A u \in Uv!Threads : uvThread[u].step = "off"
    BY <1>2, <1>5 DEF Uv!AtRest, Uv!At
  <2>2. QED BY <1>2, <1>4, <1>5, <2>1 DEF UvFollows, UvAlone, UvOk
<1>6. uvBeside' \in BOOLEAN
  BY <1>2 DEF UvTyped
<1>7. QED BY <1>2, <1>4, <1>5, <1>6, UvOnlyRuns

LEMMA UvStartsPoll ==
    ASSUME UvTyped, UvFollows, Uv!StartPoll
    PROVE  UvTyped' /\ UvFollows'
<1> DEFINE t == Poll  f == [step |-> "list", todo |-> Uv!Controls]  old == uvThread[t]  th == UvRun(old, f)
<1>0. t \in Uv!Threads
  BY DEF Uv!Threads
<1>1. old \in UvRuns
  BY <1>0 DEF UvTyped
<1>2. /\ uvThread' = [uvThread EXCEPT ![t] = th] /\ UvStays /\ old.step = "off"
      /\ uvBeside' = (uvBeside \/ ~Uv!AtRest)
  BY UvSteps1 DEF Uv!StartPoll, Uv!Start, Uv!StartKeep, UvStays, Uv!At
<1> HIDE DEF old
<1>3. th = [step |-> "list", job |-> old.job, bytes |-> old.bytes, fmt |-> old.fmt, todo |-> Uv!Controls, ok |-> old.ok]
  BY UvRunIs
<1>4. th \in UvRuns /\ UvFits(th) /\ th.step = "list"
  BY <1>1, <1>3 DEF UvRuns, UvSteps, UvFits
<1> HIDE DEF th
<1>5. ASSUME ~uvBeside' PROVE UvAlone(t) /\ UvOk(th, uvCam, uvWrote, uvHeld, uvPage, uvFd)
  <2>1. \A u \in Uv!Threads : uvThread[u].step = "off"
    BY <1>2, <1>5 DEF Uv!AtRest, Uv!At
  <2>2. QED BY <1>2, <1>4, <1>5, <2>1 DEF UvFollows, UvAlone, UvOk
<1>6. uvBeside' \in BOOLEAN
  BY <1>2 DEF UvTyped
<1> HIDE DEF t
<1>7. QED BY <1>0, <1>2, <1>4, <1>5, <1>6, UvOnlyRuns

\* A step that only goes on to the next, with what it leaves as it is.
LEMMA UvPasses ==
    ASSUME UvTyped, UvFollows, NEW t \in Uv!Threads, NEW s \in UvSteps \ {"put", "verify", "payload", "apply"}, Uv!To(t, s),
           uvThread[t].step # "off",
           uvCam' \in UvCams, uvFd' \in BOOLEAN, uvHeld' \in UvHelds, uvPage' \in UvPages, uvWrote' \in UvBytes,
           uvBeside' \in BOOLEAN,
           ~uvBeside' => ~uvBeside,
           ~uvBeside' /\ UvOk(uvThread[t], uvCam, uvWrote, uvHeld, uvPage, uvFd) =>
              \A th \in UvRuns : th.step = s => UvOk(th, uvCam', uvWrote', uvHeld', uvPage', uvFd')
    PROVE  UvTyped' /\ UvFollows'
<1>1. PICK th \in UvRuns : uvThread' = [uvThread EXCEPT ![t] = th] /\ th = [uvThread[t] EXCEPT !.step = s]
  BY UvStepsOn
<1>2. uvThread[t] \in UvRuns
  BY DEF UvTyped
<1>3. th.step = s
  BY <1>1, <1>2 DEF UvRuns
<1>4. UvFits(th)
  BY <1>3 DEF UvFits
<1>5. QED BY <1>1, <1>3, <1>4, UvActs, UvGoes

LEMMA UvRefusals ==
    ASSUME UvTyped, UvFollows, NEW t \in Uv!Threads, Uv!NoDescriptor(t)
    PROVE  UvTyped' /\ UvFollows'
<1>1. /\ ~uvFd /\ uvThread[t].step \in {"write", "put", "verify", "payload", "apply", "flags"} /\ Uv!Over(t)
      /\ UNCHANGED <<uvCam, uvFd, uvHeld, uvPage, uvWrote, uvBeside>>
  BY DEF Uv!NoDescriptor, Uv!Calm
<1>2. uvBeside
  BY <1>1, UvActs DEF UvOk, UvTyped
<1>3. /\ uvCam' \in UvCams /\ uvFd' \in BOOLEAN /\ uvHeld' \in UvHelds /\ uvPage' \in UvPages /\ uvWrote' \in UvBytes
      /\ uvBeside' = uvBeside /\ uvBeside' \in BOOLEAN
  BY <1>1 DEF UvTyped
<1>4. QED BY <1>1, <1>2, <1>3, UvEnds

LEMMA UvSetsControl ==
    ASSUME UvTyped, UvFollows, NEW t \in Uv!Threads, Uv!SetControl(t)
    PROVE  UvTyped' /\ UvFollows'
<1> DEFINE c == [uvCam EXCEPT !.auto = uvThread[t].job.to = "on"]
<1>1. /\ uvThread[t].step = "write" /\ Uv!To(t, "flags") /\ uvCam' \in {c, uvCam}
      /\ UNCHANGED <<uvFd, uvHeld, uvPage, uvWrote, uvBeside>>
  BY DEF Uv!SetControl, Uv!At, Uv!Calm, Uv!Job
<1>2. uvCam \in UvCams
  BY DEF UvTyped
<1>3. c \in UvCams /\ c.bytes = uvCam.bytes /\ c.fmt = uvCam.fmt
  BY <1>2 DEF UvCams
<1> HIDE DEF c
<1>4. uvCam' \in UvCams /\ uvCam'.bytes = uvCam.bytes /\ uvCam'.fmt = uvCam.fmt
  BY <1>1, <1>2, <1>3
<1>5. /\ uvFd' \in BOOLEAN /\ uvHeld' \in UvHelds /\ uvPage' \in UvPages /\ uvWrote' \in UvBytes
      /\ uvBeside' = uvBeside /\ uvBeside' \in BOOLEAN
  BY <1>1 DEF UvTyped
<1>6. UvOk(uvThread[t], uvCam, uvWrote, uvHeld, uvPage, uvFd) =>
        \A th \in UvRuns : th.step = "flags" => UvOk(th, uvCam', uvWrote', uvHeld', uvPage', uvFd')
  BY <1>1, <1>4 DEF UvOk
<1>7. QED BY <1>1, <1>4, <1>5, <1>6, UvPasses DEF UvSteps

LEMMA UvReadsByte ==
    ASSUME UvTyped, UvFollows, NEW t \in Uv!Threads, Uv!ReadByte(t)
    PROVE  UvTyped' /\ UvFollows'
<1> DEFINE f == [step |-> "put", bytes |-> uvCam.bytes]  old == uvThread[t]  th == UvRun(old, f)
<1>1. old \in UvRuns /\ uvCam.bytes \in UvBytes
  BY DEF UvTyped, UvCams
<1>2. /\ uvThread' = [uvThread EXCEPT ![t] = th] /\ UvStays /\ old.step = "write" /\ old.job.kind = "byte"
      /\ uvBeside' = uvBeside
  BY UvSteps1 DEF Uv!ReadByte, Uv!At, Uv!Calm, Uv!Job, UvStays
<1>3. ~uvBeside => UvAlone(t) /\ UvOk(old, uvCam, uvWrote, uvHeld, uvPage, uvFd)
  BY <1>2, UvActs
<1> HIDE DEF old
<1>4. th = [step |-> "put", job |-> old.job, bytes |-> uvCam.bytes, fmt |-> old.fmt, todo |-> old.todo, ok |-> old.ok]
  BY UvRunIs
<1>5. th \in UvRuns /\ UvFits(th) /\ th.step = "put" /\ th.bytes = uvCam.bytes
  BY <1>1, <1>2, <1>4 DEF UvRuns, UvSteps, UvFits
<1> HIDE DEF th
<1>6. ~uvBeside' => UvAlone(t) /\ UvOk(th, uvCam, uvWrote, uvHeld, uvPage, uvFd)
  BY <1>2, <1>3, <1>5 DEF UvOk
<1>7. uvBeside' \in BOOLEAN
  BY <1>2 DEF UvTyped
<1>8. QED BY <1>2, <1>5, <1>6, <1>7, UvOnlyRuns

\* The buffer that goes back is the one the camera holds, with one byte changed.
LEMMA UvPutsByte ==
    ASSUME UvTyped, UvFollows, NEW t \in Uv!Threads, Uv!PutByte(t)
    PROVE  UvTyped' /\ UvFollows'
<1> DEFINE old == uvThread[t]  b == [old.bytes EXCEPT ![old.job.at] = old.job.to]
           c == [uvCam EXCEPT !.bytes = b]  w == [uvWrote EXCEPT ![old.job.at] = old.job.to]
<1>1. /\ old.step = "put" /\ Uv!To(t, "verify") /\ UNCHANGED <<uvFd, uvHeld, uvPage>>
      /\ \/ uvCam' = c /\ uvWrote' = w /\ uvBeside' = uvBeside
         \/ uvBeside' = TRUE /\ UNCHANGED <<uvCam, uvWrote>>
  BY DEF Uv!PutByte, Uv!ChangedBuffer, Uv!At, Uv!Job, Uv!Calm, Uv!Stirs
<1>2. ~uvBeside => UvAlone(t) /\ UvOk(old, uvCam, uvWrote, uvHeld, uvPage, uvFd)
  BY <1>1, UvActs
<1>3. old \in UvRuns /\ uvCam \in UvCams /\ uvWrote \in UvBytes /\ old.job.kind = "byte" /\ uvBeside \in BOOLEAN
  BY <1>1 DEF UvTyped, UvFits
<1>4. PICK th \in UvRuns : uvThread' = [uvThread EXCEPT ![t] = th] /\ th = [uvThread[t] EXCEPT !.step = "verify"]
  BY <1>1, UvStepsOn DEF UvSteps
<1>5. th.step = "verify" /\ th.job.kind = "byte"
  BY <1>3, <1>4 DEF UvRuns
<1> HIDE DEF old
<1>6. old.job.to \in {"on", "off"}
  BY <1>3 DEF UvRuns, Uv!Jobs, Uv!NoJob
<1>7. b \in UvBytes /\ w \in UvBytes
  BY <1>3, <1>6 DEF UvRuns, UvBytes
<1>8. old.bytes = uvWrote => b = w
  OBVIOUS
<1> HIDE DEF b, w
<1>9. c \in UvCams /\ c.bytes = b /\ c.auto = uvCam.auto /\ c.fmt = uvCam.fmt
  BY <1>3, <1>7 DEF UvCams
<1> HIDE DEF c
<1>10. uvCam' \in UvCams /\ uvWrote' \in UvBytes /\ uvBeside' \in BOOLEAN
  BY <1>1, <1>3, <1>7, <1>9
<1>11. uvFd' \in BOOLEAN /\ uvHeld' \in UvHelds /\ uvPage' \in UvPages
  BY <1>1 DEF UvTyped
<1>12. ASSUME ~uvBeside' PROVE UvAlone(t) /\ UvOk(th, uvCam', uvWrote', uvHeld', uvPage', uvFd')
  BY <1>1, <1>2, <1>5, <1>8, <1>9, <1>12 DEF UvOk
<1>13. UvFits(th)
  BY <1>5 DEF UvFits
<1>14. QED BY <1>4, <1>10, <1>11, <1>12, <1>13, UvGoes

LEMMA UvVerifies ==
    ASSUME UvTyped, UvFollows, NEW t \in Uv!Threads, Uv!Verify(t)
    PROVE  UvTyped' /\ UvFollows'
<1>1. /\ uvThread[t].step = "verify" /\ (Uv!To(t, "flags") \/ Uv!Over(t))
      /\ UNCHANGED <<uvCam, uvFd, uvHeld, uvPage, uvWrote, uvBeside>>
  BY DEF Uv!Verify, Uv!At, Uv!Calm
<1>2. /\ uvCam' \in UvCams /\ uvFd' \in BOOLEAN /\ uvHeld' \in UvHelds /\ uvPage' \in UvPages /\ uvWrote' \in UvBytes
      /\ uvBeside' = uvBeside /\ uvBeside' \in BOOLEAN
  BY <1>1 DEF UvTyped
<1>3. UvOk(uvThread[t], uvCam, uvWrote, uvHeld, uvPage, uvFd) =>
        \A th : th.step \in {"flags", "off"} => UvOk(th, uvCam', uvWrote', uvHeld', uvPage', uvFd')
  BY <1>1 DEF UvOk
<1>4. CASE Uv!To(t, "flags")
  BY <1>1, <1>2, <1>3, <1>4, UvPasses DEF UvSteps
<1>5. CASE Uv!Over(t)
  <2>1. ~uvBeside' => UvAlone(t) /\ UvOk(Uv!Idle, uvCam', uvWrote', uvHeld', uvPage', uvFd')
    BY <1>1, <1>2, <1>3, UvActs, UvIdleType
  <2>2. QED BY <1>2, <1>5, <2>1, UvEnds
<1>6. QED BY <1>1, <1>4, <1>5

LEMMA UvPreludes ==
    ASSUME UvTyped, UvFollows, NEW t \in Uv!Threads, Uv!Prelude(t)
    PROVE  UvTyped' /\ UvFollows'
<1> DEFINE old == uvThread[t]  c == [uvCam EXCEPT !.armed = old.job.to = "narrow"]
<1>1. /\ old.step = "write" /\ old.job.kind = "blob" /\ Uv!To(t, "payload") /\ uvCam' = c
      /\ UNCHANGED <<uvFd, uvHeld, uvPage, uvWrote, uvBeside>>
  BY DEF Uv!Prelude, Uv!At, Uv!Job, Uv!Calm
<1>2. ~uvBeside => UvAlone(t) /\ UvOk(old, uvCam, uvWrote, uvHeld, uvPage, uvFd)
  BY <1>1, UvActs
<1>3. PICK th \in UvRuns : uvThread' = [uvThread EXCEPT ![t] = th] /\ th = [uvThread[t] EXCEPT !.step = "payload"]
  BY <1>1, UvStepsOn DEF UvSteps
<1>4. old \in UvRuns /\ uvCam \in UvCams
  BY DEF UvTyped
<1>5. th.step = "payload" /\ th.job.kind = "blob"
  BY <1>1, <1>3, <1>4 DEF UvRuns
<1>6. c \in UvCams /\ c.bytes = uvCam.bytes /\ c.auto = uvCam.auto /\ c.fmt = uvCam.fmt
  BY <1>4 DEF UvCams
<1> HIDE DEF old, c
<1>7. /\ uvCam' \in UvCams /\ uvFd' \in BOOLEAN /\ uvHeld' \in UvHelds /\ uvPage' \in UvPages /\ uvWrote' \in UvBytes
      /\ uvBeside' = uvBeside /\ uvBeside' \in BOOLEAN
  BY <1>1, <1>6 DEF UvTyped
<1>8. ASSUME ~uvBeside' PROVE UvAlone(t) /\ UvOk(th, uvCam', uvWrote', uvHeld', uvPage', uvFd')
  BY <1>1, <1>2, <1>5, <1>6, <1>7, <1>8 DEF UvOk
<1>9. UvFits(th)
  BY <1>5 DEF UvFits
<1>10. QED BY <1>3, <1>7, <1>8, <1>9, UvGoes

LEMMA UvPayloads ==
    ASSUME UvTyped, UvFollows, NEW t \in Uv!Threads, Uv!Payload(t)
    PROVE  UvTyped' /\ UvFollows'
<1> DEFINE to == uvThread[t].job.to  fov == IF to = "narrow" /\ ~uvCam.armed THEN uvCam.fov ELSE to
           c == [uvCam EXCEPT !.armed = FALSE, !.fov = fov]
<1>1. /\ uvThread[t].step = "payload" /\ Uv!To(t, "flags") /\ uvCam' = c
      /\ UNCHANGED <<uvFd, uvHeld, uvPage, uvWrote, uvBeside>>
  BY DEF Uv!Payload, Uv!At, Uv!Job, Uv!Calm
<1>2. uvThread[t] \in UvRuns /\ uvCam \in UvCams /\ uvThread[t].job.kind = "blob"
  BY <1>1 DEF UvTyped, UvFits
<1>3. to \in {"wide", "narrow"}
  BY <1>2 DEF UvRuns, Uv!Jobs, Uv!NoJob
<1> HIDE DEF to
<1>4. fov \in {"wide", "narrow"}
  BY <1>2, <1>3 DEF UvCams
<1> HIDE DEF fov
<1>5. c \in UvCams /\ c.bytes = uvCam.bytes /\ c.auto = uvCam.auto /\ c.fmt = uvCam.fmt
  BY <1>2, <1>4 DEF UvCams
<1> HIDE DEF c
<1>6. /\ uvCam' \in UvCams /\ uvFd' \in BOOLEAN /\ uvHeld' \in UvHelds /\ uvPage' \in UvPages /\ uvWrote' \in UvBytes
      /\ uvBeside' = uvBeside /\ uvBeside' \in BOOLEAN
  BY <1>1, <1>5 DEF UvTyped
<1>7. UvOk(uvThread[t], uvCam, uvWrote, uvHeld, uvPage, uvFd) =>
        \A th \in UvRuns : th.step = "flags" => UvOk(th, uvCam', uvWrote', uvHeld', uvPage', uvFd')
  BY <1>1, <1>5, <1>6 DEF UvOk
<1>8. QED BY <1>1, <1>6, <1>7, UvPasses DEF UvSteps

LEMMA UvReadsFormat ==
    ASSUME UvTyped, UvFollows, NEW t \in Uv!Threads, Uv!ReadFormat(t)
    PROVE  UvTyped' /\ UvFollows'
<1> DEFINE old == uvThread[t]
           s == IF uvCam.fmt[old.job.kind] = old.job.to THEN "close" ELSE "apply"
           f == [step |-> s, fmt |-> uvCam.fmt]  th == UvRun(old, f)
<1>1. old \in UvRuns /\ uvCam.fmt \in UvFormats
  BY DEF UvTyped, UvCams
<1>2. /\ uvThread' = [uvThread EXCEPT ![t] = th] /\ UvStays /\ old.step = "write" /\ old.job.kind \in {"pix", "size"}
      /\ uvBeside' = uvBeside
  BY UvSteps1 DEF Uv!ReadFormat, Uv!At, Uv!Calm, Uv!Job, UvStays
<1>3. ~uvBeside => UvAlone(t) /\ UvOk(old, uvCam, uvWrote, uvHeld, uvPage, uvFd)
  BY <1>2, UvActs
<1>4. s \in {"close", "apply"}
  OBVIOUS
<1> HIDE DEF old, s
<1>5. th = [step |-> s, job |-> old.job, bytes |-> old.bytes, fmt |-> uvCam.fmt, todo |-> old.todo, ok |-> old.ok]
  BY UvRunIs
<1>6. th \in UvRuns /\ UvFits(th) /\ th.step = s
  BY <1>1, <1>2, <1>4, <1>5 DEF UvRuns, UvSteps, UvFits
<1> HIDE DEF th
<1>7. ~uvBeside' => UvAlone(t) /\ UvOk(th, uvCam, uvWrote, uvHeld, uvPage, uvFd)
  BY <1>2, <1>3, <1>4, <1>6 DEF UvOk
<1>8. uvBeside' \in BOOLEAN
  BY <1>2 DEF UvTyped
<1>9. QED BY <1>2, <1>6, <1>7, <1>8, UvOnlyRuns

\* The camera takes a format it has.
LEMMA UvFitted ==
    ASSUME NEW f \in [pix : Uv!Formats, size : {"small", "large"}]
    PROVE  Uv!Fitted(f) \in UvFormats
<1> DEFINE s == IF f.size \in Uv!Sizes(f.pix) THEN f.size ELSE "small"  g == [f EXCEPT !.size = s]
<1>1. s \in {"small", "large"} /\ s \in Uv!Sizes(f.pix)
  BY DEF Uv!Sizes
<1> HIDE DEF s
<1>2. g \in [pix : Uv!Formats, size : {"small", "large"}] /\ g.size = s /\ g.pix = f.pix
  BY <1>1
<1> HIDE DEF g
<1>3. g \in UvFormats
  BY <1>1, <1>2 DEF UvFormats
<1>4. QED BY <1>3 DEF g, s, Uv!Fitted

LEMMA UvApplies ==
    ASSUME UvTyped, UvFollows, NEW t \in Uv!Threads, Uv!Apply(t)
    PROVE  UvTyped' /\ UvFollows'
<1> DEFINE old == uvThread[t]  asked == [old.fmt EXCEPT ![old.job.kind] = old.job.to]
           fit == Uv!Fitted(asked)  ok == ~uvCam.busy /\ fit[old.job.kind] = old.job.to
           f == [step |-> "close", ok |-> ok]  th == UvRun(old, f)
           c == IF uvCam.busy THEN uvCam ELSE [uvCam EXCEPT !.fmt = fit]
<1>1. old \in UvRuns /\ uvCam \in UvCams
  BY DEF UvTyped
<1>2. /\ uvThread' = [uvThread EXCEPT ![t] = th] /\ uvCam' = c /\ old.step = "apply"
      /\ UNCHANGED <<uvFd, uvHeld, uvPage, uvWrote, uvBeside>>
  BY UvSteps1 DEF Uv!Apply, Uv!At, Uv!Calm, Uv!Job
<1>3. ~uvBeside => UvAlone(t) /\ UvOk(old, uvCam, uvWrote, uvHeld, uvPage, uvFd)
  BY <1>2, UvActs
<1>4. old.job.kind \in {"pix", "size"}
  BY <1>2 DEF UvTyped, UvFits
<1>5. ok \in BOOLEAN
  OBVIOUS
<1> HIDE DEF old, ok
<1>6. asked \in [pix : Uv!Formats, size : {"small", "large"}]
  <2>1. old.fmt \in [pix : Uv!Formats, size : {"small", "large"}] /\ old.job \in Uv!Jobs \cup {Uv!NoJob}
    BY <1>1 DEF UvRuns, UvFormats
  <2>2. CASE old.job.kind = "pix"
    <3>1. old.job.to \in Uv!Formats
      BY <2>1, <2>2 DEF Uv!Jobs, Uv!NoJob
    <3>2. QED BY <2>1, <2>2, <3>1
  <2>3. CASE old.job.kind = "size"
    <3>1. old.job.to \in {"small", "large"}
      BY <2>1, <2>3 DEF Uv!Jobs, Uv!NoJob
    <3>2. QED BY <2>1, <2>3, <3>1
  <2>4. QED BY <1>4, <2>2, <2>3
<1> HIDE DEF asked
<1>7. fit \in UvFormats
  BY <1>6, UvFitted
<1> HIDE DEF fit
<1>8. c \in UvCams /\ c.bytes = uvCam.bytes /\ c.auto = uvCam.auto
  BY <1>1, <1>7 DEF UvCams
<1> HIDE DEF c
<1>9. th = [step |-> "close", job |-> old.job, bytes |-> old.bytes, fmt |-> old.fmt, todo |-> old.todo, ok |-> ok]
  BY UvRunIs
<1>10. th \in UvRuns /\ UvFits(th) /\ th.step = "close"
  BY <1>1, <1>5, <1>9 DEF UvRuns, UvSteps, UvFits
<1> HIDE DEF th
<1>11. /\ uvCam' \in UvCams /\ uvFd' \in BOOLEAN /\ uvHeld' \in UvHelds /\ uvPage' \in UvPages /\ uvWrote' \in UvBytes
       /\ uvBeside' = uvBeside /\ uvBeside' \in BOOLEAN
  BY <1>2, <1>8 DEF UvTyped
<1>12. ASSUME ~uvBeside' PROVE UvAlone(t) /\ UvOk(th, uvCam', uvWrote', uvHeld', uvPage', uvFd')
  BY <1>2, <1>3, <1>8, <1>10, <1>11, <1>12 DEF UvOk
<1>13. QED BY <1>2, <1>10, <1>11, <1>12, UvGoes

LEMMA UvReopens ==
    ASSUME UvTyped, UvFollows, NEW t \in Uv!Threads, Uv!Close(t) \/ Uv!Open(t)
    PROVE  UvTyped' /\ UvFollows'
<1>1. UNCHANGED <<uvCam, uvHeld, uvPage, uvWrote>>
  BY DEF Uv!Close, Uv!Open
<1>2. /\ uvCam' \in UvCams /\ uvHeld' \in UvHelds /\ uvPage' \in UvPages /\ uvWrote' \in UvBytes
      /\ uvBeside \in BOOLEAN /\ uvFd \in BOOLEAN
  BY <1>1 DEF UvTyped
<1>3. CASE Uv!Close(t)
  <2>1. uvThread[t].step = "close" /\ uvFd' = FALSE /\ Uv!To(t, "open") /\ uvBeside' = uvBeside
    BY <1>3 DEF Uv!Close, Uv!At, Uv!Calm
  <2>2. UvOk(uvThread[t], uvCam, uvWrote, uvHeld, uvPage, uvFd) =>
          \A th \in UvRuns : th.step = "open" => UvOk(th, uvCam', uvWrote', uvHeld', uvPage', uvFd')
    BY <1>1, <2>1 DEF UvOk
  <2>3. QED BY <1>2, <2>1, <2>2, UvPasses DEF UvSteps
<1>4. CASE Uv!Open(t)
  <2>1. uvThread[t].step = "open" /\ \/ uvFd' = TRUE /\ Uv!To(t, "reload") /\ uvBeside' = uvBeside
                                     \/ uvFd' = uvFd /\ Uv!Over(t) /\ uvBeside' = TRUE
    BY <1>4 DEF Uv!Open, Uv!At, Uv!Calm, Uv!Stirs
  <2>2. UvOk(uvThread[t], uvCam, uvWrote, uvHeld, uvPage, uvFd) /\ uvFd' =>
          \A th \in UvRuns : th.step = "reload" => UvOk(th, uvCam', uvWrote', uvHeld', uvPage', uvFd')
    BY <1>1, <2>1 DEF UvOk
  <2>3. CASE uvFd' = TRUE /\ Uv!To(t, "reload") /\ uvBeside' = uvBeside
    BY <1>2, <2>1, <2>2, <2>3, UvPasses DEF UvSteps
  <2>4. CASE uvFd' = uvFd /\ Uv!Over(t) /\ uvBeside' = TRUE
    BY <1>2, <2>4, UvEnds
  <2>5. QED BY <2>1, <2>3, <2>4
<1>5. QED BY <1>3, <1>4

LEMMA UvReloads ==
    ASSUME UvTyped, UvFollows, NEW t \in Uv!Threads, Uv!Reload(t)
    PROVE  UvTyped' /\ UvFollows'
<1> DEFINE h == [uvHeld EXCEPT !.mode = uvCam.fmt]
           p == [keys |-> uvHeld'.keys, locked |-> uvHeld'.inactive, mode |-> uvHeld'.mode]
<1>1. /\ uvThread[t].step = "reload" /\ (Uv!To(t, "flags") \/ Uv!Over(t))
      /\ IF uvFd THEN uvHeld' = h /\ uvPage' = p ELSE UNCHANGED <<uvHeld, uvPage>>
      /\ UNCHANGED <<uvCam, uvFd, uvWrote, uvBeside>>
  BY DEF Uv!Reload, Uv!At, Uv!Calm, Uv!Reloaded, Uv!Described
<1>2. uvHeld \in UvHelds /\ uvCam \in UvCams /\ uvPage \in UvPages
  BY DEF UvTyped
<1>3. h \in UvHelds /\ h.keys = uvHeld.keys /\ h.inactive = uvHeld.inactive /\ h.mode = uvCam.fmt
  BY <1>2 DEF UvHelds, UvCams
<1> HIDE DEF h
<1>4. uvHeld' \in UvHelds
  BY <1>1, <1>2, <1>3
<1>5. p \in UvPages /\ p.keys = uvHeld'.keys /\ p.locked = uvHeld'.inactive /\ p.mode = uvHeld'.mode
  BY <1>4 DEF UvHelds, UvPages
<1> HIDE DEF p
<1>6. uvPage' \in UvPages
  BY <1>1, <1>2, <1>5
<1>7. /\ uvCam' \in UvCams /\ uvFd' \in BOOLEAN /\ uvWrote' \in UvBytes /\ uvBeside' = uvBeside /\ uvBeside' \in BOOLEAN
  BY <1>1 DEF UvTyped
<1>8. UvOk(uvThread[t], uvCam, uvWrote, uvHeld, uvPage, uvFd) =>
        \A th : th.step \in {"flags", "off"} => UvOk(th, uvCam', uvWrote', uvHeld', uvPage', uvFd')
  <2> SUFFICES ASSUME UvOk(uvThread[t], uvCam, uvWrote, uvHeld, uvPage, uvFd), NEW th, th.step \in {"flags", "off"}
               PROVE  UvOk(th, uvCam', uvWrote', uvHeld', uvPage', uvFd')
    OBVIOUS
  <2>1. uvFd /\ uvHeld' = h /\ uvPage' = p
    BY <1>1 DEF UvOk
  <2>2. QED BY <1>1, <1>3, <1>5, <2>1 DEF UvOk
<1>9. CASE Uv!To(t, "flags")
  <2>1. UvOk(uvThread[t], uvCam, uvWrote, uvHeld, uvPage, uvFd) =>
        \A th \in UvRuns : th.step = "flags" => UvOk(th, uvCam', uvWrote', uvHeld', uvPage', uvFd')
    BY <1>8
  <2>2. QED BY <1>1, <1>4, <1>6, <1>7, <1>9, <2>1, UvPasses DEF UvSteps
<1>10. CASE Uv!Over(t)
  <2>1. ~uvBeside' => UvAlone(t) /\ UvOk(Uv!Idle, uvCam', uvWrote', uvHeld', uvPage', uvFd')
    BY <1>1, <1>7, <1>8, UvActs, UvIdleType
  <2>2. QED BY <1>4, <1>6, <1>7, <1>10, <2>1, UvEnds
<1>11. QED BY <1>1, <1>9, <1>10

LEMMA UvRefreshes ==
    ASSUME UvTyped, UvFollows, NEW t \in Uv!Threads, Uv!RefreshFlags(t)
    PROVE  UvTyped' /\ UvFollows'
<1> DEFINE off == IF "focus" \in uvHeld.keys THEN uvCam.auto ELSE uvHeld.inactive
           h == [uvHeld EXCEPT !.inactive = off]  p == [uvPage EXCEPT !.locked = uvHeld'.inactive]
<1>1. /\ uvThread[t].step = "flags" /\ Uv!Over(t) /\ uvHeld' = h /\ uvPage' = p
      /\ UNCHANGED <<uvCam, uvFd, uvWrote, uvBeside>>
  BY DEF Uv!RefreshFlags, Uv!At, Uv!Calm, Uv!Inactive
<1>2. uvHeld \in UvHelds /\ uvCam \in UvCams /\ uvPage \in UvPages
  BY DEF UvTyped
<1>3. off \in BOOLEAN /\ (uvHeld.keys = Uv!Controls => off = uvCam.auto)
  BY <1>2 DEF UvHelds, UvCams, Uv!Controls
<1> HIDE DEF off
<1>4. h \in UvHelds /\ h.keys = uvHeld.keys /\ h.inactive = off /\ h.mode = uvHeld.mode
  BY <1>2, <1>3 DEF UvHelds
<1> HIDE DEF h
<1>5. p \in UvPages /\ p.keys = uvPage.keys /\ p.locked = off /\ p.mode = uvPage.mode
  BY <1>1, <1>2, <1>3, <1>4 DEF UvPages
<1> HIDE DEF p
<1>6. /\ uvCam' \in UvCams /\ uvFd' \in BOOLEAN /\ uvWrote' \in UvBytes /\ uvBeside' = uvBeside /\ uvBeside' \in BOOLEAN
  BY <1>1 DEF UvTyped
<1>7. ~uvBeside' => UvAlone(t) /\ UvOk(Uv!Idle, uvCam', uvWrote', uvHeld', uvPage', uvFd')
  <2> SUFFICES ASSUME ~uvBeside PROVE UvAlone(t) /\ UvOk(Uv!Idle, uvCam', uvWrote', uvHeld', uvPage', uvFd')
    BY <1>6
  <2>1. UvAlone(t) /\ UvOk(uvThread[t], uvCam, uvWrote, uvHeld, uvPage, uvFd)
    BY <1>1, UvActs
  <2>2. QED BY <1>1, <1>3, <1>4, <1>5, <2>1, UvIdleType DEF UvOk
<1>8. QED BY <1>1, <1>4, <1>5, <1>6, <1>7, UvEnds

-----------------------------------------------------------------------------

\* A step of the poll that only takes one control more off its list.
LEMMA UvListsOne ==
    ASSUME UvTyped, UvFollows, NEW s, Uv!Step(Poll, [todo |-> s]), s \in SUBSET Uv!Controls,
           uvThread[Poll].step = "list", UvStays, uvBeside' = uvBeside
    PROVE  UvTyped' /\ UvFollows'
<1> DEFINE t == Poll  f == [todo |-> s]  old == uvThread[t]  th == UvRun(old, f)
<1>0. t \in Uv!Threads
  BY DEF Uv!Threads
<1>1. old \in UvRuns /\ old.step = "list"
  BY <1>0 DEF UvTyped
<1>2. uvThread' = [uvThread EXCEPT ![t] = th]
  BY UvSteps1
<1>3. ~uvBeside => UvAlone(t) /\ UvOk(old, uvCam, uvWrote, uvHeld, uvPage, uvFd)
  BY <1>0, <1>1, UvActs
<1> HIDE DEF old
<1>4. th = [step |-> old.step, job |-> old.job, bytes |-> old.bytes, fmt |-> old.fmt, todo |-> s, ok |-> old.ok]
  BY UvRunIs
<1>5. th \in UvRuns /\ UvFits(th) /\ th.step = "list"
  BY <1>1, <1>4 DEF UvRuns, UvFits
<1> HIDE DEF th, t
<1>6. ~uvBeside' => UvAlone(t) /\ UvOk(th, uvCam, uvWrote, uvHeld, uvPage, uvFd)
  BY <1>1, <1>3, <1>5 DEF UvOk
<1>7. uvBeside' \in BOOLEAN
  BY DEF UvTyped
<1>8. QED BY <1>0, <1>2, <1>5, <1>6, <1>7, UvOnlyRuns

LEMMA UvLists ==
    ASSUME UvTyped, UvFollows, Uv!ListControls
    PROVE  UvTyped' /\ UvFollows'
<1> DEFINE todo == uvThread[Poll].todo  k == Uv!Controls \ todo
           h == [uvHeld EXCEPT !.keys = k, !.inactive = uvCam.auto]
<1>1. /\ uvThread[Poll].step = "list" /\ UNCHANGED <<uvCam, uvFd, uvPage, uvWrote, uvBeside>>
      /\ IF uvFd /\ todo # {} THEN \E c \in todo : Uv!Step(Poll, [todo |-> todo \ {c}]) /\ UNCHANGED uvHeld
         ELSE uvHeld' = h /\ Uv!To(Poll, "modes")
  BY DEF Uv!ListControls, Uv!At, Uv!Calm, Uv!Inactive
<1>2. /\ Poll \in Uv!Threads /\ uvThread[Poll] \in UvRuns /\ todo \in SUBSET Uv!Controls /\ uvHeld \in UvHelds
      /\ uvCam \in UvCams
  BY DEF UvTyped, Uv!Threads, UvRuns
<1>3. CASE uvFd /\ todo # {}
  <2>1. PICK c \in todo : Uv!Step(Poll, [todo |-> todo \ {c}]) /\ UNCHANGED uvHeld
    BY <1>1, <1>3
  <2>2. todo \ {c} \in SUBSET Uv!Controls
    BY <1>2
  <2>3. QED BY <1>1, <2>1, <2>2, UvListsOne DEF UvStays
<1>4. CASE ~(uvFd /\ todo # {})
  <2>1. uvHeld' = h /\ Uv!To(Poll, "modes")
    BY <1>1, <1>4
  <2> HIDE DEF todo
  <2>2. k \in SUBSET Uv!Controls /\ (todo = {} => k = Uv!Controls)
    OBVIOUS
  <2> HIDE DEF k
  <2>3. h \in UvHelds /\ h.keys = k /\ h.inactive = uvCam.auto /\ h.mode = uvHeld.mode
    BY <1>2, <2>2 DEF UvHelds, UvCams
  <2> HIDE DEF h
  <2>4. /\ uvCam' \in UvCams /\ uvFd' \in BOOLEAN /\ uvHeld' \in UvHelds /\ uvPage' \in UvPages /\ uvWrote' \in UvBytes
        /\ uvBeside' = uvBeside /\ uvBeside' \in BOOLEAN
    BY <1>1, <2>1, <2>3 DEF UvTyped
  <2>5. UvOk(uvThread[Poll], uvCam, uvWrote, uvHeld, uvPage, uvFd) =>
          \A th \in UvRuns : th.step = "modes" => UvOk(th, uvCam', uvWrote', uvHeld', uvPage', uvFd')
    BY <1>1, <1>4, <2>1, <2>2, <2>3 DEF UvOk
  <2>6. QED BY <1>1, <1>2, <2>1, <2>4, <2>5, UvPasses DEF UvSteps
<1>5. QED BY <1>3, <1>4

LEMMA UvListsModes ==
    ASSUME UvTyped, UvFollows, Uv!ListModes
    PROVE  UvTyped' /\ UvFollows'
<1> DEFINE h == [uvHeld EXCEPT !.mode = uvCam.fmt]
<1>1. /\ uvThread[Poll].step = "modes" /\ UNCHANGED <<uvCam, uvFd, uvPage, uvWrote, uvBeside>>
      /\ IF uvFd THEN uvHeld' = h /\ Uv!To(Poll, "describe") ELSE uvHeld' = uvHeld /\ Uv!Over(Poll)
  BY DEF Uv!ListModes, Uv!At, Uv!Calm
<1>2. Poll \in Uv!Threads /\ uvHeld \in UvHelds /\ uvCam \in UvCams
  BY DEF UvTyped, Uv!Threads
<1>3. h \in UvHelds /\ h.keys = uvHeld.keys /\ h.inactive = uvHeld.inactive /\ h.mode = uvCam.fmt
  BY <1>2 DEF UvHelds, UvCams
<1> HIDE DEF h
<1>4. /\ uvCam' \in UvCams /\ uvFd' \in BOOLEAN /\ uvHeld' \in UvHelds /\ uvPage' \in UvPages /\ uvWrote' \in UvBytes
      /\ uvBeside' = uvBeside /\ uvBeside' \in BOOLEAN
  BY <1>1, <1>2, <1>3 DEF UvTyped
<1>5. CASE uvFd
  <2>1. UvOk(uvThread[Poll], uvCam, uvWrote, uvHeld, uvPage, uvFd) =>
          \A th \in UvRuns : th.step = "describe" => UvOk(th, uvCam', uvWrote', uvHeld', uvPage', uvFd')
    BY <1>1, <1>3, <1>5 DEF UvOk
  <2>2. Uv!To(Poll, "describe") /\ uvThread[Poll].step # "off"
    BY <1>1, <1>5
  <2>3. "describe" \in UvSteps \ {"put", "verify", "payload", "apply"}
    BY DEF UvSteps
  <2>4. ~uvBeside' => ~uvBeside
    BY <1>4
  <2>5. QED BY <1>2, <1>4, <2>1, <2>2, <2>3, <2>4, UvPasses
<1>6. CASE ~uvFd
  <2>1. uvBeside
    BY <1>1, <1>2, <1>6, UvActs DEF UvOk, UvTyped
  <2>2. QED BY <1>1, <1>2, <1>4, <1>6, <2>1, UvEnds
<1>7. QED BY <1>5, <1>6

LEMMA UvDescribes ==
    ASSUME UvTyped, UvFollows, Uv!Describe
    PROVE  UvTyped' /\ UvFollows'
<1> DEFINE p == [keys |-> uvHeld.keys, locked |-> uvHeld.inactive, mode |-> uvHeld.mode]
<1>1. /\ uvThread[Poll].step = "describe" /\ UNCHANGED <<uvCam, uvFd, uvHeld, uvWrote, uvBeside>>
      /\ Uv!Over(Poll) /\ uvPage' = IF uvFd THEN p ELSE uvPage
  BY DEF Uv!Describe, Uv!At, Uv!Calm, Uv!Described
<1>2. Poll \in Uv!Threads /\ uvHeld \in UvHelds /\ uvPage \in UvPages
  BY DEF UvTyped, Uv!Threads
<1>3. p \in UvPages /\ p.keys = uvHeld.keys /\ p.locked = uvHeld.inactive /\ p.mode = uvHeld.mode
  BY <1>2 DEF UvHelds, UvPages
<1> HIDE DEF p
<1>4. /\ uvCam' \in UvCams /\ uvFd' \in BOOLEAN /\ uvHeld' \in UvHelds /\ uvPage' \in UvPages /\ uvWrote' \in UvBytes
      /\ uvBeside' = uvBeside /\ uvBeside' \in BOOLEAN
  BY <1>1, <1>2, <1>3 DEF UvTyped
<1>5. ~uvBeside' => UvAlone(Poll) /\ UvOk(Uv!Idle, uvCam', uvWrote', uvHeld', uvPage', uvFd')
  <2> SUFFICES ASSUME ~uvBeside PROVE UvAlone(Poll) /\ UvOk(Uv!Idle, uvCam', uvWrote', uvHeld', uvPage', uvFd')
    BY <1>4
  <2>1. UvAlone(Poll) /\ UvOk(uvThread[Poll], uvCam, uvWrote, uvHeld, uvPage, uvFd)
    BY <1>1, <1>2, UvActs
  <2>2. QED BY <1>1, <1>3, <2>1, UvIdleType DEF UvOk
<1>6. QED BY <1>1, <1>2, <1>4, <1>5, UvEnds

\* Another program opens the camera, and lets it go.
LEMMA UvOutside ==
    ASSUME UvTyped, UvFollows, Uv!Capture \/ Uv!Release
    PROVE  UvTyped' /\ UvFollows'
<1>1. UNCHANGED <<uvFd, uvHeld, uvPage, uvThread, uvWrote>>
  BY DEF Uv!Capture, Uv!Release
<1>2. uvCam \in UvCams
  BY DEF UvTyped
<1>3. ASSUME uvCam' \in UvCams, uvBeside' \in BOOLEAN,
             ~uvBeside' => ~uvBeside /\ uvCam'.bytes = uvCam.bytes /\ uvCam'.auto = uvCam.auto /\ uvCam'.fmt = uvCam.fmt
      PROVE  UvTyped' /\ UvFollows'
  <2>1. UvTyped'
    BY <1>1, <1>3 DEF UvTyped
  <2>2. UvFollows'
    BY <1>1, <1>3 DEF UvFollows, UvAlone, UvOk
  <2>3. QED BY <2>1, <2>2
<1>4. CASE Uv!Capture
  <2>1. PICK pix \in Uv!Formats : uvCam' = [uvCam EXCEPT !.busy = TRUE, !.fmt = Uv!Fitted([uvCam.fmt EXCEPT !.pix = pix])]
    BY <1>4 DEF Uv!Capture
  <2> DEFINE g == [uvCam.fmt EXCEPT !.pix = pix]  f == Uv!Fitted(g)
  <2>2. uvCam.fmt \in UvFormats
    BY <1>2 DEF UvCams
  <2>3. g \in [pix : Uv!Formats, size : {"small", "large"}]
    BY <2>2 DEF UvFormats
  <2>4. f \in UvFormats
    BY <2>3, UvFitted
  <2> HIDE DEF f, g
  <2>5. uvCam' = [uvCam EXCEPT !.busy = TRUE, !.fmt = f]
    BY <2>1 DEF f, g
  <2>6. uvCam' \in UvCams
    BY <1>2, <2>4, <2>5 DEF UvCams
  <2>7. uvBeside' = TRUE
    BY <1>4 DEF Uv!Capture, Uv!Stirs
  <2>8. QED BY <1>3, <2>6, <2>7
<1>5. CASE Uv!Release
  <2>1. uvCam' = [uvCam EXCEPT !.busy = FALSE] /\ uvBeside' = uvBeside
    BY <1>5 DEF Uv!Release, Uv!Calm
  <2>2. uvCam' \in UvCams /\ uvCam'.bytes = uvCam.bytes /\ uvCam'.auto = uvCam.auto /\ uvCam'.fmt = uvCam.fmt
    BY <1>2, <2>1 DEF UvCams
  <2>3. uvBeside' \in BOOLEAN
    BY <2>1 DEF UvTyped
  <2>4. QED BY <1>3, <2>1, <2>2, <2>3
<1>6. QED BY <1>4, <1>5

UvNext == Uv!Next \/ UNCHANGED uvVars

LEMMA UvKept ==
    ASSUME UvTyped, UvFollows, UvNext
    PROVE  UvTyped' /\ UvFollows'
<1>1. CASE UNCHANGED uvVars
  <2>1. UvTyped'
    BY <1>1 DEF uvVars, UvTyped
  <2>2. UvFollows'
    BY <1>1 DEF uvVars, UvFollows, UvAlone
  <2>3. QED BY <2>1, <2>2
<1>2. CASE Uv!Next
  <2>1. ASSUME NEW t \in UvWriters PROVE t \in Uv!Threads
    BY <2>1 DEF Uv!Threads
  <2>2. CASE \E t \in UvWriters : \E job \in Uv!Jobs : Uv!StartWrite(t, job)
    BY <2>1, <2>2, UvStarts
  <2>3. CASE \E t \in UvWriters : \/ Uv!NoDescriptor(t) \/ Uv!SetControl(t) \/ Uv!ReadByte(t) \/ Uv!PutByte(t)
                                  \/ Uv!Verify(t) \/ Uv!Prelude(t)
    BY <2>1, <2>3, UvRefusals, UvSetsControl, UvReadsByte, UvPutsByte, UvVerifies, UvPreludes
  <2>4. CASE \E t \in UvWriters : \/ Uv!Payload(t) \/ Uv!ReadFormat(t) \/ Uv!Apply(t) \/ Uv!Close(t) \/ Uv!Open(t)
                                  \/ Uv!Reload(t) \/ Uv!RefreshFlags(t)
    BY <2>1, <2>4, UvPayloads, UvReadsFormat, UvApplies, UvReopens, UvReloads, UvRefreshes
  <2>5. CASE Uv!StartPoll \/ Uv!ListControls \/ Uv!ListModes \/ Uv!Describe \/ Uv!Capture \/ Uv!Release
    BY <2>5, UvStartsPoll, UvLists, UvListsModes, UvDescribes, UvOutside
  <2>6. QED BY <1>2, <2>2, <2>3, <2>4, <2>5 DEF Uv!Next
<1>3. QED BY <1>1, <1>2 DEF UvNext

-----------------------------------------------------------------------------
(* RazerDevice. *)

RzHws == [dpi : Rz!Pairs, active : {1, 2}, stages : Seq(Rz!Pairs), macros : SUBSET Binds,
          effect : Rz!Effects \cup {"custom"}, colour : Rz!Colours]
RzDisks == [stages : Seq(Rz!Pairs) \cup {None}, macros : SUBSET Binds, auto : BOOLEAN]
RzPages == [lock : BOOLEAN, x : Dpis \cup {0}, y : Dpis \cup {0}, active : {0, 1, 2}, stages : Seq(Rz!Pairs),
            macros : SUBSET Binds, auto : BOOLEAN, effect : Rz!Effects \cup {None}, colour : Rz!Colours]

RzTyped ==
    /\ rzHw \in RzHws /\ rzDisk \in RzDisks /\ rzValues \in RzPages /\ rzShown \in RzPages
    /\ rzStages \in Seq(Rz!Pairs) /\ rzMacros \in SUBSET Binds
    /\ "dpi" \notin rzHas => rzStages = <<>>
    /\ rzOpen \in BOOLEAN
    /\ Dpis # {}

\* What is re-sent is what the mouse has, and the page lights up as the lamp does.
RzCurrent ==
    /\ rzOpen => rzValues.x \in Dpis /\ rzValues.y \in Dpis
    /\ rzOpen /\ "elsewhere" \notin rzSpoilt => rzValues.x = rzHw.dpi["x"] /\ rzValues.y = rzHw.dpi["y"]

RzLit ==
    rzSpoilt = {} =>
        /\ rzShown.effect = rzValues.effect /\ rzShown.colour = rzValues.colour
        /\ rzValues.effect # None =>
              /\ rzHw.effect = rzValues.effect
              /\ Rz!ColoursOf(rzHw.effect) > 0 => rzValues.colour = rzHw.colour

\* The rows of the page are of the stages and the macros last read.
RzRowed ==
    /\ rzOpen => \A i \in 1..2, a \in Rz!Axes : <<"stage", i, a>> \in rzRows => i <= Len(rzStages)
    /\ Rz!MacroRowsAreTrue

RzFollows == RzCurrent /\ RzLit /\ RzRowed

LEMMA RzTypedSuffices == RzTyped => Rz!TypeOK
<1> SUFFICES ASSUME RzTyped PROVE Rz!TypeOK
  OBVIOUS
<1>1. 1 \in 1..2 /\ 2 \in 1..2
  OBVIOUS
<1>2. QED BY <1>1 DEF RzTyped, Rz!TypeOK, RzHws, RzDisks, RzPages

LEMMA RzSuffices ==
    ASSUME RzTyped, RzFollows
    PROVE  Rz!MacroRowsAreTrue /\ Rz!LampIsAsShown
BY DEF RzFollows, RzLit, RzRowed, Rz!LampIsAsShown

LEMMA RzDefault ==
    ASSUME Dpis # {}
    PROVE  Rz!Default \in Seq(Rz!Pairs) /\ Len(Rz!Default) = 2
<1> DEFINE d == CHOOSE d \in Dpis : TRUE  p == [a \in Rz!Axes |-> d]
<1>1. d \in Dpis
  OBVIOUS
<1> HIDE DEF d
<1>2. p \in Rz!Pairs
  BY <1>1 DEF Rz!Pairs
<1> HIDE DEF p
<1>3. <<p, p>> \in Seq(Rz!Pairs) /\ Len(<<p, p>>) = 2
  BY <1>2
<1>4. QED BY <1>3 DEF Rz!Default, p, d

LEMMA RzInit == Rz!Init => RzTyped /\ RzFollows
<1> SUFFICES ASSUME Rz!Init PROVE RzTyped /\ RzFollows
  OBVIOUS
<1>1. PICK d \in Dpis, e \in {"static", "custom"} :
        rzHw = [dpi |-> [a \in Rz!Axes |-> d], active |-> 1, stages |-> Rz!Default, macros |-> {}, effect |-> e, colour |-> 0]
  BY DEF Rz!Init
<1>2. /\ rzDisk.stages = None /\ rzDisk \in RzDisks
      /\ rzOpen = FALSE /\ rzStages = <<>> /\ rzMacros = {} /\ rzRows = {}
      /\ rzValues = [lock |-> FALSE, x |-> 0, y |-> 0, active |-> 0, stages |-> <<>>, macros |-> {},
                     auto |-> FALSE, effect |-> None, colour |-> 0]
      /\ rzShown = rzValues
  BY DEF Rz!Init, RzDisks
<1>3. rzStages \in Seq(Rz!Pairs) /\ <<>> \in Seq(Rz!Pairs)
  BY <1>2
<1> DEFINE p == [a \in Rz!Axes |-> d]  s == Rz!Default
<1>4. p \in Rz!Pairs /\ s \in Seq(Rz!Pairs)
  BY RzDefault DEF Rz!Pairs
<1>5. rzHw = [dpi |-> p, active |-> 1, stages |-> s, macros |-> {}, effect |-> e, colour |-> 0]
  BY <1>1
<1> HIDE DEF p, s
<1>6. rzHw \in RzHws
  BY <1>4, <1>5 DEF RzHws, Rz!Colours, Rz!Effects
<1> DEFINE none == <<>>
<1>7. rzValues = [lock |-> FALSE, x |-> 0, y |-> 0, active |-> 0, stages |-> none, macros |-> {},
                  auto |-> FALSE, effect |-> None, colour |-> 0] /\ none \in Seq(Rz!Pairs)
  BY <1>2, <1>3
<1> HIDE DEF none
<1>8. rzValues \in RzPages /\ rzValues.effect = None
  BY <1>7 DEF RzPages, Rz!Colours
<1>9. RzTyped
  BY <1>2, <1>3, <1>6, <1>8 DEF RzTyped
<1>10. RzFollows
  BY <1>2, <1>8 DEF RzFollows, RzCurrent, RzLit, RzRowed, Rz!MacroRowsAreTrue
<1>11. QED BY <1>9, <1>10

-----------------------------------------------------------------------------

\* Reading the device.
LEMMA RzReads ==
    ASSUME NEW v \in RzPages, NEW stages \in Seq(Rz!Pairs), NEW macros \in SUBSET Binds,
           rzHw' \in RzHws, rzDisk' \in RzDisks
    PROVE  LET w == Rz!ReadValues(v, stages, macros) IN
           /\ w \in RzPages
           /\ w.x = rzHw'.dpi["x"] /\ w.y = rzHw'.dpi["y"] /\ w.x \in Dpis /\ w.y \in Dpis
           /\ w.effect = IF rzHw'.effect \in Rz!Effects THEN rzHw'.effect ELSE v.effect
           /\ w.colour = rzHw'.colour
<1> DEFINE x == rzHw'.dpi["x"]  y == rzHw'.dpi["y"]
           e == IF Rz!Known(rzHw'.effect) THEN rzHw'.effect ELSE v.effect
           act == rzHw'.active  auto == rzDisk'.auto  c == rzHw'.colour  lock == x = y
           w == [v EXCEPT !.lock = lock, !.x = x, !.y = y, !.active = act, !.stages = stages, !.macros = macros,
                          !.auto = auto, !.effect = e, !.colour = c]
<1>1. w = Rz!ReadValues(v, stages, macros)
  BY DEF Rz!ReadValues
<1>2. x \in Dpis /\ y \in Dpis
  <2>1. rzHw'.dpi \in [{"x", "y"} -> Dpis]
    BY DEF RzHws, Rz!Pairs, Rz!Axes
  <2>2. QED BY <2>1
<1>3. e \in Rz!Effects \cup {None} /\ act \in {0, 1, 2} /\ auto \in BOOLEAN /\ c \in Rz!Colours /\ lock \in BOOLEAN
  BY DEF RzHws, RzDisks, RzPages, Rz!Known
<1>4. e = IF rzHw'.effect \in Rz!Effects THEN rzHw'.effect ELSE v.effect
  BY DEF Rz!Known
<1> HIDE DEF x, y, e, act, auto, c, lock
<1> DEFINE w1 == [v EXCEPT !.lock = lock, !.x = x, !.y = y]
           w2 == [w1 EXCEPT !.active = act, !.stages = stages, !.macros = macros]
           w3 == [w2 EXCEPT !.auto = auto, !.effect = e, !.colour = c]
<1>5. w = w3
  OBVIOUS
<1>6. w1 \in RzPages /\ w1.x = x /\ w1.y = y
  BY <1>2, <1>3 DEF RzPages
<1> HIDE DEF w1, w
<1>7. w2 \in RzPages /\ w2.x = x /\ w2.y = y
  BY <1>3, <1>6 DEF RzPages
<1> HIDE DEF w2
<1>8. w3 \in RzPages /\ w3.x = x /\ w3.y = y /\ w3.effect = e /\ w3.colour = c
  BY <1>3, <1>7 DEF RzPages
<1>9. QED BY <1>1, <1>2, <1>4, <1>5, <1>8 DEF x, y, c

\* The rows of a page that has just been built.
LEMMA RzStageRows ==
    ASSUME NEW stages \in Seq(Rz!Pairs), NEW macros, NEW i \in 1..2, NEW a \in Rz!Axes,
           <<"stage", i, a>> \in Rz!Rows(stages, macros)
    PROVE  i <= Len(stages)
<1> DEFINE n == Len(stages)  row == <<"stage", i, a>>
<1>1. n \in Nat
  OBVIOUS
<1>2. row \notin Rz!DeviceRows
  BY DEF Rz!DeviceRows
<1>3. row \notin Rz!MacroRows(macros)
  BY DEF Rz!MacroRows
<1>4. row \notin Rz!ZoneRows
  BY DEF Rz!ZoneRows
<1> HIDE DEF n
<1>5. row \in Rz!StageRows(n)
  BY <1>2, <1>3, <1>4 DEF Rz!Rows, n
<1>6. n # 0 /\ row \in {<<"stage", j, b>> : j \in 1..n, b \in Rz!Axes}
  BY <1>5 DEF Rz!StageRows
<1>7. PICK j \in 1..n, b \in Rz!Axes : row = <<"stage", j, b>>
  BY <1>6
<1>8. i = j
  BY <1>7
<1>9. QED BY <1>1, <1>8 DEF n

LEMMA RzMacroRows ==
    ASSUME NEW stages \in Seq(Rz!Pairs), NEW macros \in SUBSET Binds, "macro_logic" \in rzHas
    PROVE  /\ <<"restore">> \in Rz!Rows(stages, macros) <=> rzDisk'.macros # {}
           /\ \A b \in Binds : <<"delete", b>> \in Rz!Rows(stages, macros) <=> b \in macros
<1> DEFINE n == Len(stages)
<1>1. ASSUME NEW row \in {<<"restore">>} \cup {<<"delete", b>> : b \in Binds}
      PROVE  row \in Rz!Rows(stages, macros) <=> row \in Rz!MacroRows(macros)
  <2>1. row \notin Rz!DeviceRows
    BY DEF Rz!DeviceRows
  <2>2. row \notin Rz!ZoneRows
    BY DEF Rz!ZoneRows
  <2>3. row \notin Rz!StageRows(n)
    BY DEF Rz!StageRows
  <2>4. QED BY <2>1, <2>2, <2>3 DEF Rz!Rows
<1>2. <<"restore">> \in Rz!MacroRows(macros) <=> rzDisk'.macros # {}
  BY DEF Rz!MacroRows
<1>3. ASSUME NEW b \in Binds PROVE <<"delete", b>> \in Rz!MacroRows(macros) <=> b \in macros
  BY DEF Rz!MacroRows
<1>4. QED BY <1>1, <1>2, <1>3

\* A rebuild puts up what the device and the disk hold then.
LEMMA RzRebuilds ==
    ASSUME RzTyped, RzFollows, NEW macros \in SUBSET Binds, Rz!Rebuild(macros), rzHas' = rzHas,
           rzHw' \in RzHws, rzDisk' \in RzDisks, rzOpen' = TRUE,
           rzHw'.effect = rzHw.effect, rzHw'.colour = rzHw.colour, rzSpoilt \subseteq rzSpoilt'
    PROVE  RzTyped' /\ RzFollows'
<1> DEFINE v == rzValues  s == rzStages'  w == Rz!ReadValues(v, s, macros)
<1>1. /\ rzMacros' = macros /\ s = Rz!LoadStages /\ rzRows' = Rz!Rows(s, macros)
      /\ rzValues' = w /\ rzShown' = rzValues'
  BY DEF Rz!Rebuild
<1>2. v \in RzPages /\ Dpis # {}
  BY DEF RzTyped
<1>3. s \in Seq(Rz!Pairs) /\ ("dpi" \notin rzHas => s = <<>>)
  <2>1. rzDisk'.stages \in Seq(Rz!Pairs) \cup {None}
    BY DEF RzDisks
  <2>2. CASE "dpi" \notin rzHas
    BY <1>1, <2>2 DEF Rz!LoadStages
  <2>3. CASE "dpi" \in rzHas
    BY <1>1, <1>2, <2>1, <2>3, RzDefault DEF Rz!LoadStages
  <2>4. QED BY <2>2, <2>3
<1> HIDE DEF s, v
<1>4. /\ w \in RzPages /\ w.x = rzHw'.dpi["x"] /\ w.y = rzHw'.dpi["y"] /\ w.x \in Dpis /\ w.y \in Dpis
      /\ w.effect = (IF rzHw'.effect \in Rz!Effects THEN rzHw'.effect ELSE v.effect)
      /\ w.colour = rzHw'.colour
  BY <1>2, <1>3, RzReads
<1> HIDE DEF w
<1>5. RzTyped'
  BY <1>1, <1>2, <1>3, <1>4 DEF RzTyped, s
<1>6. RzCurrent'
  BY <1>1, <1>4 DEF RzCurrent
<1>7. RzLit'
  <2> SUFFICES ASSUME rzSpoilt' = {}, rzValues'.effect # None
               PROVE  rzHw'.effect = rzValues'.effect
    BY <1>1, <1>4 DEF RzLit
  <2>1. rzSpoilt = {}
    OBVIOUS
  <2>2. CASE rzHw'.effect \in Rz!Effects
    BY <1>1, <1>4, <2>2
  <2>3. CASE rzHw'.effect \notin Rz!Effects
    BY <1>1, <1>4, <2>1, <2>3 DEF RzFollows, RzLit, v
  <2>4. QED BY <2>2, <2>3
<1>8. ASSUME NEW i \in 1..2, NEW a \in Rz!Axes, <<"stage", i, a>> \in rzRows' PROVE i <= Len(s)
  BY <1>1, <1>3, <1>8, RzStageRows
<1>9. ASSUME "macro_logic" \in rzHas
      PROVE  /\ <<"restore">> \in rzRows' <=> rzDisk'.macros # {}
             /\ \A b \in Binds : <<"delete", b>> \in rzRows' <=> b \in macros
  BY <1>1, <1>3, <1>9, RzMacroRows
<1>10. RzRowed'
  BY <1>1, <1>8, <1>9 DEF RzRowed, Rz!MacroRowsAreTrue, s
<1>11. QED BY <1>5, <1>6, <1>7, <1>10 DEF RzFollows

\* A step without a rebuild.
LEMMA RzSteps ==
    ASSUME RzTyped, RzFollows, Rz!Keep, rzHas' = rzHas,
           rzHw' \in RzHws, rzDisk' \in RzDisks, rzValues' \in RzPages, rzShown' \in RzPages,
           rzOpen' \in BOOLEAN, rzOpen' => rzOpen, rzDisk'.macros = rzDisk.macros, rzSpoilt \subseteq rzSpoilt',
           RzCurrent', RzLit'
    PROVE  RzTyped' /\ RzFollows'
<1>1. rzStages' = rzStages /\ rzMacros' = rzMacros /\ rzRows' = rzRows
  BY DEF Rz!Keep
<1>2. RzTyped'
  BY <1>1 DEF RzTyped
<1>3. RzRowed'
  BY <1>1 DEF RzFollows, RzRowed, Rz!MacroRowsAreTrue
<1>4. QED BY <1>2, <1>3 DEF RzFollows

\* The lamp is not what the step is about.
LEMMA RzUnlit ==
    ASSUME RzFollows, rzSpoilt \subseteq rzSpoilt',
           rzHw'.effect = rzHw.effect, rzHw'.colour = rzHw.colour,
           rzValues'.effect = rzValues.effect, rzValues'.colour = rzValues.colour,
           rzShown'.effect = rzShown.effect, rzShown'.colour = rzShown.colour
    PROVE  RzLit'
<1>1. rzSpoilt' = {} => rzSpoilt = {}
  OBVIOUS
<1>2. QED BY <1>1 DEF RzFollows, RzLit

LEMMA RzConnects ==
    ASSUME RzTyped, RzFollows, Rz!Connect
    PROVE  RzTyped' /\ RzFollows'
<1> DEFINE m == Rz!RestoredAtConnect  h == [rzHw EXCEPT !.macros = m]
<1>1. rzOpen' = TRUE /\ rzHw' = h /\ UNCHANGED <<rzHas, rzDisk, rzSpoilt>> /\ Rz!Rebuild(m)
  BY DEF Rz!Connect
<1>2. rzHw \in RzHws /\ rzDisk \in RzDisks
  BY DEF RzTyped
<1>3. m \in SUBSET Binds
  BY <1>2 DEF Rz!RestoredAtConnect, RzHws, RzDisks
<1> HIDE DEF m
<1>4. h \in RzHws /\ h.effect = rzHw.effect /\ h.colour = rzHw.colour
  BY <1>2, <1>3 DEF RzHws
<1>5. QED BY <1>1, <1>2, <1>3, <1>4, RzRebuilds

LEMMA RzDisconnects ==
    ASSUME RzTyped, RzFollows, Rz!Disconnect
    PROVE  RzTyped' /\ RzFollows'
<1>1. /\ rzOpen' = FALSE /\ Rz!Keep /\ UNCHANGED <<rzHas, rzHw, rzDisk, rzValues, rzShown, rzSpoilt>>
  BY DEF Rz!Disconnect
<1>2. rzHw' \in RzHws /\ rzDisk' \in RzDisks /\ rzValues' \in RzPages /\ rzShown' \in RzPages
  BY <1>1 DEF RzTyped
<1>3. RzCurrent' /\ RzLit'
  BY <1>1, RzUnlit DEF RzCurrent
<1>4. QED BY <1>1, <1>2, <1>3, RzSteps

LEMMA RzRefreshes ==
    ASSUME RzTyped, RzFollows, Rz!Refresh
    PROVE  RzTyped' /\ RzFollows'
<1> DEFINE v == rzValues  s == rzStages  m == rzMacros  w == Rz!ReadValues(v, s, m)
           g(f) == IF rzValues'[f] # rzValues[f] THEN rzValues'[f] ELSE rzShown[f]
           sh == [f \in DOMAIN rzShown |-> g(f)]
<1>1. /\ rzOpen /\ UNCHANGED <<rzHw, rzDisk, rzHas, rzOpen, rzSpoilt>> /\ rzValues' = w /\ Rz!Keep /\ rzShown' = sh
  BY DEF Rz!Refresh
<1>2. /\ v \in RzPages /\ s \in Seq(Rz!Pairs) /\ m \in SUBSET Binds /\ rzHw' \in RzHws /\ rzDisk' \in RzDisks
      /\ rzShown \in RzPages
  BY <1>1 DEF RzTyped
<1> HIDE DEF v, s, m
<1>3. /\ w \in RzPages /\ w.x = rzHw'.dpi["x"] /\ w.y = rzHw'.dpi["y"] /\ w.x \in Dpis /\ w.y \in Dpis
      /\ w.effect = (IF rzHw'.effect \in Rz!Effects THEN rzHw'.effect ELSE v.effect)
      /\ w.colour = rzHw'.colour
  BY <1>2, RzReads
<1> HIDE DEF w
<1>4. rzValues' \in RzPages
  BY <1>1, <1>3
<1>5. DOMAIN rzShown = {"lock", "x", "y", "active", "stages", "macros", "auto", "effect", "colour"}
  BY <1>2 DEF RzPages
<1>6. sh = [lock |-> g("lock"), x |-> g("x"), y |-> g("y"), active |-> g("active"), stages |-> g("stages"),
            macros |-> g("macros"), auto |-> g("auto"), effect |-> g("effect"), colour |-> g("colour")]
  BY <1>5
<1>7. /\ g("lock") \in BOOLEAN /\ g("x") \in Dpis \cup {0} /\ g("y") \in Dpis \cup {0} /\ g("active") \in {0, 1, 2}
      /\ g("stages") \in Seq(Rz!Pairs) /\ g("macros") \in SUBSET Binds /\ g("auto") \in BOOLEAN
      /\ g("effect") \in Rz!Effects \cup {None} /\ g("colour") \in Rz!Colours
  BY <1>2, <1>4 DEF RzPages
<1> HIDE DEF g
<1>8. sh \in RzPages /\ sh.effect = g("effect") /\ sh.colour = g("colour")
  BY <1>6, <1>7 DEF RzPages
<1> HIDE DEF sh
<1>9. RzCurrent'
  BY <1>1, <1>3 DEF RzCurrent
<1>10. RzLit'
  <2> SUFFICES ASSUME rzSpoilt = {} PROVE RzLit'
    BY <1>1 DEF RzLit
  <2>1. rzShown.effect = rzValues.effect /\ rzShown.colour = rzValues.colour
    BY DEF RzFollows, RzLit
  <2>2. g("effect") = rzValues'.effect /\ g("colour") = rzValues'.colour
    BY <2>1 DEF g
  <2>3. rzValues'.effect # None => rzHw'.effect = rzValues'.effect
    BY <1>1, <1>3 DEF RzFollows, RzLit, v
  <2>4. QED BY <1>1, <1>3, <1>8, <2>2, <2>3 DEF RzLit
<1>11. rzShown' \in RzPages
  BY <1>1, <1>8
<1>12. rzOpen' \in BOOLEAN
  BY <1>1 DEF RzTyped
<1>13. QED BY <1>1, <1>2, <1>4, <1>9, <1>10, <1>11, <1>12, RzSteps

-----------------------------------------------------------------------------

\* An operation of the page: the device is open.
LEMMA RzOperates ==
    ASSUME NEW row, Rz!Operation(row)
    PROVE  rzOpen /\ rzOpen' = rzOpen /\ rzHas' = rzHas /\ row \in rzRows
BY DEF Rz!Operation, Rz!Enabled

\* What goes out when one axis is moved.
LEMMA RzPair ==
    ASSUME RzTyped, RzFollows, rzOpen, NEW axis \in Rz!Axes, NEW v \in Dpis
    PROVE  Rz!PairToWrite(axis, v) \in Rz!Pairs
<1>1. rzValues.x \in Dpis /\ rzValues.y \in Dpis
  BY DEF RzFollows, RzCurrent
<1>2. \A a \in Rz!Axes : rzValues[a] \in Dpis
  BY <1>1 DEF Rz!Axes
<1>3. QED BY <1>2 DEF Rz!PairToWrite, Rz!Pairs

\* The pair the device gets is what the module then holds.
LEMMA RzSetsDpi ==
    ASSUME RzTyped, RzFollows, rzOpen, rzOpen' = rzOpen, rzHas' = rzHas, Rz!Keep, UNCHANGED <<rzDisk, rzSpoilt>>,
           NEW p \in Rz!Pairs, rzHw' = [rzHw EXCEPT !.dpi = p],
           rzValues' \in RzPages, rzValues'.x = p["x"], rzValues'.y = p["y"],
           rzValues'.effect = rzValues.effect, rzValues'.colour = rzValues.colour,
           rzShown' \in RzPages, rzShown'.effect = rzShown.effect, rzShown'.colour = rzShown.colour
    PROVE  RzTyped' /\ RzFollows'
<1>1. rzHw \in RzHws /\ rzDisk' \in RzDisks
  BY DEF RzTyped
<1>2. rzHw' \in RzHws /\ rzHw'.dpi = p /\ rzHw'.effect = rzHw.effect /\ rzHw'.colour = rzHw.colour
  BY <1>1 DEF RzHws
<1>3. p["x"] \in Dpis /\ p["y"] \in Dpis
  BY DEF Rz!Pairs, Rz!Axes
<1>4. RzCurrent'
  BY <1>2, <1>3 DEF RzCurrent
<1>5. RzLit'
  BY <1>2, RzUnlit
<1>6. rzOpen' \in BOOLEAN
  BY DEF RzTyped
<1>7. QED BY <1>1, <1>2, <1>4, <1>5, <1>6, RzSteps

LEMMA RzWritesDpi ==
    ASSUME RzTyped, RzFollows, NEW axis \in Rz!Axes, NEW v \in Dpis, Rz!WriteDpi(axis, v)
    PROVE  RzTyped' /\ RzFollows'
<1> DEFINE p == Rz!PairToWrite(axis, v)
           w == [rzValues EXCEPT !.x = p["x"], !.y = p["y"]]  sh == [rzShown EXCEPT ![axis] = v]
<1>1. rzOpen /\ rzOpen' = rzOpen /\ rzHas' = rzHas
  BY RzOperates DEF Rz!WriteDpi
<1>2. p \in Rz!Pairs
  BY <1>1, RzPair
<1>3. /\ rzHw' = [rzHw EXCEPT !.dpi = p] /\ rzShown' = sh /\ Rz!Keep /\ UNCHANGED <<rzDisk, rzSpoilt>>
      /\ rzValues' = [rzValues EXCEPT !.x = rzHw'.dpi["x"], !.y = rzHw'.dpi["y"]]
  BY DEF Rz!WriteDpi
<1> HIDE DEF p
<1>4. rzHw \in RzHws /\ rzValues \in RzPages /\ rzShown \in RzPages
  BY DEF RzTyped
<1>5. rzHw'.dpi = p
  BY <1>3, <1>4 DEF RzHws
<1>6. rzValues' = w
  BY <1>3, <1>5
<1>7. p["x"] \in Dpis /\ p["y"] \in Dpis
  BY <1>2 DEF Rz!Pairs, Rz!Axes
<1>8. w \in RzPages /\ w.x = p["x"] /\ w.y = p["y"] /\ w.effect = rzValues.effect /\ w.colour = rzValues.colour
  BY <1>4, <1>7 DEF RzPages
<1>9. sh \in RzPages /\ sh.effect = rzShown.effect /\ sh.colour = rzShown.colour
  <2>1. CASE axis = "x"
    BY <1>4, <2>1 DEF RzPages
  <2>2. CASE axis = "y"
    BY <1>4, <2>2 DEF RzPages
  <2>3. QED BY <2>1, <2>2 DEF Rz!Axes
<1> HIDE DEF w, sh
<1>10. QED BY <1>1, <1>2, <1>3, <1>6, <1>8, <1>9, RzSetsDpi

LEMMA RzWritesLock ==
    ASSUME RzTyped, RzFollows, NEW on \in BOOLEAN, Rz!WriteLock(on)
    PROVE  RzTyped' /\ RzFollows'
<1> DEFINE p == IF on THEN [a \in Rz!Axes |-> rzValues.x] ELSE rzHw.dpi
           x == IF on THEN rzHw'.dpi["x"] ELSE rzValues.x  y == IF on THEN rzHw'.dpi["y"] ELSE rzValues.y
           w == [rzValues EXCEPT !.lock = on, !.x = x, !.y = y]  sh == [rzShown EXCEPT !.lock = on]
<1>1. rzOpen /\ rzOpen' = rzOpen /\ rzHas' = rzHas
  BY RzOperates DEF Rz!WriteLock
<1>2. /\ rzHw' = [rzHw EXCEPT !.dpi = p] /\ rzShown' = sh /\ Rz!Keep /\ UNCHANGED <<rzDisk, rzSpoilt>>
      /\ rzValues' = w
  BY DEF Rz!WriteLock
<1>3. /\ rzHw \in RzHws /\ rzValues \in RzPages /\ rzShown \in RzPages /\ rzDisk' \in RzDisks /\ rzOpen' \in BOOLEAN
      /\ rzValues.x \in Dpis /\ rzValues.y \in Dpis
  BY <1>1, <1>2 DEF RzTyped, RzFollows, RzCurrent
<1>4. p \in Rz!Pairs /\ (on => p["x"] = rzValues.x /\ p["y"] = rzValues.x) /\ (~on => p = rzHw.dpi)
  BY <1>3 DEF Rz!Pairs, RzHws, Rz!Axes
<1> HIDE DEF p
<1>5. rzHw' \in RzHws /\ rzHw'.dpi = p /\ rzHw'.effect = rzHw.effect /\ rzHw'.colour = rzHw.colour
  BY <1>2, <1>3, <1>4 DEF RzHws
<1>6. /\ x \in Dpis /\ y \in Dpis /\ (on => x = rzHw'.dpi["x"] /\ y = rzHw'.dpi["y"])
      /\ (~on => x = rzValues.x /\ y = rzValues.y)
  BY <1>3, <1>4, <1>5
<1> HIDE DEF x, y
<1>7. w \in RzPages /\ w.x = x /\ w.y = y /\ w.effect = rzValues.effect /\ w.colour = rzValues.colour
  BY <1>3, <1>6 DEF RzPages
<1>8. sh \in RzPages /\ sh.effect = rzShown.effect /\ sh.colour = rzShown.colour
  BY <1>3 DEF RzPages
<1> HIDE DEF w, sh
<1>9. RzCurrent'
  BY <1>1, <1>2, <1>4, <1>5, <1>6, <1>7 DEF RzFollows, RzCurrent
<1>10. RzLit'
  BY <1>2, <1>5, <1>7, <1>8, RzUnlit
<1>11. rzDisk'.macros = rzDisk.macros
  BY <1>2
<1>12. QED BY <1>1, <1>2, <1>3, <1>5, <1>7, <1>8, <1>9, <1>10, <1>11, RzSteps

\* The stage that is edited is one of those last read.
LEMMA RzEdited ==
    ASSUME RzTyped, RzFollows, NEW i \in 1..2, NEW axis \in Rz!Axes, NEW v \in Dpis, Rz!EditStage(i, axis, v)
    PROVE  LET s == [rzStages EXCEPT ![i][axis] = v] IN
           /\ i \in DOMAIN rzStages /\ "dpi" \in rzHas
           /\ s \in Seq(Rz!Pairs) /\ s[i][axis] = v
<1> DEFINE p == [rzStages[i] EXCEPT ![axis] = v]  s == [rzStages EXCEPT ![i] = p]
<1>1. rzOpen /\ <<"stage", i, axis>> \in rzRows
  BY RzOperates DEF Rz!EditStage
<1>2. i <= Len(rzStages) /\ rzStages \in Seq(Rz!Pairs)
  BY <1>1 DEF RzFollows, RzRowed, RzTyped
<1>3. i \in DOMAIN rzStages /\ rzStages[i] \in Rz!Pairs /\ rzStages # <<>>
  BY <1>2
<1>4. p \in Rz!Pairs /\ p[axis] = v
  BY <1>3 DEF Rz!Pairs
<1> HIDE DEF p
<1>5. s \in Seq(Rz!Pairs) /\ s[i] = p
  BY <1>2, <1>3, <1>4
<1>6. "dpi" \in rzHas
  BY <1>3 DEF RzTyped
<1>7. QED BY <1>3, <1>4, <1>5, <1>6 DEF p

LEMMA RzEdits ==
    ASSUME RzTyped, RzFollows, NEW i \in 1..2, NEW axis \in Rz!Axes, NEW v \in Dpis, Rz!EditStage(i, axis, v)
    PROVE  RzTyped' /\ RzFollows'
<1> DEFINE s == [rzStages EXCEPT ![i][axis] = v]
<1>1. rzOpen /\ rzOpen' = rzOpen /\ rzHas' = rzHas
  BY RzOperates DEF Rz!EditStage
<1>2. /\ rzDisk' = [rzDisk EXCEPT !.stages = s] \/ rzDisk' = rzDisk
      /\ rzSpoilt \subseteq rzSpoilt' /\ rzHw' = rzHw /\ Rz!Rebuild(rzMacros)
  BY DEF Rz!EditStage, Rz!SaveStages
<1>3. s \in Seq(Rz!Pairs)
  BY RzEdited
<1> HIDE DEF s
<1>4. rzHw' \in RzHws /\ rzDisk \in RzDisks /\ rzMacros \in SUBSET Binds
  BY <1>2 DEF RzTyped
<1>5. rzDisk' \in RzDisks
  BY <1>2, <1>3, <1>4 DEF RzDisks
<1>6. rzHw'.effect = rzHw.effect /\ rzHw'.colour = rzHw.colour /\ rzOpen' = TRUE
  BY <1>1, <1>2 DEF RzTyped
<1>7. QED BY <1>1, <1>2, <1>4, <1>5, <1>6, RzRebuilds

LEMMA RzApplies ==
    ASSUME RzTyped, RzFollows, NEW i, Rz!ApplyStage(i)
    PROVE  RzTyped' /\ RzFollows'
<1> DEFINE p == rzStages[i]  w == [rzValues EXCEPT !.x = p["x"], !.y = p["y"]]
<1>1. rzOpen /\ rzOpen' = rzOpen /\ rzHas' = rzHas
  BY RzOperates DEF Rz!ApplyStage
<1>2. /\ i \in DOMAIN rzStages /\ rzHw' = [rzHw EXCEPT !.dpi = p] /\ rzValues' = w
      /\ Rz!Keep /\ UNCHANGED <<rzDisk, rzShown, rzSpoilt>>
  BY DEF Rz!ApplyStage
<1>3. p \in Rz!Pairs /\ rzValues \in RzPages /\ rzShown' \in RzPages
  BY <1>2 DEF RzTyped
<1> HIDE DEF p
<1>4. p["x"] \in Dpis /\ p["y"] \in Dpis
  BY <1>3 DEF Rz!Pairs, Rz!Axes
<1>5. w \in RzPages /\ w.x = p["x"] /\ w.y = p["y"] /\ w.effect = rzValues.effect /\ w.colour = rzValues.colour
  BY <1>3, <1>4 DEF RzPages
<1> HIDE DEF w
<1>6. rzShown'.effect = rzShown.effect /\ rzShown'.colour = rzShown.colour
  BY <1>2
<1>7. QED BY <1>1, <1>2, <1>3, <1>5, <1>6, RzSetsDpi

\* What leaves the axes and the lamp alone.
LEMMA RzAside ==
    ASSUME RzTyped, RzFollows, rzOpen' = rzOpen, rzHas' = rzHas, Rz!Keep, rzSpoilt \subseteq rzSpoilt',
           rzHw' \in RzHws, rzHw'.dpi = rzHw.dpi, rzHw'.effect = rzHw.effect, rzHw'.colour = rzHw.colour,
           rzDisk' \in RzDisks, rzDisk'.macros = rzDisk.macros,
           rzValues' \in RzPages, rzValues'.x = rzValues.x, rzValues'.y = rzValues.y,
           rzValues'.effect = rzValues.effect, rzValues'.colour = rzValues.colour,
           rzShown' \in RzPages, rzShown'.effect = rzShown.effect, rzShown'.colour = rzShown.colour
    PROVE  RzTyped' /\ RzFollows'
<1>1. RzCurrent'
  BY DEF RzFollows, RzCurrent
<1>2. RzLit'
  BY RzUnlit
<1>3. rzOpen' \in BOOLEAN
  BY DEF RzTyped
<1>4. QED BY <1>1, <1>2, <1>3, RzSteps

LEMMA RzAsides ==
    ASSUME RzTyped, RzFollows,
           Rz!SyncStages \/ (\E i \in 1..2 : Rz!WriteDpiStage(i)) \/ (\E on \in BOOLEAN : Rz!SetAutorestore(on))
           \/ Rz!DaemonRestarts
    PROVE  RzTyped' /\ RzFollows'
<1>1. rzHw \in RzHws /\ rzDisk \in RzDisks /\ rzValues \in RzPages /\ rzShown \in RzPages /\ rzStages \in Seq(Rz!Pairs)
  BY DEF RzTyped
<1>2. CASE Rz!SyncStages
  <2>1. /\ rzHw' = [rzHw EXCEPT !.stages = rzStages, !.active = 1] /\ rzOpen' = rzOpen /\ rzHas' = rzHas
        /\ Rz!Keep /\ UNCHANGED <<rzDisk, rzValues, rzShown, rzSpoilt>>
    BY <1>2, RzOperates DEF Rz!SyncStages
  <2>2. rzHw' \in RzHws /\ rzHw'.dpi = rzHw.dpi /\ rzHw'.effect = rzHw.effect /\ rzHw'.colour = rzHw.colour
    BY <1>1, <2>1 DEF RzHws
  <2>3. QED BY <1>1, <2>1, <2>2, RzAside
<1>3. CASE \E i \in 1..2 : Rz!WriteDpiStage(i)
  <2> PICK i \in 1..2 : Rz!WriteDpiStage(i)
    BY <1>3
  <2>1. /\ rzHw' = [rzHw EXCEPT !.active = i] /\ rzShown' = [rzShown EXCEPT !.active = i] /\ rzOpen' = rzOpen
        /\ rzHas' = rzHas /\ Rz!Keep /\ UNCHANGED <<rzDisk, rzValues, rzSpoilt>>
    BY RzOperates DEF Rz!WriteDpiStage
  <2>2. i \in {1, 2} /\ i \in {0, 1, 2}
    OBVIOUS
  <2>3. rzHw' \in RzHws /\ rzHw'.dpi = rzHw.dpi /\ rzHw'.effect = rzHw.effect /\ rzHw'.colour = rzHw.colour
    BY <1>1, <2>1, <2>2 DEF RzHws
  <2>4. rzShown' \in RzPages /\ rzShown'.effect = rzShown.effect /\ rzShown'.colour = rzShown.colour
    BY <1>1, <2>1, <2>2 DEF RzPages
  <2>5. QED BY <1>1, <2>1, <2>3, <2>4, RzAside
<1>4. CASE \E on \in BOOLEAN : Rz!SetAutorestore(on)
  <2> PICK on \in BOOLEAN : Rz!SetAutorestore(on)
    BY <1>4
  <2>1. /\ rzDisk' = [rzDisk EXCEPT !.auto = on] /\ rzValues' = [rzValues EXCEPT !.auto = on]
        /\ rzShown' = [rzShown EXCEPT !.auto = on] /\ rzOpen' = rzOpen
        /\ rzHas' = rzHas /\ Rz!Keep /\ UNCHANGED <<rzHw, rzSpoilt>>
    BY RzOperates DEF Rz!SetAutorestore
  <2>2. rzDisk' \in RzDisks /\ rzDisk'.macros = rzDisk.macros
    BY <1>1, <2>1 DEF RzDisks
  <2>3. rzShown' \in RzPages /\ rzShown'.effect = rzShown.effect /\ rzShown'.colour = rzShown.colour
    BY <1>1, <2>1 DEF RzPages
  <2>4. rzValues' \in RzPages /\ rzValues'.effect = rzValues.effect /\ rzValues'.colour = rzValues.colour
        /\ rzValues'.x = rzValues.x /\ rzValues'.y = rzValues.y
    BY <1>1, <2>1 DEF RzPages
  <2>5. QED BY <1>1, <2>1, <2>2, <2>3, <2>4, RzAside
<1>5. CASE Rz!DaemonRestarts
  <2>1. /\ rzHw' = [rzHw EXCEPT !.macros = {}] /\ Rz!Keep
        /\ UNCHANGED <<rzHas, rzDisk, rzOpen, rzValues, rzShown, rzSpoilt>>
    BY <1>5 DEF Rz!DaemonRestarts
  <2>2. rzHw' \in RzHws /\ rzHw'.dpi = rzHw.dpi /\ rzHw'.effect = rzHw.effect /\ rzHw'.colour = rzHw.colour
    BY <1>1, <2>1 DEF RzHws
  <2>3. QED BY <1>1, <2>1, <2>2, RzAside
<1>6. QED BY <1>2, <1>3, <1>4, <1>5

LEMMA RzReloads ==
    ASSUME RzTyped, RzFollows, NEW row, NEW macros \in SUBSET Binds, Rz!Reload(row, macros)
    PROVE  RzTyped' /\ RzFollows'
<1>1. rzOpen /\ rzOpen' = rzOpen /\ rzHas' = rzHas
  BY RzOperates DEF Rz!Reload
<1>2. rzHw' = [rzHw EXCEPT !.macros = macros] /\ UNCHANGED <<rzDisk, rzSpoilt>> /\ Rz!Rebuild(macros)
  BY DEF Rz!Reload
<1>3. rzHw \in RzHws /\ rzDisk' \in RzDisks /\ rzOpen' = TRUE
  BY <1>1, <1>2 DEF RzTyped
<1>4. rzHw' \in RzHws /\ rzHw'.effect = rzHw.effect /\ rzHw'.colour = rzHw.colour
  BY <1>2, <1>3 DEF RzHws
<1>5. QED BY <1>1, <1>2, <1>3, <1>4, RzRebuilds

LEMMA RzMacros ==
    ASSUME RzTyped, RzFollows,
           Rz!SaveMacros \/ Rz!RestoreMacros \/ Rz!ImportMacros \/ Rz!RereadMacros \/ \E b \in Binds : Rz!DeleteMacro(b)
    PROVE  RzTyped' /\ RzFollows'
<1>1. rzHw \in RzHws /\ rzDisk \in RzDisks /\ rzHw.macros \in SUBSET Binds /\ rzDisk.macros \in SUBSET Binds
  BY DEF RzTyped, RzHws, RzDisks
<1>2. CASE Rz!SaveMacros
  <2>1. rzOpen /\ rzOpen' = rzOpen /\ rzHas' = rzHas
    BY <1>2, RzOperates DEF Rz!SaveMacros
  <2>2. rzDisk' = [rzDisk EXCEPT !.macros = rzHw.macros] /\ UNCHANGED <<rzHw, rzSpoilt>> /\ Rz!Rebuild(rzHw.macros)
    BY <1>2 DEF Rz!SaveMacros
  <2>3. rzDisk' \in RzDisks
    BY <1>1, <2>2 DEF RzDisks
  <2>4. rzOpen' = TRUE
    BY <2>1 DEF RzTyped
  <2>5. QED BY <1>1, <2>1, <2>2, <2>3, <2>4, RzRebuilds
<1>3. CASE Rz!RestoreMacros
  BY <1>1, <1>3, RzReloads DEF Rz!RestoreMacros
<1>4. CASE Rz!ImportMacros
  BY <1>1, <1>4, RzReloads DEF Rz!ImportMacros
<1>5. CASE Rz!RereadMacros
  BY <1>1, <1>5, RzReloads DEF Rz!RereadMacros
<1>6. CASE \E b \in Binds : Rz!DeleteMacro(b)
  BY <1>1, <1>6, RzReloads DEF Rz!DeleteMacro
<1>7. QED BY <1>2, <1>3, <1>4, <1>5, <1>6

\* A written value is held first, and the effect it belongs to goes out as a whole.
LEMMA RzLights ==
    ASSUME RzTyped, RzFollows, NEW row, NEW field, NEW v,
           \/ field = "effect" /\ v \in Rz!Effects
           \/ field = "colour" /\ v \in Rz!Colours,
           Rz!WriteLight(row, field, v)
    PROVE  RzTyped' /\ RzFollows'
<1> DEFINE w == [rzValues EXCEPT ![field] = v]  sh == [rzShown EXCEPT ![field] = v]
           c == IF Rz!ColoursOf(w.effect) > 0 THEN w.colour ELSE rzHw.colour
           h == [rzHw EXCEPT !.effect = w.effect, !.colour = c]
<1>1. rzOpen /\ rzOpen' = rzOpen /\ rzHas' = rzHas
  BY RzOperates DEF Rz!WriteLight
<1>2. /\ rzValues' = w /\ Rz!Keep /\ UNCHANGED rzDisk
      /\ \/ rzHw' = (IF w.effect = None THEN rzHw ELSE h) /\ rzShown' = sh /\ UNCHANGED rzSpoilt
         \/ UNCHANGED <<rzHw, rzShown>> /\ rzSpoilt' = rzSpoilt \cup {"refused"}
  <2>1. rzValues' = w
    BY DEF Rz!WriteLight
  <2>2. Rz!ApplyEffect(rzValues') => rzHw' = IF w.effect = None THEN rzHw ELSE h
    BY <2>1 DEF Rz!ApplyEffect
  <2> HIDE DEF w, h
  <2>3. Rz!Keep /\ UNCHANGED rzDisk
    BY DEF Rz!WriteLight
  <2>4. \/ Rz!ApplyEffect(rzValues') /\ rzShown' = sh /\ UNCHANGED rzSpoilt
        \/ UNCHANGED <<rzHw, rzShown>> /\ rzSpoilt' = rzSpoilt \cup {"refused"}
    BY DEF Rz!WriteLight
  <2>5. QED BY <2>1, <2>2, <2>3, <2>4
<1>3. rzHw \in RzHws /\ rzDisk' \in RzDisks /\ rzValues \in RzPages /\ rzShown \in RzPages /\ rzOpen' \in BOOLEAN
  BY <1>1, <1>2 DEF RzTyped
<1>4. /\ w \in RzPages /\ w.x = rzValues.x /\ w.y = rzValues.y
      /\ w.effect = (IF field = "effect" THEN v ELSE rzValues.effect)
      /\ w.colour = (IF field = "colour" THEN v ELSE rzValues.colour)
  <2>1. CASE field = "effect" /\ v \in Rz!Effects
    BY <1>3, <2>1 DEF RzPages
  <2>2. CASE field = "colour" /\ v \in Rz!Colours
    BY <1>3, <2>2 DEF RzPages
  <2>3. QED BY <2>1, <2>2
<1>5. /\ sh \in RzPages
      /\ sh.effect = (IF field = "effect" THEN v ELSE rzShown.effect)
      /\ sh.colour = (IF field = "colour" THEN v ELSE rzShown.colour)
  <2>1. CASE field = "effect" /\ v \in Rz!Effects
    BY <1>3, <2>1 DEF RzPages
  <2>2. CASE field = "colour" /\ v \in Rz!Colours
    BY <1>3, <2>2 DEF RzPages
  <2>3. QED BY <2>1, <2>2
<1> HIDE DEF w, sh
<1>6. c \in Rz!Colours
  BY <1>3, <1>4 DEF RzHws, RzPages
<1>7. c = IF Rz!ColoursOf(w.effect) > 0 THEN w.colour ELSE rzHw.colour
  OBVIOUS
<1> HIDE DEF c
<1>8. h.effect = w.effect /\ h.colour = c /\ h.dpi = rzHw.dpi
  BY <1>3 DEF RzHws
<1>9. w.effect # None => h \in RzHws
  <2> SUFFICES ASSUME w.effect # None PROVE h \in RzHws
    OBVIOUS
  <2>1. w.effect \in Rz!Effects \cup {"custom"}
    BY <1>4 DEF RzPages
  <2>2. QED BY <1>3, <1>6, <2>1 DEF RzHws
<1> HIDE DEF h
<1>10. rzHw' \in RzHws /\ rzHw'.dpi = rzHw.dpi
  BY <1>2, <1>3, <1>8, <1>9
<1>11. rzShown' \in RzPages
  BY <1>2, <1>3, <1>5
<1>12. rzSpoilt \subseteq rzSpoilt'
  BY <1>2
<1>13. RzCurrent'
  BY <1>1, <1>2, <1>4, <1>10, <1>12 DEF RzFollows, RzCurrent
<1>14. RzLit'
  <2> SUFFICES ASSUME rzSpoilt' = {} PROVE RzLit'
    BY DEF RzLit
  <2>1. /\ rzSpoilt = {} /\ rzShown' = sh
        /\ rzHw' = (IF w.effect = None THEN rzHw ELSE h)
    BY <1>2
  <2>2. sh.effect = w.effect /\ sh.colour = w.colour
    BY <1>4, <1>5, <2>1 DEF RzFollows, RzLit
  <2>3. w.effect # None => /\ rzHw'.effect = w.effect
                           /\ Rz!ColoursOf(rzHw'.effect) > 0 => w.colour = rzHw'.colour
    BY <1>7, <1>8, <2>1
  <2>4. QED BY <1>2, <2>1, <2>2, <2>3 DEF RzLit
<1>15. rzDisk'.macros = rzDisk.macros /\ rzValues' \in RzPages
  BY <1>2, <1>4
<1>16. QED BY <1>1, <1>2, <1>3, <1>10, <1>11, <1>12, <1>13, <1>14, <1>15, RzSteps

LEMMA RzElsewhere ==
    ASSUME RzTyped, RzFollows, Rz!Elsewhere
    PROVE  RzTyped' /\ RzFollows'
<1>1. /\ rzSpoilt' = rzSpoilt \cup {"elsewhere"}
      /\ Rz!Keep /\ UNCHANGED <<rzHas, rzDisk, rzOpen, rzValues, rzShown>>
  BY DEF Rz!Elsewhere, Rz!Spoil
<1>2. rzHw \in RzHws
  BY DEF RzTyped
<1>3. rzHw' \in RzHws
  <2>1. ASSUME NEW p \in Rz!Pairs, rzHw' = [rzHw EXCEPT !.dpi = p] PROVE rzHw' \in RzHws
    BY <1>2, <2>1 DEF RzHws
  <2>2. ASSUME NEW b \in Binds, rzHw' = [rzHw EXCEPT !.macros = rzHw.macros \cup {b}] PROVE rzHw' \in RzHws
    BY <1>2, <2>2 DEF RzHws
  <2>3. ASSUME NEW e \in Rz!Effects, rzHw' = [rzHw EXCEPT !.effect = e] PROVE rzHw' \in RzHws
    BY <1>2, <2>3 DEF RzHws
  <2>4. QED BY <2>1, <2>2, <2>3 DEF Rz!Elsewhere
<1>4. RzCurrent' /\ RzLit'
  BY <1>1 DEF RzFollows, RzCurrent, RzLit
<1>5. rzDisk' \in RzDisks /\ rzValues' \in RzPages /\ rzShown' \in RzPages /\ rzOpen' \in BOOLEAN
  BY <1>1 DEF RzTyped
<1>6. rzOpen' = rzOpen /\ rzHas' = rzHas /\ rzDisk'.macros = rzDisk.macros /\ rzSpoilt \subseteq rzSpoilt'
  BY <1>1
<1>7. QED BY <1>1, <1>3, <1>4, <1>5, <1>6, RzSteps

RzNext == Rz!Next \/ UNCHANGED rzVars

LEMMA RzKept ==
    ASSUME RzTyped, RzFollows, RzNext
    PROVE  RzTyped' /\ RzFollows'
<1>1. CASE UNCHANGED rzVars
  <2>1. /\ rzHas' = rzHas /\ rzHw' = rzHw /\ rzDisk' = rzDisk /\ rzOpen' = rzOpen /\ rzValues' = rzValues
        /\ rzShown' = rzShown /\ rzSpoilt' = rzSpoilt /\ Rz!Keep
    BY <1>1 DEF rzVars, Rz!Keep
  <2>2. rzHw' \in RzHws /\ rzDisk' \in RzDisks /\ rzValues' \in RzPages /\ rzShown' \in RzPages
    BY <2>1 DEF RzTyped
  <2>3. QED BY <2>1, <2>2, RzAside
<1>2. CASE Rz!Next
  <2>1. CASE Rz!Connect \/ Rz!Disconnect \/ Rz!Refresh
    BY <2>1, RzConnects, RzDisconnects, RzRefreshes
  <2>2. CASE \E a \in Rz!Axes, d \in Dpis : Rz!WriteDpi(a, d) \/ (\E i \in 1..2 : Rz!EditStage(i, a, d))
    BY <2>2, RzWritesDpi, RzEdits
  <2>3. CASE \E on \in BOOLEAN : Rz!WriteLock(on) \/ Rz!SetAutorestore(on)
    BY <2>3, RzWritesLock, RzAsides
  <2>4. CASE \E i \in 1..2 : Rz!ApplyStage(i) \/ Rz!WriteDpiStage(i)
    BY <2>4, RzApplies, RzAsides
  <2>5. CASE Rz!SyncStages \/ Rz!SaveMacros \/ Rz!RestoreMacros \/ Rz!ImportMacros \/ Rz!RereadMacros
             \/ (\E b \in Binds : Rz!DeleteMacro(b)) \/ Rz!Elsewhere \/ Rz!DaemonRestarts
    BY <2>5, RzAsides, RzMacros, RzElsewhere
  <2>6. CASE \E e \in Rz!Effects : Rz!WriteLight(<<"effect">>, "effect", e)
    BY <2>6, RzLights
  <2>7. CASE \E c \in Rz!Colours : Rz!WriteLight(<<"color">>, "colour", c)
    BY <2>7, RzLights
  <2>8. QED BY <1>2, <2>1, <2>2, <2>3, <2>4, <2>5, <2>6, <2>7 DEF Rz!Next
<1>3. QED BY <1>1, <1>2 DEF RzNext

-----------------------------------------------------------------------------
\* What the steps of a mouse do.

LEMMA RzOtherStays ==
    ASSUME RzTyped, RzFollows, NEW a \in Rz!Axes, NEW v \in Dpis, Rz!WriteDpi(a, v), ~rzValues.lock, rzSpoilt = {}
    PROVE  rzHw'.dpi[Rz!Other(a)] = rzHw.dpi[Rz!Other(a)]
<1> DEFINE o == Rz!Other(a)  p == Rz!PairToWrite(a, v)
<1>1. o \in Rz!Axes /\ o # a
  BY DEF Rz!Axes, Rz!Other
<1> HIDE DEF o
<1>2. rzOpen /\ rzHw' = [rzHw EXCEPT !.dpi = p]
  BY DEF Rz!WriteDpi, Rz!Operation
<1>3. p[o] = rzValues[o]
  BY <1>1 DEF Rz!PairToWrite
<1> HIDE DEF p
<1>4. rzHw'.dpi = p
  BY <1>2 DEF RzTyped, RzHws
<1>5. rzValues.x = rzHw.dpi["x"] /\ rzValues.y = rzHw.dpi["y"]
  BY <1>2 DEF RzFollows, RzCurrent
<1>6. rzValues[o] = rzHw.dpi[o]
  BY <1>1, <1>5 DEF Rz!Axes
<1>7. QED BY <1>3, <1>4, <1>6 DEF o

LEMMA RzEditIsBack ==
    ASSUME RzTyped, RzFollows, NEW i \in 1..2, NEW a \in Rz!Axes, NEW v \in Dpis, Rz!EditStage(i, a, v), rzSpoilt' = {}
    PROVE  rzStages'[i][a] = v
<1> DEFINE s == [rzStages EXCEPT ![i][a] = v]
<1>1. s \in Seq(Rz!Pairs) /\ s[i][a] = v /\ "dpi" \in rzHas
  BY RzEdited
<1>2. rzDisk' = [rzDisk EXCEPT !.stages = s] /\ rzHas' = rzHas /\ rzStages' = Rz!LoadStages
  BY DEF Rz!EditStage, Rz!SaveStages, Rz!Rebuild, Rz!Operation
<1> HIDE DEF s
<1>3. rzDisk'.stages = s
  BY <1>2 DEF RzTyped, RzDisks
<1>4. s # None
  BY <1>1, StagesAssumption DEF Rz!Pairs, Rz!Axes
<1>5. rzStages' = s
  BY <1>1, <1>2, <1>3, <1>4 DEF Rz!LoadStages
<1>6. QED BY <1>1, <1>5

LEMMA RzComesBack ==
    ASSUME RzTyped, Rz!Connect, "macro_logic" \in rzHas, rzDisk.auto
    PROVE  rzDisk.macros \subseteq rzHw'.macros
<1> DEFINE m == Rz!RestoredAtConnect
<1>1. rzHw' = [rzHw EXCEPT !.macros = m] /\ rzDisk.macros \subseteq m
  BY DEF Rz!Connect, Rz!RestoredAtConnect
<1> HIDE DEF m
<1>2. QED BY <1>1 DEF RzTyped, RzHws

-----------------------------------------------------------------------------
(* The work and the rest. *)

\* A step of all is a step of each, or nothing of it.
LEMMA PageSteps == [Next]_vars => DmNext /\ UvNext /\ RzNext /\ EbNext /\ SkNext /\ CrNext
BY DEF Next, vars, DmNext, UvNext, RzNext, EbNext, SkNext, CrNext

MonitorInvariant == DmTyped /\ DmFollows
CameraInvariant == UvTyped /\ UvFollows
MouseInvariant == RzTyped /\ RzFollows
PadInvariant == EbTyped /\ EbFollows
KeyInvariant == SkTyped /\ SkFollows
CardInvariant == CrTyped /\ CrFollows

LEMMA MonitorInvariantKept == MonitorInvariant /\ [Next]_vars => MonitorInvariant'
BY PageSteps, DmKept DEF MonitorInvariant

LEMMA CameraInvariantKept == CameraInvariant /\ [Next]_vars => CameraInvariant'
BY PageSteps, UvKept DEF CameraInvariant

LEMMA MouseInvariantKept == MouseInvariant /\ [Next]_vars => MouseInvariant'
BY PageSteps, RzKept DEF MouseInvariant

LEMMA PadInvariantKept == PadInvariant /\ [Next]_vars => PadInvariant'
BY PageSteps, EbKept DEF PadInvariant

LEMMA KeyInvariantKept == KeyInvariant /\ [Next]_vars => KeyInvariant'
BY PageSteps, SkKept DEF KeyInvariant

LEMMA CardInvariantKept == CardInvariant /\ [Next]_vars => CardInvariant'
BY PageSteps, CrKept DEF CardInvariant

LEMMA PageInvariantsInit ==
    Init => MonitorInvariant /\ CameraInvariant /\ MouseInvariant /\ PadInvariant /\ KeyInvariant /\ CardInvariant
BY DmTypedInit, DmFollowsInit, UvInit, RzInit, EbInit, SkInit, CrInit
   DEF Init, MonitorInvariant, CameraInvariant, MouseInvariant, PadInvariant, KeyInvariant, CardInvariant

\* What is reported stored is stored, and the work on it is not lost: a record synced to a controller
\* is the one it comes back with and its page shows, a panel is as it was meant after a calibration,
\* an edited stage of a mouse is on the page after the rebuild, and the saved macros come back at the
\* connect (eightbitdo_controllers, dell_monitors, razer_peripherals).
THEOREM WorkIsKeptAlways == Spec => WorkIsKept
<1> DEFINE Inv == MonitorInvariant /\ MouseInvariant /\ PadInvariant
           Kept == Eb!SavedIsKept /\ Eb!CleanIsStored /\ Dm!PanelIsAsMeant
           Edit == \A i \in 1..2, a \in Rz!Axes, v \in Dpis :
                      (Rz!EditStage(i, a, v) /\ rzSpoilt' = {}) => rzStages'[i][a] = v
           Back == (Rz!Connect /\ "macro_logic" \in rzHas /\ rzDisk.auto) => rzDisk.macros \subseteq rzHw'.macros
<1>1. Init => Inv
  BY PageInvariantsInit
<1>2. Inv /\ [Next]_vars => Inv'
  BY MonitorInvariantKept, MouseInvariantKept, PadInvariantKept
<1>3. Inv => Kept
  BY DmSuffices, EbSuffices DEF MonitorInvariant, PadInvariant
<1>4. Inv => Edit
  BY RzEditIsBack DEF MouseInvariant
<1>5. Inv => Back
  BY RzComesBack DEF MouseInvariant
<1>6. Spec => []Inv
  <2> HIDE DEF Inv
  <2>1. QED BY <1>1, <1>2, PTL DEF Spec
<1>7. [](Eb!SavedIsKept /\ Eb!CleanIsStored /\ Dm!PanelIsAsMeant) /\ [][Edit]_Rz!rzVars /\ [][Back]_Rz!rzVars => WorkIsKept
  BY DEF WorkIsKept, Rz!EditLands, Rz!SavedMacrosComeBack
<1> HIDE DEF Inv, Kept, Edit, Back
<1>8. QED BY <1>3, <1>4, <1>5, <1>6, <1>7, PTL DEF Kept

\* A write leaves alone what it carries along and is not about: the profiles nobody edited, the other
\* bytes of a camera's control, the calibrations of the other monitors, the other axis of a mouse
\* (eightbitdo_controllers, uvc_cameras, dell_monitors, razer_peripherals).
THEOREM TheRestIsLeftAloneAlways == Spec => TheRestIsLeftAlone
<1> DEFINE Inv == MonitorInvariant /\ CameraInvariant /\ MouseInvariant /\ PadInvariant
           Alone == Eb!OtherProfilesAreKept /\ Uv!LeavesTheRestAlone /\ Dm!CalibrationsAreKept
           Axis == \A a \in Rz!Axes, v \in Dpis :
                      (Rz!WriteDpi(a, v) /\ ~rzValues.lock /\ rzSpoilt = {}) => rzHw'.dpi[Rz!Other(a)] = rzHw.dpi[Rz!Other(a)]
<1>1. Inv /\ [Next]_vars => Inv'
  BY MonitorInvariantKept, CameraInvariantKept, MouseInvariantKept, PadInvariantKept
<1>2. Inv => Alone
  BY DmSuffices, UvSuffices, EbSuffices DEF MonitorInvariant, CameraInvariant, PadInvariant
<1>3. Inv => Axis
  BY RzOtherStays DEF MouseInvariant
<1>4. Init => Inv
  BY PageInvariantsInit
<1>5. Spec => []Inv
  <2> HIDE DEF Inv
  <2>1. QED BY <1>1, <1>4, PTL DEF Spec
<1>6. [](Eb!OtherProfilesAreKept /\ Uv!LeavesTheRestAlone /\ Dm!CalibrationsAreKept) /\ [][Axis]_Rz!rzVars => TheRestIsLeftAlone
  BY DEF TheRestIsLeftAlone, Rz!OtherAxisStays
<1> HIDE DEF Inv, Alone, Axis
<1>7. QED BY <1>2, <1>3, <1>5, <1>6, PTL DEF Alone

-----------------------------------------------------------------------------
(* The values and the rows. *)

\* The state of every module and of its page has the values it should: what the device holds, what
\* is read of it, the writes under way and what is kept on the disk (all the modules of DevicePages).
THEOREM PagesTypeCorrect == Spec => []TypeOK
<1> DEFINE Inv == /\ SweepInvariant /\ VendorInvariant /\ MonitorInvariant /\ CameraInvariant
                  /\ MouseInvariant /\ PadInvariant /\ KeyInvariant /\ CardInvariant
<1>1. Init => Inv
  <2>1. Init => SweepInvariant /\ VendorInvariant
    BY SweepInvariantInit, VfTypedInit, VfInstalledInit, VfStoredInit DEF Init, VendorInvariant
  <2>2. QED BY <2>1, PageInvariantsInit
<1>2. Inv /\ [Next]_vars => Inv'
  BY SweepInvariantKept, VendorInvariantKept, MonitorInvariantKept, CameraInvariantKept, MouseInvariantKept,
     PadInvariantKept, KeyInvariantKept, CardInvariantKept
<1>3. Inv => TypeOK
  <2> SUFFICES ASSUME Inv PROVE TypeOK
    OBVIOUS
  <2>1. Rz!TypeOK /\ Cr!TypeOK /\ Eb!TypeOK
    BY RzTypedSuffices, CrTypedSuffices, EbTypedSuffices DEF MouseInvariant, CardInvariant, PadInvariant
  <2>2. Sk!TypeOK /\ Uv!TypeOK /\ Dm!TypeOK
    BY SkTypedSuffices, UvTypedSuffices, DmTypedSuffices DEF KeyInvariant, CameraInvariant, MonitorInvariant
  <2>3. Ds!TypeOK /\ Vf!TypeOK
    BY DsTypedSuffices, VfTypedSuffices DEF SweepInvariant, VendorInvariant
  <2>4. QED BY <2>1, <2>2, <2>3 DEF TypeOK
<1> HIDE DEF Inv
<1>4. QED BY <1>1, <1>2, <1>3, PTL DEF Spec

\* Once a device and its page are at rest, the page shows what the device does: the macro and the
\* lamp rows of a mouse, the routing, the mode and the curve of a sound card, the slots, the PIN and
\* the attempts of a key, the controls of a camera, what was read back of a monitor (razer_peripherals,
\* creative_peripherals, fido2_security_keys, yubikeys, uvc_cameras, dell_monitors).  Nothing orders the
\* writes of a sound card: beside a second writer an acknowledgement is lost to the other, and its
\* rows are true of one writer.
THEOREM RowsAreTrueAlways == (\E w : CrWriters = {w}) => (Spec => []RowsAreTrue)
<1> SUFFICES ASSUME NEW w, CrWriters = {w} PROVE Spec => []RowsAreTrue
  OBVIOUS
<1> DEFINE Inv == MonitorInvariant /\ CameraInvariant /\ MouseInvariant /\ KeyInvariant /\ CardInvariant
<1>1. Init => Inv
  BY PageInvariantsInit
<1>2. Inv /\ [Next]_vars => Inv'
  BY MonitorInvariantKept, CameraInvariantKept, MouseInvariantKept, KeyInvariantKept, CardInvariantKept
<1>3. Inv => RowsAreTrue
  <2> SUFFICES ASSUME Inv PROVE RowsAreTrue
    OBVIOUS
  <2>1. Rz!MacroRowsAreTrue /\ Rz!LampIsAsShown
    BY RzSuffices DEF MouseInvariant
  <2>2. Cr!OutputIsShown /\ Cr!SelectedModeIsLive /\ Cr!SlidersAreTheCurve
    BY CrSuffices DEF CardInvariant
  <2>3. Sk!SlotsAreShown /\ Sk!PinRowIsTrue /\ Sk!AttemptsAreTheUsers
    BY SkSuffices DEF KeyInvariant
  <2>4. Uv!PageFollowsCamera /\ Dm!RowsAreReadBack
    BY UvSuffices, DmSuffices DEF CameraInvariant, MonitorInvariant
  <2>5. QED BY <2>1, <2>2, <2>3, <2>4 DEF RowsAreTrue
<1> HIDE DEF Inv
<1>4. QED BY <1>1, <1>2, <1>3, PTL DEF Spec
=============================================================================
