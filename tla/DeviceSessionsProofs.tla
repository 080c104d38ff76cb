------------------------ MODULE DeviceSessionsProofs ------------------------
(***************************************************************************)
(* What the pages of a Jabra headset, of a Poly one and of a Logitech      *)
(* receiver can rely on, for any number of values, slots, operations and   *)
(* troubles.                                                               *)
(***************************************************************************)
EXTENDS DeviceSessions, FilteringProofs, FiniteSetTheorems, TLAPS

-----------------------------------------------------------------------------
(* JabraHeadset: the types. *)

JabEnds == {"headset", "adapter"}
JabValues == [JabEnds -> 0..Top]
JabLimits == [JabEnds -> SUBSET (0..Top)]
JabWrites == [row : JabEnds, val : 0..Top, at : {"sent", "acked", "landed", "refused"}]

\* A row is pending from the start of its write to its answer.
JabPendingIs ==
    jabPending = IF jabOp # None /\ jabOp.at \in {"sent", "acked"} THEN {jabOp.row} ELSE {}

\* What a headset holds its hardware takes, what a page shows was held, and what a row offers is
\* what was learned of it.
JabTyped ==
    /\ jabAccepts \in JabLimits /\ jabHw \in JabValues /\ jabLimits \in JabLimits
    /\ \A e \in JabEnds : jabHw[e] \in jabAccepts[e]
    /\ jabOffered # None => jabPage \in JabValues /\ jabOffered \in JabLimits
    /\ jabOp \in JabWrites \cup {None} /\ (jabOp # None => jabOffered # None)
    /\ jabPoll \in {"idle", "reread", "read", "passed"} /\ jabRead \in 0..Top
    /\ jabPoll # "idle" => jabOffered # None
    /\ JabPendingIs
    /\ jabNews \in BOOLEAN /\ jabClean \in BOOLEAN /\ jabDropped \in BOOLEAN

LEMMA JabTypeSuffices ==
    ASSUME JabTyped
    PROVE  Jab!TypeOK
<1>1. /\ \A e \in Jab!Ends : jabHw[e] \in jabAccepts[e] /\ jabLimits[e] \subseteq 0..Top
      /\ jabOffered # None => jabPage \in [Jab!Ends -> 0..Top]
      /\ jabPoll \in {"idle", "reread", "read", "passed"} /\ jabRead \in 0..Top
  BY DEF JabTyped, JabEnds, JabValues, JabLimits, Jab!Ends
<1>2. jabPending \subseteq Jab!Ends
  BY DEF JabTyped, JabPendingIs, JabWrites, JabEnds, Jab!Ends
<1>3. jabPending = {} \/ \E row : jabPending = {row}
  BY DEF JabTyped, JabPendingIs
<1>4. Jab!Cardinality(jabPending) <= 1
  <2>1. Cardinality(jabPending) \in {0, 1}
    BY <1>3, FS_EmptySet, FS_Singleton
  <2>2. Jab!Cardinality(jabPending) = Cardinality(jabPending)
    BY DEF Jab!Cardinality, Cardinality, Jab!IsFiniteSet, IsFiniteSet
  <2>3. QED BY <2>1, <2>2
<1>5. QED BY <1>1, <1>2, <1>4 DEF Jab!TypeOK, Jab!Catalogue

LEMMA GreatestIn ==
    ASSUME NEW S \in SUBSET (0..Top), NEW m \in S, \A n \in S : n <= m
    PROVE  Jab!Max(S) \in S
BY DEF Jab!Max

LEMMA JabTypeInit == Jab!Init => JabTyped
<1> SUFFICES ASSUME Jab!Init PROVE JabTyped
  OBVIOUS
<1> DEFINE most(low) == IF low = Top THEN Top - 1 ELSE Top
<1>1. PICK low \in 0..Top, high \in 0..Top :
        /\ low <= high
        /\ jabAccepts = [e \in JabEnds |-> IF e = "headset" THEN low..high ELSE (0..Top) \ {low}]
        /\ jabHw = [e \in JabEnds |-> IF e = "headset" THEN low ELSE Jab!Max((0..Top) \ {low})]
  BY DEF Jab!Init, Jab!Catalogue, Jab!Ends, JabEnds
<1>2. /\ (0..Top) \ {low} \in SUBSET (0..Top) /\ most(low) \in (0..Top) \ {low}
      /\ \A n \in (0..Top) \ {low} : n <= most(low)
  BY JabraAssumption DEF JabraAssumption
<1>3. Jab!Max((0..Top) \ {low}) \in (0..Top) \ {low}
  BY <1>2, GreatestIn
<1>4. /\ jabAccepts \in JabLimits /\ jabHw \in JabValues
      /\ \A e \in JabEnds : jabHw[e] \in jabAccepts[e]
  <2>1. low..high \in SUBSET (0..Top) /\ low \in low..high
    BY <1>1, JabraAssumption DEF JabraAssumption
  <2> DEFINE most2 == Jab!Max((0..Top) \ {low})
             span == low..high
             all == 0..Top
  <2>2. most2 \in all \ {low} /\ span \in SUBSET all /\ low \in span /\ low \in all
    BY <1>3, <2>1
  <2>3. /\ jabAccepts = [e \in JabEnds |-> IF e = "headset" THEN span ELSE all \ {low}]
        /\ jabHw = [e \in JabEnds |-> IF e = "headset" THEN low ELSE most2]
    BY <1>1
  <2> HIDE DEF most2, span, all
  <2>4. jabAccepts \in [JabEnds -> SUBSET all] /\ jabHw \in [JabEnds -> all]
    BY <2>2, <2>3
  <2>5. \A e \in JabEnds : jabHw[e] \in jabAccepts[e]
    BY <2>2, <2>3
  <2>6. QED BY <2>4, <2>5 DEF JabLimits, JabValues, all
<1>5. /\ jabLimits = [e \in JabEnds |-> 0..Top] /\ jabOffered = None /\ jabOp = None /\ jabPending = {}
      /\ jabPoll = "idle" /\ jabRead = 0
      /\ jabNews = FALSE /\ jabClean = TRUE /\ jabDropped = FALSE
  BY DEF Jab!Init, Jab!Catalogue, Jab!Ends, JabEnds
<1>6. jabLimits \in JabLimits /\ 0 \in 0..Top
  BY <1>5, JabraAssumption DEF JabLimits, JabraAssumption
<1>7. QED BY <1>4, <1>5, <1>6 DEF JabTyped, JabPendingIs

\* What a page, a headset or what is offered becomes when it changes at one end.
LEMMA JabValuesChange ==
    ASSUME NEW f \in JabValues, NEW e \in JabEnds, NEW v \in 0..Top
    PROVE  /\ [f EXCEPT ![e] = v] \in JabValues
           /\ \A d \in JabEnds : [f EXCEPT ![e] = v][d] = IF d = e THEN v ELSE f[d]
<1> DEFINE all == 0..Top
<1>1. v \in all /\ f \in [JabEnds -> all] /\ JabValues = [JabEnds -> all]
  BY DEF JabValues
<1> HIDE DEF all
<1>2. QED BY <1>1

LEMMA JabLimitsChange ==
    ASSUME NEW f \in JabLimits, NEW e \in JabEnds, NEW w \in SUBSET (0..Top)
    PROVE  /\ [f EXCEPT ![e] = w] \in JabLimits
           /\ \A d \in JabEnds : [f EXCEPT ![e] = w][d] = IF d = e THEN w ELSE f[d]
<1> DEFINE all == 0..Top
<1>1. w \in SUBSET all /\ f \in [JabEnds -> SUBSET all] /\ JabLimits = [JabEnds -> SUBSET all]
  BY DEF JabLimits
<1> HIDE DEF all
<1>2. QED BY <1>1

LEMMA JabLimitsAreThere == None \notin JabLimits
BY JabraAssumption DEF JabraAssumption, JabLimits, JabEnds

LEMMA JabOperation ==
    ASSUME JabTyped, jabOp # None
    PROVE  /\ jabOp \in JabWrites /\ jabOp.row \in JabEnds /\ jabOp.val \in 0..Top
           /\ jabOffered # None /\ jabPage \in JabValues /\ jabOffered \in JabLimits
           /\ \A at \in {"sent", "acked", "landed", "refused"} :
                 /\ [jabOp EXCEPT !.at = at] \in JabWrites
                 /\ [jabOp EXCEPT !.at = at].at = at
                 /\ [jabOp EXCEPT !.at = at].row = jabOp.row
                 /\ [jabOp EXCEPT !.at = at].val = jabOp.val
<1> DEFINE all == 0..Top
<1>1. jabOp \in [row : JabEnds, val : all, at : {"sent", "acked", "landed", "refused"}]
  BY DEF JabTyped, JabWrites
<1> HIDE DEF all
<1>2. /\ jabOp.row \in JabEnds /\ jabOp.val \in all
      /\ \A at \in {"sent", "acked", "landed", "refused"} :
            /\ [jabOp EXCEPT !.at = at] \in [row : JabEnds, val : all, at : {"sent", "acked", "landed", "refused"}]
            /\ [jabOp EXCEPT !.at = at].at = at
            /\ [jabOp EXCEPT !.at = at].row = jabOp.row
            /\ [jabOp EXCEPT !.at = at].val = jabOp.val
  BY <1>1
<1>3. QED BY <1>1, <1>2 DEF JabTyped, JabWrites, all

\* The poll, and the page that opens and closes, leave the write alone.
LEMMA JabTypePage ==
    ASSUME JabTyped, Jab!Connect \/ Jab!Disconnect \/ Jab!Changes
    PROVE  JabTyped'
<1> USE DEF JabTyped
<1>1. CASE Jab!Connect
  <2>1. /\ jabOffered' = jabLimits /\ jabPage' = jabHw /\ jabNews' = FALSE
        /\ UNCHANGED <<jabAccepts, jabHw, jabLimits, jabPoll, jabRead, jabOp, jabPending, jabClean, jabDropped>>
    BY <1>1 DEF Jab!Connect, Jab!nature, Jab!poll, Jab!history
  <2>2. jabLimits # None
    BY JabLimitsAreThere
  <2>3. QED BY <2>1, <2>2 DEF JabPendingIs
<1>2. CASE Jab!Disconnect
  <2>1. 0 \in 0..Top
    BY JabraAssumption DEF JabraAssumption
  <2>2. QED BY <1>2, <2>1 DEF Jab!Disconnect, Jab!nature, Jab!history, JabPendingIs
<1>3. CASE Jab!Drain
  BY <1>3 DEF Jab!Drain, Jab!nature, JabPendingIs
<1>4. CASE Jab!ReadAgain
  <2>1. jabHw["headset"] \in 0..Top
    BY DEF JabValues, JabEnds
  <2>2. QED BY <1>4, <2>1 DEF Jab!ReadAgain, Jab!nature, Jab!history, JabPendingIs
<1>5. CASE Jab!FilterStale
  BY <1>5 DEF Jab!FilterStale, Jab!nature, JabPendingIs
<1>6. CASE Jab!Emit
  <2>1. /\ jabPage' = [jabPage EXCEPT !["headset"] = jabRead] /\ jabPoll' = "idle" /\ jabRead' = 0
        /\ UNCHANGED <<jabAccepts, jabHw, jabLimits, jabOffered, jabNews, jabOp, jabPending, jabClean, jabDropped>>
    BY <1>6 DEF Jab!Emit, Jab!ShowPolled, Jab!nature, Jab!history
  <2>2. jabPage \in JabValues /\ jabRead \in 0..Top /\ "headset" \in JabEnds /\ 0 \in 0..Top
    BY <1>6, JabraAssumption DEF Jab!Emit, JabEnds, JabraAssumption
  <2>3. jabPage' \in JabValues
    BY <2>1, <2>2, JabValuesChange
  <2>4. QED BY <2>1, <2>2, <2>3 DEF JabPendingIs
<1>7. QED BY <1>1, <1>2, <1>3, <1>4, <1>5, <1>6 DEF Jab!Changes

\* A change made on the headset is to a value its hardware takes.
LEMMA JabTypeTouch ==
    ASSUME JabTyped, NEW v \in 0..Top, Jab!Touch(v)
    PROVE  JabTyped'
<1>1. /\ jabHw' = [jabHw EXCEPT !["headset"] = v] /\ v \in jabAccepts["headset"] /\ jabNews' = TRUE
      /\ jabClean' = (jabClean /\ jabOp = None)
      /\ UNCHANGED <<jabAccepts, jabLimits, jabOffered, jabPage, jabPoll, jabRead, jabOp, jabPending, jabDropped>>
  BY DEF Jab!Touch, Jab!nature, Jab!poll
<1>2. "headset" \in JabEnds /\ jabHw \in JabValues
  BY DEF JabEnds, JabTyped
<1>3. /\ jabHw' \in JabValues
      /\ \A d \in JabEnds : jabHw'[d] = IF d = "headset" THEN v ELSE jabHw[d]
  <2> DEFINE new == [jabHw EXCEPT !["headset"] = v]
  <2>1. new \in JabValues /\ \A d \in JabEnds : new[d] = IF d = "headset" THEN v ELSE jabHw[d]
    BY <1>2, JabValuesChange
  <2>2. jabHw' = new
    BY <1>1
  <2> HIDE DEF new
  <2>3. QED BY <2>1, <2>2
<1>4. QED BY <1>1, <1>3 DEF JabTyped, JabPendingIs

LEMMA JabTypeSet ==
    ASSUME JabTyped, NEW row \in Jab!Ends, NEW v \in Jab!Catalogue, Jab!Set(row, v)
    PROVE  JabTyped'
<1> DEFINE op == [row |-> row, val |-> v, at |-> "sent"]
<1>1. /\ jabOffered # None /\ jabOp = None /\ jabOp' = op /\ jabPending' = jabPending \cup {row}
      /\ UNCHANGED <<jabAccepts, jabHw, jabLimits, jabOffered, jabPage, jabNews, jabPoll, jabRead, jabClean, jabDropped>>
  BY DEF Jab!Set, Jab!nature, Jab!poll, Jab!history
<1>2. op \in JabWrites /\ op.row = row /\ op.at = "sent"
  BY DEF JabWrites, JabEnds, Jab!Ends, Jab!Catalogue
<1> HIDE DEF op
<1>3. op # None
  BY <1>2, JabraAssumption DEF JabraAssumption, JabWrites, JabEnds
<1>4. jabPending = {}
  BY <1>1 DEF JabTyped, JabPendingIs
<1>5. JabPendingIs'
  BY <1>1, <1>2, <1>3, <1>4 DEF JabPendingIs
<1>6. QED BY <1>1, <1>2, <1>3, <1>5 DEF JabTyped

\* What a write becomes on its way.
LEMMA JabTypeOnItsWay ==
    ASSUME JabTyped, Jab!Accepted \/ Jab!Declined \/ Jab!ReadBack
    PROVE  /\ JabTyped'
           /\ jabOp # None /\ jabOp' # None /\ jabOp' \in JabWrites
           /\ jabOp'.row = jabOp.row /\ jabOp'.val = jabOp.val
<1>1. jabOp # None
  BY DEF Jab!Accepted, Jab!Declined, Jab!ReadBack, Jab!At
<1>2. \E at \in {"sent", "acked", "landed", "refused"} : jabOp' = [jabOp EXCEPT !.at = at]
  BY DEF Jab!Accepted, Jab!Declined, Jab!ReadBack
<1>3. jabOp' \in JabWrites /\ jabOp'.row = jabOp.row /\ jabOp'.val = jabOp.val
  BY <1>1, <1>2, JabOperation
<1>4. jabOp' # None
  BY <1>3, JabraAssumption DEF JabraAssumption, JabWrites, JabEnds
<1>5. CASE Jab!Accepted
  <2>1. /\ jabHw' = [jabHw EXCEPT ![jabOp.row] = jabOp.val] /\ jabOp.at = "sent"
        /\ jabOp.val \in jabAccepts[jabOp.row] /\ jabOp' = [jabOp EXCEPT !.at = "acked"]
        /\ jabNews' = (jabNews \/ jabOp.row = "headset")
        /\ UNCHANGED <<jabAccepts, jabLimits, jabOffered, jabPage, jabPoll, jabRead, jabPending, jabClean, jabDropped>>
    BY <1>5 DEF Jab!Accepted, Jab!At, Jab!nature, Jab!poll, Jab!history
  <2>2. jabOp'.at = "acked" /\ jabOp.row \in JabEnds /\ jabOp.val \in 0..Top /\ jabHw \in JabValues
    BY <1>1, <2>1, JabOperation DEF JabTyped
  <2>3. /\ jabHw' \in JabValues
        /\ \A d \in JabEnds : jabHw'[d] = IF d = jabOp.row THEN jabOp.val ELSE jabHw[d]
    <3> DEFINE new == [jabHw EXCEPT ![jabOp.row] = jabOp.val]
    <3>1. new \in JabValues /\ \A d \in JabEnds : new[d] = IF d = jabOp.row THEN jabOp.val ELSE jabHw[d]
      BY <2>2, JabValuesChange
    <3>2. jabHw' = new
      BY <2>1
    <3> HIDE DEF new
    <3>3. QED BY <3>1, <3>2
  <2>4. JabPendingIs'
    BY <1>1, <1>3, <1>4, <2>1, <2>2 DEF JabTyped, JabPendingIs
  <2>5. QED BY <1>1, <1>3, <1>4, <2>1, <2>3, <2>4 DEF JabTyped
<1>6. CASE Jab!Declined
  <2>1. /\ jabOp.at = "sent"
        /\ \/ jabOp' = [jabOp EXCEPT !.at = "acked"] /\ UNCHANGED jabPending
           \/ jabOp' = [jabOp EXCEPT !.at = "refused"] /\ jabPending' = jabPending \ {jabOp.row}
        /\ UNCHANGED <<jabAccepts, jabHw, jabLimits, jabOffered, jabPage, jabNews, jabPoll, jabRead, jabClean, jabDropped>>
    BY <1>6 DEF Jab!Declined, Jab!At, Jab!Unregistered, Jab!nature, Jab!poll, Jab!history
  <2>2. \/ jabOp'.at = "acked" /\ UNCHANGED jabPending
        \/ jabOp'.at = "refused" /\ jabPending' = jabPending \ {jabOp.row}
    BY <1>1, <2>1, JabOperation
  <2>3. JabPendingIs'
    BY <1>1, <1>3, <1>4, <2>1, <2>2 DEF JabTyped, JabPendingIs
  <2>4. QED BY <1>1, <1>3, <1>4, <2>1, <2>3 DEF JabTyped
<1>7. CASE Jab!ReadBack
  <2>1. /\ jabOp.at = "acked"
        /\ jabOp' = [jabOp EXCEPT !.at = IF jabHw[jabOp.row] = jabOp.val THEN "landed" ELSE "refused"]
        /\ jabPending' = jabPending \ {jabOp.row}
        /\ UNCHANGED <<jabAccepts, jabHw, jabLimits, jabOffered, jabPage, jabNews, jabPoll, jabRead, jabClean, jabDropped>>
    BY <1>7 DEF Jab!ReadBack, Jab!At, Jab!Unregistered, Jab!nature, Jab!poll, Jab!history
  <2>2. jabOp'.at \in {"landed", "refused"}
    BY <1>1, <2>1, JabOperation
  <2>3. JabPendingIs'
    BY <1>1, <1>3, <1>4, <2>1, <2>2 DEF JabTyped, JabPendingIs
  <2>4. QED BY <1>1, <1>3, <1>4, <2>1, <2>3 DEF JabTyped
<1>8. QED BY <1>1, <1>3, <1>4, <1>5, <1>6, <1>7

\* A write that ended, shown or learned from.
LEMMA JabTypeEnd ==
    ASSUME JabTyped, Jab!Land \/ Jab!RejectChoice \/ Jab!RejectRange \/ Jab!LockRow
    PROVE  JabTyped'
<1>1. /\ jabOp # None /\ jabOp.at \in {"landed", "refused"} /\ jabOp' = None
      /\ UNCHANGED <<jabAccepts, jabPoll, jabRead, jabPending, jabClean>>
  BY DEF Jab!Land, Jab!RejectChoice, Jab!RejectRange, Jab!LockRow, Jab!At, Jab!Learned, Jab!nature,
         Jab!poll, Jab!history
<1>2. JabPendingIs'
  BY <1>1 DEF JabTyped, JabPendingIs
<1>3. /\ jabOp.row \in JabEnds /\ jabOp.val \in 0..Top /\ jabPage \in JabValues /\ jabOffered \in JabLimits
      /\ jabOffered[jabOp.row] \in SUBSET (0..Top) /\ jabLimits \in JabLimits
  BY <1>1, JabOperation DEF JabLimits, JabTyped
<1>4. CASE Jab!Land
  <2>1. /\ jabPage' = [jabPage EXCEPT ![jabOp.row] = jabOp.val]
        /\ jabDropped' = (jabDropped /\ jabOp.row # "headset")
        /\ UNCHANGED <<jabHw, jabLimits, jabOffered, jabNews>>
    BY <1>4 DEF Jab!Land
  <2>2. jabPage' \in JabValues
    BY <1>3, <2>1, JabValuesChange
  <2>3. QED BY <1>1, <1>2, <2>1, <2>2 DEF JabTyped
<1>5. CASE Jab!RejectChoice \/ Jab!RejectRange \/ Jab!LockRow
  <2>1. PICK values \in SUBSET (0..Top) :
           /\ jabOffered' = [jabOffered EXCEPT ![jabOp.row] = values]
           /\ jabLimits' = [jabLimits EXCEPT ![jabOp.row] = values]
    <3>1. CASE Jab!RejectChoice
      <4>1. jabOffered[jabOp.row] \ {jabOp.val} \in SUBSET (0..Top)
        BY <1>3
      <4>2. QED BY <3>1, <4>1 DEF Jab!RejectChoice, Jab!Learned, Jab!OthersOf
    <3>2. CASE Jab!LockRow
      BY <3>2 DEF Jab!LockRow, Jab!Learned
    <3>3. CASE Jab!RejectRange
      <4> DEFINE edge == Jab!FindEdge(jabAccepts["headset"], jabPage[jabOp.row], jabOp.val)
                 values == IF jabOp.val > jabPage[jabOp.row]
                           THEN {v \in jabOffered[jabOp.row] : v <= edge}
                           ELSE {v \in jabOffered[jabOp.row] : v >= edge}
      <4>1. Jab!Learned(jabOp.row, values)
        BY <3>3 DEF Jab!RejectRange
      <4>2. values \in SUBSET (0..Top)
        BY <1>3
      <4> HIDE DEF values
      <4>3. QED BY <4>1, <4>2 DEF Jab!Learned
    <3>4. QED BY <1>5, <3>1, <3>2, <3>3
  <2>2. jabOffered' \in JabLimits /\ jabLimits' \in JabLimits
    BY <1>3, <2>1, JabLimitsChange
  <2>3. CASE ~Jab!RejectRange
    <3>1. UNCHANGED <<jabHw, jabPage, jabNews, jabDropped>>
      BY <1>5, <2>3 DEF Jab!RejectChoice, Jab!LockRow, Jab!history
    <3>2. QED BY <1>1, <1>2, <1>3, <2>2, <3>1, JabLimitsAreThere DEF JabTyped
  <2>4. CASE Jab!RejectRange
    <3>1. PICK ends \in 0..Top :
             /\ ends \in jabAccepts["headset"]
             /\ jabHw' = [jabHw EXCEPT !["headset"] = ends]
             /\ jabPage' = [jabPage EXCEPT ![jabOp.row] = ends]
      <4> DEFINE edge == Jab!FindEdge(jabAccepts["headset"], jabPage[jabOp.row], jabOp.val)
                 ends == IF edge \in jabAccepts["headset"] THEN edge ELSE jabHw["headset"]
      <4>1. ends \in jabAccepts["headset"] /\ jabAccepts["headset"] \in SUBSET (0..Top)
        BY DEF JabTyped, JabEnds, JabLimits
      <4>2. /\ jabHw' = [jabHw EXCEPT !["headset"] = ends]
            /\ jabPage' = [jabPage EXCEPT ![jabOp.row] = ends]
        BY <2>4 DEF Jab!RejectRange
      <4> HIDE DEF ends
      <4>3. QED BY <4>1, <4>2
    <3>2. jabNews' = TRUE /\ jabDropped' = FALSE
      BY <2>4 DEF Jab!RejectRange
    <3>3. "headset" \in JabEnds /\ jabHw \in JabValues
      BY DEF JabEnds, JabTyped
    <3>4. /\ jabHw' \in JabValues /\ jabPage' \in JabValues
          /\ \A d \in JabEnds : jabHw'[d] = IF d = "headset" THEN ends ELSE jabHw[d]
      <4> DEFINE new == [jabHw EXCEPT !["headset"] = ends]
                 shown == [jabPage EXCEPT ![jabOp.row] = ends]
      <4>1. new \in JabValues /\ \A d \in JabEnds : new[d] = IF d = "headset" THEN ends ELSE jabHw[d]
        BY <3>3, JabValuesChange
      <4>2. shown \in JabValues
        BY <1>3, JabValuesChange
      <4>3. jabHw' = new /\ jabPage' = shown
        BY <3>1
      <4> HIDE DEF new, shown
      <4>4. QED BY <4>1, <4>2, <4>3
    <3>5. \A d \in JabEnds : jabHw'[d] \in jabAccepts'[d]
      BY <1>1, <3>1, <3>4 DEF JabTyped
    <3>6. QED BY <1>1, <1>2, <2>2, <3>2, <3>4, <3>5, JabLimitsAreThere DEF JabTyped
  <2>5. QED BY <2>3, <2>4
<1>6. QED BY <1>4, <1>5

LEMMA JabTypeNext == JabTyped /\ (Jab!Next \/ UNCHANGED jabVars) => JabTyped'
<1> SUFFICES ASSUME JabTyped, Jab!Next \/ UNCHANGED jabVars PROVE JabTyped'
  OBVIOUS
<1>1. CASE UNCHANGED jabVars
  BY <1>1 DEF jabVars, JabTyped, JabPendingIs
<1>2. ASSUME NEW row \in Jab!Ends, NEW v \in Jab!Catalogue, Jab!Set(row, v)
      PROVE  JabTyped'
  BY <1>2, JabTypeSet
<1>3. ASSUME NEW v \in Jab!Catalogue, Jab!Touch(v)
      PROVE  JabTyped'
  BY <1>3, JabTypeTouch DEF Jab!Catalogue
<1>4. QED BY <1>1, <1>2, <1>3, JabTypePage, JabTypeOnItsWay, JabTypeEnd DEF Jab!Next, Jab!Write, Jab!Changes

-----------------------------------------------------------------------------
(* JabraHeadset: the page. *)

\* What the poll read is what the headset holds, or there is news of what it holds since; what a
\* write was read back as it still holds, unless the wearer was at it; and a page with nothing to
\* come shows it.
JabFollows ==
    /\ jabPoll \in {"read", "passed"} => jabNews \/ jabRead = jabHw["headset"]
    /\ (jabOp # None /\ jabOp.at = "landed" /\ jabClean) => jabHw[jabOp.row] = jabOp.val
    /\ (jabOffered # None /\ jabClean /\ ~jabDropped /\ ~jabNews /\ jabPoll = "idle")
          => jabPage["headset"] = jabHw["headset"]

LEMMA JabFollowsInit == Jab!Init => JabFollows
BY DEF Jab!Init, JabFollows

LEMMA JabFollowsPage ==
    ASSUME JabTyped, JabFollows, Jab!Connect \/ Jab!Disconnect \/ Jab!Changes
    PROVE  JabFollows'
<1> USE DEF JabFollows
<1>1. CASE Jab!Connect
  BY <1>1 DEF Jab!Connect, Jab!nature, Jab!poll, Jab!history, JabTyped
<1>2. CASE Jab!Disconnect
  BY <1>2 DEF Jab!Disconnect, Jab!nature, Jab!history
<1>3. CASE Jab!Drain
  <2>1. /\ jabPoll' \in {"reread", "idle"} /\ (jabPoll' = "idle" => jabDropped')
        /\ UNCHANGED <<jabHw, jabOffered, jabPage, jabRead, jabOp, jabClean>>
    BY <1>3 DEF Jab!Drain, Jab!nature
  <2>2. QED BY <2>1
<1>4. CASE Jab!ReadAgain
  BY <1>4 DEF Jab!ReadAgain, Jab!nature, Jab!history
<1>5. CASE Jab!FilterStale
  <2>1. /\ jabPoll = "read" /\ jabPoll' \in {"passed", "idle"} /\ (jabPoll' = "idle" => jabDropped')
        /\ UNCHANGED <<jabHw, jabOffered, jabPage, jabNews, jabRead, jabOp, jabClean>>
    BY <1>5 DEF Jab!FilterStale, Jab!nature
  <2>2. QED BY <2>1
<1>6. CASE Jab!Emit
  <2>1. /\ jabPoll = "passed" /\ jabPage' = [jabPage EXCEPT !["headset"] = jabRead] /\ jabPoll' = "idle"
        /\ UNCHANGED <<jabHw, jabOffered, jabNews, jabOp, jabClean, jabDropped>>
    BY <1>6 DEF Jab!Emit, Jab!ShowPolled, Jab!nature, Jab!history
  <2>2. jabPage \in JabValues /\ "headset" \in JabEnds
    BY <2>1 DEF JabTyped, JabEnds
  <2>3. jabPage'["headset"] = jabRead
    BY <2>1, <2>2 DEF JabValues
  <2>4. QED BY <2>1, <2>3
<1>7. QED BY <1>1, <1>2, <1>3, <1>4, <1>5, <1>6 DEF Jab!Changes

LEMMA JabFollowsWrite ==
    ASSUME JabTyped, JabFollows, Jab!Write
    PROVE  JabFollows'
<1> USE DEF JabFollows
<1>1. jabOp # None /\ jabOp \in JabWrites /\ jabOp.row \in JabEnds /\ jabPage \in JabValues
      /\ jabOffered # None /\ jabHw \in JabValues
  <2>1. jabOp # None
    BY DEF Jab!Write, Jab!Accepted, Jab!Declined, Jab!ReadBack, Jab!Land, Jab!RejectChoice,
           Jab!RejectRange, Jab!LockRow, Jab!At
  <2>2. QED BY <2>1, JabOperation DEF JabTyped
<1>2. CASE Jab!Accepted
  <2>1. /\ jabHw' = [jabHw EXCEPT ![jabOp.row] = jabOp.val] /\ jabOp' = [jabOp EXCEPT !.at = "acked"]
        /\ jabNews' = (jabNews \/ jabOp.row = "headset")
        /\ UNCHANGED <<jabOffered, jabPage, jabPoll, jabRead, jabClean, jabDropped>>
    BY <1>2 DEF Jab!Accepted, Jab!nature, Jab!poll, Jab!history
  <2>2. jabOp'.at = "acked"
    BY <1>1, <2>1, JabOperation
  <2>3. CASE jabOp.row = "headset"
    <3>1. jabNews' = TRUE
      BY <2>1, <2>3
    <3>2. QED BY <2>1, <2>2, <3>1
  <2>4. CASE jabOp.row # "headset"
    <3>1. jabHw'["headset"] = jabHw["headset"]
      BY <1>1, <2>1, <2>4 DEF JabValues
    <3>2. QED BY <2>1, <2>2, <2>4, <3>1
  <2>5. QED BY <2>3, <2>4
<1>3. CASE Jab!Declined \/ Jab!ReadBack
  <2>1. UNCHANGED <<jabHw, jabOffered, jabPage, jabNews, jabPoll, jabRead, jabClean, jabDropped>>
    BY <1>3 DEF Jab!Declined, Jab!ReadBack, Jab!nature, Jab!poll, Jab!history
  <2>2. jabOp'.row = jabOp.row /\ jabOp'.val = jabOp.val
    BY <1>3, JabTypeOnItsWay
  <2>3. jabOp'.at = "landed" => jabHw[jabOp.row] = jabOp.val
    <3>1. CASE Jab!Declined
      BY <1>1, <3>1, JabOperation DEF Jab!Declined
    <3>2. CASE Jab!ReadBack
      BY <1>1, <3>2, JabOperation DEF Jab!ReadBack
    <3>3. QED BY <1>3, <3>1, <3>2
  <2>4. QED BY <2>1, <2>2, <2>3
<1>4. CASE Jab!Land
  <2>1. /\ jabOp.at = "landed" /\ jabPage' = [jabPage EXCEPT ![jabOp.row] = jabOp.val] /\ jabOp' = None
        /\ jabDropped' = (jabDropped /\ jabOp.row # "headset")
        /\ UNCHANGED <<jabHw, jabOffered, jabNews, jabPoll, jabRead, jabClean>>
    BY <1>4 DEF Jab!Land, Jab!At, Jab!nature, Jab!poll
  <2>2. jabPage'["headset"] = IF jabOp.row = "headset" THEN jabOp.val ELSE jabPage["headset"]
    BY <1>1, <2>1 DEF JabValues, JabEnds
  <2>3. QED BY <1>1, <2>1, <2>2
<1>5. CASE Jab!RejectChoice \/ Jab!LockRow
  <2>1. /\ jabOp' = None
        /\ UNCHANGED <<jabHw, jabPage, jabNews, jabPoll, jabRead, jabClean, jabDropped>>
    BY <1>5 DEF Jab!RejectChoice, Jab!LockRow, Jab!Learned, Jab!nature, Jab!poll, Jab!history
  <2>2. QED BY <1>1, <2>1
<1>6. CASE Jab!RejectRange
  <2>1. jabOp' = None /\ jabNews' = TRUE
    BY <1>6 DEF Jab!RejectRange, Jab!Learned
  <2>2. QED BY <2>1
<1>7. QED BY <1>2, <1>3, <1>4, <1>5, <1>6 DEF Jab!Write

LEMMA JabFollowsNext == JabTyped /\ JabFollows /\ (Jab!Next \/ UNCHANGED jabVars) => JabFollows'
<1> SUFFICES ASSUME JabTyped, JabFollows, Jab!Next \/ UNCHANGED jabVars PROVE JabFollows'
  OBVIOUS
<1>1. CASE UNCHANGED jabVars
  BY <1>1 DEF jabVars, JabFollows
<1>2. ASSUME NEW row \in Jab!Ends, NEW v \in Jab!Catalogue, Jab!Set(row, v)
      PROVE  JabFollows'
  <2> DEFINE op == [row |-> row, val |-> v, at |-> "sent"]
  <2>1. /\ jabOp' = op
        /\ UNCHANGED <<jabHw, jabOffered, jabPage, jabNews, jabPoll, jabRead, jabClean, jabDropped>>
    BY <1>2 DEF Jab!Set, Jab!nature, Jab!poll, Jab!history
  <2>2. op.at # "landed"
    OBVIOUS
  <2>3. QED BY <2>1, <2>2 DEF JabFollows
<1>3. ASSUME NEW v \in Jab!Catalogue, Jab!Touch(v)
      PROVE  JabFollows'
  BY <1>3 DEF Jab!Touch, Jab!poll, JabFollows
<1>4. QED BY <1>1, <1>2, <1>3, JabFollowsPage, JabFollowsWrite DEF Jab!Next

LEMMA JabSettles ==
    ASSUME JabTyped, JabFollows
    PROVE  Jab!PageSettles
BY DEF JabFollows, JabTyped, Jab!PageSettles, Jab!AtRest

-----------------------------------------------------------------------------
(* DeckardSession: the types. *)

DkEnds == {"headset", "adapter"}
DkEvents == [t : {"event"}, val : Levels, end : DkEnds]
DkAnswers == [t : {"set", "get"}, val : Levels, end : {None}]
DkFrames == DkEvents \cup DkAnswers
DkRequests == [t : {"set", "get"}, end : DkEnds, val : Levels \cup {None}]
DkOperations == [row : DkEnds, val : Levels \cup {None}, at : {"set", "get"}, tries : Nat]

\* An operation runs in a session, which takes a link that was opened; a request waits under the
\* operation it is of; what is written is a value.
DkTyped ==
    /\ dkLink \in {"closed", "open", "gone"} /\ dkSession \in BOOLEAN
    /\ dkAddr \in DkEnds /\ dkHw \in [DkEnds -> Levels]
    /\ dkSession => dkLink # "closed" /\ dkPage \in [DkEnds -> Levels]
    /\ dkEvents \in Seq(Levels) /\ Len(dkEvents) <= Stash
    /\ dkAsked \in Seq(DkRequests) /\ dkPipe \in Seq(DkFrames)
    /\ \A i \in 1..Len(dkAsked) : dkAsked[i].t = "set" => dkAsked[i].val \in Levels
    /\ dkOp \in DkOperations \cup {None}
    /\ dkOp # None => dkSession /\ (dkOp.at = "set" => dkOp.val # None)
    /\ dkCall \in {None, "set", "get"} /\ (dkCall # None => dkOp # None /\ dkCall = dkOp.at)

LEMMA DkApart ==
    /\ None \notin Levels /\ None # "set" /\ None # "get" /\ None \notin DkOperations
    /\ Attempts \in Nat /\ Stash \in Nat /\ Stash >= 1
BY PolyAssumption DEF PolyAssumption, DkOperations, DkEnds

LEMMA DkTypeSuffices ==
    ASSUME DkTyped
    PROVE  Dk!TypeOK
BY DEF DkTyped, Dk!TypeOK, DkEnds, Dk!Ends

LEMMA DkTypeInit == Dk!Init => DkTyped
<1> SUFFICES ASSUME Dk!Init PROVE DkTyped
  OBVIOUS
<1>1. (CHOOSE v \in Levels : TRUE) \in Levels
  BY PolyAssumption DEF PolyAssumption
<1> DEFINE some == CHOOSE v \in Levels : TRUE
<1>2. dkHw = [e \in DkEnds |-> some] /\ some \in Levels
  BY <1>1 DEF Dk!Init, DkEnds, Dk!Ends
<1> HIDE DEF some
<1>3. dkHw \in [DkEnds -> Levels]
  BY <1>2
<1>4. <<>> \in Seq(Levels) /\ <<>> \in Seq(DkRequests) /\ <<>> \in Seq(DkFrames) /\ Len(<<>>) = 0
  OBVIOUS
<1>5. /\ dkLink = "closed" /\ dkSession = FALSE /\ dkAddr \in DkEnds
      /\ dkAsked = <<>> /\ dkPipe = <<>> /\ dkEvents = <<>> /\ dkOp = None /\ dkCall = None
  BY DEF Dk!Init, DkEnds
<1>6. /\ dkEvents \in Seq(Levels) /\ Len(dkEvents) <= Stash /\ dkAsked \in Seq(DkRequests)
      /\ dkPipe \in Seq(DkFrames) /\ \A i \in 1..Len(dkAsked) : FALSE
  BY <1>4, <1>5, DkApart
<1>7. QED BY <1>3, <1>5, <1>6 DEF DkTyped

\* What the fields of an operation may become.
LEMMA DkOperation ==
    ASSUME NEW op \in DkOperations
    PROVE  /\ op.row \in DkEnds /\ op.val \in Levels \cup {None} /\ op.at \in {"set", "get"}
           /\ [op EXCEPT !.at = "get"] \in DkOperations
           /\ [op EXCEPT !.at = "get"].at = "get"
           /\ [op EXCEPT !.at = "get"].row = op.row
           /\ [op EXCEPT !.at = "get"].val = op.val
           /\ [op EXCEPT !.row = "adapter"] \in DkOperations
           /\ [op EXCEPT !.row = "adapter"].at = op.at
           /\ [op EXCEPT !.row = "adapter"].row = "adapter"
           /\ [op EXCEPT !.row = "adapter"].val = op.val
           /\ op.tries > 1 =>
                /\ [op EXCEPT !.tries = @ - 1] \in DkOperations
                /\ [op EXCEPT !.tries = @ - 1].at = op.at
                /\ [op EXCEPT !.tries = @ - 1].row = op.row
                /\ [op EXCEPT !.tries = @ - 1].val = op.val
BY DEF DkOperations, DkEnds

\* The values of what is kept of a list of frames.
DkValues(frames) ==
    LET met == Dk!Filtered(frames, Dk!Events) IN [i \in 1..Len(met) |-> met[i].val]

\* The last event of some frames, if there is one, is the last value of theirs.
LEMMA DkMembers ==
    ASSUME NEW frames \in Seq(DkFrames)
    PROVE  LET met == Dk!Filtered(frames, Dk!Events) IN
           /\ met \in Seq(DkEvents)
           /\ DkValues(frames) \in Seq(Levels) /\ Len(DkValues(frames)) = Len(met)
           /\ \A i \in 1..Len(frames) : frames[i].t = "event" => \E j \in 1..Len(met) : met[j] = frames[i]
           /\ DkValues(frames) = <<>> => \A i \in 1..Len(frames) : frames[i].t # "event"
           /\ met = <<>> => DkValues(frames) = <<>>
           /\ DkValues(frames) # <<>> =>
                 \E i \in 1..Len(frames) :
                    /\ frames[i].t = "event" /\ \A j \in (i + 1)..Len(frames) : frames[j].t # "event"
                    /\ DkValues(frames)[Len(DkValues(frames))] = frames[i].val
<1> DEFINE met == Filtered(frames, DkEvents)
           values == [i \in 1..Len(met) |-> met[i].val]
<1>1. Dk!Filtered(frames, Dk!Events) = met
  BY DEF Dk!Filtered, Dk!FilteredPrefix, Filtered, FilteredPrefix, Dk!Events, DkEvents, Dk!Ends, DkEnds
<1>2. DkValues(frames) = values
  BY <1>1 DEF DkValues
<1>3. met \in Seq(DkEvents) /\ Len(met) \in Nat
  <2>1. met \in Seq(DkFrames \cap DkEvents)
    BY FilteredType
  <2>2. DkFrames \cap DkEvents = DkEvents
    BY DEF DkFrames
  <2>3. QED BY <2>1, <2>2
<1>4. KeepsMembers(frames, DkEvents)
  BY FilteredMembers
<1>5. \A i \in 1..Len(frames) : frames[i].t = "event" <=> frames[i] \in DkEvents
  <2>1. \A f \in DkFrames : f.t = "event" <=> f \in DkEvents
    BY DEF DkFrames, DkEvents, DkAnswers
  <2>2. QED BY <2>1
<1>6. /\ \A i \in 1..Len(frames) : frames[i] \in DkEvents => \E j \in 1..Len(met) : met[j] = frames[i]
      /\ met # <<>> => \E i \in 1..Len(frames) : LastIn(frames, DkEvents, i) /\ met[Len(met)] = frames[i]
  BY <1>4 DEF KeepsMembers
<1> HIDE DEF met
<1>7. \A i \in 1..Len(met) : met[i].val \in Levels
  <2>1. \A e \in DkEvents : e.val \in Levels
    BY DEF DkEvents
  <2>2. QED BY <1>3, <2>1
<1>8. values \in Seq(Levels) /\ Len(values) = Len(met) /\ \A i \in 1..Len(met) : values[i] = met[i].val
  BY <1>3, <1>7
<1>9. values = <<>> <=> met = <<>>
  BY <1>3, <1>8
<1> HIDE DEF values
<1>10. values = <<>> => \A i \in 1..Len(frames) : frames[i].t # "event"
  <2>1. values = <<>> => Len(met) = 0
    BY <1>9
  <2>2. QED BY <2>1, <1>5, <1>6
<1>11. ASSUME values # <<>>
       PROVE  \E i \in 1..Len(frames) :
                 /\ frames[i].t = "event" /\ \A j \in (i + 1)..Len(frames) : frames[j].t # "event"
                 /\ values[Len(values)] = frames[i].val
  <2>1. PICK i \in 1..Len(frames) : LastIn(frames, DkEvents, i) /\ met[Len(met)] = frames[i]
    BY <1>6, <1>9, <1>11
  <2>2. Len(met) \in 1..Len(met)
    BY <1>3, <1>9, <1>11
  <2>3. values[Len(values)] = frames[i].val
    BY <1>8, <2>1, <2>2
  <2>4. frames[i].t = "event" /\ \A j \in (i + 1)..Len(frames) : frames[j].t # "event"
    BY <2>1, <1>5 DEF LastIn
  <2>5. QED BY <2>3, <2>4
<1>12. \A i \in 1..Len(frames) : frames[i].t = "event" => \E j \in 1..Len(met) : met[j] = frames[i]
  BY <1>5, <1>6
<1>13. QED BY <1>1, <1>2, <1>3, <1>8, <1>9, <1>10, <1>11, <1>12

\* The stash keeps the end of what came.
LEMMA DkKept ==
    ASSUME NEW q \in Seq(Levels)
    PROVE  /\ Dk!Kept(q) \in Seq(Levels) /\ Len(Dk!Kept(q)) <= Stash
           /\ Dk!Kept(q) = <<>> => q = <<>>
           /\ q # <<>> => Dk!Kept(q) # <<>> /\ Dk!Last(Dk!Kept(q)) = Dk!Last(q)
<1>1. Len(q) \in Nat /\ Stash \in Nat /\ Stash >= 1
  BY DkApart
<1>2. CASE Len(q) <= Stash
  BY <1>2 DEF Dk!Kept
<1>3. CASE ~(Len(q) <= Stash)
  <2> DEFINE end == SubSeq(q, Len(q) - Stash + 1, Len(q))
  <2>1. Dk!Kept(q) = end
    BY <1>3 DEF Dk!Kept
  <2>2. Len(q) - Stash + 1 \in 1..Len(q)
    BY <1>1, <1>3
  <2>3. end \in Seq(Levels) /\ Len(end) = Stash
    BY <1>1, <1>3
  <2>4. end[Stash] = q[Len(q)]
    <3> DEFINE m == Len(q) - Stash + 1
    <3>1. m \in 1..Len(q) /\ Len(q) - m + 1 = Stash /\ m + Stash - 1 = Len(q)
      BY <1>1, <1>3
    <3> HIDE DEF m
    <3>2. \A i \in 1..(Len(q) - m + 1) : SubSeq(q, m, Len(q))[i] = q[m + i - 1]
      BY <3>1
    <3>3. Stash \in 1..(Len(q) - m + 1)
      BY <1>1, <3>1
    <3>4. SubSeq(q, m, Len(q))[Stash] = q[Len(q)]
      BY <3>1, <3>2, <3>3
    <3>5. QED BY <3>4 DEF m
  <2> HIDE DEF end
  <2>5. end # <<>>
    BY <1>1, <2>3
  <2>6. QED BY <2>1, <2>3, <2>4, <2>5 DEF Dk!Last
<1>4. QED BY <1>2, <1>3

\* What joins two lists ends as the second, or as the first when the second is empty.
LEMMA DkJoined ==
    ASSUME NEW p \in Seq(Levels), NEW q \in Seq(Levels)
    PROVE  /\ p \o q \in Seq(Levels)
           /\ p \o q = <<>> => p = <<>> /\ q = <<>>
           /\ q # <<>> => p \o q # <<>> /\ Dk!Last(p \o q) = Dk!Last(q)
           /\ q = <<>> => p \o q = p
<1>1. p \o q \in Seq(Levels) /\ Len(p \o q) = Len(p) + Len(q) /\ Len(p) \in Nat /\ Len(q) \in Nat
  OBVIOUS
<1>2. ASSUME q # <<>>
      PROVE  p \o q # <<>> /\ Dk!Last(p \o q) = Dk!Last(q)
  <2>1. Len(q) \in 1..Len(q)
    BY <1>2, <1>1
  <2>2. (p \o q)[Len(p) + Len(q)] = q[Len(q)]
    BY <2>1
  <2>3. QED BY <1>1, <2>1, <2>2 DEF Dk!Last
<1>3. q = <<>> => p \o q = p
  OBVIOUS
<1>4. p \o q = <<>> => p = <<>> /\ q = <<>>
  BY <1>1
<1>5. QED BY <1>1, <1>2, <1>3, <1>4

\* What receiving the first n frames does, the first upto of which it looks at.
DkReceived(n, upto, events) ==
    /\ dkPipe' \in Seq(DkFrames) /\ Len(dkPipe') = Len(dkPipe) - n
    /\ \A i \in 1..Len(dkPipe') : dkPipe'[i] = dkPipe[i + n]
    /\ events \in Seq(Levels) /\ Len(events) <= Stash
    /\ events = <<>> => dkEvents = <<>> /\ \A i \in 1..upto : dkPipe[i].t # "event"
    /\ events # <<>> =>
          \/ /\ \A i \in 1..upto : dkPipe[i].t # "event"
             /\ dkEvents # <<>> /\ Dk!Last(events) = Dk!Last(dkEvents)
          \/ \E i \in 1..upto :
                /\ dkPipe[i].t = "event" /\ \A j \in (i + 1)..upto : dkPipe[j].t # "event"
                /\ Dk!Last(events) = dkPipe[i].val
    /\ dkTrouble' = {} =>
          /\ dkTrouble = {} /\ \A i \in (upto + 1)..n : dkPipe[i].t # "event"
          /\ \A i \in 1..upto : dkPipe[i].t = "event" => dkPipe[i].end # "adapter"
    /\ \/ /\ upto = n /\ \A i \in 1..n : dkPipe[i].t # dkCall
          /\ dkEvents' = events /\ UNCHANGED <<dkCall, dkOp, dkPage, dkAddr>>
       \/ /\ dkPipe[upto].t = dkCall /\ dkCall' = None
          /\ IF dkCall = "set" THEN dkEvents' = <<>> /\ Dk!Confirming(events)
             ELSE dkEvents' = events /\ Dk!ReadingOf(dkPipe[upto].val)

LEMMA DkReceives ==
    ASSUME DkTyped, Dk!Receive
    PROVE  /\ \E n \in 1..Len(dkPipe) : \E upto \in 1..n, events \in Seq(Levels) : DkReceived(n, upto, events)
           /\ dkCall # None /\ UNCHANGED <<dkHw, dkAsked, dkLink, dkSession, dkPressed, dkCount>>
<1> DEFINE own(n) == {i \in 1..n : SubSeq(dkPipe, 1, n)[i].t = dkCall}
           upto(n) == IF own(n) = {} THEN n ELSE CHOOSE i \in own(n) : \A j \in own(n) : i <= j
           front(n) == SubSeq(SubSeq(dkPipe, 1, n), 1, upto(n))
           behind(n) == SubSeq(SubSeq(dkPipe, 1, n), upto(n) + 1, n)
           met(n) == Dk!Filtered(front(n), Dk!Events)
           events(n) == Dk!Kept(dkEvents \o DkValues(front(n)))
<1>1. PICK n \in 1..Len(dkPipe) :
        /\ dkPipe' = SubSeq(dkPipe, n + 1, Len(dkPipe))
        /\ dkTrouble' = dkTrouble
              \cup (IF Dk!Filtered(behind(n), Dk!Events) # <<>> THEN {"dropped"} ELSE {})
              \cup (IF \E i \in 1..Len(met(n)) : met(n)[i].end = "adapter" THEN {"foreign"} ELSE {})
        /\ IF own(n) = {} THEN dkEvents' = events(n) /\ UNCHANGED <<dkCall, dkOp, dkPage, dkAddr>>
           ELSE /\ dkCall' = None
                /\ IF dkCall = "set" THEN dkEvents' = <<>> /\ Dk!Confirming(events(n))
                   ELSE dkEvents' = events(n) /\ Dk!ReadingOf(SubSeq(dkPipe, 1, n)[upto(n)].val)
  BY DEF Dk!Receive, DkValues
<1>2. dkPipe \in Seq(DkFrames) /\ Len(dkPipe) \in Nat
  BY DEF DkTyped
<1>3. /\ SubSeq(dkPipe, 1, n) \in Seq(DkFrames) /\ Len(SubSeq(dkPipe, 1, n)) = n
      /\ \A i \in 1..n : SubSeq(dkPipe, 1, n)[i] = dkPipe[i]
  BY <1>2
<1>4. upto(n) \in 1..n /\ (own(n) = {} => upto(n) = n) /\ (own(n) # {} => dkPipe[upto(n)].t = dkCall)
  <2>1. CASE own(n) = {}
    BY <2>1
  <2>2. CASE own(n) # {}
    <3>1. own(n) \in SUBSET Nat /\ own(n) \subseteq 1..n
      OBVIOUS
    <3>2. \E i \in own(n) : \A j \in own(n) : i <= j
      BY <2>2, <3>1, LeastMember
    <3>3. upto(n) \in own(n)
      BY <2>2, <3>2
    <3>4. QED BY <2>2, <3>3, <1>3
  <2>3. QED BY <2>1, <2>2
<1>5. own(n) = {} => \A i \in 1..n : dkPipe[i].t # dkCall
  BY <1>3
<1> HIDE DEF own, upto
<1>6. /\ front(n) \in Seq(DkFrames) /\ Len(front(n)) = upto(n)
      /\ \A i \in 1..upto(n) : front(n)[i] = dkPipe[i]
  BY <1>3, <1>4
<1>7. /\ behind(n) \in Seq(DkFrames) /\ Len(behind(n)) = n - upto(n)
      /\ \A i \in 1..(n - upto(n)) : behind(n)[i] = dkPipe[i + upto(n)]
  BY <1>3, <1>4
<1>8. /\ dkPipe' \in Seq(DkFrames) /\ Len(dkPipe') = Len(dkPipe) - n
      /\ \A i \in 1..Len(dkPipe') : dkPipe'[i] = dkPipe[i + n]
  BY <1>1, <1>2
<1> HIDE DEF front, behind
<1>9. /\ DkValues(front(n)) \in Seq(Levels)
      /\ \A i \in 1..upto(n) : dkPipe[i].t = "event" => \E j \in 1..Len(met(n)) : met(n)[j] = dkPipe[i]
      /\ DkValues(front(n)) = <<>> => \A i \in 1..upto(n) : dkPipe[i].t # "event"
      /\ DkValues(front(n)) # <<>> =>
            \E i \in 1..upto(n) :
               /\ dkPipe[i].t = "event" /\ \A j \in (i + 1)..upto(n) : dkPipe[j].t # "event"
               /\ Dk!Last(DkValues(front(n))) = dkPipe[i].val
  <2>1. upto(n) \in Nat
    BY <1>4
  <2> DEFINE fr == front(n)
             values == DkValues(fr)
             kept == Dk!Filtered(fr, Dk!Events)
  <2>2. /\ values \in Seq(Levels)
        /\ \A i \in 1..Len(fr) : fr[i].t = "event" => \E j \in 1..Len(kept) : kept[j] = fr[i]
        /\ values = <<>> => \A i \in 1..Len(fr) : fr[i].t # "event"
        /\ values # <<>> =>
              \E i \in 1..Len(fr) :
                 /\ fr[i].t = "event" /\ \A j \in (i + 1)..Len(fr) : fr[j].t # "event"
                 /\ Dk!Last(values) = fr[i].val
    <3>1. fr \in Seq(DkFrames)
      BY <1>6
    <3> HIDE DEF fr
    <3>2. QED BY <3>1, DkMembers DEF Dk!Last
  <2>3. Len(fr) = upto(n) /\ \A i \in 1..upto(n) : fr[i] = dkPipe[i]
    BY <1>6
  <2> HIDE DEF fr, values, kept
  <2>4. \A i \in 1..upto(n) : dkPipe[i].t = "event" => \E j \in 1..Len(kept) : kept[j] = dkPipe[i]
    BY <2>2, <2>3
  <2>5. values = <<>> => \A i \in 1..upto(n) : dkPipe[i].t # "event"
    BY <2>2, <2>3
  <2>6. ASSUME values # <<>>
        PROVE  \E i \in 1..upto(n) :
                  /\ dkPipe[i].t = "event" /\ \A j \in (i + 1)..upto(n) : dkPipe[j].t # "event"
                  /\ Dk!Last(values) = dkPipe[i].val
    <3>1. PICK i \in 1..upto(n) :
             /\ fr[i].t = "event" /\ \A j \in (i + 1)..upto(n) : fr[j].t # "event"
             /\ Dk!Last(values) = fr[i].val
      BY <2>2, <2>3, <2>6
    <3>2. \A j \in (i + 1)..upto(n) : j \in 1..upto(n)
      BY <2>1
    <3>3. QED BY <2>3, <3>1, <3>2
  <2>7. QED BY <2>2, <2>4, <2>5, <2>6 DEF fr, values, kept
<1>10. Dk!Filtered(behind(n), Dk!Events) = <<>> => \A i \in (upto(n) + 1)..n : dkPipe[i].t # "event"
  <2> SUFFICES ASSUME Dk!Filtered(behind(n), Dk!Events) = <<>>, NEW i \in (upto(n) + 1)..n
               PROVE  dkPipe[i].t # "event"
    OBVIOUS
  <2>1. \A j \in 1..(n - upto(n)) : behind(n)[j].t # "event"
    BY <1>7, DkMembers
  <2>2. i - upto(n) \in 1..(n - upto(n)) /\ (i - upto(n)) + upto(n) = i
    BY <1>4
  <2>3. QED BY <1>7, <2>1, <2>2
<1>11. /\ events(n) \in Seq(Levels) /\ Len(events(n)) <= Stash
       /\ events(n) = <<>> => dkEvents = <<>> /\ DkValues(front(n)) = <<>>
       /\ DkValues(front(n)) # <<>> => events(n) # <<>> /\ Dk!Last(events(n)) = Dk!Last(DkValues(front(n)))
       /\ DkValues(front(n)) = <<>> /\ dkEvents # <<>> => Dk!Last(events(n)) = Dk!Last(dkEvents)
       /\ DkValues(front(n)) = <<>> /\ dkEvents = <<>> => events(n) = <<>>
  <2> DEFINE values == DkValues(front(n))
             all == dkEvents \o values
  <2>1. dkEvents \in Seq(Levels) /\ values \in Seq(Levels)
    BY <1>9 DEF DkTyped
  <2>2. /\ all \in Seq(Levels)
        /\ all = <<>> => dkEvents = <<>> /\ values = <<>>
        /\ values # <<>> => all # <<>> /\ Dk!Last(all) = Dk!Last(values)
        /\ values = <<>> => all = dkEvents
    BY <2>1, DkJoined
  <2> HIDE DEF values, all
  <2>3. /\ Dk!Kept(all) \in Seq(Levels) /\ Len(Dk!Kept(all)) <= Stash
        /\ Dk!Kept(all) = <<>> => all = <<>>
        /\ all # <<>> => Dk!Kept(all) # <<>> /\ Dk!Last(Dk!Kept(all)) = Dk!Last(all)
    BY <2>2, DkKept
  <2>4. Dk!Kept(<<>>) = <<>>
    BY DkApart DEF Dk!Kept
  <2>5. events(n) = Dk!Kept(all)
    BY DEF all, values
  <2>6. QED BY <2>2, <2>3, <2>4, <2>5 DEF values
<1>12. dkTrouble' = {} =>
          /\ dkTrouble = {} /\ Dk!Filtered(behind(n), Dk!Events) = <<>>
          /\ \A i \in 1..Len(met(n)) : met(n)[i].end # "adapter"
  BY <1>1
<1> HIDE DEF met, events
<1>13. DkReceived(n, upto(n), events(n))
  <2>1. events(n) # <<>> =>
          \/ /\ \A i \in 1..upto(n) : dkPipe[i].t # "event"
             /\ dkEvents # <<>> /\ Dk!Last(events(n)) = Dk!Last(dkEvents)
          \/ \E i \in 1..upto(n) :
                /\ dkPipe[i].t = "event" /\ \A j \in (i + 1)..upto(n) : dkPipe[j].t # "event"
                /\ Dk!Last(events(n)) = dkPipe[i].val
    BY <1>9, <1>11
  <2>2. dkTrouble' = {} =>
          /\ dkTrouble = {} /\ \A i \in (upto(n) + 1)..n : dkPipe[i].t # "event"
          /\ \A i \in 1..upto(n) : dkPipe[i].t = "event" => dkPipe[i].end # "adapter"
    BY <1>9, <1>10, <1>12
  <2>3. \/ /\ upto(n) = n /\ \A i \in 1..n : dkPipe[i].t # dkCall
           /\ dkEvents' = events(n) /\ UNCHANGED <<dkCall, dkOp, dkPage, dkAddr>>
        \/ /\ dkPipe[upto(n)].t = dkCall /\ dkCall' = None
           /\ IF dkCall = "set" THEN dkEvents' = <<>> /\ Dk!Confirming(events(n))
              ELSE dkEvents' = events(n) /\ Dk!ReadingOf(dkPipe[upto(n)].val)
    BY <1>1, <1>3, <1>4, <1>5
  <2>4. events(n) = <<>> => dkEvents = <<>> /\ \A i \in 1..upto(n) : dkPipe[i].t # "event"
    BY <1>9, <1>11
  <2>5. QED BY <1>8, <1>11, <2>1, <2>2, <2>3, <2>4 DEF DkReceived
<1>14. dkCall # None /\ UNCHANGED <<dkHw, dkAsked, dkLink, dkSession, dkPressed, dkCount>>
  BY DEF Dk!Receive, Dk!ends, Dk!state
<1>15. QED BY <1>4, <1>11, <1>13, <1>14

\* What a page becomes when one row of it is painted.
DkPainted(row, v) ==
    /\ dkPage' \in [DkEnds -> Levels]
    /\ \A e \in DkEnds : dkPage'[e] = IF e = row THEN v ELSE dkPage[e]

DkOver == dkOp' = None /\ dkAddr' = "headset"

\* A write that was answered is confirmed, or read back.
LEMMA DkConfirms ==
    ASSUME DkTyped, dkOp # None, dkOp.at = "set", NEW events, Dk!Confirming(events)
    PROVE  \/ /\ events # <<>> /\ Dk!Last(events) = dkOp.val
              /\ DkPainted(dkOp.row, dkOp.val) /\ DkOver
           \/ /\ ~(events # <<>> /\ Dk!Last(events) = dkOp.val)
              /\ dkOp' \in DkOperations /\ dkOp'.at = "get" /\ dkOp'.row = dkOp.row /\ dkOp'.val = dkOp.val
              /\ UNCHANGED <<dkPage, dkAddr>>
<1>1. /\ dkOp \in DkOperations /\ dkOp.val \in Levels /\ dkOp.row \in DkEnds
      /\ dkPage \in [DkEnds -> Levels]
  BY DkOperation DEF DkTyped
<1>2. CASE events # <<>> /\ Dk!Last(events) = dkOp.val
  <2>1. dkPage' = [dkPage EXCEPT ![dkOp.row] = dkOp.val] /\ DkOver
    BY <1>2 DEF Dk!Confirming, Dk!Ended, Dk!Restored, DkOver
  <2>2. QED BY <1>1, <1>2, <2>1 DEF DkPainted
<1>3. CASE ~(events # <<>> /\ Dk!Last(events) = dkOp.val)
  <2>1. dkOp' = [dkOp EXCEPT !.at = "get"] /\ UNCHANGED <<dkPage, dkAddr>>
    BY <1>3 DEF Dk!Confirming
  <2>2. QED BY <1>1, <1>3, <2>1, DkOperation
<1>4. QED BY <1>2, <1>3

\* A reading paints its row, and a refresh goes on; it is tried again; or it ends without.
LEMMA DkReadings ==
    ASSUME DkTyped, dkOp # None, NEW v \in Levels, Dk!ReadingOf(v)
    PROVE  \/ /\ dkOp.val = None /\ DkPainted(dkOp.row, v)
              /\ \/ /\ dkOp.row = "headset"
                    /\ dkOp' \in DkOperations /\ dkOp'.at = dkOp.at /\ dkOp'.row = "adapter" /\ dkOp'.val = None
                    /\ dkAddr' = "adapter"
                 \/ dkOp.row = "adapter" /\ DkOver
           \/ dkOp.val = v /\ DkPainted(dkOp.row, v) /\ DkOver
           \/ /\ dkOp.val # None /\ dkOp.val # v /\ UNCHANGED dkPage
              /\ \/ /\ dkOp' \in DkOperations /\ dkOp'.at = dkOp.at /\ dkOp'.row = dkOp.row /\ dkOp'.val = dkOp.val
                    /\ UNCHANGED dkAddr
                 \/ DkOver
<1>1. /\ dkOp \in DkOperations /\ dkOp.val \in Levels \cup {None} /\ dkOp.row \in DkEnds
      /\ dkPage \in [DkEnds -> Levels]
  BY DkOperation DEF DkTyped
<1>2. CASE dkOp.val = None
  <2>1. dkPage' = [dkPage EXCEPT ![dkOp.row] = v]
    BY <1>2 DEF Dk!ReadingOf
  <2>2. DkPainted(dkOp.row, v)
    BY <1>1, <2>1 DEF DkPainted
  <2>3. CASE dkOp.row = "headset"
    <3>1. dkOp' = [dkOp EXCEPT !.row = "adapter"] /\ dkAddr' = "adapter"
      BY <1>2, <2>3 DEF Dk!ReadingOf
    <3>2. QED BY <1>1, <1>2, <2>2, <2>3, <3>1, DkOperation
  <2>4. CASE dkOp.row # "headset"
    <3>1. dkOp.row = "adapter" /\ DkOver
      BY <1>1, <1>2, <2>4 DEF Dk!ReadingOf, Dk!Ended, Dk!Restored, DkOver, DkEnds
    <3>2. QED BY <1>2, <2>2, <3>1
  <2>5. QED BY <2>3, <2>4
<1>3. CASE dkOp.val # None /\ dkOp.val = v
  <2>1. dkPage' = [dkPage EXCEPT ![dkOp.row] = v] /\ DkOver
    BY <1>3 DEF Dk!ReadingOf, Dk!Ended, Dk!Restored, DkOver
  <2>2. DkPainted(dkOp.row, v)
    BY <1>1, <2>1 DEF DkPainted
  <2>3. QED BY <1>3, <2>1, <2>2
<1>4. CASE dkOp.val # None /\ dkOp.val # v
  <2>1. /\ UNCHANGED dkPage
        /\ IF dkOp.tries > 1 THEN dkOp' = [dkOp EXCEPT !.tries = @ - 1] /\ UNCHANGED dkAddr ELSE DkOver
    BY <1>4 DEF Dk!ReadingOf, Dk!Ended, Dk!Restored, DkOver
  <2>2. QED BY <1>1, <1>4, <2>1, DkOperation
<1>5. QED BY <1>2, <1>3, <1>4

\* A request is addressed to the end whose row is read or written, and to the headset when
\* nothing runs.
DkAddressed == DkTyped /\ Dk!WriteGoesToItsEnd

LEMMA DkAddressedInit == Dk!Init => DkAddressed
BY DkTypeInit DEF Dk!Init, DkAddressed, Dk!WriteGoesToItsEnd

LEMMA DkNothingIsSent ==
    /\ <<>> \in Seq(Levels) /\ Len(<<>>) <= Stash /\ <<>> \in Seq(DkRequests) /\ <<>> \in Seq(DkFrames)
    /\ \A i \in 1..Len(<<>>) : FALSE
<1>1. <<>> \in Seq(Levels) /\ Len(<<>>) = 0 /\ <<>> \in Seq(DkRequests) /\ <<>> \in Seq(DkFrames)
  OBVIOUS
<1>2. QED BY <1>1, DkApart

\* Attaching addresses the headset, and happens only between two operations.
LEMMA DkSessionAddressed ==
    ASSUME DkAddressed, Dk!Connect \/ Dk!Reconnect \/ Dk!Refused \/ Dk!GoesAway
    PROVE  DkAddressed'
<1> USE DEF DkAddressed, Dk!WriteGoesToItsEnd
<1>1. ASSUME Dk!Attached, UNCHANGED <<dkHw, dkOp, dkCall>>, dkOp = None
      PROVE  DkAddressed'
  <2>1. /\ dkLink' = "open" /\ dkSession' = TRUE /\ dkAddr' = "headset" /\ dkPage' = dkHw
        /\ dkAsked' = <<>> /\ dkPipe' = <<>> /\ dkEvents' = <<>>
    BY <1>1 DEF Dk!Attached
  <2>2. "headset" \in DkEnds
    BY DEF DkEnds
  <2>3. /\ dkEvents' \in Seq(Levels) /\ Len(dkEvents') <= Stash /\ dkAsked' \in Seq(DkRequests)
        /\ dkPipe' \in Seq(DkFrames) /\ \A i \in 1..Len(dkAsked') : FALSE
    BY <2>1, DkNothingIsSent
  <2>4. QED BY <1>1, <2>1, <2>2, <2>3 DEF DkTyped
<1>2. CASE Dk!Connect
  <2>1. dkOp = None
    BY <1>2 DEF Dk!Connect, DkTyped
  <2>2. QED BY <1>1, <1>2, <2>1 DEF Dk!Connect
<1>3. CASE Dk!Reconnect
  <2>1. CASE Dk!Attached
    BY <1>1, <1>3, <2>1 DEF Dk!Reconnect
  <2>2. CASE ~Dk!Attached
    <3>1. /\ dkOp = None /\ dkSession' = FALSE
          /\ UNCHANGED <<dkLink, dkAddr, dkPage, dkAsked, dkPipe, dkEvents, dkHw, dkOp, dkCall>>
      BY <1>3, <2>2 DEF Dk!Reconnect
    <3>2. QED BY <3>1 DEF DkTyped
  <2>3. QED BY <2>1, <2>2
<1>4. CASE Dk!Refused
  BY <1>4 DEF Dk!Refused, Dk!ends, DkTyped
<1>5. CASE Dk!GoesAway
  <2>1. /\ dkLink' = "gone" /\ dkAsked' = <<>> /\ dkPipe' = <<>> /\ dkOp = None
        /\ UNCHANGED <<dkSession, dkAddr, dkHw, dkEvents, dkOp, dkCall, dkPage>>
    BY <1>5 DEF Dk!GoesAway
  <2>2. /\ dkAsked' \in Seq(DkRequests) /\ dkPipe' \in Seq(DkFrames) /\ \A i \in 1..Len(dkAsked') : FALSE
    BY <2>1, DkNothingIsSent
  <2>3. QED BY <2>1, <2>2 DEF DkTyped
<1>6. QED BY <1>2, <1>3, <1>4, <1>5

\* An operation borrows the address of its end as it begins.
LEMMA DkBeginAddressed ==
    ASSUME DkAddressed, NEW op \in DkOperations, Dk!Begin(op), dkSession,
           op.at = "set" => op.val # None, dkAddr' = op.row,
           UNCHANGED <<dkLink, dkSession, dkHw, dkAsked, dkPipe, dkEvents, dkCall, dkPage>>
    PROVE  DkAddressed'
<1>1. dkOp = None /\ dkOp' = op /\ op.row \in DkEnds /\ op # None
  BY DkOperation, DkApart DEF Dk!Begin
<1>2. dkCall = None
  BY <1>1 DEF DkAddressed, DkTyped
<1>3. QED BY <1>1, <1>2 DEF DkAddressed, DkTyped, Dk!WriteGoesToItsEnd

LEMMA DkUserAddressed ==
    ASSUME DkAddressed, Dk!Refresh \/ \E row \in Dk!Ends, v \in Levels : Dk!Write(row, v)
    PROVE  DkAddressed'
<1>1. CASE Dk!Refresh
  <2> DEFINE op == [row |-> "headset", val |-> None, at |-> "get", tries |-> 1]
  <2>1. op \in DkOperations /\ op.at = "get" /\ op.row = "headset"
    BY DEF DkOperations, DkEnds
  <2>2. /\ Dk!Begin(op) /\ dkSession /\ dkAddr' = "headset"
        /\ UNCHANGED <<dkLink, dkSession, dkHw, dkAsked, dkPipe, dkEvents, dkCall, dkPage>>
    BY <1>1 DEF Dk!Refresh
  <2> HIDE DEF op
  <2>3. QED BY <2>1, <2>2, DkBeginAddressed
<1>2. ASSUME NEW row \in Dk!Ends, NEW v \in Levels, Dk!Write(row, v)
      PROVE  DkAddressed'
  <2> DEFINE op == [row |-> row, val |-> v, at |-> "set", tries |-> Attempts]
  <2>1. op \in DkOperations /\ op.row = row /\ op.val # None
    BY DkApart DEF DkOperations, DkEnds, Dk!Ends
  <2>2. /\ Dk!Begin(op) /\ dkSession /\ dkAddr' = row
        /\ UNCHANGED <<dkLink, dkSession, dkHw, dkAsked, dkPipe, dkEvents, dkCall, dkPage>>
    BY <1>2 DEF Dk!Write
  <2> HIDE DEF op
  <2>3. QED BY <2>1, <2>2, DkBeginAddressed
<1>3. QED BY <1>1, <1>2

LEMMA DkSendAddressed ==
    ASSUME DkAddressed, Dk!Send
    PROVE  DkAddressed' 
<1> DEFINE request == [t |-> dkOp.at, end |-> dkAddr, val |-> dkOp.val]
<1>1. /\ dkOp # None /\ dkCall = None /\ dkCall' = dkOp.at /\ dkAsked' = Append(dkAsked, request)
      /\ UNCHANGED <<dkAddr, dkHw, dkPipe, dkEvents, dkOp, dkPage, dkLink, dkSession>>
  BY DEF Dk!Send, Dk!state
<1>2. request \in DkRequests /\ (request.t = "set" => request.val \in Levels)
  <2>1. dkOp.at \in {"set", "get"} /\ dkOp.val \in Levels \cup {None} /\ dkAddr \in DkEnds
        /\ (dkOp.at = "set" => dkOp.val # None)
    BY <1>1, DkOperation DEF DkAddressed, DkTyped
  <2>2. QED BY <2>1 DEF DkRequests
<1> HIDE DEF request
<1>3. /\ dkAsked' \in Seq(DkRequests)
      /\ \A i \in 1..Len(dkAsked') : dkAsked'[i].t = "set" => dkAsked'[i].val \in Levels
  <2>1. dkAsked \in Seq(DkRequests) /\ \A i \in 1..Len(dkAsked) : dkAsked[i].t = "set" => dkAsked[i].val \in Levels
    BY DEF DkAddressed, DkTyped
  <2>2. /\ dkAsked' \in Seq(DkRequests) /\ Len(dkAsked') = Len(dkAsked) + 1
        /\ \A i \in 1..Len(dkAsked) : dkAsked'[i] = dkAsked[i]
        /\ dkAsked'[Len(dkAsked) + 1] = request
    BY <1>1, <1>2, <2>1
  <2>3. QED BY <1>2, <2>1, <2>2
<1>4. dkOp.at \in {"set", "get"}
  BY <1>1, DkOperation DEF DkAddressed, DkTyped
<1>5. QED BY <1>1, <1>3, <1>4 DEF DkAddressed, DkTyped, Dk!WriteGoesToItsEnd

\* However an exchange goes on, the operation keeps its end, passes to the adapter with the
\* address, or ends and gives the address back.
DkGoesOn ==
    /\ dkPage' \in [DkEnds -> Levels]
    /\ \/ UNCHANGED <<dkOp, dkAddr>>
       \/ DkOver
       \/ /\ dkOp' \in DkOperations /\ dkOp'.at = "get"
          /\ dkOp'.row = dkOp.row /\ UNCHANGED dkAddr
       \/ /\ dkOp' \in DkOperations /\ dkOp'.at = "get"
          /\ dkOp'.row = "adapter" /\ dkAddr' = "adapter"

LEMMA DkStepAddressed ==
    ASSUME DkAddressed, dkOp # None, DkGoesOn,
           UNCHANGED <<dkLink, dkSession, dkHw, dkAsked>>,
           dkPipe' \in Seq(DkFrames), dkEvents' \in Seq(Levels), Len(dkEvents') <= Stash,
           dkCall' = None \/ UNCHANGED <<dkCall, dkOp>>
    PROVE  DkAddressed'
<1>1. dkOp \in DkOperations /\ dkSession
  BY DEF DkAddressed, DkTyped
<1>2. "headset" \in DkEnds /\ "adapter" \in DkEnds
  BY DEF DkEnds
<1>3. QED BY <1>1, <1>2, DkApart DEF DkGoesOn, DkOver, DkAddressed, DkTyped, Dk!WriteGoesToItsEnd

LEMMA DkReceiveAddressed ==
    ASSUME DkAddressed, Dk!Receive
    PROVE  DkAddressed'
<1>1. DkTyped
  BY DEF DkAddressed
<1>2. PICK n \in 1..Len(dkPipe) : \E upto \in 1..n, events \in Seq(Levels) : DkReceived(n, upto, events)
  BY <1>1, DkReceives
<1>3. PICK upto \in 1..n, events \in Seq(Levels) : DkReceived(n, upto, events)
  BY <1>2
<1>4. dkCall # None /\ dkOp # None /\ UNCHANGED <<dkHw, dkAsked, dkLink, dkSession>>
      /\ dkCall = dkOp.at /\ dkPage \in [DkEnds -> Levels] /\ dkOp \in DkOperations
  BY <1>1, DkReceives DEF DkTyped
<1>5. dkPipe' \in Seq(DkFrames) /\ Len(events) <= Stash
  BY <1>3 DEF DkReceived
<1>6. Len(<<>>) <= Stash /\ <<>> \in Seq(Levels)
  BY DkNothingIsSent
<1>7. CASE dkEvents' = events /\ UNCHANGED <<dkCall, dkOp, dkPage, dkAddr>>
  <2>1. DkGoesOn
    BY <1>4, <1>7 DEF DkGoesOn
  <2>2. QED BY <1>4, <1>5, <1>7, <2>1, DkStepAddressed
<1>8. CASE dkCall = "set" /\ dkCall' = None /\ dkEvents' = <<>> /\ Dk!Confirming(events)
  <2>1. DkGoesOn
    BY <1>1, <1>4, <1>8, DkConfirms DEF DkGoesOn, DkPainted
  <2>2. QED BY <1>4, <1>5, <1>6, <1>8, <2>1, DkStepAddressed
<1>9. CASE /\ dkCall # "set" /\ dkPipe[upto].t = dkCall /\ dkCall' = None /\ dkEvents' = events
           /\ Dk!ReadingOf(dkPipe[upto].val)
  <2>1. dkPipe[upto].val \in Levels
    BY <1>1 DEF DkTyped, DkFrames, DkEvents, DkAnswers
  <2>2. dkOp.at = "get"
    BY <1>4, <1>9, DkOperation
  <2>3. DkGoesOn
    BY <1>1, <1>4, <1>9, <2>1, <2>2, DkReadings DEF DkGoesOn, DkPainted
  <2>4. QED BY <1>4, <1>5, <1>9, <2>3, DkStepAddressed
<1>10. QED BY <1>3, <1>7, <1>8, <1>9 DEF DkReceived

LEMMA DkTimeoutAddressed ==
    ASSUME DkAddressed, Dk!Timeout
    PROVE  DkAddressed'
<1>1. /\ dkOp \in DkOperations /\ dkOp # None /\ dkCall' = None /\ dkCall = dkOp.at
      /\ UNCHANGED <<dkLink, dkSession, dkHw, dkAsked, dkPipe, dkEvents, dkPage>>
      /\ dkPage \in [DkEnds -> Levels]
  BY DEF Dk!Timeout, Dk!Overdue, DkAddressed, DkTyped, Dk!state, Dk!ends
<1>2. DkGoesOn
  <2>1. CASE dkOp.val = None /\ dkOp.row = "headset"
    <3>1. dkOp' = [dkOp EXCEPT !.row = "adapter"] /\ dkAddr' = "adapter" 
      BY <2>1 DEF Dk!Timeout
    <3>2. dkOp.at = "get"
      BY <1>1, <2>1, DkOperation DEF DkAddressed, DkTyped
    <3>3. QED BY <1>1, <3>1, <3>2, DkOperation DEF DkGoesOn
  <2>2. CASE ~(dkOp.val = None /\ dkOp.row = "headset")
    BY <1>1, <2>2 DEF Dk!Timeout, Dk!Ended, Dk!Restored, DkGoesOn, DkOver
  <2>3. QED BY <2>1, <2>2
<1>3. dkPipe' \in Seq(DkFrames) /\ dkEvents' \in Seq(Levels) /\ Len(dkEvents') <= Stash
  BY <1>1 DEF DkAddressed, DkTyped
<1>4. QED BY <1>1, <1>2, <1>3, DkStepAddressed

\* The frames the ends send.
LEMMA DkSays ==
    ASSUME NEW v \in Levels, NEW e \in DkEnds, NEW kind \in {"set", "get"}
    PROVE  /\ Dk!Event(e, v) \in DkFrames /\ Dk!Event(e, v).t = "event"
           /\ Dk!Event(e, v).val = v /\ Dk!Event(e, v).end = e
           /\ Dk!Answer(kind, v) \in DkFrames /\ Dk!Answer(kind, v).t = kind /\ Dk!Answer(kind, v).val = v
BY DEF Dk!Event, Dk!Answer, DkFrames, DkEvents, DkAnswers

\* A request that is handled is the first that waits.
LEMMA DkHandles ==
    ASSUME DkTyped, NEW kind, Dk!Handle(kind)
    PROVE  /\ dkAsked # <<>> /\ Head(dkAsked) = dkAsked[1] /\ dkAsked[1] \in DkRequests
           /\ dkAsked[1].t = kind /\ dkAsked[1].end \in DkEnds
           /\ kind = "set" => dkAsked[1].val \in Levels
           /\ dkAsked' \in Seq(DkRequests)
           /\ \A i \in 1..Len(dkAsked') : dkAsked'[i].t = "set" => dkAsked'[i].val \in Levels
           /\ Len(dkAsked) = 1 => dkAsked' = <<>>
<1>1. dkAsked \in Seq(DkRequests) /\ dkAsked # <<>> /\ dkAsked' = Tail(dkAsked) /\ Head(dkAsked).t = kind
  BY DEF Dk!Handle, DkTyped
<1>2. /\ Head(dkAsked) = dkAsked[1] /\ dkAsked[1] \in DkRequests /\ dkAsked' \in Seq(DkRequests)
      /\ Len(dkAsked') = Len(dkAsked) - 1 /\ \A i \in 1..Len(dkAsked') : dkAsked'[i] = dkAsked[i + 1]
      /\ Len(dkAsked) \in Nat /\ 1 \in 1..Len(dkAsked)
  BY <1>1
<1>3. dkAsked[1].end \in DkEnds
  BY <1>2 DEF DkRequests
<1>4. \A i \in 1..Len(dkAsked) : dkAsked[i].t = "set" => dkAsked[i].val \in Levels
  BY DEF DkTyped
<1>5. \A i \in 1..Len(dkAsked') : dkAsked'[i].t = "set" => dkAsked'[i].val \in Levels
  <2>1. \A i \in 1..Len(dkAsked') : i + 1 \in 1..Len(dkAsked)
    BY <1>2
  <2>2. QED BY <1>2, <1>4, <2>1
<1>6. Len(dkAsked) = 1 => dkAsked' = <<>>
  BY <1>2
<1>7. QED BY <1>1, <1>2, <1>3, <1>4, <1>5, <1>6

\* The ends and the poll leave the operation and its address alone.
LEMMA DkEndsAddressed ==
    ASSUME DkAddressed,
           \/ \E e \in Dk!Ends, v \in Levels : Dk!Touch(e, v)
           \/ Dk!HandleGet \/ Dk!HandleSet \/ Dk!Silent \/ Dk!DrainEvents
    PROVE  DkAddressed'
<1>1. DkTyped /\ dkPipe \in Seq(DkFrames) /\ dkHw \in [DkEnds -> Levels] /\ dkAsked \in Seq(DkRequests)
  BY DEF DkAddressed, DkTyped
<1>2. ASSUME UNCHANGED <<dkLink, dkSession, dkAddr, dkOp, dkCall, dkPage, dkEvents>>,
             dkHw' \in [DkEnds -> Levels], dkPipe' \in Seq(DkFrames), dkAsked' \in Seq(DkRequests),
             \A i \in 1..Len(dkAsked') : dkAsked'[i].t = "set" => dkAsked'[i].val \in Levels
      PROVE  DkAddressed'
  BY <1>2 DEF DkAddressed, DkTyped, Dk!WriteGoesToItsEnd
<1>3. ASSUME NEW e \in Dk!Ends, NEW v \in Levels, Dk!Touch(e, v)
      PROVE  DkAddressed'
  <2> DEFINE said == Dk!Event(e, v)
  <2>1. said \in DkFrames /\ e \in DkEnds
    BY DkSays DEF Dk!Ends, DkEnds
  <2>2. dkHw' = [dkHw EXCEPT ![e] = v] /\ dkPipe' = Append(dkPipe, said)
        /\ UNCHANGED <<dkLink, dkSession, dkAddr, dkOp, dkCall, dkPage, dkEvents, dkAsked>>
    BY <1>3 DEF Dk!Touch
  <2> HIDE DEF said
  <2>3. dkHw' \in [DkEnds -> Levels] /\ dkPipe' \in Seq(DkFrames)
    BY <1>1, <2>1, <2>2
  <2>4. QED BY <1>1, <1>2, <2>2, <2>3 DEF DkTyped
<1>4. CASE Dk!HandleGet
  <2> DEFINE said == Dk!Answer("get", dkHw[dkAsked[1].end])
  <2>1. Dk!Handle("get")
    BY <1>4 DEF Dk!HandleGet
  <2>2. /\ Head(dkAsked) = dkAsked[1] /\ dkAsked[1].end \in DkEnds /\ dkAsked' \in Seq(DkRequests)
        /\ \A i \in 1..Len(dkAsked') : dkAsked'[i].t = "set" => dkAsked'[i].val \in Levels
    BY <1>1, <2>1, DkHandles
  <2>3. dkHw[dkAsked[1].end] \in Levels
    BY <1>1, <2>2
  <2>4. said \in DkFrames
    BY <2>2, <2>3, DkSays
  <2>5. dkPipe' = Append(dkPipe, said)
        /\ UNCHANGED <<dkLink, dkSession, dkAddr, dkHw, dkOp, dkCall, dkPage, dkEvents>>
    BY <1>4, <2>2 DEF Dk!HandleGet, Dk!state
  <2> HIDE DEF said
  <2>6. dkPipe' \in Seq(DkFrames)
    BY <1>1, <2>4, <2>5
  <2>7. QED BY <1>1, <1>2, <2>2, <2>5, <2>6
<1>5. CASE Dk!HandleSet
  <2> DEFINE r == dkAsked[1]
             e == Dk!Event(r.end, r.val)
             a == Dk!Answer("set", r.val)
  <2>1. Dk!Handle("set")
    BY <1>5 DEF Dk!HandleSet
  <2>2. /\ Head(dkAsked) = r /\ r.end \in DkEnds /\ r.val \in Levels /\ dkAsked' \in Seq(DkRequests)
        /\ \A i \in 1..Len(dkAsked') : dkAsked'[i].t = "set" => dkAsked'[i].val \in Levels
    BY <1>1, <2>1, DkHandles
  <2>3. e \in DkFrames /\ a \in DkFrames
    BY <2>2, DkSays
  <2>4. /\ dkHw' = [dkHw EXCEPT ![r.end] = r.val] /\ dkPipe' \in {dkPipe \o <<e, a>>, dkPipe \o <<a, e>>}
        /\ UNCHANGED <<dkLink, dkSession, dkAddr, dkOp, dkCall, dkPage, dkEvents>>
    BY <1>5, <2>2 DEF Dk!HandleSet, Dk!state
  <2> HIDE DEF r, e, a
  <2>5. <<e, a>> \in Seq(DkFrames) /\ <<a, e>> \in Seq(DkFrames)
    BY <2>3
  <2>6. dkPipe \o <<e, a>> \in Seq(DkFrames) /\ dkPipe \o <<a, e>> \in Seq(DkFrames)
    <3> DEFINE said == <<e, a>>
               other == <<a, e>>
    <3>1. said \in Seq(DkFrames) /\ other \in Seq(DkFrames)
      BY <2>5
    <3> HIDE DEF said, other
    <3>2. dkPipe \o said \in Seq(DkFrames) /\ dkPipe \o other \in Seq(DkFrames)
      BY <1>1, <3>1
    <3>3. QED BY <3>2 DEF said, other
  <2>7. dkPipe' \in Seq(DkFrames)
    BY <2>4, <2>6
  <2>8. dkHw' \in [DkEnds -> Levels]
    <3>1. [dkHw EXCEPT ![r.end] = r.val] \in [DkEnds -> Levels]
      BY <1>1, <2>2
    <3>2. QED BY <2>4, <3>1
  <2>9. QED BY <1>2, <2>2, <2>4, <2>7, <2>8
<1>6. CASE Dk!Silent
  <2>1. dkAsked # <<>> /\ dkAsked' = Tail(dkAsked)
        /\ UNCHANGED <<dkLink, dkSession, dkAddr, dkHw, dkPipe, dkEvents, dkOp, dkCall, dkPage>>
    BY <1>6 DEF Dk!Silent
  <2>2. Dk!Handle(dkAsked[1].t)
    BY <1>1, <2>1 DEF Dk!Handle
  <2>3. /\ dkAsked' \in Seq(DkRequests)
        /\ \A i \in 1..Len(dkAsked') : dkAsked'[i].t = "set" => dkAsked'[i].val \in Levels
    BY <1>1, <2>2, DkHandles
  <2>4. QED BY <1>1, <1>2, <2>1, <2>3
<1>7. CASE Dk!DrainEvents
  <2> DEFINE values == dkEvents \o DkValues(dkPipe)
  <2>1. /\ dkSession /\ dkPage \in [DkEnds -> Levels] /\ dkEvents' = <<>> /\ dkPipe' = <<>>
        /\ dkPage' = IF values = <<>> THEN dkPage ELSE [dkPage EXCEPT !["headset"] = Dk!Last(values)]
        /\ UNCHANGED <<dkLink, dkSession, dkAddr, dkHw, dkAsked, dkOp, dkCall>>
    BY <1>1, <1>7 DEF Dk!DrainEvents, Dk!ShownInOrder, DkValues, Dk!ends, Dk!state, DkTyped
  <2>2. values \in Seq(Levels)
    BY <1>1, DkMembers, DkJoined DEF DkTyped
  <2> HIDE DEF values
  <2>3. values # <<>> => Dk!Last(values) \in Levels
    BY <2>2 DEF Dk!Last
  <2>4. dkPage' \in [DkEnds -> Levels]
    BY <2>1, <2>3
  <2>5. dkEvents' \in Seq(Levels) /\ Len(dkEvents') <= Stash /\ dkPipe' \in Seq(DkFrames)
    BY <2>1, DkNothingIsSent
  <2>6. QED BY <2>1, <2>4, <2>5 DEF DkAddressed, DkTyped, Dk!WriteGoesToItsEnd
<1>8. QED BY <1>3, <1>4, <1>5, <1>6, <1>7

LEMMA DkAddressedNext == DkAddressed /\ (Dk!Next \/ UNCHANGED dkVars) => DkAddressed'
<1> SUFFICES ASSUME DkAddressed, Dk!Next \/ UNCHANGED dkVars PROVE DkAddressed'
  OBVIOUS
<1>1. CASE UNCHANGED dkVars
  BY <1>1 DEF dkVars, DkAddressed, DkTyped, Dk!WriteGoesToItsEnd
<1>2. CASE Dk!Refresh \/ \E row \in Dk!Ends, v \in Levels : Dk!Write(row, v)
  BY <1>2, DkUserAddressed
<1>3. CASE Dk!Connect \/ Dk!Reconnect \/ Dk!Refused \/ Dk!GoesAway
  BY <1>3, DkSessionAddressed
<1>4. CASE Dk!Exchange
  BY <1>4, DkSendAddressed, DkReceiveAddressed, DkTimeoutAddressed DEF Dk!Exchange
<1>5. CASE \/ \E e \in Dk!Ends, v \in Levels : Dk!Touch(e, v)
           \/ Dk!HandleGet \/ Dk!HandleSet \/ Dk!Silent \/ Dk!DrainEvents
  BY <1>5, DkEndsAddressed
<1>6. QED BY <1>1, <1>2, <1>3, <1>4, <1>5 DEF Dk!Next

-----------------------------------------------------------------------------
(* DeckardSession: the page. *)

\* No event among some frames after the first k.
DkQuietAfter(frames, k) == \A j \in (k + 1)..Len(frames) : frames[j].t # "event"

\* Answers are on time, on a link that works, and what waits to be read is the headset's own.
DkHeard ==
    /\ dkTrouble = {} /\ dkLink = "open" /\ dkSession
    /\ \A i \in 1..Len(dkPipe) : dkPipe[i].t = "event" => dkPipe[i].end = "headset"

DkAnnounces(frames) == \A i \in 1..Len(frames) : frames[i].t = "event"

\* The request under way has not been handled, or its answer is among the frames, and says what the
\* headset holds unless the headset announces something behind it.
DkAsking ==
    /\ DkAnnounces(dkPipe) /\ Len(dkAsked) = 1
    /\ dkAsked[1] = [t |-> dkCall, end |-> dkOp.row, val |-> dkOp.val]

DkAnswered(a) ==
    /\ dkAsked = <<>> /\ dkPipe[a].t = dkCall
    /\ \A i \in 1..Len(dkPipe) : i # a => dkPipe[i].t = "event"
    /\ dkCall = "set" => dkOp.row = "headset" /\ dkPipe[a].val = dkOp.val
    /\ DkQuietAfter(dkPipe, a) /\ dkOp.row = "headset" => dkPipe[a].val = dkHw["headset"]

DkTalk ==
    /\ dkCall = None => dkAsked = <<>> /\ DkAnnounces(dkPipe)
    /\ dkCall # None => DkAsking \/ \E a \in 1..Len(dkPipe) : DkAnswered(a)

\* A write of what the headset holds is on its way to the page.
DkReadsBack ==
    dkOp # None /\ dkOp.at = "get" /\ dkOp.row = "headset" /\ dkOp.val = dkHw["headset"]

\* The last thing the headset said, read or not, is what it holds; with nothing said the page
\* shows it, or a reading will put it there.
DkLastWord ==
    /\ \A i \in 1..Len(dkPipe) :
          dkPipe[i].t = "event" /\ DkQuietAfter(dkPipe, i) => dkPipe[i].val = dkHw["headset"]
    /\ DkQuietAfter(dkPipe, 0) /\ dkEvents # <<>> => Dk!Last(dkEvents) = dkHw["headset"]
    /\ DkQuietAfter(dkPipe, 0) /\ dkEvents = <<>> => dkPage["headset"] = dkHw["headset"] \/ DkReadsBack

DkFollows == DkHeard => DkTalk /\ DkLastWord

LEMMA DkFollowsInit == Dk!Init => DkFollows
BY DEF Dk!Init, DkFollows, DkHeard

LEMMA DkSettles ==
    ASSUME DkFollows
    PROVE  Dk!PageSettles
<1> SUFFICES ASSUME dkSession, dkLink = "open", dkOp = None, dkPipe = <<>>, dkEvents = <<>>, dkTrouble = {}
             PROVE  dkPage["headset"] = dkHw["headset"]
  BY DEF Dk!PageSettles
<1>1. Len(dkPipe) = 0
  OBVIOUS
<1>2. DkHeard /\ DkQuietAfter(dkPipe, 0)
  BY <1>1 DEF DkHeard, DkQuietAfter
<1>3. QED BY <1>2 DEF DkFollows, DkLastWord, DkReadsBack

\* A page just filled from the two ends shows what they hold.
LEMMA DkFollowsFilled ==
    ASSUME dkPipe' = <<>>, dkEvents' = <<>>, dkAsked' = <<>>, dkCall' = None,
           dkPage'["headset"] = dkHw'["headset"]
    PROVE  DkFollows'
<1>1. Len(dkPipe') = 0
  BY Len(<<>>) = 0
<1>2. DkAnnounces(dkPipe') /\ \A i \in 1..Len(dkPipe') : FALSE
  BY <1>1 DEF DkAnnounces
<1>3. QED BY <1>2 DEF DkFollows, DkTalk, DkLastWord

LEMMA DkFollowsSession ==
    ASSUME DkTyped, DkFollows, Dk!Connect \/ Dk!Reconnect \/ Dk!Refused \/ Dk!GoesAway
    PROVE  DkFollows'
<1>1. ASSUME Dk!Attached, UNCHANGED <<dkHw, dkCall>>, dkOp = None
      PROVE  DkFollows'
  <2>1. dkPipe' = <<>> /\ dkEvents' = <<>> /\ dkAsked' = <<>> /\ dkPage' = dkHw
    BY <1>1 DEF Dk!Attached
  <2>2. dkCall' = None
    BY <1>1 DEF DkTyped
  <2>3. QED BY <1>1, <2>1, <2>2, DkFollowsFilled
<1>2. CASE Dk!Connect
  <2>1. dkOp = None
    BY <1>2 DEF Dk!Connect, DkTyped
  <2>2. QED BY <1>1, <1>2, <2>1 DEF Dk!Connect
<1>3. CASE Dk!Reconnect
  <2>1. CASE Dk!Attached
    BY <1>1, <1>3, <2>1 DEF Dk!Reconnect
  <2>2. CASE ~Dk!Attached
    <3>1. dkSession' = FALSE
      BY <1>3, <2>2 DEF Dk!Reconnect
    <3>2. QED BY <3>1 DEF DkFollows, DkHeard
  <2>3. QED BY <2>1, <2>2
<1>4. CASE Dk!Refused
  <2>1. ~dkSession'
    BY <1>4 DEF Dk!Refused
  <2>2. QED BY <2>1 DEF DkFollows, DkHeard
<1>5. CASE Dk!GoesAway
  <2>1. dkLink' = "gone"
    BY <1>5 DEF Dk!GoesAway
  <2>2. QED BY <2>1 DEF DkFollows, DkHeard
<1>6. QED BY <1>2, <1>3, <1>4, <1>5

\* An operation that begins says nothing yet, and one that asks waits for its one answer.
LEMMA DkFollowsUser ==
    ASSUME DkTyped, DkFollows, Dk!Refresh \/ \E row \in Dk!Ends, v \in Levels : Dk!Write(row, v)
    PROVE  DkFollows'
<1>1. /\ dkOp = None
      /\ UNCHANGED <<dkLink, dkSession, dkHw, dkAsked, dkPipe, dkEvents, dkCall, dkPage, dkTrouble>>
  BY DEF Dk!Refresh, Dk!Write, Dk!Begin
<1>2. dkCall = None
  BY <1>1 DEF DkTyped
<1>3. DkHeard' => DkHeard
  BY <1>1 DEF DkHeard
<1>4. DkTalk => DkTalk'
  BY <1>1, <1>2 DEF DkTalk
<1>5. DkLastWord => DkLastWord'
  BY <1>1 DEF DkLastWord, DkReadsBack
<1>6. QED BY <1>3, <1>4, <1>5 DEF DkFollows

LEMMA DkFollowsSend ==
    ASSUME DkAddressed, DkFollows, Dk!Send
    PROVE  DkFollows'
<1> DEFINE request == [t |-> dkOp.at, end |-> dkAddr, val |-> dkOp.val]
<1>1. /\ dkOp # None /\ dkCall = None /\ dkCall' = dkOp.at /\ dkAsked' = Append(dkAsked, request)
      /\ UNCHANGED <<dkAddr, dkHw, dkPipe, dkEvents, dkOp, dkPage, dkLink, dkSession, dkTrouble>>
  BY DEF Dk!Send, Dk!state
<1>2. request = [t |-> dkCall', end |-> dkOp'.row, val |-> dkOp'.val]
  BY <1>1 DEF DkAddressed, Dk!WriteGoesToItsEnd
<1> HIDE DEF request
<1>3. DkHeard' => DkHeard
  BY <1>1 DEF DkHeard
<1>4. ASSUME DkTalk
      PROVE  DkTalk'
  <2>1. dkAsked = <<>> /\ DkAnnounces(dkPipe)
    BY <1>1, <1>4 DEF DkTalk
  <2>2. Len(dkAsked') = 1 /\ dkAsked'[1] = request
    BY <1>1, <2>1
  <2>3. DkAsking'
    BY <1>1, <1>2, <2>1, <2>2 DEF DkAsking
  <2>4. dkCall' # None
    BY <1>1, DkApart, DkOperation DEF DkAddressed, DkTyped
  <2>5. QED BY <2>3, <2>4 DEF DkTalk
<1>5. DkLastWord => DkLastWord'
  BY <1>1 DEF DkLastWord, DkReadsBack
<1>6. QED BY <1>3, <1>4, <1>5 DEF DkFollows

\* A frame that joins the others.
LEMMA DkJoins ==
    ASSUME NEW frames \in Seq(DkFrames), NEW said
    PROVE  LET more == Append(frames, said) IN
           /\ Len(more) = Len(frames) + 1 /\ more[Len(frames) + 1] = said
           /\ \A i \in 1..Len(frames) : more[i] = frames[i]
           /\ DkQuietAfter(more, Len(frames) + 1)
           /\ said.t = "event" => \A k \in 0..Len(frames) : ~DkQuietAfter(more, k)
           /\ \A k \in 0..Len(frames) : DkQuietAfter(more, k) => DkQuietAfter(frames, k)
<1> DEFINE more == Append(frames, said)
<1>1. /\ Len(more) = Len(frames) + 1 /\ more[Len(frames) + 1] = said /\ Len(frames) \in Nat
      /\ \A i \in 1..Len(frames) : more[i] = frames[i]
  OBVIOUS
<1> HIDE DEF more
<1>2. DkQuietAfter(more, Len(frames) + 1)
  BY <1>1 DEF DkQuietAfter
<1>3. ASSUME said.t = "event", NEW k \in 0..Len(frames)
      PROVE  ~DkQuietAfter(more, k)
  <2>1. Len(frames) + 1 \in (k + 1)..Len(more)
    BY <1>1
  <2>2. QED BY <1>1, <1>3, <2>1 DEF DkQuietAfter
<1>4. ASSUME NEW k \in 0..Len(frames), DkQuietAfter(more, k)
      PROVE  DkQuietAfter(frames, k)
  BY <1>1, <1>4 DEF DkQuietAfter
<1>5. QED BY <1>1, <1>2, <1>3, <1>4 DEF more

\* A button: what the headset says last is what it now holds.
LEMMA DkFollowsTouch ==
    ASSUME DkTyped, DkFollows, NEW e \in Dk!Ends, NEW v \in Levels, Dk!Touch(e, v)
    PROVE  DkFollows'
<1> DEFINE said == Dk!Event(e, v)
<1>1. said.t = "event" /\ said.val = v /\ said.end = e /\ e \in DkEnds
  BY DkSays DEF Dk!Ends, DkEnds
<1>2. /\ dkHw' = [dkHw EXCEPT ![e] = v] /\ dkPipe' = Append(dkPipe, said)
      /\ UNCHANGED <<dkLink, dkSession, dkAsked, dkEvents, dkOp, dkCall, dkPage, dkTrouble>>
  BY DEF Dk!Touch
<1>3. dkPipe \in Seq(DkFrames) /\ dkHw \in [DkEnds -> Levels] /\ Len(dkPipe) \in Nat
  BY DEF DkTyped
<1> HIDE DEF said
<1>4. /\ Len(dkPipe') = Len(dkPipe) + 1 /\ dkPipe'[Len(dkPipe) + 1] = said
      /\ \A i \in 1..Len(dkPipe) : dkPipe'[i] = dkPipe[i]
      /\ \A k \in 0..Len(dkPipe) : ~DkQuietAfter(dkPipe', k)
  BY <1>1, <1>2, <1>3, DkJoins
<1> SUFFICES ASSUME DkHeard' PROVE DkTalk' /\ DkLastWord'
  BY DEF DkFollows
<1>5. DkHeard
  BY <1>2, <1>3, <1>4 DEF DkHeard
<1>6. e = "headset" /\ dkHw'["headset"] = v
  <2>1. e = "headset"
    BY <1>1, <1>3, <1>4 DEF DkHeard
  <2>2. QED BY <1>1, <1>2, <1>3, <2>1
<1>7. \A i \in 1..Len(dkPipe') : i \in 1..Len(dkPipe) \/ i = Len(dkPipe) + 1
  BY <1>3, <1>4
<1>8. DkAnnounces(dkPipe) => DkAnnounces(dkPipe')
  BY <1>1, <1>4, <1>7 DEF DkAnnounces
<1>9. DkTalk'
  <2>1. DkTalk
    BY <1>5 DEF DkFollows
  <2>2. ASSUME NEW a \in 1..Len(dkPipe), DkAnswered(a)
        PROVE  a \in 1..Len(dkPipe') /\ DkAnswered(a)'
    <3>1. a \in 1..Len(dkPipe') /\ ~DkQuietAfter(dkPipe', a) /\ dkPipe'[a] = dkPipe[a]
      BY <1>3, <1>4
    <3>2. \A i \in 1..Len(dkPipe') : i # a => dkPipe'[i].t = "event"
      BY <1>1, <1>4, <1>7, <2>2 DEF DkAnswered
    <3>3. QED BY <1>2, <2>2, <3>1, <3>2 DEF DkAnswered
  <2>3. DkAsking => DkAsking'
    BY <1>2, <1>8 DEF DkAsking
  <2>4. QED BY <1>2, <1>8, <2>1, <2>2, <2>3 DEF DkTalk
<1>10. DkLastWord'
  <2>1. \A i \in 1..Len(dkPipe') : DkQuietAfter(dkPipe', i) => dkPipe'[i].val = v
    BY <1>1, <1>3, <1>4, <1>7
  <2>2. ~DkQuietAfter(dkPipe', 0)
    BY <1>3, <1>4
  <2>3. QED BY <1>6, <2>1, <2>2 DEF DkLastWord
<1>11. QED BY <1>9, <1>10

\* A request of the operation under way is the only one that waits, and nothing answers it yet.
LEMMA DkHandlesIt ==
    ASSUME DkTyped, DkTalk, NEW kind \in {"set", "get"}, Dk!Handle(kind)
    PROVE  /\ dkCall = kind /\ dkOp # None /\ dkOp \in DkOperations /\ dkAsked' = <<>>
           /\ DkAnnounces(dkPipe) /\ dkOp.row \in DkEnds
           /\ dkAsked[1].end = dkOp.row /\ dkAsked[1].val = dkOp.val /\ Head(dkAsked) = dkAsked[1]
<1>1. dkAsked # <<>> /\ Head(dkAsked) = dkAsked[1] /\ dkAsked[1].t = kind /\ dkAsked[1].end \in DkEnds
      /\ (Len(dkAsked) = 1 => dkAsked' = <<>>)
  BY DkHandles
<1>2. dkCall # None
  BY <1>1 DEF DkTalk
<1>3. DkAsking
  BY <1>1, <1>2 DEF DkTalk, DkAnswered
<1>4. dkAsked[1].t = dkCall /\ dkAsked[1].end = dkOp.row /\ dkAsked[1].val = dkOp.val
      /\ Len(dkAsked) = 1 /\ DkAnnounces(dkPipe)
  BY <1>3 DEF DkAsking
<1>5. dkOp # None /\ dkOp \in DkOperations
  BY <1>2 DEF DkTyped
<1>6. QED BY <1>1, <1>4, <1>5

LEMMA DkFollowsGet ==
    ASSUME DkTyped, DkFollows, Dk!HandleGet
    PROVE  DkFollows'
<1> DEFINE said == Dk!Answer("get", dkHw[dkAsked[1].end])
<1>1. Dk!Handle("get") /\ dkPipe \in Seq(DkFrames) /\ Len(dkPipe) \in Nat /\ dkHw \in [DkEnds -> Levels]
  BY DEF Dk!HandleGet, DkTyped
<1>0. PICK last \in Nat : last = Len(dkPipe) + 1
  BY <1>1
<1>2. Head(dkAsked) = dkAsked[1] /\ dkAsked[1].end \in DkEnds
  BY <1>1, DkHandles
<1>3. /\ dkPipe' = Append(dkPipe, said)
      /\ UNCHANGED <<dkLink, dkSession, dkHw, dkOp, dkCall, dkPage, dkEvents, dkTrouble>>
  BY <1>2 DEF Dk!HandleGet, Dk!state
<1>4. said.t = "get" /\ said.val = dkHw[dkAsked[1].end]
  BY <1>1, <1>2, DkSays
<1> HIDE DEF said
<1>5. /\ Len(dkPipe') = last /\ dkPipe'[last] = said
      /\ \A i \in 1..Len(dkPipe) : dkPipe'[i] = dkPipe[i]
      /\ \A k \in 0..Len(dkPipe) : DkQuietAfter(dkPipe', k) => DkQuietAfter(dkPipe, k)
  BY <1>0, <1>1, <1>3, DkJoins
<1> SUFFICES ASSUME DkHeard' PROVE DkTalk' /\ DkLastWord'
  BY DEF DkFollows
<1>6. DkTalk /\ DkLastWord
  <2>1. DkHeard
    BY <1>0, <1>1, <1>3, <1>5 DEF DkHeard
  <2>2. QED BY <2>1 DEF DkFollows
<1>7. /\ dkCall = "get" /\ dkAsked' = <<>> /\ DkAnnounces(dkPipe)
      /\ dkAsked[1].end = dkOp.row
  BY <1>1, <1>6, DkHandlesIt
<1>8. \A i \in 1..Len(dkPipe') : i \in 1..Len(dkPipe) \/ i = last
  BY <1>0, <1>1, <1>5
<1>9. DkTalk'
  <2>1. \A i \in 1..Len(dkPipe') : i # last => dkPipe'[i].t = "event"
    BY <1>5, <1>7, <1>8 DEF DkAnnounces
  <2>2. DkAnswered(last)'
    BY <1>3, <1>4, <1>5, <1>7, <2>1 DEF DkAnswered
  <2>3. last \in 1..Len(dkPipe') /\ dkCall' # None
    BY <1>0, <1>1, <1>3, <1>5, <1>7, DkApart
  <2>4. QED BY <2>2, <2>3 DEF DkTalk
<1>10. DkLastWord'
  <2>1. ASSUME NEW i \in 1..Len(dkPipe'), dkPipe'[i].t = "event", DkQuietAfter(dkPipe', i)
        PROVE  dkPipe'[i].val = dkHw'["headset"]
    <3>1. i \in 1..Len(dkPipe) /\ dkPipe'[i] = dkPipe[i] /\ i \in 0..Len(dkPipe)
      BY <1>0, <1>1, <1>4, <1>5, <1>8, <2>1
    <3>2. QED BY <1>3, <1>5, <1>6, <2>1, <3>1 DEF DkLastWord
  <2>2. DkQuietAfter(dkPipe', 0) => DkQuietAfter(dkPipe, 0)
    BY <1>0, <1>1, <1>5
  <2>3. QED BY <1>3, <1>6, <2>1, <2>2 DEF DkLastWord, DkReadsBack
<1>11. QED BY <1>9, <1>10

\* A write is announced and answered, in either order.
LEMMA DkFollowsSet ==
    ASSUME DkTyped, DkFollows, Dk!HandleSet
    PROVE  DkFollows'
<1> DEFINE r == dkAsked[1]
           e == Dk!Event(r.end, r.val)
           b == Dk!Answer("set", r.val)
<1>1. Dk!Handle("set") /\ dkPipe \in Seq(DkFrames) /\ Len(dkPipe) \in Nat /\ dkHw \in [DkEnds -> Levels]
  BY DEF Dk!HandleSet, DkTyped
<1>2. Head(dkAsked) = r /\ r.end \in DkEnds /\ r.val \in Levels
  BY <1>1, DkHandles
<1>3. /\ dkHw' = [dkHw EXCEPT ![r.end] = r.val] /\ dkPipe' \in {dkPipe \o <<e, b>>, dkPipe \o <<b, e>>}
      /\ UNCHANGED <<dkLink, dkSession, dkOp, dkCall, dkPage, dkEvents, dkTrouble>>
  BY <1>2 DEF Dk!HandleSet, Dk!state
<1>4. e.t = "event" /\ e.val = r.val /\ e.end = r.end /\ b.t = "set" /\ b.val = r.val
  BY <1>2, DkSays
<1> HIDE DEF r, e, b
<1>5. PICK p \in {Len(dkPipe) + 1, Len(dkPipe) + 2}, q \in {Len(dkPipe) + 1, Len(dkPipe) + 2} :
        /\ p # q /\ Len(dkPipe') = Len(dkPipe) + 2 /\ dkPipe'[p] = e /\ dkPipe'[q] = b
        /\ \A i \in 1..Len(dkPipe) : dkPipe'[i] = dkPipe[i]
  <2>1. CASE dkPipe' = dkPipe \o <<e, b>>
    <3>1. /\ Len(dkPipe') = Len(dkPipe) + 2 /\ dkPipe'[Len(dkPipe) + 1] = e /\ dkPipe'[Len(dkPipe) + 2] = b
          /\ \A i \in 1..Len(dkPipe) : dkPipe'[i] = dkPipe[i]
      BY <1>1, <2>1
    <3>2. QED BY <1>1, <3>1
  <2>2. CASE dkPipe' = dkPipe \o <<b, e>>
    <3>1. /\ Len(dkPipe') = Len(dkPipe) + 2 /\ dkPipe'[Len(dkPipe) + 1] = b /\ dkPipe'[Len(dkPipe) + 2] = e
          /\ \A i \in 1..Len(dkPipe) : dkPipe'[i] = dkPipe[i]
      BY <1>1, <2>2
    <3>2. QED BY <1>1, <3>1
  <2>3. QED BY <1>3, <2>1, <2>2
<1>6. /\ p \in 1..Len(dkPipe') /\ q \in 1..Len(dkPipe')
      /\ \A i \in 1..Len(dkPipe') : i \in 1..Len(dkPipe) \/ i = p \/ i = q
  BY <1>1, <1>5
<1> SUFFICES ASSUME DkHeard' PROVE DkTalk' /\ DkLastWord'
  BY DEF DkFollows
<1>7. DkTalk /\ r.end = "headset"
  <2>1. DkHeard
    BY <1>1, <1>3, <1>5 DEF DkHeard
  <2>2. dkPipe'[p].end = "headset"
    BY <1>4, <1>5, <1>6 DEF DkHeard
  <2>3. QED BY <1>4, <1>5, <2>1, <2>2 DEF DkFollows
<1>8. /\ dkCall = "set" /\ dkAsked' = <<>> /\ DkAnnounces(dkPipe)
      /\ r.end = dkOp.row /\ r.val = dkOp.val
  BY <1>1, <1>7, DkHandlesIt DEF r
<1>9. dkHw'["headset"] = r.val
  BY <1>1, <1>2, <1>3, <1>7
<1>10. DkTalk'
  <2>1. \A i \in 1..Len(dkPipe') : i # q => dkPipe'[i].t = "event"
    BY <1>4, <1>5, <1>6, <1>8 DEF DkAnnounces
  <2>2. DkAnswered(q)'
    BY <1>3, <1>4, <1>5, <1>7, <1>8, <1>9, <2>1 DEF DkAnswered
  <2>3. dkCall' # None
    BY <1>3, <1>8, DkApart
  <2>4. QED BY <1>6, <2>2, <2>3 DEF DkTalk
<1>11. DkLastWord'
  <2>1. ASSUME NEW k \in 0..Len(dkPipe)
        PROVE  ~DkQuietAfter(dkPipe', k)
    <3>1. p \in (k + 1)..Len(dkPipe')
      BY <1>1, <1>5, <1>6
    <3>2. QED BY <1>4, <1>5, <3>1 DEF DkQuietAfter
  <2>2. ASSUME NEW i \in 1..Len(dkPipe'), dkPipe'[i].t = "event", DkQuietAfter(dkPipe', i)
        PROVE  dkPipe'[i].val = dkHw'["headset"]
    <3>1. i = p
      BY <1>1, <1>4, <1>5, <1>6, <2>1, <2>2
    <3>2. QED BY <1>4, <1>5, <1>9, <3>1
  <2>3. ~DkQuietAfter(dkPipe', 0)
    BY <1>1, <2>1
  <2>4. QED BY <2>2, <2>3 DEF DkLastWord
<1>12. QED BY <1>10, <1>11

\* The poll shows the last of what the headset said.
LEMMA DkFollowsDrain ==
    ASSUME DkTyped, DkFollows, Dk!DrainEvents
    PROVE  DkFollows'
<1> DEFINE fresh == DkValues(dkPipe)
           met == Dk!Filtered(dkPipe, Dk!Events)
           values == dkEvents \o fresh
<1>1. /\ dkSession /\ dkLink = "open" /\ dkOp = None /\ dkPage \in [DkEnds -> Levels]
      /\ dkEvents' = <<>> /\ dkPipe' = <<>>
      /\ dkPage' = IF values = <<>> THEN dkPage ELSE [dkPage EXCEPT !["headset"] = Dk!Last(values)]
      /\ dkTrouble' = dkTrouble \cup (IF \E i \in 1..Len(met) : met[i].end = "adapter" THEN {"foreign"} ELSE {})
      /\ UNCHANGED <<dkLink, dkSession, dkHw, dkAsked, dkOp, dkCall>>
  BY DEF Dk!DrainEvents, Dk!ShownInOrder, DkValues, Dk!ends, Dk!state, DkTyped
<1>2. dkPipe \in Seq(DkFrames) /\ dkEvents \in Seq(Levels) /\ Len(dkPipe) \in Nat /\ dkCall = None
  BY <1>1 DEF DkTyped
<1>3. /\ fresh \in Seq(Levels)
      /\ \A i \in 1..Len(dkPipe) : dkPipe[i].t = "event" => \E j \in 1..Len(met) : met[j] = dkPipe[i]
      /\ fresh = <<>> => \A i \in 1..Len(dkPipe) : dkPipe[i].t # "event"
      /\ fresh # <<>> => \E i \in 1..Len(dkPipe) :
            /\ dkPipe[i].t = "event" /\ \A j \in (i + 1)..Len(dkPipe) : dkPipe[j].t # "event"
            /\ Dk!Last(fresh) = dkPipe[i].val
  BY <1>2, DkMembers DEF Dk!Last
<1> HIDE DEF fresh
<1>4. /\ values \in Seq(Levels)
      /\ fresh # <<>> => values # <<>> /\ Dk!Last(values) = Dk!Last(fresh)
      /\ fresh = <<>> => values = dkEvents
  BY <1>2, <1>3, DkJoined
<1> SUFFICES ASSUME DkHeard' PROVE DkFollows'
  BY DEF DkFollows
<1>5. DkHeard
  <2>1. dkTrouble = {} /\ \A i \in 1..Len(met) : met[i].end # "adapter"
    BY <1>1 DEF DkHeard
  <2>2. \A i \in 1..Len(dkPipe) : dkPipe[i].t = "event" => dkPipe[i].end # "adapter"
    BY <1>3, <2>1
  <2>3. \A f \in DkFrames : f.t = "event" => f.end \in DkEnds
    BY DEF DkFrames, DkEvents, DkAnswers
  <2>4. \A i \in 1..Len(dkPipe) : dkPipe[i].t = "event" => dkPipe[i].end = "headset"
    BY <1>2, <2>2, <2>3 DEF DkEnds
  <2>5. QED BY <1>1, <2>1, <2>4 DEF DkHeard
<1>6. DkTalk /\ DkLastWord
  BY <1>5 DEF DkFollows
<1>7. dkAsked' = <<>> /\ dkCall' = None
  BY <1>1, <1>2, <1>6 DEF DkTalk
<1>8. dkPage'["headset"] = dkHw["headset"]
  <2>1. CASE fresh # <<>>
    <3>1. values # <<>> /\ Dk!Last(values) = dkHw["headset"]
      BY <1>3, <1>4, <1>6, <2>1 DEF DkLastWord, DkQuietAfter
    <3>2. QED BY <1>1, <3>1 DEF DkEnds
  <2>2. CASE fresh = <<>>
    <3>1. DkQuietAfter(dkPipe, 0) /\ values = dkEvents
      BY <1>2, <1>3, <1>4, <2>2 DEF DkQuietAfter
    <3>2. CASE dkEvents = <<>>
      <4>1. dkPage["headset"] = dkHw["headset"]
        BY <1>1, <1>6, <3>1, <3>2 DEF DkLastWord, DkReadsBack
      <4>2. QED BY <1>1, <3>1, <3>2, <4>1
    <3>3. CASE dkEvents # <<>>
      <4>1. Dk!Last(values) = dkHw["headset"]
        BY <1>6, <3>1, <3>3 DEF DkLastWord
      <4>2. QED BY <1>1, <3>1, <3>3, <4>1 DEF DkEnds
    <3>4. QED BY <3>2, <3>3
  <2>3. QED BY <2>1, <2>2
<1>9. QED BY <1>1, <1>7, <1>8, DkFollowsFilled

\* Reading takes the first frames away and stashes what they announced: the last word of the
\* headset is then among what is left, or in the stash.
LEMMA DkLater ==
    ASSUME DkTyped, DkFollows, NEW n \in 1..Len(dkPipe), NEW upto \in 1..n, NEW events \in Seq(Levels),
           DkReceived(n, upto, events), UNCHANGED <<dkLink, dkSession>>, DkHeard'
    PROVE  /\ DkTalk /\ DkLastWord
           /\ Len(dkPipe') = Len(dkPipe) - n /\ \A i \in 1..Len(dkPipe') : dkPipe'[i] = dkPipe[i + n]
           /\ \A i \in 0..Len(dkPipe') : DkQuietAfter(dkPipe', i) => DkQuietAfter(dkPipe, i + n)
           /\ DkQuietAfter(dkPipe', 0) => DkQuietAfter(dkPipe, upto)
           /\ \A i \in 1..Len(dkPipe') :
                 dkPipe'[i].t = "event" /\ DkQuietAfter(dkPipe', i) => dkPipe'[i].val = dkHw["headset"]
           /\ DkQuietAfter(dkPipe', 0) /\ events # <<>> => Dk!Last(events) = dkHw["headset"]
           /\ DkQuietAfter(dkPipe', 0) /\ events = <<>> => dkPage["headset"] = dkHw["headset"] \/ DkReadsBack
<1>1. /\ Len(dkPipe') = Len(dkPipe) - n /\ \A i \in 1..Len(dkPipe') : dkPipe'[i] = dkPipe[i + n]
      /\ events = <<>> => dkEvents = <<>> /\ \A i \in 1..upto : dkPipe[i].t # "event"
      /\ events # <<>> =>
            \/ /\ \A i \in 1..upto : dkPipe[i].t # "event"
               /\ dkEvents # <<>> /\ Dk!Last(events) = Dk!Last(dkEvents)
            \/ \E i \in 1..upto :
                  /\ dkPipe[i].t = "event" /\ \A j \in (i + 1)..upto : dkPipe[j].t # "event"
                  /\ Dk!Last(events) = dkPipe[i].val
      /\ dkTrouble' = {} =>
            /\ dkTrouble = {} /\ \A i \in (upto + 1)..n : dkPipe[i].t # "event"
            /\ \A i \in 1..upto : dkPipe[i].t = "event" => dkPipe[i].end # "adapter"
  BY DEF DkReceived
<1>2. /\ dkTrouble = {} /\ \A i \in (upto + 1)..n : dkPipe[i].t # "event"
      /\ \A i \in 1..upto : dkPipe[i].t = "event" => dkPipe[i].end # "adapter"
  BY <1>1 DEF DkHeard
<1>3. dkPipe \in Seq(DkFrames) /\ Len(dkPipe) \in Nat
  BY DEF DkTyped
<1>4. DkHeard
  <2>1. ASSUME NEW i \in 1..Len(dkPipe), dkPipe[i].t = "event"
        PROVE  dkPipe[i].end = "headset"
    <3>1. CASE i <= upto
      <4>1. dkPipe[i].end # "adapter"
        BY <1>2, <2>1, <3>1
      <4>2. \A f \in DkFrames : f.t = "event" => f.end \in DkEnds
        BY DEF DkFrames, DkEvents, DkAnswers
      <4>3. QED BY <1>3, <2>1, <4>1, <4>2 DEF DkEnds
    <3>2. CASE i > upto /\ i <= n
      <4>1. i \in (upto + 1)..n
        BY <3>2
      <4>2. QED BY <1>2, <2>1, <4>1
    <3>3. CASE i > n
      <4>1. i - n \in 1..Len(dkPipe') /\ (i - n) + n = i
        BY <1>1, <1>3, <3>3
      <4>2. dkPipe'[i - n] = dkPipe[i]
        BY <1>1, <4>1
      <4>3. QED BY <2>1, <4>1, <4>2 DEF DkHeard
    <3>4. QED BY <3>1, <3>2, <3>3
  <2>2. dkLink = "open" /\ dkSession
    BY DEF DkHeard
  <2>3. QED BY <1>2, <2>1, <2>2 DEF DkHeard
<1>5. DkTalk /\ DkLastWord
  BY <1>4 DEF DkFollows
<1>6. ASSUME NEW i \in 0..Len(dkPipe'), DkQuietAfter(dkPipe', i)
      PROVE  DkQuietAfter(dkPipe, i + n)
  <2> SUFFICES ASSUME NEW j \in (i + n + 1)..Len(dkPipe) PROVE dkPipe[j].t # "event"
    BY DEF DkQuietAfter
  <2>1. j - n \in (i + 1)..Len(dkPipe') /\ j - n \in 1..Len(dkPipe') /\ (j - n) + n = j
    BY <1>1, <1>3
  <2>2. dkPipe'[j - n].t # "event"
    BY <1>6, <2>1 DEF DkQuietAfter
  <2>3. QED BY <1>1, <2>1, <2>2
<1>7. ASSUME DkQuietAfter(dkPipe', 0)
      PROVE  DkQuietAfter(dkPipe, upto) /\ DkQuietAfter(dkPipe, n)
  <2>1. 0 \in 0..Len(dkPipe') /\ 0 + n = n
    BY <1>1, <1>3
  <2>2. DkQuietAfter(dkPipe, n)
    BY <1>6, <1>7, <2>1
  <2>3. QED BY <1>2, <1>3, <2>2 DEF DkQuietAfter
<1>8. ASSUME NEW i \in 1..Len(dkPipe'), dkPipe'[i].t = "event", DkQuietAfter(dkPipe', i)
      PROVE  dkPipe'[i].val = dkHw["headset"]
  <2>1. i + n \in 1..Len(dkPipe) /\ DkQuietAfter(dkPipe, i + n) /\ dkPipe'[i] = dkPipe[i + n]
    BY <1>1, <1>3, <1>6, <1>8
  <2>2. QED BY <1>5, <1>8, <2>1 DEF DkLastWord
<1>9. ASSUME DkQuietAfter(dkPipe', 0), \A i \in 1..upto : dkPipe[i].t # "event"
      PROVE  DkQuietAfter(dkPipe, 0)
  BY <1>3, <1>7, <1>9 DEF DkQuietAfter
<1>10. ASSUME DkQuietAfter(dkPipe', 0), events # <<>>
       PROVE  Dk!Last(events) = dkHw["headset"]
  <2>1. CASE /\ \A i \in 1..upto : dkPipe[i].t # "event"
             /\ dkEvents # <<>> /\ Dk!Last(events) = Dk!Last(dkEvents)
    BY <1>5, <1>9, <1>10, <2>1 DEF DkLastWord
  <2>2. ASSUME NEW i \in 1..upto, dkPipe[i].t = "event", \A j \in (i + 1)..upto : dkPipe[j].t # "event",
               Dk!Last(events) = dkPipe[i].val
        PROVE  Dk!Last(events) = dkHw["headset"]
    <3>1. i \in 1..Len(dkPipe) /\ DkQuietAfter(dkPipe, i)
      BY <1>3, <1>7, <1>10, <2>2 DEF DkQuietAfter
    <3>2. QED BY <1>5, <2>2, <3>1 DEF DkLastWord
  <2>3. QED BY <1>1, <1>10, <2>1, <2>2
<1>11. ASSUME DkQuietAfter(dkPipe', 0), events = <<>>
       PROVE  dkPage["headset"] = dkHw["headset"] \/ DkReadsBack
  BY <1>1, <1>5, <1>9, <1>11 DEF DkLastWord
<1>12. QED BY <1>1, <1>5, <1>6, <1>7, <1>8, <1>10, <1>11

LEMMA DkFollowsReceive ==
    ASSUME DkTyped, DkFollows, Dk!Receive
    PROVE  DkFollows'
<1>1. PICK n \in 1..Len(dkPipe) : \E upto \in 1..n, events \in Seq(Levels) : DkReceived(n, upto, events)
  BY DkReceives
<1>2. PICK upto \in 1..n, events \in Seq(Levels) : DkReceived(n, upto, events)
  BY <1>1
<1>3. /\ dkCall # None /\ UNCHANGED <<dkHw, dkAsked, dkLink, dkSession>>
      /\ dkOp # None /\ dkCall = dkOp.at /\ dkOp \in DkOperations /\ dkCall \in {"set", "get"}
      /\ dkOp.row \in DkEnds /\ Len(dkPipe) \in Nat /\ dkPipe \in Seq(DkFrames)
      /\ dkPage \in [DkEnds -> Levels]
  <2>1. dkCall # None /\ UNCHANGED <<dkHw, dkAsked, dkLink, dkSession>>
    BY DkReceives
  <2>2. /\ dkOp # None /\ dkCall = dkOp.at /\ dkOp \in DkOperations /\ dkCall \in {"set", "get"}
        /\ Len(dkPipe) \in Nat /\ dkPipe \in Seq(DkFrames) /\ dkPage \in [DkEnds -> Levels]
    BY <2>1 DEF DkTyped
  <2>3. QED BY <2>1, <2>2, DkOperation
<1> SUFFICES ASSUME DkHeard' PROVE DkTalk' /\ DkLastWord'
  BY DEF DkFollows
<1>4. /\ DkTalk /\ DkLastWord
      /\ Len(dkPipe') = Len(dkPipe) - n /\ \A i \in 1..Len(dkPipe') : dkPipe'[i] = dkPipe[i + n]
      /\ \A i \in 0..Len(dkPipe') : DkQuietAfter(dkPipe', i) => DkQuietAfter(dkPipe, i + n)
      /\ DkQuietAfter(dkPipe', 0) => DkQuietAfter(dkPipe, upto)
      /\ \A i \in 1..Len(dkPipe') :
            dkPipe'[i].t = "event" /\ DkQuietAfter(dkPipe', i) => dkPipe'[i].val = dkHw["headset"]
      /\ DkQuietAfter(dkPipe', 0) /\ events # <<>> => Dk!Last(events) = dkHw["headset"]
      /\ DkQuietAfter(dkPipe', 0) /\ events = <<>> => dkPage["headset"] = dkHw["headset"] \/ DkReadsBack
  BY <1>2, <1>3, DkLater
<1>5. /\ upto \in 1..Len(dkPipe) /\ \A i \in 1..Len(dkPipe') : i + n \in 1..Len(dkPipe)
      /\ DkAnnounces(dkPipe) => DkAnnounces(dkPipe')
  BY <1>3, <1>4 DEF DkAnnounces
<1>6. CASE /\ upto = n /\ \A i \in 1..n : dkPipe[i].t # dkCall
           /\ dkEvents' = events /\ UNCHANGED <<dkCall, dkOp, dkPage, dkAddr>>
  <2>1. DkAsking => DkAsking'
    BY <1>3, <1>5, <1>6 DEF DkAsking
  <2>2. ASSUME NEW a \in 1..Len(dkPipe), DkAnswered(a)
        PROVE  a - n \in 1..Len(dkPipe') /\ DkAnswered(a - n)'
    <3> PICK b \in Int : b = a - n
      BY <1>3
    <3>1. a \notin 1..n
      BY <1>6, <2>2 DEF DkAnswered
    <3>2. b \in 1..Len(dkPipe') /\ b + n = a
      BY <1>3, <1>4, <3>1
    <3>3. dkPipe'[b] = dkPipe[a] /\ (DkQuietAfter(dkPipe', b) => DkQuietAfter(dkPipe, a))
      BY <1>4, <3>2
    <3>4. \A i \in 1..Len(dkPipe') : i # b => dkPipe'[i].t = "event"
      <4>1. \A i \in 1..Len(dkPipe') : i # b => i + n # a
        BY <1>3, <1>4, <3>2
      <4>2. QED BY <1>4, <1>5, <2>2, <4>1 DEF DkAnswered
    <3>5. DkAnswered(b)'
      BY <1>3, <1>6, <2>2, <3>3, <3>4 DEF DkAnswered
    <3>6. QED BY <3>2, <3>5
  <2>3. DkTalk'
    BY <1>3, <1>4, <1>6, <2>1, <2>2 DEF DkTalk
  <2>4. DkLastWord'
    BY <1>3, <1>4, <1>6 DEF DkLastWord, DkReadsBack
  <2>5. QED BY <2>3, <2>4
<1>7. CASE /\ dkPipe[upto].t = dkCall /\ dkCall' = None
           /\ IF dkCall = "set" THEN dkEvents' = <<>> /\ Dk!Confirming(events)
              ELSE dkEvents' = events /\ Dk!ReadingOf(dkPipe[upto].val)
  <2>1. DkAnswered(upto)
    <3>1. dkPipe[upto].t # "event"
      BY <1>3, <1>7
    <3>2. ~DkAsking
      BY <1>5, <3>1 DEF DkAsking, DkAnnounces
    <3>3. PICK a \in 1..Len(dkPipe) : DkAnswered(a)
      BY <1>3, <1>4, <3>2 DEF DkTalk
    <3>4. a = upto
      BY <1>5, <3>1, <3>3 DEF DkAnswered
    <3>5. QED BY <3>3, <3>4
  <2>2. DkTalk'
    <3>1. \A i \in 1..Len(dkPipe') : i + n # upto
      BY <1>3
    <3>2. DkAnnounces(dkPipe')
      BY <1>4, <1>5, <2>1, <3>1 DEF DkAnswered, DkAnnounces
    <3>3. QED BY <1>3, <1>7, <2>1, <3>2 DEF DkTalk, DkAnswered
  <2>3. DkQuietAfter(dkPipe', 0) /\ dkOp.row = "headset" => dkPipe[upto].val = dkHw["headset"]
    BY <1>4, <2>1 DEF DkAnswered
  <2>4. dkPipe[upto].val \in Levels
    BY <1>3, <1>5 DEF DkFrames, DkEvents, DkAnswers
  <2>5. CASE dkCall = "set"
    <3>1. dkOp.row = "headset" /\ dkPipe[upto].val = dkOp.val /\ dkEvents' = <<>> /\ Dk!Confirming(events)
      BY <1>7, <2>1, <2>5 DEF DkAnswered
    <3>2. \/ DkPainted(dkOp.row, dkOp.val)
          \/ /\ dkOp' \in DkOperations /\ dkOp'.at = "get" /\ dkOp'.row = dkOp.row /\ dkOp'.val = dkOp.val
      BY <1>3, <2>5, <3>1, DkConfirms
    <3>3. DkQuietAfter(dkPipe', 0) => dkPage'["headset"] = dkHw["headset"] \/ DkReadsBack'
      BY <1>3, <2>3, <3>1, <3>2, DkApart DEF DkPainted, DkReadsBack, DkEnds
    <3>4. QED BY <1>3, <1>4, <2>2, <3>1, <3>3 DEF DkLastWord
  <2>6. CASE dkCall # "set"
    <3>1. dkOp.at = "get" /\ dkEvents' = events /\ Dk!ReadingOf(dkPipe[upto].val)
      BY <1>3, <1>7, <2>6
    <3> DEFINE v == dkPipe[upto].val
    <3> HIDE DEF v
    <3>2. v \in Levels /\ Dk!ReadingOf(v)
      BY <2>4, <3>1 DEF v
    <3>3. \/ DkPainted(dkOp.row, v)
          \/ /\ dkOp.val # v /\ UNCHANGED dkPage
             /\ \/ dkOp' \in DkOperations /\ dkOp'.at = dkOp.at /\ dkOp'.row = dkOp.row /\ dkOp'.val = dkOp.val
                \/ DkOver
      BY <1>3, <3>2, DkReadings
    <3>4. ASSUME DkQuietAfter(dkPipe', 0), events = <<>>
          PROVE  dkPage'["headset"] = dkHw'["headset"] \/ DkReadsBack'
      <4>1. dkPage["headset"] = dkHw["headset"] \/ DkReadsBack
        BY <1>4, <3>4
      <4>2. dkOp.row = "headset" => v = dkHw["headset"]
        BY <2>3, <3>4 DEF v
      <4>3. CASE DkPainted(dkOp.row, v)
        <5>1. dkPage'["headset"] = IF "headset" = dkOp.row THEN v ELSE dkPage["headset"]
          BY <4>3 DEF DkPainted, DkEnds
        <5>2. QED BY <1>3, <4>1, <4>2, <5>1 DEF DkReadsBack
      <4>4. CASE dkOp.val # v /\ UNCHANGED dkPage
        <5>1. ~DkReadsBack
          BY <4>2, <4>4 DEF DkReadsBack
        <5>2. QED BY <1>3, <4>1, <4>4, <5>1
      <4>5. QED BY <3>3, <4>3, <4>4
    <3>5. QED BY <1>3, <1>4, <2>2, <3>1, <3>4 DEF DkLastWord
  <2>7. QED BY <2>5, <2>6
<1>8. QED BY <1>2, <1>6, <1>7 DEF DkReceived

LEMMA DkFollowsNext == DkAddressed /\ DkFollows /\ (Dk!Next \/ UNCHANGED dkVars) => DkFollows'
<1> SUFFICES ASSUME DkAddressed, DkFollows, Dk!Next \/ UNCHANGED dkVars PROVE DkFollows'
  OBVIOUS
<1>1. DkTyped
  BY DEF DkAddressed
<1>2. CASE UNCHANGED dkVars
  BY <1>2 DEF dkVars, DkFollows, DkHeard, DkTalk, DkAsking, DkAnswered, DkLastWord, DkReadsBack
<1>3. CASE Dk!Refresh \/ \E row \in Dk!Ends, v \in Levels : Dk!Write(row, v)
  BY <1>1, <1>3, DkFollowsUser
<1>4. CASE Dk!Connect \/ Dk!Reconnect \/ Dk!Refused \/ Dk!GoesAway
  BY <1>1, <1>4, DkFollowsSession
<1>5. CASE Dk!Timeout \/ Dk!Silent
  <2>1. dkTrouble' # {}
    BY <1>5 DEF Dk!Timeout, Dk!Silent
  <2>2. QED BY <2>1 DEF DkFollows, DkHeard
<1>6. CASE Dk!Exchange
  BY <1>1, <1>5, <1>6, DkFollowsSend, DkFollowsReceive DEF Dk!Exchange
<1>7. CASE \E e \in Dk!Ends, v \in Levels : Dk!Touch(e, v)
  BY <1>1, <1>7, DkFollowsTouch
<1>8. CASE Dk!HandleGet \/ Dk!HandleSet \/ Dk!DrainEvents
  BY <1>1, <1>8, DkFollowsGet, DkFollowsSet, DkFollowsDrain
<1>9. QED BY <1>2, <1>3, <1>4, <1>5, <1>6, <1>7, <1>8 DEF Dk!Next

-----------------------------------------------------------------------------
(* LogitechDevice: the types. *)

LgAll == 1..LgSlots
LgDevices == [LgAll -> LgDevs \cup {None}]
LgThreads ==
    [step : {"off", "asking", "find", "key", "lock"}, known : (SUBSET LgAll) \cup {None},
     flag : BOOLEAN, before : SUBSET LgAll, pressed : BOOLEAN]
LgPairings ==
    [open : BOOLEAN, finding : BOOLEAN, found : BOOLEAN, key : BOOLEAN, new : LgAll \cup {None}]
LgAllRows == {<<"pair">>} \cup {<<"unpair", s>> : s \in LgAll}

\* What the receiver sends: signals, and what tells of the device in a slot.
LgSignals == {<<"find">>, <<"found">>, <<"unfound">>, <<"open">>, <<"key">>, <<"closed">>}
LgTidings == {<<"link", s>> : s \in LgAll} \cup {<<"paired", s>> : s \in LgAll}
LgNoteSet == LgSignals \cup LgTidings

\* From the first step of a pairing to its end the flag is set.
LgTyped ==
    /\ lgSlots \in LgDevices /\ lgFlag \in BOOLEAN /\ lgAir \in {"shut", "find", "open"}
    /\ lgNotes \in Seq(LgNoteSet) /\ lgPairing \in LgPairings /\ lgThread \in LgThreads
    /\ lgCall \in BOOLEAN /\ lgCancel \in BOOLEAN /\ lgPage \in {None} \cup 0..LgSlots
    /\ lgRows \subseteq LgAllRows
    /\ lgCall => lgThread.step # "off"
    /\ lgThread.step # "off" => lgFlag

LEMMA LgApart ==
    /\ LgSlots \in Nat /\ LgSlots >= 1 /\ None \notin 0..LgSlots /\ None \notin LgAll /\ None \notin LgDevs
    /\ \A known \in SUBSET LgAll : known # None
BY LogitechAssumption DEF LogitechAssumption, LgAll

LEMMA LgTypeSuffices ==
    ASSUME LgTyped
    PROVE  Lg!TypeOK
BY DEF LgTyped, Lg!TypeOK, LgDevices, LgAll, LgThreads, LgAllRows, Lg!Slots

LEMMA LgTaken ==
    ASSUME NEW slots
    PROVE  Lg!Taken(slots) \in SUBSET LgAll /\ Lg!PairingRows(slots) \subseteq LgAllRows
BY DEF Lg!Taken, Lg!PairingRows, LgAll, LgAllRows, Lg!Slots

\* A kind of note is known by its first word.
LEMMA LgNoteKinds ==
    ASSUME NEW note \in LgNoteSet
    PROVE  /\ note[1] \in {"find", "found", "unfound", "open", "key", "closed", "link", "paired"}
           /\ note = <<"find">> <=> note[1] = "find"
           /\ note = <<"found">> <=> note[1] = "found"
           /\ note = <<"unfound">> <=> note[1] = "unfound"
           /\ note = <<"open">> <=> note[1] = "open"
           /\ note = <<"key">> <=> note[1] = "key"
           /\ note = <<"closed">> <=> note[1] = "closed"
           /\ note[1] \in {"link", "paired"} => note[2] \in LgAll
<1>1. CASE note \in LgSignals
  BY <1>1 DEF LgSignals
<1>2. CASE note \in LgTidings
  <2>1. note[1] \in {"link", "paired"} /\ note[2] \in LgAll
    BY <1>2 DEF LgTidings
  <2>2. \A kind \in STRING : note # <<kind>>
    BY <1>2 DEF LgTidings
  <2>3. QED BY <2>1, <2>2
<1>3. QED BY <1>1, <1>2 DEF LgNoteSet

\* What a note of the receiver makes of the pairing: only the opening of the lock, and a device
\* that was paired, touch what is new; only a lock that closes ends the opening.
LEMMA LgProcessed ==
    ASSUME LgTyped, NEW note \in LgNoteSet, note[1] # "link"
    PROVE  LET next == Lg!Process(note) IN
           /\ next \in LgPairings
           /\ note[1] = "open" => next.open /\ next.new = None
           /\ note[1] = "paired" => next.new = note[2]
           /\ note[1] \notin {"open", "paired"} => next.new = lgPairing.new
           /\ note[1] \notin {"closed", "paired"} /\ lgPairing.open => next.open
<1>1. lgPairing \in LgPairings
  BY DEF LgTyped
<1>2. CASE note[1] = "find"
  <2>1. Lg!Process(note) = [lgPairing EXCEPT !.finding = TRUE, !.found = FALSE, !.key = FALSE]
    BY <1>2, LgNoteKinds DEF Lg!Process
  <2>2. QED BY <1>1, <1>2, <2>1 DEF LgPairings
<1>3. CASE note[1] = "found"
  <2>1. Lg!Process(note) = [lgPairing EXCEPT !.found = TRUE]
    BY <1>3, LgNoteKinds DEF Lg!Process
  <2>2. QED BY <1>1, <1>3, <2>1 DEF LgPairings
<1>4. CASE note[1] = "unfound"
  <2>1. Lg!Process(note) = [lgPairing EXCEPT !.finding = FALSE, !.key = FALSE]
    BY <1>4, LgNoteKinds DEF Lg!Process
  <2>2. QED BY <1>1, <1>4, <2>1 DEF LgPairings
<1>5. CASE note[1] = "open"
  <2>1. Lg!Process(note) = [[lgPairing EXCEPT !.open = TRUE, !.key = FALSE] EXCEPT !.new = None]
    BY <1>5, LgNoteKinds DEF Lg!Process, Lg!ForgetNew
  <2>2. [lgPairing EXCEPT !.open = TRUE, !.key = FALSE] \in LgPairings
        /\ [lgPairing EXCEPT !.open = TRUE, !.key = FALSE].open = TRUE
    BY <1>1 DEF LgPairings
  <2>3. \A p \in LgPairings : p.open =>
          [p EXCEPT !.new = None] \in LgPairings /\ [p EXCEPT !.new = None].open /\ [p EXCEPT !.new = None].new = None
    BY DEF LgPairings
  <2>4. QED BY <1>5, <2>1, <2>2, <2>3
<1>6. CASE note[1] = "key"
  <2>1. Lg!Process(note) = [lgPairing EXCEPT !.key = TRUE]
    BY <1>6, LgNoteKinds DEF Lg!Process
  <2>2. QED BY <1>1, <1>6, <2>1 DEF LgPairings
<1>7. CASE note[1] = "closed"
  <2>1. Lg!Process(note) = [lgPairing EXCEPT !.open = FALSE, !.found = FALSE]
    BY <1>7, LgNoteKinds DEF Lg!Process
  <2>2. QED BY <1>1, <1>7, <2>1 DEF LgPairings
<1>8. CASE note[1] = "paired"
  <2>1. Lg!Process(note) = [lgPairing EXCEPT !.open = FALSE, !.found = FALSE, !.new = note[2]]
    BY <1>8, LgNoteKinds DEF Lg!Process
  <2>2. note[2] \in LgAll
    BY <1>8, LgNoteKinds
  <2>3. QED BY <1>1, <1>8, <2>1, <2>2 DEF LgPairings
<1>9. QED BY <1>2, <1>3, <1>4, <1>5, <1>6, <1>7, <1>8, LgNoteKinds

LEMMA LgTypeInit == Lg!Init => LgTyped
<1> SUFFICES ASSUME Lg!Init PROVE LgTyped
  OBVIOUS
<1> DEFINE some == CHOOSE d \in LgDevs : TRUE
<1>1. some \in LgDevs
  BY LogitechAssumption DEF LogitechAssumption
<1>2. lgSlots = [s \in LgAll |-> IF s = 1 THEN some ELSE None]
  BY DEF Lg!Init, LgAll, Lg!Slots
<1> HIDE DEF some
<1>3. lgSlots \in LgDevices
  BY <1>1, <1>2 DEF LgDevices
<1>4. Lg!Idle \in LgThreads /\ Lg!NoPairing \in LgPairings /\ Lg!Idle.step = "off"
  BY DEF Lg!Idle, Lg!NoPairing, LgThreads, LgPairings
<1>5. <<>> \in Seq(LgNoteSet)
  OBVIOUS
<1>6. QED BY <1>3, <1>4, <1>5 DEF Lg!Init, LgTyped

\* A pairing that is not: its thread, and what the receiver knows of it.
LEMMA LgNothing ==
    /\ Lg!Idle \in LgThreads /\ Lg!Idle.step = "off"
    /\ Lg!NoPairing \in LgPairings /\ Lg!NoPairing.new = None
    /\ <<>> \in Seq(LgNoteSet) /\ Len(<<>>) = 0
BY DEF Lg!Idle, Lg!NoPairing, LgThreads, LgPairings

\* The lock, or the discovery, is asked for, and the receiver grants it or does not.
LEMMA LgAsks ==
    ASSUME LgTyped, NEW what \in {"find", "open"}, Lg!Ask(what)
    PROVE  /\ lgNotes' \in Seq(LgNoteSet) /\ lgAir' \in {"shut", "find", "open"}
           /\ \/ /\ lgAir' = what /\ lgNotes' = Append(lgNotes, <<what>>) /\ <<what>> \in LgNoteSet
                 /\ UNCHANGED lgSpoilt
              \/ UNCHANGED <<lgAir, lgNotes>> /\ lgSpoilt' = lgSpoilt \cup {"refused"}
<1>1. lgNotes \in Seq(LgNoteSet) /\ <<what>> \in LgNoteSet /\ lgAir \in {"shut", "find", "open"}
  BY DEF LgTyped, LgNoteSet, LgSignals
<1>2. \/ lgAir' = what /\ lgNotes' = Append(lgNotes, <<what>>) /\ UNCHANGED lgSpoilt
      \/ UNCHANGED <<lgAir, lgNotes>> /\ lgSpoilt' = lgSpoilt \cup {"refused"}
  BY DEF Lg!Ask, Lg!Spoil
<1> DEFINE note == <<what>>
<1> HIDE DEF note
<1>3. Append(lgNotes, note) \in Seq(LgNoteSet)
  BY <1>1 DEF note
<1>4. QED BY <1>1, <1>2, <1>3 DEF note

\* The steps of the thread of a pairing.
LEMMA LgSteps ==
    ASSUME NEW thread \in LgThreads, NEW step \in {"find", "key", "lock"}
    PROVE  LET next == [thread EXCEPT !.step = step] IN
           /\ next \in LgThreads /\ next.step = step
           /\ next.known = thread.known /\ next.before = thread.before /\ next.flag = thread.flag
BY DEF LgThreads

\* A note is read: the hook takes the first link, and what is new of it.
LEMMA LgPumps ==
    ASSUME LgTyped, Lg!Pump
    PROVE  /\ lgThread.step \in {"find", "key", "lock"} /\ lgNotes # <<>>
           /\ lgNotes' \in Seq(LgNoteSet) /\ Len(lgNotes') = Len(lgNotes) - 1
           /\ \A i \in 1..Len(lgNotes') : lgNotes'[i] = lgNotes[i + 1]
           /\ 1 \in 1..Len(lgNotes) /\ lgNotes[1] \in LgNoteSet
           /\ lgPairing' \in LgPairings /\ lgThread' \in LgThreads
           /\ lgThread'.step = lgThread.step /\ lgThread'.before = lgThread.before
           /\ lgThread'.flag = lgThread.flag
           /\ UNCHANGED <<lgSlots, lgFlag, lgAir, lgCall, lgCancel, lgPage, lgRows, lgSaid, lgSpoilt>>
           /\ \/ /\ lgNotes[1][1] # "link" /\ lgPairing' = Lg!Process(lgNotes[1])
                 /\ lgThread' = lgThread
              \/ /\ lgNotes[1][1] = "link" /\ lgThread.known = None /\ UNCHANGED <<lgPairing, lgThread>>
              \/ /\ lgNotes[1][1] = "link" /\ lgThread.known # None /\ lgThread'.known = None
                 /\ lgPairing'.open = lgPairing.open
                 /\ lgPairing'.new = IF lgNotes[1][2] \notin lgThread.known THEN lgNotes[1][2] ELSE lgPairing.new
<1>1. lgNotes \in Seq(LgNoteSet) /\ lgThread \in LgThreads /\ lgPairing \in LgPairings
  BY DEF LgTyped
<1>2. /\ lgThread.step \in {"find", "key", "lock"} /\ lgNotes # <<>> /\ lgNotes' = Tail(lgNotes)
      /\ UNCHANGED <<lgSlots, lgFlag, lgAir, lgCall, lgCancel, lgPage, lgRows, lgSaid, lgSpoilt>>
  BY DEF Lg!Pump, Lg!Pumping, Lg!PairKeep
<1>3. /\ lgNotes' \in Seq(LgNoteSet) /\ Len(lgNotes') = Len(lgNotes) - 1
      /\ \A i \in 1..Len(lgNotes') : lgNotes'[i] = lgNotes[i + 1]
      /\ 1 \in 1..Len(lgNotes) /\ lgNotes[1] \in LgNoteSet /\ Head(lgNotes) = lgNotes[1]
  BY <1>1, <1>2
<1> DEFINE note == lgNotes[1]
<1>4. IF note[1] # "link" THEN lgPairing' = Lg!Process(note) /\ UNCHANGED lgThread
      ELSE IF lgThread.known = None THEN UNCHANGED <<lgPairing, lgThread>>
      ELSE /\ lgPairing' = IF Lg!HookRegisters(note[2]) THEN [lgPairing EXCEPT !.new = note[2]] ELSE lgPairing
           /\ lgThread' = [lgThread EXCEPT !.known = None]
  BY <1>3 DEF Lg!Pump
<1>5. CASE note[1] # "link"
  <2>1. lgPairing' = Lg!Process(note) /\ lgThread' = lgThread
    BY <1>4, <1>5
  <2>2. lgPairing' \in LgPairings
    BY <1>3, <1>5, <2>1, LgProcessed
  <2>3. QED BY <1>1, <1>2, <1>3, <1>5, <2>1, <2>2
<1>6. CASE note[1] = "link" /\ lgThread.known = None
  <2>1. UNCHANGED <<lgPairing, lgThread>>
    BY <1>4, <1>6
  <2>2. QED BY <1>1, <1>2, <1>3, <1>6, <2>1
<1>7. CASE note[1] = "link" /\ lgThread.known # None
  <2>1. /\ lgPairing' = IF note[2] \notin lgThread.known THEN [lgPairing EXCEPT !.new = note[2]] ELSE lgPairing
        /\ lgThread' = [lgThread EXCEPT !.known = None]
    BY <1>4, <1>7 DEF Lg!HookRegisters
  <2>2. note[2] \in LgAll
    BY <1>3, <1>7, LgNoteKinds
  <2>3. /\ lgPairing' \in LgPairings /\ lgPairing'.open = lgPairing.open
        /\ lgPairing'.new = IF note[2] \notin lgThread.known THEN note[2] ELSE lgPairing.new
    BY <1>1, <2>1, <2>2 DEF LgPairings
  <2>4. /\ lgThread' \in LgThreads /\ lgThread'.known = None
        /\ lgThread'.step = lgThread.step /\ lgThread'.before = lgThread.before /\ lgThread'.flag = lgThread.flag
    BY <1>1, <2>1 DEF LgThreads
  <2>5. QED BY <1>2, <1>3, <1>7, <2>3, <2>4
<1>8. QED BY <1>5, <1>6, <1>7

\* A device joins in a slot that was free; it is linked if the receiver tells, and then the lock is
\* closed, or the device is said to be paired.
LEMMA LgJoins ==
    ASSUME LgTyped, NEW d \in LgDevs, Lg!DeviceJoins(d)
    PROVE  /\ lgSlots' \in LgDevices /\ lgNotes' \in Seq(LgNoteSet)
           /\ lgAir = "open" /\ lgAir' = "shut"
           /\ UNCHANGED <<lgFlag, lgPairing, lgThread, lgCall, lgCancel, lgPage, lgRows, lgSaid, lgSpoilt, lgMemo, lgKind>>
           /\ lgDrift' = lgDrift \cup {"joined"}
           /\ \E s \in LgAll :
                /\ s \notin Lg!Taken(lgSlots) /\ Lg!Taken(lgSlots') = Lg!Taken(lgSlots) \cup {s}
                /\ \A r \in LgAll : r # s => lgSlots'[r] = lgSlots[r]
                /\ \E told \in {<<"closed">>, <<"paired", s>>} :
                     lgNotes' = lgNotes \o IF lgFlag THEN <<<<"link", s>>, told>> ELSE <<told>>
<1>1. lgSlots \in LgDevices /\ lgNotes \in Seq(LgNoteSet)
  BY DEF LgTyped
<1> DEFINE s == CHOOSE f \in Lg!Free : \A g \in Lg!Free : f <= g
           told == IF lgKind.bolt THEN <<"paired", s>> ELSE <<"closed">>
<1>2. Lg!Free # {} /\ Lg!Free \subseteq LgAll /\ Lg!Free \cap Lg!Taken(lgSlots) = {}
  BY DEF Lg!DeviceJoins, Lg!Free, LgAll, Lg!Slots
<1>3. s \in Lg!Free
  <2> DEFINE free == Lg!Free
  <2>1. free \in SUBSET Nat /\ free # {}
    BY <1>2 DEF LgAll
  <2> HIDE DEF free
  <2>2. \E f \in free : \A g \in free : f <= g
    BY <2>1, LeastMember
  <2>3. QED BY <2>2 DEF free
<1>4. /\ lgSlots' = [lgSlots EXCEPT ![s] = d]
      /\ lgNotes' = lgNotes \o (Lg!Link(s) \o (IF lgKind.bolt THEN <<<<"paired", s>>>> ELSE <<<<"closed">>>>))
      /\ lgAir = "open" /\ lgAir' = "shut"
      /\ UNCHANGED <<lgFlag, lgPairing, lgThread, lgCall, lgCancel, lgPage, lgRows, lgSaid, lgSpoilt, lgMemo, lgKind>>
      /\ lgDrift' = lgDrift \cup {"joined"}
  BY DEF Lg!DeviceJoins, Lg!Tell, Lg!AirKeep, Lg!Drift
<1> HIDE DEF s
<1>5. s \in LgAll /\ s \notin Lg!Taken(lgSlots)
  BY <1>2, <1>3
<1>6. lgSlots' \in LgDevices /\ \A r \in LgAll : lgSlots'[r] = IF r = s THEN d ELSE lgSlots[r]
  BY <1>1, <1>4, <1>5 DEF LgDevices
<1>7. Lg!Taken(lgSlots') = Lg!Taken(lgSlots) \cup {s}
  BY <1>5, <1>6, LgApart DEF Lg!Taken, Lg!Slots, LgAll
<1>8. told \in {<<"closed">>, <<"paired", s>>} /\ told \in LgNoteSet /\ <<"link", s>> \in LgNoteSet
  BY <1>5 DEF LgNoteSet, LgSignals, LgTidings
<1>9. lgNotes' = lgNotes \o IF lgFlag THEN <<<<"link", s>>, told>> ELSE <<told>>
  <2>1. (IF lgKind.bolt THEN <<<<"paired", s>>>> ELSE <<<<"closed">>>>) = <<told>>
    OBVIOUS
  <2>2. Lg!Link(s) \o <<told>> = IF lgFlag THEN <<<<"link", s>>, told>> ELSE <<told>>
    <3> DEFINE linked == <<"link", s>>
    <3> HIDE DEF linked, told
    <3>1. <<linked>> \o <<told>> = <<linked, told>>
      <4> DEFINE S == {linked, told}
                 p == <<linked>>
                 q == <<told>>
                 both == <<linked, told>>
      <4>1. /\ p \in Seq(S) /\ Len(p) = 1 /\ p[1] = linked /\ q \in Seq(S) /\ Len(q) = 1 /\ q[1] = told
            /\ both \in Seq(S) /\ Len(both) = 2 /\ both[1] = linked /\ both[2] = told
        OBVIOUS
      <4> HIDE DEF S, p, q, both
      <4>2. p \o q \in Seq(S) /\ Len(p \o q) = 2 /\ (p \o q)[1] = linked /\ (p \o q)[2] = told
        <5>1. /\ p \o q \in Seq(S) /\ Len(p \o q) = Len(p) + Len(q)
              /\ \A i \in 1..Len(p) + Len(q) : (p \o q)[i] = IF i <= Len(p) THEN p[i] ELSE q[i - Len(p)]
          BY <4>1, ConcatProperties
        <5>2. 1 \in 1..Len(p) + Len(q) /\ 2 \in 1..Len(p) + Len(q)
          BY <4>1
        <5>3. QED BY <4>1, <5>1, <5>2
      <4>3. Len(p \o q) = Len(both) /\ \A i \in 1..Len(p \o q) : (p \o q)[i] = both[i]
        BY <4>1, <4>2
      <4>4. p \o q = both
        <5> DEFINE joined == p \o q
        <5>1. /\ joined \in Seq(S) /\ both \in Seq(S) /\ Len(joined) = Len(both)
              /\ \A i \in 1..Len(joined) : joined[i] = both[i]
          BY <4>1, <4>2, <4>3
        <5> HIDE DEF joined
        <5>2. joined = both
          BY <5>1, SeqEqual, Zenon
        <5>3. QED BY <5>2 DEF joined
      <4>5. QED BY <4>4 DEF p, q, both
    <3>2. <<>> \o <<told>> = <<told>>
      <4> DEFINE one == <<told>>
      <4>1. one \in Seq({told})
        OBVIOUS
      <4> HIDE DEF one
      <4>2. <<>> \o one = one
        BY <4>1
      <4>3. QED BY <4>2 DEF one
    <3>3. QED BY <3>1, <3>2 DEF Lg!Link, linked
  <2>3. QED BY <1>4, <2>1, <2>2
<1>10. lgNotes' \in Seq(LgNoteSet)
  <2> DEFINE linked == <<"link", s>>
  <2>1. linked \in LgNoteSet /\ told \in LgNoteSet
    BY <1>8
  <2>2. lgNotes' = lgNotes \o IF lgFlag THEN <<linked, told>> ELSE <<told>>
    BY <1>9
  <2> HIDE DEF linked, told
  <2>3. <<linked, told>> \in Seq(LgNoteSet) /\ <<told>> \in Seq(LgNoteSet)
    BY <2>1
  <2> DEFINE added == IF lgFlag THEN <<linked, told>> ELSE <<told>>
  <2>4. added \in Seq(LgNoteSet) /\ lgNotes' = lgNotes \o added
    BY <2>2, <2>3
  <2> HIDE DEF added
  <2>5. QED BY <1>1, <2>4
<1>11. QED BY <1>4, <1>5, <1>6, <1>7, <1>8, <1>9, <1>10

\* What else the receiver says: a device that wakes, the end of what it opened, a passkey.
LEMMA LgTells ==
    ASSUME LgTyped,
           \/ Lg!DeviceFound \/ Lg!PasskeyMade \/ Lg!LockTimesOut
           \/ \E s \in Lg!Slots : Lg!KnownWakes(s)
    PROVE  /\ UNCHANGED <<lgSlots, lgFlag, lgPairing, lgThread, lgCall, lgCancel, lgPage, lgRows, lgSaid,
                          lgMemo, lgKind, lgDrift>>
           /\ lgAir' \in {"shut", "find", "open"}
           /\ \E more \in Seq(LgNoteSet) :
                /\ lgNotes' = lgNotes \o more
                /\ \/ /\ lgSpoilt' = lgSpoilt \cup {"woken"} /\ UNCHANGED lgAir
                      /\ \A i \in 1..Len(more) : more[i][1] = "link"
                   \/ /\ UNCHANGED lgSpoilt /\ lgAir' = "shut"
                      /\ \A i \in 1..Len(more) :
                            more[i][1] \in {"found", "unfound"} \/ (more[i][1] = "closed" /\ lgAir = "open")
                   \/ /\ UNCHANGED <<lgSpoilt, lgAir>>
                      /\ \A i \in 1..Len(more) : more[i][1] = "key"
<1> USE DEF Lg!Tell, Lg!AirKeep
<1>1. lgAir \in {"shut", "find", "open"}
  BY DEF LgTyped
<1>2. /\ <<"found">> \in LgNoteSet /\ <<"unfound">> \in LgNoteSet /\ <<"closed">> \in LgNoteSet
      /\ <<"key">> \in LgNoteSet
  BY DEF LgNoteSet, LgSignals
<1>3. CASE Lg!DeviceFound
  <2> DEFINE more == <<<<"found">>, <<"unfound">>>>
  <2>1. more \in Seq(LgNoteSet) /\ Len(more) = 2 /\ more[1][1] = "found" /\ more[2][1] = "unfound"
    BY <1>2
  <2>2. lgNotes' = lgNotes \o more /\ lgAir' = "shut"
        /\ UNCHANGED <<lgSpoilt, lgSlots, lgFlag, lgPairing, lgThread, lgCall, lgCancel, lgPage, lgRows,
                       lgSaid, lgMemo, lgKind, lgDrift>>
    BY <1>3 DEF Lg!DeviceFound
  <2> HIDE DEF more
  <2>3. \A i \in 1..Len(more) : more[i][1] \in {"found", "unfound"}
    BY <2>1
  <2>4. QED BY <2>1, <2>2, <2>3
<1>4. CASE Lg!PasskeyMade
  <2> DEFINE more == <<<<"key">>>>
  <2>1. more \in Seq(LgNoteSet) /\ Len(more) = 1 /\ more[1][1] = "key"
    BY <1>2
  <2>2. lgNotes' = lgNotes \o more
        /\ UNCHANGED <<lgAir, lgSpoilt, lgSlots, lgFlag, lgPairing, lgThread, lgCall, lgCancel, lgPage,
                       lgRows, lgSaid, lgMemo, lgKind, lgDrift>>
    BY <1>4 DEF Lg!PasskeyMade
  <2> HIDE DEF more
  <2>3. \A i \in 1..Len(more) : more[i][1] = "key"
    BY <2>1
  <2>4. QED BY <1>1, <2>1, <2>2, <2>3
<1>5. CASE Lg!LockTimesOut
  <2> DEFINE more == IF lgAir = "find" THEN <<<<"unfound">>>> ELSE <<<<"closed">>>>
  <2>0. lgAir # "shut"
    BY <1>5 DEF Lg!LockTimesOut
  <2>1. /\ more \in Seq(LgNoteSet) /\ Len(more) = 1
        /\ more[1][1] = "unfound" \/ (more[1][1] = "closed" /\ lgAir = "open")
    BY <1>1, <1>2, <2>0
  <2>2. lgNotes' = lgNotes \o more /\ lgAir' = "shut"
        /\ UNCHANGED <<lgSpoilt, lgSlots, lgFlag, lgPairing, lgThread, lgCall, lgCancel, lgPage, lgRows,
                       lgSaid, lgMemo, lgKind, lgDrift>>
    BY <1>5 DEF Lg!LockTimesOut
  <2> HIDE DEF more
  <2>3. \A i \in 1..Len(more) : more[i][1] \in {"found", "unfound"} \/ (more[i][1] = "closed" /\ lgAir = "open")
    BY <2>1
  <2>4. QED BY <2>1, <2>2, <2>3
<1>6. ASSUME NEW s \in Lg!Slots, Lg!KnownWakes(s)
      PROVE  /\ UNCHANGED <<lgSlots, lgFlag, lgPairing, lgThread, lgCall, lgCancel, lgPage, lgRows, lgSaid,
                            lgMemo, lgKind, lgDrift, lgAir>>
             /\ \E more \in Seq(LgNoteSet) :
                  /\ lgNotes' = lgNotes \o more
                  /\ lgSpoilt' = lgSpoilt \cup {"woken"}
                  /\ \A i \in 1..Len(more) : more[i][1] = "link"
  <2> DEFINE more == Lg!Link(s)
  <2>1. <<"link", s>> \in LgNoteSet
    BY DEF LgNoteSet, LgTidings, LgAll, Lg!Slots
  <2>2. more \in Seq(LgNoteSet) /\ (more # <<>> => Len(more) = 1 /\ more[1][1] = "link")
    BY <2>1 DEF Lg!Link
  <2>3. lgNotes' = lgNotes \o more /\ lgSpoilt' = lgSpoilt \cup {"woken"}
        /\ UNCHANGED <<lgAir, lgSlots, lgFlag, lgPairing, lgThread, lgCall, lgCancel, lgPage,
                       lgRows, lgSaid, lgMemo, lgKind, lgDrift>>
    BY <1>6 DEF Lg!KnownWakes, Lg!Spoil
  <2> HIDE DEF more
  <2>4. \A i \in 1..Len(more) : more[i][1] = "link"
    BY <2>2
  <2>5. QED BY <2>2, <2>3, <2>4
<1>7. QED BY <1>1, <1>3, <1>4, <1>5, <1>6

\* The end of a pairing, read to its end or cancelled: the flag is what the pairing found.
LEMMA LgEnds ==
    ASSUME LgTyped, Lg!PairingEnds \/ Lg!Cancelled
    PROVE  /\ lgThread.step # "off" /\ lgThread' = Lg!Idle /\ lgFlag' = lgThread.flag /\ lgCall' = FALSE
           /\ UNCHANGED <<lgAir, lgNotes, lgPairing, lgCancel, lgKind, lgSlots, lgPage, lgMemo, lgDrift>>
           /\ \E new \in LgAll \cup {None} :
                /\ lgRows' = IF new # None THEN Lg!PairingRows(lgSlots) ELSE lgRows
                /\ lgSaid' = IF lgCall THEN [new |-> new, before |-> lgThread.before] ELSE lgSaid
                /\ \/ lgSpoilt' = lgSpoilt \cup {"cancelled"} /\ new = None
                   \/ /\ UNCHANGED lgSpoilt /\ lgNotes = <<>>
                      /\ \/ lgThread.step = "lock" /\ ~lgPairing.open /\ new = lgPairing.new
                         \/ lgThread.step = "find" /\ new = None
<1>1. lgPairing.new \in LgAll \cup {None} /\ lgFlag \in BOOLEAN /\ lgThread.flag \in BOOLEAN
      /\ (lgThread.step # "off" => lgFlag)
  BY DEF LgTyped, LgPairings, LgThreads
<1>2. ASSUME NEW new \in LgAll \cup {None}, Lg!Finish(new), lgThread.step # "off"
      PROVE  /\ lgThread' = Lg!Idle /\ lgFlag' = lgThread.flag /\ lgCall' = FALSE
             /\ UNCHANGED <<lgAir, lgNotes, lgPairing, lgCancel, lgKind, lgSlots, lgPage, lgMemo, lgDrift>>
             /\ lgRows' = IF new # None THEN Lg!PairingRows(lgSlots) ELSE lgRows
             /\ lgSaid' = IF lgCall THEN [new |-> new, before |-> lgThread.before] ELSE lgSaid
  <2>1. lgFlag' = (lgFlag /\ ~~lgThread.flag)
    BY <1>2 DEF Lg!Finish, Lg!ClearsFlag
  <2>2. lgFlag' = lgThread.flag
    BY <1>1, <1>2, <2>1
  <2>3. QED BY <1>2, <2>2 DEF Lg!Finish, Lg!DescribeAfter, Lg!PairKeep
<1>3. CASE Lg!Cancelled
  <2>1. lgThread.step # "off" /\ Lg!Finish(None) /\ lgSpoilt' = lgSpoilt \cup {"cancelled"}
    BY <1>3 DEF Lg!Cancelled, Lg!Pumping
  <2>2. QED BY <1>2, <2>1
<1>4. CASE Lg!PairingEnds
  <2>1. CASE lgThread.step = "lock" /\ ~lgPairing.open /\ Lg!Finish(lgPairing.new)
    <3>1. lgNotes = <<>> /\ UNCHANGED lgSpoilt
      BY <1>4 DEF Lg!PairingEnds
    <3>2. QED BY <1>1, <1>2, <2>1, <3>1
  <2>2. CASE lgThread.step = "find" /\ Lg!Finish(None)
    <3>1. lgNotes = <<>> /\ UNCHANGED lgSpoilt
      BY <1>4 DEF Lg!PairingEnds
    <3>2. QED BY <1>2, <2>2, <3>1
  <2>3. QED BY <1>4, <2>1, <2>2 DEF Lg!PairingEnds
<1>5. QED BY <1>3, <1>4

LEMMA LgTypePages ==
    ASSUME LgTyped,
           \/ Lg!Discover \/ Lg!ConnectReceiver \/ Lg!Disconnect \/ Lg!OtherConnects
           \/ \E s \in Lg!Slots : Lg!ConnectChild(s)
    PROVE  LgTyped'
<1> USE DEF LgTyped
<1>1. CASE Lg!Discover \/ Lg!OtherConnects
  <2>1. /\ UNCHANGED <<lgSlots, lgFlag, lgAir, lgNotes, lgPairing, lgThread, lgCall, lgPage, lgRows>>
        /\ lgCancel' \in {FALSE, lgCancel}
    BY <1>1 DEF Lg!Discover, Lg!OtherConnects, Lg!Reset
  <2>2. QED BY <2>1
<1>2. CASE Lg!ConnectReceiver
  <2>1. /\ lgPage' = 0 /\ lgFlag' \in {TRUE, lgFlag} /\ lgRows' = Lg!PairingRows(lgSlots)
        /\ lgPairing' = Lg!NoPairing /\ lgNotes' = <<>> /\ lgCancel' = FALSE
        /\ UNCHANGED <<lgSlots, lgAir, lgThread, lgCall>>
    BY <1>2 DEF Lg!ConnectReceiver, Lg!Announce, Lg!Reset
  <2>2. 0 \in 0..LgSlots
    BY LgApart
  <2>3. QED BY <2>1, <2>2, LgTaken, LgNothing
<1>3. ASSUME NEW s \in Lg!Slots, Lg!ConnectChild(s)
      PROVE  LgTyped'
  <2>1. /\ lgPage' = s /\ lgFlag' \in {TRUE, lgFlag} /\ lgCancel' = FALSE
        /\ UNCHANGED <<lgSlots, lgAir, lgNotes, lgPairing, lgThread, lgCall, lgRows>>
    BY <1>3 DEF Lg!ConnectChild, Lg!Announce, Lg!Reset
  <2>2. s \in 0..LgSlots
    BY LgApart DEF Lg!Slots
  <2>3. QED BY <2>1, <2>2
<1>4. CASE Lg!Disconnect
  <2>1. /\ lgPage' = None /\ lgRows' = {} /\ lgThread' = Lg!Idle /\ lgCall' = FALSE
        /\ UNCHANGED <<lgSlots, lgFlag, lgAir, lgNotes, lgPairing, lgCancel>>
    BY <1>4 DEF Lg!Disconnect
  <2>2. QED BY <2>1, LgNothing
<1>5. QED BY <1>1, <1>2, <1>3, <1>4

LEMMA LgTypePairing ==
    ASSUME LgTyped,
           \/ Lg!StartPairing \/ Lg!Open \/ Lg!Pump \/ Lg!Found \/ Lg!Passkey \/ Lg!PressCancel
           \/ Lg!PairingEnds \/ Lg!Cancelled \/ Lg!GiveUp
    PROVE  LgTyped'
<1>1. lgThread \in LgThreads
  BY DEF LgTyped
<1>2. CASE Lg!StartPairing
  <2>1. /\ lgThread' = [step |-> "asking", known |-> Lg!Taken(lgSlots), flag |-> lgFlag,
                        before |-> Lg!Taken(lgSlots), pressed |-> FALSE]
        /\ lgCall' = TRUE /\ lgFlag' = TRUE
        /\ UNCHANGED <<lgSlots, lgAir, lgNotes, lgPairing, lgCancel, lgPage, lgRows>>
    BY <1>2 DEF Lg!StartPairing, Lg!SetsFlag
  <2>2. lgThread' \in LgThreads /\ lgThread'.step = "asking"
    BY <2>1, LgTaken DEF LgTyped, LgThreads
  <2>3. QED BY <2>1, <2>2 DEF LgTyped
<1>3. CASE Lg!Open \/ Lg!Found
  <2>1. PICK step \in {"find", "key", "lock"}, what \in {"find", "open"} :
           lgThread' = [lgThread EXCEPT !.step = step] /\ Lg!Ask(what)
    BY <1>3 DEF Lg!Open, Lg!Found, Lg!StepTo
  <2>2. lgThread.step # "off" /\ UNCHANGED <<lgFlag, lgPairing, lgCall, lgRows, lgCancel, lgSlots, lgPage>>
    BY <1>3 DEF Lg!Open, Lg!Found, Lg!PairKeep
  <2>3. lgThread' \in LgThreads /\ lgThread'.step # "off"
    BY <1>1, <2>1, LgSteps
  <2>4. lgNotes' \in Seq(LgNoteSet) /\ lgAir' \in {"shut", "find", "open"}
    BY <2>1, LgAsks
  <2>5. QED BY <2>2, <2>3, <2>4 DEF LgTyped
<1>4. CASE Lg!Passkey
  <2>1. /\ lgThread' = [lgThread EXCEPT !.step = "lock"] /\ lgThread.step # "off"
        /\ UNCHANGED <<lgFlag, lgAir, lgNotes, lgPairing, lgCall, lgRows, lgCancel, lgSlots, lgPage>>
    BY <1>4 DEF Lg!Passkey, Lg!StepTo, Lg!PairKeep
  <2>2. lgThread' \in LgThreads /\ lgThread'.step # "off"
    BY <1>1, <2>1, LgSteps
  <2>3. QED BY <2>1, <2>2 DEF LgTyped
<1>5. CASE Lg!Pump
  <2>1. /\ lgNotes' \in Seq(LgNoteSet) /\ lgPairing' \in LgPairings /\ lgThread' \in LgThreads
        /\ lgThread'.step = lgThread.step
        /\ UNCHANGED <<lgSlots, lgFlag, lgAir, lgCall, lgCancel, lgPage, lgRows>>
    BY <1>5, LgPumps
  <2>2. QED BY <2>1 DEF LgTyped
<1>6. CASE Lg!PressCancel
  <2>1. /\ lgCancel' = TRUE /\ lgThread' = [lgThread EXCEPT !.pressed = TRUE]
        /\ UNCHANGED <<lgSlots, lgFlag, lgAir, lgNotes, lgPairing, lgCall, lgPage, lgRows>>
    BY <1>6 DEF Lg!PressCancel
  <2>2. lgThread' \in LgThreads /\ lgThread'.step = lgThread.step
    BY <1>1, <2>1 DEF LgThreads
  <2>3. QED BY <2>1, <2>2 DEF LgTyped
<1>7. CASE Lg!PairingEnds \/ Lg!Cancelled
  <2>1. /\ lgThread' = Lg!Idle /\ lgFlag' = lgThread.flag /\ lgCall' = FALSE
        /\ UNCHANGED <<lgAir, lgNotes, lgPairing, lgCancel, lgSlots, lgPage>>
        /\ lgRows' \in {Lg!PairingRows(lgSlots), lgRows}
    BY <1>7, LgEnds
  <2>2. lgRows' \subseteq LgAllRows
    BY <2>1, LgTaken DEF LgTyped
  <2>3. lgThread.flag \in BOOLEAN
    BY <1>1 DEF LgThreads
  <2>4. QED BY <2>1, <2>2, <2>3, LgNothing DEF LgTyped
<1>8. CASE Lg!GiveUp
  BY <1>8 DEF Lg!GiveUp, Lg!PairKeep, LgTyped
<1>9. QED BY <1>2, <1>3, <1>4, <1>5, <1>6, <1>7, <1>8

LEMMA LgTypeReceiver ==
    ASSUME LgTyped,
           \/ Lg!DeviceFound \/ Lg!PasskeyMade \/ Lg!LockTimesOut \/ Lg!Elsewhere
           \/ \E s \in Lg!Slots : Lg!KnownWakes(s) \/ Lg!Unpair(s)
           \/ \E d \in LgDevs : Lg!DeviceJoins(d)
    PROVE  LgTyped'
<1>1. lgSlots \in LgDevices /\ lgNotes \in Seq(LgNoteSet)
  BY DEF LgTyped
<1>2. CASE Lg!DeviceFound \/ Lg!PasskeyMade \/ Lg!LockTimesOut \/ \E s \in Lg!Slots : Lg!KnownWakes(s)
  <2>1. PICK more \in Seq(LgNoteSet) : lgNotes' = lgNotes \o more
    BY <1>2, LgTells
  <2>2. lgNotes' \in Seq(LgNoteSet)
    BY <1>1, <2>1
  <2>3. /\ UNCHANGED <<lgSlots, lgFlag, lgPairing, lgThread, lgCall, lgCancel, lgPage, lgRows>>
        /\ lgAir' \in {"shut", "find", "open"}
    BY <1>2, LgTells
  <2>4. QED BY <2>2, <2>3 DEF LgTyped
<1>3. CASE Lg!Elsewhere
  <2>1. PICK s \in LgAll, d \in LgDevs \cup {None} : lgSlots' = [lgSlots EXCEPT ![s] = d]
    BY <1>3 DEF Lg!Elsewhere, LgAll, Lg!Slots
  <2>2. UNCHANGED <<lgAir, lgFlag, lgNotes, lgCancel, lgPairing, lgThread, lgCall, lgPage, lgRows>>
    BY <1>3 DEF Lg!Elsewhere, Lg!AirKeep
  <2>3. lgSlots' \in LgDevices
    BY <1>1, <2>1 DEF LgDevices
  <2>4. QED BY <2>2, <2>3 DEF LgTyped
<1>4. ASSUME NEW s \in Lg!Slots, Lg!Unpair(s)
      PROVE  LgTyped'
  <2>1. /\ lgSlots' = [lgSlots EXCEPT ![s] = None] /\ lgRows' = Lg!PairingRows(lgSlots')
        /\ UNCHANGED <<lgFlag, lgAir, lgNotes, lgPairing, lgThread, lgCall, lgCancel, lgPage>>
    BY <1>4 DEF Lg!Unpair
  <2>2. lgSlots' \in LgDevices
    BY <1>1, <2>1 DEF LgDevices
  <2>3. lgRows' \subseteq LgAllRows
    BY <2>1, LgTaken
  <2>4. QED BY <2>1, <2>2, <2>3 DEF LgTyped
<1>5. ASSUME NEW d \in LgDevs, Lg!DeviceJoins(d)
      PROVE  LgTyped'
  <2>1. /\ lgSlots' \in LgDevices /\ lgNotes' \in Seq(LgNoteSet) /\ lgAir' = "shut"
        /\ UNCHANGED <<lgFlag, lgPairing, lgThread, lgCall, lgCancel, lgPage, lgRows>>
    BY <1>5, LgJoins
  <2>2. QED BY <2>1 DEF LgTyped
<1>6. QED BY <1>2, <1>3, <1>4, <1>5

LEMMA LgTypeNext == LgTyped /\ (Lg!Next \/ UNCHANGED lgVars) => LgTyped'
<1> SUFFICES ASSUME LgTyped, Lg!Next \/ UNCHANGED lgVars PROVE LgTyped'
  OBVIOUS
<1>1. CASE UNCHANGED lgVars
  BY <1>1 DEF lgVars, LgTyped
<1>2. CASE Lg!Next
  BY <1>2, LgTypePages, LgTypePairing, LgTypeReceiver DEF Lg!Next
<1>3. QED BY <1>1, <1>2

-----------------------------------------------------------------------------
(* LogitechDevice: the flag. *)

\* A thread ends by reading to its end, by being cancelled or with its page, and by nothing else.
LEMMA LgThreadGoesOn ==
    ASSUME LgTyped, Lg!Next, ~Lg!Disconnect, ~Lg!PairingEnds, ~Lg!Cancelled, lgThread.step # "off"
    PROVE  lgThread'.step # "off"
<1>1. lgThread \in LgThreads
  BY DEF LgTyped
<1>2. CASE \/ Lg!Discover \/ Lg!ConnectReceiver \/ Lg!GiveUp \/ Lg!OtherConnects \/ Lg!Elsewhere
           \/ \E s \in Lg!Slots : Lg!ConnectChild(s) \/ Lg!Unpair(s)
  <2>1. lgThread' = lgThread
    BY <1>2 DEF Lg!Discover, Lg!ConnectReceiver, Lg!GiveUp, Lg!OtherConnects, Lg!Elsewhere,
       Lg!ConnectChild, Lg!Unpair, Lg!AirKeep
  <2>2. QED BY <2>1
<1>3. CASE \/ Lg!DeviceFound \/ Lg!PasskeyMade \/ Lg!LockTimesOut
           \/ \E s \in Lg!Slots : Lg!KnownWakes(s)
           \/ \E d \in LgDevs : Lg!DeviceJoins(d)
  BY <1>3, LgTells, LgJoins
<1>4. CASE Lg!StartPairing
  BY <1>4 DEF Lg!StartPairing
<1>5. CASE Lg!Open \/ Lg!Found \/ Lg!Passkey
  <2>1. PICK step \in {"find", "key", "lock"} : lgThread' = [lgThread EXCEPT !.step = step]
    BY <1>5 DEF Lg!Open, Lg!Found, Lg!Passkey, Lg!StepTo
  <2>2. QED BY <1>1, <2>1, LgSteps
<1>6. CASE Lg!Pump
  BY <1>6, LgPumps
<1>7. CASE Lg!PressCancel
  <2>1. lgThread' = [lgThread EXCEPT !.pressed = TRUE]
    BY <1>7 DEF Lg!PressCancel
  <2>2. QED BY <1>1, <2>1 DEF LgThreads
<1>8. QED BY <1>2, <1>3, <1>4, <1>5, <1>6, <1>7 DEF Lg!Next

LEMMA LgPutsBack ==
    ASSUME LgTyped, Lg!Next \/ UNCHANGED lgVars
    PROVE  (lgThread.step # "off" /\ lgThread'.step = "off" /\ lgPage' = 0) => lgFlag' = lgThread.flag
<1> SUFFICES ASSUME lgThread.step # "off", lgThread'.step = "off", lgPage' = 0
             PROVE  lgFlag' = lgThread.flag
  OBVIOUS
<1>1. ~UNCHANGED lgVars
  BY DEF lgVars
<1>2. ~Lg!Disconnect
  BY LgApart DEF Lg!Disconnect
<1>3. QED BY <1>1, <1>2, LgThreadGoesOn, LgEnds

-----------------------------------------------------------------------------
(* LogitechDevice: the rows of the receiver's page. *)

\* Notes that come behind others leave those where they were.
LEMMA LgBehind ==
    ASSUME NEW notes \in Seq(LgNoteSet), NEW more \in Seq(LgNoteSet)
    PROVE  /\ notes \o more \in Seq(LgNoteSet) /\ Len(notes \o more) = Len(notes) + Len(more)
           /\ \A i \in 1..Len(notes) : (notes \o more)[i] = notes[i]
           /\ \A i \in 1..Len(more) : (notes \o more)[Len(notes) + i] = more[i]
           /\ \A i \in 1..Len(notes \o more) :
                 i \in 1..Len(notes) \/ \E j \in 1..Len(more) : i = Len(notes) + j
<1>1. Len(notes) \in Nat /\ Len(more) \in Nat
  OBVIOUS
<1>2. /\ notes \o more \in Seq(LgNoteSet) /\ Len(notes \o more) = Len(notes) + Len(more)
      /\ \A i \in 1..Len(notes) + Len(more) :
            (notes \o more)[i] = IF i <= Len(notes) THEN notes[i] ELSE more[i - Len(notes)]
  BY ConcatProperties
<1>3. \A i \in 1..Len(notes) : (notes \o more)[i] = notes[i]
  BY <1>1, <1>2
<1>4. ASSUME NEW i \in 1..Len(more)
      PROVE  (notes \o more)[Len(notes) + i] = more[i]
  <2>1. Len(notes) + i \in 1..Len(notes) + Len(more) /\ ~(Len(notes) + i <= Len(notes))
        /\ (Len(notes) + i) - Len(notes) = i
    BY <1>1
  <2>2. QED BY <1>2, <2>1
<1>5. ASSUME NEW i \in 1..Len(notes \o more), i \notin 1..Len(notes)
      PROVE  \E j \in 1..Len(more) : i = Len(notes) + j
  <2>1. i - Len(notes) \in 1..Len(more) /\ i = Len(notes) + (i - Len(notes))
    BY <1>1, <1>2, <1>5
  <2>2. QED BY <2>1
<1>6. QED BY <1>2, <1>3, <1>4, <1>5

\* No opening of the lock among some notes after the first k, and none of some kinds at all.
LgShutAfter(notes, k) == \A j \in (k + 1)..Len(notes) : notes[j][1] # "open"
LgNoneOf(notes, kinds) == \A i \in 1..Len(notes) : notes[i][1] \notin kinds

\* What is said behind does not open the lock.
LEMMA LgShutBehind ==
    ASSUME NEW notes \in Seq(LgNoteSet), NEW more \in Seq(LgNoteSet), LgNoneOf(more, {"open"}),
           NEW k \in 0..Len(notes)
    PROVE  LgShutAfter(notes \o more, k) <=> LgShutAfter(notes, k)
<1> DEFINE all == notes \o more
<1>1. /\ Len(all) = Len(notes) + Len(more) /\ Len(more) \in Nat /\ Len(notes) \in Nat
      /\ \A i \in 1..Len(notes) : all[i] = notes[i]
      /\ \A i \in 1..Len(more) : all[Len(notes) + i] = more[i]
      /\ \A i \in 1..Len(all) : i \in 1..Len(notes) \/ \E j \in 1..Len(more) : i = Len(notes) + j
  BY LgBehind
<1> HIDE DEF all
<1>2. ASSUME LgShutAfter(notes, k), NEW j \in (k + 1)..Len(all)
      PROVE  all[j][1] # "open"
  <2>1. CASE j \in 1..Len(notes)
    <3>1. j \in (k + 1)..Len(notes)
      BY <1>2, <2>1
    <3>2. QED BY <1>1, <1>2, <2>1, <3>1 DEF LgShutAfter
  <2>2. CASE \E i \in 1..Len(more) : j = Len(notes) + i
    BY <1>1, <2>2 DEF LgNoneOf
  <2>3. j \in 1..Len(all)
    BY <1>1, <1>2
  <2>4. QED BY <1>1, <2>1, <2>2, <2>3
<1>3. ASSUME LgShutAfter(all, k), NEW j \in (k + 1)..Len(notes)
      PROVE  notes[j][1] # "open"
  <2>1. j \in (k + 1)..Len(all) /\ j \in 1..Len(notes)
    BY <1>1
  <2>2. QED BY <1>1, <1>3, <2>1 DEF LgShutAfter
<1>4. QED BY <1>2, <1>3 DEF LgShutAfter, all

\* The first note is taken away from before the others.
LEMMA LgShutAhead ==
    ASSUME NEW notes \in Seq(LgNoteSet), NEW rest \in Seq(LgNoteSet), notes # <<>>,
           Len(rest) = Len(notes) - 1, \A i \in 1..Len(rest) : rest[i] = notes[i + 1]
    PROVE  /\ \A kinds : LgNoneOf(notes, kinds) => LgNoneOf(rest, kinds)
           /\ \A k \in 0..Len(rest) : LgShutAfter(notes, k + 1) <=> LgShutAfter(rest, k)
           /\ notes[1][1] # "open" => (LgShutAfter(rest, 0) <=> LgShutAfter(notes, 0))
<1>1. Len(notes) \in Nat /\ Len(rest) \in Nat /\ Len(notes) = Len(rest) + 1
  OBVIOUS
<1>2. \A kinds : LgNoneOf(notes, kinds) => LgNoneOf(rest, kinds)
  <2>1. \A i \in 1..Len(rest) : i + 1 \in 1..Len(notes)
    BY <1>1
  <2>2. QED BY <1>1, <2>1 DEF LgNoneOf
<1>3. \A k \in 0..Len(rest) : LgShutAfter(notes, k + 1) <=> LgShutAfter(rest, k)
  <2> TAKE k \in 0..Len(rest)
  <2>1. ASSUME LgShutAfter(notes, k + 1)
        PROVE  LgShutAfter(rest, k)
    <3>1. \A j \in (k + 1)..Len(rest) : j + 1 \in (k + 1 + 1)..Len(notes) /\ j \in 1..Len(rest)
      BY <1>1
    <3>2. QED BY <1>1, <2>1, <3>1 DEF LgShutAfter
  <2>2. ASSUME LgShutAfter(rest, k), NEW j \in (k + 1 + 1)..Len(notes)
        PROVE  notes[j][1] # "open"
    <3>1. j - 1 \in (k + 1)..Len(rest) /\ j - 1 \in 1..Len(rest) /\ (j - 1) + 1 = j
      BY <1>1
    <3>2. rest[j - 1] = notes[j]
      BY <3>1
    <3>3. QED BY <2>2, <3>1, <3>2 DEF LgShutAfter
  <2>3. QED BY <2>1, <2>2 DEF LgShutAfter
<1>4. ASSUME notes[1][1] # "open"
      PROVE  LgShutAfter(rest, 0) <=> LgShutAfter(notes, 0)
  <2>1. 0 \in 0..Len(rest) /\ 0 + 1 = 1
    BY <1>1
  <2>2. LgShutAfter(notes, 1) <=> LgShutAfter(rest, 0)
    BY <1>3, <2>1
  <2>3. LgShutAfter(notes, 1) <=> LgShutAfter(notes, 0)
    BY <1>1, <1>4 DEF LgShutAfter
  <2>4. QED BY <2>2, <2>3
<1>5. QED BY <1>2, <1>3, <1>4

\* Pairings were read to their end, and nothing but what they opened was heard in them.
LgUndisturbed == lgSpoilt \cap {"cancelled", "woken", "late"} = {}

LgRowsTrue == lgPage = 0 => lgRows = Lg!PairingRows(lgSlots)

\* That a device joined is known, or will be from a note that the hook is going to take.
LgNews ==
    \/ lgPairing.new # None /\ LgShutAfter(lgNotes, 0)
    \/ \E i \in 1..Len(lgNotes) :
          /\ LgShutAfter(lgNotes, i) /\ lgNotes[i][1] = "link"
          /\ lgThread.known # None /\ lgNotes[i][2] \notin lgThread.known
          /\ \A j \in 1..i : j # i => lgNotes[j][1] # "link"

LgBefore ==
    /\ lgAir # "open" /\ LgNoneOf(lgNotes, {"link", "paired", "closed", "open"}) /\ LgRowsTrue

LgWaits ==
    /\ LgNoneOf(lgNotes, {"link", "paired", "closed"}) /\ (lgPairing.open \/ ~LgShutAfter(lgNotes, 0))
    /\ LgRowsTrue /\ lgThread.known = Lg!Taken(lgSlots)

\* Until the lock is open, and while it is, the rows are true; from a device that joined to the end
\* of the pairing there is news, and the end builds the rows from it.
LgPairs ==
    /\ lgThread.step # "off" => lgPage = 0 /\ lgCall
    /\ lgThread.step \in {"off", "asking", "find"} => LgBefore
    /\ lgThread.step \in {"asking", "find"} => lgThread.known = Lg!Taken(lgSlots)
    /\ lgThread.step \in {"key", "lock"} /\ lgAir = "open" => LgWaits
    /\ lgThread.step \in {"key", "lock"} /\ lgAir # "open" => LgRowsTrue \/ LgNews

LgFollows == LgUndisturbed => LgPairs

LEMMA LgFollowsInit == Lg!Init => LgFollows
<1> SUFFICES ASSUME Lg!Init PROVE LgPairs
  BY DEF LgFollows
<1>1. lgThread.step = "off" /\ lgPage = None /\ lgAir = "shut" /\ Len(lgNotes) = 0
  BY LgNothing DEF Lg!Init
<1>2. QED BY <1>1, LgApart DEF LgPairs, LgBefore, LgNoneOf, LgRowsTrue

LEMMA LgRowsSettle ==
    ASSUME LgFollows
    PROVE  Lg!PairingRowsAreTrue
BY DEF LgFollows, LgUndisturbed, LgPairs, LgBefore, LgRowsTrue, Lg!PairingRowsAreTrue

LEMMA LgFollowsPages ==
    ASSUME LgTyped, LgFollows,
           \/ Lg!Discover \/ Lg!ConnectReceiver \/ Lg!Disconnect \/ Lg!OtherConnects
           \/ \E s \in Lg!Slots : Lg!ConnectChild(s)
    PROVE  LgFollows'
<1>1. CASE Lg!Discover \/ Lg!OtherConnects
  <2>1. /\ UNCHANGED <<lgSlots, lgAir, lgNotes, lgPairing, lgThread, lgCall, lgPage, lgRows>>
        /\ lgSpoilt \subseteq lgSpoilt'
    BY <1>1 DEF Lg!Discover, Lg!OtherConnects, Lg!Spoil
  <2>2. LgUndisturbed' => LgUndisturbed
    BY <2>1 DEF LgUndisturbed
  <2>3. LgPairs => LgPairs'
    BY <2>1 DEF LgPairs, LgBefore, LgWaits, LgNews, LgRowsTrue
  <2>4. QED BY <2>2, <2>3 DEF LgFollows
<1>2. CASE Lg!ConnectReceiver
  <2>1. /\ lgPage = None /\ lgPage' = 0 /\ lgRows' = Lg!PairingRows(lgSlots) /\ lgNotes' = <<>>
        /\ UNCHANGED <<lgSlots, lgAir, lgThread, lgSpoilt>>
    BY <1>2 DEF Lg!ConnectReceiver
  <2>2. SUFFICES ASSUME LgUndisturbed' PROVE LgPairs'
    BY DEF LgFollows
  <2>3. LgPairs
    BY <2>1, <2>2 DEF LgFollows, LgUndisturbed
  <2>4. lgThread.step = "off" /\ lgAir # "open"
    BY <2>1, <2>3, LgApart DEF LgPairs, LgBefore
  <2>5. Len(lgNotes') = 0
    BY <2>1
  <2>6. QED BY <2>1, <2>4, <2>5 DEF LgPairs, LgBefore, LgNoneOf, LgRowsTrue
<1>3. ASSUME NEW s \in Lg!Slots, Lg!ConnectChild(s)
      PROVE  LgFollows'
  <2>1. /\ lgPage = None /\ lgPage' = s /\ UNCHANGED <<lgSlots, lgAir, lgNotes, lgThread, lgSpoilt>>
    BY <1>3 DEF Lg!ConnectChild
  <2>2. SUFFICES ASSUME LgUndisturbed' PROVE LgPairs'
    BY DEF LgFollows
  <2>3. LgPairs
    BY <2>1, <2>2 DEF LgFollows, LgUndisturbed
  <2>4. lgThread.step = "off" /\ LgBefore /\ lgPage' # 0
    BY <2>1, <2>3, LgApart DEF LgPairs, Lg!Slots
  <2>5. QED BY <2>1, <2>4 DEF LgPairs, LgBefore, LgRowsTrue
<1>4. CASE Lg!Disconnect
  <2>1. /\ lgPage' = None /\ lgThread' = Lg!Idle /\ UNCHANGED <<lgAir, lgNotes>>
        /\ lgSpoilt' = IF lgThread.step # "off" THEN lgSpoilt \cup {"late"} ELSE lgSpoilt
    BY <1>4 DEF Lg!Disconnect
  <2>2. SUFFICES ASSUME LgUndisturbed' PROVE LgPairs'
    BY DEF LgFollows
  <2>3. lgThread.step = "off" /\ LgPairs
    BY <2>1, <2>2 DEF LgFollows, LgUndisturbed
  <2>4. LgBefore /\ lgPage' # 0 /\ lgThread'.step = "off"
    BY <2>1, <2>3, LgApart, LgNothing DEF LgPairs
  <2>5. QED BY <2>1, <2>4 DEF LgPairs, LgBefore, LgRowsTrue
<1>5. QED BY <1>1, <1>2, <1>3, <1>4

\* The lock is opened behind everything that was said before.
LEMMA LgOpened ==
    ASSUME NEW notes \in Seq(LgNoteSet), NEW what \in {"find", "open"}
    PROVE  LET more == Append(notes, <<what>>) IN
           /\ Len(more) = Len(notes) + 1 /\ more[Len(notes) + 1][1] = what
           /\ \A i \in 1..Len(notes) : more[i] = notes[i]
           /\ \A i \in 1..Len(more) : i \in 1..Len(notes) \/ i = Len(notes) + 1
           /\ what = "open" => \A k \in 0..Len(notes) : ~LgShutAfter(more, k)
           /\ \A kinds : what \notin kinds /\ LgNoneOf(notes, kinds) => LgNoneOf(more, kinds)
<1> DEFINE note == <<what>>
           more == Append(notes, note)
<1>1. note[1] = what
  OBVIOUS
<1> HIDE DEF note
<1>2. /\ Len(more) = Len(notes) + 1 /\ more[Len(notes) + 1] = note /\ Len(notes) \in Nat
      /\ \A i \in 1..Len(notes) : more[i] = notes[i]
  OBVIOUS
<1> HIDE DEF more
<1>3. \A i \in 1..Len(more) : i \in 1..Len(notes) \/ i = Len(notes) + 1
  BY <1>2
<1>4. ASSUME what = "open", NEW k \in 0..Len(notes)
      PROVE  ~LgShutAfter(more, k)
  <2>1. Len(notes) + 1 \in (k + 1)..Len(more)
    BY <1>2
  <2>2. QED BY <1>1, <1>2, <1>4, <2>1 DEF LgShutAfter
<1>5. ASSUME NEW kinds, what \notin kinds, LgNoneOf(notes, kinds)
      PROVE  LgNoneOf(more, kinds)
  BY <1>1, <1>2, <1>3, <1>5 DEF LgNoneOf
<1>6. QED BY <1>1, <1>2, <1>3, <1>4, <1>5 DEF more, note

LEMMA LgFollowsAsk ==
    ASSUME LgTyped, LgFollows, NEW step \in {"find", "key", "lock"}, NEW what \in {"find", "open"},
           Lg!Ask(what), step = "find" <=> what = "find",
           lgThread.step \in {"asking", "find"}, lgThread' = [lgThread EXCEPT !.step = step],
           UNCHANGED <<lgPairing, lgCall, lgRows, lgSlots, lgPage>>
    PROVE  LgFollows'
<1>1. /\ \/ /\ lgAir' = what /\ lgNotes' = Append(lgNotes, <<what>>)
            /\ UNCHANGED lgSpoilt
         \/ UNCHANGED <<lgAir, lgNotes>> /\ lgSpoilt' = lgSpoilt \cup {"refused"}
  BY LgAsks
<1>2. lgNotes \in Seq(LgNoteSet) /\ lgThread \in LgThreads /\ Len(lgNotes) \in Nat
  BY DEF LgTyped
<1>3. lgThread'.step = step /\ lgThread'.known = lgThread.known
  BY <1>2, LgSteps
<1> SUFFICES ASSUME LgUndisturbed' PROVE LgPairs'
  BY DEF LgFollows
<1>4. LgUndisturbed
  BY <1>1 DEF LgUndisturbed
<1>5. LgBefore /\ lgThread.known = Lg!Taken(lgSlots) /\ lgPage = 0 /\ lgCall
  BY <1>4 DEF LgFollows, LgPairs
<1>6. LgRowsTrue'
  BY <1>5 DEF LgBefore, LgRowsTrue
<1>7. CASE UNCHANGED <<lgAir, lgNotes>>
  BY <1>3, <1>5, <1>6, <1>7 DEF LgPairs, LgBefore
<1>8. CASE lgAir' = what /\ lgNotes' = Append(lgNotes, <<what>>)
  <2>1. LgNoneOf(lgNotes, {"link", "paired", "closed"})
    BY <1>5 DEF LgBefore, LgNoneOf
  <2>2. LgNoneOf(lgNotes', {"link", "paired", "closed"})
    BY <1>2, <1>8, <2>1, LgOpened
  <2>3. CASE what = "find"
    <3>1. LgNoneOf(lgNotes, {"link", "paired", "closed", "open"})
      BY <1>5 DEF LgBefore
    <3>2. LgNoneOf(lgNotes', {"link", "paired", "closed", "open"})
      BY <1>2, <1>8, <2>3, <3>1, LgOpened
    <3>3. QED BY <1>3, <1>5, <1>6, <1>8, <2>3, <3>2 DEF LgPairs, LgBefore
  <2>4. CASE what = "open"
    <3>1. 0 \in 0..Len(lgNotes)
      BY <1>2
    <3>2. ~LgShutAfter(lgNotes', 0)
      BY <1>2, <1>8, <2>4, <3>1, LgOpened
    <3>3. LgWaits'
      BY <1>3, <1>5, <1>6, <2>2, <3>2 DEF LgWaits
    <3>4. QED BY <1>3, <1>5, <1>8, <2>4, <3>3 DEF LgPairs
  <2>5. QED BY <2>3, <2>4
<1>9. QED BY <1>1, <1>7, <1>8

\* Reading takes the first note away from before the others.
LEMMA LgFollowsPump ==
    ASSUME LgTyped, LgFollows, Lg!Pump
    PROVE  LgFollows'
<1> DEFINE note == lgNotes[1]
<1>1. /\ lgThread.step \in {"find", "key", "lock"}
      /\ Len(lgNotes') = Len(lgNotes) - 1 /\ Len(lgNotes) \in Nat
      /\ \A i \in 1..Len(lgNotes') : lgNotes'[i] = lgNotes[i + 1]
      /\ 1 \in 1..Len(lgNotes) /\ note \in LgNoteSet
      /\ lgThread'.step = lgThread.step
      /\ UNCHANGED <<lgSlots, lgAir, lgCall, lgPage, lgRows, lgSpoilt>>
      /\ \/ note[1] # "link" /\ lgPairing' = Lg!Process(note) /\ lgThread' = lgThread
         \/ note[1] = "link" /\ lgThread.known = None /\ UNCHANGED <<lgPairing, lgThread>>
         \/ /\ note[1] = "link" /\ lgThread.known # None /\ lgThread'.known = None
            /\ lgPairing'.open = lgPairing.open
            /\ lgPairing'.new = IF note[2] \notin lgThread.known THEN note[2] ELSE lgPairing.new
  BY LgPumps DEF LgTyped
<1> HIDE DEF note
<1> SUFFICES ASSUME LgUndisturbed' PROVE LgPairs'
  BY DEF LgFollows
<1>2. LgPairs
  BY <1>1 DEF LgUndisturbed, LgFollows
<1>3. \A kinds : LgNoneOf(lgNotes, kinds) => LgNoneOf(lgNotes', kinds)
  BY <1>1, LgPumps, LgShutAhead DEF LgTyped
<1>4. \A k \in 0..Len(lgNotes') : LgShutAfter(lgNotes, k + 1) <=> LgShutAfter(lgNotes', k)
  BY <1>1, LgPumps, LgShutAhead DEF LgTyped
<1>5. note[1] # "open" => (LgShutAfter(lgNotes', 0) <=> LgShutAfter(lgNotes, 0))
  BY <1>1, LgPumps, LgShutAhead DEF LgTyped, note
<1>6. LgRowsTrue => LgRowsTrue'
  BY <1>1 DEF LgRowsTrue
<1>7. CASE lgThread.step = "find"
  <2>1. LgBefore /\ lgThread.known = Lg!Taken(lgSlots) /\ lgPage = 0 /\ lgCall
    BY <1>2, <1>7 DEF LgPairs
  <2>2. note[1] # "link"
    BY <1>1, <2>1 DEF LgBefore, LgNoneOf, note
  <2>3. lgThread' = lgThread /\ LgBefore'
    BY <1>1, <1>3, <1>6, <2>1, <2>2 DEF LgBefore
  <2>4. QED BY <1>1, <1>7, <2>1, <2>3 DEF LgPairs
<1>8. CASE lgThread.step \in {"key", "lock"} /\ lgAir = "open"
  <2>1. LgWaits
    BY <1>2, <1>8 DEF LgPairs
  <2>2. note[1] \notin {"link", "paired", "closed"}
    BY <1>1, <2>1 DEF LgWaits, LgNoneOf, note
  <2>3. lgThread' = lgThread /\ lgPairing' = Lg!Process(note)
    BY <1>1, <2>2
  <2>4. lgPairing'.open \/ ~LgShutAfter(lgNotes', 0)
    BY <1>1, <1>5, <2>1, <2>2, <2>3, LgProcessed DEF LgWaits
  <2>5. LgWaits'
    BY <1>1, <1>3, <1>6, <2>1, <2>3, <2>4 DEF LgWaits
  <2>6. QED BY <1>1, <1>2, <1>8, <2>5 DEF LgPairs
<1>9. CASE lgThread.step \in {"key", "lock"} /\ lgAir # "open"
  <2>1. LgRowsTrue \/ LgNews
    BY <1>2, <1>9 DEF LgPairs
  <2>2. ASSUME lgPairing.new # None, LgShutAfter(lgNotes, 0)
        PROVE  LgNews'
    <3>1. note[1] # "open" /\ LgShutAfter(lgNotes', 0)
      BY <1>1, <1>5, <2>2 DEF LgShutAfter, note
    <3>2. note[1] \in {"link", "paired"} => note[2] # None
      BY <1>1, LgNoteKinds, LgApart
    <3>3. CASE note[1] # "link"
      <4>1. lgPairing' = Lg!Process(note)
        BY <1>1, <3>3
      <4>2. lgPairing'.new # None
        BY <1>1, <2>2, <3>1, <3>2, <3>3, <4>1, LgProcessed
      <4>3. QED BY <3>1, <4>2 DEF LgNews
    <3>4. CASE note[1] = "link"
      <4>1. lgPairing'.new # None
        BY <1>1, <2>2, <3>2, <3>4
      <4>2. QED BY <3>1, <4>1 DEF LgNews
    <3>5. QED BY <3>3, <3>4
  <2>3. ASSUME NEW i \in 1..Len(lgNotes),
               LgShutAfter(lgNotes, i), lgNotes[i][1] = "link",
               lgThread.known # None, lgNotes[i][2] \notin lgThread.known,
               \A j \in 1..i : j # i => lgNotes[j][1] # "link"
        PROVE  LgNews'
    <3>1. CASE i = 1
      <4>1. note[1] = "link" /\ note[2] \notin lgThread.known
        BY <2>3, <3>1 DEF note
      <4>2. lgPairing'.new = note[2] /\ note[2] # None
        BY <1>1, <2>3, <4>1, LgNoteKinds, LgApart
      <4>3. LgShutAfter(lgNotes, 1)
        BY <2>3, <3>1
      <4>4. LgShutAfter(lgNotes', 0)
        <5>1. 0 \in 0..Len(lgNotes') /\ 0 + 1 = 1
          BY <1>1
        <5>2. QED BY <1>4, <4>3, <5>1
      <4>5. QED BY <4>2, <4>4 DEF LgNews
    <3>2. CASE i # 1
      <4>1. PICK b \in Nat : b = i - 1
        BY <3>2
      <4>2. /\ b \in 1..Len(lgNotes') /\ b \in 0..Len(lgNotes') /\ b + 1 = i
            /\ 1 \in 1..i
        BY <1>1, <3>2, <4>1
      <4>3. lgThread' = lgThread
        BY <1>1, <2>3, <3>2, <4>2 DEF note
      <4>4. lgNotes'[b] = lgNotes[i] /\ LgShutAfter(lgNotes', b)
        BY <1>1, <1>4, <2>3, <4>2
      <4>5. \A j \in 1..b : j # b => lgNotes'[j][1] # "link"
        <5> TAKE j \in 1..b
        <5>1. j + 1 \in 1..i /\ j \in 1..Len(lgNotes') /\ (j # b => j + 1 # i)
          BY <1>1, <4>2
        <5>2. QED BY <1>1, <2>3, <5>1
      <4>6. QED BY <2>3, <4>2, <4>3, <4>4, <4>5 DEF LgNews
    <3>3. QED BY <3>1, <3>2
  <2>4. LgNews => LgNews'
    BY <2>2, <2>3 DEF LgNews
  <2>5. QED BY <1>1, <1>2, <1>6, <1>9, <2>1, <2>4 DEF LgPairs
<1>10. QED BY <1>1, <1>7, <1>8, <1>9

LEMMA LgFollowsPairing ==
    ASSUME LgTyped, LgFollows,
           \/ Lg!StartPairing \/ Lg!Open \/ Lg!Pump \/ Lg!Found \/ Lg!Passkey \/ Lg!PressCancel
           \/ Lg!PairingEnds \/ Lg!Cancelled \/ Lg!GiveUp
    PROVE  LgFollows'
<1>1. lgThread \in LgThreads
  BY DEF LgTyped
<1>2. CASE Lg!StartPairing
  <2>1. /\ lgThread' = [step |-> "asking", known |-> Lg!Taken(lgSlots), flag |-> lgFlag,
                        before |-> Lg!Taken(lgSlots), pressed |-> FALSE]
        /\ lgCall' = TRUE /\ lgPage = 0 /\ lgThread.step = "off"
        /\ UNCHANGED <<lgSlots, lgAir, lgNotes, lgPairing, lgPage, lgRows, lgSpoilt>>
    BY <1>2 DEF Lg!StartPairing
  <2>2. SUFFICES ASSUME LgUndisturbed' PROVE LgPairs'
    BY DEF LgFollows
  <2>3. LgBefore
    BY <2>1, <2>2 DEF LgFollows, LgUndisturbed, LgPairs
  <2>4. lgThread'.step = "asking" /\ lgThread'.known = Lg!Taken(lgSlots)
    BY <2>1
  <2>5. QED BY <2>1, <2>3, <2>4 DEF LgPairs, LgBefore, LgRowsTrue
<1>3. CASE Lg!Open
  <2>1. lgThread.step = "asking" /\ UNCHANGED <<lgPairing, lgCall, lgRows, lgSlots, lgPage>>
    BY <1>3 DEF Lg!Open, Lg!PairKeep
  <2>2. CASE lgKind.bolt
    <3>1. lgThread' = [lgThread EXCEPT !.step = "find"] /\ Lg!Ask("find")
      BY <1>3, <2>2 DEF Lg!Open, Lg!StepTo
    <3>2. QED BY <2>1, <3>1, LgFollowsAsk
  <2>3. CASE ~lgKind.bolt
    <3>1. lgThread' = [lgThread EXCEPT !.step = "lock"] /\ Lg!Ask("open")
      BY <1>3, <2>3 DEF Lg!Open, Lg!StepTo
    <3>2. QED BY <2>1, <3>1, LgFollowsAsk
  <2>4. QED BY <2>2, <2>3
<1>4. CASE Lg!Found
  <2>1. /\ lgThread.step = "find" /\ UNCHANGED <<lgPairing, lgCall, lgRows, lgSlots, lgPage>>
        /\ lgThread' = [lgThread EXCEPT !.step = "key"] /\ Lg!Ask("open")
    BY <1>4 DEF Lg!Found, Lg!PairKeep, Lg!StepTo
  <2>2. QED BY <2>1, LgFollowsAsk
<1>5. CASE Lg!Passkey \/ Lg!PressCancel
  <2>1. /\ lgThread'.known = lgThread.known
        /\ lgThread'.step = lgThread.step \/ (lgThread.step = "key" /\ lgThread'.step = "lock")
        /\ UNCHANGED <<lgAir, lgNotes, lgPairing, lgCall, lgRows, lgSlots, lgPage, lgSpoilt>>
    <3>1. CASE Lg!Passkey
      <4>1. /\ lgThread' = [lgThread EXCEPT !.step = "lock"] /\ lgThread.step = "key"
            /\ UNCHANGED <<lgAir, lgNotes, lgPairing, lgCall, lgRows, lgSlots, lgPage, lgSpoilt>>
        BY <3>1 DEF Lg!Passkey, Lg!StepTo, Lg!PairKeep
      <4>2. QED BY <1>1, <4>1, LgSteps
    <3>2. CASE Lg!PressCancel
      <4>1. /\ lgThread' = [lgThread EXCEPT !.pressed = TRUE]
            /\ UNCHANGED <<lgAir, lgNotes, lgPairing, lgCall, lgRows, lgSlots, lgPage, lgSpoilt>>
        BY <3>2 DEF Lg!PressCancel
      <4>2. QED BY <1>1, <4>1 DEF LgThreads
    <3>3. QED BY <1>5, <3>1, <3>2
  <2>2. LgUndisturbed' => LgUndisturbed
    BY <2>1 DEF LgUndisturbed
  <2>3. LgNews => LgNews'
    BY <2>1 DEF LgNews
  <2>4. LgPairs => LgPairs'
    BY <2>1, <2>3 DEF LgPairs, LgBefore, LgWaits, LgRowsTrue
  <2>5. QED BY <2>2, <2>4 DEF LgFollows
<1>6. CASE Lg!PairingEnds \/ Lg!Cancelled
  <2>1. /\ lgThread.step # "off" /\ lgThread' = Lg!Idle
        /\ UNCHANGED <<lgAir, lgNotes, lgPairing, lgSlots, lgPage>>
    BY <1>6, LgEnds
  <2>2. PICK new \in LgAll \cup {None} :
           /\ lgRows' = IF new # None THEN Lg!PairingRows(lgSlots) ELSE lgRows
           /\ \/ lgSpoilt' = lgSpoilt \cup {"cancelled"} /\ new = None
              \/ /\ UNCHANGED lgSpoilt /\ lgNotes = <<>>
                 /\ \/ lgThread.step = "lock" /\ ~lgPairing.open /\ new = lgPairing.new
                    \/ lgThread.step = "find" /\ new = None
    BY <1>6, LgEnds
  <2>3. SUFFICES ASSUME LgUndisturbed' PROVE LgPairs'
    BY DEF LgFollows
  <2>4. /\ UNCHANGED lgSpoilt /\ lgNotes = <<>>
        /\ \/ lgThread.step = "lock" /\ ~lgPairing.open /\ new = lgPairing.new
           \/ lgThread.step = "find" /\ new = None
    BY <2>2, <2>3 DEF LgUndisturbed
  <2>5. LgPairs /\ lgThread'.step = "off"
    BY <2>1, <2>3, <2>4, LgNothing DEF LgFollows, LgUndisturbed
  <2>6. Len(lgNotes) = 0
    BY <2>4
  <2>7. LgNoneOf(lgNotes, {"link", "paired", "closed", "open"}) /\ LgShutAfter(lgNotes, 0)
    BY <2>6 DEF LgNoneOf, LgShutAfter
  <2>8. lgAir # "open" /\ LgRowsTrue'
    <3>1. CASE lgThread.step = "find" /\ new = None
      BY <2>1, <2>2, <2>5, <3>1 DEF LgPairs, LgBefore, LgRowsTrue
    <3>2. CASE lgThread.step = "lock" /\ ~lgPairing.open /\ new = lgPairing.new
      <4>1. lgAir # "open"
        BY <2>5, <2>7, <3>2 DEF LgPairs, LgWaits
      <4>2. new = None => LgRowsTrue
        BY <2>5, <2>6, <3>2, <4>1 DEF LgPairs, LgNews
      <4>3. QED BY <2>1, <2>2, <4>1, <4>2 DEF LgRowsTrue
    <3>3. QED BY <2>4, <3>1, <3>2
  <2>9. QED BY <2>1, <2>5, <2>7, <2>8 DEF LgPairs, LgBefore
<1>7. CASE Lg!GiveUp
  <2>1. "late" \in lgSpoilt'
    BY <1>7 DEF Lg!GiveUp, Lg!Spoil
  <2>2. QED BY <2>1 DEF LgFollows, LgUndisturbed
<1>8. QED BY <1>2, <1>3, <1>4, <1>5, <1>6, <1>7, LgFollowsPump

\* What the receiver says behind the notes leaves the news: it does not open the lock.
LEMMA LgFollowsTells ==
    ASSUME LgTyped, LgFollows,
           \/ Lg!DeviceFound \/ Lg!PasskeyMade \/ Lg!LockTimesOut
           \/ \E s \in Lg!Slots : Lg!KnownWakes(s)
    PROVE  LgFollows'
<1>1. /\ UNCHANGED <<lgSlots, lgPairing, lgThread, lgCall, lgPage, lgRows>>
      /\ \E more \in Seq(LgNoteSet) :
           /\ lgNotes' = lgNotes \o more
           /\ \/ /\ lgSpoilt' = lgSpoilt \cup {"woken"} /\ UNCHANGED lgAir
                 /\ \A i \in 1..Len(more) : more[i][1] = "link"
              \/ /\ UNCHANGED lgSpoilt /\ lgAir' = "shut"
                 /\ \A i \in 1..Len(more) :
                       more[i][1] \in {"found", "unfound"} \/ (more[i][1] = "closed" /\ lgAir = "open")
              \/ /\ UNCHANGED <<lgSpoilt, lgAir>>
                 /\ \A i \in 1..Len(more) : more[i][1] = "key"
  BY LgTells
<1>2. PICK more \in Seq(LgNoteSet) :
           /\ lgNotes' = lgNotes \o more
           /\ \/ /\ lgSpoilt' = lgSpoilt \cup {"woken"} /\ UNCHANGED lgAir
                 /\ \A i \in 1..Len(more) : more[i][1] = "link"
              \/ /\ UNCHANGED lgSpoilt /\ lgAir' = "shut"
                 /\ \A i \in 1..Len(more) :
                       more[i][1] \in {"found", "unfound"} \/ (more[i][1] = "closed" /\ lgAir = "open")
              \/ /\ UNCHANGED <<lgSpoilt, lgAir>>
                 /\ \A i \in 1..Len(more) : more[i][1] = "key"
  BY <1>1
<1> SUFFICES ASSUME LgUndisturbed' PROVE LgPairs'
  BY DEF LgFollows
<1>3. /\ UNCHANGED lgSpoilt
      /\ \A i \in 1..Len(more) : more[i][1] \in {"found", "unfound", "key"} \/ (more[i][1] = "closed" /\ lgAir = "open")
      /\ \/ lgAir' = "shut"
         \/ UNCHANGED lgAir /\ \A i \in 1..Len(more) : more[i][1] = "key"
  BY <1>2 DEF LgUndisturbed
<1>4. LgPairs /\ lgNotes \in Seq(LgNoteSet) /\ Len(lgNotes) \in Nat /\ lgThread \in LgThreads
  BY <1>3 DEF LgUndisturbed, LgFollows, LgTyped
<1>5. /\ Len(lgNotes') = Len(lgNotes) + Len(more) /\ Len(more) \in Nat
      /\ \A i \in 1..Len(lgNotes) : lgNotes'[i] = lgNotes[i]
      /\ \A i \in 1..Len(more) : lgNotes'[Len(lgNotes) + i] = more[i]
      /\ \A i \in 1..Len(lgNotes') : i \in 1..Len(lgNotes) \/ \E j \in 1..Len(more) : i = Len(lgNotes) + j
  BY <1>2, <1>4, LgBehind
<1>6. ASSUME NEW kinds, LgNoneOf(lgNotes, kinds), \A i \in 1..Len(more) : more[i][1] \notin kinds
      PROVE  LgNoneOf(lgNotes', kinds)
  BY <1>5, <1>6 DEF LgNoneOf
<1>7. ASSUME NEW k \in 0..Len(lgNotes)
      PROVE  LgShutAfter(lgNotes', k) <=> LgShutAfter(lgNotes, k)
  <2>1. LgNoneOf(more, {"open"})
    BY <1>3 DEF LgNoneOf
  <2>2. LgShutAfter(lgNotes \o more, k) <=> LgShutAfter(lgNotes, k)
    BY <1>4, <2>1, LgShutBehind
  <2>3. QED BY <1>2, <2>2
<1>8. LgRowsTrue => LgRowsTrue'
  BY <1>1 DEF LgRowsTrue
<1>9. 0 \in 0..Len(lgNotes) /\ \A i \in 1..Len(lgNotes) : i \in 0..Len(lgNotes)
  BY <1>4
<1>10. ASSUME LgBefore
       PROVE  LgBefore'
  <2>1. LgNoneOf(lgNotes, {"link", "paired", "closed", "open"}) /\ lgAir # "open"
    BY <1>10 DEF LgBefore
  <2>2. \A i \in 1..Len(more) : more[i][1] \notin {"link", "paired", "closed", "open"}
    BY <1>3, <2>1
  <2>3. LgNoneOf(lgNotes', {"link", "paired", "closed", "open"})
    BY <1>6, <2>1, <2>2
  <2>4. QED BY <1>3, <1>8, <1>10, <2>1, <2>3 DEF LgBefore
<1>11. ASSUME LgWaits, \A i \in 1..Len(more) : more[i][1] = "key"
       PROVE  LgWaits'
  <2>1. LgNoneOf(lgNotes, {"link", "paired", "closed"})
    BY <1>11 DEF LgWaits
  <2>2. \A i \in 1..Len(more) : more[i][1] \notin {"link", "paired", "closed"}
    BY <1>11
  <2>3. LgNoneOf(lgNotes', {"link", "paired", "closed"})
    BY <1>6, <2>1, <2>2
  <2>4. lgPairing'.open \/ ~LgShutAfter(lgNotes', 0)
    BY <1>1, <1>7, <1>9, <1>11 DEF LgWaits
  <2>5. QED BY <1>1, <1>8, <1>11, <2>3, <2>4 DEF LgWaits
<1>12. LgNews => LgNews'
  <2>1. ASSUME lgPairing.new # None, LgShutAfter(lgNotes, 0)
        PROVE  LgNews'
    BY <1>1, <1>7, <1>9, <2>1 DEF LgNews
  <2>2. ASSUME NEW i \in 1..Len(lgNotes),
               LgShutAfter(lgNotes, i), lgNotes[i][1] = "link",
               lgThread.known # None, lgNotes[i][2] \notin lgThread.known,
               \A j \in 1..i : j # i => lgNotes[j][1] # "link"
        PROVE  LgNews'
    <3>1. i \in 1..Len(lgNotes') /\ LgShutAfter(lgNotes', i) /\ lgNotes'[i] = lgNotes[i]
      BY <1>4, <1>5, <1>7, <1>9, <2>2
    <3>2. \A j \in 1..i : j # i => lgNotes'[j][1] # "link"
      <4>1. \A j \in 1..i : j \in 1..Len(lgNotes)
        BY <1>4
      <4>2. QED BY <1>5, <2>2, <4>1
    <3>3. QED BY <1>1, <2>2, <3>1, <3>2 DEF LgNews
  <2>3. QED BY <2>1, <2>2 DEF LgNews
<1>13. CASE lgThread.step \in {"off", "asking", "find"}
  <2>1. LgBefore'
    BY <1>4, <1>10, <1>13 DEF LgPairs
  <2>2. QED BY <1>1, <1>4, <1>13, <2>1 DEF LgPairs
<1>14. CASE lgThread.step \in {"key", "lock"}
  <2>1. CASE lgAir' = "open"
    <3>1. LgWaits /\ \A i \in 1..Len(more) : more[i][1] = "key"
      BY <1>3, <1>4, <1>14, <2>1 DEF LgPairs
    <3>2. LgWaits'
      BY <1>11, <3>1
    <3>3. QED BY <1>1, <1>4, <1>14, <2>1, <3>2 DEF LgPairs
  <2>2. CASE lgAir' # "open"
    <3>1. LgRowsTrue \/ LgNews
      BY <1>4, <1>14 DEF LgPairs, LgWaits
    <3>2. LgRowsTrue' \/ LgNews'
      BY <1>8, <1>12, <3>1
    <3>3. QED BY <1>1, <1>4, <1>14, <2>2, <3>2 DEF LgPairs
  <2>3. QED BY <2>1, <2>2
<1>15. QED BY <1>4, <1>13, <1>14 DEF LgThreads

\* A device that joins is news: the link of its slot, which was free when the pairing began, is the
\* first the hook hears, and nothing opens the lock after it.
LEMMA LgFollowsJoins ==
    ASSUME LgTyped, LgFollows, NEW d \in LgDevs, Lg!DeviceJoins(d)
    PROVE  LgFollows'
<1>1. /\ lgAir = "open" /\ lgAir' = "shut"
      /\ UNCHANGED <<lgFlag, lgPairing, lgThread, lgCall, lgPage, lgRows, lgSpoilt>>
  BY LgJoins
<1>2. PICK s \in LgAll :
         /\ s \notin Lg!Taken(lgSlots)
         /\ \E told \in {<<"closed">>, <<"paired", s>>} :
              lgNotes' = lgNotes \o IF lgFlag THEN <<<<"link", s>>, told>> ELSE <<told>>
  BY LgJoins
<1>3. PICK told \in {<<"closed">>, <<"paired", s>>} :
         lgNotes' = lgNotes \o IF lgFlag THEN <<<<"link", s>>, told>> ELSE <<told>>
  BY <1>2
<1> SUFFICES ASSUME LgUndisturbed' PROVE LgPairs'
  BY DEF LgFollows
<1>4. LgPairs /\ lgNotes \in Seq(LgNoteSet) /\ Len(lgNotes) \in Nat /\ lgThread \in LgThreads
  BY <1>1 DEF LgUndisturbed, LgFollows, LgTyped
<1>5. lgThread.step \in {"key", "lock"} /\ LgWaits /\ lgPage = 0 /\ lgCall /\ lgFlag
  <2>1. lgThread.step \in {"key", "lock"}
    BY <1>1, <1>4 DEF LgPairs, LgBefore, LgThreads
  <2>2. QED BY <1>1, <1>4, <2>1 DEF LgPairs, LgTyped
<1> DEFINE linked == <<"link", s>>
           more == <<linked, told>>
<1>6. linked \in LgNoteSet /\ told \in LgNoteSet /\ linked[1] = "link" /\ linked[2] = s
      /\ told[1] # "open"
  BY <1>2, <1>3 DEF LgNoteSet, LgSignals, LgTidings
<1>7. lgNotes' = lgNotes \o more
  BY <1>3, <1>5
<1> HIDE DEF linked
<1>8. more \in Seq(LgNoteSet) /\ Len(more) = 2 /\ more[1] = linked /\ more[2] = told
  BY <1>6
<1> HIDE DEF more
<1>9. /\ Len(lgNotes') = Len(lgNotes) + 2
      /\ \A i \in 1..Len(lgNotes) : lgNotes'[i] = lgNotes[i]
      /\ \A i \in 1..2 : lgNotes'[Len(lgNotes) + i] = more[i]
  <2>1. /\ Len(lgNotes \o more) = Len(lgNotes) + Len(more)
        /\ \A i \in 1..Len(lgNotes) : (lgNotes \o more)[i] = lgNotes[i]
        /\ \A i \in 1..Len(more) : (lgNotes \o more)[Len(lgNotes) + i] = more[i]
    BY <1>4, <1>8, LgBehind
  <2>2. Len(more) = 2
    BY <1>8
  <2>3. QED BY <1>7, <2>1, <2>2
<1>10. lgNotes'[Len(lgNotes) + 1] = linked /\ lgNotes'[Len(lgNotes) + 2] = told
  <2>1. 1 \in 1..2 /\ 2 \in 1..2
    OBVIOUS
  <2>2. QED BY <1>8, <1>9, <2>1
<1>11. PICK last \in Nat : last = Len(lgNotes) + 1
  BY <1>4
<1>12. last \in 1..Len(lgNotes') /\ lgNotes'[last] = linked
  BY <1>4, <1>9, <1>10, <1>11
<1>13. LgShutAfter(lgNotes', last)
  <2>1. \A j \in (last + 1)..Len(lgNotes') : j = Len(lgNotes) + 2
    BY <1>4, <1>9, <1>11
  <2>2. QED BY <1>6, <1>10, <2>1 DEF LgShutAfter
<1>14. \A j \in 1..last : j # last => lgNotes'[j][1] # "link"
  <2>1. \A j \in 1..last : j # last => j \in 1..Len(lgNotes)
    BY <1>4, <1>11
  <2>2. QED BY <1>5, <1>9, <2>1 DEF LgWaits, LgNoneOf
<1>15. lgThread.known # None /\ s \notin lgThread.known
  BY <1>2, <1>5, LgTaken, LgApart DEF LgWaits
<1>16. LgNews'
  BY <1>1, <1>6, <1>12, <1>13, <1>14, <1>15 DEF LgNews
<1>17. QED BY <1>1, <1>5, <1>16 DEF LgPairs

LEMMA LgFollowsReceiver ==
    ASSUME LgTyped, LgFollows, Lg!Elsewhere \/ \E s \in Lg!Slots : Lg!Unpair(s)
    PROVE  LgFollows'
<1> SUFFICES ASSUME LgUndisturbed' PROVE LgPairs'
  BY DEF LgFollows
<1>1. CASE Lg!Elsewhere
  <2>1. /\ lgPage = None
        /\ UNCHANGED <<lgAir, lgNotes, lgPairing, lgThread, lgCall, lgPage, lgRows>>
        /\ lgSpoilt' = lgSpoilt \cup {"elsewhere"}
    BY <1>1 DEF Lg!Elsewhere, Lg!AirKeep, Lg!Spoil
  <2>2. LgPairs
    BY <2>1 DEF LgUndisturbed, LgFollows
  <2>3. lgThread.step = "off" /\ LgBefore /\ lgPage # 0
    BY <2>1, <2>2, LgApart DEF LgPairs
  <2>4. QED BY <2>1, <2>3 DEF LgPairs, LgBefore, LgRowsTrue
<1>2. ASSUME NEW s \in Lg!Slots, Lg!Unpair(s)
      PROVE  LgPairs'
  <2>1. /\ ~lgCall /\ lgRows' = Lg!PairingRows(lgSlots')
        /\ UNCHANGED <<lgAir, lgNotes, lgPairing, lgThread, lgCall, lgPage, lgSpoilt>>
    BY <1>2 DEF Lg!Unpair
  <2>2. LgPairs
    BY <2>1 DEF LgUndisturbed, LgFollows
  <2>3. lgThread.step = "off" /\ LgBefore
    BY <2>1, <2>2 DEF LgPairs
  <2>4. QED BY <2>1, <2>3 DEF LgPairs, LgBefore, LgRowsTrue
<1>3. QED BY <1>1, <1>2

LEMMA LgFollowsNext == LgTyped /\ LgFollows /\ (Lg!Next \/ UNCHANGED lgVars) => LgFollows'
<1> SUFFICES ASSUME LgTyped, LgFollows, Lg!Next \/ UNCHANGED lgVars PROVE LgFollows'
  OBVIOUS
<1>1. CASE UNCHANGED lgVars
  <2>1. LgUndisturbed' => LgUndisturbed
    BY <1>1 DEF lgVars, LgUndisturbed
  <2>2. LgPairs => LgPairs'
    BY <1>1 DEF lgVars, LgPairs, LgBefore, LgWaits, LgNews, LgRowsTrue
  <2>3. QED BY <2>1, <2>2 DEF LgFollows
<1>2. CASE Lg!Next
  BY <1>2, LgFollowsPages, LgFollowsPairing, LgFollowsTells, LgFollowsJoins, LgFollowsReceiver
     DEF Lg!Next
<1>3. QED BY <1>1, <1>2

-----------------------------------------------------------------------------
(* LogitechDevice: what a pairing says it paired. *)

\* Of the slots that were taken when the pairing began none is, or will be, what is new: a device is
\* paired to a slot that was free, the hook registers what it did not know, and the lock that opens
\* forgets the device of the pairing before.
LgOnlyNew ==
    /\ \A i \in 1..Len(lgNotes) :
          lgNotes[i][1] = "paired" /\ LgShutAfter(lgNotes, i) => lgNotes[i][2] \notin lgThread.before
    /\ LgShutAfter(lgNotes, 0) => lgPairing.new \notin lgThread.before

LgCalled ==
    /\ lgPage = 0 /\ lgThread.before \subseteq Lg!Taken(lgSlots)
    /\ lgThread.known \in {None, lgThread.before}
    /\ lgThread.step \in {"key", "lock"} => LgOnlyNew

LgKnows == "refused" \notin lgSpoilt => (lgCall => LgCalled) /\ Lg!PairedIsNew

LEMMA LgKnowsInit == Lg!Init => LgKnows
BY DEF Lg!Init, LgKnows, Lg!PairedIsNew

\* What leaves the pairing, its notes and its report alone.
LEMMA LgKnowsKept ==
    ASSUME LgKnows, lgSpoilt \subseteq lgSpoilt', UNCHANGED lgSaid,
           \/ ~lgCall'
           \/ UNCHANGED <<lgSlots, lgNotes, lgPairing, lgThread, lgCall, lgPage>>
    PROVE  LgKnows'
<1>1. lgSaid' = lgSaid /\ (Lg!PairedIsNew /\ "refused" \notin lgSpoilt' => Lg!PairedIsNew')
  BY DEF Lg!PairedIsNew
<1>2. CASE ~lgCall'
  BY <1>1, <1>2 DEF LgKnows
<1>3. CASE UNCHANGED <<lgSlots, lgNotes, lgPairing, lgThread, lgCall, lgPage>>
  <2>1. LgCalled => LgCalled'
    BY <1>3 DEF LgCalled, LgOnlyNew
  <2>2. QED BY <1>1, <1>3, <2>1 DEF LgKnows
<1>4. QED BY <1>2, <1>3

LEMMA LgKnowsPages ==
    ASSUME LgTyped, LgKnows,
           \/ Lg!Discover \/ Lg!ConnectReceiver \/ Lg!Disconnect \/ Lg!OtherConnects \/ Lg!GiveUp
           \/ Lg!Elsewhere
           \/ \E s \in Lg!Slots : Lg!ConnectChild(s) \/ Lg!Unpair(s)
    PROVE  LgKnows'
<1>1. CASE Lg!Discover \/ Lg!OtherConnects
  <2>1. /\ UNCHANGED <<lgSlots, lgNotes, lgPairing, lgThread, lgCall, lgPage, lgSaid>>
        /\ lgSpoilt \subseteq lgSpoilt'
    BY <1>1 DEF Lg!Discover, Lg!OtherConnects, Lg!Spoil
  <2>2. QED BY <2>1, LgKnowsKept
<1>2. CASE Lg!Disconnect \/ Lg!GiveUp
  <2>1. ~lgCall' /\ UNCHANGED lgSaid /\ lgSpoilt \subseteq lgSpoilt'
    BY <1>2 DEF Lg!Disconnect, Lg!GiveUp, Lg!Spoil
  <2>2. QED BY <2>1, LgKnowsKept
<1>3. CASE \/ Lg!Elsewhere
           \/ \E s \in Lg!Slots : Lg!ConnectChild(s) \/ Lg!Unpair(s)
  <2>1. /\ lgPage = None \/ ~lgCall
        /\ UNCHANGED <<lgCall, lgSaid>> /\ lgSpoilt \subseteq lgSpoilt'
    BY <1>3 DEF Lg!Elsewhere, Lg!AirKeep, Lg!Spoil, Lg!ConnectChild, Lg!Unpair
  <2>2. "refused" \in lgSpoilt \/ ~lgCall
    BY <2>1, LgApart DEF LgKnows, LgCalled
  <2>3. CASE ~lgCall
    BY <2>1, <2>3, LgKnowsKept
  <2>4. CASE "refused" \in lgSpoilt
    BY <2>1, <2>4 DEF LgKnows
  <2>5. QED BY <2>2, <2>3, <2>4
<1>4. CASE Lg!ConnectReceiver
  <2>1. lgPage = None /\ lgSaid' = None /\ UNCHANGED <<lgCall, lgSpoilt>>
    BY <1>4 DEF Lg!ConnectReceiver
  <2>2. "refused" \in lgSpoilt \/ ~lgCall
    BY <2>1, LgApart DEF LgKnows, LgCalled
  <2>3. Lg!PairedIsNew'
    BY <2>1 DEF Lg!PairedIsNew
  <2>4. QED BY <2>1, <2>2, <2>3 DEF LgKnows
<1>5. QED BY <1>1, <1>2, <1>3, <1>4

\* A new device is read from a note, or linked and not known before.
LEMMA LgKnowsPump ==
    ASSUME LgTyped, LgKnows, Lg!Pump
    PROVE  LgKnows'
<1> DEFINE note == lgNotes[1]
<1>1. /\ Len(lgNotes') = Len(lgNotes) - 1 /\ Len(lgNotes) \in Nat
      /\ \A i \in 1..Len(lgNotes') : lgNotes'[i] = lgNotes[i + 1]
      /\ 1 \in 1..Len(lgNotes) /\ note \in LgNoteSet
      /\ lgThread'.step = lgThread.step /\ lgThread'.before = lgThread.before
      /\ lgThread \in LgThreads
      /\ UNCHANGED <<lgSlots, lgCall, lgPage, lgSaid, lgSpoilt>>
      /\ \/ note[1] # "link" /\ lgPairing' = Lg!Process(note) /\ lgThread' = lgThread
         \/ note[1] = "link" /\ lgThread.known = None /\ UNCHANGED <<lgPairing, lgThread>>
         \/ /\ note[1] = "link" /\ lgThread.known # None /\ lgThread'.known = None
            /\ lgPairing'.new = IF note[2] \notin lgThread.known THEN note[2] ELSE lgPairing.new
  BY LgPumps DEF LgTyped
<1>2. /\ \A k \in 0..Len(lgNotes') : LgShutAfter(lgNotes, k + 1) <=> LgShutAfter(lgNotes', k)
      /\ note[1] # "open" => (LgShutAfter(lgNotes', 0) <=> LgShutAfter(lgNotes, 0))
  BY <1>1, LgPumps, LgShutAhead DEF LgTyped
<1>3. 0 \in 0..Len(lgNotes') /\ 0 + 1 = 1
  BY <1>1
<1>4. LgShutAfter(lgNotes, 1) <=> LgShutAfter(lgNotes', 0)
  BY <1>2, <1>3
<1> SUFFICES ASSUME "refused" \notin lgSpoilt' PROVE (lgCall' => LgCalled') /\ Lg!PairedIsNew'
  BY DEF LgKnows
<1>5. Lg!PairedIsNew'
  BY <1>1 DEF LgKnows, Lg!PairedIsNew
<1> SUFFICES ASSUME lgCall' PROVE LgCalled'
  BY <1>5
<1>6. LgCalled
  BY <1>1 DEF LgKnows
<1>7. ASSUME LgOnlyNew
      PROVE  LgOnlyNew'
  <2>1. ASSUME NEW i \in 1..Len(lgNotes'), lgNotes'[i][1] = "paired", LgShutAfter(lgNotes', i)
        PROVE  lgNotes'[i][2] \notin lgThread'.before
    <3>1. i + 1 \in 1..Len(lgNotes) /\ i \in 0..Len(lgNotes')
      BY <1>1
    <3>2. lgNotes[i + 1][1] = "paired" /\ LgShutAfter(lgNotes, i + 1)
      BY <1>1, <1>2, <2>1, <3>1
    <3>3. QED BY <1>1, <1>7, <3>1, <3>2 DEF LgOnlyNew
  <2>2. ASSUME LgShutAfter(lgNotes', 0)
        PROVE  lgPairing'.new \notin lgThread'.before
    <3>1. lgThread.before \subseteq LgAll /\ None \notin lgThread.before
      BY <1>1, LgApart DEF LgThreads
    <3>2. CASE note[1] = "open"
      <4>1. lgPairing'.new = None
        BY <1>1, <3>2, LgProcessed
      <4>2. QED BY <1>1, <3>1, <4>1
    <3>3. CASE note[1] = "paired"
      <4>1. lgPairing'.new = note[2]
        BY <1>1, <3>3, LgProcessed
      <4>2. note[2] \notin lgThread.before
        BY <1>1, <1>4, <1>7, <2>2, <3>3 DEF LgOnlyNew
      <4>3. QED BY <1>1, <4>1, <4>2
    <3>4. CASE note[1] \notin {"open", "paired"}
      <4>1. lgPairing.new \notin lgThread.before
        BY <1>2, <1>7, <2>2, <3>4 DEF LgOnlyNew
      <4>2. CASE note[1] # "link"
        <5>1. lgPairing'.new = lgPairing.new
          BY <1>1, <3>4, <4>2, LgProcessed
        <5>2. QED BY <1>1, <4>1, <5>1
      <4>3. CASE note[1] = "link"
        <5>1. lgThread.known # None => lgThread.known = lgThread.before
          BY <1>6 DEF LgCalled
        <5>2. QED BY <1>1, <4>1, <4>3, <5>1
      <4>4. QED BY <4>2, <4>3
    <3>5. QED BY <3>2, <3>3, <3>4
  <2>3. QED BY <2>1, <2>2 DEF LgOnlyNew
<1>8. lgThread'.known \in {None, lgThread'.before}
  BY <1>1, <1>6 DEF LgCalled
<1>9. QED BY <1>1, <1>6, <1>7, <1>8 DEF LgCalled

\* The lock is asked for, behind what is not read yet: what that told of is forgotten.
LEMMA LgKnowsAsk ==
    ASSUME LgTyped, LgKnows, NEW step \in {"find", "key", "lock"}, NEW what \in {"find", "open"},
           Lg!Ask(what), step = "find" <=> what = "find", lgThread' = [lgThread EXCEPT !.step = step],
           UNCHANGED <<lgPairing, lgCall, lgSlots, lgPage, lgSaid>>
    PROVE  LgKnows'
<1>1. \/ /\ lgNotes' = Append(lgNotes, <<what>>) /\ UNCHANGED lgSpoilt
      \/ lgSpoilt' = lgSpoilt \cup {"refused"}
  BY LgAsks
<1>2. lgNotes \in Seq(LgNoteSet) /\ lgThread \in LgThreads /\ Len(lgNotes) \in Nat
  BY DEF LgTyped
<1>3. lgThread'.step = step /\ lgThread'.known = lgThread.known /\ lgThread'.before = lgThread.before
  BY <1>2, LgSteps
<1> SUFFICES ASSUME "refused" \notin lgSpoilt' PROVE (lgCall' => LgCalled') /\ Lg!PairedIsNew'
  BY DEF LgKnows
<1>4. lgNotes' = Append(lgNotes, <<what>>) /\ UNCHANGED lgSpoilt
  BY <1>1
<1>5. Lg!PairedIsNew'
  BY <1>4 DEF LgKnows, Lg!PairedIsNew
<1>6. ASSUME what = "open"
      PROVE  LgOnlyNew'
  <2>1. /\ \A k \in 0..Len(lgNotes) : ~LgShutAfter(lgNotes', k)
        /\ lgNotes'[Len(lgNotes) + 1][1] = "open"
        /\ \A i \in 1..Len(lgNotes') : i \in 1..Len(lgNotes) \/ i = Len(lgNotes) + 1
    BY <1>2, <1>4, <1>6, LgOpened
  <2>2. ~LgShutAfter(lgNotes', 0) /\ \A i \in 1..Len(lgNotes) : ~LgShutAfter(lgNotes', i)
    <3>1. 0 \in 0..Len(lgNotes) /\ \A i \in 1..Len(lgNotes) : i \in 0..Len(lgNotes)
      BY <1>2
    <3>2. QED BY <2>1, <3>1
  <2>3. QED BY <2>1, <2>2 DEF LgOnlyNew
<1>7. QED BY <1>3, <1>4, <1>5, <1>6 DEF LgKnows, LgCalled

LEMMA LgKnowsPairing ==
    ASSUME LgTyped, LgKnows,
           \/ Lg!StartPairing \/ Lg!Open \/ Lg!Pump \/ Lg!Found \/ Lg!Passkey \/ Lg!PressCancel
           \/ Lg!PairingEnds \/ Lg!Cancelled
    PROVE  LgKnows'
<1>1. lgThread \in LgThreads
  BY DEF LgTyped
<1>2. CASE Lg!StartPairing
  <2>1. /\ lgThread' = [step |-> "asking", known |-> Lg!Taken(lgSlots), flag |-> lgFlag,
                        before |-> Lg!Taken(lgSlots), pressed |-> FALSE]
        /\ lgPage = 0 /\ lgSaid' = None /\ UNCHANGED <<lgSlots, lgPage>>
    BY <1>2 DEF Lg!StartPairing
  <2>2. /\ lgThread'.step = "asking" /\ lgThread'.known = Lg!Taken(lgSlots)
        /\ lgThread'.before = Lg!Taken(lgSlots)
    BY <2>1
  <2>3. QED BY <2>1, <2>2 DEF LgKnows, LgCalled, Lg!PairedIsNew
<1>3. CASE Lg!Open
  <2>1. UNCHANGED <<lgPairing, lgCall, lgSlots, lgPage, lgSaid>>
    BY <1>3 DEF Lg!Open, Lg!PairKeep
  <2>2. CASE lgKind.bolt
    <3>1. lgThread' = [lgThread EXCEPT !.step = "find"] /\ Lg!Ask("find")
      BY <1>3, <2>2 DEF Lg!Open, Lg!StepTo
    <3>2. QED BY <2>1, <3>1, LgKnowsAsk
  <2>3. CASE ~lgKind.bolt
    <3>1. lgThread' = [lgThread EXCEPT !.step = "lock"] /\ Lg!Ask("open")
      BY <1>3, <2>3 DEF Lg!Open, Lg!StepTo
    <3>2. QED BY <2>1, <3>1, LgKnowsAsk
  <2>4. QED BY <2>2, <2>3
<1>4. CASE Lg!Found
  <2>1. /\ UNCHANGED <<lgPairing, lgCall, lgSlots, lgPage, lgSaid>>
        /\ lgThread' = [lgThread EXCEPT !.step = "key"] /\ Lg!Ask("open")
    BY <1>4 DEF Lg!Found, Lg!PairKeep, Lg!StepTo
  <2>2. QED BY <2>1, LgKnowsAsk
<1>5. CASE Lg!Passkey \/ Lg!PressCancel
  <2>1. /\ lgThread'.known = lgThread.known /\ lgThread'.before = lgThread.before
        /\ lgThread'.step = lgThread.step \/ (lgThread.step = "key" /\ lgThread'.step = "lock")
        /\ UNCHANGED <<lgNotes, lgPairing, lgCall, lgSlots, lgPage, lgSpoilt, lgSaid>>
    <3>1. CASE Lg!Passkey
      <4>1. /\ lgThread' = [lgThread EXCEPT !.step = "lock"] /\ lgThread.step = "key"
            /\ UNCHANGED <<lgNotes, lgPairing, lgCall, lgSlots, lgPage, lgSpoilt, lgSaid>>
        BY <3>1 DEF Lg!Passkey, Lg!StepTo, Lg!PairKeep
      <4>2. QED BY <1>1, <4>1, LgSteps
    <3>2. CASE Lg!PressCancel
      <4>1. /\ lgThread' = [lgThread EXCEPT !.pressed = TRUE]
            /\ UNCHANGED <<lgNotes, lgPairing, lgCall, lgSlots, lgPage, lgSpoilt, lgSaid>>
        BY <3>2 DEF Lg!PressCancel
      <4>2. QED BY <1>1, <4>1 DEF LgThreads
    <3>3. QED BY <1>5, <3>1, <3>2
  <2>2. LgOnlyNew => LgOnlyNew'
    BY <2>1 DEF LgOnlyNew
  <2>3. LgCalled => LgCalled'
    BY <2>1, <2>2 DEF LgCalled
  <2>4. "refused" \notin lgSpoilt' /\ Lg!PairedIsNew => Lg!PairedIsNew'
    BY <2>1 DEF Lg!PairedIsNew
  <2>5. QED BY <2>1, <2>3, <2>4 DEF LgKnows
<1>6. CASE Lg!PairingEnds \/ Lg!Cancelled
  <2>1. lgCall' = FALSE
    BY <1>6, LgEnds
  <2>2. PICK new \in LgAll \cup {None} :
           /\ lgSaid' = IF lgCall THEN [new |-> new, before |-> lgThread.before] ELSE lgSaid
           /\ \/ lgSpoilt' = lgSpoilt \cup {"cancelled"} /\ new = None
              \/ /\ UNCHANGED lgSpoilt /\ lgNotes = <<>>
                 /\ \/ lgThread.step = "lock" /\ ~lgPairing.open /\ new = lgPairing.new
                    \/ lgThread.step = "find" /\ new = None
    BY <1>6, LgEnds
  <2>3. SUFFICES ASSUME "refused" \notin lgSpoilt' PROVE Lg!PairedIsNew'
    BY <2>1 DEF LgKnows
  <2>4. (lgCall => LgCalled) /\ Lg!PairedIsNew /\ "refused" \notin lgSpoilt
    BY <2>2, <2>3 DEF LgKnows
  <2>5. CASE ~lgCall
    BY <2>2, <2>3, <2>4, <2>5 DEF Lg!PairedIsNew
  <2>6. CASE lgCall
    <3>1. lgSaid'.new = new /\ lgSaid'.before = lgThread.before
      BY <2>2, <2>6
    <3>2. new # None => new \notin lgThread.before
      <4>1. SUFFICES ASSUME new # None PROVE new \notin lgThread.before
        OBVIOUS
      <4>2. Len(lgNotes) = 0 /\ lgThread.step = "lock" /\ new = lgPairing.new
        BY <2>2, <4>1
      <4>3. LgShutAfter(lgNotes, 0)
        BY <4>2 DEF LgShutAfter
      <4>4. QED BY <2>4, <2>6, <4>2, <4>3 DEF LgCalled, LgOnlyNew
    <3>3. QED BY <3>1, <3>2 DEF Lg!PairedIsNew
  <2>7. QED BY <2>5, <2>6
<1>7. QED BY <1>2, <1>3, <1>4, <1>5, <1>6, LgKnowsPump

\* What comes behind the notes does not tell of a pairing, or tells of a slot that was free.
LEMMA LgKnowsMore ==
    ASSUME LgTyped, LgKnows, NEW more \in Seq(LgNoteSet), lgNotes' = lgNotes \o more,
           LgNoneOf(more, {"open"}), lgSpoilt \subseteq lgSpoilt',
           \A i \in 1..Len(more) : more[i][1] = "paired" => more[i][2] \notin Lg!Taken(lgSlots),
           Lg!Taken(lgSlots) \subseteq Lg!Taken(lgSlots'),
           UNCHANGED <<lgPairing, lgThread, lgCall, lgPage, lgSaid>>
    PROVE  LgKnows'
<1>1. lgNotes \in Seq(LgNoteSet) /\ Len(lgNotes) \in Nat
  BY DEF LgTyped
<1>2. /\ \A i \in 1..Len(lgNotes) : lgNotes'[i] = lgNotes[i]
      /\ \A i \in 1..Len(more) : lgNotes'[Len(lgNotes) + i] = more[i]
      /\ \A i \in 1..Len(lgNotes') : i \in 1..Len(lgNotes) \/ \E j \in 1..Len(more) : i = Len(lgNotes) + j
  BY <1>1, LgBehind
<1>3. \A k \in 0..Len(lgNotes) : LgShutAfter(lgNotes', k) <=> LgShutAfter(lgNotes, k)
  <2>1. \A k \in 0..Len(lgNotes) : LgShutAfter(lgNotes \o more, k) <=> LgShutAfter(lgNotes, k)
    BY <1>1, LgShutBehind
  <2>2. QED BY <2>1
<1>4. 0 \in 0..Len(lgNotes) /\ \A i \in 1..Len(lgNotes) : i \in 0..Len(lgNotes)
  BY <1>1
<1>5. ASSUME LgOnlyNew, lgThread.before \subseteq Lg!Taken(lgSlots)
      PROVE  LgOnlyNew'
  <2>1. ASSUME NEW i \in 1..Len(lgNotes'), lgNotes'[i][1] = "paired", LgShutAfter(lgNotes', i)
        PROVE  lgNotes'[i][2] \notin lgThread.before
    <3>1. CASE i \in 1..Len(lgNotes)
      <4>1. lgNotes[i][1] = "paired" /\ LgShutAfter(lgNotes, i) /\ lgNotes'[i] = lgNotes[i]
        BY <1>2, <1>3, <1>4, <2>1, <3>1
      <4>2. QED BY <1>5, <3>1, <4>1 DEF LgOnlyNew
    <3>2. CASE \E j \in 1..Len(more) : i = Len(lgNotes) + j
      BY <1>2, <1>5, <2>1, <3>2
    <3>3. QED BY <1>2, <3>1, <3>2
  <2>2. LgShutAfter(lgNotes', 0) => lgPairing.new \notin lgThread.before
    BY <1>3, <1>4, <1>5 DEF LgOnlyNew
  <2>3. QED BY <2>1, <2>2 DEF LgOnlyNew
<1>6. LgCalled => LgCalled'
  BY <1>5 DEF LgCalled
<1>7. "refused" \notin lgSpoilt' /\ Lg!PairedIsNew => Lg!PairedIsNew'
  BY DEF Lg!PairedIsNew
<1>8. QED BY <1>6, <1>7 DEF LgKnows

LEMMA LgKnowsReceiver ==
    ASSUME LgTyped, LgKnows,
           \/ Lg!DeviceFound \/ Lg!PasskeyMade \/ Lg!LockTimesOut
           \/ \E s \in Lg!Slots : Lg!KnownWakes(s)
           \/ \E d \in LgDevs : Lg!DeviceJoins(d)
    PROVE  LgKnows'
<1>1. CASE \/ Lg!DeviceFound \/ Lg!PasskeyMade \/ Lg!LockTimesOut
           \/ \E s \in Lg!Slots : Lg!KnownWakes(s)
  <2>1. UNCHANGED <<lgSlots, lgPairing, lgThread, lgCall, lgPage, lgSaid>>
    BY <1>1, LgTells
  <2>2. PICK more \in Seq(LgNoteSet) :
           /\ lgNotes' = lgNotes \o more /\ lgSpoilt \subseteq lgSpoilt'
           /\ \A i \in 1..Len(more) : more[i][1] \in {"link", "found", "unfound", "closed", "key"}
    BY <1>1, LgTells
  <2>3. LgNoneOf(more, {"open"}) /\ \A i \in 1..Len(more) : more[i][1] # "paired"
    BY <2>2 DEF LgNoneOf
  <2>4. QED BY <2>1, <2>2, <2>3, LgKnowsMore
<1>2. ASSUME NEW d \in LgDevs, Lg!DeviceJoins(d)
      PROVE  LgKnows'
  <2>1. UNCHANGED <<lgPairing, lgThread, lgCall, lgPage, lgSaid, lgSpoilt>>
    BY <1>2, LgJoins
  <2>2. PICK s \in LgAll :
           /\ s \notin Lg!Taken(lgSlots) /\ Lg!Taken(lgSlots') = Lg!Taken(lgSlots) \cup {s}
           /\ \E told \in {<<"closed">>, <<"paired", s>>} :
                lgNotes' = lgNotes \o IF lgFlag THEN <<<<"link", s>>, told>> ELSE <<told>>
    BY <1>2, LgJoins
  <2>3. PICK told \in {<<"closed">>, <<"paired", s>>} :
           lgNotes' = lgNotes \o IF lgFlag THEN <<<<"link", s>>, told>> ELSE <<told>>
    BY <2>2
  <2> DEFINE linked == <<"link", s>>
             more == IF lgFlag THEN <<linked, told>> ELSE <<told>>
  <2>4. linked \in LgNoteSet /\ linked[1] = "link" /\ told \in LgNoteSet
    BY <2>2, <2>3 DEF LgNoteSet, LgSignals, LgTidings
  <2>5. lgNotes' = lgNotes \o more
    BY <2>3
  <2> HIDE DEF linked
  <2>6. /\ more \in Seq(LgNoteSet)
        /\ \A i \in 1..Len(more) : more[i] \in {linked, told}
    BY <2>4
  <2> HIDE DEF more
  <2>7. \A i \in 1..Len(more) : more[i][1] # "open" /\ (more[i][1] = "paired" => more[i][2] = s)
    <3>1. told[1] # "open" /\ (told[1] = "paired" => told[2] = s)
      BY <2>3
    <3>2. QED BY <2>4, <2>6, <3>1
  <2>8. /\ LgNoneOf(more, {"open"})
        /\ \A i \in 1..Len(more) : more[i][1] = "paired" => more[i][2] \notin Lg!Taken(lgSlots)
    BY <2>2, <2>7 DEF LgNoneOf
  <2>9. QED BY <2>1, <2>2, <2>5, <2>6, <2>8, LgKnowsMore
<1>3. QED BY <1>1, <1>2

LEMMA LgKnowsNext == LgTyped /\ LgKnows /\ (Lg!Next \/ UNCHANGED lgVars) => LgKnows'
<1> SUFFICES ASSUME LgTyped, LgKnows, Lg!Next \/ UNCHANGED lgVars PROVE LgKnows'
  OBVIOUS
<1>1. CASE UNCHANGED lgVars
  <2>1. /\ UNCHANGED <<lgSlots, lgNotes, lgPairing, lgThread, lgCall, lgPage, lgSaid>>
        /\ lgSpoilt \subseteq lgSpoilt'
    BY <1>1 DEF lgVars
  <2>2. QED BY <2>1, LgKnowsKept
<1>2. CASE Lg!Next
  BY <1>2, LgKnowsPages, LgKnowsPairing, LgKnowsReceiver DEF Lg!Next
<1>3. QED BY <1>1, <1>2

-----------------------------------------------------------------------------
(* LogitechDevice: what a sweep lists. *)

LgNumber(slots) == Cardinality(Lg!Taken(slots))

LEMMA LgCounts ==
    ASSUME NEW slots
    PROVE  /\ IsFiniteSet(Lg!Taken(slots)) /\ LgNumber(slots) \in Nat
           /\ Lg!Cardinality(Lg!Taken(slots)) = LgNumber(slots)
<1> DEFINE taken == Lg!Taken(slots)
<1>1. IsFiniteSet(taken)
  <2>1. taken \in SUBSET LgAll
    BY LgTaken
  <2>2. IsFiniteSet(LgAll)
    BY LgApart, FS_Interval DEF LgAll
  <2> HIDE DEF taken
  <2>3. QED BY <2>1, <2>2, FS_Subset
<1>2. Cardinality(taken) \in Nat
  BY <1>1, FS_CardinalityType
<1>3. Lg!Cardinality(taken) = Cardinality(taken)
  BY DEF Lg!Cardinality, Cardinality, Lg!IsFiniteSet, IsFiniteSet
<1>4. QED BY <1>1, <1>2, <1>3 DEF LgNumber

\* One slot is filled or freed: the receiver counts one more, or one less.
LEMMA LgCountsMove ==
    ASSUME lgSlots \in LgDevices, NEW s \in LgAll, NEW d \in LgDevs \cup {None},
           lgSlots' = [lgSlots EXCEPT ![s] = d], lgSlots[s] # d
    PROVE  /\ lgSlots[s] = None => LgNumber(lgSlots') = LgNumber(lgSlots) + 1
           /\ d = None => LgNumber(lgSlots') = LgNumber(lgSlots) - 1
<1>1. lgSlots' \in LgDevices /\ \A r \in LgAll : lgSlots'[r] = IF r = s THEN d ELSE lgSlots[r]
  BY DEF LgDevices
<1> DEFINE old == Lg!Taken(lgSlots)
           new == Lg!Taken(lgSlots')
<1>2. IsFiniteSet(old)
  BY LgCounts
<1>3. CASE lgSlots[s] = None
  <2>1. s \notin old /\ new = old \cup {s}
    BY <1>1, <1>3 DEF Lg!Taken, Lg!Slots, LgAll
  <2> HIDE DEF old, new
  <2>2. Cardinality(new) = Cardinality(old) + 1
    BY <1>2, <2>1, FS_AddElement
  <2>3. d # None
    BY <1>3
  <2>4. QED BY <2>2, <2>3 DEF LgNumber, old, new
<1>4. CASE lgSlots[s] # None
  <2>1. d = None => s \in old /\ new = old \ {s}
    BY <1>1, <1>4 DEF Lg!Taken, Lg!Slots, LgAll
  <2> HIDE DEF old, new
  <2>2. d = None => Cardinality(new) = Cardinality(old) - 1
    BY <1>2, <2>1, FS_RemoveElement
  <2>3. QED BY <1>4, <2>2 DEF LgNumber, old, new
<1>5. QED BY <1>3, <1>4

\* The memo is the children of the slots it was made from: those of now if nothing moved since, and of
\* another number if devices only joined, or only left.
LgMemoTrue ==
    LET number == LgNumber(lgSlots) IN
    /\ lgMemo.count \in Nat
    /\ lgDrift = {} => lgMemo.kids = Lg!ChildrenIn(lgSlots) /\ lgMemo.count = number
    /\ lgDrift = {"joined"} => lgMemo.count < number
    /\ lgDrift = {"left"} => lgMemo.count > number

LgRemembers == lgDrift \subseteq {"left", "joined"} /\ (lgMemo # None => LgMemoTrue)

LEMMA LgRemembersInit == Lg!Init => LgRemembers
BY DEF Lg!Init, LgRemembers

\* A sweep: the memo answers only if as many devices are there, and else is made anew.
LEMMA LgSweeps ==
    ASSUME LgRemembers, Lg!Discover
    PROVE  /\ LgRemembers'
           /\ lgDrift # {"left", "joined"} => lgListed' = Lg!ChildrenIn(lgSlots)
<1> DEFINE number == LgNumber(lgSlots)
<1>1. number \in Nat /\ Lg!Cardinality(Lg!Taken(lgSlots)) = number
  BY LgCounts
<1>2. /\ IF lgMemo # None /\ lgMemo.count = number
         THEN lgListed' = lgMemo.kids /\ UNCHANGED <<lgMemo, lgDrift>>
         ELSE /\ lgListed' = Lg!ChildrenIn(lgSlots)
              /\ lgMemo' = [count |-> number, kids |-> Lg!ChildrenIn(lgSlots)]
              /\ lgDrift' = {}
      /\ UNCHANGED <<lgSlots, lgKind>>
  BY <1>1 DEF Lg!Discover, Lg!Remembered
<1>3. LgNumber(lgSlots') = number /\ Lg!ChildrenIn(lgSlots)' = Lg!ChildrenIn(lgSlots)
  BY <1>2 DEF Lg!ChildrenIn
<1> HIDE DEF number
<1>4. CASE lgMemo # None /\ lgMemo.count = number
  <2>1. lgListed' = lgMemo.kids /\ UNCHANGED <<lgMemo, lgDrift>> /\ lgDrift \subseteq {"left", "joined"}
    BY <1>2, <1>4 DEF LgRemembers
  <2>2. LgMemoTrue
    BY <1>4 DEF LgRemembers
  <2>3. LgMemoTrue'
    BY <1>3, <2>1, <2>2 DEF LgMemoTrue, number
  <2>4. lgDrift \in {{}, {"joined"}, {"left"}, {"left", "joined"}}
    BY <2>1
  <2>5. lgDrift # {"joined"} /\ lgDrift # {"left"}
    BY <1>1, <1>4, <2>2 DEF LgMemoTrue, number
  <2>6. lgDrift = {} => lgListed' = Lg!ChildrenIn(lgSlots)
    BY <2>1, <2>2 DEF LgMemoTrue
  <2>7. QED BY <2>1, <2>3, <2>4, <2>5, <2>6 DEF LgRemembers
<1>5. CASE ~(lgMemo # None /\ lgMemo.count = number)
  <2>1. /\ lgListed' = Lg!ChildrenIn(lgSlots) /\ lgDrift' = {}
        /\ lgMemo'.count = number /\ lgMemo'.kids = Lg!ChildrenIn(lgSlots)
    BY <1>2, <1>5
  <2>2. LgMemoTrue'
    BY <1>1, <1>3, <2>1 DEF LgMemoTrue, number
  <2>3. QED BY <2>1, <2>2 DEF LgRemembers
<1>6. QED BY <1>4, <1>5

LEMMA LgRemembersKept ==
    ASSUME LgRemembers, UNCHANGED <<lgSlots, lgKind, lgMemo, lgDrift>>
    PROVE  LgRemembers'
<1>1. LgNumber(lgSlots)' = LgNumber(lgSlots) /\ Lg!ChildrenIn(lgSlots)' = Lg!ChildrenIn(lgSlots)
  BY DEF LgNumber, Lg!ChildrenIn
<1>2. LgMemoTrue => LgMemoTrue'
  BY <1>1 DEF LgMemoTrue
<1>3. QED BY <1>2 DEF LgRemembers

\* A device more, or one less, and a drift that says so.
LEMMA LgRemembersMove ==
    ASSUME LgRemembers, UNCHANGED lgMemo, NEW how \in SUBSET {"left", "joined"}, how # {},
           lgDrift' = lgDrift \cup how,
           how = {"joined"} => LgNumber(lgSlots') = LgNumber(lgSlots) + 1,
           how = {"left"} => LgNumber(lgSlots') = LgNumber(lgSlots) - 1
    PROVE  LgRemembers'
<1>1. LgNumber(lgSlots) \in Nat /\ LgNumber(lgSlots') \in Nat /\ lgDrift \subseteq {"left", "joined"}
  BY LgCounts DEF LgRemembers
<1>2. how \in {{"joined"}, {"left"}, {"left", "joined"}}
  OBVIOUS
<1>3. /\ lgDrift' \subseteq {"left", "joined"} /\ lgDrift' # {}
      /\ lgDrift' = {"joined"} => how = {"joined"} /\ lgDrift \in {{}, {"joined"}}
      /\ lgDrift' = {"left"} => how = {"left"} /\ lgDrift \in {{}, {"left"}}
  BY <1>1, <1>2
<1> DEFINE old == LgNumber(lgSlots)
           new == LgNumber(lgSlots')
<1>4. ASSUME LgMemoTrue
      PROVE  LgMemoTrue'
  <2>1. /\ lgMemo.count \in Nat /\ old \in Nat /\ new \in Nat
        /\ lgDrift \in {{}, {"joined"}} => lgMemo.count <= old
        /\ lgDrift \in {{}, {"left"}} => lgMemo.count >= old
    BY <1>1, <1>4 DEF LgMemoTrue
  <2>2. (how = {"joined"} => new = old + 1) /\ (how = {"left"} => new = old - 1)
    OBVIOUS
  <2> DEFINE count == lgMemo.count
  <2>3. new = LgNumber(lgSlots)' /\ count' = count
    BY DEF LgNumber
  <2> HIDE DEF old, new
  <2>4. lgDrift' = {"joined"} => count < new
    BY <1>3, <2>1, <2>2
  <2>5. lgDrift' = {"left"} => count > new
    BY <1>3, <2>1, <2>2
  <2>6. QED BY <1>3, <2>1, <2>3, <2>4, <2>5 DEF LgMemoTrue
<1>5. QED BY <1>3, <1>4 DEF LgRemembers

LEMMA LgRemembersNext ==
    LgTyped /\ LgRemembers /\ (Lg!Next \/ UNCHANGED lgVars) => LgRemembers'
<1> SUFFICES ASSUME LgTyped, LgRemembers, Lg!Next \/ UNCHANGED lgVars PROVE LgRemembers'
  OBVIOUS
<1>1. lgSlots \in LgDevices
  BY DEF LgTyped
<1>2. CASE UNCHANGED lgVars
  BY <1>2, LgRemembersKept DEF lgVars
<1>3. CASE Lg!Discover
  BY <1>3, LgSweeps
<1>4. CASE \/ Lg!ConnectReceiver \/ Lg!Disconnect \/ Lg!StartPairing \/ Lg!GiveUp
           \/ \E s \in Lg!Slots : Lg!ConnectChild(s)
           \/ Lg!Open \/ Lg!Pump \/ Lg!Found \/ Lg!Passkey \/ Lg!PressCancel \/ Lg!OtherConnects
  <2>1. UNCHANGED <<lgSlots, lgKind, lgMemo, lgDrift>>
    BY <1>4 DEF Lg!ConnectReceiver, Lg!Disconnect, Lg!StartPairing, Lg!GiveUp, Lg!ConnectChild,
       Lg!Open, Lg!Pump, Lg!Found, Lg!Passkey, Lg!PressCancel, Lg!OtherConnects, Lg!PairKeep
  <2>2. QED BY <2>1, LgRemembersKept
<1>5. CASE Lg!PairingEnds \/ Lg!Cancelled
  BY <1>5, LgEnds, LgRemembersKept
<1>6. CASE \/ Lg!DeviceFound \/ Lg!PasskeyMade \/ Lg!LockTimesOut
           \/ \E s \in Lg!Slots : Lg!KnownWakes(s)
  BY <1>6, LgTells, LgRemembersKept
<1>7. ASSUME NEW s \in Lg!Slots, Lg!Unpair(s)
      PROVE  LgRemembers'
  <2>1. /\ s \in LgAll /\ lgSlots[s] # None /\ lgSlots' = [lgSlots EXCEPT ![s] = None]
        /\ lgDrift' = lgDrift \cup {"left"} /\ UNCHANGED lgMemo
    BY <1>7 DEF Lg!Unpair, Lg!Drift, Lg!Taken, Lg!Slots, LgAll
  <2>2. LgNumber(lgSlots') = LgNumber(lgSlots) - 1
    BY <1>1, <2>1, LgCountsMove
  <2>3. QED BY <2>1, <2>2, LgRemembersMove
<1>8. ASSUME NEW d \in LgDevs, Lg!DeviceJoins(d)
      PROVE  LgRemembers'
  <2>1. UNCHANGED lgMemo /\ lgDrift' = lgDrift \cup {"joined"}
    BY <1>8, LgJoins
  <2>2. PICK s \in LgAll :
           s \notin Lg!Taken(lgSlots) /\ Lg!Taken(lgSlots') = Lg!Taken(lgSlots) \cup {s}
    BY <1>8, LgJoins
  <2> DEFINE old == Lg!Taken(lgSlots)
             new == Lg!Taken(lgSlots')
  <2>3. IsFiniteSet(old) /\ s \notin old /\ new = old \cup {s}
    BY <2>2, LgCounts
  <2> HIDE DEF old, new
  <2>4. Cardinality(new) = Cardinality(old) + 1
    BY <2>3, FS_AddElement
  <2>5. LgNumber(lgSlots') = LgNumber(lgSlots) + 1
    BY <2>4 DEF LgNumber, old, new
  <2>6. QED BY <2>1, <2>5, LgRemembersMove
<1>9. CASE Lg!Elsewhere
  <2>1. PICK s \in LgAll, d \in LgDevs \cup {None} :
           /\ lgSlots[s] # d /\ lgSlots' = [lgSlots EXCEPT ![s] = d]
           /\ lgDrift' = lgDrift \cup (IF lgSlots[s] # None THEN {"left"} ELSE {})
                                 \cup (IF d # None THEN {"joined"} ELSE {})
    BY <1>9 DEF Lg!Elsewhere, Lg!Slots, LgAll
  <2>2. UNCHANGED lgMemo
    BY <1>9 DEF Lg!Elsewhere, Lg!AirKeep
  <2>3. /\ lgSlots[s] = None => LgNumber(lgSlots') = LgNumber(lgSlots) + 1
        /\ d = None => LgNumber(lgSlots') = LgNumber(lgSlots) - 1
    BY <1>1, <2>1, LgCountsMove
  <2> DEFINE how == (IF lgSlots[s] # None THEN {"left"} ELSE {})
                    \cup (IF d # None THEN {"joined"} ELSE {})
  <2>4. /\ how \in SUBSET {"left", "joined"} /\ how # {} /\ lgDrift' = lgDrift \cup how
        /\ how = {"joined"} => lgSlots[s] = None
        /\ how = {"left"} => d = None
    BY <2>1
  <2> HIDE DEF how
  <2>5. QED BY <2>2, <2>3, <2>4, LgRemembersMove
<1>10. QED BY <1>2, <1>3, <1>4, <1>5, <1>6, <1>7, <1>8, <1>9 DEF Lg!Next

-----------------------------------------------------------------------------
(* The three devices together. *)

SessionsInv ==
    /\ JabTyped /\ JabFollows
    /\ DkAddressed /\ DkFollows
    /\ LgTyped /\ LgFollows /\ LgKnows /\ LgRemembers

LEMMA SessionsInit == Init => SessionsInv
BY JabTypeInit, JabFollowsInit, DkAddressedInit, DkFollowsInit, LgTypeInit, LgFollowsInit,
   LgKnowsInit, LgRemembersInit DEF Init, SessionsInv

\* A step is a step of one device, and the others stand still.
LEMMA SessionsStep ==
    ASSUME [Next]_vars
    PROVE  /\ Jab!Next \/ UNCHANGED jabVars
           /\ Dk!Next \/ UNCHANGED dkVars
           /\ Lg!Next \/ UNCHANGED lgVars
BY DEF Next, vars

LEMMA SessionsNext == SessionsInv /\ [Next]_vars => SessionsInv'
<1> SUFFICES ASSUME SessionsInv, [Next]_vars PROVE SessionsInv'
  OBVIOUS
<1>1. JabTyped' /\ JabFollows'
  BY SessionsStep, JabTypeNext, JabFollowsNext DEF SessionsInv
<1>2. DkAddressed' /\ DkFollows'
  BY SessionsStep, DkAddressedNext, DkFollowsNext DEF SessionsInv
<1>3. LgTyped' /\ LgFollows' /\ LgKnows' /\ LgRemembers'
  BY SessionsStep, LgTypeNext, LgFollowsNext, LgKnowsNext, LgRemembersNext DEF SessionsInv
<1>4. QED BY <1>1, <1>2, <1>3 DEF SessionsInv

LEMMA SessionsHold == Spec => []SessionsInv
BY SessionsInit, SessionsNext, PTL DEF Spec

\* Jabra, Poly and Logitech (device.py of each, session.py): what a device, its page and its pairing
\* hold is of its kind whatever was written, pushed, lost or refused; in a Jabra headset at most one
\* value is on its way, and a Logitech call that is waited for has its thread.
THEOREM SessionsTypeCorrect == Spec => []TypeOK
<1>1. SessionsInv => TypeOK
  BY JabTypeSuffices, DkTypeSuffices, LgTypeSuffices DEF SessionsInv, DkAddressed, TypeOK
<1>2. QED BY <1>1, SessionsHold, PTL

\* At rest the page shows what the device holds, in whatever order the writes, the polls, the pushes
\* and the pairings came: a Jabra page after its last news (jabra controller.py, device.py), a Poly page
\* after the last event that was heard (poly device.py:355-409), and the pairing rows of a Logitech
\* receiver after a pairing that was read to its end (logitech device.py:504-572).
THEOREM PageSettlesAlways == Spec => []PageSettles
<1>1. SessionsInv => PageSettles
  BY JabSettles, DkSettles, LgRowsSettle DEF SessionsInv, PageSettles
<1>2. QED BY <1>1, SessionsHold, PTL

\* poly device.py:355-409 and session.py: the write that is on its way to the headset's end, or to the
\* adapter's, carries the row the user touched to the end that row belongs to, through refreshes and
\* requests that fail half way.
THEOREM EndsCorrect == Spec => []Dk!WriteGoesToItsEnd
<1>1. SessionsInv => Dk!WriteGoesToItsEnd
  BY DEF SessionsInv, DkAddressed
<1>2. QED BY <1>1, SessionsHold, PTL

\* logitech device.py:504-572 and children.py: a pairing hears the receiver as long as it reads, the
\* device it reports was in no slot when it began, its end puts the receiver's flag back as it found
\* it, and a sweep lists what is in the slots unless one device left and one joined since the last.
THEOREM PairingIsHonestAlways == Spec => PairingIsHonest
<1>1. SessionsInv => Lg!PairedIsNew \/ "refused" \in lgSpoilt
  BY DEF SessionsInv, LgKnows
<1>2. SessionsInv => Lg!PairedIsNew
  BY <1>1 DEF Lg!PairedIsNew
<1>3. SessionsInv => Lg!HearsWhilePairing
  BY DEF SessionsInv, LgTyped, Lg!HearsWhilePairing, Lg!Pumping
<1>4. SessionsInv /\ [Next]_vars =>
         [(lgThread.step # "off" /\ lgThread'.step = "off" /\ lgPage' = 0)
             => lgFlag' = lgThread.flag]_(Lg!lgVars)
  BY SessionsStep, LgPutsBack DEF SessionsInv
<1>5. SessionsInv /\ [Next]_vars =>
         [(Lg!Discover /\ lgDrift # {"left", "joined"}) => lgListed' = Lg!ChildrenIn(lgSlots)]_(Lg!lgVars)
  BY LgSweeps DEF SessionsInv
<1>6. Spec => Lg!FlagIsPutBack
  BY <1>4, SessionsHold, PTL DEF Spec, Lg!FlagIsPutBack
<1>7. Spec => Lg!ListedArePaired
  BY <1>5, SessionsHold, PTL DEF Spec, Lg!ListedArePaired
<1>8. Spec => [](Lg!PairedIsNew /\ Lg!HearsWhilePairing)
  BY <1>2, <1>3, SessionsHold, PTL
<1>9. QED BY <1>6, <1>7, <1>8 DEF PairingIsHonest
=============================================================================
