---------------------------- MODULE SweepHistory ----------------------------
(***************************************************************************)
(* DeviceLifecycle with a history of what happened during each sweep: the  *)
(* promise of _drop_stale is about a sweep that nothing else disturbed.    *)
(***************************************************************************)
EXTENDS DeviceLifecycle

VARIABLE calm   \* history: the runs of enumerate() undisturbed since they read the buses

Reading(s) == sweep[s].pc = "idle" /\ sweep'[s].pc = "swept"

Ends(s) == sweep[s].pc # "idle" /\ sweep'[s].pc = "idle"

\* No other sweep and no connect was under way when s read the buses.
Alone(s) ==
    /\ \A t \in Enumerations \ {s} : sweep[t].pc = "idle"
    /\ \A d \in Slots : obj[d].task = "none"

\* The hardware changes, a connect begins, or one ends.
Disturbance ==
    \/ bus' # bus
    \/ \E d \in Slots : obj'[d].task # obj[d].task

CalmInit == Init /\ calm = {}

CalmNext ==
    /\ Next
    /\ calm' = IF \E s \in Enumerations : Reading(s)
               THEN {s \in Enumerations : Reading(s) /\ Alone(s)}
               ELSE IF Disturbance THEN {} ELSE calm

CalmSpec == CalmInit /\ [][CalmNext]_<<vars, calm>>

\* When a sweep ends that no plug, no connect and no other sweep disturbed, every
\* handle held is at the node the device is at: _drop_stale leaves nothing behind.
CalmSweepLeavesNoStale ==
    [][\A s \in Enumerations : Ends(s) /\ s \in calm =>
          \A u \in Devices : open'[u] # None =>
              bus[u] # Gone /\ bus[u].path = obj'[open'[u]].path]_<<vars, calm>>
=============================================================================
