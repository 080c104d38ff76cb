--------------------------- MODULE MCHeadsetLinks ---------------------------
(***************************************************************************)
(* The Jabra and the Sony link for TLC.  A behaviour is of one of them,    *)
(* which the initial state chooses; the other stays as it is before        *)
(* anything is connected.                                                  *)
(***************************************************************************)
EXTENDS GnpLink, MdrSession

CONSTANTS l1, l2, f1, f2

VARIABLE which

vars == <<which, gnpVars, mdrVars>>

LinksInit == which \in {"gnp", "mdr"} /\ Init /\ MdrInit

LinksNext ==
    \/ which = "gnp" /\ Next /\ UNCHANGED <<which, mdrVars>>
    \/ which = "mdr" /\ MdrNext /\ UNCHANGED <<which, gnpVars>>

LinksSpec == LinksInit /\ [][LinksNext]_vars /\ Scheduled /\ MdrScheduled

-----------------------------------------------------------------------------
LinksTypeOK == TypeOK /\ MdrTypeOK

\* GnpLink, MdrSession: a request ends, and an operation of several messages, though commands are
\* lost, answers late and the link goes (jabra session.py:203-231, sony session.py:80-174).
LinksEnd == RequestsEnd /\ OperationsEnd
=============================================================================
