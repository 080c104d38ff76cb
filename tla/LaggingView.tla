---------------------------- MODULE LaggingView ----------------------------
(***************************************************************************)
(* What a page bound to a device over an ordered link promises.  The       *)
(* device holds the truth; every report of it travels in order and none is *)
(* lost while the link is up; the page shows the last report that reached  *)
(* it.  The page may be behind, never ahead, and never goes back to a      *)
(* value older than one it has shown.                                      *)
(***************************************************************************)
EXTENDS Sequences, Naturals

CONSTANTS Values, Unread

VARIABLES truth, news, view

lagVars == <<truth, news, view>>

Init ==
    /\ truth \in Values
    /\ news = <<>>
    /\ view = Unread

\* The device changes, and says so or not.
Change ==
    /\ truth' \in Values
    /\ news' \in {news, Append(news, truth')}
    /\ UNCHANGED view

\* The device answers a read.
Report ==
    /\ news' = Append(news, truth)
    /\ UNCHANGED <<truth, view>>

\* The page takes the first n reports: the last of them is what it shows.
Deliver ==
    \E n \in 1..Len(news) :
        /\ view' = news[n]
        /\ news' = SubSeq(news, n + 1, Len(news))
        /\ UNCHANGED truth

\* The link goes down: what was on it is lost, and the page with it.
Drop ==
    /\ news' = <<>>
    /\ view' = Unread
    /\ UNCHANGED truth

Next == Change \/ Report \/ Deliver \/ Drop

Spec == Init /\ [][Next]_lagVars
=============================================================================
