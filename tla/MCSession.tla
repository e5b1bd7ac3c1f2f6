------------------------------ MODULE MCSession ------------------------------
(* Instances of Session for TLC.                                          *)
EXTENDS Session

CONSTANT Here  \* whoever signs in on this page; anybody may in another tab

HereInit == Init /\ \A t \in Pairs : owner[t] \in {Here, NoUser}

HereSpec == HereInit /\ [][Next]_vars /\ Fairness

\* Another tab acts until it has ended the session of this page or begun another's, and
\* again once the page was loaded anew.
Bound == /\ spoiled => (clearing' => clearing) /\ arriving' \in {None, arriving}
         /\ \A q \in Requests : req'[q].as \in {Here, NoUser}
=============================================================================
