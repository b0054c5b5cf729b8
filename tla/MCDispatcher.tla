---------------------------- MODULE MCDispatcher ----------------------------
(* Model values and the bound for the run of Dispatcher.                   *)
EXTENDS Dispatcher

CONSTANTS t1, t2, t3, l1, l2,
          MaxTotal   \* bound: messages submitted

ThreeTenants == {t1, t2, t3}
TwoLanes     == {l1, l2}

WithinTotal == submitted'[t1] + submitted'[t2] + submitted'[t3] <= MaxTotal

\* Tenants are interchangeable, so they are named in the order of their first
\* messages.
InOrder == (submitted'[t2] > 0 => submitted'[t1] > 0) /\ (submitted'[t3] > 0 => submitted'[t2] > 0)

\* Nobody has to submit, so that the bound takes nothing from the fairness.
MCSpec == newTopicDispatcher /\ [][Next /\ WithinTotal /\ InOrder]_vars /\ Fairness
=============================================================================
