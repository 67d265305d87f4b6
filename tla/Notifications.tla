---------------------------- MODULE Notifications ---------------------------
(***************************************************************************)
(* What sharing promises to the recipients of a share, told without a      *)
(* queue, a worker or a message.  A delivery is a share and one entry of   *)
(* its list of recipients.  Once the broker has taken a share every        *)
(* delivery of it is owed, until it is either mailed or parked where an    *)
(* operator sees it; the operator may make parked deliveries owed again.   *)
(* A mail may leave more than once, and a delivery that was mailed may be  *)
(* parked as well.                                                         *)
(***************************************************************************)
CONSTANTS Shares, To

VARIABLES
    announced,      \* shares the broker took
    owed,           \* deliveries somebody still has to answer for
    sent,           \* deliveries mailed at least once
    parked          \* deliveries an operator can see in the dead-letter queue

vars == <<announced, owed, sent, parked>>

Of(s) == {s} \X DOMAIN To[s]

Deliveries == UNION {Of(s) : s \in announced}

Init ==
    /\ announced = {}
    /\ owed = {} /\ sent = {} /\ parked = {}

Announce(s) ==
    /\ s \notin announced
    /\ announced' = announced \union {s}
    /\ owed' = owed \union Of(s)
    /\ UNCHANGED <<sent, parked>>

Mail(d) ==
    /\ sent' = sent \union {d}
    /\ UNCHANGED <<announced, owed, parked>>

\* Deliveries are reported, or are over: mailed, or reported.
Settle ==
    /\ owed' \in SUBSET owed
    /\ parked' \in SUBSET Deliveries
    /\ parked \subseteq parked'
    /\ owed \ owed' \subseteq sent \union parked'
    /\ UNCHANGED <<announced, sent>>

\* Parked deliveries are taken up again; some stay parked under another report.
Reopen ==
    /\ parked' \in SUBSET parked
    /\ owed' \in SUBSET (owed \union parked)
    /\ owed \subseteq owed'
    /\ parked \ parked' \subseteq owed'
    /\ UNCHANGED <<announced, sent>>

Next ==
    \/ \E s \in Shares : Announce(s)
    \/ \E d \in Deliveries : Mail(d)
    \/ Settle
    \/ Reopen

Spec == Init /\ [][Next]_vars

\* Every delivery of a share the broker took is owed, mailed or parked.
NoneForgotten == Deliveries \subseteq owed \union sent \union parked
=============================================================================
