----------------------------- MODULE FindingReview -----------------------------
(***************************************************************************)
(* What the backend promises about findings: a finding appears as OPEN,    *)
(* moves only along the transitions of the review, each recorded in the    *)
(* same step in a history that only grows, and never goes away.            *)
(***************************************************************************)
EXTENDS Integers

VARIABLES
    status,   \* [finding -> its status]
    history   \* [number -> move]; later moves have greater numbers

reviewVars == <<status, history>>

Transitions ==
    {<<"OPEN", "REVIEWED">>, <<"OPEN", "DISMISSED">>,
     <<"REVIEWED", "RESOLVED">>, <<"REVIEWED", "DISMISSED">>}

Init == DOMAIN status = {} /\ DOMAIN history = {}

Create ==
    /\ DOMAIN status \subseteq DOMAIN status'
    /\ status' = [f \in DOMAIN status' |->
                     IF f \in DOMAIN status THEN status[f] ELSE "OPEN"]
    /\ UNCHANGED history

Move ==
    \E f \in DOMAIN status : \E t \in Transitions :
        /\ status[f] = t[1]
        /\ status' = [status EXCEPT ![f] = t[2]]
        /\ \E n \in DOMAIN history' :
              /\ \A i \in DOMAIN history : i < n
              /\ history' = [i \in DOMAIN history \union {n} |->
                                IF i = n THEN [finding |-> f, from |-> t[1], to |-> t[2]]
                                ELSE history[i]]

Next == Create \/ Move

Spec == Init /\ [][Next]_reviewVars

=============================================================================
