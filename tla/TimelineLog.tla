------------------------------ MODULE TimelineLog ------------------------------
(***************************************************************************)
(* What the backend promises about the timeline of a case: parsing only    *)
(* adds sources, a source is never changed or parsed into again, an        *)
(* observation is never taken back nor its time changed, and a generation  *)
(* adds, in one step, every missing observation of the sources it          *)
(* considered and nothing else.                                            *)
(***************************************************************************)
EXTENDS Integers

VARIABLES
    given,  \* [source -> the observations in it, [observation -> time]]
    log     \* the timeline, [observation -> time]

logVars == <<given, log>>

\* Observations of the sources in S, those of the log first.
Completed(S) ==
    LET found == UNION {DOMAIN given[s] : s \in S}
    IN  [o \in DOMAIN log \union found |->
            IF o \in DOMAIN log THEN log[o]
            ELSE LET s == CHOOSE s \in S : o \in DOMAIN given[s] IN given[s][o]]

Known == UNION {DOMAIN given[s] : s \in DOMAIN given}

\* Part of the sources may have been turned into a timeline before.
Init == DOMAIN log \subseteq Known

AddSource ==
    /\ \E s \in DOMAIN given' :
          /\ s \notin DOMAIN given
          /\ DOMAIN given' = DOMAIN given \union {s}
    /\ \A s \in DOMAIN given : given'[s] = given[s]
    /\ UNCHANGED log

Generate ==
    /\ \E S \in SUBSET DOMAIN given : log' = Completed(S)
    /\ UNCHANGED given

Next == AddSource \/ Generate

Spec == Init /\ [][Next]_logVars

=============================================================================
