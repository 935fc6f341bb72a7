----------------------------- MODULE CaseRecord -----------------------------
(***************************************************************************)
(* What the backend promises about a case and its audit history, whatever  *)
(* the interleaving of requests and failures: a case is created once, moves *)
(* OPEN -> CLOSED -> ARCHIVED, every change is written to the audit trail   *)
(* in the same atomic step, the trail only grows, one request writes at    *)
(* most one entry, and evidence joins a case only while it is OPEN.        *)
(*                                                                         *)
(* The modules that follow the code step by step (row locks, commits,      *)
(* files, crashes) are shown to implement this one.                        *)
(***************************************************************************)
EXTENDS Integers, Sequences

CONSTANTS
    Case,       \* identities (uuid4) a case row can have
    Request,    \* API requests
    NoRequest   \* author of what was recorded before the behaviour starts

VARIABLES
    status,     \* [Case -> Status], "ABSENT" while there is no row
    trail       \* [Case -> Seq(Entry)], audit rows in commit order

recordVars == <<status, trail>>

Status == {"ABSENT", "OPEN", "CLOSED", "ARCHIVED"}

\* Audit actions that leave the status of the case alone.
Annotation == {"CASE_UPDATED", "EVIDENCE_REGISTERED", "EVIDENCE_VERIFIED"}

AuditAction == Annotation \union {"CASE_CREATED", "CASE_CLOSED", "CASE_ARCHIVED"}

Entry == [action : AuditAction, by : Request \union {NoRequest}]

-----------------------------------------------------------------------------

\* Cases either do not exist yet or were created by an earlier request.
Init ==
    /\ status \in [Case -> {"ABSENT", "OPEN"}]
    /\ trail = [c \in Case |->
                  IF status[c] = "ABSENT" THEN <<>>
                  ELSE << [action |-> "CASE_CREATED", by |-> NoRequest] >>]

HasWritten(r) == \E c \in Case : \E i \in DOMAIN trail[c] : trail[c][i].by = r

Write(c, r, a) ==
    /\ ~HasWritten(r)
    /\ trail' = [trail EXCEPT ![c] = Append(@, [action |-> a, by |-> r])]

Move(c, r, from, to, a) ==
    /\ status[c] = from
    /\ status' = [status EXCEPT ![c] = to]
    /\ Write(c, r, a)

Annotate(c, r, a) ==
    /\ status[c] # "ABSENT"
    /\ a = "EVIDENCE_REGISTERED" => status[c] = "OPEN"
    /\ Write(c, r, a)
    /\ UNCHANGED status

Next ==
    \E c \in Case, r \in Request :
        \/ Move(c, r, "ABSENT", "OPEN", "CASE_CREATED")
        \/ Move(c, r, "OPEN", "CLOSED", "CASE_CLOSED")
        \/ Move(c, r, "CLOSED", "ARCHIVED", "CASE_ARCHIVED")
        \/ \E a \in Annotation : Annotate(c, r, a)

Spec == Init /\ [][Next]_recordVars

-----------------------------------------------------------------------------

\* Case rows and audit rows keep their types.
RecordTypeOK ==
    /\ status \in [Case -> Status]
    /\ trail \in [Case -> Seq(Entry)]

Logged(c, a) == \E i \in DOMAIN trail[c] : trail[c][i].action = a

\* The status column and the audit history never disagree: a case exists
\* exactly when its trail opens with CASE_CREATED, is CLOSED or ARCHIVED
\* exactly when the trail says so, and no lifecycle entry appears twice or
\* out of order (case_service.py writes both in one transaction).
TrailExplainsStatus ==
    \A c \in Case :
        /\ status[c] = "ABSENT" <=> trail[c] = <<>>
        /\ status[c] \in {"CLOSED", "ARCHIVED"} <=> Logged(c, "CASE_CLOSED")
        /\ status[c] = "ARCHIVED" <=> Logged(c, "CASE_ARCHIVED")
        /\ \A i \in DOMAIN trail[c] :
              trail[c][i].action = "CASE_CREATED" <=> i = 1
        /\ \A i, j \in DOMAIN trail[c] :
              /\ trail[c][i].action = "CASE_CLOSED" /\ trail[c][j].action = "CASE_CLOSED"
                    => i = j
              /\ trail[c][i].action = "CASE_ARCHIVED" /\ trail[c][j].action = "CASE_ARCHIVED"
                    => i = j
              /\ trail[c][i].action = "CASE_CLOSED" /\ trail[c][j].action = "CASE_ARCHIVED"
                    => i < j

\* Evidence joins a case only while it is open: in no trail does an
\* EVIDENCE_REGISTERED entry come after the CASE_CLOSED entry
\* (evidence_service.py, register, against case_service.py, close).
NothingRegisteredAfterClose ==
    \A c \in Case : \A i, j \in DOMAIN trail[c] :
        /\ trail[c][i].action = "CASE_CLOSED"
        /\ trail[c][j].action = "EVIDENCE_REGISTERED"
        => j < i

\* A request is recorded at most once, in one case: no handler commits the
\* same effect twice.
OneEntryPerRequest ==
    \A c, d \in Case : \A i \in DOMAIN trail[c], j \in DOMAIN trail[d] :
        trail[c][i].by = trail[d][j].by /\ trail[c][i].by # NoRequest
            => c = d /\ i = j

=============================================================================
