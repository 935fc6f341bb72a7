-------------------------- MODULE CorrelationFindings --------------------------
(***************************************************************************)
(* services/correlation_service.py: runs of the rules over the timeline of *)
(* one case and reviews of the findings, beside timeline generations that  *)
(* add and enrich events.  Each request has its own transaction.           *)
(*                                                                         *)
(*   lock         the run that holds the case row FOR UPDATE               *)
(*   share        generations that hold it FOR KEY SHARE: their events     *)
(*                reference the case; every other audit entry takes it     *)
(*                for the moment of its commit                             *)
(*   findingLock  the review that holds a finding FOR UPDATE               *)
(* A match stands for its two event links and its finding: the three are   *)
(* inserted by the same transaction.                                       *)
(***************************************************************************)
EXTENDS CorrelationRules

CONSTANTS
    Run,         \* requests to run the rules
    Review,      \* requests to change a finding
    Generation,  \* timeline generations, as TimelineLog describes them
    Nobody,
    Given,       \* [event -> what its record says]
    Earlier,     \* the events stored, without process identity, at the start
    Sources,     \* sets of events that are parsed together
    Windows,     \* temporal windows asked for
    Faults       \* whether transactions may fail

ASSUME RequestsAssumption ==
    /\ Nobody \notin Run
    /\ Run \intersect Review = {} /\ Run \intersect Generation = {}
    /\ Review \intersect Generation = {}

ASSUME GivenAssumption ==
    /\ Earlier \subseteq DOMAIN Given /\ UNION Sources \subseteq DOMAIN Given
    /\ \A e \in DOMAIN Given :
          /\ DOMAIN Given[e] = {"type", "time", "process", "name", "path"}
          /\ Given[e].time \in Int \union {None}

ASSUME WindowsAssumption == None \notin Int /\ Windows \subseteq Int

VARIABLES
    events,      \* committed timeline events: [event -> its row]
    matches,     \* committed matches: [key -> [run, a, b, window]]
    findings,    \* committed findings: [key of the match -> status]
    runs,        \* committed runs: [request -> [events, matched, found]]
    audit,       \* committed audit entries
    lock, share, findingLock,
    pc, out,
    task         \* what a request has been asked, read and written so far

rows == <<events, matches, findings, runs, audit>>
locks == <<lock, share, findingLock>>
findingsVars == <<rows, locks, pc, out, task>>

Requests == Run \union Review \union Generation

Statuses == {"OPEN", "REVIEWED", "RESOLVED", "DISMISSED"}

\* VALID_FINDING_TRANSITIONS
ValidTransitions(from) ==
    CASE from = "OPEN"     -> {"REVIEWED", "DISMISSED"}
      [] from = "REVIEWED" -> {"RESOLVED", "DISMISSED"}
      [] OTHER             -> {}

Unidentified(e) == IF e.type = "EVTX" THEN [e EXCEPT !.name = None, !.path = None] ELSE e

NoTask == [window |-> 0, read |-> <<>>, todo |-> {}, made |-> <<>>,
           status |-> None, seen |-> None, finding |-> None, new |-> {}]

FindingsInit ==
    /\ events = [e \in Earlier |-> Unidentified(Given[e])]
    /\ matches = <<>> /\ findings = <<>> /\ runs = <<>> /\ audit = <<>>
    /\ lock = Nobody /\ share = {}
    /\ findingLock = {}
    /\ pc = [r \in Requests |-> "idle"]
    /\ out = [r \in Requests |-> "none"]
    /\ task = [r \in Requests |-> NoTask]

Goto(r, p) == pc' = [pc EXCEPT ![r] = p]

Answer(r, a) == Goto(r, "done") /\ out' = [out EXCEPT ![r] = a]

\* COMMIT and ROLLBACK drop the locks of the transaction.
Release(r) ==
    /\ lock' = IF lock = r THEN Nobody ELSE lock
    /\ share' = share \ {r}
    /\ findingLock' = {l \in findingLock : l[2] # r}

\* Seeded fault: the case is read without FOR UPDATE.
CanRead == lock \in Run \union {Nobody}

CanLock == lock = Nobody /\ share = {}

-----------------------------------------------------------------------------
\* Runs

RunNotFound(r) ==
    /\ pc[r] = "idle"
    /\ Answer(r, "not_found")
    /\ UNCHANGED <<rows, locks, task>>

LockCase(r) ==
    /\ pc[r] = "idle"
    /\ CanLock
    /\ lock' = r
    /\ \E w \in Windows : task' = [task EXCEPT ![r].window = w]
    /\ Goto(r, "locked")
    /\ UNCHANGED <<rows, share, findingLock, out>>

\* The events are read and all rules evaluated.
Evaluate(r) ==
    /\ pc[r] = "locked"
    /\ task' = [task EXCEPT ![r].read = events,
                            ![r].todo = Candidates(events, task[r].window)]
    /\ Goto(r, "checking")
    /\ UNCHANGED <<rows, locks, out>>

\* _candidate_sort_key puts the candidates in some order.
NextCandidate(r) == CHOOSE c \in task[r].todo : TRUE

KeyOf(r) == MatchKey(NextCandidate(r), task[r].window)

\* An existing match is left alone.
SkipExisting(r) ==
    /\ pc[r] = "checking" /\ task[r].todo # {}
    /\ KeyOf(r) \in DOMAIN matches \union DOMAIN task[r].made
    /\ task' = [task EXCEPT ![r].todo = @ \ {NextCandidate(r)}]
    /\ UNCHANGED <<rows, locks, pc, out>>

FindNone(r) ==
    /\ pc[r] = "checking" /\ task[r].todo # {}
    /\ KeyOf(r) \notin DOMAIN matches \union DOMAIN task[r].made
    /\ Goto(r, "inserting")
    /\ UNCHANGED <<rows, locks, out, task>>

\* The unique index makes an insert wait for another of the same key, and
\* refuses it when that one has committed.
InsertMatch(r) ==
    LET c == NextCandidate(r)
        match == [run |-> r, rule |-> c.rule, a |-> c.a, b |-> c.b]
    IN  /\ pc[r] = "inserting"
        /\ \A q \in Run \ {r} : pc[q] # "done" => KeyOf(r) \notin DOMAIN task[q].made
        /\ IF KeyOf(r) \in DOMAIN matches
           THEN /\ task' = [task EXCEPT ![r] = NoTask]
                /\ Release(r)
                /\ Answer(r, "error")
           ELSE /\ task' = [task EXCEPT
                              ![r].todo = @ \ {c},
                              ![r].made = [k \in DOMAIN @ \union {KeyOf(r)} |->
                                             IF k = KeyOf(r) THEN match ELSE @[k]]]
                /\ Goto(r, "checking")
                /\ UNCHANGED <<locks, out>>
        /\ UNCHANGED rows

CommitRun(r) ==
    LET made == DOMAIN task[r].made
        created == [k \in 1..Cardinality(made) |-> [action |-> "FINDING_CREATED", by |-> r]]
    IN  /\ pc[r] = "checking" /\ task[r].todo = {}
        /\ matches' = [k \in DOMAIN matches \union made |->
                          IF k \in made THEN task[r].made[k] ELSE matches[k]]
        /\ findings' = [k \in DOMAIN findings \union made |->
                           IF k \in made THEN "OPEN" ELSE findings[k]]
        /\ runs' = [q \in DOMAIN runs \union {r} |->
                       IF q = r
                       THEN [events |-> Cardinality(DOMAIN task[r].read),
                             matched |-> Cardinality(made), found |-> Cardinality(made),
                             warnings |-> RegistryWarnings]
                       ELSE runs[q]]
        /\ audit' = audit \o created
                    \o <<[action |-> "CORRELATION_RUN", by |-> r]>>
        /\ Release(r)
        /\ Goto(r, "committed")
        /\ UNCHANGED <<events, out, task>>

-----------------------------------------------------------------------------
\* Reviews

\* Seeded fault: the finding is read without FOR UPDATE.
ReadFinding(u) ==
    /\ pc[u] = "idle"
    /\ \E f \in DOMAIN findings, s \in Statuses \union {None} :
          task' = [task EXCEPT ![u].finding = f, ![u].seen = findings[f], ![u].status = s]
    /\ Goto(u, "review")
    /\ UNCHANGED <<rows, locks, out>>

LockFinding(u) ==
    /\ pc[u] = "idle"
    /\ \E f \in DOMAIN findings, s \in Statuses \union {None} :
          /\ \A l \in findingLock : l[1] # f
          /\ findingLock' = findingLock \union {<<f, u>>}
          /\ task' = [task EXCEPT ![u].finding = f, ![u].seen = findings[f], ![u].status = s]
    /\ Goto(u, "review")
    /\ UNCHANGED <<rows, lock, share, out>>

ReviewNotFound(u) ==
    /\ pc[u] = "idle"
    /\ Answer(u, "not_found")
    /\ UNCHANGED <<rows, locks, task>>

Moves(u) == task[u].status # None /\ task[u].status # task[u].seen

RejectReview(u) ==
    /\ pc[u] = "review"
    /\ Moves(u) /\ task[u].status \notin ValidTransitions(task[u].seen)
    /\ Release(u)
    /\ Answer(u, "conflict")
    /\ UNCHANGED <<rows, task>>

\* FINDING_UPDATED, and FINDING_STATUS_CHANGED if it did; the entries wait for
\* the case row.
CommitReview(u) ==
    LET f == task[u].finding
        updated == [action |-> "FINDING_UPDATED", by |-> u]
        changed == [action |-> "FINDING_STATUS_CHANGED", by |-> u, finding |-> f,
                    from |-> task[u].seen, to |-> task[u].status]
    IN  /\ pc[u] = "review"
        /\ Moves(u) => task[u].status \in ValidTransitions(task[u].seen)
        /\ lock = Nobody
        /\ findings' = IF Moves(u) THEN [findings EXCEPT ![f] = task[u].status] ELSE findings
        /\ audit' = audit \o <<updated>> \o (IF Moves(u) THEN <<changed>> ELSE <<>>)
        /\ Release(u)
        /\ Goto(u, "committed")
        /\ UNCHANGED <<events, matches, runs, out, task>>

-----------------------------------------------------------------------------
\* Both end with a read outside the transaction, in the same try block.

Reread(r) ==
    /\ pc[r] = "committed"
    /\ Answer(r, "ok")
    /\ UNCHANGED <<rows, locks, task>>

\* A statement or the commit fails; after the commit nothing is taken back.
Fault(r) ==
    /\ Faults
    /\ pc[r] \notin {"idle", "done"}
    /\ task' = [task EXCEPT ![r] = NoTask]
    /\ Release(r)
    /\ Answer(r, "fault")
    /\ UNCHANGED rows

-----------------------------------------------------------------------------
\* Timeline generations

\* Inserting an event takes KEY SHARE on the case; if there is none to insert,
\* the audit entry takes it at the end.
WriteEvents(g) ==
    /\ pc[g] = "idle"
    /\ \E S \in SUBSET Sources :
          LET new == UNION S \ DOMAIN events
          IN  /\ new # {} => lock = Nobody
              /\ share' = IF new = {} THEN share ELSE share \union {g}
              /\ task' = [task EXCEPT ![g].new = new]
    /\ Goto(g, "writing")
    /\ UNCHANGED <<rows, lock, findingLock, out>>

CommitEvents(g) ==
    /\ pc[g] = "writing"
    /\ lock = Nobody
    /\ events' = [e \in DOMAIN events \union task[g].new |-> Given[e]]
    /\ audit' = Append(audit, [action |-> "TIMELINE_GENERATED", by |-> g])
    /\ Release(g)
    /\ Goto(g, "committed")
    /\ UNCHANGED <<matches, findings, runs, out, task>>

Quiet == (\A r \in Requests : pc[r] = "done") /\ UNCHANGED findingsVars

FindingsNext ==
    \/ \E r \in Run :
          \/ RunNotFound(r) \/ LockCase(r) \/ Evaluate(r) \/ SkipExisting(r)
          \/ FindNone(r) \/ InsertMatch(r) \/ CommitRun(r)
    \/ \E u \in Review :
          LockFinding(u) \/ ReviewNotFound(u) \/ RejectReview(u) \/ CommitReview(u)
    \/ \E r \in Requests : Reread(r) \/ Fault(r)
    \/ \E g \in Generation : WriteEvents(g) \/ CommitEvents(g)
    \/ Quiet

FindingsSpec == FindingsInit /\ [][FindingsNext]_findingsVars

-----------------------------------------------------------------------------
\* Properties

\* The rows fit together: every match has its run and one finding, the
\* counters of all runs on record add up to the matches there are, and no two
\* matches are about the same rule and pair of events, however often and with
\* whatever windows the rules are run (README.md, "without duplicating the
\* same versioned logical match or finding").
FindingsConsistent ==
    /\ DOMAIN findings = DOMAIN matches
    /\ \A k \in DOMAIN matches : matches[k].run \in DOMAIN runs
    /\ \A k \in DOMAIN findings : findings[k] \in Statuses
    /\ \A r \in DOMAIN runs :
          runs[r].matched = Cardinality({k \in DOMAIN matches : matches[k].run = r})
    /\ \A j, k \in DOMAIN matches :
          /\ matches[j].rule = matches[k].rule
          /\ {matches[j].a, matches[j].b} = {matches[k].a, matches[k].b}
          => j = k

\* The unique keys are never hit: the row lock serializes the runs of a case,
\* so that none of them fails because another created the same match
\* (correlation_service.py, the check before each insert).
RunsNeverCollide == \A r \in Run : out[r] # "error"

\* Two events that share a name and are at most window apart in time, unless
\* the second is a link whose full path is another than that of the process.
Related(a, b, window) ==
    /\ a.type = "EVTX" /\ a.process /\ b.type \in {"PREFETCH", "LNK", "NTFS"}
    /\ a.time # None /\ b.time # None
    /\ a.time \in (b.time - window)..(b.time + window)
    /\ Name(a.name) # None
    /\ Name(a.name) = IF b.type = "LNK" THEN Basename(b.path) ELSE Name(b.name)
    /\ b.type = "LNK" =>
          \/ None \in {FullPath(a.path), FullPath(b.path)}
          \/ FullPath(a.path) = FullPath(b.path)

\* When a run is on record, exactly the related pairs among the events that
\* are committed at that moment have a match if they are in its window, its
\* ends included, whatever generation added or enriched events beside it.
RunMissesNothing ==
    [][\A r \in Run : r \in DOMAIN runs' \ DOMAIN runs =>
         /\ \A a, b \in DOMAIN events : Related(events[a], events[b], task[r].window) =>
               \E k \in DOMAIN matches' : matches'[k].a = a /\ matches'[k].b = b
         /\ \A k \in DOMAIN matches' \ DOMAIN matches :
               Related(events[matches'[k].a], events[matches'[k].b], task[r].window)
      ]_findingsVars

\* The review of findings as the rows and the audit trail tell it.
Changes == {i \in DOMAIN audit : audit[i].action = "FINDING_STATUS_CHANGED"}

Moved(i) == [finding |-> audit[i].finding, from |-> audit[i].from, to |-> audit[i].to]

ReviewLog == INSTANCE FindingReview WITH
    status  <- findings,
    history <- [i \in Changes |-> Moved(i)]

\* Concurrent reviews and runs, whichever fail, move findings only along the
\* transitions of the review, and the audit trail tells every move from the
\* status it left to the status it reached.
ImplementsReview == ReviewLog!Spec

=============================================================================
