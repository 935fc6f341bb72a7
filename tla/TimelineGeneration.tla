--------------------------- MODULE TimelineGeneration ---------------------------
(***************************************************************************)
(* services/parser_execution_service.py and services/timeline_service.py:  *)
(* parser executions that store artifacts, generations that turn their     *)
(* records into timeline events, and reads of the timeline, all about one  *)
(* case and each in a transaction of its own (READ COMMITTED).             *)
(*                                                                         *)
(* An event is <<a, i, k>>: the k-th event of record i of artifact a.  The *)
(* database tells events apart by record and logical identity instead;     *)
(* that is the same, by EveryTimestampIsOneEvent of ForensicParsers.       *)
(* Executions are numbered, and give their artifacts their identities.     *)
(***************************************************************************)
EXTENDS TimelineNormalizer

CONSTANTS
    Execution,  \* requests that parse evidence, positive numbers
    Generation, \* requests that generate the timeline
    Reader,     \* requests that list it
    Outcomes,   \* what parsers return: [format, outcome]
    Earlier,    \* an artifact stored before the behaviour starts: 0
    Filters,    \* the filters of the readers: [format, from, to]
    Offsets, Limits, \* bounds: the pages asked for
    MaxRows,    \* bound: the events one INSERT can hold
    Faults      \* whether transactions may fail

\* Requests of different kinds are different requests, and the identities of
\* artifacts are ordered, that of the earlier one first.
ASSUME RequestsAssumption ==
    /\ Execution \subseteq Nat \ {0}
    /\ Execution \intersect Generation = {}
    /\ Execution \intersect Reader = {}
    /\ Generation \intersect Reader = {}

\* What was stored earlier has finitely many records, of finitely many events.
ASSUME EarlierAssumption ==
    /\ IsFiniteSet(DOMAIN Earlier.records)
    /\ \A i \in DOMAIN Earlier.records :
          IsFiniteSet(DOMAIN Normalize(Earlier.format, Earlier.records[i]).events)

\* Pages are described by natural numbers.
ASSUME PagesAssumption == Offsets \subseteq Nat /\ Limits \subseteq Nat

VARIABLES
    artifacts,  \* committed artifacts with their records
    timeline,   \* committed events: [event -> [time, identity]]
    audit,      \* committed audit entries
    pc, out,
    job,        \* what an execution is about to store
    tx,         \* what a generation has read and written
    page        \* what a reader got

dataVars == <<artifacts, timeline, audit>>
timelineVars == <<artifacts, timeline, audit, pc, out, job, tx, page>>

Requests == Execution \union Generation \union Reader

NormalEvents(a, i) == Normalize(artifacts[a].format, artifacts[a].records[i]).events

RecordsOf(a) == {<<a, i>> : i \in DOMAIN artifacts[a].records}

EventsOfRecord(r) == {<<r[1], r[2], k>> : k \in DOMAIN NormalEvents(r[1], r[2])}

EventsOf(records) == UNION {EventsOfRecord(r) : r \in records}

TimeOf(e) == NormalEvents(e[1], e[2])[e[3]].time

\* extract_evtx_process_identity of the record of an event.
IdentityOf(e) ==
    IF artifacts[e[1]].format # "EVTX" THEN None
    ELSE ProcessIdentity(artifacts[e[1]].records[e[2]])

Before(d, e) ==
    \/ d[1] < e[1]
    \/ d[1] = e[1] /\ d[2] < e[2]
    \/ d[1] = e[1] /\ d[2] = e[2] /\ d[3] < e[3]

\* ORDER BY artifact, record: the next of the events in S, if there is one.
Earliest(S) == {e \in S : \A d \in S \ {e} : Before(e, d)}

NoTx == [artifacts |-> {}, records |-> {}, todo |-> {}, inserted |-> {}, enriched |-> {}]

TimelineInit ==
    /\ artifacts = [a \in {0} |-> Earlier]
    /\ timeline \in {<<>>, [e \in EventsOf(RecordsOf(0)) |->
                              [time |-> TimeOf(e), identity |-> None]]}
    /\ audit = <<>>
    /\ pc = [r \in Requests |-> "idle"]
    /\ out = [r \in Requests |-> "none"]
    /\ job = [e \in Execution |-> Earlier]
    /\ tx = [g \in Generation |-> NoTx]
    /\ page = [r \in Reader |-> [rows |-> 0, offset |-> 0, total |-> 0, filter |-> None]]

Goto(r, p) == pc' = [pc EXCEPT ![r] = p]

Answer(r, a) == Goto(r, "done") /\ out' = [out EXCEPT ![r] = a]

-----------------------------------------------------------------------------
\* Parser executions

\* No such evidence, no acquisition hash, no stored file, no parser.
Refuse(e) ==
    /\ pc[e] = "idle"
    /\ Answer(e, "refused")
    /\ UNCHANGED <<dataVars, job, tx, page>>

\* Seeded fault: what the parser returned is stored as it is.
ExecuteUnvalidated(e) ==
    /\ pc[e] = "idle"
    /\ \E o \in {x \in Outcomes : x.outcome # None} :
          job' = [job EXCEPT ![e] =
                    [format |-> o.format, status |-> o.outcome.status,
                     records |-> o.outcome.records, warnings |-> o.outcome.warnings,
                     errors |-> o.outcome.errors]]
    /\ Goto(e, "parsed")
    /\ UNCHANGED <<dataVars, out, tx, page>>

\* The parser has run on the stored file, its result has been validated.
Execute(e) ==
    /\ pc[e] = "idle"
    /\ \E o \in Outcomes :
          LET result == Validated(o.outcome)
          IN  job' = [job EXCEPT ![e] =
                         [format |-> o.format, status |-> result.status,
                          records |-> result.records, warnings |-> result.warnings,
                          errors |-> result.errors]]
    /\ Goto(e, "parsed")
    /\ UNCHANGED <<dataVars, out, tx, page>>

\* Seeded fault: a new execution replaces the artifacts of the same type.
ReplaceResult(e) ==
    /\ pc[e] = "parsed"
    /\ artifacts' =
          [a \in {e} \union {b \in DOMAIN artifacts :
                               artifacts[b].format # job[e].format} |->
              IF a = e THEN job[e] ELSE artifacts[a]]
    /\ audit' = Append(audit, [action |-> "PARSER_EXECUTED", by |-> e,
                               records |-> Len(job[e].records)])
    /\ Answer(e, "ok")
    /\ UNCHANGED <<timeline, job, tx, page>>

\* _persist_result: artifact, records and audit entry become visible together.
PersistResult(e) ==
    /\ pc[e] = "parsed"
    /\ artifacts' = [a \in DOMAIN artifacts \union {e} |->
                       IF a = e THEN job[e] ELSE artifacts[a]]
    /\ audit' = Append(audit, [action |-> "PARSER_EXECUTED", by |-> e,
                               records |-> Len(job[e].records)])
    /\ Answer(e, "ok")
    /\ UNCHANGED <<timeline, job, tx, page>>

-----------------------------------------------------------------------------
\* Generations

ReadArtifacts(g) ==
    /\ pc[g] = "idle"
    /\ tx' = [tx EXCEPT ![g].artifacts = DOMAIN artifacts]
    /\ Goto(g, "artifacts")
    /\ UNCHANGED <<dataVars, out, job, page>>

CommittedRecords == UNION {RecordsOf(a) : a \in DOMAIN artifacts}

\* The second SELECT has a snapshot of its own.
ReadRecords(g) ==
    /\ pc[g] = "artifacts"
    /\ \A r \in CommittedRecords : r[1] \in tx[g].artifacts
    /\ tx' = [tx EXCEPT ![g].records = CommittedRecords,
                        ![g].todo = EventsOf(CommittedRecords)]
    /\ Goto(g, "inserting")
    /\ UNCHANGED <<dataVars, out, job, page>>

\* artifacts_by_id[record.artifact_id] raises a KeyError nobody catches.
ReadUnknownRecord(g) ==
    /\ pc[g] = "artifacts"
    /\ \E r \in CommittedRecords : r[1] \notin tx[g].artifacts
    /\ tx' = [tx EXCEPT ![g] = NoTx]
    /\ Answer(g, "error")
    /\ UNCHANGED <<dataVars, job, page>>

\* More rows than one statement has parameters for.
RejectStatement(g) ==
    /\ pc[g] = "inserting"
    /\ Cardinality(EventsOf(tx[g].records)) > MaxRows
    /\ tx' = [tx EXCEPT ![g] = NoTx]
    /\ Answer(g, "error")
    /\ UNCHANGED <<dataVars, job, page>>

\* Seeded fault: an event another transaction is inserting counts as present.
InsertNextNoWait(g) ==
    /\ pc[g] = "inserting"
    /\ Cardinality(EventsOf(tx[g].records)) <= MaxRows
    /\ \E e \in Earliest(tx[g].todo) :
          tx' = [tx EXCEPT
                   ![g].todo = @ \ {e},
                   ![g].inserted = IF \/ e \in DOMAIN timeline
                                      \/ \E h \in Generation \ {g} : e \in tx[h].inserted
                                   THEN @ ELSE @ \union {e}]
    /\ UNCHANGED <<dataVars, pc, out, job, page>>

\* INSERT ... ON CONFLICT DO NOTHING, row by row: waits for a transaction that
\* has inserted the same event and not ended yet.
InsertNext(g) ==
    /\ pc[g] = "inserting"
    /\ Cardinality(EventsOf(tx[g].records)) <= MaxRows
    /\ \E e \in Earliest(tx[g].todo) :
           /\ \A h \in Generation \ {g} : pc[h] # "done" => e \notin tx[h].inserted
           /\ tx' = [tx EXCEPT
                       ![g].todo = @ \ {e},
                       ![g].inserted = IF e \in DOMAIN timeline THEN @ ELSE @ \union {e}]
    /\ UNCHANGED <<dataVars, pc, out, job, page>>

\* _backfill_evtx_process_identity, its SELECT: events without the identity
\* their record gives.
ReadUnidentified(g) ==
    /\ pc[g] = "inserting" /\ tx[g].todo = {}
    /\ tx' = [tx EXCEPT ![g].todo =
                {e \in DOMAIN timeline :
                    IdentityOf(e) # None /\ timeline[e].identity # IdentityOf(e)}]
    /\ Goto(g, "enriching")
    /\ UNCHANGED <<dataVars, out, job, page>>

\* Its UPDATEs, flushed in one order: each waits for the row.
EnrichNext(g) ==
    /\ pc[g] = "enriching"
    /\ \E e \in Earliest(tx[g].todo) :
           /\ \A h \in Generation \ {g} : pc[h] # "done" => e \notin tx[h].enriched
           /\ tx' = [tx EXCEPT ![g].todo = @ \ {e}, ![g].enriched = @ \union {e}]
    /\ UNCHANGED <<dataVars, pc, out, job, page>>

\* Seeded fault: every value counts as created.
CountValues(g) == Cardinality(EventsOf(tx[g].records))

\* The rows RETURNING gave.
Created(g) == Cardinality(tx[g].inserted)

Skipped(g) ==
    Cardinality(EventsOf(tx[g].records)) - Created(g)
    + Cardinality({r \in tx[g].records : EventsOfRecord(r) = {}})

\* The commit, with its audit entry; its acknowledgement may be lost.
CommitGeneration(g) ==
    /\ pc[g] = "enriching" /\ tx[g].todo = {}
    /\ timeline' = [e \in DOMAIN timeline \union tx[g].inserted |->
                       IF e \in tx[g].inserted
                       THEN [time |-> TimeOf(e), identity |-> IdentityOf(e)]
                       ELSE IF e \in tx[g].enriched
                       THEN [timeline[e] EXCEPT !.identity = IdentityOf(e)]
                       ELSE timeline[e]]
    /\ audit' = Append(audit, [action |-> "TIMELINE_GENERATED", by |-> g,
                               records |-> Cardinality(tx[g].records),
                               created |-> Created(g), skipped |-> Skipped(g)])
    /\ Answer(g, "ok") \/ (Faults /\ Answer(g, "fault"))
    /\ UNCHANGED <<artifacts, job, tx, page>>

-----------------------------------------------------------------------------
\* Reads of the timeline

\* _validate_range
ValidRange(f) == f.from # None /\ f.to # None => f.from <= f.to

\* _filters: a bound on the time leaves out the events that have none.
Matching(f) ==
    {e \in DOMAIN timeline :
        /\ f.from # None => timeline[e].time # None /\ timeline[e].time >= f.from
        /\ f.to # None => timeline[e].time # None /\ timeline[e].time <= f.to
        /\ f.format # None => artifacts[e[1]].format = f.format}

\* Seeded fault: events without a time are not counted.
CountedDated(f) == Cardinality({e \in Matching(f) : timeline[e].time # None})

Counted(f) == Cardinality(Matching(f))

RejectRange(r) ==
    /\ pc[r] = "idle"
    /\ \E f \in Filters : ~ValidRange(f)
    /\ Answer(r, "bad_request")
    /\ UNCHANGED <<dataVars, job, tx, page>>

\* list_events: the rows of one page, then, in a second statement, the total.
ReadPage(r) ==
    /\ pc[r] = "idle"
    /\ \E f \in Filters, offset \in Offsets, limit \in Limits :
          /\ ValidRange(f)
          /\ page' = [page EXCEPT ![r] =
                [rows |-> Min({limit, Max({0, Cardinality(Matching(f)) - offset})}),
                 offset |-> offset, total |-> 0, filter |-> f]]
    /\ Goto(r, "page")
    /\ UNCHANGED <<dataVars, out, job, tx>>

CountPage(r) ==
    /\ pc[r] = "page"
    /\ page' = [page EXCEPT ![r].total = Counted(page[r].filter)]
    /\ Answer(r, "ok")
    /\ UNCHANGED <<dataVars, job, tx>>

-----------------------------------------------------------------------------
\* Faults and the specification

\* A statement or the commit fails, or the process dies with the request:
\* PostgreSQL rolls back.  "fault" stands for the error, or no answer at all.
Fault(r) ==
    /\ Faults
    /\ pc[r] \in {"parsed", "artifacts", "inserting", "enriching", "page"}
    /\ tx' = [g \in Generation |-> IF g = r THEN NoTx ELSE tx[g]]
    /\ Answer(r, "fault")
    /\ UNCHANGED <<dataVars, job, page>>

Quiet == (\A r \in Requests : pc[r] = "done") /\ UNCHANGED timelineVars

TimelineNext ==
    \/ \E e \in Execution : Refuse(e) \/ Execute(e) \/ PersistResult(e)
    \/ \E g \in Generation :
          \/ ReadArtifacts(g) \/ ReadRecords(g) \/ ReadUnknownRecord(g)
          \/ RejectStatement(g) \/ InsertNext(g)
          \/ ReadUnidentified(g) \/ EnrichNext(g) \/ CommitGeneration(g)
    \/ \E r \in Reader : RejectRange(r) \/ ReadPage(r) \/ CountPage(r)
    \/ \E r \in Requests : Fault(r)
    \/ Quiet

TimelineSpec == TimelineInit /\ [][TimelineNext]_timelineVars

-----------------------------------------------------------------------------
\* Properties

\* Stored artifacts have a final status and meet the contract of parser
\* results whatever the parsers return, every event has the record it came
\* from, and the requests are where their handlers can be.
TimelineTypeOK ==
    /\ DOMAIN artifacts \subseteq {0} \union Execution
    /\ \A a \in DOMAIN artifacts \ {0} : MeetsContract(artifacts[a])
    /\ DOMAIN timeline \subseteq EventsOf(CommittedRecords)
    /\ \A e \in DOMAIN timeline : timeline[e].time = TimeOf(e)
    /\ pc \in [Requests -> {"idle", "parsed", "artifacts", "inserting", "enriching",
                            "page", "done"}]
    /\ \A g \in Generation : tx[g].artifacts \subseteq DOMAIN artifacts

GenerationEntries(g) ==
    {i \in DOMAIN audit : audit[i].action = "TIMELINE_GENERATED" /\ audit[i].by = g}

\* A generation that is on record has left every event of the records it read
\* in the timeline, with the process its record names, although it skips what
\* others insert at the same time and may roll back
\* (timeline_service.py, generate).
GenerationIsComplete ==
    \A g \in Generation : GenerationEntries(g) # {} =>
        \A e \in EventsOf(tx[g].records) :
            e \in DOMAIN timeline /\ timeline[e].identity = IdentityOf(e)

\* The events that generations on record have inserted.
Generated ==
    UNION {tx[g].inserted : g \in {h \in Generation : GenerationEntries(h) # {}}}

\* The creations the audit trail counts, entry by entry: as many as the sum of
\* the numbers it gives.
CountedCreations ==
    UNION {{i} \X (1..audit[i].created) :
              i \in {j \in DOMAIN audit : audit[j].action = "TIMELINE_GENERATED"}}

\* The numbers in the audit trail add up: over all generations on record, the
\* events they say they created are those that are new in the timeline, each
\* counted by one of them, although they compete for the same events.
AuditedCountsAddUp ==
    /\ Cardinality(CountedCreations) = Cardinality(Generated)
    /\ \A e \in DOMAIN timeline \ Generated : e[1] = 0

\* A page of the timeline is never longer than the total given with it says,
\* although the two are read by two statements.
PageWithinTotal ==
    \A r \in Reader :
        out[r] = "ok" /\ page[r].rows > 0 => page[r].offset + page[r].rows <= page[r].total

\* docs/development.md, "records TIMELINE_GENERATED": a generation that met no
\* fault is on record.
UnfaultedGenerationIsRecorded ==
    \A g \in Generation : pc[g] = "done" /\ out[g] # "fault" => GenerationEntries(g) # {}

\* The sources and observations of the abstract timeline.
Log == INSTANCE TimelineLog WITH
          given <- [a \in DOMAIN artifacts |-> [e \in EventsOf(RecordsOf(a)) |-> TimeOf(e)]],
          log   <- [e \in DOMAIN timeline |-> timeline[e].time]

\* Generations, whatever runs beside them and fails, change the timeline only
\* by adding all the missing events of whole artifacts in one step.
ImplementsTimeline == Log!Spec

=============================================================================
