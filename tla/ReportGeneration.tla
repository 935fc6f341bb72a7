---------------------------- MODULE ReportGeneration ----------------------------
(***************************************************************************)
(* services/report_service.py and reporting/storage.py: reports about one  *)
(* case and their downloads, beside the requests of all other services     *)
(* that change what a report shows.                                        *)
(*                                                                         *)
(* A report holds the case row FOR UPDATE from its first statement to its  *)
(* commit and reads its sections by one statement each (READ COMMITTED).   *)
(* Every other request writes an audit entry, whose foreign key takes the  *)
(* case row FOR KEY SHARE, before it commits.  Its writes are one step, its *)
(* commit; what it locks earlier only makes reports wait longer.           *)
(***************************************************************************)
EXTENDS ReportSnapshot

CONSTANTS
    Reporter,    \* requests that generate a report; also their reports
    Writer,      \* requests of the other services
    Download,    \* requests for the file of a report
    Nobody,
    Types,       \* artifact types
    FirstType,   \* the type of the artifact there is at the start
    Formats,     \* report formats, "json" among them
    Faults       \* whether statements, writes and commits may fail

\* Requests of different kinds are different requests.
ASSUME RequestsAssumption ==
    /\ Reporter \intersect Writer = {}
    /\ Reporter \intersect Download = {}
    /\ Writer \intersect Download = {}
    /\ Nobody \notin Reporter \union Writer \union Download

VARIABLES
    clock,
    rows,        \* committed rows but the audit trail
    trail,       \* committed audit entries: [action, at, by]
    reports,     \* committed reports with their artifact row
    files,       \* report storage: [<<report, file name>> -> content]
    lock,        \* the report that holds the case FOR UPDATE
    pc, out,
    draft,       \* what a report has read, and its snapshot
    request,     \* what a writer does, and when its transaction began
    served,      \* the report a download asked for, and what was delivered
    history      \* history: changed, the reports whose file was changed from
                 \* outside and the downloads for which that was after their
                 \* check; refused, the reports whose clean-up failed

reportVars == <<clock, rows, trail, reports, files, lock, pc, out, draft, request, served,
                history>>

Requests == Reporter \union Writer \union Download

NoDraft == [format |-> None, at |-> 0, next |-> 1, read |-> <<>>, snapshot |-> None]

Sections == <<"evidence", "hashes", "artifacts", "timeline", "runs", "findings", "audits">>

\* What timeline generation makes of artifacts: one event of each.
EventsOf(artifacts) ==
    {[artifact |-> a.id, type |-> a.type,
      time |-> IF a.type = "REGISTRY" THEN None ELSE 0] : a \in artifacts}

Entry(action, at, by) == [action |-> action, at |-> at, by |-> by]

\* A case with one piece of evidence, parsed and in the timeline.
ReportInit ==
    /\ clock = 0
    /\ LET parsed == {[id |-> Nobody, evidence |-> 1, type |-> FirstType]} IN
          rows = [status |-> "OPEN", evidence |-> {1},
                  hashes |-> {[evidence |-> 1, purpose |-> "ACQUISITION",
                               digest |-> "good", at |-> 0, by |-> Nobody]},
                  custody |-> {[evidence |-> 1, at |-> 0]},
                  artifacts |-> parsed, timeline |-> EventsOf(parsed), runs |-> {}, findings |-> {}]
    /\ trail = <<Entry("CASE_CREATED", 0, Nobody), Entry("EVIDENCE_REGISTERED", 0, Nobody),
                 Entry("PARSER_EXECUTED", 0, Nobody), Entry("TIMELINE_GENERATED", 0, Nobody)>>
    /\ reports = <<>> /\ files = <<>>
    /\ lock = Nobody
    /\ pc = [r \in Requests |-> "idle"]
    /\ out = [r \in Requests |-> "none"]
    /\ draft = [r \in Reporter |-> NoDraft]
    /\ request = [w \in Writer |-> [op |-> "none", at |-> 0]]
    /\ served = [d \in Download |-> [report |-> Nobody, content |-> None]]
    /\ history = [changed |-> {}, refused |-> {}]

Goto(r, p) == pc' = [pc EXCEPT ![r] = p]

Answer(r, a) == Goto(r, "done") /\ out' = [out EXCEPT ![r] = a]

Release(r) == lock' = IF lock = r THEN Nobody ELSE lock

-----------------------------------------------------------------------------
\* Reports

ReportNotFound(r) ==
    /\ pc[r] = "idle"
    /\ Answer(r, "not_found")
    /\ UNCHANGED <<clock, rows, trail, reports, files, lock, draft, request, served, history>>

\* The case as the first statement returns it; generated_at is taken then.
StartDraft(r) ==
    /\ pc[r] = "idle"
    /\ \E f \in Formats :
          draft' = [draft EXCEPT
             ![r] = [format |-> f, at |-> clock, next |-> 1,
                     read |-> [status |-> rows.status], snapshot |-> None]]
    /\ Goto(r, "reading")

\* Seeded fault: the case is read without FOR UPDATE.
ReadCase(r) ==
    /\ StartDraft(r)
    /\ UNCHANGED <<clock, rows, trail, reports, files, lock, out, request, served, history>>

LockCase(r) ==
    /\ lock = Nobody
    /\ lock' = r
    /\ StartDraft(r)
    /\ UNCHANGED <<clock, rows, trail, reports, files, out, request, served, history>>

OwnEntry(r) == Entry("REPORT_GENERATED", draft[r].at, r)

\* The database with a selection of its audit entries.
Database(audits) ==
    [x \in DOMAIN rows \union {"audits"} |-> IF x = "audits" THEN audits ELSE rows[x]]

\* What the statements of each section return: the builder asks for the
\* artifacts of the evidence it has listed, and a report sees its own entry.
Returned(r, x) ==
    IF x = "artifacts" THEN {a \in rows.artifacts : a.evidence \in draft[r].read.evidence}
    ELSE Database(SelectAudits(Append(trail, OwnEntry(r))))[x]

FieldsOf(section) == IF section = "hashes" THEN {"hashes", "custody"} ELSE {section}

ReadSection(r) ==
    LET found == FieldsOf(Sections[draft[r].next])
    IN  /\ pc[r] = "reading" /\ draft[r].next <= Len(Sections)
        /\ draft' = [draft EXCEPT
              ![r].next = @ + 1,
              ![r].read = [x \in DOMAIN @ \union found |->
                              IF x \in found THEN Returned(r, x) ELSE @[x]]]
        /\ UNCHANGED <<clock, rows, trail, reports, files, lock, pc, out, request, served, history>>

\* The rendering of a snapshot is a function of the snapshot.
Rendered(f, snapshot) == [format |-> f, snapshot |-> snapshot]

SnapshotPath(r) == <<r, "snapshot.json">>

OutputPath(r) == <<r, IF draft[r].format = "json" THEN "snapshot.json" ELSE "report">>

FilesOf(r) == {p \in DOMAIN files : p[1] = r}

Stored(path, content) ==
    [p \in DOMAIN files \union {path} |-> IF p = path THEN content ELSE files[p]]

\* The snapshot is built and rendered, then written: first under a name of its
\* own, which is then renamed.
WriteSnapshot(r) ==
    LET snapshot == Snapshot(draft[r].read)
    IN  /\ pc[r] = "reading" /\ draft[r].next > Len(Sections)
        /\ SnapshotPath(r) \notin DOMAIN files
        /\ files' = Stored(SnapshotPath(r), Rendered("json", snapshot))
        /\ draft' = [draft EXCEPT ![r].snapshot = snapshot]
        /\ Goto(r, IF draft[r].format = "json" THEN "written" ELSE "writing")
        /\ UNCHANGED <<clock, rows, trail, reports, lock, out, request, served, history>>

WriteOutput(r) ==
    /\ pc[r] = "writing"
    /\ OutputPath(r) \notin DOMAIN files
    /\ files' = Stored(OutputPath(r), Rendered(draft[r].format, draft[r].snapshot))
    /\ Goto(r, "written")
    /\ UNCHANGED <<clock, rows, trail, reports, lock, out, draft, request, served, history>>

CommitReport(r) ==
    /\ pc[r] = "written"
    /\ reports' = [q \in DOMAIN reports \union {r} |->
          IF q = r
          THEN [at |-> draft[r].at, snapshot |-> draft[r].snapshot, path |-> OutputPath(r),
                hash |-> Rendered(draft[r].format, draft[r].snapshot)]
          ELSE reports[q]]
    /\ trail' = Append(trail, OwnEntry(r))
    /\ Release(r)
    /\ Goto(r, "committed")
    /\ UNCHANGED <<clock, rows, files, out, draft, request, served, history>>

\* self.get in a new transaction.
GetReport(r) ==
    /\ pc[r] = "committed"
    /\ Answer(r, "ok")
    /\ UNCHANGED <<clock, rows, trail, reports, files, lock, draft, request, served, history>>

\* Seeded fault: only the sidecar is removed.
CleanupSnapshot(r) ==
    /\ files' = [p \in DOMAIN files \ {SnapshotPath(r)} |-> files[p]]
    /\ UNCHANGED history

\* cleanup_operation: the files in written, the sidecar first.  An unlink that
\* raises keeps its file and those after it.  A write that failed has removed
\* its temporary file itself.
CleanupOperation(r) ==
    \E kept \in SUBSET FilesOf(r) :
        /\ SnapshotPath(r) \in kept => kept = FilesOf(r)
        /\ files' = [p \in (DOMAIN files \ FilesOf(r)) \union kept |-> files[p]]
        /\ history' = IF kept = {} THEN history
                      ELSE [history EXCEPT !.refused = @ \union {r}]

\* A statement, a write, the commit or the read after it fails: one except
\* clause for all, which also runs when the commit has taken effect.  The
\* answer is an error, whether or not the clean-up works.
FailReport(r) ==
    /\ Faults
    /\ pc[r] \in {"reading", "writing", "written", "committed"}
    /\ CleanupOperation(r)
    /\ Release(r)
    /\ Answer(r, "error")
    /\ UNCHANGED <<clock, rows, trail, reports, draft, request, served>>

-----------------------------------------------------------------------------
\* Downloads

DownloadNotFound(d) ==
    /\ pc[d] = "idle"
    /\ Answer(d, "not_found")
    /\ UNCHANGED <<clock, rows, trail, reports, files, lock, draft, request, served, history>>

Served(d, r, content) ==
    served' = [served EXCEPT ![d] = [report |-> r, content |-> content]]

DownloadUnavailable(d) ==
    /\ pc[d] = "idle"
    /\ \E r \in DOMAIN reports :
          /\ reports[r].path \notin DOMAIN files
          /\ Served(d, r, None)
    /\ Answer(d, "error")
    /\ UNCHANGED <<clock, rows, trail, reports, files, lock, draft, request, history>>

DownloadCorrupt(d) ==
    /\ pc[d] = "idle"
    /\ \E r \in DOMAIN reports :
          /\ reports[r].path \in DOMAIN files
          /\ files[reports[r].path] # reports[r].hash
          /\ Served(d, r, None)
    /\ Answer(d, "error")
    /\ UNCHANGED <<clock, rows, trail, reports, files, lock, draft, request, history>>

\* Seeded fault: the hash is not compared.
CheckPathOnly(d) ==
    /\ pc[d] = "idle"
    /\ \E r \in DOMAIN reports :
          /\ reports[r].path \in DOMAIN files
          /\ Served(d, r, None)
    /\ Goto(d, "checked")
    /\ UNCHANGED <<clock, rows, trail, reports, files, lock, out, draft, request, history>>

\* download: the file has the recorded hash; its path is returned ...
CheckDownload(d) ==
    /\ pc[d] = "idle"
    /\ \E r \in DOMAIN reports :
          /\ reports[r].path \in DOMAIN files
          /\ files[reports[r].path] = reports[r].hash
          /\ Served(d, r, None)
    /\ Goto(d, "checked")
    /\ UNCHANGED <<clock, rows, trail, reports, files, lock, out, draft, request, history>>

\* ... and opened again by the route's FileResponse: what is there now is sent.
SendFile(d) ==
    LET r == served[d].report
    IN  /\ pc[d] = "checked"
        /\ reports[r].path \in DOMAIN files
        /\ Served(d, r, files[reports[r].path])
        /\ Answer(d, "ok")
        /\ UNCHANGED <<clock, rows, trail, reports, files, lock, draft, request, history>>

SendMissing(d) ==
    /\ pc[d] = "checked"
    /\ reports[served[d].report].path \notin DOMAIN files
    /\ Answer(d, "error")
    /\ UNCHANGED <<clock, rows, trail, reports, files, lock, draft, request, served, history>>

-----------------------------------------------------------------------------
\* The other services

Ops == {"update", "register", "verify", "parse", "timeline", "correlate", "review",
        "close", "archive"}

\* The transaction begins; its now() is the time of its audit entry.
BeginWrite(w) ==
    /\ pc[w] = "idle"
    /\ clock' \in {clock, clock + 1}
    /\ \E o \in Ops : request' = [request EXCEPT ![w] = [op |-> o, at |-> clock']]
    /\ Goto(w, "writing")
    /\ UNCHANGED <<rows, trail, reports, files, lock, out, draft, served, history>>

Reject(w) ==
    /\ pc[w] = "writing" /\ lock = Nobody
    /\ request[w].op = "register" => rows.status # "OPEN"
    /\ request[w].op = "close" => rows.status # "OPEN"
    /\ request[w].op = "archive" => rows.status # "CLOSED"
    /\ request[w].op = "review" => \A f \in rows.findings : f.status # "OPEN"
    /\ request[w].op \in {"register", "close", "archive", "review"}
    /\ Answer(w, "conflict")
    /\ UNCHANGED <<clock, rows, trail, reports, files, lock, draft, request, served, history>>

\* Its rows and its audit entries become visible.
Commit(w, op, actions) ==
    /\ pc[w] = "writing" /\ request[w].op = op
    /\ lock = Nobody
    /\ trail' = trail \o [i \in DOMAIN actions |-> Entry(actions[i], request[w].at, w)]
    /\ Answer(w, "ok")
    /\ UNCHANGED <<clock, reports, files, lock, draft, request, served, history>>

\* What a case update changes has no place in a relation of the snapshot.
UpdateCase(w) ==
    /\ Commit(w, "update", <<"CASE_UPDATED">>)
    /\ UNCHANGED rows

Hash(e, w, purpose, digest) ==
    [evidence |-> e, purpose |-> purpose, digest |-> digest, at |-> clock, by |-> w]

Register(w) ==
    /\ Commit(w, "register", <<"EVIDENCE_REGISTERED">>)
    /\ rows.status = "OPEN"
    /\ LET e == Cardinality(rows.evidence) + 1
       IN rows' = [rows EXCEPT !.evidence = @ \union {e},
                               !.hashes = @ \union {Hash(e, w, "ACQUISITION", "good")},
                               !.custody = @ \union {[evidence |-> e, at |-> clock]}]

Verify(w) ==
    /\ Commit(w, "verify", <<"EVIDENCE_VERIFIED">>)
    /\ \E e \in rows.evidence, d \in {"good", "bad"} :
          rows' = [rows EXCEPT !.hashes = @ \union {Hash(e, w, "VERIFICATION", d)}]

Parse(w) ==
    /\ Commit(w, "parse", <<"PARSER_EXECUTED">>)
    /\ \E e \in rows.evidence, t \in Types :
          rows' = [rows EXCEPT !.artifacts = @ \union {[id |-> w, evidence |-> e, type |-> t]}]

GenerateTimeline(w) ==
    /\ Commit(w, "timeline", <<"TIMELINE_GENERATED">>)
    /\ rows' = [rows EXCEPT !.timeline = EventsOf(rows.artifacts)]

\* Matches are by name where the events have no full path; runs warn of
\* registry events they cannot relate.
Correlate(w) ==
    /\ Commit(w, "correlate", (IF rows.timeline = {} THEN <<>> ELSE <<"FINDING_CREATED">>)
                               \o <<"CORRELATION_RUN">>)
    /\ rows' = [rows EXCEPT
          !.runs = @ \union
             {[id |-> w, events |-> rows.timeline,
               basis |-> IF \E e \in rows.timeline : e.type = "NTFS_MFT"
                         THEN "basename_match" ELSE "full_path_match",
               warned |-> \E e \in rows.timeline : e.type = "REGISTRY"]},
          !.findings = @ \union
             (IF rows.timeline = {} THEN {} ELSE {[run |-> w, status |-> "OPEN"]})]

ReviewFinding(w) ==
    /\ Commit(w, "review", <<"FINDING_UPDATED", "FINDING_STATUS_CHANGED">>)
    /\ \E f \in rows.findings :
          /\ f.status = "OPEN"
          /\ rows' = [rows EXCEPT !.findings =
                        (@ \ {f}) \union {[f EXCEPT !.status = "REVIEWED"]}]

CloseCase(w) ==
    /\ Commit(w, "close", <<"CASE_CLOSED">>)
    /\ rows.status = "OPEN"
    /\ rows' = [rows EXCEPT !.status = "CLOSED"]

ArchiveCase(w) ==
    /\ Commit(w, "archive", <<"CASE_ARCHIVED">>)
    /\ rows.status = "CLOSED"
    /\ rows' = [rows EXCEPT !.status = "ARCHIVED"]

-----------------------------------------------------------------------------
\* The environment

\* The process dies; files stay, transactions are rolled back.
Crash ==
    /\ Faults
    /\ \E r \in Reporter \union Download : pc[r] \notin {"idle", "done"}
    /\ pc' = [r \in Requests |-> IF pc[r] = "idle" THEN "idle" ELSE "done"]
    /\ out' = [r \in Requests |-> IF pc[r] \in {"idle", "done"} THEN out[r] ELSE "lost"]
    /\ lock' = Nobody
    /\ UNCHANGED <<clock, rows, trail, reports, files, draft, request, served, history>>

\* A stored file is changed from outside the application.
Tamper ==
    /\ Faults
    /\ \E r \in DOMAIN reports, p \in DOMAIN files :
          /\ p = reports[r].path
          /\ files' = [files EXCEPT ![p] = None]
          /\ history' = [history EXCEPT !.changed =
                @ \union {r} \union {d \in Download : pc[d] = "checked" /\ served[d].report = r}]
    /\ UNCHANGED <<clock, rows, trail, reports, lock, pc, out, draft, request, served>>

Quiet ==
    /\ \A r \in Requests : pc[r] = "done"
    /\ UNCHANGED reportVars

ReportNext ==
    \/ \E r \in Reporter :
          \/ ReportNotFound(r) \/ LockCase(r) \/ ReadSection(r) \/ WriteSnapshot(r)
          \/ WriteOutput(r) \/ CommitReport(r) \/ GetReport(r) \/ FailReport(r)
    \/ \E d \in Download :
          \/ DownloadNotFound(d) \/ DownloadUnavailable(d) \/ DownloadCorrupt(d)
          \/ CheckDownload(d) \/ SendFile(d) \/ SendMissing(d)
    \/ \E w \in Writer :
          \/ BeginWrite(w) \/ Reject(w) \/ UpdateCase(w)
          \/ Register(w) \/ Verify(w) \/ Parse(w) \/ GenerateTimeline(w)
          \/ Correlate(w) \/ ReviewFinding(w) \/ CloseCase(w) \/ ArchiveCase(w)
    \/ Crash \/ Tamper \/ Quiet

ReportSpec == ReportInit /\ [][ReportNext]_reportVars

-----------------------------------------------------------------------------
\* Properties

\* rules.md, "Generated reports must reflect actual database state at
\* generation time": all sections of a report tell the state the database is
\* in when the report is committed, although they are read by many statements
\* while other requests run, and the report lists itself.
ReportIsOneState ==
    [][\A r \in DOMAIN reports' \ DOMAIN reports :
          reports'[r].snapshot = Snapshot(Database(SelectAudits(trail')))
      ]_reportVars

\* A report that was refused or failed before its commit has no row and no
\* audit entry, and no files either, whatever it had written by then, unless
\* the file system refused to remove them (storage.py, cleanup_operation).
FailedReportLeavesNothing ==
    \A r \in Reporter : out[r] \in {"error", "not_found"} /\ r \notin DOMAIN reports =>
        /\ FilesOf(r) = {} \/ r \in history.refused
        /\ \A i \in DOMAIN trail : trail[i].by # r

\* As many listed entries as a report shows are no younger than one of these.
CutOff(action) ==
    \E i \in DOMAIN trail :
        /\ trail[i].action = action
        /\ Cardinality({j \in DOMAIN trail : Listed(trail[j])
                                          /\ AuditBefore(trail[j], trail[i])}) > MaxAuditEvents

\* docs/development.md, "derive lifecycle times only from existing audit
\* observations": a report gives the times of closing and archiving exactly
\* when the status it shows says that they happened, unless the limit on audit
\* entries has cut them off, although status and entries are read by different
\* statements and an entry is stamped when its request starts, which may be
\* long before it commits.
LifecycleTimesShown ==
    \A r \in DOMAIN reports :
        LET case == reports[r].snapshot.case
        IN  /\ case.closedAt # None => case.status \in {"CLOSED", "ARCHIVED"}
            /\ case.archivedAt # None => case.status = "ARCHIVED"
            /\ case.status \in {"CLOSED", "ARCHIVED"} =>
                  case.closedAt # None \/ CutOff("CASE_CLOSED")
            /\ case.status = "ARCHIVED" =>
                  case.archivedAt # None \/ CutOff("CASE_ARCHIVED")

\* What a download delivers is the snapshot of its report, rendered in the
\* format that was asked for, unless the file was changed from outside between
\* the check of its hash and the sending: a change before the check is found,
\* and reports, clean-ups and crashes in between never put anything else there.
\* A download of a committed report fails only if its file was changed from
\* outside or its own request failed after the commit and removed it
\* (report_service.py, download, and routes/reports.py, download_report).
DownloadsAreFaithful ==
    \A d \in Download :
        LET r == served[d].report
        IN  /\ out[d] = "ok" =>
                  \/ /\ r \in DOMAIN reports
                     /\ served[d].content = Rendered(draft[r].format, reports[r].snapshot)
                  \/ d \in history.changed
            /\ out[d] = "error" => r \in history.changed \/ out[r] = "error"

\* docs/development.md, "Each report retains a canonical snapshot.json
\* sidecar": violated when the read after the commit fails.
CommittedReportKeepsSidecar ==
    \A r \in DOMAIN reports : SnapshotPath(r) \in DOMAIN files

=============================================================================
