# DFIR Investigation Workbench: verification project

TLA+ models of the backend (`src/backend/app`), the TLC runs that check them and the
theorems TLAPS proves about them. Paths and line numbers refer to the repository; every
definition that models code is listed with its lines in `PROJECT.json` under "map".

## 1. The system

A FastAPI backend over PostgreSQL and a local evidence directory. Endpoints are plain
functions, run in a thread pool; each request gets its own session (`db/session.py`), hence
its own connection and transaction, READ COMMITTED, without autoflush. There is no
background job, queue or retry: concurrency is between requests, and between a
request and a death of the process. The frontend calls the API and keeps no state of its own.

| Component | State | Operations | Correct when |
|---|---|---|---|
| Case lifecycle (`case_service.py`) | `cases` rows: status, updated_at | create, update, close, archive; list, get | status only goes OPEN, CLOSED, ARCHIVED; every change has its audit entry in the same commit; `updated_at` advances |
| Audit trail (`db/models/audit.py`) | `audit_events` rows | appended by every service | append-only; agrees with the rows it explains |
| Evidence custody (`evidence_service.py`) | `evidence`, `evidence_hashes`, custody rows | register, verify; list, get, hashes, custody | a record has its complete file; nothing joins a closed case; a recorded mismatch is a real one |
| Evidence storage (`evidence_storage.py`) | files and directories below `EVIDENCE_ROOT` | store, cleanup, resolve_for_read, calculate_sha256 | a stored file is never taken away; a failure leaves nothing but what the file system refused to remove |
| Parser execution (`parser_execution_service.py`, `forensic/parser.py`, `registry.py`) | `artifacts`, `artifact_records` | execute; list, get, records | one artifact with all its records and its audit entry, or none; never left RUNNING |
| Forensic parsers (`forensic/*.py`) | none | parse | what a file says comes back; what cannot be read leaves a warning; the result meets its contract |
| Timeline (`timeline_service.py`, `timeline_normalizer.py`) | `timeline_events` | generate, backfill; list | one event per logical identity, however often and concurrently generated; counts add up |
| Correlation (`correlation_service.py`, `correlation/*.py`) | runs, matches, findings | run, update_finding; lists | one match per deterministic key; finding statuses follow the transition table |
| Reports (`report_service.py`, `reporting/*.py`) | `reports`, report files | generate; list, get, download | a report row has its files; the snapshot agrees with the database |

Interaction: every service opens with a read of the case or evidence row, several
with `SELECT ... FOR UPDATE` on the case row, and ends with one commit of its rows and its
audit entries. An insert that references the case takes `FOR KEY SHARE` on the case row when
flushed, and so waits for a `FOR UPDATE` holder. Evidence files are written under the case's row lock
and before the commit, and removed after the rollback.

What is hard here, and hard to test, is listed line by line under "hazards" in
`PROJECT.json`: check-then-act on the status under concurrent requests; two stores (PostgreSQL,
files) without a common commit; commits whose acknowledgement is lost; work inside the `try`
block after the commit; clean-up outside the lock; clocks that go back; reads by several
statements of one READ COMMITTED transaction; limits of statements and lists.

## 2. The modules

### CaseRecord: what is promised

The abstract specification: for each case a `status` and a `trail` of audit entries. One
atomic step creates, closes or archives a case and appends the matching entry, or
appends an annotation; evidence is only recorded on an OPEN case; a request writes at
most one entry. It has no locks, transactions, files or failures.

### CaseDatabase: the shared machinery

The state all services use and the transaction steps they are made of.

| Model | Code |
|---|---|
| `status`, `updatedAt` | committed columns of `cases` (`db/models/case.py`, `mixins.py`) |
| `trail[c]` | committed `audit_events` of a case, in commit order; `details` are left out |
| `lock[c]`, `share[c]` | `FOR UPDATE` and `FOR KEY SHARE` on the case row |
| `pc`, `op`, `tgt`, `began`, `seen`, `out` | the request's position, arguments, start of transaction, status last read, answer |
| `mishap` | history of the faults a request met; read by properties only |
| `Begin`, `Lock`, `Share`, `Audit`, `Release`, `Rollback`, `Answer` | `get_db`, `with_for_update()`, flush of an insert, the `AuditEvent`, end of transaction, error handler |
| `ClockMoves`, `Crash` | wall clock; death of the process, after which PostgreSQL rolls back |

Uncommitted writes are invisible to others, so the effect of a transaction on rows is a
single step, its commit; what other requests can observe before it (locks, files) are steps
of their own. A crash ends all requests in progress; nothing is recovered at restart, so
restart is no step. Failures of the database are of three kinds: before the commit
(rollback), a refused commit (rollback), and a commit that took effect although the
client was told otherwise.

### CaseLifecycle: `case_service.py`

`idle -> begun -> locked -> committed -> done`; a creation needs no lock. One action per branch
of the code: `NotFound`, `LockCase`, `CommitUpdate`, `RejectTransition`, `CommitTransition`, `CommitCreate`,
`Refresh` (the re-read after the commit), `PostCommitFailure`, `DbFailure`. uuid4 is
an identity no other creation has. case_number, name, description and investigator are left
out: no decision depends on them.

### EvidenceCustody: `evidence_service.py` over the case operations

Extends CaseLifecycle, so that registrations and verifications interleave with create,
close and archive. A registration takes the row lock, checks the status, copies the upload
(`StartCopy`, `LinkFinal`, `UnlinkPartial`), and commits evidence row, hash, custody entry and audit
entry; on a database error it rolls back and then cleans up (`Cleanup`). A verification reads the
acquisition digest, hashes the file without a lock, and commits what it found. A digest is the
content it was computed from (SHA-256 taken as injective). `Unlinks` may fail, since `cleanup_paths`
suppresses `OSError`. `Tamper` changes or removes a stored file from outside.

### EvidenceStorage: `evidence_storage.py`, one call at a time

What EvidenceCustody treats as three steps, in detail, for registrations of one case: the walk
down `<case>/evidence/<id>` with `exists`, `mkdir`, `resolve` as separate steps, then the copy, then
`cleanup_paths` in its order, directories included. Each `unlink` and `rmdir` runs under `suppress(OSError)`
and may be refused (`Suppressed`): the registration still ends as failed, its file stays, and so do the directories above it. The
history `refused[r]` keeps what of r's own things was refused; properties only read it. The row lock is one variable. Symbolic links and path
validation are left out.

### ParserResults, the five decoders, TimelineNormalizer: from a file to its events

Pure operators, no state. `ParserResults` has the contract of a `ParserResult`, its validation in `execute`, the
registry and the FILETIME conversion. `MftDecoder`, `LnkDecoder`, `PrefetchDecoder`, `HiveDecoder` and `EvtxDecoder`
are the modules of `forensic/` of the same names, `TimelineNormalizer` is `timeline_normalizer.py`. A file is a small record
or sequence whose shape each module describes. What is kept is what can go wrong: running offsets
and their bounds checks, chains and their terminators, the update sequence fixup, signed relative run lists byte by byte,
limits, the traversal order, every warning and every failure, exceptions nobody catches included (`None`). Fixed fields
that are copied, text encodings and names of fields are left out. In LnkDecoder shell items and
ExtraData blocks have sizes of their real widths (`ItemWidth` two bytes, `BlockWidth` four), so that a part of a size or of a terminator can be left, which the
code warns of (`Trailing`). The size or count a section of its own begins with takes one byte, of which nothing can be cut
off: the code fails on a part of it as it does on its absence. The structures are a few bytes long (`InfoSize`, `LeastBlock`, `TrackerSize`). Limits are scaled: `MaxItems`
(4096 shell items in the code), `MaxAttributes` (1024), `MaxRuns` (16384), each to 3; `MaxVolumes` (128) and `ManyTimes` (8).

The decoders are written so that they can be reasoned about: walks are recursive functions (`Units`, `DataRuns`, `Attributes`), a selection from
a sequence is given by the set of its positions (`KeepAt`, `InOrder`), a total by a fold.

`ForensicParsers` takes each of a set of jobs, an artifact type and a file, through `execute` and the normalizer: `Parse`,
`NormalizeRecords`. `IsLog`, `IsHive`, `IsPrefetch`, `IsLink` and `IsTable` (with the decoders) say what a file may be, damage of any kind included;
`JobsAssumption` asks that of every job. What "reads back" means needs a second description, of the format instead of the code. A file carries what it
was written from in a field `written`, which no decoder looks at, and `WrittenAssumption` says how the two belong together:

| Description | Says |
|---|---|
| `IsStored` | a record of the master file table as its sectors lie on the disk: the last word of each replaced by the number of its write, the replaced words in the array of the first sector; the sectors of a torn record have different numbers |
| `IsNumber`, `IsRun`, `IsRunList` | the bytes of a run list: each number by its digits (what remains of the value after each division by 256, down to the last byte, which has the sign), each position relative to the last run that has one, where each run begins; whether the list was cut short |
| `IsIdList`, `IsInfo`, `IsString`, `IsUnits`, `IsWritten` | a link: where each section begins and ends, what it says and the warnings it is worth, the blocks behind the sections with the positions at which a cut is seen, and that the file is a first part of that, all of it unless it was cut. Shell items and blocks end
in a terminator (`Terminated`), in a part of one, in a size that leaves the data (`DamagedSizes` bounds it), or in nothing |

None of them uses an operator of the decoders that does the work it is about: offsets are positions that are given, not sums that are computed on the way, and numbers are
divided, not added up. Only the meaning of a single byte or item (`Text`, `Unclassified`) is shared with the decoder. `MCForensicParsers` is the writer: it enumerates what the file is to say, encodes it and damages it. TLC checks on every run that
what it writes fits the descriptions.

### TimelineLog and TimelineGeneration: `parser_execution_service.py`, `timeline_service.py`

TimelineLog is the promise: sources are only added; one step adds to the log all the missing observations of a set of
sources and changes none. TimelineGeneration is the code, one statement at a time.

| Model | Code |
|---|---|
| `artifacts` | committed `artifacts` with their `artifact_records` |
| `timeline` | committed `timeline_events`; an event is <<artifact, record, place>> |
| `job[e]` | what an execution is about to store: `Execute`, `PersistResult`, `Refuse` |
| `tx[g]` | what a generation has read and written: `ReadArtifacts` and `ReadRecords` are the two SELECTs, `InsertNext` a row of the INSERT ... ON CONFLICT DO NOTHING, which waits for a transaction that inserted the same event, `ReadUnidentified` and `EnrichNext` the backfill of process identities, `CommitGeneration` the commit with its audit entry |
| `ReadUnknownRecord`, `RejectStatement` | the KeyError of `artifacts_by_id`; an INSERT with more parameters than PostgreSQL takes |
| `page[r]` | the two statements of `list_events` |

That the database tells two events of a record apart (they differ in type, time source or ordinal) is what
`EveryTimestampIsOneEvent` shows, and what lets TimelineGeneration name events by their place.

### CorrelationRules, FindingReview and CorrelationFindings: `correlation/rules.py`, `correlation_service.py`

CorrelationRules are the rules as set comprehensions over events, with case folding, full paths and the inclusive window, and
the match key. FindingReview is the promise about findings: they appear OPEN, move along four transitions, and each move is
in a history that only grows. CorrelationFindings is the code: a run takes the case row (`LockCase`), reads the
events and evaluates the rules (`Evaluate`), then for each candidate looks for its key (`SkipExisting`, `FindNone`) and inserts match, links and
finding (`InsertMatch`, which the unique index makes wait or refuses), and commits (`CommitRun`); a review locks the
finding, checks and commits; generations add events and fill in names. `Reread` is the read after the commit, `Fault` any failure.

### ReportSnapshot and ReportGeneration: `snapshot.py`, `report_service.py`, `reporting/storage.py`

ReportSnapshot has the items of a report as functions of the rows read: the selection, order and limit of audit entries,
lifecycle times, integrity, custody, runs, findings, methodology and limitations. `Oldest` is the ORDER BY and LIMIT: `Place` numbers
the entries by time and action, those equal in both (the code's last key is a random uuid) in commit order. ReportGeneration takes a report through
`LockCase`, one `ReadSection` per statement, `WriteSnapshot`, `WriteOutput`, `CommitReport`, `GetReport`; `FailReport` is the one
`except` clause, with its clean-up, wherever the failure comes from. Beside it run one-step versions of the requests of all
other services (`UpdateCase` to `ArchiveCase`): their writes appear at their commit, which waits for the case row because of the
foreign key of their audit entry; their time is that of `BeginWrite`, the start of the transaction. A download is two steps, as in the
code: `CheckDownload` compares the file with the recorded hash and returns its path (`report_service.py:142-145`), `SendFile` is the `FileResponse` of `routes/reports.py:57-61`, which opens
the path again and sends what it finds; `SendMissing` when it finds nothing. `DownloadUnavailable` and `DownloadCorrupt` are the refusals. An `unlink` of
`cleanup_operation` may raise, and then keeps its file and those after it. The history `history.changed` has the reports that were changed from outside and the
downloads that had checked one of them by then, `history.refused` the reports whose clean-up was refused a removal; properties only read them. The temporary file of `write_new` is not visible under a name anyone
reads, and a rendering is a function of format and snapshot, so that SHA-256 values are compared as contents.

### Proofs

`CaseRecord_proofs`, `CaseLifecycle_proofs`, `EvidenceCustody_proofs`, `EvidenceStorage_proofs`, `ForensicParsers_proofs`, `TimelineGeneration_proofs`,
`CorrelationFindings_proofs` and `ReportGeneration_proofs`, each with the theorems about the module it is named after; section 5.

The `MC*` modules add the symmetry sets. Definitions marked "Seeded fault" are small
variants of the definition below them; they are in no specification. Each stands for
a mistake in the code, and shows that a property notices it.

## 3. What the runs check

| Run | Bounds | Checks |
|---|---|---|
| `case_lifecycle` | 2 cases, 3 requests, clock 0..1, database faults, crashes | types; row-lock protocol; status against trail; answers against trail; `updated_at`; refinement of CaseRecord |
| `evidence_custody` | 1 case, 3 requests, 2 contents, all faults | types; `CustodyInv` (row-lock protocol, phases of copy and verification); records have complete files; no orphans; custody rows against trail; no false mismatch; answers; nothing registered after close; refinement of CaseRecord |
| `custody_liveness` | 1 case, 3 requests, 1 content, database and I/O faults, no symmetry | every accepted request is answered |
| `evidence_storage` | 3 registrations of one case, I/O and database faults, refused removals, crashes, no symmetry | types; stored files are kept; mkdir never collides; a failure leaves only what the file system refused to remove; every store ends |
| `storage_cleanup_race` | 2 registrations, database faults | expected violation, below |
| `lost_acknowledgement` | 1 case, 2 requests, database faults | expected violation, below |
| `forensic_parsers` | every file `MCForensicParsers` builds: MFT streams and volumes of up to 2 records, attribute areas and run lists up to one more than the limits; links with every combination of sections, cut at every byte; item and block lists with sound, damaged, partial and missing ends; FILETIMEs 0..4, of which 4 has no datetime | results meet their contract; nothing is dropped without a warning; kept MFT records, their run lists and links read back as written; hives in path order; every timestamp that is set is one event with its own identity |
| `timeline_generation` | 1 execution of 5 outcomes, 3 generations, 1 reader, 4 rows per INSERT, all faults | types and contract of stored artifacts; generations on record are complete; counts add up; pages; refinement of TimelineLog |
| `timeline_read_race` | 1 execution, 1 generation, no faults | expected violation, below |
| `correlation_findings` | 2 runs, windows of 1 and 2, 2 reviews, 1 generation, 5 events, faults | rows fit together and no pair is matched twice; unique keys are never hit; nothing related is missed; refinement of FindingReview |
| `report_generation` | 1 report, 2 requests of any other service, 1 download, 5 listed audit entries, 2 artifact types (`FirstType`, that of the first artifact, is the one whose event has no time), failures, refused removals, crashes, changed files | a report is one state; a failed report leaves only what could not be removed; lifecycle times; what downloads deliver, and when they fail |
| `report_sidecar` | 1 report, no other request | expected violation, below |

Why the bounds are enough. Requests interact only through the row of one case and the files of
one registration. A race on a status needs two requests, a third sees the result or holds the
lock while two wait; three are also what a register, a verification of it and a close take, and create,
close, archive in a row. Two cases are enough to show that a request touches only its own. Two
clock values give a clock that stands still, advances and goes back; `updatedAt` grows by at most one per
commit beyond it. Two contents distinguish a changed file from an intact one. In EvidenceStorage two
registrations race and a third finds what they left. A case may exist at the start or not,
`status \in {"ABSENT", "OPEN"}`; the later statuses are reached by requests.

For the later modules. The timeline needs two generations that compete for an event and a third that finds what both left, the
failed one included; the execution may come before, between and after their reads; the earlier artifact gives events to enrich. `MaxRows` of 4 is
between what one and what both artifacts give, so that statements are both accepted and refused. Two correlation runs are what can
collide; windows of 1 and 2 and events at distances 0, 1 and 2 put a pair at the end of a window and one just outside; two reviews race for
a finding. A report reads seven times, and two requests are enough to change two sections in between, or to close and
archive; with five of up to eight audit entries shown the limit takes effect. One download is enough, since downloads change nothing and a report has paths of its own: it may check
before, and send after, the failure, the clean-up, a crash or a change. A damaged MFT record has two sectors, so that either tail can be torn. Files
are independent of each other and are looked at one by one; `forensic_parsers` stops after each, hence no deadlock check there.

Symmetry is used only where all properties are invariants or action properties. Deadlock is
checked everywhere: `Quiet` is the idle server after the last answer.

### Fairness

Weak fairness of the work of each request, never of a fault: the thread pool runs every request it
accepted, and a statement that need not wait is executed. Faults are left out on purpose: the code sets no
`lock_timeout` or `statement_timeout`, so nothing may be relied on to end the wait for a row but its release. No
fairness of requests beginning, of the clock, of crashes or of tampering. Weak fairness suffices because
requests are finite in number: a request waiting for a row is eventually the only one that wants it.

### Disagreements with the documentation

* `storage_cleanup_race`: registration g1 creates `<case>`, fails at its commit, rolls back (which releases the
  case row) and starts its cleanup. g2 locks the row and finds `<case>` to exist. g1's cleanup
  removes the empty directory. g2's next call fails, and so does g2, although nothing went wrong in it. README.md:89-91
  says that registration "removes only that new file if the database transaction fails". No stored
  file is lost that way (`StoredFileIsKept`).
* `lost_acknowledgement`: the commit of a registration takes effect but `commit()` raises, because the
  connection broke before the acknowledgement. `evidence_service.py:97-101` removes the stored
  file. The row is committed and its file gone. The same sentence of README.md describes removal only
  when the transaction failed.

* `timeline_read_race`: a generation reads the artifacts, an execution commits an artifact with records, the generation reads the
  records. `artifacts_by_id[record.artifact_id]` (`timeline_service.py:80`) raises a KeyError, which no `except` clause of `generate`
  catches. docs/development.md:191-192 says that a generation "scans the case's parsed records, inserts only missing logical events [...] and
  records `TIMELINE_GENERATED`". Nothing is damaged: the transaction is rolled back and a second call succeeds.
* `report_sidecar`: `return self.get(...)` (`report_service.py:102`) follows the commit inside the `try` block. When that read fails, the
  `except` clause unlinks both files of a report whose row is committed. docs/development.md:307 says "Each report retains a
  canonical `snapshot.json` sidecar". Downloads of that report then fail (`DownloadsAreFaithful` allows an error for a report whose own request failed).

`RecordHasCompleteFile` holds under exactly the exceptions that the second one and changes from outside make
necessary; `NoOrphanFile` excepts crashes (documented in README.md:91-93) and removals the file system refused.
`FailureLeavesNothing` and `FailedReportLeavesNothing` except refused removals too: `evidence_storage.py:112-118` hides them, `reporting/storage.py:52` raises out of the
`except` clause. `DownloadsAreFaithful` excepts a change from outside between the check of the hash and the sending: the code has that window and delivers the changed file. What the property
shows is that nothing but such a change gets in: reports, their clean-ups and crashes never put other content under a path that a download has checked, and no earlier change is missed.

## 4. Only model-checked

* Liveness: `EveryRequestAnswered` and `EveryStoreEnds`. The proof system does not handle fairness and ENABLED.
* The expected violations: a counterexample is one behaviour, and there is nothing to prove.

Everything else the runs check is also proved: each invariant and each action property of a passing run is the statement of a theorem below.

## 5. What is proved

For any sets of cases and requests, any clock bound and any subset of the faults, from the
assumptions in CaseDatabase and EvidenceCustody only (`NoRequest` is no request, `NoCase` no case, `NoContent` no
content, the clock bound a natural number); in CorrelationFindings for any runs, reviews and generations, any timeline and any
windows, from its own (the three kinds of request are disjoint, `Given` has a row with a time or `None` for every event, windows are integers). In
EvidenceStorage for any number of registrations and any faults (registrations are none of the shared directory names, `Nobody` is none of them). In TimelineGeneration
for any executions, generations, readers and parser results, any limit on the rows of a statement and any pages (the kinds of request are disjoint, executions are
positive numbers, which become the identities of their artifacts; the earlier artifact has finitely many events; offsets and limits are natural numbers). In ReportGeneration for any reports, downloads, requests of other services, formats,
artifact types and any limit on audit entries, with and without faults (the kinds of request are disjoint, `Nobody` is none of them, `None` is no time). In ForensicParsers for any set of files of any
size that have the shapes of section 2 (`JobsAssumption`), for those of the tables and links that were written as described there (`WrittenAssumption`; `Malformed` is none of the values
the decoders build), and for any limit of the FILETIMEs that have a datetime. TLC evaluates each assumption:

| Theorem | Statement |
|---|---|
| `CaseRecord_proofs!RecordCorrect` | `Spec => []RecordInv` of the abstract record: status and trail agree, nothing is registered after the close, one entry per request |
| `CaseLifecycle_proofs!TypeCorrect` | `Spec => []TypeOK` |
| `CaseLifecycle_proofs!TransactionsProtected` | `Spec => []TransactionInv` |
| `CaseLifecycle_proofs!LifecycleImplementsRecord` | `Spec => Record!Spec` |
| `CaseLifecycle_proofs!StatusExplained` | `Spec => []TrailExplainsStatus` |
| `CaseLifecycle_proofs!UpdatedAtForward` | `Spec => UpdatedAtAdvances` |
| `EvidenceCustody_proofs!CustodyTypeCorrect` | `CustodySpec => []CustodyTypeOK` |
| `EvidenceCustody_proofs!CustodyProtected` | `CustodySpec => []CustodyInv` |
| `EvidenceCustody_proofs!RecordsHaveFiles` | `CustodySpec => []RecordHasCompleteFile` |
| `EvidenceCustody_proofs!NoFileLeftBehind` | `CustodySpec => []NoOrphanFile` |
| `EvidenceCustody_proofs!NoFalseAlarm` | `CustodySpec => []MismatchMeansTampering` |
| `EvidenceCustody_proofs!CustodyImplementsRecord` | `CustodySpec => Record!Spec` |
| `EvidenceCustody_proofs!RegisteredBeforeClose` | `CustodySpec => []NothingRegisteredAfterClose` |
| `CaseLifecycle_proofs!AnswersTellTheTrail` | `Spec => []AnswersMatchTrail` |
| `EvidenceCustody_proofs!RowsMatchTrail` | `CustodySpec => []CustodyMatchesTrail` |
| `EvidenceCustody_proofs!CustodyAnswersHold` | `CustodySpec => []CustodyAnswers` |
| `EvidenceStorage_proofs!StorageInvariant` | the inductive invariant of the stores |
| `EvidenceStorage_proofs!StorageTypeCorrect` | `[]StorageTypeOK` |
| `EvidenceStorage_proofs!StoredFilesKept` | `[]StoredFileIsKept` |
| `EvidenceStorage_proofs!MkdirNeverFails` | `[]MkdirNeverCollides` |
| `EvidenceStorage_proofs!NothingLeftBehind` | `[]FailureLeavesNothing` |
| `ForensicParsers_proofs!ContractIsMet` | `ParsersSpec => []ResultsMeetContract` |
| `ForensicParsers_proofs!LossesAreReported` | `ParsersSpec => []NothingLostSilently` |
| `ForensicParsers_proofs!HivesAreReadInPathOrder` | `ParsersSpec => []HiveInPathOrder` |
| `ForensicParsers_proofs!TimestampsBecomeEvents` | `ParsersSpec => []EveryTimestampIsOneEvent` |
| `ForensicParsers_proofs!KeptRecordsAreRead` | `ParsersSpec => []KeptRecordsReadBack`: whole records, decoded run lists |
| `ForensicParsers_proofs!LinksAreDecoded` | `ParsersSpec => []LinksReadBack` |
| `TimelineGeneration_proofs!TimelineInvariant` | `[]TimelineIInv`, the inductive invariant below |
| `TimelineGeneration_proofs!TimelineTypeCorrect` | `[]TimelineTypeOK` |
| `TimelineGeneration_proofs!GenerationsAreComplete` | `[]GenerationIsComplete` |
| `TimelineGeneration_proofs!AuditedCountsHold` | `[]AuditedCountsAddUp` |
| `TimelineGeneration_proofs!PagesFitTheirTotal` | `[]PageWithinTotal` |
| `TimelineGeneration_proofs!TimelineRefinesLog` | `ImplementsTimeline`: `Log!Spec` (TimelineLog) |
| `CorrelationFindings_proofs!FindingsInvariant` | `FindingsSpec => []IInv`, the inductive invariant below |
| `CorrelationFindings_proofs!NoCollision` | `FindingsSpec => []RunsNeverCollide` |
| `CorrelationFindings_proofs!Consistent` | `FindingsSpec => []FindingsConsistent` |
| `CorrelationFindings_proofs!NothingMissed` | `FindingsSpec => RunMissesNothing` |
| `CorrelationFindings_proofs!Refinement` | `FindingsSpec => ReviewLog!Spec` (FindingReview) |
| `ReportGeneration_proofs!ReportInvariant` | `ReportSpec => []ReportIInv`, the inductive invariant below |
| `ReportGeneration_proofs!ReportsTellOneState` | `ReportSpec => ReportIsOneState` |
| `ReportGeneration_proofs!FailedReportsLeaveNothing` | `ReportSpec => []FailedReportLeavesNothing` |
| `ReportGeneration_proofs!DownloadsTellTheirReport` | `ReportSpec => []DownloadsAreFaithful` |
| `ReportGeneration_proofs!TimesTellTheStatus` | `ReportSpec => []LifecycleTimesShown` |

The argument. `TrailExplainsStatus` is not inductive in CaseLifecycle: a request in phase "locked" will commit a
status it decided on earlier. `TransactionInv` adds what makes that safe: a request that decides holds the row lock; the
status it read is still the committed one; a creation has an identity of its own, still absent; a request
whose transaction has not ended has written nothing. With the types this is `BaseInv`, proved inductive by one lemma per kind of
transaction step (`BeginBase`, `LockBase`, `WorkBase`, `ShareBase`, `ReleaseBase`, `CommitBase`, `CommitCreateBase`,
`AfterCommitBase`, `EnvironmentBase`). These say nothing about which service takes the step, so that other services can cite them.
Under `BaseInv` each commit is a step of CaseRecord and every other step
leaves the record alone: the refinement. The record's own inductive invariant
(`RecordInv`) then carries over to the rows the services write.

With evidence. None of the file properties is inductive: that a record has its file depends on what
the registration did to the file in earlier phases, and that a mismatch is a real one on the record of
another request. `CustodyInv` says for each request what its phase may rely on (`PhaseInv`, `CopyInv`,
`RowInv`, `VerifyInv`); `CustodyIInv` adds the types and the two properties that are about finished requests. The proof
separates a step from its surroundings. `StepOf(r)` collects what a step of r never does: touch another request's entries
or locks, make a case disappear, change its own operation or committed record, forget a fault. `OthersKeep` shows
once that under `StepOf(r)` the invariant of every other request survives; the `...Keeps` lemmas show for each action
that it is a `StepOf(r)`, keeps r's own part, and is one of the transaction steps above. That a registration is an allowed
annotation of the record follows from the lock and the status read under it, so `NothingRegisteredAfterClose`
comes from CaseRecord and needs no argument about interleavings.

Answers and rows against the trail. What a client is told depends on the phase its request was in when it ended, and on what its transaction had done by then.
`AnswerInv` (CaseLifecycle) and `TrailInv` (EvidenceCustody: `EntryInv`, `CustodyAnswerInv`) say for every phase whether the request's entry is in the trail, and after which fault an
error may be reported for a change that was made. `EntryAtEnd` is the lemma all of it rests on: a commit puts one entry at the end of one trail and changes the
authorship of one request. With it, that an `EVIDENCE_VERIFIED` entry follows the registration of its subject (`CustodyMatchesTrail`) is a fact about positions that later steps cannot disturb.

Storage. That a stored file keeps its directories is not inductive: a clean-up outside the lock removes directories beside the `mkdir` of another registration. `StorageIInv` adds
that whoever walks down holds the lock (`LockInv`), that a directory has the one above it (`TreeInv`), which directories a registration has made and still remembers
(`OwnDirs`), and which files exist in which phase (`OwnFiles`); both make room for what a clean-up was refused to remove, and for a directory that stays because a file in it does. `rmdir` fails on a directory that is not empty, and with `TreeInv` that is what protects the files of others.

Parsers. The invariant, `ParsersInv`, is small: a stored result is the validated outcome of its file's parser, and the events are those of its records. The work is in what the
decoders compute for a file of any length. The library's induction theorems cannot be cited, since they take an operator as a parameter; two lemmas stand in for them.
`NaturalsInduct` speaks of a set of numbers that holds 0 and, with a number, the next one. `Recursion` shows that a function whose value at a point depends only on points of
smaller rank exists: there are solutions below every rank, they agree, and together they are the function. Every recursive function of the decoders is met
through it (`UnitsAreWalked`, `RunsAreWalked`, `NumberIsWalked`), and facts about it then go from one call to the next.

* The contract and the losses: `LogIsRead`, `HiveIsRead`, `PrefetchIsRead`, `LinkIsRead` and `TableIsRead` say what each parser gives for any file. The records and
  warnings of a table are at least as many as the slots it examined that are not empty, those of a log as many as what its chunks hold.
* The hive walk keeps `Walked` over its turns: what is visited so far comes, in path order, before everything on the stack and before all that is still below it, and
  what is visited or still to come is every reachable key. Path order is shown to be a linear order of the keys in which the subkeys of a key follow it and precede its next sibling.
* Events: the events of a family of times have as many identities as there are times set, and different families, names and ordinals have different identities.
* Torn records: the words of the first sector's array go back to where the numbers of the write are, and a sector of another write has another number.
* Run lists: from the last run back to the first (`RunListReadsBack`), what the decoder gives from the beginning of a run on is the rest of the list. `DigitsReadBack`
  turns the digits into the number by the same backward induction over the bytes; `BaseMoves` says what the next run is relative to, sparse ones skipped.
* Links: `SectionsReadBack` takes the running offset from section to section and finds it where the next one begins, or fails inside a link that was cut;
  `UnitsReadBack` reads the units of a first part of some bytes and says which: the largest number of them that fit, with a warning just if another, or the terminator, has begun and is not whole.

Timeline. A generation decides on events by what it read several statements before its commit. `TimelineIInv` consists of `ShapeInv` (types; an artifact's identity is given once), `ContractInv` (stored results meet their contract),
`EventsInv` (every event comes from a stored record), `GenerationInv` (where a generation stands with the events of the records it has read: still to do, inserted by it, or in the timeline; once it is on record all of them are there,
with their identities), `DisjointInv` (two generations that may still commit have inserted different events: what ON CONFLICT waits for), `CountInv` and `PageInv`. That artifacts are stored once and never changed (`SameEvents`) carries the part of every
other generation over a step (`GenerationStays`). For the refinement, the commit of a generation is the step of TimelineLog for the artifacts it has read, storing an artifact adds a source, and every other step leaves both as they are.

Correlation. None of the four properties is inductive: that a run is not refused, and misses nothing, depends on what it had read and made
some steps before. `IInv` says what an evaluating run may rely on: it holds the case row (`LockInv`), so that nobody commits events, matches or
runs (`OthersWait`); each candidate is still to do, or has its key among the stored and the made matches, and a made key is not stored
(`Evaluated`); a key it did not find is still absent when it inserts (`RunOK`). `KeysInv` ties each stored key to the rule and the two
events of its match; that a candidate is the one its rule gives for a pair of events, whether or not they were
enriched before (`CandidateOfPair`), then makes a match the only one of its pair. `CandidatesAreRelated` shows that the rules as the code computes them, by identity and distance,
give exactly the pairs `Related` describes. `ReviewInv` says that a review holds the finding it has read and that nobody else holds it, so that its move starts at the
committed status. TLC checked `IInv` on the instance of `correlation_findings`. The history of FindingReview is numbered, so that the place of an entry
in the audit trail can be its number; `OtherEntries` and `MoveEntry` show which entries add to it.

Reports. `ReportIInv` says of each report: it holds the case from its first statement to its commit; what it has read is what the database still says (`Told`, restricted to the fields of the sections read so far); once
rendered, its snapshot is that of `Told`; which files exist in which phase, or were refused to its clean-up; what is on record is the hash of its snapshot in its format; a download that has checked a file finds that hash again, unless
the file was changed or its report's own request removed it. TLC checked it with two reports. `ReportStays` shows once that the steps of others keep it: they change rows and trail
only while no report holds the case. For `LifecycleTimesShown`, `StatusInv` ties the status to the entries about it in the trail. That ORDER BY and LIMIT leave an entry out only when as many as
the report shows come before it is shown without induction: `Place` numbers the listed entries in a total order, a numbering by how many come before is injective, and an injection
between finite sets of the same size is onto (`PlacesAreNumbered`, `OldestEntries`). An entry that is cut off stays cut off, since the trail only grows (`CutOffStays`).

## 6. Not modelled, and the plan

Left out of the modules above, and why:

* Lists and gets other than the paged timeline: they change nothing, and read by one statement or by a page and a count as there.
* The layout of HTML and PDF reports (`reporting/renderers.py`): formatting of a snapshot that is modelled.
* The byte layout of fixed fields, text encodings and the third-party hive and event-log libraries: HiveDecoder and EvtxDecoder
  start from what those return or raise.
* The number of parameters of one INSERT is a bound, `MaxRows`, in the model; in the code it is 65535 over 19 columns, so a
  case with more than 3449 missing and present events together can never be given a timeline. `RejectStatement` is that failure; it leaves nothing behind.
* API schemas and settings (declarative validation), migrations (run by an administrator), the frontend (presentation, no state of its own).
* Memory and time limits of parsing.

Next: liveness of reports and correlation runs that wait for one case row, under the fairness of section 3.
