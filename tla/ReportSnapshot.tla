----------------------------- MODULE ReportSnapshot -----------------------------
(***************************************************************************)
(* reporting/snapshot.py: the sections of a report, built from what the    *)
(* statements of the builder returned.  Rows keep only what a section, or  *)
(* a relation between sections, depends on:                                *)
(*   status     the status of the case                                     *)
(*   evidence   evidence numbers                                           *)
(*   hashes     [evidence, purpose, digest, at, by]                        *)
(*   custody    [evidence, at]                                             *)
(*   artifacts  [id, evidence, type]                                       *)
(*   timeline   events, one of each artifact: [artifact, type, time]       *)
(*   runs       [id, events, basis, warned]: a run and its match           *)
(*   findings   [run, status]                                              *)
(*   audits     entries [action, at, by] in commit order                   *)
(* Rows without a place in a relation (names, notes, digest algorithms) and *)
(* the order of the lists are left out.                                    *)
(***************************************************************************)
EXTENDS Integers, Sequences, FiniteSets, SequencesExt, FiniteSetsExt

CONSTANTS
    None,
    MaxAuditEvents   \* MAX_AUDIT_EVENTS

ASSUME MaxAuditAssumption == MaxAuditEvents \in Nat

\* None is no time.
ASSUME NoneAssumption == None \notin Nat

\* AUDIT_ACTIONS, alphabetically: the second key of ORDER BY timestamp, action, id.
AuditActions ==
    <<"CASE_ARCHIVED", "CASE_CLOSED", "CASE_CREATED", "CASE_UPDATED", "CORRELATION_RUN",
      "EVIDENCE_REGISTERED", "EVIDENCE_VERIFIED", "FINDING_CREATED",
      "FINDING_STATUS_CHANGED", "FINDING_UPDATED", "REPORT_GENERATED",
      "TIMELINE_GENERATED">>

Listed(entry) == Contains(AuditActions, entry.action)

Rank(entry) == SelectInSeq(AuditActions, LAMBDA action : action = entry.action)

AuditBefore(x, y) == x.at < y.at \/ (x.at = y.at /\ Rank(x) <= Rank(y))

\* ORDER BY timestamp, action, id.  An id is random: of entries equal in the
\* other two, the one committed first is taken first.
Precedes(entries, i, j) ==
    /\ AuditBefore(entries[i], entries[j])
    /\ AuditBefore(entries[j], entries[i]) => i <= j

Place(entries, among, i) == Cardinality({j \in among : Precedes(entries, j, i)})

\* ... LIMIT: the oldest of the entries at some positions, in that order.
Oldest(entries, among) ==
    LET places == {<<Place(entries, among, i), i>> : i \in among}
    IN  [k \in 1..Min({MaxAuditEvents, Cardinality(among)}) |->
            entries[(CHOOSE p \in places : p[1] = k)[2]]]

\* Seeded fault: the limit counts entries of every action.
LimitThenFilter(entries) == SelectSeq(Oldest(entries, DOMAIN entries), Listed)

\* WHERE action IN ...
SelectAudits(entries) == Oldest(entries, {i \in DOMAIN entries : Listed(entries[i])})

\* _audit_timestamp
AuditTimestamp(audits, action) ==
    LET at == {i \in DOMAIN audits : audits[i].action = action}
    IN  IF at = {} THEN None ELSE audits[Max(at)].at

\* The latest by (computed_at, id).
Latest(rows) == CHOOSE h \in rows : \A g \in rows : g.at <= h.at

\* _integrity_item
IntegrityItem(e, hashes) ==
    LET of(purpose) == {h \in hashes : h.evidence = e /\ h.purpose = purpose}
        acquisition == of("ACQUISITION")
        verifications == of("VERIFICATION")
    IN  [evidence |-> e,
         verifiedAt |-> IF verifications = {} THEN None ELSE Latest(verifications).at,
         status |->
            IF acquisition = {} THEN "ACQUISITION_HASH_UNAVAILABLE"
            ELSE IF verifications = {} THEN "NOT_VERIFIED"
            ELSE IF \E a \in acquisition : a.digest = Latest(verifications).digest
            THEN "MATCH" ELSE "MISMATCH"]

\* _custody_item
CustodyItems(evidence, custody) == {c \in custody : c.evidence \in evidence}

\* _run_item and _finding_item; both carry the events of their match.
RunItems(runs) == {[run |-> r.id, events |-> r.events, basis |-> r.basis] : r \in runs}

FindingItems(findings, runs) ==
    {[run |-> f.run, status |-> f.status,
      events |-> UNION {r.events : r \in {x \in runs : x.id = f.run}}] : f \in findings}

\* _methodology: the parsers and the rules behind the report.
Methodology(artifacts, runs) ==
    {a.type : a \in artifacts} \union (IF runs = {} THEN {} ELSE {"CORRELATION_RULES"})

\* _limitations
Limitations(timeline, runs) ==
    (IF \E e \in timeline : e.time = None THEN {"unknown times"} ELSE {})
    \union (IF \E r \in runs : r.basis = "basename_match" THEN {"basename matches"} ELSE {})
    \union (IF \E r \in runs : r.warned THEN {"warnings"} ELSE {})
    \union (IF \E e \in timeline : e.type = "NTFS_MFT" THEN {"focused MFT"} ELSE {})

\* build, once everything is read: ReportSnapshot(...)
Snapshot(read) ==
    [case |-> [status     |-> read.status,
               closedAt   |-> AuditTimestamp(read.audits, "CASE_CLOSED"),
               archivedAt |-> AuditTimestamp(read.audits, "CASE_ARCHIVED")],
     evidence    |-> read.evidence,
     integrity   |-> {IntegrityItem(e, read.hashes) : e \in read.evidence},
     custody     |-> CustodyItems(read.evidence, read.custody),
     artifacts   |-> read.artifacts,
     timeline    |-> read.timeline,
     correlation |-> RunItems(read.runs),
     findings    |-> FindingItems(read.findings, read.runs),
     methodology |-> Methodology(read.artifacts, read.runs),
     limitations |-> Limitations(read.timeline, read.runs),
     audit       |-> read.audits]

=============================================================================
