----------------------- MODULE ReportGeneration_proofs -----------------------
(***************************************************************************)
(* For any number of reports, downloads and requests of the other services *)
(* in any order: a report tells the one state of the database it is        *)
(* committed in, a report that fails leaves nothing but files it could not *)
(* remove, and a download delivers what its report recorded unless the     *)
(* file was changed from outside after the check.                          *)
(***************************************************************************)
EXTENDS ReportGeneration, TLAPS, FiniteSetTheorems, WellFoundedInduction

Columns == {"status", "evidence", "hashes", "custody", "artifacts", "timeline", "runs",
            "findings"}

Actions ==
    {"CASE_ARCHIVED", "CASE_CLOSED", "CASE_CREATED", "CASE_UPDATED", "CORRELATION_RUN",
     "EVIDENCE_REGISTERED", "EVIDENCE_VERIFIED", "FINDING_CREATED",
     "FINDING_STATUS_CHANGED", "FINDING_UPDATED", "PARSER_EXECUTED", "REPORT_GENERATED",
     "TIMELINE_GENERATED"}

EntryShape ==
    [action : Actions, at : Nat, by : {Nobody} \union Writer \union DOMAIN reports]

IsDraft(t) ==
    /\ DOMAIN t = {"format", "at", "next", "read", "snapshot"}
    /\ t.at \in Nat

\* The types; artifacts belong to registered evidence, and an entry of a report
\* comes with the report.
ShapeInv ==
    /\ clock \in Nat
    /\ DOMAIN rows = Columns
    /\ \A a \in rows.artifacts : a.evidence \in rows.evidence
    /\ trail \in Seq(EntryShape)
    /\ DOMAIN reports \subseteq Reporter
    /\ lock \in Reporter \union {Nobody}
    /\ pc \in [Requests -> {"idle", "reading", "writing", "written", "committed", "checked",
                          "done"}]
    /\ out \in [Requests -> {"none", "ok", "error", "not_found", "conflict", "lost"}]
    /\ DOMAIN draft = Reporter
    /\ \A r \in Reporter : IsDraft(draft[r])
    /\ request \in [Writer -> [op : Ops \union {"none"}, at : Nat]]
    /\ DOMAIN served = Download
    /\ history \in [changed : SUBSET (Reporter \union Download), refused : SUBSET Reporter]

\* What report r will say, if nothing changes until its commit.
Told(r) == Database(SelectAudits(Append(trail, OwnEntry(r))))

\* What a report has read when section k is next.
Fields(k) == {"status"} \union UNION {FieldsOf(Sections[j]) : j \in 1..(k - 1)}

\* The file of a report that will be served is there, as it was rendered.
Intact(r) ==
    /\ OutputPath(r) \in DOMAIN files
    /\ files[OutputPath(r)] = Rendered(draft[r].format, draft[r].snapshot)

\* A report holds the case from its first statement to its commit; what it has
\* read is what the database still says.  Its file is lost only by a change
\* from outside or by its own failure after the commit.
ReportInv(r) ==
    /\ lock = r <=> pc[r] \in {"reading", "writing", "written"}
    /\ out[r] # "none" => pc[r] = "done"
    /\ pc[r] = "reading" =>
          /\ draft[r].next \in 1..8
          /\ draft[r].read = [x \in Fields(draft[r].next) |-> Told(r)[x]]
    /\ pc[r] \in {"writing", "written"} => draft[r].snapshot = Snapshot(Told(r))
    /\ pc[r] \in {"idle", "reading"} => FilesOf(r) = {}
    /\ pc[r] \in {"idle", "reading", "writing", "written"} => r \notin DOMAIN reports
    /\ out[r] \in {"error", "not_found"} /\ r \notin DOMAIN reports =>
          FilesOf(r) = {} \/ r \in history.refused
    /\ pc[r] = "written" => Intact(r)
    /\ r \in DOMAIN reports =>
          /\ reports[r].path = OutputPath(r) /\ reports[r].snapshot = draft[r].snapshot
          /\ reports[r].hash = Rendered(draft[r].format, draft[r].snapshot)
          /\ Intact(r) \/ r \in history.changed \/ out[r] = "error"

\* Between its check and the sending, the file a download is about to send is
\* as recorded or was changed meanwhile.
DownloadInv(d) ==
    LET r == served[d].report
    IN  /\ pc[d] \in {"idle", "checked"} => out[d] = "none"
        /\ out[d] = "error" => r \in Reporter
        /\ pc[d] = "checked" =>
              /\ r \in DOMAIN reports
              /\ reports[r].path \in DOMAIN files /\ d \notin history.changed =>
                    files[reports[r].path] = reports[r].hash
        /\ out[d] = "ok" =>
              \/ r \in DOMAIN reports /\ served[d].content = reports[r].hash
              \/ d \in history.changed
        /\ out[d] = "error" => r \in history.changed \/ out[r] = "error"

\* The inductive invariant.
ReportIInv ==
    /\ ShapeInv
    /\ \A r \in Reporter : ReportInv(r)
    /\ \A d \in Download : DownloadInv(d)

-----------------------------------------------------------------------------
\* Operators.

\* The sections follow one another, evidence before artifacts, and cover
\* the database.
LEMMA FieldsInOrder ==
    /\ Len(Sections) = 7
    /\ Fields(1) = {"status"}
    /\ \A k \in 1..7 : Fields(k + 1) = Fields(k) \union FieldsOf(Sections[k])
    /\ \A k \in 1..7 : "artifacts" \in FieldsOf(Sections[k]) => "evidence" \in Fields(k)
    /\ \A k \in 1..8 : Fields(k) \subseteq Columns \union {"audits"}
    /\ Fields(8) = Columns \union {"audits"}
<1>1. Len(Sections) = 7
  BY DEF Sections
<1>2. /\ Sections[1] = "evidence" /\ Sections[2] = "hashes" /\ Sections[3] = "artifacts"
      /\ Sections[4] = "timeline" /\ Sections[5] = "runs" /\ Sections[6] = "findings"
      /\ Sections[7] = "audits"
  BY DEF Sections
<1>3. /\ FieldsOf(Sections[1]) = {"evidence"}
      /\ FieldsOf(Sections[2]) = {"hashes", "custody"}
      /\ FieldsOf(Sections[3]) = {"artifacts"} /\ FieldsOf(Sections[4]) = {"timeline"}
      /\ FieldsOf(Sections[5]) = {"runs"} /\ FieldsOf(Sections[6]) = {"findings"}
      /\ FieldsOf(Sections[7]) = {"audits"}
  BY <1>2 DEF FieldsOf
<1>4. Fields(1) = {"status"}
  BY DEF Fields
<1>5. ASSUME NEW k \in 1..7
      PROVE  Fields(k + 1) = Fields(k) \union FieldsOf(Sections[k])
  <2>1. 1..(k + 1 - 1) = (1..(k - 1)) \union {k}
    OBVIOUS
  <2>. QED
    BY <2>1 DEF Fields
<1>6. /\ Fields(2) = Fields(1) \union FieldsOf(Sections[1])
      /\ Fields(3) = Fields(2) \union FieldsOf(Sections[2])
      /\ Fields(4) = Fields(3) \union FieldsOf(Sections[3])
      /\ Fields(5) = Fields(4) \union FieldsOf(Sections[4])
      /\ Fields(6) = Fields(5) \union FieldsOf(Sections[5])
      /\ Fields(7) = Fields(6) \union FieldsOf(Sections[6])
      /\ Fields(8) = Fields(7) \union FieldsOf(Sections[7])
  <2>1. \A k \in 1..7 : Fields(k + 1) = Fields(k) \union FieldsOf(Sections[k])
    BY <1>5
  <2>. HIDE DEF Fields
  <2>. QED
    BY <2>1
<1>. QED
  <2>1. ASSUME NEW k \in 1..7, "artifacts" \in FieldsOf(Sections[k])
        PROVE  "evidence" \in Fields(k)
    <3>1. k = 3
      BY <1>3, <2>1
    <3>. QED
      BY <1>3, <1>4, <1>6, <3>1
  <2>2. Fields(8) = Columns \union {"audits"}
    BY <1>3, <1>4, <1>6 DEF Columns
  <2>3. \A k \in 1..8 : Fields(k) \subseteq Fields(8)
    BY <1>6
  <2>. QED
    BY <1>1, <1>4, <1>5, <2>1, <2>2, <2>3

\* Nothing a report is told changes while rows and trail stay.
LEMMA ToldStays ==
    ASSUME NEW r, rows' = rows, trail' = trail, draft'[r].at = draft[r].at
    PROVE  Told(r)' = Told(r)
  BY DEF Told, Database, OwnEntry, Entry

\* A report is left alone by the steps of others, which leave the rows alone
\* while it holds the case, and its file unless they change it from outside.
LEMMA ReportStays ==
    ASSUME NEW r \in Reporter, ReportInv(r), pc'[r] = pc[r], out'[r] = out[r],
           draft'[r] = draft[r], lock' = r <=> lock = r,
           lock = r => rows' = rows /\ trail' = trail,
           FilesOf(r)' = FilesOf(r),
           \A p \in FilesOf(r) :
              files'[p] = files[p] \/ (r \in DOMAIN reports /\ r \in history'.changed),
           history.changed \subseteq history'.changed,
           history.refused \subseteq history'.refused,
           r \in DOMAIN reports' <=> r \in DOMAIN reports,
           r \in DOMAIN reports => reports'[r] = reports[r]
    PROVE  ReportInv(r)'
<1>1. pc[r] \in {"reading", "writing", "written"} => Told(r)' = Told(r)
  BY ToldStays DEF ReportInv
<1>2. OutputPath(r)' = OutputPath(r) /\ OutputPath(r)[1] = r
  BY DEF OutputPath
<1>3. Intact(r) => Intact(r)' \/ (r \in DOMAIN reports /\ r \in history'.changed)
  BY <1>2 DEF Intact, FilesOf
<1>. QED
  BY <1>1, <1>2, <1>3 DEF ReportInv

\* Only files of r appear, before its commit, or go.
OwnFilesOnly(r) ==
    /\ \A p \in DOMAIN files : p[1] # r => p \in DOMAIN files' /\ files'[p] = files[p]
    /\ \A p \in DOMAIN files' :
          \/ p \in DOMAIN files /\ files'[p] = files[p]
          \/ p[1] = r /\ r \notin DOMAIN reports

-----------------------------------------------------------------------------
\* The steps of a report.

\* A step of a report leaves the others alone.
LEMMA ReportStepKeeps ==
    ASSUME ReportIInv, NEW r \in Reporter, UNCHANGED <<clock, rows, request, served>>,
           NEW p \in {"reading", "writing", "written", "committed", "done"}, Goto(r, p),
           out' = out \/ \E a \in {"ok", "error", "not_found"} : out' = [out EXCEPT ![r] = a],
           DOMAIN draft' = Reporter, IsDraft(draft[r])',
           \A q \in Reporter \ {r} : draft'[q] = draft[q],
           lock' \in {lock, r, Nobody}, lock' # lock => lock \in {r, Nobody},
           trail' = trail \/ (/\ lock = r /\ trail' = Append(trail, OwnEntry(r))
                              /\ r \in DOMAIN reports'),
           DOMAIN reports' \in {DOMAIN reports, DOMAIN reports \union {r}},
           \A q \in DOMAIN reports : reports'[q] = reports[q],
           OwnFilesOnly(r), pc[r] # "done",
           history' \in {history, [history EXCEPT !.refused = @ \union {r}]},
           ReportInv(r)'
    PROVE  ReportIInv'
<1>. USE RequestsAssumption
<1>0. ShapeInv /\ r \in Requests /\ r # Nobody
  BY DEF ReportIInv, Requests
<1>1. /\ history'.changed = history.changed
      /\ history.refused \subseteq history'.refused
      /\ history' \in [changed : SUBSET (Reporter \union Download), refused : SUBSET Reporter]
  BY <1>0 DEF ShapeInv
<1>2. ShapeInv'
  <2>1. EntryShape \subseteq EntryShape'
    BY <1>0 DEF ShapeInv, EntryShape
  <2>2. trail' \in Seq(EntryShape')
    <3>1. trail \in Seq(EntryShape')
      BY <1>0, <2>1 DEF ShapeInv
    <3>2. CASE trail' = trail
      BY <3>1, <3>2
    <3>3. CASE trail' = Append(trail, OwnEntry(r)) /\ r \in DOMAIN reports'
      <4>1. OwnEntry(r) \in EntryShape'
        <5>1. draft[r].at \in Nat
          BY <1>0 DEF ShapeInv, IsDraft
        <5>2. draft[r].at \in Nat => OwnEntry(r) \in [action : Actions, at : Nat, by : {r}]
          BY DEF OwnEntry, Entry, Actions
        <5>3. \A x \in [action : Actions, at : Nat, by : {r}] : x \in EntryShape'
          BY <3>3 DEF EntryShape
        <5>. QED
          BY <5>1, <5>2, <5>3
      <4>. HIDE DEF EntryShape
      <4>. QED
        BY <3>1, <3>3, <4>1
    <3>. QED
      BY <3>2, <3>3
  <2>3. \A q \in Reporter : IsDraft(draft[q])'
    <3>1. \A q \in Reporter \ {r} : IsDraft(draft[q])'
      BY <1>0 DEF ShapeInv, IsDraft
    <3>. QED
      BY <3>1
  <2>4. pc' \in [Requests -> {"idle", "reading", "writing", "written", "committed",
                              "checked", "done"}]
    BY <1>0 DEF ShapeInv, Goto
  <2>5. out' \in [Requests -> {"none", "ok", "error", "not_found", "conflict", "lost"}]
    BY <1>0 DEF ShapeInv
  <2>. QED
    BY <1>0, <1>1, <2>2, <2>3, <2>4, <2>5 DEF ShapeInv
<1>3. ASSUME NEW q \in Reporter, q # r
      PROVE  ReportInv(q)'
  <2>1. pc'[q] = pc[q] /\ out'[q] = out[q] /\ draft'[q] = draft[q]
    BY <1>0, <1>3 DEF ShapeInv, Goto, Requests
  <2>2. lock' = q <=> lock = q
    BY <1>0, <1>3
  <2>3. lock = q => rows' = rows /\ trail' = trail
    BY <1>3
  <2>4. q \in DOMAIN reports' <=> q \in DOMAIN reports
    BY <1>3
  <2>5. FilesOf(q)' = FilesOf(q) /\ \A x \in FilesOf(q) : files'[x] = files[x]
    BY <1>3 DEF FilesOf, OwnFilesOnly
  <2>. QED
    BY <1>1, <1>3, <2>1, <2>2, <2>3, <2>4, <2>5, ReportStays DEF ReportIInv
<1>4. ASSUME NEW d \in Download
      PROVE  DownloadInv(d)'
  <2>1. pc'[d] = pc[d] /\ out'[d] = out[d] /\ served' = served
    BY <1>0 DEF ShapeInv, Requests, Goto
  <2>2. DownloadInv(d)
    BY DEF ReportIInv
  <2>. DEFINE q == served[d].report
  <2>3. pc[d] = "checked" =>
           /\ q \in DOMAIN reports' /\ reports'[q] = reports[q]
           /\ reports[q].path \in DOMAIN files' =>
                 /\ reports[q].path \in DOMAIN files
                 /\ files'[reports[q].path] = files[reports[q].path]
    <3>1. SUFFICES ASSUME pc[d] = "checked"
                   PROVE  /\ q \in DOMAIN reports' /\ reports'[q] = reports[q]
                          /\ reports[q].path \in DOMAIN files' =>
                                /\ reports[q].path \in DOMAIN files
                                /\ files'[reports[q].path] = files[reports[q].path]
      OBVIOUS
    <3>2. q \in DOMAIN reports /\ q \in Reporter
      BY <1>0, <2>2, <3>1 DEF DownloadInv, ShapeInv
    <3>3. reports[q].path[1] = q
      <4>1. OutputPath(q)[1] = q
        BY DEF OutputPath
      <4>. QED
        BY <3>2, <4>1 DEF ReportIInv, ReportInv
    <3>. QED
      BY <3>2, <3>3 DEF OwnFilesOnly
  <2>4. out[d] = "error" /\ out[q] = "error" => out'[q] = "error"
    <3>1. out[r] = "none"
      BY <1>0 DEF ReportInv, ReportIInv
    <3>2. out[d] = "error" => q \in Requests
      BY <2>2 DEF DownloadInv, Requests
    <3>3. \A x \in Requests \ {r} : out'[x] = out[x]
      BY <1>0 DEF ShapeInv
    <3>. QED
      BY <3>1, <3>2, <3>3
  <2>5. out[d] = "ok" /\ q \in DOMAIN reports =>
           q \in DOMAIN reports' /\ reports'[q] = reports[q]
    OBVIOUS
  <2>. QED
    BY <1>1, <2>1, <2>2, <2>3, <2>4, <2>5 DEF DownloadInv
<1>. QED
  BY <1>2, <1>3, <1>4 DEF ReportIInv

\* The name of a file tells its report.
LEMMA FilesByReport ==
    ASSUME NEW r, NEW path, path[1] = r, NEW c, files' = Stored(path, c)
    PROVE  /\ FilesOf(r)' = FilesOf(r) \union {path}
           /\ path \in DOMAIN files' /\ files'[path] = c
           /\ path \notin DOMAIN files /\ r \notin DOMAIN reports => OwnFilesOnly(r)
  BY DEF FilesOf, Stored, OwnFilesOnly

LEMMA BeginKeeps ==
    ASSUME ReportIInv, NEW r \in Reporter, ReportNotFound(r) \/ LockCase(r)
    PROVE  ReportIInv'
<1>. USE RequestsAssumption
<1>0. ShapeInv /\ ReportInv(r) /\ r \in Requests /\ IsDraft(draft[r]) /\ r # Nobody
  BY DEF ReportIInv, Requests, ShapeInv
<1>1. CASE ReportNotFound(r)
  <2>1. /\ pc'[r] = "done" /\ out'[r] = "not_found" /\ pc[r] = "idle"
        /\ UNCHANGED <<clock, rows, trail, reports, files, lock, draft, request, served, history>>
        /\ Goto(r, "done") /\ out' = [out EXCEPT ![r] = "not_found"]
    BY <1>0, <1>1 DEF ReportNotFound, Answer, Goto, ShapeInv
  <2>2. ReportInv(r)'
    BY <1>0, <2>1 DEF ReportInv, FilesOf
  <2>3. /\ DOMAIN draft' = Reporter /\ IsDraft(draft[r])'
        /\ \A q \in Reporter \ {r} : draft'[q] = draft[q]
    BY <1>0, <2>1 DEF ShapeInv, IsDraft
  <2>4. OwnFilesOnly(r)
    BY <2>1 DEF OwnFilesOnly
  <2>. QED
    BY <1>0, <2>1, <2>2, <2>3, <2>4, ReportStepKeeps
<1>2. CASE LockCase(r)
  <2>1. PICK f \in Formats :
           draft' = [draft EXCEPT
              ![r] = [format |-> f, at |-> clock, next |-> 1,
                      read |-> [status |-> rows.status], snapshot |-> None]]
    BY <1>2 DEF LockCase, StartDraft
  <2>. DEFINE t == [format |-> f, at |-> clock, next |-> 1,
                    read |-> [status |-> rows.status], snapshot |-> None]
  <2>2. draft' = [draft EXCEPT ![r] = t]
    BY <2>1
  <2>3. /\ UNCHANGED <<clock, rows, trail, reports, files, out, request, served, history>>
        /\ Goto(r, "reading") /\ pc[r] = "idle" /\ lock = Nobody /\ lock' = r
    BY <1>2 DEF LockCase, StartDraft
  <2>4. pc'[r] = "reading" /\ out'[r] = "none" /\ draft'[r] = t
    BY <1>0, <2>2, <2>3 DEF ShapeInv, ReportInv, Goto
  <2>5. IsDraft(t)
    BY <1>0 DEF IsDraft, ShapeInv
  <2>6. t.read = [x \in Fields(t.next) |-> Told(r)'[x]]
    <3>1. Told(r)'["status"] = rows["status"]
      BY <1>0, <2>3 DEF Told, Database, ShapeInv, Columns
    <3>2. Fields(1) = {"status"}
      BY FieldsInOrder
    <3>. HIDE DEF Told
    <3>3. [status |-> rows.status] = [x \in {"status"} |-> Told(r)'[x]]
      BY <3>1
    <3>. QED
      BY <3>2, <3>3
  <2>7. FilesOf(r)' = FilesOf(r) /\ OwnFilesOnly(r)
    BY <2>3 DEF FilesOf, OwnFilesOnly
  <2>8. ReportInv(r)'
    <3>. HIDE DEF t
    <3>1. draft'[r].next = 1 /\ draft'[r].read = [x \in Fields(draft'[r].next) |-> Told(r)'[x]]
      BY <2>4, <2>6 DEF t
    <3>. QED
      BY <1>0, <2>3, <2>4, <2>7, <3>1 DEF ReportInv
  <2>9. /\ DOMAIN draft' = Reporter /\ IsDraft(draft[r])'
        /\ \A q \in Reporter \ {r} : draft'[q] = draft[q]
    <3>. HIDE DEF t
    <3>. QED
      BY <1>0, <2>2, <2>4, <2>5 DEF ShapeInv, IsDraft
  <2>. HIDE DEF t
  <2>. QED
    BY <1>0, <2>3, <2>7, <2>8, <2>9, ReportStepKeeps
<1>. QED
  BY <1>1, <1>2

\* A section joins what has been read.
LEMMA ReadKeeps ==
    ASSUME ReportIInv, NEW r \in Reporter, ReadSection(r)
    PROVE  ReportIInv'
<1>. DEFINE k == draft[r].next
            found == FieldsOf(Sections[k])
<1>0. /\ ShapeInv /\ ReportInv(r) /\ r \in Requests /\ IsDraft(draft[r])
      /\ DOMAIN rows = Columns
  BY DEF ReportIInv, Requests, ShapeInv
<1>1. /\ UNCHANGED <<clock, rows, trail, reports, files, lock, pc, out, request, served, history>>
      /\ pc[r] = "reading" /\ k <= 7
      /\ draft' = [draft EXCEPT
            ![r].next = k + 1,
            ![r].read = [x \in DOMAIN draft[r].read \union found |->
                            IF x \in found THEN Returned(r, x) ELSE draft[r].read[x]]]
  BY FieldsInOrder DEF ReadSection
<1>2. k \in 1..7 /\ draft[r].read = [x \in Fields(k) |-> Told(r)[x]]
  BY <1>0, <1>1 DEF ReportInv
<1>3. Fields(k + 1) = Fields(k) \union found
  BY <1>2, FieldsInOrder
<1>4. \A x \in found : Returned(r, x) = Told(r)[x]
  <2>1. CASE "artifacts" \in found
    <3>1. "evidence" \in Fields(k)
      BY <1>2, <2>1, FieldsInOrder
    <3>2. Told(r)["evidence"] = rows.evidence /\ Told(r)["artifacts"] = rows.artifacts
      BY <1>0 DEF Told, Database, Columns
    <3>3. draft[r].read.evidence = rows.evidence
      BY <1>2, <3>1, <3>2
    <3>4. {a \in rows.artifacts : a.evidence \in draft[r].read.evidence} = rows.artifacts
      BY <1>0, <3>3 DEF ShapeInv
    <3>. QED
      BY <3>2, <3>4 DEF Returned, Told
  <2>2. CASE "artifacts" \notin found
    BY <2>2 DEF Returned, Told
  <2>. QED
    BY <2>1, <2>2
<1>. HIDE DEF found, k
<1>. DEFINE read == [x \in DOMAIN draft[r].read \union found |->
                        IF x \in found THEN Returned(r, x) ELSE draft[r].read[x]]
<1>5. read = [x \in Fields(k + 1) |-> Told(r)[x]]
  BY <1>2, <1>3, <1>4
<1>. HIDE DEF read
<1>6. draft' = [draft EXCEPT ![r].next = k + 1, ![r].read = read]
  BY <1>1 DEF read
<1>7. /\ DOMAIN draft' = Reporter /\ DOMAIN draft'[r] = DOMAIN draft[r]
      /\ draft'[r].next = k + 1 /\ draft'[r].read = read /\ draft'[r].at = draft[r].at
      /\ \A q \in Reporter \ {r} : draft'[q] = draft[q]
  BY <1>0, <1>6 DEF ShapeInv, IsDraft
<1>8. Told(r)' = Told(r)
  BY <1>1, <1>7, ToldStays
<1>9. FilesOf(r)' = FilesOf(r) /\ OwnFilesOnly(r)
  BY <1>1 DEF FilesOf, OwnFilesOnly
<1>10. ReportInv(r)'
  <2>1. draft'[r].next \in 1..8
        /\ draft'[r].read = [x \in Fields(draft'[r].next) |-> Told(r)'[x]]
    BY <1>2, <1>5, <1>7, <1>8
  <2>. QED
    BY <1>0, <1>1, <1>9, <2>1 DEF ReportInv
<1>11. Goto(r, "reading") /\ IsDraft(draft[r])'
  BY <1>0, <1>1, <1>7 DEF ShapeInv, IsDraft, Goto
<1>. QED
  BY <1>0, <1>1, <1>7, <1>9, <1>10, <1>11, ReportStepKeeps

\* The snapshot is the database as it is, and stays so while files are written.
LEMMA WriteKeeps ==
    ASSUME ReportIInv, NEW r \in Reporter, WriteSnapshot(r) \/ WriteOutput(r)
    PROVE  ReportIInv'
<1>0. /\ ShapeInv /\ ReportInv(r) /\ r \in Requests /\ IsDraft(draft[r])
      /\ DOMAIN rows = Columns
  BY DEF ReportIInv, Requests, ShapeInv
<1>1. /\ UNCHANGED <<clock, rows, trail, reports, lock, out, request, served, history>>
      /\ pc[r] \in {"reading", "writing"} /\ \E p \in {"writing", "written"} : Goto(r, p)
      /\ pc'[r] \in {"writing", "written"}
  BY <1>0 DEF WriteSnapshot, WriteOutput, ShapeInv, Goto
<1>2. OwnFilesOnly(r)
  <2>1. r \notin DOMAIN reports
    BY <1>0, <1>1 DEF ReportInv
  <2>2. SnapshotPath(r)[1] = r /\ OutputPath(r)[1] = r
    BY DEF SnapshotPath, OutputPath
  <2>. QED
    BY <2>1, <2>2, FilesByReport DEF WriteSnapshot, WriteOutput
<1>3. /\ DOMAIN draft' = Reporter /\ IsDraft(draft[r])'
      /\ draft'[r].at = draft[r].at /\ draft'[r].format = draft[r].format
      /\ draft'[r].snapshot = Snapshot(Told(r))
      /\ \A q \in Reporter \ {r} : draft'[q] = draft[q]
  <2>1. CASE WriteSnapshot(r)
    <3>1. draft[r].read = Told(r)
      <4>1. draft[r].next = 8
        BY <1>0, <2>1, FieldsInOrder DEF WriteSnapshot, ReportInv
      <4>2. pc[r] = "reading"
        BY <2>1 DEF WriteSnapshot
      <4>3. draft[r].read = [x \in Columns \union {"audits"} |-> Told(r)[x]]
        BY <1>0, <4>1, <4>2, FieldsInOrder DEF ReportInv
      <4>. QED
        BY <1>0, <4>3 DEF Told, Database
    <3>2. draft' = [draft EXCEPT ![r].snapshot = Snapshot(Told(r))]
      BY <2>1, <3>1 DEF WriteSnapshot
    <3>. QED
      BY <1>0, <3>2 DEF ShapeInv, IsDraft
  <2>2. CASE WriteOutput(r)
    BY <1>0, <2>2 DEF WriteOutput, ShapeInv, IsDraft, ReportInv
  <2>. QED
    BY <2>1, <2>2
<1>4. Told(r)' = Told(r)
  BY <1>1, <1>3, ToldStays
<1>5. pc'[r] = "written" => Intact(r)'
  <2>1. OutputPath(r)' = OutputPath(r)
    BY <1>3 DEF OutputPath
  <2>2. CASE WriteSnapshot(r) /\ draft[r].format = "json"
    <3>1. OutputPath(r) = SnapshotPath(r)
      BY <2>2 DEF OutputPath, SnapshotPath
    <3>2. /\ files' = Stored(SnapshotPath(r), Rendered("json", Snapshot(draft[r].read)))
          /\ draft' = [draft EXCEPT ![r].snapshot = Snapshot(draft[r].read)]
      BY <2>2 DEF WriteSnapshot
    <3>3. draft'[r].snapshot = Snapshot(draft[r].read)
      BY <1>0, <3>2 DEF ShapeInv, IsDraft
    <3>. QED
      BY <1>3, <2>1, <2>2, <3>1, <3>2, <3>3 DEF Intact, Stored
  <2>3. CASE WriteSnapshot(r) /\ draft[r].format # "json"
    BY <1>0, <2>3 DEF WriteSnapshot, Goto, ShapeInv
  <2>4. CASE WriteOutput(r)
    BY <1>3, <2>1, <2>4 DEF WriteOutput, Intact, Stored
  <2>. QED
    BY <2>2, <2>3, <2>4
<1>6. ReportInv(r)'
  <2>1. pc[r] \in {"reading", "writing", "written"}
    BY <1>1
  <2>2. draft'[r].snapshot = Snapshot(Told(r)')
    BY <1>3, <1>4
  <2>. QED
    BY <1>0, <1>1, <1>5, <2>1, <2>2 DEF ReportInv
<1>. QED
  BY <1>0, <1>1, <1>2, <1>3, <1>6, ReportStepKeeps

\* The row of a report is committed with its audit entry.
LEMMA CommitReportKeeps ==
    ASSUME ReportIInv, NEW r \in Reporter, CommitReport(r)
    PROVE  ReportIInv'
<1>. USE RequestsAssumption
<1>0. ShapeInv /\ ReportInv(r) /\ r \in Requests /\ IsDraft(draft[r]) /\ r # Nobody
  BY DEF ReportIInv, Requests, ShapeInv
<1>1. /\ UNCHANGED <<clock, rows, files, out, draft, request, served, history>>
      /\ pc[r] = "written" /\ Goto(r, "committed") /\ trail' = Append(trail, OwnEntry(r))
      /\ lock' = IF lock = r THEN Nobody ELSE lock
  BY DEF CommitReport, Release
<1>2. lock = r /\ r \notin DOMAIN reports /\ lock' = Nobody /\ pc'[r] = "committed"
  BY <1>0, <1>1 DEF ReportInv, Goto, ShapeInv
<1>3. /\ DOMAIN reports' = DOMAIN reports \union {r}
      /\ \A q \in DOMAIN reports : reports'[q] = reports[q]
      /\ reports'[r].hash = Rendered(draft[r].format, draft[r].snapshot)
      /\ reports'[r].path = OutputPath(r) /\ reports'[r].snapshot = draft[r].snapshot
  BY <1>2 DEF CommitReport
<1>4. FilesOf(r)' = FilesOf(r) /\ OwnFilesOnly(r)
  BY <1>1 DEF FilesOf, OwnFilesOnly
<1>5. ReportInv(r)'
  <2>1. OutputPath(r)' = OutputPath(r) /\ Intact(r)'
    BY <1>0, <1>1 DEF ReportInv, Intact, OutputPath
  <2>. QED
    BY <1>0, <1>1, <1>2, <1>3, <2>1 DEF ReportInv
<1>6. DOMAIN draft' = Reporter /\ IsDraft(draft[r])'
  BY <1>0, <1>1 DEF ShapeInv, IsDraft
<1>. QED
  BY <1>0, <1>1, <1>2, <1>3, <1>4, <1>5, <1>6, ReportStepKeeps

\* A report that fails takes its files away, or is refused to; the row of one
\* that fails after the commit stays.
LEMMA EndKeeps ==
    ASSUME ReportIInv, NEW r \in Reporter, GetReport(r) \/ FailReport(r)
    PROVE  ReportIInv'
<1>. USE RequestsAssumption
<1>0. ShapeInv /\ ReportInv(r) /\ r \in Requests /\ IsDraft(draft[r]) /\ r # Nobody
  BY DEF ReportIInv, Requests, ShapeInv
<1>1. /\ UNCHANGED <<clock, rows, trail, reports, draft, request, served>>
      /\ pc[r] # "done" /\ pc'[r] = "done" /\ Goto(r, "done")
      /\ \E a \in {"ok", "error"} : out' = [out EXCEPT ![r] = a]
      /\ GetReport(r) => out'[r] = "ok"
  BY <1>0 DEF GetReport, FailReport, Answer, Goto, ShapeInv
<1>2. lock' \in {lock, Nobody} /\ lock' # r /\ (lock' # lock => lock = r)
  BY <1>0 DEF GetReport, FailReport, Release, ReportInv
<1>3. /\ OwnFilesOnly(r)
      /\ history' \in {history, [history EXCEPT !.refused = @ \union {r}]}
      /\ out'[r] = "error" => FilesOf(r)' = {} \/ r \in history'.refused
      /\ GetReport(r) => files' = files /\ history' = history
  <2>1. CASE GetReport(r)
    BY <1>1, <2>1 DEF GetReport, OwnFilesOnly
  <2>2. CASE FailReport(r)
    <3>1. PICK kept \in SUBSET FilesOf(r) :
             /\ files' = [p \in (DOMAIN files \ FilesOf(r)) \union kept |-> files[p]]
             /\ history' = IF kept = {} THEN history
                           ELSE [history EXCEPT !.refused = @ \union {r}]
      BY <2>2 DEF FailReport, CleanupOperation
    <3>2. OwnFilesOnly(r) /\ (kept = {} => FilesOf(r)' = {})
      BY <3>1 DEF FilesOf, OwnFilesOnly
    <3>3. kept # {} => r \in history'.refused
      BY <1>0, <3>1 DEF ShapeInv
    <3>. QED
      BY <2>2, <3>1, <3>2, <3>3 DEF GetReport, FailReport, Answer
  <2>. QED
    BY <2>1, <2>2
<1>4. out'[r] \in {"ok", "error"}
  BY <1>0, <1>1 DEF ShapeInv
<1>5. ReportInv(r)'
  <2>1. OutputPath(r)' = OutputPath(r) /\ history'.changed = history.changed
    BY <1>0, <1>1, <1>3 DEF OutputPath, ShapeInv
  <2>2. CASE out'[r] = "error"
    BY <1>0, <1>1, <1>2, <1>3, <1>4, <2>1, <2>2 DEF ReportInv
  <2>3. CASE out'[r] = "ok" /\ GetReport(r)
    <3>1. Intact(r)' <=> Intact(r)
      BY <1>1, <1>3, <2>1, <2>3 DEF Intact
    <3>2. out[r] = "none"
      BY <1>0, <1>1 DEF ReportInv
    <3>. QED
      BY <1>0, <1>1, <1>2, <2>1, <2>3, <3>1, <3>2 DEF ReportInv
  <2>. QED
    BY <1>4, <2>2, <2>3, <1>1, <1>0 DEF FailReport, Answer, ShapeInv
<1>6. DOMAIN draft' = Reporter /\ IsDraft(draft[r])'
  BY <1>0, <1>1 DEF ShapeInv, IsDraft
<1>. QED
  BY <1>0, <1>1, <1>2, <1>3, <1>5, <1>6, ReportStepKeeps

-----------------------------------------------------------------------------
\* The other requests.

\* A download changes nothing but its own state.
LEMMA DownloadKeeps ==
    ASSUME ReportIInv, NEW d \in Download,
           \/ DownloadNotFound(d) \/ DownloadUnavailable(d) \/ DownloadCorrupt(d)
           \/ CheckDownload(d) \/ SendFile(d) \/ SendMissing(d)
    PROVE  ReportIInv'
<1>. USE RequestsAssumption
<1>0. /\ ShapeInv /\ DownloadInv(d) /\ d \in Requests /\ d \notin Reporter
      /\ DOMAIN reports \subseteq Reporter
  BY DEF ReportIInv, Requests, ShapeInv
<1>1. /\ UNCHANGED <<clock, rows, trail, reports, files, lock, draft, request, history>>
      /\ \E p \in {"checked", "done"} : Goto(d, p)
      /\ out' = out \/ \E a \in {"ok", "error", "not_found"} : out' = [out EXCEPT ![d] = a]
      /\ served' = served \/ \E t : served' = [served EXCEPT ![d] = t]
  BY DEF DownloadNotFound, DownloadUnavailable, DownloadCorrupt, CheckDownload, SendFile,
         SendMissing, Answer, Served
<1>2. ShapeInv'
  <2>1. EntryShape' = EntryShape
    BY <1>1 DEF EntryShape
  <2>2. \A q \in Reporter : IsDraft(draft[q])'
    BY <1>0, <1>1 DEF ShapeInv, IsDraft
  <2>3. /\ pc' \in [Requests -> {"idle", "reading", "writing", "written", "committed",
                                 "checked", "done"}]
        /\ out' \in [Requests -> {"none", "ok", "error", "not_found", "conflict", "lost"}]
    BY <1>0, <1>1 DEF ShapeInv, Goto
  <2>4. DOMAIN served' = Download
    BY <1>0, <1>1 DEF ShapeInv
  <2>. QED
    BY <1>0, <1>1, <2>1, <2>2, <2>3, <2>4 DEF ShapeInv
<1>3. ASSUME NEW q \in Reporter
      PROVE  ReportInv(q)'
  <2>1. pc'[q] = pc[q] /\ out'[q] = out[q] /\ draft'[q] = draft[q]
    BY <1>0, <1>1 DEF ShapeInv, Goto, Requests
  <2>2. FilesOf(q)' = FilesOf(q)
    BY <1>1 DEF FilesOf
  <2>. QED
    BY <1>1, <2>1, <2>2, ReportStays DEF ReportIInv
<1>4. \A q \in Reporter : out'[q] = out[q]
  BY <1>0, <1>1 DEF ShapeInv, Requests
<1>5. ASSUME NEW c \in Download, c # d
      PROVE  DownloadInv(c)'
  <2>1. pc'[c] = pc[c] /\ out'[c] = out[c] /\ served'[c] = served[c] /\ DownloadInv(c)
    BY <1>0, <1>1, <1>5 DEF ShapeInv, Requests, Goto, ReportIInv
  <2>. QED
    BY <1>1, <1>4, <2>1 DEF DownloadInv
<1>6. DownloadInv(d)'
  <2>1. CASE DownloadNotFound(d)
    BY <1>0, <2>1 DEF DownloadNotFound, Answer, Goto, ShapeInv, DownloadInv
  <2>2. CASE DownloadUnavailable(d) \/ DownloadCorrupt(d)
    <3>1. PICK r \in DOMAIN reports :
             /\ served'[d].report = r
             /\ reports[r].path \in DOMAIN files => files[reports[r].path] # reports[r].hash
      BY <1>0, <2>2 DEF DownloadUnavailable, DownloadCorrupt, Served, ShapeInv
    <3>2. out'[d] = "error" /\ pc'[d] = "done"
      BY <1>0, <2>2 DEF DownloadUnavailable, DownloadCorrupt, Answer, Goto, ShapeInv
    <3>3. r \in history.changed \/ out[r] = "error"
      BY <1>0, <3>1, ZenonT(60) DEF ReportIInv, ReportInv, Intact
    <3>. QED
      BY <1>0, <1>1, <1>4, <3>1, <3>2, <3>3 DEF DownloadInv
  <2>3. CASE CheckDownload(d)
    <3>1. PICK r \in DOMAIN reports :
             /\ files[reports[r].path] = reports[r].hash
             /\ served'[d].report = r
      BY <1>0, <2>3 DEF CheckDownload, Served, ShapeInv
    <3>2. out'[d] = "none" /\ pc'[d] = "checked"
      <4>1. out[d] = "none"
        BY <1>0, <2>3 DEF CheckDownload, DownloadInv
      <4>. QED
        BY <1>0, <2>3, <4>1 DEF CheckDownload, Goto, ShapeInv
    <3>. QED
      BY <1>1, <3>1, <3>2 DEF DownloadInv
  <2>4. CASE SendFile(d)
    <3>. DEFINE r == served[d].report
    <3>1. /\ r \in DOMAIN reports /\ reports[r].path \in DOMAIN files
          /\ d \notin history.changed => files[reports[r].path] = reports[r].hash
      BY <1>0, <2>4 DEF SendFile, DownloadInv
    <3>2. /\ out'[d] = "ok" /\ pc'[d] = "done"
          /\ served'[d].report = r /\ served'[d].content = files[reports[r].path]
      BY <1>0, <2>4 DEF SendFile, Served, Answer, Goto, ShapeInv
    <3>. QED
      BY <1>1, <3>1, <3>2 DEF DownloadInv
  <2>5. CASE SendMissing(d)
    <3>. DEFINE r == served[d].report
    <3>1. r \in DOMAIN reports /\ reports[r].path \notin DOMAIN files
      BY <1>0, <2>5 DEF SendMissing, DownloadInv
    <3>2. out'[d] = "error" /\ pc'[d] = "done" /\ served' = served
      BY <1>0, <2>5 DEF SendMissing, Answer, Goto, ShapeInv
    <3>3. r \in history.changed \/ out[r] = "error"
      BY <1>0, <3>1, ZenonT(60) DEF ReportIInv, ReportInv, Intact
    <3>. QED
      BY <1>0, <1>1, <1>4, <3>1, <3>2, <3>3 DEF DownloadInv
  <2>. QED
    BY <2>1, <2>2, <2>3, <2>4, <2>5
<1>. QED
  BY <1>2, <1>3, <1>5, <1>6 DEF ReportIInv

\* A step of another service changes rows and trail only while no report holds
\* the case.
LEMMA WriterStepKeeps ==
    ASSUME ReportIInv, NEW w \in Writer, UNCHANGED <<reports, files, lock, draft, served, history>>,
           NEW p \in {"writing", "done"}, Goto(w, p),
           out' = out \/ \E a \in {"ok", "conflict"} : out' = [out EXCEPT ![w] = a],
           clock' \in Nat, request' \in [Writer -> [op : Ops \union {"none"}, at : Nat]],
           UNCHANGED <<rows, trail>> \/ lock = Nobody,
           DOMAIN rows' = Columns, \A a \in rows'.artifacts : a.evidence \in rows'.evidence,
           trail' \in Seq(EntryShape)
    PROVE  ReportIInv'
<1>. USE RequestsAssumption
<1>0. ShapeInv /\ w \in Requests /\ w \notin Reporter
  BY DEF ReportIInv, Requests
<1>1. ShapeInv'
  <2>1. EntryShape' = EntryShape
    BY DEF EntryShape
  <2>2. \A q \in Reporter : IsDraft(draft[q])'
    BY <1>0 DEF ShapeInv, IsDraft
  <2>3. /\ pc' \in [Requests -> {"idle", "reading", "writing", "written", "committed",
                                 "checked", "done"}]
        /\ out' \in [Requests -> {"none", "ok", "error", "not_found", "conflict", "lost"}]
    BY <1>0 DEF ShapeInv, Goto
  <2>. QED
    BY <1>0, <2>1, <2>2, <2>3 DEF ShapeInv
<1>2. ASSUME NEW q \in Reporter
      PROVE  ReportInv(q)'
  <2>1. pc'[q] = pc[q] /\ out'[q] = out[q] /\ draft'[q] = draft[q]
    BY <1>0 DEF ShapeInv, Goto, Requests
  <2>2. FilesOf(q)' = FilesOf(q)
    BY DEF FilesOf
  <2>3. lock = q => rows' = rows /\ trail' = trail
    OBVIOUS
  <2>. QED
    BY <2>1, <2>2, <2>3, ReportStays DEF ReportIInv
<1>3. ASSUME NEW d \in Download
      PROVE  DownloadInv(d)'
  <2>1. pc'[d] = pc[d] /\ out'[d] = out[d] /\ \A q \in Reporter : out'[q] = out[q]
    BY <1>0 DEF ShapeInv, Requests, Goto
  <2>. QED
    BY <2>1 DEF ReportIInv, DownloadInv
<1>. QED
  BY <1>1, <1>2, <1>3 DEF ReportIInv

LEMMA CommitKeeps ==
    ASSUME ReportIInv, NEW w \in Writer, NEW op, NEW actions \in Seq(Actions),
           Commit(w, op, actions), DOMAIN rows' = Columns,
           \A a \in rows'.artifacts : a.evidence \in rows'.evidence
    PROVE  ReportIInv'
<1>. DEFINE added == [i \in DOMAIN actions |-> Entry(actions[i], request[w].at, w)]
<1>1. /\ UNCHANGED <<clock, reports, files, lock, draft, request, served, history>>
      /\ lock = Nobody /\ Goto(w, "done") /\ out' = [out EXCEPT ![w] = "ok"]
      /\ trail' = trail \o added
  BY DEF Commit, Answer
<1>2. ShapeInv /\ request[w].at \in Nat
  BY DEF ReportIInv, ShapeInv
<1>3. added \in Seq(EntryShape)
  <2>1. \A i \in DOMAIN actions : added[i] \in EntryShape
    BY <1>2 DEF Entry, EntryShape
  <2>2. DOMAIN actions = 1..Len(actions) /\ Len(actions) \in Nat
    OBVIOUS
  <2>3. added = [i \in 1..Len(actions) |-> added[i]]
    BY <2>2
  <2>. HIDE DEF added, EntryShape
  <2>. QED
    BY <2>1, <2>2, <2>3
<1>. HIDE DEF added
<1>4. trail' \in Seq(EntryShape)
  <2>1. trail \in Seq(EntryShape)
    BY <1>2 DEF ShapeInv
  <2>. HIDE DEF EntryShape
  <2>. QED
    BY <1>1, <1>3, <2>1
<1>. QED
  BY <1>1, <1>2, <1>4, WriterStepKeeps DEF ShapeInv

LEMMA WriterKeeps ==
    ASSUME ReportIInv, NEW w \in Writer,
           \/ BeginWrite(w) \/ Reject(w) \/ UpdateCase(w)
           \/ Register(w) \/ Verify(w) \/ Parse(w) \/ GenerateTimeline(w)
           \/ Correlate(w) \/ ReviewFinding(w) \/ CloseCase(w) \/ ArchiveCase(w)
    PROVE  ReportIInv'
<1>0. /\ ShapeInv /\ DOMAIN rows = Columns
      /\ \A a \in rows.artifacts : a.evidence \in rows.evidence
  BY DEF ReportIInv, ShapeInv
<1>1. CASE BeginWrite(w)
  <2>1. /\ UNCHANGED <<rows, trail, reports, files, lock, out, draft, served, history>>
        /\ Goto(w, "writing") /\ clock' \in {clock, clock + 1}
        /\ \E o \in Ops : request' = [request EXCEPT ![w] = [op |-> o, at |-> clock']]
    BY <1>1 DEF BeginWrite
  <2>2. clock' \in Nat
    BY <1>0, <2>1 DEF ShapeInv
  <2>3. request' \in [Writer -> [op : Ops \union {"none"}, at : Nat]]
    BY <1>0, <2>1, <2>2 DEF ShapeInv
  <2>4. trail' \in Seq(EntryShape)
    BY <1>0, <2>1 DEF ShapeInv
  <2>. QED
    BY <1>0, <2>1, <2>2, <2>3, <2>4, WriterStepKeeps
<1>2. CASE Reject(w)
  <2>1. /\ UNCHANGED <<clock, rows, trail, reports, files, lock, draft, request, served, history>>
        /\ Goto(w, "done") /\ out' = [out EXCEPT ![w] = "conflict"]
    BY <1>2 DEF Reject, Answer
  <2>2. trail' \in Seq(EntryShape) /\ clock' \in Nat
        /\ request' \in [Writer -> [op : Ops \union {"none"}, at : Nat]]
    BY <1>0, <2>1 DEF ShapeInv
  <2>. QED
    BY <1>0, <2>1, <2>2, WriterStepKeeps
<1>3. CASE Register(w)
  <2>1. /\ DOMAIN rows' = Columns /\ rows'.artifacts = rows.artifacts
        /\ rows.evidence \subseteq rows'.evidence
    BY <1>0, <1>3 DEF Register, Columns
  <2>2. <<"EVIDENCE_REGISTERED">> \in Seq(Actions)
    BY DEF Actions
  <2>. QED
    BY <1>0, <1>3, <2>1, <2>2, CommitKeeps DEF Register
<1>4. CASE Verify(w)
  <2>1. /\ DOMAIN rows' = Columns /\ rows'.artifacts = rows.artifacts
        /\ rows'.evidence = rows.evidence
    BY <1>0, <1>4 DEF Verify, Columns
  <2>2. <<"EVIDENCE_VERIFIED">> \in Seq(Actions)
    BY DEF Actions
  <2>. QED
    BY <1>0, <1>4, <2>1, <2>2, CommitKeeps DEF Verify
<1>5. CASE Parse(w)
  <2>1. PICK e \in rows.evidence, t \in Types :
           rows' = [rows EXCEPT !.artifacts =
                      @ \union {[id |-> w, evidence |-> e, type |-> t]}]
    BY <1>5 DEF Parse
  <2>2. /\ DOMAIN rows' = Columns /\ rows'.evidence = rows.evidence
        /\ rows'.artifacts
              = rows.artifacts \union {[id |-> w, evidence |-> e, type |-> t]}
    BY <1>0, <2>1 DEF Columns
  <2>3. \A a \in rows'.artifacts : a.evidence \in rows'.evidence
    BY <1>0, <2>2
  <2>4. <<"PARSER_EXECUTED">> \in Seq(Actions)
    BY DEF Actions
  <2>. QED
    BY <1>5, <2>2, <2>3, <2>4, CommitKeeps DEF Parse
<1>6. CASE GenerateTimeline(w)
  <2>1. /\ DOMAIN rows' = Columns /\ rows'.artifacts = rows.artifacts
        /\ rows'.evidence = rows.evidence
    BY <1>0, <1>6 DEF GenerateTimeline, Columns
  <2>2. <<"TIMELINE_GENERATED">> \in Seq(Actions)
    BY DEF Actions
  <2>. QED
    BY <1>0, <1>6, <2>1, <2>2, CommitKeeps DEF GenerateTimeline
<1>7. CASE Correlate(w)
  <2>. DEFINE actions == (IF rows.timeline = {} THEN <<>> ELSE <<"FINDING_CREATED">>)
                            \o <<"CORRELATION_RUN">>
  <2>1. /\ DOMAIN rows' = Columns /\ rows'.artifacts = rows.artifacts
        /\ rows'.evidence = rows.evidence
    <3>1. PICK runs, findings :
             rows' = [rows EXCEPT !.runs = runs, !.findings = findings]
      BY <1>7 DEF Correlate
    <3>. QED
      BY <1>0, <3>1 DEF Columns
  <2>2. actions \in Seq(Actions)
    <3>1. <<>> \in Seq(Actions) /\ <<"FINDING_CREATED">> \in Seq(Actions)
          /\ <<"CORRELATION_RUN">> \in Seq(Actions)
      BY DEF Actions
    <3>. QED
      BY <3>1
  <2>3. Commit(w, "correlate", actions)
    BY <1>7 DEF Correlate
  <2>. HIDE DEF actions
  <2>. QED
    BY <1>0, <2>1, <2>2, <2>3, CommitKeeps
<1>8. CASE ReviewFinding(w)
  <2>1. /\ DOMAIN rows' = Columns /\ rows'.artifacts = rows.artifacts
        /\ rows'.evidence = rows.evidence
    <3>1. PICK findings : rows' = [rows EXCEPT !.findings = findings]
      BY <1>8 DEF ReviewFinding
    <3>. QED
      BY <1>0, <3>1 DEF Columns
  <2>2. <<"FINDING_UPDATED", "FINDING_STATUS_CHANGED">> \in Seq(Actions)
    BY DEF Actions
  <2>. QED
    BY <1>0, <1>8, <2>1, <2>2, CommitKeeps DEF ReviewFinding
<1>9. CASE CloseCase(w)
  <2>1. /\ DOMAIN rows' = Columns /\ rows'.artifacts = rows.artifacts
        /\ rows'.evidence = rows.evidence
    BY <1>0, <1>9 DEF CloseCase, Columns
  <2>2. <<"CASE_CLOSED">> \in Seq(Actions)
    BY DEF Actions
  <2>. QED
    BY <1>0, <1>9, <2>1, <2>2, CommitKeeps DEF CloseCase
<1>10. CASE ArchiveCase(w)
  <2>1. /\ DOMAIN rows' = Columns /\ rows'.artifacts = rows.artifacts
        /\ rows'.evidence = rows.evidence
    BY <1>0, <1>10 DEF ArchiveCase, Columns
  <2>2. <<"CASE_ARCHIVED">> \in Seq(Actions)
    BY DEF Actions
  <2>. QED
    BY <1>0, <1>10, <2>1, <2>2, CommitKeeps DEF ArchiveCase
<1>11. CASE UpdateCase(w)
  <2>1. <<"CASE_UPDATED">> \in Seq(Actions)
    BY DEF Actions
  <2>. QED
    BY <1>0, <1>11, <2>1, CommitKeeps DEF UpdateCase
<1>. QED
  BY <1>1, <1>2, <1>3, <1>4, <1>5, <1>6, <1>7, <1>8, <1>9, <1>10, <1>11

-----------------------------------------------------------------------------
\* The invariant holds.

LEMMA EnvironmentKeeps ==
    ASSUME ReportIInv, Crash \/ Tamper
    PROVE  ReportIInv'
<1>. USE RequestsAssumption
<1>0. ShapeInv /\ DOMAIN reports \subseteq Reporter
  BY DEF ReportIInv, ShapeInv
<1>1. /\ UNCHANGED <<clock, rows, trail, reports, draft, request, served>>
      /\ DOMAIN files' = DOMAIN files
  BY DEF Crash, Tamper
<1>2. \A q : FilesOf(q)' = FilesOf(q) /\ OutputPath(q)' = OutputPath(q)
  BY <1>1 DEF FilesOf, OutputPath
<1>3. /\ pc' \in [Requests -> {"idle", "reading", "writing", "written", "committed",
                               "checked", "done"}]
      /\ out' \in [Requests -> {"none", "ok", "error", "not_found", "conflict", "lost"}]
  BY <1>0 DEF Crash, Tamper, ShapeInv
<1>4. /\ history' \in [changed : SUBSET (Reporter \union Download), refused : SUBSET Reporter]
      /\ history.changed \subseteq history'.changed /\ history'.refused = history.refused
  <2>1. CASE Crash
    BY <1>0, <2>1 DEF Crash, ShapeInv
  <2>2. CASE Tamper
    <3>1. PICK r \in DOMAIN reports : history' = [history EXCEPT !.changed =
             @ \union {r} \union {d \in Download : pc[d] = "checked" /\ served[d].report = r}]
      BY <2>2 DEF Tamper
    <3>2. r \in Reporter
      BY <1>0
    <3>. QED
      BY <1>0, <3>1, <3>2 DEF ShapeInv
  <2>. QED
    BY <2>1, <2>2
<1>5. ShapeInv'
  <2>1. EntryShape' = EntryShape
    BY <1>1 DEF EntryShape
  <2>2. \A q \in Reporter : IsDraft(draft[q])'
    BY <1>0, <1>1 DEF ShapeInv, IsDraft
  <2>3. lock' \in Reporter \union {Nobody}
    BY <1>0 DEF Crash, Tamper, ShapeInv
  <2>. QED
    BY <1>0, <1>1, <1>3, <1>4, <2>1, <2>2, <2>3 DEF ShapeInv
<1>6. CASE Crash
  <2>1. files' = files /\ history' = history /\ lock' = Nobody
    BY <1>6 DEF Crash
  <2>2. ASSUME NEW q \in Requests
        PROVE  /\ pc'[q] \in {"idle", "done"} /\ (pc'[q] = "idle" <=> pc[q] = "idle")
               /\ out'[q] \in {out[q], "lost"}
               /\ pc[q] \in {"idle", "done"} => out'[q] = out[q]
    BY <1>6 DEF Crash
  <2>3. ASSUME NEW q \in Reporter
        PROVE  ReportInv(q)'
    <3>1. q \in Requests /\ ReportInv(q)
      BY DEF ReportIInv, Requests
    <3>2. Intact(q)' <=> Intact(q)
      BY <1>1, <1>2, <2>1 DEF Intact
    <3>3. out[q] # "none" => out'[q] = out[q]
      BY <2>2, <3>1 DEF ReportInv
    <3>. QED
      BY <1>1, <1>2, <2>1, <2>2, <3>1, <3>2, <3>3 DEF ReportInv
  <2>4. ASSUME NEW d \in Download
        PROVE  DownloadInv(d)'
    <3>1. d \in Requests /\ DownloadInv(d)
      BY DEF ReportIInv, Requests
    <3>2. \A q \in Reporter : out[q] = "error" => out'[q] = "error"
      <4>1. ASSUME NEW q \in Reporter, out[q] = "error"
            PROVE  out'[q] = "error"
        BY <2>2, <4>1 DEF ReportIInv, ReportInv, Requests
      <4>. QED
        BY <4>1
    <3>. QED
      BY <1>1, <2>1, <2>2, <3>1, <3>2 DEF DownloadInv
  <2>. QED
    BY <1>5, <2>3, <2>4 DEF ReportIInv
<1>7. CASE Tamper
  <2>1. PICK r \in DOMAIN reports :
           /\ files' = [files EXCEPT ![reports[r].path] = None]
           /\ history' = [history EXCEPT !.changed = @ \union {r}
                 \union {d \in Download : pc[d] = "checked" /\ served[d].report = r}]
    BY <1>7 DEF Tamper
  <2>2. UNCHANGED <<lock, pc, out>>
    BY <1>7 DEF Tamper
  <2>3. /\ r \in history'.changed
        /\ \A d \in Download : pc[d] = "checked" /\ served[d].report = r =>
              d \in history'.changed
    BY <1>0, <2>1 DEF ShapeInv
  <2>4. /\ \A q \in DOMAIN reports : reports[q].path[1] = q
        /\ \A p \in DOMAIN files : p[1] # r => files'[p] = files[p]
    <3>1. \A q \in DOMAIN reports : reports[q].path[1] = q
      <4>1. \A q : OutputPath(q)[1] = q
        BY DEF OutputPath
      <4>2. \A q \in DOMAIN reports : reports[q].path = OutputPath(q)
        BY <1>0 DEF ReportIInv, ReportInv
      <4>. HIDE DEF OutputPath
      <4>. QED
        BY <4>1, <4>2
    <3>. QED
      BY <2>1, <3>1
  <2>5. ASSUME NEW q \in Reporter
        PROVE  ReportInv(q)'
    <3>1. \A p \in FilesOf(q) :
             files'[p] = files[p] \/ (q \in DOMAIN reports /\ q \in history'.changed)
      BY <2>3, <2>4 DEF FilesOf
    <3>. QED
      BY <1>1, <1>2, <1>4, <2>2, <3>1, ReportStays DEF ReportIInv
  <2>6. ASSUME NEW d \in Download
        PROVE  DownloadInv(d)'
    <3>1. DownloadInv(d)
      BY DEF ReportIInv
    <3>2. pc[d] = "checked" /\ d \notin history'.changed =>
             \A p \in DOMAIN files :
                p = reports[served[d].report].path => files'[p] = files[p]
      BY <2>3, <2>4, <3>1 DEF DownloadInv
    <3>. QED
      BY <1>1, <1>4, <2>2, <3>1, <3>2 DEF DownloadInv
  <2>. QED
    BY <1>5, <2>5, <2>6 DEF ReportIInv
<1>. QED
  BY <1>6, <1>7

LEMMA ReportStarts == ReportInit => ReportIInv
<1>. USE RequestsAssumption
<1>. SUFFICES ASSUME ReportInit PROVE ReportIInv
  OBVIOUS
<1>1. /\ clock = 0 /\ reports = <<>> /\ files = <<>> /\ lock = Nobody
      /\ pc = [r \in Requests |-> "idle"] /\ out = [r \in Requests |-> "none"]
      /\ draft = [r \in Reporter |-> NoDraft]
      /\ request = [w \in Writer |-> [op |-> "none", at |-> 0]]
      /\ served = [d \in Download |-> [report |-> Nobody, content |-> None]]
      /\ history = [changed |-> {}, refused |-> {}]
  BY DEF ReportInit
<1>2. DOMAIN rows = Columns /\ \A a \in rows.artifacts : a.evidence \in rows.evidence
  BY DEF ReportInit, Columns
<1>3. DOMAIN reports = {} /\ DOMAIN files = {}
  BY <1>1
<1>4. trail \in Seq(EntryShape)
  <2>1. \A a \in Actions : Entry(a, 0, Nobody) \in EntryShape
    BY DEF Entry, EntryShape
  <2>2. trail = <<Entry("CASE_CREATED", 0, Nobody), Entry("EVIDENCE_REGISTERED", 0, Nobody),
                  Entry("PARSER_EXECUTED", 0, Nobody),
                  Entry("TIMELINE_GENERATED", 0, Nobody)>>
    BY DEF ReportInit
  <2>3. {"CASE_CREATED", "EVIDENCE_REGISTERED", "PARSER_EXECUTED", "TIMELINE_GENERATED"}
            \subseteq Actions
    BY DEF Actions
  <2>. HIDE DEF EntryShape, Entry, Actions
  <2>. QED
    BY <2>1, <2>2, <2>3
<1>5. ShapeInv
  <2>1. IsDraft(NoDraft)
    BY DEF IsDraft, NoDraft
  <2>. QED
    BY <1>1, <1>2, <1>3, <1>4, <2>1 DEF ShapeInv
<1>6. \A q : FilesOf(q) = {}
  BY <1>3 DEF FilesOf
<1>7. ASSUME NEW q \in Reporter
      PROVE  ReportInv(q)
  <2>1. pc[q] = "idle" /\ out[q] = "none"
    BY <1>1 DEF Requests
  <2>. QED
    BY <1>1, <1>3, <1>6, <2>1 DEF ReportInv
<1>8. ASSUME NEW d \in Download
      PROVE  DownloadInv(d)
  BY <1>1 DEF DownloadInv, Requests
<1>. QED
  BY <1>5, <1>7, <1>8 DEF ReportIInv

LEMMA ReportsStay ==
    ASSUME ReportIInv, UNCHANGED reportVars
    PROVE  ReportIInv'
<1>1. UNCHANGED <<clock, rows, trail, reports, files, lock, pc, out, draft, request, served,
                history>>
  BY DEF reportVars
<1>2. ShapeInv'
  BY <1>1 DEF ReportIInv, ShapeInv, EntryShape, IsDraft
<1>3. \A q \in Reporter : ReportInv(q)'
  <2>1. \A q : FilesOf(q)' = FilesOf(q)
    BY <1>1 DEF FilesOf
  <2>. QED
    BY <1>1, <2>1, ReportStays DEF ReportIInv
<1>4. \A d \in Download : DownloadInv(d)'
  BY <1>1 DEF ReportIInv, DownloadInv
<1>. QED
  BY <1>2, <1>3, <1>4 DEF ReportIInv

LEMMA ReportStep ==
    ASSUME ReportIInv, [ReportNext]_reportVars
    PROVE  ReportIInv'
<1>1. CASE \E r \in Reporter :
              \/ ReportNotFound(r) \/ LockCase(r) \/ ReadSection(r) \/ WriteSnapshot(r)
              \/ WriteOutput(r) \/ CommitReport(r) \/ GetReport(r) \/ FailReport(r)
  BY <1>1, BeginKeeps, ReadKeeps, WriteKeeps, CommitReportKeeps, EndKeeps
<1>2. CASE \E d \in Download :
              \/ DownloadNotFound(d) \/ DownloadUnavailable(d) \/ DownloadCorrupt(d)
              \/ CheckDownload(d) \/ SendFile(d) \/ SendMissing(d)
  BY <1>2, DownloadKeeps
<1>3. CASE \E w \in Writer :
              \/ BeginWrite(w) \/ Reject(w) \/ UpdateCase(w)
              \/ Register(w) \/ Verify(w) \/ Parse(w) \/ GenerateTimeline(w)
              \/ Correlate(w) \/ ReviewFinding(w) \/ CloseCase(w) \/ ArchiveCase(w)
  BY <1>3, WriterKeeps
<1>4. CASE Crash \/ Tamper
  BY <1>4, EnvironmentKeeps
<1>5. CASE UNCHANGED reportVars
  BY <1>5, ReportsStay
<1>. QED
  BY <1>1, <1>2, <1>3, <1>4, <1>5 DEF ReportNext, Quiet

\* ReportIInv is inductive.
THEOREM ReportInvariant == ReportSpec => []ReportIInv
<1>1. ReportIInv /\ [ReportNext]_reportVars => ReportIInv'
  BY ReportStep
<1>. QED
  BY <1>1, ReportStarts, PTL DEF ReportSpec

-----------------------------------------------------------------------------
\* Its consequences.

\* A report that was refused or failed before its commit has no row and no
\* audit entry, and no files but those the file system refused to remove
\* (storage.py, cleanup_operation; report_service.py, generate).
THEOREM FailedReportsLeaveNothing == ReportSpec => []FailedReportLeavesNothing
<1>1. ReportIInv => FailedReportLeavesNothing
  <2>. SUFFICES ASSUME ReportIInv, NEW r \in Reporter, out[r] \in {"error", "not_found"},
                       r \notin DOMAIN reports
                PROVE  /\ FilesOf(r) = {} \/ r \in history.refused
                       /\ \A i \in DOMAIN trail : trail[i].by # r
    BY DEF FailedReportLeavesNothing
  <2>1. FilesOf(r) = {} \/ r \in history.refused
    BY DEF ReportIInv, ReportInv
  <2>2. \A i \in DOMAIN trail : trail[i] \in EntryShape
    <3>1. trail \in Seq(EntryShape)
      BY DEF ReportIInv, ShapeInv
    <3>. HIDE DEF EntryShape
    <3>. QED
      BY <3>1
  <2>. QED
    BY <2>1, <2>2, RequestsAssumption DEF EntryShape
<1>. QED
  BY <1>1, ReportInvariant, PTL

\* What a download delivers is the snapshot of its report in the format that
\* was asked for, unless the file was changed from outside between the check of
\* its hash and the sending; it fails only for a report whose file was changed
\* from outside or whose own request failed after its commit
\* (report_service.py, download; routes/reports.py, download_report).
THEOREM DownloadsTellTheirReport == ReportSpec => []DownloadsAreFaithful
<1>1. ReportIInv => DownloadsAreFaithful
  <2>. SUFFICES ASSUME ReportIInv, NEW d \in Download, NEW r, r = served[d].report
                PROVE  /\ out[d] = "ok" =>
                             \/ /\ r \in DOMAIN reports
                                /\ served[d].content
                                      = Rendered(draft[r].format, reports[r].snapshot)
                             \/ d \in history.changed
                       /\ out[d] = "error" => r \in history.changed \/ out[r] = "error"
    BY DEF DownloadsAreFaithful
  <2>1. DownloadInv(d)
    BY DEF ReportIInv
  <2>2. r \in DOMAIN reports =>
           reports[r].hash = Rendered(draft[r].format, reports[r].snapshot)
    BY DEF ReportIInv, ReportInv, ShapeInv
  <2>. QED
    BY <2>1, <2>2 DEF DownloadInv
<1>. QED
  BY <1>1, ReportInvariant, PTL

\* A report that appears is the one that commits, and tells the state it
\* commits in.
LEMMA NewReport ==
    ASSUME ReportIInv, [ReportNext]_reportVars, NEW r \in DOMAIN reports' \ DOMAIN reports
    PROVE  /\ r \in Reporter /\ CommitReport(r)
           /\ reports'[r].snapshot = Snapshot(Database(SelectAudits(trail')))
<1>1. PICK q \in Reporter : CommitReport(q)
  BY DEF ReportNext, reportVars, Quiet, Crash, Tamper,
        ReportNotFound, LockCase, ReadSection, WriteSnapshot, WriteOutput, GetReport,
        FailReport, DownloadNotFound, DownloadUnavailable, DownloadCorrupt,
        CheckDownload, SendFile, SendMissing,
        BeginWrite, Reject, Commit, UpdateCase, Register, Verify, Parse, GenerateTimeline,
        Correlate, ReviewFinding, CloseCase, ArchiveCase
<1>2. /\ trail' = Append(trail, OwnEntry(q)) /\ pc[q] = "written" /\ rows' = rows
      /\ reports' = [p \in DOMAIN reports \union {q} |->
            IF p = q
            THEN [at |-> draft[q].at, snapshot |-> draft[q].snapshot,
                  path |-> OutputPath(q),
                  hash |-> Rendered(draft[q].format, draft[q].snapshot)]
            ELSE reports[p]]
  BY <1>1 DEF CommitReport
<1>3. r = q /\ reports'[r].snapshot = draft[q].snapshot
  BY <1>2
<1>4. draft[q].snapshot = Snapshot(Told(q))
  BY <1>2 DEF ReportIInv, ReportInv
<1>. QED
  BY <1>1, <1>2, <1>3, <1>4, SMTT(40) DEF Told

\* All sections of a report tell the one state the database is in when the
\* report is committed, although they are read by many statements
\* (snapshot.py, build; report_service.py, generate).
THEOREM ReportsTellOneState == ReportSpec => ReportIsOneState
<1>1. ReportIInv /\ [ReportNext]_reportVars =>
         [\A r \in DOMAIN reports' \ DOMAIN reports :
             reports'[r].snapshot = Snapshot(Database(SelectAudits(trail')))]_reportVars
  BY NewReport
<1>. QED
  BY <1>1, ReportInvariant, PTL DEF ReportSpec, ReportIsOneState

-----------------------------------------------------------------------------
\* The order and the limit of audit entries.

LEMMA LeastNatural ==
    ASSUME NEW S, S \subseteq Nat, S # {}
    PROVE  \E x \in S : \A y \in S : x <= y
<1>1. \E x \in S : \A y \in S : <<y, x>> \notin OpToRel(<, Nat)
  BY NatLessThanWellFounded, WFMin
<1>2. PICK x \in S : \A y \in S : <<y, x>> \notin OpToRel(<, Nat)
  BY <1>1
<1>3. \A y \in S : ~(y < x)
  BY <1>2 DEF OpToRel
<1>. QED
  BY <1>3

LEMMA MaxOfPositions ==
    ASSUME NEW n \in Nat, NEW S \in SUBSET (1..n), S # {}
    PROVE  Max(S) \in S
<1>. DEFINE D == {n - x : x \in S}
<1>1. PICK d \in D : \A e \in D : d <= e
  <2>1. \A x \in S : n - x \in Nat
    OBVIOUS
  <2>2. D \subseteq Nat /\ D # {}
    BY <2>1
  <2>. HIDE DEF D
  <2>. QED
    BY <2>2, LeastNatural
<1>2. PICK x \in S : d = n - x
  BY <1>1
<1>3. ASSUME NEW y \in S
      PROVE  x >= y
  <2>1. n - x <= n - y
    BY <1>1, <1>2
  <2>2. x \in 1..n /\ y \in 1..n
    OBVIOUS
  <2>. QED
    BY <2>1, <2>2
<1>. QED
  BY <1>2, <1>3 DEF Max

LEMMA RankIsNatural == \A e : Rank(e) \in Nat
<1>. SUFFICES ASSUME NEW e PROVE Rank(e) \in Nat
  OBVIOUS
<1>. DEFINE I == {i \in 1..Len(AuditActions) : AuditActions[i] = e.action}
<1>1. Rank(e) = IF I # {} THEN Min(I) ELSE 0
  BY DEF Rank, SelectInSeq
<1>2. I \subseteq Nat
  BY DEF AuditActions
<1>. HIDE DEF I
<1>3. I # {} => Min(I) \in I
  BY <1>2, LeastNatural DEF Min
<1>4. I # {} => Min(I) \in Nat
  BY <1>2, <1>3
<1>5. (IF I # {} THEN Min(I) ELSE 0) \in Nat
  BY <1>4
<1>. QED
  BY <1>1, <1>5

\* ORDER BY compares two entries by time, action and position, in this order:
\* a linear order on the positions.
LEMMA PrecedesIsLinear ==
    ASSUME NEW T, NEW among, among \subseteq Nat, \A i \in among : T[i].at \in Nat
    PROVE  /\ \A i \in among : Precedes(T, i, i)
           /\ \A i, j \in among : Precedes(T, i, j) \/ Precedes(T, j, i)
           /\ \A i, j \in among : Precedes(T, i, j) /\ Precedes(T, j, i) => i = j
           /\ \A i, j, k \in among : Precedes(T, i, j) /\ Precedes(T, j, k) => Precedes(T, i, k)
<1>. DEFINE at(i)   == T[i].at
            rank(i) == Rank(T[i])
<1>1. ASSUME NEW i \in among
      PROVE  i \in Nat /\ at(i) \in Nat /\ rank(i) \in Nat
  BY RankIsNatural
<1>2. ASSUME NEW i \in among, NEW j \in among
      PROVE  Precedes(T, i, j) <=> \/ at(i) < at(j)
                                   \/ at(i) = at(j) /\ rank(i) < rank(j)
                                   \/ at(i) = at(j) /\ rank(i) = rank(j) /\ i <= j
  <2>1. /\ AuditBefore(T[i], T[j]) <=> at(i) < at(j) \/ (at(i) = at(j) /\ rank(i) <= rank(j))
        /\ AuditBefore(T[j], T[i]) <=> at(j) < at(i) \/ (at(j) = at(i) /\ rank(j) <= rank(i))
    BY DEF AuditBefore
  <2>2. Precedes(T, i, j) <=> AuditBefore(T[i], T[j]) /\ (AuditBefore(T[j], T[i]) => i <= j)
    BY DEF Precedes
  <2>3. /\ i \in Nat /\ at(i) \in Nat /\ rank(i) \in Nat
        /\ j \in Nat /\ at(j) \in Nat /\ rank(j) \in Nat
    BY <1>1
  <2>. HIDE DEF at, rank
  <2>. QED
    BY <2>1, <2>2, <2>3
<1>. HIDE DEF at, rank
<1>3. ASSUME NEW i \in among
      PROVE  Precedes(T, i, i)
  BY <1>1, <1>2
<1>4. ASSUME NEW i \in among, NEW j \in among
      PROVE  /\ Precedes(T, i, j) \/ Precedes(T, j, i)
             /\ Precedes(T, i, j) /\ Precedes(T, j, i) => i = j
  <2>1. /\ i \in Nat /\ at(i) \in Nat /\ rank(i) \in Nat
        /\ j \in Nat /\ at(j) \in Nat /\ rank(j) \in Nat
    BY <1>1
  <2>2. /\ Precedes(T, i, j) <=> \/ at(i) < at(j)
                                 \/ at(i) = at(j) /\ rank(i) < rank(j)
                                 \/ at(i) = at(j) /\ rank(i) = rank(j) /\ i <= j
        /\ Precedes(T, j, i) <=> \/ at(j) < at(i)
                                 \/ at(j) = at(i) /\ rank(j) < rank(i)
                                 \/ at(j) = at(i) /\ rank(j) = rank(i) /\ j <= i
    BY <1>2
  <2>. QED
    BY <2>1, <2>2, SMTT(40)
<1>5. ASSUME NEW i \in among, NEW j \in among, NEW k \in among,
             Precedes(T, i, j), Precedes(T, j, k)
      PROVE  Precedes(T, i, k)
  <2>1. /\ \/ at(i) < at(j)
           \/ at(i) = at(j) /\ rank(i) < rank(j)
           \/ at(i) = at(j) /\ rank(i) = rank(j) /\ i <= j
        /\ \/ at(j) < at(k)
           \/ at(j) = at(k) /\ rank(j) < rank(k)
           \/ at(j) = at(k) /\ rank(j) = rank(k) /\ j <= k
    BY <1>2, <1>5
  <2>2. /\ i \in Nat /\ at(i) \in Nat /\ rank(i) \in Nat
        /\ j \in Nat /\ at(j) \in Nat /\ rank(j) \in Nat
        /\ k \in Nat /\ at(k) \in Nat /\ rank(k) \in Nat
    BY <1>1
  <2>3. \/ at(i) < at(k)
        \/ at(i) = at(k) /\ rank(i) < rank(k)
        \/ at(i) = at(k) /\ rank(i) = rank(k) /\ i <= k
    BY <2>1, <2>2
  <2>. QED
    BY <1>2, <2>3
<1>. QED
  BY <1>3, <1>4, <1>5

\* ORDER BY puts the entries at some positions in a sequence: Place numbers
\* them from one on.
LEMMA PlacesAreNumbered ==
    ASSUME NEW T, NEW among, among \subseteq Nat, IsFiniteSet(among),
           \A i \in among : T[i].at \in Nat
    PROVE  LET n == Cardinality(among)
           IN  /\ n \in Nat
               /\ \A i \in among : Place(T, among, i) \in 1..n
               /\ \A i, j \in among : Place(T, among, i) = Place(T, among, j) => i = j
               /\ \A k \in 1..n : \E i \in among : Place(T, among, i) = k
<1>. DEFINE n == Cardinality(among)
            UpTo(i) == {j \in among : Precedes(T, j, i)}
            place == [i \in among |-> Place(T, among, i)]
<1>0. /\ n \in Nat
      /\ \A i : /\ UpTo(i) \in SUBSET among /\ IsFiniteSet(UpTo(i))
                /\ Place(T, among, i) = Cardinality(UpTo(i))
                /\ Cardinality(UpTo(i)) \in Nat /\ Cardinality(UpTo(i)) <= n
  BY FS_Subset, FS_CardinalityType DEF Place
<1>1. /\ \A i \in among : Precedes(T, i, i)
      /\ \A i, j \in among : Precedes(T, i, j) \/ Precedes(T, j, i)
      /\ \A i, j \in among : Precedes(T, i, j) /\ Precedes(T, j, i) => i = j
      /\ \A i, j, k \in among : Precedes(T, i, j) /\ Precedes(T, j, k) => Precedes(T, i, k)
  BY PrecedesIsLinear
<1>2. ASSUME NEW i \in among
      PROVE  Place(T, among, i) \in 1..n
  <2>1. i \in UpTo(i)
    BY <1>1
  <2>2. Cardinality(UpTo(i)) # 0
    BY <1>0, <2>1, FS_EmptySet
  <2>. QED
    BY <1>0, <2>2
<1>3. ASSUME NEW i \in among, NEW j \in among, Precedes(T, i, j),
             Place(T, among, i) = Place(T, among, j)
      PROVE  i = j
  <2>1. UpTo(i) \in SUBSET UpTo(j)
    BY <1>1, <1>3
  <2>2. UpTo(i) = UpTo(j)
    <3>. HIDE DEF UpTo
    <3>. QED
      BY <1>0, <1>3, <2>1, FS_Subset
  <2>3. j \in UpTo(i)
    BY <1>1, <2>2
  <2>. QED
    BY <1>1, <1>3, <2>3
<1>4. \A i, j \in among : Place(T, among, i) = Place(T, among, j) => i = j
  BY <1>1, <1>3
<1>5. \A k \in 1..n : \E i \in among : Place(T, among, i) = k
  <2>1. place \in Injection(among, 1..n)
    BY <1>2, <1>4 DEF Injection, IsInjective
  <2>2. IsFiniteSet(1..n) /\ Cardinality(1..n) = n
    BY <1>0, FS_Interval
  <2>3. place \in Surjection(among, 1..n)
    <3>. HIDE DEF place, n
    <3>. QED
      BY <2>1, <2>2, FS_Injection DEF n
  <2>. QED
    BY <2>3 DEF Surjection
<1>. QED
  BY <1>0, <1>2, <1>4, <1>5


\* A limited list of audit entries leaves out only entries that as many others
\* as it shows come before.
LEMMA OldestEntries ==
    ASSUME NEW T, NEW among, among \subseteq Nat, IsFiniteSet(among),
           \A i \in among : T[i].at \in Nat
    PROVE  /\ \E m \in Nat : DOMAIN Oldest(T, among) = 1..m
           /\ \A k \in DOMAIN Oldest(T, among) : \E i \in among : Oldest(T, among)[k] = T[i]
           /\ \A i \in among :
                 \/ \E k \in DOMAIN Oldest(T, among) : Oldest(T, among)[k] = T[i]
                 \/ Place(T, among, i) > MaxAuditEvents
<1>. USE MaxAuditAssumption
<1>. DEFINE n == Cardinality(among)
            m == Min({MaxAuditEvents, n})
            places == {<<Place(T, among, i), i>> : i \in among}
            place(k) == (CHOOSE p \in places : p[1] = k)[2]
<1>1. /\ n \in Nat
      /\ \A i \in among : Place(T, among, i) \in 1..n
      /\ \A i, j \in among : Place(T, among, i) = Place(T, among, j) => i = j
      /\ \A k \in 1..n : \E i \in among : Place(T, among, i) = k
  BY PlacesAreNumbered
<1>2. Oldest(T, among) = [k \in 1..m |-> T[place(k)]]
  BY DEF Oldest
<1>3. m = (IF MaxAuditEvents <= n THEN MaxAuditEvents ELSE n)
  <2>. HIDE DEF n
  <2>. QED
    BY <1>1 DEF Min
<1>4. \A k \in 1..n : place(k) \in among /\ Place(T, among, place(k)) = k
  <2>. SUFFICES ASSUME NEW k \in 1..n
                PROVE  place(k) \in among /\ Place(T, among, place(k)) = k
    OBVIOUS
  <2>1. PICK i \in among : Place(T, among, i) = k
    BY <1>1
  <2>2. <<k, i>> \in places /\ <<k, i>>[1] = k
    BY <2>1
  <2>3. /\ (CHOOSE p \in places : p[1] = k) \in places
        /\ (CHOOSE p \in places : p[1] = k)[1] = k
    <3>. HIDE DEF places
    <3>. QED
      BY <2>2
  <2>4. \A p \in places : p[2] \in among /\ Place(T, among, p[2]) = p[1]
    OBVIOUS
  <2>. QED
    BY <2>3, <2>4
<1>5. m \in Nat /\ m <= n
  <2>. HIDE DEF n, m
  <2>. QED
    BY <1>1, <1>3
<1>6. ASSUME NEW i \in among, ~(Place(T, among, i) > MaxAuditEvents)
      PROVE  \E k \in DOMAIN Oldest(T, among) : Oldest(T, among)[k] = T[i]
  <2>. DEFINE k == Place(T, among, i)
  <2>1. k \in 1..n
    BY <1>1
  <2>2. k \in 1..m
    <3>. HIDE DEF n, m, k
    <3>1. ~(k > MaxAuditEvents)
      BY <1>6 DEF k
    <3>. QED
      BY <1>1, <1>3, <2>1, <3>1
  <2>3. place(k) = i
    <3>. HIDE DEF n, place, places
    <3>. QED
      BY <1>1, <1>4, <2>1
  <2>. HIDE DEF k, m, place, places
  <2>. QED
    BY <1>2, <2>2, <2>3
<1>7. \A k \in 1..m : k \in 1..n
  <2>. HIDE DEF n, m
  <2>. QED
    BY <1>1, <1>5
<1>. HIDE DEF n, m, place, places
<1>8. DOMAIN Oldest(T, among) = 1..m
  BY <1>2
<1>9. \A k \in DOMAIN Oldest(T, among) : \E i \in among : Oldest(T, among)[k] = T[i]
  BY <1>2, <1>4, <1>7, <1>8
<1>. QED
  BY <1>5, <1>6, <1>8, <1>9

Occurs(T, action) == \E i \in DOMAIN T : T[i].action = action

CutOffIn(T, action) ==
    \E i \in DOMAIN T :
        /\ T[i].action = action
        /\ Cardinality({j \in DOMAIN T : Listed(T[j]) /\ AuditBefore(T[j], T[i])})
              > MaxAuditEvents

Lifecycle == {"CASE_CLOSED", "CASE_ARCHIVED"}

\* A report gives the time of an entry exactly when there is one, unless the
\* limit has cut it off.
LEMMA TimesFromEntries ==
    ASSUME NEW T, NEW a \in Lifecycle, NEW l \in Nat, DOMAIN T = 1..l,
           \A i \in DOMAIN T : T[i].at \in Nat
    PROVE  LET t == AuditTimestamp(SelectAudits(T), a)
           IN  /\ t # None => Occurs(T, a)
               /\ Occurs(T, a) => t # None \/ CutOffIn(T, a)
<1>. USE MaxAuditAssumption, NoneAssumption
<1>. DEFINE among == {i \in DOMAIN T : Listed(T[i])}
            A == Oldest(T, among)
            at == {k \in DOMAIN A : A[k].action = a}
            t == AuditTimestamp(SelectAudits(T), a)
<1>1. SelectAudits(T) = A /\ t = IF at = {} THEN None ELSE A[Max(at)].at
  BY DEF SelectAudits, AuditTimestamp
<1>2. IsFiniteSet(DOMAIN T) /\ among \in SUBSET DOMAIN T
  BY FS_Interval
<1>3. IsFiniteSet(among) /\ among \subseteq Nat
  <2>. HIDE DEF among
  <2>. QED
    BY <1>2, FS_Subset
<1>4. /\ \E m \in Nat : DOMAIN A = 1..m
      /\ \A k \in DOMAIN A : \E i \in among : A[k] = T[i]
      /\ \A i \in among :
            (\E k \in DOMAIN A : A[k] = T[i]) \/ Place(T, among, i) > MaxAuditEvents
  <2>1. \A i \in among : T[i].at \in Nat
    BY <1>2
  <2>. HIDE DEF among
  <2>. QED
    BY <1>3, <2>1, OldestEntries
<1>5. at # {} => Occurs(T, a) /\ t # None
  <2>. SUFFICES ASSUME at # {} PROVE Occurs(T, a) /\ t # None
    OBVIOUS
  <2>1. PICK m \in Nat : DOMAIN A = 1..m
    BY <1>4
  <2>2. at \in SUBSET (1..m)
    BY <2>1
  <2>3. Max(at) \in at
    <3>. HIDE DEF at
    <3>. QED
      BY <2>2, MaxOfPositions
  <2>4. Max(at) \in DOMAIN A /\ A[Max(at)].action = a
    BY <2>3
  <2>5. PICK i \in among : A[Max(at)] = T[i]
    BY <1>4, <2>4
  <2>6. i \in DOMAIN T /\ T[i].action = a /\ T[i].at \in Nat
    BY <2>4, <2>5
  <2>7. t = T[i].at
    <3>. HIDE DEF at, A
    <3>. QED
      BY <1>1, <2>5
  <2>. QED
    BY <2>6, <2>7 DEF Occurs
<1>6. ASSUME Occurs(T, a), at = {}
      PROVE  CutOffIn(T, a)
  <2>1. PICK i \in DOMAIN T : T[i].action = a
    BY <1>6 DEF Occurs
  <2>2. Listed(T[i])
    <3>1. /\ Len(AuditActions) = 12 /\ AuditActions[1] = "CASE_ARCHIVED"
          /\ AuditActions[2] = "CASE_CLOSED"
      BY DEF AuditActions
    <3>. QED
      BY <2>1, <3>1 DEF Listed, Contains, Lifecycle
  <2>3. i \in among
    BY <2>2
  <2>4. ~ \E k \in DOMAIN A : A[k] = T[i]
    BY <1>6, <2>1
  <2>5. Place(T, among, i) > MaxAuditEvents
    <3>. HIDE DEF among, A
    <3>. QED
      BY <1>4, <2>3, <2>4
  <2>. DEFINE P == {j \in among : Precedes(T, j, i)}
              Q == {j \in DOMAIN T : Listed(T[j]) /\ AuditBefore(T[j], T[i])}
  <2>6. P \in SUBSET Q /\ Q \in SUBSET DOMAIN T
    BY DEF Precedes
  <2>7. Place(T, among, i) = Cardinality(P)
    BY DEF Place
  <2>8. Cardinality(P) \in Nat /\ Cardinality(Q) \in Nat /\ Cardinality(P) <= Cardinality(Q)
    <3>. HIDE DEF P, Q
    <3>. QED
      BY <1>2, <2>6, FS_Subset, FS_CardinalityType
  <2>9. Cardinality(Q) > MaxAuditEvents
    <3>. HIDE DEF P, Q, among
    <3>. QED
      BY <2>5, <2>7, <2>8
  <2>. QED
    BY <2>1, <2>9 DEF CutOffIn
<1>. HIDE DEF at, A, among
<1>. QED
  BY <1>1, <1>5, <1>6


-----------------------------------------------------------------------------
\* Status, trail and reports.

\* The trail tells the status.
StatusInv ==
    /\ rows.status \in {"OPEN", "CLOSED", "ARCHIVED"}
    /\ Occurs(trail, "CASE_CLOSED") <=> rows.status \in {"CLOSED", "ARCHIVED"}
    /\ Occurs(trail, "CASE_ARCHIVED") <=> rows.status = "ARCHIVED"

TrailGrows ==
    /\ trail' \in Seq(EntryShape')
    /\ DOMAIN trail \subseteq DOMAIN trail'
    /\ \A i \in DOMAIN trail : trail'[i] = trail[i]

LEMMA TrailShape ==
    ASSUME ReportIInv
    PROVE  /\ Len(trail) \in Nat /\ DOMAIN trail = 1..Len(trail)
           /\ \A i \in DOMAIN trail : trail[i].at \in Nat /\ trail[i] \in EntryShape
<1>1. trail \in Seq(EntryShape)
  BY DEF ReportIInv, ShapeInv
<1>2. \A i \in DOMAIN trail : trail[i] \in EntryShape
  <2>. HIDE DEF EntryShape
  <2>. QED
    BY <1>1
<1>. QED
  BY <1>1, <1>2 DEF EntryShape

\* An entry that is cut off stays cut off.
LEMMA CutOffStays ==
    ASSUME TrailGrows, NEW a, CutOff(a)
    PROVE  CutOff(a)'
<1>. USE MaxAuditAssumption
<1>1. PICK i \in DOMAIN trail :
         /\ trail[i].action = a
         /\ Cardinality({j \in DOMAIN trail : Listed(trail[j])
                                           /\ AuditBefore(trail[j], trail[i])})
               > MaxAuditEvents
  BY DEF CutOff
<1>. DEFINE P == {j \in DOMAIN trail : Listed(trail[j]) /\ AuditBefore(trail[j], trail[i])}
            Q == {j \in DOMAIN trail' : Listed(trail'[j]) /\ AuditBefore(trail'[j], trail'[i])}
<1>2. P \in SUBSET Q /\ Q \in SUBSET DOMAIN trail'
  BY DEF TrailGrows
<1>3. IsFiniteSet(DOMAIN trail')
  <2>1. Len(trail') \in Nat /\ DOMAIN trail' = 1..Len(trail')
    <3>. HIDE DEF EntryShape
    <3>. QED
      BY DEF TrailGrows
  <2>. QED
    BY <2>1, FS_Interval
<1>4. Cardinality(P) \in Nat /\ Cardinality(Q) \in Nat /\ Cardinality(P) <= Cardinality(Q)
  <2>. HIDE DEF P, Q
  <2>. QED
    BY <1>2, <1>3, FS_Subset, FS_CardinalityType
<1>5. Cardinality(Q) > MaxAuditEvents
  <2>1. Cardinality(P) > MaxAuditEvents
    BY <1>1
  <2>. HIDE DEF P, Q
  <2>. QED
    BY <1>4, <2>1
<1>6. i \in DOMAIN trail' /\ trail'[i].action = a
  BY <1>1 DEF TrailGrows
<1>. QED
  BY <1>5, <1>6 DEF CutOff

\* A sequence followed by another, element by element.
LEMMA Concatenated ==
    ASSUME NEW S, NEW s \in Seq(S), NEW t \in Seq(S)
    PROVE  /\ DOMAIN (s \o t) = 1..(Len(s) + Len(t))
           /\ \A i \in 1..(Len(s) + Len(t)) :
                 (s \o t)[i] = IF i <= Len(s) THEN s[i] ELSE t[i - Len(s)]
  OBVIOUS

\* The commit of another service adds the entries of its actions.
LEMMA CommitOccurs ==
    ASSUME ReportIInv, NEW w, NEW op, NEW actions \in Seq(Actions), Commit(w, op, actions)
    PROVE  /\ DOMAIN trail \subseteq DOMAIN trail'
           /\ \A i \in DOMAIN trail : trail'[i] = trail[i]
           /\ \A a : Occurs(trail', a) <=> Occurs(trail, a) \/ \E i \in DOMAIN actions :
                                                                  actions[i] = a
<1>. DEFINE added == [i \in DOMAIN actions |-> Entry(actions[i], request[w].at, w)]
<1>1. trail' = trail \o added
  BY DEF Commit
<1>2. /\ Len(actions) \in Nat /\ DOMAIN actions = 1..Len(actions)
      /\ DOMAIN added = 1..Len(actions)
      /\ \A i \in DOMAIN actions : added[i].action = actions[i]
  BY DEF Entry
<1>3. Len(added) = Len(actions)
  <2>. HIDE DEF added
  <2>. QED
    BY <1>2
<1>4. Len(trail) \in Nat /\ DOMAIN trail = 1..Len(trail)
  BY TrailShape
<1>. HIDE DEF added
<1>5. /\ DOMAIN trail' = 1..(Len(trail) + Len(actions))
      /\ \A i \in 1..(Len(trail) + Len(actions)) :
            trail'[i] = IF i <= Len(trail) THEN trail[i] ELSE added[i - Len(trail)]
  <2>. DEFINE S == EntryShape \union {added[i] : i \in 1..Len(actions)}
  <2>1. trail \in Seq(S)
    <3>1. trail \in Seq(EntryShape)
      BY DEF ReportIInv, ShapeInv
    <3>. HIDE DEF EntryShape
    <3>. QED
      BY <3>1
  <2>2. added \in Seq(S)
    <3>1. added \in [1..Len(actions) -> S]
      <4>. HIDE DEF EntryShape
      <4>. QED
        BY <1>2 DEF added
    <3>. HIDE DEF S
    <3>. QED
      BY <3>1, <1>2
  <2>. DEFINE both == trail \o added
  <2>. HIDE DEF S
  <2>3. /\ DOMAIN both = 1..(Len(trail) + Len(added))
        /\ \A i \in 1..(Len(trail) + Len(added)) :
              both[i] = IF i <= Len(trail) THEN trail[i] ELSE added[i - Len(trail)]
    BY <2>1, <2>2, Concatenated, Zenon
  <2>4. trail' = both
    BY <1>1, Zenon
  <2>. HIDE DEF both
  <2>. QED
    BY <1>3, <2>3, <2>4, Zenon
<1>6. ASSUME NEW a
      PROVE  Occurs(trail', a) <=> Occurs(trail, a) \/ \E i \in DOMAIN actions : actions[i] = a
  <2>1. ASSUME NEW i \in DOMAIN actions, actions[i] = a
        PROVE  Occurs(trail', a)
    <3>1. /\ Len(trail) + i \in DOMAIN trail' /\ ~(Len(trail) + i <= Len(trail))
          /\ (Len(trail) + i) - Len(trail) = i
      BY <1>2, <1>4, <1>5
    <3>2. trail'[Len(trail) + i] = added[i]
      BY <1>5, <3>1
    <3>. QED
      BY <1>2, <2>1, <3>1, <3>2 DEF Occurs
  <2>2. Occurs(trail, a) => Occurs(trail', a)
    BY <1>2, <1>4, <1>5 DEF Occurs
  <2>3. ASSUME NEW i \in DOMAIN trail', trail'[i].action = a
        PROVE  Occurs(trail, a) \/ \E k \in DOMAIN actions : actions[k] = a
    <3>1. CASE i <= Len(trail)
      BY <1>4, <1>5, <2>3, <3>1 DEF Occurs
    <3>2. CASE ~(i <= Len(trail))
      <4>1. i - Len(trail) \in DOMAIN actions /\ trail'[i] = added[i - Len(trail)]
        BY <1>2, <1>4, <1>5, <3>2
      <4>. QED
        BY <1>2, <2>3, <4>1
    <3>. QED
      BY <3>1, <3>2
  <2>. QED
    BY <2>1, <2>2, <2>3 DEF Occurs
<1>. QED
  BY <1>2, <1>4, <1>5, <1>6


\* A service that leaves the status alone adds no entry about it; closing and
\* archiving add theirs.
LEMMA CommitStatus ==
    ASSUME ReportIInv, StatusInv, NEW w, NEW op, NEW actions \in Seq(Actions),
           Commit(w, op, actions),
           \/ /\ rows'.status = rows.status
              /\ \A i \in DOMAIN actions : actions[i] \notin Lifecycle
           \/ /\ rows.status = "OPEN" /\ rows'.status = "CLOSED"
              /\ actions = <<"CASE_CLOSED">>
           \/ /\ rows.status = "CLOSED" /\ rows'.status = "ARCHIVED"
              /\ actions = <<"CASE_ARCHIVED">>
    PROVE  StatusInv'
<1>1. \A a : Occurs(trail', a) <=> Occurs(trail, a) \/ \E i \in DOMAIN actions : actions[i] = a
  BY CommitOccurs
<1>2. \A a : Occurs(trail, a)' <=> Occurs(trail', a)
  BY DEF Occurs
<1>3. \A x : /\ DOMAIN <<x>> = {1}
             /\ <<x>>[1] = x
  OBVIOUS
<1>. QED
  BY <1>1, <1>2, <1>3 DEF StatusInv, Lifecycle

LEMMA WriterStatus ==
    ASSUME ReportIInv, StatusInv, NEW w \in Writer,
           \/ BeginWrite(w) \/ Reject(w) \/ UpdateCase(w)
           \/ Register(w) \/ Verify(w) \/ Parse(w) \/ GenerateTimeline(w)
           \/ Correlate(w) \/ ReviewFinding(w) \/ CloseCase(w) \/ ArchiveCase(w)
    PROVE  /\ StatusInv' /\ reports' = reports
           /\ DOMAIN trail \subseteq DOMAIN trail'
           /\ \A i \in DOMAIN trail : trail'[i] = trail[i]
<1>0. DOMAIN rows = Columns
  BY DEF ReportIInv, ShapeInv
<1>1. CASE BeginWrite(w) \/ Reject(w)
  BY <1>1 DEF BeginWrite, Reject, StatusInv, Occurs
<1>2. ASSUME NEW op, NEW actions \in Seq(Actions), Commit(w, op, actions),
             rows'.status = rows.status,
             \A i \in DOMAIN actions : actions[i] \notin Lifecycle
      PROVE  /\ StatusInv' /\ reports' = reports
             /\ DOMAIN trail \subseteq DOMAIN trail'
             /\ \A i \in DOMAIN trail : trail'[i] = trail[i]
  <2>1. StatusInv'
    BY <1>2, CommitStatus
  <2>2. reports' = reports
    BY <1>2 DEF Commit
  <2>. QED
    BY <1>2, <2>1, <2>2, CommitOccurs
<1>3. \A a \in Actions : <<a>> \in Seq(Actions) /\ DOMAIN <<a>> = {1} /\ <<a>>[1] = a
  OBVIOUS
<1>4. CASE UpdateCase(w) \/ Register(w) \/ Verify(w) \/ Parse(w) \/ GenerateTimeline(w)
  <2>1. rows'.status = rows.status
    BY <1>0, <1>4 DEF UpdateCase, Register, Verify, Parse, GenerateTimeline, Columns
  <2>2. \E op : \E a \in Actions \ Lifecycle : Commit(w, op, <<a>>)
    <3>1. {"CASE_UPDATED", "EVIDENCE_REGISTERED", "EVIDENCE_VERIFIED", "PARSER_EXECUTED",
           "TIMELINE_GENERATED"} \subseteq Actions \ Lifecycle
      BY DEF Actions, Lifecycle
    <3>. QED
      BY <1>4, <3>1 DEF UpdateCase, Register, Verify, Parse, GenerateTimeline
  <2>3. PICK op : \E a \in Actions \ Lifecycle : Commit(w, op, <<a>>)
    BY <2>2
  <2>4. PICK a \in Actions \ Lifecycle : Commit(w, op, <<a>>)
    BY <2>3
  <2>5. <<a>> \in Seq(Actions) /\ \A i \in DOMAIN <<a>> : <<a>>[i] \notin Lifecycle
    BY <1>3
  <2>. QED
    BY <1>2, <2>1, <2>4, <2>5
<1>5. CASE Correlate(w)
  <2>. DEFINE found == IF rows.timeline = {} THEN <<>> ELSE <<"FINDING_CREATED">>
              actions == found \o <<"CORRELATION_RUN">>
  <2>1. rows'.status = rows.status
    <3>1. PICK runs, findings :
             rows' = [rows EXCEPT !.runs = runs, !.findings = findings]
      BY <1>5 DEF Correlate
    <3>. QED
      BY <1>0, <3>1 DEF Columns
  <2>2. actions \in Seq(Actions) /\ \A i \in DOMAIN actions : actions[i] \notin Lifecycle
    <3>. DEFINE others == Actions \ Lifecycle
    <3>1. found \in Seq(others) /\ <<"CORRELATION_RUN">> \in Seq(others)
      <4>1. "FINDING_CREATED" \in others /\ "CORRELATION_RUN" \in others
        BY DEF Actions, Lifecycle
      <4>. HIDE DEF others
      <4>. QED
        BY <4>1
    <3>2. actions \in Seq(others)
      <4>. HIDE DEF found, others
      <4>. QED
        BY <3>1
    <3>3. \A i \in DOMAIN actions : actions[i] \in others
      <4>. HIDE DEF actions, others
      <4>. QED
        BY <3>2
    <3>4. actions \in Seq(Actions)
      <4>1. others \subseteq Actions
        OBVIOUS
      <4>. HIDE DEF actions, others
      <4>. QED
        BY <3>2, <4>1
    <3>. HIDE DEF actions
    <3>. QED
      BY <3>3, <3>4
  <2>3. Commit(w, "correlate", actions)
    BY <1>5 DEF Correlate
  <2>. HIDE DEF actions
  <2>. QED
    BY <1>2, <2>1, <2>2, <2>3
<1>6. CASE ReviewFinding(w)
  <2>. DEFINE actions == <<"FINDING_UPDATED", "FINDING_STATUS_CHANGED">>
  <2>1. rows'.status = rows.status
    <3>1. PICK findings : rows' = [rows EXCEPT !.findings = findings]
      BY <1>6 DEF ReviewFinding
    <3>. QED
      BY <1>0, <3>1 DEF Columns
  <2>2. actions \in Seq(Actions) /\ \A i \in DOMAIN actions : actions[i] \notin Lifecycle
    BY DEF Actions, Lifecycle
  <2>3. Commit(w, "review", actions)
    BY <1>6 DEF ReviewFinding
  <2>. HIDE DEF actions
  <2>. QED
    BY <1>2, <2>1, <2>2, <2>3
<1>7. CASE CloseCase(w) \/ ArchiveCase(w)
  <2>. DEFINE a == IF rows.status = "OPEN" THEN "CASE_CLOSED" ELSE "CASE_ARCHIVED"
  <2>1. /\ reports' = reports /\ <<a>> \in Seq(Actions)
        /\ \E op : Commit(w, op, <<a>>)
        /\ \/ /\ rows.status = "OPEN" /\ rows'.status = "CLOSED"
              /\ <<a>> = <<"CASE_CLOSED">>
           \/ /\ rows.status = "CLOSED" /\ rows'.status = "ARCHIVED"
              /\ <<a>> = <<"CASE_ARCHIVED">>
    <3>1. reports' = reports
      BY <1>7 DEF CloseCase, ArchiveCase, Commit
    <3>2. CASE CloseCase(w)
      <4>1. rows.status = "OPEN" /\ rows'.status = "CLOSED"
        BY <1>0, <3>2 DEF CloseCase, Columns
      <4>2. a = "CASE_CLOSED" /\ Commit(w, "close", <<"CASE_CLOSED">>)
        BY <3>2, <4>1 DEF CloseCase
      <4>. QED
        BY <1>3, <3>1, <4>1, <4>2 DEF Actions
    <3>3. CASE ArchiveCase(w)
      <4>1. rows.status = "CLOSED" /\ rows'.status = "ARCHIVED"
        BY <1>0, <3>3 DEF ArchiveCase, Columns
      <4>2. a = "CASE_ARCHIVED" /\ Commit(w, "archive", <<"CASE_ARCHIVED">>)
        BY <3>3, <4>1 DEF ArchiveCase
      <4>. QED
        BY <1>3, <3>1, <4>1, <4>2 DEF Actions
    <3>. QED
      BY <1>7, <3>2, <3>3
  <2>2. PICK op : Commit(w, op, <<a>>)
    BY <2>1
  <2>. HIDE DEF a
  <2>3. StatusInv'
    BY <2>1, <2>2, CommitStatus
  <2>. QED
    BY <2>1, <2>2, <2>3, CommitOccurs
<1>. QED
  BY <1>1, <1>4, <1>5, <1>6, <1>7

\* No step takes an entry or a report away, and the status stays told.
LEMMA StatusStep ==
    ASSUME ReportIInv, StatusInv, [ReportNext]_reportVars
    PROVE  /\ StatusInv' /\ TrailGrows
           /\ \A r \in DOMAIN reports : r \in DOMAIN reports' => reports'[r] = reports[r]
<1>0. trail' \in Seq(EntryShape')
  BY ReportStep DEF ReportIInv, ShapeInv
<1>1. CASE \E w \in Writer :
              \/ BeginWrite(w) \/ Reject(w) \/ UpdateCase(w)
              \/ Register(w) \/ Verify(w) \/ Parse(w) \/ GenerateTimeline(w)
              \/ Correlate(w) \/ ReviewFinding(w) \/ CloseCase(w) \/ ArchiveCase(w)
  <2>1. PICK w \in Writer :
              \/ BeginWrite(w) \/ Reject(w) \/ UpdateCase(w)
              \/ Register(w) \/ Verify(w) \/ Parse(w) \/ GenerateTimeline(w)
              \/ Correlate(w) \/ ReviewFinding(w) \/ CloseCase(w) \/ ArchiveCase(w)
    BY <1>1
  <2>2. /\ StatusInv' /\ reports' = reports
        /\ DOMAIN trail \subseteq DOMAIN trail'
        /\ \A i \in DOMAIN trail : trail'[i] = trail[i]
    BY <2>1, WriterStatus
  <2>. QED
    BY <1>0, <2>2 DEF TrailGrows
<1>2. CASE \E r \in Reporter : CommitReport(r)
  <2>1. PICK r \in Reporter : CommitReport(r)
    BY <1>2
  <2>2. /\ trail' = Append(trail, OwnEntry(r)) /\ rows' = rows /\ pc[r] = "written"
        /\ \A q \in DOMAIN reports : q # r => reports'[q] = reports[q]
    BY <2>1 DEF CommitReport
  <2>3. r \notin DOMAIN reports
    BY <2>2 DEF ReportIInv, ReportInv
  <2>4. Len(trail) \in Nat /\ DOMAIN trail = 1..Len(trail)
    BY TrailShape
  <2>5. /\ DOMAIN trail' = 1..(Len(trail) + 1)
        /\ \A i \in 1..Len(trail) : trail'[i] = trail[i]
        /\ trail'[Len(trail) + 1] = OwnEntry(r)
    BY <2>2, <2>4
  <2>6. OwnEntry(r).action = "REPORT_GENERATED"
    BY DEF OwnEntry, Entry
  <2>7. \A a : a # "REPORT_GENERATED" => (Occurs(trail, a)' <=> Occurs(trail, a))
    BY <2>4, <2>5, <2>6 DEF Occurs
  <2>8. StatusInv'
    BY <2>2, <2>7 DEF StatusInv
  <2>. QED
    BY <1>0, <2>2, <2>3, <2>4, <2>5, <2>8 DEF TrailGrows
<1>3. CASE UNCHANGED <<rows, trail, reports>>
  BY <1>0, <1>3 DEF TrailGrows, StatusInv, Occurs
<1>4. \/ \E w \in Writer :
              \/ BeginWrite(w) \/ Reject(w) \/ UpdateCase(w)
              \/ Register(w) \/ Verify(w) \/ Parse(w) \/ GenerateTimeline(w)
              \/ Correlate(w) \/ ReviewFinding(w) \/ CloseCase(w) \/ ArchiveCase(w)
      \/ \E r \in Reporter : CommitReport(r)
      \/ UNCHANGED <<rows, trail, reports>>
  BY DEF ReportNext, reportVars, Quiet, Crash, Tamper,
        ReportNotFound, LockCase, ReadSection, WriteSnapshot, WriteOutput, GetReport,
        FailReport, DownloadNotFound, DownloadUnavailable, DownloadCorrupt,
        CheckDownload, SendFile, SendMissing
<1>. QED
  BY <1>1, <1>2, <1>3, <1>4


LEMMA TimesStep ==
    ASSUME ReportIInv, StatusInv, LifecycleTimesShown, [ReportNext]_reportVars
    PROVE  LifecycleTimesShown'
<1>1. /\ StatusInv' /\ TrailGrows
      /\ \A r \in DOMAIN reports : r \in DOMAIN reports' => reports'[r] = reports[r]
  BY StatusStep
<1>2. ASSUME NEW r \in DOMAIN reports', r \in DOMAIN reports
      PROVE  LET case == reports'[r].snapshot.case
             IN  /\ case.closedAt # None => case.status \in {"CLOSED", "ARCHIVED"}
                 /\ case.archivedAt # None => case.status = "ARCHIVED"
                 /\ case.status \in {"CLOSED", "ARCHIVED"} =>
                       case.closedAt # None \/ CutOff("CASE_CLOSED")'
                 /\ case.status = "ARCHIVED" =>
                       case.archivedAt # None \/ CutOff("CASE_ARCHIVED")'
  <2>1. CutOff("CASE_CLOSED") => CutOff("CASE_CLOSED")'
    BY <1>1, CutOffStays
  <2>2. CutOff("CASE_ARCHIVED") => CutOff("CASE_ARCHIVED")'
    BY <1>1, CutOffStays
  <2>. QED
    BY <1>1, <1>2, <2>1, <2>2 DEF LifecycleTimesShown
<1>3. ASSUME NEW r \in DOMAIN reports', r \notin DOMAIN reports
      PROVE  LET case == reports'[r].snapshot.case
             IN  /\ case.closedAt # None => case.status \in {"CLOSED", "ARCHIVED"}
                 /\ case.archivedAt # None => case.status = "ARCHIVED"
                 /\ case.status \in {"CLOSED", "ARCHIVED"} =>
                       case.closedAt # None \/ CutOff("CASE_CLOSED")'
                 /\ case.status = "ARCHIVED" =>
                       case.archivedAt # None \/ CutOff("CASE_ARCHIVED")'
  <2>. DEFINE case == reports'[r].snapshot.case
              time(a) == AuditTimestamp(SelectAudits(trail'), a)
  <2>1. CommitReport(r) /\ reports'[r].snapshot = Snapshot(Database(SelectAudits(trail')))
    BY <1>3, NewReport
  <2>2. rows' = rows /\ DOMAIN rows = Columns
    BY <2>1 DEF CommitReport, ReportIInv, ShapeInv
  <2>3. /\ case.status = rows'.status
        /\ case.closedAt = time("CASE_CLOSED") /\ case.archivedAt = time("CASE_ARCHIVED")
    <3>1. /\ Database(SelectAudits(trail'))["status"] = rows["status"]
          /\ Database(SelectAudits(trail'))["audits"] = SelectAudits(trail')
      BY <2>2 DEF Database, Columns
    <3>. QED
      BY <2>1, <2>2, <3>1 DEF Snapshot
  <2>4. /\ Len(trail') \in Nat /\ DOMAIN trail' = 1..Len(trail')
        /\ \A i \in DOMAIN trail' : trail'[i].at \in Nat
    <3>1. ReportIInv'
      BY ReportStep
    <3>2. \A i \in DOMAIN trail' : trail'[i] \in EntryShape'
      <4>1. trail' \in Seq(EntryShape')
        BY <1>1 DEF TrailGrows
      <4>. HIDE DEF EntryShape
      <4>. QED
        BY <4>1
    <3>3. Len(trail') \in Nat /\ DOMAIN trail' = 1..Len(trail')
      <4>. HIDE DEF EntryShape
      <4>. QED
        BY <1>1 DEF TrailGrows
    <3>. QED
      BY <3>2, <3>3 DEF EntryShape
  <2>5. \A a \in Lifecycle : /\ time(a) # None => Occurs(trail', a)
                             /\ Occurs(trail', a) => time(a) # None \/ CutOffIn(trail', a)
    BY <2>4, TimesFromEntries
  <2>6. \A a : CutOffIn(trail', a) <=> CutOff(a)'
    BY DEF CutOffIn, CutOff
  <2>7. \A a : Occurs(trail, a)' <=> Occurs(trail', a)
    BY DEF Occurs
  <2>. HIDE DEF case, time
  <2>8. /\ Occurs(trail', "CASE_CLOSED") <=> rows'.status \in {"CLOSED", "ARCHIVED"}
        /\ Occurs(trail', "CASE_ARCHIVED") <=> rows'.status = "ARCHIVED"
    BY <1>1, <2>7 DEF StatusInv
  <2>9. /\ time("CASE_CLOSED") # None => Occurs(trail', "CASE_CLOSED")
        /\ Occurs(trail', "CASE_CLOSED") =>
              time("CASE_CLOSED") # None \/ CutOff("CASE_CLOSED")'
        /\ time("CASE_ARCHIVED") # None => Occurs(trail', "CASE_ARCHIVED")
        /\ Occurs(trail', "CASE_ARCHIVED") =>
              time("CASE_ARCHIVED") # None \/ CutOff("CASE_ARCHIVED")'
    BY <2>5, <2>6 DEF Lifecycle
  <2>10. /\ case.closedAt # None => case.status \in {"CLOSED", "ARCHIVED"}
         /\ case.archivedAt # None => case.status = "ARCHIVED"
         /\ case.status \in {"CLOSED", "ARCHIVED"} =>
               case.closedAt # None \/ CutOff("CASE_CLOSED")'
         /\ case.status = "ARCHIVED" =>
               case.archivedAt # None \/ CutOff("CASE_ARCHIVED")'
    BY <2>3, <2>8, <2>9
  <2>. QED
    BY <2>10 DEF case
<1>. QED
  BY <1>2, <1>3 DEF LifecycleTimesShown

LEMMA TimesStart == ReportInit => StatusInv /\ LifecycleTimesShown
<1>. SUFFICES ASSUME ReportInit PROVE StatusInv /\ LifecycleTimesShown
  OBVIOUS
<1>1. rows.status = "OPEN" /\ reports = <<>>
      /\ trail = <<Entry("CASE_CREATED", 0, Nobody), Entry("EVIDENCE_REGISTERED", 0, Nobody),
                   Entry("PARSER_EXECUTED", 0, Nobody), Entry("TIMELINE_GENERATED", 0, Nobody)>>
  BY DEF ReportInit
<1>2. \A i \in DOMAIN trail : trail[i].action \notin Lifecycle
  <2>1. DOMAIN trail = {1, 2, 3, 4}
    BY <1>1
  <2>2. /\ trail[1].action = "CASE_CREATED" /\ trail[2].action = "EVIDENCE_REGISTERED"
        /\ trail[3].action = "PARSER_EXECUTED" /\ trail[4].action = "TIMELINE_GENERATED"
    BY <1>1 DEF Entry
  <2>. HIDE DEF Entry
  <2>. QED
    BY <2>1, <2>2 DEF Lifecycle
<1>3. DOMAIN reports = {}
  BY <1>1
<1>. QED
  BY <1>1, <1>2, <1>3 DEF StatusInv, Occurs, Lifecycle, LifecycleTimesShown

\* A report gives the times of closing and archiving exactly when the status it
\* shows says that they happened, unless the limit on audit entries has cut
\* them off (snapshot.py, build and _audit_timestamp).
THEOREM TimesTellTheStatus == ReportSpec => []LifecycleTimesShown
<1>1. ReportIInv /\ StatusInv /\ LifecycleTimesShown /\ [ReportNext]_reportVars =>
         StatusInv' /\ LifecycleTimesShown'
  BY StatusStep, TimesStep
<1>. QED
  BY <1>1, TimesStart, ReportInvariant, PTL DEF ReportSpec

=============================================================================
