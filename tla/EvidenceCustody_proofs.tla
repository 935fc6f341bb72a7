----------------------- MODULE EvidenceCustody_proofs -----------------------
(***************************************************************************)
(* For any number of cases, requests and contents, any clock bound and any *)
(* faults: the metadata of registered evidence agrees with the files, a    *)
(* verification never accuses an untouched file, and evidence joins a case *)
(* only while it is open.                                                  *)
(***************************************************************************)
EXTENDS EvidenceCustody, CaseLifecycle_proofs

\* NoOrphanFile and MismatchMeansTampering, for one request each.
OrphanInv(e) ==
    /\ op[e] = "register" /\ pc[e] = "done"
    /\ row[e] = NoContent
    /\ mishap[e] \intersect {"crash", "unlink"} = {}
    => file[e] = NoContent /\ ~partial[e]

MismatchInv(r) ==
    checked[r] # NoCheck /\ ~checked[r].match => "tamper" \in mishap[subject[r]]

RequestInv(r) ==
    /\ PhaseInv(r)
    /\ CopyInv(r)
    /\ RowInv(r)
    /\ VerifyInv(r)
    /\ OrphanInv(r)
    /\ MismatchInv(r)

\* The inductive invariant.
CustodyIInv ==
    /\ BaseInv
    /\ CustodyShape
    /\ \A r \in Request : RequestInv(r)

-----------------------------------------------------------------------------

\* What a step of request r may do to the state that the others rely on.
StepOf(r) ==
    /\ \A q \in Request \ {r} :
          /\ pc'[q] = pc[q] /\ op'[q] = op[q] /\ tgt'[q] = tgt[q]
          /\ seen'[q] = seen[q] /\ mishap'[q] = mishap[q]
          /\ source'[q] = source[q] /\ partial'[q] = partial[q]
          /\ file'[q] = file[q] /\ row'[q] = row[q]
          /\ subject'[q] = subject[q] /\ want'[q] = want[q] /\ got'[q] = got[q]
          /\ checked'[q] = checked[q]
          /\ \A c \in Case : lock[c] = q => lock'[c] = q
    /\ \A c \in Case : status[c] # "ABSENT" => status'[c] # "ABSENT"
    /\ op[r] # "none" => op'[r] = op[r] /\ tgt'[r] = tgt[r]
    /\ row[r] # NoContent => row'[r] = row[r]
    /\ mishap[r] \subseteq mishap'[r]

\* Whatever r does, the invariant of another request q survives.
LEMMA OthersKeep ==
    ASSUME CustodyIInv, NEW r \in Request, StepOf(r), NEW q \in Request, q # r
    PROVE  RequestInv(q)'
<1>1. /\ pc'[q] = pc[q] /\ op'[q] = op[q] /\ tgt'[q] = tgt[q]
      /\ seen'[q] = seen[q] /\ mishap'[q] = mishap[q]
      /\ source'[q] = source[q] /\ partial'[q] = partial[q]
      /\ file'[q] = file[q] /\ row'[q] = row[q]
      /\ subject'[q] = subject[q] /\ want'[q] = want[q] /\ got'[q] = got[q]
      /\ checked'[q] = checked[q]
      /\ \A c \in Case : lock[c] = q => lock'[c] = q
      /\ \A c \in Case : status[c] # "ABSENT" => status'[c] # "ABSENT"
  BY DEF StepOf
<1>2. RequestInv(q) /\ (Active(q) => tgt[q] \in Case)
  BY DEF CustodyIInv, BaseInv, TransactionInv
<1>3. \A s \in Request :
         /\ op[s] = "register" => op'[s] = "register" /\ tgt'[s] = tgt[s]
         /\ row[s] # NoContent => row'[s] = row[s]
         /\ "tamper" \in mishap[s] => "tamper" \in mishap'[s]
  BY DEF StepOf
<1>4. PhaseInv(q)'
  BY <1>1, <1>2 DEF RequestInv, PhaseInv
<1>5. CopyInv(q)'
  BY <1>1, <1>2 DEF RequestInv, CopyInv, Active
<1>6. RowInv(q)'
  BY <1>1, <1>2 DEF RequestInv, RowInv
<1>7. VerifyInv(q)'
  <2>1. op[q] = "verify" /\ Active(q) => subject[q] \in Request
    BY <1>2 DEF RequestInv, VerifyInv
  <2>2. pc[q] \in {"located", "hashed", "recorded"} => op[q] = "verify" /\ Active(q)
    BY <1>2 DEF RequestInv, PhaseInv, Active
  <2>. QED
    BY <1>1, <1>2, <1>3, <2>1, <2>2 DEF RequestInv, VerifyInv, Active, NoCheck
<1>8. OrphanInv(q)'
  BY <1>1, <1>2 DEF RequestInv, OrphanInv
<1>9. MismatchInv(q)'
  BY <1>1, <1>2, <1>3 DEF RequestInv, VerifyInv, MismatchInv, NoCheck
<1>. QED
  BY <1>4, <1>5, <1>6, <1>7, <1>8, <1>9 DEF RequestInv

\* So a step of r keeps the whole invariant if it keeps r's own part.
LEMMA StepKeeps ==
    ASSUME CustodyIInv, NEW r \in Request, StepOf(r), RequestInv(r)',
           BaseInv', CustodyShape'
    PROVE  CustodyIInv'
  BY OthersKeep DEF CustodyIInv

-----------------------------------------------------------------------------
\* The case operations beside register and verify.

\* A request for a case operation starts or goes on: no evidence is touched.
LEMMA CaseStepKeeps ==
    ASSUME CustodyIInv, NEW r \in Request, CaseStep(r), UNCHANGED custodyVars
    PROVE  CustodyIInv'
<1>1. BaseInv'
  BY CaseStepBase DEF CustodyIInv
<1>2. op[r] \in CaseOp /\ pc[r] \in {"begun", "locked", "committed"}
  BY DEF CaseStep, CaseWork, CaseFault, CommitCreate, NotFound, LockCase, CommitUpdate,
         RejectTransition, CommitTransition, Refresh, PostCommitFailure, DbFailure,
         CaseOp, TransitionOp, CustodyIInv, RequestInv, PhaseInv
<1>3. /\ op' = op /\ tgt' = tgt
      /\ \A q \in Request \ {r} : pc'[q] = pc[q] /\ seen'[q] = seen[q]
      /\ pc' = [pc EXCEPT ![r] = pc'[r]]
      /\ pc'[r] \in {"locked", "committed", "done"}
  <2>1. op' = op /\ tgt' = tgt
    BY DEF CaseStep, CaseWork, CaseFault, CommitCreate, NotFound, LockCase, CommitUpdate,
           RejectTransition, CommitTransition, Refresh, PostCommitFailure, DbFailure,
           Rollback, asked
  <2>2. PICK p \in {"locked", "committed", "done"} : Goto(r, p)
    BY DEF CaseStep, CaseWork, CaseFault, CommitCreate, NotFound, LockCase, CommitUpdate,
           RejectTransition, CommitTransition, Refresh, PostCommitFailure, DbFailure,
           Rollback, Answer
  <2>3. \A q \in Request \ {r} : seen'[q] = seen[q]
    BY DEF CaseStep, CaseWork, CaseFault, CommitCreate, NotFound, LockCase, CommitUpdate,
           RejectTransition, CommitTransition, Refresh, PostCommitFailure, DbFailure,
           Rollback, Lock, CustodyIInv, BaseInv, DatabaseTypeOK, SessionsTypeOK
  <2>. QED
    BY <2>1, <2>2, <2>3 DEF Goto, CustodyIInv, CustodyShape
<1>4. /\ \A q \in Request \ {r} : mishap'[q] = mishap[q]
      /\ mishap[r] \subseteq mishap'[r]
  BY DEF CaseStep, CaseWork, CaseFault, CommitCreate, NotFound, LockCase, CommitUpdate,
         RejectTransition, CommitTransition, Refresh, PostCommitFailure, DbFailure,
         Rollback, CustodyIInv, BaseInv, DatabaseTypeOK, SessionsTypeOK
<1>5. \A q \in Request \ {r}, c \in Case : lock[c] = q => lock'[c] = q
  BY NoRequestAssumption
     DEF CaseStep, CaseWork, CaseFault, CommitCreate, NotFound, LockCase, CommitUpdate,
         RejectTransition, CommitTransition, Refresh, PostCommitFailure, DbFailure,
         Rollback, Release, Lock, CanLock, rowLocks, CustodyIInv, BaseInv,
         DatabaseTypeOK, LocksTypeOK
<1>6. \A c \in Case : status[c] # "ABSENT" => status'[c] # "ABSENT"
  BY DEF CaseStep, CaseWork, CaseFault, CommitCreate, NotFound, LockCase, CommitUpdate,
         RejectTransition, CommitTransition, Target, Refresh, PostCommitFailure,
         DbFailure, Rollback, caseRows, CustodyIInv, BaseInv, DatabaseTypeOK, RowsTypeOK
<1>7. StepOf(r)
  BY <1>3, <1>4, <1>5, <1>6 DEF StepOf, custodyVars, storage, verifying
<1>8. RequestInv(r)'
  BY <1>2, <1>3
     DEF custodyVars, storage, verifying, CaseOp, TransitionOp, CustodyIInv, RequestInv,
         PhaseInv, CopyInv, RowInv, VerifyInv, OrphanInv, MismatchInv, Active, NoCheck
<1>9. CustodyShape'
  BY <1>3 DEF custodyVars, storage, verifying, CustodyIInv, CustodyShape, CasePc
<1>. QED
  BY <1>1, <1>7, <1>8, <1>9, StepKeeps

\* The arrival of a request: a session that has touched nothing yet.
LEMMA ArrivalKeeps ==
    ASSUME CustodyIInv, NEW r \in Request, NEW o \in CustodyOp \ {"none"}, NEW c \in Case,
           Begin(r, o, c), BaseInv', UNCHANGED <<storage, row, want, got, checked>>,
           source' \in [Request -> MaybeContent],
           \A q \in Request \ {r} : source'[q] = source[q] /\ subject'[q] = subject[q],
           subject' \in [Request -> Request \union {NoRequest}],
           o = "register" => source'[r] \in Content,
           o = "verify" => /\ subject'[r] \in Request \ {r}
                           /\ op[subject'[r]] = "register" /\ tgt[subject'[r]] = c
    PROVE  CustodyIInv'
<1>1. /\ pc[r] = "idle" /\ op[r] = "none"
      /\ pc' = [pc EXCEPT ![r] = "begun"]
      /\ op' = [op EXCEPT ![r] = o] /\ tgt' = [tgt EXCEPT ![r] = c]
      /\ seen' = seen /\ mishap' = mishap /\ lock' = lock /\ status' = status
      /\ partial' = partial /\ file' = file /\ row' = row
      /\ want' = want /\ got' = got /\ checked' = checked
  BY DEF Begin, Goto, caseRows, rowLocks, storage, CustodyIInv, BaseInv, TransactionInv
<1>2. /\ pc'[r] = "begun" /\ op'[r] = o /\ tgt'[r] = c
      /\ \A q \in Request \ {r} : pc'[q] = pc[q] /\ op'[q] = op[q] /\ tgt'[q] = tgt[q]
  BY <1>1 DEF CustodyIInv, CustodyShape, BaseInv, DatabaseTypeOK, SessionsTypeOK
<1>3. StepOf(r)
  BY <1>1, <1>2 DEF StepOf
<1>4. /\ row[r] = NoContent /\ file[r] = NoContent /\ ~partial[r]
      /\ checked[r] = NoCheck
  BY <1>1 DEF CustodyIInv, RequestInv, PhaseInv, RowInv, VerifyInv
<1>5. RequestInv(r)'
  BY <1>1, <1>2, <1>4
     DEF RequestInv, PhaseInv, CopyInv, RowInv, VerifyInv, OrphanInv, MismatchInv, NoCheck
<1>6. CustodyShape'
  BY <1>1 DEF CustodyIInv, CustodyShape, CasePc
<1>. QED
  BY <1>3, <1>5, <1>6, StepKeeps

\* Requests for a case operation, a registration or a verification come in.
LEMMA BeginKeeps ==
    ASSUME CustodyIInv, NEW r \in Request,
           \/ (BeginCreate(r) \/ BeginOnCase(r)) /\ UNCHANGED custodyVars
           \/ BeginRegister(r)
           \/ BeginVerify(r)
    PROVE  CustodyIInv'
<1>1. CASE (BeginCreate(r) \/ BeginOnCase(r)) /\ UNCHANGED custodyVars
  <2>1. PICK o \in CaseOp, c \in Case : Begin(r, o, c)
    BY <1>1 DEF BeginCreate, BeginOnCase, CaseOp
  <2>2. BaseInv'
    BY <1>1, BeginCaseBase DEF CustodyIInv
  <2>3. o \in CustodyOp \ {"none"} /\ o \notin {"register", "verify"}
    BY DEF CustodyOp, CaseOp, TransitionOp
  <2>. QED
    BY <1>1, <2>1, <2>2, <2>3, ArrivalKeeps
       DEF custodyVars, verifying, CustodyIInv, CustodyShape
<1>2. CASE BeginRegister(r)
  <2>1. PICK c \in Case, d \in Content :
           Begin(r, "register", c) /\ source' = [source EXCEPT ![r] = d]
    BY <1>2 DEF BeginRegister
  <2>2. BaseInv'
    BY <2>1, BeginBase DEF CustodyIInv
  <2>3. /\ source' \in [Request -> MaybeContent] /\ source'[r] \in Content
        /\ \A q \in Request \ {r} : source'[q] = source[q]
    BY <2>1 DEF CustodyIInv, CustodyShape, MaybeContent
  <2>. QED
    BY <1>2, <2>1, <2>2, <2>3, ArrivalKeeps
       DEF BeginRegister, verifying, CustodyOp, CustodyIInv, CustodyShape
<1>3. CASE BeginVerify(r)
  <2>1. PICK e \in Request \ {r} :
           /\ op[e] = "register" /\ tgt[e] # NoCase
           /\ Begin(r, "verify", tgt[e])
           /\ subject' = [subject EXCEPT ![r] = e]
    BY <1>3 DEF BeginVerify
  <2>2. tgt[e] \in Case
    BY <2>1 DEF CustodyIInv, BaseInv, DatabaseTypeOK, SessionsTypeOK
  <2>3. BaseInv'
    BY <2>1, <2>2, BeginBase DEF CustodyIInv
  <2>4. /\ subject' \in [Request -> Request \union {NoRequest}] /\ subject'[r] = e
        /\ \A q \in Request \ {r} : subject'[q] = subject[q]
    BY <2>1 DEF CustodyIInv, CustodyShape
  <2>5. /\ "verify" \in CustodyOp \ {"none"}
        /\ source' = source /\ source \in [Request -> MaybeContent]
        /\ UNCHANGED <<storage, row, want, got, checked>>
    BY <1>3 DEF BeginVerify, CustodyOp, CustodyIInv, CustodyShape
  <2>6. /\ subject'[r] \in Request \ {r}
        /\ op[subject'[r]] = "register" /\ tgt[subject'[r]] = tgt[e]
    BY <2>1, <2>4
  <2>. QED
    BY <2>1, <2>2, <2>3, <2>4, <2>5, <2>6, ArrivalKeeps
<1>. QED
  BY <1>1, <1>2, <1>3

-----------------------------------------------------------------------------
\* The steps of register and verify.

\* A refused or failed request whose transaction has written nothing yet.
LEMMA RollbackKeeps ==
    ASSUME CustodyIInv, NEW r \in Request, NEW a \in Answers,
           op[r] \in {"register", "verify"},
           pc[r] \in {"begun", "locked", "located", "hashed", "recorded"},
           Rollback(r, a), UNCHANGED custodyVars
    PROVE  CustodyIInv'
<1>1. BaseInv'
  BY RollbackBase DEF CustodyIInv
<1>2. /\ op' = op /\ tgt' = tgt /\ seen' = seen /\ mishap' = mishap /\ status' = status
      /\ pc' = [pc EXCEPT ![r] = "done"]
      /\ \A q \in Request \ {r}, c \in Case : lock[c] = q => lock'[c] = q
  BY DEF Rollback, Release, Answer, Goto, asked, caseRows
<1>3. pc'[r] = "done" /\ \A q \in Request \ {r} : pc'[q] = pc[q]
  BY <1>2 DEF CustodyIInv, CustodyShape
<1>4. StepOf(r)
  BY <1>2, <1>3 DEF StepOf, custodyVars, storage, verifying
<1>5. row[r] = NoContent /\ (op[r] = "register" => file[r] = NoContent /\ ~partial[r])
  BY DEF CustodyIInv, RequestInv, PhaseInv, CopyInv, RowInv
<1>6. RequestInv(r)'
  BY <1>2, <1>3, <1>5
     DEF custodyVars, storage, verifying, CustodyIInv, RequestInv, PhaseInv, CopyInv,
         RowInv, VerifyInv, OrphanInv, MismatchInv, Active, NoCheck
<1>7. CustodyShape'
  BY <1>2 DEF custodyVars, storage, verifying, CustodyIInv, CustodyShape, CasePc
<1>. QED
  BY <1>1, <1>4, <1>6, <1>7, StepKeeps

\* A step that works on the file or on the digests, inside the transaction.
LEMMA WorkStep ==
    ASSUME CustodyIInv, NEW r \in Request, Active(r), ~Ended(r),
           NEW p \in {"copying", "linked", "stored", "located", "hashed"}, Goto(r, p),
           UNCHANGED <<clock, caseRows, rowLocks, asked, seen, out, mishap,
                       source, row, subject, checked>>,
           \A q \in Request \ {r} :
              /\ partial'[q] = partial[q] /\ file'[q] = file[q]
              /\ want'[q] = want[q] /\ got'[q] = got[q],
           partial' \in [Request -> BOOLEAN], file' \in [Request -> MaybeContent],
           want' \in [Request -> MaybeContent], got' \in [Request -> MaybeContent],
           RequestInv(r)'
    PROVE  CustodyIInv'
<1>1. BaseInv'
  BY WorkBase DEF CustodyIInv
<1>2. /\ op' = op /\ tgt' = tgt /\ seen' = seen /\ mishap' = mishap
      /\ status' = status /\ lock' = lock
      /\ pc' = [pc EXCEPT ![r] = p]
  BY DEF Goto, asked, caseRows, rowLocks
<1>3. \A q \in Request \ {r} : pc'[q] = pc[q]
  BY <1>2
<1>4. StepOf(r)
  BY <1>2, <1>3 DEF StepOf
<1>5. CustodyShape'
  BY <1>2 DEF CustodyIInv, CustodyShape, RegisterPc, VerifyPc
<1>. QED
  BY <1>1, <1>4, <1>5, StepKeeps

\* EvidenceStorage.store: the temporary copy, its final name, one name left.
LEMMA CopyKeeps ==
    ASSUME CustodyIInv, NEW r \in Request, StartCopy(r) \/ LinkFinal(r) \/ UnlinkPartial(r)
    PROVE  CustodyIInv'
<1>1. pc \in [Request -> CasePc \union RegisterPc \union VerifyPc] /\ RequestInv(r)
  BY DEF CustodyIInv, CustodyShape
<1>2. CASE StartCopy(r)
  <2>1. /\ op' = op /\ tgt' = tgt /\ seen' = seen /\ mishap' = mishap
        /\ status' = status /\ lock' = lock /\ source' = source /\ file' = file
        /\ row' = row /\ subject' = subject /\ want' = want /\ got' = got
        /\ checked' = checked
        /\ pc[r] = "locked" /\ op[r] = "register" /\ seen[r] = "OPEN"
        /\ pc' = [pc EXCEPT ![r] = "copying"]
        /\ partial' = [partial EXCEPT ![r] = TRUE]
    BY <1>2 DEF StartCopy, Goto, asked, caseRows, rowLocks, verifying
  <2>2. pc'[r] = "copying" /\ lock[tgt[r]] = r /\ row[r] = NoContent
    BY <1>1, <2>1 DEF CustodyIInv, BaseInv, TransactionInv, RequestInv, RowInv
  <2>3. RequestInv(r)'
    BY <1>1, <2>1, <2>2
       DEF RequestInv, PhaseInv, CopyInv, RowInv, VerifyInv, OrphanInv, MismatchInv,
           Active, NoCheck
  <2>4. partial' \in [Request -> BOOLEAN] /\ file' \in [Request -> MaybeContent]
        /\ want' \in [Request -> MaybeContent] /\ got' \in [Request -> MaybeContent]
        /\ \A q \in Request \ {r} : partial'[q] = partial[q]
    BY <2>1 DEF CustodyIInv, CustodyShape
  <2>5. Active(r) /\ ~Ended(r)
    BY <2>1 DEF Active, Ended
  <2>. QED
    BY <1>2, <2>1, <2>3, <2>4, <2>5, WorkStep DEF StartCopy
<1>3. CASE LinkFinal(r)
  <2>1. /\ op' = op /\ tgt' = tgt /\ seen' = seen /\ mishap' = mishap
        /\ status' = status /\ lock' = lock /\ source' = source /\ partial' = partial
        /\ row' = row /\ subject' = subject /\ want' = want /\ got' = got
        /\ checked' = checked
        /\ pc[r] = "copying"
        /\ pc' = [pc EXCEPT ![r] = "linked"]
        /\ file' = [file EXCEPT ![r] = source[r]]
    BY <1>3 DEF LinkFinal, Goto, asked, caseRows, rowLocks, verifying
  <2>2. file'[r] = source[r]
    BY <2>1 DEF CustodyIInv, CustodyShape
  <2>3. pc'[r] = "linked" /\ row[r] = NoContent /\ op[r] = "register"
    BY <1>1, <2>1 DEF RequestInv, PhaseInv, RowInv
  <2>4. RequestInv(r)'
    BY <1>1, <2>1, <2>2, <2>3
       DEF RequestInv, PhaseInv, CopyInv, RowInv, VerifyInv, OrphanInv, MismatchInv,
           Active, NoCheck
  <2>5. partial' \in [Request -> BOOLEAN] /\ file' \in [Request -> MaybeContent]
        /\ want' \in [Request -> MaybeContent] /\ got' \in [Request -> MaybeContent]
        /\ \A q \in Request \ {r} : file'[q] = file[q]
    BY <2>1 DEF CustodyIInv, CustodyShape
  <2>6. Active(r) /\ ~Ended(r)
    BY <2>1 DEF Active, Ended
  <2>. QED
    BY <1>3, <2>1, <2>4, <2>5, <2>6, WorkStep DEF LinkFinal
<1>4. CASE UnlinkPartial(r)
  <2>1. /\ op' = op /\ tgt' = tgt /\ seen' = seen /\ mishap' = mishap
        /\ status' = status /\ lock' = lock /\ source' = source /\ file' = file
        /\ row' = row /\ subject' = subject /\ want' = want /\ got' = got
        /\ checked' = checked
        /\ pc[r] = "linked"
        /\ pc' = [pc EXCEPT ![r] = "stored"]
        /\ partial' = [partial EXCEPT ![r] = FALSE]
    BY <1>4 DEF UnlinkPartial, Goto, asked, caseRows, rowLocks, verifying
  <2>2. ~partial'[r]
    BY <2>1 DEF CustodyIInv, CustodyShape
  <2>3. pc'[r] = "stored" /\ row[r] = NoContent /\ op[r] = "register"
    BY <1>1, <2>1 DEF RequestInv, PhaseInv, RowInv
  <2>4. RequestInv(r)'
    BY <1>1, <2>1, <2>2, <2>3
       DEF RequestInv, PhaseInv, CopyInv, RowInv, VerifyInv, OrphanInv, MismatchInv,
           Active, NoCheck
  <2>5. partial' \in [Request -> BOOLEAN] /\ file' \in [Request -> MaybeContent]
        /\ want' \in [Request -> MaybeContent] /\ got' \in [Request -> MaybeContent]
        /\ \A q \in Request \ {r} : partial'[q] = partial[q]
    BY <2>1 DEF CustodyIInv, CustodyShape
  <2>6. Active(r) /\ ~Ended(r)
    BY <2>1 DEF Active, Ended
  <2>. QED
    BY <1>4, <2>1, <2>4, <2>5, <2>6, WorkStep DEF UnlinkPartial
<1>. QED
  BY <1>2, <1>3, <1>4

\* verify reads the digest on record, then hashes the stored file.
LEMMA HashKeeps ==
    ASSUME CustodyIInv, NEW r \in Request, ReadAcquisition(r) \/ HashFile(r)
    PROVE  CustodyIInv'
<1>1. pc \in [Request -> CasePc \union RegisterPc \union VerifyPc] /\ RequestInv(r)
  BY DEF CustodyIInv, CustodyShape
<1>2. Active(r) /\ ~Ended(r) /\ op[r] = "verify"
  BY <1>1 DEF ReadAcquisition, HashFile, Active, Ended, RequestInv, PhaseInv
<1>3. subject[r] \in Request /\ RequestInv(subject[r])
  BY <1>1, <1>2 DEF RequestInv, VerifyInv, CustodyIInv
<1>4. CASE ReadAcquisition(r)
  <2>1. /\ op' = op /\ tgt' = tgt /\ seen' = seen /\ mishap' = mishap
        /\ status' = status /\ lock' = lock /\ source' = source /\ file' = file
        /\ row' = row /\ subject' = subject /\ partial' = partial /\ got' = got
        /\ checked' = checked
        /\ pc[r] = "begun" /\ row[subject[r]] # NoContent
        /\ pc' = [pc EXCEPT ![r] = "located"]
        /\ want' = [want EXCEPT ![r] = row[subject[r]]]
    BY <1>4 DEF ReadAcquisition, Goto, asked, caseRows, rowLocks, storage
  <2>2. /\ want'[r] = row[subject[r]] /\ row[subject[r]] \in MaybeContent
        /\ pc'[r] = "located" /\ row[r] = NoContent
    BY <1>1, <1>2, <1>3, <2>1 DEF CustodyIInv, CustodyShape, RequestInv, RowInv
  <2>3. RequestInv(r)'
    BY <1>1, <1>2, <1>3, <2>1, <2>2
       DEF RequestInv, PhaseInv, CopyInv, RowInv, VerifyInv, OrphanInv, MismatchInv,
           Active, NoCheck
  <2>4. partial' \in [Request -> BOOLEAN] /\ file' \in [Request -> MaybeContent]
        /\ want' \in [Request -> MaybeContent] /\ got' \in [Request -> MaybeContent]
        /\ \A q \in Request \ {r} : want'[q] = want[q]
    BY <2>1, <2>2 DEF CustodyIInv, CustodyShape
  <2>. QED
    BY <1>2, <1>4, <2>1, <2>3, <2>4, WorkStep DEF ReadAcquisition
<1>5. CASE HashFile(r)
  <2>1. /\ op' = op /\ tgt' = tgt /\ seen' = seen /\ mishap' = mishap
        /\ status' = status /\ lock' = lock /\ source' = source /\ file' = file
        /\ row' = row /\ subject' = subject /\ partial' = partial /\ want' = want
        /\ checked' = checked
        /\ pc[r] = "located" /\ file[subject[r]] # NoContent
        /\ pc' = [pc EXCEPT ![r] = "hashed"]
        /\ got' = [got EXCEPT ![r] = file[subject[r]]]
    BY <1>5 DEF HashFile, Goto, asked, caseRows, rowLocks, storage
  <2>2. /\ got'[r] = file[subject[r]] /\ file[subject[r]] \in MaybeContent
        /\ pc'[r] = "hashed" /\ row[r] = NoContent
    BY <1>1, <1>2, <1>3, <2>1 DEF CustodyIInv, CustodyShape, RequestInv, RowInv
  <2>3. file[subject[r]] # row[subject[r]] => "tamper" \in mishap[subject[r]]
    BY <1>1, <1>3, <2>1 DEF RequestInv, RowInv, VerifyInv
  <2>4. RequestInv(r)'
    BY <1>1, <1>2, <1>3, <2>1, <2>2, <2>3
       DEF RequestInv, PhaseInv, CopyInv, RowInv, VerifyInv, OrphanInv, MismatchInv,
           Active, NoCheck
  <2>5. partial' \in [Request -> BOOLEAN] /\ file' \in [Request -> MaybeContent]
        /\ want' \in [Request -> MaybeContent] /\ got' \in [Request -> MaybeContent]
        /\ \A q \in Request \ {r} : got'[q] = got[q]
    BY <2>1, <2>2 DEF CustodyIInv, CustodyShape
  <2>. QED
    BY <1>2, <1>5, <2>1, <2>4, <2>5, WorkStep DEF HashFile
<1>. QED
  BY <1>4, <1>5

\* register takes the row lock of the case; verify's inserts reference it.
LEMMA LockingKeeps ==
    ASSUME CustodyIInv, NEW r \in Request, LockForRegister(r) \/ FlushVerification(r)
    PROVE  CustodyIInv'
<1>1. /\ pc \in [Request -> CasePc \union RegisterPc \union VerifyPc] /\ RequestInv(r)
      /\ seen \in [Request -> Record!Status] /\ lock \in [Case -> Request \union {NoRequest}]
  BY DEF CustodyIInv, CustodyShape, BaseInv, DatabaseTypeOK, SessionsTypeOK, LocksTypeOK
<1>2. pc[r] \in {"begun", "hashed"} /\ tgt[r] \in Case
  BY DEF LockForRegister, FlushVerification, CustodyIInv, BaseInv, TransactionInv, Active
<1>3. BaseInv'
  <2>1. CASE LockForRegister(r)
    BY <1>2, <2>1, LockBase DEF LockForRegister, CustodyIInv
  <2>2. CASE FlushVerification(r)
    <3>1. InTransaction(r)
      BY <2>2 DEF FlushVerification, InTransaction, Ended
    <3>. QED
      BY <1>2, <2>2, <3>1, ShareBase DEF FlushVerification, CustodyIInv
  <2>. QED
    BY <2>1, <2>2
<1>4. /\ op' = op /\ tgt' = tgt /\ mishap' = mishap /\ status' = status
      /\ source' = source /\ file' = file /\ row' = row /\ subject' = subject
      /\ partial' = partial /\ want' = want /\ got' = got /\ checked' = checked
      /\ pc' = [pc EXCEPT ![r] = pc'[r]]
      /\ \/ pc[r] = "begun" /\ op[r] = "register" /\ pc'[r] = "locked"
         \/ pc[r] = "hashed" /\ pc'[r] = "recorded"
  <2>1. CASE LockForRegister(r)
    BY <1>1, <2>1 DEF LockForRegister, Goto, asked, caseRows, custodyVars, storage,
                      verifying
  <2>2. CASE FlushVerification(r)
    BY <1>1, <2>2 DEF FlushVerification, Goto, asked, caseRows, custodyVars, storage,
                      verifying
  <2>. QED
    BY <2>1, <2>2
<1>5. /\ \A q \in Request \ {r} : pc'[q] = pc[q] /\ seen'[q] = seen[q]
      /\ \A q \in Request \ {r}, c \in Case : lock[c] = q => lock'[c] = q
  BY <1>1, <1>2, <1>4, NoRequestAssumption
     DEF LockForRegister, FlushVerification, Lock, CanLock
<1>6. StepOf(r)
  BY <1>4, <1>5 DEF StepOf
<1>7. RequestInv(r)'
  BY <1>1, <1>4
     DEF RequestInv, PhaseInv, CopyInv, RowInv, VerifyInv, OrphanInv, MismatchInv,
         Active, NoCheck
<1>8. CustodyShape'
  BY <1>4 DEF CustodyIInv, CustodyShape, CasePc, VerifyPc
<1>. QED
  BY <1>3, <1>6, <1>7, <1>8, StepKeeps

\* Evidence metadata, custody entry, hash and audit event become visible
\* together, whether or not the commit is acknowledged.
LEMMA CommitRegisterKeeps ==
    ASSUME CustodyIInv, NEW r \in Request, CommitRegister(r) \/ CommitUnacknowledged(r)
    PROVE  CustodyIInv'
<1>1. /\ pc \in [Request -> CasePc \union RegisterPc \union VerifyPc] /\ RequestInv(r)
      /\ row \in [Request -> MaybeContent] /\ mishap \in [Request -> SUBSET Mishaps]
  BY DEF CustodyIInv, CustodyShape, BaseInv, DatabaseTypeOK, SessionsTypeOK
<1>2. /\ pc[r] = "stored" /\ op[r] = "register" /\ tgt[r] \in Case
      /\ lock[tgt[r]] = r /\ source[r] \in Content /\ file[r] = source[r] /\ ~partial[r]
  BY <1>1 DEF CommitRegister, CommitUnacknowledged, RequestInv, PhaseInv, CopyInv,
              CustodyIInv, BaseInv, TransactionInv, Active
<1>3. status[tgt[r]] # "ABSENT"
  BY <1>2, NoRequestAssumption
     DEF CustodyIInv, BaseInv, TransactionInv, LocksProtectDecisions
<1>4. /\ op' = op /\ tgt' = tgt /\ seen' = seen /\ status' = status
      /\ source' = source /\ file' = file /\ subject' = subject
      /\ partial' = partial /\ want' = want /\ got' = got /\ checked' = checked
      /\ row' = [row EXCEPT ![r] = source[r]]
      /\ \A q \in Request \ {r}, c \in Case : lock[c] = q => lock'[c] = q
  BY DEF CommitRegister, CommitUnacknowledged, RegisterWrites, Release, asked, storage,
         verifying
<1>5. PICK p \in {"answering", "cleanup"} :
         /\ Goto(r, p)
         /\ \A q \in Request \ {r} : mishap'[q] = mishap[q]
         /\ mishap[r] \subseteq mishap'[r]
         /\ p = "cleanup" => "post_commit" \in mishap'[r]
         /\ mishap' \in [Request -> SUBSET Mishaps]
         /\ out' = out
         /\ "tamper" \in mishap[r] <=> "tamper" \in mishap'[r]
  BY <1>1 DEF CommitRegister, CommitUnacknowledged, Mishaps
<1>6. /\ pc' = [pc EXCEPT ![r] = p] /\ pc'[r] = p
      /\ \A q \in Request \ {r} : pc'[q] = pc[q] /\ row'[q] = row[q]
      /\ row'[r] = source[r] /\ row[r] = NoContent
  BY <1>1, <1>2, <1>4, <1>5 DEF Goto, RequestInv, RowInv
<1>7. BaseInv'
  <2>1. InTransaction(r)
    BY <1>2 DEF InTransaction, Ended
  <2>2. /\ "EVIDENCE_REGISTERED" \in Record!AuditAction
        /\ Audit(r, tgt[r], "EVIDENCE_REGISTERED") /\ Release(r)
        /\ UNCHANGED <<clock, status, updatedAt, asked, seen>>
    BY DEF CommitRegister, CommitUnacknowledged, RegisterWrites, Record!AuditAction,
           Record!Annotation
  <2>3. /\ status' \in [Case -> Record!Status] /\ updatedAt' \in [Case -> Nat]
        /\ out' \in [Request -> Answers]
    BY <1>5, <2>2 DEF CustodyIInv, BaseInv, DatabaseTypeOK, RowsTypeOK, SessionsTypeOK
  <2>4. /\ p \in {"committed", "answering", "cleanup", "done"} /\ BaseInv
        /\ Goto(r, p) /\ mishap' \in [Request -> SUBSET Mishaps]
    BY <1>5 DEF CustodyIInv
  <2>5. UNCHANGED <<clock, asked, seen>> /\ \A c \in Case : status'[c] = status[c]
    BY <2>2
  <2>. QED
    BY <1>2, <2>1, <2>2, <2>3, <2>4, <2>5, CommitBase
<1>8. StepOf(r)
  BY <1>4, <1>5, <1>6 DEF StepOf
<1>9. RequestInv(r)'
  BY <1>1, <1>2, <1>3, <1>4, <1>5, <1>6, NoContentAssumption
     DEF RequestInv, PhaseInv, CopyInv, RowInv, VerifyInv, OrphanInv, MismatchInv,
         Active, NoCheck
<1>10. CustodyShape'
  BY <1>2, <1>4, <1>6 DEF CustodyIInv, CustodyShape, RegisterPc, MaybeContent
<1>. QED
  BY <1>7, <1>8, <1>9, <1>10, StepKeeps

\* cleanup_paths either removes both files of a registration or leaves a mark.
LEMMA UnlinksLeaves ==
    ASSUME CustodyIInv, NEW r \in Request, Unlinks(r)
    PROVE  /\ partial' \in [Request -> BOOLEAN] /\ file' \in [Request -> MaybeContent]
           /\ mishap' \in [Request -> SUBSET Mishaps]
           /\ \A q \in Request \ {r} :
                 partial'[q] = partial[q] /\ file'[q] = file[q] /\ mishap'[q] = mishap[q]
           /\ mishap[r] \subseteq mishap'[r]
           /\ "tamper" \in mishap'[r] => "tamper" \in mishap[r]
           /\ \/ file'[r] = NoContent /\ ~partial'[r]
              \/ /\ "unlink" \in mishap'[r]
                 /\ file'[r] = file[r] /\ partial'[r] = partial[r]
<1>1. /\ partial \in [Request -> BOOLEAN] /\ file \in [Request -> MaybeContent]
      /\ mishap \in [Request -> SUBSET Mishaps]
      /\ "unlink" \in Mishaps /\ NoContent \in MaybeContent
  BY DEF CustodyIInv, CustodyShape, BaseInv, DatabaseTypeOK, SessionsTypeOK, Mishaps,
         MaybeContent
<1>2. CASE /\ partial' = [partial EXCEPT ![r] = FALSE]
           /\ file' = [file EXCEPT ![r] = NoContent]
           /\ mishap' = mishap
  BY <1>1, <1>2
<1>3. CASE /\ partial' = partial /\ file' = file
           /\ mishap' = [mishap EXCEPT ![r] = @ \union {"unlink"}]
  <2>1. mishap'[r] = mishap[r] \union {"unlink"}
    BY <1>1, <1>3
  <2>2. mishap' \in [Request -> SUBSET Mishaps]
    BY <1>1, <1>3
  <2>. QED
    BY <1>1, <1>3, <2>1, <2>2
<1>. QED
  BY <1>2, <1>3 DEF Unlinks, storage

\* A registration fails before its metadata is committed: while storing, with
\* the removal of its files, or in the database, with the removal still due.
LEMMA RegisterFailureKeeps ==
    ASSUME CustodyIInv, NEW r \in Request, StoreFails(r) \/ RegisterDbFailure(r)
    PROVE  CustodyIInv'
<1>1. /\ pc \in [Request -> CasePc \union RegisterPc \union VerifyPc] /\ RequestInv(r)
      /\ mishap \in [Request -> SUBSET Mishaps] /\ out \in [Request -> Answers]
      /\ "error" \in Answers
  BY DEF CustodyIInv, CustodyShape, BaseInv, DatabaseTypeOK, SessionsTypeOK, Answers
<1>2. CASE StoreFails(r)
  <2>1. /\ op' = op /\ tgt' = tgt /\ seen' = seen /\ status' = status
        /\ source' = source /\ row' = row /\ subject' = subject /\ want' = want
        /\ got' = got /\ checked' = checked
        /\ pc' = [pc EXCEPT ![r] = "done"] /\ out' = [out EXCEPT ![r] = "error"]
        /\ Unlinks(r) /\ Goto(r, "done") /\ Release(r)
        /\ UNCHANGED <<clock, caseRows, asked, seen>>
        /\ pc[r] \in {"locked", "copying", "linked"}
    BY <1>2 DEF StoreFails, Answer, Goto, asked, caseRows, verifying
  <2>2. /\ \A q \in Request \ {r}, c \in Case : lock[c] = q => lock'[c] = q
        /\ pc'[r] = "done" /\ \A q \in Request \ {r} : pc'[q] = pc[q]
        /\ out' \in [Request -> Answers]
    BY <1>1, <2>1 DEF Release
  <2>3. /\ partial' \in [Request -> BOOLEAN] /\ file' \in [Request -> MaybeContent]
        /\ mishap' \in [Request -> SUBSET Mishaps]
        /\ \A q \in Request \ {r} :
              partial'[q] = partial[q] /\ file'[q] = file[q] /\ mishap'[q] = mishap[q]
        /\ mishap[r] \subseteq mishap'[r]
        /\ (file'[r] = NoContent /\ ~partial'[r]) \/ "unlink" \in mishap'[r]
    BY <2>1, UnlinksLeaves
  <2>4. BaseInv'
    BY <2>1, <2>2, <2>3, ReleaseBase DEF CustodyIInv
  <2>5. StepOf(r)
    BY <2>1, <2>2, <2>3 DEF StepOf
  <2>6. row[r] = NoContent
    BY <1>1, <2>1 DEF RequestInv, RowInv
  <2>7. RequestInv(r)'
    BY <1>1, <2>1, <2>2, <2>3, <2>6
       DEF RequestInv, PhaseInv, CopyInv, RowInv, VerifyInv, OrphanInv, MismatchInv,
           Active, NoCheck
  <2>8. CustodyShape'
    BY <2>1, <2>3 DEF CustodyIInv, CustodyShape, CasePc
  <2>. QED
    BY <2>4, <2>5, <2>7, <2>8, StepKeeps
<1>3. CASE RegisterDbFailure(r) /\ pc[r] \in {"begun", "locked"}
  <2>1. Rollback(r, "error") /\ op[r] = "register" /\ UNCHANGED custodyVars
    BY <1>3 DEF RegisterDbFailure
  <2>. QED
    BY <1>1, <1>3, <2>1, RollbackKeeps
<1>4. CASE RegisterDbFailure(r) /\ pc[r] \notin {"begun", "locked"}
  <2>1. /\ op' = op /\ tgt' = tgt /\ seen' = seen /\ status' = status
        /\ mishap' = mishap /\ out' = out /\ partial' = partial /\ file' = file
        /\ source' = source /\ row' = row /\ subject' = subject /\ want' = want
        /\ got' = got /\ checked' = checked
        /\ pc' = [pc EXCEPT ![r] = "cleanup"]
        /\ Goto(r, "cleanup") /\ Release(r)
        /\ UNCHANGED <<clock, caseRows, asked, seen>>
        /\ pc[r] = "stored"
    BY <1>4 DEF RegisterDbFailure, Goto, asked, caseRows, custodyVars, storage, verifying
  <2>2. /\ \A q \in Request \ {r}, c \in Case : lock[c] = q => lock'[c] = q
        /\ pc'[r] = "cleanup" /\ \A q \in Request \ {r} : pc'[q] = pc[q]
    BY <1>1, <2>1 DEF Release
  <2>3. Active(r) /\ pc[r] # "idle" /\ UNCHANGED <<clock, caseRows, asked, seen>>
    BY <2>1 DEF Active
  <2>4. BaseInv'
    BY <1>1, <2>1, <2>3, ReleaseBase DEF CustodyIInv
  <2>5. StepOf(r)
    BY <2>1, <2>2 DEF StepOf
  <2>6. row[r] = NoContent
    BY <1>1, <2>1 DEF RequestInv, RowInv
  <2>7. RequestInv(r)'
    BY <1>1, <2>1, <2>2, <2>6
       DEF RequestInv, PhaseInv, CopyInv, RowInv, VerifyInv, OrphanInv, MismatchInv,
           Active, NoCheck
  <2>8. CustodyShape'
    BY <2>1 DEF CustodyIInv, CustodyShape, RegisterPc
  <2>. QED
    BY <2>4, <2>5, <2>7, <2>8, StepKeeps
<1>. QED
  BY <1>2, <1>3, <1>4

\* After the transaction: the failed registration removes its files, the
\* others give their answer.
LEMMA AnswerKeeps ==
    ASSUME CustodyIInv, NEW r \in Request, Cleanup(r) \/ AnswerCustody(r)
    PROVE  CustodyIInv'
<1>1. /\ pc \in [Request -> CasePc \union RegisterPc \union VerifyPc] /\ RequestInv(r)
      /\ mishap \in [Request -> SUBSET Mishaps] /\ out \in [Request -> Answers]
      /\ seen \in [Request -> Record!Status]
      /\ {"ok", "error"} \subseteq Answers
  BY DEF CustodyIInv, CustodyShape, BaseInv, DatabaseTypeOK, SessionsTypeOK, Answers
<1>2. /\ op' = op /\ tgt' = tgt /\ seen' = seen /\ status' = status /\ lock' = lock
      /\ source' = source /\ row' = row /\ subject' = subject /\ want' = want
      /\ got' = got /\ checked' = checked
      /\ pc' = [pc EXCEPT ![r] = "done"] /\ Goto(r, "done")
      /\ out' \in [Request -> Answers]
      /\ UNCHANGED <<clock, caseRows, rowLocks, asked>>
      /\ pc[r] \in {"cleanup", "answering"}
  BY <1>1 DEF Cleanup, AnswerCustody, Answer, Goto, asked, caseRows, rowLocks,
              custodyVars, verifying
<1>3. /\ partial' \in [Request -> BOOLEAN] /\ file' \in [Request -> MaybeContent]
      /\ mishap' \in [Request -> SUBSET Mishaps]
      /\ \A q \in Request \ {r} :
            partial'[q] = partial[q] /\ file'[q] = file[q] /\ mishap'[q] = mishap[q]
      /\ mishap[r] \subseteq mishap'[r]
      /\ "tamper" \in mishap'[r] => "tamper" \in mishap[r]
      /\ \/ pc[r] = "cleanup" /\ file'[r] = NoContent /\ ~partial'[r]
         \/ /\ pc[r] = "cleanup" => "unlink" \in mishap'[r]
            /\ file'[r] = file[r] /\ partial'[r] = partial[r]
  <2>1. CASE Cleanup(r)
    BY <2>1, UnlinksLeaves DEF Cleanup
  <2>2. CASE AnswerCustody(r)
    BY <1>1, <2>2
       DEF AnswerCustody, custodyVars, storage, CustodyIInv, CustodyShape
  <2>. QED
    BY <2>1, <2>2
<1>4. BaseInv'
  BY <1>1, <1>2, <1>3, AfterCommitBase DEF CustodyIInv
<1>5. pc'[r] = "done" /\ \A q \in Request \ {r} : pc'[q] = pc[q]
  BY <1>1, <1>2
<1>6. StepOf(r)
  BY <1>2, <1>3, <1>5 DEF StepOf
<1>7. RequestInv(r)'
  BY <1>1, <1>2, <1>3, <1>5
     DEF RequestInv, PhaseInv, CopyInv, RowInv, VerifyInv, OrphanInv, MismatchInv,
         Active, NoCheck
<1>8. CustodyShape'
  BY <1>2, <1>3 DEF CustodyIInv, CustodyShape, CasePc
<1>. QED
  BY <1>4, <1>6, <1>7, <1>8, StepKeeps

\* The verdict of a verification is committed, acknowledged or not.
LEMMA CommitVerificationKeeps ==
    ASSUME CustodyIInv, NEW r \in Request, CommitVerification(r)
    PROVE  CustodyIInv'
<1>1. /\ pc \in [Request -> CasePc \union RegisterPc \union VerifyPc] /\ RequestInv(r)
      /\ mishap \in [Request -> SUBSET Mishaps] /\ out \in [Request -> Answers]
      /\ checked \in [Request -> [digest : MaybeContent, match : BOOLEAN]]
      /\ got[r] \in MaybeContent
      /\ "error" \in Answers /\ "post_commit" \in Mishaps
  BY DEF CustodyIInv, CustodyShape, BaseInv, DatabaseTypeOK, SessionsTypeOK, Answers,
         Mishaps
<1>2. /\ pc[r] = "recorded" /\ op[r] = "verify" /\ tgt[r] \in Case /\ InTransaction(r)
      /\ subject[r] \in Request /\ row[r] = NoContent
      /\ got[r] # want[r] => "tamper" \in mishap[subject[r]]
  BY <1>1 DEF CommitVerification, InTransaction, Active, Ended, CustodyIInv, BaseInv,
              TransactionInv, RequestInv, PhaseInv, RowInv, VerifyInv
<1>3. /\ op' = op /\ tgt' = tgt /\ seen' = seen /\ status' = status
      /\ source' = source /\ partial' = partial /\ file' = file /\ row' = row
      /\ subject' = subject /\ want' = want /\ got' = got
      /\ \A q \in Request \ {r}, c \in Case : lock[c] = q => lock'[c] = q
      /\ checked' = [checked EXCEPT
                       ![r] = [digest |-> got[r], match |-> got[r] = want[r]]]
  BY DEF CommitVerification, Release, asked, storage, verifying
<1>4. PICK p \in {"answering", "done"} :
         /\ Goto(r, p)
         /\ \A q \in Request \ {r} : mishap'[q] = mishap[q]
         /\ \A q \in Request : mishap[q] \subseteq mishap'[q]
         /\ mishap' \in [Request -> SUBSET Mishaps]
         /\ out' \in [Request -> Answers]
  <2>1. CASE Goto(r, "answering") /\ UNCHANGED <<out, mishap>>
    BY <1>1, <2>1
  <2>2. CASE Answer(r, "error") /\ mishap' = [mishap EXCEPT ![r] = @ \union {"post_commit"}]
    <3>1. out' \in [Request -> Answers] /\ Goto(r, "done")
      BY <1>1, <2>2 DEF Answer
    <3>2. mishap' \in [Request -> SUBSET Mishaps]
      BY <1>1, <2>2
    <3>3. \A q \in Request :
             mishap[q] \subseteq mishap'[q] /\ (q # r => mishap'[q] = mishap[q])
      BY <1>1, <2>2
    <3>. QED
      BY <3>1, <3>2, <3>3
  <2>. QED
    BY <2>1, <2>2 DEF CommitVerification
<1>5. /\ pc' = [pc EXCEPT ![r] = p] /\ pc'[r] = p
      /\ \A q \in Request \ {r} : pc'[q] = pc[q] /\ checked'[q] = checked[q]
      /\ checked'[r] = [digest |-> got[r], match |-> got[r] = want[r]]
  BY <1>1, <1>3, <1>4 DEF Goto
<1>6. BaseInv'
  <2>1. /\ "EVIDENCE_VERIFIED" \in Record!AuditAction
        /\ Audit(r, tgt[r], "EVIDENCE_VERIFIED") /\ Release(r)
        /\ UNCHANGED <<clock, status, updatedAt, asked, seen>>
    BY DEF CommitVerification, Record!AuditAction, Record!Annotation
  <2>2. status' \in [Case -> Record!Status] /\ updatedAt' \in [Case -> Nat]
    BY <2>1 DEF CustodyIInv, BaseInv, DatabaseTypeOK, RowsTypeOK
  <2>3. /\ p \in {"committed", "answering", "cleanup", "done"} /\ BaseInv
        /\ Goto(r, p) /\ mishap' \in [Request -> SUBSET Mishaps]
        /\ out' \in [Request -> Answers]
    BY <1>4 DEF CustodyIInv
  <2>4. UNCHANGED <<clock, asked, seen>> /\ \A c \in Case : status'[c] = status[c]
    BY <2>1
  <2>. QED
    BY <1>2, <2>1, <2>2, <2>3, <2>4, CommitBase
<1>7. StepOf(r)
  BY <1>3, <1>4, <1>5 DEF StepOf
<1>8. RequestInv(r)'
  BY <1>1, <1>2, <1>3, <1>4, <1>5
     DEF RequestInv, PhaseInv, CopyInv, RowInv, VerifyInv, OrphanInv, MismatchInv,
         Active, NoCheck
<1>9. CustodyShape'
  BY <1>1, <1>3, <1>5 DEF CustodyIInv, CustodyShape, CasePc, RegisterPc
<1>. QED
  BY <1>6, <1>7, <1>8, <1>9, StepKeeps

\* A registration that is refused for its file name opens no transaction.
LEMMA RefuseKeeps ==
    ASSUME CustodyIInv, NEW r \in Request, RefuseFilename(r)
    PROVE  CustodyIInv'
<1>1. /\ pc \in [Request -> CasePc \union RegisterPc \union VerifyPc] /\ RequestInv(r)
      /\ op \in [Request -> CustodyOp] /\ pc[r] = "idle" /\ op[r] = "none"
      /\ out \in [Request -> Answers] /\ "bad_request" \in Answers
  BY DEF RefuseFilename, CustodyIInv, CustodyShape, BaseInv, TransactionInv,
         DatabaseTypeOK, SessionsTypeOK, Answers
<1>2. /\ op' = [op EXCEPT ![r] = "register"] /\ pc' = [pc EXCEPT ![r] = "done"]
      /\ out' = [out EXCEPT ![r] = "bad_request"]
      /\ UNCHANGED <<clock, status, updatedAt, trail, lock, share, tgt, began, seen,
                     mishap, source, partial, file, row, subject, want, got, checked>>
  BY DEF RefuseFilename, Answer, Goto, caseRows, rowLocks, custodyVars, storage, verifying
<1>3. /\ pc'[r] = "done" /\ op'[r] = "register" /\ out' \in [Request -> Answers]
      /\ \A q \in Request \ {r} : pc'[q] = pc[q] /\ op'[q] = op[q]
  BY <1>1, <1>2
<1>4. BaseInv'
  <2>1. \A q : Record!HasWritten(q)' <=> Record!HasWritten(q)
    BY <1>2, SameTrailSameAuthors
  <2>2. DatabaseTypeOK' /\ DOMAIN pc' = Request /\ DOMAIN op' = Request
    BY <1>1, <1>2, <1>3
       DEF CustodyIInv, BaseInv, DatabaseTypeOK, RowsTypeOK, LocksTypeOK, SessionsTypeOK
  <2>3. LocksProtectDecisions'
    BY <1>1, <1>2, <1>3, NoRequestAssumption
       DEF CustodyIInv, BaseInv, DatabaseTypeOK, LocksTypeOK, TransactionInv,
           LocksProtectDecisions, InTransaction, Ended
  <2>4. TransactionInv'
    BY <1>1, <1>2, <1>3, <2>1, <2>3
       DEF CustodyIInv, BaseInv, TransactionInv, Active, Ended
  <2>. QED
    BY <2>2, <2>4 DEF BaseInv
<1>5. StepOf(r)
  BY <1>1, <1>2, <1>3 DEF StepOf
<1>6. row[r] = NoContent /\ file[r] = NoContent /\ ~partial[r] /\ checked[r] = NoCheck
  BY <1>1 DEF RequestInv, PhaseInv, RowInv, VerifyInv
<1>7. RequestInv(r)'
  BY <1>2, <1>3, <1>6
     DEF RequestInv, PhaseInv, CopyInv, RowInv, VerifyInv, OrphanInv, MismatchInv,
         Active, NoCheck
<1>8. CustodyShape'
  BY <1>2, <1>3 DEF CustodyIInv, CustodyShape, CasePc, CustodyOp
<1>. QED
  BY <1>4, <1>5, <1>7, <1>8, StepKeeps

-----------------------------------------------------------------------------
\* The environment.

\* A stored file is changed behind the application's back.
LEMMA TamperKeeps ==
    ASSUME CustodyIInv, Tamper
    PROVE  CustodyIInv'
<1>1. PICK e \in Request, d \in MaybeContent :
         /\ row[e] # NoContent /\ file[e] # NoContent
         /\ file' = [file EXCEPT ![e] = d]
         /\ mishap' = [mishap EXCEPT ![e] = @ \union {"tamper"}]
  BY DEF Tamper
<1>2. UNCHANGED <<clock, status, updatedAt, trail, lock, share, pc, op, tgt, began, seen,
                  out, source, partial, row, subject, want, got, checked>>
  BY DEF Tamper, caseRows, rowLocks, asked, verifying
<1>3. /\ file \in [Request -> MaybeContent] /\ mishap \in [Request -> SUBSET Mishaps]
      /\ "tamper" \in Mishaps /\ RequestInv(e)
  BY DEF CustodyIInv, CustodyShape, BaseInv, DatabaseTypeOK, SessionsTypeOK, Mishaps
<1>4. /\ mishap'[e] = mishap[e] \union {"tamper"}
      /\ mishap' \in [Request -> SUBSET Mishaps]
      /\ file' \in [Request -> MaybeContent]
      /\ \A q \in Request \ {e} : mishap'[q] = mishap[q] /\ file'[q] = file[q]
  <2>1. mishap' \in [Request -> SUBSET Mishaps]
    BY <1>1, <1>3
  <2>2. file' \in [Request -> MaybeContent]
    BY <1>1, <1>3
  <2>. QED
    BY <1>1, <1>3, <2>1, <2>2
<1>5. BaseInv'
  <2>1. \A q : Record!HasWritten(q)' <=> Record!HasWritten(q)
    BY <1>2, SameTrailSameAuthors
  <2>2. DatabaseTypeOK' /\ DOMAIN pc' = Request /\ DOMAIN op' = Request
    BY <1>2, <1>4
       DEF CustodyIInv, BaseInv, DatabaseTypeOK, RowsTypeOK, LocksTypeOK, SessionsTypeOK
  <2>3. TransactionInv'
    BY <1>2, <2>1
       DEF CustodyIInv, BaseInv, TransactionInv, LocksProtectDecisions, InTransaction,
           Active, Ended
  <2>. QED
    BY <2>2, <2>3 DEF BaseInv
<1>6. StepOf(e)
  BY <1>2, <1>4 DEF StepOf
<1>7. RequestInv(e)'
  BY <1>1, <1>2, <1>3, <1>4
     DEF RequestInv, PhaseInv, CopyInv, RowInv, VerifyInv, OrphanInv, MismatchInv,
         Active, NoCheck
<1>8. CustodyShape'
  BY <1>2, <1>4 DEF CustodyIInv, CustodyShape
<1>. QED
  BY <1>5, <1>6, <1>7, <1>8, StepKeeps

\* The clock moves, the process dies, or nothing happens.
LEMMA WorldKeeps ==
    ASSUME CustodyIInv, ClockMoves \/ Crash \/ UNCHANGED vars, UNCHANGED custodyVars
    PROVE  CustodyIInv'
<1>1. BaseInv'
  BY EnvironmentBase, StutterBase DEF CustodyIInv
<1>2. /\ pc \in [Request -> CasePc \union RegisterPc \union VerifyPc]
      /\ lock \in [Case -> Request \union {NoRequest}]
  BY DEF CustodyIInv, CustodyShape, BaseInv, DatabaseTypeOK, LocksTypeOK
<1>3. UNCHANGED <<op, tgt, seen, status, source, partial, file, row, subject, want, got,
                  checked>>
  BY DEF ClockMoves, Crash, vars, asked, caseRows, custodyVars, storage, verifying
<1>4. CASE Crash
  <2>1. /\ pc' = [r \in Request |-> IF Active(r) THEN "done" ELSE pc[r]]
        /\ mishap' = [r \in Request |->
                        IF Active(r) THEN mishap[r] \union {"crash"} ELSE mishap[r]]
    BY <1>4 DEF Crash
  <2>2. ASSUME NEW r \in Request PROVE RequestInv(r)'
    <3>1. RequestInv(r) /\ (VerifyInv(r) /\ checked[r] # NoCheck => subject[r] \in Request)
      BY DEF CustodyIInv, VerifyInv
    <3>2. CASE Active(r)
      <4>1. /\ pc'[r] = "done" /\ mishap'[r] = mishap[r] \union {"crash"}
            /\ pc[r] \notin {"idle", "done"}
        BY <2>1, <3>2 DEF Active
      <4>2. \A s \in Request : mishap[s] \subseteq mishap'[s]
        BY <2>1
      <4>. QED
        BY <1>3, <3>1, <4>1, <4>2
           DEF RequestInv, PhaseInv, CopyInv, RowInv, VerifyInv, OrphanInv, MismatchInv,
               Active, NoCheck
    <3>3. CASE ~Active(r)
      <4>1. /\ pc'[r] = pc[r] /\ mishap'[r] = mishap[r] /\ pc[r] \in {"idle", "done"}
        BY <2>1, <3>3 DEF Active
      <4>2. \A s \in Request : mishap[s] \subseteq mishap'[s]
        BY <2>1
      <4>. QED
        BY <1>3, <3>1, <4>1, <4>2
           DEF RequestInv, PhaseInv, CopyInv, RowInv, VerifyInv, OrphanInv, MismatchInv,
               Active, NoCheck
    <3>. QED
      BY <3>2, <3>3
  <2>3. CustodyShape'
    BY <1>2, <1>3, <2>1 DEF CustodyIInv, CustodyShape, CasePc
  <2>. QED
    BY <1>1, <2>2, <2>3 DEF CustodyIInv
<1>5. CASE ClockMoves \/ UNCHANGED vars
  <2>1. UNCHANGED <<pc, mishap, lock>>
    BY <1>5 DEF ClockMoves, vars, rowLocks
  <2>2. ASSUME NEW r \in Request PROVE RequestInv(r)'
    BY <1>3, <2>1
       DEF CustodyIInv, RequestInv, PhaseInv, CopyInv, RowInv, VerifyInv, OrphanInv,
           MismatchInv, Active, NoCheck
  <2>3. CustodyShape'
    BY <1>3, <2>1 DEF CustodyIInv, CustodyShape
  <2>. QED
    BY <1>1, <2>2, <2>3 DEF CustodyIInv
<1>. QED
  BY <1>4, <1>5

-----------------------------------------------------------------------------

\* Before the first request there is no evidence at all.
LEMMA CustodyInitKeeps == CustodyInit => CustodyIInv
<1>. SUFFICES ASSUME CustodyInit PROVE CustodyIInv
  OBVIOUS
<1>1. BaseInv
  BY InitBase DEF CustodyInit
<1>2. CustodyShape
  BY DEF CustodyInit, DatabaseInit, CustodyShape, CasePc, CustodyOp, MaybeContent, NoCheck
<1>3. ASSUME NEW r \in Request PROVE RequestInv(r)
  BY DEF CustodyInit, DatabaseInit, RequestInv, PhaseInv, CopyInv, RowInv, VerifyInv,
         OrphanInv, MismatchInv, Active
<1>. QED
  BY <1>1, <1>2, <1>3 DEF CustodyIInv

\* Each step of register and verify keeps the invariant.
LEMMA CustodyStepKeeps ==
    ASSUME CustodyIInv, NEW r \in Request, CustodyWork(r) \/ CustodyFault(r)
    PROVE  CustodyIInv'
<1>1. CASE \/ RegisterNotFound(r) \/ RejectRegister(r) \/ VerifyNotFound(r)
           \/ FileUnavailable(r) \/ VerifyDbFailure(r)
  <2>1. /\ pc[r] \in {"begun", "locked", "located", "hashed", "recorded"}
        /\ op[r] \in {"register", "verify"}
    BY <1>1 DEF RegisterNotFound, RejectRegister, VerifyNotFound, FileUnavailable,
                VerifyDbFailure, CustodyIInv, RequestInv, PhaseInv
  <2>2. PICK a \in Answers : Rollback(r, a) /\ UNCHANGED custodyVars
    BY <1>1 DEF RegisterNotFound, RejectRegister, VerifyNotFound, FileUnavailable,
                VerifyDbFailure, Answers
  <2>. QED
    BY <2>1, <2>2, RollbackKeeps
<1>2. CASE LockForRegister(r) \/ FlushVerification(r)
  BY <1>2, LockingKeeps
<1>3. CASE StartCopy(r) \/ LinkFinal(r) \/ UnlinkPartial(r)
  BY <1>3, CopyKeeps
<1>4. CASE ReadAcquisition(r) \/ HashFile(r)
  BY <1>4, HashKeeps
<1>5. CASE CommitRegister(r) \/ CommitUnacknowledged(r)
  BY <1>5, CommitRegisterKeeps
<1>6. CASE StoreFails(r) \/ RegisterDbFailure(r)
  BY <1>6, RegisterFailureKeeps
<1>7. CASE Cleanup(r) \/ AnswerCustody(r)
  BY <1>7, AnswerKeeps
<1>8. CASE CommitVerification(r)
  BY <1>8, CommitVerificationKeeps
<1>. QED
  BY <1>1, <1>2, <1>3, <1>4, <1>5, <1>6, <1>7, <1>8
     DEF CustodyWork, CustodyFault, RegisterWork, VerifyWork

\* The invariant is inductive.
LEMMA CustodyNextKeeps == CustodyIInv /\ [CustodyNext]_allVars => CustodyIInv'
<1>. SUFFICES ASSUME CustodyIInv, [CustodyNext]_allVars PROVE CustodyIInv'
  OBVIOUS
<1>1. CASE CaseNext /\ UNCHANGED custodyVars
  BY <1>1, BeginKeeps, CaseStepKeeps, WorldKeeps DEF CaseNext
<1>2. ASSUME NEW r \in Request,
             \/ RefuseFilename(r) \/ BeginRegister(r) \/ BeginVerify(r)
             \/ CustodyWork(r) \/ CustodyFault(r)
      PROVE  CustodyIInv'
  BY <1>2, RefuseKeeps, BeginKeeps, CustodyStepKeeps
<1>3. CASE Tamper
  BY <1>3, TamperKeeps
<1>4. CASE (Quiet /\ UNCHANGED custodyVars) \/ UNCHANGED allVars
  BY <1>4, WorldKeeps DEF Quiet, allVars
<1>. QED
  BY <1>1, <1>2, <1>3, <1>4 DEF CustodyNext

\* Every variable, of the case services and of the evidence, keeps its type.
THEOREM CustodyTypeCorrect == CustodySpec => []CustodyTypeOK
<1>1. CustodyIInv => CustodyTypeOK
  BY DEF CustodyIInv, BaseInv, CustodyShape, CustodyTypeOK
<1>. QED
  BY <1>1, CustodyInitKeeps, CustodyNextKeeps, PTL DEF CustodySpec

\* In every phase register and verify may rely on what CustodyInv says: row
\* lock, copy, committed record and digest on record stay in step.
THEOREM CustodyProtected == CustodySpec => []CustodyInv
<1>1. CustodyIInv => CustodyInv
  BY DEF CustodyIInv, BaseInv, CustodyInv, RequestInv
<1>. QED
  BY <1>1, CustodyInitKeeps, CustodyNextKeeps, PTL DEF CustodySpec

\* A committed evidence record points to the complete copy that was hashed,
\* whatever crashes or fails, unless somebody changed the file or the
\* acknowledgement of the commit was lost (evidence_service.py, register).
THEOREM RecordsHaveFiles == CustodySpec => []RecordHasCompleteFile
<1>1. CustodyIInv => RecordHasCompleteFile
  BY DEF CustodyIInv, RequestInv, RowInv, RecordHasCompleteFile
<1>. QED
  BY <1>1, CustodyInitKeeps, CustodyNextKeeps, PTL DEF CustodySpec

\* A registration that left no record left no file, unless the process died or
\* the file system refused the removal (storage.py, store and cleanup_paths).
THEOREM NoFileLeftBehind == CustodySpec => []NoOrphanFile
<1>1. CustodyIInv => NoOrphanFile
  BY DEF CustodyIInv, RequestInv, OrphanInv, NoOrphanFile
<1>. QED
  BY <1>1, CustodyInitKeeps, CustodyNextKeeps, PTL DEF CustodySpec

\* A verification that runs while others register, fail or crash reports a
\* mismatch only of a file that was changed from outside.
THEOREM NoFalseAlarm == CustodySpec => []MismatchMeansTampering
<1>1. CustodyIInv => MismatchMeansTampering
  BY DEF CustodyIInv, RequestInv, MismatchInv, MismatchMeansTampering
<1>. QED
  BY <1>1, CustodyInitKeeps, CustodyNextKeeps, PTL DEF CustodySpec

-----------------------------------------------------------------------------
\* Refinement: registration and verification are annotations of the record.

\* Each step of register and verify is a step of the record or none.
LEMMA CustodyStepImplements ==
    ASSUME CustodyIInv, NEW r \in Request, CustodyWork(r) \/ CustodyFault(r)
    PROVE  Record!Next \/ UNCHANGED Record!recordVars
<1>1. RequestInv(r) /\ BaseInv /\ (Active(r) => tgt[r] \in Case)
  BY DEF CustodyIInv, BaseInv, TransactionInv
<1>2. CASE CommitRegister(r) \/ CommitUnacknowledged(r)
  <2>1. /\ pc[r] = "stored" /\ status' = status
        /\ Audit(r, tgt[r], "EVIDENCE_REGISTERED")
    BY <1>2 DEF CommitRegister, CommitUnacknowledged, RegisterWrites
  <2>2. tgt[r] \in Case /\ ~Ended(r) /\ lock[tgt[r]] = r /\ seen[r] = "OPEN"
    BY <1>1, <2>1 DEF RequestInv, CopyInv, Active, Ended
  <2>3. status[tgt[r]] = "OPEN"
    BY <1>1, <2>2, NoRequestAssumption DEF BaseInv, TransactionInv, LocksProtectDecisions
  <2>. QED
    BY <1>1, <2>1, <2>2, <2>3, AnnotationImplements DEF Record!Annotation
<1>3. CASE CommitVerification(r)
  <2>1. /\ pc[r] = "recorded" /\ status' = status
        /\ Audit(r, tgt[r], "EVIDENCE_VERIFIED")
    BY <1>3 DEF CommitVerification
  <2>2. tgt[r] \in Case /\ ~Ended(r) /\ Active(r) /\ op[r] = "verify"
    BY <1>1, <2>1 DEF RequestInv, PhaseInv, Active, Ended
  <2>3. /\ subject[r] \in Request /\ row[subject[r]] # NoContent
        /\ tgt[subject[r]] = tgt[r]
    BY <1>1, <2>1, <2>2 DEF RequestInv, VerifyInv
  <2>4. status[tgt[r]] # "ABSENT"
    BY <2>3 DEF CustodyIInv, RequestInv, RowInv
  <2>5. "EVIDENCE_VERIFIED" \in Record!Annotation
    BY DEF Record!Annotation
  <2>. QED
    BY <1>1, <2>1, <2>2, <2>4, <2>5, AnnotationImplements
<1>4. CASE UNCHANGED caseRows
  BY <1>4 DEF caseRows, Record!recordVars
<1>5. \/ CommitRegister(r) \/ CommitUnacknowledged(r) \/ CommitVerification(r)
      \/ UNCHANGED caseRows
  BY DEF CustodyWork, CustodyFault, RegisterWork, VerifyWork, RegisterNotFound,
         LockForRegister, RejectRegister, StartCopy, LinkFinal, UnlinkPartial, Cleanup,
         VerifyNotFound, ReadAcquisition, HashFile, FileUnavailable, FlushVerification,
         AnswerCustody, StoreFails, RegisterDbFailure, VerifyDbFailure, Rollback
<1>. QED
  BY <1>2, <1>3, <1>4, <1>5

\* And so is every step of the system.
LEMMA CustodyNextImplements ==
    CustodyIInv /\ [CustodyNext]_allVars => [Record!Next]_(Record!recordVars)
<1>. SUFFICES ASSUME CustodyIInv, [CustodyNext]_allVars
              PROVE  Record!Next \/ UNCHANGED Record!recordVars
  OBVIOUS
<1>1. CASE CaseNext
  BY <1>1, CaseNextImplements DEF CustodyIInv
<1>2. CASE \/ \E r \in Request : RefuseFilename(r) \/ BeginRegister(r) \/ BeginVerify(r)
           \/ Tamper \/ Quiet \/ UNCHANGED allVars
  BY <1>2 DEF RefuseFilename, BeginRegister, BeginVerify, Begin, Tamper, Quiet, allVars,
              vars, caseRows, Record!recordVars
<1>3. CASE \E r \in Request : CustodyWork(r) \/ CustodyFault(r)
  BY <1>3, CustodyStepImplements
<1>. QED
  BY <1>1, <1>2, <1>3 DEF CustodyNext

\* With evidence, files, crashes and tampering beside the case operations, the
\* status and the trail of a case still change by the atomic steps of the
\* abstract record only.
THEOREM CustodyImplementsRecord == CustodySpec => ImplementsRecord
<1>1. CustodyInit => Record!Init
  BY DEF CustodyInit, DatabaseInit
<1>. QED
  BY <1>1, CustodyInitKeeps, CustodyNextKeeps, CustodyNextImplements, PTL
     DEF CustodySpec, ImplementsRecord, Record!Spec

\* However registrations and closes interleave, no evidence joins a case after
\* it was closed (the row lock register and close both take).
THEOREM RegisteredBeforeClose == CustodySpec => []NothingRegisteredAfterClose
<1>1. CustodyInit => RecordFacts!RecordInv
  <2>1. CustodyInit => RecordFacts!Init
    BY DEF CustodyInit, DatabaseInit, Record!Init, RecordFacts!Init
  <2>. QED
    BY <2>1, RecordFacts!InitRecordInv
<1>2. CustodyIInv /\ RecordFacts!RecordInv /\ [CustodyNext]_allVars
        => RecordFacts!RecordInv'
  <2>1. [Record!Next]_(Record!recordVars) => [RecordFacts!Next]_(RecordFacts!recordVars)
    BY DEF Record!Next, Record!recordVars, Record!Move, Record!Annotate,
           Record!Write, Record!HasWritten, Record!Annotation,
           RecordFacts!Next, RecordFacts!recordVars, RecordFacts!Move,
           RecordFacts!Annotate, RecordFacts!Write, RecordFacts!HasWritten,
           RecordFacts!Annotation
  <2>. QED
    BY <2>1, CustodyNextImplements, RecordFacts!NextRecordInv
<1>3. RecordFacts!RecordInv => NothingRegisteredAfterClose
  BY DEF RecordFacts!RecordInv, RecordFacts!NothingRegisteredAfterClose,
         NothingRegisteredAfterClose, Record!NothingRegisteredAfterClose
<1>. QED
  BY <1>1, <1>2, <1>3, CustodyInitKeeps, CustodyNextKeeps, PTL DEF CustodySpec

-----------------------------------------------------------------------------
\* The trail of the evidence.

RegisteredEntry(e) == [action |-> "EVIDENCE_REGISTERED", by |-> e]
VerifiedEntry(r) == [action |-> "EVIDENCE_VERIFIED", by |-> r]

\* What the trail holds about the rows of request r.
EntryInv(r) ==
    /\ row[r] # NoContent <=> op[r] = "register" /\ Record!HasWritten(r)
    /\ row[r] # NoContent =>
          \E i \in DOMAIN trail[tgt[r]] : trail[tgt[r]][i] = RegisteredEntry(r)
    /\ checked[r] # NoCheck <=> op[r] = "verify" /\ Record!HasWritten(r)
    /\ pc[r] \in {"hashed", "recorded"} => got[r] # NoContent
    /\ \A c \in Case : \A i \in DOMAIN trail[c] :
          trail[c][i] = VerifiedEntry(r) =>
             \E j \in 1..(i - 1) : trail[c][j] = RegisteredEntry(subject[r])

\* What r is told, and which mishap its answer may depend on.
CustodyAnswerInv(r) ==
    /\ ~Ended(r) => "post_commit" \notin mishap[r]
    /\ pc[r] = "answering" => Record!HasWritten(r)
    /\ pc[r] = "cleanup" => ("post_commit" \in mishap[r] <=> Record!HasWritten(r))
    /\ pc[r] = "done" /\ op[r] \in {"register", "verify"} =>
          \/ out[r] = "ok" /\ Record!HasWritten(r)
          \/ out[r] \in {"conflict", "not_found", "bad_request"} /\ ~Record!HasWritten(r)
          \/ out[r] = "error" /\ ("post_commit" \in mishap[r] <=> Record!HasWritten(r))
          \/ out[r] = "lost" /\ "crash" \in mishap[r]

TrailInv(r) == EntryInv(r) /\ CustodyAnswerInv(r)

\* A step of r writes nothing, or one entry of r at the end of one trail.
Writes(r, c, a) ==
    /\ c \in Case /\ a \in Record!AuditAction
    /\ trail' = [trail EXCEPT ![c] = Append(@, [action |-> a, by |-> r])]

\* What such an entry changes: nothing about the entries there are, and the
\* authorship of r only.
LEMMA EntryAtEnd ==
    ASSUME CustodyIInv, NEW r \in Request, NEW c, NEW a, Writes(r, c, a)
    PROVE  /\ \A d \in Case : \A i \in DOMAIN trail[d] :
                 i \in DOMAIN trail'[d] /\ trail'[d][i] = trail[d][i]
           /\ \A d \in Case : \A i \in DOMAIN trail'[d] :
                 \/ i \in DOMAIN trail[d]
                 \/ /\ d = c /\ trail'[d][i] = [action |-> a, by |-> r]
                    /\ i = Len(trail[d]) + 1
           /\ Len(trail[c]) + 1 \in DOMAIN trail'[c]
           /\ trail'[c][Len(trail[c]) + 1] = [action |-> a, by |-> r]
           /\ \A q : Record!HasWritten(q)' <=> Record!HasWritten(q) \/ q = r
<1>. DEFINE e == [action |-> a, by |-> r]
<1>1. trail \in [Case -> Seq(Record!Entry)]
  BY DEF CustodyIInv, BaseInv, DatabaseTypeOK, RowsTypeOK
<1>2. c \in Case /\ trail' = [trail EXCEPT ![c] = Append(@, e)]
  BY DEF Writes
<1>3. \A q : Record!HasWritten(q)' <=> Record!HasWritten(q) \/ q = r
  BY <1>1, AuditWrites DEF Writes, Audit
<1>. HIDE DEF e
<1>4. /\ \A d \in Case : \A i \in DOMAIN trail[d] :
            i \in DOMAIN trail'[d] /\ trail'[d][i] = trail[d][i]
      /\ \A d \in Case : \A i \in DOMAIN trail'[d] :
            \/ i \in DOMAIN trail[d]
            \/ d = c /\ trail'[d][i] = e /\ i = Len(trail[d]) + 1
      /\ Len(trail[c]) + 1 \in DOMAIN trail'[c]
      /\ trail'[c][Len(trail[c]) + 1] = e
  BY <1>1, <1>2
<1>. QED
  BY <1>3, <1>4 DEF e

\* What a step of r does to the rows, the session and the entries of others.
OnlyOwnRows(r) ==
    /\ UNCHANGED trail \/ \E c, a : Writes(r, c, a)
    /\ \A q \in Request \ {r} :
          /\ pc'[q] = pc[q] /\ op'[q] = op[q] /\ tgt'[q] = tgt[q]
          /\ out'[q] = out[q] /\ mishap'[q] = mishap[q]
          /\ row'[q] = row[q] /\ checked'[q] = checked[q]
          /\ subject'[q] = subject[q] /\ got'[q] = got[q]

\* So what the trail says of the others stays true.
LEMMA OthersTrail ==
    ASSUME CustodyIInv, NEW r \in Request, OnlyOwnRows(r), NEW q \in Request \ {r}, TrailInv(q)
    PROVE  TrailInv(q)'
<1>1. Record!HasWritten(q)' <=> Record!HasWritten(q)
  BY EntryAtEnd, SameTrailSameAuthors DEF OnlyOwnRows
<1>2. row[q] # NoContent => tgt[q] \in Case
  BY DEF CustodyIInv, RequestInv, RowInv
<1>3. \A d \in Case : \A i \in DOMAIN trail[d] :
         i \in DOMAIN trail'[d] /\ trail'[d][i] = trail[d][i]
  BY EntryAtEnd DEF OnlyOwnRows
<1>4. \A d \in Case : \A i \in DOMAIN trail'[d] :
         trail'[d][i] = VerifiedEntry(q) => i \in DOMAIN trail[d]
  <2>1. CASE UNCHANGED trail
    BY <2>1
  <2>2. CASE \E c, a : Writes(r, c, a)
    <3>1. PICK c, a : Writes(r, c, a)
      BY <2>2
    <3>2. VerifiedEntry(q) # [action |-> a, by |-> r]
      BY DEF VerifiedEntry
    <3>3. \A d \in Case : \A i \in DOMAIN trail'[d] :
             i \in DOMAIN trail[d] \/ trail'[d][i] = [action |-> a, by |-> r]
      BY <3>1, EntryAtEnd
    <3>. QED
      BY <3>2, <3>3
  <2>. QED
    BY <2>1, <2>2 DEF OnlyOwnRows
<1>5. EntryInv(q)'
  <2>1. \A c \in Case : \A i \in DOMAIN trail'[c] :
           trail'[c][i] = VerifiedEntry(q) =>
              \E j \in 1..(i - 1) : trail'[c][j] = RegisteredEntry(subject[q])
    <3>. SUFFICES ASSUME NEW c \in Case, NEW i \in DOMAIN trail'[c],
                         trail'[c][i] = VerifiedEntry(q)
                  PROVE  \E j \in 1..(i - 1) : trail'[c][j] = RegisteredEntry(subject[q])
      OBVIOUS
    <3>1. i \in DOMAIN trail[c] /\ trail[c][i] = VerifiedEntry(q)
      BY <1>3, <1>4
    <3>2. PICK j \in 1..(i - 1) : trail[c][j] = RegisteredEntry(subject[q])
      BY <3>1 DEF TrailInv, EntryInv
    <3>3. trail[c] \in Seq(Record!Entry)
      BY DEF CustodyIInv, BaseInv, DatabaseTypeOK, RowsTypeOK
    <3>4. j \in DOMAIN trail[c]
      BY <3>1, <3>3
    <3>. QED
      BY <1>3, <3>2, <3>4
  <2>. QED
    BY <1>1, <1>2, <1>3, <2>1
       DEF OnlyOwnRows, TrailInv, EntryInv, RegisteredEntry, VerifiedEntry, NoCheck
<1>6. CustodyAnswerInv(q)'
  BY <1>1 DEF OnlyOwnRows, TrailInv, CustodyAnswerInv, Ended
<1>. QED
  BY <1>5, <1>6 DEF TrailInv

\* The entries of r itself, as long as it writes none.
LEMMA NoEntryYet ==
    ASSUME CustodyIInv, NEW r \in Request, EntryInv(r), UNCHANGED trail,
           row'[r] = row[r], checked'[r] = checked[r],
           \/ pc[r] = "idle"
           \/ op'[r] = op[r] /\ tgt'[r] = tgt[r] /\ subject'[r] = subject[r],
           pc'[r] \in {"hashed", "recorded"} => got'[r] # NoContent
    PROVE  EntryInv(r)' /\ (Record!HasWritten(r)' <=> Record!HasWritten(r))
<1>1. Record!HasWritten(r)' <=> Record!HasWritten(r)
  BY SameTrailSameAuthors
<1>2. CASE pc[r] = "idle"
  <2>1. ~Record!HasWritten(r)
    BY <1>2 DEF CustodyIInv, BaseInv, TransactionInv, Ended
  <2>2. \A c \in Case : \A i \in DOMAIN trail[c] : trail[c][i] # VerifiedEntry(r)
    BY <2>1 DEF Record!HasWritten, VerifiedEntry
  <2>. QED
    BY <1>1, <2>1, <2>2 DEF EntryInv, NoCheck
<1>3. CASE op'[r] = op[r] /\ tgt'[r] = tgt[r] /\ subject'[r] = subject[r]
  BY <1>1, <1>3 DEF EntryInv, NoCheck, RegisteredEntry, VerifiedEntry
<1>. QED
  BY <1>2, <1>3

\* A commit of a case operation: no entry about evidence.
LEMMA CaseEntry ==
    ASSUME CustodyIInv, NEW r \in Request, EntryInv(r), NEW c, NEW a, Writes(r, c, a),
           op[r] \in CaseOp, a # "EVIDENCE_VERIFIED",
           pc'[r] = "committed", op'[r] = op[r], subject'[r] = subject[r],
           row'[r] = row[r], checked'[r] = checked[r]
    PROVE  EntryInv(r)'
<1>1. op[r] \notin {"register", "verify"}
  BY DEF CaseOp, TransitionOp
<1>2. \A d \in Case : \A i \in DOMAIN trail'[d] :
         trail'[d][i] = VerifiedEntry(r) =>
            \E j \in 1..(i - 1) : trail'[d][j] = RegisteredEntry(subject[r])
  <2>. SUFFICES ASSUME NEW d \in Case, NEW i \in DOMAIN trail'[d],
                       trail'[d][i] = VerifiedEntry(r)
                PROVE  \E j \in 1..(i - 1) : trail'[d][j] = RegisteredEntry(subject[r])
    OBVIOUS
  <2>1. VerifiedEntry(r) # [action |-> a, by |-> r]
    BY DEF VerifiedEntry
  <2>2. i \in DOMAIN trail[d] /\ trail[d][i] = VerifiedEntry(r)
    <3>1. \A b \in Case : \A k \in DOMAIN trail'[b] :
             k \in DOMAIN trail[b] \/ trail'[b][k] = [action |-> a, by |-> r]
      BY EntryAtEnd
    <3>. QED
      BY <2>1, <3>1, EntryAtEnd
  <2>3. PICK j \in 1..(i - 1) : trail[d][j] = RegisteredEntry(subject[r])
    BY <2>2 DEF EntryInv
  <2>4. j \in DOMAIN trail[d]
    BY <2>2, <2>3 DEF CustodyIInv, BaseInv, DatabaseTypeOK, RowsTypeOK
  <2>. QED
    BY <2>3, <2>4, EntryAtEnd
<1>. QED
  BY <1>1, <1>2 DEF EntryInv, NoCheck

\* A request that ends without a commit: it has written nothing.
LEMMA RollbackTrail ==
    ASSUME CustodyIInv, NEW r \in Request, TrailInv(r), ~Ended(r), pc[r] # "idle",
           NEW a \in {"conflict", "not_found", "error"},
           op' = op, tgt' = tgt, subject' = subject, row' = row, checked' = checked,
           trail' = trail, pc'[r] = "done", out'[r] = a,
           "post_commit" \in mishap'[r] => "post_commit" \in mishap[r]
    PROVE  TrailInv(r)'
<1>1. ~Record!HasWritten(r)
  BY DEF CustodyIInv, BaseInv, TransactionInv
<1>2. EntryInv(r)' /\ ~Record!HasWritten(r)'
  BY <1>1, NoEntryYet DEF TrailInv
<1>3. "post_commit" \notin mishap'[r]
  BY DEF TrailInv, CustodyAnswerInv
<1>. QED
  BY <1>2, <1>3 DEF TrailInv, CustodyAnswerInv, Ended

\* A transaction that goes on.
LEMMA WorkTrail ==
    ASSUME CustodyIInv, NEW r \in Request, TrailInv(r), ~Ended(r),
           pc[r] = "idle" \/ (op' = op /\ tgt' = tgt /\ subject' = subject),
           row' = row, checked' = checked, trail' = trail, mishap'[r] = mishap[r],
           pc'[r] \notin {"answering", "cleanup", "done"},
           pc'[r] \in {"hashed", "recorded"} => got'[r] # NoContent
    PROVE  TrailInv(r)'
<1>1. EntryInv(r)'
  BY NoEntryYet DEF TrailInv
<1>2. CustodyAnswerInv(r)'
  BY DEF TrailInv, CustodyAnswerInv
<1>. QED
  BY <1>1, <1>2 DEF TrailInv

\* The commit of a registration: its row and its entry appear together.
LEMMA RegisterTrail ==
    ASSUME CustodyIInv, NEW r \in Request, TrailInv(r),
           CommitRegister(r) \/ CommitUnacknowledged(r)
    PROVE  TrailInv(r)'
<1>1. /\ pc[r] = "stored" /\ op[r] = "register" /\ tgt[r] \in Case /\ source[r] \in Content
      /\ ~Record!HasWritten(r) /\ "post_commit" \notin mishap[r]
  <2>1. pc[r] = "stored"
    BY DEF CommitRegister, CommitUnacknowledged
  <2>2. op[r] = "register" /\ Active(r) /\ ~Ended(r)
    BY <2>1 DEF CustodyIInv, RequestInv, PhaseInv, Active, Ended
  <2>. QED
    BY <2>1, <2>2 DEF CustodyIInv, RequestInv, CopyInv, BaseInv, TransactionInv, TrailInv,
                      CustodyAnswerInv
<1>2. /\ op' = op /\ tgt' = tgt /\ subject' = subject /\ checked' = checked
      /\ row'[r] = source[r] /\ Writes(r, tgt[r], "EVIDENCE_REGISTERED")
      /\ \/ pc'[r] = "answering" /\ mishap'[r] = mishap[r]
         \/ pc'[r] = "cleanup" /\ "post_commit" \in mishap'[r]
  BY <1>1 DEF CommitRegister, CommitUnacknowledged, RegisterWrites, Goto, Audit, asked,
              verifying, Writes, Record!AuditAction, Record!Annotation, CustodyIInv,
              CustodyShape, BaseInv, DatabaseTypeOK, SessionsTypeOK
<1>3. Record!HasWritten(r)'
  BY <1>2, EntryAtEnd
<1>4. \E i \in DOMAIN trail'[tgt[r]] : trail'[tgt[r]][i] = RegisteredEntry(r)
  BY <1>2, EntryAtEnd DEF RegisteredEntry
<1>5. \A c \in Case : \A i \in DOMAIN trail'[c] : trail'[c][i] # VerifiedEntry(r)
  <2>1. \A c \in Case : \A i \in DOMAIN trail[c] : trail[c][i] # VerifiedEntry(r)
    BY <1>1 DEF Record!HasWritten, VerifiedEntry
  <2>2. VerifiedEntry(r) # RegisteredEntry(r)
    BY DEF VerifiedEntry, RegisteredEntry
  <2>3. \A c \in Case : \A i \in DOMAIN trail'[c] :
           \/ i \in DOMAIN trail[c] /\ trail'[c][i] = trail[c][i]
           \/ trail'[c][i] = RegisteredEntry(r)
    BY <1>2, EntryAtEnd DEF RegisteredEntry
  <2>. QED
    BY <2>1, <2>2, <2>3
<1>6. row'[r] # NoContent
  BY <1>1, <1>2, NoContentAssumption
<1>7. EntryInv(r)'
  <2>1. checked'[r] = NoCheck
    BY <1>1, <1>2 DEF TrailInv, EntryInv
  <2>. QED
    BY <1>1, <1>2, <1>3, <1>4, <1>5, <1>6, <2>1 DEF EntryInv, NoCheck
<1>. QED
  BY <1>2, <1>3, <1>7 DEF TrailInv, CustodyAnswerInv, Ended

\* The commit of a verification, after the registration of its subject.
LEMMA VerifyTrail ==
    ASSUME CustodyIInv, NEW r \in Request, \A q \in Request : TrailInv(q),
           CommitVerification(r)
    PROVE  TrailInv(r)'
<1>1. /\ pc[r] = "recorded" /\ op[r] = "verify" /\ tgt[r] \in Case
      /\ ~Record!HasWritten(r) /\ "post_commit" \notin mishap[r]
      /\ got[r] # NoContent
      /\ subject[r] \in Request /\ tgt[subject[r]] = tgt[r] /\ row[subject[r]] # NoContent
  <2>1. pc[r] = "recorded"
    BY DEF CommitVerification
  <2>2. op[r] = "verify" /\ Active(r) /\ ~Ended(r)
    BY <2>1 DEF CustodyIInv, RequestInv, PhaseInv, Active, Ended
  <2>. QED
    BY <2>1, <2>2 DEF CustodyIInv, RequestInv, VerifyInv, BaseInv, TransactionInv, TrailInv,
                      CustodyAnswerInv, EntryInv
<1>2. /\ op' = op /\ tgt' = tgt /\ subject' = subject /\ row' = row
      /\ checked'[r].digest = got[r]
      /\ Writes(r, tgt[r], "EVIDENCE_VERIFIED")
      /\ \/ pc'[r] = "answering" /\ mishap'[r] = mishap[r]
         \/ pc'[r] = "done" /\ out'[r] = "error" /\ "post_commit" \in mishap'[r]
  BY <1>1 DEF CommitVerification, Goto, Answer, Audit, asked, verifying, Writes,
              Record!AuditAction, Record!Annotation, CustodyIInv, CustodyShape, BaseInv,
              DatabaseTypeOK, SessionsTypeOK
<1>3. Record!HasWritten(r)'
  BY <1>2, EntryAtEnd
<1>4. checked'[r] # NoCheck /\ row[r] = NoContent
  BY <1>1, <1>2 DEF NoCheck, TrailInv, EntryInv
<1>5. PICK j \in DOMAIN trail[tgt[r]] : trail[tgt[r]][j] = RegisteredEntry(subject[r])
  BY <1>1 DEF TrailInv, EntryInv
<1>6. trail[tgt[r]] \in Seq(Record!Entry)
  BY <1>1 DEF CustodyIInv, BaseInv, DatabaseTypeOK, RowsTypeOK
<1>7. ASSUME NEW c \in Case, NEW i \in DOMAIN trail'[c], trail'[c][i] = VerifiedEntry(r)
      PROVE  \E k \in 1..(i - 1) : trail'[c][k] = RegisteredEntry(subject[r])
  <2>1. i \notin DOMAIN trail[c]
    <3>1. \A d \in Case : \A k \in DOMAIN trail[d] : trail[d][k] # VerifiedEntry(r)
      BY <1>1 DEF Record!HasWritten, VerifiedEntry
    <3>2. Writes(r, tgt[r], "EVIDENCE_VERIFIED")
      BY <1>2
    <3>3. i \in DOMAIN trail[c] => trail'[c][i] = trail[c][i]
      BY <3>2, EntryAtEnd
    <3>. QED
      BY <1>7, <3>1, <3>3
  <2>2. c = tgt[r] /\ i = Len(trail[tgt[r]]) + 1
    <3>1. \A d \in Case : \A k \in DOMAIN trail'[d] :
             \/ k \in DOMAIN trail[d]
             \/ /\ d = tgt[r] /\ trail'[d][k] = [action |-> "EVIDENCE_VERIFIED", by |-> r]
                /\ k = Len(trail[d]) + 1
      BY <1>2, EntryAtEnd
    <3>. QED
      BY <2>1, <3>1
  <2>3. j \in 1..(i - 1)
    BY <1>6, <2>2
  <2>4. trail'[c][j] = RegisteredEntry(subject[r])
    BY <1>1, <1>2, <1>5, <2>2, EntryAtEnd
  <2>. QED
    BY <2>3, <2>4
<1>8. EntryInv(r)'
  BY <1>1, <1>2, <1>3, <1>4, <1>7 DEF EntryInv, NoCheck
<1>. QED
  BY <1>2, <1>3, <1>8 DEF TrailInv, CustodyAnswerInv, Ended

\* A step of a case operation writes nothing, or the entry of its operation.
LEMMA CaseStepWrites ==
    ASSUME CustodyIInv, NEW r \in Request, CaseStep(r)
    PROVE  \/ UNCHANGED trail
           \/ \E c, a : /\ Writes(r, c, a) /\ a # "EVIDENCE_VERIFIED"
                        /\ op[r] \in CaseOp /\ pc'[r] = "committed"
<1>1. CASE CommitCreate(r) \/ CommitUpdate(r) \/ CommitTransition(r)
  <2>1. tgt[r] \in Case
    BY <1>1 DEF CommitCreate, CommitUpdate, CommitTransition, CustodyIInv, BaseInv,
                TransactionInv, Active
  <2>2. PICK a \in {"CASE_CREATED", "CASE_UPDATED", "CASE_CLOSED", "CASE_ARCHIVED"} :
           Audit(r, tgt[r], a)
    BY <1>1 DEF CommitCreate, CommitUpdate, CommitTransition, TransitionOp, AuditName
  <2>3. op[r] \in CaseOp /\ pc'[r] = "committed"
    BY <1>1 DEF CommitCreate, CommitUpdate, CommitTransition, CaseOp, Goto, CustodyIInv, BaseInv
  <2>4. Writes(r, tgt[r], a) /\ a # "EVIDENCE_VERIFIED"
    BY <2>1, <2>2 DEF Audit, Writes, Record!AuditAction, Record!Annotation
  <2>. QED
    BY <2>3, <2>4
<1>2. CASE ~(CommitCreate(r) \/ CommitUpdate(r) \/ CommitTransition(r))
  BY <1>2 DEF CaseStep, CaseWork, CaseFault, NotFound, LockCase, RejectTransition, Refresh,
              PostCommitFailure, DbFailure, Rollback, caseRows
<1>. QED
  BY <1>1, <1>2

\* Whose rows and session a step of request r changes.
LEMMA StepIsOwn ==
    ASSUME CustodyIInv, NEW r \in Request,
           \/ (BeginCreate(r) \/ BeginOnCase(r) \/ CaseStep(r)) /\ UNCHANGED custodyVars
           \/ RefuseFilename(r) \/ BeginRegister(r) \/ BeginVerify(r)
           \/ CustodyWork(r) \/ CustodyFault(r)
    PROVE  OnlyOwnRows(r)
<1>. USE DEF CustodyIInv, CustodyShape, BaseInv, DatabaseTypeOK, SessionsTypeOK,
             Rollback, Answer, Goto, Begin, asked, verifying, storage, custodyVars, caseRows
<1>1. CASE (BeginCreate(r) \/ BeginOnCase(r)) /\ UNCHANGED custodyVars
  BY <1>1 DEF BeginCreate, BeginOnCase, OnlyOwnRows
<1>2. CASE CaseStep(r) /\ UNCHANGED custodyVars
  <2>1. \A q \in Request \ {r} : pc'[q] = pc[q] /\ op'[q] = op[q] /\ tgt'[q] = tgt[q]
                                 /\ out'[q] = out[q] /\ mishap'[q] = mishap[q]
    BY <1>2, CaseStepIsOwn
  <2>2. UNCHANGED trail \/ \E c, a : Writes(r, c, a)
    BY <1>2, CaseStepWrites
  <2>. QED
    BY <1>2, <2>1, <2>2 DEF OnlyOwnRows
<1>3. CASE RefuseFilename(r) \/ BeginRegister(r) \/ BeginVerify(r)
  BY <1>3 DEF RefuseFilename, BeginRegister, BeginVerify, OnlyOwnRows
<1>4. CASE CommitRegister(r) \/ CommitUnacknowledged(r)
  <2>1. tgt[r] \in Case
    BY <1>4 DEF CommitRegister, CommitUnacknowledged, TransactionInv, Active
  <2>2. Writes(r, tgt[r], "EVIDENCE_REGISTERED")
    BY <1>4, <2>1 DEF CommitRegister, CommitUnacknowledged, RegisterWrites, Audit, Writes,
                      Record!AuditAction, Record!Annotation
  <2>. QED
    BY <1>4, <2>2 DEF CommitRegister, CommitUnacknowledged, RegisterWrites, OnlyOwnRows
<1>5. CASE CommitVerification(r)
  <2>1. tgt[r] \in Case
    BY <1>5 DEF CommitVerification, TransactionInv, Active
  <2>2. Writes(r, tgt[r], "EVIDENCE_VERIFIED")
    BY <1>5, <2>1 DEF CommitVerification, Audit, Writes, Record!AuditAction, Record!Annotation
  <2>. QED
    BY <1>5, <2>2 DEF CommitVerification, OnlyOwnRows
<1>6. CASE \/ RegisterNotFound(r) \/ LockForRegister(r) \/ RejectRegister(r) \/ StartCopy(r)
           \/ LinkFinal(r) \/ UnlinkPartial(r) \/ VerifyNotFound(r) \/ ReadAcquisition(r)
           \/ HashFile(r) \/ FileUnavailable(r) \/ FlushVerification(r) \/ AnswerCustody(r)
           \/ RegisterDbFailure(r) \/ VerifyDbFailure(r)
  BY <1>6 DEF RegisterNotFound, LockForRegister, RejectRegister, StartCopy, LinkFinal,
              UnlinkPartial, VerifyNotFound, ReadAcquisition, HashFile, FileUnavailable,
              FlushVerification, AnswerCustody, RegisterDbFailure, VerifyDbFailure, OnlyOwnRows
<1>7. CASE StoreFails(r) \/ Cleanup(r)
  BY <1>7 DEF StoreFails, Cleanup, Unlinks, OnlyOwnRows
<1>. QED
  BY <1>1, <1>2, <1>3, <1>4, <1>5, <1>6, <1>7
     DEF CustodyWork, CustodyFault, RegisterWork, VerifyWork

\* Each step of register and verify keeps what the trail says of r.
LEMMA CustodyStepTrail ==
    ASSUME CustodyIInv, NEW r \in Request, \A q \in Request : TrailInv(q),
           CustodyWork(r) \/ CustodyFault(r)
    PROVE  TrailInv(r)'
<1>. USE DEF Goto, Answer, asked, verifying, storage, custodyVars, caseRows
<1>0. /\ TrailInv(r) /\ PhaseInv(r)
      /\ pc \in [Request -> CasePc \union RegisterPc \union VerifyPc]
      /\ out \in [Request -> Answers] /\ mishap \in [Request -> SUBSET Mishaps]
  BY DEF CustodyIInv, RequestInv, CustodyShape, BaseInv, DatabaseTypeOK, SessionsTypeOK
<1>1. CASE \/ RegisterNotFound(r) \/ RejectRegister(r) \/ VerifyNotFound(r)
           \/ FileUnavailable(r) \/ VerifyDbFailure(r)
           \/ RegisterDbFailure(r) /\ pc[r] \in {"begun", "locked"}
  <2>1. ~Ended(r) /\ pc[r] # "idle"
    BY <1>1 DEF RegisterNotFound, RejectRegister, VerifyNotFound, FileUnavailable,
                VerifyDbFailure, Ended
  <2>2. PICK a \in {"conflict", "not_found", "error"} :
           Rollback(r, a) /\ UNCHANGED custodyVars
    BY <1>1 DEF RegisterNotFound, RejectRegister, VerifyNotFound, FileUnavailable,
                VerifyDbFailure, RegisterDbFailure
  <2>3. pc'[r] = "done" /\ out'[r] = a
    BY <1>0, <2>2 DEF Rollback
  <2>. QED
    BY <1>0, <2>1, <2>2, <2>3, RollbackTrail DEF Rollback
<1>2. CASE StoreFails(r)
  <2>1. ~Ended(r) /\ pc[r] # "idle"
    BY <1>2 DEF StoreFails, Ended
  <2>2. /\ pc'[r] = "done" /\ out'[r] = "error"
        /\ "post_commit" \in mishap'[r] => "post_commit" \in mishap[r]
    BY <1>0, <1>2 DEF StoreFails, Unlinks
  <2>. QED
    BY <1>0, <1>2, <2>1, <2>2, RollbackTrail DEF StoreFails
<1>3. CASE \/ LockForRegister(r) \/ StartCopy(r) \/ LinkFinal(r) \/ UnlinkPartial(r)
           \/ ReadAcquisition(r) \/ HashFile(r) \/ FlushVerification(r)
  <2>1. ~Ended(r)
    BY <1>3 DEF LockForRegister, StartCopy, LinkFinal, UnlinkPartial, ReadAcquisition,
                HashFile, FlushVerification, Ended
  <2>2. /\ op' = op /\ tgt' = tgt /\ subject' = subject /\ row' = row
        /\ checked' = checked /\ trail' = trail /\ mishap' = mishap
        /\ pc'[r] \notin {"answering", "cleanup", "done"}
    BY <1>0, <1>3 DEF LockForRegister, StartCopy, LinkFinal, UnlinkPartial, ReadAcquisition,
                      HashFile, FlushVerification
  <2>3. pc'[r] \in {"hashed", "recorded"} => got'[r] # NoContent
    <3>1. CASE HashFile(r)
      BY <3>1 DEF HashFile, CustodyIInv, CustodyShape
    <3>2. CASE FlushVerification(r)
      BY <1>0, <3>2 DEF FlushVerification, TrailInv, EntryInv
    <3>3. CASE ~(HashFile(r) \/ FlushVerification(r))
      BY <1>0, <1>3, <3>3
         DEF LockForRegister, StartCopy, LinkFinal, UnlinkPartial, ReadAcquisition
    <3>. QED
      BY <3>1, <3>2, <3>3
  <2>. QED
    BY <1>0, <2>1, <2>2, <2>3, WorkTrail
<1>4. CASE CommitRegister(r) \/ CommitUnacknowledged(r)
  BY <1>0, <1>4, RegisterTrail
<1>5. CASE CommitVerification(r)
  BY <1>5, VerifyTrail
<1>6. CASE RegisterDbFailure(r) /\ pc[r] = "stored"
  <2>1. /\ op' = op /\ tgt' = tgt /\ subject' = subject /\ row' = row
        /\ checked' = checked /\ trail' = trail /\ mishap' = mishap
        /\ pc'[r] = "cleanup"
    BY <1>0, <1>6 DEF RegisterDbFailure
  <2>2. ~Record!HasWritten(r) /\ "post_commit" \notin mishap[r]
    BY <1>0, <1>6 DEF CustodyIInv, BaseInv, TransactionInv, Ended, TrailInv, CustodyAnswerInv
  <2>3. EntryInv(r)' /\ ~Record!HasWritten(r)'
    BY <1>0, <2>1, <2>2, NoEntryYet DEF TrailInv
  <2>. QED
    BY <2>1, <2>2, <2>3 DEF TrailInv, CustodyAnswerInv
<1>7. CASE Cleanup(r) \/ AnswerCustody(r)
  <2>1. /\ op' = op /\ tgt' = tgt /\ subject' = subject /\ row' = row
        /\ checked' = checked /\ trail' = trail /\ pc'[r] = "done"
        /\ "post_commit" \in mishap'[r] <=> "post_commit" \in mishap[r]
        /\ \/ pc[r] = "cleanup" /\ out'[r] = "error"
           \/ pc[r] = "answering" /\ out'[r] = "ok"
    BY <1>0, <1>7 DEF Cleanup, AnswerCustody, Unlinks
  <2>2. EntryInv(r)' /\ (Record!HasWritten(r)' <=> Record!HasWritten(r))
    BY <1>0, <2>1, NoEntryYet DEF TrailInv
  <2>. QED
    BY <1>0, <2>1, <2>2 DEF TrailInv, CustodyAnswerInv, Ended
<1>. QED
  BY <1>1, <1>2, <1>3, <1>4, <1>5, <1>6, <1>7
     DEF CustodyWork, CustodyFault, RegisterWork, VerifyWork, RegisterDbFailure

\* A step of one request keeps what the trail says of every request.
LEMMA RequestTrail ==
    ASSUME CustodyIInv, \A q \in Request : TrailInv(q), NEW r \in Request,
           \/ (BeginCreate(r) \/ BeginOnCase(r) \/ CaseStep(r)) /\ UNCHANGED custodyVars
           \/ RefuseFilename(r) \/ BeginRegister(r) \/ BeginVerify(r)
           \/ CustodyWork(r) \/ CustodyFault(r)
    PROVE  \A q \in Request : TrailInv(q)'
<1>. SUFFICES TrailInv(r)'
  BY StepIsOwn, OthersTrail
<1>. USE DEF asked, verifying, storage, custodyVars, caseRows
<1>0. /\ TrailInv(r)
      /\ pc \in [Request -> CasePc \union RegisterPc \union VerifyPc]
      /\ op \in [Request -> CustodyOp]
      /\ out \in [Request -> Answers] /\ mishap \in [Request -> SUBSET Mishaps]
  BY DEF CustodyIInv, CustodyShape, BaseInv, DatabaseTypeOK, SessionsTypeOK
<1>1. CASE \/ (BeginCreate(r) \/ BeginOnCase(r)) /\ UNCHANGED custodyVars
           \/ BeginRegister(r) \/ BeginVerify(r)
  <2>1. /\ pc[r] = "idle" /\ pc'[r] = "begun" /\ mishap' = mishap /\ trail' = trail
        /\ row' = row /\ checked' = checked
    BY <1>0, <1>1 DEF BeginCreate, BeginOnCase, BeginRegister, BeginVerify, Begin, Goto
  <2>. QED
    BY <1>0, <2>1, WorkTrail DEF Ended
<1>2. CASE RefuseFilename(r)
  <2>1. /\ pc[r] = "idle" /\ pc'[r] = "done" /\ out'[r] = "bad_request"
        /\ mishap' = mishap /\ trail' = trail /\ row' = row /\ checked' = checked
    BY <1>0, <1>2 DEF RefuseFilename, Answer, Goto
  <2>2. ~Record!HasWritten(r)
    BY <2>1 DEF CustodyIInv, BaseInv, TransactionInv, Ended
  <2>3. EntryInv(r)' /\ ~Record!HasWritten(r)'
    BY <1>0, <2>1, <2>2, NoEntryYet DEF TrailInv
  <2>. QED
    BY <2>1, <2>3 DEF TrailInv, CustodyAnswerInv, Ended
<1>3. CASE CaseStep(r) /\ UNCHANGED custodyVars
  <2>1. /\ op' = op /\ op[r] \in CaseOp /\ tgt' = tgt
        /\ pc'[r] \in {"locked", "committed", "done"}
        /\ ~Ended(r)' => mishap'[r] = mishap[r] /\ ~Ended(r)
    <3>1. op' = op /\ tgt' = tgt /\ op[r] \in CaseOp
      BY <1>3 DEF CaseStep, CaseWork, CaseFault, CommitCreate, NotFound, LockCase,
                  CommitUpdate, RejectTransition, CommitTransition, Refresh,
                  PostCommitFailure, DbFailure, Rollback, CaseOp, TransitionOp,
                  CustodyIInv, RequestInv, PhaseInv
    <3>2. \/ pc'[r] \in {"committed", "done"}
          \/ pc'[r] = "locked" /\ pc[r] = "begun" /\ mishap' = mishap
      BY <1>0, <1>3 DEF CaseStep, CaseWork, CaseFault, CommitCreate, NotFound, LockCase,
                        CommitUpdate, RejectTransition, CommitTransition, Refresh,
                        PostCommitFailure, DbFailure, Rollback, Answer, Goto
    <3>. QED
      BY <3>1, <3>2 DEF Ended
  <2>2. CustodyAnswerInv(r)'
    <3>1. op[r] \notin {"register", "verify"}
      BY <2>1 DEF CaseOp, TransitionOp
    <3>. QED
      BY <1>0, <2>1, <3>1 DEF TrailInv, CustodyAnswerInv, Ended
  <2>3. EntryInv(r)'
    <3>1. CASE UNCHANGED trail
      BY <1>0, <1>3, <2>1, <3>1, NoEntryYet DEF TrailInv
    <3>2. CASE \E c, a : /\ Writes(r, c, a) /\ a # "EVIDENCE_VERIFIED"
                         /\ op[r] \in CaseOp /\ pc'[r] = "committed"
      <4>1. PICK c, a : /\ Writes(r, c, a) /\ a # "EVIDENCE_VERIFIED"
                        /\ op[r] \in CaseOp /\ pc'[r] = "committed"
        BY <3>2
      <4>. QED
        BY <1>0, <1>3, <2>1, <4>1, CaseEntry DEF TrailInv
    <3>. QED
      BY <1>3, <3>1, <3>2, CaseStepWrites
  <2>. QED
    BY <2>2, <2>3 DEF TrailInv
<1>4. CASE CustodyWork(r) \/ CustodyFault(r)
  BY <1>4, CustodyStepTrail
<1>. QED
  BY <1>1, <1>2, <1>3, <1>4

\* So do the clock, crashes, tampering and steps that change nothing.
LEMMA WorldTrail ==
    ASSUME CustodyIInv, \A q \in Request : TrailInv(q),
           \/ (ClockMoves \/ Crash) /\ UNCHANGED custodyVars
           \/ Tamper \/ UNCHANGED allVars,
           NEW r \in Request
    PROVE  TrailInv(r)'
<1>. USE DEF asked, verifying, storage, custodyVars, caseRows, allVars, vars
<1>1. /\ op' = op /\ tgt' = tgt /\ subject' = subject /\ row' = row /\ got' = got
      /\ checked' = checked /\ trail' = trail
      /\ "post_commit" \in mishap'[r] <=> "post_commit" \in mishap[r]
      /\ \/ pc'[r] = pc[r] /\ out'[r] = out[r] /\ mishap[r] \subseteq mishap'[r]
         \/ pc'[r] = "done" /\ out'[r] = "lost" /\ "crash" \in mishap'[r]
  <2>1. mishap \in [Request -> SUBSET Mishaps]
    BY DEF CustodyIInv, BaseInv, DatabaseTypeOK, SessionsTypeOK
  <2>. QED
    BY <2>1 DEF ClockMoves, Crash, Tamper
<1>2. EntryInv(r)' /\ (Record!HasWritten(r)' <=> Record!HasWritten(r))
  <2>1. pc'[r] \in {"hashed", "recorded"} => got'[r] # NoContent
    BY <1>1 DEF TrailInv, EntryInv
  <2>. QED
    BY <1>1, <2>1, NoEntryYet DEF TrailInv
<1>. QED
  BY <1>1, <1>2 DEF TrailInv, CustodyAnswerInv, Ended

\* The trail invariant is inductive beside the custody invariant.
LEMMA TrailNext ==
    /\ CustodyInit => \A r \in Request : TrailInv(r)
    /\ CustodyIInv /\ (\A r \in Request : TrailInv(r)) /\ [CustodyNext]_allVars
         => (\A r \in Request : TrailInv(r))'
<1>1. CustodyInit => \A r \in Request : TrailInv(r)
  <2>. SUFFICES ASSUME CustodyInit, NEW r \in Request PROVE TrailInv(r)
    OBVIOUS
  <2>1. ~Record!HasWritten(r)
    BY InitBase DEF CustodyInit, BaseInv, TransactionInv, DatabaseInit, Ended
  <2>2. \A c \in Case : \A i \in DOMAIN trail[c] : trail[c][i] # VerifiedEntry(r)
    BY <2>1 DEF Record!HasWritten, VerifiedEntry
  <2>. QED
    BY <2>1, <2>2 DEF CustodyInit, DatabaseInit, TrailInv, EntryInv, CustodyAnswerInv, Ended
<1>2. ASSUME CustodyIInv, \A q \in Request : TrailInv(q), [CustodyNext]_allVars
      PROVE  \A q \in Request : TrailInv(q)'
  <2>1. CASE \E r \in Request :
                \/ (BeginCreate(r) \/ BeginOnCase(r) \/ CaseStep(r)) /\ UNCHANGED custodyVars
                \/ RefuseFilename(r) \/ BeginRegister(r) \/ BeginVerify(r)
                \/ CustodyWork(r) \/ CustodyFault(r)
    BY <1>2, <2>1, RequestTrail
  <2>2. CASE \/ (ClockMoves \/ Crash) /\ UNCHANGED custodyVars
             \/ Tamper \/ UNCHANGED allVars
    BY <1>2, <2>2, WorldTrail
  <2>. QED
    BY <1>2, <2>1, <2>2 DEF CustodyNext, CaseNext, Quiet, allVars
<1>. QED
  BY <1>1, <1>2

\* In every reachable state, whatever failed, crashed or interleaved, the rows
\* of the evidence tables and the entries of the audit trails agree, and each
\* verification comes after the registration it is about.
THEOREM RowsMatchTrail == CustodySpec => []CustodyMatchesTrail
<1>1. (\A r \in Request : TrailInv(r)) => CustodyMatchesTrail
  BY DEF TrailInv, EntryInv, CustodyMatchesTrail, VerifiedEntry, RegisteredEntry
<1>. QED
  BY <1>1, TrailNext, CustodyInitKeeps, CustodyNextKeeps, PTL DEF CustodySpec

\* Clients of register and verify are told what was recorded; an error after
\* the commit is the one case in which something was recorded all the same.
THEOREM CustodyAnswersHold == CustodySpec => []CustodyAnswers
<1>1. (\A r \in Request : TrailInv(r)) => CustodyAnswers
  BY DEF TrailInv, CustodyAnswerInv, CustodyAnswers
<1>. QED
  BY <1>1, TrailNext, CustodyInitKeeps, CustodyNextKeeps, PTL DEF CustodySpec

=============================================================================
