--------------------------- MODULE EvidenceCustody ---------------------------
(***************************************************************************)
(* backend/app/services/evidence_service.py on top of the case operations: *)
(* registration copies an upload into controlled storage under the case's  *)
(* row lock and then commits its metadata; verification hashes the stored  *)
(* file again, without any lock, and records what it found.  Files survive *)
(* crashes, transactions do not, and nothing makes the two one.            *)
(*                                                                         *)
(* uuid4 gives every registration an evidence identity of its own, so      *)
(* evidence is named by the request that registers it.  A digest is the    *)
(* content it was computed from.  pc of a registration goes                *)
(*   begun -> locked -> copying -> linked -> stored -> answering -> done   *)
(* and through "cleanup" to done when the database fails; a verification's *)
(*   begun -> located -> hashed -> recorded -> answering -> done.          *)
(***************************************************************************)
EXTENDS CaseLifecycle

CONSTANTS
    Content,    \* what a file may hold
    NoContent   \* no file, no row

ASSUME NoContentAssumption == NoContent \notin Content

VARIABLES
    source,     \* the upload of a registration
    partial,    \* the ".partial" copy exists
    file,       \* the content of the "original" file
    row,        \* committed Evidence, custody and ACQUISITION hash rows: the digest
    subject,    \* the evidence a verification is about
    want,       \* the acquisition digest it read
    got,        \* the digest it computed
    checked     \* committed VERIFICATION hash rows and their audit verdict

storage     == <<partial, file>>
verifying   == <<subject, want, got>>
custodyVars == <<source, storage, row, verifying, checked>>
allVars     == <<vars, custodyVars>>

MaybeContent == Content \union {NoContent}
NoCheck == [digest |-> NoContent, match |-> FALSE]

CustodyInit ==
    /\ DatabaseInit
    /\ source = [r \in Request |-> NoContent]
    /\ partial = [r \in Request |-> FALSE]
    /\ file = [r \in Request |-> NoContent]
    /\ row = [r \in Request |-> NoContent]
    /\ subject = [r \in Request |-> NoRequest]
    /\ want = [r \in Request |-> NoContent]
    /\ got = [r \in Request |-> NoContent]
    /\ checked = [r \in Request |-> NoCheck]

-----------------------------------------------------------------------------
\* register

\* An unsafe file name is refused before anything is read or locked.
RefuseFilename(r) ==
    /\ pc[r] = "idle"
    /\ op' = [op EXCEPT ![r] = "register"]
    /\ Answer(r, "bad_request")
    /\ UNCHANGED <<clock, caseRows, rowLocks, tgt, began, seen, mishap, custodyVars>>

BeginRegister(r) ==
    \E c \in Case, d \in Content :
        /\ Begin(r, "register", c)
        /\ source' = [source EXCEPT ![r] = d]
        /\ UNCHANGED <<storage, row, verifying, checked>>

RegisterNotFound(r) ==
    /\ pc[r] = "begun" /\ op[r] = "register"
    /\ status[tgt[r]] = "ABSENT"
    /\ Rollback(r, "not_found")
    /\ UNCHANGED custodyVars

\* Seeded fault: the status is read without locking the case row.
ReadForRegister(r) ==
    /\ pc[r] = "begun" /\ op[r] = "register"
    /\ status[tgt[r]] # "ABSENT"
    /\ seen' = [seen EXCEPT ![r] = status[tgt[r]]]
    /\ Goto(r, "locked")
    /\ UNCHANGED <<clock, caseRows, rowLocks, asked, out, mishap, custodyVars>>

LockForRegister(r) ==
    /\ pc[r] = "begun" /\ op[r] = "register"
    /\ Lock(r, tgt[r])
    /\ Goto(r, "locked")
    /\ UNCHANGED <<clock, caseRows, share, asked, out, mishap, custodyVars>>

RejectRegister(r) ==
    /\ pc[r] = "locked" /\ op[r] = "register"
    /\ seen[r] # "OPEN"
    /\ Rollback(r, "conflict")
    /\ UNCHANGED custodyVars

\* Seeded fault: the copy starts whatever the status of the case.
StartCopyUnchecked(r) ==
    /\ pc[r] = "locked" /\ op[r] = "register"
    /\ partial' = [partial EXCEPT ![r] = TRUE]
    /\ Goto(r, "copying")
    /\ UNCHANGED <<clock, caseRows, rowLocks, asked, seen, out, mishap,
                   source, file, row, verifying, checked>>

\* EvidenceStorage.store, in three steps a crash may come between: open the
\* temporary copy, link it to its final name once it is complete and synced,
\* remove the temporary name.
StartCopy(r) ==
    /\ pc[r] = "locked" /\ op[r] = "register"
    /\ seen[r] = "OPEN"
    /\ partial' = [partial EXCEPT ![r] = TRUE]
    /\ Goto(r, "copying")
    /\ UNCHANGED <<clock, caseRows, rowLocks, asked, seen, out, mishap,
                   source, file, row, verifying, checked>>

\* Seeded fault: what reaches the disk is not what was hashed.
LinkOtherContent(r) ==
    /\ pc[r] = "copying"
    /\ \E d \in Content : file' = [file EXCEPT ![r] = d]
    /\ Goto(r, "linked")
    /\ UNCHANGED <<clock, caseRows, rowLocks, asked, seen, out, mishap,
                   source, partial, row, verifying, checked>>

LinkFinal(r) ==
    /\ pc[r] = "copying"
    /\ file' = [file EXCEPT ![r] = source[r]]
    /\ Goto(r, "linked")
    /\ UNCHANGED <<clock, caseRows, rowLocks, asked, seen, out, mishap,
                   source, partial, row, verifying, checked>>

UnlinkPartial(r) ==
    /\ pc[r] = "linked"
    /\ partial' = [partial EXCEPT ![r] = FALSE]
    /\ Goto(r, "stored")
    /\ UNCHANGED <<clock, caseRows, rowLocks, asked, seen, out, mishap,
                   source, file, row, verifying, checked>>

\* cleanup_paths suppresses OSError: an unlink that fails leaves its file.
Unlinks(r) ==
    \/ /\ partial' = [partial EXCEPT ![r] = FALSE]
       /\ file' = [file EXCEPT ![r] = NoContent]
       /\ UNCHANGED mishap
    \/ /\ "unlink" \in Faults
       /\ partial[r] \/ file[r] # NoContent
       /\ mishap' = [mishap EXCEPT ![r] = @ \union {"unlink"}]
       /\ UNCHANGED storage

\* Any OSError while storing: store cleans up, register rolls back.
StoreFails(r) ==
    /\ "io" \in Faults
    /\ \/ pc[r] = "locked" /\ op[r] = "register" /\ seen[r] = "OPEN"
       \/ pc[r] \in {"copying", "linked"}
    /\ Unlinks(r)
    /\ Release(r)
    /\ Answer(r, "error")
    /\ UNCHANGED <<clock, caseRows, asked, seen, source, row, verifying, checked>>

\* Seeded fault: the evidence rows are written without their audit event.
RegisterWritesUnaudited(r) ==
    /\ row' = [row EXCEPT ![r] = source[r]]
    /\ Release(r)
    /\ UNCHANGED <<clock, caseRows, asked, seen, source, storage,
                   verifying, checked>>

\* Evidence row, ACQUISITION hash, custody entry and audit event, one commit.
RegisterWrites(r) ==
    /\ row' = [row EXCEPT ![r] = source[r]]
    /\ Audit(r, tgt[r], "EVIDENCE_REGISTERED")
    /\ Release(r)
    /\ UNCHANGED <<clock, status, updatedAt, asked, seen, source, storage,
                   verifying, checked>>

\* Seeded fault: the metadata is committed before the file is finalized.
CommitRegisterEarly(r) ==
    /\ pc[r] = "copying"
    /\ RegisterWrites(r)
    /\ Goto(r, "answering")
    /\ UNCHANGED <<out, mishap>>

CommitRegister(r) ==
    /\ pc[r] = "stored"
    /\ RegisterWrites(r)
    /\ Goto(r, "answering")
    /\ UNCHANGED <<out, mishap>>

\* The server commits, the acknowledgement is lost, commit() raises.
CommitUnacknowledged(r) ==
    /\ "db" \in Faults
    /\ pc[r] = "stored"
    /\ RegisterWrites(r)
    /\ Goto(r, "cleanup")
    /\ mishap' = [mishap EXCEPT ![r] = @ \union {"post_commit"}]
    /\ UNCHANGED out

\* Seeded fault: the rollback is not followed by the removal of the file.
RegisterDbFailureOnly(r) ==
    /\ "db" \in Faults
    /\ op[r] = "register"
    /\ pc[r] \in {"begun", "locked", "stored"}
    /\ Rollback(r, "error")
    /\ UNCHANGED custodyVars

\* A statement or the commit fails: rollback, which releases the case, ...
RegisterDbFailure(r) ==
    /\ "db" \in Faults
    /\ op[r] = "register"
    /\ \/ pc[r] \in {"begun", "locked"} /\ Rollback(r, "error")
       \/ /\ pc[r] = "stored"
          /\ Release(r)
          /\ Goto(r, "cleanup")
          /\ UNCHANGED <<clock, caseRows, asked, seen, out, mishap>>
    /\ UNCHANGED custodyVars

\* Seeded fault: the failure is swallowed by the cleanup.
CleanupAnswersOk(r) ==
    /\ pc[r] = "cleanup"
    /\ Unlinks(r)
    /\ Answer(r, "ok")
    /\ UNCHANGED <<clock, caseRows, rowLocks, asked, seen,
                   source, row, verifying, checked>>

\* ... and then the removal of the stored file.
Cleanup(r) ==
    /\ pc[r] = "cleanup"
    /\ Unlinks(r)
    /\ Answer(r, "error")
    /\ UNCHANGED <<clock, caseRows, rowLocks, asked, seen,
                   source, row, verifying, checked>>

-----------------------------------------------------------------------------
\* verify

\* The evidence row names its case; an identity nobody registered has none.
BeginVerify(r) ==
    \E e \in Request \ {r} :
        /\ op[e] = "register" /\ tgt[e] # NoCase
        /\ Begin(r, "verify", tgt[e])
        /\ subject' = [subject EXCEPT ![r] = e]
        /\ UNCHANGED <<source, storage, row, want, got, checked>>

VerifyNotFound(r) ==
    /\ pc[r] = "begun" /\ op[r] = "verify"
    /\ row[subject[r]] = NoContent
    /\ Rollback(r, "not_found")
    /\ UNCHANGED custodyVars

\* Reads the evidence row and its earliest ACQUISITION hash.
ReadAcquisition(r) ==
    /\ pc[r] = "begun" /\ op[r] = "verify"
    /\ row[subject[r]] # NoContent
    /\ want' = [want EXCEPT ![r] = row[subject[r]]]
    /\ Goto(r, "located")
    /\ UNCHANGED <<clock, caseRows, rowLocks, asked, seen, out, mishap,
                   source, storage, row, subject, got, checked>>

\* resolve_for_read and calculate_sha256 on the stored file.
HashFile(r) ==
    /\ pc[r] = "located"
    /\ file[subject[r]] # NoContent
    /\ got' = [got EXCEPT ![r] = file[subject[r]]]
    /\ Goto(r, "hashed")
    /\ UNCHANGED <<clock, caseRows, rowLocks, asked, seen, out, mishap,
                   source, storage, row, subject, want, checked>>

\* The file is gone or cannot be read: nothing is recorded.
FileUnavailable(r) ==
    /\ pc[r] = "located"
    /\ file[subject[r]] = NoContent \/ "io" \in Faults
    /\ Rollback(r, "error")
    /\ UNCHANGED custodyVars

\* The inserts of the commit's flush wait for a holder of the case row.
FlushVerification(r) ==
    /\ pc[r] = "hashed"
    /\ Share(r, tgt[r])
    /\ Goto(r, "recorded")
    /\ UNCHANGED <<clock, caseRows, lock, asked, seen, out, mishap, custodyVars>>

CommitVerification(r) ==
    /\ pc[r] = "recorded"
    /\ checked' = [checked EXCEPT
                     ![r] = [digest |-> got[r], match |-> got[r] = want[r]]]
    /\ Audit(r, tgt[r], "EVIDENCE_VERIFIED")
    /\ Release(r)
    /\ \/ Goto(r, "answering") /\ UNCHANGED <<out, mishap>>
       \/ /\ "db" \in Faults
          /\ Answer(r, "error")
          /\ mishap' = [mishap EXCEPT ![r] = @ \union {"post_commit"}]
    /\ UNCHANGED <<clock, status, updatedAt, asked, seen,
                   source, storage, row, verifying>>

VerifyDbFailure(r) ==
    /\ "db" \in Faults
    /\ op[r] = "verify" /\ pc[r] \in {"begun", "hashed", "recorded"}
    /\ Rollback(r, "error")
    /\ UNCHANGED custodyVars

\* The committed row or the verdict goes back to the client.
AnswerCustody(r) ==
    /\ pc[r] = "answering"
    /\ Answer(r, "ok")
    /\ UNCHANGED <<clock, caseRows, rowLocks, asked, seen, mishap, custodyVars>>

-----------------------------------------------------------------------------
\* Somebody changes or removes a stored file behind the application's back.
Tamper ==
    /\ "tamper" \in Faults
    /\ \E e \in Request, d \in MaybeContent :
          /\ row[e] # NoContent /\ file[e] # NoContent /\ d # file[e]
          /\ file' = [file EXCEPT ![e] = d]
          /\ mishap' = [mishap EXCEPT ![e] = @ \union {"tamper"}]
    /\ UNCHANGED <<clock, caseRows, rowLocks, pc, asked, seen, out,
                   source, partial, row, verifying, checked>>

RegisterWork(r) ==
    \/ RegisterNotFound(r)
    \/ LockForRegister(r)
    \/ RejectRegister(r)
    \/ StartCopy(r)
    \/ LinkFinal(r)
    \/ UnlinkPartial(r)
    \/ CommitRegister(r)
    \/ Cleanup(r)

VerifyWork(r) ==
    \/ VerifyNotFound(r)
    \/ ReadAcquisition(r)
    \/ HashFile(r)
    \/ FileUnavailable(r)
    \/ FlushVerification(r)
    \/ CommitVerification(r)

CustodyWork(r) == RegisterWork(r) \/ VerifyWork(r) \/ AnswerCustody(r)

CustodyFault(r) ==
    \/ StoreFails(r)
    \/ CommitUnacknowledged(r)
    \/ RegisterDbFailure(r)
    \/ VerifyDbFailure(r)

CustodyNext ==
    \/ CaseNext /\ UNCHANGED custodyVars
    \/ \E r \in Request :
          \/ RefuseFilename(r)
          \/ BeginRegister(r)
          \/ BeginVerify(r)
          \/ CustodyWork(r)
          \/ CustodyFault(r)
    \/ Tamper
    \/ Quiet /\ UNCHANGED custodyVars

CustodySpec == CustodyInit /\ [][CustodyNext]_allVars

RequestWork(r) ==
    \/ CaseWork(r) /\ UNCHANGED custodyVars
    \/ CustodyWork(r)

\* The thread pool runs every request it has accepted, and a statement that
\* need not wait is executed.  Nothing is obliged to fail: no timeout ends the
\* wait for a row lock.  Nobody is obliged to send a request.
FairCustodySpec == CustodySpec /\ \A r \in Request : WF_allVars(RequestWork(r))

-----------------------------------------------------------------------------

CustodyOp == CaseOp \union {"none", "register", "verify"}
RegisterPc == {"copying", "linked", "stored", "cleanup", "answering"}
VerifyPc == {"located", "hashed", "recorded", "answering"}

\* What register and verify add to the case services.
CustodyShape ==
    /\ pc \in [Request -> CasePc \union RegisterPc \union VerifyPc]
    /\ op \in [Request -> CustodyOp]
    /\ source \in [Request -> MaybeContent]
    /\ partial \in [Request -> BOOLEAN]
    /\ file \in [Request -> MaybeContent]
    /\ row \in [Request -> MaybeContent]
    /\ subject \in [Request -> Request \union {NoRequest}]
    /\ want \in [Request -> MaybeContent]
    /\ got \in [Request -> MaybeContent]
    /\ checked \in [Request -> [digest : MaybeContent, match : BOOLEAN]]

\* Every variable stays in its type, the shared ones included.
CustodyTypeOK == DatabaseTypeOK /\ CustodyShape

\* Which operation a phase belongs to.
PhaseInv(r) ==
    /\ pc[r] = "committed" => op[r] \in CaseOp
    /\ pc[r] \in {"copying", "linked", "stored", "cleanup"} => op[r] = "register"
    /\ pc[r] \in {"located", "hashed", "recorded"} => op[r] = "verify"
    /\ pc[r] = "answering" => op[r] \in {"register", "verify"}
    /\ pc[r] = "idle" => file[r] = NoContent /\ ~partial[r]

\* How far the files of a registration are, phase by phase.
CopyInv(r) ==
    /\ pc[r] \in {"copying", "linked", "stored"} =>
          lock[tgt[r]] = r /\ seen[r] = "OPEN"
    /\ op[r] = "register" /\ Active(r) => source[r] \in Content
    /\ op[r] = "register" /\ pc[r] \in {"begun", "locked", "copying"} =>
          file[r] = NoContent
    /\ op[r] = "register"
       /\ pc[r] \in {"begun", "locked", "stored", "cleanup", "answering"} => ~partial[r]
    /\ pc[r] \in {"linked", "stored"} => file[r] = source[r]

\* What a committed record says, and what it says of the file.
RowInv(r) ==
    /\ row[r] # NoContent =>
          /\ op[r] = "register" /\ pc[r] \in {"answering", "cleanup", "done"}
          /\ tgt[r] \in Case /\ status[tgt[r]] # "ABSENT"
          /\ ~partial[r]
          /\ pc[r] = "cleanup" => "post_commit" \in mishap[r]
          /\ "tamper" \notin mishap[r] =>
                \/ file[r] = row[r]
                \/ file[r] = NoContent /\ "post_commit" \in mishap[r]
    /\ op[r] = "register" /\ pc[r] = "answering" => row[r] # NoContent

\* A verification is about evidence of its case, compares with the digest on
\* record, and finds another one only after a change from outside.
VerifyInv(r) ==
    /\ op[r] = "verify" /\ Active(r) =>
          /\ subject[r] \in Request
          /\ op[subject[r]] = "register" /\ tgt[subject[r]] = tgt[r]
    /\ pc[r] \in {"located", "hashed", "recorded"} =>
          row[subject[r]] # NoContent /\ want[r] = row[subject[r]]
    /\ pc[r] \in {"hashed", "recorded"} /\ got[r] # want[r] =>
          "tamper" \in mishap[subject[r]]
    /\ checked[r] # NoCheck => op[r] = "verify" /\ subject[r] \in Request

\* The invariant that carries the safety properties below: what every phase
\* of register and verify may rely on, whatever the others do.
CustodyInv ==
    /\ TransactionInv
    /\ \A r \in Request : PhaseInv(r) /\ CopyInv(r) /\ RowInv(r) /\ VerifyInv(r)

\* A committed evidence record points to the complete copy its acquisition
\* hash was computed from, never to a partial or missing one, whatever
\* crashes or fails; the exceptions are files changed from outside and a
\* commit whose acknowledgement was lost.
RecordHasCompleteFile ==
    \A e \in Request :
        row[e] # NoContent /\ mishap[e] \intersect {"post_commit", "tamper"} = {}
            => file[e] = row[e] /\ ~partial[e]

\* When a registration is over and left no record, it left no file either,
\* unless the process died in between or the file system refused the removal.
NoOrphanFile ==
    \A e \in Request :
        /\ op[e] = "register" /\ pc[e] = "done"
        /\ row[e] = NoContent
        /\ mishap[e] \intersect {"crash", "unlink"} = {}
        => file[e] = NoContent /\ ~partial[e]

\* Rows and audit trail of evidence agree, entry for entry: a registration
\* or a verification is in the trail of its case exactly when its rows are,
\* and a verification is recorded after the registration it is about.
CustodyMatchesTrail ==
    \A r \in Request :
        /\ row[r] # NoContent <=> op[r] = "register" /\ Record!HasWritten(r)
        /\ checked[r] # NoCheck <=> op[r] = "verify" /\ Record!HasWritten(r)
        /\ \A c \in Case : \A i \in DOMAIN trail[c] :
              trail[c][i] = [action |-> "EVIDENCE_VERIFIED", by |-> r] =>
                 \E j \in 1..(i - 1) :
                    trail[c][j] = [action |-> "EVIDENCE_REGISTERED", by |-> subject[r]]

\* No false alarm: a verification reports a mismatch only of a file that was
\* changed from outside.
MismatchMeansTampering ==
    \A r \in Request :
        checked[r] # NoCheck /\ ~checked[r].match => "tamper" \in mishap[subject[r]]

\* The answer to a registration or a verification tells what was recorded.
CustodyAnswers ==
    \A r \in Request : pc[r] = "done" /\ op[r] \in {"register", "verify"} =>
        \/ out[r] = "ok" /\ Record!HasWritten(r)
        \/ out[r] \in {"conflict", "not_found", "bad_request"} /\ ~Record!HasWritten(r)
        \/ out[r] = "error" /\ ("post_commit" \in mishap[r] <=> Record!HasWritten(r))
        \/ out[r] = "lost" /\ "crash" \in mishap[r]

\* No trail holds an EVIDENCE_REGISTERED entry after its CASE_CLOSED entry,
\* however register and close interleave (README.md: "It is allowed only for
\* open cases"; evidence_service.py, register, and case_service.py, close).
NothingRegisteredAfterClose == Record!NothingRegisteredAfterClose

\* README.md, "Evidence API": registration "removes only that new file if the
\* database transaction fails".  So the file of a committed record is never
\* removed by the application itself.
CommittedFileIsKept ==
    \A e \in Request :
        row[e] # NoContent /\ "tamper" \notin mishap[e] => file[e] # NoContent

=============================================================================
