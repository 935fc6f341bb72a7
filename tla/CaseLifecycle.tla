---------------------------- MODULE CaseLifecycle ----------------------------
(***************************************************************************)
(* backend/app/services/case_service.py: creation, metadata update, close  *)
(* and archive of cases, by requests that run concurrently, each in its    *)
(* own transaction.  pc of a request goes                                  *)
(*   idle -> begun -> (locked ->) committed -> done                        *)
(* and to done from anywhere on a rejection or a failure.                  *)
(***************************************************************************)
EXTENDS CaseDatabase

vars == <<clock, status, updatedAt, trail, lock, share,
          pc, op, tgt, began, seen, out, mishap>>

TransitionOp == {"close", "archive"}
CaseOp == {"create", "update"} \union TransitionOp

Expected(o)  == IF o = "close" THEN "OPEN" ELSE "CLOSED"
Target(o)    == IF o = "close" THEN "CLOSED" ELSE "ARCHIVED"
AuditName(o) == CASE o = "create"  -> "CASE_CREATED"
                  [] o = "update"  -> "CASE_UPDATED"
                  [] o = "close"   -> "CASE_CLOSED"
                  [] o = "archive" -> "CASE_ARCHIVED"

\* Seeded fault: the clock alone.
ClockAsUpdatedAt(current) == IF current >= 0 THEN clock ELSE 0

\* Strictly later than the current value even when the clock is not.
NextUpdatedAt(current) == IF clock > current THEN clock ELSE current + 1

-----------------------------------------------------------------------------
\* A request comes in.  uuid4 gives a creation an identity nobody else has;
\* the other operations name any case, existing or not.

BeginCreate(r) ==
    \E c \in Case :
        /\ status[c] = "ABSENT"
        /\ \A q \in Request : op[q] = "create" => tgt[q] # c
        /\ Begin(r, "create", c)

BeginOnCase(r) == \E o \in CaseOp \ {"create"}, c \in Case : Begin(r, o, c)

-----------------------------------------------------------------------------
\* create: the row and CASE_CREATED become visible together.
CommitCreate(r) ==
    /\ pc[r] = "begun" /\ op[r] = "create"
    /\ status' = [status EXCEPT ![tgt[r]] = "OPEN"]
    /\ updatedAt' = [updatedAt EXCEPT ![tgt[r]] = began[r]]
    /\ Audit(r, tgt[r], "CASE_CREATED")
    /\ Goto(r, "committed")
    /\ UNCHANGED <<clock, rowLocks, asked, seen, out, mishap>>

NotFound(r) ==
    /\ pc[r] = "begun" /\ op[r] \in CaseOp \ {"create"}
    /\ status[tgt[r]] = "ABSENT"
    /\ Rollback(r, "not_found")

LockCase(r) ==
    /\ pc[r] = "begun" /\ op[r] \in CaseOp \ {"create"}
    /\ Lock(r, tgt[r])
    /\ Goto(r, "locked")
    /\ UNCHANGED <<clock, caseRows, share, asked, out, mishap>>

\* Seeded fault: the update forgets its audit event.
CommitUpdateUnaudited(r) ==
    /\ pc[r] = "locked" /\ op[r] = "update"
    /\ updatedAt' = [updatedAt EXCEPT ![tgt[r]] = NextUpdatedAt(@)]
    /\ Release(r)
    /\ Goto(r, "committed")
    /\ UNCHANGED <<clock, status, trail, asked, seen, out, mishap>>

\* update: any status, no check.
CommitUpdate(r) ==
    /\ pc[r] = "locked" /\ op[r] = "update"
    /\ updatedAt' = [updatedAt EXCEPT ![tgt[r]] = NextUpdatedAt(@)]
    /\ Audit(r, tgt[r], "CASE_UPDATED")
    /\ Release(r)
    /\ Goto(r, "committed")
    /\ UNCHANGED <<clock, status, asked, seen, out, mishap>>

RejectTransition(r) ==
    /\ pc[r] = "locked" /\ op[r] \in TransitionOp
    /\ seen[r] # Expected(op[r])
    /\ Rollback(r, "conflict")

\* Seeded fault: the expected status is not checked.
CommitTransitionUnchecked(r) ==
    /\ pc[r] = "locked" /\ op[r] \in TransitionOp
    /\ status' = [status EXCEPT ![tgt[r]] = Target(op[r])]
    /\ updatedAt' = [updatedAt EXCEPT ![tgt[r]] = NextUpdatedAt(@)]
    /\ Audit(r, tgt[r], AuditName(op[r]))
    /\ Release(r)
    /\ Goto(r, "committed")
    /\ UNCHANGED <<clock, asked, seen, out, mishap>>

CommitTransition(r) ==
    /\ pc[r] = "locked" /\ op[r] \in TransitionOp
    /\ seen[r] = Expected(op[r])
    /\ status' = [status EXCEPT ![tgt[r]] = Target(op[r])]
    /\ updatedAt' = [updatedAt EXCEPT ![tgt[r]] = NextUpdatedAt(@)]
    /\ Audit(r, tgt[r], AuditName(op[r]))
    /\ Release(r)
    /\ Goto(r, "committed")
    /\ UNCHANGED <<clock, asked, seen, out, mishap>>

\* session.refresh after the commit: a new transaction reads the row again
\* and the answer carries what it finds then.
Refresh(r) ==
    /\ pc[r] = "committed"
    /\ seen' = [seen EXCEPT ![r] = status[tgt[r]]]
    /\ Answer(r, "ok")
    /\ UNCHANGED <<clock, caseRows, rowLocks, asked, mishap>>

\* The commit took effect but its acknowledgement, or the refresh, failed:
\* the same except clause answers that the operation failed.
PostCommitFailure(r) ==
    /\ "db" \in Faults
    /\ pc[r] = "committed"
    /\ Answer(r, "error")
    /\ mishap' = [mishap EXCEPT ![r] = @ \union {"post_commit"}]
    /\ UNCHANGED <<clock, caseRows, rowLocks, asked, seen>>

\* A statement fails, or the commit is refused: rollback.
DbFailure(r) ==
    /\ "db" \in Faults
    /\ pc[r] \in {"begun", "locked"} /\ op[r] \in CaseOp
    /\ Rollback(r, "error")

-----------------------------------------------------------------------------

\* What the handler does when nothing fails it, and how it fails.
CaseWork(r) ==
    \/ CommitCreate(r)
    \/ NotFound(r)
    \/ LockCase(r)
    \/ CommitUpdate(r)
    \/ RejectTransition(r)
    \/ CommitTransition(r)
    \/ Refresh(r)

CaseFault(r) == PostCommitFailure(r) \/ DbFailure(r)

CaseStep(r) == CaseWork(r) \/ CaseFault(r)

CaseNext ==
    \/ \E r \in Request : BeginCreate(r) \/ BeginOnCase(r) \/ CaseStep(r)
    \/ ClockMoves
    \/ Crash

\* The requests of a behaviour are finitely many; after the last answer the
\* server waits for a client.
Quiet == AllAnswered /\ UNCHANGED vars

Next == CaseNext \/ Quiet

Spec == DatabaseInit /\ [][Next]_vars

-----------------------------------------------------------------------------

CasePc == {"idle", "begun", "locked", "committed", "done"}

\* Every variable stays in its type; the trail holds known audit actions only.
TypeOK ==
    /\ DatabaseTypeOK
    /\ pc \in [Request -> CasePc]
    /\ op \in [Request -> CaseOp \union {"none"}]

\* The status column and the committed audit trail of a case tell the same
\* story, although case_service.py decides and writes in separate steps.
TrailExplainsStatus == Record!TrailExplainsStatus

\* A request that decides on a status holds the row lock that protects it; a
\* creation has an identity of its own; and nothing of a request is on record
\* before its transaction has ended.  With LocksProtectDecisions this is what
\* makes each commit one atomic step of the abstract record.
TransactionInv ==
    /\ LocksProtectDecisions
    /\ \A r \in Request :
          /\ pc[r] = "idle" => op[r] = "none"
          /\ pc[r] = "locked" => tgt[r] \in Case /\ lock[tgt[r]] = r
          /\ Active(r) => tgt[r] \in Case
          /\ pc[r] = "begun" /\ op[r] = "create" => status[tgt[r]] = "ABSENT"
          /\ Record!HasWritten(r) => Ended(r)
    /\ \A q, r \in Request :
          op[q] = "create" /\ op[r] = "create" /\ tgt[q] = tgt[r] => q = r

WrittenBy(r, a) ==
    \E i \in DOMAIN trail[tgt[r]] : trail[tgt[r]][i] = [action |-> a, by |-> r]

\* What the client is told is what was recorded: "ok" means the request's own
\* audit entry is in the trail, a rejection or a failure before the commit
\* means it is not, a rejected close lost against another request's close,
\* and the status in an "ok" answer is never older than the change made.
AnswersMatchTrail ==
    \A r \in Request : pc[r] = "done" /\ op[r] \in CaseOp =>
        /\ out[r] = "ok" => WrittenBy(r, AuditName(op[r]))
        /\ (\/ out[r] \in {"conflict", "not_found"}
            \/ out[r] = "error" /\ "post_commit" \notin mishap[r])
              => ~Record!HasWritten(r)
        /\ out[r] = "conflict" /\ op[r] = "close" =>
              \E i \in DOMAIN trail[tgt[r]] :
                 trail[tgt[r]][i].action = "CASE_CLOSED" /\ trail[tgt[r]][i].by # r
        /\ out[r] = "ok" /\ op[r] \in TransitionOp =>
              seen[r] \in {Target(op[r]), "ARCHIVED"}

\* Every committed change of an existing case moves updated_at strictly
\* forward, whatever the clock does between two requests
\* (case_service.py, _next_updated_at).
UpdatedAtAdvances ==
    [][\A c \in Case :
         status[c] # "ABSENT" /\ (trail'[c] # trail[c] \/ status'[c] # status[c])
            => updatedAt'[c] > updatedAt[c]]_vars

\* Every request the server accepted is answered: no schedule of row locks
\* leaves requests waiting for one another.
EveryRequestAnswered ==
    \A r \in Request : pc[r] = "begun" ~> pc[r] = "done"

\* Status and audit trail of the cases only ever change by the atomic steps of
\* CaseRecord: case_service.py implements what CaseRecord promises.
ImplementsRecord == Record!Spec

=============================================================================
