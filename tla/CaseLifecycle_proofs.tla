------------------------ MODULE CaseLifecycle_proofs ------------------------
(***************************************************************************)
(* For any number of cases and requests, any clock bound and any faults:   *)
(* the row-lock protocol of case_service.py is an invariant, its commits   *)
(* are steps of the abstract record of a case, and so status and audit     *)
(* trail of every case agree in every reachable state.                     *)
(***************************************************************************)
EXTENDS CaseLifecycle, TLAPS

\* The inductive invariant.  It leaves the sets of phases and operations open:
\* the services that share the database add their own.
BaseInv ==
    /\ DatabaseTypeOK
    /\ DOMAIN pc = Request
    /\ DOMAIN op = Request
    /\ TransactionInv

-----------------------------------------------------------------------------
\* What the steps of a transaction do to the audit trail and the locks.

\* An audit entry of request r is appended: r and nobody else becomes an author
\* (Audit, the AuditEvent row of a committing transaction).
LEMMA AuditWrites ==
    ASSUME trail \in [Case -> Seq(Record!Entry)],
           NEW r \in Request, NEW c \in Case, NEW a \in Record!AuditAction,
           Audit(r, c, a)
    PROVE  /\ trail' \in [Case -> Seq(Record!Entry)]
           /\ \A q : Record!HasWritten(q)' <=> Record!HasWritten(q) \/ q = r
<1>. DEFINE e == [action |-> a, by |-> r]
<1>1. e \in Record!Entry /\ e.by = r
  BY DEF Record!Entry
<1>2. trail' = [trail EXCEPT ![c] = Append(@, e)]
  BY DEF Audit
<1>. HIDE DEF e
<1>3. trail' \in [Case -> Seq(Record!Entry)]
  BY <1>1, <1>2
<1>4. /\ trail'[c] = Append(trail[c], e)
      /\ \A d \in Case : d # c => trail'[d] = trail[d]
  BY <1>2
<1>5. /\ DOMAIN trail'[c] = (DOMAIN trail[c]) \union {Len(trail[c]) + 1}
      /\ trail'[c][Len(trail[c]) + 1] = e
      /\ \A i \in DOMAIN trail[c] : trail'[c][i] = trail[c][i]
  BY <1>1, <1>4
<1>6. ASSUME NEW q
      PROVE  Record!HasWritten(q)' <=> Record!HasWritten(q) \/ q = r
  <2>1. Record!HasWritten(q) => Record!HasWritten(q)'
    BY <1>4, <1>5 DEF Record!HasWritten
  <2>2. q = r => Record!HasWritten(q)'
    BY <1>1, <1>5 DEF Record!HasWritten
  <2>3. Record!HasWritten(q)' => Record!HasWritten(q) \/ q = r
    BY <1>1, <1>4, <1>5 DEF Record!HasWritten
  <2>. QED
    BY <2>1, <2>2, <2>3
<1>. QED
  BY <1>3, <1>6

\* A step that writes no audit row changes nobody's authorship.
LEMMA SameTrailSameAuthors ==
    ASSUME trail' = trail
    PROVE  \A q : Record!HasWritten(q)' <=> Record!HasWritten(q)
  BY DEF Record!HasWritten

-----------------------------------------------------------------------------

\* The database a behaviour starts from satisfies the invariant.
LEMMA InitBase == DatabaseInit => BaseInv
<1>. SUFFICES ASSUME DatabaseInit PROVE BaseInv
  OBVIOUS
<1>1. trail \in [Case -> Seq(Record!Entry)]
  <2>. DEFINE e == [action |-> "CASE_CREATED", by |-> NoRequest]
  <2>1. e \in Record!Entry
    BY DEF Record!Entry, Record!AuditAction
  <2>2. trail = [c \in Case |-> IF status[c] = "ABSENT" THEN <<>> ELSE <<e>>]
    BY DEF DatabaseInit, Record!Init
  <2>. HIDE DEF e
  <2>. QED
    BY <2>1, <2>2
<1>2. \A r \in Request : ~Record!HasWritten(r)
  <2>1. \A c \in Case : trail[c] = <<>>
                        \/ trail[c] = << [action |-> "CASE_CREATED", by |-> NoRequest] >>
    BY DEF DatabaseInit, Record!Init
  <2>. QED
    BY <2>1, NoRequestAssumption DEF Record!HasWritten
<1>3. DatabaseTypeOK
  <2>1. RowsTypeOK
    BY <1>1, MaxClockAssumption DEF DatabaseInit, RowsTypeOK, Record!Init, Record!Status
  <2>2. LocksTypeOK
    BY DEF DatabaseInit, LocksTypeOK
  <2>3. SessionsTypeOK
    BY MaxClockAssumption DEF DatabaseInit, SessionsTypeOK, Record!Status, Answers
  <2>. QED
    BY <2>1, <2>2, <2>3 DEF DatabaseTypeOK
<1>4. TransactionInv
  BY <1>2 DEF DatabaseInit, TransactionInv, LocksProtectDecisions, Active
<1>. QED
  BY <1>3, <1>4 DEF BaseInv, DatabaseInit

\* Opening a session for a new request (get_db) keeps the invariant.
LEMMA BeginBase ==
    ASSUME BaseInv, NEW r \in Request, NEW o, NEW c \in Case, Begin(r, o, c),
           o = "create" => /\ status[c] = "ABSENT"
                           /\ \A q \in Request : op[q] = "create" => tgt[q] # c
    PROVE  BaseInv'
<1>1. \A q : Record!HasWritten(q)' <=> Record!HasWritten(q)
  BY SameTrailSameAuthors DEF Begin, caseRows
<1>2. DatabaseTypeOK' /\ DOMAIN pc' = Request /\ DOMAIN op' = Request
  <2>1. RowsTypeOK'
    BY DEF Begin, BaseInv, DatabaseTypeOK, RowsTypeOK, caseRows
  <2>2. LocksTypeOK'
    BY DEF Begin, BaseInv, DatabaseTypeOK, LocksTypeOK, rowLocks
  <2>3. SessionsTypeOK'
    BY DEF Begin, BaseInv, DatabaseTypeOK, RowsTypeOK, SessionsTypeOK
  <2>4. DOMAIN pc' = Request /\ DOMAIN op' = Request
    BY DEF Begin, Goto, BaseInv
  <2>. QED
    BY <2>1, <2>2, <2>3, <2>4 DEF DatabaseTypeOK
<1>3. TransactionInv'
  BY <1>1 DEF Begin, Goto, BaseInv, DatabaseTypeOK, RowsTypeOK, LocksTypeOK, SessionsTypeOK, caseRows, rowLocks, TransactionInv,
              LocksProtectDecisions, InTransaction, Active, Ended
<1>. QED
  BY <1>2, <1>3 DEF BaseInv

\* The end of the transaction of r, with or without a commit: what the others
\* rely on is left alone.
LEMMA EndKeepsOthers ==
    ASSUME BaseInv, NEW r \in Request,
           pc'[r] \in {"committed", "answering", "cleanup", "done"},
           \A q \in Request : q # r => pc'[q] = pc[q],
           op' = op, tgt' = tgt,
           pc[r] # "idle",
           tgt[r] \in Case \/ pc'[r] = "done",
           \A c \in Case : lock[c] # r => lock'[c] = lock[c],
           \A c \in Case : status[c] = "ABSENT" => status'[c] = "ABSENT",
           \A q : Record!HasWritten(q)' => Record!HasWritten(q) \/ q = r,
           LocksProtectDecisions'
    PROVE  TransactionInv'
<1>1. ASSUME NEW q \in Request
      PROVE  /\ pc'[q] = "idle" => op'[q] = "none"
             /\ pc'[q] = "locked" => tgt'[q] \in Case /\ lock'[tgt'[q]] = q
             /\ Active(q)' => tgt'[q] \in Case
             /\ pc'[q] = "begun" /\ op'[q] = "create" => status'[tgt'[q]] = "ABSENT"
             /\ Record!HasWritten(q)' => Ended(q)'
  <2>1. CASE q = r
    <3>1. Ended(q)' /\ pc'[q] \notin {"idle", "locked", "begun"}
      BY <2>1 DEF Ended
    <3>2. Active(q)' => tgt'[q] \in Case
      BY <2>1 DEF Active
    <3>. QED
      BY <3>1, <3>2
  <2>2. CASE q # r
    <3>1. pc'[q] = pc[q] /\ op'[q] = op[q] /\ tgt'[q] = tgt[q]
      BY <2>2
    <3>2. /\ pc[q] = "idle" => op[q] = "none"
          /\ pc[q] = "locked" => tgt[q] \in Case /\ lock[tgt[q]] = q
          /\ Active(q) => tgt[q] \in Case
          /\ pc[q] = "begun" /\ op[q] = "create" => status[tgt[q]] = "ABSENT"
          /\ Record!HasWritten(q) => Ended(q)
      BY DEF BaseInv, TransactionInv
    <3>3. Record!HasWritten(q)' => Ended(q)'
      BY <2>2, <3>1, <3>2 DEF Ended
    <3>4. pc[q] = "locked" => lock'[tgt[q]] = q
      BY <2>2, <3>2
    <3>5. pc[q] = "begun" /\ op[q] = "create" => status'[tgt[q]] = "ABSENT"
      BY <3>2 DEF Active
    <3>. QED
      BY <3>1, <3>2, <3>3, <3>4, <3>5 DEF Active
  <2>. QED
    BY <2>1, <2>2
<1>2. \A p, q \in Request :
         op'[p] = "create" /\ op'[q] = "create" /\ tgt'[p] = tgt'[q] => p = q
  BY DEF BaseInv, TransactionInv
<1>. QED
  BY <1>1, <1>2 DEF TransactionInv

\* The end of a transaction without a commit keeps it, whatever comes next.
LEMMA ReleaseBase ==
    ASSUME BaseInv, NEW r \in Request, pc[r] # "idle", Release(r),
           NEW p \in {"cleanup", "done"}, Goto(r, p), Active(r) \/ p = "done",
           out' \in [Request -> Answers],
           mishap' \in [Request -> SUBSET Mishaps],
           UNCHANGED <<clock, caseRows, asked, seen>>
    PROVE  BaseInv'
<1>1. \A q : Record!HasWritten(q)' <=> Record!HasWritten(q)
  BY SameTrailSameAuthors DEF caseRows
<1>2. DatabaseTypeOK' /\ DOMAIN pc' = Request /\ DOMAIN op' = Request
  <2>1. RowsTypeOK'
    BY DEF BaseInv, DatabaseTypeOK, RowsTypeOK, caseRows
  <2>2. LocksTypeOK'
    BY DEF Release, BaseInv, DatabaseTypeOK, LocksTypeOK
  <2>3. SessionsTypeOK'
    BY DEF asked, BaseInv, DatabaseTypeOK, SessionsTypeOK
  <2>4. DOMAIN pc' = Request /\ DOMAIN op' = Request
    BY DEF Goto, asked, BaseInv
  <2>. QED
    BY <2>1, <2>2, <2>3, <2>4 DEF DatabaseTypeOK
<1>3. /\ pc'[r] \in {"cleanup", "done"}
      /\ \A q \in Request : q # r => pc'[q] = pc[q]
      /\ op' = op /\ tgt' = tgt /\ status' = status /\ seen' = seen
      /\ lock' = [c \in Case |-> IF lock[c] = r THEN NoRequest ELSE lock[c]]
      /\ share' = [c \in Case |-> share[c] \ {r}]
  BY DEF Release, Goto, BaseInv, caseRows, asked
<1>4. LocksProtectDecisions'
  BY <1>3, NoRequestAssumption
     DEF BaseInv, DatabaseTypeOK, LocksTypeOK, TransactionInv, LocksProtectDecisions,
         InTransaction, Ended
<1>5. tgt[r] \in Case \/ pc'[r] = "done"
  BY DEF Goto, BaseInv, TransactionInv
<1>6. TransactionInv'
  BY <1>1, <1>3, <1>4, <1>5, EndKeepsOthers
<1>. QED
  BY <1>2, <1>6 DEF BaseInv

\* In particular a rollback with any answer.
LEMMA RollbackBase ==
    ASSUME BaseInv, NEW r \in Request, NEW a \in Answers, pc[r] # "idle", Rollback(r, a)
    PROVE  BaseInv'
<1>1. /\ out' \in [Request -> Answers]
      /\ mishap' \in [Request -> SUBSET Mishaps]
  BY DEF Rollback, Answer, BaseInv, DatabaseTypeOK, SessionsTypeOK
<1>2. Goto(r, "done") /\ Release(r) /\ UNCHANGED <<clock, caseRows, asked, seen>>
  BY DEF Rollback, Answer
<1>. QED
  BY <1>1, <1>2, ReleaseBase

\* A transaction that goes on without touching rows or locks.
LEMMA WorkBase ==
    ASSUME BaseInv, NEW r \in Request, Active(r), ~Ended(r), NEW p, Goto(r, p),
           p \notin {"idle", "begun", "locked", "committed", "answering", "cleanup", "done"},
           UNCHANGED <<clock, caseRows, rowLocks, asked, seen, out, mishap>>
    PROVE  BaseInv'
<1>1. \A q : Record!HasWritten(q)' <=> Record!HasWritten(q)
  BY SameTrailSameAuthors DEF caseRows
<1>2. DatabaseTypeOK' /\ DOMAIN pc' = Request /\ DOMAIN op' = Request
  BY DEF Goto, BaseInv, DatabaseTypeOK, RowsTypeOK, LocksTypeOK, SessionsTypeOK,
         caseRows, rowLocks, asked
<1>3. TransactionInv'
  BY <1>1
     DEF Goto, BaseInv, DatabaseTypeOK, RowsTypeOK, LocksTypeOK, SessionsTypeOK,
         caseRows, rowLocks, asked, TransactionInv, LocksProtectDecisions,
         InTransaction, Active, Ended
<1>. QED
  BY <1>2, <1>3 DEF BaseInv

\* A flush that takes KEY SHARE on the case row.
LEMMA ShareBase ==
    ASSUME BaseInv, NEW r \in Request, InTransaction(r), tgt[r] \in Case,
           Share(r, tgt[r]), NEW p, Goto(r, p),
           p \notin {"idle", "begun", "locked", "committed", "answering", "cleanup", "done"},
           UNCHANGED <<clock, caseRows, lock, asked, seen, out, mishap>>
    PROVE  BaseInv'
<1>1. \A q : Record!HasWritten(q)' <=> Record!HasWritten(q)
  BY SameTrailSameAuthors DEF caseRows
<1>2. DatabaseTypeOK' /\ DOMAIN pc' = Request /\ DOMAIN op' = Request
  BY DEF Goto, Share, BaseInv, DatabaseTypeOK, RowsTypeOK, LocksTypeOK, SessionsTypeOK,
         caseRows, asked
<1>3. TransactionInv'
  BY <1>1
     DEF Goto, Share, BaseInv, DatabaseTypeOK, RowsTypeOK, LocksTypeOK, SessionsTypeOK,
         caseRows, asked, TransactionInv, LocksProtectDecisions,
         InTransaction, Active, Ended
<1>. QED
  BY <1>2, <1>3 DEF BaseInv

\* So does taking the row lock, which reads the status it protects.
LEMMA LockBase ==
    ASSUME BaseInv, NEW r \in Request, tgt[r] \in Case, pc[r] = "begun", op[r] # "create",
           Lock(r, tgt[r]), Goto(r, "locked"),
           UNCHANGED <<clock, caseRows, share, asked, out, mishap>>
    PROVE  BaseInv'
<1>1. \A q : Record!HasWritten(q)' <=> Record!HasWritten(q)
  BY SameTrailSameAuthors DEF caseRows
<1>2. DatabaseTypeOK' /\ DOMAIN pc' = Request /\ DOMAIN op' = Request
  <2>1. RowsTypeOK'
    BY DEF BaseInv, DatabaseTypeOK, RowsTypeOK, caseRows
  <2>2. LocksTypeOK'
    BY DEF Lock, BaseInv, DatabaseTypeOK, LocksTypeOK
  <2>3. SessionsTypeOK'
    BY DEF Lock, asked, BaseInv, DatabaseTypeOK, RowsTypeOK, SessionsTypeOK
  <2>4. DOMAIN pc' = Request /\ DOMAIN op' = Request
    BY DEF Goto, asked, BaseInv
  <2>. QED
    BY <2>1, <2>2, <2>3, <2>4 DEF DatabaseTypeOK
<1>3. TransactionInv'
  BY <1>1, NoRequestAssumption
     DEF Lock, CanLock, Goto, BaseInv, DatabaseTypeOK, RowsTypeOK, LocksTypeOK, SessionsTypeOK, caseRows, asked,
         TransactionInv, LocksProtectDecisions, InTransaction, Active, Ended
<1>. QED
  BY <1>2, <1>3 DEF BaseInv

\* A transaction that held the row lock commits one audit entry, with or
\* without a change of status.
LEMMA CommitBase ==
    ASSUME BaseInv, NEW r \in Request, tgt[r] \in Case, InTransaction(r),
           NEW a \in Record!AuditAction, Audit(r, tgt[r], a), Release(r),
           NEW p \in {"committed", "answering", "cleanup", "done"}, Goto(r, p),
           status' \in [Case -> Record!Status], updatedAt' \in [Case -> Nat],
           out' \in [Request -> Answers],
           mishap' \in [Request -> SUBSET Mishaps],
           UNCHANGED <<clock, asked, seen>>,
           \A c \in Case : status'[c] # status[c] =>
              c = tgt[r] /\ lock[c] = r /\ status'[c] # "ABSENT" /\ status[c] # "ABSENT"
    PROVE  BaseInv'
<1>1. /\ trail' \in [Case -> Seq(Record!Entry)]
      /\ \A q : Record!HasWritten(q)' <=> Record!HasWritten(q) \/ q = r
  BY AuditWrites DEF BaseInv, DatabaseTypeOK, RowsTypeOK
<1>2. DatabaseTypeOK' /\ DOMAIN pc' = Request /\ DOMAIN op' = Request
  <2>1. RowsTypeOK'
    BY <1>1 DEF BaseInv, DatabaseTypeOK, RowsTypeOK
  <2>2. LocksTypeOK'
    BY DEF Release, BaseInv, DatabaseTypeOK, LocksTypeOK
  <2>3. SessionsTypeOK'
    BY DEF asked, BaseInv, DatabaseTypeOK, SessionsTypeOK
  <2>4. DOMAIN pc' = Request /\ DOMAIN op' = Request
    BY DEF Goto, asked, BaseInv
  <2>. QED
    BY <2>1, <2>2, <2>3, <2>4 DEF DatabaseTypeOK
<1>3. LocksProtectDecisions'
  BY <1>2, NoRequestAssumption
     DEF Release, Goto, BaseInv, DatabaseTypeOK, RowsTypeOK, LocksTypeOK, SessionsTypeOK, asked,
         TransactionInv, LocksProtectDecisions, InTransaction, Active, Ended
<1>4. /\ pc'[r] = p
      /\ \A q \in Request : q # r => pc'[q] = pc[q]
      /\ op' = op /\ tgt' = tgt
      /\ \A c \in Case : lock[c] # r => lock'[c] = lock[c]
  BY DEF Release, Goto, BaseInv, asked
<1>5. /\ \A c \in Case : status[c] = "ABSENT" => status'[c] = "ABSENT"
      /\ pc[r] # "idle"
  BY DEF InTransaction
<1>6. TransactionInv'
  BY <1>1, <1>3, <1>4, <1>5, EndKeepsOthers
<1>. QED
  BY <1>2, <1>6 DEF BaseInv

\* The commit of a creation needs no lock: nobody knows its identity yet.
LEMMA CommitCreateBase ==
    ASSUME BaseInv, NEW r \in Request, CommitCreate(r)
    PROVE  BaseInv'
<1>1. tgt[r] \in Case /\ status[tgt[r]] = "ABSENT"
  BY DEF CommitCreate, BaseInv, TransactionInv, Active
<1>2. /\ trail' \in [Case -> Seq(Record!Entry)]
      /\ \A q : Record!HasWritten(q)' <=> Record!HasWritten(q) \/ q = r
  BY <1>1, AuditWrites
     DEF CommitCreate, BaseInv, DatabaseTypeOK, RowsTypeOK, Record!AuditAction
<1>3. DatabaseTypeOK' /\ DOMAIN pc' = Request /\ DOMAIN op' = Request
  <2>1. began[r] \in Nat
    BY MaxClockAssumption DEF BaseInv, DatabaseTypeOK, SessionsTypeOK
  <2>2. RowsTypeOK'
    BY <1>1, <1>2, <2>1
       DEF CommitCreate, BaseInv, DatabaseTypeOK, RowsTypeOK, Record!Status
  <2>3. LocksTypeOK'
    BY DEF CommitCreate, BaseInv, DatabaseTypeOK, LocksTypeOK, rowLocks
  <2>4. SessionsTypeOK'
    BY DEF CommitCreate, asked, BaseInv, DatabaseTypeOK, SessionsTypeOK
  <2>5. DOMAIN pc' = Request /\ DOMAIN op' = Request
    BY DEF CommitCreate, Goto, asked, BaseInv
  <2>. QED
    BY <2>2, <2>3, <2>4, <2>5 DEF DatabaseTypeOK
<1>4. TransactionInv'
  BY <1>1, <1>2
     DEF CommitCreate, Goto, BaseInv, DatabaseTypeOK, RowsTypeOK, LocksTypeOK, SessionsTypeOK, rowLocks, asked, CaseOp,
         TransactionInv, LocksProtectDecisions, InTransaction, Active, Ended
<1>. QED
  BY <1>3, <1>4 DEF BaseInv

\* Steps after the commit touch neither rows nor locks.
LEMMA AfterCommitBase ==
    ASSUME BaseInv, NEW r \in Request, pc[r] \in {"committed", "answering", "cleanup"},
           Goto(r, "done"),
           seen' \in [Request -> Record!Status],
           \A q \in Request : q # r => seen'[q] = seen[q],
           out' \in [Request -> Answers],
           mishap' \in [Request -> SUBSET Mishaps],
           UNCHANGED <<clock, caseRows, rowLocks, asked>>
    PROVE  BaseInv'
<1>1. \A q : Record!HasWritten(q)' <=> Record!HasWritten(q)
  BY SameTrailSameAuthors DEF caseRows
<1>2. DatabaseTypeOK' /\ DOMAIN pc' = Request /\ DOMAIN op' = Request
  <2>1. RowsTypeOK'
    BY DEF BaseInv, DatabaseTypeOK, RowsTypeOK, caseRows
  <2>2. LocksTypeOK'
    BY DEF BaseInv, DatabaseTypeOK, LocksTypeOK, rowLocks
  <2>3. SessionsTypeOK'
    BY DEF asked, BaseInv, DatabaseTypeOK, SessionsTypeOK
  <2>4. DOMAIN pc' = Request /\ DOMAIN op' = Request
    BY DEF Goto, asked, BaseInv
  <2>. QED
    BY <2>1, <2>2, <2>3, <2>4 DEF DatabaseTypeOK
<1>3. TransactionInv'
  BY <1>1
     DEF Goto, BaseInv, DatabaseTypeOK, RowsTypeOK, LocksTypeOK, SessionsTypeOK, caseRows, rowLocks, asked,
         TransactionInv, LocksProtectDecisions, InTransaction, Active, Ended
<1>. QED
  BY <1>2, <1>3 DEF BaseInv

\* The clock and a death of the process keep it.
LEMMA EnvironmentBase ==
    ASSUME BaseInv, ClockMoves \/ Crash
    PROVE  BaseInv'
<1>1. \A q : Record!HasWritten(q)' <=> Record!HasWritten(q)
  BY SameTrailSameAuthors DEF ClockMoves, Crash, caseRows
<1>2. DatabaseTypeOK' /\ DOMAIN pc' = Request /\ DOMAIN op' = Request
  <2>1. RowsTypeOK'
    BY DEF ClockMoves, Crash, BaseInv, DatabaseTypeOK, RowsTypeOK, caseRows
  <2>2. LocksTypeOK'
    BY DEF ClockMoves, Crash, BaseInv, DatabaseTypeOK, LocksTypeOK, rowLocks
  <2>3. SessionsTypeOK'
    <3>1. CASE ClockMoves
      BY <3>1 DEF ClockMoves, asked, BaseInv, DatabaseTypeOK, SessionsTypeOK
    <3>2. CASE Crash
      <4>1. "lost" \in Answers /\ "crash" \in Mishaps
        BY DEF Answers, Mishaps
      <4>2. out' \in [Request -> Answers] /\ mishap' \in [Request -> SUBSET Mishaps]
        BY <3>2, <4>1 DEF Crash, BaseInv, DatabaseTypeOK, SessionsTypeOK
      <4>. QED
        BY <3>2, <4>2 DEF Crash, asked, BaseInv, DatabaseTypeOK, SessionsTypeOK
    <3>. QED
      BY <3>1, <3>2
  <2>4. DOMAIN pc' = Request /\ DOMAIN op' = Request
    BY DEF ClockMoves, Crash, asked, BaseInv
  <2>. QED
    BY <2>1, <2>2, <2>3, <2>4 DEF DatabaseTypeOK
<1>3. TransactionInv'
  BY <1>1
     DEF ClockMoves, Crash, BaseInv, DatabaseTypeOK, RowsTypeOK, LocksTypeOK, SessionsTypeOK, caseRows, rowLocks, asked,
         TransactionInv, LocksProtectDecisions, InTransaction, Active, Ended
<1>. QED
  BY <1>2, <1>3 DEF BaseInv

-----------------------------------------------------------------------------
\* Every action of CaseLifecycle is an instance of one of the steps above.

\* The steps of case_service.py, one by one.
LEMMA CaseStepBase ==
    ASSUME BaseInv, NEW r \in Request, CaseStep(r)
    PROVE  BaseInv'
<1>1. CASE CommitCreate(r)
  BY <1>1, CommitCreateBase
<1>2. CASE NotFound(r)
  BY <1>2, RollbackBase DEF NotFound, Answers
<1>3. CASE LockCase(r)
  <2>1. tgt[r] \in Case
    BY <1>3 DEF LockCase, BaseInv, TransactionInv, Active
  <2>2. pc[r] = "begun" /\ op[r] # "create"
    BY <1>3 DEF LockCase
  <2>. QED
    BY <1>3, <2>1, <2>2, LockBase DEF LockCase
<1>4. CASE CommitUpdate(r)
  <2>1. tgt[r] \in Case /\ InTransaction(r)
    BY <1>4 DEF CommitUpdate, BaseInv, TransactionInv, InTransaction, Ended
  <2>2. updatedAt' \in [Case -> Nat]
    BY <1>4, <2>1, MaxClockAssumption
       DEF CommitUpdate, NextUpdatedAt, BaseInv, DatabaseTypeOK, RowsTypeOK
  <2>3. /\ status' = status /\ status' \in [Case -> Record!Status]
        /\ out' \in [Request -> Answers]
        /\ mishap' \in [Request -> SUBSET Mishaps]
    BY <1>4 DEF CommitUpdate, BaseInv, DatabaseTypeOK, RowsTypeOK, SessionsTypeOK
  <2>4. "CASE_UPDATED" \in Record!AuditAction
    BY DEF Record!AuditAction, Record!Annotation
  <2>. QED
    BY <1>4, <2>1, <2>2, <2>3, <2>4, CommitBase DEF CommitUpdate
<1>5. CASE RejectTransition(r)
  BY <1>5, RollbackBase DEF RejectTransition, Answers
<1>6. CASE CommitTransition(r)
  <2>1. tgt[r] \in Case /\ InTransaction(r) /\ lock[tgt[r]] = r
    BY <1>6 DEF CommitTransition, BaseInv, TransactionInv, InTransaction, Ended
  <2>2. updatedAt' \in [Case -> Nat]
    BY <1>6, <2>1, MaxClockAssumption
       DEF CommitTransition, NextUpdatedAt, BaseInv, DatabaseTypeOK, RowsTypeOK
  <2>3. /\ out' \in [Request -> Answers]
        /\ mishap' \in [Request -> SUBSET Mishaps]
    BY <1>6 DEF CommitTransition, BaseInv, DatabaseTypeOK, SessionsTypeOK
  <2>4. AuditName(op[r]) \in Record!AuditAction
    BY <1>6 DEF CommitTransition, TransitionOp, AuditName, Record!AuditAction
  <2>5. Target(op[r]) \in {"CLOSED", "ARCHIVED"}
    BY DEF Target
  <2>6. status[tgt[r]] # "ABSENT"
    BY <2>1, NoRequestAssumption DEF BaseInv, TransactionInv, LocksProtectDecisions
  <2>7. status' \in [Case -> Record!Status]
    BY <1>6, <2>1, <2>5
       DEF CommitTransition, BaseInv, DatabaseTypeOK, RowsTypeOK, Record!Status
  <2>8. \A c \in Case : status'[c] # status[c] =>
           c = tgt[r] /\ lock[c] = r /\ status'[c] # "ABSENT" /\ status[c] # "ABSENT"
    BY <1>6, <2>1, <2>5, <2>6 DEF CommitTransition, BaseInv, DatabaseTypeOK, RowsTypeOK
  <2>. QED
    BY <1>6, <2>1, <2>2, <2>3, <2>4, <2>7, <2>8, CommitBase DEF CommitTransition
<1>7. CASE Refresh(r)
  <2>1. status[tgt[r]] \in Record!Status
    BY <1>7 DEF Refresh, Active, BaseInv, TransactionInv, DatabaseTypeOK, RowsTypeOK
  <2>2. /\ seen' \in [Request -> Record!Status]
        /\ \A q \in Request : q # r => seen'[q] = seen[q]
        /\ out' \in [Request -> Answers]
        /\ mishap' \in [Request -> SUBSET Mishaps]
    BY <1>7, <2>1
       DEF Refresh, Answer, Answers, BaseInv, DatabaseTypeOK, SessionsTypeOK
  <2>. QED
    BY <1>7, <2>2, AfterCommitBase DEF Refresh, Answer
<1>8. CASE PostCommitFailure(r)
  <2>1. "error" \in Answers /\ "post_commit" \in Mishaps
    BY DEF Answers, Mishaps
  <2>2. /\ seen' \in [Request -> Record!Status]
        /\ \A q \in Request : q # r => seen'[q] = seen[q]
        /\ out' \in [Request -> Answers]
        /\ mishap' \in [Request -> SUBSET Mishaps]
    BY <1>8, <2>1
       DEF PostCommitFailure, Answer, BaseInv, DatabaseTypeOK, SessionsTypeOK
  <2>. QED
    BY <1>8, <2>2, AfterCommitBase DEF PostCommitFailure, Answer
<1>9. CASE DbFailure(r)
  BY <1>9, RollbackBase DEF DbFailure, Answers
<1>. QED
  BY <1>1, <1>2, <1>3, <1>4, <1>5, <1>6, <1>7, <1>8, <1>9 DEF CaseStep, CaseWork, CaseFault

\* The arrival of a case request.
LEMMA BeginCaseBase ==
    ASSUME BaseInv, NEW r \in Request, BeginCreate(r) \/ BeginOnCase(r)
    PROVE  BaseInv'
<1>1. CASE BeginCreate(r)
  <2>1. PICK c \in Case : /\ status[c] = "ABSENT"
                          /\ \A q \in Request : op[q] = "create" => tgt[q] # c
                          /\ Begin(r, "create", c)
    BY <1>1 DEF BeginCreate
  <2>. QED
    BY <2>1, BeginBase
<1>2. CASE BeginOnCase(r)
  <2>1. PICK o \in {"update", "close", "archive"}, c \in Case : Begin(r, o, c)
    BY <1>2 DEF BeginOnCase, CaseOp, TransitionOp
  <2>2. o # "create"
    BY <2>1
  <2>. QED
    BY <2>1, <2>2, BeginBase
<1>. QED
  BY <1>1, <1>2

\* A step that changes nothing.
LEMMA StutterBase ==
    ASSUME BaseInv, UNCHANGED vars
    PROVE  BaseInv'
<1>1. \A q : Record!HasWritten(q)' <=> Record!HasWritten(q)
  BY SameTrailSameAuthors DEF vars
<1>2. DatabaseTypeOK' /\ DOMAIN pc' = Request /\ DOMAIN op' = Request
  BY DEF vars, BaseInv, DatabaseTypeOK, RowsTypeOK, LocksTypeOK, SessionsTypeOK
<1>3. TransactionInv'
  BY <1>1 DEF vars, BaseInv, TransactionInv, LocksProtectDecisions, InTransaction,
              Active, Ended
<1>. QED
  BY <1>2, <1>3 DEF BaseInv

\* BaseInv is inductive.
LEMMA NextBase == BaseInv /\ [Next]_vars => BaseInv'
<1>. SUFFICES ASSUME BaseInv, [Next]_vars PROVE BaseInv'
  OBVIOUS
<1>1. CASE \E r \in Request : BeginCreate(r) \/ BeginOnCase(r) \/ CaseStep(r)
  BY <1>1, BeginCaseBase, CaseStepBase
<1>2. CASE ClockMoves \/ Crash
  BY <1>2, EnvironmentBase
<1>3. CASE UNCHANGED vars
  BY <1>3, StutterBase
<1>. QED
  BY <1>1, <1>2, <1>3 DEF Next, CaseNext, Quiet

\* The row-lock protocol holds for any number of requests and cases: whoever
\* decides on a status holds the lock of the row, and what it read under the
\* lock is still what is committed (case_service.py, _get_for_update).
THEOREM TransactionsProtected == Spec => []TransactionInv
<1>1. DatabaseInit => BaseInv
  BY InitBase
<1>2. BaseInv /\ [Next]_vars => BaseInv'
  BY NextBase
<1>3. BaseInv => TransactionInv
  BY DEF BaseInv
<1>. QED
  BY <1>1, <1>2, <1>3, PTL DEF Spec

-----------------------------------------------------------------------------
\* Types.  BaseInv leaves the sets of phases and operations open, for the
\* services that add their own; here they are those of case_service.py.

\* pc and op of the case services take these values only.
SessionShape ==
    /\ pc \in [Request -> CasePc]
    /\ op \in [Request -> CaseOp \union {"none"}]

\* The phases and operations of case_service.py are the listed ones.
LEMMA NextShape == SessionShape /\ [Next]_vars => SessionShape'
<1>. SUFFICES ASSUME SessionShape, [Next]_vars PROVE SessionShape'
  OBVIOUS
<1>1. ASSUME NEW r \in Request, NEW p \in CasePc, Goto(r, p)
      PROVE  pc' \in [Request -> CasePc]
  BY <1>1 DEF Goto, SessionShape
<1>2. {"begun", "locked", "committed", "done"} \subseteq CasePc
  BY DEF CasePc
<1>3. ASSUME NEW r \in Request, BeginCreate(r) \/ BeginOnCase(r)
      PROVE  SessionShape'
  <2>1. PICK o \in CaseOp, c \in Case : Begin(r, o, c)
    BY <1>3 DEF BeginCreate, BeginOnCase, CaseOp
  <2>2. op' \in [Request -> CaseOp \union {"none"}]
    BY <2>1 DEF Begin, SessionShape
  <2>. QED
    BY <1>1, <1>2, <2>1, <2>2 DEF Begin, SessionShape
<1>4. ASSUME NEW r \in Request, CaseStep(r)
      PROVE  SessionShape'
  <2>1. op' = op
    BY <1>4 DEF CaseStep, CaseWork, CaseFault, CommitCreate, NotFound, LockCase, CommitUpdate,
                RejectTransition, CommitTransition, Refresh, PostCommitFailure,
                DbFailure, Rollback, asked
  <2>2. \E p \in {"locked", "committed", "done"} : Goto(r, p)
    BY <1>4 DEF CaseStep, CaseWork, CaseFault, CommitCreate, NotFound, LockCase, CommitUpdate,
                RejectTransition, CommitTransition, Refresh, PostCommitFailure,
                DbFailure, Rollback, Answer
  <2>. QED
    BY <1>1, <1>2, <2>1, <2>2 DEF SessionShape
<1>5. CASE ClockMoves \/ Crash
  BY <1>2, <1>5 DEF ClockMoves, Crash, asked, SessionShape
<1>6. CASE UNCHANGED vars
  BY <1>6 DEF vars, SessionShape
<1>. QED
  BY <1>3, <1>4, <1>5, <1>6 DEF Next, CaseNext, Quiet

\* Every variable of the case services keeps its type.
THEOREM TypeCorrect == Spec => []TypeOK
<1>1. DatabaseInit => BaseInv /\ SessionShape
  <2>1. DatabaseInit => SessionShape
    BY DEF DatabaseInit, SessionShape, CasePc
  <2>. QED
    BY <2>1, InitBase
<1>2. BaseInv /\ SessionShape /\ [Next]_vars => (BaseInv /\ SessionShape)'
  BY NextBase, NextShape
<1>3. BaseInv /\ SessionShape => TypeOK
  BY DEF BaseInv, SessionShape, TypeOK
<1>. QED
  BY <1>1, <1>2, <1>3, PTL DEF Spec

-----------------------------------------------------------------------------
\* Refinement: commits are the steps of the abstract record.

\* An entry that leaves the status alone.
LEMMA AnnotationImplements ==
    ASSUME BaseInv, NEW r \in Request, tgt[r] \in Case, ~Ended(r),
           NEW a \in Record!Annotation, status[tgt[r]] # "ABSENT",
           a = "EVIDENCE_REGISTERED" => status[tgt[r]] = "OPEN",
           Audit(r, tgt[r], a), status' = status
    PROVE  Record!Next
<1>1. ~Record!HasWritten(r)
  BY DEF BaseInv, TransactionInv
<1>2. Record!Annotate(tgt[r], r, a)
  BY <1>1 DEF Record!Annotate, Record!Write, Audit
<1>. QED
  BY <1>2 DEF Record!Next

\* An entry that moves the status along the lifecycle.
LEMMA MoveImplements ==
    ASSUME BaseInv, NEW r \in Request, tgt[r] \in Case, ~Ended(r),
           NEW from, NEW to, NEW a, status[tgt[r]] = from,
           <<from, to, a>> \in {<<"ABSENT", "OPEN", "CASE_CREATED">>,
                                <<"OPEN", "CLOSED", "CASE_CLOSED">>,
                                <<"CLOSED", "ARCHIVED", "CASE_ARCHIVED">>},
           Audit(r, tgt[r], a), status' = [status EXCEPT ![tgt[r]] = to]
    PROVE  Record!Next
<1>1. ~Record!HasWritten(r)
  BY DEF BaseInv, TransactionInv
<1>2. Record!Move(tgt[r], r, from, to, a)
  BY <1>1 DEF Record!Move, Record!Write, Audit
<1>3. \/ from = "ABSENT" /\ to = "OPEN" /\ a = "CASE_CREATED"
      \/ from = "OPEN" /\ to = "CLOSED" /\ a = "CASE_CLOSED"
      \/ from = "CLOSED" /\ to = "ARCHIVED" /\ a = "CASE_ARCHIVED"
  OBVIOUS
<1>. QED
  BY <1>2, <1>3 DEF Record!Next

\* Each step of case_service.py is a step of the record or none.
LEMMA CaseStepImplements ==
    ASSUME BaseInv, NEW r \in Request, CaseStep(r)
    PROVE  Record!Next \/ UNCHANGED Record!recordVars
<1>1. CASE CommitCreate(r)
  <2>1. tgt[r] \in Case /\ status[tgt[r]] = "ABSENT" /\ ~Ended(r)
    BY <1>1 DEF CommitCreate, BaseInv, TransactionInv, Active, Ended
  <2>. QED
    BY <1>1, <2>1, MoveImplements DEF CommitCreate
<1>2. CASE CommitUpdate(r)
  <2>1. /\ tgt[r] \in Case /\ ~Ended(r)
        /\ status[tgt[r]] # "ABSENT"
    BY <1>2, NoRequestAssumption
       DEF CommitUpdate, BaseInv, TransactionInv, LocksProtectDecisions, Ended
  <2>. QED
    BY <1>2, <2>1, AnnotationImplements DEF CommitUpdate, Record!Annotation
<1>3. CASE CommitTransition(r)
  <2>1. /\ tgt[r] \in Case /\ ~Ended(r)
        /\ status[tgt[r]] = seen[r]
    BY <1>3, NoRequestAssumption
       DEF CommitTransition, BaseInv, TransactionInv, LocksProtectDecisions, Ended
  <2>2. <<seen[r], Target(op[r]), AuditName(op[r])>>
           \in {<<"OPEN", "CLOSED", "CASE_CLOSED">>,
                <<"CLOSED", "ARCHIVED", "CASE_ARCHIVED">>}
    BY <1>3 DEF CommitTransition, TransitionOp, Expected, Target, AuditName
  <2>. QED
    BY <1>3, <2>1, <2>2, MoveImplements DEF CommitTransition
<1>4. CASE \/ NotFound(r) \/ LockCase(r) \/ RejectTransition(r)
           \/ Refresh(r) \/ PostCommitFailure(r) \/ DbFailure(r)
  BY <1>4 DEF NotFound, LockCase, RejectTransition, Refresh, PostCommitFailure,
              DbFailure, Rollback, caseRows, Record!recordVars
<1>. QED
  BY <1>1, <1>2, <1>3, <1>4 DEF CaseStep, CaseWork, CaseFault

\* And so is every step of the component.
LEMMA CaseNextImplements ==
    ASSUME BaseInv, CaseNext
    PROVE  Record!Next \/ UNCHANGED Record!recordVars
<1>1. CASE \E r \in Request : BeginCreate(r) \/ BeginOnCase(r)
  BY <1>1 DEF BeginCreate, BeginOnCase, Begin, caseRows, Record!recordVars
<1>2. CASE ClockMoves \/ Crash
  BY <1>2 DEF ClockMoves, Crash, caseRows, Record!recordVars
<1>. QED
  BY <1>1, <1>2, CaseStepImplements DEF CaseNext

\* The case services implement the abstract record: whatever requests, locks,
\* failures and crashes do, status and audit trail of a case only change by
\* the atomic steps CaseRecord allows.
THEOREM LifecycleImplementsRecord == Spec => ImplementsRecord
<1>1. DatabaseInit => BaseInv /\ Record!Init
  BY InitBase DEF DatabaseInit
<1>2. BaseInv /\ [Next]_vars => BaseInv'
  BY NextBase
<1>3. BaseInv /\ [Next]_vars => [Record!Next]_(Record!recordVars)
  <2>1. UNCHANGED vars => UNCHANGED Record!recordVars
    BY DEF vars, Record!recordVars
  <2>. QED
    BY <2>1, CaseNextImplements DEF Next, Quiet
<1>. QED
  BY <1>1, <1>2, <1>3, PTL DEF Spec, ImplementsRecord, Record!Spec

\* What CaseRecord_proofs shows of every behaviour of the abstract record holds
\* of the rows the case services write.
RecordFacts == INSTANCE CaseRecord_proofs

\* The record invariant is kept by every step of the case services.
LEMMA NextRecord ==
    BaseInv /\ RecordFacts!RecordInv /\ [Next]_vars => RecordFacts!RecordInv'
<1>. SUFFICES ASSUME BaseInv, RecordFacts!RecordInv, [Next]_vars
              PROVE  RecordFacts!RecordInv'
  OBVIOUS
<1>1. Record!Next \/ UNCHANGED Record!recordVars
  BY CaseNextImplements DEF Next, Quiet, vars, Record!recordVars
<1>2. RecordFacts!Next \/ UNCHANGED RecordFacts!recordVars
  BY <1>1 DEF Record!Next, Record!recordVars, Record!Move, Record!Annotate,
              Record!Write, Record!HasWritten, Record!Annotation,
              RecordFacts!Next, RecordFacts!recordVars, RecordFacts!Move,
              RecordFacts!Annotate, RecordFacts!Write, RecordFacts!HasWritten,
              RecordFacts!Annotation
<1>. QED
  BY <1>2, RecordFacts!NextRecordInv

\* It holds at the start, and says what TrailExplainsStatus says.
LEMMA RecordStartsAndExplains ==
    /\ DatabaseInit => RecordFacts!RecordInv
    /\ RecordFacts!RecordInv => TrailExplainsStatus
<1>1. DatabaseInit => RecordFacts!Init
  BY DEF DatabaseInit, Record!Init, RecordFacts!Init
<1>2. RecordFacts!RecordInv => TrailExplainsStatus
  BY DEF RecordFacts!RecordInv, RecordFacts!TrailExplainsStatus, RecordFacts!Logged,
         TrailExplainsStatus, Record!TrailExplainsStatus, Record!Logged
<1>. QED
  BY <1>1, <1>2, RecordFacts!InitRecordInv

\* In every reachable state the status of a case and its audit trail tell the
\* same story (case_service.py commits both in one transaction).
THEOREM StatusExplained == Spec => []TrailExplainsStatus
<1>1. DatabaseInit => BaseInv /\ RecordFacts!RecordInv
  BY InitBase, RecordStartsAndExplains
<1>2. BaseInv /\ RecordFacts!RecordInv /\ [Next]_vars
        => (BaseInv /\ RecordFacts!RecordInv)'
  BY NextBase, NextRecord
<1>. QED
  BY <1>1, <1>2, RecordStartsAndExplains, PTL DEF Spec

-----------------------------------------------------------------------------
\* Answers.  What a request was told stays true: trails only grow and statuses
\* only move on.

\* What one request was told, and what it may still be told after its commit.
AnswerInv(r) ==
    op[r] \in CaseOp =>
        /\ tgt[r] \in Case
        /\ pc[r] = "committed" =>
              /\ WrittenBy(r, AuditName(op[r]))
              /\ op[r] \in TransitionOp => status[tgt[r]] \in {Target(op[r]), "ARCHIVED"}
        /\ pc[r] = "done" =>
              /\ out[r] = "ok" => WrittenBy(r, AuditName(op[r]))
              /\ (\/ out[r] \in {"conflict", "not_found"}
                  \/ out[r] = "error" /\ "post_commit" \notin mishap[r])
                    => ~Record!HasWritten(r)
              /\ out[r] = "conflict" /\ op[r] = "close" =>
                    \E i \in DOMAIN trail[tgt[r]] :
                       trail[tgt[r]][i].action = "CASE_CLOSED" /\ trail[tgt[r]][i].by # r
              /\ out[r] = "ok" /\ op[r] \in TransitionOp =>
                    seen[r] \in {Target(op[r]), "ARCHIVED"}

\* Entries of a case stay where they are, and its lifecycle does not go back.
LaterRecord ==
    \A c \in Case :
        /\ \A i \in DOMAIN trail[c] : i \in DOMAIN trail'[c] /\ trail'[c][i] = trail[c][i]
        /\ status[c] = "CLOSED" => status'[c] \in {"CLOSED", "ARCHIVED"}
        /\ status[c] = "ARCHIVED" => status'[c] = "ARCHIVED"

\* The steps of the abstract record only move forward.
LEMMA RecordMovesOn ==
    ASSUME BaseInv, Record!Next \/ UNCHANGED Record!recordVars
    PROVE  LaterRecord
<1>1. trail \in [Case -> Seq(Record!Entry)] /\ status \in [Case -> Record!Status]
  BY DEF BaseInv, DatabaseTypeOK, RowsTypeOK
<1>2. CASE Record!Next
  <2>1. PICK c \in Case, r \in Request :
           \/ Record!Move(c, r, "ABSENT", "OPEN", "CASE_CREATED")
           \/ Record!Move(c, r, "OPEN", "CLOSED", "CASE_CLOSED")
           \/ Record!Move(c, r, "CLOSED", "ARCHIVED", "CASE_ARCHIVED")
           \/ \E a \in Record!Annotation : Record!Annotate(c, r, a)
    BY <1>2 DEF Record!Next
  <2>2. PICK e \in Record!Entry : trail' = [trail EXCEPT ![c] = Append(@, e)]
    BY <2>1 DEF Record!Move, Record!Annotate, Record!Write, Record!Entry, Record!AuditAction
  <2>3. \A d \in Case : \A i \in DOMAIN trail[d] :
           i \in DOMAIN trail'[d] /\ trail'[d][i] = trail[d][i]
    BY <1>1, <2>2
  <2>4. \A d \in Case : /\ status[d] = "CLOSED" => status'[d] \in {"CLOSED", "ARCHIVED"}
                        /\ status[d] = "ARCHIVED" => status'[d] = "ARCHIVED"
    BY <1>1, <2>1 DEF Record!Move, Record!Annotate
  <2>. QED
    BY <2>3, <2>4 DEF LaterRecord
<1>3. CASE UNCHANGED Record!recordVars
  BY <1>3 DEF Record!recordVars, LaterRecord
<1>. QED
  BY <1>2, <1>3

\* So an answer stays true while others go on.
LEMMA AnswerStays ==
    ASSUME BaseInv, LaterRecord, NEW q \in Request, AnswerInv(q),
           Record!HasWritten(q)' => Record!HasWritten(q),
           pc'[q] = pc[q], op'[q] = op[q], tgt'[q] = tgt[q], out'[q] = out[q],
           seen'[q] = seen[q], mishap'[q] = mishap[q]
    PROVE  AnswerInv(q)'
<1>. SUFFICES ASSUME op[q] \in CaseOp, tgt[q] \in Case
              PROVE  AnswerInv(q)'
  BY DEF AnswerInv
<1>1. \A a : WrittenBy(q, a) => WrittenBy(q, a)'
  BY DEF LaterRecord, WrittenBy
<1>2. ASSUME op[q] \in TransitionOp, status[tgt[q]] \in {Target(op[q]), "ARCHIVED"}
      PROVE  status'[tgt[q]] \in {Target(op[q]), "ARCHIVED"}
  BY <1>2 DEF LaterRecord, Target
<1>3. ASSUME NEW i \in DOMAIN trail[tgt[q]]
      PROVE  i \in DOMAIN trail'[tgt[q]] /\ trail'[tgt[q]][i] = trail[tgt[q]][i]
  BY DEF LaterRecord
<1>. QED
  BY <1>1, <1>2, <1>3 DEF AnswerInv

\* Whose authorship and session a step of a case request changes.
LEMMA CaseStepIsOwn ==
    ASSUME BaseInv, NEW r \in Request, CaseStep(r), NEW q \in Request, q # r
    PROVE  /\ pc'[q] = pc[q] /\ op'[q] = op[q] /\ tgt'[q] = tgt[q] /\ out'[q] = out[q]
           /\ seen'[q] = seen[q] /\ mishap'[q] = mishap[q]
           /\ Record!HasWritten(q)' => Record!HasWritten(q)
<1>. USE DEF CaseStep, CaseWork, CaseFault, CommitCreate, NotFound, LockCase, CommitUpdate,
             RejectTransition, CommitTransition, Refresh, PostCommitFailure, DbFailure,
             Rollback, asked, Goto, Answer, Lock
<1>1. op' = op /\ tgt' = tgt
  OBVIOUS
<1>2. pc'[q] = pc[q] /\ out'[q] = out[q]
  BY DEF BaseInv, DatabaseTypeOK, SessionsTypeOK
<1>3. seen'[q] = seen[q] /\ mishap'[q] = mishap[q]
  BY DEF BaseInv, DatabaseTypeOK, SessionsTypeOK
<1>4. Record!HasWritten(q)' => Record!HasWritten(q)
  <2>1. \/ trail' = trail
        \/ pc[r] \notin {"idle", "done"} /\ \E a \in Record!AuditAction : Audit(r, tgt[r], a)
    <3>1. op[r] \in TransitionOp => AuditName(op[r]) \in Record!AuditAction
      BY DEF TransitionOp, AuditName, Record!AuditAction
    <3>2. {"CASE_CREATED", "CASE_UPDATED"} \subseteq Record!AuditAction
      BY DEF Record!AuditAction, Record!Annotation
    <3>. QED
      BY <3>1, <3>2 DEF caseRows
  <2>2. pc[r] \notin {"idle", "done"} => tgt[r] \in Case
    BY DEF BaseInv, TransactionInv, Active
  <2>. QED
    BY <2>1, <2>2, AuditWrites, SameTrailSameAuthors DEF BaseInv, DatabaseTypeOK, RowsTypeOK
<1>. QED
  BY <1>1, <1>2, <1>3, <1>4

\* A rollback without a commit before it: the request has written nothing.
LEMMA RollbackAnswer ==
    ASSUME BaseInv, NEW r \in Request, pc[r] \in {"begun", "locked"},
           NEW a \in {"not_found", "conflict", "error"}, Rollback(r, a),
           op[r] \in CaseOp => tgt[r] \in Case,
           a = "conflict" /\ op[r] = "close" =>
              \E i \in DOMAIN trail[tgt[r]] :
                 trail[tgt[r]][i].action = "CASE_CLOSED" /\ trail[tgt[r]][i].by # r
    PROVE  AnswerInv(r)'
<1>1. ~Record!HasWritten(r)
  BY DEF BaseInv, TransactionInv, Ended
<1>2. ~Record!HasWritten(r)'
  BY <1>1, SameTrailSameAuthors DEF Rollback, caseRows
<1>3. out'[r] = a /\ pc'[r] = "done" /\ op' = op /\ tgt' = tgt /\ trail' = trail
  BY DEF Rollback, Answer, Goto, asked, caseRows, BaseInv, DatabaseTypeOK, SessionsTypeOK
<1>. QED
  BY <1>2, <1>3 DEF AnswerInv

\* Under the row lock a close finds the case closed only if somebody closed it.
LEMMA RejectedClose ==
    ASSUME BaseInv, TrailExplainsStatus, NEW r \in Request, RejectTransition(r), op[r] = "close"
    PROVE  \E i \in DOMAIN trail[tgt[r]] :
              trail[tgt[r]][i].action = "CASE_CLOSED" /\ trail[tgt[r]][i].by # r
<1>1. /\ tgt[r] \in Case /\ lock[tgt[r]] = r /\ ~Record!HasWritten(r)
      /\ seen[r] # "OPEN"
  BY DEF RejectTransition, Expected, BaseInv, TransactionInv, Ended
<1>2. status[tgt[r]] \in {"CLOSED", "ARCHIVED"}
  <2>1. status[tgt[r]] # "ABSENT" /\ status[tgt[r]] = seen[r]
    BY <1>1, NoRequestAssumption DEF BaseInv, TransactionInv, LocksProtectDecisions
  <2>2. status[tgt[r]] \in {"ABSENT", "OPEN", "CLOSED", "ARCHIVED"}
    BY <1>1 DEF BaseInv, DatabaseTypeOK, RowsTypeOK, Record!Status
  <2>. QED
    BY <1>1, <2>1, <2>2
<1>3. PICK i \in DOMAIN trail[tgt[r]] : trail[tgt[r]][i].action = "CASE_CLOSED"
  BY <1>1, <1>2 DEF TrailExplainsStatus, Record!TrailExplainsStatus, Record!Logged
<1>4. trail[tgt[r]][i].by # r
  BY <1>1 DEF Record!HasWritten
<1>. QED
  BY <1>3, <1>4

\* A commit puts the entry of the request at the end of the trail.
LEMMA CommitAnswer ==
    ASSUME BaseInv, NEW r \in Request,
           CommitCreate(r) \/ CommitUpdate(r) \/ CommitTransition(r)
    PROVE  AnswerInv(r)'
<1>1. tgt[r] \in Case
  BY DEF CommitCreate, CommitUpdate, CommitTransition, BaseInv, TransactionInv, Active
<1>2. /\ op' = op /\ tgt' = tgt /\ pc'[r] = "committed"
      /\ Audit(r, tgt[r], AuditName(op[r]))
  BY DEF CommitCreate, CommitUpdate, CommitTransition, Goto, asked, AuditName, BaseInv
<1>3. WrittenBy(r, AuditName(op[r]))'
  <2>. DEFINE e == [action |-> AuditName(op[r]), by |-> r]
              n == Len(trail[tgt[r]]) + 1
  <2>1. trail'[tgt[r]] = Append(trail[tgt[r]], e)
    BY <1>1, <1>2 DEF Audit, BaseInv, DatabaseTypeOK, RowsTypeOK
  <2>2. trail[tgt[r]] \in Seq(Record!Entry)
    BY <1>1 DEF BaseInv, DatabaseTypeOK, RowsTypeOK
  <2>. HIDE DEF e
  <2>3. n \in DOMAIN trail'[tgt[r]] /\ trail'[tgt[r]][n] = e
    BY <2>1, <2>2
  <2>. QED
    BY <1>2, <2>3 DEF WrittenBy, e
<1>4. op[r] \in TransitionOp => status'[tgt[r]] = Target(op[r])
  BY <1>1 DEF CommitCreate, CommitUpdate, CommitTransition, TransitionOp, BaseInv,
              DatabaseTypeOK, RowsTypeOK
<1>. QED
  BY <1>1, <1>2, <1>3, <1>4 DEF AnswerInv

\* After the commit: the answer tells what the refresh read, or that it failed.
LEMMA AfterCommitAnswer ==
    ASSUME BaseInv, NEW r \in Request, AnswerInv(r), Refresh(r) \/ PostCommitFailure(r)
    PROVE  AnswerInv(r)'
<1>1. /\ pc[r] = "committed" /\ pc'[r] = "done" /\ op' = op /\ tgt' = tgt /\ trail' = trail
  BY DEF Refresh, PostCommitFailure, Answer, Goto, asked, caseRows, BaseInv
<1>2. CASE Refresh(r)
  <2>1. out'[r] = "ok" /\ seen'[r] = status[tgt[r]]
    BY <1>2 DEF Refresh, Answer, BaseInv, DatabaseTypeOK, SessionsTypeOK
  <2>. QED
    BY <1>1, <2>1 DEF AnswerInv, WrittenBy
<1>3. CASE PostCommitFailure(r)
  <2>1. out'[r] = "error" /\ "post_commit" \in mishap'[r]
    BY <1>3 DEF PostCommitFailure, Answer, BaseInv, DatabaseTypeOK, SessionsTypeOK
  <2>. QED
    BY <1>1, <2>1 DEF AnswerInv
<1>. QED
  BY <1>2, <1>3

\* Each step of a case request keeps what it and the others were told.
LEMMA CaseStepAnswers ==
    ASSUME BaseInv, TrailExplainsStatus, \A q \in Request : AnswerInv(q),
           NEW r \in Request, CaseStep(r)
    PROVE  \A q \in Request : AnswerInv(q)'
<1>1. ASSUME NEW q \in Request, q # r
      PROVE  AnswerInv(q)'
  BY <1>1, CaseStepImplements, RecordMovesOn, CaseStepIsOwn, AnswerStays
<1>2. op[r] \in CaseOp => tgt[r] \in Case
  BY DEF AnswerInv
<1>3. CASE NotFound(r) \/ RejectTransition(r) \/ DbFailure(r)
  <2>1. RejectTransition(r) /\ op[r] = "close" =>
           \E i \in DOMAIN trail[tgt[r]] :
              trail[tgt[r]][i].action = "CASE_CLOSED" /\ trail[tgt[r]][i].by # r
    BY RejectedClose
  <2>2. pc[r] \in {"begun", "locked"}
    BY <1>3 DEF NotFound, RejectTransition, DbFailure
  <2>3. CASE NotFound(r)
    BY <1>1, <1>2, <2>2, <2>3, RollbackAnswer DEF NotFound
  <2>4. CASE RejectTransition(r)
    BY <1>1, <1>2, <2>1, <2>2, <2>4, RollbackAnswer DEF RejectTransition
  <2>5. CASE DbFailure(r)
    BY <1>1, <1>2, <2>2, <2>5, RollbackAnswer DEF DbFailure
  <2>. QED
    BY <1>3, <2>3, <2>4, <2>5
<1>4. CASE LockCase(r)
  <2>1. pc'[r] = "locked" /\ op' = op /\ tgt' = tgt
    BY <1>4 DEF LockCase, Goto, asked, BaseInv
  <2>. QED
    BY <1>1, <1>2, <2>1 DEF AnswerInv
<1>5. CASE CommitCreate(r) \/ CommitUpdate(r) \/ CommitTransition(r)
  BY <1>1, <1>5, CommitAnswer
<1>6. CASE Refresh(r) \/ PostCommitFailure(r)
  BY <1>1, <1>6, AfterCommitAnswer
<1>. QED
  BY <1>1, <1>3, <1>4, <1>5, <1>6 DEF CaseStep, CaseWork, CaseFault

\* So do arrivals, the clock, crashes and steps that change nothing.
LEMMA OtherStepAnswers ==
    ASSUME BaseInv, \A q \in Request : AnswerInv(q),
           \/ \E r \in Request : BeginCreate(r) \/ BeginOnCase(r)
           \/ ClockMoves \/ Crash \/ UNCHANGED vars
    PROVE  \A q \in Request : AnswerInv(q)'
<1>1. UNCHANGED <<status, trail>>
  BY DEF BeginCreate, BeginOnCase, Begin, ClockMoves, Crash, vars, caseRows
<1>2. LaterRecord /\ \A q : Record!HasWritten(q)' <=> Record!HasWritten(q)
  BY <1>1, SameTrailSameAuthors DEF LaterRecord
<1>3. ASSUME NEW r \in Request, BeginCreate(r) \/ BeginOnCase(r), NEW q \in Request
      PROVE  AnswerInv(q)'
  <2>1. PICK o \in CaseOp, c \in Case : Begin(r, o, c)
    BY <1>3 DEF BeginCreate, BeginOnCase, CaseOp
  <2>2. CASE q = r
    BY <2>1, <2>2 DEF Begin, Goto, AnswerInv, BaseInv, DatabaseTypeOK, SessionsTypeOK
  <2>3. CASE q # r
    <3>1. /\ pc'[q] = pc[q] /\ op'[q] = op[q] /\ tgt'[q] = tgt[q] /\ out'[q] = out[q]
          /\ seen'[q] = seen[q] /\ mishap'[q] = mishap[q]
      BY <2>1, <2>3 DEF Begin, Goto, BaseInv, DatabaseTypeOK, SessionsTypeOK
    <3>. QED
      BY <1>2, <3>1, AnswerStays
  <2>. QED
    BY <2>2, <2>3
<1>4. ASSUME Crash, NEW q \in Request
      PROVE  AnswerInv(q)'
  <2>1. op' = op /\ tgt' = tgt /\ seen' = seen
    BY <1>4 DEF Crash, asked
  <2>2. CASE Active(q)
    BY <1>4, <2>1, <2>2 DEF Crash, AnswerInv
  <2>3. CASE ~Active(q)
    BY <1>2, <1>4, <2>1, <2>3, AnswerStays DEF Crash
  <2>. QED
    BY <2>2, <2>3
<1>5. ASSUME ClockMoves \/ UNCHANGED vars, NEW q \in Request
      PROVE  AnswerInv(q)'
  BY <1>2, <1>5, AnswerStays DEF ClockMoves, vars, asked
<1>. QED
  BY <1>3, <1>4, <1>5

\* Clients of the case services are told what was recorded, in every reachable
\* state and however the requests of others went on after the answer.
THEOREM AnswersTellTheTrail == Spec => []AnswersMatchTrail
<1>. DEFINE Answered == /\ BaseInv /\ RecordFacts!RecordInv
                        /\ \A r \in Request : AnswerInv(r)
<1>1. DatabaseInit => Answered
  <2>1. DatabaseInit => \A r \in Request : AnswerInv(r)
    BY DEF DatabaseInit, AnswerInv, CaseOp, TransitionOp
  <2>. QED
    BY <2>1, InitBase, RecordStartsAndExplains
<1>2. Answered /\ [Next]_vars => Answered'
  <2>. SUFFICES ASSUME Answered, [Next]_vars PROVE \A r \in Request : AnswerInv(r)'
    BY NextBase, NextRecord
  <2>1. CASE \E r \in Request : CaseStep(r)
    BY <2>1, RecordStartsAndExplains, CaseStepAnswers
  <2>2. CASE ~ \E r \in Request : CaseStep(r)
    BY <2>2, OtherStepAnswers DEF Next, CaseNext, Quiet
  <2>. QED
    BY <2>1, <2>2
<1>3. Answered => AnswersMatchTrail
  BY DEF AnswerInv, AnswersMatchTrail
<1>. QED
  BY <1>1, <1>2, <1>3, PTL DEF Spec

-----------------------------------------------------------------------------

\* Under any clock, even one set back between requests, a committed change of
\* an existing case moves updated_at forward (_next_updated_at).
THEOREM UpdatedAtForward == Spec => UpdatedAtAdvances
<1>. DEFINE Forward ==
       \A c \in Case :
          status[c] # "ABSENT" /\ (trail'[c] # trail[c] \/ status'[c] # status[c])
             => updatedAt'[c] > updatedAt[c]
<1>1. BaseInv /\ [Next]_vars => [Forward]_vars
  <2>. SUFFICES ASSUME BaseInv, CaseNext, NEW c \in Case, status[c] # "ABSENT",
                       trail'[c] # trail[c] \/ status'[c] # status[c]
                PROVE  updatedAt'[c] > updatedAt[c]
    BY DEF Next, Quiet
  <2>1. ~(UNCHANGED caseRows)
    BY DEF caseRows
  <2>2. PICK r \in Request : CaseStep(r)
    BY <2>1 DEF CaseNext, BeginCreate, BeginOnCase, Begin, ClockMoves, Crash
  <2>3. CommitCreate(r) \/ CommitUpdate(r) \/ CommitTransition(r)
    BY <2>1, <2>2 DEF CaseStep, CaseWork, CaseFault, NotFound, LockCase, RejectTransition, Refresh,
                      PostCommitFailure, DbFailure, Rollback
  <2>4. CASE CommitCreate(r)
    <3>1. status[tgt[r]] = "ABSENT" /\ tgt[r] \in Case
      BY <2>4 DEF CommitCreate, BaseInv, TransactionInv, Active
    <3>. QED
      BY <2>4, <3>1 DEF CommitCreate, Audit, BaseInv, DatabaseTypeOK, RowsTypeOK
  <2>5. CASE CommitUpdate(r) \/ CommitTransition(r)
    <3>1. /\ c = tgt[r]
          /\ updatedAt'[c] = NextUpdatedAt(updatedAt[c])
      BY <2>5 DEF CommitUpdate, CommitTransition, Audit, BaseInv, DatabaseTypeOK,
                  RowsTypeOK
    <3>2. updatedAt[c] \in Nat /\ clock \in Nat
      BY MaxClockAssumption DEF BaseInv, DatabaseTypeOK, RowsTypeOK
    <3>. QED
      BY <3>1, <3>2 DEF NextUpdatedAt
  <2>. QED
    BY <2>3, <2>4, <2>5
<1>2. DatabaseInit => BaseInv
  BY InitBase
<1>3. BaseInv /\ [Next]_vars => BaseInv'
  BY NextBase
<1>. QED
  BY <1>1, <1>2, <1>3, PTL DEF Spec, UpdatedAtAdvances

=============================================================================
