---------------------------- MODULE CaseDatabase ----------------------------
(***************************************************************************)
(* The state every service of the backend shares: case rows and audit rows *)
(* in PostgreSQL, the row locks on a case, the transaction each request    *)
(* runs in its own session, the clock, and the faults a request meets.     *)
(*                                                                         *)
(* One request is one call of a route in the thread pool; pc[r] is the     *)
(* point its service method has reached.  Uncommitted writes are visible   *)
(* to nobody, so a transaction's effect on rows is one step, its commit.   *)
(*   SELECT ... FOR UPDATE on the case row takes lock[c];                  *)
(*   an INSERT of a row with a foreign key to the case, flushed by a       *)
(*   transaction that does not hold lock[c], takes FOR KEY SHARE, kept in  *)
(*   share[c] until that transaction ends; the two exclude each other.     *)
(***************************************************************************)
EXTENDS Integers, Sequences

CONSTANTS
    Case,       \* identities a case row can have
    Request,    \* the requests of a behaviour
    NoCase,     \* target of a request that has not begun
    NoRequest,  \* nobody
    MaxClock,   \* bound: the clock stays in 0..MaxClock
    Faults      \* the faults that may happen

ASSUME NoRequestAssumption == NoRequest \notin Request
ASSUME NoCaseAssumption == NoCase \notin Case
ASSUME MaxClockAssumption == MaxClock \in Nat

VARIABLES
    clock,      \* wall clock, which an administrator or NTP may set back
    status,     \* committed case rows: the status column, "ABSENT" if no row
    updatedAt,  \* committed case rows: the updated_at column
    trail,      \* committed audit rows of each case, in commit order
    lock,       \* [Case -> request holding the row FOR UPDATE]
    share,      \* [Case -> requests holding the row FOR KEY SHARE]
    pc,         \* how far the handler of a request has got
    op,         \* the operation a request asks for
    tgt,        \* the case it is about
    began,      \* when its transaction began: PostgreSQL's now() in it
    seen,       \* the status it last read
    out,        \* the answer given to the client
    mishap      \* history: the faults that hit the request (properties only)

caseRows == <<status, updatedAt, trail>>
rowLocks == <<lock, share>>
asked    == <<op, tgt, began>>

Record == INSTANCE CaseRecord

Answers == {"none", "ok", "conflict", "not_found", "bad_request", "error", "lost"}

Mishaps == {"crash", "post_commit", "unlink", "tamper"}

RowsTypeOK ==
    /\ clock \in 0..MaxClock
    /\ status \in [Case -> Record!Status]
    /\ updatedAt \in [Case -> Nat]
    /\ trail \in [Case -> Seq(Record!Entry)]

LocksTypeOK ==
    /\ lock \in [Case -> Request \union {NoRequest}]
    /\ share \in [Case -> SUBSET Request]

SessionsTypeOK ==
    /\ began \in [Request -> 0..MaxClock]
    /\ tgt \in [Request -> Case \union {NoCase}]
    /\ seen \in [Request -> Record!Status]
    /\ out \in [Request -> Answers]
    /\ mishap \in [Request -> SUBSET Mishaps]

DatabaseTypeOK == RowsTypeOK /\ LocksTypeOK /\ SessionsTypeOK

DatabaseInit ==
    /\ clock = 0
    /\ Record!Init
    /\ updatedAt = [c \in Case |-> 0]
    /\ lock = [c \in Case |-> NoRequest]
    /\ share = [c \in Case |-> {}]
    /\ pc = [r \in Request |-> "idle"]
    /\ op = [r \in Request |-> "none"]
    /\ tgt = [r \in Request |-> NoCase]
    /\ began = [r \in Request |-> 0]
    /\ seen = [r \in Request |-> "ABSENT"]
    /\ out = [r \in Request |-> "none"]
    /\ mishap = [r \in Request |-> {}]

-----------------------------------------------------------------------------
\* Sessions and transactions

Active(r) == pc[r] \notin {"idle", "done"}

Goto(r, p) == pc' = [pc EXCEPT ![r] = p]

Answer(r, a) ==
    /\ Goto(r, "done")
    /\ out' = [out EXCEPT ![r] = a]

\* get_db opens a session; its first statement begins the transaction.
Begin(r, o, c) ==
    /\ pc[r] = "idle"
    /\ Goto(r, "begun")
    /\ op' = [op EXCEPT ![r] = o]
    /\ tgt' = [tgt EXCEPT ![r] = c]
    /\ began' = [began EXCEPT ![r] = clock]
    /\ UNCHANGED <<clock, caseRows, rowLocks, seen, out, mishap>>

\* Seeded fault: a plain SELECT, without FOR UPDATE.
CanReadUnlocked(c) == c \in Case

\* Nobody holds the case row in a mode that excludes FOR UPDATE.
CanLock(c) == lock[c] = NoRequest /\ share[c] = {}

\* SELECT ... FOR UPDATE: waits for the row, then reads its latest version
\* (READ COMMITTED re-reads a row another transaction has just released).
Lock(r, c) ==
    /\ status[c] # "ABSENT"
    /\ CanLock(c)
    /\ lock' = [lock EXCEPT ![c] = r]
    /\ seen' = [seen EXCEPT ![r] = status[c]]

\* Seeded fault: a reference to the case that does not take KEY SHARE in turn.
ShareWithoutWaiting(r, c) == share' = [share EXCEPT ![c] = @ \union {r}]

\* Flushing an insert that references the case waits for a FOR UPDATE holder.
Share(r, c) ==
    /\ lock[c] = NoRequest
    /\ share' = [share EXCEPT ![c] = @ \union {r}]

\* Seeded fault: the session is returned with its transaction still open.
ReleaseNothing(r) == r \in Request /\ UNCHANGED rowLocks

\* COMMIT and ROLLBACK drop every lock of the transaction.
Release(r) ==
    /\ lock' = [c \in Case |-> IF lock[c] = r THEN NoRequest ELSE lock[c]]
    /\ share' = [c \in Case |-> share[c] \ {r}]

\* Seeded fault: the operation is recorded in place of the audit action.
AuditOperation(r, c, a) ==
    trail' = [trail EXCEPT ![c] = Append(@, [action |-> op[r], by |-> r])]

\* An AuditEvent row of the committing transaction.  Its timestamp column is
\* began[r], whenever the commit happens.
Audit(r, c, a) ==
    trail' = [trail EXCEPT ![c] = Append(@, [action |-> a, by |-> r])]

Rollback(r, a) ==
    /\ Release(r)
    /\ Answer(r, a)
    /\ UNCHANGED <<clock, caseRows, asked, seen, mishap>>

-----------------------------------------------------------------------------
\* The environment

ClockMoves ==
    /\ \E t \in 0..MaxClock \ {clock} : clock' = t
    /\ UNCHANGED <<caseRows, rowLocks, pc, asked, seen, out, mishap>>

\* The backend process dies: requests in progress get no answer, PostgreSQL
\* rolls their transactions back.  Nothing is recovered at restart, which is
\* therefore no step of its own.
Crash ==
    /\ "crash" \in Faults
    /\ \E r \in Request : Active(r)
    /\ pc' = [r \in Request |-> IF Active(r) THEN "done" ELSE pc[r]]
    /\ out' = [r \in Request |-> IF Active(r) THEN "lost" ELSE out[r]]
    /\ mishap' = [r \in Request |->
                    IF Active(r) THEN mishap[r] \union {"crash"} ELSE mishap[r]]
    /\ lock' = [c \in Case |-> NoRequest]
    /\ share' = [c \in Case |-> {}]
    /\ UNCHANGED <<clock, caseRows, asked, seen>>

AllAnswered == \A r \in Request : pc[r] = "done"

-----------------------------------------------------------------------------
\* The phases after the transaction of a request has ended: a refresh or the
\* answer is left, or the removal of files after a failed registration.
Ended(r) == pc[r] \in {"committed", "answering", "cleanup", "done"}

InTransaction(r) == pc[r] \notin {"idle", "begun"} /\ ~Ended(r)

\* What the row locks give every service.  FOR UPDATE excludes every other
\* holder of the case row; its holder is in a transaction about that case, and
\* the status it read under the lock is still the committed one, so that a
\* decision taken on it is valid at the commit.
LocksProtectDecisions ==
    \A c \in Case :
        /\ \A r \in share[c] : InTransaction(r) /\ tgt[r] = c
        /\ lock[c] # NoRequest =>
              /\ share[c] = {}
              /\ InTransaction(lock[c])
              /\ tgt[lock[c]] = c
              /\ status[c] # "ABSENT"
              /\ seen[lock[c]] = status[c]

=============================================================================
