-------------------------- MODULE CaseRecord_proofs --------------------------
(***************************************************************************)
(* The abstract record of a case keeps its promises for any number of      *)
(* cases and requests: its invariants are inductive together.              *)
(***************************************************************************)
EXTENDS CaseRecord, TLAPS

\* The promises together; none of the middle two is inductive without the first.
RecordInv ==
    /\ RecordTypeOK
    /\ TrailExplainsStatus
    /\ NothingRegisteredAfterClose
    /\ OneEntryPerRequest

\* What appending one audit row does to a trail.
LEMMA AppendEntry ==
    ASSUME NEW t \in Seq(Entry), NEW e \in Entry
    PROVE  /\ Append(t, e) \in Seq(Entry)
           /\ Append(t, e) # <<>>
           /\ DOMAIN Append(t, e) = (DOMAIN t) \union {Len(t) + 1}
           /\ DOMAIN t = 1..Len(t)
           /\ Len(t) \in Nat
           /\ Append(t, e)[Len(t) + 1] = e
           /\ \A i \in DOMAIN t : Append(t, e)[i] = t[i]
  OBVIOUS

\* The trail of a case that exists from the start.
LEMMA FirstEntry ==
    ASSUME NEW e \in Entry
    PROVE  /\ <<e>> \in Seq(Entry)
           /\ <<e>> # <<>>
           /\ DOMAIN <<e>> = {1}
           /\ <<e>>[1] = e
           /\ <<>> \in Seq(Entry)
           /\ DOMAIN <<>> = {}
  OBVIOUS

\* The record starts in a state that keeps every promise.
LEMMA InitRecordInv == Init => RecordInv
<1>. DEFINE e == [action |-> "CASE_CREATED", by |-> NoRequest]
<1>. SUFFICES ASSUME Init PROVE RecordInv
  OBVIOUS
<1>0. e \in Entry /\ e.action = "CASE_CREATED" /\ e.by = NoRequest
  BY DEF Entry, AuditAction
<1>2. /\ trail = [c \in Case |-> IF status[c] = "ABSENT" THEN <<>> ELSE <<e>>]
      /\ status \in [Case -> {"ABSENT", "OPEN"}]
  BY DEF Init
<1>. HIDE DEF e
<1>3. \A c \in Case :
        \/ status[c] = "ABSENT" /\ trail[c] = <<>> /\ DOMAIN trail[c] = {}
        \/ /\ status[c] = "OPEN"
           /\ trail[c] = <<e>> /\ trail[c] # <<>>
           /\ DOMAIN trail[c] = {1} /\ trail[c][1] = e
  BY <1>0, <1>2, FirstEntry
<1>1. RecordTypeOK
  <2>1. \A c \in Case : trail[c] \in Seq(Entry)
    BY <1>0, <1>3, FirstEntry
  <2>. QED
    BY <1>2, <2>1 DEF RecordTypeOK, Status
<1>4. TrailExplainsStatus
  BY <1>0, <1>3 DEF TrailExplainsStatus, Logged
<1>5. NothingRegisteredAfterClose
  BY <1>0, <1>3 DEF NothingRegisteredAfterClose
<1>6. OneEntryPerRequest
  BY <1>0, <1>3 DEF OneEntryPerRequest
<1>. QED
  BY <1>1, <1>4, <1>5, <1>6 DEF RecordInv

\* Any entry written by a request that has not written yet keeps the trails
\* attributable.
LEMMA WriteKeepsOneEntry ==
    ASSUME RecordTypeOK, OneEntryPerRequest,
           NEW c \in Case, NEW r \in Request, NEW a \in AuditAction, Write(c, r, a)
    PROVE  OneEntryPerRequest'
<1>. DEFINE e == [action |-> a, by |-> r]
<1>1. /\ e \in Entry
      /\ trail[c] \in Seq(Entry)
      /\ trail'[c] = Append(trail[c], e)
      /\ \A d \in Case : d # c => trail'[d] = trail[d]
  BY DEF Write, RecordTypeOK, Entry
<1>2. /\ DOMAIN trail'[c] = (DOMAIN trail[c]) \union {Len(trail[c]) + 1}
      /\ trail'[c][Len(trail[c]) + 1] = e
      /\ \A i \in DOMAIN trail[c] : trail'[c][i] = trail[c][i]
  BY <1>1, AppendEntry
<1>3. \A d \in Case : \A i \in DOMAIN trail[d] : trail[d][i].by # r
  BY DEF Write, HasWritten
<1>. HIDE DEF e
<1>4. e.by = r
  BY DEF e
<1>5. SUFFICES ASSUME NEW d1 \in Case, NEW d2 \in Case,
                      NEW i \in DOMAIN trail'[d1], NEW j \in DOMAIN trail'[d2],
                      trail'[d1][i].by = trail'[d2][j].by,
                      trail'[d1][i].by # NoRequest
               PROVE  d1 = d2 /\ i = j
  BY DEF OneEntryPerRequest
<1>6. \/ d1 = c /\ i = Len(trail[c]) + 1 /\ trail'[d1][i].by = r
      \/ i \in DOMAIN trail[d1] /\ trail'[d1][i] = trail[d1][i]
  BY <1>1, <1>2, <1>4
<1>7. \/ d2 = c /\ j = Len(trail[c]) + 1 /\ trail'[d2][j].by = r
      \/ j \in DOMAIN trail[d2] /\ trail'[d2][j] = trail[d2][j]
  BY <1>1, <1>2, <1>4
<1>. QED
  BY <1>3, <1>5, <1>6, <1>7 DEF OneEntryPerRequest

\* The four ways a trail grows, reduced to facts about one case.
LEMMA StepKeepsHistory ==
    ASSUME RecordInv,
           NEW c \in Case, NEW r \in Request, NEW a \in AuditAction,
           Write(c, r, a),
           \A d \in Case : d # c => status'[d] = status[d],
           \/ status[c] = "ABSENT" /\ status'[c] = "OPEN" /\ a = "CASE_CREATED"
           \/ status[c] = "OPEN" /\ status'[c] = "CLOSED" /\ a = "CASE_CLOSED"
           \/ status[c] = "CLOSED" /\ status'[c] = "ARCHIVED" /\ a = "CASE_ARCHIVED"
           \/ /\ status[c] # "ABSENT" /\ status'[c] = status[c] /\ a \in Annotation
              /\ a = "EVIDENCE_REGISTERED" => status[c] = "OPEN"
    PROVE  TrailExplainsStatus' /\ NothingRegisteredAfterClose'
<1>. DEFINE e == [action |-> a, by |-> r]
            n == Len(trail[c]) + 1
<1>1. /\ e \in Entry
      /\ trail[c] \in Seq(Entry)
      /\ trail'[c] = Append(trail[c], e)
      /\ \A d \in Case : d # c => trail'[d] = trail[d]
  BY DEF Write, RecordInv, RecordTypeOK, Entry
<1>2. /\ DOMAIN trail'[c] = (DOMAIN trail[c]) \union {n}
      /\ trail'[c][n] = e
      /\ trail'[c] # <<>>
      /\ n \in Nat /\ n \notin DOMAIN trail[c]
      /\ \A i \in DOMAIN trail[c] : trail'[c][i] = trail[c][i] /\ i \in Nat /\ i < n
      /\ n = 1 <=> trail[c] = <<>>
  BY <1>1, AppendEntry
<1>3. e.action = a
  OBVIOUS
<1>. HIDE DEF e, n
<1>4. /\ status[c] = "ABSENT" <=> trail[c] = <<>>
      /\ status[c] \in {"CLOSED", "ARCHIVED"} <=> Logged(c, "CASE_CLOSED")
      /\ status[c] = "ARCHIVED" <=> Logged(c, "CASE_ARCHIVED")
      /\ \A i \in DOMAIN trail[c] : trail[c][i].action = "CASE_CREATED" <=> i = 1
  BY DEF RecordInv, TrailExplainsStatus
<1>5. \A b : Logged(c, b)' <=> Logged(c, b) \/ b = a
  BY <1>2, <1>3 DEF Logged
<1>6. \A d \in Case : d # c => \A b : Logged(d, b)' <=> Logged(d, b)
  BY <1>1 DEF Logged
<1>7. \A i, j \in DOMAIN trail[c] :
        /\ trail[c][i].action = "CASE_CLOSED" /\ trail[c][j].action = "CASE_CLOSED"
              => i = j
        /\ trail[c][i].action = "CASE_ARCHIVED" /\ trail[c][j].action = "CASE_ARCHIVED"
              => i = j
        /\ trail[c][i].action = "CASE_CLOSED" /\ trail[c][j].action = "CASE_ARCHIVED"
              => i < j
        /\ trail[c][i].action = "CASE_CLOSED" /\ trail[c][j].action = "EVIDENCE_REGISTERED"
              => j < i
  BY DEF RecordInv, TrailExplainsStatus, NothingRegisteredAfterClose
<1>8. /\ a = "CASE_CLOSED" => ~Logged(c, "CASE_CLOSED") /\ ~Logged(c, "CASE_ARCHIVED")
      /\ a = "CASE_ARCHIVED" => ~Logged(c, "CASE_ARCHIVED")
      /\ a = "EVIDENCE_REGISTERED" => ~Logged(c, "CASE_CLOSED")
      /\ a = "CASE_CREATED" <=> n = 1
  BY <1>2, <1>4 DEF Annotation
<1>9. \A i, j \in DOMAIN trail'[c] :
        /\ trail'[c][i].action = "CASE_CLOSED" /\ trail'[c][j].action = "CASE_CLOSED"
              => i = j
        /\ trail'[c][i].action = "CASE_ARCHIVED" /\ trail'[c][j].action = "CASE_ARCHIVED"
              => i = j
        /\ trail'[c][i].action = "CASE_CLOSED" /\ trail'[c][j].action = "CASE_ARCHIVED"
              => i < j
        /\ trail'[c][i].action = "CASE_CLOSED" /\ trail'[c][j].action = "EVIDENCE_REGISTERED"
              => j < i
  <2>. SUFFICES ASSUME NEW i \in DOMAIN trail'[c], NEW j \in DOMAIN trail'[c]
                PROVE
        /\ trail'[c][i].action = "CASE_CLOSED" /\ trail'[c][j].action = "CASE_CLOSED"
              => i = j
        /\ trail'[c][i].action = "CASE_ARCHIVED" /\ trail'[c][j].action = "CASE_ARCHIVED"
              => i = j
        /\ trail'[c][i].action = "CASE_CLOSED" /\ trail'[c][j].action = "CASE_ARCHIVED"
              => i < j
        /\ trail'[c][i].action = "CASE_CLOSED" /\ trail'[c][j].action = "EVIDENCE_REGISTERED"
              => j < i
    OBVIOUS
  <2>1. CASE i \in DOMAIN trail[c] /\ j \in DOMAIN trail[c]
    BY <1>2, <1>7, <2>1
  <2>2. CASE i = n /\ j \in DOMAIN trail[c]
    BY <1>2, <1>3, <1>8, <2>2 DEF Logged
  <2>3. CASE i \in DOMAIN trail[c] /\ j = n
    BY <1>2, <1>3, <1>8, <2>3 DEF Logged
  <2>4. CASE i = n /\ j = n
    BY <1>2, <1>3, <2>4
  <2>. QED
    BY <1>2, <2>1, <2>2, <2>3, <2>4
<1>10. \A i \in DOMAIN trail'[c] : trail'[c][i].action = "CASE_CREATED" <=> i = 1
  BY <1>2, <1>3, <1>4, <1>8
<1>11. /\ status'[c] = "ABSENT" <=> trail'[c] = <<>>
       /\ status'[c] \in {"CLOSED", "ARCHIVED"} <=> Logged(c, "CASE_CLOSED")'
       /\ status'[c] = "ARCHIVED" <=> Logged(c, "CASE_ARCHIVED")'
  BY <1>2, <1>4, <1>5 DEF Annotation
<1>. DEFINE Agrees(d) ==
        /\ status[d] = "ABSENT" <=> trail[d] = <<>>
        /\ status[d] \in {"CLOSED", "ARCHIVED"} <=> Logged(d, "CASE_CLOSED")
        /\ status[d] = "ARCHIVED" <=> Logged(d, "CASE_ARCHIVED")
            Ordered(t) ==
        /\ \A i \in DOMAIN t : t[i].action = "CASE_CREATED" <=> i = 1
        /\ \A i, j \in DOMAIN t :
              /\ t[i].action = "CASE_CLOSED" /\ t[j].action = "CASE_CLOSED" => i = j
              /\ t[i].action = "CASE_ARCHIVED" /\ t[j].action = "CASE_ARCHIVED" => i = j
              /\ t[i].action = "CASE_CLOSED" /\ t[j].action = "CASE_ARCHIVED" => i < j
<1>12. TrailExplainsStatus'
  <2>1. \A d \in Case : Agrees(d) /\ Ordered(trail[d])
    BY DEF RecordInv, TrailExplainsStatus
  <2>2. Agrees(c)' /\ Ordered(trail'[c])
    BY <1>9, <1>10, <1>11
  <2>3. ASSUME NEW d \in Case, d # c
        PROVE  Agrees(d)' /\ Ordered(trail'[d])
    <3>1. trail'[d] = trail[d] /\ status'[d] = status[d]
      BY <1>1, <2>3
    <3>2. Agrees(d)'
      BY <1>6, <2>1, <2>3, <3>1
    <3>3. Ordered(trail'[d])
      BY <2>1, <3>1
    <3>. QED
      BY <3>2, <3>3
  <2>4. \A d \in Case : Agrees(d)' /\ Ordered(trail'[d])
    BY <2>2, <2>3
  <2>. QED
    BY <2>4 DEF TrailExplainsStatus
<1>13. NothingRegisteredAfterClose'
  BY <1>1, <1>9 DEF RecordInv, NothingRegisteredAfterClose
<1>. QED
  BY <1>12, <1>13

\* Every step of the record keeps every promise.
LEMMA NextRecordInv == RecordInv /\ [Next]_recordVars => RecordInv'
<1>. SUFFICES ASSUME RecordInv, [Next]_recordVars PROVE RecordInv'
  OBVIOUS
<1>1. CASE UNCHANGED recordVars
  BY <1>1 DEF recordVars, RecordInv, RecordTypeOK, TrailExplainsStatus, Logged,
              NothingRegisteredAfterClose, OneEntryPerRequest
<1>2. CASE Next
  <2>1. PICK c \in Case, r \in Request, a \in AuditAction :
           /\ Write(c, r, a)
           /\ \/ /\ a = "CASE_CREATED" /\ status[c] = "ABSENT"
                 /\ status' = [status EXCEPT ![c] = "OPEN"]
              \/ /\ a = "CASE_CLOSED" /\ status[c] = "OPEN"
                 /\ status' = [status EXCEPT ![c] = "CLOSED"]
              \/ /\ a = "CASE_ARCHIVED" /\ status[c] = "CLOSED"
                 /\ status' = [status EXCEPT ![c] = "ARCHIVED"]
              \/ /\ a \in Annotation /\ status[c] # "ABSENT" /\ status' = status
                 /\ a = "EVIDENCE_REGISTERED" => status[c] = "OPEN"
    BY <1>2 DEF Next, Move, Annotate, AuditAction
  <2>2. RecordTypeOK'
    <3>1. [action |-> a, by |-> r] \in Entry
      BY DEF Entry
    <3>2. trail' \in [Case -> Seq(Entry)]
      BY <2>1, <3>1 DEF Write, RecordInv, RecordTypeOK
    <3>3. status' \in [Case -> Status]
      BY <2>1 DEF RecordInv, RecordTypeOK, Status
    <3>. QED
      BY <3>2, <3>3 DEF RecordTypeOK
  <2>3. TrailExplainsStatus' /\ NothingRegisteredAfterClose'
    <3>. status \in [Case -> Status]
      BY DEF RecordInv, RecordTypeOK
    <3>. QED
      BY <2>1, StepKeepsHistory
  <2>4. OneEntryPerRequest'
    BY <2>1, WriteKeepsOneEntry DEF RecordInv
  <2>. QED
    BY <2>2, <2>3, <2>4 DEF RecordInv
<1>. QED
  BY <1>1, <1>2

\* In every behaviour of the abstract record, status and trail agree, nothing
\* is registered after the close, and no request is recorded twice.
THEOREM RecordCorrect == Spec => []RecordInv
<1>. QED
  BY InitRecordInv, NextRecordInv, PTL DEF Spec

=============================================================================
