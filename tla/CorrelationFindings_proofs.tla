---------------------- MODULE CorrelationFindings_proofs ----------------------
(***************************************************************************)
(* For any events, windows, runs, reviews and generations and any faults:  *)
(* the row lock keeps correlation runs apart, the rows they store fit      *)
(* together, nothing related is missed, and findings only move along the   *)
(* transitions of their review.                                            *)
(***************************************************************************)
EXTENDS CorrelationFindings, TLAPS, FiniteSetTheorems

TaskFields ==
    {"window", "read", "todo", "made", "status", "seen", "finding", "new"}

-----------------------------------------------------------------------------
\* The rules

\* The one candidate a rule gives for a pair of events.
Shape(rule, a, b) ==
    LET p == <<a, b>>
    IN  CASE rule = "EVTX-PREFETCH" ->
               Candidate(rule, p, "basename", <<Name(Given[a].name)>>)
          [] rule = "LNK-EVTX" -> ByPath(rule, Given, p, FullPath)
          [] OTHER -> ByPath(rule, Given, p, Path)

\* What the rules read of a timeline: events whose record was enriched or is
\* still without its process.
EventsInv ==
    /\ DOMAIN events \subseteq DOMAIN Given
    /\ \A e \in DOMAIN events : events[e] \in {Given[e], Unidentified(Given[e])}

\* An event before its enrichment differs in nothing but name and path.
LEMMA UnidentifiedRow ==
    ASSUME NEW e \in DOMAIN Given
    PROVE  /\ Unidentified(Given[e]).type = Given[e].type
           /\ Unidentified(Given[e]).time = Given[e].time
           /\ Unidentified(Given[e]).process = Given[e].process
           /\ Given[e].type = "EVTX" => Unidentified(Given[e]).name = None
           /\ Given[e].type # "EVTX" => Unidentified(Given[e]) = Given[e]
  BY GivenAssumption DEF Unidentified

\* A candidate is about an event 4688 and another event of the rule's family,
\* and is the one its rule gives for them, whether or not they were read
\* before their enrichment.
LEMMA CandidateOfPair ==
    ASSUME EventsInv, NEW w, NEW c \in Candidates(events, w)
    PROVE  /\ c.a \in DOMAIN events /\ c.b \in DOMAIN events
           /\ events[c.a] = Given[c.a] /\ events[c.b] = Given[c.b]
           /\ Given[c.a].type = "EVTX" /\ Given[c.b].type # "EVTX"
           /\ c.rule \in {"EVTX-PREFETCH", "LNK-EVTX", "NTFS-EVTX"}
           /\ Given[c.b].type = CASE c.rule = "EVTX-PREFETCH" -> "PREFETCH"
                                  [] c.rule = "LNK-EVTX" -> "LNK"
                                  [] OTHER -> "NTFS"
           /\ c = Shape(c.rule, c.a, c.b)
<1>1. ASSUME NEW p, p \in ProcessEvents(events)
      PROVE  p \in DOMAIN events /\ events[p] = Given[p] /\ Given[p].type = "EVTX"
  BY <1>1, UnidentifiedRow DEF EventsInv, ProcessEvents, Name
<1>2. ASSUME NEW b, NEW family \in {"PREFETCH", "LNK", "NTFS"}, b \in OfFamily(events, family)
      PROVE  b \in DOMAIN events /\ events[b] = Given[b] /\ Given[b].type = family
  BY <1>2, UnidentifiedRow DEF EventsInv, OfFamily
<1>3. CASE c \in EvtxPrefetch(events, w)
  <2>1. PICK p \in ProcessEvents(events) \X OfFamily(events, "PREFETCH") :
           c = Candidate("EVTX-PREFETCH", p, "basename", <<Name(events[p[1]].name)>>)
    BY <1>3 DEF EvtxPrefetch, IdentityTimePairs
  <2>2. p[1] \in ProcessEvents(events) /\ p[2] \in OfFamily(events, "PREFETCH")
        /\ p = <<p[1], p[2]>>
    OBVIOUS
  <2>3. c.rule = "EVTX-PREFETCH" /\ c.a = p[1] /\ c.b = p[2]
    BY <2>1 DEF Candidate
  <2>. QED
    BY <1>1, <1>2, <2>1, <2>2, <2>3 DEF Shape
<1>4. CASE c \in LnkEvtx(events, w)
  <2>1. PICK p \in ProcessEvents(events) \X OfFamily(events, "LNK") :
           c = ByPath("LNK-EVTX", events, p, FullPath)
    BY <1>4 DEF LnkEvtx, IdentityTimePairs
  <2>2. p[1] \in ProcessEvents(events) /\ p[2] \in OfFamily(events, "LNK")
        /\ p = <<p[1], p[2]>>
    OBVIOUS
  <2>3. c.rule = "LNK-EVTX" /\ c.a = p[1] /\ c.b = p[2]
    BY <2>1 DEF Candidate, ByPath
  <2>4. events[p[1]] = Given[p[1]] /\ events[p[2]] = Given[p[2]]
    BY <1>1, <1>2, <2>2
  <2>5. c = ByPath("LNK-EVTX", Given, <<p[1], p[2]>>, FullPath)
    BY <2>1, <2>2, <2>4 DEF ByPath
  <2>. QED
    BY <1>1, <1>2, <2>2, <2>3, <2>5 DEF Shape
<1>5. CASE c \in NtfsEvtx(events, w)
  <2>1. PICK p \in ProcessEvents(events) \X OfFamily(events, "NTFS") :
           c = ByPath("NTFS-EVTX", events, p, Path)
    BY <1>5 DEF NtfsEvtx, IdentityTimePairs
  <2>2. p[1] \in ProcessEvents(events) /\ p[2] \in OfFamily(events, "NTFS")
        /\ p = <<p[1], p[2]>>
    OBVIOUS
  <2>3. c.rule = "NTFS-EVTX" /\ c.a = p[1] /\ c.b = p[2]
    BY <2>1 DEF Candidate, ByPath
  <2>4. events[p[1]] = Given[p[1]] /\ events[p[2]] = Given[p[2]]
    BY <1>1, <1>2, <2>2
  <2>5. c = ByPath("NTFS-EVTX", Given, <<p[1], p[2]>>, Path)
    BY <2>1, <2>2, <2>4 DEF ByPath
  <2>. QED
    BY <1>1, <1>2, <2>2, <2>3, <2>5 DEF Shape
<1>. QED
  BY <1>3, <1>4, <1>5 DEF Candidates

\* What Related says of two event times is what _within_window computes.
LEMMA WindowEnds ==
    ASSUME EventsInv, NEW w \in Windows, NEW a \in DOMAIN events, NEW b \in DOMAIN events
    PROVE  WithinWindow(events[a], events[b], w) <=>
              /\ events[a].time # None /\ events[b].time # None
              /\ events[a].time \in (events[b].time - w)..(events[b].time + w)
<1>1. w \in Int /\ None \notin Int
  BY WindowsAssumption
<1>2. events[a].time \in Int \union {None} /\ events[b].time \in Int \union {None}
  BY UnidentifiedRow, GivenAssumption DEF EventsInv
<1>. QED
  BY <1>1, <1>2 DEF WithinWindow

\* The rules relate exactly the related pairs (rules.py, evaluate).
LEMMA CandidatesAreRelated ==
    ASSUME EventsInv, NEW w \in Windows, NEW a \in DOMAIN events, NEW b \in DOMAIN events
    PROVE  Related(events[a], events[b], w)
             <=> \E c \in Candidates(events, w) : c.a = a /\ c.b = b
<1>. DEFINE Near == /\ events[a].time # None /\ events[b].time # None
                    /\ events[a].time \in (events[b].time - w)..(events[b].time + w)
            Process == /\ events[a].type = "EVTX" /\ events[a].process
                       /\ Name(events[a].name) # None
            p == <<a, b>>
<1>1. WithinWindow(events[a], events[b], w) <=> Near
  BY WindowEnds
<1>2. (\E c \in EvtxPrefetch(events, w) : c.a = a /\ c.b = b) <=>
         /\ Process /\ events[b].type = "PREFETCH" /\ Near
         /\ Name(events[a].name) = Name(events[b].name)
  <2>1. (\E c \in EvtxPrefetch(events, w) : c.a = a /\ c.b = b) <=>
           p \in IdentityTimePairs(events, ProcessEvents(events), OfFamily(events, "PREFETCH"),
                                  LAMBDA e : Name(e.name), w)
    <3>. DEFINE pairs == IdentityTimePairs(events, ProcessEvents(events),
                              OfFamily(events, "PREFETCH"), LAMBDA e : Name(e.name), w)
                made(q) == Candidate("EVTX-PREFETCH", q, "basename", <<Name(events[q[1]].name)>>)
    <3>1. \A q \in pairs : q = <<q[1], q[2]>>
      BY DEF IdentityTimePairs
    <3>2. \A q : made(q).a = q[1] /\ made(q).b = q[2]
      BY DEF Candidate
    <3>3. EvtxPrefetch(events, w) = {made(q) : q \in pairs}
      BY DEF EvtxPrefetch
    <3>. HIDE DEF pairs, made
    <3>4. ASSUME NEW c \in EvtxPrefetch(events, w), c.a = a, c.b = b
          PROVE  p \in pairs
      BY <3>1, <3>2, <3>3, <3>4
    <3>5. ASSUME p \in pairs
          PROVE  \E c \in EvtxPrefetch(events, w) : c.a = a /\ c.b = b
      BY <3>2, <3>3, <3>5
    <3>. QED
      BY <3>4, <3>5 DEF pairs
  <2>. QED
    BY <1>1, <2>1 DEF IdentityTimePairs, ProcessEvents, OfFamily
<1>3. (\E c \in NtfsEvtx(events, w) : c.a = a /\ c.b = b) <=>
         /\ Process /\ events[b].type = "NTFS" /\ Near
         /\ Name(events[a].name) = Name(events[b].name)
  <2>1. (\E c \in NtfsEvtx(events, w) : c.a = a /\ c.b = b) <=>
           p \in IdentityTimePairs(events, ProcessEvents(events), OfFamily(events, "NTFS"),
                                  LAMBDA e : Name(e.name), w)
    <3>. DEFINE pairs == IdentityTimePairs(events, ProcessEvents(events),
                              OfFamily(events, "NTFS"), LAMBDA e : Name(e.name), w)
    <3>1. \A q \in pairs : q = <<q[1], q[2]>>
      BY DEF IdentityTimePairs
    <3>2. \A q : /\ ByPath("NTFS-EVTX", events, q, Path).a = q[1]
                 /\ ByPath("NTFS-EVTX", events, q, Path).b = q[2]
      BY DEF ByPath, Candidate
    <3>3. NtfsEvtx(events, w) = {ByPath("NTFS-EVTX", events, q, Path) : q \in pairs}
      BY DEF NtfsEvtx
    <3>. HIDE DEF pairs
    <3>4. ASSUME NEW c \in NtfsEvtx(events, w), c.a = a, c.b = b
          PROVE  p \in pairs
      BY <3>1, <3>2, <3>3, <3>4
    <3>5. ASSUME p \in pairs
          PROVE  \E c \in NtfsEvtx(events, w) : c.a = a /\ c.b = b
      BY <3>2, <3>3, <3>5
    <3>. QED
      BY <3>4, <3>5 DEF pairs
  <2>. QED
    BY <1>1, <2>1 DEF IdentityTimePairs, ProcessEvents, OfFamily
<1>4. (\E c \in LnkEvtx(events, w) : c.a = a /\ c.b = b) <=>
         /\ Process /\ events[b].type = "LNK" /\ Near
         /\ Name(events[a].name) = Basename(events[b].path)
         /\ \/ None \in {FullPath(events[a].path), FullPath(events[b].path)}
            \/ FullPath(events[a].path) = FullPath(events[b].path)
  <2>1. (\E c \in LnkEvtx(events, w) : c.a = a /\ c.b = b) <=>
           /\ p \in IdentityTimePairs(events, ProcessEvents(events), OfFamily(events, "LNK"),
                                     LAMBDA e : Basename(e.path), w)
           /\ \/ None \in {FullPath(events[a].path), FullPath(events[b].path)}
              \/ FullPath(events[a].path) = FullPath(events[b].path)
    <3>. DEFINE pairs == IdentityTimePairs(events, ProcessEvents(events),
                              OfFamily(events, "LNK"), LAMBDA e : Basename(e.path), w)
                agree(q) == \/ None \in {FullPath(events[q[1]].path), FullPath(events[q[2]].path)}
                            \/ FullPath(events[q[1]].path) = FullPath(events[q[2]].path)
    <3>1. \A q \in pairs : q = <<q[1], q[2]>>
      BY DEF IdentityTimePairs
    <3>2. \A q : /\ ByPath("LNK-EVTX", events, q, FullPath).a = q[1]
                 /\ ByPath("LNK-EVTX", events, q, FullPath).b = q[2]
      BY DEF ByPath, Candidate
    <3>3. LnkEvtx(events, w) =
             {ByPath("LNK-EVTX", events, q, FullPath) : q \in {r \in pairs : agree(r)}}
      BY DEF LnkEvtx
    <3>4. agree(p) <=> \/ None \in {FullPath(events[a].path), FullPath(events[b].path)}
                       \/ FullPath(events[a].path) = FullPath(events[b].path)
      OBVIOUS
    <3>. HIDE DEF pairs, agree
    <3>5. ASSUME NEW c \in LnkEvtx(events, w), c.a = a, c.b = b
          PROVE  p \in pairs /\ agree(p)
      BY <3>1, <3>2, <3>3, <3>5
    <3>6. ASSUME p \in pairs, agree(p)
          PROVE  \E c \in LnkEvtx(events, w) : c.a = a /\ c.b = b
      BY <3>2, <3>3, <3>6
    <3>. QED
      BY <3>4, <3>5, <3>6 DEF pairs
  <2>. QED
    BY <1>1, <2>1 DEF IdentityTimePairs, ProcessEvents, OfFamily
<1>5. (\E c \in Candidates(events, w) : c.a = a /\ c.b = b) <=>
         \/ \E c \in EvtxPrefetch(events, w) : c.a = a /\ c.b = b
         \/ \E c \in LnkEvtx(events, w) : c.a = a /\ c.b = b
         \/ \E c \in NtfsEvtx(events, w) : c.a = a /\ c.b = b
  BY DEF Candidates
<1>. QED
  BY <1>2, <1>3, <1>4, <1>5 DEF Related

-----------------------------------------------------------------------------
\* The inductive invariant

RunPhases == {"idle", "locked", "checking", "inserting", "committed", "done"}
ReviewPhases == {"idle", "review", "committed", "done"}
GenerationPhases == {"idle", "writing", "committed", "done"}

Holding == {"locked", "checking", "inserting"}

Phases == RunPhases \union ReviewPhases \union GenerationPhases

Answers == {"none", "not_found", "conflict", "ok", "fault"}

IsTrail(s) == s \in Seq({s[i] : i \in DOMAIN s})

\* What requests, events and the audit trail are made of.
TypeInv ==
    /\ pc \in [Requests -> Phases] /\ out \in [Requests -> Answers]
    /\ \A r \in Run : pc[r] \in RunPhases
    /\ \A u \in Review : pc[u] \in ReviewPhases
    /\ \A g \in Generation : pc[g] \in GenerationPhases
    /\ DOMAIN task = Requests
    /\ \A r \in Requests : DOMAIN task[r] = TaskFields
    /\ \A g \in Generation : task[g].new \subseteq DOMAIN Given
    /\ EventsInv
    /\ IsTrail(audit)

\* A run holds the case row from its first read to its commit.
LockInv == \A r \in Run : pc[r] \in Holding => lock = r

\* The matches made from the candidates that are no longer to do.
Evaluated(r) ==
    LET w == task[r].window
        made == task[r].made
    IN  /\ IsFiniteSet(DOMAIN made)
        /\ task[r].todo \subseteq Candidates(events, w)
        /\ \A c \in Candidates(events, w) :
              c \in task[r].todo \/ MatchKey(c, w) \in DOMAIN matches \union DOMAIN made
        /\ \A k \in DOMAIN made :
              /\ k \notin DOMAIN matches
              /\ \E c \in Candidates(events, w) :
                    /\ k = MatchKey(c, w)
                    /\ made[k] = [run |-> r, rule |-> c.rule, a |-> c.a, b |-> c.b]

RunOK(r) ==
    /\ pc[r] \notin {"committed", "done"} => r \notin DOMAIN runs
    /\ pc[r] \in {"idle", "locked"} => task[r].made = <<>>
    /\ pc[r] \in Holding => task[r].window \in Windows
    /\ pc[r] \in {"checking", "inserting"} => Evaluated(r)
    /\ pc[r] = "inserting" =>
          /\ task[r].todo # {}
          /\ KeyOf(r) \notin DOMAIN matches \union DOMAIN task[r].made

RunInv == \A r \in Run : RunOK(r)

\* A match is about the two events its key names, the process first.
KeysInv ==
    \A k \in DOMAIN matches :
        LET m == matches[k]
        IN  /\ m.a \in DOMAIN Given /\ m.b \in DOMAIN Given
            /\ Given[m.a].type = "EVTX" /\ Given[m.b].type # "EVTX"
            /\ k = MatchKey(Shape(m.rule, m.a, m.b), 0)

RowsInv ==
    /\ DOMAIN findings = DOMAIN matches
    /\ \A k \in DOMAIN matches : matches[k].run \in DOMAIN runs
    /\ \A k \in DOMAIN findings : findings[k] \in Statuses
    /\ \A r \in DOMAIN runs :
          runs[r].matched = Cardinality({k \in DOMAIN matches : matches[k].run = r})
    /\ KeysInv

\* A review holds its finding, which is as it was read.
ReviewInv ==
    /\ \A l, m \in findingLock : l[1] = m[1] => l = m
    /\ \A u \in Review : pc[u] = "review" =>
          /\ <<task[u].finding, u>> \in findingLock
          /\ task[u].finding \in DOMAIN findings
          /\ task[u].seen = findings[task[u].finding]
          /\ task[u].status \in Statuses \union {None}

IInv == TypeInv /\ LockInv /\ RunInv /\ RowsInv /\ ReviewInv

\* Runs, reviews and generations are different requests.
LEMMA Kinds ==
    /\ Run \subseteq Requests /\ Review \subseteq Requests /\ Generation \subseteq Requests
    /\ Nobody \notin Run
    /\ \A r \in Run : r \notin Review /\ r \notin Generation
    /\ \A u \in Review : u \notin Generation
  BY RequestsAssumption DEF Requests

\* The invariant holds at the start.
LEMMA InitIInv == FindingsInit => IInv
<1>. SUFFICES ASSUME FindingsInit PROVE IInv
  OBVIOUS
<1>. USE DEF FindingsInit
<1>1. DOMAIN <<>> = {}
  OBVIOUS
<1>2. TypeInv
  <2>1. EventsInv
    BY GivenAssumption DEF EventsInv
  <2>2. \A r \in Requests : DOMAIN task[r] = TaskFields
    BY DEF NoTask, TaskFields
  <2>3. \A g \in Generation : task[g].new \subseteq DOMAIN Given
    BY Kinds DEF NoTask
  <2>4. IsTrail(audit)
    BY DEF IsTrail
  <2>5. pc \in [Requests -> Phases] /\ out \in [Requests -> Answers]
    <3>1. pc = [r \in Requests |-> "idle"] /\ out = [r \in Requests |-> "none"]
      OBVIOUS
    <3>. QED
      BY <3>1 DEF Phases, RunPhases, Answers
  <2>7. DOMAIN task = Requests
    OBVIOUS
  <2>6. \A r \in Requests : pc[r] = "idle"
    OBVIOUS
  <2>. QED
    BY <2>1, <2>2, <2>3, <2>4, <2>5, <2>6, <2>7, Kinds
    DEF TypeInv, RunPhases, ReviewPhases, GenerationPhases
<1>3. LockInv
  BY Kinds DEF LockInv, Holding
<1>4. RunInv
  BY <1>1, Kinds DEF RunInv, RunOK, Holding, NoTask
<1>5. RowsInv
  BY <1>1 DEF RowsInv, KeysInv
<1>6. ReviewInv
  BY Kinds DEF ReviewInv
<1>. QED
  BY <1>2, <1>3, <1>4, <1>5, <1>6 DEF IInv

-----------------------------------------------------------------------------
\* Steps

RunStep(r) ==
    \/ RunNotFound(r) \/ LockCase(r) \/ Evaluate(r) \/ SkipExisting(r) \/ FindNone(r)
    \/ InsertMatch(r) \/ CommitRun(r) \/ Reread(r) \/ Fault(r)

ReviewStep(u) ==
    \/ LockFinding(u) \/ ReviewNotFound(u) \/ RejectReview(u) \/ CommitReview(u)
    \/ Reread(u) \/ Fault(u)

GenerationStep(g) == WriteEvents(g) \/ CommitEvents(g) \/ Reread(g) \/ Fault(g)

\* Every step is one request's, or changes nothing.
LEMMA NextSteps ==
    ASSUME [FindingsNext]_findingsVars
    PROVE  \/ \E r \in Run : RunStep(r)
           \/ \E u \in Review : ReviewStep(u)
           \/ \E g \in Generation : GenerationStep(g)
           \/ UNCHANGED findingsVars
  BY DEF FindingsNext, RunStep, ReviewStep, GenerationStep, Requests, Quiet

\* Entries are only ever added at the end.
LEMMA TrailGrows ==
    ASSUME NEW s, IsTrail(s), NEW T, NEW t \in Seq(T)
    PROVE  /\ IsTrail(s \o t)
           /\ DOMAIN s = 1..Len(s) /\ Len(s) \in Nat /\ Len(t) \in Nat
           /\ DOMAIN (s \o t) = 1..(Len(s) + Len(t))
           /\ \A i \in DOMAIN s : (s \o t)[i] = s[i]
           /\ \A i \in 1..Len(t) : (s \o t)[Len(s) + i] = t[i]
<1>. DEFINE S == {s[i] : i \in DOMAIN s}
            u == s \o t
<1>1. s \in Seq(S) /\ S \subseteq S \union T /\ T \subseteq S \union T
  BY DEF IsTrail
<1>2. u \in Seq(S \union T) /\ Len(u) = Len(s) + Len(t)
  BY <1>1
<1>3. DOMAIN u = 1..Len(u) /\ Len(u) \in Nat
  BY <1>2
<1>5. IsTrail(u)
  <2>. DEFINE R == {u[i] : i \in DOMAIN u}
              n == Len(u)
  <2>. HIDE DEF u
  <2>1. u = [i \in 1..n |-> u[i]]
    BY <1>2, <1>3
  <2>2. \A i \in 1..n : u[i] \in R
    BY <1>3
  <2>3. n \in Nat
    BY <1>3
  <2>. HIDE DEF R, n
  <2>4. [i \in 1..n |-> u[i]] \in Seq(R)
    BY <2>2, <2>3
  <2>. QED
    BY <2>1, <2>4 DEF IsTrail, R
<1>6. DOMAIN s = 1..Len(s) /\ Len(s) \in Nat /\ Len(t) \in Nat
  BY <1>1
<1>7. \A i \in DOMAIN s : u[i] = s[i]
  BY <1>1, <1>6
<1>8. \A i \in 1..Len(t) : u[Len(s) + i] = t[i]
  BY <1>1, <1>6
<1>. QED
  BY <1>2, <1>3, <1>5, <1>6, <1>7, <1>8

\* What a step of one request leaves alone of the others.
LEMMA Alone ==
    ASSUME IInv, NEW r \in Requests,
           RunStep(r) \/ ReviewStep(r) \/ GenerationStep(r)
    PROVE  /\ \A q \in Requests \ {r} : pc'[q] = pc[q] /\ out'[q] = out[q] /\ task'[q] = task[q]
           /\ DOMAIN task' = Requests
           /\ pc' \in [Requests -> Phases]
           /\ out' \in [Requests -> Answers \union {"error"}]
<1>1. /\ pc \in [Requests -> Phases] /\ out \in [Requests -> Answers]
      /\ DOMAIN task = Requests
  BY DEF IInv, TypeInv
<1>. USE DEF Goto, Answer, Phases, RunPhases, ReviewPhases, GenerationPhases, Answers
<1>2. CASE RunStep(r)
  <2>1. CASE RunNotFound(r)
    BY <1>1, <2>1 DEF RunNotFound
  <2>2. CASE LockCase(r)
    BY <1>1, <2>2 DEF LockCase
  <2>3. CASE Evaluate(r)
    BY <1>1, <2>3 DEF Evaluate
  <2>4. CASE SkipExisting(r)
    BY <1>1, <2>4 DEF SkipExisting
  <2>5. CASE FindNone(r)
    BY <1>1, <2>5 DEF FindNone
  <2>6. CASE InsertMatch(r)
    BY <1>1, <2>6 DEF InsertMatch
  <2>7. CASE CommitRun(r)
    BY <1>1, <2>7 DEF CommitRun
  <2>8. CASE Reread(r)
    BY <1>1, <2>8 DEF Reread
  <2>9. CASE Fault(r)
    BY <1>1, <2>9 DEF Fault
  <2>. QED
    BY <1>2, <2>1, <2>2, <2>3, <2>4, <2>5, <2>6, <2>7, <2>8, <2>9 DEF RunStep
<1>3. CASE ReviewStep(r)
  <2>1. CASE LockFinding(r)
    BY <1>1, <2>1 DEF LockFinding
  <2>2. CASE ReviewNotFound(r)
    BY <1>1, <2>2 DEF ReviewNotFound
  <2>3. CASE RejectReview(r)
    BY <1>1, <2>3 DEF RejectReview
  <2>4. CASE CommitReview(r)
    BY <1>1, <2>4 DEF CommitReview
  <2>5. CASE Reread(r)
    BY <1>1, <2>5 DEF Reread
  <2>6. CASE Fault(r)
    BY <1>1, <2>6 DEF Fault
  <2>. QED
    BY <1>3, <2>1, <2>2, <2>3, <2>4, <2>5, <2>6 DEF ReviewStep
<1>4. CASE GenerationStep(r)
  <2>1. CASE WriteEvents(r)
    BY <1>1, <2>1 DEF WriteEvents
  <2>2. CASE CommitEvents(r)
    BY <1>1, <2>2 DEF CommitEvents
  <2>3. CASE Reread(r)
    BY <1>1, <2>3 DEF Reread
  <2>4. CASE Fault(r)
    BY <1>1, <2>4 DEF Fault
  <2>. QED
    BY <1>4, <2>1, <2>2, <2>3, <2>4 DEF GenerationStep
<1>. QED
  BY <1>2, <1>3, <1>4

\* Runs change no events.
LEMMA RunTypes ==
    ASSUME IInv, NEW r \in Run, RunStep(r)
    PROVE  /\ pc'[r] \in RunPhases /\ out'[r] \in Answers
           /\ DOMAIN task'[r] = TaskFields
           /\ events' = events /\ IsTrail(audit')
<1>1. /\ pc \in [Requests -> Phases] /\ out \in [Requests -> Answers]
      /\ DOMAIN task = Requests /\ DOMAIN task[r] = TaskFields /\ IsTrail(audit)
      /\ r \in Requests
  BY Kinds DEF IInv, TypeInv
<1>2. DOMAIN NoTask = TaskFields
  BY DEF NoTask, TaskFields
<1>. USE DEF Goto, Answer, rows, RunPhases, Answers
<1>3. CASE RunNotFound(r)
  BY <1>1, <1>2, <1>3 DEF RunNotFound
<1>4. CASE LockCase(r)
  BY <1>1, <1>2, <1>4 DEF LockCase
<1>5. CASE Evaluate(r)
  BY <1>1, <1>2, <1>5 DEF Evaluate
<1>6. CASE SkipExisting(r)
  BY <1>1, <1>2, <1>6 DEF SkipExisting
<1>7. CASE FindNone(r)
  BY <1>1, <1>2, <1>7 DEF FindNone
<1>8. CASE Reread(r)
  BY <1>1, <1>2, <1>8 DEF Reread
<1>9. CASE Fault(r)
  BY <1>1, <1>2, <1>9 DEF Fault
<1>10. CASE InsertMatch(r)
  <2>1. KeyOf(r) \notin DOMAIN matches
    BY <1>10 DEF IInv, RunInv, RunOK, InsertMatch
  <2>. QED
    BY <1>1, <1>2, <1>10, <2>1 DEF InsertMatch
<1>11. CASE CommitRun(r)
  <2>. DEFINE n == Cardinality(DOMAIN task[r].made)
              entry == [action |-> "FINDING_CREATED", by |-> r]
              run == <<[action |-> "CORRELATION_RUN", by |-> r]>>
              created == [k \in 1..n |-> entry]
  <2>1. n \in Nat
    BY <1>11, FS_CardinalityType DEF IInv, RunInv, RunOK, Evaluated, CommitRun
  <2>2. audit' = audit \o created \o run
    BY <1>11 DEF CommitRun
  <2>. HIDE DEF n
  <2>3. created \in Seq({entry})
    BY <2>1
  <2>4. IsTrail(audit \o created)
    BY <1>1, <2>3, TrailGrows
  <2>5. run \in Seq({run[1]})
    OBVIOUS
  <2>6. IsTrail(audit \o created \o run)
    BY <2>4, <2>5, TrailGrows
  <2>7. events' = events /\ task' = task /\ out' = out /\ pc'[r] = "committed"
    BY <1>1, <1>11 DEF CommitRun
  <2>. QED
    BY <1>1, <2>2, <2>6, <2>7
<1>. QED
  BY <1>3, <1>4, <1>5, <1>6, <1>7, <1>8, <1>9, <1>10, <1>11 DEF RunStep

\* Reviews change no events.
LEMMA ReviewTypes ==
    ASSUME IInv, NEW u \in Review, ReviewStep(u)
    PROVE  /\ pc'[u] \in ReviewPhases /\ out'[u] \in Answers
           /\ DOMAIN task'[u] = TaskFields
           /\ events' = events /\ IsTrail(audit')
<1>1. /\ pc \in [Requests -> Phases] /\ out \in [Requests -> Answers]
      /\ DOMAIN task = Requests /\ DOMAIN task[u] = TaskFields /\ IsTrail(audit)
      /\ u \in Requests
  BY Kinds DEF IInv, TypeInv
<1>2. DOMAIN NoTask = TaskFields
  BY DEF NoTask, TaskFields
<1>. USE DEF Goto, Answer, rows, ReviewPhases, Answers
<1>3. CASE LockFinding(u)
  BY <1>1, <1>2, <1>3 DEF LockFinding
<1>4. CASE ReviewNotFound(u)
  BY <1>1, <1>2, <1>4 DEF ReviewNotFound
<1>5. CASE RejectReview(u)
  BY <1>1, <1>2, <1>5 DEF RejectReview
<1>6. CASE Reread(u)
  BY <1>1, <1>2, <1>6 DEF Reread
<1>7. CASE Fault(u)
  BY <1>1, <1>2, <1>7 DEF Fault
<1>8. CASE CommitReview(u)
  <2>. DEFINE updated == [action |-> "FINDING_UPDATED", by |-> u]
              changed == [action |-> "FINDING_STATUS_CHANGED", by |-> u,
                          finding |-> task[u].finding,
                          from |-> task[u].seen, to |-> task[u].status]
  <2>1. <<updated>> \in Seq({updated}) /\ <<changed>> \in Seq({changed})
        /\ <<>> \in Seq({changed})
    OBVIOUS
  <2>2. audit' = audit \o <<updated>> \o (IF Moves(u) THEN <<changed>> ELSE <<>>)
    BY <1>8 DEF CommitReview
  <2>. HIDE DEF updated, changed
  <2>3. IsTrail(audit \o <<updated>>)
    BY <1>1, <2>1, TrailGrows
  <2>4. (IF Moves(u) THEN <<changed>> ELSE <<>>) \in Seq({changed})
    BY <2>1
  <2>5. IsTrail(audit')
    BY <2>2, <2>3, <2>4, TrailGrows
  <2>6. events' = events /\ task' = task /\ out' = out /\ pc'[u] = "committed"
    BY <1>1, <1>8 DEF CommitReview
  <2>. QED
    BY <1>1, <2>5, <2>6
<1>. QED
  BY <1>3, <1>4, <1>5, <1>6, <1>7, <1>8 DEF ReviewStep

\* Generations store what records say.
LEMMA GenerationTypes ==
    ASSUME IInv, NEW g \in Generation, GenerationStep(g)
    PROVE  /\ pc'[g] \in GenerationPhases /\ out'[g] \in Answers
           /\ DOMAIN task'[g] = TaskFields /\ task'[g].new \subseteq DOMAIN Given
           /\ EventsInv' /\ IsTrail(audit')
<1>1. /\ pc \in [Requests -> Phases] /\ out \in [Requests -> Answers]
      /\ DOMAIN task = Requests /\ DOMAIN task[g] = TaskFields /\ IsTrail(audit)
      /\ g \in Requests /\ task[g].new \subseteq DOMAIN Given /\ EventsInv
  BY Kinds DEF IInv, TypeInv
<1>2. DOMAIN NoTask = TaskFields /\ NoTask.new = {}
  BY DEF NoTask, TaskFields
<1>. USE DEF Goto, Answer, rows, GenerationPhases, Answers
<1>3. events' = events => EventsInv'
  BY <1>1 DEF EventsInv
<1>4. CASE WriteEvents(g)
  <2>1. PICK S \in SUBSET Sources :
           task' = [task EXCEPT ![g].new = UNION S \ DOMAIN events]
    BY <1>4 DEF WriteEvents
  <2>2. UNION S \ DOMAIN events \subseteq DOMAIN Given
    BY GivenAssumption
  <2>3. DOMAIN task'[g] = TaskFields /\ task'[g].new \subseteq DOMAIN Given
    BY <1>1, <2>1, <2>2 DEF TaskFields
  <2>. QED
    BY <1>1, <1>3, <1>4, <2>3 DEF WriteEvents
<1>5. CASE CommitEvents(g)
  <2>. DEFINE entry == [action |-> "TIMELINE_GENERATED", by |-> g]
  <2>1. EventsInv'
    BY <1>1, <1>5 DEF CommitEvents, EventsInv
  <2>2. Append(audit, entry) = audit \o <<entry>> /\ <<entry>> \in Seq({entry})
    BY <1>1 DEF IsTrail
  <2>3. audit' = Append(audit, entry)
    BY <1>5 DEF CommitEvents
  <2>. HIDE DEF entry
  <2>4. IsTrail(audit')
    BY <1>1, <2>2, <2>3, TrailGrows
  <2>. QED
    BY <1>1, <1>5, <2>1, <2>4 DEF CommitEvents
<1>6. CASE Reread(g) \/ Fault(g)
  BY <1>1, <1>2, <1>3, <1>6 DEF Reread, Fault
<1>. QED
  BY <1>4, <1>5, <1>6 DEF GenerationStep

\* Together: every step preserves the types.
LEMMA TypeStep ==
    ASSUME IInv, [FindingsNext]_findingsVars
    PROVE  TypeInv'
<1>1. TypeInv
  BY DEF IInv
<1>2. ASSUME NEW r \in Run, RunStep(r) PROVE TypeInv'
  <2>1. r \in Requests
    BY Kinds
  <2>2. /\ \A q \in Requests \ {r} : pc'[q] = pc[q] /\ out'[q] = out[q] /\ task'[q] = task[q]
        /\ DOMAIN task' = Requests
        /\ pc' \in [Requests -> Phases]
        /\ out' \in [Requests -> Answers \union {"error"}]
    BY <1>2, <2>1, Alone
  <2>3. IsTrail(audit') /\ EventsInv'
    BY <1>1, <1>2, RunTypes DEF TypeInv, EventsInv
  <2>4. out' \in [Requests -> Answers]
    BY <1>1, <1>2, <2>2, RunTypes DEF TypeInv
  <2>5. /\ pc'[r] \in RunPhases /\ DOMAIN task'[r] = TaskFields
    BY <1>2, RunTypes
  <2>6. /\ \A q \in Run : pc'[q] \in RunPhases
        /\ \A q \in Review : pc'[q] \in ReviewPhases
        /\ \A q \in Generation : pc'[q] \in GenerationPhases
    BY <1>1, <2>1, <2>2, <2>5, Kinds DEF TypeInv
  <2>7. /\ \A q \in Requests : DOMAIN task'[q] = TaskFields
        /\ \A q \in Generation : task'[q].new \subseteq DOMAIN Given
    BY <1>1, <2>1, <2>2, <2>5, Kinds DEF TypeInv
  <2>. QED
    BY <2>2, <2>3, <2>4, <2>6, <2>7 DEF TypeInv
<1>3. ASSUME NEW u \in Review, ReviewStep(u) PROVE TypeInv'
  <2>1. u \in Requests
    BY Kinds
  <2>2. /\ \A q \in Requests \ {u} : pc'[q] = pc[q] /\ out'[q] = out[q] /\ task'[q] = task[q]
        /\ DOMAIN task' = Requests
        /\ pc' \in [Requests -> Phases]
        /\ out' \in [Requests -> Answers \union {"error"}]
    BY <1>3, <2>1, Alone
  <2>3. IsTrail(audit') /\ EventsInv'
    BY <1>1, <1>3, ReviewTypes DEF TypeInv, EventsInv
  <2>4. out' \in [Requests -> Answers]
    BY <1>1, <1>3, <2>2, ReviewTypes DEF TypeInv
  <2>5. /\ pc'[u] \in ReviewPhases /\ DOMAIN task'[u] = TaskFields
    BY <1>3, ReviewTypes
  <2>6. /\ \A q \in Run : pc'[q] \in RunPhases
        /\ \A q \in Review : pc'[q] \in ReviewPhases
        /\ \A q \in Generation : pc'[q] \in GenerationPhases
    BY <1>1, <2>1, <2>2, <2>5, Kinds DEF TypeInv
  <2>7. /\ \A q \in Requests : DOMAIN task'[q] = TaskFields
        /\ \A q \in Generation : task'[q].new \subseteq DOMAIN Given
    BY <1>1, <2>1, <2>2, <2>5, Kinds DEF TypeInv
  <2>. QED
    BY <2>2, <2>3, <2>4, <2>6, <2>7 DEF TypeInv
<1>4. ASSUME NEW g \in Generation, GenerationStep(g) PROVE TypeInv'
  <2>1. g \in Requests
    BY Kinds
  <2>2. /\ \A q \in Requests \ {g} : pc'[q] = pc[q] /\ out'[q] = out[q] /\ task'[q] = task[q]
        /\ DOMAIN task' = Requests
        /\ pc' \in [Requests -> Phases]
        /\ out' \in [Requests -> Answers \union {"error"}]
    BY <1>4, <2>1, Alone
  <2>3. IsTrail(audit') /\ EventsInv'
    BY <1>1, <1>4, GenerationTypes DEF TypeInv, EventsInv
  <2>4. out' \in [Requests -> Answers]
    BY <1>1, <1>4, <2>2, GenerationTypes DEF TypeInv
  <2>5. /\ pc'[g] \in GenerationPhases /\ DOMAIN task'[g] = TaskFields
        /\ task'[g].new \subseteq DOMAIN Given
    BY <1>4, GenerationTypes
  <2>6. /\ \A q \in Run : pc'[q] \in RunPhases
        /\ \A q \in Review : pc'[q] \in ReviewPhases
        /\ \A q \in Generation : pc'[q] \in GenerationPhases
    BY <1>1, <2>1, <2>2, <2>5, Kinds DEF TypeInv
  <2>7. /\ \A q \in Requests : DOMAIN task'[q] = TaskFields
        /\ \A q \in Generation : task'[q].new \subseteq DOMAIN Given
    BY <1>1, <2>1, <2>2, <2>5, Kinds DEF TypeInv
  <2>. QED
    BY <2>2, <2>3, <2>4, <2>6, <2>7 DEF TypeInv
<1>5. CASE UNCHANGED findingsVars
  BY <1>1, <1>5 DEF TypeInv, EventsInv, findingsVars, rows, locks
<1>. QED
  BY <1>2, <1>3, <1>4, <1>5, NextSteps

-----------------------------------------------------------------------------
\* Runs

\* Nobody takes the case row from a run that evaluates.
LEMMA LockStep ==
    ASSUME IInv, [FindingsNext]_findingsVars
    PROVE  LockInv'
<1>1. LockInv /\ pc \in [Requests -> Phases] /\ Nobody \notin Run
  BY Kinds DEF IInv, TypeInv
<1>. SUFFICES ASSUME NEW q \in Run, pc'[q] \in Holding
              PROVE  lock' = q
  BY DEF LockInv
<1>2. q \in Requests
  BY Kinds
<1>. USE DEF Goto, Answer, Release, rows, locks, Holding
<1>3. ASSUME NEW r \in Run, RunStep(r) PROVE lock' = q
  <2>1. r \in Requests
    BY Kinds
  <2>2. CASE RunNotFound(r)
    BY <1>1, <1>2, <2>1, <2>2 DEF RunNotFound, LockInv
  <2>3. CASE LockCase(r)
    BY <1>1, <1>2, <2>1, <2>3 DEF LockCase, CanLock, LockInv
  <2>4. CASE Evaluate(r)
    BY <1>1, <1>2, <2>1, <2>4 DEF Evaluate, LockInv
  <2>5. CASE SkipExisting(r)
    BY <1>1, <1>2, <2>1, <2>5 DEF SkipExisting, LockInv
  <2>6. CASE FindNone(r)
    BY <1>1, <1>2, <2>1, <2>6 DEF FindNone, LockInv
  <2>7. CASE InsertMatch(r)
    BY <1>1, <1>2, <2>1, <2>7 DEF InsertMatch, LockInv
  <2>8. CASE CommitRun(r)
    BY <1>1, <1>2, <2>1, <2>8 DEF CommitRun, LockInv
  <2>9. CASE Reread(r)
    BY <1>1, <1>2, <2>1, <2>9 DEF Reread, LockInv
  <2>10. CASE Fault(r)
    BY <1>1, <1>2, <2>1, <2>10 DEF Fault, LockInv
  <2>. QED
    BY <1>3, <2>2, <2>3, <2>4, <2>5, <2>6, <2>7, <2>8, <2>9, <2>10 DEF RunStep
<1>4. ASSUME NEW u \in Review, ReviewStep(u) PROVE lock' = q
  <2>1. q # u /\ pc'[q] = pc[q]
    BY <1>2, <1>4, Alone, Kinds
  <2>2. lock = q
    BY <1>1, <2>1 DEF LockInv
  <2>. QED
    BY <1>4, <2>1, <2>2 DEF ReviewStep, LockFinding, ReviewNotFound, RejectReview, CommitReview,
                            Reread, Fault
<1>5. ASSUME NEW g \in Generation, GenerationStep(g) PROVE lock' = q
  <2>1. q # g /\ pc'[q] = pc[q]
    BY <1>2, <1>5, Alone, Kinds
  <2>2. lock = q
    BY <1>1, <2>1 DEF LockInv
  <2>. QED
    BY <1>5, <2>1, <2>2 DEF GenerationStep, WriteEvents, CommitEvents, Reread, Fault
<1>6. CASE UNCHANGED findingsVars
  BY <1>1, <1>6 DEF LockInv, findingsVars
<1>. QED
  BY <1>3, <1>4, <1>5, <1>6, NextSteps

\* While a run holds the case, nothing it has read changes.
LEMMA OthersWait ==
    ASSUME IInv, NEW r \in Run, pc[r] \in Holding, NEW q \in Requests, q # r,
           \/ q \in Run /\ RunStep(q)
           \/ q \in Review /\ ReviewStep(q)
           \/ q \in Generation /\ GenerationStep(q)
    PROVE  UNCHANGED <<events, matches, runs>>
<1>1. lock = r /\ lock # Nobody
  BY Kinds, SMTT(40) DEF IInv, LockInv
<1>. USE DEF rows
<1>2. CASE q \in Run /\ RunStep(q)
  <2>1. pc[q] \notin Holding
    BY <1>1, <1>2 DEF IInv, LockInv
  <2>. QED
    BY <1>1, <1>2, <2>1 DEF RunStep, RunNotFound, LockCase, CanLock, Evaluate, SkipExisting,
                            FindNone, InsertMatch, CommitRun, Reread, Fault, Holding
<1>3. CASE q \in Review /\ ReviewStep(q)
  BY <1>1, <1>3 DEF ReviewStep, LockFinding, ReviewNotFound, RejectReview, CommitReview,
                    Reread, Fault
<1>4. CASE q \in Generation /\ GenerationStep(q)
  BY <1>1, <1>4 DEF GenerationStep, WriteEvents, CommitEvents, Reread, Fault
<1>. QED
  BY <1>2, <1>3, <1>4

\* A step of a run preserves what is known of that run.
LEMMA OwnStep ==
    ASSUME IInv, NEW r \in Run, RunStep(r)
    PROVE  RunOK(r)'
<1>1. /\ pc \in [Requests -> Phases] /\ DOMAIN task = Requests /\ DOMAIN task[r] = TaskFields
      /\ r \in Requests /\ RunOK(r)
  BY Kinds DEF IInv, TypeInv, RunInv
<1>. USE DEF Goto, Answer, rows, Holding
<1>2. ASSUME pc'[r] \in {"committed", "done"} PROVE RunOK(r)'
  BY <1>2 DEF RunOK
<1>3. CASE RunNotFound(r) \/ CommitRun(r) \/ Reread(r) \/ Fault(r)
  BY <1>1, <1>2, <1>3 DEF RunNotFound, CommitRun, Reread, Fault
<1>4. CASE LockCase(r)
  <2>1. PICK w \in Windows : task' = [task EXCEPT ![r].window = w]
    BY <1>4 DEF LockCase
  <2>2. task'[r].window = w /\ task'[r].made = task[r].made
    BY <1>1, <2>1 DEF TaskFields
  <2>3. pc[r] = "idle" /\ pc'[r] = "locked" /\ runs' = runs
    BY <1>1, <1>4 DEF LockCase
  <2>. QED
    BY <1>1, <2>2, <2>3 DEF RunOK
<1>5. CASE Evaluate(r)
  <2>1. /\ task'[r].window = task[r].window /\ task'[r].made = task[r].made
        /\ task'[r].todo = Candidates(events, task[r].window)
    BY <1>1, <1>5 DEF Evaluate, TaskFields
  <2>2. /\ pc[r] = "locked" /\ pc'[r] = "checking"
        /\ runs' = runs /\ events' = events /\ matches' = matches
    BY <1>1, <1>5 DEF Evaluate
  <2>3. DOMAIN task'[r].made = {} /\ IsFiniteSet({})
    BY <1>1, <2>1, <2>2, FS_EmptySet DEF RunOK
  <2>4. Evaluated(r)'
    BY <2>1, <2>2, <2>3 DEF Evaluated
  <2>. QED
    BY <1>1, <2>1, <2>2, <2>4 DEF RunOK
<1>6. CASE SkipExisting(r)
  <2>1. /\ task'[r].window = task[r].window /\ task'[r].made = task[r].made
        /\ task'[r].todo = task[r].todo \ {NextCandidate(r)}
    BY <1>1, <1>6 DEF SkipExisting, TaskFields
  <2>2. /\ pc' = pc /\ pc[r] = "checking"
        /\ runs' = runs /\ events' = events /\ matches' = matches
        /\ MatchKey(NextCandidate(r), task[r].window)
             \in DOMAIN matches \union DOMAIN task[r].made
    BY <1>6 DEF SkipExisting, KeyOf
  <2>3. Evaluated(r)'
    BY <1>1, <2>1, <2>2 DEF Evaluated, RunOK
  <2>. QED
    BY <1>1, <2>1, <2>2, <2>3 DEF RunOK
<1>7. CASE FindNone(r)
  <2>1. /\ pc[r] = "checking" /\ pc'[r] = "inserting"
        /\ task' = task /\ runs' = runs /\ events' = events /\ matches' = matches
        /\ task[r].todo # {} /\ KeyOf(r) \notin DOMAIN matches \union DOMAIN task[r].made
    BY <1>1, <1>7 DEF FindNone
  <2>2. Evaluated(r)'
    BY <1>1, <2>1 DEF Evaluated, RunOK
  <2>. QED
    BY <1>1, <2>1, <2>2 DEF RunOK, KeyOf, NextCandidate
<1>8. CASE InsertMatch(r)
  <2>. DEFINE c == NextCandidate(r)
              w == task[r].window
              made == task[r].made
              match == [run |-> r, rule |-> c.rule, a |-> c.a, b |-> c.b]
  <2>1. /\ pc[r] = "inserting" /\ task[r].todo # {}
        /\ KeyOf(r) \notin DOMAIN matches \union DOMAIN made
    BY <1>1, <1>8 DEF RunOK, InsertMatch
  <2>2. c \in task[r].todo
    BY <2>1 DEF NextCandidate
  <2>3. /\ task' = [task EXCEPT
                      ![r].todo = @ \ {c},
                      ![r].made = [k \in DOMAIN @ \union {KeyOf(r)} |->
                                     IF k = KeyOf(r) THEN match ELSE @[k]]]
        /\ pc'[r] = "checking"
        /\ runs' = runs /\ events' = events /\ matches' = matches
    BY <1>1, <1>8, <2>1 DEF InsertMatch
  <2>4. /\ task'[r].window = w
        /\ task'[r].todo = task[r].todo \ {c}
        /\ task'[r].made = [k \in DOMAIN made \union {KeyOf(r)} |->
                              IF k = KeyOf(r) THEN match ELSE made[k]]
    BY <1>1, <2>3 DEF TaskFields
  <2>5. Evaluated(r)
    BY <1>1, <2>1 DEF RunOK
  <2>6. IsFiniteSet(DOMAIN task'[r].made)
    BY <2>4, <2>5, FS_AddElement DEF Evaluated
  <2>7. KeyOf(r) = MatchKey(c, w) /\ c \in Candidates(events, w)
    BY <2>2, <2>5 DEF KeyOf, Evaluated
  <2>8. Evaluated(r)'
    <3>1. task'[r].todo \subseteq Candidates(events', task'[r].window)
      BY <2>3, <2>4, <2>5 DEF Evaluated
    <3>2. \A d \in Candidates(events', task'[r].window) :
             \/ d \in task'[r].todo
             \/ MatchKey(d, task'[r].window) \in DOMAIN matches' \union DOMAIN task'[r].made
      <4>1. \A d \in Candidates(events, w) :
               d \in task[r].todo \/ MatchKey(d, w) \in DOMAIN matches \union DOMAIN made
        BY <2>5 DEF Evaluated
      <4>2. DOMAIN task'[r].made = DOMAIN made \union {KeyOf(r)}
        BY <2>4
      <4>. QED
        BY <2>3, <2>4, <2>7, <4>1, <4>2
    <3>3. \A k \in DOMAIN task'[r].made :
             /\ k \notin DOMAIN matches'
             /\ \E d \in Candidates(events', task'[r].window) :
                   /\ k = MatchKey(d, task'[r].window)
                   /\ task'[r].made[k] = [run |-> r, rule |-> d.rule, a |-> d.a, b |-> d.b]
      <4>1. \A k \in DOMAIN made :
               /\ k \notin DOMAIN matches
               /\ \E d \in Candidates(events, w) :
                     /\ k = MatchKey(d, w)
                     /\ made[k] = [run |-> r, rule |-> d.rule, a |-> d.a, b |-> d.b]
        BY <2>5 DEF Evaluated
      <4>2. /\ DOMAIN task'[r].made = DOMAIN made \union {KeyOf(r)}
            /\ task'[r].made[KeyOf(r)] = match
            /\ \A k \in DOMAIN made : k # KeyOf(r) => task'[r].made[k] = made[k]
        BY <2>4
      <4>3. KeyOf(r) \notin DOMAIN made /\ KeyOf(r) \notin DOMAIN matches
        BY <2>1
      <4>4. task'[r].window = w /\ events' = events /\ matches' = matches
        BY <2>3, <2>4
      <4>5. match = [run |-> r, rule |-> c.rule, a |-> c.a, b |-> c.b]
        OBVIOUS
      <4>. HIDE DEF c, made, w, match
      <4>6. ASSUME NEW k \in DOMAIN task'[r].made
            PROVE  /\ k \notin DOMAIN matches
                   /\ \E d \in Candidates(events, w) :
                         /\ k = MatchKey(d, w)
                         /\ task'[r].made[k] = [run |-> r, rule |-> d.rule, a |-> d.a, b |-> d.b]
        <5>1. CASE k = KeyOf(r)
          BY <2>7, <4>2, <4>3, <4>5, <5>1
        <5>2. CASE k # KeyOf(r)
          BY <4>1, <4>2, <5>2
        <5>. QED
          BY <5>1, <5>2
      <4>. QED
        BY <4>4, <4>6
    <3>. QED
      BY <2>6, <3>1, <3>2, <3>3 DEF Evaluated
  <2>. QED
    BY <1>1, <2>1, <2>3, <2>4, <2>8 DEF RunOK
<1>. QED
  BY <1>3, <1>4, <1>5, <1>6, <1>7, <1>8 DEF RunStep

\* Steps of the others do so, too.
LEMMA RunInvStep ==
    ASSUME IInv, [FindingsNext]_findingsVars
    PROVE  RunInv'
<1>. SUFFICES ASSUME NEW r \in Run PROVE RunOK(r)'
  BY DEF RunInv
<1>1. RunOK(r) /\ r \in Requests /\ pc[r] \in RunPhases
  BY Kinds DEF IInv, RunInv, TypeInv
<1>2. ASSUME NEW q \in Requests, q # r,
             \/ q \in Run /\ RunStep(q)
             \/ q \in Review /\ ReviewStep(q)
             \/ q \in Generation /\ GenerationStep(q)
      PROVE  RunOK(r)'
  <2>1. pc'[r] = pc[r] /\ task'[r] = task[r]
    BY <1>1, <1>2, Alone
  <2>2. CASE pc[r] \in Holding
    <3>1. events' = events /\ matches' = matches /\ runs' = runs
      BY <1>2, <2>2, OthersWait
    <3>2. Evaluated(r) <=> Evaluated(r)'
      BY <2>1, <3>1 DEF Evaluated
    <3>. QED
      BY <1>1, <2>1, <3>1, <3>2 DEF RunOK, KeyOf, NextCandidate
  <2>3. CASE pc[r] \notin Holding
    <3>1. r \in DOMAIN runs' => r \in DOMAIN runs
      <4>1. CommitRun(q) => DOMAIN runs' = DOMAIN runs \union {q}
        BY DEF CommitRun
      <4>2. CASE q \in Run /\ RunStep(q)
        BY <1>2, <4>1, <4>2 DEF RunStep, RunNotFound, LockCase, Evaluate, SkipExisting, FindNone,
                                InsertMatch, Reread, Fault, rows
      <4>3. CASE q \in Review /\ ReviewStep(q)
        BY <4>3 DEF ReviewStep, LockFinding, ReviewNotFound, RejectReview, CommitReview,
                    Reread, Fault, rows
      <4>4. CASE q \in Generation /\ GenerationStep(q)
        BY <4>4 DEF GenerationStep, WriteEvents, CommitEvents, Reread, Fault, rows
      <4>. QED
        BY <1>2, <4>2, <4>3, <4>4
    <3>. QED
      BY <1>1, <2>1, <2>3, <3>1 DEF RunOK, Holding
  <2>. QED
    BY <2>2, <2>3
<1>3. CASE UNCHANGED findingsVars
  <2>1. UNCHANGED <<events, matches, runs, pc, task>>
    BY <1>3 DEF findingsVars, rows
  <2>2. Evaluated(r) <=> Evaluated(r)'
    BY <2>1 DEF Evaluated
  <2>. QED
    BY <1>1, <2>1, <2>2 DEF RunOK, KeyOf, NextCandidate
<1>. QED
  BY <1>2, <1>3, OwnStep, NextSteps, Kinds

-----------------------------------------------------------------------------
\* Rows

\* Only two steps change matches, findings or runs.
LEMMA Writers ==
    ASSUME [FindingsNext]_findingsVars
    PROVE  \/ \E r \in Run : CommitRun(r)
           \/ \E u \in Review : CommitReview(u)
           \/ UNCHANGED <<matches, findings, runs>>
<1>. USE DEF rows
<1>1. ASSUME NEW r \in Run, RunStep(r)
      PROVE  CommitRun(r) \/ UNCHANGED <<matches, findings, runs>>
  BY <1>1 DEF RunStep, RunNotFound, LockCase, Evaluate, SkipExisting, FindNone, InsertMatch,
              Reread, Fault
<1>2. ASSUME NEW u \in Review, ReviewStep(u)
      PROVE  CommitReview(u) \/ UNCHANGED <<matches, findings, runs>>
  BY <1>2 DEF ReviewStep, LockFinding, ReviewNotFound, RejectReview, Reread, Fault
<1>3. ASSUME NEW g \in Generation, GenerationStep(g)
      PROVE  UNCHANGED <<matches, findings, runs>>
  BY <1>3 DEF GenerationStep, WriteEvents, CommitEvents, Reread, Fault
<1>. QED
  BY <1>1, <1>2, <1>3, NextSteps DEF findingsVars

\* What a run commits: new keys, each of a candidate of the committed events.
LEMMA Committed ==
    ASSUME IInv, NEW r \in Run, CommitRun(r)
    PROVE  LET made == task[r].made
               w == task[r].window
           IN  /\ w \in Windows /\ r \notin DOMAIN runs /\ EventsInv
               /\ DOMAIN made \intersect DOMAIN matches = {}
               /\ \A k \in DOMAIN made : \E c \in Candidates(events, w) :
                     /\ k = MatchKey(c, w)
                     /\ made[k] = [run |-> r, rule |-> c.rule, a |-> c.a, b |-> c.b]
               /\ \A c \in Candidates(events, w) : MatchKey(c, w) \in DOMAIN matches'
               /\ DOMAIN matches' = DOMAIN matches \union DOMAIN made
               /\ DOMAIN findings' = DOMAIN findings \union DOMAIN made
               /\ DOMAIN runs' = DOMAIN runs \union {r}
               /\ \A k \in DOMAIN made : matches'[k] = made[k] /\ findings'[k] = "OPEN"
               /\ \A k \in DOMAIN matches : matches'[k] = matches[k]
               /\ \A k \in DOMAIN findings \ DOMAIN made : findings'[k] = findings[k]
               /\ runs'[r].matched = Cardinality(DOMAIN made)
               /\ \A q \in DOMAIN runs : runs'[q] = runs[q]
<1>. DEFINE made == task[r].made
            w == task[r].window
<1>1. pc[r] = "checking" /\ task[r].todo = {} /\ RunOK(r) /\ Evaluated(r) /\ EventsInv
  BY DEF CommitRun, IInv, RunInv, RunOK, TypeInv
<1>2. w \in Windows /\ r \notin DOMAIN runs
  BY <1>1 DEF RunOK, Holding
<1>3. /\ \A k \in DOMAIN made :
            /\ k \notin DOMAIN matches
            /\ \E c \in Candidates(events, w) :
                  /\ k = MatchKey(c, w)
                  /\ made[k] = [run |-> r, rule |-> c.rule, a |-> c.a, b |-> c.b]
      /\ \A c \in Candidates(events, w) : MatchKey(c, w) \in DOMAIN matches \union DOMAIN made
  BY <1>1 DEF Evaluated
<1>4. /\ matches' = [k \in DOMAIN matches \union DOMAIN made |->
                        IF k \in DOMAIN made THEN made[k] ELSE matches[k]]
      /\ findings' = [k \in DOMAIN findings \union DOMAIN made |->
                         IF k \in DOMAIN made THEN "OPEN" ELSE findings[k]]
      /\ runs' = [q \in DOMAIN runs \union {r} |->
                     IF q = r
                     THEN [events |-> Cardinality(DOMAIN task[r].read),
                           matched |-> Cardinality(DOMAIN made),
                           found |-> Cardinality(DOMAIN made),
                           warnings |-> RegistryWarnings]
                     ELSE runs[q]]
  BY DEF CommitRun
<1>. HIDE DEF made, w
<1>5. /\ DOMAIN matches' = DOMAIN matches \union DOMAIN made
      /\ \A k \in DOMAIN made : matches'[k] = made[k]
      /\ \A k \in DOMAIN matches : matches'[k] = matches[k]
  BY <1>3, <1>4
<1>6. /\ DOMAIN findings' = DOMAIN findings \union DOMAIN made
      /\ \A k \in DOMAIN made : findings'[k] = "OPEN"
      /\ \A k \in DOMAIN findings \ DOMAIN made : findings'[k] = findings[k]
  BY <1>4
<1>7. /\ DOMAIN runs' = DOMAIN runs \union {r}
      /\ runs'[r].matched = Cardinality(DOMAIN made)
      /\ \A q \in DOMAIN runs : runs'[q] = runs[q]
  BY <1>2, <1>4
<1>. QED
  BY <1>1, <1>2, <1>3, <1>5, <1>6, <1>7 DEF made, w

\* A commit keeps runs, matches and findings together.
LEMMA RowsStep ==
    ASSUME IInv, [FindingsNext]_findingsVars
    PROVE  RowsInv'
<1>1. RowsInv /\ ReviewInv
  BY DEF IInv
<1>2. ASSUME NEW r \in Run, CommitRun(r) PROVE RowsInv'
  <2>. DEFINE made == task[r].made
              w == task[r].window
  <2>1. /\ w \in Windows /\ r \notin DOMAIN runs /\ EventsInv
        /\ DOMAIN made \intersect DOMAIN matches = {}
        /\ \A k \in DOMAIN made : \E c \in Candidates(events, w) :
              /\ k = MatchKey(c, w)
              /\ made[k] = [run |-> r, rule |-> c.rule, a |-> c.a, b |-> c.b]
        /\ DOMAIN matches' = DOMAIN matches \union DOMAIN made
        /\ DOMAIN findings' = DOMAIN findings \union DOMAIN made
        /\ DOMAIN runs' = DOMAIN runs \union {r}
        /\ \A k \in DOMAIN made : matches'[k] = made[k] /\ findings'[k] = "OPEN"
        /\ \A k \in DOMAIN matches : matches'[k] = matches[k]
        /\ \A k \in DOMAIN findings \ DOMAIN made : findings'[k] = findings[k]
        /\ runs'[r].matched = Cardinality(DOMAIN made)
        /\ \A q \in DOMAIN runs : runs'[q] = runs[q]
    BY <1>2, Committed
  <2>. HIDE DEF made, w
  <2>2. \A k \in DOMAIN made : made[k].run = r
    BY <2>1
  <2>3. DOMAIN findings' = DOMAIN matches'
    BY <1>1, <2>1 DEF RowsInv
  <2>4. \A k \in DOMAIN matches' : matches'[k].run \in DOMAIN runs'
    BY <1>1, <2>1, <2>2 DEF RowsInv
  <2>5. \A k \in DOMAIN findings' : findings'[k] \in Statuses
    BY <1>1, <2>1 DEF RowsInv, Statuses
  <2>6. ASSUME NEW q \in DOMAIN runs'
        PROVE  runs'[q].matched = Cardinality({k \in DOMAIN matches' : matches'[k].run = q})
    <3>1. CASE q = r
      <4>1. {k \in DOMAIN matches' : matches'[k].run = q} = DOMAIN made
        <5>1. \A k \in DOMAIN matches : matches'[k].run # q
          BY <1>1, <2>1, <3>1 DEF RowsInv
        <5>2. \A k \in DOMAIN made : matches'[k].run = q
          BY <2>1, <2>2, <3>1
        <5>. QED
          BY <2>1, <5>1, <5>2
      <4>. QED
        BY <2>1, <3>1, <4>1
    <3>2. CASE q # r
      <4>1. {k \in DOMAIN matches' : matches'[k].run = q}
              = {k \in DOMAIN matches : matches[k].run = q}
        BY <1>1, <2>1, <2>2, <3>2 DEF RowsInv
      <4>. QED
        BY <1>1, <2>1, <3>2, <4>1 DEF RowsInv
    <3>. QED
      BY <3>1, <3>2
  <2>7. KeysInv'
    <3>. SUFFICES ASSUME NEW k \in DOMAIN matches'
                  PROVE  LET m == matches'[k]
                         IN  /\ m.a \in DOMAIN Given /\ m.b \in DOMAIN Given
                             /\ Given[m.a].type = "EVTX" /\ Given[m.b].type # "EVTX"
                             /\ k = MatchKey(Shape(m.rule, m.a, m.b), 0)
      BY DEF KeysInv
    <3>1. CASE k \in DOMAIN matches
      BY <1>1, <2>1, <3>1 DEF RowsInv, KeysInv
    <3>2. CASE k \in DOMAIN made
      <4>1. PICK c \in Candidates(events, w) :
               /\ k = MatchKey(c, w)
               /\ matches'[k] = [run |-> r, rule |-> c.rule, a |-> c.a, b |-> c.b]
        BY <2>1, <3>2
      <4>2. /\ c.a \in DOMAIN Given /\ c.b \in DOMAIN Given
            /\ Given[c.a].type = "EVTX" /\ Given[c.b].type # "EVTX"
            /\ c = Shape(c.rule, c.a, c.b)
        BY <2>1, CandidateOfPair DEF EventsInv
      <4>3. MatchKey(c, w) = MatchKey(c, 0)
        BY DEF MatchKey
      <4>. QED
        BY <4>1, <4>2, <4>3
    <3>. QED
      BY <2>1, <3>1, <3>2
  <2>. QED
    BY <2>3, <2>4, <2>5, <2>6, <2>7 DEF RowsInv
<1>3. ASSUME NEW u \in Review, CommitReview(u) PROVE RowsInv'
  <2>1. matches' = matches /\ runs' = runs /\ KeysInv'
    BY <1>1, <1>3 DEF CommitReview, RowsInv, KeysInv
  <2>2. Moves(u) => task[u].status \in Statuses
    BY <1>1, <1>3 DEF CommitReview, ReviewInv, Moves
  <2>3. DOMAIN findings' = DOMAIN findings /\ \A k \in DOMAIN findings' : findings'[k] \in Statuses
    BY <1>1, <1>3, <2>2 DEF CommitReview, RowsInv
  <2>. QED
    BY <1>1, <2>1, <2>3 DEF RowsInv
<1>4. CASE UNCHANGED <<matches, findings, runs>>
  BY <1>1, <1>4 DEF RowsInv, KeysInv
<1>. QED
  BY <1>2, <1>3, <1>4, Writers

-----------------------------------------------------------------------------
\* Reviews

\* A review keeps what it has read: nobody else changes its finding.
LEMMA ReviewStepInv ==
    ASSUME IInv, [FindingsNext]_findingsVars
    PROVE  ReviewInv'
<1>1. /\ ReviewInv /\ DOMAIN findings = DOMAIN matches
      /\ pc \in [Requests -> Phases] /\ DOMAIN task = Requests
      /\ \A q \in Requests : DOMAIN task[q] = TaskFields
  BY DEF IInv, TypeInv, RowsInv
<1>. DEFINE Holds(u) == /\ <<task[u].finding, u>> \in findingLock
                        /\ task[u].finding \in DOMAIN findings
                        /\ task[u].seen = findings[task[u].finding]
                        /\ task[u].status \in Statuses \union {None}
            Exclusive == \A l, m \in findingLock : l[1] = m[1] => l = m
<1>2. ReviewInv <=> Exclusive /\ \A u \in Review : pc[u] = "review" => Holds(u)
  BY DEF ReviewInv
<1>3. \A r : Release(r) => findingLock' = {l \in findingLock : l[2] # r}
  BY SMTT(40) DEF Release
<1>. USE DEF Goto, Answer, rows, locks
\* Other than LockFinding, steps only release locks of their own.
<1>4. ASSUME NEW q \in Requests, RunStep(q) \/ ReviewStep(q) \/ GenerationStep(q),
             ~LockFinding(q)
      PROVE  findingLock' = findingLock \/ findingLock' = {l \in findingLock : l[2] # q}
  BY <1>3, <1>4 DEF RunStep, ReviewStep, GenerationStep, RunNotFound, LockCase, Evaluate,
        SkipExisting, FindNone, InsertMatch, CommitRun, Reread, Fault, ReviewNotFound,
        RejectReview, CommitReview, WriteEvents, CommitEvents
<1>5. ASSUME NEW u \in Review, LockFinding(u)
      PROVE  Exclusive' /\ Holds(u)' /\ findingLock \subseteq findingLock' /\ findings' = findings
  <2>1. PICK f \in DOMAIN findings, st \in Statuses \union {None} :
           /\ \A l \in findingLock : l[1] # f
           /\ findingLock' = findingLock \union {<<f, u>>}
           /\ task' = [task EXCEPT ![u].finding = f, ![u].seen = findings[f], ![u].status = st]
    BY <1>5 DEF LockFinding
  <2>2. task'[u].finding = f /\ task'[u].seen = findings[f] /\ task'[u].status = st
    BY <1>1, <2>1, Kinds DEF TaskFields
  <2>3. findings' = findings
    BY <1>5 DEF LockFinding
  <2>. QED
    BY <1>1, <1>2, <2>1, <2>2, <2>3
<1>6. ASSUME NEW q \in Requests,
             \/ q \in Run /\ RunStep(q)
             \/ q \in Review /\ ReviewStep(q)
             \/ q \in Generation /\ GenerationStep(q),
             NEW v \in Review, v # q, pc'[v] = "review"
      PROVE  Holds(v)'
  <2>1. v \in Requests /\ pc[v] = "review" /\ task'[v] = task[v]
    BY <1>6, Alone, Kinds
  <2>2. Holds(v)
    BY <1>1, <1>2, <2>1
  <2>3. <<task[v].finding, v>> \in findingLock'
    <3>1. CASE LockFinding(q)
      BY <2>2, <3>1 DEF LockFinding
    <3>2. CASE ~LockFinding(q)
      <4>1. <<task[v].finding, v>>[2] # q
        BY <1>6
      <4>. QED
        BY <1>4, <1>6, <2>2, <3>2, <4>1
    <3>. QED
      BY <3>1, <3>2
  <2>4. /\ task[v].finding \in DOMAIN findings'
        /\ findings'[task[v].finding] = findings[task[v].finding]
    <3>1. CASE q \in Run /\ CommitRun(q)
      BY <1>1, <2>2, <3>1, Committed
    <3>2. CASE q \in Review /\ CommitReview(q)
      <4>1. pc[q] = "review" /\ Holds(q)
        BY <1>1, <1>2, <3>2 DEF CommitReview
      <4>2. task[q].finding # task[v].finding
        <5>1. CASE task[q].finding = task[v].finding
          <6>. DEFINE l == <<task[q].finding, q>>
                      m == <<task[v].finding, v>>
          <6>1. l = m
            BY <1>1, <1>2, <2>2, <4>1, <5>1
          <6>. QED
            BY <1>6, <6>1
        <5>. QED
          BY <5>1
      <4>. QED
        BY <2>2, <3>2, <4>2 DEF CommitReview
    <3>3. CASE ~(q \in Run /\ CommitRun(q)) /\ ~(q \in Review /\ CommitReview(q))
      <4>1. findings' = findings
        BY <1>6, <3>3 DEF RunStep, ReviewStep, GenerationStep, RunNotFound, LockCase, Evaluate,
              SkipExisting, FindNone, InsertMatch, Reread, Fault, LockFinding, ReviewNotFound,
              RejectReview, WriteEvents, CommitEvents
      <4>. QED
        BY <2>2, <4>1
    <3>. QED
      BY <3>1, <3>2, <3>3
  <2>. QED
    BY <2>1, <2>2, <2>3, <2>4
<1>7. ASSUME NEW u \in Review, ReviewStep(u), pc'[u] = "review"
      PROVE  LockFinding(u)
  BY <1>1, <1>7, Kinds DEF ReviewStep, ReviewNotFound, RejectReview, CommitReview, Reread, Fault
<1>8. ASSUME NEW q \in Requests,
             \/ q \in Run /\ RunStep(q)
             \/ q \in Review /\ ReviewStep(q)
             \/ q \in Generation /\ GenerationStep(q)
      PROVE  ReviewInv'
  <2>1. Exclusive'
    <3>1. CASE q \in Review /\ LockFinding(q)
      BY <1>5, <3>1
    <3>2. CASE ~(q \in Review /\ LockFinding(q))
      <4>1. findingLock' \subseteq findingLock
        BY <1>3, <1>8, <3>2 DEF RunStep, ReviewStep, GenerationStep, RunNotFound, LockCase,
              Evaluate, SkipExisting, FindNone, InsertMatch, CommitRun, Reread, Fault, ReviewNotFound,
              RejectReview, CommitReview, WriteEvents, CommitEvents
      <4>. QED
        BY <1>1, <1>2, <4>1
    <3>. QED
      BY <3>1, <3>2
  <2>2. ASSUME NEW v \in Review, pc'[v] = "review"
        PROVE  Holds(v)'
    <3>1. CASE v = q
      BY <1>5, <1>7, <1>8, <2>2, <3>1, Kinds
    <3>2. CASE v # q
      BY <1>6, <1>8, <2>2, <3>2
    <3>. QED
      BY <3>1, <3>2
  <2>. QED
    BY <2>1, <2>2 DEF ReviewInv
<1>9. CASE UNCHANGED findingsVars
  BY <1>1, <1>9 DEF ReviewInv, findingsVars
<1>. QED
  BY <1>8, <1>9, NextSteps, Kinds

-----------------------------------------------------------------------------
\* Theorems

\* Every step preserves the invariant.
LEMMA IInvStep == IInv /\ [FindingsNext]_findingsVars => IInv'
  BY TypeStep, LockStep, RunInvStep, RowsStep, ReviewStepInv DEF IInv

\* The strengthening the other theorems rest on: the case row is held by at
\* most one evaluating run, whose candidates and matches fit the rows.
THEOREM FindingsInvariant == FindingsSpec => []IInv
<1>1. FindingsInit => IInv
  BY InitIInv
<1>2. IInv /\ [FindingsNext]_findingsVars => IInv'
  BY IInvStep
<1>. QED
  BY <1>1, <1>2, PTL DEF FindingsSpec

\* No correlation run ever fails because another one stored the same match:
\* the row lock of the case keeps them apart (CorrelationService.run).
THEOREM NoCollision == FindingsSpec => []RunsNeverCollide
<1>1. IInv => RunsNeverCollide
  BY Kinds DEF IInv, TypeInv, RunsNeverCollide, Answers
<1>. QED
  BY <1>1, FindingsInvariant, PTL

\* Two matches of the same rule and pair of events are the same.
LEMMA OneMatchPerPair ==
    ASSUME KeysInv, NEW j \in DOMAIN matches, NEW k \in DOMAIN matches,
           matches[j].rule = matches[k].rule,
           {matches[j].a, matches[j].b} = {matches[k].a, matches[k].b}
    PROVE  /\ matches[j].a = matches[k].a /\ matches[j].b = matches[k].b
           /\ j = k
<1>1. matches[j].a = matches[k].a /\ matches[j].b = matches[k].b
  BY DEF KeysInv
<1>. QED
  BY <1>1 DEF KeysInv

\* Runs, matches and findings fit together, and no pair of events has two
\* matches by the same rule (CorrelationService.run, _match_key).
THEOREM Consistent == FindingsSpec => []FindingsConsistent
<1>1. IInv => FindingsConsistent
  BY OneMatchPerPair DEF IInv, RowsInv, FindingsConsistent
<1>. QED
  BY <1>1, FindingsInvariant, PTL

\* A run on record has a match for exactly the related pairs of the events
\* committed at that moment (rules.py; CorrelationService.run).
THEOREM NothingMissed == FindingsSpec => RunMissesNothing
<1>. DEFINE Exact ==
       \A r \in Run : r \in DOMAIN runs' \ DOMAIN runs =>
         /\ \A a, b \in DOMAIN events : Related(events[a], events[b], task[r].window) =>
               \E k \in DOMAIN matches' : matches'[k].a = a /\ matches'[k].b = b
         /\ \A k \in DOMAIN matches' \ DOMAIN matches :
               Related(events[matches'[k].a], events[matches'[k].b], task[r].window)
<1>1. ASSUME IInv, [FindingsNext]_findingsVars PROVE Exact
  <2>. SUFFICES ASSUME NEW r \in Run, r \in DOMAIN runs' \ DOMAIN runs
                PROVE  /\ \A a, b \in DOMAIN events :
                            Related(events[a], events[b], task[r].window) =>
                               \E k \in DOMAIN matches' : matches'[k].a = a /\ matches'[k].b = b
                       /\ \A k \in DOMAIN matches' \ DOMAIN matches :
                            Related(events[matches'[k].a], events[matches'[k].b], task[r].window)
    OBVIOUS
  <2>. DEFINE made == task[r].made
              w == task[r].window
  <2>1. CommitRun(r)
    <3>1. ASSUME NEW q \in Run, CommitRun(q) PROVE q = r
      BY <1>1, <3>1, Committed
    <3>2. ASSUME NEW u \in Review, CommitReview(u) PROVE FALSE
      BY <3>2 DEF CommitReview
    <3>. QED
      BY <1>1, <3>1, <3>2, Writers
  <2>2. /\ w \in Windows /\ EventsInv
        /\ \A k \in DOMAIN made : \E c \in Candidates(events, w) :
              /\ k = MatchKey(c, w)
              /\ made[k] = [run |-> r, rule |-> c.rule, a |-> c.a, b |-> c.b]
        /\ \A c \in Candidates(events, w) : MatchKey(c, w) \in DOMAIN matches'
        /\ DOMAIN matches' = DOMAIN matches \union DOMAIN made
        /\ \A k \in DOMAIN made : matches'[k] = made[k]
    BY <1>1, <2>1, Committed
  <2>3. KeysInv'
    BY <1>1, RowsStep DEF RowsInv
  <2>. HIDE DEF made, w
  <2>4. ASSUME NEW a \in DOMAIN events, NEW b \in DOMAIN events,
               Related(events[a], events[b], w)
        PROVE  \E k \in DOMAIN matches' : matches'[k].a = a /\ matches'[k].b = b
    <3>1. PICK c \in Candidates(events, w) : c.a = a /\ c.b = b
      BY <2>2, <2>4, CandidatesAreRelated
    <3>. DEFINE k == MatchKey(c, w)
                m == matches'[k]
    <3>2. k \in DOMAIN matches'
      BY <2>2
    <3>3. /\ Given[m.a].type = "EVTX" /\ Given[m.b].type # "EVTX"
          /\ k = MatchKey(Shape(m.rule, m.a, m.b), 0)
      BY <2>3, <3>2 DEF KeysInv
    <3>4. Given[c.a].type = "EVTX" /\ Given[c.b].type # "EVTX"
      BY <2>2, CandidateOfPair
    <3>5. Shape(m.rule, m.a, m.b).a = m.a /\ Shape(m.rule, m.a, m.b).b = m.b
      BY SMTT(40) DEF Shape, ByPath, Candidate
    <3>6. {m.a, m.b} = {c.a, c.b}
      BY <3>3, <3>5 DEF MatchKey
    <3>7. m.a = a /\ m.b = b
      BY <3>1, <3>3, <3>4, <3>6
    <3>. QED
      BY <3>2, <3>7
  <2>5. ASSUME NEW k \in DOMAIN matches' \ DOMAIN matches
        PROVE  Related(events[matches'[k].a], events[matches'[k].b], w)
    <3>1. PICK c \in Candidates(events, w) : matches'[k].a = c.a /\ matches'[k].b = c.b
      BY <2>2
    <3>2. c.a \in DOMAIN events /\ c.b \in DOMAIN events
      BY <2>2, CandidateOfPair
    <3>. QED
      BY <2>2, <3>1, <3>2, CandidatesAreRelated
  <2>. QED
    BY <2>4, <2>5 DEF w
<1>. QED
  BY <1>1, FindingsInvariant, PTL DEF FindingsSpec, RunMissesNothing

\* The moves that a trail tells, numbered as its entries.
ChangesOf(s) == {i \in DOMAIN s : s[i].action = "FINDING_STATUS_CHANGED"}

MoveOf(e) == [finding |-> e.finding, from |-> e.from, to |-> e.to]

MovesOf(s) == [i \in ChangesOf(s) |-> MoveOf(s[i])]

\* One more entry.
LEMMA AddEntry ==
    ASSUME NEW s, IsTrail(s), NEW x
    PROVE  /\ IsTrail(s \o <<x>>)
           /\ Len(s) \in Nat /\ DOMAIN s = 1..Len(s)
           /\ DOMAIN (s \o <<x>>) = DOMAIN s \union {Len(s) + 1}
           /\ Len(s) + 1 \notin DOMAIN s /\ \A i \in DOMAIN s : i < Len(s) + 1
           /\ \A i \in DOMAIN s : (s \o <<x>>)[i] = s[i]
           /\ (s \o <<x>>)[Len(s) + 1] = x
<1>. DEFINE t == <<x>>
            u == s \o t
<1>1. t \in Seq({x}) /\ Len(t) = 1 /\ t[1] = x /\ 1 \in 1..Len(t)
  OBVIOUS
<1>. HIDE DEF t
<1>2. PICK T : t \in Seq(T)
  BY <1>1
<1>3. /\ IsTrail(u) /\ DOMAIN s = 1..Len(s) /\ Len(s) \in Nat
      /\ DOMAIN u = 1..(Len(s) + Len(t))
      /\ \A i \in DOMAIN s : u[i] = s[i]
      /\ \A i \in 1..Len(t) : u[Len(s) + i] = t[i]
  BY <1>2, TrailGrows
<1>. HIDE DEF u
<1>4. DOMAIN u = DOMAIN s \union {Len(s) + 1} /\ u[Len(s) + 1] = x
  BY <1>1, <1>3
<1>. QED
  BY <1>3, <1>4 DEF t, u

\* Entries that tell no move leave the moves as they are.
LEMMA OtherEntries ==
    ASSUME NEW s, IsTrail(s), NEW T, NEW t \in Seq(T),
           \A i \in 1..Len(t) : t[i].action # "FINDING_STATUS_CHANGED"
    PROVE  MovesOf(s \o t) = MovesOf(s) /\ IsTrail(s \o t)
<1>. DEFINE u == s \o t
<1>1. /\ DOMAIN s = 1..Len(s) /\ Len(s) \in Nat /\ Len(t) \in Nat
      /\ DOMAIN u = 1..(Len(s) + Len(t)) /\ IsTrail(u)
      /\ \A i \in DOMAIN s : u[i] = s[i]
      /\ \A i \in 1..Len(t) : u[Len(s) + i] = t[i]
  BY TrailGrows
<1>. HIDE DEF u
<1>2. ASSUME NEW i \in DOMAIN u, i \notin DOMAIN s
      PROVE  u[i].action # "FINDING_STATUS_CHANGED"
  <2>1. i - Len(s) \in 1..Len(t) /\ i = Len(s) + (i - Len(s))
    BY <1>1, <1>2
  <2>. QED
    BY <1>1, <2>1
<1>3. DOMAIN s \subseteq DOMAIN u
  BY <1>1
<1>4. ChangesOf(u) = ChangesOf(s)
  BY <1>1, <1>2, <1>3 DEF ChangesOf
<1>5. \A i \in ChangesOf(s) : u[i] = s[i]
  BY <1>1 DEF ChangesOf
<1>6. MovesOf(u) = MovesOf(s)
  BY <1>4, <1>5 DEF MovesOf
<1>. QED
  BY <1>1, <1>6 DEF u

\* An entry that tells a move adds it, with a greater number.
LEMMA MoveEntry ==
    ASSUME NEW s, IsTrail(s), NEW y, y.action = "FINDING_STATUS_CHANGED"
    PROVE  LET n == Len(s) + 1
           IN  /\ \A i \in DOMAIN MovesOf(s) : i < n
               /\ n \in DOMAIN MovesOf(s \o <<y>>)
               /\ MovesOf(s \o <<y>>)
                    = [i \in DOMAIN MovesOf(s) \union {n} |->
                         IF i = n THEN MoveOf(y) ELSE MovesOf(s)[i]]
<1>. DEFINE n == Len(s) + 1
            u == s \o <<y>>
<1>1. /\ DOMAIN u = DOMAIN s \union {n} /\ n \notin DOMAIN s
      /\ \A i \in DOMAIN s : i < n
      /\ \A i \in DOMAIN s : u[i] = s[i]
      /\ u[n] = y
  BY AddEntry
<1>. HIDE DEF n, u
<1>2. ChangesOf(u) = ChangesOf(s) \union {n}
  BY <1>1 DEF ChangesOf
<1>3. \A i \in ChangesOf(s) : i < n /\ i # n /\ u[i] = s[i]
  BY <1>1 DEF ChangesOf
<1>4. DOMAIN MovesOf(s) = ChangesOf(s) /\ \A i \in ChangesOf(s) : MovesOf(s)[i] = MoveOf(s[i])
  BY DEF MovesOf
<1>5. MovesOf(u) = [i \in ChangesOf(s) \union {n} |-> MoveOf(u[i])]
  BY <1>2 DEF MovesOf
<1>6. MovesOf(u) = [i \in ChangesOf(s) \union {n} |->
                      IF i = n THEN MoveOf(y) ELSE MovesOf(s)[i]]
  BY <1>1, <1>3, <1>4, <1>5
<1>. QED
  BY <1>2, <1>3, <1>4, <1>5, <1>6 DEF n, u

\* The history that FindingReview sees, before and after a step.
LEMMA HistoryIsMoves ==
    /\ [i \in Changes |-> Moved(i)] = MovesOf(audit)
    /\ [i \in Changes |-> Moved(i)]' = MovesOf(audit')
  BY DEF Changes, Moved, MovesOf, MoveOf, ChangesOf

\* Reviews and runs, in any order and with any faults, are a review of
\* findings as FindingReview promises it, told move by move by the audit trail.
THEOREM Refinement == FindingsSpec => ImplementsReview
<1>1. FindingsInit => ReviewLog!Init
  BY DEF FindingsInit, ReviewLog!Init, Changes
<1>2. ASSUME IInv, [FindingsNext]_findingsVars
      PROVE  [ReviewLog!Next]_ReviewLog!reviewVars
  <2>1. IsTrail(audit) /\ ReviewInv /\ DOMAIN findings = DOMAIN matches
    BY <1>2 DEF IInv, TypeInv, RowsInv
  <2>2. ASSUME findings' = findings, MovesOf(audit') = MovesOf(audit)
        PROVE  UNCHANGED ReviewLog!reviewVars
    BY <2>2, HistoryIsMoves DEF ReviewLog!reviewVars
  <2>3. ASSUME NEW r \in Run, CommitRun(r)
        PROVE  ReviewLog!Create
    <3>. DEFINE n == Cardinality(DOMAIN task[r].made)
                entry == [action |-> "FINDING_CREATED", by |-> r]
                created == [k \in 1..n |-> entry]
                last == [action |-> "CORRELATION_RUN", by |-> r]
    <3>1. n \in Nat /\ audit' = audit \o created \o <<last>>
      BY <1>2, <2>3, FS_CardinalityType DEF CommitRun, IInv, RunInv, RunOK, Evaluated
    <3>. HIDE DEF n
    <3>2. /\ created \in Seq({entry})
          /\ \A i \in 1..Len(created) : created[i].action # "FINDING_STATUS_CHANGED"
      BY <3>1
    <3>3. /\ <<last>> \in Seq({last})
          /\ \A i \in 1..Len(<<last>>) : <<last>>[i].action # "FINDING_STATUS_CHANGED"
      OBVIOUS
    <3>. HIDE DEF created, last
    <3>4. MovesOf(audit \o created) = MovesOf(audit) /\ IsTrail(audit \o created)
      BY <2>1, <3>2, OtherEntries
    <3>5. MovesOf(audit') = MovesOf(audit)
      BY <3>1, <3>3, <3>4, OtherEntries
    <3>. DEFINE made == DOMAIN task[r].made
    <3>6. /\ findings' = [f \in DOMAIN findings \union made |->
                            IF f \in made THEN "OPEN" ELSE findings[f]]
          /\ made \intersect DOMAIN findings = {}
      BY <1>2, <2>1, <2>3, Committed DEF CommitRun
    <3>. HIDE DEF made
    <3>7. DOMAIN findings' = DOMAIN findings \union made
      BY <3>6
    <3>8. findings' = [f \in DOMAIN findings' |->
                         IF f \in DOMAIN findings THEN findings[f] ELSE "OPEN"]
      BY <3>6, <3>7
    <3>. QED
      BY <3>5, <3>7, <3>8, HistoryIsMoves DEF ReviewLog!Create
  <2>4. ASSUME NEW u \in Review, CommitReview(u)
        PROVE  ReviewLog!Move \/ UNCHANGED ReviewLog!reviewVars
    <3>. DEFINE f == task[u].finding
                updated == [action |-> "FINDING_UPDATED", by |-> u]
                changed == [action |-> "FINDING_STATUS_CHANGED", by |-> u, finding |-> f,
                            from |-> task[u].seen, to |-> task[u].status]
    <3>1. /\ audit' = audit \o <<updated>> \o (IF Moves(u) THEN <<changed>> ELSE <<>>)
          /\ findings' = IF Moves(u) THEN [findings EXCEPT ![f] = task[u].status] ELSE findings
          /\ Moves(u) => task[u].status \in ValidTransitions(task[u].seen)
          /\ f \in DOMAIN findings /\ task[u].seen = findings[f]
      BY <2>1, <2>4 DEF CommitReview, ReviewInv
    <3>2. /\ <<updated>> \in Seq({updated})
          /\ \A i \in 1..Len(<<updated>>) : <<updated>>[i].action # "FINDING_STATUS_CHANGED"
          /\ changed.action = "FINDING_STATUS_CHANGED"
          /\ MoveOf(changed) = [finding |-> f, from |-> task[u].seen, to |-> task[u].status]
      BY DEF MoveOf
    <3>. HIDE DEF updated, changed
    <3>3. MovesOf(audit \o <<updated>>) = MovesOf(audit) /\ IsTrail(audit \o <<updated>>)
      BY <2>1, <3>2, OtherEntries
    <3>4. CASE ~Moves(u)
      <4>1. <<>> \in Seq({}) /\ Len(<<>>) = 0
        OBVIOUS
      <4>2. audit' = audit \o <<updated>> \o <<>>
        BY <3>1, <3>4
      <4>3. MovesOf(audit') = MovesOf(audit)
        BY <3>3, <4>1, <4>2, OtherEntries
      <4>. QED
        BY <2>2, <3>1, <3>4, <4>3
    <3>5. CASE Moves(u)
      <4>. DEFINE s == audit \o <<updated>>
                  t == <<task[u].seen, task[u].status>>
                  n == Len(s) + 1
      <4>1. audit' = s \o <<changed>>
        BY <3>1, <3>5
      <4>2. t \in ReviewLog!Transitions /\ t[1] = findings[f] /\ t[2] = task[u].status
        BY <3>1, <3>5 DEF ReviewLog!Transitions, ValidTransitions
      <4>3. findings' = [findings EXCEPT ![f] = t[2]]
        BY <3>1, <3>5, <4>2
      <4>4. MovesOf(s) = MovesOf(audit) /\ IsTrail(s)
        BY <3>3
      <4>5. MoveOf(changed) = [finding |-> f, from |-> t[1], to |-> t[2]]
        BY <3>2
      <4>. HIDE DEF s
      <4>6. /\ \A i \in DOMAIN MovesOf(s) : i < n
            /\ n \in DOMAIN MovesOf(audit')
            /\ MovesOf(audit') = [i \in DOMAIN MovesOf(s) \union {n} |->
                                    IF i = n THEN MoveOf(changed) ELSE MovesOf(s)[i]]
        BY <3>2, <4>1, <4>4, MoveEntry
      <4>. HIDE DEF n, t, f
      <4>. DEFINE h == [i \in Changes |-> Moved(i)]
      <4>7. h = MovesOf(audit) /\ h' = MovesOf(audit')
        BY HistoryIsMoves
      <4>. HIDE DEF h
      <4>8. /\ n \in DOMAIN h' /\ \A i \in DOMAIN h : i < n
            /\ h' = [i \in DOMAIN h \union {n} |->
                       IF i = n THEN [finding |-> f, from |-> t[1], to |-> t[2]] ELSE h[i]]
        BY <4>4, <4>5, <4>6, <4>7
      <4>9. \E m \in DOMAIN h' :
               /\ \A i \in DOMAIN h : i < m
               /\ h' = [i \in DOMAIN h \union {m} |->
                          IF i = m THEN [finding |-> f, from |-> t[1], to |-> t[2]] ELSE h[i]]
        BY <4>8
      <4>10. \E g \in DOMAIN findings : \E v \in ReviewLog!Transitions :
                /\ findings[g] = v[1]
                /\ findings' = [findings EXCEPT ![g] = v[2]]
                /\ \E m \in DOMAIN h' :
                      /\ \A i \in DOMAIN h : i < m
                      /\ h' = [i \in DOMAIN h \union {m} |->
                                 IF i = m THEN [finding |-> g, from |-> v[1], to |-> v[2]]
                                 ELSE h[i]]
        BY <3>1, <4>2, <4>3, <4>9
      <4>. QED
        BY <4>10 DEF ReviewLog!Move, h
    <3>. QED
      BY <3>4, <3>5
  <2>5. CASE UNCHANGED <<findings, audit>>
    BY <2>2, <2>5
  <2>6. ASSUME NEW g \in Generation, CommitEvents(g)
        PROVE  UNCHANGED ReviewLog!reviewVars
    <3>. DEFINE entry == [action |-> "TIMELINE_GENERATED", by |-> g]
    <3>1. audit' = audit \o <<entry>> /\ findings' = findings
      BY <2>1, <2>6 DEF CommitEvents, IsTrail
    <3>2. /\ <<entry>> \in Seq({entry})
          /\ \A i \in 1..Len(<<entry>>) : <<entry>>[i].action # "FINDING_STATUS_CHANGED"
      OBVIOUS
    <3>. HIDE DEF entry
    <3>3. MovesOf(audit') = MovesOf(audit)
      BY <2>1, <3>1, <3>2, OtherEntries
    <3>. QED
      BY <2>2, <3>1, <3>3
  <2>7. \/ \E r \in Run : CommitRun(r)
        \/ \E u \in Review : CommitReview(u)
        \/ \E g \in Generation : CommitEvents(g)
        \/ UNCHANGED <<findings, audit>>
    <3>. USE DEF rows
    <3>1. ASSUME NEW r \in Run, RunStep(r)
          PROVE  CommitRun(r) \/ UNCHANGED <<findings, audit>>
      BY <3>1 DEF RunStep, RunNotFound, LockCase, Evaluate, SkipExisting, FindNone, InsertMatch,
                  Reread, Fault
    <3>2. ASSUME NEW u \in Review, ReviewStep(u)
          PROVE  CommitReview(u) \/ UNCHANGED <<findings, audit>>
      BY <3>2 DEF ReviewStep, LockFinding, ReviewNotFound, RejectReview, Reread, Fault
    <3>3. ASSUME NEW g \in Generation, GenerationStep(g)
          PROVE  CommitEvents(g) \/ UNCHANGED <<findings, audit>>
      BY <3>3 DEF GenerationStep, WriteEvents, Reread, Fault
    <3>. QED
      BY <1>2, <3>1, <3>2, <3>3, NextSteps DEF findingsVars
  <2>. QED
    BY <2>3, <2>4, <2>5, <2>6, <2>7, <2>2 DEF ReviewLog!Next
<1>. QED
  BY <1>1, <1>2, FindingsInvariant, PTL DEF FindingsSpec, ImplementsReview, ReviewLog!Spec

=============================================================================
