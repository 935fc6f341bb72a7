---------------------- MODULE TimelineGeneration_proofs ----------------------
(***************************************************************************)
(* For any executions, generations and readers of a case, whatever parsers *)
(* return and however the requests interleave and fail: the timeline holds *)
(* what its artifacts give and nothing else, a generation on record is     *)
(* complete, the audit trail counts every event once, and the timeline     *)
(* changes as the abstract TimelineLog allows.                             *)
(***************************************************************************)
EXTENDS TimelineGeneration, FiniteSetTheorems, TLAPS

TxShape ==
    [artifacts : SUBSET DOMAIN artifacts,
     records   : SUBSET CommittedRecords,
     todo      : SUBSET EventsOf(CommittedRecords),
     inserted  : SUBSET EventsOf(CommittedRecords),
     enriched  : SUBSET EventsOf(CommittedRecords)]

PageShape == [rows : Nat, offset : Nat, total : Nat, filter : Filters \union {None}]

\* The types, and that an identity is given to one artifact only.
ShapeInv ==
    /\ DOMAIN artifacts \subseteq {0} \union Execution
    /\ pc \in [Requests -> {"idle", "parsed", "artifacts", "inserting", "enriching",
                            "page", "done"}]
    /\ out \in [Requests -> {"none", "ok", "refused", "error", "fault", "bad_request"}]
    /\ DOMAIN job = Execution
    /\ tx \in [Generation -> TxShape]
    /\ page \in [Reader -> PageShape]
    /\ audit \in Seq({audit[i] : i \in DOMAIN audit})
    /\ \A a \in DOMAIN artifacts \ {0} : pc[a] = "done"

\* Stored results and those about to be stored meet their contract.
ContractInv ==
    /\ \A a \in DOMAIN artifacts \ {0} : MeetsContract(artifacts[a])
    /\ \A e \in Execution : pc[e] = "parsed" => MeetsContract(job[e])

\* Every event comes from a stored record, with the time and, once it has one,
\* the identity the record gives.
EventsInv ==
    /\ IsFiniteSet(DOMAIN timeline)
    /\ DOMAIN timeline \subseteq EventsOf(CommittedRecords)
    /\ \A e \in DOMAIN timeline :
          /\ timeline[e] = [time |-> TimeOf(e), identity |-> timeline[e].identity]
          /\ timeline[e].identity \in {None, IdentityOf(e)}

\* Where generation g stands with the events of the records it has read.
GenerationInv(g) ==
    /\ \A r \in tx[g].records : RecordsOf(r[1]) \subseteq tx[g].records
    /\ tx[g].inserted \subseteq EventsOf(tx[g].records)
    /\ IsFiniteSet(tx[g].inserted)
    /\ pc[g] \in {"idle", "artifacts"} => tx[g].inserted = {}
    /\ pc[g] # "done" => /\ tx[g].inserted \intersect DOMAIN timeline = {}
                         /\ GenerationEntries(g) = {}
    /\ pc[g] = "inserting" =>
          /\ tx[g].todo \subseteq EventsOf(tx[g].records)
          /\ EventsOf(tx[g].records) \subseteq tx[g].todo \union tx[g].inserted
                                                \union DOMAIN timeline
    /\ pc[g] = "enriching" =>
          /\ EventsOf(tx[g].records) \subseteq tx[g].inserted \union DOMAIN timeline
          /\ \A e \in DOMAIN timeline :
                \/ timeline[e].identity = IdentityOf(e)
                \/ e \in tx[g].todo \union tx[g].enriched
    /\ GenerationEntries(g) # {} =>
          /\ EventsOf(tx[g].records) \subseteq DOMAIN timeline
          /\ \A e \in EventsOf(tx[g].records) : timeline[e].identity = IdentityOf(e)

\* No two generations that may still commit have inserted the same event.
DisjointInv ==
    \A g, h \in Generation :
        g # h /\ pc[g] # "done" /\ pc[h] # "done"
            => tx[g].inserted \intersect tx[h].inserted = {}

\* What the audit trail has counted.
CountInv ==
    /\ IsFiniteSet(CountedCreations) /\ IsFiniteSet(Generated)
    /\ AuditedCountsAddUp

\* A page leaves room for the total that will be read after it.
PageInv(r) ==
    /\ pc[r] = "page" =>
          /\ page[r].filter \in Filters
          /\ page[r].rows > 0 =>
                page[r].offset + page[r].rows <= Cardinality(Matching(page[r].filter))
    /\ out[r] = "ok" =>
          /\ pc[r] = "done"
          /\ page[r].rows > 0 => page[r].offset + page[r].rows <= page[r].total

\* The inductive invariant.
TimelineIInv ==
    /\ ShapeInv /\ ContractInv /\ EventsInv
    /\ \A g \in Generation : GenerationInv(g)
    /\ DisjointInv
    /\ CountInv
    /\ \A r \in Reader : PageInv(r)

-----------------------------------------------------------------------------
\* Operators.

\* What _execute stores meets the contract of parser results, whatever the
\* parser returned.
LEMMA ValidatedMeetsContract ==
    ASSUME NEW o
    PROVE  MeetsContract(Validated(o))
  BY DEF Validated, Without, MeetsContract, Terminal

\* Artifacts are stored and never changed.
ArtifactsKept ==
    \A a \in DOMAIN artifacts : a \in DOMAIN artifacts' /\ artifacts'[a] = artifacts[a]

\* So what their records give stays the same.
LEMMA SameEvents ==
    ASSUME ArtifactsKept
    PROVE  /\ \A a \in DOMAIN artifacts : RecordsOf(a)' = RecordsOf(a)
           /\ \A r : r[1] \in DOMAIN artifacts => EventsOfRecord(r)' = EventsOfRecord(r)
           /\ \A e : e[1] \in DOMAIN artifacts =>
                 TimeOf(e)' = TimeOf(e) /\ IdentityOf(e)' = IdentityOf(e)
<1>1. \A a \in DOMAIN artifacts : RecordsOf(a)' = RecordsOf(a)
  BY DEF ArtifactsKept, RecordsOf
<1>2. \A a \in DOMAIN artifacts : \A i : NormalEvents(a, i)' = NormalEvents(a, i)
  BY DEF ArtifactsKept, NormalEvents
<1>3. \A r : r[1] \in DOMAIN artifacts => EventsOfRecord(r)' = EventsOfRecord(r)
  BY <1>2 DEF EventsOfRecord
<1>4. \A e : e[1] \in DOMAIN artifacts =>
         TimeOf(e)' = TimeOf(e) /\ IdentityOf(e)' = IdentityOf(e)
  BY <1>2 DEF ArtifactsKept, TimeOf, IdentityOf
<1>. QED
  BY <1>1, <1>3, <1>4

\* A committed record, and an event of one, name a stored artifact.
LEMMA WhereEventsAre ==
    /\ \A r \in CommittedRecords : r[1] \in DOMAIN artifacts /\ r \in RecordsOf(r[1])
    /\ \A a \in DOMAIN artifacts : RecordsOf(a) \subseteq CommittedRecords
    /\ \A R : \A e \in EventsOf(R) : \E r \in R : e \in EventsOfRecord(r) /\ e[1] = r[1]
    /\ \A R : \A r \in R : EventsOfRecord(r) \subseteq EventsOf(R)
<1>1. \A a, r : r \in RecordsOf(a) => r[1] = a
  BY DEF RecordsOf
<1>2. \A r, e : e \in EventsOfRecord(r) => e[1] = r[1]
  BY DEF EventsOfRecord
<1>. QED
  BY <1>1, <1>2 DEF CommittedRecords, EventsOf

\* What has been committed stays committed.
LEMMA ShapeGrows ==
    ASSUME ArtifactsKept
    PROVE  /\ DOMAIN artifacts \subseteq DOMAIN artifacts'
           /\ CommittedRecords \subseteq CommittedRecords'
           /\ EventsOf(CommittedRecords) \subseteq EventsOf(CommittedRecords)'
           /\ TxShape \subseteq TxShape'
<1>1. DOMAIN artifacts \subseteq DOMAIN artifacts'
  BY DEF ArtifactsKept
<1>2. CommittedRecords \subseteq CommittedRecords'
  BY <1>1, SameEvents DEF CommittedRecords
<1>3. EventsOf(CommittedRecords) \subseteq EventsOf(CommittedRecords)'
  BY <1>2, SameEvents, WhereEventsAre DEF EventsOf
<1>. QED
  BY <1>1, <1>2, <1>3 DEF TxShape

\* The timeline grows: identities are filled in, new events come with theirs.
TimelineKept ==
    /\ \A e \in DOMAIN timeline :
          /\ e \in DOMAIN timeline'
          /\ timeline'[e].identity \in {timeline[e].identity, IdentityOf(e)}
    /\ \A e \in DOMAIN timeline' \ DOMAIN timeline :
          /\ e \in EventsOf(CommittedRecords)
          /\ timeline'[e].identity = IdentityOf(e)

\* Where a generation stands is left alone by the steps of others.
LEMMA GenerationStays ==
    ASSUME TimelineIInv, ArtifactsKept, TimelineKept, NEW g \in Generation,
           tx'[g] = tx[g], pc'[g] = pc[g], GenerationEntries(g)' = GenerationEntries(g),
           pc[g] # "done" => tx[g].inserted \intersect DOMAIN timeline' = {}
    PROVE  GenerationInv(g)'
<1>. DEFINE R == tx[g].records
            E == EventsOf(tx[g].records)
<1>1. GenerationInv(g) /\ R \subseteq CommittedRecords /\ EventsInv
  BY DEF TimelineIInv, ShapeInv, TxShape
<1>2. \A r \in R : RecordsOf(r[1])' = RecordsOf(r[1])
  BY <1>1, SameEvents, WhereEventsAre
<1>3. EventsOf(tx[g].records)' = E
  BY <1>1, SameEvents, WhereEventsAre DEF EventsOf
<1>4. \A e \in EventsOf(CommittedRecords) : IdentityOf(e)' = IdentityOf(e)
  BY SameEvents, WhereEventsAre
<1>5. \A e \in E \union DOMAIN timeline' : IdentityOf(e)' = IdentityOf(e)
  <2>1. E \subseteq EventsOf(CommittedRecords)
    BY <1>1 DEF EventsOf
  <2>. QED
    BY <1>1, <1>4, <2>1 DEF TimelineKept, EventsInv
<1>. HIDE DEF E
<1>6. pc[g] = "enriching" =>
         /\ E \subseteq tx[g].inserted \union DOMAIN timeline'
         /\ \A e \in DOMAIN timeline' :
               \/ timeline'[e].identity = IdentityOf(e)'
               \/ e \in tx[g].todo \union tx[g].enriched
  BY <1>1, <1>5 DEF GenerationInv, TimelineKept, E
<1>7. GenerationEntries(g) # {} =>
         /\ E \subseteq DOMAIN timeline'
         /\ \A e \in E : timeline'[e].identity = IdentityOf(e)'
  BY <1>1, <1>5 DEF GenerationInv, TimelineKept, E
<1>8. pc[g] = "inserting" =>
         /\ tx[g].todo \subseteq E
         /\ E \subseteq tx[g].todo \union tx[g].inserted \union DOMAIN timeline'
  BY <1>1 DEF GenerationInv, TimelineKept, E
<1>9. tx[g].inserted \subseteq E
  BY <1>1 DEF GenerationInv, E
<1>. QED
  BY <1>1, <1>2, <1>3, <1>6, <1>7, <1>8, <1>9 DEF GenerationInv

\* Generations on record keep what they have inserted.
LEMMA SameCounts ==
    ASSUME CountInv, UNCHANGED <<timeline, audit>>,
           \A g \in Generation : GenerationEntries(g) # {} => tx'[g] = tx[g]
    PROVE  CountInv'
<1>1. CountedCreations' = CountedCreations
  BY DEF CountedCreations
<1>2. \A g \in Generation : GenerationEntries(g)' = GenerationEntries(g)
  BY DEF GenerationEntries
<1>3. Generated' = Generated
  BY <1>2 DEF Generated
<1>. QED
  BY <1>1, <1>3 DEF CountInv, AuditedCountsAddUp

\* A step of generation g that does not commit keeps the invariant if it keeps
\* its own part of it.
LEMMA GenerationStepKeeps ==
    ASSUME TimelineIInv, NEW g \in Generation, pc[g] # "done",
           NEW t \in TxShape, tx' = [tx EXCEPT ![g] = t],
           NEW p \in {"artifacts", "inserting", "enriching", "done"}, Goto(g, p),
           out' = out \/ \E o \in {"error", "fault"} : out' = [out EXCEPT ![g] = o],
           UNCHANGED <<dataVars, job, page>>,
           GenerationInv(g)',
           p # "done" => \A h \in Generation \ {g} :
                            pc[h] # "done" => t.inserted \intersect tx[h].inserted = {}
    PROVE  TimelineIInv'
<1>. USE RequestsAssumption DEF dataVars, Goto, Requests
<1>1. ArtifactsKept /\ TimelineKept
  BY DEF ArtifactsKept, TimelineKept
<1>2. ShapeInv'
  <2>1. TxShape' = TxShape
    BY DEF TxShape, CommittedRecords, RecordsOf, EventsOf, EventsOfRecord, NormalEvents
  <2>. QED
    BY <2>1 DEF TimelineIInv, ShapeInv, PageShape
<1>3. ContractInv'
  BY DEF TimelineIInv, ContractInv, ShapeInv, MeetsContract
<1>4. EventsInv'
  BY <1>1, SameEvents, ShapeGrows, WhereEventsAre DEF TimelineIInv, EventsInv
<1>5. \A h \in Generation : GenerationEntries(h)' = GenerationEntries(h)
  BY DEF GenerationEntries
<1>6. ASSUME NEW h \in Generation, h # g
      PROVE  GenerationInv(h)'
  <2>1. tx'[h] = tx[h] /\ pc'[h] = pc[h]
    BY <1>6 DEF TimelineIInv, ShapeInv
  <2>. QED
    BY <1>1, <1>5, <2>1, GenerationStays DEF TimelineIInv, GenerationInv
<1>7. DisjointInv'
  BY DEF TimelineIInv, DisjointInv, ShapeInv
<1>8. CountInv'
  BY <1>5, SameCounts DEF TimelineIInv, GenerationInv, ShapeInv
<1>9. ASSUME NEW r \in Reader
      PROVE  PageInv(r)'
  <2>1. pc'[r] = pc[r] /\ out'[r] = out[r] /\ page' = page
    BY DEF TimelineIInv, ShapeInv
  <2>2. \A f : Matching(f)' = Matching(f)
    BY DEF Matching
  <2>. QED
    BY <2>1, <2>2 DEF TimelineIInv, PageInv
<1>. QED
  BY <1>2, <1>3, <1>4, <1>6, <1>7, <1>8, <1>9 DEF TimelineIInv

-----------------------------------------------------------------------------
\* The steps.

LEMMA SameData ==
    ASSUME UNCHANGED dataVars
    PROVE  /\ \A a : RecordsOf(a)' = RecordsOf(a)
           /\ \A R : EventsOf(R)' = EventsOf(R)
           /\ \A e : IdentityOf(e)' = IdentityOf(e)
           /\ \A g : GenerationEntries(g)' = GenerationEntries(g)
  BY DEF dataVars, RecordsOf, EventsOf, EventsOfRecord, NormalEvents, IdentityOf,
         GenerationEntries

\* The two reads of a generation and the insertion of its rows.
LEMMA InsertKeeps ==
    ASSUME TimelineIInv, NEW g \in Generation,
           ReadArtifacts(g) \/ ReadRecords(g) \/ InsertNext(g)
    PROVE  TimelineIInv'
<1>0. /\ GenerationInv(g) /\ tx \in [Generation -> TxShape] /\ tx[g] \in TxShape
      /\ pc \in [Requests -> {"idle", "parsed", "artifacts", "inserting", "enriching",
                              "page", "done"}]
      /\ g \in Requests
  BY DEF TimelineIInv, ShapeInv, Requests
<1>1. CASE ReadArtifacts(g)
  <2>. DEFINE t == [tx[g] EXCEPT !.artifacts = DOMAIN artifacts]
  <2>1. /\ UNCHANGED <<dataVars, out, job, page>> /\ pc[g] = "idle"
        /\ Goto(g, "artifacts") /\ tx' = [tx EXCEPT ![g] = t] /\ t \in TxShape
        /\ t.inserted = tx[g].inserted
    BY <1>0, <1>1 DEF ReadArtifacts, TxShape
  <2>2. GenerationInv(g)'
    <3>1. /\ tx'[g].records = tx[g].records /\ tx'[g].inserted = tx[g].inserted
          /\ pc'[g] = "artifacts" /\ UNCHANGED dataVars
      BY <1>0, <2>1 DEF TxShape, Goto
    <3>2. EventsOf(tx[g].records)' = EventsOf(tx[g].records)
      BY <3>1, SameData
    <3>. QED
      BY <1>0, <2>1, <3>1, <3>2, SameData DEF GenerationInv, dataVars
  <2>3. t.inserted = {}
    BY <1>0, <2>1 DEF GenerationInv
  <2>. QED
    BY <2>1, <2>2, <2>3, GenerationStepKeeps
<1>2. CASE ReadRecords(g)
  <2>. DEFINE t == [tx[g] EXCEPT !.records = CommittedRecords,
                                 !.todo = EventsOf(CommittedRecords)]
  <2>1. /\ UNCHANGED <<dataVars, out, job, page>> /\ pc[g] = "artifacts"
        /\ Goto(g, "inserting") /\ tx' = [tx EXCEPT ![g] = t] /\ t \in TxShape
        /\ t.inserted = {}
    BY <1>0, <1>2 DEF ReadRecords, TxShape, GenerationInv
  <2>2. GenerationInv(g)'
    <3>1. /\ tx'[g].records = CommittedRecords /\ tx'[g].inserted = {}
          /\ tx'[g].todo = EventsOf(CommittedRecords)
          /\ pc'[g] = "inserting" /\ UNCHANGED dataVars
      BY <1>0, <2>1 DEF TxShape, Goto
    <3>2. EventsOf(tx[g].records)' = EventsOf(CommittedRecords)
      BY <3>1, SameData
    <3>3. \A r \in CommittedRecords : RecordsOf(r[1])' \subseteq CommittedRecords
      BY <3>1, SameData, WhereEventsAre
    <3>4. GenerationEntries(g)' = {}
      BY <1>0, <2>1, <3>1, SameData DEF GenerationInv
    <3>. QED
      BY <3>1, <3>2, <3>3, <3>4, FS_EmptySet DEF GenerationInv
  <2>. QED
    BY <2>1, <2>2, GenerationStepKeeps
<1>3. CASE InsertNext(g)
  <2>1. PICK e \in tx[g].todo :
           /\ \A h \in Generation \ {g} : pc[h] # "done" => e \notin tx[h].inserted
           /\ tx' = [tx EXCEPT
                       ![g].todo = @ \ {e},
                       ![g].inserted = IF e \in DOMAIN timeline THEN @ ELSE @ \union {e}]
    BY <1>3 DEF InsertNext, Earliest
  <2>. DEFINE t == [tx[g] EXCEPT
                      !.todo = @ \ {e},
                      !.inserted = IF e \in DOMAIN timeline THEN @ ELSE @ \union {e}]
  <2>2. /\ UNCHANGED <<dataVars, pc, out, job, page>> /\ pc[g] = "inserting"
        /\ Goto(g, "inserting") /\ tx' = [tx EXCEPT ![g] = t]
    BY <1>0, <1>3, <2>1 DEF InsertNext, Goto
  <2>3. /\ t.records = tx[g].records /\ t.todo = tx[g].todo \ {e}
        /\ t.inserted \in {tx[g].inserted, tx[g].inserted \union {e}}
        /\ e \in t.inserted \union DOMAIN timeline
        /\ t.inserted = tx[g].inserted \/ e \notin DOMAIN timeline
        /\ t \in TxShape
    BY <1>0, <2>1 DEF TxShape
  <2>. HIDE DEF t
  <2>4. tx'[g] = t
    BY <1>0, <2>2
  <2>5. IsFiniteSet(t.inserted)
    BY <1>0, <2>3, FS_AddElement DEF GenerationInv
  <2>6. GenerationInv(g)'
    <3>1. UNCHANGED dataVars
      BY <2>2
    <3>2. EventsOf(tx[g].records)' = EventsOf(tx[g].records)
      BY <2>3, <2>4, <3>1, SameData
    <3>3. GenerationEntries(g)' = {}
      BY <1>0, <2>2, <3>1, SameData DEF GenerationInv
    <3>4. /\ t.todo \subseteq EventsOf(tx[g].records)
          /\ EventsOf(tx[g].records) \subseteq t.todo \union t.inserted
                                                 \union DOMAIN timeline
          /\ t.inserted \subseteq EventsOf(tx[g].records)
          /\ t.inserted \intersect DOMAIN timeline = {}
      BY <1>0, <2>1, <2>2, <2>3 DEF GenerationInv
    <3>5. \A r \in tx[g].records : RecordsOf(r[1])' \subseteq tx[g].records
      BY <1>0, <3>1, SameData DEF GenerationInv
    <3>6. /\ pc'[g] = "inserting" /\ timeline' = timeline
          /\ tx'[g].records = tx[g].records /\ tx'[g].todo = t.todo
          /\ tx'[g].inserted = t.inserted
      BY <2>2, <2>3, <2>4 DEF dataVars
    <3>. QED
      BY <2>5, <3>2, <3>3, <3>4, <3>5, <3>6 DEF GenerationInv
  <2>7. \A h \in Generation \ {g} :
           pc[h] # "done" => t.inserted \intersect tx[h].inserted = {}
    BY <2>1, <2>2, <2>3 DEF TimelineIInv, DisjointInv
  <2>. QED
    BY <2>2, <2>3, <2>6, <2>7, GenerationStepKeeps
<1>. QED
  BY <1>1, <1>2, <1>3

\* The two statements that fill in process identities.
LEMMA EnrichKeeps ==
    ASSUME TimelineIInv, NEW g \in Generation, ReadUnidentified(g) \/ EnrichNext(g)
    PROVE  TimelineIInv'
<1>0. /\ GenerationInv(g) /\ tx \in [Generation -> TxShape] /\ tx[g] \in TxShape
      /\ pc \in [Requests -> {"idle", "parsed", "artifacts", "inserting", "enriching",
                              "page", "done"}]
      /\ g \in Requests
  BY DEF TimelineIInv, ShapeInv, Requests
<1>1. PICK todo, enriched :
         /\ tx' = [tx EXCEPT ![g].todo = todo, ![g].enriched = enriched]
         /\ todo \subseteq EventsOf(CommittedRecords)
         /\ enriched \subseteq EventsOf(CommittedRecords)
         /\ \A e \in DOMAIN timeline :
               timeline[e].identity = IdentityOf(e) \/ e \in todo \union enriched
  <2>1. CASE ReadUnidentified(g)
    <3>. DEFINE todo == {e \in DOMAIN timeline : /\ IdentityOf(e) # None
                                                /\ timeline[e].identity # IdentityOf(e)}
    <3>1. tx' = [tx EXCEPT ![g].todo = todo, ![g].enriched = tx[g].enriched]
      BY <1>0, <2>1 DEF ReadUnidentified, TxShape
    <3>2. \A e \in DOMAIN timeline : timeline[e].identity = IdentityOf(e) \/ e \in todo
      BY DEF TimelineIInv, EventsInv
    <3>3. /\ todo \subseteq EventsOf(CommittedRecords)
          /\ tx[g].enriched \subseteq EventsOf(CommittedRecords)
      BY <1>0 DEF TimelineIInv, EventsInv, TxShape
    <3>. QED
      BY <3>1, <3>2, <3>3
  <2>2. CASE EnrichNext(g)
    <3>1. PICK e \in tx[g].todo :
             tx' = [tx EXCEPT ![g].todo = @ \ {e}, ![g].enriched = @ \union {e}]
      BY <2>2 DEF EnrichNext, Earliest
    <3>2. tx' = [tx EXCEPT ![g].todo = tx[g].todo \ {e},
                           ![g].enriched = tx[g].enriched \union {e}]
      BY <1>0, <3>1 DEF TxShape
    <3>3. \A d \in DOMAIN timeline :
             timeline[d].identity = IdentityOf(d) \/ d \in tx[g].todo \union tx[g].enriched
      BY <1>0, <2>2 DEF EnrichNext, GenerationInv
    <3>4. /\ tx[g].todo \subseteq EventsOf(CommittedRecords)
          /\ tx[g].enriched \subseteq EventsOf(CommittedRecords)
      BY <1>0 DEF TxShape
    <3>. DEFINE todo == tx[g].todo \ {e}
                enriched == tx[g].enriched \union {e}
    <3>5. \A d \in DOMAIN timeline :
             timeline[d].identity = IdentityOf(d) \/ d \in todo \union enriched
      BY <3>3
    <3>6. /\ todo \subseteq EventsOf(CommittedRecords)
          /\ enriched \subseteq EventsOf(CommittedRecords)
      BY <3>4
    <3>7. tx' = [tx EXCEPT ![g].todo = todo, ![g].enriched = enriched]
      BY <3>2
    <3>. HIDE DEF todo, enriched
    <3>. QED
      BY <3>5, <3>6, <3>7
  <2>. QED
    BY <2>1, <2>2
<1>. DEFINE t == [tx[g] EXCEPT !.todo = todo, !.enriched = enriched]
<1>2. /\ UNCHANGED <<dataVars, out, job, page>> /\ pc[g] \in {"inserting", "enriching"}
      /\ Goto(g, "enriching") /\ tx' = [tx EXCEPT ![g] = t]
  BY <1>0, <1>1 DEF ReadUnidentified, EnrichNext, Goto
<1>3. /\ t.records = tx[g].records /\ t.todo = todo /\ t.enriched = enriched
      /\ t.inserted = tx[g].inserted /\ t \in TxShape
  BY <1>0, <1>1 DEF TxShape
<1>. HIDE DEF t
<1>4. tx'[g] = t /\ pc'[g] = "enriching" /\ timeline' = timeline
  BY <1>0, <1>2 DEF Goto, dataVars
<1>5. GenerationInv(g)'
  <2>1. EventsOf(tx[g].records)' = EventsOf(tx[g].records)
    BY <1>2, <1>3, <1>4, SameData
  <2>2. GenerationEntries(g)' = {}
    BY <1>0, <1>2, SameData DEF GenerationInv
  <2>3. \A r \in tx[g].records : RecordsOf(r[1])' \subseteq tx[g].records
    BY <1>0, <1>2, SameData DEF GenerationInv
  <2>4. \A e \in DOMAIN timeline : timeline[e].identity = IdentityOf(e)'
                                   \/ e \in todo \union enriched
    BY <1>1, <1>2, SameData
  <2>5. EventsOf(tx[g].records) \subseteq tx[g].inserted \union DOMAIN timeline
    <3>1. CASE ReadUnidentified(g)
      BY <1>0, <3>1 DEF ReadUnidentified, GenerationInv
    <3>2. CASE EnrichNext(g)
      BY <1>0, <3>2 DEF EnrichNext, GenerationInv
    <3>. QED
      BY <3>1, <3>2
  <2>. QED
    BY <1>0, <1>2, <1>3, <1>4, <2>1, <2>2, <2>3, <2>4, <2>5 DEF GenerationInv
<1>6. \A h \in Generation \ {g} :
         pc[h] # "done" => t.inserted \intersect tx[h].inserted = {}
  BY <1>2, <1>3 DEF TimelineIInv, DisjointInv
<1>. QED
  BY <1>2, <1>3, <1>5, <1>6, GenerationStepKeeps

\* A generation that ends without a commit has left nothing.
LEMMA AbandonKeeps ==
    ASSUME TimelineIInv, NEW g \in Generation,
           ReadUnknownRecord(g) \/ RejectStatement(g) \/ Fault(g)
    PROVE  TimelineIInv'
<1>0. /\ GenerationInv(g) /\ tx \in [Generation -> TxShape]
      /\ pc \in [Requests -> {"idle", "parsed", "artifacts", "inserting", "enriching",
                              "page", "done"}]
      /\ g \in Requests
  BY DEF TimelineIInv, ShapeInv, Requests
<1>1. NoTx \in TxShape /\ NoTx.inserted = {} /\ NoTx.records = {}
  BY DEF NoTx, TxShape
<1>2. /\ UNCHANGED <<dataVars, job, page>> /\ pc[g] # "done" /\ Goto(g, "done")
      /\ tx' = [tx EXCEPT ![g] = NoTx]
      /\ \E o \in {"error", "fault"} : out' = [out EXCEPT ![g] = o]
  BY <1>0 DEF ReadUnknownRecord, RejectStatement, Fault, Answer
<1>3. GenerationInv(g)'
  <2>1. tx'[g] = NoTx /\ pc'[g] = "done"
    BY <1>0, <1>2 DEF Goto
  <2>2. GenerationEntries(g)' = {}
    BY <1>0, <1>2, SameData DEF GenerationInv
  <2>3. EventsOf(tx[g].records)' = {}
    BY <1>1, <2>1 DEF EventsOf
  <2>. QED
    BY <1>1, <2>1, <2>2, <2>3, FS_EmptySet DEF GenerationInv
<1>. QED
  BY <1>1, <1>2, <1>3, GenerationStepKeeps

-----------------------------------------------------------------------------
\* The commits.

\* A sequence is one of its own elements.
LEMMA SeqOfItsElements ==
    ASSUME NEW S, NEW s \in Seq(S)
    PROVE  s \in Seq({s[i] : i \in DOMAIN s})
<1>. DEFINE R == {s[i] : i \in DOMAIN s}
<1>1. /\ Len(s) \in Nat /\ DOMAIN s = 1..Len(s)
      /\ s = [i \in DOMAIN s |-> s[i]]
  OBVIOUS
<1>2. s \in [1..Len(s) -> R]
  <2>1. \A i \in 1..Len(s) : s[i] \in R
    BY <1>1
  <2>. HIDE DEF R
  <2>. QED
    BY <1>1, <2>1
<1>. HIDE DEF R
<1>3. s \in Seq(R)
  BY <1>1, <1>2
<1>. QED
  BY <1>3 DEF R

\* One entry at the end of the audit trail.
LEMMA AuditGrows ==
    ASSUME audit \in Seq({audit[i] : i \in DOMAIN audit}), NEW x, audit' = Append(audit, x)
    PROVE  /\ audit' \in Seq({audit'[i] : i \in DOMAIN audit'})
           /\ DOMAIN audit' = (DOMAIN audit) \union {Len(audit) + 1}
           /\ Len(audit) + 1 \notin DOMAIN audit
           /\ audit'[Len(audit) + 1] = x
           /\ \A i \in DOMAIN audit : audit'[i] = audit[i]
<1>. DEFINE S == {audit[i] : i \in DOMAIN audit} \union {x}
<1>1. audit \in Seq(S) /\ x \in S
  OBVIOUS
<1>2. DOMAIN audit = 1..Len(audit) /\ Len(audit) \in Nat
  BY <1>1
<1>. HIDE DEF S
<1>3. /\ audit' \in Seq(S) /\ Len(audit') = Len(audit) + 1
      /\ DOMAIN audit' = 1..(Len(audit) + 1)
      /\ audit'[Len(audit) + 1] = x
      /\ \A i \in DOMAIN audit : audit'[i] = audit[i]
  BY <1>1
<1>4. audit' \in Seq({audit'[i] : i \in DOMAIN audit'})
  BY <1>3, SeqOfItsElements
<1>. QED
  BY <1>2, <1>3, <1>4

\* The entry is one of its own author only.
LEMMA EntriesGrow ==
    ASSUME audit \in Seq({audit[i] : i \in DOMAIN audit}), NEW x, audit' = Append(audit, x)
    PROVE  \A g :
              IF x.action = "TIMELINE_GENERATED" /\ x.by = g
              THEN GenerationEntries(g)' = GenerationEntries(g) \union {Len(audit) + 1}
              ELSE GenerationEntries(g)' = GenerationEntries(g)
  BY AuditGrows DEF GenerationEntries

\* More events match a filter, never fewer.
LEMMA MatchingGrows ==
    ASSUME EventsInv, ArtifactsKept, TimelineKept, IsFiniteSet(DOMAIN timeline'),
           \A e \in DOMAIN timeline : timeline'[e].time = timeline[e].time,
           NEW f
    PROVE  /\ Cardinality(Matching(f)) \in Nat /\ Cardinality(Matching(f)') \in Nat
           /\ Cardinality(Matching(f)) <= Cardinality(Matching(f)')
<1>1. \A e \in DOMAIN timeline : artifacts'[e[1]] = artifacts[e[1]]
  BY WhereEventsAre DEF EventsInv, ArtifactsKept
<1>2. Matching(f) \subseteq Matching(f)'
  BY <1>1 DEF Matching, TimelineKept
<1>3. Matching(f) \subseteq DOMAIN timeline /\ Matching(f)' \subseteq DOMAIN timeline'
  BY DEF Matching
<1>4. IsFiniteSet(Matching(f)) /\ IsFiniteSet(Matching(f)')
  BY <1>3, FS_Subset DEF EventsInv
<1>. QED
  BY <1>2, <1>4, FS_Subset, FS_CardinalityType

\* So a page keeps the room it left for its total.
LEMMA PageStays ==
    ASSUME TimelineIInv, ArtifactsKept, TimelineKept, IsFiniteSet(DOMAIN timeline'),
           \A e \in DOMAIN timeline : timeline'[e].time = timeline[e].time,
           NEW r \in Reader, pc'[r] = pc[r], out'[r] = out[r], page' = page
    PROVE  PageInv(r)'
<1>1. PageInv(r) /\ EventsInv /\ page[r].rows \in Nat /\ page[r].offset \in Nat
  BY DEF TimelineIInv, ShapeInv, PageShape
<1>. DEFINE f == page[r].filter
<1>2. /\ Cardinality(Matching(f)) \in Nat /\ Cardinality(Matching(page[r].filter)') \in Nat
      /\ Cardinality(Matching(f)) <= Cardinality(Matching(page[r].filter)')
  <2>1. ASSUME NEW k
        PROVE  /\ Cardinality(Matching(k)) \in Nat /\ Cardinality(Matching(k)') \in Nat
               /\ Cardinality(Matching(k)) <= Cardinality(Matching(k)')
    BY <1>1, MatchingGrows
  <2>. QED
    BY <2>1
<1>. QED
  BY <1>1, <1>2 DEF PageInv

\* Sets that share no element add up.
LEMMA DisjointUnion ==
    ASSUME NEW S, NEW T, IsFiniteSet(S), IsFiniteSet(T), S \intersect T = {}
    PROVE  /\ IsFiniteSet(S \union T)
           /\ Cardinality(S \union T) = Cardinality(S) + Cardinality(T)
<1>1. /\ IsFiniteSet(S \union T)
      /\ Cardinality(S \union T)
            = Cardinality(S) + Cardinality(T) - Cardinality(S \intersect T)
  BY FS_Union
<1>2. Cardinality(S) \in Nat /\ Cardinality(T) \in Nat /\ Cardinality(S \intersect T) = 0
  BY FS_CardinalityType, FS_EmptySet
<1>. QED
  BY <1>1, <1>2

\* The pairs of an entry with each of the numbers up to what it counts.
LEMMA CountOfEntry ==
    ASSUME NEW n, NEW k \in Nat
    PROVE  IsFiniteSet({n} \X (1..k)) /\ Cardinality({n} \X (1..k)) = k
<1>. DEFINE T == {n} \X (1..k)
            f == [j \in 1..k |-> <<n, j>>]
<1>1. f \in Bijection(1..k, T)
  <2>1. f \in [1..k -> T]
    OBVIOUS
  <2>2. \A i, j \in 1..k : f[i] = f[j] => i = j
    OBVIOUS
  <2>3. \A z \in T : \E j \in 1..k : f[j] = z
    OBVIOUS
  <2>. HIDE DEF f, T
  <2>. QED
    BY <2>1, <2>2, <2>3 DEF Bijection, Injection, Surjection, IsInjective
<1>2. IsFiniteSet(1..k) /\ Cardinality(1..k) = k
  BY FS_Interval
<1>3. ExistsBijection(1..k, T)
  BY <1>1 DEF ExistsBijection
<1>. QED
  BY <1>2, <1>3, FS_Bijection

\* The entry of a commit counts what the generation has inserted, which is new.
LEMMA CommitCounts ==
    ASSUME TimelineIInv, NEW g \in Generation, pc[g] = "enriching", tx' = tx,
           DOMAIN timeline' = DOMAIN timeline \union tx[g].inserted,
           NEW x, x.action = "TIMELINE_GENERATED", x.by = g,
           x.created = Cardinality(tx[g].inserted), audit' = Append(audit, x)
    PROVE  CountInv'
<1>. DEFINE n == Len(audit) + 1
            new == {n} \X (1..Cardinality(tx[g].inserted))
<1>0. /\ GenerationInv(g) /\ CountInv
      /\ audit \in Seq({audit[i] : i \in DOMAIN audit})
  BY DEF TimelineIInv, ShapeInv
<1>1. /\ IsFiniteSet(tx[g].inserted) /\ Cardinality(tx[g].inserted) \in Nat
      /\ tx[g].inserted \intersect DOMAIN timeline = {}
  BY <1>0, FS_CardinalityType DEF GenerationInv
<1>2. /\ DOMAIN audit' = (DOMAIN audit) \union {n} /\ n \notin DOMAIN audit
      /\ audit'[n] = x /\ \A i \in DOMAIN audit : audit'[i] = audit[i]
  BY <1>0, AuditGrows
<1>3. IsFiniteSet(new) /\ Cardinality(new) = Cardinality(tx[g].inserted)
  BY <1>1, CountOfEntry
<1>4. CountedCreations' = CountedCreations \union new
  <2>. DEFINE I == {j \in DOMAIN audit : audit[j].action = "TIMELINE_GENERATED"}
              J == {j \in DOMAIN audit' : audit'[j].action = "TIMELINE_GENERATED"}
  <2>1. J = I \union {n}
    BY <1>2
  <2>2. /\ \A i \in I : {i} \X (1..audit'[i].created) = {i} \X (1..audit[i].created)
        /\ {n} \X (1..audit'[n].created) = new
    BY <1>2
  <2>. DEFINE F(i) == {i} \X (1..audit'[i].created)
  <2>3. CountedCreations' = UNION {F(i) : i \in J}
    BY DEF CountedCreations
  <2>4. CountedCreations = UNION {F(i) : i \in I}
    BY <2>2 DEF CountedCreations
  <2>5. F(n) = new
    BY <2>2
  <2>. HIDE DEF I, J, F, new
  <2>6. \A z : z \in UNION {F(i) : i \in J} <=> (\E i \in I \union {n} : z \in F(i))
    BY <2>1
  <2>7. \A z : z \in UNION {F(i) : i \in I} <=> (\E i \in I : z \in F(i))
    OBVIOUS
  <2>. QED
    BY <2>3, <2>4, <2>5, <2>6, <2>7
<1>5. CountedCreations \intersect new = {}
  BY <1>2 DEF CountedCreations
<1>6. \A h \in Generation : h # g => GenerationEntries(h)' = GenerationEntries(h)
  BY <1>0, EntriesGrow
<1>7. n \in GenerationEntries(g)' /\ GenerationEntries(g) = {}
  BY <1>0, EntriesGrow DEF GenerationInv
<1>8. Generated' = Generated \union tx[g].inserted
  BY <1>6, <1>7 DEF Generated
<1>9. Generated \subseteq DOMAIN timeline
  BY DEF TimelineIInv, GenerationInv, Generated
<1>10. /\ IsFiniteSet(CountedCreations) /\ IsFiniteSet(Generated)
       /\ Cardinality(CountedCreations) = Cardinality(Generated)
       /\ \A e \in DOMAIN timeline \ Generated : e[1] = 0
  BY <1>0 DEF CountInv, AuditedCountsAddUp
<1>. HIDE DEF new
<1>11. /\ IsFiniteSet(CountedCreations \union new)
       /\ Cardinality(CountedCreations \union new)
             = Cardinality(CountedCreations) + Cardinality(new)
  BY <1>3, <1>5, <1>10, DisjointUnion
<1>12. /\ IsFiniteSet(Generated \union tx[g].inserted)
       /\ Cardinality(Generated \union tx[g].inserted)
             = Cardinality(Generated) + Cardinality(tx[g].inserted)
  <2>1. Generated \intersect tx[g].inserted = {}
    BY <1>1, <1>9
  <2>. QED
    BY <1>1, <1>10, <2>1, DisjointUnion
<1>13. \A e \in DOMAIN timeline' \ Generated' : e[1] = 0
  BY <1>8, <1>10
<1>. QED
  BY <1>3, <1>4, <1>8, <1>10, <1>11, <1>12, <1>13 DEF CountInv, AuditedCountsAddUp

\* The commit of a generation.
LEMMA CommitKeeps ==
    ASSUME TimelineIInv, NEW g \in Generation, CommitGeneration(g)
    PROVE  TimelineIInv'
<1>. USE RequestsAssumption
<1>0. /\ GenerationInv(g) /\ EventsInv /\ tx[g] \in TxShape
      /\ audit \in Seq({audit[i] : i \in DOMAIN audit})
      /\ pc \in [Requests -> {"idle", "parsed", "artifacts", "inserting", "enriching",
                              "page", "done"}]
      /\ g \in Requests
  BY DEF TimelineIInv, ShapeInv, Requests
<1>1. /\ UNCHANGED <<artifacts, job, tx, page>> /\ pc[g] = "enriching"
      /\ tx[g].todo = {} /\ Goto(g, "done")
      /\ \E o \in {"ok", "fault"} : out' = [out EXCEPT ![g] = o]
  BY DEF CommitGeneration, Answer
<1>2. PICK x : /\ x.action = "TIMELINE_GENERATED" /\ x.by = g
               /\ x.created = Cardinality(tx[g].inserted) /\ audit' = Append(audit, x)
  BY DEF CommitGeneration, Created
<1>3. tx[g].inserted \subseteq EventsOf(CommittedRecords)
  BY <1>0 DEF TxShape
<1>4. /\ DOMAIN timeline' = DOMAIN timeline \union tx[g].inserted
      /\ \A e \in DOMAIN timeline' :
            timeline'[e] = [time |-> TimeOf(e), identity |-> timeline'[e].identity]
      /\ \A e \in tx[g].inserted : timeline'[e].identity = IdentityOf(e)
      /\ \A e \in DOMAIN timeline \ tx[g].inserted :
            IF e \in tx[g].enriched THEN timeline'[e].identity = IdentityOf(e)
            ELSE timeline'[e].identity = timeline[e].identity
  BY <1>0 DEF CommitGeneration, EventsInv
<1>5. ArtifactsKept /\ TimelineKept
  BY <1>1, <1>3, <1>4 DEF ArtifactsKept, TimelineKept
<1>6. EventsInv'
  <2>1. IsFiniteSet(DOMAIN timeline')
    <3>1. IsFiniteSet(DOMAIN timeline) /\ IsFiniteSet(tx[g].inserted)
      BY <1>0 DEF EventsInv, GenerationInv
    <3>2. IsFiniteSet(DOMAIN timeline \union tx[g].inserted)
      BY <3>1, FS_Union
    <3>. QED
      BY <1>4, <3>2
  <2>2. DOMAIN timeline' \subseteq EventsOf(CommittedRecords)'
    BY <1>0, <1>3, <1>4, <1>5, ShapeGrows DEF EventsInv
  <2>3. \A e \in DOMAIN timeline' : TimeOf(e)' = TimeOf(e) /\ IdentityOf(e)' = IdentityOf(e)
    BY <1>0, <1>3, <1>4, <1>5, SameEvents, WhereEventsAre DEF EventsInv
  <2>4. \A e \in DOMAIN timeline' : timeline'[e].identity \in {None, IdentityOf(e)}
    BY <1>0, <1>4 DEF EventsInv
  <2>. QED
    BY <1>4, <2>1, <2>2, <2>3, <2>4 DEF EventsInv
<1>7. CountInv'
  BY <1>1, <1>2, <1>4, CommitCounts
<1>8. ASSUME NEW h \in Generation, h # g
      PROVE  GenerationInv(h)'
  <2>1. tx'[h] = tx[h] /\ pc'[h] = pc[h]
    BY <1>0, <1>1, <1>8 DEF Goto
  <2>2. GenerationEntries(h)' = GenerationEntries(h)
    BY <1>0, <1>2, <1>8, EntriesGrow
  <2>3. pc[h] # "done" => tx[h].inserted \intersect DOMAIN timeline' = {}
    BY <1>1, <1>4, <1>8 DEF TimelineIInv, GenerationInv, DisjointInv
  <2>. QED
    BY <1>5, <2>1, <2>2, <2>3, GenerationStays
<1>9. GenerationInv(g)'
  <2>1. EventsOf(tx[g].records)' = EventsOf(tx[g].records)
    BY <1>1 DEF EventsOf, EventsOfRecord, NormalEvents
  <2>2. \A e : IdentityOf(e)' = IdentityOf(e)
    BY <1>1 DEF IdentityOf
  <2>3. \A a : RecordsOf(a)' = RecordsOf(a)
    BY <1>1 DEF RecordsOf
  <2>4. /\ EventsOf(tx[g].records) \subseteq DOMAIN timeline'
        /\ \A e \in EventsOf(tx[g].records) : timeline'[e].identity = IdentityOf(e)
    BY <1>0, <1>1, <1>4 DEF GenerationInv
  <2>5. pc'[g] = "done" /\ tx'[g] = tx[g]
    BY <1>0, <1>1 DEF Goto
  <2>. QED
    BY <1>0, <2>1, <2>2, <2>3, <2>4, <2>5 DEF GenerationInv
<1>10. ShapeInv'
  <2>1. TxShape' = TxShape
    BY <1>1 DEF TxShape, CommittedRecords, RecordsOf, EventsOf, EventsOfRecord, NormalEvents
  <2>2. audit' \in Seq({audit'[i] : i \in DOMAIN audit'})
    BY <1>0, <1>2, AuditGrows
  <2>. QED
    BY <1>0, <1>1, <2>1, <2>2 DEF TimelineIInv, ShapeInv, PageShape, Goto, Requests
<1>11. ContractInv'
  BY <1>0, <1>1 DEF TimelineIInv, ContractInv, MeetsContract, Goto, Requests
<1>12. DisjointInv'
  BY <1>0, <1>1 DEF TimelineIInv, DisjointInv, Goto, Requests
<1>13. ASSUME NEW r \in Reader
       PROVE  PageInv(r)'
  <2>1. pc'[r] = pc[r] /\ out'[r] = out[r] /\ page' = page
    BY <1>1 DEF TimelineIInv, ShapeInv, Goto, Requests
  <2>2. \A e \in DOMAIN timeline : timeline'[e].time = timeline[e].time
    <3>1. \A e \in DOMAIN timeline : timeline[e].time = TimeOf(e)
      BY <1>0 DEF EventsInv
    <3>2. \A e \in DOMAIN timeline' : timeline'[e].time = TimeOf(e)
      <4>1. ASSUME NEW e \in DOMAIN timeline'
            PROVE  timeline'[e].time = TimeOf(e)
        <5>1. timeline'[e] = [time |-> TimeOf(e), identity |-> timeline'[e].identity]
          BY <1>4
        <5>2. \A i : [time |-> TimeOf(e), identity |-> i].time = TimeOf(e)
          OBVIOUS
        <5>. QED
          BY <5>1, <5>2
      <4>. QED
        BY <4>1
    <3>. QED
      BY <1>5, <3>1, <3>2 DEF TimelineKept
  <2>3. IsFiniteSet(DOMAIN timeline')
    BY <1>6 DEF EventsInv
  <2>. QED
    BY <1>5, <2>1, <2>2, <2>3, PageStays
<1>. QED
  BY <1>6, <1>7, <1>8, <1>9, <1>10, <1>11, <1>12, <1>13 DEF TimelineIInv

-----------------------------------------------------------------------------
\* Executions and readers.

\* A step of an execution or a reader that stores nothing keeps what is said of
\* generations; what is said of executions and readers is left to be shown.
LEMMA RequestStepKeeps ==
    ASSUME TimelineIInv, NEW r \in Execution \union Reader, pc[r] # "done",
           UNCHANGED <<dataVars, tx>>,
           NEW p \in {"parsed", "page", "done"}, Goto(r, p),
           out' = out \/ \E o \in {"ok", "refused", "fault", "bad_request"} :
                            out' = [out EXCEPT ![r] = o],
           DOMAIN job' = Execution, page' \in [Reader -> PageShape],
           ContractInv', \A s \in Reader : PageInv(s)'
    PROVE  TimelineIInv'
<1>. USE RequestsAssumption DEF Goto
<1>0. r \in Requests /\ r \notin Generation /\ UNCHANGED <<artifacts, timeline, audit>>
  BY DEF Requests, dataVars
<1>1. ArtifactsKept /\ TimelineKept
  BY <1>0 DEF ArtifactsKept, TimelineKept
<1>2. ShapeInv'
  <2>1. TxShape' = TxShape
    BY <1>0 DEF TxShape, CommittedRecords, RecordsOf, EventsOf, EventsOfRecord,
                NormalEvents
  <2>2. PageShape' = PageShape
    BY DEF PageShape
  <2>3. /\ pc' \in [Requests -> {"idle", "parsed", "artifacts", "inserting", "enriching",
                                 "page", "done"}]
        /\ out' \in [Requests -> {"none", "ok", "refused", "error", "fault",
                                  "bad_request"}]
    BY <1>0 DEF TimelineIInv, ShapeInv
  <2>4. \A a \in DOMAIN artifacts' \ {0} : pc'[a] = "done"
    BY <1>0 DEF TimelineIInv, ShapeInv, Requests
  <2>. QED
    BY <1>0, <2>1, <2>2, <2>3, <2>4 DEF TimelineIInv, ShapeInv
<1>3. EventsInv'
  BY <1>0, <1>1, SameEvents, ShapeGrows, WhereEventsAre DEF TimelineIInv, EventsInv
<1>4. \A h \in Generation : GenerationEntries(h)' = GenerationEntries(h)
  BY <1>0 DEF GenerationEntries
<1>5. ASSUME NEW h \in Generation
      PROVE  GenerationInv(h)'
  <2>1. tx'[h] = tx[h] /\ pc'[h] = pc[h]
    BY <1>0 DEF TimelineIInv, ShapeInv, Requests
  <2>. QED
    BY <1>0, <1>1, <1>4, <2>1, GenerationStays DEF TimelineIInv, GenerationInv
<1>6. DisjointInv'
  BY <1>0 DEF TimelineIInv, DisjointInv, ShapeInv, Requests
<1>7. CountInv'
  BY <1>0, SameCounts DEF TimelineIInv
<1>. QED
  BY <1>2, <1>3, <1>5, <1>6, <1>7 DEF TimelineIInv

\* A page that is left alone leaves as much room as before.
LEMMA PagesStay ==
    ASSUME TimelineIInv, UNCHANGED dataVars, NEW s \in Reader,
           pc'[s] = pc[s], out'[s] = out[s], page'[s] = page[s]
    PROVE  PageInv(s)'
<1>1. \A f : Matching(f)' = Matching(f)
  BY DEF Matching, dataVars
<1>. QED
  BY <1>1 DEF TimelineIInv, PageInv

LEMMA ExecutionKeeps ==
    ASSUME TimelineIInv, NEW e \in Execution, Refuse(e) \/ Execute(e) \/ Fault(e)
    PROVE  TimelineIInv'
<1>0. /\ ShapeInv /\ ContractInv /\ e \in Requests /\ e \notin Generation /\ e \notin Reader
  BY RequestsAssumption DEF TimelineIInv, Requests
<1>1. tx' = tx
  <2>1. CASE Fault(e)
    <3>1. tx' = [g \in Generation |-> tx[g]]
      BY <1>0, <2>1 DEF Fault
    <3>. QED
      BY <1>0, <3>1 DEF ShapeInv
  <2>. QED
    BY <2>1 DEF Refuse, Execute
<1>2. /\ UNCHANGED <<dataVars, tx, page>> /\ pc[e] # "done"
      /\ \E p \in {"parsed", "done"} : Goto(e, p)
      /\ out' = out \/ \E o \in {"refused", "fault"} : out' = [out EXCEPT ![e] = o]
  BY <1>0, <1>1 DEF Refuse, Execute, Fault, Answer, ShapeInv
<1>3. ContractInv' /\ DOMAIN job' = Execution
  <2>1. CASE Execute(e)
    <3>1. PICK o \in Outcomes :
             job' = [job EXCEPT ![e] =
                       [format |-> o.format, status |-> Validated(o.outcome).status,
                        records |-> Validated(o.outcome).records,
                        warnings |-> Validated(o.outcome).warnings,
                        errors |-> Validated(o.outcome).errors]]
      BY <2>1 DEF Execute
    <3>. DEFINE v == Validated(o.outcome)
    <3>2. MeetsContract(v)
      BY ValidatedMeetsContract
    <3>. HIDE DEF v
    <3>3. job' = [job EXCEPT ![e] =
                       [format |-> o.format, status |-> v.status, records |-> v.records,
                        warnings |-> v.warnings, errors |-> v.errors]]
      BY <3>1 DEF v
    <3>4. MeetsContract(job'[e]) /\ DOMAIN job' = Execution
      BY <1>0, <3>2, <3>3 DEF MeetsContract, ShapeInv
    <3>5. \A d \in Execution \ {e} : job'[d] = job[d] /\ pc'[d] = pc[d]
      BY <1>0, <1>2, <3>3 DEF ShapeInv, Goto
    <3>. QED
      BY <1>0, <1>2, <3>4, <3>5 DEF ContractInv, dataVars, MeetsContract
  <2>2. CASE Refuse(e) \/ Fault(e)
    <3>1. job' = job /\ Goto(e, "done") /\ artifacts' = artifacts
      BY <2>2 DEF Refuse, Fault, Answer, dataVars
    <3>. QED
      BY <1>0, <3>1 DEF ContractInv, ShapeInv, Goto, MeetsContract
  <2>. QED
    BY <2>1, <2>2
<1>4. ASSUME NEW s \in Reader
      PROVE  PageInv(s)'
  <2>1. pc'[s] = pc[s] /\ out'[s] = out[s] /\ page' = page
    BY <1>0, <1>2 DEF ShapeInv, Goto, Requests
  <2>. QED
    BY <1>2, <2>1, PagesStay
<1>. QED
  BY <1>0, <1>2, <1>3, <1>4, RequestStepKeeps DEF ShapeInv

\* The rows of a page that starts after offset of n events.
LEMMA PageSize ==
    ASSUME NEW n \in Nat, NEW offset \in Nat, NEW limit \in Nat
    PROVE  LET rows == Min({limit, Max({0, n - offset})})
           IN  rows \in Nat /\ (rows > 0 => offset + rows <= n)
<1>1. \A a, b \in Int : /\ Max({a, b}) \in {a, b}
                        /\ Max({a, b}) >= a /\ Max({a, b}) >= b
  <2>1. ASSUME NEW a \in Int, NEW b \in Int
        PROVE  \E x \in {a, b} : \A y \in {a, b} : x >= y
    <3>1. CASE a >= b
      BY <3>1
    <3>2. CASE b >= a
      BY <3>2
    <3>. QED
      BY <3>1, <3>2
  <2>. QED
    BY <2>1 DEF Max
<1>2. \A a, b \in Int : /\ Min({a, b}) \in {a, b}
                        /\ Min({a, b}) <= a /\ Min({a, b}) <= b
  <2>1. ASSUME NEW a \in Int, NEW b \in Int
        PROVE  \E x \in {a, b} : \A y \in {a, b} : x <= y
    <3>1. CASE a <= b
      BY <3>1
    <3>2. CASE b <= a
      BY <3>2
    <3>. QED
      BY <3>1, <3>2
  <2>. QED
    BY <2>1 DEF Min
<1>. DEFINE m == Max({0, n - offset})
            rows == Min({limit, m})
<1>3. m \in {0, n - offset} /\ m \in Nat
  BY <1>1
<1>. HIDE DEF m
<1>4. rows \in {limit, m} /\ rows <= m
  <2>1. limit \in Int /\ m \in Int
    BY <1>3
  <2>2. Min({limit, m}) \in {limit, m} /\ Min({limit, m}) <= m
    BY <1>2, <2>1
  <2>. QED
    BY <2>2
<1>. QED
  BY <1>3, <1>4 DEF m

LEMMA ReaderKeeps ==
    ASSUME TimelineIInv, NEW r \in Reader,
           RejectRange(r) \/ ReadPage(r) \/ CountPage(r) \/ Fault(r)
    PROVE  TimelineIInv'
<1>0. /\ ShapeInv /\ ContractInv /\ EventsInv /\ PageInv(r)
      /\ r \in Requests /\ r \notin Generation
  BY RequestsAssumption DEF TimelineIInv, Requests
<1>1. tx' = tx
  <2>1. CASE Fault(r)
    <3>1. tx' = [g \in Generation |-> tx[g]]
      BY <1>0, <2>1 DEF Fault
    <3>. QED
      BY <1>0, <3>1 DEF ShapeInv
  <2>. QED
    BY <2>1 DEF RejectRange, ReadPage, CountPage
<1>2. /\ UNCHANGED <<dataVars, job, tx>> /\ pc[r] # "done"
      /\ \E p \in {"page", "done"} : Goto(r, p)
      /\ out' = out \/ \E o \in {"ok", "fault", "bad_request"} : out' = [out EXCEPT ![r] = o]
  BY <1>0, <1>1 DEF RejectRange, ReadPage, CountPage, Fault, Answer, ShapeInv
<1>3. \A f : Cardinality(Matching(f)) \in Nat /\ Matching(f)' = Matching(f)
  <2>1. \A f : Matching(f) \subseteq DOMAIN timeline
    BY DEF Matching
  <2>2. \A f : IsFiniteSet(Matching(f))
    BY <1>0, <2>1, FS_Subset DEF EventsInv
  <2>. QED
    BY <1>2, <2>2, FS_CardinalityType DEF Matching, dataVars
<1>4. PageInv(r)' /\ page' \in [Reader -> PageShape]
  <2>1. CASE RejectRange(r) \/ Fault(r)
    <3>1. page' = page /\ pc'[r] = "done" /\ out'[r] \in {"bad_request", "fault"}
      BY <1>0, <2>1 DEF RejectRange, Fault, Answer, Goto, ShapeInv
    <3>. QED
      BY <1>0, <3>1 DEF ShapeInv, PageInv
  <2>2. CASE ReadPage(r)
    <3>1. PICK f \in Filters, offset \in Offsets, limit \in Limits :
             page' = [page EXCEPT ![r] =
                [rows |-> Min({limit, Max({0, Cardinality(Matching(f)) - offset})}),
                 offset |-> offset, total |-> 0, filter |-> f]]
      BY <2>2 DEF ReadPage
    <3>. DEFINE rows == Min({limit, Max({0, Cardinality(Matching(f)) - offset})})
    <3>2. rows \in Nat /\ (rows > 0 => offset + rows <= Cardinality(Matching(f)))
      BY <1>3, PageSize, PagesAssumption
    <3>. HIDE DEF rows
    <3>3. page' = [page EXCEPT ![r] =
                [rows |-> rows, offset |-> offset, total |-> 0, filter |-> f]]
      BY <3>1 DEF rows
    <3>4. pc'[r] = "page" /\ out'[r] # "ok"
      BY <1>0, <2>2 DEF ReadPage, Goto, ShapeInv, PageInv
    <3>5. page' \in [Reader -> PageShape]
      BY <1>0, <3>2, <3>3, PagesAssumption DEF ShapeInv, PageShape
    <3>6. page'[r] = [rows |-> rows, offset |-> offset, total |-> 0, filter |-> f]
      BY <1>0, <3>3 DEF ShapeInv
    <3>7. Matching(page[r].filter)' = Matching(f)
      BY <1>3, <3>6
    <3>. QED
      BY <3>2, <3>4, <3>5, <3>6, <3>7 DEF PageInv
  <2>3. CASE CountPage(r)
    <3>. DEFINE n == Cardinality(Matching(page[r].filter))
    <3>1. /\ page' = [page EXCEPT ![r].total = n] /\ n \in Nat
          /\ pc[r] = "page" /\ pc'[r] = "done"
      BY <1>0, <1>3, <2>3 DEF CountPage, Counted, Answer, Goto, ShapeInv
    <3>2. page[r].rows > 0 => page[r].offset + page[r].rows <= n
      BY <1>0, <3>1 DEF PageInv
    <3>. HIDE DEF n
    <3>3. page' \in [Reader -> PageShape]
      BY <1>0, <3>1 DEF ShapeInv, PageShape
    <3>4. page'[r].rows = page[r].rows /\ page'[r].offset = page[r].offset
          /\ page'[r].total = n
      BY <1>0, <3>1 DEF ShapeInv, PageShape
    <3>. QED
      BY <3>1, <3>2, <3>3, <3>4 DEF PageInv
  <2>. QED
    BY <2>1, <2>2, <2>3
<1>5. ASSUME NEW s \in Reader, s # r
      PROVE  PageInv(s)'
  <2>1. pc'[s] = pc[s] /\ out'[s] = out[s]
    BY <1>0, <1>2, <1>5 DEF ShapeInv, Goto, Requests
  <2>2. page'[s] = page[s]
    BY <1>0, <1>5 DEF ShapeInv, RejectRange, ReadPage, CountPage, Fault
  <2>. QED
    BY <1>2, <2>1, <2>2, PagesStay
<1>6. ContractInv' /\ DOMAIN job' = Execution
  BY <1>0, <1>2, RequestsAssumption
     DEF ContractInv, ShapeInv, Goto, dataVars, MeetsContract, Requests
<1>. QED
  BY <1>0, <1>2, <1>4, <1>5, <1>6, RequestStepKeeps

\* The artifact of an execution becomes visible with its audit entry.
LEMMA PersistKeeps ==
    ASSUME TimelineIInv, NEW e \in Execution, PersistResult(e)
    PROVE  /\ TimelineIInv' /\ ArtifactsKept /\ e \notin DOMAIN artifacts
           /\ DOMAIN artifacts' = DOMAIN artifacts \union {e}
<1>0. /\ ShapeInv /\ ContractInv /\ EventsInv /\ CountInv
      /\ audit \in Seq({audit[i] : i \in DOMAIN audit})
      /\ e \in Requests /\ e \notin Generation /\ e \notin Reader /\ e # 0
  BY RequestsAssumption DEF TimelineIInv, Requests, ShapeInv
<1>1. /\ UNCHANGED <<timeline, job, tx, page>> /\ pc[e] = "parsed" /\ Goto(e, "done")
      /\ out' = [out EXCEPT ![e] = "ok"]
      /\ DOMAIN artifacts' = DOMAIN artifacts \union {e} /\ artifacts'[e] = job[e]
      /\ \A a \in DOMAIN artifacts \ {e} : artifacts'[a] = artifacts[a]
  BY DEF PersistResult, Answer
<1>2. e \notin DOMAIN artifacts
  BY <1>0, <1>1 DEF ShapeInv
<1>3. ArtifactsKept /\ TimelineKept
  BY <1>1, <1>2 DEF ArtifactsKept, TimelineKept
<1>4. PICK x : x.action = "PARSER_EXECUTED" /\ audit' = Append(audit, x)
  BY DEF PersistResult
<1>5. \A g : GenerationEntries(g)' = GenerationEntries(g)
  BY <1>0, <1>4, EntriesGrow
<1>6. ShapeInv'
  <2>1. tx' \in [Generation -> TxShape']
    BY <1>0, <1>1, <1>3, ShapeGrows DEF ShapeInv
  <2>2. audit' \in Seq({audit'[i] : i \in DOMAIN audit'})
    BY <1>0, <1>4, AuditGrows
  <2>3. /\ pc' \in [Requests -> {"idle", "parsed", "artifacts", "inserting", "enriching",
                                 "page", "done"}]
        /\ out' \in [Requests -> {"none", "ok", "refused", "error", "fault",
                                  "bad_request"}]
        /\ \A a \in DOMAIN artifacts' \ {0} : pc'[a] = "done"
    BY <1>0, <1>1 DEF ShapeInv, Goto, Requests
  <2>4. page' \in [Reader -> PageShape']
    BY <1>0, <1>1 DEF ShapeInv, PageShape
  <2>. QED
    BY <1>0, <1>1, <2>1, <2>2, <2>3, <2>4 DEF ShapeInv
<1>7. ContractInv'
  <2>1. MeetsContract(artifacts'[e])
    BY <1>0, <1>1 DEF ContractInv
  <2>2. \A d \in Execution : pc'[d] = "parsed" => pc[d] = "parsed"
    BY <1>0, <1>1 DEF ShapeInv, Goto, Requests
  <2>. QED
    BY <1>0, <1>1, <1>2, <2>1, <2>2 DEF ContractInv, MeetsContract
<1>8. EventsInv'
  <2>1. \A d \in DOMAIN timeline : TimeOf(d)' = TimeOf(d) /\ IdentityOf(d)' = IdentityOf(d)
    BY <1>0, <1>3, SameEvents, WhereEventsAre DEF EventsInv
  <2>. QED
    BY <1>0, <1>1, <1>3, <2>1, ShapeGrows DEF EventsInv
<1>9. ASSUME NEW g \in Generation
      PROVE  GenerationInv(g)'
  <2>1. tx'[g] = tx[g] /\ pc'[g] = pc[g]
    BY <1>0, <1>1 DEF ShapeInv, Goto, Requests
  <2>. QED
    BY <1>1, <1>3, <1>5, <2>1, GenerationStays DEF TimelineIInv, GenerationInv
<1>10. DisjointInv'
  BY <1>0, <1>1 DEF TimelineIInv, DisjointInv, ShapeInv, Goto, Requests
<1>11. CountInv'
  <2>. DEFINE I == {j \in DOMAIN audit : audit[j].action = "TIMELINE_GENERATED"}
              J == {j \in DOMAIN audit' : audit'[j].action = "TIMELINE_GENERATED"}
  <2>1. J = I
    BY <1>0, <1>4, AuditGrows
  <2>2. \A j \in I : audit'[j] = audit[j]
    BY <1>0, <1>4, AuditGrows
  <2>3. CountedCreations' = UNION {{j} \X (1..audit'[j].created) : j \in J}
    BY DEF CountedCreations
  <2>4. CountedCreations = UNION {{j} \X (1..audit[j].created) : j \in I}
    BY DEF CountedCreations
  <2>. HIDE DEF I, J
  <2>5. CountedCreations' = CountedCreations
    BY <2>1, <2>2, <2>3, <2>4
  <2>6. Generated' = Generated
    BY <1>1, <1>5 DEF Generated
  <2>. QED
    BY <1>0, <1>1, <2>5, <2>6 DEF CountInv, AuditedCountsAddUp
<1>12. ASSUME NEW r \in Reader
       PROVE  PageInv(r)'
  <2>1. pc'[r] = pc[r] /\ out'[r] = out[r] /\ page' = page
    BY <1>0, <1>1 DEF ShapeInv, Goto, Requests
  <2>2. IsFiniteSet(DOMAIN timeline') /\ timeline' = timeline
    BY <1>0, <1>1 DEF EventsInv
  <2>. QED
    BY <1>3, <2>1, <2>2, PageStays
<1>. QED
  BY <1>1, <1>2, <1>3, <1>6, <1>7, <1>8, <1>9, <1>10, <1>11, <1>12 DEF TimelineIInv

-----------------------------------------------------------------------------
\* The invariant holds.

\* The values of a function on a finite set.
LEMMA FiniteImage ==
    ASSUME NEW S, IsFiniteSet(S), NEW f, f = [x \in S |-> f[x]]
    PROVE  IsFiniteSet({f[x] : x \in S})
<1>. DEFINE T == {f[x] : x \in S}
<1>1. f \in [S -> T] /\ \A y \in T : \E x \in S : f[x] = y
  OBVIOUS
<1>. HIDE DEF T
<1>2. f \in Surjection(S, T)
  BY <1>1 DEF Surjection
<1>3. IsFiniteSet(T)
  BY <1>2, FS_Surjection
<1>. QED
  BY <1>3 DEF T

LEMMA TimelineStarts == TimelineInit => TimelineIInv
<1>. SUFFICES ASSUME TimelineInit PROVE TimelineIInv
  OBVIOUS
<1>. DEFINE R == RecordsOf(0)
<1>1. /\ DOMAIN artifacts = {0} /\ artifacts[0] = Earlier /\ audit = <<>>
      /\ pc = [r \in Requests |-> "idle"] /\ out = [r \in Requests |-> "none"]
      /\ DOMAIN job = Execution /\ tx = [g \in Generation |-> NoTx]
      /\ page = [r \in Reader |-> [rows |-> 0, offset |-> 0, total |-> 0,
                                   filter |-> None]]
  BY DEF TimelineInit
<1>2. CommittedRecords = R
  BY <1>1 DEF CommittedRecords
<1>3. IsFiniteSet(EventsOf(R)) /\ \A e \in EventsOf(R) : e[1] = 0
  <2>. DEFINE D(i) == DOMAIN NormalEvents(0, i)
              I == DOMAIN Earlier.records
  <2>1. IsFiniteSet(I) /\ \A i \in I : IsFiniteSet(D(i))
    BY <1>1, EarlierAssumption DEF NormalEvents
  <2>2. R = {<<0, i>> : i \in I}
    BY <1>1 DEF RecordsOf
  <2>3. IsFiniteSet(R)
    <3>. DEFINE f == [i \in I |-> <<0, i>>]
    <3>1. f = [i \in I |-> f[i]] /\ {f[i] : i \in I} = R
      BY <2>2
    <3>. HIDE DEF f
    <3>. QED
      BY <2>1, <3>1, FiniteImage
  <2>4. \A i \in I : EventsOfRecord(<<0, i>>) = {<<0, i, k>> : k \in D(i)}
    BY DEF EventsOfRecord
  <2>. HIDE DEF I, D
  <2>5. ASSUME NEW i \in I
        PROVE  IsFiniteSet(EventsOfRecord(<<0, i>>))
    <3>. DEFINE f == [k \in D(i) |-> <<0, i, k>>]
    <3>1. f = [k \in D(i) |-> f[k]]
          /\ {f[k] : k \in D(i)} = {<<0, i, k>> : k \in D(i)}
      OBVIOUS
    <3>. HIDE DEF f
    <3>2. IsFiniteSet({f[k] : k \in D(i)})
      BY <2>1, <3>1, FiniteImage
    <3>. QED
      BY <2>4, <3>1, <3>2
  <2>6. \A r \in R : IsFiniteSet(EventsOfRecord(r))
    BY <2>2, <2>5
  <2>7. IsFiniteSet({EventsOfRecord(r) : r \in R})
    <3>. DEFINE f == [r \in R |-> EventsOfRecord(r)]
    <3>1. f = [r \in R |-> f[r]]
          /\ {f[r] : r \in R} = {EventsOfRecord(r) : r \in R}
      OBVIOUS
    <3>. HIDE DEF f
    <3>. QED
      BY <2>3, <3>1, FiniteImage
  <2>8. IsFiniteSet(EventsOf(R))
    BY <2>6, <2>7, FS_UNION DEF EventsOf
  <2>. QED
    BY <1>1, <1>2, <2>8, WhereEventsAre DEF RecordsOf
<1>4. EventsInv
  <2>1. CASE timeline = <<>>
    BY <2>1, FS_EmptySet DEF EventsInv
  <2>2. CASE timeline = [e \in EventsOf(R) |-> [time |-> TimeOf(e), identity |-> None]]
    BY <1>2, <1>3, <2>2 DEF EventsInv
  <2>. QED
    BY <2>1, <2>2 DEF TimelineInit
<1>5. \A g : GenerationEntries(g) = {}
  BY <1>1 DEF GenerationEntries
<1>6. ASSUME NEW g \in Generation
      PROVE  GenerationInv(g)
  <2>1. tx[g] = NoTx /\ pc[g] = "idle"
    BY <1>1 DEF Requests
  <2>2. EventsOf(NoTx.records) = {} /\ NoTx.records = {} /\ NoTx.inserted = {}
    BY DEF EventsOf, NoTx
  <2>. QED
    BY <1>5, <2>1, <2>2, FS_EmptySet DEF GenerationInv
<1>7. ShapeInv
  <2>1. NoTx \in TxShape
    BY DEF NoTx, TxShape
  <2>2. [rows |-> 0, offset |-> 0, total |-> 0, filter |-> None] \in PageShape
    BY DEF PageShape
  <2>. QED
    BY <1>1, <2>1, <2>2 DEF ShapeInv
<1>8. CountInv
  <2>1. CountedCreations = {} /\ Generated = {}
    BY <1>1, <1>5 DEF CountedCreations, Generated
  <2>2. \A e \in DOMAIN timeline : e[1] = 0
    BY <1>2, <1>3, <1>4 DEF EventsInv
  <2>. QED
    BY <2>1, <2>2, FS_EmptySet DEF CountInv, AuditedCountsAddUp
<1>9. ContractInv /\ DisjointInv /\ \A r \in Reader : PageInv(r)
  BY <1>1 DEF ContractInv, DisjointInv, PageInv, Requests, NoTx
<1>. QED
  BY <1>4, <1>6, <1>7, <1>8, <1>9 DEF TimelineIInv

LEMMA TimelineStays ==
    ASSUME TimelineIInv, UNCHANGED timelineVars
    PROVE  TimelineIInv'
<1>1. UNCHANGED <<dataVars, pc, out, job, tx, page>>
  BY DEF timelineVars, dataVars
<1>2. ArtifactsKept /\ TimelineKept
  BY <1>1 DEF ArtifactsKept, TimelineKept, dataVars
<1>3. ShapeInv' /\ ContractInv' /\ DisjointInv'
  <2>1. TxShape' = TxShape /\ PageShape' = PageShape
    BY <1>1 DEF TxShape, PageShape, CommittedRecords, RecordsOf, EventsOf,
                EventsOfRecord, NormalEvents, dataVars
  <2>. QED
    BY <1>1, <2>1 DEF TimelineIInv, ShapeInv, ContractInv, DisjointInv, dataVars,
                      MeetsContract
<1>4. EventsInv'
  BY <1>1, <1>2, SameEvents, ShapeGrows, WhereEventsAre
     DEF TimelineIInv, EventsInv, dataVars
<1>5. \A g \in Generation : GenerationInv(g)'
  BY <1>1, <1>2, SameData, GenerationStays DEF TimelineIInv, GenerationInv, dataVars
<1>6. CountInv'
  BY <1>1, SameCounts DEF TimelineIInv, dataVars
<1>7. \A r \in Reader : PageInv(r)'
  BY <1>1, PagesStay
<1>. QED
  BY <1>3, <1>4, <1>5, <1>6, <1>7 DEF TimelineIInv

LEMMA TimelineStep ==
    ASSUME TimelineIInv, [TimelineNext]_timelineVars
    PROVE  TimelineIInv'
<1>1. CASE \E e \in Execution : Refuse(e) \/ Execute(e) \/ PersistResult(e)
  BY <1>1, ExecutionKeeps, PersistKeeps
<1>2. CASE \E g \in Generation :
              \/ ReadArtifacts(g) \/ ReadRecords(g) \/ ReadUnknownRecord(g)
              \/ RejectStatement(g) \/ InsertNext(g)
              \/ ReadUnidentified(g) \/ EnrichNext(g) \/ CommitGeneration(g)
  BY <1>2, InsertKeeps, EnrichKeeps, AbandonKeeps, CommitKeeps
<1>3. CASE \E r \in Reader : RejectRange(r) \/ ReadPage(r) \/ CountPage(r)
  BY <1>3, ReaderKeeps
<1>4. CASE \E r \in Requests : Fault(r)
  BY <1>4, ExecutionKeeps, AbandonKeeps, ReaderKeeps DEF Requests
<1>5. CASE UNCHANGED timelineVars
  BY <1>5, TimelineStays
<1>. QED
  BY <1>1, <1>2, <1>3, <1>4, <1>5 DEF TimelineNext, Quiet

\* TimelineIInv is inductive.
THEOREM TimelineInvariant == TimelineSpec => []TimelineIInv
<1>1. TimelineIInv /\ [TimelineNext]_timelineVars => TimelineIInv'
  BY TimelineStep
<1>. QED
  BY <1>1, TimelineStarts, PTL DEF TimelineSpec

LEMMA TimelineTypeFromInv ==
    ASSUME TimelineIInv
    PROVE  TimelineTypeOK
<1>1. \A e \in DOMAIN timeline : timeline[e].time = TimeOf(e)
  BY DEF TimelineIInv, EventsInv
<1>. QED
  BY <1>1 DEF TimelineIInv, ShapeInv, ContractInv, EventsInv, TxShape, TimelineTypeOK

\* Stored artifacts have a final status and meet the contract of parser
\* results, every event has the record it came from and its time, and the
\* requests are where their handlers can be (parser_execution_service.py and
\* timeline_service.py).
THEOREM TimelineTypeCorrect == TimelineSpec => []TimelineTypeOK
<1>1. TimelineIInv => TimelineTypeOK
  BY TimelineTypeFromInv
<1>. QED
  BY <1>1, TimelineInvariant, PTL

\* A generation on record has left every event of the records it read in the
\* timeline, with its identity (timeline_service.py, generate).
THEOREM GenerationsAreComplete == TimelineSpec => []GenerationIsComplete
<1>1. TimelineIInv => GenerationIsComplete
  BY DEF TimelineIInv, GenerationInv, GenerationIsComplete
<1>. QED
  BY <1>1, TimelineInvariant, PTL

\* The creations in the audit trail add up to the events that are new in the
\* timeline, whatever generations ran side by side.
THEOREM AuditedCountsHold == TimelineSpec => []AuditedCountsAddUp
<1>1. TimelineIInv => AuditedCountsAddUp
  BY DEF TimelineIInv, CountInv
<1>. QED
  BY <1>1, TimelineInvariant, PTL

\* The total given with a page covers the page (timeline_service.py,
\* list_events).
THEOREM PagesFitTheirTotal == TimelineSpec => []PageWithinTotal
<1>1. TimelineIInv => PageWithinTotal
  BY DEF TimelineIInv, PageInv, PageWithinTotal
<1>. QED
  BY <1>1, TimelineInvariant, PTL

-----------------------------------------------------------------------------
\* The abstract timeline.

\* What artifact a gives, as TimelineLog sees it.
Gives(a) == [e \in EventsOf(RecordsOf(a)) |-> TimeOf(e)]

Given == [a \in DOMAIN artifacts |-> Gives(a)]

Logged == [e \in DOMAIN timeline |-> timeline[e].time]

\* A stored artifact gives the same ever after.
LEMMA GivesTheSame ==
    ASSUME ArtifactsKept
    PROVE  \A a \in DOMAIN artifacts : Gives(a)' = Gives(a)
<1>. SUFFICES ASSUME NEW a \in DOMAIN artifacts
              PROVE  Gives(a)' = Gives(a)
  OBVIOUS
<1>1. \A r \in RecordsOf(a) : r[1] = a
  BY DEF RecordsOf
<1>2. EventsOf(RecordsOf(a))' = EventsOf(RecordsOf(a))
  BY <1>1, SameEvents DEF EventsOf
<1>3. \A e \in EventsOf(RecordsOf(a)) : TimeOf(e)' = TimeOf(e)
  BY <1>1, SameEvents, WhereEventsAre
<1>. QED
  BY <1>2, <1>3 DEF Gives

\* A commit adds all that the artifacts it has read give.
LEMMA CommitIsGenerate ==
    ASSUME TimelineIInv, TimelineIInv', NEW g \in Generation, CommitGeneration(g)
    PROVE  Log!Generate
<1>. DEFINE R == tx[g].records
            S == {r[1] : r \in R}
            found == UNION {EventsOf(RecordsOf(s)) : s \in S}
<1>1. /\ R \subseteq CommittedRecords /\ \A r \in R : RecordsOf(r[1]) \subseteq R
      /\ tx[g].inserted \subseteq EventsOf(R)
      /\ EventsOf(R) \subseteq tx[g].inserted \union DOMAIN timeline
  BY DEF TimelineIInv, GenerationInv, ShapeInv, TxShape, CommitGeneration
<1>2. DOMAIN timeline' = DOMAIN timeline \union tx[g].inserted /\ artifacts' = artifacts
  BY DEF CommitGeneration
<1>3. S \subseteq DOMAIN artifacts
  BY <1>1, WhereEventsAre
<1>4. found = EventsOf(R)
  <2>1. UNION {RecordsOf(s) : s \in S} = R
    BY <1>1, WhereEventsAre
  <2>. QED
    BY <2>1 DEF EventsOf
<1>5. DOMAIN timeline' = DOMAIN timeline \union found
  BY <1>1, <1>2, <1>4
<1>6. \A e \in DOMAIN timeline' : timeline'[e].time = TimeOf(e)
  <2>1. \A e \in DOMAIN timeline' : timeline'[e].time = TimeOf(e)'
    BY DEF TimelineIInv, EventsInv
  <2>2. \A e : TimeOf(e)' = TimeOf(e)
    BY <1>2 DEF TimeOf, NormalEvents
  <2>. QED
    BY <2>1, <2>2
<1>7. \A e \in DOMAIN timeline : timeline[e].time = TimeOf(e)
  BY TimelineTypeFromInv DEF TimelineTypeOK
<1>8. \A o \in found \ DOMAIN timeline :
         LET s == CHOOSE s \in S : o \in DOMAIN Given[s] IN Given[s][o] = TimeOf(o)
  <2>1. ASSUME NEW o \in found
        PROVE  \E s \in S : o \in DOMAIN Given[s]
    BY <1>3 DEF Given, Gives
  <2>2. \A s \in S : \A o \in DOMAIN Given[s] : Given[s][o] = TimeOf(o)
    BY <1>3 DEF Given, Gives
  <2>. QED
    BY <2>1, <2>2
<1>9. UNION {DOMAIN Given[s] : s \in S} = found
  BY <1>3 DEF Given, Gives
<1>. HIDE DEF S, found
<1>10. Logged' = [o \in DOMAIN Logged \union UNION {DOMAIN Given[s] : s \in S} |->
                    IF o \in DOMAIN Logged THEN Logged[o]
                    ELSE LET s == CHOOSE s \in S : o \in DOMAIN Given[s] IN Given[s][o]]
  BY <1>5, <1>6, <1>7, <1>8, <1>9 DEF Logged
<1>11. Given' = Given
  BY <1>2 DEF Given, Gives, EventsOf, EventsOfRecord, RecordsOf, TimeOf, NormalEvents
<1>12. S \in SUBSET DOMAIN Given
  BY <1>3 DEF Given
<1>. QED
  BY <1>10, <1>11, <1>12 DEF Log!Generate, Log!Completed, Given, Gives, Logged

\* An execution adds a source.
LEMMA PersistIsAddSource ==
    ASSUME TimelineIInv, NEW e \in Execution, PersistResult(e)
    PROVE  Log!AddSource
<1>1. /\ ArtifactsKept /\ e \notin DOMAIN artifacts /\ timeline' = timeline
      /\ DOMAIN artifacts' = DOMAIN artifacts \union {e}
  BY PersistKeeps DEF PersistResult
<1>2. DOMAIN Given' = DOMAIN Given \union {e} /\ e \notin DOMAIN Given
  BY <1>1 DEF Given
<1>3. \A a \in DOMAIN Given : Given'[a] = Given[a]
  <2>1. \A a \in DOMAIN artifacts : Given[a] = Gives(a) /\ Given'[a] = Gives(a)'
    BY <1>1 DEF Given
  <2>. QED
    BY <1>1, <2>1, GivesTheSame DEF Given
<1>4. Logged' = Logged
  BY <1>1 DEF Logged
<1>. QED
  BY <1>2, <1>3, <1>4 DEF Log!AddSource, Given, Gives, Logged

\* Every step is one of the abstract timeline or does not show.
LEMMA TimelineStepMaps ==
    ASSUME TimelineIInv, TimelineIInv', [TimelineNext]_timelineVars
    PROVE  [Log!Next]_Log!logVars
<1>1. CASE \E e \in Execution : PersistResult(e)
  BY <1>1, PersistIsAddSource DEF Log!Next
<1>2. CASE \E g \in Generation : CommitGeneration(g)
  BY <1>2, CommitIsGenerate DEF Log!Next
<1>3. CASE UNCHANGED <<artifacts, timeline>>
  <2>1. Given' = Given /\ Logged' = Logged
    BY <1>3 DEF Given, Gives, Logged, EventsOf, EventsOfRecord, RecordsOf, TimeOf,
                NormalEvents
  <2>. QED
    BY <2>1 DEF Log!logVars, Given, Gives, Logged
<1>. QED
  BY <1>1, <1>2, <1>3
     DEF TimelineNext, Refuse, Execute, ReadArtifacts, ReadRecords, ReadUnknownRecord,
         RejectStatement, InsertNext, ReadUnidentified, EnrichNext, RejectRange, ReadPage,
         CountPage, Fault, Quiet, dataVars, timelineVars

\* Executions only add sources, and a generation adds, in one step, every
\* missing event of whole artifacts and nothing else: TimelineGeneration
\* implements TimelineLog.
THEOREM TimelineRefinesLog == TimelineSpec => ImplementsTimeline
<1>1. TimelineInit => Log!Init
  <2>. SUFFICES ASSUME TimelineInit PROVE Log!Init
    OBVIOUS
  <2>1. EventsInv
    BY TimelineStarts DEF TimelineIInv
  <2>2. EventsOf(CommittedRecords) = UNION {DOMAIN Given[a] : a \in DOMAIN Given}
    BY DEF EventsOf, CommittedRecords, Given, Gives
  <2>3. DOMAIN Logged \subseteq UNION {DOMAIN Given[a] : a \in DOMAIN Given}
    BY <2>1, <2>2 DEF EventsInv, Logged
  <2>. QED
    BY <2>3 DEF Log!Init, Log!Known, Given, Gives, Logged
<1>2. TimelineIInv /\ TimelineIInv' /\ [TimelineNext]_timelineVars
         => [Log!Next]_Log!logVars
  BY TimelineStepMaps
<1>. QED
  BY <1>1, <1>2, TimelineInvariant, PTL DEF TimelineSpec, ImplementsTimeline, Log!Spec

=============================================================================
