---------------------------- MODULE ForensicParsers ----------------------------
(***************************************************************************)
(* The way of one stored file through the backend: the parser registered   *)
(* for its artifact type reads it, the execution service validates the     *)
(* result, and a timeline generation normalizes the stored records.  The   *)
(* decoders are the five parsers' own; the inputs are given by Jobs.       *)
(*                                                                         *)
(* A job is [format, file].  What a file was written to contain is carried *)
(* along in it (written), for the properties only.                         *)
(***************************************************************************)
EXTENDS MftDecoder, LnkDecoder, PrefetchDecoder, HiveDecoder, EvtxDecoder,
        TimelineNormalizer

CONSTANT Jobs   \* the files looked at

IsJob(j) ==
    /\ j.format \in {"EVTX", "REGISTRY", "PREFETCH", "LNK", "NTFS_MFT"}
    /\ j.format = "EVTX" => IsLog(j.file)
    /\ j.format = "REGISTRY" => IsHive(j.file)
    /\ j.format = "PREFETCH" => IsPrefetch(j.file)
    /\ j.format = "LNK" => IsLink(j.file)
    /\ j.format = "NTFS_MFT" => IsTable(j.file)

ASSUME JobsAssumption == \A j \in Jobs : IsJob(j)

-----------------------------------------------------------------------------
\* What a record of a master file table was written from (the format, not the
\* code).  A slot's written is [words, numbers]: the words of the record, and for
\* each sector the number of the write it comes from.

Torn(slot) == \E i \in DOMAIN slot.written.numbers :
                 slot.written.numbers[i] # slot.written.numbers[1]

\* Each sector ends with the number of its write; the array, in the first
\* sector, has that number and the words it replaced.
IsStored(slot) ==
    LET sectors == Len(slot.written.numbers)
        size == Len(slot.words) \div sectors
    IN  /\ slot.written.numbers \in Seq(Nat) /\ slot.written.words \in Seq(Nat)
        /\ sectors > 0 /\ Len(slot.usa) = sectors + 1
        /\ Len(slot.words) = sectors * size /\ Len(slot.written.words) = Len(slot.words)
        /\ slot.usa[1] = slot.written.numbers[1]
        /\ \A i \in 1..sectors : slot.words[i * size] = slot.written.numbers[i]
        /\ ~Torn(slot) => \A k \in DOMAIN slot.words :
              IF k % size = 0 THEN slot.usa[1 + k \div size] = slot.written.words[k]
              ELSE slot.words[k] = slot.written.words[k]

\* An attribute's written is [runs, cuts, whole]: its runs, where in the bytes
\* each begins and the last ends, and whether the list was not cut short there.

\* The bytes are the digits of a value, the least significant one first; the
\* last is one of the given, and may so have a sign.
IsNumber(bytes, value, given) ==
    LET left[i \in 1..Len(bytes)] == IF i = 1 THEN value ELSE left[i - 1] \div 256
    IN  /\ \A i \in 1..Len(bytes) : bytes[i] = left[i] % 256
        /\ left[Len(bytes)] \in given

RunFits(bytes, o) ==
    LET n == bytes[o] % 16
        m == bytes[o] \div 16
    IN  /\ n \in 1..8 /\ m \in 0..8 /\ o + n + m <= Len(bytes)
        /\ \E k \in 1..n : bytes[o + k] # 0

\* The position a run is relative to.
Base(runs, i) ==
    LET real == {j \in 1..i - 1 : runs[j].lcn # None}
    IN  IF real = {} THEN 0 ELSE runs[Max(real)].lcn

\* The i-th run begins at o.
IsRun(bytes, o, runs, i) ==
    LET n == bytes[o] % 16
        m == bytes[o] \div 16
    IN  /\ RunFits(bytes, o)
        /\ IsNumber(SubSeq(bytes, o + 1, o + n), runs[i].count, 0..255)
        /\ IF m = 0 THEN runs[i].lcn = None
           ELSE /\ runs[i].lcn # None
                /\ IsNumber(SubSeq(bytes, o + n + 1, o + n + m),
                            runs[i].lcn - Base(runs, i), -128..127)

IsRunList(bytes, written) ==
    LET runs == written.runs
        cuts == written.cuts
        end == cuts[Len(cuts)]
    IN  /\ runs \in Seq([count : Nat, lcn : Int \union {None}])
        /\ cuts \in Seq(1..Len(bytes) + 1) /\ Len(cuts) = Len(runs) + 1 /\ cuts[1] = 1
        /\ \A i \in DOMAIN runs :
              /\ cuts[i] <= Len(bytes) /\ bytes[cuts[i]] # 0
              /\ IsRun(bytes, cuts[i], runs, i)
              /\ cuts[i + 1] = cuts[i] + 1 + (bytes[cuts[i]] % 16) + (bytes[cuts[i]] \div 16)
        /\ IF written.whole THEN end = Len(bytes) + 1 \/ bytes[end] = 0
           ELSE end <= Len(bytes) /\ bytes[end] # 0 /\ ~RunFits(bytes, end)

\* A link's written is what it was written from: body (all of its bytes), at
\* (where its sections begin), values and target (what they say), warned (the
\* warnings each is worth), late (its header times that no datetime can
\* represent), items and blocks with their cuts.

Sections == {"ids", "info", "relative", "arguments"}

After == [ids |-> "info", info |-> "relative", relative |-> "arguments", arguments |-> "extra"]

Texts == Seq(Nat) \union {None}

InfoValues == [local : Texts, suffix : Texts, volume : Texts, share : Texts]

LinkValues == [ids : Seq(Seq(Nat)), info : InfoValues, relative : Texts, arguments : Texts]

\* Bound: the sizes a damaged unit may have.
DamagedSizes == 0..999

\* Units that begin with their size, one after the other.  What follows the last
\* of them is no unit: nothing, a part of a size, or a size that is none (0, the
\* terminator, is too small for one).
IsUnits(bytes, units, cuts, width, least) ==
    LET end == cuts[Len(cuts)]
        field(o) == SubSeq(bytes, o, o + width - 1)
    IN  /\ units \in Seq(Seq(Nat))
        /\ cuts \in Seq(1..Len(bytes) + 1) /\ Len(cuts) = Len(units) + 1 /\ cuts[1] = 1
        /\ \A i \in DOMAIN units :
              /\ Len(units[i]) >= least /\ cuts[i + 1] = cuts[i] + Len(units[i])
              /\ units[i] = SubSeq(bytes, cuts[i], cuts[i + 1] - 1)
              /\ IsNumber(field(cuts[i]), Len(units[i]), 0..255)
        /\ \/ end + width - 1 > Len(bytes)
           \/ \E size \in DamagedSizes :
                 size \notin least..Len(bytes) + 1 - end /\ IsNumber(field(end), size, 0..255)

\* The bytes end at o, or a terminator does.
Terminated(bytes, o, width) ==
    \/ o > Len(bytes)
    \/ o + width - 1 <= Len(bytes) /\ \A k \in 1..width : bytes[o + k - 1] = 0

IsIdList(w, from, to) ==
    LET list == SubSeq(w.body, from + 1, to - 1)
        first == SubSeq(w.items, 1, MaxItems)
    IN  /\ to = from + 1 + w.body[from]
        /\ IsUnits(list, w.items, w.cuts.items, ItemWidth, LeastItem)
        /\ w.values.ids = IF Len(w.items) < MaxItems THEN w.items ELSE first
        /\ w.warned.ids =
              Cardinality({i \in DOMAIN w.values.ids : Unclassified(w.values.ids[i])})
              + (IF /\ Len(w.items) < MaxItems
                    /\ Terminated(list, w.cuts.items[Len(w.items) + 1], ItemWidth)
                 THEN 0 ELSE 1)

IsInfo(w, from, to) ==
    LET optional(byte) == IF byte = Undecodable THEN None ELSE Text(byte)
    IN  /\ w.body[from] >= InfoSize /\ to = from + w.body[from]
        /\ w.values.info = [local |-> Text(w.body[from + 1]), suffix |-> Text(w.body[from + 2]),
                            volume |-> optional(w.body[from + 3]),
                            share |-> optional(w.body[from + 4])]
        /\ w.warned.info = Cardinality({k \in {3, 4} : w.body[from + k] = Undecodable})

IsString(w, section, from, to) ==
    /\ to = from + 1 + w.body[from]
    /\ w.values[section] = SubSeq(w.body, from + 1, to - 1)
    /\ w.warned[section] = 0

IsSection(section, w, from, to) ==
    /\ from <= Len(w.body) /\ to <= Len(w.body) + 1
    /\ section = "ids" => IsIdList(w, from, to)
    /\ section = "info" => IsInfo(w, from, to)
    /\ section \notin {"ids", "info"} => IsString(w, section, from, to)

\* The text a link can not do without.
NeededText(w, section, from, to) ==
    CASE section = "ids" -> {}
      [] section = "info" -> {w.body[from + 1], w.body[from + 2]}
      [] OTHER -> {w.body[k] : k \in from + 1..to - 1}

\* The local path ends with the suffix, which is not repeated.
PathOf(values) ==
    LET info == values.info
    IN  CASE info.local # None ->
                IF info.suffix \in {None, info.local} THEN info.local
                ELSE info.local \o info.suffix
          [] info.local = None /\ info.share # None ->
                IF info.suffix = None THEN info.share ELSE info.share \o info.suffix
          [] OTHER -> values.relative

IsWritten(link) ==
    LET w == link.written
    IN  /\ w.body \in Seq(Nat) /\ w.at \in [Sections \union {"extra"} -> Nat] /\ w.at.ids = 1
        /\ w.values \in LinkValues /\ w.warned \in [Sections -> Nat]
        /\ \A s \in Sections :
              IF s \in link.flags THEN IsSection(s, w, w.at[s], w.at[After[s]])
              ELSE w.at[After[s]] = w.at[s] /\ w.values[s] = NoValues[s] /\ w.warned[s] = 0
        /\ IsUnits(SubSeq(w.body, w.at.extra, Len(w.body)), w.blocks, w.cuts.blocks,
                   BlockWidth, LeastBlock)
        /\ w.target = PathOf(w.values)
        /\ w.late = Cardinality({i \in DOMAIN link.times : link.times[i] > MaxFiletime})
        /\ Len(link.body) <= Len(w.body) /\ link.body = SubSeq(w.body, 1, Len(link.body))
        /\ ~link.cut =>
              /\ link.body = w.body
              /\ \A s \in link.flags : Undecodable \notin NeededText(w, s, w.at[s], w.at[After[s]])

ASSUME WrittenAssumption ==
    /\ Malformed \notin Seq([count : Nat, lcn : Int \union {None}])
    /\ Malformed \notin [value : Seq(Seq(Nat)) \union InfoValues \union Texts,
                        next : Nat, warnings : Nat]
    /\ Malformed \notin [next : Nat, warnings : Nat, values : LinkValues]
    /\ \A j \in Jobs : j.format = "LNK" /\ j.file.signed /\ j.file.header => IsWritten(j.file)
    /\ \A j \in Jobs : j.format = "NTFS_MFT" =>
          \A s \in ToSet(j.file.slots) :
             s.sig = "FILE" =>
                /\ IsStored(s)
                /\ \A a \in ToSet(s.area) :
                      a.type = "DATA" => IsRunList(a.runs, a.written)

-----------------------------------------------------------------------------

VARIABLES
    job,
    stage,      \* "stored", "parsed", "normalized"
    result,     \* the artifact and its records
    events      \* for each record, the timeline events it gives

parserVars == <<job, stage, result, events>>

\* parser_registry
Registry ==
    LET evtx     == Register(<< >>, "EVTX", {"EVTX"})
        registry == Register(evtx, "REGISTRY", {"REGISTRY"})
        prefetch == Register(registry, "PREFETCH", {"PREFETCH"})
        lnk      == Register(prefetch, "LNK", {"LNK"})
    IN  Register(lnk, "NTFS_MFT", {"NTFS_MFT"})

Outcome(j) ==
    CASE Registry[j.format] = "EVTX"     -> ParseEvtx(j.file)
      [] Registry[j.format] = "REGISTRY" -> ParseHive(j.file)
      [] Registry[j.format] = "PREFETCH" -> ParsePrefetch(j.file)
      [] Registry[j.format] = "LNK"      -> ParseLnk(j.file)
      [] Registry[j.format] = "NTFS_MFT" -> ParseMft(j.file)

ParsersInit ==
    /\ job \in Jobs
    /\ stage = "stored"
    /\ result = Without("FAILED")
    /\ events = <<>>

\* ParserExecutionService.execute
Parse ==
    /\ stage = "stored"
    /\ stage' = "parsed"
    /\ result' = Validated(Outcome(job))
    /\ UNCHANGED <<job, events>>

\* TimelineService.generate, for the records of this artifact.
NormalizeRecords ==
    /\ stage = "parsed"
    /\ stage' = "normalized"
    /\ events' = [i \in DOMAIN result.records |->
                     Normalize(job.format, result.records[i]).events]
    /\ UNCHANGED <<job, result>>

ParsersNext == Parse \/ NormalizeRecords

ParsersSpec == ParsersInit /\ [][ParsersNext]_parserVars

-----------------------------------------------------------------------------
\* Properties

Read(format) == stage # "stored" /\ job.format = format

Succeeded == result.status \in {"COMPLETED", "COMPLETED_WITH_WARNINGS"}

\* No parser ever hands the execution service a result that its own contract
\* refuses (forensic/parser.py, validate_status_contract), so that a stored
\* FAILED artifact is never one whose records were thrown away for their form.
ResultsMeetContract ==
    stage # "stored" => Outcome(job) = None \/ MeetsContract(Outcome(job))

\* A record that is not in the result has a warning in it or an unreadable
\* parent: nothing of a successful parse is lost without a trace
\* (docs/development.md, "Malformed records and chunks become retained
\* warnings when traversal can continue").
NothingLostSilently ==
    /\ Read("NTFS_MFT") /\ Succeeded =>
          Cardinality({i \in DOMAIN result.records : "boot" \notin DOMAIN result.records[i]})
            + result.warnings
          >= Cardinality({i \in DOMAIN Examined(job.file) :
                             Examined(job.file)[i].sig # "zero"})
    /\ Read("EVTX") /\ Succeeded =>
          Len(result.records) + result.warnings =
             Total([i \in DOMAIN job.file.chunks |->
                       Len(job.file.chunks[i].records)
                       + (IF job.file.chunks[i].broken THEN 1 ELSE 0)])
    /\ Read("PREFETCH") /\ Succeeded =>
          (result.status = "COMPLETED" <=>
             /\ job.file.declared # "less"
             /\ job.file.paths \in {"none", "sound"}
             /\ result.records[1].volumes = job.file.volumes.count
             /\ Len(result.records[1].times) =
                   Cardinality({i \in 1..TimesOf(job.file.version) :
                        i <= Len(job.file.times) /\ job.file.times[i] # 0})
             /\ \A i \in 1..TimesOf(job.file.version) :
                   i <= Len(job.file.times) /\ job.file.times[i] <= MaxFiletime)

\* A record of the master file table that is kept is what was written as one:
\* a record some sectors of which belong to another write is never taken for
\* one (ntfs_mft.py, _apply_fixup).
WordsReadBack ==
    Read("NTFS_MFT") =>
        \A i \in DOMAIN job.file.slots :
            LET slot == job.file.slots[i]
                record == RecordOf(slot, job.file.sectorSize)
            IN  slot.sig = "FILE" /\ record \notin {None, Malformed} =>
                    ~Torn(slot) /\ record.words = slot.written.words

\* The run lists of a record that is kept decode to the clusters they were
\* encoded from, and none of them was cut short (ntfs_mft.py, _data_runs).
RunListsReadBack ==
    Read("NTFS_MFT") =>
        \A i \in DOMAIN job.file.slots :
            LET slot == job.file.slots[i]
                record == RecordOf(slot, job.file.sectorSize)
                data == OfType(Attributes(slot.area), "DATA")
            IN  slot.sig = "FILE" /\ record \notin {None, Malformed} =>
                    /\ \A k \in DOMAIN data : data[k].written.whole
                    /\ record.data = [k \in DOMAIN data |-> data[k].written.runs]

\* A record that is kept is the one that was written, in its words and in its
\* clusters.
KeptRecordsReadBack == WordsReadBack /\ RunListsReadBack

\* The last of the blocks that is a tracker.
IsTracker(tracker, blocks) ==
    LET trackers == {i \in DOMAIN blocks : /\ blocks[i][BlockWidth + 1] = TrackerSignature
                                           /\ Len(blocks[i]) >= TrackerSize}
    IN  IF trackers = {} THEN tracker = None
        ELSE \E i \in trackers : tracker = blocks[i] /\ \A k \in trackers : k <= i

\* A link reads back as it was written.  One whose end was cut off (or some text
\* of which is garbled) fails, or lacks nothing but the blocks of its ExtraData
\* that are not whole: lnk.py warns unless what is left ends with a whole block
\* or with the terminator, also when the cut is inside of the terminator.
LinksReadBack ==
    Read("LNK") /\ job.file.signed /\ job.file.header =>
        LET link == NormalizeLink(job.file)
            written == job.file.written
            blocks == written.blocks
            cuts == written.cuts.blocks
            rest == SubSeq(job.file.body, written.at.extra, Len(job.file.body))
        IN  \/ job.file.cut /\ link = Malformed
            \/ /\ link.values = written.values
               /\ link.target = written.target
               /\ \E n \in 0..Len(blocks) :
                     /\ \A k \in DOMAIN blocks : k <= n <=> cuts[k + 1] <= Len(rest) + 1
                     /\ IsTracker(link.tracker, SubSeq(blocks, 1, n))
                     /\ link.warnings =
                           written.late + written.warned.ids + written.warned.info
                           + (IF Terminated(rest, cuts[n + 1], BlockWidth) THEN 0 ELSE 1)

\* The keys a walk can reach: not below one whose subkeys cannot be read.
Reachable(hive) ==
    {k \in hive.keys : \A p \in hive.keys :
        IsStrictPrefix(p, k) => "subkeys" \notin hive.unreadable[p]}

Before(p, q) ==
    \/ IsStrictPrefix(p, q)
    \/ \E i \in DOMAIN p \intersect DOMAIN q :
          /\ p[i] < q[i]
          /\ \A j \in 1..i - 1 : p[j] = q[j]

\* The walk of a hive with its explicit stack visits every reachable key once,
\* in the order of the key paths, a key before those below it, so that two
\* parses of the same hive give the same records in the same order.
HiveInPathOrder ==
    Read("REGISTRY") /\ Succeeded =>
        LET found == {i \in DOMAIN result.records : result.records[i].type = "key"}
        IN  /\ {result.records[i].key : i \in found} = Reachable(job.file)
            /\ \A i, j \in found :
                  i < j => Before(result.records[i].key, result.records[j].key)

TimesSet(times) == Cardinality({i \in DOMAIN times : times[i].raw # None})

\* The source timestamps a stored file has, told apart as the files' formats do.
SourceTimes(record, format) ==
    CASE format = "NTFS_MFT" ->
            IF "boot" \in DOMAIN record THEN 0
            ELSE (IF record.si = None THEN 0 ELSE TimesSet(record.si))
                 + Total([i \in DOMAIN record.fns |-> TimesSet(record.fns[i])])
      [] format \in {"LNK", "PREFETCH"} -> TimesSet(record.times)
      [] format = "EVTX" -> IF record.text = None THEN 0 ELSE 1
      [] format = "REGISTRY" -> IF record.type = "key" THEN 1 ELSE 0

\* Every timestamp of a record becomes an event of its own.  The database keeps
\* one event per record and logical identity and drops the others without a
\* word (ON CONFLICT DO NOTHING), so two events of one record must not share it.
EveryTimestampIsOneEvent ==
    stage = "normalized" =>
        \A i \in DOMAIN result.records :
            Cardinality({LogicalIdentity(events[i][k]) : k \in DOMAIN events[i]})
            = SourceTimes(result.records[i], job.format)

=============================================================================
