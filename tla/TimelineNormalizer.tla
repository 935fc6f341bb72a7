--------------------------- MODULE TimelineNormalizer ---------------------------
(***************************************************************************)
(* services/timeline_normalizer.py: the timeline events a parsed record    *)
(* gives.  An event is [type, source, ordinal, time, raw]; the first three *)
(* are, with the record, its logical identity in the database.  A time is  *)
(* None where the source has no timezone or cannot be represented.         *)
(***************************************************************************)
EXTENDS ParserResults

Event(type, source, ordinal, time, raw) ==
    [type |-> type, source |-> source, ordinal |-> ordinal, time |-> time, raw |-> raw]

LogicalIdentity(e) == <<e.type, e.source, e.ordinal>>

Events(events, warnings) == [events |-> events, warnings |-> warnings]

\* One event per FILETIME that is set, in the order of the fields.
PerTime(times, EventAt(_)) ==
    LET set == {i \in DOMAIN times : times[i].raw # None}
    IN  [k \in 1..Cardinality(set) |-> EventAt(InOrder(set)[k])]

\* _evtx
EvtxEvents(record) ==
    IF record.text = None THEN Events(<<>>, 1)
    ELSE Events(<<Event("EVTX_EVENT", "evtx", 0,
                        IF record.text = "aware" THEN 1 ELSE record.eventTime,
                        record.text)>>, 0)

\* extract_evtx_process_identity: only Security 4688, and only the first item
\* called NewProcessName; 0 is a blank value.
ProcessIdentity(record) ==
    IF ~record.creation \/ record.names = <<>> THEN None
    ELSE IF record.names[1] = 0 THEN None ELSE record.names[1]

\* _registry: keys only.
RegistryEvents(record) ==
    IF record.type # "key" THEN Events(<<>>, 0)
    ELSE Events(<<Event("REGISTRY_KEY_LAST_WRITE", "registry", 0,
                        IF record.aware THEN 1 ELSE None, record.key)>>, 0)

\* _prefetch: the ordinal is the place among the times that are set.
PrefetchEvents(record) ==
    IF record.times = <<>> THEN Events(<<>>, 1)
    ELSE Events(PerTime(record.times, LAMBDA i :
            Event("PREFETCH_EXECUTION", i, i, record.times[i].iso, record.times[i].raw)), 0)

\* _lnk: creation, access, modification.
LnkFields == <<"creation", "access", "modification">>

LnkEvents(record) ==
    Events(PerTime(record.times, LAMBDA i :
        Event(LnkFields[i], "header", i, record.times[i].iso, record.times[i].raw)), 0)

\* _ntfs_family
NtfsFamily(times, family, ordinal) ==
    PerTime(times, LAMBDA i : Event(family, i, ordinal, times[i].iso, times[i].raw))

\* Seeded fault: the names of a record are not told apart.
NtfsEventsUnnumbered(record) ==
    IF "boot" \in DOMAIN record THEN Events(<<>>, 0)
    ELSE Events((IF record.si = None THEN <<>> ELSE NtfsFamily(record.si, "SI", 0))
                \o FlattenSeq([i \in DOMAIN record.fns |->
                                  NtfsFamily(record.fns[i], "FN", 0)]), 0)

\* _ntfs: the ordinal tells the $FILE_NAME attributes of one record apart.
NtfsEvents(record) ==
    IF "boot" \in DOMAIN record THEN Events(<<>>, 0)
    ELSE Events((IF record.si = None THEN <<>> ELSE NtfsFamily(record.si, "SI", 0))
                \o FlattenSeq([i \in DOMAIN record.fns |->
                                  NtfsFamily(record.fns[i], "FN", i - 1)]), 0)

\* normalize: one mapping per artifact type.
Normalize(format, record) ==
    CASE format = "EVTX"     -> EvtxEvents(record)
      [] format = "REGISTRY" -> RegistryEvents(record)
      [] format = "PREFETCH" -> PrefetchEvents(record)
      [] format = "LNK"      -> LnkEvents(record)
      [] format = "NTFS_MFT" -> NtfsEvents(record)

=============================================================================
