------------------------------ MODULE EvtxDecoder ------------------------------
(***************************************************************************)
(* forensic/evtx.py.  An event log is [elf, chunks, stop]: its signature,  *)
(* the chunks, and the number of chunks after which reading the next chunk *)
(* header raises (None if it never does).  A chunk is [records, broken]:   *)
(* the records it yields, and whether the iteration raises after them.  A  *)
(* record is [xml, time, creation, names]: whether its XML can be read,    *)
(* its SystemTime ("aware", "naive", "none" or "garbled"), whether it is   *)
(* event 4688 of the Security channel, and the values of its EventData     *)
(* items called NewProcessName.                                            *)
(***************************************************************************)
EXTENDS ParserResults

IsLog(file) ==
    /\ file.elf \in BOOLEAN
    /\ file.chunks \in Seq(ToSet(file.chunks))
    /\ \A c \in ToSet(file.chunks) :
          /\ c.broken \in BOOLEAN
          /\ c.records \in Seq([xml : BOOLEAN, time : {"aware", "naive", "none", "garbled"},
                                creation : BOOLEAN, names : Seq(Nat)])

\* _parse_event_time: only an aware timestamp gives an event time.
EventTime(record) == IF record.time = "aware" THEN 1 ELSE None

\* _normalize_record: a timestamp that is no ISO text raises.
Normalizable(record) == record.xml /\ record.time # "garbled"

NormalizeEvent(record) ==
    [eventTime |-> EventTime(record),
     text |-> IF record.time = "none" THEN None ELSE record.time,
     creation |-> record.creation,
     names |-> record.names]

\* The records of one chunk: those that cannot be normalized and the end of a
\* broken chunk are a warning each; the next chunk is read in any case.
ReadChunk(chunk) ==
    LET good == {i \in DOMAIN chunk.records : Normalizable(chunk.records[i])}
        kept == KeepAt(chunk.records, good)
    IN  [records |-> [i \in DOMAIN kept |-> NormalizeEvent(kept[i])],
         warnings |-> Len(chunk.records) - Cardinality(good)
                      + (IF chunk.broken THEN 1 ELSE 0)]

ParseEvtx(log) ==
    LET read == [i \in DOMAIN log.chunks |-> ReadChunk(log.chunks[i])]
    IN  IF ~log.elf THEN Without("UNSUPPORTED")
        ELSE IF log.stop # None THEN Without("FAILED")
        ELSE Completed(FlattenSeq([i \in DOMAIN read |-> read[i].records]),
                       Total([i \in DOMAIN read |-> read[i].warnings]))

=============================================================================
