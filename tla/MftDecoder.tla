------------------------------ MODULE MftDecoder ------------------------------
(***************************************************************************)
(* forensic/ntfs_mft.py: an MFT record stream, or a raw volume of which    *)
(* only the first MFT record is read.                                      *)
(*                                                                         *)
(* A slot of record_size bytes is                                          *)
(*   sig    its first four bytes: "FILE", "zero" or "other";               *)
(*   usa    the update sequence array, its sequence number first;          *)
(*   words  the 16-bit words of the record;                                *)
(*   area   from the first attribute to the used size, in cells of the     *)
(*          least attribute's size; a cell is an attribute header or, past *)
(*          one, content nobody reads.                                     *)
(* An attribute is [type, length, resident, sound, times, runs]; sound     *)
(* says that its name and value, or the run list, start and end inside it; *)
(* times are the FILETIMEs of a resident $STANDARD_INFORMATION ("SI") or   *)
(* $FILE_NAME ("FN"), runs the run list of a non-resident attribute.       *)
(***************************************************************************)
EXTENDS ParserResults

IsAttribute(a) ==
    /\ a.length \in Nat /\ a.resident \in BOOLEAN /\ a.sound \in BOOLEAN
    /\ a.times \in Seq(Nat) /\ a.runs \in Seq(0..255)
    /\ a.resident => a.runs = <<>>

-----------------------------------------------------------------------------
\* Update sequence fixup

\* Seeded fault: only the first sector is compared with the sequence number.
FixupFirstSector(slot, sectorSize) ==
    LET sectors == Len(slot.usa) - 1
        tail(i) == i * (Len(slot.words) \div sectors)
    IN  IF sectors < 1 THEN Malformed
        ELSE IF slot.words[tail(1)] # slot.usa[1] THEN Malformed
        ELSE [k \in DOMAIN slot.words |->
                 IF \E i \in 1..sectors : k = tail(i)
                 THEN slot.usa[1 + (CHOOSE i \in 1..sectors : k = tail(i))]
                 ELSE slot.words[k]]

\* _apply_fixup: the last word of every sector must be the sequence number and
\* is replaced by the word the array keeps for it.
ApplyFixup(slot, sectorSize) ==
    LET sectors == Len(slot.usa) - 1
        size == Len(slot.words) \div sectors
        tail(i) == i * size
    IN  IF sectors < 1 THEN Malformed
        ELSE IF Len(slot.words) % sectors # 0 \/ size # sectorSize THEN Malformed
        ELSE IF \E i \in 1..sectors : slot.words[tail(i)] # slot.usa[1] THEN Malformed
        ELSE [k \in DOMAIN slot.words |->
                 IF k % size = 0 THEN slot.usa[1 + k \div size] ELSE slot.words[k]]

-----------------------------------------------------------------------------
\* Data runs of a non-resident attribute

\* Bounds: MAX_ATTRIBUTES and MAX_DATA_RUNS, scaled.
MaxAttributes == 3
MaxRuns == 3

\* More than the limit are refused, and so is what was refused already.
AtMost(limit, all) ==
    IF all = Malformed THEN Malformed
    ELSE IF Len(all) > limit THEN Malformed ELSE all

\* Seeded fault: an offset is read as a number without a sign.
SignedAsUnsigned(bytes) == LittleEndian(bytes)

\* The most significant byte is negative from 128 on.
Signed(bytes) ==
    Number(Front(bytes), IF Last(bytes) < 128 THEN Last(bytes) ELSE Last(bytes) - 256)

\* _data_runs: a header byte gives the width of the length and of the signed
\* offset, relative to the previous run that has one; a width of 0 is sparse.
DataRuns(data) ==
    LET walk[at \in (1..Len(data) + 1) \X Int] ==
          LET o == at[1]
              n == data[o] % 16
              m == data[o] \div 16
              count == LittleEndian(SubSeq(data, o + 1, o + n))
              next == IF m = 0 THEN at[2]
                      ELSE at[2] + Signed(SubSeq(data, o + n + 1, o + n + m))
          IN  IF o > Len(data) THEN <<>>
              ELSE IF data[o] = 0 THEN <<>>
              ELSE IF n = 0 \/ n > 8 \/ m > 8 THEN Malformed
              ELSE IF o + n + m > Len(data) THEN Malformed
              ELSE IF count = 0 THEN Malformed
              ELSE LET rest == walk[<<o + 1 + n + m, next>>]
                   IN  IF rest = Malformed THEN Malformed
                       ELSE <<[count |-> count,
                               lcn |-> IF m = 0 THEN None ELSE next]>> \o rest
    IN  AtMost(MaxRuns, walk[<<1, 0>>])

-----------------------------------------------------------------------------
\* Attributes

\* What _attributes and _non_resident check of one attribute beyond its length.
Sound(a) == a.sound /\ (a.resident \/ DataRuns(a.runs) # Malformed)

\* _attributes: the chain of attributes up to the terminator.
Attributes(area) ==
    LET walk[o \in 1..Len(area) + 1] ==
          IF o > Len(area) THEN Malformed
          ELSE IF area[o].type = "END" THEN <<>>
          ELSE IF area[o].length < 1 \/ o + area[o].length > Len(area) + 1 THEN Malformed
          ELSE IF ~Sound(area[o]) THEN Malformed
          ELSE LET rest == walk[o + area[o].length]
               IN  IF rest = Malformed THEN Malformed ELSE <<area[o]>> \o rest
    IN  AtMost(MaxAttributes, walk[1])

\* _timestamps: four FILETIMEs, a warning for each that has no datetime.
Timestamps(values) == [i \in DOMAIN values |-> Filetime(values[i])]

Unrepresented(times) == {i \in DOMAIN times : Unrepresentable(times[i])}

OfType(attributes, t) ==
    KeepAt(attributes, {i \in DOMAIN attributes : attributes[i].type = t})

\* _record.  None stands for the KeyError of item["parsed"]: a non-resident
\* attribute has no "parsed", and parse does not catch a KeyError.
RecordFrom(fixed, attributes) ==
    LET standard == OfType(attributes, "SI")
        names == OfType(attributes, "FN")
        data == OfType(attributes, "DATA")
        both == standard \o names
        resident == KeepAt(both, {i \in DOMAIN both : both[i].resident})
    IN  IF standard # <<>> /\ ~standard[1].resident THEN None
        ELSE IF \E i \in DOMAIN names : ~names[i].resident THEN None
        ELSE [words |-> fixed,
              si |-> IF standard = <<>> THEN None ELSE Timestamps(standard[1].times),
              data |-> [i \in DOMAIN data |-> DataRuns(data[i].runs)],
              fns |-> [i \in DOMAIN names |-> Timestamps(names[i].times)],
              warnings |-> Total([i \in DOMAIN resident |->
                  Cardinality(Unrepresented(Timestamps(resident[i].times)))])]

UnlessMalformed(fixed, attributes) ==
    IF fixed = Malformed \/ attributes = Malformed THEN Malformed
    ELSE RecordFrom(fixed, attributes)

RecordOf(slot, sectorSize) ==
    UnlessMalformed(ApplyFixup(slot, sectorSize), Attributes(slot.area))

-----------------------------------------------------------------------------
\* The file

\* _layout: a boot sector, a stream of FILE records, or neither.
Layouts == {"volume", "stream", "unsupported", "invalid"}

IsTable(file) ==
    /\ file.layout \in Layouts /\ file.trailing \in BOOLEAN
    /\ file.sectorSize \in Nat \ {0}
    /\ file.slots \in Seq(ToSet(file.slots))
    /\ \A s \in ToSet(file.slots) :
          /\ s.sig \in {"FILE", "zero", "other"}
          /\ s.usa \in Seq(Nat) /\ s.words \in Seq(Nat)
          /\ s.area \in Seq(ToSet(s.area))
          /\ \A a \in ToSet(s.area) : IsAttribute(a)

\* A volume is read for one record; a stream to the last complete one.
Examined(file) ==
    IF file.layout = "volume"
    THEN SubSeq(file.slots, 1, IF file.slots = <<>> THEN 0 ELSE 1)
    ELSE file.slots

WithSignature(slots, sig) == {i \in DOMAIN slots : slots[i].sig = sig}

Outcomes(file) ==
    LET slots == KeepAt(Examined(file), WithSignature(Examined(file), "FILE"))
    IN  [i \in DOMAIN slots |-> RecordOf(slots[i], file.sectorSize)]

\* Seeded fault: a record that cannot be decoded is dropped without a word.
SkippedUnseen(file, outcomes) == Cardinality(WithSignature(Examined(file), "other"))

\* Records that were skipped, each with a warning of its own.
Skipped(file, outcomes) ==
    Cardinality(WithSignature(Examined(file), "other"))
    + Cardinality({i \in DOMAIN outcomes : outcomes[i] = Malformed})

\* parse, of a file of a known layout.  None is an exception that leaves it.
ParseRecords(file, outcomes) ==
    LET kept == KeepAt(outcomes, {i \in DOMAIN outcomes : outcomes[i] # Malformed})
        warned == Total([i \in DOMAIN kept |-> kept[i].warnings])
        trailing == IF file.layout = "stream" /\ file.trailing THEN 1 ELSE 0
        boot == IF file.layout = "volume" THEN <<[boot |-> TRUE]>> ELSE <<>>
    IN  IF \E i \in DOMAIN outcomes : outcomes[i] = None THEN None
        ELSE IF kept = <<>> THEN Without("FAILED")
        ELSE Completed(boot \o kept, Skipped(file, outcomes) + warned + trailing)

ParseMft(file) ==
    IF file.layout = "unsupported" THEN Without("UNSUPPORTED")
    ELSE IF file.layout = "invalid" THEN Without("FAILED")
    ELSE ParseRecords(file, Outcomes(file))

=============================================================================
