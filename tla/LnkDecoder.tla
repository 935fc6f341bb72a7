------------------------------ MODULE LnkDecoder ------------------------------
(***************************************************************************)
(* forensic/lnk.py: the sections of a Shell Link that follow its header,   *)
(* read one after the other with one running offset.                       *)
(*                                                                         *)
(* A link is [signed, header, flags, times, body]: the class id matches,   *)
(* the header is complete and of the right size, the link flags as a set,  *)
(* the FILETIMEs of the header, and the bytes after it.  Scaled: the size  *)
(* or count a section begins with takes one byte, of which nothing can be  *)
(* cut off (a part of it fails as its absence does), LinkInfo is five      *)
(* bytes (its size and the four things it points to), and the signature of *)
(* an ExtraData block one.  Shell items and ExtraData blocks have sizes of *)
(* their real widths, two bytes and four, a part of which may be left.     *)
(***************************************************************************)
EXTENDS ParserResults

IsLink(file) ==
    /\ file.signed \in BOOLEAN /\ file.header \in BOOLEAN
    /\ file.flags \subseteq {"ids", "info", "relative", "arguments"}
    /\ file.times \in [1..3 -> Nat]
    /\ file.body \in Seq(Nat)

\* The bytes of the size of a shell item and of an ExtraData block.
ItemWidth == 2
BlockWidth == 4

\* Bounds: the sizes of the real format, scaled (a shell item is at least its
\* size there, too).
InfoSize == 5
LeastItem == 2
LeastBlock == 5
TrackerSize == 6
MaxItems == 3

\* The one shell item class and the one block signature told apart.
KnownClass == 1
TrackerSignature == 7

\* Seeded fault: a unit that ends with the data is taken for a truncated one.
FitsShort(data, o, size) == o + size <= Len(data)

Fits(data, o, size) == o + size <= Len(data) + 1

\* uint16 and uint32
SizeAt(data, o, width) == LittleEndian(SubSeq(data, o, o + width - 1))

\* Seeded fault: bytes left where the next size should be are passed over.
NoTrailing(data, o) == 0

Trailing(data, o) == IF o > Len(data) THEN 0 ELSE 1

\* Units that begin with their size, up to the terminator; a size that leaves
\* the data ends the walk with a warning, and so does a part of a size.  Nothing
\* is said of a missing terminator when the last unit ends with the data.
Units(data, width, least) ==
    LET walk[o \in 1..Len(data) + 1] ==
          LET size == SizeAt(data, o, width)
              rest == walk[o + size]
          IN  IF o + width - 1 > Len(data)
              THEN [items |-> <<>>, warnings |-> Trailing(data, o)]
              ELSE IF size = 0 THEN [items |-> <<>>, warnings |-> 0]
              ELSE IF size < least \/ ~Fits(data, o, size) THEN [items |-> <<>>, warnings |-> 1]
              ELSE [items |-> <<SubSeq(data, o, o + size - 1)>> \o rest.items,
                    warnings |-> rest.warnings]
    IN  walk[1]

Unclassified(item) == Len(item) <= ItemWidth \/ item[ItemWidth + 1] # KnownClass

\* The first shell items, an unknown class of one is a warning.  The limit is
\* one too, whatever follows the last item.
FirstItems(all) ==
    LET limit == Len(all.items) >= MaxItems
        items == IF limit THEN SubSeq(all.items, 1, MaxItems) ELSE all.items
    IN  [items |-> items,
         warnings |-> (IF limit THEN 1 ELSE all.warnings)
                      + Cardinality({i \in DOMAIN items : Unclassified(items[i])})]

\* _id_list
IdList(data) == FirstItems(Units(data, ItemWidth, LeastItem))

\* The target id list section: [value, next, warnings] or Malformed.
TargetIds(body, o) ==
    IF o > Len(body) THEN Malformed
    ELSE IF o + body[o] > Len(body) THEN Malformed
    ELSE LET list == IdList(SubSeq(body, o + 1, o + body[o]))
         IN  [value |-> list.items, next |-> o + 1 + body[o], warnings |-> list.warnings]

\* c_string: 0 points nowhere, 9 is text that cannot be decoded.
Unset == 0
Undecodable == 9

Text(byte) == IF byte = Unset THEN None ELSE <<byte>>

\* _link_info: a volume or network block that cannot be decoded is a warning,
\* a path that cannot is fatal.
LinkInfo(body, o) ==
    IF o > Len(body) THEN Malformed
    ELSE IF body[o] < InfoSize \/ o + body[o] > Len(body) + 1 THEN Malformed
    ELSE IF Undecodable \in {body[o + 1], body[o + 2]} THEN Malformed
    ELSE [value |-> [local |-> Text(body[o + 1]),
                     suffix |-> Text(body[o + 2]),
                     volume |-> IF body[o + 3] = Undecodable THEN None ELSE Text(body[o + 3]),
                     share |-> IF body[o + 4] = Undecodable THEN None ELSE Text(body[o + 4])],
          next |-> o + body[o],
          warnings |-> Cardinality({k \in {3, 4} : body[o + k] = Undecodable})]

\* _string_data: a count, then that many characters.
StringData(body, o) ==
    IF o > Len(body) THEN Malformed
    ELSE IF o + body[o] > Len(body) THEN Malformed
    ELSE IF \E k \in 1..body[o] : body[o + k] = Undecodable THEN Malformed
    ELSE [value |-> SubSeq(body, o + 1, o + body[o]), next |-> o + 1 + body[o], warnings |-> 0]

\* _extra_data
ExtraData(data) == Units(data, BlockWidth, LeastBlock)

\* The tracker block; a later one replaces an earlier one.
Tracker(blocks) ==
    LET trackers == {i \in DOMAIN blocks :
                        blocks[i][BlockWidth + 1] = TrackerSignature /\ Len(blocks[i]) >= TrackerSize}
    IN  IF trackers = {} THEN None ELSE blocks[Max(trackers)]

\* _target_path: the local path with its suffix, else the network share, else
\* the relative path.
TargetPath(info, relative) ==
    CASE info.local # None ->
            IF info.suffix # None /\ ~IsSuffix(info.suffix, info.local)
            THEN info.local \o info.suffix ELSE info.local
      [] info.local = None /\ info.share # None ->
            IF info.suffix # None THEN info.share \o info.suffix ELSE info.share
      [] OTHER -> relative

NoInfo == [local |-> None, suffix |-> None, volume |-> None, share |-> None]

-----------------------------------------------------------------------------
\* Sections in the order the file has them; the strings are a few of five.

ReadSection(section, body, o) ==
    CASE section = "ids"  -> TargetIds(body, o)
      [] section = "info" -> LinkInfo(body, o)
      [] OTHER            -> StringData(body, o)

With(sofar, section, read) ==
    IF read = Malformed THEN Malformed
    ELSE [next |-> read.next,
          warnings |-> sofar.warnings + read.warnings,
          values |-> [sofar.values EXCEPT ![section] = read.value]]

\* One section, if its flag is set and nothing before it failed.
ReadNext(link, sofar, section) ==
    IF sofar = Malformed \/ section \notin link.flags THEN sofar
    ELSE With(sofar, section, ReadSection(section, link.body, sofar.next))

NoValues == [ids |-> <<>>, info |-> NoInfo, relative |-> None, arguments |-> None]

LinkRecord(times, read, extra) ==
    [values |-> read.values,
     tracker |-> Tracker(extra.items),
     target |-> TargetPath(read.values.info, read.values.relative),
     times |-> times,
     warnings |-> read.warnings + extra.warnings]

\* The record of the sections, and of the blocks after the last of them.
UnlessTruncated(link, times, read) ==
    IF read = Malformed THEN Malformed
    ELSE LinkRecord(times, read,
                    ExtraData(SubSeq(link.body, read.next, Len(link.body))))

\* _normalize
NormalizeLink(link) ==
    LET times == [i \in DOMAIN link.times |-> Filetime(link.times[i])]
        late == Cardinality({i \in DOMAIN times : Unrepresentable(times[i])})
        begin == [next |-> 1, warnings |-> late, values |-> NoValues]
        ids == ReadNext(link, begin, "ids")
        info == ReadNext(link, ids, "info")
        relative == ReadNext(link, info, "relative")
    IN  UnlessTruncated(link, times, ReadNext(link, relative, "arguments"))

LinkResult(record) ==
    IF record = Malformed THEN Without("FAILED")
    ELSE Completed(<<record>>, record.warnings)

ParseLnk(link) ==
    IF ~link.signed THEN Without("UNSUPPORTED")
    ELSE IF ~link.header THEN Without("FAILED")
    ELSE LinkResult(NormalizeLink(link))

=============================================================================
