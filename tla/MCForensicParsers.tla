--------------------------- MODULE MCForensicParsers ---------------------------
(* ForensicParsers over small files of each format. *)
EXTENDS ForensicParsers

Upto(S, n) == UNION {[1..k -> S] : k \in 0..n}

-----------------------------------------------------------------------------
\* Master file tables: two sectors of two words, written as version 1 or 2.

Words(v) == <<10, v, 20, v + 2>>

Image(first, second) ==
    [usa |-> <<first, first, first + 2>>,
     words |-> <<10, first, 20, second>>]

\* The run list of clusters at absolute positions (None: sparse).
Runs == {<<>>, <<[count |-> 3, lcn |-> 5]>>,
         <<[count |-> 3, lcn |-> 300], [count |-> 1, lcn |-> None],
           [count |-> 2, lcn |-> 290]>>,
         <<[count |-> 1, lcn |-> None], [count |-> 260, lcn |-> 7]>>,
         [i \in 1..4 |-> [count |-> 1, lcn |-> 2 * i]]}   \* one too many

TwoBytes(n) == <<n % 256, (n \div 256) % 256>>

\* Encoded with a two-byte length and a two-byte offset.
EncodeRuns(runs) ==
    FlattenSeq([i \in DOMAIN runs |->
        IF runs[i].lcn = None THEN <<2>> \o TwoBytes(runs[i].count)
        ELSE <<34>> \o TwoBytes(runs[i].count)
             \o TwoBytes(runs[i].lcn - Base(runs, i) + 65536)]) \o <<0>>

Attribute(t, length, resident, sound, times, runs) ==
    [type |-> t, length |-> length, resident |-> resident, sound |-> sound,
     times |-> times, runs |-> runs,
     written |-> [runs |-> <<>>, cuts |-> <<1>>, whole |-> TRUE]]

SI(times) == Attribute("SI", 1, TRUE, TRUE, times, <<>>)
FN(times) == Attribute("FN", 1, TRUE, TRUE, times, <<>>)

\* Where the runs begin in the bytes.
Cuts(runs) ==
    [i \in 1..Len(runs) + 1 |->
        1 + MapThenSumSet(LAMBDA j : IF runs[j].lcn = None THEN 3 ELSE 5, 1..i - 1)]

Data(runs) ==
    [Attribute("DATA", 1, FALSE, TRUE, <<>>, EncodeRuns(runs)) EXCEPT
        !.written = [runs |-> runs, cuts |-> Cuts(runs), whole |-> TRUE]]

\* What is left of a run list that was cut short or overwritten after some runs.
CutShort(runs, bytes) ==
    [Attribute("DATA", 1, FALSE, TRUE, <<>>,
               SubSeq(EncodeRuns(runs), 1, Cuts(runs)[Len(runs) + 1] - 1) \o bytes) EXCEPT
        !.written = [runs |-> runs, cuts |-> Cuts(runs), whole |-> FALSE]]

END == Attribute("END", 1, TRUE, TRUE, <<>>, <<>>)

Times == {<<1, 2, 0, 1>>, <<4, 0, 3, 3>>}

Areas ==
    {<<SI(t), FN(u), END>> : t, u \in Times}
    \union {<<SI(<<1, 1, 1, 1>>), FN(t), FN(t), END>> : t \in Times}
    \union {<<Data(r), END>> : r \in Runs}
    \union {<<CutShort(r, b), END>> : r \in {<<>>, <<[count |-> 3, lcn |-> 5]>>},
                                     b \in {<<33, 1>>, <<16, 1, 0>>}}
    \union {<<Data(<<[count |-> 3, lcn |-> 5]>>), Data(<<[count |-> 2, lcn |-> 9]>>), END>>,
            <<SI(<<1, 1, 1, 1>>)>>,
            [i \in 1..4 |-> FN(<<1, 1, 1, 1>>)] \o <<END>>,
            <<[SI(<<1, 1, 1, 1>>) EXCEPT !.length = 3], END>>,
            <<[SI(<<1, 1, 1, 1>>) EXCEPT !.length = 0], END>>,
            <<[SI(<<1, 1, 1, 1>>) EXCEPT !.length = 2], FN(<<1, 1, 1, 1>>), END>>,
            <<[FN(<<1, 1, 1, 1>>) EXCEPT !.sound = FALSE], END>>,
            <<[FN(<<1, 1, 1, 1>>) EXCEPT !.resident = FALSE, !.runs = <<0>>], END>>,
            <<[SI(<<1, 1, 1, 1>>) EXCEPT !.resident = FALSE, !.runs = <<0>>], END>>}

Slots ==
    {[sig |-> s, usa |-> <<1>>, words |-> Words(1), area |-> <<END>>,
      written |-> [words |-> Words(1), numbers |-> <<1, 1>>]] : s \in {"zero", "other"}}
    \union
    {[sig |-> "FILE", usa |-> Image(v, w).usa, words |-> Image(v, w).words, area |-> a,
      written |-> [words |-> Words(v), numbers |-> <<v, w>>]]
        : v \in {1, 2}, w \in {1, 2}, a \in Areas}

Tables ==
    {[layout |-> l, slots |-> <<>>, trailing |-> FALSE, sectorSize |-> 2] : l \in Layouts}
    \union
    {[layout |-> l, slots |-> s, trailing |-> t, sectorSize |-> z]
        : l \in {"volume", "stream"}, s \in [1..1 -> Slots],
          t \in BOOLEAN, z \in {2, 4}}
    \union
    {[layout |-> l, slots |-> s, trailing |-> FALSE, sectorSize |-> 2]
        : l \in {"volume", "stream"}, s \in [1..2 -> Slots]}

-----------------------------------------------------------------------------
\* Links, written by a writer of the format and cut off anywhere.

Item(bytes) == <<2 + Len(bytes), 0>> \o bytes

Ids == {<<>>, <<Item(<<1>>)>>, <<Item(<<1, 5>>), Item(<<6>>)>>,
        <<Item(<<>>), Item(<<1>>), Item(<<1>>), Item(<<1>>)>>}

Classified == {Item(<<1>>), Item(<<1, 5>>)}

\* What ends a list of items: a terminator, nothing, a part of a size, sizes
\* that are too small and too large.
Ended == {<<0, 0>>, <<>>}

Ends == Ended \union {<<4>>, <<1, 0, 7>>, <<9, 0, 1>>}

Info(l, s, v, n) == <<5, l, s, v, n>>

Infos == {Info(1, 0, 0, 0), Info(1, 2, 3, 0), Info(2, 2, 9, 0), Info(0, 2, 0, 4),
          Info(0, 0, 0, 0)}

Block(bytes) == <<4 + Len(bytes), 0, 0, 0>> \o bytes

Blocks == {<<>>, <<Block(<<5>>)>>, <<Block(<<7, 1>>), Block(<<7>>), Block(<<7, 2>>)>>}

List(ids, end) == FlattenSeq(ids) \o end

EncodeLink(flags, ids, end, info, relative, blocks) ==
    (IF "ids" \in flags THEN <<Len(List(ids, end))>> \o List(ids, end) ELSE <<>>)
    \o (IF "info" \in flags THEN info ELSE <<>>)
    \o (IF "relative" \in flags THEN <<Len(relative)>> \o relative ELSE <<>>)
    \o FlattenSeq(blocks) \o <<0, 0, 0, 0>>

Kept(ids) == SubSeq(ids, 1, Min({Len(ids), MaxItems}))

\* Where the units begin, and the last ends.
UnitCuts(units) == [i \in 1..Len(units) + 1 |-> 1 + Len(FlattenSeq(SubSeq(units, 1, i - 1)))]

Written(flags, ids, end, info, relative, blocks, times, body) ==
    LET text(b) == IF b \in {0, 9} THEN None ELSE <<b>>
        size(section, n) == IF section \in flags THEN n ELSE 0
        atInfo == 1 + size("ids", 1 + Len(List(ids, end)))
        atString == atInfo + size("info", 5)
        atExtra == atString + size("relative", 1 + Len(relative))
        path == CASE info[2] # 0 /\ info[3] # 0 /\ info[2] # info[3] -> <<info[2], info[3]>>
                  [] info[2] # 0 /\ (info[3] = 0 \/ info[2] = info[3]) -> <<info[2]>>
                  [] info[2] = 0 /\ info[5] # 0 ->
                        IF info[3] = 0 THEN <<info[5]>> ELSE <<info[5], info[3]>>
                  [] OTHER -> IF "relative" \in flags THEN relative ELSE None
    IN  [body |-> body,
         at |-> [ids |-> 1, info |-> atInfo, relative |-> atString,
                 arguments |-> atExtra, extra |-> atExtra],
         items |-> ids, blocks |-> blocks,
         cuts |-> [items |-> UnitCuts(ids), blocks |-> UnitCuts(blocks)],
         values |->
            [ids |-> IF "ids" \in flags THEN Kept(ids) ELSE <<>>,
             info |-> IF "info" \in flags
                      THEN [local |-> text(info[2]), suffix |-> text(info[3]),
                            volume |-> text(info[4]), share |-> text(info[5])]
                      ELSE NoInfo,
             relative |-> IF "relative" \in flags THEN relative ELSE None,
             arguments |-> None],
         target |-> IF "info" \in flags THEN path
                    ELSE IF "relative" \in flags THEN relative ELSE None,
         late |-> Cardinality({i \in DOMAIN times : times[i] > MaxFiletime}),
         warned |->
            [ids |-> IF "ids" \in flags
                     THEN Cardinality({i \in DOMAIN Kept(ids) : ids[i] \notin Classified})
                          + (IF Len(ids) < MaxItems /\ end \in Ended THEN 0 ELSE 1)
                     ELSE 0,
             info |-> IF "info" \in flags /\ 9 \in {info[4], info[5]} THEN 1 ELSE 0,
             relative |-> 0, arguments |-> 0]]

LinksOf(flags, ids, end, info, relative, blocks, times) ==
    LET body == EncodeLink(flags, ids, end, info, relative, blocks)
        written == Written(flags, ids, end, info, relative, blocks, times, body)
    IN  {[signed |-> TRUE, header |-> TRUE, flags |-> flags, times |-> times,
          body |-> SubSeq(body, 1, n), cut |-> n # Len(body), written |-> written]
            : n \in 0..Len(body)}

NoItems(flags, info, relative, blocks, times) ==
    LinksOf(flags, <<>>, <<>>, info, relative, blocks, times)

Links ==
    UNION {LinksOf(f \union {"ids"}, i, <<0, 0>>, n, <<3, 3>>, b, <<1, 0, 2>>)
              : f \in SUBSET {"info", "relative"}, i \in Ids, n \in Infos, b \in Blocks}
    \union UNION {LinksOf({"ids", "relative"}, i, e, Info(0, 0, 0, 0), <<3, 3>>, <<>>, <<1, 0, 2>>)
              : i \in Ids, e \in Ends}
    \union UNION {NoItems(f, n, <<3, 3>>, b, <<1, 0, 2>>)
              : f \in SUBSET {"info", "relative"}, n \in Infos, b \in Blocks}
    \union NoItems({"relative"}, Info(0, 0, 0, 0), <<3>>, <<>>, <<4, 4, 0>>)
    \union {[link EXCEPT !.cut = TRUE] :   \* its string can not be decoded
              link \in NoItems({"relative"}, Info(0, 0, 0, 0), <<9>>, <<>>, <<1, 0, 2>>)}
    \union {[signed |-> s, header |-> FALSE, flags |-> {}, times |-> <<0, 0, 0>>,
             body |-> <<>>, cut |-> TRUE, written |-> <<>>] : s \in BOOLEAN}

-----------------------------------------------------------------------------

Prefetches ==
    {[sig |-> "SCCA", version |-> v, header |-> h, declared |-> d, times |-> t,
      paths |-> p, volumes |-> [count |-> Len(e), inside |-> i, entries |-> e]]
        : v \in {17, 30}, h \in BOOLEAN, d \in {"unset", "equal", "less", "more"},
          t \in {<<>>, <<1>>, <<0, 2, 1>>, <<4, 1, 0>>}, p \in {"none", "outside", "garbled"},
          i \in BOOLEAN, e \in Upto(BOOLEAN, 3)}
    \union
    {[sig |-> s, version |-> v, header |-> TRUE, declared |-> "equal", times |-> <<1>>,
      paths |-> "sound", volumes |-> [count |-> 0, inside |-> TRUE, entries |-> <<>>]]
        : s \in {"SCCA", "MAM", "other"}, v \in {17, 18}}

\* Hives with up to six keys in three levels.
HiveKeys == {{<<>>, <<1>>, <<2>>, <<1, 1>>, <<1, 2>>, <<2, 1>>}, {<<>>, <<3>>, <<3, 1>>, <<3, 1, 1>>}}

Hives ==
    UNION {{[regf |-> g, known |-> n, keys |-> keys, aware |-> a,
             unreadable |-> [k \in keys |-> IF k = bad THEN f ELSE {}],
             values |-> [k \in keys |-> IF k = bad THEN [good |-> 2, bad |-> 1]
                                        ELSE [good |-> 1, bad |-> 0]]]
              : g, n, a \in BOOLEAN, bad \in keys, f \in SUBSET {"key", "values", "subkeys"}}
           : keys \in HiveKeys}

LogRecords ==
    {[xml |-> x, time |-> t, creation |-> TRUE, names |-> <<1>>]
        : x \in BOOLEAN, t \in {"aware", "naive", "none", "garbled"}}

Logs ==
    {[elf |-> e, chunks |-> <<[records |-> r, broken |-> b], [records |-> s, broken |-> FALSE]>>,
      stop |-> h]
        : e, b \in BOOLEAN, r \in Upto(LogRecords, 2), s \in Upto(LogRecords, 1),
          h \in {None, 1}}

MCJobs ==
    [format : {"NTFS_MFT"}, file : Tables]
    \union [format : {"LNK"}, file : Links]
    \union [format : {"PREFETCH"}, file : Prefetches]
    \union [format : {"REGISTRY"}, file : Hives]
    \union [format : {"EVTX"}, file : Logs]

=============================================================================
