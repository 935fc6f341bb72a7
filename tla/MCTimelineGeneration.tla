-------------------------- MODULE MCTimelineGeneration --------------------------
(* TimelineGeneration with a few executions of three formats. *)
EXTENDS TimelineGeneration

Log4688(text, names) ==
    [eventTime |-> IF text = "aware" THEN 1 ELSE None, text |-> text,
     creation |-> TRUE, names |-> names]

MCEarlier ==
    [format |-> "EVTX", status |-> "COMPLETED", warnings |-> 0, errors |-> 0,
     records |-> <<Log4688("aware", <<7>>), Log4688("naive", <<7, 8>>)>>]

File(n) == [si |-> <<Filetime(2), Filetime(0)>>, fns |-> [i \in 1..n |-> <<Filetime(4)>>]]

\* Events with and without a time, a record without an event, a parser that
\* raises and one that returns a result its contract refuses.
MCOutcomes ==
    {[format |-> "EVTX",
      outcome |-> Completed(<<Log4688("aware", <<0>>), Log4688(None, <<>>)>>, 0)],
     [format |-> "NTFS_MFT", outcome |-> Completed(<<File(1)>>, 1)],
     [format |-> "NTFS_MFT", outcome |-> Completed(<<File(2)>>, 2)],
     [format |-> "LNK", outcome |-> None],
     [format |-> "LNK", outcome |-> [Without("FAILED") EXCEPT !.status = "RUNNING"]]}

MCFilters ==
    {[format |-> None, from |-> None, to |-> None],
     [format |-> None, from |-> 2, to |-> 1],
     [format |-> "EVTX", from |-> 1, to |-> None]}

Symmetry == Permutations(Generation)

=============================================================================
