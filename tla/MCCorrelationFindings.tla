------------------------- MODULE MCCorrelationFindings -------------------------
(* CorrelationFindings over a timeline of five events. *)
EXTENDS CorrelationFindings

Row(type, time, process, name, path) ==
    [type |-> type, time |-> time, process |-> process, name |-> name, path |-> path]

\* A process creation, a prefetch time at the end of the window, links to the
\* same and to another file of the same name, and an NTFS time without a path.
MCGiven ==
    <<Row("EVTX", 3, TRUE, 15, <<1, 2, 15>>),
      Row("PREFETCH", 5, FALSE, 5, None),
      Row("LNK", 2, FALSE, None, <<1, 12, 5>>),
      Row("LNK", 3, FALSE, None, <<1, 4, 5>>),
      Row("NTFS", 2, FALSE, 5, None)>>

Symmetry == Permutations(Run) \union Permutations(Review)

=============================================================================
