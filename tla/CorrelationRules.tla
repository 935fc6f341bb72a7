---------------------------- MODULE CorrelationRules ----------------------------
(***************************************************************************)
(* correlation/rules.py: which pairs of timeline events the rules relate,  *)
(* and the candidate each pair gives.                                      *)
(*                                                                         *)
(* An event is [type, time, process, name, path]: its family, its time or  *)
(* None, whether it is event 4688 of the Security channel, the name in its *)
(* metadata (process_name or application_name) and the path (process_path, *)
(* target_path or, for NTFS, full_path; name is then filename).  A path is *)
(* the sequence of its parts, and is absolute if the first is Drive; a     *)
(* part is a number whose last digit is the part and whose tens are its    *)
(* spelling in upper and lower case.                                       *)
(***************************************************************************)
EXTENDS Integers, Sequences, SequencesExt

CONSTANT None

Drive == 1

Fold(part) == part % 10

\* _name, _path, _basename, _full_path: None for what is no text.
Name(value) == IF value = None THEN None ELSE Fold(value)

Path(value) == IF value = None THEN None ELSE [i \in DOMAIN value |-> Fold(value[i])]

Basename(value) == IF value = None THEN None ELSE Last(Path(value))

FullPath(value) ==
    IF value = None THEN None
    ELSE IF Path(value)[1] = Drive THEN Path(value) ELSE None

\* _process_events
ProcessEvents(events) ==
    {e \in DOMAIN events : /\ events[e].type = "EVTX"
                           /\ events[e].process
                           /\ Name(events[e].name) # None
                           /\ events[e].time # None}

OfFamily(events, family) == {e \in DOMAIN events : events[e].type = family}

\* Seeded fault: an event exactly at the end of the window is left out.
StrictlyWithinWindow(a, b, window) ==
    a.time # None /\ b.time # None /\ a.time - b.time < window /\ b.time - a.time < window

\* _within_window
WithinWindow(a, b, window) ==
    IF a.time = None \/ b.time = None THEN FALSE
    ELSE (IF a.time < b.time THEN b.time - a.time ELSE a.time - b.time) <= window

\* _identity_time_pairs, as a set: the candidates are sorted afterwards, and
\* the order decides on nothing but the order of the inserts.
IdentityTimePairs(events, left, right, Identity(_), window) ==
    {p \in left \X right :
        /\ Identity(events[p[2]]) # None
        /\ Name(events[p[1]].name) = Identity(events[p[2]])
        /\ WithinWindow(events[p[1]], events[p[2]], window)}

Candidate(rule, p, basis, identity) ==
    [rule |-> rule, a |-> p[1], b |-> p[2], basis |-> basis, identity |-> identity]

\* EvtxPrefetchRule.evaluate
EvtxPrefetch(events, window) ==
    {Candidate("EVTX-PREFETCH", p, "basename", <<Name(events[p[1]].name)>>)
        : p \in IdentityTimePairs(events, ProcessEvents(events), OfFamily(events, "PREFETCH"),
                                  LAMBDA e : Name(e.name), window)}

\* By path if both are known and the same, by name otherwise.
ByPath(rule, events, p, Known(_)) ==
    LET process == Known(events[p[1]].path)
        exact == process # None /\ process = Known(events[p[2]].path)
    IN  Candidate(rule, p, IF exact THEN "exact" ELSE "basename",
                  IF exact THEN process ELSE <<Name(events[p[1]].name)>>)

\* LnkEvtxRule.evaluate: two full paths that differ refute the name.
LnkEvtx(events, window) ==
    LET full(e) == FullPath(events[e].path)
        pairs == IdentityTimePairs(events, ProcessEvents(events), OfFamily(events, "LNK"),
                                   LAMBDA e : Basename(e.path), window)
    IN  {ByPath("LNK-EVTX", events, p, FullPath)
            : p \in {q \in pairs : \/ None \in {full(q[1]), full(q[2])}
                                   \/ full(q[1]) = full(q[2])}}

\* NtfsEvtxRule.evaluate: the paths only raise the confidence.
NtfsEvtx(events, window) ==
    {ByPath("NTFS-EVTX", events, p, Path)
        : p \in IdentityTimePairs(events, ProcessEvents(events), OfFamily(events, "NTFS"),
                                  LAMBDA e : Name(e.name), window)}

\* RegistryEvtxRule.evaluate finds nothing, and says so in a warning.
RegistryWarnings == 1

Candidates(events, window) ==
    EvtxPrefetch(events, window) \union LnkEvtx(events, window) \union NtfsEvtx(events, window)

\* Seeded fault: the window is part of the identity of a match.
MatchKeyWithWindow(candidate, window) == <<candidate, window>>

\* _match_key: rule, the two events in the order of their ids, basis and
\* identity; the window is not in it.
MatchKey(candidate, window) ==
    [rule |-> candidate.rule, events |-> {candidate.a, candidate.b},
     basis |-> candidate.basis, identity |-> candidate.identity]

=============================================================================
