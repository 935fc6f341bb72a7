---------------------------- MODULE PrefetchDecoder ----------------------------
(***************************************************************************)
(* forensic/prefetch.py.  A prefetch file is                               *)
(*   [sig, version, header, declared, times, paths, volumes]:              *)
(* its signature ("SCCA", "MAM" or "other"), the format version, whether   *)
(* the header is complete, how the declared size compares with the stored  *)
(* one ("unset", "equal", "less", "more"), the FILETIMEs the file has room *)
(* for, the path section ("none", "sound", "outside", "garbled") and the   *)
(* volume section [count, inside, entries], entries[i] saying whether the  *)
(* i-th entry can be decoded.                                              *)
(***************************************************************************)
EXTENDS ParserResults

IsPrefetch(file) ==
    /\ file.header \in BOOLEAN
    /\ file.declared \in {"unset", "equal", "less", "more"}
    /\ file.paths \in {"none", "sound", "outside", "garbled"}
    /\ file.times \in Seq(Nat)
    /\ file.volumes.inside \in BOOLEAN
    /\ file.volumes.entries \in Seq(BOOLEAN)
    /\ file.volumes.count = Len(file.volumes.entries)

SupportedVersions == {17, 23, 26, 30, 31}

\* Bounds: the eight times of the later versions and the volume limit, scaled.
ManyTimes == 3
MaxVolumes == 2

TimesOf(version) == IF version \in {17, 23} THEN 1 ELSE ManyTimes

\* _execution: all the times, or none and a warning.
Execution(file) ==
    LET n == TimesOf(file.version)
        times == [i \in 1..n |-> Filetime(file.times[i])]
    IN  IF Len(file.times) < n THEN [times |-> <<>>, warnings |-> 1]
        ELSE [times |-> times,
              warnings |-> IF \E i \in 1..n : Unrepresentable(times[i]) THEN 1 ELSE 0]

\* _paths
PathWarnings(file) == IF file.paths \in {"outside", "garbled"} THEN 1 ELSE 0

\* _volumes: one bad entry does not stop the next.
Volumes(file) ==
    IF file.volumes.count = 0 THEN [good |-> 0, warnings |-> 0]
    ELSE IF file.volumes.count > MaxVolumes \/ ~file.volumes.inside
         THEN [good |-> 0, warnings |-> 1]
    ELSE LET good == Cardinality({i \in DOMAIN file.volumes.entries : file.volumes.entries[i]})
         IN  [good |-> good, warnings |-> file.volumes.count - good]

\* _normalize: a time that is not set is left out, the others keep their order.
NormalizePrefetch(file) ==
    LET ran == Execution(file)
        sizes == IF file.declared = "less" THEN 1 ELSE 0
    IN  IF ~file.header \/ file.declared = "more" THEN Malformed
        ELSE [times |-> KeepAt(ran.times, {i \in DOMAIN ran.times : ran.times[i].raw # None}),
              volumes |-> Volumes(file).good,
              warnings |-> sizes + PathWarnings(file) + Volumes(file).warnings + ran.warnings]

ParsePrefetch(file) ==
    IF file.sig # "SCCA" \/ file.version \notin SupportedVersions
    THEN Without("UNSUPPORTED")
    ELSE IF NormalizePrefetch(file) = Malformed THEN Without("FAILED")
    ELSE Completed(<<NormalizePrefetch(file)>>, NormalizePrefetch(file).warnings)

=============================================================================
