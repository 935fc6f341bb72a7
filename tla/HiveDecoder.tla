------------------------------ MODULE HiveDecoder ------------------------------
(***************************************************************************)
(* forensic/registry_hive.py: the walk over an offline registry hive with  *)
(* a stack of keys that are still to be visited.                           *)
(*                                                                         *)
(* A key is its path, a sequence of names; names are numbers in their      *)
(* case-folded order.  A hive is                                           *)
(*   [regf, known, keys, unreadable, values, aware]:                       *)
(* its signature, whether the hive type is supported, the keys, the faults *)
(* of each key (a subset of "key", "values", "subkeys"), how many values   *)
(* of each key can and cannot be normalized, and whether key timestamps    *)
(* have a timezone.                                                        *)
(***************************************************************************)
EXTENDS ParserResults

Root == <<>>

\* A key that is not the root is in the list of subkeys of another.
IsHive(file) ==
    /\ file.regf \in BOOLEAN /\ file.known \in BOOLEAN
    /\ IsFiniteSet(file.keys) /\ file.keys \subseteq Seq(Nat) /\ Root \in file.keys
    /\ \A k \in file.keys \ {Root} : Front(k) \in file.keys
    /\ \A k \in file.keys : file.values[k] \in [good : Nat, bad : Nat]

Subkeys(hive, key) == {k \in hive.keys : Len(k) = Len(key) + 1 /\ IsPrefix(key, k)}

\* sorted(key.subkeys(), key=name): the paths of the subkeys by their names.
Sorted(key, names) == [i \in 1..Cardinality(names) |-> Append(key, InOrder(names)[i])]

\* Seeded fault: the subkeys are pushed in order, and so visited in reverse.
PushInOrder(pending, key, names) == pending \o Sorted(key, names)

\* pending.extend(sorted(..., reverse=True)): the first is popped first.
Push(pending, key, names) == pending \o Reverse(Sorted(key, names))

\* One turn of the loop: the key, its values, its subkeys.
Visit(hive, walk) ==
    LET key == Last(walk.pending)
        faults == hive.unreadable[key]
        values == IF "values" \in faults THEN [good |-> 0, bad |-> 1] ELSE hive.values[key]
        below == IF "subkeys" \in faults THEN {} ELSE Subkeys(hive, key)
    IN  [pending |-> Push(Front(walk.pending), key, {Last(k) : k \in below}),
         records |-> walk.records
                     \o <<[type |-> "key", key |-> key, aware |-> hive.aware]>>
                     \o [i \in 1..values.good |->
                            [type |-> "value", key |-> key, aware |-> hive.aware]],
         warnings |-> walk.warnings + values.bad + (IF "subkeys" \in faults THEN 1 ELSE 0)]

\* _walk_hive.  None: the path or the timestamp of a key raised, which nothing
\* in the loop catches.
Walk(hive) ==
    LET after[n \in Nat] ==
          IF n = 0 THEN [pending |-> <<Root>>, records |-> <<>>, warnings |-> 0]
          ELSE LET before == after[n - 1]
               IN  IF before = None THEN None
                   ELSE IF before.pending = <<>> THEN before
                   ELSE IF "key" \in hive.unreadable[Last(before.pending)] THEN None
                   ELSE Visit(hive, before)
    IN  after[Cardinality(hive.keys)]

\* parse: whatever the library raises is a failed result.
ParseHive(hive) ==
    IF ~hive.regf THEN Without("UNSUPPORTED")
    ELSE IF Walk(hive) = None THEN Without("FAILED")
    ELSE Completed(Walk(hive).records,
                   Walk(hive).warnings + (IF hive.known THEN 0 ELSE 1))

=============================================================================
