---------------------------- MODULE ParserResults ----------------------------
(***************************************************************************)
(* What every forensic parser shares: the contract of a ParserResult       *)
(* (forensic/parser.py), the explicit registry (forensic/registry.py) and  *)
(* the FILETIME conversion (forensic/windows_binary.py).                   *)
(*                                                                         *)
(* Warnings are counted, their wording is left out.  A FILETIME is a small *)
(* number: 0 is "not set", a number above MaxFiletime is one that a        *)
(* datetime cannot represent.                                              *)
(***************************************************************************)
EXTENDS Integers, SequencesExt

CONSTANTS
    None,           \* Python's None
    Malformed,      \* a StructureError, UnicodeError or ValueError was raised
    MaxFiletime     \* bound: the last FILETIME a datetime can represent

ASSUME FiletimeAssumption == None \notin Int /\ MaxFiletime \in Nat

-----------------------------------------------------------------------------
\* Comprehensions over sequences

\* The numbers in a finite set, in ascending order.
InOrder(numbers) ==
    [k \in 1..Cardinality(numbers) |->
        CHOOSE i \in numbers : Cardinality({j \in numbers : j < i}) = k - 1]

\* What is left of a sequence at some positions, in the same order.
KeepAt(s, positions) ==
    [k \in 1..Cardinality(positions) |-> s[InOrder(positions)[k]]]

Total(counts) == FoldLeft(LAMBDA n, c : n + c, 0, counts)

-----------------------------------------------------------------------------
\* Numbers of a file (forensic/windows_binary.py)

\* The bytes of a number below a more significant part of it.
Number(bytes, above) == FoldRight(LAMBDA b, n : b + 256 * n, bytes, above)

LittleEndian(bytes) == Number(bytes, 0)

-----------------------------------------------------------------------------
\* Results

Terminal == {"COMPLETED", "COMPLETED_WITH_WARNINGS", "FAILED", "UNSUPPORTED"}

ParserStatus == Terminal \union {"PENDING", "RUNNING"}

\* ParserResult.validate_status_contract
MeetsContract(result) ==
    /\ result.status \in Terminal
    /\ result.status = "COMPLETED" => result.warnings = 0 /\ result.errors = 0
    /\ result.status = "COMPLETED_WITH_WARNINGS" =>
          result.warnings > 0 /\ result.errors = 0
    /\ result.status \in {"FAILED", "UNSUPPORTED"} =>
          result.errors > 0 /\ result.records = <<>>

\* Seeded fault: warnings do not show in the status.
PlainlyCompleted(records, warnings) ==
    [status |-> "COMPLETED", records |-> records, warnings |-> warnings, errors |-> 0]

\* How each parser ends when its input could be read.
Completed(records, warnings) ==
    [status |-> IF warnings > 0 THEN "COMPLETED_WITH_WARNINGS" ELSE "COMPLETED",
     records |-> records, warnings |-> warnings, errors |-> 0]

Without(status) == [status |-> status, records |-> <<>>, warnings |-> 0, errors |-> 1]

\* What execute makes of a parser's outcome: an exception (None here) or a
\* result that breaks the contract becomes a FAILED result.
Validated(outcome) ==
    IF outcome = None THEN Without("FAILED")
    ELSE IF MeetsContract(outcome) THEN outcome ELSE Without("FAILED")

\* A FILETIME as the pair (ISO text, raw text) every parser stores.
Filetime(value) ==
    [iso |-> IF value = 0 \/ value > MaxFiletime THEN None ELSE value,
     raw |-> IF value = 0 THEN None ELSE value]

Unrepresentable(time) == time.iso = None /\ time.raw # None

\* ParserRegistry.register: a conflicting parser is refused as a whole.
Register(registered, parser, types) ==
    IF types = {} \/ types \intersect DOMAIN registered # {} THEN Malformed
    ELSE [t \in types \union DOMAIN registered |->
             IF t \in types THEN parser ELSE registered[t]]

=============================================================================
