--------------------------- MODULE EvidenceStorage ---------------------------
(***************************************************************************)
(* backend/app/services/evidence_storage.py, one file-system call at a     *)
(* time: registrations of the same case walk down                          *)
(*     <root>/<case>/evidence/<evidence id>/original                       *)
(* creating the directories that are missing, and clean up after a failure *)
(* by removing the file and the directories they created.  Storing, and    *)
(* the cleanup of a failed store, run under the row lock of the case;      *)
(* the cleanup after a database failure runs after the rollback released   *)
(* it.  Different cases share only the root, which nobody removes.         *)
(***************************************************************************)
EXTENDS Integers, Sequences

CONSTANTS
    Registration,   \* registrations of one case, each with its own evidence id
    Nobody,
    Faults          \* which of "io", "db", "crash" may happen

ASSUME NobodyAssumption == Nobody \notin Registration
ASSUME SharedNamesAssumption == {"case", "evidence"} \intersect Registration = {}

VARIABLES
    lock,       \* the registration that holds the case row
    pc,
    depth,      \* index in Path(r) of the directory being created
    created,    \* directories this registration made and has not removed
    dirs,       \* directories that exist; an own directory is named by its registration
    partial,    \* registrations whose ".partial" file exists
    final,      \* registrations whose "original" file exists
    hit,        \* history: registrations that met an I/O or database fault
    refused     \* history: of each registration's own things, those its
                \* clean-up was refused to remove

storageVars == <<lock, pc, depth, created, dirs, partial, final, hit, refused>>

Dir == {"case", "evidence"} \union Registration

Path(r) == <<"case", "evidence", r>>

Here(r) == Path(r)[depth[r]]

\* mkdir finds the directory above; the root always exists.
ParentExists(r) == IF depth[r] = 1 THEN TRUE ELSE Path(r)[depth[r] - 1] \in dirs

\* Seeded fault: a recursive removal instead of rmdir.
AnyContent(d) == d \in Dir

Empty(d) ==
    CASE d = "case"     -> "evidence" \notin dirs
      [] d = "evidence" -> Registration \intersect dirs = {}
      [] OTHER          -> d \notin partial \union final

StorageInit ==
    /\ lock = Nobody
    /\ pc = [r \in Registration |-> "idle"]
    /\ depth = [r \in Registration |-> 1]
    /\ created = [r \in Registration |-> {}]
    /\ dirs = {}
    /\ partial = {} /\ final = {}
    /\ hit = {}
    /\ refused = [r \in Registration |-> {}]

Goto(r, p) == pc' = [pc EXCEPT ![r] = p]

-----------------------------------------------------------------------------
\* EvidenceStorage.store, entered with the row lock

\* Seeded fault: the copy does not run under the row lock.
StartStoreUnlocked(r) ==
    /\ pc[r] = "idle"
    /\ Goto(r, "probe")
    /\ UNCHANGED <<lock, depth, created, dirs, partial, final, hit, refused>>

StartStore(r) ==
    /\ pc[r] = "idle" /\ lock = Nobody
    /\ lock' = r
    /\ Goto(r, "probe")
    /\ UNCHANGED <<depth, created, dirs, partial, final, hit, refused>>

\* current.exists()
Probe(r) ==
    /\ pc[r] = "probe"
    /\ Goto(r, IF Here(r) \in dirs THEN "check" ELSE "mkdir")
    /\ UNCHANGED <<lock, depth, created, dirs, partial, final, hit, refused>>

\* current.mkdir(): fails without a parent, or if somebody made it meanwhile.
MakeDir(r) ==
    /\ pc[r] = "mkdir"
    /\ \/ /\ ParentExists(r) /\ Here(r) \notin dirs
          /\ dirs' = dirs \union {Here(r)}
          /\ created' = [created EXCEPT ![r] = @ \union {Here(r)}]
          /\ Goto(r, "check")
       \/ /\ ~ParentExists(r) \/ Here(r) \in dirs
          /\ Goto(r, "undo")
          /\ UNCHANGED <<created, dirs>>
    /\ UNCHANGED <<lock, depth, partial, final, hit, refused>>

\* Seeded fault: one level too many.
CheckOneMore(r) ==
    /\ pc[r] = "check"
    /\ depth' = [depth EXCEPT ![r] = @ + 1]
    /\ Goto(r, IF depth[r] > 3 THEN "open" ELSE "probe")
    /\ UNCHANGED <<lock, created, dirs, partial, final, hit, refused>>

\* is_dir() and resolve(strict=True) on the directory just found or made.
Check(r) ==
    /\ pc[r] = "check"
    /\ \/ /\ Here(r) \in dirs /\ depth[r] < 3
          /\ depth' = [depth EXCEPT ![r] = @ + 1]
          /\ Goto(r, "probe")
       \/ /\ Here(r) \in dirs /\ depth[r] = 3
          /\ Goto(r, "open")
          /\ UNCHANGED depth
       \/ /\ Here(r) \notin dirs
          /\ Goto(r, "undo")
          /\ UNCHANGED depth
    /\ UNCHANGED <<lock, created, dirs, partial, final, hit, refused>>

OpenPartial(r) ==
    /\ pc[r] = "open"
    /\ partial' = partial \union {r}
    /\ Goto(r, "link")
    /\ UNCHANGED <<lock, depth, created, dirs, final, hit, refused>>

\* The copy is complete and synced: os.link gives it its final name.
LinkFinal(r) ==
    /\ pc[r] = "link"
    /\ final' = final \union {r}
    /\ Goto(r, "unlink")
    /\ UNCHANGED <<lock, depth, created, dirs, partial, hit, refused>>

UnlinkPartial(r) ==
    /\ pc[r] = "unlink"
    /\ partial' = partial \ {r}
    /\ Goto(r, "stored")
    /\ UNCHANGED <<lock, depth, created, dirs, final, hit, refused>>

\* Any call of store may raise OSError.
IoFault(r) ==
    /\ "io" \in Faults
    /\ pc[r] \in {"probe", "mkdir", "check", "open", "link", "unlink"}
    /\ hit' = hit \union {r}
    /\ Goto(r, "undo")
    /\ UNCHANGED <<lock, depth, created, dirs, partial, final, refused>>

-----------------------------------------------------------------------------
\* EvidenceService.register around it

Commit(r) ==
    /\ pc[r] = "stored"
    /\ lock' = Nobody
    /\ Goto(r, "committed")
    /\ UNCHANGED <<depth, created, dirs, partial, final, hit, refused>>

\* The database fails: rollback gives the lock up, the cleanup comes after.
DbFault(r) ==
    /\ "db" \in Faults
    /\ pc[r] = "stored"
    /\ lock' = Nobody
    /\ hit' = hit \union {r}
    /\ Goto(r, "undo")
    /\ UNCHANGED <<depth, created, dirs, partial, final, refused>>

\* Clean-up runs each call under suppress(OSError): one that the file system
\* refuses is passed over, what it should remove stays.
Suppressed(r, kept) ==
    /\ kept = {} \/ "io" \in Faults
    /\ refused' = [refused EXCEPT ![r] = @ \union kept]

\* Seeded fault: the temporary copy is forgotten.
UnlinkFinalOnly(r) ==
    /\ pc[r] = "undo"
    /\ final' = final \ {r}
    /\ Goto(r, "prune")
    /\ UNCHANGED <<lock, depth, created, dirs, partial, hit, refused>>

\* cleanup_paths: the files that exist first, ...
UnlinkFiles(r) ==
    /\ pc[r] = "undo"
    /\ \E kept \in SUBSET {"partial", "final"} :
          /\ "partial" \in kept => r \in partial
          /\ "final" \in kept => r \in final
          /\ partial' = IF "partial" \in kept THEN partial ELSE partial \ {r}
          /\ final' = IF "final" \in kept THEN final ELSE final \ {r}
          /\ Suppressed(r, kept)
    /\ Goto(r, "prune")
    /\ UNCHANGED <<lock, depth, created, dirs, hit>>

\* Seeded fault: a directory somebody else uses is waited for.
PruneUntilEmpty(r) ==
    /\ pc[r] = "prune" /\ created[r] # {}
    /\ \E k \in {k \in 1..3 : Path(r)[k] \in created[r]} :
          /\ \A j \in (k + 1)..3 : Path(r)[j] \notin created[r]
          /\ Empty(Path(r)[k])
          /\ dirs' = dirs \ {Path(r)[k]}
          /\ created' = [created EXCEPT ![r] = @ \ {Path(r)[k]}]
    /\ UNCHANGED <<lock, pc, depth, partial, final, hit, refused>>

\* ... then the created directories, deepest first; rmdir refuses one that is
\* not empty, and may refuse one that is.
Prune(r) ==
    /\ pc[r] = "prune" /\ created[r] # {}
    /\ \E k \in {k \in 1..3 : Path(r)[k] \in created[r]} :
          /\ \A j \in (k + 1)..3 : Path(r)[j] \notin created[r]
          /\ created' = [created EXCEPT ![r] = @ \ {Path(r)[k]}]
          /\ \/ /\ dirs' = IF Empty(Path(r)[k]) THEN dirs \ {Path(r)[k]} ELSE dirs
                /\ Suppressed(r, {})
             \/ /\ "io" \in Faults
                /\ Empty(Path(r)[k])
                /\ dirs' = dirs
                /\ Suppressed(r, IF k = 3 THEN {"directory"} ELSE {})
    /\ UNCHANGED <<lock, pc, depth, partial, final, hit>>

\* The exception leaves store, if it came from there the rollback follows.
Fail(r) ==
    /\ pc[r] = "prune" /\ created[r] = {}
    /\ lock' = IF lock = r THEN Nobody ELSE lock
    /\ Goto(r, "failed")
    /\ UNCHANGED <<depth, created, dirs, partial, final, hit, refused>>

-----------------------------------------------------------------------------

Over(r) == pc[r] \in {"committed", "failed", "dead"}

\* The process dies: what is on disk stays, registrations in progress are
\* never heard of again, their lock goes with their connection.
Crash ==
    /\ "crash" \in Faults
    /\ \E r \in Registration : pc[r] # "idle" /\ ~Over(r)
    /\ pc' = [r \in Registration |->
                IF pc[r] = "idle" \/ Over(r) THEN pc[r] ELSE "dead"]
    /\ created' = [r \in Registration |-> {}]
    /\ lock' = Nobody
    /\ UNCHANGED <<depth, dirs, partial, final, hit, refused>>

StoreWork(r) ==
    \/ StartStore(r)
    \/ Probe(r)
    \/ MakeDir(r)
    \/ Check(r)
    \/ OpenPartial(r)
    \/ LinkFinal(r)
    \/ UnlinkPartial(r)
    \/ Commit(r)
    \/ UnlinkFiles(r)
    \/ Prune(r)
    \/ Fail(r)

Quiet == (\A r \in Registration : Over(r)) /\ UNCHANGED storageVars

StorageNext ==
    \/ \E r \in Registration : StoreWork(r) \/ IoFault(r) \/ DbFault(r)
    \/ Crash
    \/ Quiet

StorageSpec == StorageInit /\ [][StorageNext]_storageVars

\* Requests already accepted are run to their end by the thread pool; nothing
\* is obliged to fail.
FairStorageSpec ==
    StorageSpec /\ \A r \in Registration : WF_storageVars(StoreWork(r))

-----------------------------------------------------------------------------

StorePc == {"idle", "probe", "mkdir", "check", "open", "link", "unlink", "stored",
            "undo", "prune", "committed", "failed", "dead"}

\* Every variable stays in its type.
StorageTypeOK ==
    /\ lock \in Registration \union {Nobody}
    /\ pc \in [Registration -> StorePc]
    /\ depth \in [Registration -> 1..3]
    /\ created \in [Registration -> SUBSET Dir]
    /\ dirs \subseteq Dir
    /\ partial \subseteq Registration
    /\ final \subseteq Registration
    /\ hit \subseteq Registration
    /\ refused \in [Registration -> SUBSET {"partial", "final", "directory"}]

\* A copy the database may refer to stays reachable: from the moment store
\* returns until a cleanup of its own, no cleanup of another registration
\* takes away the file, its directory or a directory above it.
StoredFileIsKept ==
    \A r \in Registration :
        pc[r] \in {"stored", "committed"} =>
            /\ r \in final \ partial
            /\ {"case", "evidence", r} \subseteq dirs

\* mkdir never meets a directory that somebody made after exists() said there
\* was none: directories are only ever made under the row lock.
MkdirNeverCollides ==
    \A r \in Registration : pc[r] = "mkdir" => Here(r) \notin dirs

\* What a registration that failed, and did not crash, leaves of its own is
\* what the file system refused to give up: each file only if its own unlink
\* was refused, its directory only if one of the three removals was.
FailureLeavesNothing ==
    \A r \in Registration :
        pc[r] = "failed" =>
            /\ r \in partial => "partial" \in refused[r]
            /\ r \in final => "final" \in refused[r]
            /\ r \in dirs => refused[r] # {}

\* Every registration that took the row lock ends, and so gives it back,
\* whatever directories the others make or remove meanwhile
\* (evidence_storage.py, store and cleanup_paths).
EveryStoreEnds == \A r \in Registration : pc[r] = "probe" ~> Over(r)

\* README.md, "Evidence API": registration "removes only that new file if the
\* database transaction fails".  So the cleanup of one registration does not
\* make another one fail: who fails was hit by a fault of its own.
OnlyFaultyRegistrationsFail ==
    \A r \in Registration : pc[r] = "failed" => r \in hit

=============================================================================
