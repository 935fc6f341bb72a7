------------------------ MODULE EvidenceStorage_proofs ------------------------
(***************************************************************************)
(* For any number of registrations of a case and any faults: directories   *)
(* are made under the row lock only, a stored file keeps its directories,  *)
(* and a registration that failed leaves only what the file system refused *)
(* to remove.                                                              *)
(***************************************************************************)
EXTENDS EvidenceStorage, TLAPS

\* Phases in which a registration works under the row lock, ...
Storing == {"probe", "mkdir", "check", "open", "link", "unlink", "stored"}

\* ... in which it has not begun its copy, ...
NoCopyYet == {"idle", "probe", "mkdir", "check", "open"}

\* ... and in which its own directory exists.
Placed == {"open", "link", "unlink", "stored", "committed"}

\* Storing registrations hold the lock, idle and finished ones do not.
LockInv ==
    \A r \in Registration :
        /\ pc[r] \in Storing => lock = r
        /\ lock = r => pc[r] \in Storing \union {"undo", "prune"}

\* A directory has the directory above it.
TreeInv ==
    /\ "evidence" \in dirs => "case" \in dirs
    /\ \A r \in Registration : r \in dirs => "evidence" \in dirs

\* A registration creates directories of its own path only, and remembers its
\* own directory until it removed it or a call of its clean-up was refused.
OwnDirs ==
    \A r \in Registration :
        /\ created[r] \subseteq {"case", "evidence", r}
        /\ pc[r] = "idle" => r \notin dirs
        /\ pc[r] \in Storing \union {"undo"} /\ r \in dirs => r \in created[r]
        /\ pc[r] = "prune" /\ r \in dirs => r \in created[r] \/ refused[r] # {}
        /\ pc[r] = "failed" /\ r \in dirs => refused[r] # {}
        /\ pc[r] \in Placed => r \in dirs

\* Which files of a registration exist in its phases; one that outlives the
\* unlinks of the clean-up was refused to it.
OwnFiles ==
    \A r \in Registration :
        /\ pc[r] \in NoCopyYet => r \notin partial \union final
        /\ pc[r] \in {"prune", "failed"} =>
              /\ r \in partial => "partial" \in refused[r]
              /\ r \in final => "final" \in refused[r]
        /\ pc[r] = "unlink" => r \in final
        /\ pc[r] \in {"stored", "committed"} => r \in final \ partial

StorageIInv ==
    /\ StorageTypeOK
    /\ LockInv
    /\ TreeInv
    /\ OwnDirs
    /\ OwnFiles
    /\ MkdirNeverCollides

\* A directory of the path of r is one of the shared ones or that of r.
LEMMA PathOf ==
    ASSUME NEW r \in Registration, NEW k \in 1..3
    PROVE  /\ k = 1 => Path(r)[k] = "case"
           /\ k = 2 => Path(r)[k] = "evidence"
           /\ k = 3 => Path(r)[k] = r
           /\ Path(r)[k] \in Dir
           /\ Path(r)[k] = r <=> k = 3
  BY SharedNamesAssumption DEF Path, Dir

\* Directories of different registrations and the shared ones are different.
LEMMA EmptyDir ==
    /\ Empty("case") <=> "evidence" \notin dirs
    /\ Empty("evidence") <=> Registration \intersect dirs = {}
    /\ \A r \in Registration : Empty(r) <=> r \notin partial \union final
  BY SharedNamesAssumption DEF Empty

LEMMA StorageInitInv == StorageInit => StorageIInv
  BY SharedNamesAssumption, NobodyAssumption
  DEF StorageInit, StorageIInv, StorageTypeOK, StorePc, LockInv, TreeInv, OwnDirs, OwnFiles,
      MkdirNeverCollides, Storing, NoCopyYet, Placed, Dir

\* A step that moves one registration between phases and changes no directory.
LEMMA QuietStep ==
    ASSUME StorageIInv, NEW r \in Registration,
           StartStore(r) \/ Probe(r) \/ Check(r) \/ OpenPartial(r) \/ LinkFinal(r)
             \/ UnlinkPartial(r) \/ IoFault(r) \/ Commit(r) \/ DbFault(r)
             \/ UnlinkFiles(r) \/ Fail(r)
    PROVE  StorageIInv'
<1>. USE SharedNamesAssumption, NobodyAssumption, PathOf
     DEF StorageIInv, Goto
<1>1. CASE StartStore(r)
  BY <1>1 DEF StartStore, StorageTypeOK, StorePc, LockInv, TreeInv, OwnDirs, OwnFiles,
      MkdirNeverCollides, Storing, NoCopyYet, Placed, Here
<1>2. CASE Probe(r)
  BY <1>2 DEF Probe, StorageTypeOK, StorePc, LockInv, TreeInv, OwnDirs, OwnFiles,
      MkdirNeverCollides, Storing, NoCopyYet, Placed, Here
<1>3. CASE Check(r)
  BY <1>3 DEF Check, StorageTypeOK, StorePc, LockInv, TreeInv, OwnDirs, OwnFiles,
      MkdirNeverCollides, Storing, NoCopyYet, Placed, Here
<1>4. CASE OpenPartial(r)
  BY <1>4 DEF OpenPartial, StorageTypeOK, StorePc, LockInv, TreeInv, OwnDirs, OwnFiles,
      MkdirNeverCollides, Storing, NoCopyYet, Placed, Here
<1>5. CASE LinkFinal(r)
  BY <1>5 DEF LinkFinal, StorageTypeOK, StorePc, LockInv, TreeInv, OwnDirs, OwnFiles,
      MkdirNeverCollides, Storing, NoCopyYet, Placed, Here
<1>6. CASE UnlinkPartial(r)
  BY <1>6 DEF UnlinkPartial, StorageTypeOK, StorePc, LockInv, TreeInv, OwnDirs, OwnFiles,
      MkdirNeverCollides, Storing, NoCopyYet, Placed, Here
<1>7. CASE IoFault(r)
  BY <1>7 DEF IoFault, StorageTypeOK, StorePc, LockInv, TreeInv, OwnDirs, OwnFiles,
      MkdirNeverCollides, Storing, NoCopyYet, Placed, Here
<1>8. CASE Commit(r)
  BY <1>8 DEF Commit, StorageTypeOK, StorePc, LockInv, TreeInv, OwnDirs, OwnFiles,
      MkdirNeverCollides, Storing, NoCopyYet, Placed, Here
<1>9. CASE DbFault(r)
  BY <1>9 DEF DbFault, StorageTypeOK, StorePc, LockInv, TreeInv, OwnDirs, OwnFiles,
      MkdirNeverCollides, Storing, NoCopyYet, Placed, Here
<1>10. CASE UnlinkFiles(r)
  <2>1. PICK kept \in SUBSET {"partial", "final"} :
           /\ partial' = IF "partial" \in kept THEN partial ELSE partial \ {r}
           /\ final' = IF "final" \in kept THEN final ELSE final \ {r}
           /\ refused' = [refused EXCEPT ![r] = @ \union kept]
    BY <1>10 DEF UnlinkFiles, Suppressed
  <2>2. pc[r] = "undo" /\ pc' = [pc EXCEPT ![r] = "prune"]
        /\ UNCHANGED <<lock, depth, created, dirs, hit>>
    BY <1>10 DEF UnlinkFiles
  <2>3. /\ \A s \in Registration \ {r} :
              /\ pc'[s] = pc[s] /\ refused'[s] = refused[s]
              /\ s \in partial' <=> s \in partial
              /\ s \in final' <=> s \in final
        /\ pc'[r] = "prune" /\ refused'[r] = refused[r] \union kept
        /\ r \in partial' => "partial" \in kept
        /\ r \in final' => "final" \in kept
    BY <2>1, <2>2 DEF StorageTypeOK
  <2>4. StorageTypeOK'
    BY <2>1, <2>2 DEF StorageTypeOK, StorePc
  <2>5. LockInv' /\ TreeInv' /\ MkdirNeverCollides'
    BY <2>2, <2>3 DEF LockInv, TreeInv, MkdirNeverCollides, Storing, Here
  <2>6. OwnDirs'
    BY <2>2, <2>3 DEF OwnDirs, Storing, Placed
  <2>7. OwnFiles'
    BY <2>2, <2>3 DEF OwnFiles, NoCopyYet
  <2>. QED
    BY <2>4, <2>5, <2>6, <2>7
<1>11. CASE Fail(r)
  BY <1>11 DEF Fail, StorageTypeOK, StorePc, LockInv, TreeInv, OwnDirs, OwnFiles,
      MkdirNeverCollides, Storing, NoCopyYet, Placed, Here
<1>. QED
  BY <1>1, <1>2, <1>3, <1>4, <1>5, <1>6, <1>7, <1>8, <1>9, <1>10, <1>11

\* mkdir under the lock: nobody else is about to make a directory.
LEMMA MakeDirStep ==
    ASSUME StorageIInv, NEW r \in Registration, MakeDir(r)
    PROVE  StorageIInv'
<1>. USE SharedNamesAssumption, NobodyAssumption DEF StorageIInv, Goto, MakeDir
<1>1. pc[r] = "mkdir" /\ lock = r /\ depth[r] \in 1..3 /\ Here(r) \notin dirs
  BY DEF LockInv, Storing, StorageTypeOK, MkdirNeverCollides
<1>2. CASE pc'[r] = "undo"
  BY <1>1, <1>2 DEF StorageTypeOK, StorePc, LockInv, TreeInv, OwnDirs, OwnFiles,
      MkdirNeverCollides, Storing, NoCopyYet, Placed, Here
<1>3. CASE pc'[r] = "check"
  <2>1. /\ ParentExists(r)
        /\ dirs' = dirs \union {Here(r)}
        /\ created' = [created EXCEPT ![r] = @ \union {Here(r)}]
        /\ pc' = [pc EXCEPT ![r] = "check"]
        /\ UNCHANGED <<lock, depth, partial, final, hit, refused>>
    BY <1>1, <1>3 DEF StorageTypeOK
  <2>2. /\ depth[r] = 1 => Here(r) = "case"
        /\ depth[r] = 2 => Here(r) = "evidence" /\ "case" \in dirs
        /\ depth[r] = 3 => Here(r) = r /\ "evidence" \in dirs
        /\ Here(r) \in Dir
    BY <1>1, <2>1, PathOf DEF Here, ParentExists
  <2>3. StorageTypeOK'
    BY <1>1, <2>1, <2>2 DEF StorageTypeOK, StorePc
  <2>4. LockInv'
    BY <1>1, <2>1 DEF LockInv, StorageTypeOK, Storing
  <2>5. TreeInv'
    BY <1>1, <2>1, <2>2 DEF TreeInv
  <2>6. OwnDirs'
    BY <1>1, <2>1, <2>2 DEF OwnDirs, StorageTypeOK, Storing, Placed
  <2>7. OwnFiles'
    BY <1>1, <2>1 DEF OwnFiles, StorageTypeOK, NoCopyYet
  <2>8. MkdirNeverCollides'
    BY <1>1, <2>1 DEF MkdirNeverCollides, LockInv, StorageTypeOK, Storing
  <2>. QED
    BY <2>3, <2>4, <2>5, <2>6, <2>7, <2>8
<1>. QED
  BY <1>1, <1>2, <1>3 DEF StorageTypeOK

\* rmdir takes away only what is empty: never the directory of another
\* registration, nor one above it.
LEMMA PruneStep ==
    ASSUME StorageIInv, NEW r \in Registration, Prune(r)
    PROVE  StorageIInv'
<1>. USE SharedNamesAssumption, NobodyAssumption DEF StorageIInv
<1>1. PICK k \in 1..3 :
         /\ Path(r)[k] \in created[r]
         /\ created' = [created EXCEPT ![r] = @ \ {Path(r)[k]}]
         /\ \/ /\ dirs' = IF Empty(Path(r)[k]) THEN dirs \ {Path(r)[k]} ELSE dirs
               /\ Suppressed(r, {})
            \/ /\ dirs' = dirs
               /\ Suppressed(r, IF k = 3 THEN {"directory"} ELSE {})
  BY DEF Prune
<1>2. pc[r] = "prune" /\ UNCHANGED <<lock, pc, depth, partial, final, hit>>
  BY DEF Prune
<1>. DEFINE d == Path(r)[k]
<1>3. d \in {"case", "evidence", r} /\ d \in Dir /\ (d = r <=> k = 3)
  BY PathOf DEF Dir
<1>4. d \in dirs \ dirs' =>
         /\ d = "case" => "evidence" \notin dirs
         /\ d = "evidence" => Registration \intersect dirs = {}
  BY <1>1, EmptyDir
<1>5. /\ refused'[r] \in {refused[r], refused[r] \union {"directory"}}
      /\ \A s \in Registration \ {r} : refused'[s] = refused[s]
      /\ refused' \in [Registration -> SUBSET {"partial", "final", "directory"}]
  <2>1. PICK kept \in SUBSET {"partial", "final", "directory"} :
           /\ kept \in {{}, {"directory"}}
           /\ refused' = [refused EXCEPT ![r] = @ \union kept]
    BY <1>1 DEF Suppressed
  <2>. QED
    BY <2>1 DEF StorageTypeOK
<1>6. d = r /\ d \in dirs' => refused'[r] # {}
  <2>1. SUFFICES ASSUME d = r, r \in dirs', refused'[r] = {}
                 PROVE  FALSE
    OBVIOUS
  <2>2. r \notin partial \union final
    BY <1>2, <1>5, <2>1 DEF OwnFiles
  <2>3. Empty(r)
    BY <2>2, EmptyDir
  <2>4. k = 3
    BY <1>3, <2>1
  <2>5. ~Suppressed(r, IF k = 3 THEN {"directory"} ELSE {})
    BY <2>1, <2>4 DEF Suppressed, StorageTypeOK
  <2>. QED
    BY <1>1, <2>1, <2>3, <2>5
<1>7. /\ dirs' \subseteq dirs
      /\ \A c \in dirs : c \notin dirs' => c = d
      /\ created'[r] = created[r] \ {d}
      /\ \A s \in Registration \ {r} : created'[s] = created[s]
  BY <1>1 DEF StorageTypeOK
<1>. HIDE DEF d
<1>8. StorageTypeOK'
  BY <1>1, <1>2, <1>5, <1>7 DEF StorageTypeOK
<1>9. LockInv'
  BY <1>2 DEF LockInv
<1>10. TreeInv'
  BY <1>3, <1>4, <1>7 DEF TreeInv
<1>11. OwnDirs'
  <2>1. ASSUME NEW s \in Registration, s # r
        PROVE  /\ created'[s] = created[s] /\ refused'[s] = refused[s]
               /\ s \in dirs' <=> s \in dirs
    BY <1>3, <1>5, <1>7, <2>1
  <2>2. r \in dirs' => r \in created'[r] \/ refused'[r] # {}
    BY <1>2, <1>5, <1>6, <1>7 DEF OwnDirs
  <2>. QED
    BY <1>2, <1>7, <2>1, <2>2 DEF OwnDirs, Storing, Placed
<1>12. OwnFiles'
  BY <1>2, <1>5 DEF OwnFiles
<1>13. MkdirNeverCollides'
  BY <1>2, <1>7 DEF MkdirNeverCollides, Here
<1>. QED
  BY <1>8, <1>9, <1>10, <1>11, <1>12, <1>13

LEMMA CrashStep ==
    ASSUME StorageIInv, Crash
    PROVE  StorageIInv'
  BY SharedNamesAssumption, NobodyAssumption
  DEF Crash, StorageIInv, StorageTypeOK, StorePc, LockInv, TreeInv, OwnDirs, OwnFiles,
      MkdirNeverCollides, Storing, NoCopyYet, Placed, Here, Over

LEMMA StorageStep ==
    ASSUME StorageIInv, [StorageNext]_storageVars
    PROVE  StorageIInv'
<1>1. CASE \E r \in Registration : StoreWork(r) \/ IoFault(r) \/ DbFault(r)
  <2>1. PICK r \in Registration : StoreWork(r) \/ IoFault(r) \/ DbFault(r)
    BY <1>1
  <2>2. CASE MakeDir(r)
    BY <2>2, MakeDirStep
  <2>3. CASE Prune(r)
    BY <2>3, PruneStep
  <2>4. CASE ~(MakeDir(r) \/ Prune(r))
    BY <2>1, <2>4, QuietStep DEF StoreWork
  <2>. QED
    BY <2>2, <2>3, <2>4
<1>2. CASE Crash
  BY <1>2, CrashStep
<1>3. CASE UNCHANGED storageVars
  BY <1>3 DEF storageVars, StorageIInv, StorageTypeOK, StorePc, LockInv, TreeInv, OwnDirs,
      OwnFiles, MkdirNeverCollides, Storing, NoCopyYet, Placed, Here
<1>. QED
  BY <1>1, <1>2, <1>3 DEF StorageNext, Quiet

-----------------------------------------------------------------------------

\* In every reachable state the row lock, the tree of directories, the own
\* directory and the files of each registration fit the phase it is in
\* (evidence_storage.py, store and cleanup_paths).
THEOREM StorageInvariant == StorageSpec => []StorageIInv
<1>1. StorageInit => StorageIInv
  BY StorageInitInv
<1>2. StorageIInv /\ [StorageNext]_storageVars => StorageIInv'
  BY StorageStep
<1>. QED
  BY <1>1, <1>2, PTL DEF StorageSpec

\* Every variable stays in its type.
THEOREM StorageTypeCorrect == StorageSpec => []StorageTypeOK
<1>1. StorageIInv => StorageTypeOK
  BY DEF StorageIInv
<1>. QED
  BY <1>1, StorageInvariant, PTL

\* A stored copy and the directories above it survive the cleanups of any
\* number of other registrations, also those that run after their rollback
\* gave the row lock up.
THEOREM StoredFilesKept == StorageSpec => []StoredFileIsKept
<1>1. StorageIInv => StoredFileIsKept
  BY DEF StorageIInv, StoredFileIsKept, OwnFiles, OwnDirs, TreeInv, Placed
<1>. QED
  BY <1>1, StorageInvariant, PTL

\* mkdir of store never finds that somebody was faster.
THEOREM MkdirNeverFails == StorageSpec => []MkdirNeverCollides
<1>1. StorageIInv => MkdirNeverCollides
  BY DEF StorageIInv
<1>. QED
  BY <1>1, StorageInvariant, PTL

\* A registration that failed, for whatever reason but a crash, leaves of its
\* own only the files whose unlink the file system refused, and its directory
\* only if one of the three removals was refused (cleanup_paths).
THEOREM NothingLeftBehind == StorageSpec => []FailureLeavesNothing
<1>1. StorageIInv => FailureLeavesNothing
  BY DEF StorageIInv, FailureLeavesNothing, OwnFiles, OwnDirs
<1>. QED
  BY <1>1, StorageInvariant, PTL

=============================================================================
