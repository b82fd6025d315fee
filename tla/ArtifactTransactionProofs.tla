--------------------- MODULE ArtifactTransactionProofs ---------------------
(* Proofs about ArtifactTransaction, for any artifacts and any edits. *)
EXTENDS ArtifactTransaction, TLAPS

USE ConstantsAssumption DEF Content

(***************************************************************************)
(* Type correctness.  The transaction being worked on is needed only where *)
(* its backups or generation move into a file or the manifest.             *)
(***************************************************************************)
Typed == TypeOK /\ (pc \in Busy => cur \in Txn)

LEMMA TypedInit == Init => Typed
<1> SUFFICES ASSUME Init PROVE Typed
  OBVIOUS
<1>1. file \in [Path -> Content] /\ want \in [Path -> Content]
  BY DEF Init
<1>2. QED
  BY <1>1 DEF Init, Typed, TypeOK, Steps, Busy

LEMMA TypedStep == Typed /\ [Next]_vars => Typed'
<1> SUFFICES ASSUME Typed, [Next]_vars PROVE Typed'
  OBVIOUS
<1> USE DEF Typed, TypeOK, Steps, Busy, disk, payload, manifest, control, history
<1>1. ASSUME NEW t \in Txn, Enter(t) PROVE Typed'
  BY <1>1 DEF Enter
<1>2. ASSUME NEW p \in Path, SnapshotPath(p) PROVE Typed'
  BY <1>2 DEF SnapshotPath
<1>3. CASE EnterFails
  BY <1>3 DEF EnterFails, Leave, DropBackups
<1>4. CASE WriteJournal
  BY <1>4 DEF WriteJournal
<1>5. ASSUME NEW p \in Path, WriteArtifact(p) PROVE Typed'
  BY <1>5 DEF WriteArtifact
<1>6. CASE SaveManifest
  BY <1>6 DEF SaveManifest
<1>7. CASE BodyFails
  BY <1>7 DEF BodyFails, StartRestore
<1>8. CASE ManifestUnreadable
  BY <1>8 DEF ManifestUnreadable, Leave
<1>9. CASE CommitCleanup
  BY <1>9 DEF CommitCleanup, DropBackups
<1>10. CASE CommitDone
  BY <1>10 DEF CommitDone, Leave
<1>11. ASSUME NEW p \in Path, RestoreUnlink(p) PROVE Typed'
  BY <1>11 DEF RestoreUnlink
<1>12. ASSUME NEW p \in Path, RestoreReplace(p) PROVE Typed'
  BY <1>12 DEF RestoreReplace
<1>13. ASSUME NEW p \in Path, RestoreNew(p) PROVE Typed'
  BY <1>13 DEF RestoreNew
<1>14. ASSUME NEW p \in Path, RestoreError(p) PROVE Typed'
  BY <1>14 DEF RestoreError, NextJournal
<1>15. CASE RestoreDone
  BY <1>15 DEF RestoreDone, Leave, NextJournal
<1>16. CASE Crash
  BY <1>16 DEF Crash
<1>17. CASE Start
  BY <1>17 DEF Start
<1>18. ASSUME NEW t \in Txn, RecoverRollback(t) PROVE Typed'
  BY <1>18 DEF RecoverRollback, StartRestore
<1>19. ASSUME NEW t \in Txn, RecoverCommitted(t) PROVE Typed'
  BY <1>19 DEF RecoverCommitted, NextJournal, DropBackups
<1>20. ASSUME NEW t \in Txn, RecoverSkip(t) PROVE Typed'
  BY <1>20 DEF RecoverSkip, NextJournal
<1>21. CASE FinishStart
  <2>1. PICK S \in SUBSET (Txn \ journal) :
          backup' = [t \in Txn |-> IF t \in S THEN [p \in Path |-> NoBackup] ELSE backup[t]]
    BY <1>21 DEF FinishStart
  <2>2. \A t \in Txn : backup'[t] \in [Path -> Content \cup {NoBackup}]
    BY <2>1
  <2>3. backup' \in [Txn -> [Path -> Content \cup {NoBackup}]]
    BY <2>1, <2>2
  <2>4. QED
    BY <1>21, <2>3 DEF FinishStart
<1>22. CASE UNCHANGED vars
  BY <1>22 DEF vars
<1> HIDE DEF Typed, TypeOK
<1>23. CASE Edit
  BY <1>1, <1>2, <1>3, <1>4, <1>5, <1>6, <1>7, <1>8, <1>9, <1>10, <1>23 DEF Edit
<1>24. CASE Restore
  BY <1>11, <1>12, <1>13, <1>14, <1>15, <1>24 DEF Restore
<1>25. CASE Startup
  BY <1>17, <1>18, <1>19, <1>20, <1>21, <1>25 DEF Startup
<1>26. QED
  BY <1>16, <1>22, <1>23, <1>24, <1>25 DEF Next

\* Every variable keeps its type, whatever fails or crashes.
THEOREM TypeCorrect == Spec => []TypeOK
<1>1. Typed => TypeOK
  BY DEF Typed
<1>2. QED
  BY <1>1, TypedInit, TypedStep, PTL DEF Spec

-----------------------------------------------------------------------------
(***************************************************************************)
(* The inductive invariant.  The heart is LiveOK: a journal the manifest   *)
(* has not caught up with can bring the committed page back.  It is alive  *)
(* from WriteJournal, when its backups equal the files, to SaveManifest,   *)
(* when the files themselves become the committed page, or to the end of a *)
(* restore that missed no record.                                          *)
(***************************************************************************)
LEMMA InductiveInit == Init => IInv
<1> SUFFICES ASSUME Init PROVE IInv
  OBVIOUS
<1>1. TypeOK
  BY TypedInit DEF Typed
<1>2. IdsOK /\ BackupsOK
  BY DEF Init, IdsOK, BackupsOK, Busy
<1>3. SnapshotOK /\ WriteOK /\ SavedOK /\ RestoreOK
  BY DEF Init, SnapshotOK, WriteOK, SavedOK, RestoreOK
<1>4. LiveOK
  BY DEF Init, LiveOK, Live
<1>5. QED
  BY <1>1, <1>2, <1>3, <1>4 DEF IInv

LEMMA InductiveStep == IInv /\ Typed /\ [Next]_vars => IInv'
<1> SUFFICES ASSUME IInv, Typed, [Next]_vars PROVE IInv'
  OBVIOUS
<1>0. Typed'
  BY TypedStep
<1> USE <1>0 DEF IInv, Typed, TypeOK, Steps, Busy, disk, payload, manifest, control,
                 history, Live
<1>1. ASSUME NEW t \in Txn, Enter(t) PROVE IInv'
  <2>1. IdsOK' /\ BackupsOK' /\ WriteOK' /\ SavedOK' /\ RestoreOK'
    BY <1>1 DEF Enter, IdsOK, BackupsOK, WriteOK, SavedOK, RestoreOK
  <2>2. SnapshotOK'
    <3>1. /\ pc' = "backup" /\ cur' = t /\ t \notin used
          /\ target' = [target EXCEPT ![t] = gen + 1]
          /\ paths'[t] = todo'
          /\ UNCHANGED <<journal, existed, gen, txid>>
      BY <1>1 DEF Enter
    <3>2. t \notin journal /\ txid # t /\ existed[t] = {}
      BY <3>1 DEF IdsOK, BackupsOK
    <3>3. Live' = Live
      BY <3>1, <3>2
    <3>4. ~stacked' => Live = {}
      BY <1>1 DEF Enter
    <3>5. QED
      BY <3>1, <3>2, <3>3, <3>4 DEF SnapshotOK
  <2>3. LiveOK'
    BY <1>1 DEF Enter, LiveOK, RestoreValue, IdsOK, BackupsOK
  <2>4. QED
    BY <2>1, <2>2, <2>3
<1>2. ASSUME NEW p \in Path, SnapshotPath(p) PROVE IInv'
  <2>1. IdsOK' /\ SnapshotOK' /\ WriteOK' /\ SavedOK' /\ RestoreOK'
    BY <1>2 DEF SnapshotPath, IdsOK, SnapshotOK, WriteOK, SavedOK, RestoreOK
  <2>2. BackupsOK'
    BY <1>2 DEF SnapshotPath, BackupsOK, SnapshotOK, IdsOK
  <2>3. LiveOK'
    BY <1>2 DEF SnapshotPath, LiveOK, RestoreValue, SnapshotOK
  <2>4. QED
    BY <2>1, <2>2, <2>3
<1>3. CASE EnterFails
  <2>1. IdsOK' /\ BackupsOK' /\ SnapshotOK' /\ WriteOK' /\ SavedOK' /\ RestoreOK'
    BY <1>3 DEF EnterFails, Leave, DropBackups, IdsOK, BackupsOK, SnapshotOK, WriteOK, SavedOK, RestoreOK
  <2>2. LiveOK'
    BY <1>3 DEF EnterFails, Leave, DropBackups, LiveOK, RestoreValue, SnapshotOK
  <2>3. QED
    BY <2>1, <2>2
<1>4. CASE WriteJournal
  <2>1. IdsOK' /\ BackupsOK' /\ SnapshotOK' /\ SavedOK' /\ RestoreOK'
    BY <1>4 DEF WriteJournal, IdsOK, BackupsOK, SnapshotOK, SavedOK, RestoreOK
  <2>2. WriteOK'
    BY <1>4 DEF WriteJournal, WriteOK, SnapshotOK, LiveOK, IdsOK, BackupsOK
  <2>3. LiveOK'
    BY <1>4 DEF WriteJournal, LiveOK, RestoreValue, SnapshotOK, BackupsOK, IdsOK
  <2>4. QED
    BY <2>1, <2>2, <2>3
<1>5. ASSUME NEW p \in Path, WriteArtifact(p) PROVE IInv'
  <2>1. IdsOK' /\ BackupsOK' /\ SnapshotOK' /\ WriteOK' /\ SavedOK' /\ RestoreOK'
    BY <1>5 DEF WriteArtifact, IdsOK, BackupsOK, SnapshotOK, WriteOK, SavedOK, RestoreOK
  <2>2. LiveOK'
    BY <1>5 DEF WriteArtifact, LiveOK, RestoreValue, WriteOK, BackupsOK
  <2>3. QED
    BY <2>1, <2>2
<1>6. CASE SaveManifest
  <2>1. IdsOK' /\ BackupsOK' /\ SnapshotOK' /\ WriteOK' /\ SavedOK' /\ RestoreOK'
    BY <1>6 DEF SaveManifest, IdsOK, BackupsOK, SnapshotOK, WriteOK, SavedOK, RestoreOK
  <2>2. LiveOK'
    BY <1>6 DEF SaveManifest, LiveOK, RestoreValue, WriteOK, IdsOK
  <2>3. QED
    BY <2>1, <2>2
<1>7. CASE BodyFails
  <2>1. IdsOK' /\ BackupsOK' /\ SnapshotOK' /\ WriteOK' /\ SavedOK' /\ LiveOK'
    BY <1>7 DEF BodyFails, StartRestore, IdsOK, BackupsOK, SnapshotOK, WriteOK, SavedOK, LiveOK, RestoreValue
  <2>2. RestoreOK'
    BY <1>7 DEF BodyFails, StartRestore, RestoreOK, WriteOK
  <2>3. QED
    BY <2>1, <2>2
<1>8. CASE ManifestUnreadable
  <2>1. IdsOK' /\ BackupsOK' /\ SnapshotOK' /\ WriteOK' /\ SavedOK' /\ RestoreOK' /\ LiveOK'
    BY <1>8 DEF ManifestUnreadable, Leave, IdsOK, BackupsOK, SnapshotOK, WriteOK, SavedOK, RestoreOK, LiveOK, RestoreValue
  <2>2. QED
    BY <2>1
<1>9. CASE CommitCleanup
  <2>1. IdsOK' /\ BackupsOK' /\ SnapshotOK' /\ WriteOK' /\ SavedOK' /\ RestoreOK'
    BY <1>9 DEF CommitCleanup, DropBackups, IdsOK, BackupsOK, SnapshotOK, WriteOK, SavedOK, RestoreOK
  <2>2. LiveOK'
    BY <1>9 DEF CommitCleanup, DropBackups, LiveOK, RestoreValue, SavedOK
  <2>3. QED
    BY <2>1, <2>2
<1>10. CASE CommitDone
  <2>1. BackupsOK' /\ SnapshotOK' /\ WriteOK' /\ SavedOK' /\ RestoreOK'
    BY <1>10 DEF CommitDone, Leave, BackupsOK, SnapshotOK, WriteOK, SavedOK, RestoreOK
  <2>2. IdsOK'
    BY <1>10 DEF CommitDone, Leave, IdsOK, SavedOK
  <2>3. LiveOK'
    BY <1>10 DEF CommitDone, Leave, LiveOK, RestoreValue, SavedOK
  <2>4. QED
    BY <2>1, <2>2, <2>3
<1>11. ASSUME NEW p \in Path, RestoreUnlink(p) PROVE IInv'
  <2>1. IdsOK' /\ BackupsOK' /\ SnapshotOK' /\ WriteOK' /\ SavedOK' /\ RestoreOK'
    BY <1>11 DEF RestoreUnlink, IdsOK, BackupsOK, SnapshotOK, WriteOK, SavedOK, RestoreOK
  <2>2. LiveOK'
    BY <1>11 DEF RestoreUnlink, LiveOK, RestoreValue, RestoreOK, BackupsOK
  <2>3. QED
    BY <2>1, <2>2
<1>12. ASSUME NEW p \in Path, RestoreReplace(p) PROVE IInv'
  <2>1. IdsOK' /\ BackupsOK' /\ SnapshotOK' /\ WriteOK' /\ SavedOK'
    BY <1>12 DEF RestoreReplace, IdsOK, BackupsOK, SnapshotOK, WriteOK, SavedOK
  <2>2. RestoreOK'
    BY <1>12 DEF RestoreReplace, RestoreOK, BackupsOK
  <2>3. LiveOK'
    BY <1>12 DEF RestoreReplace, LiveOK, RestoreValue, RestoreOK, BackupsOK
  <2>4. QED
    BY <2>1, <2>2, <2>3
<1>13. ASSUME NEW p \in Path, RestoreNew(p) PROVE IInv'
  <2>1. IdsOK' /\ BackupsOK' /\ SnapshotOK' /\ WriteOK' /\ SavedOK' /\ RestoreOK'
    BY <1>13 DEF RestoreNew, IdsOK, BackupsOK, SnapshotOK, WriteOK, SavedOK, RestoreOK
  <2>2. LiveOK'
    BY <1>13 DEF RestoreNew, LiveOK, RestoreValue, RestoreOK, BackupsOK
  <2>3. QED
    BY <2>1, <2>2
<1>14. ASSUME NEW p \in Path, RestoreError(p) PROVE IInv'
  <2>1. IdsOK' /\ BackupsOK' /\ SnapshotOK' /\ WriteOK' /\ SavedOK' /\ RestoreOK' /\ LiveOK'
    BY <1>14 DEF RestoreError, NextJournal, IdsOK, BackupsOK, SnapshotOK, WriteOK, SavedOK, RestoreOK, LiveOK, RestoreValue
  <2>2. QED
    BY <2>1
<1>15. CASE RestoreDone
  <2>1. BackupsOK' /\ SnapshotOK' /\ WriteOK' /\ SavedOK' /\ RestoreOK'
    BY <1>15 DEF RestoreDone, Leave, NextJournal, BackupsOK, SnapshotOK, WriteOK, SavedOK, RestoreOK
  <2>2. IdsOK'
    BY <1>15 DEF RestoreDone, Leave, NextJournal, IdsOK, RestoreOK
  <2>3. LiveOK'
    BY <1>15 DEF RestoreDone, Leave, NextJournal, LiveOK, RestoreValue, RestoreOK, BackupsOK
  <2>4. QED
    BY <2>1, <2>2, <2>3
<1>16. CASE Crash
  <2>1. IdsOK' /\ BackupsOK' /\ SnapshotOK' /\ WriteOK' /\ SavedOK' /\ RestoreOK' /\ LiveOK'
    BY <1>16 DEF Crash, IdsOK, BackupsOK, SnapshotOK, WriteOK, SavedOK, RestoreOK, LiveOK, RestoreValue
  <2>2. QED
    BY <2>1
<1>17. CASE Start
  <2>1. IdsOK' /\ BackupsOK' /\ SnapshotOK' /\ WriteOK' /\ SavedOK' /\ RestoreOK' /\ LiveOK'
    BY <1>17 DEF Start, IdsOK, BackupsOK, SnapshotOK, WriteOK, SavedOK, RestoreOK, LiveOK, RestoreValue
  <2>2. QED
    BY <2>1
<1>18. ASSUME NEW t \in Txn, RecoverRollback(t) PROVE IInv'
  <2>1. IdsOK' /\ BackupsOK' /\ SnapshotOK' /\ WriteOK' /\ SavedOK' /\ LiveOK'
    BY <1>18 DEF RecoverRollback, StartRestore, IdsOK, BackupsOK, SnapshotOK, WriteOK, SavedOK, LiveOK, RestoreValue
  <2>2. RestoreOK'
    BY <1>18 DEF RecoverRollback, StartRestore, RestoreOK, IdsOK
  <2>3. QED
    BY <2>1, <2>2
<1>19. ASSUME NEW t \in Txn, RecoverCommitted(t) PROVE IInv'
  <2>1. t \notin Live /\ Live' = Live
    BY <1>19 DEF RecoverCommitted, NextJournal
  <2>2. \A s \in Live : backup'[s] = backup[s]
    BY <1>19, <2>1 DEF RecoverCommitted, DropBackups
  <2>3. IdsOK' /\ SnapshotOK' /\ WriteOK' /\ SavedOK' /\ RestoreOK'
    BY <1>19 DEF RecoverCommitted, NextJournal, IdsOK, SnapshotOK, WriteOK, SavedOK, RestoreOK
  <2>4. BackupsOK'
    <3>1. PICK S \in SUBSET Path : backup' = DropBackups(t, S)
      BY <1>19 DEF RecoverCommitted
    <3>2. \A s \in Txn, p \in Path : backup'[s][p] \in {backup[s][p], NoBackup}
      BY <1>0, <3>1 DEF DropBackups
    <3>3. UNCHANGED <<existed, used>>
      BY <1>19 DEF RecoverCommitted
    <3> QED BY <3>2, <3>3 DEF BackupsOK
  <2>5. LiveOK'
    <3> HIDE DEF Live
    <3>1. UNCHANGED <<file, want, stacked, paths, existed>>
      BY <1>19 DEF RecoverCommitted
    <3>2. \A s \in Live, p \in Path : RestoreValue(s, p)' = RestoreValue(s, p)
      BY <2>2, <3>1 DEF RestoreValue
    <3>3. QED
      BY <2>1, <3>1, <3>2 DEF LiveOK
  <2>6. QED
    BY <2>3, <2>4, <2>5
<1>20. ASSUME NEW t \in Txn, RecoverSkip(t) PROVE IInv'
  <2>1. IdsOK' /\ BackupsOK' /\ SnapshotOK' /\ WriteOK' /\ SavedOK' /\ RestoreOK' /\ LiveOK'
    BY <1>20 DEF RecoverSkip, NextJournal, IdsOK, BackupsOK, SnapshotOK, WriteOK, SavedOK, RestoreOK, LiveOK, RestoreValue
  <2>2. QED
    BY <2>1
<1>21. CASE FinishStart
  <2>1. IdsOK' /\ BackupsOK' /\ SnapshotOK' /\ WriteOK' /\ SavedOK' /\ RestoreOK' /\ LiveOK'
    BY <1>21 DEF FinishStart, IdsOK, BackupsOK, SnapshotOK, WriteOK, SavedOK, RestoreOK, LiveOK, RestoreValue
  <2>2. QED
    BY <2>1
<1>22. CASE UNCHANGED vars
  BY <1>22 DEF vars, IdsOK, BackupsOK, SnapshotOK, WriteOK, SavedOK, RestoreOK,
               LiveOK, RestoreValue
<1> HIDE <1>0 DEF IInv, Typed, TypeOK, Steps, Busy, disk, payload, manifest, control,
                  history, Live
<1>23. CASE Edit
  BY <1>1, <1>2, <1>3, <1>4, <1>5, <1>6, <1>7, <1>8, <1>9, <1>10, <1>23 DEF Edit
<1>24. CASE Restore
  BY <1>11, <1>12, <1>13, <1>14, <1>15, <1>24 DEF Restore
<1>25. CASE Startup
  BY <1>17, <1>18, <1>19, <1>20, <1>21, <1>25 DEF Startup
<1>26. QED
  BY <1>16, <1>22, <1>23, <1>24, <1>25 DEF Next

LEMMA Invariance == Spec => [](IInv /\ Typed)
BY InductiveInit, InductiveStep, TypedInit, TypedStep, PTL DEF Spec
-----------------------------------------------------------------------------
\* What recovery would leave on disk is the committed page.
LEMMA RecoveryView == IInv => CrashConsistent
<1> SUFFICES ASSUME IInv, ~stacked PROVE AfterRecovery = want
  BY DEF CrashConsistent
<1>1. CASE Live = {}
  BY <1>1 DEF IInv, LiveOK, AfterRecovery
<1>2. CASE Live # {}
  <2> DEFINE t == CHOOSE s \in Live : TRUE
  <2>1. t \in Live
    BY <1>2
  <2>2. \A p \in Path : RestoreValue(t, p) = want[p]
    BY <2>1 DEF IInv, LiveOK
  <2>3. AfterRecovery = [p \in Path |-> RestoreValue(t, p)]
    BY <1>2 DEF AfterRecovery
  <2>4. want \in [Path -> Content]
    BY DEF IInv, TypeOK
  <2>5. QED
    BY <2>2, <2>3, <2>4
<1>3. QED
  BY <1>1, <1>2

\* Whatever write the process dies in, and whatever file operation failed before,
\* recovery brings back the artifacts of the last manifest commit, unless an edit
\* began on a page that still had a stranded journal.
THEOREM CrashConsistency == Spec => []CrashConsistent
BY Invariance, RecoveryView, PTL

\* A served page without an uncommitted journal shows what its manifest was saved for.
THEOREM ServedConsistency == Spec => []ServedConsistent
<1>1. IInv => ServedConsistent
  BY DEF IInv, LiveOK, ServedConsistent
<1>2. QED
  BY <1>1, Invariance, PTL

\* A backup recovery still needs leaves the disk only by becoming the artifact again.
THEOREM BackupsConsumed == Spec => BackupOnlyConsumed
<1>1. ASSUME IInv, [Next]_vars
      PROVE  [\A t \in Live : \A p \in paths[t] :
                backup[t][p] # NoBackup /\ backup'[t][p] = NoBackup
                  => file'[p] = backup[t][p]]_vars
  <2> SUFFICES ASSUME NEW t \in Live, NEW p \in paths[t],
                      backup[t][p] # NoBackup, backup'[t][p] = NoBackup
               PROVE  file'[p] = backup[t][p]
    OBVIOUS
  <2>1. t \in journal /\ t \in Txn /\ p \in Path /\ gen < target[t]
    BY <1>1 DEF IInv, TypeOK, Live
  <2>2. backup' # backup
    OBVIOUS
  <2> USE <1>1, <2>1, <2>2 DEF IInv, TypeOK, disk
  <2>3. ASSUME NEW q \in Path, SnapshotPath(q) PROVE FALSE
    BY <2>3 DEF SnapshotPath, SnapshotOK
  <2>4. CASE EnterFails
    BY <2>4 DEF EnterFails, DropBackups, SnapshotOK
  <2>5. CASE CommitCleanup
    BY <2>5 DEF CommitCleanup, DropBackups, SavedOK
  <2>6. ASSUME NEW q \in Path, RestoreReplace(q) PROVE file'[p] = backup[t][p]
    BY <2>6 DEF RestoreReplace
  <2>7. ASSUME NEW s \in Txn, RecoverCommitted(s) PROVE FALSE
    BY <2>7 DEF RecoverCommitted, DropBackups
  <2>8. CASE FinishStart
    BY <2>8 DEF FinishStart
  <2>9. ASSUME NEW q \in Path, RestoreError(q) PROVE FALSE
    BY <2>9 DEF RestoreError
  <2> HIDE DEF IInv, TypeOK
  <2>10. CASE Edit
    BY <2>3, <2>4, <2>5, <2>10
       DEF Edit, Enter, WriteJournal, WriteArtifact, SaveManifest, BodyFails,
           ManifestUnreadable, CommitDone
  <2>11. CASE Restore
    BY <2>6, <2>9, <2>11 DEF Restore, RestoreUnlink, RestoreNew, RestoreDone
  <2>12. CASE Startup
    BY <2>7, <2>8, <2>12 DEF Startup, Start, RecoverRollback, RecoverSkip
  <2>13. QED
    BY <2>10, <2>11, <2>12 DEF Next, Crash, vars
<1>2. QED
  BY <1>1, Invariance, PTL DEF Spec, BackupOnlyConsumed
-----------------------------------------------------------------------------
(***************************************************************************)
(* The refinement of AtomicPage.  Only SaveManifest moves the page: before *)
(* it recovery brings back the old page, after it the new one is on disk.  *)
(***************************************************************************)
LEMMA PageInit == Init => Page!Init
<1> SUFFICES ASSUME Init PROVE Page!Init
  OBVIOUS
<1>1. AfterRecovery = file
  BY DEF Init, AfterRecovery, Live
<1>2. QED
  BY <1>1 DEF Init, Page!Init

LEMMA OnlySaveMoves ==
  [Next]_vars => SaveManifest \/ UNCHANGED <<want, gen, txid>>
BY DEF Next, Edit, Restore, Startup, vars, manifest, history, Enter, SnapshotPath, EnterFails,
       WriteJournal, WriteArtifact, BodyFails, ManifestUnreadable, CommitCleanup, CommitDone,
       RestoreUnlink, RestoreReplace, RestoreNew, RestoreError, RestoreDone, Crash, Start,
       RecoverRollback, RecoverCommitted, RecoverSkip, FinishStart

\* An edit that stacked on a stranded journal is never forgotten.
LEMMA StackingStays == [Next]_vars /\ ~stacked' => ~stacked
<1> SUFFICES ASSUME [Next]_vars, stacked PROVE stacked'
  OBVIOUS
<1>1. QED
  BY DEF Next, Edit, Restore, Startup, vars, manifest, history, Enter, SnapshotPath, EnterFails,
         WriteJournal, WriteArtifact, SaveManifest, BodyFails, ManifestUnreadable,
         CommitCleanup, CommitDone, RestoreUnlink, RestoreReplace, RestoreNew, RestoreError,
         RestoreDone, Crash, Start, RecoverRollback, RecoverCommitted, RecoverSkip, FinishStart

LEMMA SaveIsCommit ==
  ASSUME IInv, CrashConsistent, CrashConsistent', ~stacked, ~stacked', SaveManifest
  PROVE  Page!Next
<1>1. cur \in Txn /\ txid # cur
  BY DEF IInv, TypeOK, IdsOK, WriteOK, Busy, SaveManifest
<1>2. AfterRecovery = want /\ AfterRecovery' = file
  BY DEF CrashConsistent, SaveManifest
<1>3. \A p \in Path : file[p] \in {cur, Absent, want[p]}
  BY DEF IInv, WriteOK, SaveManifest
<1>4. file \in [Path -> Content] /\ want \in [Path -> Content]
  BY DEF IInv, TypeOK
<1>5. gen' = gen + 1 /\ txid' = cur
  BY DEF IInv, TypeOK, WriteOK, SaveManifest
<1> DEFINE S == {p \in Path : file[p] # want[p]}
           new == [p \in Path |-> IF file[p] = cur THEN cur ELSE Absent]
<1>6. new \in [Path -> {cur, Absent}] /\ S \in SUBSET Path
  OBVIOUS
<1>7. file = [p \in Path |-> IF p \in S THEN new[p] ELSE want[p]]
  BY <1>3, <1>4
<1>8. Page!Commit(cur)
  <2> HIDE DEF S, new
  <2>1. AfterRecovery' = [p \in Path |-> IF p \in S THEN new[p] ELSE AfterRecovery[p]]
    BY <1>2, <1>7
  <2>2. QED
    BY <1>1, <1>5, <1>6, <2>1 DEF Page!Commit
<1>9. QED
  BY <1>1, <1>8 DEF Page!Next

\* As long as no edit begins on a page with a stranded journal, the files, backups,
\* journals and manifest together implement the abstract page: each edit replaces its
\* artifacts at once or not at all, whatever fails and whenever the process dies.
THEOREM Refinement == Spec => ImplementsAtomicPage
<1>1. Init => Page!Init /\ IInv /\ Typed
  BY PageInit, InductiveInit, TypedInit DEF Init
<1>2. IInv /\ Typed /\ [Next]_vars => (IInv /\ Typed)'
  BY InductiveStep, TypedStep DEF vars, history
<1>3. IInv /\ Typed => CrashConsistent
  BY RecoveryView
<1>4. ASSUME IInv, CrashConsistent, CrashConsistent', [Next]_vars, ~stacked'
      PROVE  Page!Next \/ UNCHANGED Page!pageVars
  <2>1. ~stacked
    BY <1>4, StackingStays
  <2>2. CASE SaveManifest
    BY <1>4, <2>1, <2>2, SaveIsCommit
  <2>3. CASE UNCHANGED <<want, gen, txid>>
    <3>1. AfterRecovery' = AfterRecovery
      BY <1>4, <2>1, <2>3 DEF CrashConsistent
    <3>2. QED
      BY <2>3, <3>1 DEF Page!pageVars
  <2>4. QED
    BY <1>4, <2>1, <2>2, <2>3, OnlySaveMoves
<1>5. QED
  BY <1>1, <1>2, <1>3, <1>4, PTL DEF Spec, ImplementsAtomicPage
=============================================================================
