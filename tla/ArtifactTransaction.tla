------------------------ MODULE ArtifactTransaction ------------------------
(***************************************************************************)
(* PageArtifactTransaction of app/manifest_utils.py and the startup        *)
(* recovery of app/main.py, for the artifacts of one page: its clean       *)
(* image, the cached automatic clean and the brush masks.                  *)
(*                                                                         *)
(* An edit of the page copies every artifact it may touch to a rollback    *)
(* file, writes a journal that names them, overwrites the artifacts one by *)
(* one, and commits by saving the manifest with a new artifact_generation. *)
(* The process may die between any two of these writes, and most of the    *)
(* file operations may fail and be swallowed; what is left on disk is then *)
(* put right by the recovery the next start runs.                          *)
(*                                                                         *)
(* Edits of one page run one at a time: each holds the page's FileLock     *)
(* from before __enter__ until after __exit__, and the operating system    *)
(* releases it when the process dies.  So one program counter is enough,   *)
(* for the edit that holds the lock or for the starting server.            *)
(***************************************************************************)
EXTENDS Naturals, FiniteSets

CONSTANTS
  Path,      \* artifact files of the page
  Core,      \* those every edit declares: clean_<name> and auto_clean_<name>
  Txn,       \* transaction ids (uuid4: each is used once)
  NoTxn,     \* artifact_transaction_id of a page never edited
  Initial,   \* contents the artifacts had before the first edit
  Absent,    \* "contents" of a file that does not exist
  NoBackup   \* there is no .rollback file

ASSUME ConstantsAssumption ==
  /\ Core \subseteq Path
  /\ NoTxn \notin Txn
  /\ Initial \notin Txn
  /\ Absent \notin Txn \cup {Initial}
  /\ NoBackup \notin Txn \cup {Initial, Absent}

VARIABLES
  file,      \* the artifacts on disk: who wrote each of them
  backup,    \* .<name>.<txid>.rollback
  journal,   \* transactions whose .page-NNNN.<txid>.artifact-txn.json exists
  target,    \* payload of a journal: target_artifact_generation ...
  paths,     \* ... its records' paths ...
  existed,   \* ... and those of them that existed at __enter__
  gen,       \* manifest: artifact_generation of the page
  txid,      \* manifest: artifact_transaction_id of the page
  pc,        \* what the lock holder, or the starting server, does next
  cur,       \* the transaction it works on
  todo,      \* records it has not handled yet
  failed,    \* a record could not be restored
  booting,   \* the server is starting
  scan,      \* journals the start has not looked at
  used,      \* transaction ids drawn so far
  want,      \* history: the artifacts as of the last manifest commit
  stacked    \* history: an edit began while a stranded journal existed

disk == <<file, backup, journal>>
payload == <<target, paths, existed>>
manifest == <<gen, txid>>
control == <<pc, cur, todo, failed, booting, scan>>
history == <<used, want, stacked>>
vars == <<disk, payload, manifest, control, history>>

Content == Txn \cup {Initial, Absent}
Steps == {"idle", "backup", "write", "saved", "unlink", "restore", "down", "recover"}

\* A journal recovery would roll back: the manifest has not reached its generation.
Live == {t \in journal : gen < target[t]}

TypeOK ==
  /\ file \in [Path -> Content]
  /\ backup \in [Txn -> [Path -> Content \cup {NoBackup}]]
  /\ journal \subseteq Txn
  /\ target \in [Txn -> Nat]
  /\ paths \in [Txn -> SUBSET Path]
  /\ existed \in [Txn -> SUBSET Path]
  /\ gen \in Nat
  /\ txid \in Txn \cup {NoTxn}
  /\ pc \in Steps
  /\ cur \in Txn \cup {NoTxn}
  /\ todo \subseteq Path
  /\ failed \in BOOLEAN
  /\ booting \in BOOLEAN
  /\ scan \subseteq Txn
  /\ used \subseteq Txn
  /\ want \in [Path -> Content]
  /\ stacked \in BOOLEAN

Init ==
  /\ file \in [Path -> {Initial, Absent}]
  /\ backup = [t \in Txn |-> [p \in Path |-> NoBackup]]
  /\ journal = {}
  /\ target = [t \in Txn |-> 0]
  /\ paths = [t \in Txn |-> {}]
  /\ existed = [t \in Txn |-> {}]
  /\ gen = 0
  /\ txid = NoTxn
  /\ pc = "idle"
  /\ cur = NoTxn
  /\ todo = {}
  /\ failed = FALSE
  /\ booting = FALSE
  /\ scan = {}
  /\ used = {}
  /\ want = file
  /\ stacked = FALSE
-----------------------------------------------------------------------------
(* Helpers of the actions. *)

\* The .rollback files of t that lie in S are removed.
DropBackups(t, S) ==
  [backup EXCEPT ![t] = [p \in Path |-> IF p \in S THEN NoBackup ELSE backup[t][p]]]

\* The edit lets go of the page lock.
Leave ==
  /\ pc' = "idle"
  /\ cur' = NoTxn
  /\ todo' = {}
  /\ UNCHANGED <<failed, booting, scan>>

\* The start is done with this journal and turns to the next one.
NextJournal(t) ==
  /\ pc' = "recover"
  /\ cur' = NoTxn
  /\ todo' = {}
  /\ scan' = scan \ {t}
  /\ UNCHANGED <<failed, booting>>

StartRestore(t) ==
  /\ pc' = "restore"
  /\ cur' = t
  /\ todo' = paths[t]
  /\ failed' = FALSE
  /\ UNCHANGED <<booting, scan>>
-----------------------------------------------------------------------------
(* The life of one edit. *)

\* __enter__ reads the manifest's generation; the edit declares the core artifacts
\* and those of its own (masks).
Enter(t) ==
  /\ pc = "idle"
  /\ t \notin used
  /\ \E P \in SUBSET Path :
       /\ Core \subseteq P
       /\ paths' = [paths EXCEPT ![t] = P]
       /\ todo' = P
  /\ target' = [target EXCEPT ![t] = gen + 1]
  /\ used' = used \cup {t}
  /\ stacked' = (stacked \/ Live # {})
  /\ pc' = "backup"
  /\ cur' = t
  /\ UNCHANGED <<disk, existed, manifest, failed, booting, scan, want>>

\* One turn of __enter__'s loop: the record of p, and a copy of p if it exists.
SnapshotPath(p) ==
  /\ pc = "backup"
  /\ p \in todo
  /\ existed' = IF file[p] = Absent THEN existed
                ELSE [existed EXCEPT ![cur] = @ \cup {p}]
  /\ backup' = IF file[p] = Absent THEN backup
               ELSE [backup EXCEPT ![cur][p] = file[p]]
  /\ todo' = todo \ {p}
  /\ UNCHANGED <<file, journal, target, paths, manifest, pc, cur, failed, booting,
                 scan, history>>

\* A copy or the journal's write raises: __enter__ removes what it can and raises.
EnterFails ==
  /\ pc = "backup"
  /\ \E S \in SUBSET Path : backup' = DropBackups(cur, S)
  /\ Leave
  /\ UNCHANGED <<file, journal, payload, manifest, history>>

\* _write_journal, after every record.
WriteJournal ==
  /\ pc = "backup"
  /\ todo = {}
  /\ journal' = journal \cup {cur}
  /\ pc' = "write"
  /\ UNCHANGED <<file, backup, payload, manifest, cur, todo, failed, booting, scan, history>>

\* The body of the edit replaces a declared artifact, or removes it (reset of a mask).
WriteArtifact(p) ==
  /\ pc = "write"
  /\ p \in paths[cur]
  /\ \E c \in {cur, Absent} : file' = [file EXCEPT ![p] = c]
  /\ UNCHANGED <<backup, journal, payload, manifest, control, history>>

\* mark_manifest_commit and save_manifest_raw: the atomic replace of manifest.json.
SaveManifest ==
  /\ pc = "write"
  /\ gen = target[cur] - 1
  /\ gen' = target[cur]
  /\ txid' = cur
  /\ want' = file
  /\ pc' = "saved"
  /\ UNCHANGED <<disk, payload, cur, todo, failed, booting, scan, used, stacked>>

\* Mutant: rollback() removes the journal before it puts the records back.
RollbackJournalFirst ==
  /\ pc = "write"
  /\ StartRestore(cur)
  /\ journal' = journal \ {cur}
  /\ UNCHANGED <<file, backup, payload, manifest, history>>

\* The body raises before the manifest is saved: __exit__ rolls back.
BodyFails ==
  /\ pc = "write"
  /\ StartRestore(cur)
  /\ UNCHANGED <<disk, payload, manifest, history>>

\* __exit__ cannot read the manifest: it leaves files, backups and journal as they are.
ManifestUnreadable ==
  /\ pc \in {"write", "saved"}
  /\ Leave
  /\ UNCHANGED <<disk, payload, manifest, history>>

\* commit(), called by the body or, when something raised after the save, by __exit__:
\* the backups go first; a file that cannot be removed stays.
CommitCleanup ==
  /\ pc = "saved"
  /\ \E S \in SUBSET Path : backup' = DropBackups(cur, S)
  /\ pc' = "unlink"
  /\ UNCHANGED <<file, journal, payload, manifest, cur, todo, failed, booting, scan, history>>

\* ... then the journal, whose removal may fail too.
CommitDone ==
  /\ pc = "unlink"
  /\ journal' \in {journal, journal \ {cur}}
  /\ Leave
  /\ UNCHANGED <<file, backup, payload, manifest, history>>
-----------------------------------------------------------------------------
(* Putting the records of one transaction back: rollback() of an edit that *)
(* failed and the uncommitted branch of the recovery.  A record is handled *)
(* by unlink then os.replace; the records may go in any order.             *)

RestoreUnlink(p) ==
  /\ pc = "restore"
  /\ p \in todo
  /\ backup[cur][p] # NoBackup
  /\ file' = [file EXCEPT ![p] = Absent]
  /\ UNCHANGED <<backup, journal, payload, manifest, control, history>>

RestoreReplace(p) ==
  /\ pc = "restore"
  /\ p \in todo
  /\ backup[cur][p] # NoBackup
  /\ file[p] = Absent
  /\ file' = [file EXCEPT ![p] = backup[cur][p]]
  /\ backup' = [backup EXCEPT ![cur][p] = NoBackup]
  /\ todo' = todo \ {p}
  /\ UNCHANGED <<journal, payload, manifest, pc, cur, failed, booting, scan, history>>

\* Mutant: a file the edit created is left behind.
RestoreNewLeaves(p) ==
  /\ pc = "restore"
  /\ p \in todo
  /\ backup[cur][p] = NoBackup
  /\ todo' = todo \ {p}
  /\ UNCHANGED <<disk, payload, manifest, pc, cur, failed, booting, scan, history>>

\* No backup: the file is removed if the edit created it, and left if it was there.
RestoreNew(p) ==
  /\ pc = "restore"
  /\ p \in todo
  /\ backup[cur][p] = NoBackup
  /\ file' = IF p \in existed[cur] THEN file ELSE [file EXCEPT ![p] = Absent]
  /\ todo' = todo \ {p}
  /\ UNCHANGED <<backup, journal, payload, manifest, pc, cur, failed, booting, scan, history>>

\* A record cannot be restored: rollback() goes on with the others and keeps the
\* journal; the recovery gives this journal up.
RestoreError(p) ==
  /\ pc = "restore"
  /\ p \in todo
  /\ \/ /\ ~booting
        /\ todo' = todo \ {p}
        /\ failed' = TRUE
        /\ UNCHANGED <<pc, cur, booting, scan>>
     \/ /\ booting
        /\ NextJournal(cur)
  /\ UNCHANGED <<disk, payload, manifest, history>>

\* Mutant: the journal goes although a record could not be restored.
RestoreDoneAnyway ==
  /\ pc = "restore"
  /\ todo = {}
  /\ journal' \in {journal, journal \ {cur}}
  /\ \/ ~booting /\ Leave
     \/ booting /\ NextJournal(cur)
  /\ UNCHANGED <<file, backup, payload, manifest, history>>

\* All records handled: the journal goes, unless one failed or it cannot be removed.
RestoreDone ==
  /\ pc = "restore"
  /\ todo = {}
  /\ journal' \in IF failed THEN {journal} ELSE {journal, journal \ {cur}}
  /\ \/ ~booting /\ Leave
     \/ booting /\ NextJournal(cur)
  /\ UNCHANGED <<file, backup, payload, manifest, history>>
-----------------------------------------------------------------------------
(* The process dies; the next one starts. *)

Crash ==
  /\ pc # "down"
  /\ pc' = "down"
  /\ cur' = NoTxn
  /\ todo' = {}
  /\ failed' = FALSE
  /\ booting' = FALSE
  /\ scan' = {}
  /\ UNCHANGED <<disk, payload, manifest, history>>

\* lifespan calls recover_page_artifact_transactions, which globs the journals.
Start ==
  /\ pc = "down"
  /\ pc' = "recover"
  /\ booting' = TRUE
  /\ scan' = journal
  /\ UNCHANGED <<disk, payload, manifest, cur, todo, failed, history>>

\* The manifest never reached the journal's generation: roll back.
RecoverRollback(t) ==
  /\ pc = "recover"
  /\ t \in scan
  /\ gen < target[t]
  /\ StartRestore(t)
  /\ UNCHANGED <<disk, payload, manifest, history>>

\* It did, by this transaction or a later one: drop the backups, then the journal.
\* An error leaves the rest of them for the next start.
RecoverCommitted(t) ==
  /\ pc = "recover"
  /\ t \in scan
  /\ gen > target[t] \/ (gen = target[t] /\ txid = t)
  /\ \/ /\ backup' = DropBackups(t, Path)
        /\ journal' = journal \ {t}
     \/ /\ \E S \in SUBSET Path : backup' = DropBackups(t, S)
        /\ journal' = journal
  /\ NextJournal(t)
  /\ UNCHANGED <<file, payload, manifest, history>>

\* The generation is another transaction's, or a file cannot be read: leave it.
RecoverSkip(t) ==
  /\ pc = "recover"
  /\ t \in scan
  /\ NextJournal(t)
  /\ UNCHANGED <<disk, payload, manifest, history>>

\* Mutant: the temp cleanup also takes the backups a journal still names.
FinishStartForgetsJournals ==
  /\ pc = "recover"
  /\ scan = {}
  /\ \E S \in SUBSET Txn :
       backup' = [t \in Txn |-> IF t \in S THEN [p \in Path |-> NoBackup] ELSE backup[t]]
  /\ pc' = "idle"
  /\ booting' = FALSE
  /\ UNCHANGED <<file, journal, payload, manifest, cur, todo, failed, scan, history>>

\* cleanup_stale_temp_artifacts removes the .rollback files that are old enough and
\* belong to no journal; then the server serves.
FinishStart ==
  /\ pc = "recover"
  /\ scan = {}
  /\ \E S \in SUBSET (Txn \ journal) :
       backup' = [t \in Txn |-> IF t \in S THEN [p \in Path |-> NoBackup] ELSE backup[t]]
  /\ pc' = "idle"
  /\ booting' = FALSE
  /\ UNCHANGED <<file, journal, payload, manifest, cur, todo, failed, scan, history>>
-----------------------------------------------------------------------------
Edit ==
  \/ \E t \in Txn : Enter(t)
  \/ \E p \in Path : SnapshotPath(p)
  \/ EnterFails
  \/ WriteJournal
  \/ \E p \in Path : WriteArtifact(p)
  \/ SaveManifest
  \/ BodyFails
  \/ ManifestUnreadable
  \/ CommitCleanup
  \/ CommitDone

Restore ==
  \/ \E p \in Path : RestoreUnlink(p)
  \/ \E p \in Path : RestoreReplace(p)
  \/ \E p \in Path : RestoreNew(p)
  \/ \E p \in Path : RestoreError(p)
  \/ RestoreDone

Startup ==
  \/ Start
  \/ \E t \in Txn : RecoverRollback(t)
  \/ \E t \in Txn : RecoverCommitted(t)
  \/ \E t \in Txn : RecoverSkip(t)
  \/ FinishStart

Next == Edit \/ Restore \/ Startup \/ Crash

Spec == Init /\ [][Next]_vars
-----------------------------------------------------------------------------
(* What a crash at this instant, followed by an undisturbed recovery, would *)
(* leave on disk.                                                           *)

RestoreValue(t, p) ==
  CASE p \notin paths[t] -> file[p]
    [] p \in paths[t] /\ backup[t][p] # NoBackup -> backup[t][p]
    [] p \in paths[t] /\ backup[t][p] = NoBackup /\ p \in existed[t] -> file[p]
    [] OTHER -> Absent

AfterRecovery ==
  IF Live = {} THEN file
  ELSE LET t == CHOOSE t \in Live : TRUE
       IN [p \in Path |-> RestoreValue(t, p)]

\* At every instant, whatever write the process dies in and whatever file operation
\* failed before, recovery would bring back exactly the artifacts of the last manifest
\* commit.  The one exception is an edit begun on a page whose earlier edit could not
\* be rolled back: its backups copy the half-written files (manifest_utils.py:207, 295).
CrashConsistent == ~stacked => AfterRecovery = want

\* A page that is being served and has no journal to undo shows the artifacts its
\* manifest was saved for, never a mix of two edits (manifest_utils.py:294-316).
ServedConsistent ==
  ~stacked /\ pc = "idle" /\ Live = {} => file = want

\* A rollback file that recovery still needs leaves the disk only by becoming the
\* artifact again: neither the temp cleanup nor a commit may take it (lines 392-412).
BackupOnlyConsumed ==
  [][\A t \in Live : \A p \in paths[t] :
       backup[t][p] # NoBackup /\ backup'[t][p] = NoBackup => file'[p] = backup[t][p]]_vars

Page == INSTANCE AtomicPage WITH page <- AfterRecovery, generation <- gen, owner <- txid

\* As long as no edit begins on a page with a stranded journal, the files, backups,
\* journals and manifest together behave as one page that each edit replaces at once
\* or not at all (manifest_utils.py:137-316, 319-375).
ImplementsAtomicPage ==
  /\ Page!Init
  /\ [][~stacked' => Page!Next \/ UNCHANGED Page!pageVars]_vars
-----------------------------------------------------------------------------
(* The inductive invariant behind CrashConsistent and the refinement.       *)

Busy == {"backup", "write", "saved", "unlink", "restore"}

\* Every transaction on disk was begun, and aims at most one generation ahead.
IdsOK ==
  /\ cur # NoTxn <=> pc \in Busy
  /\ cur \in used \cup {NoTxn}
  /\ txid \in used \cup {NoTxn}
  /\ journal \subseteq used
  /\ scan \subseteq journal
  /\ scan # {} => booting
  /\ booting => pc \in {"recover", "restore"}
  /\ \A t \in Txn : target[t] <= gen + 1

\* Only artifacts that existed have a backup; an unused id has none.
BackupsOK ==
  /\ \A t \in Txn, p \in Path : backup[t][p] # NoBackup => p \in existed[t]
  /\ \A t \in Txn \ used : existed[t] = {}

\* The records made so far describe the files, which the edit has not touched yet.
SnapshotOK ==
  pc = "backup" =>
    /\ cur \notin journal
    /\ txid # cur
    /\ target[cur] = gen + 1
    /\ todo \subseteq paths[cur]
    /\ \A p \in todo : p \notin existed[cur]
    /\ \A p \in paths[cur] \ todo :
         IF file[p] = Absent THEN p \notin existed[cur] ELSE backup[cur][p] = file[p]
    /\ ~stacked => Live = {}

\* While the edit writes, whatever it overwrites is in a backup.
WriteOK ==
  pc = "write" =>
    /\ cur \in Live
    /\ txid # cur
    /\ target[cur] = gen + 1
    /\ \A p \in paths[cur] : p \in existed[cur] => backup[cur][p] # NoBackup
    /\ ~stacked => \A p \in Path : file[p] \in {cur, Absent, want[p]}

\* After the save the manifest names the transaction.
SavedOK == pc \in {"saved", "unlink"} => gen = target[cur] /\ txid = cur

\* Records already put back need no backup any more.
RestoreOK ==
  pc = "restore" =>
    /\ cur \in Live
    /\ todo \subseteq paths[cur]
    /\ ~failed => \A p \in paths[cur] \ todo :
         /\ backup[cur][p] = NoBackup
         /\ p \notin existed[cur] => file[p] = Absent

\* At most one live journal, and it knows how to bring the committed page back.
LiveOK ==
  ~stacked =>
    /\ \A s, t \in Live : s = t
    /\ Live = {} => file = want
    /\ \A t \in Live, p \in Path : RestoreValue(t, p) = want[p]

IInv ==
  /\ TypeOK
  /\ IdsOK
  /\ BackupsOK
  /\ SnapshotOK
  /\ WriteOK
  /\ SavedOK
  /\ RestoreOK
  /\ LiveOK
=============================================================================
