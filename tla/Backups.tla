------------------------------ MODULE Backups -------------------------------
(***************************************************************************)
(* The backup manager: a directory per backup with a manifest in it.  A    *)
(* full backup ends with a clean-up of all backups; an incremental one     *)
(* copies the identifier of the full backup it goes back to.  Calls run on *)
(* threads without a lock of their own; identifiers of full backups may be *)
(* chosen by the caller, and chosen again.  No backup holds any file.      *)
(***************************************************************************)
EXTENDS Integers, FiniteSets, Tables

CONSTANTS
  BackupThreads,
  ChosenIds,        \* identifiers that callers choose
  MaxFull,          \* max_full_backups
  MaxIncremental,   \* max_incremental_backups
  MaxBackups        \* bound: backups begun

ASSUME BackupsAssumption ==
  /\ {MaxFull, MaxIncremental, MaxBackups} \subseteq Nat
  /\ ChosenIds \cap (1..MaxBackups) = {}

VARIABLES
  backupDirs,     \* directories below backup_dir
  backups,        \* identifier -> what its manifest.json says
  backupCalls,    \* thread -> its call in progress
  begun,          \* calls begun: the number is also the time of the manifest
  written,        \* all manifests ever written, with their identifier (observed)
  purged          \* manifests removed by a clean-up (observed)

backupVars == <<backupDirs, backups, backupCalls, begun, written, purged>>

BackupIds == 1..MaxBackups \cup ChosenIds
BackupIdle == [at |-> "idle"]
BackupAt(t, label) == backupCalls[t].at = label
BackupGo(t, call) == backupCalls' = [backupCalls EXCEPT ![t] = call]

\* list_backups tells the two kinds apart by the list of incremental backups.
IsFull(manifest) == ~manifest.incremental

BackupsInit ==
  /\ backupDirs = {} /\ backups = NoEntries
  /\ backupCalls = [t \in BackupThreads |-> BackupIdle]
  /\ begun = 0 /\ written = {} /\ purged = {}

-----------------------------------------------------------------------------
\* create_full_backup: the directory, under a chosen or a generated identifier.
BeginFull(t) ==
  /\ BackupAt(t, "idle") /\ begun < MaxBackups
  /\ begun' = begun + 1
  /\ \E id \in ChosenIds \cup {begun'} :
       /\ backupDirs' = backupDirs \cup {id}
       /\ BackupGo(t, [at |-> "full", id |-> id, time |-> begun'])
  /\ UNCHANGED <<backups, written, purged>>

\* Mutant: the backup an incremental one starts from counts as its full backup.
BeginIncrementalFrom(t, since) ==
  /\ BackupAt(t, "idle") /\ begun < MaxBackups
  /\ begun' = begun + 1
  /\ backupDirs' = backupDirs \cup {begun'}
  /\ IF since \in DOMAIN backups
     THEN BackupGo(t, [at |-> "incremental", id |-> begun', time |-> begun', root |-> since])
     ELSE UNCHANGED backupCalls
  /\ UNCHANGED <<backups, written, purged>>

\* create_incremental_backup: the directory comes first, then the manifest it
\* goes back to is read, and an error leaves the directory behind.
BeginIncremental(t, since) ==
  /\ BackupAt(t, "idle") /\ begun < MaxBackups
  /\ begun' = begun + 1
  /\ backupDirs' = backupDirs \cup {begun'}
  /\ IF since \in DOMAIN backups
     THEN BackupGo(t, [at |-> "incremental", id |-> begun', time |-> begun',
                       root |-> backups[since].root])
     ELSE UNCHANGED backupCalls
  /\ UNCHANGED <<backups, written, purged>>

\* The manifest is written if the directory is still there.
WriteManifest(t, manifest, next) ==
  /\ IF backupCalls[t].id \in backupDirs
     THEN /\ backups' = Put(backups, backupCalls[t].id, manifest)
          /\ written' = written \cup {[id |-> backupCalls[t].id, manifest |-> manifest]}
          /\ BackupGo(t, next)
     ELSE BackupGo(t, BackupIdle) /\ UNCHANGED <<backups, written>>
  /\ UNCHANGED <<backupDirs, begun, purged>>

WriteFull(t) ==
  /\ BackupAt(t, "full")
  /\ WriteManifest(t,
       [incremental |-> FALSE, root |-> backupCalls[t].id, time |-> backupCalls[t].time],
       [at |-> "list"])

WriteIncremental(t) ==
  /\ BackupAt(t, "incremental")
  /\ WriteManifest(t,
       [incremental |-> TRUE, root |-> backupCalls[t].root, time |-> backupCalls[t].time],
       BackupIdle)

\* The engine is not there, or a system call fails.
BackupFails(t) ==
  /\ backupCalls[t].at \in {"full", "incremental"}
  /\ BackupGo(t, BackupIdle)
  /\ UNCHANGED <<backupDirs, backups, begun, written, purged>>

-----------------------------------------------------------------------------
\* Mutant: the list is cut from the wrong end.
BeyondOldest(ids, n) ==
  {id \in ids : Cardinality({j \in ids : backups[j].time < backups[id].time}) >= n}

\* The backups of one kind beyond the newest n.
BeyondNewest(ids, n) ==
  {id \in ids : Cardinality({j \in ids : backups[j].time > backups[id].time}) >= n}

\* cleanup_old_backups lists what there is, then removes directories one by one.
ListBackups(t) ==
  /\ BackupAt(t, "list")
  /\ LET full == {id \in DOMAIN backups : IsFull(backups[id])}
         incremental == DOMAIN backups \ full
     IN  BackupGo(t, [at |-> "remove",
                      todo |-> BeyondNewest(full, MaxFull)
                                 \cup BeyondNewest(incremental, MaxIncremental)])
  /\ UNCHANGED <<backupDirs, backups, begun, written, purged>>

\* remove_dir_all takes the manifest with it, whoever wrote it by now.
RemoveBackup(t) ==
  /\ BackupAt(t, "remove") /\ backupCalls[t].todo # {}
  /\ \E id \in backupCalls[t].todo :
       /\ backupDirs' = backupDirs \ {id}
       /\ backups' = Drop(backups, id)
       /\ purged' = purged \cup {[id |-> i, manifest |-> backups[i]] : i \in {id} \cap DOMAIN backups}
       /\ BackupGo(t, [backupCalls[t] EXCEPT !.todo = @ \ {id}])
  /\ UNCHANGED <<begun, written>>

CleanupReturns(t) ==
  /\ BackupAt(t, "remove") /\ backupCalls[t].todo = {}
  /\ BackupGo(t, BackupIdle)
  /\ UNCHANGED <<backupDirs, backups, begun, written, purged>>

BackupsNext ==
  \E t \in BackupThreads :
    \/ BeginFull(t) \/ WriteFull(t) \/ WriteIncremental(t) \/ BackupFails(t)
    \/ ListBackups(t) \/ RemoveBackup(t) \/ CleanupReturns(t)
    \/ \E since \in BackupIds : BeginIncremental(t, since)

BackupsSpec == BackupsInit /\ [][BackupsNext]_backupVars

-----------------------------------------------------------------------------
(* Properties. *)

\* Along any chain of incremental backups of incremental backups, what a
\* manifest names as its full backup was written as a full backup at some time.
\* (Whether it is still there is another matter: no clean-up looks.)
RootWasFull ==
  \A id \in DOMAIN backups :
    \E w \in written : w.id = backups[id].root /\ IsFull(w.manifest)

\* A clean-up that runs beside other backups removes a backup with a generated
\* identifier only if as many newer ones of its kind have been written as are
\* to be kept.  (One with a chosen identifier that is written again between the
\* listing and the removal is lost although it is the newest.)
BackupCleanupKeepsNewest ==
  \A p \in purged :
    p.id \notin ChosenIds =>
      Cardinality({w \in written : /\ IsFull(w.manifest) = IsFull(p.manifest)
                                   /\ w.manifest.time > p.manifest.time})
        >= IF IsFull(p.manifest) THEN MaxFull ELSE MaxIncremental
=============================================================================
