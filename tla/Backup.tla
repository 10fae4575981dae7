------------------------------- MODULE Backup -------------------------------
(***************************************************************************)
(* Backups of a running server, composed with its blob store.              *)
(*                                                                         *)
(* A backup pauses the collector, copies the database, uploads the copy    *)
(* and every blob, writes a manifest and prunes what no kept snapshot      *)
(* needs.  The server runs one backup at a time (Backups.running); a       *)
(* backup started from the command line is another process, with a mutex   *)
(* and a pause counter of its own.                                         *)
(*                                                                         *)
(* A database copy is known by the set of blobs its rows refer to.         *)
(***************************************************************************)
EXTENDS BlobStore

CONSTANTS
  Backups,      \* backup runs, each used again after it ended
  CliBackups,   \* the ones started from the command line
  MaxBackups    \* bound of the backups started

ASSUME CliAssumption == CliBackups \subseteq Backups
ASSUME MaxBackupsAssumption == MaxBackups \in Nat

VARIABLES
  bk,          \* the step each backup is at
  startedAt,   \* Manifest.created_at of the running backup
  known,       \* the objects the backup believes to be in the repository
  copy,        \* the database copy
  todo,        \* blobs still to upload
  listed,      \* Manifest.blobs so far
  needed,      \* prune: the objects kept snapshots need
  dropped,     \* prune: the snapshots to remove
  unused,      \* prune: the objects to remove
  raced,       \* whether the collector was under way when the backup paused it
  overlapped,  \* created_at of the backups that ran beside another one
  objects,     \* the repository's objects
  snapshots,   \* the repository's manifests
  started      \* how many backups were started

repoVars == <<objects, snapshots>>
runVars == <<bk, startedAt, known, copy, todo, listed, needed, dropped, unused, raced, overlapped, started>>
bvars == <<vars, runVars, repoVars>>

\* An object is a mail blob or a database copy, kept apart by its kind.
BlobObject(b) == <<"blob", b>>
DbObject(c) == <<"db", c>>
ObjectsOf(m) == {BlobObject(b) : b \in m.blobs} \union {DbObject(m.db)}

Phases == {"idle", "paused", "listed", "copied", "uploading", "pruning", "dropping", "removing"}

BInit ==
  /\ Init
  /\ bk = [k \in Backups |-> "idle"]
  /\ startedAt = [k \in Backups |-> 0]
  /\ known = [k \in Backups |-> {}]
  /\ copy = [k \in Backups |-> {}]
  /\ todo = [k \in Backups |-> {}]
  /\ listed = [k \in Backups |-> {}]
  /\ needed = [k \in Backups |-> {}]
  /\ dropped = [k \in Backups |-> {}]
  /\ unused = [k \in Backups |-> {}]
  /\ raced = [k \in Backups |-> FALSE]
  /\ overlapped = {}
  /\ objects = {}
  /\ snapshots = {}
  /\ started = 0

-----------------------------------------------------------------------------
Goto(k, phase) == bk' = [bk EXCEPT ![k] = phase]

\* blob_hashes: what the live database refers to.
BlobHashes == {b \in rows : refs[b] > 0}

\* The backup ends, well or not: its locals are gone and the guard of
\* pause_blob_cleanup is dropped.
Ends(k) ==
  /\ Goto(k, "idle")
  /\ startedAt' = [startedAt EXCEPT ![k] = 0]
  /\ known' = [known EXCEPT ![k] = {}]
  /\ copy' = [copy EXCEPT ![k] = {}]
  /\ todo' = [todo EXCEPT ![k] = {}]
  /\ listed' = [listed EXCEPT ![k] = {}]
  /\ needed' = [needed EXCEPT ![k] = {}]
  /\ dropped' = [dropped EXCEPT ![k] = {}]
  /\ unused' = [unused EXCEPT ![k] = {}]
  /\ raced' = [raced EXCEPT ![k] = FALSE]
  /\ IF k \in CliBackups THEN UNCHANGED vars ELSE ResumeCleanup
  /\ UNCHANGED <<repoVars, overlapped, started>>

\* The backups that a backup k that starts now runs beside, and itself with them.
Beside(k) ==
  LET running == {startedAt[j] : j \in {i \in Backups \ {k} : bk[i] # "idle"}}
  IN IF running = {} THEN {} ELSE running \union {started + 1}

\* run_now takes `running`, backup pauses the collector.  The command line
\* pauses a counter the server's collector never looks at.
BackupStart(k) ==
  /\ bk[k] = "idle"
  /\ started < MaxBackups
  /\ k \notin CliBackups => \A j \in Backups \ CliBackups : bk[j] = "idle"
  /\ IF k \in CliBackups THEN UNCHANGED vars ELSE PauseCleanup
  /\ Goto(k, "paused")
  /\ started' = started + 1
  /\ startedAt' = [startedAt EXCEPT ![k] = started + 1]
  /\ raced' = [raced EXCEPT ![k] = gc # "idle"]
  /\ overlapped' = overlapped \union Beside(k)
  /\ UNCHANGED <<known, copy, todo, listed, needed, dropped, unused, repoVars>>

\* repo.object_ids()
ListObjects(k) ==
  /\ bk[k] = "paused"
  /\ known' = [known EXCEPT ![k] = objects]
  /\ Goto(k, "listed")
  /\ UNCHANGED <<vars, startedAt, copy, todo, listed, needed, dropped, unused, raced, repoVars, overlapped, started>>

\* snapshot_database: VACUUM INTO, one consistent copy.
SnapshotDatabase(k) ==
  /\ bk[k] = "listed"
  /\ copy' = [copy EXCEPT ![k] = BlobHashes]
  /\ Goto(k, "copied")
  /\ UNCHANGED <<vars, startedAt, known, todo, listed, needed, dropped, unused, raced, repoVars, overlapped, started>>

\* Repository::put
Put(k, object) ==
  /\ objects' = IF object \in known[k] THEN objects ELSE objects \union {object}
  /\ known' = [known EXCEPT ![k] = @ \union {object}]

\* The copy is uploaded, then the blobs of the live database are listed.
UploadDatabase(k) ==
  /\ bk[k] = "copied"
  /\ Put(k, DbObject(copy[k]))
  /\ todo' = [todo EXCEPT ![k] = BlobHashes]
  /\ Goto(k, "uploading")
  /\ UNCHANGED <<vars, startedAt, copy, listed, needed, dropped, unused, raced, snapshots, overlapped, started>>

\* A blob the repository has is not even read.
UploadBlob(k, b) ==
  /\ bk[k] = "uploading"
  /\ b \in todo[k]
  /\ BlobObject(b) \in known[k] \/ b \in files
  /\ Put(k, BlobObject(b))
  /\ todo' = [todo EXCEPT ![k] = @ \ {b}]
  /\ listed' = [listed EXCEPT ![k] = @ \union {b}]
  /\ UNCHANGED <<vars, bk, startedAt, copy, needed, dropped, unused, raced, snapshots, overlapped, started>>

\* Everything is uploaded: the manifest is written.  What was gathered for it
\* is not read again.
WriteManifest(k) ==
  /\ bk[k] = "uploading"
  /\ todo[k] = {}
  /\ snapshots' = snapshots \union
       {[at |-> startedAt[k], db |-> copy[k], blobs |-> listed[k]]}
  /\ Goto(k, "pruning")
  /\ known' = [known EXCEPT ![k] = {}]
  /\ copy' = [copy EXCEPT ![k] = {}]
  /\ listed' = [listed EXCEPT ![k] = {}]
  /\ raced' = [raced EXCEPT ![k] = FALSE]
  /\ UNCHANGED <<vars, startedAt, todo, needed, dropped, unused, objects, overlapped, started>>

\* Mutant of Needed: a prune that forgets the database copies.
NeededBlobsOnly(kept) == {BlobObject(b) : b \in UNION {m.blobs : m \in kept}}

\* The objects the kept snapshots need.
Needed(kept) == UNION {ObjectsOf(m) : m \in kept}

\* prune reads every manifest.  Which of them the retention rules keep is left
\* open, except that the newest always stays.
PruneRead(k) ==
  /\ bk[k] = "pruning"
  /\ \E kept \in SUBSET snapshots :
       /\ \E m \in kept : \A n \in snapshots : n.at <= m.at
       /\ needed' = [needed EXCEPT ![k] = Needed(kept)]
       /\ dropped' = [dropped EXCEPT ![k] = snapshots \ kept]
  /\ Goto(k, "dropping")
  /\ UNCHANGED <<vars, startedAt, known, copy, todo, listed, unused, raced, repoVars, overlapped, started>>

\* The snapshots that are not kept go one by one.
PruneSnapshot(k) ==
  /\ bk[k] = "dropping"
  /\ \E m \in dropped[k] :
       /\ snapshots' = snapshots \ {m}
       /\ dropped' = [dropped EXCEPT ![k] = @ \ {m}]
  /\ UNCHANGED <<vars, bk, startedAt, known, copy, todo, listed, needed, unused, raced, objects, overlapped, started>>

\* Then the objects are listed again, now to be removed unless needed.
PruneList(k) ==
  /\ bk[k] = "dropping"
  /\ dropped[k] = {}
  /\ unused' = [unused EXCEPT ![k] = objects \ needed[k]]
  /\ needed' = [needed EXCEPT ![k] = {}]
  /\ Goto(k, "removing")
  /\ UNCHANGED <<vars, startedAt, known, copy, todo, listed, dropped, raced, repoVars, overlapped, started>>

PruneObject(k) ==
  /\ bk[k] = "removing"
  /\ \E object \in unused[k] :
       /\ objects' = objects \ {object}
       /\ unused' = [unused EXCEPT ![k] = @ \ {object}]
  /\ UNCHANGED <<vars, bk, startedAt, known, copy, todo, listed, needed, dropped, raced, snapshots, overlapped, started>>

BackupDone(k) ==
  /\ bk[k] = "removing"
  /\ unused[k] = {}
  /\ Ends(k)

\* The storage does not answer, or a blob to upload is not on disk.
BackupFails(k) ==
  /\ bk[k] # "idle"
  /\ Ends(k)

\* The server stops, and the command line with it (it runs in the same
\* container): everything but the data directory and the repository is gone.
BCrash ==
  /\ Crash
  /\ bk' = [k \in Backups |-> "idle"]
  /\ startedAt' = [k \in Backups |-> 0]
  /\ raced' = [k \in Backups |-> FALSE]
  /\ known' = [k \in Backups |-> {}]
  /\ copy' = [k \in Backups |-> {}]
  /\ todo' = [k \in Backups |-> {}]
  /\ listed' = [k \in Backups |-> {}]
  /\ needed' = [k \in Backups |-> {}]
  /\ dropped' = [k \in Backups |-> {}]
  /\ unused' = [k \in Backups |-> {}]
  /\ UNCHANGED <<repoVars, overlapped, started>>

BackupStep(k) ==
  \/ ListObjects(k)
  \/ SnapshotDatabase(k)
  \/ UploadDatabase(k)
  \/ \E b \in Blobs : UploadBlob(k, b)
  \/ WriteManifest(k)
  \/ PruneRead(k)
  \/ PruneSnapshot(k)
  \/ PruneList(k)
  \/ PruneObject(k)
  \/ BackupDone(k)

\* A step of the store is none of a backup.
StoreAlone(step) == step /\ UNCHANGED <<runVars, repoVars>>

BNext ==
  \/ StoreAlone(StoreStep)
  \/ \E k \in Backups : BackupStart(k) \/ BackupStep(k) \/ BackupFails(k)
  \/ BCrash

BSpec == BInit /\ [][BNext]_bvars

\* Every await returns sooner or later, with an answer or an error: those of a
\* backup, of put_blob under the lock, and of the collector once it has asked for
\* the lock.
BFairSpec ==
  /\ BSpec
  /\ \A k \in Backups : WF_bvars(BackupStep(k) \/ BackupFails(k))
  /\ \A t \in Tasks : WF_bvars(StoreAlone(PutFile(t) \/ Register(t) \/ Abandon(t)))
  /\ WF_bvars(StoreAlone(GcCollect \/ \E b \in Blobs : GcDelete(b)))
-----------------------------------------------------------------------------
Manifests == [at : 1 .. MaxBackups, db : SUBSET Blobs, blobs : SUBSET Blobs]
Objects == {BlobObject(b) : b \in Blobs} \union {DbObject(c) : c \in SUBSET Blobs}

BTypeOK ==
  /\ bk \in [Backups -> Phases]
  /\ startedAt \in [Backups -> 0 .. MaxBackups]
  /\ copy \in [Backups -> SUBSET Blobs]
  /\ todo \in [Backups -> SUBSET Blobs]
  /\ listed \in [Backups -> SUBSET Blobs]
  /\ known \in [Backups -> SUBSET Objects]
  /\ needed \in [Backups -> SUBSET Objects]
  /\ unused \in [Backups -> SUBSET Objects]
  /\ dropped \in [Backups -> SUBSET Manifests]
  /\ objects \subseteq Objects
  /\ snapshots \subseteq Manifests
  /\ raced \in [Backups -> BOOLEAN]
  /\ overlapped \subseteq 1 .. MaxBackups
  /\ started \in 0 .. MaxBackups

\* "Every snapshot stays complete on its own": what a manifest in the
\* repository names is in the repository, through every later prune, failed
\* backup and restart.  That holds for a snapshot whose backup ran alone,
\* whatever backups of the server and of the command line overlapped before and
\* after it; `run_now` keeps only backups of its own process apart.
LoneSnapshotsComplete ==
  \A m \in snapshots : m.at \notin overlapped => ObjectsOf(m) \subseteq objects

\* The phases in which a backup still reads blobs for the copy it made.
Reading(k) == bk[k] \in {"copied", "uploading"}

\* While a backup holds its pause, every blob its database copy refers to can
\* still be read from disk, if no collection was under way when it paused ("Keeps
\* blobs on disk until the returned guard is dropped, so a backup can read every
\* blob its database copy refers to").
UnracedCopyReadable ==
  \A k \in Backups \ CliBackups : Reading(k) /\ ~raced[k] => copy[k] \subseteq files \union outlived

\* The collector is never kept away for good: once it waits for the lock it gets it,
\* against a stream of writers, and lets go of it again; and a backup takes its pause
\* back however it ends.
CollectorNotKept ==
  /\ (gc = "waiting") ~> (gc = "idle")
  /\ (paused > 0) ~> (paused = 0)
=============================================================================
