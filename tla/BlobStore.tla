----------------------------- MODULE BlobStore -----------------------------
(***************************************************************************)
(* Message files and the rows that refer to them.                          *)
(*                                                                         *)
(* A blob is a file named by the hash of its content, plus a row of table  *)
(* `blobs` whose `refs` column counts the rows of other tables (emails,    *)
(* queue_messages, uploads, email_submissions, greylist_hold,              *)
(* refused_deliveries) that refer to it.  Triggers keep the count, foreign *)
(* keys refuse a reference to a row that is not there.  Tasks store a blob *)
(* and refer to it in a later transaction; the hourly collector removes    *)
(* what nobody refers to.  blob_lock orders the two; the database's single *)
(* writer makes each transaction one step.                                 *)
(***************************************************************************)
EXTENDS Integers, FiniteSets

CONSTANTS
  Blobs,        \* contents, i.e. hashes
  Tasks,        \* requests that are being served
  Owners,       \* rows that may refer to a blob
  Expiring,     \* the owners that age out by themselves: uploads, refused deliveries
  None,         \* an owner that refers to nothing
  MinAge,       \* min_age_secs of collect_garbage
  Droppable,    \* the tasks that may be dropped inside put_blob
  MaxTime,      \* bound of the clock
  MaxPauses     \* bound of the pauses held at once

ASSUME ExpiringAssumption == Expiring \subseteq Owners
ASSUME OwnersAssumption == IsFiniteSet(Owners)
ASSUME NoneAssumption == None \notin Blobs
ASSUME MinAgeAssumption == MinAge \in Nat \ {0}
ASSUME BoundsAssumption == MaxTime \in Nat /\ MaxPauses \in Nat
ASSUME DroppableAssumption == Droppable \subseteq Tasks

VARIABLES
  files,       \* blobs whose file is in place
  rows,        \* blobs with a row in table blobs
  refs,        \* blobs.refs
  createdAt,   \* blobs.created_at
  owner,       \* what each owner refers to
  pc,          \* where each task is
  blob,        \* the blob each task works on
  storedAt,    \* when the task's put_blob finished
  fresh,       \* whether that put_blob set created_at
  detached,    \* registrations that go on although their task was dropped
  outlived,    \* blobs that ever had such a registration
  gc,          \* where the collector is
  doomed,      \* files the collector still has to delete
  paused,      \* blob_cleanup_paused
  now          \* the clock

dbVars == <<rows, refs, createdAt, owner>>
taskVars == <<pc, blob, storedAt, fresh, detached, outlived>>
gcVars == <<gc, doomed>>
vars == <<files, dbVars, taskVars, gcVars, paused, now>>

TaskStates == {"idle", "locked", "writing", "stored", "read"}
GcStates == {"idle", "waiting", "deleting"}

Init ==
  /\ files = {}
  /\ rows = {}
  /\ refs = [b \in Blobs |-> 0]
  /\ createdAt = [b \in Blobs |-> 0]
  /\ owner = [o \in Owners |-> None]
  /\ pc = [t \in Tasks |-> "idle"]
  /\ blob = [t \in Tasks |-> None]
  /\ storedAt = [t \in Tasks |-> 0]
  /\ fresh = [t \in Tasks |-> FALSE]
  /\ detached = {}
  /\ outlived = {}
  /\ gc = "idle"
  /\ doomed = {}
  /\ paused = 0
  /\ now = 0

-----------------------------------------------------------------------------
(* Reference counting.                                                     *)

\* The rows that refer to b.
Referring(b) == {o \in Owners : owner[o] = b}

\* The tasks that hold the read side of blob_lock.
Readers == {t \in Tasks : pc[t] \in {"locked", "writing"}}

\* A row o of one of the referring tables is inserted: the ..._blob_ref trigger.
AddRef(o, b) ==
  /\ owner' = [owner EXCEPT ![o] = b]
  /\ refs' = [refs EXCEPT ![b] = @ + 1]

\* Mutant of DropRef: no trigger counts the row that went.
DropRefUncounted(o) ==
  /\ owner' = [owner EXCEPT ![o] = None]
  /\ UNCHANGED refs

\* A referring row is deleted, or lets go of its blob: the ..._blob_unref trigger.
DropRef(o) ==
  /\ owner' = [owner EXCEPT ![o] = None]
  /\ refs' = [refs EXCEPT ![owner[o]] = @ - 1]

\* A task's future ends, and its locals with it.
TaskEnds(t) ==
  /\ pc' = [pc EXCEPT ![t] = "idle"]
  /\ blob' = [blob EXCEPT ![t] = None]
  /\ storedAt' = [storedAt EXCEPT ![t] = 0]
  /\ fresh' = [fresh EXCEPT ![t] = FALSE]

-----------------------------------------------------------------------------
(* put_blob, and the write that refers to what it stored.                  *)

\* Mutant of StartPut: no lock at all.
StartPutUnlocked(t, b) ==
  /\ pc[t] = "idle"
  /\ pc' = [pc EXCEPT ![t] = "locked"]
  /\ blob' = [blob EXCEPT ![t] = b]
  /\ UNCHANGED <<files, dbVars, storedAt, fresh, detached, outlived, gcVars, paused, now>>

\* Mutant of StartPut: readers overtake a waiting writer.
StartPutUnfair(t, b) ==
  /\ gc \in {"idle", "waiting"}
  /\ StartPutUnlocked(t, b)

\* Takes the read side of blob_lock.  The lock is fair: behind a waiting
\* writer nobody gets it.
StartPut(t, b) ==
  /\ pc[t] = "idle"
  /\ gc = "idle"
  /\ pc' = [pc EXCEPT ![t] = "locked"]
  /\ blob' = [blob EXCEPT ![t] = b]
  /\ UNCHANGED <<files, dbVars, storedAt, fresh, detached, outlived, gcVars, paused, now>>

\* BlobStore::put: the file is there afterwards, whether or not it was before.
PutFile(t) ==
  /\ pc[t] = "locked"
  /\ files' = files \union {blob[t]}
  /\ pc' = [pc EXCEPT ![t] = "writing"]
  /\ UNCHANGED <<dbVars, blob, storedAt, fresh, detached, outlived, gcVars, paused, now>>

\* Mutant of Upsert: INSERT OR IGNORE, which leaves an old created_at alone.
UpsertOrIgnore(b) ==
  /\ rows' = rows \union {b}
  /\ createdAt' = IF b \in rows THEN createdAt ELSE [createdAt EXCEPT ![b] = now]
  /\ UNCHANGED <<refs, owner>>

\* INSERT INTO blobs ... ON CONFLICT DO UPDATE SET created_at WHERE refs <= 0.
Upsert(b) ==
  /\ rows' = rows \union {b}
  /\ createdAt' = IF refs[b] <= 0 THEN [createdAt EXCEPT ![b] = now] ELSE createdAt
  /\ UNCHANGED <<refs, owner>>

\* The registering transaction commits and put_blob returns.
Register(t) ==
  /\ pc[t] = "writing"
  /\ Upsert(blob[t])
  /\ fresh' = [fresh EXCEPT ![t] = refs[blob[t]] <= 0]
  /\ storedAt' = [storedAt EXCEPT ![t] = now]
  /\ pc' = [pc EXCEPT ![t] = "stored"]
  /\ UNCHANGED <<files, blob, detached, outlived, gcVars, paused, now>>

\* The task is dropped while its registering transaction waits for the writer:
\* the lock is free again, the transaction still runs.
Cancel(t) ==
  /\ t \in Droppable
  /\ pc[t] = "writing"
  /\ TaskEnds(t)
  /\ detached' = detached \union {blob[t]}
  /\ outlived' = outlived \union {blob[t]}
  /\ UNCHANGED <<files, dbVars, gcVars, paused, now>>

RegisterDetached(b) ==
  /\ b \in detached
  /\ Upsert(b)
  /\ detached' = detached \ {b}
  /\ UNCHANGED <<files, pc, blob, storedAt, fresh, outlived, gcVars, paused, now>>

\* A task that refers again to a blob some row already has, without storing it:
\* hold_submission, note_refused.
ReadExisting(t, o) ==
  /\ pc[t] = "idle"
  /\ owner[o] # None
  /\ pc' = [pc EXCEPT ![t] = "read"]
  /\ blob' = [blob EXCEPT ![t] = owner[o]]
  /\ UNCHANGED <<files, dbVars, storedAt, fresh, detached, outlived, gcVars, paused, now>>

\* The task's own transaction inserts the row that refers to the blob.  An
\* upload the account already has is updated instead.
Refer(t, o) ==
  /\ pc[t] \in {"stored", "read"}
  /\ blob[t] \in rows
  /\ \/ /\ owner[o] = None
        /\ AddRef(o, blob[t])
     \/ /\ o \in Expiring
        /\ owner[o] = blob[t]
        /\ UNCHANGED <<owner, refs>>
  /\ TaskEnds(t)
  /\ UNCHANGED <<files, rows, createdAt, detached, outlived, gcVars, paused, now>>

\* The blob's row is gone: the foreign key refuses the insert.
ReferRefused(t) ==
  /\ pc[t] \in {"stored", "read"}
  /\ blob[t] \notin rows
  /\ TaskEnds(t)
  /\ UNCHANGED <<files, dbVars, detached, outlived, gcVars, paused, now>>

\* The task ends without referring to what it stored: over quota, an error, dropped.
Abandon(t) ==
  /\ pc[t] \in {"locked", "stored", "read"}
  /\ TaskEnds(t)
  /\ UNCHANGED <<files, dbVars, detached, outlived, gcVars, paused, now>>

\* An email is destroyed, a queue message finished, a held message settled.
Unrefer(o) ==
  /\ owner[o] # None
  /\ DropRef(o)
  /\ UNCHANGED <<files, rows, createdAt, taskVars, gcVars, paused, now>>

-----------------------------------------------------------------------------
(* collect_garbage.                                                        *)

\* Mutant of GcStart: nobody looks at the pause.
GcStartUnasked ==
  /\ gc = "idle"
  /\ gc' = "waiting"
  /\ UNCHANGED <<files, dbVars, taskVars, doomed, paused, now>>

\* The pause is looked at before the lock is asked for.
GcStart ==
  /\ gc = "idle"
  /\ paused = 0
  /\ gc' = "waiting"
  /\ UNCHANGED <<files, dbVars, taskVars, doomed, paused, now>>

\* With the write side held, one transaction deletes aged uploads and refused
\* deliveries, then every unreferenced row that is old enough.
GcCollect ==
  /\ gc = "waiting"
  /\ Readers = {}
  /\ \E expired \in SUBSET {o \in Expiring : owner[o] # None} :
       /\ owner' = [o \in Owners |-> IF o \in expired THEN None ELSE owner[o]]
       /\ refs' = [b \in Blobs |-> refs[b] - Cardinality(expired \intersect Referring(b))]
       /\ doomed' = {b \in rows : refs'[b] <= 0 /\ createdAt[b] <= now - MinAge}
       /\ rows' = rows \ doomed'
       /\ createdAt' = [b \in Blobs |-> IF b \in doomed' THEN 0 ELSE createdAt[b]]
       /\ gc' = IF doomed' = {} THEN "idle" ELSE "deleting"
  /\ UNCHANGED <<files, taskVars, paused, now>>

\* The files go one by one, still under the lock.
GcDelete(b) ==
  /\ b \in doomed
  /\ files' = files \ {b}
  /\ doomed' = doomed \ {b}
  /\ gc' = IF doomed' = {} THEN "idle" ELSE "deleting"
  /\ UNCHANGED <<dbVars, taskVars, paused, now>>

\* Deleting a file fails: the others stay behind without a row.
GcFail ==
  /\ gc = "deleting"
  /\ gc' = "idle"
  /\ doomed' = {}
  /\ UNCHANGED <<files, dbVars, taskVars, paused, now>>

PauseCleanup ==
  /\ paused < MaxPauses
  /\ paused' = paused + 1
  /\ UNCHANGED <<files, dbVars, taskVars, gcVars, now>>

ResumeCleanup ==
  /\ paused > 0
  /\ paused' = paused - 1
  /\ UNCHANGED <<files, dbVars, taskVars, gcVars, now>>

-----------------------------------------------------------------------------
\* The process ends: files and database stay, tasks, lock and pause are gone.
Crash ==
  /\ pc' = [t \in Tasks |-> "idle"]
  /\ blob' = [t \in Tasks |-> None]
  /\ storedAt' = [t \in Tasks |-> 0]
  /\ fresh' = [t \in Tasks |-> FALSE]
  /\ detached' = {}
  /\ gc' = "idle"
  /\ doomed' = {}
  /\ paused' = 0
  /\ UNCHANGED <<files, dbVars, outlived, now>>

Tick ==
  /\ now < MaxTime
  /\ now' = now + 1
  /\ UNCHANGED <<files, dbVars, taskVars, gcVars, paused>>

TaskStep(t) ==
  \/ \E b \in Blobs : StartPut(t, b)
  \/ PutFile(t)
  \/ Register(t)
  \/ Cancel(t)
  \/ \E o \in Owners : ReadExisting(t, o)
  \/ \E o \in Owners : Refer(t, o)
  \/ ReferRefused(t)
  \/ Abandon(t)

GcStep ==
  \/ GcStart
  \/ GcCollect
  \/ \E b \in Blobs : GcDelete(b)
  \/ GcFail

StoreStep ==
  \/ \E t \in Tasks : TaskStep(t)
  \/ \E b \in Blobs : RegisterDetached(b)
  \/ \E o \in Owners : Unrefer(o)
  \/ GcStep
  \/ Tick

Next ==
  \/ StoreStep
  \/ PauseCleanup
  \/ ResumeCleanup
  \/ Crash

Spec == Init /\ [][Next]_vars

-----------------------------------------------------------------------------
TypeOK ==
  /\ files \subseteq Blobs
  /\ rows \subseteq Blobs
  /\ refs \in [Blobs -> Int]
  /\ createdAt \in [Blobs -> Nat]
  /\ owner \in [Owners -> Blobs \union {None}]
  /\ pc \in [Tasks -> TaskStates]
  /\ blob \in [Tasks -> Blobs \union {None}]
  /\ storedAt \in [Tasks -> Nat]
  /\ fresh \in [Tasks -> BOOLEAN]
  /\ detached \subseteq Blobs
  /\ outlived \subseteq Blobs
  /\ gc \in GcStates
  /\ doomed \subseteq Blobs
  /\ paused \in Nat
  /\ now \in Nat

\* blobs.refs is exactly the number of rows that refer to the blob, whatever
\* order inserts, deletes and collections come in.
RefsExact == \A b \in Blobs : refs[b] = Cardinality(Referring(b))

\* Whatever a row refers to can be read: it is registered and its file is in
\* place.  Losing a file here is losing somebody's mail.  blob_lock keeps the
\* collector out between the two steps of put_blob ("it never removes a blob
\* between these two steps"), except where the second step outlived its task.
ReferencedOnDisk ==
  \A o \in Owners : owner[o] # None => owner[o] \in rows /\ owner[o] \in files \union outlived

\* The part of it the database keeps by itself, through its foreign keys, even
\* when tasks are dropped halfway: what a row refers to is registered.
ReferencedRegistered == \A o \in Owners : owner[o] # None => owner[o] \in rows

\* A blob put_blob just made fresh survives the collector for MinAge, so the
\* write that follows is not refused ("Blobs younger than min_age_secs are kept
\* because a write that references them may still be in flight").  A blob that
\* was still referenced when it was stored again is not made fresh.
FreshInFlightKept ==
  \A t \in Tasks :
    (pc[t] = "stored" /\ fresh[t] /\ now - storedAt[t] < MinAge) => blob[t] \in rows
=============================================================================
