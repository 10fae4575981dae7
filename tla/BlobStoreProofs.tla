-------------------------- MODULE BlobStoreProofs --------------------------
(***************************************************************************)
(* Proofs about BlobStore and Backup, for any number of blobs, tasks,      *)
(* owners and backups.                                                     *)
(*                                                                         *)
(* CountInv is inductive by itself.  OnDiskInv adds what blob_lock gives:  *)
(* while the collector deletes files nobody is inside put_blob, so only a  *)
(* registration that outlived its task can find its file gone.  FreshInv   *)
(* adds the clock.                                                         *)
(*                                                                         *)
(* A step of a backup is a step of the blob store or leaves it alone, so   *)
(* what is shown of the store holds beside backups too.  On top of it: the *)
(* pause keeps what a database copy refers to, and a snapshot whose backup *)
(* ran alone stays complete.                                               *)
(***************************************************************************)
EXTENDS Backup, FiniteSetTheorems, TLAPS

\* A task that is doing something knows which blob it works on.
TaskHasBlob == \A t \in Tasks : pc[t] # "idle" => blob[t] \in Blobs

CountInv ==
  /\ TypeOK
  /\ TaskHasBlob
  /\ RefsExact
  /\ ReferencedRegistered

OnDiskInv ==
  /\ detached \subseteq outlived
  /\ rows \subseteq files \union outlived
  /\ rows \intersect doomed \subseteq outlived
  /\ \A t \in Tasks : pc[t] = "writing" => blob[t] \in files
  /\ gc = "deleting" => Readers = {}
  /\ doomed # {} => gc = "deleting"

\* What a fresh put_blob still waits for is registered with a recent created_at,
\* or its time is over.
FreshInv ==
  /\ \A b \in Blobs : createdAt[b] <= now
  /\ \A t \in Tasks : storedAt[t] <= now
  /\ \A t \in Tasks :
       pc[t] = "stored" /\ fresh[t] =>
         \/ blob[t] \in rows /\ storedAt[t] <= createdAt[blob[t]]
         \/ MinAge <= now - storedAt[t]

-----------------------------------------------------------------------------
\* The rows that refer to a blob are finitely many, so they can be counted.
LEMMA ReferringFinite ==
  ASSUME NEW b
  PROVE  /\ IsFiniteSet(Referring(b))
         /\ Cardinality(Referring(b)) \in Nat
<1>1. Referring(b) \in SUBSET Owners
  BY DEF Referring
<1>2. IsFiniteSet(Referring(b))
  BY <1>1, OwnersAssumption, FS_Subset
<1> QED
  BY <1>2, FS_CardinalityType

\* The same after a step.
LEMMA ReferringPrimed ==
  ASSUME NEW b
  PROVE  /\ IsFiniteSet({o \in Owners : owner'[o] = b})
         /\ Cardinality({o \in Owners : owner'[o] = b}) \in Nat
<1>1. {o \in Owners : owner'[o] = b} \in SUBSET Owners
  OBVIOUS
<1>2. IsFiniteSet({o \in Owners : owner'[o] = b})
  BY <1>1, OwnersAssumption, FS_Subset
<1> QED
  BY <1>2, FS_CardinalityType

\* The insert trigger counts the one row that is new.
LEMMA AddRefCounts ==
  ASSUME TypeOK, RefsExact,
         NEW o \in Owners, NEW c \in Blobs, owner[o] = None, AddRef(o, c)
  PROVE  RefsExact'
<1> SUFFICES ASSUME NEW b \in Blobs
             PROVE  refs'[b] = Cardinality(Referring(b)')
  BY DEF RefsExact
<1>1. b # None
  BY NoneAssumption
<1>2. CASE b = c
  <2>1. Referring(b)' = Referring(b) \union {o}
    BY <1>2, <1>1 DEF Referring, AddRef, TypeOK
  <2>2. o \notin Referring(b)
    BY <1>1 DEF Referring
  <2>3. Cardinality(Referring(b) \union {o}) = Cardinality(Referring(b)) + 1
    BY <2>2, ReferringFinite, FS_AddElement
  <2>4. refs'[b] = refs[b] + 1
    BY <1>2 DEF AddRef, TypeOK
  <2> QED
    BY <2>1, <2>3, <2>4 DEF RefsExact
<1>3. CASE b # c
  <2>1. Referring(b)' = Referring(b)
    BY <1>3, <1>1 DEF Referring, AddRef, TypeOK
  <2>2. refs'[b] = refs[b]
    BY <1>3 DEF AddRef, TypeOK
  <2> QED
    BY <2>1, <2>2 DEF RefsExact
<1> QED
  BY <1>2, <1>3

\* The delete trigger counts the one row that went.
LEMMA DropRefCounts ==
  ASSUME TypeOK, RefsExact, NEW o \in Owners, owner[o] # None, DropRef(o)
  PROVE  RefsExact'
<1> SUFFICES ASSUME NEW b \in Blobs
             PROVE  refs'[b] = Cardinality(Referring(b)')
  BY DEF RefsExact
<1>1. b # None
  BY NoneAssumption
<1>2. CASE b = owner[o]
  <2>1. Referring(b)' = Referring(b) \ {o}
    BY <1>2, <1>1 DEF Referring, DropRef, TypeOK
  <2>2. o \in Referring(b)
    BY <1>2 DEF Referring
  <2>3. Cardinality(Referring(b) \ {o}) = Cardinality(Referring(b)) - 1
    BY <2>2, ReferringFinite, FS_RemoveElement
  <2>4. refs'[b] = refs[b] - 1
    BY <1>2 DEF DropRef, TypeOK
  <2> QED
    BY <2>1, <2>3, <2>4 DEF RefsExact
<1>3. CASE b # owner[o]
  <2>1. Referring(b)' = Referring(b)
    BY <1>3, <1>1 DEF Referring, DropRef, TypeOK
  <2>2. refs'[b] = refs[b]
    BY <1>3 DEF DropRef, TypeOK
  <2> QED
    BY <2>1, <2>2 DEF RefsExact
<1> QED
  BY <1>2, <1>3

\* Deleting aged owners in one transaction counts all of them.
LEMMA ExpiryCounts ==
  ASSUME TypeOK, RefsExact, NEW expired \in SUBSET {o \in Expiring : owner[o] # None},
         owner' = [o \in Owners |-> IF o \in expired THEN None ELSE owner[o]],
         refs' = [b \in Blobs |-> refs[b] - Cardinality(expired \intersect Referring(b))]
  PROVE  RefsExact'
<1> SUFFICES ASSUME NEW b \in Blobs
             PROVE  refs'[b] = Cardinality(Referring(b)')
  BY DEF RefsExact
<1>1. b # None
  BY NoneAssumption
<1>2. Referring(b)' = Referring(b) \ expired
  BY <1>1 DEF Referring, TypeOK
<1>3. Cardinality(Referring(b) \ expired)
        = Cardinality(Referring(b)) - Cardinality(Referring(b) \intersect expired)
  BY ReferringFinite, FS_Difference
<1>4. Referring(b) \intersect expired = expired \intersect Referring(b)
  OBVIOUS
<1> QED
  BY <1>2, <1>3, <1>4 DEF RefsExact

\* What such a transaction subtracts is a number.
LEMMA ExpiryTypes ==
  ASSUME TypeOK, NEW expired
  PROVE  [b \in Blobs |-> refs[b] - Cardinality(expired \intersect Referring(b))] \in [Blobs -> Int]
<1> SUFFICES ASSUME NEW b \in Blobs
             PROVE  Cardinality(expired \intersect Referring(b)) \in Nat
  BY DEF TypeOK
<1>1. expired \intersect Referring(b) \in SUBSET Referring(b)
  OBVIOUS
<1> QED
  BY <1>1, ReferringFinite, FS_Subset, FS_CardinalityType

\* A count that is not positive means that nobody refers to the blob.
LEMMA UnreferencedCount ==
  ASSUME RefsExact, NEW b \in Blobs, refs[b] <= 0
  PROVE  \A o \in Owners : owner[o] # b
<1>1. Cardinality(Referring(b)) = 0
  BY ReferringFinite DEF RefsExact
<1>2. Referring(b) = {}
  BY <1>1, ReferringFinite, FS_EmptySet
<1> QED
  BY <1>2 DEF Referring

-----------------------------------------------------------------------------
\* The counting invariant: the state is well typed, blobs.refs is exact, and
\* foreign keys keep every reference on a registered blob.
THEOREM Counting == Spec => []CountInv
<1>1. Init => CountInv
  <2> SUFFICES ASSUME Init PROVE CountInv
    OBVIOUS
  <2>1. TypeOK
    BY DEF Init, TypeOK, TaskStates, GcStates
  <2>2. \A b \in Blobs : Referring(b) = {}
    BY NoneAssumption DEF Init, Referring
  <2>3. RefsExact
    BY <2>2, FS_EmptySet DEF Init, RefsExact
  <2> QED
    BY <2>1, <2>3 DEF Init, CountInv, TaskHasBlob, ReferencedRegistered
<1>2. CountInv /\ [Next]_vars => CountInv'
  <2> SUFFICES ASSUME CountInv, [Next]_vars PROVE CountInv'
    OBVIOUS
  <2> USE DEF CountInv
  <2>0. ASSUME UNCHANGED <<owner, refs>> PROVE RefsExact'
    BY <2>0 DEF RefsExact, Referring
  <2>1. ASSUME NEW t \in Tasks, NEW b \in Blobs, StartPut(t, b) PROVE CountInv'
    <3>1. TypeOK' /\ TaskHasBlob' /\ ReferencedRegistered'
      BY <2>1 DEF StartPut, TypeOK, TaskStates, TaskHasBlob, ReferencedRegistered, dbVars, gcVars
    <3> QED BY <2>0, <2>1, <3>1 DEF StartPut, dbVars
  <2>2. ASSUME NEW t \in Tasks, PutFile(t) PROVE CountInv'
    <3>1. TypeOK' /\ TaskHasBlob' /\ ReferencedRegistered'
      BY <2>2 DEF PutFile, TypeOK, TaskStates, TaskHasBlob, ReferencedRegistered, dbVars, gcVars
    <3> QED BY <2>0, <2>2, <3>1 DEF PutFile, dbVars
  <2>3. ASSUME NEW t \in Tasks, Register(t) PROVE CountInv'
    <3>1. blob[t] \in Blobs /\ (refs[blob[t]] <= 0) \in BOOLEAN
      BY <2>3 DEF Register, TaskHasBlob
    <3>2. TypeOK'
      BY <2>3, <3>1 DEF Register, Upsert, TypeOK, TaskStates, gcVars
    <3>3. TaskHasBlob' /\ ReferencedRegistered'
      BY <2>3, <3>1 DEF Register, Upsert, TypeOK, TaskHasBlob, ReferencedRegistered
    <3> QED BY <2>0, <2>3, <3>2, <3>3 DEF Register, Upsert
  <2>4. ASSUME NEW t \in Tasks, Cancel(t) PROVE CountInv'
    <3>1. TypeOK' /\ TaskHasBlob' /\ ReferencedRegistered'
      BY <2>4 DEF Cancel, TaskEnds, TypeOK, TaskStates, TaskHasBlob, ReferencedRegistered, dbVars, gcVars
    <3> QED BY <2>0, <2>4, <3>1 DEF Cancel, dbVars
  <2>5. ASSUME NEW t \in Tasks, NEW o \in Owners, ReadExisting(t, o) PROVE CountInv'
    <3>1. TypeOK' /\ TaskHasBlob' /\ ReferencedRegistered'
      BY <2>5 DEF ReadExisting, TypeOK, TaskStates, TaskHasBlob, ReferencedRegistered, dbVars, gcVars
    <3> QED BY <2>0, <2>5, <3>1 DEF ReadExisting, dbVars
  <2>6. ASSUME NEW t \in Tasks, NEW o \in Owners, Refer(t, o) PROVE CountInv'
    <3>1. blob[t] \in Blobs
      BY <2>6 DEF Refer, TaskHasBlob
    <3>2. TypeOK' /\ TaskHasBlob' /\ ReferencedRegistered'
      BY <2>6, <3>1 DEF Refer, AddRef, TaskEnds, TypeOK, TaskStates, TaskHasBlob, ReferencedRegistered, gcVars
    <3>3. CASE owner[o] = None /\ AddRef(o, blob[t])
      BY <3>1, <3>2, <3>3, AddRefCounts
    <3>4. CASE UNCHANGED <<owner, refs>>
      BY <3>2, <3>4, <2>0
    <3> QED BY <2>6, <3>3, <3>4 DEF Refer
  <2>7. ASSUME NEW t \in Tasks, ReferRefused(t) \/ Abandon(t) PROVE CountInv'
    <3>1. TaskEnds(t) /\ UNCHANGED <<files, dbVars, detached, outlived, gcVars, paused, now>>
      BY <2>7 DEF ReferRefused, Abandon
    <3>2. TypeOK' /\ TaskHasBlob' /\ ReferencedRegistered'
      BY <3>1 DEF TaskEnds, TypeOK, TaskStates, TaskHasBlob, ReferencedRegistered, dbVars, gcVars
    <3> QED BY <2>0, <3>1, <3>2 DEF dbVars
  <2>8. ASSUME NEW b \in Blobs, RegisterDetached(b) PROVE CountInv'
    <3>1. TypeOK'
      BY <2>8 DEF RegisterDetached, Upsert, TypeOK, gcVars
    <3>2. TaskHasBlob' /\ ReferencedRegistered'
      BY <2>8 DEF RegisterDetached, Upsert, TaskHasBlob, ReferencedRegistered
    <3> QED BY <2>0, <2>8, <3>1, <3>2 DEF RegisterDetached, Upsert
  <2>9. ASSUME NEW o \in Owners, Unrefer(o) PROVE CountInv'
    <3>1. owner[o] \in Blobs
      BY <2>9 DEF Unrefer, TypeOK
    <3>2. TypeOK' /\ TaskHasBlob' /\ ReferencedRegistered'
      BY <2>9, <3>1 DEF Unrefer, DropRef, TypeOK, TaskHasBlob, ReferencedRegistered, taskVars, gcVars
    <3> QED BY <2>9, <3>2, DropRefCounts DEF Unrefer
  <2>10. ASSUME GcCollect PROVE CountInv'
    <3>1. PICK expired \in SUBSET {o \in Expiring : owner[o] # None} :
            /\ owner' = [o \in Owners |-> IF o \in expired THEN None ELSE owner[o]]
            /\ refs' = [b \in Blobs |-> refs[b] - Cardinality(expired \intersect Referring(b))]
            /\ doomed' = {b \in rows : refs'[b] <= 0 /\ createdAt[b] <= now - MinAge}
            /\ rows' = rows \ doomed'
            /\ createdAt' = [b \in Blobs |-> IF b \in doomed' THEN 0 ELSE createdAt[b]]
            /\ gc' = IF doomed' = {} THEN "idle" ELSE "deleting"
      BY <2>10 DEF GcCollect
    <3>2. RefsExact'
      BY <3>1, ExpiryCounts
    <3>3. refs' \in [Blobs -> Int]
      BY <3>1, ExpiryTypes
    <3>4. TypeOK'
      BY <2>10, <3>1, <3>3 DEF GcCollect, TypeOK, GcStates, taskVars
    <3>5. TaskHasBlob'
      BY <2>10 DEF GcCollect, TaskHasBlob, taskVars
    <3>6. ASSUME NEW o \in Owners, owner'[o] # None PROVE owner'[o] \in rows'
      <4>1. owner'[o] = owner[o] /\ owner[o] \in rows
        BY <3>1, <3>6 DEF ReferencedRegistered, TypeOK
      <4>2. owner[o] \notin doomed'
        <5>1. SUFFICES ASSUME refs'[owner[o]] <= 0 PROVE FALSE
          BY <3>1
        <5>2. owner[o] \in Blobs
          BY <4>1 DEF TypeOK
        <5>3. Cardinality({p \in Owners : owner'[p] = owner[o]}) = 0
          BY <3>2, <5>1, <5>2, ReferringPrimed DEF RefsExact, Referring
        <5>4. {p \in Owners : owner'[p] = owner[o]} = {}
          BY <5>3, ReferringPrimed, FS_EmptySet
        <5> QED BY <5>4, <4>1
      <4> QED BY <4>1, <4>2, <3>1
    <3> QED BY <3>2, <3>4, <3>5, <3>6 DEF ReferencedRegistered
  <2>11. ASSUME GcStart \/ (\E b \in Blobs : GcDelete(b)) \/ GcFail PROVE CountInv'
    <3>1. TypeOK' /\ TaskHasBlob' /\ ReferencedRegistered'
      BY <2>11 DEF GcStart, GcDelete, GcFail, TypeOK, GcStates, TaskHasBlob, ReferencedRegistered,
                   dbVars, taskVars
    <3> QED BY <2>0, <2>11, <3>1 DEF GcStart, GcDelete, GcFail, dbVars
  <2>12. ASSUME PauseCleanup \/ ResumeCleanup \/ Tick PROVE CountInv'
    <3>1. TypeOK' /\ TaskHasBlob' /\ ReferencedRegistered'
      BY <2>12 DEF PauseCleanup, ResumeCleanup, Tick, TypeOK, TaskHasBlob, ReferencedRegistered,
                   dbVars, taskVars, gcVars
    <3> QED BY <2>0, <2>12, <3>1 DEF PauseCleanup, ResumeCleanup, Tick, dbVars
  <2>13. ASSUME Crash PROVE CountInv'
    <3>1. TypeOK' /\ TaskHasBlob' /\ ReferencedRegistered'
      BY <2>13 DEF Crash, TypeOK, TaskStates, GcStates, TaskHasBlob, ReferencedRegistered, dbVars
    <3> QED BY <2>0, <2>13, <3>1 DEF Crash, dbVars
  <2>14. ASSUME UNCHANGED vars PROVE CountInv'
    <3>1. TypeOK' /\ TaskHasBlob' /\ ReferencedRegistered'
      BY <2>14 DEF vars, dbVars, taskVars, gcVars, TypeOK, TaskHasBlob, ReferencedRegistered
    <3> QED BY <2>0, <2>14, <3>1 DEF vars, dbVars
  <2> QED
    BY <2>1, <2>2, <2>3, <2>4, <2>5, <2>6, <2>7, <2>8, <2>9, <2>10, <2>11, <2>12, <2>13, <2>14
       DEF Next, StoreStep, TaskStep, GcStep
<1> QED
  BY <1>1, <1>2, PTL DEF Spec

\* Type correctness of the store.
THEOREM TypeCorrect == Spec => []TypeOK
<1>1. CountInv => TypeOK
  BY DEF CountInv
<1> QED
  BY <1>1, Counting, PTL

\* blobs.refs is the number of referring rows in every reachable state.
THEOREM RefCountsExact == Spec => []RefsExact
<1>1. CountInv => RefsExact
  BY DEF CountInv
<1> QED
  BY <1>1, Counting, PTL

\* The foreign keys hold in every reachable state, dropped tasks or not.
THEOREM ReferencesRegistered == Spec => []ReferencedRegistered
<1>1. CountInv => ReferencedRegistered
  BY DEF CountInv
<1> QED
  BY <1>1, Counting, PTL

-----------------------------------------------------------------------------
\* blob_lock keeps the collector and put_blob apart in every reachable state.
THEOREM LockKeepsFiles == Spec => []OnDiskInv
<1>1. Init => OnDiskInv
  BY DEF Init, OnDiskInv
<1>2. CountInv /\ OnDiskInv /\ [Next]_vars => OnDiskInv'
  <2> SUFFICES ASSUME CountInv, OnDiskInv, [Next]_vars PROVE OnDiskInv'
    OBVIOUS
  <2>0. TypeOK /\ TaskHasBlob
    BY DEF CountInv
  <2>1. ASSUME NEW t \in Tasks, NEW b \in Blobs, StartPut(t, b) PROVE OnDiskInv'
    BY <2>0, <2>1 DEF StartPut, OnDiskInv, Readers, TypeOK, dbVars, gcVars
  <2>2. ASSUME NEW t \in Tasks, PutFile(t) PROVE OnDiskInv'
    BY <2>0, <2>2 DEF PutFile, OnDiskInv, Readers, TypeOK, dbVars, gcVars
  <2>3. ASSUME NEW t \in Tasks, Register(t) PROVE OnDiskInv'
    <3>1. t \in Readers
      BY <2>3 DEF Register, Readers
    <3>2. gc # "deleting" /\ doomed = {}
      BY <3>1 DEF OnDiskInv
    <3> QED BY <2>0, <2>3, <3>2 DEF Register, Upsert, OnDiskInv, Readers, TypeOK, gcVars
  <2>4. ASSUME NEW t \in Tasks, Cancel(t) PROVE OnDiskInv'
    BY <2>0, <2>4 DEF Cancel, TaskEnds, OnDiskInv, Readers, TypeOK, dbVars, gcVars
  <2>5. ASSUME NEW t \in Tasks, NEW o \in Owners, ReadExisting(t, o) PROVE OnDiskInv'
    BY <2>0, <2>5 DEF ReadExisting, OnDiskInv, Readers, TypeOK, dbVars, gcVars
  <2>6. ASSUME NEW t \in Tasks, TaskEnds(t), UNCHANGED <<files, rows, detached, outlived, gcVars>> PROVE OnDiskInv'
    BY <2>0, <2>6 DEF TaskEnds, OnDiskInv, Readers, TypeOK, gcVars
  <2>7. ASSUME NEW t \in Tasks,
               (\E o \in Owners : Refer(t, o)) \/ ReferRefused(t) \/ Abandon(t)
        PROVE  OnDiskInv'
    BY <2>6, <2>7 DEF Refer, ReferRefused, Abandon, dbVars
  <2>8. ASSUME NEW b \in Blobs, RegisterDetached(b) PROVE OnDiskInv'
    BY <2>8 DEF RegisterDetached, Upsert, OnDiskInv, Readers, gcVars
  <2>9. ASSUME UNCHANGED <<files, rows, taskVars, gcVars>> PROVE OnDiskInv'
    BY <2>9 DEF OnDiskInv, Readers, taskVars, gcVars
  <2>10. ASSUME NEW o \in Owners, Unrefer(o) PROVE OnDiskInv'
    BY <2>9, <2>10 DEF Unrefer
  <2>11. ASSUME GcCollect PROVE OnDiskInv'
    <3>1. /\ Readers = {}
          /\ doomed' \subseteq rows
          /\ rows' = rows \ doomed'
          /\ doomed' # {} => gc' = "deleting"
          /\ UNCHANGED <<files, taskVars>>
      BY <2>11 DEF GcCollect
    <3> QED BY <3>1 DEF OnDiskInv, Readers, taskVars
  <2>12. ASSUME NEW b \in Blobs, GcDelete(b) PROVE OnDiskInv'
    <3>1. Readers = {} /\ (b \in rows => b \in outlived)
      BY <2>12 DEF GcDelete, OnDiskInv
    <3> QED BY <2>12, <3>1 DEF GcDelete, OnDiskInv, Readers, dbVars, taskVars
  <2>13. ASSUME GcStart \/ GcFail PROVE OnDiskInv'
    BY <2>13 DEF GcStart, GcFail, OnDiskInv, Readers, dbVars, taskVars
  <2>14. ASSUME PauseCleanup \/ ResumeCleanup \/ Tick \/ UNCHANGED vars PROVE OnDiskInv'
    BY <2>9, <2>14 DEF PauseCleanup, ResumeCleanup, Tick, vars, dbVars
  <2>15. ASSUME Crash PROVE OnDiskInv'
    BY <2>15 DEF Crash, OnDiskInv, Readers, dbVars
  <2> QED
    BY <2>1, <2>2, <2>3, <2>4, <2>5, <2>7, <2>8, <2>10, <2>11, <2>12, <2>13, <2>14, <2>15
       DEF Next, StoreStep, TaskStep, GcStep
<1> QED
  BY <1>1, <1>2, Counting, PTL DEF Spec

\* blob_lock does its job: no referenced blob is ever without its file, unless
\* its registration outlived the task that wrote the file.
THEOREM ReferencedMailIsOnDisk == Spec => []ReferencedOnDisk
<1>1. CountInv /\ OnDiskInv => ReferencedOnDisk
  BY DEF CountInv, OnDiskInv, ReferencedRegistered, ReferencedOnDisk
<1> QED
  BY <1>1, Counting, LockKeepsFiles, PTL

-----------------------------------------------------------------------------
\* The age limit does its job for every blob that put_blob made fresh, whatever
\* other tasks, owners and the collector do in the meantime.
THEOREM FreshBlobsKept == Spec => []FreshInFlightKept
<1>1. Init => FreshInv
  BY DEF Init, FreshInv
<1>2. CountInv /\ FreshInv /\ [Next]_vars => FreshInv'
  <2> SUFFICES ASSUME CountInv, FreshInv, [Next]_vars PROVE FreshInv'
    OBVIOUS
  <2>0. TypeOK /\ TaskHasBlob /\ MinAge \in Nat \ {0}
    BY MinAgeAssumption DEF CountInv
  <2>1. ASSUME NEW t \in Tasks, NEW b \in Blobs, StartPut(t, b) PROVE FreshInv'
    BY <2>0, <2>1 DEF StartPut, FreshInv, TypeOK, dbVars
  <2>2. ASSUME NEW t \in Tasks, PutFile(t) PROVE FreshInv'
    BY <2>0, <2>2 DEF PutFile, FreshInv, TypeOK, dbVars
  <2>3. ASSUME NEW c \in Blobs, Upsert(c), UNCHANGED now
        PROVE  /\ \A b \in Blobs : createdAt[b] <= createdAt'[b] /\ createdAt'[b] <= now
               /\ rows \subseteq rows' /\ c \in rows'
               /\ refs[c] <= 0 => createdAt'[c] = now
    BY <2>0, <2>3 DEF Upsert, FreshInv, TypeOK
  <2>4. ASSUME NEW t \in Tasks, Register(t) PROVE FreshInv'
    <3>1. blob[t] \in Blobs /\ Upsert(blob[t]) /\ UNCHANGED <<now, blob>>
      BY <2>0, <2>4 DEF Register, TaskHasBlob
    <3>2. \A b \in Blobs : createdAt'[b] \in Nat /\ createdAt[b] \in Nat
      BY <2>0, <3>1 DEF Upsert, TypeOK
    <3>3. ASSUME NEW u \in Tasks, pc'[u] = "stored", fresh'[u]
          PROVE  \/ blob[u] \in rows' /\ storedAt'[u] <= createdAt'[blob[u]]
                 \/ MinAge <= now - storedAt'[u]
      <4>1. CASE u = t
        <5>1. refs[blob[t]] <= 0 /\ storedAt'[t] = now
          BY <2>0, <2>4, <3>3, <4>1 DEF Register, TypeOK
        <5> QED BY <2>0, <2>3, <3>1, <4>1, <5>1 DEF TypeOK
      <4>2. CASE u # t
        <5>1. pc[u] = "stored" /\ fresh[u] /\ storedAt'[u] = storedAt[u] /\ blob[u] \in Blobs
          BY <2>0, <2>4, <3>3, <4>2 DEF Register, TypeOK, TaskHasBlob
        <5> QED BY <2>0, <2>3, <3>1, <3>2, <5>1 DEF FreshInv, TypeOK
      <4> QED BY <4>1, <4>2
    <3>4. \A u \in Tasks : storedAt'[u] <= now
      BY <2>0, <2>4 DEF Register, FreshInv, TypeOK
    <3> QED BY <2>3, <3>1, <3>3, <3>4 DEF FreshInv
  <2>5. ASSUME NEW b \in Blobs, RegisterDetached(b) PROVE FreshInv'
    <3>1. Upsert(b) /\ UNCHANGED <<now, pc, blob, storedAt, fresh>>
      BY <2>5 DEF RegisterDetached
    <3>2. \A c \in Blobs : createdAt'[c] \in Nat /\ createdAt[c] \in Nat
      BY <2>0, <3>1 DEF Upsert, TypeOK
    <3> QED BY <2>0, <2>3, <3>1, <3>2 DEF FreshInv, TypeOK, TaskHasBlob
  <2>6. ASSUME NEW t \in Tasks, NEW o \in Owners, ReadExisting(t, o) PROVE FreshInv'
    BY <2>0, <2>6 DEF ReadExisting, FreshInv, TypeOK, dbVars
  <2>7. ASSUME NEW t \in Tasks, TaskEnds(t), UNCHANGED <<rows, createdAt, now>> PROVE FreshInv'
    BY <2>0, <2>7 DEF TaskEnds, FreshInv, TypeOK
  <2>8. ASSUME NEW t \in Tasks,
               \/ Cancel(t) \/ ReferRefused(t) \/ Abandon(t)
               \/ \E o \in Owners : Refer(t, o)
        PROVE  FreshInv'
    BY <2>7, <2>8 DEF Cancel, Refer, ReferRefused, Abandon, dbVars
  <2>9. ASSUME UNCHANGED <<rows, createdAt, taskVars, now>> PROVE FreshInv'
    BY <2>9 DEF FreshInv, taskVars
  <2>10. ASSUME \/ GcStart \/ GcFail \/ PauseCleanup \/ ResumeCleanup \/ UNCHANGED vars
                \/ (\E b \in Blobs : GcDelete(b))
                \/ (\E o \in Owners : Unrefer(o))
         PROVE  FreshInv'
    BY <2>9, <2>10 DEF GcStart, GcFail, GcDelete, PauseCleanup, ResumeCleanup, Unrefer, vars, dbVars
  <2>11. ASSUME GcCollect PROVE FreshInv'
    <3>1. /\ \A b \in doomed' : createdAt[b] <= now - MinAge
          /\ rows' = rows \ doomed'
          /\ createdAt' = [b \in Blobs |-> IF b \in doomed' THEN 0 ELSE createdAt[b]]
          /\ UNCHANGED <<pc, blob, storedAt, fresh, now>>
      BY <2>11 DEF GcCollect, taskVars
    <3>2. ASSUME NEW t \in Tasks, pc[t] = "stored", fresh[t], ~(MinAge <= now - storedAt[t])
          PROVE  blob[t] \in rows' /\ storedAt[t] <= createdAt'[blob[t]]
      <4>1. blob[t] \in rows /\ storedAt[t] <= createdAt[blob[t]] /\ blob[t] \in Blobs
        BY <2>0, <3>2 DEF FreshInv, TaskHasBlob
      <4>2. createdAt[blob[t]] \in Nat /\ storedAt[t] \in Nat /\ now \in Nat
        BY <2>0, <4>1 DEF TypeOK
      <4>3. blob[t] \notin doomed'
        BY <2>0, <3>1, <3>2, <4>1, <4>2
      <4> QED BY <3>1, <4>1, <4>3
    <3>3. \A b \in Blobs : createdAt'[b] <= now
      BY <2>0, <3>1 DEF FreshInv, TypeOK
    <3> QED BY <3>1, <3>2, <3>3 DEF FreshInv
  <2>12. ASSUME Tick PROVE FreshInv'
    BY <2>0, <2>12 DEF Tick, FreshInv, TypeOK, TaskHasBlob, dbVars, taskVars
  <2>13. ASSUME Crash PROVE FreshInv'
    BY <2>0, <2>13 DEF Crash, FreshInv, TypeOK, dbVars
  <2> QED
    BY <2>1, <2>2, <2>4, <2>5, <2>6, <2>8, <2>10, <2>11, <2>12, <2>13
       DEF Next, StoreStep, TaskStep, GcStep
<1>3. CountInv /\ FreshInv => FreshInFlightKept
  <2> SUFFICES ASSUME CountInv, FreshInv, NEW t \in Tasks,
                      pc[t] = "stored", fresh[t], now - storedAt[t] < MinAge
               PROVE  blob[t] \in rows
    BY DEF FreshInFlightKept
  <2>1. now \in Nat /\ storedAt[t] \in Nat /\ MinAge \in Nat
    BY MinAgeAssumption DEF CountInv, TypeOK
  <2> QED BY <2>1 DEF FreshInv
<1> QED
  BY <1>1, <1>2, <1>3, Counting, PTL DEF Spec

-----------------------------------------------------------------------------
(* Backups.                                                                *)

(* The inductive invariant, in named parts.                                *)

Running(k) == bk[k] # "idle"

\* A backup that runs has a number; the server runs one at a time, and has paused the
\* collector for it.
RunsConsistent ==
  /\ \A k \in Backups : Running(k) => startedAt[k] \in 1 .. started
  /\ \A j, k \in Backups \ CliBackups : Running(j) /\ Running(k) => j = k
  /\ \A k \in Backups \ CliBackups : Running(k) => paused > 0

\* Until its manifest is written.
Gathering(k) == bk[k] \in {"paused", "listed", "copied", "uploading"}

\* A collection that was not under way when a backup of the server paused the
\* collector does not begin before the manifest is written, and the database copy
\* stays readable.
PauseKeeps ==
  \A k \in Backups \ CliBackups : Gathering(k) /\ ~raced[k] =>
    /\ gc = "idle"
    /\ Reading(k) => copy[k] \subseteq files \union outlived

\* Backups that run beside each other are written down as such.
OverlapsNoted ==
  \A j, k \in Backups : Running(j) /\ Running(k) /\ j # k => startedAt[j] \in overlapped

Lone(k) == Running(k) /\ startedAt[k] \notin overlapped

\* What a backup that runs alone believes to be in the repository is there, and so is
\* what it has listed.
LoneKnows ==
  \A k \in Backups : Lone(k) =>
    /\ bk[k] \in {"listed", "copied", "uploading"} => known[k] \subseteq objects
    /\ bk[k] = "uploading" => DbObject(copy[k]) \in objects
    /\ bk[k] = "uploading" => \A b \in listed[k] : BlobObject(b) \in objects

\* Only a backup that is uploading has listed anything.
NothingListed == \A k \in Backups : bk[k] # "uploading" => listed[k] = {}

\* A prune that is under way has read every snapshot whose backup ran alone.
PruneSpares ==
  \A k \in Backups, m \in snapshots : m.at \notin overlapped =>
    /\ bk[k] = "dropping" /\ m \notin dropped[k] => ObjectsOf(m) \subseteq needed[k]
    /\ bk[k] = "removing" => ObjectsOf(m) \intersect unused[k] = {}

BackupInv ==
  /\ BTypeOK
  /\ RunsConsistent
  /\ PauseKeeps
  /\ OverlapsNoted
  /\ NothingListed
  /\ LoneKnows
  /\ PruneSpares
  /\ LoneSnapshotsComplete
-----------------------------------------------------------------------------
(* Backups and the store.                                                  *)

\* A backup only does to the store what the store allows.
LEMMA BackupStoreStep == [BNext]_bvars => [Next]_vars
<1> SUFFICES ASSUME [BNext]_bvars PROVE [Next]_vars
  OBVIOUS
<1>1. CASE StoreAlone(StoreStep)
  BY <1>1 DEF StoreAlone, Next
<1>2. ASSUME NEW k \in Backups, BackupStart(k) PROVE [Next]_vars
  BY <1>2 DEF BackupStart, Next
<1>3. ASSUME NEW k \in Backups, Ends(k) PROVE [Next]_vars
  BY <1>3 DEF Ends, Next
<1>4. ASSUME NEW k \in Backups, BackupStep(k) PROVE [Next]_vars
  BY <1>3, <1>4 DEF BackupStep, ListObjects, SnapshotDatabase, UploadDatabase, UploadBlob, WriteManifest,
     PruneRead, PruneSnapshot, PruneList, PruneObject, BackupDone
<1>5. CASE BCrash
  BY <1>5 DEF BCrash, Next
<1>6. CASE UNCHANGED bvars
  BY <1>6 DEF bvars
<1> QED BY <1>1, <1>2, <1>3, <1>4, <1>5, <1>6 DEF BNext, BackupFails

\* Backups implement the blob store: its steps are those of the store's specification,
\* or do not concern it.
THEOREM BackupImplementsStore == BSpec => Spec
<1>1. BInit => Init
  BY DEF BInit
<1> QED BY <1>1, BackupStoreStep, PTL DEF BSpec, Spec

\* So the store keeps its promises while backups run.
THEOREM StoreBesideBackups == BSpec => [](CountInv /\ OnDiskInv)
  BY BackupImplementsStore, Counting, LockKeepsFiles, PTL

\* While the collector is paused and idle it stays idle, and files only come.
LEMMA PausedStoreStep ==
  ASSUME OnDiskInv, StoreStep
  PROVE  /\ paused' = paused
         /\ outlived \subseteq outlived'
         /\ gc = "idle" /\ paused > 0 => gc' = "idle" /\ files \subseteq files'
<1> USE DEF dbVars, taskVars, gcVars, OnDiskInv
<1>1. ASSUME NEW t \in Tasks, TaskStep(t)
      PROVE  /\ UNCHANGED <<paused, gc>>
             /\ outlived \subseteq outlived'
             /\ files \subseteq files'
  BY <1>1 DEF TaskStep, StartPut, PutFile, Register, Cancel, ReadExisting, Refer, ReferRefused, Abandon
<1>2. CASE \/ \E b \in Blobs : RegisterDetached(b)
           \/ \E o \in Owners : Unrefer(o)
           \/ Tick
  BY <1>2 DEF RegisterDetached, Unrefer, Tick
<1>3. CASE GcStep
  BY <1>3 DEF GcStep, GcStart, GcCollect, GcDelete, GcFail
<1> QED BY <1>1, <1>2, <1>3 DEF StoreStep

\* What the live database refers to is stored.
LEMMA HashesStored ==
  ASSUME CountInv, OnDiskInv
  PROVE  BlobHashes \subseteq Blobs /\ BlobHashes \subseteq files \union outlived
  BY DEF CountInv, OnDiskInv, TypeOK, BlobHashes

\* Pauses are counted.
LEMMA CountsPauses == CountInv => paused \in Nat
  BY DEF CountInv, TypeOK

-----------------------------------------------------------------------------
(* One lemma for each part of the invariants.                              *)

\* Objects of both kinds are objects, and those of a manifest too.
LEMMA ObjectTypes ==
  /\ \A b \in Blobs : BlobObject(b) \in Objects
  /\ \A c \in SUBSET Blobs : DbObject(c) \in Objects
  /\ \A m \in Manifests : ObjectsOf(m) \subseteq Objects
  /\ \A kept \in SUBSET Manifests : Needed(kept) \subseteq Objects
<1>1. /\ \A b \in Blobs : BlobObject(b) \in Objects
      /\ \A c \in SUBSET Blobs : DbObject(c) \in Objects
  BY DEF Objects
<1>2. \A m \in Manifests : ObjectsOf(m) \subseteq Objects
  BY <1>1 DEF ObjectsOf, Manifests
<1> QED BY <1>1, <1>2 DEF Needed

\* Every step keeps the types.
LEMMA BTypeStep ==
  CountInv /\ OnDiskInv /\ BackupInv /\ [BNext]_bvars => BTypeOK'
<1> SUFFICES ASSUME CountInv, OnDiskInv, BackupInv, [BNext]_bvars PROVE BTypeOK'
  OBVIOUS
<1> USE CliAssumption, MaxBackupsAssumption, ObjectTypes, HashesStored
<1> USE DEF BackupInv, repoVars, runVars, BTypeOK, Phases
<1>1. CASE StoreAlone(StoreStep)
  BY <1>1 DEF StoreAlone
<1>2. ASSUME NEW k \in Backups, BackupStart(k) PROVE BTypeOK'
  <2>1. started \in 0 .. MaxBackups /\ started + 1 \in 1 .. MaxBackups
    BY <1>2 DEF BackupStart
  <2>2. startedAt' \in [Backups -> 0 .. MaxBackups] /\ started' \in 0 .. MaxBackups
    BY <1>2, <2>1 DEF BackupStart
  <2>3. ASSUME NEW x \in overlapped' PROVE x \in 1 .. MaxBackups
    BY <1>2, <2>1, <2>3 DEF RunsConsistent, Running, BackupStart, Beside
  <2>4. raced' \in [Backups -> BOOLEAN]
    BY <1>2 DEF BackupStart
  <2> QED BY <1>2, <2>2, <2>3, <2>4 DEF BackupStart, Goto
<1>3. ASSUME NEW k \in Backups, ListObjects(k) PROVE BTypeOK'
  BY <1>3 DEF ListObjects, Goto
<1>4. ASSUME NEW k \in Backups, SnapshotDatabase(k) PROVE BTypeOK'
  BY <1>4 DEF SnapshotDatabase, Goto
<1>5. ASSUME NEW k \in Backups, UploadDatabase(k) PROVE BTypeOK'
  BY <1>5 DEF UploadDatabase, Goto, Put
<1>6. ASSUME NEW k \in Backups, NEW b \in Blobs, UploadBlob(k, b) PROVE BTypeOK'
  BY <1>6 DEF UploadBlob, Put
<1>7. ASSUME NEW k \in Backups, WriteManifest(k) PROVE BTypeOK'
  <2>1. startedAt[k] \in 1 .. MaxBackups
    BY <1>7 DEF RunsConsistent, Running, WriteManifest
  <2>2. [at |-> startedAt[k], db |-> copy[k], blobs |-> listed[k]] \in Manifests
    BY <1>7, <2>1 DEF Manifests
  <2>3. raced' \in [Backups -> BOOLEAN]
    BY <1>7 DEF WriteManifest
  <2> QED BY <1>7, <2>2, <2>3 DEF WriteManifest, Goto
<1>8. ASSUME NEW k \in Backups, PruneRead(k) PROVE BTypeOK'
  BY <1>8 DEF PruneRead, Goto
<1>9. ASSUME NEW k \in Backups, PruneSnapshot(k) PROVE BTypeOK'
  BY <1>9 DEF PruneSnapshot
<1>10. ASSUME NEW k \in Backups, PruneList(k) PROVE BTypeOK'
  BY <1>10 DEF PruneList, Goto
<1>11. ASSUME NEW k \in Backups, PruneObject(k) PROVE BTypeOK'
  BY <1>11 DEF PruneObject
<1>12. ASSUME NEW k \in Backups, Running(k), Ends(k) PROVE BTypeOK'
  BY <1>12 DEF Ends, Goto, ResumeCleanup
<1>13. CASE BCrash
  BY <1>13 DEF BCrash, Crash
<1>14. CASE UNCHANGED bvars
  BY <1>14 DEF bvars, vars, gcVars, taskVars
<1> QED
  BY <1>1, <1>2, <1>3, <1>4, <1>5, <1>6, <1>7, <1>8, <1>9, <1>10, <1>11, <1>12, <1>13,
     <1>14 DEF BNext, BackupStep, BackupDone, BackupFails, Running

\* `running` keeps backups of the server apart, and each of them gives its pause back.
LEMMA RunsStep ==
  CountInv /\ OnDiskInv /\ BackupInv /\ [BNext]_bvars => RunsConsistent'
<1> SUFFICES ASSUME CountInv, OnDiskInv, BackupInv, [BNext]_bvars PROVE RunsConsistent'
  OBVIOUS
<1> USE CliAssumption, MaxBackupsAssumption, CountsPauses
<1> USE DEF BackupInv, repoVars, runVars, BTypeOK, RunsConsistent, Running, vars
<1>1. CASE StoreAlone(StoreStep)
  <2>1. paused' = paused
    BY <1>1, PausedStoreStep DEF StoreAlone
  <2> QED BY <1>1, <2>1 DEF StoreAlone
<1>2. ASSUME NEW k \in Backups, BackupStart(k) PROVE RunsConsistent'
  BY <1>2 DEF BackupStart, PauseCleanup, Goto, Beside
<1>3. ASSUME NEW k \in Backups, ListObjects(k) PROVE RunsConsistent'
  BY <1>3 DEF ListObjects, Goto
<1>4. ASSUME NEW k \in Backups, SnapshotDatabase(k) PROVE RunsConsistent'
  BY <1>4 DEF SnapshotDatabase, Goto
<1>5. ASSUME NEW k \in Backups, UploadDatabase(k) PROVE RunsConsistent'
  BY <1>5 DEF UploadDatabase, Goto, Put
<1>6. ASSUME NEW k \in Backups, NEW b \in Blobs, UploadBlob(k, b) PROVE RunsConsistent'
  BY <1>6 DEF UploadBlob, Put
<1>7. ASSUME NEW k \in Backups, WriteManifest(k) PROVE RunsConsistent'
  BY <1>7 DEF WriteManifest, Goto
<1>8. ASSUME NEW k \in Backups, PruneRead(k) PROVE RunsConsistent'
  BY <1>8 DEF PruneRead, Goto
<1>9. ASSUME NEW k \in Backups, PruneSnapshot(k) PROVE RunsConsistent'
  BY <1>9 DEF PruneSnapshot
<1>10. ASSUME NEW k \in Backups, PruneList(k) PROVE RunsConsistent'
  BY <1>10 DEF PruneList, Goto
<1>11. ASSUME NEW k \in Backups, PruneObject(k) PROVE RunsConsistent'
  BY <1>11 DEF PruneObject
<1>12. ASSUME NEW k \in Backups, Running(k), Ends(k) PROVE RunsConsistent'
  BY <1>12 DEF Ends, Goto, ResumeCleanup
<1>13. CASE BCrash
  BY <1>13 DEF BCrash, Crash
<1>14. CASE UNCHANGED bvars
  BY <1>14 DEF bvars, vars, gcVars, taskVars
<1> QED
  BY <1>1, <1>2, <1>3, <1>4, <1>5, <1>6, <1>7, <1>8, <1>9, <1>10, <1>11, <1>12, <1>13,
     <1>14 DEF BNext, BackupStep, BackupDone, BackupFails, Running

\* The collector does not begin under a pause.
LEMMA PauseStep ==
  CountInv /\ OnDiskInv /\ BackupInv /\ [BNext]_bvars => PauseKeeps'
<1> SUFFICES ASSUME CountInv, OnDiskInv, BackupInv, [BNext]_bvars PROVE PauseKeeps'
  OBVIOUS
<1> USE CliAssumption, MaxBackupsAssumption
<1> USE DEF BackupInv, repoVars, runVars, BTypeOK, RunsConsistent, PauseKeeps, Running, Gathering,
            Reading, vars, gcVars, taskVars
<1>1. CASE StoreAlone(StoreStep)
  <2>1. /\ paused' = paused
        /\ outlived \subseteq outlived'
        /\ gc = "idle" /\ paused > 0 => gc' = "idle" /\ files \subseteq files'
    BY <1>1, PausedStoreStep DEF StoreAlone
  <2> QED BY <1>1, <2>1 DEF StoreAlone
<1>2. ASSUME NEW k \in Backups, BackupStart(k) PROVE PauseKeeps'
  BY <1>2 DEF BackupStart, PauseCleanup, Goto, Beside
<1>3. ASSUME NEW k \in Backups, ListObjects(k) PROVE PauseKeeps'
  BY <1>3 DEF ListObjects, Goto
<1>4. ASSUME NEW k \in Backups, SnapshotDatabase(k) PROVE PauseKeeps'
  <2>1. BlobHashes \subseteq files \union outlived
    BY HashesStored
  <2> QED BY <1>4, <2>1 DEF SnapshotDatabase, Goto
<1>5. ASSUME NEW k \in Backups, UploadDatabase(k) PROVE PauseKeeps'
  BY <1>5 DEF UploadDatabase, Goto, Put
<1>6. ASSUME NEW k \in Backups, NEW b \in Blobs, UploadBlob(k, b) PROVE PauseKeeps'
  BY <1>6 DEF UploadBlob, Put
<1>7. ASSUME NEW k \in Backups, WriteManifest(k) PROVE PauseKeeps'
  BY <1>7 DEF WriteManifest, Goto
<1>8. ASSUME NEW k \in Backups, PruneRead(k) PROVE PauseKeeps'
  BY <1>8 DEF PruneRead, Goto
<1>9. ASSUME NEW k \in Backups, PruneSnapshot(k) PROVE PauseKeeps'
  BY <1>9 DEF PruneSnapshot
<1>10. ASSUME NEW k \in Backups, PruneList(k) PROVE PauseKeeps'
  BY <1>10 DEF PruneList, Goto
<1>11. ASSUME NEW k \in Backups, PruneObject(k) PROVE PauseKeeps'
  BY <1>11 DEF PruneObject
<1>12. ASSUME NEW k \in Backups, Running(k), Ends(k) PROVE PauseKeeps'
  BY <1>12 DEF Ends, Goto, ResumeCleanup
<1>13. CASE BCrash
  BY <1>13 DEF BCrash, Crash
<1>14. CASE UNCHANGED bvars
  BY <1>14 DEF bvars, vars, gcVars, taskVars
<1> QED
  BY <1>1, <1>2, <1>3, <1>4, <1>5, <1>6, <1>7, <1>8, <1>9, <1>10, <1>11, <1>12, <1>13,
     <1>14 DEF BNext, BackupStep, BackupDone, BackupFails, Running

\* Overlaps are noted when the later backup starts.
LEMMA OverlapsStep ==
  CountInv /\ OnDiskInv /\ BackupInv /\ [BNext]_bvars => OverlapsNoted'
<1> SUFFICES ASSUME CountInv, OnDiskInv, BackupInv, [BNext]_bvars PROVE OverlapsNoted'
  OBVIOUS
<1> USE CliAssumption, MaxBackupsAssumption
<1> USE DEF BackupInv, repoVars, runVars, BTypeOK, RunsConsistent, OverlapsNoted, Running
<1>1. CASE StoreAlone(StoreStep)
  BY <1>1 DEF StoreAlone
<1>2. ASSUME NEW k \in Backups, BackupStart(k) PROVE OverlapsNoted'
  <2>1. ASSUME NEW i \in Backups, NEW j \in Backups, i # j, Running(i)', Running(j)'
        PROVE  startedAt'[i] \in overlapped'
    <3>1. \A x \in Backups : x # k => (Running(x)' <=> Running(x)) /\ startedAt'[x] = startedAt[x]
      BY <1>2 DEF BackupStart, Goto
    <3>2. startedAt'[k] = started + 1
      BY <1>2 DEF BackupStart
    <3>3. \A x \in Backups : x # k /\ Running(x) => startedAt[x] \in Beside(k) /\ started + 1 \in Beside(k)
      BY DEF Beside
    <3>4. overlapped' = overlapped \union Beside(k)
      BY <1>2 DEF BackupStart
    <3> QED BY <2>1, <3>1, <3>2, <3>3, <3>4
  <2> QED BY <2>1
<1>3. ASSUME NEW k \in Backups, ListObjects(k) PROVE OverlapsNoted'
  BY <1>3 DEF ListObjects, Goto
<1>4. ASSUME NEW k \in Backups, SnapshotDatabase(k) PROVE OverlapsNoted'
  BY <1>4 DEF SnapshotDatabase, Goto
<1>5. ASSUME NEW k \in Backups, UploadDatabase(k) PROVE OverlapsNoted'
  BY <1>5 DEF UploadDatabase, Goto, Put
<1>6. ASSUME NEW k \in Backups, NEW b \in Blobs, UploadBlob(k, b) PROVE OverlapsNoted'
  BY <1>6 DEF UploadBlob, Put
<1>7. ASSUME NEW k \in Backups, WriteManifest(k) PROVE OverlapsNoted'
  BY <1>7 DEF WriteManifest, Goto
<1>8. ASSUME NEW k \in Backups, PruneRead(k) PROVE OverlapsNoted'
  BY <1>8 DEF PruneRead, Goto
<1>9. ASSUME NEW k \in Backups, PruneSnapshot(k) PROVE OverlapsNoted'
  BY <1>9 DEF PruneSnapshot
<1>10. ASSUME NEW k \in Backups, PruneList(k) PROVE OverlapsNoted'
  BY <1>10 DEF PruneList, Goto
<1>11. ASSUME NEW k \in Backups, PruneObject(k) PROVE OverlapsNoted'
  BY <1>11 DEF PruneObject
<1>12. ASSUME NEW k \in Backups, Running(k), Ends(k) PROVE OverlapsNoted'
  BY <1>12 DEF Ends, Goto, ResumeCleanup
<1>13. CASE BCrash
  BY <1>13 DEF BCrash, Crash
<1>14. CASE UNCHANGED bvars
  BY <1>14 DEF bvars, vars, gcVars, taskVars
<1> QED
  BY <1>1, <1>2, <1>3, <1>4, <1>5, <1>6, <1>7, <1>8, <1>9, <1>10, <1>11, <1>12, <1>13,
     <1>14 DEF BNext, BackupStep, BackupDone, BackupFails, Running

\* The list of blobs is made while they are uploaded.
LEMMA ListedStep ==
  CountInv /\ OnDiskInv /\ BackupInv /\ [BNext]_bvars => NothingListed'
<1> SUFFICES ASSUME CountInv, OnDiskInv, BackupInv, [BNext]_bvars PROVE NothingListed'
  OBVIOUS
<1> USE CliAssumption, MaxBackupsAssumption
<1> USE DEF BackupInv, repoVars, runVars, BTypeOK, NothingListed
<1>1. CASE StoreAlone(StoreStep)
  BY <1>1 DEF StoreAlone
<1>2. ASSUME NEW k \in Backups, BackupStart(k) PROVE NothingListed'
  BY <1>2 DEF BackupStart, PauseCleanup, Goto, Beside
<1>3. ASSUME NEW k \in Backups, ListObjects(k) PROVE NothingListed'
  BY <1>3 DEF ListObjects, Goto
<1>4. ASSUME NEW k \in Backups, SnapshotDatabase(k) PROVE NothingListed'
  BY <1>4 DEF SnapshotDatabase, Goto
<1>5. ASSUME NEW k \in Backups, UploadDatabase(k) PROVE NothingListed'
  BY <1>5 DEF UploadDatabase, Goto, Put
<1>6. ASSUME NEW k \in Backups, NEW b \in Blobs, UploadBlob(k, b) PROVE NothingListed'
  BY <1>6 DEF UploadBlob, Put
<1>7. ASSUME NEW k \in Backups, WriteManifest(k) PROVE NothingListed'
  BY <1>7 DEF WriteManifest, Goto
<1>8. ASSUME NEW k \in Backups, PruneRead(k) PROVE NothingListed'
  BY <1>8 DEF PruneRead, Goto
<1>9. ASSUME NEW k \in Backups, PruneSnapshot(k) PROVE NothingListed'
  BY <1>9 DEF PruneSnapshot
<1>10. ASSUME NEW k \in Backups, PruneList(k) PROVE NothingListed'
  BY <1>10 DEF PruneList, Goto
<1>11. ASSUME NEW k \in Backups, PruneObject(k) PROVE NothingListed'
  BY <1>11 DEF PruneObject
<1>12. ASSUME NEW k \in Backups, Running(k), Ends(k) PROVE NothingListed'
  BY <1>12 DEF Ends, Goto, ResumeCleanup
<1>13. CASE BCrash
  BY <1>13 DEF BCrash, Crash
<1>14. CASE UNCHANGED bvars
  BY <1>14 DEF bvars, vars, gcVars, taskVars
<1> QED
  BY <1>1, <1>2, <1>3, <1>4, <1>5, <1>6, <1>7, <1>8, <1>9, <1>10, <1>11, <1>12, <1>13,
     <1>14 DEF BNext, BackupStep, BackupDone, BackupFails, Running

\* Nobody takes an object from under a backup that runs alone.
LEMMA LoneKnowsStep ==
  CountInv /\ OnDiskInv /\ BackupInv /\ [BNext]_bvars => LoneKnows'
<1> SUFFICES ASSUME CountInv, OnDiskInv, BackupInv, [BNext]_bvars PROVE LoneKnows'
  OBVIOUS
<1> USE CliAssumption, MaxBackupsAssumption
<1> USE DEF BackupInv, repoVars, runVars, BTypeOK, RunsConsistent, OverlapsNoted, NothingListed,
            LoneKnows, Lone, Running
<1>1. CASE StoreAlone(StoreStep)
  BY <1>1 DEF StoreAlone
<1>2. ASSUME NEW k \in Backups, BackupStart(k) PROVE LoneKnows'
  BY <1>2 DEF BackupStart, PauseCleanup, Goto, Beside
<1>3. ASSUME NEW k \in Backups, ListObjects(k) PROVE LoneKnows'
  BY <1>3 DEF ListObjects, Goto
<1>4. ASSUME NEW k \in Backups, SnapshotDatabase(k) PROVE LoneKnows'
  BY <1>4 DEF SnapshotDatabase, Goto
<1>5. ASSUME NEW k \in Backups, UploadDatabase(k) PROVE LoneKnows'
  BY <1>5 DEF UploadDatabase, Goto, Put
<1>6. ASSUME NEW k \in Backups, NEW b \in Blobs, UploadBlob(k, b) PROVE LoneKnows'
  BY <1>6 DEF UploadBlob, Put
<1>7. ASSUME NEW k \in Backups, WriteManifest(k) PROVE LoneKnows'
  BY <1>7 DEF WriteManifest, Goto
<1>8. ASSUME NEW k \in Backups, PruneRead(k) PROVE LoneKnows'
  BY <1>8 DEF PruneRead, Goto
<1>9. ASSUME NEW k \in Backups, PruneSnapshot(k) PROVE LoneKnows'
  BY <1>9 DEF PruneSnapshot
<1>10. ASSUME NEW k \in Backups, PruneList(k) PROVE LoneKnows'
  BY <1>10 DEF PruneList, Goto
<1>11. ASSUME NEW k \in Backups, PruneObject(k) PROVE LoneKnows'
  BY <1>11 DEF PruneObject
<1>12. ASSUME NEW k \in Backups, Running(k), Ends(k) PROVE LoneKnows'
  BY <1>12 DEF Ends, Goto, ResumeCleanup
<1>13. CASE BCrash
  BY <1>13 DEF BCrash, Crash
<1>14. CASE UNCHANGED bvars
  BY <1>14 DEF bvars, vars, gcVars, taskVars
<1> QED
  BY <1>1, <1>2, <1>3, <1>4, <1>5, <1>6, <1>7, <1>8, <1>9, <1>10, <1>11, <1>12, <1>13,
     <1>14 DEF BNext, BackupStep, BackupDone, BackupFails, Running

\* A prune knows of every snapshot whose backup ran alone.
LEMMA PruneSparesStep ==
  CountInv /\ OnDiskInv /\ BackupInv /\ [BNext]_bvars => PruneSpares'
<1> SUFFICES ASSUME CountInv, OnDiskInv, BackupInv, [BNext]_bvars PROVE PruneSpares'
  OBVIOUS
<1> USE CliAssumption, MaxBackupsAssumption
<1> USE DEF BackupInv, repoVars, runVars, BTypeOK, RunsConsistent, OverlapsNoted, PruneSpares, Running
<1>1. CASE StoreAlone(StoreStep)
  BY <1>1 DEF StoreAlone
<1>2. ASSUME NEW k \in Backups, BackupStart(k) PROVE PruneSpares'
  BY <1>2 DEF BackupStart, PauseCleanup, Goto, Beside
<1>3. ASSUME NEW k \in Backups, ListObjects(k) PROVE PruneSpares'
  BY <1>3 DEF ListObjects, Goto
<1>4. ASSUME NEW k \in Backups, SnapshotDatabase(k) PROVE PruneSpares'
  BY <1>4 DEF SnapshotDatabase, Goto
<1>5. ASSUME NEW k \in Backups, UploadDatabase(k) PROVE PruneSpares'
  BY <1>5 DEF UploadDatabase, Goto, Put
<1>6. ASSUME NEW k \in Backups, NEW b \in Blobs, UploadBlob(k, b) PROVE PruneSpares'
  BY <1>6 DEF UploadBlob, Put
<1>7. ASSUME NEW k \in Backups, WriteManifest(k) PROVE PruneSpares'
  BY <1>7 DEF WriteManifest, Goto
<1>8. ASSUME NEW k \in Backups, PruneRead(k) PROVE PruneSpares'
  <2>1. PICK kept \in SUBSET snapshots :
          /\ needed' = [needed EXCEPT ![k] = Needed(kept)]
          /\ dropped' = [dropped EXCEPT ![k] = snapshots \ kept]
    BY <1>8 DEF PruneRead
  <2>2. \A m \in kept : ObjectsOf(m) \subseteq Needed(kept)
    BY DEF Needed
  <2> QED BY <1>8, <2>1, <2>2 DEF PruneRead, Goto
<1>9. ASSUME NEW k \in Backups, PruneSnapshot(k) PROVE PruneSpares'
  BY <1>9 DEF PruneSnapshot
<1>10. ASSUME NEW k \in Backups, PruneList(k) PROVE PruneSpares'
  BY <1>10 DEF PruneList, Goto
<1>11. ASSUME NEW k \in Backups, PruneObject(k) PROVE PruneSpares'
  BY <1>11 DEF PruneObject
<1>12. ASSUME NEW k \in Backups, Running(k), Ends(k) PROVE PruneSpares'
  BY <1>12 DEF Ends, Goto, ResumeCleanup
<1>13. CASE BCrash
  BY <1>13 DEF BCrash, Crash
<1>14. CASE UNCHANGED bvars
  BY <1>14 DEF bvars, vars, gcVars, taskVars
<1> QED
  BY <1>1, <1>2, <1>3, <1>4, <1>5, <1>6, <1>7, <1>8, <1>9, <1>10, <1>11, <1>12, <1>13,
     <1>14 DEF BNext, BackupStep, BackupDone, BackupFails, Running

\* A manifest is written when what it names is in the repository.
LEMMA CompleteStep ==
  CountInv /\ OnDiskInv /\ BackupInv /\ [BNext]_bvars => LoneSnapshotsComplete'
<1> SUFFICES ASSUME CountInv, OnDiskInv, BackupInv, [BNext]_bvars PROVE LoneSnapshotsComplete'
  OBVIOUS
<1> USE CliAssumption, MaxBackupsAssumption
<1> USE DEF BackupInv, repoVars, runVars, BTypeOK, LoneKnows, PruneSpares, Lone, Running,
            LoneSnapshotsComplete
<1>1. CASE StoreAlone(StoreStep)
  BY <1>1 DEF StoreAlone
<1>2. ASSUME NEW k \in Backups, BackupStart(k) PROVE LoneSnapshotsComplete'
  BY <1>2 DEF BackupStart, PauseCleanup, Goto, Beside
<1>3. ASSUME NEW k \in Backups, ListObjects(k) PROVE LoneSnapshotsComplete'
  BY <1>3 DEF ListObjects, Goto
<1>4. ASSUME NEW k \in Backups, SnapshotDatabase(k) PROVE LoneSnapshotsComplete'
  BY <1>4 DEF SnapshotDatabase, Goto
<1>5. ASSUME NEW k \in Backups, UploadDatabase(k) PROVE LoneSnapshotsComplete'
  BY <1>5 DEF UploadDatabase, Goto, Put
<1>6. ASSUME NEW k \in Backups, NEW b \in Blobs, UploadBlob(k, b) PROVE LoneSnapshotsComplete'
  BY <1>6 DEF UploadBlob, Put
<1>7. ASSUME NEW k \in Backups, WriteManifest(k) PROVE LoneSnapshotsComplete'
  <2> DEFINE new == [at |-> startedAt[k], db |-> copy[k], blobs |-> listed[k]]
  <2>1. new.at \notin overlapped => ObjectsOf(new) \subseteq objects
    BY <1>7 DEF ObjectsOf, WriteManifest
  <2>2. snapshots' = snapshots \union {new} /\ UNCHANGED <<objects, overlapped>>
    BY <1>7 DEF WriteManifest
  <2> QED BY <2>1, <2>2
<1>8. ASSUME NEW k \in Backups, PruneRead(k) PROVE LoneSnapshotsComplete'
  BY <1>8 DEF PruneRead, Goto
<1>9. ASSUME NEW k \in Backups, PruneSnapshot(k) PROVE LoneSnapshotsComplete'
  BY <1>9 DEF PruneSnapshot
<1>10. ASSUME NEW k \in Backups, PruneList(k) PROVE LoneSnapshotsComplete'
  BY <1>10 DEF PruneList, Goto
<1>11. ASSUME NEW k \in Backups, PruneObject(k) PROVE LoneSnapshotsComplete'
  BY <1>11 DEF PruneObject
<1>12. ASSUME NEW k \in Backups, Running(k), Ends(k) PROVE LoneSnapshotsComplete'
  BY <1>12 DEF Ends, Goto, ResumeCleanup
<1>13. CASE BCrash
  BY <1>13 DEF BCrash, Crash
<1>14. CASE UNCHANGED bvars
  BY <1>14 DEF bvars, vars, gcVars, taskVars
<1> QED
  BY <1>1, <1>2, <1>3, <1>4, <1>5, <1>6, <1>7, <1>8, <1>9, <1>10, <1>11, <1>12, <1>13,
     <1>14 DEF BNext, BackupStep, BackupDone, BackupFails, Running

\* The invariant holds in every state a server with backups can get into.
THEOREM BackupInvariant == BSpec => []BackupInv
<1>1. BInit => BackupInv
  <2> SUFFICES ASSUME BInit PROVE BackupInv
    OBVIOUS
  <2> USE CliAssumption, MaxBackupsAssumption DEF BInit
  <2>1. BTypeOK
    BY DEF BTypeOK, Phases
  <2>2. RunsConsistent /\ PauseKeeps
    BY DEF RunsConsistent, PauseKeeps, Gathering, Running
  <2>3. OverlapsNoted /\ NothingListed /\ LoneKnows
    BY DEF OverlapsNoted, NothingListed, LoneKnows, Lone, Running
  <2>4. PruneSpares /\ LoneSnapshotsComplete
    BY DEF PruneSpares, LoneSnapshotsComplete
  <2> QED BY <2>1, <2>2, <2>3, <2>4 DEF BackupInv
<1>2. CountInv /\ OnDiskInv /\ BackupInv /\ [BNext]_bvars => BackupInv'
  BY BTypeStep, RunsStep, PauseStep, OverlapsStep, ListedStep, LoneKnowsStep, PruneSparesStep,
     CompleteStep DEF BackupInv
<1> QED BY <1>1, <1>2, StoreBesideBackups, PTL DEF BSpec

\* Every variable of a backup keeps its type.
THEOREM BackupTypeCorrect == BSpec => []BTypeOK
  BY BackupInvariant, PTL DEF BackupInv

\* pause_blob_cleanup keeps what the database copy refers to on disk, unless a
\* collection was under way when it was called.
THEOREM PauseKeepsCopyReadable == BSpec => []UnracedCopyReadable
<1>1. BackupInv => UnracedCopyReadable
  BY DEF BackupInv, PauseKeeps, Gathering, Reading, UnracedCopyReadable
<1> QED BY <1>1, BackupInvariant, PTL

\* No prune, failure or restart takes an object from a snapshot whose backup ran
\* alone.
THEOREM LoneSnapshotsStayComplete == BSpec => []LoneSnapshotsComplete
  BY BackupInvariant, PTL DEF BackupInv
=============================================================================
