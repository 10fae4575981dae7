-------------------------- MODULE MailStoreProofs --------------------------
(***************************************************************************)
(* What the store keeps for any number of emails, threads, mailboxes, UIDs *)
(* and changes: UIDs never come back, the change log tells the fate of     *)
(* every email, thread and mailbox, and readers see the log of ChangeLog.  *)
(***************************************************************************)
EXTENDS MailStore, FiniteSetTheorems, TLAPS

-----------------------------------------------------------------------------
(* The inductive invariant of the store.                                   *)

\* What a transaction knows while it is open, and which rows there are.
Shape ==
  /\ op \in {"none", "update", "destroy"} => todo = {} /\ box = 0
  /\ op \in {"takeout", "emptying"} => box \in boxes
  /\ batch \in {0, modseq}
  /\ op = "none" => batch = 0
  /\ op = "emptying" => batch = modseq
  /\ emails \subseteq 1 .. lastEmail
  /\ threads \subseteq 1 .. lastThread
  /\ boxes \subseteq 1 .. lastBox
  /\ \A e \in emails : threadOf[e] \in threads

\* A membership has a UID of its own, below the next one, and a UID that vanished
\* belongs to nobody.
Uids ==
  /\ \A b \in BoxIds : uidNext[b] <= MaxUid + 1
  /\ \A b \in BoxIds, e \in EmailIds :
       uid[b][e] # 0 => b \in boxes /\ e \in emails /\ uid[b][e] < uidNext[b]
  /\ \A b \in BoxIds, e, f \in EmailIds : uid[b][e] # 0 /\ uid[b][e] = uid[b][f] => e = f
  /\ \A b \in BoxIds, u \in 1 .. MaxUid :
       vanished[b][u] # 0 =>
         b \in boxes /\ u < uidNext[b] /\ \A e \in EmailIds : uid[b][e] # u

\* The transaction that destroys a mailbox has yet to take every email that is in it.
Emptying == op = "emptying" => \A e \in EmailIds : uid[box][e] # 0 => e \in todo

\* A mailbox's modseq covers its memberships and what vanished from it, unless it is
\* being destroyed.
Tops ==
  /\ \A b \in BoxIds : top[b] <= modseq
  /\ \A b \in BoxIds, e \in EmailIds : uid[b][e] # 0 => itemSeq[b][e] \in 1 .. top[b]
  /\ \A b \in BoxIds, u \in 1 .. MaxUid :
       vanished[b][u] <= top[b] \/ (op = "emptying" /\ box = b)

\* The log has one word on an object at a modseq, and no modseq that is yet to come.
OneWord ==
  \A n, id \in Nat, kind \in Kinds, c \in Changes :
    <<n, kind, id, c>> \in log =>
      n \in 1 .. modseq /\ \A d \in Changes : <<n, kind, id, d>> \in log => d = c

\* The log's word on the emails, whether or not a transaction is open.
EmailTold(e) == LastDestroyed("Email", e) <=> e \notin emails
EmailsTold == \A e \in 1 .. lastEmail : EmailTold(e)

\* A batch comes to an email at most once before it destroys it.
EmailTurns ==
  /\ op \in {"takeout", "emptying"} =>
       \A e \in todo, c \in Changes : <<batch, "Email", e, c>> \notin log
  /\ op = "destroy" =>
       \A e \in emails, c \in Changes : <<batch, "Email", e, c>> \notin log

\* Two emails of thread t were destroyed at modseq n.
TwoDestroyed(t, n) ==
  \E e, f \in 1 .. lastEmail :
    /\ e # f
    /\ threadOf[e] = t /\ threadOf[f] = t
    /\ <<n, "Email", e, "destroyed">> \in log /\ <<n, "Email", f, "destroyed">> \in log

\* The log's word on the threads.
ThreadTold(t) ==
  \/ LastDestroyed("Thread", t) <=> t \notin threads
  \/ t \notin threads /\ \E n \in 1 .. modseq : LastSaid("Thread", t, n, "updated") /\ TwoDestroyed(t, n)
ThreadsTold == \A t \in 1 .. lastThread : ThreadTold(t)

\* A batch speaks of a thread when it destroyed an email of it.
ThreadTurns ==
  op # "none" =>
    \A t \in Nat, c \in Changes : <<batch, "Thread", t, c>> \in log =>
      /\ c # "created"
      /\ \E e \in 1 .. lastEmail : threadOf[e] = t /\ <<batch, "Email", e, "destroyed">> \in log

\* The log's word on the mailboxes.
BoxTold(b) ==
  \/ LastDestroyed("Mailbox", b) <=> b \notin boxes
  \/ b \notin boxes /\ \E n \in 1 .. modseq : LastSaid("Mailbox", b, n, "updated") /\ DestroyedAt(n) # {}
BoxesTold == \A b \in 1 .. lastBox : BoxTold(b)

\* The transaction that destroys a mailbox speaks of it before its end only when it
\* destroyed an email.
BoxTurns ==
  op = "emptying" =>
    \A c \in Changes : <<batch, "Mailbox", box, c>> \in log => c = "updated" /\ DestroyedAt(batch) # {}

StoreInv ==
  /\ TypeOK /\ Shape /\ Uids /\ Emptying /\ Tops
  /\ OneWord /\ EmailsTold /\ EmailTurns /\ ThreadsTold /\ ThreadTurns /\ BoxesTold /\ BoxTurns

-----------------------------------------------------------------------------
(* The steps of the store, by what they do.                                *)

\* update_one, whatever it is called for.  The mailboxes it does not speak of hold the
\* email as they did.
UpdateEffect(e, bs) ==
  /\ e \in emails /\ bs \subseteq boxes /\ bs # {}
  /\ TakeModseq
  /\ batch' = BatchModseq
  /\ Rehome(e, bs, BatchModseq)
  /\ seen' \in {seen \union {e}, seen \ {e}}
  /\ top' = Raised(BoxesOf(e) \union bs, BatchModseq)
  /\ \E touched \in SUBSET boxes :
       /\ \A b \in boxes \ touched :
            (b \in bs <=> b \in BoxesOf(e)) /\ (b \in bs => (e \in seen' <=> e \in seen))
       /\ log' = Recorded({<<BatchModseq, "Email", e, "updated">>} \union
                   {<<BatchModseq, "Mailbox", b, "updated">> : b \in touched})
  /\ UNCHANGED <<emails, threadOf, threads, used, boxes, idVars>>

\* A batch changes email e.
Updates(e, bs) ==
  /\ op \in {"update", "takeout"}
  /\ op = "takeout" => e \in todo
  /\ UpdateEffect(e, bs)
  /\ todo' = todo \ {e}
  /\ room' \in 0 .. BatchLimit
  /\ UNCHANGED <<op, box>>

\* A batch destroys email e.
Destroys(e) ==
  /\ op \in {"destroy", "takeout", "emptying"}
  /\ op # "destroy" => e \in todo
  /\ DestroyOne(e)
  /\ todo' = todo \ {e}
  /\ room' \in 0 .. BatchLimit
  /\ UNCHANGED <<op, box>>

\* An email leaves the mailbox that is being destroyed.
Leaves(e) ==
  /\ op = "emptying"
  /\ e \in todo
  /\ uid' = [uid EXCEPT ![box][e] = 0]
  /\ itemSeq' = [itemSeq EXCEPT ![box][e] = 0]
  /\ vanished' = [vanished EXCEPT ![box][uid[box][e]] = batch]
  /\ top' = Raised(BoxesOf(e) \ {box}, batch)
  /\ log' = Recorded({<<batch, "Email", e, "updated">>})
  /\ todo' = todo \ {e}
  /\ UNCHANGED <<emailVars, boxes, uidNext, modseq, batch, idVars, op, room, box>>

\* A transaction begins that takes its modseq later.
Begins ==
  \/ \E kind \in {"update", "destroy"} : Opens(kind, 0, {})
  \/ \E b \in boxes, es \in SUBSET emails : Opens("takeout", b, es)

Ingests ==
  \E bs \in SUBSET boxes, t \in ThreadIds, isSeen \in BOOLEAN : Ingest(bs, t, isSeen)

\* The parts of the type invariant.
EmailTypes ==
  /\ modseq \in 1 .. MaxModseq
  /\ used \in Nat
  /\ emails \subseteq EmailIds
  /\ threadOf \in [EmailIds -> ThreadIds \union {0}]
  /\ seen \subseteq emails
  /\ threads \subseteq ThreadIds
  /\ boxes \subseteq BoxIds
BoxTypes ==
  /\ top \in [BoxIds -> Nat]
  /\ uidNext \in [BoxIds -> Nat \ {0}]
  /\ uid \in [BoxIds -> [EmailIds -> Nat]]
  /\ itemSeq \in [BoxIds -> [EmailIds -> Nat]]
  /\ vanished \in [BoxIds -> [1 .. MaxUid -> Nat]]
LogTypes == log \subseteq Nat \X Kinds \X Nat \X Changes
TxTypes ==
  /\ lastEmail \in 0 .. MaxEmails
  /\ lastThread \in 0 .. MaxThreads
  /\ lastBox \in 0 .. MaxBoxes
  /\ op \in {"none", "update", "destroy", "takeout", "emptying"}
  /\ batch \in 0 .. MaxModseq
  /\ room \in 0 .. BatchLimit
  /\ todo \subseteq emails
  /\ box \in boxes \union {0}

\* Together they are the type invariant.
LEMMA TypeParts == TypeOK <=> EmailTypes /\ BoxTypes /\ LogTypes /\ TxTypes
  BY Zenon DEF TypeOK, EmailTypes, BoxTypes, LogTypes, TxTypes

\* Every step of the store is one of these.
LEMMA NextCases ==
  ASSUME TypeOK, Shape, Next
  PROVE  \/ Ingests
         \/ Begins
         \/ \E e \in emails, bs \in SUBSET boxes : Updates(e, bs)
         \/ \E e \in emails : Destroys(e)
         \/ \E e \in emails : Leaves(e)
         \/ Commit
         \/ CreateMailbox
         \/ \E b \in boxes : UpdateMailbox(b)
         \/ \E b \in boxes : BeginDestroyMailbox(b)
         \/ DropMailbox
<1> USE CountsAssumption
<1>0. /\ room \in 0 .. BatchLimit /\ todo \subseteq emails
      /\ op \in {"none", "update", "destroy"} => todo = {}
  BY TypeParts DEF TxTypes, Shape
<1>1. ASSUME NEW e \in emails, NEW bs \in SUBSET boxes, NEW isSeen \in BOOLEAN, Update(e, bs, isSeen)
      PROVE  Updates(e, bs)
  <2>1. UpdateEffect(e, bs)
    BY <1>1 DEF Update, UpdateOne, UpdateEffect, BoxesOf
  <2>2. todo' = todo \ {e} /\ room' \in 0 .. BatchLimit
    BY <1>0, <1>1 DEF Update
  <2> QED BY <1>1, <2>1, <2>2 DEF Update, Updates
<1>2. ASSUME NEW e \in emails, NEW isSeen \in BOOLEAN, StoreFlags(e, isSeen)
      PROVE  \E bs \in SUBSET boxes : Updates(e, bs)
  BY <1>1, <1>2 DEF StoreFlags, BoxesOf
<1>3. ASSUME NEW e \in emails, NEW source \in boxes, NEW target \in boxes, NEW moves \in BOOLEAN,
             CopyIn(e, source, target, moves)
      PROVE  \E bs \in SUBSET boxes : Updates(e, bs)
  <2> DEFINE bs == (BoxesOf(e) \union {target}) \ (IF moves THEN {source} ELSE {})
  <2>1. bs \in SUBSET boxes
    BY DEF BoxesOf
  <2>2. Update(e, bs, e \in seen)
    BY <1>3 DEF CopyIn
  <2> HIDE DEF bs
  <2>3. UpdateEffect(e, bs)
    BY <2>1, <2>2 DEF Update, UpdateOne, UpdateEffect, BoxesOf
  <2>4. todo' = todo \ {e} /\ room' \in 0 .. BatchLimit
    BY <1>0, <2>2 DEF Update
  <2>5. Updates(e, bs)
    BY <2>2, <2>3, <2>4 DEF Update, Updates
  <2> QED BY <2>1, <2>5
<1>4. ASSUME NEW e \in emails, Destroy(e)
      PROVE  Destroys(e)
  <2>1. todo' = todo \ {e} /\ room' \in 0 .. BatchLimit
    BY <1>0, <1>4 DEF Destroy
  <2> QED BY <1>4, <2>1 DEF Destroy, Destroys
<1>5. ASSUME NEW e \in todo, TakeOut(e)
      PROVE  Destroys(e) \/ \E bs \in SUBSET boxes : Updates(e, bs)
  <2>1. op = "takeout" /\ todo' = todo \ {e} /\ room' \in 0 .. BatchLimit /\ UNCHANGED <<op, box>>
    BY <1>0, <1>5 DEF TakeOut
  <2>2. CASE BoxesOf(e) = {box}
    BY <1>5, <2>1, <2>2 DEF TakeOut, Destroys
  <2>3. CASE BoxesOf(e) # {box}
    <3> DEFINE bs == BoxesOf(e) \ {box}
    <3>1. UpdateOne(e, bs, e \in seen) /\ bs \in SUBSET boxes
      BY <1>5, <2>3 DEF TakeOut, BoxesOf
    <3> HIDE DEF bs
    <3>2. UpdateEffect(e, bs)
      BY <3>1 DEF UpdateOne, UpdateEffect, BoxesOf
    <3>3. Updates(e, bs)
      BY <2>1, <3>2 DEF Updates
    <3> QED BY <3>1, <3>3
  <2> QED BY <2>2, <2>3
<1>6. ASSUME NEW e \in todo, TakeFromMailbox(e)
      PROVE  Destroys(e) \/ Leaves(e)
  BY <1>0, <1>6 DEF TakeFromMailbox, Destroys, Leaves
<1>7. CASE BeginUpdates \/ BeginDestroys \/ \E b \in boxes, es \in SUBSET emails : BeginTakeOut(b, es)
  BY <1>7 DEF BeginUpdates, BeginDestroys, BeginTakeOut, Begins
<1>8. CASE \E bs \in SUBSET boxes \ {{}}, t \in ThreadIds, isSeen \in BOOLEAN : Ingest(bs, t, isSeen)
  BY <1>8 DEF Ingests
<1> QED
  BY <1>0, <1>1, <1>2, <1>3, <1>4, <1>5, <1>6, <1>7, <1>8 DEF Next

-----------------------------------------------------------------------------
(* Memberships.                                                            *)

\* What a change of email e's memberships to bs at modseq n comes to, mailbox by
\* mailbox.
Homed(e, bs, n) ==
  \A b \in BoxIds :
    /\ \A f \in EmailIds \ {e} : uid'[b][f] = uid[b][f] /\ itemSeq'[b][f] = itemSeq[b][f]
    /\ b \in bs /\ uid[b][e] = 0 =>
         uidNext[b] <= MaxUid /\ uid'[b][e] = uidNext[b] /\ uidNext'[b] = uidNext[b] + 1
    /\ b \in bs /\ uid[b][e] # 0 => uid'[b][e] = uid[b][e] /\ uidNext'[b] = uidNext[b]
    /\ b \notin bs => uid'[b][e] = 0 /\ uidNext'[b] = uidNext[b]
    /\ \A u \in 1 .. MaxUid :
         vanished'[b][u] = IF b \notin bs /\ uid[b][e] = u THEN n ELSE vanished[b][u]

HomeTypes ==
  /\ uidNext' \in [BoxIds -> Nat \ {0}]
  /\ uid' \in [BoxIds -> [EmailIds -> Nat]]
  /\ itemSeq' \in [BoxIds -> [EmailIds -> Nat]]
  /\ vanished' \in [BoxIds -> [1 .. MaxUid -> Nat]]

\* Rehome does that, and marks every membership that stays or is new.
LEMMA RehomeHomes ==
  ASSUME TypeOK, Uids, NEW e \in EmailIds, NEW bs \in SUBSET boxes, NEW n \in Nat, Rehome(e, bs, n)
  PROVE  /\ Homed(e, bs, n) /\ HomeTypes
         /\ \A b \in bs : itemSeq'[b][e] = n
<1> USE CountsAssumption
<1>1. boxes \subseteq BoxIds /\ uid \in [BoxIds -> [EmailIds -> Nat]] /\ uidNext \in [BoxIds -> Nat \ {0}]
      /\ itemSeq \in [BoxIds -> [EmailIds -> Nat]] /\ vanished \in [BoxIds -> [1 .. MaxUid -> Nat]]
  BY DEF TypeOK
<1>2. \A b \in BoxIds : b \in BoxesOf(e) <=> uid[b][e] # 0
  BY <1>1 DEF BoxesOf, Uids
<1> DEFINE old == BoxesOf(e)
<1>3. /\ \A b \in bs \ old : uidNext[b] <= MaxUid
      /\ uid' = [b \in BoxIds |-> [uid[b] EXCEPT ![e] =
           IF b \in bs \ old THEN uidNext[b] ELSE IF b \in bs THEN @ ELSE 0]]
      /\ uidNext' = [b \in BoxIds |-> IF b \in bs \ old THEN uidNext[b] + 1 ELSE uidNext[b]]
      /\ itemSeq' = [b \in BoxIds |-> [itemSeq[b] EXCEPT ![e] = IF b \in bs THEN n ELSE 0]]
      /\ vanished' = [b \in BoxIds |->
           IF b \in old \ bs THEN [vanished[b] EXCEPT ![uid[b][e]] = n] ELSE vanished[b]]
  BY DEF Rehome, NextUid, ItemModseq
<1> HIDE DEF old
<1>4. \A b \in BoxIds : uid[b][e] # 0 => uid[b][e] \in 1 .. MaxUid
  BY <1>1 DEF Uids
<1>5. ASSUME NEW b \in BoxIds
      PROVE  /\ uid'[b] \in [EmailIds -> Nat] /\ uidNext'[b] \in Nat \ {0}
             /\ itemSeq'[b] \in [EmailIds -> Nat] /\ (b \in bs => itemSeq'[b][e] = n)
             /\ \A f \in EmailIds \ {e} : uid'[b][f] = uid[b][f] /\ itemSeq'[b][f] = itemSeq[b][f]
             /\ b \in bs /\ uid[b][e] = 0 =>
                  uidNext[b] <= MaxUid /\ uid'[b][e] = uidNext[b] /\ uidNext'[b] = uidNext[b] + 1
             /\ b \in bs /\ uid[b][e] # 0 => uid'[b][e] = uid[b][e] /\ uidNext'[b] = uidNext[b]
             /\ b \notin bs => uid'[b][e] = 0 /\ uidNext'[b] = uidNext[b]
  <2>1. uid'[b] = [uid[b] EXCEPT ![e] =
           IF b \in bs \ old THEN uidNext[b] ELSE IF b \in bs THEN uid[b][e] ELSE 0]
    BY <1>1, <1>3
  <2>2. uidNext'[b] = IF b \in bs \ old THEN uidNext[b] + 1 ELSE uidNext[b]
    BY <1>3
  <2>3. itemSeq'[b] = [itemSeq[b] EXCEPT ![e] = IF b \in bs THEN n ELSE 0]
    BY <1>3
  <2> QED BY <1>1, <1>2, <1>3, <2>1, <2>2, <2>3 DEF old
<1>6. ASSUME NEW b \in BoxIds
      PROVE  /\ vanished'[b] \in [1 .. MaxUid -> Nat]
             /\ \A u \in 1 .. MaxUid :
                  vanished'[b][u] = IF b \notin bs /\ uid[b][e] = u THEN n ELSE vanished[b][u]
  <2>1. CASE b \in old \ bs
    <3>1. vanished'[b] = [vanished[b] EXCEPT ![uid[b][e]] = n]
      BY <1>3, <2>1
    <3> QED BY <1>1, <1>2, <1>4, <2>1, <3>1 DEF old
  <2>2. CASE b \notin old \ bs
    <3>1. vanished'[b] = vanished[b]
      BY <1>3, <2>2
    <3> QED BY <1>1, <1>2, <2>2, <3>1 DEF old
  <2> QED BY <2>1, <2>2
<1>7. HomeTypes
  <2>1. uid' = [b \in BoxIds |-> uid'[b]] /\ uidNext' = [b \in BoxIds |-> uidNext'[b]]
        /\ itemSeq' = [b \in BoxIds |-> itemSeq'[b]] /\ vanished' = [b \in BoxIds |-> vanished'[b]]
    BY <1>3
  <2> QED BY <1>5, <1>6, <2>1 DEF HomeTypes
<1>8. Homed(e, bs, n)
  BY <1>5, <1>6 DEF Homed
<1> QED BY <1>1, <1>5, <1>7, <1>8

\* So does leaving a mailbox that is being destroyed, which marks nothing.
LEMMA LeavesHomes ==
  ASSUME TypeOK, Shape, Uids, NEW e \in emails, Leaves(e)
  PROVE  /\ Homed(e, BoxesOf(e) \ {box}, batch) /\ HomeTypes
         /\ \A b \in BoxesOf(e) \ {box} : itemSeq'[b][e] = itemSeq[b][e] /\ uid'[b][e] = uid[b][e]
<1> USE CountsAssumption
<1>1. boxes \subseteq BoxIds /\ uid \in [BoxIds -> [EmailIds -> Nat]] /\ uidNext \in [BoxIds -> Nat \ {0}]
      /\ itemSeq \in [BoxIds -> [EmailIds -> Nat]] /\ vanished \in [BoxIds -> [1 .. MaxUid -> Nat]]
      /\ e \in EmailIds /\ box \in BoxIds /\ batch \in Nat
  <2>1. op = "emptying"
    BY DEF Leaves
  <2>2. box \in boxes
    BY <2>1 DEF Shape
  <2>3. EmailTypes /\ BoxTypes /\ TxTypes
    BY TypeParts
  <2>4. e \in EmailIds /\ box \in BoxIds /\ boxes \subseteq BoxIds
    BY <2>2, <2>3 DEF EmailTypes
  <2>5. batch \in Nat
    BY <2>3 DEF TxTypes
  <2> QED BY <2>3, <2>4, <2>5 DEF BoxTypes
<1>2. \A b \in BoxIds : b \in BoxesOf(e) <=> uid[b][e] # 0
  BY <1>1 DEF BoxesOf, Uids
<1>3. /\ uid' = [uid EXCEPT ![box][e] = 0]
      /\ itemSeq' = [itemSeq EXCEPT ![box][e] = 0]
      /\ vanished' = [vanished EXCEPT ![box][uid[box][e]] = batch]
      /\ uidNext' = uidNext
  BY DEF Leaves
<1>4. uid[box][e] # 0 => uid[box][e] \in 1 .. MaxUid
  BY <1>1 DEF Uids
<1>5. /\ \A b \in BoxIds, f \in EmailIds :
           /\ uid'[b][f] = IF b = box /\ f = e THEN 0 ELSE uid[b][f]
           /\ itemSeq'[b][f] = IF b = box /\ f = e THEN 0 ELSE itemSeq[b][f]
      /\ uid' \in [BoxIds -> [EmailIds -> Nat]]
      /\ itemSeq' \in [BoxIds -> [EmailIds -> Nat]]
  BY <1>1, <1>3
<1>6. /\ \A b \in BoxIds, u \in 1 .. MaxUid :
           vanished'[b][u] = IF b = box /\ u = uid[box][e] THEN batch ELSE vanished[b][u]
      /\ vanished' \in [BoxIds -> [1 .. MaxUid -> Nat]]
  BY <1>1, <1>3
<1>7. HomeTypes
  BY <1>1, <1>3, <1>5, <1>6 DEF HomeTypes
<1>8. Homed(e, BoxesOf(e) \ {box}, batch)
  <2>1. PICK bs : bs = BoxesOf(e) \ {box}
    OBVIOUS
  <2>2. \A b \in BoxIds : b \in bs <=> b # box /\ uid[b][e] # 0
    BY <1>2, <2>1
  <2>3. ASSUME NEW b \in BoxIds, NEW u \in 1 .. MaxUid
        PROVE  vanished'[b][u] = IF b \notin bs /\ uid[b][e] = u THEN batch ELSE vanished[b][u]
    <3>1. b \notin bs /\ uid[b][e] = u <=> b = box /\ uid[b][e] = u
      BY <2>2
    <3>2. vanished'[b][u] = IF b = box /\ u = uid[box][e] THEN batch ELSE vanished[b][u]
      BY <1>6
    <3> QED BY <3>1, <3>2
  <2>4. \A b \in BoxIds, f \in EmailIds \ {e} : uid'[b][f] = uid[b][f] /\ itemSeq'[b][f] = itemSeq[b][f]
    BY <1>5
  <2>5. ASSUME NEW b \in BoxIds
        PROVE  /\ b \in bs => uid[b][e] # 0 /\ uid'[b][e] = uid[b][e]
               /\ b \notin bs => uid'[b][e] = 0
               /\ uidNext'[b] = uidNext[b]
    <3>1. uid'[b][e] = IF b = box THEN 0 ELSE uid[b][e]
      BY <1>1, <1>5
    <3> QED BY <1>3, <2>2, <3>1
  <2>6. Homed(e, bs, batch)
    <3> SUFFICES ASSUME NEW b \in BoxIds
                 PROVE  /\ \A f \in EmailIds \ {e} : uid'[b][f] = uid[b][f] /\ itemSeq'[b][f] = itemSeq[b][f]
                        /\ b \in bs => uid[b][e] # 0 /\ uid'[b][e] = uid[b][e] /\ uidNext'[b] = uidNext[b]
                        /\ b \notin bs => uid'[b][e] = 0 /\ uidNext'[b] = uidNext[b]
                        /\ \A u \in 1 .. MaxUid :
                             vanished'[b][u] = IF b \notin bs /\ uid[b][e] = u THEN batch ELSE vanished[b][u]
      BY Zenon DEF Homed
    <3>1. \A u \in 1 .. MaxUid :
            vanished'[b][u] = IF b \notin bs /\ uid[b][e] = u THEN batch ELSE vanished[b][u]
      BY <2>3
    <3> QED BY <2>4, <2>5, <3>1, Zenon
  <2> QED BY <2>1, <2>6
<1>9. \A b \in BoxesOf(e) \ {box} : itemSeq'[b][e] = itemSeq[b][e] /\ uid'[b][e] = uid[b][e]
  <2>1. BoxesOf(e) \subseteq BoxIds
    BY <1>1 DEF BoxesOf
  <2> QED BY <1>1, <1>5, <2>1
<1> QED BY <1>7, <1>8, <1>9

\* A batch takes the next modseq once, and works at the account's modseq from then on.
LEMMA TakenModseq ==
  ASSUME TypeOK, Shape, TakeModseq
  PROVE  /\ modseq' = BatchModseq /\ BatchModseq \in 1 .. MaxModseq
         /\ BatchModseq \in {modseq, modseq + 1}
         /\ batch = 0 => BatchModseq = modseq + 1
         /\ batch # 0 => BatchModseq = batch
  BY DEF TypeOK, Shape, TakeModseq, BatchModseq

\* Raising the mailboxes bs to a modseq that is not older than any.
LEMMA RaisedTops ==
  ASSUME TypeOK, Tops, NEW bs, NEW n \in Nat, modseq <= n
  PROVE  /\ Raised(bs, n) \in [BoxIds -> Nat]
         /\ \A b \in BoxIds : Raised(bs, n)[b] = IF b \in bs THEN n ELSE top[b]
  BY DEF TypeOK, Tops, Raised

\* The rows a change adds are rows of the log.
LEMMA RecordedRows ==
  ASSUME TypeOK, NEW rows \in SUBSET (Nat \X Kinds \X Nat \X Changes)
  PROVE  Recorded(rows) \subseteq Nat \X Kinds \X Nat \X Changes
  BY DEF TypeOK, Recorded

\* The type of the store's state and the shape of its rows and transactions are kept.
LEMMA ShapeStep ==
  TypeOK /\ Shape /\ Uids /\ Tops /\ [Next]_storeVars => TypeOK' /\ Shape'
<1> SUFFICES ASSUME TypeOK, Shape, Uids, Tops, [Next]_storeVars PROVE TypeOK' /\ Shape'
  OBVIOUS
<1> USE CountsAssumption
<1> USE DEF emailVars, boxVars, idVars, txVars
<1>t. EmailTypes /\ BoxTypes /\ LogTypes /\ TxTypes
  BY TypeParts
<1>u. ASSUME EmailTypes', BoxTypes', LogTypes', TxTypes' PROVE TypeOK'
  BY <1>u, Zenon DEF TypeOK, EmailTypes, BoxTypes, LogTypes, TxTypes
<1>0. boxes \subseteq Nat /\ emails \subseteq Nat /\ emails \subseteq EmailIds /\ modseq \in Nat
  BY <1>t DEF EmailTypes, BoxIds, EmailIds
<1>1. CASE Ingests
  <2>1. PICK bs \in SUBSET boxes, t \in ThreadIds, isSeen \in BOOLEAN : Ingest(bs, t, isSeen)
    BY <1>1 DEF Ingests
  <2> DEFINE n == modseq + 1
             e == lastEmail + 1
  <2>2. /\ op = "none" /\ e <= MaxEmails /\ n <= MaxModseq
        /\ t \in ThreadFor
        /\ modseq' = n /\ lastEmail' = e
        /\ emails' = emails \union {e}
        /\ threadOf' = [threadOf EXCEPT ![e] = t]
        /\ threads' = threads \union {t}
        /\ lastThread' = IF t \in threads THEN lastThread ELSE t
        /\ seen' \subseteq seen \union {e}
        /\ used' = used + 1
        /\ Rehome(e, bs, n)
        /\ top' = Raised(bs, n)
        /\ log' = Recorded({<<n, "Mailbox", b, "updated">> : b \in bs} \union
          {<<n, "Email", e, "created">>,
           <<n, "Thread", t, IF t \in threads THEN "updated" ELSE "created">>})
        /\ UNCHANGED <<boxes, lastBox, txVars>>
    BY <2>1 DEF Ingest
  <2>3. n \in Nat /\ e \in EmailIds /\ modseq <= n /\ t \in Nat /\ t \in ThreadIds
    BY <2>2 DEF TypeOK, EmailIds, ThreadIds
  <2>4. HomeTypes
    BY <2>2, <2>3, RehomeHomes
  <2>5. top' \in [BoxIds -> Nat]
    BY <2>2, <2>3, RaisedTops
  <2>6. log' \subseteq Nat \X Kinds \X Nat \X Changes
    <3>1. {<<n, "Mailbox", b, "updated">> : b \in bs} \union
          {<<n, "Email", e, "created">>,
           <<n, "Thread", t, IF t \in threads THEN "updated" ELSE "created">>}
          \in SUBSET (Nat \X Kinds \X Nat \X Changes)
      BY <1>0, <2>3 DEF Kinds, Changes, EmailIds
    <3> QED BY <2>2, <3>1, RecordedRows
  <2>7. \A f \in emails : f # e
    BY DEF Shape, TypeOK
  <2>8. t \in 1 .. lastThread' /\ lastThread' \in 0 .. MaxThreads /\ lastThread <= lastThread'
    BY <2>2, <2>3 DEF ThreadFor, ThreadIds, Shape, TypeOK
  <2>9. TypeOK'
    <3>1. EmailTypes'
      <4>1. modseq' \in 1 .. MaxModseq /\ used' \in Nat
        BY <1>t, <2>2 DEF EmailTypes
      <4>2. emails' \subseteq EmailIds /\ threads' \subseteq ThreadIds /\ boxes' \subseteq BoxIds
        BY <1>t, <2>2, <2>3 DEF EmailTypes
      <4>3. seen' \subseteq emails'
        BY <1>t, <2>2 DEF EmailTypes
      <4>4. threadOf' \in [EmailIds -> ThreadIds \union {0}]
        BY <1>t, <2>2, <2>3 DEF EmailTypes
      <4> QED BY <4>1, <4>2, <4>3, <4>4 DEF EmailTypes
    <3>2. BoxTypes' /\ LogTypes'
      BY <2>4, <2>5, <2>6 DEF BoxTypes, LogTypes, HomeTypes
    <3>3. TxTypes'
      BY <1>t, <2>2, <2>3, <2>8 DEF TxTypes, EmailIds
    <3> QED BY <1>u, <3>1, <3>2, <3>3
  <2>10. Shape'
    <3>1. \A f \in emails' : threadOf'[f] \in threads'
      BY <1>t, <2>2, <2>3, <2>7 DEF EmailTypes, Shape
    <3>2. emails' \subseteq 1 .. lastEmail'
      <4>1. lastEmail \in Nat /\ emails \subseteq 1 .. lastEmail
        BY <1>t DEF TxTypes, Shape
      <4>2. emails' = emails \union {lastEmail + 1} /\ lastEmail' = lastEmail + 1
        BY <2>2
      <4> QED BY <4>1, <4>2
    <3>3. threads' \subseteq 1 .. lastThread'
      BY <1>t, <2>2, <2>8 DEF TxTypes, Shape
    <3> QED BY <2>2, <3>1, <3>2, <3>3 DEF Shape
  <2> QED BY <2>9, <2>10
<1>2. CASE Begins
  <2>1. /\ UNCHANGED <<emailVars, boxVars, modseq, log, idVars, batch>>
        /\ op = "none" /\ room' = BatchLimit
        /\ \/ op' \in {"update", "destroy"} /\ box' = 0 /\ todo' = {}
           \/ op' = "takeout" /\ box' \in boxes /\ todo' \subseteq emails
    BY <1>2 DEF Begins, Opens
  <2>2. EmailTypes' /\ BoxTypes' /\ LogTypes'
    BY <1>t, <2>1 DEF EmailTypes, BoxTypes, LogTypes
  <2>3. TxTypes'
    BY <1>t, <2>1 DEF TxTypes
  <2> QED BY <1>u, <2>1, <2>2, <2>3 DEF Shape
<1>3. ASSUME NEW e \in emails, NEW bs \in SUBSET boxes, Updates(e, bs) PROVE TypeOK' /\ Shape'
  <2> DEFINE n == BatchModseq
  <2>1. /\ TakeModseq /\ batch' = n /\ Rehome(e, bs, n)
        /\ seen' \in {seen \union {e}, seen \ {e}}
        /\ top' = Raised(BoxesOf(e) \union bs, n)
        /\ todo' = todo \ {e}
        /\ room' \in 0 .. BatchLimit
        /\ UNCHANGED <<emails, threadOf, threads, used, boxes, idVars, op, box>>
        /\ op \in {"update", "takeout"}
    BY <1>3 DEF Updates, UpdateEffect
  <2>2. modseq' = n /\ n \in 1 .. MaxModseq /\ n \in Nat /\ modseq <= n
    <3>1. modseq' = n /\ n \in 1 .. MaxModseq /\ n \in {modseq, modseq + 1}
      BY <2>1, TakenModseq
    <3> HIDE DEF n
    <3> QED BY <1>0, <3>1
  <2>3. HomeTypes /\ top' \in [BoxIds -> Nat]
    BY <1>0, <2>1, <2>2, RehomeHomes, RaisedTops
  <2>4. log' \subseteq Nat \X Kinds \X Nat \X Changes
    <3>1. PICK touched \in SUBSET boxes :
            log' = Recorded({<<n, "Email", e, "updated">>} \union
                {<<n, "Mailbox", b, "updated">> : b \in touched})
      BY <1>3 DEF Updates, UpdateEffect
    <3> HIDE DEF n
    <3>2. {<<n, "Email", e, "updated">>} \union {<<n, "Mailbox", b, "updated">> : b \in touched}
            \in SUBSET (Nat \X Kinds \X Nat \X Changes)
      BY <1>0, <2>2 DEF Kinds, Changes
    <3> QED BY <3>1, <3>2, RecordedRows
  <2> HIDE DEF n
  <2>5. TypeOK'
    <3>1. EmailTypes' /\ TxTypes'
      BY <1>t, <2>1, <2>2 DEF EmailTypes, TxTypes
    <3>2. BoxTypes' /\ LogTypes'
      BY <2>3, <2>4 DEF BoxTypes, LogTypes, HomeTypes
    <3> QED BY <1>u, <3>1, <3>2
  <2>6. Shape'
    BY <2>1, <2>2 DEF Shape, TypeOK
  <2> QED BY <2>5, <2>6
<1>4. ASSUME NEW e \in emails, Destroys(e) PROVE TypeOK' /\ Shape'
  <2> DEFINE n == BatchModseq
             t == threadOf[e]
             last == ~\E f \in emails \ {e} : threadOf[f] = t
  <2>1. /\ TakeModseq /\ batch' = n /\ Rehome(e, {}, n)
        /\ emails' = emails \ {e}
        /\ seen' = seen \ {e}
        /\ used' = IF used > 0 THEN used - 1 ELSE 0
        /\ threads' = IF last THEN threads \ {t} ELSE threads
        /\ top' = Raised(BoxesOf(e), n)
        /\ log' = Recorded(DestroyedRows(e, n, last))
        /\ todo' = todo \ {e}
        /\ room' \in 0 .. BatchLimit
        /\ UNCHANGED <<threadOf, boxes, idVars, op, box>>
        /\ op \in {"destroy", "takeout", "emptying"}
    BY <1>4 DEF Destroys, DestroyOne
  <2>2. modseq' = n /\ n \in 1 .. MaxModseq /\ n \in Nat /\ modseq <= n
    <3>1. modseq' = n /\ n \in 1 .. MaxModseq /\ n \in {modseq, modseq + 1}
      BY <2>1, TakenModseq
    <3> HIDE DEF n
    <3> QED BY <1>0, <3>1
  <2>3. HomeTypes /\ top' \in [BoxIds -> Nat]
    <3>1. {} \in SUBSET boxes
      OBVIOUS
    <3> QED BY <1>0, <2>1, <2>2, <3>1, RehomeHomes, RaisedTops
  <2>4. t \in Nat
    BY <1>0 DEF TypeOK, ThreadIds
  <2>5. log' \subseteq Nat \X Kinds \X Nat \X Changes
    <3>1. DestroyedRows(e, n, last) \in SUBSET (Nat \X Kinds \X Nat \X Changes)
      <4> HIDE DEF n, last, t
      <4>1. /\ (IF last THEN "destroyed" ELSE "updated") \in Changes /\ "destroyed" \in Changes
            /\ "updated" \in Changes /\ "Email" \in Kinds /\ "Thread" \in Kinds /\ "Mailbox" \in Kinds
        BY DEF Changes, Kinds
      <4>2. e \in Nat /\ BoxesOf(e) \subseteq Nat
        BY <1>0 DEF BoxesOf
      <4>3. DestroyedRows(e, n, last) =
              {<<n, "Email", e, "destroyed">>, <<n, "Thread", t, IF last THEN "destroyed" ELSE "updated">>} \union
                {<<n, "Mailbox", b, "updated">> : b \in BoxesOf(e)}
        BY DEF DestroyedRows, t
      <4> QED BY <2>2, <2>4, <4>1, <4>2, <4>3
    <3> QED BY <2>1, <3>1, RecordedRows
  <2>6. \A f \in emails' : threadOf[f] \in threads'
    BY <2>1 DEF Shape
  <2>7. threads' \subseteq threads
    BY <2>1
  <2>8. used' \in Nat
    BY <2>1 DEF TypeOK
  <2>9. op = "emptying" => n = modseq
    BY DEF Shape, BatchModseq, TypeOK
  <2> HIDE DEF n, t, last
  <2>10. TypeOK'
    <3>1. EmailTypes' /\ TxTypes'
      BY <1>t, <2>1, <2>2, <2>7, <2>8 DEF EmailTypes, TxTypes
    <3>2. BoxTypes' /\ LogTypes'
      BY <2>3, <2>5 DEF BoxTypes, LogTypes, HomeTypes
    <3> QED BY <1>u, <3>1, <3>2
  <2>11. Shape'
    BY <2>1, <2>2, <2>6, <2>7, <2>9 DEF Shape, TypeOK
  <2> QED BY <2>10, <2>11
<1>5. ASSUME NEW e \in emails, Leaves(e) PROVE TypeOK' /\ Shape'
  <2>1. /\ UNCHANGED <<emailVars, boxes, modseq, batch, idVars, op, room, box>>
        /\ todo' = todo \ {e} /\ op = "emptying"
    BY <1>5 DEF Leaves
  <2>2. HomeTypes
    BY <1>5, LeavesHomes
  <2>3. top' \in [BoxIds -> Nat] /\ batch \in Nat
    <3>1. batch = modseq /\ batch \in Nat /\ modseq <= batch
      BY <1>t, <2>1 DEF Shape, EmailTypes
    <3> QED BY <1>5, <3>1, RaisedTops DEF Leaves
  <2>4. log' \subseteq Nat \X Kinds \X Nat \X Changes
    <3>1. {<<batch, "Email", e, "updated">>} \in SUBSET (Nat \X Kinds \X Nat \X Changes)
      BY <1>0, <2>3 DEF Kinds, Changes
    <3> QED BY <1>5, <3>1, RecordedRows DEF Leaves
  <2>5. TypeOK'
    <3>1. EmailTypes' /\ TxTypes'
      BY <1>t, <2>1 DEF EmailTypes, TxTypes
    <3>2. BoxTypes' /\ LogTypes'
      BY <1>5, <2>2, <2>3, <2>4 DEF BoxTypes, LogTypes, HomeTypes
    <3> QED BY <1>u, <3>1, <3>2
  <2> QED BY <2>1, <2>5 DEF Shape
<1>6. CASE Commit
  BY <1>6 DEF Commit, Closes, TypeOK, Shape
<1>7. CASE CreateMailbox
  <2>1. lastBox + 1 \in BoxIds /\ lastBox + 1 \in Nat /\ modseq + 1 \in Nat
    BY <1>7 DEF CreateMailbox, TypeOK, BoxIds
  <2>2. log' \subseteq Nat \X Kinds \X Nat \X Changes
    <3>1. {<<modseq + 1, "Mailbox", lastBox + 1, "created">>} \in SUBSET (Nat \X Kinds \X Nat \X Changes)
      BY <2>1 DEF Kinds, Changes
    <3> QED BY <1>7, <3>1, RecordedRows DEF CreateMailbox
  <2>3. /\ modseq' = modseq + 1 /\ modseq + 1 <= MaxModseq /\ lastBox' = lastBox + 1
        /\ boxes' = boxes \union {lastBox + 1} /\ top' = [top EXCEPT ![lastBox + 1] = modseq + 1]
        /\ UNCHANGED <<emailVars, uidNext, uid, itemSeq, vanished, lastEmail, lastThread, txVars>>
        /\ op = "none"
    BY <1>7 DEF CreateMailbox
  <2>4. EmailTypes' /\ TxTypes'
    BY <1>t, <2>1, <2>3 DEF EmailTypes, TxTypes, BoxIds
  <2>5. BoxTypes' /\ LogTypes'
    BY <1>t, <2>1, <2>2, <2>3 DEF BoxTypes, LogTypes
  <2>6. Shape'
    BY <1>t, <2>1, <2>3 DEF Shape, TxTypes
  <2> QED BY <1>u, <2>4, <2>5, <2>6
<1>8. ASSUME NEW b \in boxes, UpdateMailbox(b) PROVE TypeOK' /\ Shape'
  <2>1. log' \subseteq Nat \X Kinds \X Nat \X Changes
    <3>1. {<<modseq + 1, "Mailbox", b, "updated">>} \in SUBSET (Nat \X Kinds \X Nat \X Changes)
      BY <1>0 DEF Kinds, Changes
    <3> QED BY <1>8, <3>1, RecordedRows DEF UpdateMailbox
  <2>2. /\ modseq' = modseq + 1 /\ modseq + 1 <= MaxModseq /\ top' = [top EXCEPT ![b] = modseq + 1]
        /\ UNCHANGED <<emailVars, boxes, uidNext, uid, itemSeq, vanished, idVars, txVars>>
        /\ op = "none"
    BY <1>8 DEF UpdateMailbox
  <2>3. EmailTypes' /\ TxTypes'
    BY <1>t, <2>2 DEF EmailTypes, TxTypes
  <2>4. BoxTypes' /\ LogTypes'
    BY <1>t, <2>1, <2>2 DEF BoxTypes, EmailTypes, LogTypes
  <2> QED BY <1>u, <2>2, <2>3, <2>4 DEF Shape
<1>9. ASSUME NEW b \in boxes, BeginDestroyMailbox(b) PROVE TypeOK' /\ Shape'
  <2>1. /\ op = "none" /\ modseq < MaxModseq /\ modseq' = modseq + 1 /\ batch' = modseq + 1
        /\ op' = "emptying" /\ box' = b /\ todo' \subseteq emails
        /\ UNCHANGED <<emailVars, boxVars, log, idVars, room>>
    BY <1>9 DEF BeginDestroyMailbox, EmailsIn
  <2>2. EmailTypes' /\ TxTypes'
    BY <1>t, <2>1 DEF EmailTypes, TxTypes
  <2>3. BoxTypes' /\ LogTypes'
    BY <1>t, <2>1 DEF BoxTypes, LogTypes
  <2> QED BY <1>u, <2>1, <2>2, <2>3 DEF Shape
<1>10. CASE DropMailbox
  <2>1. log' \subseteq Nat \X Kinds \X Nat \X Changes
    <3>1. DroppedRows \in SUBSET (Nat \X Kinds \X Nat \X Changes)
      BY <1>0, <1>10 DEF DropMailbox, DroppedRows, Kinds, Changes, TypeOK, Shape
    <3> QED BY <1>10, <3>1, RecordedRows DEF DropMailbox
  <2>2. box \in BoxIds
    BY <1>10 DEF DropMailbox, Shape, TypeOK
  <2>3. [u \in 1 .. MaxUid |-> 0] \in [1 .. MaxUid -> Nat]
    OBVIOUS
  <2>4. /\ boxes' = boxes \ {box} /\ top' = [top EXCEPT ![box] = 0]
        /\ uidNext' = [uidNext EXCEPT ![box] = 1]
        /\ vanished' = [vanished EXCEPT ![box] = [u \in 1 .. MaxUid |-> 0]]
        /\ op' = "none" /\ batch' = 0 /\ room' = 0 /\ todo' = {} /\ box' = 0
        /\ UNCHANGED <<emailVars, uid, itemSeq, modseq, idVars>>
    BY <1>10 DEF DropMailbox, Closes
  <2>5. EmailTypes' /\ TxTypes'
    BY <1>t, <2>4 DEF EmailTypes, TxTypes
  <2>6. BoxTypes' /\ LogTypes'
    BY <1>t, <2>1, <2>2, <2>3, <2>4 DEF BoxTypes, LogTypes
  <2> QED BY <1>u, <2>4, <2>5, <2>6 DEF Shape
<1>11. CASE UNCHANGED storeVars
  BY <1>11 DEF storeVars, TypeOK, Shape
<1> QED
  BY <1>1, <1>2, <1>3, <1>4, <1>5, <1>6, <1>7, <1>8, <1>9, <1>10, <1>11, NextCases

-----------------------------------------------------------------------------
(* UIDs and modseqs.                                                       *)

\* What the steps that change one email's memberships do, each with the modseq it
\* works at and the mailboxes it raises.
LEMMA UpdatesFrame ==
  ASSUME TypeOK, Shape, Uids, Tops, NEW e \in emails, NEW bs \in SUBSET boxes, Updates(e, bs)
  PROVE  /\ modseq' = BatchModseq /\ BatchModseq \in Nat /\ BatchModseq >= 1
         /\ BatchModseq \in {modseq, modseq + 1} /\ batch' = BatchModseq
         /\ Homed(e, bs, BatchModseq)
         /\ \A b \in bs : itemSeq'[b][e] = BatchModseq
         /\ \A b \in BoxIds : top'[b] = IF b \in BoxesOf(e) \union bs THEN BatchModseq ELSE top[b]
         /\ UNCHANGED <<emails, threadOf, threads, boxes, idVars, op, box>>
         /\ todo' = todo \ {e}
<1> DEFINE n == BatchModseq
<1>1. /\ TakeModseq /\ batch' = n /\ Rehome(e, bs, n)
      /\ top' = Raised(BoxesOf(e) \union bs, n)
      /\ todo' = todo \ {e}
      /\ UNCHANGED <<emails, threadOf, threads, boxes, idVars, op, box>>
  BY DEF Updates, UpdateEffect
<1>2. modseq' = n /\ n \in Nat /\ n >= 1 /\ modseq <= n /\ n \in {modseq, modseq + 1} /\ e \in EmailIds
  <2>1. modseq' = n /\ n \in 1 .. MaxModseq /\ n \in {modseq, modseq + 1}
    BY <1>1, TakenModseq
  <2>2. modseq \in Nat /\ emails \subseteq EmailIds
    BY TypeParts DEF EmailTypes
  <2> HIDE DEF n
  <2> QED BY <2>1, <2>2, CountsAssumption
<1>3. Homed(e, bs, n) /\ \A b \in bs : itemSeq'[b][e] = n
  BY <1>1, <1>2, RehomeHomes
<1>4. \A b \in BoxIds : top'[b] = IF b \in BoxesOf(e) \union bs THEN n ELSE top[b]
  BY <1>1, <1>2, RaisedTops
<1> QED BY <1>1, <1>2, <1>3, <1>4

\* The same for an email that is destroyed.
LEMMA DestroysFrame ==
  ASSUME TypeOK, Shape, Uids, Tops, NEW e \in emails, Destroys(e)
  PROVE  /\ modseq' = BatchModseq /\ BatchModseq \in Nat /\ BatchModseq >= 1
         /\ BatchModseq \in {modseq, modseq + 1} /\ batch' = BatchModseq
         /\ Homed(e, {}, BatchModseq)
         /\ \A b \in BoxIds : top'[b] = IF b \in BoxesOf(e) THEN BatchModseq ELSE top[b]
         /\ UNCHANGED <<threadOf, boxes, idVars, op, box>>
         /\ emails' = emails \ {e} /\ todo' = todo \ {e} /\ seen' = seen \ {e}
<1> DEFINE n == BatchModseq
<1>1. /\ TakeModseq /\ batch' = n /\ Rehome(e, {}, n)
      /\ top' = Raised(BoxesOf(e), n)
      /\ emails' = emails \ {e} /\ todo' = todo \ {e} /\ seen' = seen \ {e}
      /\ UNCHANGED <<threadOf, boxes, idVars, op, box>>
  BY DEF Destroys, DestroyOne
<1>2. modseq' = n /\ n \in Nat /\ n >= 1 /\ modseq <= n /\ n \in {modseq, modseq + 1} /\ e \in EmailIds
  <2>1. modseq' = n /\ n \in 1 .. MaxModseq /\ n \in {modseq, modseq + 1}
    BY <1>1, TakenModseq
  <2>2. modseq \in Nat /\ emails \subseteq EmailIds
    BY DEF TypeOK
  <2> HIDE DEF n
  <2> QED BY <2>1, <2>2, CountsAssumption
<1>3. Homed(e, {}, n)
  <2>1. {} \in SUBSET boxes
    OBVIOUS
  <2> QED BY <1>1, <1>2, <2>1, RehomeHomes
<1>4. \A b \in BoxIds : top'[b] = IF b \in BoxesOf(e) THEN n ELSE top[b]
  BY <1>1, <1>2, RaisedTops
<1> QED BY <1>1, <1>2, <1>3, <1>4

\* The same for a new email.
LEMMA IngestFrame ==
  ASSUME TypeOK, Shape, Uids, Tops,
         NEW bs \in SUBSET boxes, NEW t \in ThreadIds, NEW isSeen \in BOOLEAN, Ingest(bs, t, isSeen)
  PROVE  /\ modseq' = modseq + 1 /\ lastEmail + 1 \in EmailIds /\ lastEmail + 1 \notin emails
         /\ Homed(lastEmail + 1, bs, modseq + 1)
         /\ \A b \in bs : itemSeq'[b][lastEmail + 1] = modseq + 1
         /\ \A b \in BoxIds : top'[b] = IF b \in bs THEN modseq + 1 ELSE top[b]
         /\ UNCHANGED <<boxes, lastBox, txVars>>
         /\ emails' = emails \union {lastEmail + 1} /\ lastEmail' = lastEmail + 1
         /\ op = "none"
<1> USE CountsAssumption
<1> DEFINE n == modseq + 1
           e == lastEmail + 1
<1>1. /\ modseq' = n /\ e <= MaxEmails /\ op = "none" /\ Rehome(e, bs, n) /\ top' = Raised(bs, n)
      /\ emails' = emails \union {e} /\ lastEmail' = e
      /\ UNCHANGED <<boxes, lastBox, txVars>>
  BY DEF Ingest
<1>2. n \in Nat /\ modseq <= n /\ e \in EmailIds /\ e \notin emails
  BY <1>1 DEF TypeOK, Shape, EmailIds
<1>3. Homed(e, bs, n) /\ \A b \in bs : itemSeq'[b][e] = n
  BY <1>1, <1>2, RehomeHomes
<1>4. \A b \in BoxIds : top'[b] = IF b \in bs THEN n ELSE top[b]
  BY <1>1, <1>2, RaisedTops
<1> QED BY <1>1, <1>2, <1>3, <1>4

\* Changing one email's memberships keeps the UIDs apart.
LEMMA HomedUids ==
  ASSUME TypeOK, Uids, NEW e \in EmailIds, NEW bs \in SUBSET boxes, NEW n \in Nat, Homed(e, bs, n),
         boxes' = boxes, emails \ {e} \subseteq emails', bs # {} => e \in emails'
  PROVE  Uids'
<1> USE CountsAssumption
<1>1. /\ boxes \subseteq BoxIds /\ uid \in [BoxIds -> [EmailIds -> Nat]]
      /\ uidNext \in [BoxIds -> Nat \ {0}] /\ MaxUid \in Nat
  BY DEF TypeOK
<1>2. \A b \in BoxIds : uidNext'[b] >= uidNext[b] /\ uidNext'[b] \in Nat /\ uidNext'[b] <= MaxUid + 1
  BY <1>1 DEF Homed, Uids
<1>3. ASSUME NEW b \in BoxIds, NEW f \in EmailIds, uid'[b][f] # 0
      PROVE  /\ b \in boxes' /\ f \in emails' /\ uid'[b][f] < uidNext'[b]
             /\ f # e => uid'[b][f] = uid[b][f]
             /\ f = e => b \in bs /\ (uid[b][e] # 0 => uid'[b][e] = uid[b][e])
             /\ f = e /\ uid[b][e] = 0 => uid'[b][e] = uidNext[b]
  BY <1>1, <1>2, <1>3 DEF Homed, Uids
<1>4. ASSUME NEW b \in BoxIds, NEW f \in EmailIds, NEW g \in EmailIds, uid'[b][f] # 0, uid'[b][f] = uid'[b][g]
      PROVE  f = g
  <2>1. \A h \in EmailIds : uid[b][h] < uidNext[b]
    BY <1>1 DEF Uids
  <2> QED BY <1>1, <1>3, <1>4, <2>1 DEF Uids
<1>5. ASSUME NEW b \in BoxIds, NEW u \in 1 .. MaxUid, vanished'[b][u] # 0
      PROVE  b \in boxes' /\ u < uidNext'[b] /\ \A f \in EmailIds : uid'[b][f] # u
  <2>1. CASE b \notin bs /\ uid[b][e] = u
    <3>1. b \in boxes /\ u < uidNext[b]
      BY <1>1, <2>1 DEF Uids
    <3>2. uid'[b][e] = 0
      BY <2>1 DEF Homed
    <3>3. \A f \in EmailIds \ {e} : uid'[b][f] = uid[b][f] /\ uid[b][f] # u
      BY <1>1, <2>1 DEF Homed, Uids
    <3> QED BY <1>1, <1>2, <3>1, <3>2, <3>3
  <2>2. CASE ~(b \notin bs /\ uid[b][e] = u)
    <3>1. vanished[b][u] # 0
      BY <1>5, <2>2 DEF Homed
    <3>2. b \in boxes /\ u < uidNext[b] /\ \A f \in EmailIds : uid[b][f] # u
      BY <3>1 DEF Uids
    <3>3. \A f \in EmailIds : uid'[b][f] \in {uid[b][f], uidNext[b], 0}
      BY DEF Homed
    <3> QED BY <1>1, <1>2, <3>2, <3>3
  <2> QED BY <2>1, <2>2
<1> QED BY <1>2, <1>3, <1>4, <1>5 DEF Uids

\* UIDs stay apart in every step.
LEMMA UidsStep ==
  TypeOK /\ Shape /\ Uids /\ Emptying /\ Tops /\ [Next]_storeVars => Uids'
<1> SUFFICES ASSUME TypeOK, Shape, Uids, Emptying, Tops, [Next]_storeVars PROVE Uids'
  OBVIOUS
<1> USE CountsAssumption
<1> USE DEF emailVars, boxVars, idVars, txVars
<1>0. emails \subseteq EmailIds /\ boxes \subseteq BoxIds
  BY DEF TypeOK
<1>1. CASE Ingests
  <2>1. PICK bs \in SUBSET boxes, t \in ThreadIds, isSeen \in BOOLEAN : Ingest(bs, t, isSeen)
    BY <1>1 DEF Ingests
  <2>2. modseq + 1 \in Nat
    BY DEF TypeOK
  <2> QED BY <2>1, <2>2, IngestFrame, HomedUids
<1>2. ASSUME NEW e \in emails, NEW bs \in SUBSET boxes, Updates(e, bs) PROVE Uids'
  BY <1>0, <1>2, UpdatesFrame, HomedUids
<1>3. ASSUME NEW e \in emails, Destroys(e) PROVE Uids'
  <2>1. {} \in SUBSET boxes
    OBVIOUS
  <2> QED BY <1>0, <1>3, <2>1, DestroysFrame, HomedUids
<1>4. ASSUME NEW e \in emails, Leaves(e) PROVE Uids'
  <2>1. BoxesOf(e) \ {box} \in SUBSET boxes /\ batch \in Nat /\ UNCHANGED <<boxes, emails>>
    BY <1>4 DEF BoxesOf, Leaves, TypeOK
  <2> QED BY <1>0, <1>4, <2>1, LeavesHomes, HomedUids
<1>5. CASE CreateMailbox
  <2>1. boxes \subseteq boxes' /\ UNCHANGED <<uid, uidNext, vanished, emails>>
    BY <1>5 DEF CreateMailbox
  <2> QED BY <2>1 DEF Uids
<1>6. CASE DropMailbox
  <2>1. box \in BoxIds /\ \A f \in EmailIds : uid[box][f] = 0
    BY <1>6 DEF DropMailbox, Emptying, Shape, TypeOK
  <2>2. /\ UNCHANGED <<uid, emails>> /\ boxes' = boxes \ {box}
        /\ uidNext'[box] = 1 /\ \A u \in 1 .. MaxUid : vanished'[box][u] = 0
        /\ \A b \in BoxIds \ {box} : uidNext'[b] = uidNext[b] /\ vanished'[b] = vanished[b]
    BY <1>6, <2>1 DEF DropMailbox, TypeOK
  <2> QED BY <1>0, <2>1, <2>2 DEF Uids
<1>7. CASE Begins \/ Commit \/ (\E b \in boxes : UpdateMailbox(b) \/ BeginDestroyMailbox(b)) \/ UNCHANGED storeVars
  <2>1. UNCHANGED <<boxes, uid, uidNext, vanished, emails>>
    BY <1>7 DEF Begins, Opens, Commit, UpdateMailbox, BeginDestroyMailbox, storeVars
  <2> QED BY <2>1 DEF Uids
<1> QED
  BY <1>1, <1>2, <1>3, <1>4, <1>5, <1>6, <1>7, NextCases

\* The transaction that destroys a mailbox takes every email out of it.
LEMMA EmptyingStep ==
  TypeOK /\ Shape /\ Uids /\ Emptying /\ Tops /\ [Next]_storeVars => Emptying'
<1> SUFFICES ASSUME TypeOK, Shape, Uids, Emptying, Tops, [Next]_storeVars, op' = "emptying" PROVE Emptying'
  BY DEF Emptying
<1> USE DEF emailVars, boxVars, idVars, txVars
<1>0. emails \subseteq EmailIds /\ boxes \subseteq BoxIds
  BY DEF TypeOK
<1>1. CASE Ingests
  BY <1>1 DEF Ingests, Ingest
<1>2. ASSUME NEW e \in emails, NEW bs \in SUBSET boxes, Updates(e, bs) PROVE Emptying'
  BY <1>2 DEF Updates
<1>3. ASSUME NEW e \in emails, Destroys(e) PROVE Emptying'
  <2>1. UNCHANGED <<op, box>> /\ todo' = todo \ {e} /\ Homed(e, {}, BatchModseq) /\ box \in BoxIds
    BY <1>0, <1>3, DestroysFrame DEF Shape
  <2> QED BY <1>0, <2>1 DEF Homed, Emptying
<1>4. ASSUME NEW e \in emails, Leaves(e) PROVE Emptying'
  <2>1. /\ UNCHANGED <<op, box>> /\ todo' = todo \ {e} /\ box \in BoxIds
        /\ Homed(e, BoxesOf(e) \ {box}, batch)
    BY <1>0, <1>4, LeavesHomes DEF Leaves, Shape
  <2> QED BY <1>0, <2>1 DEF Homed, Emptying
<1>5. ASSUME NEW b \in boxes, BeginDestroyMailbox(b) PROVE Emptying'
  <2>1. UNCHANGED uid /\ box' = b /\ todo' = EmailsIn(b)
    BY <1>5 DEF BeginDestroyMailbox
  <2> QED BY <1>0, <2>1 DEF Uids, Emptying, EmailsIn
<1>6. CASE Begins \/ Commit \/ CreateMailbox \/ DropMailbox \/ \E b \in boxes : UpdateMailbox(b)
  BY <1>6 DEF Begins, Opens, Commit, Closes, CreateMailbox, DropMailbox, UpdateMailbox
<1>7. CASE UNCHANGED storeVars
  BY <1>7 DEF storeVars, Emptying
<1> QED
  BY <1>1, <1>2, <1>3, <1>4, <1>5, <1>6, <1>7, NextCases

\* A change of email e's memberships to bs raises the mailboxes `raised` to its modseq n.
Raises(e, bs, n, raised) ==
  /\ n = modseq' /\ UNCHANGED <<op, box>>
  /\ \A b \in BoxIds : top'[b] = IF b \in raised THEN n ELSE top[b]
  /\ \A b \in bs : \/ b \in raised /\ itemSeq'[b][e] = n
                   \/ itemSeq'[b][e] = itemSeq[b][e] /\ uid[b][e] # 0
  /\ \A b \in BoxIds \ bs : uid[b][e] # 0 => b \in raised \/ (op = "emptying" /\ box = b)

\* Then every mailbox's modseq covers what changed in it.
LEMMA HomedTops ==
  ASSUME TypeOK, Uids, Tops, NEW e \in EmailIds, NEW bs \in SUBSET boxes, NEW n \in Nat, Homed(e, bs, n),
         n >= 1, modseq <= n, NEW raised \in SUBSET BoxIds, Raises(e, bs, n, raised)
  PROVE  Tops'
<1> USE CountsAssumption
<1>1. /\ boxes \subseteq BoxIds /\ uid \in [BoxIds -> [EmailIds -> Nat]]
      /\ top \in [BoxIds -> Nat] /\ itemSeq \in [BoxIds -> [EmailIds -> Nat]]
      /\ vanished \in [BoxIds -> [1 .. MaxUid -> Nat]] /\ modseq \in Nat
  BY TypeParts DEF EmailTypes, BoxTypes
<1> USE DEF Raises
<1>2. \A b \in BoxIds : top'[b] <= n /\ top[b] <= top'[b] /\ top'[b] \in Nat
  <2>1. \A b \in BoxIds : top[b] \in Nat /\ top[b] <= modseq
    BY <1>1 DEF Tops
  <2>2. \A b \in BoxIds : top[b] <= n
    BY <1>1, <2>1
  <2> QED BY <2>1, <2>2
<1>3. ASSUME NEW b \in BoxIds, NEW f \in EmailIds, uid'[b][f] # 0
      PROVE  itemSeq'[b][f] \in 1 .. top'[b]
  <2>1. CASE f # e
    <3>1. itemSeq'[b][f] = itemSeq[b][f] /\ uid[b][f] # 0
      BY <1>3, <2>1 DEF Homed
    <3>2. itemSeq[b][f] \in 1 .. top[b]
      BY <3>1 DEF Tops
    <3> QED BY <1>1, <1>2, <3>1, <3>2
  <2>2. CASE f = e
    <3>1. b \in bs
      BY <1>3, <2>2 DEF Homed
    <3>2. CASE b \in raised /\ itemSeq'[b][e] = n
      BY <2>2, <3>2
    <3>3. CASE itemSeq'[b][e] = itemSeq[b][e] /\ uid[b][e] # 0
      <4>1. itemSeq[b][e] \in 1 .. top[b]
        BY <3>3 DEF Tops
      <4> QED BY <1>1, <1>2, <2>2, <3>3, <4>1
    <3> QED BY <3>1, <3>2, <3>3
  <2> QED BY <2>1, <2>2
<1>4. ASSUME NEW b \in BoxIds, NEW u \in 1 .. MaxUid
      PROVE  vanished'[b][u] <= top'[b] \/ (op' = "emptying" /\ box' = b)
  <2>1. CASE b \notin bs /\ uid[b][e] = u
    <3>1. vanished'[b][u] = n
      BY <2>1 DEF Homed
    <3> QED BY <2>1, <3>1
  <2>2. CASE ~(b \notin bs /\ uid[b][e] = u)
    <3>1. vanished'[b][u] = vanished[b][u]
      BY <2>2 DEF Homed
    <3>2. vanished[b][u] <= top[b] \/ (op = "emptying" /\ box = b)
      BY DEF Tops
    <3>3. vanished[b][u] \in Nat /\ top[b] \in Nat
      BY <1>1
    <3> QED BY <1>2, <3>1, <3>2, <3>3
  <2> QED BY <2>1, <2>2
<1> QED BY <1>2, <1>3, <1>4 DEF Tops

\* record_change raises every mailbox whose memberships it changes.
LEMMA TopsStep ==
  TypeOK /\ Shape /\ Uids /\ Emptying /\ Tops /\ [Next]_storeVars => Tops'
<1> SUFFICES ASSUME TypeOK, Shape, Uids, Emptying, Tops, [Next]_storeVars PROVE Tops'
  OBVIOUS
<1> USE CountsAssumption
<1> USE DEF emailVars, boxVars, idVars, txVars
<1>0. /\ emails \subseteq EmailIds /\ boxes \subseteq BoxIds /\ modseq \in Nat /\ modseq >= 1
      /\ top \in [BoxIds -> Nat] /\ \A e \in EmailIds : BoxesOf(e) \in SUBSET BoxIds
      /\ \A b \in BoxIds, e \in EmailIds : b \in BoxesOf(e) <=> uid[b][e] # 0
  BY DEF TypeOK, BoxesOf, Uids
<1>1. CASE Ingests
  <2>1. PICK bs \in SUBSET boxes, t \in ThreadIds, isSeen \in BOOLEAN : Ingest(bs, t, isSeen)
    BY <1>1 DEF Ingests
  <2> DEFINE n == modseq + 1
             e == lastEmail + 1
  <2>2. /\ modseq' = n /\ e \in EmailIds /\ e \notin emails /\ Homed(e, bs, n)
        /\ \A b \in bs : itemSeq'[b][e] = n
        /\ \A b \in BoxIds : top'[b] = IF b \in bs THEN n ELSE top[b]
        /\ UNCHANGED <<op, box>>
    BY <2>1, IngestFrame
  <2>3. \A b \in BoxIds : uid[b][e] = 0
    BY <2>2 DEF Uids
  <2>4. n \in Nat /\ n >= 1 /\ modseq <= n /\ bs \in SUBSET BoxIds
    BY <1>0
  <2> HIDE DEF n, e
  <2>5. Raises(e, bs, n, bs)
    BY <2>2, <2>3 DEF Raises
  <2> QED BY <2>2, <2>4, <2>5, HomedTops
<1>2. ASSUME NEW e \in emails, NEW bs \in SUBSET boxes, Updates(e, bs) PROVE Tops'
  <2> DEFINE n == BatchModseq
             raised == BoxesOf(e) \union bs
  <2>1. /\ modseq' = n /\ n \in Nat /\ n >= 1 /\ n \in {modseq, modseq + 1} /\ Homed(e, bs, n)
        /\ \A b \in bs : itemSeq'[b][e] = n
        /\ \A b \in BoxIds : top'[b] = IF b \in raised THEN n ELSE top[b]
        /\ UNCHANGED <<op, box>>
    BY <1>2, UpdatesFrame
  <2>2. modseq <= n /\ raised \in SUBSET BoxIds /\ e \in EmailIds
    BY <1>0, <2>1
  <2>3. /\ \A b \in bs : b \in raised /\ itemSeq'[b][e] = n
        /\ \A b \in BoxIds \ bs : uid[b][e] # 0 => b \in raised
    BY <1>0, <2>1
  <2> HIDE DEF n, raised
  <2>4. Raises(e, bs, n, raised)
    BY <2>1, <2>3 DEF Raises
  <2> QED BY <2>1, <2>2, <2>4, HomedTops
<1>3. ASSUME NEW e \in emails, Destroys(e) PROVE Tops'
  <2> DEFINE n == BatchModseq
             raised == BoxesOf(e)
             bs == {}
  <2>1. /\ modseq' = n /\ n \in Nat /\ n >= 1 /\ n \in {modseq, modseq + 1} /\ Homed(e, bs, n)
        /\ \A b \in BoxIds : top'[b] = IF b \in raised THEN n ELSE top[b]
        /\ UNCHANGED <<op, box>>
    BY <1>3, DestroysFrame
  <2>2. modseq <= n /\ raised \in SUBSET BoxIds /\ e \in EmailIds
    BY <1>0, <2>1
  <2>3. /\ \A b \in BoxIds \ bs : uid[b][e] # 0 => b \in raised
        /\ \A b \in bs : b \in raised /\ itemSeq'[b][e] = n
        /\ bs \in SUBSET boxes
    BY <1>0
  <2> HIDE DEF n, raised, bs
  <2>4. Raises(e, bs, n, raised)
    BY <2>1, <2>3 DEF Raises
  <2> QED BY <2>1, <2>2, <2>3, <2>4, HomedTops
<1>4. ASSUME NEW e \in emails, Leaves(e) PROVE Tops'
  <2> DEFINE n == batch
             bs == BoxesOf(e) \ {box}
  <2>1. /\ modseq' = n /\ n \in Nat /\ n >= 1 /\ n = modseq /\ op = "emptying" /\ UNCHANGED <<op, box>>
        /\ top' = Raised(bs, n) /\ modseq <= n
    BY <1>0, <1>4 DEF Leaves, Shape
  <2>2. Homed(e, bs, n) /\ \A b \in bs : itemSeq'[b][e] = itemSeq[b][e]
    BY <1>4, LeavesHomes
  <2>3. /\ bs \in SUBSET BoxIds /\ bs \in SUBSET boxes /\ e \in EmailIds
        /\ \A b \in bs : uid[b][e] # 0
        /\ \A b \in BoxIds \ bs : uid[b][e] # 0 => box = b
    BY <1>0 DEF BoxesOf
  <2>4. \A b \in BoxIds : top'[b] = IF b \in bs THEN n ELSE top[b]
    BY <2>1, RaisedTops
  <2> HIDE DEF n, bs
  <2>5. Raises(e, bs, n, bs)
    BY <2>1, <2>2, <2>3, <2>4 DEF Raises
  <2> QED BY <2>1, <2>2, <2>3, <2>5, HomedTops
<1>5. CASE CreateMailbox
  <2>1. /\ lastBox + 1 \in BoxIds /\ modseq' = modseq + 1 /\ op = "none"
        /\ top' = [top EXCEPT ![lastBox + 1] = modseq + 1] /\ UNCHANGED <<uid, itemSeq, vanished, op, box>>
    BY <1>5 DEF CreateMailbox, TypeOK, BoxIds
  <2>2. \A b \in BoxIds : top'[b] \in Nat /\ top[b] <= top'[b] /\ top'[b] <= modseq'
    BY <1>0, <2>1 DEF Tops
  <2>3. \A b \in BoxIds, u \in 1 .. MaxUid : vanished[b][u] <= top'[b]
    <3>1. \A b \in BoxIds, u \in 1 .. MaxUid : vanished[b][u] \in Nat
      BY DEF TypeOK
    <3>2. \A b \in BoxIds, u \in 1 .. MaxUid : vanished[b][u] <= top[b]
      BY <2>1 DEF Tops
    <3> QED BY <1>0, <2>2, <3>1, <3>2
  <2> QED BY <1>0, <2>1, <2>2, <2>3 DEF Tops
<1>6. ASSUME NEW b \in boxes, UpdateMailbox(b) PROVE Tops'
  <2>1. /\ modseq' = modseq + 1 /\ op = "none"
        /\ top' = [top EXCEPT ![b] = modseq + 1] /\ UNCHANGED <<uid, itemSeq, vanished, op, box>>
    BY <1>6 DEF UpdateMailbox
  <2>2. \A c \in BoxIds : top'[c] \in Nat /\ top[c] <= top'[c] /\ top'[c] <= modseq'
    BY <1>0, <2>1 DEF Tops
  <2>3. \A c \in BoxIds, u \in 1 .. MaxUid : vanished[c][u] <= top'[c]
    <3>1. \A c \in BoxIds, u \in 1 .. MaxUid : vanished[c][u] \in Nat
      BY DEF TypeOK
    <3>2. \A c \in BoxIds, u \in 1 .. MaxUid : vanished[c][u] <= top[c]
      BY <2>1 DEF Tops
    <3> QED BY <1>0, <2>2, <3>1, <3>2
  <2> QED BY <1>0, <2>1, <2>2, <2>3 DEF Tops
<1>7. CASE DropMailbox
  <2>1. box \in BoxIds /\ \A f \in EmailIds : uid[box][f] = 0
    BY <1>7 DEF DropMailbox, Emptying, Shape, TypeOK
  <2>2. /\ UNCHANGED <<uid, itemSeq, modseq>>
        /\ top'[box] = 0 /\ \A u \in 1 .. MaxUid : vanished'[box][u] = 0
        /\ \A b \in BoxIds \ {box} : top'[b] = top[b] /\ vanished'[b] = vanished[b]
    BY <1>7, <2>1 DEF DropMailbox, TypeOK
  <2> QED BY <1>0, <2>1, <2>2 DEF Tops
<1>8. CASE Begins \/ Commit \/ (\E b \in boxes : BeginDestroyMailbox(b)) \/ UNCHANGED storeVars
  <2>1. UNCHANGED <<top, uid, itemSeq, vanished>> /\ modseq' \in {modseq, modseq + 1}
    BY <1>8 DEF Begins, Opens, Commit, BeginDestroyMailbox, storeVars
  <2>2. op = "emptying" => op' = "emptying" /\ box' = box
    BY <1>8 DEF Begins, Opens, Commit, BeginDestroyMailbox, storeVars
  <2> QED BY <1>0, <2>1, <2>2 DEF Tops
<1> QED
  BY <1>1, <1>2, <1>3, <1>4, <1>5, <1>6, <1>7, <1>8, NextCases

-----------------------------------------------------------------------------
(* The change log.                                                         *)

LogRows == Nat \X Kinds \X Nat \X Changes

\* The last word of the log L on an object.
LastWord(L, kind, id, n, c) ==
  <<n, kind, id, c>> \in L /\ \A m \in Nat, d \in Changes : <<m, kind, id, d>> \in L => m <= n

\* LastSaid, in terms of the columns.
LEMMA LastSaidWord ==
  ASSUME NEW L \in SUBSET LogRows, NEW kind \in Kinds, NEW id \in Nat, NEW n \in Nat, NEW c \in Changes
  PROVE  (<<n, kind, id, c>> \in L /\ \A row \in L : row[2] = kind /\ row[3] = id => row[1] <= n)
           <=> LastWord(L, kind, id, n, c)
<1>1. ASSUME NEW row \in L
      PROVE  row[1] \in Nat /\ row[4] \in Changes /\ row = <<row[1], row[2], row[3], row[4]>>
  BY <1>1 DEF LogRows
<1>2. ASSUME \A m \in Nat, d \in Changes : <<m, kind, id, d>> \in L => m <= n,
             NEW row \in L, row[2] = kind, row[3] = id
      PROVE  row[1] <= n
  BY <1>1, <1>2
<1>3. ASSUME \A row \in L : row[2] = kind /\ row[3] = id => row[1] <= n,
             NEW m \in Nat, NEW d \in Changes, <<m, kind, id, d>> \in L
      PROVE  m <= n
  <2>1. <<m, kind, id, d>>[2] = kind /\ <<m, kind, id, d>>[3] = id /\ <<m, kind, id, d>>[1] = m
    OBVIOUS
  <2> QED BY <1>3, <2>1
<1> QED BY <1>2, <1>3 DEF LastWord

\* INSERT OR IGNORE, in terms of the columns.
LEMMA RecordedWord ==
  ASSUME TypeOK, NEW rows \in SUBSET LogRows,
         NEW n \in Nat, NEW kind \in Kinds, NEW id \in Nat, NEW c \in Changes
  PROVE  <<n, kind, id, c>> \in Recorded(rows) <=>
           \/ <<n, kind, id, c>> \in log
           \/ <<n, kind, id, c>> \in rows /\ \A d \in Changes : <<n, kind, id, d>> \notin log
<1> DEFINE new == <<n, kind, id, c>>
<1>1. new[1] = n /\ new[2] = kind /\ new[3] = id
  OBVIOUS
<1>2. ASSUME NEW old \in log
      PROVE  old[4] \in Changes /\ old = <<old[1], old[2], old[3], old[4]>>
  BY <1>2, TypeParts DEF LogTypes
<1>3. (\E old \in log : <<old[1], old[2], old[3]>> = <<n, kind, id>>)
        <=> \E d \in Changes : <<n, kind, id, d>> \in log
  <2>1. ASSUME NEW old \in log, <<old[1], old[2], old[3]>> = <<n, kind, id>>
        PROVE  \E d \in Changes : <<n, kind, id, d>> \in log
    <3>1. old[1] = n /\ old[2] = kind /\ old[3] = id
      BY <2>1
    <3> QED BY <1>2, <3>1
  <2>2. ASSUME NEW d \in Changes, <<n, kind, id, d>> \in log
        PROVE  \E old \in log : <<old[1], old[2], old[3]>> = <<n, kind, id>>
    <3>1. <<n, kind, id, d>>[1] = n /\ <<n, kind, id, d>>[2] = kind /\ <<n, kind, id, d>>[3] = id
      OBVIOUS
    <3> QED BY <2>2, <3>1
  <2> QED BY <2>1, <2>2
<1> HIDE DEF new
<1>4. new \in Recorded(rows) <=>
        new \in log \/ (new \in rows /\ ~\E old \in log : <<old[1], old[2], old[3]>> = <<new[1], new[2], new[3]>>)
  BY DEF Recorded
<1> QED BY <1>1, <1>3, <1>4 DEF new

\* The log has nothing new on an object.
Same(kind, id) ==
  /\ LastDestroyed(kind, id)' <=> LastDestroyed(kind, id)
  /\ \A n \in Nat, c \in Changes :
       /\ <<n, kind, id, c>> \in log' <=> <<n, kind, id, c>> \in log
       /\ LastSaid(kind, id, n, c)' <=> LastSaid(kind, id, n, c)

\* The log has a new last word on it.
News(kind, id, n, c) ==
  /\ <<n, kind, id, c>> \in log'
  /\ LastSaid(kind, id, n, c)'
  /\ LastDestroyed(kind, id)' <=> c = "destroyed"

\* Where the rows of an object stay, so does the log's word on it.
LEMMA SameRows ==
  ASSUME TypeOK, TypeOK', OneWord, OneWord', modseq <= modseq', NEW kind \in Kinds, NEW id \in Nat,
         \A n \in Nat, c \in Changes : <<n, kind, id, c>> \in log' <=> <<n, kind, id, c>> \in log
  PROVE  Same(kind, id)
<1>1. log \in SUBSET LogRows /\ log' \in SUBSET LogRows /\ modseq \in Nat /\ modseq' \in Nat
  <2>1. log \in SUBSET LogRows /\ modseq \in Nat
    BY TypeParts DEF EmailTypes, LogTypes, LogRows
  <2>2. log' \in SUBSET LogRows /\ modseq' \in Nat
    <3>1. modseq' \in 1 .. MaxModseq /\ log' \subseteq Nat \X Kinds \X Nat \X Changes
      BY Zenon DEF TypeOK
    <3> QED BY <3>1 DEF LogRows
  <2> QED BY <2>1, <2>2
<1>2. ASSUME NEW n \in Nat, NEW c \in Changes
      PROVE  LastSaid(kind, id, n, c)' <=> LastSaid(kind, id, n, c)
  <2>1. LastSaid(kind, id, n, c) <=> LastWord(log, kind, id, n, c)
    BY <1>1, LastSaidWord DEF LastSaid
  <2>2. LastSaid(kind, id, n, c)' <=> LastWord(log', kind, id, n, c)
    BY <1>1, LastSaidWord DEF LastSaid
  <2> QED BY <2>1, <2>2 DEF LastWord
<1>3. LastDestroyed(kind, id)' <=> LastDestroyed(kind, id)
  <2>1. "destroyed" \in Changes
    BY DEF Changes
  <2>2. \A n \in Nat : LastSaid(kind, id, n, "destroyed") => n \in 1 .. modseq
    BY <2>1 DEF LastSaid, OneWord
  <2>3. \A n \in 1 .. modseq : n \in 1 .. modseq' /\ n \in Nat
    BY <1>1
  <2>4. LastDestroyed(kind, id) <=> \E n \in Nat : LastSaid(kind, id, n, "destroyed")
    BY <2>2, <2>3 DEF LastDestroyed
  <2>5. \A n \in Nat : LastSaid(kind, id, n, "destroyed")' => n \in 1 .. modseq'
    BY <2>1 DEF LastSaid, OneWord
  <2>6. LastDestroyed(kind, id)' <=> \E n \in Nat : LastSaid(kind, id, n, "destroyed")'
    BY <1>1, <2>5 DEF LastDestroyed
  <2> QED BY <1>2, <2>1, <2>4, <2>6
<1> QED BY <1>2, <1>3 DEF Same

\* What record_change does to the log when every row has the modseq of the change.
LEMMA LogStep ==
  ASSUME TypeOK, TypeOK', OneWord, NEW n \in Nat, NEW rows \in SUBSET LogRows, log' = Recorded(rows),
         modseq' = n, n \in {modseq, modseq + 1},
         \A m, id \in Nat, kind \in Kinds, c \in Changes : <<m, kind, id, c>> \in rows =>
           m = n /\ \A d \in Changes : <<m, kind, id, d>> \in rows => d = c
  PROVE  /\ OneWord' /\ log \subseteq log'
         /\ \A kind \in Kinds, id \in Nat :
              (\A c \in Changes : <<n, kind, id, c>> \notin rows) => Same(kind, id)
         /\ \A kind \in Kinds, id \in Nat, c \in Changes :
              <<n, kind, id, c>> \in log => Same(kind, id)
         /\ \A kind \in Kinds, id \in Nat, c \in Changes :
              <<n, kind, id, c>> \in rows /\ (\A d \in Changes : <<n, kind, id, d>> \notin log) =>
                News(kind, id, n, c)
<1>1. \A m, id \in Nat, kind \in Kinds, c \in Changes :
        <<m, kind, id, c>> \in log' <=>
           \/ <<m, kind, id, c>> \in log
           \/ <<m, kind, id, c>> \in rows /\ \A d \in Changes : <<m, kind, id, d>> \notin log
  <2> TAKE m, id \in Nat, kind \in Kinds, c \in Changes
  <2>1. <<m, kind, id, c>> \in Recorded(rows) <=>
           \/ <<m, kind, id, c>> \in log
           \/ <<m, kind, id, c>> \in rows /\ \A d \in Changes : <<m, kind, id, d>> \notin log
    BY RecordedWord
  <2> QED BY <2>1
<1>2. log \subseteq log'
  BY DEF Recorded
<1>3. modseq \in Nat /\ modseq >= 1 /\ n >= modseq /\ log' \in SUBSET LogRows
  <2>1. modseq \in 1 .. MaxModseq
    BY TypeParts DEF EmailTypes
  <2>2. log' \subseteq Nat \X Kinds \X Nat \X Changes
    BY Zenon DEF TypeOK
  <2> QED BY <2>1, <2>2 DEF LogRows
<1>4. OneWord'
  <2> SUFFICES ASSUME NEW m \in Nat, NEW id \in Nat, NEW kind \in Kinds, NEW c \in Changes,
                      <<m, kind, id, c>> \in log'
               PROVE  m \in 1 .. n /\ \A d \in Changes : <<m, kind, id, d>> \in log' => d = c
    BY DEF OneWord
  <2>1. CASE <<m, kind, id, c>> \in log
    <3>1. m \in 1 .. modseq /\ \A d \in Changes : <<m, kind, id, d>> \in log => d = c
      BY <2>1 DEF OneWord
    <3> QED BY <1>1, <1>3, <2>1, <3>1
  <2>2. CASE <<m, kind, id, c>> \notin log
    <3>1. <<m, kind, id, c>> \in rows /\ \A d \in Changes : <<m, kind, id, d>> \notin log
      BY <1>1, <2>2
    <3> QED BY <1>1, <1>3, <3>1
  <2> QED BY <2>1, <2>2
<1>5. ASSUME NEW kind \in Kinds, NEW id \in Nat, \A c \in Changes : <<n, kind, id, c>> \notin rows
      PROVE  Same(kind, id)
  <2>1. \A m \in Nat, c \in Changes : <<m, kind, id, c>> \in log' <=> <<m, kind, id, c>> \in log
    BY <1>1, <1>5
  <2> QED BY <1>3, <1>4, <2>1, SameRows
<1>6. ASSUME NEW kind \in Kinds, NEW id \in Nat, NEW c \in Changes, <<n, kind, id, c>> \in log
      PROVE  Same(kind, id)
  <2>1. \A m \in Nat, d \in Changes : <<m, kind, id, d>> \in log' <=> <<m, kind, id, d>> \in log
    BY <1>1, <1>6
  <2> QED BY <1>3, <1>4, <2>1, SameRows
<1>7. ASSUME NEW kind \in Kinds, NEW id \in Nat, NEW c \in Changes, <<n, kind, id, c>> \in rows,
             \A d \in Changes : <<n, kind, id, d>> \notin log
      PROVE  News(kind, id, n, c)
  <2>1. <<n, kind, id, c>> \in log' /\ \A d \in Changes : <<n, kind, id, d>> \in log' => d = c
    BY <1>1, <1>4, <1>7 DEF OneWord
  <2>2. \A m \in Nat, d \in Changes : <<m, kind, id, d>> \in log' => m <= n
    BY <1>4 DEF OneWord
  <2>3. LastSaid(kind, id, n, c)'
    <3>1. LastWord(log', kind, id, n, c)
      BY <2>1, <2>2 DEF LastWord
    <3> QED BY <1>3, <3>1, LastSaidWord DEF LastSaid
  <2>4. "destroyed" \in Changes /\ n \in 1 .. modseq'
    BY <1>3 DEF Changes
  <2>5. c = "destroyed" => LastDestroyed(kind, id)'
    BY <2>3, <2>4 DEF LastDestroyed
  <2>6. ASSUME LastDestroyed(kind, id)' PROVE c = "destroyed"
    <3>1. PICK m \in 1 .. modseq' : LastSaid(kind, id, m, "destroyed")'
      BY <2>6 DEF LastDestroyed
    <3>2. m \in Nat /\ LastWord(log', kind, id, m, "destroyed")
      BY <1>3, <2>4, <3>1, LastSaidWord DEF LastSaid
    <3>3. n <= m /\ m <= n
      BY <2>1, <2>2, <2>4, <3>2 DEF LastWord
    <3>4. m = n
      BY <3>2, <3>3
    <3> QED BY <2>1, <2>4, <3>2, <3>4 DEF LastWord
  <2> QED BY <2>1, <2>3, <2>5, <2>6 DEF News
<1> QED BY <1>2, <1>4, <1>5, <1>6, <1>7

\* What the log says of a thread stays true while neither changes.
LEMMA ThreadKept ==
  ASSUME TypeOK, TypeOK', log \subseteq log', lastEmail <= lastEmail', modseq <= modseq',
         \A e \in 1 .. lastEmail : threadOf'[e] = threadOf[e],
         NEW t \in Nat, Same("Thread", t), ThreadTold(t), t \in threads' <=> t \in threads
  PROVE  ThreadTold(t)'
<1>1. /\ lastEmail \in Nat /\ lastEmail' \in Nat /\ modseq \in Nat /\ modseq' \in Nat
  <2>1. lastEmail \in Nat /\ modseq \in Nat
    BY CountsAssumption DEF TypeOK
  <2>2. lastEmail' \in Nat /\ modseq' \in Nat
    BY CountsAssumption DEF TypeOK
  <2> QED BY <2>1, <2>2
<1>2. CASE LastDestroyed("Thread", t) <=> t \notin threads
  BY <1>2 DEF Same, ThreadTold
<1>3. CASE /\ t \notin threads
           /\ \E n \in 1 .. modseq : LastSaid("Thread", t, n, "updated") /\ TwoDestroyed(t, n)
  <2>1. PICK n \in 1 .. modseq : LastSaid("Thread", t, n, "updated") /\ TwoDestroyed(t, n)
    BY <1>3
  <2>2. n \in 1 .. modseq' /\ n \in Nat
    BY <1>1
  <2>3. LastSaid("Thread", t, n, "updated")'
    BY <2>1, <2>2 DEF Same, Changes
  <2>4. TwoDestroyed(t, n)'
    <3>1. \A e \in 1 .. lastEmail : e \in 1 .. lastEmail'
      BY <1>1
    <3> QED BY <2>1, <3>1 DEF TwoDestroyed
  <2> QED BY <1>3, <2>2, <2>3, <2>4 DEF ThreadTold
<1> QED BY <1>2, <1>3 DEF ThreadTold

\* The same for a mailbox.
LEMMA BoxKept ==
  ASSUME TypeOK, TypeOK', log \subseteq log', lastEmail <= lastEmail', modseq <= modseq',
         NEW b \in Nat, Same("Mailbox", b), BoxTold(b), b \in boxes' <=> b \in boxes
  PROVE  BoxTold(b)'
<1>1. /\ lastEmail \in Nat /\ lastEmail' \in Nat /\ modseq \in Nat /\ modseq' \in Nat
  <2>1. lastEmail \in Nat /\ modseq \in Nat
    BY CountsAssumption DEF TypeOK
  <2>2. lastEmail' \in Nat /\ modseq' \in Nat
    BY CountsAssumption DEF TypeOK
  <2> QED BY <2>1, <2>2
<1>2. CASE LastDestroyed("Mailbox", b) <=> b \notin boxes
  BY <1>2 DEF Same, BoxTold
<1>3. CASE /\ b \notin boxes
           /\ \E n \in 1 .. modseq : LastSaid("Mailbox", b, n, "updated") /\ DestroyedAt(n) # {}
  <2>1. PICK n \in 1 .. modseq : LastSaid("Mailbox", b, n, "updated") /\ DestroyedAt(n) # {}
    BY <1>3
  <2>2. n \in 1 .. modseq' /\ n \in Nat
    BY <1>1
  <2>3. LastSaid("Mailbox", b, n, "updated")'
    BY <2>1, <2>2 DEF Same, Changes
  <2>4. (DestroyedAt(n) # {})'
    <3>1. \A e \in 1 .. lastEmail : e \in 1 .. lastEmail'
      BY <1>1
    <3> QED BY <2>1, <3>1 DEF DestroyedAt
  <2> QED BY <1>3, <2>2, <2>3, <2>4 DEF BoxTold
<1> QED BY <1>2, <1>3 DEF BoxTold

\* What the log says, and what an open batch has said so far.
LogInv ==
  OneWord /\ EmailsTold /\ EmailTurns /\ ThreadsTold /\ ThreadTurns /\ BoxesTold /\ BoxTurns

\* A batch finds only its own rows at its modseq.
LEMMA BatchRows ==
  ASSUME TypeOK, Shape, OneWord, NEW kind \in Kinds, NEW id \in Nat, NEW c \in Changes,
         <<BatchModseq, kind, id, c>> \in log
  PROVE  BatchModseq = batch /\ batch = modseq
<1>1. BatchModseq \in Nat /\ modseq \in Nat /\ batch \in {0, modseq}
  BY DEF TypeOK, Shape, BatchModseq
<1>2. BatchModseq \in 1 .. modseq
  BY <1>1 DEF OneWord
<1> QED BY <1>1, <1>2 DEF BatchModseq

\* A new email, its thread and its mailboxes are in the log.
LEMMA IngestLog ==
  ASSUME TypeOK, TypeOK', Shape, Uids, Tops, LogInv,
         NEW bs \in SUBSET boxes, NEW t \in ThreadIds, NEW isSeen \in BOOLEAN, Ingest(bs, t, isSeen)
  PROVE  LogInv'
<1> USE CountsAssumption
<1>0. modseq + 1 \in Nat /\ lastEmail + 1 \in Nat
      /\ (IF t \in threads THEN "updated" ELSE "created") \in {"updated", "created"}
  BY DEF TypeOK
<1>a. PICK n \in Nat : n = modseq + 1
  BY <1>0
<1>b. PICK e \in Nat : e = lastEmail + 1
  BY <1>0
<1>c. PICK said \in {"updated", "created"} : said = IF t \in threads THEN "updated" ELSE "created"
  BY <1>0
<1> DEFINE rows == {<<n, "Mailbox", b, "updated">> : b \in bs} \union
                     {<<n, "Email", e, "created">>, <<n, "Thread", t, said>>}
<1>1. /\ modseq' = n /\ op = "none" /\ op' = "none"
      /\ emails' = emails \union {e} /\ lastEmail' = e /\ threads' = threads \union {t}
      /\ lastThread' = IF t \in threads THEN lastThread ELSE t
      /\ threadOf' = [threadOf EXCEPT ![e] = t] /\ boxes' = boxes /\ lastBox' = lastBox
      /\ t \in ThreadFor /\ log' = Recorded(rows)
  BY <1>a, <1>b, <1>c DEF Ingest, txVars
<1>2. /\ modseq \in Nat /\ n \in Nat /\ e \in Nat /\ t \in Nat /\ lastEmail \in Nat /\ lastThread \in Nat
      /\ lastBox \in Nat /\ boxes \subseteq Nat /\ bs \subseteq boxes
      /\ threadOf \in [EmailIds -> ThreadIds \union {0}]
      /\ modseq <= modseq' /\ lastEmail <= lastEmail' /\ said \in Changes
  BY <1>a, <1>b, <1>c, <1>1 DEF TypeOK, ThreadIds, BoxIds, Changes
<1>3. /\ rows \in SUBSET LogRows
      /\ \A m, id \in Nat, kind \in Kinds, c \in Changes : <<m, kind, id, c>> \in rows <=>
           /\ m = n
           /\ \/ kind = "Mailbox" /\ id \in bs /\ c = "updated"
              \/ kind = "Email" /\ id = e /\ c = "created"
              \/ kind = "Thread" /\ id = t /\ c = said
  BY <1>2 DEF LogRows, Kinds, Changes
<1> HIDE DEF rows
<1>4. OneWord
  BY DEF LogInv
<1>5. \A m, id \in Nat, kind \in Kinds, c \in Changes : <<m, kind, id, c>> \in rows =>
        m = n /\ \A d \in Changes : <<m, kind, id, d>> \in rows => d = c
  BY <1>3
<1>6. n \in {modseq, modseq + 1}
  BY <1>a
<1>7. /\ OneWord' /\ log \subseteq log'
      /\ \A kind \in Kinds, id \in Nat :
           (\A c \in Changes : <<n, kind, id, c>> \notin rows) => Same(kind, id)
      /\ \A kind \in Kinds, id \in Nat, c \in Changes :
           <<n, kind, id, c>> \in rows /\ (\A d \in Changes : <<n, kind, id, d>> \notin log) =>
             News(kind, id, n, c)
  BY <1>1, <1>2, <1>3, <1>4, <1>5, <1>6, LogStep
<1>8. \A kind \in Kinds, id \in Nat, c \in Changes : <<n, kind, id, c>> \notin log
  BY <1>a, <1>2, <1>4 DEF OneWord
<1>9. /\ \A kind \in Kinds, id \in Nat :
           (\A c \in Changes : <<n, kind, id, c>> \notin rows) => Same(kind, id)
      /\ \A kind \in Kinds, id \in Nat, c \in Changes : <<n, kind, id, c>> \in rows => News(kind, id, n, c)
  BY <1>7, <1>8
<1>10. /\ "Email" \in Kinds /\ "Thread" \in Kinds /\ "Mailbox" \in Kinds
       /\ "created" \in Changes /\ "updated" \in Changes /\ "destroyed" \in Changes
  BY DEF Kinds, Changes
<1>11. EmailsTold'
  <2>1. EmailTold(e)'
    <3>1. News("Email", e, n, "created")
      BY <1>2, <1>3, <1>9, <1>10
    <3> QED BY <1>1, <3>1 DEF News, EmailTold
  <2>2. ASSUME NEW f \in 1 .. lastEmail PROVE EmailTold(f)'
    <3>1. f \in Nat /\ f # e /\ (f \in emails' <=> f \in emails)
      BY <1>b, <1>1, <1>2
    <3>2. Same("Email", f)
      BY <1>3, <1>9, <1>10, <3>1
    <3>3. EmailTold(f)
      BY DEF LogInv, EmailsTold
    <3> QED BY <3>1, <3>2, <3>3 DEF Same, EmailTold
  <2>3. \A f \in 1 .. lastEmail' : f \in 1 .. lastEmail \/ f = e
    BY <1>b, <1>1, <1>2
  <2> QED BY <2>1, <2>2, <2>3 DEF EmailsTold
<1>12. ThreadsTold'
  <2>1. ThreadTold(t)'
    <3>1. News("Thread", t, n, said) /\ said # "destroyed"
      BY <1>2, <1>3, <1>9, <1>10
    <3> QED BY <1>1, <3>1 DEF News, ThreadTold
  <2>2. ASSUME NEW q \in 1 .. lastThread, q # t PROVE ThreadTold(q)'
    <3>1. q \in Nat /\ (q \in threads' <=> q \in threads)
      BY <1>1, <1>2, <2>2
    <3>2. Same("Thread", q)
      BY <1>3, <1>9, <1>10, <2>2, <3>1
    <3>3. ThreadTold(q)
      BY DEF LogInv, ThreadsTold
    <3>4. \A f \in 1 .. lastEmail : threadOf'[f] = threadOf[f]
      BY <1>b, <1>1, <1>2 DEF TypeOK, EmailIds
    <3> QED BY <1>2, <1>7, <3>1, <3>2, <3>3, <3>4, ThreadKept
  <2>3. \A q \in 1 .. lastThread' : q \in 1 .. lastThread \/ q = t
    BY <1>1, <1>2 DEF ThreadFor
  <2> QED BY <2>1, <2>2, <2>3 DEF ThreadsTold
<1>13. BoxesTold'
  <2> SUFFICES ASSUME NEW b \in 1 .. lastBox PROVE BoxTold(b)'
    BY <1>1 DEF BoxesTold
  <2>1. b \in Nat /\ (b \in boxes' <=> b \in boxes) /\ BoxTold(b)
    BY <1>1, <1>2 DEF LogInv, BoxesTold
  <2>2. CASE b \in bs
    <3>1. News("Mailbox", b, n, "updated")
      BY <1>3, <1>9, <1>10, <2>1, <2>2, <1>2
    <3> QED BY <1>2, <2>1, <2>2, <3>1 DEF News, BoxTold
  <2>3. CASE b \notin bs
    <3>1. Same("Mailbox", b)
      BY <1>3, <1>9, <1>10, <2>1, <2>3
    <3> QED BY <1>2, <1>7, <2>1, <3>1, BoxKept
  <2> QED BY <2>2, <2>3
<1>14. EmailTurns' /\ ThreadTurns' /\ BoxTurns'
  BY <1>1 DEF EmailTurns, ThreadTurns, BoxTurns
<1> QED BY <1>7, <1>11, <1>12, <1>13, <1>14 DEF LogInv

\* The types the proofs about the log need.
LEMMA NumberTypes ==
  TypeOK => /\ modseq \in Nat /\ lastEmail \in Nat /\ lastThread \in Nat /\ lastBox \in Nat
            /\ boxes \subseteq BoxIds /\ emails \subseteq EmailIds /\ todo \subseteq emails
  BY CountsAssumption DEF TypeOK

\* The rows of a change of email e that concerns the mailboxes `touched`, and of a
\* change of mailbox b.
UpdateRows(rows, n, e, touched) ==
  /\ rows \in SUBSET LogRows
  /\ \A m, id \in Nat, kind \in Kinds, c \in Changes : <<m, kind, id, c>> \in rows <=>
       /\ m = n /\ c = "updated"
       /\ \/ kind = "Email" /\ id = e
          \/ kind = "Mailbox" /\ id \in touched
MailboxRows(rows, n, b, said) ==
  /\ rows \in SUBSET LogRows
  /\ \A m, id \in Nat, kind \in Kinds, c \in Changes : <<m, kind, id, c>> \in rows <=>
       m = n /\ kind = "Mailbox" /\ id = b /\ c = said

\* An email a batch changes stays, and so do the mailboxes it speaks of: the log says
\* so.  This is the case of update_one and of an email that leaves a mailbox that is
\* being destroyed.
LEMMA ChangedLog ==
  ASSUME TypeOK, TypeOK', Shape, LogInv, NEW e \in emails, NEW touched \in SUBSET boxes, NEW n \in Nat,
         NEW rows, log' = Recorded(rows), UpdateRows(rows, n, e, touched),
         n = BatchModseq, modseq' = n, batch' = n,
         op \in {"update", "takeout", "emptying"}, op = "emptying" => touched = {},
         todo' = todo \ {e}, UNCHANGED <<emails, threads, threadOf, boxes, idVars, op, box>>
  PROVE  LogInv'
<1> USE CountsAssumption
<1> USE DEF idVars
<1>1. /\ modseq \in Nat /\ lastEmail \in Nat /\ lastThread \in Nat /\ lastBox \in Nat
      /\ boxes \subseteq Nat /\ emails \subseteq Nat /\ todo \subseteq Nat /\ e \in Nat /\ touched \subseteq Nat
      /\ n \in {modseq, modseq + 1} /\ modseq <= modseq' /\ lastEmail <= lastEmail'
  <2>1. /\ modseq \in Nat /\ lastEmail \in Nat /\ lastThread \in Nat /\ lastBox \in Nat
        /\ boxes \subseteq BoxIds /\ emails \subseteq EmailIds /\ todo \subseteq emails
    BY NumberTypes
  <2>2. BoxIds \subseteq Nat /\ EmailIds \subseteq Nat
    BY DEF BoxIds, EmailIds
  <2>3. n \in {modseq, modseq + 1}
    BY <2>1 DEF Shape, BatchModseq
  <2> QED BY <2>1, <2>2, <2>3
<1>2. /\ rows \in SUBSET LogRows
      /\ \A m, id \in Nat, kind \in Kinds, c \in Changes : <<m, kind, id, c>> \in rows <=>
           /\ m = n /\ c = "updated"
           /\ \/ kind = "Email" /\ id = e
              \/ kind = "Mailbox" /\ id \in touched
  BY DEF UpdateRows
<1>3. OneWord
  BY DEF LogInv
<1>n. /\ "Email" \in Kinds /\ "Thread" \in Kinds /\ "Mailbox" \in Kinds
      /\ "created" \in Changes /\ "updated" \in Changes /\ "destroyed" \in Changes
  BY DEF Kinds, Changes
<1>4. /\ OneWord' /\ log \subseteq log'
      /\ \A kind \in Kinds, id \in Nat :
           (\A c \in Changes : <<n, kind, id, c>> \notin rows) => Same(kind, id)
      /\ \A kind \in Kinds, id \in Nat, c \in Changes : <<n, kind, id, c>> \in log => Same(kind, id)
      /\ \A kind \in Kinds, id \in Nat, c \in Changes :
           <<n, kind, id, c>> \in rows /\ (\A d \in Changes : <<n, kind, id, d>> \notin log) =>
             News(kind, id, n, c)
  <2>1. \A m, id \in Nat, kind \in Kinds, c \in Changes : <<m, kind, id, c>> \in rows =>
          m = n /\ \A d \in Changes : <<m, kind, id, d>> \in rows => d = c
    BY <1>2
  <2>2. n \in {modseq, modseq + 1} /\ modseq' = n
    BY <1>1
  <2> QED BY <1>2, <1>3, <2>1, <2>2, LogStep
<1>5. \A kind \in Kinds, id \in Nat : <<n, kind, id, "updated">> \in rows =>
        Same(kind, id) \/ News(kind, id, n, "updated")
  BY <1>4, <1>n
<1>6. EmailsTold'
  <2> SUFFICES ASSUME NEW f \in 1 .. lastEmail PROVE EmailTold(f)'
    BY DEF EmailsTold
  <2>1. f \in Nat /\ EmailTold(f)
    BY <1>1 DEF LogInv, EmailsTold
  <2>2. CASE Same("Email", f)
    BY <2>1, <2>2 DEF Same, EmailTold
  <2>3. CASE ~Same("Email", f)
    <3>1. f = e /\ News("Email", f, n, "updated")
      BY <1>2, <1>4, <1>5, <1>n, <2>1, <2>3
    <3> QED BY <3>1 DEF News, EmailTold
  <2> QED BY <2>2, <2>3
<1>7. \A t \in Nat : Same("Thread", t)
  BY <1>2, <1>4, <1>n
<1>8. ThreadsTold'
  <2> SUFFICES ASSUME NEW t \in 1 .. lastThread PROVE ThreadTold(t)'
    BY DEF ThreadsTold
  <2>1. t \in Nat /\ ThreadTold(t)
    BY <1>1 DEF LogInv, ThreadsTold
  <2> QED BY <1>1, <1>4, <1>7, <2>1, ThreadKept
<1>9. BoxesTold'
  <2> SUFFICES ASSUME NEW b \in 1 .. lastBox PROVE BoxTold(b)'
    BY DEF BoxesTold
  <2>1. b \in Nat /\ BoxTold(b)
    BY <1>1 DEF LogInv, BoxesTold
  <2>2. CASE Same("Mailbox", b)
    BY <1>1, <1>4, <2>1, <2>2, BoxKept
  <2>3. CASE ~Same("Mailbox", b)
    <3>1. b \in touched /\ News("Mailbox", b, n, "updated")
      BY <1>2, <1>4, <1>5, <1>n, <2>1, <2>3
    <3> QED BY <3>1 DEF News, BoxTold
  <2> QED BY <2>2, <2>3
<1>10. \A kind \in Kinds, id \in Nat, c \in Changes : <<n, kind, id, c>> \in log => n = batch
  BY <1>3, BatchRows
<1>11. EmailTurns'
  <2>1. ASSUME op \in {"takeout", "emptying"}, NEW f \in todo', NEW c \in Changes,
               <<n, "Email", f, c>> \in log'
        PROVE  FALSE
    <3>1. f \in todo /\ f # e /\ f \in Nat
      BY <1>1, <2>1
    <3>2. Same("Email", f)
      BY <1>2, <1>4, <1>n, <3>1
    <3>3. <<n, "Email", f, c>> \in log /\ n = batch
      BY <1>10, <1>n, <2>1, <3>1, <3>2 DEF Same
    <3> QED BY <2>1, <3>1, <3>3 DEF LogInv, EmailTurns
  <2> QED BY <2>1 DEF EmailTurns
<1>12. ThreadTurns'
  <2> SUFFICES ASSUME NEW t \in Nat, NEW c \in Changes, <<n, "Thread", t, c>> \in log'
               PROVE  /\ c # "created"
                      /\ \E f \in 1 .. lastEmail : threadOf[f] = t /\ <<n, "Email", f, "destroyed">> \in log'
    BY DEF ThreadTurns
  <2>1. <<n, "Thread", t, c>> \in log /\ n = batch
    BY <1>7, <1>10, <1>n DEF Same
  <2> QED BY <1>4, <2>1 DEF LogInv, ThreadTurns
<1>13. BoxTurns'
  <2> SUFFICES ASSUME op = "emptying", NEW c \in Changes, <<n, "Mailbox", box, c>> \in log'
               PROVE  c = "updated" /\ DestroyedAt(n)' # {}
    BY DEF BoxTurns
  <2>0. box \in Nat
    BY <1>1 DEF Shape
  <2>a. PICK b \in Nat : b = box
    BY <2>0
  <2>1. Same("Mailbox", b)
    BY <1>2, <1>4, <1>n
  <2>2. <<n, "Mailbox", box, c>> \in log /\ n = batch
    BY <1>10, <1>n, <2>a, <2>1 DEF Same
  <2>3. c = "updated" /\ DestroyedAt(n) # {}
    BY <2>2 DEF LogInv, BoxTurns
  <2> QED BY <1>4, <2>3 DEF DestroyedAt
<1> QED BY <1>4, <1>6, <1>8, <1>9, <1>11, <1>12, <1>13 DEF LogInv

\* An email a batch destroys is gone from the log's point of view too; its thread is,
\* unless the batch spoke of it before.
LEMMA DestroysLog ==
  ASSUME TypeOK, TypeOK', Shape, Uids, Tops, LogInv, NEW e \in emails, Destroys(e)
  PROVE  LogInv'
<1> USE CountsAssumption
<1> USE DEF idVars
<1>0. /\ BatchModseq \in Nat /\ threadOf[e] \in Nat
      /\ (IF ~\E f \in emails \ {e} : threadOf[f] = threadOf[e] THEN "destroyed" ELSE "updated")
           \in {"destroyed", "updated"}
  <2>1. BatchModseq \in Nat
    BY DestroysFrame
  <2>2. threadOf[e] \in Nat
    <3>1. threadOf[e] \in ThreadIds
      BY DEF TypeOK, Shape
    <3> QED BY <3>1 DEF ThreadIds
  <2> QED BY <2>1, <2>2
<1>a. PICK n \in Nat : n = BatchModseq
  BY <1>0
<1>b. PICK t \in Nat : t = threadOf[e]
  BY <1>0
<1>c. PICK said \in {"destroyed", "updated"} :
        said = IF ~\E f \in emails \ {e} : threadOf[f] = t THEN "destroyed" ELSE "updated"
  BY <1>0, <1>b
<1> DEFINE touched == BoxesOf(e)
           rows == {<<n, "Email", e, "destroyed">>, <<n, "Thread", t, said>>} \union
                     {<<n, "Mailbox", b, "updated">> : b \in touched}
<1>1. /\ modseq' = n /\ batch' = n /\ n \in {modseq, modseq + 1}
      /\ emails' = emails \ {e} /\ todo' = todo \ {e}
      /\ threadOf' = threadOf /\ boxes' = boxes /\ UNCHANGED idVars /\ op' = op /\ box' = box
  BY <1>a, DestroysFrame
<1>2. /\ log' = Recorded(rows)
      /\ threads' = IF said = "destroyed" THEN threads \ {t} ELSE threads
      /\ op \in {"destroy", "takeout", "emptying"} /\ (op # "destroy" => e \in todo)
  BY <1>a, <1>b, <1>c DEF Destroys, DestroyOne, DestroyedRows
<1>3. /\ modseq \in Nat /\ lastEmail \in Nat /\ lastThread \in Nat /\ lastBox \in Nat
      /\ boxes \subseteq Nat /\ emails \subseteq Nat /\ todo \subseteq Nat /\ e \in Nat
      /\ modseq <= modseq' /\ lastEmail <= lastEmail' /\ e \in 1 .. lastEmail /\ t \in threads
      /\ t \in 1 .. lastThread /\ todo \subseteq emails
  <2>1. /\ modseq \in Nat /\ lastEmail \in Nat /\ lastThread \in Nat /\ lastBox \in Nat
        /\ boxes \subseteq BoxIds /\ emails \subseteq EmailIds /\ todo \subseteq emails
    BY NumberTypes
  <2>2. BoxIds \subseteq Nat /\ EmailIds \subseteq Nat
    BY DEF BoxIds, EmailIds
  <2>3. emails \subseteq 1 .. lastEmail /\ threads \subseteq 1 .. lastThread /\ t \in threads
    BY <1>b DEF Shape
  <2>4. modseq <= modseq' /\ lastEmail <= lastEmail'
    BY <1>1, <2>1
  <2> QED BY <2>1, <2>2, <2>3, <2>4
<1>4. touched \subseteq boxes /\ touched \subseteq Nat
  BY <1>3 DEF BoxesOf
<1> HIDE DEF touched
<1>5. /\ rows \in SUBSET LogRows
      /\ \A m, id \in Nat, kind \in Kinds, c \in Changes : <<m, kind, id, c>> \in rows <=>
           /\ m = n
           /\ \/ kind = "Email" /\ id = e /\ c = "destroyed"
              \/ kind = "Thread" /\ id = t /\ c = said
              \/ kind = "Mailbox" /\ id \in touched /\ c = "updated"
  BY <1>3, <1>4 DEF LogRows, Kinds, Changes
<1> HIDE DEF rows
<1>n. /\ "Email" \in Kinds /\ "Thread" \in Kinds /\ "Mailbox" \in Kinds
      /\ "created" \in Changes /\ "updated" \in Changes /\ "destroyed" \in Changes
  BY DEF Kinds, Changes
<1>o. OneWord /\ EmailsTold /\ EmailTurns /\ ThreadsTold /\ ThreadTurns /\ BoxesTold /\ BoxTurns
  BY DEF LogInv
<1>6. /\ OneWord' /\ log \subseteq log'
      /\ \A kind \in Kinds, id \in Nat :
           (\A c \in Changes : <<n, kind, id, c>> \notin rows) => Same(kind, id)
      /\ \A kind \in Kinds, id \in Nat, c \in Changes : <<n, kind, id, c>> \in log => Same(kind, id)
      /\ \A kind \in Kinds, id \in Nat, c \in Changes :
           <<n, kind, id, c>> \in rows /\ (\A d \in Changes : <<n, kind, id, d>> \notin log) =>
             News(kind, id, n, c)
  <2>1. \A m, id \in Nat, kind \in Kinds, c \in Changes : <<m, kind, id, c>> \in rows =>
          m = n /\ \A d \in Changes : <<m, kind, id, d>> \in rows => d = c
    BY <1>5
  <2> QED BY <1>1, <1>2, <1>5, <1>o, <2>1, LogStep
<1>7. \A kind \in Kinds, id \in Nat, c \in Changes : <<n, kind, id, c>> \in log => n = batch /\ n = modseq
  BY <1>a, <1>o, BatchRows
<1>8. \A c \in Changes : <<n, "Email", e, c>> \notin log
  BY <1>2, <1>3, <1>7, <1>n, <1>o DEF EmailTurns
<1>9. News("Email", e, n, "destroyed")
  BY <1>3, <1>5, <1>6, <1>8, <1>n
<1>10. <<n, "Email", e, "destroyed">> \in log'
  BY <1>9 DEF News
<1>11. EmailsTold'
  <2> SUFFICES ASSUME NEW f \in 1 .. lastEmail PROVE EmailTold(f)'
    BY <1>1 DEF EmailsTold
  <2>1. f \in Nat /\ EmailTold(f)
    BY <1>3, <1>o DEF EmailsTold
  <2>2. CASE f = e
    BY <1>1, <1>9, <2>2 DEF News, EmailTold
  <2>3. CASE f # e
    <3>1. Same("Email", f)
      BY <1>5, <1>6, <1>n, <2>1, <2>3
    <3> QED BY <1>1, <2>1, <2>3, <3>1 DEF Same, EmailTold
  <2> QED BY <2>2, <2>3
<1>12. \A q \in Nat : q # t => Same("Thread", q)
  BY <1>5, <1>6, <1>n
<1>13. ThreadTold(t)'
  <2>1. ThreadTold(t) /\ ~LastDestroyed("Thread", t)
    BY <1>3, <1>o DEF ThreadsTold, ThreadTold
  <2>2. CASE \A d \in Changes : <<n, "Thread", t, d>> \notin log
    <3>1. <<n, "Thread", t, said>> \in rows /\ said \in Changes
      BY <1>5, <1>n
    <3>2. News("Thread", t, n, said)
      BY <1>6, <1>n, <2>2, <3>1
    <3> QED BY <1>2, <1>3, <3>2 DEF News, ThreadTold
  <2>3. CASE \E d \in Changes : <<n, "Thread", t, d>> \in log
    <3>1. PICK d \in Changes : <<n, "Thread", t, d>> \in log
      BY <2>3
    <3>2. Same("Thread", t) /\ n = batch /\ n = modseq
      BY <1>6, <1>7, <1>n, <3>1
    <3>3. PICK f \in 1 .. lastEmail : threadOf[f] = t /\ <<n, "Email", f, "destroyed">> \in log
      BY <1>2, <1>o, <3>1, <3>2 DEF ThreadTurns
    <3>4. d # "created" /\ f # e
      BY <1>2, <1>8, <1>n, <1>o, <3>1, <3>2, <3>3 DEF ThreadTurns
    <3>5. LastSaid("Thread", t, n, d)
      <4>1. LastWord(log, "Thread", t, n, d)
        BY <1>n, <1>o, <3>1, <3>2 DEF LastWord, OneWord
      <4>2. log \in SUBSET LogRows
        BY DEF TypeOK, LogRows
      <4> QED BY <1>n, <4>1, <4>2, LastSaidWord DEF LastSaid
    <3>6. n \in 1 .. modseq
      BY <1>n, <1>o, <3>1 DEF OneWord
    <3>7. d = "updated"
      BY <2>1, <3>4, <3>5, <3>6 DEF LastDestroyed, Changes
    <3>8. LastSaid("Thread", t, n, "updated")' /\ n \in 1 .. modseq'
      BY <1>1, <1>n, <3>2, <3>5, <3>6, <3>7 DEF Same
    <3>9. TwoDestroyed(t, n)'
      <4>1. <<n, "Email", f, "destroyed">> \in log'
        BY <1>6, <3>3
      <4>2. e \in 1 .. lastEmail' /\ f \in 1 .. lastEmail' /\ threadOf'[e] = t /\ threadOf'[f] = t
        BY <1>b, <1>1, <1>3, <3>3
      <4> QED BY <1>10, <3>4, <4>1, <4>2 DEF TwoDestroyed
    <3>10. CASE said = "destroyed"
      BY <1>2, <3>8, <3>9, <3>10 DEF ThreadTold
    <3>11. CASE said # "destroyed"
      <4>1. t \in threads' /\ ~LastDestroyed("Thread", t)'
        BY <1>2, <1>3, <2>1, <3>2, <3>11 DEF Same
      <4> QED BY <4>1 DEF ThreadTold
    <3> QED BY <3>10, <3>11
  <2> QED BY <2>2, <2>3
<1>14. ThreadsTold'
  <2> SUFFICES ASSUME NEW q \in 1 .. lastThread, q # t PROVE ThreadTold(q)'
    BY <1>1, <1>13 DEF ThreadsTold
  <2>1. q \in Nat /\ ThreadTold(q) /\ (q \in threads' <=> q \in threads)
    BY <1>2, <1>3, <1>o DEF ThreadsTold
  <2>2. \A f \in 1 .. lastEmail : threadOf'[f] = threadOf[f]
    BY <1>1
  <2> QED BY <1>3, <1>6, <1>12, <2>1, <2>2, ThreadKept
<1>15. BoxesTold'
  <2> SUFFICES ASSUME NEW b \in 1 .. lastBox PROVE BoxTold(b)'
    BY <1>1 DEF BoxesTold
  <2>1. b \in Nat /\ BoxTold(b) /\ (b \in boxes' <=> b \in boxes)
    BY <1>1, <1>3, <1>o DEF BoxesTold
  <2>2. CASE Same("Mailbox", b)
    BY <1>3, <1>6, <2>1, <2>2, BoxKept
  <2>3. CASE ~Same("Mailbox", b)
    <3>1. b \in touched /\ News("Mailbox", b, n, "updated")
      BY <1>5, <1>6, <1>n, <2>1, <2>3
    <3> QED BY <1>1, <1>4, <3>1 DEF News, BoxTold
  <2> QED BY <2>2, <2>3
<1>16. EmailTurns'
  <2>1. ASSUME NEW f \in emails', op = "destroy" \/ f \in todo', NEW c \in Changes, <<n, "Email", f, c>> \in log'
        PROVE  FALSE
    <3>1. f \in emails /\ f # e /\ f \in Nat /\ (op # "destroy" => f \in todo)
      BY <1>1, <1>3, <2>1
    <3>2. Same("Email", f)
      BY <1>5, <1>6, <1>n, <3>1
    <3>3. <<n, "Email", f, c>> \in log /\ n = batch
      BY <1>7, <1>n, <2>1, <3>1, <3>2 DEF Same
    <3> QED BY <1>2, <1>o, <3>1, <3>3 DEF EmailTurns
  <2>2. todo' \subseteq emails'
    BY <1>1, <1>3
  <2> QED BY <1>1, <2>1, <2>2 DEF EmailTurns
<1>17. ThreadTurns'
  <2> SUFFICES ASSUME NEW q \in Nat, NEW c \in Changes, <<n, "Thread", q, c>> \in log'
               PROVE  /\ c # "created"
                      /\ \E f \in 1 .. lastEmail : threadOf[f] = q /\ <<n, "Email", f, "destroyed">> \in log'
    BY <1>1 DEF ThreadTurns
  <2>1. CASE <<n, "Thread", q, c>> \in log
    <3>1. n = batch
      BY <1>7, <1>n, <2>1
    <3> QED BY <1>2, <1>6, <1>o, <2>1, <3>1 DEF ThreadTurns
  <2>2. CASE <<n, "Thread", q, c>> \notin log
    <3>1. q = t /\ ~Same("Thread", q)
      BY <1>12, <2>2 DEF Same
    <3>2. News("Thread", t, n, said)
      BY <1>5, <1>6, <1>n, <3>1
    <3>3. c = said
      BY <1>6, <1>n, <3>1, <3>2 DEF News, OneWord
    <3> QED BY <1>b, <1>3, <1>10, <3>1, <3>3
  <2> QED BY <2>1, <2>2
<1>18. BoxTurns'
  <2> SUFFICES ASSUME op = "emptying", NEW c \in Changes, <<n, "Mailbox", box, c>> \in log'
               PROVE  c = "updated" /\ DestroyedAt(n)' # {}
    BY <1>1 DEF BoxTurns
  <2>0. DestroyedAt(n)' # {}
    BY <1>1, <1>3, <1>10 DEF DestroyedAt
  <2>1. box \in Nat
    BY <1>3 DEF Shape
  <2>2. CASE <<n, "Mailbox", box, c>> \in log
    BY <1>7, <1>n, <1>o, <2>0, <2>1, <2>2 DEF BoxTurns
  <2>3. CASE <<n, "Mailbox", box, c>> \notin log
    <3>1. PICK b \in Nat : b = box
      BY <2>1
    <3>2. ~Same("Mailbox", b) /\ <<n, "Mailbox", b, c>> \in log'
      BY <2>3, <3>1 DEF Same
    <3>3. News("Mailbox", b, n, "updated")
      BY <1>5, <1>6, <1>n, <3>2
    <3> QED BY <1>6, <1>n, <2>0, <3>2, <3>3 DEF News, OneWord
  <2> QED BY <2>2, <2>3
<1> QED BY <1>6, <1>11, <1>14, <1>15, <1>16, <1>17, <1>18 DEF LogInv

\* A change of one mailbox, with no batch left open, is in the log.
LEMMA MailboxLog ==
  ASSUME TypeOK, TypeOK', LogInv, NEW n \in Nat, NEW b \in Nat, NEW said \in Changes,
         NEW rows, log' = Recorded(rows), MailboxRows(rows, n, b, said),
         n \in {modseq, modseq + 1}, modseq' = n, op' = "none",
         UNCHANGED <<emails, threads, threadOf, lastEmail, lastThread>>,
         \A q \in 1 .. lastBox' : q # b => q \in 1 .. lastBox /\ (q \in boxes' <=> q \in boxes),
         News("Mailbox", b, n, said) \/ Same("Mailbox", b) => BoxTold(b)'
  PROVE  LogInv'
<1>n. /\ "Email" \in Kinds /\ "Thread" \in Kinds /\ "Mailbox" \in Kinds
      /\ "created" \in Changes /\ "updated" \in Changes /\ "destroyed" \in Changes
  BY DEF Kinds, Changes
<1>1. /\ modseq \in Nat /\ modseq <= modseq' /\ lastEmail \in Nat /\ lastEmail <= lastEmail'
      /\ lastThread \in Nat /\ lastBox' \in Nat
  <2>1. modseq \in Nat /\ lastEmail \in Nat /\ lastThread \in Nat
    BY NumberTypes
  <2>2. lastBox' \in Nat
    BY CountsAssumption DEF TypeOK
  <2> QED BY <2>1, <2>2
<1>2. OneWord /\ EmailsTold /\ ThreadsTold /\ BoxesTold
  BY DEF LogInv
<1>3. /\ OneWord' /\ log \subseteq log'
      /\ \A kind \in Kinds, id \in Nat :
           (\A c \in Changes : <<n, kind, id, c>> \notin rows) => Same(kind, id)
      /\ \A kind \in Kinds, id \in Nat, c \in Changes : <<n, kind, id, c>> \in log => Same(kind, id)
      /\ \A kind \in Kinds, id \in Nat, c \in Changes :
           <<n, kind, id, c>> \in rows /\ (\A d \in Changes : <<n, kind, id, d>> \notin log) =>
             News(kind, id, n, c)
  <2>1. \A m, id \in Nat, kind \in Kinds, c \in Changes : <<m, kind, id, c>> \in rows =>
          m = n /\ \A d \in Changes : <<m, kind, id, d>> \in rows => d = c
    BY DEF MailboxRows
  <2>2. rows \in SUBSET LogRows
    BY DEF MailboxRows
  <2> QED BY <1>2, <2>1, <2>2, LogStep
<1>4. /\ \A id \in Nat : Same("Email", id) /\ Same("Thread", id)
      /\ \A id \in Nat : id # b => Same("Mailbox", id)
      /\ News("Mailbox", b, n, said) \/ Same("Mailbox", b)
  <2>1. \A c \in Changes : \A id \in Nat :
          /\ <<n, "Email", id, c>> \notin rows /\ <<n, "Thread", id, c>> \notin rows
          /\ id # b => <<n, "Mailbox", id, c>> \notin rows
    BY <1>n DEF MailboxRows
  <2>2. <<n, "Mailbox", b, said>> \in rows
    BY <1>n DEF MailboxRows
  <2> QED BY <1>3, <1>n, <2>1, <2>2
<1>5. EmailsTold'
  <2> SUFFICES ASSUME NEW f \in 1 .. lastEmail PROVE EmailTold(f)'
    BY DEF EmailsTold
  <2>1. f \in Nat /\ EmailTold(f)
    BY <1>1, <1>2 DEF EmailsTold
  <2> QED BY <1>4, <2>1 DEF Same, EmailTold
<1>6. ThreadsTold'
  <2> SUFFICES ASSUME NEW t \in 1 .. lastThread PROVE ThreadTold(t)'
    BY DEF ThreadsTold
  <2>1. t \in Nat /\ ThreadTold(t)
    BY <1>1, <1>2 DEF ThreadsTold
  <2> QED BY <1>1, <1>3, <1>4, <2>1, ThreadKept
<1>7. BoxesTold'
  <2> SUFFICES ASSUME NEW q \in 1 .. lastBox', q # b PROVE BoxTold(q)'
    BY <1>4 DEF BoxesTold
  <2>1. q \in Nat /\ BoxTold(q) /\ (q \in boxes' <=> q \in boxes)
    BY <1>1, <1>2 DEF BoxesTold
  <2> QED BY <1>1, <1>3, <1>4, <2>1, BoxKept
<1>8. EmailTurns' /\ ThreadTurns' /\ BoxTurns'
  BY DEF EmailTurns, ThreadTurns, BoxTurns
<1> QED BY <1>3, <1>5, <1>6, <1>7, <1>8 DEF LogInv

\* Where nothing is written, the log stays true; a batch that begins has said nothing.
LEMMA QuietLog ==
  ASSUME TypeOK, TypeOK', LogInv, modseq <= modseq',
         UNCHANGED <<log, emails, threads, threadOf, boxes, lastEmail, lastThread, lastBox>>,
         \/ op' = "none"
         \/ batch' \notin 1 .. modseq
         \/ UNCHANGED <<op, batch, todo, box>>
  PROVE  LogInv'
<1>n. /\ "Email" \in Kinds /\ "Thread" \in Kinds /\ "Mailbox" \in Kinds
      /\ "created" \in Changes /\ "updated" \in Changes /\ "destroyed" \in Changes
  BY DEF Kinds, Changes
<1>1. /\ modseq \in Nat /\ modseq' \in Nat /\ lastEmail \in Nat /\ lastThread \in Nat /\ lastBox \in Nat
      /\ lastEmail <= lastEmail' /\ boxes \subseteq Nat /\ emails \subseteq Nat /\ todo' \subseteq Nat
      /\ box' \in Nat /\ batch' \in Nat
  <2>1. modseq \in Nat /\ lastEmail \in Nat /\ lastThread \in Nat /\ lastBox \in Nat
        /\ boxes \subseteq BoxIds /\ emails \subseteq EmailIds
    BY NumberTypes
  <2>2. modseq' \in Nat /\ todo' \subseteq EmailIds /\ box' \in BoxIds \union {0} /\ batch' \in Nat
    BY CountsAssumption DEF TypeOK
  <2>3. BoxIds \subseteq Nat /\ EmailIds \subseteq Nat
    BY CountsAssumption DEF BoxIds, EmailIds
  <2> QED BY <2>1, <2>2, <2>3
<1>2. OneWord /\ EmailsTold /\ ThreadsTold /\ BoxesTold /\ EmailTurns /\ ThreadTurns /\ BoxTurns
  BY DEF LogInv
<1>3. OneWord'
  <2>1. \A m \in 1 .. modseq : m \in 1 .. modseq'
    BY <1>1
  <2> QED BY <1>2, <2>1 DEF OneWord
<1>4. \A kind \in Kinds, id \in Nat : Same(kind, id)
  BY <1>2, <1>3, SameRows
<1>5. EmailsTold'
  <2> SUFFICES ASSUME NEW f \in 1 .. lastEmail PROVE EmailTold(f)'
    BY DEF EmailsTold
  <2>1. f \in Nat /\ EmailTold(f)
    BY <1>1, <1>2 DEF EmailsTold
  <2> QED BY <1>4, <1>n, <2>1 DEF Same, EmailTold
<1>6. ThreadsTold'
  <2> SUFFICES ASSUME NEW t \in 1 .. lastThread PROVE ThreadTold(t)'
    BY DEF ThreadsTold
  <2>1. t \in Nat /\ ThreadTold(t)
    BY <1>1, <1>2 DEF ThreadsTold
  <2> QED BY <1>1, <1>4, <1>n, <2>1, ThreadKept
<1>7. BoxesTold'
  <2> SUFFICES ASSUME NEW b \in 1 .. lastBox PROVE BoxTold(b)'
    BY DEF BoxesTold
  <2>1. b \in Nat /\ BoxTold(b)
    BY <1>1, <1>2 DEF BoxesTold
  <2> QED BY <1>1, <1>4, <1>n, <2>1, BoxKept
<1>8. EmailTurns' /\ ThreadTurns' /\ BoxTurns'
  <2>1. CASE op' = "none"
    BY <2>1 DEF EmailTurns, ThreadTurns, BoxTurns
  <2>2. CASE batch' \notin 1 .. modseq
    <3>1. \A kind \in Kinds, id \in Nat, c \in Changes : <<batch', kind, id, c>> \notin log'
      BY <1>1, <1>2, <2>2 DEF OneWord
    <3> QED BY <1>1, <1>n, <3>1 DEF EmailTurns, ThreadTurns, BoxTurns
  <2>3. CASE UNCHANGED <<op, batch, todo, box>>
    BY <1>2, <2>3 DEF EmailTurns, ThreadTurns, BoxTurns, DestroyedAt
  <2> QED BY <2>1, <2>2, <2>3
<1> QED BY <1>3, <1>5, <1>6, <1>7, <1>8 DEF LogInv

\* The log is kept by every step.
LEMMA LogInvStep ==
  TypeOK /\ TypeOK' /\ Shape /\ Uids /\ Emptying /\ Tops /\ LogInv /\ [Next]_storeVars => LogInv'
<1> SUFFICES ASSUME TypeOK, TypeOK', Shape, Uids, Emptying, Tops, LogInv, [Next]_storeVars PROVE LogInv'
  OBVIOUS
<1> USE CountsAssumption
<1> USE DEF emailVars, boxVars, idVars, txVars
<1>n. /\ "Email" \in Kinds /\ "Thread" \in Kinds /\ "Mailbox" \in Kinds
      /\ "created" \in Changes /\ "updated" \in Changes /\ "destroyed" \in Changes
  BY DEF Kinds, Changes
<1>0. /\ modseq \in Nat /\ lastBox \in Nat /\ boxes \subseteq Nat /\ emails \subseteq Nat
      /\ boxes \subseteq 1 .. lastBox
  <2>1. modseq \in Nat /\ lastBox \in Nat /\ boxes \subseteq BoxIds /\ emails \subseteq EmailIds
    BY NumberTypes
  <2> QED BY <2>1 DEF BoxIds, EmailIds, Shape
<1>1. CASE Ingests
  BY <1>1, IngestLog DEF Ingests
<1>2. ASSUME NEW e \in emails, NEW bs \in SUBSET boxes, Updates(e, bs) PROVE LogInv'
  <2>1. /\ modseq' = BatchModseq /\ BatchModseq \in Nat /\ batch' = BatchModseq
        /\ UNCHANGED <<emails, threadOf, threads, boxes, idVars, op, box>>
        /\ todo' = todo \ {e}
    BY <1>2, UpdatesFrame
  <2>2. PICK n \in Nat : n = BatchModseq
    BY <2>1
  <2>3. PICK touched \in SUBSET boxes :
          log' = Recorded({<<n, "Email", e, "updated">>} \union {<<n, "Mailbox", b, "updated">> : b \in touched})
    BY <1>2, <2>2 DEF Updates, UpdateEffect
  <2> DEFINE rows == {<<n, "Email", e, "updated">>} \union {<<n, "Mailbox", b, "updated">> : b \in touched}
  <2>4. /\ rows \in SUBSET LogRows
        /\ \A m, id \in Nat, kind \in Kinds, c \in Changes : <<m, kind, id, c>> \in rows <=>
             /\ m = n /\ c = "updated"
             /\ \/ kind = "Email" /\ id = e
                \/ kind = "Mailbox" /\ id \in touched
    BY <1>0 DEF LogRows, Kinds, Changes
  <2>5. log' = Recorded(rows)
    BY <2>3
  <2>r. UpdateRows(rows, n, e, touched)
    BY <2>4 DEF UpdateRows
  <2> HIDE DEF rows
  <2>6. op \in {"update", "takeout", "emptying"} /\ (op = "emptying" => touched = {})
    BY <1>2 DEF Updates
  <2> QED BY <2>1, <2>2, <2>5, <2>6, <2>r, ChangedLog
<1>3. ASSUME NEW e \in emails, Destroys(e) PROVE LogInv'
  BY <1>3, DestroysLog
<1>4. ASSUME NEW e \in emails, Leaves(e) PROVE LogInv'
  <2>1. /\ modseq' = batch /\ batch \in Nat /\ batch' = batch /\ batch = BatchModseq
        /\ UNCHANGED <<emails, threadOf, threads, boxes, idVars, op, box>>
        /\ todo' = todo \ {e} /\ op = "emptying"
        /\ log' = Recorded({<<batch, "Email", e, "updated">>})
    BY <1>0, <1>4 DEF Leaves, Shape, BatchModseq, TypeOK
  <2>2. PICK n \in Nat : n = batch
    BY <2>1
  <2>3. PICK touched \in SUBSET boxes : touched = {}
    OBVIOUS
  <2> DEFINE rows == {<<n, "Email", e, "updated">>}
  <2>4. /\ rows \in SUBSET LogRows
        /\ \A m, id \in Nat, kind \in Kinds, c \in Changes : <<m, kind, id, c>> \in rows <=>
             /\ m = n /\ c = "updated"
             /\ \/ kind = "Email" /\ id = e
                \/ kind = "Mailbox" /\ id \in touched
    BY <1>0, <2>3 DEF LogRows, Kinds, Changes
  <2>5. log' = Recorded(rows)
    BY <2>1, <2>2
  <2>r. UpdateRows(rows, n, e, touched)
    BY <2>4 DEF UpdateRows
  <2> HIDE DEF rows
  <2>6. op \in {"update", "takeout", "emptying"}
    BY <2>1
  <2> QED BY <2>1, <2>2, <2>3, <2>5, <2>6, <2>r, ChangedLog
<1>5. CASE CreateMailbox
  <2>1. /\ modseq' = modseq + 1 /\ lastBox' = lastBox + 1 /\ boxes' = boxes \union {lastBox + 1}
        /\ log' = Recorded({<<modseq + 1, "Mailbox", lastBox + 1, "created">>})
        /\ UNCHANGED <<emails, threads, threadOf, lastEmail, lastThread>> /\ op' = "none"
    BY <1>5 DEF CreateMailbox
  <2>2. PICK n \in Nat, b \in Nat : n = modseq + 1 /\ b = lastBox + 1
    BY <1>0
  <2> DEFINE rows == {<<n, "Mailbox", b, "created">>}
  <2>3. /\ rows \in SUBSET LogRows
        /\ \A m, id \in Nat, kind \in Kinds, c \in Changes : <<m, kind, id, c>> \in rows <=>
             m = n /\ kind = "Mailbox" /\ id = b /\ c = "created"
    BY <1>n DEF LogRows
  <2>r. MailboxRows(rows, n, b, "created")
    BY <2>3 DEF MailboxRows
  <2>4. log' = Recorded(rows)
    BY <2>1, <2>2
  <2> HIDE DEF rows
  <2>5. \A q \in 1 .. lastBox' : q # b => q \in 1 .. lastBox /\ (q \in boxes' <=> q \in boxes)
    BY <1>0, <2>1, <2>2
  <2>6. \A c \in Changes : <<n, "Mailbox", b, c>> \notin log
    BY <1>0, <1>n, <2>2 DEF LogInv, OneWord
  <2>7. News("Mailbox", b, n, "created") \/ Same("Mailbox", b) => BoxTold(b)'
    <3>1. ASSUME News("Mailbox", b, n, "created") PROVE BoxTold(b)'
      BY <2>1, <2>2, <3>1 DEF News, BoxTold
    <3>2. ASSUME Same("Mailbox", b) PROVE BoxTold(b)'
      <4>1. <<n, "Mailbox", b, "created">> \in log'
        BY <1>n, <2>3, <2>4, <2>6, RecordedWord
      <4> QED BY <1>n, <2>6, <3>2, <4>1 DEF Same
    <3> QED BY <3>1, <3>2
  <2>8. n \in {modseq, modseq + 1} /\ modseq' = n
    BY <2>1, <2>2
  <2> QED BY <1>n, <2>1, <2>r, <2>4, <2>5, <2>7, <2>8, MailboxLog
<1>6. ASSUME NEW b \in boxes, UpdateMailbox(b) PROVE LogInv'
  <2>1. /\ modseq' = modseq + 1 /\ log' = Recorded({<<modseq + 1, "Mailbox", b, "updated">>})
        /\ UNCHANGED <<emails, threads, threadOf, boxes, lastEmail, lastThread, lastBox>> /\ op' = "none"
    BY <1>6 DEF UpdateMailbox
  <2>2. PICK n \in Nat : n = modseq + 1
    BY <1>0
  <2> DEFINE rows == {<<n, "Mailbox", b, "updated">>}
  <2>3. /\ rows \in SUBSET LogRows
        /\ \A m, id \in Nat, kind \in Kinds, c \in Changes : <<m, kind, id, c>> \in rows <=>
             m = n /\ kind = "Mailbox" /\ id = b /\ c = "updated"
    BY <1>0, <1>n DEF LogRows
  <2>r. MailboxRows(rows, n, b, "updated")
    BY <2>3 DEF MailboxRows
  <2>4. log' = Recorded(rows)
    BY <2>1, <2>2
  <2> HIDE DEF rows
  <2>5. \A q \in 1 .. lastBox' : q # b => q \in 1 .. lastBox /\ (q \in boxes' <=> q \in boxes)
    BY <2>1
  <2>6. News("Mailbox", b, n, "updated") \/ Same("Mailbox", b) => BoxTold(b)'
    <3>1. BoxTold(b) /\ ~LastDestroyed("Mailbox", b)
      BY <1>0 DEF LogInv, BoxesTold, BoxTold
    <3> QED BY <2>1, <3>1 DEF News, Same, BoxTold
  <2>7. n \in {modseq, modseq + 1} /\ modseq' = n /\ b \in Nat
    BY <1>0, <2>1, <2>2
  <2> QED BY <1>n, <2>1, <2>r, <2>4, <2>5, <2>6, <2>7, MailboxLog
<1>7. CASE DropMailbox
  <2>1. /\ op = "emptying" /\ batch = modseq /\ box \in boxes /\ boxes' = boxes \ {box}
        /\ log' = Recorded({<<batch, "Mailbox", box, "destroyed">>})
        /\ UNCHANGED <<emails, threads, threadOf, lastEmail, lastThread, lastBox, modseq>> /\ op' = "none"
    BY <1>7 DEF DropMailbox, DroppedRows, Closes, Shape
  <2>2. PICK n \in Nat, b \in Nat : n = modseq /\ b = box
    BY <1>0, <2>1
  <2> DEFINE rows == {<<n, "Mailbox", b, "destroyed">>}
  <2>3. /\ rows \in SUBSET LogRows
        /\ \A m, id \in Nat, kind \in Kinds, c \in Changes : <<m, kind, id, c>> \in rows <=>
             m = n /\ kind = "Mailbox" /\ id = b /\ c = "destroyed"
    BY <1>n DEF LogRows
  <2>r. MailboxRows(rows, n, b, "destroyed")
    BY <2>3 DEF MailboxRows
  <2>4. log' = Recorded(rows)
    BY <2>1, <2>2
  <2> HIDE DEF rows
  <2>5. \A q \in 1 .. lastBox' : q # b => q \in 1 .. lastBox /\ (q \in boxes' <=> q \in boxes)
    BY <2>1, <2>2
  <2>6. News("Mailbox", b, n, "destroyed") \/ Same("Mailbox", b) => BoxTold(b)'
    <3>1. ASSUME News("Mailbox", b, n, "destroyed") PROVE BoxTold(b)'
      BY <2>1, <2>2, <3>1 DEF News, BoxTold
    <3>2. ASSUME Same("Mailbox", b) PROVE BoxTold(b)'
      <4>0. \A d \in Changes : <<n, "Mailbox", b, d>> \in log' <=> <<n, "Mailbox", b, d>> \in log
        BY <3>2 DEF Same
      <4>1. \E d \in Changes : <<n, "Mailbox", b, d>> \in log
        <5>1. <<n, "Mailbox", b, "destroyed">> \in rows
          BY <1>n, <2>3
        <5>2. (\A d \in Changes : <<n, "Mailbox", b, d>> \notin log) => <<n, "Mailbox", b, "destroyed">> \in log'
          BY <1>n, <2>3, <2>4, <5>1, RecordedWord
        <5> QED BY <1>n, <4>0, <5>2
      <4>2. <<n, "Mailbox", b, "updated">> \in log /\ DestroyedAt(n) # {}
        BY <2>1, <2>2, <4>1 DEF LogInv, BoxTurns
      <4>3. LastSaid("Mailbox", b, n, "updated") /\ n \in 1 .. modseq
        <5>1. LastWord(log, "Mailbox", b, n, "updated") /\ n \in 1 .. modseq
          BY <1>n, <2>2, <4>2 DEF LogInv, OneWord, LastWord
        <5>2. log \in SUBSET LogRows
          BY DEF TypeOK, LogRows
        <5> QED BY <1>n, <5>1, <5>2, LastSaidWord DEF LastSaid
      <4>4. LastSaid("Mailbox", b, n, "updated")' /\ n \in 1 .. modseq'
        BY <1>n, <2>1, <3>2, <4>3 DEF Same
      <4>5. (DestroyedAt(n) # {})'
        <5>1. log \subseteq log'
          BY <2>1 DEF Recorded
        <5> QED BY <2>1, <4>2, <5>1 DEF DestroyedAt
      <4> QED BY <2>1, <2>2, <4>4, <4>5 DEF BoxTold
    <3> QED BY <3>1, <3>2
  <2>7. n \in {modseq, modseq + 1} /\ modseq' = n
    BY <2>1, <2>2
  <2> QED BY <1>n, <2>1, <2>r, <2>4, <2>5, <2>6, <2>7, MailboxLog
<1>8. CASE Begins \/ Commit \/ (\E b \in boxes : BeginDestroyMailbox(b)) \/ UNCHANGED storeVars
  <2>1. /\ UNCHANGED <<log, emails, threads, threadOf, boxes, lastEmail, lastThread, lastBox>>
        /\ modseq' \in {modseq, modseq + 1}
    BY <1>8 DEF Begins, Opens, Commit, BeginDestroyMailbox, storeVars
  <2>2. \/ op' = "none"
        \/ batch' \in {0, modseq + 1}
        \/ UNCHANGED <<op, batch, todo, box>>
    BY <1>8 DEF Begins, Opens, Commit, Closes, BeginDestroyMailbox, storeVars, Shape
  <2>3. modseq <= modseq' /\ 0 \notin 1 .. modseq /\ modseq + 1 \notin 1 .. modseq
    BY <1>0, <2>1
  <2> QED BY <2>1, <2>2, <2>3, QuietLog
<1> QED
  BY <1>1, <1>2, <1>3, <1>4, <1>5, <1>6, <1>7, <1>8, NextCases

-----------------------------------------------------------------------------
(* The store's theorems.                                                   *)

\* A new account, with the mailboxes of create_default_mailboxes.
LEMMA StoreInit == Init => StoreInv
<1> SUFFICES ASSUME Init PROVE StoreInv
  OBVIOUS
<1> USE CountsAssumption
<1>1. TypeOK
  <2>1. EmailTypes
    BY DEF Init, EmailTypes, EmailIds, BoxIds
  <2>2. BoxTypes
    BY DEF Init, BoxTypes, BoxIds
  <2>3. LogTypes
    BY DEF Init, LogTypes, Kinds, Changes
  <2>4. TxTypes
    BY DEF Init, TxTypes
  <2> QED BY <2>1, <2>2, <2>3, <2>4, TypeParts
<1>2. Shape /\ Emptying
  BY DEF Init, Shape, Emptying
<1>3. Uids
  BY DEF Init, Uids
<1>4. Tops
  BY DEF Init, Tops
<1>5. \A n, id \in Nat, kind \in Kinds, c \in Changes :
        <<n, kind, id, c>> \in log => n = 1 /\ kind = "Mailbox" /\ c = "created"
  BY DEF Init
<1>6. OneWord
  BY <1>5 DEF OneWord, Init
<1>7. EmailsTold /\ ThreadsTold
  BY DEF Init, EmailsTold, ThreadsTold
<1>8. EmailTurns /\ ThreadTurns /\ BoxTurns
  BY DEF Init, EmailTurns, ThreadTurns, BoxTurns
<1>9. BoxesTold
  <2>1. ASSUME NEW b \in 1 .. lastBox PROVE ~LastDestroyed("Mailbox", b) /\ b \in boxes
    <3>1. b \in Nat /\ "Mailbox" \in Kinds /\ "destroyed" \in Changes /\ modseq = 1 /\ b \in boxes
      BY DEF Init, Kinds, Changes
    <3> QED BY <1>5, <3>1 DEF LastDestroyed, LastSaid
  <2> QED BY <2>1 DEF BoxesTold, BoxTold
<1> QED BY <1>1, <1>2, <1>3, <1>4, <1>6, <1>7, <1>8, <1>9 DEF StoreInv

\* Every step of the store keeps its invariant.
LEMMA StoreStep == StoreInv /\ [Next]_storeVars => StoreInv'
<1> SUFFICES ASSUME StoreInv, [Next]_storeVars PROVE StoreInv'
  OBVIOUS
<1>1. TypeOK /\ Shape /\ Uids /\ Emptying /\ Tops /\ LogInv
  BY DEF StoreInv, LogInv
<1>2. TypeOK' /\ Shape'
  BY <1>1, ShapeStep
<1>3. Uids' /\ Emptying' /\ Tops'
  BY <1>1, UidsStep, EmptyingStep, TopsStep
<1>4. LogInv'
  BY <1>1, <1>2, LogInvStep
<1> QED BY <1>2, <1>3, <1>4 DEF StoreInv, LogInv

\* The store keeps its inductive invariant for any number of emails, threads,
\* mailboxes and changes, in and between the transactions of the store's write lock.
THEOREM StoreInvariant == Spec => []StoreInv
<1>1. Init => StoreInv
  BY StoreInit
<1>2. StoreInv /\ [Next]_storeVars => StoreInv'
  BY StoreStep
<1> QED BY <1>1, <1>2, PTL DEF Spec

\* The rows of the store keep their types.
THEOREM StoreTypeCorrect == Spec => []TypeOK
<1>1. StoreInv => TypeOK
  BY DEF StoreInv
<1> QED BY <1>1, StoreInvariant, PTL

\* What the log says of emails, threads and mailboxes follows from the invariant.
LEMMA ToldIsLogged == StoreInv => EmailsLogged /\ ThreadsLogged /\ MailboxesLogged
<1> SUFFICES ASSUME StoreInv PROVE EmailsLogged /\ ThreadsLogged /\ MailboxesLogged
  OBVIOUS
<1>1. EmailsLogged
  BY DEF StoreInv, EmailsTold, EmailTold, EmailsLogged
<1>2. MailboxesLogged
  BY DEF StoreInv, BoxesTold, BoxTold, MailboxesLogged
<1>3. ASSUME NEW t \in 1 .. lastThread, NEW n \in 1 .. modseq, TwoDestroyed(t, n)
      PROVE  Cardinality({e \in DestroyedAt(n) : threadOf[e] = t}) > 1
  <2> DEFINE gone == {e \in DestroyedAt(n) : threadOf[e] = t}
  <2>1. PICK e \in gone, f \in gone : e # f
    BY <1>3 DEF TwoDestroyed, DestroyedAt
  <2>2. IsFiniteSet(gone)
    <3>1. lastEmail \in Int
      BY DEF StoreInv, TypeOK
    <3>2. IsFiniteSet(1 .. lastEmail)
      BY <3>1, FS_Interval
    <3>3. gone \subseteq 1 .. lastEmail
      BY DEF DestroyedAt
    <3> QED BY <3>2, <3>3, FS_Subset
  <2> HIDE DEF gone
  <2>3. IsFiniteSet(gone \ {e}) /\ Cardinality(gone \ {e}) = Cardinality(gone) - 1
    BY <2>2, FS_RemoveElement
  <2>4. Cardinality(gone \ {e}) # 0 /\ Cardinality(gone \ {e}) \in Nat /\ Cardinality(gone) \in Nat
    BY <2>1, <2>2, <2>3, FS_EmptySet, FS_CardinalityType
  <2>5. Cardinality(gone) > 1
    BY <2>3, <2>4
  <2> QED BY <2>5 DEF gone
<1>4. ThreadsLogged
  BY <1>3 DEF StoreInv, ThreadsTold, ThreadTold, ThreadsLogged
<1> QED BY <1>1, <1>2, <1>4

\* The change log tells every email's fate: /changes reports an email destroyed when,
\* and only when, it is gone, however batches, removals and destroyed mailboxes met it.
THEOREM EmailsAreLogged == Spec => []EmailsLogged
<1>1. StoreInv => EmailsLogged
  BY ToldIsLogged
<1> QED BY <1>1, StoreInvariant, PTL

\* It tells every thread's fate, except for a thread that went with several of its
\* emails in one batch, of which it keeps the first word: destroy_one's "updated".
THEOREM ThreadsAreLogged == Spec => []ThreadsLogged
<1>1. StoreInv => ThreadsLogged
  BY ToldIsLogged
<1> QED BY <1>1, StoreInvariant, PTL

\* It tells every mailbox's fate, except for one that destroy_mailbox destroyed
\* together with emails.
THEOREM MailboxesAreLogged == Spec => []MailboxesLogged
<1>1. StoreInv => MailboxesLogged
  BY ToldIsLogged
<1> QED BY <1>1, StoreInvariant, PTL

\* A UID that add_to_mailbox hands out is above every UID in use and every UID noted
\* as vanished, in any step of the store.
THEOREM UidsNeverReused == Spec => UidsFresh
<1> DEFINE Above ==
      \A b \in boxes \intersect boxes', e \in EmailIds :
        uid'[b][e] \notin {0, uid[b][e]} =>
          /\ \A f \in EmailIds : uid'[b][e] > uid[b][f]
          /\ \A u \in 1 .. MaxUid : vanished[b][u] # 0 => uid'[b][e] > u
<1> USE DEF emailVars, boxVars, idVars, txVars
<1>1. ASSUME TypeOK, Uids, NEW e \in EmailIds, NEW bs, NEW n, Homed(e, bs, n) PROVE Above
  <2>1. /\ boxes \subseteq BoxIds /\ uid \in [BoxIds -> [EmailIds -> Nat]]
        /\ uidNext \in [BoxIds -> Nat \ {0}]
    BY <1>1 DEF TypeOK
  <2>2. ASSUME NEW b \in BoxIds, NEW f \in EmailIds, uid'[b][f] \notin {0, uid[b][f]}
        PROVE  uid'[b][f] = uidNext[b]
    BY <1>1, <2>1, <2>2 DEF Homed
  <2>3. ASSUME NEW b \in BoxIds PROVE \A f \in EmailIds : uidNext[b] > uid[b][f]
    BY <1>1, <2>1 DEF Uids
  <2>4. ASSUME NEW b \in BoxIds PROVE \A u \in 1 .. MaxUid : vanished[b][u] # 0 => uidNext[b] > u
    BY <1>1, <2>1, CountsAssumption DEF Uids
  <2> QED BY <2>1, <2>2, <2>3, <2>4
<1>2. StoreInv /\ [Next]_storeVars => [Above]_storeVars
  <2> SUFFICES ASSUME StoreInv, [Next]_storeVars PROVE Above
    OBVIOUS
  <2>0. TypeOK /\ Shape /\ Uids /\ Tops /\ emails \subseteq EmailIds
    BY DEF StoreInv, TypeOK
  <2> HIDE DEF Above
  <2>1. CASE Ingests
    BY <1>1, <2>0, <2>1, IngestFrame DEF Ingests
  <2>2. CASE \E e \in emails, bs \in SUBSET boxes : Updates(e, bs)
    BY <1>1, <2>0, <2>2, UpdatesFrame
  <2>3. CASE \E e \in emails : Destroys(e)
    BY <1>1, <2>0, <2>3, DestroysFrame
  <2>4. CASE \E e \in emails : Leaves(e)
    BY <1>1, <2>0, <2>4, LeavesHomes
  <2>5. CASE UNCHANGED uid
    BY <2>5 DEF Above
  <2>6. CASE \/ Begins \/ Commit \/ CreateMailbox \/ DropMailbox \/ UNCHANGED storeVars
             \/ \E b \in boxes : UpdateMailbox(b) \/ BeginDestroyMailbox(b)
    BY <2>5, <2>6 DEF Begins, Opens, Commit, CreateMailbox, DropMailbox, UpdateMailbox,
                      BeginDestroyMailbox, storeVars
  <2> QED BY <2>0, <2>1, <2>2, <2>3, <2>4, <2>6, NextCases
<1> HIDE DEF Above
<1>3. Spec => [][Above]_storeVars
  BY <1>2, StoreInvariant, PTL DEF Spec
<1> QED BY <1>3 DEF UidsFresh, Above

-----------------------------------------------------------------------------
(* The log as readers see it.                                              *)

\* The objects of a kind, and the highest id it used so far.
Alive(kind) == CASE kind = "Email" -> emails [] kind = "Thread" -> threads [] kind = "Mailbox" -> boxes
LastOf(kind) == CASE kind = "Email" -> lastEmail [] kind = "Thread" -> lastThread [] kind = "Mailbox" -> lastBox

\* The log has said that an object was created.
Born(kind, id) == \E m \in Nat : <<m, kind, id, "created">> \in log

\* The log speaks of no object that is yet to come, tells of every object that there is or
\* was that it was created, before anything else, and that it was destroyed after anything
\* else and only when it is gone.
Stories ==
  /\ \A n, id \in Nat, kind \in Kinds, c \in Changes :
       <<n, kind, id, c>> \in log => id \in 1 .. LastOf(kind) /\ Born(kind, id)
  /\ \A n, id \in Nat, kind \in Kinds : <<n, kind, id, "destroyed">> \in log => id \notin Alive(kind)
  /\ \A kind \in Kinds : \A id \in Alive(kind) : Born(kind, id)
  /\ \A m, n, id \in Nat, kind \in Kinds, c \in Changes :
       <<n, kind, id, c>> \in log =>
         /\ <<m, kind, id, "created">> \in log => m <= n
         /\ <<m, kind, id, "destroyed">> \in log => n <= m

\* A batch that has its modseq has said something, unless it is the destruction of a mailbox.
Spoken ==
  batch # 0 /\ op # "emptying" =>
    \E kind \in Kinds, id \in Nat, c \in Changes : <<batch, kind, id, c>> \in log

\* What a step of the store adds to the stories: rows of modseq n, on what is new, changed
\* or gone.
Narrates(n) ==
  /\ log \subseteq log'
  /\ \A m, id \in Nat, kind \in Kinds, c \in Changes :
       <<m, kind, id, c>> \in log' /\ <<m, kind, id, c>> \notin log =>
         /\ m = n
         /\ \/ c = "created" /\ id > LastOf(kind) /\ id <= LastOf(kind)'
            \/ c = "updated" /\ id \in Alive(kind)
            \/ c = "destroyed" /\ id \in Alive(kind) /\ id \notin Alive(kind)'
  /\ \A kind \in Kinds :
       /\ LastOf(kind) <= LastOf(kind)'
       /\ \A id \in Alive(kind)' : id \notin Alive(kind) =>
            id > LastOf(kind) /\ <<n, kind, id, "created">> \in log'

\* What record_change does with rows of modseq n.
Records(rows, n) ==
  /\ log \subseteq log'
  /\ \A m, id \in Nat, kind \in Kinds, c \in Changes : <<m, kind, id, c>> \in log' =>
       <<m, kind, id, c>> \in log \/ (m = n /\ <<m, kind, id, c>> \in rows)
  /\ \A id \in Nat, kind \in Kinds, c \in Changes : <<n, kind, id, c>> \in rows =>
       /\ \E d \in Changes : <<n, kind, id, d>> \in log'
       /\ (\A d \in Changes : <<n, kind, id, d>> \notin log) => <<n, kind, id, c>> \in log'

\* INSERT OR IGNORE of rows of one modseq: each object among them has a word there.
LEMMA RecordedTells ==
  ASSUME TypeOK, NEW n \in Nat, NEW rows \in SUBSET LogRows, log' = Recorded(rows),
         \A m, id \in Nat, kind \in Kinds, c \in Changes : <<m, kind, id, c>> \in rows => m = n
  PROVE  Records(rows, n)
<1>1. ASSUME NEW m \in Nat, NEW id \in Nat, NEW kind \in Kinds, NEW c \in Changes
      PROVE  <<m, kind, id, c>> \in log' <=>
               \/ <<m, kind, id, c>> \in log
               \/ <<m, kind, id, c>> \in rows /\ \A d \in Changes : <<m, kind, id, d>> \notin log
  BY RecordedWord
<1>2. log \subseteq log'
  BY DEF Recorded
<1>3. ASSUME NEW id \in Nat, NEW kind \in Kinds, NEW c \in Changes, <<n, kind, id, c>> \in rows
      PROVE  /\ \E d \in Changes : <<n, kind, id, d>> \in log'
             /\ (\A d \in Changes : <<n, kind, id, d>> \notin log) => <<n, kind, id, c>> \in log'
  <2>1. CASE \A d \in Changes : <<n, kind, id, d>> \notin log
    BY <1>1, <1>3, <2>1
  <2>2. CASE \E d \in Changes : <<n, kind, id, d>> \in log
    BY <1>2, <2>2
  <2> QED BY <2>1, <2>2
<1>4. \A m, id \in Nat, kind \in Kinds, c \in Changes : <<m, kind, id, c>> \in log' =>
        <<m, kind, id, c>> \in log \/ (m = n /\ <<m, kind, id, c>> \in rows)
  BY <1>1
<1> QED BY <1>2, <1>3, <1>4 DEF Records

\* Narrates, kind by kind.
Narrated(kind, n, alive, aliveNext, last, lastNext) ==
  /\ \A m, id \in Nat, c \in Changes :
       <<m, kind, id, c>> \in log' /\ <<m, kind, id, c>> \notin log =>
         /\ m = n
         /\ \/ c = "created" /\ id > last /\ id <= lastNext
            \/ c = "updated" /\ id \in alive
            \/ c = "destroyed" /\ id \in alive /\ id \notin aliveNext
  /\ last <= lastNext
  /\ \A id \in aliveNext : id \notin alive => id > last /\ <<n, kind, id, "created">> \in log'

\* The three kinds are all there are.
LEMMA NarratesAll ==
  ASSUME NEW n \in Nat, log \subseteq log',
         Narrated("Email", n, emails, emails', lastEmail, lastEmail'),
         Narrated("Thread", n, threads, threads', lastThread, lastThread'),
         Narrated("Mailbox", n, boxes, boxes', lastBox, lastBox')
  PROVE  Narrates(n)
<1>1. ASSUME NEW kind \in Kinds PROVE Narrated(kind, n, Alive(kind), Alive(kind)', LastOf(kind), LastOf(kind)')
  <2>1. CASE kind = "Email"
    <3>1. Alive(kind) = emails /\ LastOf(kind) = lastEmail /\ Alive(kind)' = emails' /\ LastOf(kind)' = lastEmail'
      BY <2>1 DEF Alive, LastOf
    <3> QED BY <2>1, <3>1
  <2>2. CASE kind = "Thread"
    <3>1. /\ Alive(kind) = threads /\ LastOf(kind) = lastThread
          /\ Alive(kind)' = threads' /\ LastOf(kind)' = lastThread'
      BY <2>2 DEF Alive, LastOf
    <3> QED BY <2>2, <3>1
  <2>3. CASE kind = "Mailbox"
    <3>1. Alive(kind) = boxes /\ LastOf(kind) = lastBox /\ Alive(kind)' = boxes' /\ LastOf(kind)' = lastBox'
      BY <2>3 DEF Alive, LastOf
    <3> QED BY <2>3, <3>1
  <2> QED BY <2>1, <2>2, <2>3 DEF Kinds
<1>2. ASSUME NEW kind \in Kinds
      PROVE  /\ \A m, id \in Nat, c \in Changes :
                  <<m, kind, id, c>> \in log' /\ <<m, kind, id, c>> \notin log =>
                    /\ m = n
                    /\ \/ c = "created" /\ id > LastOf(kind) /\ id <= LastOf(kind)'
                       \/ c = "updated" /\ id \in Alive(kind)
                       \/ c = "destroyed" /\ id \in Alive(kind) /\ id \notin Alive(kind)'
             /\ LastOf(kind) <= LastOf(kind)'
             /\ \A id \in Alive(kind)' : id \notin Alive(kind) =>
                  id > LastOf(kind) /\ <<n, kind, id, "created">> \in log'
  BY <1>1 DEF Narrated
<1> QED BY <1>2 DEF Narrates

\* The log has a word at modseq n.
Says(n) == \E kind \in Kinds, id \in Nat, c \in Changes : <<n, kind, id, c>> \in log'

\* What the rows of a step say of the objects of one kind.
Due(rows, kind, n, alive, aliveNext, last, lastNext) ==
  /\ \A m, id \in Nat, c \in Changes :
       <<m, kind, id, c>> \in rows =>
         /\ m = n
         /\ \/ c = "created" /\ id > last /\ id <= lastNext
            \/ c = "updated" /\ id \in alive
            \/ c = "destroyed" /\ id \in alive /\ id \notin aliveNext
  /\ last <= lastNext
  /\ \A id \in aliveNext : id \notin alive =>
       /\ id \in Nat /\ id > last
       /\ <<n, kind, id, "created">> \in rows
       /\ \A c \in Changes : <<n, kind, id, c>> \notin log

\* Once recorded they narrate the step.
LEMMA DueNarrated ==
  ASSUME NEW n \in Nat, NEW rows, Records(rows, n), NEW kind \in Kinds, NEW alive, NEW aliveNext,
         NEW last, NEW lastNext, Due(rows, kind, n, alive, aliveNext, last, lastNext)
  PROVE  Narrated(kind, n, alive, aliveNext, last, lastNext)
<1>1. ASSUME NEW m \in Nat, NEW id \in Nat, NEW c \in Changes,
             <<m, kind, id, c>> \in log', <<m, kind, id, c>> \notin log
      PROVE  <<m, kind, id, c>> \in rows
  BY <1>1 DEF Records
<1>2. ASSUME NEW id \in aliveNext, id \notin alive PROVE id > last /\ <<n, kind, id, "created">> \in log'
  <2>1. id \in Nat /\ id > last /\ <<n, kind, id, "created">> \in rows /\ "created" \in Changes
        /\ \A c \in Changes : <<n, kind, id, c>> \notin log
    BY <1>2 DEF Due, Changes
  <2> QED BY <2>1 DEF Records
<1> QED BY <1>1, <1>2 DEF Due, Narrated

\* Rows of all three kinds.
LEMMA DueNarrates ==
  ASSUME TypeOK, NEW n \in Nat, NEW rows \in SUBSET LogRows, log' = Recorded(rows),
         NEW said \in Kinds, NEW of \in Nat, NEW change \in Changes, <<n, said, of, change>> \in rows,
         Due(rows, "Email", n, emails, emails', lastEmail, lastEmail'),
         Due(rows, "Thread", n, threads, threads', lastThread, lastThread'),
         Due(rows, "Mailbox", n, boxes, boxes', lastBox, lastBox')
  PROVE  Narrates(n) /\ Says(n)
<1>1. \A m, id \in Nat, kind \in Kinds, c \in Changes : <<m, kind, id, c>> \in rows => m = n
  BY DEF Due, Kinds
<1>2. Records(rows, n)
  BY <1>1, RecordedTells
<1>3. log \subseteq log' /\ Says(n)
  BY <1>2 DEF Records, Says
<1>4. "Email" \in Kinds /\ "Thread" \in Kinds /\ "Mailbox" \in Kinds
  BY DEF Kinds
<1>5. Narrated("Email", n, emails, emails', lastEmail, lastEmail')
  BY <1>2, <1>4, DueNarrated
<1>6. Narrated("Thread", n, threads, threads', lastThread, lastThread')
  BY <1>2, <1>4, DueNarrated
<1>7. Narrated("Mailbox", n, boxes, boxes', lastBox, lastBox')
  BY <1>2, <1>4, DueNarrated
<1> QED BY <1>3, <1>5, <1>6, <1>7, NarratesAll

\* A new email.
LEMMA IngestNarrates ==
  ASSUME TypeOK, Shape, Uids, Tops, OneWord, NEW n \in Nat, n = modseq + 1,
         NEW bs \in SUBSET boxes, NEW t \in ThreadIds, NEW isSeen \in BOOLEAN, Ingest(bs, t, isSeen)
  PROVE  Narrates(n) /\ Says(n)
<1> USE CountsAssumption
<1>0. lastEmail + 1 \in Nat /\ (IF t \in threads THEN "updated" ELSE "created") \in {"updated", "created"}
  BY DEF TypeOK
<1>b. PICK e \in Nat : e = lastEmail + 1
  BY <1>0
<1>c. PICK said \in {"updated", "created"} : said = IF t \in threads THEN "updated" ELSE "created"
  BY <1>0
<1> DEFINE rows == {<<n, "Mailbox", b, "updated">> : b \in bs} \union
                     {<<n, "Email", e, "created">>, <<n, "Thread", t, said>>}
<1>1. /\ emails' = emails \union {e} /\ lastEmail' = e /\ threads' = threads \union {t}
      /\ lastThread' = IF t \in threads THEN lastThread ELSE t
      /\ boxes' = boxes /\ lastBox' = lastBox /\ t \in ThreadFor /\ log' = Recorded(rows)
  BY <1>b, <1>c DEF Ingest
<1>2. /\ modseq \in Nat /\ t \in Nat /\ lastEmail \in Nat /\ lastThread \in Nat /\ lastBox \in Nat
      /\ boxes \subseteq Nat /\ bs \subseteq boxes /\ said \in Changes /\ threads \subseteq Nat
  BY <1>c DEF TypeOK, ThreadIds, BoxIds, Changes
<1>3. /\ rows \in SUBSET LogRows
      /\ \A m, id \in Nat, kind \in Kinds, c \in Changes : <<m, kind, id, c>> \in rows <=>
           /\ m = n
           /\ \/ kind = "Mailbox" /\ id \in bs /\ c = "updated"
              \/ kind = "Email" /\ id = e /\ c = "created"
              \/ kind = "Thread" /\ id = t /\ c = said
  BY <1>2 DEF LogRows, Kinds, Changes
<1> HIDE DEF rows
<1>n. /\ "Email" \in Kinds /\ "Thread" \in Kinds /\ "Mailbox" \in Kinds
      /\ "created" \in Changes /\ "updated" \in Changes /\ "destroyed" \in Changes
  BY DEF Kinds, Changes
<1>5. \A kind \in Kinds, id \in Nat, c \in Changes : <<n, kind, id, c>> \notin log
  BY <1>2 DEF OneWord
<1>6. Due(rows, "Email", n, emails, emails', lastEmail, lastEmail')
  <2>1. lastEmail <= lastEmail' /\ e > lastEmail /\ e <= lastEmail'
    BY <1>b, <1>1, <1>2
  <2>2. <<n, "Email", e, "created">> \in rows /\ \A c \in Changes : <<n, "Email", e, c>> \notin log
    BY <1>3, <1>5, <1>n
  <2>3. \A m, id \in Nat, c \in Changes : <<m, "Email", id, c>> \in rows => m = n /\ id = e /\ c = "created"
    BY <1>3, <1>n
  <2> QED BY <1>1, <2>1, <2>2, <2>3 DEF Due
<1>7. Due(rows, "Thread", n, threads, threads', lastThread, lastThread')
  <2>1. /\ lastThread <= lastThread' /\ t <= lastThread'
        /\ t \notin threads => t > lastThread
    <3>1. CASE t \in threads
      <4>1. t \in 1 .. lastThread
        BY <3>1 DEF Shape
      <4> QED BY <1>1, <1>2, <3>1, <4>1
    <3>2. CASE t \notin threads
      <4>1. t = lastThread + 1
        BY <1>1, <3>2 DEF ThreadFor
      <4> QED BY <1>1, <1>2, <3>2, <4>1
    <3> QED BY <3>1, <3>2
  <2>2. <<n, "Thread", t, said>> \in rows /\ \A c \in Changes : <<n, "Thread", t, c>> \notin log
    BY <1>2, <1>3, <1>5, <1>n
  <2>3. \A m, id \in Nat, c \in Changes : <<m, "Thread", id, c>> \in rows => m = n /\ id = t /\ c = said
    BY <1>3, <1>n
  <2> QED BY <1>1, <1>2, <1>c, <2>1, <2>2, <2>3 DEF Due
<1>8. Due(rows, "Mailbox", n, boxes, boxes', lastBox, lastBox')
  <2>1. \A m, id \in Nat, c \in Changes :
          <<m, "Mailbox", id, c>> \in rows => m = n /\ id \in boxes /\ c = "updated"
    BY <1>2, <1>3, <1>n
  <2>2. lastBox <= lastBox'
    BY <1>1, <1>2
  <2> QED BY <1>1, <2>1, <2>2 DEF Due
<1>9. <<n, "Email", e, "created">> \in rows
  BY <1>3, <1>n
<1> QED BY <1>1, <1>3, <1>n, <1>6, <1>7, <1>8, <1>9, DueNarrates

\* A change of an email that stays.
LEMMA UpdateNarrates ==
  ASSUME TypeOK, NEW n \in Nat, NEW e \in emails, NEW touched \in SUBSET boxes,
         log' = Recorded({<<n, "Email", e, "updated">>} \union {<<n, "Mailbox", b, "updated">> : b \in touched}),
         UNCHANGED <<emails, threads, boxes, lastEmail, lastThread, lastBox>>
  PROVE  Narrates(n) /\ Says(n)
<1> DEFINE rows == {<<n, "Email", e, "updated">>} \union {<<n, "Mailbox", b, "updated">> : b \in touched}
<1>1. e \in Nat /\ touched \subseteq Nat /\ lastEmail \in Nat /\ lastThread \in Nat /\ lastBox \in Nat
  <2>1. EmailIds \subseteq Nat /\ BoxIds \subseteq Nat
    BY CountsAssumption DEF EmailIds, BoxIds
  <2> QED BY <2>1, NumberTypes
<1>2. /\ rows \in SUBSET LogRows
      /\ \A m, id \in Nat, kind \in Kinds, c \in Changes : <<m, kind, id, c>> \in rows <=>
           /\ m = n /\ c = "updated"
           /\ \/ kind = "Email" /\ id = e
              \/ kind = "Mailbox" /\ id \in touched
  BY <1>1 DEF LogRows, Kinds, Changes
<1>3. log' = Recorded(rows)
  OBVIOUS
<1> HIDE DEF rows
<1>n. "Email" \in Kinds /\ "Thread" \in Kinds /\ "Mailbox" \in Kinds /\ "updated" \in Changes
  BY DEF Kinds, Changes
<1>4. lastEmail <= lastEmail' /\ lastThread <= lastThread' /\ lastBox <= lastBox'
  BY <1>1
<1>5. Due(rows, "Email", n, emails, emails', lastEmail, lastEmail')
  BY <1>2, <1>4, <1>n DEF Due
<1>6. Due(rows, "Thread", n, threads, threads', lastThread, lastThread')
  BY <1>2, <1>4, <1>n DEF Due
<1>7. Due(rows, "Mailbox", n, boxes, boxes', lastBox, lastBox')
  BY <1>2, <1>4, <1>n DEF Due
<1>8. <<n, "Email", e, "updated">> \in rows
  BY <1>1, <1>2, <1>n
<1> QED BY <1>1, <1>2, <1>3, <1>5, <1>6, <1>7, <1>8, <1>n, DueNarrates

\* An email is destroyed.
LEMMA DestroysNarrates ==
  ASSUME TypeOK, Shape, Uids, Tops, NEW n \in Nat, n = BatchModseq, NEW e \in emails, Destroys(e)
  PROVE  Narrates(n) /\ Says(n)
<1> USE CountsAssumption
<1>0. /\ threadOf[e] \in Nat /\ threadOf[e] \in threads
      /\ (IF ~\E f \in emails \ {e} : threadOf[f] = threadOf[e] THEN "destroyed" ELSE "updated")
           \in {"destroyed", "updated"}
  <2>1. threadOf[e] \in ThreadIds /\ threadOf[e] \in threads
    BY DEF TypeOK, Shape
  <2> QED BY <2>1 DEF ThreadIds
<1>b. PICK t \in Nat : t = threadOf[e]
  BY <1>0
<1>c. PICK said \in {"destroyed", "updated"} :
        said = IF ~\E f \in emails \ {e} : threadOf[f] = t THEN "destroyed" ELSE "updated"
  BY <1>0, <1>b
<1> DEFINE touched == BoxesOf(e)
           rows == {<<n, "Email", e, "destroyed">>, <<n, "Thread", t, said>>} \union
                     {<<n, "Mailbox", b, "updated">> : b \in touched}
<1>1. emails' = emails \ {e} /\ UNCHANGED <<boxes, lastEmail, lastThread, lastBox>>
  BY DestroysFrame DEF idVars
<1>2. /\ log' = Recorded(rows)
      /\ threads' = IF said = "destroyed" THEN threads \ {t} ELSE threads
  BY <1>b, <1>c DEF Destroys, DestroyOne, DestroyedRows
<1>3. /\ lastEmail \in Nat /\ lastThread \in Nat /\ lastBox \in Nat /\ boxes \subseteq Nat
      /\ e \in Nat /\ t \in threads /\ touched \subseteq boxes
  <2>1. EmailIds \subseteq Nat /\ BoxIds \subseteq Nat
    BY DEF EmailIds, BoxIds
  <2>2. touched \subseteq boxes
    BY DEF BoxesOf
  <2> QED BY <1>0, <1>b, <2>1, <2>2, NumberTypes
<1> HIDE DEF touched
<1>4. /\ rows \in SUBSET LogRows
      /\ \A m, id \in Nat, kind \in Kinds, c \in Changes : <<m, kind, id, c>> \in rows <=>
           /\ m = n
           /\ \/ kind = "Email" /\ id = e /\ c = "destroyed"
              \/ kind = "Thread" /\ id = t /\ c = said
              \/ kind = "Mailbox" /\ id \in touched /\ c = "updated"
  BY <1>3 DEF LogRows, Kinds, Changes
<1> HIDE DEF rows
<1>n. /\ "Email" \in Kinds /\ "Thread" \in Kinds /\ "Mailbox" \in Kinds
      /\ "updated" \in Changes /\ "destroyed" \in Changes
  BY DEF Kinds, Changes
<1>5. lastEmail <= lastEmail' /\ lastThread <= lastThread' /\ lastBox <= lastBox'
  BY <1>1, <1>3
<1>6. Due(rows, "Email", n, emails, emails', lastEmail, lastEmail')
  BY <1>1, <1>4, <1>5, <1>n DEF Due
<1>7. Due(rows, "Thread", n, threads, threads', lastThread, lastThread')
  <2>1. \A m, id \in Nat, c \in Changes : <<m, "Thread", id, c>> \in rows => m = n /\ id = t /\ c = said
    BY <1>4, <1>n
  <2> QED BY <1>2, <1>3, <1>5, <2>1 DEF Due
<1>8. Due(rows, "Mailbox", n, boxes, boxes', lastBox, lastBox')
  BY <1>1, <1>3, <1>4, <1>5, <1>n DEF Due
<1>9. <<n, "Email", e, "destroyed">> \in rows
  BY <1>3, <1>4, <1>n
<1> QED BY <1>2, <1>3, <1>4, <1>6, <1>7, <1>8, <1>9, <1>n, DueNarrates

\* A change of one mailbox.
LEMMA MailboxNarrates ==
  ASSUME TypeOK, NEW n \in Nat, NEW b \in Nat, NEW said \in Changes,
         log' = Recorded({<<n, "Mailbox", b, said>>}), lastBox <= lastBox',
         UNCHANGED <<emails, threads, lastEmail, lastThread>>, boxes' \ boxes \subseteq {b},
         said = "created" => b > lastBox /\ b <= lastBox',
         said = "updated" => b \in boxes,
         said = "destroyed" => b \in boxes /\ b \notin boxes',
         b \in boxes' \ boxes => said = "created" /\ \A c \in Changes : <<n, "Mailbox", b, c>> \notin log
  PROVE  Narrates(n) /\ Says(n)
<1> DEFINE rows == {<<n, "Mailbox", b, said>>}
<1>n. "Email" \in Kinds /\ "Thread" \in Kinds /\ "Mailbox" \in Kinds
  BY DEF Kinds
<1>1. /\ rows \in SUBSET LogRows
      /\ \A m, id \in Nat, kind \in Kinds, c \in Changes : <<m, kind, id, c>> \in rows <=>
           m = n /\ kind = "Mailbox" /\ id = b /\ c = said
  BY <1>n DEF LogRows
<1>2. log' = Recorded(rows)
  OBVIOUS
<1> HIDE DEF rows
<1>3. lastEmail <= lastEmail' /\ lastThread <= lastThread'
  BY NumberTypes
<1>4. Due(rows, "Email", n, emails, emails', lastEmail, lastEmail')
  BY <1>1, <1>3, <1>n DEF Due
<1>5. Due(rows, "Thread", n, threads, threads', lastThread, lastThread')
  BY <1>1, <1>3, <1>n DEF Due
<1>6. Due(rows, "Mailbox", n, boxes, boxes', lastBox, lastBox')
  <2>1. \A m, id \in Nat, c \in Changes : <<m, "Mailbox", id, c>> \in rows => m = n /\ id = b /\ c = said
    BY <1>1, <1>n
  <2>2. <<n, "Mailbox", b, said>> \in rows
    BY <1>1, <1>n
  <2> QED BY <2>1, <2>2 DEF Due, Changes
<1>7. <<n, "Mailbox", b, said>> \in rows
  BY <1>1, <1>n
<1> QED BY <1>1, <1>2, <1>4, <1>5, <1>6, <1>7, <1>n, DueNarrates

\* A step that writes nothing.
LEMMA QuietNarrates ==
  ASSUME TypeOK, NEW n \in Nat,
         UNCHANGED <<log, emails, threads, boxes, lastEmail, lastThread, lastBox>>
  PROVE  Narrates(n)
<1>1. lastEmail <= lastEmail' /\ lastThread <= lastThread' /\ lastBox <= lastBox'
  BY NumberTypes
<1>2. Narrated("Email", n, emails, emails', lastEmail, lastEmail')
  BY <1>1 DEF Narrated
<1>3. Narrated("Thread", n, threads, threads', lastThread, lastThread')
  BY <1>1 DEF Narrated
<1>4. Narrated("Mailbox", n, boxes, boxes', lastBox, lastBox')
  BY <1>1 DEF Narrated
<1> QED BY <1>2, <1>3, <1>4, NarratesAll

\* A step of the store, as the log tells it: at the modseq after the one readers see, which
\* they see next only if it says something.
Publishes(n) ==
  /\ n = SeenModseq + 1 /\ Narrates(n)
  /\ SeenModseq' \in {SeenModseq, n}
  /\ SeenModseq' = n => Says(n) /\ modseq' = n
  /\ modseq' <= n

\* Every step of the store is one.
LEMMA StorePublishes ==
  ASSUME StoreInv, StoreInv', Spoken, [Next]_storeVars
  PROVE  (\E n \in Nat : Publishes(n)) /\ Spoken'
<1> USE DEF emailVars, boxVars, idVars, txVars
<1>0. TypeOK /\ Shape /\ Uids /\ Tops /\ OneWord
  BY DEF StoreInv
<1>1. /\ modseq \in Nat /\ modseq # 0 /\ batch \in Nat /\ lastBox \in Nat /\ boxes \subseteq Nat
      /\ boxes \subseteq 1 .. lastBox /\ batch \in {0, modseq}
  <2>1. batch \in Nat
    BY <1>0, TypeParts, CountsAssumption DEF TxTypes
  <2>2. BoxIds \subseteq Nat
    BY DEF BoxIds
  <2>3. modseq # 0
    BY <1>0, TypeParts DEF EmailTypes
  <2> QED BY <1>0, <2>1, <2>2, <2>3, NumberTypes DEF Shape
<1>2. PICK n \in Nat : n = BatchModseq
  BY <1>1 DEF BatchModseq
<1>3. /\ batch = 0 => n = modseq + 1 /\ SeenModseq = modseq
      /\ batch # 0 => n = modseq /\ n = batch /\ SeenModseq = modseq - 1
      /\ n = SeenModseq + 1 /\ SeenModseq \in Nat
      /\ op = "none" => batch = 0
      /\ op = "emptying" => batch # 0 /\ box \in boxes
  <2>1. op = "none" => batch = 0
    BY <1>0 DEF Shape
  <2>2. op = "emptying" => batch # 0 /\ box \in boxes
    BY <1>0, <1>1 DEF Shape
  <2> QED BY <1>1, <1>2, <2>1, <2>2 DEF BatchModseq, SeenModseq
<1>4. /\ batch' = 0 => SeenModseq' = modseq'
      /\ batch' # 0 => SeenModseq' = modseq' - 1
  BY DEF SeenModseq
<1> DEFINE Goal == Publishes(n) /\ Spoken'
<1>5. ASSUME Narrates(n), Says(n), batch = 0, batch' = 0, modseq' = modseq + 1 PROVE Goal
  BY <1>1, <1>3, <1>4, <1>5 DEF Publishes, Spoken
<1>6. ASSUME Narrates(n), Says(n), batch' = n, modseq' = n PROVE Goal
  <2>1. Publishes(n)
    BY <1>1, <1>3, <1>4, <1>6 DEF Publishes
  <2>2. Spoken'
    BY <1>6 DEF Spoken, Says
  <2> QED BY <2>1, <2>2
<1>7. ASSUME Ingests PROVE Goal
  <2>1. PICK bs \in SUBSET boxes, t \in ThreadIds, isSeen \in BOOLEAN : Ingest(bs, t, isSeen)
    BY <1>7 DEF Ingests
  <2>2. modseq' = modseq + 1 /\ batch' = batch /\ op = "none"
    BY <2>1 DEF Ingest
  <2>3. Narrates(n) /\ Says(n)
    BY <1>0, <1>3, <2>1, <2>2, IngestNarrates
  <2> QED BY <1>3, <1>5, <2>2, <2>3
<1>8. ASSUME NEW e \in emails, NEW bs \in SUBSET boxes, Updates(e, bs) PROVE Goal
  <2>1. /\ modseq' = n /\ batch' = n
        /\ UNCHANGED <<emails, threads, boxes, lastEmail, lastThread, lastBox>>
    BY <1>0, <1>2, <1>8, UpdatesFrame
  <2>2. PICK touched \in SUBSET boxes :
          log' = Recorded({<<n, "Email", e, "updated">>} \union {<<n, "Mailbox", b, "updated">> : b \in touched})
    BY <1>2, <1>8 DEF Updates, UpdateEffect
  <2>3. Narrates(n) /\ Says(n)
    BY <1>0, <2>1, <2>2, UpdateNarrates
  <2> QED BY <1>6, <2>1, <2>3
<1>9. ASSUME NEW e \in emails, Destroys(e) PROVE Goal
  <2>1. modseq' = n /\ batch' = n
    BY <1>0, <1>2, <1>9, DestroysFrame
  <2>2. Narrates(n) /\ Says(n)
    BY <1>0, <1>2, <1>9, DestroysNarrates
  <2> QED BY <1>6, <2>1, <2>2
<1>10. ASSUME NEW e \in emails, Leaves(e) PROVE Goal
  <2>1. /\ op = "emptying" /\ modseq' = modseq /\ batch' = batch
        /\ log' = Recorded({<<batch, "Email", e, "updated">>})
        /\ UNCHANGED <<emails, threads, boxes, lastEmail, lastThread, lastBox>>
    BY <1>10 DEF Leaves
  <2>2. modseq' = n /\ batch' = n
    BY <1>3, <2>1
  <2>3. PICK touched \in SUBSET boxes : touched = {}
    OBVIOUS
  <2>4. {<<n, "Email", e, "updated">>} \union {<<n, "Mailbox", b, "updated">> : b \in touched}
          = {<<batch, "Email", e, "updated">>}
    BY <1>3, <2>1, <2>3
  <2>5. Narrates(n) /\ Says(n)
    BY <1>0, <2>1, <2>4, UpdateNarrates
  <2> QED BY <1>6, <2>2, <2>5
<1>11. ASSUME CreateMailbox PROVE Goal
  <2>1. /\ op = "none" /\ modseq' = modseq + 1 /\ batch' = batch
        /\ lastBox' = lastBox + 1 /\ boxes' = boxes \union {lastBox + 1}
        /\ log' = Recorded({<<modseq + 1, "Mailbox", lastBox + 1, "created">>})
        /\ UNCHANGED <<emails, threads, lastEmail, lastThread>>
    BY <1>11 DEF CreateMailbox
  <2>2. PICK b \in Nat : b = lastBox + 1
    BY <1>1
  <2>3. /\ n = modseq + 1 /\ b \notin boxes /\ boxes' = boxes \union {b} /\ b > lastBox /\ b <= lastBox'
        /\ lastBox <= lastBox' /\ log' = Recorded({<<n, "Mailbox", b, "created">>})
    BY <1>1, <1>3, <2>1, <2>2
  <2>4. \A c \in Changes : <<n, "Mailbox", b, c>> \notin log
    BY <1>0, <1>1, <2>3 DEF OneWord, Kinds
  <2>5. boxes' \ boxes = {b} /\ "created" \in Changes
    BY <2>3 DEF Changes
  <2>6. Narrates(n) /\ Says(n)
    BY <1>0, <2>1, <2>3, <2>4, <2>5, MailboxNarrates
  <2> QED BY <1>3, <1>5, <2>1, <2>6
<1>12. ASSUME NEW b \in boxes, UpdateMailbox(b) PROVE Goal
  <2>1. /\ op = "none" /\ modseq' = modseq + 1 /\ batch' = batch
        /\ log' = Recorded({<<modseq + 1, "Mailbox", b, "updated">>})
        /\ UNCHANGED <<emails, threads, boxes, lastEmail, lastThread, lastBox>>
    BY <1>12 DEF UpdateMailbox
  <2>2. n = modseq + 1 /\ log' = Recorded({<<n, "Mailbox", b, "updated">>}) /\ lastBox <= lastBox' /\ b \in Nat
    BY <1>1, <1>3, <2>1
  <2>3. boxes' \ boxes = {} /\ "updated" \in Changes
    BY <2>1 DEF Changes
  <2>4. Narrates(n) /\ Says(n)
    BY <1>0, <2>1, <2>2, <2>3, MailboxNarrates
  <2> QED BY <1>3, <1>5, <2>1, <2>4
<1>13. ASSUME DropMailbox PROVE Goal
  <2>1. /\ op = "emptying" /\ boxes' = boxes \ {box} /\ batch' = 0
        /\ log' = Recorded({<<batch, "Mailbox", box, "destroyed">>}) /\ modseq' = modseq
        /\ UNCHANGED <<emails, threads, lastEmail, lastThread, lastBox>>
    BY <1>13 DEF DropMailbox, DroppedRows, Closes
  <2>2. PICK b \in Nat : b = box
    BY <1>1, <1>3, <2>1
  <2>3. /\ b \in boxes /\ boxes' = boxes \ {b} /\ lastBox <= lastBox'
        /\ log' = Recorded({<<n, "Mailbox", b, "destroyed">>})
    BY <1>1, <1>3, <2>1, <2>2
  <2>4. boxes' \ boxes = {} /\ "destroyed" \in Changes /\ b \notin boxes'
    BY <2>3 DEF Changes
  <2>5. Narrates(n) /\ Says(n)
    BY <1>0, <2>1, <2>3, <2>4, MailboxNarrates
  <2> QED BY <1>1, <1>3, <1>4, <2>1, <2>5 DEF Publishes, Spoken
<1>14. ASSUME Begins \/ (\E b \in boxes : BeginDestroyMailbox(b)) \/ UNCHANGED storeVars PROVE Goal
  <2>1. UNCHANGED <<log, emails, threads, boxes, lastEmail, lastThread, lastBox>>
    BY <1>14 DEF Begins, Opens, BeginDestroyMailbox, storeVars
  <2>2. \/ modseq' = modseq /\ batch' = batch /\ (op' = op \/ op = "none")
        \/ modseq' = modseq + 1 /\ batch' = modseq + 1 /\ op = "none" /\ op' = "emptying"
    BY <1>14 DEF Begins, Opens, BeginDestroyMailbox, storeVars
  <2>3. Narrates(n)
    BY <1>0, <2>1, QuietNarrates
  <2>4. SeenModseq' = SeenModseq /\ modseq' <= n
    BY <1>1, <1>3, <1>4, <2>2
  <2>5. Publishes(n)
    BY <1>3, <2>3, <2>4 DEF Publishes
  <2>6. Spoken'
    BY <1>3, <2>1, <2>2 DEF Spoken
  <2> QED BY <2>5, <2>6
<1>15. ASSUME Commit PROVE Goal
  <2>1. /\ op \in {"update", "destroy", "takeout"} /\ batch' = 0 /\ modseq' = modseq
        /\ UNCHANGED <<log, emails, threads, boxes, lastEmail, lastThread, lastBox>>
    BY <1>15 DEF Commit, Closes
  <2>2. Narrates(n)
    BY <1>0, <2>1, QuietNarrates
  <2>3. CASE batch = 0
    BY <1>1, <1>3, <1>4, <2>1, <2>2, <2>3 DEF Publishes, Spoken
  <2>4. CASE batch # 0
    <3>1. Says(n)
      BY <1>3, <2>1, <2>4 DEF Spoken, Says
    <3> QED BY <1>1, <1>3, <1>4, <2>1, <2>2, <2>4, <3>1 DEF Publishes, Spoken
  <2> QED BY <2>3, <2>4
<1> HIDE DEF Goal
<1>16. Goal
  BY <1>0, <1>7, <1>8, <1>9, <1>10, <1>11, <1>12, <1>13, <1>14, <1>15, NextCases
<1> QED BY <1>16 DEF Goal

\* A step that the log tells like this keeps the stories.
LEMMA StoriesStep ==
  ASSUME StoreInv, StoreInv', Stories, NEW n \in Nat, Publishes(n)
  PROVE  Stories'
<1>1. /\ OneWord /\ TypeOK /\ modseq \in Nat /\ modseq <= n
      /\ \A kind \in Kinds : Alive(kind) \subseteq Nat /\ LastOf(kind) \in Nat /\ LastOf(kind)' \in Nat
      /\ \A kind \in Kinds : Alive(kind) \subseteq 1 .. LastOf(kind) /\ Alive(kind)' \subseteq 1 .. LastOf(kind)'
  <2>1. TypeOK /\ TypeOK' /\ Shape /\ Shape' /\ OneWord
    BY DEF StoreInv
  <2>2. /\ lastEmail \in Nat /\ lastThread \in Nat /\ lastBox \in Nat /\ modseq \in Nat
        /\ lastEmail' \in Nat /\ lastThread' \in Nat /\ lastBox' \in Nat
    BY <2>1, NumberTypes DEF TypeOK
  <2>3. /\ emails \subseteq 1 .. lastEmail /\ threads \subseteq 1 .. lastThread /\ boxes \subseteq 1 .. lastBox
        /\ emails' \subseteq 1 .. lastEmail' /\ threads' \subseteq 1 .. lastThread'
        /\ boxes' \subseteq 1 .. lastBox'
    BY <2>1 DEF Shape
  <2>4. modseq <= n
    BY <2>2 DEF Publishes, SeenModseq
  <2>5. ASSUME NEW kind \in Kinds
        PROVE  /\ LastOf(kind) \in Nat /\ LastOf(kind)' \in Nat
               /\ Alive(kind) \subseteq 1 .. LastOf(kind) /\ Alive(kind)' \subseteq 1 .. LastOf(kind)'
    BY <2>2, <2>3 DEF Alive, LastOf, Kinds
  <2> QED BY <2>1, <2>2, <2>4, <2>5
<1>2. /\ log \subseteq log'
      /\ \A m, id \in Nat, kind \in Kinds, c \in Changes :
           <<m, kind, id, c>> \in log' /\ <<m, kind, id, c>> \notin log =>
             /\ m = n
             /\ \/ c = "created" /\ id > LastOf(kind) /\ id <= LastOf(kind)'
                \/ c = "updated" /\ id \in Alive(kind)
                \/ c = "destroyed" /\ id \in Alive(kind) /\ id \notin Alive(kind)'
      /\ \A kind \in Kinds :
           /\ LastOf(kind) <= LastOf(kind)'
           /\ \A id \in Alive(kind)' : id \notin Alive(kind) =>
                id > LastOf(kind) /\ <<n, kind, id, "created">> \in log'
  BY DEF Publishes, Narrates
<1>3. ASSUME NEW kind \in Kinds, NEW id \in Nat, Born(kind, id) PROVE Born(kind, id)'
  BY <1>2, <1>3 DEF Born
<1>4. \A m, id \in Nat, kind \in Kinds, c \in Changes : <<m, kind, id, c>> \in log => m <= n
  BY <1>1 DEF OneWord
<1>5. "created" \in Changes /\ "updated" \in Changes /\ "destroyed" \in Changes
  BY DEF Changes
<1>6. ASSUME NEW kind \in Kinds, NEW id \in Alive(kind)' PROVE Born(kind, id)'
  <2>1. CASE id \in Alive(kind)
    BY <1>1, <1>3, <2>1 DEF Stories
  <2>2. CASE id \notin Alive(kind)
    BY <1>2, <2>2 DEF Born
  <2> QED BY <2>1, <2>2
<1>7. ASSUME NEW m \in Nat, NEW id \in Nat, NEW kind \in Kinds, NEW c \in Changes, <<m, kind, id, c>> \in log'
      PROVE  id \in 1 .. LastOf(kind)' /\ Born(kind, id)'
  <2>1. CASE <<m, kind, id, c>> \in log
    <3>1. id \in 1 .. LastOf(kind) /\ Born(kind, id)
      BY <2>1 DEF Stories
    <3> QED BY <1>1, <1>2, <1>3, <3>1
  <2>2. CASE <<m, kind, id, c>> \notin log
    <3>1. CASE c = "created"
      <4>1. id > LastOf(kind) /\ id <= LastOf(kind)'
        BY <1>2, <1>5, <1>7, <2>2, <3>1
      <4>2. Born(kind, id)'
        BY <1>7, <3>1 DEF Born
      <4> QED BY <1>1, <4>1, <4>2
    <3>2. CASE c # "created"
      <4>1. id \in Alive(kind)
        BY <1>2, <1>7, <2>2, <3>2
      <4>2. Born(kind, id)
        BY <4>1 DEF Stories
      <4> QED BY <1>1, <1>2, <1>3, <4>1, <4>2
    <3> QED BY <3>1, <3>2
  <2> QED BY <2>1, <2>2
<1>8. ASSUME NEW m \in Nat, NEW id \in Nat, NEW kind \in Kinds, <<m, kind, id, "destroyed">> \in log'
      PROVE  id \notin Alive(kind)'
  <2>1. CASE <<m, kind, id, "destroyed">> \in log
    <3>1. id \in 1 .. LastOf(kind) /\ id \notin Alive(kind)
      BY <1>5, <2>1 DEF Stories
    <3>2. id \in Alive(kind)' => id > LastOf(kind)
      BY <1>2, <3>1
    <3>3. ~(id > LastOf(kind))
      BY <1>1, <3>1
    <3> QED BY <3>2, <3>3
  <2>2. CASE <<m, kind, id, "destroyed">> \notin log
    BY <1>2, <1>5, <1>8, <2>2
  <2> QED BY <2>1, <2>2
<1>9. ASSUME NEW m \in Nat, NEW k \in Nat, NEW id \in Nat, NEW kind \in Kinds, NEW c \in Changes,
             <<k, kind, id, c>> \in log', <<m, kind, id, "created">> \in log'
      PROVE  m <= k
  <2>1. CASE <<m, kind, id, "created">> \in log
    <3>1. CASE <<k, kind, id, c>> \in log
      BY <2>1, <3>1 DEF Stories
    <3>2. CASE <<k, kind, id, c>> \notin log
      BY <1>2, <1>4, <1>5, <1>9, <2>1, <3>2
    <3> QED BY <3>1, <3>2
  <2>2. CASE <<m, kind, id, "created">> \notin log
    <3>1. id > LastOf(kind) /\ m = n
      BY <1>2, <1>5, <1>9, <2>2
    <3>2. <<k, kind, id, c>> \notin log
      BY <1>1, <3>1 DEF Stories
    <3> QED BY <1>2, <1>9, <3>1, <3>2
  <2> QED BY <2>1, <2>2
<1>10. ASSUME NEW m \in Nat, NEW k \in Nat, NEW id \in Nat, NEW kind \in Kinds, NEW c \in Changes,
              <<k, kind, id, c>> \in log', <<m, kind, id, "destroyed">> \in log'
       PROVE  k <= m
  <2>1. CASE <<m, kind, id, "destroyed">> \in log
    <3>1. CASE <<k, kind, id, c>> \in log
      BY <2>1, <3>1 DEF Stories
    <3>2. CASE <<k, kind, id, c>> \notin log
      <4>1. id \in 1 .. LastOf(kind) /\ id \notin Alive(kind)
        BY <1>5, <2>1 DEF Stories
      <4> QED BY <1>1, <1>2, <1>10, <3>2, <4>1
    <3> QED BY <3>1, <3>2
  <2>2. CASE <<m, kind, id, "destroyed">> \notin log
    BY <1>2, <1>4, <1>5, <1>10, <2>2
  <2> QED BY <2>1, <2>2
<1> QED BY <1>6, <1>7, <1>8, <1>9, <1>10 DEF Stories

\* The stories begin with the default mailboxes.
LEMMA StoriesInit == Init => Stories /\ Spoken
<1> SUFFICES ASSUME Init PROVE Stories /\ Spoken
  OBVIOUS
<1>1. /\ emails = {} /\ threads = {} /\ boxes = 1 .. DefaultBoxes /\ lastBox = DefaultBoxes /\ batch = 0
      /\ log = {<<1, "Mailbox", b, "created">> : b \in 1 .. DefaultBoxes} /\ DefaultBoxes \in Nat
  BY CountsAssumption DEF Init
<1>2. ASSUME NEW n \in Nat, NEW id \in Nat, NEW kind \in Kinds, NEW c \in Changes
      PROVE  <<n, kind, id, c>> \in log <=>
               n = 1 /\ kind = "Mailbox" /\ c = "created" /\ id \in 1 .. DefaultBoxes
  BY <1>1
<1>3. /\ Alive("Email") = {} /\ Alive("Thread") = {} /\ Alive("Mailbox") = 1 .. DefaultBoxes
      /\ LastOf("Mailbox") = DefaultBoxes
  BY <1>1 DEF Alive, LastOf
<1>4. ASSUME NEW id \in 1 .. DefaultBoxes PROVE Born("Mailbox", id)
  <2>1. id \in Nat /\ 1 \in Nat
    BY <1>1
  <2>2. <<1, "Mailbox", id, "created">> \in log
    BY <1>1
  <2> QED BY <2>1, <2>2 DEF Born
<1>5. \A kind \in Kinds : \A id \in Alive(kind) : Born(kind, id)
  BY <1>3, <1>4 DEF Kinds
<1>6. \A n, id \in Nat, kind \in Kinds, c \in Changes :
        <<n, kind, id, c>> \in log => id \in 1 .. LastOf(kind) /\ Born(kind, id)
  BY <1>2, <1>3, <1>4
<1>7. \A n, id \in Nat, kind \in Kinds : <<n, kind, id, "destroyed">> \notin log
  BY <1>2 DEF Changes
<1>8. ASSUME NEW m \in Nat, NEW n \in Nat, NEW id \in Nat, NEW kind \in Kinds, NEW c \in Changes,
             <<n, kind, id, c>> \in log, <<m, kind, id, "created">> \in log
      PROVE  m <= n
  <2>1. "created" \in Changes
    BY DEF Changes
  <2>2. n = 1 /\ m = 1
    BY <1>2, <1>8, <2>1
  <2> QED BY <2>2
<1> QED BY <1>1, <1>5, <1>6, <1>7, <1>8 DEF Stories, Spoken

\* What is inductive about the log as a whole.
StoryInv == StoreInv /\ Stories /\ Spoken

\* Whatever the batches do, the log tells every object's story in order.
THEOREM LogInvariant == Spec => []StoryInv
<1>1. Init => StoryInv
  BY StoreInit, StoriesInit DEF StoryInv
<1>2. StoryInv /\ [Next]_storeVars => StoryInv'
  BY StoreStep, StorePublishes, StoriesStep DEF StoryInv
<1> QED BY <1>1, <1>2, PTL DEF Spec

\* The rows readers see, and how a step changes them.
LEMMA SeenSteps ==
  ASSUME StoreInv, StoreInv', NEW n \in Nat, Publishes(n)
  PROVE  /\ SeenLog = {row \in log' : row[1] < n}
         /\ SeenModseq' = n => SeenLog' = log' /\ \A row \in log' : row[1] <= n
         /\ SeenModseq' = SeenModseq => SeenLog' = SeenLog
<1>1. OneWord /\ OneWord' /\ TypeOK /\ TypeOK'
  BY DEF StoreInv
<1>2. ASSUME NEW row \in log'
      PROVE  /\ row[1] \in Nat /\ row[2] \in Kinds /\ row[3] \in Nat /\ row[4] \in Changes
             /\ row = <<row[1], row[2], row[3], row[4]>>
  <2>1. LogTypes'
    BY <1>1, TypeParts DEF TypeOK, LogTypes
  <2> QED BY <1>2, <2>1 DEF LogTypes
<1>3. ASSUME NEW row \in log' PROVE row[1] <= modseq'
  <2>1. <<row[1], row[2], row[3], row[4]>> \in log'
    BY <1>2
  <2>2. row[1] \in 1 .. modseq'
    BY <1>1, <1>2, <2>1 DEF OneWord
  <2>3. modseq' \in Nat
    BY <1>1 DEF TypeOK
  <2> QED BY <2>2, <2>3
<1>4. log \subseteq log' /\ \A row \in log' : row \notin log => row[1] = n
  <2>1. log \subseteq log'
    BY DEF Publishes, Narrates
  <2>2. ASSUME NEW row \in log', row \notin log PROVE row[1] = n
    <3>1. <<row[1], row[2], row[3], row[4]>> \in log' /\ <<row[1], row[2], row[3], row[4]>> \notin log
      BY <1>2, <2>2
    <3> QED BY <1>2, <3>1 DEF Publishes, Narrates
  <2> QED BY <2>1, <2>2
<1>5. SeenModseq \in Int /\ n = SeenModseq + 1
  <2>1. modseq \in Nat
    BY <1>1, NumberTypes
  <2> QED BY <2>1 DEF Publishes, SeenModseq
<1>6. SeenLog = {row \in log' : row[1] < n}
  <2>1. \A row \in log' : row[1] \in Nat
    BY <1>2
  <2> QED BY <1>4, <1>5, <2>1 DEF SeenLog
<1>7. ASSUME SeenModseq' = n PROVE SeenLog' = log' /\ \A row \in log' : row[1] <= n
  <2>1. modseq' = n
    BY <1>7 DEF Publishes
  <2>2. \A row \in log' : row[1] <= n
    BY <1>3, <2>1
  <2>3. SeenLog' = {row \in log' : row[1] <= SeenModseq'}
    BY DEF SeenLog
  <2> QED BY <1>7, <2>2, <2>3
<1>8. ASSUME SeenModseq' = SeenModseq PROVE SeenLog' = SeenLog
  <2>1. SeenLog' = {row \in log' : row[1] <= SeenModseq}
    BY <1>8 DEF SeenLog
  <2>2. \A row \in log' : row[1] \in Nat
    BY <1>2
  <2> QED BY <1>5, <1>6, <2>1, <2>2
<1> QED BY <1>6, <1>7, <1>8

\* A step that readers see is a transaction of ChangeLog.
LEMMA PublishedNext ==
  ASSUME StoreInv, StoreInv', Stories', NEW n \in Nat, Publishes(n), SeenModseq' = n
  PROVE  Readers!Next
<1>1. /\ SeenLog = {row \in log' : row[1] < n} /\ SeenLog' = log'
      /\ \A row \in log' : row[1] <= n
  BY SeenSteps
<1>2. SeenModseq + 1 = n /\ Says(n)
  BY DEF Publishes
<1>3. ASSUME NEW row \in log'
      PROVE  /\ row[1] \in Nat /\ row[2] \in Kinds /\ row[3] \in Nat /\ row[4] \in Changes
             /\ row = <<row[1], row[2], row[3], row[4]>>
  <2>1. log' \subseteq Nat \X Kinds \X Nat \X Changes
    BY DEF StoreInv, TypeOK
  <2> QED BY <1>3, <2>1
<1>4. ASSUME NEW row \in SeenLog' \ SeenLog PROVE row \in log' /\ row[1] = n
  BY <1>1, <1>3, <1>4
<1>5. SeenLog' \ SeenLog # {}
  <2>1. PICK kind \in Kinds, id \in Nat, c \in Changes : <<n, kind, id, c>> \in log'
    BY <1>2 DEF Says
  <2>2. PICK row \in log' : row[1] = n
    BY <2>1
  <2>3. row \notin SeenLog
    BY <1>1, <2>2
  <2> QED BY <1>1, <2>3
<1>6. SeenLog \subseteq SeenLog'
  BY <1>1
<1>7. ASSUME NEW row \in SeenLog' \ SeenLog
      PROVE  /\ row[1] = SeenModseq + 1
             /\ row[4] = "created" <=> Readers!Story(row) = {}
             /\ \A old \in Readers!Story(row) : old[4] # "destroyed"
             /\ \A other \in SeenLog' \ SeenLog : other[2] = row[2] /\ other[3] = row[3] => other = row
  <2>0. PICK kind \in Kinds, id \in Nat, c \in Changes : row = <<n, kind, id, c>> /\ row \in log'
    BY <1>3, <1>4
  <2>1. row[1] = n /\ row[2] = kind /\ row[3] = id /\ row[4] = c
    BY <2>0
  <2>2. ASSUME NEW old \in log', old[2] = kind, old[3] = id
        PROVE  old[1] \in Nat /\ old[4] \in Changes /\ <<old[1], kind, id, old[4]>> \in log'
    BY <1>3, <2>2
  <2>3. "created" \in Changes /\ "destroyed" \in Changes
    BY DEF Changes
  <2>4. Readers!Story(row) = {old \in SeenLog : old[2] = kind /\ old[3] = id}
    BY <2>1 DEF Readers!Story
  <2>5. ASSUME NEW old \in Readers!Story(row)
        PROVE  old \in log' /\ old[2] = kind /\ old[3] = id /\ old[1] < n
    BY <1>1, <2>4, <2>5
  <2>6. ASSUME c = "created", NEW old \in Readers!Story(row) PROVE FALSE
    <3>1. old[1] \in Nat /\ old[4] \in Changes /\ <<old[1], kind, id, old[4]>> \in log' /\ old[1] < n
      BY <2>2, <2>5, <2>6
    <3>2. n <= old[1]
      BY <2>0, <2>6, <3>1 DEF Stories
    <3> QED BY <3>1, <3>2
  <2>7. ASSUME c # "created" PROVE Readers!Story(row) # {}
    <3>1. Born(kind, id)'
      BY <2>0 DEF Stories
    <3>2. PICK m \in Nat : <<m, kind, id, "created">> \in log'
      BY <3>1 DEF Born
    <3>3. m <= n
      BY <2>0, <2>3, <3>2 DEF Stories
    <3>4. m # n
      BY <2>0, <2>3, <2>7, <3>2 DEF StoreInv, OneWord
    <3>5. PICK old \in log' : old = <<m, kind, id, "created">>
      BY <3>2
    <3>6. old[1] = m /\ old[2] = kind /\ old[3] = id
      BY <3>5
    <3>7. old \in SeenLog
      BY <1>1, <3>3, <3>4, <3>6
    <3> QED BY <2>4, <3>6, <3>7
  <2>8. ASSUME NEW old \in Readers!Story(row) PROVE old[4] # "destroyed"
    <3>1. old[1] \in Nat /\ <<old[1], kind, id, old[4]>> \in log' /\ old[1] < n
      BY <2>2, <2>5, <2>8
    <3>2. old[4] = "destroyed" => n <= old[1]
      BY <2>0, <2>3, <3>1 DEF Stories
    <3> QED BY <3>1, <3>2
  <2>9. ASSUME NEW other \in SeenLog' \ SeenLog, other[2] = row[2], other[3] = row[3] PROVE other = row
    <3>1. other[4] \in Changes /\ other = <<n, kind, id, other[4]>> /\ other \in log'
      BY <1>3, <1>4, <2>1, <2>9
    <3>2. other[4] = c
      BY <2>0, <3>1 DEF StoreInv, OneWord
    <3> QED BY <2>0, <3>1, <3>2
  <2> QED BY <1>2, <2>1, <2>6, <2>7, <2>8, <2>9
<1> QED BY <1>2, <1>5, <1>6, <1>7 DEF Readers!Next

\* The store implements ChangeLog: whatever its batches do and in whatever order its
\* transactions come, readers see one change at a time, in the order of their modseqs,
\* and the story of every object from its creation on, with nothing after its end.
THEOREM StoreKeepsLog == Spec => LogKept
<1>1. Init => Readers!Init
  <2> SUFFICES ASSUME Init PROVE Readers!Init
    OBVIOUS
  <2>1. /\ modseq = 1 /\ batch = 0 /\ log = {<<1, "Mailbox", b, "created">> : b \in 1 .. DefaultBoxes}
    BY DEF Init
  <2>2. SeenModseq = 1 /\ \A row \in SeenLog : row[1] = 1 /\ row[4] = "created"
    BY <2>1 DEF SeenModseq, SeenLog
  <2> QED BY <2>2 DEF Readers!Init
<1>2. StoryInv /\ StoryInv' /\ [Next]_storeVars => [Readers!Next]_<<SeenModseq, SeenLog>>
  <2> SUFFICES ASSUME StoryInv, StoryInv', [Next]_storeVars PROVE [Readers!Next]_<<SeenModseq, SeenLog>>
    OBVIOUS
  <2>1. StoreInv /\ StoreInv' /\ Stories' /\ Spoken
    BY DEF StoryInv
  <2>2. PICK n \in Nat : Publishes(n)
    BY <2>1, StorePublishes
  <2>3. CASE SeenModseq' = n
    BY <2>1, <2>2, <2>3, PublishedNext
  <2>4. CASE SeenModseq' = SeenModseq
    <3>1. SeenLog' = SeenLog
      BY <2>1, <2>2, <2>4, SeenSteps
    <3> QED BY <2>4, <3>1
  <2> QED BY <2>2, <2>3, <2>4 DEF Publishes
<1> QED BY <1>1, <1>2, LogInvariant, PTL DEF Spec, LogKept, Readers!Spec
=============================================================================
