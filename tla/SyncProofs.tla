----------------------------- MODULE SyncProofs -----------------------------
(***************************************************************************)
(* What the clients of the store can rely on, for any number of emails,    *)
(* threads, mailboxes and changes: an IMAP client that asks for what       *)
(* changed since its HIGHESTMODSEQ always ends with the mailbox as it is,  *)
(* and the next answer to a JMAP client's /changes always names everything *)
(* in which its copy is behind.                                            *)
(***************************************************************************)
EXTENDS ImapSync, JmapSync, MailStoreProofs, WellFoundedInduction

-----------------------------------------------------------------------------
(* The inductive invariant of the IMAP client.                             *)

\* The client's copy of a message is the message, unless the server has news of its
\* UID since modseq n.
Fresh(messages, n) ==
  /\ \A m \in messages : vanished[Box][m.uid] > n \/
       \E e \in EmailIds : /\ uid[Box][e] = m.uid
                           /\ itemSeq[Box][e] > n \/ m = Message(e)
  /\ \A e \in EmailIds : uid[Box][e] # 0 => itemSeq[Box][e] > n \/ Message(e) \in messages

\* What SELECT listed is what the mailbox held or has changed since.
Listed ==
  ipc = "listed" =>
    /\ \A item \in list : item[2] > state \/ item[1] \in known
    /\ \A item \in list : vanished[Box][item[1].uid] > high \/
         \E e \in EmailIds : /\ uid[Box][e] = item[1].uid
                             /\ itemSeq[Box][e] > high \/ item = <<Message(e), itemSeq[Box][e]>>
    /\ \A e \in EmailIds : uid[Box][e] # 0 =>
         itemSeq[Box][e] > high \/ <<Message(e), itemSeq[Box][e]>> \in list

\* No modseq the client knows is one that is being written.
Behind ==
  /\ state <= modseq /\ high <= modseq
  /\ batch # 0 => state < batch /\ high < batch

\* The default mailboxes have the lowest ids, so the client's never comes back.
ClientInv ==
  /\ ITypeOK
  /\ Behind
  /\ DefaultBoxes <= lastBox
  /\ Box \in boxes => Fresh(known, state) /\ Listed

-----------------------------------------------------------------------------
(* The IMAP client.                                                        *)

\* The store beside its IMAP clients is the store: a client only reads.
THEOREM ImapImplementsStore == ISpec => Spec
<1>1. IInit => Init
  BY DEF IInit
<1>2. [INext]_<<storeVars, imapVars>> => [Next]_storeVars
  BY DEF INext, ImapStep, Select, ListMessages, Answer, SelectFails
<1> QED BY <1>1, <1>2, PTL DEF ISpec, Spec

\* What a step of the store comes to for the client's mailbox: a membership is as it
\* was or carries modseq n, and the UID of one that ends is noted as vanished at n.
Moved(n) ==
  /\ \A e \in EmailIds : uid'[Box][e] # 0 =>
       \/ itemSeq'[Box][e] = n
       \/ /\ uid'[Box][e] = uid[Box][e] /\ itemSeq'[Box][e] = itemSeq[Box][e]
          /\ e \in seen' <=> e \in seen
  /\ \A e \in EmailIds : uid[Box][e] # 0 =>
       uid'[Box][e] = uid[Box][e] \/ vanished'[Box][uid[Box][e]] = n
  /\ \A u \in 1 .. MaxUid : vanished'[Box][u] \in {vanished[Box][u], n}

\* Changing one email's memberships is such a step.
LEMMA HomedMoved ==
  ASSUME TypeOK, Uids, NEW e \in EmailIds, NEW bs, NEW n \in Nat, Homed(e, bs, n),
         \A f \in EmailIds \ {e} : f \in seen' <=> f \in seen,
         Box \in bs => \/ itemSeq'[Box][e] = n
                       \/ /\ uid[Box][e] # 0 /\ itemSeq'[Box][e] = itemSeq[Box][e]
                          /\ e \in seen' <=> e \in seen
  PROVE  Moved(n)
<1>1. /\ Box \in BoxIds /\ uid[Box] \in [EmailIds -> Nat]
      /\ \A f \in EmailIds : uid[Box][f] # 0 => uid[Box][f] \in 1 .. MaxUid
  <2>1. Box \in BoxIds
    BY CountsAssumption, BoxAssumption DEF BoxIds
  <2>2. uid[Box] \in [EmailIds -> Nat] /\ uidNext[Box] \in Nat /\ MaxUid \in Nat
    BY <2>1, CountsAssumption DEF TypeOK
  <2> QED BY <2>1, <2>2 DEF Uids
<1>2. /\ \A f \in EmailIds \ {e} : uid'[Box][f] = uid[Box][f] /\ itemSeq'[Box][f] = itemSeq[Box][f]
      /\ Box \in bs /\ uid[Box][e] # 0 => uid'[Box][e] = uid[Box][e]
      /\ Box \notin bs => uid'[Box][e] = 0
      /\ \A u \in 1 .. MaxUid :
           vanished'[Box][u] = IF Box \notin bs /\ uid[Box][e] = u THEN n ELSE vanished[Box][u]
  BY <1>1 DEF Homed
<1>3. ASSUME NEW f \in EmailIds, uid'[Box][f] # 0
      PROVE  \/ itemSeq'[Box][f] = n
             \/ /\ uid'[Box][f] = uid[Box][f] /\ itemSeq'[Box][f] = itemSeq[Box][f]
                /\ f \in seen' <=> f \in seen
  BY <1>2, <1>3
<1>4. ASSUME NEW f \in EmailIds, uid[Box][f] # 0
      PROVE  uid'[Box][f] = uid[Box][f] \/ vanished'[Box][uid[Box][f]] = n
  BY <1>1, <1>2, <1>4
<1> QED BY <1>2, <1>3, <1>4 DEF Moved

\* What the client knows stays true through a step of the store, because the modseq
\* it works at is none the client was told.
LEMMA MovedFresh ==
  ASSUME TypeOK, NEW n \in Nat, Moved(n), NEW messages \in SUBSET Views, NEW k \in Nat, k < n, Fresh(messages, k)
  PROVE  Fresh(messages, k)'
<1>0. Box \in BoxIds /\ vanished[Box] \in [1 .. MaxUid -> Nat]
  BY CountsAssumption, BoxAssumption DEF TypeOK, BoxIds
<1>1. ASSUME NEW m \in messages
      PROVE  vanished'[Box][m.uid] > k \/
               \E e \in EmailIds : /\ uid'[Box][e] = m.uid
                                   /\ itemSeq'[Box][e] > k \/ m = Message(e)'
  <2>1. m.uid \in 1 .. MaxUid /\ m.uid # 0
    BY CountsAssumption DEF Views
  <2>2. CASE vanished[Box][m.uid] > k
    BY <2>1, <2>2 DEF Moved
  <2>3. ASSUME NEW e \in EmailIds, uid[Box][e] = m.uid, itemSeq[Box][e] > k \/ m = Message(e)
        PROVE  vanished'[Box][m.uid] > k \/ (uid'[Box][e] = m.uid /\ (itemSeq'[Box][e] > k \/ m = Message(e)'))
    <3>1. CASE vanished'[Box][uid[Box][e]] = n
      BY <2>3, <3>1
    <3>2. CASE uid'[Box][e] = uid[Box][e] /\ itemSeq'[Box][e] = n
      BY <2>3, <3>2
    <3>3. CASE uid'[Box][e] = uid[Box][e] /\ itemSeq'[Box][e] = itemSeq[Box][e] /\ (e \in seen' <=> e \in seen)
      <4>1. Message(e)' = Message(e)
        BY <3>3 DEF Message
      <4> QED BY <2>3, <3>3, <4>1
    <3> QED BY <2>1, <2>3, <3>1, <3>2, <3>3 DEF Moved
  <2> QED BY <2>2, <2>3 DEF Fresh
<1>2. ASSUME NEW e \in EmailIds, uid'[Box][e] # 0
      PROVE  itemSeq'[Box][e] > k \/ Message(e)' \in messages
  <2>1. CASE itemSeq'[Box][e] = n
    BY <2>1
  <2>2. CASE uid'[Box][e] = uid[Box][e] /\ itemSeq'[Box][e] = itemSeq[Box][e] /\ (e \in seen' <=> e \in seen)
    <3>1. Message(e)' = Message(e)
      BY <2>2 DEF Message
    <3> QED BY <1>2, <2>2, <3>1 DEF Fresh
  <2> QED BY <1>2, <2>1, <2>2 DEF Moved
<1> QED BY <1>1, <1>2 DEF Fresh

\* The same for what SELECT listed and the client has yet to apply.
LEMMA MovedListed ==
  ASSUME TypeOK, ITypeOK, NEW n \in Nat, Moved(n), high < n, Listed, UNCHANGED imapVars
  PROVE  Listed'
<1> SUFFICES ASSUME ipc = "listed" PROVE Listed'
  BY DEF Listed, imapVars
<1>0. Box \in BoxIds /\ vanished[Box] \in [1 .. MaxUid -> Nat] /\ high \in Nat
      /\ UNCHANGED <<list, state, known, high>>
  BY CountsAssumption, BoxAssumption DEF TypeOK, BoxIds, ITypeOK, imapVars
<1>1. ASSUME NEW item \in list
      PROVE  vanished'[Box][item[1].uid] > high \/
               \E e \in EmailIds : /\ uid'[Box][e] = item[1].uid
                                   /\ itemSeq'[Box][e] > high \/ item = <<Message(e)', itemSeq'[Box][e]>>
  <2>1. item[1].uid \in 1 .. MaxUid /\ item[1].uid # 0
    BY CountsAssumption DEF Views, ITypeOK
  <2>2. CASE vanished[Box][item[1].uid] > high
    BY <2>1, <2>2 DEF Moved
  <2>3. ASSUME NEW e \in EmailIds, uid[Box][e] = item[1].uid,
               itemSeq[Box][e] > high \/ item = <<Message(e), itemSeq[Box][e]>>
        PROVE  vanished'[Box][item[1].uid] > high \/
                 /\ uid'[Box][e] = item[1].uid
                 /\ itemSeq'[Box][e] > high \/ item = <<Message(e)', itemSeq'[Box][e]>>
    <3>1. CASE vanished'[Box][uid[Box][e]] = n
      BY <2>3, <3>1
    <3>2. CASE uid'[Box][e] = uid[Box][e] /\ itemSeq'[Box][e] = n
      BY <2>3, <3>2
    <3>3. CASE uid'[Box][e] = uid[Box][e] /\ itemSeq'[Box][e] = itemSeq[Box][e] /\ (e \in seen' <=> e \in seen)
      <4>1. Message(e)' = Message(e)
        BY <3>3 DEF Message
      <4> QED BY <2>3, <3>3, <4>1
    <3> QED BY <2>1, <2>3, <3>1, <3>2, <3>3 DEF Moved
  <2> QED BY <2>2, <2>3 DEF Listed
<1>2. ASSUME NEW e \in EmailIds, uid'[Box][e] # 0
      PROVE  itemSeq'[Box][e] > high \/ <<Message(e)', itemSeq'[Box][e]>> \in list
  <2>1. CASE itemSeq'[Box][e] = n
    BY <2>1
  <2>2. CASE uid'[Box][e] = uid[Box][e] /\ itemSeq'[Box][e] = itemSeq[Box][e] /\ (e \in seen' <=> e \in seen)
    <3>1. Message(e)' = Message(e)
      BY <2>2 DEF Message
    <3> QED BY <1>2, <2>2, <3>1 DEF Listed
  <2> QED BY <1>2, <2>1, <2>2 DEF Moved
<1>3. \A item \in list : item[2] > state \/ item[1] \in known
  BY DEF Listed
<1> QED BY <1>0, <1>1, <1>2, <1>3 DEF Listed

\* A step of the store, as the client's mailbox sees it while it exists, works at a
\* modseq that is new to the client.
LEMMA StoreMoves ==
  ASSUME StoreInv, StoreInv', ITypeOK, Behind, DefaultBoxes <= lastBox, [Next]_storeVars, UNCHANGED imapVars
  PROVE  /\ DefaultBoxes <= lastBox' /\ Behind'
         /\ Box \in boxes' => Box \in boxes /\ \E n \in Nat : state < n /\ high < n /\ Moved(n)
<1> USE CountsAssumption
<1> USE DEF emailVars, boxVars, idVars, txVars
<1>0. /\ TypeOK /\ Shape /\ Uids /\ Emptying /\ Tops /\ emails \subseteq EmailIds /\ boxes \subseteq BoxIds
      /\ Box \in BoxIds /\ Box <= DefaultBoxes /\ Box \in Nat /\ modseq \in Nat /\ lastBox \in Nat
      /\ batch \in Nat /\ state \in Nat /\ high \in Nat /\ UNCHANGED <<state, high>>
  <2>1. TypeOK /\ Shape /\ Uids /\ Emptying /\ Tops
    BY DEF StoreInv
  <2>2. /\ emails \subseteq EmailIds /\ boxes \subseteq BoxIds /\ modseq \in Nat /\ lastBox \in Nat
        /\ batch \in Nat
    BY <2>1 DEF TypeOK
  <2>3. Box \in BoxIds /\ Box <= DefaultBoxes /\ Box \in Nat
    BY BoxAssumption DEF BoxIds
  <2>4. state \in Nat /\ high \in Nat /\ UNCHANGED <<state, high>>
    BY DEF ITypeOK, imapVars
  <2> QED BY <2>1, <2>2, <2>3, <2>4
<1>1. BatchModseq \in Nat /\ state < BatchModseq /\ high < BatchModseq
  BY <1>0 DEF Behind, BatchModseq
<1>2. state < modseq + 1 /\ high < modseq + 1 /\ modseq + 1 \in Nat
  BY <1>0 DEF Behind
<1>3. ASSUME UNCHANGED <<uid, itemSeq, vanished, seen>> PROVE Moved(modseq + 1)
  BY <1>3 DEF Moved
<1>4. CASE Ingests
  <2>1. PICK bs \in SUBSET boxes, t \in ThreadIds, isSeen \in BOOLEAN : Ingest(bs, t, isSeen)
    BY <1>4 DEF Ingests
  <2> DEFINE e == lastEmail + 1
             n == modseq + 1
  <2>2. /\ e \in EmailIds /\ Homed(e, bs, n) /\ UNCHANGED <<boxes, lastBox, batch>> /\ modseq' = n
        /\ (Box \in bs => itemSeq'[Box][e] = n) /\ batch = 0
    <3>1. /\ e \in EmailIds /\ Homed(e, bs, n) /\ UNCHANGED <<boxes, lastBox, txVars>> /\ modseq' = n
          /\ \A b \in bs : itemSeq'[b][e] = n
          /\ op = "none"
      BY <1>0, <2>1, IngestFrame
    <3>2. batch = 0
      BY <1>0, <3>1 DEF Shape
    <3> HIDE DEF n, e
    <3> QED BY <3>1, <3>2
  <2>3. \A f \in EmailIds \ {e} : f \in seen' <=> f \in seen
    BY <2>1 DEF Ingest
  <2> HIDE DEF e
  <2>4. Moved(n)
    BY <1>0, <1>2, <2>2, <2>3, HomedMoved
  <2>5. Behind'
    BY <1>0, <1>2, <2>2 DEF Behind
  <2> QED BY <1>2, <2>2, <2>4, <2>5
<1>5. ASSUME NEW e \in emails, NEW bs \in SUBSET boxes, Updates(e, bs)
      PROVE  Moved(BatchModseq) /\ UNCHANGED <<boxes, lastBox>> /\ modseq' = BatchModseq /\ batch' = BatchModseq
  <2>1. /\ e \in EmailIds /\ Homed(e, bs, BatchModseq) /\ UNCHANGED <<boxes, lastBox>>
        /\ modseq' = BatchModseq /\ batch' = BatchModseq
        /\ (Box \in bs => itemSeq'[Box][e] = BatchModseq)
    BY <1>0, <1>5, UpdatesFrame
  <2>2. \A f \in EmailIds \ {e} : f \in seen' <=> f \in seen
    BY <1>5 DEF Updates, UpdateEffect
  <2> QED BY <1>0, <1>1, <2>1, <2>2, HomedMoved
<1>6. ASSUME NEW e \in emails, Destroys(e)
      PROVE  Moved(BatchModseq) /\ UNCHANGED <<boxes, lastBox>> /\ modseq' = BatchModseq /\ batch' = BatchModseq
  <2>1. /\ e \in EmailIds /\ Homed(e, {}, BatchModseq) /\ UNCHANGED <<boxes, lastBox>>
        /\ modseq' = BatchModseq /\ batch' = BatchModseq /\ seen' = seen \ {e}
    BY <1>0, <1>6, DestroysFrame
  <2> QED BY <1>0, <1>1, <2>1, HomedMoved
<1>7. ASSUME NEW e \in emails, Leaves(e)
      PROVE  Moved(BatchModseq) /\ UNCHANGED <<boxes, lastBox>> /\ modseq' = BatchModseq /\ batch' = BatchModseq
  <2>1. UNCHANGED <<boxes, lastBox, seen, modseq, batch>> /\ batch = modseq /\ BatchModseq = batch
    BY <1>0, <1>7 DEF Leaves, Shape, BatchModseq, TypeOK
  <2> DEFINE bs == BoxesOf(e) \ {box}
  <2>2. Homed(e, bs, batch) /\ (Box \in bs => itemSeq'[Box][e] = itemSeq[Box][e] /\ uid[Box][e] # 0)
    BY <1>0, <1>7, LeavesHomes DEF BoxesOf
  <2> HIDE DEF bs
  <2>3. Moved(batch)
    BY <1>0, <2>1, <2>2, HomedMoved
  <2> QED BY <2>1, <2>3
<1>8. CASE \/ \E e \in emails, bs \in SUBSET boxes : Updates(e, bs)
           \/ \E e \in emails : Destroys(e) \/ Leaves(e)
  <2>1. Moved(BatchModseq) /\ UNCHANGED <<boxes, lastBox>> /\ modseq' = BatchModseq /\ batch' = BatchModseq
    BY <1>5, <1>6, <1>7, <1>8
  <2>2. Behind'
    BY <1>0, <1>1, <2>1 DEF Behind
  <2> QED BY <1>1, <2>1, <2>2
<1>9. CASE CreateMailbox
  <2>1. /\ UNCHANGED <<uid, itemSeq, vanished, seen, batch>> /\ lastBox' = lastBox + 1 /\ modseq' = modseq + 1
        /\ boxes' = boxes \union {lastBox + 1} /\ batch = 0
    BY <1>0, <1>9 DEF CreateMailbox, Shape
  <2>2. Behind'
    BY <1>0, <1>2, <2>1 DEF Behind
  <2>3. Box # lastBox + 1 /\ DefaultBoxes <= lastBox'
    BY <1>0, <2>1
  <2> QED BY <1>2, <1>3, <2>1, <2>2, <2>3
<1>10. CASE DropMailbox
  <2>1. /\ UNCHANGED <<uid, itemSeq, seen, lastBox, modseq>> /\ batch' = 0 /\ boxes' = boxes \ {box}
        /\ \A b \in BoxIds \ {box} : vanished'[b] = vanished[b]
    BY <1>0, <1>10 DEF DropMailbox, Closes, TypeOK
  <2>2. Behind'
    BY <1>0, <2>1 DEF Behind
  <2>3. Box \in boxes' => Moved(modseq + 1)
    BY <1>0, <2>1 DEF Moved
  <2> QED BY <1>2, <2>1, <2>2, <2>3
<1>11. CASE \/ Begins \/ Commit \/ UNCHANGED storeVars
            \/ \E b \in boxes : UpdateMailbox(b) \/ BeginDestroyMailbox(b)
  <2>1. /\ UNCHANGED <<uid, itemSeq, vanished, seen, boxes, lastBox>> /\ modseq' \in {modseq, modseq + 1}
        /\ batch' \in {0, batch, modseq + 1}
    BY <1>0, <1>11 DEF Begins, Opens, Commit, Closes, UpdateMailbox, BeginDestroyMailbox, storeVars
  <2>2. Behind'
    BY <1>0, <1>2, <2>1 DEF Behind
  <2> QED BY <1>2, <1>3, <2>1, <2>2
<1> QED
  BY <1>0, <1>4, <1>8, <1>9, <1>10, <1>11, NextCases

\* What the client and SELECT read of a message of the mailbox.
LEMMA MessageTypes ==
  ASSUME StoreInv
  PROVE  /\ Box \in BoxIds
         /\ EmailsIn(Box) = {e \in EmailIds : uid[Box][e] # 0}
         /\ \A e \in EmailsIn(Box) : Message(e) \in Views /\ itemSeq[Box][e] \in 1 .. MaxModseq
         /\ \A e \in EmailIds : Message(e).uid = uid[Box][e]
         /\ \A u \in 1 .. MaxUid : vanished[Box][u] \in Nat
         /\ \A e \in EmailIds : uid[Box][e] \in Nat /\ itemSeq[Box][e] \in Nat
<1>1. Box \in BoxIds
  BY CountsAssumption, BoxAssumption DEF BoxIds
<1>2. /\ uid[Box] \in [EmailIds -> Nat] /\ uidNext[Box] \in Nat /\ MaxUid \in Nat /\ MaxModseq \in Nat
      /\ emails \subseteq EmailIds /\ top[Box] \in Nat /\ modseq \in 1 .. MaxModseq
      /\ vanished[Box] \in [1 .. MaxUid -> Nat] /\ itemSeq[Box] \in [EmailIds -> Nat]
  BY <1>1, CountsAssumption DEF StoreInv, TypeOK
<1>3. EmailsIn(Box) = {e \in EmailIds : uid[Box][e] # 0}
  BY <1>1, <1>2 DEF EmailsIn, StoreInv, Uids
<1>4. \A e \in EmailsIn(Box) : uid[Box][e] \in 1 .. MaxUid
  BY <1>1, <1>2, <1>3 DEF StoreInv, Uids
<1>5. \A e \in EmailsIn(Box) : itemSeq[Box][e] \in 1 .. MaxModseq
  <2>1. top[Box] <= modseq /\ \A e \in EmailsIn(Box) : itemSeq[Box][e] \in 1 .. top[Box]
    BY <1>1, <1>3 DEF StoreInv, Tops
  <2> QED BY <1>2, <2>1
<1>6. \A e \in EmailsIn(Box) : Message(e) \in Views
  <2>1. \A e \in EmailsIn(Box) : e \in EmailIds /\ (e \in seen) \in BOOLEAN
    BY <1>3
  <2> QED BY <1>4, <2>1 DEF Message, Views
<1>7. \A e \in EmailIds : Message(e).uid = uid[Box][e]
  BY DEF Message
<1> QED BY <1>1, <1>2, <1>3, <1>5, <1>6, <1>7

\* The answer to SELECT leaves the client with a copy that is true for the modseq it
\* was told: what changed after the modseq was read will be told again.
LEMMA AnswerFresh ==
  ASSUME StoreInv, ITypeOK, Fresh(known, state), Listed, ipc = "listed"
  PROVE  LET changed == {item[1] : item \in {i \in list : i[2] > state}}
             messages == Resynced(known, VanishedSince(state), changed)
         IN  messages \subseteq Views /\ Fresh(messages, high)
<1> DEFINE changed == {item[1] : item \in {i \in list : i[2] > state}}
           messages == Resynced(known, VanishedSince(state), changed)
<1>0. /\ known \subseteq Views /\ list \subseteq Views \X (1 .. MaxModseq) /\ state \in Nat /\ high \in Nat
      /\ \A m \in Views : m.uid \in 1 .. MaxUid
  BY DEF ITypeOK, Views
<1>1. \A item \in list : item[1] \in Views /\ item[2] \in Nat
  BY <1>0
<1>2. changed \subseteq Views
  BY <1>1
<1>3. messages \subseteq Views
  BY <1>0, <1>2 DEF Resynced
<1>u. \A e \in EmailIds, u \in 1 .. MaxUid : uid[Box][e] = u => vanished[Box][u] = 0
  BY MessageTypes DEF StoreInv, Uids
<1>o. \A e, f \in EmailIds : uid[Box][e] # 0 /\ uid[Box][e] = uid[Box][f] => e = f
  BY MessageTypes DEF StoreInv, Uids
<1>4. ASSUME NEW m \in messages
      PROVE  vanished[Box][m.uid] > high \/
               \E e \in EmailIds : /\ uid[Box][e] = m.uid
                                   /\ itemSeq[Box][e] > high \/ m = Message(e)
  <2>1. CASE m \in changed
    <3>1. PICK item \in list : item[1] = m
      BY <2>1
    <3>2. CASE vanished[Box][item[1].uid] > high
      BY <3>1, <3>2
    <3>3. ASSUME NEW e \in EmailIds, uid[Box][e] = item[1].uid,
                 itemSeq[Box][e] > high \/ item = <<Message(e), itemSeq[Box][e]>>
          PROVE  uid[Box][e] = m.uid /\ (itemSeq[Box][e] > high \/ m = Message(e))
      BY <3>1, <3>3
    <3> QED BY <3>2, <3>3 DEF Listed
  <2>2. CASE m \in known /\ m.uid \notin VanishedSince(state) /\ \A new \in changed : new.uid # m.uid
    <3>1. ~(vanished[Box][m.uid] > state)
      BY <1>0, <2>2 DEF VanishedSince
    <3>2. PICK e \in EmailIds : /\ uid[Box][e] = m.uid
                                /\ itemSeq[Box][e] > state \/ m = Message(e)
      BY <2>2, <3>1 DEF Fresh
    <3>3. CASE m = Message(e)
      BY <3>2, <3>3
    <3>4. CASE itemSeq[Box][e] > state
      <4>1. uid[Box][e] # 0
        BY <1>0, <2>2, <3>2
      <4>2. CASE itemSeq[Box][e] > high
        BY <3>2, <4>2
      <4>3. CASE <<Message(e), itemSeq[Box][e]>> \in list
        <5> DEFINE item == <<Message(e), itemSeq[Box][e]>>
        <5>1. item \in list /\ item[2] > state /\ item[1] = Message(e)
          BY <3>4, <4>3
        <5>2. Message(e) \in changed
          BY <5>1
        <5>3. Message(e).uid = m.uid
          BY <3>2, MessageTypes
        <5> QED BY <2>2, <5>2, <5>3
      <4> QED BY <4>1, <4>2, <4>3 DEF Listed
    <3> QED BY <3>2, <3>3, <3>4
  <2> QED BY <2>1, <2>2 DEF Resynced
<1>5. ASSUME NEW e \in EmailIds, uid[Box][e] # 0
      PROVE  itemSeq[Box][e] > high \/ Message(e) \in messages
  <2> SUFFICES ASSUME ~(itemSeq[Box][e] > high) PROVE Message(e) \in messages
    OBVIOUS
  <2> DEFINE item == <<Message(e), itemSeq[Box][e]>>
  <2>1. item \in list /\ item[1] = Message(e) /\ item[2] = itemSeq[Box][e]
    BY <1>5 DEF Listed
  <2>2. CASE item[2] > state
    <3>1. Message(e) \in changed
      BY <2>1, <2>2
    <3> QED BY <3>1 DEF Resynced
  <2>3. CASE ~(item[2] > state)
    <3>1. Message(e) \in known
      BY <2>1, <2>3 DEF Listed
    <3>2. Message(e).uid = uid[Box][e] /\ uid[Box][e] \in 1 .. MaxUid
      BY <1>0, <3>1, MessageTypes
    <3>3. Message(e).uid \notin VanishedSince(state)
      BY <1>0, <1>u, <3>2 DEF VanishedSince
    <3>4. ASSUME NEW new \in changed, new.uid = uid[Box][e] PROVE FALSE
      <4>1. PICK other \in list : other[1] = new /\ other[2] > state
        OBVIOUS
      <4>2. ~(vanished[Box][other[1].uid] > high)
        BY <1>0, <1>u, <3>2, <3>4, <4>1
      <4>3. PICK f \in EmailIds : /\ uid[Box][f] = other[1].uid
                                  /\ itemSeq[Box][f] > high \/ other = <<Message(f), itemSeq[Box][f]>>
        BY <4>2 DEF Listed
      <4>4. f = e
        BY <1>5, <1>o, <3>4, <4>1, <4>3
      <4>5. other[2] = itemSeq[Box][e]
        BY <4>3, <4>4
      <4> QED BY <2>1, <2>3, <4>1, <4>5
    <3> QED BY <3>1, <3>2, <3>3, <3>4 DEF Resynced
  <2> QED BY <2>2, <2>3
<1>6. Fresh(messages, high)
  BY <1>4, <1>5 DEF Fresh
<1> QED BY <1>3, <1>6

\* A client that has read nothing, or whose mailbox is gone, claims nothing.
LEMMA ClientStart ==
  IInit => ClientInv
<1> SUFFICES ASSUME IInit PROVE ClientInv
  OBVIOUS
<1> USE CountsAssumption
<1>1. ITypeOK
  BY DEF IInit, ITypeOK
<1>2. Behind /\ DefaultBoxes <= lastBox
  BY DEF IInit, Init, Behind
<1>3. Box \in BoxIds
  BY BoxAssumption DEF BoxIds
<1>4. Fresh(known, state) /\ Listed
  BY <1>3 DEF IInit, Init, Fresh, Listed
<1> QED BY <1>1, <1>2, <1>4 DEF ClientInv

\* The steps of the store and the reads of SELECT keep what the client knows true.
LEMMA ClientInvStep ==
  StoreInv /\ StoreInv' /\ ClientInv /\ [INext]_<<storeVars, imapVars>> => ClientInv'
<1> SUFFICES ASSUME StoreInv, StoreInv', ClientInv, [INext]_<<storeVars, imapVars>> PROVE ClientInv'
  OBVIOUS
<1> USE CountsAssumption
<1> USE DEF emailVars, boxVars, idVars, txVars
<1>0. /\ ITypeOK /\ Behind /\ DefaultBoxes <= lastBox
      /\ known \subseteq Views /\ state \in 0 .. MaxModseq /\ high \in 0 .. MaxModseq
      /\ list \subseteq Views \X (1 .. MaxModseq)
  BY DEF ClientInv, ITypeOK
<1>r. /\ modseq \in 1 .. MaxModseq /\ (op = "none" => batch = 0) /\ Box \in BoxIds
      /\ top[Box] \in Nat /\ top[Box] <= modseq /\ MaxModseq \in Nat
  BY MessageTypes DEF StoreInv, TypeOK, Shape, Tops
<1>1. CASE [Next]_storeVars /\ UNCHANGED imapVars
  <2>1. ITypeOK'
    BY <1>0, <1>1 DEF ITypeOK, imapVars
  <2>2. /\ DefaultBoxes <= lastBox' /\ Behind'
        /\ Box \in boxes' => Box \in boxes /\ \E n \in Nat : state < n /\ high < n /\ Moved(n)
    BY <1>0, <1>1, StoreMoves
  <2>3. ASSUME Box \in boxes' PROVE Fresh(known, state)' /\ Listed'
    <3>1. PICK n \in Nat : state < n /\ high < n /\ Moved(n)
      BY <2>2, <2>3
    <3>2. Fresh(known, state) /\ Listed /\ TypeOK
      BY <2>2, <2>3 DEF ClientInv, StoreInv
    <3>3. Listed'
      BY <1>0, <1>1, <3>1, <3>2, MovedListed
    <3>4. PICK messages \in SUBSET Views, k \in Nat : messages = known /\ k = state
      BY <1>0
    <3>5. Fresh(messages, k)'
      BY <3>1, <3>2, <3>4, MovedFresh
    <3>6. known' = messages /\ state' = k
      BY <1>1, <3>4 DEF imapVars
    <3> QED BY <3>3, <3>5, <3>6 DEF Fresh
  <2> QED BY <2>1, <2>2, <2>3 DEF ClientInv
<1>2. CASE Select
  <2>1. /\ UNCHANGED <<storeVars, known, state, list>> /\ ipc' = "selecting" /\ high' = top[Box] /\ op = "none"
    BY <1>2 DEF Select
  <2>2. ITypeOK'
    BY <1>0, <1>r, <2>1 DEF ITypeOK
  <2>3. Behind' /\ DefaultBoxes <= lastBox'
    BY <1>0, <1>r, <2>1 DEF Behind, storeVars
  <2>4. Listed'
    BY <2>1 DEF Listed
  <2>5. Box \in boxes' => Fresh(known, state)'
    BY <2>1 DEF ClientInv, Fresh, storeVars, Message
  <2> QED BY <2>2, <2>3, <2>4, <2>5 DEF ClientInv
<1>3. CASE ListMessages
  <2>1. /\ UNCHANGED <<storeVars, known, state, high>> /\ ipc' = "listed" /\ op = "none" /\ Box \in boxes
        /\ list' = {<<Message(e), itemSeq[Box][e]>> : e \in EmailsIn(Box)}
    BY <1>3 DEF ListMessages
  <2>2. ITypeOK'
    <3>1. list' \subseteq Views \X (1 .. MaxModseq)
      BY <2>1, MessageTypes
    <3> QED BY <1>0, <2>1, <3>1 DEF ITypeOK
  <2>3. Behind' /\ DefaultBoxes <= lastBox'
    BY <1>0, <2>1 DEF Behind, storeVars
  <2>4. Fresh(known, state)
    BY <2>1 DEF ClientInv
  <2>5. ASSUME NEW item \in list'
        PROVE  \E e \in EmailIds : /\ uid[Box][e] = item[1].uid /\ uid[Box][e] # 0
                                   /\ item = <<Message(e), itemSeq[Box][e]>>
                                   /\ item[2] = itemSeq[Box][e] /\ item[1] = Message(e)
    <3>1. PICK e \in EmailsIn(Box) : item = <<Message(e), itemSeq[Box][e]>>
      BY <2>1
    <3>2. e \in EmailIds /\ uid[Box][e] # 0 /\ Message(e).uid = uid[Box][e]
      BY MessageTypes
    <3>3. item[1] = Message(e) /\ item[2] = itemSeq[Box][e]
      BY <3>1
    <3> QED BY <3>1, <3>2, <3>3
  <2>6. \A item \in list' : item[2] > state \/ item[1] \in known
    BY <2>4, <2>5 DEF Fresh
  <2>7. \A e \in EmailIds : uid[Box][e] # 0 => <<Message(e), itemSeq[Box][e]>> \in list'
    BY <2>1, MessageTypes
  <2>8. UNCHANGED <<uid, itemSeq, vanished, seen>>
    BY <2>1 DEF storeVars
  <2>9. \A e \in EmailIds : Message(e)' = Message(e)
    BY <2>8 DEF Message
  <2>10. Listed'
    BY <2>1, <2>5, <2>6, <2>7, <2>8, <2>9 DEF Listed
  <2>11. Box \in boxes' => Fresh(known, state)'
    BY <2>1 DEF ClientInv, Fresh, storeVars, Message
  <2> QED BY <2>2, <2>3, <2>10, <2>11 DEF ClientInv
<1>4. CASE Answer
  <2> DEFINE changed == {item[1] : item \in {i \in list : i[2] > state}}
             next == Resynced(known, VanishedSince(state), changed)
  <2>1. /\ UNCHANGED storeVars /\ ipc = "listed" /\ ipc' = "idle" /\ op = "none" /\ Box \in boxes
        /\ known' = next /\ state' = high /\ high' = 0 /\ list' = {}
    BY <1>4 DEF Answer
  <2>2. next \subseteq Views /\ Fresh(next, high)
    BY <1>0, <2>1, AnswerFresh DEF ClientInv
  <2> HIDE DEF next
  <2>3. ITypeOK'
    BY <1>0, <2>1, <2>2 DEF ITypeOK
  <2>4. Behind' /\ DefaultBoxes <= lastBox'
    BY <1>0, <1>r, <2>1 DEF Behind, storeVars
  <2>5. Listed'
    BY <2>1 DEF Listed
  <2>6. Fresh(known, state)'
    BY <2>1, <2>2 DEF Fresh, storeVars, Message
  <2> QED BY <2>3, <2>4, <2>5, <2>6 DEF ClientInv
<1>5. CASE SelectFails
  <2>1. /\ UNCHANGED storeVars /\ Box \notin boxes /\ op = "none" /\ ipc' = "idle"
        /\ known' = {} /\ state' = 0 /\ high' = 0 /\ list' = {}
    BY <1>5 DEF SelectFails
  <2>2. ITypeOK'
    BY <2>1 DEF ITypeOK
  <2>3. Behind' /\ DefaultBoxes <= lastBox' /\ Box \notin boxes'
    BY <1>0, <1>r, <2>1 DEF Behind, storeVars
  <2> QED BY <2>2, <2>3 DEF ClientInv
<1> QED
  BY <1>1, <1>2, <1>3, <1>4, <1>5 DEF INext, ImapStep

\* A client that reads while changes are committed between its reads keeps a copy in
\* which everything the server has no news of is as the server has it.
THEOREM ImapInvariant == ISpec => [](StoreInv /\ ClientInv)
<1>1. IInit => ClientInv
  BY ClientStart
<1>2. StoreInv /\ StoreInv' /\ ClientInv /\ [INext]_<<storeVars, imapVars>> => ClientInv'
  BY ClientInvStep
<1>3. ISpec => []StoreInv
  BY ImapImplementsStore, StoreInvariant, PTL
<1> QED BY <1>1, <1>2, <1>3, PTL DEF ISpec

\* The client's copy and the answers it reads keep their types.
THEOREM ImapTypeCorrect == ISpec => []ITypeOK
<1>1. ClientInv => ITypeOK
  BY DEF ClientInv
<1> QED BY <1>1, ImapInvariant, PTL

\* Whatever was committed between imap_messages' reads of earlier SELECTs, the next
\* SELECT (QRESYNC ...) leaves the client with exactly the mailbox.
THEOREM ImapAlwaysCatchesUp == ISpec => []ImapCatchesUp
<1>1. StoreInv /\ ClientInv => ImapCatchesUp
  <2> SUFFICES ASSUME StoreInv, ClientInv, Box \in boxes
               PROVE  Resynced(known, VanishedSince(state),
                        {Message(e) : e \in {f \in EmailsIn(Box) : itemSeq[Box][f] > state}}) = View
    BY DEF ImapCatchesUp
  <2> DEFINE changed == {Message(e) : e \in {f \in EmailsIn(Box) : itemSeq[Box][f] > state}}
  <2>1. /\ known \subseteq Views /\ state \in Nat /\ Fresh(known, state)
        /\ \A m \in Views : m.uid \in 1 .. MaxUid
    BY DEF ClientInv, ITypeOK, Views
  <2>2. \A e \in EmailIds, u \in 1 .. MaxUid : uid[Box][e] = u => vanished[Box][u] = 0
    BY MessageTypes DEF StoreInv, Uids
  <2>3. \A e, f \in EmailIds : uid[Box][e] # 0 /\ uid[Box][e] = uid[Box][f] => e = f
    BY MessageTypes DEF StoreInv, Uids
  <2>4. ASSUME NEW m \in known, m.uid \notin VanishedSince(state), \A new \in changed : new.uid # m.uid
        PROVE  m \in View
    <3>1. m.uid \in 1 .. MaxUid /\ m.uid # 0 /\ ~(vanished[Box][m.uid] > state)
      BY <2>1, <2>4 DEF VanishedSince
    <3>2. PICK e \in EmailIds : /\ uid[Box][e] = m.uid
                                /\ itemSeq[Box][e] > state \/ m = Message(e)
      BY <2>1, <3>1 DEF Fresh
    <3>3. e \in EmailsIn(Box) /\ Message(e).uid = m.uid
      BY <3>1, <3>2, MessageTypes
    <3>4. ~(itemSeq[Box][e] > state)
      BY <2>4, <3>3
    <3> QED BY <3>2, <3>3, <3>4 DEF View
  <2>5. ASSUME NEW e \in EmailsIn(Box)
        PROVE  Message(e) \in Resynced(known, VanishedSince(state), changed)
    <3>1. e \in EmailIds /\ uid[Box][e] # 0 /\ Message(e).uid = uid[Box][e] /\ Message(e) \in Views
      BY MessageTypes
    <3>2. CASE itemSeq[Box][e] > state
      BY <3>2 DEF Resynced
    <3>3. CASE ~(itemSeq[Box][e] > state)
      <4>1. Message(e) \in known
        BY <2>1, <3>1, <3>3 DEF Fresh
      <4>2. Message(e).uid \notin VanishedSince(state)
        BY <2>1, <2>2, <3>1 DEF VanishedSince
      <4>3. ASSUME NEW f \in EmailsIn(Box), itemSeq[Box][f] > state, Message(f).uid = Message(e).uid
            PROVE  FALSE
        BY <2>3, <3>1, <3>3, <4>3, MessageTypes
      <4> QED BY <4>1, <4>2, <4>3 DEF Resynced
    <3> QED BY <3>2, <3>3
  <2>6. changed \subseteq View
    BY DEF View
  <2> QED BY <2>4, <2>5, <2>6 DEF Resynced, View
<1> QED BY <1>1, ImapInvariant, PTL

\* A client that is told the HIGHESTMODSEQ it knows already has the mailbox: SELECT
\* reads the modseq before the messages, and every change raises it.
THEOREM UnchangedStateNeedsNoAnswer == ISpec => []UnchangedStateIsCurrent
<1>1. StoreInv /\ ClientInv => UnchangedStateIsCurrent
  <2> SUFFICES ASSUME StoreInv, ClientInv, op = "none", Box \in boxes, state = top[Box]
               PROVE  known = View
    BY DEF UnchangedStateIsCurrent, Committed
  <2>1. /\ known \subseteq Views /\ Fresh(known, state)
        /\ \A m \in Views : m.uid \in 1 .. MaxUid
    BY DEF ClientInv, ITypeOK, Views
  <2>2. top[Box] \in Nat
    BY MessageTypes DEF StoreInv, TypeOK
  <2>3. /\ \A e \in EmailIds : uid[Box][e] # 0 => ~(itemSeq[Box][e] > state)
        /\ \A u \in 1 .. MaxUid : ~(vanished[Box][u] > state)
    <3>1. /\ \A e \in EmailIds : uid[Box][e] # 0 => itemSeq[Box][e] \in 1 .. top[Box]
          /\ \A u \in 1 .. MaxUid : vanished[Box][u] <= top[Box]
      BY MessageTypes DEF StoreInv, Tops
    <3> QED BY <2>2, <3>1, MessageTypes
  <2>4. ASSUME NEW m \in known PROVE m \in View
    <3>1. m.uid \in 1 .. MaxUid /\ m.uid # 0
      BY <2>1
    <3>2. PICK e \in EmailIds : /\ uid[Box][e] = m.uid
                                /\ itemSeq[Box][e] > state \/ m = Message(e)
      BY <2>1, <2>3, <3>1 DEF Fresh
    <3>3. e \in EmailsIn(Box) /\ m = Message(e)
      BY <2>3, <3>1, <3>2, MessageTypes
    <3> QED BY <3>3 DEF View
  <2>5. ASSUME NEW e \in EmailsIn(Box) PROVE Message(e) \in known
    BY <2>1, <2>3, MessageTypes DEF Fresh
  <2> QED BY <2>4, <2>5 DEF View
<1> QED BY <1>1, ImapInvariant, PTL

-----------------------------------------------------------------------------
(* The inductive invariant of the JMAP client.                             *)

\* The log says change c of object id, after modseq a and up to b.
Said(id, a, b, c) == \E n \in Nat : a < n /\ n <= b /\ <<n, Kind, id, c>> \in log
Speaks(id, a, b) == \E c \in Changes : Said(id, a, b, c)

\* It says so after modseq a.
Since(id, a, c) == \E n \in Nat : a < n /\ <<n, Kind, id, c>> \in log
Changed(id, a) == \E c \in Changes : Since(id, a, c)

\* The highest id the client's kind of object used so far.
LastId == CASE Kind = "Email" -> lastEmail [] Kind = "Thread" -> lastThread [] Kind = "Mailbox" -> lastBox

\* The log knows no object that is yet to come, tells of none that lives that it was
\* destroyed, and begins with its creation.
Fates ==
  /\ \A n, id \in Nat, c \in Changes : <<n, Kind, id, c>> \in log => id \in 1 .. LastId
  /\ \A n, id \in Nat : <<n, Kind, id, "destroyed">> \in log => id \notin Live
  /\ \A m, n, id \in Nat, c \in Changes :
       <<m, Kind, id, "created">> \in log /\ <<n, Kind, id, c>> \in log => m <= n

\* No modseq the client knows is one that is being written.
JmapBehind ==
  /\ jstate <= modseq /\ current <= modseq /\ page.state <= modseq
  /\ batch # 0 => jstate < batch /\ current < batch /\ page.state < batch
  /\ jpc = "asked" => jstate <= current

\* The client has every object, or the log has news of it since the client's state.
Complete == \A id \in Live : id \in Ids(copy) \/ Changed(id, jstate)

\* The log told of what the client has by its state, and tells after it what became
\* of the objects that are gone.
Mortal ==
  \A id \in Ids(copy) \ early :
    /\ CreatedBy(id, jstate)
    /\ \/ id \in Live
       \/ Since(id, jstate, "destroyed")
       \/ Kind # "Email" /\ Changed(id, jstate)

\* What the client knows of an object is true, or the log has news of it.  A mailbox that
\* is being emptied before it is destroyed is only spoken of in the end.
Current ==
  \A o \in copy :
    o.id \in Live /\ o.content # Content(o.id) =>
      Changed(o.id, jstate) \/ (Kind = "Mailbox" /\ op = "emptying" /\ o.id = box)

\* The answer the client has yet to apply names what changed between its state and the
\* one it is about to take, except what was made and destroyed meanwhile.
Answered ==
  jpc = "answered" =>
    /\ jstate <= page.state
    /\ \A id \in IdsOfKind : Speaks(id, jstate, page.state) =>
         \/ id \in page.created \union page.updated
         \/ id \in page.destroyed
         \/ Since(id, jstate, "created") /\ Since(id, jstate, "destroyed")
    /\ \A id \in page.destroyed : Since(id, jstate, "destroyed")

JmapInv == JTypeOK /\ Fates /\ JmapBehind /\ Complete /\ Mortal /\ Current /\ Answered

-----------------------------------------------------------------------------
(* The fold of the log.                                                    *)

\* What an answer that covers the rows after modseq a up to b has to say of an object.
Summary(id, a, b) ==
  IF ~Speaks(id, a, b) THEN "none"
  ELSE IF Said(id, a, b, "destroyed")
       THEN IF Said(id, a, b, "created") THEN "createdThenDestroyed" ELSE "destroyed"
       ELSE IF Said(id, a, b, "created") THEN "created" ELSE "updated"

Answers == {"none", "created", "updated", "destroyed", "createdThenDestroyed"}

\* The fold after modseq n sums up the rows after a, up to where the page was cut.
FoldRight(folded, a, n, max) ==
  /\ folded \in [objects : [IdsOfKind -> Answers], last : Nat, more : BOOLEAN]
  /\ a <= folded.last /\ folded.last <= n
  /\ \A id \in IdsOfKind : folded.objects[id] = Summary(id, a, folded.last)
  /\ ~folded.more => \A m, id \in Nat, c \in Changes :
       folded.last < m /\ m <= n => <<m, Kind, id, c>> \notin log
  /\ max = 0 => ~folded.more

\* A set of numbers that is not empty has a least one.
LEMMA LeastNumber ==
  ASSUME NEW S \in SUBSET Nat, S # {}
  PROVE  \E k \in S : \A j \in S : k <= j
<1>1. PICK k \in S : \A j \in S : <<j, k>> \notin OpToRel(<, Nat)
  BY WFMin, NatLessThanWellFounded, Zenon
<1>2. \A j \in S : ~(j < k)
  BY <1>1, Zenon DEF OpToRel
<1> QED BY <1>2

\* The steps of the fold, up to modseq k.
FoldTo(g, a, k, max) ==
  g = [n \in a .. k |-> IF n = a THEN Unread(a) ELSE AddGroup(g[n - 1], n, max)]

\* The log can be folded up to any modseq.
LEMMA FoldExists ==
  ASSUME NEW a \in Nat, NEW max, NEW k \in Nat, a <= k
  PROVE  \E g : FoldTo(g, a, k, max)
<1> DEFINE S == {j \in Nat : a <= j /\ ~\E g : FoldTo(g, a, j, max)}
<1> SUFFICES ASSUME S # {} PROVE FALSE
  OBVIOUS
<1>1. PICK j \in S : \A i \in S : j <= i
  <2>1. S \in SUBSET Nat
    OBVIOUS
  <2> HIDE DEF S
  <2> QED BY <2>1, LeastNumber
<1>2. j \in Nat /\ a <= j /\ ~\E g : FoldTo(g, a, j, max)
  BY <1>1
<1>3. CASE j = a
  <2> DEFINE g == [n \in a .. a |-> Unread(a)]
  <2>1. FoldTo(g, a, a, max)
    BY DEF FoldTo
  <2> QED BY <1>2, <1>3, <2>1
<1>4. CASE j # a
  <2>1. j - 1 \in Nat /\ a <= j - 1 /\ ~(j <= j - 1)
    BY <1>2, <1>4
  <2>2. j - 1 \notin S
    BY <1>1, <2>1
  <2>3. PICK g : FoldTo(g, a, j - 1, max)
    BY <2>1, <2>2
  <2> DEFINE h == [n \in a .. j |-> IF n = j THEN AddGroup(g[j - 1], j, max) ELSE g[n]]
  <2>4. FoldTo(h, a, j, max)
    <3>1. ASSUME NEW n \in a .. j
          PROVE  h[n] = IF n = a THEN Unread(a) ELSE AddGroup(h[n - 1], n, max)
      <4>1. CASE n = j
        <5>1. h[n] = AddGroup(g[j - 1], j, max) /\ h[n - 1] = g[j - 1] /\ n # a
          BY <1>2, <1>4, <2>1, <4>1
        <5> QED BY <4>1, <5>1
      <4>2. CASE n # j
        <5>1. n \in a .. (j - 1) /\ h[n] = g[n]
          BY <1>2, <4>2
        <5>2. g[n] = IF n = a THEN Unread(a) ELSE AddGroup(g[n - 1], n, max)
          BY <2>3, <5>1 DEF FoldTo
        <5>3. n # a => h[n - 1] = g[n - 1]
          BY <1>2, <2>1, <5>1
        <5> QED BY <5>1, <5>2, <5>3
      <4> QED BY <4>1, <4>2
    <3>2. h = [n \in a .. j |-> h[n]]
      OBVIOUS
    <3> HIDE DEF h
    <3> QED BY <3>1, <3>2 DEF FoldTo
  <2> QED BY <1>2, <2>4
<1> QED BY <1>3, <1>4

\* The ids of the client's kind are numbers.
LEMMA KindIds == IdsOfKind \subseteq Nat /\ Kind \in Kinds
  BY KindAssumption DEF IdsOfKind, Kinds, EmailIds, ThreadIds, BoxIds

\* What the log says of an object at a modseq is its one row there.
LEMMA WordOfRow ==
  ASSUME TypeOK, OneWord, NEW n \in Nat, NEW id \in Nat
  PROVE  /\ id \in GroupIds(n) <=> \E c \in Changes : <<n, Kind, id, c>> \in log
         /\ \A c \in Changes : <<n, Kind, id, c>> \in log => WordAt(n, id) = c
<1>1. ASSUME NEW row \in Group(n), row[3] = id
      PROVE  row[4] \in Changes /\ row = <<n, Kind, id, row[4]>> /\ row \in log
  <2>1. row \in log /\ row[1] = n /\ row[2] = Kind
    BY DEF Group
  <2>2. row[4] \in Changes /\ row = <<row[1], row[2], row[3], row[4]>>
    BY <2>1, TypeParts DEF LogTypes
  <2> QED BY <1>1, <2>1, <2>2
<1>2. ASSUME NEW c \in Changes, <<n, Kind, id, c>> \in log
      PROVE  <<n, Kind, id, c>> \in Group(n) /\ <<n, Kind, id, c>>[3] = id
  BY <1>2 DEF Group
<1>3. id \in GroupIds(n) <=> \E c \in Changes : <<n, Kind, id, c>> \in log
  <2>1. ASSUME id \in GroupIds(n) PROVE \E c \in Changes : <<n, Kind, id, c>> \in log
    <3>1. PICK row \in Group(n) : row[3] = id
      BY <2>1 DEF GroupIds
    <3> QED BY <1>1, <3>1
  <2>2. ASSUME NEW c \in Changes, <<n, Kind, id, c>> \in log PROVE id \in GroupIds(n)
    BY <1>2, <2>2 DEF GroupIds
  <2> QED BY <2>1, <2>2
<1>4. ASSUME NEW c \in Changes, <<n, Kind, id, c>> \in log
      PROVE  WordAt(n, id) = c
  <2> DEFINE w == CHOOSE row \in Group(n) : row[3] = id
  <2>1. \E row \in Group(n) : row[3] = id
    BY <1>2, <1>4
  <2>2. w \in Group(n) /\ w[3] = id
    BY <2>1
  <2>3. WordAt(n, id) = w[4]
    BY DEF WordAt
  <2> HIDE DEF w
  <2>4. w[4] \in Changes /\ <<n, Kind, id, w[4]>> \in log
    BY <1>1, <2>2
  <2>5. w[4] = c
    BY <1>4, <2>4, KindIds DEF OneWord
  <2> QED BY <2>3, <2>5
<1> QED BY <1>3, <1>4

\* One more row changes the answer the way NextSeen says.
LEMMA SummaryStep ==
  ASSUME TypeOK, OneWord, Fates, NEW a \in Nat, NEW l \in Nat, NEW n \in Nat, a <= l, l < n,
         NEW id \in Nat,
         \A m \in Nat, c \in Changes : l < m /\ m < n => <<m, Kind, id, c>> \notin log
  PROVE  Summary(id, a, n) = IF id \in GroupIds(n) THEN NextSeen(Summary(id, a, l), WordAt(n, id))
                             ELSE Summary(id, a, l)
<1>1. ASSUME NEW c \in Changes
      PROVE  Said(id, a, n, c) <=> Said(id, a, l, c) \/ <<n, Kind, id, c>> \in log
  <2>1. ASSUME Said(id, a, n, c) PROVE Said(id, a, l, c) \/ <<n, Kind, id, c>> \in log
    <3>1. PICK m \in Nat : a < m /\ m <= n /\ <<m, Kind, id, c>> \in log
      BY <2>1 DEF Said
    <3>2. ~(l < m /\ m < n)
      BY <3>1
    <3>3. m <= l \/ m = n
      BY <3>1, <3>2
    <3> QED BY <3>1, <3>3 DEF Said
  <2>2. ASSUME Said(id, a, l, c) PROVE Said(id, a, n, c)
    BY <2>2 DEF Said
  <2>3. ASSUME <<n, Kind, id, c>> \in log PROVE Said(id, a, n, c)
    <3>1. a < n /\ n <= n
      OBVIOUS
    <3> QED BY <2>3, <3>1 DEF Said
  <2> QED BY <2>1, <2>2, <2>3
<1>2. Changes = {"created", "updated", "destroyed"}
  BY DEF Changes
<1>3. CASE id \notin GroupIds(n)
  <2>1. \A c \in Changes : Said(id, a, n, c) <=> Said(id, a, l, c)
    BY <1>1, <1>3, WordOfRow
  <2>2. Speaks(id, a, n) <=> Speaks(id, a, l)
    BY <2>1 DEF Speaks
  <2> QED BY <1>2, <1>3, <2>1, <2>2 DEF Summary
<1>4. CASE id \in GroupIds(n)
  <2>1. PICK w \in Changes : <<n, Kind, id, w>> \in log
    BY <1>4, WordOfRow
  <2>2. WordAt(n, id) = w /\ \A c \in Changes : <<n, Kind, id, c>> \in log <=> c = w
    BY <2>1, WordOfRow, KindIds DEF OneWord
  <2>3. \A c \in Changes : Said(id, a, n, c) <=> Said(id, a, l, c) \/ c = w
    BY <1>1, <2>2
  <2>4. Speaks(id, a, n)
    BY <2>3 DEF Speaks
  <2>5. w = "created" => ~Speaks(id, a, l)
    <3> SUFFICES ASSUME w = "created", NEW c \in Changes, Said(id, a, l, c) PROVE FALSE
      BY DEF Speaks
    <3>1. PICK m \in Nat : m <= l /\ <<m, Kind, id, c>> \in log
      BY DEF Said
    <3>2. n <= m
      BY <2>1, <3>1 DEF Fates
    <3> QED BY <3>1, <3>2
  <2>6. /\ Speaks(id, a, l) <=> \/ Said(id, a, l, "created") \/ Said(id, a, l, "updated")
                                \/ Said(id, a, l, "destroyed")
        /\ Said(id, a, n, "created") <=> Said(id, a, l, "created") \/ w = "created"
        /\ Said(id, a, n, "destroyed") <=> Said(id, a, l, "destroyed") \/ w = "destroyed"
    BY <1>2, <2>3 DEF Speaks
  <2>7. Summary(id, a, n) = NextSeen(Summary(id, a, l), w)
    <3>1. CASE w = "created"
      BY <2>4, <2>5, <2>6, <3>1 DEF Summary, NextSeen
    <3>2. CASE w = "updated"
      BY <2>4, <2>6, <3>2 DEF Summary, NextSeen
    <3>3. CASE w = "destroyed"
      BY <2>4, <2>6, <3>3 DEF Summary, NextSeen
    <3> QED BY <1>2, <3>1, <3>2, <3>3
  <2> QED BY <1>4, <2>2, <2>7
<1> QED BY <1>3, <1>4

\* A group keeps the fold right, whether the page has room for it or not.
LEMMA FoldStep ==
  ASSUME TypeOK, OneWord, Fates, NEW a \in Nat, NEW n \in Nat, a < n, NEW max \in Nat,
         NEW folded, FoldRight(folded, a, n - 1, max)
  PROVE  FoldRight(AddGroup(folded, n, max), a, n, max)
<1> USE KindIds
<1>0. /\ folded \in [objects : [IdsOfKind -> Answers], last : Nat, more : BOOLEAN]
      /\ a <= folded.last /\ folded.last <= n - 1 /\ n - 1 \in Nat
      /\ \A id \in IdsOfKind : folded.objects[id] = Summary(id, a, folded.last)
      /\ ~folded.more => \A m, id \in Nat, c \in Changes :
           folded.last < m /\ m <= n - 1 => <<m, Kind, id, c>> \notin log
      /\ max = 0 => ~folded.more
  BY DEF FoldRight
<1>1. CASE folded.more
  <2>1. AddGroup(folded, n, max) = folded
    BY <1>1 DEF AddGroup
  <2>2. folded.last <= n
    BY <1>0
  <2> QED BY <1>0, <1>1, <2>1, <2>2 DEF FoldRight
<1>2. CASE ~folded.more /\ Group(n) = {}
  <2>1. AddGroup(folded, n, max) = folded
    BY <1>2 DEF AddGroup
  <2>2. folded.last <= n
    BY <1>0
  <2>3. ASSUME NEW m \in Nat, NEW id \in Nat, NEW c \in Changes, folded.last < m, m <= n
        PROVE  <<m, Kind, id, c>> \notin log
    <3>1. CASE m = n
      <4>1. id \notin GroupIds(n)
        BY <1>2 DEF GroupIds
      <4> QED BY <3>1, <4>1, WordOfRow
    <3>2. CASE m # n
      <4>1. m <= n - 1
        BY <2>3, <3>2
      <4> QED BY <1>0, <1>2, <2>3, <4>1
    <3> QED BY <3>1, <3>2
  <2> QED BY <1>0, <1>2, <2>1, <2>2, <2>3 DEF FoldRight
<1>3. CASE ~folded.more /\ Group(n) # {} /\ PageFull(folded.objects, n, max)
  <2>1. AddGroup(folded, n, max) = [folded EXCEPT !.more = TRUE]
    BY <1>3 DEF AddGroup
  <2>2. max # 0 /\ folded.last <= n
    BY <1>0, <1>3 DEF PageFull
  <2> DEFINE next == [folded EXCEPT !.more = TRUE]
  <2>3. /\ next \in [objects : [IdsOfKind -> Answers], last : Nat, more : BOOLEAN]
        /\ next.objects = folded.objects /\ next.last = folded.last /\ next.more = TRUE
    BY <1>0
  <2> HIDE DEF next
  <2>4. FoldRight(next, a, n, max)
    BY <1>0, <2>2, <2>3 DEF FoldRight
  <2> QED BY <2>1, <2>4 DEF next
<1>4. CASE ~folded.more /\ Group(n) # {} /\ ~PageFull(folded.objects, n, max)
  <2> DEFINE objects == [id \in IdsOfKind |->
               IF id \in GroupIds(n) THEN NextSeen(folded.objects[id], WordAt(n, id)) ELSE folded.objects[id]]
             next == [objects |-> objects, last |-> n, more |-> FALSE]
  <2>1. AddGroup(folded, n, max) = next
    BY <1>4 DEF AddGroup
  <2>2. ASSUME NEW id \in IdsOfKind
        PROVE  objects[id] = Summary(id, a, n)
    <3>1. id \in Nat /\ folded.last \in Nat /\ a <= folded.last /\ folded.last < n
      BY <1>0
    <3>2. \A m \in Nat, c \in Changes : folded.last < m /\ m < n => <<m, Kind, id, c>> \notin log
      BY <1>0, <1>4, <3>1
    <3>3. Summary(id, a, n) = IF id \in GroupIds(n) THEN NextSeen(Summary(id, a, folded.last), WordAt(n, id))
                              ELSE Summary(id, a, folded.last)
      <4>1. PICK l \in Nat : l = folded.last
        BY <3>1
      <4> QED BY <3>1, <3>2, <4>1, SummaryStep
    <3> QED BY <1>0, <3>3
  <2>3. \A id \in IdsOfKind : Summary(id, a, n) \in Answers
    BY DEF Summary, Answers
  <2>4. objects \in [IdsOfKind -> Answers]
    <3>1. \A id \in IdsOfKind : objects[id] \in Answers
      BY <2>2, <2>3
    <3>2. objects = [id \in IdsOfKind |-> objects[id]]
      OBVIOUS
    <3> HIDE DEF objects
    <3> QED BY <3>1, <3>2
  <2> HIDE DEF objects
  <2>5. next \in [objects : [IdsOfKind -> Answers], last : Nat, more : BOOLEAN]
        /\ next.objects = objects /\ next.last = n /\ next.more = FALSE
    BY <2>4
  <2> HIDE DEF next
  <2>6. FoldRight(next, a, n, max)
    BY <2>2, <2>5 DEF FoldRight
  <2> QED BY <2>1, <2>6
<1> QED BY <1>1, <1>2, <1>3, <1>4

\* The fold of the whole log sums up its rows.
LEMMA FoldedRight ==
  ASSUME TypeOK, OneWord, Fates, NEW a \in Nat, a <= modseq, NEW max \in Nat
  PROVE  FoldRight(Folded(a, max), a, modseq, max)
<1>0. modseq \in Nat
  BY TypeParts DEF EmailTypes
<1> DEFINE G == CHOOSE g : g = [n \in a .. modseq |-> IF n = a THEN Unread(a) ELSE AddGroup(g[n - 1], n, max)]
<1>1. Folded(a, max) = G[modseq]
  BY DEF Folded
<1>2. G = [n \in a .. modseq |-> IF n = a THEN Unread(a) ELSE AddGroup(G[n - 1], n, max)]
  <2>1. \E g : g = [n \in a .. modseq |-> IF n = a THEN Unread(a) ELSE AddGroup(g[n - 1], n, max)]
    BY <1>0, FoldExists, ZenonT(30) DEF FoldTo
  <2> QED BY <2>1
<1> HIDE DEF G
<1> DEFINE S == {n \in a .. modseq : ~FoldRight(G[n], a, n, max)}
<1>3. S = {}
  <2> SUFFICES ASSUME S # {} PROVE FALSE
    OBVIOUS
  <2>1. PICK n \in S : \A i \in S : n <= i
    <3>1. S \in SUBSET Nat
      BY <1>0
    <3> HIDE DEF S
    <3> QED BY <3>1, LeastNumber
  <2>2. n \in a .. modseq /\ n \in Nat /\ ~FoldRight(G[n], a, n, max)
    BY <1>0, <2>1
  <2>3. CASE n = a
    <3>1. G[n] = Unread(a)
      BY <1>2, <2>2, <2>3
    <3>2. /\ Unread(a) \in [objects : [IdsOfKind -> Answers], last : Nat, more : BOOLEAN]
          /\ Unread(a).last = a /\ Unread(a).more = FALSE
          /\ \A id \in IdsOfKind : Unread(a).objects[id] = "none"
      BY DEF Unread, Answers
    <3>3. \A id \in IdsOfKind : Summary(id, a, a) = "none"
      <4>1. \A m \in Nat : ~(a < m /\ m <= a)
        OBVIOUS
      <4>2. \A id, c : ~Said(id, a, a, c)
        BY <4>1, Zenon DEF Said
      <4> QED BY <4>2 DEF Summary, Speaks
    <3>4. FoldRight(Unread(a), a, a, max)
      BY <3>2, <3>3 DEF FoldRight
    <3> QED BY <2>2, <2>3, <3>1, <3>4
  <2>4. CASE n # a
    <3>1. n - 1 \in a .. modseq /\ a < n /\ n - 1 \in Nat /\ ~(n <= n - 1)
      BY <1>0, <2>2, <2>4
    <3>2. FoldRight(G[n - 1], a, n - 1, max)
      BY <2>1, <3>1
    <3>3. G[n] = AddGroup(G[n - 1], n, max)
      BY <1>2, <2>2, <2>4
    <3> HIDE DEF S
    <3> QED BY <2>2, <3>1, <3>2, <3>3, FoldStep
  <2> QED BY <2>3, <2>4
<1>4. modseq \in a .. modseq
  BY <1>0
<1> QED BY <1>1, <1>3, <1>4

\* The sets of an answer that covers the rows after modseq a up to m.
SumsUp(answer, a, m) ==
  /\ answer.created = {id \in IdsOfKind : Summary(id, a, m) = "created"}
  /\ answer.updated = {id \in IdsOfKind : Summary(id, a, m) = "updated"}
  /\ answer.destroyed = {id \in IdsOfKind : Summary(id, a, m) = "destroyed"}

\* An answer to /changes sums up a first part of the log that reaches at least to the
\* state it hands out, whatever was committed after that state was read and wherever
\* the page ends; without a limit it sums up the whole log.
THEOREM AggregateSumsUp ==
  ASSUME TypeOK, OneWord, Fates, NEW a \in Nat, NEW upto \in Nat, a <= upto, upto <= modseq,
         NEW max \in Nat
  PROVE  LET answer == Aggregate(a, upto, max)
         IN  /\ answer.state \in Nat /\ a <= answer.state
             /\ \E m \in Nat : /\ answer.state <= m /\ m <= modseq
                               /\ SumsUp(answer, a, m)
                               /\ max = 0 => m = modseq
<1>0. modseq \in Nat /\ IdsOfKind \subseteq Nat
  BY TypeParts, KindIds DEF EmailTypes
<1>1. PICK folded : folded = Folded(a, max)
  OBVIOUS
<1>2. FoldRight(folded, a, modseq, max)
  BY <1>0, <1>1, FoldedRight
<1>3. PICK answer : answer = Aggregate(a, upto, max)
  OBVIOUS
<1>4. /\ answer.created = {id \in IdsOfKind : folded.objects[id] = "created"}
      /\ answer.updated = {id \in IdsOfKind : folded.objects[id] = "updated"}
      /\ answer.destroyed = {id \in IdsOfKind : folded.objects[id] = "destroyed"}
      /\ answer.state = IF folded.more THEN folded.last ELSE upto
  BY <1>1, <1>3 DEF Aggregate, StateOfPage
<1>5. /\ folded.last \in Nat /\ a <= folded.last /\ folded.last <= modseq
      /\ \A id \in IdsOfKind : folded.objects[id] = Summary(id, a, folded.last)
      /\ ~folded.more => \A m, id \in Nat, c \in Changes :
           folded.last < m /\ m <= modseq => <<m, Kind, id, c>> \notin log
      /\ max = 0 => ~folded.more
  BY <1>2 DEF FoldRight
<1>6. CASE folded.more
  <2>1. SumsUp(answer, a, folded.last)
    BY <1>4, <1>5 DEF SumsUp
  <2>2. answer.state = folded.last /\ max # 0
    BY <1>4, <1>5, <1>6
  <2> QED BY <1>0, <1>3, <1>5, <2>1, <2>2
<1>7. CASE ~folded.more
  <2>1. ASSUME NEW id \in IdsOfKind
        PROVE  folded.objects[id] = Summary(id, a, modseq)
    <3>1. ASSUME NEW c \in Changes
          PROVE  Said(id, a, modseq, c) <=> Said(id, a, folded.last, c)
      <4>1. ASSUME Said(id, a, modseq, c) PROVE Said(id, a, folded.last, c)
        <5>1. PICK m \in Nat : a < m /\ m <= modseq /\ <<m, Kind, id, c>> \in log
          BY <4>1 DEF Said
        <5>2. ~(folded.last < m)
          BY <1>0, <1>5, <1>7, <5>1
        <5>3. m <= folded.last
          BY <1>5, <5>2
        <5> QED BY <5>1, <5>3 DEF Said
      <4>2. ASSUME Said(id, a, folded.last, c) PROVE Said(id, a, modseq, c)
        <5>1. PICK m \in Nat : a < m /\ m <= folded.last /\ <<m, Kind, id, c>> \in log
          BY <4>2 DEF Said
        <5>2. m <= modseq
          BY <1>0, <1>5, <5>1
        <5> QED BY <5>1, <5>2 DEF Said
      <4> QED BY <4>1, <4>2
    <3>2. Summary(id, a, modseq) = Summary(id, a, folded.last)
      <4>1. "created" \in Changes /\ "destroyed" \in Changes
        BY DEF Changes
      <4>2. Speaks(id, a, modseq) <=> Speaks(id, a, folded.last)
        BY <3>1 DEF Speaks
      <4> QED BY <3>1, <4>1, <4>2 DEF Summary
    <3> QED BY <1>5, <3>2
  <2>2. SumsUp(answer, a, modseq)
    BY <1>4, <2>1 DEF SumsUp
  <2>3. answer.state = upto
    BY <1>4, <1>7
  <2> QED BY <1>0, <1>3, <2>2, <2>3
<1> QED BY <1>6, <1>7

-----------------------------------------------------------------------------
(* The steps of the JMAP client.                                           *)

\* The types the proofs about the client need.
LEMMA JmapTypes ==
  ASSUME TypeOK, JTypeOK
  PROVE  /\ modseq \in Nat /\ jstate \in Nat /\ current \in Nat /\ page.state \in Nat /\ batch \in Nat
         /\ IdsOfKind \subseteq Nat /\ Ids(copy) \subseteq Nat
         /\ "created" \in Changes /\ "updated" \in Changes /\ "destroyed" \in Changes
<1>1. modseq \in Nat /\ batch \in Nat
  BY TypeParts DEF EmailTypes, TxTypes
<1>2. /\ jstate \in 0 .. modseq /\ current \in 0 .. modseq /\ page.state \in 0 .. modseq
      /\ Ids(copy) \subseteq IdsOfKind
  BY DEF JTypeOK
<1>3. jstate \in Nat /\ current \in Nat /\ page.state \in Nat
  BY <1>1, <1>2
<1>4. "created" \in Changes /\ "updated" \in Changes /\ "destroyed" \in Changes
  BY DEF Changes
<1> QED BY <1>1, <1>2, <1>3, <1>4, KindIds

\* An object is created once.
LEMMA CreatedOnce ==
  ASSUME TypeOK, Fates, NEW id \in Nat, NEW k \in Nat, CreatedBy(id, k)
  PROVE  ~Since(id, k, "created")
<1> SUFFICES ASSUME NEW n \in Nat, k < n, <<n, Kind, id, "created">> \in log PROVE FALSE
  BY DEF Since
<1>1. PICK row \in log : row[1] <= k /\ row[2] = Kind /\ row[3] = id /\ row[4] = "created"
  BY DEF CreatedBy
<1>2. row[1] \in Nat /\ row = <<row[1], row[2], row[3], row[4]>>
  BY TypeParts DEF LogTypes
<1>3. <<row[1], Kind, id, "created">> \in log
  BY <1>1, <1>2
<1>4. n <= row[1]
  BY <1>2, <1>3 DEF Fates, Changes
<1> QED BY <1>1, <1>2, <1>4

\* What is said after a modseq is said up to another, or after it.
LEMMA SaidOrSince ==
  ASSUME NEW id, NEW a \in Nat, NEW b \in Nat, a <= b, NEW c, Since(id, a, c)
  PROVE  Said(id, a, b, c) \/ Since(id, b, c)
<1>1. PICK n \in Nat : a < n /\ <<n, Kind, id, c>> \in log
  BY DEF Since
<1>2. n <= b \/ b < n
  OBVIOUS
<1> QED BY <1>1, <1>2 DEF Said, Since

\* What a summary that covers the rows after a up to m says, in terms of the log.
LEMMA SummaryTells ==
  ASSUME NEW id, NEW a \in Nat, NEW b \in Nat, NEW m \in Nat, b <= m
  PROVE  /\ Summary(id, a, m) = "destroyed" => Since(id, a, "destroyed")
         /\ Speaks(id, a, b) =>
              \/ Summary(id, a, m) \in {"created", "updated", "destroyed"}
              \/ Since(id, a, "created") /\ Since(id, a, "destroyed")
<1>1. \A c : Said(id, a, m, c) => Since(id, a, c)
  BY DEF Said, Since
<1>2. Speaks(id, a, b) => Speaks(id, a, m)
  <2> SUFFICES ASSUME NEW c \in Changes, Said(id, a, b, c) PROVE Speaks(id, a, m)
    BY DEF Speaks
  <2>1. PICK n \in Nat : a < n /\ n <= b /\ <<n, Kind, id, c>> \in log
    BY DEF Said
  <2>2. n <= m
    BY <2>1
  <2> QED BY <2>1, <2>2 DEF Said, Speaks
<1> QED BY <1>1, <1>2 DEF Summary

\* A summary of the whole log.
LEMMA WholeSummary ==
  ASSUME TypeOK, OneWord, NEW id \in Nat, NEW a \in Nat
  PROVE  /\ Changed(id, a) /\ ~Since(id, a, "destroyed") => Summary(id, a, modseq) \in {"created", "updated"}
         /\ Since(id, a, "destroyed") /\ ~Since(id, a, "created") => Summary(id, a, modseq) = "destroyed"
<1>0. modseq \in Nat /\ "created" \in Changes /\ "destroyed" \in Changes
  BY TypeParts DEF EmailTypes, Changes
<1>1. ASSUME NEW c \in Changes
      PROVE  Said(id, a, modseq, c) <=> Since(id, a, c)
  <2>1. \A n \in Nat : <<n, Kind, id, c>> \in log => n <= modseq
    BY <1>0, KindIds DEF OneWord
  <2> QED BY <2>1 DEF Said, Since
<1>2. Speaks(id, a, modseq) <=> Changed(id, a)
  BY <1>1 DEF Speaks, Changed
<1>3. Since(id, a, "destroyed") => Changed(id, a)
  BY <1>0 DEF Changed
<1> QED BY <1>0, <1>1, <1>2, <1>3 DEF Summary

\* Reading the modseq changes nothing the client knows.
LEMMA AskKeeps ==
  ASSUME StoreInv, JmapInv, AskChanges
  PROVE  JmapInv'
<1>0. /\ TypeOK /\ Shape /\ JTypeOK /\ JmapBehind /\ op = "none"
  BY DEF StoreInv, JmapInv, AskChanges
<1>1. /\ UNCHANGED <<storeVars, copy, jstate, page, early>>
      /\ current' = modseq /\ jpc' = "asked"
  BY DEF AskChanges
<1>2. /\ UNCHANGED <<log, op, box, emails, threads, boxes, threadOf, seen, uid, lastEmail, lastThread,
                     lastBox, modseq, batch>>
  BY <1>1 DEF storeVars, emailVars, boxVars, idVars, txVars
<1>3. batch = 0 /\ modseq \in Nat /\ jstate \in Nat
  BY <1>0, JmapTypes DEF Shape
<1>4. JTypeOK'
  <2>1. Ids(copy)' = Ids(copy) /\ IdsOfKind' = IdsOfKind
    BY <1>1 DEF Ids, IdsOfKind
  <2>2. modseq \in 0 .. modseq
    BY <1>3
  <2> QED BY <1>0, <1>1, <1>2, <2>1, <2>2 DEF JTypeOK
<1>5. JmapBehind'
  BY <1>0, <1>1, <1>2, <1>3 DEF JmapBehind
<1>6. Live' = Live /\ LastId' = LastId /\ \A id : Content(id)' = Content(id)
  BY <1>2 DEF Live, LastId, Content, BoxesOf, EmailsIn
<1>7. Fates'
  BY <1>2, <1>6 DEF JmapInv, Fates
<1>8. Complete' /\ Mortal' /\ Current'
  BY <1>1, <1>2, <1>6 DEF JmapInv, Complete, Mortal, Current, Changed, Since, CreatedBy, Ids
<1>9. Answered'
  BY <1>1 DEF Answered
<1> QED BY <1>4, <1>5, <1>7, <1>8, <1>9 DEF JmapInv

\* The answer names what the client has to hear of before it takes the state it is told.
LEMMA ReadKeeps ==
  ASSUME StoreInv, JmapInv, NEW max \in MaxChanges, ReadLog(max)
  PROVE  JmapInv'
<1>0. /\ TypeOK /\ Shape /\ OneWord /\ JTypeOK /\ JmapBehind /\ Fates /\ op = "none" /\ max \in Nat
  BY MaxChangesAssumption DEF StoreInv, JmapInv, ReadLog
<1>1. /\ UNCHANGED <<storeVars, copy, jstate, early>>
      /\ page' = Aggregate(jstate, current, max) /\ current' = 0
      /\ jpc = "asked" /\ jpc' = "answered"
  BY DEF ReadLog
<1>2. /\ UNCHANGED <<log, op, box, emails, threads, boxes, threadOf, seen, uid, lastEmail, lastThread,
                     lastBox, modseq, batch>>
  BY <1>1 DEF storeVars, emailVars, boxVars, idVars, txVars
<1>3. batch = 0 /\ modseq \in Nat /\ jstate \in Nat /\ current \in Nat /\ IdsOfKind \subseteq Nat
      /\ jstate <= current /\ current <= modseq /\ jstate <= modseq
  BY <1>0, <1>1, JmapTypes DEF Shape, JmapBehind
<1>4. PICK a \in Nat, upto \in Nat : a = jstate /\ upto = current
  BY <1>3
<1>5. PICK answer : answer = Aggregate(a, upto, max)
  OBVIOUS
<1>6. page' = answer
  BY <1>1, <1>4, <1>5
<1>7. /\ answer.state \in Nat /\ a <= answer.state
      /\ \E m \in Nat : answer.state <= m /\ m <= modseq /\ SumsUp(answer, a, m)
  <2>1. a <= upto /\ upto <= modseq
    BY <1>3, <1>4
  <2>2. /\ Aggregate(a, upto, max).state \in Nat /\ a <= Aggregate(a, upto, max).state
        /\ \E m \in Nat : /\ Aggregate(a, upto, max).state <= m /\ m <= modseq
                          /\ SumsUp(Aggregate(a, upto, max), a, m)
                          /\ max = 0 => m = modseq
    BY <1>0, <2>1, AggregateSumsUp
  <2>3. PICK m \in Nat : /\ Aggregate(a, upto, max).state <= m /\ m <= modseq
                         /\ SumsUp(Aggregate(a, upto, max), a, m)
    BY <2>2
  <2>4. answer.state <= m /\ SumsUp(answer, a, m)
    BY <1>5, <2>3
  <2> QED BY <1>5, <2>2, <2>3, <2>4
<1>8. PICK m \in Nat : answer.state <= m /\ m <= modseq /\ SumsUp(answer, a, m)
  BY <1>7
<1>9. answer.state <= modseq
  BY <1>3, <1>7, <1>8
<1>10. JTypeOK'
  <2>1. Ids(copy)' = Ids(copy) /\ IdsOfKind' = IdsOfKind
    BY <1>1 DEF Ids, IdsOfKind
  <2>2. 0 \in 0 .. modseq /\ answer.state \in 0 .. modseq
    BY <1>3, <1>7, <1>9
  <2> QED BY <1>0, <1>1, <1>2, <1>6, <2>1, <2>2 DEF JTypeOK
<1>11. JmapBehind'
  BY <1>1, <1>2, <1>3, <1>6, <1>9 DEF JmapBehind
<1>12. Live' = Live /\ LastId' = LastId /\ \A id : Content(id)' = Content(id)
  BY <1>2 DEF Live, LastId, Content, BoxesOf, EmailsIn
<1>13. Fates'
  BY <1>0, <1>2, <1>12 DEF Fates
<1>14. Complete' /\ Mortal' /\ Current'
  BY <1>1, <1>2, <1>12 DEF JmapInv, Complete, Mortal, Current, Changed, Since, CreatedBy, Ids
<1>15. ASSUME NEW id \in IdsOfKind, Speaks(id, a, answer.state)
       PROVE  \/ id \in answer.created \union answer.updated
              \/ id \in answer.destroyed
              \/ Since(id, a, "created") /\ Since(id, a, "destroyed")
  <2>1. \/ Summary(id, a, m) \in {"created", "updated", "destroyed"}
        \/ Since(id, a, "created") /\ Since(id, a, "destroyed")
    BY <1>7, <1>8, <1>15, SummaryTells
  <2> QED BY <1>8, <2>1 DEF SumsUp
<1>16. ASSUME NEW id \in answer.destroyed
       PROVE  Since(id, a, "destroyed")
  <2>1. Summary(id, a, m) = "destroyed"
    BY <1>8, <1>16 DEF SumsUp
  <2> QED BY <1>7, <1>8, <2>1, SummaryTells
<1>17. Answered'
  <2>1. jstate' = a /\ IdsOfKind' = IdsOfKind
    BY <1>1, <1>4 DEF IdsOfKind
  <2>2. \A id, c : Since(id, a, c)' <=> Since(id, a, c)
    BY <1>2 DEF Since
  <2>3. \A id : Speaks(id, a, answer.state)' <=> Speaks(id, a, answer.state)
    BY <1>2 DEF Speaks, Said
  <2> QED BY <1>6, <1>7, <1>15, <1>16, <2>1, <2>2, <2>3 DEF Answered, Since, Speaks, Said
<1> QED BY <1>10, <1>11, <1>13, <1>14, <1>17 DEF JmapInv

\* What is live is not said to be destroyed.
LEMMA LiveNotDestroyed ==
  ASSUME Fates, NEW id \in Nat, NEW k, Since(id, k, "destroyed")
  PROVE  id \notin Live
  BY DEF Fates, Since

\* The objects of the client's kind have ids of the kind.
LEMMA LiveIds ==
  ASSUME TypeOK
  PROVE  Live \subseteq IdsOfKind
<1>1. emails \subseteq EmailIds /\ threads \subseteq ThreadIds /\ boxes \subseteq BoxIds
  BY TypeParts DEF EmailTypes
<1> QED BY <1>1, KindAssumption DEF Live, IdsOfKind, Kinds

\* After /get the client's copy is as good for the state it was told as it was for the
\* one before.
LEMMA GetKeeps ==
  ASSUME StoreInv, JmapInv, Get
  PROVE  JmapInv'
<1>0. /\ TypeOK /\ Shape /\ OneWord /\ JTypeOK /\ JmapBehind /\ Fates /\ op = "none"
      /\ Complete /\ Mortal /\ Current /\ Answered
  BY DEF StoreInv, JmapInv, Get
<1>1. PICK fetch, gone, t : fetch = page.created \union page.updated /\ gone = page.destroyed /\ t = page.state
  OBVIOUS
<1>2. /\ copy' = {o \in copy : o.id \notin fetch \union gone} \union {o \in Objects : o.id \in fetch}
      /\ early' = (early \ (fetch \union gone)) \union {id \in fetch \intersect Live : ~CreatedBy(id, t)}
      /\ jstate' = t /\ page' = NoPage /\ jpc = "answered" /\ jpc' = "idle"
      /\ UNCHANGED <<storeVars, current>>
  BY <1>1 DEF Get
<1>3. UNCHANGED <<log, op, box, emails, threads, boxes, threadOf, seen, uid, lastEmail, lastThread,
                  lastBox, modseq, batch>>
  BY <1>2 DEF storeVars, emailVars, boxVars, idVars, txVars
<1>4. /\ batch = 0 /\ modseq \in Nat /\ jstate \in Nat /\ t \in Nat /\ IdsOfKind \subseteq Nat
      /\ Ids(copy) \subseteq IdsOfKind /\ early \subseteq Ids(copy) /\ Live \subseteq IdsOfKind
      /\ current \in 0 .. modseq /\ t \in 0 .. modseq
      /\ "created" \in Changes /\ "updated" \in Changes /\ "destroyed" \in Changes
  BY <1>0, <1>1, JmapTypes, LiveIds DEF Shape, JTypeOK
<1>5. PICK s \in Nat : s = jstate
  BY <1>4
<1>6. /\ s <= t
      /\ \A id \in IdsOfKind : Speaks(id, s, t) =>
           id \in fetch \/ id \in gone \/ (Since(id, s, "created") /\ Since(id, s, "destroyed"))
      /\ \A id \in gone : Since(id, s, "destroyed")
  BY <1>0, <1>1, <1>2, <1>5 DEF Answered
<1>7. Live' = Live /\ LastId' = LastId /\ \A id : Content(id)' = Content(id)
  BY <1>3 DEF Live, LastId, Content, BoxesOf, EmailsIn
<1>9. /\ \A o \in Objects : o.id \in Live /\ o.content = Content(o.id)
      /\ \A id \in Live : \E o \in Objects : o.id = id
  <2>1. ASSUME NEW o \in Objects PROVE o.id \in Live /\ o.content = Content(o.id)
    <3>1. PICK id \in Live : o = [id |-> id, content |-> Content(id)]
      BY DEF Objects
    <3>2. o.id = id /\ o.content = Content(id)
      BY <3>1
    <3> QED BY <3>2
  <2>2. ASSUME NEW id \in Live PROVE \E o \in Objects : o.id = id
    <3> DEFINE o == [id |-> id, content |-> Content(id)]
    <3>1. o \in Objects /\ o.id = id
      BY DEF Objects
    <3> HIDE DEF o
    <3> QED BY <3>1
  <2> QED BY <2>1, <2>2
<1>10. /\ \A id \in Ids(copy') :
            (id \in Ids(copy) /\ id \notin fetch /\ id \notin gone) \/ id \in fetch \intersect Live
       /\ \A id \in Ids(copy) : id \in fetch \union gone \/ id \in Ids(copy')
       /\ \A id \in fetch \intersect Live : id \in Ids(copy')
  <2>1. ASSUME NEW o \in copy'
        PROVE  (o \in copy /\ o.id \notin fetch \union gone) \/ (o \in Objects /\ o.id \in fetch)
    BY <1>2
  <2>2. \A o : (o \in copy /\ o.id \notin fetch \union gone) \/ (o \in Objects /\ o.id \in fetch) => o \in copy'
    BY <1>2
  <2> QED BY <1>9, <2>1, <2>2 DEF Ids
<1>11. ASSUME NEW id \in IdsOfKind, Changed(id, s), id \in Live, id \notin fetch
       PROVE  Changed(id, t)
  <2>1. PICK c \in Changes : Since(id, s, c)
    BY <1>11 DEF Changed
  <2>2. CASE Said(id, s, t, c)
    <3>1. Speaks(id, s, t)
      BY <2>2 DEF Speaks
    <3>2. Since(id, s, "destroyed")
      BY <1>6, <1>11, <3>1
    <3> QED BY <1>0, <1>4, <1>11, <3>2, LiveNotDestroyed
  <2>3. CASE Since(id, t, c)
    BY <2>3 DEF Changed
  <2> QED BY <1>4, <1>6, <2>1, <2>2, <2>3, SaidOrSince
<1>12. \A id \in gone : id \in IdsOfKind => id \notin Live
  BY <1>0, <1>4, <1>6, LiveNotDestroyed
<1>13. ASSUME NEW id \in Live PROVE id \in Ids(copy') \/ Changed(id, t)
  <2>1. id \in IdsOfKind /\ (id \in Ids(copy) \/ Changed(id, s))
    BY <1>0, <1>4, <1>5 DEF Complete
  <2>2. CASE id \in fetch
    BY <1>10, <2>2
  <2>3. CASE id \notin fetch /\ Changed(id, s)
    BY <1>11, <2>1, <2>3
  <2>4. CASE id \notin fetch /\ id \in Ids(copy)
    BY <1>10, <1>12, <2>1, <2>4
  <2> QED BY <2>1, <2>2, <2>3, <2>4
<1>14. ASSUME NEW id \in Ids(copy') \ early'
       PROVE  /\ CreatedBy(id, t)
              /\ id \in Live \/ Since(id, t, "destroyed") \/ (Kind # "Email" /\ Changed(id, t))
  <2>1. CASE id \in fetch \intersect Live
    BY <1>2, <1>14, <2>1
  <2>2. CASE id \in Ids(copy) /\ id \notin fetch /\ id \notin gone
    <3>1. id \notin early /\ id \in IdsOfKind /\ id \in Nat
      BY <1>2, <1>4, <1>14, <2>2
    <3>2. /\ CreatedBy(id, s)
          /\ id \in Live \/ Since(id, s, "destroyed") \/ (Kind # "Email" /\ Changed(id, s))
      BY <1>0, <1>5, <2>2, <3>1 DEF Mortal
    <3>3. ~Since(id, s, "created")
      BY <1>0, <3>1, <3>2, CreatedOnce
    <3>4. ~Speaks(id, s, t)
      BY <1>6, <2>2, <3>1, <3>3
    <3>5. ASSUME NEW c \in Changes, Since(id, s, c) PROVE Since(id, t, c)
      <4>1. ~Said(id, s, t, c)
        BY <3>4 DEF Speaks
      <4> QED BY <1>4, <1>6, <3>5, <4>1, SaidOrSince
    <3>6. Changed(id, s) => Changed(id, t)
      BY <3>5 DEF Changed
    <3>7. CreatedBy(id, t)
      <4>1. PICK row \in log : row[1] <= s /\ row[2] = Kind /\ row[3] = id /\ row[4] = "created"
        BY <3>2 DEF CreatedBy
      <4>2. row[1] \in Nat
        BY <1>0, TypeParts DEF LogTypes
      <4>3. row[1] <= t
        BY <1>4, <1>6, <4>1, <4>2
      <4> QED BY <4>1, <4>3 DEF CreatedBy
    <3> QED BY <1>4, <3>2, <3>5, <3>6, <3>7
  <2> QED BY <1>10, <1>14, <2>1, <2>2
<1>15. ASSUME NEW o \in copy', o.id \in Live, o.content # Content(o.id)
       PROVE  Changed(o.id, t)
  <2>1. o \in copy /\ o.id \notin fetch
    BY <1>2, <1>9, <1>15
  <2>2. Changed(o.id, s)
    BY <1>0, <1>5, <1>15, <2>1 DEF Current
  <2> QED BY <1>4, <1>11, <1>15, <2>1, <2>2
<1>16. early' \subseteq Ids(copy') /\ Ids(copy') \subseteq IdsOfKind
  <2>1. Ids(copy') \subseteq IdsOfKind
    BY <1>4, <1>10
  <2>2. ASSUME NEW id \in early' PROVE id \in Ids(copy')
    BY <1>2, <1>4, <1>10
  <2> QED BY <2>1, <2>2
<1>17. JTypeOK'
  <2>1. Ids(copy)' = Ids(copy') /\ IdsOfKind' = IdsOfKind /\ page'.state = 0 /\ 0 \in 0 .. modseq
    BY <1>2, <1>4 DEF Ids, IdsOfKind, NoPage
  <2> QED BY <1>2, <1>3, <1>4, <1>16, <2>1 DEF JTypeOK
<1>18. JmapBehind'
  <2>1. page'.state = 0
    BY <1>2 DEF NoPage
  <2> QED BY <1>2, <1>3, <1>4, <2>1 DEF JmapBehind
<1>19. Fates'
  BY <1>0, <1>3, <1>7 DEF Fates
<1>20. /\ \A id, c : Since(id, jstate, c)' <=> Since(id, t, c)
       /\ \A id : Changed(id, jstate)' <=> Changed(id, t)
       /\ \A id : CreatedBy(id, jstate)' <=> CreatedBy(id, t)
       /\ Ids(copy)' = Ids(copy')
  BY <1>2, <1>3 DEF Since, Changed, CreatedBy, Ids
<1>21. Complete' /\ Mortal' /\ Current'
  <2>1. Complete'
    BY <1>7, <1>13, <1>20 DEF Complete
  <2>2. Mortal'
    BY <1>7, <1>14, <1>20 DEF Mortal
  <2>3. Current'
    BY <1>7, <1>15, <1>20 DEF Current
  <2> QED BY <2>1, <2>2, <2>3
<1>22. Answered'
  BY <1>2 DEF Answered
<1> QED BY <1>17, <1>18, <1>19, <1>21, <1>22 DEF JmapInv

\* Between two requests the next answer names everything the client's copy is behind in.
LEMMA InvCatchesUp ==
  ASSUME StoreInv, JmapInv
  PROVE  JmapCatchesUp
<1> SUFFICES ASSUME AtRest PROVE JmapCatchesUp
  BY DEF JmapCatchesUp
<1>0. /\ TypeOK /\ OneWord /\ JTypeOK /\ JmapBehind /\ Fates /\ op = "none"
      /\ Complete /\ Mortal /\ Current
  BY DEF StoreInv, JmapInv, AtRest, Committed
<1>1. /\ modseq \in Nat /\ jstate \in Nat /\ jstate <= modseq /\ IdsOfKind \subseteq Nat /\ 0 \in Nat
      /\ Ids(copy) \subseteq IdsOfKind /\ Live \subseteq IdsOfKind
  BY <1>0, JmapTypes, LiveIds DEF JTypeOK, JmapBehind
<1>2. PICK s \in Nat : s = jstate
  BY <1>1
<1>3. PICK answer : answer = NextPage
  OBVIOUS
<1>4. SumsUp(answer, s, modseq)
  <2>1. \E m \in Nat : SumsUp(Aggregate(s, modseq, 0), s, m) /\ m = modseq
    BY <1>0, <1>1, <1>2, AggregateSumsUp
  <2> QED BY <1>2, <1>3, <2>1 DEF NextPage
<1>5. PICK fetch : fetch = answer.created \union answer.updated
  OBVIOUS
<1>6. ASSUME NEW id \in IdsOfKind, Changed(id, s), ~Since(id, s, "destroyed") PROVE id \in fetch
  <2>1. Summary(id, s, modseq) \in {"created", "updated"}
    BY <1>0, <1>1, <1>6, WholeSummary
  <2> QED BY <1>4, <1>5, <2>1 DEF SumsUp
<1>7. ASSUME NEW id \in IdsOfKind, Changed(id, s), id \in Live PROVE id \in fetch
  BY <1>0, <1>1, <1>6, <1>7, LiveNotDestroyed
<1>8. Live \subseteq Ids(copy) \union fetch
  BY <1>0, <1>1, <1>2, <1>7 DEF Complete
<1>9. ASSUME NEW id \in Ids(copy) \ Live, id \notin early
      PROVE  id \in answer.destroyed \/ (Kind # "Email" /\ id \in fetch)
  <2>1. /\ id \in IdsOfKind /\ id \in Nat /\ CreatedBy(id, s)
        /\ Since(id, s, "destroyed") \/ (Kind # "Email" /\ Changed(id, s))
    BY <1>0, <1>1, <1>2, <1>9 DEF Mortal
  <2>2. ~Since(id, s, "created")
    BY <1>0, <2>1, CreatedOnce
  <2>3. CASE Since(id, s, "destroyed")
    <3>1. Summary(id, s, modseq) = "destroyed"
      BY <1>0, <2>1, <2>2, <2>3, WholeSummary
    <3> QED BY <1>4, <2>1, <3>1 DEF SumsUp
  <2>4. CASE ~Since(id, s, "destroyed")
    BY <1>6, <2>1, <2>4
  <2> QED BY <2>3, <2>4
<1>10. ASSUME NEW o \in copy, o.id \in Live, o.content # Content(o.id) PROVE o.id \in fetch
  <2>1. Changed(o.id, s)
    BY <1>0, <1>2, <1>10 DEF Current
  <2> QED BY <1>1, <1>7, <1>10, <2>1
<1> QED BY <1>3, <1>5, <1>8, <1>9, <1>10 DEF JmapCatchesUp

-----------------------------------------------------------------------------
(* The steps of the store, as a JMAP client sees them.                     *)

\* The log has a word on object id at modseq n.
Word(id, n) == \E c \in Changes : <<n, Kind, id, c>> \in log'

\* What a step of the store comes to for the objects of the client's kind: the log only
\* grows, by rows of modseq n, and has one on every object that begins, ends or changes.
Tells(n) ==
  /\ log \subseteq log' /\ LastId <= LastId'
  /\ \A m, id \in Nat, c \in Changes :
       <<m, Kind, id, c>> \in log' /\ <<m, Kind, id, c>> \notin log =>
         /\ m = n /\ id \in 1 .. LastId'
         /\ c = "destroyed" => id \notin Live'
         /\ c = "created" => id > LastId
  /\ \A id \in Live' \ Live : id > LastId /\ <<n, Kind, id, "created">> \in log'
  /\ \A id \in Live \ Live' : Word(id, n) /\ (Kind = "Email" => <<n, Kind, id, "destroyed">> \in log')
  /\ \A id \in Live \intersect Live' :
       Content(id)' = Content(id) \/ Word(id, n) \/ (Kind = "Mailbox" /\ op' = "emptying" /\ id = box')
  /\ Kind = "Mailbox" /\ op = "emptying" => (op' = "emptying" /\ box' = box) \/ box \notin Live'

\* What a client that keeps emails sees.
LEMMA EmailKind ==
  ASSUME Kind = "Email"
  PROVE  /\ Live = emails /\ LastId = lastEmail
         /\ Live' = emails' /\ LastId' = lastEmail'
         /\ \A id : Content(id) = <<BoxesOf(id), id \in seen>>
         /\ \A id : Content(id)' = <<BoxesOf(id)', id \in seen'>>
  BY DEF Live, LastId, Content

\* What a client that keeps threads sees.
LEMMA ThreadKind ==
  ASSUME Kind = "Thread"
  PROVE  /\ Live = threads /\ LastId = lastThread
         /\ Live' = threads' /\ LastId' = lastThread'
         /\ \A id : Content(id) = {e \in emails : threadOf[e] = id}
         /\ \A id : Content(id)' = {e \in emails' : threadOf'[e] = id}
  BY DEF Live, LastId, Content

\* What a client that keeps mailboxes sees.
LEMMA MailboxKind ==
  ASSUME Kind = "Mailbox"
  PROVE  /\ Live = boxes /\ LastId = lastBox
         /\ Live' = boxes' /\ LastId' = lastBox'
         /\ \A id : Content(id) = {<<e, e \in seen>> : e \in EmailsIn(id)}
         /\ \A id : Content(id)' = {<<e, e \in seen'>> : e \in EmailsIn(id)'}
  BY DEF Live, LastId, Content

\* A step that leaves the rows of the store alone.
LEMMA QuietTells ==
  ASSUME TypeOK, NEW n,
         UNCHANGED <<log, emails, threads, boxes, threadOf, seen, uid, lastEmail, lastThread, lastBox>>,
         op = "emptying" => op' = "emptying" /\ box' = box
  PROVE  Tells(n)
<1>1. Live' = Live /\ LastId' = LastId /\ \A id : Content(id)' = Content(id)
  BY DEF Live, LastId, Content, BoxesOf, EmailsIn
<1>2. LastId \in Nat
  <2>1. lastEmail \in Nat /\ lastThread \in Nat /\ lastBox \in Nat
    BY NumberTypes
  <2> QED BY <2>1, KindAssumption DEF LastId, Kinds
<1>3. LastId <= LastId
  BY <1>2
<1> QED BY <1>1, <1>3 DEF Tells

\* Where an email's row stays, so does what is seen of it.
LEMMA SameEmail ==
  ASSUME NEW f, boxes' = boxes, \A b \in boxes : uid'[b][f] = uid[b][f], f \in seen' <=> f \in seen
  PROVE  <<BoxesOf(f)', f \in seen'>> = <<BoxesOf(f), f \in seen>>
<1>1. BoxesOf(f)' = BoxesOf(f)
  BY DEF BoxesOf
<1>2. (f \in seen') = (f \in seen)
  OBVIOUS
<1> QED BY <1>1, <1>2

\* The same for a mailbox.
LEMMA SameMailbox ==
  ASSUME NEW b,
         \A e : e \in emails /\ uid[b][e] # 0 <=> e \in emails' /\ uid'[b][e] # 0,
         \A e \in emails : uid[b][e] # 0 => (e \in seen' <=> e \in seen)
  PROVE  {<<e, e \in seen'>> : e \in EmailsIn(b)'} = {<<e, e \in seen>> : e \in EmailsIn(b)}
<1>1. EmailsIn(b)' = EmailsIn(b)
  BY DEF EmailsIn
<1>2. \A e \in EmailsIn(b) : (e \in seen') = (e \in seen)
  BY DEF EmailsIn
<1>3. \A e \in EmailsIn(b) : <<e, e \in seen'>> = <<e, e \in seen>>
  BY <1>2
<1> QED BY <1>1, <1>3

\* A new email: the log says that it is there, that its thread is or has grown, and
\* that its mailboxes have.
LEMMA IngestTells ==
  ASSUME TypeOK, Shape, Uids, Tops, OneWord, NEW n \in Nat, n = modseq + 1,
         NEW bs \in SUBSET boxes, NEW t \in ThreadIds, NEW isSeen \in BOOLEAN, Ingest(bs, t, isSeen)
  PROVE  Tells(n)
<1> USE CountsAssumption
<1>0. lastEmail + 1 \in Nat /\ (IF t \in threads THEN "updated" ELSE "created") \in {"updated", "created"}
  BY DEF TypeOK
<1>b. PICK e \in Nat : e = lastEmail + 1
  BY <1>0
<1>c. PICK said \in {"updated", "created"} : said = IF t \in threads THEN "updated" ELSE "created"
  BY <1>0
<1> DEFINE rows == {<<n, "Mailbox", b, "updated">> : b \in bs} \union
                     {<<n, "Email", e, "created">>, <<n, "Thread", t, said>>}
<1>1. /\ op = "none" /\ op' = "none"
      /\ emails' = emails \union {e} /\ lastEmail' = e /\ threads' = threads \union {t}
      /\ lastThread' = IF t \in threads THEN lastThread ELSE t
      /\ threadOf' = [threadOf EXCEPT ![e] = t] /\ boxes' = boxes /\ lastBox' = lastBox
      /\ t \in ThreadFor /\ log' = Recorded(rows)
      /\ seen' = IF isSeen THEN seen \union {e} ELSE seen
  BY <1>b, <1>c DEF Ingest, txVars
<1>2. /\ modseq \in Nat /\ e \in Nat /\ t \in Nat /\ lastEmail \in Nat /\ lastThread \in Nat
      /\ lastBox \in Nat /\ boxes \subseteq Nat /\ boxes \subseteq BoxIds /\ bs \subseteq boxes
      /\ emails \subseteq EmailIds /\ said \in Changes /\ EmailIds \subseteq Nat /\ seen \subseteq emails
      /\ threads \subseteq Nat
  BY <1>b, <1>c, <1>1 DEF TypeOK, ThreadIds, BoxIds, EmailIds, Changes
<1>3. /\ rows \in SUBSET LogRows
      /\ \A m, id \in Nat, kind \in Kinds, c \in Changes : <<m, kind, id, c>> \in rows <=>
           /\ m = n
           /\ \/ kind = "Mailbox" /\ id \in bs /\ c = "updated"
              \/ kind = "Email" /\ id = e /\ c = "created"
              \/ kind = "Thread" /\ id = t /\ c = said
  BY <1>2 DEF LogRows, Kinds, Changes
<1> HIDE DEF rows
<1>n. /\ "Email" \in Kinds /\ "Thread" \in Kinds /\ "Mailbox" \in Kinds
      /\ "created" \in Changes /\ "updated" \in Changes /\ "destroyed" \in Changes
  BY DEF Kinds, Changes
<1>4. Records(rows, n)
  <2>1. \A m, id \in Nat, kind \in Kinds, c \in Changes : <<m, kind, id, c>> \in rows => m = n
    BY <1>3
  <2> QED BY <1>1, <1>3, <2>1, RecordedTells
<1>5. \A kind \in Kinds, id \in Nat, c \in Changes : <<n, kind, id, c>> \notin log
  BY <1>2 DEF OneWord
<1>6. /\ log \subseteq log'
      /\ \A m, id \in Nat, kind \in Kinds, c \in Changes : <<m, kind, id, c>> \in log' =>
           <<m, kind, id, c>> \in log \/ (m = n /\ <<m, kind, id, c>> \in rows)
      /\ \A id \in Nat, kind \in Kinds, c \in Changes : <<n, kind, id, c>> \in rows => <<n, kind, id, c>> \in log'
  BY <1>4, <1>5 DEF Records
<1>7. /\ e \in EmailIds /\ e \notin emails /\ Homed(e, bs, n)
  BY <1>b, IngestFrame
<1>8. ASSUME NEW f \in emails
      PROVE  f # e /\ (f \in seen' <=> f \in seen) /\ \A b \in BoxIds : uid'[b][f] = uid[b][f]
  <2>1. f # e /\ f \in EmailIds
    BY <1>2, <1>7
  <2>2. f \in seen' <=> f \in seen
    BY <1>1, <2>1
  <2>3. \A b \in BoxIds : uid'[b][f] = uid[b][f]
    BY <1>7, <2>1 DEF Homed
  <2> QED BY <2>1, <2>2, <2>3
<1>9. CASE Kind = "Email"
  <2>1. /\ lastEmail <= lastEmail' /\ e \in 1 .. lastEmail' /\ e > lastEmail /\ emails' \ emails = {e}
        /\ emails \ emails' = {} /\ emails \intersect emails' = emails
    BY <1>b, <1>1, <1>2, <1>7
  <2>2. ASSUME NEW f \in emails PROVE <<BoxesOf(f)', f \in seen'>> = <<BoxesOf(f), f \in seen>>
    <3>1. \A b \in boxes : uid'[b][f] = uid[b][f]
      BY <1>2, <1>8
    <3> QED BY <1>1, <1>8, <3>1, SameEmail
  <2>3. <<n, "Email", e, "created">> \in log'
    BY <1>2, <1>3, <1>6, <1>n
  <2>4. \A m, id \in Nat, c \in Changes :
          <<m, "Email", id, c>> \in log' /\ <<m, "Email", id, c>> \notin log => m = n /\ id = e /\ c = "created"
    BY <1>3, <1>6, <1>n
  <2> QED BY <1>6, <1>9, <2>1, <2>2, <2>3, <2>4, EmailKind DEF Tells
<1>10. CASE Kind = "Thread"
  <2>1. /\ lastThread <= lastThread' /\ t \in 1 .. lastThread'
        /\ t \notin threads => t > lastThread
        /\ threads \ threads' = {} /\ threads' \ threads \subseteq {t}
    <3>1. CASE t \in threads
      <4>1. t \in 1 .. lastThread
        BY <3>1 DEF Shape
      <4> QED BY <1>1, <1>2, <3>1, <4>1
    <3>2. CASE t \notin threads
      <4>1. t = lastThread + 1
        BY <1>1, <3>2 DEF ThreadFor
      <4> QED BY <1>1, <1>2, <3>2, <4>1
    <3> QED BY <3>1, <3>2
  <2>2. ASSUME NEW q \in Nat, q # t
        PROVE  {f \in emails' : threadOf'[f] = q} = {f \in emails : threadOf[f] = q}
    <3>1. threadOf'[e] = t /\ \A f \in emails : threadOf'[f] = threadOf[f]
      <4>1. threadOf \in [EmailIds -> ThreadIds \union {0}]
        BY TypeParts DEF EmailTypes
      <4> QED BY <1>1, <1>2, <1>7, <4>1
    <3> QED BY <1>1, <2>2, <3>1
  <2>3. <<n, "Thread", t, said>> \in log' /\ (t \notin threads => said = "created")
    BY <1>2, <1>3, <1>6, <1>c, <1>n
  <2>4. \A m, id \in Nat, c \in Changes :
          <<m, "Thread", id, c>> \in log' /\ <<m, "Thread", id, c>> \notin log => m = n /\ id = t /\ c = said
    BY <1>3, <1>6, <1>n
  <2>5. said # "destroyed" /\ (said = "created" => t > lastThread)
    BY <1>c, <2>1
  <2>6. Word(t, n)
    BY <1>2, <1>10, <2>3 DEF Word
  <2>7. threads \subseteq Nat
    BY <1>2
  <2>8. \A q \in threads : Content(q)' = Content(q) \/ Word(q, n)
    <3>1. ASSUME NEW q \in threads, q # t PROVE Content(q)' = Content(q)
      <4>1. {f \in emails' : threadOf'[f] = q} = {f \in emails : threadOf[f] = q}
        BY <2>2, <2>7, <3>1
      <4> QED BY <1>10, <4>1 DEF Content
    <3> QED BY <2>6, <3>1
  <2>9. Live = threads /\ LastId = lastThread /\ Live' = threads' /\ LastId' = lastThread'
    BY <1>10, ThreadKind
  <2> QED BY <1>6, <1>10, <2>1, <2>3, <2>4, <2>5, <2>8, <2>9 DEF Tells
<1>11. CASE Kind = "Mailbox"
  <2>1. lastBox <= lastBox' /\ boxes \subseteq 1 .. lastBox'
    BY <1>1, <1>2 DEF Shape
  <2>2. ASSUME NEW b \in boxes, b \notin bs
        PROVE  {<<f, f \in seen'>> : f \in EmailsIn(b)'} = {<<f, f \in seen>> : f \in EmailsIn(b)}
    <3>1. uid'[b][e] = 0 /\ \A f \in emails : uid'[b][f] = uid[b][f]
      BY <1>2, <1>7, <1>8, <2>2 DEF Homed
    <3>2. \A f : f \in emails /\ uid[b][f] # 0 <=> f \in emails' /\ uid'[b][f] # 0
      BY <1>1, <3>1
    <3> QED BY <1>8, <3>2, SameMailbox
  <2>3. ASSUME NEW b \in bs PROVE Word(b, n)
    <3>1. <<n, "Mailbox", b, "updated">> \in log' /\ b \in Nat
      BY <1>2, <1>3, <1>6, <1>n
    <3> QED BY <1>11, <1>n, <3>1 DEF Word
  <2>4. \A m, id \in Nat, c \in Changes :
          <<m, "Mailbox", id, c>> \in log' /\ <<m, "Mailbox", id, c>> \notin log =>
            m = n /\ id \in bs /\ c = "updated"
    BY <1>3, <1>6, <1>n
  <2> QED BY <1>1, <1>2, <1>6, <1>11, <2>1, <2>2, <2>3, <2>4, MailboxKind DEF Tells
<1> QED BY <1>9, <1>10, <1>11, KindAssumption DEF Kinds

\* A changed email: the log says so, and speaks of the mailboxes that see a difference.
LEMMA UpdatesTells ==
  ASSUME TypeOK, Shape, Uids, Tops, OneWord, NEW n \in Nat, n = BatchModseq,
         NEW e \in emails, NEW bs \in SUBSET boxes, Updates(e, bs)
  PROVE  Tells(n)
<1> USE CountsAssumption
<1>1. /\ Homed(e, bs, n) /\ op' = op /\ box' = box
      /\ UNCHANGED <<emails, threadOf, threads, boxes, lastEmail, lastThread, lastBox>>
  BY UpdatesFrame DEF idVars
<1>2. PICK touched \in SUBSET boxes :
        /\ \A b \in boxes \ touched :
             (b \in bs <=> b \in BoxesOf(e)) /\ (b \in bs => (e \in seen' <=> e \in seen))
        /\ log' = Recorded({<<n, "Email", e, "updated">>} \union {<<n, "Mailbox", b, "updated">> : b \in touched})
  BY DEF Updates, UpdateEffect
<1>3. op # "emptying" /\ seen' \in {seen \union {e}, seen \ {e}}
  BY DEF Updates, UpdateEffect
<1>4. /\ lastEmail \in Nat /\ lastThread \in Nat /\ lastBox \in Nat /\ boxes \subseteq BoxIds
      /\ emails \subseteq EmailIds /\ BoxIds \subseteq Nat /\ EmailIds \subseteq Nat
      /\ emails \subseteq 1 .. lastEmail /\ boxes \subseteq 1 .. lastBox /\ e \in EmailIds
      /\ uid \in [BoxIds -> [EmailIds -> Nat]]
  <2>1. EmailIds \subseteq Nat /\ BoxIds \subseteq Nat
    BY DEF EmailIds, BoxIds
  <2>2. uid \in [BoxIds -> [EmailIds -> Nat]]
    BY TypeParts DEF BoxTypes
  <2> QED BY <2>1, <2>2, NumberTypes DEF Shape
<1> DEFINE rows == {<<n, "Email", e, "updated">>} \union {<<n, "Mailbox", b, "updated">> : b \in touched}
<1>5. /\ rows \in SUBSET LogRows
      /\ \A m, id \in Nat, kind \in Kinds, c \in Changes : <<m, kind, id, c>> \in rows <=>
           /\ m = n /\ c = "updated"
           /\ \/ kind = "Email" /\ id = e
              \/ kind = "Mailbox" /\ id \in touched
  BY <1>4 DEF LogRows, Kinds, Changes
<1>6. log' = Recorded(rows)
  BY <1>2
<1> HIDE DEF rows
<1>n. /\ "Email" \in Kinds /\ "Thread" \in Kinds /\ "Mailbox" \in Kinds /\ "updated" \in Changes
  BY DEF Kinds, Changes
<1>7. Records(rows, n)
  <2>1. \A m, id \in Nat, kind \in Kinds, c \in Changes : <<m, kind, id, c>> \in rows => m = n
    BY <1>5
  <2> QED BY <1>5, <1>6, <2>1, RecordedTells
<1>8. /\ log \subseteq log'
      /\ \A m, id \in Nat, kind \in Kinds, c \in Changes : <<m, kind, id, c>> \in log' =>
           <<m, kind, id, c>> \in log \/ (m = n /\ <<m, kind, id, c>> \in rows)
      /\ \A id \in Nat, kind \in Kinds, c \in Changes : <<n, kind, id, c>> \in rows =>
           \E d \in Changes : <<n, kind, id, d>> \in log'
  BY <1>7 DEF Records
<1>9. \A f \in emails : f # e => (f \in seen' <=> f \in seen) /\ \A b \in BoxIds : uid'[b][f] = uid[b][f]
  BY <1>1, <1>3, <1>4 DEF Homed
<1>10. CASE Kind = "Email"
  <2>1. Word(e, n)
    <3>1. <<n, "Email", e, "updated">> \in rows /\ e \in Nat
      BY <1>4, <1>5, <1>n
    <3> QED BY <1>8, <1>10, <1>n, <3>1 DEF Word
  <2>2. ASSUME NEW f \in emails, f # e PROVE <<BoxesOf(f)', f \in seen'>> = <<BoxesOf(f), f \in seen>>
    <3>1. \A b \in boxes : uid'[b][f] = uid[b][f]
      BY <1>4, <1>9, <2>2
    <3> QED BY <1>1, <1>9, <2>2, <3>1, SameEmail
  <2>3. \A m, id \in Nat, c \in Changes :
          <<m, "Email", id, c>> \in log' /\ <<m, "Email", id, c>> \notin log => m = n /\ id = e /\ c = "updated"
    BY <1>5, <1>8, <1>n
  <2>4. lastEmail <= lastEmail' /\ e \in 1 .. lastEmail'
    BY <1>1, <1>4
  <2> QED BY <1>1, <1>8, <1>10, <2>1, <2>2, <2>3, <2>4, EmailKind DEF Tells
<1>11. CASE Kind = "Thread"
  <2>1. \A q : Content(q)' = Content(q)
    BY <1>1, <1>11 DEF Content
  <2>2. \A m, id \in Nat, c \in Changes : <<m, "Thread", id, c>> \in log' => <<m, "Thread", id, c>> \in log
    BY <1>5, <1>8, <1>n
  <2>3. lastThread <= lastThread'
    BY <1>1, <1>4
  <2> QED BY <1>1, <1>8, <1>11, <2>1, <2>2, <2>3, ThreadKind DEF Tells
<1>12. CASE Kind = "Mailbox"
  <2>1. ASSUME NEW b \in touched PROVE Word(b, n)
    <3>1. <<n, "Mailbox", b, "updated">> \in rows /\ b \in Nat
      BY <1>4, <1>5, <1>n
    <3> QED BY <1>8, <1>12, <1>n, <3>1 DEF Word
  <2>2. ASSUME NEW b \in boxes, b \notin touched
        PROVE  {<<f, f \in seen'>> : f \in EmailsIn(b)'} = {<<f, f \in seen>> : f \in EmailsIn(b)}
    <3>1. b \in BoxIds /\ (b \in bs <=> uid[b][e] # 0) /\ (b \in bs => (e \in seen' <=> e \in seen))
      BY <1>2, <1>4, <2>2 DEF BoxesOf
    <3>2. uid'[b][e] # 0 <=> uid[b][e] # 0
      BY <1>1, <1>4, <3>1 DEF Homed
    <3>3. \A f : f \in emails /\ uid[b][f] # 0 <=> f \in emails' /\ uid'[b][f] # 0
      BY <1>1, <1>9, <3>1, <3>2
    <3>4. \A f \in emails : uid[b][f] # 0 => (f \in seen' <=> f \in seen)
      BY <1>9, <3>1
    <3> QED BY <3>3, <3>4, SameMailbox
  <2>3. \A m, id \in Nat, c \in Changes :
          <<m, "Mailbox", id, c>> \in log' /\ <<m, "Mailbox", id, c>> \notin log =>
            m = n /\ id \in touched /\ c = "updated"
    BY <1>5, <1>8, <1>n
  <2>4. lastBox <= lastBox' /\ touched \subseteq 1 .. lastBox'
    BY <1>1, <1>4
  <2> QED BY <1>1, <1>3, <1>8, <1>12, <2>1, <2>2, <2>3, <2>4, MailboxKind DEF Tells
<1> QED BY <1>10, <1>11, <1>12, KindAssumption DEF Kinds

\* An email that leaves the mailbox that is being destroyed: the log speaks of it alone.
LEMMA LeavesTells ==
  ASSUME TypeOK, Shape, Uids, OneWord, NEW n \in Nat, n = batch, NEW e \in emails, Leaves(e)
  PROVE  Tells(n)
<1> USE CountsAssumption
<1>1. /\ op = "emptying" /\ op' = op /\ box' = box /\ log' = Recorded({<<n, "Email", e, "updated">>})
      /\ UNCHANGED <<emails, threadOf, threads, boxes, seen, lastEmail, lastThread, lastBox>>
      /\ uid' = [uid EXCEPT ![box][e] = 0]
  BY DEF Leaves, emailVars, idVars
<1>2. /\ lastEmail \in Nat /\ lastThread \in Nat /\ lastBox \in Nat /\ boxes \subseteq BoxIds
      /\ emails \subseteq EmailIds /\ BoxIds \subseteq Nat /\ EmailIds \subseteq Nat
      /\ emails \subseteq 1 .. lastEmail /\ e \in EmailIds
      /\ uid \in [BoxIds -> [EmailIds -> Nat]]
  <2>1. EmailIds \subseteq Nat /\ BoxIds \subseteq Nat
    BY DEF EmailIds, BoxIds
  <2>2. uid \in [BoxIds -> [EmailIds -> Nat]]
    BY TypeParts DEF BoxTypes
  <2> QED BY <2>1, <2>2, NumberTypes DEF Shape
<1> DEFINE rows == {<<n, "Email", e, "updated">>}
<1>3. /\ rows \in SUBSET LogRows
      /\ \A m, id \in Nat, kind \in Kinds, c \in Changes : <<m, kind, id, c>> \in rows <=>
           m = n /\ c = "updated" /\ kind = "Email" /\ id = e
  BY <1>2 DEF LogRows, Kinds, Changes
<1>4. log' = Recorded(rows)
  BY <1>1
<1> HIDE DEF rows
<1>n. /\ "Email" \in Kinds /\ "Thread" \in Kinds /\ "Mailbox" \in Kinds /\ "updated" \in Changes
  BY DEF Kinds, Changes
<1>5. Records(rows, n)
  <2>1. \A m, id \in Nat, kind \in Kinds, c \in Changes : <<m, kind, id, c>> \in rows => m = n
    BY <1>3
  <2> QED BY <1>3, <1>4, <2>1, RecordedTells
<1>6. /\ log \subseteq log'
      /\ \A m, id \in Nat, kind \in Kinds, c \in Changes : <<m, kind, id, c>> \in log' =>
           <<m, kind, id, c>> \in log \/ (m = n /\ kind = "Email" /\ id = e /\ c = "updated")
      /\ \E d \in Changes : <<n, "Email", e, d>> \in log'
  BY <1>2, <1>3, <1>5, <1>n DEF Records
<1>7. \A b \in BoxIds, f \in EmailIds : b # box \/ f # e => uid'[b][f] = uid[b][f]
  BY <1>1, <1>2
<1>8. CASE Kind = "Email"
  <2>1. Word(e, n)
    BY <1>6, <1>8 DEF Word
  <2>2. ASSUME NEW f \in emails, f # e PROVE <<BoxesOf(f)', f \in seen'>> = <<BoxesOf(f), f \in seen>>
    <3>1. \A b \in boxes : uid'[b][f] = uid[b][f]
      BY <1>2, <1>7, <2>2
    <3> QED BY <1>1, <3>1, SameEmail
  <2>3. lastEmail <= lastEmail' /\ e \in 1 .. lastEmail'
    BY <1>1, <1>2
  <2>4. \A m, id \in Nat, c \in Changes :
          <<m, "Email", id, c>> \in log' /\ <<m, "Email", id, c>> \notin log => m = n /\ id = e /\ c = "updated"
    BY <1>6, <1>n
  <2>5. log \subseteq log'
    BY <1>6
  <2>6. Live = emails /\ LastId = lastEmail /\ Live' = emails /\ LastId' = lastEmail'
    BY <1>1, <1>8, EmailKind
  <2>7. \A f \in emails : Content(f)' = Content(f) \/ Word(f, n)
    BY <1>8, <2>1, <2>2, EmailKind
  <2> QED BY <1>8, <2>3, <2>4, <2>5, <2>6, <2>7 DEF Tells
<1>9. CASE Kind = "Thread"
  <2>1. \A q : Content(q)' = Content(q)
    BY <1>1, <1>9 DEF Content
  <2>2. lastThread <= lastThread'
    BY <1>1, <1>2
  <2> QED BY <1>1, <1>6, <1>9, <1>n, <2>1, <2>2, ThreadKind DEF Tells
<1>10. CASE Kind = "Mailbox"
  <2>1. ASSUME NEW b \in boxes, b # box
        PROVE  {<<f, f \in seen'>> : f \in EmailsIn(b)'} = {<<f, f \in seen>> : f \in EmailsIn(b)}
    <3>1. \A f \in emails : uid'[b][f] = uid[b][f]
      BY <1>2, <1>7, <2>1
    <3> QED BY <1>1, <3>1, SameMailbox
  <2>2. lastBox <= lastBox'
    BY <1>1, <1>2
  <2> QED BY <1>1, <1>6, <1>10, <1>n, <2>1, <2>2, MailboxKind DEF Tells
<1> QED BY <1>8, <1>9, <1>10, KindAssumption DEF Kinds

\* A destroyed email: the log says so, and speaks of its thread and its mailboxes.
LEMMA DestroysTells ==
  ASSUME TypeOK, Shape, Uids, Tops, OneWord, EmailTurns, NEW n \in Nat, n = BatchModseq,
         NEW e \in emails, Destroys(e)
  PROVE  Tells(n)
<1> USE CountsAssumption
<1>0. /\ threadOf[e] \in Nat /\ threadOf[e] \in threads
      /\ (IF ~\E f \in emails \ {e} : threadOf[f] = threadOf[e] THEN "destroyed" ELSE "updated")
           \in {"destroyed", "updated"}
  <2>1. threadOf[e] \in ThreadIds /\ threadOf[e] \in threads
    BY DEF TypeOK, Shape
  <2> QED BY <2>1 DEF ThreadIds
<1>b. PICK t \in Nat : t = threadOf[e]
  BY <1>0
<1>c. PICK said \in {"destroyed", "updated"} :
        said = IF ~\E f \in emails \ {e} : threadOf[f] = t THEN "destroyed" ELSE "updated"
  BY <1>0, <1>b
<1> DEFINE touched == BoxesOf(e)
           rows == {<<n, "Email", e, "destroyed">>, <<n, "Thread", t, said>>} \union
                     {<<n, "Mailbox", b, "updated">> : b \in touched}
<1>1. /\ Homed(e, {}, n) /\ emails' = emails \ {e} /\ seen' = seen \ {e}
      /\ UNCHANGED <<threadOf, boxes, lastEmail, lastThread, lastBox, op, box>>
  BY DestroysFrame DEF idVars
<1>2. /\ log' = Recorded(rows)
      /\ threads' = IF said = "destroyed" THEN threads \ {t} ELSE threads
      /\ op \in {"destroy", "takeout", "emptying"} /\ (op # "destroy" => e \in todo)
  BY <1>b, <1>c DEF Destroys, DestroyOne, DestroyedRows
<1>3. /\ lastEmail \in Nat /\ lastThread \in Nat /\ lastBox \in Nat /\ boxes \subseteq BoxIds
      /\ emails \subseteq EmailIds /\ BoxIds \subseteq Nat /\ EmailIds \subseteq Nat /\ e \in EmailIds
      /\ emails \subseteq 1 .. lastEmail /\ boxes \subseteq 1 .. lastBox /\ threads \subseteq 1 .. lastThread
      /\ t \in threads /\ touched \subseteq boxes
  <2>1. EmailIds \subseteq Nat /\ BoxIds \subseteq Nat
    BY DEF EmailIds, BoxIds
  <2>2. touched \subseteq boxes
    BY DEF BoxesOf
  <2> QED BY <1>0, <1>b, <2>1, <2>2, NumberTypes DEF Shape
<1>4. /\ rows \in SUBSET LogRows
      /\ \A m, id \in Nat, kind \in Kinds, c \in Changes : <<m, kind, id, c>> \in rows <=>
           /\ m = n
           /\ \/ kind = "Email" /\ id = e /\ c = "destroyed"
              \/ kind = "Thread" /\ id = t /\ c = said
              \/ kind = "Mailbox" /\ id \in touched /\ c = "updated"
  <2> HIDE DEF touched
  <2> QED BY <1>3 DEF LogRows, Kinds, Changes
<1> HIDE DEF rows
<1>n. /\ "Email" \in Kinds /\ "Thread" \in Kinds /\ "Mailbox" \in Kinds
      /\ "created" \in Changes /\ "updated" \in Changes /\ "destroyed" \in Changes
  BY DEF Kinds, Changes
<1>5. Records(rows, n)
  <2>1. \A m, id \in Nat, kind \in Kinds, c \in Changes : <<m, kind, id, c>> \in rows => m = n
    BY <1>4
  <2> QED BY <1>2, <1>4, <2>1, RecordedTells
<1>6. /\ log \subseteq log'
      /\ \A m, id \in Nat, kind \in Kinds, c \in Changes : <<m, kind, id, c>> \in log' =>
           <<m, kind, id, c>> \in log \/ (m = n /\ <<m, kind, id, c>> \in rows)
      /\ \A id \in Nat, kind \in Kinds, c \in Changes : <<n, kind, id, c>> \in rows =>
           /\ \E d \in Changes : <<n, kind, id, d>> \in log'
           /\ (\A d \in Changes : <<n, kind, id, d>> \notin log) => <<n, kind, id, c>> \in log'
  BY <1>5 DEF Records
<1>7. \A f \in emails : f # e => (f \in seen' <=> f \in seen) /\ \A b \in BoxIds : uid'[b][f] = uid[b][f]
  BY <1>1, <1>3 DEF Homed
<1>l. log \subseteq log'
  BY <1>6
<1>8. CASE Kind = "Email"
  <2>1. <<n, "Email", e, "destroyed">> \in log'
    <3>1. \A kind \in Kinds, id \in Nat, c \in Changes : <<n, kind, id, c>> \in log => n = batch
      BY BatchRows
    <3>2. \A c \in Changes : <<n, "Email", e, c>> \notin log
      BY <1>2, <1>3, <1>n, <3>1 DEF EmailTurns
    <3>3. <<n, "Email", e, "destroyed">> \in rows
      BY <1>3, <1>4, <1>n
    <3> QED BY <1>3, <1>6, <1>n, <3>2, <3>3
  <2>2. ASSUME NEW f \in emails, f # e PROVE <<BoxesOf(f)', f \in seen'>> = <<BoxesOf(f), f \in seen>>
    <3>1. \A b \in boxes : uid'[b][f] = uid[b][f]
      BY <1>3, <1>7, <2>2
    <3> QED BY <1>1, <1>7, <2>2, <3>1, SameEmail
  <2>3. \A m, id \in Nat, c \in Changes :
          <<m, "Email", id, c>> \in log' /\ <<m, "Email", id, c>> \notin log => m = n /\ id = e /\ c = "destroyed"
    BY <1>4, <1>6, <1>n
  <2>4. lastEmail <= lastEmail' /\ e \in 1 .. lastEmail'
    BY <1>1, <1>3
  <2>5. Word(e, n)
    BY <1>8, <1>n, <2>1 DEF Word
  <2>6. Live = emails /\ LastId = lastEmail /\ Live' = emails \ {e} /\ LastId' = lastEmail'
    BY <1>1, <1>8, EmailKind
  <2>7. \A f \in emails \ {e} : Content(f)' = Content(f)
    BY <1>8, <2>2, EmailKind
  <2> QED BY <1>8, <1>l, <2>1, <2>3, <2>4, <2>5, <2>6, <2>7 DEF Tells
<1>9. CASE Kind = "Thread"
  <2>1. Word(t, n)
    <3>1. <<n, "Thread", t, said>> \in rows /\ said \in Changes
      BY <1>4, <1>n
    <3> QED BY <1>6, <1>9, <1>n, <3>1 DEF Word
  <2>2. ASSUME NEW q, q # t PROVE Content(q)' = Content(q)
    <3>1. {f \in emails' : threadOf'[f] = q} = {f \in emails : threadOf[f] = q}
      BY <1>1, <1>b, <2>2
    <3> QED BY <1>9, <3>1 DEF Content
  <2>3. \A m, id \in Nat, c \in Changes :
          <<m, "Thread", id, c>> \in log' /\ <<m, "Thread", id, c>> \notin log => m = n /\ id = t /\ c = said
    BY <1>4, <1>6, <1>n
  <2>4. lastThread <= lastThread' /\ t \in 1 .. lastThread'
    BY <1>1, <1>3
  <2>5. /\ said = "destroyed" => t \notin threads'
        /\ threads' \subseteq threads /\ threads \ threads' \subseteq {t} /\ said # "created"
    BY <1>2
  <2>6. Live = threads /\ LastId = lastThread /\ Live' = threads' /\ LastId' = lastThread'
    BY <1>9, ThreadKind
  <2> QED BY <1>9, <1>l, <2>1, <2>2, <2>3, <2>4, <2>5, <2>6 DEF Tells
<1>10. CASE Kind = "Mailbox"
  <2>1. ASSUME NEW b \in touched PROVE Word(b, n)
    <3>1. <<n, "Mailbox", b, "updated">> \in rows /\ b \in Nat
      BY <1>3, <1>4, <1>n
    <3> QED BY <1>6, <1>10, <1>n, <3>1 DEF Word
  <2>2. ASSUME NEW b \in boxes, b \notin touched
        PROVE  {<<f, f \in seen'>> : f \in EmailsIn(b)'} = {<<f, f \in seen>> : f \in EmailsIn(b)}
    <3>1. b \in BoxIds /\ uid[b][e] = 0
      BY <1>3, <2>2 DEF BoxesOf
    <3>2. \A f : f \in emails /\ uid[b][f] # 0 <=> f \in emails' /\ uid'[b][f] # 0
      BY <1>1, <1>7, <3>1
    <3>3. \A f \in emails : uid[b][f] # 0 => (f \in seen' <=> f \in seen)
      BY <1>7, <3>1
    <3> QED BY <3>2, <3>3, SameMailbox
  <2>3. \A m, id \in Nat, c \in Changes :
          <<m, "Mailbox", id, c>> \in log' /\ <<m, "Mailbox", id, c>> \notin log =>
            m = n /\ id \in touched /\ c = "updated"
    BY <1>4, <1>6, <1>n
  <2> HIDE DEF touched
  <2>4. lastBox <= lastBox' /\ touched \subseteq 1 .. lastBox'
    BY <1>1, <1>3
  <2> QED BY <1>1, <1>l, <1>10, <2>1, <2>2, <2>3, <2>4, MailboxKind DEF Tells
<1> QED BY <1>8, <1>9, <1>10, KindAssumption DEF Kinds

\* The rows a change of one mailbox adds to the log.
LEMMA MailboxRecorded ==
  ASSUME TypeOK, NEW n \in Nat, NEW b \in Nat, NEW said \in Changes, log' = Recorded({<<n, "Mailbox", b, said>>})
  PROVE  /\ log \subseteq log'
         /\ \A m, id \in Nat, c \in Changes : <<m, "Email", id, c>> \in log' => <<m, "Email", id, c>> \in log
         /\ \A m, id \in Nat, c \in Changes : <<m, "Thread", id, c>> \in log' => <<m, "Thread", id, c>> \in log
         /\ \A m, id \in Nat, c \in Changes :
              <<m, "Mailbox", id, c>> \in log' /\ <<m, "Mailbox", id, c>> \notin log =>
                m = n /\ id = b /\ c = said
         /\ \E d \in Changes : <<n, "Mailbox", b, d>> \in log'
         /\ (\A d \in Changes : <<n, "Mailbox", b, d>> \notin log) => <<n, "Mailbox", b, said>> \in log'
<1> DEFINE rows == {<<n, "Mailbox", b, said>>}
<1>n. "Email" \in Kinds /\ "Thread" \in Kinds /\ "Mailbox" \in Kinds
  BY DEF Kinds
<1>1. /\ rows \in SUBSET LogRows
      /\ \A m, id \in Nat, kind \in Kinds, c \in Changes : <<m, kind, id, c>> \in rows <=>
           m = n /\ kind = "Mailbox" /\ id = b /\ c = said
  BY <1>n DEF LogRows
<1>2. log' = Recorded(rows)
  OBVIOUS
<1> HIDE DEF rows
<1>3. Records(rows, n)
  <2>1. \A m, id \in Nat, kind \in Kinds, c \in Changes : <<m, kind, id, c>> \in rows => m = n
    BY <1>1
  <2> QED BY <1>1, <1>2, <2>1, RecordedTells
<1>4. log \subseteq log'
  BY <1>3 DEF Records
<1>5. ASSUME NEW m \in Nat, NEW id \in Nat, NEW kind \in Kinds, NEW c \in Changes,
             <<m, kind, id, c>> \in log', <<m, kind, id, c>> \notin log
      PROVE  m = n /\ kind = "Mailbox" /\ id = b /\ c = said
  <2>1. <<m, kind, id, c>> \in rows
    BY <1>3, <1>5 DEF Records
  <2> QED BY <1>1, <2>1
<1>6. ASSUME NEW kind \in Kinds, kind # "Mailbox", NEW m \in Nat, NEW id \in Nat, NEW c \in Changes
      PROVE  <<m, kind, id, c>> \in log' => <<m, kind, id, c>> \in log
  BY <1>5, <1>6
<1>7. /\ \E d \in Changes : <<n, "Mailbox", b, d>> \in log'
      /\ (\A d \in Changes : <<n, "Mailbox", b, d>> \notin log) => <<n, "Mailbox", b, said>> \in log'
  <2>1. <<n, "Mailbox", b, said>> \in rows
    BY <1>1, <1>n
  <2> QED BY <1>3, <1>n, <2>1 DEF Records
<1>8. \A m, id \in Nat, c \in Changes : <<m, "Email", id, c>> \in log' => <<m, "Email", id, c>> \in log
  BY <1>6, <1>n
<1>9. \A m, id \in Nat, c \in Changes : <<m, "Thread", id, c>> \in log' => <<m, "Thread", id, c>> \in log
  BY <1>6, <1>n
<1>10. \A m, id \in Nat, c \in Changes :
         <<m, "Mailbox", id, c>> \in log' /\ <<m, "Mailbox", id, c>> \notin log => m = n /\ id = b /\ c = said
  BY <1>5, <1>n
<1> QED BY <1>4, <1>7, <1>8, <1>9, <1>10

\* A change of one mailbox, which leaves the emails where they are.
LEMMA MailboxTells ==
  ASSUME TypeOK, NEW n \in Nat, NEW b \in Nat, NEW said \in Changes,
         log' = Recorded({<<n, "Mailbox", b, said>>}), op = "emptying" => box \notin boxes',
         UNCHANGED <<emails, threads, threadOf, seen, uid, lastEmail, lastThread>>, lastBox <= lastBox',
         \A q \in (boxes \ boxes') \union (boxes' \ boxes), e \in emails : uid[q][e] = 0,
         boxes' \ boxes \subseteq {b}, boxes \ boxes' \subseteq {b}, b \in 1 .. lastBox',
         said = "destroyed" => b \notin boxes',
         said = "created" \/ b \in boxes' \ boxes =>
           /\ said = "created" /\ b > lastBox /\ \A c \in Changes : <<n, "Mailbox", b, c>> \notin log
  PROVE  Tells(n)
<1>1. lastEmail <= lastEmail' /\ lastThread <= lastThread'
  BY NumberTypes
<1>2. log \subseteq log'
  BY MailboxRecorded
<1>3. CASE Kind = "Email"
  <2>1. \A m, id \in Nat, c \in Changes : <<m, "Email", id, c>> \in log' => <<m, "Email", id, c>> \in log
    BY MailboxRecorded
  <2>2. ASSUME NEW f \in emails PROVE <<BoxesOf(f)', f \in seen'>> = <<BoxesOf(f), f \in seen>>
    <3>1. BoxesOf(f)' = BoxesOf(f)
      BY DEF BoxesOf
    <3> QED BY <3>1
  <2>3. Live = emails /\ LastId = lastEmail /\ Live' = emails' /\ LastId' = lastEmail'
    BY <1>3, EmailKind
  <2>4. \A f \in emails : Content(f)' = Content(f)
    BY <1>3, <2>2, EmailKind
  <2> QED BY <1>1, <1>2, <1>3, <2>1, <2>3, <2>4 DEF Tells
<1>4. CASE Kind = "Thread"
  <2>1. \A q : Content(q)' = Content(q)
    BY <1>4 DEF Content
  <2>2. \A m, id \in Nat, c \in Changes : <<m, "Thread", id, c>> \in log' => <<m, "Thread", id, c>> \in log
    BY MailboxRecorded
  <2> QED BY <1>1, <1>2, <1>4, <2>1, <2>2, ThreadKind DEF Tells
<1>5. CASE Kind = "Mailbox"
  <2>1. Word(b, n)
    <3>1. \E d \in Changes : <<n, "Mailbox", b, d>> \in log'
      BY MailboxRecorded
    <3> QED BY <1>5, <3>1 DEF Word
  <2>2. \A q : Content(q)' = Content(q)
    BY <1>5 DEF Content, EmailsIn
  <2>3. \A m, id \in Nat, c \in Changes :
          <<m, "Mailbox", id, c>> \in log' /\ <<m, "Mailbox", id, c>> \notin log => m = n /\ id = b /\ c = said
    BY MailboxRecorded
  <2>4. b \in boxes' \ boxes => b > lastBox /\ <<n, "Mailbox", b, "created">> \in log'
    <3>1. (\A d \in Changes : <<n, "Mailbox", b, d>> \notin log) => <<n, "Mailbox", b, said>> \in log'
      BY MailboxRecorded
    <3> QED BY <3>1
  <2>5. Live = boxes /\ LastId = lastBox /\ Live' = boxes' /\ LastId' = lastBox'
    BY <1>5, MailboxKind
  <2>6. \A m, id \in Nat, c \in Changes :
          <<m, Kind, id, c>> \in log' /\ <<m, Kind, id, c>> \notin log =>
            /\ m = n /\ id \in 1 .. LastId'
            /\ c = "destroyed" => id \notin Live'
            /\ c = "created" => id > LastId
    BY <1>5, <2>3, <2>5
  <2>7. \A id \in Live' \ Live : id > LastId /\ <<n, Kind, id, "created">> \in log'
    BY <1>5, <2>4, <2>5
  <2> QED BY <1>2, <1>5, <2>1, <2>2, <2>5, <2>6, <2>7 DEF Tells
<1> QED BY <1>3, <1>4, <1>5, KindAssumption DEF Kinds

\* Every step of the store tells of what it changes, at the modseq of its batch.
LEMMA StoreTells ==
  ASSUME StoreInv, StoreInv', [Next]_storeVars
  PROVE  \E n \in Nat :
           n = BatchModseq /\ modseq' \in {modseq, modseq + 1} /\ batch' \in {0, n} /\ Tells(n)
<1> USE DEF emailVars, boxVars, idVars, txVars
<1>0. /\ TypeOK /\ Shape /\ Uids /\ Emptying /\ Tops /\ OneWord /\ EmailTurns /\ TypeOK' /\ Shape'
  BY DEF StoreInv
<1>1. /\ modseq \in Nat /\ batch \in Nat /\ lastBox \in Nat /\ boxes \subseteq Nat
      /\ boxes \subseteq BoxIds /\ emails \subseteq EmailIds /\ boxes \subseteq 1 .. lastBox
  <2>1. batch \in Nat
    BY <1>0, TypeParts, CountsAssumption DEF TxTypes
  <2>2. BoxIds \subseteq Nat
    BY DEF BoxIds
  <2> QED BY <1>0, <2>1, <2>2, NumberTypes DEF Shape
<1>2. BatchModseq \in Nat
  BY <1>1 DEF BatchModseq
<1>3. PICK n \in Nat : n = BatchModseq
  BY <1>2
<1>4. /\ batch = 0 => n = modseq + 1
      /\ batch # 0 => n = batch
      /\ op = "none" => batch = 0
      /\ op = "emptying" => batch = modseq /\ n = modseq /\ box \in boxes
  <2>1. batch = 0 => n = modseq + 1
    BY <1>3 DEF BatchModseq
  <2>2. batch # 0 => n = batch
    BY <1>3 DEF BatchModseq
  <2>3. op = "none" => batch = 0
    BY <1>0 DEF Shape
  <2>4. op = "emptying" => batch = modseq /\ box \in boxes
    BY <1>0 DEF Shape
  <2>5. modseq # 0
    BY <1>0, TypeParts DEF EmailTypes
  <2> QED BY <2>1, <2>2, <2>3, <2>4, <2>5
<1> DEFINE Goal == modseq' \in {modseq, modseq + 1} /\ batch' \in {0, n} /\ Tells(n)
<1>5. ASSUME Ingests PROVE Goal
  <2>1. PICK bs \in SUBSET boxes, t \in ThreadIds, isSeen \in BOOLEAN : Ingest(bs, t, isSeen)
    BY <1>5 DEF Ingests
  <2>2. modseq' = modseq + 1 /\ batch' = batch /\ op = "none"
    BY <2>1 DEF Ingest
  <2>3. n = modseq + 1
    BY <1>4, <2>2
  <2>4. Tells(n)
    BY <1>0, <2>1, <2>3, IngestTells
  <2> QED BY <1>4, <2>2, <2>4
<1>6. ASSUME NEW e \in emails, NEW bs \in SUBSET boxes, Updates(e, bs) PROVE Goal
  <2>1. modseq' = n /\ n \in {modseq, modseq + 1} /\ batch' = n
    BY <1>0, <1>3, <1>6, UpdatesFrame
  <2>2. Tells(n)
    BY <1>0, <1>3, <1>6, UpdatesTells
  <2> QED BY <2>1, <2>2
<1>7. ASSUME NEW e \in emails, Destroys(e) PROVE Goal
  <2>1. modseq' = n /\ n \in {modseq, modseq + 1} /\ batch' = n
    BY <1>0, <1>3, <1>7, DestroysFrame
  <2>2. Tells(n)
    BY <1>0, <1>3, <1>7, DestroysTells
  <2> QED BY <2>1, <2>2
<1>8. ASSUME NEW e \in emails, Leaves(e) PROVE Goal
  <2>1. op = "emptying" /\ modseq' = modseq /\ batch' = batch
    BY <1>8 DEF Leaves
  <2>2. n = batch
    BY <1>4, <2>1
  <2>3. Tells(n)
    BY <1>0, <1>8, <2>2, LeavesTells
  <2> QED BY <2>1, <2>2, <2>3
<1>9. ASSUME CreateMailbox PROVE Goal
  <2>1. /\ op = "none" /\ op' = "none" /\ modseq' = modseq + 1 /\ batch' = batch
        /\ lastBox' = lastBox + 1 /\ boxes' = boxes \union {lastBox + 1} /\ lastBox + 1 <= MaxBoxes
        /\ log' = Recorded({<<modseq + 1, "Mailbox", lastBox + 1, "created">>})
        /\ UNCHANGED <<emails, threads, threadOf, seen, uid, lastEmail, lastThread>>
    BY <1>9 DEF CreateMailbox
  <2>2. PICK b \in Nat : b = lastBox + 1
    BY <1>1
  <2>3. /\ n = modseq + 1 /\ b \notin boxes /\ boxes' = boxes \union {b} /\ b > lastBox /\ b \in 1 .. lastBox'
        /\ lastBox <= lastBox' /\ log' = Recorded({<<n, "Mailbox", b, "created">>}) /\ b \in BoxIds
    BY <1>1, <1>4, <2>1, <2>2, CountsAssumption DEF BoxIds
  <2>4. \A c \in Changes : <<n, "Mailbox", b, c>> \notin log
    BY <1>0, <1>1, <2>3 DEF OneWord, Kinds
  <2>5. \A e \in emails : uid[b][e] = 0
    BY <1>0, <1>1, <2>3 DEF Uids
  <2>6. boxes \ boxes' = {} /\ boxes' \ boxes = {b} /\ "created" \in Changes
    BY <2>3 DEF Changes
  <2>7. Tells(n)
    BY <1>0, <2>1, <2>3, <2>4, <2>5, <2>6, MailboxTells
  <2> QED BY <1>4, <2>1, <2>7
<1>10. ASSUME NEW b \in boxes, UpdateMailbox(b) PROVE Goal
  <2>1. /\ op = "none" /\ op' = "none" /\ modseq' = modseq + 1 /\ batch' = batch
        /\ log' = Recorded({<<modseq + 1, "Mailbox", b, "updated">>})
        /\ UNCHANGED <<emails, threads, threadOf, seen, uid, boxes, lastEmail, lastThread, lastBox>>
    BY <1>10 DEF UpdateMailbox
  <2>2. /\ n = modseq + 1 /\ log' = Recorded({<<n, "Mailbox", b, "updated">>}) /\ lastBox <= lastBox'
        /\ b \in 1 .. lastBox' /\ b \in Nat
    BY <1>1, <1>4, <2>1
  <2>3. boxes \ boxes' = {} /\ boxes' \ boxes = {} /\ "updated" \in Changes
    BY <2>1 DEF Changes
  <2>4. Tells(n)
    BY <1>0, <2>1, <2>2, <2>3, MailboxTells
  <2> QED BY <1>4, <2>1, <2>4
<1>11. ASSUME DropMailbox PROVE Goal
  <2>1. /\ op = "emptying" /\ op' = "none" /\ todo = {} /\ boxes' = boxes \ {box} /\ batch' = 0
        /\ log' = Recorded({<<batch, "Mailbox", box, "destroyed">>}) /\ modseq' = modseq
        /\ UNCHANGED <<emails, threads, threadOf, seen, uid, lastEmail, lastThread, lastBox>>
    BY <1>11 DEF DropMailbox, DroppedRows, Closes
  <2>2. PICK b \in Nat : b = box
    BY <1>1, <1>4, <2>1
  <2>3. /\ b \in boxes /\ boxes' = boxes \ {b} /\ b \in 1 .. lastBox' /\ lastBox <= lastBox'
        /\ log' = Recorded({<<n, "Mailbox", b, "destroyed">>})
    BY <1>1, <1>4, <2>1, <2>2
  <2>4. \A e \in emails : uid[b][e] = 0
    BY <1>0, <1>1, <2>1, <2>2 DEF Emptying
  <2>5. boxes \ boxes' = {b} /\ boxes' \ boxes = {} /\ "destroyed" \in Changes /\ box \notin boxes'
    BY <2>2, <2>3 DEF Changes
  <2>6. Tells(n)
    BY <1>0, <2>1, <2>3, <2>4, <2>5, MailboxTells
  <2> QED BY <2>1, <2>6
<1>12. ASSUME Begins \/ Commit \/ (\E b \in boxes : BeginDestroyMailbox(b)) \/ UNCHANGED storeVars
       PROVE  Goal
  <2>1. /\ UNCHANGED <<log, emails, threads, boxes, threadOf, seen, uid, lastEmail, lastThread, lastBox>>
        /\ op = "emptying" => op' = "emptying" /\ box' = box
    BY <1>12 DEF Begins, Opens, Commit, BeginDestroyMailbox, storeVars
  <2>2. \/ modseq' = modseq /\ batch' \in {0, batch}
        \/ modseq' = modseq + 1 /\ batch' = modseq + 1 /\ op = "none"
    BY <1>12 DEF Begins, Opens, Commit, Closes, BeginDestroyMailbox, storeVars
  <2>3. modseq' \in {modseq, modseq + 1} /\ batch' \in {0, n}
    BY <1>4, <2>2
  <2>4. Tells(n)
    BY <1>0, <2>1, QuietTells
  <2> QED BY <2>3, <2>4
<1> HIDE DEF Goal
<1>13. Goal
  BY <1>0, <1>5, <1>6, <1>7, <1>8, <1>9, <1>10, <1>11, <1>12, NextCases
<1> QED BY <1>3, <1>13 DEF Goal

\* The client's invariant survives every step of the store that tells of what it changes:
\* its news has a modseq the client does not know yet.
LEMMA TellsKeeps ==
  ASSUME StoreInv, StoreInv', JmapInv, UNCHANGED jmapVars, NEW n \in Nat, n = BatchModseq,
         modseq' \in {modseq, modseq + 1}, batch' \in {0, n}, Tells(n)
  PROVE  JmapInv'
<1>0. /\ TypeOK /\ TypeOK' /\ Shape /\ OneWord /\ JTypeOK /\ Fates /\ JmapBehind
      /\ Complete /\ Mortal /\ Current /\ Answered
  BY DEF StoreInv, JmapInv
<1>1. UNCHANGED <<jpc, copy, jstate, current, page, early>>
  BY DEF jmapVars
<1>2. /\ modseq \in Nat /\ jstate \in Nat /\ current \in Nat /\ page.state \in Nat /\ batch \in Nat
      /\ IdsOfKind \subseteq Nat /\ Ids(copy) \subseteq Nat
      /\ "created" \in Changes /\ "updated" \in Changes /\ "destroyed" \in Changes
  BY <1>0, JmapTypes
<1>3. PICK s \in Nat, p \in Nat, k \in Nat : s = jstate /\ p = page.state /\ k = current
  BY <1>2
<1>4. /\ s < n /\ p < n /\ k < n /\ modseq <= n /\ modseq <= modseq'
      /\ s <= modseq /\ p <= modseq /\ k <= modseq
  <2>1. batch = 0 => n = modseq + 1
    BY DEF BatchModseq
  <2>2. batch # 0 => n = batch /\ batch = modseq
    BY <1>0 DEF BatchModseq, Shape
  <2>3. s <= modseq /\ p <= modseq /\ k <= modseq /\ (batch # 0 => s < batch /\ p < batch /\ k < batch)
    BY <1>0, <1>3 DEF JmapBehind
  <2> QED BY <1>2, <2>1, <2>2, <2>3
<1>5. /\ log \subseteq log' /\ LastId <= LastId'
      /\ \A m, id \in Nat, c \in Changes :
           <<m, Kind, id, c>> \in log' /\ <<m, Kind, id, c>> \notin log =>
             /\ m = n /\ id \in 1 .. LastId'
             /\ c = "destroyed" => id \notin Live'
             /\ c = "created" => id > LastId
  BY DEF Tells
<1>l. LastId \in Nat /\ LastId' \in Nat
  <2>1. lastEmail \in Nat /\ lastThread \in Nat /\ lastBox \in Nat
    BY <1>0, NumberTypes
  <2>2. lastEmail' \in Nat /\ lastThread' \in Nat /\ lastBox' \in Nat
    BY <1>0, CountsAssumption DEF TypeOK
  <2> QED BY <2>1, <2>2, KindAssumption DEF LastId, Kinds
<1>6. /\ \A id \in Live' \ Live : id > LastId /\ <<n, Kind, id, "created">> \in log'
      /\ \A id \in Live \ Live' : Word(id, n) /\ (Kind = "Email" => <<n, Kind, id, "destroyed">> \in log')
      /\ \A id \in Live \intersect Live' :
           Content(id)' = Content(id) \/ Word(id, n) \/ (Kind = "Mailbox" /\ op' = "emptying" /\ id = box')
      /\ Kind = "Mailbox" /\ op = "emptying" => (op' = "emptying" /\ box' = box) \/ box \notin Live'
  BY DEF Tells
<1>7. /\ \A id, c : Since(id, s, c) => Since(id, s, c)'
      /\ \A id : Changed(id, s) => Changed(id, s)'
      /\ \A id : CreatedBy(id, s) => CreatedBy(id, s)'
  BY <1>5 DEF Since, Changed, CreatedBy
<1>8. /\ \A id, c : <<n, Kind, id, c>> \in log' => Since(id, s, c)'
      /\ \A id : Word(id, n) => Changed(id, s)'
  BY <1>4 DEF Since, Changed, Word
<1>9. /\ \A id, c : Since(id, jstate, c)' <=> Since(id, s, c)'
      /\ \A id : Changed(id, jstate)' <=> Changed(id, s)'
      /\ \A id : CreatedBy(id, jstate)' <=> CreatedBy(id, s)'
  BY <1>1, <1>3 DEF Since, Changed, CreatedBy
<1>10. Ids(copy)' = Ids(copy)
  BY <1>1 DEF Ids
<1>11. JTypeOK'
  <2>1. jstate \in 0 .. modseq' /\ current \in 0 .. modseq' /\ page.state \in 0 .. modseq'
    BY <1>2, <1>3, <1>4
  <2>2. jpc \in {"idle", "asked", "answered"} /\ Ids(copy) \subseteq IdsOfKind /\ early \subseteq Ids(copy)
    BY <1>0 DEF JTypeOK
  <2>3. IdsOfKind' = IdsOfKind
    BY DEF IdsOfKind
  <2> QED BY <1>1, <1>10, <2>1, <2>2, <2>3 DEF JTypeOK
<1>12. Fates'
  <2>1. ASSUME NEW m \in Nat, NEW id \in Nat, NEW c \in Changes, <<m, Kind, id, c>> \in log'
        PROVE  id \in 1 .. LastId'
    <3>1. <<m, Kind, id, c>> \in log => id \in 1 .. LastId
      BY <1>0 DEF Fates
    <3>2. id \in 1 .. LastId => id \in 1 .. LastId'
      BY <1>5, <1>l
    <3> QED BY <1>5, <2>1, <3>1, <3>2
  <2>2. ASSUME NEW m \in Nat, NEW id \in Nat, <<m, Kind, id, "destroyed">> \in log'
        PROVE  id \notin Live'
    <3>1. CASE <<m, Kind, id, "destroyed">> \in log
      <4>1. id \in 1 .. LastId /\ id \notin Live
        BY <1>0, <1>2, <3>1 DEF Fates
      <4>2. ~(id > LastId)
        BY <1>l, <4>1
      <4> QED BY <1>6, <4>1, <4>2
    <3>2. CASE <<m, Kind, id, "destroyed">> \notin log
      BY <1>2, <1>5, <2>2, <3>2
    <3> QED BY <3>1, <3>2
  <2>3. ASSUME NEW m \in Nat, NEW q \in Nat, NEW id \in Nat, NEW c \in Changes,
               <<m, Kind, id, "created">> \in log', <<q, Kind, id, c>> \in log'
        PROVE  m <= q
    <3>1. CASE <<m, Kind, id, "created">> \in log /\ <<q, Kind, id, c>> \in log
      BY <1>0, <3>1 DEF Fates
    <3>2. CASE <<m, Kind, id, "created">> \in log /\ <<q, Kind, id, c>> \notin log
      <4>1. m \in 1 .. modseq
        BY <1>0, <1>2, <3>2, KindAssumption DEF OneWord
      <4>2. q = n
        BY <1>5, <2>3, <3>2
      <4> QED BY <1>2, <1>4, <4>1, <4>2
    <3>3. CASE <<m, Kind, id, "created">> \notin log
      <4>1. m = n /\ id > LastId
        BY <1>2, <1>5, <2>3, <3>3
      <4>2. <<q, Kind, id, c>> \notin log
        <5>1. <<q, Kind, id, c>> \in log => id \in 1 .. LastId
          BY <1>0 DEF Fates
        <5> QED BY <1>l, <4>1, <5>1
      <4>3. q = n
        BY <1>5, <2>3, <4>2
      <4> QED BY <4>1, <4>3
    <3> QED BY <3>1, <3>2, <3>3
  <2> QED BY <2>1, <2>2, <2>3 DEF Fates
<1>13. JmapBehind'
  <2>1. s <= modseq' /\ k <= modseq' /\ p <= modseq'
    BY <1>2, <1>4
  <2>2. batch' # 0 => s < batch' /\ k < batch' /\ p < batch'
    BY <1>4
  <2>3. jpc = "asked" => s <= k
    BY <1>0, <1>3 DEF JmapBehind
  <2> QED BY <1>1, <1>3, <2>1, <2>2, <2>3 DEF JmapBehind
<1>14. Complete'
  <2> SUFFICES ASSUME NEW id \in Live', id \notin Ids(copy) PROVE Changed(id, s)'
    BY <1>9, <1>10 DEF Complete
  <2>1. CASE id \in Live
    BY <1>0, <1>3, <1>7, <2>1 DEF Complete
  <2>2. CASE id \notin Live
    <3>1. <<n, Kind, id, "created">> \in log'
      BY <1>6, <2>2
    <3> QED BY <1>2, <1>8, <3>1 DEF Word
  <2> QED BY <2>1, <2>2
<1>15. Mortal'
  <2> SUFFICES ASSUME NEW id \in Ids(copy), id \notin early
               PROVE  /\ CreatedBy(id, s)'
                      /\ \/ id \in Live'
                         \/ Since(id, s, "destroyed")'
                         \/ Kind # "Email" /\ Changed(id, s)'
    BY <1>1, <1>9, <1>10 DEF Mortal
  <2>1. CreatedBy(id, s) /\ (id \in Live \/ Since(id, s, "destroyed") \/ (Kind # "Email" /\ Changed(id, s)))
    BY <1>0, <1>3 DEF Mortal
  <2>2. id \in Live \ Live' => Since(id, s, "destroyed")' \/ (Kind # "Email" /\ Changed(id, s)')
    BY <1>6, <1>8
  <2> QED BY <1>7, <2>1, <2>2
<1>16. Current'
  <2> SUFFICES ASSUME NEW o \in copy, o.id \in Live', o.content # Content(o.id)'
               PROVE  Changed(o.id, s)' \/ (Kind = "Mailbox" /\ op' = "emptying" /\ o.id = box')
    BY <1>1, <1>9 DEF Current
  <2>1. CASE o.id \notin Live
    <3>1. <<n, Kind, o.id, "created">> \in log'
      BY <1>6, <2>1
    <3> QED BY <1>2, <1>8, <3>1 DEF Word
  <2>2. CASE o.id \in Live /\ Content(o.id)' = Content(o.id)
    <3>1. Changed(o.id, s) \/ (Kind = "Mailbox" /\ op = "emptying" /\ o.id = box)
      BY <1>0, <1>3, <2>2 DEF Current
    <3> QED BY <1>6, <1>7, <3>1
  <2>3. CASE o.id \in Live /\ Content(o.id)' # Content(o.id)
    BY <1>6, <1>8, <2>3
  <2> QED BY <2>1, <2>2, <2>3
<1>17. Answered'
  <2> SUFFICES ASSUME jpc = "answered" PROVE Answered'
    BY <1>1 DEF Answered
  <2>1. /\ s <= p
        /\ \A id \in IdsOfKind : Speaks(id, s, p) =>
             \/ id \in page.created \union page.updated
             \/ id \in page.destroyed
             \/ Since(id, s, "created") /\ Since(id, s, "destroyed")
        /\ \A id \in page.destroyed : Since(id, s, "destroyed")
    BY <1>0, <1>3 DEF Answered
  <2>2. ASSUME NEW id \in IdsOfKind, Speaks(id, s, p)' PROVE Speaks(id, s, p)
    <3>1. PICK c \in Changes, m \in Nat : s < m /\ m <= p /\ <<m, Kind, id, c>> \in log'
      BY <2>2 DEF Speaks, Said
    <3>2. m # n /\ id \in Nat
      BY <1>2, <1>4, <3>1
    <3>3. <<m, Kind, id, c>> \in log
      BY <1>5, <3>1, <3>2
    <3> QED BY <3>1, <3>3 DEF Speaks, Said
  <2>3. \A id : Speaks(id, jstate, page.state)' <=> Speaks(id, s, p)'
    BY <1>1, <1>3 DEF Speaks, Said
  <2>4. IdsOfKind' = IdsOfKind
    BY DEF IdsOfKind
  <2>5. /\ s <= p
        /\ \A id \in IdsOfKind : Speaks(id, s, p)' =>
             \/ id \in page.created \union page.updated
             \/ id \in page.destroyed
             \/ Since(id, s, "created")' /\ Since(id, s, "destroyed")'
        /\ \A id \in page.destroyed : Since(id, s, "destroyed")'
    BY <1>7, <2>1, <2>2
  <2> QED BY <1>1, <1>3, <1>9, <2>3, <2>4, <2>5 DEF Answered
<1> QED BY <1>11, <1>12, <1>13, <1>14, <1>15, <1>16, <1>17 DEF JmapInv

-----------------------------------------------------------------------------
(* The theorems about the JMAP client.                                     *)

\* A client that has nothing yet, and a new account.
LEMMA JmapStart == JInit => StoreInv /\ JmapInv
<1> SUFFICES ASSUME JInit PROVE StoreInv /\ JmapInv
  OBVIOUS
<1> USE CountsAssumption
<1>0. /\ Init /\ jpc = "idle" /\ copy = {} /\ jstate = 0 /\ current = 0 /\ page = NoPage /\ early = {}
  BY DEF JInit
<1>1. StoreInv
  BY <1>0, StoreInit
<1>2. /\ modseq = 1 /\ batch = 0 /\ emails = {} /\ threads = {} /\ boxes = 1 .. DefaultBoxes
      /\ lastBox = DefaultBoxes /\ log = {<<1, "Mailbox", b, "created">> : b \in 1 .. DefaultBoxes}
  BY <1>0 DEF Init
<1>3. Ids(copy) = {} /\ page.state = 0
  BY <1>0 DEF Ids, NoPage
<1>4. JTypeOK
  BY <1>0, <1>2, <1>3 DEF JTypeOK
<1>5. \A n, id \in Nat, c \in Changes : <<n, Kind, id, c>> \in log =>
        Kind = "Mailbox" /\ n = 1 /\ id \in 1 .. DefaultBoxes /\ c = "created"
  BY <1>2
<1>6. Kind = "Mailbox" => LastId = DefaultBoxes /\ Live = 1 .. DefaultBoxes
  BY <1>2 DEF LastId, Live
<1>7. Fates
  <2>0. "created" \in Changes /\ "destroyed" \in Changes
    BY DEF Changes
  <2>1. \A n, id \in Nat, c \in Changes : <<n, Kind, id, c>> \in log => id \in 1 .. LastId
    BY <1>5, <1>6
  <2>2. \A n, id \in Nat : <<n, Kind, id, "destroyed">> \notin log
    BY <1>5, <2>0
  <2>3. \A m, n, id \in Nat, c \in Changes :
          <<m, Kind, id, "created">> \in log /\ <<n, Kind, id, c>> \in log => m <= n
    <3> SUFFICES ASSUME NEW m \in Nat, NEW n \in Nat, NEW id \in Nat, NEW c \in Changes,
                        <<m, Kind, id, "created">> \in log, <<n, Kind, id, c>> \in log
                 PROVE  m <= n
      OBVIOUS
    <3>1. m = 1 /\ n = 1
      BY <1>5, <2>0
    <3> QED BY <3>1
  <2> QED BY <2>1, <2>2, <2>3 DEF Fates
<1>8. JmapBehind
  BY <1>0, <1>2, <1>3 DEF JmapBehind
<1>9. Complete
  <2> SUFFICES ASSUME NEW id \in Live PROVE Changed(id, 0)
    BY <1>0 DEF Complete
  <2>1. Kind = "Mailbox" /\ id \in 1 .. DefaultBoxes
    <3>1. Kind \in {"Email", "Thread"} => Live = {}
      BY <1>2 DEF Live
    <3> QED BY <1>6, <3>1, KindAssumption DEF Kinds
  <2>2. <<1, Kind, id, "created">> \in log
    BY <1>2, <2>1
  <2>3. 1 \in Nat /\ 0 < 1 /\ "created" \in Changes
    BY DEF Changes
  <2> QED BY <2>2, <2>3 DEF Changed, Since
<1>10. Mortal /\ Current /\ Answered
  BY <1>0, <1>3 DEF Mortal, Current, Answered
<1> QED BY <1>1, <1>4, <1>7, <1>8, <1>9, <1>10 DEF JmapInv

\* Every step of the store and of the client keeps both invariants.
LEMMA JmapSteps == StoreInv /\ JmapInv /\ [JNext]_jvars => StoreInv' /\ JmapInv'
<1> SUFFICES ASSUME StoreInv, JmapInv, [JNext]_jvars PROVE StoreInv' /\ JmapInv'
  OBVIOUS
<1>1. ASSUME [Next]_storeVars, UNCHANGED jmapVars PROVE StoreInv' /\ JmapInv'
  <2>1. StoreInv'
    BY <1>1, StoreStep
  <2>2. PICK n \in Nat : n = BatchModseq /\ modseq' \in {modseq, modseq + 1} /\ batch' \in {0, n} /\ Tells(n)
    BY <1>1, <2>1, StoreTells
  <2> QED BY <1>1, <2>1, <2>2, TellsKeeps
<1>2. ASSUME JmapStep PROVE StoreInv' /\ JmapInv'
  <2>1. UNCHANGED storeVars
    BY <1>2 DEF JmapStep, AskChanges, ReadLog, Get
  <2>2. StoreInv'
    BY <2>1, StoreStep
  <2>3. JmapInv'
    <3>1. CASE AskChanges
      BY <3>1, AskKeeps
    <3>2. ASSUME NEW max \in MaxChanges, ReadLog(max) PROVE JmapInv'
      BY <3>2, ReadKeeps
    <3>3. CASE Get
      BY <3>3, GetKeeps
    <3> QED BY <1>2, <3>1, <3>2, <3>3 DEF JmapStep
  <2> QED BY <2>2, <2>3
<1>3. \/ [Next]_storeVars /\ UNCHANGED jmapVars
      \/ JmapStep
  BY DEF JNext, jvars
<1> QED BY <1>1, <1>2, <1>3

\* The store below a JMAP client is the store: reading changes nothing in it.
THEOREM JmapImplementsStore == JSpec => Spec
<1>1. JInit => Init
  BY DEF JInit
<1>2. [JNext]_jvars => [Next]_storeVars
  BY DEF JNext, jvars, JmapStep, AskChanges, ReadLog, Get
<1> QED BY <1>1, <1>2, PTL DEF JSpec, Spec

\* The client's inductive invariant: whatever is committed between the read of the modseq,
\* the read of the log and the client's /get, the log has, after the client's state, a word
\* on everything its copy is behind in, and the answer it is about to apply leaves none out.
THEOREM JmapInvariant == JSpec => [](StoreInv /\ JmapInv)
<1>1. JInit => StoreInv /\ JmapInv
  BY JmapStart
<1>2. StoreInv /\ JmapInv /\ [JNext]_jvars => (StoreInv /\ JmapInv)'
  BY JmapSteps
<1> QED BY <1>1, <1>2, PTL DEF JSpec

\* The client never holds a state the account has not reached.
THEOREM JmapTypeCorrect == JSpec => []JTypeOK
<1>1. JmapInv => JTypeOK
  BY DEF JmapInv
<1> QED BY <1>1, JmapInvariant, PTL

\* For every account, limit of changes and kind of object the client keeps: the next answer
\* to /changes names everything in which the client's copy is behind.
THEOREM JmapAlwaysCatchesUp == JSpec => []JmapCatchesUp
<1>1. StoreInv /\ JmapInv => JmapCatchesUp
  BY InvCatchesUp
<1> QED BY <1>1, JmapInvariant, PTL
=============================================================================
