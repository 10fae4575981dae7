----------------------------- MODULE MailStore -----------------------------
(***************************************************************************)
(* Mailboxes, emails and threads of one account, and what the store writes *)
(* down about their changes: the change log that JMAP's /changes methods   *)
(* read, and the modseqs and vanished UIDs that IMAP's CONDSTORE and       *)
(* QRESYNC read.                                                           *)
(*                                                                         *)
(* A change is a transaction with one modseq, taken at its first actual    *)
(* change and shared by the whole batch.  Transactions exclude each other, *)
(* so one is open at a time (op); its items are steps of their own, and    *)
(* readers only see the states in which none is open.                      *)
(***************************************************************************)
EXTENDS Integers, FiniteSets

CONSTANTS
  MaxEmails,     \* bound: emails that ever exist
  MaxThreads,    \* bound: threads that ever exist
  MaxBoxes,      \* bound: mailboxes that ever exist
  DefaultBoxes,  \* how many create_default_mailboxes makes
  MaxModseq,     \* bound of the account's modseq
  MaxUid,        \* bound of uid_next
  BatchLimit,    \* bound: emails one batch changes
  Quota,         \* quota_bytes, in emails
  RemoveEmails   \* whether clients destroy mailboxes that still have emails

ASSUME CountsAssumption ==
  /\ MaxEmails \in Nat
  /\ MaxThreads \in Nat
  /\ MaxBoxes \in Nat
  /\ DefaultBoxes \in 1 .. MaxBoxes
  /\ MaxModseq \in Nat \ {0}
  /\ MaxUid \in Nat \ {0}
  /\ BatchLimit \in Nat \ {0}
  /\ Quota \in Nat
ASSUME RemoveAssumption == RemoveEmails \in BOOLEAN

VARIABLES
  modseq,      \* accounts.modseq
  used,        \* accounts.used_bytes, in emails
  emails,      \* the rows of emails
  threadOf,    \* emails.thread_id
  seen,        \* emails with the keyword $seen
  threads,     \* the rows of threads
  boxes,       \* the rows of mailboxes
  top,         \* mailboxes.updated_modseq
  uidNext,     \* mailboxes.uid_next
  uid,         \* email_mailboxes.uid, 0 where there is no row
  itemSeq,     \* email_mailboxes.modseq
  vanished,    \* imap_vanished.modseq, by mailbox and UID, 0 where there is no row
  log,         \* the rows of changes
  lastEmail,   \* the highest email id used so far (AUTOINCREMENT)
  lastThread,
  lastBox,
  op,          \* the transaction that is open
  batch,       \* Batch.modseq, 0 before it is taken
  room,        \* how many more emails the batch changes
  todo,        \* emails an IMAP removal or a mailbox's destruction still has to take
  box          \* the mailbox it takes them from

idVars == <<lastEmail, lastThread, lastBox>>
emailVars == <<emails, threadOf, seen, threads, used>>
boxVars == <<boxes, top, uidNext, uid, itemSeq, vanished>>
txVars == <<op, batch, room, todo, box>>
storeVars == <<emailVars, boxVars, modseq, log, idVars, txVars>>

EmailIds == 1 .. MaxEmails
ThreadIds == 1 .. MaxThreads
BoxIds == 1 .. MaxBoxes
Kinds == {"Email", "Thread", "Mailbox"}
Changes == {"created", "updated", "destroyed"}

\* create_default_mailboxes
Init ==
  /\ modseq = 1
  /\ used = 0
  /\ emails = {}
  /\ threadOf = [e \in EmailIds |-> 0]
  /\ seen = {}
  /\ threads = {}
  /\ boxes = 1 .. DefaultBoxes
  /\ top = [b \in BoxIds |-> IF b <= DefaultBoxes THEN 1 ELSE 0]
  /\ uidNext = [b \in BoxIds |-> 1]
  /\ uid = [b \in BoxIds |-> [e \in EmailIds |-> 0]]
  /\ itemSeq = [b \in BoxIds |-> [e \in EmailIds |-> 0]]
  /\ vanished = [b \in BoxIds |-> [u \in 1 .. MaxUid |-> 0]]
  /\ log = {<<1, "Mailbox", b, "created">> : b \in 1 .. DefaultBoxes}
  /\ lastEmail = 0
  /\ lastThread = 0
  /\ lastBox = DefaultBoxes
  /\ op = "none"
  /\ batch = 0
  /\ room = 0
  /\ todo = {}
  /\ box = 0

-----------------------------------------------------------------------------
BoxesOf(e) == {b \in boxes : uid[b][e] # 0}
EmailsIn(b) == {e \in emails : uid[b][e] # 0}

\* Mutant of Recorded: a plain INSERT into a table without its key.
RecordedAgain(rows) == log \union rows

\* The log after record_change of every row: INSERT OR IGNORE keeps the first
\* change an object has at a modseq.
Recorded(rows) ==
  log \union
    {row \in rows : ~\E old \in log : <<old[1], old[2], old[3]>> = <<row[1], row[2], row[3]>>}

\* Mutant of Raised: the modseq of a mailbox moves with its own changes only.
RaisedNever(bs, n) == top

\* record_change moves the modseq of the mailboxes it concerns.
Raised(bs, n) == [b \in BoxIds |-> IF b \in bs /\ top[b] < n THEN n ELSE top[b]]

\* Batch::modseq: taken once, on the first actual change.
BatchModseq == IF batch = 0 THEN modseq + 1 ELSE batch

TakeModseq ==
  /\ BatchModseq <= MaxModseq
  /\ modseq' = IF batch = 0 THEN modseq + 1 ELSE modseq

\* Mutant of NextUid: the UIDs of messages that left are handed out again.
NextUidLowest(b) == Cardinality(EmailsIn(b)) + 1

\* The UID add_to_mailbox gives the next email of mailbox b.
NextUid(b) == uidNext[b]

\* Mutant of ItemModseq: only a new membership carries the modseq.
ItemModseqOfNew(b, e, bs, n) == IF b \notin bs THEN 0 ELSE IF uid[b][e] = 0 THEN n ELSE itemSeq[b][e]

\* "Flag changes are visible in IMAP per mailbox": every membership carries it.
ItemModseq(b, e, bs, n) == IF b \in bs THEN n ELSE 0

\* Email e is in the mailboxes bs from now on, at modseq n.  New memberships get
\* the mailbox's next UID (add_to_mailbox), the UIDs it leaves are noted by the
\* trigger email_mailboxes_vanished, and every row it has carries the modseq.
Rehome(e, bs, n) ==
  LET old == BoxesOf(e)
  IN /\ \A b \in bs \ old : uidNext[b] <= MaxUid
     /\ uid' = [b \in BoxIds |-> [uid[b] EXCEPT ![e] =
          IF b \in bs \ old THEN NextUid(b) ELSE IF b \in bs THEN @ ELSE 0]]
     /\ uidNext' = [b \in BoxIds |-> IF b \in bs \ old THEN uidNext[b] + 1 ELSE uidNext[b]]
     /\ itemSeq' = [b \in BoxIds |-> [itemSeq[b] EXCEPT ![e] = ItemModseq(b, e, bs, n)]]
     /\ vanished' = [b \in BoxIds |->
          IF b \in old \ bs THEN [vanished[b] EXCEPT ![uid[b][e]] = n] ELSE vanished[b]]

\* The quota as the transaction finds it: other deliveries may have used the
\* space since the message was accepted.
Fits == Quota > 0 => used + 1 <= Quota

\* thread_for: a message id it shares with a known message puts a new one in that
\* thread, else it starts one.
ThreadFor == threads \union ({lastThread + 1} \intersect ThreadIds)

\* ingest: the transaction that stores a message in the mailboxes bs.
Ingest(bs, t, isSeen) ==
  LET n == modseq + 1
      e == lastEmail + 1
  IN /\ op = "none"
     /\ Fits
     /\ e <= MaxEmails /\ n <= MaxModseq
     /\ t \in ThreadFor
     /\ modseq' = n
     /\ lastEmail' = e
     /\ emails' = emails \union {e}
     /\ threadOf' = [threadOf EXCEPT ![e] = t]
     /\ threads' = threads \union {t}
     /\ lastThread' = IF t \in threads THEN lastThread ELSE t
     /\ seen' = IF isSeen THEN seen \union {e} ELSE seen
     /\ used' = used + 1
     /\ Rehome(e, bs, n)
     /\ top' = Raised(bs, n)
     /\ log' = Recorded({<<n, "Mailbox", b, "updated">> : b \in bs} \union
          {<<n, "Email", e, "created">>,
           <<n, "Thread", t, IF t \in threads THEN "updated" ELSE "created">>})
     /\ UNCHANGED <<boxes, lastBox, txVars>>

-----------------------------------------------------------------------------
(* Batches of email changes.                                               *)

\* The fields of an open transaction.
Opens(kind, b, es) ==
  /\ op = "none"
  /\ op' = kind
  /\ box' = b
  /\ todo' = es
  /\ room' = BatchLimit
  /\ UNCHANGED <<emailVars, boxVars, modseq, log, idVars, batch>>

Closes ==
  /\ op' = "none"
  /\ batch' = 0
  /\ room' = 0
  /\ todo' = {}
  /\ box' = 0

\* update_one, for an email of the account and mailboxes that exist.
UpdateOne(e, bs, isSeen) ==
  LET n == BatchModseq
      old == BoxesOf(e)
      turned == (e \in seen) # isSeen
      touched == (old \ bs) \union (bs \ old) \union (IF turned THEN bs ELSE {})
  IN /\ e \in emails
     /\ bs # {}
     /\ bs # old \/ turned
     /\ TakeModseq
     /\ batch' = n
     /\ Rehome(e, bs, n)
     /\ seen' = IF isSeen THEN seen \union {e} ELSE seen \ {e}
     /\ top' = Raised(old \union bs, n)
     /\ log' = Recorded({<<n, "Email", e, "updated">>} \union
          {<<n, "Mailbox", b, "updated">> : b \in touched})
     /\ UNCHANGED <<emails, threadOf, threads, used, boxes, idVars>>

\* Mutant of DestroyedRows: the log is not told of the email.
DestroyedRowsOfThread(e, n, last) ==
  {<<n, "Thread", threadOf[e], IF last THEN "destroyed" ELSE "updated">>} \union
    {<<n, "Mailbox", b, "updated">> : b \in BoxesOf(e)}

\* Mutant of DestroyedRows: a thread is never said to be gone.
DestroyedRowsThreadKept(e, n, last) ==
  {<<n, "Email", e, "destroyed">>, <<n, "Thread", threadOf[e], "updated">>} \union
    {<<n, "Mailbox", b, "updated">> : b \in BoxesOf(e)}

\* What destroy_one records.
DestroyedRows(e, n, last) ==
  {<<n, "Email", e, "destroyed">>,
   <<n, "Thread", threadOf[e], IF last THEN "destroyed" ELSE "updated">>} \union
    {<<n, "Mailbox", b, "updated">> : b \in BoxesOf(e)}

\* destroy_one: the email's rows go with it, and its thread with the last email.
DestroyOne(e) ==
  LET n == BatchModseq
      t == threadOf[e]
      last == ~\E f \in emails \ {e} : threadOf[f] = t
  IN /\ e \in emails
     /\ TakeModseq
     /\ batch' = n
     /\ Rehome(e, {}, n)
     /\ emails' = emails \ {e}
     /\ seen' = seen \ {e}
     /\ used' = IF used > 0 THEN used - 1 ELSE 0
     /\ threads' = IF last THEN threads \ {t} ELSE threads
     /\ top' = Raised(BoxesOf(e), n)
     /\ log' = Recorded(DestroyedRows(e, n, last))
     /\ UNCHANGED <<threadOf, boxes, idVars>>

\* apply_updates, imap_store_flags and imap_copy: update_one for each email.
BeginUpdates == Opens("update", 0, {})

Update(e, bs, isSeen) ==
  /\ op = "update"
  /\ room > 0
  /\ UpdateOne(e, bs, isSeen)
  /\ room' = room - 1
  /\ UNCHANGED <<op, todo, box>>

\* imap_store_flags: the flags alone.  UNCHANGEDSINCE leaves some emails out.
StoreFlags(e, isSeen) == Update(e, BoxesOf(e), isSeen)

\* copy_in: another mailbox, instead of the one it comes from when it is moved.
CopyIn(e, source, target, moves) ==
  /\ e \in EmailsIn(source)
  /\ source # target
  /\ Update(e, (BoxesOf(e) \union {target}) \ (IF moves THEN {source} ELSE {}), e \in seen)

\* destroy_emails
BeginDestroys == Opens("destroy", 0, {})

Destroy(e) ==
  /\ op = "destroy"
  /\ room > 0
  /\ DestroyOne(e)
  /\ room' = room - 1
  /\ UNCHANGED <<op, todo, box>>

\* imap_take_out: the emails es leave mailbox b; the ones that are nowhere else
\* are destroyed.
BeginTakeOut(b, es) ==
  /\ b \in boxes
  /\ es \subseteq EmailsIn(b)
  /\ Cardinality(es) <= BatchLimit
  /\ modseq < MaxModseq
  /\ Opens("takeout", b, es)

TakeOut(e) ==
  /\ op = "takeout"
  /\ e \in todo
  /\ IF BoxesOf(e) = {box} THEN DestroyOne(e) ELSE UpdateOne(e, BoxesOf(e) \ {box}, e \in seen)
  /\ todo' = todo \ {e}
  /\ UNCHANGED <<op, room, box>>

Commit ==
  /\ op \in {"update", "destroy", "takeout"}
  /\ todo = {}
  /\ Closes
  /\ UNCHANGED <<emailVars, boxVars, modseq, log, idVars>>

-----------------------------------------------------------------------------
(* Mailboxes.                                                              *)

CreateMailbox ==
  LET n == modseq + 1
      b == lastBox + 1
  IN /\ op = "none"
     /\ b <= MaxBoxes /\ n <= MaxModseq
     /\ modseq' = n
     /\ lastBox' = b
     /\ boxes' = boxes \union {b}
     /\ top' = [top EXCEPT ![b] = n]
     /\ log' = Recorded({<<n, "Mailbox", b, "created">>})
     /\ UNCHANGED <<emailVars, uidNext, uid, itemSeq, vanished, lastEmail, lastThread, txVars>>

\* update_mailbox: its name, parent, role, order or subscription.
UpdateMailbox(b) ==
  LET n == modseq + 1
  IN /\ op = "none"
     /\ b \in boxes
     /\ n <= MaxModseq
     /\ modseq' = n
     /\ top' = [top EXCEPT ![b] = n]
     /\ log' = Recorded({<<n, "Mailbox", b, "updated">>})
     /\ UNCHANGED <<emailVars, boxes, uidNext, uid, itemSeq, vanished, idVars, txVars>>

\* destroy_mailbox takes its modseq at once and lists the emails.
BeginDestroyMailbox(b) ==
  /\ op = "none"
  /\ b \in boxes
  /\ EmailsIn(b) # {} => RemoveEmails
  /\ modseq < MaxModseq
  /\ modseq' = modseq + 1
  /\ batch' = modseq + 1
  /\ op' = "emptying"
  /\ box' = b
  /\ todo' = EmailsIn(b)
  /\ UNCHANGED <<emailVars, boxVars, log, idVars, room>>

\* An email of the mailbox is destroyed, or just leaves it.
TakeFromMailbox(e) ==
  /\ op = "emptying"
  /\ e \in todo
  /\ \/ /\ BoxesOf(e) = {box}
        /\ DestroyOne(e)
     \/ /\ BoxesOf(e) # {box}
        /\ uid' = [uid EXCEPT ![box][e] = 0]
        /\ itemSeq' = [itemSeq EXCEPT ![box][e] = 0]
        /\ vanished' = [vanished EXCEPT ![box][uid[box][e]] = batch]
        /\ top' = Raised(BoxesOf(e) \ {box}, batch)
        /\ log' = Recorded({<<batch, "Email", e, "updated">>})
        /\ UNCHANGED <<emailVars, boxes, uidNext, modseq, batch, idVars>>
  /\ todo' = todo \ {e}
  /\ UNCHANGED <<op, room, box>>

\* Mutant of DroppedRows: the mailbox goes without a word.
DroppedRowsNone == {}

\* What destroy_mailbox records at its end.
DroppedRows == {<<batch, "Mailbox", box, "destroyed">>}

\* The row goes, the trigger mailboxes_vanished_cleanup forgets its UIDs, and
\* the transaction ends.
DropMailbox ==
  /\ op = "emptying"
  /\ todo = {}
  /\ boxes' = boxes \ {box}
  /\ top' = [top EXCEPT ![box] = 0]
  /\ uidNext' = [uidNext EXCEPT ![box] = 1]
  /\ vanished' = [vanished EXCEPT ![box] = [u \in 1 .. MaxUid |-> 0]]
  /\ log' = Recorded(DroppedRows)
  /\ Closes
  /\ UNCHANGED <<emailVars, uid, itemSeq, modseq, idVars>>

-----------------------------------------------------------------------------
Next ==
  \/ \E bs \in SUBSET boxes \ {{}}, t \in ThreadIds, isSeen \in BOOLEAN : Ingest(bs, t, isSeen)
  \/ BeginUpdates
  \/ \E e \in emails, bs \in SUBSET boxes, isSeen \in BOOLEAN : Update(e, bs, isSeen)
  \/ \E e \in emails, isSeen \in BOOLEAN : StoreFlags(e, isSeen)
  \/ \E e \in emails, source, target \in boxes, moves \in BOOLEAN : CopyIn(e, source, target, moves)
  \/ BeginDestroys
  \/ \E e \in emails : Destroy(e)
  \/ \E b \in boxes, es \in SUBSET emails : BeginTakeOut(b, es)
  \/ \E e \in todo : TakeOut(e)
  \/ Commit
  \/ CreateMailbox
  \/ \E b \in boxes : UpdateMailbox(b)
  \/ \E b \in boxes : BeginDestroyMailbox(b)
  \/ \E e \in todo : TakeFromMailbox(e)
  \/ DropMailbox

Spec == Init /\ [][Next]_storeVars
-----------------------------------------------------------------------------
TypeOK ==
  /\ modseq \in 1 .. MaxModseq
  /\ used \in Nat
  /\ emails \subseteq EmailIds
  /\ threadOf \in [EmailIds -> ThreadIds \union {0}]
  /\ seen \subseteq emails
  /\ threads \subseteq ThreadIds
  /\ boxes \subseteq BoxIds
  /\ top \in [BoxIds -> Nat]
  /\ uidNext \in [BoxIds -> Nat \ {0}]
  /\ uid \in [BoxIds -> [EmailIds -> Nat]]
  /\ itemSeq \in [BoxIds -> [EmailIds -> Nat]]
  /\ vanished \in [BoxIds -> [1 .. MaxUid -> Nat]]
  /\ log \subseteq (Nat \X Kinds \X Nat \X Changes)
  /\ lastEmail \in 0 .. MaxEmails
  /\ lastThread \in 0 .. MaxThreads
  /\ lastBox \in 0 .. MaxBoxes
  /\ op \in {"none", "update", "destroy", "takeout", "emptying"}
  /\ batch \in 0 .. MaxModseq
  /\ room \in 0 .. BatchLimit
  /\ todo \subseteq emails
  /\ box \in boxes \union {0}

\* No transaction is open: what readers see.
Committed == op = "none"

\* The last thing the log says of an object is this change, at modseq n.
LastSaid(kind, id, n, change) ==
  /\ <<n, kind, id, change>> \in log
  /\ \A row \in log : row[2] = kind /\ row[3] = id => row[1] <= n

LastDestroyed(kind, id) == \E n \in 1 .. modseq : LastSaid(kind, id, n, "destroyed")

\* The emails the log says were destroyed at modseq n.
DestroyedAt(n) == {e \in 1 .. lastEmail : <<n, "Email", e, "destroyed">> \in log}

\* The log tells every email's fate, whatever batches, removals and destroyed
\* mailboxes it went through: its last word is "destroyed" exactly for the
\* emails that are gone.  A client that never hears it keeps a dead email.
EmailsLogged ==
  Committed => \A e \in 1 .. lastEmail : LastDestroyed("Email", e) <=> e \notin emails

\* The same for threads ("Every write ... records (kind, id,
\* created|updated|destroyed)").  The exception is a thread that went with
\* several of its emails in one batch: the log's last word on it is "updated".
ThreadsLogged ==
  Committed => \A t \in 1 .. lastThread :
    \/ LastDestroyed("Thread", t) <=> t \notin threads
    \/ /\ t \notin threads
       /\ \E n \in 1 .. modseq :
            /\ LastSaid("Thread", t, n, "updated")
            /\ Cardinality({e \in DestroyedAt(n) : threadOf[e] = t}) > 1

\* The same for mailboxes.  The exception is a mailbox that was destroyed together
\* with emails.
MailboxesLogged ==
  Committed => \A b \in 1 .. lastBox :
    \/ LastDestroyed("Mailbox", b) <=> b \notin boxes
    \/ /\ b \notin boxes
       /\ \E n \in 1 .. modseq : LastSaid("Mailbox", b, n, "updated") /\ DestroyedAt(n) # {}

\* A UID never comes back for another message, not even after the mailbox was
\* emptied: it is above every UID the mailbox ever used.
UidsFresh ==
  [][\A b \in boxes \intersect boxes', e \in EmailIds :
       uid'[b][e] \notin {0, uid[b][e]} =>
         /\ \A f \in EmailIds : uid'[b][e] > uid[b][f]
         /\ \A u \in 1 .. MaxUid : vanished[b][u] # 0 => uid'[b][e] > u]_storeVars

-----------------------------------------------------------------------------
(* The log as readers see it.                                              *)

\* The rows of an open transaction, and the modseq it has taken, are not there yet.
SeenModseq == IF batch = 0 THEN modseq ELSE modseq - 1
SeenLog == {row \in log : row[1] <= SeenModseq}

Readers == INSTANCE ChangeLog WITH seq <- SeenModseq, told <- SeenLog

\* Whatever the batches of the store do, and in whatever order its transactions come,
\* readers see the log of ChangeLog: "Every write bumps the account's modseq and records
\* (kind, id, created|updated|destroyed)".
LogKept == Readers!Spec
=============================================================================
