--------------------------- MODULE DeliveryQueue ---------------------------
(***************************************************************************)
(* The outbound queue and its delivery worker.                             *)
(*                                                                         *)
(* A queued message has one row per recipient, with a status and the time  *)
(* of the next try.  The worker claims what is due by moving that time one *)
(* lease ahead, keeps out what the `inflight` set says is being delivered  *)
(* already, and spawns one task per message and receiving domain.  A task  *)
(* waits for a permit, holds an SMTP session, writes down what became of   *)
(* every recipient, leaves `inflight`, tells the sender and removes the    *)
(* message when nobody is pending any more.  Every queue operation is one  *)
(* transaction, and one that fails is only logged; claims, tasks, admins,  *)
(* failing writes and a crash come in any order.                           *)
(*                                                                         *)
(* A message and a recipient stand for the ids of their rows, which are    *)
(* used again once no row has that id or a higher one.                     *)
(***************************************************************************)
EXTENDS Integers, FiniteSets

CONSTANTS
  Messages,
  Recipients,
  MsgOf,        \* the message of each recipient
  DomainOf,     \* the receiving domain of each recipient
  Never,        \* recipients with NOTIFY=NEVER
  WantDelay,    \* recipients whose sender wants delay notices
  NoSender,     \* messages with an empty return path: bounces, autoreplies
  Slots,        \* bound: delivery tasks at a time
  Permits,      \* delivery_permits
  ClaimLimit,   \* the most recipients one claim takes
  Lease,        \* LEASE_SECS
  RetryDelays,  \* what retry_delay may answer
  HoldRetry,    \* HOLD_RETRY_SECS
  HoldTime,     \* HOLD_SECS
  Lifetime,     \* lifetime_secs
  MaxAdmin,     \* bound: how often an admin retries or deletes a message
  LastEnqueue,  \* bound: no message is queued later than this
  MaxTime,      \* bound of the clock
  Horizon,      \* bound of next_attempt_at: later times count as this one
  MaxTroubles,  \* bound: restarts and failing writes together
  MaxMails      \* bound: mails queued under one id

ASSUME IdsAssumption == Messages \subseteq Nat /\ NoSender \subseteq Messages
ASSUME MsgOfAssumption == MsgOf \in [Recipients -> Messages]
ASSUME DomainOfAssumption == DomainOf \in [Recipients -> Nat]
ASSUME SlotsAssumption == Slots \subseteq Nat
ASSUME FlagsAssumption == Never \subseteq Recipients /\ WantDelay \subseteq Recipients
ASSUME DelaysAssumption ==
  /\ Lease \in Nat \ {0}
  /\ RetryDelays \subseteq Nat \ {0}
  /\ HoldRetry \in Nat \ {0}
  /\ HoldTime \in Nat
  /\ Lifetime \in Nat
ASSUME BoundsAssumption ==
  /\ Permits \in Nat \ {0}
  /\ ClaimLimit \in Nat \ {0}
  /\ LastEnqueue \in Nat
  /\ MaxTime \in Nat
  /\ Horizon \in Nat
  /\ MaxTroubles \in Nat
  /\ MaxAdmin \in Nat
  /\ MaxMails \in Nat

VARIABLES
  status,    \* queue_recipients.status; "new" before, "gone" after the row exists
  due,       \* next_attempt_at
  heldLast,  \* recipients whose last_error is a Microsoft block
  created,   \* queue_messages.created_at
  mails,     \* how many mails had the message's id so far: which mail it is now
  refused,   \* recipients listed in refused_deliveries
  batch,     \* claimed recipients the worker has yet to hand to tasks
  batchHeld, \* heldLast as the claim read it
  batchMail, \* the mails the claim read
  inflight,  \* Context.inflight
  phase,     \* where each task is
  group,     \* the recipients of each task
  mail,      \* the mail it delivers to them
  wasHeld,   \* the ones among them that were held last time, as claimed
  result,    \* outcomes the task has yet to write down
  noting,    \* the failure it wrote down but not yet listed as refused
  failed,    \* recipients to bounce
  delayed,   \* recipients to send a delay notice for
  raw,       \* whether the task could read the message
  reported,  \* failures the sender was told of
  noticed,   \* recipients a delay notice was sent for
  unreported, \* failures whose bounce had no way to the sender
  unnoticed, \* recipients whose delay notice had none
  unwritten, \* recipients the queue failed to write something down about
  stuck,     \* messages whose removal failed
  lapsed,    \* recipients that were due while a claim or a task had them
  now,
  crashes,   \* restarts so far
  faults,    \* writes that failed so far
  admin      \* what an admin asked for so far, counted

queueVars == <<status, due, heldLast, created, mails, refused>>
workerVars == <<batch, batchHeld, batchMail>>
taskVars == <<phase, group, mail, wasHeld, result, noting, failed, delayed, raw>>
senderVars == <<reported, noticed, unreported, unnoticed>>
faultVars == <<unwritten, stuck, faults>>
boundVars == <<crashes, admin>>
vars == <<queueVars, workerVars, inflight, taskVars, senderVars, faultVars, lapsed, now, boundVars>>

Outcomes == {"delivered", "deferred", "held", "failed"}
NoResult == [r \in Recipients |-> "none"]

Init ==
  /\ status = [r \in Recipients |-> "new"]
  /\ due = [r \in Recipients |-> 0]
  /\ heldLast = {}
  /\ created = [m \in Messages |-> 0]
  /\ mails = [m \in Messages |-> 0]
  /\ refused = {}
  /\ batch = {}
  /\ batchHeld = {}
  /\ batchMail = [m \in Messages |-> 0]
  /\ inflight = {}
  /\ phase = [s \in Slots |-> "free"]
  /\ group = [s \in Slots |-> {}]
  /\ mail = [s \in Slots |-> 0]
  /\ wasHeld = [s \in Slots |-> {}]
  /\ result = [s \in Slots |-> NoResult]
  /\ noting = [s \in Slots |-> {}]
  /\ failed = [s \in Slots |-> {}]
  /\ delayed = [s \in Slots |-> {}]
  /\ raw = [s \in Slots |-> TRUE]
  /\ reported = {}
  /\ noticed = {}
  /\ unreported = {}
  /\ unnoticed = {}
  /\ unwritten = {}
  /\ stuck = {}
  /\ lapsed = {}
  /\ now = 0
  /\ crashes = 0
  /\ faults = 0
  /\ admin = 0

-----------------------------------------------------------------------------
(* The queue's own operations.                                             *)

RecipientsOf(m) == {r \in Recipients : MsgOf[r] = m}

\* A time as next_attempt_at records it.
At(time) == IF time > Horizon THEN Horizon ELSE time

\* The rows that are in the queue.
Rows == {r \in Recipients : status[r] \in {"pending", "delivered", "failed"}}

Pending == {r \in Recipients : status[r] = "pending"}

\* The recipients a task has yet to settle.
Undone(s) ==
  IF phase[s] \in {"waiting", "running"} THEN group[s]
  ELSE {r \in Recipients : result[s][r] # "none"}

\* The recipients a claim or a task has reserved for itself, and the reservations
\* that are broken when the times of the next tries are `next` at `time`.
Taken == batch \union UNION {Undone(s) : s \in Slots}
Lapsing(next, time) == lapsed \union {r \in Taken : next[r] <= time}

\* DELETE FROM queue_messages: the recipients go with it.
RowsGone(m) ==
  status' = [r \in Recipients |-> IF MsgOf[r] = m /\ r \in Rows THEN "gone" ELSE status[r]]

\* The tables are plain INTEGER PRIMARY KEY tables: an id is handed out again
\* once no row has it or a higher one.
Enqueue(m) ==
  /\ now <= LastEnqueue
  /\ RecipientsOf(m) # {}
  /\ \A r \in Rows : MsgOf[r] < m
  /\ mails[m] < MaxMails
  /\ mails' = [mails EXCEPT ![m] = @ + 1]
  /\ status' = [r \in Recipients |-> IF MsgOf[r] = m THEN "pending" ELSE status[r]]
  /\ due' = [r \in Recipients |-> IF MsgOf[r] = m THEN now ELSE due[r]]
  /\ lapsed' = Lapsing(due', now)
  /\ created' = [created EXCEPT ![m] = now]
  /\ heldLast' = heldLast \ RecipientsOf(m)
  /\ UNCHANGED <<refused, workerVars, inflight, taskVars, senderVars, faultVars, now, boundVars>>

\* An admin makes every pending recipient of a message due now.
RetryMessage(m) ==
  /\ admin < MaxAdmin
  /\ admin' = admin + 1
  /\ RecipientsOf(m) \intersect Pending # {}
  /\ due' = [r \in Recipients |-> IF MsgOf[r] = m /\ r \in Pending THEN now ELSE due[r]]
  /\ lapsed' = Lapsing(due', now)
  /\ UNCHANGED <<status, heldLast, created, mails, refused, workerVars, inflight, taskVars, senderVars,
                 faultVars, now, crashes>>

DeleteMessage(m) ==
  /\ admin < MaxAdmin
  /\ admin' = admin + 1
  /\ RecipientsOf(m) \intersect Rows # {}
  /\ RowsGone(m)
  /\ UNCHANGED <<due, heldLast, created, mails, refused, workerVars, inflight, taskVars, senderVars, faultVars,
                 lapsed, now, crashes>>

-----------------------------------------------------------------------------
(* run_queue.                                                              *)

Due == {r \in Pending : due[r] <= now}

\* load_message, for the messages of the recipients rs.
MailsOf(rs) == [m \in Messages |-> IF RecipientsOf(m) \intersect rs = {} THEN 0 ELSE mails[m]]

\* Mutant of Claim: a claim without a lease.
ClaimUnleased ==
  /\ batch = {}
  /\ \E claimed \in SUBSET Due :
       /\ \A c \in claimed, d \in Due \ claimed : due[c] <= due[d]
       /\ claimed = Due \/ Cardinality(claimed) = ClaimLimit
       /\ batch' = claimed
       /\ batchHeld' = heldLast \intersect claimed
       /\ batchMail' = MailsOf(claimed)
  /\ UNCHANGED <<queueVars, inflight, taskVars, senderVars, faultVars, lapsed, now, boundVars>>

\* claim_due_deliveries: the earliest due recipients, reserved for one lease.
\* With nothing due it takes nothing.
Claim ==
  /\ batch = {}
  /\ \E claimed \in SUBSET Due :
       /\ \A c \in claimed, d \in Due \ claimed : due[c] <= due[d]
       /\ Cardinality(claimed) <= ClaimLimit
       /\ claimed = Due \/ Cardinality(claimed) = ClaimLimit
       /\ due' = [r \in Recipients |-> IF r \in claimed THEN At(now + Lease) ELSE due[r]]
       /\ batch' = claimed
       /\ batchHeld' = heldLast \intersect claimed
       /\ batchMail' = MailsOf(claimed)
  /\ UNCHANGED <<status, heldLast, created, mails, refused, inflight, taskVars, senderVars, faultVars,
                 lapsed, now, boundVars>>

\* Mutant of Fresh: nobody looks at inflight.
FreshUnasked(m) == {r \in batch : MsgOf[r] = m}

\* The claimed recipients of a message that are not being delivered already.
Fresh(m) == {r \in batch : MsgOf[r] = m /\ r \notin inflight}

\* One claimed message: its recipients enter inflight and a task per domain is
\* spawned for them, in the order of the domains.  Free slots are alike: the
\* first ones are taken.
Dispatch(m) ==
  LET domains == {DomainOf[r] : r \in Fresh(m)}
  IN /\ \E r \in batch : MsgOf[r] = m
     /\ \E spawned \in [domains -> {s \in Slots : phase[s] = "free"}] :
          /\ \A d, e \in domains : d < e => spawned[d] < spawned[e]
          /\ \A d \in domains, s \in Slots :
               phase[s] = "free" /\ s < spawned[d] => \E e \in domains : spawned[e] = s
          /\ group' = [s \in Slots |->
               IF phase[s] = "free" THEN {r \in Fresh(m) : spawned[DomainOf[r]] = s} ELSE group[s]]
          /\ phase' = [s \in Slots |->
               IF phase[s] = "free" /\ group'[s] # {} THEN "waiting" ELSE phase[s]]
          /\ wasHeld' = [s \in Slots |->
               IF phase[s] = "free" THEN batchHeld \intersect group'[s] ELSE wasHeld[s]]
          /\ mail' = [s \in Slots |->
               IF phase[s] = "free" /\ group'[s] # {} THEN batchMail[m] ELSE mail[s]]
     /\ inflight' = inflight \union Fresh(m)
     /\ batch' = batch \ RecipientsOf(m)
     /\ batchHeld' = batchHeld \ RecipientsOf(m)
     /\ batchMail' = [batchMail EXCEPT ![m] = 0]
  /\ UNCHANGED <<queueVars, result, noting, failed, delayed, raw, senderVars, faultVars, lapsed, now, boundVars>>

-----------------------------------------------------------------------------
(* deliver_group.                                                          *)

HasPermit(s) == phase[s] \in {"running", "marking", "released"}

\* The semaphore lets the task in.
Acquire(s) ==
  /\ phase[s] = "waiting"
  /\ Cardinality({t \in Slots : HasPermit(t)}) < Permits
  /\ phase' = [phase EXCEPT ![s] = "running"]
  /\ UNCHANGED <<queueVars, workerVars, inflight, group, mail, wasHeld, result, noting, failed, delayed, raw,
                 senderVars, faultVars, lapsed, now, boundVars>>

\* The same outcome for everybody.
Everyone(rs, outcomes) == {[r \in rs |-> outcome] : outcome \in outcomes}

\* held_inside: the sender may only write to people on this server, or whether
\* that is so cannot be found out.
HeldInside(rs) == Everyone(rs, {"failed", "deferred"})

\* One SMTP session.  Whoever RCPT TO refuses has an outcome of their own, the
\* others share the answer to DATA; between them, any outcomes.  "deferred" is
\* also the answer when the connection broke after the data was sent.
SmtpSession(rs) == [rs -> Outcomes]

\* deliver_domain: no server for the domain, none that could be reached, or a session.
DeliverDomain(rs) == Everyone(rs, {"failed", "deferred"}) \union SmtpSession(rs)

\* The message is read, the sender's right to send outside is looked at, and the
\* other side is tried: one outcome per recipient.
Session(s) ==
  /\ phase[s] = "running"
  /\ phase' = [phase EXCEPT ![s] = "marking"]
  /\ \E outcomes \in HeldInside(group[s]) \union DeliverDomain(group[s]) :
       result' = [result EXCEPT ![s] =
         [r \in Recipients |-> IF r \in group[s] THEN outcomes[r] ELSE "none"]]
  /\ UNCHANGED <<queueVars, workerVars, inflight, group, mail, wasHeld, noting, failed, delayed, raw,
                 senderVars, faultVars, lapsed, now, boundVars>>

\* The message's content is not there: everybody fails.
ContentLost(s) ==
  /\ phase[s] = "running"
  /\ phase' = [phase EXCEPT ![s] = "marking"]
  /\ raw' = [raw EXCEPT ![s] = FALSE]
  /\ result' = [result EXCEPT ![s] =
       [r \in Recipients |-> IF r \in group[s] THEN "failed" ELSE "none"]]
  /\ UNCHANGED <<queueVars, workerVars, inflight, group, mail, wasHeld, noting, failed, delayed,
                 senderVars, faultVars, lapsed, now, boundVars>>

\* The loop over the outcomes comes to recipient r.
Marks(s, r, outcome) ==
  /\ phase[s] = "marking"
  /\ noting[s] = {}
  /\ outcome = result[s][r]
  /\ result' = [result EXCEPT ![s][r] = "none"]
  /\ UNCHANGED <<created, mails, refused, workerVars, inflight, phase, group, mail, wasHeld, raw,
                 senderVars, stuck, lapsed, now, boundVars>>

\* A write that fails: the caller logs it and goes on.
Fault ==
  /\ crashes + faults < MaxTroubles
  /\ faults' = faults + 1

\* update_recipient: status, next_attempt_at and last_error together; on a row
\* that is gone it only reports an error.
UpdateRecipient(r, new, next, held) ==
  /\ status' = [status EXCEPT ![r] = IF r \in Rows THEN new ELSE @]
  /\ due' = [due EXCEPT ![r] = IF r \in Rows THEN next ELSE @]
  /\ heldLast' = IF held THEN heldLast \union {r} ELSE heldLast \ {r}
  /\ UNCHANGED <<unwritten, faults>>

\* It fails: the row stays as it was, pending and under its lease, whatever the
\* task has counted the outcome as.
UpdateFails(r) ==
  /\ Fault
  /\ unwritten' = unwritten \union {r}
  /\ UNCHANGED <<status, due, heldLast>>

MarkDelivered(s, r) ==
  /\ Marks(s, r, "delivered")
  /\ UpdateRecipient(r, "delivered", due[r], FALSE) \/ UpdateFails(r)
  /\ UNCHANGED <<noting, failed, delayed>>

\* mark_recipient_deferred
PutOff(r, next, held) ==
  /\ UpdateRecipient(r, "pending", At(next), held) \/ UpdateFails(r)
  /\ UNCHANGED <<noting, failed>>

\* The recipient is counted among the ones to bounce; then mark_recipient_failed or
\* mark_recipient_given_up: first the row, then, if that was written, the list
\* of refused mail.
Fail(s, r, bounces, held) ==
  /\ failed' = [failed EXCEPT ![s] = IF bounces THEN @ \union {r} ELSE @]
  /\ \/ /\ UpdateRecipient(r, "failed", due[r], held)
        /\ noting' = [noting EXCEPT ![s] = Rows \intersect {r}]
     \/ UpdateFails(r) /\ UNCHANGED noting
  /\ UNCHANGED delayed

Expires(r) == created[MsgOf[r]] + Lifetime

\* Mutant of MarkDeferred: the message's lifetime is not looked at.
MarkDeferredForever(s, r) ==
  /\ Marks(s, r, "deferred")
  /\ \E delay \in RetryDelays : PutOff(r, now + delay, FALSE)
  /\ UNCHANGED delayed

\* Put off to the next try, or given up when that would be after the message
\* expires.
MarkDeferred(s, r) ==
  /\ Marks(s, r, "deferred")
  /\ \E delay \in RetryDelays :
       \/ /\ now + delay > Expires(r)
          /\ Fail(s, r, TRUE, FALSE)
       \/ /\ now + delay <= Expires(r)
          /\ PutOff(r, now + delay, FALSE)
          /\ UNCHANGED delayed

HoldUntil(r) ==
  IF Lifetime < HoldTime THEN Expires(r) ELSE created[MsgOf[r]] + HoldTime

\* Mutant of MarkHeld: the notice goes with the later holds.
MarkHeldUntold(s, r) ==
  /\ Marks(s, r, "held")
  /\ \/ /\ now + HoldRetry <= HoldUntil(r)
        /\ delayed' = [delayed EXCEPT ![s] =
             IF r \in WantDelay \intersect wasHeld[s] THEN @ \union {r} ELSE @]
        /\ PutOff(r, now + HoldRetry, TRUE)
     \/ /\ now + HoldRetry > HoldUntil(r)
        /\ Fail(s, r, r \notin Never, TRUE)

\* Microsoft blocks us: held, with a delay notice the first time, until it has
\* been held too long.
MarkHeld(s, r) ==
  /\ Marks(s, r, "held")
  /\ \/ /\ now + HoldRetry <= HoldUntil(r)
        /\ delayed' = [delayed EXCEPT ![s] =
             IF r \in WantDelay \ wasHeld[s] THEN @ \union {r} ELSE @]
        /\ PutOff(r, now + HoldRetry, TRUE)
     \/ /\ now + HoldRetry > HoldUntil(r)
        /\ Fail(s, r, r \notin Never, TRUE)

\* Mutant of MarkFailed: the failure is not remembered for the bounce.
MarkFailedSilently(s, r) ==
  /\ Marks(s, r, "failed")
  /\ Fail(s, r, FALSE, FALSE)

MarkFailed(s, r) ==
  /\ Marks(s, r, "failed")
  /\ Fail(s, r, r \notin Never, FALSE)

\* Mutant of NoteRefused: only the recipients whose failure is not bounced.
NoteRefusedUnbounced(s) ==
  /\ noting[s] # {}
  /\ refused' = refused \union ((noting[s] \intersect Rows) \ failed[s])
  /\ noting' = [noting EXCEPT ![s] = {}]
  /\ UNCHANGED <<status, due, heldLast, created, mails, workerVars, inflight, phase, group, mail, wasHeld,
                 result, failed, delayed, raw, senderVars, faultVars, lapsed, now, boundVars>>

\* note_refused, a transaction of its own: reads the recipient and its message,
\* if they are still there.
NoteRefused(s) ==
  /\ noting[s] # {}
  /\ noting' = [noting EXCEPT ![s] = {}]
  /\ \/ refused' = refused \union (noting[s] \intersect Rows) /\ UNCHANGED <<unwritten, faults>>
     \/ Fault /\ unwritten' = unwritten \union noting[s] /\ UNCHANGED refused
  /\ UNCHANGED <<status, due, heldLast, created, mails, workerVars, inflight, phase, group, mail, wasHeld,
                 result, failed, delayed, raw, senderVars, stuck, lapsed, now, boundVars>>

\* Every outcome is written down: the recipients leave inflight.  Without the
\* message there is nothing to send back.
Release(s) ==
  /\ phase[s] = "marking"
  /\ result[s] = NoResult
  /\ noting[s] = {}
  /\ phase' = [phase EXCEPT ![s] = "released"]
  /\ inflight' = inflight \ group[s]
  /\ failed' = [failed EXCEPT ![s] = IF raw[s] THEN @ ELSE {}]
  /\ delayed' = [delayed EXCEPT ![s] = IF raw[s] THEN @ ELSE {}]
  /\ unreported' = IF raw[s] THEN unreported ELSE unreported \union failed[s]
  /\ unnoticed' = IF raw[s] THEN unnoticed ELSE unnoticed \union delayed[s]
  /\ UNCHANGED <<queueVars, workerVars, group, mail, wasHeld, result, noting, raw, reported, noticed, faultVars,
                 lapsed, now, boundVars>>

\* notify: the notice cannot go to the sender of the task's message: there is none, or
\* building or storing it fails, which is only logged.
Unheard(s) ==
  IF \E r \in group[s] : MsgOf[r] \in NoSender THEN UNCHANGED faults ELSE Fault

Heard(s) ==
  /\ \A r \in group[s] : MsgOf[r] \notin NoSender
  /\ UNCHANGED faults

\* The bounce is put in the sender's mailbox or queued (an Enqueue of its own).
Bounce(s) ==
  /\ phase[s] = "released"
  /\ failed[s] # {}
  /\ failed' = [failed EXCEPT ![s] = {}]
  /\ \/ Heard(s) /\ reported' = reported \union failed[s] /\ UNCHANGED unreported
     \/ Unheard(s) /\ unreported' = unreported \union failed[s] /\ UNCHANGED reported
  /\ UNCHANGED <<queueVars, workerVars, inflight, phase, group, mail, wasHeld, result, noting, delayed, raw,
                 noticed, unnoticed, unwritten, stuck, lapsed, now, boundVars>>

DelayNotice(s) ==
  /\ phase[s] = "released"
  /\ failed[s] = {}
  /\ delayed[s] # {}
  /\ delayed' = [delayed EXCEPT ![s] = {}]
  /\ \/ Heard(s) /\ noticed' = noticed \union delayed[s] /\ UNCHANGED unnoticed
     \/ Unheard(s) /\ unnoticed' = unnoticed \union delayed[s] /\ UNCHANGED noticed
  /\ UNCHANGED <<queueVars, workerVars, inflight, phase, group, mail, wasHeld, result, noting, failed, raw,
                 reported, unreported, unwritten, stuck, lapsed, now, boundVars>>

\* The task ends.
TaskEnds(s) ==
  /\ phase' = [phase EXCEPT ![s] = "free"]
  /\ group' = [group EXCEPT ![s] = {}]
  /\ mail' = [mail EXCEPT ![s] = 0]
  /\ wasHeld' = [wasHeld EXCEPT ![s] = {}]
  /\ raw' = [raw EXCEPT ![s] = TRUE]
  /\ UNCHANGED <<result, noting, failed, delayed>>

\* Mutant of Complete: only a delivered message is removed.
CompleteDelivered(s) ==
  /\ phase[s] = "released"
  /\ failed[s] = {} /\ delayed[s] = {}
  /\ TaskEnds(s)
  /\ \E m \in Messages :
       /\ \E r \in group[s] : MsgOf[r] = m
       /\ IF \E r \in RecipientsOf(m) : status[r] # "delivered" THEN UNCHANGED status ELSE RowsGone(m)
  /\ UNCHANGED <<due, heldLast, created, mails, refused, workerVars, inflight, senderVars, faultVars,
                 lapsed, now, boundVars>>

\* complete_queue_message: the message goes once no recipient is pending.  When
\* that fails nothing tries it again.
Complete(s) ==
  /\ phase[s] = "released"
  /\ failed[s] = {} /\ delayed[s] = {}
  /\ TaskEnds(s)
  /\ \E m \in Messages :
       /\ \E r \in group[s] : MsgOf[r] = m
       /\ \/ /\ IF RecipientsOf(m) \intersect Pending # {} THEN UNCHANGED status ELSE RowsGone(m)
             /\ UNCHANGED <<stuck, faults>>
          \/ Fault /\ stuck' = stuck \union {m} /\ UNCHANGED status
  /\ UNCHANGED <<due, heldLast, created, mails, refused, workerVars, inflight, senderVars, unwritten,
                 lapsed, now, boundVars>>

-----------------------------------------------------------------------------
\* The process ends and starts again: the queue stays, everything else is gone.
Crash ==
  /\ crashes + faults < MaxTroubles
  /\ crashes' = crashes + 1
  /\ batch' = {}
  /\ batchHeld' = {}
  /\ batchMail' = [m \in Messages |-> 0]
  /\ inflight' = {}
  /\ phase' = [s \in Slots |-> "free"]
  /\ group' = [s \in Slots |-> {}]
  /\ mail' = [s \in Slots |-> 0]
  /\ wasHeld' = [s \in Slots |-> {}]
  /\ result' = [s \in Slots |-> NoResult]
  /\ noting' = [s \in Slots |-> {}]
  /\ failed' = [s \in Slots |-> {}]
  /\ delayed' = [s \in Slots |-> {}]
  /\ raw' = [s \in Slots |-> TRUE]
  /\ UNCHANGED <<queueVars, senderVars, faultVars, lapsed, now, admin>>

Tick ==
  /\ now < MaxTime
  /\ now' = now + 1
  /\ lapsed' = Lapsing(due, now')
  /\ UNCHANGED <<queueVars, workerVars, inflight, taskVars, senderVars, faultVars, boundVars>>

Mark(s, r) ==
  MarkDelivered(s, r) \/ MarkDeferred(s, r) \/ MarkHeld(s, r) \/ MarkFailed(s, r)

TaskStep(s) ==
  \/ Acquire(s)
  \/ Session(s)
  \/ ContentLost(s)
  \/ \E r \in Recipients : Mark(s, r)
  \/ NoteRefused(s)
  \/ Release(s)
  \/ Bounce(s)
  \/ DelayNotice(s)
  \/ Complete(s)

WorkerStep == Claim \/ \E m \in Messages : Dispatch(m)

AdminStep == \E m \in Messages : RetryMessage(m) \/ DeleteMessage(m)

Next ==
  \/ \E m \in Messages : Enqueue(m)
  \/ AdminStep
  \/ WorkerStep
  \/ \E s \in Slots : TaskStep(s)
  \/ Crash
  \/ Tick

Spec == Init /\ [][Next]_vars

\* The worker wakes at least once a minute, every await of a task ends (the
\* session has timeouts, the semaphore is fair) and time goes on.
FairSpec ==
  /\ Spec
  /\ WF_vars(WorkerStep)
  /\ \A s \in Slots : SF_vars(TaskStep(s))
  /\ WF_vars(Tick)
-----------------------------------------------------------------------------
TypeOK ==
  /\ status \in [Recipients -> {"new", "pending", "delivered", "failed", "gone"}]
  /\ due \in [Recipients -> Nat]
  /\ created \in [Messages -> Nat]
  /\ mails \in [Messages -> 0 .. MaxMails]
  /\ batchMail \in [Messages -> 0 .. MaxMails]
  /\ mail \in [Slots -> 0 .. MaxMails]
  /\ batchHeld \subseteq batch
  /\ heldLast \union refused \union batch \union inflight \subseteq Recipients
  /\ reported \union noticed \union unreported \union unnoticed \subseteq Recipients
  /\ unwritten \union lapsed \subseteq Recipients
  /\ stuck \subseteq Messages
  /\ phase \in [Slots -> {"free", "waiting", "running", "marking", "released"}]
  /\ group \in [Slots -> SUBSET Recipients]
  /\ wasHeld \in [Slots -> SUBSET Recipients]
  /\ result \in [Slots -> [Recipients -> Outcomes \union {"none"}]]
  /\ noting \in [Slots -> SUBSET Recipients]
  /\ failed \in [Slots -> SUBSET Recipients]
  /\ delayed \in [Slots -> SUBSET Recipients]
  /\ raw \in [Slots -> BOOLEAN]
  /\ now \in 0 .. MaxTime
  /\ crashes \in 0 .. MaxTroubles
  /\ faults \in 0 .. MaxTroubles
  /\ admin \in 0 .. MaxAdmin

\* A task whose recipients are in inflight.
Holding(s) == phase[s] \in {"waiting", "running", "marking"}

\* No recipient is delivered to by two tasks at once, although an admin may make
\* it due in the middle of a try and the lease may run out before the try ends.
OneTaskPerRecipient ==
  \A s, t \in Slots : s # t /\ Holding(s) /\ Holding(t) => group[s] \intersect group[t] = {}

\* inflight is exactly what the unfinished tasks work on: a recipient that
\* stayed behind in it would never be tried again.
InflightExact ==
  \A r \in Recipients : r \in inflight <=> \E s \in Slots : Holding(s) /\ r \in group[s]

\* Nothing is sent again to a recipient that was settled: a task only works on
\* recipients that are pending (or deleted meanwhile).  "Takes pending
\* recipients that are due and leases them ..., so a second pass does not pick
\* them up while delivery is still running."  The exception is a recipient that
\* became due although it was taken: its lease ran out, an admin asked for a
\* retry, or its id was used again.
WorksOnPending ==
  \A s \in Slots : \A r \in Undone(s) \ lapsed : status[r] \in {"pending", "gone"}

\* What is about to bounce is on the list of refused mail ("Mail that bounced
\* anyway ... is listed under ... Refused mail"), unless the message was gone
\* before the task came to note it, and whatever mail has its id by now.  The
\* exception is a recipient whose row or whose entry could not be written: the
\* task bounces it all the same.
RefusedListed ==
  \A s \in Slots : phase[s] = "released" =>
    \A r \in (failed[s] \intersect Rows) \ unwritten : mails[MsgOf[r]] = mail[s] => r \in refused

\* Whoever wants to hear of delays hears of the first hold, however many tries
\* it takes ("On the first hold the sender gets a delay notice"), unless the
\* server stopped before it could say so or the notice had no way to them.
HoldTold ==
  crashes = 0 =>
    \A r \in (heldLast \intersect WantDelay \intersect Pending) \ unnoticed :
      r \in noticed \/ \E s \in Slots : r \in delayed[s]

\* No recipient stays in the queue for ever: it is delivered, it fails or the
\* message is deleted, whatever the other servers answer, through restarts and
\* whichever write fails.
EverySettled == \A r \in Recipients : status[r] = "pending" ~> status[r] # "pending"

\* A message nobody waits for any more is removed, whichever of its tasks comes
\* last ("Removes a message once no recipient is pending"), unless the server
\* stopped before the last of them came to it or its removal failed.
SettledMessagesGo ==
  \A m \in Messages :
    (RecipientsOf(m) \intersect Rows # {} /\ RecipientsOf(m) \intersect Pending = {})
      ~> \/ RecipientsOf(m) \intersect Rows = {}
         \/ RecipientsOf(m) \intersect Pending # {}
         \/ crashes > 0
         \/ m \in stuck

\* Whoever asked for failure notices hears of every failure ("its recipients
\* fail ... and come back to the sender in a bounce"), unless the server stopped
\* between the two or the bounce had no way to them: the message has no return
\* path, its content is lost (and nothing of it to send back), or the bounce
\* could not be built or stored.
SenderTold ==
  \A r \in Recipients \ Never : status[r] = "failed" ~> (r \in reported \union unreported \/ crashes > 0)
=============================================================================
