# UwUMail server: TLA+ specifications

Specifications of the parts of the UwUMail server where mail can get lost, stay
behind or be sent twice: the blob store and its garbage collector, backups of a
running server, the outbound queue, submissions held for the undo window, the mail
store with the change log its IMAP and JMAP clients synchronise from, push,
fetching from other providers and moving mailboxes here.  TLC checks each module
on small instances; TLAPS proves, for every value of the constants, all of their
safety properties, that the submissions implement the undo window and the mail
store its change log, and that backups, IMAP clients and JMAP clients leave the
stores they read what they are.

Run from this directory:

    tlc -workers 2 -config BlobStore.cfg MCBlobStore     # any row of the runs below
    tlapm BlobStoreProofs.tla                            # any ...Proofs module

## 1. The system

One process, `uwumail-server`, holds everything.  All persistent state is in
`uwumail-store`: a SQLite database in WAL mode with one writer connection and
several readers, and a directory of files, one per message content.  Around it
run SMTP sessions (`uwumail-smtp`), IMAP sessions (`uwumail-imap`), JMAP and
web requests (`uwumail-jmap`, `uwumail-web`), and background tasks: the queue
worker, the hourly garbage collector, scheduled backups (`uwumail-backup`),
the submission scheduler, fetchers, reports.  They interact through the store,
through `Arc`-shared state (`inflight`, semaphores, locks) and through a
broadcast channel that wakes push connections after a commit.  A second
process may use the same data directory: the command line (`uwumail backup`).

| Component | State | Operations | What is hard | What makes it correct |
| --- | --- | --- | --- | --- |
| Blob store (`blobs.rs`, triggers) | files, `blobs` rows with `refs` and `created_at`, `blob_lock`, `blob_cleanup_paused` | `put_blob`, inserts and deletes in six referring tables, `collect_garbage`, `pause_blob_cleanup` | file and row are written in two steps beside a collector; dropped futures; crashes | what a row refers to exists; counts are exact; a write in flight is not refused |
| Backups (`uwumail-backup`) | repository of objects and manifests, the run's lists, mutex | `backup`, `prune`, `run_now` | reads a live store over minutes; two processes, one repository | a snapshot is complete and restorable and stays so |
| Outbound queue (`queue.rs`) | `queue_messages`, `queue_recipients`, `refused_deliveries` | `enqueue`, `claim_due_deliveries`, `mark_recipient_*`, `note_refused`, `complete_queue_message`, retry, delete | leases, several transactions per try | nobody is sent to twice, everybody is settled |
| Delivery worker (`outbound.rs`) | `inflight`, permits, tasks | `run_queue`, `deliver_group` | claims race running tasks; restarts in the middle | one task per recipient; failures and delays are told |
| Mail store (`mail.rs`, `mutate.rs`, `imap.rs`) | emails, threads, mailboxes, UIDs, modseqs, quota | `ingest`, `update_one`, `destroy_one`, `imap_take_out`, mailbox operations | batches under one modseq; several counters to keep in step | UIDs and modseqs never go back; quota holds |
| Change log (`db.rs`, `objects.rs`) | `changes`, `imap_vanished` | `record_change`, `changes`, `aggregate` | first change of a batch wins; paging | the log tells every object's fate |
| IMAP session (`uwumail-imap`) | selected mailbox, message numbers | SELECT/QRESYNC, IDLE, FETCH, STORE... | reads are not one transaction | a client ends up with the mailbox |
| JMAP methods (`uwumail-jmap`) | none between requests | `Foo/get`, `Foo/changes`, `Foo/set`, queries | the same, and requests of their own | a client ends up with the account |
| Submissions and undo (`held.rs`, `scheduled.rs`) | `email_submissions`, logins, the worker's batch | submit, hold, cancel, destroy, claim, hand over, finish | cancel and revocation race the claim; two effects and a record that are not one transaction; restarts | sent once, or stopped and not sent; the row says which |
| Push (`push.rs`, `ws.rs`, `webpush`) | broadcast channel, watchers, subscriptions, what is held back | notify, wait, report, bundle, merge, push | announcements overtake each other, go missing and outrun the channel | the newest state is told in the end, and never an older one |
| Fetching (`fetch.rs`) | `fetch_state`, `fetch_seen`, a run's copy of them | run a folder: new mail, the old mail that was asked for, delete at the provider | cut off between delivery, name, deletion and place; renumbered folders | nothing is lost or skipped; twice comes only what a cut or forgetting explains |
| Account moves (`moves.rs`, `migrate.rs`, `import/imap.rs`) | `moves`, `move_mailboxes`, `migration_jobs`, `import_progress`, turns | create, add, pause, retry, remove, finish, delete; take, copy, hand back | admin, person and turns change one row; time slices; restarts | one filler per mailbox; the last round goes through everything; it ends, and the passwords go |
| Greylisting and held mail | a table | hold, release, expire | repeated work after a crash | nothing is taken in twice or dropped |
| Rate limits, abuse | counters per window | check and count | check-then-act | the limit holds |
| Sharing, groups, ACL | rows | grant, revoke, list | what a sharee sees while rights change | no state goes back |
| Calendars, contacts, DAV | objects and the same log | put, delete, sync-collection | as the mail store | as the change log |
| Gateway and tunnel | connections | connect, relay | reconnects | no mail is accepted and lost |
| Security, OAuth, bayes, spam, TNEF, DKIM, DANE, MTA-STS, reports, labels, assistant, portal | | | cryptography, formats, scoring, HTTP | outside these models |

`PROJECT.json` lists all of them with their sources and status, and under
`hazards` the places in the code where a test would hardly reach, each with the
properties that watch it.

## 2. The modules

`BlobStore` is extended by `Backup`; `MailStore` by `ImapSync` and `JmapSync`;
`StateChanges` by `Watcher` and `WebPush`.  `Submission` implements the abstract
`UndoWindow`, `MailStore` the abstract `ChangeLog`.  `DeliveryQueue`, `Fetch` and
`Moves` stand alone: of the blob store the queue only needs to know that a
message's content may be missing (`ContentLost`).  `MC...` modules only add
constants' definitions and symmetry sets.  `...Proofs` modules hold theorems only:
`BlobStoreProofs` those of BlobStore and Backup, `MailStoreProofs` those of the
store, `SyncProofs` those of its two clients, `PushProofs` those of Watcher and
WebPush, the others those of the module they are named after.

### BlobStore

`files` is the directory, `rows`/`refs`/`createdAt` the table `blobs`, `owner`
the rows of the six referring tables, each holding one blob or nothing; one kind of
owner stands for all six, so that one table lacking a trigger would not show.  The
triggers are `AddRef` and `DropRef`, the foreign keys are the guard of `Refer`
and the action `ReferRefused`.  A task goes through `put_blob` in four steps:
`StartPut` (read side of `blob_lock`; tokio's lock is fair, so not behind a
waiting writer), `PutFile`, `Register` (the upsert; `created_at` is renewed only
for an unreferenced blob), and later its own transaction `Refer`.  `Cancel`
drops the task while its registering transaction is already on the blocking
pool: the lock is released, the transaction still runs (`RegisterDetached`).
`ReadExisting` is a task that refers again to a blob it did not store
(`hold_submission`, `note_refused`).  The collector is `GcStart` (looks at the
pause), `GcCollect` (one transaction under the write side), `GcDelete` per file
and `GcFail`.  `Crash` keeps files and database and loses the rest.

`fresh`, `storedAt` and `outlived` are history: whether and when a `put_blob`
set `created_at`, and which blobs ever had a registration that outlived its
task.

### Backup

Adds the backups.  A backup is `BackupStart` (the server's mutex and the pause;
the command line has its own, so its pause is invisible to the server's
collector), `ListObjects`, `SnapshotDatabase`, `UploadDatabase` (uploads the
copy, then lists the blobs of the *live* database), `UploadBlob`,
`WriteManifest`, `PruneRead`, `PruneSnapshot`, `PruneList`, `PruneObject`,
`BackupDone`; `BackupFails` ends it anywhere.  A database copy is known by the
blobs it refers to.  Which snapshots retention keeps is left open except that
the newest stays, which covers every calendar.  `raced` and `overlapped` are
history: whether a collection was under way when the backup paused it, and
which backups ran beside another one.

### DeliveryQueue

`status`, `due`, `heldLast`, `created`, `refused` are columns; `inflight` is
`Context.inflight`; a slot is a spawned `deliver_group`.  `Claim` reserves the
earliest due recipients for a lease, `Dispatch` hands one message's fresh
recipients to one task per domain, `Acquire` gets the permit, `Session` or
`ContentLost` yields an outcome per recipient (`HeldInside`, `DeliverDomain`,
`SmtpSession`: what the other server answers is nondeterministic), the `Mark...`
actions are the loop over the outcomes with one transaction each, `NoteRefused`
the separate transaction that lists a refusal, `Release` leaves `inflight`,
`Bounce` and `DelayNotice` tell the sender, `Complete` removes the message when
nobody is pending.  `Enqueue`, `RetryMessage`, `DeleteMessage` and `Crash` come at
any time.

Each write of a task may fail (`Fault`), and the task goes on as the code does, which
only logs it: a mark that fails leaves the row as it was, skips the note and counts
the outcome all the same (`UpdateFails`, `unwritten`), a note may fail by itself, and
a removal that fails is not tried again (`stuck`).  A bounce or a delay notice is
heard (`Heard`) or not (`Unheard`): there is no return path (`NoSender`), or building
or storing it failed; of a message whose content is lost nothing is sent at all.
`unreported` and `unnoticed` keep those apart from `reported` and `noticed`.

Messages and recipients stand for row ids.  Both tables have plain
`INTEGER PRIMARY KEY`s, so an id is handed out again as soon as no row has it or a
higher one; `mails` counts which mail an id stands for now.  `reported`, `noticed` and `lapsed` are history; a
recipient is lapsed once its next try came due while a claim or a task still
had it.

### MailStore

One account.  Transactions exclude each other, so `op` names the one that is open
and its items are steps of their own, all under one `batch` modseq taken at the
first actual change; readers act only while none is open (`Committed`).  A
transaction that is rolled back, or that a crash ends, did not happen, so neither
needs an action.  `Rehome` is the part of `update_one` that moves an email between
mailboxes: new UIDs, vanished UIDs (a trigger) and per-message modseqs; `Recorded`
is the `INSERT OR IGNORE` into `changes`; `Raised` is what `record_change` does to
`mailboxes.updated_modseq`.  `Update`, `StoreFlags` and `CopyIn` are the items of
an `apply_updates`, an IMAP STORE and an IMAP COPY or MOVE, `TakeOut` those of
EXPUNGE, `TakeFromMailbox` those of `destroy_mailbox`.  Email sizes are one, so
`used` counts emails.  Parents, roles, keywords other than `$seen`, sharing and
the queue of labels to learn are left out.

### ChangeLog

What the change log promises whoever reads it: a transaction shows as one change,
with the next modseq; it says something, and one thing of an object; what was said
stays; an object's first word is "created", and there is none after "destroyed".
`MailStore` implements it with the rows and the modseq that are committed for the
refinement mapping (`SeenLog`, `SeenModseq`, `LogKept`).  It does not promise that
"destroyed" is ever said; that is `EmailsLogged`, `ThreadsLogged` and
`MailboxesLogged`, with their exceptions.

### ImapSync

A client that keeps one mailbox and resynchronises with `SELECT (QRESYNC ...)`:
`Select`, `ListMessages` and `Answer` are the three reads the server makes
without a transaction, with commits in between.

### JmapSync

A client that keeps all objects of one kind: `AskChanges` reads the modseq,
`ReadLog` the log, `Get` is the client's own next request.  `Aggregate` is
`aggregate`: the log is folded one modseq at a time (`Folded`, `AddGroup`) until the
page is full (`PageFull`).  `early` is history:
objects the client got that were created after the state it was told.

### UndoWindow and Submission

`UndoWindow` says what holding a message back promises: it waits until it is
stopped, dropped or released; only a released one reaches anybody; what was
released cannot be stopped.  `Submission` is the code.  A JMAP request is `Open`
(the login is checked), `Check`, and then either `Hold` (a row with `held_blob`
and `send_at`) or `SubmitHere`, `SubmitAway`, `Record`; `GiveUp` ends it
anywhere.  The worker is `Claim` (marks what is due, at most `Batch`, and cancels
what an ended login no longer may send or whose message was lost), `SendHeld` or
`SendRefused`, `SendHere`, `SendAway` or `SendAwayFails`, `Finish` or `FinishFails`.
`fate` is what the loop of `submit_checked` did with the people a message is for:
some here got it, some were refused, some count as reached and get nothing, and an
internal-only sender is refused people elsewhere; those refused come back in a
`Bounce`, which may get lost, and the submission ends well unless nobody accepted it.
`Cancel`, `Destroy`, `Revoke`, `ChangePassword`, `SetPassword`, `BecomeService`,
`Disable`, `Enable` and `Crash` come at any time.  Ids of logins are never used again
(`0048_logins_and_ids.sql`).  `cuts`, `ended`, `late` and `serviced` are history.  The refinement maps a submission to `"going"`
from the claim, or from the check of a request that sends at once, until its row
is finished, and counts the copies people here and the queue got.

### Fetch

One fetch account, one folder.  The provider (`Arrive`, `Renumber`) is external.
A run is `Start` (select, the saved place, the search), one step per message
(`NewMissing`, `NewLeft`, `NewKnown`, `NewKept`, `NewRefused`, `NewLater`), with
`MarkNew` (the name is remembered) and `FlagNew` (deleted at the provider) as
steps of their own, `EndNew`; then the old mail when it was asked for: `SearchOld`,
`NextChunk`, `OldLeft`, `OldKnown`, `OldBrought`, `OldFull`, `MarkOld`, `FlagOld`,
`SaveChunk`, `EndOld`; `Save` writes the place and `Finish` the request.  `CutOff`
ends a run anywhere, and only what was written stays; while old mail is taken it
may still expunge, as `take_backlog` does before it returns its error.  `Ask` stamps a
request with the second it comes in, which may be the second of the one before.  After
a renumbering (`Renumbered`) the place starts over and a request that was half done is
over at once.  `Forget` is `prune_fetch_seen`: a name is forgotten, whatever the
provider still has.  `unmarked` and `forgotten` count, per name, the cuts before it
was remembered and the times it was forgotten.  The server expunges without naming
UIDs, so what another mail program marked as deleted in that folder goes too; no other
program is modelled.

### StateChanges, Watcher, WebPush

`Commit` raises the modseq, `Notify` announces it later, outside the writer's
lock, in any order; `DropRequest` is a request dropped in between, and
`CancelHeldCommits` a change of submissions by `cancel_held`, whose modseq none of its
callers announces.  `silent` are the changes nobody will announce.  The channel
keeps its last `Capacity` announcements of all accounts.

`Watcher` is an EventSource or WebSocket connection: `Receive` takes the next
announcement, `Lag` finds that some are gone and `ReadCurrent` then reads the
newest modseq, `Report` tells the kinds changed since `last`; `Cancel` drops the
wait (a ping, an alert, a message over the socket), `OpenedBlind`, `EnableBlind`,
`EnableFails`, `ReadCurrentFails` and `ReportFails` are failing reads.  A blind one
takes the account's modseq for 0; `before` is what `last_modseq` was until then.

`WebPush` is the task behind push subscriptions: `Hear` bundles, `Flush` pushes or
holds back what is due within the interval and merges it, `Release` sends what was
held; `Delivered`, `Failed` and `Gone` are the answers of the push service, in any
order, and `NoteFails` an answer that could not be written down; `HearLag`,
`FlushFails`, `ReleaseFails`, `Restart` are where changes are given up (`missed`).

### Moves

An admin's move (`move`), its rows (`state`, `password`, `final`) and the person's
own job (`job`, idle whenever it is neither queued nor running).  The admin's operations are `CreateMove`, `AddMailbox`,
`PauseMove`, `ResumeMove`, `RetryMailbox`, `PauseMailbox`, `RemoveMailbox`,
`FinishMove`, `FinishSkipping`, `DeleteMove`, `Trash`, `Restore`, each one
transaction with its `Settle`.  `DeleteAccount` takes the account's rows with it
(`ON DELETE CASCADE`) and settles nothing; `NewAccount` is another account in its
place.  A turn is `Take`, `Begin` or `BeginNot`, then
`Portion`s until `Finished`, `OutOfTime`, `Breaks` or `LeftForNext` (a folder that
was renumbered under it), and `FinishTurn`, which may fail (`FinishTurnFails`).
The person's worker is `TakeJob`, `FinishJob`, `FinishJobFails`.  `Stop` and
`Crash` restart the server, `RecoverMoves` and `RecoverJobs` are what the workers
do first; how often a row was cut off in a row is not counted, so any of them may
be paused.  Row ids are used again, and a mailbox stands for its row: a turn of a
removed row works on the next one.  `handled` counts the old mails a copy has gone
through: a `Portion` stores a mail or leaves it out (too large, unreadable, marked as
deleted, not answered), and moves the place past it either way.  `owed`, `through`,
`loose`, `jobLoose`, `orphaned` and `reused` are history.

## 3. What is checked

Twelve runs.  States are TLC's distinct states.

| Run | States | Checks |
| --- | --- | --- |
| `BlobStore` | 1.05 M | `RefsExact`, `ReferencedOnDisk`, `FreshInFlightKept` with droppable tasks, pauses and crashes |
| `Backup` | 1.12 M | `LoneSnapshotsComplete`, `UnracedCopyReadable` with one backup of the server and one of the command line |
| `BackupLive` | 203 k | `CollectorNotKept` |
| `Queue` | 1.32 M | `OneTaskPerRecipient`, `WorksOnPending`, `RefusedListed`, `HoldTold` |
| `QueueLive` | 183 k | `EverySettled`, `SettledMessagesGo`, `SenderTold` |
| `ImapSync` | 2.09 M | `EmailsLogged`, `ThreadsLogged`, `MailboxesLogged`, `UidsFresh` of the store, and `LogKept`: the refinement of `ChangeLog`; `ImapCatchesUp`, `UnchangedStateIsCurrent` of the client |
| `JmapSync` | 158 k | `JmapCatchesUp`, `JmapReachesState` |
| `Submission` | 365 k | `HandedOnce`, `RecordTrue`, `EndedNotReleased`, `HeldSettles`, and `WindowKept`: the refinement of `UndoWindow` |
| `Fetch` | 419 k | `DeletedDealt`, `NothingSkipped`, `BroughtOnce`, `BacklogComplete`, `FolderMovesOn` |
| `Moves` | 299 k | `LastRoundComplete`, `DoneIsOver`, `OneFiller`, `MoveEnds` |
| `Watcher` | 1.18 M | `WatcherTold`, `NeverToldBack` |
| `WebPush` | 1.27 M | `ChangesPushed`, `NothingHeldForever` |

`PROJECT.json` holds, for every property, a mutated definition under which TLC
finds it violated; the mutants stand in the modules, before the definitions they
replace.  Each module states its type invariant; all of them are proved, and so
they are in no run.

### Bounds, and why they are enough

* *BlobStore*: two blobs (one is held while the other is collected), two tasks
  (two `put_blob`s of one content at once), three owners of which one expires,
  `MinAge = 1`, clock up to 2 (one step below, at and above the age), one pause.
  The hazards are races of two tasks and one collector over one blob.
* *Backup*: one blob that may be referred to by two owners, one task, one backup
  of each process and two runs in total; each backup copies, uploads and prunes
  beside the other.  *BackupLive* has two tasks, so that readers can relay the
  lock, and one backup that may be run twice.
* *Queue*: two messages with a recipient each, two tasks and one permit (a task
  waits while the other's lease runs out), a lease of one tick, one operation by an
  admin, one restart or failed write; one message has no return path.  Recipients of one message in two domains, whose tasks
  share the message, are in *QueueLive*.  `Horizon` caps `next_attempt_at`: with
  `Horizon > MaxTime` a capped time is still in the future; *QueueLive* sets
  `Horizon = MaxTime`, so that what is put off past the end of the clock comes
  due again and the run does not end with everybody waiting.
* *ImapSync*: three emails, two threads, two mailboxes of which one is made on the
  way, five modseqs, batches of two, a quota of two: the shortest batch with two
  changes of one object, two emails of one thread, or an email that leaves one of
  its two mailboxes, and a client that reads beside it.  *JmapSync* has two emails
  and one mailbox, follows emails and mixes unlimited answers with pages of one
  object.
* *Submission*: one submission for people here and elsewhere under a web login and
  one for people elsewhere under an OAuth grant, a claim of one at a time (so the
  limit is met), held or sent at once, one restart, failed write or lost message; four
  outcomes: nobody is here, everybody here gets it, some are refused and others only
  count as reached, and everybody is refused, here and elsewhere.
* *Fetch*: three mails, two of them too large to bring, portions of two, two requests
  for the old mail (one while a run works on the other, also in the same second), one
  name forgotten and one fault (a cut, a refusal to hand out, a renumbering).
* *Moves*: one mailbox with a row in the move and a job of its own, two turns (a
  turn that was stopped and the one after it), one mail at the old server, one
  fault.  The properties are about one mailbox; several only meet in `Settle` and
  in the limit of running rows.
* *Watcher* and *WebPush*: two kinds, three changes of all accounts together, any of
  which may be a cancelled submission nobody announces, a channel of one announcement
  (so that two are a lag), one fault; two failed pushes end a subscription.

The clocks, counters and id spaces are bounded in the guards of `Tick`,
`Enqueue`, `RetryMessage`, `Crash`, `BackupStart`, `PauseCleanup`, `Ingest`,
`TakeModseq`, `Rehome`, `CreateMailbox`, `Hold`, `Arrive`, `Ask`, `Commit` and
`Fault`; the constants that bound them say so.  Deadlock is checked except in
*Submission* and *WebPush*, which stop when every request is over and the clock
or the number of changes has reached its bound.

### Fairness

* `DeliveryQueue!FairSpec`: weak fairness of the worker (it wakes on every
  enqueue and at least once a minute), strong fairness of each task's steps (the
  session has timeouts, the semaphore is fair, so a waiting task gets a permit
  that is free again and again) and weak fairness of the clock.  No fairness of
  senders, admins or crashes.
* `Backup!BFairSpec`: weak fairness of a backup's steps, of `put_blob` once it
  holds the lock, and of the collector once it asked for the lock: each of their
  awaits returns, with an answer or an error.  The collector need not start.
  That it gets the lock follows from the lock's order (`StartPut`), not from
  fairness: with a lock that lets readers overtake, `CollectorNotKept` fails.
* `JmapSync!JFairSpec`: a transaction that is open ends, and a client that keeps
  asking is served.  The second is strong fairness because a reader acts only
  between transactions in the model, while WAL readers never wait for writers.

* `Submission!FairSpec`: weak fairness of the worker (it looks every few seconds,
  and every step of handing over returns or fails) and of the clock.  Requests,
  logins and crashes have none.
* `Fetch!FairSpec`: weak fairness of a run's steps (commands have deadlines, the
  schedule starts runs again) and strong fairness of the clock that ends a hold,
  which in the model moves only between runs, when a hold is there.
* `WebPush!WebPushFairSpec`: weak fairness of the task and of the end of its
  interval, a timer.
* `Moves!FairSpec`: weak fairness of the worker, which looks every five seconds, and
  of each turn, all of whose waits have a deadline.  Admins, people, the due time of
  the next round and restarts have none.

### Where the code departs, and the exceptions the properties name

Where the code does not keep a promise in some corner, the property says exactly
where it stops, and everything else is checked.

* A `put_blob` that is dropped while its registration waits for the writer lets
  the collector in between file and row: a row without a file
  (`ReferencedOnDisk`, `outlived`).  `Store::write` runs its closure on the
  blocking pool, which outlives the future (`lib.rs:435-451`).
* A blob stored again while an old row still refers to it keeps its old
  `created_at`; if that reference goes, the collector may take the blob before
  the new reference is written.  The foreign key then refuses the write
  (`FreshInFlightKept` speaks of blobs that were made fresh).
* A collection that already looked at the pause is not stopped by a backup, and a
  backup of the command line pauses nobody (`UnracedCopyReadable`).
* A recipient that comes due while a task has it (an admin's retry, a lease that
  ran out, a reused id) can be claimed into a batch, stay there until the task
  has settled it, and then be sent to again (`WorksOnPending`, `lapsed`).
* A crash after a failure is written down loses its bounce; a crash before
  `complete_queue_message` leaves a settled message in the queue, and so does a
  removal that fails, which is only logged (`outbound.rs:213-215`) and not tried again
  (`SenderTold`, `SettledMessagesGo`, `HoldTold`; `stuck`).
* Of a message whose content is lost no bounce and no delay notice is sent
  (`outbound.rs:196`, `199`), and one that cannot be built or stored is only logged
  (`dsn.rs:68-74`, `93-95`): the sender hears nothing (`SenderTold`, `HoldTold`;
  `unreported`, `unnoticed`).
* A refusal is not listed when the message was removed between the mark and the
  note, and the id it had may be another mail's by then; nor when the mark fails,
  which skips the note (`queue.rs:279`, `outbound.rs:184-186`): the recipient is
  bounced all the same and tried again later (`RefusedListed`, `unwritten`).  A
  second delay notice is possible after another temporary error in between; no
  property excludes it.
* A thread that goes with several of its emails in one batch is last said to be
  "updated": the first row of a modseq wins (`ThreadsLogged`).  The same happens
  to a mailbox destroyed together with emails (`MailboxesLogged`).
* A JMAP client may be given an object under a state older than the object; if it
  is then destroyed before the next `/changes`, the log's "created, then
  destroyed" cancels out and the client keeps it (`JmapCatchesUp`, `early`).

* A submission is handed over before that is recorded: a restart or a failed write
  in between hands it over again (`HandedOnce`, `cuts`); and when people here have
  their copy and the queue cannot be written, the row says it failed
  (`RecordTrue`).
* A submission ends without an error although people here were refused it
  (`submission.rs:435-567`); "Failed local deliveries are bounced to the sender"
  (`submission.rs:178`), which `RecordTrue` asks for, holds unless storing the bounce
  fails (`notice`).  A forward that may not leave and a group a message went through
  before count as reached and are in no bounce.
* `become_service` ends passwords and sessions and leaves what they hold
  (`admin.rs:41-96`); the claim does not look those up, so it is sent, against "when
  that credential is revoked the message stays unsent" (`held.rs:41`;
  `EndedNotReleased`, `serviced`).  What an OAuth grant held is stopped at the claim.
* What was held by a request that was checked before its login ended and wrote its
  row after is cancelled by nobody.  At the claim app passwords and grants are
  looked up again, passwords and sessions are not (`EndedNotReleased`, `late`).
* A message fetched and not yet remembered when the run is cut off comes again
  (`BroughtOnce`, `unmarked`).  So does one that is still at the provider when its
  name is forgotten after thirty days (`fetch.rs:1261`) and the folder is renumbered,
  though "the remembered message names keep the old ones from coming back" (server
  `fetch.rs:293-294`; `forgotten`).
* A renumbered folder starts over with nothing left of a request that was half done
  (server `fetch.rs:295`): the request ends, and the rest comes as new mail
  (`BacklogComplete`, `StillNew`).
* A watcher whose wait is cancelled after it noticed a lag and before it read the
  newest modseq does not tell what it skipped until the next change, though
  `push.rs:219` says "Safe to cancel: nothing is lost when it is"
  (`WatcherTold`, `skipped`).  Failed reads lose their report (`failed`), and a
  request dropped between commit and announcement announces nothing; neither does
  `cancel_held`, whose modseq its callers drop (`admin.rs:391`, `425`, `557`;
  `directory.rs:873`, `893`; `security.rs:703`, `1034`; `oauth.rs:1050`), so that a
  client learns of a stopped submission with the next change (`silent`; also
  `ChangesPushed`).
* A read that fails when push is switched on sets `last_modseq` to 0 (`ws.rs:171`), and
  an announcement that was overtaken is then told after a newer one
  (`NeverToldBack`, `before`).
* `merge` takes the later announcement for the newer state.  When announcements
  overtake each other a held push may name a state older than the change
  (`ChangesPushed`, `Overtaken`).  Lags, failed reads and pushes, the wait after a
  failure and restarts give changes up (`missed`).  How a push went may fail to be
  written down, which is only logged (`webpush/mod.rs:329`): a subscription that is
  gone is then pushed to again (`NoteFails`).
* A folder that the old server renumbers between looking and copying counts as
  finished; in the last round nothing starts it over (`LastRoundComplete`, the
  phase `"left"`).  A turn of a row that was removed or whose move was deleted works on
  with its id, which the next row may get (`reused`).
* A copy leaves mail out and moves its place past it: too large or unreadable, which
  it notes, marked as deleted or not answered, which it does not
  (`import/imap.rs:1095-1153`, `1297-1299`; `docs/moving.md:48-50`, `73-74`).
  `LastRoundComplete` says that everything was gone through, stored or left out.
* After an admin pauses and retries a mailbox while its turn runs, a second turn
  starts beside it, and each hands the row back from under the other, though
  `moves.rs:535` says "two workers never fill one mailbox" (`OneFiller`, `loose`).
  The same goes for a job of the person's own that was stopped or deleted and still
  runs, against `migration_jobs.rs:168-169` (`jobLoose`).
* When `finish_move_turn` cannot write, the row stays running without a turn until
  the next start (`MoveEnds`, `Stranded`).
* Deleting the account of the last open mailbox of a move that is finishing takes the
  row (`directory.rs:821-848`, `0067_m_moves.sql:39`) and settles nothing, unlike the
  trash and `remove_move_mailbox`: the move stays finishing (`MoveEnds`, `orphaned`).

Four departures contradict what the repository says of itself and are no exception
of any property; TLC found each of them.

1. *A snapshot's blob list is newer than its database*
   (`uwumail-backup/src/lib.rs:303`).  `backup` copies the database and then lists
   the blobs of the live one.  An email destroyed in between is in the copy, its
   blob is in no list, against "Every snapshot stays complete on its own."
   (`docs/backups.md:24`).  The module keeps both (`copy`, `listed`); the
   invariant "what the copy refers to is listed" does not hold.
2. *Two processes prune each other's objects* (`service.rs:491`).  The mutex is the
   process's; a backup from the command line removes objects the server's backup
   has uploaded, or found and skipped, and will name in its manifest.
   `LoneSnapshotsComplete` without `overlapped` does not hold.
3. *Ids are used again* (`0001_initial.sql:158`).  An admin deletes the newest
   message while it is being delivered; the next message gets its ids and the old
   task marks its recipients delivered: mail that is never sent, against "Adds a
   message for delivery to remote recipients" (`queue.rs:188`).
4. *A destroyed mailbox is never said to be destroyed* (`mutate.rs:525`).
   `destroy_one` has recorded the mailbox as "updated" at the same modseq, and the
   "destroyed" that follows is ignored: a JMAP client learns of it only when its next
   `/get` does not find the mailbox, against "Every write bumps the account's `modseq` and
   records `(kind, id, created|updated|destroyed)`" (`docs/architecture.md:35`).
   `MailboxesLogged` excepts exactly this, and `JmapCatchesUp` allows for it.

## 4. What is proved

For every value of the constants, from the named `ASSUME`s of the modules only.
Of them the proofs use that owners and mails are finite where they are
counted, that the "none" values are no members, that ages, leases, delays, limits
and bounds are naturals (positive where the module says so), that every recipient
has a message and every submission a login and people it is for, and that the IMAP
client's mailbox is one of the default ones.

| Theorem | States |
| --- | --- |
| `BlobStoreProofs!TypeCorrect` | `Spec => []TypeOK` |
| `BlobStoreProofs!RefCountsExact` | `Spec => []RefsExact` |
| `BlobStoreProofs!ReferencesRegistered` | `Spec => []ReferencedRegistered` |
| `BlobStoreProofs!LockKeepsFiles` | `Spec => []OnDiskInv` |
| `BlobStoreProofs!ReferencedMailIsOnDisk` | `Spec => []ReferencedOnDisk` |
| `BlobStoreProofs!FreshBlobsKept` | `Spec => []FreshInFlightKept` |
| `BlobStoreProofs!BackupImplementsStore` | `BSpec => Spec`: the store beside backups is the store |
| `BlobStoreProofs!BackupTypeCorrect` | `BSpec => []BTypeOK` |
| `BlobStoreProofs!PauseKeepsCopyReadable` | `BSpec => []UnracedCopyReadable` |
| `BlobStoreProofs!LoneSnapshotsStayComplete` | `BSpec => []LoneSnapshotsComplete` |
| `DeliveryQueueProofs!TypeCorrect` | `Spec => []TypeOK` |
| `DeliveryQueueProofs!NoTwoTasks` | `Spec => []OneTaskPerRecipient` |
| `DeliveryQueueProofs!InflightIsExact` | `Spec => []InflightExact` |
| `DeliveryQueueProofs!SettledNotSentAgain` | `Horizon > MaxTime` implies `Spec => []WorksOnPending` |
| `DeliveryQueueProofs!BouncesAreListed` | `Spec => []RefusedListed` |
| `DeliveryQueueProofs!HoldsAreTold` | `Spec => []HoldTold` |
| `SubmissionProofs!SubmissionTypes` | `Spec => []TypeOK` |
| `SubmissionProofs!SubmissionHandedOnce` | `Spec => []HandedOnce` |
| `SubmissionProofs!SubmissionRecordTrue` | `Spec => []RecordTrue` |
| `SubmissionProofs!SubmissionEndedNotReleased` | `Spec => EndedNotReleased` |
| `SubmissionProofs!SubmissionWindowKept` | `Spec => WindowKept`, that is `Spec => Window!Spec` |
| `MailStoreProofs!StoreTypeCorrect` | `Spec => []TypeOK` |
| `MailStoreProofs!EmailsAreLogged` | `Spec => []EmailsLogged` |
| `MailStoreProofs!ThreadsAreLogged` | `Spec => []ThreadsLogged` |
| `MailStoreProofs!MailboxesAreLogged` | `Spec => []MailboxesLogged` |
| `MailStoreProofs!UidsNeverReused` | `Spec => UidsFresh` |
| `MailStoreProofs!StoreKeepsLog` | `Spec => LogKept`, that is `Spec => Readers!Spec` |
| `SyncProofs!ImapImplementsStore` | `ISpec => Spec`: the store beside a client is the store |
| `SyncProofs!ImapTypeCorrect` | `ISpec => []ITypeOK` |
| `SyncProofs!ImapAlwaysCatchesUp` | `ISpec => []ImapCatchesUp` |
| `SyncProofs!UnchangedStateNeedsNoAnswer` | `ISpec => []UnchangedStateIsCurrent` |
| `SyncProofs!JmapImplementsStore` | `JSpec => Spec`: the same for a JMAP client |
| `SyncProofs!JmapTypeCorrect` | `JSpec => []JTypeOK` |
| `SyncProofs!AggregateSumsUp` | an answer's state, and what it says of every object by the rows up to that state |
| `SyncProofs!JmapAlwaysCatchesUp` | `JSpec => []JmapCatchesUp` |
| `FetchProofs!FetchTypeCorrect` | `Spec => []TypeOK` |
| `FetchProofs!FetchDeletesDealtOnly` | `Spec => []DeletedDealt` |
| `FetchProofs!FetchSkipsNothing` | `Spec => []NothingSkipped` |
| `FetchProofs!FetchBringsOnce` | `Spec => []BroughtOnce` |
| `FetchProofs!FetchBacklogComplete` | `Spec => BacklogComplete` |
| `MovesProofs!MovesTypeCorrect` | `Spec => []TypeOK` |
| `MovesProofs!MovesOneFiller` | `Spec => []OneFiller` |
| `MovesProofs!MovesDoneIsOver` | `Spec => []DoneIsOver` |
| `MovesProofs!MovesLastRoundComplete` | `Spec => []LastRoundComplete` |
| `PushProofs!WatcherTypeCorrect` | `WatcherSpec => []WatcherTypeOK` |
| `PushProofs!WatcherToldAll` | `WatcherSpec => []WatcherTold` |
| `PushProofs!WatcherNeverToldBack` | `WatcherSpec => NeverToldBack` |
| `PushProofs!WebPushTypeCorrect` | `WebPushSpec => [](WebPushTypeOK /\ Strikes)` |
| `PushProofs!WebPushChangesPushed` | `WebPushSpec => []ChangesPushed` |

Each of them rests on an inductive invariant of its module (`Spec => []CountInv`,
`TaskInv`, `SubInv`, `StoreInv`, `StoryInv`, `ClientInv`, `JmapInv`, `FetchInv`,
`MovesInv`, `WatcherInv`, `WebPushInv`, `BackupInv`), a conjunction of named
parts:

* *Counts* (`CountInv`): types, exact counts and registered references are
  inductive together, with the fact that a task inside `put_blob` has a blob.
  Counts alone are not: the collector deletes rows with `refs <= 0`, and that no
  row refers to those is exactness.  The lemmas `AddRefCounts`, `DropRefCounts`
  and `ExpiryCounts` are what the triggers do to a cardinality.
* *Files* (`OnDiskInv`): every registered blob has a file or had a registration
  that outlived its task; a task about to register has its file in place; and
  while the collector deletes, nobody is inside `put_blob` and none of its files
  is registered again.  The last two are what `blob_lock` is for.
* *Age* (`FreshInv`): what a fresh `put_blob` still waits for is registered with
  a `created_at` no older than the moment it was stored, or its time is over.
* *Backups* (`BackupInv`, on top of `CountInv` and `OnDiskInv`, which hold beside
  backups by the refinement): the phases and lists of a run fit together
  (`RunsConsistent`), a pause that no collection raced keeps the collector from
  the copy's blobs (`PauseKeeps`), and a run that is alone knows every object a
  kept snapshot needs before it prunes (`LoneKnows`, `PruneSpares`).
  `LoneSnapshotsComplete` is not inductive without them: the step that breaks it,
  `PruneObject`, looks at none of the snapshots.
* *Tasks* (`TaskInv`): `inflight` is exact, tasks have disjoint groups, and a
  task's outcomes are of its own group.  Disjointness needs exactness (`Fresh`
  asks `inflight`), exactness needs disjointness (`Release` removes a whole
  group).
* *Reservations* (`ReservedInv`): what a claim or a task has, and is not lapsed,
  is pending or deleted and due in the future, and no recipient that is not
  lapsed is both in the batch and with a task.  It needs `Horizon > MaxTime`:
  otherwise the cap would make a lease end at once, which is no behaviour of the
  code.
* *Notices* (`ListedInv`, `HoldInv`): a task's failures are listed, or it has yet
  to list them, for the mail the task was started with, or could not write them down;
  and a recipient that wants to hear of delays and is on hold was told, could not be
  told, or is among what a task still tells.
* *Submissions* (`SubInv`): what a row, its request and the worker may say together
  (`RowsConsistent`, `WorkerConsistent`), whom the message can have reached at each
  point (`SentSoFar`), and which submissions still wait although their login ended
  (`EndedKnown`).  `HandedOnce` and `RecordTrue` are not inductive without
  `SentSoFar`: that `Finish` may clear the row needs that both effects happened.
  It says of each phase what `fate` and `notice` are by then (`RequestSent`,
  `WorkerSent`), for who was refused is decided before and told after the queue is
  written.  The refinement is one lemma, `MoveStep`: every action moves every submission
  along `UndoWindow`'s stages or leaves it, and adds a copy only to one that is
  going.
* *The store* (`StoreInv`): the memberships have UIDs of their own below
  `uid_next`, apart from what vanished (`Uids`); a mailbox's modseq covers its
  memberships and what vanished from it, unless it is being destroyed (`Tops`);
  what the log says of emails, threads and mailboxes, also while a transaction is
  open (`EmailsTold`, `ThreadsTold`, `BoxesTold`).  The log's parts are not
  inductive: because the first row of a modseq wins, one has to know what the open
  batch has said already (`EmailTurns`, `ThreadTurns`, `BoxTurns`).  The proof
  sorts the fifteen actions into ten effects (`NextCases`) and shows for each
  whether the log has news of an object or says the same (`News`, `Same`).
* *The log's stories* (`StoryInv`, on top of `StoreInv`): the log speaks of no object
  that is yet to come, has said of every other that it was created, before anything
  else, and says that it was destroyed after everything else (`Stories`); and a batch
  that has its modseq has said something, unless it is emptying a mailbox (`Spoken`),
  which is why a commit is never an empty change.  Every action writes at the modseq
  after the one readers see and only what is due (`Publishes`, `Narrates`, `Due`);
  `PublishedNext` is the refinement's step.
* *The IMAP client* (`ClientInv`): every message in the copy is the mailbox's, or
  the server has news of its UID since the client's state (`Fresh`); what was
  listed is true or has changed since the modseq was read (`Listed`); and no
  modseq the client knows is one that is being written (`Behind`).  A step of the
  store is a `Moved(n)` with an `n` the client has not been told; `AnswerFresh` is
  the step in which the order of the reads matters.
* *The JMAP client* (`JmapInv`): the log says of no living object that it was
  destroyed, and begins with its creation (`Fates`); what the client lacks, and
  what differs in its copy, has a row after its state (`Complete`, `Current`); what
  it has and is gone has a "destroyed" after its state, or it got it too early
  (`Mortal`); an answer that is out names what has a row up to its state, except what
  was made and destroyed meanwhile (`Answered`);
  and no modseq the client knows is one that is being written (`JmapBehind`).  What
  the fold computes is compared with `Summary`, which says it with quantifiers over
  the rows, by the least modseq at which the two would differ (`LeastNumber`,
  `FoldStep`, `FoldedRight`): of a log that is cut into pages each page has the rows
  up to the state it hands out, no fewer and no more.  A step of the store is a
  `Tells(n)`: it adds rows at an `n` the client has not been told, one for each object
  that appears, goes or changes.  `GetKeeps` is the step for which `early` is needed.
  TLC checked `JmapInv` for emails, threads and mailboxes; the run follows emails.
* *Fetching* (`FetchInv`): what the saved row says is true of the folder while its
  UID validity is (`RowsTrue`, `RowsThrough`), what a run has passed is dealt with
  (`NewTaken`, `OldTaken`), and copies are counted against names remembered, cuts and
  names forgotten (`BroughtCounted`).  What a row says of a request is true for its
  stamp, whichever of the requests of that second it belongs to: every request of a
  folder asks for all mail up to where new mail begins.
* *Moves* (`MovesInv`): which turn may stand behind a running row (`RowsOfTurns`,
  `TurnsConsistent`, `JobsApart`), what the move's state says of its rows
  (`RowsOfMove`), that an account that is gone has no row and is owed nothing
  (`GoneAccounts`), and how far copies have come in a last round (`MailOrder`,
  `LastRounds`, `Through`).
* *Push* (`WatcherInv`, `WebPushInv`): every change is told, on its way to the
  watcher, or lost for a named reason (`ToldUpTo`, `ThroughTold`, `Awaited`), and
  nothing told is newer than what the watcher has gone through, or had before a failed
  read; the
  same with bundles and held pushes in between (`BundleLater`, `Tracked`,
  `Carried`).

Two of the proofs failed first because a definition was wrong, and the definition
was corrected: `WebPush!Failed` counted the failed pushes of a subscription that is
gone, which `push_failed` does not (`push.rs:482-495`); and `RefusedListed` did not
except a message whose id another mail has by now, a case that needs two mails in
one id and so was outside the run's bounds.

Only model-checked: everything with fairness (`CollectorNotKept`, `EverySettled`,
`SettledMessagesGo`, `SenderTold`, `JmapReachesState`, `HeldSettles`,
`FolderMovesOn`, `NothingHeldForever`, `MoveEnds`), which is out of this prover's
reach.

## 5. What is not modelled

* What the file system and SQLite keep after a power loss: a crash here ends the
  process, and what was committed or renamed is there.
* Whether a remote server accepted mail before the connection broke; the queue
  counts it as deferred, as the code does.
* Routing, TLS, DANE, DKIM, message composition, parsing, search, scoring, HTTP, the
  portal, the assistant, calendars' recurrence: formats, numbers and single
  transactions without an order to get wrong.  They are most of the code's lines.
* In modelled components: restoring and checking snapshots, encryption and
  chunking; `resend_refused` and `clear_refused_deliveries`; mailbox parents,
  roles, sharing and `UNCHANGEDSINCE` as such (a refused update is one that does
  not happen); what other mail programs mark as deleted at a provider; the list of
  what a move left out; the IMAP session's message numbers and IDLE; JMAP's
  `queryChanges`; fetch accounts' sign-in and schedule and the variant that only
  marks mail as read; calendar alerts and shared accounts in push; a move's
  contacts and calendars, its accounts and aliases, several folders, moves or jobs
  at once, and its settings.

## 6. Plan

Done: BlobStore, Backup, DeliveryQueue, MailStore, ChangeLog, ImapSync, JmapSync,
UndoWindow, Submission, Fetch, StateChanges, Watcher, WebPush, Moves, and the
proofs of all of them.  Next, in this order:

1. An abstract `Delivery` (a recipient is waiting, then delivered, failed or
   withdrawn, and its sender is told) that `DeliveryQueue` implements under a
   refinement mapping, and an abstract `Storage` (a row's content can be read)
   for `BlobStore`.
2. `resend_refused` and `clear_refused_deliveries` in `DeliveryQueue`; `restore`
   and `check` in `Backup`.
3. Greylisting's held mail, the limiter, OAuth's rotation of refresh tokens.
4. The IMAP session's message numbers with IDLE and expunges, and sharing, on top
   of `MailStore`.
