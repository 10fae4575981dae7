------------------------------- MODULE Moves -------------------------------
(***************************************************************************)
(* Moving mailboxes here from another server.                              *)
(*                                                                         *)
(* An admin's move has a row per mailbox.  A worker takes queued rows, and *)
(* a turn copies what is new at the old server, portion by portion, and    *)
(* hands the row back: queued when its time was up, synced when everything *)
(* is here, paused with a reason.  When the admin finishes the move every  *)
(* mailbox gets one last round, after which its password is wiped.  A      *)
(* person may also move mail into their own mailbox, which is a job with a *)
(* worker of its own; the two are not to fill one mailbox at a time.       *)
(*                                                                         *)
(* Every operation of the store is one transaction; turns, admins, the     *)
(* person, the old server and restarts come in any order between them.     *)
(* A mailbox here stands for its account and for the row it has in the     *)
(* move; ids are used again.  An old mailbox is one folder, its mail       *)
(* numbered in the order it arrived.                                       *)
(***************************************************************************)
EXTENDS Integers, FiniteSets

CONSTANTS
  Boxes,          \* the mailboxes
  Movers,         \* those whose people may move mail themselves
  Turns,          \* MAX_TURNS turns at a time
  NoBox,
  Parallel,       \* moves.parallel
  MaxMail,        \* bound: mails at an old server
  MaxFaults       \* bound: restarts, failed writes, hanging servers

ASSUME BoxesAssumption == NoBox \notin Boxes /\ Movers \subseteq Boxes
ASSUME LimitsAssumption ==
  /\ Parallel \in Nat \ {0}
  /\ MaxMail \in Nat
  /\ MaxFaults \in Nat

VARIABLES
  move,         \* moves.state; "none" without a move
  state,        \* move_mailboxes.state; "none" without a row
  password,     \* rows that still have a password
  final,        \* rows with final_round
  job,          \* migration_jobs.state of the person's own move; "idle" without one that
                \* is queued or running
  trashed,      \* accounts in the trash
  gone,         \* accounts that are deleted
  place,        \* import_progress: the last mail taken over
  box,          \* the mailbox each turn works on
  last,         \* turns that began as a last round
  phase,        \* where each turn is
  pos,          \* how far each turn got
  goal,         \* how far it goes: what was there when it looked
  advanced,     \* turns that took over a portion
  jobRun,       \* the mailbox the person's worker is on
  starting,     \* the workers that have not looked for interrupted rows yet
  old,          \* how many mails arrived at each old mailbox
  handled,      \* how many of them a copy stored here or left out
  owed,         \* how many there were when the admin finished the move
  through,      \* mailboxes finished by a last round
  loose,        \* turns whose row was taken from them while they ran
  jobLoose,     \* the same of the person's worker
  reused,       \* rows made while a turn still had their id
  orphaned,     \* whether a finishing move lost its last open row with an account
  faults

moveVars == <<move, state, password, final>>
accountVars == <<trashed, gone>>
turnVars == <<box, last, phase, pos, goal, advanced>>
mailVars == <<place, old, handled>>
ghostVars == <<owed, through, loose, jobLoose, reused, orphaned>>
vars == <<moveVars, job, accountVars, turnVars, jobRun, starting, mailVars, ghostVars, faults>>

Init ==
  /\ move = "none"
  /\ state = [b \in Boxes |-> "none"]
  /\ password = {} /\ final = {}
  /\ job = [b \in Boxes |-> "idle"]
  /\ trashed = {} /\ gone = {}
  /\ place = [b \in Boxes |-> 0]
  /\ box = [t \in Turns |-> NoBox]
  /\ last = {}
  /\ phase = [t \in Turns |-> "free"]
  /\ pos = [t \in Turns |-> 0]
  /\ goal = [t \in Turns |-> 0]
  /\ advanced = {}
  /\ jobRun = NoBox
  /\ starting = {"moves", "jobs"}
  /\ old = [b \in Boxes |-> 0]
  /\ handled = [b \in Boxes |-> 0]
  /\ owed = [b \in Boxes |-> 0]
  /\ through = {} /\ loose = {} /\ jobLoose = FALSE
  /\ reused = {} /\ orphaned = FALSE
  /\ faults = 0

\* Something fails that seldom does.
Fault == faults < MaxFaults /\ faults' = faults + 1

-----------------------------------------------------------------------------
(* The old server.                                                         *)

Arrive(b) ==
  /\ old[b] < MaxMail
  /\ old' = [old EXCEPT ![b] = @ + 1]
  /\ UNCHANGED <<moveVars, job, accountVars, turnVars, jobRun, starting, place, handled, ghostVars, faults>>

-----------------------------------------------------------------------------
(* What an admin does to a move.                                           *)

TurnsOn(b) == {t \in Turns : box[t] = b}

\* personal_move_running and admin_move_open.
PersonalMoveRunning(b) == job[b] \in {"queued", "running"}
AdminMoveOpen(b) == state[b] \notin {"none", "done"}

\* insert_mailboxes, which refuses all of them when one of them cannot be taken.
InsertMailboxes(bs) ==
  /\ \A b \in bs : b \notin trashed \union gone /\ state[b] = "none" /\ ~PersonalMoveRunning(b)
  /\ state' = [b \in Boxes |-> IF b \in bs THEN "queued" ELSE state[b]]
  /\ password' = password \union bs
  /\ final' = final \ bs
  /\ reused' = reused \union {b \in bs : TurnsOn(b) # {}}
  /\ UNCHANGED <<job, accountVars, turnVars, jobRun, starting, mailVars, owed, through, loose,
                 jobLoose, orphaned, faults>>

CreateMove(bs) ==
  /\ move = "none"
  /\ bs # {}
  /\ move' = "active"
  /\ InsertMailboxes(bs)

\* Mutant of AddMailbox: a move that is over takes more of them.
AddMailboxAnytime(b) ==
  /\ move # "none"
  /\ InsertMailboxes({b})
  /\ UNCHANGED move

AddMailbox(b) ==
  /\ move \in {"active", "paused"}
  /\ InsertMailboxes({b})
  /\ UNCHANGED move

PauseMove ==
  /\ move = "active"
  /\ move' = "paused"
  /\ UNCHANGED <<state, password, final, job, accountVars, turnVars, jobRun, starting, mailVars,
                 ghostVars, faults>>

ResumeMove ==
  /\ move = "paused"
  /\ move' = "active"
  /\ UNCHANGED <<state, password, final, job, accountVars, turnVars, jobRun, starting, mailVars,
                 ghostVars, faults>>

\* retry_move_mailbox, with the password there is or a new one.
RetryMailbox(b) ==
  /\ state[b] \in {"paused", "synced"}
  /\ ~PersonalMoveRunning(b)
  /\ b \notin trashed
  /\ password' = password \union {b}
  /\ state' = [state EXCEPT ![b] = "queued"]
  /\ UNCHANGED <<move, final, job, accountVars, turnVars, jobRun, starting, mailVars, ghostVars, faults>>

\* The turns on the rows bs are not asked when these change under them.
TornFrom(bs) == loose' = loose \union {t \in Turns : box[t] \in bs}

PauseMailbox(b) ==
  /\ state[b] \in {"queued", "running", "synced"}
  /\ state' = [state EXCEPT ![b] = "paused"]
  /\ TornFrom({b})
  /\ UNCHANGED <<move, password, final, job, accountVars, turnVars, jobRun, starting, mailVars,
                 owed, through, jobLoose, reused, orphaned, faults>>

\* The rows bs are gone, with what is known of them.
Forget(bs) ==
  /\ owed' = [b \in Boxes |-> IF b \in bs THEN 0 ELSE owed[b]]
  /\ through' = through \ bs
  /\ reused' = reused \ bs

\* settle: a finishing move is done once all its mailboxes are; `next` is their
\* state after the operation.
Settle(next, current) ==
  IF current = "finishing" /\ \A b \in Boxes : next[b] \in {"none", "done"} THEN "done" ELSE current

\* Mutant of RemoveMailbox: the move is not settled.
RemoveMailboxUnsettled(b) ==
  /\ state[b] # "none"
  /\ state' = [state EXCEPT ![b] = "none"]
  /\ password' = password \ {b}
  /\ final' = final \ {b}
  /\ Forget({b})
  /\ TornFrom({b})
  /\ UNCHANGED <<move, job, accountVars, turnVars, jobRun, starting, mailVars, jobLoose, orphaned, faults>>

RemoveMailbox(b) ==
  /\ state[b] # "none"
  /\ state' = [state EXCEPT ![b] = "none"]
  /\ password' = password \ {b}
  /\ final' = final \ {b}
  /\ move' = Settle(state', move)
  /\ Forget({b})
  /\ TornFrom({b})
  /\ UNCHANGED <<job, accountVars, turnVars, jobRun, starting, mailVars, jobLoose, orphaned, faults>>

\* Rows that are not done.
Open == {b \in Boxes : AdminMoveOpen(b)}

\* finish_move with its last round.  Rows without a password are done as they are.
FinishMove ==
  LET over == Open \ password
      going == Open \intersect password
  IN /\ move \in {"active", "paused"}
     /\ state' = [b \in Boxes |->
          IF b \in over THEN "done"
          ELSE IF b \in going /\ state[b] \in {"synced", "paused"} THEN "queued" ELSE state[b]]
     /\ final' = final \union over \union going
     /\ move' = Settle(state', "finishing")
     /\ owed' = [b \in Boxes |-> IF b \in going THEN old[b] ELSE owed[b]]
     /\ TornFrom(over)
     /\ UNCHANGED <<password, job, accountVars, turnVars, jobRun, starting, mailVars,
                    through, jobLoose, reused, orphaned, faults>>

\* finish_move with skip_last_round: over at once.
FinishSkipping ==
  /\ move \in {"active", "paused", "finishing"}
  /\ state' = [b \in Boxes |-> IF b \in Open THEN "done" ELSE state[b]]
  /\ password' = password \ Open
  /\ final' = final \union Open
  /\ move' = Settle(state', "finishing")
  /\ TornFrom(Open)
  /\ UNCHANGED <<job, accountVars, turnVars, jobRun, starting, mailVars,
                 owed, through, jobLoose, reused, orphaned, faults>>

\* delete_move: the rows go with it.
DeleteMove ==
  /\ move # "none"
  /\ move' = "none"
  /\ state' = [b \in Boxes |-> "none"]
  /\ password' = {} /\ final' = {}
  /\ Forget(Boxes)
  /\ TornFrom(Boxes)
  /\ orphaned' = FALSE
  /\ UNCHANGED <<job, accountVars, turnVars, jobRun, starting, mailVars, jobLoose, faults>>

\* trash_account with wipe_moves_of_account: the row stops without a password, and
\* in a move that is finishing it is done.
Trash(b) ==
  /\ b \notin trashed \union gone
  /\ trashed' = trashed \union {b}
  /\ state' = [state EXCEPT ![b] =
       IF ~AdminMoveOpen(b) THEN @ ELSE IF move = "finishing" THEN "done" ELSE "paused"]
  /\ password' = password \ {b}
  /\ move' = Settle(state', move)
  /\ TornFrom({b})
  /\ UNCHANGED <<final, job, gone, turnVars, jobRun, starting, mailVars,
                 owed, through, jobLoose, reused, orphaned, faults>>

Restore(b) ==
  /\ b \in trashed
  /\ trashed' = trashed \ {b}
  /\ UNCHANGED <<moveVars, job, gone, turnVars, jobRun, starting, mailVars, ghostVars, faults>>

\* delete_account: the row, the job, the mail and import_progress go with the account,
\* from the trash or at once, and nothing settles the move.
DeleteAccount(b) ==
  /\ b \notin gone
  /\ gone' = gone \union {b}
  /\ trashed' = trashed \ {b}
  /\ state' = [state EXCEPT ![b] = "none"]
  /\ password' = password \ {b}
  /\ final' = final \ {b}
  /\ job' = [job EXCEPT ![b] = "idle"]
  /\ place' = [place EXCEPT ![b] = 0]
  /\ handled' = [handled EXCEPT ![b] = 0]
  /\ Forget({b})
  /\ TornFrom({b})
  /\ jobLoose' = (jobLoose \/ jobRun = b)
  /\ orphaned' = (orphaned \/ (move = "finishing" /\ Open = {b}))
  /\ UNCHANGED <<move, turnVars, jobRun, starting, old, faults>>

\* create_account: a new account in its place, once nobody works for the old one.
NewAccount(b) ==
  /\ b \in gone
  /\ TurnsOn(b) = {} /\ jobRun # b
  /\ gone' = gone \ {b}
  /\ UNCHANGED <<moveVars, job, trashed, turnVars, jobRun, starting, mailVars, ghostVars, faults>>

-----------------------------------------------------------------------------
(* run_moves: the worker and its turns.                                    *)

\* queue_due_move_mailboxes: the time of the next round has come.
QueueDue(b) ==
  /\ "moves" \notin starting
  /\ move = "active" /\ state[b] = "synced"
  /\ state' = [state EXCEPT ![b] = "queued"]
  /\ UNCHANGED <<move, password, final, job, accountVars, turnVars, jobRun, starting, mailVars,
                 ghostVars, faults>>

\* take_move_mailbox.  That the one that waited longest comes first is left out.
Take(t, b) ==
  /\ "moves" \notin starting
  /\ phase[t] = "free"
  /\ state[b] = "queued" /\ b \notin trashed
  /\ move \in {"active", "finishing"}
  /\ Cardinality({c \in Boxes : state[c] = "running"}) < Parallel
  /\ state' = [state EXCEPT ![b] = "running"]
  /\ box' = [box EXCEPT ![t] = b]
  /\ last' = IF b \in final THEN last \union {t} ELSE last
  /\ phase' = [phase EXCEPT ![t] = "starting"]
  /\ UNCHANGED <<move, password, final, job, accountVars, pos, goal, advanced, jobRun, starting,
                 mailVars, ghostVars, faults>>

\* note_move_progress: whether the turn is still wanted.
Wanted(b) == state[b] = "running" /\ move \in {"active", "finishing"}

\* The copy goes on while the turn is wanted, or when nobody could be asked.
GoesOn(b) == IF Wanted(b) THEN UNCHANGED faults ELSE Fault

\* The turn comes to an end as MoveTurn says.
Ends(t, turn) ==
  /\ phase' = [phase EXCEPT ![t] = turn]
  /\ pos' = [pos EXCEPT ![t] = 0]
  /\ goal' = [goal EXCEPT ![t] = 0]
  /\ advanced' = advanced \ {t}

\* run_turn: the move and the password are read, the old server is asked what is
\* new since import_progress, and the copy begins, unless it is not wanted any more.
Begin(t) ==
  LET b == box[t] IN
  /\ phase[t] = "starting"
  /\ move # "none" /\ b \in password
  /\ \/ /\ GoesOn(b)
        /\ phase' = [phase EXCEPT ![t] = "copying"]
        /\ pos' = [pos EXCEPT ![t] = place[b]]
        /\ goal' = [goal EXCEPT ![t] = old[b]]
        /\ UNCHANGED advanced
     \/ ~Wanted(b) /\ Ends(t, "continue") /\ UNCHANGED faults
  /\ UNCHANGED <<moveVars, job, accountVars, box, last, jobRun, starting, mailVars, ghostVars>>

\* The move is gone, the password was wiped, or the old server cannot be reached or
\* refuses the login.
BeginNot(t) ==
  /\ phase[t] = "starting"
  /\ Ends(t, IF move = "none" THEN "continue" ELSE "pause")
  /\ UNCHANGED <<moveVars, job, accountVars, box, last, jobRun, starting, mailVars, ghostVars, faults>>

\* copy_folders: a portion is stored but for what is too large, unreadable, marked
\* \Deleted or not handed out by the old server; set_import_progress remembers it
\* either way, and the note says whether to go on.  When that cannot be written, the
\* turn goes on.
Portion(t) ==
  LET b == box[t] IN
  /\ phase[t] = "copying"
  /\ pos[t] < goal[t]
  /\ b \notin gone
  /\ place' = [place EXCEPT ![b] = pos[t] + 1]
  /\ handled' = [handled EXCEPT ![b] = IF @ > pos[t] THEN @ ELSE pos[t] + 1]
  /\ \/ /\ GoesOn(b)
        /\ pos' = [pos EXCEPT ![t] = @ + 1]
        /\ advanced' = advanced \union {t}
        /\ UNCHANGED <<phase, goal>>
     \/ ~Wanted(b) /\ Ends(t, "continue") /\ UNCHANGED faults
  /\ UNCHANGED <<moveVars, job, accountVars, box, last, jobRun, starting, old, ghostVars>>

\* Everything that was there was gone through; after a folder with new mail the turn
\* is noted once more.
Finished(t) ==
  LET b == box[t] IN
  /\ phase[t] = "copying"
  /\ pos[t] >= goal[t]
  /\ \/ t \notin advanced /\ Ends(t, "round") /\ UNCHANGED faults
     \/ t \in advanced /\ GoesOn(b) /\ Ends(t, "round")
     \/ t \in advanced /\ ~Wanted(b) /\ Ends(t, "continue") /\ UNCHANGED faults
  /\ UNCHANGED <<moveVars, job, accountVars, box, last, jobRun, starting, mailVars, ghostVars>>

\* The old server renumbered the folder between looking and copying: it is left for
\* the next copy, and this one counts as finished.
LeftForNext(t) ==
  /\ Fault
  /\ phase[t] = "copying"
  /\ pos[t] < goal[t] /\ t \notin advanced
  /\ Ends(t, "left")
  /\ place' = [place EXCEPT ![box[t]] = 0]
  /\ UNCHANGED <<moveVars, job, accountVars, box, last, jobRun, starting, old, handled, ghostVars>>

\* The time slice is over with more to come; when the old server hangs, without a
\* single portion.
OutOfTime(t) ==
  /\ phase[t] = "copying"
  /\ pos[t] < goal[t]
  /\ \/ t \in advanced /\ UNCHANGED faults
     \/ t \notin advanced /\ Fault
  /\ Ends(t, "continue")
  /\ UNCHANGED <<moveVars, job, accountVars, box, last, jobRun, starting, mailVars, ghostVars>>

\* The mailbox here is full or gone, or the connection broke.
Breaks(t) ==
  /\ phase[t] = "copying"
  /\ Ends(t, "pause")
  /\ UNCHANGED <<moveVars, job, accountVars, box, last, jobRun, starting, mailVars, ghostVars, faults>>

\* The turns ts are over.
Free(ts) ==
  /\ phase' = [t \in Turns |-> IF t \in ts THEN "free" ELSE phase[t]]
  /\ box' = [t \in Turns |-> IF t \in ts THEN NoBox ELSE box[t]]
  /\ pos' = [t \in Turns |-> IF t \in ts THEN 0 ELSE pos[t]]
  /\ goal' = [t \in Turns |-> IF t \in ts THEN 0 ELSE goal[t]]
  /\ last' = last \ ts
  /\ advanced' = advanced \ ts

Over(t) == phase[t] \in {"continue", "pause", "round", "left"}

\* MoveTurn::Round.
RoundOver(t) == phase[t] \in {"round", "left"}

\* Mutant of HandedBack: any round that ends in a last round is the last.
HandedBackEarly(t) ==
  CASE phase[t] = "pause" -> "paused"
    [] RoundOver(t) /\ box[t] \in final -> "done"
    [] RoundOver(t) /\ box[t] \notin final -> "synced"
    [] OTHER -> "queued"

\* The state finish_move_turn leaves a row in that is still running.
HandedBack(t) ==
  CASE phase[t] = "pause" -> "paused"
    [] RoundOver(t) /\ box[t] \in final /\ t \in last -> "done"
    [] RoundOver(t) /\ box[t] \notin final -> "synced"
    [] OTHER -> "queued"

\* finish_move_turn.  A turn whose row was taken from it takes it from others.
FinishTurn(t) ==
  LET b == box[t]
      running == state[b] = "running"
      done == running /\ HandedBack(t) = "done"
  IN /\ Over(t)
     /\ state' = IF running THEN [state EXCEPT ![b] = HandedBack(t)] ELSE state
     /\ password' = IF done THEN password \ {b} ELSE password
     /\ through' = IF done /\ phase[t] = "round" THEN through \union {b} ELSE through
     /\ move' = IF running THEN Settle(state', move) ELSE move
     /\ loose' = (IF t \in loose THEN loose \union TurnsOn(b) ELSE loose) \ {t}
     /\ Free({t})
     /\ UNCHANGED <<final, job, accountVars, jobRun, starting, mailVars, owed, jobLoose, reused,
                    orphaned, faults>>

\* It cannot be written down: the row stays running.
FinishTurnFails(t) ==
  /\ Fault
  /\ Over(t)
  /\ loose' = loose \ {t}
  /\ Free({t})
  /\ UNCHANGED <<moveVars, job, accountVars, jobRun, starting, mailVars, owed, through, jobLoose,
                 reused, orphaned>>

-----------------------------------------------------------------------------
(* The person's own move.                                                  *)

\* Mutant of QueueJob: nobody asks about the admin's move.
QueueJobUnasked(b) ==
  /\ job[b] = "idle"
  /\ b \notin gone
  /\ job' = [job EXCEPT ![b] = "queued"]
  /\ UNCHANGED <<moveVars, accountVars, turnVars, jobRun, starting, mailVars, ghostVars, faults>>

\* create_migration_job, and sync_migration_job of one that stopped.
QueueJob(b) ==
  /\ job[b] = "idle"
  /\ ~AdminMoveOpen(b) /\ b \notin gone
  /\ job' = [job EXCEPT ![b] = "queued"]
  /\ UNCHANGED <<moveVars, accountVars, turnVars, jobRun, starting, mailVars, ghostVars, faults>>

\* pause_migration_job and delete_migration_job.
StopJob(b) ==
  /\ PersonalMoveRunning(b)
  /\ job' = [job EXCEPT ![b] = "idle"]
  /\ jobLoose' = (jobLoose \/ jobRun = b)
  /\ UNCHANGED <<moveVars, accountVars, turnVars, jobRun, starting, mailVars,
                 owed, through, loose, reused, orphaned, faults>>

\* take_migration_job, by the only worker.
TakeJob(b) ==
  /\ "jobs" \notin starting
  /\ jobRun = NoBox
  /\ job[b] = "queued" /\ b \notin trashed
  /\ job' = [job EXCEPT ![b] = "running"]
  /\ jobRun' = b
  /\ UNCHANGED <<moveVars, accountVars, turnVars, starting, mailVars, ghostVars, faults>>

\* run_job ends and finish_migration_run hands the job back if it is still running:
\* queued again, paused or done.
FinishJob(run) ==
  /\ jobRun # NoBox
  /\ job' = IF job[jobRun] = "running" THEN [job EXCEPT ![jobRun] = run] ELSE job
  /\ jobRun' = NoBox
  /\ jobLoose' = FALSE
  /\ UNCHANGED <<moveVars, accountVars, turnVars, starting, mailVars, owed, through, loose, reused,
                 orphaned, faults>>

\* It cannot be written down: the job stays running.
FinishJobFails ==
  /\ Fault
  /\ jobRun # NoBox
  /\ jobRun' = NoBox
  /\ jobLoose' = FALSE
  /\ UNCHANGED <<moveVars, job, accountVars, turnVars, starting, mailVars, owed, through, loose,
                 reused, orphaned>>

-----------------------------------------------------------------------------
(* Restarts.                                                               *)

\* All workers are gone; they start again.
Restarts ==
  /\ Fault
  /\ starting' = {"moves", "jobs"}
  /\ Free(Turns)
  /\ jobRun' = NoBox
  /\ loose' = {} /\ jobLoose' = FALSE

\* Rows, or jobs, that were running are queued.
Requeued(states) == [b \in Boxes |-> IF states[b] = "running" THEN "queued" ELSE states[b]]

\* A clean stop: turns are aborted, requeue_running_moves; the person's run ends as
\* one whose time was up.
Stop ==
  /\ Restarts
  /\ state' = Requeued(state)
  /\ job' = [b \in Boxes |-> IF b = jobRun /\ job[b] = "running" THEN "queued" ELSE job[b]]
  /\ UNCHANGED <<move, password, final, accountVars, mailVars, owed, through, reused, orphaned>>

Crash ==
  /\ Restarts
  /\ UNCHANGED <<moveVars, job, accountVars, mailVars, owed, through, reused, orphaned>>

\* recover_interrupted_moves and recover_interrupted_migrations: what was running
\* goes on, or is paused when the server went down during it INTERRUPTIONS times in
\* a row.  The count is left out: any of them may have had its last.  When this fails
\* the worker starts all the same, and they stay as they are.
Recovered(states, stopped) ==
  {[b \in Boxes |-> IF b \in often THEN stopped ELSE Requeued(states)[b]] :
     often \in SUBSET {b \in Boxes : states[b] = "running"}}

RecoverMoves ==
  /\ "moves" \in starting
  /\ starting' = starting \ {"moves"}
  /\ \/ state' \in Recovered(state, "paused") /\ UNCHANGED faults
     \/ Fault /\ UNCHANGED state
  /\ UNCHANGED <<move, password, final, job, accountVars, turnVars, jobRun, mailVars, ghostVars>>

RecoverJobs ==
  /\ "jobs" \in starting
  /\ starting' = starting \ {"jobs"}
  /\ \/ job' \in Recovered(job, "idle") /\ UNCHANGED faults
     \/ Fault /\ UNCHANGED job
  /\ UNCHANGED <<moveVars, accountVars, turnVars, jobRun, mailVars, ghostVars>>

-----------------------------------------------------------------------------
AdminStep ==
  \/ \E bs \in SUBSET Boxes : CreateMove(bs)
  \/ PauseMove \/ ResumeMove \/ FinishMove \/ FinishSkipping \/ DeleteMove
  \/ \E b \in Boxes :
       AddMailbox(b) \/ RetryMailbox(b) \/ PauseMailbox(b) \/ RemoveMailbox(b)
       \/ Trash(b) \/ Restore(b) \/ DeleteAccount(b) \/ NewAccount(b)

TurnStep(t) ==
  \/ Begin(t) \/ BeginNot(t)
  \/ Portion(t) \/ Finished(t) \/ LeftForNext(t) \/ OutOfTime(t) \/ Breaks(t)
  \/ FinishTurn(t) \/ FinishTurnFails(t)

WorkerStep == RecoverMoves \/ \E t \in Turns, b \in Boxes : Take(t, b)

PersonStep == \E b \in Movers : QueueJob(b) \/ StopJob(b)

JobStep ==
  \/ RecoverJobs
  \/ \E b \in Boxes : TakeJob(b)
  \/ \E run \in {"queued", "idle"} : FinishJob(run)
  \/ FinishJobFails

Next ==
  \/ \E b \in Boxes : Arrive(b) \/ QueueDue(b)
  \/ AdminStep
  \/ WorkerStep
  \/ \E t \in Turns : TurnStep(t)
  \/ PersonStep
  \/ JobStep
  \/ Stop \/ Crash

Spec == Init /\ [][Next]_vars

\* The worker looks at its queue every few seconds, and every wait of a turn has a
\* deadline.
FairSpec == Spec /\ WF_vars(WorkerStep) /\ \A t \in Turns : WF_vars(TurnStep(t))
-----------------------------------------------------------------------------
TypeOK ==
  /\ move \in {"none", "active", "paused", "finishing", "done"}
  /\ state \in [Boxes -> {"none", "queued", "running", "paused", "synced", "done"}]
  /\ password \subseteq Boxes /\ final \subseteq Boxes /\ trashed \subseteq Boxes /\ gone \subseteq Boxes
  /\ job \in [Boxes -> {"idle", "queued", "running"}]
  /\ place \in [Boxes -> Nat] /\ old \in [Boxes -> Nat]
  /\ handled \in [Boxes -> Nat] /\ owed \in [Boxes -> Nat]
  /\ box \in [Turns -> Boxes \union {NoBox}]
  /\ phase \in [Turns -> {"free", "starting", "copying", "continue", "pause", "round", "left"}]
  /\ pos \in [Turns -> Nat] /\ goal \in [Turns -> Nat]
  /\ last \subseteq Turns /\ advanced \subseteq Turns /\ loose \subseteq Turns
  /\ jobRun \in Boxes \union {NoBox}
  /\ jobLoose \in BOOLEAN /\ orphaned \in BOOLEAN
  /\ starting \subseteq {"moves", "jobs"}
  /\ through \subseteq Boxes /\ reused \subseteq Boxes
  /\ faults \in 0 .. MaxFaults

\* When its last round has finished a mailbox, a copy has been through everything the
\* old server had when the admin finished the move ("a round that ended just before the
\* admin finished the move is followed by the last one", moves.rs:1273), and stored it
\* or left it out: with pauses, retries, time slices and restarts in between.  Except
\* when the old server renumbered a folder under a round, or a turn of an earlier row
\* with the same id was still running.
LastRoundComplete ==
  \A b \in through \ reused : state[b] = "done" => handled[b] >= owed[b]

\* "Over: every password is wiped" (moves.rs:75): a move that is done has nothing
\* open and no password, and only a move that is finishing or done has mailboxes
\* that are done.
DoneIsOver ==
  /\ move = "done" => Open = {} /\ password = {}
  /\ \A b \in Boxes : state[b] = "done" => b \notin password /\ move \in {"finishing", "done"}

\* "so two workers never fill one mailbox" (moves.rs:535): no mailbox is worked on by
\* two turns, or a turn and the person's own move, unless a person stopped one of
\* them that has yet to notice.
OneFiller ==
  /\ \A t, u \in Turns \ loose : t # u /\ box[t] = box[u] => box[t] = NoBox
  /\ \A t \in Turns \ loose : box[t] # NoBox /\ box[t] = jobRun => jobLoose

\* A row that is running without a turn, after a failed write.
Stranded == \E b \in Boxes : state[b] = "running" /\ TurnsOn(b) = {} /\ "moves" \notin starting

\* A move that is finishing comes to its end, with time slices and restarts, unless a
\* mailbox is paused and waits for the admin, was left running by a failed write, or
\* was the last one open and its account was deleted.  Two turns on one mailbox, after a
\* pause and a retry, may hand its row back from under each other; the case that this
\* goes on for ever is left out.
MoveEnds ==
  \/ []<>(loose # {})
  \/ move = "finishing" ~>
       (move # "finishing" \/ Stranded \/ orphaned \/ \E b \in Boxes : state[b] = "paused")
=============================================================================
