---------------------------- MODULE MovesProofs ----------------------------
(***************************************************************************)
(* What moves keep for any number of mailboxes, turns, mails and faults:   *)
(* no mailbox has two fillers, a move that is done has nothing open and no *)
(* password, and a mailbox that its last round finished was gone through.  *)
(***************************************************************************)
EXTENDS Moves, TLAPS

(* The inductive invariant, in named parts.                                *)

\* A turn that works has a mailbox; before the workers have looked for interrupted
\* rows there is none.
TurnsConsistent ==
  /\ \A t \in Turns : box[t] = NoBox <=> phase[t] = "free"
  /\ "moves" \in starting => \A t \in Turns : phase[t] = "free"
  /\ "jobs" \in starting => jobRun = NoBox

\* A turn nobody took the row from has a row that is running, and has it alone.
RowsOfTurns ==
  \A t \in Turns \ loose : box[t] # NoBox =>
    /\ state[box[t]] = "running"
    /\ \A u \in Turns \ loose : box[u] = box[t] => u = t

\* The same of the person's worker; and a mailbox that is open in the admin's move
\* has no move of the person's own.
JobsApart ==
  /\ jobRun # NoBox /\ ~jobLoose => job[jobRun] = "running"
  /\ \A b \in Boxes : AdminMoveOpen(b) => ~PersonalMoveRunning(b)

\* Without a move there are no rows, and rows are final or done only in a move that
\* is finishing or done.
RowsOfMove ==
  /\ move = "none" => \A b \in Boxes : state[b] = "none"
  /\ move = "done" => Open = {}
  /\ password \subseteq Open
  /\ (final # {} \/ \E b \in Boxes : state[b] = "done") => move \in {"finishing", "done"}

\* An account that is deleted has no row and is owed nothing.
GoneAccounts == \A b \in gone : state[b] = "none" /\ owed[b] = 0

\* What was remembered and handled is in order, and what is owed was there.
MailOrder ==
  /\ \A b \in Boxes : place[b] <= handled[b] /\ owed[b] <= old[b]
  /\ \A t \in Turns : phase[t] = "copying" /\ box[t] \notin gone => pos[t] <= handled[box[t]]

\* A last round of a row that was not made under it belongs to a row that is final, or
\* gone; it goes as far as what is owed, and has it when it is over.
LastRounds ==
  \A t \in last :
    /\ box[t] # NoBox
    /\ box[t] \notin reused =>
         /\ box[t] \in final \/ state[box[t]] = "none"
         /\ phase[t] = "copying" => goal[t] >= owed[box[t]]
         /\ phase[t] = "round" => handled[box[t]] >= owed[box[t]]

\* A mailbox that its last round finished stays done, and has what it is owed.
Through ==
  \A b \in through : state[b] = "done" /\ (b \notin reused => handled[b] >= owed[b])

MovesInv ==
  /\ TypeOK
  /\ TurnsConsistent
  /\ RowsOfTurns
  /\ JobsApart
  /\ RowsOfMove
  /\ GoneAccounts
  /\ MailOrder
  /\ LastRounds
  /\ Through
-----------------------------------------------------------------------------
\* Every step keeps the types.
LEMMA TypeStep == MovesInv /\ [Next]_vars => TypeOK'
<1> SUFFICES ASSUME MovesInv, [Next]_vars PROVE TypeOK'
  OBVIOUS
<1> USE BoxesAssumption, LimitsAssumption
<1> USE DEF MovesInv, TypeOK, moveVars, accountVars, turnVars, mailVars, ghostVars
<1>1. ASSUME NEW b \in Boxes, Arrive(b) PROVE TypeOK'
  BY <1>1 DEF Arrive
<1>2. ASSUME NEW b \in Boxes, QueueDue(b) PROVE TypeOK'
  BY <1>2 DEF QueueDue
<1>3. ASSUME NEW bs \in SUBSET Boxes, CreateMove(bs) PROVE TypeOK'
  BY <1>3 DEF CreateMove, InsertMailboxes, TurnsOn
<1>4. CASE PauseMove
  BY <1>4 DEF PauseMove
<1>5. CASE ResumeMove
  BY <1>5 DEF ResumeMove
<1>6. CASE FinishMove
  BY <1>6 DEF FinishMove, Settle, TornFrom, Open, AdminMoveOpen
<1>7. CASE FinishSkipping
  BY <1>7 DEF FinishSkipping, Settle, TornFrom, Open, AdminMoveOpen
<1>8. CASE DeleteMove
  BY <1>8 DEF DeleteMove, Forget, TornFrom
<1>9. ASSUME NEW b \in Boxes, AddMailbox(b) PROVE TypeOK'
  BY <1>9 DEF AddMailbox, InsertMailboxes, TurnsOn
<1>10. ASSUME NEW b \in Boxes, RetryMailbox(b) PROVE TypeOK'
  BY <1>10 DEF RetryMailbox
<1>11. ASSUME NEW b \in Boxes, PauseMailbox(b) PROVE TypeOK'
  BY <1>11 DEF PauseMailbox, TornFrom
<1>12. ASSUME NEW b \in Boxes, RemoveMailbox(b) PROVE TypeOK'
  BY <1>12 DEF RemoveMailbox, Forget, TornFrom, Settle
<1>13. ASSUME NEW b \in Boxes, Trash(b) PROVE TypeOK'
  BY <1>13 DEF Trash, Settle, TornFrom, AdminMoveOpen
<1>14. ASSUME NEW b \in Boxes, Restore(b) PROVE TypeOK'
  BY <1>14 DEF Restore
<1>15. CASE RecoverMoves
  BY <1>15 DEF RecoverMoves, Fault, Recovered, Requeued
<1>16. ASSUME NEW t \in Turns, NEW b \in Boxes, Take(t, b) PROVE TypeOK'
  BY <1>16 DEF Take
<1>17. ASSUME NEW t \in Turns, Begin(t) PROVE TypeOK'
  BY <1>17 DEF Begin, GoesOn, Fault, Wanted, Ends
<1>18. ASSUME NEW t \in Turns, BeginNot(t) PROVE TypeOK'
  BY <1>18 DEF BeginNot, Ends
<1>19. ASSUME NEW t \in Turns, Portion(t) PROVE TypeOK'
  <2>1. box[t] \in Boxes
    BY <1>19 DEF Portion, TurnsConsistent
  <2>2. faults' \in 0 .. MaxFaults
    BY <1>19 DEF Portion, GoesOn, Fault
  <2>3. place' \in [Boxes -> Nat] /\ handled' \in [Boxes -> Nat]
    BY <1>19, <2>1 DEF Portion
  <2>4. /\ pos' \in [Turns -> Nat] /\ goal' \in [Turns -> Nat] /\ advanced' \subseteq Turns
        /\ phase' \in [Turns -> {"free", "starting", "copying", "continue", "pause", "round", "left"}]
    BY <1>19 DEF Portion, Ends
  <2> QED BY <1>19, <2>2, <2>3, <2>4 DEF Portion
<1>20. ASSUME NEW t \in Turns, Finished(t) PROVE TypeOK'
  BY <1>20 DEF Finished, GoesOn, Fault, Wanted, Ends
<1>21. ASSUME NEW t \in Turns, LeftForNext(t) PROVE TypeOK'
  <2>1. faults' \in 0 .. MaxFaults
    BY <1>21 DEF LeftForNext, Fault
  <2>2. box[t] \in Boxes
    BY <1>21 DEF LeftForNext, TurnsConsistent
  <2> QED BY <1>21, <2>1, <2>2 DEF LeftForNext, Ends
<1>22. ASSUME NEW t \in Turns, OutOfTime(t) PROVE TypeOK'
  BY <1>22 DEF OutOfTime, Fault, Ends
<1>23. ASSUME NEW t \in Turns, Breaks(t) PROVE TypeOK'
  BY <1>23 DEF Breaks, Ends
<1>24. ASSUME NEW t \in Turns, FinishTurn(t) PROVE TypeOK'
  BY <1>24 DEF FinishTurn, Over, RoundOver, HandedBack, Settle, Free, TurnsOn
<1>25. ASSUME NEW t \in Turns, FinishTurnFails(t) PROVE TypeOK'
  BY <1>25 DEF FinishTurnFails, Fault, Over, Free
<1>26. ASSUME NEW b \in Movers, QueueJob(b) PROVE TypeOK'
  BY <1>26 DEF QueueJob
<1>27. ASSUME NEW b \in Movers, StopJob(b) PROVE TypeOK'
  BY <1>27 DEF StopJob
<1>28. CASE RecoverJobs
  BY <1>28 DEF RecoverJobs, Fault, Recovered, Requeued
<1>29. ASSUME NEW b \in Boxes, TakeJob(b) PROVE TypeOK'
  BY <1>29 DEF TakeJob
<1>30. ASSUME NEW run \in {"queued", "idle"}, FinishJob(run) PROVE TypeOK'
  BY <1>30 DEF FinishJob
<1>31. CASE FinishJobFails
  <2>1. faults' \in 0 .. MaxFaults
    BY <1>31 DEF FinishJobFails, Fault
  <2> QED BY <1>31, <2>1 DEF FinishJobFails
<1>32. CASE Stop
  <2>1. faults' \in 0 .. MaxFaults
    BY <1>32 DEF Stop, Fault, Restarts
  <2> QED BY <1>32, <2>1 DEF Stop, Restarts, Free, Requeued
<1>33. CASE Crash
  <2>1. faults' \in 0 .. MaxFaults
    BY <1>33 DEF Crash, Fault, Restarts
  <2> QED BY <1>33, <2>1 DEF Crash, Restarts, Free
<1>34. CASE UNCHANGED vars
  BY <1>34 DEF vars
<1>35. ASSUME NEW b \in Boxes, DeleteAccount(b) PROVE TypeOK'
  BY <1>35 DEF DeleteAccount, Forget, TornFrom, Open, AdminMoveOpen
<1>36. ASSUME NEW b \in Boxes, NewAccount(b) PROVE TypeOK'
  BY <1>36 DEF NewAccount, TurnsOn
<1> QED
  BY <1>1, <1>2, <1>3, <1>4, <1>5, <1>6, <1>7, <1>8, <1>9, <1>10, <1>11, <1>12, <1>13,
     <1>14, <1>15, <1>16, <1>17, <1>18, <1>19, <1>20, <1>21, <1>22, <1>23, <1>24, <1>25,
     <1>26, <1>27, <1>28, <1>29, <1>30, <1>31, <1>32, <1>33, <1>34, <1>35, <1>36
  DEF Next, AdminStep, WorkerStep, TurnStep, PersonStep, JobStep

\* Turns keep their mailboxes until they are over, and restarts free them.
LEMMA TurnsStep == MovesInv /\ [Next]_vars => TurnsConsistent'
<1> SUFFICES ASSUME MovesInv, [Next]_vars PROVE TurnsConsistent'
  OBVIOUS
<1> USE BoxesAssumption, LimitsAssumption
<1> USE DEF MovesInv, TypeOK, TurnsConsistent, moveVars, accountVars, turnVars, mailVars, ghostVars
<1>1. CASE RecoverMoves
  BY <1>1 DEF RecoverMoves, Fault, Recovered, Requeued
<1>2. ASSUME NEW t \in Turns, NEW b \in Boxes, Take(t, b) PROVE TurnsConsistent'
  BY <1>2 DEF Take
<1>3. ASSUME NEW t \in Turns, Begin(t) PROVE TurnsConsistent'
  BY <1>3 DEF Begin, GoesOn, Fault, Wanted, Ends
<1>4. ASSUME NEW t \in Turns, BeginNot(t) PROVE TurnsConsistent'
  BY <1>4 DEF BeginNot, Ends
<1>5. ASSUME NEW t \in Turns, Portion(t) PROVE TurnsConsistent'
  BY <1>5 DEF Portion, GoesOn, Fault, Wanted, Ends
<1>6. ASSUME NEW t \in Turns, Finished(t) PROVE TurnsConsistent'
  BY <1>6 DEF Finished, GoesOn, Fault, Wanted, Ends
<1>7. ASSUME NEW t \in Turns, LeftForNext(t) PROVE TurnsConsistent'
  BY <1>7 DEF LeftForNext, Fault, Ends
<1>8. ASSUME NEW t \in Turns, OutOfTime(t) PROVE TurnsConsistent'
  BY <1>8 DEF OutOfTime, Fault, Ends
<1>9. ASSUME NEW t \in Turns, Breaks(t) PROVE TurnsConsistent'
  BY <1>9 DEF Breaks, Ends
<1>10. ASSUME NEW t \in Turns, FinishTurn(t) PROVE TurnsConsistent'
  BY <1>10 DEF FinishTurn, Over, RoundOver, HandedBack, Settle, Free, TurnsOn
<1>11. ASSUME NEW t \in Turns, FinishTurnFails(t) PROVE TurnsConsistent'
  BY <1>11 DEF FinishTurnFails, Fault, Over, Free
<1>12. CASE RecoverJobs
  BY <1>12 DEF RecoverJobs, Fault, Recovered, Requeued
<1>13. ASSUME NEW b \in Boxes, TakeJob(b) PROVE TurnsConsistent'
  BY <1>13 DEF TakeJob
<1>14. ASSUME NEW run \in {"queued", "idle"}, FinishJob(run) PROVE TurnsConsistent'
  BY <1>14 DEF FinishJob
<1>15. CASE FinishJobFails
  BY <1>15 DEF FinishJobFails, Fault
<1>16. CASE Stop
  BY <1>16 DEF Stop, Restarts, Fault, Free, Requeued
<1>17. CASE Crash
  BY <1>17 DEF Crash, Restarts, Fault, Free
<1>18. ASSUME
      \/ \E b \in Boxes : Arrive(b) \/ QueueDue(b) \/ AddMailbox(b) \/ RetryMailbox(b) \/
                          PauseMailbox(b) \/ RemoveMailbox(b) \/ Trash(b) \/ Restore(b) \/
                          DeleteAccount(b) \/ NewAccount(b)
      \/ \E bs \in SUBSET Boxes : CreateMove(bs)
      \/ PauseMove \/ ResumeMove \/ FinishMove \/ FinishSkipping \/ DeleteMove
      \/ \E b \in Movers : QueueJob(b)
      \/ \E b \in Movers : StopJob(b)
    PROVE TurnsConsistent'
  BY <1>18 DEF Arrive, QueueDue, CreateMove, PauseMove, ResumeMove, FinishMove, FinishSkipping,
     DeleteMove, AddMailbox, RetryMailbox, PauseMailbox, RemoveMailbox, Trash, Restore,
     DeleteAccount, NewAccount,
     QueueJob, StopJob, InsertMailboxes, TurnsOn, Settle, TornFrom, Open, AdminMoveOpen,
     Forget
<1>19. CASE UNCHANGED vars
  BY <1>19 DEF vars
<1> QED
  BY <1>1, <1>2, <1>3, <1>4, <1>5, <1>6, <1>7, <1>8, <1>9, <1>10, <1>11, <1>12, <1>13,
     <1>14, <1>15, <1>16, <1>17, <1>18, <1>19
  DEF Next, AdminStep, WorkerStep, TurnStep, PersonStep, JobStep

\* No step takes a row from a turn that is not called loose, or gives it to another.
LEMMA RowsOfTurnsStep == MovesInv /\ [Next]_vars => RowsOfTurns'
<1> SUFFICES ASSUME MovesInv, [Next]_vars PROVE RowsOfTurns'
  OBVIOUS
<1> USE BoxesAssumption, LimitsAssumption
<1> USE DEF MovesInv, TypeOK, TurnsConsistent, RowsOfTurns, moveVars, accountVars, turnVars,
            mailVars, ghostVars
<1>1. ASSUME NEW b \in Boxes, QueueDue(b) PROVE RowsOfTurns'
  BY <1>1 DEF QueueDue
<1>2. ASSUME NEW bs \in SUBSET Boxes, CreateMove(bs) PROVE RowsOfTurns'
  BY <1>2 DEF CreateMove, InsertMailboxes, TurnsOn
<1>3. CASE FinishMove
  BY <1>3 DEF FinishMove, Settle, TornFrom, Open, AdminMoveOpen
<1>4. CASE FinishSkipping
  BY <1>4 DEF FinishSkipping, Settle, TornFrom, Open, AdminMoveOpen
<1>5. CASE DeleteMove
  BY <1>5 DEF DeleteMove, Forget, TornFrom
<1>6. ASSUME NEW b \in Boxes, AddMailbox(b) PROVE RowsOfTurns'
  BY <1>6 DEF AddMailbox, InsertMailboxes, TurnsOn
<1>7. ASSUME NEW b \in Boxes, RetryMailbox(b) PROVE RowsOfTurns'
  BY <1>7 DEF RetryMailbox
<1>8. ASSUME NEW b \in Boxes, PauseMailbox(b) PROVE RowsOfTurns'
  BY <1>8 DEF PauseMailbox, TornFrom
<1>9. ASSUME NEW b \in Boxes, RemoveMailbox(b) PROVE RowsOfTurns'
  BY <1>9 DEF RemoveMailbox, Forget, TornFrom, Settle
<1>10. ASSUME NEW b \in Boxes, Trash(b) PROVE RowsOfTurns'
  BY <1>10 DEF Trash, Settle, TornFrom, AdminMoveOpen
<1>11. CASE RecoverMoves
  BY <1>11 DEF RecoverMoves, Fault, Recovered, Requeued
<1>12. ASSUME NEW t \in Turns, NEW b \in Boxes, Take(t, b) PROVE RowsOfTurns'
  BY <1>12 DEF Take
<1>13. ASSUME NEW t \in Turns, Begin(t) PROVE RowsOfTurns'
  BY <1>13 DEF Begin, GoesOn, Fault, Wanted, Ends
<1>14. ASSUME NEW t \in Turns, BeginNot(t) PROVE RowsOfTurns'
  BY <1>14 DEF BeginNot, Ends
<1>15. ASSUME NEW t \in Turns, Portion(t) PROVE RowsOfTurns'
  BY <1>15 DEF Portion, GoesOn, Fault, Wanted, Ends
<1>16. ASSUME NEW t \in Turns, Finished(t) PROVE RowsOfTurns'
  BY <1>16 DEF Finished, GoesOn, Fault, Wanted, Ends
<1>17. ASSUME NEW t \in Turns, LeftForNext(t) PROVE RowsOfTurns'
  BY <1>17 DEF LeftForNext, Fault, Ends
<1>18. ASSUME NEW t \in Turns, OutOfTime(t) PROVE RowsOfTurns'
  BY <1>18 DEF OutOfTime, Fault, Ends
<1>19. ASSUME NEW t \in Turns, Breaks(t) PROVE RowsOfTurns'
  BY <1>19 DEF Breaks, Ends
<1>20. ASSUME NEW t \in Turns, FinishTurn(t) PROVE RowsOfTurns'
  BY <1>20 DEF FinishTurn, Over, RoundOver, HandedBack, Settle, Free, TurnsOn
<1>21. ASSUME NEW t \in Turns, FinishTurnFails(t) PROVE RowsOfTurns'
  BY <1>21 DEF FinishTurnFails, Fault, Over, Free
<1>22. CASE Stop
  BY <1>22 DEF Stop, Restarts, Fault, Free, Requeued
<1>23. CASE Crash
  BY <1>23 DEF Crash, Restarts, Fault, Free
<1>24. ASSUME
      \/ \E b \in Boxes : Arrive(b) \/ Restore(b) \/ TakeJob(b)
      \/ PauseMove \/ ResumeMove \/ RecoverJobs \/ FinishJobFails
      \/ \E b \in Movers : QueueJob(b)
      \/ \E b \in Movers : StopJob(b)
      \/ \E run \in {"queued", "idle"} : FinishJob(run)
    PROVE RowsOfTurns'
  BY <1>24 DEF Arrive, PauseMove, ResumeMove, Restore, QueueJob, StopJob, RecoverJobs, TakeJob,
     FinishJob, FinishJobFails, Fault, Recovered, Requeued
<1>25. CASE UNCHANGED vars
  BY <1>25 DEF vars
<1>26. ASSUME NEW b \in Boxes, DeleteAccount(b) PROVE RowsOfTurns'
  BY <1>26 DEF DeleteAccount, Forget, TornFrom
<1>27. ASSUME NEW b \in Boxes, NewAccount(b) PROVE RowsOfTurns'
  BY <1>27 DEF NewAccount, TurnsOn
<1> QED
  BY <1>1, <1>2, <1>3, <1>4, <1>5, <1>6, <1>7, <1>8, <1>9, <1>10, <1>11, <1>12, <1>13,
     <1>14, <1>15, <1>16, <1>17, <1>18, <1>19, <1>20, <1>21, <1>22, <1>23, <1>24, <1>25, <1>26, <1>27
  DEF Next, AdminStep, WorkerStep, TurnStep, PersonStep, JobStep

\* The admin's rows and the person's jobs stay apart.
LEMMA JobsStep == MovesInv /\ [Next]_vars => JobsApart'
<1> SUFFICES ASSUME MovesInv, [Next]_vars PROVE JobsApart'
  OBVIOUS
<1> USE BoxesAssumption, LimitsAssumption
<1> USE DEF MovesInv, TypeOK, TurnsConsistent, JobsApart, moveVars, accountVars, turnVars,
            mailVars, ghostVars,
            AdminMoveOpen, PersonalMoveRunning
<1>1. ASSUME NEW b \in Boxes, QueueDue(b) PROVE JobsApart'
  BY <1>1 DEF QueueDue
<1>2. ASSUME NEW bs \in SUBSET Boxes, CreateMove(bs) PROVE JobsApart'
  BY <1>2 DEF CreateMove, InsertMailboxes, TurnsOn
<1>3. CASE FinishMove
  BY <1>3 DEF FinishMove, Settle, TornFrom, Open, AdminMoveOpen
<1>4. CASE FinishSkipping
  BY <1>4 DEF FinishSkipping, Settle, TornFrom, Open, AdminMoveOpen
<1>5. CASE DeleteMove
  BY <1>5 DEF DeleteMove, Forget, TornFrom
<1>6. ASSUME NEW b \in Boxes, AddMailbox(b) PROVE JobsApart'
  BY <1>6 DEF AddMailbox, InsertMailboxes, TurnsOn
<1>7. ASSUME NEW b \in Boxes, RetryMailbox(b) PROVE JobsApart'
  BY <1>7 DEF RetryMailbox
<1>8. ASSUME NEW b \in Boxes, PauseMailbox(b) PROVE JobsApart'
  BY <1>8 DEF PauseMailbox, TornFrom
<1>9. ASSUME NEW b \in Boxes, RemoveMailbox(b) PROVE JobsApart'
  BY <1>9 DEF RemoveMailbox, Forget, TornFrom, Settle
<1>10. ASSUME NEW b \in Boxes, Trash(b) PROVE JobsApart'
  BY <1>10 DEF Trash, Settle, TornFrom, AdminMoveOpen
<1>11. CASE RecoverMoves
  BY <1>11 DEF RecoverMoves, Fault, Recovered, Requeued
<1>12. ASSUME NEW t \in Turns, NEW b \in Boxes, Take(t, b) PROVE JobsApart'
  BY <1>12 DEF Take
<1>13. ASSUME NEW t \in Turns, FinishTurn(t) PROVE JobsApart'
  BY <1>13 DEF FinishTurn, Over, RoundOver, HandedBack, Settle, Free, TurnsOn
<1>14. ASSUME NEW b \in Movers, QueueJob(b) PROVE JobsApart'
  BY <1>14 DEF QueueJob
<1>15. ASSUME NEW b \in Movers, StopJob(b) PROVE JobsApart'
  BY <1>15 DEF StopJob
<1>16. CASE RecoverJobs
  BY <1>16 DEF RecoverJobs, Fault, Recovered, Requeued
<1>17. ASSUME NEW b \in Boxes, TakeJob(b) PROVE JobsApart'
  BY <1>17 DEF TakeJob
<1>18. ASSUME NEW run \in {"queued", "idle"}, FinishJob(run) PROVE JobsApart'
  BY <1>18 DEF FinishJob
<1>19. CASE FinishJobFails
  BY <1>19 DEF FinishJobFails, Fault
<1>20. CASE Stop
  BY <1>20 DEF Stop, Restarts, Fault, Free, Requeued
<1>21. CASE Crash
  BY <1>21 DEF Crash, Restarts, Fault, Free
<1>22. ASSUME
      \/ \E b \in Boxes : Arrive(b) \/ Restore(b)
      \/ PauseMove \/ ResumeMove
      \/ \E t \in Turns : Begin(t) \/ BeginNot(t) \/ Portion(t) \/ Finished(t) \/ LeftForNext(t) \/
                          OutOfTime(t) \/ Breaks(t) \/ FinishTurnFails(t)
    PROVE JobsApart'
  BY <1>22 DEF Arrive, PauseMove, ResumeMove, Restore, Begin, BeginNot, Portion, Finished,
     LeftForNext, OutOfTime, Breaks, FinishTurnFails, GoesOn, Fault, Wanted, Ends, Over,
     Free
<1>23. CASE UNCHANGED vars
  BY <1>23 DEF vars
<1>24. ASSUME NEW b \in Boxes, DeleteAccount(b) PROVE JobsApart'
  BY <1>24 DEF DeleteAccount, Forget, TornFrom
<1>25. ASSUME NEW b \in Boxes, NewAccount(b) PROVE JobsApart'
  BY <1>25 DEF NewAccount, TurnsOn
<1> QED
  BY <1>1, <1>2, <1>3, <1>4, <1>5, <1>6, <1>7, <1>8, <1>9, <1>10, <1>11, <1>12, <1>13,
     <1>14, <1>15, <1>16, <1>17, <1>18, <1>19, <1>20, <1>21, <1>22, <1>23, <1>24, <1>25
  DEF Next, AdminStep, WorkerStep, TurnStep, PersonStep, JobStep

\* Rows fit the state of their move.
LEMMA RowsOfMoveStep == MovesInv /\ [Next]_vars => RowsOfMove'
<1> SUFFICES ASSUME MovesInv, [Next]_vars PROVE RowsOfMove'
  OBVIOUS
<1> USE BoxesAssumption, LimitsAssumption
<1> USE DEF MovesInv, TypeOK, TurnsConsistent, RowsOfMove, moveVars, accountVars, turnVars,
            mailVars, ghostVars,
            Open, AdminMoveOpen
<1>1. ASSUME NEW b \in Boxes, QueueDue(b) PROVE RowsOfMove'
  BY <1>1 DEF QueueDue
<1>2. ASSUME NEW bs \in SUBSET Boxes, CreateMove(bs) PROVE RowsOfMove'
  BY <1>2 DEF CreateMove, InsertMailboxes, TurnsOn
<1>3. CASE PauseMove
  BY <1>3 DEF PauseMove
<1>4. CASE ResumeMove
  BY <1>4 DEF ResumeMove
<1>5. CASE FinishMove
  BY <1>5 DEF FinishMove, Settle, TornFrom, Open, AdminMoveOpen
<1>6. CASE FinishSkipping
  BY <1>6 DEF FinishSkipping, Settle, TornFrom, Open, AdminMoveOpen
<1>7. CASE DeleteMove
  BY <1>7 DEF DeleteMove, Forget, TornFrom
<1>8. ASSUME NEW b \in Boxes, AddMailbox(b) PROVE RowsOfMove'
  BY <1>8 DEF AddMailbox, InsertMailboxes, TurnsOn
<1>9. ASSUME NEW b \in Boxes, RetryMailbox(b) PROVE RowsOfMove'
  BY <1>9 DEF RetryMailbox
<1>10. ASSUME NEW b \in Boxes, PauseMailbox(b) PROVE RowsOfMove'
  BY <1>10 DEF PauseMailbox, TornFrom
<1>11. ASSUME NEW b \in Boxes, RemoveMailbox(b) PROVE RowsOfMove'
  BY <1>11 DEF RemoveMailbox, Forget, TornFrom, Settle
<1>12. ASSUME NEW b \in Boxes, Trash(b) PROVE RowsOfMove'
  BY <1>12 DEF Trash, Settle, TornFrom, AdminMoveOpen
<1>13. CASE RecoverMoves
  BY <1>13 DEF RecoverMoves, Fault, Recovered, Requeued
<1>14. ASSUME NEW t \in Turns, NEW b \in Boxes, Take(t, b) PROVE RowsOfMove'
  BY <1>14 DEF Take
<1>15. ASSUME NEW t \in Turns, FinishTurn(t) PROVE RowsOfMove'
  BY <1>15 DEF FinishTurn, Over, RoundOver, HandedBack, Settle, Free, TurnsOn
<1>16. CASE Stop
  BY <1>16 DEF Stop, Restarts, Fault, Free, Requeued
<1>17. ASSUME
      \/ \E b \in Boxes : Arrive(b) \/ Restore(b) \/ TakeJob(b)
      \/ \E t \in Turns : Begin(t) \/ BeginNot(t) \/ Portion(t) \/ Finished(t) \/ LeftForNext(t) \/
                          OutOfTime(t) \/ Breaks(t) \/ FinishTurnFails(t)
      \/ \E b \in Movers : QueueJob(b)
      \/ \E b \in Movers : StopJob(b)
      \/ RecoverJobs \/ FinishJobFails \/ Crash
      \/ \E run \in {"queued", "idle"} : FinishJob(run)
    PROVE RowsOfMove'
  BY <1>17 DEF Arrive, Restore, Begin, BeginNot, Portion, Finished, LeftForNext, OutOfTime, Breaks,
     FinishTurnFails, QueueJob, StopJob, RecoverJobs, TakeJob, FinishJob, FinishJobFails,
     Crash, GoesOn, Fault, Wanted, Ends, Over, Free, Recovered, Requeued, Restarts
<1>18. CASE UNCHANGED vars
  BY <1>18 DEF vars
<1>19. ASSUME NEW b \in Boxes, DeleteAccount(b) PROVE RowsOfMove'
  BY <1>19 DEF DeleteAccount, Forget, TornFrom
<1>20. ASSUME NEW b \in Boxes, NewAccount(b) PROVE RowsOfMove'
  BY <1>20 DEF NewAccount, TurnsOn
<1> QED
  BY <1>1, <1>2, <1>3, <1>4, <1>5, <1>6, <1>7, <1>8, <1>9, <1>10, <1>11, <1>12, <1>13,
     <1>14, <1>15, <1>16, <1>17, <1>18, <1>19, <1>20
  DEF Next, AdminStep, WorkerStep, TurnStep, PersonStep, JobStep

\* Only delete_account takes an account away, with its row.
LEMMA GoneStep == MovesInv /\ [Next]_vars => GoneAccounts'
<1> SUFFICES ASSUME MovesInv, [Next]_vars PROVE GoneAccounts'
  OBVIOUS
<1> USE BoxesAssumption, LimitsAssumption
<1> USE DEF MovesInv, TypeOK, TurnsConsistent, RowsOfTurns, GoneAccounts, moveVars, accountVars, turnVars,
            mailVars, ghostVars
<1>1. ASSUME NEW b \in Boxes, QueueDue(b) PROVE GoneAccounts'
  BY <1>1 DEF QueueDue
<1>2. ASSUME NEW bs \in SUBSET Boxes, CreateMove(bs) PROVE GoneAccounts'
  BY <1>2 DEF CreateMove, InsertMailboxes
<1>3. CASE FinishMove
  BY <1>3 DEF FinishMove, Settle, TornFrom, Open, AdminMoveOpen
<1>4. CASE FinishSkipping
  BY <1>4 DEF FinishSkipping, Settle, TornFrom, Open, AdminMoveOpen
<1>5. CASE DeleteMove
  BY <1>5 DEF DeleteMove, Forget, TornFrom
<1>6. ASSUME NEW b \in Boxes, AddMailbox(b) PROVE GoneAccounts'
  BY <1>6 DEF AddMailbox, InsertMailboxes
<1>7. ASSUME NEW b \in Boxes, RetryMailbox(b) PROVE GoneAccounts'
  BY <1>7 DEF RetryMailbox
<1>8. ASSUME NEW b \in Boxes, PauseMailbox(b) PROVE GoneAccounts'
  BY <1>8 DEF PauseMailbox, TornFrom
<1>9. ASSUME NEW b \in Boxes, RemoveMailbox(b) PROVE GoneAccounts'
  BY <1>9 DEF RemoveMailbox, Forget, TornFrom, Settle
<1>10. ASSUME NEW b \in Boxes, Trash(b) PROVE GoneAccounts'
  BY <1>10 DEF Trash, Settle, TornFrom, AdminMoveOpen
<1>11. ASSUME NEW b \in Boxes, Restore(b) PROVE GoneAccounts'
  BY <1>11 DEF Restore
<1>12. ASSUME NEW b \in Boxes, DeleteAccount(b) PROVE GoneAccounts'
  BY <1>12 DEF DeleteAccount, Forget, TornFrom
<1>13. ASSUME NEW b \in Boxes, NewAccount(b) PROVE GoneAccounts'
  BY <1>13 DEF NewAccount
<1>14. CASE RecoverMoves
  BY <1>14 DEF RecoverMoves, Fault, Recovered, Requeued
<1>15. ASSUME NEW t \in Turns, NEW b \in Boxes, Take(t, b) PROVE GoneAccounts'
  BY <1>15 DEF Take
<1>16. ASSUME NEW t \in Turns, FinishTurn(t) PROVE GoneAccounts'
  BY <1>16 DEF FinishTurn, Over, RoundOver, HandedBack, Settle, Free, TurnsOn
<1>17. CASE Stop
  BY <1>17 DEF Stop, Restarts, Fault, Free, Requeued
<1>18. ASSUME
      \/ \E b \in Boxes : Arrive(b) \/ TakeJob(b)
      \/ PauseMove \/ ResumeMove \/ RecoverJobs \/ FinishJobFails \/ Crash
      \/ \E t \in Turns : Begin(t) \/ BeginNot(t) \/ Portion(t) \/ Finished(t) \/ LeftForNext(t) \/
                          OutOfTime(t) \/ Breaks(t) \/ FinishTurnFails(t)
      \/ \E b \in Movers : QueueJob(b)
      \/ \E b \in Movers : StopJob(b)
      \/ \E run \in {"queued", "idle"} : FinishJob(run)
    PROVE GoneAccounts'
  BY <1>18 DEF Arrive, PauseMove, ResumeMove, Begin, BeginNot, Portion, Finished, LeftForNext,
     OutOfTime, Breaks, FinishTurnFails, QueueJob, StopJob, RecoverJobs, TakeJob, FinishJob,
     FinishJobFails, Crash, Restarts
<1>19. CASE UNCHANGED vars
  BY <1>19 DEF vars
<1> QED
  BY <1>1, <1>2, <1>3, <1>4, <1>5, <1>6, <1>7, <1>8, <1>9, <1>10, <1>11, <1>12, <1>13,
     <1>14, <1>15, <1>16, <1>17, <1>18, <1>19
  DEF Next, AdminStep, WorkerStep, TurnStep, PersonStep, JobStep

\* What is remembered never runs ahead of what was handled.
LEMMA MailOrderStep == MovesInv /\ [Next]_vars => MailOrder'
<1> SUFFICES ASSUME MovesInv, [Next]_vars PROVE MailOrder'
  OBVIOUS
<1> USE BoxesAssumption, LimitsAssumption
<1> USE DEF MovesInv, TypeOK, TurnsConsistent, GoneAccounts, MailOrder, moveVars, accountVars,
            turnVars, mailVars, ghostVars
<1>1. ASSUME NEW b \in Boxes, Arrive(b) PROVE MailOrder'
  BY <1>1 DEF Arrive
<1>2. CASE FinishMove
  BY <1>2 DEF FinishMove, Settle, TornFrom, Open, AdminMoveOpen
<1>3. CASE DeleteMove
  BY <1>3 DEF DeleteMove, Forget, TornFrom
<1>4. ASSUME NEW b \in Boxes, RemoveMailbox(b) PROVE MailOrder'
  BY <1>4 DEF RemoveMailbox, Forget, TornFrom, Settle
<1>5. ASSUME NEW t \in Turns, NEW b \in Boxes, Take(t, b) PROVE MailOrder'
  BY <1>5 DEF Take
<1>6. ASSUME NEW t \in Turns, Begin(t) PROVE MailOrder'
  BY <1>6 DEF Begin, GoesOn, Fault, Wanted, Ends
<1>7. ASSUME NEW t \in Turns, BeginNot(t) PROVE MailOrder'
  BY <1>7 DEF BeginNot, Ends
<1>8. ASSUME NEW t \in Turns, Portion(t) PROVE MailOrder'
  BY <1>8 DEF Portion, GoesOn, Fault, Wanted, Ends
<1>9. ASSUME NEW t \in Turns, Finished(t) PROVE MailOrder'
  BY <1>9 DEF Finished, GoesOn, Fault, Wanted, Ends
<1>10. ASSUME NEW t \in Turns, LeftForNext(t) PROVE MailOrder'
  BY <1>10 DEF LeftForNext, Fault, Ends
<1>11. ASSUME NEW t \in Turns, OutOfTime(t) PROVE MailOrder'
  BY <1>11 DEF OutOfTime, Fault, Ends
<1>12. ASSUME NEW t \in Turns, Breaks(t) PROVE MailOrder'
  BY <1>12 DEF Breaks, Ends
<1>13. ASSUME NEW t \in Turns, FinishTurn(t) PROVE MailOrder'
  BY <1>13 DEF FinishTurn, Over, RoundOver, HandedBack, Settle, Free, TurnsOn
<1>14. ASSUME NEW t \in Turns, FinishTurnFails(t) PROVE MailOrder'
  BY <1>14 DEF FinishTurnFails, Fault, Over, Free
<1>15. CASE Stop
  BY <1>15 DEF Stop, Restarts, Fault, Free, Requeued
<1>16. CASE Crash
  BY <1>16 DEF Crash, Restarts, Fault, Free
<1>17. ASSUME
      \/ \E b \in Boxes : QueueDue(b) \/ AddMailbox(b) \/ RetryMailbox(b) \/ PauseMailbox(b) \/
                          Trash(b) \/ Restore(b) \/ TakeJob(b)
      \/ \E bs \in SUBSET Boxes : CreateMove(bs)
      \/ PauseMove \/ ResumeMove \/ FinishSkipping \/ RecoverMoves \/ RecoverJobs \/
         FinishJobFails
      \/ \E b \in Movers : QueueJob(b)
      \/ \E b \in Movers : StopJob(b)
      \/ \E run \in {"queued", "idle"} : FinishJob(run)
    PROVE MailOrder'
  BY <1>17 DEF QueueDue, CreateMove, PauseMove, ResumeMove, FinishSkipping, AddMailbox,
     RetryMailbox, PauseMailbox, Trash, Restore, RecoverMoves, QueueJob, StopJob,
     RecoverJobs, TakeJob, FinishJob, FinishJobFails, InsertMailboxes, TurnsOn, Settle,
     TornFrom, Open, AdminMoveOpen, Fault, Recovered, Requeued
<1>18. CASE UNCHANGED vars
  BY <1>18 DEF vars
<1>19. ASSUME NEW b \in Boxes, DeleteAccount(b) PROVE MailOrder'
  BY <1>19 DEF DeleteAccount, Forget, TornFrom
<1>20. ASSUME NEW b \in Boxes, NewAccount(b) PROVE MailOrder'
  BY <1>20 DEF NewAccount, TurnsOn
<1> QED
  BY <1>1, <1>2, <1>3, <1>4, <1>5, <1>6, <1>7, <1>8, <1>9, <1>10, <1>11, <1>12, <1>13,
     <1>14, <1>15, <1>16, <1>17, <1>18, <1>19, <1>20
  DEF Next, AdminStep, WorkerStep, TurnStep, PersonStep, JobStep

\* A last round stays with its row and covers what is owed.
LEMMA LastRoundsStep == MovesInv /\ [Next]_vars => LastRounds'
<1> SUFFICES ASSUME MovesInv, [Next]_vars PROVE LastRounds'
  OBVIOUS
<1> USE BoxesAssumption, LimitsAssumption
<1> USE DEF MovesInv, TypeOK, TurnsConsistent, RowsOfMove, GoneAccounts, MailOrder, LastRounds,
            moveVars, accountVars,
            turnVars, mailVars, ghostVars
<1>1. ASSUME NEW b \in Boxes, Arrive(b) PROVE LastRounds'
  BY <1>1 DEF Arrive
<1>2. ASSUME NEW b \in Boxes, QueueDue(b) PROVE LastRounds'
  BY <1>2 DEF QueueDue
<1>3. ASSUME NEW bs \in SUBSET Boxes, CreateMove(bs) PROVE LastRounds'
  BY <1>3 DEF CreateMove, InsertMailboxes, TurnsOn
<1>4. CASE FinishMove
  BY <1>4 DEF FinishMove, Settle, TornFrom, Open, AdminMoveOpen
<1>5. CASE FinishSkipping
  BY <1>5 DEF FinishSkipping, Settle, TornFrom, Open, AdminMoveOpen
<1>6. CASE DeleteMove
  BY <1>6 DEF DeleteMove, Forget, TornFrom
<1>7. ASSUME NEW b \in Boxes, AddMailbox(b) PROVE LastRounds'
  BY <1>7 DEF AddMailbox, InsertMailboxes, TurnsOn
<1>8. ASSUME NEW b \in Boxes, RetryMailbox(b) PROVE LastRounds'
  BY <1>8 DEF RetryMailbox
<1>9. ASSUME NEW b \in Boxes, PauseMailbox(b) PROVE LastRounds'
  BY <1>9 DEF PauseMailbox, TornFrom
<1>10. ASSUME NEW b \in Boxes, RemoveMailbox(b) PROVE LastRounds'
  BY <1>10 DEF RemoveMailbox, Forget, TornFrom, Settle
<1>11. ASSUME NEW b \in Boxes, Trash(b) PROVE LastRounds'
  BY <1>11 DEF Trash, Settle, TornFrom, AdminMoveOpen
<1>12. CASE RecoverMoves
  BY <1>12 DEF RecoverMoves, Fault, Recovered, Requeued
<1>13. ASSUME NEW t \in Turns, NEW b \in Boxes, Take(t, b) PROVE LastRounds'
  BY <1>13 DEF Take
<1>14. ASSUME NEW t \in Turns, Begin(t) PROVE LastRounds'
  BY <1>14 DEF Begin, GoesOn, Fault, Wanted, Ends
<1>15. ASSUME NEW t \in Turns, BeginNot(t) PROVE LastRounds'
  BY <1>15 DEF BeginNot, Ends
<1>16. ASSUME NEW t \in Turns, Portion(t) PROVE LastRounds'
  BY <1>16 DEF Portion, GoesOn, Fault, Wanted, Ends
<1>17. ASSUME NEW t \in Turns, Finished(t) PROVE LastRounds'
  BY <1>17 DEF Finished, GoesOn, Fault, Wanted, Ends
<1>18. ASSUME NEW t \in Turns, LeftForNext(t) PROVE LastRounds'
  BY <1>18 DEF LeftForNext, Fault, Ends
<1>19. ASSUME NEW t \in Turns, OutOfTime(t) PROVE LastRounds'
  BY <1>19 DEF OutOfTime, Fault, Ends
<1>20. ASSUME NEW t \in Turns, Breaks(t) PROVE LastRounds'
  BY <1>20 DEF Breaks, Ends
<1>21. ASSUME NEW t \in Turns, FinishTurn(t) PROVE LastRounds'
  BY <1>21 DEF FinishTurn, Over, RoundOver, HandedBack, Settle, Free, TurnsOn
<1>22. ASSUME NEW t \in Turns, FinishTurnFails(t) PROVE LastRounds'
  BY <1>22 DEF FinishTurnFails, Fault, Over, Free
<1>23. CASE Stop
  BY <1>23 DEF Stop, Restarts, Fault, Free, Requeued
<1>24. CASE Crash
  BY <1>24 DEF Crash, Restarts, Fault, Free
<1>25. ASSUME
      \/ PauseMove \/ ResumeMove \/ RecoverJobs \/ FinishJobFails
      \/ \E b \in Boxes : Restore(b) \/ TakeJob(b)
      \/ \E b \in Movers : QueueJob(b)
      \/ \E b \in Movers : StopJob(b)
      \/ \E run \in {"queued", "idle"} : FinishJob(run)
    PROVE LastRounds'
  BY <1>25 DEF PauseMove, ResumeMove, Restore, QueueJob, StopJob, RecoverJobs, TakeJob, FinishJob,
     FinishJobFails, Fault, Recovered, Requeued
<1>26. CASE UNCHANGED vars
  BY <1>26 DEF vars
<1>27. ASSUME NEW b \in Boxes, DeleteAccount(b) PROVE LastRounds'
  BY <1>27 DEF DeleteAccount, Forget, TornFrom
<1>28. ASSUME NEW b \in Boxes, NewAccount(b) PROVE LastRounds'
  BY <1>28 DEF NewAccount, TurnsOn
<1> QED
  BY <1>1, <1>2, <1>3, <1>4, <1>5, <1>6, <1>7, <1>8, <1>9, <1>10, <1>11, <1>12, <1>13,
     <1>14, <1>15, <1>16, <1>17, <1>18, <1>19, <1>20, <1>21, <1>22, <1>23, <1>24, <1>25,
     <1>26, <1>27, <1>28
  DEF Next, AdminStep, WorkerStep, TurnStep, PersonStep, JobStep

\* Mailboxes that are through stay so until their row is gone.
LEMMA ThroughStep == MovesInv /\ [Next]_vars => Through'
<1> SUFFICES ASSUME MovesInv, [Next]_vars PROVE Through'
  OBVIOUS
<1> USE BoxesAssumption, LimitsAssumption
<1> USE DEF MovesInv, TypeOK, TurnsConsistent, RowsOfMove, LastRounds, Through, moveVars, accountVars,
            turnVars, mailVars, ghostVars, AdminMoveOpen
<1>1. ASSUME NEW b \in Boxes, QueueDue(b) PROVE Through'
  BY <1>1 DEF QueueDue
<1>2. ASSUME NEW bs \in SUBSET Boxes, CreateMove(bs) PROVE Through'
  BY <1>2 DEF CreateMove, InsertMailboxes, TurnsOn
<1>3. CASE FinishMove
  BY <1>3 DEF FinishMove, Settle, TornFrom, Open, AdminMoveOpen
<1>4. CASE FinishSkipping
  BY <1>4 DEF FinishSkipping, Settle, TornFrom, Open, AdminMoveOpen
<1>5. CASE DeleteMove
  BY <1>5 DEF DeleteMove, Forget, TornFrom
<1>6. ASSUME NEW b \in Boxes, AddMailbox(b) PROVE Through'
  BY <1>6 DEF AddMailbox, InsertMailboxes, TurnsOn
<1>7. ASSUME NEW b \in Boxes, RetryMailbox(b) PROVE Through'
  BY <1>7 DEF RetryMailbox
<1>8. ASSUME NEW b \in Boxes, PauseMailbox(b) PROVE Through'
  BY <1>8 DEF PauseMailbox, TornFrom
<1>9. ASSUME NEW b \in Boxes, RemoveMailbox(b) PROVE Through'
  BY <1>9 DEF RemoveMailbox, Forget, TornFrom, Settle
<1>10. ASSUME NEW b \in Boxes, Trash(b) PROVE Through'
  BY <1>10 DEF Trash, Settle, TornFrom, AdminMoveOpen
<1>11. CASE RecoverMoves
  BY <1>11 DEF RecoverMoves, Fault, Recovered, Requeued
<1>12. ASSUME NEW t \in Turns, NEW b \in Boxes, Take(t, b) PROVE Through'
  BY <1>12 DEF Take
<1>13. ASSUME NEW t \in Turns, Portion(t) PROVE Through'
  BY <1>13 DEF Portion, GoesOn, Fault, Wanted, Ends
<1>14. ASSUME NEW t \in Turns, FinishTurn(t) PROVE Through'
  BY <1>14 DEF FinishTurn, Over, RoundOver, HandedBack, Settle, Free, TurnsOn
<1>15. CASE Stop
  BY <1>15 DEF Stop, Restarts, Fault, Free, Requeued
<1>16. ASSUME
      \/ \E b \in Boxes : Arrive(b) \/ Restore(b) \/ TakeJob(b)
      \/ PauseMove \/ ResumeMove \/ RecoverJobs \/ FinishJobFails \/ Crash
      \/ \E t \in Turns : Begin(t) \/ BeginNot(t) \/ Finished(t) \/ LeftForNext(t) \/ OutOfTime(t) \/
                          Breaks(t) \/ FinishTurnFails(t)
      \/ \E b \in Movers : QueueJob(b)
      \/ \E b \in Movers : StopJob(b)
      \/ \E run \in {"queued", "idle"} : FinishJob(run)
    PROVE Through'
  BY <1>16 DEF Arrive, PauseMove, ResumeMove, Restore, Begin, BeginNot, Finished, LeftForNext,
     OutOfTime, Breaks, FinishTurnFails, QueueJob, StopJob, RecoverJobs, TakeJob,
     FinishJob, FinishJobFails, Crash, GoesOn, Fault, Wanted, Ends, Over, Free,
     Recovered, Requeued, Restarts
<1>17. CASE UNCHANGED vars
  BY <1>17 DEF vars
<1>18. ASSUME NEW b \in Boxes, DeleteAccount(b) PROVE Through'
  BY <1>18 DEF DeleteAccount, Forget, TornFrom
<1>19. ASSUME NEW b \in Boxes, NewAccount(b) PROVE Through'
  BY <1>19 DEF NewAccount, TurnsOn
<1> QED
  BY <1>1, <1>2, <1>3, <1>4, <1>5, <1>6, <1>7, <1>8, <1>9, <1>10, <1>11, <1>12, <1>13,
     <1>14, <1>15, <1>16, <1>17, <1>18, <1>19
  DEF Next, AdminStep, WorkerStep, TurnStep, PersonStep, JobStep

\* The initial state is consistent.
LEMMA InitMovesInv == Init => MovesInv
<1> SUFFICES ASSUME Init PROVE MovesInv
  OBVIOUS
<1> USE BoxesAssumption, LimitsAssumption DEF Init
<1>1. TypeOK
  <2>1. jobLoose \in BOOLEAN /\ orphaned \in BOOLEAN
    OBVIOUS
  <2>2. faults \in 0 .. MaxFaults
    OBVIOUS
  <2> QED BY <2>1, <2>2 DEF TypeOK
<1>2. TurnsConsistent /\ RowsOfTurns
  BY DEF TurnsConsistent, RowsOfTurns
<1>3. JobsApart /\ RowsOfMove
  BY DEF JobsApart, RowsOfMove, AdminMoveOpen, PersonalMoveRunning, Open
<1>4. MailOrder /\ LastRounds /\ Through
  BY DEF MailOrder, LastRounds, Through
<1>5. GoneAccounts
  BY DEF GoneAccounts
<1> QED BY <1>1, <1>2, <1>3, <1>4, <1>5 DEF MovesInv

\* The invariant holds in every state that moves can get into.
THEOREM MovesInvariant == Spec => []MovesInv
<1>1. MovesInv /\ [Next]_vars => MovesInv'
  BY TypeStep, TurnsStep, RowsOfTurnsStep, JobsStep, RowsOfMoveStep, GoneStep,
     MailOrderStep, LastRoundsStep, ThroughStep DEF MovesInv
<1> QED BY <1>1, InitMovesInv, PTL DEF Spec

\* Every variable keeps its type.
THEOREM MovesTypeCorrect == Spec => []TypeOK
  BY MovesInvariant, PTL DEF MovesInv

\* take_move_mailbox and take_migration_job never give a mailbox to a second filler,
\* whatever is paused, retried, removed, trashed or restarted between them.
THEOREM MovesOneFiller == Spec => []OneFiller
<1>1. MovesInv => OneFiller
  BY DEF MovesInv, TypeOK, RowsOfTurns, JobsApart, OneFiller, AdminMoveOpen, PersonalMoveRunning
<1> QED BY <1>1, MovesInvariant, PTL

\* settle ends a move only when nothing in it is open, and every way to the end of a
\* row wipes its password.
THEOREM MovesDoneIsOver == Spec => []DoneIsOver
<1>1. MovesInv => DoneIsOver
  BY DEF MovesInv, TypeOK, RowsOfMove, DoneIsOver, Open, AdminMoveOpen
<1> QED BY <1>1, MovesInvariant, PTL

\* finish_move_turn calls a mailbox done only when a round that began after the admin
\* finished the move went through everything that was at the old server then.
THEOREM MovesLastRoundComplete == Spec => []LastRoundComplete
<1>1. MovesInv => LastRoundComplete
  BY DEF MovesInv, Through, LastRoundComplete
<1> QED BY <1>1, MovesInvariant, PTL
=============================================================================
