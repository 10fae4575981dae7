------------------------- MODULE SubmissionProofs -------------------------
(***************************************************************************)
(* What held submissions keep for any number of submissions and logins and *)
(* any bounds: nobody gets a message twice unless sending it was cut off,  *)
(* the row tells what happened, nothing that waits under an ended login is *)
(* released but the named exception, and holding back implements the undo  *)
(* window of UndoWindow.                                                   *)
(***************************************************************************)
EXTENDS Submission, TLAPS

\* What the last try did with somebody's message follows its fate.
LEMMA FateFrame ==
  ASSUME NEW s, fate'[s] = fate[s]
  PROVE  /\ Refused(s)' <=> Refused(s)
         /\ Leaves(s)' <=> Leaves(s)
         /\ NobodyAccepted(s)' <=> NobodyAccepted(s)
  BY DEF Refused, Leaves, NobodyAccepted

\* Every step keeps the types.
LEMMA TypeStep == SubInv /\ [Next]_vars => TypeOK'
<1> SUFFICES ASSUME SubInv, [Next]_vars PROVE TypeOK'
  OBVIOUS
<1> USE LoginsAssumption, LoginOfAssumption, RecipientsAssumption, OutcomesAssumption, NoSubAssumption,
        NumbersAssumption
<1> USE DEF SubInv, TypeOK, loginVars, requestVars, rowVars, sentVars, workerVars, historyVars
<1>1. ASSUME NEW s \in Subs, Open(s) PROVE TypeOK'
  BY <1>1 DEF Open
<1>2. ASSUME NEW s \in Subs, Check(s) PROVE TypeOK'
  BY <1>2 DEF Check
<1>3. ASSUME NEW s \in Subs, GiveUp(s) PROVE TypeOK'
  BY <1>3 DEF GiveUp
<1>4. ASSUME NEW s \in Subs, Hold(s) PROVE TypeOK'
  BY <1>4 DEF Hold
<1>5. ASSUME NEW s \in Subs, SubmitHere(s) PROVE TypeOK'
  BY <1>5 DEF SubmitHere, GiveHere, Fates
<1>6. ASSUME NEW s \in Subs, SubmitAway(s) PROVE TypeOK'
  BY <1>6 DEF SubmitAway, GiveAway, Bounce, Trouble
<1>7. ASSUME NEW s \in Subs, Record(s) PROVE TypeOK'
  BY <1>7 DEF Record
<1>8. ASSUME NEW s \in Subs, Cancel(s) PROVE TypeOK'
  BY <1>8 DEF Cancel
<1>9. ASSUME NEW s \in Subs, Destroy(s) PROVE TypeOK'
  BY <1>9 DEF Destroy
<1>10. ASSUME NEW l \in Logins, Revoke(l) PROVE TypeOK'
  BY <1>10 DEF Revoke, EndLogins, CancelHeld, MadeWith
<1>11. CASE BecomeService
  BY <1>11 DEF BecomeService, EndLogins, MadeWith, Kind
<1>12. ASSUME NEW keep \in SUBSET Kind({"session"}), ChangePassword(keep) PROVE TypeOK'
  BY <1>12 DEF ChangePassword, EndLogins, CancelHeld, MadeWith, Kind
<1>13. CASE SetPassword
  BY <1>13 DEF SetPassword, EndLogins, CancelHeld, MadeWith, Kind
<1>14. ASSUME NEW sessions \in SUBSET Logins, Disable(sessions) PROVE TypeOK'
  BY <1>14 DEF Disable, EndLogins, CancelHeld, MadeWith
<1>15. CASE Enable
  BY <1>15 DEF Enable
<1>16. CASE Claim
  BY <1>16 DEF Claim, FirstDue, Due, StillValid, Trouble
<1>17. CASE Wake
  BY <1>17 DEF Wake
<1>18. ASSUME NEW s \in Subs, SendHeld(s) PROVE TypeOK'
  BY <1>18 DEF SendHeld
<1>19. CASE SendRefused
  BY <1>19 DEF SendRefused
<1>20. CASE SendHere
  <2>1. current \in Subs /\ worker' = "gaveHere"
    BY <1>20 DEF SendHere, WorkerConsistent
  <2>2. /\ fate' \in [Subs -> SUBSET {"got", "refused", "dropped", "inside"}]
        /\ notice' \in [Subs -> {"none", "sent", "lost"}]
    BY <1>20, <2>1 DEF SendHere, GiveHere, Fates
  <2>3. delivered' \in [Subs -> Nat]
    BY <1>20, <2>1 DEF SendHere, GiveHere
  <2> QED BY <1>20, <2>1, <2>2, <2>3 DEF SendHere
<1>21. CASE SendAway
  <2>1. current \in Subs /\ worker' = "finish"
    BY <1>21 DEF SendAway, WorkerConsistent
  <2>2. notice' \in [Subs -> {"none", "sent", "lost"}]
    BY <1>21, <2>1 DEF SendAway, Bounce
  <2>3. queued' \in [Subs -> Nat] /\ troubles' \in Nat
    BY <1>21, <2>1 DEF SendAway, GiveAway, Bounce, Trouble
  <2>4. failure' \in BOOLEAN
    BY <1>21 DEF SendAway, NobodyAccepted
  <2> QED BY <1>21, <2>1, <2>2, <2>3, <2>4 DEF SendAway
<1>22. CASE SendAwayFails
  BY <1>22 DEF SendAwayFails
<1>23. CASE Finish
  <2>0. held \in [Subs -> BOOLEAN] /\ error \in [Subs -> BOOLEAN] /\ failure \in BOOLEAN
    OBVIOUS
  <2>1. held' \in [Subs -> BOOLEAN]
    <3>1. held' = held \/ held' = [held EXCEPT ![current] = FALSE]
      BY <1>23 DEF Finish
    <3> HIDE DEF SubInv
    <3> QED BY <2>0, <3>1
  <2>2. error' \in [Subs -> BOOLEAN]
    BY <1>23, <2>0 DEF Finish
  <2>3. worker' \in {"pick", "claim"} /\ current' = NoSub
    BY <1>23 DEF Finish, NextPick
  <2> QED BY <1>23, <2>1, <2>2, <2>3 DEF Finish
<1>24. CASE ClaimFails
  BY <1>24 DEF ClaimFails, Trouble
<1>25. CASE FinishFails
  <2>1. current \in Subs /\ cuts' \in [Subs -> Nat]
    BY <1>25 DEF FinishFails, WorkerConsistent
  <2>2. troubles' \in Nat
    BY <1>25 DEF FinishFails, Trouble
  <2> QED BY <1>25, <2>1, <2>2 DEF FinishFails, NextPick
<1>26. CASE Crash
  <2>1. cuts' \in [Subs -> Nat]
    BY <1>26 DEF Crash, Trouble
  <2>2. troubles' \in Nat
    BY <1>26 DEF Crash, Trouble
  <2>3. request' \in [Subs -> {"new", "open", "checked", "gaveHere", "gaveAll", "over"}]
    BY <1>26 DEF Crash
  <2> QED BY <1>26, <2>1, <2>2, <2>3 DEF Crash
<1>27. CASE Tick
  BY <1>27 DEF Tick
<1>28. CASE UNCHANGED vars
  BY <1>28 DEF vars
<1> QED
  BY <1>1, <1>2, <1>3, <1>4, <1>5, <1>6, <1>7, <1>8, <1>9, <1>10, <1>11, <1>12, <1>13, <1>14, <1>15,
     <1>16, <1>17, <1>18, <1>19, <1>20, <1>21, <1>22, <1>23, <1>24, <1>25, <1>26, <1>27, <1>28 DEF Next,
     WorkerStep, Kind

\* Rows and requests stay consistent.
LEMMA RowsConsistentStep == SubInv /\ [Next]_vars => RowsConsistent'
<1> SUFFICES ASSUME SubInv, [Next]_vars PROVE RowsConsistent'
  OBVIOUS
<1> USE LoginsAssumption, LoginOfAssumption, RecipientsAssumption, OutcomesAssumption, NoSubAssumption,
        NumbersAssumption
<1> USE DEF SubInv, TypeOK, RowsConsistent, WorkerConsistent, SentSoFar, HandedOnce, RecordTrue,
            EndedKnown, loginVars, requestVars, rowVars, sentVars, workerVars, historyVars
<1>1. ASSUME NEW s \in Subs, Open(s) PROVE RowsConsistent'
  BY <1>1 DEF Open
<1>2. ASSUME NEW s \in Subs, Check(s) PROVE RowsConsistent'
  BY <1>2 DEF Check
<1>3. ASSUME NEW s \in Subs, GiveUp(s) PROVE RowsConsistent'
  BY <1>3 DEF GiveUp
<1>4. ASSUME NEW s \in Subs, Hold(s) PROVE RowsConsistent'
  BY <1>4 DEF Hold
<1>5. ASSUME NEW s \in Subs, SubmitHere(s) PROVE RowsConsistent'
  BY <1>5 DEF SubmitHere, GiveHere, Fates
<1>6. ASSUME NEW s \in Subs, SubmitAway(s) PROVE RowsConsistent'
  BY <1>6 DEF SubmitAway, GiveAway, Bounce, Trouble
<1>7. ASSUME NEW s \in Subs, Record(s) PROVE RowsConsistent'
  BY <1>7 DEF Record
<1>8. ASSUME NEW s \in Subs, Cancel(s) PROVE RowsConsistent'
  BY <1>8 DEF Cancel
<1>9. ASSUME NEW s \in Subs, Destroy(s) PROVE RowsConsistent'
  BY <1>9 DEF Destroy
<1>10. ASSUME NEW l \in Logins, Revoke(l) PROVE RowsConsistent'
  BY <1>10 DEF Revoke, EndLogins, CancelHeld, MadeWith
<1>11. CASE BecomeService
  BY <1>11 DEF BecomeService, EndLogins, MadeWith, Kind
<1>12. ASSUME NEW keep \in SUBSET Kind({"session"}), ChangePassword(keep) PROVE RowsConsistent'
  BY <1>12 DEF ChangePassword, EndLogins, CancelHeld, MadeWith, Kind
<1>13. CASE SetPassword
  BY <1>13 DEF SetPassword, EndLogins, CancelHeld, MadeWith, Kind
<1>14. ASSUME NEW sessions \in SUBSET Logins, Disable(sessions) PROVE RowsConsistent'
  BY <1>14 DEF Disable, EndLogins, CancelHeld, MadeWith
<1>15. CASE Enable
  BY <1>15 DEF Enable
<1>16. CASE Claim
  BY <1>16 DEF Claim, FirstDue, Due, StillValid, Trouble
<1>17. CASE Wake
  BY <1>17 DEF Wake
<1>18. ASSUME NEW s \in Subs, SendHeld(s) PROVE RowsConsistent'
  BY <1>18 DEF SendHeld
<1>19. CASE SendRefused
  BY <1>19 DEF SendRefused
<1>20. CASE SendHere
  BY <1>20 DEF SendHere, GiveHere, Fates
<1>21. CASE SendAway
  BY <1>21 DEF SendAway, GiveAway, Bounce, Trouble
<1>22. CASE SendAwayFails
  BY <1>22 DEF SendAwayFails
<1>23. CASE Finish
  BY <1>23 DEF Finish, NextPick
<1>24. CASE ClaimFails
  BY <1>24 DEF ClaimFails, Trouble
<1>25. CASE FinishFails
  BY <1>25 DEF FinishFails, NextPick, Trouble
<1>26. CASE Crash
  BY <1>26 DEF Crash, Trouble
<1>27. CASE Tick
  BY <1>27 DEF Tick
<1>28. CASE UNCHANGED vars
  BY <1>28 DEF vars
<1> QED
  BY <1>1, <1>2, <1>3, <1>4, <1>5, <1>6, <1>7, <1>8, <1>9, <1>10, <1>11, <1>12, <1>13, <1>14, <1>15,
     <1>16, <1>17, <1>18, <1>19, <1>20, <1>21, <1>22, <1>23, <1>24, <1>25, <1>26, <1>27, <1>28 DEF Next,
     WorkerStep, Kind

\* So do the worker's variables and the rows it claimed.
LEMMA WorkerConsistentStep == SubInv /\ [Next]_vars => WorkerConsistent'
<1> SUFFICES ASSUME SubInv, [Next]_vars PROVE WorkerConsistent'
  OBVIOUS
<1> USE LoginsAssumption, LoginOfAssumption, RecipientsAssumption, OutcomesAssumption, NoSubAssumption,
        NumbersAssumption
<1> USE DEF SubInv, TypeOK, RowsConsistent, WorkerConsistent, SentSoFar, HandedOnce, RecordTrue,
            EndedKnown, loginVars, requestVars, rowVars, sentVars, workerVars, historyVars
<1>1. ASSUME NEW s \in Subs, Open(s) PROVE WorkerConsistent'
  BY <1>1 DEF Open
<1>2. ASSUME NEW s \in Subs, Check(s) PROVE WorkerConsistent'
  BY <1>2 DEF Check
<1>3. ASSUME NEW s \in Subs, GiveUp(s) PROVE WorkerConsistent'
  BY <1>3 DEF GiveUp
<1>4. ASSUME NEW s \in Subs, Hold(s) PROVE WorkerConsistent'
  BY <1>4 DEF Hold
<1>5. ASSUME NEW s \in Subs, SubmitHere(s) PROVE WorkerConsistent'
  BY <1>5 DEF SubmitHere, GiveHere, Fates
<1>6. ASSUME NEW s \in Subs, SubmitAway(s) PROVE WorkerConsistent'
  BY <1>6 DEF SubmitAway, GiveAway, Bounce, Trouble
<1>7. ASSUME NEW s \in Subs, Record(s) PROVE WorkerConsistent'
  BY <1>7 DEF Record
<1>8. ASSUME NEW s \in Subs, Cancel(s) PROVE WorkerConsistent'
  BY <1>8 DEF Cancel
<1>9. ASSUME NEW s \in Subs, Destroy(s) PROVE WorkerConsistent'
  BY <1>9 DEF Destroy
<1>10. ASSUME NEW l \in Logins, Revoke(l) PROVE WorkerConsistent'
  BY <1>10 DEF Revoke, EndLogins, CancelHeld, MadeWith
<1>11. CASE BecomeService
  BY <1>11 DEF BecomeService, EndLogins, MadeWith, Kind
<1>12. ASSUME NEW keep \in SUBSET Kind({"session"}), ChangePassword(keep) PROVE WorkerConsistent'
  BY <1>12 DEF ChangePassword, EndLogins, CancelHeld, MadeWith, Kind
<1>13. CASE SetPassword
  BY <1>13 DEF SetPassword, EndLogins, CancelHeld, MadeWith, Kind
<1>14. ASSUME NEW sessions \in SUBSET Logins, Disable(sessions) PROVE WorkerConsistent'
  BY <1>14 DEF Disable, EndLogins, CancelHeld, MadeWith
<1>15. CASE Enable
  BY <1>15 DEF Enable
<1>16. CASE Claim
  BY <1>16 DEF Claim, FirstDue, Due, StillValid, Trouble
<1>17. CASE Wake
  BY <1>17 DEF Wake
<1>18. ASSUME NEW s \in Subs, SendHeld(s) PROVE WorkerConsistent'
  BY <1>18 DEF SendHeld
<1>19. CASE SendRefused
  BY <1>19 DEF SendRefused
<1>20. CASE SendHere
  BY <1>20 DEF SendHere, GiveHere, Fates
<1>21. CASE SendAway
  BY <1>21 DEF SendAway, GiveAway, Bounce, Trouble
<1>22. CASE SendAwayFails
  BY <1>22 DEF SendAwayFails
<1>23. CASE Finish
  BY <1>23 DEF Finish, NextPick
<1>24. CASE ClaimFails
  BY <1>24 DEF ClaimFails, Trouble
<1>25. CASE FinishFails
  BY <1>25 DEF FinishFails, NextPick, Trouble
<1>26. CASE Crash
  BY <1>26 DEF Crash, Trouble
<1>27. CASE Tick
  BY <1>27 DEF Tick
<1>28. CASE UNCHANGED vars
  BY <1>28 DEF vars
<1> QED
  BY <1>1, <1>2, <1>3, <1>4, <1>5, <1>6, <1>7, <1>8, <1>9, <1>10, <1>11, <1>12, <1>13, <1>14, <1>15,
     <1>16, <1>17, <1>18, <1>19, <1>20, <1>21, <1>22, <1>23, <1>24, <1>25, <1>26, <1>27, <1>28 DEF Next,
     WorkerStep, Kind

\* What waits under an ended login was held after it ended or when the account
\* became a service, or is found out at the claim.
LEMMA EndedKnownStep == SubInv /\ [Next]_vars => EndedKnown'
<1> SUFFICES ASSUME SubInv, [Next]_vars PROVE EndedKnown'
  OBVIOUS
<1> USE LoginsAssumption, LoginOfAssumption, RecipientsAssumption, OutcomesAssumption, NoSubAssumption,
        NumbersAssumption
<1> USE DEF SubInv, TypeOK, RowsConsistent, WorkerConsistent, SentSoFar, HandedOnce, RecordTrue,
            EndedKnown, loginVars, requestVars, rowVars, sentVars, workerVars, historyVars
<1>1. ASSUME NEW s \in Subs, Open(s) PROVE EndedKnown'
  BY <1>1 DEF Open
<1>2. ASSUME NEW s \in Subs, Check(s) PROVE EndedKnown'
  BY <1>2 DEF Check
<1>3. ASSUME NEW s \in Subs, GiveUp(s) PROVE EndedKnown'
  BY <1>3 DEF GiveUp
<1>4. ASSUME NEW s \in Subs, Hold(s) PROVE EndedKnown'
  BY <1>4 DEF Hold
<1>5. ASSUME NEW s \in Subs, SubmitHere(s) PROVE EndedKnown'
  BY <1>5 DEF SubmitHere, GiveHere, Fates
<1>6. ASSUME NEW s \in Subs, SubmitAway(s) PROVE EndedKnown'
  BY <1>6 DEF SubmitAway, GiveAway, Bounce, Trouble
<1>7. ASSUME NEW s \in Subs, Record(s) PROVE EndedKnown'
  BY <1>7 DEF Record
<1>8. ASSUME NEW s \in Subs, Cancel(s) PROVE EndedKnown'
  BY <1>8 DEF Cancel
<1>9. ASSUME NEW s \in Subs, Destroy(s) PROVE EndedKnown'
  BY <1>9 DEF Destroy
<1>10. ASSUME NEW l \in Logins, Revoke(l) PROVE EndedKnown'
  BY <1>10 DEF Revoke, EndLogins, CancelHeld, MadeWith
<1>11. CASE BecomeService
  BY <1>11 DEF BecomeService, EndLogins, MadeWith, Kind
<1>12. ASSUME NEW keep \in SUBSET Kind({"session"}), ChangePassword(keep) PROVE EndedKnown'
  BY <1>12 DEF ChangePassword, EndLogins, CancelHeld, MadeWith, Kind
<1>13. CASE SetPassword
  BY <1>13 DEF SetPassword, EndLogins, CancelHeld, MadeWith, Kind
<1>14. ASSUME NEW sessions \in SUBSET Logins, Disable(sessions) PROVE EndedKnown'
  BY <1>14 DEF Disable, EndLogins, CancelHeld, MadeWith
<1>15. CASE Enable
  BY <1>15 DEF Enable
<1>16. CASE Claim
  BY <1>16 DEF Claim, FirstDue, Due, StillValid, Trouble
<1>17. CASE Wake
  BY <1>17 DEF Wake
<1>18. ASSUME NEW s \in Subs, SendHeld(s) PROVE EndedKnown'
  BY <1>18 DEF SendHeld
<1>19. CASE SendRefused
  BY <1>19 DEF SendRefused
<1>20. CASE SendHere
  BY <1>20 DEF SendHere, GiveHere, Fates
<1>21. CASE SendAway
  BY <1>21 DEF SendAway, GiveAway, Bounce, Trouble
<1>22. CASE SendAwayFails
  BY <1>22 DEF SendAwayFails
<1>23. CASE Finish
  BY <1>23 DEF Finish, NextPick
<1>24. CASE ClaimFails
  BY <1>24 DEF ClaimFails, Trouble
<1>25. CASE FinishFails
  BY <1>25 DEF FinishFails, NextPick, Trouble
<1>26. CASE Crash
  BY <1>26 DEF Crash, Trouble
<1>27. CASE Tick
  BY <1>27 DEF Tick
<1>28. CASE UNCHANGED vars
  BY <1>28 DEF vars
<1> QED
  BY <1>1, <1>2, <1>3, <1>4, <1>5, <1>6, <1>7, <1>8, <1>9, <1>10, <1>11, <1>12, <1>13, <1>14, <1>15,
     <1>16, <1>17, <1>18, <1>19, <1>20, <1>21, <1>22, <1>23, <1>24, <1>25, <1>26, <1>27, <1>28 DEF Next,
     WorkerStep, Kind

\* The loop of submit_checked touches one submission.
LEMMA GiveHereFacts ==
  ASSUME TypeOK, NEW s \in Subs, GiveHere(s)
  PROVE  /\ fate'[s] \in Fates(s)
         /\ delivered'[s] = IF "got" \in fate'[s] THEN delivered[s] + 1 ELSE delivered[s]
         /\ \A t \in Subs : t # s =>
              fate'[t] = fate[t] /\ notice'[t] = notice[t] /\ delivered'[t] = delivered[t]
  BY DEF TypeOK, GiveHere

LEMMA GiveAwayFacts ==
  ASSUME TypeOK, NEW s \in Subs, GiveAway(s), Bounce(s)
  PROVE  /\ queued'[s] = IF Leaves(s) THEN queued[s] + 1 ELSE queued[s]
         /\ Refused(s) /\ ~NobodyAccepted(s) => notice'[s] # "none"
         /\ \A t \in Subs : t # s => notice'[t] = notice[t] /\ queued'[t] = queued[t]
<1>1. /\ queued'[s] = IF Leaves(s) THEN queued[s] + 1 ELSE queued[s]
      /\ \A t \in Subs : t # s => queued'[t] = queued[t]
  BY DEF TypeOK, GiveAway
<1>2. /\ Refused(s) /\ ~NobodyAccepted(s) => notice'[s] # "none"
      /\ \A t \in Subs : t # s => notice'[t] = notice[t]
  BY DEF TypeOK, Bounce
<1> QED BY <1>1, <1>2

\* Whom a message has reached changes only where somebody gets it.
LEMMA RequestSentFrame ==
  ASSUME NEW t \in Subs, RequestSent(t),
         fate'[t] = fate[t], notice'[t] = notice[t], delivered'[t] = delivered[t], queued'[t] = queued[t],
         \/ request'[t] \in {request[t], "over"}
         \/ request[t] \in {"new", "open", "checked"} /\ request'[t] \in {"open", "checked"},
         undo'[t] \in {"pending", "canceled"} =>
           undo[t] \in {"pending", "canceled"} \/ request[t] \in {"new", "open", "checked"}
  PROVE  RequestSent(t)'
  BY FateFrame DEF RequestSent

LEMMA WorkerSentFrame ==
  ASSUME NEW t \in Subs, WorkerSent(t),
         fate'[t] = fate[t], notice'[t] = notice[t], delivered'[t] = delivered[t], queued'[t] = queued[t],
         cuts'[t] = cuts[t], worker' = worker, batch' = batch, current' = current, failure' = failure,
         undo'[t] = "final" /\ held'[t] => undo[t] = "final" /\ held[t]
  PROVE  WorkerSent(t)'
  BY FateFrame DEF WorkerSent

\* The same for a submission the worker is not sending and does not pick.
LEMMA OtherSentFrame ==
  ASSUME NEW t \in Subs, WorkerSent(t), t # current, t # current',
         delivered'[t] = delivered[t], queued'[t] = queued[t], cuts'[t] = cuts[t],
         t \in batch' \/ (undo'[t] = "final" /\ held'[t]) =>
           t \in batch \/ (undo[t] = "final" /\ held[t])
  PROVE  WorkerSent(t)'
  BY DEF WorkerSent

\* Whom a message can have reached follows its request.
LEMMA RequestSentStep == SubInv /\ [Next]_vars => \A t \in Subs : RequestSent(t)'
<1> SUFFICES ASSUME SubInv, [Next]_vars, NEW t \in Subs PROVE RequestSent(t)'
  OBVIOUS
<1> USE LoginsAssumption, LoginOfAssumption, OutcomesAssumption, NoSubAssumption
<1> USE DEF loginVars, requestVars, rowVars, sentVars, workerVars, historyVars
<1>0. TypeOK /\ RowsConsistent /\ WorkerConsistent /\ RequestSent(t)
  BY DEF SubInv, SentSoFar
<1> USE <1>0 DEF TypeOK, RowsConsistent, WorkerConsistent
<1>1. ASSUME NEW s \in Subs, Open(s) PROVE RequestSent(t)'
  BY RequestSentFrame, <1>1 DEF Open
<1>2. ASSUME NEW s \in Subs, Check(s) PROVE RequestSent(t)'
  BY RequestSentFrame, <1>2 DEF Check
<1>3. ASSUME NEW s \in Subs, GiveUp(s) PROVE RequestSent(t)'
  BY RequestSentFrame, <1>3 DEF GiveUp
<1>4. ASSUME NEW s \in Subs, Hold(s) PROVE RequestSent(t)'
  BY RequestSentFrame, <1>4 DEF Hold
<1>5. ASSUME NEW s \in Subs, SubmitHere(s) PROVE RequestSent(t)'
  <2>1. undo[s] = "none" /\ request[s] = "checked" /\ request'[s] = "gaveHere"
    BY <1>5 DEF SubmitHere
  <2>2. CASE t = s
    BY <1>5, <2>1, <2>2, GiveHereFacts DEF SubmitHere, RequestSent
  <2>3. CASE t # s
    BY <1>5, <2>3, GiveHereFacts, RequestSentFrame DEF SubmitHere
  <2> QED BY <2>2, <2>3
<1>6. ASSUME NEW s \in Subs, SubmitAway(s) PROVE RequestSent(t)'
  <2>1. undo[s] = "none" /\ request[s] = "gaveHere" /\ request'[s] \in {"over", "gaveAll"}
    BY <1>6 DEF SubmitAway
  <2>2. /\ fate'[s] = fate[s] /\ delivered'[s] = delivered[s] /\ undo'[s] = undo[s]
        /\ request'[s] = "gaveAll" => ~NobodyAccepted(s)
    BY <1>6 DEF SubmitAway
  <2>3. CASE t = s
    BY <1>6, <2>1, <2>2, <2>3, GiveAwayFacts, FateFrame DEF SubmitAway, RequestSent
  <2>4. CASE t # s
    <3>1. notice'[t] = notice[t] /\ queued'[t] = queued[t]
      BY <1>6, <2>4, GiveAwayFacts DEF SubmitAway
    <3> QED BY <1>6, <2>4, <3>1, RequestSentFrame DEF SubmitAway
  <2> QED BY <2>3, <2>4
<1>7. ASSUME NEW s \in Subs, Record(s) PROVE RequestSent(t)'
  BY RequestSentFrame, <1>7 DEF Record
<1>8. ASSUME NEW s \in Subs, Cancel(s) PROVE RequestSent(t)'
  BY RequestSentFrame, <1>8 DEF Cancel
<1>9. ASSUME NEW s \in Subs, Destroy(s) PROVE RequestSent(t)'
  BY RequestSentFrame, <1>9 DEF Destroy
<1>10. ASSUME NEW l \in Logins, Revoke(l) PROVE RequestSent(t)'
  BY RequestSentFrame, <1>10 DEF Revoke, EndLogins, CancelHeld, MadeWith
<1>11. ASSUME BecomeService PROVE RequestSent(t)'
  BY RequestSentFrame, <1>11 DEF BecomeService, EndLogins
<1>12. ASSUME NEW keep \in SUBSET Kind({"session"}), ChangePassword(keep) PROVE RequestSent(t)'
  BY RequestSentFrame, <1>12 DEF ChangePassword, EndLogins, CancelHeld, MadeWith, Kind
<1>13. ASSUME SetPassword PROVE RequestSent(t)'
  BY RequestSentFrame, <1>13 DEF SetPassword, EndLogins, CancelHeld, MadeWith, Kind
<1>14. ASSUME NEW sessions \in SUBSET Logins, Disable(sessions) PROVE RequestSent(t)'
  BY RequestSentFrame, <1>14 DEF Disable, EndLogins, CancelHeld, MadeWith
<1>15. ASSUME Enable PROVE RequestSent(t)'
  BY RequestSentFrame, <1>15 DEF Enable
<1>16. ASSUME Claim PROVE RequestSent(t)'
  BY RequestSentFrame, <1>16 DEF Claim, FirstDue, Due
<1>17. ASSUME Wake PROVE RequestSent(t)'
  BY RequestSentFrame, <1>17 DEF Wake
<1>18. ASSUME NEW s \in Subs, SendHeld(s) PROVE RequestSent(t)'
  BY RequestSentFrame, <1>18 DEF SendHeld
<1>19. ASSUME SendRefused PROVE RequestSent(t)'
  BY RequestSentFrame, <1>19 DEF SendRefused
<1>20. ASSUME SendHere PROVE RequestSent(t)'
  <2>1. current \in Subs /\ request[current] = "over" /\ undo[current] \in {"destroyed", "final"}
    BY <1>20 DEF SendHere
  <2>2. CASE t = current
    BY <1>20, <2>1, <2>2 DEF SendHere, RequestSent
  <2>3. CASE t # current
    <3>1. fate'[t] = fate[t] /\ notice'[t] = notice[t] /\ delivered'[t] = delivered[t]
      BY <1>20, <2>1, <2>3, GiveHereFacts DEF SendHere
    <3> QED BY <1>20, <3>1, RequestSentFrame DEF SendHere
  <2> QED BY <2>2, <2>3
<1>21. ASSUME SendAway PROVE RequestSent(t)'
  <2>1. current \in Subs /\ request[current] = "over" /\ undo[current] \in {"destroyed", "final"}
    BY <1>21 DEF SendAway
  <2>2. CASE t = current
    BY <1>21, <2>1, <2>2 DEF SendAway, RequestSent
  <2>3. CASE t # current
    <3>1. notice'[t] = notice[t] /\ queued'[t] = queued[t]
      BY <1>21, <2>1, <2>3, GiveAwayFacts DEF SendAway
    <3> QED BY <1>21, <3>1, RequestSentFrame DEF SendAway
  <2> QED BY <2>2, <2>3
<1>22. ASSUME SendAwayFails PROVE RequestSent(t)'
  BY RequestSentFrame, <1>22 DEF SendAwayFails
<1>23. ASSUME Finish PROVE RequestSent(t)'
  BY RequestSentFrame, <1>23 DEF Finish, NextPick
<1>24. ASSUME ClaimFails PROVE RequestSent(t)'
  BY RequestSentFrame, <1>24 DEF ClaimFails
<1>25. ASSUME FinishFails PROVE RequestSent(t)'
  BY RequestSentFrame, <1>25 DEF FinishFails, NextPick
<1>26. ASSUME Crash PROVE RequestSent(t)'
  BY RequestSentFrame, <1>26 DEF Crash
<1>27. ASSUME Tick PROVE RequestSent(t)'
  BY RequestSentFrame, <1>27 DEF Tick
<1>28. ASSUME UNCHANGED vars PROVE RequestSent(t)'
  BY RequestSentFrame, <1>28 DEF vars
<1> QED
  BY <1>1, <1>2, <1>3, <1>4, <1>5, <1>6, <1>7, <1>8, <1>9, <1>10, <1>11, <1>12, <1>13, <1>14, <1>15,
     <1>16, <1>17, <1>18, <1>19, <1>20, <1>21, <1>22, <1>23, <1>24, <1>25, <1>26, <1>27, <1>28 DEF Next,
     WorkerStep, Kind

\* It follows the worker as well.
LEMMA WorkerSentStep == SubInv /\ [Next]_vars => \A t \in Subs : WorkerSent(t)'
<1> SUFFICES ASSUME SubInv, [Next]_vars, NEW t \in Subs PROVE WorkerSent(t)'
  OBVIOUS
<1> USE LoginsAssumption, LoginOfAssumption, OutcomesAssumption, NoSubAssumption
<1> USE DEF loginVars, requestVars, rowVars, sentVars, workerVars, historyVars
<1>0. TypeOK /\ RowsConsistent /\ WorkerConsistent /\ RequestSent(t) /\ WorkerSent(t)
  BY DEF SubInv, SentSoFar
<1> USE <1>0 DEF TypeOK, RowsConsistent, WorkerConsistent
<1>1. ASSUME NEW s \in Subs, Open(s) PROVE WorkerSent(t)'
  BY WorkerSentFrame, OtherSentFrame, <1>1 DEF Open
<1>2. ASSUME NEW s \in Subs, Check(s) PROVE WorkerSent(t)'
  BY WorkerSentFrame, OtherSentFrame, <1>2 DEF Check
<1>3. ASSUME NEW s \in Subs, GiveUp(s) PROVE WorkerSent(t)'
  BY WorkerSentFrame, OtherSentFrame, <1>3 DEF GiveUp
<1>4. ASSUME NEW s \in Subs, Hold(s) PROVE WorkerSent(t)'
  BY WorkerSentFrame, OtherSentFrame, <1>4 DEF Hold
<1>5. ASSUME NEW s \in Subs, SubmitHere(s) PROVE WorkerSent(t)'
  <2>1. undo[s] = "none" /\ s # current /\ s \notin batch
    BY <1>5 DEF SubmitHere
  <2>2. CASE t = s
    BY <1>5, <2>1, <2>2 DEF SubmitHere, WorkerSent
  <2>3. CASE t # s
    <3>1. /\ fate'[t] = fate[t] /\ notice'[t] = notice[t]
          /\ delivered'[t] = delivered[t] /\ queued'[t] = queued[t]
      BY <1>5, <2>3, GiveHereFacts DEF SubmitHere
    <3> QED BY <1>5, <3>1, WorkerSentFrame DEF SubmitHere
  <2> QED BY <2>2, <2>3
<1>6. ASSUME NEW s \in Subs, SubmitAway(s) PROVE WorkerSent(t)'
  <2>1. undo[s] = "none" /\ s # current /\ s \notin batch
    BY <1>6 DEF SubmitAway
  <2>2. CASE t = s
    BY <1>6, <2>1, <2>2 DEF SubmitAway, WorkerSent
  <2>3. CASE t # s
    <3>1. /\ fate'[t] = fate[t] /\ notice'[t] = notice[t]
          /\ delivered'[t] = delivered[t] /\ queued'[t] = queued[t]
      BY <1>6, <2>3, GiveAwayFacts DEF SubmitAway
    <3> QED BY <1>6, <3>1, WorkerSentFrame DEF SubmitAway
  <2> QED BY <2>2, <2>3
<1>7. ASSUME NEW s \in Subs, Record(s) PROVE WorkerSent(t)'
  BY WorkerSentFrame, OtherSentFrame, <1>7 DEF Record
<1>8. ASSUME NEW s \in Subs, Cancel(s) PROVE WorkerSent(t)'
  BY WorkerSentFrame, OtherSentFrame, <1>8 DEF Cancel
<1>9. ASSUME NEW s \in Subs, Destroy(s) PROVE WorkerSent(t)'
  BY WorkerSentFrame, OtherSentFrame, <1>9 DEF Destroy
<1>10. ASSUME NEW l \in Logins, Revoke(l) PROVE WorkerSent(t)'
  BY WorkerSentFrame, OtherSentFrame, <1>10 DEF Revoke, EndLogins, CancelHeld, MadeWith
<1>11. ASSUME BecomeService PROVE WorkerSent(t)'
  BY WorkerSentFrame, OtherSentFrame, <1>11 DEF BecomeService, EndLogins
<1>12. ASSUME NEW keep \in SUBSET Kind({"session"}), ChangePassword(keep) PROVE WorkerSent(t)'
  BY WorkerSentFrame, OtherSentFrame, <1>12 DEF ChangePassword, EndLogins, CancelHeld, MadeWith, Kind
<1>13. ASSUME SetPassword PROVE WorkerSent(t)'
  BY WorkerSentFrame, OtherSentFrame, <1>13 DEF SetPassword, EndLogins, CancelHeld, MadeWith, Kind
<1>14. ASSUME NEW sessions \in SUBSET Logins, Disable(sessions) PROVE WorkerSent(t)'
  BY WorkerSentFrame, OtherSentFrame, <1>14 DEF Disable, EndLogins, CancelHeld, MadeWith
<1>15. ASSUME Enable PROVE WorkerSent(t)'
  BY WorkerSentFrame, OtherSentFrame, <1>15 DEF Enable
<1>16. ASSUME Claim PROVE WorkerSent(t)'
  <2>1. current = NoSub /\ batch = {} /\ t # current /\ t # current'
    BY <1>16 DEF Claim
  <2>2. delivered'[t] = delivered[t] /\ queued'[t] = queued[t] /\ cuts'[t] = cuts[t]
    BY <1>16 DEF Claim
  <2>3. CASE undo[t] = "final" /\ held[t]
    BY <2>1, <2>2, <2>3, OtherSentFrame
  <2>4. CASE undo[t] = "pending"
    <3>1. delivered[t] = 0 /\ queued[t] = 0
      BY <2>4 DEF RequestSent
    <3> QED BY <2>1, <2>2, <3>1 DEF WorkerSent
  <2>5. CASE ~held[t]
    <3>1. ~held'[t] /\ t \notin batch'
      BY <1>16, <2>5 DEF Claim, FirstDue, Due
    <3> QED BY <2>1, <3>1 DEF WorkerSent
  <2> QED BY <2>3, <2>4, <2>5
<1>17. ASSUME Wake PROVE WorkerSent(t)'
  BY WorkerSentFrame, OtherSentFrame, <1>17 DEF Wake
<1>18. ASSUME NEW s \in Subs, SendHeld(s) PROVE WorkerSent(t)'
  <2>1. current = NoSub /\ current' = s /\ batch' = batch \ {s} /\ s \in batch
    BY <1>18 DEF SendHeld
  <2>2. /\ delivered'[t] = delivered[t] /\ queued'[t] = queued[t] /\ cuts'[t] = cuts[t]
        /\ UNCHANGED <<undo, held>> /\ worker' \in {"checked", "finish"}
        /\ worker' = "finish" => failure'
    BY <1>18 DEF SendHeld
  <2>3. CASE t = s
    <3>1. delivered[t] <= cuts[t] /\ queued[t] <= cuts[t]
      BY <2>1, <2>3 DEF WorkerSent
    <3>2. cuts[t] = 0 => delivered[t] = 0 /\ queued[t] = 0
      BY <3>1
    <3> HIDE <1>0
    <3> QED BY <2>1, <2>2, <2>3, <3>1, <3>2 DEF WorkerSent
  <2>4. CASE t # s
    BY <2>1, <2>2, <2>4, OtherSentFrame
  <2> QED BY <2>3, <2>4
<1>19. ASSUME SendRefused PROVE WorkerSent(t)'
  <2>1. /\ delivered'[t] = delivered[t] /\ queued'[t] = queued[t] /\ cuts'[t] = cuts[t]
        /\ UNCHANGED <<undo, held, batch, current>> /\ worker = "checked" /\ worker' = "finish" /\ failure'
    BY <1>19 DEF SendRefused
  <2>2. CASE t = current
    <3>1. delivered[t] <= cuts[t] /\ queued[t] <= cuts[t]
      BY <2>1, <2>2 DEF WorkerSent
    <3>2. cuts[t] = 0 => delivered[t] = 0 /\ queued[t] = 0
      BY <3>1
    <3> HIDE <1>0
    <3> QED BY <2>1, <2>2, <3>2 DEF WorkerSent
  <2>3. CASE t # current
    BY <2>1, <2>3, OtherSentFrame
  <2> QED BY <2>2, <2>3
<1>20. ASSUME SendHere PROVE WorkerSent(t)'
  <2>1. /\ queued'[t] = queued[t] /\ cuts'[t] = cuts[t]
        /\ UNCHANGED <<undo, held, batch, current>> /\ worker = "checked" /\ worker' = "gaveHere"
    BY <1>20 DEF SendHere
  <2>2. current \in Subs /\ GiveHere(current)
    BY <1>20 DEF SendHere
  <2>3. CASE t = current
    <3>1. delivered[t] <= cuts[t] /\ queued[t] <= cuts[t]
      BY <2>1, <2>3 DEF WorkerSent
    <3>2. /\ fate'[t] \in Fates(t)
          /\ delivered'[t] = IF "got" \in fate'[t] THEN delivered[t] + 1 ELSE delivered[t]
      BY <2>2, <2>3, GiveHereFacts
    <3>3. IF "got" \in fate'[t] THEN delivered'[t] > 0 ELSE delivered'[t] <= cuts[t]
      BY <3>1, <3>2
    <3> HIDE <1>0
    <3> QED BY <2>1, <2>3, <3>1, <3>2, <3>3 DEF WorkerSent
  <2>4. CASE t # current
    <3>1. delivered'[t] = delivered[t]
      BY <2>2, <2>4, GiveHereFacts
    <3> QED BY <2>1, <2>4, <3>1, OtherSentFrame
  <2> QED BY <2>3, <2>4
<1>21. ASSUME SendAway PROVE WorkerSent(t)'
  <2>1. /\ fate'[t] = fate[t] /\ delivered'[t] = delivered[t] /\ cuts'[t] = cuts[t]
        /\ UNCHANGED <<undo, held, batch, current>> /\ worker = "gaveHere" /\ worker' = "finish"
        /\ failure' <=> NobodyAccepted(current)
    BY <1>21 DEF SendAway
  <2>2. current \in Subs /\ GiveAway(current) /\ Bounce(current)
    BY <1>21 DEF SendAway
  <2>3. CASE t = current
    <3>1. /\ fate[t] \in Fates(t)
          /\ queued[t] <= cuts[t]
          /\ IF "got" \in fate[t] THEN delivered[t] > 0 ELSE delivered[t] <= cuts[t]
      BY <2>1, <2>3 DEF WorkerSent
    <3>2. /\ queued'[t] = IF Leaves(t) THEN queued[t] + 1 ELSE queued[t]
          /\ Refused(t) /\ ~NobodyAccepted(t) => notice'[t] # "none"
      BY <2>2, <2>3, GiveAwayFacts
    <3>3. Leaves(t) => queued'[t] > 0
      BY <3>2
    <3>4. NobodyAccepted(t) /\ cuts[t] = 0 => queued'[t] = 0 /\ delivered[t] = 0
      BY <3>1, <3>2 DEF NobodyAccepted
    <3>5. /\ Refused(t)' <=> Refused(t)
          /\ Leaves(t)' <=> Leaves(t)
      BY <2>1, FateFrame
    <3> HIDE <1>0
    <3> QED BY <2>1, <2>3, <3>1, <3>2, <3>3, <3>4, <3>5 DEF WorkerSent
  <2>4. CASE t # current
    <3>1. queued'[t] = queued[t]
      BY <2>2, <2>4, GiveAwayFacts
    <3> QED BY <2>1, <2>4, <3>1, OtherSentFrame
  <2> QED BY <2>3, <2>4
<1>22. ASSUME SendAwayFails PROVE WorkerSent(t)'
  <2>1. /\ delivered'[t] = delivered[t] /\ queued'[t] = queued[t] /\ cuts'[t] = cuts[t]
        /\ UNCHANGED <<undo, held, batch, current>> /\ worker = "gaveHere" /\ worker' = "finish" /\ failure'
        /\ current \in Away
    BY <1>22 DEF SendAwayFails, Leaves
  <2>2. CASE t = current
    <3>1. queued[t] <= cuts[t]
      BY <2>1, <2>2 DEF WorkerSent
    <3>2. cuts[t] = 0 => queued[t] = 0
      BY <3>1
    <3> HIDE <1>0
    <3> QED BY <2>1, <2>2, <3>2 DEF WorkerSent
  <2>3. CASE t # current
    BY <2>1, <2>3, OtherSentFrame
  <2> QED BY <2>2, <2>3
<1>23. ASSUME Finish PROVE WorkerSent(t)'
  <2>1. /\ delivered'[t] = delivered[t] /\ queued'[t] = queued[t] /\ cuts'[t] = cuts[t]
        /\ UNCHANGED <<undo, batch>> /\ current' = NoSub
        /\ t # current => held'[t] = held[t]
    BY <1>23 DEF Finish
  <2>2. CASE t = current
    <3>1. t \notin batch' /\ ~(undo'[t] = "final" /\ held'[t])
      BY <1>23, <2>1, <2>2 DEF Finish
    <3> QED BY <2>1, <3>1 DEF WorkerSent
  <2>3. CASE t # current
    BY <2>1, <2>3, OtherSentFrame
  <2> QED BY <2>2, <2>3
<1>24. ASSUME ClaimFails PROVE WorkerSent(t)'
  BY WorkerSentFrame, OtherSentFrame, <1>24 DEF ClaimFails
<1>25. ASSUME FinishFails PROVE WorkerSent(t)'
  <2>1. /\ delivered'[t] = delivered[t] /\ queued'[t] = queued[t]
        /\ UNCHANGED <<undo, held, batch>> /\ current' = NoSub /\ current \in Subs
        /\ cuts'[t] = IF t = current THEN cuts[t] + 1 ELSE cuts[t]
    BY <1>25 DEF FinishFails
  <2>2. CASE t = current
    <3>1. delivered[t] <= cuts'[t] /\ queued[t] <= cuts'[t]
      BY <2>1, <2>2 DEF SubInv, HandedOnce
    <3> QED BY <2>1, <3>1 DEF WorkerSent
  <2>3. CASE t # current
    BY <2>1, <2>3, OtherSentFrame
  <2> QED BY <2>2, <2>3
<1>26. ASSUME Crash PROVE WorkerSent(t)'
  <2>1. /\ delivered'[t] = delivered[t] /\ queued'[t] = queued[t]
        /\ UNCHANGED <<undo, held>> /\ batch' = {} /\ current' = NoSub
        /\ cuts'[t] = IF t = current THEN cuts[t] + 1 ELSE cuts[t]
    BY <1>26 DEF Crash
  <2>2. CASE t = current
    <3>1. delivered[t] <= cuts'[t] /\ queued[t] <= cuts'[t]
      BY <2>1, <2>2 DEF SubInv, HandedOnce
    <3> QED BY <2>1, <3>1 DEF WorkerSent
  <2>3. CASE t # current
    BY <2>1, <2>3, OtherSentFrame
  <2> QED BY <2>2, <2>3
<1>27. ASSUME Tick PROVE WorkerSent(t)'
  BY WorkerSentFrame, OtherSentFrame, <1>27 DEF Tick
<1>28. ASSUME UNCHANGED vars PROVE WorkerSent(t)'
  BY WorkerSentFrame, OtherSentFrame, <1>28 DEF vars
<1> QED
  BY <1>1, <1>2, <1>3, <1>4, <1>5, <1>6, <1>7, <1>8, <1>9, <1>10, <1>11, <1>12, <1>13, <1>14, <1>15,
     <1>16, <1>17, <1>18, <1>19, <1>20, <1>21, <1>22, <1>23, <1>24, <1>25, <1>26, <1>27, <1>28 DEF Next,
     WorkerStep, Kind

\* No step hands a message over once too often.
LEMMA HandedOnceStep == SubInv /\ [Next]_vars => HandedOnce'
<1> SUFFICES ASSUME SubInv, [Next]_vars PROVE HandedOnce'
  OBVIOUS
<1> USE LoginsAssumption, LoginOfAssumption, RecipientsAssumption, OutcomesAssumption, NoSubAssumption,
        NumbersAssumption
<1> USE DEF SubInv, TypeOK, RowsConsistent, WorkerConsistent, SentSoFar, HandedOnce, RecordTrue,
            EndedKnown, loginVars, requestVars, rowVars, sentVars, workerVars, historyVars
<1>1. ASSUME NEW s \in Subs, Open(s) PROVE HandedOnce'
  BY <1>1 DEF Open
<1>2. ASSUME NEW s \in Subs, Check(s) PROVE HandedOnce'
  BY <1>2 DEF Check
<1>3. ASSUME NEW s \in Subs, GiveUp(s) PROVE HandedOnce'
  BY <1>3 DEF GiveUp
<1>4. ASSUME NEW s \in Subs, Hold(s) PROVE HandedOnce'
  BY <1>4 DEF Hold
<1>5. ASSUME NEW s \in Subs, SubmitHere(s) PROVE HandedOnce'
  <2>1. delivered[s] = 0 /\ delivered'[s] \in {0, 1}
    BY <1>5, GiveHereFacts DEF SubmitHere, RequestSent
  <2>2. \A t \in Subs : t # s => delivered'[t] = delivered[t]
    BY <1>5, GiveHereFacts DEF SubmitHere
  <2> QED BY <1>5, <2>1, <2>2 DEF SubmitHere
<1>6. ASSUME NEW s \in Subs, SubmitAway(s) PROVE HandedOnce'
  <2>1. queued[s] = 0 /\ queued'[s] \in {0, 1}
    BY <1>6, GiveAwayFacts DEF SubmitAway, RequestSent
  <2>2. \A t \in Subs : t # s => queued'[t] = queued[t]
    BY <1>6, GiveAwayFacts DEF SubmitAway
  <2> QED BY <1>6, <2>1, <2>2 DEF SubmitAway
<1>7. ASSUME NEW s \in Subs, Record(s) PROVE HandedOnce'
  BY <1>7 DEF Record
<1>8. ASSUME NEW s \in Subs, Cancel(s) PROVE HandedOnce'
  BY <1>8 DEF Cancel
<1>9. ASSUME NEW s \in Subs, Destroy(s) PROVE HandedOnce'
  BY <1>9 DEF Destroy
<1>10. ASSUME NEW l \in Logins, Revoke(l) PROVE HandedOnce'
  BY <1>10 DEF Revoke, EndLogins, CancelHeld, MadeWith
<1>11. CASE BecomeService
  BY <1>11 DEF BecomeService, EndLogins, MadeWith, Kind
<1>12. ASSUME NEW keep \in SUBSET Kind({"session"}), ChangePassword(keep) PROVE HandedOnce'
  BY <1>12 DEF ChangePassword, EndLogins, CancelHeld, MadeWith, Kind
<1>13. CASE SetPassword
  BY <1>13 DEF SetPassword, EndLogins, CancelHeld, MadeWith, Kind
<1>14. ASSUME NEW sessions \in SUBSET Logins, Disable(sessions) PROVE HandedOnce'
  BY <1>14 DEF Disable, EndLogins, CancelHeld, MadeWith
<1>15. CASE Enable
  BY <1>15 DEF Enable
<1>16. CASE Claim
  BY <1>16 DEF Claim, FirstDue, Due, StillValid, Trouble
<1>17. CASE Wake
  BY <1>17 DEF Wake
<1>18. ASSUME NEW s \in Subs, SendHeld(s) PROVE HandedOnce'
  BY <1>18 DEF SendHeld
<1>19. CASE SendRefused
  BY <1>19 DEF SendRefused
<1>20. CASE SendHere
  <2>1. current \in Subs /\ delivered[current] <= cuts[current] /\ GiveHere(current)
    BY <1>20 DEF SendHere, WorkerSent
  <2>2. delivered'[current] <= 1 + cuts[current]
    BY <2>1, GiveHereFacts
  <2>3. \A t \in Subs : t # current => delivered'[t] = delivered[t]
    BY <2>1, GiveHereFacts
  <2> QED BY <1>20, <2>2, <2>3 DEF SendHere
<1>21. CASE SendAway
  <2>1. current \in Subs /\ queued[current] <= cuts[current] /\ GiveAway(current) /\ Bounce(current)
    BY <1>21 DEF SendAway, WorkerSent
  <2>2. queued'[current] <= 1 + cuts[current]
    BY <2>1, GiveAwayFacts
  <2>3. \A t \in Subs : t # current => queued'[t] = queued[t]
    BY <2>1, GiveAwayFacts
  <2> QED BY <1>21, <2>2, <2>3 DEF SendAway
<1>22. CASE SendAwayFails
  BY <1>22 DEF SendAwayFails
<1>23. CASE Finish
  BY <1>23 DEF Finish, NextPick
<1>24. CASE ClaimFails
  BY <1>24 DEF ClaimFails, Trouble
<1>25. CASE FinishFails
  BY <1>25 DEF FinishFails, NextPick, Trouble
<1>26. CASE Crash
  BY <1>26 DEF Crash, Trouble
<1>27. CASE Tick
  BY <1>27 DEF Tick
<1>28. CASE UNCHANGED vars
  BY <1>28 DEF vars
<1> QED
  BY <1>1, <1>2, <1>3, <1>4, <1>5, <1>6, <1>7, <1>8, <1>9, <1>10, <1>11, <1>12, <1>13, <1>14, <1>15,
     <1>16, <1>17, <1>18, <1>19, <1>20, <1>21, <1>22, <1>23, <1>24, <1>25, <1>26, <1>27, <1>28 DEF Next,
     WorkerStep, Kind

\* What a row says of its message changes only with the row and what was sent.
LEMMA RowTrueFrame ==
  ASSUME NEW t \in Subs, RowTrue(t),
         fate'[t] = fate[t], notice'[t] = notice[t], delivered'[t] = delivered[t], queued'[t] = queued[t],
         undo'[t] = undo[t], held'[t] = held[t], error'[t] = error[t], cuts'[t] = 0 => cuts[t] = 0
  PROVE  RowTrue(t)'
  BY FateFrame DEF RowTrue

\* cancel_held stops only what has reached nobody.
LEMMA CancelHeldTrue ==
  ASSUME TypeOK, NEW t \in Subs, RowTrue(t), RequestSent(t), NEW S, CancelHeld(S),
         UNCHANGED sentVars, cuts' = cuts
  PROVE  RowTrue(t)'
<1>1. CASE t \in S /\ undo[t] = "pending" /\ held[t]
  <2>1. undo'[t] = "canceled" /\ delivered'[t] = 0 /\ queued'[t] = 0
    BY <1>1 DEF CancelHeld, RequestSent, sentVars, TypeOK
  <2> QED BY <2>1 DEF RowTrue
<1>2. CASE ~(t \in S /\ undo[t] = "pending" /\ held[t])
  <2>1. undo'[t] = undo[t] /\ held'[t] = held[t] /\ error'[t] = error[t]
    BY <1>2 DEF CancelHeld, TypeOK
  <2> QED BY <2>1, RowTrueFrame DEF sentVars
<1> QED BY <1>1, <1>2

\* No step makes a row say what did not happen.
LEMMA RecordTrueStep == SubInv /\ [Next]_vars => RecordTrue'
<1> SUFFICES ASSUME SubInv, [Next]_vars, NEW t \in Subs PROVE RowTrue(t)'
  BY DEF RecordTrue
<1> USE LoginsAssumption, LoginOfAssumption, RecipientsAssumption, OutcomesAssumption, NoSubAssumption
<1> USE DEF loginVars, requestVars, rowVars, sentVars, workerVars, historyVars
<1>0. TypeOK /\ RowsConsistent /\ WorkerConsistent /\ RequestSent(t) /\ WorkerSent(t) /\ RowTrue(t)
  BY DEF SubInv, SentSoFar, RecordTrue
<1> USE <1>0 DEF TypeOK, RowsConsistent, WorkerConsistent
<1>1. ASSUME NEW s \in Subs, Open(s) PROVE RowTrue(t)'
  BY RowTrueFrame, <1>1 DEF Open
<1>2. ASSUME NEW s \in Subs, Check(s) PROVE RowTrue(t)'
  BY RowTrueFrame, <1>2 DEF Check
<1>3. ASSUME NEW s \in Subs, GiveUp(s) PROVE RowTrue(t)'
  BY RowTrueFrame, <1>3 DEF GiveUp
<1>4. ASSUME NEW s \in Subs, Hold(s) PROVE RowTrue(t)'
  <2>1. undo[s] = "none" /\ ~error[s] /\ undo'[s] = "pending" /\ UNCHANGED error
    BY <1>4 DEF Hold
  <2>2. CASE t = s
    BY <2>1, <2>2 DEF RowTrue
  <2>3. CASE t # s
    BY <1>4, <2>3, RowTrueFrame DEF Hold
  <2> QED BY <2>2, <2>3
<1>5. ASSUME NEW s \in Subs, SubmitHere(s) PROVE RowTrue(t)'
  <2>1. undo[s] = "none" /\ ~error[s]
    BY <1>5 DEF SubmitHere
  <2>2. CASE t = s
    BY <1>5, <2>1, <2>2 DEF SubmitHere, RowTrue
  <2>3. CASE t # s
    <3>1. /\ fate'[t] = fate[t] /\ notice'[t] = notice[t]
          /\ delivered'[t] = delivered[t] /\ queued'[t] = queued[t]
      BY <1>5, <2>3, GiveHereFacts DEF SubmitHere
    <3> QED BY <1>5, <3>1, RowTrueFrame DEF SubmitHere
  <2> QED BY <2>2, <2>3
<1>6. ASSUME NEW s \in Subs, SubmitAway(s) PROVE RowTrue(t)'
  <2>1. undo[s] = "none" /\ ~error[s]
    BY <1>6 DEF SubmitAway
  <2>2. CASE t = s
    BY <1>6, <2>1, <2>2 DEF SubmitAway, RowTrue
  <2>3. CASE t # s
    <3>1. /\ fate'[t] = fate[t] /\ notice'[t] = notice[t]
          /\ delivered'[t] = delivered[t] /\ queued'[t] = queued[t]
      BY <1>6, <2>3, GiveAwayFacts DEF SubmitAway
    <3> QED BY <1>6, <3>1, RowTrueFrame DEF SubmitAway
  <2> QED BY <2>2, <2>3
<1>7. ASSUME NEW s \in Subs, Record(s) PROVE RowTrue(t)'
  <2>1. undo[s] = "none" /\ ~error[s] /\ request[s] = "gaveAll" /\ UNCHANGED <<error, held, sentVars>>
        /\ undo'[s] = "final"
    BY <1>7 DEF Record
  <2>2. CASE t = s
    <3>1. /\ t \in Here => delivered[t] > 0 \/ fate[t] \cap {"refused", "dropped"} # {}
          /\ t \in Away => queued[t] > 0 \/ "inside" \in fate[t]
          /\ Refused(t) => notice[t] \in {"sent", "lost"}
      BY <2>1, <2>2 DEF RequestSent, Fates, Leaves
    <3>2. Refused(t)' <=> Refused(t)
      BY <2>1, FateFrame
    <3> QED BY <2>1, <2>2, <3>1, <3>2 DEF RowTrue
  <2>3. CASE t # s
    BY <1>7, <2>3, RowTrueFrame DEF Record
  <2> QED BY <2>2, <2>3
<1>8. ASSUME NEW s \in Subs, Cancel(s) PROVE RowTrue(t)'
  <2>1. CASE t = s
    <3>1. /\ undo'[t] = "canceled" /\ ~error[t] /\ UNCHANGED <<error, sentVars>>
          /\ delivered[t] = 0 /\ queued[t] = 0
      BY <1>8, <2>1 DEF Cancel, RequestSent
    <3> QED BY <3>1 DEF RowTrue
  <2>2. CASE t # s
    BY <1>8, <2>2, RowTrueFrame DEF Cancel
  <2> QED BY <2>1, <2>2
<1>9. ASSUME NEW s \in Subs, Destroy(s) PROVE RowTrue(t)'
  <2>1. CASE t = s
    <3>1. undo'[t] = "destroyed" /\ ~error'[t]
      BY <1>9, <2>1 DEF Destroy
    <3> QED BY <3>1 DEF RowTrue
  <2>2. CASE t # s
    BY <1>9, <2>2, RowTrueFrame DEF Destroy
  <2> QED BY <2>1, <2>2
<1>10. ASSUME NEW l \in Logins, Revoke(l) PROVE RowTrue(t)'
  <2>1. PICK S : CancelHeld(S) /\ UNCHANGED sentVars /\ cuts' = cuts
    BY <1>10 DEF Revoke
  <2> QED BY <2>1, CancelHeldTrue
<1>11. ASSUME BecomeService PROVE RowTrue(t)'
  BY RowTrueFrame, <1>11 DEF BecomeService, EndLogins
<1>12. ASSUME NEW keep \in SUBSET Kind({"session"}), ChangePassword(keep) PROVE RowTrue(t)'
  <2>1. PICK S : CancelHeld(S) /\ UNCHANGED sentVars /\ cuts' = cuts
    BY <1>12 DEF ChangePassword
  <2> QED BY <2>1, CancelHeldTrue
<1>13. ASSUME SetPassword PROVE RowTrue(t)'
  <2>1. PICK S : CancelHeld(S) /\ UNCHANGED sentVars /\ cuts' = cuts
    BY <1>13 DEF SetPassword
  <2> QED BY <2>1, CancelHeldTrue
<1>14. ASSUME NEW sessions \in SUBSET Logins, Disable(sessions) PROVE RowTrue(t)'
  <2>1. PICK S : CancelHeld(S) /\ UNCHANGED sentVars /\ cuts' = cuts
    BY <1>14 DEF Disable
  <2> QED BY <2>1, CancelHeldTrue
<1>15. ASSUME Enable PROVE RowTrue(t)'
  BY RowTrueFrame, <1>15 DEF Enable
<1>16. ASSUME Claim PROVE RowTrue(t)'
  <2>1. UNCHANGED sentVars /\ cuts' = cuts
    BY <1>16 DEF Claim
  <2>2. CASE ~held[t]
    <3>1. undo'[t] = undo[t] /\ held'[t] = held[t] /\ error'[t] = error[t]
      BY <1>16, <2>2 DEF Claim, FirstDue, Due
    <3> QED BY <2>1, <3>1, RowTrueFrame
  <2>3. CASE held[t]
    <3>1. cuts[t] = 0 => delivered[t] = 0 /\ queued[t] = 0
      BY <1>16, <2>3 DEF Claim, RequestSent, WorkerSent
    <3>2. undo[t] = "pending" => delivered[t] = 0 /\ queued[t] = 0
      BY DEF RequestSent
    <3>3. /\ undo'[t] = "canceled" => undo[t] = "pending"
          /\ ~held'[t] => error'[t]
      BY <1>16, <2>3 DEF Claim
    <3> QED BY <2>1, <3>1, <3>2, <3>3 DEF RowTrue
  <2> QED BY <2>2, <2>3
<1>17. ASSUME Wake PROVE RowTrue(t)'
  BY RowTrueFrame, <1>17 DEF Wake
<1>18. ASSUME NEW s \in Subs, SendHeld(s) PROVE RowTrue(t)'
  BY RowTrueFrame, <1>18 DEF SendHeld
<1>19. ASSUME SendRefused PROVE RowTrue(t)'
  BY RowTrueFrame, <1>19 DEF SendRefused
<1>20. ASSUME SendHere PROVE RowTrue(t)'
  <2>1. current \in Subs /\ (undo[current] = "destroyed" \/ held[current]) /\ ~error[current]
    BY <1>20 DEF SendHere
  <2>2. undo[current] # "canceled"
    BY <1>20 DEF SendHere
  <2>3. CASE t = current
    BY <1>20, <2>1, <2>2, <2>3 DEF SendHere, RowTrue
  <2>4. CASE t # current
    <3>1. /\ fate'[t] = fate[t] /\ notice'[t] = notice[t]
          /\ delivered'[t] = delivered[t] /\ queued'[t] = queued[t]
      BY <1>20, <2>1, <2>4, GiveHereFacts DEF SendHere
    <3> QED BY <1>20, <3>1, RowTrueFrame DEF SendHere
  <2> QED BY <2>3, <2>4
<1>21. ASSUME SendAway PROVE RowTrue(t)'
  <2>1. current \in Subs /\ (undo[current] = "destroyed" \/ held[current]) /\ ~error[current]
    BY <1>21 DEF SendAway
  <2>2. undo[current] # "canceled"
    BY <1>21 DEF SendAway
  <2>3. CASE t = current
    BY <1>21, <2>1, <2>2, <2>3 DEF SendAway, RowTrue
  <2>4. CASE t # current
    <3>1. /\ fate'[t] = fate[t] /\ notice'[t] = notice[t]
          /\ delivered'[t] = delivered[t] /\ queued'[t] = queued[t]
      BY <1>21, <2>1, <2>4, GiveAwayFacts DEF SendAway
    <3> QED BY <1>21, <3>1, RowTrueFrame DEF SendAway
  <2> QED BY <2>3, <2>4
<1>22. ASSUME SendAwayFails PROVE RowTrue(t)'
  BY RowTrueFrame, <1>22 DEF SendAwayFails
<1>23. ASSUME Finish PROVE RowTrue(t)'
  <2>1. /\ UNCHANGED <<sentVars, undo>> /\ cuts' = cuts /\ current \in Subs
        /\ t # current \/ undo[t] = "destroyed" => held'[t] = held[t] /\ error'[t] = error[t]
        /\ t = current /\ undo[t] # "destroyed" => held'[t] = FALSE /\ error'[t] = failure
    BY <1>23 DEF Finish
  <2>2. CASE t # current \/ undo[t] = "destroyed"
    BY <2>1, <2>2, RowTrueFrame
  <2>3. CASE t = current /\ undo[t] # "destroyed"
    <3>1. undo[t] = "final" /\ undo'[t] = "final"
      BY <2>1, <2>3
    <3>2. CASE failure
      <4>1. cuts[t] = 0 => queued[t] = 0 /\ (t \notin Away => delivered[t] = 0)
        BY <1>23, <2>3, <3>2 DEF Finish, WorkerSent
      <4> QED BY <2>1, <2>3, <3>1, <3>2, <4>1 DEF RowTrue
    <3>3. CASE ~failure
      <4>1. /\ t \in Here => delivered[t] > 0 \/ fate[t] \cap {"refused", "dropped"} # {}
            /\ t \in Away => queued[t] > 0 \/ "inside" \in fate[t]
            /\ Refused(t) => notice[t] \in {"sent", "lost"}
        BY <1>23, <2>3, <3>3 DEF Finish, WorkerSent, Fates, Leaves
      <4>2. Refused(t)' <=> Refused(t)
        BY <2>1, FateFrame
      <4> QED BY <2>1, <2>3, <3>1, <3>3, <4>1, <4>2 DEF RowTrue
    <3> QED BY <3>2, <3>3
  <2> QED BY <2>2, <2>3
<1>24. ASSUME ClaimFails PROVE RowTrue(t)'
  BY RowTrueFrame, <1>24 DEF ClaimFails
<1>25. ASSUME FinishFails PROVE RowTrue(t)'
  BY RowTrueFrame, <1>25 DEF FinishFails, NextPick
<1>26. ASSUME Crash PROVE RowTrue(t)'
  BY RowTrueFrame, <1>26 DEF Crash
<1>27. ASSUME Tick PROVE RowTrue(t)'
  BY RowTrueFrame, <1>27 DEF Tick
<1>28. ASSUME UNCHANGED vars PROVE RowTrue(t)'
  BY RowTrueFrame, <1>28 DEF vars
<1> QED
  BY <1>1, <1>2, <1>3, <1>4, <1>5, <1>6, <1>7, <1>8, <1>9, <1>10, <1>11, <1>12, <1>13, <1>14, <1>15,
     <1>16, <1>17, <1>18, <1>19, <1>20, <1>21, <1>22, <1>23, <1>24, <1>25, <1>26, <1>27, <1>28 DEF Next,
     WorkerStep, Kind

\* The inductive invariant holds in every state.
LEMMA SubInvAlways == Spec => []SubInv
<1>1. Init => SubInv
  <2> SUFFICES ASSUME Init PROVE SubInv
    OBVIOUS
  <2> USE NoSubAssumption DEF Init
  <2>1. TypeOK
    BY DEF TypeOK
  <2>2. RowsConsistent /\ WorkerConsistent
    BY DEF RowsConsistent, WorkerConsistent
  <2>3. SentSoFar
    BY DEF SentSoFar, RequestSent, WorkerSent
  <2>4. HandedOnce /\ RecordTrue /\ EndedKnown
    BY DEF HandedOnce, RecordTrue, RowTrue, EndedKnown
  <2> QED BY <2>1, <2>2, <2>3, <2>4 DEF SubInv
<1>2. SubInv /\ [Next]_vars => SubInv'
  BY TypeStep, RowsConsistentStep, WorkerConsistentStep, EndedKnownStep, RequestSentStep, WorkerSentStep,
     HandedOnceStep, RecordTrueStep DEF SubInv, SentSoFar
<1> QED
  BY <1>1, <1>2, PTL DEF Spec

\* The variables of a submission keep their types (email_submissions and the
\* worker's state).
THEOREM SubmissionTypes == Spec => []TypeOK
  BY SubInvAlways, PTL DEF SubInv

\* release_due_submissions sends a message once, but for hand-overs that were cut
\* off or could not be recorded.
THEOREM SubmissionHandedOnce == Spec => []HandedOnce
  BY SubInvAlways, PTL DEF SubInv

\* The row of a submission tells what became of it.
THEOREM SubmissionRecordTrue == Spec => []RecordTrue
  BY SubInvAlways, PTL DEF SubInv

\* claim_due_submissions releases nothing whose login ended while it waited, and of
\* what was held later only what its credential cannot tell.
THEOREM SubmissionEndedNotReleased == Spec => EndedNotReleased
<1>1. SubInv /\ [Next]_vars =>
        [\A s \in Subs :
           undo[s] = "pending" /\ undo'[s] = "final" /\ s \in ended =>
             /\ s \in late \cup serviced
             /\ KindOf[LoginOf[s]] \in {"password", "session"}]_vars
  <2> SUFFICES ASSUME SubInv, [Next]_vars, NEW s \in Subs,
                      undo[s] = "pending", undo'[s] = "final", s \in ended
               PROVE  /\ s \in late \cup serviced
                      /\ KindOf[LoginOf[s]] \in {"password", "session"}
    OBVIOUS
  <2>0. /\ undo \in [Subs -> {"none", "pending", "final", "canceled", "destroyed"}]
        /\ request[s] = "over"
        /\ EndedKnown
    BY DEF SubInv, TypeOK, RowsConsistent
  <2>1. s \in late \cup serviced \/ KindOf[LoginOf[s]] = "oauth"
    BY <2>0 DEF EndedKnown
  <2>2. CASE Claim
    BY <2>0, <2>1, <2>2, LoginsAssumption, LoginOfAssumption DEF Claim, FirstDue, Due, StillValid, EndedKnown
  <2>3. CASE UNCHANGED vars
    BY <2>3 DEF vars, rowVars
  <2>4. ASSUME NEW r \in Subs,
               Open(r) \/ Check(r) \/ GiveUp(r) \/ Hold(r) \/ SubmitHere(r) \/ SubmitAway(r)
        PROVE  FALSE
    BY <2>0, <2>4 DEF Open, Check, GiveUp, Hold, SubmitHere, SubmitAway, rowVars
  <2>5. ASSUME NEW r \in Subs, Record(r) \/ Cancel(r) \/ Destroy(r) \/ SendHeld(r) PROVE FALSE
    BY <2>0, <2>5 DEF Record, Cancel, Destroy, SendHeld, rowVars
  <2>6. ASSUME NEW S, CancelHeld(S) PROVE FALSE
    BY <2>0, <2>6 DEF CancelHeld
  <2>7. ASSUME UNCHANGED undo PROVE FALSE
    BY <2>7
  <2> QED
    BY <2>2, <2>3, <2>4, <2>5, <2>6, <2>7
       DEF Next, WorkerStep, Revoke, BecomeService, ChangePassword, SetPassword, Disable, Enable, Wake,
           SendRefused, SendHere, SendAway, SendAwayFails, Finish, ClaimFails, FinishFails, Crash,
           Tick, rowVars
<1> QED
  BY <1>1, SubInvAlways, PTL DEF Spec, EndedNotReleased

\* What one step may do to one submission, in the terms of UndoWindow.
Move(s) ==
  \/ /\ StageOf(s)' \in {StageOf(s)} \cup Window!After(StageOf(s))
     /\ delivered'[s] + queued'[s] = delivered[s] + queued[s]
  \/ /\ StageOf(s) = "going"
     /\ StageOf(s)' = "going"
     /\ delivered'[s] + queued'[s] = delivered[s] + queued[s] + 1

\* Every step moves every submission as UndoWindow allows, or leaves it.
LEMMA MoveStep == SubInv /\ [Next]_vars => \A t \in Subs : Move(t)
<1> SUFFICES ASSUME SubInv, [Next]_vars PROVE \A t \in Subs : Move(t)
  OBVIOUS
<1> USE LoginsAssumption, LoginOfAssumption, RecipientsAssumption, OutcomesAssumption, NoSubAssumption,
        NumbersAssumption
<1> USE DEF SubInv, TypeOK, RowsConsistent, WorkerConsistent, Move, StageOf, Direct, Window!After,
            loginVars, requestVars, rowVars, sentVars, workerVars, historyVars
<1>1. ASSUME NEW s \in Subs, Open(s) PROVE \A t \in Subs : Move(t)
  BY <1>1 DEF Open
<1>2. ASSUME NEW s \in Subs, Check(s) PROVE \A t \in Subs : Move(t)
  BY <1>2 DEF Check
<1>3. ASSUME NEW s \in Subs, GiveUp(s) PROVE \A t \in Subs : Move(t)
  BY <1>3 DEF GiveUp
<1>4. ASSUME NEW s \in Subs, Hold(s) PROVE \A t \in Subs : Move(t)
  BY <1>4 DEF Hold
<1>5. ASSUME NEW s \in Subs, SubmitHere(s) PROVE \A t \in Subs : Move(t)
  <2> TAKE t \in Subs
  <2>1. /\ undo[s] = "none" /\ delivered'[s] \in {delivered[s], delivered[s] + 1}
        /\ t # s => delivered'[t] = delivered[t]
    BY <1>5, GiveHereFacts DEF SubmitHere
  <2>2. CASE t = s
    BY <1>5, <2>1, <2>2 DEF SubmitHere
  <2>3. CASE t # s
    BY <1>5, <2>1, <2>3 DEF SubmitHere
  <2> QED BY <2>2, <2>3
<1>6. ASSUME NEW s \in Subs, SubmitAway(s) PROVE \A t \in Subs : Move(t)
  <2> TAKE t \in Subs
  <2>1. /\ undo[s] = "none" /\ queued'[s] \in {queued[s], queued[s] + 1}
        /\ t # s => queued'[t] = queued[t]
    BY <1>6, GiveAwayFacts DEF SubmitAway
  <2>2. CASE t = s
    <3>1. request'[s] = "gaveAll" \/ (request'[s] = "over" /\ queued'[s] = queued[s])
      BY <1>6, GiveAwayFacts DEF SubmitAway, NobodyAccepted
    <3> QED BY <1>6, <2>1, <2>2, <3>1 DEF SubmitAway
  <2>3. CASE t # s
    BY <1>6, <2>1, <2>3 DEF SubmitAway
  <2> QED BY <2>2, <2>3
<1>7. ASSUME NEW s \in Subs, Record(s) PROVE \A t \in Subs : Move(t)
  BY <1>7 DEF Record
<1>8. ASSUME NEW s \in Subs, Cancel(s) PROVE \A t \in Subs : Move(t)
  BY <1>8 DEF Cancel
<1>9. ASSUME NEW s \in Subs, Destroy(s) PROVE \A t \in Subs : Move(t)
  BY <1>9 DEF Destroy
<1>10. ASSUME NEW l \in Logins, Revoke(l) PROVE \A t \in Subs : Move(t)
  BY <1>10 DEF Revoke, EndLogins, CancelHeld, MadeWith
<1>11. CASE BecomeService
  BY <1>11 DEF BecomeService, EndLogins, MadeWith, Kind
<1>12. ASSUME NEW keep \in SUBSET Kind({"session"}), ChangePassword(keep) PROVE \A t \in Subs : Move(t)
  BY <1>12 DEF ChangePassword, EndLogins, CancelHeld, MadeWith, Kind
<1>13. CASE SetPassword
  BY <1>13 DEF SetPassword, EndLogins, CancelHeld, MadeWith, Kind
<1>14. ASSUME NEW sessions \in SUBSET Logins, Disable(sessions) PROVE \A t \in Subs : Move(t)
  BY <1>14 DEF Disable, EndLogins, CancelHeld, MadeWith
<1>15. CASE Enable
  BY <1>15 DEF Enable
<1>16. CASE Claim
  BY <1>16 DEF Claim, FirstDue, Due, StillValid, Trouble
<1>17. CASE Wake
  BY <1>17 DEF Wake
<1>18. ASSUME NEW s \in Subs, SendHeld(s) PROVE \A t \in Subs : Move(t)
  BY <1>18 DEF SendHeld
<1>19. CASE SendRefused
  BY <1>19 DEF SendRefused
<1>20. CASE SendHere
  BY <1>20 DEF SendHere, GiveHere, Fates
<1>21. CASE SendAway
  BY <1>21 DEF SendAway, GiveAway, Bounce, Trouble
<1>22. CASE SendAwayFails
  BY <1>22 DEF SendAwayFails
<1>23. CASE Finish
  BY <1>23 DEF Finish, NextPick
<1>24. CASE ClaimFails
  BY <1>24 DEF ClaimFails, Trouble
<1>25. CASE FinishFails
  BY <1>25 DEF FinishFails, NextPick, Trouble
<1>26. CASE Crash
  BY <1>26 DEF Crash, Trouble
<1>27. CASE Tick
  BY <1>27 DEF Tick
<1>28. CASE UNCHANGED vars
  BY <1>28 DEF vars
<1> HIDE DEF SubInv, TypeOK, RowsConsistent, WorkerConsistent, Move, StageOf, Direct, Window!After
<1> QED
  BY <1>1, <1>2, <1>3, <1>4, <1>5, <1>6, <1>7, <1>8, <1>9, <1>10, <1>11, <1>12, <1>13, <1>14, <1>15,
     <1>16, <1>17, <1>18, <1>19, <1>20, <1>21, <1>22, <1>23, <1>24, <1>25, <1>26, <1>27, <1>28 DEF Next,
     WorkerStep, Kind

\* Holding submissions back implements the undo window: what was stopped in time
\* reaches nobody, and what reaches somebody was released.
THEOREM SubmissionWindowKept == Spec => WindowKept
<1>1. Init => Window!Init
  BY NoSubAssumption DEF Init, Window!Init, StageOf, Direct
<1>2. SubInv /\ SubInv' /\ [Next]_vars =>
        [Window!Next]_<<[s \in Subs |-> StageOf(s)], [s \in Subs |-> delivered[s] + queued[s]]>>
  <2> SUFFICES ASSUME SubInv, SubInv', [Next]_vars PROVE Window!Next
    OBVIOUS
  <2>1. \A t \in Subs : Move(t)
    BY MoveStep
  <2>2. \A t \in Subs : StageOf(t)' \in Window!Stages
    BY DEF StageOf, Window!Stages
  <2>3. delivered' \in [Subs -> Nat] /\ queued' \in [Subs -> Nat]
    BY DEF SubInv, TypeOK
  <2> QED
    BY <2>1, <2>2, <2>3 DEF Window!Next, Move
<1> QED
  BY <1>1, <1>2, SubInvAlways, PTL DEF Spec, WindowKept, Window!Spec

=============================================================================
