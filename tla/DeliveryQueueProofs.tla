------------------------ MODULE DeliveryQueueProofs ------------------------
(***************************************************************************)
(* What the delivery worker keeps for any number of messages, recipients,  *)
(* domains and tasks, any delays and any bounds: `inflight` holds exactly  *)
(* what unfinished tasks work on, no recipient is in two of them, and no   *)
(* task ever works on a recipient that is settled already, unless that     *)
(* recipient became due while the worker or a task had it.  What bounces   *)
(* is listed as refused first, and whoever wants to hear of delays hears   *)
(* of the first hold.                                                      *)
(***************************************************************************)
EXTENDS DeliveryQueue, TLAPS

\* A task knows outcomes of its own recipients only, and only while it writes
\* them down.
ResultsOwn ==
  \A s \in Slots :
    /\ phase[s] = "free" => group[s] = {}
    /\ phase[s] # "marking" => result[s] = NoResult
    /\ \A r \in Recipients : result[s][r] # "none" => r \in group[s]

\* The inductive invariant of the tasks.
TaskInv == TypeOK /\ ResultsOwn /\ InflightExact /\ OneTaskPerRecipient

\* What is taken are recipients.
LEMMA TakenType == TypeOK => Taken \subseteq Recipients
  BY DEF TypeOK, Taken, Undone

\* What marking a recipient does to its row, to the tasks' notes and to the rest.
LEMMA MarkRows ==
  ASSUME TypeOK, NEW s \in Slots, NEW r \in Recipients, Mark(s, r)
  PROVE  /\ phase[s] = "marking" /\ noting[s] = {} /\ result[s][r] # "none"
         /\ result' = [result EXCEPT ![s][r] = "none"]
         /\ UNCHANGED <<created, mails, refused, workerVars, inflight, phase, group, mail, wasHeld, raw,
                        senderVars, stuck, lapsed, now, boundVars>>
         /\ \/ UpdateFails(r)
            \/ \E new \in {"pending", "delivered", "failed"}, next \in Nat, held \in BOOLEAN :
                 UpdateRecipient(r, new, next, held)
         /\ \/ UNCHANGED <<noting, failed>>
            \/ /\ noting' = noting /\ UpdateFails(r)
               /\ failed' = failed \/ failed' = [failed EXCEPT ![s] = @ \union {r}]
            \/ /\ noting' = [noting EXCEPT ![s] = Rows \intersect {r}]
               /\ failed' = failed \/ failed' = [failed EXCEPT ![s] = @ \union {r}]
         /\ delayed' = delayed \/ delayed' = [delayed EXCEPT ![s] = @ \union {r}]
<1> USE DelaysAssumption, BoundsAssumption
<1>1. ASSUME NEW outcome \in Outcomes, Marks(s, r, outcome)
      PROVE  /\ phase[s] = "marking" /\ noting[s] = {} /\ result[s][r] # "none"
             /\ result' = [result EXCEPT ![s][r] = "none"]
             /\ UNCHANGED <<created, mails, refused, workerVars, inflight, phase, group, mail, wasHeld, raw,
                            senderVars, stuck, lapsed, now, boundVars>>
  BY <1>1 DEF Marks, Outcomes
<1>2. ASSUME NEW bounces \in BOOLEAN, NEW held \in BOOLEAN, Fail(s, r, bounces, held)
      PROVE  /\ \/ UpdateFails(r)
                \/ \E new \in {"pending", "delivered", "failed"}, next \in Nat, h \in BOOLEAN :
                     UpdateRecipient(r, new, next, h)
             /\ \/ /\ noting' = noting /\ UpdateFails(r)
                   /\ failed' = failed \/ failed' = [failed EXCEPT ![s] = @ \union {r}]
                \/ /\ noting' = [noting EXCEPT ![s] = Rows \intersect {r}]
                   /\ failed' = failed \/ failed' = [failed EXCEPT ![s] = @ \union {r}]
             /\ delayed' = delayed
  <2>1. due[r] \in Nat
    BY DEF TypeOK
  <2>2. failed' = failed \/ failed' = [failed EXCEPT ![s] = @ \union {r}]
    BY <1>2 DEF Fail, TypeOK
  <2>3. CASE UpdateFails(r) /\ UNCHANGED noting
    BY <1>2, <2>2, <2>3 DEF Fail
  <2>4. CASE /\ UpdateRecipient(r, "failed", due[r], held)
             /\ noting' = [noting EXCEPT ![s] = Rows \intersect {r}]
    BY <1>2, <2>1, <2>2, <2>4 DEF Fail
  <2> QED BY <1>2, <2>3, <2>4 DEF Fail
<1>3. ASSUME NEW next \in Nat, NEW held \in BOOLEAN, PutOff(r, next, held)
      PROVE  /\ \/ UpdateFails(r)
                \/ \E new \in {"pending", "delivered", "failed"}, n \in Nat, h \in BOOLEAN :
                     UpdateRecipient(r, new, n, h)
             /\ UNCHANGED <<noting, failed>>
  <2>1. At(next) \in Nat
    BY DEF At
  <2> QED BY <1>3, <2>1 DEF PutOff
<1>4. CASE MarkDelivered(s, r)
  <2>1. due[r] \in Nat
    BY DEF TypeOK
  <2>2. /\ Marks(s, r, "delivered") /\ UNCHANGED <<noting, failed, delayed>>
        /\ UpdateRecipient(r, "delivered", due[r], FALSE) \/ UpdateFails(r)
    BY <1>4 DEF MarkDelivered
  <2> QED BY <1>1, <2>1, <2>2 DEF Outcomes
<1>5. CASE MarkDeferred(s, r)
  <2>1. PICK delay \in RetryDelays :
          Fail(s, r, TRUE, FALSE) \/ (PutOff(r, now + delay, FALSE) /\ UNCHANGED delayed)
    BY <1>5 DEF MarkDeferred
  <2>2. now + delay \in Nat
    BY DEF TypeOK
  <2>3. Marks(s, r, "deferred")
    BY <1>5 DEF MarkDeferred
  <2>4. CASE Fail(s, r, TRUE, FALSE)
    BY <1>1, <1>2, <2>3, <2>4 DEF Outcomes
  <2>5. CASE PutOff(r, now + delay, FALSE) /\ UNCHANGED delayed
    BY <1>1, <1>3, <2>2, <2>3, <2>5 DEF Outcomes
  <2> QED BY <2>1, <2>4, <2>5
<1>6. CASE MarkHeld(s, r)
  <2>1. Marks(s, r, "held")
    BY <1>6 DEF MarkHeld
  <2>2. CASE Fail(s, r, r \notin Never, TRUE)
    BY <1>1, <1>2, <2>1, <2>2 DEF Outcomes
  <2>3. CASE /\ PutOff(r, now + HoldRetry, TRUE)
             /\ delayed' = [delayed EXCEPT ![s] =
                  IF r \in WantDelay \ wasHeld[s] THEN @ \union {r} ELSE @]
    <3>1. now + HoldRetry \in Nat
      BY DEF TypeOK
    <3>2. delayed' = delayed \/ delayed' = [delayed EXCEPT ![s] = @ \union {r}]
      BY <2>3 DEF TypeOK
    <3> QED BY <1>1, <1>3, <2>1, <2>3, <3>1, <3>2 DEF Outcomes
  <2> QED BY <1>6, <2>2, <2>3 DEF MarkHeld
<1>7. CASE MarkFailed(s, r)
  <2>1. Marks(s, r, "failed") /\ Fail(s, r, r \notin Never, FALSE)
    BY <1>7 DEF MarkFailed
  <2> QED BY <1>1, <1>2, <2>1 DEF Outcomes
<1> QED BY <1>4, <1>5, <1>6, <1>7 DEF Mark

\* Marking a recipient keeps the type of the state.
LEMMA MarkType ==
  ASSUME TypeOK, NEW s \in Slots, NEW r \in Recipients, Mark(s, r)
  PROVE  TypeOK'
<1>1. /\ result' = [result EXCEPT ![s][r] = "none"]
      /\ UNCHANGED <<created, mails, refused, workerVars, inflight, phase, group, mail, wasHeld, raw,
                     senderVars, stuck, lapsed, now, boundVars>>
  BY MarkRows
<1>2. \/ UpdateFails(r)
      \/ \E new \in {"pending", "delivered", "failed"}, next \in Nat, held \in BOOLEAN :
           UpdateRecipient(r, new, next, held)
  BY MarkRows
<1>3. /\ noting' = noting \/ noting' = [noting EXCEPT ![s] = Rows \intersect {r}]
      /\ failed' = failed \/ failed' = [failed EXCEPT ![s] = @ \union {r}]
      /\ delayed' = delayed \/ delayed' = [delayed EXCEPT ![s] = @ \union {r}]
  BY MarkRows
<1>4. /\ status' \in [Recipients -> {"new", "pending", "delivered", "failed", "gone"}]
      /\ due' \in [Recipients -> Nat]
      /\ heldLast' \subseteq Recipients /\ unwritten' \subseteq Recipients
      /\ faults' \in 0 .. MaxTroubles
  <2>1. CASE UpdateFails(r)
    BY <2>1, BoundsAssumption DEF UpdateFails, Fault, TypeOK
  <2>2. CASE \E new \in {"pending", "delivered", "failed"}, next \in Nat, held \in BOOLEAN :
               UpdateRecipient(r, new, next, held)
    BY <2>2 DEF UpdateRecipient, TypeOK
  <2> QED BY <1>2, <2>1, <2>2
<1>5. noting' \in [Slots -> SUBSET Recipients]
  <2>1. noting \in [Slots -> SUBSET Recipients]
    BY DEF TypeOK
  <2>2. noting' = noting \/ noting' = [noting EXCEPT ![s] = Rows \intersect {r}]
    BY <1>3
  <2> QED BY <2>1, <2>2
<1>6. failed' \in [Slots -> SUBSET Recipients]
  <2>1. failed \in [Slots -> SUBSET Recipients]
    BY DEF TypeOK
  <2>2. failed' = failed \/ failed' = [failed EXCEPT ![s] = @ \union {r}]
    BY <1>3
  <2> QED BY <2>1, <2>2
<1>7. delayed' \in [Slots -> SUBSET Recipients]
  <2>1. delayed \in [Slots -> SUBSET Recipients]
    BY DEF TypeOK
  <2>2. delayed' = delayed \/ delayed' = [delayed EXCEPT ![s] = @ \union {r}]
    BY <1>3
  <2> QED BY <2>1, <2>2
<1>8. result' \in [Slots -> [Recipients -> Outcomes \union {"none"}]]
  BY <1>1 DEF TypeOK
<1> QED
  BY <1>1, <1>4, <1>5, <1>6, <1>7, <1>8 DEF TypeOK, workerVars, senderVars, boundVars

\* The type of the state is kept by every step of the queue, the worker, the
\* tasks, the admins and a restart.
LEMMA TypeStep == TypeOK /\ [Next]_vars => TypeOK'
<1> SUFFICES ASSUME TypeOK, [Next]_vars PROVE TypeOK'
  OBVIOUS
<1> USE IdsAssumption, MsgOfAssumption, DomainOfAssumption, FlagsAssumption, DelaysAssumption, BoundsAssumption
<1> USE DEF TypeOK, queueVars, workerVars, taskVars, senderVars, faultVars, boundVars, Outcomes, NoResult,
            Fault, Heard, Unheard
<1>1. ASSUME NEW m \in Messages, Enqueue(m) PROVE TypeOK'
  BY <1>1, TakenType DEF Enqueue, Lapsing
<1>2. ASSUME NEW m \in Messages, RetryMessage(m) PROVE TypeOK'
  BY <1>2, TakenType DEF RetryMessage, Lapsing
<1>3. ASSUME NEW m \in Messages, DeleteMessage(m) PROVE TypeOK'
  BY <1>3 DEF DeleteMessage, RowsGone
<1>4. CASE Claim
  BY <1>4 DEF Claim, Due, Pending, At, MailsOf
<1>5. ASSUME NEW m \in Messages, Dispatch(m) PROVE TypeOK'
  BY <1>5 DEF Dispatch, Fresh, RecipientsOf
<1>6. ASSUME NEW s \in Slots, Acquire(s) PROVE TypeOK'
  BY <1>6 DEF Acquire
<1>7. ASSUME NEW s \in Slots, Session(s) PROVE TypeOK'
  BY <1>7 DEF Session, HeldInside, DeliverDomain, SmtpSession, Everyone
<1>8. ASSUME NEW s \in Slots, ContentLost(s) PROVE TypeOK'
  BY <1>8 DEF ContentLost
<1>9. ASSUME NEW s \in Slots, NEW r \in Recipients, Mark(s, r) PROVE TypeOK'
  BY <1>9, MarkType
<1>10. ASSUME NEW s \in Slots, NoteRefused(s) PROVE TypeOK'
  BY <1>10 DEF NoteRefused
<1>11. ASSUME NEW s \in Slots, Release(s) PROVE TypeOK'
  BY <1>11 DEF Release
<1>12. ASSUME NEW s \in Slots, Bounce(s) PROVE TypeOK'
  BY <1>12 DEF Bounce
<1>13. ASSUME NEW s \in Slots, DelayNotice(s) PROVE TypeOK'
  BY <1>13 DEF DelayNotice
<1>14. ASSUME NEW s \in Slots, Complete(s) PROVE TypeOK'
  <2>1. PICK m \in Messages :
          \/ /\ UNCHANGED status \/ RowsGone(m)
             /\ UNCHANGED <<stuck, faults>>
          \/ Fault /\ stuck' = stuck \union {m} /\ UNCHANGED status
    BY <1>14 DEF Complete
  <2>2. /\ status' \in [Recipients -> {"new", "pending", "delivered", "failed", "gone"}]
        /\ stuck' \subseteq Messages /\ faults' \in 0 .. MaxTroubles
    <3>1. CASE (UNCHANGED status \/ RowsGone(m)) /\ UNCHANGED <<stuck, faults>>
      BY <3>1 DEF RowsGone
    <3>2. CASE Fault /\ stuck' = stuck \union {m} /\ UNCHANGED status
      BY <3>2
    <3> QED BY <2>1, <3>1, <3>2
  <2> QED BY <1>14, <2>2 DEF Complete, TaskEnds
<1>15. CASE Crash
  BY <1>15 DEF Crash
<1>16. CASE Tick
  BY <1>16, TakenType DEF Tick, Lapsing
<1>17. CASE UNCHANGED vars
  BY <1>17 DEF vars
<1> QED
  BY <1>1, <1>2, <1>3, <1>4, <1>5, <1>6, <1>7, <1>8, <1>9, <1>10, <1>11, <1>12, <1>13, <1>14, <1>15,
     <1>16, <1>17 DEF Next, AdminStep, WorkerStep, TaskStep

-----------------------------------------------------------------------------
\* Marking a recipient changes no task's phase or group and takes at most an
\* outcome away.
LEMMA MarkFrame ==
  ASSUME TypeOK, NEW s \in Slots, NEW r \in Recipients, Mark(s, r)
  PROVE  /\ UNCHANGED <<phase, group, inflight, batch, lapsed, now>>
         /\ phase[s] = "marking"
         /\ result[s][r] # "none"
         /\ result' = [result EXCEPT ![s][r] = "none"]
  BY MarkRows DEF workerVars

\* Dispatching a message spawns tasks that share out its fresh recipients and
\* leaves the other tasks alone.
LEMMA DispatchFrame ==
  ASSUME TaskInv, NEW m \in Messages, Dispatch(m)
  PROVE  /\ \A s \in Slots : phase[s] # "free" => phase'[s] = phase[s] /\ group'[s] = group[s]
         /\ \A s \in Slots : phase[s] = "free" =>
              /\ group'[s] \subseteq Fresh(m)
              /\ phase'[s] = IF group'[s] = {} THEN "free" ELSE "waiting"
         /\ \A r \in Fresh(m) : \E s \in Slots : phase[s] = "free" /\ r \in group'[s]
         /\ \A s, t \in Slots : s # t /\ phase[s] = "free" /\ phase[t] = "free" =>
              group'[s] \intersect group'[t] = {}
         /\ inflight' = inflight \union Fresh(m)
         /\ batch' = batch \ RecipientsOf(m)
         /\ UNCHANGED <<result, status, due, now>>
<1> DEFINE domains == {DomainOf[r] : r \in Fresh(m)}
<1>1. PICK spawned \in [domains -> {s \in Slots : phase[s] = "free"}] :
        /\ group' = [s \in Slots |->
             IF phase[s] = "free" THEN {r \in Fresh(m) : spawned[DomainOf[r]] = s} ELSE group[s]]
        /\ phase' = [s \in Slots |->
             IF phase[s] = "free" /\ group'[s] # {} THEN "waiting" ELSE phase[s]]
  BY Zenon DEF Dispatch
<1>2. \A r \in Fresh(m) : spawned[DomainOf[r]] \in Slots /\ phase[spawned[DomainOf[r]]] = "free"
  BY <1>1
<1>3. \A r \in Fresh(m) : r \in group'[spawned[DomainOf[r]]]
  BY <1>1, <1>2
<1>4. \A s \in Slots : phase[s] # "free" => phase'[s] = phase[s] /\ group'[s] = group[s]
  BY <1>1
<1>5. \A s \in Slots : phase[s] = "free" =>
              /\ group'[s] \subseteq Fresh(m)
              /\ phase'[s] = IF group'[s] = {} THEN "free" ELSE "waiting"
  BY <1>1
<1>6. \A s, t \in Slots : s # t /\ phase[s] = "free" /\ phase[t] = "free" =>
              group'[s] \intersect group'[t] = {}
  BY <1>1
<1>7. /\ inflight' = inflight \union Fresh(m)
      /\ batch' = batch \ RecipientsOf(m)
      /\ UNCHANGED <<result, status, due, now>>
  BY DEF Dispatch, queueVars
<1> QED
  BY <1>2, <1>3, <1>4, <1>5, <1>6, <1>7

\* The tasks' invariant is inductive.
LEMMA TaskStepInv == TaskInv /\ [Next]_vars => TaskInv'
<1> SUFFICES ASSUME TaskInv, [Next]_vars PROVE TaskInv'
  OBVIOUS
<1>0. TypeOK /\ TypeOK'
  BY TypeStep DEF TaskInv
<1> DEFINE Goal == ResultsOwn' /\ InflightExact' /\ OneTaskPerRecipient'
<1> USE DEF queueVars, workerVars, taskVars, senderVars, faultVars, boundVars
<1>1. ASSUME UNCHANGED <<phase, group, result, inflight>> PROVE Goal
  BY <1>1 DEF TaskInv, ResultsOwn, InflightExact, OneTaskPerRecipient, Holding
<1>2. ASSUME NEW m \in Messages, Dispatch(m) PROVE Goal
  <2>1. Fresh(m) \subseteq Recipients /\ Fresh(m) \intersect inflight = {}
    BY <1>0 DEF Fresh, TypeOK
  <2>2. ResultsOwn'
    BY <1>2, DispatchFrame DEF TaskInv, ResultsOwn, NoResult
  <2>3. InflightExact'
    BY <1>2, <2>1, DispatchFrame DEF TaskInv, ResultsOwn, InflightExact, Holding
  <2>4. OneTaskPerRecipient'
    <3> SUFFICES ASSUME NEW s \in Slots, NEW t \in Slots, s # t, Holding(s)', Holding(t)',
                        NEW r \in group'[s], r \in group'[t]
                 PROVE  FALSE
      BY DEF OneTaskPerRecipient
    <3>1. r \in Recipients
      BY <1>0 DEF TypeOK
    <3>2. phase[s] = "free" => r \in Fresh(m)
      BY <1>2, DispatchFrame
    <3>3. phase[t] = "free" => r \in Fresh(m)
      BY <1>2, DispatchFrame
    <3>4. phase[s] # "free" => r \in inflight
      BY <1>2, <3>1, DispatchFrame DEF TaskInv, InflightExact, Holding
    <3>5. phase[t] # "free" => r \in inflight
      BY <1>2, <3>1, DispatchFrame DEF TaskInv, InflightExact, Holding
    <3>6. CASE phase[s] = "free" /\ phase[t] = "free"
      BY <1>2, <3>6, DispatchFrame
    <3>7. CASE phase[s] # "free" /\ phase[t] # "free"
      BY <1>2, <3>7, DispatchFrame DEF TaskInv, OneTaskPerRecipient, Holding
    <3> QED BY <2>1, <3>2, <3>3, <3>4, <3>5, <3>6, <3>7
  <2> QED BY <2>2, <2>3, <2>4
<1>3. ASSUME NEW s \in Slots, Acquire(s) PROVE Goal
  BY <1>0, <1>3 DEF Acquire, TaskInv, TypeOK, ResultsOwn, InflightExact, OneTaskPerRecipient, Holding
<1>4. ASSUME NEW s \in Slots, Session(s) \/ ContentLost(s) PROVE Goal
  <2>1. /\ phase[s] = "running"
        /\ phase' = [phase EXCEPT ![s] = "marking"]
        /\ UNCHANGED <<group, inflight>>
        /\ \A t \in Slots : t # s => result'[t] = result[t]
        /\ \A r \in Recipients : result'[s][r] # "none" => r \in group[s]
    BY <1>0, <1>4 DEF Session, ContentLost, TypeOK
  <2>2. ResultsOwn'
    BY <1>0, <2>1 DEF TaskInv, TypeOK, ResultsOwn, NoResult
  <2>3. InflightExact' /\ OneTaskPerRecipient'
    BY <1>0, <2>1 DEF TaskInv, TypeOK, InflightExact, OneTaskPerRecipient, Holding
  <2> QED BY <2>2, <2>3
<1>5. ASSUME NEW s \in Slots, NEW r \in Recipients, Mark(s, r) PROVE Goal
  <2>1. ResultsOwn'
    BY <1>0, <1>5, MarkFrame DEF TaskInv, TypeOK, ResultsOwn
  <2>2. InflightExact' /\ OneTaskPerRecipient'
    BY <1>0, <1>5, MarkFrame DEF TaskInv, InflightExact, OneTaskPerRecipient, Holding
  <2> QED BY <2>1, <2>2
<1>6. ASSUME NEW s \in Slots, Release(s) PROVE Goal
  <2>1. /\ phase[s] = "marking"
        /\ result[s] = NoResult
        /\ phase' = [phase EXCEPT ![s] = "released"]
        /\ inflight' = inflight \ group[s]
        /\ UNCHANGED <<group, result>>
    BY <1>6 DEF Release
  <2>2. ResultsOwn'
    BY <1>0, <2>1 DEF TaskInv, TypeOK, ResultsOwn
  <2>3. OneTaskPerRecipient'
    BY <1>0, <2>1 DEF TaskInv, TypeOK, OneTaskPerRecipient, Holding
  <2>4. InflightExact'
    BY <1>0, <2>1 DEF TaskInv, TypeOK, InflightExact, OneTaskPerRecipient, Holding
  <2> QED BY <2>2, <2>3, <2>4
<1>7. ASSUME NEW s \in Slots, Complete(s) PROVE Goal
  <2>1. /\ phase[s] = "released"
        /\ phase' = [phase EXCEPT ![s] = "free"]
        /\ group' = [group EXCEPT ![s] = {}]
        /\ UNCHANGED <<inflight, result>>
    BY <1>7 DEF Complete, TaskEnds
  <2>2. ResultsOwn'
    BY <1>0, <2>1 DEF TaskInv, TypeOK, ResultsOwn, NoResult
  <2>3. InflightExact' /\ OneTaskPerRecipient'
    BY <1>0, <2>1 DEF TaskInv, TypeOK, InflightExact, OneTaskPerRecipient, Holding
  <2> QED BY <2>2, <2>3
<1>8. ASSUME Crash PROVE Goal
  BY <1>8 DEF Crash, ResultsOwn, InflightExact, OneTaskPerRecipient, Holding, NoResult
<1>9. ASSUME NEW m \in Messages, Enqueue(m) \/ RetryMessage(m) \/ DeleteMessage(m) PROVE Goal
  BY <1>1, <1>9 DEF Enqueue, RetryMessage, DeleteMessage
<1>10. ASSUME Claim \/ Tick \/ UNCHANGED vars PROVE Goal
  BY <1>1, <1>10 DEF Claim, Tick, vars
<1>11. ASSUME NEW s \in Slots, NoteRefused(s) \/ Bounce(s) \/ DelayNotice(s) PROVE Goal
  BY <1>1, <1>11 DEF NoteRefused, Bounce, DelayNotice
<1>12. Goal
  BY <1>2, <1>3, <1>4, <1>5, <1>6, <1>7, <1>8, <1>9, <1>10, <1>11
     DEF Next, AdminStep, WorkerStep, TaskStep
<1> QED
  BY <1>0, <1>12 DEF TaskInv

\* The tasks' invariant holds throughout.
THEOREM TasksKept == Spec => []TaskInv
<1>1. Init => TaskInv
  BY MsgOfAssumption, BoundsAssumption
     DEF Init, TaskInv, TypeOK, ResultsOwn, InflightExact, OneTaskPerRecipient, Holding, NoResult, Outcomes
<1> QED
  BY <1>1, TaskStepInv, PTL DEF Spec

\* Type correctness of the queue and its worker.
THEOREM TypeCorrect == Spec => []TypeOK
<1>1. TaskInv => TypeOK
  BY DEF TaskInv
<1> QED
  BY <1>1, TasksKept, PTL

\* No recipient is ever delivered to by two tasks of run_queue at once.
THEOREM NoTwoTasks == Spec => []OneTaskPerRecipient
<1>1. TaskInv => OneTaskPerRecipient
  BY DEF TaskInv
<1> QED
  BY <1>1, TasksKept, PTL

\* Context.inflight never forgets a recipient that is being delivered to and
\* never keeps one that is not.
THEOREM InflightIsExact == Spec => []InflightExact
<1>1. TaskInv => InflightExact
  BY DEF TaskInv
<1> QED
  BY <1>1, TasksKept, PTL

-----------------------------------------------------------------------------
\* A recipient the worker has reserved for a try: still to be delivered, and not
\* due again yet.
Reserved(r) == status[r] \in {"pending", "gone"} /\ due[r] > now

\* Whatever is claimed or worked on is reserved, and nothing is both, unless its
\* reservation was broken.
ReservedInv ==
  /\ \A s \in Slots : \A r \in Undone(s) \ lapsed : Reserved(r)
  /\ \A r \in batch \ lapsed : Reserved(r)
  /\ \A s \in Slots : Undone(s) \intersect batch \subseteq lapsed

\* What a task has yet to settle is in its group, and no other task's.
LEMMA UndoneOwn ==
  ASSUME TaskInv
  PROVE  /\ \A s \in Slots : Undone(s) \subseteq group[s] /\ Undone(s) \subseteq Recipients
         /\ \A s \in Slots : Undone(s) # {} => Holding(s)
         /\ \A s, t \in Slots : s # t => Undone(s) \intersect Undone(t) = {}
<1>1. \A s \in Slots : Undone(s) \subseteq group[s] /\ Undone(s) \subseteq Recipients
  BY DEF TaskInv, TypeOK, ResultsOwn, Undone
<1>2. \A s \in Slots : Undone(s) # {} => Holding(s)
  BY DEF TaskInv, TypeOK, ResultsOwn, Undone, Holding, NoResult
<1> QED
  BY <1>1, <1>2 DEF TaskInv, OneTaskPerRecipient

\* A step that only settles or removes rows keeps every reservation, if it leaves
\* the reserved rows themselves alone or removes them.
LEMMA ReservedStays ==
  ASSUME ReservedInv, batch' \subseteq batch, lapsed' = lapsed, now' = now,
         \A s \in Slots : Undone(s)' \subseteq Undone(s),
         \A s \in Slots : \A r \in Undone(s)' \ lapsed : due'[r] = due[r] /\ status'[r] \in {status[r], "gone"},
         \A r \in batch' \ lapsed : due'[r] = due[r] /\ status'[r] \in {status[r], "gone"}
  PROVE  ReservedInv'
<1>1. \A s \in Slots : \A r \in Undone(s)' \ lapsed' : Reserved(r)'
  BY DEF ReservedInv, Reserved
<1>2. \A r \in batch' \ lapsed' : Reserved(r)'
  BY DEF ReservedInv, Reserved
<1>3. \A s \in Slots : Undone(s)' \intersect batch' \subseteq lapsed'
  BY DEF ReservedInv
<1> QED
  BY <1>1, <1>2, <1>3 DEF ReservedInv

\* A step that makes recipients due, or moves the clock, breaks the reservations
\* it overtakes and leaves the others.
LEMMA ReservedLapse ==
  ASSUME TaskInv, TypeOK', ReservedInv, UNCHANGED <<phase, group, result, batch>>,
         lapsed' = Lapsing(due', now'),
         \A r \in Recipients : status'[r] \in {status[r], "pending"}
  PROVE  ReservedInv'
<1>1. \A s \in Slots : Undone(s)' = Undone(s)
  BY DEF Undone
<1>2. /\ lapsed \subseteq lapsed'
      /\ \A r \in Taken \ lapsed' : ~(due'[r] <= now')
  BY DEF Lapsing
<1>3. ASSUME NEW r \in Taken, r \notin lapsed', status[r] \in {"pending", "gone"}
      PROVE  Reserved(r)'
  <2>1. r \in Recipients
    BY TakenType DEF TaskInv
  <2>2. due'[r] \in Nat /\ now' \in Nat
    BY <2>1 DEF TypeOK
  <2> QED BY <1>2, <1>3, <2>1, <2>2 DEF Reserved
<1>4. ASSUME NEW s \in Slots, NEW r \in Undone(s), r \notin lapsed' PROVE Reserved(r)'
  <2>1. r \in Taken /\ status[r] \in {"pending", "gone"}
    BY <1>2, <1>4 DEF Taken, ReservedInv, Reserved
  <2> QED BY <1>3, <1>4, <2>1
<1>5. ASSUME NEW r \in batch, r \notin lapsed' PROVE Reserved(r)'
  <2>1. r \in Taken /\ status[r] \in {"pending", "gone"}
    BY <1>2, <1>5 DEF Taken, ReservedInv, Reserved
  <2> QED BY <1>3, <1>5, <2>1
<1>6. \A s \in Slots : Undone(s)' \intersect batch' \subseteq lapsed'
  BY <1>1, <1>2 DEF ReservedInv
<1> QED
  BY <1>1, <1>4, <1>5, <1>6 DEF ReservedInv

\* Reservations last until they are broken.
LEMMA ReservedStep ==
  ASSUME Horizon > MaxTime, TaskInv, TaskInv', ReservedInv, [Next]_vars
  PROVE  ReservedInv'
<1> USE DEF queueVars, workerVars, taskVars, senderVars, faultVars, boundVars
<1>0. TypeOK /\ TypeOK'
  BY DEF TaskInv
<1>u. /\ \A s \in Slots : Undone(s) \subseteq Recipients
      /\ batch \subseteq Recipients
  BY <1>0, UndoneOwn DEF TypeOK
<1>1. ASSUME UNCHANGED <<phase, group, result, batch, lapsed, now>>,
             \A r \in Recipients : due'[r] = due[r] /\ status'[r] \in {status[r], "gone"}
      PROVE  ReservedInv'
  <2>1. \A s \in Slots : Undone(s)' = Undone(s)
    BY <1>1 DEF Undone
  <2> QED
    BY <1>1, <1>u, <2>1, ReservedStays
<1>2. ASSUME NEW m \in Messages, Enqueue(m) PROVE ReservedInv'
  BY <1>0, <1>2, ReservedLapse DEF Enqueue, TypeOK
<1>3. ASSUME NEW m \in Messages, RetryMessage(m) PROVE ReservedInv'
  BY <1>0, <1>3, ReservedLapse DEF RetryMessage, TypeOK
<1>4. ASSUME NEW m \in Messages, DeleteMessage(m) PROVE ReservedInv'
  <2>1. \A r \in Recipients : due'[r] = due[r] /\ status'[r] \in {status[r], "gone"}
    BY <1>0, <1>4 DEF DeleteMessage, RowsGone, TypeOK
  <2> QED BY <1>1, <1>4, <2>1 DEF DeleteMessage
<1>5. ASSUME Claim PROVE ReservedInv'
  <2>1. PICK claimed \in SUBSET Due :
          /\ due' = [r \in Recipients |-> IF r \in claimed THEN At(now + Lease) ELSE due[r]]
          /\ batch' = claimed
    BY <1>5 DEF Claim
  <2>2. \A r \in claimed : r \in Recipients /\ status[r] = "pending" /\ due[r] <= now
    BY <2>1 DEF Due, Pending
  <2>3. At(now + Lease) > now
    BY <1>0, DelaysAssumption, BoundsAssumption DEF At, TypeOK
  <2>4. \A s \in Slots : Undone(s)' = Undone(s)
    BY <1>5 DEF Claim, Undone
  <2>5. UNCHANGED <<status, lapsed, now>>
    BY <1>5 DEF Claim
  <2>6. \A s \in Slots : \A r \in Undone(s) \ lapsed : r \notin claimed
    <3> SUFFICES ASSUME NEW s \in Slots, NEW r \in Undone(s), r \notin lapsed, r \in claimed PROVE FALSE
      OBVIOUS
    <3>1. due[r] > now /\ due[r] <= now
      BY <2>2 DEF ReservedInv, Reserved
    <3>2. due[r] \in Nat /\ now \in Nat
      BY <1>0, <2>2 DEF TypeOK
    <3> QED BY <3>1, <3>2
  <2>7. \A r \in batch' \ lapsed' : Reserved(r)'
    BY <2>1, <2>2, <2>3, <2>5 DEF Reserved
  <2>8. \A s \in Slots : \A r \in Undone(s)' \ lapsed' : Reserved(r)'
    BY <1>u, <2>1, <2>4, <2>5, <2>6 DEF ReservedInv, Reserved
  <2>9. \A s \in Slots : Undone(s)' \intersect batch' \subseteq lapsed'
    BY <2>1, <2>4, <2>5, <2>6
  <2> QED BY <2>7, <2>8, <2>9 DEF ReservedInv
<1>6. ASSUME NEW m \in Messages, Dispatch(m) PROVE ReservedInv'
  <2>1. UNCHANGED <<status, due, lapsed, now>> /\ batch' = batch \ RecipientsOf(m)
    BY <1>6, DispatchFrame DEF Dispatch
  <2>2. Fresh(m) \subseteq batch /\ Fresh(m) \subseteq RecipientsOf(m)
    BY <1>u DEF Fresh, RecipientsOf
  <2>3. \A s \in Slots : phase[s] # "free" => Undone(s)' = Undone(s)
    <3> SUFFICES ASSUME NEW s \in Slots, phase[s] # "free" PROVE Undone(s)' = Undone(s)
      OBVIOUS
    <3>1. phase'[s] = phase[s] /\ group'[s] = group[s] /\ result' = result
      BY <1>6, DispatchFrame
    <3> QED BY <3>1 DEF Undone
  <2>4. \A s \in Slots : phase[s] = "free" => Undone(s)' \subseteq Fresh(m)
    <3> SUFFICES ASSUME NEW s \in Slots, phase[s] = "free" PROVE Undone(s)' \subseteq Fresh(m)
      OBVIOUS
    <3>1. result'[s] = NoResult
      BY <1>6, DispatchFrame DEF TaskInv, ResultsOwn
    <3> QED BY <1>6, <3>1, DispatchFrame DEF Undone, NoResult
  <2>5. \A s \in Slots : \A r \in Undone(s)' \ lapsed' : Reserved(r)'
    BY <2>1, <2>2, <2>3, <2>4 DEF ReservedInv, Reserved
  <2>6. \A s \in Slots : Undone(s)' \intersect batch' \subseteq lapsed'
    BY <2>1, <2>2, <2>3, <2>4 DEF ReservedInv
  <2>7. \A r \in batch' \ lapsed' : Reserved(r)'
    BY <2>1 DEF ReservedInv, Reserved
  <2> QED BY <2>5, <2>6, <2>7 DEF ReservedInv
<1>7. ASSUME NEW s \in Slots, Acquire(s) PROVE ReservedInv'
  <2>1. \A t \in Slots : Undone(t)' = Undone(t)
    BY <1>0, <1>7 DEF Acquire, Undone, TypeOK
  <2> QED BY <1>7, <2>1, ReservedStays DEF Acquire
<1>8. ASSUME NEW s \in Slots, Session(s) \/ ContentLost(s) PROVE ReservedInv'
  <2>1. /\ phase[s] = "running"
        /\ phase' = [phase EXCEPT ![s] = "marking"]
        /\ UNCHANGED <<group, batch, status, due, lapsed, now>>
        /\ \A t \in Slots : t # s => result'[t] = result[t]
        /\ \A r \in Recipients : result'[s][r] # "none" => r \in group[s]
    BY <1>0, <1>8 DEF Session, ContentLost, TypeOK
  <2>2. \A t \in Slots : Undone(t)' \subseteq Undone(t)
    BY <1>0, <2>1 DEF Undone, TypeOK
  <2> QED BY <2>1, <2>2, ReservedStays
<1>9. ASSUME NEW s \in Slots, NEW r \in Recipients, Mark(s, r) PROVE ReservedInv'
  <2>1. r \in Undone(s)
    BY <1>0, <1>9, MarkFrame DEF Undone
  <2>2. \A t \in Slots : Undone(t)' \subseteq Undone(t) \ {r}
    <3>1. Undone(s)' \subseteq Undone(s) \ {r}
      BY <1>0, <1>9, MarkFrame DEF Undone, TypeOK
    <3>2. ASSUME NEW t \in Slots, t # s PROVE Undone(t)' \subseteq Undone(t) \ {r}
      <4>1. Undone(t)' = Undone(t)
        <5>1. phase' = phase /\ group' = group /\ result'[t] = result[t]
          BY <1>0, <1>9, <3>2, MarkFrame DEF TypeOK
        <5> QED BY <5>1 DEF Undone
      <4> QED BY <2>1, <3>2, <4>1, UndoneOwn
    <3> QED BY <3>1, <3>2
  <2>3. r \notin batch \ lapsed /\ batch' = batch /\ UNCHANGED <<lapsed, now>>
    BY <1>0, <1>9, <2>1, MarkFrame DEF ReservedInv
  <2>4. \A q \in Recipients : q # r => due'[q] = due[q] /\ status'[q] = status[q]
    <3>1. CASE UpdateFails(r)
      BY <3>1 DEF UpdateFails
    <3>2. CASE \E new \in {"pending", "delivered", "failed"}, next \in Nat, held \in BOOLEAN :
                 UpdateRecipient(r, new, next, held)
      BY <1>0, <3>2 DEF UpdateRecipient, TypeOK
    <3> QED BY <1>0, <1>9, <3>1, <3>2, MarkRows
  <2> QED BY <1>u, <2>2, <2>3, <2>4, ReservedStays
<1>10. ASSUME NEW s \in Slots, NoteRefused(s) \/ Bounce(s) \/ DelayNotice(s) PROVE ReservedInv'
  BY <1>1, <1>10 DEF NoteRefused, Bounce, DelayNotice
<1>11. ASSUME NEW s \in Slots, Release(s) PROVE ReservedInv'
  <2>1. \A t \in Slots : Undone(t)' = Undone(t)
    BY <1>0, <1>11 DEF Release, Undone, TypeOK
  <2> QED BY <1>11, <2>1, ReservedStays DEF Release
<1>12. ASSUME NEW s \in Slots, Complete(s) PROVE ReservedInv'
  <2>1. \A t \in Slots : Undone(t)' = Undone(t)
    BY <1>0, <1>12 DEF Complete, TaskEnds, Undone, TypeOK
  <2>2. \A r \in Recipients : status'[r] \in {status[r], "gone"}
    BY <1>0, <1>12 DEF Complete, RowsGone, TypeOK
  <2>3. UNCHANGED <<due, batch, lapsed, now>>
    BY <1>12 DEF Complete
  <2> QED BY <1>u, <2>1, <2>2, <2>3, ReservedStays
<1>13. ASSUME Crash PROVE ReservedInv'
  <2>1. \A s \in Slots : Undone(s)' = {}
    BY <1>13 DEF Crash, Undone, NoResult
  <2>2. batch' = {}
    BY <1>13 DEF Crash
  <2> QED BY <2>1, <2>2 DEF ReservedInv
<1>14. ASSUME Tick PROVE ReservedInv'
  BY <1>0, <1>14, ReservedLapse DEF Tick, TypeOK
<1>15. ASSUME UNCHANGED vars PROVE ReservedInv'
  BY <1>1, <1>15 DEF vars
<1> QED
  BY <1>2, <1>3, <1>4, <1>5, <1>6, <1>7, <1>8, <1>9, <1>10, <1>11, <1>12, <1>13, <1>14, <1>15
     DEF Next, AdminStep, WorkerStep, TaskStep

\* The promise of claim_due_deliveries, for any number of messages, tasks, retries
\* and restarts: no task works on a recipient that is settled already, unless that
\* very recipient became due while it was taken.  The bound of next_attempt_at has
\* to be beyond the clock's.
THEOREM SettledNotSentAgain ==
  ASSUME Horizon > MaxTime
  PROVE  Spec => []WorksOnPending
<1>1. Init => ReservedInv
  BY DEF Init, ReservedInv, Undone, NoResult
<1>2. TaskInv /\ TaskInv' /\ ReservedInv /\ [Next]_vars => ReservedInv'
  BY ReservedStep
<1>3. ReservedInv => WorksOnPending
  BY DEF ReservedInv, Reserved, WorksOnPending
<1> QED
  BY <1>1, <1>2, <1>3, TasksKept, PTL DEF Spec
-----------------------------------------------------------------------------
(* What the sender and the admin hear of.                                  *)

\* A task works for the mail its claim read, and has failures of its own
\* recipients only.
MailsRise ==
  /\ \A r \in batch : batchMail[MsgOf[r]] <= mails[MsgOf[r]]
  /\ \A s \in Slots : \A r \in group[s] : mail[s] <= mails[MsgOf[r]]
  /\ \A s \in Slots : failed[s] \subseteq group[s]

\* What is to bounce is listed, or could not be written down, or is the one the
\* task comes to note next.
Listing ==
  \A s \in Slots :
    /\ noting[s] # {} => phase[s] = "marking"
    /\ phase[s] \in {"free", "waiting", "running"} => failed[s] = {}
    /\ \A r \in (failed[s] \ noting[s]) \intersect Rows : mails[MsgOf[r]] = mail[s] =>
         r \in refused \union unwritten

\* The inductive invariant of the list of refused mail.
ListedInv == MailsRise /\ Listing

\* Marking a recipient leaves the rows that are there, and notes the failure to be
\* listed, unless it could not be written down.
LEMMA MarkLists ==
  ASSUME TypeOK, NEW s \in Slots, NEW r \in Recipients, Mark(s, r)
  PROVE  /\ UNCHANGED <<phase, group, batch, batchMail, mail, mails, refused>>
         /\ Rows' = Rows /\ noting[s] = {}
         /\ phase[s] = "marking" /\ result[s][r] # "none"
         /\ unwritten \subseteq unwritten'
         /\ \/ UNCHANGED <<noting, failed>>
            \/ /\ noting' = noting /\ r \in unwritten'
               /\ failed' = failed \/ failed' = [failed EXCEPT ![s] = @ \union {r}]
            \/ /\ noting' = [noting EXCEPT ![s] = Rows \intersect {r}]
               /\ failed' = failed \/ failed' = [failed EXCEPT ![s] = @ \union {r}]
<1>1. /\ UNCHANGED <<phase, group, batch, batchMail, mail, mails, refused>>
      /\ noting[s] = {} /\ phase[s] = "marking" /\ result[s][r] # "none"
  BY MarkRows DEF workerVars
<1>2. ASSUME UpdateFails(r) PROVE Rows' = Rows /\ unwritten' = unwritten \union {r}
  BY <1>2 DEF UpdateFails, Rows
<1>3. ASSUME NEW new \in {"pending", "delivered", "failed"}, NEW next \in Nat, NEW held \in BOOLEAN,
             UpdateRecipient(r, new, next, held)
      PROVE  Rows' = Rows /\ unwritten' = unwritten
  BY <1>3 DEF UpdateRecipient, Rows, TypeOK
<1>4. Rows' = Rows /\ unwritten \subseteq unwritten'
  BY <1>2, <1>3, MarkRows
<1> QED BY <1>1, <1>2, <1>4, MarkRows

\* Failures are listed before they bounce.
LEMMA ListedStep == TaskInv /\ TypeOK' /\ ListedInv /\ [Next]_vars => ListedInv'
<1> SUFFICES ASSUME TaskInv, TypeOK', ListedInv, [Next]_vars PROVE ListedInv'
  OBVIOUS
<1>0. TypeOK /\ ResultsOwn
  BY DEF TaskInv
<1> USE <1>0, MsgOfAssumption, BoundsAssumption
<1> USE DEF ListedInv, MailsRise, Listing, queueVars, workerVars, taskVars, senderVars, faultVars
<1>1. ASSUME NEW m \in Messages, Enqueue(m) PROVE ListedInv'
  <2>1. /\ UNCHANGED <<batch, batchMail, phase, group, mail, noting, failed, refused>>
        /\ mails' = [mails EXCEPT ![m] = @ + 1]
        /\ unwritten' = unwritten
        /\ \A r \in Rows' : r \in Rows \/ MsgOf[r] = m
    BY <1>1 DEF Enqueue, Rows
  <2>2. \A s \in Slots : \A r \in failed[s] : MsgOf[r] = m => mail[s] # mails'[MsgOf[r]]
    BY <2>1 DEF TypeOK
  <2>3. MailsRise'
    BY <2>1 DEF TypeOK
  <2>4. \A r \in Recipients : MsgOf[r] # m => mails'[MsgOf[r]] = mails[MsgOf[r]]
    BY <2>1 DEF TypeOK
  <2>5. Listing'
    BY <2>1, <2>2, <2>4 DEF TypeOK
  <2> QED BY <2>3, <2>5
<1>2. ASSUME NEW m \in Messages, DeleteMessage(m) PROVE ListedInv'
  <2>1. Rows' \subseteq Rows
    BY <1>2 DEF DeleteMessage, RowsGone, Rows, TypeOK
  <2> QED BY <1>2, <2>1 DEF DeleteMessage
<1>3. CASE Claim
  <2>1. \A r \in batch' : batchMail'[MsgOf[r]] = mails[MsgOf[r]]
    BY <1>3 DEF Claim, MailsOf, RecipientsOf, Due, Pending, TypeOK
  <2>2. UNCHANGED <<status, mails, refused, unwritten, phase, group, mail, noting, failed>>
    BY <1>3 DEF Claim
  <2> QED BY <2>1, <2>2 DEF Rows, TypeOK
<1>4. ASSUME NEW m \in Messages, Dispatch(m) PROVE ListedInv'
  <2>1. /\ \A s \in Slots : phase[s] # "free" => phase'[s] = phase[s] /\ group'[s] = group[s]
        /\ \A s \in Slots : phase[s] = "free" =>
             group'[s] \subseteq Fresh(m) /\ phase'[s] = IF group'[s] = {} THEN "free" ELSE "waiting"
    BY <1>4, DispatchFrame
  <2>2. /\ UNCHANGED <<status, mails, refused, unwritten, noting, failed>>
        /\ batch' = batch \ RecipientsOf(m) /\ batchMail' = [batchMail EXCEPT ![m] = 0]
        /\ mail' = [s \in Slots |-> IF phase[s] = "free" /\ group'[s] # {} THEN batchMail[m] ELSE mail[s]]
    BY <1>4 DEF Dispatch
  <2>3. \A r \in Fresh(m) : r \in Recipients /\ MsgOf[r] = m /\ batchMail[m] <= mails[MsgOf[r]]
    BY DEF Fresh, TypeOK
  <2>4. MailsRise'
    BY <2>1, <2>2, <2>3 DEF RecipientsOf, TypeOK, ResultsOwn
  <2>5. Rows' = Rows
    BY <2>2 DEF Rows
  <2>6. Listing'
    BY <2>1, <2>2, <2>5 DEF ResultsOwn, TypeOK
  <2> QED BY <2>4, <2>6
<1>5. ASSUME NEW s \in Slots, NEW r \in Recipients, Mark(s, r) PROVE ListedInv'
  <2>1. /\ UNCHANGED <<phase, group, batch, batchMail, mail, mails, refused>>
        /\ Rows' = Rows /\ noting[s] = {} /\ phase[s] = "marking" /\ r \in group[s]
        /\ unwritten \subseteq unwritten'
    BY <1>5, MarkLists DEF ResultsOwn
  <2>2. /\ \A t \in Slots : t # s => noting'[t] = noting[t] /\ failed'[t] = failed[t]
        /\ failed'[s] \subseteq failed[s] \union {r}
        /\ noting'[s] \subseteq {r}
        /\ r \in failed'[s] \intersect Rows => r \in failed[s] \union noting'[s] \union unwritten'
    <3>1. CASE UNCHANGED <<noting, failed>>
      BY <2>1, <3>1
    <3>2. CASE /\ noting' = noting /\ r \in unwritten'
               /\ failed' = failed \/ failed' = [failed EXCEPT ![s] = @ \union {r}]
      BY <2>1, <3>2 DEF TypeOK
    <3>3. CASE /\ noting' = [noting EXCEPT ![s] = Rows \intersect {r}]
               /\ failed' = failed \/ failed' = [failed EXCEPT ![s] = @ \union {r}]
      BY <2>1, <3>3 DEF TypeOK
    <3> QED BY <1>5, <3>1, <3>2, <3>3, MarkLists
  <2>3. MailsRise'
    BY <2>1, <2>2
  <2>4. ASSUME NEW t \in Slots
        PROVE  /\ noting'[t] # {} => phase[t] = "marking"
               /\ phase[t] \in {"free", "waiting", "running"} => failed'[t] = {}
               /\ \A q \in (failed'[t] \ noting'[t]) \intersect Rows :
                    mails[MsgOf[q]] = mail[t] => q \in refused \union unwritten'
    <3>1. CASE t = s
      BY <2>1, <2>2, <3>1
    <3>2. CASE t # s
      BY <2>1, <2>2, <3>2
    <3> QED BY <3>1, <3>2
  <2>5. Listing'
    BY <2>1, <2>4
  <2> QED BY <2>3, <2>5
<1>6. ASSUME NEW s \in Slots, NoteRefused(s) PROVE ListedInv'
  <2>1. /\ UNCHANGED <<status, batch, batchMail, mails, phase, group, mail, failed>>
        /\ noting' = [noting EXCEPT ![s] = {}]
        /\ refused \subseteq refused' /\ unwritten \subseteq unwritten'
        /\ noting[s] \intersect Rows \subseteq refused' \union unwritten'
    BY <1>6 DEF NoteRefused
  <2>2. Rows' = Rows
    BY <2>1 DEF Rows
  <2>3. \A t \in Slots : /\ t # s => noting'[t] = noting[t]
                         /\ noting'[s] = {}
    BY <2>1 DEF TypeOK
  <2> QED BY <2>1, <2>2, <2>3
<1>7. ASSUME NEW s \in Slots, Release(s) PROVE ListedInv'
  BY <1>7 DEF Release, Rows, TypeOK
<1>8. ASSUME NEW s \in Slots, Complete(s) PROVE ListedInv'
  <2>1. Rows' \subseteq Rows
    BY <1>8 DEF Complete, RowsGone, Rows, TypeOK
  <2> QED BY <1>8, <2>1 DEF Complete, TaskEnds, TypeOK
<1>9. CASE Crash
  BY <1>9 DEF Crash, TypeOK
<1>10. ASSUME NEW s \in Slots, Acquire(s) \/ Session(s) \/ ContentLost(s) PROVE ListedInv'
  <2>1. UNCHANGED <<status, mails, refused, unwritten, noting, failed, group, mail, batch, batchMail>>
    BY <1>10 DEF Acquire, Session, ContentLost
  <2>2. /\ phase[s] # "free" /\ failed[s] = {} /\ noting[s] = {}
        /\ \A t \in Slots : t # s => phase'[t] = phase[t]
    BY <1>10 DEF Acquire, Session, ContentLost, TypeOK, ResultsOwn
  <2> QED BY <2>1, <2>2 DEF Rows, TypeOK
<1>12. ASSUME NEW s \in Slots, Bounce(s) PROVE ListedInv'
  <2>1. UNCHANGED <<status, mails, refused, unwritten, noting, phase, group, mail, batch, batchMail>>
    BY <1>12 DEF Bounce
  <2>2. \A t \in Slots : failed'[t] \subseteq failed[t]
    BY <1>12 DEF Bounce, TypeOK
  <2> QED BY <2>1, <2>2 DEF Rows, TypeOK
<1>13. ASSUME NEW s \in Slots, DelayNotice(s) PROVE ListedInv'
  BY <1>13 DEF DelayNotice, Rows
<1>11. CASE (\E m \in Messages : RetryMessage(m)) \/ Tick \/ UNCHANGED vars
  BY <1>11 DEF RetryMessage, Tick, vars, Rows
<1> QED
  BY <1>1, <1>2, <1>3, <1>4, <1>5, <1>6, <1>7, <1>8, <1>9, <1>10, <1>11, <1>12, <1>13
     DEF Next, AdminStep, WorkerStep, TaskStep

\* note_refused comes before the bounce, whatever is deleted, retried, queued under
\* the same ids or cut off between mark_recipient_failed and it.
THEOREM BouncesAreListed == Spec => []RefusedListed
<1>1. Init => ListedInv
  BY DEF Init, ListedInv, MailsRise, Listing
<1>2. TaskInv /\ TypeOK' /\ ListedInv /\ [Next]_vars => ListedInv'
  BY ListedStep
<1>3. TaskInv => TypeOK
  BY DEF TaskInv
<1>4. ListedInv => RefusedListed
  BY DEF ListedInv, Listing, RefusedListed
<1> QED
  BY <1>1, <1>2, <1>3, <1>4, TasksKept, PTL DEF Spec


-----------------------------------------------------------------------------
\* The recipients a delay notice went out for, is about to, or had no way to.
Told == noticed \union unnoticed \union UNION {delayed[s] : s \in Slots}

\* A task tells nobody of a delay before it writes outcomes down, and never without
\* the message, which is what it would send back.
DelaysOwn ==
  \A s \in Slots :
    /\ phase[s] \in {"free", "waiting", "running"} => delayed[s] = {} /\ raw[s] = TRUE
    /\ raw[s] = FALSE =>
         delayed[s] = {} /\ \A r \in Recipients : result[s][r] \in {"none", "failed"}

\* Whoever is held, was held when a claim read the row, or is in the hands of a task
\* as held before, was told.
HoldsTold ==
  crashes = 0 =>
    /\ heldLast \intersect WantDelay \intersect Pending \subseteq Told
    /\ batchHeld \intersect WantDelay \subseteq Told
    /\ \A s \in Slots : wasHeld[s] \intersect WantDelay \subseteq Told

\* The inductive invariant of the delay notices.
HoldInv == DelaysOwn /\ HoldsTold

\* What marking a recipient does to the notices: nothing, except that whoever is put
\* off as held for the first time is remembered for one.
LEMMA MarkTells ==
  ASSUME TypeOK, NEW s \in Slots, NEW r \in Recipients, Mark(s, r)
  PROVE  /\ UNCHANGED <<phase, raw, wasHeld, batchHeld, noticed, unnoticed, crashes>>
         /\ phase[s] = "marking"
         /\ result' = [result EXCEPT ![s][r] = "none"]
         /\ \A t \in Slots : t # s => delayed'[t] = delayed[t]
         /\ delayed[s] \subseteq delayed'[s]
         /\ result[s][r] # "held" => delayed'[s] = delayed[s] /\ heldLast' \subseteq heldLast
         /\ heldLast' \subseteq heldLast \union {r}
         /\ Pending' \subseteq Pending \union {r}
         /\ r \in heldLast' \intersect Pending' =>
              \/ r \in heldLast \intersect Pending
              \/ r \in delayed'[s] \union wasHeld[s]
              \/ r \notin WantDelay
<1>1. ASSUME NEW outcome, Marks(s, r, outcome)
      PROVE  /\ UNCHANGED <<phase, raw, wasHeld, batchHeld, noticed, unnoticed, crashes>>
             /\ phase[s] = "marking"
             /\ result' = [result EXCEPT ![s][r] = "none"]
             /\ result[s][r] = outcome
  BY <1>1 DEF Marks, workerVars, senderVars, boundVars
<1>2. ASSUME NEW new, NEW next, UpdateRecipient(r, new, next, FALSE)
      PROVE  Pending' \subseteq Pending \union {r} /\ heldLast' = heldLast \ {r}
  BY <1>2 DEF UpdateRecipient, Pending, TypeOK
<1>3. ASSUME NEW new \in {"pending", "failed"}, NEW next, UpdateRecipient(r, new, next, TRUE)
      PROVE  /\ Pending' \subseteq Pending \union {r} /\ heldLast' = heldLast \union {r}
             /\ new # "pending" => r \notin Pending'
  <2>1. \A q \in Recipients : q # r => status'[q] = status[q]
    BY <1>3 DEF UpdateRecipient, TypeOK
  <2>2. status'[r] = IF r \in Rows THEN new ELSE status[r]
    BY <1>3 DEF UpdateRecipient, TypeOK
  <2> QED BY <1>3, <2>1, <2>2 DEF UpdateRecipient, Pending, Rows
<1>4. ASSUME UpdateFails(r)
      PROVE  Pending' = Pending /\ heldLast' = heldLast
  BY <1>4 DEF UpdateFails, Pending
<1>5. CASE MarkDelivered(s, r)
  <2>1. /\ Marks(s, r, "delivered") /\ UNCHANGED delayed
        /\ UpdateRecipient(r, "delivered", due[r], FALSE) \/ UpdateFails(r)
    BY <1>5 DEF MarkDelivered
  <2> QED BY <1>1, <1>2, <1>4, <2>1
<1>6. CASE MarkDeferred(s, r)
  <2>1. /\ Marks(s, r, "deferred") /\ UNCHANGED delayed
        /\ (\E new, next : UpdateRecipient(r, new, next, FALSE)) \/ UpdateFails(r)
    BY <1>6 DEF MarkDeferred, Fail, PutOff
  <2> QED BY <1>1, <1>2, <1>4, <2>1
<1>7. CASE MarkFailed(s, r)
  <2>1. /\ Marks(s, r, "failed") /\ UNCHANGED delayed
        /\ UpdateRecipient(r, "failed", due[r], FALSE) \/ UpdateFails(r)
    BY <1>7 DEF MarkFailed, Fail
  <2> QED BY <1>1, <1>2, <1>4, <2>1
<1>8. CASE MarkHeld(s, r)
  <2>1. Marks(s, r, "held")
    BY <1>8 DEF MarkHeld
  <2>2. CASE Fail(s, r, r \notin Never, TRUE)
    <3>1. UNCHANGED delayed /\ (UpdateRecipient(r, "failed", due[r], TRUE) \/ UpdateFails(r))
      BY <2>2 DEF Fail
    <3>2. CASE UpdateRecipient(r, "failed", due[r], TRUE)
      <4>1. /\ Pending' \subseteq Pending \union {r} /\ heldLast' = heldLast \union {r}
            /\ r \notin Pending'
        BY <1>3, <3>2
      <4> QED BY <1>1, <2>1, <3>1, <4>1
    <3>3. CASE UpdateFails(r)
      BY <1>1, <1>4, <2>1, <3>1, <3>3
    <3> QED BY <3>1, <3>2, <3>3
  <2>3. CASE /\ PutOff(r, now + HoldRetry, TRUE)
             /\ delayed' = [delayed EXCEPT ![s] =
                  IF r \in WantDelay \ wasHeld[s] THEN @ \union {r} ELSE @]
    <3>1. UpdateRecipient(r, "pending", At(now + HoldRetry), TRUE) \/ UpdateFails(r)
      BY <2>3 DEF PutOff
    <3>2. /\ \A t \in Slots : t # s => delayed'[t] = delayed[t]
          /\ delayed[s] \subseteq delayed'[s]
          /\ r \in delayed'[s] \union wasHeld[s] \/ r \notin WantDelay
      BY <2>3 DEF TypeOK
    <3> QED BY <1>1, <1>3, <1>4, <2>1, <3>1, <3>2
  <2> QED BY <1>8, <2>2, <2>3 DEF MarkHeld
<1> QED BY <1>5, <1>6, <1>7, <1>8 DEF Mark

\* A task that lost the message has only failures to write down.
LEMMA DelaysStep == TaskInv /\ TypeOK' /\ DelaysOwn /\ [Next]_vars => DelaysOwn'
<1> SUFFICES ASSUME TaskInv, TypeOK', DelaysOwn, [Next]_vars PROVE DelaysOwn'
  OBVIOUS
<1>0. TypeOK /\ ResultsOwn
  BY DEF TaskInv
<1> USE <1>0
<1> USE DEF DelaysOwn, queueVars, workerVars, taskVars, senderVars
<1>1. ASSUME NEW m \in Messages, Dispatch(m) PROVE DelaysOwn'
  <2>1. \A s \in Slots : phase[s] # "free" => phase'[s] = phase[s]
    BY <1>1, DispatchFrame
  <2>2. UNCHANGED <<delayed, raw, result>>
    BY <1>1 DEF Dispatch
  <2> QED BY <2>1, <2>2
<1>2. ASSUME NEW s \in Slots, Acquire(s) PROVE DelaysOwn'
  BY <1>2 DEF Acquire, TypeOK
<1>3. ASSUME NEW s \in Slots, Session(s) PROVE DelaysOwn'
  <2>1. /\ UNCHANGED <<delayed, raw>> /\ raw[s] = TRUE
        /\ \A t \in Slots : t # s => phase'[t] = phase[t] /\ result'[t] = result[t]
        /\ phase'[s] = "marking"
    BY <1>3 DEF Session, TypeOK
  <2> QED BY <2>1
<1>4. ASSUME NEW s \in Slots, ContentLost(s) PROVE DelaysOwn'
  <2>1. /\ UNCHANGED delayed /\ delayed[s] = {}
        /\ \A t \in Slots : t # s => phase'[t] = phase[t] /\ result'[t] = result[t] /\ raw'[t] = raw[t]
        /\ phase'[s] = "marking"
        /\ \A r \in Recipients : result'[s][r] \in {"none", "failed"}
    BY <1>4 DEF ContentLost, TypeOK
  <2> QED BY <2>1
<1>5. ASSUME NEW s \in Slots, NEW r \in Recipients, Mark(s, r) PROVE DelaysOwn'
  <2>1. /\ UNCHANGED <<phase, raw>> /\ phase[s] = "marking"
        /\ \A t \in Slots : t # s => delayed'[t] = delayed[t] /\ result'[t] = result[t]
        /\ result[s][r] # "held" => delayed'[s] = delayed[s]
        /\ \A q \in Recipients : result'[s][q] \in {result[s][q], "none"}
    BY <1>5, MarkTells DEF TypeOK
  <2> QED BY <2>1
<1>6. ASSUME NEW s \in Slots, Release(s) PROVE DelaysOwn'
  <2>1. /\ UNCHANGED <<raw, result>> /\ phase'[s] = "released"
        /\ \A t \in Slots : delayed'[t] \subseteq delayed[t] /\ (t # s => phase'[t] = phase[t])
    BY <1>6 DEF Release, TypeOK
  <2> QED BY <2>1
<1>7. ASSUME NEW s \in Slots, DelayNotice(s) PROVE DelaysOwn'
  BY <1>7 DEF DelayNotice, TypeOK
<1>8. ASSUME NEW s \in Slots, Complete(s) PROVE DelaysOwn'
  BY <1>8 DEF Complete, TaskEnds, TypeOK
<1>9. CASE Crash
  BY <1>9 DEF Crash
<1>10. CASE \/ \E m \in Messages : Enqueue(m) \/ RetryMessage(m) \/ DeleteMessage(m)
            \/ Claim
            \/ \E s \in Slots : NoteRefused(s) \/ Bounce(s)
            \/ Tick \/ UNCHANGED vars
  <2>1. UNCHANGED <<phase, delayed, raw, result>>
    BY <1>10 DEF Enqueue, RetryMessage, DeleteMessage, Claim, NoteRefused, Bounce, Tick, vars
  <2> QED BY <2>1
<1> QED
  BY <1>1, <1>2, <1>3, <1>4, <1>5, <1>6, <1>7, <1>8, <1>9, <1>10
     DEF Next, AdminStep, WorkerStep, TaskStep

\* Nobody who was told is forgotten, and whoever is newly held is told.
LEMMA HoldsStep == TaskInv /\ TypeOK' /\ DelaysOwn /\ HoldsTold /\ [Next]_vars => HoldsTold'
<1> SUFFICES ASSUME TaskInv, TypeOK', DelaysOwn, HoldsTold, [Next]_vars, crashes' = 0 PROVE HoldsTold'
  BY DEF HoldsTold
<1>0. TypeOK /\ ResultsOwn
  BY DEF TaskInv
<1> USE <1>0, MsgOfAssumption
<1> USE DEF queueVars, workerVars, taskVars, senderVars, faultVars, boundVars
<1>1. ASSUME crashes = 0, Told \subseteq Told',
             (heldLast \intersect Pending)' \subseteq heldLast \intersect Pending,
             batchHeld' \subseteq batchHeld \union (heldLast \intersect Pending),
             \A s \in Slots : wasHeld'[s] \subseteq wasHeld[s] \union batchHeld
      PROVE  HoldsTold'
  <2>1. \A s \in Slots : wasHeld[s] \intersect WantDelay \subseteq Told
    BY <1>1 DEF HoldsTold
  <2>2. /\ (heldLast \intersect Pending) \intersect WantDelay \subseteq Told
        /\ batchHeld \intersect WantDelay \subseteq Told
    BY <1>1 DEF HoldsTold
  <2>3. (heldLast \intersect WantDelay \intersect Pending)' \subseteq Told'
    BY <1>1, <2>2
  <2> QED BY <1>1, <2>1, <2>2, <2>3 DEF HoldsTold
<1>2. CASE \E m \in Messages : Enqueue(m)
  <2>1. PICK m \in Messages : Enqueue(m)
    BY <1>2
  <2>2. UNCHANGED <<batchHeld, wasHeld, delayed, noticed, unnoticed, crashes>>
    BY <2>1 DEF Enqueue
  <2>3. (heldLast \intersect Pending)' \subseteq heldLast \intersect Pending
    BY <2>1 DEF Enqueue, Pending, RecipientsOf
  <2> QED BY <1>1, <2>2, <2>3 DEF Told
<1>3. CASE \E m \in Messages : DeleteMessage(m)
  <2>1. UNCHANGED <<batchHeld, wasHeld, delayed, noticed, unnoticed, crashes, heldLast>>
    BY <1>3 DEF DeleteMessage
  <2>2. Pending' \subseteq Pending
    BY <1>3 DEF DeleteMessage, RowsGone, Rows, Pending, TypeOK
  <2> QED BY <1>1, <2>1, <2>2 DEF Told
<1>4. CASE Claim
  <2>1. UNCHANGED <<status, wasHeld, delayed, noticed, unnoticed, crashes, heldLast>>
    BY <1>4 DEF Claim
  <2>2. batchHeld' \subseteq heldLast \intersect Pending
    BY <1>4 DEF Claim, Due
  <2> QED BY <1>1, <2>1, <2>2 DEF Told, Pending
<1>5. CASE \E m \in Messages : Dispatch(m)
  <2>1. PICK m \in Messages : Dispatch(m)
    BY <1>5
  <2>2. UNCHANGED <<status, delayed, noticed, unnoticed, crashes, heldLast>> /\ batchHeld' \subseteq batchHeld
    BY <2>1 DEF Dispatch
  <2>3. \A s \in Slots : wasHeld'[s] \subseteq wasHeld[s] \union batchHeld
    BY <2>1 DEF Dispatch
  <2> QED BY <1>1, <2>2, <2>3 DEF Told, Pending
<1>6. ASSUME NEW s \in Slots, NEW r \in Recipients, Mark(s, r) PROVE HoldsTold'
  <2>1. /\ UNCHANGED <<wasHeld, batchHeld, noticed, unnoticed, crashes>>
        /\ \A t \in Slots : delayed[t] \subseteq delayed'[t]
        /\ heldLast' \subseteq heldLast \union {r}
        /\ Pending' \subseteq Pending \union {r}
        /\ r \in heldLast' \intersect Pending' =>
             \/ r \in heldLast \intersect Pending
             \/ r \in delayed'[s] \union wasHeld[s]
             \/ r \notin WantDelay
    BY <1>6, MarkTells
  <2>2. Told \subseteq Told' /\ delayed'[s] \subseteq Told'
    BY <2>1 DEF Told
  <2>3. /\ heldLast \intersect WantDelay \intersect Pending \subseteq Told
        /\ batchHeld \intersect WantDelay \subseteq Told
        /\ \A t \in Slots : wasHeld[t] \intersect WantDelay \subseteq Told
    BY <2>1 DEF HoldsTold
  <2>4. (heldLast \intersect WantDelay \intersect Pending)' \subseteq Told'
    BY <2>1, <2>2, <2>3
  <2> QED BY <2>1, <2>2, <2>3, <2>4 DEF HoldsTold
<1>7. ASSUME NEW s \in Slots, Release(s) PROVE HoldsTold'
  <2>1. UNCHANGED <<status, batchHeld, wasHeld, noticed, crashes, heldLast>> /\ unnoticed \subseteq unnoticed'
    BY <1>7 DEF Release
  <2>2. raw[s] = TRUE \/ delayed[s] = {}
    BY DEF DelaysOwn, TypeOK
  <2>3. UNCHANGED delayed
    BY <1>7, <2>2 DEF Release, TypeOK
  <2> QED BY <1>1, <2>1, <2>3 DEF Told, Pending
<1>8. ASSUME NEW s \in Slots, DelayNotice(s) PROVE HoldsTold'
  <2>1. UNCHANGED <<status, batchHeld, wasHeld, crashes, heldLast>>
    BY <1>8 DEF DelayNotice
  <2>2. /\ noticed \union unnoticed \union delayed[s] \subseteq noticed' \union unnoticed'
        /\ \A t \in Slots : t # s => delayed'[t] = delayed[t]
    BY <1>8 DEF DelayNotice, TypeOK
  <2>3. Told \subseteq Told'
    BY <2>2 DEF Told
  <2> QED BY <1>1, <2>1, <2>3 DEF Pending
<1>9. ASSUME NEW s \in Slots, Complete(s) PROVE HoldsTold'
  <2>1. UNCHANGED <<batchHeld, delayed, noticed, unnoticed, crashes, heldLast>>
    BY <1>9 DEF Complete, TaskEnds
  <2>2. Pending' \subseteq Pending
    BY <1>9 DEF Complete, RowsGone, Rows, Pending, TypeOK
  <2>3. \A t \in Slots : wasHeld'[t] \subseteq wasHeld[t]
    BY <1>9 DEF Complete, TaskEnds, TypeOK
  <2> QED BY <1>1, <2>1, <2>2, <2>3 DEF Told
<1>10. CASE Crash
  BY <1>10 DEF Crash, TypeOK
<1>11. CASE \/ \E m \in Messages : RetryMessage(m)
            \/ \E s \in Slots : Acquire(s) \/ Session(s) \/ ContentLost(s) \/ NoteRefused(s) \/ Bounce(s)
            \/ Tick \/ UNCHANGED vars
  <2>1. UNCHANGED <<status, batchHeld, wasHeld, delayed, noticed, unnoticed, crashes, heldLast>>
    BY <1>11 DEF RetryMessage, Acquire, Session, ContentLost, NoteRefused, Bounce, Tick, vars
  <2> QED BY <1>1, <2>1 DEF Told, Pending
<1> QED
  BY <1>2, <1>3, <1>4, <1>5, <1>6, <1>7, <1>8, <1>9, <1>10, <1>11
     DEF Next, AdminStep, WorkerStep, TaskStep

\* MarkHeld's "first time" is judged by what the claim read, a while before: the sender
\* of a held mail hears of it all the same.
THEOREM HoldsAreTold == Spec => []HoldTold
<1>1. Init => HoldInv
  BY DEF Init, HoldInv, DelaysOwn, HoldsTold
<1>2. TaskInv /\ TypeOK' /\ HoldInv /\ [Next]_vars => HoldInv'
  BY DelaysStep, HoldsStep DEF HoldInv
<1>3. TaskInv => TypeOK
  BY DEF TaskInv
<1>4. HoldInv => HoldTold
  BY DEF HoldInv, HoldsTold, HoldTold, Told
<1> QED
  BY <1>1, <1>2, <1>3, <1>4, TasksKept, PTL DEF Spec

=============================================================================
