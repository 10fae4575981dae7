---------------------------- MODULE Submission ----------------------------
(***************************************************************************)
(* Submissions of one account: sent at once, or held for the undo window   *)
(* or until a time the person chose.                                       *)
(*                                                                         *)
(* A JMAP request logs in, is checked, and either records a held           *)
(* submission or hands the message over and records that.  One worker      *)
(* claims what is due, hands each message over and records how it went.    *)
(* Handing over has two effects that are not one transaction: people on    *)
(* this server get the message, then it is queued for people elsewhere.    *)
(* People here who cannot get it, and people elsewhere an internal-only    *)
(* account may not write to, come back to the sender in a bounce.          *)
(* Cancelling, destroying, revoking a login, changing the password,        *)
(* becoming a service and disabling the account come at any time, and so   *)
(* does a crash.                                                           *)
(*                                                                         *)
(* Ids of rows, app passwords and OAuth grants are never used again.  A    *)
(* login made later is another one and held nothing yet.  A session that   *)
(* only logs out does not stop what it held, so that is no event here.     *)
(***************************************************************************)
EXTENDS Integers, FiniteSets

CONSTANTS
  Subs,        \* submissions: a creation request and the row it leaves
  Logins,      \* credentials of the account
  KindOf,      \* "password", "session", "app" or "oauth" of each
  LoginOf,     \* the login each request is made with
  Here,        \* submissions for people on this server
  Away,        \* submissions for people elsewhere
  Outcomes,    \* what can become of the people a message is for, see Fates
  NoSub,       \* no submission
  Delays,      \* how long a request asks to wait; 0 sends at once
  Batch,       \* BATCH
  MaxTime,     \* bound of the clock and of send_at
  MaxTroubles  \* bound of the restarts, database errors and broken rows met

ASSUME LoginsAssumption == KindOf \in [Logins -> {"password", "session", "app", "oauth"}]
ASSUME LoginOfAssumption == LoginOf \in [Subs -> Logins]
ASSUME RecipientsAssumption == Here \cup Away = Subs
ASSUME OutcomesAssumption == Outcomes \subseteq SUBSET {"got", "refused", "dropped", "inside"}
ASSUME NoSubAssumption == NoSub \notin Subs
ASSUME NumbersAssumption ==
  /\ Delays \subseteq Nat
  /\ Batch \in Nat \ {0}
  /\ MaxTime \in Nat
  /\ MaxTroubles \in Nat

VARIABLES
  live,       \* logins that authenticate
  up,         \* whether the account may log in
  request,    \* where each creation request is
  delay,      \* how long it asked to wait
  sendAt,     \* email_submissions.send_at
  undo,       \* undo_status; "none" before and "destroyed" after the row exists
  held,       \* whether held_blob is set
  error,      \* whether release_error is set
  fate,       \* what the last try did with the people it is for
  notice,     \* whether the sender was told of those it failed for in that try
  delivered,  \* how often people here got the message
  queued,     \* how often it was queued for people elsewhere
  worker,     \* where the worker is
  batch,      \* claimed submissions it has yet to send
  current,    \* the one it is sending
  failure,    \* whether sending that one failed
  now,
  troubles,   \* restarts and database errors so far
  cuts,       \* history: how often sending each was cut off or not recorded
  ended,      \* history: submissions whose login ended after they were made
  late,       \* history: submissions held after their login had ended
  serviced    \* history: submissions whose login ended because the account became a service

loginVars == <<live, up>>
requestVars == <<request, delay>>
rowVars == <<sendAt, undo, held, error>>
sentVars == <<fate, notice, delivered, queued>>
workerVars == <<worker, batch, current, failure>>
historyVars == <<ended, late, serviced>>
vars == <<loginVars, requestVars, rowVars, sentVars, workerVars, now, troubles, cuts,
          historyVars>>

Init ==
  /\ live = Logins
  /\ up = TRUE
  /\ request = [s \in Subs |-> "new"]
  /\ delay = [s \in Subs |-> 0]
  /\ sendAt = [s \in Subs |-> 0]
  /\ undo = [s \in Subs |-> "none"]
  /\ held = [s \in Subs |-> FALSE]
  /\ error = [s \in Subs |-> FALSE]
  /\ fate = [s \in Subs |-> {}]
  /\ notice = [s \in Subs |-> "none"]
  /\ delivered = [s \in Subs |-> 0]
  /\ queued = [s \in Subs |-> 0]
  /\ worker = "claim"
  /\ batch = {}
  /\ current = NoSub
  /\ failure = FALSE
  /\ now = 0
  /\ troubles = 0
  /\ cuts = [s \in Subs |-> 0]
  /\ ended = {}
  /\ late = {}
  /\ serviced = {}

-----------------------------------------------------------------------------
(* The request: EmailSubmission/set with a create.                         *)

\* The request logs in and reads the clock; the credential is kept with it.
Open(s) ==
  /\ request[s] = "new"
  /\ up
  /\ LoginOf[s] \in live
  /\ \E d \in Delays :
       /\ now + d <= MaxTime
       /\ delay' = [delay EXCEPT ![s] = d]
       /\ sendAt' = [sendAt EXCEPT ![s] = now + d]
  /\ request' = [request EXCEPT ![s] = "open"]
  /\ UNCHANGED <<loginVars, undo, held, error, sentVars, workerVars, now, troubles,
                 cuts, historyVars>>

\* check_submission, or the same checks at the start of submit: they read the
\* account as it is now.
Check(s) ==
  /\ request[s] = "open"
  /\ up
  /\ request' = [request EXCEPT ![s] = "checked"]
  /\ UNCHANGED <<loginVars, delay, rowVars, sentVars, workerVars, now, troubles,
                 cuts, historyVars>>

\* The request ends without a row: refused, failed, or its client went away.
GiveUp(s) ==
  /\ request[s] \in {"open", "checked", "gaveHere", "gaveAll"}
  /\ request' = [request EXCEPT ![s] = "over"]
  /\ UNCHANGED <<loginVars, delay, rowVars, sentVars, workerVars, now, troubles,
                 cuts, historyVars>>

\* hold_submission
Hold(s) ==
  /\ request[s] = "checked"
  /\ delay[s] > 0
  /\ request' = [request EXCEPT ![s] = "over"]
  /\ undo' = [undo EXCEPT ![s] = "pending"]
  /\ held' = [held EXCEPT ![s] = TRUE]
  /\ late' = IF s \in ended THEN late \cup {s} ELSE late
  /\ UNCHANGED <<loginVars, delay, sendAt, error, sentVars, workerVars, now, troubles, cuts, ended, serviced>>

Trouble == troubles < MaxTroubles /\ troubles' = troubles + 1

\* What the loop of submit_checked can do with the people a message is for.  Some
\* here get it, some are refused (no such mailbox, a group that is closed to the
\* sender, a mailbox that is full), and some count as reached and get nothing (a
\* group it went through before, a forward that may not leave).  An internal-only
\* sender with people here is refused those elsewhere ("inside").
Fates(s) ==
  {f \in Outcomes :
     /\ s \in Here <=> f \cap {"got", "refused", "dropped"} # {}
     /\ "inside" \in f => s \in Here \cap Away}

\* Somebody is in `failed`.
Refused(s) == fate[s] \cap {"refused", "inside"} # {}

\* Somebody elsewhere is in `remote`.
Leaves(s) == s \in Away /\ "inside" \notin fate[s]

\* SubmitError::NobodyAccepted
NobodyAccepted(s) == fate[s] \cap {"got", "dropped"} = {} /\ ~Leaves(s)

\* The part of submit_checked that reaches people on this server.
GiveHere(s) ==
  \E f \in Fates(s) :
    /\ fate' = [fate EXCEPT ![s] = f]
    /\ notice' = [notice EXCEPT ![s] = "none"]
    /\ delivered' = IF "got" \in f THEN [delivered EXCEPT ![s] = @ + 1] ELSE delivered

\* The part of submit_checked that queues the message for people elsewhere.
GiveAway(s) == queued' = IF Leaves(s) THEN [queued EXCEPT ![s] = @ + 1] ELSE queued

\* The bounce about those in `failed`; that it could not be kept is only logged.
Bounce(s) ==
  \/ /\ Refused(s) /\ ~NobodyAccepted(s)
     /\ \/ notice' = [notice EXCEPT ![s] = "sent"] /\ UNCHANGED troubles
        \/ notice' = [notice EXCEPT ![s] = "lost"] /\ Trouble
  \/ /\ ~Refused(s) \/ NobodyAccepted(s)
     /\ UNCHANGED <<notice, troubles>>

SubmitHere(s) ==
  /\ request[s] = "checked"
  /\ delay[s] = 0
  /\ GiveHere(s)
  /\ request' = [request EXCEPT ![s] = "gaveHere"]
  /\ UNCHANGED <<loginVars, delay, rowVars, queued, workerVars, now, troubles,
                 cuts, historyVars>>

SubmitAway(s) ==
  /\ request[s] = "gaveHere"
  /\ GiveAway(s)
  /\ Bounce(s)
  /\ request' = [request EXCEPT ![s] = IF NobodyAccepted(s) THEN "over" ELSE "gaveAll"]
  /\ UNCHANGED <<loginVars, delay, rowVars, fate, delivered, workerVars, now, cuts, historyVars>>

\* record_submission
Record(s) ==
  /\ request[s] = "gaveAll"
  /\ request' = [request EXCEPT ![s] = "over"]
  /\ undo' = [undo EXCEPT ![s] = "final"]
  /\ UNCHANGED <<loginVars, delay, sendAt, held, error, sentVars, workerVars, now, troubles, cuts, historyVars>>

-----------------------------------------------------------------------------
(* What the person and the admin do to submissions and logins.             *)

\* cancel_submission; on a row that is not pending it changes nothing.
Cancel(s) ==
  /\ undo[s] = "pending"
  /\ undo' = [undo EXCEPT ![s] = "canceled"]
  /\ held' = [held EXCEPT ![s] = FALSE]
  /\ UNCHANGED <<loginVars, requestVars, sendAt, error, sentVars, workerVars, now, troubles, cuts, historyVars>>

\* destroy_submission
Destroy(s) ==
  /\ undo[s] \in {"pending", "final", "canceled"}
  /\ undo' = [undo EXCEPT ![s] = "destroyed"]
  /\ held' = [held EXCEPT ![s] = FALSE]
  /\ error' = [error EXCEPT ![s] = FALSE]
  /\ UNCHANGED <<loginVars, requestVars, sendAt, sentVars, workerVars, now, troubles, cuts,
                 historyVars>>

\* Mutant of CancelHeld: what waits stays as it is.
CancelHeldNot(S) == UNCHANGED <<undo, held, error>>

\* cancel_held, for the submissions its condition selects.
CancelHeld(S) ==
  LET stopped == {s \in S : undo[s] = "pending" /\ held[s]} IN
    /\ undo' = [s \in Subs |-> IF s \in stopped THEN "canceled" ELSE undo[s]]
    /\ held' = [s \in Subs |-> held[s] /\ s \notin stopped]
    /\ error' = [s \in Subs |-> error[s] \/ s \in stopped]

\* The submissions made so far with a login of L.
MadeWith(L) == {s \in Subs : LoginOf[s] \in L /\ request[s] # "new"}

EndLogins(L) ==
  /\ live' = live \ L
  /\ ended' = ended \cup MadeWith(L \cap live)

Kind(kinds) == {l \in Logins : KindOf[l] \in kinds}

\* revoke_app_password, forget_grant
Revoke(l) ==
  /\ KindOf[l] \in {"app", "oauth"}
  /\ l \in live
  /\ EndLogins({l})
  /\ CancelHeld(MadeWith({l}))
  /\ UNCHANGED <<up, requestVars, sendAt, sentVars, workerVars, now, troubles, cuts, late,
                 serviced>>

\* become_service: the password, the sessions and the OAuth grants end, and what
\* they held is left waiting.
BecomeService ==
  LET gone == Kind({"password", "session", "oauth"}) IN
  /\ EndLogins(gone)
  /\ serviced' = serviced \cup MadeWith(gone \cap live)
  /\ UNCHANGED <<up, requestVars, rowVars, sentVars, workerVars, now, troubles, cuts, late>>

\* change_password keeps the session it was made from, use_password_link none.
ChangePassword(keep) ==
  /\ keep \subseteq live
  /\ EndLogins(Kind({"password", "session"}) \ keep)
  /\ CancelHeld(MadeWith(Kind({"password", "session"}) \ keep))
  /\ UNCHANGED <<up, requestVars, sendAt, sentVars, workerVars, now, troubles, cuts, late,
                 serviced>>

\* set_password: the sessions stay, what they held does not.
SetPassword ==
  /\ EndLogins(Kind({"password"}))
  /\ CancelHeld(MadeWith(Kind({"password", "session"})))
  /\ UNCHANGED <<up, requestVars, sendAt, sentVars, workerVars, now, troubles, cuts, late,
                 serviced>>

\* set_account_disabled leaves the sessions alone; update_account and trash_account
\* end them.
Disable(sessions) ==
  /\ up
  /\ up' = FALSE
  /\ EndLogins(sessions)
  /\ CancelHeld(Subs)
  /\ UNCHANGED <<requestVars, sendAt, sentVars, workerVars, now, troubles, cuts, late,
                 serviced>>

\* The account is enabled again, or restored from the trash.
Enable ==
  /\ ~up
  /\ up' = TRUE
  /\ UNCHANGED <<live, requestVars, rowVars, sentVars, workerVars, now, troubles, cuts,
                 historyVars>>

-----------------------------------------------------------------------------
(* The worker: run_scheduled_sending and release_due_submissions.          *)

Due == {s \in Subs : held[s] /\ undo[s] # "canceled" /\ (undo[s] = "final" \/ sendAt[s] <= now)}

\* HELD_STILL_VALID
StillValid(s) == up /\ (KindOf[LoginOf[s]] \in {"app", "oauth"} => LoginOf[s] \in live)

\* ORDER BY send_at, id LIMIT Batch; which of two with one time has the lower
\* id is left open.
FirstDue(S) ==
  {T \in SUBSET S :
     /\ Cardinality(T) = IF Cardinality(S) < Batch THEN Cardinality(S) ELSE Batch
     /\ \A s \in T, t \in S \ T : sendAt[s] <= sendAt[t]}

\* Mutant of Claim: the status says final only once the message has gone.
ClaimLate ==
  /\ worker = "claim"
  /\ batch' \in FirstDue({s \in Due : StillValid(s)})
  /\ worker' = IF batch' = {} THEN "asleep" ELSE "pick"
  /\ UNCHANGED <<loginVars, requestVars, rowVars, sentVars, current, failure, now, troubles,
                 cuts, historyVars>>

\* Mutant of Claim: what was claimed before the server stopped is not taken again.
ClaimPending ==
  LET due == {s \in Due : undo[s] = "pending"} IN
  /\ worker = "claim"
  /\ batch' \in FirstDue({s \in due : StillValid(s)})
  /\ undo' = [s \in Subs |-> IF s \in batch' THEN "final"
                             ELSE IF s \in due /\ ~StillValid(s) THEN "canceled" ELSE undo[s]]
  /\ held' = [s \in Subs |-> held[s] /\ (s \in due => StillValid(s))]
  /\ error' = [s \in Subs |-> error[s] \/ (s \in due /\ ~StillValid(s))]
  /\ worker' = IF batch' = {} THEN "asleep" ELSE "pick"
  /\ UNCHANGED <<loginVars, requestVars, sendAt, sentVars, current, failure, now, troubles,
                 cuts, historyVars>>

\* claim_due_submissions: what is due but whose login no longer stands is let go,
\* the rest can no longer be cancelled and is taken, but for rows whose held_blob
\* names no message.
Claim ==
  LET stale == {s \in Due : ~StillValid(s)} IN
  /\ worker = "claim"
  /\ \E taken \in FirstDue(Due \ stale) :
       \E lost \in SUBSET taken :
         /\ IF lost = {} THEN UNCHANGED troubles ELSE Trouble
         /\ batch' = taken \ lost
         /\ undo' = [s \in Subs |-> IF s \in taken THEN "final"
                                    ELSE IF s \in stale /\ undo[s] = "pending" THEN "canceled"
                                    ELSE undo[s]]
         /\ held' = [s \in Subs |-> held[s] /\ s \notin stale \cup lost]
         /\ error' = [s \in Subs |-> error[s] \/ s \in stale \cup lost]
  /\ worker' = IF batch' = {} THEN "asleep" ELSE "pick"
  /\ UNCHANGED <<loginVars, requestVars, sendAt, sentVars, current, failure, now, cuts,
                 historyVars>>

\* The database refuses the claim: the worker sleeps and tries again.
ClaimFails ==
  /\ worker = "claim"
  /\ Trouble
  /\ worker' = "asleep"
  /\ UNCHANGED <<loginVars, requestVars, rowVars, sentVars, batch, current, failure, now, cuts, historyVars>>

\* The sleep ends: its time is over, at most MAX_SLEEP_SECS, or a request woke it.
Wake ==
  /\ worker = "asleep"
  /\ worker' = "claim"
  /\ UNCHANGED <<loginVars, requestVars, rowVars, sentVars, batch, current, failure, now, troubles, cuts, historyVars>>

\* send_held up to the checks of submit: the account as it is now decides.
SendHeld(s) ==
  /\ worker = "pick"
  /\ s \in batch
  /\ \A t \in batch : sendAt[s] <= sendAt[t]
  /\ batch' = batch \ {s}
  /\ current' = s
  /\ failure' = ~up
  /\ worker' = IF up THEN "checked" ELSE "finish"
  /\ UNCHANGED <<loginVars, requestVars, rowVars, sentVars, now, troubles, cuts,
                 historyVars>>

\* submit refuses the message: a virus, spam, a limit, nobody takes it.
SendRefused ==
  /\ worker = "checked"
  /\ failure' = TRUE
  /\ worker' = "finish"
  /\ UNCHANGED <<loginVars, requestVars, rowVars, sentVars, batch, current, now, troubles,
                 cuts, historyVars>>

SendHere ==
  /\ worker = "checked"
  /\ GiveHere(current)
  /\ worker' = "gaveHere"
  /\ UNCHANGED <<loginVars, requestVars, rowVars, queued, batch, current, failure, now, troubles, cuts, historyVars>>

SendAway ==
  /\ worker = "gaveHere"
  /\ GiveAway(current)
  /\ Bounce(current)
  /\ failure' = NobodyAccepted(current)
  /\ worker' = "finish"
  /\ UNCHANGED <<loginVars, requestVars, rowVars, fate, delivered, batch, current, now, cuts,
                 historyVars>>

\* The queue refuses it (SubmitError::Queue) after people here have it already.
SendAwayFails ==
  /\ worker = "gaveHere"
  /\ Leaves(current)
  /\ failure' = TRUE
  /\ worker' = "finish"
  /\ UNCHANGED <<loginVars, requestVars, rowVars, sentVars, batch, current, now, troubles,
                 cuts, historyVars>>

\* The next one of the batch, or the next claim.
NextPick == worker' = IF batch = {} THEN "claim" ELSE "pick"

\* Mutant of Finish: the message that was sent is kept.
FinishKeeps ==
  /\ worker = "finish"
  /\ error' = [error EXCEPT ![current] = failure]
  /\ NextPick
  /\ current' = NoSub
  /\ failure' = FALSE
  /\ UNCHANGED <<loginVars, requestVars, sendAt, undo, held, sentVars, batch, now,
                 troubles, cuts, historyVars>>

\* Mutant of Finish: the error is not written down.
FinishSilent ==
  /\ worker = "finish"
  /\ held' = [held EXCEPT ![current] = FALSE]
  /\ NextPick
  /\ current' = NoSub
  /\ failure' = FALSE
  /\ UNCHANGED <<loginVars, requestVars, sendAt, undo, error, sentVars, batch, now,
                 troubles, cuts, historyVars>>

\* finish_held_submission; a row destroyed meanwhile has nothing left to record.
Finish ==
  /\ worker = "finish"
  /\ IF undo[current] = "destroyed"
       THEN UNCHANGED <<held, error>>
       ELSE /\ held' = [held EXCEPT ![current] = FALSE]
            /\ error' = [error EXCEPT ![current] = failure]
  /\ NextPick
  /\ current' = NoSub
  /\ failure' = FALSE
  /\ UNCHANGED <<loginVars, requestVars, sendAt, undo, sentVars, batch, now, troubles, cuts, historyVars>>

\* The database refuses to record it: the row stays as the claim left it.
FinishFails ==
  /\ worker = "finish"
  /\ Trouble
  /\ cuts' = [cuts EXCEPT ![current] = @ + 1]
  /\ NextPick
  /\ current' = NoSub
  /\ failure' = FALSE
  /\ UNCHANGED <<loginVars, requestVars, rowVars, sentVars, batch, now, historyVars>>

\* The server stops and starts: requests and the worker's place are lost.
Crash ==
  /\ Trouble
  /\ request' = [s \in Subs |-> IF request[s] = "new" THEN "new" ELSE "over"]
  /\ cuts' = [s \in Subs |-> IF s = current THEN cuts[s] + 1 ELSE cuts[s]]
  /\ worker' = "claim"
  /\ batch' = {}
  /\ current' = NoSub
  /\ failure' = FALSE
  /\ UNCHANGED <<loginVars, delay, rowVars, sentVars, now, historyVars>>

Tick ==
  /\ now < MaxTime
  /\ now' = now + 1
  /\ UNCHANGED <<loginVars, requestVars, rowVars, sentVars, workerVars, troubles, cuts,
                 historyVars>>

WorkerStep ==
  \/ Claim \/ Wake \/ \E s \in Subs : SendHeld(s)
  \/ SendRefused \/ SendHere \/ SendAway \/ SendAwayFails \/ Finish

Next ==
  \/ \E s \in Subs : Open(s) \/ Check(s) \/ GiveUp(s) \/ Hold(s) \/ SubmitHere(s)
                     \/ SubmitAway(s) \/ Record(s) \/ Cancel(s) \/ Destroy(s)
  \/ \E l \in Logins : Revoke(l)
  \/ \E keep \in SUBSET Kind({"session"}) : Cardinality(keep) < 2 /\ ChangePassword(keep)
  \/ SetPassword \/ BecomeService
  \/ \E sessions \in {{}, Kind({"session"})} : Disable(sessions)
  \/ Enable
  \/ WorkerStep
  \/ ClaimFails \/ FinishFails \/ Crash \/ Tick

Spec == Init /\ [][Next]_vars

\* The worker is one task that always gets on, and time passes.  Nothing is asked
\* of people, admins, crashes and database errors.
FairSpec == Spec /\ WF_vars(WorkerStep) /\ WF_vars(Tick)

-----------------------------------------------------------------------------
\* What the variables hold.
TypeOK ==
  /\ live \subseteq Logins
  /\ up \in BOOLEAN
  /\ request \in [Subs -> {"new", "open", "checked", "gaveHere", "gaveAll", "over"}]
  /\ delay \in [Subs -> Nat]
  /\ sendAt \in [Subs -> Nat]
  /\ undo \in [Subs -> {"none", "pending", "final", "canceled", "destroyed"}]
  /\ held \in [Subs -> BOOLEAN]
  /\ error \in [Subs -> BOOLEAN]
  /\ fate \in [Subs -> SUBSET {"got", "refused", "dropped", "inside"}]
  /\ notice \in [Subs -> {"none", "sent", "lost"}]
  /\ delivered \in [Subs -> Nat]
  /\ queued \in [Subs -> Nat]
  /\ worker \in {"asleep", "claim", "pick", "checked", "gaveHere", "finish"}
  /\ batch \in SUBSET Subs
  /\ current \in Subs \cup {NoSub}
  /\ failure \in BOOLEAN
  /\ now \in Nat
  /\ troubles \in Nat
  /\ cuts \in [Subs -> Nat]
  /\ ended \subseteq Subs
  /\ late \subseteq Subs
  /\ serviced \subseteq Subs

\* Nobody gets a message twice unless sending it was cut off or could not be
\* recorded: release_due_submissions hands over before it records, and
\* "Ones taken earlier and never finished (the server stopped) come again"
\* (held.rs:194).
HandedOnce == \A s \in Subs : delivered[s] <= 1 + cuts[s] /\ queued[s] <= 1 + cuts[s]

\* Whether the row of s says what happened, see RecordTrue.
RowTrue(s) ==
  /\ undo[s] = "final" /\ ~held[s] /\ ~error[s] =>
       /\ s \in Here => delivered[s] > 0 \/ fate[s] \cap {"refused", "dropped"} # {}
       /\ s \in Away => queued[s] > 0 \/ "inside" \in fate[s]
       /\ Refused(s) => notice[s] \in {"sent", "lost"}
  /\ error[s] /\ cuts[s] = 0 => queued[s] = 0 /\ (s \notin Away => delivered[s] = 0)
  /\ undo[s] = "canceled" => delivered[s] = 0 /\ queued[s] = 0

\* The row says what happened.  Final without an error and without a kept message
\* is a message that was queued for those elsewhere, and that people here got or
\* were refused; the sender has a bounce about everybody it failed for ("Failed
\* local deliveries are bounced to the sender", smtp submission.rs:178), unless that
\* bounce could not be kept.  Left out of it are those the loop counts as reached
\* and gives nothing.  An error is a message that was not queued, unless an earlier
\* try was cut off after queueing it, and what was cancelled reached nobody.
RecordTrue == \A s \in Subs : RowTrue(s)

\* The worker never releases what waits under a login that has ended ("when that
\* credential is revoked the message stays unsent", held.rs:41), except under a
\* password or a session, which are not looked up at the claim: what was held only
\* after its login had ended, and what waited when the account became a service.
EndedNotReleased ==
  [][\A s \in Subs :
       undo[s] = "pending" /\ undo'[s] = "final" /\ s \in ended =>
         /\ s \in late \cup serviced
         /\ KindOf[LoginOf[s]] \in {"password", "session"}]_vars

\* Every held submission is settled in the end: sent, cancelled, destroyed or given
\* up with an error, across restarts and database errors ("a restart only delays
\* them", scheduled.rs:2).
HeldSettles == \A s \in Subs : held[s] ~> ~held[s]

-----------------------------------------------------------------------------
(* What makes HandedOnce, RecordTrue and EndedNotReleased inductive.       *)

\* What a row, its request and the worker may say together.
RowsConsistent ==
  \A s \in Subs :
    /\ undo[s] # "none" => request[s] = "over"
    /\ held[s] => undo[s] \in {"pending", "final"} /\ ~error[s]
    /\ undo[s] = "pending" => held[s]
    /\ error[s] => undo[s] \in {"final", "canceled"}
    /\ request[s] \in {"gaveHere", "gaveAll"} => delay[s] = 0

WorkerConsistent ==
  /\ worker \in {"asleep", "claim"} => batch = {}
  /\ worker \in {"checked", "gaveHere", "finish"} <=> current # NoSub
  /\ current \notin batch
  /\ \A s \in Subs :
       s \in batch \/ s = current => undo[s] = "destroyed" \/ (undo[s] = "final" /\ held[s])
  /\ worker \in {"checked", "gaveHere"} => ~failure

\* Whom a message can have reached by now, as far as its request tells.
RequestSent(s) ==
  /\ request[s] \in {"new", "open", "checked"} \/ undo[s] \in {"pending", "canceled"} =>
       delivered[s] = 0 /\ queued[s] = 0
  /\ request[s] = "gaveHere" =>
       /\ fate[s] \in Fates(s)
       /\ delivered[s] = IF "got" \in fate[s] THEN 1 ELSE 0
       /\ queued[s] = 0
  /\ request[s] = "gaveAll" =>
       /\ fate[s] \in Fates(s)
       /\ delivered[s] = IF "got" \in fate[s] THEN 1 ELSE 0
       /\ queued[s] = IF Leaves(s) THEN 1 ELSE 0
       /\ Refused(s) => notice[s] # "none"

\* The same, as far as the worker and the claim tell.
WorkerSent(s) ==
  /\ s # current /\ (s \in batch \/ (undo[s] = "final" /\ held[s])) =>
       delivered[s] <= cuts[s] /\ queued[s] <= cuts[s]
  /\ s = current /\ worker = "checked" => delivered[s] <= cuts[s]
  /\ s = current /\ worker \in {"checked", "gaveHere"} => queued[s] <= cuts[s]
  /\ s = current /\ worker = "gaveHere" =>
       /\ fate[s] \in Fates(s)
       /\ IF "got" \in fate[s] THEN delivered[s] > 0 ELSE delivered[s] <= cuts[s]
  /\ s = current /\ worker = "finish" /\ ~failure =>
       /\ fate[s] \in Fates(s)
       /\ "got" \in fate[s] => delivered[s] > 0
       /\ Leaves(s) => queued[s] > 0
       /\ Refused(s) => notice[s] # "none"
  /\ s = current /\ worker = "finish" /\ failure /\ cuts[s] = 0 =>
       queued[s] = 0 /\ (s \notin Away => delivered[s] = 0)

SentSoFar == \A s \in Subs : RequestSent(s) /\ WorkerSent(s)

\* What waits although its login ended.
EndedKnown ==
  \A s \in ended :
    /\ undo[s] = "pending" => s \in late \cup serviced \/ KindOf[LoginOf[s]] = "oauth"
    /\ KindOf[LoginOf[s]] \in {"app", "oauth"} => LoginOf[s] \notin live

SubInv ==
  /\ TypeOK
  /\ RowsConsistent
  /\ WorkerConsistent
  /\ SentSoFar
  /\ HandedOnce
  /\ RecordTrue
  /\ EndedKnown

-----------------------------------------------------------------------------
(* Holding back implements the undo window.                                *)

\* Requests that send at once and are past their checks.
Direct(s) == delay[s] = 0 /\ request[s] \in {"checked", "gaveHere", "gaveAll"}

StageOf(s) ==
  IF s \in batch \/ s = current \/ Direct(s) \/ (undo[s] = "final" /\ held[s]) THEN "going"
  ELSE CASE undo[s] = "pending" -> "waiting"
         [] undo[s] = "canceled" -> "stopped"
         [] undo[s] = "none" /\ request[s] # "over" -> "absent"
         [] OTHER -> "over"

Window == INSTANCE UndoWindow
            WITH stage <- [s \in Subs |-> StageOf(s)],
                 sent <- [s \in Subs |-> delivered[s] + queued[s]]

\* What a submission promises the person who holds it back (UndoWindow).
WindowKept == Window!Spec
=============================================================================
