------------------------------ MODULE WebPush ------------------------------
(***************************************************************************)
(* Web Push to one subscription of the account (jmap/webpush/mod.rs,       *)
(* store/push.rs).  One task listens to the announcements, bundles them    *)
(* for a moment, and pushes to the subscription at most once per interval; *)
(* what comes in between is held and merged.  Each push is a task of its   *)
(* own, so pushes may arrive in any order, and none is repeated.           *)
(*                                                                         *)
(* Whether the debounce, the interval and the wait after a failure are     *)
(* over is a step of its own: any timing is possible.                      *)
(***************************************************************************)
EXTENDS StateChanges

CONSTANT
    MaxFailures \* failed pushes in a row that end a subscription (20)

ASSUME WebPushAssumption == MaxFailures \in Nat \ {0}

VARIABLES
    sub,        \* "unverified", "verified" or "none"
    owed,       \* the modseq when it was verified
    failures,   \* failed pushes in a row
    backoff,    \* whether retry_at is in the future
    wpos,       \* announcements the task has read
    pending,    \* the state before the first change waiting, and the newest
    held,       \* the StateChange held back: 0 for a kind it does not name
    recent,     \* whether the last push was less than the interval ago
    flight,     \* StateChanges on their way to the push service
    accepted,   \* history: the newest state the push service took, by kind
    missed      \* history: changes that were given up

webPushVars == <<sub, owed, failures, backoff, wpos, pending, held, recent,
                 flight, accepted, missed>>

NoStates == [k \in Kinds |-> 0]
NoPending == [from |-> 0, to |-> 0]

WebPushTypeOK ==
    /\ sub \in {"unverified", "verified", "none"}
    /\ owed \in 0..modseq
    /\ failures \in 0..MaxFailures
    /\ backoff \in BOOLEAN
    /\ wpos \in 0..Len(sent)
    /\ pending \in [from : 0..modseq, to : 0..modseq]
    /\ held \in [Kinds -> 0..modseq]
    /\ recent \in BOOLEAN
    /\ flight \subseteq [Kinds -> 0..modseq]
    /\ accepted \in [Kinds -> 0..modseq]
    /\ missed \subseteq Modseqs

WebPushInit ==
    /\ ChangesInit
    /\ sub = "unverified"
    /\ owed = 0
    /\ failures = 0
    /\ backoff = FALSE
    /\ wpos = 0
    /\ pending = NoPending
    /\ held = NoStates
    /\ recent = FALSE
    /\ flight = {}
    /\ accepted = NoStates
    /\ missed = {}

\* The client sends the right code back: `update_push_subscription`.
Verify ==
    /\ sub = "unverified"
    /\ sub' = "verified"
    /\ owed' = modseq
    /\ UNCHANGED <<failures, backoff, wpos, pending, held, recent, flight,
                   accepted, missed>>
    /\ UNCHANGED changesVars

\* It is destroyed, expires, is purged or goes with its login.
Unsubscribe ==
    /\ sub # "none"
    /\ sub' = "none"
    /\ UNCHANGED <<owed, failures, backoff, wpos, pending, held, recent,
                   flight, accepted, missed>>
    /\ UNCHANGED changesVars

\* `push_targets` has it: verified and not waiting after a failure.
IsTarget == sub = "verified" /\ ~backoff

\* Mutant: the range of a bundle starts with its first announcement.
HearFirst ==
    /\ wpos < Len(sent)
    /\ ~Lagged(wpos)
    /\ wpos' = wpos + 1
    /\ LET m == sent[wpos + 1] IN
       pending' = CASE m = 0 -> pending
                    [] m # 0 /\ pending.to = 0 -> [from |-> m - 1, to |-> m]
                    [] OTHER -> [pending EXCEPT !.to = Larger(pending.to, m)]
    /\ UNCHANGED <<sub, owed, failures, backoff, held, recent, flight,
                   accepted, missed>>
    /\ UNCHANGED changesVars

\* The task takes one announcement and adds it to the bundle.
Hear ==
    /\ wpos < Len(sent)
    /\ ~Lagged(wpos)
    /\ wpos' = wpos + 1
    /\ LET m == sent[wpos + 1] IN
       pending' = CASE m = 0 -> pending
                    [] m # 0 /\ pending.to = 0 -> [from |-> m - 1, to |-> m]
                    [] OTHER -> [from |-> IF m - 1 < pending.from
                                          THEN m - 1 ELSE pending.from,
                                 to |-> Larger(pending.to, m)]
    /\ UNCHANGED <<sub, owed, failures, backoff, held, recent, flight,
                   accepted, missed>>
    /\ UNCHANGED changesVars

\* Some went by unseen, and are left to the client's next sync.
HearLag ==
    /\ Lagged(wpos)
    /\ wpos' = Kept
    /\ missed' = missed \cup SkippedFrom(wpos)
    /\ UNCHANGED <<sub, owed, failures, backoff, pending, held, recent,
                   flight, accepted>>
    /\ UNCHANGED changesVars

\* `merge`: the states of `newer` replace those of `into`.
Merge(into, newer) ==
    [k \in Kinds |-> IF newer[k] # 0 THEN newer[k] ELSE into[k]]

\* The StateChange of a bundle.
Bundle(p) ==
    [k \in Kinds |-> IF k \in ChangedKinds(p.from, p.to) THEN p.to ELSE 0]

\* The bundle is held back, or goes out with what was held.
FlushTo(changed) ==
    IF recent
    THEN /\ held' = Merge(held, changed)
         /\ UNCHANGED <<recent, flight>>
    ELSE /\ flight' = flight \cup {Merge(held, changed)}
         /\ held' = NoStates
         /\ recent' = TRUE

\* The debounce is over: `flush` to a subscription that may be pushed to.
Flush ==
    /\ pending.to # 0
    /\ IsTarget
    /\ pending' = NoPending
    /\ FlushTo(Bundle(pending))
    /\ UNCHANGED <<sub, owed, failures, backoff, wpos, accepted, missed>>
    /\ UNCHANGED changesVars

\* Nobody to push to: the bundle is gone.
FlushNobody ==
    /\ pending.to # 0
    /\ ~IsTarget
    /\ pending' = NoPending
    /\ missed' = missed \cup (pending.from + 1)..pending.to
    /\ UNCHANGED <<sub, owed, failures, backoff, wpos, held, recent, flight,
                   accepted>>
    /\ UNCHANGED changesVars

\* A read of the database fails, and the bundle is gone as well.
FlushFails ==
    /\ pending.to # 0
    /\ Fault
    /\ pending' = NoPending
    /\ missed' = missed \cup (pending.from + 1)..pending.to
    /\ UNCHANGED <<sub, owed, failures, backoff, wpos, held, recent, flight,
                   accepted>>
    /\ UNCHANGED <<kindsOf, unsent, sent, silent>>

\* The changes a StateChange tells of, and earlier ones of its kinds.
ToldBy(states) ==
    {m \in 1..modseq : \E k \in kindsOf[m] : m <= states[k]}

\* Mutant: what was held waits for the next change.
ReleaseLater ==
    /\ held # NoStates
    /\ pending.to # 0
    /\ ~recent
    /\ IsTarget
    /\ flight' = flight \cup {held}
    /\ recent' = TRUE
    /\ held' = NoStates
    /\ UNCHANGED <<sub, owed, failures, backoff, wpos, pending, accepted,
                   missed>>
    /\ UNCHANGED changesVars

\* What was held is due: `release`.
Release ==
    /\ held # NoStates
    /\ ~recent
    /\ IsTarget
    /\ flight' = flight \cup {held}
    /\ recent' = TRUE
    /\ held' = NoStates
    /\ UNCHANGED <<sub, owed, failures, backoff, wpos, pending, accepted,
                   missed>>
    /\ UNCHANGED changesVars

\* The subscription ended or waits after a failure: what was held is gone.
ReleaseNobody ==
    /\ held # NoStates
    /\ ~recent
    /\ ~IsTarget
    /\ held' = NoStates
    /\ missed' = missed \cup ToldBy(held)
    /\ UNCHANGED <<sub, owed, failures, backoff, wpos, pending, recent,
                   flight, accepted>>
    /\ UNCHANGED changesVars

\* So it is when the subscriptions cannot be read.
ReleaseFails ==
    /\ held # NoStates
    /\ ~recent
    /\ Fault
    /\ held' = NoStates
    /\ missed' = missed \cup ToldBy(held)
    /\ UNCHANGED <<sub, owed, failures, backoff, wpos, pending, recent,
                   flight, accepted>>
    /\ UNCHANGED <<kindsOf, unsent, sent, silent>>

\* min_interval has passed since the last push.
IntervalOver ==
    /\ recent
    /\ recent' = FALSE
    /\ UNCHANGED <<sub, owed, failures, backoff, wpos, pending, held, flight,
                   accepted, missed>>
    /\ UNCHANGED changesVars

\* retry_at has passed.
RetryOver ==
    /\ backoff
    /\ backoff' = FALSE
    /\ UNCHANGED <<sub, owed, failures, wpos, pending, held, recent, flight,
                   accepted, missed>>
    /\ UNCHANGED changesVars

\* The push service takes a push: `push_delivered`.
Delivered(p) ==
    /\ p \in flight
    /\ flight' = flight \ {p}
    /\ accepted' = [k \in Kinds |-> Larger(accepted[k], p[k])]
    /\ failures' = 0
    /\ backoff' = FALSE
    /\ UNCHANGED <<sub, owed, wpos, pending, held, recent, missed>>
    /\ UNCHANGED changesVars

\* It does not: `push_failed`, which counts nothing when the row is gone.  The
\* push is not sent again.
Failed(p) ==
    /\ p \in flight
    /\ Fault
    /\ flight' = flight \ {p}
    /\ missed' = missed \cup ToldBy(p)
    /\ IF sub = "none"
       THEN UNCHANGED <<sub, failures, backoff>>
       ELSE /\ failures' = failures + 1
            /\ backoff' = TRUE
            /\ sub' = IF failures' >= MaxFailures THEN "none" ELSE sub
    /\ UNCHANGED <<owed, wpos, pending, held, recent, accepted>>
    /\ UNCHANGED <<kindsOf, unsent, sent, silent>>

\* It no longer knows the subscription: `push_gone`.
Gone(p) ==
    /\ p \in flight
    /\ Fault
    /\ flight' = flight \ {p}
    /\ sub' = "none"
    /\ UNCHANGED <<owed, failures, backoff, wpos, pending, held, recent,
                   accepted, missed>>
    /\ UNCHANGED <<kindsOf, unsent, sent, silent>>

\* How a push went cannot be noted, and the row stays as it is.
NoteFails(p) ==
    /\ p \in flight
    /\ Fault
    /\ flight' = flight \ {p}
    /\ \/ /\ accepted' = [k \in Kinds |-> Larger(accepted[k], p[k])]
          /\ UNCHANGED missed
       \/ /\ missed' = missed \cup ToldBy(p)
          /\ UNCHANGED accepted
    /\ UNCHANGED <<sub, owed, failures, backoff, wpos, pending, held, recent>>
    /\ UNCHANGED <<kindsOf, unsent, sent, silent>>

\* The server restarts: nothing in memory is kept, and what was announced,
\* bundled, held or on its way is not made up for.
Restart ==
    /\ Fault
    /\ silent' = silent \cup unsent
    /\ unsent' = {}
    /\ wpos' = Len(sent)
    /\ pending' = NoPending
    /\ held' = NoStates
    /\ recent' = FALSE
    /\ flight' = {}
    /\ missed' = missed \cup 1..modseq
    /\ UNCHANGED <<sub, owed, failures, backoff, accepted, kindsOf, sent>>

Task == Hear \/ HearLag \/ Flush \/ FlushNobody \/ Release \/ ReleaseNobody

WebPushNext ==
    \/ Verify \/ Unsubscribe
    \/ Hear \/ HearLag \/ Flush \/ FlushNobody \/ FlushFails
    \/ Release \/ ReleaseNobody \/ ReleaseFails
    \/ IntervalOver \/ RetryOver
    \/ \E p \in flight : Delivered(p) \/ Failed(p) \/ Gone(p) \/ NoteFails(p)
    \/ Restart

WebPushSpec ==
    /\ WebPushInit
    /\ [][\/ ChangesNext /\ UNCHANGED webPushVars
          \/ WebPushNext]_<<changesVars, webPushVars>>

\* The task is never starved, and time passes.
WebPushFairSpec ==
    /\ WebPushSpec
    /\ WF_<<changesVars, webPushVars>>(Task)
    /\ WF_<<changesVars, webPushVars>>(IntervalOver)

-----------------------------------------------------------------------------

\* A later change was announced before an earlier one.
Overtaken(m) ==
    \E i, j \in 1..Len(sent) : i < j /\ sent[i] = m /\ sent[j] \in 1..(m - 1)

\* The subscription is owed nothing, or the push service took a state of each
\* of its kinds that is no older, or the server gave the change up.
Settled(m) ==
    \/ sub # "verified"
    \/ m <= owed
    \/ \A k \in kindsOf[m] : accepted[k] >= m
    \/ m \in missed \cup silent
    \/ Overtaken(m)

\* Nothing is on its way to the push service.
WebPushIdle ==
    /\ unsent = {}
    /\ wpos = Len(sent)
    /\ pending = NoPending
    /\ held = NoStates
    /\ flight = {}

\* Once nothing is on its way, every change was pushed, bundled and held as
\* it may be.  It is given up only where the module says so (a dropped
\* request, held mail cancelled with its login, a lag, a failed read, a failed
\* push or one that would have come too soon after it, a restart), and may be
\* pushed with too old a state when an earlier change's announcement came after
\* its own: `merge` then takes the older state for the newer.
ChangesPushed ==
    WebPushIdle => \A m \in 1..modseq : Settled(m)

\* What is bundled or held goes out or is given up: nothing waits for a change
\* that never comes.
NothingHeldForever ==
    (pending # NoPending \/ held # NoStates)
        ~> (pending = NoPending /\ held = NoStates)
=============================================================================
