--------------------------- MODULE StateChanges ---------------------------
(***************************************************************************)
(* How a change of one account is announced inside the server.  A write    *)
(* commits on the blocking pool and raises the account's modseq; only then *)
(* does the request that made it call `notify_change`, outside the         *)
(* writer's lock, so announcements may overtake each other and a request   *)
(* that is dropped in between announces nothing (store/lib.rs).  Held mail *)
(* that is cancelled with its login changes the account too, and nobody    *)
(* announces it.  The channel is a broadcast that keeps its last           *)
(* `Capacity` announcements, of all accounts together.                     *)
(***************************************************************************)
EXTENDS Integers, Sequences

CONSTANTS
    Kinds,      \* the data types a change can be of: Email, Mailbox, ...
    EmailSubmission,
    Capacity,   \* announcements the broadcast channel keeps (1024)
    MaxModseq,  \* bound: changes of the account
    MaxChanges, \* bound: changes of all accounts together
    MaxFaults   \* bound: faults of all sorts together

ASSUME ChangesAssumption ==
    /\ EmailSubmission \in Kinds
    /\ Capacity \in Nat \ {0}
    /\ MaxModseq \in Nat
    /\ MaxChanges \in Nat
    /\ MaxFaults \in Nat

VARIABLES
    kindsOf,    \* `changes`: the kinds recorded at each modseq so far
    unsent,     \* modseqs committed and not yet announced
    sent,       \* everything announced, in order; 0 is another account's
    silent,     \* modseqs nobody announces
    faults      \* faults so far

changesVars == <<kindsOf, unsent, sent, silent, faults>>

Modseqs == 1..MaxModseq

\* The account's modseq, `account_modseq`.
modseq == Len(kindsOf)

ChangesTypeOK ==
    /\ kindsOf \in Seq(SUBSET Kinds)
    /\ modseq <= MaxModseq
    /\ unsent \subseteq 1..modseq
    /\ sent \in Seq(0..MaxModseq)
    /\ silent \subseteq 1..modseq
    /\ faults \in Nat

ChangesInit ==
    /\ kindsOf = <<>>
    /\ unsent = {}
    /\ sent = <<>>
    /\ silent = {}
    /\ faults = 0

\* How many changes of other accounts were announced.
Others == Len(SelectSeq(sent, LAMBDA a : a = 0))

\* A change commits: `write` has returned or is about to.
Commit(ks) ==
    /\ modseq < MaxModseq
    /\ modseq + Others < MaxChanges
    /\ kindsOf' = Append(kindsOf, ks)
    /\ unsent' = unsent \cup {modseq + 1}
    /\ UNCHANGED <<sent, silent, faults>>

\* `cancel_held` takes a modseq of its own when a password is changed, a login revoked
\* or an account disabled, and none of its callers announces it.
CancelHeldCommits ==
    /\ modseq < MaxModseq
    /\ modseq + Others < MaxChanges
    /\ kindsOf' = Append(kindsOf, {EmailSubmission})
    /\ silent' = silent \cup {modseq + 1}
    /\ UNCHANGED <<unsent, sent, faults>>

\* `notify_change`, by the request that made the change.
Notify(m) ==
    /\ m \in unsent
    /\ unsent' = unsent \ {m}
    /\ sent' = Append(sent, m)
    /\ UNCHANGED <<kindsOf, silent, faults>>

\* A change of another account comes by every listener.
NotifyOther ==
    /\ modseq + Others < MaxChanges
    /\ sent' = Append(sent, 0)
    /\ UNCHANGED <<kindsOf, unsent, silent, faults>>

Fault ==
    /\ faults < MaxFaults
    /\ faults' = faults + 1

\* The request is dropped while its write runs on the blocking pool.
DropRequest(m) ==
    /\ m \in unsent
    /\ Fault
    /\ unsent' = unsent \ {m}
    /\ silent' = silent \cup {m}
    /\ UNCHANGED <<kindsOf, sent>>

ChangesNext ==
    \/ \E ks \in SUBSET Kinds \ {{}} : Commit(ks)
    \/ \E m \in Modseqs : Notify(m) \/ DropRequest(m)
    \/ CancelHeldCommits \/ NotifyOther

\* `changed_kinds`: what changed after one modseq, up to another.
ChangedKinds(since, upto) ==
    UNION {kindsOf[m] : m \in (since + 1)..upto}

Larger(a, b) == IF a >= b THEN a ELSE b

\* A receiver that has read `pos` announcements has missed some.
Lagged(pos) == Len(sent) - pos > Capacity

\* The oldest announcement the channel still has is read next.
Kept == Len(sent) - Capacity

\* The changes whose announcements a lag skips.
SkippedFrom(pos) == {sent[i] : i \in (pos + 1)..Kept} \ {0}
=============================================================================
