------------------------------ MODULE Watcher ------------------------------
(***************************************************************************)
(* One push connection: an EventSource stream or a WebSocket, both driven  *)
(* by `Watcher` (jmap/push.rs, jmap/ws.rs), for the login's own account    *)
(* and all types.                                                          *)
(*                                                                         *)
(* `wait` can be cancelled: a ping is due, an alert goes off or a message  *)
(* comes over the WebSocket.  That matters where it has taken something    *)
(* off the channel and still reads the database: after a lag.              *)
(***************************************************************************)
EXTENDS StateChanges

VARIABLES
    conn,       \* "closed", "opening", "off", "waiting", "lagged" or "got"
    socket,     \* whether it is a WebSocket
    pos,        \* announcements read off the channel
    last,       \* last_modseq
    got,        \* the modseq `wait` returned
    told,       \* the last state told to the client, for each kind
    base,       \* the state the client had when push began
    failed,     \* history: changes that were not told because a read failed
    skipped,    \* history: announcements skipped by a lag nobody reported
    before      \* history: last_modseq before a failed read set it to 0

watcherVars == <<conn, socket, pos, last, got, told, base, failed, skipped, before>>

WatcherTypeOK ==
    /\ conn \in {"closed", "opening", "off", "waiting", "lagged", "got"}
    /\ socket \in BOOLEAN
    /\ pos \in Nat
    /\ pos <= Len(sent)
    /\ last \in 0..modseq
    /\ got \in 0..modseq
    /\ told \in [Kinds -> 0..modseq]
    /\ base \in 0..modseq
    /\ failed \subseteq Modseqs
    /\ skipped \subseteq Modseqs
    /\ before \in 0..modseq

WatcherInit ==
    /\ ChangesInit
    /\ conn = "closed"
    /\ socket = FALSE
    /\ pos = 0
    /\ last = 0
    /\ got = 0
    /\ told = [k \in Kinds |-> 0]
    /\ base = 0
    /\ failed = {}
    /\ skipped = {}
    /\ before = 0

\* `Watcher::new` subscribes first ...
Open ==
    /\ conn = "closed"
    /\ conn' = "opening"
    /\ socket' \in BOOLEAN
    /\ pos' = Len(sent)
    /\ UNCHANGED <<last, got, told, base, failed, skipped, before>>
    /\ UNCHANGED changesVars

\* ... and then reads where the account stands.  An EventSource waits from
\* here on, a WebSocket until it is asked to push.
Opened ==
    /\ conn = "opening"
    /\ conn' = IF socket THEN "off" ELSE "waiting"
    /\ last' = modseq
    /\ base' = modseq
    /\ UNCHANGED <<socket, pos, got, told, failed, skipped, before>>
    /\ UNCHANGED changesVars

\* The read fails, and the watcher takes everything for new.
OpenedBlind ==
    /\ conn = "opening"
    /\ Fault
    /\ conn' = IF socket THEN "off" ELSE "waiting"
    /\ last' = 0
    /\ base' = modseq
    /\ UNCHANGED <<socket, pos, got, told, failed, skipped, before>>
    /\ UNCHANGED <<kindsOf, unsent, sent, silent>>

\* The loop of `serve` has a WebSocket message in any of these; it drops a
\* `wait` that is under way.
InSelect == conn \in {"off", "waiting", "lagged"}

\* What the client is told when everything up to `upto` is reported:
\* `type_states` names the kinds that changed, with `upto` as their state.
Reported(since, upto) ==
    [k \in Kinds |-> IF k \in ChangedKinds(since, upto) THEN upto ELSE told[k]]

\* WebSocketPushEnable with a pushState the account had: everything since is
\* told at once.
Enable(since) ==
    /\ socket
    /\ InSelect
    /\ since \in 0..modseq
    /\ conn' = "waiting"
    /\ base' = since
    /\ last' = modseq
    /\ told' = Reported(since, modseq)
    /\ skipped' = {}
    /\ failed' = {}
    /\ before' = 0
    /\ UNCHANGED <<socket, pos, got>>
    /\ UNCHANGED changesVars

\* The read of the changed kinds fails, and push begins without them.
EnableFails(since) ==
    /\ socket
    /\ InSelect
    /\ since \in 0..(modseq - 1)
    /\ Fault
    /\ conn' = "waiting"
    /\ base' = since
    /\ last' = modseq
    /\ skipped' = {}
    /\ failed' = (since + 1)..modseq
    /\ before' = 0
    /\ UNCHANGED <<socket, pos, got, told>>
    /\ UNCHANGED <<kindsOf, unsent, sent, silent>>

\* The read of the modseq fails: whatever pushState the client gave, push begins
\* from now, but what comes next is taken for the first change of all.
EnableBlind ==
    /\ socket
    /\ InSelect
    /\ Fault
    /\ conn' = "waiting"
    /\ base' = modseq
    /\ last' = 0
    /\ skipped' = {}
    /\ failed' = {}
    /\ before' = Larger(before, last)
    /\ UNCHANGED <<socket, pos, got, told>>
    /\ UNCHANGED <<kindsOf, unsent, sent, silent>>

\* WebSocketPushDisable.
Disable ==
    /\ socket
    /\ InSelect
    /\ conn' = "off"
    /\ UNCHANGED <<socket, pos, last, got, told, base, failed, skipped, before>>
    /\ UNCHANGED changesVars

\* `next_change` takes one announcement; another account's is passed over.
Receive ==
    /\ conn = "waiting"
    /\ pos < Len(sent)
    /\ ~Lagged(pos)
    /\ pos' = pos + 1
    /\ IF sent[pos + 1] = 0
       THEN UNCHANGED <<conn, got>>
       ELSE conn' = "got" /\ got' = sent[pos + 1]
    /\ UNCHANGED <<socket, last, told, base, failed, skipped, before>>
    /\ UNCHANGED changesVars

\* Mutant: a lag is passed over.
LagUnseen ==
    /\ conn = "waiting"
    /\ Lagged(pos)
    /\ pos' = Kept
    /\ UNCHANGED <<conn, skipped, socket, last, got, told, base, failed, before>>
    /\ UNCHANGED changesVars

\* `Lagged`: some went by unseen, and `next_change` goes to the database.
Lag ==
    /\ conn = "waiting"
    /\ Lagged(pos)
    /\ pos' = Kept
    /\ conn' = "lagged"
    /\ skipped' = skipped \cup SkippedFrom(pos)
    /\ UNCHANGED <<socket, last, got, told, base, failed, before>>
    /\ UNCHANGED changesVars

\* It reads the modseq, and everything since is reported.
ReadCurrent ==
    /\ conn = "lagged"
    /\ conn' = "got"
    /\ got' = modseq
    /\ skipped' = {}
    /\ UNCHANGED <<socket, pos, last, told, base, failed, before>>
    /\ UNCHANGED changesVars

\* The read fails: nothing new is reported.
ReadCurrentFails ==
    /\ conn = "lagged"
    /\ Fault
    /\ conn' = "got"
    /\ got' = last
    /\ UNCHANGED <<socket, pos, last, told, base, failed, skipped, before>>
    /\ UNCHANGED <<kindsOf, unsent, sent, silent>>

\* `wait` is dropped between the lag and its report.
Cancel ==
    /\ conn = "lagged"
    /\ conn' = "waiting"
    /\ UNCHANGED <<socket, pos, last, got, told, base, failed, skipped, before>>
    /\ UNCHANGED changesVars

\* Mutant: last_modseq follows the announcement, also back.
ReportBack ==
    /\ conn = "got"
    /\ conn' = "waiting"
    /\ got' = 0
    /\ last' = got
    /\ told' = Reported(got - 1, got)
    /\ UNCHANGED <<socket, pos, base, failed, skipped, before>>
    /\ UNCHANGED changesVars

\* `changed`: everything since the last report is told.
Report ==
    /\ conn = "got"
    /\ conn' = "waiting"
    /\ got' = 0
    /\ last' = Larger(last, got)
    /\ told' = Reported(last, got)
    /\ UNCHANGED <<socket, pos, base, failed, skipped, before>>
    /\ UNCHANGED changesVars

\* The read of the changed kinds fails, and `changed` moves on all the same.
ReportFails ==
    /\ conn = "got"
    /\ Fault
    /\ conn' = "waiting"
    /\ got' = 0
    /\ last' = Larger(last, got)
    /\ failed' = failed \cup (last + 1)..got
    /\ UNCHANGED <<socket, pos, told, base, skipped, before>>
    /\ UNCHANGED <<kindsOf, unsent, sent, silent>>

\* The client leaves, or its login has ended; the watcher goes with it.
Close ==
    /\ conn # "closed"
    /\ conn' = "closed"
    /\ socket' = FALSE
    /\ pos' = 0
    /\ last' = 0
    /\ got' = 0
    /\ told' = [k \in Kinds |-> 0]
    /\ base' = 0
    /\ failed' = {}
    /\ skipped' = {}
    /\ before' = 0
    /\ UNCHANGED changesVars

WatcherNext ==
    \/ Open \/ Opened \/ OpenedBlind \/ Disable \/ Close
    \/ \E since \in 0..MaxModseq : Enable(since) \/ EnableFails(since)
    \/ EnableBlind
    \/ Receive \/ Lag \/ ReadCurrent \/ ReadCurrentFails \/ Cancel
    \/ Report \/ ReportFails

WatcherSpec ==
    /\ WatcherInit
    /\ [][\/ ChangesNext /\ UNCHANGED watcherVars
          \/ WatcherNext]_<<changesVars, watcherVars>>

-----------------------------------------------------------------------------

\* The watcher has taken in everything that was announced.
WatcherIdle ==
    /\ conn = "waiting"
    /\ pos = Len(sent)
    /\ unsent = {}

\* No change from `m` on was announced to it: nobody announced them, or their
\* announcements were skipped by a lag whose report was cancelled.
NeverHeard(m) == m..modseq \subseteq silent \cup skipped

\* Once nothing is on its way, a connected client was told, for each change
\* since its push began, a state of that kind that is no older than the
\* change: whatever order the announcements came in and however many were
\* lost to a lag.  Except when a read of the database failed, or nobody
\* announced the change or a later one: its request was dropped, or the change
\* was held mail cancelled with its login.
WatcherTold ==
    WatcherIdle =>
        \A m \in (base + 1)..modseq : \A k \in kindsOf[m] :
            told[k] >= m \/ m \in failed \/ NeverHeard(m)

\* A client is never told a state older than one it was told before, though
\* announcements overtake each other.  Except when it turned push on while the modseq
\* could not be read, and last_modseq is not back where it was.
NeverToldBack ==
    [][conn' # "closed" /\ last >= before =>
          \A k \in Kinds : told'[k] >= told[k]]_<<changesVars, watcherVars>>
=============================================================================
