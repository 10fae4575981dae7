----------------------------- MODULE PushProofs -----------------------------
(***************************************************************************)
(* What push keeps for any number of changes, kinds and faults and any     *)
(* capacity of the channel: a connected client is told every change that   *)
(* was announced to it and never an older state after a newer one, and     *)
(* Web Push hands every change to the push service or gives it up where    *)
(* the module says so.  Both rest on the same facts about how changes are  *)
(* announced.                                                              *)
(***************************************************************************)
EXTENDS Watcher, WebPush, TLAPS

(* The inductive invariants, in named parts.                               *)

\* Every change is announced, or will be, or nobody announces it; only changes there
\* are have been announced.
ChangesInv ==
    /\ ChangesTypeOK
    /\ \A i \in 1..Len(sent) : sent[i] \in 0..modseq
    /\ \A m \in 1..modseq :
          m \in unsent \cup silent \/ \E i \in 1..Len(sent) : sent[i] = m

\* Before a connection knows where the account stands it has told nothing, and it
\* never told more than it has gone through, or had before a failed read.
ToldUpTo ==
    /\ conn \in {"closed", "opening"} => \A k \in Kinds : told[k] = 0
    /\ \A k \in Kinds : told[k] <= last \/ told[k] <= before

Connected == conn \in {"off", "waiting", "lagged", "got"}

\* What it has gone through it has told, or could not read.
ThroughTold ==
    Connected =>
        \A m \in (base + 1)..last : \A k \in kindsOf[m] :
            told[k] >= m \/ m \in failed

\* What it has not gone through is still on its way to it, unless nobody announced
\* it or a lag nobody reported skipped it.
Awaited(m) ==
    \/ m \in unsent \cup silent \cup skipped
    \/ \E i \in (pos + 1)..Len(sent) : sent[i] = m
    \/ conn = "got" /\ m <= got

RestAwaited ==
    Connected => \A m \in 1..modseq : m > base /\ m > last => Awaited(m)

WatcherInv ==
    /\ ChangesInv
    /\ WatcherTypeOK
    /\ ToldUpTo
    /\ ThroughTold
    /\ RestAwaited

\* A subscription is given up at its MaxFailures-th failure in a row, and not before.
Strikes == sub # "none" => failures < MaxFailures

\* Whatever the task heard and its bundle does not cover, it heard before the newest
\* announcement of the bundle.
BundleLater ==
    pending.to # 0 =>
        \A j \in 1..wpos : sent[j] # 0 =>
            \/ sent[j] \in (pending.from + 1)..pending.to
            \/ sent[j] \in missed
            \/ \E i \in (j + 1)..wpos : sent[i] = pending.to

\* A state of kind k no older than change m was taken, is held or is on its way.
Carried(m, k) ==
    accepted[k] >= m \/ held[k] >= m \/ \E p \in flight : p[k] >= m

\* Every change the subscription is owed is somewhere, or was given up.
Tracked(m) ==
    \/ m \in unsent \cup silent \cup missed
    \/ Overtaken(m)
    \/ \E i \in (wpos + 1)..Len(sent) : sent[i] = m
    \/ m \in (pending.from + 1)..pending.to
    \/ \A k \in kindsOf[m] : Carried(m, k)

OwedTracked ==
    sub = "verified" => \A m \in 1..modseq : m > owed => Tracked(m)

WebPushInv ==
    /\ ChangesInv
    /\ WebPushTypeOK
    /\ Strikes
    /\ BundleLater
    /\ OwedTracked
-----------------------------------------------------------------------------
(* How changes are announced, whoever listens.                             *)

\* What the proofs use of the changes and their announcements.
LEMMA ChangesFacts ==
  ChangesInv => /\ Len(kindsOf) \in Nat /\ Len(kindsOf) <= MaxModseq /\ Len(sent) \in Nat
                /\ \A m \in 1..Len(kindsOf) : kindsOf[m] \subseteq Kinds
                /\ \A i \in 1..Len(sent) : sent[i] \in 0..Len(kindsOf)
                /\ \A m \in 1..Len(kindsOf) :
                      m \in unsent \cup silent \/ \E i \in 1..Len(sent) : sent[i] = m
  BY ChangesAssumption DEF ChangesInv, ChangesTypeOK, modseq

\* What a step may do to the changes and their announcements: both only grow, and a
\* change that was not announced is announced now, dropped, or waits on.
ChangesGrow ==
    /\ Len(kindsOf') >= Len(kindsOf)
    /\ \A m \in 1..Len(kindsOf) : kindsOf'[m] = kindsOf[m]
    /\ Len(sent') >= Len(sent)
    /\ \A i \in 1..Len(sent) : sent'[i] = sent[i]
    /\ silent \subseteq silent'
    /\ \A m \in 1..Len(kindsOf') : m \in unsent \/ m > Len(kindsOf) =>
          \/ m \in unsent' \cup silent'
          \/ \E i \in (Len(sent) + 1)..Len(sent') : sent'[i] = m

\* Commits, announcements and dropped requests only add.
LEMMA ChangesGrowStep == ChangesInv /\ ChangesNext => ChangesGrow
<1> SUFFICES ASSUME ChangesInv, ChangesNext PROVE ChangesGrow
  OBVIOUS
<1> USE ChangesAssumption DEF ChangesInv, ChangesTypeOK, modseq, Modseqs, ChangesGrow
<1>1. ASSUME NEW ks \in SUBSET Kinds \ {{}}, Commit(ks) PROVE ChangesGrow
  BY <1>1 DEF Commit
<1>2. ASSUME NEW m \in Modseqs, Notify(m) PROVE ChangesGrow
  BY <1>2 DEF Notify
<1>3. ASSUME NEW m \in Modseqs, DropRequest(m) PROVE ChangesGrow
  BY <1>3 DEF DropRequest
<1>4. CASE NotifyOther
  BY <1>4 DEF NotifyOther
<1>5. CASE CancelHeldCommits
  BY <1>5 DEF CancelHeldCommits
<1> QED BY <1>1, <1>2, <1>3, <1>4, <1>5 DEF ChangesNext

\* They account for every change.
LEMMA ChangesInvStep == ChangesInv /\ ChangesNext => ChangesInv'
<1> SUFFICES ASSUME ChangesInv, ChangesNext PROVE ChangesInv'
  OBVIOUS
<1> USE ChangesAssumption DEF ChangesInv, ChangesTypeOK, modseq, Modseqs
<1>1. ASSUME NEW ks \in SUBSET Kinds \ {{}}, Commit(ks) PROVE ChangesInv'
  <2>1. kindsOf' \in Seq(SUBSET Kinds) /\ Len(kindsOf') = Len(kindsOf) + 1
    BY <1>1 DEF Commit
  <2>2. unsent' = unsent \cup {Len(kindsOf) + 1} /\ silent' = silent
    BY <1>1 DEF Commit
  <2>5. ASSUME NEW x \in unsent' \cup silent' PROVE x \in 1..Len(kindsOf')
    BY <2>1, <2>2
  <2>3. \A i \in 1..Len(sent) : sent[i] \in 0..Len(kindsOf')
    BY <2>1
  <2>4. \A m \in 1..Len(kindsOf') :
          m \in unsent' \cup silent \/ \E i \in 1..Len(sent) : sent[i] = m
    BY <1>1, <2>1 DEF Commit
  <2>6. ChangesTypeOK'
    <3>1. unsent' \subseteq 1..Len(kindsOf')
      BY <2>5
    <3>2. silent' \subseteq 1..Len(kindsOf')
      BY <2>5
    <3>3. Len(kindsOf') <= MaxModseq
      BY <1>1, <2>1 DEF Commit
    <3> QED BY <1>1, <2>1, <3>1, <3>2, <3>3 DEF Commit
  <2> QED BY <1>1, <2>3, <2>4, <2>6 DEF Commit
<1>2. ASSUME NEW m \in Modseqs, Notify(m) PROVE ChangesInv'
  BY <1>2 DEF Notify
<1>3. ASSUME NEW m \in Modseqs, DropRequest(m) PROVE ChangesInv'
  BY <1>3 DEF DropRequest, Fault
<1>4. CASE NotifyOther
  BY <1>4 DEF NotifyOther
<1>5. CASE CancelHeldCommits
  <2>1. kindsOf' \in Seq(SUBSET Kinds) /\ Len(kindsOf') = Len(kindsOf) + 1
    BY <1>5 DEF CancelHeldCommits
  <2>2. silent' = silent \cup {Len(kindsOf) + 1} /\ unsent' = unsent
    BY <1>5 DEF CancelHeldCommits
  <2>5. ASSUME NEW x \in unsent' \cup silent' PROVE x \in 1..Len(kindsOf')
    BY <2>1, <2>2
  <2>3. \A i \in 1..Len(sent) : sent[i] \in 0..Len(kindsOf')
    BY <2>1
  <2>4. \A m \in 1..Len(kindsOf') :
          m \in unsent \cup silent' \/ \E i \in 1..Len(sent) : sent[i] = m
    BY <1>5, <2>1 DEF CancelHeldCommits
  <2>6. ChangesTypeOK'
    <3>1. unsent' \subseteq 1..Len(kindsOf')
      BY <2>5
    <3>2. silent' \subseteq 1..Len(kindsOf')
      BY <2>5
    <3>3. Len(kindsOf') <= MaxModseq
      BY <1>5, <2>1 DEF CancelHeldCommits
    <3> QED BY <1>5, <2>1, <3>1, <3>2, <3>3 DEF CancelHeldCommits
  <2> QED BY <1>5, <2>3, <2>4, <2>6 DEF CancelHeldCommits
<1> QED BY <1>1, <1>2, <1>3, <1>4, <1>5 DEF ChangesNext

\* `changed_kinds` names every kind in its range ...
LEMMA InChangedKinds ==
  ASSUME NEW since, NEW upto, NEW m \in (since + 1)..upto, NEW k \in kindsOf[m]
  PROVE  k \in ChangedKinds(since, upto)
  BY DEF ChangedKinds

\* ... and none when it is asked for nothing new.
LEMMA NoneChanged ==
  ASSUME NEW since \in Nat, NEW upto \in Nat, NEW k \in ChangedKinds(since, upto)
  PROVE  since < upto
  BY DEF ChangedKinds

\* At first there is no change.
LEMMA ChangesInvInit == ChangesInit => ChangesInv
  BY ChangesAssumption DEF ChangesInit, ChangesInv, ChangesTypeOK, modseq

\* Where a lagging receiver goes on, and what it skips.
LEMMA LagFacts ==
  ASSUME ChangesInv, NEW p \in Nat, Lagged(p)
  PROVE  /\ Kept \in Nat /\ Kept <= Len(sent) /\ p < Kept
         /\ SkippedFrom(p) \subseteq Modseqs
<1>1. Kept \in Nat /\ Kept <= Len(sent) /\ p < Kept
  BY ChangesFacts, ChangesAssumption DEF Lagged, Kept
<1>2. ASSUME NEW x \in SkippedFrom(p) PROVE x \in Modseqs
  <2>1. PICK i \in (p + 1)..Kept : x = sent[i] /\ x # 0
    BY DEF SkippedFrom
  <2>2. i \in 1..Len(sent)
    BY <1>1
  <2>3. x \in 0..Len(kindsOf) /\ Len(kindsOf) \in Nat /\ Len(kindsOf) <= MaxModseq
    BY <2>1, <2>2, ChangesFacts
  <2> QED BY <2>1, <2>3, ChangesAssumption DEF Modseqs
<1> QED BY <1>1, <1>2

-----------------------------------------------------------------------------
(* The push connection.                                                    *)

\* The numbers a connection works with.
LEMMA WatcherFacts ==
  ASSUME WatcherInv
  PROVE  /\ Len(kindsOf) \in Nat /\ Len(kindsOf) <= MaxModseq /\ Len(sent) \in Nat
         /\ pos \in 0..Len(sent) /\ last \in 0..Len(kindsOf)
         /\ got \in 0..Len(kindsOf) /\ base \in 0..Len(kindsOf)
  BY ChangesFacts DEF WatcherInv, WatcherTypeOK, modseq

\* New changes and announcements leave a connection consistent.
LEMMA WatcherChanges ==
  WatcherInv /\ ChangesNext /\ UNCHANGED watcherVars => WatcherInv'
<1> SUFFICES ASSUME WatcherInv, ChangesNext, UNCHANGED watcherVars PROVE WatcherInv'
  OBVIOUS
<1>1. ChangesGrow /\ ChangesInv /\ ChangesInv'
  BY ChangesGrowStep, ChangesInvStep DEF WatcherInv
<1>2. RestAwaited'
  <2> SUFFICES ASSUME Connected, NEW m \in 1..Len(kindsOf'), m > base, m > last PROVE Awaited(m)'
    BY DEF RestAwaited, Connected, modseq, watcherVars
  <2>0. /\ Len(kindsOf) \in Nat /\ Len(kindsOf') \in Nat /\ Len(sent) \in Nat /\ Len(sent') \in Nat
        /\ pos \in 0..Len(sent) /\ pos' = pos
    BY <1>1, ChangesFacts, WatcherFacts DEF watcherVars, ChangesInv, ChangesTypeOK
  <2>1. CASE m \in unsent \/ m > Len(kindsOf)
    <3>1. m \in unsent' \cup silent' \/ \E i \in (Len(sent) + 1)..Len(sent') : sent'[i] = m
      BY <1>1, <2>1 DEF ChangesGrow
    <3> QED BY <2>0, <3>1 DEF Awaited
  <2>2. CASE m \notin unsent /\ m <= Len(kindsOf)
    <3>1. Awaited(m)
      BY <2>0, <2>2 DEF WatcherInv, RestAwaited, Connected, modseq
    <3>2. CASE \E i \in (pos + 1)..Len(sent) : sent[i] = m
      <4>1. PICK i \in (pos + 1)..Len(sent) : sent[i] = m
        BY <3>2
      <4>2. i \in 1..Len(sent) /\ Len(sent) <= Len(sent')
        BY <1>1, <2>0 DEF ChangesGrow
      <4>3. i \in (pos' + 1)..Len(sent') /\ sent'[i] = m
        BY <1>1, <2>0, <4>1, <4>2 DEF ChangesGrow
      <4> QED BY <4>3 DEF Awaited
    <3>3. CASE m \in silent \cup skipped \/ (conn = "got" /\ m <= got)
      BY <1>1, <3>3 DEF Awaited, ChangesGrow, watcherVars
    <3> QED BY <2>2, <3>1, <3>2, <3>3 DEF Awaited
  <2> QED BY <2>0, <2>1, <2>2
<1> USE ChangesFacts, ChangesAssumption DEF WatcherInv, WatcherTypeOK, watcherVars,
    ChangesGrow, modseq, Modseqs
<1>3. WatcherTypeOK'
  <2>1. 0..Len(kindsOf) \subseteq 0..Len(kindsOf') /\ pos <= Len(sent')
    BY <1>1
  <2> QED BY <2>1
<1>4. ToldUpTo'
  BY DEF ToldUpTo
<1>5. ThroughTold'
  BY <1>1 DEF ThroughTold, Connected
<1> QED BY <1>1, <1>2, <1>3, <1>4, <1>5

\* A step of the connection keeps the types.
LEMMA WatcherTypeStep == WatcherInv /\ WatcherNext => WatcherTypeOK'
<1> SUFFICES ASSUME WatcherInv, WatcherNext PROVE WatcherTypeOK'
  OBVIOUS
<1>0. ChangesInv
  BY DEF WatcherInv
<1> USE <1>0, ChangesFacts, ChangesAssumption DEF WatcherInv, modseq, Modseqs, changesVars, WatcherTypeOK
<1>1. CASE Open
  BY <1>1 DEF Open
<1>2. CASE Opened
  BY <1>2 DEF Opened
<1>3. CASE OpenedBlind
  BY <1>3 DEF OpenedBlind, Fault
<1>4. CASE Disable
  BY <1>4 DEF Disable, InSelect
<1>5. CASE Close
  <2>1. socket' \in BOOLEAN
    BY <1>5 DEF Close
  <2> QED BY <1>5, <2>1 DEF Close
<1>6. ASSUME NEW since \in 0..MaxModseq, Enable(since) PROVE WatcherTypeOK'
  BY <1>6 DEF Enable, InSelect, Reported, ChangedKinds
<1>7. ASSUME NEW since \in 0..MaxModseq, EnableFails(since) PROVE WatcherTypeOK'
  BY <1>7 DEF EnableFails, InSelect, Fault
<1>8. CASE Receive
  <2>1. pos + 1 \in 1..Len(sent) /\ sent[pos + 1] \in 0..Len(kindsOf)
    BY <1>8 DEF Receive
  <2>2. got' \in 0..Len(kindsOf) /\ conn' \in {"waiting", "got"} /\ pos' = pos + 1
    BY <1>8, <2>1 DEF Receive
  <2>3. UNCHANGED <<socket, last, told, base, failed, skipped, before, kindsOf, sent>>
    BY <1>8 DEF Receive
  <2> QED BY <2>1, <2>2, <2>3
<1>9. CASE Lag
  <2>1. /\ Kept \in Nat /\ Kept <= Len(sent) /\ pos < Kept
        /\ SkippedFrom(pos) \subseteq Modseqs
    BY <1>9, LagFacts DEF Lag
  <2> QED BY <1>9, <2>1 DEF Lag
<1>10. CASE ReadCurrent
  BY <1>10 DEF ReadCurrent
<1>11. CASE ReadCurrentFails
  BY <1>11 DEF ReadCurrentFails, Fault
<1>12. CASE Cancel
  BY <1>12 DEF Cancel
<1>13. CASE Report
  BY <1>13 DEF Report, Larger, Reported, ChangedKinds
<1>14. CASE ReportFails
  BY <1>14 DEF ReportFails, Larger, Fault
<1>15. CASE EnableBlind
  BY <1>15 DEF EnableBlind, InSelect, Larger, Fault
<1> QED
  BY <1>1, <1>2, <1>3, <1>4, <1>5, <1>6, <1>7, <1>8, <1>9, <1>10, <1>11, <1>12, <1>13,
     <1>14, <1>15 DEF WatcherNext

\* A report never goes beyond last_modseq.
LEMMA ToldUpToStep == WatcherInv /\ WatcherNext => ToldUpTo'
<1> SUFFICES ASSUME WatcherInv, WatcherNext PROVE ToldUpTo'
  OBVIOUS
<1>0. ChangesInv
  BY DEF WatcherInv
<1> USE <1>0, ChangesFacts, ChangesAssumption DEF WatcherInv, modseq, Modseqs, changesVars,
        WatcherTypeOK, ToldUpTo
<1>1. CASE OpenedBlind
  BY <1>1 DEF OpenedBlind, Fault
<1>2. CASE Close
  BY <1>2 DEF Close
<1>3. ASSUME NEW since \in 0..MaxModseq, Enable(since) PROVE ToldUpTo'
  BY <1>3 DEF Enable, InSelect, Reported, ChangedKinds
<1>4. ASSUME NEW since \in 0..MaxModseq, EnableFails(since) PROVE ToldUpTo'
  BY <1>4 DEF EnableFails, InSelect, Fault
<1>5. CASE Report
  BY <1>5 DEF Report, Larger, Reported, ChangedKinds
<1>6. CASE ReportFails
  BY <1>6 DEF ReportFails, Larger, Fault
<1>7. CASE Opened
  BY <1>7 DEF Opened
<1>8. CASE Open \/ Disable \/ Receive \/ Lag \/ ReadCurrent \/ ReadCurrentFails \/ Cancel
  <2>1. UNCHANGED <<told, last, before>> /\ (conn' \in {"closed", "opening"} => conn \in {"closed", "opening"})
    BY <1>8 DEF Open, Disable, Receive, Lag, ReadCurrent, ReadCurrentFails, Cancel, InSelect
  <2> QED BY <2>1
<1>9. CASE EnableBlind
  BY <1>9 DEF EnableBlind, InSelect, Larger
<1> QED
  BY <1>1, <1>2, <1>3, <1>4, <1>5, <1>6, <1>7, <1>8, <1>9 DEF WatcherNext

\* last_modseq moves only over changes that were told, or could not be read.
LEMMA ThroughToldStep == WatcherInv /\ WatcherNext => ThroughTold'
<1> SUFFICES ASSUME WatcherInv, WatcherNext PROVE ThroughTold'
  OBVIOUS
<1>0. ChangesInv
  BY DEF WatcherInv
<1> USE <1>0, ChangesFacts, ChangesAssumption DEF WatcherInv, modseq, Modseqs, changesVars,
        WatcherTypeOK, ToldUpTo, ThroughTold, Connected
<1>1. CASE Opened
  BY <1>1 DEF Opened
<1>2. CASE OpenedBlind
  BY <1>2 DEF OpenedBlind, Fault
<1>3. CASE Close
  BY <1>3 DEF Close
<1>4. ASSUME NEW since \in 0..MaxModseq, Enable(since) PROVE ThroughTold'
  <2> SUFFICES ASSUME NEW m \in (since + 1)..Len(kindsOf), NEW k \in kindsOf[m]
               PROVE  told'[k] >= m
    BY <1>4 DEF Enable
  <2>1. since \in Nat /\ k \in Kinds
    OBVIOUS
  <2>2. k \in ChangedKinds(since, Len(kindsOf))
    BY <2>1, InChangedKinds
  <2> QED BY <1>4, <2>1, <2>2 DEF Enable, Reported
<1>5. ASSUME NEW since \in 0..MaxModseq, EnableFails(since) PROVE ThroughTold'
  BY <1>5 DEF EnableFails, InSelect, Fault
<1>6. CASE Report
  <2> SUFFICES ASSUME NEW m \in (base + 1)..last', NEW k \in kindsOf[m]
               PROVE  told'[k] >= m \/ m \in failed
    BY <1>6 DEF Report
  <2>1. last \in Nat /\ got \in Nat /\ k \in Kinds /\ m \in Nat
    <3>1. m \in 1..Len(kindsOf)
      BY <1>6 DEF Report, Larger
    <3> QED BY <3>1
  <2>2. told'[k] = IF k \in ChangedKinds(last, got) THEN got ELSE told[k]
    BY <1>6, <2>1 DEF Report, Reported
  <2>3. CASE m > last
    <3>1. m \in (last + 1)..got
      BY <1>6, <2>1, <2>3 DEF Report, Larger
    <3>2. k \in ChangedKinds(last, got)
      BY <3>1, InChangedKinds
    <3> QED BY <2>1, <2>2, <3>1, <3>2
  <2>4. CASE m <= last
    <3>1. told[k] >= m \/ m \in failed
      BY <1>6, <2>1, <2>4 DEF Report
    <3>2. k \in ChangedKinds(last, got) => last < got
      BY <2>1, NoneChanged
    <3> QED BY <2>1, <2>2, <2>4, <3>1, <3>2
  <2> QED BY <2>1, <2>3, <2>4
<1>7. CASE ReportFails
  BY <1>7 DEF ReportFails, Larger, Fault
<1>8. CASE Open \/ Disable \/ Receive \/ Lag \/ ReadCurrent \/ ReadCurrentFails \/ Cancel
  BY <1>8 DEF Open, Disable, Receive, Lag, ReadCurrent, ReadCurrentFails, Cancel, InSelect,
     Lagged, Kept, SkippedFrom, Fault
<1>9. CASE EnableBlind
  BY <1>9 DEF EnableBlind
<1> QED
  BY <1>1, <1>2, <1>3, <1>4, <1>5, <1>6, <1>7, <1>8, <1>9 DEF WatcherNext

\* No announcement is passed over but by a lag, and the read after a lag covers it.
LEMMA RestAwaitedStep == WatcherInv /\ WatcherNext => RestAwaited'
<1> SUFFICES ASSUME WatcherInv, WatcherNext PROVE RestAwaited'
  OBVIOUS
<1>0. /\ RestAwaited /\ ChangesInv
      /\ Len(kindsOf) \in Nat /\ Len(kindsOf) <= MaxModseq /\ Len(sent) \in Nat
      /\ pos \in 0..Len(sent) /\ last \in 0..Len(kindsOf)
      /\ got \in 0..Len(kindsOf) /\ base \in 0..Len(kindsOf)
  BY WatcherFacts DEF WatcherInv
<1> USE <1>0 DEF modseq, changesVars, RestAwaited, Awaited, Connected
<1>1. CASE Opened
  BY <1>1 DEF Opened
<1>2. CASE OpenedBlind
  BY <1>2 DEF OpenedBlind, Fault
<1>3. CASE Close
  BY <1>3 DEF Close
<1>4. ASSUME NEW since \in 0..MaxModseq, Enable(since) PROVE RestAwaited'
  BY <1>4 DEF Enable, InSelect, Reported, ChangedKinds
<1>5. ASSUME NEW since \in 0..MaxModseq, EnableFails(since) PROVE RestAwaited'
  BY <1>5 DEF EnableFails, InSelect, Fault
<1>6. CASE Receive
  BY <1>6 DEF Receive, Lagged
<1>7. CASE Lag
  <2> SUFFICES ASSUME NEW m \in 1..Len(kindsOf), Awaited(m) PROVE Awaited(m)'
    BY <1>7 DEF Lag
  <2>1. Kept \in Nat /\ Kept <= Len(sent) /\ pos < Kept
    BY <1>7, LagFacts DEF Lag
  <2>2. ASSUME NEW i \in (pos + 1)..Len(sent), sent[i] = m PROVE Awaited(m)'
    <3>1. CASE i <= Kept
      <4>1. m \in SkippedFrom(pos)
        BY <2>1, <2>2, <3>1 DEF SkippedFrom
      <4> QED BY <1>7, <4>1 DEF Lag
    <3>2. CASE i > Kept
      BY <1>7, <2>1, <2>2, <3>2 DEF Lag
    <3> QED BY <2>1, <3>1, <3>2
  <2>3. CASE m \in unsent \cup silent \cup skipped
    BY <1>7, <2>3 DEF Lag
  <2> QED BY <1>7, <2>2, <2>3 DEF Lag
<1>8. CASE ReadCurrent
  BY <1>8 DEF ReadCurrent
<1>9. CASE ReadCurrentFails
  BY <1>9 DEF ReadCurrentFails, Fault
<1>10. CASE Report
  BY <1>10 DEF Report, Larger, Reported, ChangedKinds
<1>11. CASE ReportFails
  BY <1>11 DEF ReportFails, Larger, Fault
<1>12. CASE Open
  BY <1>12 DEF Open
<1>13. CASE Disable \/ Cancel
  BY <1>13 DEF Disable, Cancel, InSelect
<1>14. CASE EnableBlind
  BY <1>14 DEF EnableBlind
<1> QED
  BY <1>1, <1>2, <1>3, <1>4, <1>5, <1>6, <1>7, <1>8, <1>9, <1>10, <1>11, <1>12, <1>13,
     <1>14 DEF WatcherNext

\* A step of the connection changes nothing about the changes but counts faults.
LEMMA WatcherLeavesChanges == WatcherInv /\ WatcherNext => ChangesInv'
<1> SUFFICES ASSUME WatcherInv, WatcherNext PROVE ChangesInv'
  OBVIOUS
<1>1. UNCHANGED <<kindsOf, unsent, sent, silent>> /\ faults' \in Nat
  BY ChangesAssumption DEF WatcherInv, ChangesInv, ChangesTypeOK, changesVars, WatcherNext,
     Open, Opened, OpenedBlind, Disable, Close, Enable, EnableFails, EnableBlind, Receive, Lag,
     ReadCurrent, ReadCurrentFails, Cancel, Report, ReportFails, Fault
<1> QED BY <1>1 DEF WatcherInv, ChangesInv, ChangesTypeOK, modseq

\* The invariant holds in every state a connection can get into.
THEOREM WatcherInvariant == WatcherSpec => []WatcherInv
<1>1. WatcherInit => WatcherInv
  <2> SUFFICES ASSUME WatcherInit PROVE WatcherInv
    OBVIOUS
  <2>1. ChangesInv
    BY ChangesInvInit DEF WatcherInit
  <2>2. WatcherTypeOK
    <3>1. socket \in BOOLEAN
      BY DEF WatcherInit
    <3> QED BY <2>1, <3>1 DEF WatcherInit, WatcherTypeOK, ChangesInv, ChangesTypeOK, modseq
  <2>3. ToldUpTo /\ ThroughTold /\ RestAwaited
    BY DEF WatcherInit, ToldUpTo, ThroughTold, RestAwaited, Connected
  <2> QED BY <2>1, <2>2, <2>3 DEF WatcherInv
<1>2. WatcherInv /\ WatcherNext => WatcherInv'
  BY WatcherLeavesChanges, WatcherTypeStep, ToldUpToStep, ThroughToldStep, RestAwaitedStep
  DEF WatcherInv
<1>3. WatcherInv /\ UNCHANGED <<changesVars, watcherVars>> => WatcherInv'
  <2> SUFFICES ASSUME WatcherInv, UNCHANGED <<changesVars, watcherVars>> PROVE WatcherInv'
    OBVIOUS
  <2> USE DEF WatcherInv, changesVars, watcherVars, modseq
  <2>1. ChangesInv'
    BY DEF ChangesInv, ChangesTypeOK
  <2>2. WatcherTypeOK'
    BY DEF WatcherTypeOK, Modseqs
  <2>3. ToldUpTo' /\ ThroughTold'
    BY DEF ToldUpTo, ThroughTold, Connected
  <2>4. RestAwaited'
    BY DEF RestAwaited, Awaited, Connected
  <2> QED BY <2>1, <2>2, <2>3, <2>4
<1> QED BY <1>1, <1>2, <1>3, WatcherChanges, PTL DEF WatcherSpec

\* Every variable of a connection keeps its type: `wait` never runs ahead of the
\* account or of the channel.
THEOREM WatcherTypeCorrect == WatcherSpec => []WatcherTypeOK
  BY WatcherInvariant, PTL DEF WatcherInv

\* `changed` tells a connected client every change that was announced to it, in
\* whatever order the announcements came and however many a lag skipped.
THEOREM WatcherToldAll == WatcherSpec => []WatcherTold
<1>1. WatcherInv => WatcherTold
  BY DEF WatcherInv, ChangesInv, ChangesTypeOK, WatcherTypeOK, ThroughTold, RestAwaited, Awaited,
     Connected, WatcherTold, WatcherIdle, NeverHeard, modseq
<1> QED BY <1>1, WatcherInvariant, PTL

\* `changed` never tells a state older than one it told before, unless a failed read
\* set last_modseq back.
THEOREM WatcherNeverToldBack == WatcherSpec => NeverToldBack
<1> DEFINE Forth == conn' # "closed" /\ last >= before => \A k \in Kinds : told'[k] >= told[k]
<1>1. WatcherInv /\ WatcherNext => Forth
  <2> SUFFICES ASSUME WatcherInv, WatcherNext, conn' # "closed", last >= before, NEW k \in Kinds
               PROVE told'[k] >= told[k]
    OBVIOUS
  <2> USE ChangesAssumption DEF WatcherInv, ChangesInv, ChangesTypeOK, WatcherTypeOK, ToldUpTo,
      modseq, Reported
  <2>1. ASSUME NEW since \in 0..MaxModseq, Enable(since) PROVE told'[k] >= told[k]
    BY <2>1 DEF Enable
  <2>2. CASE Report
    <3>1. told[k] <= last /\ last \in Nat /\ got \in Nat
      OBVIOUS
    <3>2. k \in ChangedKinds(last, got) => last < got
      BY <3>1, NoneChanged
    <3>3. told'[k] = IF k \in ChangedKinds(last, got) THEN got ELSE told[k]
      BY <2>2 DEF Report
    <3> QED BY <3>1, <3>2, <3>3
  <2>3. CASE UNCHANGED told
    BY <2>3
  <2> QED
    BY <2>1, <2>2, <2>3 DEF WatcherNext, Open, Opened, OpenedBlind, Disable, Close, EnableFails,
       EnableBlind, Receive, Lag, ReadCurrent, ReadCurrentFails, Cancel, ReportFails
<1>2. WatcherInv /\ UNCHANGED watcherVars => Forth
  BY DEF WatcherInv, ChangesInv, ChangesTypeOK, WatcherTypeOK, watcherVars, modseq
<1>3. WatcherInv /\ [\/ ChangesNext /\ UNCHANGED watcherVars
                     \/ WatcherNext]_<<changesVars, watcherVars>>
      => [Forth]_<<changesVars, watcherVars>>
  BY <1>1, <1>2
<1> QED BY <1>3, WatcherInvariant, PTL DEF WatcherSpec, NeverToldBack

-----------------------------------------------------------------------------
(* Web Push.                                                               *)

\* What the task keeps when nothing waits is well typed.
LEMMA EmptyTypes ==
  ASSUME ChangesInv
  PROVE  /\ NoPending \in [from : 0..Len(kindsOf), to : 0..Len(kindsOf)]
         /\ NoStates \in [Kinds -> 0..Len(kindsOf)]
  BY ChangesFacts DEF NoPending, NoStates

\* The numbers the task works with.
LEMMA WebPushFacts ==
  ASSUME WebPushInv
  PROVE  /\ Len(kindsOf) \in Nat /\ Len(kindsOf) <= MaxModseq /\ Len(sent) \in Nat
         /\ pending.from \in 0..Len(kindsOf) /\ pending.to \in 0..Len(kindsOf)
         /\ wpos \in 0..Len(sent)
  BY ChangesFacts DEF WebPushInv, WebPushTypeOK, modseq

\* What `receive` makes of the bundle when it reads the next announcement.
LEMMA HearBundle ==
  ASSUME WebPushInv, Hear, NEW n, n = sent[wpos + 1]
  PROVE  /\ wpos + 1 \in 1..Len(sent) /\ n \in 0..Len(kindsOf)
         /\ n = 0 => pending' = pending
         /\ n # 0 => /\ pending'.from \in 0..Len(kindsOf) /\ pending'.to \in 0..Len(kindsOf)
                     /\ pending'.from < n /\ n <= pending'.to
                     /\ pending'.to = n \/ (pending'.to = pending.to /\ pending.to # 0)
                     /\ pending.to # 0 => pending'.from <= pending.from /\ pending.to <= pending'.to
                     /\ pending' = [from |-> pending'.from, to |-> pending'.to]
<1>1. /\ wpos < Len(sent)
      /\ n = 0 => pending' = pending
      /\ n # 0 /\ pending.to = 0 => pending' = [from |-> n - 1, to |-> n]
      /\ n # 0 /\ pending.to # 0 =>
           pending' = [from |-> IF n - 1 < pending.from THEN n - 1 ELSE pending.from,
                       to |-> IF pending.to >= n THEN pending.to ELSE n]
  BY DEF Hear, Larger
<1>2. wpos + 1 \in 1..Len(sent)
  BY <1>1, WebPushFacts
<1>3. n \in 0..Len(kindsOf)
  BY <1>2, ChangesFacts DEF WebPushInv
<1>4. CASE n # 0 /\ pending.to = 0
  BY <1>1, <1>2, <1>3, <1>4, WebPushFacts
<1>5. CASE n # 0 /\ pending.to # 0
  <2>1. /\ pending'.from = IF n - 1 < pending.from THEN n - 1 ELSE pending.from
        /\ pending'.to = IF pending.to >= n THEN pending.to ELSE n
        /\ pending' = [from |-> pending'.from, to |-> pending'.to]
    BY <1>1, <1>5
  <2> QED BY <1>2, <1>3, <1>5, <2>1, WebPushFacts
<1> QED BY <1>1, <1>2, <1>3, <1>4, <1>5

\* A change that was announced after another one stays so.
LEMMA OvertakenStays ==
  ASSUME ChangesInv, ChangesGrow, NEW m \in Nat, Overtaken(m)
  PROVE  Overtaken(m)'
<1>1. PICK i \in 1..Len(sent), j \in 1..Len(sent) :
        i < j /\ sent[i] = m /\ sent[j] \in 1..(m - 1)
  BY DEF Overtaken
<1>2. i \in 1..Len(sent)' /\ j \in 1..Len(sent)' /\ sent'[i] = sent[i] /\ sent'[j] = sent[j]
  BY ChangesFacts DEF ChangesGrow
<1> QED BY <1>1, <1>2 DEF Overtaken

\* New changes and announcements leave the task consistent.
LEMMA WebPushChanges ==
  WebPushInv /\ ChangesNext /\ UNCHANGED webPushVars => WebPushInv'
<1> SUFFICES ASSUME WebPushInv, ChangesNext, UNCHANGED webPushVars PROVE WebPushInv'
  OBVIOUS
<1>1. ChangesGrow /\ ChangesInv /\ ChangesInv'
  BY ChangesGrowStep, ChangesInvStep DEF WebPushInv
<1>2. \A m \in Nat : Overtaken(m) => Overtaken(m)'
  BY <1>1, OvertakenStays
<1>0. /\ Len(kindsOf) \in Nat /\ Len(kindsOf') \in Nat /\ Len(kindsOf') >= Len(kindsOf)
      /\ Len(sent) \in Nat /\ Len(sent') \in Nat /\ Len(sent') >= Len(sent)
      /\ wpos \in 0..Len(sent)
  BY <1>1, WebPushFacts DEF ChangesInv, ChangesTypeOK, ChangesGrow
<1>3. WebPushTypeOK' /\ Strikes'
  <2>1. /\ 0..Len(kindsOf) \subseteq 0..Len(kindsOf')
        /\ wpos \in 0..Len(sent')
    BY <1>0
  <2>2. Strikes'
    BY DEF WebPushInv, Strikes, webPushVars
  <2> QED BY <2>1, <2>2 DEF WebPushInv, WebPushTypeOK, webPushVars, modseq
<1> USE DEF WebPushInv, webPushVars, modseq
<1>4. BundleLater'
  <2> SUFFICES ASSUME pending.to # 0, NEW j \in 1..wpos, sent'[j] # 0
               PROVE  \/ sent'[j] \in (pending.from + 1)..pending.to
                      \/ sent'[j] \in missed
                      \/ \E i \in (j + 1)..wpos : sent'[i] = pending.to
    BY DEF BundleLater
  <2>1. \A i \in 1..wpos : sent'[i] = sent[i]
    BY <1>0, <1>1 DEF ChangesGrow
  <2>2. /\ sent'[j] = sent[j]
        /\ \A i \in (j + 1)..wpos : sent'[i] = sent[i]
    BY <1>0, <2>1
  <2>3. \/ sent[j] \in (pending.from + 1)..pending.to
        \/ sent[j] \in missed
        \/ \E i \in (j + 1)..wpos : sent[i] = pending.to
    BY <2>2 DEF BundleLater
  <2> QED BY <2>2, <2>3
<1>5. OwedTracked'
  <2> SUFFICES ASSUME sub = "verified", NEW m \in 1..modseq', m > owed PROVE Tracked(m)'
    BY DEF OwedTracked
  <2>1. CASE m > modseq
    <3>1. m \in unsent' \cup silent' \/ \E i \in (Len(sent) + 1)..Len(sent') : sent'[i] = m
      BY <1>1, <2>1 DEF ChangesGrow
    <3> QED BY <1>0, <3>1 DEF Tracked
  <2>2. CASE m <= modseq
    <3>1. Tracked(m)
      BY <1>0, <2>2 DEF OwedTracked
    <3>2. CASE m \in silent \cup missed
      BY <1>1, <3>2 DEF Tracked, ChangesGrow
    <3>7. CASE m \in unsent
      <4>1. \/ m \in unsent' \cup silent'
            \/ \E i \in (Len(sent) + 1)..Len(sent') : sent'[i] = m
        BY <1>1, <3>7 DEF ChangesGrow
      <4> QED BY <1>0, <4>1 DEF Tracked
    <3>3. CASE Overtaken(m)
      BY <1>2, <3>3 DEF Tracked
    <3>4. ASSUME NEW i \in (wpos + 1)..Len(sent), sent[i] = m PROVE Tracked(m)'
      <4>1. i \in 1..Len(sent) /\ i \in (wpos' + 1)..Len(sent')
        BY <1>0
      <4>2. sent'[i] = m
        BY <1>1, <3>4, <4>1 DEF ChangesGrow
      <4> QED BY <4>1, <4>2 DEF Tracked
    <3>5. CASE m \in (pending.from + 1)..pending.to
      BY <3>5 DEF Tracked
    <3>6. CASE \A k \in kindsOf[m] : Carried(m, k)
      <4>1. kindsOf'[m] = kindsOf[m]
        BY <1>0, <1>1, <2>2 DEF ChangesGrow
      <4> QED BY <3>6, <4>1 DEF Tracked, Carried
    <3> QED BY <3>1, <3>2, <3>3, <3>4, <3>5, <3>6, <3>7 DEF Tracked
  <2> QED BY <1>0, <2>1, <2>2
<1> QED BY <1>1, <1>3, <1>4, <1>5

\* A step of the task keeps the types.
LEMMA WebPushTypeStep == WebPushInv /\ WebPushNext => WebPushTypeOK'
<1> SUFFICES ASSUME WebPushInv, WebPushNext PROVE WebPushTypeOK'
  OBVIOUS
<1>0. /\ ChangesInv 
      /\ Len(kindsOf) \in Nat /\ Len(kindsOf) <= MaxModseq /\ Len(sent) \in Nat
      /\ pending.from \in 0..Len(kindsOf) /\ pending.to \in 0..Len(kindsOf)
      /\ wpos \in 0..Len(sent)
  BY WebPushFacts DEF WebPushInv
<1>1. CASE Hear
  <2>1. PICK n : n = sent[wpos + 1]
    OBVIOUS
  <2>2. wpos + 1 \in 0..Len(sent)
    BY <1>0, <1>1 DEF Hear
  <2>3. pending' \in [from : 0..Len(kindsOf), to : 0..Len(kindsOf)]
    <3>1. CASE n = 0
      BY <1>1, <2>1, <3>1, HearBundle DEF WebPushInv, WebPushTypeOK, modseq
    <3>2. CASE n # 0
      BY <1>1, <2>1, <3>2, HearBundle
    <3> QED BY <3>1, <3>2
  <2> QED BY <1>1, <2>2, <2>3 DEF Hear, WebPushInv, WebPushTypeOK, modseq, Modseqs, changesVars
<1> USE <1>0, ChangesAssumption, WebPushAssumption DEF WebPushInv, modseq, Modseqs, changesVars,
        WebPushTypeOK
<1>2. CASE Verify
  BY <1>2 DEF Verify
<1>3. CASE Unsubscribe
  BY <1>3 DEF Unsubscribe
<1>4. CASE HearLag
  <2>1. /\ Kept \in Nat /\ Kept <= Len(sent) /\ wpos < Kept
        /\ SkippedFrom(wpos) \subseteq Modseqs
    BY <1>4, LagFacts DEF HearLag
  <2>3. ASSUME NEW x \in missed' PROVE x \in Modseqs
    BY <1>4, <2>1 DEF HearLag
  <2>4. wpos' \in 0..Len(sent')
    BY <1>4, <2>1 DEF HearLag
  <2> QED BY <1>4, <2>3, <2>4 DEF HearLag
<1>5. CASE Flush
  <2>1. Merge(held, Bundle(pending)) \in [Kinds -> 0..Len(kindsOf)]
    BY DEF Merge, Bundle
  <2>2. recent' \in BOOLEAN
    BY <1>5 DEF Flush, FlushTo
  <2>3. flight' \subseteq [Kinds -> 0..Len(kindsOf)] /\ held' \in [Kinds -> 0..Len(kindsOf)]
    BY <1>5, <2>1, EmptyTypes DEF Flush, FlushTo
  <2> QED BY <1>5, <2>2, <2>3, EmptyTypes DEF Flush
<1>6. CASE FlushNobody
  <2>1. ASSUME NEW x \in missed' PROVE x \in Modseqs
    BY <1>6 DEF FlushNobody
  <2> QED BY <1>6, <2>1, EmptyTypes DEF FlushNobody
<1>7. CASE FlushFails
  <2>1. ASSUME NEW x \in missed' PROVE x \in Modseqs
    BY <1>7 DEF FlushFails
  <2> QED BY <1>7, <2>1, EmptyTypes DEF FlushFails
<1>8. CASE Release
  BY <1>8 DEF Release, NoStates
<1>9. CASE ReleaseNobody
  <2>1. ASSUME NEW x \in missed' PROVE x \in Modseqs
    BY <1>9 DEF ReleaseNobody, ToldBy
  <2> QED BY <1>9, <2>1, EmptyTypes DEF ReleaseNobody
<1>10. CASE ReleaseFails
  <2>1. ASSUME NEW x \in missed' PROVE x \in Modseqs
    BY <1>10 DEF ReleaseFails, ToldBy
  <2> QED BY <1>10, <2>1, EmptyTypes DEF ReleaseFails
<1>11. CASE IntervalOver
  BY <1>11 DEF IntervalOver
<1>12. CASE RetryOver
  BY <1>12 DEF RetryOver
<1>13. ASSUME NEW p \in flight, Delivered(p) PROVE WebPushTypeOK'
  <2>1. accepted' \in [Kinds -> 0..Len(kindsOf)]
    BY <1>13 DEF Delivered, Larger
  <2>2. backoff' \in BOOLEAN
    BY <1>13 DEF Delivered
  <2> QED BY <1>13, <2>1, <2>2 DEF Delivered
<1>14. ASSUME NEW p \in flight, Failed(p) PROVE WebPushTypeOK'
  <2>1. ASSUME NEW x \in missed' PROVE x \in Modseqs
    BY <1>14 DEF Failed, ToldBy
  <2>2. backoff' \in BOOLEAN
    BY <1>14 DEF Failed
  <2>3. failures' \in 0..MaxFailures
    BY <1>14 DEF Failed, Strikes
  <2> QED BY <1>14, <2>1, <2>2, <2>3 DEF Failed
<1>15. ASSUME NEW p \in flight, Gone(p) PROVE WebPushTypeOK'
  BY <1>15 DEF Gone, Fault
<1>16. CASE Restart
  <2>1. recent' \in BOOLEAN
    BY <1>16 DEF Restart
  <2>2. ASSUME NEW x \in missed' PROVE x \in Modseqs
    BY <1>16 DEF Restart
  <2>3. wpos' \in 0..Len(sent')
    BY <1>16 DEF Restart
  <2>4. flight' \subseteq [Kinds -> 0..Len(kindsOf')]
    BY <1>16 DEF Restart
  <2> QED BY <1>16, <2>1, <2>2, <2>3, <2>4, EmptyTypes DEF Restart
<1>17. ASSUME NEW p \in flight, NoteFails(p) PROVE WebPushTypeOK'
  <2>1. ASSUME NEW x \in missed' PROVE x \in Modseqs
    <3>1. x \in missed \cup ToldBy(p)
      BY <1>17, <2>1 DEF NoteFails
    <3> QED BY <3>1 DEF ToldBy
  <2>2. accepted' \in [Kinds -> 0..Len(kindsOf)]
    <3>1. CASE accepted' = [k \in Kinds |-> Larger(accepted[k], p[k])]
      BY <3>1 DEF Larger
    <3>2. CASE UNCHANGED accepted
      BY <3>2
    <3> QED BY <1>17, <3>1, <3>2 DEF NoteFails
  <2> QED BY <1>17, <2>1, <2>2 DEF NoteFails
<1> QED
  BY <1>1, <1>2, <1>3, <1>4, <1>5, <1>6, <1>7, <1>8, <1>9, <1>10, <1>11, <1>12, <1>13,
     <1>14, <1>15, <1>16, <1>17 DEF WebPushNext

\* `push_failed` drops a subscription before its failures reach the limit.
LEMMA StrikesStep == WebPushInv /\ WebPushNext => Strikes'
<1> SUFFICES ASSUME WebPushInv, WebPushNext PROVE Strikes'
  OBVIOUS
<1>0. /\ ChangesInv 
      /\ Len(kindsOf) \in Nat /\ Len(kindsOf) <= MaxModseq /\ Len(sent) \in Nat
      /\ pending.from \in 0..Len(kindsOf) /\ pending.to \in 0..Len(kindsOf)
      /\ wpos \in 0..Len(sent)
  BY WebPushFacts DEF WebPushInv
<1> USE <1>0, ChangesAssumption, WebPushAssumption DEF WebPushInv, modseq, Modseqs, changesVars,
        WebPushTypeOK, Strikes
<1>1. CASE Flush
  BY <1>1 DEF Flush, IsTarget, FlushTo, Bundle, Merge, NoStates, NoPending
<1>2. ASSUME NEW p \in flight, Delivered(p) PROVE Strikes'
  BY <1>2 DEF Delivered, Larger
<1>3. ASSUME NEW p \in flight, Failed(p) PROVE Strikes'
  BY <1>3 DEF Failed, Fault, ToldBy
<1>4. ASSUME NEW p \in flight, Gone(p) PROVE Strikes'
  BY <1>4 DEF Gone, Fault
<1>5. CASE Verify \/ Unsubscribe \/ Hear \/ HearLag \/ FlushNobody \/ FlushFails \/ Release \/
          ReleaseNobody \/ ReleaseFails \/ IntervalOver \/ RetryOver \/ Restart
  BY <1>5 DEF Verify, Unsubscribe, Hear, HearLag, FlushNobody, FlushFails, Release, ReleaseNobody,
     ReleaseFails, IntervalOver, RetryOver, Restart, Lagged, Larger, Kept, SkippedFrom,
     NoPending, Fault, NoStates, ToldBy
<1>6. ASSUME NEW p \in flight, NoteFails(p) PROVE Strikes'
  BY <1>6 DEF NoteFails
<1> QED
  BY <1>1, <1>2, <1>3, <1>4, <1>5, <1>6 DEF WebPushNext

\* A bundle covers what the task hears while it waits.
LEMMA BundleLaterStep == WebPushInv /\ WebPushNext => BundleLater'
<1> SUFFICES ASSUME WebPushInv, WebPushNext PROVE BundleLater'
  OBVIOUS
<1>0. /\ ChangesInv /\ BundleLater
      /\ Len(kindsOf) \in Nat /\ Len(kindsOf) <= MaxModseq /\ Len(sent) \in Nat
      /\ pending.from \in 0..Len(kindsOf) /\ pending.to \in 0..Len(kindsOf)
      /\ wpos \in 0..Len(sent)
  BY WebPushFacts DEF WebPushInv
<1> USE <1>0 DEF changesVars, BundleLater
<1>1. CASE Hear
  <2> SUFFICES ASSUME pending'.to # 0, NEW j \in 1..(wpos + 1), sent[j] # 0
               PROVE  \/ sent[j] \in (pending'.from + 1)..pending'.to
                      \/ sent[j] \in missed
                      \/ \E i \in (j + 1)..(wpos + 1) : sent[i] = pending'.to
    BY <1>1 DEF Hear
  <2>1. PICK n : n = sent[wpos + 1]
    OBVIOUS
  <2>2. j \in 1..Len(sent) /\ sent[j] \in 0..Len(kindsOf)
    <3>1. wpos + 1 \in 1..Len(sent)
      BY <1>1, <2>1, HearBundle
    <3>2. j \in 1..Len(sent)
      BY <3>1
    <3> QED BY <3>2, ChangesFacts
  <2>3. CASE n = 0
    <3>1. pending' = pending
      BY <1>1, <2>1, <2>3, HearBundle
    <3>2. j # wpos + 1
      BY <2>1, <2>3
    <3>3. j <= wpos
      BY <3>2
    <3> QED BY <2>2, <3>1, <3>3
  <2>4. CASE n # 0
    <3>1. /\ n \in 0..Len(kindsOf) /\ pending'.from \in Nat /\ pending'.to \in Nat
          /\ pending'.from < n /\ n <= pending'.to
          /\ pending'.to = n \/ (pending'.to = pending.to /\ pending.to # 0)
          /\ pending.to # 0 => pending'.from <= pending.from /\ pending.to <= pending'.to
      BY <1>1, <2>1, <2>4, HearBundle
    <3>2. CASE j = wpos + 1
      BY <2>1, <2>2, <3>1, <3>2
    <3>3. CASE j <= wpos /\ pending'.to = n
      BY <2>1, <2>2, <3>3
    <3>4. CASE j <= wpos /\ pending'.to = pending.to /\ pending.to # 0
      BY <2>2, <3>1, <3>4
    <3> QED BY <2>2, <3>1, <3>2, <3>3, <3>4
  <2> QED BY <2>3, <2>4
<1>2. CASE HearLag
  <2>1. Kept \in Nat /\ Kept <= Len(sent) /\ wpos < Kept
    BY <1>2, LagFacts DEF HearLag
  <2> SUFFICES ASSUME pending.to # 0, NEW j \in 1..Kept, sent[j] # 0
               PROVE  \/ sent[j] \in (pending.from + 1)..pending.to
                      \/ sent[j] \in missed'
                      \/ \E i \in (j + 1)..Kept : sent[i] = pending.to
    BY <1>2 DEF HearLag
  <2>2. CASE j <= wpos
    BY <1>2, <2>1, <2>2 DEF HearLag
  <2>3. CASE j > wpos
    BY <1>2, <2>1, <2>3 DEF HearLag, SkippedFrom
  <2> QED BY <2>1, <2>2, <2>3
<1>3. CASE Flush
  BY <1>3 DEF Flush, IsTarget, FlushTo, Bundle, Merge, NoStates, NoPending
<1>4. CASE FlushNobody
  BY <1>4 DEF FlushNobody, NoPending
<1>5. CASE FlushFails
  BY <1>5 DEF FlushFails, Fault, NoPending
<1>6. CASE ReleaseNobody
  BY <1>6 DEF ReleaseNobody, NoStates, ToldBy
<1>7. CASE ReleaseFails
  BY <1>7 DEF ReleaseFails, Fault, NoStates, ToldBy
<1>8. ASSUME NEW p \in flight, Delivered(p) PROVE BundleLater'
  BY <1>8 DEF Delivered, Larger
<1>9. ASSUME NEW p \in flight, Failed(p) PROVE BundleLater'
  BY <1>9 DEF Failed, Fault, ToldBy
<1>10. ASSUME NEW p \in flight, Gone(p) PROVE BundleLater'
  BY <1>10 DEF Gone, Fault
<1>11. CASE Restart
  BY <1>11 DEF Restart, Fault, NoPending, NoStates
<1>12. CASE Verify \/ Unsubscribe \/ Release \/ IntervalOver \/ RetryOver
  BY <1>12 DEF Verify, Unsubscribe, Release, IntervalOver, RetryOver, NoStates
<1>13. ASSUME NEW p \in flight, NoteFails(p) PROVE BundleLater'
  BY <1>13 DEF NoteFails
<1> QED
  BY <1>1, <1>2, <1>3, <1>4, <1>5, <1>6, <1>7, <1>8, <1>9, <1>10, <1>11, <1>12, <1>13
  DEF WebPushNext

\* No change that is owed is lost between the channel, the bundle, what is held and
\* what is on its way.
LEMMA OwedTrackedStep == WebPushInv /\ WebPushNext => OwedTracked'
<1> SUFFICES ASSUME WebPushInv, WebPushNext PROVE OwedTracked'
  OBVIOUS
<1>0. /\ ChangesInv
      /\ Len(kindsOf) \in Nat /\ Len(kindsOf) <= MaxModseq /\ Len(sent) \in Nat
      /\ pending.from \in 0..Len(kindsOf) /\ pending.to \in 0..Len(kindsOf)
      /\ wpos \in 0..Len(sent)
      /\ owed \in 0..Len(kindsOf)
      /\ held \in [Kinds -> 0..Len(kindsOf)] /\ accepted \in [Kinds -> 0..Len(kindsOf)]
      /\ flight \subseteq [Kinds -> 0..Len(kindsOf)]
      /\ BundleLater /\ OwedTracked
  BY WebPushFacts DEF WebPushInv, WebPushTypeOK, modseq
<1> USE <1>0 DEF modseq, changesVars
<1>1. CASE Verify
  BY <1>1 DEF Verify, OwedTracked
<1>2. CASE Hear
  <2> SUFFICES ASSUME sub = "verified", NEW m \in 1..Len(kindsOf), m > owed, Tracked(m)
               PROVE  Tracked(m)'
    BY <1>2 DEF Hear, OwedTracked
  <2>1. PICK n : n = sent[wpos + 1]
    OBVIOUS
  <2>2. /\ wpos + 1 \in 1..Len(sent) /\ n \in 0..Len(kindsOf)
        /\ n = 0 => pending' = pending
        /\ n # 0 => /\ pending'.from \in 0..Len(kindsOf) /\ pending'.to \in 0..Len(kindsOf)
                    /\ pending'.from < n /\ n <= pending'.to
                    /\ pending.to # 0 => pending'.from <= pending.from /\ pending.to <= pending'.to
    BY <1>2, <2>1, HearBundle
  <2>3. m \in (pending.from + 1)..pending.to => m \in (pending'.from + 1)..pending'.to
    <3>1. CASE n = 0
      BY <2>2, <3>1
    <3>2. CASE n # 0 /\ pending.to # 0
      <4>1. /\ pending'.from \in Nat /\ pending'.to \in Nat
            /\ pending'.from <= pending.from /\ pending.to <= pending'.to
        BY <2>2, <3>2
      <4> QED BY <4>1
    <3>3. CASE pending.to = 0
      BY <3>3
    <3> QED BY <3>1, <3>2, <3>3
  <2>4. ASSUME NEW i \in (wpos + 1)..Len(sent), sent[i] = m PROVE Tracked(m)'
    <3>1. CASE i = wpos + 1
      <4>1. m \in (pending'.from + 1)..pending'.to
        BY <2>1, <2>2, <2>4, <3>1
      <4> QED BY <4>1 DEF Tracked
    <3>2. CASE i > wpos + 1
      <4>1. i \in (wpos' + 1)..Len(sent') /\ sent'[i] = m
        BY <1>2, <2>4, <3>2 DEF Hear
      <4> QED BY <4>1 DEF Tracked
    <3> QED BY <3>1, <3>2
  <2>5. UNCHANGED <<unsent, silent, missed, sent, accepted, held, flight, kindsOf>>
    BY <1>2 DEF Hear
  <2> QED BY <2>3, <2>4, <2>5 DEF Tracked, Carried, Overtaken
<1>3. CASE HearLag
  <2> SUFFICES ASSUME sub = "verified", NEW m \in 1..Len(kindsOf), m > owed, Tracked(m)
               PROVE  Tracked(m)'
    BY <1>3 DEF HearLag, OwedTracked
  <2>1. Kept \in Nat /\ Kept <= Len(sent) /\ wpos < Kept
    BY <1>3, LagFacts DEF HearLag
  <2>2. ASSUME NEW i \in (wpos + 1)..Len(sent), sent[i] = m PROVE Tracked(m)'
    <3>1. CASE i <= Kept
      <4>1. m \in missed'
        BY <1>3, <2>1, <2>2, <3>1 DEF HearLag, SkippedFrom
      <4> QED BY <4>1 DEF Tracked
    <3>2. CASE i > Kept
      <4>1. i \in (wpos' + 1)..Len(sent') /\ sent'[i] = m
        BY <1>3, <2>1, <2>2, <3>2 DEF HearLag
      <4> QED BY <4>1 DEF Tracked
    <3> QED BY <2>1, <3>1, <3>2
  <2> QED BY <1>3, <2>2 DEF HearLag, Tracked, Carried, Overtaken
<1>4. CASE Flush
  <2> SUFFICES ASSUME sub = "verified", NEW m \in 1..Len(kindsOf), m > owed, Tracked(m)
               PROVE  Tracked(m)'
    BY <1>4 DEF Flush, OwedTracked
  <2> DEFINE new == Merge(held, Bundle(pending))
  <2>1. UNCHANGED <<unsent, silent, missed, sent, wpos, accepted, kindsOf>> /\ kindsOf[m] \subseteq Kinds
    BY <1>4, ChangesFacts DEF Flush
  <2>2. ASSUME NEW k \in Kinds, new[k] >= m PROVE Carried(m, k)'
    BY <1>4, <2>2 DEF Flush, FlushTo, Carried
  <2>3. ASSUME NEW k \in Kinds
        PROVE  new[k] = IF k \in ChangedKinds(pending.from, pending.to) THEN pending.to ELSE held[k]
    BY <1>4 DEF Flush, Merge, Bundle
  <2>4. ASSUME NEW k \in kindsOf[m], accepted[k] >= m \/ \E p \in flight : p[k] >= m
        PROVE  Carried(m, k)'
    BY <1>4, <2>1, <2>4 DEF Flush, FlushTo, Carried
  <2>5. CASE m \in (pending.from + 1)..pending.to
    <3>1. ASSUME NEW k \in kindsOf[m] PROVE new[k] >= m
      BY <2>1, <2>3, <2>5, <3>1, InChangedKinds
    <3> QED BY <2>1, <2>2, <3>1 DEF Tracked
  <2>6. CASE /\ m \notin unsent \cup silent \cup missed
             /\ ~Overtaken(m)
             /\ ~\E i \in (wpos + 1)..Len(sent) : sent[i] = m
             /\ m \notin (pending.from + 1)..pending.to
             /\ \A k \in kindsOf[m] : Carried(m, k)
    <3>1. PICK j \in 1..wpos : sent[j] = m
      <4>1. PICK j \in 1..Len(sent) : sent[j] = m
        BY <2>6, ChangesFacts
      <4>2. j <= wpos
        BY <2>6, <4>1
      <4> QED BY <4>1, <4>2
    <3>0. pending.to # 0
      BY <1>4 DEF Flush
    <3>2. PICK i \in (j + 1)..wpos : sent[i] = pending.to
      <4>1. sent[j] # 0 /\ sent[j] \notin (pending.from + 1)..pending.to /\ sent[j] \notin missed
        BY <2>6, <3>1
      <4> QED BY <3>0, <4>1 DEF BundleLater
    <3>3. m <= pending.to
      <4>1. i \in 1..Len(sent) /\ j \in 1..Len(sent) /\ j < i
        BY <3>1, <3>2
      <4>2. sent[i] \notin 1..(m - 1)
        BY <2>6, <3>1, <4>1 DEF Overtaken
      <4> QED BY <3>0, <3>2, <4>2
    <3>4. ASSUME NEW k \in kindsOf[m], held[k] >= m PROVE new[k] >= m
      BY <2>1, <2>3, <3>3, <3>4
    <3>5. ASSUME NEW k \in kindsOf[m] PROVE Carried(m, k)'
      BY <2>1, <2>2, <2>4, <2>6, <3>4, <3>5 DEF Carried
    <3> QED BY <2>1, <3>5 DEF Tracked
  <2>7. CASE \/ m \in unsent \cup silent \cup missed
             \/ Overtaken(m)
             \/ \E i \in (wpos + 1)..Len(sent) : sent[i] = m
    BY <2>1, <2>7 DEF Tracked, Overtaken
  <2> QED BY <2>5, <2>6, <2>7 DEF Tracked
<1>5. CASE FlushNobody
  BY <1>5 DEF FlushNobody, NoPending, OwedTracked, Tracked, Carried, Overtaken
<1>6. CASE FlushFails
  BY <1>6 DEF FlushFails, Fault, NoPending, OwedTracked, Tracked, Carried, Overtaken
<1>7. CASE Release
  BY <1>7 DEF Release, NoStates, OwedTracked, Tracked, Carried, Overtaken
<1>8. CASE ReleaseNobody
  BY <1>8 DEF ReleaseNobody, NoStates, ToldBy, OwedTracked, Tracked, Carried, Overtaken
<1>9. CASE ReleaseFails
  BY <1>9 DEF ReleaseFails, Fault, NoStates, ToldBy, OwedTracked, Tracked, Carried, Overtaken
<1>10. ASSUME NEW p \in flight, Delivered(p) PROVE OwedTracked'
  <2> SUFFICES ASSUME sub = "verified", NEW m \in 1..Len(kindsOf), m > owed, Tracked(m)
               PROVE  Tracked(m)'
    BY <1>10 DEF Delivered, OwedTracked
  <2>1. kindsOf[m] \subseteq Kinds
    BY ChangesFacts
  <2>2. ASSUME NEW k \in Kinds, Carried(m, k) PROVE Carried(m, k)'
    BY <1>10, <2>2 DEF Delivered, Larger, Carried
  <2> QED BY <1>10, <2>1, <2>2 DEF Delivered, Tracked, Overtaken
<1>11. ASSUME NEW p \in flight, Failed(p) PROVE OwedTracked'
  BY <1>11 DEF Failed, Fault, ToldBy, OwedTracked, Tracked, Carried, Overtaken
<1>12. ASSUME NEW p \in flight, Gone(p) PROVE OwedTracked'
  BY <1>12 DEF Gone, Fault, OwedTracked, Tracked, Carried, Overtaken
<1>13. CASE Restart
  BY <1>13 DEF Restart, Fault, NoPending, NoStates, OwedTracked, Tracked, Carried, Overtaken
<1>14. CASE Unsubscribe \/ IntervalOver \/ RetryOver
  BY <1>14 DEF Unsubscribe, IntervalOver, RetryOver, OwedTracked, Tracked, Carried, Overtaken
<1>15. ASSUME NEW p \in flight, NoteFails(p) PROVE OwedTracked'
  <2> SUFFICES ASSUME sub = "verified", NEW m \in 1..Len(kindsOf), m > owed, Tracked(m)
               PROVE  Tracked(m)'
    BY <1>15 DEF NoteFails, OwedTracked
  <2>1. kindsOf[m] \subseteq Kinds
    BY ChangesFacts
  <2>2. CASE accepted' = [k \in Kinds |-> Larger(accepted[k], p[k])] /\ UNCHANGED missed
    <3>1. ASSUME NEW k \in Kinds, Carried(m, k) PROVE Carried(m, k)'
      BY <1>15, <2>2, <3>1 DEF NoteFails, Larger, Carried
    <3> QED BY <1>15, <2>1, <2>2, <3>1 DEF NoteFails, Tracked, Overtaken
  <2>3. CASE missed' = missed \cup ToldBy(p) /\ UNCHANGED accepted
    BY <1>15, <2>3 DEF NoteFails, ToldBy, Tracked, Carried, Overtaken
  <2> QED BY <1>15, <2>2, <2>3 DEF NoteFails
<1> QED
  BY <1>1, <1>2, <1>3, <1>4, <1>5, <1>6, <1>7, <1>8, <1>9, <1>10, <1>11, <1>12, <1>13,
     <1>14, <1>15 DEF WebPushNext

\* A step of the task leaves the changes alone but for a restart, which drops the
\* requests under way.
LEMMA WebPushLeavesChanges == WebPushInv /\ WebPushNext => ChangesInv'
<1> SUFFICES ASSUME WebPushInv, WebPushNext PROVE ChangesInv'
  OBVIOUS
<1> USE ChangesAssumption DEF WebPushInv, ChangesInv, ChangesTypeOK, modseq
<1>1. CASE Restart
  BY <1>1 DEF Restart, Fault
<1>2. CASE UNCHANGED <<kindsOf, unsent, sent, silent>> /\ faults' \in Nat
  BY <1>2
<1> QED
  BY <1>1, <1>2 DEF changesVars, WebPushNext, Verify, Unsubscribe, Hear, HearLag, Flush, FlushNobody,
     FlushFails, Release, ReleaseNobody, ReleaseFails, IntervalOver, RetryOver, Delivered, Failed,
     Gone, NoteFails, Fault

\* The invariant holds in every state Web Push can get into.
THEOREM WebPushInvariant == WebPushSpec => []WebPushInv
<1>1. WebPushInit => WebPushInv
  <2> SUFFICES ASSUME WebPushInit PROVE WebPushInv
    OBVIOUS
  <2>1. ChangesInv
    BY ChangesInvInit DEF WebPushInit
  <2>2. WebPushTypeOK
    <3>1. backoff \in BOOLEAN /\ recent \in BOOLEAN
      BY DEF WebPushInit
    <3> QED BY <2>1, <3>1, WebPushAssumption
        DEF WebPushInit, WebPushTypeOK, ChangesInv, ChangesTypeOK, modseq, NoPending, NoStates
  <2>3. Strikes /\ BundleLater /\ OwedTracked
    BY WebPushAssumption DEF WebPushInit, Strikes, BundleLater, OwedTracked, NoPending
  <2> QED BY <2>1, <2>2, <2>3 DEF WebPushInv
<1>2. WebPushInv /\ WebPushNext => WebPushInv'
  BY WebPushLeavesChanges, WebPushTypeStep, StrikesStep, BundleLaterStep, OwedTrackedStep DEF WebPushInv
<1>3. WebPushInv /\ UNCHANGED <<changesVars, webPushVars>> => WebPushInv'
  <2> SUFFICES ASSUME WebPushInv, UNCHANGED <<changesVars, webPushVars>> PROVE WebPushInv'
    OBVIOUS
  <2> USE DEF WebPushInv, changesVars, webPushVars, modseq
  <2>1. ChangesInv'
    BY DEF ChangesInv, ChangesTypeOK
  <2>2. WebPushTypeOK'
    BY DEF WebPushTypeOK, Modseqs
  <2>3. Strikes' /\ BundleLater'
    BY DEF Strikes, BundleLater
  <2>4. OwedTracked'
    BY DEF OwedTracked, Tracked, Carried, Overtaken
  <2> QED BY <2>1, <2>2, <2>3, <2>4
<1> QED BY <1>1, <1>2, <1>3, WebPushChanges, PTL DEF WebPushSpec

\* Every variable of the task keeps its type, and `push_failed` ends a subscription
\* before its failures in a row go past the limit.
THEOREM WebPushTypeCorrect == WebPushSpec => [](WebPushTypeOK /\ Strikes)
  BY WebPushInvariant, PTL DEF WebPushInv

\* `flush`, `merge` and `release` lose no change between the channel and the push
\* service but where the module gives it up, or where announcements overtook each
\* other.
THEOREM WebPushChangesPushed == WebPushSpec => []ChangesPushed
<1>1. WebPushInv => ChangesPushed
  <2> SUFFICES ASSUME WebPushInv, WebPushIdle, NEW m \in 1..Len(kindsOf), sub = "verified", m > owed,
                      m \notin missed \cup silent, ~Overtaken(m), NEW k \in kindsOf[m]
               PROVE  accepted[k] >= m
    <3> SUFFICES ASSUME WebPushInv, WebPushIdle, NEW m \in 1..Len(kindsOf) PROVE Settled(m)
      BY DEF ChangesPushed, modseq
    <3>1. owed \in Nat /\ m \in Nat
      BY WebPushFacts DEF WebPushInv, WebPushTypeOK, modseq
    <3> QED BY <3>1 DEF Settled
  <2>1. Len(kindsOf) \in Nat /\ Len(sent) \in Nat /\ k \in Kinds
    BY ChangesFacts DEF WebPushInv
  <2>2. Carried(m, k)
    BY <2>1 DEF WebPushInv, OwedTracked, Tracked, WebPushIdle, NoPending, modseq
  <2> QED BY <2>1, <2>2 DEF Carried, WebPushIdle, NoStates
<1> QED BY <1>1, WebPushInvariant, PTL
=============================================================================
