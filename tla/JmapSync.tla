------------------------------ MODULE JmapSync ------------------------------
(***************************************************************************)
(* A JMAP client that keeps a copy of the account's objects of one kind    *)
(* with Foo/changes and Foo/get, composed with the store.                  *)
(*                                                                         *)
(* The store reads without a transaction: Store::changes reads the         *)
(* account's modseq and then the log, and the client's /get is a request   *)
(* of its own; changes may be committed between them.                      *)
(***************************************************************************)
EXTENDS MailStore

CONSTANTS
  Kind,        \* the kind of object the client keeps
  MaxChanges   \* the values of maxChanges it sends; 0 is no limit

ASSUME KindAssumption == Kind \in Kinds
ASSUME MaxChangesAssumption == MaxChanges \subseteq Nat

VARIABLES
  jpc,       \* which read comes next
  copy,      \* the client's copy: objects as it saw them
  jstate,    \* the state it was told with it
  current,   \* the modseq Store::changes read
  page,      \* the answer to /changes
  early      \* objects in the copy that are newer than the state told with them

jmapVars == <<jpc, copy, jstate, current, page, early>>

-----------------------------------------------------------------------------
(* The objects of the client's kind, and what a client sees of one.        *)

Live == CASE Kind = "Email" -> emails [] Kind = "Thread" -> threads [] Kind = "Mailbox" -> boxes

Content(id) ==
  CASE Kind = "Email" -> <<BoxesOf(id), id \in seen>>
    [] Kind = "Thread" -> {e \in emails : threadOf[e] = id}
    [] Kind = "Mailbox" -> {<<e, e \in seen>> : e \in EmailsIn(id)}

Objects == {[id |-> id, content |-> Content(id)] : id \in Live}
Ids(objects) == {object.id : object \in objects}

-----------------------------------------------------------------------------
(* aggregate: folds the log into one answer.                               *)

Group(n) == {row \in log : row[1] = n /\ row[2] = Kind}
GroupIds(n) == {row[3] : row \in Group(n)}

\* What the answer says of an object after one more row about it.
NextSeen(before, change) ==
  CASE before = "none" -> change
    [] before = "created" /\ change = "destroyed" -> "createdThenDestroyed"
    [] before = "updated" /\ change = "destroyed" -> "destroyed"
    [] OTHER -> before

IdsOfKind == CASE Kind = "Email" -> EmailIds [] Kind = "Thread" -> ThreadIds [] Kind = "Mailbox" -> BoxIds
Mentioned(objects) == {id \in IdsOfKind : objects[id] # "none"}

\* Mutant of PageFull: a group that is too large by itself ends the page too.
PageFullUnstarted(objects, n, max) ==
  max > 0 /\ Cardinality(Mentioned(objects) \union GroupIds(n)) > max

\* The group of modseq n would take the answer past its limit.
PageFull(objects, n, max) ==
  /\ max > 0
  /\ Mentioned(objects) # {}
  /\ Cardinality(Mentioned(objects) \union GroupIds(n)) > max

\* Mutant of StateOfPage: a page that was cut short hands out the newest state.
StateOfPageNewest(folded, upto) == upto

\* new_state: where the page was cut short, or the modseq read before the log.
StateOfPage(folded, upto) == IF folded.more THEN folded.last ELSE upto

\* The fold before its first row.
Unread(since) == [objects |-> [id \in IdsOfKind |-> "none"], last |-> since, more |-> FALSE]

\* What the log says of object id at modseq n.
WordAt(n, id) == (CHOOSE row \in Group(n) : row[3] = id)[4]

\* The fold after the group of modseq n; it goes no further once the page is full.
AddGroup(folded, n, max) ==
  IF folded.more \/ Group(n) = {} THEN folded
  ELSE IF PageFull(folded.objects, n, max) THEN [folded EXCEPT !.more = TRUE]
  ELSE [objects |-> [id \in IdsOfKind |->
          IF id \in GroupIds(n) THEN NextSeen(folded.objects[id], WordAt(n, id)) ELSE folded.objects[id]],
        last |-> n, more |-> FALSE]

\* The log is folded one modseq after the other.
Folded(since, max) ==
  LET fold[n \in since .. modseq] == IF n = since THEN Unread(since) ELSE AddGroup(fold[n - 1], n, max)
  IN fold[modseq]

\* The answer to /changes since `since`, of at most `max` objects.
Aggregate(since, upto, max) ==
  LET folded == Folded(since, max)
      said(change) == {id \in IdsOfKind : folded.objects[id] = change}
  IN [created |-> said("created"), updated |-> said("updated"), destroyed |-> said("destroyed"),
      state |-> StateOfPage(folded, upto)]

NoPage == [created |-> {}, updated |-> {}, destroyed |-> {}, state |-> 0]

\* The log has said that object id was created at or before modseq n.
CreatedBy(id, n) ==
  \E row \in log : row[1] <= n /\ row[2] = Kind /\ row[3] = id /\ row[4] = "created"

-----------------------------------------------------------------------------
JInit ==
  /\ Init
  /\ jpc = "idle"
  /\ copy = {}
  /\ jstate = 0
  /\ current = 0
  /\ page = NoPage
  /\ early = {}

\* Store::changes reads the account's modseq ...
AskChanges ==
  /\ op = "none"
  /\ jpc = "idle"
  /\ current' = modseq
  /\ jpc' = "asked"
  /\ UNCHANGED <<storeVars, copy, jstate, page, early>>

\* ... and then the log.
ReadLog(max) ==
  /\ op = "none"
  /\ jpc = "asked"
  /\ page' = Aggregate(jstate, current, max)
  /\ current' = 0
  /\ jpc' = "answered"
  /\ UNCHANGED <<storeVars, copy, jstate, early>>

\* The client drops what was destroyed and gets what was created or updated.
Get ==
  /\ op = "none"
  /\ jpc = "answered"
  /\ LET fetch == page.created \union page.updated
     IN /\ copy' = {o \in copy : o.id \notin fetch \union page.destroyed} \union {o \in Objects : o.id \in fetch}
        /\ early' = (early \ (fetch \union page.destroyed)) \union
             {id \in fetch \intersect Live : ~CreatedBy(id, page.state)}
  /\ jstate' = page.state
  /\ page' = NoPage
  /\ jpc' = "idle"
  /\ UNCHANGED <<storeVars, current>>

JmapStep == AskChanges \/ (\E max \in MaxChanges : ReadLog(max)) \/ Get

JNext == (Next /\ UNCHANGED jmapVars) \/ JmapStep

jvars == <<storeVars, jmapVars>>
JSpec == JInit /\ [][JNext]_jvars

\* The rest of a transaction.
TxStep == Commit \/ DropMailbox \/ \E e \in todo : TakeOut(e) \/ TakeFromMailbox(e)

\* A client that keeps asking, and a server that ends its transactions.  Readers
\* do not wait for writers (WAL), so writers cannot keep the client away for good.
JFairSpec == JSpec /\ SF_jvars(JmapStep) /\ WF_jvars(TxStep /\ UNCHANGED jmapVars)
-----------------------------------------------------------------------------
JTypeOK ==
  /\ jpc \in {"idle", "asked", "answered"}
  /\ Ids(copy) \subseteq IdsOfKind
  /\ jstate \in 0 .. modseq
  /\ current \in 0 .. modseq
  /\ page.state \in 0 .. modseq
  /\ early \subseteq Ids(copy)

\* The client is between two requests, and no transaction is open.
AtRest == Committed /\ jpc = "idle"

\* The next answer, if it comes in one page.
NextPage == Aggregate(jstate, modseq, 0)

\* Whatever was committed between the reads of earlier answers, and however
\* they were paged, the next answer names everything in which the client's copy
\* is behind.  Only an object the client got too early, one created after the
\* state it was told with it, may be left out when it is gone again: "reporting
\* it under the earlier state would hand out a state that is older than the
\* change" is said of notifications, and happens here.  An email that is gone is
\* said to be destroyed; a thread or a mailbox may be said to be updated, and the
\* client's /get then does not find it.
JmapCatchesUp ==
  AtRest =>
    LET fetch == NextPage.created \union NextPage.updated
    IN /\ Live \subseteq Ids(copy) \union fetch
       /\ \A id \in Ids(copy) \ Live :
            id \in NextPage.destroyed \/ id \in early \/ (Kind # "Email" /\ id \in fetch)
       /\ \A o \in copy : o.id \in Live /\ o.content # Content(o.id) => o.id \in fetch

\* Paging ends: a client that keeps asking reaches the newest state, whatever
\* limit it asks with.
JmapReachesState == []<>(jstate = modseq)
=============================================================================
