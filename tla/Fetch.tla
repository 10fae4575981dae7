------------------------------- MODULE Fetch -------------------------------
(***************************************************************************)
(* Fetching mail from a mailbox at another provider: one fetch account,    *)
(* one folder of it.                                                       *)
(*                                                                         *)
(* A run selects the folder, takes what is new above the last UID it       *)
(* remembers, then a portion of the mail that was already there if that    *)
(* was asked for.  A message is delivered here, its name remembered, and   *)
(* only then marked or deleted at the provider: three steps, and a run can *)
(* be cut off between any two of them.  What a run learns is written down  *)
(* at its end, and after every portion of the old mail.                    *)
(*                                                                         *)
(* The provider is external: it gives rising UIDs, may renumber its folder *)
(* between runs, answers searches in UID order, and may fail any command.  *)
(* Messages with one Message-ID share a name.                              *)
(***************************************************************************)
EXTENDS Integers, FiniteSets

CONSTANTS
  Mails,         \* mail that comes into the provider's folder, numbered in that order
  NameOf,        \* what each is remembered by: message_key
  Large,         \* mail larger than MAX_LITERAL
  NoMail,        \* no mail at a UID
  Delete,        \* after_fetch = Delete
  PerRun,        \* PER_RUN
  HoldLimit,     \* FETCH_HOLD_LIMIT_SECS
  MaxRequests,   \* bound: how often the old mail is asked for
  MaxForgets,    \* bound: how often a name is forgotten
  MaxFaults      \* bound: how often a run is cut off, a mail not handed out, the folder renumbered

ASSUME NameOfAssumption == DOMAIN NameOf = Mails
ASSUME LargeAssumption == Large \subseteq Mails
ASSUME NoMailAssumption == NoMail \notin Mails
ASSUME SwitchAssumption == Delete \in BOOLEAN
ASSUME MailsAssumption == Mails \subseteq Nat /\ IsFiniteSet(Mails)
ASSUME NumbersAssumption ==
  /\ PerRun \in Nat \ {0}
  /\ HoldLimit \in Nat
  /\ MaxRequests \in Nat
  /\ MaxForgets \in Nat
  /\ MaxFaults \in Nat

VARIABLES
  box,        \* the provider's folder: the mail at each UID
  uidNext,    \* its UIDNEXT
  validity,   \* its UIDVALIDITY
  flagged,    \* mail in it marked \Deleted
  asked,      \* fetch_accounts.backlog_at: the request being worked on, 0 for none
  saved,      \* the row of fetch_state
  seen,       \* fetch_seen
  phase,      \* where the run is
  state,      \* its copy of the row
  request,    \* backlog_at as the run read it
  todo,       \* UIDs it has yet to take
  chunk,      \* the ones among them that come in one portion
  current,    \* the UID it is at
  oversize,   \* UIDs the plan leaves out as too large
  held,       \* the UID it was asked to bring later, 0 for none
  deleted,    \* whether it marked something \Deleted
  through,    \* whether this portion of the old mail is dealt with and was the last
  arrived,    \* history: mail that came to the provider
  copies,     \* history: how often mail of each name was brought here
  refused,    \* history: mail the filter refused
  left,       \* history: mail knowingly left at the provider
  old,        \* history: mail that was there when fetching began
  requests,   \* history: requests so far
  stamp,      \* history: when the last one was made, in seconds
  faults,     \* how often that happened so far
  unmarked,   \* history: how often a run was cut off after bringing a name, before remembering it
  forgotten   \* history: how often a name was forgotten

providerVars == <<box, uidNext, validity, flagged>>
storeVars == <<asked, saved, seen>>
runVars == <<phase, state, request, todo, chunk, current, oversize, held, deleted, through>>
historyVars == <<arrived, copies, refused, left, old, requests, stamp, faults, unmarked, forgotten>>
vars == <<providerVars, storeVars, runVars, historyVars>>

Uids == 1..Cardinality(Mails)
Names == {NameOf[m] : m \in Mails}
Larger(a, b) == IF a > b THEN a ELSE b
IsLeast(u, S) == u \in S /\ \A v \in S : u <= v
IsGreatest(u, S) == u \in S /\ \A v \in S : v <= u

\* FetchFolder::default(); 0 stands for no held UID and no request, -1 for no
\* backlog_until.  heldFor is the time since held_since, up to where it counts.
Default ==
  [known |-> FALSE, validity |-> 0, lastUid |-> 0, heldUid |-> 0, heldFor |-> 0, backlogAt |-> 0,
   next |-> 0, until |-> -1]

Init ==
  /\ box = [u \in Uids |-> NoMail]
  /\ uidNext = 1
  /\ validity = 1
  /\ flagged = {}
  /\ asked = 0
  /\ saved = Default
  /\ seen = {}
  /\ phase = "idle"
  /\ state = Default
  /\ request = 0
  /\ todo = {}
  /\ chunk = {}
  /\ current = 0
  /\ oversize = {}
  /\ held = 0
  /\ deleted = FALSE
  /\ through = FALSE
  /\ arrived = {}
  /\ copies = [n \in Names |-> 0]
  /\ refused = {}
  /\ left = {}
  /\ old = {}
  /\ requests = 0
  /\ stamp = 0
  /\ faults = 0
  /\ unmarked = [n \in Names |-> 0]
  /\ forgotten = [n \in Names |-> 0]

InBox == {box[u] : u \in Uids} \ {NoMail}

-----------------------------------------------------------------------------
(* The provider, its other clients, and the person here.                   *)

\* Mail arrives in the provider's folder.
Arrive(m) ==
  /\ uidNext \in Uids
  /\ m \notin arrived /\ \A k \in Mails : k < m => k \in arrived
  /\ arrived' = arrived \cup {m}
  /\ box' = [box EXCEPT ![uidNext] = m]
  /\ uidNext' = uidNext + 1
  /\ UNCHANGED <<validity, flagged, storeVars, runVars, copies, refused, left, old, requests, stamp,
                 faults, unmarked, forgotten>>

\* The provider numbers its folder anew, in the same order.
Renumber ==
  /\ phase = "idle"
  /\ faults < MaxFaults
  /\ faults' = faults + 1
  /\ validity' = validity + 1
  /\ uidNext' = Cardinality(InBox) + 1
  /\ box' \in {b \in [Uids -> InBox \cup {NoMail}] :
                /\ {b[u] : u \in Uids} \ {NoMail} = InBox
                /\ \A u \in Uids : b[u] # NoMail <=> u <= Cardinality(InBox)
                /\ \A u, v \in Uids : u < v /\ b[v] # NoMail => b[u] < b[v]}
  /\ UNCHANGED <<flagged, storeVars, runVars, arrived, copies, refused, left, old, requests,
                 stamp, unmarked, forgotten>>

\* request_fetch_backlog: a request is known by the second it was made in, so two
\* made in one second are one.
Ask ==
  /\ requests < MaxRequests
  /\ requests' = requests + 1
  /\ stamp' \in {Larger(stamp, 1), stamp + 1}
  /\ asked' = stamp'
  /\ UNCHANGED <<providerVars, saved, seen, runVars, arrived, copies, refused, left, old, faults,
                 unmarked, forgotten>>

\* prune_fetch_seen, between two rounds of the worker: a name that was remembered for
\* FETCH_SEEN_SECS is forgotten, whether or not the mail is still offered.
Forget(n) ==
  /\ phase = "idle"
  /\ n \in seen
  /\ forgotten[n] < MaxForgets
  /\ seen' = seen \ {n}
  /\ forgotten' = [forgotten EXCEPT ![n] = @ + 1]
  /\ UNCHANGED <<providerVars, asked, saved, runVars, arrived, copies, refused, left, old, requests,
                 stamp, faults, unmarked>>

\* Time passes for a message that waits.
Tick ==
  /\ saved.heldUid > 0 /\ saved.heldFor <= HoldLimit
  /\ phase = "idle"
  /\ saved' = [saved EXCEPT !.heldFor = @ + 1]
  /\ UNCHANGED <<providerVars, asked, seen, runVars, historyVars>>

-----------------------------------------------------------------------------
(* take_folder: what the run starts from.                                  *)

Renumbered == saved.known /\ saved.validity # validity

\* The state of a folder that is known, renumbered or met for the first time.
Selected ==
  CASE saved.known /\ saved.validity = validity -> saved
    [] Renumbered ->
         [Default EXCEPT !.known = TRUE, !.validity = validity]
    [] OTHER -> [Default EXCEPT !.known = TRUE, !.validity = validity, !.lastUid = uidNext - 1]

\* A request this folder has not begun.
WithRequest(s) ==
  IF asked # 0 /\ s.backlogAt # asked
  THEN [s EXCEPT !.backlogAt = asked, !.next = 1, !.until = s.lastUid]
  ELSE s

HoldExpired(s) == s.heldUid > 0 /\ s.heldFor > HoldLimit

\* Mutant of Unheld: a message may wait for ever.
UnheldNever(s) == s

\* take_new steps over a message that waited too long.
Unheld(s) ==
  IF HoldExpired(s)
  THEN [s EXCEPT !.lastUid = Larger(s.lastUid, s.heldUid), !.heldUid = 0, !.heldFor = 0]
  ELSE s

MailsAt(S) == {box[u] : u \in S \cap Uids} \ {NoMail}

\* The first PerRun UIDs of S.
Portion(S) == {u \in S : Cardinality({v \in S : v < u}) < PerRun}

\* UIDs in the folder from lo to hi.
FoundIn(lo, hi) == {u \in Uids : lo <= u /\ u <= hi /\ box[u] # NoMail}

\* What comes after the new mail.
AfterNew(s) == IF s.until = -1 THEN "save" ELSE "backlog"

\* SELECT, the read of fetch_state, and then UID SEARCH for what is new with its
\* plan_fetch (the size of a large mail may be understated).  The first run takes
\* nothing new, and with nothing found the state stays as it is.  In a renumbered
\* folder all mail is new, and a request for the old mail begins with none left.
Start ==
  /\ phase = "idle"
  /\ LET first == ~saved.known
         s == IF first THEN WithRequest(Selected) ELSE Unheld(WithRequest(Selected))
         found == IF first THEN {} ELSE Portion(FoundIn(s.lastUid + 1, Cardinality(Mails))) IN
       /\ state' = s
       /\ \E big \in SUBSET {u \in found : box[u] \in Large} :
            /\ todo' = found \ big
            /\ oversize' = big
            /\ left' = left \cup MailsAt(big)
                 \cup IF ~first /\ HoldExpired(Selected) THEN MailsAt({Selected.heldUid}) ELSE {}
       /\ phase' = IF found = {} THEN AfterNew(s) ELSE "new"
       /\ old' = IF first THEN InBox ELSE IF Renumbered THEN {} ELSE old
  /\ request' = asked
  /\ UNCHANGED <<providerVars, storeVars, chunk, current, held, deleted, through, arrived, copies,
                 refused, requests, stamp, faults, unmarked, forgotten>>

-----------------------------------------------------------------------------
(* take_new: one message after another.                                    *)

\* The next message.
AtNew(u) == phase = "new" /\ IsLeast(u, todo)

StepPast(u) == state' = [state EXCEPT !.lastUid = Larger(@, u)]

\* Named by the search and not handed out; a later one moves the folder past it.
NewMissing(u) ==
  /\ AtNew(u)
  /\ faults < MaxFaults
  /\ faults' = faults + 1
  /\ todo' = todo \ {u}
  /\ left' = left \cup MailsAt({u})
  /\ UNCHANGED <<providerVars, storeVars, phase, state, request, chunk, current, oversize, held,
                 deleted, through, arrived, copies, refused, old, requests, stamp, unmarked, forgotten>>

\* Larger than it said, or nowhere here to put it: stepped over, untouched.
NewLeft(u) ==
  /\ AtNew(u)
  /\ box[u] # NoMail
  /\ todo' = todo \ {u}
  /\ StepPast(u)
  /\ left' = left \cup {box[u]}
  /\ UNCHANGED <<providerVars, storeVars, phase, request, chunk, current, oversize, held, deleted,
                 through, arrived, copies, refused, old, requests, stamp, faults, unmarked, forgotten>>

Offered(u) == box[u] # NoMail /\ box[u] \notin Large

\* take_message: the name was brought before.
NewKnown(u) ==
  /\ AtNew(u)
  /\ Offered(u)
  /\ NameOf[box[u]] \in seen
  /\ todo' = todo \ {u}
  /\ current' = u
  /\ phase' = "flagNew"
  /\ UNCHANGED <<providerVars, storeVars, state, request, chunk, oversize, held, deleted, through,
                 historyVars>>

Bring(u) == copies' = [copies EXCEPT ![NameOf[box[u]]] = @ + 1]

\* deliver_fetched keeps it.
NewKept(u) ==
  /\ AtNew(u)
  /\ Offered(u)
  /\ NameOf[box[u]] \notin seen
  /\ Bring(u)
  /\ todo' = todo \ {u}
  /\ current' = u
  /\ phase' = "markNew"
  /\ UNCHANGED <<providerVars, storeVars, state, request, chunk, oversize, held, deleted, through,
                 arrived, refused, left, old, requests, stamp, faults, unmarked, forgotten>>

\* deliver_fetched refuses it: the filter has decided.
NewRefused(u) ==
  /\ AtNew(u)
  /\ Offered(u)
  /\ NameOf[box[u]] \notin seen
  /\ refused' = refused \cup {box[u]}
  /\ todo' = todo \ {u}
  /\ current' = u
  /\ phase' = "flagNew"
  /\ UNCHANGED <<providerVars, storeVars, state, request, chunk, oversize, held, deleted, through,
                 arrived, copies, left, old, requests, stamp, faults, unmarked, forgotten>>

\* Mutant of NewLater: the rest of the portion is taken all the same.
NewLaterOn(u) ==
  /\ AtNew(u)
  /\ Offered(u)
  /\ NameOf[box[u]] \notin seen
  /\ held' = u
  /\ todo' = todo \ {u}
  /\ UNCHANGED <<providerVars, storeVars, phase, state, request, chunk, current, oversize, deleted,
                 through, historyVars>>

\* Mutant of NewLater: a full mailbox is taken for a refusal.
NewLaterRefused(u) ==
  /\ AtNew(u)
  /\ Offered(u)
  /\ NameOf[box[u]] \notin seen
  /\ todo' = todo \ {u}
  /\ current' = u
  /\ phase' = "flagNew"
  /\ UNCHANGED <<providerVars, storeVars, state, request, chunk, oversize, held, deleted, through,
                 historyVars>>

\* deliver_fetched wants it later (a 4xx, a full mailbox): the folder waits at it.
NewLater(u) ==
  /\ AtNew(u)
  /\ Offered(u)
  /\ NameOf[box[u]] \notin seen
  /\ held' = u
  /\ todo' = {}
  /\ UNCHANGED <<providerVars, storeVars, phase, state, request, chunk, current, oversize, deleted,
                 through, historyVars>>

\* Mutant of MarkNew: the name is not remembered.
MarkNewNot ==
  /\ phase = "markNew"
  /\ phase' = "flagNew"
  /\ UNCHANGED <<providerVars, storeVars, state, request, todo, chunk, current, oversize, held,
                 deleted, through, historyVars>>

\* mark_fetch_seen
MarkNew ==
  /\ phase = "markNew"
  /\ seen' = seen \cup {NameOf[box[current]]}
  /\ phase' = "flagNew"
  /\ UNCHANGED <<providerVars, asked, saved, state, request, todo, chunk, current, oversize, held,
                 deleted, through, historyVars>>

\* UID STORE +FLAGS, whose failure is not looked at.
StoreFlag ==
  \/ /\ Delete
     /\ flagged' = flagged \cup {box[current]}
     /\ deleted' = TRUE
  \/ UNCHANGED <<flagged, deleted>>

FlagNew ==
  /\ phase = "flagNew"
  /\ StoreFlag
  /\ StepPast(current)
  /\ phase' = "new"
  /\ current' = 0
  /\ UNCHANGED <<box, uidNext, validity, storeVars, request, todo, chunk, oversize, held, through,
                 historyVars>>

\* EXPUNGE takes away all that is marked, whoever marked it.
Expunge ==
  IF deleted
  THEN /\ box' = [u \in Uids |-> IF box[u] \in flagged THEN NoMail ELSE box[u]]
       /\ flagged' = {}
  ELSE UNCHANGED <<box, flagged>>

\* The end of take_new: what is too large is stepped over unless the folder waits,
\* and a message that waits keeps the time it began to.
EndNew ==
  /\ phase = "new"
  /\ todo = {}
  /\ Expunge
  /\ phase' = AfterNew(state)
  /\ \E past \in {state.lastUid} \cup oversize :
       /\ IsGreatest(past, {state.lastUid} \cup IF held = 0 THEN oversize ELSE {})
       /\ state' = [state EXCEPT !.lastUid = past,
                                !.heldUid = held,
                                !.heldFor = IF held # 0 /\ held = state.heldUid THEN @ ELSE 0]
  /\ oversize' = {}
  /\ held' = 0
  /\ deleted' = FALSE
  /\ UNCHANGED <<uidNext, validity, storeVars, request, todo, chunk, current, through, historyVars>>

-----------------------------------------------------------------------------
(* take_backlog: a portion of the mail that was already there.             *)

\* The account has no mailbox of its own: the old mail stays where it is.
NoMailbox ==
  /\ phase = "backlog"
  /\ state' = [state EXCEPT !.until = -1]
  /\ left' = left \cup MailsAt(state.next..state.until)
  /\ phase' = "save"
  /\ UNCHANGED <<providerVars, storeVars, request, todo, chunk, current, oversize, held, deleted,
                 through, arrived, copies, refused, old, requests, stamp, faults, unmarked, forgotten>>

SearchOld ==
  /\ phase = "backlog"
  /\ LET found == Portion(FoundIn(state.next, state.until)) IN
       /\ \E big \in SUBSET {u \in found : box[u] \in Large} :
            /\ todo' = found \ big
            /\ left' = left \cup MailsAt(big)
       /\ through' = (Cardinality(found) < PerRun)
  /\ phase' = "old"
  /\ UNCHANGED <<providerVars, storeVars, state, request, chunk, current, oversize, held, deleted,
                 arrived, copies, refused, old, requests, stamp, faults, unmarked, forgotten>>

\* The next portion by size: a first part of what is to do.
NextChunk ==
  /\ phase = "old"
  /\ chunk = {} /\ todo # {}
  /\ \E u \in todo : chunk' = {v \in todo : v <= u}
  /\ phase' = "chunk"
  /\ UNCHANGED <<providerVars, storeVars, state, request, todo, current, oversize, held, deleted,
                 through, historyVars>>

AtOld(u) == phase = "chunk" /\ IsLeast(u, chunk)

OldDone(u) ==
  /\ todo' = todo \ {u}
  /\ chunk' = chunk \ {u}
  /\ state' = [state EXCEPT !.next = u + 1]

\* Marked as deleted already, larger than it said, or not handed out.
OldLeft(u) ==
  /\ AtOld(u)
  /\ OldDone(u)
  /\ left' = left \cup {box[u]}
  /\ UNCHANGED <<providerVars, storeVars, phase, request, current, oversize, held, deleted,
                 through, arrived, copies, refused, old, requests, stamp, faults, unmarked, forgotten>>

\* is_fetch_seen or holds_message: by whatever way a mail of this name came.
IsHere(n) == n \in seen \/ copies[n] > 0

OldKnown(u) ==
  /\ AtOld(u)
  /\ Offered(u) /\ box[u] \notin flagged
  /\ IsHere(NameOf[box[u]])
  /\ current' = u
  /\ phase' = "flagOld"
  /\ UNCHANGED <<providerVars, storeVars, state, request, todo, chunk, oversize, held, deleted,
                 through, historyVars>>

\* ingest
OldBrought(u) ==
  /\ AtOld(u)
  /\ Offered(u) /\ box[u] \notin flagged
  /\ ~IsHere(NameOf[box[u]])
  /\ Bring(u)
  /\ current' = u
  /\ phase' = "markOld"
  /\ UNCHANGED <<providerVars, storeVars, state, request, todo, chunk, oversize, held, deleted,
                 through, arrived, refused, left, old, requests, stamp, faults, unmarked, forgotten>>

\* Mutant of OldFull: the message without room counts as dealt with.
OldFullThrough(u) ==
  /\ AtOld(u)
  /\ Offered(u) /\ box[u] \notin flagged
  /\ ~IsHere(NameOf[box[u]])
  /\ OldDone(u)
  /\ UNCHANGED <<providerVars, storeVars, phase, request, current, oversize, held, deleted,
                 through, historyVars>>

\* QuotaExceeded: it waits, and the next run carries on from here.
OldFull(u) ==
  /\ AtOld(u)
  /\ Offered(u) /\ box[u] \notin flagged
  /\ ~IsHere(NameOf[box[u]])
  /\ through' = FALSE
  /\ todo' = {}
  /\ chunk' = {}
  /\ phase' = "old"
  /\ UNCHANGED <<providerVars, storeVars, state, request, current, oversize, held, deleted,
                 historyVars>>

MarkOld ==
  /\ phase = "markOld"
  /\ seen' = seen \cup {NameOf[box[current]]}
  /\ phase' = "flagOld"
  /\ UNCHANGED <<providerVars, asked, saved, state, request, todo, chunk, current, oversize, held,
                 deleted, through, historyVars>>

FlagOld ==
  /\ phase = "flagOld"
  /\ StoreFlag
  /\ OldDone(current)
  /\ phase' = "chunk"
  /\ current' = 0
  /\ UNCHANGED <<box, uidNext, validity, storeVars, request, oversize, held, through, historyVars>>

\* The portion is done: progress is written down.
SaveChunk ==
  /\ phase = "chunk"
  /\ chunk = {}
  /\ saved' = state
  /\ phase' = "old"
  /\ UNCHANGED <<providerVars, asked, seen, state, request, todo, chunk, current, oversize, held,
                 deleted, through, historyVars>>

EndOld ==
  /\ phase = "old"
  /\ todo = {}
  /\ Expunge
  /\ state' = [state EXCEPT !.until = IF through THEN -1 ELSE @]
  /\ phase' = "save"
  /\ deleted' = FALSE
  /\ through' = FALSE
  /\ UNCHANGED <<uidNext, validity, storeVars, request, todo, chunk, current, oversize, held,
                 historyVars>>

-----------------------------------------------------------------------------
(* The end of a run.                                                       *)

\* set_fetch_folder
Save ==
  /\ phase = "save"
  /\ saved' = state
  /\ phase' = "finish"
  /\ UNCHANGED <<providerVars, asked, seen, state, request, todo, chunk, current, oversize, held,
                 deleted, through, historyVars>>

\* What a run has in memory goes with it.
EndRun ==
  /\ phase' = "idle"
  /\ state' = Default
  /\ request' = 0
  /\ todo' = {}
  /\ chunk' = {}
  /\ current' = 0
  /\ oversize' = {}
  /\ held' = 0
  /\ deleted' = FALSE
  /\ through' = FALSE

\* finish_fetch_backlog clears the request that was worked on, no other.
Finish ==
  /\ phase = "finish"
  /\ asked' = IF request # 0 /\ state.backlogAt = request /\ state.until = -1 /\ asked = request
              THEN 0 ELSE asked
  /\ EndRun
  /\ UNCHANGED <<providerVars, saved, seen, historyVars>>

\* The connection breaks, RUN_LIMIT is over, the database fails or the server
\* stops: what the run had in memory is lost.  take_backlog still expunges when the
\* error is not the connection's.
CutOff ==
  /\ phase # "idle"
  /\ faults < MaxFaults
  /\ faults' = faults + 1
  /\ unmarked' = IF phase \in {"markNew", "markOld"}
                  THEN [unmarked EXCEPT ![NameOf[box[current]]] = @ + 1] ELSE unmarked
  /\ \/ UNCHANGED <<box, flagged>>
     \/ phase \in {"old", "chunk", "markOld"} /\ Expunge
  /\ EndRun
  /\ UNCHANGED <<uidNext, validity, storeVars, arrived, copies, refused, left, old, requests, stamp,
                 forgotten>>

RunStep ==
  \/ Start
  \/ \E u \in Uids : \/ NewMissing(u) \/ NewLeft(u) \/ NewKnown(u) \/ NewKept(u)
                      \/ NewRefused(u) \/ NewLater(u)
  \/ MarkNew \/ FlagNew \/ EndNew
  \/ NoMailbox \/ SearchOld \/ NextChunk
  \/ \E u \in Uids : OldLeft(u) \/ OldKnown(u) \/ OldBrought(u) \/ OldFull(u)
  \/ MarkOld \/ FlagOld \/ SaveChunk \/ EndOld
  \/ Save \/ Finish

Next ==
  \/ \E m \in Mails : Arrive(m)
  \/ Renumber \/ Ask \/ Tick
  \/ \E n \in Names : Forget(n)
  \/ RunStep
  \/ CutOff

Spec == Init /\ [][Next]_vars

\* Runs come again and again and every one ends (RUN_LIMIT), and time passes for a
\* message that waits, between two runs at the latest.  Nothing is asked of the
\* provider's answers but that it hands out what it names in the end (MaxFaults).
FairSpec == Spec /\ WF_vars(RunStep) /\ SF_vars(Tick)

-----------------------------------------------------------------------------
\* What the variables hold.
Folders ==
  [known : BOOLEAN, validity : Nat, lastUid : Nat, heldUid : Nat, heldFor : Nat, backlogAt : Nat,
   next : Nat, until : Nat \cup {-1}]

TypeOK ==
  /\ box \in [Uids -> Mails \cup {NoMail}]
  /\ uidNext \in Nat /\ validity \in Nat
  /\ flagged \subseteq Mails
  /\ asked \in Nat /\ request \in Nat
  /\ saved \in Folders /\ state \in Folders
  /\ seen \subseteq Names
  /\ phase \in {"idle", "new", "markNew", "flagNew", "backlog", "old", "chunk", "markOld",
                "flagOld", "save", "finish"}
  /\ todo \subseteq Uids /\ chunk \subseteq Uids /\ oversize \subseteq Uids
  /\ current \in Nat /\ held \in Nat
  /\ deleted \in BOOLEAN /\ through \in BOOLEAN
  /\ arrived \subseteq Mails /\ refused \subseteq Mails /\ left \subseteq Mails
  /\ old \subseteq Mails
  /\ copies \in [Names -> Nat] /\ unmarked \in [Names -> Nat] /\ forgotten \in [Names -> Nat]
  /\ requests \in Nat /\ stamp \in Nat /\ faults \in Nat

IsBrought(m) == copies[NameOf[m]] > 0

\* Mail the runs are finished with.
Dealt(m) == IsBrought(m) \/ m \in refused \/ m \in left

\* A run deletes nothing at the provider that is not here and was not refused by
\* the filter: "Only now, with the message either here or decided about, is
\* anything changed at the provider" (fetch.rs:423).
DeletedDealt ==
  \A m \in (arrived \ InBox) \cup flagged : IsBrought(m) \/ m \in refused

\* The folder never remembers a UID beyond mail that is new and was neither taken
\* nor knowingly left: "so the folder keeps its order and nothing is skipped"
\* (fetch.rs:332).  In a folder that was renumbered every mail is new.
NothingSkipped ==
  saved.known /\ saved.validity = validity =>
    \A u \in Uids :
      u <= saved.lastUid /\ box[u] \notin old \cup {NoMail} => Dealt(box[u])

\* Mail of one name comes once, but for runs cut off after delivering it and before
\* remembering it (take_message) and for names forgotten since (prune_fetch_seen),
\* whatever is renumbered, asked for again or cut off.
BroughtOnce == \A n \in Names : copies[n] <= 1 + unmarked[n] + forgotten[n]

\* Mail above the UID the folder remembers: it comes as new mail.
StillNew(m) == \E u \in Uids : box[u] = m /\ u > saved.lastUid

\* When a request for the old mail is over, all mail in the folder is here, left
\* knowingly, about to be deleted or still to come as new mail, however many runs it
\* took, whichever were cut off and whatever was asked for meanwhile: "the folder only
\* counts as through once all of it has really been dealt with" (fetch.rs:513).  That
\* old mail comes as new mail happens in a renumbered folder, whose request ends at once.
BacklogComplete ==
  [][asked # 0 /\ asked' = 0 => \A m \in InBox : Dealt(m) \/ m \in flagged \/ StillNew(m)]_vars

\* The folder catches up again and again, no new mail waits for ever, and after a
\* renumbering the old mail neither: a message that
\* is asked for later again and again "would hold up its folder for good, so after a
\* day it is stepped over and the folder moves on" (fetch.rs:344).
FolderMovesOn == []<>(\A m \in InBox \ old : Dealt(m))
=============================================================================
