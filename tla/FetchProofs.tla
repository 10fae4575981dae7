----------------------------- MODULE FetchProofs -----------------------------
(***************************************************************************)
(* What fetching keeps for any mail, any numbering of the folder, any      *)
(* number of runs, and whichever of them are cut off.                      *)
(***************************************************************************)
EXTENDS Fetch, FiniteSetTheorems, WellFoundedInduction, TLAPS

(* The inductive invariant, in named parts.                                *)

NewPhases == {"new", "markNew", "flagNew"}
OldPhases == {"old", "chunk", "markOld", "flagOld"}
Marking == {"markNew", "markOld"}
Flagging == {"flagNew", "flagOld"}

\* The parts of TypeOK.
RowTypes == saved \in Folders /\ state \in Folders

NumberTypes ==
  /\ uidNext \in Nat /\ validity \in Nat
  /\ asked \in Nat /\ request \in Nat /\ requests \in Nat /\ stamp \in Nat /\ faults \in Nat
  /\ current \in Nat /\ held \in Nat
  /\ copies \in [Names -> Nat] /\ unmarked \in [Names -> Nat] /\ forgotten \in [Names -> Nat]

SetTypes ==
  /\ box \in [Uids -> Mails \cup {NoMail}]
  /\ flagged \subseteq Mails
  /\ seen \subseteq Names
  /\ todo \subseteq Uids /\ chunk \subseteq Uids /\ oversize \subseteq Uids
  /\ arrived \subseteq Mails /\ refused \subseteq Mails /\ left \subseteq Mails
  /\ old \subseteq Mails

PhaseTypes ==
  /\ phase \in {"idle", "backlog", "save", "finish"} \cup NewPhases \cup OldPhases
  /\ deleted \in BOOLEAN /\ through \in BOOLEAN

\* A UID is given once, to mail that arrived, and below UIDNEXT.
BoxConsistent ==
  /\ uidNext \in 1 .. Cardinality(Mails) + 1
  /\ \A u \in Uids : box[u] # NoMail => u < uidNext /\ box[u] \in arrived
  /\ \A u, v \in Uids : box[u] = box[v] /\ box[u] # NoMail => u = v
  /\ flagged \subseteq arrived
  /\ old \subseteq arrived

\* What a run has in hand at each of its phases.
RunConsistent ==
  /\ phase # "idle" => state.known /\ state.validity = validity
  /\ phase \notin NewPhases => oversize = {} /\ held = 0
  /\ phase \notin NewPhases \cup OldPhases => todo = {}
  /\ phase \notin {"chunk", "markOld", "flagOld"} => chunk = {}
  /\ phase \in OldPhases \cup {"backlog"} => state.until # -1
  /\ phase \in OldPhases => \A u \in todo : state.next <= u
  /\ chunk \subseteq todo
  /\ \A u \in chunk, v \in todo \ chunk : u < v
  /\ \A u \in todo \cup oversize : box[u] # NoMail
  /\ held # 0 => phase = "new" /\ todo = {} /\ held \in Uids /\ box[held] # NoMail
  /\ phase \notin Marking \cup Flagging => current = 0
  /\ phase \in Marking \cup Flagging => current \in Uids /\ box[current] # NoMail
  /\ phase \in {"markNew", "flagNew"} => \A u \in todo : current < u
  /\ phase \in {"markOld", "flagOld"} => IsLeast(current, chunk)
  /\ phase = "finish" => saved = state

\* A name is remembered when mail of it is here, and mail is touched at the provider
\* when it is here or was refused.
SeenBrought ==
  /\ \A n \in seen : copies[n] > 0
  /\ phase \in Marking => IsBrought(box[current])
  /\ phase \in Flagging => IsBrought(box[current]) \/ box[current] \in refused

\* A name that is not remembered, nor about to be, came only with runs that were cut
\* off, or was forgotten since.
BroughtCounted ==
  \A n \in Names :
    copies[n] <= unmarked[n] + forgotten[n]
      + IF n \in seen \/ (phase \in Marking /\ NameOf[box[current]] = n) THEN 1 ELSE 0

\* UIDs without new mail that nobody decided about.
Decided == {u \in Uids : box[u] \notin old \cup {NoMail} => Dealt(box[u])}

\* UIDs without any mail that nobody decided about.
Settled == {u \in Uids : box[u] # NoMail => Dealt(box[u])}

\* UIDs of the mail that was there when fetching began.
Older == {u \in Uids : box[u] \in old}

\* What a row says of new mail: up to lastUid, and before the mail that waits, all is
\* decided, and the old mail is not beyond.
RowTrue(r) ==
  /\ r.lastUid < uidNext /\ r.heldUid < uidNext /\ r.until < uidNext
  /\ \A u \in Uids : u <= r.lastUid => u \in Decided
  /\ r.heldUid > 0 => \A u \in Uids : u < r.heldUid => u \in Decided
  /\ \A u \in Older : u <= r.lastUid

\* What it says of the old mail once it was asked for, whichever request it is: all of
\* it is up to `until`, and before `next` it is decided.
RowThrough(r) ==
  r.backlogAt # 0 =>
    \A u \in Older : IF r.until = -1 THEN u \in Settled ELSE u <= r.until /\ (u < r.next => u \in Settled)

\* The row is about the folder as it is numbered now.
Current == saved.known /\ saved.validity = validity

RowsTrue ==
  /\ saved.validity <= validity
  /\ Current => RowTrue(saved)
  /\ phase # "idle" => RowTrue(state)

RowsThrough ==
  /\ Current => RowThrough(saved)
  /\ phase # "idle" => RowThrough(state)

\* A run that takes new mail has missed none up to the mail it is at, or up to the
\* one that waits.
NewTaken ==
  phase \in NewPhases =>
    /\ held # 0 => \A u \in Uids : u < held => u \in Decided
    /\ held = 0 => \A v \in todo \cup oversize \cup {current}, u \in Uids :
                     u <= v => u \in Decided \cup todo \cup {current}

\* The same for old mail, and up to `until` when the portion is the last.
OldTaken ==
  phase \in OldPhases =>
    \A u \in Uids :
      /\ state.next <= u /\ u <= state.until
      /\ through \/ \E v \in todo : u <= v
      => u \in todo \cup Settled

FetchInv ==
  /\ TypeOK
  /\ BoxConsistent
  /\ RunConsistent
  /\ SeenBrought
  /\ BroughtCounted
  /\ DeletedDealt
  /\ RowsTrue
  /\ NewTaken
  /\ RowsThrough
  /\ OldTaken
-----------------------------------------------------------------------------
(* UIDs and portions of them.                                              *)

\* There are finitely many UIDs.
LEMMA UidFacts ==
  /\ Cardinality(Mails) \in Nat
  /\ \A S \in SUBSET Uids : IsFiniteSet(S) /\ Cardinality(S) \in Nat
<1>1. Cardinality(Mails) \in Nat
  BY MailsAssumption, FS_CardinalityType
<1>2. IsFiniteSet(Uids)
  BY <1>1, FS_Interval DEF Uids
<1> QED BY <1>1, <1>2, FS_Subset, FS_CardinalityType

\* UIDs are positive.
LEMMA UidNumbers == \A u \in Uids : u \in Nat /\ u > 0
  BY UidFacts DEF Uids

\* A set of UIDs that is not empty has a least one.
LEMMA LeastUid ==
  ASSUME NEW S \in SUBSET Uids, S # {}
  PROVE  \E u \in S : IsLeast(u, S)
<1>1. S \subseteq Nat
  BY UidFacts DEF Uids
<1>2. PICK u \in S : \A v \in S : <<v, u>> \notin OpToRel(<, Nat)
  BY <1>1, WFMin, NatLessThanWellFounded, Zenon
<1>3. \A v \in S : ~(v < u)
  BY <1>1, <1>2, Zenon DEF OpToRel
<1> QED BY <1>1, <1>3 DEF IsLeast

\* plan_fetch's portion is a first part of what was found.
LEMMA PortionFirst ==
  ASSUME NEW S \in SUBSET Uids
  PROVE  /\ Portion(S) \subseteq S
         /\ \A u \in Portion(S), v \in S : v < u => v \in Portion(S)
<1>1. ASSUME NEW u \in Portion(S), NEW v \in S, v < u PROVE v \in Portion(S)
  <2> DEFINE below(w) == {x \in S : x < w}
  <2>1. below(v) \subseteq below(u)
    BY <1>1, UidNumbers DEF Portion
  <2>2. IsFiniteSet(below(u)) /\ Cardinality(below(u)) \in Nat /\ Cardinality(below(v)) \in Nat
    BY UidFacts
  <2>3. Cardinality(below(v)) <= Cardinality(below(u))
    BY <2>1, <2>2, FS_Subset
  <2>4. Cardinality(below(u)) < PerRun
    BY DEF Portion
  <2> QED BY <2>2, <2>3, <2>4, NumbersAssumption DEF Portion
<1> QED BY <1>1 DEF Portion

\* A portion that is not full is all there is.
LEMMA PortionAll ==
  ASSUME NEW S \in SUBSET Uids, Cardinality(Portion(S)) < PerRun
  PROVE  Portion(S) = S
<1> SUFFICES ASSUME S \ Portion(S) # {} PROVE FALSE
  BY DEF Portion
<1>1. PICK u \in S \ Portion(S) : IsLeast(u, S \ Portion(S))
  BY LeastUid
<1> DEFINE below == {x \in S : x < u}
<1>2. below \subseteq Portion(S)
  BY <1>1, UidNumbers DEF IsLeast
<1>3. Portion(S) \in SUBSET Uids /\ Cardinality(below) \in Nat /\ Cardinality(Portion(S)) \in Nat
  BY UidFacts DEF Portion
<1>4. Cardinality(below) <= Cardinality(Portion(S))
  BY <1>2, <1>3, FS_Subset, UidFacts
<1>5. ~(Cardinality(below) < PerRun)
  BY DEF Portion
<1> QED BY <1>3, <1>4, <1>5, NumbersAssumption

-----------------------------------------------------------------------------
(* Rows and mail.                                                          *)

\* Mail in the folder is mail, with a name.
LEMMA FolderMail ==
  ASSUME TypeOK
  PROVE  /\ \A u \in Uids : box[u] # NoMail => box[u] \in Mails
         /\ \A m \in Mails : NameOf[m] \in Names
         /\ \A S : MailsAt(S) \subseteq Mails
         /\ InBox \subseteq Mails /\ Cardinality(InBox) \in Nat
         /\ Cardinality(InBox) <= Cardinality(Mails)
<1>1. /\ \A u \in Uids : box[u] # NoMail => box[u] \in Mails
      /\ \A m \in Mails : NameOf[m] \in Names
      /\ \A S : MailsAt(S) \subseteq Mails
      /\ InBox \subseteq Mails
  BY DEF TypeOK, Names, MailsAt, InBox
<1> QED BY <1>1, MailsAssumption, FS_Subset, FS_CardinalityType

\* What take_folder makes of a row is a row, for the folder as it is now.
LEMMA SelectedRow ==
  ASSUME TypeOK, BoxConsistent
  PROVE  Selected \in Folders /\ Selected.known /\ Selected.validity = validity
<1> DEFINE anew == [Default EXCEPT !.known = TRUE, !.validity = validity]
           first == [Default EXCEPT !.known = TRUE, !.validity = validity, !.lastUid = uidNext - 1]
<1>1. anew \in Folders /\ anew.known /\ anew.validity = validity
  BY DEF TypeOK, Default, Folders
<1>2. uidNext - 1 \in Nat /\ validity \in Nat
  BY UidFacts DEF TypeOK, BoxConsistent
<1>3. first \in Folders /\ first.known /\ first.validity = validity
  BY <1>2 DEF Default, Folders
<1>4. saved \in Folders
  BY DEF TypeOK
<1> QED BY <1>1, <1>3, <1>4 DEF Selected

\* A request for the old mail only changes what a row says of the old mail.
LEMMA RequestedRow ==
  ASSUME asked \in Nat, NEW r \in Folders
  PROVE  /\ WithRequest(r) \in Folders
         /\ WithRequest(r).known = r.known /\ WithRequest(r).validity = r.validity
         /\ WithRequest(r).lastUid = r.lastUid
         /\ WithRequest(r).heldUid = r.heldUid /\ WithRequest(r).heldFor = r.heldFor
  BY DEF WithRequest, Folders

\* Stepping over a message that waited too long only changes a row's place and hold.
LEMMA UnheldRow ==
  ASSUME NEW r \in Folders
  PROVE  /\ Unheld(r) \in Folders
         /\ Unheld(r).known = r.known /\ Unheld(r).validity = r.validity
         /\ Unheld(r).backlogAt = r.backlogAt
         /\ Unheld(r).next = r.next /\ Unheld(r).until = r.until
  BY DEF Unheld, Larger, Folders

\* The row a run starts from, and what it finds.
StartRow == IF saved.known THEN Unheld(WithRequest(Selected)) ELSE WithRequest(Selected)

StartFinds ==
  IF saved.known THEN Portion(FoundIn(StartRow.lastUid + 1, Cardinality(Mails))) ELSE {}

\* What the first steps of a run set.
LEMMA StartSets ==
  ASSUME TypeOK, BoxConsistent, Start
  PROVE  /\ state' = StartRow
         /\ StartRow \in Folders /\ StartRow.known /\ StartRow.validity = validity
         /\ StartFinds \subseteq Uids /\ \A u \in StartFinds : box[u] # NoMail
         /\ todo' \cup oversize' = StartFinds
         /\ MailsAt(oversize') \subseteq left' /\ left \subseteq left' /\ left' \subseteq Mails
         /\ phase' = IF StartFinds = {} THEN AfterNew(StartRow) ELSE "new"
         /\ old' = IF ~saved.known THEN InBox ELSE IF Current THEN old ELSE {}
<1>1. /\ state' = StartRow
      /\ phase' = IF StartFinds = {} THEN AfterNew(StartRow) ELSE "new"
      /\ old' = IF ~saved.known THEN InBox ELSE IF Current THEN old ELSE {}
  BY DEF Start, StartRow, StartFinds, Current, Renumbered
<1>2. StartRow \in Folders /\ StartRow.known /\ StartRow.validity = validity
  BY SelectedRow, RequestedRow, UnheldRow DEF StartRow, TypeOK
<1>3. StartFinds \subseteq Uids /\ \A u \in StartFinds : box[u] # NoMail
  BY DEF StartFinds, Portion, FoundIn
<1>4. PICK big \in SUBSET StartFinds :
        /\ todo' = StartFinds \ big
        /\ oversize' = big
        /\ left' = left \cup MailsAt(big)
             \cup IF saved.known /\ HoldExpired(Selected) THEN MailsAt({Selected.heldUid}) ELSE {}
  BY DEF Start, StartRow, StartFinds
<1>5. left \subseteq Mails
  BY DEF TypeOK
<1> QED BY <1>1, <1>2, <1>3, <1>4, <1>5, FolderMail

\* Every step keeps the types.
LEMMA TypeStep == FetchInv /\ [Next]_vars => TypeOK'
<1> SUFFICES ASSUME FetchInv, [Next]_vars PROVE TypeOK'
  OBVIOUS
<1> USE NameOfAssumption, NoMailAssumption, UidNumbers, NumbersAssumption, FolderMail
<1> USE DEF FetchInv, TypeOK, BoxConsistent, RunConsistent, Folders, NewPhases, OldPhases, Marking,
            Flagging, providerVars, storeVars, runVars, historyVars
<1>1. ASSUME NEW m \in Mails, Arrive(m) PROVE TypeOK'
  BY <1>1 DEF Arrive
<1>2. CASE Renumber
  <2>1. RowTypes'
    BY <1>2 DEF RowTypes, Folders, Renumber
  <2>2. NumberTypes'
    BY <1>2 DEF NumberTypes, Renumber
  <2>3. SetTypes'
    BY <1>2 DEF SetTypes, Renumber
  <2>4. PhaseTypes'
    BY <1>2 DEF PhaseTypes, NewPhases, OldPhases, Renumber
  <2> QED BY <2>1, <2>2, <2>3, <2>4 DEF RowTypes, NumberTypes, SetTypes, PhaseTypes
<1>3. CASE Ask
  <2>1. RowTypes'
    BY <1>3 DEF RowTypes, Folders, Ask
  <2>2. NumberTypes'
    BY <1>3 DEF NumberTypes, Ask, Larger
  <2>3. SetTypes'
    BY <1>3 DEF SetTypes, Ask
  <2>4. PhaseTypes'
    BY <1>3 DEF PhaseTypes, NewPhases, OldPhases, Ask
  <2> QED BY <2>1, <2>2, <2>3, <2>4 DEF RowTypes, NumberTypes, SetTypes, PhaseTypes
<1>4. CASE Tick
  BY <1>4 DEF Tick
<1>5. CASE Start
  <2>1. RowTypes'
    BY <1>5, StartSets DEF RowTypes, Folders, Start, AfterNew
  <2>2. NumberTypes'
    BY <1>5 DEF NumberTypes, Start, AfterNew
  <2>3. SetTypes'
    BY <1>5, StartSets DEF SetTypes, Start, AfterNew
  <2>4. PhaseTypes'
    BY <1>5, StartSets DEF PhaseTypes, NewPhases, OldPhases, Start, AfterNew
  <2> QED BY <2>1, <2>2, <2>3, <2>4 DEF RowTypes, NumberTypes, SetTypes, PhaseTypes
<1>6. ASSUME NEW u \in Uids, NewMissing(u) PROVE TypeOK'
  <2>1. RowTypes'
    BY <1>6 DEF RowTypes, Folders, NewMissing, AtNew, IsLeast
  <2>2. NumberTypes'
    BY <1>6 DEF NumberTypes, NewMissing, AtNew, IsLeast
  <2>3. SetTypes'
    BY <1>6 DEF SetTypes, NewMissing, AtNew, IsLeast
  <2>4. PhaseTypes'
    BY <1>6 DEF PhaseTypes, NewPhases, OldPhases, NewMissing, AtNew, IsLeast
  <2> QED BY <2>1, <2>2, <2>3, <2>4 DEF RowTypes, NumberTypes, SetTypes, PhaseTypes
<1>7. ASSUME NEW u \in Uids, NewLeft(u) PROVE TypeOK'
  <2>1. RowTypes'
    BY <1>7 DEF RowTypes, Folders, NewLeft, AtNew, IsLeast, StepPast, Larger
  <2>2. NumberTypes'
    BY <1>7 DEF NumberTypes, NewLeft, AtNew, IsLeast, StepPast, Larger
  <2>3. SetTypes'
    BY <1>7 DEF SetTypes, NewLeft, AtNew, IsLeast, StepPast, Larger
  <2>4. PhaseTypes'
    BY <1>7 DEF PhaseTypes, NewPhases, OldPhases, NewLeft, AtNew, IsLeast, StepPast, Larger
  <2> QED BY <2>1, <2>2, <2>3, <2>4 DEF RowTypes, NumberTypes, SetTypes, PhaseTypes
<1>8. ASSUME NEW u \in Uids, NewKnown(u) PROVE TypeOK'
  BY <1>8 DEF NewKnown, AtNew, IsLeast, Offered
<1>9. ASSUME NEW u \in Uids, NewKept(u) PROVE TypeOK'
  <2>1. RowTypes'
    BY <1>9 DEF RowTypes, Folders, NewKept, AtNew, IsLeast, Offered, Bring
  <2>2. NumberTypes'
    BY <1>9 DEF NumberTypes, NewKept, AtNew, IsLeast, Offered, Bring
  <2>3. SetTypes'
    BY <1>9 DEF SetTypes, NewKept, AtNew, IsLeast, Offered, Bring
  <2>4. PhaseTypes'
    BY <1>9 DEF PhaseTypes, NewPhases, OldPhases, NewKept, AtNew, IsLeast, Offered, Bring
  <2> QED BY <2>1, <2>2, <2>3, <2>4 DEF RowTypes, NumberTypes, SetTypes, PhaseTypes
<1>10. ASSUME NEW u \in Uids, NewRefused(u) PROVE TypeOK'
  <2>1. RowTypes'
    BY <1>10 DEF RowTypes, Folders, NewRefused, AtNew, IsLeast, Offered
  <2>2. NumberTypes'
    BY <1>10 DEF NumberTypes, NewRefused, AtNew, IsLeast, Offered
  <2>3. SetTypes'
    BY <1>10 DEF SetTypes, NewRefused, AtNew, IsLeast, Offered
  <2>4. PhaseTypes'
    BY <1>10 DEF PhaseTypes, NewPhases, OldPhases, NewRefused, AtNew, IsLeast, Offered
  <2> QED BY <2>1, <2>2, <2>3, <2>4 DEF RowTypes, NumberTypes, SetTypes, PhaseTypes
<1>11. ASSUME NEW u \in Uids, NewLater(u) PROVE TypeOK'
  BY <1>11 DEF NewLater, AtNew, IsLeast, Offered
<1>12. CASE MarkNew
  BY <1>12 DEF MarkNew
<1>13. CASE FlagNew
  <2>1. RowTypes'
    BY <1>13 DEF RowTypes, Folders, FlagNew, StoreFlag, StepPast, Larger
  <2>2. NumberTypes'
    BY <1>13 DEF NumberTypes, FlagNew, StoreFlag, StepPast, Larger
  <2>3. SetTypes'
    BY <1>13 DEF SetTypes, FlagNew, StoreFlag, StepPast, Larger
  <2>4. PhaseTypes'
    BY <1>13 DEF PhaseTypes, NewPhases, OldPhases, FlagNew, StoreFlag, StepPast, Larger
  <2> QED BY <2>1, <2>2, <2>3, <2>4 DEF RowTypes, NumberTypes, SetTypes, PhaseTypes
<1>14. CASE EndNew
  <2>1. RowTypes'
    <3>1. PICK past \in {state.lastUid} \cup oversize :
            state' = [state EXCEPT !.lastUid = past,
                                   !.heldUid = held,
                                   !.heldFor = IF held # 0 /\ held = state.heldUid THEN @ ELSE 0]
      BY <1>14 DEF EndNew
    <3>2. past \in Nat /\ UNCHANGED saved
      BY <1>14 DEF EndNew
    <3> QED BY <3>1, <3>2 DEF RowTypes
  <2>2. NumberTypes'
    BY <1>14 DEF NumberTypes, EndNew, Expunge, AfterNew, IsGreatest
  <2>3. SetTypes'
    BY <1>14 DEF SetTypes, EndNew, Expunge, AfterNew, IsGreatest
  <2>4. PhaseTypes'
    BY <1>14 DEF PhaseTypes, NewPhases, OldPhases, EndNew, Expunge, AfterNew, IsGreatest
  <2> QED BY <2>1, <2>2, <2>3, <2>4 DEF RowTypes, NumberTypes, SetTypes, PhaseTypes
<1>15. CASE NoMailbox
  <2>1. RowTypes'
    BY <1>15 DEF RowTypes, Folders, NoMailbox
  <2>2. NumberTypes'
    BY <1>15 DEF NumberTypes, NoMailbox
  <2>3. SetTypes'
    BY <1>15 DEF SetTypes, NoMailbox
  <2>4. PhaseTypes'
    BY <1>15 DEF PhaseTypes, NewPhases, OldPhases, NoMailbox
  <2> QED BY <2>1, <2>2, <2>3, <2>4 DEF RowTypes, NumberTypes, SetTypes, PhaseTypes
<1>16. CASE SearchOld
  <2>1. RowTypes'
    BY <1>16 DEF RowTypes, Folders, SearchOld, Portion, FoundIn
  <2>2. NumberTypes'
    BY <1>16 DEF NumberTypes, SearchOld, Portion, FoundIn
  <2>3. SetTypes'
    BY <1>16 DEF SetTypes, SearchOld, Portion, FoundIn
  <2>4. PhaseTypes'
    BY <1>16 DEF PhaseTypes, NewPhases, OldPhases, SearchOld, Portion, FoundIn
  <2> QED BY <2>1, <2>2, <2>3, <2>4 DEF RowTypes, NumberTypes, SetTypes, PhaseTypes
<1>17. CASE NextChunk
  BY <1>17 DEF NextChunk
<1>18. ASSUME NEW u \in Uids, OldLeft(u) PROVE TypeOK'
  BY <1>18 DEF OldLeft, AtOld, IsLeast, OldDone
<1>19. ASSUME NEW u \in Uids, OldKnown(u) PROVE TypeOK'
  BY <1>19 DEF OldKnown, AtOld, IsLeast, Offered, IsHere
<1>20. ASSUME NEW u \in Uids, OldBrought(u) PROVE TypeOK'
  <2>1. RowTypes'
    BY <1>20 DEF RowTypes, Folders, OldBrought, AtOld, IsLeast, Offered, Bring, IsHere
  <2>2. NumberTypes'
    BY <1>20 DEF NumberTypes, OldBrought, AtOld, IsLeast, Offered, Bring, IsHere
  <2>3. SetTypes'
    BY <1>20 DEF SetTypes, OldBrought, AtOld, IsLeast, Offered, Bring, IsHere
  <2>4. PhaseTypes'
    BY <1>20 DEF PhaseTypes, NewPhases, OldPhases, OldBrought, AtOld, IsLeast, Offered, Bring, IsHere
  <2> QED BY <2>1, <2>2, <2>3, <2>4 DEF RowTypes, NumberTypes, SetTypes, PhaseTypes
<1>21. ASSUME NEW u \in Uids, OldFull(u) PROVE TypeOK'
  BY <1>21 DEF OldFull, AtOld, IsLeast, Offered
<1>22. CASE MarkOld
  BY <1>22 DEF MarkOld
<1>23. CASE FlagOld
  <2>1. RowTypes'
    BY <1>23 DEF RowTypes, Folders, FlagOld, StoreFlag, OldDone
  <2>2. NumberTypes'
    BY <1>23 DEF NumberTypes, FlagOld, StoreFlag, OldDone
  <2>3. SetTypes'
    BY <1>23 DEF SetTypes, FlagOld, StoreFlag, OldDone
  <2>4. PhaseTypes'
    BY <1>23 DEF PhaseTypes, NewPhases, OldPhases, FlagOld, StoreFlag, OldDone
  <2> QED BY <2>1, <2>2, <2>3, <2>4 DEF RowTypes, NumberTypes, SetTypes, PhaseTypes
<1>24. CASE SaveChunk
  BY <1>24 DEF SaveChunk
<1>25. CASE EndOld
  <2>1. RowTypes'
    BY <1>25 DEF RowTypes, Folders, EndOld, Expunge
  <2>2. NumberTypes'
    BY <1>25 DEF NumberTypes, EndOld, Expunge
  <2>3. SetTypes'
    BY <1>25 DEF SetTypes, EndOld, Expunge
  <2>4. PhaseTypes'
    BY <1>25 DEF PhaseTypes, NewPhases, OldPhases, EndOld, Expunge
  <2> QED BY <2>1, <2>2, <2>3, <2>4 DEF RowTypes, NumberTypes, SetTypes, PhaseTypes
<1>26. CASE Save
  BY <1>26 DEF Save
<1>27. CASE Finish
  <2>1. RowTypes'
    BY <1>27 DEF RowTypes, Folders, Finish, EndRun, Default
  <2>2. NumberTypes'
    BY <1>27 DEF NumberTypes, Finish, EndRun, Default
  <2>3. SetTypes'
    BY <1>27 DEF SetTypes, Finish, EndRun, Default
  <2>4. PhaseTypes'
    BY <1>27 DEF PhaseTypes, NewPhases, OldPhases, Finish, EndRun, Default
  <2> QED BY <2>1, <2>2, <2>3, <2>4 DEF RowTypes, NumberTypes, SetTypes, PhaseTypes
<1>28. CASE CutOff
  <2>1. RowTypes'
    BY <1>28 DEF RowTypes, Folders, CutOff, EndRun, Default, Marking
  <2>2. NumberTypes'
    BY <1>28 DEF NumberTypes, CutOff, EndRun, Default, Marking
  <2>3. SetTypes'
    BY <1>28 DEF SetTypes, CutOff, Expunge, EndRun, Default, Marking
  <2>4. PhaseTypes'
    BY <1>28 DEF PhaseTypes, NewPhases, OldPhases, CutOff, EndRun, Default, Marking
  <2> QED BY <2>1, <2>2, <2>3, <2>4 DEF RowTypes, NumberTypes, SetTypes, PhaseTypes
<1>29. CASE UNCHANGED vars
  BY <1>29 DEF vars
<1>30. ASSUME NEW n \in Names, Forget(n) PROVE TypeOK'
  <2>1. RowTypes'
    BY <1>30 DEF RowTypes, Folders, Forget
  <2>2. NumberTypes'
    BY <1>30 DEF NumberTypes, Forget
  <2>3. SetTypes'
    BY <1>30 DEF SetTypes, Forget
  <2>4. PhaseTypes'
    BY <1>30 DEF PhaseTypes, NewPhases, OldPhases, Forget
  <2> QED BY <2>1, <2>2, <2>3, <2>4 DEF RowTypes, NumberTypes, SetTypes, PhaseTypes
<1> QED
  BY <1>1, <1>2, <1>3, <1>4, <1>5, <1>6, <1>7, <1>8, <1>9, <1>10, <1>11, <1>12, <1>13,
     <1>14, <1>15, <1>16, <1>17, <1>18, <1>19, <1>20, <1>21, <1>22, <1>23, <1>24, <1>25,
     <1>26, <1>27, <1>28, <1>29, <1>30 DEF Next, RunStep

\* UIDs stay apart, through arrivals, expunges and a new numbering.
LEMMA BoxStep == FetchInv /\ [Next]_vars => BoxConsistent'
<1> SUFFICES ASSUME FetchInv, [Next]_vars PROVE BoxConsistent'
  OBVIOUS
<1> USE NameOfAssumption, NoMailAssumption, UidNumbers
<1> USE DEF FetchInv, TypeOK, BoxConsistent, RunConsistent, NewPhases, OldPhases, Marking, Flagging,
            providerVars, storeVars, runVars, historyVars
<1>1. ASSUME NEW m \in Mails, Arrive(m) PROVE BoxConsistent'
  <2>1. uidNext' \in 1 .. Cardinality(Mails) + 1
    BY <1>1, UidFacts DEF Arrive, Uids
  <2> QED BY <1>1, <2>1 DEF Arrive
<1>2. CASE Renumber
  <2>1. PICK b \in [Uids -> InBox \cup {NoMail}] :
          /\ box' = b
          /\ {b[u] : u \in Uids} \ {NoMail} = InBox
          /\ \A u \in Uids : b[u] # NoMail <=> u <= Cardinality(InBox)
          /\ \A u, v \in Uids : u < v /\ b[v] # NoMail => b[u] < b[v]
    BY <1>2 DEF Renumber
  <2>2. uidNext' = Cardinality(InBox) + 1 /\ UNCHANGED <<arrived, flagged, old>>
    BY <1>2 DEF Renumber
  <2>3. InBox \subseteq arrived /\ arrived \subseteq Nat
    BY MailsAssumption DEF InBox
  <2>4. Cardinality(InBox) \in Nat /\ uidNext' \in 1 .. Cardinality(Mails) + 1
    BY <2>2, FolderMail, UidFacts
  <2>5. \A u \in Uids : b[u] # NoMail => u < uidNext' /\ b[u] \in arrived
    <3>1. \A u \in Uids : b[u] # NoMail => u <= Cardinality(InBox) /\ b[u] \in InBox
      BY <2>1
    <3>2. \A u \in Uids : u <= Cardinality(InBox) => u < uidNext'
      <4> DEFINE c == Cardinality(InBox)
      <4>1. c \in Nat /\ uidNext' = c + 1
        BY <2>2, <2>4
      <4> HIDE DEF c
      <4>2. \A u \in Uids : u <= c => u < uidNext'
        BY <4>1
      <4> QED BY <4>2 DEF c
    <3> QED BY <2>3, <3>1, <3>2, Zenon
  <2>6. ASSUME NEW u \in Uids, NEW v \in Uids, b[u] = b[v], b[u] # NoMail PROVE u = v
    <3>1. b[u] \in Nat
      BY <2>3, <2>5, <2>6
    <3>2. ~(u < v) /\ ~(v < u)
      BY <2>1, <2>6, <3>1
    <3> QED BY <3>2
  <2> QED BY <2>1, <2>2, <2>4, <2>5, <2>6
<1>3. CASE Start
  <2>1. UNCHANGED <<box, uidNext, arrived, flagged>>
    BY <1>3 DEF Start
  <2>2. old' \subseteq arrived
    BY <1>3 DEF Start, InBox
  <2> QED BY <2>1, <2>2
<1>4. CASE FlagNew
  BY <1>4 DEF FlagNew, StoreFlag, StepPast
<1>5. CASE EndNew
  BY <1>5 DEF EndNew, Expunge, AfterNew
<1>6. CASE FlagOld
  BY <1>6 DEF FlagOld, StoreFlag, OldDone
<1>7. CASE EndOld
  BY <1>7 DEF EndOld, Expunge
<1>8. ASSUME
      \/ Ask \/ Tick \/ MarkNew \/ NoMailbox \/ SearchOld \/ NextChunk \/ MarkOld \/
         SaveChunk \/ Save \/ Finish
      \/ \E n \in Names : Forget(n)
      \/ \E u \in Uids : NewMissing(u) \/ NewLeft(u) \/ NewKnown(u) \/ NewKept(u) \/ NewRefused(u) \/
                         NewLater(u) \/ OldLeft(u) \/ OldKnown(u) \/ OldBrought(u) \/ OldFull(u)
    PROVE BoxConsistent'
  <2>1. UNCHANGED <<box, uidNext, arrived, flagged, old>>
    BY <1>8 DEF Ask, Forget, Tick, NewMissing, NewLeft, NewKnown, NewKept, NewRefused, NewLater, MarkNew,
       NoMailbox, SearchOld, NextChunk, OldLeft, OldKnown, OldBrought, OldFull, MarkOld,
       SaveChunk, Save, Finish
  <2> QED BY <2>1
<1>9. CASE UNCHANGED vars
  BY <1>9 DEF vars
<1>10. CASE CutOff
  <2>1. UNCHANGED <<uidNext, arrived, old>>
    BY <1>10 DEF CutOff
  <2>2. flagged' \subseteq flagged /\ \A u \in Uids : box'[u] \in {box[u], NoMail}
    BY <1>10 DEF CutOff, Expunge
  <2> QED BY <2>1, <2>2
<1> QED
  BY <1>1, <1>2, <1>3, <1>4, <1>5, <1>6, <1>7, <1>8, <1>9, <1>10 DEF Next, RunStep

\* Each phase leaves to the next what it has in hand.
LEMMA RunShapeStep == FetchInv /\ [Next]_vars => RunConsistent'
<1> SUFFICES ASSUME FetchInv, [Next]_vars PROVE RunConsistent'
  OBVIOUS
<1> USE NameOfAssumption, NoMailAssumption, UidNumbers
<1> USE DEF FetchInv, TypeOK, BoxConsistent, RunConsistent, IsLeast, NewPhases, OldPhases, Marking,
            Flagging, providerVars, storeVars, runVars, historyVars, Folders
<1>1. ASSUME NEW m \in Mails, Arrive(m) PROVE RunConsistent'
  BY <1>1 DEF Arrive
<1>2. CASE Renumber
  BY <1>2 DEF Renumber
<1>3. CASE Start
  <2>1. UNCHANGED <<box, validity, chunk, current, held>> /\ phase = "idle"
    BY <1>3 DEF Start
  <2> QED BY <1>3, <2>1, StartSets DEF AfterNew
<1>4. ASSUME NEW u \in Uids, NewMissing(u) PROVE RunConsistent'
  BY <1>4 DEF NewMissing, AtNew, IsLeast
<1>5. ASSUME NEW u \in Uids, NewLeft(u) PROVE RunConsistent'
  BY <1>5 DEF NewLeft, AtNew, IsLeast, StepPast
<1>6. ASSUME NEW u \in Uids, NewKnown(u) PROVE RunConsistent'
  BY <1>6 DEF NewKnown, AtNew, IsLeast, Offered
<1>7. ASSUME NEW u \in Uids, NewKept(u) PROVE RunConsistent'
  BY <1>7 DEF NewKept, AtNew, IsLeast, Offered, Bring
<1>8. ASSUME NEW u \in Uids, NewRefused(u) PROVE RunConsistent'
  BY <1>8 DEF NewRefused, AtNew, IsLeast, Offered
<1>9. ASSUME NEW u \in Uids, NewLater(u) PROVE RunConsistent'
  BY <1>9 DEF NewLater, AtNew, IsLeast, Offered
<1>10. CASE MarkNew
  BY <1>10 DEF MarkNew
<1>11. CASE FlagNew
  BY <1>11 DEF FlagNew, StoreFlag, StepPast
<1>12. CASE EndNew
  BY <1>12 DEF EndNew, Expunge, AfterNew
<1>13. CASE NoMailbox
  BY <1>13 DEF NoMailbox
<1>14. CASE SearchOld
  BY <1>14 DEF SearchOld, Portion, FoundIn
<1>15. CASE NextChunk
  BY <1>15 DEF NextChunk
<1>16. ASSUME NEW u \in Uids, OldLeft(u) PROVE RunConsistent'
  BY <1>16 DEF OldLeft, AtOld, IsLeast, OldDone
<1>17. ASSUME NEW u \in Uids, OldKnown(u) PROVE RunConsistent'
  BY <1>17 DEF OldKnown, AtOld, IsLeast, Offered, IsHere
<1>18. ASSUME NEW u \in Uids, OldBrought(u) PROVE RunConsistent'
  BY <1>18 DEF OldBrought, AtOld, IsLeast, Offered, Bring, IsHere
<1>19. ASSUME NEW u \in Uids, OldFull(u) PROVE RunConsistent'
  BY <1>19 DEF OldFull, AtOld, IsLeast, Offered
<1>20. CASE MarkOld
  BY <1>20 DEF MarkOld
<1>21. CASE FlagOld
  BY <1>21 DEF FlagOld, StoreFlag, OldDone
<1>22. CASE SaveChunk
  BY <1>22 DEF SaveChunk
<1>23. CASE EndOld
  BY <1>23 DEF EndOld, Expunge
<1>24. CASE Finish
  BY <1>24 DEF Finish, EndRun, Default
<1>25. CASE CutOff
  BY <1>25 DEF CutOff, EndRun, Default
<1>26. ASSUME
      \/ Ask \/ Tick \/ Save
      \/ \E n \in Names : Forget(n)
    PROVE RunConsistent'
  BY <1>26 DEF Ask, Tick, Save, Forget
<1>27. CASE UNCHANGED vars
  BY <1>27 DEF vars
<1> QED
  BY <1>1, <1>2, <1>3, <1>4, <1>5, <1>6, <1>7, <1>8, <1>9, <1>10, <1>11, <1>12, <1>13,
     <1>14, <1>15, <1>16, <1>17, <1>18, <1>19, <1>20, <1>21, <1>22, <1>23, <1>24, <1>25,
     <1>26, <1>27 DEF Next, RunStep

\* Nothing is remembered or touched that is not here or refused.
LEMMA SeenStep == FetchInv /\ [Next]_vars => SeenBrought'
<1> SUFFICES ASSUME FetchInv, [Next]_vars PROVE SeenBrought'
  OBVIOUS
<1> USE NameOfAssumption, NoMailAssumption, UidNumbers
<1> USE DEF FetchInv, TypeOK, BoxConsistent, RunConsistent, SeenBrought, IsBrought, Names, NewPhases,
            OldPhases, Marking, Flagging, providerVars, storeVars, runVars, historyVars
<1>1. ASSUME NEW m \in Mails, Arrive(m) PROVE SeenBrought'
  BY <1>1 DEF Arrive
<1>2. CASE Renumber
  BY <1>2 DEF Renumber
<1>3. CASE Start
  <2>1. UNCHANGED <<seen, copies>>
    BY <1>3 DEF Start
  <2>2. phase' \notin Marking \cup Flagging
    BY <1>3, StartSets DEF AfterNew
  <2> QED BY <2>1, <2>2
<1>4. ASSUME NEW u \in Uids, NewKnown(u) PROVE SeenBrought'
  BY <1>4 DEF NewKnown, AtNew, IsLeast, Offered
<1>5. ASSUME NEW u \in Uids, NewKept(u) PROVE SeenBrought'
  BY <1>5 DEF NewKept, AtNew, IsLeast, Offered, Bring
<1>6. ASSUME NEW u \in Uids, NewRefused(u) PROVE SeenBrought'
  BY <1>6 DEF NewRefused, AtNew, IsLeast, Offered
<1>7. ASSUME NEW u \in Uids, NewLater(u) PROVE SeenBrought'
  BY <1>7 DEF NewLater, AtNew, IsLeast, Offered
<1>8. CASE MarkNew
  BY <1>8 DEF MarkNew
<1>9. CASE FlagNew
  BY <1>9 DEF FlagNew, StoreFlag, StepPast
<1>10. CASE EndNew
  BY <1>10 DEF EndNew, Expunge, AfterNew
<1>11. ASSUME NEW u \in Uids, OldKnown(u) PROVE SeenBrought'
  BY <1>11 DEF OldKnown, AtOld, IsLeast, Offered, IsHere
<1>12. ASSUME NEW u \in Uids, OldBrought(u) PROVE SeenBrought'
  BY <1>12 DEF OldBrought, AtOld, IsLeast, Offered, Bring, IsHere
<1>13. CASE MarkOld
  BY <1>13 DEF MarkOld
<1>14. CASE FlagOld
  BY <1>14 DEF FlagOld, StoreFlag, OldDone
<1>15. CASE EndOld
  BY <1>15 DEF EndOld, Expunge
<1>16. ASSUME
      \/ Ask \/ Tick \/ NoMailbox \/ SearchOld \/ NextChunk \/ SaveChunk \/ Save \/
         Finish \/ CutOff
      \/ \E n \in Names : Forget(n)
      \/ \E u \in Uids : NewMissing(u) \/ NewLeft(u) \/ OldLeft(u) \/ OldFull(u)
    PROVE SeenBrought'
  <2>1. CASE Ask
    BY <2>1 DEF Ask
  <2>2. CASE ~Ask
    <3>1. seen' \subseteq seen /\ UNCHANGED copies
      BY <1>16, <2>2 DEF Forget, Tick, NewMissing, NewLeft, NoMailbox, SearchOld, NextChunk, OldLeft, OldFull,
         SaveChunk, Save, Finish, CutOff
    <3>2. phase' \in {"idle", "new", "old", "chunk", "save", "finish"}
      BY <1>16, <2>2 DEF Forget, Tick, NewMissing, NewLeft, NoMailbox, SearchOld, NextChunk, OldLeft, OldFull,
         SaveChunk, Save, Finish, CutOff, AtNew, AtOld, EndRun
    <3> QED BY <3>1, <3>2
  <2> QED BY <2>1, <2>2
<1>17. CASE UNCHANGED vars
  BY <1>17 DEF vars
<1> QED
  BY <1>1, <1>2, <1>3, <1>4, <1>5, <1>6, <1>7, <1>8, <1>9, <1>10, <1>11, <1>12, <1>13,
     <1>14, <1>15, <1>16, <1>17 DEF Next, RunStep

\* Mail is brought once more only after a run was cut off.
LEMMA CountedStep == FetchInv /\ [Next]_vars => BroughtCounted'
<1> SUFFICES ASSUME FetchInv, [Next]_vars PROVE BroughtCounted'
  OBVIOUS
<1> USE NameOfAssumption, NoMailAssumption, UidNumbers
<1> USE DEF FetchInv, TypeOK, BoxConsistent, RunConsistent, BroughtCounted, Names, NewPhases, OldPhases,
            Marking, Flagging, providerVars, storeVars, runVars, historyVars
<1>1. ASSUME NEW m \in Mails, Arrive(m) PROVE BroughtCounted'
  BY <1>1 DEF Arrive
<1>2. CASE Renumber
  BY <1>2 DEF Renumber
<1>3. CASE Start
  BY <1>3 DEF Start
<1>4. ASSUME NEW u \in Uids, NewKnown(u) PROVE BroughtCounted'
  BY <1>4 DEF NewKnown, AtNew, IsLeast, Offered
<1>5. ASSUME NEW u \in Uids, NewKept(u) PROVE BroughtCounted'
  BY <1>5 DEF NewKept, AtNew, IsLeast, Offered, Bring
<1>6. ASSUME NEW u \in Uids, NewRefused(u) PROVE BroughtCounted'
  BY <1>6 DEF NewRefused, AtNew, IsLeast, Offered
<1>7. ASSUME NEW u \in Uids, NewLater(u) PROVE BroughtCounted'
  BY <1>7 DEF NewLater, AtNew, IsLeast, Offered
<1>8. CASE MarkNew
  BY <1>8 DEF MarkNew
<1>9. CASE FlagNew
  BY <1>9 DEF FlagNew, StoreFlag, StepPast
<1>10. CASE EndNew
  BY <1>10 DEF EndNew, Expunge, AfterNew
<1>11. ASSUME NEW u \in Uids, OldKnown(u) PROVE BroughtCounted'
  BY <1>11 DEF OldKnown, AtOld, IsLeast, Offered, IsHere
<1>12. ASSUME NEW u \in Uids, OldBrought(u) PROVE BroughtCounted'
  BY <1>12 DEF OldBrought, AtOld, IsLeast, Offered, Bring, IsHere
<1>13. CASE MarkOld
  BY <1>13 DEF MarkOld
<1>14. CASE FlagOld
  BY <1>14 DEF FlagOld, StoreFlag, OldDone
<1>15. CASE EndOld
  BY <1>15 DEF EndOld, Expunge
<1>16. CASE CutOff
  BY <1>16 DEF CutOff, EndRun, Default
<1>19. ASSUME NEW n \in Names, Forget(n) PROVE BroughtCounted'
  BY <1>19 DEF Forget
<1>17. ASSUME
      \/ Ask \/ Tick \/ NoMailbox \/ SearchOld \/ NextChunk \/ SaveChunk \/ Save \/
         Finish
      \/ \E u \in Uids : NewMissing(u) \/ NewLeft(u) \/ OldLeft(u) \/ OldFull(u)
    PROVE BroughtCounted'
  <2>1. CASE Ask
    BY <2>1 DEF Ask
  <2>2. CASE ~Ask
    <3>1. UNCHANGED <<seen, copies, unmarked, forgotten>>
      BY <1>17, <2>2 DEF Tick, NewMissing, NewLeft, NoMailbox, SearchOld, NextChunk, OldLeft, OldFull,
         SaveChunk, Save, Finish
    <3>2. phase \notin Marking /\ phase' \notin Marking
      BY <1>17, <2>2 DEF Tick, NewMissing, NewLeft, NoMailbox, SearchOld, NextChunk, OldLeft, OldFull,
         SaveChunk, Save, Finish, AtNew, AtOld, EndRun
    <3> QED BY <3>1, <3>2
  <2> QED BY <2>1, <2>2
<1>18. CASE UNCHANGED vars
  BY <1>18 DEF vars
<1> QED
  BY <1>1, <1>2, <1>3, <1>4, <1>5, <1>6, <1>7, <1>8, <1>9, <1>10, <1>11, <1>12, <1>13,
     <1>14, <1>15, <1>16, <1>17, <1>18, <1>19 DEF Next, RunStep

\* Nothing is deleted that is not here or refused.
LEMMA DeletedStep == FetchInv /\ [Next]_vars => DeletedDealt'
<1> SUFFICES ASSUME FetchInv, [Next]_vars PROVE DeletedDealt'
  OBVIOUS
<1> USE NameOfAssumption, NoMailAssumption, UidNumbers
<1> USE DEF FetchInv, TypeOK, BoxConsistent, RunConsistent, SeenBrought, DeletedDealt, IsBrought, InBox,
            Names, NewPhases, OldPhases, Marking, Flagging, providerVars, storeVars, runVars,
            historyVars
<1>1. ASSUME NEW m \in Mails, Arrive(m) PROVE DeletedDealt'
  BY <1>1 DEF Arrive
<1>2. CASE Renumber
  BY <1>2 DEF Renumber
<1>3. CASE Start
  BY <1>3 DEF Start
<1>4. ASSUME NEW u \in Uids, NewKept(u) PROVE DeletedDealt'
  BY <1>4 DEF NewKept, AtNew, IsLeast, Offered, Bring
<1>5. ASSUME NEW u \in Uids, NewRefused(u) PROVE DeletedDealt'
  BY <1>5 DEF NewRefused, AtNew, IsLeast, Offered
<1>6. CASE MarkNew
  BY <1>6 DEF MarkNew
<1>7. CASE FlagNew
  BY <1>7 DEF FlagNew, StoreFlag, StepPast
<1>8. CASE EndNew
  BY <1>8 DEF EndNew, Expunge, AfterNew
<1>9. ASSUME NEW u \in Uids, OldKnown(u) PROVE DeletedDealt'
  BY <1>9 DEF OldKnown, AtOld, IsLeast, Offered, IsHere
<1>10. ASSUME NEW u \in Uids, OldBrought(u) PROVE DeletedDealt'
  BY <1>10 DEF OldBrought, AtOld, IsLeast, Offered, Bring, IsHere
<1>11. CASE MarkOld
  BY <1>11 DEF MarkOld
<1>12. CASE FlagOld
  BY <1>12 DEF FlagOld, StoreFlag, OldDone
<1>13. CASE EndOld
  BY <1>13 DEF EndOld, Expunge
<1>14. ASSUME
      \/ Ask \/ Tick \/ NoMailbox \/ SearchOld \/ NextChunk \/ SaveChunk \/ Save \/
         Finish
      \/ \E n \in Names : Forget(n)
      \/ \E u \in Uids : NewMissing(u) \/ NewLeft(u) \/ NewKnown(u) \/ NewLater(u) \/ OldLeft(u) \/
                         OldFull(u)
    PROVE DeletedDealt'
  <2>1. UNCHANGED <<arrived, box, flagged, copies, refused>>
    BY <1>14 DEF Ask, Forget, Tick, NewMissing, NewLeft, NewKnown, NewLater, NoMailbox, SearchOld, NextChunk,
       OldLeft, OldFull, SaveChunk, Save, Finish
  <2> QED BY <2>1
<1>15. CASE UNCHANGED vars
  BY <1>15 DEF vars
<1>16. CASE CutOff
  BY <1>16 DEF CutOff, Expunge
<1> QED
  BY <1>1, <1>2, <1>3, <1>4, <1>5, <1>6, <1>7, <1>8, <1>9, <1>10, <1>11, <1>12, <1>13,
     <1>14, <1>15, <1>16 DEF Next, RunStep

-----------------------------------------------------------------------------
(* What is decided stays decided.                                          *)

\* Nothing is ever taken back.
LEMMA HistoryGrows ==
  FetchInv /\ [Next]_vars =>
    /\ refused \subseteq refused' /\ left \subseteq left'
    /\ \A n \in Names : copies[n] > 0 => copies'[n] > 0
<1> SUFFICES ASSUME FetchInv, [Next]_vars
             PROVE  /\ refused \subseteq refused' /\ left \subseteq left'
                    /\ \A n \in Names : copies[n] > 0 => copies'[n] > 0
  OBVIOUS
<1> USE DEF historyVars
<1>0. TypeOK /\ copies \in [Names -> Nat]
  BY DEF FetchInv, TypeOK
<1>1. CASE \E u \in Uids : NewKept(u) \/ OldBrought(u)
  <2>1. PICK n : copies' = [copies EXCEPT ![n] = @ + 1]
    BY <1>1 DEF NewKept, OldBrought, Bring
  <2>2. UNCHANGED <<refused, left>>
    BY <1>1 DEF NewKept, OldBrought
  <2> QED BY <1>0, <2>1, <2>2
<1>2. CASE Start
  BY <1>2 DEF Start
<1>3. CASE \/ \E u \in Uids : NewMissing(u) \/ NewLeft(u) \/ NewRefused(u) \/ OldLeft(u)
           \/ NoMailbox \/ SearchOld
  BY <1>3 DEF NewMissing, NewLeft, NewRefused, OldLeft, NoMailbox, SearchOld
<1>4. CASE \/ \E m \in Mails : Arrive(m)
           \/ Renumber \/ Ask \/ Tick
           \/ \E n \in Names : Forget(n)
           \/ \E u \in Uids : NewKnown(u) \/ NewLater(u) \/ OldKnown(u) \/ OldFull(u)
           \/ MarkNew \/ FlagNew \/ EndNew \/ NextChunk \/ MarkOld \/ FlagOld \/ SaveChunk \/ EndOld
           \/ Save \/ Finish \/ CutOff
  <2>1. UNCHANGED <<copies, refused, left>>
    BY <1>4 DEF Arrive, Renumber, Ask, Tick, Forget, NewKnown, NewLater, OldKnown, OldFull, MarkNew, FlagNew,
       EndNew, NextChunk, MarkOld, FlagOld, SaveChunk, EndOld, Save, Finish, CutOff
  <2> QED BY <2>1
<1>5. CASE UNCHANGED vars
  BY <1>5 DEF vars
<1> QED
  BY <1>1, <1>2, <1>3, <1>4, <1>5 DEF Next, RunStep

\* Within a numbering, UIDs below UIDNEXT keep their mail or lose it.
LEMMA FolderKept ==
  FetchInv /\ [Next]_vars /\ ~Renumber =>
    /\ uidNext <= uidNext' /\ validity' = validity
    /\ \A u \in Uids : u < uidNext => box'[u] \in {box[u], NoMail}
    /\ \A u \in Uids : box'[u] \in old => box'[u] = box[u]
<1> SUFFICES ASSUME FetchInv, [Next]_vars, ~Renumber
             PROVE  /\ uidNext <= uidNext' /\ validity' = validity
                    /\ \A u \in Uids : u < uidNext => box'[u] \in {box[u], NoMail}
                    /\ \A u \in Uids : box'[u] \in old => box'[u] = box[u]
  OBVIOUS
<1>0. /\ box \in [Uids -> Mails \cup {NoMail}] /\ uidNext \in Nat
      /\ old \subseteq arrived /\ NoMail \notin old
  BY NoMailAssumption DEF FetchInv, TypeOK, BoxConsistent
<1>1. ASSUME NEW m \in Mails, Arrive(m)
      PROVE  /\ uidNext <= uidNext' /\ validity' = validity
             /\ \A u \in Uids : u < uidNext => box'[u] \in {box[u], NoMail}
             /\ \A u \in Uids : box'[u] \in old => box'[u] = box[u]
  BY <1>0, <1>1, UidNumbers DEF Arrive
<1>2. CASE EndNew \/ EndOld \/ CutOff
  <2>1. \A u \in Uids : box'[u] \in {box[u], NoMail}
    BY <1>0, <1>2 DEF EndNew, EndOld, CutOff, Expunge
  <2>2. UNCHANGED <<uidNext, validity>>
    BY <1>2 DEF EndNew, EndOld, CutOff
  <2> QED BY <1>0, <2>1, <2>2
<1>3. CASE \/ Ask \/ Tick \/ Start
           \/ \E n \in Names : Forget(n)
           \/ \E u \in Uids : \/ NewMissing(u) \/ NewLeft(u) \/ NewKnown(u) \/ NewKept(u)
                              \/ NewRefused(u) \/ NewLater(u)
           \/ MarkNew \/ FlagNew \/ NoMailbox \/ SearchOld \/ NextChunk
           \/ \E u \in Uids : OldLeft(u) \/ OldKnown(u) \/ OldBrought(u) \/ OldFull(u)
           \/ MarkOld \/ FlagOld \/ SaveChunk \/ Save \/ Finish
  <2>1. UNCHANGED <<box, uidNext, validity>>
    BY <1>3 DEF Ask, Tick, Forget, Start, NewMissing, NewLeft, NewKnown, NewKept, NewRefused, NewLater, MarkNew,
       FlagNew, NoMailbox, SearchOld, NextChunk, OldLeft, OldKnown, OldBrought, OldFull, MarkOld, FlagOld,
       SaveChunk, Save, Finish, providerVars
  <2> QED BY <1>0, <2>1
<1>4. CASE UNCHANGED vars
  BY <1>0, <1>4 DEF vars, providerVars
<1> QED
  BY <1>1, <1>2, <1>3, <1>4 DEF Next, RunStep

\* `old` is set on the first run, and emptied when a run meets a new numbering.
LEMMA OldKept ==
  [Next]_vars =>
    /\ Start \/ old' = old
    /\ Current => old' = old
<1> SUFFICES ASSUME [Next]_vars
             PROVE  /\ Start \/ old' = old
                    /\ Current => old' = old
  OBVIOUS
<1>1. CASE Start
  BY <1>1 DEF Start, Current, Renumbered
<1>2. CASE ~Start
  BY <1>2 DEF Next, RunStep, Arrive, Renumber, Ask, Tick, Forget, NewMissing, NewLeft, NewKnown, NewKept,
     NewRefused,
     NewLater, MarkNew, FlagNew, EndNew, NoMailbox, SearchOld, NextChunk, OldLeft, OldKnown, OldBrought,
     OldFull, MarkOld, FlagOld, SaveChunk, EndOld, Save, Finish, CutOff, vars, historyVars
<1> QED BY <1>1, <1>2

\* So within a numbering what is decided stays so.
LEMMA DecidedKept ==
  FetchInv /\ [Next]_vars /\ ~Renumber =>
    /\ uidNext <= uidNext' /\ validity' = validity
    /\ Current \/ ~Start => \A u \in Decided : u < uidNext => u \in Decided'
    /\ \A u \in Settled : u < uidNext => u \in Settled'
    /\ Current \/ ~Start => Older' \subseteq Older
<1> SUFFICES ASSUME FetchInv, [Next]_vars, ~Renumber
             PROVE  /\ uidNext <= uidNext' /\ validity' = validity
                    /\ Current \/ ~Start => \A u \in Decided : u < uidNext => u \in Decided'
                    /\ \A u \in Settled : u < uidNext => u \in Settled'
                    /\ Current \/ ~Start => Older' \subseteq Older
  OBVIOUS
<1>0. box \in [Uids -> Mails \cup {NoMail}] /\ \A m \in Mails : NameOf[m] \in Names
  BY FolderMail DEF FetchInv, TypeOK
<1>1. \A m \in Mails : Dealt(m) => Dealt(m)'
  BY <1>0, HistoryGrows DEF Dealt, IsBrought
<1>2. ASSUME NEW u \in Uids, u < uidNext, Current \/ ~Start, u \in Decided PROVE u \in Decided'
  BY <1>0, <1>1, <1>2, FolderKept, OldKept DEF Decided
<1>3. ASSUME NEW u \in Uids, u < uidNext, u \in Settled PROVE u \in Settled'
  BY <1>0, <1>1, <1>3, FolderKept DEF Settled
<1>4. ASSUME Current \/ ~Start PROVE Older' \subseteq Older
  BY <1>4, FolderKept, OldKept DEF Older
<1> QED BY <1>2, <1>3, <1>4, FolderKept DEF Decided, Settled

-----------------------------------------------------------------------------
(* What a row says is true.                                                *)

\* A run starts from a row that is true of the folder.
LEMMA StartRowTrue ==
  ASSUME FetchInv, Start
  PROVE  RowTrue(state)'
<1>0. TypeOK /\ BoxConsistent /\ uidNext \in Nat /\ validity \in Nat /\ asked \in Nat
  BY DEF FetchInv, TypeOK
<1>1. /\ state' = StartRow /\ StartRow \in Folders
      /\ old' = IF ~saved.known THEN InBox ELSE IF Current THEN old ELSE {}
  BY <1>0, StartSets
<1>a. UNCHANGED <<box, uidNext, validity>>
  BY DEF Start, providerVars
<1>2. Selected \in Folders
  BY <1>0, SelectedRow
<1> DEFINE r == WithRequest(Selected)
<1>3. /\ r \in Folders /\ r.lastUid = Selected.lastUid /\ r.heldUid = Selected.heldUid
      /\ r.heldFor = Selected.heldFor
      /\ r.until = Selected.until \/ r.until = Selected.lastUid
  BY <1>0, <1>2, RequestedRow DEF WithRequest, Folders
<1>4. CASE ~saved.known
  <2>1. Decided' = Uids
    BY <1>1, <1>a, <1>4 DEF Decided, InBox
  <2>2. Selected.lastUid = uidNext - 1 /\ Selected.heldUid = 0 /\ Selected.until = -1
    BY <1>4 DEF Selected, Renumbered, Default
  <2>3. 0 < uidNext /\ uidNext - 1 < uidNext
    BY <1>0, UidFacts DEF BoxConsistent
  <2>4. state'.lastUid = uidNext - 1 /\ state'.heldUid = 0 /\ state'.until < uidNext'
    BY <1>0, <1>1, <1>a, <1>3, <1>4, <2>2, <2>3 DEF StartRow
  <2>5. \A u \in Older' : u <= uidNext - 1
    BY <1>0, <1>1, <1>a, <1>4, UidNumbers DEF Older, InBox, BoxConsistent
  <2> QED BY <1>0, <1>a, <2>1, <2>3, <2>4, <2>5 DEF RowTrue
<1>5. CASE saved.known /\ saved.validity # validity
  <2>1. Selected.lastUid = 0 /\ Selected.heldUid = 0 /\ Selected.until = -1
    BY <1>5 DEF Selected, Renumbered, Default
  <2>2. StartRow = r
    BY <1>3, <1>5, <2>1 DEF StartRow, Unheld, HoldExpired
  <2>3. 0 < uidNext
    BY <1>0, UidFacts DEF BoxConsistent
  <2>4. state'.lastUid = 0 /\ state'.heldUid = 0 /\ state'.until < uidNext'
    BY <1>0, <1>1, <1>a, <1>3, <2>1, <2>2, <2>3
  <2>5. Older' = {}
    BY <1>1, <1>5 DEF Older, Current
  <2> QED BY <1>0, <1>a, <2>3, <2>4, <2>5, UidNumbers DEF RowTrue
<1>6. CASE Current
  <2>1. Selected = saved /\ RowTrue(saved)
    BY <1>6 DEF Selected, Renumbered, Current, FetchInv, RowsTrue
  <2>2. Older' \subseteq Older /\ \A u \in Decided : u < uidNext => u \in Decided'
    <3>1. ~Renumber
      BY <1>0, <1>a DEF Renumber
    <3> QED BY <1>6, <3>1, DecidedKept DEF Current, Next, RunStep
  <2>3. CASE ~HoldExpired(r)
    <3>1. StartRow = r
      BY <1>6, <2>3 DEF StartRow, Unheld, Current
    <3> QED BY <1>0, <1>1, <1>a, <1>2, <1>3, <2>1, <2>2, <3>1, UidNumbers DEF RowTrue, Folders
  <2>4. CASE HoldExpired(r)
    <3>1. /\ StartRow.lastUid = Larger(r.lastUid, r.heldUid)
          /\ StartRow.heldUid = 0 /\ StartRow.until = r.until
          /\ r.heldUid > 0
      BY <1>3, <1>6, <2>4 DEF StartRow, Unheld, HoldExpired, Folders, Current
    <3>2. MailsAt({saved.heldUid}) \subseteq left'
      BY <1>3, <1>6, <2>1, <2>4 DEF Start, HoldExpired, Current
    <3>3. saved.heldUid \in Uids => saved.heldUid \in Decided'
      BY <1>0, <3>2 DEF MailsAt, Decided, Start, providerVars, Dealt, TypeOK
    <3>4. /\ \A u \in Uids : u <= saved.lastUid => u \in Decided
          /\ \A u \in Uids : u < saved.heldUid => u \in Decided
          /\ saved.lastUid < uidNext /\ saved.heldUid < uidNext /\ saved.until < uidNext
          /\ \A u \in Older : u <= saved.lastUid /\ u \in Nat
      BY UidNumbers, <1>3, <2>1, <3>1 DEF RowTrue, Older
    <3>5. ASSUME NEW u \in Uids, u <= StartRow.lastUid PROVE u \in Decided'
      BY <1>0, <1>2, <1>3, <2>1, <2>2, <3>1, <3>3, <3>4, <3>5, UidNumbers DEF Larger, Folders
    <3>6. StartRow.lastUid < uidNext /\ StartRow.until < uidNext /\ 0 < uidNext
      BY <1>0, <1>2, <1>3, <2>1, <3>1, <3>4 DEF Larger, Folders
    <3>7. \A u \in Older' : u <= StartRow.lastUid
      BY <1>2, <1>3, <2>1, <2>2, <3>1, <3>4 DEF Larger, Folders
    <3> QED BY <1>1, <1>a, <3>1, <3>5, <3>6, <3>7 DEF RowTrue
  <2> QED BY <2>3, <2>4
<1> QED BY <1>4, <1>5, <1>6 DEF Current

\* A row that is true stays true within a numbering.
LEMMA RowsTrueStep == FetchInv /\ [Next]_vars => RowsTrue'
<1> SUFFICES ASSUME FetchInv, [Next]_vars PROVE RowsTrue'
  OBVIOUS
<1>0. /\ TypeOK /\ BoxConsistent /\ RunConsistent /\ RowsTrue /\ NewTaken
      /\ saved \in Folders /\ state \in Folders
      /\ uidNext \in Nat /\ validity \in Nat /\ uidNext' \in Nat
      /\ RowTypes' /\ NumberTypes'
  BY TypeStep DEF FetchInv, TypeOK, RowTypes, NumberTypes
<1> USE UidNumbers
<1>1. CASE Renumber
  <2>1. validity' = validity + 1 /\ saved' = saved /\ phase' = "idle"
    BY <1>1 DEF Renumber, storeVars, runVars
  <2> QED BY <1>0, <2>1 DEF RowsTrue, Current, Folders
<1> SUFFICES ASSUME ~Renumber PROVE RowsTrue'
  BY <1>1
<1>2. uidNext <= uidNext' /\ validity' = validity
  BY DecidedKept
<1>3. Current \/ ~Start =>
        Older' \subseteq Older /\ \A u \in Decided : u < uidNext => u \in Decided'
  BY DecidedKept
<1>4. CASE Start
  <2>1. RowTrue(state)'
    BY <1>4, StartRowTrue
  <2>2. saved' = saved
    BY <1>4 DEF Start, storeVars
  <2> QED BY <1>0, <1>2, <1>3, <2>1, <2>2 DEF RowsTrue, RowTrue, Current, Folders
<1> SUFFICES ASSUME ~Start PROVE RowsTrue'
  BY <1>4
<1>5. Older' \subseteq Older /\ \A u \in Decided : u < uidNext => u \in Decided'
  BY <1>3
<1>o. \A u \in Older : u \in Nat
  BY DEF Older
<1>6. ASSUME NEW v \in Uids, v < uidNext, phase # "idle", phase' # "idle", saved' = saved,
             state' = [state EXCEPT !.lastUid = Larger(@, v)],
             \A u \in Uids : u <= v => u \in Decided'
      PROVE  RowsTrue'
  <2>1. /\ state'.lastUid = Larger(state.lastUid, v)
        /\ state'.heldUid = state.heldUid /\ state'.until = state.until
    BY <1>0, <1>6 DEF Folders
  <2>2. RowTrue(state) /\ state.lastUid \in Nat /\ state.heldUid \in Nat /\ state.until \in Int
    BY <1>0, <1>6 DEF RowsTrue, Folders
  <2>3. RowTrue(state)'
    BY <1>0, <1>2, <1>5, <1>o, <1>6, <2>1, <2>2 DEF RowTrue, Larger
  <2>4. Current' => RowTrue(saved)'
    BY <1>0, <1>2, <1>5, <1>o, <1>6 DEF RowsTrue, RowTrue, Current, Folders
  <2> QED BY <1>0, <1>2, <1>6, <2>3, <2>4 DEF RowsTrue
<1>7. ASSUME NEW u \in Uids, NewLeft(u) PROVE RowsTrue'
  <2>1. /\ phase = "new" /\ phase' = "new" /\ u \in todo /\ \A v \in todo : u <= v
        /\ UNCHANGED <<saved, box, old>> /\ box[u] \in left'
        /\ state' = [state EXCEPT !.lastUid = Larger(@, u)]
    BY <1>7 DEF NewLeft, AtNew, IsLeast, StepPast, storeVars, providerVars
  <2>2. held = 0 /\ current = 0 /\ u < uidNext
    BY <1>0, <2>1 DEF RunConsistent, BoxConsistent, NewPhases, Marking, Flagging
  <2>3. u \in Decided'
    BY <2>1 DEF Decided, Dealt
  <2>4. \A v \in Uids : v <= u => v \in Decided'
    BY <1>0, <1>5, <1>o, <2>1, <2>2, <2>3 DEF NewTaken, NewPhases
  <2> QED BY <1>6, <2>1, <2>2, <2>4
<1>8. CASE FlagNew
  <2>1. /\ phase = "flagNew" /\ phase' = "new"
        /\ UNCHANGED <<saved, box, old, copies, refused>>
        /\ state' = [state EXCEPT !.lastUid = Larger(@, current)]
    BY <1>8 DEF FlagNew, StepPast, storeVars, historyVars
  <2>2. /\ held = 0 /\ current \in Uids /\ current < uidNext
        /\ \A v \in todo : current < v
    BY <1>0, <2>1 DEF RunConsistent, BoxConsistent, NewPhases, Marking, Flagging
  <2>3. current \in Decided'
    BY <2>1, <2>2 DEF FetchInv, SeenBrought, Flagging, Decided, Dealt, IsBrought
  <2>4. \A v \in Uids : v <= current => v \in Decided'
    BY <1>0, <1>5, <1>o, <2>1, <2>2, <2>3 DEF NewTaken, NewPhases, Start, TypeOK
  <2> QED BY <1>6, <2>1, <2>2, <2>4
<1>9. CASE EndNew
  <2>1. /\ phase = "new" /\ phase' = AfterNew(state) /\ saved' = saved /\ todo = {}
        /\ state \in Folders
    BY <1>0, <1>9 DEF EndNew, storeVars
  <2>2. PICK past \in {state.lastUid} \cup oversize :
          /\ IsGreatest(past, {state.lastUid} \cup IF held = 0 THEN oversize ELSE {})
          /\ state' = [state EXCEPT !.lastUid = past,
                                    !.heldUid = held,
                                    !.heldFor = IF held # 0 /\ held = state.heldUid THEN @ ELSE 0]
    BY <1>9 DEF EndNew
  <2>3. /\ state'.lastUid = past /\ state'.heldUid = held /\ state'.until = state.until
    BY <2>1, <2>2 DEF Folders
  <2>4. /\ current = 0 /\ held < uidNext /\ RowTrue(state)
        /\ \A v \in oversize : v \in Uids /\ v < uidNext
        /\ state.lastUid \in Nat /\ state.until \in Int /\ held \in Nat
    BY <1>0, <2>1, UidFacts DEF RunConsistent, BoxConsistent, NewPhases, Marking, Flagging, TypeOK,
       RowsTrue, Folders
  <2>5. past < uidNext /\ past \in Nat /\ state.lastUid <= past
    BY <2>2, <2>4 DEF RowTrue, IsGreatest
  <2>6. ASSUME NEW u \in Uids, u <= past PROVE u \in Decided'
    <3>1. CASE past = state.lastUid
      BY <1>0, <1>5, <1>o, <2>1, <2>4, <2>6, <3>1 DEF RowTrue
    <3>2. CASE past # state.lastUid
      <4>1. held = 0 /\ past \in oversize
        BY <2>2, <3>2 DEF IsGreatest
      <4>2. u \in Decided
        BY <1>0, <2>1, <2>4, <2>6, <4>1 DEF NewTaken, NewPhases
      <4> QED BY <1>0, <1>5, <1>o, <2>1, <2>5, <2>6, <4>2
    <3> QED BY <3>1, <3>2
  <2>7. ASSUME held > 0, NEW u \in Uids, u < held PROVE u \in Decided'
    BY <1>0, <1>5, <1>o, <2>1, <2>4, <2>7 DEF NewTaken, NewPhases
  <2>8. RowTrue(state)'
    BY <1>0, <1>2, <1>5, <1>o, <2>3, <2>4, <2>5, <2>6, <2>7 DEF RowTrue
  <2>9. Current' => RowTrue(saved)'
    BY <1>0, <1>2, <1>5, <1>o, <2>1 DEF RowsTrue, RowTrue, Current, Folders
  <2> QED BY <1>0, <1>2, <2>1, <2>8, <2>9 DEF RowsTrue
<1>10. CASE SaveChunk \/ Save
  <2>1. phase # "idle" /\ saved' = state /\ state' = state
    BY <1>10 DEF SaveChunk, Save
  <2> QED BY <1>0, <1>2, <1>5, <1>o, <2>1 DEF RowsTrue, RowTrue, Folders, RunConsistent
<1>11. CASE \/ NoMailbox
            \/ \E u \in Uids : OldLeft(u)
            \/ FlagOld \/ EndOld
  <2>1. /\ phase # "idle" /\ saved' = saved
        /\ state'.lastUid = state.lastUid /\ state'.heldUid = state.heldUid
        /\ state'.until \in {state.until, -1}
        /\ RowTrue(state) /\ state.until \in Int /\ state.lastUid \in Nat /\ state.heldUid \in Nat
    <3>1. phase # "idle" /\ saved' = saved
      BY <1>11 DEF NoMailbox, OldLeft, AtOld, FlagOld, EndOld, storeVars
    <3>2. PICK w \in {state.until, -1} :
            (\E n : state' = [state EXCEPT !.next = n]) \/ state' = [state EXCEPT !.until = w]
      BY <1>11 DEF NoMailbox, OldLeft, OldDone, FlagOld, EndOld
    <3>3. /\ state'.lastUid = state.lastUid /\ state'.heldUid = state.heldUid
          /\ state'.until \in {state.until, -1}
      BY <1>0, <3>2 DEF Folders
    <3> QED BY <1>0, <3>1, <3>3 DEF RowsTrue, Folders
  <2>2. RowTrue(state)'
    BY <1>0, <1>2, <1>5, <1>o, <2>1 DEF RowTrue
  <2> QED BY <1>0, <1>2, <1>5, <1>o, <2>1, <2>2 DEF RowsTrue, RowTrue, Current, Folders
<1>12. CASE Tick
  <2>1. /\ phase = "idle" /\ phase' = "idle"
        /\ saved'.known = saved.known /\ saved'.validity = saved.validity
        /\ saved'.lastUid = saved.lastUid /\ saved'.heldUid = saved.heldUid
        /\ saved'.until = saved.until
    BY <1>0, <1>12 DEF Tick, Folders, runVars
  <2> QED BY <1>0, <1>2, <1>5, <2>1 DEF RowsTrue, RowTrue, Current, Folders
<1>13. CASE Finish \/ CutOff
  <2>1. phase # "idle" /\ phase' = "idle" /\ saved' = saved
    BY <1>13 DEF Finish, CutOff, EndRun, storeVars
  <2> QED BY <1>0, <1>2, <1>5, <1>o, <2>1 DEF RowsTrue, RowTrue, Current, Folders
<1>14. CASE \/ \E m \in Mails : Arrive(m)
            \/ Ask
            \/ \E n \in Names : Forget(n)
            \/ \E u \in Uids : \/ NewMissing(u) \/ NewKnown(u) \/ NewKept(u)
                               \/ NewRefused(u) \/ NewLater(u)
            \/ MarkNew \/ SearchOld \/ NextChunk
            \/ \E u \in Uids : OldKnown(u) \/ OldBrought(u) \/ OldFull(u)
            \/ MarkOld
            \/ UNCHANGED vars
  <2>1. UNCHANGED <<saved, state>> /\ (phase = "idle" => phase' = "idle")
    BY <1>14 DEF Arrive, Ask, Forget, NewMissing, NewKnown, NewKept, NewRefused, NewLater, MarkNew, SearchOld,
       NextChunk, OldKnown, OldBrought, OldFull, MarkOld, vars, storeVars, runVars, AtNew, AtOld
  <2> QED BY <1>0, <1>2, <1>5, <2>1 DEF RowsTrue, RowTrue, Current, Folders
<1> QED
  BY <1>7, <1>8, <1>9, <1>10, <1>11, <1>12, <1>13, <1>14 DEF Next, RunStep

-----------------------------------------------------------------------------
(* No mail is passed over.                                                 *)

\* What a run finds is the next part of what is new.
LEMMA StartNewTaken ==
  ASSUME FetchInv, Start
  PROVE  NewTaken'
<1>0. /\ TypeOK /\ BoxConsistent /\ phase = "idle"
      /\ current = 0 /\ held = 0 /\ uidNext \in Nat
      /\ current' = 0 /\ held' = 0
      /\ UNCHANGED <<box, uidNext, current, held>>
  BY DEF FetchInv, RunConsistent, NewPhases, OldPhases, Marking, Flagging, Start, providerVars, TypeOK
<1>1. RowTrue(state)' /\ state' = StartRow /\ StartRow \in Folders
  BY <1>0, StartRowTrue, StartSets
<1>2. /\ todo' \cup oversize' = StartFinds /\ MailsAt(oversize') \subseteq left'
      /\ todo' \subseteq Uids /\ oversize' \subseteq Uids
  BY <1>0, StartSets
<1> SUFFICES ASSUME NEW v \in StartFinds, NEW u \in Uids, u <= v
             PROVE  u \in Decided' \cup todo'
  BY <1>0, <1>2, UidNumbers DEF NewTaken
<1>3. v \in Uids /\ u \in Nat /\ v \in Nat /\ StartRow.lastUid \in Nat
  BY <1>1, <1>2, UidNumbers DEF Folders
<1>4. CASE u <= StartRow.lastUid
  BY <1>1, <1>4 DEF RowTrue
<1>5. CASE box[u] = NoMail
  BY <1>0, <1>5 DEF Decided
<1>6. CASE ~(u <= StartRow.lastUid) /\ box[u] # NoMail
  <2> DEFINE all == FoundIn(StartRow.lastUid + 1, Cardinality(Mails))
  <2>1. StartFinds = Portion(all) /\ all \in SUBSET Uids
    BY DEF StartFinds, FoundIn
  <2>2. u \in all
    BY <1>3, <1>6, UidFacts DEF FoundIn, Uids
  <2>3. u \in StartFinds
    BY <1>3, <2>1, <2>2, PortionFirst
  <2>4. u \in oversize' => u \in Decided'
    BY <1>0, <1>2, <1>6 DEF MailsAt, Decided, Dealt
  <2> QED BY <1>2, <2>3, <2>4
<1> QED BY <1>4, <1>5, <1>6

\* New mail is taken one after another.
LEMMA NewTakenStep == FetchInv /\ [Next]_vars => NewTaken'
<1> SUFFICES ASSUME FetchInv, [Next]_vars PROVE NewTaken'
  OBVIOUS
<1>0. /\ TypeOK /\ BoxConsistent /\ RunConsistent /\ NewTaken
      /\ uidNext \in Nat /\ current \in Nat /\ held \in Nat
      /\ todo \subseteq Uids /\ oversize \subseteq Uids
  BY DEF FetchInv, TypeOK
<1> USE UidNumbers DEF NewPhases, Marking, Flagging
<1>1. CASE Start
  BY <1>1, StartNewTaken
<1>2. CASE Renumber
  BY <1>2 DEF NewTaken, Renumber, runVars
<1> SUFFICES ASSUME ~Start, ~Renumber PROVE NewTaken'
  BY <1>1, <1>2
<1>3. \A u \in Decided : u < uidNext => u \in Decided'
  BY DecidedKept
<1>4. phase \in NewPhases => \A v \in todo \cup oversize : v \in Uids /\ v < uidNext
  BY <1>0 DEF RunConsistent, BoxConsistent
<1>5. phase \in NewPhases => current < uidNext /\ held < uidNext
  BY <1>0, UidFacts DEF RunConsistent, BoxConsistent
<1>6. ASSUME NEW u \in Uids, NewMissing(u) \/ NewLeft(u) PROVE NewTaken'
  <2>1. /\ phase = "new" /\ phase' = "new" /\ u \in todo
        /\ todo' = todo \ {u} /\ UNCHANGED <<oversize, current, held, box>>
        /\ MailsAt({u}) \subseteq left'
    BY <1>6 DEF NewMissing, NewLeft, AtNew, IsLeast, providerVars, MailsAt
  <2>2. u \in Decided'
    BY <2>1 DEF Decided, Dealt, MailsAt
  <2>3. held = 0
    BY <1>0, <2>1 DEF RunConsistent
  <2> QED BY <1>0, <1>3, <1>4, <1>5, <2>1, <2>2, <2>3 DEF NewTaken
<1>7. ASSUME NEW u \in Uids, NewKnown(u) \/ NewKept(u) \/ NewRefused(u) PROVE NewTaken'
  <2>1. /\ phase = "new" /\ u \in todo
        /\ todo' = todo \ {u} /\ UNCHANGED <<oversize, held>> /\ current' = u
    BY <1>7 DEF NewKnown, NewKept, NewRefused, AtNew, IsLeast
  <2>2. held = 0 /\ current = 0
    BY <1>0, <2>1 DEF RunConsistent
  <2> QED BY <1>0, <1>3, <1>4, <2>1, <2>2 DEF NewTaken
<1>8. ASSUME NEW u \in Uids, NewLater(u) PROVE NewTaken'
  <2>1. /\ phase = "new" /\ u \in todo /\ \A v \in todo : u <= v
        /\ held' = u
    BY <1>8 DEF NewLater, AtNew, IsLeast
  <2>2. held = 0 /\ current = 0
    BY <1>0, <2>1 DEF RunConsistent
  <2> QED BY <1>0, <1>3, <1>4, <2>1, <2>2 DEF NewTaken
<1>9. CASE FlagNew
  <2>1. /\ phase = "flagNew" /\ current' = 0
        /\ UNCHANGED <<todo, oversize, held, box, old, copies, refused>>
    BY <1>9 DEF FlagNew, historyVars
  <2>2. current \in Decided'
    BY <1>0, <2>1 DEF FetchInv, RunConsistent, SeenBrought, Decided, Dealt, IsBrought
  <2>3. held = 0
    BY <1>0, <2>1 DEF RunConsistent
  <2> QED BY <1>0, <1>3, <1>4, <2>1, <2>2, <2>3 DEF NewTaken
<1>10. CASE \/ \E m \in Mails : Arrive(m)
            \/ Ask \/ Tick \/ MarkNew
            \/ \E n \in Names : Forget(n)
            \/ UNCHANGED vars
  <2>1. UNCHANGED <<todo, oversize, held, current>> /\ (phase' \in NewPhases <=> phase \in NewPhases)
    BY <1>10 DEF Arrive, Ask, Tick, Forget, MarkNew, vars, runVars
  <2> QED BY <1>0, <1>3, <1>4, <1>5, <2>1 DEF NewTaken
<1>11. CASE \/ EndNew \/ NoMailbox \/ SearchOld \/ NextChunk
            \/ \E u \in Uids : OldLeft(u) \/ OldKnown(u) \/ OldBrought(u) \/ OldFull(u)
            \/ MarkOld \/ FlagOld \/ SaveChunk \/ EndOld
            \/ Save \/ Finish \/ CutOff
  <2>1. phase' \notin NewPhases
    BY <1>11 DEF EndNew, AfterNew, NoMailbox, SearchOld, NextChunk, OldLeft, OldKnown, OldBrought, OldFull,
       AtOld, MarkOld, FlagOld, SaveChunk, EndOld, Save, Finish, CutOff, EndRun
  <2> QED BY <2>1 DEF NewTaken
<1> QED
  BY <1>6, <1>7, <1>8, <1>9, <1>10, <1>11 DEF Next, RunStep

-----------------------------------------------------------------------------
(* The old mail.                                                           *)

\* A message of the portion is done with: all that was asked for up to it is decided,
\* and the rest is to do as before.
LEMMA OldOneDone ==
  ASSUME FetchInv, [Next]_vars, ~Start, ~Renumber,
         phase \in OldPhases,
         NEW u \in chunk, IsLeast(u, chunk), u \in Settled',
         UNCHANGED <<saved, through>>,
         OldDone(u)
  PROVE  RowsThrough' /\ OldTaken'
<1>0. /\ TypeOK /\ BoxConsistent /\ RunConsistent /\ RowsTrue /\ RowsThrough /\ OldTaken
      /\ saved \in Folders /\ state \in Folders /\ u \in Nat /\ u \in Uids
      /\ uidNext \in Nat /\ todo \subseteq Uids /\ chunk \subseteq todo
  BY UidNumbers DEF FetchInv, TypeOK, RunConsistent
<1>1. /\ todo' = todo \ {u}
      /\ state'.next = u + 1 /\ state'.until = state.until /\ state'.backlogAt = state.backlogAt
  BY <1>0 DEF OldDone, Folders
<1>2. /\ \A v \in Settled : v < uidNext => v \in Settled'
      /\ Older' \subseteq Older /\ validity' = validity
  BY DecidedKept
<1>3. /\ state.until \in Nat /\ state.next \in Nat /\ state.until < uidNext
      /\ phase # "idle" /\ RowThrough(state) /\ state.until # -1
  BY <1>0 DEF RunConsistent, RowsTrue, RowTrue, RowsThrough, OldPhases, Folders
<1>4. \A v \in todo : v < u => FALSE
  BY <1>0, UidNumbers DEF RunConsistent, IsLeast
<1>5. ASSUME NEW v \in Uids, state.next <= v, v <= state.until, v <= u PROVE v \in Settled'
  BY <1>0, <1>2, <1>3, <1>4, <1>5, UidNumbers DEF OldTaken
<1>6. RowThrough(state)'
  <2> SUFFICES ASSUME state.backlogAt # 0, NEW v \in Older'
               PROVE  v <= state.until /\ (v < u + 1 => v \in Settled')
    BY <1>1, <1>3 DEF RowThrough
  <2>1. v \in Older /\ v \in Uids /\ v \in Nat
    BY <1>2, UidNumbers DEF Older
  <2>2. v <= state.until /\ (v < state.next => v \in Settled)
    BY <1>3, <2>1 DEF RowThrough
  <2> QED BY <1>0, <1>2, <1>3, <1>5, <2>1, <2>2
<1>7. Current' => RowThrough(saved)'
  <2>1. Current' => RowThrough(saved) /\ saved.until < uidNext
    BY <1>0, <1>2 DEF RowsThrough, RowsTrue, RowTrue, Current
  <2>2. \A v \in Older : v \in Uids /\ v < uidNext
    BY <1>0, NoMailAssumption DEF Older, BoxConsistent, TypeOK
  <2> QED BY <1>0, <1>2, <2>1, <2>2 DEF RowThrough, Current
<1>8. OldTaken'
  <2> SUFFICES ASSUME NEW v \in Uids, u + 1 <= v, v <= state.until, through \/ \E w \in todo' : v <= w
               PROVE  v \in todo' \cup Settled'
    BY <1>1 DEF OldTaken
  <2>1. v \in todo \cup Settled
    <3>1. through \/ \E w \in todo : v <= w
      BY <1>1
    <3>2. state.next <= v
      BY <1>0, <1>3, UidNumbers DEF RunConsistent
    <3> QED BY <1>0, <3>1, <3>2 DEF OldTaken
  <2> QED BY <1>0, <1>1, <1>2, <1>3, <2>1, UidNumbers
<1> QED BY <1>6, <1>7, <1>8 DEF RowsThrough

\* A message that is left, or is here and touched, is settled.
LEMMA OldLeftDone ==
  ASSUME FetchInv, [Next]_vars, ~Start, ~Renumber, (\E u \in Uids : OldLeft(u)) \/ FlagOld
  PROVE  RowsThrough' /\ OldTaken'
<1>1. ASSUME NEW u \in Uids, OldLeft(u) PROVE RowsThrough' /\ OldTaken'
  <2>1. /\ phase \in OldPhases /\ u \in chunk /\ IsLeast(u, chunk)
        /\ UNCHANGED <<saved, through>> /\ OldDone(u)
    BY <1>1 DEF OldLeft, AtOld, IsLeast, OldPhases, storeVars
  <2>2. u \in Settled'
    BY <1>1 DEF OldLeft, Settled, Dealt, providerVars
  <2> QED BY <2>1, <2>2, OldOneDone
<1>2. CASE FlagOld
  <2>1. /\ phase \in OldPhases /\ phase = "flagOld"
        /\ UNCHANGED <<saved, through>> /\ OldDone(current)
        /\ UNCHANGED <<box, copies, refused>>
    BY <1>2 DEF FlagOld, OldPhases, storeVars, historyVars
  <2>2. current \in chunk /\ IsLeast(current, chunk) /\ current \in Uids
    BY <2>1 DEF FetchInv, RunConsistent, IsLeast, Marking, Flagging
  <2>3. IsBrought(box[current]) \/ box[current] \in refused
    BY <2>1 DEF FetchInv, SeenBrought, Flagging
  <2>4. \A u \in Uids : IsBrought(box[u]) \/ box[u] \in refused => u \in Settled'
    BY <2>1 DEF Settled, Dealt, IsBrought
  <2>5. ASSUME NEW u \in chunk, u = current PROVE RowsThrough' /\ OldTaken'
    <3>1. IsLeast(u, chunk) /\ u \in Settled' /\ OldDone(u)
      BY <2>1, <2>2, <2>3, <2>4, <2>5
    <3> QED BY <2>1, <3>1, OldOneDone
  <2> QED BY <2>2, <2>5
<1> QED BY <1>1, <1>2

\* A run begins a request from where the folder is, or goes on with it.
LEMMA StartRowThrough ==
  ASSUME FetchInv, Start
  PROVE  RowsThrough'
<1>0. /\ TypeOK /\ BoxConsistent /\ RowsTrue /\ RowsThrough /\ asked \in Nat
      /\ UNCHANGED <<box, uidNext, validity, asked, saved>>
  BY DEF FetchInv, TypeOK, Start, providerVars, storeVars
<1>1. state' = StartRow /\ Selected \in Folders
  BY <1>0, StartSets, SelectedRow
<1>2. /\ StartRow.backlogAt = WithRequest(Selected).backlogAt
      /\ StartRow.next = WithRequest(Selected).next
      /\ StartRow.until = WithRequest(Selected).until
  BY <1>0, <1>1, RequestedRow, UnheldRow DEF StartRow
<1>3. Settled \subseteq Settled' /\ \A v \in Older' : v \in Uids
  <2>1. [Next]_vars
    BY DEF Next, RunStep
  <2>2. left \subseteq left' /\ UNCHANGED <<copies, refused>>
    BY HistoryGrows, <2>1 DEF Start
  <2> QED BY <1>0, <2>2 DEF Settled, Dealt, IsBrought, Older
<1>4. Current => Older' = Older /\ Selected = saved /\ RowTrue(saved) /\ RowThrough(saved)
  BY <1>0 DEF Start, Current, Renumbered, Older, Selected, RowsTrue, RowsThrough
<1>5. ~Current => Selected.backlogAt = 0
  BY DEF Current, Selected, Renumbered, Default
<1>6. \A v \in Older' : v <= Selected.lastUid
  <2>1. CASE Current
    BY <1>4, <2>1 DEF RowTrue
  <2>2. CASE saved.known /\ ~Current
    <3>1. Older' = {}
      BY <1>0, <2>2, StartSets DEF Older
    <3> QED BY <3>1
  <2>3. CASE ~saved.known
    <3>1. Selected.lastUid = uidNext - 1
      BY <2>3 DEF Selected, Renumbered, Default
    <3>2. \A v \in Older' : v \in Uids /\ box[v] # NoMail
      BY <1>0, <2>3, StartSets DEF Older, InBox
    <3> QED BY <1>0, <3>1, <3>2, UidNumbers DEF BoxConsistent, TypeOK
  <2> QED BY <2>1, <2>2, <2>3
<1>7. Current' => RowThrough(saved)'
  BY <1>0, <1>3, <1>4 DEF Current, RowThrough
<1>8. CASE WithRequest(Selected) # Selected
  <2>1. StartRow.next = 1 /\ StartRow.until = Selected.lastUid /\ Selected.lastUid \in Nat
    BY <1>1, <1>2, <1>8 DEF WithRequest, Folders
  <2>2. RowThrough(state)'
    BY <1>1, <1>3, <1>6, <2>1, UidNumbers DEF RowThrough
  <2> QED BY <1>7, <2>2 DEF RowsThrough
<1>9. CASE WithRequest(Selected) = Selected
  <2>1. RowThrough(state)'
    BY <1>1, <1>2, <1>3, <1>4, <1>5, <1>9 DEF RowThrough
  <2> QED BY <1>7, <2>1 DEF RowsThrough
<1> QED BY <1>8, <1>9

\* What a row says of the old mail stays true.
LEMMA RowsThroughStep == FetchInv /\ [Next]_vars => RowsThrough'
<1> SUFFICES ASSUME FetchInv, [Next]_vars PROVE RowsThrough'
  OBVIOUS
<1>0. /\ TypeOK /\ BoxConsistent /\ RunConsistent /\ RowsTrue /\ RowsThrough /\ OldTaken
      /\ saved \in Folders /\ state \in Folders /\ uidNext \in Nat
      /\ validity \in Nat
  BY DEF FetchInv, TypeOK
<1>1. CASE Start
  BY <1>1, StartRowThrough
<1>2. CASE Renumber
  <2>1. validity' = validity + 1 /\ saved' = saved /\ phase' = "idle"
    BY <1>2 DEF Renumber, storeVars, runVars
  <2> QED BY <1>0, <2>1 DEF RowsThrough, RowsTrue, Current, Folders
<1> SUFFICES ASSUME ~Start, ~Renumber PROVE RowsThrough'
  BY <1>1, <1>2
<1>3. /\ \A v \in Settled : v < uidNext => v \in Settled'
      /\ Older' \subseteq Older /\ validity' = validity
  BY DecidedKept
<1>4. \A v \in Older : v \in Uids /\ v \in Nat /\ v < uidNext
  BY <1>0, NoMailAssumption, UidNumbers DEF Older, BoxConsistent, TypeOK
<1>5. CASE (\E u \in Uids : OldLeft(u)) \/ FlagOld
  BY <1>5, OldLeftDone
<1>6. ASSUME UNCHANGED <<saved, state>>, phase # "idle" \/ phase' = "idle" PROVE RowsThrough'
  BY <1>0, <1>3, <1>4, <1>6 DEF RowsThrough, RowThrough, Current
<1>7. CASE Ask \/ \E n \in Names : Forget(n)
  <2>1. UNCHANGED <<saved, state, phase>>
    BY <1>7 DEF Ask, Forget, runVars
  <2> QED BY <1>6, <2>1
<1>8. CASE Tick
  <2>1. /\ phase' = "idle"
        /\ saved'.known = saved.known /\ saved'.validity = saved.validity
        /\ saved'.backlogAt = saved.backlogAt /\ saved'.next = saved.next
        /\ saved'.until = saved.until
    BY <1>0, <1>8 DEF Tick, Folders, runVars
  <2> QED BY <1>0, <1>3, <1>4, <2>1 DEF RowsThrough, RowThrough, Current
<1>9. CASE (\E u \in Uids : NewLeft(u)) \/ FlagNew \/ EndNew
  <2>1. /\ phase # "idle" /\ UNCHANGED saved
        /\ state'.backlogAt = state.backlogAt /\ state'.next = state.next
        /\ state'.until = state.until
    BY <1>0, <1>9 DEF NewLeft, AtNew, FlagNew, EndNew, StepPast, storeVars, Folders
  <2> QED BY <1>0, <1>3, <1>4, <2>1 DEF RowsThrough, RowThrough, Current
<1>10. CASE NoMailbox
  <2>1. /\ phase # "idle" /\ UNCHANGED <<saved, box>>
        /\ state'.until = -1 /\ state'.backlogAt = state.backlogAt
        /\ MailsAt(state.next .. state.until) \subseteq left'
    BY <1>0, <1>10 DEF NoMailbox, storeVars, providerVars, Folders
  <2>2. /\ RowThrough(state) /\ state.until # -1 /\ state.next \in Nat /\ state.until \in Nat
    BY <1>0, <1>10, <2>1 DEF NoMailbox, RowsThrough, RunConsistent, OldPhases, Folders
  <2>3. ASSUME state.backlogAt # 0, NEW v \in Older' PROVE v \in Settled'
    <3>1. v \in Older /\ v <= state.until /\ (v < state.next => v \in Settled)
      BY <1>3, <2>2, <2>3 DEF RowThrough
    <3>2. v >= state.next => v \in Settled'
      BY <1>4, <2>1, <2>2, <3>1 DEF Settled, Dealt, MailsAt
    <3> QED BY <1>3, <1>4, <2>2, <3>1, <3>2
  <2>4. RowThrough(state)'
    BY <2>1, <2>3 DEF RowThrough
  <2> QED BY <1>0, <1>3, <1>4, <2>1, <2>4 DEF RowsThrough, RowThrough, Current
<1>11. CASE EndOld
  <2>1. /\ phase = "old" /\ todo = {} /\ UNCHANGED saved
        /\ state'.backlogAt = state.backlogAt /\ state'.next = state.next
        /\ state'.until = IF through THEN -1 ELSE state.until
    BY <1>0, <1>11 DEF EndOld, storeVars, Folders
  <2>2. /\ RowThrough(state) /\ state.until # -1 /\ state.next \in Nat /\ state.until \in Nat
    BY <1>0, <2>1 DEF RowsThrough, RunConsistent, OldPhases, Folders
  <2>3. ASSUME through, state.backlogAt # 0, NEW v \in Older PROVE v \in Settled
    BY <1>0, <1>4, <2>1, <2>2, <2>3 DEF RowThrough, OldTaken, OldPhases
  <2>4. RowThrough(state)'
    BY <1>3, <1>4, <2>1, <2>2, <2>3 DEF RowThrough
  <2> QED BY <1>0, <1>3, <1>4, <2>1, <2>4 DEF RowsThrough, RowThrough, Current
<1>12. CASE SaveChunk \/ Save
  <2>1. phase # "idle" /\ saved' = state /\ UNCHANGED state
    BY <1>12 DEF SaveChunk, Save
  <2> QED BY <1>0, <1>3, <1>4, <2>1 DEF RowsThrough, RowThrough
<1>13. CASE Finish \/ CutOff
  <2>1. phase' = "idle" /\ saved' = saved
    BY <1>13 DEF Finish, CutOff, EndRun, storeVars
  <2> QED BY <1>0, <1>3, <1>4, <2>1 DEF RowsThrough, RowThrough, Current
<1>14. CASE \/ \E m \in Mails : Arrive(m)
            \/ \E u \in Uids : \/ NewMissing(u) \/ NewKnown(u) \/ NewKept(u)
                               \/ NewRefused(u) \/ NewLater(u)
            \/ MarkNew \/ SearchOld \/ NextChunk
            \/ \E u \in Uids : OldKnown(u) \/ OldBrought(u) \/ OldFull(u)
            \/ MarkOld
            \/ UNCHANGED vars
  <2>1. UNCHANGED <<saved, state>> /\ (phase # "idle" \/ phase' = "idle")
    BY <1>14 DEF Arrive, NewMissing, NewKnown, NewKept, NewRefused, NewLater, MarkNew, SearchOld,
       NextChunk, OldKnown, OldBrought, OldFull, MarkOld, vars, storeVars, runVars, AtNew, AtOld
  <2> QED BY <1>6, <2>1
<1> QED
  BY <1>5, <1>7, <1>8, <1>9, <1>10, <1>11, <1>12, <1>13, <1>14 DEF Next, RunStep

\* A search for old mail finds the next part of it, or all that is left.
LEMMA SearchOldTaken ==
  ASSUME FetchInv, SearchOld
  PROVE  OldTaken'
<1> DEFINE all == FoundIn(state.next, state.until)
           found == Portion(all)
<1>1. PICK big \in SUBSET found :
        todo' = found \ big /\ left' = left \cup MailsAt(big)
  BY DEF SearchOld
<1>2. /\ through' <=> Cardinality(found) < PerRun
      /\ UNCHANGED <<box, state>>
  BY DEF SearchOld, providerVars
<1>3. all \in SUBSET Uids /\ found \subseteq Uids
  BY DEF FoundIn, Portion
<1> SUFFICES ASSUME NEW u \in Uids, state.next <= u, u <= state.until, box[u] # NoMail,
                    Cardinality(found) < PerRun \/ \E v \in found : u <= v
             PROVE  u \in todo' \cup Settled'
  BY <1>1, <1>2 DEF OldTaken, Settled
<1>4. u \in all
  BY DEF FoundIn
<1>5. u \in found
  BY <1>3, <1>4, PortionFirst, PortionAll, UidNumbers
<1>6. u \in big => u \in Settled'
  BY <1>1, <1>2 DEF Settled, Dealt, MailsAt
<1> QED BY <1>1, <1>5, <1>6

\* Old mail is taken one after another.
LEMMA OldTakenStep == FetchInv /\ [Next]_vars => OldTaken'
<1> SUFFICES ASSUME FetchInv, [Next]_vars PROVE OldTaken'
  OBVIOUS
<1>0. /\ TypeOK /\ RunConsistent /\ RowsTrue /\ OldTaken
      /\ state \in Folders /\ uidNext \in Nat
  BY DEF FetchInv, TypeOK
<1> USE DEF OldPhases
<1>1. CASE Start
  <2>1. phase' \notin OldPhases
    BY <1>1, StartSets DEF FetchInv, AfterNew
  <2> QED BY <2>1 DEF OldTaken
<1>2. CASE Renumber
  BY <1>2 DEF OldTaken, Renumber, runVars
<1> SUFFICES ASSUME ~Start, ~Renumber PROVE OldTaken'
  BY <1>1, <1>2
<1>3. \A v \in Settled : v < uidNext => v \in Settled'
  BY DecidedKept
<1>4. CASE (\E u \in Uids : OldLeft(u)) \/ FlagOld
  BY <1>4, OldLeftDone
<1>5. CASE SearchOld
  BY <1>5, SearchOldTaken
<1>6. CASE \E u \in Uids : OldFull(u)
  <2>1. ~through' /\ todo' = {}
    BY <1>6 DEF OldFull
  <2> QED BY <2>1 DEF OldTaken
<1>7. CASE \/ \E m \in Mails : Arrive(m)
           \/ Ask \/ Tick \/ NextChunk \/ MarkOld \/ SaveChunk
           \/ \E n \in Names : Forget(n)
           \/ \E u \in Uids : OldKnown(u) \/ OldBrought(u)
           \/ UNCHANGED vars
  <2>1. UNCHANGED <<todo, state, through>> /\ (phase' \in OldPhases <=> phase \in OldPhases)
    BY <1>7 DEF Arrive, Ask, Tick, Forget, NextChunk, MarkOld, SaveChunk, OldKnown, OldBrought, AtOld,
       vars, runVars
  <2>2. phase \in OldPhases => state.until < uidNext /\ state.until \in Int
    BY <1>0 DEF RowsTrue, RowTrue, Folders
  <2> QED BY <1>0, <1>3, <2>1, <2>2, UidNumbers DEF OldTaken
<1>8. CASE \/ \E u \in Uids : \/ NewMissing(u) \/ NewLeft(u) \/ NewKnown(u) \/ NewKept(u)
                              \/ NewRefused(u) \/ NewLater(u)
           \/ MarkNew \/ FlagNew \/ EndNew \/ NoMailbox \/ EndOld \/ Save \/ Finish \/ CutOff
  <2>1. phase' \notin OldPhases
    BY <1>8 DEF NewMissing, NewLeft, NewKnown, NewKept, NewRefused, NewLater, AtNew, MarkNew, FlagNew,
       EndNew, AfterNew, NoMailbox, EndOld, Save, Finish, CutOff, EndRun
  <2> QED BY <2>1 DEF OldTaken
<1> QED
  BY <1>4, <1>5, <1>6, <1>7, <1>8 DEF Next, RunStep

-----------------------------------------------------------------------------
(* The theorems.                                                           *)

\* The invariant holds whatever arrives, is asked for, renumbered or cut off.
THEOREM FetchInvariant == Spec => []FetchInv
<1>1. Init => FetchInv
  <2> SUFFICES ASSUME Init PROVE FetchInv
    OBVIOUS
  <2> USE UidFacts, UidNumbers DEF Init
  <2>1. TypeOK
    BY DEF TypeOK, Folders, Default
  <2>2. BoxConsistent
    BY DEF BoxConsistent
  <2>3. RunConsistent /\ NewTaken /\ OldTaken
    BY DEF RunConsistent, NewTaken, OldTaken, NewPhases, OldPhases, Marking, Flagging
  <2>4. SeenBrought /\ BroughtCounted
    BY DEF SeenBrought, BroughtCounted, Marking, Flagging
  <2>5. DeletedDealt
    BY DEF DeletedDealt
  <2>6. RowsTrue /\ RowsThrough
    BY DEF RowsTrue, RowsThrough, Current, Default
  <2> QED BY <2>1, <2>2, <2>3, <2>4, <2>5, <2>6 DEF FetchInv
<1>2. FetchInv /\ [Next]_vars => FetchInv'
  BY TypeStep, BoxStep, RunShapeStep, SeenStep, CountedStep, DeletedStep, RowsTrueStep,
     NewTakenStep, RowsThroughStep, OldTakenStep DEF FetchInv
<1> QED BY <1>1, <1>2, PTL DEF Spec

\* Every variable keeps its type.
THEOREM FetchTypeCorrect == Spec => []TypeOK
  BY FetchInvariant, PTL DEF FetchInv

\* take_message changes nothing at the provider before the message is here or
\* decided about, so EXPUNGE loses none.
THEOREM FetchDeletesDealtOnly == Spec => []DeletedDealt
  BY FetchInvariant, PTL DEF FetchInv

\* take_new moves last_uid past no new mail that it neither took nor knowingly left,
\* whatever waits, is too large or is cut off.
THEOREM FetchSkipsNothing == Spec => []NothingSkipped
<1>1. FetchInv => NothingSkipped
  BY DEF FetchInv, RowsTrue, RowTrue, Current, Decided, NothingSkipped
<1> QED BY <1>1, FetchInvariant, PTL

\* fetch_seen makes mail of one name come once, but for runs cut off between the
\* delivery and the note of it and for names prune_fetch_seen forgot.
THEOREM FetchBringsOnce == Spec => []BroughtOnce
<1>1. FetchInv => BroughtOnce
  BY DEF FetchInv, BroughtCounted, BroughtOnce, TypeOK
<1> QED BY <1>1, FetchInvariant, PTL

\* finish_fetch_backlog ends a request only when all mail of the folder is decided up to
\* where new mail begins, two requests of one second and a new numbering included.
THEOREM FetchBacklogComplete == Spec => BacklogComplete
<1>1. FetchInv /\ [Next]_vars =>
        [asked # 0 /\ asked' = 0 => \A m \in InBox : Dealt(m) \/ m \in flagged \/ StillNew(m)]_vars
  <2> SUFFICES ASSUME FetchInv, [Next]_vars, asked # 0, asked' = 0, NEW m \in InBox, ~StillNew(m)
               PROVE  Dealt(m)
    OBVIOUS
  <2>1. Finish /\ state.backlogAt = asked /\ state.until = -1
    <3>1. stamp \in Nat
      BY DEF FetchInv, TypeOK
    <3>2. ~Ask
      BY <3>1 DEF Ask, Larger
    <3>3. ~(asked' = asked)
      OBVIOUS
    <3> QED BY <3>2, <3>3 DEF Next, RunStep, Arrive, Renumber, Tick, Forget, Start, NewMissing, NewLeft,
          NewKnown, NewKept, NewRefused, NewLater, MarkNew, FlagNew, EndNew, NoMailbox, SearchOld,
          NextChunk, OldLeft, OldKnown, OldBrought, OldFull, MarkOld, FlagOld, SaveChunk, EndOld, Save,
          Finish, CutOff, storeVars, vars
  <2>2. RowThrough(state) /\ RowTrue(state) /\ saved = state /\ state.lastUid \in Nat
    BY <2>1 DEF Finish, FetchInv, RowsThrough, RowsTrue, RunConsistent, TypeOK, Folders
  <2>3. PICK u \in Uids : box[u] = m /\ m # NoMail
    BY DEF InBox
  <2>4. u <= state.lastUid
    BY <2>2, <2>3, UidNumbers DEF StillNew
  <2>5. CASE m \in old
    <3>1. u \in Settled
      BY <2>1, <2>2, <2>3, <2>5 DEF RowThrough, Older
    <3> QED BY <2>3, <3>1 DEF Settled
  <2>6. CASE m \notin old
    <3>1. u \in Decided
      BY <2>2, <2>4 DEF RowTrue
    <3> QED BY <2>3, <2>6, <3>1 DEF Decided
  <2> QED BY <2>5, <2>6
<1> QED BY <1>1, FetchInvariant, PTL DEF Spec, BacklogComplete
=============================================================================
