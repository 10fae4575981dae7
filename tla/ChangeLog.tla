----------------------------- MODULE ChangeLog -----------------------------
(***************************************************************************)
(* What an account's change log promises its readers, whatever writes to   *)
(* it.  A transaction shows as one change, all of it at once, with the     *)
(* next modseq.  It says something, and one thing of an object.  What the  *)
(* log said stays; its first word on an object is that it was created, and *)
(* after the word that it was destroyed there is none.                     *)
(***************************************************************************)
EXTENDS Naturals

VARIABLES
  seq,   \* the account's modseq, as readers see it
  told   \* the rows readers see: modseq, kind, object and change

\* What the log has said of the object of a row.
Story(row) == {old \in told : old[2] = row[2] /\ old[3] = row[3]}

Init ==
  /\ seq = 1
  /\ \A row \in told : row[1] = 1 /\ row[4] = "created"

\* A transaction commits.
Next ==
  LET new == told' \ told
  IN /\ seq' = seq + 1
     /\ told \subseteq told'
     /\ new # {}
     /\ \A row \in new :
          /\ row[1] = seq + 1
          /\ row[4] = "created" <=> Story(row) = {}
          /\ \A old \in Story(row) : old[4] # "destroyed"
          /\ \A other \in new : other[2] = row[2] /\ other[3] = row[3] => other = row

Spec == Init /\ [][Next]_<<seq, told>>
=============================================================================
