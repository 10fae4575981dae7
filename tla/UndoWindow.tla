---------------------------- MODULE UndoWindow ----------------------------
(***************************************************************************)
(* What holding a submission back promises, without saying how: a message  *)
(* waits until it is stopped, dropped or released; only a released one     *)
(* reaches anybody, and what was released cannot be stopped any more.      *)
(***************************************************************************)
EXTENDS Naturals

CONSTANT Subs

VARIABLES
  stage,  \* "absent", "waiting", "stopped", "going" or "over"
  sent    \* how often the message reached its recipients here and the queue

Stages == {"absent", "waiting", "stopped", "going", "over"}

\* The stages a submission may move to.
After(from) ==
  CASE from = "absent" -> {"waiting", "going", "over"}
    [] from = "waiting" -> {"stopped", "going", "over"}
    [] from = "stopped" -> {"over"}
    [] from = "going" -> {"over"}
    [] OTHER -> {}

Init ==
  /\ stage = [s \in Subs |-> "absent"]
  /\ sent = [s \in Subs |-> 0]

\* One step may move several submissions (a claim takes all that are due), but a
\* message reaches somebody only while it is going, and one copy at a time.
Next ==
  /\ stage' \in [Subs -> Stages]
  /\ sent' \in [Subs -> Nat]
  /\ \A s \in Subs :
       \/ /\ stage'[s] \in {stage[s]} \cup After(stage[s])
          /\ sent'[s] = sent[s]
       \/ /\ stage[s] = "going"
          /\ stage'[s] = "going"
          /\ sent'[s] = sent[s] + 1

Spec == Init /\ [][Next]_<<stage, sent>>
=============================================================================
