------------------------------ MODULE ImapSync ------------------------------
(***************************************************************************)
(* An IMAP client that keeps a copy of a mailbox and brings it up to date  *)
(* with SELECT (QRESYNC ...), composed with the store.                     *)
(*                                                                         *)
(* The store reads without a transaction: HIGHESTMODSEQ, the messages and  *)
(* the vanished UIDs come from three reads, and changes may be committed   *)
(* between them.                                                           *)
(***************************************************************************)
EXTENDS MailStore

CONSTANTS Box  \* the mailbox the client keeps

ASSUME BoxAssumption == Box \in 1 .. DefaultBoxes

VARIABLES
  ipc,      \* which read comes next
  known,    \* the client's copy: what it knows of each UID
  state,    \* the HIGHESTMODSEQ it was told with it
  high,     \* mailbox_modseq, as SELECT read it
  list      \* the messages, as SELECT read them

imapVars == <<ipc, known, state, high, list>>

\* A message as IMAP shows it: its UID, whose content never changes, and flags.
\* The modseq travels beside it.
Message(e) == [uid |-> uid[Box][e], email |-> e, seen |-> e \in seen]
View == {Message(e) : e \in EmailsIn(Box)}

IInit ==
  /\ Init
  /\ ipc = "idle"
  /\ known = {}
  /\ state = 0
  /\ high = 0
  /\ list = {}

\* imap_messages reads the mailbox's modseq ...
Select ==
  /\ op = "none"
  /\ ipc = "idle"
  /\ Box \in boxes
  /\ high' = top[Box]
  /\ ipc' = "selecting"
  /\ UNCHANGED <<storeVars, known, state, list>>

\* ... and then the messages with their modseqs.
ListMessages ==
  /\ op = "none"
  /\ ipc = "selecting"
  /\ Box \in boxes
  /\ list' = {<<Message(e), itemSeq[Box][e]>> : e \in EmailsIn(Box)}
  /\ ipc' = "listed"
  /\ UNCHANGED <<storeVars, known, state, high>>

\* imap_vanished
VanishedSince(since) == {u \in 1 .. MaxUid : vanished[Box][u] > since}

\* The client applies VANISHED (EARLIER), then the FETCH answers.
Resynced(messages, gone, changed) ==
  {m \in messages : m.uid \notin gone /\ \A new \in changed : new.uid # m.uid} \union changed

\* The answer to SELECT: what vanished since the client's state, and every
\* listed message that changed after it.
Answer ==
  /\ op = "none"
  /\ ipc = "listed"
  /\ Box \in boxes
  /\ known' = Resynced(known, VanishedSince(state), {item[1] : item \in {i \in list : i[2] > state}})
  /\ state' = high
  /\ ipc' = "idle"
  /\ high' = 0
  /\ list' = {}
  /\ UNCHANGED storeVars

\* The mailbox is gone: SELECT fails and the client forgets it.
SelectFails ==
  /\ op = "none"
  /\ ipc # "idle"
  /\ Box \notin boxes
  /\ ipc' = "idle"
  /\ known' = {}
  /\ state' = 0
  /\ high' = 0
  /\ list' = {}
  /\ UNCHANGED storeVars

ImapStep == Select \/ ListMessages \/ Answer \/ SelectFails

INext == (Next /\ UNCHANGED imapVars) \/ ImapStep

ISpec == IInit /\ [][INext]_<<storeVars, imapVars>>
-----------------------------------------------------------------------------
Views == [uid : 1 .. MaxUid, email : EmailIds, seen : BOOLEAN]

ITypeOK ==
  /\ ipc \in {"idle", "selecting", "listed"}
  /\ known \subseteq Views
  /\ state \in 0 .. MaxModseq
  /\ high \in 0 .. MaxModseq
  /\ list \subseteq Views \X (1 .. MaxModseq)

\* Whatever was committed between the reads of earlier SELECTs, the next one
\* brings the client's copy to exactly what the mailbox holds: nothing stays
\* behind, nothing is missing, no flag is old.
ImapCatchesUp ==
  (Committed /\ ipc = "idle" /\ Box \in boxes) =>
    Resynced(known, VanishedSince(state), {Message(e) : e \in {f \in EmailsIn(Box) : itemSeq[Box][f] > state}})
      = View

\* A client that finds the HIGHESTMODSEQ it was told last needs no answer at
\* all: its copy is the mailbox, because the modseq is read before the messages.
UnchangedStateIsCurrent ==
  (Committed /\ ipc = "idle" /\ Box \in boxes /\ state = top[Box]) => known = View
=============================================================================
