----------------------------- MODULE EventLedger -----------------------------
(***************************************************************************)
(* What the ingestion pipeline owes a client, without buffers, jobs or     *)
(* processes: every acknowledged event is on its way until it is stored,   *)
(* buried in a failed job, or lost, and it is lost only to a fault or      *)
(* because the schema refuses it.                                          *)
(***************************************************************************)
CONSTANTS
    Events,     \* the events clients send
    Invalid     \* those the mongoose schema refuses

VARIABLES
    status,     \* status[e]: how far the event has come
    faulted     \* something has failed

lvars == <<status, faulted>>

Status == {"unsent", "pending", "stored", "buried", "lost"}

LedgerInit ==
    /\ status = [e \in Events |-> "unsent"]
    /\ faulted = FALSE

\* One client sends one event.
Accept(e) ==
    /\ status[e] = "unsent"
    /\ status' = [status EXCEPT ![e] = "pending"]
    /\ UNCHANGED faulted

\* An event may be lost: a fault has happened, or nothing could store it.
MayLose(e) == faulted' \/ e \in Invalid

\* How one event may move on.  Stored is final; nothing is resurrected.
Moves(e) ==
    \/ status'[e] = status[e]
    \/ status[e] = "pending" /\ status'[e] \in {"stored", "buried"}
    \/ status[e] \in {"pending", "buried"} /\ status'[e] = "lost" /\ MayLose(e)

\* Any number of events move on together (a batch, an exit, a restart).
Progress ==
    /\ status' \in [Events -> Status]
    /\ \A e \in Events : Moves(e)
    /\ faulted' \in BOOLEAN
    /\ faulted => faulted'

LedgerNext == (\E e \in Events : Accept(e)) \/ Progress

LedgerSpec == LedgerInit /\ [][LedgerNext]_lvars
=============================================================================
