------------------------------ MODULE LiveFeed ------------------------------
(***************************************************************************)
(* What live delivery promises a browser, without buffers, jobs or         *)
(* workers: a log that starts empty when the connection joins its owner's  *)
(* room, and grows by the same events, at the same moment, as the logs of  *)
(* everybody else in the room.                                             *)
(***************************************************************************)
EXTENDS Naturals, Sequences, SequencesExt

CONSTANTS
    Owners,
    Events,
    OwnerOf,
    Sockets,
    Nobody,         \* the owner of a socket that is not connected
    BatchSize       \* most events that come together

VARIABLES
    received,   \* the events in the order they were received
    room,       \* room[c]: the owner in whose room socket c is
    log,        \* log[c]: what c has been sent since it joined
    faulted     \* a process has ended, or Redis has refused something

lvars == <<received, room, log, faulted>>

Members(o) == {c \in Sockets : room[c] = o}

FeedInit ==
    /\ received = <<>>
    /\ room = [c \in Sockets |-> Nobody]
    /\ log = [c \in Sockets |-> <<>>]
    /\ faulted = FALSE

Receive(e) ==
    /\ e \notin Range(received)
    /\ received' = Append(received, e)
    /\ UNCHANGED <<room, log, faulted>>

Join(c, o) ==
    /\ room[c] = Nobody
    /\ room' = [room EXCEPT ![c] = o]
    /\ log' = [log EXCEPT ![c] = <<>>]
    /\ UNCHANGED <<received, faulted>>

Leave(c) ==
    /\ room' = [room EXCEPT ![c] = Nobody]
    /\ log' = [log EXCEPT ![c] = <<>>]
    /\ UNCHANGED <<received, faulted>>

\* The events of s come in the order they were received.
InOrder(s) ==
    \A i, j \in DOMAIN s : i < j =>
        \E m, n \in DOMAIN received :
            m < n /\ received[m] = s[i] /\ received[n] = s[j]

\* The room of o is sent events of o that none of its members has; until
\* something fails, later ones than they have.
Deliver(o, s) ==
    /\ \A e \in Range(s) : e \in Range(received) /\ OwnerOf[e] = o
    /\ \A c \in Members(o) :
          IsInjective(log[c] \o s) /\ (faulted \/ InOrder(log[c] \o s))
    /\ log' = [c \in Sockets |-> IF room[c] = o THEN log[c] \o s ELSE log[c]]
    /\ UNCHANGED <<received, room, faulted>>

\* Something fails, and may close all connections.
Fault ==
    /\ faulted' = TRUE
    /\ \/ UNCHANGED <<room, log>>
       \/ /\ room' = [c \in Sockets |-> Nobody]
          /\ log' = [c \in Sockets |-> <<>>]
    /\ UNCHANGED received

FeedNext ==
    \/ \E e \in Events : Receive(e)
    \/ \E c \in Sockets : Leave(c) \/ \E o \in Owners : Join(c, o)
    \/ \E o \in Owners, n \in 1..BatchSize : \E s \in [1..n -> Events] : Deliver(o, s)
    \/ Fault

FeedSpec == FeedInit /\ [][FeedNext]_lvars

=============================================================================
