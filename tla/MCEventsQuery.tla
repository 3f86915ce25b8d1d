---------------------------- MODULE MCEventsQuery ----------------------------
(* Instances of EventsQuery for TLC.                                       *)
EXTENDS EventsQuery, TLC

CONSTANTS d1, d2, d3, d4, alike, other

\* d1 to d4 in the order of their timestamps; "alike" has that of d2.
Keys == [d \in Docs |-> CASE d = d1 -> 1 [] d = d2 -> 2 [] d = alike -> 2
                          [] d = d3 -> 3 [] d = d4 -> 4 [] OTHER -> 2]

=============================================================================
