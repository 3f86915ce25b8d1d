------------------------- MODULE MCDashboardReport -------------------------
(* Instances of DashboardReport for TLC.                                   *)
EXTENDS DashboardReport

CONSTANTS alice, bob, missing, anonymous, x, y

Event(name, user, country, lag, null) ==
    [name |-> name, user |-> user, country |-> country, lag |-> lag, null |-> null]

\* A complete event, one whose payload has nothing, a purchase, a purchase
\* with a null payload, and one that is named like the field of the total.
SomeKinds == {
    Event("view", alice, x, 1, FALSE),
    Event("click", missing, missing, -4, FALSE),
    Event("purchase", bob, y, 2, FALSE),
    Event("purchase", missing, missing, 7, TRUE),
    Event(TotalEvents, alice, x, 3, FALSE)}

=============================================================================
