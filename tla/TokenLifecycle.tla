--------------------------- MODULE TokenLifecycle ---------------------------
(***************************************************************************)
(* What the token exchange promises, without requests, commands or         *)
(* processes: a token is made, stored and replaced, in this order and      *)
(* never back; one token at a time can be exchanged, and a new one is only *)
(* made for a password or for a token that could be exchanged.             *)
(***************************************************************************)
EXTENDS Naturals

CONSTANT Tokens

VARIABLES
    stage,      \* stage[t]: how far the token has come
    accepted,   \* accepted[t]: how many requests were let pass with t
    spent       \* the tokens a new one was made for

lvars == <<stage, accepted, spent>>

Stage == {"unmade", "pending", "live", "dead"}

Live == {t \in Tokens : stage[t] = "live"}

LifeInit ==
    /\ stage = [t \in Tokens |-> "unmade"]
    /\ accepted = [t \in Tokens |-> 0]
    /\ spent = {}

\* The tokens of S can no longer be exchanged, and t has come to stage s.
Moved(t, s, S) ==
    stage' = [u \in Tokens |->
                IF u = t THEN s ELSE IF u \in S THEN "dead" ELSE stage[u]]

\* A token for a password; the live one stays.
Sign(t) ==
    /\ stage[t] = "unmade"
    /\ Moved(t, "pending", {})
    /\ UNCHANGED <<accepted, spent>>

\* A request presents the live token.
Accept(t) ==
    /\ stage[t] = "live"
    /\ accepted' = [accepted EXCEPT ![t] = @ + 1]
    /\ UNCHANGED <<stage, spent>>

\* A token for one that was accepted, which is spent; whatever is live dies.
Exchange(old, t) ==
    /\ accepted[old] > 0
    /\ stage[old] \in {"live", "dead"}
    /\ stage[t] = "unmade"
    /\ Moved(t, "pending", Live)
    /\ spent' = spent \cup {old}
    /\ UNCHANGED accepted

\* The token takes the place of the live one.
Store(t) ==
    /\ stage[t] = "pending"
    /\ Moved(t, "live", Live)
    /\ UNCHANGED <<accepted, spent>>

\* Tokens that were not stored yet, or the live one, are lost to a fault.
Lose(S) ==
    /\ \A t \in S : stage[t] \in {"pending", "live"}
    /\ stage' = [u \in Tokens |-> IF u \in S THEN "dead" ELSE stage[u]]
    /\ UNCHANGED <<accepted, spent>>

LifeNext ==
    \/ \E t \in Tokens : Sign(t) \/ Accept(t) \/ Store(t)
    \/ \E old, t \in Tokens : Exchange(old, t)
    \/ \E S \in SUBSET Tokens : Lose(S)

LifeSpec == LifeInit /\ [][LifeNext]_lvars

-----------------------------------------------------------------------------
(* Properties                                                              *)

\* A token a new one was made for can no longer be exchanged.
SpentIsDead == \A t \in spent : stage[t] = "dead"

\* A token that was replaced or lost is never stored or accepted again.
DeadForEver ==
    [][\A t \in Tokens : stage[t] = "dead" =>
          stage'[t] = "dead" /\ accepted'[t] = accepted[t]]_lvars

=============================================================================
