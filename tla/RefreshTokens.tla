---------------------------- MODULE RefreshTokens ----------------------------
(***************************************************************************)
(* The refresh tokens of one user: the entry user-<id> in Redis, which     *)
(* holds the id of the one token that may be exchanged, and the requests   *)
(* (sign-in, refresh) whose commands GET, DEL and SET interleave at every  *)
(* await.  Users do not share entries.  Tokens are numbered in the order   *)
(* their ids are made; 0 stands for none.                                  *)
(***************************************************************************)
EXTENDS Naturals

CONSTANTS
    Clients,        \* browsers of the user, each with its own cookie
    Requests,       \* requests that may be in progress together
    MaxTokens,      \* bound of the model: tokens signed
    MaxExits        \* bound of the model: exits of the process

ASSUME TokensAssumption == MaxTokens \in Nat /\ MaxExits \in Nat

VARIABLES
    up,         \* the Node process is running
    stored,     \* the entry in Redis
    signed,     \* tokens signed so far
    lapsed,     \* the tokens 1..lapsed are past their JWT life
    cookie,     \* cookie[c]: the token browser c holds
    request,    \* request[q]: what the request is doing
    replaced,   \* history: tokens whose exchange has deleted the entry
    accepted,   \* history: accepted[t], how many requests GET let pass with t
    overlap,    \* history: a request began while another was in progress
    fault,      \* history: an exit, a refused SET, a lost reply or entry
    exits       \* exits so far

vars == <<up, stored, signed, lapsed, cookie, request, replaced, accepted,
          overlap, fault, exits>>

Tokens == 1..MaxTokens
NoToken == 0

Request == [pc        : {"idle", "validate", "invalidate", "insert", "reply"},
            client    : Clients,
            presented : Tokens \cup {NoToken},
            token     : Tokens \cup {NoToken}]

Idle(c) == [pc |-> "idle", client |-> c, presented |-> NoToken, token |-> NoToken]

Done(q) == request' = [request EXCEPT ![q] = Idle(@.client)]

Quiet == \A q \in Requests : request[q].pc = "idle"

Init ==
    /\ up = TRUE
    /\ stored = NoToken /\ signed = 0 /\ lapsed = 0
    /\ cookie = [c \in Clients |-> NoToken]
    /\ request \in [Requests -> {Idle(c) : c \in Clients}]
    /\ replaced = {}
    /\ accepted = [t \in Tokens |-> 0]
    /\ overlap = FALSE /\ fault = FALSE /\ exits = 0

-----------------------------------------------------------------------------
\* generateTokens makes an id.
MakesToken == signed' = signed + 1

\* singIn, once the password is compared.
SignIn(q, c) ==
    /\ up
    /\ request[q].pc = "idle"
    /\ signed < MaxTokens
    /\ MakesToken
    /\ request' = [request EXCEPT ![q] =
          [pc |-> "insert", client |-> c, presented |-> NoToken,
           token |-> signed + 1]]
    /\ overlap' = (overlap \/ ~Quiet)
    /\ UNCHANGED <<up, stored, lapsed, cookie, replaced, accepted, fault, exits>>

\* refreshToken with a cookie whose JWT is still valid; the user is found.
Refresh(q, c) ==
    /\ up
    /\ request[q].pc = "idle"
    /\ cookie[c] > lapsed
    /\ request' = [request EXCEPT ![q] =
          [pc |-> "validate", client |-> c, presented |-> cookie[c],
           token |-> NoToken]]
    /\ overlap' = (overlap \/ ~Quiet)
    /\ UNCHANGED <<up, stored, signed, lapsed, cookie, replaced, accepted,
                   fault, exits>>

\* Mutant of Current: any entry will do.
CurrentAnyEntry(q) == stored # NoToken

Current(q) == stored = request[q].presented

\* GET: the entry must hold the presented token, or the reply is an error.
Validate(q) ==
    /\ request[q].pc = "validate"
    /\ IF Current(q)
       THEN /\ request' = [request EXCEPT ![q].pc = "invalidate"]
            /\ accepted' = [accepted EXCEPT ![request[q].presented] = @ + 1]
       ELSE /\ Done(q)
            /\ UNCHANGED accepted
    /\ UNCHANGED <<up, stored, signed, lapsed, cookie, replaced, overlap,
                   fault, exits>>

\* Mutant of Deletes: the DEL is left out.
DeletesNothing == UNCHANGED stored

Deletes == stored' = NoToken

\* DEL of whatever the entry holds by now, then generateTokens.
Invalidate(q) ==
    /\ request[q].pc = "invalidate"
    /\ signed < MaxTokens
    /\ MakesToken
    /\ Deletes
    /\ replaced' = replaced \cup {request[q].presented}
    /\ request' = [request EXCEPT ![q] =
          [pc |-> "insert", client |-> @.client, presented |-> @.presented,
           token |-> signed + 1]]
    /\ UNCHANGED <<up, lapsed, cookie, accepted, overlap, fault, exits>>

\* SET without a time to live.
Insert(q) ==
    /\ request[q].pc = "insert"
    /\ stored' = request[q].token
    /\ request' = [request EXCEPT ![q].pc = "reply"]
    /\ UNCHANGED <<up, signed, lapsed, cookie, replaced, accepted, overlap,
                   fault, exits>>

\* Redis is full: the request is answered with an error.
InsertRefused(q) ==
    /\ request[q].pc = "insert"
    /\ Done(q)
    /\ fault' = TRUE
    /\ UNCHANGED <<up, stored, signed, lapsed, cookie, replaced, accepted,
                   overlap, exits>>

\* Mutant of KeepsEntry: the entry is deleted last.
KeepsEntryNever == stored' = NoToken

KeepsEntry == UNCHANGED stored

\* The browser takes the cookie of the reply.
Reply(q) ==
    /\ request[q].pc = "reply"
    /\ cookie' = [cookie EXCEPT ![request[q].client] = request[q].token]
    /\ KeepsEntry
    /\ Done(q)
    /\ UNCHANGED <<up, signed, lapsed, replaced, accepted, overlap, fault, exits>>

\* The connection is gone before the reply.
ReplyLost(q) ==
    /\ request[q].pc = "reply"
    /\ Done(q)
    /\ fault' = TRUE
    /\ UNCHANGED <<up, stored, signed, lapsed, cookie, replaced, accepted,
                   overlap, exits>>

\* The oldest token reaches JWT_REFRESH_TOKEN_TTL; requests take less time.
Lapse ==
    /\ lapsed < signed
    /\ \A q \in Requests :
          lapsed + 1 \notin {request[q].token, request[q].presented}
    /\ lapsed' = lapsed + 1
    /\ UNCHANGED <<up, stored, signed, cookie, request, replaced, accepted,
                   overlap, fault, exits>>

Exit ==
    /\ up
    /\ exits < MaxExits
    /\ up' = FALSE
    /\ exits' = exits + 1
    /\ fault' = TRUE
    /\ request' = [q \in Requests |-> Idle(request[q].client)]
    /\ UNCHANGED <<stored, signed, lapsed, cookie, replaced, accepted, overlap>>

\* Redis keeps nothing on disk, so its own restart loses the entry.
Restart ==
    /\ ~up
    /\ up' = TRUE
    /\ stored' \in {stored, NoToken}
    /\ UNCHANGED <<signed, lapsed, cookie, request, replaced, accepted,
                   overlap, fault, exits>>

Next ==
    \/ \E q \in Requests, c \in Clients : SignIn(q, c) \/ Refresh(q, c)
    \/ \E q \in Requests :
          \/ Validate(q)
          \/ Invalidate(q)
          \/ Insert(q)
          \/ InsertRefused(q)
          \/ Reply(q)
          \/ ReplyLost(q)
    \/ Lapse
    \/ Exit
    \/ Restart

Spec == Init /\ [][Next]_vars

-----------------------------------------------------------------------------
(* Properties                                                              *)

\* What every variable may hold.
TypeOK ==
    /\ up \in BOOLEAN /\ overlap \in BOOLEAN /\ fault \in BOOLEAN
    /\ stored \in 0..signed /\ signed \in 0..MaxTokens /\ lapsed \in 0..signed
    /\ cookie \in [Clients -> 0..signed]
    /\ request \in [Requests -> Request]
    /\ \A q \in Requests : {request[q].presented, request[q].token} \subseteq 0..signed
    /\ replaced \subseteq 1..signed
    /\ accepted \in [Tokens -> Nat]
    /\ exits \in 0..MaxExits

\* Once an exchange of a token has deleted the entry, no request that presents
\* that token is accepted any more, whatever other requests store, delete or
\* leave undone: a replaced token does not come back.
ReplacedNeverAccepted ==
    [][\A q \in Requests :
          request[q].pc = "validate" /\ request'[q].pc = "invalidate"
             => request[q].presented \notin replaced]_vars

\* Requests that do not overlap keep the session: while nothing has failed and
\* none is in progress, the entry holds the newest token and a browser has it.
SerialSessionSurvives ==
    Quiet /\ ~overlap /\ ~fault =>
        /\ stored = signed
        /\ stored # NoToken => \E c \in Clients : cookie[c] = stored

\* Where token t is, in the words of TokenLifecycle.
StageOf(t) ==
    IF t > signed THEN "unmade"
    ELSE IF t = stored THEN "live"
    ELSE IF \E q \in Requests : request[q].pc = "insert" /\ request[q].token = t
         THEN "pending"
    ELSE "dead"

TokenStage == [t \in Tokens |-> StageOf(t)]

Life == INSTANCE TokenLifecycle WITH stage <- TokenStage, spent <- replaced

\* The three commands implement the lifecycle: a token is stored once, only
\* the one that is live is accepted, and a new one is made for a password or
\* for one that was accepted, whatever the requests race and lose.
ImplementsLifecycle == Life!LifeSpec

\* README.md: "access/refresh token rotation".  A token would be exchanged
\* for a new one at most once while the process stays up.
RotatesOnce == exits = 0 => \A t \in Tokens : accepted[t] <= 1

\* ARCHITECTURE.md: "JWT refresh tokens with TTL".  The entry would go when
\* its token is past its life.
EntryLapses == stored # NoToken => stored > lapsed

=============================================================================
