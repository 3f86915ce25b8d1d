------------------------- MODULE RefreshTokensProofs -------------------------
(***************************************************************************)
(* Proofs about RefreshTokens, for any browsers, requests and bounds.      *)
(***************************************************************************)
EXTENDS RefreshTokens, TLAPS

\* The token of a request that has not replied is known to nobody else: it is
\* in no cookie, presented by no request, carried by no other one, and not
\* replaced; until it is inserted it is not stored either.
OnItsWay(q) ==
    request[q].pc \in {"insert", "reply"} =>
        /\ request[q].token # NoToken
        /\ request[q].token \notin replaced
        /\ \A c \in Clients : cookie[c] # request[q].token
        /\ \A p \in Requests : request[p].presented # request[q].token
        /\ \A p \in Requests \ {q} : request[p].token # request[q].token
        /\ request[q].pc = "insert" => stored # request[q].token

Presents(q) ==
    request[q].pc \in {"validate", "invalidate"} => request[q].presented # NoToken

TokensInv ==
    /\ TypeOK
    /\ stored \notin replaced
    /\ \A q \in Requests : OnItsWay(q) /\ Presents(q)

\* Of requests that do not overlap one is active, and nothing was lost.
SerialInv ==
    ~overlap /\ ~fault =>
        /\ \A p, q \in Requests :
              request[p].pc # "idle" /\ request[q].pc # "idle" => p = q
        /\ \A q \in Requests :
              /\ request[q].pc = "insert" => request[q].token = signed
              /\ request[q].pc = "reply" => request[q].token = signed /\ stored = signed
        /\ (\A q \in Requests : request[q].pc \notin {"insert", "reply"}) =>
              /\ stored = signed
              /\ stored # NoToken => \E c \in Clients : cookie[c] = stored

-----------------------------------------------------------------------------
(* The initial states and the steps, one action at a time                  *)

LEMMA IdleTyped ==
  \A c \in Clients : /\ Idle(c) \in Request
                     /\ Idle(c).pc = "idle"
                     /\ Idle(c).presented = NoToken /\ Idle(c).token = NoToken
  BY DEF Idle, Request

\* What a request in progress becomes, field by field.
LEMMA PassTyped ==
  ASSUME NEW r \in Request,
         NEW pc \in {"idle", "validate", "invalidate", "insert", "reply"},
         NEW t \in Tokens \cup {NoToken}
  PROVE  /\ [r EXCEPT !.pc = pc] \in Request
         /\ [pc |-> pc, client |-> r.client, presented |-> r.presented,
             token |-> t] \in Request
  BY DEF Request

LEMMA InitTokens == Init => TokensInv /\ SerialInv
  <1> SUFFICES ASSUME Init PROVE TokensInv /\ SerialInv
    OBVIOUS
  <1>1. \A q \in Requests : /\ request[q] \in Request
                            /\ request[q].pc = "idle"
                            /\ request[q].presented = NoToken
                            /\ request[q].token = NoToken
    BY DEF Init, Idle, Request, NoToken
  <1>2. request \in [Requests -> Request]
    BY IdleTyped DEF Init
  <1>3. TypeOK
    <2>1. cookie \in [Clients -> 0..signed] /\ accepted \in [Tokens -> Nat]
      BY DEF Init, NoToken
    <2>2. \A q \in Requests : {request[q].presented, request[q].token} \subseteq 0..signed
      BY <1>1 DEF Init, NoToken
    <2>3. stored \in 0..signed /\ signed \in 0..MaxTokens /\ lapsed \in 0..signed
      BY TokensAssumption DEF Init, NoToken
    <2>4. exits \in 0..MaxExits /\ replaced \subseteq 1..signed
      BY TokensAssumption DEF Init
    <2>5. up \in BOOLEAN /\ overlap \in BOOLEAN /\ fault \in BOOLEAN
      BY DEF Init
    <2>6. QED
      BY <1>2, <2>1, <2>2, <2>3, <2>4, <2>5 DEF TypeOK
  <1>4. QED
    BY <1>1, <1>3 DEF Init, TokensInv, SerialInv, OnItsWay, Presents, NoToken

LEMMA SignInStep ==
  ASSUME TokensInv, SerialInv, NEW q \in Requests, NEW c \in Clients, SignIn(q, c)
  PROVE  TokensInv' /\ SerialInv'
  <1>1. TypeOK'
    <2>1. /\ signed + 1 \in Tokens /\ signed' = signed + 1
          /\ signed' \in 0..MaxTokens
      BY TokensAssumption DEF TokensInv, TypeOK, SignIn, MakesToken, Tokens
    <2>2. [pc |-> "insert", client |-> c, presented |-> NoToken, token |-> signed + 1]
            \in Request
      BY <2>1 DEF Request
    <2>3. request' \in [Requests -> Request]
      BY <2>2 DEF TokensInv, TypeOK, SignIn
    <2>4. \A p \in Requests :
             {request'[p].presented, request'[p].token} \subseteq 0..signed'
      BY <2>1 DEF TokensInv, TypeOK, SignIn, NoToken
    <2>5. /\ replaced' \subseteq 1..signed' /\ cookie' \in [Clients -> 0..signed']
          /\ stored' \in 0..signed' /\ lapsed' \in 0..signed'
      BY <2>1 DEF TokensInv, TypeOK, SignIn
    <2>6. QED
      BY <2>1, <2>3, <2>4, <2>5 DEF TokensInv, TypeOK, SignIn
  <1>2. TokensInv'
    <2>1. /\ signed + 1 \notin replaced /\ stored # signed + 1
          /\ \A d \in Clients : cookie[d] # signed + 1
          /\ \A p \in Requests : /\ request[p].presented # signed + 1
                                /\ request[p].token # signed + 1
      BY DEF TokensInv, TypeOK
    <2>2. /\ request'[q].pc = "insert" /\ request'[q].token = signed + 1
          /\ request'[q].presented = NoToken
          /\ \A p \in Requests : p # q => request'[p] = request[p]
          /\ UNCHANGED <<stored, cookie, replaced>>
      BY DEF SignIn, MakesToken, TokensInv, TypeOK
    <2>3. signed + 1 # NoToken
      BY DEF TokensInv, TypeOK, NoToken
    <2>4. OnItsWay(q)' /\ Presents(q)'
      BY <2>1, <2>2, <2>3 DEF OnItsWay, Presents
    <2>5. ASSUME NEW p \in Requests, p # q
          PROVE  OnItsWay(p)' /\ Presents(p)'
      <3>1. request[p].pc \in {"insert", "reply"} => request[p].token # NoToken
        BY DEF TokensInv, OnItsWay
      <3>2. QED
        BY <2>1, <2>2, <2>5, <3>1 DEF TokensInv, OnItsWay, Presents
    <2>6. QED
      BY <1>1, <2>2, <2>4, <2>5 DEF TokensInv
  <1>3. SerialInv'
    <2> SUFFICES ASSUME ~overlap', ~fault' PROVE SerialInv'
      BY DEF SerialInv
    <2>1. Quiet
      BY DEF SignIn, MakesToken, TokensInv, TypeOK
    <2>2. \A p \in Requests : request'[p].pc = IF p = q THEN "insert" ELSE "idle"
      BY <2>1 DEF SignIn, MakesToken, Quiet, TokensInv, TypeOK
    <2>3. request'[q].token = signed'
      BY DEF SignIn, MakesToken, TokensInv, TypeOK
    <2>4. QED
      BY <2>2, <2>3 DEF SerialInv
  <1>4. QED
    BY <1>2, <1>3

LEMMA RefreshStep ==
  ASSUME TokensInv, SerialInv, NEW q \in Requests, NEW c \in Clients, Refresh(q, c)
  PROVE  TokensInv' /\ SerialInv'
  <1>1. cookie[c] \in Tokens /\ cookie[c] # NoToken
    BY TokensAssumption DEF TokensInv, TypeOK, Refresh, Tokens, NoToken
  <1>2. TypeOK'
    BY <1>1, TokensAssumption DEF TokensInv, TypeOK, Refresh, Request, Tokens, NoToken
  <1>3. TokensInv'
    BY <1>1, <1>2
    DEF TokensInv, TypeOK, Refresh, OnItsWay, Presents, Request, Tokens, NoToken
  <1>4. SerialInv'
    <2> SUFFICES ASSUME ~overlap', ~fault' PROVE SerialInv'
      BY DEF SerialInv
    <2>1. ~overlap /\ ~fault /\ Quiet
      BY DEF Refresh, TokensInv, TypeOK
    <2>2. \A p \in Requests : request'[p].pc = IF p = q THEN "validate" ELSE "idle"
      BY <2>1 DEF Refresh, Quiet, TokensInv, TypeOK
    <2>3. UNCHANGED <<stored, signed, cookie>>
      BY DEF Refresh
    <2>4. /\ stored = signed
          /\ stored # NoToken => \E d \in Clients : cookie[d] = stored
      BY <2>1 DEF SerialInv, Quiet
    <2>5. QED
      BY <2>2, <2>3, <2>4 DEF SerialInv
  <1>5. QED
    BY <1>3, <1>4

LEMMA ValidateStep ==
  ASSUME TokensInv, SerialInv, NEW q \in Requests, Validate(q)
  PROVE  /\ TokensInv' /\ SerialInv'
         /\ request'[q].pc = "invalidate" => request[q].presented \notin replaced
  <1>1. TypeOK'
    <2>1. CASE Current(q)
      <3>1. request[q] \in Request /\ request[q].presented \in Tokens
        BY <2>1 DEF TokensInv, TypeOK, Validate, Current, Presents, Request, Tokens, NoToken
      <3>2. request' \in [Requests -> Request]
        BY <2>1, <3>1, PassTyped DEF TokensInv, TypeOK, Validate, Current
      <3>3. accepted' \in [Tokens -> Nat]
        BY <2>1, <3>1 DEF TokensInv, TypeOK, Validate, Current
      <3>4. \A p \in Requests : /\ request'[p].presented = request[p].presented
                                /\ request'[p].token = request[p].token
        BY <2>1 DEF TokensInv, TypeOK, Validate, Current, Request
      <3>5. QED
        BY <3>2, <3>3, <3>4 DEF TokensInv, TypeOK, Validate, Current
    <2>2. CASE ~Current(q)
      <3>1. request[q].client \in Clients
        BY DEF TokensInv, TypeOK, Request
      <3>2. request' \in [Requests -> Request]
        BY <2>2, <3>1, IdleTyped DEF TokensInv, TypeOK, Validate, Current, Done
      <3>3. \A p \in Requests : {request'[p].presented, request'[p].token} \subseteq 0..signed
        BY <2>2, <3>1, IdleTyped DEF TokensInv, TypeOK, Validate, Current, Done, NoToken
      <3>4. QED
        BY <2>2, <3>2, <3>3 DEF TokensInv, TypeOK, Validate, Current
    <2>3. QED
      BY <2>1, <2>2
  <1>2. TokensInv'
    BY <1>1
    DEF TokensInv, TypeOK, Validate, Current, Done, Idle, OnItsWay, Presents, Request, NoToken
  <1>3. SerialInv'
    <2>1. \A p \in Requests :
             /\ request'[p].pc \in {"insert", "reply"} <=> request[p].pc \in {"insert", "reply"}
             /\ request'[p].pc \in {"insert", "reply"} => request'[p] = request[p]
             /\ request'[p].pc # "idle" => request[p].pc # "idle"
      BY DEF TokensInv, TypeOK, Validate, Current, Done, Idle, Request
    <2>2. UNCHANGED <<stored, signed, cookie, overlap, fault>>
      BY DEF Validate, Current
    <2>3. QED
      BY <2>1, <2>2 DEF SerialInv
  <1>4. request'[q].pc = "invalidate" => request[q].presented \notin replaced
    BY DEF TokensInv, TypeOK, Validate, Current, Done, Idle, Request
  <1>5. QED
    BY <1>2, <1>3, <1>4

LEMMA InvalidateStep ==
  ASSUME TokensInv, SerialInv, NEW q \in Requests, Invalidate(q)
  PROVE  TokensInv' /\ SerialInv'
  <1>1. request[q].presented \in 1..signed
    BY TokensAssumption DEF TokensInv, TypeOK, Invalidate, MakesToken, Deletes, Presents, NoToken
  <1>2. TypeOK'
    <2>1. request[q] \in Request /\ signed + 1 \in Tokens
      BY TokensAssumption DEF TokensInv, TypeOK, Invalidate, MakesToken, Deletes, Tokens
    <2>2. request' \in [Requests -> Request]
      BY <2>1, PassTyped DEF TokensInv, TypeOK, Invalidate, MakesToken, Deletes
    <2>3. \A p \in Requests :
             {request'[p].presented, request'[p].token} \subseteq 0..signed'
      BY DEF TokensInv, TypeOK, Invalidate, MakesToken, Deletes
    <2>4. signed' = signed + 1 /\ signed' \in 0..MaxTokens
      BY TokensAssumption DEF TokensInv, TypeOK, Invalidate, MakesToken, Deletes
    <2>5. replaced' \subseteq 1..signed' /\ cookie' \in [Clients -> 0..signed']
      BY <1>1, <2>4 DEF TokensInv, TypeOK, Invalidate, MakesToken, Deletes
    <2>6. stored' \in 0..signed' /\ lapsed' \in 0..signed'
      BY <2>4 DEF TokensInv, TypeOK, Invalidate, MakesToken, Deletes, NoToken
    <2>7. QED
      BY <2>2, <2>3, <2>4, <2>5, <2>6 DEF TokensInv, TypeOK, Invalidate, MakesToken, Deletes
  <1>3. TokensInv'
    <2>1. /\ signed + 1 \notin replaced /\ signed + 1 # NoToken
          /\ \A c \in Clients : cookie[c] # signed + 1
          /\ \A p \in Requests : /\ request[p].presented # signed + 1
                                /\ request[p].token # signed + 1
      BY DEF TokensInv, TypeOK, NoToken
    <2>2. /\ request'[q].pc = "insert" /\ request'[q].token = signed + 1
          /\ request'[q].presented = request[q].presented
          /\ \A p \in Requests : p # q => request'[p] = request[p]
          /\ stored' = NoToken /\ UNCHANGED cookie
          /\ replaced' = replaced \cup {request[q].presented}
      BY DEF Invalidate, MakesToken, Deletes, TokensInv, TypeOK
    <2>3. request[q].presented # NoToken /\ 0 \notin replaced
      BY <1>1 DEF TokensInv, TypeOK, NoToken
    <2>4. OnItsWay(q)' /\ Presents(q)'
      BY <2>1, <2>2, <2>3 DEF OnItsWay, Presents, NoToken
    <2>5. ASSUME NEW p \in Requests, p # q
          PROVE  OnItsWay(p)' /\ Presents(p)'
      <3>1. OnItsWay(p) /\ Presents(p)
        BY DEF TokensInv
      <3>2. QED
        BY <2>1, <2>2, <2>5, <3>1 DEF OnItsWay, Presents
    <2>6. stored' \notin replaced'
      BY <2>2, <2>3 DEF NoToken
    <2>7. QED
      BY <1>2, <2>4, <2>5, <2>6 DEF TokensInv
  <1>4. SerialInv'
    <2> SUFFICES ASSUME ~overlap', ~fault' PROVE SerialInv'
      BY DEF SerialInv
    <2>1. ~overlap /\ ~fault
      BY DEF Invalidate, MakesToken, Deletes
    <2>2. \A p \in Requests : p # q => request'[p] = request[p] /\ request[p].pc = "idle"
      BY <2>1 DEF SerialInv, Invalidate, MakesToken, Deletes, TokensInv, TypeOK
    <2>3. request'[q].pc = "insert" /\ request'[q].token = signed'
      BY DEF Invalidate, MakesToken, Deletes, TokensInv, TypeOK
    <2>4. QED
      BY <2>2, <2>3 DEF SerialInv
  <1>5. QED
    BY <1>3, <1>4

LEMMA InsertStep ==
  ASSUME TokensInv, SerialInv, NEW q \in Requests, Insert(q)
  PROVE  TokensInv' /\ SerialInv'
  <1>1. TypeOK'
    BY DEF TokensInv, TypeOK, Insert, Request
  <1>2. TokensInv'
    BY <1>1 DEF TokensInv, TypeOK, Insert, OnItsWay, Presents, Request
  <1>3. SerialInv'
    BY DEF TokensInv, TypeOK, SerialInv, Insert, Request
  <1>4. QED
    BY <1>2, <1>3

LEMMA ReplyStep ==
  ASSUME TokensInv, SerialInv, NEW q \in Requests, Reply(q)
  PROVE  TokensInv' /\ SerialInv'
  <1>1. request[q].client \in Clients /\ request[q].token \in 0..signed
    BY DEF TokensInv, TypeOK, Reply, KeepsEntry, Request
  <1>2. TypeOK'
    BY <1>1 DEF TokensInv, TypeOK, Reply, KeepsEntry, Done, Idle, Request, NoToken
  <1>3. TokensInv'
    BY <1>1, <1>2
    DEF TokensInv, TypeOK, Reply, KeepsEntry, Done, Idle, OnItsWay, Presents, Request, NoToken
  <1>4. SerialInv'
    BY <1>1 DEF TokensInv, TypeOK, SerialInv, Reply, KeepsEntry, Done, Idle, Request, NoToken
  <1>5. QED
    BY <1>3, <1>4

\* A request that ends without a reply: the SET is refused or the client gone.
LEMMA FailStep ==
  ASSUME TokensInv, NEW q \in Requests, InsertRefused(q) \/ ReplyLost(q)
  PROVE  TokensInv' /\ SerialInv'
  <1>1. TypeOK'
    <2>1. request[q].client \in Clients
      BY DEF TokensInv, TypeOK, Request
    <2>2. request' \in [Requests -> Request]
      BY <2>1, IdleTyped DEF TokensInv, TypeOK, InsertRefused, ReplyLost, Done
    <2>3. \A p \in Requests : {request'[p].presented, request'[p].token} \subseteq 0..signed
      BY <2>1, IdleTyped
      DEF TokensInv, TypeOK, InsertRefused, ReplyLost, Done, NoToken
    <2>4. QED
      BY <2>2, <2>3 DEF TokensInv, TypeOK, InsertRefused, ReplyLost
  <1>2. TokensInv'
    BY <1>1
    DEF TokensInv, TypeOK, InsertRefused, ReplyLost, Done, Idle, OnItsWay, Presents,
        Request, NoToken
  <1>3. QED
    BY <1>2 DEF SerialInv, InsertRefused, ReplyLost

LEMMA OtherStep ==
  ASSUME TokensInv, SerialInv,
         Lapse \/ Exit \/ (Restart /\ (~fault => up)) \/ UNCHANGED vars
  PROVE  TokensInv' /\ SerialInv'
  <1>1. CASE Lapse
    BY <1>1, TokensAssumption
    DEF TokensInv, TypeOK, SerialInv, Lapse, OnItsWay, Presents
  <1>2. CASE Exit
    <2>1. TypeOK'
      <3>1. \A q \in Requests : request[q].client \in Clients
        BY DEF TokensInv, TypeOK, Request
      <3>2. \A q \in Requests : request'[q] \in Request
                                /\ request'[q].presented = 0 /\ request'[q].token = 0
        BY <1>2, <3>1, IdleTyped DEF Exit, NoToken
      <3>3. request' \in [Requests -> Request]
        BY <1>2, <3>2 DEF Exit
      <3>4. \A q \in Requests : {request'[q].presented, request'[q].token} \subseteq 0..signed
        BY <3>2 DEF TokensInv, TypeOK
      <3>5. exits' \in 0..MaxExits
        BY <1>2, TokensAssumption DEF TokensInv, TypeOK, Exit
      <3>6. QED
        BY <1>2, <3>3, <3>4, <3>5 DEF TokensInv, TypeOK, Exit
    <2>2. TokensInv'
      BY <1>2, <2>1 DEF TokensInv, Exit, Idle, OnItsWay, Presents, NoToken
    <2>3. QED
      BY <1>2, <2>2 DEF SerialInv, Exit
  <1>3. CASE Restart /\ (~fault => up)
    <2>1. TypeOK'
      BY <1>3 DEF TokensInv, TypeOK, Restart, NoToken
    <2>2. TokensInv'
      BY <1>3, <2>1 DEF TokensInv, TypeOK, Restart, OnItsWay, Presents, NoToken
    <2>3. QED
      BY <1>3, <2>2 DEF SerialInv, Restart
  <1>4. CASE UNCHANGED vars
    BY <1>4 DEF TokensInv, TypeOK, SerialInv, vars, OnItsWay, Presents
  <1>5. QED
    BY <1>1, <1>2, <1>3, <1>4

-----------------------------------------------------------------------------
(* The theorems                                                            *)

\* The process is only down after a fault.
DownAfterFault == ~fault => up

IInv == TokensInv /\ SerialInv /\ DownAfterFault

LEMMA NextTokens ==
  ASSUME IInv, [Next]_vars
  PROVE  IInv'
  <1>1. DownAfterFault'
    BY DEF IInv, DownAfterFault, Next, vars, SignIn, MakesToken, Refresh, Validate, Current, Invalidate, Deletes,
           Insert, InsertRefused, Reply, KeepsEntry, ReplyLost, Lapse, Exit, Restart
  <1>2. TokensInv' /\ SerialInv'
    BY SignInStep, RefreshStep, ValidateStep, InvalidateStep, InsertStep,
       ReplyStep, FailStep, OtherStep
    DEF IInv, DownAfterFault, Next
  <1>3. QED
    BY <1>1, <1>2 DEF IInv

LEMMA Invariant == Spec => []IInv
  <1>1. Init => IInv
    BY InitTokens DEF IInv, DownAfterFault, Init
  <1>2. IInv /\ [Next]_vars => IInv'
    BY NextTokens
  <1>3. QED
    BY <1>1, <1>2, PTL DEF Spec

\* Every variable keeps its type, for any number of browsers and requests.
THEOREM TypeCorrect == Spec => []TypeOK
  <1>1. IInv => TypeOK
    BY DEF IInv, TokensInv
  <1>2. QED
    BY Invariant, <1>1, PTL

\* Requests that do not overlap leave the newest token stored and held.
THEOREM SerialRequestsKeepSession == Spec => []SerialSessionSurvives
  <1>1. IInv => SerialSessionSurvives
    BY DEF IInv, SerialInv, SerialSessionSurvives, Quiet
  <1>2. QED
    BY Invariant, <1>1, PTL

\* However requests race, a token whose exchange has deleted the entry is not
\* accepted again.
THEOREM ReplacedTokenStaysReplaced == Spec => ReplacedNeverAccepted
  <1> DEFINE Step ==
        \A q \in Requests :
           request[q].pc = "validate" /\ request'[q].pc = "invalidate"
              => request[q].presented \notin replaced
  <1>1. ASSUME IInv, Next PROVE Step
    <2> SUFFICES ASSUME NEW q \in Requests,
                        request[q].pc = "validate", request'[q].pc = "invalidate"
                 PROVE  request[q].presented \notin replaced
      OBVIOUS
    <2>1. request \in [Requests -> Request]
      BY <1>1 DEF IInv, TokensInv, TypeOK
    <2>2. Validate(q)
      BY <1>1, <2>1 DEF Next, SignIn, MakesToken, Refresh, Validate, Current, Invalidate, Deletes, Insert,
         InsertRefused, Reply, KeepsEntry, ReplyLost, Lapse, Exit, Restart, Done, Idle, Request
    <2>3. QED
      BY <1>1, <2>2, ValidateStep DEF IInv
  <1>2. IInv /\ [Next]_vars => [Step]_vars
    BY <1>1
  <1>3. QED
    BY Invariant, <1>2, PTL DEF Spec, ReplacedNeverAccepted

-----------------------------------------------------------------------------
(* Refinement of TokenLifecycle                                            *)

\* A request is about to replace a token only if GET let it pass.
PassedBefore ==
    \A q \in Requests :
        request[q].pc = "invalidate" => accepted[request[q].presented] > 0

LEMMA PassedStep ==
  ASSUME TokensInv, PassedBefore, [Next]_vars
  PROVE  PassedBefore'
  <1> SUFFICES ASSUME NEW q \in Requests, request'[q].pc = "invalidate"
               PROVE  accepted'[request'[q].presented] > 0
    BY DEF PassedBefore
  <1> USE DEF TokensInv, TypeOK, Request
  <1>1. ASSUME NEW p \in Requests, Validate(p)
        PROVE  accepted'[request'[q].presented] > 0
    <2>1. CASE p = q
      <3>1. Current(q) /\ request'[q].presented = request[q].presented
        BY <1>1, <2>1 DEF Validate, Current, Done, Idle
      <3>2. request[q].presented \in Tokens
        BY <1>1, <2>1 DEF Validate, Presents, Tokens, NoToken
      <3>3. accepted[request[q].presented] \in Nat
        BY <3>2
      <3>4. QED
        BY <1>1, <2>1, <3>1, <3>2, <3>3 DEF Validate
    <2>2. CASE p # q
      <3>1. request'[q] = request[q]
        BY <1>1, <2>2 DEF Validate, Done
      <3>2. request[q].presented \in Tokens
        BY <3>1 DEF Presents, Tokens, NoToken
      <3>3. accepted[request[q].presented] \in Nat
        BY <3>2
      <3>4. accepted[request[q].presented] > 0
        BY <3>1 DEF PassedBefore
      <3>5. \/ accepted' = accepted
            \/ accepted' = [accepted EXCEPT ![request[p].presented] = @ + 1]
        BY <1>1 DEF Validate
      <3>6. QED
        BY <3>1, <3>2, <3>3, <3>4, <3>5
    <2>3. QED
      BY <2>1, <2>2
  <1>2. CASE \A p \in Requests : ~ Validate(p)
    <2>1. accepted' = accepted /\ request'[q] = request[q]
      BY <1>2 DEF Next, vars, SignIn, MakesToken, Refresh, Invalidate, Deletes, Insert,
         InsertRefused, Reply, KeepsEntry, ReplyLost, Lapse, Exit, Restart, Done, Idle
    <2>2. QED
      BY <2>1 DEF PassedBefore
  <1>3. QED
    BY <1>1, <1>2

\* Token t is on its way to the entry.
Carried(t) == \E q \in Requests : request[q].pc = "insert" /\ request[q].token = t

\* The stages of a token exclude one another.
LEMMA StageKnown ==
  ASSUME TokensInv, NEW t \in Tokens
  PROVE  /\ TokenStage[t] \in {"unmade", "live", "pending", "dead"}
         /\ TokenStage[t] = "unmade" <=> t > signed
         /\ TokenStage[t] = "live" <=> t = stored
         /\ TokenStage[t] = "pending" <=> Carried(t)
  <1>1. TokenStage[t] = StageOf(t)
    BY DEF TokenStage
  <1>2. Carried(t) => t # stored /\ ~(t > signed)
    BY DEF Carried, TokensInv, TypeOK, OnItsWay, Tokens
  <1>3. ~(stored > signed)
    BY TokensAssumption DEF TokensInv, TypeOK
  <1>4. QED
    BY <1>1, <1>2, <1>3 DEF StageOf, Carried

\* Steps of the process that neither make, store, pass nor lose a token.
LEMMA SameStages ==
  ASSUME TokensInv, TokensInv', UNCHANGED <<stored, signed, accepted, replaced>>,
         \A t \in Tokens : Carried(t)' <=> Carried(t)
  PROVE  UNCHANGED Life!lvars
  <1>1. \A t \in Tokens : StageOf(t)' = StageOf(t)
    BY DEF StageOf, Carried
  <1>2. TokenStage' = TokenStage
    BY <1>1 DEF TokenStage
  <1>3. QED
    BY <1>2 DEF Life!lvars

\* A request whose token was made just now carries it, and nothing else moves.
LEMMA MadeCarried ==
  ASSUME TokensInv, NEW q \in Requests, request[q].pc # "insert",
         request'[q].pc = "insert", request'[q].token = signed + 1,
         \A p \in Requests : p # q => request'[p] = request[p],
         NEW t \in Tokens
  PROVE  Carried(t)' <=> t = signed + 1 \/ Carried(t)
  BY DEF Carried

LEMMA SignInSigns ==
  ASSUME TokensInv, TokensInv', NEW q \in Requests, NEW c \in Clients, SignIn(q, c)
  PROVE  signed + 1 \in Tokens /\ Life!Sign(signed + 1)
  <1>1. signed + 1 \in Tokens /\ signed \in Nat
    BY TokensAssumption DEF SignIn, TokensInv, TypeOK, Tokens
  <1>2. /\ request[q].pc # "insert" /\ request'[q].pc = "insert"
        /\ request'[q].token = signed + 1
        /\ \A p \in Requests : p # q => request'[p] = request[p]
        /\ signed' = signed + 1 /\ UNCHANGED <<stored, accepted, replaced>>
    BY DEF SignIn, MakesToken, TokensInv, TypeOK
  <1>3. \A t \in Tokens : Carried(t)' <=> t = signed + 1 \/ Carried(t)
    BY <1>2, MadeCarried
  <1>4. TokenStage[signed + 1] = "unmade"
    BY <1>1, StageKnown
  <1>5. ASSUME NEW t \in Tokens
        PROVE  TokenStage'[t] = IF t = signed + 1 THEN "pending" ELSE TokenStage[t]
    <2>1. t > signed' <=> t > signed /\ t # signed + 1
      BY <1>1, <1>2 DEF Tokens
    <2>2. stored # signed + 1 /\ ~(signed + 1 > signed')
      BY <1>1, <1>2 DEF TokensInv, TypeOK
    <2>3. TokenStage'[t] = StageOf(t)' /\ TokenStage[t] = StageOf(t)
      BY DEF TokenStage
    <2>4. QED
      BY <1>2, <1>3, <2>1, <2>2, <2>3 DEF StageOf, Carried
  <1>6. TokenStage' = [u \in Tokens |->
            IF u = signed + 1 THEN "pending" ELSE IF u \in {} THEN "dead" ELSE TokenStage[u]]
    BY <1>5 DEF TokenStage
  <1>7. QED
    BY <1>1, <1>2, <1>4, <1>6 DEF Life!Sign, Life!Moved

LEMMA ValidateAccepts ==
  ASSUME TokensInv, TokensInv', NEW q \in Requests, Validate(q)
  PROVE  \/ request[q].presented \in Tokens /\ Life!Accept(request[q].presented)
         \/ UNCHANGED Life!lvars
  <1>1. /\ \A p \in Requests : p # q => request'[p] = request[p]
        /\ request[q].pc # "insert" /\ request'[q].pc # "insert"
        /\ UNCHANGED <<stored, signed, replaced>>
    BY DEF Validate, Done, Idle, TokensInv, TypeOK, Request
  <1>2. \A t \in Tokens : Carried(t)' <=> Carried(t)
    BY <1>1 DEF Carried
  <1>3. CASE Current(q)
    <2>1. request[q].presented \in Tokens
      BY <1>3 DEF Validate, Presents, TokensInv, TypeOK, Request, Tokens, NoToken
    <2>2. TokenStage[request[q].presented] = "live"
      BY <1>3, <2>1, StageKnown DEF Current
    <2>3. \A t \in Tokens : StageOf(t)' = StageOf(t)
      BY <1>1, <1>2 DEF StageOf, Carried
    <2>4. TokenStage' = TokenStage
      BY <2>3 DEF TokenStage
    <2>5. accepted' = [accepted EXCEPT ![request[q].presented] = @ + 1]
      BY <1>3 DEF Validate
    <2>6. QED
      BY <1>1, <2>1, <2>2, <2>4, <2>5 DEF Life!Accept
  <1>4. CASE ~ Current(q)
    BY <1>1, <1>2, <1>4, SameStages DEF Validate
  <1>5. QED
    BY <1>3, <1>4

LEMMA InvalidateExchanges ==
  ASSUME TokensInv, TokensInv', PassedBefore, NEW q \in Requests, Invalidate(q)
  PROVE  /\ request[q].presented \in Tokens /\ signed + 1 \in Tokens
         /\ Life!Exchange(request[q].presented, signed + 1)
  <1>1. signed + 1 \in Tokens /\ signed \in Nat
    BY TokensAssumption DEF Invalidate, TokensInv, TypeOK, Tokens
  <1>2. /\ request[q].pc = "invalidate" /\ request'[q].pc = "insert"
        /\ request'[q].token = signed + 1
        /\ \A p \in Requests : p # q => request'[p] = request[p]
        /\ signed' = signed + 1 /\ stored' = NoToken
        /\ replaced' = replaced \cup {request[q].presented}
        /\ UNCHANGED accepted
    BY DEF Invalidate, MakesToken, Deletes, TokensInv, TypeOK
  <1>3. \A t \in Tokens : Carried(t)' <=> t = signed + 1 \/ Carried(t)
    BY <1>2, MadeCarried
  <1>4. TokenStage[signed + 1] = "unmade"
    BY <1>1, StageKnown
  <1>5. request[q].presented \in Tokens /\ request[q].presented <= signed
    BY <1>1, <1>2 DEF TokensInv, TypeOK, Request, Presents, Tokens, NoToken
  <1>6. accepted[request[q].presented] > 0
    BY <1>2 DEF PassedBefore
  <1>7. TokenStage[request[q].presented] \in {"live", "dead"}
    <2>1. ~ Carried(request[q].presented)
      BY DEF Carried, TokensInv, OnItsWay
    <2>2. ~(request[q].presented > signed)
      BY <1>1, <1>5 DEF Tokens
    <2>3. QED
      BY <1>5, <2>1, <2>2, StageKnown
  <1>8. ASSUME NEW t \in Tokens
        PROVE  TokenStage'[t] =
                 IF t = signed + 1 THEN "pending"
                 ELSE IF t \in Life!Live THEN "dead" ELSE TokenStage[t]
    <2>1. t > signed' <=> t > signed /\ t # signed + 1
      BY <1>1, <1>2 DEF Tokens
    <2>2. ~(signed + 1 > signed') /\ t # stored' /\ stored <= signed
      BY <1>1, <1>2 DEF TokensInv, TypeOK, Tokens, NoToken
    <2>3. t \in Life!Live <=> t = stored
      BY StageKnown DEF Life!Live
    <2>4. TokenStage'[t] = StageOf(t)' /\ TokenStage[t] = StageOf(t)
      BY DEF TokenStage
    <2>5. t = stored => ~ Carried(t) /\ ~(t > signed)
      BY StageKnown
    <2>6. TokenStage'[t] =
            IF t > signed' THEN "unmade" ELSE IF Carried(t)' THEN "pending" ELSE "dead"
      BY <2>2, <2>4 DEF StageOf, Carried
    <2>7. TokenStage[t] =
            IF t > signed THEN "unmade" ELSE IF t = stored THEN "live"
            ELSE IF Carried(t) THEN "pending" ELSE "dead"
      BY <2>4 DEF StageOf, Carried
    <2>8. CASE t = signed + 1
      BY <1>2, <1>3, <2>2, <2>6, <2>8
    <2>9. CASE t # signed + 1
      BY <1>3, <2>1, <2>3, <2>5, <2>6, <2>7, <2>9
    <2>10. QED
      BY <2>8, <2>9
  <1>9. TokenStage' = [u \in Tokens |->
            IF u = signed + 1 THEN "pending"
            ELSE IF u \in Life!Live THEN "dead" ELSE TokenStage[u]]
    BY <1>8 DEF TokenStage
  <1>10. QED
    BY <1>1, <1>2, <1>4, <1>5, <1>6, <1>7, <1>9 DEF Life!Exchange, Life!Moved

LEMMA InsertStores ==
  ASSUME TokensInv, TokensInv', NEW q \in Requests, Insert(q)
  PROVE  request[q].token \in Tokens /\ Life!Store(request[q].token)
  <1>1. /\ request[q].pc = "insert" /\ request'[q].pc = "reply"
        /\ \A p \in Requests : p # q => request'[p] = request[p]
        /\ stored' = request[q].token
        /\ UNCHANGED <<signed, accepted, replaced>>
    BY DEF Insert, TokensInv, TypeOK, Request
  <1>2. request[q].token \in Tokens
    BY <1>1 DEF TokensInv, TypeOK, OnItsWay, Request, Tokens, NoToken
  <1>3. TokenStage[request[q].token] = "pending"
    BY <1>1, <1>2, StageKnown DEF Carried
  <1>4. ASSUME NEW t \in Tokens
        PROVE  Carried(t)' <=> t # request[q].token /\ Carried(t)
    <2>1. \A p \in Requests : p # q => request[p].token # request[q].token
      BY <1>1 DEF TokensInv, OnItsWay
    <2>2. QED
      BY <1>1, <2>1 DEF Carried
  <1>5. ASSUME NEW t \in Tokens
        PROVE  TokenStage'[t] =
                 IF t = request[q].token THEN "live"
                 ELSE IF t \in Life!Live THEN "dead" ELSE TokenStage[t]
    <2>1. t \in Life!Live <=> t = stored
      BY StageKnown DEF Life!Live
    <2>2. TokenStage'[t] = StageOf(t)' /\ TokenStage[t] = StageOf(t)
      BY DEF TokenStage
    <2>3. t = stored => ~ Carried(t) /\ ~(t > signed)
      BY StageKnown
    <2>4. t = request[q].token => ~(t > signed)
      BY <1>1, StageKnown DEF Carried
    <2>5. TokenStage'[t] =
            IF t > signed THEN "unmade" ELSE IF t = request[q].token THEN "live"
            ELSE IF Carried(t) THEN "pending" ELSE "dead"
      BY <1>1, <1>4, <2>2 DEF StageOf, Carried
    <2>6. TokenStage[t] =
            IF t > signed THEN "unmade" ELSE IF t = stored THEN "live"
            ELSE IF Carried(t) THEN "pending" ELSE "dead"
      BY <2>2 DEF StageOf, Carried
    <2>7. QED
      BY <2>1, <2>3, <2>4, <2>5, <2>6
  <1>6. TokenStage' = [u \in Tokens |->
            IF u = request[q].token THEN "live"
            ELSE IF u \in Life!Live THEN "dead" ELSE TokenStage[u]]
    BY <1>5 DEF TokenStage
  <1>7. QED
    BY <1>1, <1>2, <1>3, <1>6 DEF Life!Store, Life!Moved

\* Whatever is forgotten at once, by Redis or with the process, is lost.
LEMMA ForgottenLost ==
  ASSUME TokensInv, UNCHANGED <<signed, accepted, replaced>>,
         NEW S \in SUBSET Tokens,
         \A t \in S : t = stored \/ Carried(t),
         \A t \in Tokens : t = stored' <=> t = stored /\ t \notin S,
         \A t \in Tokens : Carried(t)' <=> Carried(t) /\ t \notin S
  PROVE  Life!Lose(S)
  <1>1. \A t \in S : TokenStage[t] \in {"pending", "live"}
    BY StageKnown
  <1>2. ASSUME NEW t \in Tokens
        PROVE  TokenStage'[t] = IF t \in S THEN "dead" ELSE TokenStage[t]
    <2>1. TokenStage'[t] = StageOf(t)' /\ TokenStage[t] = StageOf(t)
      BY DEF TokenStage
    <2>2. t \in S => ~(t > signed)
      BY StageKnown
    <2>3. TokenStage'[t] =
            IF t > signed THEN "unmade" ELSE IF t = stored /\ t \notin S THEN "live"
            ELSE IF Carried(t) /\ t \notin S THEN "pending" ELSE "dead"
      BY <2>1 DEF StageOf, Carried
    <2>4. TokenStage[t] =
            IF t > signed THEN "unmade" ELSE IF t = stored THEN "live"
            ELSE IF Carried(t) THEN "pending" ELSE "dead"
      BY <2>1 DEF StageOf, Carried
    <2>5. QED
      BY <2>2, <2>3, <2>4
  <1>3. TokenStage' = [u \in Tokens |-> IF u \in S THEN "dead" ELSE TokenStage[u]]
    BY <1>2 DEF TokenStage
  <1>4. QED
    BY <1>1, <1>3 DEF Life!Lose

LEMMA RefusedLoses ==
  ASSUME TokensInv, TokensInv', NEW q \in Requests, InsertRefused(q)
  PROVE  {request[q].token} \subseteq Tokens /\ Life!Lose({request[q].token})
  <1>1. /\ request[q].pc = "insert" /\ request'[q].pc # "insert"
        /\ \A p \in Requests : p # q => request'[p] = request[p]
        /\ UNCHANGED <<stored, signed, accepted, replaced>>
    BY DEF InsertRefused, Done, Idle, TokensInv, TypeOK
  <1>2. request[q].token \in Tokens /\ stored # request[q].token
    BY <1>1 DEF TokensInv, TypeOK, OnItsWay, Request, Tokens, NoToken
  <1>3. \A p \in Requests : p # q => request[p].token # request[q].token
    BY <1>1 DEF TokensInv, OnItsWay
  <1>4. \A t \in Tokens : Carried(t)' <=> Carried(t) /\ t \notin {request[q].token}
    BY <1>1, <1>3 DEF Carried
  <1>5. \A t \in {request[q].token} : t = stored \/ Carried(t)
    BY <1>1 DEF Carried
  <1>6. \A t \in Tokens : t = stored' <=> t = stored /\ t \notin {request[q].token}
    BY <1>1, <1>2
  <1>7. QED
    BY <1>1, <1>2, <1>4, <1>5, <1>6, ForgottenLost

LEMMA ExitLoses ==
  ASSUME TokensInv, TokensInv', Exit
  PROVE  \E S \in SUBSET Tokens : Life!Lose(S)
  <1> DEFINE S == {t \in Tokens : Carried(t)}
  <1>1. \A q \in Requests : request'[q].pc # "insert"
    BY DEF Exit, Idle
  <1>2. UNCHANGED <<stored, signed, accepted, replaced>>
    BY DEF Exit
  <1>3. \A t \in Tokens : Carried(t)' <=> Carried(t) /\ t \notin S
    BY <1>1 DEF Carried
  <1>4. \A t \in S : t # stored
    BY DEF Carried, TokensInv, OnItsWay
  <1>5. Life!Lose(S)
    BY <1>2, <1>3, <1>4, ForgottenLost
  <1>6. QED
    BY <1>5

LEMMA RestartLoses ==
  ASSUME TokensInv, TokensInv', Restart
  PROVE  \E S \in SUBSET Tokens : Life!Lose(S)
  <1> DEFINE S == {t \in Tokens : t = stored /\ t # stored'}
  <1>1. UNCHANGED <<request, signed, accepted, replaced>>
    BY DEF Restart
  <1>2. \A t \in Tokens : t = stored' <=> t = stored /\ t \notin S
    BY DEF Restart, Tokens, NoToken
  <1>3. \A t \in S : t = stored /\ ~ Carried(t)
    BY DEF Carried, TokensInv, OnItsWay
  <1>4. \A t \in Tokens : Carried(t)' <=> Carried(t) /\ t \notin S
    BY <1>1, <1>3 DEF Carried
  <1>5. Life!Lose(S)
    BY <1>1, <1>2, <1>3, <1>4, ForgottenLost
  <1>6. QED
    BY <1>5

\* A refresh that begins, a reply, a reply that is lost, the life of a token.
LEMMA RestIsStutter ==
  ASSUME TokensInv, TokensInv',
         \/ \E q \in Requests, c \in Clients : Refresh(q, c)
         \/ \E q \in Requests : Reply(q) \/ ReplyLost(q)
         \/ Lapse
         \/ UNCHANGED vars
  PROVE  UNCHANGED Life!lvars
  <1>1. UNCHANGED <<stored, signed, accepted, replaced>>
    BY DEF Refresh, Reply, KeepsEntry, ReplyLost, Lapse, vars
  <1>2. \A p \in Requests : \/ request'[p] = request[p]
                            \/ request[p].pc # "insert" /\ request'[p].pc # "insert"
    <2>1. request \in [Requests -> Request]
      BY DEF TokensInv, TypeOK
    <2>2. ASSUME NEW q \in Requests, NEW c \in Clients, Refresh(q, c)
          PROVE  \A p \in Requests : \/ request'[p] = request[p]
                                     \/ request[p].pc # "insert" /\ request'[p].pc # "insert"
      BY <2>1, <2>2 DEF Refresh
    <2>3. ASSUME NEW q \in Requests, Reply(q) \/ ReplyLost(q)
          PROVE  \A p \in Requests : \/ request'[p] = request[p]
                                     \/ request[p].pc # "insert" /\ request'[p].pc # "insert"
      BY <2>1, <2>3 DEF Reply, ReplyLost, Done, Idle
    <2>4. CASE UNCHANGED request
      BY <2>4
    <2>5. QED
      BY <2>2, <2>3, <2>4 DEF Lapse, vars
  <1>3. \A t \in Tokens : Carried(t)' <=> Carried(t)
    BY <1>2 DEF Carried
  <1>4. QED
    BY <1>1, <1>3, SameStages

LEMMA StepOfLife ==
  ASSUME TokensInv, TokensInv', PassedBefore, [Next]_vars
  PROVE  [Life!LifeNext]_(Life!lvars)
  <1>1. ASSUME NEW q \in Requests, NEW c \in Clients, SignIn(q, c)
        PROVE  Life!LifeNext
    BY <1>1, SignInSigns DEF Life!LifeNext
  <1>2. ASSUME NEW q \in Requests, Validate(q)
        PROVE  [Life!LifeNext]_(Life!lvars)
    BY <1>2, ValidateAccepts DEF Life!LifeNext
  <1>3. ASSUME NEW q \in Requests, Invalidate(q)
        PROVE  Life!LifeNext
    BY <1>3, InvalidateExchanges DEF Life!LifeNext
  <1>4. ASSUME NEW q \in Requests, Insert(q)
        PROVE  Life!LifeNext
    BY <1>4, InsertStores DEF Life!LifeNext
  <1>5. ASSUME NEW q \in Requests, InsertRefused(q)
        PROVE  Life!LifeNext
    BY <1>5, RefusedLoses DEF Life!LifeNext
  <1>6. CASE Exit \/ Restart
    BY <1>6, ExitLoses, RestartLoses DEF Life!LifeNext
  <1>7. CASE \/ \E q \in Requests, c \in Clients : Refresh(q, c)
             \/ \E q \in Requests : Reply(q) \/ ReplyLost(q)
             \/ Lapse
             \/ UNCHANGED vars
    BY <1>7, RestIsStutter
  <1>8. QED
    BY <1>1, <1>2, <1>3, <1>4, <1>5, <1>6, <1>7 DEF Next

\* GET, DEL and SET, raced by any number of requests and cut off by exits and
\* refusals, implement the lifecycle of TokenLifecycle.
THEOREM ExchangeImplementsLifecycle == Spec => ImplementsLifecycle
  <1>1. Init => Life!LifeInit /\ PassedBefore
    <2> SUFFICES ASSUME Init PROVE Life!LifeInit /\ PassedBefore
      OBVIOUS
    <2>1. \A q \in Requests : request[q].pc = "idle"
      BY DEF Init, Idle
    <2>2. \A t \in Tokens : StageOf(t) = "unmade"
      BY DEF Init, StageOf, Tokens
    <2>3. TokenStage = [t \in Tokens |-> "unmade"]
      BY <2>2 DEF TokenStage
    <2>4. QED
      BY <2>1, <2>3 DEF Init, Life!LifeInit, PassedBefore
  <1>2. IInv /\ IInv' /\ PassedBefore /\ [Next]_vars => PassedBefore'
    BY PassedStep DEF IInv
  <1>3. IInv /\ IInv' /\ PassedBefore /\ [Next]_vars
          => [Life!LifeNext]_(Life!lvars)
    BY StepOfLife DEF IInv
  <1>4. QED
    BY <1>1, <1>2, <1>3, Invariant, PTL DEF Spec, ImplementsLifecycle, Life!LifeSpec

\* A token that was replaced, overwritten or lost is dead, and stays so: it is
\* never stored again and no further request is accepted with it.
THEOREM DeadTokensStayDead == Spec => Life!DeadForEver
  <1> DEFINE Step ==
        \A t \in Tokens : TokenStage[t] = "dead" =>
            TokenStage'[t] = "dead" /\ accepted'[t] = accepted[t]
  <1>1. ASSUME IInv, [Life!LifeNext]_(Life!lvars) PROVE [Step]_(Life!lvars)
    <2> SUFFICES ASSUME Life!LifeNext, NEW t \in Tokens, TokenStage[t] = "dead"
                 PROVE  TokenStage'[t] = "dead" /\ accepted'[t] = accepted[t]
      BY <1>1
    <2>1. ASSUME NEW u \in Tokens, Life!Sign(u) \/ Life!Store(u)
          PROVE  TokenStage'[t] = "dead" /\ accepted'[t] = accepted[t]
      BY <2>1 DEF Life!Sign, Life!Store, Life!Moved, Life!Live
    <2>2. ASSUME NEW u \in Tokens, Life!Accept(u)
          PROVE  TokenStage'[t] = "dead" /\ accepted'[t] = accepted[t]
      <3>1. t # u /\ accepted \in [Tokens -> Nat]
        BY <1>1, <2>2 DEF Life!Accept, IInv, TokensInv, TypeOK
      <3>2. QED
        BY <2>2, <3>1 DEF Life!Accept
    <2>3. ASSUME NEW old \in Tokens, NEW u \in Tokens, Life!Exchange(old, u)
          PROVE  TokenStage'[t] = "dead" /\ accepted'[t] = accepted[t]
      BY <2>3 DEF Life!Exchange, Life!Moved, Life!Live
    <2>4. ASSUME NEW S \in SUBSET Tokens, Life!Lose(S)
          PROVE  TokenStage'[t] = "dead" /\ accepted'[t] = accepted[t]
      BY <2>4 DEF Life!Lose
    <2>5. QED
      BY <2>1, <2>2, <2>3, <2>4 DEF Life!LifeNext
  <1>2. IInv /\ [Life!LifeNext]_(Life!lvars) => [Step]_(Life!lvars)
    BY <1>1
  <1>3. QED
    BY <1>2, Invariant, ExchangeImplementsLifecycle, PTL
    DEF ImplementsLifecycle, Life!LifeSpec, Life!DeadForEver

\* A token a new one was made for can no longer be exchanged.
THEOREM SpentTokensAreDead == Spec => []Life!SpentIsDead
  <1>1. IInv => Life!SpentIsDead
    <2> SUFFICES ASSUME IInv, NEW t \in replaced PROVE TokenStage[t] = "dead"
      BY DEF Life!SpentIsDead
    <2>1. t \in Tokens /\ ~(t > signed)
      BY TokensAssumption DEF IInv, TokensInv, TypeOK, Tokens
    <2>2. t # stored /\ ~ Carried(t)
      BY DEF IInv, TokensInv, OnItsWay, Carried
    <2>3. QED
      BY <2>1, <2>2, StageKnown DEF IInv
  <1>2. QED
    BY <1>1, Invariant, PTL

=============================================================================
