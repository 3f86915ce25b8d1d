----------------------- MODULE EmailVerificationProofs -----------------------
(* Theorems about EmailVerification, for every set of requests and sign-ups *)
(* and every number of codes and faults.                                    *)
EXTENDS EmailVerification, TLAPS

-----------------------------------------------------------------------------
(* The inductive invariants                                                 *)

\* The strengthening that makes WaitingHasCode inductive.  Until something
\* fails a waiting account has a code, or a request is going to set one, or the
\* account is about to be verified; a request that carries a code has one; and
\* what is stored has been mailed or will be.
Setting == {q \in Requests :
              request[q].pc \in {"create", "set", "get", "drop", "both", "set only"}}

Verifying == updating \/ \E q \in Requests : request[q].pc = "update"

CodesCarried ==
    \A q \in Requests :
        request[q].pc \in {"set", "mail", "both", "set only", "mail only"} =>
            request[q].code # NoCode

VerifyingExists ==
    /\ updating => account # None
    /\ \A q \in Requests :
          request[q].pc \in {"compare", "use", "update"} => account # None

WaitingSettled ==
    \/ account = None /\ inserts = {}
    \/ verified \/ code # NoCode \/ Setting # {} \/ Verifying

MailFirst ==
    \A q \in Requests :
        request[q].pc = "set only" => request[q].code \in mailing \cup mailbox

StoredMailed ==
    \/ code = NoCode \/ code \in mailing \cup mailbox
    \/ \E q \in Requests :
          request[q].pc \in {"mail", "mail only"} /\ request[q].code = code

CodeInv ==
    /\ CodesCarried /\ VerifyingExists
    /\ faults = 0 => WaitingSettled /\ MailFirst /\ StoredMailed

\* The strengthening that makes SignUpsKeptApart inductive.  Until something
\* fails or two sign-ups overlap, one is in progress at a time, its document
\* is not written yet, on its way or stored, and whoever was answered is
\* stored or on the way.
SignUpInv ==
    faults = 0 /\ ~overlap =>
        /\ \A q, r \in SigningUp : q = r
        /\ \A q \in SigningUp :
              /\ answered = {}
              /\ \/ account = None /\ inserts = {}
                    /\ request[q].pc = "create"
                 \/ account = None /\ inserts = {request[q].who}
                    /\ request[q].pc # "create"
                 \/ account = request[q].who /\ inserts = {}
                    /\ request[q].pc # "create"
        /\ SigningUp = {} =>
              \/ inserts = {} /\ answered = (IF account = None THEN {} ELSE {account})
              \/ account = None /\ \E s \in SignUps : inserts = {s} /\ answered = {s}

-----------------------------------------------------------------------------
(* What a request is doing after a step of its own                          *)

Pcs == {"idle", "create", "set", "mail", "get", "drop", "both",
        "set only", "mail only", "compare", "use", "update"}

LEMMA RecordTyped ==
    ASSUME NEW pc \in Pcs, NEW who \in SignUps \cup {None}, NEW k \in Nat,
           NEW same \in BOOLEAN
    PROVE  [pc |-> pc, who |-> who, code |-> k, same |-> same] \in RequestStates
  BY DEF RequestStates, Pcs

LEMMA FieldsTyped ==
    ASSUME NEW r \in RequestStates
    PROVE  /\ r.pc \in Pcs /\ r.who \in SignUps \cup {None}
           /\ r.code \in Nat /\ r.same \in BOOLEAN
  BY DEF RequestStates, Pcs

LEMMA IdleTyped ==
    /\ Idle \in RequestStates
    /\ Idle.pc = "idle" /\ Idle.who = None /\ Idle.code = 0 /\ Idle.same = TRUE
  BY DEF Idle, NoCode, RequestStates

\* Goes changes the step of one request and nothing else.
LEMMA GoesEffect ==
    ASSUME TypeOK, NEW q \in Requests, NEW pc \in Pcs, Goes(q, pc)
    PROVE  /\ request' \in [Requests -> RequestStates]
           /\ request'[q].pc = pc
           /\ \A r \in Requests : r # q => request'[r].pc = request[r].pc
           /\ \A r \in Requests : request'[r].who = request[r].who
           /\ \A r \in Requests : request'[r].code = request[r].code
  <1>1. request \in [Requests -> RequestStates] /\ request[q] \in RequestStates
    BY DEF TypeOK
  <1>2. request' = [request EXCEPT ![q] = [request[q] EXCEPT !.pc = pc]]
    BY DEF Goes
  <1>3. [request[q] EXCEPT !.pc = pc] \in RequestStates
    BY <1>1 DEF RequestStates, Pcs
  <1>4. request' \in [Requests -> RequestStates]
    BY <1>1, <1>2, <1>3
  <1>5. ASSUME NEW r \in Requests, r # q
        PROVE  request'[r] = request[r]
    BY <1>1, <1>2, <1>5
  <1>6. request'[q] = [request[q] EXCEPT !.pc = pc]
    BY <1>1, <1>2
  <1>7. /\ request'[q].pc = pc /\ request'[q].who = request[q].who
        /\ request'[q].code = request[q].code
    BY <1>1, <1>6 DEF RequestStates
  <1> QED
    BY <1>4, <1>5, <1>7

\* A request is given a new state.
LEMMA BecomesEffect ==
    ASSUME TypeOK, NEW q \in Requests, NEW state \in RequestStates,
           request' = [request EXCEPT ![q] = state]
    PROVE  /\ request' \in [Requests -> RequestStates]
           /\ request'[q] = state
           /\ \A r \in Requests : r # q => request'[r] = request[r]
  BY DEF TypeOK

LEMMA EndsEffect ==
    ASSUME TypeOK, NEW q \in Requests, Ends(q)
    PROVE  /\ request' \in [Requests -> RequestStates]
           /\ request'[q].pc = "idle" /\ request'[q].who = None
           /\ \A r \in Requests : r # q => request'[r] = request[r]
  BY IdleTyped, BecomesEffect DEF Ends

LEMMA MakesEffect ==
    ASSUME TypeOK, NEW q \in Requests, NEW pc \in Pcs, Makes(q, pc)
    PROVE  /\ request' \in [Requests -> RequestStates]
           /\ request'[q].pc = pc /\ request'[q].who = request[q].who
           /\ request'[q].code = made + 1 /\ made + 1 \in Nat \ {0}
           /\ \A r \in Requests : r # q => request'[r] = request[r]
  <1> DEFINE new == [pc |-> pc, who |-> request[q].who, code |-> made + 1,
                     same |-> request[q].same]
  <1>1. request[q] \in RequestStates /\ made + 1 \in Nat \ {0}
    BY DEF TypeOK
  <1>2. new \in RequestStates
    BY <1>1, FieldsTyped, RecordTyped
  <1>3. request' = [request EXCEPT ![q] = new]
    BY DEF Makes, TypeOK
  <1>4. new.pc = pc /\ new.who = request[q].who /\ new.code = made + 1
    OBVIOUS
  <1> HIDE DEF new
  <1> QED
    BY <1>1, <1>2, <1>3, <1>4, BecomesEffect

\* What these make of the type of the requests.
RequestsTyped ==
    /\ request \in [Requests -> RequestStates]
    /\ \A q \in Requests :
          request[q].who \in IF request[q].pc \in SignUpSteps THEN asked ELSE {None}

LEMMA GoesTyped ==
    ASSUME TypeOK, NEW q \in Requests, NEW pc \in Pcs, Goes(q, pc), asked' = asked,
           request[q].pc \in SignUpSteps <=> pc \in SignUpSteps
    PROVE  RequestsTyped'
  <1>1. \A r \in Requests :
           request[r].who \in IF request[r].pc \in SignUpSteps THEN asked ELSE {None}
    BY DEF TypeOK
  <1>2. /\ request' \in [Requests -> RequestStates]
        /\ request'[q].pc = pc
        /\ \A r \in Requests : r # q => request'[r].pc = request[r].pc
        /\ \A r \in Requests : request'[r].who = request[r].who
    BY GoesEffect
  <1> QED
    BY <1>1, <1>2 DEF RequestsTyped

LEMMA EndsTyped ==
    ASSUME TypeOK, NEW q \in Requests, Ends(q), asked' = asked
    PROVE  RequestsTyped'
  BY EndsEffect DEF TypeOK, RequestsTyped, SignUpSteps

LEMMA MakesTyped ==
    ASSUME TypeOK, NEW q \in Requests, NEW pc \in Pcs, Makes(q, pc), asked' = asked,
           request[q].pc \in SignUpSteps <=> pc \in SignUpSteps
    PROVE  RequestsTyped'
  <1>1. \A r \in Requests :
           request[r].who \in IF request[r].pc \in SignUpSteps THEN asked ELSE {None}
    BY DEF TypeOK
  <1>2. /\ request' \in [Requests -> RequestStates]
        /\ request'[q].pc = pc /\ request'[q].who = request[q].who
        /\ \A r \in Requests : r # q => request'[r] = request[r]
    BY MakesEffect
  <1> QED
    BY <1>1, <1>2 DEF RequestsTyped

-----------------------------------------------------------------------------
(* Type correctness                                                         *)

LEMMA TypeInit == Init => TypeOK
  <1> SUFFICES ASSUME Init
               PROVE  TypeOK
    OBVIOUS
  <1>1. /\ request \in [Requests -> RequestStates]
        /\ \A q \in Requests : request[q].pc = "idle" /\ request[q].who = None
    BY IdleTyped DEF Init
  <1>2. /\ asked = {} /\ answered = {} /\ inserts = {} /\ account = None
        /\ verified = FALSE /\ updating = FALSE /\ overlap = FALSE
        /\ mailing = {} /\ mailbox = {} /\ made = 0 /\ code = 0 /\ faults = 0
    BY DEF Init, NoCode
  <1> QED
    BY <1>1, <1>2 DEF TypeOK, SignUpSteps

LEMMA TypeStep == TypeOK /\ [Next]_vars => TypeOK'
  <1> SUFFICES ASSUME TypeOK, [Next]_vars
               PROVE  TypeOK'
    OBVIOUS
  <1> USE DEF disk, mail, history
  <1>1. ASSUME NEW q \in Requests, NEW s \in SignUps, SignUp(q, s)
        PROVE  TypeOK'
    <2>1. /\ asked' = asked \cup {s}
          /\ UNCHANGED <<disk, code, made, mail, answered, faults>>
          /\ overlap' \in BOOLEAN
      BY <1>1 DEF SignUp, Begins, TypeOK
    <2>2. CASE UNCHANGED request
      BY <2>1, <2>2 DEF TypeOK
    <2>3. CASE request' = [request EXCEPT ![q] =
                 [pc |-> "create", who |-> s, code |-> NoCode, same |-> TRUE]]
      <3> DEFINE new == [pc |-> "create", who |-> s, code |-> NoCode, same |-> TRUE]
      <3>1. new \in RequestStates /\ new.who = s /\ new.pc = "create"
        BY RecordTyped DEF NoCode, Pcs
      <3>2. request' = [request EXCEPT ![q] = new]
        BY <2>3
      <3> HIDE DEF new
      <3> QED
        BY <2>1, <3>1, <3>2, BecomesEffect DEF TypeOK, SignUpSteps
    <2> QED
      BY <1>1, <2>2, <2>3 DEF SignUp
  <1>2. ASSUME NEW q \in Requests, CreateUser(q)
        PROVE  TypeOK'
    <2>1. /\ At(q, "create") /\ Makes(q, "set") /\ made' = made + 1
          /\ inserts' = inserts \cup {request[q].who}
          /\ UNCHANGED <<asked, account, verified, updating, code, mail, history, faults>>
      BY <1>2 DEF CreateUser, Makes
    <2>2. request[q].who \in asked
      BY <2>1 DEF TypeOK, At, SignUpSteps
    <2> QED
      BY <2>1, <2>2, MakesEffect DEF TypeOK, Pcs, SignUpSteps
  <1>3. ASSUME NEW q \in Requests, SetCode(q)
        PROVE  TypeOK'
    <2>1. /\ At(q, "set") /\ Goes(q, "mail") /\ code' = request[q].code
          /\ UNCHANGED <<asked, disk, made, mail, history, faults>>
      BY <1>3 DEF SetCode
    <2>2. request[q].code \in Nat
      BY FieldsTyped DEF TypeOK
    <2>3. RequestsTyped'
      BY <2>1, GoesTyped DEF At, Pcs, SignUpSteps
    <2> QED
      BY <2>1, <2>2, <2>3 DEF RequestsTyped, TypeOK
  <1>4. ASSUME NEW q \in Requests, MailCode(q)
        PROVE  TypeOK'
    <2>1. request[q].code \in Nat /\ request[q].who \in asked
      BY <1>4, FieldsTyped DEF TypeOK, MailCode, At, SignUpSteps
    <2> QED
      BY <1>4, <2>1, EndsEffect DEF MailCode, TypeOK, SignUpSteps
  <1>5. ASSUME NEW q \in Requests, NEW pc \in {"get", "compare"}, NEW k \in Nat,
               NEW same \in BOOLEAN,
               request' = [request EXCEPT ![q] =
                  [pc |-> pc, who |-> None, code |-> k, same |-> same]],
               UNCHANGED <<asked, disk, code, made, mail, history, faults>>
        PROVE  TypeOK'
    <2> DEFINE new == [pc |-> pc, who |-> None, code |-> k, same |-> same]
    <2>1. new \in RequestStates /\ new.who = None /\ new.pc = pc
      BY <1>5, RecordTyped DEF Pcs
    <2>2. request' = [request EXCEPT ![q] = new]
      BY <1>5
    <2> HIDE DEF new
    <2> QED
      BY <1>5, <2>1, <2>2, BecomesEffect DEF TypeOK, SignUpSteps
  <1>6. ASSUME NEW q \in Requests, NEW same \in BOOLEAN, Resend(q, same)
        PROVE  TypeOK'
    BY <1>5, <1>6 DEF Resend, NoCode
  <1>7. ASSUME NEW q \in Requests, NEW same \in BOOLEAN,
               NEW typed \in mailbox \cup {NoCode}, Verify(q, typed, same)
        PROVE  TypeOK'
    <2>1. typed \in Nat
      BY DEF TypeOK, NoCode
    <2> QED
      BY <1>5, <1>7, <2>1 DEF Verify
  <1>8. ASSUME NEW q \in Requests, GetCode(q)
        PROVE  TypeOK'
    <2>1. At(q, "get") /\ UNCHANGED <<asked, disk, code, mail, history, faults>>
      BY <1>8 DEF GetCode
    <2>2. CASE Goes(q, "drop") /\ UNCHANGED made
      <3>1. RequestsTyped'
        BY <2>1, <2>2, GoesTyped DEF At, Pcs, SignUpSteps
      <3> QED
        BY <2>1, <2>2, <3>1 DEF RequestsTyped, TypeOK
    <2>3. CASE Makes(q, "both")
      <3>1. RequestsTyped' /\ made' = made + 1
        BY <2>1, <2>3, MakesTyped DEF Makes, At, Pcs, SignUpSteps
      <3> QED
        BY <2>1, <3>1 DEF RequestsTyped, TypeOK
    <2> QED
      BY <1>8, <2>2, <2>3 DEF GetCode
  <1>9. ASSUME NEW q \in Requests, DropCode(q)
        PROVE  TypeOK'
    <2>1. /\ At(q, "drop") /\ Makes(q, "both") /\ made' = made + 1 /\ code' = 0
          /\ UNCHANGED <<asked, disk, mail, history, faults>>
      BY <1>9 DEF DropCode, Makes, NoCode
    <2>2. RequestsTyped'
      BY <2>1, MakesTyped DEF At, Pcs, SignUpSteps
    <2> QED
      BY <2>1, <2>2 DEF RequestsTyped, TypeOK
  <1>10. ASSUME NEW q \in Requests, NEW pc \in Pcs, Goes(q, pc) \/ Ends(q),
                request[q].pc \notin SignUpSteps, pc \notin SignUpSteps,
                code' \in Nat, mailing' \subseteq Nat, updating' \in BOOLEAN,
                UNCHANGED <<asked, account, verified, inserts, made, mailbox,
                            history, faults>>
         PROVE  TypeOK'
    <2>1. RequestsTyped'
      BY <1>10, GoesTyped, EndsTyped
    <2> QED
      BY <1>10, <2>1 DEF RequestsTyped, TypeOK
  <1>11. ASSUME NEW q \in Requests, ResendSet(q) \/ ResendMail(q)
         PROVE  TypeOK'
    <2>1. request[q].code \in Nat /\ code \in Nat /\ mailing \subseteq Nat
          /\ updating \in BOOLEAN
      BY FieldsTyped DEF TypeOK
    <2> QED
      BY <1>10, <1>11, <2>1 DEF ResendSet, ResendMail, At, Pcs, SignUpSteps
  <1>12. ASSUME NEW q \in Requests, Compare(q) \/ UseCode(q) \/ UpdateStatus(q)
         PROVE  TypeOK'
    <2>1. code \in Nat /\ mailing \subseteq Nat /\ updating \in BOOLEAN
      BY DEF TypeOK
    <2>2. CASE Compare(q)
      BY <1>10, <2>1, <2>2 DEF Compare, WrongCode, At, Pcs, SignUpSteps
    <2>3. CASE UseCode(q)
      BY <1>10, <2>1, <2>3 DEF UseCode, NoCode, At, Pcs, SignUpSteps
    <2>4. CASE UpdateStatus(q)
      BY <1>10, <2>1, <2>4 DEF UpdateStatus, At, Pcs, SignUpSteps
    <2> QED
      BY <1>12, <2>2, <2>3, <2>4
  <1>13. ASSUME NEW k \in mailing, SendEmail(k) \/ SendFails(k)
         PROVE  TypeOK'
    <2>1. /\ mailing' \subseteq mailing /\ mailbox' \subseteq mailbox \cup {k}
          /\ faults' = faults \/ faults' = faults + 1
          /\ UNCHANGED <<asked, disk, code, made, request, history>>
      BY <1>13 DEF SendEmail, SendFails, Fault
    <2> QED
      BY <2>1 DEF TypeOK
  <1>14. ASSUME NEW s \in SignUps, InsertLands(s)
         PROVE  TypeOK'
    BY <1>14 DEF InsertLands, Stored, TypeOK
  <1>15. CASE UpdateLands \/ WriteLost \/ CodeExpires
    <2>1. CASE UpdateLands
      BY <2>1 DEF UpdateLands, TypeOK
    <2>2. CASE WriteLost
      <3>1. /\ inserts' \subseteq inserts /\ faults' = faults + 1
            /\ UNCHANGED <<asked, account, verified, code, made, mail, request, history>>
        BY <2>2 DEF WriteLost, Fault
      <3>2. updating' = FALSE \/ updating' = updating
        BY <2>2, Zenon DEF WriteLost
      <3>3. updating' \in BOOLEAN
        BY <3>2, Zenon DEF TypeOK
      <3> QED
        BY <3>1, <3>3 DEF TypeOK
    <2>3. CASE CodeExpires
      BY <2>3 DEF CodeExpires, Fault, NoCode, TypeOK
    <2> QED
      BY <1>15, <2>1, <2>2, <2>3
  <1>16. CASE RequestFails
    <2>1. faults' = faults + 1 /\ UNCHANGED <<asked, disk, code, made, mail, history>>
      BY <1>16 DEF RequestFails, Fault
    <2>2. PICK F : request' = [q \in Requests |-> IF q \in F THEN Idle ELSE request[q]]
      BY <1>16 DEF RequestFails
    <2>3. /\ request' \in [Requests -> RequestStates]
          /\ \A q \in Requests : \/ request'[q].pc = "idle" /\ request'[q].who = None
                                \/ request'[q] = request[q]
      BY <2>2, IdleTyped DEF TypeOK
    <2> QED
      BY <2>1, <2>3 DEF TypeOK, SignUpSteps
  <1>17. CASE UNCHANGED vars
    BY <1>17 DEF vars, TypeOK
  <1> QED
    BY <1>1, <1>2, <1>3, <1>4, <1>6, <1>7, <1>8, <1>9, <1>11, <1>12, <1>13, <1>14,
       <1>15, <1>16, <1>17 DEF Next

\* Every variable keeps its type, and a request works for a sign-up exactly
\* while it is on one of the steps of singUp.
THEOREM TypeCorrect == Spec => []TypeOK
  BY TypeInit, TypeStep, PTL DEF Spec

-----------------------------------------------------------------------------
(* The account                                                              *)

\* The stored document is never replaced, and verification never undone,
\* whatever requests race and whichever writes are lost.
THEOREM AccountKept == Spec => AccountStable
  <1>1. [Next]_vars => [/\ account # None => account' = account
                        /\ verified => verified']_vars
    <2> SUFFICES ASSUME Next
                 PROVE  (account # None => account' = account) /\ (verified => verified')
      BY DEF vars
    <2> USE DEF disk
    <2>1. CASE UNCHANGED <<account, verified>>
      BY <2>1
    <2>2. ASSUME NEW s \in SignUps, InsertLands(s)
          PROVE  (account # None => account' = account) /\ (verified => verified')
      BY <2>2 DEF InsertLands, Stored
    <2>3. CASE UpdateLands
      BY <2>3 DEF UpdateLands
    <2>4. CASE WriteLost \/ CodeExpires \/ RequestFails
      BY <2>1, <2>4 DEF WriteLost, CodeExpires, RequestFails
    <2>5. ASSUME NEW k \in mailing, SendEmail(k) \/ SendFails(k)
          PROVE  UNCHANGED <<account, verified>>
      BY <2>5 DEF SendEmail, SendFails
    <2>6. ASSUME NEW q \in Requests, NEW s \in SignUps, SignUp(q, s)
          PROVE  UNCHANGED <<account, verified>>
      BY <2>6 DEF SignUp, Begins
    <2>7. ASSUME NEW q \in Requests, CreateUser(q) \/ SetCode(q) \/ MailCode(q)
          PROVE  UNCHANGED <<account, verified>>
      BY <2>7 DEF CreateUser, SetCode, MailCode
    <2>8. ASSUME NEW q \in Requests, NEW same \in BOOLEAN,
                 Resend(q, same) \/ \E typed \in mailbox \cup {NoCode} : Verify(q, typed, same)
          PROVE  UNCHANGED <<account, verified>>
      BY <2>8 DEF Resend, Verify
    <2>9. ASSUME NEW q \in Requests, GetCode(q) \/ DropCode(q) \/ ResendSet(q) \/ ResendMail(q)
          PROVE  UNCHANGED <<account, verified>>
      BY <2>9 DEF GetCode, DropCode, ResendSet, ResendMail
    <2>10. ASSUME NEW q \in Requests, Compare(q) \/ UseCode(q) \/ UpdateStatus(q)
           PROVE  UNCHANGED <<account, verified>>
      BY <2>10 DEF Compare, UseCode, UpdateStatus
    <2> QED
      BY <2>1, <2>2, <2>3, <2>4, <2>5, <2>6, <2>7, <2>8, <2>9, <2>10 DEF Next
  <1> QED
    BY <1>1, PTL DEF Spec, AccountStable

-----------------------------------------------------------------------------
(* A waiting account has its code                                           *)

LEMMA CodeInit == Init => CodeInv
  <1> SUFFICES ASSUME Init
               PROVE  CodeInv
    OBVIOUS
  <1>1. /\ \A q \in Requests : request[q].pc = "idle"
        /\ account = None /\ inserts = {} /\ updating = FALSE /\ code = NoCode
    BY IdleTyped DEF Init
  <1> QED
    BY <1>1 DEF CodeInv, CodesCarried, VerifyingExists, WaitingSettled, MailFirst,
       StoredMailed

\* A fault ends all that depends on there being none.
LEMMA CodeFault ==
    ASSUME TypeOK, CodeInv, faults' = faults + 1, account' = account,
           updating' => updating,
           \A q \in Requests : request'[q].pc = "idle" \/ request'[q] = request[q]
    PROVE  CodeInv'
  <1>1. faults' # 0
    BY DEF TypeOK
  <1>2. CodesCarried'
    BY DEF CodeInv, CodesCarried
  <1>3. VerifyingExists'
    BY DEF CodeInv, VerifyingExists
  <1> QED
    BY <1>1, <1>2, <1>3 DEF CodeInv

LEMMA CodeStep == TypeOK /\ CodeInv /\ [Next]_vars => CodeInv'
  <1> SUFFICES ASSUME TypeOK, CodeInv, [Next]_vars
               PROVE  CodeInv'
    OBVIOUS
  <1> USE DEF disk, mail, history
  <1>1. ASSUME NEW q \in Requests, NEW s \in SignUps, SignUp(q, s)
        PROVE  CodeInv'
    <2>1. /\ request[q].pc = "idle"
          /\ UNCHANGED <<disk, code, made, mail, faults>>
      BY <1>1 DEF SignUp, Begins, At
    <2>2. CASE UNCHANGED request
      BY <2>1, <2>2 DEF CodeInv, CodesCarried, VerifyingExists, WaitingSettled,
         MailFirst, StoredMailed, Setting, Verifying
    <2>3. CASE request' = [request EXCEPT ![q] =
                 [pc |-> "create", who |-> s, code |-> NoCode, same |-> TRUE]]
      <3> DEFINE new == [pc |-> "create", who |-> s, code |-> NoCode, same |-> TRUE]
      <3>1. new \in RequestStates /\ new.pc = "create"
        BY RecordTyped DEF NoCode, Pcs
      <3>2. request' = [request EXCEPT ![q] = new]
        BY <2>3
      <3> HIDE DEF new
      <3>3. request'[q].pc = "create" /\ \A r \in Requests : r # q => request'[r] = request[r]
        BY <3>1, <3>2, BecomesEffect
      <3> QED
        BY <2>1, <3>3 DEF CodeInv, CodesCarried, VerifyingExists, WaitingSettled,
           MailFirst, StoredMailed, Setting, Verifying
    <2> QED
      BY <1>1, <2>2, <2>3 DEF SignUp
  <1>2. ASSUME NEW q \in Requests, CreateUser(q)
        PROVE  CodeInv'
    <2>1. /\ request[q].pc = "create" /\ request'[q].pc = "set" /\ request'[q].code # 0
          /\ \A r \in Requests : r # q => request'[r] = request[r]
          /\ UNCHANGED <<account, verified, updating, code, mail, faults>>
      BY <1>2, MakesEffect DEF CreateUser, At, Pcs
    <2> QED
      BY <2>1 DEF CodeInv, CodesCarried, VerifyingExists, WaitingSettled,
         MailFirst, StoredMailed, Setting, Verifying, NoCode
  <1>3. ASSUME NEW q \in Requests, SetCode(q)
        PROVE  CodeInv'
    <2>1. /\ request[q].pc = "set" /\ request'[q].pc = "mail" /\ code' = request[q].code
          /\ \A r \in Requests : r # q => request'[r].pc = request[r].pc
          /\ \A r \in Requests : request'[r].code = request[r].code
          /\ UNCHANGED <<account, inserts, verified, updating, mail, faults>>
      BY <1>3, GoesEffect DEF SetCode, At, Pcs
    <2> QED
      BY <2>1 DEF CodeInv, CodesCarried, VerifyingExists, WaitingSettled,
         MailFirst, StoredMailed, Setting, Verifying, NoCode
  <1>4. ASSUME NEW q \in Requests, MailCode(q)
        PROVE  CodeInv'
    <2>1. /\ request[q].pc = "mail" /\ request'[q].pc = "idle"
          /\ \A r \in Requests : r # q => request'[r] = request[r]
          /\ mailing' = mailing \cup {request[q].code}
          /\ UNCHANGED <<account, inserts, verified, updating, code, mailbox, faults>>
      BY <1>4, EndsEffect DEF MailCode, At
    <2> QED
      BY <2>1 DEF CodeInv, CodesCarried, VerifyingExists, WaitingSettled,
         MailFirst, StoredMailed, Setting, Verifying, NoCode
  <1>5. ASSUME NEW q \in Requests, NEW pc \in {"get", "compare"}, NEW k \in Nat,
               NEW same \in BOOLEAN, account # None, At(q, "idle"),
               request' = [request EXCEPT ![q] =
                  [pc |-> pc, who |-> None, code |-> k, same |-> same]],
               UNCHANGED <<asked, disk, code, made, mail, history, faults>>
        PROVE  CodeInv'
    <2> DEFINE new == [pc |-> pc, who |-> None, code |-> k, same |-> same]
    <2>1. new \in RequestStates /\ new.pc = pc
      BY <1>5, RecordTyped DEF Pcs
    <2>2. request' = [request EXCEPT ![q] = new]
      BY <1>5
    <2> HIDE DEF new
    <2>3. request'[q].pc = pc /\ request[q].pc = "idle"
          /\ \A r \in Requests : r # q => request'[r] = request[r]
      BY <1>5, <2>1, <2>2, BecomesEffect DEF At
    <2> QED
      BY <1>5, <2>3 DEF CodeInv, CodesCarried, VerifyingExists, WaitingSettled,
         MailFirst, StoredMailed, Setting, Verifying, NoCode
  <1>6. ASSUME NEW q \in Requests, NEW same \in BOOLEAN, Resend(q, same)
        PROVE  CodeInv'
    BY <1>5, <1>6 DEF Resend, NoCode
  <1>7. ASSUME NEW q \in Requests, NEW same \in BOOLEAN,
               NEW typed \in mailbox \cup {NoCode}, Verify(q, typed, same)
        PROVE  CodeInv'
    <2>1. typed \in Nat
      BY DEF TypeOK, NoCode
    <2> QED
      BY <1>5, <1>7, <2>1 DEF Verify
  <1>8. ASSUME NEW q \in Requests, GetCode(q)
        PROVE  CodeInv'
    <2>1. request[q].pc = "get" /\ UNCHANGED <<asked, disk, code, mail, history, faults>>
      BY <1>8 DEF GetCode, At
    <2>2. CASE Goes(q, "drop") /\ UNCHANGED made
      <3>1. /\ request'[q].pc = "drop"
            /\ \A r \in Requests : r # q => request'[r].pc = request[r].pc
            /\ \A r \in Requests : request'[r].code = request[r].code
        BY <2>2, GoesEffect DEF Pcs
      <3> QED
        BY <2>1, <3>1 DEF CodeInv, CodesCarried, VerifyingExists, WaitingSettled,
           MailFirst, StoredMailed, Setting, Verifying, NoCode
    <2>3. CASE Makes(q, "both")
      <3>1. /\ request'[q].pc = "both" /\ request'[q].code # 0
            /\ \A r \in Requests : r # q => request'[r] = request[r]
        BY <2>3, MakesEffect DEF Pcs
      <3> QED
        BY <2>1, <3>1 DEF CodeInv, CodesCarried, VerifyingExists, WaitingSettled,
           MailFirst, StoredMailed, Setting, Verifying, NoCode
    <2> QED
      BY <1>8, <2>2, <2>3 DEF GetCode
  <1>9. ASSUME NEW q \in Requests, DropCode(q)
        PROVE  CodeInv'
    <2>1. /\ request[q].pc = "drop" /\ code' = NoCode
          /\ request'[q].pc = "both" /\ request'[q].code # 0
          /\ \A r \in Requests : r # q => request'[r] = request[r]
          /\ UNCHANGED <<disk, mail, faults>>
      BY <1>9, MakesEffect DEF DropCode, At, Pcs
    <2> QED
      BY <2>1 DEF CodeInv, CodesCarried, VerifyingExists, WaitingSettled,
         MailFirst, StoredMailed, Setting, Verifying, NoCode
  <1>10. ASSUME NEW q \in Requests, ResendSet(q)
         PROVE  CodeInv'
    <2>1. /\ request[q].pc \in {"both", "set only"} /\ code' = request[q].code
          /\ UNCHANGED <<disk, mail, faults>>
      BY <1>10 DEF ResendSet, At
    <2>2. CASE request[q].pc = "both"
      <3>1. /\ request'[q].pc = "mail only"
            /\ \A r \in Requests : r # q => request'[r].pc = request[r].pc
            /\ \A r \in Requests : request'[r].code = request[r].code
        BY <1>10, <2>2, GoesEffect DEF ResendSet, At, Pcs
      <3> QED
        BY <2>1, <2>2, <3>1 DEF CodeInv, CodesCarried, VerifyingExists, WaitingSettled,
           MailFirst, StoredMailed, Setting, Verifying, NoCode
    <2>3. CASE request[q].pc = "set only"
      <3>1. request'[q].pc = "idle"
            /\ \A r \in Requests : r # q => request'[r] = request[r]
        BY <1>10, <2>3, EndsEffect DEF ResendSet, At
      <3> QED
        BY <2>1, <2>3, <3>1 DEF CodeInv, CodesCarried, VerifyingExists, WaitingSettled,
           MailFirst, StoredMailed, Setting, Verifying, NoCode
    <2> QED
      BY <2>1, <2>2, <2>3
  <1>11. ASSUME NEW q \in Requests, ResendMail(q)
         PROVE  CodeInv'
    <2>1. /\ request[q].pc \in {"both", "mail only"}
          /\ mailing' = mailing \cup {request[q].code}
          /\ UNCHANGED <<disk, code, mailbox, faults>>
      BY <1>11 DEF ResendMail, At
    <2>2. CASE request[q].pc = "both"
      <3>1. /\ request'[q].pc = "set only"
            /\ \A r \in Requests : r # q => request'[r].pc = request[r].pc
            /\ \A r \in Requests : request'[r].code = request[r].code
        BY <1>11, <2>2, GoesEffect DEF ResendMail, At, Pcs
      <3> QED
        BY <2>1, <2>2, <3>1 DEF CodeInv, CodesCarried, VerifyingExists, WaitingSettled,
           MailFirst, StoredMailed, Setting, Verifying, NoCode
    <2>3. CASE request[q].pc = "mail only"
      <3>1. request'[q].pc = "idle"
            /\ \A r \in Requests : r # q => request'[r] = request[r]
        BY <1>11, <2>3, EndsEffect DEF ResendMail, At
      <3> QED
        BY <2>1, <2>3, <3>1 DEF CodeInv, CodesCarried, VerifyingExists, WaitingSettled,
           MailFirst, StoredMailed, Setting, Verifying, NoCode
    <2> QED
      BY <2>1, <2>2, <2>3
  <1>12. ASSUME NEW q \in Requests, Compare(q)
         PROVE  CodeInv'
    <2>1. request[q].pc = "compare" /\ UNCHANGED <<disk, code, mail, faults>>
      BY <1>12 DEF Compare, WrongCode, At
    <2>2. CASE Goes(q, "use")
      <3>1. /\ request'[q].pc = "use"
            /\ \A r \in Requests : r # q => request'[r].pc = request[r].pc
            /\ \A r \in Requests : request'[r].code = request[r].code
        BY <2>2, GoesEffect DEF Pcs
      <3> QED
        BY <2>1, <3>1 DEF CodeInv, CodesCarried, VerifyingExists, WaitingSettled,
           MailFirst, StoredMailed, Setting, Verifying, NoCode
    <2>3. CASE Ends(q)
      <3>1. request'[q].pc = "idle"
            /\ \A r \in Requests : r # q => request'[r] = request[r]
        BY <2>3, EndsEffect
      <3> QED
        BY <2>1, <3>1 DEF CodeInv, CodesCarried, VerifyingExists, WaitingSettled,
           MailFirst, StoredMailed, Setting, Verifying, NoCode
    <2> QED
      BY <1>12, <2>2, <2>3 DEF Compare, WrongCode
  <1>13. ASSUME NEW q \in Requests, UseCode(q)
         PROVE  CodeInv'
    <2>1. /\ request[q].pc = "use" /\ request'[q].pc = "update"
          /\ code' = NoCode \/ code' = code
          /\ \A r \in Requests : r # q => request'[r].pc = request[r].pc
          /\ \A r \in Requests : request'[r].code = request[r].code
          /\ UNCHANGED <<disk, mail, faults>>
      BY <1>13, GoesEffect DEF UseCode, At, Pcs
    <2> QED
      BY <2>1 DEF CodeInv, CodesCarried, VerifyingExists, WaitingSettled,
         MailFirst, StoredMailed, Setting, Verifying, NoCode
  <1>14. ASSUME NEW q \in Requests, UpdateStatus(q)
         PROVE  CodeInv'
    <2>1. /\ request[q].pc = "update" /\ request'[q].pc = "idle" /\ updating' = TRUE
          /\ \A r \in Requests : r # q => request'[r] = request[r]
          /\ UNCHANGED <<account, inserts, verified, code, mail, faults>>
      BY <1>14, EndsEffect DEF UpdateStatus, At
    <2> QED
      BY <2>1 DEF CodeInv, CodesCarried, VerifyingExists, WaitingSettled,
         MailFirst, StoredMailed, Setting, Verifying, NoCode
  <1>15. ASSUME NEW k \in mailing, SendEmail(k)
         PROVE  CodeInv'
    <2>1. /\ mailing' \cup mailbox' = mailing \cup mailbox
          /\ faults' = 0 => faults = 0
          /\ UNCHANGED <<disk, code, request>>
      BY <1>15 DEF SendEmail, Fault, TypeOK
    <2> QED
      BY <2>1 DEF CodeInv, CodesCarried, VerifyingExists, WaitingSettled,
         MailFirst, StoredMailed, Setting, Verifying, NoCode
  <1>16. ASSUME NEW k \in mailing, SendFails(k)
         PROVE  CodeInv'
    BY <1>16, CodeFault DEF SendFails, Fault
  <1>17. ASSUME NEW s \in SignUps, InsertLands(s)
         PROVE  CodeInv'
    <2>1. /\ s \in inserts
          /\ account # None => account' # None
          /\ UNCHANGED <<verified, updating, code, mail, request, faults>>
      BY <1>17 DEF InsertLands, Stored
    <2> QED
      BY <2>1 DEF CodeInv, CodesCarried, VerifyingExists, WaitingSettled,
         MailFirst, StoredMailed, Setting, Verifying, NoCode
  <1>18. CASE UpdateLands
    <2>1. updating /\ ~updating' /\ UNCHANGED <<account, inserts, code, mail, request, faults>>
      BY <1>18 DEF UpdateLands
    <2>2. account # None
      BY <2>1 DEF CodeInv, VerifyingExists
    <2>3. verified'
      BY <1>18, <2>2 DEF UpdateLands
    <2>4. CodesCarried' /\ VerifyingExists' /\ WaitingSettled'
      BY <2>1, <2>2, <2>3 DEF CodeInv, CodesCarried, VerifyingExists, WaitingSettled
    <2>5. faults' = 0 => MailFirst' /\ StoredMailed'
      BY <2>1 DEF CodeInv, MailFirst, StoredMailed
    <2> QED
      BY <2>4, <2>5 DEF CodeInv
  <1>19. CASE WriteLost
    BY <1>19, CodeFault DEF WriteLost, Fault
  <1>20. CASE CodeExpires
    BY <1>20, CodeFault DEF CodeExpires, Fault
  <1>21. CASE RequestFails
    <2>1. PICK F : request' = [q \in Requests |-> IF q \in F THEN Idle ELSE request[q]]
      BY <1>21 DEF RequestFails
    <2>2. \A q \in Requests : request'[q].pc = "idle" \/ request'[q] = request[q]
      BY <2>1, IdleTyped
    <2> QED
      BY <1>21, <2>2, CodeFault DEF RequestFails, Fault
  <1>22. CASE UNCHANGED vars
    BY <1>22 DEF vars, CodeInv, CodesCarried, VerifyingExists, WaitingSettled,
         MailFirst, StoredMailed, Setting, Verifying, NoCode
  <1> QED
    BY <1>1, <1>2, <1>3, <1>4, <1>6, <1>7, <1>8, <1>9, <1>10, <1>11, <1>12, <1>13, <1>14,
       <1>15, <1>16, <1>17, <1>18, <1>19, <1>20, <1>21, <1>22 DEF Next

\* As long as nothing fails, a user whose account waits for verification has
\* been mailed the code that is stored, however resends and attempts to verify
\* race with each other.
THEOREM WaitingAccountsHaveCodes == Spec => []WaitingHasCode
  <1>1. CodeInv => WaitingHasCode
    BY DEF CodeInv, WaitingSettled, StoredMailed, Setting, Verifying, WaitingHasCode,
       Quiet, At
  <1> QED
    BY <1>1, TypeInit, TypeStep, CodeInit, CodeStep, PTL DEF Spec

-----------------------------------------------------------------------------
(* Sign-ups that do not overlap                                             *)

LEMMA SignUpInit == Init => SignUpInv
  <1> SUFFICES ASSUME Init
               PROVE  SignUpInv
    OBVIOUS
  <1>1. SigningUp = {}
    BY IdleTyped DEF Init, SigningUp
  <1> QED
    BY <1>1 DEF Init, SignUpInv

\* A step that is none of singUp's, or moves a sign-up on without writing.
LEMMA SignUpKept ==
    ASSUME SignUpInv, faults' = 0 => faults = 0,
           UNCHANGED <<account, inserts, answered, overlap>>,
           \A r \in Requests : request'[r].who = request[r].who,
           \A r \in SigningUp : request'[r].pc = "create" <=> request[r].pc = "create"
    PROVE  SignUpInv'
  <1>1. SigningUp' = SigningUp
    BY DEF SigningUp
  <1>2. SigningUp \subseteq Requests
    BY DEF SigningUp
  <1> QED
    BY <1>1, <1>2 DEF SignUpInv

\* A request that is not a sign-up moves or ends.
LEMMA OthersKept ==
    ASSUME TypeOK, SignUpInv, faults' = 0 => faults = 0,
           UNCHANGED <<account, inserts, answered, overlap>>,
           NEW q \in Requests, request[q].pc \notin SignUpSteps, request'[q].who = None,
           \A r \in Requests : r # q => request'[r] = request[r]
    PROVE  SignUpInv'
  <1>1. request[q].who = None
    BY DEF TypeOK
  <1> QED
    BY <1>1, SignUpKept DEF SigningUp

LEMMA SignUpStep == TypeOK /\ SignUpInv /\ [Next]_vars => SignUpInv'
  <1> SUFFICES ASSUME TypeOK, SignUpInv, [Next]_vars
               PROVE  SignUpInv'
    OBVIOUS
  <1> USE DEF disk, mail, history
  <1>1. ASSUME NEW q \in Requests, NEW s \in SignUps, SignUp(q, s)
        PROVE  SignUpInv'
    <2>1. /\ UNCHANGED <<account, inserts, answered, faults>>
          /\ ~overlap' => ~overlap /\ SigningUp = {} /\ inserts = {}
      BY <1>1 DEF SignUp, Begins
    <2>2. CASE Taken /\ UNCHANGED request
      <3>1. SigningUp' = SigningUp
        BY <2>2 DEF SigningUp
      <3> QED
        BY <2>1, <2>2, <3>1 DEF SignUpInv
    <2>3. CASE /\ ~Taken
               /\ request' = [request EXCEPT ![q] =
                    [pc |-> "create", who |-> s, code |-> NoCode, same |-> TRUE]]
      <3> DEFINE new == [pc |-> "create", who |-> s, code |-> NoCode, same |-> TRUE]
      <3>1. new \in RequestStates /\ new.pc = "create" /\ new.who = s
        BY RecordTyped DEF NoCode, Pcs
      <3>2. request' = [request EXCEPT ![q] = new]
        BY <2>3
      <3> HIDE DEF new
      <3>3. /\ request'[q].pc = "create" /\ request'[q].who = s
            /\ \A r \in Requests : r # q => request'[r] = request[r]
        BY <3>1, <3>2, BecomesEffect
      <3>4. SigningUp = {} => SigningUp' = {q}
        BY <3>3, AccountAssumption DEF SigningUp
      <3>5. account = None
        BY <2>3 DEF Taken
      <3> QED
        BY <2>1, <3>3, <3>4, <3>5 DEF SignUpInv
    <2> QED
      BY <1>1, <2>2, <2>3 DEF SignUp
  <1>2. ASSUME NEW q \in Requests, CreateUser(q)
        PROVE  SignUpInv'
    <2>1. /\ request[q].pc = "create" /\ inserts' = inserts \cup {request[q].who}
          /\ request'[q].pc = "set" /\ request'[q].who = request[q].who
          /\ \A r \in Requests : r # q => request'[r] = request[r]
          /\ UNCHANGED <<account, answered, overlap, faults>>
      BY <1>2, MakesEffect DEF CreateUser, At, Pcs
    <2>2. SigningUp' = SigningUp
      BY <2>1 DEF SigningUp
    <2>3. q \in SigningUp
      BY <2>1, AccountAssumption DEF TypeOK, SigningUp, SignUpSteps
    <2> QED
      BY <2>1, <2>2, <2>3 DEF SignUpInv
  <1>3. ASSUME NEW q \in Requests, SetCode(q)
        PROVE  SignUpInv'
    <2>1. /\ request[q].pc = "set" /\ request'[q].pc = "mail"
          /\ \A r \in Requests : r # q => request'[r].pc = request[r].pc
          /\ \A r \in Requests : request'[r].who = request[r].who
          /\ UNCHANGED <<account, inserts, answered, overlap, faults>>
      BY <1>3, GoesEffect DEF SetCode, At, Pcs
    <2>2. SigningUp \subseteq Requests
      BY DEF SigningUp
    <2> QED
      BY <2>1, <2>2, SignUpKept
  <1>4. ASSUME NEW q \in Requests, MailCode(q)
        PROVE  SignUpInv'
    <2>1. /\ request[q].pc = "mail" /\ request'[q].who = None
          /\ answered' = answered \cup {request[q].who}
          /\ \A r \in Requests : r # q => request'[r] = request[r]
          /\ UNCHANGED <<account, inserts, overlap, faults>>
      BY <1>4, EndsEffect DEF MailCode, At
    <2>2. request[q].who \in SignUps
      BY <2>1 DEF TypeOK, SignUpSteps
    <2>3. q \in SigningUp
      BY <2>2, AccountAssumption DEF SigningUp
    <2>4. (\A r, u \in SigningUp : r = u) => SigningUp' = {}
      BY <2>1, <2>3 DEF SigningUp
    <2> QED
      BY <2>1, <2>2, <2>3, <2>4, AccountAssumption DEF SignUpInv
  <1>5. ASSUME NEW q \in Requests, NEW pc \in {"get", "compare"}, NEW k \in Nat,
               NEW same \in BOOLEAN, At(q, "idle"),
               request' = [request EXCEPT ![q] =
                  [pc |-> pc, who |-> None, code |-> k, same |-> same]],
               UNCHANGED <<asked, disk, code, made, mail, history, faults>>
        PROVE  SignUpInv'
    <2> DEFINE new == [pc |-> pc, who |-> None, code |-> k, same |-> same]
    <2>1. new \in RequestStates /\ new.who = None
      BY <1>5, RecordTyped DEF Pcs
    <2>2. request' = [request EXCEPT ![q] = new]
      BY <1>5
    <2> HIDE DEF new
    <2>3. /\ request'[q].who = None /\ request[q].pc \notin SignUpSteps
          /\ \A r \in Requests : r # q => request'[r] = request[r]
      BY <1>5, <2>1, <2>2, BecomesEffect DEF At, SignUpSteps
    <2> QED
      BY <1>5, <2>3, OthersKept
  <1>6. ASSUME NEW q \in Requests, NEW same \in BOOLEAN, Resend(q, same)
        PROVE  SignUpInv'
    BY <1>5, <1>6 DEF Resend, NoCode
  <1>7. ASSUME NEW q \in Requests, NEW same \in BOOLEAN,
               NEW typed \in mailbox \cup {NoCode}, Verify(q, typed, same)
        PROVE  SignUpInv'
    <2>1. typed \in Nat
      BY DEF TypeOK, NoCode
    <2> QED
      BY <1>5, <1>7, <2>1 DEF Verify
  <1>8. ASSUME NEW q \in Requests, NEW pc \in Pcs, request[q].pc \notin SignUpSteps,
               Goes(q, pc) \/ Ends(q) \/ Makes(q, pc),
               UNCHANGED <<account, inserts, answered, overlap, faults>>
        PROVE  SignUpInv'
    <2>1. request[q].who = None
      BY <1>8 DEF TypeOK
    <2>2. CASE Goes(q, pc)
      <3>1. /\ \A r \in Requests : request'[r].who = request[r].who
            /\ \A r \in Requests : r # q => request'[r].pc = request[r].pc
        BY <2>2, GoesEffect
      <3>2. SigningUp \subseteq Requests /\ q \notin SigningUp
        BY <2>1 DEF SigningUp
      <3> QED
        BY <1>8, <3>1, <3>2, SignUpKept
    <2>3. CASE Ends(q)
      BY <1>8, <2>3, EndsEffect, OthersKept
    <2>4. CASE Makes(q, pc)
      <3>1. /\ request'[q].who = None
            /\ \A r \in Requests : r # q => request'[r] = request[r]
        BY <2>1, <2>4, MakesEffect
      <3> QED
        BY <1>8, <3>1, OthersKept
    <2> QED
      BY <1>8, <2>2, <2>3, <2>4
  <1>9. ASSUME NEW q \in Requests, GetCode(q) \/ DropCode(q)
        PROVE  SignUpInv'
    BY <1>8, <1>9 DEF GetCode, DropCode, At, Pcs, SignUpSteps
  <1>10. ASSUME NEW q \in Requests, ResendSet(q) \/ ResendMail(q)
         PROVE  SignUpInv'
    BY <1>8, <1>10 DEF ResendSet, ResendMail, At, Pcs, SignUpSteps
  <1>11. ASSUME NEW q \in Requests, Compare(q) \/ UseCode(q) \/ UpdateStatus(q)
         PROVE  SignUpInv'
    BY <1>8, <1>11 DEF Compare, WrongCode, UseCode, UpdateStatus, At, Pcs, SignUpSteps
  <1>12. ASSUME NEW k \in mailing, SendEmail(k) \/ SendFails(k)
         PROVE  SignUpInv'
    <2>1. /\ faults' = 0 => faults = 0
          /\ UNCHANGED <<account, inserts, answered, overlap, request>>
      BY <1>12 DEF SendEmail, SendFails, Fault, TypeOK
    <2> QED
      BY <2>1, SignUpKept
  <1>13. ASSUME NEW s \in SignUps, InsertLands(s)
         PROVE  SignUpInv'
    <2>1. /\ s \in inserts /\ inserts' = inserts \ {s}
          /\ account' = IF account = None THEN s ELSE account
          /\ UNCHANGED <<answered, overlap, faults, request>>
      BY <1>13 DEF InsertLands, Stored
    <2>2. SigningUp' = SigningUp
      BY <2>1 DEF SigningUp
    <2> QED
      BY <2>1, <2>2, AccountAssumption DEF SignUpInv
  <1>14. CASE UpdateLands
    BY <1>14, SignUpKept DEF UpdateLands
  <1>15. CASE WriteLost \/ CodeExpires \/ RequestFails
    <2>1. faults' # 0
      BY <1>15 DEF WriteLost, CodeExpires, RequestFails, Fault, TypeOK
    <2> QED
      BY <2>1 DEF SignUpInv
  <1>16. CASE UNCHANGED vars
    BY <1>16, SignUpKept DEF vars
  <1> QED
    BY <1>1, <1>2, <1>3, <1>4, <1>6, <1>7, <1>9, <1>10, <1>11, <1>12, <1>13, <1>14,
       <1>15, <1>16 DEF Next

\* As long as nothing fails and no two sign-ups overlap, the one sign-up that is
\* answered with a new user is the one whose document is stored.
THEOREM SignUpsAnsweredTruly == Spec => []SignUpsKeptApart
  <1>1. TypeOK /\ SignUpInv => SignUpsKeptApart
    BY DEF TypeOK, SignUpInv, SignUpsKeptApart, Quiet, At, SigningUp, SignUpSteps
  <1> QED
    BY <1>1, TypeInit, TypeStep, SignUpInit, SignUpStep, PTL DEF Spec

=============================================================================
