-------------------------- MODULE EmailVerification --------------------------
(***************************************************************************)
(* The account of one email address: sign-up, the one-time code in Redis   *)
(* (otp:<email>), the mail that carries it, its resending, and the         *)
(* verification.  Requests interleave at every await.  MongoDB is written  *)
(* without acknowledgement (w: 0), so a document or an update arrives      *)
(* after the code has gone on, and what the unique index refuses is        *)
(* refused in silence.  The mail is a job of the notification queue, whose *)
(* worker logs the errors of the mail server and completes the job.  Codes *)
(* are numbered in the order they are made; 0 is none.                     *)
(***************************************************************************)
EXTENDS Naturals, FiniteSets

CONSTANTS
    Requests,       \* requests that may be in progress together
    SignUps,        \* sign-ups that will be asked for, one document each
    None,           \* no document
    MaxCodes,       \* bound of the model: codes made
    MaxFaults       \* bound of the model: refused or lost writes, exits

ASSUME AccountAssumption ==
    None \notin SignUps /\ {MaxCodes, MaxFaults} \subseteq Nat

VARIABLES
    asked,      \* sign-ups that have begun
    account,    \* the document of the address: the sign-up that made it
    verified,   \* its isEmailVerified
    inserts,    \* documents on their way to MongoDB
    updating,   \* isEmailVerified updates are on their way
    code,       \* the entry otp:<email>
    made,       \* codes made so far
    mailing,    \* codes whose mail is in the notification queue
    mailbox,    \* codes the user has been mailed
    request,    \* request[q]: what the request is doing
    answered,   \* history: sign-ups answered with a new user
    overlap,    \* history: a sign-up began before another one was over
    faults      \* exits, refused and lost writes, expired codes

vars == <<asked, account, verified, inserts, updating, code, made, mailing,
          mailbox, request, answered, overlap, faults>>
disk == <<account, verified, inserts, updating>>
mail == <<mailing, mailbox>>
history == <<answered, overlap>>

NoCode == 0
Codes == 1..MaxCodes

\* who: the sign-up a request is for; code: the code it made or was given;
\* same: whether the address is spelled as it is stored.
Idle == [pc |-> "idle", who |-> None, code |-> NoCode, same |-> TRUE]

RequestStates ==
    [pc   : {"idle", "create", "set", "mail", "get", "drop", "both",
             "set only", "mail only", "compare", "use", "update"},
     who  : SignUps \cup {None},
     code : Nat,
     same : BOOLEAN]

SignUpSteps == {"create", "set", "mail"}

At(q, pc) == request[q].pc = pc

Goes(q, pc) == request' = [request EXCEPT ![q].pc = pc]

Ends(q) == request' = [request EXCEPT ![q] = Idle]

Fault == faults < MaxFaults /\ faults' = faults + 1

Quiet ==
    (\A q \in Requests : At(q, "idle")) /\ inserts = {} /\ ~updating /\ mailing = {}

Init ==
    /\ asked = {} /\ answered = {}
    /\ account = None /\ verified = FALSE
    /\ inserts = {} /\ updating = FALSE
    /\ code = NoCode /\ made = 0 /\ mailing = {} /\ mailbox = {}
    /\ request = [q \in Requests |-> Idle]
    /\ overlap = FALSE /\ faults = 0

\* generateFullOtp.
Makes(q, pc) ==
    /\ made' = made + 1
    /\ request' = [request EXCEPT
          ![q] = [pc |-> pc, who |-> @.who, code |-> made + 1, same |-> @.same]]

\* The bound on codes counts those the requests in progress will make.
CodesLeft ==
    made + Cardinality({q \in Requests :
              request[q].pc \in {"create", "get", "drop"}}) < MaxCodes

-----------------------------------------------------------------------------
(* singUp                                                                  *)

SigningUp == {q \in Requests : request[q].who # None}

Begins(q, s) ==
    /\ At(q, "idle")
    /\ s \in SignUps \ asked
    /\ CodesLeft
    /\ asked' = asked \cup {s}
    /\ overlap' = (overlap \/ SigningUp # {} \/ inserts # {})
    /\ UNCHANGED <<disk, code, made, mail, answered, faults>>

\* Mutant of Taken: the address is not looked up.
TakenNever == FALSE

Taken == account # None

\* findByEmail finds none, or the reply is "Email already exists".
SignUp(q, s) ==
    /\ Begins(q, s)
    /\ IF Taken
       THEN UNCHANGED request
       ELSE request' = [request EXCEPT ![q] =
               [pc |-> "create", who |-> s, code |-> NoCode, same |-> TRUE]]

\* The password is hashed; save() returns when the document is sent.
CreateUser(q) ==
    /\ At(q, "create")
    /\ inserts' = inserts \cup {request[q].who}
    /\ Makes(q, "set")
    /\ UNCHANGED <<asked, account, verified, updating, code, mail, history, faults>>

\* setOtp.
SetCode(q) ==
    /\ At(q, "set")
    /\ code' = request[q].code
    /\ Goes(q, "mail")
    /\ UNCHANGED <<asked, disk, made, mail, history, faults>>

\* notificationQueue.add, then the reply with the new user.
MailCode(q) ==
    /\ At(q, "mail")
    /\ mailing' = mailing \cup {request[q].code}
    /\ answered' = answered \cup {request[q].who}
    /\ Ends(q)
    /\ UNCHANGED <<asked, disk, code, made, mailbox, overlap, faults>>

-----------------------------------------------------------------------------
(* resendOtp                                                               *)

\* The account is there and not verified, or the request is answered at once.
Resend(q, same) ==
    /\ At(q, "idle")
    /\ account # None /\ ~verified
    /\ CodesLeft
    /\ request' = [request EXCEPT ![q] =
          [pc |-> "get", who |-> None, code |-> NoCode, same |-> same]]
    /\ UNCHANGED <<asked, disk, code, made, mail, history, faults>>

\* getOtp by the address as it was typed.
GetCode(q) ==
    /\ At(q, "get")
    /\ IF request[q].same /\ code # NoCode
       THEN Goes(q, "drop") /\ UNCHANGED made
       ELSE Makes(q, "both")
    /\ UNCHANGED <<asked, disk, code, mail, history, faults>>

\* invalidateOtp deletes whatever the entry holds by now.
DropCode(q) ==
    /\ At(q, "drop")
    /\ code' = NoCode
    /\ Makes(q, "both")
    /\ UNCHANGED <<asked, disk, mail, history, faults>>

\* Promise.all: SETEX and the mail's job go over different connections.
ResendSet(q) ==
    /\ At(q, "both") \/ At(q, "set only")
    /\ code' = request[q].code
    /\ IF At(q, "both") THEN Goes(q, "mail only") ELSE Ends(q)
    /\ UNCHANGED <<asked, disk, made, mail, history, faults>>

ResendMail(q) ==
    /\ At(q, "both") \/ At(q, "mail only")
    /\ mailing' = mailing \cup {request[q].code}
    /\ IF At(q, "both") THEN Goes(q, "set only") ELSE Ends(q)
    /\ UNCHANGED <<asked, disk, code, made, mailbox, history, faults>>

-----------------------------------------------------------------------------
(* verifyEmail                                                             *)

\* A user types a code from the mailbox, or NoCode for any other input.
Verify(q, typed, same) ==
    /\ At(q, "idle")
    /\ account # None /\ ~verified
    /\ request' = [request EXCEPT ![q] =
          [pc |-> "compare", who |-> None, code |-> typed, same |-> same]]
    /\ UNCHANGED <<asked, disk, code, made, mail, history, faults>>

\* Mutant of WrongCode: a wrong code uses the stored one up.
WrongCodeOnce(q) == Ends(q) /\ code' = NoCode

\* The reply is an UnauthorizedException.
WrongCode(q) == Ends(q) /\ UNCHANGED code

\* getOtp by the stored spelling, compared with the hash of the code typed.
Compare(q) ==
    /\ At(q, "compare")
    /\ IF code # NoCode /\ code = request[q].code
       THEN Goes(q, "use") /\ UNCHANGED code
       ELSE WrongCode(q)
    /\ UNCHANGED <<asked, disk, made, mail, history, faults>>

\* invalidateOtp by the spelling that was typed, then the update is sent.
UseCode(q) ==
    /\ At(q, "use")
    /\ code' = IF request[q].same THEN NoCode ELSE code
    /\ Goes(q, "update")
    /\ UNCHANGED <<asked, disk, made, mail, history, faults>>

UpdateStatus(q) ==
    /\ At(q, "update")
    /\ updating' = TRUE
    /\ Ends(q)
    /\ UNCHANGED <<asked, account, verified, inserts, code, made, mail,
                   history, faults>>

-----------------------------------------------------------------------------
(* NotificatationProcessor                                                 *)

\* The mail server takes the mail.  The job is completed, or run again when
\* its worker ends before that.
SendEmail(k) ==
    /\ k \in mailing
    /\ mailbox' = mailbox \cup {k}
    /\ \/ mailing' = mailing \ {k} /\ UNCHANGED faults
       \/ Fault /\ UNCHANGED mailing
    /\ UNCHANGED <<asked, disk, code, made, request, history>>

\* The mail server does not: GmailNotificationClient logs it, the job is
\* completed all the same, and nobody is told.
SendFails(k) ==
    /\ k \in mailing
    /\ Fault
    /\ mailing' = mailing \ {k}
    /\ UNCHANGED <<asked, disk, code, made, mailbox, request, history>>

-----------------------------------------------------------------------------
(* MongoDB, time and faults                                                *)

\* Mutant of Stored: no unique index, findOne sees the other document.
StoredAnew(s) == s

Stored(s) == IF account = None THEN s ELSE account

\* The unique index on email refuses a second document; nobody hears of it.
InsertLands(s) ==
    /\ s \in inserts
    /\ inserts' = inserts \ {s}
    /\ account' = Stored(s)
    /\ UNCHANGED <<asked, verified, updating, code, made, mail, request,
                   history, faults>>

UpdateLands ==
    /\ updating
    /\ updating' = FALSE
    /\ verified' = (verified \/ account # None)
    /\ UNCHANGED <<asked, account, inserts, code, made, mail, request,
                   history, faults>>

WriteLost ==
    /\ Fault
    /\ \/ \E s \in inserts : inserts' = inserts \ {s} /\ UNCHANGED updating
       \/ updating /\ updating' = FALSE /\ UNCHANGED inserts
    /\ UNCHANGED <<asked, account, verified, code, made, mail, request,
                   history>>

\* 600 seconds after SETEX, or with the memory of Redis.
CodeExpires ==
    /\ code # NoCode
    /\ Fault
    /\ code' = NoCode
    /\ UNCHANGED <<asked, disk, made, mail, request, history>>

\* Redis or the queue refuses a command: the request ends with an error.
\* An exit of the process does so to every request.
RequestFails ==
    /\ Fault
    /\ \E F \in {{q} : q \in Requests} \cup {Requests} :
          /\ \E q \in F : ~At(q, "idle")
          /\ request' = [q \in Requests |-> IF q \in F THEN Idle ELSE request[q]]
    /\ UNCHANGED <<asked, disk, code, made, mail, history>>

Next ==
    \/ \E q \in Requests :
          \/ \E s \in SignUps : SignUp(q, s)
          \/ CreateUser(q) \/ SetCode(q) \/ MailCode(q)
          \/ \E same \in BOOLEAN :
                Resend(q, same) \/ \E typed \in mailbox \cup {NoCode} : Verify(q, typed, same)
          \/ GetCode(q) \/ DropCode(q) \/ ResendSet(q) \/ ResendMail(q)
          \/ Compare(q) \/ UseCode(q) \/ UpdateStatus(q)
    \/ \E k \in mailing : SendEmail(k) \/ SendFails(k)
    \/ \E s \in SignUps : InsertLands(s)
    \/ UpdateLands \/ WriteLost \/ CodeExpires \/ RequestFails

Spec == Init /\ [][Next]_vars

-----------------------------------------------------------------------------
(* Properties                                                              *)

\* What every variable may hold.
TypeOK ==
    /\ asked \subseteq SignUps /\ answered \subseteq asked
    /\ account \in asked \cup {None} /\ inserts \subseteq asked
    /\ verified \in BOOLEAN /\ updating \in BOOLEAN /\ overlap \in BOOLEAN
    /\ made \in Nat /\ code \in Nat /\ faults \in Nat
    /\ mailing \subseteq Nat /\ mailbox \subseteq Nat
    /\ request \in [Requests -> RequestStates]
    /\ \A q \in Requests :
          request[q].who \in IF request[q].pc \in SignUpSteps THEN asked ELSE {None}

\* An account keeps the document that was stored first and stays verified,
\* whatever sign-ups race for its address and whenever their writes land.
AccountStable ==
    [][/\ account # None => account' = account
       /\ verified => verified']_vars

\* An account that waits for verification can be verified: once all requests
\* and mails are over and nothing has failed, a code is stored and the user
\* has it, in spite of resends and attempts that race and delete each other's
\* codes.
WaitingHasCode ==
    Quiet /\ faults = 0 /\ account # None /\ ~verified =>
        code # NoCode /\ code \in mailbox

\* Sign-ups that do not overlap, their writes included: once they are over
\* and nothing has failed, the one that was answered with a new user is the
\* one that is stored.
SignUpsKeptApart ==
    Quiet /\ faults = 0 /\ ~overlap =>
        answered = (IF account = None THEN {} ELSE {account})

\* authentication.service.ts: "Email already exists".  Of several sign-ups for
\* one address, only the one that is stored would be answered with a user.
OnlyStoredAnswered ==
    Quiet /\ faults = 0 => answered \subseteq {account}

=============================================================================
