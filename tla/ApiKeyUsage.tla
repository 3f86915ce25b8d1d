----------------------------- MODULE ApiKeyUsage -----------------------------
(***************************************************************************)
(* Usage counting of one API key: its document in MongoDB, its hash in     *)
(* Redis, the gRPC streams opened with it and the Node process between     *)
(* them (EventInterceptor, ApiKeyService, ApiKeyUsageService, the counting *)
(* in EventsService.eventStream, the api-key routes).  Keys are            *)
(* independent: each has its own document and its own hash.                *)
(*                                                                         *)
(* The process talks to Redis over one connection, so Redis executes its   *)
(* commands in the order they were sent.  The reply of an increment is     *)
(* handled in the step that executes it (nothing else looks at the         *)
(* counters in between); the reply of EXISTS is a step of its own, because *)
(* other commands are sent before HSET answers to it.  When a reply is     *)
(* lost with the connection, ioredis reconnects and sends the command      *)
(* again; only the oldest is taken to have been executed then.  MongoDB is *)
(* reached over a pool of connections: un-awaited updates land in any      *)
(* order.                                                                  *)
(* Redis runs with noeviction and is shared with the queues: when it is    *)
(* full it refuses what would write.                                       *)
(***************************************************************************)
EXTENDS Naturals, Sequences, FiniteSets

CONSTANTS
    Streams,        \* openings of a gRPC stream, each happens at most once
    UsageLimit,     \* usageLimit of the document (default 5000)
    SyncEvery,      \* increments between two updates of MongoDB (1000)
    MaxReceived,    \* bound of the model: events clients send
    MaxResent,      \* bound of the model: replies lost with the connection
    Production      \* NODE_ENV = production: an unhandled rejection exits

ASSUME UsageAssumption ==
    /\ UsageLimit \in Nat
    /\ SyncEvery \in Nat \ {0}
    /\ MaxReceived \in Nat
    /\ MaxResent \in Nat
    /\ Production \in BOOLEAN

VARIABLES
    up,             \* the Node process is running
    doc,            \* MongoDB: the document of the key
    hash,           \* Redis: api_key:<key>
    scriptLoaded,   \* Redis: the increment script is in the script cache
    commands,       \* sent to Redis, not executed yet, oldest first
    stream,         \* stream[s]: how far the opening s has come
    snapshot,       \* snapshot[s]: the document as s was validated against
    initDue,        \* streams whose EXISTS was answered 0, HSET not sent yet
    syncCounter,    \* ApiKeyUsageService.syncCounter of the key
    updates,        \* counts of the updateApiKeyUsage calls on their way
    received,       \* events acknowledged so far
    reported,       \* the highest count ever handed to updateApiKeyUsage
    resent,         \* increments that were executed and sent again
    missed,         \* an update was rejected, or landed on a later count
    exited,         \* the process has exited at least once
    refused         \* Redis has refused an HSET at least once

vars == <<up, doc, hash, scriptLoaded, commands, stream, snapshot, initDue,
          syncCounter, updates, received, reported, resent, missed, exited, refused>>
syncing == <<syncCounter, updates>>
process == <<up, commands, initDue, syncing>>
redis   == <<hash, scriptLoaded>>
history == <<received, reported, resent, missed, exited, refused>>

Docs == [exists : BOOLEAN, active : BOOLEAN, usageCount : Nat]

Hashes == [present : BOOLEAN, complete : BOOLEAN, usageCount : Nat]

Absent == [present |-> FALSE, complete |-> FALSE, usageCount |-> 0]

Commands == [op : {"exists", "incr", "hset"}, stream : Streams]

Command(op, s) == [op |-> op, stream |-> s]

Send(op, s) == commands' = Append(commands, Command(op, s))

Init ==
    /\ up = TRUE
    /\ doc = [exists |-> TRUE, active |-> TRUE, usageCount |-> 0]
    /\ hash = Absent /\ scriptLoaded = TRUE
    /\ commands = <<>> /\ initDue = {}
    /\ stream = [s \in Streams |-> "idle"]
    /\ snapshot = [s \in Streams |-> doc]
    /\ syncCounter = 0 /\ updates = {}
    /\ received = 0 /\ reported = 0 /\ resent = 0
    /\ missed = FALSE
    /\ exited = FALSE /\ refused = FALSE

-----------------------------------------------------------------------------
(* The owner's routes: PATCH and DELETE api-key/:key                       *)

UpdateActivation(isActive) ==
    /\ up /\ doc.exists
    /\ doc' = [doc EXCEPT !.active = isActive]
    /\ UNCHANGED <<process, redis, stream, snapshot, history>>

\* The Redis hash stays: deleteApiKeyUsage is never called.
DeleteApiKey ==
    /\ up /\ doc.exists
    /\ doc' = [doc EXCEPT !.exists = FALSE]
    /\ UNCHANGED <<process, redis, stream, snapshot, history>>

-----------------------------------------------------------------------------
(* Opening a stream: EventInterceptor                                      *)

\* MongoDB answers findApiKey.
FindApiKey(s) ==
    /\ up /\ stream[s] = "idle"
    /\ stream' = [stream EXCEPT ![s] = "validating"]
    /\ snapshot' = [snapshot EXCEPT ![s] = doc]
    /\ UNCHANGED <<process, doc, redis, history>>

\* validateApiKey on the document that was read.
Valid(d) == d.exists /\ d.active /\ d.usageCount < UsageLimit

\* initializeApiKeyUsage is started but not awaited; the stream is handled.
OpenStream(s) ==
    /\ up /\ stream[s] = "validating"
    /\ Valid(snapshot[s])
    /\ stream' = [stream EXCEPT ![s] = "open"]
    /\ Send("exists", s)
    /\ UNCHANGED <<up, doc, redis, snapshot, initDue, syncing, history>>

\* Mutant of EndStream: left in a state that no handler knows.
EndStreamUnhandled(s) == stream' = [stream EXCEPT ![s] = "rejected"]

EndStream(s) == stream' = [stream EXCEPT ![s] = "closed"]

RejectStream(s) ==
    /\ up /\ stream[s] = "validating"
    /\ ~Valid(snapshot[s])
    /\ EndStream(s)
    /\ UNCHANGED <<process, doc, redis, snapshot, history>>

\* The read of the document fails: the stream ends with an RpcException.
FindApiKeyFails(s) ==
    /\ up /\ stream[s] = "idle"
    /\ EndStream(s)
    /\ UNCHANGED <<process, doc, redis, snapshot, history>>

\* Mutant of Initialise: HSET only while the hash is still missing.
InitialiseIfMissing(s) ==
    IF hash.present THEN UNCHANGED commands ELSE Send("hset", s)

Initialise(s) == Send("hset", s)

\* The reply 0 to EXISTS: HSET is sent, behind whatever was sent meanwhile.
InitReply(s) ==
    /\ up /\ s \in initDue
    /\ initDue' = initDue \ {s}
    /\ Initialise(s)
    /\ UNCHANGED <<up, doc, redis, stream, snapshot, syncing, history>>

-----------------------------------------------------------------------------
(* Events on an open stream: EventsService.eventStream                     *)

\* incrementUsage is not awaited: the event is acknowledged before it is
\* counted, and limitExceeded is looked at by nobody.
ReceiveEvent(s) ==
    /\ up /\ stream[s] = "open"
    /\ received < MaxReceived
    /\ received' = received + 1
    /\ Send("incr", s)
    /\ UNCHANGED <<up, doc, redis, stream, snapshot, initDue, syncing,
                   reported, resent, missed, exited, refused>>

CloseStream(s) ==
    /\ up /\ stream[s] = "open"
    /\ EndStream(s)
    /\ UNCHANGED <<process, doc, redis, snapshot, history>>

-----------------------------------------------------------------------------
(* The process exits and starts                                            *)

\* Everything in memory and on open connections is gone.
GracefulShutdown ==
    /\ up' = FALSE /\ exited' = TRUE
    /\ commands' = <<>> /\ initDue' = {}
    /\ syncCounter' = 0 /\ updates' = {}
    /\ stream' = [s \in Streams |->
                    IF stream[s] = "idle" THEN "idle" ELSE "closed"]

Exit ==
    /\ up
    /\ GracefulShutdown
    /\ UNCHANGED <<doc, redis, snapshot, received, reported, resent, missed, refused>>

\* onModuleInit loads the script before the server listens.
Restart ==
    /\ ~up
    /\ up' = TRUE
    /\ scriptLoaded' = TRUE
    /\ UNCHANGED <<doc, hash, commands, stream, snapshot, initDue, syncing, history>>

\* Redis restarts without persistence; ioredis resends what was not answered.
RedisRestart ==
    /\ scriptLoaded \/ hash # Absent
    /\ hash' = Absent
    /\ scriptLoaded' = FALSE
    /\ UNCHANGED <<process, doc, stream, snapshot, history>>

-----------------------------------------------------------------------------
(* Redis executes the oldest command                                       *)

Turn(op) == up /\ commands # <<>> /\ Head(commands).op = op

Executes(op) == Turn(op) /\ commands' = Tail(commands)

\* Mutant of Missing: the answer of EXISTS is ignored.
MissingAlways == TRUE

Missing == ~hash.present

ExecuteExists ==
    /\ Executes("exists")
    /\ initDue' = IF Missing THEN initDue \cup {Head(commands).stream} ELSE initDue
    /\ UNCHANGED <<up, doc, redis, stream, snapshot, syncing, history>>

\* HSET writes the values of the document as it was validated.
ExecuteHset ==
    /\ Executes("hset")
    /\ hash' = [present |-> TRUE, complete |-> TRUE,
                usageCount |-> snapshot[Head(commands).stream].usageCount]
    /\ UNCHANGED <<up, doc, scriptLoaded, stream, snapshot, initDue, syncing, history>>

\* Mutant of CountReply: what was counted since the last update is handed on,
\* not the count.
CountReplyDelta(count) ==
    IF (syncCounter + 1) % SyncEvery = 0 /\ hash.complete
    THEN /\ syncCounter' = 0
         /\ updates' = updates \cup {SyncEvery}
         /\ reported' = IF count > reported THEN count ELSE reported
    ELSE /\ syncCounter' = (syncCounter + 1) % SyncEvery
         /\ UNCHANGED <<updates, reported>>

\* The reply of the script: every SyncEvery-th one updates MongoDB, un-awaited,
\* with the key and the count it carries.  A hash without the key field makes
\* that an update of no document.
CountReply(count) ==
    IF (syncCounter + 1) % SyncEvery = 0
    THEN /\ syncCounter' = 0
         /\ IF hash.complete
            THEN /\ updates' = updates \cup {count}
                 /\ reported' = IF count > reported THEN count ELSE reported
            ELSE UNCHANGED <<updates, reported>>
    ELSE /\ syncCounter' = syncCounter + 1
         /\ UNCHANGED <<updates, reported>>

\* HINCRBY creates the hash when it is not there, with nothing but the count.
ExecuteIncr ==
    /\ Executes("incr")
    /\ scriptLoaded
    /\ hash' = [present |-> TRUE, complete |-> hash.complete,
                usageCount |-> hash.usageCount + 1]
    /\ CountReply(hash.usageCount + 1)
    /\ UNCHANGED <<up, doc, scriptLoaded, stream, snapshot, initDue, received,
                   resent, missed, exited, refused>>

\* The connection breaks between the execution and its reply: the increment
\* is sent again.
ExecuteIncrUnanswered ==
    /\ Turn("incr")
    /\ scriptLoaded
    /\ resent < MaxResent
    /\ resent' = resent + 1
    /\ hash' = [present |-> TRUE, complete |-> hash.complete,
                usageCount |-> hash.usageCount + 1]
    /\ UNCHANGED <<process, doc, scriptLoaded, stream, snapshot, received, reported,
                   missed, exited, refused>>

\* Nobody handles the rejection of a call that is not awaited.
Unhandled(handled) ==
    IF Production
    THEN GracefulShutdown
    ELSE handled /\ UNCHANGED <<up, exited, initDue, syncCounter, stream>>

\* NOSCRIPT, or OOM from a full Redis: incrementUsage rejects.
IncrRejected ==
    /\ Turn("incr")
    /\ Unhandled(commands' = Tail(commands) /\ UNCHANGED updates)
    /\ UNCHANGED <<doc, redis, snapshot, received, reported, resent, missed, refused>>

\* OOM: initializeApiKeyUsage rejects.
HsetRejected ==
    /\ Turn("hset")
    /\ refused' = TRUE
    /\ Unhandled(commands' = Tail(commands) /\ UNCHANGED updates)
    /\ UNCHANGED <<doc, redis, snapshot, received, reported, resent, missed>>

-----------------------------------------------------------------------------
(* MongoDB applies an update                                               *)

\* Mutant of ApplyUpdate: $inc, as if it were given what was counted since.
ApplyUpdateInc(u) ==
    /\ up /\ u \in updates
    /\ updates' = updates \ {u}
    /\ doc' = IF doc.exists THEN [doc EXCEPT !.usageCount = @ + u] ELSE doc
    /\ missed' = (missed \/ u < doc.usageCount)
    /\ UNCHANGED <<up, redis, commands, stream, snapshot, initDue, syncCounter,
                   received, reported, resent, exited, refused>>

\* updateApiKeyUsage sets the count it was given.
ApplyUpdate(u) ==
    /\ up /\ u \in updates
    /\ updates' = updates \ {u}
    /\ doc' = IF doc.exists THEN [doc EXCEPT !.usageCount = u] ELSE doc
    /\ missed' = (missed \/ u < doc.usageCount)
    /\ UNCHANGED <<up, redis, commands, stream, snapshot, initDue, syncCounter,
                   received, reported, resent, exited, refused>>

UpdateRejected(u) ==
    /\ up /\ u \in updates
    /\ Unhandled(updates' = updates \ {u} /\ UNCHANGED commands)
    /\ missed' = TRUE
    /\ UNCHANGED <<doc, redis, snapshot, received, reported, resent, refused>>

-----------------------------------------------------------------------------
Next ==
    \/ \E isActive \in BOOLEAN : UpdateActivation(isActive)
    \/ DeleteApiKey
    \/ \E s \in Streams :
          \/ FindApiKey(s) \/ FindApiKeyFails(s)
          \/ OpenStream(s) \/ RejectStream(s) \/ CloseStream(s)
          \/ InitReply(s) \/ ReceiveEvent(s)
    \/ ExecuteExists \/ ExecuteHset \/ HsetRejected
    \/ ExecuteIncr \/ ExecuteIncrUnanswered \/ IncrRejected
    \/ \E u \in updates : ApplyUpdate(u) \/ UpdateRejected(u)
    \/ Exit \/ Restart \/ RedisRestart

Spec == Init /\ [][Next]_vars

\* Redis answers what it was sent, replies are handled, MongoDB answers.
Fairness ==
    /\ \A s \in Streams : WF_vars(InitReply(s))
    /\ WF_vars(ExecuteExists)
    /\ WF_vars(ExecuteHset \/ HsetRejected)
    /\ WF_vars(ExecuteIncr \/ IncrRejected)
    /\ WF_vars(\E u \in updates : ApplyUpdate(u) \/ UpdateRejected(u))

FairSpec == Spec /\ Fairness

-----------------------------------------------------------------------------
(* Properties                                                              *)

\* What every variable may hold.
TypeOK ==
    /\ up \in BOOLEAN /\ scriptLoaded \in BOOLEAN
    /\ missed \in BOOLEAN /\ exited \in BOOLEAN /\ refused \in BOOLEAN
    /\ doc \in Docs
    /\ hash \in Hashes
    /\ commands \in Seq(Commands)
    /\ stream \in [Streams -> {"idle", "validating", "open", "closed"}]
    /\ snapshot \in [Streams -> Docs]
    /\ initDue \subseteq Streams
    /\ syncCounter \in Nat
    /\ updates \subseteq Nat
    /\ received \in Nat /\ reported \in Nat /\ resent \in Nat

CommandsOf(op) == {i \in 1..Len(commands) : commands[i].op = op}

\* An owner is charged for an event once, and once more for each time the
\* connection broke over its increment: neither store, nor a value on its way
\* between them, is further ahead of the events, and the increments still on
\* the connection are covered as well.
NeverOvercharged ==
    /\ hash.usageCount + Cardinality(CommandsOf("incr")) <= received + resent
    /\ reported + Cardinality(CommandsOf("incr")) <= received + resent
    /\ doc.usageCount <= reported
    /\ \A s \in Streams : snapshot[s].usageCount <= reported
    /\ \A u \in updates : u <= reported

\* No initialisation is under way: HSET neither due nor sent.
InitQuiet == initDue = {} /\ CommandsOf("hset") = {}

\* EXISTS before HSET closes the window it opens: once the hash is there and
\* no HSET is due, none becomes due and the count only rises until Redis loses
\* the hash, whatever streams open.
WindowCloses ==
    [][hash.present /\ InitQuiet /\ up /\ up' /\ hash'.present
         => InitQuiet' /\ hash'.usageCount >= hash.usageCount]_vars

\* A new stream is validated against the document, which lags behind Redis
\* for a reason: before any exit, and until an update is rejected or lands on
\* a later count, the document or an update on its way is within the sync
\* counter, which is below SyncEvery, of what Redis has counted (but for the
\* increments that were executed twice).
LagExplained ==
    ~exited /\ ~missed /\ doc.exists /\ hash.complete =>
        /\ syncCounter < SyncEvery
        /\ \E n \in updates \cup {doc.usageCount} :
              hash.usageCount <= n + syncCounter + resent

\* Without an exit, a Redis restart or a refused HSET the hash of an opened
\* stream's key becomes complete, so that its counts can reach MongoDB.
KeyEventuallyTracked ==
    \A s \in Streams :
        stream[s] = "open" ~> hash.complete \/ exited \/ ~scriptLoaded \/ refused

\* ARCHITECTURE.md throws "Rate limit exceeded" once the limit is exceeded: no
\* event would be taken while Redis has counted more than UsageLimit.
LimitEnforced ==
    [][hash.usageCount > UsageLimit => received' = received]_vars

\* README.md: "usage tracking".  Every received event would be counted once
\* Redis has executed everything, as long as nothing has failed.
EveryEventCounted ==
    ~exited /\ ~refused /\ scriptLoaded /\ commands = <<>> /\ initDue = {} =>
        hash.usageCount = received

\* README.md: "usage tracking".  A hash that exists while no initialisation is
\* under way would know its key, or its counts never reach MongoDB.
HashKnowsItsKey ==
    up /\ hash.present /\ InitQuiet /\ CommandsOf("exists") = {} => hash.complete

=============================================================================
