----------------------------- MODULE LiveFanout -----------------------------
(***************************************************************************)
(* The live fan-out of events to browsers: StreamWebSocketBatcher's buffer *)
(* per owner, the queue of its batches, WebSocketEventProcessor, and the   *)
(* rooms of EventWebSocketGateway; with the metrics the 10 s interval and  *)
(* the metrics job send through the same gateway, whose live feed is one   *)
(* for all owners.                                                         *)
(*                                                                         *)
(* handleConnection only awaits what is already settled, so nothing comes  *)
(* between its steps; the same holds for process().  BullMQ adds the jobs  *)
(* of one connection in the order they were sent and runs one at a time.   *)
(* Redis may be full at any time, of these jobs or of other keys.  Its     *)
(* connection does not break over a queue.add, which would be sent again.  *)
(***************************************************************************)
EXTENDS Naturals, Sequences, SequencesExt, FiniteSets

CONSTANTS
    Owners,
    Events,
    OwnerOf,        \* the owner of the api key an event comes with
    Malformed,      \* events whose payload JSON.parse refuses
    Sockets,
    All,            \* the 'all' of the interval's broadcast: nobody's id
    BatchSize,      \* batchSize (5000)
    MaxStalled,     \* BullMQ maxStalledCount (1)
    Production,     \* NODE_ENV: an unhandled rejection ends the process
    MaxFaults       \* bound of the model: exits, and jobs a full Redis refuses

ASSUME FanoutAssumption ==
    /\ IsFiniteSet(Owners)
    /\ OwnerOf \in [Events -> Owners]
    /\ Malformed \subseteq Events
    /\ All \notin Owners
    /\ BatchSize \in Nat \ {0}
    /\ {MaxStalled, MaxFaults} \subseteq Nat
    /\ Production \in BOOLEAN

VARIABLES
    up,         \* the Node process is running
    received,   \* history: the events in the order they were received
    buffer,     \* bufferMap
    adding,     \* queue.add calls that are not answered yet
    waiting,    \* jobs waiting in the queue
    active,     \* the job the worker runs, and whether it has broadcast
    orphans,    \* jobs whose worker is gone
    failed,     \* history: events of jobs that failed or were refused
    redisFull,  \* Redis is over its maxmemory (noeviction)
    socket,     \* socket[c]: the owner whose room it is in, its batches,
                \* and what its latest metrics show
    faults      \* history: exits of the process and refused jobs

vars == <<up, received, buffer, adding, waiting, active, orphans, failed,
          redisFull, socket, faults>>
queue == <<waiting, active, orphans, failed, redisFull>>

Nobody == "nobody"
Out == [owner |-> Nobody, inbox |-> <<>>, metrics |-> "zeros"]
NoJob == [phase |-> "none", job |-> [owner |-> Nobody, events |-> <<>>, stalls |-> 0]]

\* Mutant of InRoom: every socket that is connected.
InRoomAnyone(user) == {c \in Sockets : socket[c].owner # Nobody}

InRoom(user) == {c \in Sockets : socket[c].owner = user}

Init ==
    /\ up = TRUE
    /\ received = <<>>
    /\ buffer = [o \in Owners |-> <<>>]
    /\ adding = <<>> /\ waiting = <<>> /\ active = NoJob
    /\ orphans = {} /\ failed = {}
    /\ redisFull = FALSE
    /\ socket = [c \in Sockets |-> Out]
    /\ faults = 0

-----------------------------------------------------------------------------
(* StreamWebSocketBatcher                                                  *)

Full(events) == Len(events) >= BatchSize

\* Mutant of Emptied: a buffer that is not full is copied only.
EmptiedIfFull(buffers) ==
    [o \in Owners |-> IF Full(buffers[o]) THEN <<>> ELSE buffers[o]]

Emptied(buffers) == [o \in Owners |-> <<>>]

Batch(o, events) == [owner |-> o, events |-> events, stalls |-> 0]

\* flushAllBatches: every owner's buffer that is not empty becomes a job.
Flush(buffers) ==
    /\ adding' = adding \o SetToSeq({Batch(o, buffers[o]) :
                                       o \in {p \in Owners : buffers[p] # <<>>}})
    /\ buffer' = Emptied(buffers)

\* Mutant of Pushed: the newest goes first.
PushedFirst(e) == [buffer EXCEPT ![OwnerOf[e]] = <<e>> \o @]

Pushed(e) == [buffer EXCEPT ![OwnerOf[e]] = Append(@, e)]

\* push; a full buffer flushes those of all owners.
AddEvent(e) ==
    /\ up
    /\ e \notin Range(received)
    /\ received' = Append(received, e)
    /\ IF Full(Pushed(e)[OwnerOf[e]])
       THEN Flush(Pushed(e))
       ELSE buffer' = Pushed(e) /\ UNCHANGED adding
    /\ UNCHANGED <<up, queue, socket, faults>>

\* Mutant of FlushDue: only buffers that would be cut anyway.
FlushDueFull == \E o \in Owners : Full(buffer[o])

FlushDue == \E o \in Owners : buffer[o] # <<>>

\* Every 500 ms.
FlushInterval ==
    /\ up
    /\ FlushDue
    /\ Flush(buffer)
    /\ UNCHANGED <<up, received, queue, socket, faults>>

-----------------------------------------------------------------------------
(* The queue and WebSocketEventProcessor                                   *)

\* Keys are written or expire, here or in the other parts.
MemoryChanges ==
    /\ redisFull \/ faults < MaxFaults
    /\ redisFull' = ~redisFull
    /\ UNCHANGED <<up, received, buffer, adding, waiting, active, orphans,
                   failed, socket, faults>>

AddLands ==
    /\ adding # <<>>
    /\ ~redisFull
    /\ adding' = Tail(adding)
    /\ waiting' = Append(waiting, Head(adding))
    /\ UNCHANGED <<up, received, buffer, active, orphans, failed, redisFull,
                   socket, faults>>

\* The end of the process: the sockets close, the worker's job is orphaned,
\* and some of the calls that were sent still reach Redis.
Ends(calls) ==
    /\ up' = FALSE
    /\ adding' = <<>>
    /\ \E n \in 0..Len(calls) : waiting' = waiting \o SubSeq(calls, 1, n)
    /\ buffer' = [o \in Owners |-> <<>>]
    /\ socket' = [c \in Sockets |-> Out]
    /\ orphans' = IF active = NoJob THEN orphans ELSE orphans \cup {active.job}
    /\ active' = NoJob

\* Redis is full: nobody catches the rejection of flushUserBatch.
AddRefused ==
    /\ up
    /\ adding # <<>>
    /\ redisFull
    /\ faults < MaxFaults
    /\ faults' = faults + 1
    /\ failed' = failed \cup Range(Head(adding).events)
    /\ IF Production
       THEN Ends(Tail(adding))
       ELSE /\ adding' = Tail(adding)
            /\ UNCHANGED <<up, buffer, waiting, socket, orphans, active>>
    /\ UNCHANGED <<received, redisFull>>

\* A full Redis refuses the worker, which begins by moving the job.  The script
\* that reports a job frees memory first and takes the next one even then:
\* as if memory had been free for a moment.
TakeJob ==
    /\ up
    /\ ~redisFull
    /\ active = NoJob
    /\ waiting # <<>>
    /\ active' = [phase |-> "taken", job |-> Head(waiting)]
    /\ waiting' = Tail(waiting)
    /\ UNCHANGED <<up, received, buffer, adding, orphans, failed, redisFull,
                   socket, faults>>

BroadcastToUser(user, events) ==
    socket' = [c \in Sockets |->
        IF c \in InRoom(user)
        THEN [socket[c] EXCEPT !.inbox = @ \o events] ELSE socket[c]]

\* One payload that cannot be parsed fails the job before anything is sent.
ProcessJob ==
    /\ active.phase = "taken"
    /\ IF Range(active.job.events) \cap Malformed = {}
       THEN /\ BroadcastToUser(active.job.owner, active.job.events)
            /\ active' = [active EXCEPT !.phase = "sent"]
            /\ UNCHANGED failed
       ELSE /\ active' = NoJob
            /\ failed' = failed \cup Range(active.job.events)
            /\ UNCHANGED socket
    /\ UNCHANGED <<up, received, buffer, adding, waiting, orphans, redisFull,
                   faults>>

CompleteJob ==
    /\ active.phase = "sent"
    /\ active' = NoJob
    /\ UNCHANGED <<up, received, buffer, adding, waiting, orphans, failed,
                   redisFull, socket, faults>>

\* A worker finds the lock of an orphan expired: the job is next, or fails.
\* The check begins by writing that it runs.
StalledJob(j) ==
    /\ up
    /\ ~redisFull
    /\ j \in orphans
    /\ orphans' = orphans \ {j}
    /\ IF j.stalls + 1 > MaxStalled
       THEN failed' = failed \cup Range(j.events) /\ UNCHANGED waiting
       ELSE waiting' = <<[j EXCEPT !.stalls = @ + 1]>> \o waiting /\ UNCHANGED failed
    /\ UNCHANGED <<up, received, buffer, adding, active, redisFull, socket,
                   faults>>

-----------------------------------------------------------------------------
(* EventWebSocketGateway                                                   *)

\* Mutant of HandleConnection: what came for the owner before is replayed,
\* although some of it is still in a buffer or a job.
HandleConnectionReplays(c, o) ==
    /\ up
    /\ socket[c].owner = Nobody
    /\ socket' = [socket EXCEPT ![c] =
          [owner |-> o, inbox |-> SelectSeq(received, LAMBDA e : OwnerOf[e] = o),
           metrics |-> "zeros"]]
    /\ UNCHANGED <<up, received, buffer, adding, queue, faults>>

\* A verified token: the socket joins its user's room and is sent zeros.
HandleConnection(c, o) ==
    /\ up
    /\ socket[c].owner = Nobody
    /\ socket' = [socket EXCEPT ![c] =
          [owner |-> o, inbox |-> <<>>, metrics |-> "zeros"]]
    /\ UNCHANGED <<up, received, buffer, adding, queue, faults>>

HandleDisconnect(c) ==
    /\ socket[c].owner # Nobody
    /\ socket' = [socket EXCEPT ![c] = Out]
    /\ UNCHANGED <<up, received, buffer, adding, queue, faults>>

\* What metrics may show: liveEventsBuffer holds the latest events of all
\* owners, and their live feed goes to any owner as it is.
Shows(user) ==
    {"own"} \cup {"others" : e \in {f \in Range(received) : OwnerOf[f] # user}}

\* The metrics job names the owner, the interval 'all'.
BroadcastMetrics(user) ==
    /\ up
    /\ \E metrics \in Shows(user) :
          socket' = [c \in Sockets |->
              IF c \in InRoom(user) THEN [socket[c] EXCEPT !.metrics = metrics]
              ELSE socket[c]]
    /\ UNCHANGED <<up, received, buffer, adding, queue, faults>>

Exit ==
    /\ up
    /\ faults < MaxFaults
    /\ faults' = faults + 1
    /\ Ends(adding)
    /\ UNCHANGED <<received, failed, redisFull>>

Restart ==
    /\ ~up
    /\ up' = TRUE
    /\ UNCHANGED <<received, buffer, adding, queue, socket, faults>>

IntervalBroadcast == BroadcastMetrics(All)

Next ==
    \/ \E e \in Events : AddEvent(e)
    \/ FlushInterval \/ AddLands \/ AddRefused \/ MemoryChanges
    \/ TakeJob \/ ProcessJob \/ CompleteJob
    \/ \E j \in orphans : StalledJob(j)
    \/ \E c \in Sockets :
          HandleDisconnect(c) \/ \E o \in Owners : HandleConnection(c, o)
    \/ \E o \in Owners : BroadcastMetrics(o)
    \/ IntervalBroadcast
    \/ Exit \/ Restart

Spec == Init /\ [][Next]_vars

\* Timers fire, Redis answers, the one worker goes on.
Fairness ==
    /\ WF_vars(FlushInterval) /\ WF_vars(AddLands)
    /\ WF_vars(TakeJob) /\ WF_vars(ProcessJob) /\ WF_vars(CompleteJob)
    /\ WF_vars(IntervalBroadcast)

FairSpec == Spec /\ Fairness

-----------------------------------------------------------------------------
(* Properties                                                              *)

Jobs == [owner : Owners,
         events : {s \in Seq(Events) : Len(s) \in 1..BatchSize},
         stalls : 0..MaxStalled]

\* What every variable may hold; buffers stay below BatchSize and batches
\* within it.
TypeOK ==
    /\ up \in BOOLEAN
    /\ received \in Seq(Events)
    /\ buffer \in [Owners -> {s \in Seq(Events) : Len(s) < BatchSize}]
    /\ adding \in Seq(Jobs) /\ waiting \in Seq(Jobs)
    /\ active = NoJob \/ active \in [phase : {"taken", "sent"}, job : Jobs]
    /\ orphans \subseteq Jobs
    /\ failed \subseteq Events
    /\ socket \in [Sockets -> [owner : Owners \cup {Nobody}, inbox : Seq(Events),
                              metrics : {"zeros", "own", "others"}]]
    /\ redisFull \in BOOLEAN
    /\ faults \in 0..MaxFaults

\* Where e comes in r.
Place(r, e) == CHOOSE i \in DOMAIN r : r[i] = e

\* A connection is sent an event at most once, although batches are cut by
\* size and by time and jobs are run again.
OncePerConnection ==
    \A c \in Sockets : \A i, j \in DOMAIN socket[c].inbox :
        i # j => socket[c].inbox[i] # socket[c].inbox[j]

\* A connection is sent events in the order they were received as long as no
\* process has ended: only a job that stalled comes after later ones.
OrderedUntilStall ==
    faults = 0 =>
        \A c \in Sockets : \A i, j \in DOMAIN socket[c].inbox :
            i < j => Place(received, socket[c].inbox[i])
                        < Place(received, socket[c].inbox[j])

\* The batches of the 'events' message carry events of the connection's owner
\* only, also when somebody else's full buffer has cut them.  Events of other
\* owners reach a connection nevertheless, by the live feed of its metrics.
BatchesKeepOwner ==
    \A c \in Sockets : \A e \in Range(socket[c].inbox) :
        OwnerOf[e] = socket[c].owner

\* Connections in one room were sent the same events in the same order: what
\* the one that joined later has is the end of what the other has.
RoomsAgree ==
    \A c, d \in Sockets : socket[c].owner = socket[d].owner =>
        \/ IsSuffix(socket[c].inbox, socket[d].inbox)
        \/ IsSuffix(socket[d].inbox, socket[c].inbox)

\* What LiveFeed sees of the sockets.
Rooms == [c \in Sockets |-> socket[c].owner]

Logs == [c \in Sockets |-> socket[c].inbox]

Feed == INSTANCE LiveFeed
        WITH room <- Rooms, log <- Logs, faulted <- (faults > 0)

\* Buffers, jobs and worker implement the feed: a room is sent batches of what
\* was received for its owner and is new to all in it, until a fault in the
\* order of arrival, and to all of them at once.
ImplementsFeed == Feed!FeedSpec

\* Batches that are still to be broadcast.
Unsent ==
    Range(adding) \cup Range(waiting)
        \cup (IF active.phase = "taken" THEN {active.job} ELSE {})

OnItsWay(e) ==
    \/ e \in Range(buffer[OwnerOf[e]])
    \/ \E j \in Unsent : e \in Range(j.events)

\* An event on its way, in the buffer, a call or the queue, reaches every
\* connection of its owner that stays, unless it shares a batch with a
\* malformed one, Redis refuses the batch, or the process ends; and unless
\* Redis is full for good or again and again.
LiveDelivery ==
    (<>[]~redisFull) => \A c \in Sockets : \A e \in Events :
        (socket[c].owner = OwnerOf[e] /\ OnItsWay(e))
            ~> \/ e \in Range(socket[c].inbox) \/ socket[c].owner # OwnerOf[e]
               \/ e \in failed \/ ~up

\* metrics-aggregation.service.ts: "Broadcast metrics every 10 seconds to all
\* connected clients".  A client that stays would be sent metrics.
ClientsRefreshed ==
    \A c \in Sockets :
        socket[c].owner # Nobody ~> socket[c].metrics # "zeros" \/ socket[c].owner = Nobody

=============================================================================
