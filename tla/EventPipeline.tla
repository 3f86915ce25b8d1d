---------------------------- MODULE EventPipeline ----------------------------
(***************************************************************************)
(* The way of an event from the acknowledgement on its gRPC stream to      *)
(* MongoDB: EventsService.eventStream, StreamEventBatcher, the BullMQ      *)
(* queue "event-process" kept in Redis, EventHttpProcessor and the         *)
(* un-awaited insertMany of EventHttpRepository.  One Node process runs    *)
(* the server and the worker; it may exit and be started again, and Redis  *)
(* (started without persistence) may lose what it holds.  Its memory is    *)
(* shared with the other parts, whose keys come and expire: it may be full *)
(* at any time and for any time, and then refuses what begins by writing.  *)
(* Its connections do not break over a queue.add: sent again, it would     *)
(* leave a second job with the same batch.                                 *)
(*                                                                         *)
(* A batch is the set of its events: two batches never share an event, so  *)
(* a set also identifies the BullMQ job that carries it.  The order inside *)
(* a batch and between waiting jobs is left out; no property depends on it.*)
(***************************************************************************)
EXTENDS Naturals, FiniteSets

CONSTANTS
    Events,         \* the events clients send, each at most once
    Malformed,      \* those whose payload JSON.parse rejects
    Invalid,        \* those that parse but fail the mongoose schema
    BatchSize,      \* StreamEventBatcher.batch (10000 in the code)
    Concurrency,    \* jobs the worker runs at once (10 in the code)
    MaxStalled,     \* BullMQ maxStalledCount (1 unless configured)
    Production      \* NODE_ENV = production: an unhandled rejection exits

ASSUME PipelineAssumption ==
    /\ IsFiniteSet(Events)
    /\ Malformed \subseteq Events
    /\ Invalid \subseteq Events
    /\ BatchSize \in Nat \ {0}
    /\ Concurrency \in Nat \ {0}
    /\ MaxStalled \in Nat
    /\ Production \in BOOLEAN

VARIABLES
    up,         \* the Node process is running
    acked,      \* events answered with status "received"
    buffer,     \* StreamEventBatcher.buffer
    adding,     \* batches whose queue.add has not been answered
    wait,       \* Redis: jobs waiting for a worker
    active,     \* Redis: jobs a worker has taken
    completed,  \* Redis: finished jobs (kept: removeOnComplete is not set)
    failed,     \* Redis: failed jobs (kept: removeOnFail is not set)
    fetched,    \* worker memory: taken, process() not yet called
    returned,   \* worker memory: process() resolved
    threw,      \* worker memory: process() rejected
    inserting,  \* batches whose insertMany is in flight
    stalls,     \* per event, how often its job was found stalled
    copies,     \* per event, the documents MongoDB holds for it
    redisFull,  \* Redis is over its maxmemory (noeviction)
    faults      \* the kinds of faults that have happened so far

redis  == <<wait, active, completed, failed, redisFull>>
worker == <<fetched, returned, threw>>
finished == <<completed, failed, redisFull>>
counts == <<stalls, copies>>
memory == <<up, buffer, adding, worker, inserting>>
vars   == <<up, acked, buffer, adding, wait, active, completed, failed,
            fetched, returned, threw, inserting, stalls, copies, redisFull, faults>>

Batches == (SUBSET Events) \ {{}}

FaultKinds == {"exit", "redis_full", "redis_lost",
               "insert_rejected", "insert_unacknowledged"}

Init ==
    /\ up = TRUE
    /\ acked = {}
    /\ buffer = {} /\ adding = {}
    /\ wait = {} /\ active = {} /\ completed = {} /\ failed = {}
    /\ fetched = {} /\ returned = {} /\ threw = {}
    /\ inserting = {}
    /\ stalls = [e \in Events |-> 0]
    /\ copies = [e \in Events |-> 0]
    /\ redisFull = FALSE
    /\ faults = {}

-----------------------------------------------------------------------------
(* Batching: StreamEventBatcher                                            *)

\* Mutants of FlushBatch: the buffer is not cleared; nothing is enqueued.
FlushBatchCopyOnly(batch) == UNCHANGED buffer /\ adding' = adding \cup {batch}
FlushBatchDropping(batch) == buffer' = {} /\ UNCHANGED adding

\* flushBatch on a buffer that holds batch: copy, clear, queue.add.
FlushBatch(batch) ==
    /\ buffer' = {}
    /\ adding' = adding \cup {batch}

\* Mutant of Full: > in place of >=.
FullOffByOne(batch) == Cardinality(batch) > BatchSize

Full(batch) == Cardinality(batch) >= BatchSize

\* An event arrives on an open stream: it is buffered, the buffer is flushed
\* when it has reached the batch size, and the client is told "received".
AcceptEvent(e) ==
    /\ up
    /\ e \notin acked
    /\ acked' = acked \cup {e}
    /\ IF Full(buffer \cup {e})
       THEN FlushBatch(buffer \cup {e})
       ELSE buffer' = buffer \cup {e} /\ UNCHANGED adding
    /\ UNCHANGED <<up, redis, worker, inserting, counts, faults>>

\* Mutants of FlushDue: no early return; it waits for a full buffer.
FlushDueAlways == TRUE
FlushDueFull == Full(buffer)

FlushDue == buffer # {}

\* The 500 ms interval: an empty buffer returns early.
FlushInterval ==
    /\ up
    /\ FlushDue
    /\ FlushBatch(buffer)
    /\ UNCHANGED <<up, acked, redis, worker, inserting, counts, faults>>

-----------------------------------------------------------------------------
(* The end of the process: UnhandledExceptionService                       *)

\* gracefulShutdown: cleanup() flushes nothing, process.exit drops the heap.
GracefulShutdown ==
    /\ up' = FALSE
    /\ buffer' = {} /\ adding' = {}
    /\ fetched' = {} /\ returned' = {} /\ threw' = {}
    /\ inserting' = {}

\* SIGTERM, SIGINT, an uncaught exception, or the container killing it.
Exit ==
    /\ up
    /\ GracefulShutdown
    /\ faults' = faults \cup {"exit"}
    /\ UNCHANGED <<acked, redis, counts>>

Restart ==
    /\ ~up
    /\ up' = TRUE
    /\ UNCHANGED <<acked, buffer, adding, redis, worker, inserting, stalls,
                   copies, faults>>

-----------------------------------------------------------------------------
(* The queue: BullMQ over Redis                                            *)

\* Keys are written or expire, here or in the other parts.
MemoryChanges ==
    /\ redisFull' = ~redisFull
    /\ UNCHANGED <<memory, acked, wait, active, completed, failed, counts, faults>>

AddJob(b) ==
    /\ up
    /\ b \in adding
    /\ ~redisFull
    /\ adding' = adding \ {b}
    /\ wait' = wait \cup {b}
    /\ UNCHANGED <<up, acked, buffer, active, finished, worker, inserting, counts, faults>>

\* Redis answers OOM: nobody awaits flushBatch, so the rejection is unhandled.
AddJobRejected(b) ==
    /\ up
    /\ b \in adding
    /\ redisFull
    /\ faults' = faults \cup {"redis_full"}
    /\ IF Production
       THEN GracefulShutdown
       ELSE /\ adding' = adding \ {b}
            /\ UNCHANGED <<up, buffer, worker, inserting>>
    /\ UNCHANGED <<acked, redis, counts>>

\* A full Redis refuses the worker, which begins by moving the job.  The script
\* that reports a job frees memory first and takes the next one even then:
\* as if memory had been free for a moment.
TakeJob(b) ==
    /\ up
    /\ ~redisFull
    /\ b \in wait
    /\ Cardinality(fetched \cup returned \cup threw) < Concurrency
    /\ wait' = wait \ {b}
    /\ active' = active \cup {b}
    /\ fetched' = fetched \cup {b}
    /\ UNCHANGED <<up, acked, buffer, adding, finished, returned, threw,
                   inserting, counts, faults>>

\* The worker reports the outcome.  Jobs are added without "attempts", so a
\* rejected one fails at once; a job Redis no longer knows is only logged.
FinishJob(b) ==
    /\ up
    /\ b \in returned \cup threw
    /\ returned' = returned \ {b}
    /\ threw' = threw \ {b}
    /\ active' = active \ {b}
    /\ completed' = completed \cup ({b} \cap active \cap returned)
    /\ failed' = failed \cup ({b} \cap active \cap threw)
    /\ UNCHANGED <<up, acked, buffer, adding, wait, fetched, inserting,
            counts, redisFull, faults>>

\* Mutants of Unattended, StalledOut: a running job counts as stalled; the
\* limit is not applied; it is off by one.
UnattendedNever(b) == TRUE
StalledOutNever(b) == FALSE
StalledOutEarly(b) == \E e \in b : stalls[e] + 1 >= MaxStalled

Unattended(b) == b \notin fetched \cup returned \cup threw

StalledOut(b) == \E e \in b : stalls[e] >= MaxStalled

\* An active job without a worker that renews its lock goes back to wait,
\* or fails once it has stalled more than MaxStalled times.  The check begins
\* by writing that it runs.
StalledJob(b) ==
    /\ up
    /\ ~redisFull
    /\ b \in active
    /\ Unattended(b)
    /\ active' = active \ {b}
    /\ stalls' = [e \in Events |-> stalls[e] + (IF e \in b THEN 1 ELSE 0)]
    /\ IF StalledOut(b)
       THEN failed' = failed \cup {b} /\ UNCHANGED wait
       ELSE wait' = wait \cup {b} /\ UNCHANGED failed
    /\ UNCHANGED <<memory, acked, completed, copies, redisFull, faults>>

\* Redis runs with save "" and appendonly no: a restart comes back empty.
RedisRestart ==
    /\ wait \cup active \cup completed \cup failed # {}
    /\ wait' = {} /\ active' = {} /\ completed' = {} /\ failed' = {}
    /\ redisFull' = FALSE
    /\ faults' = faults \cup {"redis_lost"}
    /\ UNCHANGED <<memory, acked, counts>>

-----------------------------------------------------------------------------
(* Persisting: EventHttpProcessor, EventsHttpService, EventHttpRepository  *)

\* Mutant of Parses: the payloads are passed on as they are.
ParsesUnchecked(b) == TRUE

Parses(b) == b \cap Malformed = {}

\* One payload that does not parse rejects the whole job; otherwise
\* insertMany is started, not awaited, and process() resolves.
ProcessJob(b) ==
    /\ up
    /\ b \in fetched
    /\ fetched' = fetched \ {b}
    /\ IF Parses(b)
       THEN /\ returned' = returned \cup {b}
            /\ inserting' = inserting \cup {b}
            /\ UNCHANGED threw
       ELSE threw' = threw \cup {b} /\ UNCHANGED <<returned, inserting>>
    /\ UNCHANGED <<up, acked, buffer, adding, redis, counts, faults>>

\* MongoDB stores the documents of written.
Write(b, written) ==
    /\ up
    /\ b \in inserting
    /\ inserting' = inserting \ {b}
    /\ copies' = [e \in Events |-> copies[e] + (IF e \in written THEN 1 ELSE 0)]
    /\ UNCHANGED <<up, acked, buffer, adding, redis, worker, stalls>>

\* ordered: false: documents that fail validation are left out silently.
InsertLands(b) ==
    /\ Write(b, b \ Invalid)
    /\ UNCHANGED faults

\* writeConcern w: 0: a server-side failure of some documents is not reported.
InsertUnacknowledged(b, written) ==
    /\ written \subseteq b \ Invalid
    /\ written # b \ Invalid
    /\ Write(b, written)
    /\ faults' = faults \cup {"insert_unacknowledged"}

\* insertMany rejects (no server to select): nobody holds its promise.
InsertRejected(b) ==
    /\ up
    /\ b \in inserting
    /\ faults' = faults \cup {"insert_rejected"}
    /\ IF Production
       THEN GracefulShutdown
       ELSE /\ inserting' = inserting \ {b}
            /\ UNCHANGED <<up, buffer, adding, worker>>
    /\ UNCHANGED <<acked, redis, counts>>

-----------------------------------------------------------------------------
Next ==
    \/ \E e \in Events : AcceptEvent(e)
    \/ FlushInterval
    \/ \E b \in adding : AddJob(b) \/ AddJobRejected(b)
    \/ \E b \in wait : TakeJob(b)
    \/ \E b \in fetched : ProcessJob(b)
    \/ \E b \in returned \cup threw : FinishJob(b)
    \/ \E b \in active : StalledJob(b)
    \/ \E b \in inserting :
          \/ InsertLands(b)
          \/ InsertRejected(b)
          \/ \E written \in SUBSET b : InsertUnacknowledged(b, written)
    \/ Exit
    \/ Restart
    \/ RedisRestart
    \/ MemoryChanges

Spec == Init /\ [][Next]_vars

\* The server's own timers, replies and callbacks come eventually while it is
\* up.  Nothing restarts the process (start-railway.sh starts it once), and
\* clients and faults owe nothing.
Fairness ==
    /\ WF_vars(FlushInterval)
    /\ WF_vars(\E b \in adding : AddJob(b) \/ AddJobRejected(b))
    /\ WF_vars(\E b \in wait : TakeJob(b))
    /\ WF_vars(\E b \in fetched : ProcessJob(b))
    /\ WF_vars(\E b \in returned \cup threw : FinishJob(b))
    /\ WF_vars(\E b \in active : StalledJob(b))
    /\ WF_vars(\E b \in inserting : InsertLands(b))

FairSpec == Spec /\ Fairness

-----------------------------------------------------------------------------
(* Properties                                                              *)

Running == fetched \cup returned \cup threw

JobBatches == wait \cup active \cup completed \cup failed

AllBatches == adding \cup JobBatches \cup Running \cup inserting

\* Events on their way: in the buffer, in a batch that will still be
\* processed, or in an insertMany whose answer is open.
Pending ==
    buffer \cup UNION (adding \cup wait \cup active \cup fetched \cup inserting)

Stored == {e \in Events : copies[e] > 0}

\* Where the pipeline has an event, in the words of EventLedger.
LedgerStatus ==
    [e \in Events |->
        IF e \notin acked THEN "unsent"
        ELSE IF e \in Stored THEN "stored"
        ELSE IF e \in Pending THEN "pending"
        ELSE IF e \in UNION failed THEN "buried"
        ELSE "lost"]

Ledger == INSTANCE EventLedger
          WITH status <- LedgerStatus, faulted <- (faults # {})

\* The pipeline implements the ledger: no event is lost without a fault, none
\* that was given up comes back, none that is stored is taken back.
ImplementsLedger == Ledger!LedgerSpec

\* What every variable may hold.
TypeOK ==
    /\ up \in BOOLEAN
    /\ acked \subseteq Events /\ buffer \subseteq Events
    /\ adding \subseteq Batches
    /\ wait \subseteq Batches /\ active \subseteq Batches
    /\ completed \subseteq Batches /\ failed \subseteq Batches
    /\ fetched \subseteq Batches /\ returned \subseteq Batches
    /\ threw \subseteq Batches /\ inserting \subseteq Batches
    /\ stalls \in [Events -> Nat]
    /\ copies \in [Events -> Nat]
    /\ redisFull \in BOOLEAN
    /\ faults \subseteq FaultKinds

\* No event is batched twice, whatever flushes interleave with arrivals:
\* two batches are equal or disjoint, and none holds a buffered event
\* (stream-event-batcher.service.ts: copy and clear without an await between).
OneBatchPerEvent ==
    /\ \A a, b \in AllBatches : a # b => a \cap b = {}
    /\ \A b \in AllBatches : buffer \cap b = {}

\* A job is in one state at a time and one worker slot at most, and a batch
\* is never written twice at once: a redelivered job never overlaps with the
\* insertMany of the run before it.
JobsExclusive ==
    /\ adding \cap (JobBatches \cup Running \cup inserting) = {}
    /\ wait \cap (active \cup completed \cup failed) = {}
    /\ active \cap (completed \cup failed) = {}
    /\ completed \cap failed = {}
    /\ fetched \cap (returned \cup threw) = {}
    /\ returned \cap threw = {}
    /\ Running \cap (wait \cup completed \cup failed) = {}
    /\ inserting \cap (wait \cup fetched \cup threw \cup failed) = {}
    /\ inserting \cap active \subseteq returned

\* The ledger balances: as long as nothing has failed, every acknowledged
\* event is on its way, stored, in a failed job, or one that the mongoose
\* schema refuses.
NoLossWithoutFault ==
    faults = {} =>
        acked \subseteq Pending \cup Stored \cup (UNION failed) \cup Invalid

\* Duplicates come only from stalled redelivery: one document per run of the
\* job, and a run is either the first or follows a stall within the limit.
DuplicatesBounded ==
    \A e \in Events :
        /\ copies[e] <= 1 + stalls[e]
        /\ copies[e] <= 1 + MaxStalled

\* A job fails for a payload that does not parse or for stalling too often,
\* never because of MongoDB: no write error reaches BullMQ.
FailedForCause ==
    \A b \in failed :
        \/ b \cap Malformed # {}
        \/ \A e \in b : stalls[e] > MaxStalled

\* A malformed payload takes every batch mate with it: no event that was
\* batched with one is ever stored.
PoisonedNeverStored ==
    \A b \in AllBatches : b \cap Malformed # {} => b \cap Stored = {}

\* Memory held for events is bounded: the buffer is below the batch size
\* between handlers, and no job carries more than one batch.
BatchSizeBound ==
    /\ Cardinality(buffer) < BatchSize
    /\ \A b \in AllBatches : Cardinality(b) <= BatchSize

\* Jobs that wait for what a full Redis refuses: to be taken, or to be found
\* stalled.
Blocked == wait \cup {b \in active : Unattended(b)}

\* The pipeline drains.  If the process stays up from some time on, every
\* acknowledged event leaves the buffer, the queue and the driver, or at least
\* everything but the queue in Redis; and it leaves the queue as well unless
\* Redis is full for good or again and again.
Drains ==
    (<>[]up) => \A e \in Events :
        /\ (e \in acked) ~> (e \notin Pending \/ e \in UNION Blocked)
        /\ (<>[]~redisFull) => ((e \in acked) ~> (e \notin Pending))

\* The strengthening that makes the batching, job-state and duplicate
\* invariants inductive: a process that is down holds nothing, whatever is
\* batched was acknowledged, the events of a batch stall together, and a run
\* that has not written yet is still owed by the stall count.
DownHoldsNothing ==
    ~up => buffer = {} /\ adding = {} /\ Running = {} /\ inserting = {}

BatchesAcked ==
    /\ buffer \subseteq acked
    /\ \A b \in AllBatches : b \subseteq acked

StallsShared ==
    \A b \in AllBatches : \A e, f \in b : stalls[e] = stalls[f]

FreshUntouched ==
    /\ \A e \in Events : e \notin acked \/ e \in buffer =>
          stalls[e] = 0 /\ copies[e] = 0
    /\ \A b \in adding : \A e \in b : stalls[e] = 0 /\ copies[e] = 0

RunOwed ==
    /\ \A b \in wait \cup active \cup Running \cup inserting :
          \A e \in b : stalls[e] <= MaxStalled
    /\ \A b \in wait \cup fetched \cup threw \cup inserting :
          \A e \in b : copies[e] <= stalls[e]

Parsed ==
    /\ \A b \in returned \cup completed \cup inserting : b \cap Malformed = {}
    /\ \A b \in threw : b \cap Malformed # {}

PipelineInv ==
    /\ Parsed
    /\ TypeOK
    /\ OneBatchPerEvent
    /\ JobsExclusive
    /\ BatchesAcked
    /\ DownHoldsNothing
    /\ StallsShared
    /\ FreshUntouched
    /\ RunOwed
    /\ DuplicatesBounded
    /\ FailedForCause
    /\ PoisonedNeverStored

\* event-http.repository.ts: "Let BullMQ handle retries".  A write that may
\* still fail would have to belong to a job BullMQ can still retry.
OpenInsertHasOpenJob == inserting \cap completed = {}

\* README: "at-least-once delivery guarantees".  A completed job would have
\* its documents stored, or in flight, unless MongoDB itself failed.
CompletedIsStored ==
    (faults \cap {"insert_rejected", "insert_unacknowledged"} = {}) =>
        (UNION completed) \ Invalid \subseteq Stored \cup (UNION inserting)

=============================================================================
