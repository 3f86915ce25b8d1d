------------------------------ MODULE Ingestion ------------------------------
(***************************************************************************)
(* EventPipeline and ApiKeyUsage together: one turn of the loop of         *)
(* EventsService.eventStream hands an event to the batcher and to the      *)
(* counting of its key, one Node process runs both, one Redis holds the    *)
(* jobs and the hash.  What takes the process down for one takes it down   *)
(* for the other: a NOSCRIPT answer to an increment drops the batches in   *)
(* memory, a refused job drops the increments on the connection; a full    *)
(* Redis refuses jobs, increments and initialisations alike.               *)
(***************************************************************************)
EXTENDS Naturals, Sequences, FiniteSets

CONSTANTS
    Events, Malformed, Invalid, BatchSize, Concurrency, MaxStalled,
    Streams, UsageLimit, SyncEvery, MaxResent, Production

VARIABLES
    up,
    acked, buffer, adding, wait, active, completed, failed, fetched, returned,
    threw, inserting, stalls, copies, redisFull, faults,
    doc, hash, scriptLoaded, commands, stream, snapshot, initDue, syncCounter,
    updates, received, reported, resent, missed, exited, refused

pipeline == <<acked, buffer, adding, wait, active, completed, failed, fetched,
              returned, threw, inserting, stalls, copies, redisFull, faults>>
usage == <<doc, hash, scriptLoaded, commands, stream, snapshot, initDue,
           syncCounter, updates, received, reported, resent, missed, exited, refused>>
vars == <<up, pipeline, usage>>

P == INSTANCE EventPipeline
U == INSTANCE ApiKeyUsage WITH MaxReceived <- Cardinality(Events)

ASSUME IngestionAssumption ==
    /\ P!PipelineAssumption
    /\ U!UsageAssumption

Init == P!Init /\ U!Init

-----------------------------------------------------------------------------
\* Mutant of Offered: the event is counted and not handed to the batcher.
OfferedUnbatched(e, s) == e \notin acked /\ U!ReceiveEvent(s) /\ UNCHANGED pipeline

\* A turn of eventStream: the event of a stream is buffered and counted.
Offered(e, s) == P!AcceptEvent(e) /\ U!ReceiveEvent(s)

\* Mutant of PipelineFollows: what the process held for the pipeline stays.
PipelineFollowsNot == UNCHANGED pipeline

\* When a step of the one ends the process, the other ends with it.
PipelineFollows == IF up /\ ~up' THEN P!Exit ELSE UNCHANGED pipeline

UsageFollows == IF up /\ ~up' THEN U!Exit ELSE UNCHANGED usage

\* Replies, timers and job states of the pipeline.
AddAnswered == \E b \in adding : (P!AddJob(b) \/ P!AddJobRejected(b)) /\ UsageFollows
FlushInterval == P!FlushInterval /\ UsageFollows
TakeJob == (\E b \in wait : P!TakeJob(b)) /\ UsageFollows
ProcessJob == (\E b \in fetched : P!ProcessJob(b)) /\ UsageFollows
FinishJob == (\E b \in returned \cup threw : P!FinishJob(b)) /\ UsageFollows
StalledJob == (\E b \in active : P!StalledJob(b)) /\ UsageFollows
InsertLands == (\E b \in inserting : P!InsertLands(b)) /\ UsageFollows
InsertFails ==
    /\ \E b \in inserting :
          \/ P!InsertRejected(b)
          \/ \E written \in SUBSET b : P!InsertUnacknowledged(b, written)
    /\ UsageFollows

\* The routes and streams of the key, which wait for nothing.
Routes ==
    /\ \/ \E isActive \in BOOLEAN : U!UpdateActivation(isActive)
       \/ U!DeleteApiKey
       \/ \E s \in Streams :
             \/ U!FindApiKey(s) \/ U!FindApiKeyFails(s)
             \/ U!OpenStream(s) \/ U!RejectStream(s) \/ U!CloseStream(s)
    /\ PipelineFollows

\* Redis and MongoDB answer what counting has sent them.
InitReply(s) == U!InitReply(s) /\ PipelineFollows
ExecuteExists == U!ExecuteExists /\ PipelineFollows
HsetAnswered ==
    /\ \/ U!ExecuteHset /\ ~redisFull
       \/ U!HsetRejected /\ redisFull
    /\ PipelineFollows
IncrAnswered ==
    /\ \/ (U!ExecuteIncr \/ U!ExecuteIncrUnanswered) /\ ~redisFull
       \/ U!IncrRejected /\ (redisFull \/ ~scriptLoaded)
    /\ PipelineFollows
UpdateAnswered ==
    (\E u \in updates : U!ApplyUpdate(u) \/ U!UpdateRejected(u)) /\ PipelineFollows

MemoryChanges == P!MemoryChanges /\ UNCHANGED usage

Exit == P!Exit /\ U!Exit

Restart == P!Restart /\ U!Restart

\* One Redis: the jobs, the hash and the script are lost together.
RedisRestart ==
    /\ P!RedisRestart \/ (P!JobBatches = {} /\ UNCHANGED <<up, pipeline>>)
    /\ \/ U!RedisRestart
       \/ ~scriptLoaded /\ hash = U!Absent /\ UNCHANGED <<up, usage>>

Next ==
    \/ \E e \in Events, s \in Streams : Offered(e, s)
    \/ AddAnswered \/ FlushInterval \/ TakeJob \/ ProcessJob \/ FinishJob
    \/ StalledJob \/ InsertLands \/ InsertFails
    \/ Routes
    \/ \E s \in Streams : InitReply(s)
    \/ ExecuteExists \/ HsetAnswered \/ IncrAnswered \/ UpdateAnswered
    \/ Exit \/ Restart \/ RedisRestart \/ MemoryChanges

Spec == Init /\ [][Next]_vars

\* That of the two components.
Fairness ==
    /\ WF_vars(FlushInterval) /\ WF_vars(AddAnswered) /\ WF_vars(TakeJob)
    /\ WF_vars(ProcessJob) /\ WF_vars(FinishJob) /\ WF_vars(StalledJob)
    /\ WF_vars(InsertLands)
    /\ \A s \in Streams : WF_vars(InitReply(s))
    /\ WF_vars(ExecuteExists) /\ WF_vars(HsetAnswered) /\ WF_vars(IncrAnswered)
    /\ WF_vars(UpdateAnswered)

FairSpec == Spec /\ Fairness

-----------------------------------------------------------------------------
(* Properties                                                              *)

\* Neither component can do, or put off for ever, in the company of the other
\* what it may not do alone, although each can end the process under the other
\* and one Redis serves both: what is shown of the components holds here.
ImplementsComponents == P!FairSpec /\ U!FairSpec

ComponentSteps == P!Spec /\ U!Spec

\* An owner pays for no event that has gone: the count in Redis and the one in
\* MongoDB are covered by acknowledged events, and as long as the pipeline has
\* had no fault by events that are on their way, stored, in a failed job or
\* refused by the mongoose schema; but for the increments that were executed
\* twice.
ChargedIsAccounted ==
    LET accounted == P!Pending \cup P!Stored \cup (UNION failed) \cup Invalid
        charged == {hash.usageCount, doc.usageCount}
    IN  /\ \A n \in charged : n <= Cardinality(acked) + resent
        /\ faults = {} =>
              \A n \in charged : n <= Cardinality(acked \cap accounted) + resent

=============================================================================
