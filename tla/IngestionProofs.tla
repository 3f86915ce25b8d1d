--------------------------- MODULE IngestionProofs ---------------------------
(* The composition implements its components, for every instance of both,   *)
(* so the theorems about them hold of it; and one about the two together.    *)
EXTENDS Ingestion, FiniteSetTheorems, TLAPS

PT == INSTANCE EventPipelineProofs
UT == INSTANCE ApiKeyUsageProofs WITH MaxReceived <- Cardinality(Events)

-----------------------------------------------------------------------------
(* The modules of the components' theorems are instances of their own: they *)
(* specify the same behaviours.                                             *)

LEMMA PipelineAssumed == PT!PipelineAssumption
  BY IngestionAssumption
     DEF P!PipelineAssumption, PT!PipelineAssumption, P!IsFiniteSet, PT!IsFiniteSet

LEMMA UsageAssumed == UT!UsageAssumption
  BY IngestionAssumption DEF U!UsageAssumption, UT!UsageAssumption

LEMMA SameCardinality == \A S : PT!Cardinality(S) = P!Cardinality(S)
  BY Zenon DEF P!Cardinality, PT!Cardinality

LEMMA UsageCardinality == \A S : UT!Cardinality(S) = Cardinality(S)
  BY Zenon DEF Cardinality, UT!Cardinality

LEMMA SameFull == ASSUME NEW b PROVE PT!Full(b) <=> P!Full(b)
  BY SameCardinality DEF P!Full, PT!Full

LEMMA SameTakeJob == ASSUME NEW b PROVE PT!TakeJob(b) <=> P!TakeJob(b)
  BY SameCardinality
     DEF P!TakeJob, PT!TakeJob, P!finished, PT!finished, P!counts, PT!counts

LEMMA SamePipeline == P!Spec => PT!Spec
  <1>1. P!Init => PT!Init
    BY DEF P!Init, PT!Init
  <1>2. [P!Next]_(P!vars) => [PT!Next]_(PT!vars)
    BY SameFull, SameTakeJob
    DEF P!redis, PT!redis, P!worker, PT!worker, P!finished, PT!finished,
         P!counts, PT!counts, P!memory, PT!memory, P!vars, PT!vars,
         P!FlushBatch, PT!FlushBatch, P!AcceptEvent, PT!AcceptEvent,
         P!FlushDue, PT!FlushDue, P!FlushInterval, PT!FlushInterval,
         P!GracefulShutdown, PT!GracefulShutdown, P!Exit, PT!Exit,
         P!Restart, PT!Restart, P!MemoryChanges, PT!MemoryChanges,
         P!AddJob, PT!AddJob, P!AddJobRejected, PT!AddJobRejected,
         P!FinishJob, PT!FinishJob, P!Unattended, PT!Unattended,
         P!StalledOut, PT!StalledOut, P!StalledJob, PT!StalledJob,
         P!RedisRestart, PT!RedisRestart, P!Parses, PT!Parses,
         P!ProcessJob, PT!ProcessJob, P!Write, PT!Write,
         P!InsertLands, PT!InsertLands,
         P!InsertUnacknowledged, PT!InsertUnacknowledged,
         P!InsertRejected, PT!InsertRejected, P!Next, PT!Next
  <1> QED
    BY <1>1, <1>2, PTL DEF P!Spec, PT!Spec

LEMMA SameUsage == U!Spec => UT!Spec
  <1>1. U!Init => UT!Init
    BY DEF U!Init, UT!Init, U!Absent, UT!Absent
  <1>2. [U!Next]_(U!vars) => [UT!Next]_(UT!vars)
    BY DEF U!vars, UT!vars, U!syncing, UT!syncing, U!process, UT!process,
         U!redis, UT!redis, U!history, UT!history, U!Absent, UT!Absent,
         U!Command, UT!Command, U!Send, UT!Send,
         U!UpdateActivation, UT!UpdateActivation,
         U!DeleteApiKey, UT!DeleteApiKey, U!FindApiKey, UT!FindApiKey,
         U!Valid, UT!Valid, U!OpenStream, UT!OpenStream,
         U!EndStream, UT!EndStream, U!RejectStream, UT!RejectStream,
         U!FindApiKeyFails, UT!FindApiKeyFails,
         U!ReceiveEvent, UT!ReceiveEvent, U!CloseStream, UT!CloseStream,
         U!GracefulShutdown, UT!GracefulShutdown, U!Exit, UT!Exit,
         U!Restart, UT!Restart, U!RedisRestart, UT!RedisRestart,
         U!Turn, UT!Turn, U!Executes, UT!Executes, U!Missing, UT!Missing,
         U!ExecuteExists, UT!ExecuteExists, U!ExecuteHset, UT!ExecuteHset,
         U!CountReply, UT!CountReply, U!ExecuteIncr, UT!ExecuteIncr,
         U!ExecuteIncrUnanswered, UT!ExecuteIncrUnanswered,
         U!Unhandled, UT!Unhandled, U!IncrRejected, UT!IncrRejected,
         U!HsetRejected, UT!HsetRejected, U!ApplyUpdate, UT!ApplyUpdate,
         U!UpdateRejected, UT!UpdateRejected, U!Next, UT!Next,
         U!InitReply, UT!InitReply, U!Initialise, UT!Initialise
  <1> QED
    BY <1>1, <1>2, PTL DEF U!Spec, UT!Spec

-----------------------------------------------------------------------------
(* Every step of the composition is a step of each component or leaves it.  *)

LEMMA PipelineSteps == [Next]_vars => [P!Next]_(P!vars)
  <1> SUFFICES ASSUME [Next]_vars
               PROVE  P!Next \/ UNCHANGED P!vars
    OBVIOUS
  <1> USE DEF P!vars, pipeline
  <1>1. ASSUME NEW e \in Events, NEW s \in Streams, Offered(e, s)
        PROVE  P!Next
    BY <1>1 DEF Offered, P!Next
  <1>2. CASE AddAnswered \/ FlushInterval \/ TakeJob \/ ProcessJob
    BY <1>2 DEF AddAnswered, FlushInterval, TakeJob, ProcessJob, P!Next
  <1>3. CASE FinishJob \/ StalledJob \/ InsertLands \/ InsertFails
    BY <1>3 DEF FinishJob, StalledJob, InsertLands, InsertFails, P!Next
  <1>4. ASSUME PipelineFollows, (up /\ up' = FALSE) \/ up' = up
        PROVE  P!Next \/ UNCHANGED P!vars
    BY <1>4 DEF PipelineFollows, P!Next
  <1>5. CASE Routes
    BY <1>5, <1>4 DEF Routes, U!UpdateActivation, U!DeleteApiKey, U!FindApiKey,
       U!FindApiKeyFails, U!OpenStream, U!RejectStream, U!CloseStream, U!process
  <1>6. ASSUME NEW s \in Streams, InitReply(s)
        PROVE  P!Next \/ UNCHANGED P!vars
    BY <1>6, <1>4 DEF InitReply, U!InitReply
  <1>7. CASE ExecuteExists
    BY <1>7, <1>4 DEF ExecuteExists, U!ExecuteExists
  <1>8. CASE HsetAnswered
    BY <1>8, <1>4 DEF HsetAnswered, U!ExecuteHset, U!HsetRejected, U!Turn,
       U!Unhandled, U!GracefulShutdown
  <1>9. CASE IncrAnswered
    BY <1>9, <1>4 DEF IncrAnswered, U!ExecuteIncr, U!ExecuteIncrUnanswered, U!process,
       U!IncrRejected, U!Turn, U!Unhandled, U!GracefulShutdown
  <1>10. CASE UpdateAnswered
    BY <1>10, <1>4 DEF UpdateAnswered, U!ApplyUpdate, U!UpdateRejected, U!Unhandled,
       U!GracefulShutdown
  <1>11. CASE Exit \/ Restart \/ RedisRestart \/ MemoryChanges
    BY <1>11 DEF Exit, Restart, RedisRestart, MemoryChanges, P!Next
  <1> QED
    BY <1>1, <1>2, <1>3, <1>5, <1>6, <1>7, <1>8, <1>9, <1>10, <1>11 DEF Next, vars

LEMMA UsageSteps == [Next]_vars => [U!Next]_(U!vars)
  <1> SUFFICES ASSUME [Next]_vars
               PROVE  U!Next \/ UNCHANGED U!vars
    OBVIOUS
  <1> USE DEF U!vars, usage
  <1>1. ASSUME NEW e \in Events, NEW s \in Streams, Offered(e, s)
        PROVE  U!Next
    BY <1>1 DEF Offered, U!Next
  <1>2. ASSUME UsageFollows, (up /\ up' = FALSE) \/ up' = up
        PROVE  U!Next \/ UNCHANGED U!vars
    BY <1>2 DEF UsageFollows, U!Next
  <1>3. CASE AddAnswered
    BY <1>3, <1>2 DEF AddAnswered, P!AddJob, P!AddJobRejected, P!GracefulShutdown
  <1>4. CASE FlushInterval
    BY <1>4, <1>2 DEF FlushInterval, P!FlushInterval
  <1>5. CASE TakeJob
    BY <1>5, <1>2 DEF TakeJob, P!TakeJob
  <1>6. CASE ProcessJob \/ FinishJob
    BY <1>6, <1>2 DEF ProcessJob, FinishJob, P!ProcessJob, P!FinishJob
  <1>7. CASE StalledJob
    BY <1>7, <1>2 DEF StalledJob, P!StalledJob, P!memory
  <1>8. CASE InsertLands
    BY <1>8, <1>2 DEF InsertLands, P!InsertLands, P!Write
  <1>9. CASE InsertFails
    BY <1>9, <1>2 DEF InsertFails, P!InsertRejected, P!InsertUnacknowledged, P!Write,
       P!GracefulShutdown
  <1>10. CASE Routes
    BY <1>10 DEF Routes, U!Next
  <1>11. ASSUME NEW s \in Streams, InitReply(s)
         PROVE  U!Next
    BY <1>11 DEF InitReply, U!Next
  <1>12. CASE ExecuteExists \/ HsetAnswered \/ IncrAnswered \/ UpdateAnswered
    BY <1>12 DEF ExecuteExists, HsetAnswered, IncrAnswered, UpdateAnswered, U!Next
  <1>13. CASE Exit \/ Restart \/ RedisRestart
    BY <1>13 DEF Exit, Restart, RedisRestart, U!Next
  <1>14. CASE MemoryChanges
    BY <1>14 DEF MemoryChanges, P!MemoryChanges, P!memory
  <1> QED
    BY <1>1, <1>3, <1>4, <1>5, <1>6, <1>7, <1>8, <1>9, <1>10, <1>11, <1>12, <1>13,
       <1>14 DEF Next, vars

\* Whatever pipeline and counting do to each other through the process and the
\* Redis they share, each behaves as it is specified alone.
THEOREM ComponentsImplemented == Spec => ComponentSteps
  <1>1. Init => P!Init /\ U!Init
    BY DEF Init
  <1> QED
    BY <1>1, PipelineSteps, UsageSteps, PTL DEF Spec, ComponentSteps, P!Spec, U!Spec

-----------------------------------------------------------------------------
(* Charged and accounted                                                    *)

LEMMA EventsFinite == IsFiniteSet(Events)
  BY IngestionAssumption DEF P!PipelineAssumption, P!IsFiniteSet, IsFiniteSet

\* Every turn takes one event and counts one.
Counted == acked \subseteq Events /\ received = Cardinality(acked)

LEMMA CountedInit == Init => Counted
  BY FS_EmptySet DEF Init, P!Init, U!Init, Counted

LEMMA CountedStep == Counted /\ [Next]_vars => Counted'
  <1> SUFFICES ASSUME Counted, [Next]_vars
               PROVE  Counted'
    OBVIOUS
  <1>1. ASSUME NEW e \in Events, NEW s \in Streams, Offered(e, s)
        PROVE  Counted'
    <2>1. /\ e \notin acked /\ acked' = acked \cup {e}
          /\ received' = received + 1
      BY <1>1 DEF Offered, P!AcceptEvent, U!ReceiveEvent
    <2>2. IsFiniteSet(acked)
      BY EventsFinite, FS_Subset DEF Counted
    <2> QED
      BY <2>1, <2>2, FS_AddElement DEF Counted
  <1>2. ASSUME UNCHANGED <<acked, received>>
        PROVE  Counted'
    BY <1>2 DEF Counted
  <1>3. ASSUME UNCHANGED acked, UsageFollows
        PROVE  Counted'
    BY <1>3, <1>2 DEF UsageFollows, usage, U!Exit
  <1>4. ASSUME UNCHANGED received, PipelineFollows
        PROVE  Counted'
    BY <1>4, <1>2 DEF PipelineFollows, pipeline, P!Exit
  <1>5. CASE AddAnswered \/ FlushInterval \/ TakeJob \/ ProcessJob
    BY <1>5, <1>3 DEF AddAnswered, FlushInterval, TakeJob, ProcessJob, P!AddJob,
       P!AddJobRejected, P!FlushInterval, P!TakeJob, P!ProcessJob
  <1>6. CASE FinishJob \/ StalledJob \/ InsertLands \/ InsertFails
    BY <1>6, <1>3 DEF FinishJob, StalledJob, InsertLands, InsertFails, P!FinishJob,
       P!StalledJob, P!InsertLands, P!InsertRejected, P!InsertUnacknowledged, P!Write
  <1>7. CASE Routes
    BY <1>7, <1>4 DEF Routes, U!UpdateActivation, U!DeleteApiKey, U!FindApiKey,
       U!FindApiKeyFails, U!OpenStream, U!RejectStream, U!CloseStream, U!history
  <1>8. ASSUME NEW s \in Streams, InitReply(s)
        PROVE  Counted'
    BY <1>8, <1>4 DEF InitReply, U!InitReply, U!history
  <1>9. CASE ExecuteExists \/ HsetAnswered \/ IncrAnswered \/ UpdateAnswered
    BY <1>9, <1>4 DEF ExecuteExists, HsetAnswered, IncrAnswered, UpdateAnswered,
       U!ExecuteExists, U!ExecuteHset, U!HsetRejected, U!ExecuteIncr,
       U!ExecuteIncrUnanswered, U!IncrRejected, U!ApplyUpdate, U!UpdateRejected, U!history
  <1>10. CASE Exit \/ Restart \/ RedisRestart
    BY <1>10, <1>2 DEF Exit, Restart, RedisRestart, P!Exit, U!Exit, P!Restart,
       U!Restart, P!RedisRestart, U!RedisRestart, U!history, pipeline, usage
  <1>11. CASE UNCHANGED vars
    BY <1>11, <1>2 DEF vars, pipeline, usage
  <1>12. CASE MemoryChanges
    BY <1>12, <1>2 DEF MemoryChanges, P!MemoryChanges, usage
  <1> QED
    BY <1>1, <1>5, <1>6, <1>7, <1>8, <1>9, <1>10, <1>11, <1>12 DEF Next

\* Neither store is further ahead of the events received than the increments
\* that were executed twice.
LEMMA ChargedReceived ==
    ASSUME UT!TypeOK, UT!NeverOvercharged
    PROVE  /\ hash.usageCount <= received + resent
           /\ doc.usageCount <= received + resent
  <1>1. /\ hash.usageCount \in Nat /\ doc.usageCount \in Nat
        /\ received \in Nat /\ reported \in Nat /\ resent \in Nat
    BY DEF UT!TypeOK, UT!Hashes, UT!Docs
  <1>2. /\ IsFiniteSet(UT!CommandsOf("incr"))
        /\ Cardinality(UT!CommandsOf("incr")) \in Nat
    <2>1. Len(commands) \in Nat
      BY DEF UT!TypeOK
    <2>2. UT!CommandsOf("incr") \subseteq 1..Len(commands)
      BY DEF UT!CommandsOf
    <2>3. IsFiniteSet(1..Len(commands))
      BY <2>1, FS_Interval
    <2>4. IsFiniteSet(UT!CommandsOf("incr"))
      BY <2>2, <2>3, FS_Subset
    <2> QED
      BY <2>4, FS_CardinalityType
  <1> QED
    BY <1>1, <1>2, UsageCardinality DEF UT!NeverOvercharged

\* The count an owner is charged for is covered by acknowledged events, which
\* without a fault of the pipeline are all accounted for, and by the increments
\* that were executed twice.
THEOREM ChargesAccounted == Spec => []ChargedIsAccounted
  <1>1. Spec => []Counted
    BY CountedInit, CountedStep, PTL DEF Spec
  <1>2. PT!Spec => []PT!NoLossWithoutFault
    BY PipelineAssumed, PT!LedgerBalances
  <1>3. UT!Spec => []UT!TypeOK
    BY UsageAssumed, UT!TypeCorrect
  <1>4. UT!Spec => []UT!NeverOvercharged
    BY UsageAssumed, UT!NoEventChargedTwice
  <1>5. Counted /\ PT!NoLossWithoutFault /\ UT!TypeOK /\ UT!NeverOvercharged
          => ChargedIsAccounted
    <2> SUFFICES ASSUME Counted, PT!NoLossWithoutFault, UT!TypeOK,
                        UT!NeverOvercharged
                 PROVE  ChargedIsAccounted
      OBVIOUS
    <2> DEFINE accounted == P!Pending \cup P!Stored \cup (UNION failed) \cup Invalid
    <2>1. /\ hash.usageCount <= Cardinality(acked) + resent
          /\ doc.usageCount <= Cardinality(acked) + resent
      BY ChargedReceived DEF Counted
    <2>2. faults = {} => acked \cap accounted = acked
      BY DEF PT!NoLossWithoutFault, PT!Pending, PT!Stored, P!Pending, P!Stored
    <2> HIDE DEF accounted
    <2>3. /\ \A n \in {hash.usageCount, doc.usageCount} :
                n <= Cardinality(acked) + resent
          /\ faults = {} => \A n \in {hash.usageCount, doc.usageCount} :
                               n <= Cardinality(acked \cap accounted) + resent
      BY <2>1, <2>2
    <2> QED
      BY <2>3 DEF ChargedIsAccounted, accounted
  <1> QED
    BY <1>1, <1>2, <1>3, <1>4, <1>5, ComponentsImplemented, SamePipeline, SameUsage, PTL
    DEF ComponentSteps

=============================================================================
