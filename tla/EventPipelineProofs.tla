------------------------- MODULE EventPipelineProofs -------------------------
(* Theorems about EventPipeline, for every set of events and every bound:   *)
(* its invariants, and that it implements EventLedger.                      *)
EXTENDS EventPipeline, FiniteSetTheorems, TLAPS

-----------------------------------------------------------------------------
(* Type correctness                                                         *)

LEMMA TypeInit == Init => TypeOK
  <1> SUFFICES ASSUME Init PROVE TypeOK
    OBVIOUS
  <1>1. stalls \in [Events -> Nat] /\ copies \in [Events -> Nat]
    BY DEF Init
  <1>2. /\ up \in BOOLEAN /\ redisFull \in BOOLEAN /\ faults \subseteq FaultKinds
        /\ acked \subseteq Events /\ buffer \subseteq Events
    BY DEF Init
  <1> QED
    BY <1>1, <1>2 DEF Init, TypeOK

LEMMA TypeStep == TypeOK /\ [Next]_vars => TypeOK'
  <1> SUFFICES ASSUME TypeOK, [Next]_vars
               PROVE  TypeOK'
    OBVIOUS
  <1> USE DEF TypeOK, Batches, redis, finished, counts, worker, memory,
     FaultKinds
  <1>1. ASSUME NEW e \in Events, AcceptEvent(e)
        PROVE  TypeOK'
    BY <1>1 DEF AcceptEvent, Full, FlushBatch
  <1>2. CASE FlushInterval
    BY <1>2 DEF FlushInterval, FlushDue, FlushBatch
  <1>3. ASSUME NEW b \in adding, AddJob(b)
        PROVE  TypeOK'
    BY <1>3 DEF AddJob
  <1>4. ASSUME NEW b \in adding, AddJobRejected(b)
        PROVE  TypeOK'
    BY <1>4 DEF AddJobRejected, GracefulShutdown
  <1>5. ASSUME NEW b \in wait, TakeJob(b)
        PROVE  TypeOK'
    BY <1>5 DEF TakeJob
  <1>6. ASSUME NEW b \in fetched, ProcessJob(b)
        PROVE  TypeOK'
    BY <1>6 DEF ProcessJob, Parses
  <1>7. ASSUME NEW b \in returned \cup threw, FinishJob(b)
        PROVE  TypeOK'
    BY <1>7 DEF FinishJob
  <1>8. ASSUME NEW b \in active, StalledJob(b)
        PROVE  TypeOK'
    BY <1>8 DEF StalledJob, Unattended, StalledOut
  <1>9. ASSUME NEW b \in inserting, InsertLands(b)
        PROVE  TypeOK'
    BY <1>9 DEF InsertLands, Write
  <1>10. ASSUME NEW b \in inserting, InsertRejected(b)
         PROVE  TypeOK'
    BY <1>10 DEF InsertRejected, GracefulShutdown
  <1>11. ASSUME NEW b \in inserting, NEW written \in SUBSET b,
                InsertUnacknowledged(b, written)
         PROVE  TypeOK'
    BY <1>11 DEF InsertUnacknowledged, Write
  <1>12. CASE Exit
    BY <1>12 DEF Exit, GracefulShutdown
  <1>13. CASE Restart
    BY <1>13 DEF Restart
  <1>14. CASE RedisRestart
    BY <1>14 DEF RedisRestart
  <1>15. CASE UNCHANGED vars
    BY <1>15 DEF vars
  <1>16. CASE MemoryChanges
    BY <1>16 DEF MemoryChanges, memory, worker, counts
  <1> QED
    BY <1>1, <1>2, <1>3, <1>4, <1>5, <1>6, <1>7, <1>8, <1>9, <1>10, <1>11,
       <1>12, <1>13, <1>14, <1>15, <1>16 DEF Next

\* Every variable keeps its type (the state of stream-event-batcher.service.ts,
\* of the BullMQ queue and of the worker).
THEOREM TypeCorrect == Spec => []TypeOK
  BY TypeInit, TypeStep, PTL DEF Spec

-----------------------------------------------------------------------------
(* The inductive invariant, part by part                                    *)

LEMMA InvInit == Init => PipelineInv
  <1> SUFFICES ASSUME Init PROVE PipelineInv
    OBVIOUS
  <1> USE PipelineAssumption DEF Init, AllBatches, JobBatches, Running
  <1>1. TypeOK
    BY TypeInit
  <1>2. Parsed /\ OneBatchPerEvent /\ JobsExclusive /\ BatchesAcked
    BY DEF Parsed, OneBatchPerEvent, JobsExclusive, BatchesAcked
  <1>3. DownHoldsNothing /\ StallsShared /\ FreshUntouched /\ RunOwed
    BY DEF DownHoldsNothing, StallsShared, FreshUntouched, RunOwed
  <1>4. DuplicatesBounded
    BY DEF DuplicatesBounded
  <1>5. FailedForCause /\ PoisonedNeverStored
    BY DEF FailedForCause, PoisonedNeverStored
  <1> QED
    BY <1>1, <1>2, <1>3, <1>4, <1>5 DEF PipelineInv

\* An arrival that does not fill the buffer.
LEMMA AcceptStep ==
    ASSUME PipelineInv, NEW e \in Events, AcceptEvent(e)
    PROVE  PipelineInv'
  <1> USE DEF AllBatches, JobBatches, Running, redis, finished, counts, worker
  <1>0. TypeOK'
    BY TypeStep DEF PipelineInv, Next
  <1>1. /\ up /\ e \notin acked /\ acked' = acked \cup {e}
        /\ \/ buffer' = {} /\ adding' = adding \cup {buffer \cup {e}}
           \/ buffer' = buffer \cup {e} /\ adding' = adding
        /\ UNCHANGED <<up, redis, worker, inserting, stalls, copies, faults>>
    BY DEF AcceptEvent, Full, FlushBatch
  <1>2. /\ TypeOK /\ Parsed /\ OneBatchPerEvent /\ JobsExclusive /\ BatchesAcked
        /\ DownHoldsNothing /\ StallsShared /\ FreshUntouched /\ RunOwed
        /\ DuplicatesBounded /\ FailedForCause /\ PoisonedNeverStored
    BY DEF PipelineInv
  <1>3. Parsed'
    BY <1>1, <1>2 DEF Parsed
  <1>4. OneBatchPerEvent'
    <2>1. CASE buffer' = {} /\ adding' = adding \cup {buffer \cup {e}}
      <3>1. AllBatches' = AllBatches \cup {buffer \cup {e}}
        BY <1>1, <2>1
      <3>2. \A b \in AllBatches : b \cap (buffer \cup {e}) = {}
        BY <1>1, <1>2 DEF OneBatchPerEvent, BatchesAcked
      <3> QED
        BY <2>1, <3>1, <3>2, <1>2 DEF OneBatchPerEvent
    <2>2. CASE buffer' = buffer \cup {e} /\ adding' = adding
      <3>1. AllBatches' = AllBatches
        BY <1>1, <2>2
      <3> QED
        BY <2>2, <3>1, <1>1, <1>2 DEF OneBatchPerEvent, BatchesAcked
    <2> QED
      BY <1>1, <2>1, <2>2
  <1>5. JobsExclusive'
    BY <1>1, <1>2 DEF JobsExclusive, BatchesAcked
  <1>6. BatchesAcked'
    BY <1>1, <1>2 DEF BatchesAcked
  <1>7. DownHoldsNothing'
    BY <1>1, <1>2 DEF DownHoldsNothing
  <1>8. StallsShared'
    BY <1>1, <1>2 DEF StallsShared, FreshUntouched, TypeOK
  <1>9. FreshUntouched'
    BY <1>1, <1>2 DEF FreshUntouched, TypeOK
  <1>10. RunOwed' /\ DuplicatesBounded'
    BY <1>1, <1>2 DEF RunOwed, DuplicatesBounded
  <1>11. FailedForCause'
    BY <1>1, <1>2 DEF FailedForCause
  <1>12. PoisonedNeverStored'
    BY <1>1, <1>2 DEF PoisonedNeverStored, FreshUntouched, Stored, TypeOK
  <1> QED
    BY <1>0, <1>2, <1>3, <1>4, <1>5, <1>6, <1>7, <1>8, <1>9, <1>10, <1>11,
       <1>12 DEF PipelineInv

\* The flush timer.
LEMMA FlushStep ==
    ASSUME PipelineInv, FlushInterval
    PROVE  PipelineInv'
  <1> USE DEF AllBatches, JobBatches, Running, redis, finished, counts, worker
  <1>0. TypeOK'
    BY TypeStep DEF PipelineInv, Next
  <1>1. /\ up /\ buffer # {} /\ buffer' = {} /\ adding' = adding \cup {buffer}
        /\ UNCHANGED <<up, acked, redis, worker, inserting, stalls, copies, faults>>
    BY DEF FlushInterval, FlushDue, FlushBatch
  <1>2. /\ TypeOK /\ Parsed /\ OneBatchPerEvent /\ JobsExclusive /\ BatchesAcked
        /\ DownHoldsNothing /\ StallsShared /\ FreshUntouched /\ RunOwed
        /\ DuplicatesBounded /\ FailedForCause /\ PoisonedNeverStored
    BY DEF PipelineInv
  <1>3. Parsed'
    BY <1>1, <1>2 DEF Parsed
  <1>4. OneBatchPerEvent'
    <2>1. AllBatches' = AllBatches \cup {buffer}
      BY <1>1
    <2> QED
      BY <2>1, <1>1, <1>2 DEF OneBatchPerEvent
  <1>5. JobsExclusive'
    <2>1. buffer \notin AllBatches
      BY <1>1, <1>2 DEF OneBatchPerEvent
    <2> QED
      BY <2>1, <1>1, <1>2 DEF JobsExclusive
  <1>6. BatchesAcked'
    BY <1>1, <1>2 DEF BatchesAcked
  <1>7. DownHoldsNothing'
    BY <1>1, <1>2 DEF DownHoldsNothing
  <1>8. StallsShared'
    BY <1>1, <1>2 DEF StallsShared, FreshUntouched, TypeOK
  <1>9. FreshUntouched'
    BY <1>1, <1>2 DEF FreshUntouched, TypeOK
  <1>10. RunOwed' /\ DuplicatesBounded'
    BY <1>1, <1>2 DEF RunOwed, DuplicatesBounded
  <1>11. FailedForCause'
    BY <1>1, <1>2 DEF FailedForCause
  <1>12. PoisonedNeverStored'
    BY <1>1, <1>2 DEF PoisonedNeverStored, FreshUntouched, Stored, TypeOK
  <1> QED
    BY <1>0, <1>2, <1>3, <1>4, <1>5, <1>6, <1>7, <1>8, <1>9, <1>10, <1>11,
       <1>12 DEF PipelineInv

\* A batch that leaves a place without a new one appearing keeps batches apart.
LEMMA NoNewBatch ==
    ASSUME OneBatchPerEvent, BatchesAcked, acked' = acked,
           buffer' \subseteq buffer, AllBatches' \subseteq AllBatches
    PROVE  OneBatchPerEvent' /\ BatchesAcked'
  BY DEF OneBatchPerEvent, BatchesAcked

\* Redis takes a batch in.
LEMMA AddStep ==
    ASSUME PipelineInv, NEW b \in adding, AddJob(b)
    PROVE  PipelineInv'
  <1> USE DEF AllBatches, JobBatches, Running, redis, finished, counts,
     worker, memory
  <1>0. TypeOK'
    BY TypeStep DEF PipelineInv, Next
  <1>1. /\ b \in adding /\ adding' = adding \ {b} /\ wait' = wait \cup {b}
        /\ UNCHANGED <<up, acked, buffer, active, completed, failed, worker,
                       inserting, stalls, copies>>
    BY DEF AddJob
  <1>2. /\ TypeOK /\ Parsed /\ OneBatchPerEvent /\ JobsExclusive /\ BatchesAcked
        /\ DownHoldsNothing /\ StallsShared /\ FreshUntouched /\ RunOwed
        /\ DuplicatesBounded /\ FailedForCause /\ PoisonedNeverStored
    BY DEF PipelineInv
  <1>3. Parsed'
    BY <1>1, <1>2 DEF Parsed
  <1>4. OneBatchPerEvent' /\ BatchesAcked'
    <2>1. AllBatches' \subseteq AllBatches /\ buffer' \subseteq buffer
      BY <1>1, <1>2
    <2> QED
      BY <2>1, <1>1, <1>2, NoNewBatch
  <1>5. JobsExclusive'
    BY <1>1, <1>2 DEF JobsExclusive
  <1>6. DownHoldsNothing'
    BY <1>1, <1>2 DEF DownHoldsNothing
  <1>7. StallsShared'
    BY <1>1, <1>2 DEF StallsShared
  <1>8. FreshUntouched'
    BY <1>1, <1>2 DEF FreshUntouched
  <1>9. RunOwed'
    BY <1>1, <1>2, PipelineAssumption DEF RunOwed, FreshUntouched
  <1>10. DuplicatesBounded'
    BY <1>1, <1>2 DEF DuplicatesBounded
  <1>11. FailedForCause'
    BY <1>1, <1>2 DEF FailedForCause
  <1>12. PoisonedNeverStored'
    BY <1>1, <1>2 DEF PoisonedNeverStored, Stored
  <1> QED
    BY <1>0, <1>2, <1>3, <1>4, <1>5, <1>6, <1>7, <1>8, <1>9, <1>10, <1>11,
       <1>12 DEF PipelineInv

\* Redis refuses a batch.
LEMMA AddRejectedStep ==
    ASSUME PipelineInv, NEW b \in adding, AddJobRejected(b)
    PROVE  PipelineInv'
  <1> USE DEF AllBatches, JobBatches, Running, redis, finished, counts,
     worker, memory
  <1>0. TypeOK'
    BY TypeStep DEF PipelineInv, Next
  <1>1. /\ adding' \subseteq adding /\ buffer' \subseteq buffer
        /\ fetched' \subseteq fetched /\ returned' \subseteq returned
        /\ threw' \subseteq threw /\ inserting' \subseteq inserting
        /\ \/ UNCHANGED <<up, buffer, worker, inserting>>
           \/ /\ buffer' = {} /\ adding' = {} /\ inserting' = {}
              /\ fetched' = {} /\ returned' = {} /\ threw' = {}
        /\ up
        /\ UNCHANGED <<acked, redis, stalls, copies>>
    BY DEF AddJobRejected, GracefulShutdown
  <1>2. /\ TypeOK /\ Parsed /\ OneBatchPerEvent /\ JobsExclusive /\ BatchesAcked
        /\ DownHoldsNothing /\ StallsShared /\ FreshUntouched /\ RunOwed
        /\ DuplicatesBounded /\ FailedForCause /\ PoisonedNeverStored
    BY DEF PipelineInv
  <1>3. Parsed'
    BY <1>1, <1>2 DEF Parsed
  <1>4. OneBatchPerEvent' /\ BatchesAcked'
    <2>1. AllBatches' \subseteq AllBatches /\ buffer' \subseteq buffer
      BY <1>1, <1>2
    <2> QED
      BY <2>1, <1>1, <1>2, NoNewBatch
  <1>5. JobsExclusive'
    BY <1>1, <1>2 DEF JobsExclusive
  <1>6. DownHoldsNothing'
    BY <1>1, <1>2 DEF DownHoldsNothing
  <1>7. StallsShared'
    BY <1>1, <1>2 DEF StallsShared
  <1>8. FreshUntouched'
    BY <1>1, <1>2 DEF FreshUntouched
  <1>9. RunOwed'
    BY <1>1, <1>2 DEF RunOwed
  <1>10. DuplicatesBounded'
    BY <1>1, <1>2 DEF DuplicatesBounded
  <1>11. FailedForCause'
    BY <1>1, <1>2 DEF FailedForCause
  <1>12. PoisonedNeverStored'
    BY <1>1, <1>2 DEF PoisonedNeverStored, Stored
  <1> QED
    BY <1>0, <1>2, <1>3, <1>4, <1>5, <1>6, <1>7, <1>8, <1>9, <1>10, <1>11,
       <1>12 DEF PipelineInv

\* A worker takes a job.
LEMMA TakeStep ==
    ASSUME PipelineInv, NEW b \in wait, TakeJob(b)
    PROVE  PipelineInv'
  <1> USE DEF AllBatches, JobBatches, Running, redis, finished, counts,
     worker, memory
  <1>0. TypeOK'
    BY TypeStep DEF PipelineInv, Next
  <1>1. /\ up /\ b \in wait /\ wait' = wait \ {b}
        /\ active' = active \cup {b} /\ fetched' = fetched \cup {b}
        /\ UNCHANGED <<up, acked, buffer, adding, completed, failed, returned,
                       threw, inserting, stalls, copies>>
    BY DEF TakeJob
  <1>2. /\ TypeOK /\ Parsed /\ OneBatchPerEvent /\ JobsExclusive /\ BatchesAcked
        /\ DownHoldsNothing /\ StallsShared /\ FreshUntouched /\ RunOwed
        /\ DuplicatesBounded /\ FailedForCause /\ PoisonedNeverStored
    BY DEF PipelineInv
  <1>3. Parsed'
    BY <1>1, <1>2 DEF Parsed
  <1>4. OneBatchPerEvent' /\ BatchesAcked'
    <2>1. AllBatches' \subseteq AllBatches /\ buffer' \subseteq buffer
      BY <1>1, <1>2
    <2> QED
      BY <2>1, <1>1, <1>2, NoNewBatch
  <1>5. JobsExclusive'
    BY <1>1, <1>2 DEF JobsExclusive
  <1>6. DownHoldsNothing'
    BY <1>1, <1>2 DEF DownHoldsNothing
  <1>7. StallsShared'
    BY <1>1, <1>2 DEF StallsShared
  <1>8. FreshUntouched'
    BY <1>1, <1>2 DEF FreshUntouched
  <1>9. RunOwed'
    BY <1>1, <1>2 DEF RunOwed
  <1>10. DuplicatesBounded'
    BY <1>1, <1>2 DEF DuplicatesBounded
  <1>11. FailedForCause'
    BY <1>1, <1>2 DEF FailedForCause
  <1>12. PoisonedNeverStored'
    BY <1>1, <1>2 DEF PoisonedNeverStored, Stored
  <1> QED
    BY <1>0, <1>2, <1>3, <1>4, <1>5, <1>6, <1>7, <1>8, <1>9, <1>10, <1>11,
       <1>12 DEF PipelineInv

\* process() parses a batch and starts its write.
LEMMA ProcessStep ==
    ASSUME PipelineInv, NEW b \in fetched, ProcessJob(b)
    PROVE  PipelineInv'
  <1> USE DEF AllBatches, JobBatches, Running, redis, finished, counts,
     worker, memory
  <1>0. TypeOK'
    BY TypeStep DEF PipelineInv, Next
  <1>1. /\ up /\ b \in fetched /\ fetched' = fetched \ {b}
        /\ \/ /\ b \cap Malformed # {} /\ threw' = threw \cup {b}
              /\ UNCHANGED <<returned, inserting>>
           \/ /\ b \cap Malformed = {} /\ returned' = returned \cup {b}
              /\ inserting' = inserting \cup {b} /\ UNCHANGED threw
        /\ UNCHANGED <<up, acked, buffer, adding, redis, stalls, copies>>
    BY DEF ProcessJob, Parses
  <1>2. /\ TypeOK /\ Parsed /\ OneBatchPerEvent /\ JobsExclusive /\ BatchesAcked
        /\ DownHoldsNothing /\ StallsShared /\ FreshUntouched /\ RunOwed
        /\ DuplicatesBounded /\ FailedForCause /\ PoisonedNeverStored
    BY DEF PipelineInv
  <1>3. Parsed'
    BY <1>1, <1>2 DEF Parsed
  <1>4. OneBatchPerEvent' /\ BatchesAcked'
    <2>1. AllBatches' \subseteq AllBatches /\ buffer' \subseteq buffer
      BY <1>1, <1>2
    <2> QED
      BY <2>1, <1>1, <1>2, NoNewBatch
  <1>5. JobsExclusive'
    BY <1>1, <1>2 DEF JobsExclusive
  <1>6. DownHoldsNothing'
    BY <1>1, <1>2 DEF DownHoldsNothing
  <1>7. StallsShared'
    BY <1>1, <1>2 DEF StallsShared
  <1>8. FreshUntouched'
    BY <1>1, <1>2 DEF FreshUntouched
  <1>9. RunOwed'
    BY <1>1, <1>2 DEF RunOwed
  <1>10. DuplicatesBounded'
    BY <1>1, <1>2 DEF DuplicatesBounded
  <1>11. FailedForCause'
    BY <1>1, <1>2 DEF FailedForCause
  <1>12. PoisonedNeverStored'
    BY <1>1, <1>2 DEF PoisonedNeverStored, Stored
  <1> QED
    BY <1>0, <1>2, <1>3, <1>4, <1>5, <1>6, <1>7, <1>8, <1>9, <1>10, <1>11,
       <1>12 DEF PipelineInv

\* BullMQ records the outcome of a job.
LEMMA FinishStep ==
    ASSUME PipelineInv, NEW b \in returned \cup threw, FinishJob(b)
    PROVE  PipelineInv'
  <1> USE DEF AllBatches, JobBatches, Running, redis, finished, counts,
     worker, memory
  <1>0. TypeOK'
    BY TypeStep DEF PipelineInv, Next
  <1>1. /\ up /\ b \in returned \cup threw
        /\ returned' = returned \ {b} /\ threw' = threw \ {b}
        /\ active' = active \ {b}
        /\ completed' = completed \cup ({b} \cap active \cap returned)
        /\ failed' = failed \cup ({b} \cap active \cap threw)
        /\ UNCHANGED <<up, acked, buffer, adding, wait, fetched, inserting,
                       stalls, copies>>
    BY DEF FinishJob
  <1>2. /\ TypeOK /\ Parsed /\ OneBatchPerEvent /\ JobsExclusive /\ BatchesAcked
        /\ DownHoldsNothing /\ StallsShared /\ FreshUntouched /\ RunOwed
        /\ DuplicatesBounded /\ FailedForCause /\ PoisonedNeverStored
    BY DEF PipelineInv
  <1>3. Parsed'
    BY <1>1, <1>2 DEF Parsed
  <1>4. OneBatchPerEvent' /\ BatchesAcked'
    <2>1. AllBatches' \subseteq AllBatches /\ buffer' \subseteq buffer
      BY <1>1, <1>2
    <2> QED
      BY <2>1, <1>1, <1>2, NoNewBatch
  <1>5. JobsExclusive'
    BY <1>1, <1>2 DEF JobsExclusive
  <1>6. DownHoldsNothing'
    BY <1>1, <1>2 DEF DownHoldsNothing
  <1>7. StallsShared'
    BY <1>1, <1>2 DEF StallsShared
  <1>8. FreshUntouched'
    BY <1>1, <1>2 DEF FreshUntouched
  <1>9. RunOwed'
    BY <1>1, <1>2 DEF RunOwed
  <1>10. DuplicatesBounded'
    BY <1>1, <1>2 DEF DuplicatesBounded
  <1>11. FailedForCause'
    BY <1>1, <1>2 DEF FailedForCause, Parsed
  <1>12. PoisonedNeverStored'
    BY <1>1, <1>2 DEF PoisonedNeverStored, Stored
  <1> QED
    BY <1>0, <1>2, <1>3, <1>4, <1>5, <1>6, <1>7, <1>8, <1>9, <1>10, <1>11,
       <1>12 DEF PipelineInv

\* A stalled job is redelivered or given up.
LEMMA StalledStep ==
    ASSUME PipelineInv, NEW b \in active, StalledJob(b)
    PROVE  PipelineInv'
  <1> USE DEF AllBatches, JobBatches, Running, redis, finished, counts,
     worker, memory
  <1>0. TypeOK'
    BY TypeStep DEF PipelineInv, Next
  <1>1. /\ up /\ b \in active /\ b \notin Running
        /\ active' = active \ {b}
        /\ stalls' = [e \in Events |-> stalls[e] + (IF e \in b THEN 1 ELSE 0)]
        /\ \/ /\ \E e \in b : stalls[e] >= MaxStalled
              /\ failed' = failed \cup {b} /\ wait' = wait
           \/ /\ ~ \E e \in b : stalls[e] >= MaxStalled
              /\ wait' = wait \cup {b} /\ failed' = failed
        /\ UNCHANGED <<memory, acked, completed, copies>>
    BY DEF StalledJob, Unattended, StalledOut
  <1>2. /\ TypeOK /\ Parsed /\ OneBatchPerEvent /\ JobsExclusive /\ BatchesAcked
        /\ DownHoldsNothing /\ StallsShared /\ FreshUntouched /\ RunOwed
        /\ DuplicatesBounded /\ FailedForCause /\ PoisonedNeverStored
    BY DEF PipelineInv
  <1>3. Parsed'
    BY <1>1, <1>2 DEF Parsed
  <1>4. OneBatchPerEvent' /\ BatchesAcked'
    <2>1. AllBatches' \subseteq AllBatches /\ buffer' \subseteq buffer
      BY <1>1, <1>2
    <2> QED
      BY <2>1, <1>1, <1>2, NoNewBatch
  <1>5. JobsExclusive'
    BY <1>1, <1>2 DEF JobsExclusive
  <1>6. DownHoldsNothing'
    BY <1>1, <1>2 DEF DownHoldsNothing
  <1>7. StallsShared'
    <2>1. /\ b \subseteq Events /\ b \subseteq acked /\ b \cap buffer = {}
          /\ \A a \in AllBatches : a # b => a \cap b = {}
          /\ \A a \in AllBatches : a \subseteq Events
      BY <1>1, <1>2 DEF TypeOK, Batches, OneBatchPerEvent, BatchesAcked
    <2> QED
      BY <2>1, <1>1, <1>2, <1>0 DEF StallsShared, TypeOK
  <1>8. FreshUntouched'
    <2>1. /\ b \subseteq Events /\ b \subseteq acked /\ b \cap buffer = {}
          /\ \A a \in AllBatches : a # b => a \cap b = {}
          /\ \A a \in AllBatches : a \subseteq Events
      BY <1>1, <1>2 DEF TypeOK, Batches, OneBatchPerEvent, BatchesAcked
    <2> QED
      BY <2>1, <1>1, <1>2, <1>0 DEF FreshUntouched, JobsExclusive, TypeOK
  <1>9. RunOwed'
    <2>1. /\ b \subseteq Events /\ b \subseteq acked /\ b \cap buffer = {}
          /\ \A a \in AllBatches : a # b => a \cap b = {}
          /\ \A a \in AllBatches : a \subseteq Events
      BY <1>1, <1>2 DEF TypeOK, Batches, OneBatchPerEvent, BatchesAcked
    <2>2. \A e \in Events \ b : stalls'[e] = stalls[e]
      BY <1>1, <1>2 DEF TypeOK
    <2>3. \A e \in b : stalls'[e] = stalls[e] + 1 /\ copies'[e] <= stalls'[e]
      BY <1>1, <1>2, <2>1 DEF TypeOK, DuplicatesBounded
    <2>4. b \in wait' => \A e \in b : stalls'[e] <= MaxStalled
      BY <1>1, <1>2, <2>1, <2>3, PipelineAssumption DEF TypeOK, JobsExclusive
    <2>5. b \notin active' \cup Running' \cup inserting'
      BY <1>1, <1>2 DEF JobsExclusive
    <2> QED
      BY <2>1, <2>2, <2>3, <2>4, <2>5, <1>1, <1>2 DEF RunOwed
  <1>10. DuplicatesBounded'
    <2>1. /\ b \subseteq Events /\ b \subseteq acked /\ b \cap buffer = {}
          /\ \A a \in AllBatches : a # b => a \cap b = {}
          /\ \A a \in AllBatches : a \subseteq Events
      BY <1>1, <1>2 DEF TypeOK, Batches, OneBatchPerEvent, BatchesAcked
    <2> QED
      BY <2>1, <1>1, <1>2, <1>0, PipelineAssumption DEF DuplicatesBounded,
         TypeOK
  <1>11. FailedForCause'
    <2>1. /\ b \subseteq Events /\ b \subseteq acked /\ b \cap buffer = {}
          /\ \A a \in AllBatches : a # b => a \cap b = {}
          /\ \A a \in AllBatches : a \subseteq Events
      BY <1>1, <1>2 DEF TypeOK, Batches, OneBatchPerEvent, BatchesAcked
    <2> QED
      BY <2>1, <1>1, <1>2, <1>0, PipelineAssumption DEF FailedForCause,
         StallsShared, JobsExclusive, TypeOK
  <1>12. PoisonedNeverStored'
    BY <1>1, <1>2 DEF PoisonedNeverStored, Stored
  <1> QED
    BY <1>0, <1>2, <1>3, <1>4, <1>5, <1>6, <1>7, <1>8, <1>9, <1>10, <1>11,
       <1>12 DEF PipelineInv

\* MongoDB stores a batch.
LEMMA LandStep ==
    ASSUME PipelineInv, NEW b \in inserting, InsertLands(b)
    PROVE  PipelineInv'
  <1> USE DEF AllBatches, JobBatches, Running, redis, finished, counts,
     worker, memory
  <1>0. TypeOK'
    BY TypeStep DEF PipelineInv, Next
  <1>1. /\ up /\ b \in inserting /\ inserting' = inserting \ {b}
        /\ \A e \in Events : copies'[e] = copies[e] \/
              (e \in b /\ copies'[e] = copies[e] + 1)
        /\ UNCHANGED <<up, acked, buffer, adding, redis, worker, stalls>>
    BY DEF InsertLands, Write, PipelineInv, TypeOK
  <1>2. /\ TypeOK /\ Parsed /\ OneBatchPerEvent /\ JobsExclusive /\ BatchesAcked
        /\ DownHoldsNothing /\ StallsShared /\ FreshUntouched /\ RunOwed
        /\ DuplicatesBounded /\ FailedForCause /\ PoisonedNeverStored
    BY DEF PipelineInv
  <1>3. Parsed'
    BY <1>1, <1>2 DEF Parsed
  <1>4. OneBatchPerEvent' /\ BatchesAcked'
    <2>1. AllBatches' \subseteq AllBatches /\ buffer' \subseteq buffer
      BY <1>1, <1>2
    <2> QED
      BY <2>1, <1>1, <1>2, NoNewBatch
  <1>5. JobsExclusive'
    BY <1>1, <1>2 DEF JobsExclusive
  <1>6. DownHoldsNothing'
    BY <1>1, <1>2 DEF DownHoldsNothing
  <1>7. StallsShared'
    BY <1>1, <1>2 DEF StallsShared
  <1>8. FreshUntouched'
    <2>1. /\ b \subseteq Events /\ b \subseteq acked /\ b \cap buffer = {}
          /\ \A a \in AllBatches : a # b => a \cap b = {}
          /\ \A a \in AllBatches : a \subseteq Events
      BY <1>1, <1>2 DEF TypeOK, Batches, OneBatchPerEvent, BatchesAcked
    <2> QED
      BY <2>1, <1>1, <1>2, <1>0 DEF FreshUntouched, JobsExclusive, TypeOK
  <1>9. RunOwed'
    <2>1. /\ b \subseteq Events /\ b \subseteq acked /\ b \cap buffer = {}
          /\ \A a \in AllBatches : a # b => a \cap b = {}
          /\ \A a \in AllBatches : a \subseteq Events
      BY <1>1, <1>2 DEF TypeOK, Batches, OneBatchPerEvent, BatchesAcked
    <2> QED
      BY <2>1, <1>1, <1>2, <1>0 DEF RunOwed, JobsExclusive, TypeOK
  <1>10. DuplicatesBounded'
    <2>1. /\ b \subseteq Events /\ b \subseteq acked /\ b \cap buffer = {}
          /\ \A a \in AllBatches : a # b => a \cap b = {}
          /\ \A a \in AllBatches : a \subseteq Events
      BY <1>1, <1>2 DEF TypeOK, Batches, OneBatchPerEvent, BatchesAcked
    <2> QED
      BY <2>1, <1>1, <1>2, <1>0, PipelineAssumption DEF DuplicatesBounded,
         RunOwed, TypeOK
  <1>11. FailedForCause'
    BY <1>1, <1>2 DEF FailedForCause
  <1>12. PoisonedNeverStored'
    <2>1. /\ b \subseteq Events /\ b \subseteq acked /\ b \cap buffer = {}
          /\ \A a \in AllBatches : a # b => a \cap b = {}
          /\ \A a \in AllBatches : a \subseteq Events
      BY <1>1, <1>2 DEF TypeOK, Batches, OneBatchPerEvent, BatchesAcked
    <2> QED
      BY <2>1, <1>1, <1>2, <1>0 DEF PoisonedNeverStored, Parsed, Stored, TypeOK
  <1> QED
    BY <1>0, <1>2, <1>3, <1>4, <1>5, <1>6, <1>7, <1>8, <1>9, <1>10, <1>11,
       <1>12 DEF PipelineInv

\* MongoDB stores a part of a batch and nobody is told.
LEMMA UnacknowledgedStep ==
    ASSUME PipelineInv, NEW b \in inserting, NEW written \in SUBSET b,
           InsertUnacknowledged(b, written)
    PROVE  PipelineInv'
  <1> USE DEF AllBatches, JobBatches, Running, redis, finished, counts,
     worker, memory
  <1>0. TypeOK'
    BY TypeStep DEF PipelineInv, Next
  <1>1. /\ up /\ b \in inserting /\ inserting' = inserting \ {b}
        /\ \A e \in Events : copies'[e] = copies[e] \/
              (e \in b /\ copies'[e] = copies[e] + 1)
        /\ UNCHANGED <<up, acked, buffer, adding, redis, worker, stalls>>
    BY DEF InsertUnacknowledged, Write, PipelineInv, TypeOK
  <1>2. /\ TypeOK /\ Parsed /\ OneBatchPerEvent /\ JobsExclusive /\ BatchesAcked
        /\ DownHoldsNothing /\ StallsShared /\ FreshUntouched /\ RunOwed
        /\ DuplicatesBounded /\ FailedForCause /\ PoisonedNeverStored
    BY DEF PipelineInv
  <1>3. Parsed'
    BY <1>1, <1>2 DEF Parsed
  <1>4. OneBatchPerEvent' /\ BatchesAcked'
    <2>1. AllBatches' \subseteq AllBatches /\ buffer' \subseteq buffer
      BY <1>1, <1>2
    <2> QED
      BY <2>1, <1>1, <1>2, NoNewBatch
  <1>5. JobsExclusive'
    BY <1>1, <1>2 DEF JobsExclusive
  <1>6. DownHoldsNothing'
    BY <1>1, <1>2 DEF DownHoldsNothing
  <1>7. StallsShared'
    BY <1>1, <1>2 DEF StallsShared
  <1>8. FreshUntouched'
    <2>1. /\ b \subseteq Events /\ b \subseteq acked /\ b \cap buffer = {}
          /\ \A a \in AllBatches : a # b => a \cap b = {}
          /\ \A a \in AllBatches : a \subseteq Events
      BY <1>1, <1>2 DEF TypeOK, Batches, OneBatchPerEvent, BatchesAcked
    <2> QED
      BY <2>1, <1>1, <1>2, <1>0 DEF FreshUntouched, JobsExclusive, TypeOK
  <1>9. RunOwed'
    <2>1. /\ b \subseteq Events /\ b \subseteq acked /\ b \cap buffer = {}
          /\ \A a \in AllBatches : a # b => a \cap b = {}
          /\ \A a \in AllBatches : a \subseteq Events
      BY <1>1, <1>2 DEF TypeOK, Batches, OneBatchPerEvent, BatchesAcked
    <2> QED
      BY <2>1, <1>1, <1>2, <1>0 DEF RunOwed, JobsExclusive, TypeOK
  <1>10. DuplicatesBounded'
    <2>1. /\ b \subseteq Events /\ b \subseteq acked /\ b \cap buffer = {}
          /\ \A a \in AllBatches : a # b => a \cap b = {}
          /\ \A a \in AllBatches : a \subseteq Events
      BY <1>1, <1>2 DEF TypeOK, Batches, OneBatchPerEvent, BatchesAcked
    <2> QED
      BY <2>1, <1>1, <1>2, <1>0, PipelineAssumption DEF DuplicatesBounded,
         RunOwed, TypeOK
  <1>11. FailedForCause'
    BY <1>1, <1>2 DEF FailedForCause
  <1>12. PoisonedNeverStored'
    <2>1. /\ b \subseteq Events /\ b \subseteq acked /\ b \cap buffer = {}
          /\ \A a \in AllBatches : a # b => a \cap b = {}
          /\ \A a \in AllBatches : a \subseteq Events
      BY <1>1, <1>2 DEF TypeOK, Batches, OneBatchPerEvent, BatchesAcked
    <2> QED
      BY <2>1, <1>1, <1>2, <1>0 DEF PoisonedNeverStored, Parsed, Stored, TypeOK
  <1> QED
    BY <1>0, <1>2, <1>3, <1>4, <1>5, <1>6, <1>7, <1>8, <1>9, <1>10, <1>11,
       <1>12 DEF PipelineInv

\* insertMany rejects.
LEMMA RejectedStep ==
    ASSUME PipelineInv, NEW b \in inserting, InsertRejected(b)
    PROVE  PipelineInv'
  <1> USE DEF AllBatches, JobBatches, Running, redis, finished, counts,
     worker, memory
  <1>0. TypeOK'
    BY TypeStep DEF PipelineInv, Next
  <1>1. /\ adding' \subseteq adding /\ buffer' \subseteq buffer
        /\ \/ /\ UNCHANGED <<up, buffer, adding, worker>>
              /\ inserting' = inserting \ {b}
           \/ /\ buffer' = {} /\ adding' = {} /\ inserting' = {}
              /\ fetched' = {} /\ returned' = {} /\ threw' = {}
        /\ up
        /\ UNCHANGED <<acked, redis, stalls, copies>>
    BY DEF InsertRejected, GracefulShutdown
  <1>2. /\ TypeOK /\ Parsed /\ OneBatchPerEvent /\ JobsExclusive /\ BatchesAcked
        /\ DownHoldsNothing /\ StallsShared /\ FreshUntouched /\ RunOwed
        /\ DuplicatesBounded /\ FailedForCause /\ PoisonedNeverStored
    BY DEF PipelineInv
  <1>3. Parsed'
    BY <1>1, <1>2 DEF Parsed
  <1>13. AllBatches' \subseteq AllBatches /\ buffer' \subseteq buffer
    BY <1>1, <1>2
  <1>4. OneBatchPerEvent' /\ BatchesAcked'
    BY <1>13, <1>1, <1>2, NoNewBatch
  <1>5. JobsExclusive'
    <2>1. CASE /\ UNCHANGED <<up, buffer, adding, worker>>
               /\ inserting' = inserting \ {b}
      BY <2>1, <1>1, <1>2 DEF JobsExclusive
    <2>2. CASE /\ buffer' = {} /\ adding' = {} /\ inserting' = {}
               /\ fetched' = {} /\ returned' = {} /\ threw' = {}
      BY <2>2, <1>1, <1>2 DEF JobsExclusive
    <2> QED
      BY <2>1, <2>2, <1>1
  <1>6. DownHoldsNothing'
    BY <1>1, <1>2 DEF DownHoldsNothing
  <1>7. StallsShared'
    <2>1. stalls' = stalls
      BY <1>1
    <2> QED
      BY <2>1, <1>13, <1>2 DEF StallsShared
  <1>8. FreshUntouched'
    BY <1>1, <1>2 DEF FreshUntouched
  <1>9. RunOwed'
    BY <1>1, <1>2 DEF RunOwed
  <1>10. DuplicatesBounded'
    BY <1>1, <1>2 DEF DuplicatesBounded
  <1>11. FailedForCause'
    BY <1>1, <1>2 DEF FailedForCause
  <1>12. PoisonedNeverStored'
    BY <1>1, <1>2 DEF PoisonedNeverStored, Stored
  <1> QED
    BY <1>0, <1>2, <1>3, <1>4, <1>5, <1>6, <1>7, <1>8, <1>9, <1>10, <1>11,
       <1>12 DEF PipelineInv

\* The process exits.
LEMMA ExitStep ==
    ASSUME PipelineInv, Exit
    PROVE  PipelineInv'
  <1> USE DEF AllBatches, JobBatches, Running, redis, finished, counts,
     worker, memory
  <1>0. TypeOK'
    BY TypeStep DEF PipelineInv, Next
  <1>1. /\ buffer' = {} /\ adding' = {} /\ inserting' = {}
        /\ fetched' = {} /\ returned' = {} /\ threw' = {}
        /\ UNCHANGED <<acked, redis, stalls, copies>>
    BY DEF Exit, GracefulShutdown
  <1>2. /\ TypeOK /\ Parsed /\ OneBatchPerEvent /\ JobsExclusive /\ BatchesAcked
        /\ DownHoldsNothing /\ StallsShared /\ FreshUntouched /\ RunOwed
        /\ DuplicatesBounded /\ FailedForCause /\ PoisonedNeverStored
    BY DEF PipelineInv
  <1>3. Parsed'
    BY <1>1, <1>2 DEF Parsed
  <1>4. OneBatchPerEvent' /\ BatchesAcked'
    <2>1. AllBatches' \subseteq AllBatches /\ buffer' \subseteq buffer
      BY <1>1, <1>2
    <2> QED
      BY <2>1, <1>1, <1>2, NoNewBatch
  <1>5. JobsExclusive'
    BY <1>1, <1>2 DEF JobsExclusive
  <1>6. DownHoldsNothing'
    BY <1>1, <1>2 DEF DownHoldsNothing
  <1>7. StallsShared'
    BY <1>1, <1>2 DEF StallsShared
  <1>8. FreshUntouched'
    BY <1>1, <1>2 DEF FreshUntouched
  <1>9. RunOwed'
    BY <1>1, <1>2 DEF RunOwed
  <1>10. DuplicatesBounded'
    BY <1>1, <1>2 DEF DuplicatesBounded
  <1>11. FailedForCause'
    BY <1>1, <1>2 DEF FailedForCause
  <1>12. PoisonedNeverStored'
    BY <1>1, <1>2 DEF PoisonedNeverStored, Stored
  <1> QED
    BY <1>0, <1>2, <1>3, <1>4, <1>5, <1>6, <1>7, <1>8, <1>9, <1>10, <1>11,
       <1>12 DEF PipelineInv

\* The process starts again.
LEMMA RestartStep ==
    ASSUME PipelineInv, Restart
    PROVE  PipelineInv'
  <1> USE DEF AllBatches, JobBatches, Running, redis, finished, counts,
     worker, memory
  <1>0. TypeOK'
    BY TypeStep DEF PipelineInv, Next
  <1>1. UNCHANGED <<acked, buffer, adding, redis, worker, inserting, stalls,
                    copies>> /\ up'
    BY DEF Restart
  <1>2. /\ TypeOK /\ Parsed /\ OneBatchPerEvent /\ JobsExclusive /\ BatchesAcked
        /\ DownHoldsNothing /\ StallsShared /\ FreshUntouched /\ RunOwed
        /\ DuplicatesBounded /\ FailedForCause /\ PoisonedNeverStored
    BY DEF PipelineInv
  <1>3. Parsed'
    BY <1>1, <1>2 DEF Parsed
  <1>4. OneBatchPerEvent' /\ BatchesAcked'
    <2>1. AllBatches' \subseteq AllBatches /\ buffer' \subseteq buffer
      BY <1>1, <1>2
    <2> QED
      BY <2>1, <1>1, <1>2, NoNewBatch
  <1>5. JobsExclusive'
    BY <1>1, <1>2 DEF JobsExclusive
  <1>6. DownHoldsNothing'
    BY <1>1, <1>2 DEF DownHoldsNothing
  <1>7. StallsShared'
    BY <1>1, <1>2 DEF StallsShared
  <1>8. FreshUntouched'
    BY <1>1, <1>2 DEF FreshUntouched
  <1>9. RunOwed'
    BY <1>1, <1>2 DEF RunOwed
  <1>10. DuplicatesBounded'
    BY <1>1, <1>2 DEF DuplicatesBounded
  <1>11. FailedForCause'
    BY <1>1, <1>2 DEF FailedForCause
  <1>12. PoisonedNeverStored'
    BY <1>1, <1>2 DEF PoisonedNeverStored, Stored
  <1> QED
    BY <1>0, <1>2, <1>3, <1>4, <1>5, <1>6, <1>7, <1>8, <1>9, <1>10, <1>11,
       <1>12 DEF PipelineInv

\* Redis comes back empty.
LEMMA RedisRestartStep ==
    ASSUME PipelineInv, RedisRestart
    PROVE  PipelineInv'
  <1> USE DEF AllBatches, JobBatches, Running, redis, finished, counts,
     worker, memory
  <1>0. TypeOK'
    BY TypeStep DEF PipelineInv, Next
  <1>1. /\ wait' = {} /\ active' = {} /\ completed' = {} /\ failed' = {}
        /\ UNCHANGED <<memory, acked, stalls, copies>>
    BY DEF RedisRestart
  <1>2. /\ TypeOK /\ Parsed /\ OneBatchPerEvent /\ JobsExclusive /\ BatchesAcked
        /\ DownHoldsNothing /\ StallsShared /\ FreshUntouched /\ RunOwed
        /\ DuplicatesBounded /\ FailedForCause /\ PoisonedNeverStored
    BY DEF PipelineInv
  <1>3. Parsed'
    BY <1>1, <1>2 DEF Parsed
  <1>4. OneBatchPerEvent' /\ BatchesAcked'
    <2>1. AllBatches' \subseteq AllBatches /\ buffer' \subseteq buffer
      BY <1>1, <1>2
    <2> QED
      BY <2>1, <1>1, <1>2, NoNewBatch
  <1>5. JobsExclusive'
    BY <1>1, <1>2 DEF JobsExclusive
  <1>6. DownHoldsNothing'
    BY <1>1, <1>2 DEF DownHoldsNothing
  <1>7. StallsShared'
    BY <1>1, <1>2 DEF StallsShared
  <1>8. FreshUntouched'
    BY <1>1, <1>2 DEF FreshUntouched
  <1>9. RunOwed'
    BY <1>1, <1>2 DEF RunOwed
  <1>10. DuplicatesBounded'
    BY <1>1, <1>2 DEF DuplicatesBounded
  <1>11. FailedForCause'
    BY <1>1, <1>2 DEF FailedForCause
  <1>12. PoisonedNeverStored'
    BY <1>1, <1>2 DEF PoisonedNeverStored, Stored
  <1> QED
    BY <1>0, <1>2, <1>3, <1>4, <1>5, <1>6, <1>7, <1>8, <1>9, <1>10, <1>11,
       <1>12 DEF PipelineInv

-----------------------------------------------------------------------------
(* The invariant of the specification                                       *)

LEMMA InvStep == PipelineInv /\ [Next]_vars => PipelineInv'
  <1> SUFFICES ASSUME PipelineInv, [Next]_vars
               PROVE  PipelineInv'
    OBVIOUS
  <1>1. ASSUME NEW e \in Events, AcceptEvent(e)
        PROVE  PipelineInv'
    BY <1>1, AcceptStep
  <1>2. CASE FlushInterval
    BY <1>2, FlushStep
  <1>3. ASSUME NEW b \in adding, AddJob(b)
        PROVE  PipelineInv'
    BY <1>3, AddStep
  <1>4. ASSUME NEW b \in adding, AddJobRejected(b)
        PROVE  PipelineInv'
    BY <1>4, AddRejectedStep
  <1>5. ASSUME NEW b \in wait, TakeJob(b)
        PROVE  PipelineInv'
    BY <1>5, TakeStep
  <1>6. ASSUME NEW b \in fetched, ProcessJob(b)
        PROVE  PipelineInv'
    BY <1>6, ProcessStep
  <1>7. ASSUME NEW b \in returned \cup threw, FinishJob(b)
        PROVE  PipelineInv'
    BY <1>7, FinishStep
  <1>8. ASSUME NEW b \in active, StalledJob(b)
        PROVE  PipelineInv'
    BY <1>8, StalledStep
  <1>9. ASSUME NEW b \in inserting, InsertLands(b)
        PROVE  PipelineInv'
    BY <1>9, LandStep
  <1>10. ASSUME NEW b \in inserting, NEW written \in SUBSET b,
                InsertUnacknowledged(b, written)
        PROVE  PipelineInv'
    BY <1>10, UnacknowledgedStep
  <1>11. ASSUME NEW b \in inserting, InsertRejected(b)
        PROVE  PipelineInv'
    BY <1>11, RejectedStep
  <1>12. CASE Exit
    BY <1>12, ExitStep
  <1>13. CASE Restart
    BY <1>13, RestartStep
  <1>14. CASE RedisRestart
    BY <1>14, RedisRestartStep
  <1>15. CASE UNCHANGED vars
    BY <1>15 DEF vars, PipelineInv, TypeOK, Parsed, OneBatchPerEvent,
       JobsExclusive, BatchesAcked, DownHoldsNothing, StallsShared,
       FreshUntouched, RunOwed, DuplicatesBounded, FailedForCause,
       PoisonedNeverStored, AllBatches, JobBatches, Running, Stored
  <1>16. CASE MemoryChanges
    BY <1>16 DEF MemoryChanges, memory, worker, counts, PipelineInv, TypeOK, Parsed, OneBatchPerEvent,
       JobsExclusive, BatchesAcked, DownHoldsNothing, StallsShared,
       FreshUntouched, RunOwed, DuplicatesBounded, FailedForCause,
       PoisonedNeverStored, AllBatches, JobBatches, Running, Stored
  <1> QED
    BY <1>1, <1>2, <1>3, <1>4, <1>5, <1>6, <1>7, <1>8, <1>9, <1>10, <1>11,
       <1>12, <1>13, <1>14, <1>15, <1>16 DEF Next

\* The inductive invariant holds throughout: batching, job states, stalls and
\* documents stay consistent whatever interleaving, exit or loss happens.
THEOREM PipelineInvariant == Spec => []PipelineInv
  BY InvInit, InvStep, PTL DEF Spec

\* No event is ever in two batches, or in a batch and in the buffer.
THEOREM BatchesApart == Spec => []OneBatchPerEvent
  <1>1. PipelineInv => OneBatchPerEvent
    BY DEF PipelineInv
  <1> QED
    BY <1>1, PipelineInvariant, PTL

\* A job has one state, one slot, and never two writes at once.
THEOREM JobsInOnePlace == Spec => []JobsExclusive
  <1>1. PipelineInv => JobsExclusive
    BY DEF PipelineInv
  <1> QED
    BY <1>1, PipelineInvariant, PTL

\* MongoDB never holds more documents of an event than its job had runs.
THEOREM AtMostOneCopyPerRun == Spec => []DuplicatesBounded
  <1>1. PipelineInv => DuplicatesBounded
    BY DEF PipelineInv
  <1> QED
    BY <1>1, PipelineInvariant, PTL

\* A job only fails for a payload that does not parse or for stalling.
THEOREM FailuresHaveCause == Spec => []FailedForCause
  <1>1. PipelineInv => FailedForCause
    BY DEF PipelineInv
  <1> QED
    BY <1>1, PipelineInvariant, PTL

\* The batch mates of a malformed payload are never stored.
THEOREM PoisonTakesTheBatch == Spec => []PoisonedNeverStored
  <1>1. PipelineInv => PoisonedNeverStored
    BY DEF PipelineInv
  <1> QED
    BY <1>1, PipelineInvariant, PTL

-----------------------------------------------------------------------------
(* Batch sizes                                                              *)

LEMMA EmptyBufferFits == Cardinality({}) < BatchSize
  BY FS_EmptySet, PipelineAssumption

\* A step that adds no batch and at most empties the buffer.
LEMMA SizesKept ==
    ASSUME BatchSizeBound, AllBatches' \subseteq AllBatches,
           buffer' = buffer \/ buffer' = {}
    PROVE  BatchSizeBound'
  BY EmptyBufferFits DEF BatchSizeBound

LEMMA SizeStep == TypeOK /\ BatchSizeBound /\ [Next]_vars => BatchSizeBound'
  <1> SUFFICES ASSUME TypeOK, BatchSizeBound, [Next]_vars
               PROVE  BatchSizeBound'
    OBVIOUS
  <1> USE DEF AllBatches, JobBatches, Running, redis, finished, counts,
     worker, memory
  <1>1. ASSUME NEW e \in Events, AcceptEvent(e)
        PROVE  BatchSizeBound'
    <2>1. IsFiniteSet(buffer)
      BY FS_Subset, PipelineAssumption DEF TypeOK
    <2>2. /\ Cardinality(buffer) \in Nat
          /\ Cardinality(buffer \cup {e}) \in Nat
          /\ Cardinality(buffer \cup {e}) <= Cardinality(buffer) + 1
      <3>1. Cardinality(buffer) \in Nat
        BY <2>1, FS_CardinalityType
      <3>2. Cardinality(buffer \cup {e})
              = IF e \in buffer THEN Cardinality(buffer)
                ELSE Cardinality(buffer) + 1
        BY <2>1, FS_AddElement
      <3> QED
        BY <3>1, <3>2
    <2>3. Cardinality(buffer \cup {e}) <= BatchSize
      BY <2>2, PipelineAssumption DEF BatchSizeBound
    <2>4. CASE Cardinality(buffer \cup {e}) >= BatchSize
      <3>1. buffer' = {} /\ AllBatches' = AllBatches \cup {buffer \cup {e}}
        BY <1>1, <2>4 DEF AcceptEvent, Full, FlushBatch
      <3> QED
        BY <3>1, <2>3, EmptyBufferFits DEF BatchSizeBound
    <2>5. CASE ~ (Cardinality(buffer \cup {e}) >= BatchSize)
      <3>1. buffer' = buffer \cup {e} /\ AllBatches' = AllBatches
        BY <1>1, <2>5 DEF AcceptEvent, Full
      <3> QED
        BY <3>1, <2>2, <2>5, PipelineAssumption DEF BatchSizeBound
    <2> QED
      BY <2>4, <2>5
  <1>2. CASE FlushInterval
    <2>1. buffer' = {} /\ AllBatches' = AllBatches \cup {buffer}
      BY <1>2 DEF FlushInterval, FlushDue, FlushBatch
    <2>2. Cardinality(buffer) <= BatchSize
      <3>1. Cardinality(buffer) \in Nat
        BY FS_Subset, FS_CardinalityType, PipelineAssumption DEF TypeOK
      <3> QED
        BY <3>1, PipelineAssumption DEF BatchSizeBound
    <2> QED
      BY <2>1, <2>2, EmptyBufferFits DEF BatchSizeBound
  <1>3. ASSUME NEW b \in adding, AddJob(b)
        PROVE  BatchSizeBound'
    <2>1. AllBatches' \subseteq AllBatches /\ buffer' = buffer
      BY <1>3 DEF AddJob
    <2> QED
      BY <2>1, SizesKept
  <1>4. ASSUME NEW b \in adding, AddJobRejected(b)
        PROVE  BatchSizeBound'
    <2>1. CASE Production
      <3>1. AllBatches' \subseteq AllBatches /\ buffer' = {}
        BY <1>4, <2>1 DEF AddJobRejected, GracefulShutdown
      <3> QED
        BY <3>1, SizesKept
    <2>2. CASE ~ Production
      <3>1. AllBatches' \subseteq AllBatches /\ buffer' = buffer
        BY <1>4, <2>2 DEF AddJobRejected
      <3> QED
        BY <3>1, SizesKept
    <2> QED
      BY <2>1, <2>2
  <1>5. ASSUME NEW b \in wait, TakeJob(b)
        PROVE  BatchSizeBound'
    <2>1. AllBatches' \subseteq AllBatches /\ buffer' = buffer
      BY <1>5 DEF TakeJob
    <2> QED
      BY <2>1, SizesKept
  <1>6. ASSUME NEW b \in fetched, ProcessJob(b)
        PROVE  BatchSizeBound'
    <2>1. AllBatches' \subseteq AllBatches /\ buffer' = buffer
      BY <1>6 DEF ProcessJob, Parses
    <2> QED
      BY <2>1, SizesKept
  <1>7. ASSUME NEW b \in returned \cup threw, FinishJob(b)
        PROVE  BatchSizeBound'
    <2>1. AllBatches' \subseteq AllBatches /\ buffer' = buffer
      BY <1>7 DEF FinishJob
    <2> QED
      BY <2>1, SizesKept
  <1>8. ASSUME NEW b \in active, StalledJob(b)
        PROVE  BatchSizeBound'
    <2>1. AllBatches' \subseteq AllBatches /\ buffer' = buffer
      BY <1>8 DEF StalledJob, Unattended, StalledOut
    <2> QED
      BY <2>1, SizesKept
  <1>9. ASSUME NEW b \in inserting, InsertLands(b)
        PROVE  BatchSizeBound'
    BY <1>9, SizesKept DEF InsertLands, Write
  <1>10. ASSUME NEW b \in inserting, InsertRejected(b)
         PROVE  BatchSizeBound'
    <2>1. CASE Production
      <3>1. AllBatches' \subseteq AllBatches /\ buffer' = {}
        BY <1>10, <2>1 DEF InsertRejected, GracefulShutdown
      <3> QED
        BY <3>1, SizesKept
    <2>2. CASE ~ Production
      <3>1. AllBatches' \subseteq AllBatches /\ buffer' = buffer
        BY <1>10, <2>2 DEF InsertRejected
      <3> QED
        BY <3>1, SizesKept
    <2> QED
      BY <2>1, <2>2
  <1>11. ASSUME NEW b \in inserting, NEW written \in SUBSET b,
                InsertUnacknowledged(b, written)
         PROVE  BatchSizeBound'
    BY <1>11, SizesKept DEF InsertUnacknowledged, Write
  <1>12. CASE Exit
    <2>1. /\ AllBatches' \subseteq AllBatches
          /\ buffer' = buffer \/ buffer' = {}
      BY <1>12 DEF Exit, GracefulShutdown
    <2> QED
      BY <2>1, SizesKept
  <1>13. CASE Restart
    BY <1>13, SizesKept DEF Restart
  <1>14. CASE RedisRestart
    BY <1>14, SizesKept DEF RedisRestart
  <1>15. CASE UNCHANGED vars
    BY <1>15, SizesKept DEF vars
  <1>16. CASE MemoryChanges
    BY <1>16, SizesKept DEF MemoryChanges, memory, worker, counts
  <1> QED
    BY <1>1, <1>2, <1>3, <1>4, <1>5, <1>6, <1>7, <1>8, <1>9, <1>10, <1>11,
       <1>12, <1>13, <1>14, <1>15, <1>16 DEF Next

\* The buffer stays below the batch size between handlers and no job carries
\* more than one batch, however the timer and the arrivals interleave.
THEOREM SizesBounded == Spec => []BatchSizeBound
  <1>1. Init => BatchSizeBound
    BY EmptyBufferFits
       DEF Init, BatchSizeBound, AllBatches, JobBatches, Running
  <1> QED
    BY <1>1, TypeCorrect, SizeStep, PTL DEF Spec

-----------------------------------------------------------------------------
(* Without a fault nothing is lost: the pipeline implements EventLedger     *)

\* Before any fault: the process is up, every active job is in a worker slot,
\* a job whose process() resolved has its documents stored or in flight, and
\* every acknowledged event has a place.
FaultFree ==
    faults = {} =>
        /\ up
        /\ active = Running
        /\ \A b \in returned \cup completed :
              b \in inserting \/ \A e \in b : e \in Stored \cup Invalid
        /\ \A e \in acked :
              \/ e \in buffer \cup Stored \cup Invalid
              \/ \E b \in adding \cup wait \cup active \cup inserting \cup failed :
                    e \in b

LEMMA FaultFreeBalances == FaultFree => NoLossWithoutFault
  <1> SUFFICES ASSUME FaultFree, faults = {}, NEW e \in acked
               PROVE  e \in Pending \cup Stored \cup (UNION failed) \cup Invalid
    BY DEF NoLossWithoutFault
  <1>1. CASE e \in buffer \cup Stored \cup Invalid
    BY <1>1 DEF Pending
  <1>2. ASSUME NEW b \in adding \cup wait \cup active \cup inserting \cup failed,
               e \in b
        PROVE  e \in Pending \cup (UNION failed)
    BY <1>2 DEF Pending
  <1> QED
    BY <1>1, <1>2 DEF FaultFree

LEMMA FaultFreeInit == Init => FaultFree
  BY DEF Init, FaultFree, Running

\* The steps that can happen before a fault.
LEMMA FaultFreeStep ==
    PipelineInv /\ FaultFree /\ [Next]_vars => FaultFree'
  <1> SUFFICES ASSUME PipelineInv, FaultFree, [Next]_vars, faults' = {}
               PROVE  FaultFree'
    BY DEF FaultFree
  <1> USE DEF FaultFree, Running, Stored, redis, finished, counts, worker,
     memory
  <1>1. ASSUME NEW e \in Events, AcceptEvent(e)
        PROVE  FaultFree'
    BY <1>1 DEF AcceptEvent, Full, FlushBatch
  <1>2. CASE FlushInterval
    BY <1>2 DEF FlushInterval, FlushDue, FlushBatch
  <1>3. ASSUME NEW b \in adding, AddJob(b)
        PROVE  FaultFree'
    BY <1>3 DEF AddJob
  <1>4. ASSUME NEW b \in adding, AddJobRejected(b)
        PROVE  FALSE
    BY <1>4 DEF AddJobRejected
  <1>5. ASSUME NEW b \in wait, TakeJob(b)
        PROVE  FaultFree'
    BY <1>5 DEF TakeJob
  <1>6. ASSUME NEW b \in fetched, ProcessJob(b)
        PROVE  FaultFree'
    BY <1>6 DEF ProcessJob, Parses
  <1>7. ASSUME NEW b \in returned \cup threw, FinishJob(b)
        PROVE  FaultFree'
    <2>1. /\ up' /\ faults = {}
          /\ active' = Running'
      BY <1>7 DEF FinishJob, PipelineInv, JobsExclusive
    <2>2. \A a \in returned' \cup completed' :
             a \in inserting' \/ \A e \in a : e \in (Stored \cup Invalid)'
      BY <1>7 DEF FinishJob
    <2>3. ASSUME NEW e \in acked'
          PROVE  \/ e \in (buffer \cup Stored \cup Invalid)'
                 \/ \E a \in (adding \cup wait \cup active \cup inserting
                               \cup failed)' : e \in a
      <3>1. CASE e \in b
        BY <1>7, <3>1 DEF FinishJob
      <3>2. CASE e \notin b
        BY <1>7, <3>2 DEF FinishJob
      <3> QED
        BY <3>1, <3>2
    <2> QED
      BY <2>1, <2>2, <2>3
  <1>8. ASSUME NEW b \in active, StalledJob(b)
        PROVE  FALSE
    BY <1>8 DEF StalledJob, Unattended, StalledOut
  <1>9. ASSUME NEW b \in inserting, InsertLands(b)
        PROVE  FaultFree'
    BY <1>9 DEF InsertLands, Write, PipelineInv, TypeOK, Batches
  <1>10. ASSUME NEW b \in inserting, InsertRejected(b)
         PROVE  FALSE
    BY <1>10 DEF InsertRejected
  <1>11. ASSUME NEW b \in inserting, NEW written \in SUBSET b,
                InsertUnacknowledged(b, written)
         PROVE  FALSE
    BY <1>11 DEF InsertUnacknowledged
  <1>12. CASE Exit
    BY <1>12 DEF Exit
  <1>13. CASE Restart
    BY <1>13 DEF Restart
  <1>14. CASE RedisRestart
    BY <1>14 DEF RedisRestart
  <1>15. CASE UNCHANGED vars
    BY <1>15 DEF vars
  <1>16. CASE MemoryChanges
    BY <1>16 DEF MemoryChanges, memory, worker, counts
  <1> QED
    BY <1>1, <1>2, <1>3, <1>4, <1>5, <1>6, <1>7, <1>8, <1>9, <1>10, <1>11,
       <1>12, <1>13, <1>14, <1>15, <1>16 DEF Next

\* Without a fault no acknowledged event is lost between the batcher, the
\* queue, the worker and the un-awaited insertMany.
THEOREM LedgerBalances == Spec => []NoLossWithoutFault
  BY PipelineInvariant, FaultFreeInit, FaultFreeStep, FaultFreeBalances,
     PTL DEF Spec

-----------------------------------------------------------------------------
(* Refinement of EventLedger                                                *)

\* What every step but an arrival does to the places of an event: documents
\* stay, only a pending event gets stored, and what is no longer pending is
\* never taken up again.
OnlyForward ==
    /\ acked' = acked
    /\ Stored \subseteq Stored'
    /\ Stored' \subseteq Stored \cup Pending
    /\ Pending' \subseteq Pending
    /\ UNION failed' \subseteq (UNION failed) \cup Pending
    /\ faults \subseteq faults'

LEMMA ForwardMoves ==
    ASSUME TypeOK, NoLossWithoutFault', OnlyForward
    PROVE  Ledger!Progress
  <1> USE DEF OnlyForward, LedgerStatus
  <1>1. ASSUME NEW e \in Events
        PROVE  Ledger!Moves(e)
    <2>1. CASE e \notin acked
      BY <2>1 DEF Ledger!Moves
    <2>2. CASE e \in acked /\ e \in Stored
      BY <2>2 DEF Ledger!Moves
    <2>3. CASE e \in acked /\ e \in Pending \ Stored
      <3>1. LedgerStatus[e] = "pending"
        BY <2>3
      <3>2. LedgerStatus'[e] \in {"pending", "stored", "buried", "lost"}
        BY <2>3
      <3>3. LedgerStatus'[e] = "lost" => faults' # {} \/ e \in Invalid
        BY <2>3 DEF NoLossWithoutFault
      <3> QED
        BY <3>1, <3>2, <3>3 DEF Ledger!Moves, Ledger!MayLose
    <2>4. CASE e \in acked /\ e \in (UNION failed) \ (Pending \cup Stored)
      <3>1. LedgerStatus[e] = "buried"
        BY <2>4
      <3>2. LedgerStatus'[e] \in {"buried", "lost"}
        BY <2>4
      <3>3. LedgerStatus'[e] = "lost" => faults' # {} \/ e \in Invalid
        BY <2>4 DEF NoLossWithoutFault
      <3> QED
        BY <3>1, <3>2, <3>3 DEF Ledger!Moves, Ledger!MayLose
    <2>5. CASE e \in acked /\ e \notin (UNION failed) \cup Pending \cup Stored
      BY <2>5 DEF Ledger!Moves
    <2> QED
      BY <2>1, <2>2, <2>3, <2>4, <2>5
  <1>2. LedgerStatus' \in [Events -> Ledger!Status]
    BY DEF Ledger!Status
  <1>3. (faults # {})' \in BOOLEAN /\ (faults # {} => (faults # {})')
    OBVIOUS
  <1> QED
    BY <1>1, <1>2, <1>3 DEF Ledger!Progress

\* An arrival moves its event from unsent to pending and no other.
LEMMA AcceptIsAccept ==
    ASSUME PipelineInv, NEW e \in Events, AcceptEvent(e)
    PROVE  Ledger!Accept(e)
  <1> USE DEF LedgerStatus, Pending, Stored, redis, finished, counts, worker
  <1>1. /\ e \notin acked /\ acked' = acked \cup {e}
        /\ Pending' = Pending \cup {e}
        /\ UNCHANGED <<failed, copies, faults>>
    BY DEF AcceptEvent, Full, FlushBatch
  <1>2. e \notin Stored
    BY <1>1 DEF PipelineInv, TypeOK, FreshUntouched
  <1>3. LedgerStatus[e] = "unsent"
    BY <1>1
  <1>4. LedgerStatus'[e] = "pending"
    BY <1>1, <1>2
  <1>5. \A f \in Events \ {e} : LedgerStatus'[f] = LedgerStatus[f]
    BY <1>1
  <1>6. LedgerStatus' = [LedgerStatus EXCEPT ![e] = "pending"]
    BY <1>4, <1>5
  <1> QED
    BY <1>1, <1>3, <1>6 DEF Ledger!Accept

\* Every other step only moves events forward.
LEMMA OtherStepsForward ==
    ASSUME PipelineInv, [Next]_vars, \A e \in Events : ~ AcceptEvent(e)
    PROVE  OnlyForward
  <1> USE DEF OnlyForward, Pending, Stored, redis, finished, counts, worker,
     memory
  <1>1. CASE FlushInterval
    BY <1>1 DEF FlushInterval, FlushDue, FlushBatch
  <1>2. ASSUME NEW b \in adding, AddJob(b)
        PROVE  OnlyForward
    BY <1>2 DEF AddJob
  <1>3. ASSUME NEW b \in adding, AddJobRejected(b)
        PROVE  OnlyForward
    <2>1. /\ buffer' \subseteq buffer /\ adding' \subseteq adding
          /\ fetched' \subseteq fetched /\ inserting' \subseteq inserting
          /\ UNCHANGED <<acked, redis, copies>> /\ faults \subseteq faults'
      BY <1>3 DEF AddJobRejected, GracefulShutdown
    <2> QED
      BY <2>1
  <1>4. ASSUME NEW b \in wait, TakeJob(b)
        PROVE  OnlyForward
    BY <1>4 DEF TakeJob
  <1>5. ASSUME NEW b \in fetched, ProcessJob(b)
        PROVE  OnlyForward
    BY <1>5 DEF ProcessJob, Parses
  <1>6. ASSUME NEW b \in returned \cup threw, FinishJob(b)
        PROVE  OnlyForward
    BY <1>6 DEF FinishJob
  <1>7. ASSUME NEW b \in active, StalledJob(b)
        PROVE  OnlyForward
    BY <1>7 DEF StalledJob, Unattended, StalledOut
  <1>8. ASSUME NEW b \in inserting, NEW written \in SUBSET b, Write(b, written),
               faults \subseteq faults'
        PROVE  OnlyForward
    <2>1. Stored \subseteq Stored' /\ Stored' \subseteq Stored \cup written
      BY <1>8 DEF Write, PipelineInv, TypeOK
    <2> QED
      BY <1>8, <2>1 DEF Write
  <1>9. ASSUME NEW b \in inserting, InsertLands(b)
        PROVE  OnlyForward
    BY <1>8, <1>9 DEF InsertLands
  <1>10. ASSUME NEW b \in inserting, InsertRejected(b)
         PROVE  OnlyForward
    <2>1. /\ buffer' \subseteq buffer /\ adding' \subseteq adding
          /\ fetched' \subseteq fetched /\ inserting' \subseteq inserting
          /\ UNCHANGED <<acked, redis, copies>> /\ faults \subseteq faults'
      BY <1>10 DEF InsertRejected, GracefulShutdown
    <2> QED
      BY <2>1
  <1>11. ASSUME NEW b \in inserting, NEW written \in SUBSET b,
                InsertUnacknowledged(b, written)
         PROVE  OnlyForward
    BY <1>8, <1>11 DEF InsertUnacknowledged
  <1>12. CASE Exit
    BY <1>12 DEF Exit, GracefulShutdown
  <1>13. CASE Restart
    BY <1>13 DEF Restart
  <1>14. CASE RedisRestart
    BY <1>14 DEF RedisRestart
  <1>15. CASE UNCHANGED vars
    BY <1>15 DEF vars
  <1>16. CASE MemoryChanges
    BY <1>16 DEF MemoryChanges, memory, worker, counts
  <1> QED
    BY <1>1, <1>2, <1>3, <1>4, <1>5, <1>6, <1>7, <1>9, <1>10, <1>11,
       <1>12, <1>13, <1>14, <1>15, <1>16 DEF Next

\* The pipeline implements the ledger: an acknowledged event is pending until
\* it is stored, buried in a failed job or, after a fault or for its payload,
\* lost; nothing comes back from the last three.
THEOREM PipelineImplementsLedger == Spec => ImplementsLedger
  <1>1. Init => Ledger!LedgerInit
    BY DEF Init, Ledger!LedgerInit, LedgerStatus
  <1>2. PipelineInv /\ NoLossWithoutFault' /\ [Next]_vars
          => [Ledger!LedgerNext]_(Ledger!lvars)
    <2> SUFFICES ASSUME PipelineInv, NoLossWithoutFault', [Next]_vars
                 PROVE  Ledger!LedgerNext
      OBVIOUS
    <2>1. CASE \E e \in Events : AcceptEvent(e)
      BY <2>1, AcceptIsAccept DEF Ledger!LedgerNext
    <2>2. CASE \A e \in Events : ~ AcceptEvent(e)
      BY <2>2, OtherStepsForward, ForwardMoves DEF Ledger!LedgerNext,
         PipelineInv
    <2> QED
      BY <2>1, <2>2
  <1> QED
    BY <1>1, <1>2, PipelineInvariant, LedgerBalances, PTL
       DEF Spec, ImplementsLedger, Ledger!LedgerSpec

=============================================================================
