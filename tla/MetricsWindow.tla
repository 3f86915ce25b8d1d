---------------------------- MODULE MetricsWindow ----------------------------
(***************************************************************************)
(* The dashboard metrics: the queue of events to aggregate, the one job of *)
(* MetricsAggregationProcessor at a time, the buckets per minute and per   *)
(* hour that processEvent keeps in Redis under a time to live, and the     *)
(* readers that add them up (the job itself and the 10 s interval, whose   *)
(* runs may overlap).                                                      *)
(*                                                                         *)
(* A bucket is the set of the runs it has counted, a run being an event    *)
(* with the number of the attempt; the code keeps only their number, so    *)
(* that an increment which ioredis sends twice without a loss of data does *)
(* not show here.  "types" is event_types, whose EXPIRE waits for the      *)
(* reply of its HINCRBY; countries, devices and referrers are written the  *)
(* same way.  The clock ticks in minutes; writes and reads that were       *)
(* started finish within MaxLag ticks.                                     *)
(***************************************************************************)
EXTENDS Naturals, Sequences, FiniteSets

CONSTANTS
    Events,         \* the events whose aggregation is queued
    Undated,        \* those whose timestamp is no date
    Null,           \* those whose payload is the JSON text null
    Intervals,      \* overlapping runs of the 10 s interval
    Job,            \* the reader inside the job
    Window,         \* ACTIVE_WINDOW_MINUTES (5)
    Extra,          \* minutes a bucket outlives the window (2)
    ActiveFor,      \* INACTIVE_THRESHOLD_MINUTES (2)
    HourLength,     \* minutes of an hour bucket, and its time to live (60)
    HoursShown,     \* hours of the volume chart (24)
    LiveCap,        \* length of the live feed (50)
    MaxStalled,     \* BullMQ maxStalledCount (1)
    MaxLag,         \* ticks a started write or read may take: no more than
                    \* the minutes a bucket outlives the window
    MaxMinute,      \* bound of the model: the last minute
    MaxFaults       \* bound of the model: exits of the process, losses of
                    \* Redis, and runs of which it refuses a write

ASSUME MetricsAssumption ==
    /\ Events # {} /\ Undated \subseteq Events /\ Null \subseteq Events
    /\ Job \notin Intervals
    /\ {Window, HourLength, LiveCap, MaxMinute} \subseteq Nat \ {0}
    /\ HoursShown \in Nat \ {0, 1}
    /\ {Extra, ActiveFor, MaxStalled, MaxLag, MaxFaults} \subseteq Nat
    /\ MaxLag <= Extra

VARIABLES
    up,         \* the Node process is running
    now,        \* the minute on the clock
    received,   \* events handed to the queue
    queued,     \* jobs waiting in the metrics queue
    attempts,   \* attempts[e]: how often the job of e was started
    held,       \* Redis knows the job in progress
    job,        \* the job being processed
    activity,   \* metrics:last_activity, 0 when it is not set
    volume,     \* metrics:volume:<minute>
    types,      \* metrics:event_types:<minute> and its likes
    hours,      \* metrics:volume:hour:<hour>
    expiring,   \* expiring[m]: runs whose HINCRBY of types[m] is not answered
    reader,     \* reader[r]: what r has read so far
    live,       \* liveEventsBuffer, newest first
    counted,    \* history: the runs counted under each minute
    refused,    \* history: runs of which a full Redis refused a write
    erased,     \* history: runs whose counters Redis has lost
    losses,     \* losses of Redis so far
    exits       \* exits so far

vars  == <<up, now, received, queued, attempts, held, job, activity, volume,
           types, hours, expiring, reader, live, counted, refused, erased,
           losses, exits>>
clock == <<up, now, exits>>
queue == <<received, queued, attempts, held>>
redis == <<activity, volume, types, hours>>
history == <<counted, refused, erased, losses>>

Readers == Intervals \cup {Job}
Minutes == 1..MaxMinute
HourOf(m) == m \div HourLength
Hours == 0..HourOf(MaxMinute)

Run == Events \X Nat

-----------------------------------------------------------------------------
(* Keys with a time to live                                                *)

\* dies = 0: the key has no time to live.
Empty == [runs |-> {}, dies |-> 0]

\* HINCRBY creates the key without a time to live and keeps the one it has.
Hit(b, run) == [b EXCEPT !.runs = @ \cup {run}]

\* EXPIRE does nothing when the key is not there.
ExpireIn(b, ttl) ==
    IF b.runs = {} THEN b ELSE [b EXCEPT !.dies = now + ttl]

Aged(b, minute) == IF b.dies \in 1..minute THEN Empty ELSE b

At(buckets, period) ==
    IF period \in DOMAIN buckets THEN buckets[period].runs ELSE {}

\* Mutant of BucketTTL: ARCHITECTURE.md's expire(..., 300).
BucketTTLPlain == Window

BucketTTL == Window + Extra

-----------------------------------------------------------------------------
Idle == [pc |-> "idle", event |-> CHOOSE e \in Events : TRUE, minute |-> 0]

\* What a report has read, and (history) what had been counted before it.
Unread == [pc |-> "idle", start |-> 0, chart |-> 0, next |-> 0,
           active |-> {}, typed |-> {}, previous |-> {}, hourly |-> {},
           due |-> {}, duePrevious |-> {}, dueHourly |-> {}]

Init ==
    /\ up = TRUE
    /\ now = 1
    /\ received = {} /\ queued = {}
    /\ attempts = [e \in Events |-> 0]
    /\ job = Idle /\ held = FALSE
    /\ activity = 0
    /\ volume = [m \in Minutes |-> Empty]
    /\ types = [m \in Minutes |-> Empty]
    /\ hours = [h \in Hours |-> Empty]
    /\ reader = [r \in Readers |-> Unread]
    /\ live = <<>>
    /\ expiring = [m \in Minutes |-> {}]
    /\ counted = [m \in Minutes |-> {}] /\ refused = {} /\ erased = {}
    /\ exits = 0 /\ losses = 0

\* EventsService adds a job for every event it receives.  It does not wait: a
\* job that is refused or lost is as if its event had not come.
QueueEvent(e) ==
    /\ up /\ e \notin received
    /\ received' = received \cup {e}
    /\ queued' = queued \cup {e}
    /\ UNCHANGED <<clock, attempts, held, job, redis, expiring, reader, live,
                   history>>

-----------------------------------------------------------------------------
(* processEvent                                                            *)

ThisRun == <<job.event, attempts[job.event]>>

Goes(pc) == job' = [job EXCEPT !.pc = pc]

\* Mutant of Dequeue: the job stays in the queue.
DequeueNothing(e) == UNCHANGED queued

Dequeue(e) == queued' = queued \ {e}

\* The minute is taken when the job starts; without a date it returns.
StartJob(e) ==
    /\ up /\ job.pc = "idle"
    /\ e \in queued
    /\ Dequeue(e) /\ held' = TRUE
    /\ attempts' = [attempts EXCEPT ![e] = @ + 1]
    /\ job' = IF e \in Undated THEN job
              ELSE [pc |-> "stamp", event |-> e, minute |-> now]
    /\ UNCHANGED <<clock, received, redis, expiring, reader, live, history>>

\* Mutant of SetActivity: SETEX is forgotten.
SetActivityNever == UNCHANGED activity

SetActivity == activity' = job.minute

UpdateLastActivityTime ==
    /\ job.pc = "stamp"
    /\ SetActivity
    /\ Goes("count")
    /\ UNCHANGED <<clock, queue, volume, types, hours, expiring, reader, live,
                   history>>

Faults == exits + losses + Cardinality(refused)

\* Redis refuses a write (it is full): the job fails.
StampRefused ==
    /\ job.pc = "stamp"
    /\ Faults < MaxFaults
    /\ refused' = refused \cup {ThisRun}
    /\ Goes("over")
    /\ UNCHANGED <<clock, queue, redis, expiring, reader, live, counted, erased,
                   losses>>

\* BullMQ learns that the job is over, done or failed; it is not retried.
JobOver ==
    /\ job.pc = "over"
    /\ job' = Idle
    /\ UNCHANGED <<clock, queue, redis, expiring, reader, live, history>>

Counters == {"volume", "hours", "types"}

\* Mutant of Hits: the event types are left out.
HitsVolumeOnly(b, c, taken) ==
    IF c \in taken \ {"types"} THEN Hit(b, ThisRun) ELSE b

Hits(b, c, taken) == IF c \in taken THEN Hit(b, ThisRun) ELSE b

\* Mutant of HourTTL: as long as the minutes.
HourTTLShort == BucketTTL

HourTTL == HourLength

\* The commands Promise.all sends at once: the volume pipeline with its
\* EXPIREs, and the first command of every other kind.  Redis takes some of
\* them, memory being freed and filled between; a refusal is swallowed.
\* updateUserMetrics and its likes throw on a null payload, and so does
\* addToLiveEvents before any reply, which fails the job.
Count(taken) ==
    /\ job.pc = "count"
    /\ taken = Counters \/ Faults < MaxFaults
    /\ volume' = [volume EXCEPT
          ![job.minute] = ExpireIn(Hits(@, "volume", taken), BucketTTL)]
    /\ hours' = [hours EXCEPT
          ![HourOf(job.minute)] = ExpireIn(Hits(@, "hours", taken), HourTTL)]
    /\ types' = [types EXCEPT ![job.minute] = Hits(@, "types", taken)]
    /\ expiring' = IF "types" \in taken
                   THEN [expiring EXCEPT ![job.minute] = @ \cup {ThisRun}] ELSE expiring
    /\ counted' = IF "volume" \in taken
                  THEN [counted EXCEPT ![job.minute] = @ \cup {ThisRun}] ELSE counted
    /\ refused' = IF taken = Counters THEN refused ELSE refused \cup {ThisRun}
    /\ IF job.event \in Null THEN Goes("over") ELSE Goes("wait")
    /\ UNCHANGED <<clock, queue, activity, reader, live, erased, losses>>

\* Mutant of ExpireType: no EXPIRE.
ExpireTypeNever(m) == UNCHANGED types

ExpireType(m) == types' = [types EXCEPT ![m] = ExpireIn(@, BucketTTL)]

\* HINCRBY is answered, whatever became of its job.
HincrbyReply(m, run) ==
    /\ run \in expiring[m]
    /\ expiring' = [expiring EXCEPT ![m] = @ \ {run}]
    /\ ExpireType(m)
    /\ UNCHANGED <<clock, queue, job, activity, volume, hours, reader, live, history>>

\* unshift, then pop when there are more than LiveCap.
AddToLiveEvents ==
    live' = IF Len(live) + 1 > LiveCap
            THEN <<ThisRun>> \o SubSeq(live, 1, Len(live) - 1)
            ELSE <<ThisRun>> \o live

\* Promise.all has its replies, those of EXPIRE included.
Counted ==
    /\ job.pc = "wait"
    /\ ThisRun \notin expiring[job.minute]
    /\ AddToLiveEvents
    /\ Goes("report")
    /\ UNCHANGED <<clock, queue, redis, expiring, reader, history>>

-----------------------------------------------------------------------------
(* generateDashboardMetrics                                                *)

\* Windows of the clock at start: the active one, and the one before it.
ActiveWindow(start) == {m \in Minutes : m <= start /\ start < m + Window}
PreviousWindow(start) ==
    {m \in Minutes : m + Window <= start /\ start < m + 2 * Window}

\* Minutes whose hour bucket outlives any report that begins at start.
RecentHour(start) == {m \in Minutes : m <= start /\ start + MaxLag < m + HourLength}

HoursOfChart(chart) ==
    {m \in Minutes : HourOf(m) <= HourOf(chart) /\ HourOf(chart) < HourOf(m) + HoursShown}

CountedIn(minutes) == UNION {counted[m] : m \in minutes}

SystemActive == activity # 0 /\ now <= activity + ActiveFor

\* The job reports once it has counted; the interval whenever it fires.  An
\* inactive system reports zeros (generateInactiveMetrics).
BeginReport(r) ==
    /\ up /\ reader[r].pc = "idle"
    /\ r = Job => job.pc = "report"
    /\ reader' = [reader EXCEPT ![r] =
            IF SystemActive
            THEN [pc |-> "reading", start |-> now, chart |-> 0, next |-> 0,
                  active |-> {}, typed |-> {}, previous |-> {}, hourly |-> {},
                  due |-> CountedIn(ActiveWindow(now)),
                  duePrevious |-> CountedIn(PreviousWindow(now)),
                  dueHourly |-> CountedIn(RecentHour(now))]
            ELSE Unread]
    /\ job' = IF r # Job THEN job
              ELSE [job EXCEPT !.pc = IF SystemActive THEN "read" ELSE "over"]
    /\ UNCHANGED <<clock, queue, redis, expiring, live, history>>

\* The reads of one report, in order: the minutes of the active window, those
\* of the previous one, the hours of the chart.
Reads == 2 * Window + HoursShown

\* generate24HourData takes the time again when it starts.
ChartTime(q) == IF q.next = 2 * Window THEN now ELSE q.chart

\* Mutant of HourRead: the hours are counted from one, so the present one is
\* never read.
HourReadFromOne(q) == HourOf(ChartTime(q)) - (Reads - q.next)

HourRead(q) == HourOf(ChartTime(q)) - (Reads - 1 - q.next)

ReadNext(r) ==
    /\ reader[r].pc = "reading" /\ reader[r].next < Reads
    /\ LET q == reader[r]
           minute == q.start - q.next
           Adds(phase, runs) == IF phase THEN runs ELSE {}
           first == q.next < Window
           second == q.next \in Window..(2 * Window - 1)
           third == q.next >= 2 * Window
       IN  reader' = [reader EXCEPT ![r] =
              [pc |-> "reading", start |-> q.start, chart |-> ChartTime(q),
               next |-> q.next + 1,
               active |-> q.active \cup Adds(first, At(volume, minute)),
               typed |-> q.typed \cup Adds(first, At(types, minute)),
               previous |-> q.previous \cup Adds(second, At(volume, minute)),
               hourly |-> q.hourly \cup Adds(third, At(hours, HourRead(q))),
               due |-> q.due, duePrevious |-> q.duePrevious,
               dueHourly |-> q.dueHourly]]
    /\ UNCHANGED <<clock, queue, job, redis, expiring, live, history>>

Finished(r) == reader[r].pc = "reading" /\ reader[r].next = Reads

\* The report is sent, with which the job ends.
BroadcastReport(r) ==
    /\ Finished(r)
    /\ r = Job => job.pc = "read"
    /\ reader' = [reader EXCEPT ![r] = Unread]
    /\ IF r = Job THEN Goes("over") ELSE UNCHANGED job
    /\ UNCHANGED <<clock, queue, redis, expiring, live, history>>

-----------------------------------------------------------------------------
(* Time, exits, losses                                                     *)

InTime ==
    /\ job.pc # "idle" => now < job.minute + MaxLag
    /\ \A r \in Readers :
          reader[r].pc = "reading" => now < reader[r].start + MaxLag
    /\ \A m \in Minutes : expiring[m] # {} => now < m + MaxLag

Tick ==
    /\ now < MaxMinute
    /\ InTime
    /\ now' = now + 1
    /\ volume' = [m \in Minutes |-> Aged(volume[m], now')]
    /\ types' = [m \in Minutes |-> Aged(types[m], now')]
    /\ hours' = [h \in Hours |-> Aged(hours[h], now')]
    /\ UNCHANGED <<up, queue, job, activity, expiring, reader, live, history, exits>>

\* The stalled job goes back to the queue, or fails when it stalled too often;
\* Redis must not have lost it.
Exit ==
    /\ up /\ Faults < MaxFaults
    /\ up' = FALSE
    /\ exits' = exits + 1
    /\ queued' = IF job.pc # "idle" /\ held /\ attempts[job.event] <= MaxStalled
                 THEN queued \cup {job.event} ELSE queued
    /\ job' = Idle /\ held' = FALSE
    /\ reader' = [r \in Readers |-> Unread]
    /\ live' = <<>>
    /\ expiring' = [m \in Minutes |-> {}]
    /\ UNCHANGED <<now, received, attempts, redis, history>>

Restart ==
    /\ ~up
    /\ up' = TRUE
    /\ UNCHANGED <<now, queue, job, redis, expiring, reader, live, history, exits>>

Unanswered == UNION {expiring[m] : m \in Minutes}

\* Redis runs with save "" and appendonly no: a restart comes back empty.
\* The process goes on with its job.  Of the HINCRBYs in flight ioredis sends
\* those again whose reply did not come through, and they make a new key.
RedisRestart(again) ==
    /\ Faults < MaxFaults
    /\ queued' = {} /\ held' = FALSE
    /\ activity' = 0
    /\ volume' = [m \in Minutes |-> Empty]
    /\ types' = [m \in Minutes |-> [Empty EXCEPT !.runs = expiring[m] \cap again]]
    /\ hours' = [h \in Hours |-> Empty]
    /\ erased' = erased \cup refused \cup UNION {counted[m] : m \in Minutes}
    /\ losses' = losses + 1
    /\ UNCHANGED <<clock, received, attempts, job, expiring, reader, live,
                   counted, refused>>

Next ==
    \/ \E e \in Events : QueueEvent(e) \/ StartJob(e)
    \/ UpdateLastActivityTime \/ StampRefused
    \/ \E taken \in SUBSET Counters : Count(taken)
    \/ \E m \in Minutes : \E run \in expiring[m] : HincrbyReply(m, run)
    \/ Counted \/ JobOver
    \/ \E r \in Readers : BeginReport(r) \/ ReadNext(r) \/ BroadcastReport(r)
    \/ Tick \/ Exit \/ Restart
    \/ \E again \in SUBSET Unanswered : RedisRestart(again)

Spec == Init /\ [][Next]_vars

-----------------------------------------------------------------------------
(* Properties                                                              *)

Bucket == [runs : SUBSET Run, dies : Nat]

JobStates ==
    [pc : {"idle", "stamp", "count", "wait", "report", "read", "over"},
     event : Events, minute : 0..MaxMinute]

ReaderStates ==
    [pc : {"idle", "reading"}, start : 0..MaxMinute, chart : 0..MaxMinute,
     next : 0..Reads,
     active : SUBSET Run, typed : SUBSET Run, previous : SUBSET Run,
     hourly : SUBSET Run, due : SUBSET Run, duePrevious : SUBSET Run,
     dueHourly : SUBSET Run]

\* What every variable may hold.
TypeOK ==
    /\ up \in BOOLEAN
    /\ now \in Minutes
    /\ received \subseteq Events /\ queued \subseteq received
    /\ attempts \in [Events -> Nat] /\ held \in BOOLEAN
    /\ job \in JobStates
    /\ job.pc # "idle" => job.minute \in 1..now
    /\ activity \in 0..now
    /\ volume \in [Minutes -> Bucket] /\ types \in [Minutes -> Bucket]
    /\ hours \in [Hours -> Bucket]
    /\ counted \in [Minutes -> SUBSET Run] /\ refused \subseteq Run
    /\ erased \subseteq Run
    /\ live \in Seq(Run)
    /\ expiring \in [Minutes -> SUBSET Run]
    /\ reader \in [Readers -> ReaderStates]
    /\ exits \in Nat /\ losses \in Nat

\* A report shows the active window as it was at some moment while it was
\* being read: every run counted in the window before it began, but for those
\* Redis lost, and no run that was not counted under one of the window's
\* minutes, although buckets are read one by one, expire meanwhile, and other
\* events are counted.
ReportBracketed ==
    \A r \in Readers :
        Finished(r) =>
            /\ reader[r].due \ erased \subseteq reader[r].active
            /\ reader[r].active
                  \subseteq CountedIn(ActiveWindow(reader[r].start))

\* Runs that some of the counters may hold and others not.
Uneven == refused \cup erased

\* The distribution of a report adds up to its total, so that the percentages
\* of processEventDistribution make 100, but for the runs of which a full
\* Redis refused some counters or which it lost: volume and types agree on
\* every minute whenever they are read, also while the EXPIRE of one of them
\* is missing.
DistributionAddsUp ==
    \A r \in Readers :
        Finished(r) => reader[r].typed \ Uneven = reader[r].active \ Uneven

Perishable(b) == b.runs # {} => b.dies # 0

\* Every key of the metrics has a time to live, or its EXPIRE is on the way,
\* unless a process ended before it had sent it: failed jobs, null payloads,
\* refused commands and those sent again to an emptied Redis leave no key
\* behind.  An EXPIRE on the way finds the key it was sent for.
KeysExpireUnlessExit ==
    /\ \A m \in Minutes : Perishable(volume[m])
    /\ \A h \in Hours : Perishable(hours[h])
    /\ \A m \in Minutes :
          /\ exits = 0 => Perishable(types[m]) \/ expiring[m] # {}
          /\ expiring[m] \ erased \subseteq types[m].runs

\* An event is counted more than once only because its job stalled: as often
\* as it was started, at most 1 + MaxStalled times, each time under one minute.
CountsBounded ==
    /\ \A e \in Events :
          attempts[e] <= 1 + exits /\ attempts[e] <= 1 + MaxStalled
    /\ \A m, n \in Minutes : m # n => counted[m] \cap counted[n] = {}

\* The report that an event sets off shows this event, unless Redis refused
\* one of its writes or lost its data: the stamp that keeps the system from
\* being taken for inactive, the counters and the reads come in this order,
\* whatever minutes pass between them.  It needs MaxLag below both Window and
\* ActiveFor + 1.
ReportShowsItsEvent ==
    [][(job.pc \in {"report", "read"} /\ job'.pc = "over"
          /\ losses = 0 /\ ThisRun \notin refused)
        => ThisRun \in reader[Job].active]_vars

\* The live feed starts with the event that was just processed, holds none
\* twice and stays within its cap.
LiveFeedFresh ==
    /\ job.pc = "report" => live # <<>> /\ Head(live) = ThisRun
    /\ Len(live) <= LiveCap
    /\ \A i, j \in DOMAIN live : i # j => live[i] # live[j]

\* The volume chart is right about the last hour: every run counted within the
\* life of an hour bucket is in it, also those of the hour before this one,
\* unless Redis lost or refused it, and no run that is older than the hours it
\* shows.
HourlyChartRecent ==
    \A r \in Readers :
        Finished(r) =>
            /\ reader[r].dueHourly \ Uneven \subseteq reader[r].hourly
            /\ reader[r].hourly \ refused
                  \subseteq CountedIn(HoursOfChart(reader[r].chart))

\* metrics-aggregation.service.ts: "Get metrics from previous 5-minute window".
\* A report would hold every run counted in the window before the active one.
PreviousWindowComplete ==
    \A r \in Readers :
        Finished(r) => reader[r].duePrevious \subseteq reader[r].previous

\* README.md: "24-hour event volume with hourly granularity".  The bucket of
\* every hour shown would still hold the runs counted in it.
HourlyVolumeKept ==
    \A m \in 1..now :
        HourOf(now) < HourOf(m) + HoursShown =>
            counted[m] \subseteq hours[HourOf(m)].runs

\* ARCHITECTURE.md: "Redis TTL for automatic cleanup".  While no job is in
\* progress, every key of the metrics would have a time to live.
EveryKeyExpires ==
    job.pc = "idle" =>
        /\ \A m \in Minutes : Perishable(volume[m]) /\ Perishable(types[m])
        /\ \A h \in Hours : Perishable(hours[h])

=============================================================================
