------------------------- MODULE MetricsWindowProofs -------------------------
(* Theorems about MetricsWindow, for every set of events, every window and  *)
(* every length of the hours and of the feed.                               *)
EXTENDS MetricsWindow, SequenceTheorems, TLAPS

-----------------------------------------------------------------------------
(* Buckets                                                                  *)

LEMMA EmptyTyped == Empty \in Bucket /\ Empty.runs = {} /\ Empty.dies = 0
  BY DEF Empty, Bucket

LEMMA HitTyped ==
    ASSUME NEW b \in Bucket, NEW run \in Run
    PROVE  /\ Hit(b, run) \in Bucket
           /\ Hit(b, run).runs = b.runs \cup {run} /\ Hit(b, run).dies = b.dies
  BY DEF Hit, Bucket

LEMMA ExpireTyped ==
    ASSUME now \in Nat \ {0}, NEW b \in Bucket, NEW ttl \in Nat
    PROVE  /\ ExpireIn(b, ttl) \in Bucket
           /\ ExpireIn(b, ttl).runs = b.runs
           /\ b.runs # {} => ExpireIn(b, ttl).dies = now + ttl
           /\ b.runs = {} => ExpireIn(b, ttl) = b
  BY DEF ExpireIn, Bucket

LEMMA AgedTyped ==
    ASSUME NEW b \in Bucket, NEW minute \in Nat
    PROVE  /\ Aged(b, minute) \in Bucket
           /\ Aged(b, minute) = Empty \/ Aged(b, minute) = b
           /\ b.dies = 0 \/ b.dies > minute => Aged(b, minute) = b
           /\ Aged(b, minute).runs \subseteq b.runs
           /\ Aged(b, minute).dies = 0 \/ Aged(b, minute).dies = b.dies
  BY EmptyTyped DEF Aged, Bucket

LEMMA Numbers ==
    /\ Window \in Nat \ {0} /\ Extra \in Nat /\ MaxLag \in Nat /\ MaxLag <= Extra
    /\ HourLength \in Nat \ {0} /\ HoursShown \in Nat \ {0, 1}
    /\ LiveCap \in Nat \ {0} /\ MaxMinute \in Nat \ {0} /\ MaxStalled \in Nat
    /\ BucketTTL \in Nat /\ BucketTTL = Window + Extra /\ BucketTTL > MaxLag
    /\ HourTTL = HourLength
    /\ Reads \in Nat /\ Reads = 2 * Window + HoursShown
  BY MetricsAssumption DEF BucketTTL, HourTTL, Reads

LEMMA MinutesNat ==
    ASSUME NEW m \in Minutes
    PROVE  m \in Nat \ {0} /\ m <= MaxMinute
  BY Numbers DEF Minutes

LEMMA FirstMinute == 1 \in Minutes
  BY Numbers DEF Minutes

-----------------------------------------------------------------------------
(* The states of the job and of the readers                                 *)

Pcs == {"idle", "stamp", "count", "wait", "report", "read", "over"}

LEMMA JobTyped ==
    ASSUME NEW pc \in Pcs, NEW e \in Events, NEW m \in 0..MaxMinute
    PROVE  [pc |-> pc, event |-> e, minute |-> m] \in JobStates
  BY DEF JobStates, Pcs

LEMMA IdleTyped == Idle \in JobStates /\ Idle.pc = "idle"
  BY MetricsAssumption, Numbers DEF Idle, JobStates

LEMMA GoesTyped ==
    ASSUME job \in JobStates, NEW pc \in Pcs, Goes(pc)
    PROVE  /\ job' \in JobStates /\ job'.pc = pc
           /\ job'.event = job.event /\ job'.minute = job.minute
  BY DEF Goes, JobStates, Pcs

LEMMA JobFields ==
    ASSUME job \in JobStates
    PROVE  job.pc \in Pcs /\ job.event \in Events /\ job.minute \in 0..MaxMinute
  BY DEF JobStates, Pcs

\* What a reader holds, apart from where it is.
LEMMA ReaderTyped ==
    ASSUME NEW pc \in {"idle", "reading"}, NEW start \in 0..MaxMinute,
           NEW chart \in 0..MaxMinute, NEW next \in 0..Reads,
           NEW active \in SUBSET Run, NEW typed \in SUBSET Run,
           NEW previous \in SUBSET Run, NEW hourly \in SUBSET Run,
           NEW due \in SUBSET Run, NEW duePrevious \in SUBSET Run,
           NEW dueHourly \in SUBSET Run
    PROVE  [pc |-> pc, start |-> start, chart |-> chart, next |-> next,
            active |-> active, typed |-> typed, previous |-> previous,
            hourly |-> hourly, due |-> due, duePrevious |-> duePrevious,
            dueHourly |-> dueHourly] \in ReaderStates
  BY DEF ReaderStates

LEMMA ReaderFields ==
    ASSUME NEW q \in ReaderStates
    PROVE  /\ q.pc \in {"idle", "reading"} /\ q.start \in 0..MaxMinute
           /\ q.chart \in 0..MaxMinute /\ q.next \in 0..Reads
           /\ q.active \in SUBSET Run /\ q.typed \in SUBSET Run
           /\ q.previous \in SUBSET Run /\ q.hourly \in SUBSET Run
           /\ q.due \in SUBSET Run /\ q.duePrevious \in SUBSET Run
           /\ q.dueHourly \in SUBSET Run
  BY DEF ReaderStates

LEMMA UnreadTyped == Unread \in ReaderStates /\ Unread.pc = "idle"
  BY Numbers DEF Unread, ReaderStates

LEMMA CountedInTyped ==
    ASSUME counted \in [Minutes -> SUBSET Run], NEW minutes \in SUBSET Minutes
    PROVE  CountedIn(minutes) \in SUBSET Run
  BY DEF CountedIn

LEMMA AtTyped ==
    ASSUME NEW P, NEW buckets \in [P -> Bucket], NEW p
    PROVE  /\ At(buckets, p) \in SUBSET Run
           /\ p \in P => At(buckets, p) = buckets[p].runs
           /\ p \notin P => At(buckets, p) = {}
  BY DEF At, Bucket

-----------------------------------------------------------------------------
(* What the steps do                                                        *)

LEMMA HitsTyped ==
    ASSUME NEW b \in Bucket, NEW c, NEW taken, ThisRun \in Run
    PROVE  /\ Hits(b, c, taken) \in Bucket
           /\ Hits(b, c, taken).runs = b.runs \cup (IF c \in taken THEN {ThisRun} ELSE {})
           /\ Hits(b, c, taken).dies = b.dies
  <1>1. CASE c \in taken
    <2>1. Hits(b, c, taken) = Hit(b, ThisRun)
      BY <1>1 DEF Hits
    <2>2. (IF c \in taken THEN {ThisRun} ELSE {}) = {ThisRun}
      BY <1>1
    <2> QED
      BY <2>1, <2>2, HitTyped
  <1>2. CASE c \notin taken
    <2>1. Hits(b, c, taken) = b
      BY <1>2 DEF Hits
    <2>2. (IF c \in taken THEN {ThisRun} ELSE {}) = {}
      BY <1>2
    <2> QED
      BY <2>1, <2>2
  <1> QED
    BY <1>1, <1>2

LEMMA ThisRunTyped ==
    ASSUME TypeOK
    PROVE  ThisRun \in Run /\ ThisRun[1] = job.event /\ ThisRun[2] = attempts[job.event]
  <1>1. job.event \in Events
    BY JobFields DEF TypeOK
  <1> QED
    BY <1>1 DEF ThisRun, Run, TypeOK

LEMMA NowTyped ==
    ASSUME TypeOK
    PROVE  now \in Nat \ {0} /\ now <= MaxMinute /\ now \in Minutes
  BY MinutesNat DEF TypeOK

LEMMA JobMinute ==
    ASSUME TypeOK, job.pc # "idle"
    PROVE  job.minute \in Minutes /\ job.minute <= now /\ job.minute \in Nat \ {0}
  BY NowTyped, Numbers DEF TypeOK, Minutes

\* A counter that was hit and given its time to live.
Struck(b, c, taken, ttl) == ExpireIn(Hits(b, c, taken), ttl)

LEMMA StruckTyped ==
    ASSUME now \in Nat \ {0}, ThisRun \in Run, NEW b \in Bucket, NEW c,
           NEW taken, NEW ttl \in Nat
    PROVE  /\ Struck(b, c, taken, ttl) \in Bucket
           /\ Struck(b, c, taken, ttl).runs
                 = b.runs \cup (IF c \in taken THEN {ThisRun} ELSE {})
           /\ Struck(b, c, taken, ttl).runs # {} =>
                 Struck(b, c, taken, ttl).dies = now + ttl
           /\ Struck(b, c, taken, ttl).runs = {} =>
                 Struck(b, c, taken, ttl).dies = b.dies
  <1> DEFINE hit == Hits(b, c, taken)
  <1>1. /\ hit \in Bucket /\ hit.dies = b.dies
        /\ hit.runs = b.runs \cup (IF c \in taken THEN {ThisRun} ELSE {})
    BY HitsTyped
  <1> HIDE DEF hit
  <1>2. /\ ExpireIn(hit, ttl) \in Bucket /\ ExpireIn(hit, ttl).runs = hit.runs
        /\ hit.runs # {} => ExpireIn(hit, ttl).dies = now + ttl
        /\ hit.runs = {} => ExpireIn(hit, ttl) = hit
    BY <1>1, ExpireTyped
  <1> QED
    BY <1>1, <1>2 DEF Struck, hit

\* What Count does to the volume of its minute and of its hour.
LEMMA VolumeStruck ==
    ASSUME TypeOK, NEW taken, Count(taken)
    PROVE  /\ volume' \in [Minutes -> Bucket] /\ hours' \in [Hours -> Bucket]
           /\ \A m \in Minutes : volume'[m] =
                 IF m = job.minute THEN Struck(volume[m], "volume", taken, BucketTTL)
                 ELSE volume[m]
           /\ \A h \in Hours : hours'[h] =
                 IF h = HourOf(job.minute) THEN Struck(hours[h], "hours", taken, HourTTL)
                 ELSE hours[h]
  <1> DEFINE k == job.minute
             hour == HourOf(job.minute)
             V(b) == Struck(b, "volume", taken, BucketTTL)
             H(b) == Struck(b, "hours", taken, HourTTL)
  <1>1. /\ volume \in [Minutes -> Bucket] /\ hours \in [Hours -> Bucket]
        /\ volume' = [volume EXCEPT ![k] = V(volume[k])]
        /\ hours' = [hours EXCEPT ![hour] = H(hours[hour])]
    BY DEF Count, TypeOK, Struck
  <1>2. ASSUME NEW b \in Bucket PROVE V(b) \in Bucket
    BY Numbers, NowTyped, ThisRunTyped, StruckTyped
  <1>3. ASSUME NEW b \in Bucket PROVE H(b) \in Bucket
    BY Numbers, NowTyped, ThisRunTyped, StruckTyped
  <1> HIDE DEF k, hour, V, H
  <1>4. volume' \in [Minutes -> Bucket]
    BY <1>1, <1>2
  <1>5. hours' \in [Hours -> Bucket]
    BY <1>1, <1>3
  <1>6. \A m \in Minutes : volume'[m] = IF m = k THEN V(volume[m]) ELSE volume[m]
    BY <1>1
  <1>7. \A h \in Hours : hours'[h] = IF h = hour THEN H(hours[h]) ELSE hours[h]
    BY <1>1
  <1> QED
    BY <1>4, <1>5, <1>6, <1>7 DEF k, hour, V, H

LEMMA CountEffect ==
    ASSUME TypeOK, NEW taken \in SUBSET Counters, Count(taken)
    PROVE  /\ job.minute \in Minutes /\ job.minute <= now /\ job.minute \in Nat \ {0}
           /\ volume' \in [Minutes -> Bucket] /\ types' \in [Minutes -> Bucket]
           /\ hours' \in [Hours -> Bucket]
           /\ \A m \in Minutes : m # job.minute =>
                 /\ volume'[m] = volume[m] /\ types'[m] = types[m]
                 /\ counted'[m] = counted[m] /\ expiring'[m] = expiring[m]
           /\ \A h \in Hours : h # HourOf(job.minute) => hours'[h] = hours[h]
           /\ counted' \in [Minutes -> SUBSET Run] /\ refused' \in SUBSET Run
           /\ expiring' \in [Minutes -> SUBSET Run]
           /\ refused \subseteq refused' /\ UNCHANGED <<erased, losses>>
           /\ job.pc = "count" /\ job'.pc \in {"wait", "over"} /\ job' \in JobStates
           /\ job'.event = job.event /\ job'.minute = job.minute
  <1> DEFINE k == job.minute
  <1>1. job.pc = "count" /\ job \in JobStates /\ k \in Minutes /\ k <= now /\ k \in Nat \ {0}
    BY JobMinute DEF Count, TypeOK
  <1>3. volume' \in [Minutes -> Bucket] /\ \A m \in Minutes : m # k => volume'[m] = volume[m]
    BY VolumeStruck
  <1>4. /\ hours' \in [Hours -> Bucket]
        /\ \A h \in Hours : h # HourOf(k) => hours'[h] = hours[h]
    BY VolumeStruck
  <1>5. types' \in [Minutes -> Bucket] /\ \A m \in Minutes : m # k => types'[m] = types[m]
    <2>1. /\ types' = [types EXCEPT ![k] = Hits(types[k], "types", taken)]
          /\ types \in [Minutes -> Bucket]
      BY DEF Count, TypeOK
    <2>2. Hits(types[k], "types", taken) \in Bucket
      BY <1>1, <2>1, HitsTyped, ThisRunTyped
    <2> QED
      BY <2>1, <2>2
  <1>6. /\ counted' \in [Minutes -> SUBSET Run] /\ refused' \in SUBSET Run
        /\ \A m \in Minutes : m # k => counted'[m] = counted[m]
        /\ refused \subseteq refused' /\ UNCHANGED <<erased, losses>>
    BY ThisRunTyped DEF Count, TypeOK
  <1>7. /\ expiring' \in [Minutes -> SUBSET Run]
        /\ \A m \in Minutes : m # k => expiring'[m] = expiring[m]
    BY ThisRunTyped DEF Count, TypeOK
  <1>8. /\ job'.pc \in {"wait", "over"} /\ job' \in JobStates
        /\ job'.event = job.event /\ job'.minute = k
    <2>1. Goes("over") \/ Goes("wait")
      BY DEF Count
    <2> QED
      BY <1>1, <2>1, GoesTyped DEF Pcs
  <1> QED
    BY <1>1, <1>3, <1>4, <1>5, <1>6, <1>7, <1>8

\* What is counted in the minute of the job.
LEMMA CountedHere ==
    ASSUME TypeOK, NEW taken \in SUBSET Counters, Count(taken)
    PROVE  LET k == job.minute
               Adds(c) == IF c \in taken THEN {ThisRun} ELSE {}
           IN  /\ counted'[k] = counted[k] \cup Adds("volume")
               /\ volume'[k].runs = volume[k].runs \cup Adds("volume")
               /\ types'[k].runs = types[k].runs \cup Adds("types")
               /\ types'[k].dies = types[k].dies
               /\ volume'[k].runs # {} => volume'[k].dies = now + BucketTTL
               /\ volume'[k].runs = {} => volume'[k].dies = volume[k].dies
               /\ expiring'[k] = expiring[k] \cup Adds("types")
               /\ \/ ThisRun \in refused'
                  \/ "volume" \in taken /\ "hours" \in taken /\ "types" \in taken
  <1> DEFINE k == job.minute
  <1>1. job.pc = "count" /\ k \in Minutes
    BY JobMinute DEF Count
  <1>2. /\ counted'[k] = counted[k] \cup (IF "volume" \in taken THEN {ThisRun} ELSE {})
        /\ expiring'[k] = expiring[k] \cup (IF "types" \in taken THEN {ThisRun} ELSE {})
    BY <1>1 DEF Count, TypeOK
  <1>3. /\ volume'[k].runs = volume[k].runs \cup (IF "volume" \in taken THEN {ThisRun} ELSE {})
        /\ volume'[k].runs # {} => volume'[k].dies = now + BucketTTL
        /\ volume'[k].runs = {} => volume'[k].dies = volume[k].dies
    <2>1. volume'[k] = Struck(volume[k], "volume", taken, BucketTTL)
      BY <1>1, VolumeStruck
    <2>2. volume[k] \in Bucket /\ BucketTTL \in Nat /\ now \in Nat \ {0} /\ ThisRun \in Run
      BY <1>1, Numbers, NowTyped, ThisRunTyped DEF TypeOK
    <2> HIDE DEF k
    <2> QED
      BY <2>1, <2>2, StruckTyped
  <1>4. /\ types'[k].runs = types[k].runs \cup (IF "types" \in taken THEN {ThisRun} ELSE {})
        /\ types'[k].dies = types[k].dies
    <2>1. /\ types' = [types EXCEPT ![k] = Hits(types[k], "types", taken)]
          /\ types \in [Minutes -> Bucket]
      BY DEF Count, TypeOK
    <2>2. types[k] \in Bucket /\ types'[k] = Hits(types[k], "types", taken) /\ ThisRun \in Run
      BY <1>1, <2>1, ThisRunTyped
    <2> DEFINE hit == Hits(types[k], "types", taken)
    <2>3. /\ hit.runs = types[k].runs \cup (IF "types" \in taken THEN {ThisRun} ELSE {})
          /\ hit.dies = types[k].dies
      BY <2>2, HitsTyped
    <2> HIDE DEF k, hit
    <2> QED
      BY <2>2, <2>3 DEF hit
  <1>5. \/ ThisRun \in refused'
        \/ "volume" \in taken /\ "hours" \in taken /\ "types" \in taken
    BY DEF Count, Counters
  <1> QED
    BY <1>1, <1>2, <1>3, <1>4, <1>5

LEMMA ReplyEffect ==
    ASSUME TypeOK, NEW m \in Minutes, NEW run \in expiring[m], HincrbyReply(m, run)
    PROVE  /\ expiring' \in [Minutes -> SUBSET Run] /\ expiring'[m] \subseteq expiring[m]
           /\ \A n \in Minutes : n # m => expiring'[n] = expiring[n]
           /\ types' \in [Minutes -> Bucket]
           /\ \A n \in Minutes : n # m => types'[n] = types[n]
           /\ types'[m].runs = types[m].runs
           /\ types[m].runs # {} => types'[m].dies = now + BucketTTL
           /\ types[m].runs = {} => types'[m] = types[m]
  <1>1. types \in [Minutes -> Bucket] /\ types[m] \in Bucket
    BY DEF TypeOK
  <1>2. types' = [types EXCEPT ![m] = ExpireIn(types[m], BucketTTL)]
    BY <1>1 DEF HincrbyReply, ExpireType
  <1>3. /\ ExpireIn(types[m], BucketTTL) \in Bucket
        /\ ExpireIn(types[m], BucketTTL).runs = types[m].runs
        /\ types[m].runs # {} => ExpireIn(types[m], BucketTTL).dies = now + BucketTTL
        /\ types[m].runs = {} => ExpireIn(types[m], BucketTTL) = types[m]
    BY <1>1, NowTyped, Numbers, ExpireTyped
  <1>4. /\ expiring' \in [Minutes -> SUBSET Run] /\ expiring'[m] \subseteq expiring[m]
        /\ \A n \in Minutes : n # m => expiring'[n] = expiring[n]
    BY DEF HincrbyReply, TypeOK
  <1> QED
    BY <1>1, <1>2, <1>3, <1>4

\* What a loss of Redis leaves: nothing but the increments it is sent again.
LEMMA LossEffect ==
    ASSUME TypeOK, NEW again, RedisRestart(again)
    PROVE  /\ volume' \in [Minutes -> Bucket] /\ types' \in [Minutes -> Bucket]
           /\ hours' \in [Hours -> Bucket]
           /\ \A m \in Minutes :
                 /\ volume'[m].runs = {}
                 /\ types'[m].runs \subseteq expiring[m] /\ types'[m].dies = 0
           /\ \A h \in Hours : hours'[h].runs = {}
           /\ queued' = {} /\ held' = FALSE /\ activity' = 0
           /\ erased' \in SUBSET Run /\ erased \subseteq erased' /\ refused \subseteq erased'
           /\ \A m \in Minutes : counted[m] \subseteq erased'
           /\ losses' \in Nat
           /\ UNCHANGED <<up, now, exits, received, attempts, job, expiring, reader, live,
                          counted, refused>>
  <1>1. /\ volume' = [m \in Minutes |-> Empty] /\ hours' = [h \in Hours |-> Empty]
        /\ types' = [m \in Minutes |-> [Empty EXCEPT !.runs = expiring[m] \cap again]]
    BY DEF RedisRestart
  <1>2. ASSUME NEW m \in Minutes
        PROVE  /\ [Empty EXCEPT !.runs = expiring[m] \cap again] \in Bucket
               /\ [Empty EXCEPT !.runs = expiring[m] \cap again].runs \subseteq expiring[m]
               /\ [Empty EXCEPT !.runs = expiring[m] \cap again].dies = 0
    <2>1. expiring[m] \in SUBSET Run
      BY DEF TypeOK
    <2> QED
      BY <2>1 DEF Empty, Bucket
  <1>3. /\ erased' \in SUBSET Run /\ erased \subseteq erased' /\ refused \subseteq erased'
        /\ \A m \in Minutes : counted[m] \subseteq erased'
    BY DEF RedisRestart, TypeOK
  <1>4. /\ volume' \in [Minutes -> Bucket] /\ hours' \in [Hours -> Bucket]
        /\ \A m \in Minutes : volume'[m].runs = {}
        /\ \A h \in Hours : hours'[h].runs = {}
    BY <1>1, EmptyTyped
  <1>5. /\ types' \in [Minutes -> Bucket]
        /\ \A m \in Minutes :
              types'[m].runs \subseteq expiring[m] /\ types'[m].dies = 0
    BY <1>1, <1>2
  <1>6. losses' \in Nat
    BY DEF RedisRestart, TypeOK
  <1> QED
    BY <1>3, <1>4, <1>5, <1>6 DEF RedisRestart, clock

LEMMA TickEffect ==
    ASSUME TypeOK, Tick
    PROVE  /\ now' = now + 1 /\ now' \in Minutes /\ now' \in Nat
           /\ volume' \in [Minutes -> Bucket] /\ types' \in [Minutes -> Bucket]
           /\ hours' \in [Hours -> Bucket]
           /\ \A m \in Minutes : volume'[m] = Aged(volume[m], now')
           /\ \A m \in Minutes : types'[m] = Aged(types[m], now')
           /\ \A h \in Hours : hours'[h] = Aged(hours[h], now')
           /\ UNCHANGED <<up, received, queued, attempts, held, job, activity, expiring,
                          reader, live, counted, refused, erased, losses, exits>>
  <1>1. now' = now + 1 /\ now' \in Minutes /\ now' \in Nat
    BY NowTyped, Numbers DEF Tick, Minutes
  <1>2. volume' \in [Minutes -> Bucket] /\ \A m \in Minutes : volume'[m] = Aged(volume[m], now')
    BY <1>1, AgedTyped DEF Tick, TypeOK
  <1>3. types' \in [Minutes -> Bucket] /\ \A m \in Minutes : types'[m] = Aged(types[m], now')
    BY <1>1, AgedTyped DEF Tick, TypeOK
  <1>4. hours' \in [Hours -> Bucket] /\ \A h \in Hours : hours'[h] = Aged(hours[h], now')
    BY <1>1, AgedTyped DEF Tick, TypeOK
  <1> QED
    BY <1>1, <1>2, <1>3, <1>4 DEF Tick, queue, history

-----------------------------------------------------------------------------
(* The inductive invariants                                                 *)

\* The job in progress was received and is not queued as well.
JobReceived == job.pc # "idle" => job.event \in received \ queued

\* A started job has an attempt of its own; one that waits again has had an
\* exit for every attempt.
AttemptsBounded ==
    /\ \A e \in Events : attempts[e] <= 1 + exits /\ attempts[e] <= 1 + MaxStalled
    /\ \A e \in queued : attempts[e] <= exits /\ attempts[e] <= MaxStalled
    /\ \A e \in Events \ received : attempts[e] = 0

\* What was counted was started before, under one minute, and the job that is
\* about to count has not been counted.
CountedStarted ==
    /\ \A m \in Minutes : \A run \in counted[m] : run[2] <= attempts[run[1]]
    /\ \A m, n \in Minutes : m # n => counted[m] \cap counted[n] = {}
    /\ job.pc \in {"stamp", "count"} => \A m \in Minutes : ThisRun \notin counted[m]

CountsInv == JobReceived /\ AttemptsBounded /\ CountedStarted

\* The feed holds runs that were started, each once, and not yet the one whose
\* counting is under way.
FeedInv ==
    /\ \A i \in DOMAIN live : live[i][2] <= attempts[live[i][1]]
    /\ job.pc \in {"stamp", "count", "wait"} =>
          \A i \in DOMAIN live : live[i] # ThisRun
    /\ \A i, j \in DOMAIN live : i # j => live[i] # live[j]
    /\ Len(live) <= LiveCap
    /\ job.pc = "report" => live # <<>> /\ Head(live) = ThisRun

\* What was started finishes within MaxLag minutes.
Timely ==
    /\ job.pc # "idle" => now <= job.minute + MaxLag
    /\ \A m \in Minutes : expiring[m] # {} => m <= now /\ now <= m + MaxLag
    /\ \A r \in Readers :
          reader[r].pc = "reading" =>
             reader[r].start <= now /\ now <= reader[r].start + MaxLag

\* A bucket holds what was counted under its minute, all of it while the
\* minute is young, and lives as long as BucketTTL from its minute.
BucketsWhole ==
    \A m \in Minutes :
        /\ volume[m].runs \subseteq counted[m] /\ types[m].runs \ Uneven \subseteq counted[m]
        /\ volume[m].runs # {} => volume[m].dies >= m + BucketTTL
        /\ types[m].dies = 0 \/ types[m].dies >= m + BucketTTL
        /\ now < m + BucketTTL =>
              /\ counted[m] \ erased \subseteq volume[m].runs
              /\ counted[m] \ Uneven \subseteq types[m].runs

\* Without an exit a bucket of types that would live for ever waits for its
\* EXPIRE, which finds the bucket it was sent for.
ExpireComes ==
    /\ \A h \in Hours : hours[h].runs # {} => hours[h].dies # 0
    /\ exits = 0 =>
          \A m \in Minutes : types[m].runs # {} /\ types[m].dies = 0 => expiring[m] # {}
    /\ \A m \in Minutes :
          /\ expiring[m] \ erased \subseteq types[m].runs
          /\ expiring[m] \subseteq counted[m] \cup refused

\* The minutes of the window that report q still has to read.
Unreached(q) == {m \in ActiveWindow(q.start) : m <= q.start - q.next}

Within(runs, minutes) == UNION {runs[m] : m \in minutes}

\* Report q holds what was counted in the minutes it has read, in all of its
\* counters, and misses nothing of what had been counted when it began, unless
\* it is gone.
Right(runs, uneven, gone, q) ==
    /\ q.active \subseteq Within(runs, ActiveWindow(q.start))
    /\ q.due \subseteq gone \cup q.active \cup Within(runs, Unreached(q))
    /\ q.typed \ uneven = q.active \ uneven

ReportsRight ==
    \A r \in Readers :
        reader[r].pc = "reading" => Right(counted, Uneven, erased, reader[r])

\* The bucket of an hour holds what was counted in the minutes of the hour,
\* all of it for HourLength minutes.
HoursWhole ==
    /\ \A m \in Minutes : counted[m] # {} => m <= now
    /\ \A h \in Hours :
          \A run \in hours[h].runs \ refused :
             \E m \in Minutes : HourOf(m) = h /\ run \in counted[m]
    /\ \A m \in Minutes :
          /\ hours[HourOf(m)].runs # {} /\ counted[m] # {} =>
                hours[HourOf(m)].dies >= m + HourLength
          /\ now < m + HourLength => counted[m] \ Uneven \subseteq hours[HourOf(m)].runs

\* The minutes of the last hour whose bucket report q still has to read.
UnreachedHours(q) ==
    {m \in RecentHour(q.start) :
        q.next <= 2 * Window \/ HourOf(m) > HourOf(q.chart) - (Reads - q.next)}

\* The chart of report q holds what was counted in the hours it shows, but for
\* some, and misses nothing of the last hour, unless it is uneven.
ChartRight(runs, some, uneven, q) ==
    /\ q.next > 2 * Window => q.start <= q.chart /\ q.chart <= q.start + MaxLag
    /\ IF q.next > 2 * Window
       THEN \A run \in q.hourly \ some : \E m \in HoursOfChart(q.chart) : run \in runs[m]
       ELSE q.hourly = {}
    /\ \A run \in q.dueHourly :
          \/ run \in uneven \/ run \in q.hourly
          \/ \E m \in UnreachedHours(q) : run \in runs[m]

ChartsRight ==
    \A r \in Readers :
        reader[r].pc = "reading" => ChartRight(counted, refused, Uneven, reader[r])

ChartInv == HoursWhole /\ ChartsRight

WindowInv == Timely /\ BucketsWhole /\ ExpireComes /\ ReportsRight

-----------------------------------------------------------------------------
(* Type correctness                                                         *)

LEMMA TypeInit == Init => TypeOK
  <1> SUFFICES ASSUME Init PROVE TypeOK
    OBVIOUS
  <1>1. 1 \in Minutes /\ 0 \in 0..now
    BY FirstMinute DEF Init
  <1>2. volume \in [Minutes -> Bucket] /\ types \in [Minutes -> Bucket]
    BY EmptyTyped DEF Init
  <1>3. hours \in [Hours -> Bucket]
    BY EmptyTyped DEF Init
  <1>4. reader \in [Readers -> ReaderStates]
    BY UnreadTyped DEF Init
  <1>5. job \in JobStates /\ job.pc = "idle"
    BY IdleTyped DEF Init
  <1>6. live \in Seq(Run)
    BY DEF Init
  <1> QED
    BY <1>1, <1>2, <1>3, <1>4, <1>5, <1>6 DEF Init, TypeOK

LEMMA TypeQueueEvent ==
    ASSUME TypeOK, NEW e \in Events, QueueEvent(e)
    PROVE  TypeOK'
  BY DEF TypeOK, QueueEvent, clock, redis, history

LEMMA StartEffect ==
    ASSUME TypeOK, NEW e \in Events, StartJob(e)
    PROVE  /\ e \in queued /\ queued' = queued \ {e}
           /\ attempts' \in [Events -> Nat]
           /\ attempts'[e] = attempts[e] + 1
           /\ \A f \in Events : f # e => attempts'[f] = attempts[f]
           /\ job.pc = "idle"
           /\ job' \in JobStates
           /\ job' = job \/ (job'.pc = "stamp" /\ job'.event = e /\ job'.minute = now)
  <1>1. e \in queued /\ queued' = queued \ {e} /\ job.pc = "idle"
    BY DEF StartJob, Dequeue
  <1>2. /\ attempts' \in [Events -> Nat] /\ attempts'[e] = attempts[e] + 1
        /\ \A f \in Events : f # e => attempts'[f] = attempts[f]
    BY DEF StartJob, TypeOK
  <1>3. [pc |-> "stamp", event |-> e, minute |-> now] \in JobStates
    BY JobTyped, NowTyped DEF Pcs
  <1>4. job' = job \/ job' = [pc |-> "stamp", event |-> e, minute |-> now]
    BY DEF StartJob
  <1>5. job \in JobStates
    BY DEF TypeOK
  <1> QED
    BY <1>1, <1>2, <1>3, <1>4, <1>5

LEMMA TypeStartJob ==
    ASSUME TypeOK, NEW e \in Events, StartJob(e)
    PROVE  TypeOK'
  <1>1. job' \in JobStates /\ (job'.pc # "idle" => job'.minute \in 1..now)
    BY StartEffect, NowTyped
  <1>2. queued' \subseteq queued /\ attempts' \in [Events -> Nat] /\ held' \in BOOLEAN
    BY StartEffect DEF StartJob
  <1> QED
    BY <1>1, <1>2 DEF TypeOK, StartJob, clock, redis, history

LEMMA TypeStamp ==
    ASSUME TypeOK, UpdateLastActivityTime \/ StampRefused \/ JobOver
    PROVE  TypeOK'
  <1>1. CASE UpdateLastActivityTime
    <2>1. job.minute \in 1..now
      BY <1>1 DEF UpdateLastActivityTime, TypeOK
    <2>2. job' \in JobStates /\ job'.minute = job.minute
      BY <1>1, GoesTyped DEF UpdateLastActivityTime, TypeOK, Pcs
    <2>3. activity' \in 0..now
      BY <1>1, <2>1, NowTyped DEF UpdateLastActivityTime, SetActivity
    <2> QED
      BY <1>1, <2>1, <2>2, <2>3 DEF TypeOK, UpdateLastActivityTime, clock, queue, history
  <1>2. CASE StampRefused
    <2>1. job.minute \in 1..now
      BY <1>2 DEF StampRefused, TypeOK
    <2>2. job' \in JobStates /\ job'.minute = job.minute
      BY <1>2, GoesTyped DEF StampRefused, TypeOK, Pcs
    <2>3. refused' \subseteq Run
      BY <1>2, ThisRunTyped DEF StampRefused, TypeOK
    <2> QED
      BY <1>2, <2>1, <2>2, <2>3 DEF TypeOK, StampRefused, clock, queue, redis
  <1>3. CASE JobOver
    BY <1>3, IdleTyped DEF TypeOK, JobOver, clock, queue, redis, history
  <1> QED
    BY <1>1, <1>2, <1>3

LEMMA TypeCount ==
    ASSUME TypeOK, NEW taken \in SUBSET Counters, Count(taken)
    PROVE  TypeOK'
  <1>1. job' \in JobStates /\ (job'.pc # "idle" => job'.minute \in 1..now)
    BY CountEffect, NowTyped
  <1>2. expiring' \in [Minutes -> SUBSET Run]
    BY CountEffect
  <1>3. /\ volume' \in [Minutes -> Bucket] /\ types' \in [Minutes -> Bucket]
        /\ hours' \in [Hours -> Bucket]
        /\ counted' \in [Minutes -> SUBSET Run] /\ refused' \subseteq Run
        /\ UNCHANGED <<erased, losses>>
    BY CountEffect
  <1> QED
    BY <1>1, <1>2, <1>3 DEF TypeOK, Count, clock, queue

LEMMA TypeReply ==
    ASSUME TypeOK, NEW m \in Minutes, NEW run \in expiring[m], HincrbyReply(m, run)
    PROVE  TypeOK'
  <1>1. types' \in [Minutes -> Bucket] /\ expiring' \in [Minutes -> SUBSET Run]
    BY ReplyEffect
  <1> QED
    BY <1>1 DEF TypeOK, HincrbyReply, clock, queue, history

\* The feed after an event: the event first, what was before behind it but for
\* the last when the feed was full.
LEMMA FeedEffect ==
    ASSUME TypeOK, Counted
    PROVE  /\ live' \in Seq(Run)
           /\ live' # <<>> /\ Head(live') = ThisRun /\ live'[1] = ThisRun
           /\ Len(live) <= LiveCap => Len(live') <= LiveCap
           /\ \A i \in 2..Len(live') : i - 1 \in DOMAIN live /\ live'[i] = live[i - 1]
  <1> DEFINE one == <<ThisRun>>
             kept == IF Len(live) + 1 > LiveCap THEN SubSeq(live, 1, Len(live) - 1) ELSE live
  <1>1. live \in Seq(Run) /\ Len(live) \in Nat /\ ThisRun \in Run
    BY ThisRunTyped DEF TypeOK
  <1>2. one \in Seq(Run) /\ Len(one) = 1 /\ one[1] = ThisRun
    BY <1>1
  <1>3. live' = one \o kept
    BY DEF Counted, AddToLiveEvents
  <1>4. /\ kept \in Seq(Run) /\ Len(kept) <= Len(live) /\ Len(kept) \in Nat
        /\ Len(live) <= LiveCap => Len(kept) < LiveCap
        /\ \A i \in 1..Len(kept) : i \in 1..Len(live) /\ kept[i] = live[i]
    <2>1. CASE Len(live) + 1 > LiveCap
      <3> DEFINE cut == SubSeq(live, 1, Len(live) - 1)
      <3>1. Len(live) >= 1
        BY <1>1, <2>1, Numbers
      <3>2. 1 \in 1..Len(live) /\ Len(live) - 1 \in 0..Len(live)
        BY <1>1, <3>1
      <3>3. /\ cut \in Seq(Run) /\ Len(cut) = Len(live) - 1
            /\ \A i \in 1..Len(cut) : cut[i] = live[i]
        <4> DEFINE last == Len(live) - 1
        <4>1. last \in Nat /\ last \in Int /\ 1 \in Int
          BY <1>1, <3>1
        <4>2. \A i \in 1..last : live[i] \in Run
          BY <1>1
        <4> HIDE DEF last
        <4>3. /\ SubSeq(live, 1, last) \in Seq(Run)
              /\ Len(SubSeq(live, 1, last)) = IF 1 <= last THEN last - 1 + 1 ELSE 0
              /\ \A i \in 1..(last - 1 + 1) : SubSeq(live, 1, last)[i] = live[1 + i - 1]
          BY <4>1, <4>2, SubSeqProperties, Z3
        <4>4. Len(SubSeq(live, 1, last)) = last /\ last - 1 + 1 = last
          BY <4>1, <4>3
        <4>5. \A i \in 1..last : SubSeq(live, 1, last)[i] = live[i]
          BY <4>1, <4>3, <4>4
        <4> QED
          BY <4>3, <4>4, <4>5 DEF last
      <3> HIDE DEF cut
      <3>4. kept = cut
        BY <2>1 DEF cut
      <3> HIDE DEF kept
      <3> QED
        BY <1>1, <3>1, <3>3, <3>4, Numbers
    <2>2. CASE ~(Len(live) + 1 > LiveCap)
      <3>1. kept = live
        BY <2>2
      <3> HIDE DEF kept
      <3> QED
        BY <1>1, <2>2, <3>1, Numbers
    <2> QED
      BY <2>1, <2>2
  <1> HIDE DEF one, kept
  <1>5. /\ live' \in Seq(Run) /\ Len(live') = 1 + Len(kept)
        /\ live'[1] = ThisRun
        /\ \A i \in 2..Len(live') : live'[i] = kept[i - 1]
    <2>1. /\ one \o kept \in Seq(Run) /\ Len(one \o kept) = Len(one) + Len(kept)
          /\ \A i \in 1..(Len(one) + Len(kept)) :
                (one \o kept)[i] = IF i <= Len(one) THEN one[i] ELSE kept[i - Len(one)]
      BY <1>2, <1>4, ConcatProperties
    <2> QED
      BY <1>2, <1>3, <1>4, <2>1
  <1>6. live' # <<>> /\ Head(live') = live'[1]
    BY <1>4, <1>5
  <1>7. Len(live) <= LiveCap => Len(live') <= LiveCap
    BY <1>1, <1>4, <1>5, Numbers
  <1>8. ASSUME NEW i \in 2..Len(live')
        PROVE  i - 1 \in DOMAIN live /\ live'[i] = live[i - 1]
    <2>1. i - 1 \in 1..Len(kept)
      BY <1>4, <1>5
    <2> QED
      BY <1>1, <1>4, <1>5, <2>1
  <1> QED
    BY <1>5, <1>6, <1>7, <1>8

LEMMA TypeCounted ==
    ASSUME TypeOK, Counted
    PROVE  TypeOK'
  <1>1. job' \in JobStates /\ job'.minute = job.minute /\ job.pc # "idle"
    BY GoesTyped DEF Counted, TypeOK, Pcs
  <1>2. live' \in Seq(Run)
    BY FeedEffect
  <1> QED
    BY <1>1, <1>2 DEF TypeOK, Counted, clock, queue, redis, history

LEMMA WindowsTyped ==
    ASSUME NEW t
    PROVE  /\ ActiveWindow(t) \in SUBSET Minutes /\ PreviousWindow(t) \in SUBSET Minutes
           /\ RecentHour(t) \in SUBSET Minutes
  BY DEF ActiveWindow, PreviousWindow, RecentHour

\* What a report starts with.
LEMMA BeginEffect ==
    ASSUME TypeOK, NEW r \in Readers, BeginReport(r)
    PROVE  /\ reader' \in [Readers -> ReaderStates]
           /\ \A q \in Readers : q # r => reader'[q] = reader[q]
           /\ reader'[r] = Unread
                \/ /\ reader'[r].pc = "reading" /\ reader'[r].start = now
                   /\ reader'[r].chart = 0 /\ reader'[r].next = 0
                   /\ reader'[r].active = {} /\ reader'[r].typed = {}
                   /\ reader'[r].previous = {} /\ reader'[r].hourly = {}
                   /\ reader'[r].due = CountedIn(ActiveWindow(now))
                   /\ reader'[r].dueHourly = CountedIn(RecentHour(now))
           /\ job' \in JobStates
           /\ \/ job' = job
              \/ /\ job'.pc \in {"read", "over"} /\ job.pc = "report"
                 /\ job'.event = job.event /\ job'.minute = job.minute
  <1> DEFINE fresh == [pc |-> "reading", start |-> now, chart |-> 0, next |-> 0,
                  active |-> {}, typed |-> {}, previous |-> {}, hourly |-> {},
                  due |-> CountedIn(ActiveWindow(now)),
                  duePrevious |-> CountedIn(PreviousWindow(now)),
                  dueHourly |-> CountedIn(RecentHour(now))]
  <1>1. fresh \in ReaderStates
    <2>1. /\ CountedIn(ActiveWindow(now)) \in SUBSET Run
          /\ CountedIn(PreviousWindow(now)) \in SUBSET Run
          /\ CountedIn(RecentHour(now)) \in SUBSET Run
      BY CountedInTyped, WindowsTyped DEF TypeOK
    <2>2. now \in 0..MaxMinute /\ 0 \in 0..MaxMinute /\ 0 \in 0..Reads
      BY NowTyped, Numbers
    <2> QED
      BY <2>1, <2>2, ReaderTyped
  <1>2. /\ fresh.pc = "reading" /\ fresh.start = now /\ fresh.chart = 0 /\ fresh.next = 0
        /\ fresh.active = {} /\ fresh.typed = {} /\ fresh.previous = {} /\ fresh.hourly = {}
        /\ fresh.due = CountedIn(ActiveWindow(now))
        /\ fresh.dueHourly = CountedIn(RecentHour(now))
    OBVIOUS
  <1>3. \E q \in {fresh, Unread} : reader' = [reader EXCEPT ![r] = q]
    BY DEF BeginReport
  <1> HIDE DEF fresh
  <1>4. /\ reader' \in [Readers -> ReaderStates]
        /\ \A q \in Readers : q # r => reader'[q] = reader[q]
        /\ reader'[r] \in {fresh, Unread}
    BY <1>1, <1>3, UnreadTyped DEF TypeOK
  <1>5. /\ job' \in JobStates
        /\ \/ job' = job
           \/ /\ job'.pc \in {"read", "over"} /\ job.pc = "report"
              /\ job'.event = job.event /\ job'.minute = job.minute
    <2>1. CASE job' = job
      BY <2>1 DEF TypeOK
    <2>2. CASE (Goes("read") \/ Goes("over")) /\ job.pc = "report"
      BY <2>2, GoesTyped DEF TypeOK, Pcs
    <2> QED
      BY <2>1, <2>2 DEF BeginReport, Goes
  <1> QED
    BY <1>2, <1>4, <1>5

LEMMA TypeBegin ==
    ASSUME TypeOK, NEW r \in Readers, BeginReport(r)
    PROVE  TypeOK'
  <1>1. job' \in JobStates /\ (job'.pc # "idle" => job'.minute \in 1..now)
    BY BeginEffect, IdleTyped DEF TypeOK
  <1>2. reader' \in [Readers -> ReaderStates]
    BY BeginEffect
  <1> QED
    BY <1>1, <1>2 DEF TypeOK, BeginReport, clock, queue, redis, history

LEMMA ChartTyped ==
    ASSUME TypeOK, NEW r \in Readers
    PROVE  ChartTime(reader[r]) \in 0..MaxMinute
  BY NowTyped, ReaderFields DEF ChartTime, TypeOK

\* One read of a report.
LEMMA ReadEffect ==
    ASSUME TypeOK, NEW r \in Readers, ReadNext(r)
    PROVE  LET q == reader[r]
               minute == q.start - q.next
           IN  /\ reader' \in [Readers -> ReaderStates]
               /\ \A other \in Readers : other # r => reader'[other] = reader[other]
               /\ q.pc = "reading" /\ q.next < Reads
               /\ reader'[r].pc = "reading" /\ reader'[r].start = q.start
               /\ reader'[r].next = q.next + 1
               /\ reader'[r].due = q.due /\ reader'[r].dueHourly = q.dueHourly
               /\ q.next < Window =>
                     /\ reader'[r].active = q.active \cup At(volume, minute)
                     /\ reader'[r].typed = q.typed \cup At(types, minute)
               /\ q.next >= Window =>
                     reader'[r].active = q.active /\ reader'[r].typed = q.typed
               /\ reader'[r].chart = ChartTime(q)
               /\ q.next < 2 * Window => reader'[r].hourly = q.hourly
               /\ q.next >= 2 * Window =>
                     reader'[r].hourly = q.hourly \cup At(hours, HourRead(q))
  <1> DEFINE q == reader[r]
             minute == q.start - q.next
             Adds(phase, runs) == IF phase THEN runs ELSE {}
             active == q.active \cup Adds(q.next < Window, At(volume, minute))
             typed == q.typed \cup Adds(q.next < Window, At(types, minute))
             previous == q.previous
                \cup Adds(q.next \in Window..(2 * Window - 1), At(volume, minute))
             hourly == q.hourly \cup Adds(q.next >= 2 * Window, At(hours, HourRead(q)))
             read == [pc |-> "reading", start |-> q.start, chart |-> ChartTime(q),
                      next |-> q.next + 1,
                      active |-> active, typed |-> typed, previous |-> previous,
                      hourly |-> hourly, due |-> q.due, duePrevious |-> q.duePrevious,
                      dueHourly |-> q.dueHourly]
  <1>1. q \in ReaderStates /\ q.pc = "reading" /\ q.next < Reads
    BY DEF ReadNext, TypeOK
  <1>2. /\ active \in SUBSET Run /\ typed \in SUBSET Run
        /\ previous \in SUBSET Run /\ hourly \in SUBSET Run
    <2>1. /\ At(volume, minute) \in SUBSET Run /\ At(types, minute) \in SUBSET Run
          /\ At(hours, HourRead(q)) \in SUBSET Run
      BY AtTyped DEF TypeOK
    <2>2. /\ q.active \in SUBSET Run /\ q.typed \in SUBSET Run
          /\ q.previous \in SUBSET Run /\ q.hourly \in SUBSET Run
      BY <1>1, ReaderFields
    <2> HIDE DEF q, minute
    <2> QED
      BY <2>1, <2>2
  <1>3. /\ q.next >= Window => active = q.active /\ typed = q.typed
        /\ q.next < Window =>
              /\ active = q.active \cup At(volume, minute)
              /\ typed = q.typed \cup At(types, minute)
        /\ q.next < 2 * Window => hourly = q.hourly
        /\ q.next >= 2 * Window => hourly = q.hourly \cup At(hours, HourRead(q))
    <2>1. q.next \in Nat /\ Window \in Nat /\ 2 * Window \in Nat
      BY <1>1, ReaderFields, Numbers
    <2> HIDE DEF q, minute
    <2> QED
      BY <2>1
  <1>4. reader' = [reader EXCEPT ![r] = read]
    BY DEF ReadNext
  <1>5. read \in ReaderStates
    <2>1. q.start \in 0..MaxMinute /\ ChartTime(q) \in 0..MaxMinute /\ q.next + 1 \in 0..Reads
      BY <1>1, ReaderFields, Numbers, ChartTyped
    <2>2. q.due \in SUBSET Run /\ q.duePrevious \in SUBSET Run /\ q.dueHourly \in SUBSET Run
      BY <1>1, ReaderFields
    <2> HIDE DEF q, active, typed, previous, hourly
    <2> QED
      BY <1>2, <2>1, <2>2, ReaderTyped
  <1>6. /\ read.pc = "reading" /\ read.start = q.start /\ read.next = q.next + 1
        /\ read.due = q.due /\ read.dueHourly = q.dueHourly
        /\ read.active = active /\ read.typed = typed
        /\ read.chart = ChartTime(q) /\ read.hourly = hourly
    OBVIOUS
  <1>7. reader \in [Readers -> ReaderStates]
    BY DEF TypeOK
  <1> HIDE DEF read, active, typed, hourly
  <1>8. /\ reader' \in [Readers -> ReaderStates] /\ reader'[r] = read
        /\ \A other \in Readers : other # r => reader'[other] = reader[other]
    BY <1>4, <1>5, <1>7
  <1> QED
    BY <1>1, <1>3, <1>6, <1>8

LEMMA TypeRead ==
    ASSUME TypeOK, NEW r \in Readers, ReadNext(r)
    PROVE  TypeOK'
  <1>1. reader' \in [Readers -> ReaderStates]
    BY ReadEffect
  <1> QED
    BY <1>1 DEF TypeOK, ReadNext, clock, queue, redis, history

LEMMA BroadcastEffect ==
    ASSUME TypeOK, NEW r \in Readers, BroadcastReport(r)
    PROVE  /\ reader' \in [Readers -> ReaderStates] /\ reader'[r] = Unread
           /\ \A other \in Readers : other # r => reader'[other] = reader[other]
           /\ job' \in JobStates
           /\ \/ job' = job
              \/ /\ job'.pc = "over" /\ job.pc = "read"
                 /\ job'.event = job.event /\ job'.minute = job.minute
  <1>1. /\ reader' \in [Readers -> ReaderStates] /\ reader'[r] = Unread
        /\ \A other \in Readers : other # r => reader'[other] = reader[other]
    BY UnreadTyped DEF BroadcastReport, TypeOK
  <1>2. CASE r = Job
    <2>1. Goes("over") /\ job.pc = "read"
      BY <1>2 DEF BroadcastReport
    <2> QED
      BY <1>1, <2>1, GoesTyped DEF TypeOK, Pcs
  <1>3. CASE r # Job
    BY <1>1, <1>3 DEF BroadcastReport, TypeOK
  <1> QED
    BY <1>2, <1>3

LEMMA TypeBroadcast ==
    ASSUME TypeOK, NEW r \in Readers, BroadcastReport(r)
    PROVE  TypeOK'
  <1>1. reader' \in [Readers -> ReaderStates]
    BY BroadcastEffect
  <1>2. job' \in JobStates /\ (job'.pc # "idle" => job'.minute \in 1..now)
    BY BroadcastEffect DEF TypeOK
  <1> QED
    BY <1>1, <1>2 DEF TypeOK, BroadcastReport, clock, queue, redis, history

LEMMA TypeTick ==
    ASSUME TypeOK, Tick
    PROVE  TypeOK'
  <1>1. /\ now' \in Minutes
        /\ volume' \in [Minutes -> Bucket] /\ types' \in [Minutes -> Bucket]
        /\ hours' \in [Hours -> Bucket]
    BY TickEffect
  <1>2. UNCHANGED <<up, received, queued, attempts, held, job, activity, expiring, reader,
                    live, counted, refused, erased, losses, exits>>
    BY TickEffect
  <1>3. activity' \in 0..now' /\ (job'.pc # "idle" => job'.minute \in 1..now')
    <2>1. now' = now + 1 /\ now \in Nat
      BY TickEffect, NowTyped
    <2>2. activity \in 0..now /\ (job.pc # "idle" => job.minute \in 1..now)
      BY DEF TypeOK
    <2> QED
      BY <1>2, <2>1, <2>2
  <1> QED
    BY <1>1, <1>2, <1>3 DEF TypeOK

\* An exit hands the job of the process back, or drops it.
LEMMA ExitEffect ==
    ASSUME TypeOK, Exit
    PROVE  /\ job' = Idle /\ live' = <<>> /\ held' = FALSE
           /\ expiring' \in [Minutes -> SUBSET Run]
           /\ \A m \in Minutes : expiring'[m] = {}
           /\ reader' = [r \in Readers |-> Unread]
           /\ exits' = exits + 1
           /\ queued' = queued
                \/ /\ job.pc # "idle" /\ attempts[job.event] <= MaxStalled
                   /\ queued' = queued \cup {job.event}
           /\ UNCHANGED <<now, received, attempts, activity, volume, types, hours,
                          counted, refused, erased, losses>>
  BY DEF Exit, redis, history

LEMMA TypeExit ==
    ASSUME TypeOK, JobReceived, Exit
    PROVE  TypeOK'
  <1>1. queued' \subseteq received' /\ received' \subseteq Events
    BY ExitEffect DEF TypeOK, JobReceived
  <1>2. /\ job' \in JobStates /\ job'.pc = "idle" /\ held' \in BOOLEAN
        /\ expiring' \in [Minutes -> SUBSET Run]
    BY ExitEffect, IdleTyped
  <1>3. reader' \in [Readers -> ReaderStates]
    BY ExitEffect, UnreadTyped
  <1>4. live' \in Seq(Run) /\ exits' \in Nat /\ up' \in BOOLEAN
    <2>1. live' \in Seq(Run)
      BY ExitEffect
    <2>2. exits' \in Nat
      <3>1. exits \in Nat
        BY DEF TypeOK
      <3> QED
        BY <3>1, ExitEffect
    <2>3. up' \in BOOLEAN
      BY DEF Exit
    <2> QED
      BY <2>1, <2>2, <2>3
  <1>5. UNCHANGED <<now, received, attempts, activity, volume, types, hours, counted,
                    refused, erased, losses>>
    BY ExitEffect
  <1> QED
    BY <1>1, <1>2, <1>3, <1>4, <1>5 DEF TypeOK

LEMMA TypeRestart ==
    ASSUME TypeOK, Restart
    PROVE  TypeOK'
  <1>1. up' \in BOOLEAN
    BY DEF Restart
  <1> QED
    BY <1>1 DEF TypeOK, Restart, queue, redis, history

LEMMA TypeLoss ==
    ASSUME TypeOK, NEW again, RedisRestart(again)
    PROVE  TypeOK'
  <1>1. /\ volume' \in [Minutes -> Bucket] /\ types' \in [Minutes -> Bucket]
        /\ hours' \in [Hours -> Bucket]
    BY LossEffect
  <1>2. queued' = {} /\ held' = FALSE /\ activity' = 0 /\ now \in Nat
    BY LossEffect, NowTyped
  <1>3. erased' \subseteq Run /\ losses' \in Nat
    BY LossEffect
  <1>4. UNCHANGED <<up, now, exits, received, attempts, job, expiring, reader, live,
                    counted, refused>>
    BY LossEffect
  <1>5. activity' \in 0..now' /\ queued' \subseteq received'
    BY <1>2, <1>4
  <1>6. held' \in BOOLEAN
    BY <1>2
  <1> QED
    BY <1>1, <1>3, <1>4, <1>5, <1>6 DEF TypeOK

-----------------------------------------------------------------------------
(* What was counted                                                         *)

LEMMA CountsInit == Init => CountsInv
  <1> SUFFICES ASSUME Init PROVE CountsInv
    OBVIOUS
  <1>1. job.pc = "idle"
    BY IdleTyped DEF Init
  <1>2. JobReceived /\ CountedStarted
    BY <1>1 DEF Init, JobReceived, CountedStarted
  <1>3. AttemptsBounded
    BY Numbers DEF Init, AttemptsBounded
  <1> QED
    BY <1>2, <1>3 DEF CountsInv

LEMMA CountsKept ==
    ASSUME TypeOK, CountsInv,
           UNCHANGED <<received, queued, attempts, counted, exits>>,
           \/ job' = job \/ job' = Idle
           \/ Goes("count") /\ job.pc = "stamp"
           \/ /\ job.pc # "idle" /\ job'.event = job.event /\ job'.minute = job.minute
              /\ job'.pc \in {"report", "read", "over"}
    PROVE  CountsInv'
  <1>1. AttemptsBounded'
    BY DEF CountsInv, AttemptsBounded
  <1>2. \/ job'.pc = "idle"
        \/ job' = job
        \/ /\ job'.event = job.event /\ job.pc # "idle"
           /\ job'.pc \in {"stamp", "count"} => job.pc \in {"stamp", "count"}
    BY IdleTyped, GoesTyped DEF TypeOK, Pcs
  <1>3. JobReceived'
    BY <1>2 DEF CountsInv, JobReceived
  <1>4. CountedStarted'
    BY <1>2 DEF CountsInv, CountedStarted, ThisRun
  <1> QED
    BY <1>1, <1>3, <1>4 DEF CountsInv

LEMMA CountsQueue ==
    ASSUME TypeOK, CountsInv, NEW e \in Events, QueueEvent(e)
    PROVE  CountsInv'
  <1>1. /\ UNCHANGED <<attempts, counted, exits, job>> /\ e \notin received
        /\ queued' = queued \cup {e} /\ received' = received \cup {e}
    BY DEF QueueEvent, clock, history
  <1>2. AttemptsBounded'
    BY <1>1, Numbers DEF CountsInv, AttemptsBounded, TypeOK
  <1>3. JobReceived' /\ CountedStarted'
    BY <1>1 DEF CountsInv, JobReceived, CountedStarted, ThisRun
  <1> QED
    BY <1>2, <1>3 DEF CountsInv

LEMMA CountsStart ==
    ASSUME TypeOK, CountsInv, NEW e \in Events, StartJob(e)
    PROVE  CountsInv'
  <1>1. /\ UNCHANGED <<received, counted, exits>>
        /\ e \in queued /\ e \in received /\ queued' = queued \ {e} /\ job.pc = "idle"
        /\ attempts'[e] = attempts[e] + 1 /\ attempts[e] \in Nat
        /\ \A f \in Events : f # e => attempts'[f] = attempts[f]
    BY StartEffect DEF StartJob, clock, history, TypeOK
  <1>2. job' = job \/ (job'.pc = "stamp" /\ job'.event = e /\ job'.minute = now)
    BY StartEffect
  <1>3. AttemptsBounded'
    <2>1. ASSUME NEW f \in Events
          PROVE  attempts'[f] <= 1 + exits' /\ attempts'[f] <= 1 + MaxStalled
      <3>1. CASE f = e
        BY <1>1, <3>1, Numbers DEF CountsInv, AttemptsBounded, TypeOK
      <3>2. CASE f # e
        BY <1>1, <3>2 DEF CountsInv, AttemptsBounded
      <3> QED
        BY <3>1, <3>2
    <2>2. \A f \in queued' : attempts'[f] <= exits' /\ attempts'[f] <= MaxStalled
      BY <1>1 DEF CountsInv, AttemptsBounded, TypeOK
    <2>3. \A f \in Events \ received' : attempts'[f] = 0
      BY <1>1 DEF CountsInv, AttemptsBounded
    <2> QED
      BY <2>1, <2>2, <2>3 DEF AttemptsBounded
  <1>4. JobReceived'
    BY <1>1, <1>2 DEF JobReceived
  <1>5. CountedStarted'
    <2>1. ASSUME NEW m \in Minutes, NEW run \in counted[m]
          PROVE  run[2] <= attempts'[run[1]] /\ (run[1] = e => run[2] # attempts'[e])
      <3>1. run[1] \in Events /\ run[2] \in Nat /\ run[2] <= attempts[run[1]]
        BY DEF CountsInv, CountedStarted, TypeOK, Run
      <3>2. CASE run[1] = e
        BY <1>1, <3>1, <3>2
      <3>3. CASE run[1] # e
        BY <1>1, <3>1, <3>3
      <3> QED
        BY <3>2, <3>3
    <2>2. job'.pc \in {"stamp", "count"} => ThisRun' = <<e, attempts'[e]>>
      BY <1>1, <1>2 DEF ThisRun
    <2>3. job'.pc \in {"stamp", "count"} => \A m \in Minutes : ThisRun' \notin counted[m]
      BY <2>1, <2>2
    <2>4. \A m, n \in Minutes : m # n => counted[m] \cap counted[n] = {}
      BY DEF CountsInv, CountedStarted
    <2> QED
      BY <1>1, <2>1, <2>3, <2>4 DEF CountedStarted
  <1> QED
    BY <1>3, <1>4, <1>5 DEF CountsInv

LEMMA CountsCount ==
    ASSUME TypeOK, CountsInv, NEW taken \in SUBSET Counters, Count(taken)
    PROVE  CountsInv'
  <1>1. /\ UNCHANGED <<received, queued, attempts, exits>> /\ job.pc = "count"
        /\ job'.pc \in {"wait", "over"} /\ job'.event = job.event
    BY CountEffect DEF Count, clock, queue
  <1>2. job'.pc \notin {"stamp", "count"}
    BY <1>1
  <1>3. JobReceived' /\ AttemptsBounded'
    BY <1>1 DEF CountsInv, JobReceived, AttemptsBounded
  <1>4. /\ \A m \in Minutes : m # job.minute => counted'[m] = counted[m]
        /\ counted'[job.minute] \subseteq counted[job.minute] \cup {ThisRun}
    BY CountEffect, CountedHere
  <1>5. /\ \A m \in Minutes : ThisRun \notin counted[m]
        /\ \A m, n \in Minutes : m # n => counted[m] \cap counted[n] = {}
        /\ \A m \in Minutes : \A run \in counted[m] : run[2] <= attempts[run[1]]
    BY <1>1 DEF CountsInv, CountedStarted
  <1>6. ThisRun[2] <= attempts[ThisRun[1]]
    BY ThisRunTyped DEF TypeOK, Run
  <1>7. \A m \in Minutes : \A run \in counted'[m] : run[2] <= attempts[run[1]]
    <2> TAKE m \in Minutes
    <2> TAKE run \in counted'[m]
    <2>1. run \in counted[m] \/ run = ThisRun
      BY <1>4
    <2> QED
      BY <1>5, <1>6, <2>1
  <1>8. \A m, n \in Minutes : m # n => counted'[m] \cap counted'[n] = {}
    BY <1>4, <1>5
  <1>9. CountedStarted'
    BY <1>1, <1>2, <1>7, <1>8 DEF CountedStarted
  <1> QED
    BY <1>3, <1>9 DEF CountsInv

LEMMA CountsExit ==
    ASSUME TypeOK, CountsInv, Exit
    PROVE  CountsInv'
  <1>1. /\ job'.pc = "idle" /\ exits' = exits + 1 /\ exits \in Nat
        /\ UNCHANGED <<received, attempts, counted>>
        /\ \/ queued' = queued
           \/ /\ job.pc # "idle" /\ attempts[job.event] <= MaxStalled
              /\ queued' = queued \cup {job.event}
    BY ExitEffect, IdleTyped DEF TypeOK
  <1>2. \A e \in Events : attempts[e] \in Nat
    BY DEF TypeOK
  <1>3. job.event \in Events /\ queued \subseteq Events
    BY JobFields DEF TypeOK
  <1>4. AttemptsBounded'
    BY <1>1, <1>2, <1>3, Numbers DEF CountsInv, AttemptsBounded
  <1>5. JobReceived' /\ CountedStarted'
    BY <1>1 DEF CountsInv, JobReceived, CountedStarted
  <1> QED
    BY <1>4, <1>5 DEF CountsInv

LEMMA CountsLoss ==
    ASSUME TypeOK, CountsInv, NEW again, RedisRestart(again)
    PROVE  CountsInv'
  <1>1. queued' = {} /\ UNCHANGED <<received, attempts, job, counted, exits>>
    BY LossEffect
  <1> QED
    BY <1>1 DEF CountsInv, JobReceived, AttemptsBounded, CountedStarted, ThisRun

\* The steps of the job itself that count nothing, and those of the readers.
LEMMA JobMoves ==
    ASSUME TypeOK,
           \/ UpdateLastActivityTime \/ StampRefused \/ Counted \/ JobOver
           \/ (\E m \in Minutes : \E run \in expiring[m] : HincrbyReply(m, run))
           \/ (\E r \in Readers : BeginReport(r) \/ ReadNext(r) \/ BroadcastReport(r))
           \/ Tick \/ Restart \/ UNCHANGED vars
    PROVE  /\ UNCHANGED <<received, queued, attempts, counted, exits>>
           /\ \/ job' = job \/ job' = Idle
              \/ Goes("count") /\ job.pc = "stamp"
              \/ /\ job.pc # "idle" /\ job'.event = job.event /\ job'.minute = job.minute
                 /\ job'.pc \in {"report", "read", "over"}
  <1>1. CASE UpdateLastActivityTime \/ JobOver
    BY <1>1 DEF UpdateLastActivityTime, JobOver, clock, queue, history
  <1>2. CASE Counted \/ StampRefused
    <2>1. /\ job.pc # "idle" /\ job'.pc \in {"report", "over"}
          /\ job'.event = job.event /\ job'.minute = job.minute
      BY <1>2, GoesTyped DEF Counted, StampRefused, TypeOK, Pcs
    <2> QED
      BY <1>2, <2>1 DEF Counted, StampRefused, clock, queue, history
  <1>3. CASE \E m \in Minutes : \E run \in expiring[m] : HincrbyReply(m, run)
    BY <1>3 DEF HincrbyReply, clock, queue, history
  <1>4. ASSUME NEW r \in Readers, BeginReport(r)
        PROVE  /\ UNCHANGED <<received, queued, attempts, counted, exits>>
               /\ \/ job' = job
                  \/ /\ job.pc # "idle" /\ job'.event = job.event
                     /\ job'.minute = job.minute /\ job'.pc \in {"report", "read", "over"}
    BY <1>4, BeginEffect DEF BeginReport, clock, queue, history
  <1>5. ASSUME NEW r \in Readers, BroadcastReport(r)
        PROVE  /\ UNCHANGED <<received, queued, attempts, counted, exits>>
               /\ \/ job' = job
                  \/ /\ job.pc # "idle" /\ job'.event = job.event
                     /\ job'.minute = job.minute /\ job'.pc = "over"
    BY <1>5, BroadcastEffect DEF BroadcastReport, clock, queue, history
  <1>6. ASSUME NEW r \in Readers, ReadNext(r)
        PROVE  UNCHANGED <<received, queued, attempts, counted, exits, job>>
    BY <1>6 DEF ReadNext, clock, queue, history
  <1>7. CASE Tick
    BY <1>7, TickEffect
  <1>8. CASE Restart \/ UNCHANGED vars
    BY <1>8 DEF Restart, vars, queue, history
  <1> QED
    BY <1>1, <1>2, <1>3, <1>4, <1>5, <1>6, <1>7, <1>8

LEMMA CountsNext ==
    ASSUME TypeOK, CountsInv, [Next]_vars
    PROVE  CountsInv'
  <1>1. ASSUME NEW e \in Events, QueueEvent(e) PROVE CountsInv'
    BY <1>1, CountsQueue
  <1>2. ASSUME NEW e \in Events, StartJob(e) PROVE CountsInv'
    BY <1>2, CountsStart
  <1>3. ASSUME NEW taken \in SUBSET Counters, Count(taken) PROVE CountsInv'
    BY <1>3, CountsCount
  <1>4. CASE Exit
    BY <1>4, CountsExit
  <1>5. CASE \/ UpdateLastActivityTime \/ StampRefused \/ Counted \/ JobOver
             \/ (\E m \in Minutes : \E run \in expiring[m] : HincrbyReply(m, run))
             \/ (\E r \in Readers : BeginReport(r) \/ ReadNext(r) \/ BroadcastReport(r))
             \/ Tick \/ Restart \/ UNCHANGED vars
    <2>1. /\ UNCHANGED <<received, queued, attempts, counted, exits>>
          /\ \/ job' = job \/ job' = Idle
             \/ Goes("count") /\ job.pc = "stamp"
             \/ /\ job.pc # "idle" /\ job'.event = job.event /\ job'.minute = job.minute
                /\ job'.pc \in {"report", "read", "over"}
      BY <1>5, JobMoves
    <2> QED
      BY ONLY TypeOK, CountsInv, <2>1, CountsKept
  <1>6. ASSUME NEW again, RedisRestart(again) PROVE CountsInv'
    BY <1>6, CountsLoss
  <1> QED
    BY <1>1, <1>2, <1>3, <1>4, <1>5, <1>6 DEF Next

LEMMA TypeNext ==
    ASSUME TypeOK, CountsInv, [Next]_vars
    PROVE  TypeOK'
  <1>1. CASE UNCHANGED vars
    BY <1>1 DEF TypeOK, vars
  <1>2. CASE \E e \in Events : QueueEvent(e) \/ StartJob(e)
    BY <1>2, TypeQueueEvent, TypeStartJob
  <1>3. CASE UpdateLastActivityTime \/ StampRefused \/ JobOver
    BY <1>3, TypeStamp
  <1>4. CASE \E taken \in SUBSET Counters : Count(taken)
    BY <1>4, TypeCount
  <1>5. CASE \E m \in Minutes : \E run \in expiring[m] : HincrbyReply(m, run)
    BY <1>5, TypeReply
  <1>6. CASE Counted
    BY <1>6, TypeCounted
  <1>7. CASE \E r \in Readers : BeginReport(r) \/ ReadNext(r) \/ BroadcastReport(r)
    BY <1>7, TypeBegin, TypeRead, TypeBroadcast
  <1>8. CASE Tick
    BY <1>8, TypeTick
  <1>9. CASE Exit
    BY <1>9, TypeExit DEF CountsInv, JobReceived
  <1>10. CASE Restart
    BY <1>10, TypeRestart
  <1>11. CASE \E again \in SUBSET Unanswered : RedisRestart(again)
    BY <1>11, TypeLoss
  <1> QED
    BY <1>1, <1>2, <1>3, <1>4, <1>5, <1>6, <1>7, <1>8, <1>9, <1>10, <1>11 DEF Next

-----------------------------------------------------------------------------
(* The live feed                                                            *)

LEMMA FeedKept ==
    ASSUME TypeOK, FeedInv, UNCHANGED <<live, attempts>>,
           job'.pc \in {"stamp", "count", "wait"} =>
              job.pc \in {"stamp", "count", "wait"} /\ job'.event = job.event,
           job'.pc = "report" => job' = job
    PROVE  FeedInv'
  BY DEF FeedInv, ThisRun

LEMMA FeedStart ==
    ASSUME TypeOK, FeedInv, NEW e \in Events, StartJob(e)
    PROVE  FeedInv'
  <1>1. /\ UNCHANGED live /\ live \in Seq(Run) /\ job.pc = "idle"
        /\ attempts'[e] = attempts[e] + 1 /\ attempts[e] \in Nat
        /\ \A f \in Events : f # e => attempts'[f] = attempts[f]
        /\ job' = job \/ (job'.pc = "stamp" /\ job'.event = e)
    BY StartEffect DEF StartJob, TypeOK
  <1>2. ASSUME NEW i \in DOMAIN live
        PROVE  live[i][2] <= attempts'[live[i][1]] /\ live[i] # <<e, attempts'[e]>>
    <2>1. live[i] \in Run
      BY <1>1
    <2>2. /\ live[i][1] \in Events /\ live[i][2] \in Nat
          /\ live[i][2] <= attempts[live[i][1]]
      BY <2>1 DEF FeedInv, Run
    <2>3. CASE live[i][1] = e
      BY <1>1, <2>2, <2>3
    <2>4. CASE live[i][1] # e
      BY <1>1, <2>2, <2>4
    <2> QED
      BY <2>3, <2>4
  <1>3. job'.pc # "idle" => job'.pc = "stamp" /\ ThisRun' = <<e, attempts'[e]>>
    BY <1>1 DEF ThisRun
  <1>4. \A i, j \in DOMAIN live : i # j => live[i] # live[j]
    BY DEF FeedInv
  <1>5. Len(live) <= LiveCap
    BY DEF FeedInv
  <1> QED
    BY <1>1, <1>2, <1>3, <1>4, <1>5 DEF FeedInv

LEMMA FeedCounted ==
    ASSUME TypeOK, FeedInv, Counted
    PROVE  FeedInv'
  <1>1. /\ job.pc = "wait" /\ UNCHANGED attempts
        /\ job'.pc = "report" /\ job'.event = job.event
    BY GoesTyped DEF Counted, queue, TypeOK, Pcs
  <1>2. ThisRun' = ThisRun /\ ThisRun[2] <= attempts[ThisRun[1]]
    <2>1. ThisRun' = ThisRun
      BY <1>1 DEF ThisRun
    <2>2. attempts[job.event] \in Nat
      BY JobFields DEF TypeOK
    <2> QED
      BY <2>1, <2>2, ThisRunTyped
  <1>3. /\ live' \in Seq(Run) /\ live' # <<>> /\ Head(live') = ThisRun
        /\ live'[1] = ThisRun /\ Len(live') <= LiveCap
        /\ \A i \in 2..Len(live') : i - 1 \in DOMAIN live /\ live'[i] = live[i - 1]
    BY FeedEffect DEF FeedInv
  <1>4. /\ \A i \in DOMAIN live : live[i][2] <= attempts[live[i][1]] /\ live[i] # ThisRun
        /\ \A i, j \in DOMAIN live : i # j => live[i] # live[j]
    BY <1>1 DEF FeedInv
  <1>5. DOMAIN live' = 1..Len(live') /\ Len(live') \in Nat
    BY <1>3
  <1>6. \A i \in DOMAIN live' : live'[i][2] <= attempts'[live'[i][1]]
    <2> TAKE i \in DOMAIN live'
    <2>1. CASE i = 1
      BY <1>1, <1>2, <1>3, <2>1
    <2>2. CASE i # 1
      <3>1. i \in 2..Len(live')
        BY <1>5, <2>2
      <3> QED
        BY <1>1, <1>3, <1>4, <3>1
    <2> QED
      BY <2>1, <2>2
  <1>7. ASSUME NEW i \in DOMAIN live', NEW j \in DOMAIN live', i < j
        PROVE  live'[i] # live'[j]
    <2>1. j \in 2..Len(live')
      BY <1>5, <1>7
    <2>2. CASE i = 1
      BY <1>3, <1>4, <2>1, <2>2
    <2>3. CASE i # 1
      <3>1. i \in 2..Len(live') /\ i - 1 # j - 1
        BY <1>5, <1>7, <2>3
      <3> QED
        BY <1>3, <1>4, <2>1, <3>1
    <2> QED
      BY <2>2, <2>3
  <1>8. \A i, j \in DOMAIN live' : i # j => live'[i] # live'[j]
    BY <1>5, <1>7
  <1> QED
    BY <1>1, <1>2, <1>3, <1>6, <1>8 DEF FeedInv

LEMMA FeedInit == Init => FeedInv
  <1> SUFFICES ASSUME Init PROVE FeedInv
    OBVIOUS
  <1>1. job.pc = "idle" /\ live = <<>> /\ Len(live) = 0 /\ DOMAIN live = {}
    BY IdleTyped DEF Init
  <1> QED
    BY <1>1, Numbers DEF FeedInv

LEMMA FeedNext ==
    ASSUME TypeOK, FeedInv, [Next]_vars
    PROVE  FeedInv'
  <1>1. ASSUME NEW e \in Events, QueueEvent(e) PROVE FeedInv'
    BY <1>1, FeedKept DEF QueueEvent
  <1>2. ASSUME NEW e \in Events, StartJob(e) PROVE FeedInv'
    BY <1>2, FeedStart
  <1>3. ASSUME NEW taken \in SUBSET Counters, Count(taken) PROVE FeedInv'
    <2>1. /\ UNCHANGED <<live, attempts>> /\ job.pc = "count"
          /\ job'.pc \in {"wait", "over"} /\ job'.event = job.event
      BY <1>3, CountEffect DEF Count, queue
    <2> QED
      BY <2>1, FeedKept
  <1>4. CASE Exit
    <2>1. job'.pc = "idle" /\ live' = <<>> /\ Len(live') = 0 /\ DOMAIN live' = {}
      BY <1>4, ExitEffect, IdleTyped
    <2> QED
      BY <2>1, Numbers DEF FeedInv
  <1>5. CASE Counted
    BY <1>5, FeedCounted
  <1>6. CASE UpdateLastActivityTime \/ StampRefused \/ JobOver
    <2>1. /\ UNCHANGED <<live, attempts>>
          /\ \/ job'.pc \in {"idle", "over"}
             \/ job.pc = "stamp" /\ job'.pc = "count" /\ job'.event = job.event
      BY <1>6, GoesTyped, IdleTyped
      DEF UpdateLastActivityTime, StampRefused, JobOver, queue, TypeOK, Pcs
    <2> QED
      BY <2>1, FeedKept
  <1>7. ASSUME NEW r \in Readers, BeginReport(r) PROVE FeedInv'
    <2>1. UNCHANGED <<live, attempts>> /\ (job' = job \/ job'.pc \in {"over", "read"})
      BY <1>7, BeginEffect DEF BeginReport, queue
    <2> QED
      BY <2>1, FeedKept
  <1>8. ASSUME NEW r \in Readers, ReadNext(r) \/ BroadcastReport(r) PROVE FeedInv'
    <2>1. UNCHANGED <<live, attempts>> /\ (job' = job \/ job'.pc = "over")
      BY <1>8, BroadcastEffect DEF ReadNext, BroadcastReport, queue
    <2> QED
      BY <2>1, FeedKept
  <1>9. ASSUME NEW m \in Minutes, NEW run \in expiring[m], HincrbyReply(m, run)
        PROVE  FeedInv'
    BY <1>9, FeedKept DEF HincrbyReply, queue
  <1>10. CASE Tick
    BY <1>10, FeedKept, TickEffect
  <1>11. CASE Restart \/ UNCHANGED vars
    BY <1>11, FeedKept DEF Restart, vars, queue
  <1>12. ASSUME NEW again, RedisRestart(again) PROVE FeedInv'
    BY <1>12, FeedKept, LossEffect
  <1> QED
    BY <1>1, <1>2, <1>3, <1>4, <1>5, <1>6, <1>7, <1>8, <1>9, <1>10, <1>11, <1>12 DEF Next

-----------------------------------------------------------------------------
(* Time                                                                     *)

LEMMA TimelyInit == Init => Timely
  BY IdleTyped, UnreadTyped DEF Init, Timely

LEMMA TimelyStart ==
    ASSUME TypeOK, Timely, NEW e \in Events, StartJob(e)
    PROVE  Timely'
  <1>1. UNCHANGED <<now, expiring, reader>>
    BY DEF StartJob, clock
  <1>2. job'.pc # "idle" => now <= job'.minute + MaxLag
    BY StartEffect, NowTyped, Numbers
  <1> QED
    BY <1>1, <1>2 DEF Timely

LEMMA TimelyCount ==
    ASSUME TypeOK, Timely, NEW taken \in SUBSET Counters, Count(taken)
    PROVE  Timely'
  <1>1. UNCHANGED <<now, reader>> /\ job.pc = "count" /\ job'.minute = job.minute
    BY CountEffect DEF Count, clock
  <1>2. /\ \A m \in Minutes : m # job.minute => expiring'[m] = expiring[m]
        /\ job.minute <= now
    BY CountEffect
  <1>3. now <= job.minute + MaxLag
    BY <1>1 DEF Timely
  <1>4. \A m \in Minutes : expiring'[m] # {} => m <= now /\ now <= m + MaxLag
    BY <1>2, <1>3 DEF Timely
  <1> QED
    BY <1>1, <1>3, <1>4 DEF Timely

LEMMA TimelyBegin ==
    ASSUME TypeOK, Timely, NEW r \in Readers, BeginReport(r)
    PROVE  Timely'
  <1>1. UNCHANGED <<now, expiring>>
    BY DEF BeginReport, clock
  <1>2. job'.pc # "idle" => now <= job'.minute + MaxLag
    BY BeginEffect DEF Timely
  <1>3. \A q \in Readers : reader'[q].pc = "reading" =>
           reader'[q].start <= now /\ now <= reader'[q].start + MaxLag
    <2> TAKE q \in Readers
    <2>1. CASE q = r
      BY <2>1, BeginEffect, UnreadTyped, NowTyped, Numbers
    <2>2. CASE q # r
      BY <2>2, BeginEffect DEF Timely
    <2> QED
      BY <2>1, <2>2
  <1> QED
    BY <1>1, <1>2, <1>3 DEF Timely

LEMMA TimelyRead ==
    ASSUME TypeOK, Timely, NEW r \in Readers, ReadNext(r) \/ BroadcastReport(r)
    PROVE  Timely'
  <1>1. UNCHANGED <<now, expiring>>
    BY DEF ReadNext, BroadcastReport, clock
  <1>2. \A q \in Readers : reader'[q].pc = "reading" =>
           reader[q].pc = "reading" /\ reader'[q].start = reader[q].start
    <2> TAKE q \in Readers
    <2>1. CASE ReadNext(r)
      BY <2>1, ReadEffect
    <2>2. CASE BroadcastReport(r)
      BY <2>2, BroadcastEffect, UnreadTyped
    <2> QED
      BY <2>1, <2>2
  <1>3. job'.pc # "idle" => job.pc # "idle" /\ job'.minute = job.minute
    <2>1. CASE ReadNext(r)
      BY <2>1 DEF ReadNext
    <2>2. CASE BroadcastReport(r)
      BY <2>2, BroadcastEffect
    <2> QED
      BY <2>1, <2>2
  <1> QED
    BY <1>1, <1>2, <1>3 DEF Timely

LEMMA TimelyTick ==
    ASSUME TypeOK, Timely, Tick
    PROVE  Timely'
  <1>1. now' = now + 1 /\ now \in Nat /\ UNCHANGED <<job, expiring, reader>>
    BY TickEffect, NowTyped
  <1>2. InTime
    BY DEF Tick
  <1>3. MaxLag \in Nat /\ job.minute \in Nat
    BY JobFields, Numbers DEF TypeOK
  <1>4. \A r \in Readers : reader[r].start \in Nat
    BY ReaderFields, Numbers DEF TypeOK
  <1>5. job.pc # "idle" => now + 1 <= job.minute + MaxLag
    BY <1>1, <1>2, <1>3 DEF InTime
  <1>6. ASSUME NEW m \in Minutes, expiring[m] # {}
        PROVE  m <= now + 1 /\ now + 1 <= m + MaxLag
    <2>1. m \in Nat
      BY MinutesNat
    <2>2. m <= now
      BY <1>6 DEF Timely
    <2>3. now < m + MaxLag
      BY <1>2, <1>6 DEF InTime
    <2> QED
      BY <1>1, <1>3, <2>1, <2>2, <2>3
  <1>7. \A r \in Readers : reader[r].pc = "reading" =>
           reader[r].start <= now + 1 /\ now + 1 <= reader[r].start + MaxLag
    BY <1>1, <1>2, <1>3, <1>4 DEF InTime, Timely
  <1> QED
    BY <1>1, <1>5, <1>6, <1>7 DEF Timely

LEMMA TimelyNext ==
    ASSUME TypeOK, Timely, [Next]_vars
    PROVE  Timely'
  <1>1. ASSUME NEW e \in Events, QueueEvent(e) PROVE Timely'
    BY <1>1 DEF Timely, QueueEvent, clock
  <1>2. ASSUME NEW e \in Events, StartJob(e) PROVE Timely'
    BY <1>2, TimelyStart
  <1>3. ASSUME NEW taken \in SUBSET Counters, Count(taken) PROVE Timely'
    BY <1>3, TimelyCount
  <1>4. CASE Exit
    BY <1>4, ExitEffect, IdleTyped, UnreadTyped DEF Timely
  <1>5. CASE UpdateLastActivityTime \/ StampRefused \/ Counted \/ JobOver
    <2>1. UNCHANGED <<now, expiring, reader>> /\ job.pc # "idle"
      BY <1>5 DEF UpdateLastActivityTime, StampRefused, Counted, JobOver, clock
    <2>2. job'.pc # "idle" => job'.minute = job.minute
      BY <1>5, GoesTyped, IdleTyped
      DEF UpdateLastActivityTime, StampRefused, Counted, JobOver, TypeOK, Pcs
    <2> QED
      BY <2>1, <2>2 DEF Timely
  <1>6. ASSUME NEW r \in Readers, BeginReport(r) PROVE Timely'
    BY <1>6, TimelyBegin
  <1>7. ASSUME NEW r \in Readers, ReadNext(r) \/ BroadcastReport(r) PROVE Timely'
    BY <1>7, TimelyRead
  <1>8. ASSUME NEW m \in Minutes, NEW run \in expiring[m], HincrbyReply(m, run) PROVE Timely'
    <2>1. UNCHANGED <<now, job, reader>>
      BY <1>8 DEF HincrbyReply, clock
    <2>2. \A n \in Minutes : expiring'[n] # {} => expiring[n] # {}
      BY <1>8, ReplyEffect
    <2> QED
      BY <2>1, <2>2 DEF Timely
  <1>9. CASE Tick
    BY <1>9, TimelyTick
  <1>10. CASE Restart \/ UNCHANGED vars
    BY <1>10 DEF Timely, Restart, vars
  <1>11. ASSUME NEW again, RedisRestart(again) PROVE Timely'
    BY <1>11, LossEffect DEF Timely
  <1> QED
    BY <1>1, <1>2, <1>3, <1>4, <1>5, <1>6, <1>7, <1>8, <1>9, <1>10, <1>11 DEF Next

-----------------------------------------------------------------------------
(* Buckets and their times to live                                          *)

LEMMA BucketsInit == Init => BucketsWhole /\ ExpireComes
  BY EmptyTyped DEF Init, BucketsWhole, ExpireComes

LEMMA BucketOf ==
    ASSUME TypeOK, NEW m \in Minutes
    PROVE  /\ volume[m].runs \in SUBSET Run /\ volume[m].dies \in Nat
           /\ types[m].runs \in SUBSET Run /\ types[m].dies \in Nat
           /\ volume[m] \in Bucket /\ types[m] \in Bucket
           /\ counted[m] \in SUBSET Run
           /\ m + BucketTTL \in Nat \ {0} /\ m \in Nat \ {0}
  <1>1. volume[m] \in Bucket /\ types[m] \in Bucket /\ counted[m] \in SUBSET Run
    BY DEF TypeOK
  <1> QED
    BY <1>1, MinutesNat, Numbers DEF Bucket

\* The bucket of minute m, in a state given by its parts.
WholeAt(m, total, kind, known, uneven, gone, time) ==
    /\ total.runs \subseteq known /\ kind.runs \ uneven \subseteq known
    /\ total.runs # {} => total.dies >= m + BucketTTL
    /\ kind.dies = 0 \/ kind.dies >= m + BucketTTL
    /\ time < m + BucketTTL =>
          known \ gone \subseteq total.runs /\ known \ uneven \subseteq kind.runs

LEMMA BucketsAt ==
    /\ BucketsWhole <=> \A m \in Minutes :
          WholeAt(m, volume[m], types[m], counted[m], Uneven, erased, now)
    /\ BucketsWhole' <=> \A m \in Minutes :
          WholeAt(m, volume'[m], types'[m], counted'[m], Uneven', erased', now')
  BY DEF BucketsWhole, WholeAt

\* More runs may be uneven.
LEMMA WholeWeaker ==
    ASSUME NEW m, NEW total, NEW kind, NEW known, NEW some, NEW more, NEW gone, NEW time,
           some \subseteq more, WholeAt(m, total, kind, known, some, gone, time)
    PROVE  WholeAt(m, total, kind, known, more, gone, time)
  BY DEF WholeAt

LEMMA BucketsKept ==
    ASSUME BucketsWhole, UNCHANGED <<now, volume, types, counted, erased>>,
           refused \subseteq refused'
    PROVE  BucketsWhole'
  <1>1. Uneven \subseteq Uneven'
    BY DEF Uneven
  <1> QED
    BY <1>1, BucketsAt, WholeWeaker

LEMMA BucketsCount ==
    ASSUME TypeOK, BucketsWhole, NEW taken \in SUBSET Counters, Count(taken)
    PROVE  BucketsWhole'
  <1> DEFINE k == job.minute
  <1>1. UNCHANGED <<now, erased>> /\ k \in Minutes /\ k <= now /\ now \in Nat
    BY CountEffect, NowTyped DEF Count, clock
  <1>2. refused \subseteq refused' /\ Uneven \subseteq Uneven' /\ refused' \subseteq Uneven'
    BY <1>1, CountEffect DEF Uneven
  <1> DEFINE Adds(c) == IF c \in taken THEN {ThisRun} ELSE {}
             one == Adds("volume")
             three == Adds("types")
  <1>3. /\ counted'[k] = counted[k] \cup one
        /\ volume'[k].runs = volume[k].runs \cup one
        /\ types'[k].runs = types[k].runs \cup three
        /\ types'[k].dies = types[k].dies
        /\ volume'[k].runs # {} => volume'[k].dies = now + BucketTTL
    BY CountedHere
  <1>4. one \ Uneven' = three \ Uneven'
    <2>1. \/ ThisRun \in refused'
          \/ "volume" \in taken /\ "types" \in taken
      BY CountedHere
    <2>2. CASE ThisRun \in refused'
      BY <1>2, <2>2
    <2>3. CASE "volume" \in taken /\ "types" \in taken
      BY <2>3
    <2> QED
      BY <2>1, <2>2, <2>3
  <1>5. now + BucketTTL >= k + BucketTTL
    BY <1>1, Numbers, MinutesNat
  <1>6. ASSUME NEW m \in Minutes, m # k
        PROVE  WholeAt(m, volume'[m], types'[m], counted'[m], Uneven', erased', now')
    <2>1. volume'[m] = volume[m] /\ types'[m] = types[m] /\ counted'[m] = counted[m]
      BY <1>6, CountEffect
    <2> HIDE DEF k
    <2> QED
      BY <1>1, <1>2, <2>1, BucketsAt, WholeWeaker
  <1> HIDE DEF k, one, three
  <1>7. WholeAt(k, volume'[k], types'[k], counted'[k], Uneven', erased', now')
    <2>1. WholeAt(k, volume[k], types[k], counted[k], Uneven', erased', now')
      BY <1>1, <1>2, BucketsAt, WholeWeaker
    <2>2. volume'[k].runs \subseteq counted'[k] /\ types'[k].runs \ Uneven' \subseteq counted'[k]
      BY <1>3, <1>4, <2>1 DEF WholeAt
    <2>3. volume'[k].runs # {} => volume'[k].dies >= k + BucketTTL
      BY <1>3, <1>5
    <2>4. types'[k].dies = 0 \/ types'[k].dies >= k + BucketTTL
      BY <1>3, <2>1 DEF WholeAt
    <2>5. now' < k + BucketTTL =>
             /\ counted'[k] \ erased' \subseteq volume'[k].runs
             /\ counted'[k] \ Uneven' \subseteq types'[k].runs
      BY <1>3, <1>4, <2>1 DEF WholeAt
    <2> QED
      BY <2>2, <2>3, <2>4, <2>5 DEF WholeAt
  <1> QED
    BY <1>6, <1>7, BucketsAt

LEMMA BucketsReply ==
    ASSUME TypeOK, Timely, BucketsWhole,
           NEW m \in Minutes, NEW run \in expiring[m], HincrbyReply(m, run)
    PROVE  BucketsWhole'
  <1>1. UNCHANGED <<now, volume, counted, refused, erased>> /\ m <= now
    BY DEF HincrbyReply, clock, history, Timely
  <1>2. /\ \A n \in Minutes : n # m => types'[n] = types[n]
        /\ types'[m].runs = types[m].runs
        /\ types'[m].dies = now + BucketTTL \/ types'[m].dies = types[m].dies
    BY ReplyEffect
  <1>3. now + BucketTTL >= m + BucketTTL
    BY <1>1, NowTyped, Numbers, MinutesNat
  <1>4. \A n \in Minutes :
           /\ types'[n].runs = types[n].runs
           /\ types'[n].dies = 0 \/ types'[n].dies >= n + BucketTTL
    BY <1>2, <1>3 DEF BucketsWhole
  <1>5. Uneven' = Uneven
    BY <1>1 DEF Uneven
  <1> QED
    BY <1>1, <1>4, <1>5 DEF BucketsWhole

LEMMA BucketsTick ==
    ASSUME TypeOK, BucketsWhole, Tick
    PROVE  BucketsWhole'
  <1>1. /\ now' = now + 1 /\ now \in Nat /\ now' \in Nat
        /\ UNCHANGED <<counted, refused, erased>>
    BY TickEffect, NowTyped
  <1>0. Uneven' = Uneven
    BY <1>1 DEF Uneven
  <1>2. ASSUME NEW m \in Minutes
        PROVE  /\ volume'[m].runs \subseteq counted[m]
               /\ types'[m].runs \ Uneven \subseteq counted[m]
               /\ volume'[m].runs # {} => volume'[m].dies >= m + BucketTTL
               /\ types'[m].dies = 0 \/ types'[m].dies >= m + BucketTTL
               /\ now' < m + BucketTTL =>
                     /\ counted[m] \ erased \subseteq volume'[m].runs
                     /\ counted[m] \ Uneven \subseteq types'[m].runs
    <2>1. /\ volume[m].runs \subseteq counted[m] /\ types[m].runs \ Uneven \subseteq counted[m]
          /\ volume[m].runs # {} => volume[m].dies >= m + BucketTTL
          /\ types[m].dies = 0 \/ types[m].dies >= m + BucketTTL
          /\ now < m + BucketTTL =>
                /\ counted[m] \ erased \subseteq volume[m].runs
                /\ counted[m] \ Uneven \subseteq types[m].runs
      BY DEF BucketsWhole
    <2>2. /\ volume'[m] = Aged(volume[m], now') /\ types'[m] = Aged(types[m], now')
          /\ volume[m] \in Bucket /\ types[m] \in Bucket
      BY TickEffect, BucketOf
    <2>3. /\ volume'[m] = Empty \/ volume'[m] = volume[m]
          /\ types'[m] = Empty \/ types'[m] = types[m]
          /\ types[m].dies = 0 \/ types[m].dies > now' => types'[m] = types[m]
          /\ volume[m].dies > now' => volume'[m] = volume[m]
      BY <1>1, <2>2, AgedTyped
    <2>4. /\ Empty.runs = {} /\ Empty.dies = 0
      BY EmptyTyped
    <2>5. /\ volume'[m].runs \subseteq counted[m] /\ types'[m].runs \ Uneven \subseteq counted[m]
          /\ volume'[m].runs # {} => volume'[m].dies >= m + BucketTTL
          /\ types'[m].dies = 0 \/ types'[m].dies >= m + BucketTTL
      BY <2>1, <2>3, <2>4
    <2>6. ASSUME now' < m + BucketTTL
          PROVE  /\ counted[m] \ erased \subseteq volume'[m].runs
                 /\ counted[m] \ Uneven \subseteq types'[m].runs
      <3>1. now < m + BucketTTL
        BY <1>1, <2>6, BucketOf
      <3>2. types'[m] = types[m]
        BY <1>1, <2>1, <2>3, <2>6, BucketOf
      <3>3. volume[m].runs # {} => volume'[m] = volume[m]
        BY <1>1, <2>1, <2>3, <2>6, BucketOf
      <3> QED
        BY <2>1, <3>1, <3>2, <3>3
    <2> QED
      BY <2>5, <2>6
  <1> QED
    BY <1>0, <1>1, <1>2 DEF BucketsWhole

\* What is still to be answered was counted or is uneven.
LEMMA BucketsLoss ==
    ASSUME TypeOK, ExpireComes, NEW again, RedisRestart(again)
    PROVE  BucketsWhole'
  <1>1. /\ UNCHANGED <<counted, refused>> /\ refused \subseteq erased'
        /\ \A m \in Minutes :
              /\ volume'[m].runs = {} /\ types'[m].runs \subseteq expiring[m]
              /\ types'[m].dies = 0 /\ counted[m] \subseteq erased'
    BY LossEffect
  <1>2. \A m \in Minutes : expiring[m] \subseteq counted[m] \cup refused
    BY DEF ExpireComes
  <1>3. erased' \subseteq Uneven'
    BY DEF Uneven
  <1> QED
    BY <1>1, <1>2, <1>3, BucketsAt DEF WholeAt

LEMMA BucketsNext ==
    ASSUME TypeOK, Timely, BucketsWhole, ExpireComes, [Next]_vars
    PROVE  BucketsWhole'
  <1>1. CASE \/ \E e \in Events : QueueEvent(e) \/ StartJob(e)
             \/ UpdateLastActivityTime \/ StampRefused \/ Counted \/ JobOver
             \/ \E r \in Readers : BeginReport(r) \/ ReadNext(r) \/ BroadcastReport(r)
             \/ Exit \/ Restart \/ UNCHANGED vars
    <2>1. UNCHANGED <<now, volume, types, counted, erased>> /\ refused \subseteq refused'
      BY <1>1 DEF QueueEvent, StartJob, UpdateLastActivityTime, StampRefused, Counted,
                  JobOver, BeginReport, ReadNext, BroadcastReport, Exit, Restart, vars,
                  clock, redis, history
    <2> QED
      BY <2>1, BucketsKept
  <1>2. ASSUME NEW taken \in SUBSET Counters, Count(taken) PROVE BucketsWhole'
    BY <1>2, BucketsCount
  <1>3. ASSUME NEW m \in Minutes, NEW run \in expiring[m], HincrbyReply(m, run)
        PROVE  BucketsWhole'
    BY <1>3, BucketsReply
  <1>4. CASE Tick
    BY <1>4, BucketsTick
  <1>5. ASSUME NEW again, RedisRestart(again) PROVE BucketsWhole'
    BY <1>5, BucketsLoss
  <1> QED
    BY <1>1, <1>2, <1>3, <1>4, <1>5 DEF Next

LEMMA HourMinute ==
    ASSUME NEW m \in Minutes
    PROVE  HourOf(m) \in Nat
  BY MinutesNat, Numbers DEF HourOf

\* What Count does to the bucket of its hour.
LEMMA HourStruck ==
    ASSUME TypeOK, NEW taken \in SUBSET Counters, Count(taken), NEW h \in Hours
    PROVE  /\ h # HourOf(job.minute) => hours'[h] = hours[h]
           /\ h = HourOf(job.minute) =>
                 /\ hours'[h].runs
                       = hours[h].runs \cup (IF "hours" \in taken THEN {ThisRun} ELSE {})
                 /\ hours'[h].runs # {} => hours'[h].dies = now + HourTTL
  <1> DEFINE b == hours[h]
             struck == Struck(b, "hours", taken, HourTTL)
  <1>1. hours'[h] = IF h = HourOf(job.minute) THEN struck ELSE b
    BY VolumeStruck
  <1>2. b \in Bucket /\ HourTTL \in Nat /\ now \in Nat \ {0} /\ ThisRun \in Run
    BY Numbers, NowTyped, ThisRunTyped DEF TypeOK
  <1> HIDE DEF b
  <1>3. /\ struck.runs = b.runs \cup (IF "hours" \in taken THEN {ThisRun} ELSE {})
        /\ struck.runs # {} => struck.dies = now + HourTTL
    BY <1>2, StruckTyped
  <1> HIDE DEF struck
  <1>4. CASE h = HourOf(job.minute)
    BY <1>1, <1>3, <1>4 DEF b
  <1>5. CASE h # HourOf(job.minute)
    BY <1>1, <1>5 DEF b
  <1> QED
    BY <1>4, <1>5

LEMMA ExpireCount ==
    ASSUME TypeOK, ExpireComes, NEW taken \in SUBSET Counters, Count(taken)
    PROVE  ExpireComes'
  <1> DEFINE k == job.minute
             three == IF "types" \in taken THEN {ThisRun} ELSE {}
  <1>1. UNCHANGED <<exits, erased>> /\ k \in Minutes /\ refused \subseteq refused'
    BY CountEffect DEF Count, clock
  <1>2. ASSUME NEW h \in Hours, hours'[h].runs # {}
        PROVE  hours'[h].dies # 0
    <2>1. h # HourOf(k) => hours'[h] = hours[h]
      BY HourStruck
    <2>2. h = HourOf(k) => hours'[h].dies = now + HourTTL
      BY <1>2, HourStruck
    <2>3. now + HourTTL # 0
      BY NowTyped, Numbers
    <2> QED
      BY <1>2, <2>1, <2>2, <2>3 DEF ExpireComes
  <1>3. \A m \in Minutes : m # k =>
           types'[m] = types[m] /\ expiring'[m] = expiring[m] /\ counted'[m] = counted[m]
    BY CountEffect
  <1>4. /\ types'[k].runs = types[k].runs \cup three /\ types'[k].dies = types[k].dies
        /\ expiring'[k] = expiring[k] \cup three
        /\ counted[k] \subseteq counted'[k]
        /\ three \subseteq counted'[k] \cup refused'
    <2>1. /\ types'[k].runs = types[k].runs \cup three /\ types'[k].dies = types[k].dies
          /\ expiring'[k] = expiring[k] \cup three
      BY CountedHere
    <2>2. /\ counted'[k] = counted[k] \cup (IF "volume" \in taken THEN {ThisRun} ELSE {})
          /\ ThisRun \in refused' \/ "volume" \in taken
      BY CountedHere
    <2>3. ThisRun \in counted'[k] \cup refused'
      BY <2>2
    <2> QED
      BY <2>1, <2>2, <2>3
  <1> HIDE DEF k, three
  <1>5. ASSUME NEW m \in Minutes
        PROVE  /\ expiring'[m] \ erased \subseteq types'[m].runs
               /\ expiring'[m] \subseteq counted'[m] \cup refused'
               /\ exits = 0 /\ types'[m].runs # {} /\ types'[m].dies = 0 => expiring'[m] # {}
    <2>1. /\ expiring[m] \ erased \subseteq types[m].runs
          /\ expiring[m] \subseteq counted[m] \cup refused
          /\ exits = 0 /\ types[m].runs # {} /\ types[m].dies = 0 => expiring[m] # {}
      BY DEF ExpireComes
    <2>2. CASE m # k
      BY <1>1, <1>3, <2>1, <2>2
    <2>3. CASE m = k
      <3>1. expiring'[k] \ erased \subseteq types'[k].runs
        BY <1>4, <2>1, <2>3
      <3>2. expiring'[k] \subseteq counted'[k] \cup refused'
        BY <1>1, <1>4, <2>1, <2>3
      <3>3. exits = 0 /\ types'[k].runs # {} /\ types'[k].dies = 0 => expiring'[k] # {}
        BY <1>4, <2>1, <2>3
      <3> QED
        BY <2>3, <3>1, <3>2, <3>3
    <2> QED
      BY <2>2, <2>3
  <1> QED
    BY <1>1, <1>2, <1>5 DEF ExpireComes

LEMMA ExpireReply ==
    ASSUME TypeOK, ExpireComes, NEW m \in Minutes, NEW run \in expiring[m],
           HincrbyReply(m, run)
    PROVE  ExpireComes'
  <1>1. UNCHANGED <<exits, hours, counted, refused, erased>>
    BY DEF HincrbyReply, clock, history
  <1>2. /\ expiring'[m] \subseteq expiring[m]
        /\ \A n \in Minutes : n # m => types'[n] = types[n] /\ expiring'[n] = expiring[n]
        /\ types'[m].runs = types[m].runs
        /\ types[m].runs # {} => types'[m].dies = now + BucketTTL
    BY ReplyEffect
  <1>3. now + BucketTTL # 0
    BY NowTyped, Numbers
  <1> QED
    BY <1>1, <1>2, <1>3 DEF ExpireComes

LEMMA ExpireTick ==
    ASSUME TypeOK, Timely, BucketsWhole, ExpireComes, Tick
    PROVE  ExpireComes'
  <1>1. /\ now' \in Nat /\ now' = now + 1
        /\ UNCHANGED <<exits, expiring, counted, refused, erased>>
    BY TickEffect
  <1>2. ASSUME NEW h \in Hours, hours'[h].runs # {}
        PROVE  hours'[h].dies # 0
    <2>1. hours[h] \in Bucket /\ hours'[h] = Aged(hours[h], now')
      BY TickEffect DEF TypeOK
    <2>2. hours'[h] = Empty \/ hours'[h] = hours[h]
      BY <1>1, <2>1, AgedTyped
    <2> QED
      BY <1>2, <2>2, EmptyTyped DEF ExpireComes
  <1>3. ASSUME NEW m \in Minutes
        PROVE  /\ types'[m] = Empty \/ types'[m] = types[m]
               /\ types[m].dies = 0 \/ types[m].dies > now' => types'[m] = types[m]
    BY <1>1, TickEffect, BucketOf, AgedTyped
  <1>4. ASSUME exits = 0, NEW m \in Minutes, types'[m].runs # {}, types'[m].dies = 0
        PROVE  expiring[m] # {}
    BY <1>3, <1>4, EmptyTyped DEF ExpireComes
  <1>5. ASSUME NEW m \in Minutes, expiring[m] # {}
        PROVE  types'[m] = types[m]
    <2>1. m \in Nat
      BY MinutesNat
    <2>2. now < m + MaxLag
      BY <1>5 DEF Tick, InTime
    <2>3. now + 1 < m + BucketTTL
      BY <2>1, <2>2, NowTyped, Numbers
    <2>4. types[m].dies = 0 \/ types[m].dies > now'
      <3>1. types[m].dies = 0 \/ types[m].dies >= m + BucketTTL
        BY DEF BucketsWhole
      <3> QED
        BY <1>1, <2>1, <2>3, <3>1, BucketOf, NowTyped
    <2> QED
      BY <1>3, <2>4
  <1> QED
    BY <1>1, <1>2, <1>4, <1>5 DEF ExpireComes

LEMMA ExpireLoss ==
    ASSUME TypeOK, ExpireComes, NEW again, RedisRestart(again)
    PROVE  ExpireComes'
  <1>1. /\ UNCHANGED <<exits, expiring, counted, refused>> /\ refused \subseteq erased'
        /\ \A h \in Hours : hours'[h].runs = {}
        /\ \A m \in Minutes :
              types'[m].runs \subseteq expiring[m] /\ counted[m] \subseteq erased'
    BY LossEffect
  <1>2. \A m \in Minutes : expiring[m] \subseteq counted[m] \cup refused
    BY DEF ExpireComes
  <1>3. \A m \in Minutes : expiring[m] \ erased' = {}
    BY <1>1, <1>2
  <1> QED
    BY <1>1, <1>2, <1>3 DEF ExpireComes

LEMMA ExpireNext ==
    ASSUME TypeOK, Timely, BucketsWhole, ExpireComes, [Next]_vars
    PROVE  ExpireComes'
  <1>1. CASE \/ \E e \in Events : QueueEvent(e) \/ StartJob(e)
             \/ UpdateLastActivityTime \/ StampRefused \/ Counted \/ JobOver
             \/ \E r \in Readers : BeginReport(r) \/ ReadNext(r) \/ BroadcastReport(r)
             \/ Restart \/ UNCHANGED vars
    <2>1. /\ UNCHANGED <<types, hours, expiring, exits, counted, erased>>
          /\ refused \subseteq refused'
      BY <1>1 DEF QueueEvent, StartJob, UpdateLastActivityTime, StampRefused, Counted,
                  JobOver, BeginReport, ReadNext, BroadcastReport, Restart, vars, clock,
                  redis, history
    <2> QED
      BY <2>1 DEF ExpireComes
  <1>2. ASSUME NEW taken \in SUBSET Counters, Count(taken) PROVE ExpireComes'
    BY <1>2, ExpireCount
  <1>3. ASSUME NEW m \in Minutes, NEW run \in expiring[m], HincrbyReply(m, run)
        PROVE  ExpireComes'
    BY <1>3, ExpireReply
  <1>4. CASE Tick
    BY <1>4, ExpireTick
  <1>5. CASE Exit
    <2>1. /\ UNCHANGED <<types, hours, counted, refused, erased>>
          /\ \A m \in Minutes : expiring'[m] = {}
          /\ exits' = exits + 1
      BY <1>5, ExitEffect
    <2>2. exits' # 0
      BY <2>1 DEF TypeOK
    <2> QED
      BY <2>1, <2>2 DEF ExpireComes
  <1>6. ASSUME NEW again, RedisRestart(again) PROVE ExpireComes'
    BY <1>6, ExpireLoss
  <1> QED
    BY <1>1, <1>2, <1>3, <1>4, <1>5, <1>6 DEF Next

-----------------------------------------------------------------------------
(* Reports                                                                  *)

\* Nothing that was counted, refused or lost is forgotten.
LEMMA CountedGrows ==
    ASSUME TypeOK, [Next]_vars
    PROVE  /\ \A m \in Minutes : counted[m] \subseteq counted'[m]
           /\ refused \subseteq refused' /\ erased \subseteq erased'
           /\ Uneven \subseteq Uneven'
  <1>1. ASSUME NEW taken \in SUBSET Counters, Count(taken)
        PROVE  /\ \A m \in Minutes : counted[m] \subseteq counted'[m]
               /\ refused \subseteq refused' /\ erased \subseteq erased'
    BY <1>1, CountEffect, CountedHere
  <1>2. CASE \/ \E e \in Events : QueueEvent(e) \/ StartJob(e)
             \/ UpdateLastActivityTime \/ StampRefused \/ Counted \/ JobOver
             \/ \E r \in Readers : BeginReport(r) \/ ReadNext(r) \/ BroadcastReport(r)
             \/ \E m \in Minutes : \E run \in expiring[m] : HincrbyReply(m, run)
             \/ Tick \/ Exit \/ Restart \/ UNCHANGED vars
    <2>1. UNCHANGED <<counted, erased>> /\ refused \subseteq refused'
      BY <1>2 DEF QueueEvent, StartJob, UpdateLastActivityTime, StampRefused, Counted, Tick,
                  JobOver, BeginReport, ReadNext, BroadcastReport, HincrbyReply, Exit,
                  Restart, vars, history
    <2> QED
      BY <2>1 DEF Uneven
  <1>3. ASSUME NEW again, RedisRestart(again)
        PROVE  /\ \A m \in Minutes : counted[m] \subseteq counted'[m]
               /\ refused \subseteq refused' /\ erased \subseteq erased'
    BY <1>3, LossEffect
  <1>4. /\ \A m \in Minutes : counted[m] \subseteq counted'[m]
        /\ refused \subseteq refused' /\ erased \subseteq erased'
    BY <1>1, <1>2, <1>3 DEF Next
  <1> QED
    BY <1>4 DEF Uneven

LEMMA RightGrows ==
    ASSUME NEW runs, NEW more, NEW some, NEW others, NEW lost, NEW gone, NEW q,
           \A m \in Minutes : runs[m] \subseteq more[m],
           some \subseteq others, lost \subseteq gone,
           Right(runs, some, lost, q)
    PROVE  Right(more, others, gone, q)
  <1>1. ASSUME NEW minutes \in SUBSET Minutes
        PROVE  Within(runs, minutes) \subseteq Within(more, minutes)
    BY DEF Within
  <1>2. ActiveWindow(q.start) \in SUBSET Minutes /\ Unreached(q) \in SUBSET Minutes
    BY DEF ActiveWindow, Unreached
  <1>3. /\ Within(runs, ActiveWindow(q.start)) \subseteq Within(more, ActiveWindow(q.start))
        /\ Within(runs, Unreached(q)) \subseteq Within(more, Unreached(q))
    BY <1>1, <1>2
  <1>4. q.typed \ others = q.active \ others
    BY DEF Right
  <1> QED
    BY <1>3, <1>4 DEF Right

LEMMA RightBegins ==
    ASSUME NEW runs, NEW some, NEW lost, NEW q, q.start \in Nat, q.next = 0, q.active = {},
           q.typed = {}, q.due = Within(runs, ActiveWindow(q.start))
    PROVE  Right(runs, some, lost, q)
  <1>1. Unreached(q) = ActiveWindow(q.start)
    BY MinutesNat DEF Unreached, ActiveWindow
  <1> QED
    BY <1>1 DEF Right

\* One read, of a bucket that is whole.
LEMMA RightReads ==
    ASSUME NEW runs, NEW some, NEW lost, NEW q, NEW q2, q.start \in Nat, q.next \in Nat,
           q2.start = q.start, q2.next = q.next + 1, q2.due = q.due,
           NEW read, NEW types2,
           q.next < Window =>
              /\ q2.active = q.active \cup read /\ q2.typed = q.typed \cup types2
              /\ q.start - q.next \in Minutes =>
                    /\ read \subseteq runs[q.start - q.next]
                    /\ runs[q.start - q.next] \ lost \subseteq read
                    /\ types2 \ some = read \ some
              /\ q.start - q.next \notin Minutes => read = {} /\ types2 = {},
           q.next >= Window => q2.active = q.active /\ q2.typed = q.typed,
           Right(runs, some, lost, q)
    PROVE  Right(runs, some, lost, q2)
  <1> DEFINE minute == q.start - q.next
             window == ActiveWindow(q.start)
  <1>0. /\ minute \in Int /\ Window \in Nat
        /\ \A m \in window : m \in Nat /\ m \in Minutes /\ m <= q.start /\ q.start < m + Window
    BY MinutesNat, Numbers DEF ActiveWindow
  <1>1. /\ q.active \subseteq Within(runs, window)
        /\ q.due \subseteq lost \cup q.active \cup Within(runs, Unreached(q))
        /\ q.typed \ some = q.active \ some
    BY DEF Right
  <1>2. ASSUME NEW m \in Unreached(q)
        PROVE  m \in Unreached(q2) \/ (m = minute /\ minute \in Minutes /\ q.next < Window)
    <2>1. m \in window /\ m \in Nat /\ m \in Minutes /\ m <= q.start - q.next
      BY <1>0 DEF Unreached
    <2>2. CASE m = minute
      <3>1. q.next < Window
        BY <1>0, <2>1, <2>2
      <3> QED
        BY <2>1, <2>2, <3>1
    <2>3. CASE m # minute
      <3>1. m <= q2.start - q2.next
        BY <1>0, <2>1, <2>3
      <3> QED
        BY <2>1, <3>1 DEF Unreached
    <2> QED
      BY <2>2, <2>3
  <1>3. q.next < Window /\ minute \in Minutes => minute \in window
    <2>1. minute \in Minutes => minute \in Nat
      BY MinutesNat
    <2> QED
      BY <1>0, <2>1 DEF ActiveWindow
  <1> DEFINE A == IF q.next < Window THEN read ELSE {}
             T == IF q.next < Window THEN types2 ELSE {}
  <1>4. /\ q2.active = q.active \cup A /\ q2.typed = q.typed \cup T
        /\ T \ some = A \ some
    BY <1>0
  <1>5. /\ q.next < Window /\ minute \in Minutes =>
              A \subseteq runs[minute] /\ runs[minute] \ lost \subseteq A
        /\ ~(q.next < Window /\ minute \in Minutes) => A = {}
    BY <1>0
  <1> HIDE DEF A, T, minute
  <1>6. A \subseteq Within(runs, window)
    BY <1>3, <1>5 DEF Within
  <1>7. Within(runs, Unreached(q)) \subseteq lost \cup A \cup Within(runs, Unreached(q2))
    <2> SUFFICES ASSUME NEW run \in Within(runs, Unreached(q)), run \notin lost,
                        run \notin Within(runs, Unreached(q2))
                 PROVE  run \in A
      OBVIOUS
    <2>1. PICK m \in Unreached(q) : run \in runs[m]
      BY DEF Within
    <2>2. m \notin Unreached(q2)
      BY <2>1 DEF Within
    <2> QED
      BY <1>2, <1>5, <2>1, <2>2
  <1>8. q2.typed \ some = q2.active \ some
    BY <1>1, <1>4
  <1> QED
    BY <1>1, <1>4, <1>6, <1>7, <1>8 DEF Right

LEMMA ReportsKept ==
    ASSUME TypeOK, ReportsRight, [Next]_vars,
           \A r \in Readers : reader'[r] = reader[r] \/ reader'[r] = Unread
    PROVE  ReportsRight'
  <1> SUFFICES ASSUME NEW r \in Readers, reader'[r].pc = "reading"
               PROVE  Right(counted', Uneven', erased', reader'[r])
    BY DEF ReportsRight
  <1>1. reader'[r] = reader[r]
    BY UnreadTyped
  <1>2. Right(counted, Uneven, erased, reader[r])
    BY <1>1 DEF ReportsRight
  <1>3. \A m \in Minutes : counted[m] \subseteq counted'[m]
    BY CountedGrows
  <1>4. Uneven \subseteq Uneven' /\ erased \subseteq erased'
    BY CountedGrows
  <1> QED
    BY <1>1, <1>2, <1>3, <1>4, RightGrows

LEMMA ReportsBegin ==
    ASSUME TypeOK, ReportsRight, NEW r \in Readers, BeginReport(r)
    PROVE  ReportsRight'
  <1>1. UNCHANGED <<counted, Uneven, erased>>
    BY DEF BeginReport, history, Uneven
  <1>2. ASSUME NEW q \in Readers, reader'[q].pc = "reading"
        PROVE  Right(counted, Uneven, erased, reader'[q])
    <2>1. CASE q # r
      BY <1>2, <2>1, BeginEffect DEF ReportsRight
    <2>2. CASE q = r
      <3> DEFINE fresh == reader'[r]
      <3>1. /\ fresh.start = now /\ fresh.next = 0
            /\ fresh.active = {} /\ fresh.typed = {}
            /\ fresh.due = CountedIn(ActiveWindow(now))
        BY <1>2, <2>2, BeginEffect, UnreadTyped
      <3>2. fresh.start \in Nat /\ fresh.due = Within(counted, ActiveWindow(fresh.start))
        BY <3>1, NowTyped DEF CountedIn, Within
      <3> HIDE DEF fresh
      <3>3. Right(counted, Uneven, erased, fresh)
        BY <3>1, <3>2, RightBegins
      <3> QED
        BY <2>2, <3>3 DEF fresh
    <2> QED
      BY <2>1, <2>2
  <1> QED
    BY <1>1, <1>2 DEF ReportsRight

LEMMA ReportsRead ==
    ASSUME TypeOK, Timely, BucketsWhole, ReportsRight, NEW r \in Readers, ReadNext(r)
    PROVE  ReportsRight'
  <1> DEFINE q == reader[r]
             q2 == reader'[r]
             minute == q.start - q.next
             read == At(volume, minute)
             types2 == At(types, minute)
  <1>1. UNCHANGED <<counted, Uneven, erased>>
    BY DEF ReadNext, history, Uneven
  <1>2. q.start \in Nat /\ q.next \in Nat /\ q.start <= now /\ now <= q.start + MaxLag
    <2>1. q \in ReaderStates /\ q.pc = "reading"
      BY DEF ReadNext, TypeOK
    <2>2. q.start <= now /\ now <= q.start + MaxLag
      BY <2>1 DEF Timely
    <2> QED
      BY <2>1, <2>2, ReaderFields, Numbers
  <1>3. /\ q2.start = q.start /\ q2.next = q.next + 1 /\ q2.due = q.due
        /\ q.next < Window => q2.active = q.active \cup read /\ q2.typed = q.typed \cup types2
        /\ q.next >= Window => q2.active = q.active /\ q2.typed = q.typed
    BY ReadEffect
  <1>4. Right(counted, Uneven, erased, q)
    BY DEF ReadNext, ReportsRight
  <1>5. ASSUME q.next < Window, minute \in Minutes
        PROVE  /\ read \subseteq counted[minute] /\ counted[minute] \ erased \subseteq read
               /\ types2 \ Uneven = read \ Uneven
    <2>1. now < minute + BucketTTL
      BY <1>2, <1>5, NowTyped, Numbers
    <2>2. read = volume[minute].runs /\ types2 = types[minute].runs
      BY <1>5, AtTyped DEF TypeOK
    <2>3. erased \subseteq Uneven
      BY DEF Uneven
    <2>4. /\ read \subseteq counted[minute] /\ types2 \ Uneven \subseteq counted[minute]
          /\ counted[minute] \ erased \subseteq read
          /\ counted[minute] \ Uneven \subseteq types2
      BY <1>5, <2>1, <2>2 DEF BucketsWhole
    <2> HIDE DEF read, types2, minute
    <2> QED
      BY <2>3, <2>4
  <1>6. minute \notin Minutes => read = {} /\ types2 = {}
    BY AtTyped DEF TypeOK
  <1> HIDE DEF q2, read, types2
  <1>7. Right(counted, Uneven, erased, q2)
    <2> HIDE DEF q
    <2>1. q.next < Window =>
              /\ q2.active = q.active \cup read /\ q2.typed = q.typed \cup types2
              /\ q.start - q.next \in Minutes =>
                    /\ read \subseteq counted[q.start - q.next]
                    /\ counted[q.start - q.next] \ erased \subseteq read
                    /\ types2 \ Uneven = read \ Uneven
              /\ q.start - q.next \notin Minutes => read = {} /\ types2 = {}
      BY <1>3, <1>5, <1>6
    <2> HIDE DEF minute
    <2> QED
      BY <1>2, <1>3, <1>4, <2>1, RightReads
  <1>8. ASSUME NEW other \in Readers, reader'[other].pc = "reading"
        PROVE  Right(counted, Uneven, erased, reader'[other])
    <2>1. CASE other = r
      BY <1>7, <2>1 DEF q2
    <2>2. CASE other # r
      BY <1>8, <2>2, ReadEffect DEF ReportsRight
    <2> QED
      BY <2>1, <2>2
  <1> QED
    BY <1>1, <1>8 DEF ReportsRight

LEMMA ReportsNext ==
    ASSUME TypeOK, Timely, BucketsWhole, ReportsRight, [Next]_vars
    PROVE  ReportsRight'
  <1>1. ASSUME NEW r \in Readers, BeginReport(r) PROVE ReportsRight'
    BY <1>1, ReportsBegin
  <1>2. ASSUME NEW r \in Readers, ReadNext(r) PROVE ReportsRight'
    BY <1>2, ReportsRead
  <1>3. ASSUME NEW r \in Readers, BroadcastReport(r) PROVE ReportsRight'
    <2>1. \A q \in Readers : reader'[q] = reader[q] \/ reader'[q] = Unread
      BY <1>3, BroadcastEffect
    <2> QED
      BY <2>1, ReportsKept
  <1>4. CASE Exit
    <2>1. \A q \in Readers : reader'[q] = reader[q] \/ reader'[q] = Unread
      BY <1>4, ExitEffect
    <2> QED
      BY <2>1, ReportsKept
  <1>5. CASE \/ \E e \in Events : QueueEvent(e) \/ StartJob(e)
             \/ UpdateLastActivityTime \/ StampRefused \/ Counted \/ JobOver
             \/ \E taken \in SUBSET Counters : Count(taken)
             \/ \E m \in Minutes : \E run \in expiring[m] : HincrbyReply(m, run)
             \/ \E again \in SUBSET Unanswered : RedisRestart(again)
             \/ Tick \/ Restart \/ UNCHANGED vars
    <2>1. UNCHANGED reader
      BY <1>5 DEF QueueEvent, StartJob, UpdateLastActivityTime, StampRefused, Counted, Count,
                  JobOver, HincrbyReply, RedisRestart, Tick, Restart, vars
    <2> QED
      BY <2>1, ReportsKept
  <1> QED
    BY <1>1, <1>2, <1>3, <1>4, <1>5 DEF Next

LEMMA ReportsInit == Init => ReportsRight
  BY UnreadTyped DEF Init, ReportsRight

-----------------------------------------------------------------------------
(* The chart of the hours                                                   *)

\* The hours of minutes less than HourLength apart are the same or follow on
\* each other.
LEMMA HourOrder ==
    ASSUME NEW m \in Nat, NEW n \in Nat
    PROVE  /\ HourOf(m) \in Nat
           /\ m <= n => HourOf(m) <= HourOf(n)
           /\ n < m + HourLength => HourOf(n) <= HourOf(m) + 1
  <1>1. HourLength \in Nat \ {0}
    BY Numbers
  <1>2. HourOf(m) \in Nat
    BY <1>1 DEF HourOf
  <1>3. m <= n => HourOf(m) <= HourOf(n)
    BY <1>1 DEF HourOf
  <1>4. n < m + HourLength => HourOf(n) <= HourOf(m) + 1
    BY <1>1 DEF HourOf
  <1> QED
    BY <1>2, <1>3, <1>4

LEMMA HourOfMinute ==
    ASSUME NEW m \in Minutes
    PROVE  HourOf(m) \in Hours
  <1>1. m \in Nat /\ m <= MaxMinute /\ MaxMinute \in Nat
    BY MinutesNat, Numbers
  <1> QED
    BY <1>1, HourOrder DEF Hours

LEMMA ChartInit == Init => ChartInv
  <1> SUFFICES ASSUME Init PROVE ChartInv
    OBVIOUS
  <1>1. \A h \in Hours : hours[h].runs = {}
    BY EmptyTyped DEF Init
  <1>2. \A m \in Minutes : counted[m] = {} /\ hours[HourOf(m)].runs = {}
    BY <1>1, HourOfMinute DEF Init
  <1>3. HoursWhole
    BY <1>1, <1>2 DEF HoursWhole
  <1>4. ChartsRight
    BY UnreadTyped DEF Init, ChartsRight
  <1> QED
    BY <1>3, <1>4 DEF ChartInv

LEMMA HoursCount ==
    ASSUME TypeOK, HoursWhole, NEW taken \in SUBSET Counters, Count(taken)
    PROVE  HoursWhole'
  <1> DEFINE k == job.minute
             one == IF "volume" \in taken THEN {ThisRun} ELSE {}
             two == IF "hours" \in taken THEN {ThisRun} ELSE {}
  <1>1. /\ UNCHANGED now /\ k \in Minutes /\ k <= now /\ now \in Nat
        /\ HourOf(k) \in Hours
    BY CountEffect, NowTyped, HourOfMinute DEF Count, clock
  <1>2. /\ counted'[k] = counted[k] \cup one
        /\ \A m \in Minutes : m # k => counted'[m] = counted[m]
    BY CountedHere, CountEffect
  <1>3. /\ two \ refused' \subseteq one /\ one \ Uneven' \subseteq two
        /\ refused \subseteq refused' /\ Uneven \subseteq Uneven'
    <2>1. \/ ThisRun \in refused'
          \/ "volume" \in taken /\ "hours" \in taken
      BY CountedHere
    <2>2. refused \subseteq refused' /\ Uneven \subseteq Uneven' /\ refused' \subseteq Uneven'
      BY CountEffect DEF Uneven
    <2>3. CASE ThisRun \in refused'
      BY <2>2, <2>3
    <2>4. CASE "volume" \in taken /\ "hours" \in taken
      BY <2>2, <2>4
    <2> QED
      BY <2>1, <2>3, <2>4
  <1>4. /\ \A h \in Hours : h # HourOf(k) => hours'[h] = hours[h]
        /\ hours'[HourOf(k)].runs = hours[HourOf(k)].runs \cup two
        /\ hours'[HourOf(k)].runs # {} => hours'[HourOf(k)].dies = now + HourLength
    BY <1>1, HourStruck, Numbers
  <1> HIDE DEF one, two, k
  <1>5. \A m \in Minutes : counted'[m] # {} => m <= now
    BY <1>1, <1>2 DEF HoursWhole
  <1>6. ASSUME NEW h \in Hours, NEW run \in hours'[h].runs \ refused'
        PROVE  \E m \in Minutes : HourOf(m) = h /\ run \in counted'[m]
    <2>1. run \in hours[h].runs \ refused \/ (h = HourOf(k) /\ run \in one)
      BY <1>3, <1>4
    <2>2. CASE run \in hours[h].runs \ refused
      BY <1>2, <2>2 DEF HoursWhole
    <2>3. CASE h = HourOf(k) /\ run \in one
      BY <1>1, <1>2, <2>3
    <2> QED
      BY <2>1, <2>2, <2>3
  <1>7. ASSUME NEW m \in Minutes
        PROVE  /\ hours'[HourOf(m)].runs # {} /\ counted'[m] # {} =>
                     hours'[HourOf(m)].dies >= m + HourLength
               /\ now < m + HourLength =>
                     counted'[m] \ Uneven' \subseteq hours'[HourOf(m)].runs
    <2>1. HourOf(m) \in Hours /\ m \in Nat
      BY HourOfMinute, MinutesNat
    <2>2. CASE HourOf(m) # HourOf(k)
      BY <1>2, <1>3, <1>4, <2>1, <2>2 DEF HoursWhole
    <2>3. CASE HourOf(m) = HourOf(k)
      <3>1. counted'[m] # {} => now + HourLength >= m + HourLength
        BY <1>1, <1>5, <2>1, Numbers
      <3>2. now < m + HourLength => counted[m] \ Uneven \subseteq hours[HourOf(k)].runs
        BY <2>3 DEF HoursWhole
      <3>3. counted'[m] \subseteq counted[m] \cup one
        BY <1>2
      <3> QED
        BY <1>3, <1>4, <2>3, <3>1, <3>2, <3>3
    <2> QED
      BY <2>2, <2>3
  <1> QED
    BY <1>1, <1>5, <1>6, <1>7 DEF HoursWhole

LEMMA HoursTick ==
    ASSUME TypeOK, HoursWhole, Tick
    PROVE  HoursWhole'
  <1>1. /\ now' = now + 1 /\ now \in Nat /\ now' \in Nat
        /\ UNCHANGED <<counted, refused, Uneven>>
    BY TickEffect, NowTyped DEF Uneven
  <1>2. ASSUME NEW h \in Hours
        PROVE  /\ hours'[h] = Empty \/ hours'[h] = hours[h]
               /\ hours[h].dies > now' => hours'[h] = hours[h]
               /\ hours[h].dies \in Nat
    <2>1. hours[h] \in Bucket /\ hours'[h] = Aged(hours[h], now')
      BY TickEffect DEF TypeOK
    <2>2. hours[h].dies \in Nat
      BY <2>1 DEF Bucket
    <2> QED
      BY <1>1, <2>1, <2>2, AgedTyped
  <1>3. ASSUME NEW m \in Minutes
        PROVE  /\ counted[m] # {} => m <= now'
               /\ hours'[HourOf(m)].runs # {} /\ counted[m] # {} =>
                     hours'[HourOf(m)].dies >= m + HourLength
               /\ now' < m + HourLength =>
                     counted[m] \ Uneven \subseteq hours'[HourOf(m)].runs
    <2>1. HourOf(m) \in Hours /\ m \in Nat /\ HourLength \in Nat
      BY HourOfMinute, MinutesNat, Numbers
    <2>2. counted[m] # {} => m <= now'
      BY <1>1, <2>1 DEF HoursWhole
    <2>3. hours'[HourOf(m)].runs # {} /\ counted[m] # {} =>
                     hours'[HourOf(m)].dies >= m + HourLength
      BY <1>2, <2>1, EmptyTyped DEF HoursWhole
    <2>4. ASSUME now' < m + HourLength
          PROVE  counted[m] \ Uneven \subseteq hours'[HourOf(m)].runs
      <3>1. now < m + HourLength
        BY <1>1, <2>1, <2>4
      <3>2. counted[m] \ Uneven \subseteq hours[HourOf(m)].runs
        BY <3>1 DEF HoursWhole
      <3>3. CASE counted[m] \ Uneven = {}
        BY <3>3
      <3>4. CASE counted[m] \ Uneven # {}
        <4>1. hours[HourOf(m)].dies >= m + HourLength
          BY <3>2, <3>4 DEF HoursWhole
        <4>2. hours[HourOf(m)].dies > now'
          BY <1>1, <1>2, <2>1, <2>4, <4>1
        <4> QED
          BY <1>2, <2>1, <3>2, <4>2
      <3> QED
        BY <3>3, <3>4
    <2> QED
      BY <2>2, <2>3, <2>4
  <1>4. ASSUME NEW h \in Hours, NEW run \in hours'[h].runs \ refused
        PROVE  \E m \in Minutes : HourOf(m) = h /\ run \in counted[m]
    BY <1>2, <1>4, EmptyTyped DEF HoursWhole
  <1> QED
    BY <1>1, <1>3, <1>4 DEF HoursWhole

LEMMA HoursLoss ==
    ASSUME TypeOK, HoursWhole, NEW again, RedisRestart(again)
    PROVE  HoursWhole'
  <1>1. /\ UNCHANGED <<now, counted, refused>>
        /\ \A h \in Hours : hours'[h].runs = {}
        /\ \A m \in Minutes : counted[m] \subseteq erased'
    BY LossEffect
  <1>2. \A m \in Minutes : hours'[HourOf(m)].runs = {}
    BY <1>1, HourOfMinute
  <1>3. erased' \subseteq Uneven'
    BY DEF Uneven
  <1>4. \A m \in Minutes : counted'[m] \ Uneven' = {}
    BY <1>1, <1>3
  <1>5. \A m \in Minutes : counted'[m] # {} => m <= now'
    BY <1>1 DEF HoursWhole
  <1> QED
    BY <1>1, <1>2, <1>4, <1>5 DEF HoursWhole

LEMMA HoursNext ==
    ASSUME TypeOK, HoursWhole, [Next]_vars
    PROVE  HoursWhole'
  <1>1. CASE \/ \E e \in Events : QueueEvent(e) \/ StartJob(e)
             \/ UpdateLastActivityTime \/ StampRefused \/ Counted \/ JobOver
             \/ \E m \in Minutes : \E run \in expiring[m] : HincrbyReply(m, run)
             \/ \E r \in Readers : BeginReport(r) \/ ReadNext(r) \/ BroadcastReport(r)
             \/ Exit \/ Restart \/ UNCHANGED vars
    <2>1. UNCHANGED <<now, hours, counted, erased>> /\ refused \subseteq refused'
      BY <1>1 DEF QueueEvent, StartJob, UpdateLastActivityTime, StampRefused, Counted,
                  JobOver, HincrbyReply, BeginReport, ReadNext, BroadcastReport, Exit,
                  Restart, vars, clock, redis, history
    <2>2. Uneven \subseteq Uneven'
      BY <2>1 DEF Uneven
    <2> QED
      BY <2>1, <2>2 DEF HoursWhole
  <1>2. ASSUME NEW taken \in SUBSET Counters, Count(taken) PROVE HoursWhole'
    BY <1>2, HoursCount
  <1>3. CASE Tick
    BY <1>3, HoursTick
  <1>4. ASSUME NEW again, RedisRestart(again) PROVE HoursWhole'
    BY <1>4, HoursLoss
  <1> QED
    BY <1>1, <1>2, <1>3, <1>4 DEF Next

LEMMA ChartGrows ==
    ASSUME NEW runs, NEW more, NEW some, NEW others, NEW lost, NEW gone, NEW q,
           \A m \in Minutes : runs[m] \subseteq more[m],
           some \subseteq others, lost \subseteq gone,
           ChartRight(runs, some, lost, q)
    PROVE  ChartRight(more, others, gone, q)
  <1>1. \A m \in UnreachedHours(q) : runs[m] \subseteq more[m]
    BY DEF UnreachedHours, RecentHour
  <1>2. \A m \in HoursOfChart(q.chart) : runs[m] \subseteq more[m]
    BY DEF HoursOfChart
  <1> QED
    BY <1>1, <1>2 DEF ChartRight

LEMMA ChartsKept ==
    ASSUME TypeOK, ChartsRight, [Next]_vars,
           \A r \in Readers : reader'[r] = reader[r] \/ reader'[r] = Unread
    PROVE  ChartsRight'
  <1> SUFFICES ASSUME NEW r \in Readers, reader'[r].pc = "reading"
               PROVE  ChartRight(counted', refused', Uneven', reader'[r])
    BY DEF ChartsRight
  <1>1. reader'[r] = reader[r]
    BY UnreadTyped
  <1>2. ChartRight(counted, refused, Uneven, reader[r])
    BY <1>1 DEF ChartsRight
  <1>3. \A m \in Minutes : counted[m] \subseteq counted'[m]
    BY CountedGrows
  <1>4. refused \subseteq refused' /\ Uneven \subseteq Uneven'
    BY CountedGrows
  <1> QED
    BY <1>1, <1>2, <1>3, <1>4, ChartGrows

LEMMA ChartsBegin ==
    ASSUME TypeOK, ChartsRight, NEW r \in Readers, BeginReport(r)
    PROVE  ChartsRight'
  <1>1. UNCHANGED <<counted, refused, Uneven>>
    BY DEF BeginReport, history, Uneven
  <1>2. ASSUME NEW q \in Readers, reader'[q].pc = "reading"
        PROVE  ChartRight(counted, refused, Uneven, reader'[q])
    <2>1. CASE q # r
      BY <1>2, <2>1, BeginEffect DEF ChartsRight
    <2>2. CASE q = r
      <3> DEFINE fresh == reader'[r]
      <3>1. /\ fresh.start = now /\ fresh.next = 0 /\ fresh.hourly = {}
            /\ fresh.dueHourly = CountedIn(RecentHour(now))
        BY <1>2, <2>2, BeginEffect, UnreadTyped
      <3> HIDE DEF fresh
      <3>2. fresh.next <= 2 * Window /\ ~(fresh.next > 2 * Window)
        BY <3>1, Numbers
      <3>3. UnreachedHours(fresh) = RecentHour(now)
        BY <3>1, <3>2 DEF UnreachedHours
      <3>4. ChartRight(counted, refused, Uneven, fresh)
        BY <3>1, <3>2, <3>3 DEF ChartRight, CountedIn
      <3> QED
        BY <2>2, <3>4 DEF fresh
    <2> QED
      BY <2>1, <2>2
  <1> QED
    BY <1>1, <1>2 DEF ChartsRight

LEMMA ChartsRead ==
    ASSUME TypeOK, Timely, HoursWhole, ChartsRight, NEW r \in Readers, ReadNext(r)
    PROVE  ChartsRight'
  <1> DEFINE q == reader[r]
             q2 == reader'[r]
             n == q.next
             hour == HourRead(q)
             read == At(hours, hour)
  <1>1. UNCHANGED <<counted, refused, Uneven>>
    BY DEF ReadNext, history, Uneven
  <1>2. /\ q.start \in Nat /\ n \in Nat /\ n < Reads /\ q.chart \in Nat
        /\ q.start <= now /\ now <= q.start + MaxLag /\ now \in Nat
    <2>1. q \in ReaderStates /\ q.pc = "reading" /\ n < Reads
      BY DEF ReadNext, TypeOK
    <2>2. q.start <= now /\ now <= q.start + MaxLag
      BY <2>1 DEF Timely
    <2> QED
      BY <2>1, <2>2, ReaderFields, Numbers, NowTyped
  <1>3. /\ q2.start = q.start /\ q2.next = n + 1 /\ q2.dueHourly = q.dueHourly
        /\ q2.chart = ChartTime(q)
        /\ n < 2 * Window => q2.hourly = q.hourly
        /\ n >= 2 * Window => q2.hourly = q.hourly \cup read
    BY ReadEffect
  <1>4. ChartRight(counted, refused, Uneven, q)
    BY DEF ReadNext, ChartsRight
  <1>5. /\ ChartTime(q) = (IF n = 2 * Window THEN now ELSE q.chart)
        /\ hour = HourOf(ChartTime(q)) - (Reads - 1 - n)
    BY DEF ChartTime, HourRead
  <1>6. /\ 2 * Window \in Nat /\ Reads = 2 * Window + HoursShown /\ Reads \in Nat
        /\ HoursShown \in Nat \ {0, 1} /\ MaxLag \in Nat /\ HourLength \in Nat \ {0}
    BY Numbers
  <1>7. \A m \in RecentHour(q.start) :
           /\ m \in Minutes /\ m \in Nat
           /\ m <= q.start /\ q.start + MaxLag < m + HourLength
    BY MinutesNat DEF RecentHour
  <1>8. /\ hour \in Hours => read = hours[hour].runs
        /\ hour \notin Hours => read = {}
    BY AtTyped DEF TypeOK
  <1> HIDE DEF q2, read, hour, q, n
  <1>9. CASE n < 2 * Window
    <2>1. n <= 2 * Window /\ ~(n > 2 * Window)
          /\ q2.next <= 2 * Window /\ ~(q2.next > 2 * Window)
      BY <1>2, <1>3, <1>6, <1>9
    <2>2. UnreachedHours(q2) = RecentHour(q.start) /\ UnreachedHours(q) = RecentHour(q.start)
      BY <1>3, <2>1 DEF UnreachedHours, n
    <2> QED
      <3>1. q2.hourly = {}
        BY <1>3, <1>4, <1>9, <2>1 DEF ChartRight, n
      <3>2. ChartRight(counted, refused, Uneven, q2)
        BY <1>3, <1>4, <2>1, <2>2, <3>1 DEF ChartRight, n
      <3>3. ASSUME NEW other \in Readers, reader'[other].pc = "reading"
            PROVE  ChartRight(counted, refused, Uneven, reader'[other])
        <4>1. CASE other = r
          BY <3>2, <4>1 DEF q2
        <4>2. CASE other # r
          BY <3>3, <4>2, ReadEffect DEF ChartsRight
        <4> QED
          BY <4>1, <4>2
      <3> QED
        BY <1>1, <3>3 DEF ChartsRight
  <1>10. CASE n >= 2 * Window
    <2> DEFINE c == q2.chart
    <2>1. q2.next > 2 * Window /\ ~(q2.next <= 2 * Window)
      BY <1>2, <1>3, <1>6, <1>10
    <2>2. c \in Nat /\ q.start <= c /\ c <= q.start + MaxLag
      <3>1. CASE n = 2 * Window
        BY <1>2, <1>3, <1>5, <3>1
      <3>2. CASE n # 2 * Window
        <4>1. n > 2 * Window
          BY <1>2, <1>6, <1>10, <3>2
        <4>2. q.start <= q.chart /\ q.chart <= q.start + MaxLag
          BY <1>4, <4>1 DEF ChartRight, n
        <4> QED
          BY <1>2, <1>3, <1>5, <3>2, <4>2
      <3> QED
        BY <3>1, <3>2
    <2>3. HourOf(c) \in Nat /\ hour = HourOf(c) - (Reads - 1 - n) /\ hour \in Int
      <3>1. HourOf(c) \in Nat /\ hour = HourOf(c) - (Reads - 1 - n)
        BY <1>3, <1>5, <2>2, HourOrder
      <3> QED
        BY <1>2, <1>6, <3>1
    <2> HIDE DEF c
    <2>4. hour <= HourOf(c) /\ HourOf(c) < hour + HoursShown
      BY <1>2, <1>6, <1>10, <2>3
    <2>5. ASSUME NEW run \in q2.hourly \ refused
          PROVE  \E m \in HoursOfChart(c) : run \in counted[m]
      <3>1. CASE run \in q.hourly
        <4>1. n > 2 * Window /\ n # 2 * Window
          BY <1>2, <1>4, <1>6, <1>10, <3>1 DEF ChartRight, n
        <4>2. c = q.chart
          BY <1>3, <1>5, <4>1 DEF c
        <4> QED
          BY <1>4, <3>1, <4>1, <4>2 DEF ChartRight, n
      <3>2. CASE run \in read
        <4>1. hour \in Hours /\ run \in hours[hour].runs
          BY <1>8, <3>2
        <4>2. PICK m \in Minutes : HourOf(m) = hour /\ run \in counted[m]
          BY <2>5, <4>1 DEF HoursWhole
        <4>3. m \in HoursOfChart(c)
          BY <2>4, <4>2 DEF HoursOfChart
        <4> QED
          BY <4>2, <4>3
      <3> QED
        BY <1>3, <1>10, <3>1, <3>2
    <2>6. ASSUME NEW run \in q.dueHourly, run \notin Uneven, run \notin q.hourly
          PROVE  run \in read \/ \E m \in UnreachedHours(q2) : run \in counted[m]
      <3>1. PICK m \in UnreachedHours(q) : run \in counted[m]
        BY <1>4, <2>6 DEF ChartRight
      <3>2. m \in RecentHour(q.start)
        BY <3>1 DEF UnreachedHours
      <3>3. /\ m \in Minutes /\ m \in Nat
            /\ m <= q.start /\ q.start + MaxLag < m + HourLength
        BY <1>7, <3>2
      <3>4. HourOf(m) \in Nat /\ HourOf(m) \in Hours
        BY <3>3, HourOrder, HourOfMinute
      <3>5. HourOf(m) >= hour
        <4>1. CASE n = 2 * Window
          <5>1. c < m + HourLength
            BY <1>2, <1>6, <2>2, <3>3
          <5>2. HourOf(c) <= HourOf(m) + 1
            BY <2>2, <3>3, <5>1, HourOrder
          <5> QED
            BY <1>6, <2>3, <3>4, <4>1, <5>2
        <4>2. CASE n # 2 * Window
          <5>1. n > 2 * Window /\ ~(n <= 2 * Window)
            BY <1>2, <1>6, <1>10, <4>2
          <5>2. c = q.chart
            BY <1>3, <1>5, <4>2 DEF c
          <5>3. HourOf(m) > HourOf(c) - (Reads - n)
            BY <3>1, <5>1, <5>2 DEF UnreachedHours, n
          <5> QED
            BY <1>2, <1>6, <2>3, <3>4, <5>3
        <4> QED
          BY <4>1, <4>2
      <3>6. CASE HourOf(m) = hour
        <4>1. now < m + HourLength
          BY <1>2, <1>6, <3>3
        <4>2. run \in hours[hour].runs
          BY <2>6, <3>1, <3>3, <3>6, <4>1 DEF HoursWhole
        <4> QED
          BY <1>8, <3>4, <3>6, <4>2
      <3>7. CASE HourOf(m) # hour
        <4>1. HourOf(m) > HourOf(c) - (Reads - (n + 1))
          BY <1>2, <1>6, <2>3, <3>4, <3>5, <3>7
        <4>2. m \in UnreachedHours(q2)
          BY <1>3, <3>2, <4>1 DEF UnreachedHours, c
        <4> QED
          BY <3>1, <4>2
      <3> QED
        BY <3>6, <3>7
    <2>7. ChartRight(counted, refused, Uneven, q2)
      <3>1. /\ q2.start <= q2.chart /\ q2.chart <= q2.start + MaxLag
        BY <1>3, <2>2 DEF c
      <3>2. \A run \in q2.hourly \ refused : \E m \in HoursOfChart(q2.chart) : run \in counted[m]
        BY <2>5 DEF c
      <3>3. \A run \in q2.dueHourly :
               \/ run \in Uneven \/ run \in q2.hourly
               \/ \E m \in UnreachedHours(q2) : run \in counted[m]
        BY <1>3, <1>10, <2>6
      <3> QED
        BY <2>1, <3>1, <3>2, <3>3 DEF ChartRight
    <2>8. ASSUME NEW other \in Readers, reader'[other].pc = "reading"
          PROVE  ChartRight(counted, refused, Uneven, reader'[other])
      <3>1. CASE other = r
        BY <2>7, <3>1 DEF q2
      <3>2. CASE other # r
        BY <2>8, <3>2, ReadEffect DEF ChartsRight
      <3> QED
        BY <3>1, <3>2
    <2> QED
      BY <1>1, <2>8 DEF ChartsRight
  <1> QED
    BY <1>2, <1>6, <1>9, <1>10

LEMMA ChartsNext ==
    ASSUME TypeOK, Timely, HoursWhole, ChartsRight, [Next]_vars
    PROVE  ChartsRight'
  <1>1. ASSUME NEW r \in Readers, BeginReport(r) PROVE ChartsRight'
    BY <1>1, ChartsBegin
  <1>2. ASSUME NEW r \in Readers, ReadNext(r) PROVE ChartsRight'
    BY <1>2, ChartsRead
  <1>3. ASSUME NEW r \in Readers, BroadcastReport(r) PROVE ChartsRight'
    <2>1. \A q \in Readers : reader'[q] = reader[q] \/ reader'[q] = Unread
      BY <1>3, BroadcastEffect
    <2> QED
      BY <2>1, ChartsKept
  <1>4. CASE Exit
    <2>1. \A q \in Readers : reader'[q] = reader[q] \/ reader'[q] = Unread
      BY <1>4, ExitEffect
    <2> QED
      BY <2>1, ChartsKept
  <1>5. CASE \/ \E e \in Events : QueueEvent(e) \/ StartJob(e)
             \/ UpdateLastActivityTime \/ StampRefused \/ Counted \/ JobOver
             \/ \E taken \in SUBSET Counters : Count(taken)
             \/ \E m \in Minutes : \E run \in expiring[m] : HincrbyReply(m, run)
             \/ \E again \in SUBSET Unanswered : RedisRestart(again)
             \/ Tick \/ Restart \/ UNCHANGED vars
    <2>1. UNCHANGED reader
      BY <1>5 DEF QueueEvent, StartJob, UpdateLastActivityTime, StampRefused, Counted, Count,
                  JobOver, HincrbyReply, RedisRestart, Tick, Restart, vars
    <2> QED
      BY <2>1, ChartsKept
  <1> QED
    BY <1>1, <1>2, <1>3, <1>4, <1>5 DEF Next

-----------------------------------------------------------------------------
(* Theorems                                                                 *)

IndInv == TypeOK /\ CountsInv /\ FeedInv /\ WindowInv /\ ChartInv

LEMMA IndInvInit == Init => IndInv
  BY TypeInit, CountsInit, FeedInit, TimelyInit, BucketsInit, ReportsInit,
     ChartInit
  DEF IndInv, WindowInv

LEMMA IndInvNext == IndInv /\ [Next]_vars => IndInv'
  <1> SUFFICES ASSUME IndInv, [Next]_vars PROVE IndInv'
    OBVIOUS
  <1>1. TypeOK /\ CountsInv /\ FeedInv
    BY DEF IndInv
  <1>2. /\ Timely /\ BucketsWhole /\ ExpireComes /\ ReportsRight
        /\ HoursWhole /\ ChartsRight
    BY DEF IndInv, WindowInv, ChartInv
  <1>3. TypeOK'
    BY <1>1, TypeNext
  <1>4. CountsInv'
    BY <1>1, CountsNext
  <1>5. FeedInv'
    BY <1>1, FeedNext
  <1>6. Timely'
    BY <1>1, <1>2, TimelyNext
  <1>7. BucketsWhole'
    BY <1>1, <1>2, BucketsNext
  <1>8. ExpireComes'
    BY <1>1, <1>2, ExpireNext
  <1>9. ReportsRight'
    BY <1>1, <1>2, ReportsNext
  <1>10. HoursWhole'
    BY <1>1, <1>2, HoursNext
  <1>11. ChartsRight'
    BY <1>1, <1>2, ChartsNext
  <1> QED
    BY <1>3, <1>4, <1>5, <1>6, <1>7, <1>8, <1>9, <1>10, <1>11 DEF IndInv, WindowInv, ChartInv

LEMMA IndInvHolds == Spec => []IndInv
  BY IndInvInit, IndInvNext, PTL DEF Spec

\* Every variable of the metrics keeps its type: the queue holds received
\* events only, the buckets and the reports hold runs only, the job in progress
\* took its minute from a clock that had reached it.
THEOREM TypeCorrect == Spec => []TypeOK
  <1>1. IndInv => TypeOK
    BY DEF IndInv
  <1> QED
    BY <1>1, IndInvHolds, PTL

\* An event is counted again only because its job stalled: at most once more
\* than the process exited, at most 1 + maxStalledCount times, under one
\* minute each time.
THEOREM EventsNotRecounted == Spec => []CountsBounded
  <1>1. IndInv => CountsBounded
    BY DEF IndInv, CountsInv, AttemptsBounded, CountedStarted, CountsBounded
  <1> QED
    BY <1>1, IndInvHolds, PTL

\* The live feed of addToLiveEvents starts with the event that was just
\* processed, holds none twice and stays within its cap.
THEOREM FeedStaysFresh == Spec => []LiveFeedFresh
  <1>1. IndInv => LiveFeedFresh
    BY DEF IndInv, FeedInv, LiveFeedFresh
  <1> QED
    BY <1>1, IndInvHolds, PTL

\* No key of the metrics stays behind in Redis without a time to live, for any
\* events, refused commands, failed jobs and losses of Redis, unless the process
\* exited between HINCRBY and its EXPIRE; an EXPIRE on its way finds its key.
THEOREM KeysAllExpire == Spec => []KeysExpireUnlessExit
  <1>1. ASSUME IndInv PROVE KeysExpireUnlessExit
    <2>1. TypeOK /\ BucketsWhole /\ ExpireComes
      BY <1>1 DEF IndInv, WindowInv
    <2>2. ASSUME NEW m \in Minutes, volume[m].runs # {} PROVE volume[m].dies # 0
      <3>1. volume[m].dies >= m + BucketTTL
        BY <2>1, <2>2 DEF BucketsWhole
      <3> QED
        BY <2>1, <3>1, BucketOf
    <2>3. \A h \in Hours : Perishable(hours[h])
      BY <2>1 DEF ExpireComes, Perishable
    <2>4. ASSUME NEW m \in Minutes
          PROVE  /\ exits = 0 => Perishable(types[m]) \/ expiring[m] # {}
                 /\ expiring[m] \ erased \subseteq types[m].runs
      BY <2>1 DEF ExpireComes, Perishable
    <2> QED
      BY <2>2, <2>3, <2>4 DEF KeysExpireUnlessExit, Perishable
  <1> QED
    BY <1>1, IndInvHolds, PTL

\* A report is right about its window: it holds every run counted there before
\* it began that Redis has not lost, and none from elsewhere, although its
\* buckets are read one by one while others are written, expire and are read by
\* an overlapping report.
THEOREM ReportsBracketed == Spec => []ReportBracketed
  <1>1. ASSUME IndInv PROVE ReportBracketed
    <2> SUFFICES ASSUME NEW r \in Readers, Finished(r)
                 PROVE  /\ reader[r].due \ erased \subseteq reader[r].active
                        /\ reader[r].active
                              \subseteq CountedIn(ActiveWindow(reader[r].start))
      BY DEF ReportBracketed
    <2> DEFINE q == reader[r]
    <2>1. TypeOK /\ q.pc = "reading" /\ q.next = Reads /\ Right(counted, Uneven, erased, q)
      BY <1>1 DEF IndInv, WindowInv, ReportsRight, Finished
    <2>2. q.start \in Nat
      BY <2>1, ReaderFields, Numbers DEF TypeOK
    <2> HIDE DEF q
    <2>3. Unreached(q) = {}
      <3>1. ASSUME NEW m \in ActiveWindow(q.start) PROVE ~(m <= q.start - q.next)
        <4>1. m \in Nat /\ q.start < m + Window
          BY MinutesNat DEF ActiveWindow
        <4>2. Window <= Reads
          BY Numbers
        <4> QED
          BY <2>1, <2>2, <4>1, <4>2, Numbers
      <3> QED
        BY <3>1 DEF Unreached
    <2>4. Within(counted, Unreached(q)) = {}
      BY <2>3 DEF Within
    <2>5. q.due \ erased \subseteq q.active /\ q.active \subseteq CountedIn(ActiveWindow(q.start))
      BY <2>1, <2>4 DEF Right, CountedIn, Within
    <2> QED
      BY <2>5 DEF q
  <1> QED
    BY <1>1, IndInvHolds, PTL

\* The counters of a report agree: its distribution adds up to its total, but
\* for the runs of which a full Redis refused some counters or which it lost.
THEOREM DistributionSound == Spec => []DistributionAddsUp
  <1>1. IndInv => DistributionAddsUp
    BY DEF IndInv, WindowInv, ReportsRight, Right, Finished, DistributionAddsUp
  <1> QED
    BY <1>1, IndInvHolds, PTL

\* The volume chart is right about the last hour, whenever the hour turns while
\* it is read: every run counted within the life of an hour bucket is in it, but
\* for those Redis refused or lost, and no run that is older than the hours it
\* shows.
THEOREM ChartStaysRecent == Spec => []HourlyChartRecent
  <1>1. ASSUME IndInv PROVE HourlyChartRecent
    <2> SUFFICES ASSUME NEW r \in Readers, Finished(r)
                 PROVE  /\ reader[r].dueHourly \ Uneven \subseteq reader[r].hourly
                        /\ reader[r].hourly \ refused
                              \subseteq CountedIn(HoursOfChart(reader[r].chart))
      BY DEF HourlyChartRecent
    <2> DEFINE q == reader[r]
    <2>1. TypeOK /\ q.pc = "reading" /\ q.next = Reads /\ ChartRight(counted, refused, Uneven, q)
      BY <1>1 DEF IndInv, ChartInv, ChartsRight, Finished
    <2>2. q.start \in Nat /\ q.chart \in Nat
      BY <2>1, ReaderFields, Numbers DEF TypeOK
    <2> HIDE DEF q
    <2>3. q.next > 2 * Window /\ ~(q.next <= 2 * Window)
      BY <2>1, Numbers
    <2>4. q.start <= q.chart
      BY <2>1, <2>3 DEF ChartRight
    <2>5. ASSUME NEW m \in UnreachedHours(q) PROVE FALSE
      <3>1. m \in RecentHour(q.start) /\ HourOf(m) > HourOf(q.chart) - (Reads - q.next)
        BY <2>3 DEF UnreachedHours
      <3>2. m \in Nat /\ m <= q.start
        BY <3>1, MinutesNat DEF RecentHour
      <3>3. /\ HourOf(m) \in Nat /\ HourOf(q.chart) \in Nat
            /\ HourOf(m) <= HourOf(q.chart)
        BY <2>2, <2>4, <3>2, HourOrder
      <3> QED
        BY <2>1, <3>1, <3>3, Numbers
    <2>6. q.dueHourly \ Uneven \subseteq q.hourly
      BY <2>1, <2>5 DEF ChartRight
    <2>7. q.hourly \ refused \subseteq CountedIn(HoursOfChart(q.chart))
      BY <2>1, <2>3 DEF ChartRight, CountedIn
    <2> QED
      BY <2>6, <2>7 DEF q
  <1> QED
    BY <1>1, IndInvHolds, PTL

=============================================================================
