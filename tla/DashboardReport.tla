--------------------------- MODULE DashboardReport ---------------------------
(***************************************************************************)
(* What the dashboard shows: the fields processEvent counts in the hashes  *)
(* of a minute, and the figures generateDashboardMetrics makes of those of *)
(* a window.  MetricsWindow has the steps in between and what can go wrong *)
(* with them; here every event is counted in one step, no bucket is ever   *)
(* gone that is read, and the data are looked at: two counters that share  *)
(* a hash, payloads without the fields that are counted, ties and limits   *)
(* of the lists, rounding.                                                 *)
(*                                                                         *)
(* countries stands for devices and referrers too, which differ by the     *)
(* label an event without one is given.                                    *)
(***************************************************************************)
EXTENDS Integers, Sequences, FiniteSets, Functions

CONSTANTS
    Kinds,          \* the events: records of name, user, country, lag, null
    Missing,        \* a user or country the payload does not have
    Anonymous,      \* the user such an event is counted for
    MockCountries,  \* what getCountryFromIP picks from
    Converting,     \* names that count as conversions
    Window,         \* ACTIVE_WINDOW_MINUTES (5)
    TopCount,       \* length of topEvents (10)
    TimesKept,      \* processing times kept per minute (100)
    MaxMinute,      \* bound of the model: the last minute
    MaxEvents       \* bound of the model: events that are processed

ASSUME ReportAssumption ==
    /\ {Window, TopCount, TimesKept, MaxMinute} \subseteq Nat \ {0}
    /\ MaxEvents \in Nat
    /\ \A e \in Kinds : e.lag \in Int /\ e.null \in BOOLEAN

VARIABLES
    now,            \* the minute on the clock
    volume,         \* metrics:volume:<minute>
    types,          \* metrics:event_types:<minute>
    countries,      \* metrics:countries:<minute>
    conversions,    \* metrics:conversions:<minute>
    users,          \* metrics:users:<minute>
    times,          \* metrics:response_times:<minute>, newest first
    log             \* history: the events processed, and in which minute

reportVars == <<now, volume, types, countries, conversions, users, times, log>>

Minutes == 1..MaxMinute

\* The field of the total, in the hash of the fields named by events.
TotalEvents == "total_events"

NoFields == [f \in {} |-> 0]

\* What a field that is not there counts for: parseInt(... || '0').
Value(hash, f) == IF f \in DOMAIN hash THEN hash[f] ELSE 0

\* HINCRBY hash field 1
Incr(hash, f) ==
    [g \in DOMAIN hash \cup {f} |-> Value(hash, g) + IF g = f THEN 1 ELSE 0]

First(s, n) == SubSeq(s, 1, IF Len(s) < n THEN Len(s) ELSE n)

ReportInit ==
    /\ now = 1
    /\ volume = [m \in Minutes |-> NoFields]
    /\ types = [m \in Minutes |-> NoFields]
    /\ countries = [m \in Minutes |-> NoFields]
    /\ conversions = [m \in Minutes |-> NoFields]
    /\ users = [m \in Minutes |-> {}]
    /\ times = [m \in Minutes |-> <<>>]
    /\ log = <<>>

-----------------------------------------------------------------------------
(* processEvent                                                            *)

UpdateVolumeMetrics(e) ==
    volume' = [volume EXCEPT ![now] = Incr(Incr(@, TotalEvents), e.name)]

UpdateEventTypeMetrics(e) == types' = [types EXCEPT ![now] = Incr(@, e.name)]

User(e) == IF e.user = Missing THEN Anonymous ELSE e.user

\* The user, and the conversion; a null payload throws before either.
UpdateUserMetrics(e) ==
    IF e.null THEN UNCHANGED <<users, conversions>>
    ELSE /\ users' = [users EXCEPT ![now] = @ \cup {User(e)}]
         /\ conversions' = IF e.name \in Converting
                           THEN [conversions EXCEPT ![now] = Incr(@, e.name)]
                           ELSE conversions

\* Without a country the event is given any; a null payload throws.
UpdateGeographicMetrics(e) ==
    IF e.null THEN UNCHANGED countries
    ELSE \E c \in IF e.country = Missing THEN MockCountries ELSE {e.country} :
            countries' = [countries EXCEPT ![now] = Incr(@, c)]

Trimmed(s) == First(s, TimesKept)

\* LPUSH and LTRIM.
UpdatePerformanceMetrics(e) ==
    times' = [times EXCEPT ![now] = Trimmed(<<e.lag>> \o @)]

ProcessEvent(e) ==
    /\ Len(log) < MaxEvents
    /\ UpdateVolumeMetrics(e)
    /\ UpdateUserMetrics(e)
    /\ UpdateEventTypeMetrics(e)
    /\ UpdateGeographicMetrics(e)
    /\ UpdatePerformanceMetrics(e)
    /\ log' = Append(log, [at |-> now, event |-> e])
    /\ UNCHANGED now

Tick ==
    /\ now < MaxMinute
    /\ now' = now + 1
    /\ UNCHANGED <<volume, types, countries, conversions, users, times, log>>

ReportNext == Tick \/ \E e \in Kinds : ProcessEvent(e)

ReportSpec == ReportInit /\ [][ReportNext]_reportVars

-----------------------------------------------------------------------------
(* generateDashboardMetrics                                                *)

\* A number as so many units of x, and the sum of the numbers of a function.
Units(f) == UNION {{x} \X (1..f[x]) : x \in DOMAIN f}

SumOf(f) == Cardinality(Units(f)) - Cardinality(Units([x \in DOMAIN f |-> -f[x]]))

\* The minutes of a window that exist in the model.
WindowFrom(start) == {m \in Minutes : start - Window < m /\ m <= start}

\* Mutant of Merged: the first minute that has a field keeps its value.
MergedFirst(buckets, minutes) ==
    [f \in UNION {DOMAIN buckets[m] : m \in minutes} |->
        buckets[CHOOSE m \in minutes : f \in DOMAIN buckets[m]][f]]

\* mergeRedisDataInPlace, minute after minute.
Merged(buckets, minutes) ==
    [f \in UNION {DOMAIN buckets[m] : m \in minutes} |->
        SumOf([m \in minutes |-> Value(buckets[m], f)])]

UsersIn(minutes) == Cardinality(UNION {users[m] : m \in minutes})

\* The processing times of all minutes, each at the place it has in its list.
ResponseTimes(minutes) ==
    [p \in UNION {{m} \X DOMAIN times[m] : m \in minutes} |-> times[p[1]][p[2]]]

\* Math.round of a fraction with a positive denominator: halves go up.
Round(n, d) == (2 * n + d) \div (2 * d)

\* Mutant of PercentageChange: relative to the present value.
PercentageChangeOfCurrent(current, previous) ==
    IF previous = 0 \/ current = 0 THEN (IF current > 0 THEN 10000 ELSE 0)
    ELSE Round((current - previous) * 10000, current)

\* In hundredths of a percent.
PercentageChange(current, previous) ==
    IF previous = 0 THEN (IF current > 0 THEN 10000 ELSE 0)
    ELSE Round((current - previous) * 10000, previous)

AverageResponseTime(ts) ==
    IF DOMAIN ts = {} THEN 0 ELSE Round(SumOf(ts), Cardinality(DOMAIN ts))

\* Every order Object.entries and sort may give the fields: those with as high
\* a count come in any order.
Ranked(hash, fields) ==
    {[i \in DOMAIN s |-> [name |-> s[i], count |-> hash[s[i]]]] :
        s \in {b \in Bijection(1..Cardinality(fields), fields) :
                 \A i, j \in DOMAIN b : i < j => hash[b[i]] >= hash[b[j]]}}

EventDistribution(hash) == Ranked(hash, DOMAIN hash \ {TotalEvents})

\* Mutant of TopEvents: cut before it is filtered.
TopEventsCutFirst(hash) ==
    LET NotTotal(a) == a.name # TotalEvents
    IN  {SelectSeq(First(s, TopCount), NotTotal) : s \in Ranked(hash, DOMAIN hash)}

TopEvents(hash) == {First(s, TopCount) : s \in EventDistribution(hash)}

\* The figures shown at the minute start; top and distribution are the lists
\* that may be shown.
Report(start) ==
    LET active == WindowFrom(start)
        previous == WindowFrom(start - Window)
        total == Value(Merged(volume, active), TotalEvents)
    IN  [total |-> total,
         totalChange |-> PercentageChange(total, Value(Merged(volume, previous), TotalEvents)),
         users |-> UsersIn(active),
         usersChange |-> PercentageChange(UsersIn(active), UsersIn(previous)),
         converted |-> SumOf(Merged(conversions, active)),
         located |-> SumOf(Merged(countries, active)),
         top |-> TopEvents(Merged(types, active)),
         distribution |-> EventDistribution(Merged(types, active)),
         average |-> AverageResponseTime(ResponseTimes(active))]

-----------------------------------------------------------------------------
(* Properties                                                              *)

\* What every variable may hold.
ReportTypeOK ==
    /\ now \in Minutes
    /\ \A m \in Minutes :
          /\ \A hash \in {volume[m], types[m], countries[m], conversions[m]} :
                \A f \in DOMAIN hash : hash[f] \in Nat \ {0}
          /\ IsFiniteSet(users[m])
          /\ times[m] \in Seq(Int) /\ Len(times[m]) <= TimesKept
    /\ log \in Seq([at : Minutes, event : Kinds])

\* The events of some kinds processed in some minutes, as places in the log.
Those(minutes, kinds) ==
    {i \in DOMAIN log : log[i].at \in minutes /\ log[i].event \in kinds}
Number(minutes, kinds) == Cardinality(Those(minutes, kinds))
Named(n) == {e \in Kinds : e.name = n}
Nulls == {e \in Kinds : e.null}

\* The figures of a report explain each other.  Its parts add up to its total,
\* except that an event called total_events counts twice in the total and in
\* no part of the distribution, and that an event with a null payload has no
\* user, no country and converts nobody although it is in the total.
PartsExplainTotal ==
    LET r == Report(now)
        active == WindowFrom(now)
        number == Number(active, Kinds)
        reserved == Number(active, Named(TotalEvents))
        nulls == Number(active, Nulls)
    IN  /\ r.total = number + reserved
        /\ r.distribution # {}
        /\ \A d \in r.distribution :
              SumOf([i \in DOMAIN d |-> d[i].count]) = number - reserved
        /\ r.located = number - nulls
        /\ r.converted = Number(active, {e \in Kinds \ Nulls : e.name \in Converting})
        /\ r.users <= number - nulls
        /\ r.users = 0 <=> number = nulls

\* The list of top events holds as many names as fit, each with its true
\* count, in order, and none that is left out happened more often, whatever
\* minutes the events were counted in and however names that are tied fall.
TopEventsRanked ==
    LET active == WindowFrom(now)
        names == {log[i].event.name : i \in Those(active, Kinds)} \ {TotalEvents}
        Count(n) == Number(active, Named(n))
    IN  \A top \in Report(now).top :
          LET listed == {top[i].name : i \in DOMAIN top}
          IN  /\ Len(top) = IF Cardinality(names) < TopCount THEN Cardinality(names)
                                                           ELSE TopCount
              /\ Cardinality(listed) = Len(top) /\ listed \subseteq names
              /\ \A i \in DOMAIN top : top[i].count = Count(top[i].name)
              /\ \A i, j \in DOMAIN top : i < j => top[i].count >= top[j].count
              /\ \A n \in names \ listed : \A i \in DOMAIN top : Count(n) <= top[i].count

\* Every rounded figure is as near as rounding allows: a change from one window
\* to the next is within half a hundredth of a percent, 0 or 100 when there was
\* nothing before, and never takes decline for growth; it may hide either when
\* the window before had 20000 or more.  The average time is that of the newest
\* events of every minute, those of a null payload among them.
RoundedHonest ==
    LET Honest(change, current, previous) ==
            /\ change > 0 => current > previous
            /\ change < 0 => current < previous
            /\ change = 0 => current = previous \/ previous >= 20000
            /\ previous = 0 => change \in {0, 10000}
            /\ previous > 0 =>
                  2 * change * previous \in
                     (20000 * (current - previous) - previous)..(20000 * (current - previous) + previous)
        r == Report(now)
        last == Report(now - Window)
        Newer(i) == {j \in Those({log[i].at}, Kinds) : i < j}
        newest == {i \in Those(WindowFrom(now), Kinds) : Cardinality(Newer(i)) < TimesKept}
        lags == SumOf([i \in newest |-> log[i].event.lag])
        n == Cardinality(newest)
    IN  /\ Honest(r.totalChange, r.total, last.total)
        /\ Honest(r.usersChange, r.users, last.users)
        /\ 2 * n * r.average \in (2 * lags - n)..(2 * lags + n)
        /\ n = 0 => r.average = 0

=============================================================================
