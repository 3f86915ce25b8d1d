--------------------------- MODULE LiveFanoutProofs ---------------------------
(* Theorems about LiveFanout, for every finite set of owners, every set of   *)
(* events and sockets and every bound.                                       *)
EXTENDS LiveFanout, FiniteSetTheorems, SequenceTheorems, TLAPS

-----------------------------------------------------------------------------
(* The inductive invariants                                                 *)

Batches == Range(adding) \cup Range(waiting) \cup orphans
             \cup (IF active = NoJob THEN {} ELSE {active.job})

\* Why BatchesKeepOwner: every batch is of one owner, too.
OwnersKept ==
    /\ \A o \in Owners : \A e \in Range(buffer[o]) : OwnerOf[e] = o
    /\ \A j \in Batches : \A e \in Range(j.events) : OwnerOf[e] = j.owner
    /\ BatchesKeepOwner

\* Why OncePerConnection: an event that is not sent yet is in one place.
ReceivedOnly ==
    /\ IsInjective(received)
    /\ \A o \in Owners : Range(buffer[o]) \subseteq Range(received)
    /\ \A j \in Batches : Range(j.events) \subseteq Range(received)
    /\ \A c \in Sockets : Range(socket[c].inbox) \subseteq Range(received)

NoneTwice ==
    /\ \A o \in Owners : IsInjective(buffer[o])
    /\ \A j \in Batches : IsInjective(j.events)
    /\ \A c \in Sockets : IsInjective(socket[c].inbox)

BatchesApart ==
    /\ \A j, k \in Batches : j # k => Range(j.events) \cap Range(k.events) = {}
    /\ \A j \in Batches : \A o \in Owners : Range(j.events) \cap Range(buffer[o]) = {}

QueuedOnce ==
    /\ IsInjective(adding) /\ IsInjective(waiting)
    /\ Range(adding) \cap Range(waiting) = {}
    /\ orphans \cap (Range(adding) \cup Range(waiting)) = {}
    /\ active # NoJob =>
          active.job \notin Range(adding) \cup Range(waiting) \cup orphans

NotSent == {j \in Batches : active.phase = "sent" => j # active.job}

SentIsGone ==
    \A c \in Sockets :
        /\ \A o \in Owners : Range(socket[c].inbox) \cap Range(buffer[o]) = {}
        /\ \A j \in NotSent : Range(socket[c].inbox) \cap Range(j.events) = {}

OnePlace == ReceivedOnly /\ NoneTwice /\ BatchesApart /\ QueuedOnce /\ SentIsGone

\* Why OrderedUntilStall: the way from the buffer to the browser is one line
\* for the events of an owner, sorted by r, the order of their arrival.
Earlier(r, e, f) == OwnerOf[e] = OwnerOf[f] => Place(r, e) < Place(r, f)

Before(r, s, t) == \A e \in Range(s), f \in Range(t) : Earlier(r, e, f)

Sorted(r, s) == \A i, j \in DOMAIN s : i < j => Earlier(r, s[i], s[j])

JobsSorted(r, jobs) ==
    \A i, j \in DOMAIN jobs : i < j => Before(r, jobs[i].events, jobs[j].events)

EachSorted(r, buffers) ==
    /\ \A o \in Owners : Sorted(r, buffers[o])
    /\ \A j \in Batches : Sorted(r, j.events)
    /\ \A c \in Sockets : Sorted(r, socket[c].inbox)

QueueSorted(r) ==
    /\ JobsSorted(r, adding) /\ JobsSorted(r, waiting)
    /\ \A j \in Range(waiting), k \in Range(adding) : Before(r, j.events, k.events)
    /\ active.phase = "taken" =>
          \A k \in Range(waiting) \cup Range(adding) :
              Before(r, active.job.events, k.events)

BuffersLast(r, buffers) ==
    /\ \A j \in Batches : \A o \in Owners : Before(r, j.events, buffers[o])
    /\ \A c \in Sockets : \A o \in Owners : Before(r, socket[c].inbox, buffers[o])

InboxFirst(r) ==
    \A c \in Sockets : \A j \in NotSent : Before(r, socket[c].inbox, j.events)

Line(r, buffers) ==
    /\ orphans = {}
    /\ EachSorted(r, buffers) /\ QueueSorted(r)
    /\ BuffersLast(r, buffers) /\ InboxFirst(r)

OneLine == faults = 0 => Line(received, buffer)

-----------------------------------------------------------------------------
(* Sequences                                                                *)

\* SetToSeq lists the members of a finite set, none twice.
LEMMA ListOfSet ==
    ASSUME NEW S, IsFiniteSet(S)
    PROVE  SetToSeq(S) \in Seq(S) /\ IsInjective(SetToSeq(S))
  <1>1. Cardinality(S) \in Nat
    BY FS_CardinalityType
  <1>2. PICK f \in Bijection(1..Cardinality(S), S) : TRUE
    BY FS_CardinalityType DEF ExistsBijection
  <1>3. f \in [1..Cardinality(S) -> S] /\ IsInjective(f)
    BY <1>2 DEF Bijection, Injection, IsInjective
  <1>4. /\ SetToSeq(S) \in [1..Cardinality(S) -> S]
        /\ IsInjective(SetToSeq(S))
    BY <1>3 DEF SetToSeq
  <1> QED
    BY <1>1, <1>4

LEMMA RangeOfConcat ==
    ASSUME NEW S, NEW s \in Seq(S), NEW t \in Seq(S)
    PROVE  s \o t \in Seq(S) /\ Range(s \o t) = Range(s) \cup Range(t)
  BY RangeConcatenation, ConcatProperties

LEMMA RangeOfAppend ==
    ASSUME NEW S, NEW s \in Seq(S), NEW e \in S
    PROVE  Append(s, e) \in Seq(S) /\ Range(Append(s, e)) = Range(s) \cup {e}
  <1> DEFINE a == Append(s, e)
  <1>1. /\ a \in Seq(S) /\ Len(s) \in Nat
        /\ DOMAIN s = 1..Len(s) /\ DOMAIN a = 1..(Len(s) + 1)
        /\ \A i \in 1..Len(s) : a[i] = s[i]
        /\ a[Len(s) + 1] = e
    BY AppendProperties, LenProperties
  <1> HIDE DEF a
  <1>2. Range(s) \cup {e} \subseteq Range(a)
    BY <1>1 DEF Range
  <1>3. Range(a) \subseteq Range(s) \cup {e}
    <2> SUFFICES ASSUME NEW i \in 1..(Len(s) + 1)
                 PROVE  a[i] \in Range(s) \cup {e}
      BY <1>1 DEF Range
    <2>1. i \in 1..Len(s) \/ i = Len(s) + 1
      BY <1>1
    <2> QED
      BY <1>1, <2>1 DEF Range
  <1> QED
    BY <1>1, <1>2, <1>3 DEF a

LEMMA RangeOfTail ==
    ASSUME NEW S, NEW s \in Seq(S), s # <<>>
    PROVE  /\ Head(s) \in S /\ Tail(s) \in Seq(S)
           /\ Head(s) \in Range(s) /\ Range(Tail(s)) \subseteq Range(s)
  BY HeadTailProperties DEF Range

LEMMA RangeOfPrefix ==
    ASSUME NEW S, NEW s \in Seq(S), NEW n \in 0..Len(s)
    PROVE  SubSeq(s, 1, n) \in Seq(S) /\ Range(SubSeq(s, 1, n)) \subseteq Range(s)
  <1>1. \A i \in 1..n : s[i] \in S
    OBVIOUS
  <1>2. /\ SubSeq(s, 1, n) \in Seq(S)
        /\ Len(SubSeq(s, 1, n)) = n
        /\ \A i \in 1..n : SubSeq(s, 1, n)[i] = s[i]
    BY <1>1, SubSeqProperties, Z3
  <1> QED
    BY <1>2 DEF Range

-----------------------------------------------------------------------------
(* What the helpers do to the buffers and the queue                         *)

Buffers == [Owners -> {s \in Seq(Events) : Len(s) <= BatchSize}]

\* The batches a flush cuts.
Cut(buffers) ==
    {Batch(o, buffers[o]) : o \in {p \in Owners : buffers[p] # <<>>}}

LEMMA CutTyped ==
    ASSUME NEW buffers \in Buffers
    PROVE  IsFiniteSet(Cut(buffers)) /\ Cut(buffers) \subseteq Jobs
  <1> DEFINE full == {p \in Owners : buffers[p] # <<>>}
  <1>1. IsFiniteSet(full)
    BY FS_Subset, FanoutAssumption
  <1>2. IsFiniteSet(Cut(buffers))
    <2> DEFINE f == [o \in full |-> Batch(o, buffers[o])]
    <2>1. f \in Surjection(full, Cut(buffers))
      BY DEF Cut, Surjection
    <2> HIDE DEF f, full
    <2> QED
      BY <1>1, <2>1, FS_Surjection
  <1>3. ASSUME NEW o \in Owners, buffers[o] # <<>>
        PROVE  Batch(o, buffers[o]) \in Jobs
    BY <1>3, FanoutAssumption DEF Batch, Jobs, Buffers
  <1> QED
    BY <1>2, <1>3 DEF Cut

LEMMA FlushEffect ==
    ASSUME NEW buffers \in Buffers, adding \in Seq(Jobs), Flush(buffers)
    PROVE  /\ buffer' = [o \in Owners |-> <<>>]
           /\ \E list \in Seq(Cut(buffers)) :
                 /\ IsInjective(list) /\ list \in Seq(Jobs)
                 /\ adding' = adding \o list
  <1>1. Flush(buffers) <=> /\ adding' = adding \o SetToSeq(Cut(buffers))
                           /\ buffer' = Emptied(buffers)
    BY DEF Flush, Cut
  <1>2. /\ SetToSeq(Cut(buffers)) \in Seq(Cut(buffers))
        /\ IsInjective(SetToSeq(Cut(buffers)))
    BY CutTyped, ListOfSet
  <1>3. SetToSeq(Cut(buffers)) \in Seq(Jobs)
    BY <1>2, CutTyped, SeqMonotonic
  <1> QED
    BY <1>1, <1>2, <1>3 DEF Emptied

LEMMA PushedTyped ==
    ASSUME TypeOK, NEW e \in Events
    PROVE  /\ Pushed(e) \in Buffers
           /\ Pushed(e)[OwnerOf[e]] = Append(buffer[OwnerOf[e]], e)
           /\ \A o \in Owners : o # OwnerOf[e] => Pushed(e)[o] = buffer[o]
  <1>1. OwnerOf[e] \in Owners /\ BatchSize \in Nat
    BY FanoutAssumption
  <1>2. buffer \in [Owners -> {s \in Seq(Events) : Len(s) < BatchSize}]
    BY DEF TypeOK
  <1>3. /\ Append(buffer[OwnerOf[e]], e) \in Seq(Events)
        /\ Len(Append(buffer[OwnerOf[e]], e)) <= BatchSize
    BY <1>1, <1>2
  <1>4. \A o \in Owners : buffer[o] \in {s \in Seq(Events) : Len(s) <= BatchSize}
    BY <1>1, <1>2
  <1> QED
    BY <1>1, <1>2, <1>3, <1>4 DEF Pushed, Buffers

LEMMA BufferTyped ==
    ASSUME TypeOK
    PROVE  buffer \in Buffers
  BY FanoutAssumption DEF TypeOK, Buffers

-----------------------------------------------------------------------------
(* Type correctness                                                         *)

Metrics == {"zeros", "own", "others"}

Sessions == [owner : Owners \cup {Nobody}, inbox : Seq(Events), metrics : Metrics]

Actives == {NoJob} \cup [phase : {"taken", "sent"}, job : Jobs]

LEMMA OutTyped ==
    Out \in Sessions /\ Out.owner = Nobody /\ Out.inbox = <<>>
  BY DEF Out, Sessions, Metrics

\* NoJob is told from the jobs by its phase.
LEMMA ActiveTyped ==
    ASSUME TypeOK
    PROVE  /\ NoJob.phase = "none" /\ active \in Actives
           /\ active # NoJob => /\ active \in [phase : {"taken", "sent"}, job : Jobs]
                                /\ active.job \in Jobs
           /\ active.phase \in {"taken", "sent"} => active # NoJob
  <1>1. NoJob.phase = "none"
    BY DEF NoJob
  <1> QED
    BY <1>1 DEF TypeOK, Actives

LEMMA EndsTyped ==
    ASSUME TypeOK, NEW calls \in Seq(Jobs), Ends(calls)
    PROVE  /\ up' = FALSE /\ adding' = <<>> /\ active' = NoJob
           /\ buffer' = [o \in Owners |-> <<>>]
           /\ socket' = [c \in Sockets |-> Out]
           /\ orphans' = orphans \cup (IF active = NoJob THEN {} ELSE {active.job})
           /\ orphans' \subseteq Jobs
           /\ \E n \in 0..Len(calls) : /\ SubSeq(calls, 1, n) \in Seq(Jobs)
                                       /\ waiting' = waiting \o SubSeq(calls, 1, n)
           /\ waiting' \in Seq(Jobs)
  <1>1. PICK n \in 0..Len(calls) : waiting' = waiting \o SubSeq(calls, 1, n)
    BY DEF Ends
  <1>2. SubSeq(calls, 1, n) \in Seq(Jobs)
    BY RangeOfPrefix
  <1>3. waiting' \in Seq(Jobs)
    BY <1>1, <1>2, ConcatProperties DEF TypeOK
  <1>4. orphans' = orphans \cup (IF active = NoJob THEN {} ELSE {active.job})
    BY DEF Ends
  <1>5. orphans' \subseteq Jobs
    BY <1>4, ActiveTyped DEF TypeOK
  <1> QED
    BY <1>1, <1>2, <1>3, <1>4, <1>5 DEF Ends

LEMMA EmptyBuffersTyped ==
    ASSUME NEW b, b = [o \in Owners |-> <<>>]
    PROVE  b \in [Owners -> {s \in Seq(Events) : Len(s) < BatchSize}]
  <1>1. <<>> \in {s \in Seq(Events) : Len(s) < BatchSize}
    BY FanoutAssumption
  <1> QED
    BY <1>1

LEMMA ClosedSocketsTyped ==
    [c \in Sockets |-> Out] \in [Sockets -> Sessions]
  BY OutTyped

LEMMA TypeInit == Init => TypeOK
  <1> SUFFICES ASSUME Init
               PROVE  TypeOK
    OBVIOUS
  <1>1. buffer \in [Owners -> {s \in Seq(Events) : Len(s) < BatchSize}]
    BY EmptyBuffersTyped DEF Init
  <1>2. socket \in [Sockets -> Sessions]
    BY ClosedSocketsTyped DEF Init
  <1>3. faults \in 0..MaxFaults
    BY FanoutAssumption DEF Init
  <1>4. /\ received \in Seq(Events)
        /\ adding \in Seq(Jobs) /\ waiting \in Seq(Jobs)
    BY DEF Init
  <1>5. up \in BOOLEAN /\ redisFull \in BOOLEAN /\ active = NoJob
    BY DEF Init
  <1>6. orphans \subseteq Jobs /\ failed \subseteq Events
    BY DEF Init
  <1> QED
    BY <1>1, <1>2, <1>3, <1>4, <1>5, <1>6 DEF TypeOK, Sessions, Metrics

\* Sessions that are rewritten stay sessions.
LEMMA BroadcastTyped ==
    ASSUME TypeOK, NEW user, NEW events \in Seq(Events), BroadcastToUser(user, events)
    PROVE  /\ socket' \in [Sockets -> Sessions]
           /\ \A c \in Sockets :
                 /\ socket'[c].owner = socket[c].owner
                 /\ socket'[c].inbox = IF socket[c].owner = user
                                       THEN socket[c].inbox \o events
                                       ELSE socket[c].inbox
  <1>1. \A c \in Sockets : socket[c] \in Sessions
    BY DEF TypeOK, Sessions, Metrics
  <1>2. socket' = [c \in Sockets |->
            IF socket[c].owner = user
            THEN [socket[c] EXCEPT !.inbox = @ \o events] ELSE socket[c]]
    BY DEF BroadcastToUser, InRoom
  <1>3. ASSUME NEW c \in Sockets
        PROVE  /\ socket[c].inbox \o events \in Seq(Events)
               /\ [socket[c] EXCEPT !.inbox = @ \o events] \in Sessions
    <2>1. socket[c].inbox \in Seq(Events)
      BY <1>1 DEF Sessions
    <2>2. socket[c].inbox \o events \in Seq(Events)
      BY <2>1, ConcatProperties
    <2> QED
      BY <1>1, <2>2 DEF Sessions
  <1>4. socket' \in [Sockets -> Sessions]
    BY <1>1, <1>2, <1>3
  <1>5. \A c \in Sockets :
           /\ [socket[c] EXCEPT !.inbox = @ \o events].owner = socket[c].owner
           /\ [socket[c] EXCEPT !.inbox = @ \o events].inbox = socket[c].inbox \o events
    BY <1>1 DEF Sessions
  <1> QED
    BY <1>2, <1>4, <1>5

LEMMA MetricsTyped ==
    ASSUME TypeOK, NEW user, BroadcastMetrics(user)
    PROVE  /\ socket' \in [Sockets -> Sessions]
           /\ \A c \in Sockets : /\ socket'[c].owner = socket[c].owner
                                 /\ socket'[c].inbox = socket[c].inbox
  <1>1. \A c \in Sockets : socket[c] \in Sessions
    BY DEF TypeOK, Sessions, Metrics
  <1>2. PICK shown \in Metrics :
          socket' = [c \in Sockets |->
            IF socket[c].owner = user
            THEN [socket[c] EXCEPT !.metrics = shown] ELSE socket[c]]
    <2>1. Shows(user) \subseteq Metrics
      BY DEF Shows, Metrics
    <2> QED
      BY <2>1 DEF BroadcastMetrics, InRoom
  <1>3. \A c \in Sockets :
           /\ [socket[c] EXCEPT !.metrics = shown] \in Sessions
           /\ [socket[c] EXCEPT !.metrics = shown].owner = socket[c].owner
           /\ [socket[c] EXCEPT !.metrics = shown].inbox = socket[c].inbox
    BY <1>1 DEF Sessions
  <1> QED
    BY <1>1, <1>2, <1>3

LEMMA RestalledTyped ==
    ASSUME NEW j \in Jobs, ~(j.stalls + 1 > MaxStalled)
    PROVE  /\ [j EXCEPT !.stalls = @ + 1] \in Jobs
           /\ [j EXCEPT !.stalls = @ + 1].events = j.events
           /\ [j EXCEPT !.stalls = @ + 1].owner = j.owner
           /\ [j EXCEPT !.stalls = @ + 1].stalls # j.stalls
  <1>1. MaxStalled \in Nat
    BY FanoutAssumption
  <1> QED
    BY <1>1 DEF Jobs

LEMMA FlushTyped ==
    ASSUME TypeOK, NEW buffers \in Buffers, Flush(buffers)
    PROVE  /\ buffer' \in [Owners -> {s \in Seq(Events) : Len(s) < BatchSize}]
           /\ adding' \in Seq(Jobs)
  <1>1. adding \in Seq(Jobs)
    BY DEF TypeOK
  <1>2. PICK list \in Seq(Cut(buffers)) :
            list \in Seq(Jobs) /\ adding' = adding \o list
    BY <1>1, FlushEffect
  <1> QED
    BY <1>1, <1>2, FlushEffect, EmptyBuffersTyped, ConcatProperties

LEMMA EndsKeepsType ==
    ASSUME TypeOK, NEW calls \in Seq(Jobs), Ends(calls),
           received' = received, failed' \subseteq Events, redisFull' = redisFull,
           faults' \in 0..MaxFaults
    PROVE  TypeOK'
  <1>1. buffer' \in [Owners -> {s \in Seq(Events) : Len(s) < BatchSize}]
    BY EndsTyped, EmptyBuffersTyped
  <1>2. socket' \in [Sockets -> Sessions]
    BY EndsTyped, ClosedSocketsTyped
  <1>3. adding' \in Seq(Jobs) /\ waiting' \in Seq(Jobs) /\ orphans' \subseteq Jobs
    BY EndsTyped, EmptySeq
  <1>4. up' \in BOOLEAN /\ active' = NoJob
    BY EndsTyped
  <1> QED
    BY <1>1, <1>2, <1>3, <1>4 DEF TypeOK, Sessions, Metrics

LEMMA TypeStep == TypeOK /\ [Next]_vars => TypeOK'
  <1> SUFFICES ASSUME TypeOK, [Next]_vars
               PROVE  TypeOK'
    OBVIOUS
  <1> USE DEF queue
  <1>0. adding \in Seq(Jobs) /\ waiting \in Seq(Jobs) /\ MaxFaults \in Nat
    BY FanoutAssumption DEF TypeOK
  <1>1. ASSUME NEW e \in Events, AddEvent(e)
        PROVE  TypeOK'
    <2>1. CASE Full(Pushed(e)[OwnerOf[e]])
      <3>1. /\ buffer' \in [Owners -> {s \in Seq(Events) : Len(s) < BatchSize}]
            /\ adding' \in Seq(Jobs)
        BY <1>1, <2>1, FlushTyped, PushedTyped DEF AddEvent
      <3> QED
        BY <1>1, <3>1, RangeOfAppend DEF AddEvent, TypeOK
    <2>2. CASE ~Full(Pushed(e)[OwnerOf[e]])
      <3>1. buffer' = Pushed(e) /\ adding' = adding
        BY <1>1, <2>2 DEF AddEvent
      <3>2. Pushed(e) \in [Owners -> {s \in Seq(Events) : Len(s) < BatchSize}]
        <4>1. BatchSize \in Nat /\ OwnerOf[e] \in Owners
          BY FanoutAssumption
        <4>2. Len(Pushed(e)[OwnerOf[e]]) < BatchSize
          BY <2>2, <4>1, PushedTyped DEF Full, Buffers
        <4>3. ASSUME NEW o \in Owners
              PROVE  Pushed(e)[o] \in {s \in Seq(Events) : Len(s) < BatchSize}
          BY <4>1, <4>2, PushedTyped DEF Buffers, TypeOK
        <4> QED
          BY <4>3, PushedTyped DEF Buffers
      <3> QED
        BY <1>1, <3>1, <3>2, RangeOfAppend DEF AddEvent, TypeOK
    <2> QED
      BY <2>1, <2>2
  <1>2. CASE FlushInterval
    <2>1. /\ buffer' \in [Owners -> {s \in Seq(Events) : Len(s) < BatchSize}]
          /\ adding' \in Seq(Jobs)
      BY <1>2, FlushTyped, BufferTyped DEF FlushInterval
    <2> QED
      BY <1>2, <2>1 DEF FlushInterval, TypeOK
  <1>3. CASE AddLands
    <2>1. /\ adding' \in Seq(Jobs) /\ waiting' \in Seq(Jobs)
      BY <1>0, <1>3, RangeOfTail, RangeOfAppend DEF AddLands
    <2> QED
      BY <1>3, <2>1 DEF AddLands, TypeOK
  <1>4. CASE AddRefused
    <2>1. adding # <<>> /\ Tail(adding) \in Seq(Jobs)
      BY <1>0, <1>4, RangeOfTail DEF AddRefused
    <2>2. faults' \in 0..MaxFaults /\ failed' \subseteq Events
      <3>1. Head(adding) \in Jobs
        BY <1>0, <2>1, RangeOfTail
      <3>2. Range(Head(adding).events) \subseteq Events
        BY <3>1, RangeOfSeq DEF Jobs
      <3> QED
        BY <1>0, <1>4, <3>2 DEF AddRefused, TypeOK
    <2>3. CASE Ends(Tail(adding))
      BY <1>4, <2>1, <2>2, <2>3, EndsKeepsType DEF AddRefused, TypeOK
    <2>4. CASE ~Ends(Tail(adding))
      BY <1>4, <2>1, <2>2, <2>4 DEF AddRefused, TypeOK
    <2> QED
      BY <2>3, <2>4
  <1>5. CASE TakeJob
    <2>1. Head(waiting) \in Jobs /\ Tail(waiting) \in Seq(Jobs)
      BY <1>0, <1>5, RangeOfTail DEF TakeJob
    <2> QED
      BY <1>5, <2>1 DEF TakeJob, TypeOK
  <1>6. CASE ProcessJob
    <2>1. active \in [phase : {"taken", "sent"}, job : Jobs] /\ active.job \in Jobs
      BY <1>6, ActiveTyped DEF ProcessJob
    <2>2. active.job.events \in Seq(Events)
      BY <2>1 DEF Jobs
    <2>3. CASE Range(active.job.events) \cap Malformed = {}
      <3>1. socket' \in [Sockets -> Sessions]
        BY <1>6, <2>2, <2>3, BroadcastTyped DEF ProcessJob
      <3>2. active' \in [phase : {"taken", "sent"}, job : Jobs]
        BY <1>6, <2>1, <2>3 DEF ProcessJob
      <3> QED
        BY <1>6, <2>3, <3>1, <3>2 DEF ProcessJob, TypeOK, Sessions, Metrics
    <2>4. CASE ~(Range(active.job.events) \cap Malformed = {})
      <3>1. Range(active.job.events) \subseteq Events
        BY <2>2, RangeOfSeq
      <3> QED
        BY <1>6, <2>4, <3>1 DEF ProcessJob, TypeOK
    <2> QED
      BY <2>3, <2>4
  <1>7. CASE CompleteJob
    BY <1>7 DEF CompleteJob, TypeOK
  <1>8. ASSUME NEW j \in orphans, StalledJob(j)
        PROVE  TypeOK'
    <2>1. j \in Jobs /\ j.events \in Seq(Events)
      BY DEF TypeOK, Jobs
    <2>2. CASE j.stalls + 1 > MaxStalled
      <3>1. Range(j.events) \subseteq Events
        BY <2>1, RangeOfSeq
      <3> QED
        BY <1>8, <2>2, <3>1 DEF StalledJob, TypeOK
    <2>3. CASE ~(j.stalls + 1 > MaxStalled)
      <3>1. <<[j EXCEPT !.stalls = @ + 1]>> \in Seq(Jobs)
        BY <2>1, <2>3, RestalledTyped
      <3>2. waiting' \in Seq(Jobs)
        BY <1>0, <1>8, <2>3, <3>1, ConcatProperties DEF StalledJob
      <3> QED
        BY <1>8, <2>3, <3>2 DEF StalledJob, TypeOK
    <2> QED
      BY <2>2, <2>3
  <1>9. ASSUME NEW c \in Sockets, NEW o \in Owners, HandleConnection(c, o)
        PROVE  TypeOK'
    BY <1>9 DEF HandleConnection, TypeOK
  <1>10. ASSUME NEW c \in Sockets, HandleDisconnect(c)
         PROVE  TypeOK'
    BY <1>10, OutTyped DEF HandleDisconnect, TypeOK, Sessions, Metrics
  <1>11. ASSUME NEW user, BroadcastMetrics(user)
         PROVE  TypeOK'
    <2>1. socket' \in [Sockets -> Sessions]
      BY <1>11, MetricsTyped
    <2> QED
      BY <1>11, <2>1 DEF BroadcastMetrics, TypeOK, Sessions, Metrics
  <1>12. CASE Exit
    <2>1. Ends(adding) /\ faults' \in 0..MaxFaults
      BY <1>0, <1>12 DEF Exit, TypeOK
    <2> QED
      BY <1>0, <1>12, <2>1, EndsKeepsType DEF Exit, TypeOK
  <1>13. CASE Restart
    BY <1>13 DEF Restart, TypeOK
  <1>14. CASE UNCHANGED vars
    BY <1>14 DEF vars, TypeOK
  <1>15. CASE MemoryChanges
    BY <1>15 DEF MemoryChanges, TypeOK
  <1> QED
    BY <1>1, <1>2, <1>3, <1>4, <1>5, <1>6, <1>7, <1>8, <1>9, <1>10, <1>11,
       <1>12, <1>13, <1>14, <1>15 DEF Next, IntervalBroadcast

\* The type invariant of LiveFanout.
THEOREM TypeCorrect == Spec => []TypeOK
  BY TypeInit, TypeStep, PTL DEF Spec

-----------------------------------------------------------------------------
(* What becomes of the batches                                              *)

LEMMA CutMembers ==
    ASSUME NEW buffers, NEW j \in Cut(buffers)
    PROVE  /\ j.owner \in Owners /\ j.stalls = 0
           /\ j.events = buffers[j.owner] /\ buffers[j.owner] # <<>>
  BY DEF Cut, Batch

LEMMA FlushBatches ==
    ASSUME TypeOK, NEW buffers \in Buffers, Flush(buffers),
           waiting' = waiting, active' = active, orphans' = orphans
    PROVE  Batches' \subseteq Batches \cup Cut(buffers)
  <1>1. adding \in Seq(Jobs)
    BY DEF TypeOK
  <1>2. PICK list \in Seq(Cut(buffers)) :
            list \in Seq(Jobs) /\ adding' = adding \o list
    BY <1>1, FlushEffect
  <1>3. Range(adding') = Range(adding) \cup Range(list)
    BY <1>1, <1>2, RangeOfConcat
  <1>4. Range(list) \subseteq Cut(buffers)
    BY RangeOfSeq
  <1> QED
    BY <1>3, <1>4 DEF Batches

LEMMA AddLandsBatches ==
    ASSUME TypeOK, AddLands
    PROVE  Batches' \subseteq Batches /\ active' = active
  <1>1. adding \in Seq(Jobs) /\ waiting \in Seq(Jobs) /\ adding # <<>>
    BY DEF TypeOK, AddLands
  <1>2. Range(waiting') = Range(waiting) \cup {Head(adding)}
    BY <1>1, RangeOfTail, RangeOfAppend DEF AddLands
  <1>3. Range(adding') \subseteq Range(adding) /\ Head(adding) \in Range(adding)
    BY <1>1, RangeOfTail DEF AddLands
  <1> QED
    BY <1>2, <1>3 DEF AddLands, Batches, queue

LEMMA RefusedBatches ==
    ASSUME TypeOK, adding # <<>>, adding' = Tail(adding), waiting' = waiting,
           active' = active, orphans' = orphans
    PROVE  Batches' \subseteq Batches
  BY RangeOfTail DEF TypeOK, Batches

\* What is left of the calls, the queue and the worker's job.
LEMMA EndsBatches ==
    ASSUME TypeOK, NEW calls \in Seq(Jobs), Range(calls) \subseteq Range(adding),
           Ends(calls)
    PROVE  Batches' \subseteq Batches
  <1>1. waiting \in Seq(Jobs)
    BY DEF TypeOK
  <1>2. PICK n \in 0..Len(calls) : waiting' = waiting \o SubSeq(calls, 1, n)
    BY EndsTyped
  <1>3. /\ SubSeq(calls, 1, n) \in Seq(Jobs)
        /\ Range(SubSeq(calls, 1, n)) \subseteq Range(calls)
    BY RangeOfPrefix
  <1>4. Range(waiting') \subseteq Range(waiting) \cup Range(adding)
    <2> DEFINE landed == SubSeq(calls, 1, n)
    <2> HIDE DEF landed
    <2>1. landed \in Seq(Jobs) /\ Range(landed) \subseteq Range(calls)
          /\ waiting' = waiting \o landed
      BY <1>2, <1>3 DEF landed
    <2>2. Range(waiting') = Range(waiting) \cup Range(landed)
      BY <1>1, <2>1, RangeConcatenation
    <2> QED
      BY <2>1, <2>2
  <1>5. Range(adding') = {}
    <2>1. adding' = <<>>
      BY EndsTyped
    <2> QED
      BY <2>1 DEF Range
  <1>6. /\ orphans' = orphans \cup (IF active = NoJob THEN {} ELSE {active.job})
        /\ active' = NoJob
    BY EndsTyped
  <1> QED
    BY <1>4, <1>5, <1>6 DEF Batches

LEMMA TakeJobBatches ==
    ASSUME TypeOK, TakeJob
    PROVE  /\ Batches' \subseteq Batches
           /\ active' # NoJob /\ active'.phase = "taken"
           /\ active'.job = Head(waiting) /\ Head(waiting) \in Range(waiting)
           /\ Range(waiting') \subseteq Range(waiting)
  <1>1. waiting \in Seq(Jobs) /\ waiting # <<>>
    BY DEF TypeOK, TakeJob
  <1>2. /\ Head(waiting) \in Range(waiting)
        /\ Range(waiting') \subseteq Range(waiting)
    BY <1>1, RangeOfTail DEF TakeJob
  <1>3. active' = [phase |-> "taken", job |-> Head(waiting)]
    BY DEF TakeJob
  <1>4. active'.phase = "taken" /\ active'.job = Head(waiting)
    BY <1>3
  <1>5. active' # NoJob
    BY <1>4 DEF NoJob
  <1> QED
    BY <1>2, <1>4, <1>5 DEF Batches, TakeJob

LEMMA ProcessJobBatches ==
    ASSUME TypeOK, ProcessJob
    PROVE  /\ Batches' \subseteq Batches
           /\ active # NoJob /\ active.job \in Jobs /\ active.job \in Batches
           /\ active' # NoJob => active'.phase = "sent" /\ active'.job = active.job
  <1>1. active \in [phase : {"taken", "sent"}, job : Jobs] /\ active # NoJob
        /\ active.job \in Jobs
    BY ActiveTyped DEF ProcessJob
  <1>2. \/ active' = NoJob
        \/ active' = [active EXCEPT !.phase = "sent"]
    BY DEF ProcessJob
  <1>3. [active EXCEPT !.phase = "sent"].job = active.job
        /\ [active EXCEPT !.phase = "sent"].phase = "sent"
    BY <1>1
  <1>4. Batches' \subseteq Batches
    BY <1>1, <1>2, <1>3 DEF ProcessJob, Batches
  <1> QED
    BY <1>1, <1>2, <1>3, <1>4, Zenon DEF Batches

LEMMA StalledBatches ==
    ASSUME TypeOK, NEW j \in orphans, StalledJob(j)
    PROVE  /\ j \in Batches /\ j \in Jobs
           /\ \/ Batches' \subseteq Batches /\ waiting' = waiting
              \/ \E k \in Jobs : /\ waiting' = <<k>> \o waiting
                                 /\ Range(waiting') = Range(waiting) \cup {k}
                                 /\ Batches' \subseteq Batches \cup {k}
                                 /\ k # j /\ k.events = j.events /\ k.owner = j.owner
  <1>1. j \in Jobs /\ waiting \in Seq(Jobs)
    BY DEF TypeOK
  <1>2. CASE j.stalls + 1 > MaxStalled
    BY <1>1, <1>2 DEF StalledJob, Batches
  <1>3. CASE ~(j.stalls + 1 > MaxStalled)
    <2> DEFINE k == [j EXCEPT !.stalls = @ + 1]
    <2>1. k \in Jobs /\ k # j /\ k.events = j.events /\ k.owner = j.owner
      BY <1>1, <1>3, RestalledTyped
    <2>2. waiting' = <<k>> \o waiting
      BY <1>3 DEF StalledJob
    <2>3. Range(waiting') = {k} \cup Range(waiting)
      <3>1. <<k>> \in Seq(Jobs) /\ Range(<<k>>) = {k}
        BY <2>1 DEF Range
      <3>2. Range(<<k>> \o waiting) = Range(<<k>>) \cup Range(waiting)
        <4> DEFINE one == <<k>>
        <4>1. one \in Seq(Jobs)
          BY <3>1
        <4> HIDE DEF one
        <4>2. Range(one \o waiting) = Range(one) \cup Range(waiting)
          BY <1>1, <4>1, RangeConcatenation
        <4> QED
          BY <4>2 DEF one
      <3> HIDE DEF k
      <3> QED
        BY <2>2, <3>1, <3>2
    <2>4. Batches' \subseteq Batches \cup {k}
      <3>1. Range(waiting') = {k} \cup Range(waiting) /\ orphans' = orphans \ {j}
            /\ adding' = adding /\ active' = active
        BY <1>3, <2>3 DEF StalledJob
      <3> HIDE DEF k
      <3> QED
        BY <3>1 DEF Batches
    <2> HIDE DEF k
    <2>5. j \in Batches
      BY DEF Batches
    <2> QED
      BY <1>1, <2>1, <2>2, <2>3, <2>4, <2>5
  <1> QED
    BY <1>2, <1>3

-----------------------------------------------------------------------------
(* Batches carry events of one owner to the connections of that owner       *)

OwnedBy(buffers) == \A o \in Owners : \A e \in Range(buffers[o]) : OwnerOf[e] = o

BatchesOwned == \A j \in Batches : \A e \in Range(j.events) : OwnerOf[e] = j.owner

LEMMA OwnersKeptParts == OwnersKept <=> OwnedBy(buffer) /\ BatchesOwned /\ BatchesKeepOwner
  BY DEF OwnersKept, OwnedBy, BatchesOwned

LEMMA EmptyRange == Range(<<>>) = {}
  BY DEF Range

LEMMA EmptyOwned ==
    ASSUME NEW b, b = [o \in Owners |-> <<>>]
    PROVE  OwnedBy(b)
  BY EmptyRange DEF OwnedBy

LEMMA PushedOwned ==
    ASSUME TypeOK, OwnedBy(buffer), NEW e \in Events
    PROVE  OwnedBy(Pushed(e))
  <1>1. OwnerOf[e] \in Owners
    BY FanoutAssumption
  <1>2. Range(Pushed(e)[OwnerOf[e]]) = Range(buffer[OwnerOf[e]]) \cup {e}
    <2>1. buffer[OwnerOf[e]] \in Seq(Events)
      BY <1>1 DEF TypeOK
    <2>2. Range(Append(buffer[OwnerOf[e]], e)) = Range(buffer[OwnerOf[e]]) \cup {e}
      BY <2>1, RangeOfAppend
    <2> QED
      BY <2>2, PushedTyped
  <1> QED
    BY <1>1, <1>2, PushedTyped DEF OwnedBy

LEMMA FlushOwned ==
    ASSUME TypeOK, BatchesOwned, NEW buffers \in Buffers, OwnedBy(buffers), Flush(buffers),
           waiting' = waiting, active' = active, orphans' = orphans
    PROVE  OwnedBy(buffer)' /\ BatchesOwned'
  <1>1. buffer' = [o \in Owners |-> <<>>]
    BY FlushEffect DEF TypeOK
  <1>2. \A j \in Cut(buffers) : \A e \in Range(j.events) : OwnerOf[e] = j.owner
    BY CutMembers DEF OwnedBy
  <1>3. BatchesOwned'
    BY <1>2, FlushBatches DEF BatchesOwned
  <1> QED
    BY <1>1, <1>3, EmptyOwned DEF OwnedBy

LEMMA EndsOwned ==
    ASSUME TypeOK, BatchesOwned, NEW calls \in Seq(Jobs), Range(calls) \subseteq Range(adding),
           Ends(calls)
    PROVE  OwnersKept'
  <1>1. buffer' = [o \in Owners |-> <<>>] /\ socket' = [c \in Sockets |-> Out]
    BY EndsTyped
  <1>2. OwnedBy(buffer)'
    BY <1>1, EmptyOwned DEF OwnedBy
  <1>3. BatchesOwned'
    BY EndsBatches DEF BatchesOwned
  <1>4. BatchesKeepOwner'
    BY <1>1, OutTyped, EmptyRange DEF BatchesKeepOwner
  <1> QED
    BY <1>2, <1>3, <1>4 DEF OwnersKept, OwnedBy, BatchesOwned

LEMMA SocketsSame ==
    ASSUME TypeOK, BatchesKeepOwner,
           \A c \in Sockets : /\ socket'[c].owner = socket[c].owner
                              /\ socket'[c].inbox = socket[c].inbox
    PROVE  BatchesKeepOwner'
  BY DEF BatchesKeepOwner

LEMMA OwnersInit == Init => OwnersKept
  <1> SUFFICES ASSUME Init
               PROVE  OwnersKept
    OBVIOUS
  <1>1. Batches = {}
    BY EmptyRange DEF Init, Batches
  <1> QED
    BY <1>1, EmptyRange, EmptyOwned, OutTyped, OwnersKeptParts
    DEF Init, BatchesOwned, BatchesKeepOwner

LEMMA OwnersStep == TypeOK /\ OwnersKept /\ [Next]_vars => OwnersKept'
  <1> SUFFICES ASSUME TypeOK, OwnersKept, [Next]_vars
               PROVE  OwnersKept'
    OBVIOUS
  <1>0. OwnedBy(buffer) /\ BatchesOwned /\ BatchesKeepOwner
    BY OwnersKeptParts
  <1>a. ASSUME OwnedBy(buffer)', BatchesOwned', BatchesKeepOwner'
        PROVE  OwnersKept'
    BY <1>a DEF OwnersKept, OwnedBy, BatchesOwned
  <1>b. ASSUME UNCHANGED <<buffer, socket>>, Batches' \subseteq Batches
        PROVE  OwnersKept'
    BY <1>0, <1>a, <1>b DEF OwnedBy, BatchesOwned, BatchesKeepOwner
  <1>c. adding \in Seq(Jobs)
    BY DEF TypeOK
  <1>1. ASSUME NEW e \in Events, AddEvent(e)
        PROVE  OwnersKept'
    <2>1. BatchesKeepOwner' /\ waiting' = waiting /\ active' = active /\ orphans' = orphans
      BY <1>0, <1>1 DEF AddEvent, BatchesKeepOwner, queue
    <2>2. CASE Full(Pushed(e)[OwnerOf[e]])
      BY <1>0, <1>1, <1>a, <2>1, <2>2, PushedTyped, PushedOwned, FlushOwned DEF AddEvent
    <2>3. CASE ~Full(Pushed(e)[OwnerOf[e]])
      <3>1. buffer' = Pushed(e) /\ adding' = adding
        BY <1>1, <2>3 DEF AddEvent
      <3>2. OwnedBy(buffer)'
        BY <1>0, <3>1, PushedOwned DEF OwnedBy
      <3>3. BatchesOwned'
        BY <1>0, <2>1, <3>1 DEF BatchesOwned, Batches
      <3> QED
        BY <1>a, <2>1, <3>2, <3>3
    <2> QED
      BY <2>2, <2>3
  <1>2. CASE FlushInterval
    <2>1. BatchesKeepOwner' /\ waiting' = waiting /\ active' = active /\ orphans' = orphans
      BY <1>0, <1>2 DEF FlushInterval, BatchesKeepOwner, queue
    <2> QED
      BY <1>0, <1>2, <1>a, <2>1, BufferTyped, FlushOwned DEF FlushInterval
  <1>3. CASE AddLands
    BY <1>3, <1>b, AddLandsBatches DEF AddLands
  <1>4. CASE AddRefused
    <2>1. CASE Ends(Tail(adding))
      BY <1>0, <1>4, <1>c, <2>1, EndsOwned, RangeOfTail DEF AddRefused
    <2>2. CASE ~Ends(Tail(adding))
      BY <1>4, <1>b, <2>2, RefusedBatches DEF AddRefused
    <2> QED
      BY <2>1, <2>2
  <1>5. CASE TakeJob
    BY <1>5, <1>b, TakeJobBatches DEF TakeJob
  <1>6. CASE ProcessJob
    <2>1. OwnedBy(buffer)' /\ BatchesOwned'
      BY <1>0, <1>6, ProcessJobBatches DEF ProcessJob, OwnedBy, BatchesOwned
    <2>2. CASE UNCHANGED socket
      BY <1>0, <1>a, <2>1, <2>2 DEF BatchesKeepOwner
    <2>3. CASE BroadcastToUser(active.job.owner, active.job.events)
      <3>1. active.job.events \in Seq(Events) /\ active.job \in Batches
        BY <1>6, ProcessJobBatches DEF Jobs
      <3>2. ASSUME NEW c \in Sockets, NEW e \in Range(socket'[c].inbox)
            PROVE  OwnerOf[e] = socket'[c].owner
        <4>1. /\ socket'[c].owner = socket[c].owner
              /\ socket'[c].inbox = IF socket[c].owner = active.job.owner
                                    THEN socket[c].inbox \o active.job.events
                                    ELSE socket[c].inbox
          BY <2>3, <3>1, BroadcastTyped
        <4>2. socket[c].inbox \in Seq(Events)
          BY DEF TypeOK
        <4>3. Range(socket[c].inbox \o active.job.events)
                 = Range(socket[c].inbox) \cup Range(active.job.events)
          BY <3>1, <4>2, RangeConcatenation
        <4> QED
          BY <1>0, <3>1, <3>2, <4>1, <4>3 DEF BatchesKeepOwner, BatchesOwned
      <3> QED
        BY <1>a, <2>1, <3>2 DEF BatchesKeepOwner
    <2> QED
      BY <1>6, <2>2, <2>3 DEF ProcessJob
  <1>7. CASE CompleteJob
    <2>1. Batches' \subseteq Batches
      BY <1>7 DEF CompleteJob, Batches
    <2> QED
      BY <1>7, <1>b, <2>1 DEF CompleteJob
  <1>8. ASSUME NEW j \in orphans, StalledJob(j)
        PROVE  OwnersKept'
    <2>1. buffer' = buffer /\ socket' = socket
      BY <1>8 DEF StalledJob
    <2>2. BatchesOwned'
      BY <1>0, <1>8, StalledBatches DEF BatchesOwned
    <2> QED
      BY <1>0, <1>a, <2>1, <2>2 DEF OwnedBy, BatchesKeepOwner
  <1>9. ASSUME NEW c \in Sockets, NEW o \in Owners, HandleConnection(c, o)
        PROVE  OwnersKept'
    <2>1. OwnedBy(buffer)' /\ BatchesOwned'
      BY <1>0, <1>9 DEF HandleConnection, OwnedBy, BatchesOwned, Batches, queue
    <2>2. ASSUME NEW d \in Sockets, NEW e \in Range(socket'[d].inbox)
          PROVE  OwnerOf[e] = socket'[d].owner
      BY <1>0, <1>9, <2>2, EmptyRange DEF HandleConnection, BatchesKeepOwner, TypeOK
    <2> QED
      BY <1>a, <2>1, <2>2 DEF BatchesKeepOwner
  <1>10. ASSUME NEW c \in Sockets, HandleDisconnect(c)
         PROVE  OwnersKept'
    <2>1. OwnedBy(buffer)' /\ BatchesOwned'
      BY <1>0, <1>10 DEF HandleDisconnect, OwnedBy, BatchesOwned, Batches, queue
    <2>2. ASSUME NEW d \in Sockets, NEW e \in Range(socket'[d].inbox)
          PROVE  OwnerOf[e] = socket'[d].owner
      BY <1>0, <1>10, <2>2, EmptyRange, OutTyped DEF HandleDisconnect, BatchesKeepOwner, TypeOK
    <2> QED
      BY <1>a, <2>1, <2>2 DEF BatchesKeepOwner
  <1>11. ASSUME NEW user, BroadcastMetrics(user)
         PROVE  OwnersKept'
    <2>1. OwnedBy(buffer)' /\ BatchesOwned'
      BY <1>0, <1>11 DEF BroadcastMetrics, OwnedBy, BatchesOwned, Batches, queue
    <2> QED
      BY <1>0, <1>11, <1>a, <2>1, MetricsTyped, SocketsSame
  <1>12. CASE Exit
    BY <1>0, <1>12, <1>c, EndsOwned DEF Exit
  <1>13. CASE Restart
    BY <1>13, <1>b DEF Restart, Batches, queue
  <1>14. CASE UNCHANGED vars
    BY <1>14, <1>b DEF vars, Batches
  <1>15. CASE MemoryChanges
    BY <1>15, <1>b DEF MemoryChanges, Batches
  <1> QED
    BY <1>1, <1>2, <1>3, <1>4, <1>5, <1>6, <1>7, <1>8, <1>9, <1>10, <1>11,
       <1>12, <1>13, <1>14, <1>15 DEF Next, IntervalBroadcast

\* The 'events' messages a connection is sent carry events of its owner only:
\* buffers and batches never mix owners, whoever's event makes a flush.  (The
\* live feed of the metrics is another message, and mixes them.)
THEOREM BatchesNeverMix == Spec => []BatchesKeepOwner
  <1>1. TypeOK /\ OwnersKept /\ [Next]_vars => (TypeOK /\ OwnersKept)'
    BY TypeStep, OwnersStep
  <1>2. OwnersKept => BatchesKeepOwner
    BY DEF OwnersKept
  <1> QED
    BY TypeInit, OwnersInit, <1>1, <1>2, PTL DEF Spec

-----------------------------------------------------------------------------
(* Sequences without repetitions                                            *)

LEMMA InjectiveEmpty == IsInjective(<<>>)
  BY DEF IsInjective

LEMMA InjectiveConcat ==
    ASSUME NEW S, NEW s \in Seq(S), NEW t \in Seq(S),
           IsInjective(s), IsInjective(t), Range(s) \cap Range(t) = {}
    PROVE  IsInjective(s \o t)
  <1> SUFFICES ASSUME NEW i \in DOMAIN (s \o t), NEW j \in DOMAIN (s \o t),
                      (s \o t)[i] = (s \o t)[j]
               PROVE  i = j
    BY DEF IsInjective
  <1>1. /\ i \in 1..(Len(s) + Len(t)) /\ j \in 1..(Len(s) + Len(t))
        /\ Len(s) \in Nat /\ Len(t) \in Nat
        /\ DOMAIN s = 1..Len(s) /\ DOMAIN t = 1..Len(t)
    BY ConcatProperties, LenProperties
  <1>2. \A n \in 1..(Len(s) + Len(t)) :
            (s \o t)[n] = IF n <= Len(s) THEN s[n] ELSE t[n - Len(s)]
    BY ConcatProperties
  <1>3. CASE i <= Len(s) /\ j <= Len(s)
    BY <1>1, <1>2, <1>3 DEF IsInjective
  <1>4. CASE i > Len(s) /\ j > Len(s)
    <2>1. i - Len(s) \in DOMAIN t /\ j - Len(s) \in DOMAIN t
      BY <1>1, <1>4
    <2>2. t[i - Len(s)] = t[j - Len(s)]
      BY <1>1, <1>2, <1>4
    <2>3. i - Len(s) = j - Len(s)
      BY <2>1, <2>2 DEF IsInjective
    <2> QED
      BY <1>1, <2>3
  <1>5. CASE i <= Len(s) /\ j > Len(s)
    <2>1. s[i] \in Range(s) /\ t[j - Len(s)] \in Range(t) /\ s[i] = t[j - Len(s)]
      BY <1>1, <1>2, <1>5 DEF Range
    <2> QED
      BY <2>1
  <1>6. CASE i > Len(s) /\ j <= Len(s)
    <2>1. t[i - Len(s)] \in Range(t) /\ s[j] \in Range(s) /\ t[i - Len(s)] = s[j]
      BY <1>1, <1>2, <1>6 DEF Range
    <2> QED
      BY <2>1
  <1> QED
    BY <1>1, <1>3, <1>4, <1>5, <1>6

LEMMA InjectiveAppend ==
    ASSUME NEW S, NEW s \in Seq(S), NEW e \in S, IsInjective(s), e \notin Range(s)
    PROVE  IsInjective(Append(s, e))
  BY DEF IsInjective, Range

LEMMA InjectiveTail ==
    ASSUME NEW S, NEW s \in Seq(S), s # <<>>, IsInjective(s)
    PROVE  IsInjective(Tail(s)) /\ Head(s) \notin Range(Tail(s))
  <1>1. /\ Len(s) \in Nat /\ Len(s) # 0 /\ DOMAIN s = 1..Len(s)
        /\ Tail(s) \in Seq(S) /\ Len(Tail(s)) = Len(s) - 1
        /\ \A i \in 1..(Len(s) - 1) : Tail(s)[i] = s[i + 1]
    BY HeadTailProperties, LenProperties, EmptySeq
  <1>2. DOMAIN Tail(s) = 1..(Len(s) - 1)
    BY <1>1, LenProperties
  <1>3. Head(s) = s[1]
    OBVIOUS
  <1>4. \A i, j \in 1..Len(s) : s[i] = s[j] => i = j
    BY <1>1 DEF IsInjective
  <1>5. \A i \in 1..(Len(s) - 1) : i + 1 \in 1..Len(s) /\ i + 1 # 1
    BY <1>1
  <1>6. 1 \in 1..Len(s)
    BY <1>1
  <1>7. \A i, j \in 1..(Len(s) - 1) : Tail(s)[i] = Tail(s)[j] => i = j
    BY <1>1, <1>4, <1>5
  <1>8. \A i \in 1..(Len(s) - 1) : Tail(s)[i] # Head(s)
    BY <1>1, <1>3, <1>4, <1>5, <1>6
  <1> QED
    BY <1>2, <1>7, <1>8 DEF IsInjective, Range

LEMMA InjectivePrefix ==
    ASSUME NEW S, NEW s \in Seq(S), NEW n \in 0..Len(s), IsInjective(s)
    PROVE  IsInjective(SubSeq(s, 1, n))
  <1>1. \A i \in 1..n : s[i] \in S
    OBVIOUS
  <1>2. /\ SubSeq(s, 1, n) \in Seq(S)
        /\ Len(SubSeq(s, 1, n)) = n
        /\ \A i \in 1..n : SubSeq(s, 1, n)[i] = s[i]
    BY <1>1, SubSeqProperties, Z3
  <1> QED
    BY <1>2 DEF IsInjective

-----------------------------------------------------------------------------
(* A connection is sent an event once                                       *)

Known == Range(received)

\* What OnePlace says of buffers that are to be flushed.
Fresh(buffers) ==
    /\ \A o \in Owners : IsInjective(buffers[o])
    /\ \A j \in Batches : \A o \in Owners : Range(j.events) \cap Range(buffers[o]) = {}
    /\ \A c \in Sockets : \A o \in Owners :
          Range(socket[c].inbox) \cap Range(buffers[o]) = {}

LEMMA BufferFresh == OnePlace => Fresh(buffer)
  BY DEF OnePlace, Fresh, NoneTwice, BatchesApart, SentIsGone

LEMMA EmptyFresh ==
    ASSUME NEW b, b = [o \in Owners |-> <<>>]
    PROVE  /\ \A o \in Owners : Range(b[o]) = {} /\ IsInjective(b[o])
  BY EmptyRange, InjectiveEmpty

\* An event that has not been received is nowhere.
LEMMA PushedFresh ==
    ASSUME TypeOK, OnePlace, NEW e \in Events, e \notin Known
    PROVE  /\ Fresh(Pushed(e))
           /\ \A o \in Owners : Range(Pushed(e)[o]) \subseteq Known \cup {e}
  <1>1. OwnerOf[e] \in Owners
    BY FanoutAssumption
  <1>2. buffer[OwnerOf[e]] \in Seq(Events) /\ IsInjective(buffer[OwnerOf[e]])
    BY <1>1 DEF TypeOK, OnePlace, NoneTwice
  <1>3. /\ \A o \in Owners : e \notin Range(buffer[o])
        /\ \A j \in Batches : e \notin Range(j.events)
        /\ \A c \in Sockets : e \notin Range(socket[c].inbox)
    BY DEF OnePlace, ReceivedOnly, Known
  <1>4. Range(Append(buffer[OwnerOf[e]], e)) = Range(buffer[OwnerOf[e]]) \cup {e}
    BY <1>2, RangeOfAppend
  <1>5. IsInjective(Append(buffer[OwnerOf[e]], e))
    BY <1>1, <1>2, <1>3, InjectiveAppend
  <1>6. \A o \in Owners : /\ Range(Pushed(e)[o]) \subseteq Range(buffer[o]) \cup {e}
                          /\ IsInjective(Pushed(e)[o])
    BY <1>1, <1>4, <1>5, PushedTyped, BufferFresh DEF Fresh
  <1>7. \A o \in Owners : Range(buffer[o]) \subseteq Known
    BY DEF OnePlace, ReceivedOnly, Known
  <1>8. Fresh(buffer)
    BY BufferFresh
  <1>9. ASSUME NEW o \in Owners, NEW S, e \notin S, S \cap Range(buffer[o]) = {}
        PROVE  S \cap Range(Pushed(e)[o]) = {}
    BY <1>6, <1>9
  <1>10. \A j \in Batches : \A o \in Owners : Range(j.events) \cap Range(Pushed(e)[o]) = {}
    BY <1>3, <1>8, <1>9 DEF Fresh
  <1>11. \A c \in Sockets : \A o \in Owners :
            Range(socket[c].inbox) \cap Range(Pushed(e)[o]) = {}
    BY <1>3, <1>8, <1>9 DEF Fresh
  <1>12. \A o \in Owners : Range(Pushed(e)[o]) \subseteq Known \cup {e}
    BY <1>6, <1>7
  <1> QED
    BY <1>6, <1>10, <1>11, <1>12 DEF Fresh

LEMMA NonEmptyRange ==
    ASSUME NEW s \in Seq(Events), s # <<>>
    PROVE  Range(s) # {}
  BY DEF Range

LEMMA JobsNonEmpty ==
    ASSUME NEW j \in Jobs
    PROVE  j.events \in Seq(Events) /\ Range(j.events) # {}
  <1>1. j.events \in Seq(Events) /\ j.events # <<>>
    BY DEF Jobs
  <1> QED
    BY <1>1, NonEmptyRange

LEMMA BatchesAreJobs == TypeOK => Batches \subseteq Jobs
  <1> SUFFICES ASSUME TypeOK
               PROVE  Batches \subseteq Jobs
    OBVIOUS
  <1>1. Range(adding) \subseteq Jobs /\ Range(waiting) \subseteq Jobs
    BY RangeOfSeq DEF TypeOK
  <1> QED
    BY <1>1, ActiveTyped DEF Batches, TypeOK

\* The batches a flush cuts are new, and share no event with another.
LEMMA CutApart ==
    ASSUME TypeOK, OnePlace, NEW buffers \in Buffers, Fresh(buffers), OwnedBy(buffers)
    PROVE  /\ Cut(buffers) \cap Batches = {}
           /\ \A j \in Cut(buffers) : IsInjective(j.events)
           /\ \A j \in Cut(buffers), k \in Cut(buffers) \cup Batches :
                 j # k => Range(j.events) \cap Range(k.events) = {}
           /\ \A c \in Sockets : \A j \in Cut(buffers) :
                 Range(socket[c].inbox) \cap Range(j.events) = {}
  <1>1. \A j \in Cut(buffers) : /\ j.owner \in Owners /\ j.events = buffers[j.owner]
                                /\ Range(j.events) # {}
    BY CutMembers, CutTyped, JobsNonEmpty
  <1>2. \A j \in Cut(buffers), k \in Batches : Range(j.events) \cap Range(k.events) = {}
    BY <1>1 DEF Fresh
  <1>3. \A j \in Cut(buffers) : j \notin Batches
    BY <1>1, <1>2
  <1>4. ASSUME NEW j \in Cut(buffers), NEW k \in Cut(buffers), j # k
        PROVE  Range(j.events) \cap Range(k.events) = {}
    <2>1. j.owner # k.owner
      BY <1>4 DEF Cut, Batch
    <2> QED
      BY <1>1, <2>1 DEF OwnedBy
  <1> QED
    BY <1>1, <1>2, <1>3, <1>4 DEF Fresh

LEMMA FlushOnePlace ==
    ASSUME TypeOK, OnePlace, NEW buffers \in Buffers, Fresh(buffers), OwnedBy(buffers),
           Flush(buffers), IsInjective(received'), Known \subseteq Known',
           \A o \in Owners : Range(buffers[o]) \subseteq Known',
           waiting' = waiting, active' = active, orphans' = orphans, socket' = socket
    PROVE  OnePlace'
  <1>1. adding \in Seq(Jobs)
    BY DEF TypeOK
  <1>2. PICK list \in Seq(Cut(buffers)) :
            IsInjective(list) /\ list \in Seq(Jobs) /\ adding' = adding \o list
    BY <1>1, FlushEffect
  <1>3. Range(adding') = Range(adding) \cup Range(list) /\ Range(list) \subseteq Cut(buffers)
    BY <1>1, <1>2, RangeOfConcat, RangeOfSeq
  <1>4. Batches' \subseteq Batches \cup Cut(buffers)
    BY FlushBatches
  <1>5. \A o \in Owners : Range(buffer'[o]) = {} /\ IsInjective(buffer'[o])
    BY <1>1, FlushEffect, EmptyFresh
  <1>6. ReceivedOnly'
    BY <1>4, <1>5, CutMembers DEF ReceivedOnly, OnePlace, Known
  <1>7. NoneTwice'
    BY <1>4, <1>5, CutApart DEF NoneTwice, OnePlace
  <1>8. BatchesApart'
    BY <1>4, <1>5, CutApart DEF BatchesApart, OnePlace
  <1>9. QueuedOnce'
    <2>1. Range(adding) \cup Range(waiting) \cup orphans \subseteq Batches
          /\ (active # NoJob => active.job \in Batches)
      BY DEF Batches
    <2>2. Range(list) \cap Batches = {}
      BY <1>3, CutApart
    <2>3. QueuedOnce
      BY DEF OnePlace
    <2>4. IsInjective(adding')
      BY <1>1, <1>2, <2>1, <2>2, <2>3, InjectiveConcat DEF QueuedOnce
    <2>5. /\ Range(list) \cap Range(waiting) = {}
          /\ Range(list) \cap orphans = {}
          /\ active # NoJob => active.job \notin Range(list)
      BY <2>1, <2>2
    <2> QED
      BY <1>3, <2>3, <2>4, <2>5 DEF QueuedOnce
  <1>10. SentIsGone'
    BY <1>4, <1>5, CutApart DEF SentIsGone, OnePlace, NotSent
  <1> QED
    BY <1>6, <1>7, <1>8, <1>9, <1>10 DEF OnePlace

\* Steps that only take batches away, or move them.
LEMMA FewerBatches ==
    ASSUME OnePlace, received' = received, buffer' = buffer, socket' = socket,
           Batches' \subseteq Batches, NotSent' \subseteq NotSent, QueuedOnce'
    PROVE  OnePlace'
  BY DEF OnePlace, ReceivedOnly, NoneTwice, BatchesApart, SentIsGone

LEMMA EndsOnePlace ==
    ASSUME TypeOK, OnePlace, NEW calls \in Seq(Jobs), IsInjective(calls),
           Range(calls) \subseteq Range(adding), Ends(calls), received' = received
    PROVE  OnePlace'
  <1>1. Batches' \subseteq Batches
    BY EndsBatches
  <1>2. \A o \in Owners : Range(buffer'[o]) = {} /\ IsInjective(buffer'[o])
    BY EndsTyped, EmptyFresh
  <1>3. \A c \in Sockets : Range(socket'[c].inbox) = {} /\ IsInjective(socket'[c].inbox)
    BY EndsTyped, OutTyped, EmptyRange, InjectiveEmpty
  <1>4. ReceivedOnly'
    BY <1>1, <1>2, <1>3 DEF ReceivedOnly, OnePlace
  <1>5. NoneTwice'
    BY <1>1, <1>2, <1>3 DEF NoneTwice, OnePlace
  <1>7. BatchesApart'
    BY <1>1, <1>2 DEF BatchesApart, OnePlace
  <1>8. SentIsGone'
    BY <1>3 DEF SentIsGone
  <1>6. QueuedOnce'
    <2>1. waiting \in Seq(Jobs) /\ QueuedOnce
      BY DEF TypeOK, OnePlace
    <2>2. PICK n \in 0..Len(calls) : waiting' = waiting \o SubSeq(calls, 1, n)
      BY EndsTyped
    <2>3. /\ SubSeq(calls, 1, n) \in Seq(Jobs)
          /\ Range(SubSeq(calls, 1, n)) \subseteq Range(adding)
          /\ IsInjective(SubSeq(calls, 1, n))
      BY RangeOfPrefix, InjectivePrefix
    <2>4. IsInjective(waiting')
      BY <2>1, <2>2, <2>3, InjectiveConcat DEF QueuedOnce
    <2>6. Range(waiting') \subseteq Range(waiting) \cup Range(adding)
      <3> DEFINE landed == SubSeq(calls, 1, n)
      <3> HIDE DEF landed
      <3>1. landed \in Seq(Jobs) /\ Range(landed) \subseteq Range(adding)
            /\ waiting' = waiting \o landed
        BY <2>2, <2>3 DEF landed
      <3>2. Range(waiting') = Range(waiting) \cup Range(landed)
        BY <2>1, <3>1, RangeConcatenation
      <3> QED
        BY <3>1, <3>2
    <2>7. adding' = <<>> /\ active' = NoJob
          /\ orphans' = orphans \cup (IF active = NoJob THEN {} ELSE {active.job})
      BY EndsTyped
    <2>8. Range(adding') = {} /\ IsInjective(adding')
      BY <2>7, EmptyRange, InjectiveEmpty
    <2> QED
      BY <2>1, <2>4, <2>6, <2>7, <2>8 DEF QueuedOnce
  <1> QED
    BY <1>4, <1>5, <1>6, <1>7, <1>8 DEF OnePlace

LEMMA OnePlaceInit == Init => OnePlace
  <1> SUFFICES ASSUME Init
               PROVE  OnePlace
    OBVIOUS
  <1>1. Batches = {}
    BY EmptyRange DEF Init, Batches
  <1>2. \A o \in Owners : Range(buffer[o]) = {} /\ IsInjective(buffer[o])
    BY EmptyFresh DEF Init
  <1>3. \A c \in Sockets : Range(socket[c].inbox) = {} /\ IsInjective(socket[c].inbox)
    BY OutTyped, EmptyRange, InjectiveEmpty DEF Init
  <1>4. ReceivedOnly /\ NoneTwice /\ BatchesApart
    BY <1>1, <1>2, <1>3, InjectiveEmpty DEF Init, ReceivedOnly, NoneTwice, BatchesApart
  <1>5. QueuedOnce
    BY EmptyRange, InjectiveEmpty DEF Init, QueuedOnce
  <1>6. SentIsGone
    BY <1>3 DEF SentIsGone
  <1> QED
    BY <1>4, <1>5, <1>6 DEF OnePlace

LEMMA AddEventOnePlace ==
    ASSUME TypeOK, OnePlace, OwnedBy(buffer), NEW e \in Events, AddEvent(e)
    PROVE  OnePlace'
  <1>1. /\ received \in Seq(Events) /\ e \notin Known
        /\ received' = Append(received, e) /\ IsInjective(received)
        /\ UNCHANGED <<waiting, active, orphans, socket>>
    BY DEF AddEvent, TypeOK, Known, OnePlace, ReceivedOnly, queue
  <1>2. Known' = Known \cup {e}
    BY <1>1, RangeOfAppend DEF Known
  <1>3. IsInjective(received')
    BY <1>1, InjectiveAppend DEF Known
  <1>4. /\ Fresh(Pushed(e)) /\ OwnedBy(Pushed(e)) /\ Pushed(e) \in Buffers
        /\ \A o \in Owners : Range(Pushed(e)[o]) \subseteq Known'
    BY <1>1, <1>2, PushedFresh, PushedOwned, PushedTyped
  <1>5. CASE Full(Pushed(e)[OwnerOf[e]])
    BY <1>1, <1>2, <1>3, <1>4, <1>5, FlushOnePlace DEF AddEvent
  <1>6. CASE ~Full(Pushed(e)[OwnerOf[e]])
    <2>1. buffer' = Pushed(e) /\ adding' = adding
      BY <1>6 DEF AddEvent
    <2>2. Batches' = Batches /\ NotSent' = NotSent
      BY <1>1, <2>1 DEF Batches, NotSent
    <2>3. ReceivedOnly'
      BY <1>1, <1>2, <1>3, <1>4, <2>1, <2>2 DEF ReceivedOnly, OnePlace, Known
    <2>4. NoneTwice'
      BY <1>1, <1>4, <2>1, <2>2 DEF NoneTwice, OnePlace, Fresh
    <2>5. BatchesApart'
      BY <1>4, <2>1, <2>2 DEF BatchesApart, OnePlace, Fresh
    <2>6. QueuedOnce'
      BY <1>1, <2>1 DEF QueuedOnce, OnePlace
    <2>7. SentIsGone'
      BY <1>1, <1>4, <2>1, <2>2 DEF SentIsGone, OnePlace, Fresh
    <2> QED
      BY <2>3, <2>4, <2>5, <2>6, <2>7 DEF OnePlace
  <1> QED
    BY <1>5, <1>6

LEMMA AddLandsOnePlace ==
    ASSUME TypeOK, OnePlace, AddLands
    PROVE  OnePlace'
  <1>1. adding \in Seq(Jobs) /\ waiting \in Seq(Jobs) /\ adding # <<>> /\ QueuedOnce
    BY DEF AddLands, TypeOK, OnePlace
  <1>2. /\ adding' = Tail(adding) /\ waiting' = Append(waiting, Head(adding))
        /\ UNCHANGED <<received, buffer, active, orphans, socket>>
    BY DEF AddLands
  <1>3. /\ Head(adding) \in Range(adding) /\ Range(adding') \subseteq Range(adding)
        /\ Head(adding) \in Jobs
    BY <1>1, <1>2, RangeOfTail
  <1>4. IsInjective(adding') /\ Head(adding) \notin Range(adding')
    BY <1>1, <1>2, InjectiveTail DEF QueuedOnce
  <1>5. Range(waiting') = Range(waiting) \cup {Head(adding)}
    BY <1>1, <1>2, <1>3, RangeOfAppend
  <1>6. IsInjective(waiting')
    BY <1>1, <1>2, <1>3, InjectiveAppend DEF QueuedOnce
  <1>7. QueuedOnce'
    BY <1>1, <1>2, <1>3, <1>4, <1>5, <1>6 DEF QueuedOnce
  <1>8. Batches' \subseteq Batches /\ NotSent' \subseteq NotSent
    BY <1>2, AddLandsBatches DEF NotSent
  <1> QED
    BY <1>2, <1>7, <1>8, FewerBatches

LEMMA RefusedOnePlace ==
    ASSUME TypeOK, OnePlace, AddRefused
    PROVE  OnePlace'
  <1>1. adding \in Seq(Jobs) /\ adding # <<>> /\ QueuedOnce /\ received' = received
    BY DEF AddRefused, TypeOK, OnePlace
  <1>2. /\ Tail(adding) \in Seq(Jobs) /\ Range(Tail(adding)) \subseteq Range(adding)
        /\ IsInjective(Tail(adding))
    BY <1>1, RangeOfTail, InjectiveTail DEF QueuedOnce
  <1>3. CASE Ends(Tail(adding))
    BY <1>1, <1>2, <1>3, EndsOnePlace
  <1>4. CASE ~Ends(Tail(adding))
    <2>1. adding' = Tail(adding) /\ UNCHANGED <<buffer, waiting, socket, orphans, active>>
      BY <1>4 DEF AddRefused
    <2>2. QueuedOnce'
      BY <1>1, <1>2, <2>1 DEF QueuedOnce
    <2>3. Batches' \subseteq Batches /\ NotSent' \subseteq NotSent
      BY <1>1, <2>1, RefusedBatches DEF NotSent
    <2> QED
      BY <1>1, <2>1, <2>2, <2>3, FewerBatches
  <1> QED
    BY <1>3, <1>4

LEMMA TakeJobOnePlace ==
    ASSUME TypeOK, OnePlace, TakeJob
    PROVE  OnePlace'
  <1>1. /\ waiting \in Seq(Jobs) /\ waiting # <<>> /\ QueuedOnce /\ active = NoJob
        /\ waiting' = Tail(waiting) /\ UNCHANGED <<received, buffer, adding, orphans, socket>>
    BY DEF TakeJob, TypeOK, OnePlace
  <1>2. IsInjective(waiting') /\ Head(waiting) \notin Range(waiting')
    BY <1>1, InjectiveTail DEF QueuedOnce
  <1>3. /\ active'.job = Head(waiting) /\ Head(waiting) \in Range(waiting)
        /\ Range(waiting') \subseteq Range(waiting) /\ Batches' \subseteq Batches
    BY TakeJobBatches
  <1>4. QueuedOnce'
    BY <1>1, <1>2, <1>3 DEF QueuedOnce
  <1>5. NotSent = Batches
    BY <1>1, ActiveTyped DEF NotSent
  <1> QED
    BY <1>1, <1>3, <1>4, <1>5, FewerBatches DEF NotSent

LEMMA ProcessJobOnePlace ==
    ASSUME TypeOK, OnePlace, ProcessJob
    PROVE  OnePlace'
  <1> DEFINE s == active.job.events
  <1>1. /\ active.phase = "taken" /\ active # NoJob /\ active.job \in Batches
        /\ active.job \in NotSent /\ s \in Seq(Events)
        /\ UNCHANGED <<received, buffer, adding, waiting, orphans>>
        /\ Batches' \subseteq Batches
    BY ProcessJobBatches DEF ProcessJob, NotSent, Jobs
  <1>2. active' # NoJob => active'.phase = "sent" /\ active'.job = active.job
    BY ProcessJobBatches
  <1>3. QueuedOnce'
    BY <1>1, <1>2 DEF QueuedOnce, OnePlace
  <1>4. NotSent' \subseteq NotSent
    BY <1>1 DEF NotSent
  <1>5. CASE UNCHANGED socket
    BY <1>1, <1>3, <1>4, <1>5, FewerBatches
  <1>6. CASE socket' # socket
    <2>1. BroadcastToUser(active.job.owner, s) /\ active' = [active EXCEPT !.phase = "sent"]
      BY <1>6 DEF ProcessJob
    <2>2. active' # NoJob
      <3>1. active \in [phase : {"taken", "sent"}, job : Jobs]
        BY <1>1, ActiveTyped
      <3> QED
        BY <2>1, <3>1 DEF NoJob
    <2>3. \A j \in NotSent' : j \in Batches /\ j # active.job
      BY <1>1, <1>2, <2>2 DEF NotSent
    <2>4. ASSUME NEW c \in Sockets
          PROVE  /\ Range(socket'[c].inbox) \subseteq Range(socket[c].inbox) \cup Range(s)
                 /\ IsInjective(socket'[c].inbox)
      <3>1. socket'[c].inbox = IF socket[c].owner = active.job.owner
                               THEN socket[c].inbox \o s ELSE socket[c].inbox
        BY <1>1, <2>1, BroadcastTyped
      <3>2. socket[c].inbox \in Seq(Events)
        BY DEF TypeOK
      <3>3. Range(socket[c].inbox \o s) = Range(socket[c].inbox) \cup Range(s)
        BY <1>1, <3>2, RangeConcatenation
      <3>4. IsInjective(socket[c].inbox) /\ IsInjective(s)
        BY <1>1 DEF OnePlace, NoneTwice
      <3>5. Range(socket[c].inbox) \cap Range(s) = {}
        BY <1>1 DEF OnePlace, SentIsGone
      <3>6. IsInjective(socket[c].inbox \o s)
        BY <1>1, <3>2, <3>4, <3>5, InjectiveConcat
      <3> QED
        BY <3>1, <3>3, <3>4, <3>6
    <2> HIDE DEF s
    <2>5. Range(s) \subseteq Range(received)
      BY <1>1 DEF OnePlace, ReceivedOnly, s
    <2>6. ReceivedOnly'
      BY <1>1, <2>4, <2>5 DEF OnePlace, ReceivedOnly
    <2>7. NoneTwice'
      BY <1>1, <2>4 DEF OnePlace, NoneTwice
    <2>8. BatchesApart'
      BY <1>1 DEF OnePlace, BatchesApart
    <2>9. /\ \A o \in Owners : Range(s) \cap Range(buffer[o]) = {}
          /\ \A j \in NotSent' : Range(s) \cap Range(j.events) = {}
      BY <1>1, <2>3 DEF OnePlace, BatchesApart, s
    <2>10. SentIsGone'
      BY <1>1, <1>4, <2>4, <2>9 DEF OnePlace, SentIsGone
    <2> QED
      BY <1>3, <2>6, <2>7, <2>8, <2>10 DEF OnePlace
  <1> QED
    BY <1>5, <1>6

LEMMA CompleteJobOnePlace ==
    ASSUME TypeOK, OnePlace, CompleteJob
    PROVE  OnePlace'
  <1>1. /\ active' = NoJob /\ active # NoJob
        /\ UNCHANGED <<received, buffer, adding, waiting, orphans, socket>>
    BY ActiveTyped DEF CompleteJob
  <1>2. QueuedOnce'
    BY <1>1 DEF QueuedOnce, OnePlace
  <1>3. Batches' \subseteq Batches /\ active.job \notin Batches'
    BY <1>1 DEF Batches, QueuedOnce, OnePlace
  <1> QED
    BY <1>1, <1>2, <1>3, FewerBatches DEF NotSent

LEMMA StalledOnePlace ==
    ASSUME TypeOK, OnePlace, NEW j \in orphans, StalledJob(j)
    PROVE  OnePlace'
  <1>1. /\ orphans' = orphans \ {j}
        /\ UNCHANGED <<received, buffer, adding, active, socket>>
        /\ waiting \in Seq(Jobs) /\ QueuedOnce /\ j \in Batches /\ j \in Jobs
    BY StalledBatches DEF StalledJob, TypeOK, OnePlace
  <1>2. CASE Batches' \subseteq Batches /\ waiting' = waiting
    <2>1. QueuedOnce'
      BY <1>1, <1>2 DEF QueuedOnce
    <2> QED
      BY <1>1, <1>2, <2>1, FewerBatches DEF NotSent
  <1>3. ASSUME NEW k \in Jobs, waiting' = <<k>> \o waiting,
               Range(waiting') = Range(waiting) \cup {k},
               Batches' \subseteq Batches \cup {k}, k # j, k.events = j.events
        PROVE  OnePlace'
    <2>1. j \notin Batches'
      BY <1>1, <1>3 DEF Batches, QueuedOnce
    <2>2. \A b \in Batches : b # j => Range(b.events) \cap Range(k.events) = {}
      BY <1>1, <1>3 DEF OnePlace, BatchesApart
    <2>3. k \notin Batches
      <3>1. Range(k.events) # {}
        BY JobsNonEmpty
      <3> QED
        BY <1>3, <2>2, <3>1
    <2>4. IsInjective(waiting')
      <3> DEFINE one == <<k>>
      <3>1. one \in Seq(Jobs) /\ Range(one) = {k} /\ IsInjective(one)
        BY DEF Range, IsInjective
      <3> HIDE DEF one
      <3>2. Range(one) \cap Range(waiting) = {}
        BY <2>3, <3>1 DEF Batches
      <3>3. IsInjective(one \o waiting)
        BY <1>1, <3>1, <3>2, InjectiveConcat DEF QueuedOnce
      <3> QED
        BY <1>3, <3>3 DEF one
    <2>5. QueuedOnce'
      <3>1. k \notin Range(adding) /\ k \notin orphans /\ (active # NoJob => active.job # k)
        BY <2>3 DEF Batches
      <3> QED
        BY <1>1, <1>3, <2>4, <3>1 DEF QueuedOnce
    <2>6. ReceivedOnly'
      BY <1>1, <1>3 DEF OnePlace, ReceivedOnly
    <2>7. NoneTwice'
      BY <1>1, <1>3 DEF OnePlace, NoneTwice
    <2>8. BatchesApart'
      BY <1>1, <1>3, <2>1, <2>2 DEF OnePlace, BatchesApart
    <2>9. j \in NotSent
      BY <1>1, ActiveTyped DEF NotSent, QueuedOnce
    <2>10. SentIsGone'
      BY <1>1, <1>3, <2>9 DEF OnePlace, SentIsGone, NotSent
    <2> QED
      BY <2>5, <2>6, <2>7, <2>8, <2>10 DEF OnePlace
  <1> QED
    BY <1>2, <1>3, StalledBatches

LEMMA SocketsOnePlace ==
    ASSUME OnePlace, UNCHANGED <<received, buffer, adding, waiting, active, orphans>>,
           \A c \in Sockets : socket'[c].inbox = socket[c].inbox \/ socket'[c].inbox = <<>>
    PROVE  OnePlace'
  <1>1. Batches' = Batches /\ NotSent' = NotSent
    BY DEF Batches, NotSent
  <1>2. \A c \in Sockets : \/ socket'[c].inbox = socket[c].inbox
                           \/ /\ Range(socket'[c].inbox) = {}
                              /\ IsInjective(socket'[c].inbox)
    BY EmptyRange, InjectiveEmpty
  <1>3. ReceivedOnly'
    BY <1>1, <1>2 DEF OnePlace, ReceivedOnly
  <1>4. NoneTwice'
    BY <1>1, <1>2 DEF OnePlace, NoneTwice
  <1>5. BatchesApart' /\ QueuedOnce'
    BY <1>1 DEF OnePlace, BatchesApart, QueuedOnce
  <1>6. SentIsGone'
    BY <1>1, <1>2 DEF OnePlace, SentIsGone
  <1> QED
    BY <1>3, <1>4, <1>5, <1>6 DEF OnePlace

LEMMA OnePlaceStep == TypeOK /\ OwnersKept /\ OnePlace /\ [Next]_vars => OnePlace'
  <1> SUFFICES ASSUME TypeOK, OwnersKept, OnePlace, [Next]_vars
               PROVE  OnePlace'
    OBVIOUS
  <1>0. OwnedBy(buffer) /\ adding \in Seq(Jobs) /\ IsInjective(adding)
    BY OwnersKeptParts DEF TypeOK, OnePlace, QueuedOnce
  <1>1. ASSUME NEW e \in Events, AddEvent(e)
        PROVE  OnePlace'
    BY <1>0, <1>1, AddEventOnePlace
  <1>2. CASE FlushInterval
    <2>1. \A o \in Owners : Range(buffer[o]) \subseteq Known
      BY DEF OnePlace, ReceivedOnly, Known
    <2>2. IsInjective(received') /\ Known' = Known
      BY <1>2 DEF FlushInterval, OnePlace, ReceivedOnly, Known
    <2>3. UNCHANGED <<waiting, active, orphans, socket>> /\ Flush(buffer)
      BY <1>2 DEF FlushInterval, queue
    <2> QED
      BY <1>0, <2>1, <2>2, <2>3, BufferTyped, BufferFresh, FlushOnePlace
  <1>3. CASE AddLands
    BY <1>3, AddLandsOnePlace
  <1>4. CASE AddRefused
    BY <1>4, RefusedOnePlace
  <1>5. CASE TakeJob
    BY <1>5, TakeJobOnePlace
  <1>6. CASE ProcessJob
    BY <1>6, ProcessJobOnePlace
  <1>7. CASE CompleteJob
    BY <1>7, CompleteJobOnePlace
  <1>8. ASSUME NEW j \in orphans, StalledJob(j)
        PROVE  OnePlace'
    BY <1>8, StalledOnePlace
  <1>9. ASSUME NEW c \in Sockets, NEW o \in Owners, HandleConnection(c, o)
        PROVE  OnePlace'
    BY <1>9, SocketsOnePlace DEF HandleConnection, queue, TypeOK
  <1>10. ASSUME NEW c \in Sockets, HandleDisconnect(c)
         PROVE  OnePlace'
    BY <1>10, SocketsOnePlace, OutTyped DEF HandleDisconnect, queue, TypeOK
  <1>11. ASSUME NEW user, BroadcastMetrics(user)
         PROVE  OnePlace'
    BY <1>11, SocketsOnePlace, MetricsTyped DEF BroadcastMetrics, queue
  <1>12. CASE Exit
    BY <1>0, <1>12, EndsOnePlace DEF Exit
  <1>13. CASE Restart
    BY <1>13, SocketsOnePlace DEF Restart, queue
  <1>14. CASE UNCHANGED vars
    BY <1>14, SocketsOnePlace DEF vars
  <1>15. CASE MemoryChanges
    BY <1>15, SocketsOnePlace DEF MemoryChanges
  <1> QED
    BY <1>1, <1>2, <1>3, <1>4, <1>5, <1>6, <1>7, <1>8, <1>9, <1>10, <1>11,
       <1>12, <1>13, <1>14, <1>15 DEF Next, IntervalBroadcast

\* A connection is sent an event at most once: whatever is cut by size or by
\* time, taken, stalled and run again, an event that is not sent yet is in
\* one place, and a job that has been sent is only run again for sockets that
\* connected after.
THEOREM SentOnce == Spec => []OncePerConnection
  <1>1. TypeOK /\ OwnersKept /\ OnePlace /\ [Next]_vars
           => (TypeOK /\ OwnersKept /\ OnePlace)'
    BY TypeStep, OwnersStep, OnePlaceStep
  <1>2. OnePlace => OncePerConnection
    BY DEF OnePlace, NoneTwice, IsInjective, OncePerConnection
  <1> QED
    BY TypeInit, OwnersInit, OnePlaceInit, <1>1, <1>2, PTL DEF Spec

-----------------------------------------------------------------------------
(* Sequences that are sorted by arrival                                     *)

LEMMA PlaceOf ==
    ASSUME NEW r \in Seq(Events), IsInjective(r), NEW i \in DOMAIN r
    PROVE  Place(r, r[i]) = i
  BY DEF Place, IsInjective

\* An event that arrives leaves the others their places and comes last.
LEMMA PlaceKept ==
    ASSUME NEW r \in Seq(Events), IsInjective(r), NEW e \in Events, e \notin Range(r)
    PROVE  /\ \A f \in Range(r) : /\ Place(Append(r, e), f) = Place(r, f)
                                  /\ Place(r, f) < Place(Append(r, e), e)
  <1>1. /\ Append(r, e) \in Seq(Events) /\ IsInjective(Append(r, e))
    BY AppendProperties, InjectiveAppend
  <1>2. /\ Len(r) \in Nat /\ DOMAIN r = 1..Len(r) /\ DOMAIN Append(r, e) = 1..(Len(r) + 1)
        /\ \A i \in 1..Len(r) : Append(r, e)[i] = r[i]
        /\ Append(r, e)[Len(r) + 1] = e
    BY AppendProperties, LenProperties
  <1> DEFINE a == Append(r, e)
  <1> HIDE DEF a
  <1>3. a \in Seq(Events) /\ IsInjective(a) /\ Len(r) + 1 \in DOMAIN a /\ a[Len(r) + 1] = e
    BY <1>1, <1>2 DEF a
  <1>4. Place(a, e) = Len(r) + 1
    BY <1>3, PlaceOf
  <1>5. ASSUME NEW i \in DOMAIN r
        PROVE  Place(r, r[i]) = i /\ Place(a, r[i]) = i
    <2>1. i \in DOMAIN a /\ a[i] = r[i]
      BY <1>2 DEF a
    <2>2. Place(a, a[i]) = i
      BY <1>3, <2>1, PlaceOf
    <2> QED
      BY <2>1, <2>2, PlaceOf
  <1> QED
    BY <1>2, <1>4, <1>5 DEF Range, a

LEMMA EarlierKept ==
    ASSUME NEW r \in Seq(Events), IsInjective(r), NEW e \in Events, e \notin Range(r)
    PROVE  /\ \A f, g \in Range(r) : Earlier(r, f, g) => Earlier(Append(r, e), f, g)
           /\ \A f \in Range(r) : Earlier(Append(r, e), f, e)
  BY PlaceKept DEF Earlier

LEMMA SortedKept ==
    ASSUME NEW r \in Seq(Events), IsInjective(r), NEW e \in Events, e \notin Range(r)
    PROVE  /\ \A s \in Seq(Range(r)) : Sorted(r, s) => Sorted(Append(r, e), s)
           /\ \A s, t : Range(s) \subseteq Range(r) /\ Range(t) \subseteq Range(r)
                          /\ Before(r, s, t) => Before(Append(r, e), s, t)
  BY EarlierKept DEF Sorted, Before

LEMMA SortedEmpty ==
    ASSUME NEW r
    PROVE  /\ Sorted(r, <<>>) /\ JobsSorted(r, <<>>)
           /\ \A s, t : Range(s) = {} \/ Range(t) = {} => Before(r, s, t)
  BY DEF Sorted, JobsSorted, Before

LEMMA SortedAppend ==
    ASSUME NEW r, NEW s \in Seq(Events), NEW e \in Events, Sorted(r, s),
           \A f \in Range(s) : Earlier(r, f, e)
    PROVE  Sorted(r, Append(s, e))
  <1> SUFFICES ASSUME NEW i \in DOMAIN Append(s, e), NEW j \in DOMAIN Append(s, e), i < j
               PROVE  Earlier(r, Append(s, e)[i], Append(s, e)[j])
    BY DEF Sorted
  <1>1. /\ Len(s) \in Nat /\ DOMAIN s = 1..Len(s) /\ DOMAIN Append(s, e) = 1..(Len(s) + 1)
        /\ \A n \in 1..Len(s) : Append(s, e)[n] = s[n]
        /\ Append(s, e)[Len(s) + 1] = e
    BY AppendProperties, LenProperties
  <1>2. i \in 1..Len(s) /\ s[i] \in Range(s) /\ Append(s, e)[i] = s[i]
    BY <1>1 DEF Range
  <1>3. CASE j = Len(s) + 1
    BY <1>1, <1>2, <1>3
  <1>4. CASE j \in 1..Len(s)
    BY <1>1, <1>2, <1>4 DEF Sorted
  <1> QED
    BY <1>1, <1>3, <1>4

LEMMA SortedConcat ==
    ASSUME NEW r, NEW s \in Seq(Events), NEW t \in Seq(Events), Sorted(r, s), Sorted(r, t),
           Before(r, s, t)
    PROVE  Sorted(r, s \o t)
  <1> SUFFICES ASSUME NEW i \in DOMAIN (s \o t), NEW j \in DOMAIN (s \o t), i < j
               PROVE  Earlier(r, (s \o t)[i], (s \o t)[j])
    BY DEF Sorted
  <1>1. /\ Len(s) \in Nat /\ Len(t) \in Nat /\ DOMAIN s = 1..Len(s) /\ DOMAIN t = 1..Len(t)
        /\ i \in 1..(Len(s) + Len(t)) /\ j \in 1..(Len(s) + Len(t))
    BY ConcatProperties, LenProperties
  <1>2. \A n \in 1..(Len(s) + Len(t)) :
            (s \o t)[n] = IF n <= Len(s) THEN s[n] ELSE t[n - Len(s)]
    BY ConcatProperties
  <1>3. CASE j <= Len(s)
    BY <1>1, <1>2, <1>3 DEF Sorted
  <1>4. CASE i > Len(s)
    <2>1. i - Len(s) \in DOMAIN t /\ j - Len(s) \in DOMAIN t /\ i - Len(s) < j - Len(s)
      BY <1>1, <1>4
    <2>2. Earlier(r, t[i - Len(s)], t[j - Len(s)])
      BY <2>1 DEF Sorted
    <2> QED
      BY <1>1, <1>2, <1>4, <2>2
  <1>5. CASE i <= Len(s) /\ j > Len(s)
    <2>1. s[i] \in Range(s) /\ t[j - Len(s)] \in Range(t)
      BY <1>1, <1>5 DEF Range
    <2> QED
      BY <1>1, <1>2, <1>5, <2>1 DEF Before
  <1> QED
    BY <1>1, <1>3, <1>4, <1>5

LEMMA JobsSortedConcat ==
    ASSUME NEW r, NEW a \in Seq(Jobs), NEW b \in Seq(Jobs), JobsSorted(r, a), JobsSorted(r, b),
           \A j \in Range(a), k \in Range(b) : Before(r, j.events, k.events)
    PROVE  JobsSorted(r, a \o b)
  <1> SUFFICES ASSUME NEW i \in DOMAIN (a \o b), NEW j \in DOMAIN (a \o b), i < j
               PROVE  Before(r, (a \o b)[i].events, (a \o b)[j].events)
    BY DEF JobsSorted
  <1>1. /\ Len(a) \in Nat /\ Len(b) \in Nat /\ DOMAIN a = 1..Len(a) /\ DOMAIN b = 1..Len(b)
        /\ i \in 1..(Len(a) + Len(b)) /\ j \in 1..(Len(a) + Len(b))
    BY ConcatProperties, LenProperties
  <1>2. \A n \in 1..(Len(a) + Len(b)) :
            (a \o b)[n] = IF n <= Len(a) THEN a[n] ELSE b[n - Len(a)]
    BY ConcatProperties
  <1>3. CASE j <= Len(a)
    BY <1>1, <1>2, <1>3 DEF JobsSorted
  <1>4. CASE i > Len(a)
    <2>1. i - Len(a) \in DOMAIN b /\ j - Len(a) \in DOMAIN b /\ i - Len(a) < j - Len(a)
      BY <1>1, <1>4
    <2>2. Before(r, b[i - Len(a)].events, b[j - Len(a)].events)
      BY <2>1 DEF JobsSorted
    <2> QED
      BY <1>1, <1>2, <1>4, <2>2
  <1>5. CASE i <= Len(a) /\ j > Len(a)
    <2>1. a[i] \in Range(a) /\ b[j - Len(a)] \in Range(b)
      BY <1>1, <1>5 DEF Range
    <2> QED
      BY <1>1, <1>2, <1>5, <2>1
  <1> QED
    BY <1>1, <1>3, <1>4, <1>5

LEMMA JobsSortedTail ==
    ASSUME NEW r, NEW a \in Seq(Jobs), a # <<>>, JobsSorted(r, a)
    PROVE  /\ JobsSorted(r, Tail(a))
           /\ \A k \in Range(Tail(a)) : Before(r, Head(a).events, k.events)
  <1>1. /\ Len(a) \in Nat /\ Len(a) # 0 /\ DOMAIN a = 1..Len(a)
        /\ Tail(a) \in Seq(Jobs) /\ Len(Tail(a)) = Len(a) - 1
        /\ \A i \in 1..(Len(a) - 1) : Tail(a)[i] = a[i + 1]
    BY HeadTailProperties, LenProperties, EmptySeq
  <1>2. DOMAIN Tail(a) = 1..(Len(a) - 1)
    BY <1>1, LenProperties
  <1>3. Head(a) = a[1]
    OBVIOUS
  <1>4. \A i \in 1..(Len(a) - 1) : i + 1 \in DOMAIN a /\ 1 \in DOMAIN a /\ 1 < i + 1
    BY <1>1
  <1>5. \A i \in 1..(Len(a) - 1) : Before(r, Head(a).events, Tail(a)[i].events)
    BY <1>1, <1>3, <1>4 DEF JobsSorted
  <1>6. \A i, j \in 1..(Len(a) - 1) :
            i < j => Before(r, Tail(a)[i].events, Tail(a)[j].events)
    <2> SUFFICES ASSUME NEW i \in 1..(Len(a) - 1), NEW j \in 1..(Len(a) - 1), i < j
                 PROVE  Before(r, Tail(a)[i].events, Tail(a)[j].events)
      OBVIOUS
    <2>1. i + 1 < j + 1 /\ i + 1 \in DOMAIN a /\ j + 1 \in DOMAIN a
      BY <1>1
    <2> QED
      BY <1>1, <2>1 DEF JobsSorted
  <1> QED
    BY <1>2, <1>5, <1>6 DEF JobsSorted, Range

-----------------------------------------------------------------------------
(* A connection is sent events in the order they were received              *)

\* The event that arrives is put at the end of the line.
LEMMA PushedLine ==
    ASSUME TypeOK, OnePlace, Line(received, buffer), NEW e \in Events, e \notin Known
    PROVE  Line(Append(received, e), Pushed(e))
  <1> DEFINE r == Append(received, e)
  <1>1. /\ received \in Seq(Events) /\ IsInjective(received) /\ e \notin Range(received)
        /\ OwnerOf[e] \in Owners
    BY FanoutAssumption DEF TypeOK, OnePlace, ReceivedOnly, Known
  <1>2. /\ \A s \in Seq(Range(received)) : Sorted(received, s) => Sorted(r, s)
        /\ \A s, t : Range(s) \subseteq Range(received) /\ Range(t) \subseteq Range(received)
                        /\ Before(received, s, t) => Before(r, s, t)
        /\ \A f \in Range(received) : Earlier(r, f, e)
    BY <1>1, SortedKept, EarlierKept
  <1> HIDE DEF r
  <1>3. /\ \A o \in Owners : buffer[o] \in Seq(Events) /\ Range(buffer[o]) \subseteq Range(received)
        /\ \A j \in Batches : j.events \in Seq(Events) /\ Range(j.events) \subseteq Range(received)
        /\ \A c \in Sockets : /\ socket[c].inbox \in Seq(Events)
                              /\ Range(socket[c].inbox) \subseteq Range(received)
    BY BatchesAreJobs, JobsNonEmpty DEF TypeOK, OnePlace, ReceivedOnly
  <1>4. ASSUME NEW s \in Seq(Events), Range(s) \subseteq Range(received)
        PROVE  s \in Seq(Range(received))
    BY <1>4, SeqOfRange, SeqMonotonic
  <1>5. EachSorted(r, buffer)
    BY <1>2, <1>3, <1>4 DEF EachSorted, Line
  <1>6. \A o \in Owners : o # OwnerOf[e] => Pushed(e)[o] = buffer[o]
    BY PushedTyped
  <1>7. Pushed(e)[OwnerOf[e]] = Append(buffer[OwnerOf[e]], e)
    BY PushedTyped
  <1>8. Sorted(r, Append(buffer[OwnerOf[e]], e))
    <2>1. \A f \in Range(buffer[OwnerOf[e]]) : Earlier(r, f, e)
      BY <1>1, <1>2, <1>3
    <2> QED
      BY <1>1, <1>3, <1>5, <2>1, SortedAppend DEF EachSorted
  <1>9. EachSorted(r, Pushed(e))
    BY <1>5, <1>6, <1>7, <1>8 DEF EachSorted
  <1>10. Range(Append(buffer[OwnerOf[e]], e)) = Range(buffer[OwnerOf[e]]) \cup {e}
    BY <1>1, <1>3, RangeOfAppend
  <1>11. ASSUME NEW s, Range(s) \subseteq Range(received),
                \A o \in Owners : Before(received, s, buffer[o])
         PROVE  \A o \in Owners : Before(r, s, Pushed(e)[o])
    <2>1. \A o \in Owners : Before(r, s, buffer[o])
      BY <1>2, <1>3, <1>11
    <2>2. Before(r, s, Append(buffer[OwnerOf[e]], e))
      BY <1>1, <1>2, <1>10, <1>11, <2>1 DEF Before
    <2> QED
      BY <1>6, <1>7, <2>1, <2>2
  <1>12. BuffersLast(r, Pushed(e))
    BY <1>3, <1>11 DEF BuffersLast, Line
  <1>13. QueueSorted(r)
    <2>1. QueueSorted(received) /\ Range(adding) \cup Range(waiting) \subseteq Batches
      BY DEF Line, Batches
    <2>2. \A j \in Batches, k \in Batches :
              Before(received, j.events, k.events) => Before(r, j.events, k.events)
      BY <1>2, <1>3
    <2>3. active.phase = "taken" => active.job \in Batches
      BY ActiveTyped DEF Batches
    <2>4. JobsSorted(r, adding) /\ JobsSorted(r, waiting)
      <3>1. /\ \A i \in DOMAIN adding : adding[i] \in Batches
            /\ \A i \in DOMAIN waiting : waiting[i] \in Batches
        BY <2>1 DEF Range
      <3> QED
        BY <2>1, <2>2, <3>1 DEF JobsSorted, QueueSorted
    <2> QED
      BY <2>1, <2>2, <2>3, <2>4 DEF QueueSorted
  <1>14. InboxFirst(r)
    BY <1>2, <1>3 DEF InboxFirst, Line, NotSent
  <1> QED
    BY <1>9, <1>12, <1>13, <1>14 DEF Line, r

LEMMA FlushLine ==
    ASSUME TypeOK, NEW r, NEW buffers \in Buffers, OwnedBy(buffers), Line(r, buffers),
           Flush(buffers), received' = r,
           waiting' = waiting, active' = active, orphans' = orphans, socket' = socket
    PROVE  Line(received, buffer)'
  <1>1. adding \in Seq(Jobs)
    BY DEF TypeOK
  <1>2. PICK list \in Seq(Cut(buffers)) :
            IsInjective(list) /\ list \in Seq(Jobs) /\ adding' = adding \o list
    BY <1>1, FlushEffect
  <1>3. Range(adding') = Range(adding) \cup Range(list) /\ Range(list) \subseteq Cut(buffers)
    BY <1>1, <1>2, RangeOfConcat, RangeOfSeq
  <1>4. Batches' \subseteq Batches \cup Cut(buffers)
    BY FlushBatches
  <1>5. \A o \in Owners : Range(buffer'[o]) = {} /\ buffer'[o] = <<>>
    BY <1>1, FlushEffect, EmptyFresh
  <1>6. \A j \in Cut(buffers) : j.owner \in Owners /\ j.events = buffers[j.owner]
    BY CutMembers
  <1>7. EachSorted(received, buffer)'
    <2>1. EachSorted(r, buffers)
      BY DEF Line
    <2> QED
      BY <1>4, <1>5, <1>6, <2>1, SortedEmpty DEF EachSorted
  <1>8. \A j \in Batches, k \in Cut(buffers) : Before(r, j.events, k.events)
    BY <1>6 DEF Line, BuffersLast
  <1>9. JobsSorted(r, list)
    <2> SUFFICES ASSUME NEW i \in DOMAIN list, NEW j \in DOMAIN list, i < j
                 PROVE  Before(r, list[i].events, list[j].events)
      BY DEF JobsSorted
    <2>1. list[i] \in Cut(buffers) /\ list[j] \in Cut(buffers)
      BY <1>3 DEF Range
    <2>2. list[i] # list[j]
      <3>1. i \in Nat /\ j \in Nat
        BY LenProperties
      <3> QED
        BY <1>2, <3>1 DEF IsInjective
    <2>3. list[i].owner # list[j].owner
      BY <2>1, <2>2 DEF Cut, Batch
    <2> QED
      BY <1>6, <2>1, <2>3 DEF OwnedBy, Before, Earlier
  <1>10. Range(adding) \cup Range(waiting) \subseteq Batches
         /\ (active.phase = "taken" => active.job \in Batches)
    BY ActiveTyped DEF Batches
  <1>11. QueueSorted(r)
    BY DEF Line
  <1>12. JobsSorted(r, adding')
    <2>1. \A j \in Range(adding), k \in Range(list) : Before(r, j.events, k.events)
      BY <1>3, <1>8, <1>10
    <2> QED
      BY <1>1, <1>2, <1>9, <1>11, <2>1, JobsSortedConcat DEF QueueSorted
  <1>13. QueueSorted(received)'
    <2>1. \A j \in Range(waiting), k \in Range(adding') : Before(r, j.events, k.events)
      BY <1>3, <1>8, <1>10, <1>11 DEF QueueSorted
    <2>2. active.phase = "taken" =>
             \A k \in Range(waiting) \cup Range(adding') : Before(r, active.job.events, k.events)
      BY <1>3, <1>8, <1>10, <1>11 DEF QueueSorted
    <2> QED
      BY <1>11, <1>12, <2>1, <2>2 DEF QueueSorted
  <1>14. BuffersLast(received, buffer)'
    BY <1>5, SortedEmpty DEF BuffersLast
  <1>15. InboxFirst(received)'
    <2>1. \A c \in Sockets : \A j \in Cut(buffers) : Before(r, socket[c].inbox, j.events)
      BY <1>6 DEF Line, BuffersLast
    <2>2. InboxFirst(r)
      BY DEF Line
    <2> QED
      BY <1>4, <2>1, <2>2 DEF InboxFirst, NotSent
  <1> QED
    BY <1>7, <1>13, <1>14, <1>15 DEF Line

LEMMA FewerInLine ==
    ASSUME Line(received, buffer), received' = received, buffer' = buffer, socket' = socket,
           orphans' = orphans, Batches' \subseteq Batches, NotSent' \subseteq NotSent,
           QueueSorted(received)'
    PROVE  Line(received, buffer)'
  BY DEF Line, EachSorted, BuffersLast, InboxFirst

LEMMA AddLandsLine ==
    ASSUME TypeOK, Line(received, buffer), AddLands
    PROVE  Line(received, buffer)'
  <1>1. /\ adding \in Seq(Jobs) /\ waiting \in Seq(Jobs) /\ adding # <<>>
        /\ QueueSorted(received)
        /\ adding' = Tail(adding) /\ waiting' = Append(waiting, Head(adding))
        /\ UNCHANGED <<received, buffer, active, orphans, socket>>
    BY DEF AddLands, TypeOK, Line
  <1>2. /\ Head(adding) \in Range(adding) /\ Range(adding') \subseteq Range(adding)
        /\ Head(adding) \in Jobs
    BY <1>1, RangeOfTail
  <1>3. /\ JobsSorted(received, adding')
        /\ \A k \in Range(adding') : Before(received, Head(adding).events, k.events)
    BY <1>1, JobsSortedTail DEF QueueSorted
  <1>4. Range(waiting') = Range(waiting) \cup {Head(adding)}
    BY <1>1, <1>2, RangeOfAppend
  <1>5. JobsSorted(received, waiting')
    <2> DEFINE one == <<Head(adding)>>
    <2>1. one \in Seq(Jobs) /\ Range(one) = {Head(adding)} /\ JobsSorted(received, one)
      BY <1>2 DEF Range, JobsSorted
    <2>2. waiting' = waiting \o one
      BY <1>1, <1>2, AppendIsConcat
    <2> HIDE DEF one
    <2> QED
      BY <1>1, <1>2, <2>1, <2>2, JobsSortedConcat DEF QueueSorted
  <1>6. QueueSorted(received)'
    BY <1>1, <1>2, <1>3, <1>4, <1>5 DEF QueueSorted
  <1>7. Batches' \subseteq Batches /\ NotSent' \subseteq NotSent
    BY <1>1, AddLandsBatches DEF NotSent
  <1> QED
    BY <1>1, <1>6, <1>7, FewerInLine

LEMMA TakeJobLine ==
    ASSUME TypeOK, Line(received, buffer), TakeJob
    PROVE  Line(received, buffer)'
  <1>1. /\ waiting \in Seq(Jobs) /\ waiting # <<>> /\ QueueSorted(received) /\ active = NoJob
        /\ waiting' = Tail(waiting)
        /\ UNCHANGED <<received, buffer, adding, orphans, socket>>
    BY DEF TakeJob, TypeOK, Line
  <1>2. /\ JobsSorted(received, waiting')
        /\ \A k \in Range(waiting') : Before(received, Head(waiting).events, k.events)
    BY <1>1, JobsSortedTail DEF QueueSorted
  <1>3. /\ active'.job = Head(waiting) /\ Head(waiting) \in Range(waiting)
        /\ Range(waiting') \subseteq Range(waiting) /\ Batches' \subseteq Batches
    BY TakeJobBatches
  <1>4. QueueSorted(received)'
    BY <1>1, <1>2, <1>3 DEF QueueSorted
  <1>5. NotSent = Batches
    BY <1>1, ActiveTyped DEF NotSent
  <1> QED
    BY <1>1, <1>3, <1>4, <1>5, FewerInLine DEF NotSent

LEMMA ProcessJobLine ==
    ASSUME TypeOK, OnePlace, Line(received, buffer), ProcessJob
    PROVE  Line(received, buffer)'
  <1> DEFINE s == active.job.events
  <1>1. /\ active.phase = "taken" /\ active # NoJob /\ active.job \in Batches
        /\ active.job \in NotSent /\ s \in Seq(Events)
        /\ UNCHANGED <<received, buffer, adding, waiting, orphans>>
        /\ Batches' \subseteq Batches /\ orphans = {}
    BY ProcessJobBatches DEF ProcessJob, NotSent, Jobs, Line
  <1>2. /\ active' # NoJob => active'.phase = "sent" /\ active'.job = active.job
        /\ active'.phase # "taken"
    BY ProcessJobBatches, ActiveTyped
  <1>3. QueueSorted(received)'
    BY <1>1, <1>2 DEF QueueSorted, Line
  <1>4. NotSent' \subseteq NotSent
    BY <1>1 DEF NotSent
  <1>5. CASE UNCHANGED socket
    BY <1>1, <1>3, <1>4, <1>5, FewerInLine
  <1>6. CASE socket' # socket
    <2>1. BroadcastToUser(active.job.owner, s) /\ active' = [active EXCEPT !.phase = "sent"]
      BY <1>6 DEF ProcessJob
    <2>2. active' # NoJob
      <3>1. active \in [phase : {"taken", "sent"}, job : Jobs]
        BY <1>1, ActiveTyped
      <3> QED
        BY <2>1, <3>1 DEF NoJob
    <2>3. NotSent' \subseteq Range(waiting) \cup Range(adding)
      BY <1>1, <1>2, <2>2 DEF NotSent, Batches
    <2>4. ASSUME NEW c \in Sockets
          PROVE  /\ Range(socket'[c].inbox) \subseteq Range(socket[c].inbox) \cup Range(s)
                 /\ Sorted(received, socket'[c].inbox)
      <3>1. socket'[c].inbox = IF socket[c].owner = active.job.owner
                               THEN socket[c].inbox \o s ELSE socket[c].inbox
        BY <1>1, <2>1, BroadcastTyped
      <3>2. socket[c].inbox \in Seq(Events)
        BY DEF TypeOK
      <3>3. Range(socket[c].inbox \o s) = Range(socket[c].inbox) \cup Range(s)
        BY <1>1, <3>2, RangeConcatenation
      <3>4. Sorted(received, socket[c].inbox) /\ Sorted(received, s)
        BY <1>1 DEF Line, EachSorted
      <3>5. Before(received, socket[c].inbox, s)
        BY <1>1 DEF Line, InboxFirst
      <3>6. Sorted(received, socket[c].inbox \o s)
        BY <1>1, <3>2, <3>4, <3>5, SortedConcat
      <3> QED
        BY <3>1, <3>3, <3>4, <3>6
    <2>5. /\ \A o \in Owners : Before(received, s, buffer[o])
          /\ \A k \in Range(waiting) \cup Range(adding) : Before(received, s, k.events)
      BY <1>1 DEF Line, BuffersLast, QueueSorted
    <2> HIDE DEF s
    <2>6. ASSUME NEW c \in Sockets, NEW t, Before(received, socket[c].inbox, t),
                 Before(received, s, t)
          PROVE  Before(received, socket'[c].inbox, t)
      BY <2>4, <2>6 DEF Before
    <2>7. EachSorted(received, buffer)'
      BY <1>1, <2>4 DEF Line, EachSorted
    <2>8. BuffersLast(received, buffer)'
      BY <1>1, <2>5, <2>6 DEF Line, BuffersLast
    <2>9. InboxFirst(received)'
      BY <1>1, <1>4, <2>3, <2>5, <2>6 DEF Line, InboxFirst
    <2> QED
      BY <1>1, <1>3, <2>7, <2>8, <2>9 DEF Line
  <1> QED
    BY <1>5, <1>6

LEMMA CompleteJobLine ==
    ASSUME TypeOK, OnePlace, Line(received, buffer), CompleteJob
    PROVE  Line(received, buffer)'
  <1>1. /\ active' = NoJob /\ active # NoJob /\ NoJob.phase # "taken"
        /\ UNCHANGED <<received, buffer, adding, waiting, orphans, socket>>
    BY ActiveTyped DEF CompleteJob
  <1>2. QueueSorted(received)'
    BY <1>1 DEF QueueSorted, Line
  <1>3. Batches' \subseteq Batches /\ active.job \notin Batches'
    BY <1>1 DEF Batches, QueuedOnce, OnePlace
  <1> QED
    BY <1>1, <1>2, <1>3, FewerInLine DEF NotSent

LEMMA SocketsLine ==
    ASSUME Line(received, buffer),
           UNCHANGED <<received, buffer, adding, waiting, active, orphans>>,
           \A c \in Sockets : socket'[c].inbox = socket[c].inbox \/ socket'[c].inbox = <<>>
    PROVE  Line(received, buffer)'
  <1>1. Batches' = Batches /\ NotSent' = NotSent
    BY DEF Batches, NotSent
  <1>2. \A c \in Sockets :
           \/ socket'[c].inbox = socket[c].inbox
           \/ /\ Sorted(received, socket'[c].inbox)
              /\ \A t : Before(received, socket'[c].inbox, t)
    BY EmptyRange, SortedEmpty
  <1>3. EachSorted(received, buffer)'
    BY <1>1, <1>2 DEF Line, EachSorted
  <1>4. QueueSorted(received)'
    BY DEF Line, QueueSorted
  <1>5. BuffersLast(received, buffer)'
    BY <1>1, <1>2 DEF Line, BuffersLast
  <1>6. InboxFirst(received)'
    BY <1>1, <1>2 DEF Line, InboxFirst
  <1> QED
    BY <1>3, <1>4, <1>5, <1>6 DEF Line

LEMMA OneLineInit == Init => OneLine
  <1> SUFFICES ASSUME Init
               PROVE  Line(received, buffer)
    BY DEF OneLine
  <1>1. Batches = {} /\ Range(adding) = {} /\ Range(waiting) = {}
    BY EmptyRange DEF Init, Batches
  <1>2. \A o \in Owners : Range(buffer[o]) = {} /\ buffer[o] = <<>>
    BY EmptyRange DEF Init
  <1>3. \A c \in Sockets : Range(socket[c].inbox) = {} /\ socket[c].inbox = <<>>
    BY OutTyped, EmptyRange DEF Init
  <1>4. EachSorted(received, buffer)
    BY <1>1, <1>2, <1>3, SortedEmpty DEF EachSorted
  <1>5. QueueSorted(received)
    BY <1>1, SortedEmpty DEF QueueSorted, Init
  <1>6. BuffersLast(received, buffer) /\ InboxFirst(received)
    BY <1>1, <1>2, SortedEmpty DEF BuffersLast, InboxFirst, NotSent
  <1> QED
    BY <1>4, <1>5, <1>6 DEF Line, Init

LEMMA OneLineStep ==
    TypeOK /\ OwnersKept /\ OnePlace /\ OneLine /\ [Next]_vars => OneLine'
  <1> SUFFICES ASSUME TypeOK, OwnersKept, OnePlace, OneLine, [Next]_vars,
                      faults' = 0
               PROVE  Line(received, buffer)'
    BY DEF OneLine
  <1>a. faults \in Nat
    BY FanoutAssumption DEF TypeOK
  <1>b. ASSUME faults' = faults
        PROVE  Line(received, buffer)
    BY <1>b DEF OneLine
  <1>c. OwnedBy(buffer)
    BY OwnersKeptParts
  <1>1. ASSUME NEW e \in Events, AddEvent(e)
        PROVE  Line(received, buffer)'
    <2>1. /\ Line(received, buffer) /\ e \notin Known /\ received' = Append(received, e)
          /\ UNCHANGED <<waiting, active, orphans, socket>>
      BY <1>1, <1>b DEF AddEvent, Known, queue
    <2>2. Line(Append(received, e), Pushed(e))
      BY <2>1, PushedLine
    <2>3. OwnedBy(Pushed(e)) /\ Pushed(e) \in Buffers
      BY <1>c, PushedOwned, PushedTyped
    <2>4. CASE Full(Pushed(e)[OwnerOf[e]])
      BY <1>1, <2>1, <2>2, <2>3, <2>4, FlushLine DEF AddEvent
    <2>5. CASE ~Full(Pushed(e)[OwnerOf[e]])
      <3>1. buffer' = Pushed(e) /\ adding' = adding
        BY <1>1, <2>5 DEF AddEvent
      <3>2. Batches' = Batches /\ NotSent' = NotSent
        BY <2>1, <3>1 DEF Batches, NotSent
      <3>3. Line(received', buffer')
        BY <2>1, <2>2, <3>1
      <3> QED
        BY <2>1, <3>1, <3>2, <3>3
        DEF Line, EachSorted, QueueSorted, BuffersLast, InboxFirst
    <2> QED
      BY <2>4, <2>5
  <1>2. CASE FlushInterval
    <2>1. /\ Line(received, buffer) /\ received' = received /\ Flush(buffer)
          /\ UNCHANGED <<waiting, active, orphans, socket>>
      BY <1>2, <1>b DEF FlushInterval, queue
    <2> QED
      BY <1>c, <2>1, BufferTyped, FlushLine
  <1>3. CASE AddLands
    BY <1>3, <1>b, AddLandsLine DEF AddLands
  <1>4. CASE AddRefused
    BY <1>4, <1>a DEF AddRefused
  <1>5. CASE TakeJob
    BY <1>5, <1>b, TakeJobLine DEF TakeJob
  <1>6. CASE ProcessJob
    BY <1>6, <1>b, ProcessJobLine DEF ProcessJob
  <1>7. CASE CompleteJob
    BY <1>7, <1>b, CompleteJobLine DEF CompleteJob
  <1>8. ASSUME NEW j \in orphans, StalledJob(j)
        PROVE  Line(received, buffer)'
    BY <1>8, <1>b DEF StalledJob, Line
  <1>9. ASSUME NEW c \in Sockets, NEW o \in Owners, HandleConnection(c, o)
        PROVE  Line(received, buffer)'
    BY <1>9, <1>b, SocketsLine DEF HandleConnection, queue, TypeOK
  <1>10. ASSUME NEW c \in Sockets, HandleDisconnect(c)
         PROVE  Line(received, buffer)'
    BY <1>10, <1>b, SocketsLine, OutTyped DEF HandleDisconnect, queue, TypeOK
  <1>11. ASSUME NEW user, BroadcastMetrics(user)
         PROVE  Line(received, buffer)'
    BY <1>11, <1>b, SocketsLine, MetricsTyped DEF BroadcastMetrics, queue
  <1>12. CASE Exit
    BY <1>12, <1>a DEF Exit
  <1>13. CASE Restart
    BY <1>13, <1>b, SocketsLine DEF Restart, queue
  <1>14. CASE UNCHANGED vars
    BY <1>14, <1>b, SocketsLine DEF vars
  <1>15. CASE MemoryChanges
    BY <1>15, <1>b, SocketsLine DEF MemoryChanges
  <1> QED
    BY <1>1, <1>2, <1>3, <1>4, <1>5, <1>6, <1>7, <1>8, <1>9, <1>10, <1>11,
       <1>12, <1>13, <1>14, <1>15 DEF Next, IntervalBroadcast

\* A connection is sent events in the order they were received until a
\* process ends or Redis refuses a batch: buffer, calls, queue and worker are
\* one line for the events of an owner, however their batches are cut.
THEOREM SentInOrder == Spec => []OrderedUntilStall
  <1>1. TypeOK /\ OwnersKept /\ OnePlace /\ OneLine /\ [Next]_vars
           => (TypeOK /\ OwnersKept /\ OnePlace /\ OneLine)'
    BY TypeStep, OwnersStep, OnePlaceStep, OneLineStep
  <1>2. TypeOK /\ OwnersKept /\ OneLine => OrderedUntilStall
    <2> SUFFICES ASSUME TypeOK, OwnersKept, Line(received, buffer),
                        NEW c \in Sockets,
                        NEW i \in DOMAIN socket[c].inbox, NEW j \in DOMAIN socket[c].inbox,
                        i < j
                 PROVE  Place(received, socket[c].inbox[i])
                           < Place(received, socket[c].inbox[j])
      BY DEF OneLine, OrderedUntilStall
    <2>1. Earlier(received, socket[c].inbox[i], socket[c].inbox[j])
      BY DEF Line, EachSorted, Sorted
    <2>2. OwnerOf[socket[c].inbox[i]] = OwnerOf[socket[c].inbox[j]]
      BY DEF OwnersKept, BatchesKeepOwner, Range
    <2> QED
      BY <2>1, <2>2 DEF Earlier
  <1> QED
    BY TypeInit, OwnersInit, OnePlaceInit, OneLineInit, <1>1, <1>2, PTL DEF Spec

-----------------------------------------------------------------------------
(* Refinement of LiveFeed                                                   *)

FanoutInv == TypeOK /\ OwnersKept /\ OnePlace /\ OneLine

LEMMA FanoutInvariant == Spec => []FanoutInv
  <1>1. Init => FanoutInv
    BY TypeInit, OwnersInit, OnePlaceInit, OneLineInit DEF FanoutInv
  <1>2. FanoutInv /\ [Next]_vars => FanoutInv'
    BY TypeStep, OwnersStep, OnePlaceStep, OneLineStep DEF FanoutInv
  <1> QED
    BY <1>1, <1>2, PTL DEF Spec

LEMMA SameHelpers ==
    ASSUME NEW s
    PROVE  Feed!Range(s) = Range(s) /\ Feed!IsInjective(s) = IsInjective(s)
  BY DEF Range, Feed!Range, IsInjective, Feed!IsInjective

\* What is sorted by place comes in the order of the feed.
LEMMA PlacesInOrder ==
    ASSUME TypeOK, ReceivedOnly, NEW s \in Seq(Events), Range(s) \subseteq Known,
           \A i, j \in DOMAIN s : i < j => Place(received, s[i]) < Place(received, s[j])
    PROVE  Feed!InOrder(s)
  <1> SUFFICES ASSUME NEW i \in DOMAIN s, NEW j \in DOMAIN s, i < j
               PROVE  \E m, n \in DOMAIN received :
                         m < n /\ received[m] = s[i] /\ received[n] = s[j]
    BY DEF Feed!InOrder
  <1>1. received \in Seq(Events) /\ IsInjective(received)
    BY DEF TypeOK, ReceivedOnly
  <1>2. s[i] \in Known /\ s[j] \in Known
    BY DEF Range
  <1>3. PICK m \in DOMAIN received : received[m] = s[i]
    BY <1>2 DEF Known, Range
  <1>4. PICK n \in DOMAIN received : received[n] = s[j]
    BY <1>2 DEF Known, Range
  <1>5. Place(received, received[m]) = m /\ Place(received, received[n]) = n
    BY <1>1, PlaceOf
  <1> QED
    BY <1>3, <1>4, <1>5

LEMMA ProcessDelivers ==
    ASSUME FanoutInv, FanoutInv', OrderedUntilStall', ProcessJob
    PROVE  [Feed!FeedNext]_(Feed!lvars)
  <1> DEFINE s == active.job.events
             o == active.job.owner
  <1>1. UNCHANGED <<received, faults>>
    BY DEF ProcessJob
  <1>2. CASE UNCHANGED socket
    BY <1>1, <1>2 DEF Feed!lvars, Rooms, Logs
  <1>3. CASE BroadcastToUser(o, s)
    <2>1. active.job \in Jobs /\ active.job \in Batches
      BY ProcessJobBatches DEF FanoutInv
    <2>2. /\ o \in Owners /\ s \in Seq(Events) /\ Len(s) \in 1..BatchSize
      BY <2>1 DEF Jobs
    <2>3. \A e \in Range(s) : e \in Range(received) /\ OwnerOf[e] = o
      BY <2>1 DEF FanoutInv, OwnersKept, OnePlace, ReceivedOnly
    <2>4. \A c \in Sockets :
             /\ socket'[c].owner = socket[c].owner
             /\ socket'[c].inbox = IF socket[c].owner = o
                                   THEN socket[c].inbox \o s ELSE socket[c].inbox
      BY <1>3, <2>2, BroadcastTyped DEF FanoutInv
    <2> HIDE DEF s, o
    <2>5. Rooms' = Rooms
      BY <2>4 DEF Rooms
    <2>6. Logs' = [c \in Sockets |-> IF Rooms[c] = o THEN Logs[c] \o s ELSE Logs[c]]
      BY <2>4 DEF Rooms, Logs
    <2>7. ASSUME NEW c \in Feed!Members(o)
          PROVE  /\ IsInjective(Logs[c] \o s)
                 /\ (faults > 0) \/ Feed!InOrder(Logs[c] \o s)
      <3>1. c \in Sockets /\ socket[c].owner = o
        BY <2>7 DEF Feed!Members, Rooms
      <3>2. PICK t : t = socket'[c].inbox
        OBVIOUS
      <3>3. t = Logs[c] \o s
        BY <2>4, <3>1, <3>2 DEF Logs
      <3>4. t \in Seq(Events) /\ IsInjective(t) /\ Range(t) \subseteq Known
        BY <1>1, <3>1, <3>2 DEF FanoutInv, TypeOK, OnePlace, NoneTwice, ReceivedOnly, Known
      <3>5. faults = 0 =>
              \A i, j \in DOMAIN t : i < j => Place(received, t[i]) < Place(received, t[j])
        BY <1>1, <3>1, <3>2 DEF OrderedUntilStall
      <3>6. faults \in Nat
        BY FanoutAssumption DEF FanoutInv, TypeOK
      <3>7. faults = 0 => Feed!InOrder(t)
        BY <3>4, <3>5, PlacesInOrder DEF FanoutInv, OnePlace
      <3> QED
        BY <3>3, <3>4, <3>6, <3>7
    <2>8. Feed!Deliver(o, s)
      BY <1>1, <2>3, <2>5, <2>6, <2>7, SameHelpers DEF Feed!Deliver
    <2>9. s \in [1..Len(s) -> Events]
      BY <2>2
    <2> QED
      BY <2>2, <2>8, <2>9 DEF Feed!FeedNext
  <1> QED
    BY <1>2, <1>3 DEF ProcessJob

\* The end of a process closes every connection; a refusal alone none.
LEMMA FaultFeeds ==
    ASSUME TypeOK, AddRefused \/ Exit
    PROVE  Feed!Fault
  <1>1. faults \in Nat
    BY FanoutAssumption DEF TypeOK
  <1>2. received' = received /\ faults' = faults + 1
    BY <1>1 DEF AddRefused, Exit
  <1>3. socket' = socket \/ socket' = [c \in Sockets |-> Out]
    BY DEF AddRefused, Exit, Ends
  <1>4. CASE socket' = socket
    BY <1>1, <1>2, <1>4 DEF Feed!Fault, Rooms, Logs
  <1>5. CASE socket' = [c \in Sockets |-> Out]
    <2>1. \A c \in Sockets : socket'[c].owner = Nobody /\ socket'[c].inbox = <<>>
      BY <1>5, OutTyped
    <2>2. Rooms' = [c \in Sockets |-> Nobody] /\ Logs' = [c \in Sockets |-> <<>>]
      BY <2>1 DEF Rooms, Logs
    <2> QED
      BY <1>1, <1>2, <2>2 DEF Feed!Fault
  <1> QED
    BY <1>3, <1>4, <1>5

LEMMA ConnectionJoins ==
    ASSUME TypeOK, NEW c \in Sockets, NEW o \in Owners, HandleConnection(c, o)
    PROVE  Feed!Join(c, o)
  <1>1. /\ socket[c].owner = Nobody /\ UNCHANGED <<received, faults>>
        /\ \A d \in Sockets : /\ socket'[d].owner = IF d = c THEN o ELSE socket[d].owner
                              /\ socket'[d].inbox = IF d = c THEN <<>> ELSE socket[d].inbox
    BY DEF HandleConnection, TypeOK
  <1>2. /\ Rooms' = [Rooms EXCEPT ![c] = o] /\ Logs' = [Logs EXCEPT ![c] = <<>>]
        /\ Rooms[c] = Nobody
    BY <1>1 DEF Rooms, Logs
  <1> QED
    BY <1>1, <1>2 DEF Feed!Join

LEMMA DisconnectLeaves ==
    ASSUME TypeOK, NEW c \in Sockets, HandleDisconnect(c)
    PROVE  Feed!Leave(c)
  <1>1. /\ UNCHANGED <<received, faults>>
        /\ \A d \in Sockets : /\ socket'[d].owner = IF d = c THEN Nobody ELSE socket[d].owner
                              /\ socket'[d].inbox = IF d = c THEN <<>> ELSE socket[d].inbox
    BY OutTyped DEF HandleDisconnect, TypeOK
  <1>2. Rooms' = [Rooms EXCEPT ![c] = Nobody] /\ Logs' = [Logs EXCEPT ![c] = <<>>]
    BY <1>1 DEF Rooms, Logs
  <1> QED
    BY <1>1, <1>2 DEF Feed!Leave

LEMMA EventReceived ==
    ASSUME NEW e \in Events, AddEvent(e)
    PROVE  Feed!Receive(e)
  <1>1. /\ e \notin Feed!Range(received) /\ received' = Append(received, e)
        /\ UNCHANGED <<socket, faults>>
    BY SameHelpers DEF AddEvent
  <1> QED
    BY <1>1 DEF Feed!Receive, Rooms, Logs

\* Buffers, timers, queue and metrics send nobody an event.
LEMMA RestIsUnseen ==
    ASSUME TypeOK,
           \/ FlushInterval \/ AddLands \/ TakeJob \/ CompleteJob \/ Restart
           \/ MemoryChanges
           \/ \E j \in orphans : StalledJob(j)
           \/ \E user : BroadcastMetrics(user)
           \/ UNCHANGED vars
    PROVE  UNCHANGED Feed!lvars
  <1>1. UNCHANGED <<received, faults>>
    BY DEF FlushInterval, AddLands, TakeJob, CompleteJob, Restart, MemoryChanges,
       StalledJob, BroadcastMetrics, vars
  <1>2. \A c \in Sockets : /\ socket'[c].owner = socket[c].owner
                           /\ socket'[c].inbox = socket[c].inbox
    <2>1. ASSUME NEW user, BroadcastMetrics(user)
          PROVE  \A c \in Sockets : /\ socket'[c].owner = socket[c].owner
                                    /\ socket'[c].inbox = socket[c].inbox
      BY <2>1, MetricsTyped
    <2>2. CASE UNCHANGED socket
      BY <2>2
    <2> QED
      BY <2>1, <2>2 DEF FlushInterval, AddLands, TakeJob, CompleteJob, Restart,
         MemoryChanges, StalledJob, vars
  <1>3. Rooms' = Rooms /\ Logs' = Logs
    BY <1>2 DEF Rooms, Logs
  <1> QED
    BY <1>1, <1>3 DEF Feed!lvars

\* What reaches the browsers through buffers, batches, jobs and restarts is a
\* feed: a room is sent what is its owner's and new to all in it, to all at
\* once and, until a fault, in the order of arrival.
THEOREM FanoutImplementsFeed == Spec => ImplementsFeed
  <1>1. Init => Feed!FeedInit
    <2> SUFFICES ASSUME Init PROVE Feed!FeedInit
      OBVIOUS
    <2>1. \A c \in Sockets : socket[c].owner = Nobody /\ socket[c].inbox = <<>>
      BY OutTyped DEF Init
    <2>2. Rooms = [c \in Sockets |-> Nobody] /\ Logs = [c \in Sockets |-> <<>>]
      BY <2>1 DEF Rooms, Logs
    <2> QED
      BY <2>2 DEF Init, Feed!FeedInit
  <1>2. FanoutInv /\ FanoutInv' /\ OrderedUntilStall' /\ [Next]_vars
           => [Feed!FeedNext]_(Feed!lvars)
    <2> SUFFICES ASSUME FanoutInv, FanoutInv', OrderedUntilStall', [Next]_vars
                 PROVE  [Feed!FeedNext]_(Feed!lvars)
      OBVIOUS
    <2>0. TypeOK
      BY DEF FanoutInv
    <2>1. ASSUME NEW e \in Events, AddEvent(e)
          PROVE  Feed!FeedNext
      BY <2>1, EventReceived DEF Feed!FeedNext
    <2>2. CASE ProcessJob
      BY <2>2, ProcessDelivers
    <2>3. CASE AddRefused \/ Exit
      BY <2>0, <2>3, FaultFeeds DEF Feed!FeedNext
    <2>4. ASSUME NEW c \in Sockets, NEW o \in Owners, HandleConnection(c, o)
          PROVE  Feed!FeedNext
      BY <2>0, <2>4, ConnectionJoins DEF Feed!FeedNext
    <2>5. ASSUME NEW c \in Sockets, HandleDisconnect(c)
          PROVE  Feed!FeedNext
      BY <2>0, <2>5, DisconnectLeaves DEF Feed!FeedNext
    <2>6. CASE \/ FlushInterval \/ AddLands \/ TakeJob \/ CompleteJob \/ Restart
               \/ MemoryChanges
               \/ \E j \in orphans : StalledJob(j)
               \/ \E user : BroadcastMetrics(user)
               \/ UNCHANGED vars
      BY <2>0, <2>6, RestIsUnseen
    <2> QED
      BY <2>1, <2>2, <2>3, <2>4, <2>5, <2>6 DEF Next, IntervalBroadcast
  <1> QED
    BY <1>1, <1>2, FanoutInvariant, SentInOrder, PTL
       DEF Spec, ImplementsFeed, Feed!FeedSpec

-----------------------------------------------------------------------------
(* Connections in one room agree                                            *)

LEMMA ReverseOf ==
    ASSUME NEW s \in Seq(Events)
    PROVE  /\ Reverse(s) \in Seq(Events) /\ Len(Reverse(s)) = Len(s)
           /\ \A i \in 1..Len(s) : Reverse(s)[i] = s[(Len(s) - i) + 1]
  <1>1. Len(s) \in Nat /\ \A i \in 1..Len(s) : (Len(s) - i) + 1 \in 1..Len(s)
    BY LenProperties
  <1>2. \A i \in 1..Len(s) : s[(Len(s) - i) + 1] \in Events
    BY <1>1, LenProperties
  <1>3. Reverse(s) \in [1..Len(s) -> Events]
    BY <1>2 DEF Reverse
  <1>4. Reverse(s) \in Seq(Events)
    BY <1>1, <1>3
  <1>5. Len(Reverse(s)) = Len(s)
    BY <1>1, <1>3, <1>4, LenProperties
  <1> QED
    BY <1>4, <1>5 DEF Reverse

\* A suffix, counted from the front.
LEMMA SuffixByPlace ==
    ASSUME NEW s \in Seq(Events), NEW t \in Seq(Events)
    PROVE  IsSuffix(s, t) <=>
              /\ Len(s) <= Len(t)
              /\ \A i \in 1..Len(s) : s[i] = t[(Len(t) - Len(s)) + i]
  <1>0. PICK u, v : u = Reverse(s) /\ v = Reverse(t)
    OBVIOUS
  <1>1. /\ Len(s) \in Nat /\ Len(t) \in Nat /\ u \in Seq(Events) /\ v \in Seq(Events)
        /\ Len(u) = Len(s) /\ Len(v) = Len(t)
        /\ \A i \in 1..Len(s) : u[i] = s[(Len(s) - i) + 1]
        /\ \A i \in 1..Len(t) : v[i] = t[(Len(t) - i) + 1]
    BY <1>0, ReverseOf, LenProperties
  <1>2. IsSuffix(s, t) <=>
           Len(s) <= Len(t) /\ SubSeq(u, 1, Len(s)) = SubSeq(v, 1, Len(s))
    BY <1>0, <1>1 DEF IsSuffix, IsPrefix
  <1>3. ASSUME Len(s) <= Len(t)
        PROVE  SubSeq(u, 1, Len(s)) = SubSeq(v, 1, Len(s))
                  <=> \A i \in 1..Len(s) : u[i] = v[i]
    <2>1. /\ SubSeq(u, 1, Len(s)) = [i \in 1..Len(s) |-> u[i]]
          /\ SubSeq(v, 1, Len(s)) = [i \in 1..Len(s) |-> v[i]]
      BY <1>1, <1>3
    <2> QED
      BY <2>1
  <1>4. ASSUME Len(s) <= Len(t)
        PROVE  (\A i \in 1..Len(s) : u[i] = v[i])
                  <=> \A i \in 1..Len(s) : s[i] = t[(Len(t) - Len(s)) + i]
    <2>1. ASSUME \A i \in 1..Len(s) : u[i] = v[i], NEW i \in 1..Len(s)
          PROVE  s[i] = t[(Len(t) - Len(s)) + i]
      <3>1. PICK k \in 1..Len(s) : k = (Len(s) - i) + 1
        BY <1>1
      <3>2. (Len(s) - k) + 1 = i /\ (Len(t) - k) + 1 = (Len(t) - Len(s)) + i /\ k \in 1..Len(t)
        BY <1>1, <1>4, <3>1
      <3>3. u[k] = v[k]
        BY <2>1, <3>1
      <3>4. u[k] = s[i] /\ v[k] = t[(Len(t) - Len(s)) + i]
        BY <1>1, <3>1, <3>2
      <3> QED
        BY <3>3, <3>4
    <2>2. ASSUME \A i \in 1..Len(s) : s[i] = t[(Len(t) - Len(s)) + i], NEW i \in 1..Len(s)
          PROVE  u[i] = v[i]
      <3>1. PICK k \in 1..Len(s) : k = (Len(s) - i) + 1
        BY <1>1
      <3>2. (Len(t) - Len(s)) + k = (Len(t) - i) + 1 /\ i \in 1..Len(t)
        BY <1>1, <1>4, <3>1
      <3>3. s[k] = t[(Len(t) - Len(s)) + k]
        BY <2>2, <3>1
      <3>4. u[i] = s[k] /\ v[i] = t[(Len(t) - i) + 1]
        BY <1>1, <3>1, <3>2
      <3> QED
        BY <3>2, <3>3, <3>4
    <2> QED
      BY <2>1, <2>2
  <1> QED
    BY <1>2, <1>3, <1>4

LEMMA EmptyIsSuffix ==
    ASSUME NEW t \in Seq(Events)
    PROVE  IsSuffix(<<>>, t)
  <1>1. PICK s \in Seq(Events) : s = <<>> /\ Len(s) = 0
    BY EmptySeq
  <1>2. Len(s) <= Len(t)
    BY <1>1, LenProperties
  <1>3. \A i \in 1..Len(s) : s[i] = t[(Len(t) - Len(s)) + i]
    BY <1>1
  <1>4. IsSuffix(s, t)
    BY <1>2, <1>3, SuffixByPlace
  <1> QED
    BY <1>1, <1>4

\* What both are sent leaves one at the end of the other.
LEMMA SuffixGrows ==
    ASSUME NEW s \in Seq(Events), NEW t \in Seq(Events), NEW x \in Seq(Events), IsSuffix(s, t)
    PROVE  IsSuffix(s \o x, t \o x)
  <1>0. PICK a, b : a = s \o x /\ b = t \o x
    OBVIOUS
  <1>1. PICK m \in Nat, n \in Nat, l \in Nat : m = Len(s) /\ n = Len(t) /\ l = Len(x)
    BY LenProperties
  <1>2. /\ a \in Seq(Events) /\ Len(a) = m + l
        /\ b \in Seq(Events) /\ Len(b) = n + l
        /\ \A i \in 1..(m + l) : a[i] = IF i <= m THEN s[i] ELSE x[i - m]
        /\ \A i \in 1..(n + l) : b[i] = IF i <= n THEN t[i] ELSE x[i - n]
    BY <1>0, <1>1, ConcatProperties
  <1>3. Len(s) <= Len(t) /\ \A i \in 1..Len(s) : s[i] = t[(Len(t) - Len(s)) + i]
    BY SuffixByPlace
  <1>4. m <= n /\ \A i \in 1..m : s[i] = t[(n - m) + i]
    BY <1>1, <1>3
  <1>5. ASSUME NEW i \in 1..(m + l)
        PROVE  a[i] = b[(n - m) + i]
    <2>1. PICK k \in Nat : k = (n - m) + i
      BY <1>4
    <2>2. k \in 1..(n + l)
      BY <1>4, <2>1
    <2>3. a[i] = IF i <= m THEN s[i] ELSE x[i - m]
      BY <1>2
    <2>4. b[k] = IF k <= n THEN t[k] ELSE x[k - n]
      BY <1>2, <2>2
    <2>5. CASE i <= m
      <3>1. i \in 1..m /\ k <= n
        BY <2>1, <2>5
      <3>2. s[i] = t[k]
        BY <1>4, <2>1, <3>1
      <3> QED
        BY <2>1, <2>3, <2>4, <3>1, <3>2
    <2>6. CASE ~(i <= m)
      <3>1. ~(k <= n) /\ k - n = i - m
        BY <2>1, <2>6
      <3> QED
        BY <2>1, <2>3, <2>4, <2>6, <3>1
    <2> QED
      BY <2>5, <2>6
  <1>6. Len(a) <= Len(b) /\ \A i \in 1..Len(a) : a[i] = b[(Len(b) - Len(a)) + i]
    <2>1. (n + l) - (m + l) = n - m /\ m + l <= n + l
      BY <1>4
    <2> QED
      BY <1>2, <1>5, <2>1
  <1>7. IsSuffix(a, b)
    BY <1>2, <1>6, SuffixByPlace
  <1> QED
    BY <1>0, <1>7

LEMMA AgreeByLogs ==
    RoomsAgree <=> \A c, d \in Sockets : Rooms[c] = Rooms[d] =>
                      IsSuffix(Logs[c], Logs[d]) \/ IsSuffix(Logs[d], Logs[c])
  BY DEF RoomsAgree, Rooms, Logs

\* A step of the feed keeps the agreement.
LEMMA FeedAgrees ==
    ASSUME TypeOK, RoomsAgree, [Feed!FeedNext]_(Feed!lvars)
    PROVE  RoomsAgree'
  <1> DEFINE Agree(s, t) == IsSuffix(s, t) \/ IsSuffix(t, s)
  <1> SUFFICES ASSUME NEW c \in Sockets, NEW d \in Sockets, Rooms'[c] = Rooms'[d]
               PROVE  Agree(Logs'[c], Logs'[d])
    BY AgreeByLogs DEF RoomsAgree, Rooms, Logs
  <1>1. \A b \in Sockets : Logs[b] \in Seq(Events)
    BY DEF TypeOK, Logs
  <1>2. Rooms[c] = Rooms[d] => Agree(Logs[c], Logs[d])
    BY AgreeByLogs
  <1>3. ASSUME Rooms[c] = Rooms[d], UNCHANGED Logs
        PROVE  Agree(Logs'[c], Logs'[d])
    BY <1>2, <1>3
  <1>4. CASE UNCHANGED Feed!lvars
    BY <1>3, <1>4 DEF Feed!lvars
  <1>5. ASSUME NEW e \in Events, Feed!Receive(e)
        PROVE  Agree(Logs'[c], Logs'[d])
    BY <1>3, <1>5 DEF Feed!Receive
  <1>6. ASSUME NEW b \in Sockets, NEW o, Rooms' = [Rooms EXCEPT ![b] = o],
               Logs' = [Logs EXCEPT ![b] = <<>>]
        PROVE  Agree(Logs'[c], Logs'[d])
    <2>1. CASE b # c /\ b # d
      BY <1>2, <1>6, <2>1 DEF Rooms, Logs
    <2>2. CASE b = c \/ b = d
      <3>1. (b = c => Logs'[c] = <<>>) /\ (b = d => Logs'[d] = <<>>)
        BY <1>6 DEF Logs
      <3>2. Logs'[c] \in Seq(Events) /\ Logs'[d] \in Seq(Events)
        BY <1>1, <1>6, EmptySeq DEF Logs
      <3> QED
        BY <2>2, <3>1, <3>2, EmptyIsSuffix
    <2> QED
      BY <2>1, <2>2
  <1>7. ASSUME NEW b \in Sockets, Feed!Leave(b) \/ \E o \in Owners : Feed!Join(b, o)
        PROVE  Agree(Logs'[c], Logs'[d])
    BY <1>6, <1>7 DEF Feed!Leave, Feed!Join
  <1>8. ASSUME NEW o \in Owners, NEW n \in 1..BatchSize, NEW s \in [1..n -> Events],
               Feed!Deliver(o, s)
        PROVE  Agree(Logs'[c], Logs'[d])
    <2>1. s \in Seq(Events)
      BY FanoutAssumption
    <2>2. /\ Rooms[c] = Rooms[d]
          /\ Logs'[c] = IF Rooms[c] = o THEN Logs[c] \o s ELSE Logs[c]
          /\ Logs'[d] = IF Rooms[d] = o THEN Logs[d] \o s ELSE Logs[d]
      BY <1>8 DEF Feed!Deliver
    <2> QED
      BY <1>1, <1>2, <2>1, <2>2, SuffixGrows
  <1>9. CASE Feed!Fault
    <2>1. CASE UNCHANGED <<Rooms, Logs>>
      BY <1>3, <2>1
    <2>2. CASE Logs' = [b \in Sockets |-> <<>>]
      <3>1. Logs'[c] = <<>> /\ Logs'[d] = <<>>
        BY <2>2
      <3> QED
        BY <3>1, EmptyIsSuffix, EmptySeq
    <2> QED
      BY <1>9, <2>1, <2>2 DEF Feed!Fault
  <1> QED
    BY <1>4, <1>5, <1>7, <1>8, <1>9 DEF Feed!FeedNext

\* Connections in one room were sent the same events in the same order, from
\* the moment the later of them joined: browsers of one owner show the same.
THEOREM RoomsSeeTheSame == Spec => []RoomsAgree
  <1>1. Init => RoomsAgree
    <2> SUFFICES ASSUME Init PROVE RoomsAgree
      OBVIOUS
    <2>1. \A c \in Sockets : socket[c].inbox = <<>>
      BY OutTyped DEF Init
    <2> QED
      BY <2>1, EmptyIsSuffix, EmptySeq DEF RoomsAgree
  <1>2. FanoutInv /\ RoomsAgree /\ [Feed!FeedNext]_(Feed!lvars) => RoomsAgree'
    BY FeedAgrees DEF FanoutInv
  <1> QED
    BY <1>1, <1>2, FanoutInvariant, FanoutImplementsFeed, PTL
       DEF Spec, ImplementsFeed, Feed!FeedSpec

=============================================================================
