-------------------------- MODULE ApiKeyUsageProofs --------------------------
(* Theorems about ApiKeyUsage, for every limit, sync interval and set of    *)
(* streams.                                                                 *)
EXTENDS ApiKeyUsage, FiniteSetTheorems, TLAPS

-----------------------------------------------------------------------------
(* Type correctness                                                         *)

LEMMA DocsAndHashes ==
    /\ Absent \in Hashes
    /\ \A d \in Docs : d.usageCount \in Nat /\ d.exists \in BOOLEAN
    /\ \A h \in Hashes : h.usageCount \in Nat
    /\ \A n \in Nat : [present |-> TRUE, complete |-> TRUE, usageCount |-> n]
                        \in Hashes
  BY DEF Absent, Docs, Hashes

LEMMA HashCounted ==
    ASSUME NEW h \in Hashes
    PROVE  /\ h.usageCount + 1 \in Nat
           /\ [present |-> TRUE, complete |-> h.complete,
               usageCount |-> h.usageCount + 1] \in Hashes
  BY DEF Hashes

LEMMA CommandTyped ==
    \A op \in {"exists", "incr", "hset"}, s \in Streams :
        /\ Command(op, s) \in Commands
        /\ Command(op, s).op = op /\ Command(op, s).stream = s
  BY DEF Command, Commands

LEMMA OldestTyped ==
    ASSUME NEW q \in Seq(Commands), q # <<>>
    PROVE  /\ Head(q) \in Commands /\ Head(q).stream \in Streams
           /\ Tail(q) \in Seq(Commands)
  <1>1. Head(q) \in Commands /\ Tail(q) \in Seq(Commands)
    OBVIOUS
  <1> QED
    BY <1>1 DEF Commands

LEMMA TypeInit == Init => TypeOK
  <1> SUFFICES ASSUME Init PROVE TypeOK
    OBVIOUS
  <1> USE DEF Init
  <1>1. doc \in Docs
    BY DEF Docs
  <1>2. hash \in Hashes
    BY DocsAndHashes
  <1>3. snapshot \in [Streams -> Docs]
    BY <1>1
  <1>4. commands \in Seq(Commands)
    OBVIOUS
  <1>5. stream \in [Streams -> {"idle", "validating", "open", "closed"}]
    OBVIOUS
  <1> QED
    BY <1>1, <1>2, <1>3, <1>4, <1>5 DEF TypeOK

LEMMA ShutdownTyped ==
    ASSUME TypeOK, GracefulShutdown,
           UNCHANGED <<doc, hash, scriptLoaded, snapshot, received, reported,
                       resent>>,
           missed' = missed \/ missed' = TRUE,
           refused' = refused \/ refused' = TRUE
    PROVE  TypeOK'
  <1>1. commands' \in Seq(Commands)
    BY DEF GracefulShutdown
  <1>2. stream' \in [Streams -> {"idle", "validating", "open", "closed"}]
    BY DEF GracefulShutdown
  <1> QED
    BY <1>1, <1>2 DEF GracefulShutdown, TypeOK

LEMMA TypeStep == TypeOK /\ [Next]_vars => TypeOK'
  <1> SUFFICES ASSUME TypeOK, [Next]_vars
               PROVE  TypeOK'
    OBVIOUS
  <1> USE DEF process, syncing, redis, history
  <1>0. /\ commands \in Seq(Commands) /\ doc \in Docs /\ hash \in Hashes
        /\ snapshot \in [Streams -> Docs]
    BY DEF TypeOK
  <1>1. ASSUME NEW isActive \in BOOLEAN, UpdateActivation(isActive)
        PROVE  TypeOK'
    <2>1. commands' \in Seq(Commands)
      BY <1>0, <1>1 DEF UpdateActivation
    <2>2. doc' \in Docs
      BY <1>0, <1>1 DEF UpdateActivation, Docs
    <2> QED
      BY <2>1, <2>2, <1>1 DEF UpdateActivation, TypeOK
  <1>2. CASE DeleteApiKey
    <2>1. commands' \in Seq(Commands)
      BY <1>0, <1>2 DEF DeleteApiKey
    <2>2. doc' \in Docs
      BY <1>0, <1>2 DEF DeleteApiKey, Docs
    <2> QED
      BY <2>1, <2>2, <1>2 DEF DeleteApiKey, TypeOK
  <1>3. ASSUME NEW s \in Streams, FindApiKey(s)
        PROVE  TypeOK'
    <2>1. commands' \in Seq(Commands)
      BY <1>0, <1>3 DEF FindApiKey
    <2> QED
      BY <2>1, <1>3 DEF FindApiKey, TypeOK
  <1>4. ASSUME NEW s \in Streams, FindApiKeyFails(s)
        PROVE  TypeOK'
    <2>1. commands' \in Seq(Commands)
      BY <1>0, <1>4 DEF FindApiKeyFails, EndStream
    <2> QED
      BY <2>1, <1>4 DEF FindApiKeyFails, EndStream, TypeOK
  <1>5. ASSUME NEW s \in Streams, OpenStream(s)
        PROVE  TypeOK'
    <2>1. commands' \in Seq(Commands)
      <3>1. Command("exists", s) \in Commands
        BY CommandTyped
      <3> QED
        BY <1>0, <1>5, <3>1 DEF OpenStream, Send
    <2> QED
      BY <2>1, <1>5 DEF OpenStream, Send, TypeOK
  <1>6. ASSUME NEW s \in Streams, RejectStream(s)
        PROVE  TypeOK'
    <2>1. commands' \in Seq(Commands)
      BY <1>0, <1>6 DEF RejectStream, EndStream
    <2> QED
      BY <2>1, <1>6 DEF RejectStream, EndStream, TypeOK
  <1>7. ASSUME NEW s \in Streams, InitReply(s)
        PROVE  TypeOK'
    <2>1. commands' \in Seq(Commands)
      <3>1. Command("hset", s) \in Commands
        BY CommandTyped
      <3> QED
        BY <1>0, <1>7, <3>1 DEF InitReply, Initialise, Send
    <2> QED
      BY <2>1, <1>7 DEF InitReply, Initialise, Send, TypeOK
  <1>8. ASSUME NEW s \in Streams, ReceiveEvent(s)
        PROVE  TypeOK'
    <2>1. commands' \in Seq(Commands)
      <3>1. Command("incr", s) \in Commands
        BY CommandTyped
      <3> QED
        BY <1>0, <1>8, <3>1 DEF ReceiveEvent, Send
    <2> QED
      BY <2>1, <1>8 DEF ReceiveEvent, Send, TypeOK
  <1>9. ASSUME NEW s \in Streams, CloseStream(s)
        PROVE  TypeOK'
    <2>1. commands' \in Seq(Commands)
      BY <1>0, <1>9 DEF CloseStream, EndStream
    <2> QED
      BY <2>1, <1>9 DEF CloseStream, EndStream, TypeOK
  <1>10. CASE ExecuteExists
    <2>1. commands' \in Seq(Commands)
      BY <1>0, <1>10, OldestTyped DEF ExecuteExists, Missing, Executes, Turn
    <2>2. Head(commands).stream \in Streams
      BY <1>0, <1>10, OldestTyped DEF ExecuteExists, Missing, Executes, Turn
    <2> QED
      BY <2>1, <2>2, <1>10 DEF ExecuteExists, Missing, Executes, Turn, TypeOK
  <1>11. CASE ExecuteHset
    <2>1. commands' \in Seq(Commands)
      BY <1>0, <1>11, OldestTyped DEF ExecuteHset, Executes, Turn
    <2>2. hash' \in Hashes
      <3>1. snapshot[Head(commands).stream].usageCount \in Nat
        BY <1>0, <1>11, OldestTyped, DocsAndHashes DEF ExecuteHset, Executes,
           Turn
      <3> QED
        BY <3>1, <1>11, DocsAndHashes DEF ExecuteHset, Executes, Turn
    <2> QED
      BY <2>1, <2>2, <1>11 DEF ExecuteHset, Executes, Turn, TypeOK
  <1>12. CASE ExecuteIncr
    <2>1. commands' \in Seq(Commands)
      BY <1>0, <1>12, OldestTyped DEF ExecuteIncr, Executes, Turn
    <2>2. hash' \in Hashes
      BY <1>0, <1>12, HashCounted DEF ExecuteIncr
    <2>3. hash.usageCount + 1 \in Nat
      BY <1>0, HashCounted
    <2>4. syncCounter' \in Nat /\ updates' \subseteq Nat /\ reported' \in Nat
      <3>1. syncCounter \in Nat /\ updates \subseteq Nat /\ reported \in Nat
        BY DEF TypeOK
      <3>2. CountReply(hash.usageCount + 1)
        BY <1>12 DEF ExecuteIncr
      <3>3. syncCounter' \in Nat
        BY <3>1, <3>2 DEF CountReply
      <3>4. reported' \in {reported, hash.usageCount + 1}
        BY <3>1, <3>2, <2>3 DEF CountReply
      <3>5. updates' \in {updates, updates \cup {hash.usageCount + 1}}
        BY <3>2 DEF CountReply
      <3> QED
        BY <2>3, <3>1, <3>3, <3>4, <3>5
    <2> QED
      BY <2>1, <2>2, <2>4, <1>12 DEF ExecuteIncr, TypeOK
  <1>13. CASE IncrRejected
    <2>1. CASE Production
      BY <2>1, <1>13, ShutdownTyped DEF IncrRejected, Turn, Unhandled
    <2>2. CASE ~ Production
      <3>1. commands' \in Seq(Commands)
        BY <1>0, <2>2, <1>13, OldestTyped DEF IncrRejected, Turn, Unhandled
      <3> QED
        BY <3>1, <2>2, <1>13 DEF IncrRejected, Turn, Unhandled, TypeOK
    <2> QED
      BY <2>1, <2>2
  <1>14. ASSUME NEW u \in updates, ApplyUpdate(u)
        PROVE  TypeOK'
    <2>1. commands' \in Seq(Commands)
      BY <1>0, <1>14 DEF ApplyUpdate
    <2>2. doc' \in Docs
      BY <1>0, <1>14 DEF ApplyUpdate, Docs, TypeOK
    <2> QED
      BY <2>1, <2>2, <1>14 DEF ApplyUpdate, TypeOK
  <1>15. ASSUME NEW u \in updates, UpdateRejected(u)
        PROVE  TypeOK'
    <2>1. CASE Production
      BY <2>1, <1>15, ShutdownTyped DEF UpdateRejected, Unhandled
    <2>2. CASE ~ Production
      BY <2>2, <1>15 DEF UpdateRejected, Unhandled, TypeOK
    <2> QED
      BY <2>1, <2>2
  <1>16. CASE Exit
    BY <1>16, ShutdownTyped DEF Exit
  <1>17. CASE Restart
    <2>1. commands' \in Seq(Commands)
      BY <1>0, <1>17 DEF Restart
    <2> QED
      BY <2>1, <1>17 DEF Restart, TypeOK
  <1>18. CASE RedisRestart
    <2>1. commands' \in Seq(Commands)
      BY <1>0, <1>18 DEF RedisRestart
    <2>2. hash' \in Hashes
      BY <1>18, DocsAndHashes DEF RedisRestart
    <2> QED
      BY <2>1, <2>2, <1>18 DEF RedisRestart, TypeOK
  <1>19. CASE UNCHANGED vars
    BY <1>19 DEF vars, TypeOK
  <1>20. CASE HsetRejected
    <2>1. CASE Production
      BY <2>1, <1>20, ShutdownTyped DEF HsetRejected, Unhandled
    <2>2. CASE ~ Production
      <3>1. commands' \in Seq(Commands)
        BY <1>0, <2>2, <1>20, OldestTyped DEF HsetRejected, Turn, Unhandled
      <3> QED
        BY <3>1, <2>2, <1>20 DEF HsetRejected, Unhandled, TypeOK
    <2> QED
      BY <2>1, <2>2
  <1>21. CASE ExecuteIncrUnanswered
    <2>1. commands' \in Seq(Commands)
      BY <1>0, <1>21 DEF ExecuteIncrUnanswered
    <2>2. hash' \in Hashes
      BY <1>0, <1>21, HashCounted DEF ExecuteIncrUnanswered
    <2> QED
      BY <2>1, <2>2, <1>21 DEF ExecuteIncrUnanswered, TypeOK
  <1> QED
    BY <1>1, <1>2, <1>3, <1>4, <1>5, <1>6, <1>7, <1>8, <1>9, <1>10,
        <1>11, <1>12, <1>13, <1>14, <1>15, <1>16, <1>17, <1>18, <1>19,
        <1>20, <1>21 DEF Next

\* Every variable keeps its type, over streams, process, Redis and MongoDB.
THEOREM TypeCorrect == Spec => []TypeOK
  BY TypeInit, TypeStep, PTL DEF Spec

-----------------------------------------------------------------------------
(* Commands on the connection                                               *)

Of(q, op) == {i \in 1..Len(q) : q[i].op = op}

LEMMA OfFinite ==
    ASSUME NEW q \in Seq(Commands), NEW op
    PROVE  IsFiniteSet(Of(q, op)) /\ Cardinality(Of(q, op)) \in Nat
  <1>1. IsFiniteSet(1..Len(q))
    BY FS_Interval
  <1>2. Of(q, op) \in SUBSET (1..Len(q))
    BY DEF Of
  <1> QED
    BY <1>1, <1>2, FS_Subset, FS_CardinalityType

\* Sending a command adds at most one to its kind and nothing to the others.
LEMMA OfAppend ==
    ASSUME NEW q \in Seq(Commands), NEW c \in Commands, NEW op
    PROVE  /\ c.op # op => Of(Append(q, c), op) = Of(q, op)
           /\ c.op = op => Cardinality(Of(Append(q, c), op))
                             = Cardinality(Of(q, op)) + 1
  <1>1. /\ Len(Append(q, c)) = Len(q) + 1
        /\ \A i \in 1..Len(q) : Append(q, c)[i] = q[i]
        /\ Append(q, c)[Len(q) + 1] = c
    OBVIOUS
  <1>2. c.op # op => Of(Append(q, c), op) = Of(q, op)
    BY <1>1 DEF Of
  <1>3. ASSUME c.op = op
        PROVE  Cardinality(Of(Append(q, c), op)) = Cardinality(Of(q, op)) + 1
    <2>1. Of(Append(q, c), op) = Of(q, op) \cup {Len(q) + 1}
      BY <1>1, <1>3 DEF Of
    <2>2. Len(q) + 1 \notin Of(q, op)
      BY DEF Of
    <2> QED
      BY <2>1, <2>2, OfFinite, FS_AddElement
  <1> QED
    BY <1>2, <1>3

\* Executing the oldest command takes it from its kind and leaves the others.
LEMMA OfTail ==
    ASSUME NEW q \in Seq(Commands), q # <<>>, NEW op
    PROVE  /\ Cardinality(Of(Tail(q), op)) <= Cardinality(Of(q, op))
           /\ Head(q).op = op => Cardinality(Of(Tail(q), op)) + 1
                                   <= Cardinality(Of(q, op))
           /\ Of(q, op) = {} => Of(Tail(q), op) = {}
  <1> DEFINE S == Of(q, op) \ {1}
             T == Of(Tail(q), op)
             f == [i \in S |-> i - 1]
  <1>1. /\ Len(Tail(q)) = Len(q) - 1 /\ Len(q) \in Nat \ {0}
        /\ \A i \in 1..(Len(q) - 1) : Tail(q)[i] = q[i + 1]
    OBVIOUS
  <1>2. f \in Surjection(S, T)
    <2>1. \A i \in S : i - 1 \in T
      BY <1>1 DEF Of
    <2>2. \A j \in T : j + 1 \in S /\ (j + 1) - 1 = j
      BY <1>1 DEF Of
    <2> QED
      BY <2>1, <2>2 DEF Surjection
  <1>3. IsFiniteSet(S) /\ Cardinality(S) \in Nat /\ Cardinality(T) \in Nat
    <2>1. IsFiniteSet(S)
      BY OfFinite, FS_RemoveElement
    <2>2. Tail(q) \in Seq(Commands)
      OBVIOUS
    <2> QED
      BY <2>1, <2>2, OfFinite, FS_CardinalityType
  <1>4. Cardinality(T) <= Cardinality(S)
    BY <1>2, <1>3, FS_Surjection
  <1>5. Cardinality(S) = IF 1 \in Of(q, op) THEN Cardinality(Of(q, op)) - 1
                         ELSE Cardinality(Of(q, op))
    BY OfFinite, FS_RemoveElement
  <1>6. Head(q).op = op => 1 \in Of(q, op)
    BY <1>1 DEF Of
  <1>7. Of(q, op) = {} => T = {}
    BY <1>1 DEF Of
  <1> QED
    BY <1>3, <1>4, <1>5, <1>6, <1>7, OfFinite

-----------------------------------------------------------------------------
(* No event is charged twice                                                *)

Waiting == Cardinality(Of(commands, "incr"))

LEMMA WaitingIsIncrements ==
    /\ CommandsOf("incr") = Of(commands, "incr")
    /\ TypeOK => Waiting \in Nat
  BY OfFinite DEF CommandsOf, Of, Waiting, TypeOK

\* The counts a step leaves alone or lowers stay covered.
Covered(waiting) ==
    /\ hash.usageCount + waiting <= received + resent
    /\ reported + waiting <= received + resent
    /\ doc.usageCount <= reported
    /\ \A s \in Streams : snapshot[s].usageCount <= reported
    /\ \A u \in updates : u <= reported

LEMMA NeverOverchargedIsCovered == NeverOvercharged <=> Covered(Waiting)
  BY WaitingIsIncrements DEF NeverOvercharged, Covered, Waiting

LEMMA ShutdownWaits ==
    ASSUME GracefulShutdown
    PROVE  Waiting' = 0
  <1>1. Of(commands, "incr")' = {}
    BY DEF GracefulShutdown, Of
  <1> QED
    BY <1>1, FS_EmptySet DEF Waiting

LEMMA OverchargeInit == Init => NeverOvercharged
  <1> SUFFICES ASSUME Init PROVE Covered(Waiting)
    BY NeverOverchargedIsCovered
  <1>1. Of(commands, "incr") = {}
    BY DEF Init, Of
  <1>2. Waiting = 0
    BY <1>1, FS_EmptySet DEF Waiting
  <1> QED
    BY <1>2 DEF Init, Covered, Absent

LEMMA OverchargeStep ==
    TypeOK /\ TypeOK' /\ NeverOvercharged /\ [Next]_vars => NeverOvercharged'
  <1>z. Covered(Waiting)' => NeverOvercharged'
    BY DEF NeverOvercharged, Covered, Waiting, CommandsOf, Of
  <1> SUFFICES ASSUME TypeOK, TypeOK', Covered(Waiting), [Next]_vars
               PROVE  Covered(Waiting)'
    BY <1>z, NeverOverchargedIsCovered
  <1> USE DEF process, syncing, redis, history
  <1>0. /\ Waiting \in Nat /\ Waiting' \in Nat
        /\ received \in Nat /\ reported \in Nat /\ resent \in Nat
        /\ commands \in Seq(Commands)
        /\ doc \in Docs /\ hash \in Hashes /\ snapshot \in [Streams -> Docs]
        /\ doc.usageCount \in Nat /\ hash.usageCount \in Nat
        /\ \A s \in Streams : snapshot[s].usageCount \in Nat
        /\ \A u \in updates : u \in Nat
    <2>1. commands \in Seq(Commands) /\ commands' \in Seq(Commands)
      BY DEF TypeOK
    <2>2. Waiting \in Nat /\ Waiting' \in Nat
      BY <2>1, OfFinite DEF Waiting
    <2> QED
      BY <2>1, <2>2, DocsAndHashes DEF TypeOK
  <1>n. /\ Waiting \in Nat /\ Waiting' \in Nat
        /\ received \in Nat /\ reported \in Nat /\ resent \in Nat
        /\ doc.usageCount \in Nat /\ hash.usageCount \in Nat
    BY <1>0
  <1>m. /\ hash.usageCount + Waiting <= received + resent
        /\ reported + Waiting <= received + resent
    BY DEF Covered
  \* A step that only takes commands from the connection keeps the cover.
  <1>e. ASSUME UNCHANGED <<hash, doc, snapshot, updates, received, reported,
                           resent>>,
               Waiting' <= Waiting
        PROVE  Covered(Waiting)'
    <2>1. /\ hash.usageCount + Waiting' <= received + resent
          /\ reported + Waiting' <= received + resent
      BY <1>n, <1>m, <1>e DEF Waiting
    <2> QED
      BY <2>1, <1>e DEF Covered
  \* The increments on the connection do not change with the commands.
  <1>a. commands' = commands => Waiting' = Waiting
    BY DEF Waiting, Of
  <1>b. ASSUME NEW op \in {"exists", "hset"}, NEW s \in Streams,
               commands' = Append(commands, Command(op, s))
        PROVE  Waiting' = Waiting
    BY <1>0, <1>b, OfAppend, CommandTyped DEF Waiting
  <1>c. ASSUME commands # <<>>, commands' = Tail(commands)
        PROVE  /\ Waiting' <= Waiting
               /\ Head(commands).op = "incr" => Waiting' + 1 <= Waiting
    BY <1>0, <1>c, OfTail DEF Waiting
  <1>d. ASSUME GracefulShutdown,
               UNCHANGED <<doc, hash, scriptLoaded, snapshot, received, reported,
                           resent>>
        PROVE  Covered(Waiting)'
    <2>1. Waiting' = 0
      BY <1>d, ShutdownWaits
    <2> QED
      BY <1>n, <2>1, <1>d DEF GracefulShutdown, Covered
  <1>1. ASSUME NEW isActive \in BOOLEAN, UpdateActivation(isActive)
        PROVE  Covered(Waiting)'
    <2>1. doc'.usageCount = doc.usageCount
      BY <1>0, <1>1 DEF UpdateActivation, Docs
    <2> QED
      BY <2>1, <1>a, <1>1 DEF UpdateActivation, Covered
  <1>2. CASE DeleteApiKey
    <2>1. doc'.usageCount = doc.usageCount
      BY <1>0, <1>2 DEF DeleteApiKey, Docs
    <2> QED
      BY <2>1, <1>a, <1>2 DEF DeleteApiKey, Covered
  <1>3. ASSUME NEW s \in Streams, FindApiKey(s)
        PROVE  Covered(Waiting)'
    <2>1. \A x \in Streams : snapshot'[x].usageCount <= reported
      BY <1>0, <1>3 DEF FindApiKey, Covered
    <2> QED
      BY <2>1, <1>a, <1>3 DEF FindApiKey, Covered
  <1>4. ASSUME NEW s \in Streams, FindApiKeyFails(s)
        PROVE  Covered(Waiting)'
    BY <1>a, <1>4 DEF FindApiKeyFails, EndStream, Covered
  <1>5. ASSUME NEW s \in Streams, OpenStream(s)
        PROVE  Covered(Waiting)'
    BY <1>b, <1>5 DEF OpenStream, Send, Covered
  <1>6. ASSUME NEW s \in Streams, RejectStream(s)
        PROVE  Covered(Waiting)'
    BY <1>a, <1>6 DEF RejectStream, EndStream, Covered
  <1>7. ASSUME NEW s \in Streams, InitReply(s)
        PROVE  Covered(Waiting)'
    BY <1>b, <1>7 DEF InitReply, Initialise, Send, Covered
  <1>8. ASSUME NEW s \in Streams, ReceiveEvent(s)
        PROVE  Covered(Waiting)'
    <2>1. Waiting' = Waiting + 1
      BY <1>0, <1>8, OfAppend, CommandTyped DEF ReceiveEvent, Send, Waiting
    <2> QED
      BY <1>0, <2>1, <1>8 DEF ReceiveEvent, Send, Covered
  <1>9. ASSUME NEW s \in Streams, CloseStream(s)
        PROVE  Covered(Waiting)'
    BY <1>a, <1>9 DEF CloseStream, EndStream, Covered
  <1>10. CASE ExecuteExists
    <2>1. Waiting' <= Waiting
      BY <1>c, <1>10 DEF ExecuteExists, Missing, Executes, Turn
    <2> QED
      BY <1>e, <2>1, <1>10 DEF ExecuteExists, Missing
  <1>11. CASE ExecuteHset
    <2>1. Head(commands).stream \in Streams
      BY <1>0, <1>11, OldestTyped DEF ExecuteHset, Executes, Turn
    <2>2. hash'.usageCount \in Nat /\ hash'.usageCount <= reported
      BY <1>0, <2>1, <1>11 DEF ExecuteHset, Covered
    <2>3. Waiting' <= Waiting
      BY <1>c, <1>11 DEF ExecuteHset, Executes, Turn
    <2>4. /\ hash'.usageCount + Waiting' <= received + resent
          /\ reported + Waiting' <= received + resent
      BY <1>n, <1>m, <2>2, <2>3 DEF Waiting
    <2> QED
      BY <2>4, <1>11 DEF ExecuteHset, Covered
  <1>12. CASE ExecuteIncr
    <2>1. hash'.usageCount = hash.usageCount + 1
      BY <1>0, <1>12, HashCounted DEF ExecuteIncr
    <2>2. Waiting' + 1 <= Waiting
      BY <1>c, <1>12 DEF ExecuteIncr, Executes, Turn
    <2>3. reported' \in {reported, hash.usageCount + 1} /\ reported <= reported'
      BY <1>n, <1>12 DEF ExecuteIncr, CountReply
    <2>4. updates' = updates \/ (/\ updates' = updates \cup {hash.usageCount + 1}
                                 /\ hash.usageCount + 1 <= reported')
      BY <1>n, <1>12 DEF ExecuteIncr, CountReply
    <2>5. reported' \in Nat
      BY <1>n, <2>3
    <2>6. hash'.usageCount + Waiting' <= received + resent
      BY <1>n, <1>m, <2>1, <2>2 DEF Waiting
    <2>7. reported' + Waiting' <= received + resent
      BY <1>n, <1>m, <2>2, <2>3 DEF Waiting
    <2>8. /\ doc.usageCount <= reported
          /\ \A s \in Streams : snapshot[s].usageCount <= reported
          /\ \A u \in updates : u <= reported
      BY DEF Covered
    <2>9. \A n \in Nat : n <= reported => n <= reported'
      BY <1>n, <2>3, <2>5
    <2>10. /\ doc.usageCount <= reported'
           /\ \A s \in Streams : snapshot[s].usageCount <= reported'
           /\ \A u \in updates : u <= reported'
      BY <1>0, <2>8, <2>9
    <2>11. \A u \in updates' : u <= reported'
      BY <2>4, <2>10
    <2> QED
      BY <2>6, <2>7, <2>10, <2>11, <1>12 DEF ExecuteIncr, Covered
  <1>13. CASE IncrRejected
    <2>1. CASE Production
      BY <2>1, <1>d, <1>13 DEF IncrRejected, Turn, Unhandled
    <2>2. CASE ~ Production
      <3>1. Waiting' <= Waiting
        BY <2>2, <1>c, <1>13 DEF IncrRejected, Turn, Unhandled
      <3> QED
        BY <1>e, <3>1, <2>2, <1>13 DEF IncrRejected, Turn, Unhandled
    <2> QED
      BY <2>1, <2>2
  <1>14. ASSUME NEW u \in updates, ApplyUpdate(u)
        PROVE  Covered(Waiting)'
    <2>1. doc'.usageCount <= reported
      BY <1>0, <1>14 DEF ApplyUpdate, Covered, Docs
    <2> QED
      BY <2>1, <1>a, <1>14 DEF ApplyUpdate, Covered
  <1>15. ASSUME NEW u \in updates, UpdateRejected(u)
        PROVE  Covered(Waiting)'
    <2>1. CASE Production
      BY <2>1, <1>d, <1>15 DEF UpdateRejected, Unhandled
    <2>2. CASE ~ Production
      BY <2>2, <1>a, <1>15 DEF UpdateRejected, Unhandled, Covered
    <2> QED
      BY <2>1, <2>2
  <1>16. CASE Exit
    BY <1>d, <1>16 DEF Exit
  <1>17. CASE Restart
    BY <1>a, <1>17 DEF Restart, Covered
  <1>18. CASE RedisRestart
    <2>1. hash'.usageCount = 0
      BY <1>18 DEF RedisRestart, Absent
    <2> QED
      BY <1>0, <2>1, <1>a, <1>18 DEF RedisRestart, Covered
  <1>19. CASE UNCHANGED vars
    BY <1>a, <1>19 DEF vars, Covered
  <1>20. CASE HsetRejected
    <2>1. CASE Production
      BY <2>1, <1>d, <1>20 DEF HsetRejected, Unhandled
    <2>2. CASE ~ Production
      <3>1. Waiting' <= Waiting
        BY <2>2, <1>c, <1>20 DEF HsetRejected, Turn, Unhandled
      <3> QED
        BY <1>e, <3>1, <2>2, <1>20 DEF HsetRejected, Unhandled
    <2> QED
      BY <2>1, <2>2
  <1>21. CASE ExecuteIncrUnanswered
    <2>1. /\ hash'.usageCount = hash.usageCount + 1 /\ resent' = resent + 1
          /\ Waiting' = Waiting
      BY <1>a, <1>21 DEF ExecuteIncrUnanswered
    <2>2. /\ hash'.usageCount + Waiting' <= received + resent'
          /\ reported + Waiting' <= received + resent'
      BY <1>n, <1>m, <2>1 DEF Waiting
    <2> QED
      BY <2>2, <1>21 DEF ExecuteIncrUnanswered, Covered
  <1> QED
    BY <1>1, <1>2, <1>3, <1>4, <1>5, <1>6, <1>7, <1>8, <1>9, <1>10, <1>11,
       <1>12, <1>13, <1>14, <1>15, <1>16, <1>17, <1>18, <1>19,
       <1>20, <1>21 DEF Next

\* Neither store, nor a value on its way between them, is further ahead of the
\* events received than the increments that the broken connection had executed
\* twice, in spite of exits, restarts of Redis and reordered updates.
THEOREM NoEventChargedTwice == Spec => []NeverOvercharged
  <1>1. Init => TypeOK /\ NeverOvercharged
    BY TypeInit, OverchargeInit
  <1>2. TypeOK /\ NeverOvercharged /\ [Next]_vars
          => (TypeOK /\ NeverOvercharged)'
    BY TypeStep, OverchargeStep
  <1> QED
    BY <1>1, <1>2, PTL DEF Spec

-----------------------------------------------------------------------------
(* The document lags for a reason                                           *)

LEMMA CounterRolls ==
    ASSUME NEW n \in Nat, NEW m \in Nat, n < m, (n + 1) % m # 0
    PROVE  n + 1 < m
  <1>1. CASE n + 1 = m
    <2>1. m % m = 0
      BY SMT
    <2> QED
      BY <1>1, <2>1
  <1>2. CASE n + 1 # m
    BY <1>2
  <1> QED
    BY <1>1, <1>2

\* What Redis has counted and the document does not show is on its way or in
\* the sync counter.
OnItsWay ==
    \E n \in updates \cup {doc.usageCount} :
        hash.usageCount <= n + syncCounter + resent

\* No stream was validated against more than the document shows: its HSET does
\* not put Redis ahead.
SnapshotsBehind == \A s \in Streams : snapshot[s].usageCount <= doc.usageCount

\* LagExplained, with the bound of the counter in every state and with the
\* snapshots that HSET will write.
LagInv ==
    /\ syncCounter < SyncEvery
    /\ ~exited /\ ~missed /\ doc.exists =>
          SnapshotsBehind /\ (hash.complete => OnItsWay)

LEMMA LagInvExplains == LagInv => LagExplained
  BY DEF LagInv, LagExplained, OnItsWay

LEMMA LagInit == Init => LagInv
  BY UsageAssumption DEF Init, LagInv, SnapshotsBehind, Absent

LEMMA LagStep == TypeOK /\ LagInv /\ [Next]_vars => LagInv'
  <1> SUFFICES ASSUME TypeOK, LagInv, [Next]_vars
               PROVE  LagInv'
    OBVIOUS
  <1> USE DEF process, syncing, redis, history
  <1>0. /\ syncCounter \in Nat /\ resent \in Nat /\ hash.usageCount \in Nat
        /\ SyncEvery \in Nat \ {0} /\ syncCounter < SyncEvery
        /\ commands \in Seq(Commands) /\ snapshot \in [Streams -> Docs]
        /\ doc \in Docs /\ doc.usageCount \in Nat
        /\ \A s \in Streams : snapshot[s].usageCount \in Nat
        /\ \A n \in updates : n \in Nat
    BY UsageAssumption, DocsAndHashes DEF TypeOK, LagInv
  <1>a. ASSUME GracefulShutdown
        PROVE  LagInv'
    BY <1>0, <1>a DEF GracefulShutdown, LagInv
  <1>b. ASSUME UNCHANGED <<hash, doc, updates, snapshot, syncCounter, resent,
                           missed, exited>>
        PROVE  LagInv'
    BY <1>b DEF LagInv, OnItsWay, SnapshotsBehind
  <1>1. CASE ExecuteHset
    <2>1. Head(commands).stream \in Streams
      BY <1>0, <1>1, OldestTyped DEF ExecuteHset, Executes, Turn
    <2>2. hash'.usageCount = snapshot[Head(commands).stream].usageCount
      BY <1>1 DEF ExecuteHset
    <2>3. UNCHANGED <<doc, updates, snapshot, syncCounter, resent, missed, exited>>
      BY <1>1 DEF ExecuteHset
    <2>4. ASSUME SnapshotsBehind
          PROVE  OnItsWay'
      <3>1. hash'.usageCount <= doc.usageCount + syncCounter + resent
        BY <1>0, <2>1, <2>2, <2>4 DEF SnapshotsBehind
      <3> QED
        BY <2>3, <3>1 DEF OnItsWay
    <2> QED
      BY <2>3, <2>4 DEF LagInv, SnapshotsBehind
  <1>2. CASE ExecuteIncr
    <2>1. /\ hash'.usageCount = hash.usageCount + 1
          /\ hash'.complete = hash.complete
          /\ UNCHANGED <<doc, snapshot, resent, missed, exited>>
      BY <1>2 DEF ExecuteIncr
    <2>2. CountReply(hash.usageCount + 1)
      BY <1>2 DEF ExecuteIncr
    <2>3. CASE (syncCounter + 1) % SyncEvery = 0
      <3>1. syncCounter' = 0
        BY <2>2, <2>3 DEF CountReply
      <3>2. ASSUME hash.complete
            PROVE  OnItsWay'
        <4>1. hash.usageCount + 1 \in updates'
          BY <2>2, <2>3, <3>2 DEF CountReply
        <4>2. hash'.usageCount <= (hash.usageCount + 1) + syncCounter' + resent'
          BY <1>0, <2>1, <3>1
        <4> QED
          BY <4>1, <4>2 DEF OnItsWay
      <3> QED
        BY <1>0, <2>1, <3>1, <3>2 DEF LagInv, SnapshotsBehind
    <2>4. CASE (syncCounter + 1) % SyncEvery # 0
      <3>1. syncCounter' = syncCounter + 1 /\ updates' = updates
        BY <2>2, <2>4 DEF CountReply
      <3>2. syncCounter + 1 < SyncEvery
        BY <1>0, <2>4, CounterRolls
      <3>3. ASSUME OnItsWay
            PROVE  OnItsWay'
        <4>1. PICK n \in updates \cup {doc.usageCount} :
                 hash.usageCount <= n + syncCounter + resent
          BY <3>3 DEF OnItsWay
        <4>2. hash'.usageCount <= n + syncCounter' + resent'
          BY <1>0, <2>1, <3>1, <4>1
        <4> QED
          BY <2>1, <3>1, <4>1, <4>2 DEF OnItsWay
      <3> QED
        BY <2>1, <3>1, <3>2, <3>3 DEF LagInv, SnapshotsBehind
    <2> QED
      BY <2>3, <2>4
  <1>3. CASE ExecuteIncrUnanswered
    <2>1. /\ hash'.usageCount = hash.usageCount + 1 /\ resent' = resent + 1
          /\ hash'.complete = hash.complete
          /\ UNCHANGED <<doc, updates, snapshot, syncCounter, missed, exited>>
      BY <1>3 DEF ExecuteIncrUnanswered
    <2>2. ASSUME OnItsWay
          PROVE  OnItsWay'
      <3>1. PICK n \in updates \cup {doc.usageCount} :
               hash.usageCount <= n + syncCounter + resent
        BY <2>2 DEF OnItsWay
      <3>2. hash'.usageCount <= n + syncCounter' + resent'
        BY <1>0, <2>1, <3>1
      <3> QED
        BY <2>1, <3>1, <3>2 DEF OnItsWay
    <2> QED
      BY <2>1, <2>2 DEF LagInv, SnapshotsBehind
  <1>4. ASSUME NEW u \in updates, ApplyUpdate(u)
        PROVE  LagInv'
    <2>1. /\ updates' = updates \ {u}
          /\ missed' = (missed \/ u < doc.usageCount)
          /\ UNCHANGED <<hash, snapshot, syncCounter, resent, exited>>
      BY <1>4 DEF ApplyUpdate
    <2>2. ASSUME ~exited', ~missed', doc'.exists, SnapshotsBehind,
                 hash.complete => OnItsWay
          PROVE  SnapshotsBehind' /\ (hash'.complete => OnItsWay')
      <3>1. doc'.usageCount = u /\ doc.usageCount <= u /\ u \in Nat
        BY <1>0, <2>1, <2>2, <1>4 DEF ApplyUpdate, Docs
      <3>2. SnapshotsBehind'
        BY <1>0, <2>1, <2>2, <3>1 DEF SnapshotsBehind
      <3>3. ASSUME hash.complete
            PROVE  OnItsWay'
        <4>1. PICK n \in updates \cup {doc.usageCount} :
                 hash.usageCount <= n + syncCounter + resent
          BY <2>2, <3>3 DEF OnItsWay
        <4>2. CASE n \in updates \ {u}
          BY <2>1, <4>1, <4>2 DEF OnItsWay
        <4>3. CASE n \in {u, doc.usageCount}
          <5>1. hash.usageCount <= doc'.usageCount + syncCounter + resent
            BY <1>0, <3>1, <4>1, <4>3
          <5> QED
            BY <2>1, <5>1 DEF OnItsWay
        <4> QED
          BY <4>2, <4>3
      <3> QED
        BY <2>1, <3>2, <3>3
    <2>3. doc'.exists = doc.exists
      BY <1>0, <1>4 DEF ApplyUpdate, Docs
    <2> QED
      BY <2>1, <2>2, <2>3 DEF LagInv
  <1>5. ASSUME NEW u \in updates, UpdateRejected(u)
        PROVE  LagInv'
    <2>1. CASE Production
      BY <2>1, <1>a, <1>5 DEF UpdateRejected, Unhandled
    <2>2. CASE ~ Production
      BY <2>2, <1>5 DEF UpdateRejected, Unhandled, LagInv
    <2> QED
      BY <2>1, <2>2
  <1>6. CASE RedisRestart
    BY <1>6 DEF RedisRestart, Absent, LagInv, SnapshotsBehind
  <1>7. ASSUME NEW isActive \in BOOLEAN, UpdateActivation(isActive)
        PROVE  LagInv'
    <2>1. doc'.usageCount = doc.usageCount /\ doc'.exists = doc.exists
      BY <1>0, <1>7 DEF UpdateActivation, Docs
    <2> QED
      BY <2>1, <1>7 DEF UpdateActivation, LagInv, SnapshotsBehind, OnItsWay
  <1>8. CASE DeleteApiKey
    <2>1. ~ doc'.exists
      BY <1>0, <1>8 DEF DeleteApiKey, Docs
    <2> QED
      BY <2>1, <1>8 DEF DeleteApiKey, LagInv
  <1>9. ASSUME NEW s \in Streams, FindApiKey(s)
        PROVE  LagInv'
    <2>1. SnapshotsBehind => SnapshotsBehind'
      BY <1>0, <1>9 DEF FindApiKey, SnapshotsBehind
    <2> QED
      BY <2>1, <1>9 DEF FindApiKey, LagInv, OnItsWay
  <1>10. CASE IncrRejected
    <2>1. CASE Production
      BY <2>1, <1>a, <1>10 DEF IncrRejected, Turn, Unhandled
    <2>2. CASE ~ Production
      BY <2>2, <1>b, <1>10 DEF IncrRejected, Turn, Unhandled
    <2> QED
      BY <2>1, <2>2
  <1>11. CASE HsetRejected
    <2>1. CASE Production
      BY <2>1, <1>a, <1>11 DEF HsetRejected, Unhandled
    <2>2. CASE ~ Production
      BY <2>2, <1>b, <1>11 DEF HsetRejected, Unhandled
    <2> QED
      BY <2>1, <2>2
  <1>12. CASE Exit
    BY <1>a, <1>12 DEF Exit
  \* The steps that leave the counts alone.
  <1>13. /\ Restart => LagInv'
         /\ ExecuteExists => LagInv'
         /\ UNCHANGED vars => LagInv'
    BY <1>b DEF Restart, ExecuteExists, Missing, vars
  <1>14. ASSUME NEW s \in Streams
         PROVE  /\ FindApiKeyFails(s) => LagInv'
                /\ OpenStream(s) => LagInv'
                /\ RejectStream(s) => LagInv'
                /\ InitReply(s) => LagInv'
                /\ ReceiveEvent(s) => LagInv'
                /\ CloseStream(s) => LagInv'
    BY <1>b DEF FindApiKeyFails, OpenStream, Send, RejectStream, EndStream,
       InitReply, ReceiveEvent, CloseStream
  <1> QED
    BY <1>1, <1>2, <1>3, <1>4, <1>5, <1>6, <1>7, <1>8, <1>9, <1>10,
       <1>11, <1>12, <1>13, <1>14 DEF Next

\* Before any exit, and until an update is rejected or lands on a later count,
\* what Redis has counted beyond the document is in an update on its way and
\* in the sync counter, which stays below the sync interval.
THEOREM LagHasReason == Spec => []LagExplained
  <1>1. Init => TypeOK /\ LagInv
    BY TypeInit, LagInit
  <1>2. TypeOK /\ LagInv /\ [Next]_vars => (TypeOK /\ LagInv)'
    BY TypeStep, LagStep
  <1> QED
    BY <1>1, <1>2, LagInvExplains, PTL DEF Spec

-----------------------------------------------------------------------------
(* The initialisation window closes                                         *)

LEMMA WindowStep ==
    ASSUME TypeOK, [Next]_vars,
           hash.present, InitQuiet, up, up', hash'.present
    PROVE  InitQuiet' /\ hash'.usageCount >= hash.usageCount
  <1> DEFINE Closed == InitQuiet' /\ hash'.usageCount >= hash.usageCount
  <1> USE DEF process, syncing, redis, history
  <1>0. /\ commands \in Seq(Commands) /\ hash.usageCount \in Nat
        /\ initDue = {} /\ Of(commands, "hset") = {}
    BY DocsAndHashes DEF TypeOK, InitQuiet, CommandsOf, Of
  <1>a. ASSUME initDue' = {}, Of(commands', "hset") = {}, UNCHANGED hash
        PROVE  Closed
    BY <1>0, <1>a DEF InitQuiet, CommandsOf, Of
  <1>b. ASSUME UNCHANGED <<initDue, commands, hash>>
        PROVE  Closed
    BY <1>0, <1>a, <1>b
  <1>c. ASSUME GracefulShutdown
        PROVE  Closed
    BY <1>c DEF GracefulShutdown
  <1>d. ASSUME commands # <<>>
        PROVE  /\ Head(commands).op # "hset"
               /\ Of(Tail(commands), "hset") = {}
    <2>1. Head(commands).op # "hset"
      <3>1. Head(commands) = commands[1] /\ 1 \in 1..Len(commands)
        BY <1>0, <1>d
      <3> QED
        BY <1>0, <3>1 DEF Of
    <2> QED
      BY <1>0, <1>d, <2>1, OfTail
  <1>1. ASSUME NEW s \in Streams, OpenStream(s)
        PROVE  Closed
    <2>1. Of(commands', "hset") = {}
      BY <1>0, <1>1, OfAppend, CommandTyped DEF OpenStream, Send
    <2> QED
      BY <1>0, <1>a, <2>1, <1>1 DEF OpenStream, Send
  <1>2. ASSUME NEW s \in Streams, ReceiveEvent(s)
        PROVE  Closed
    <2>1. Of(commands', "hset") = {}
      BY <1>0, <1>2, OfAppend, CommandTyped DEF ReceiveEvent, Send
    <2> QED
      BY <1>0, <1>a, <2>1, <1>2 DEF ReceiveEvent, Send
  <1>3. ASSUME NEW s \in Streams, InitReply(s)
        PROVE  Closed
    BY <1>0, <1>3 DEF InitReply, Initialise, Send
  <1>4. CASE ExecuteExists
    BY <1>0, <1>a, <1>d, <1>4 DEF ExecuteExists, Missing, Executes, Turn
  <1>5. CASE ExecuteHset
    BY <1>d, <1>5 DEF ExecuteHset, Executes, Turn
  <1>6. CASE ExecuteIncr
    <2>1. initDue' = {} /\ Of(commands', "hset") = {}
      BY <1>0, <1>d, <1>6 DEF ExecuteIncr, Executes, Turn
    <2>2. hash'.usageCount = hash.usageCount + 1
      BY <1>6 DEF ExecuteIncr
    <2> QED
      BY <1>0, <2>1, <2>2 DEF InitQuiet, CommandsOf, Of
  <1>7. CASE IncrRejected
    <2>1. CASE Production
      BY <2>1, <1>c, <1>7 DEF IncrRejected, Turn, Unhandled
    <2>2. CASE ~ Production
      BY <1>0, <1>a, <1>d, <2>2, <1>7 DEF IncrRejected, Turn, Unhandled
    <2> QED
      BY <2>1, <2>2
  <1>8. ASSUME NEW u \in updates, UpdateRejected(u)
        PROVE  Closed
    <2>1. CASE Production
      BY <2>1, <1>c, <1>8 DEF UpdateRejected, Unhandled
    <2>2. CASE ~ Production
      BY <2>2, <1>b, <1>8 DEF UpdateRejected, Unhandled
    <2> QED
      BY <2>1, <2>2
  <1>9. CASE Exit
    BY <1>c, <1>9 DEF Exit
  <1>10. CASE Restart
    BY <1>10 DEF Restart
  <1>11. CASE RedisRestart
    BY <1>11 DEF RedisRestart, Absent
  \* The steps that touch neither the hash nor its initialisation.
  <1>12. /\ \A isActive \in BOOLEAN : UpdateActivation(isActive) => Closed
         /\ DeleteApiKey => Closed
         /\ UNCHANGED vars => Closed
    BY <1>b DEF UpdateActivation, DeleteApiKey, vars
  <1>13. ASSUME NEW s \in Streams
         PROVE  /\ FindApiKey(s) => Closed
                /\ FindApiKeyFails(s) => Closed
                /\ RejectStream(s) => Closed
                /\ CloseStream(s) => Closed
    BY <1>b DEF FindApiKey, FindApiKeyFails, RejectStream, CloseStream, EndStream
  <1>14. \A u \in updates : ApplyUpdate(u) => Closed
    BY <1>b DEF ApplyUpdate
  <1>15. CASE HsetRejected
    <2>1. CASE Production
      BY <2>1, <1>c, <1>15 DEF HsetRejected, Unhandled
    <2>2. CASE ~ Production
      BY <1>d, <2>2, <1>15 DEF HsetRejected, Turn
    <2> QED
      BY <2>1, <2>2
  <1>16. CASE ExecuteIncrUnanswered
    <2>1. initDue' = {} /\ Of(commands', "hset") = {}
      BY <1>0, <1>16 DEF ExecuteIncrUnanswered
    <2>2. hash'.usageCount = hash.usageCount + 1
      BY <1>16 DEF ExecuteIncrUnanswered
    <2> QED
      BY <1>0, <2>1, <2>2 DEF InitQuiet, CommandsOf, Of
  <1> QED
    BY <1>1, <1>2, <1>3, <1>4, <1>5, <1>6, <1>7, <1>8, <1>9, <1>10, <1>11,
       <1>12, <1>13, <1>14, <1>15, <1>16 DEF Next

\* Once the hash is there and no HSET is due, no stream that opens makes one
\* due, and the count only rises until Redis loses the hash.
THEOREM InitialisationWindowCloses == Spec => WindowCloses
  <1>1. TypeOK /\ [Next]_vars
          => [hash.present /\ InitQuiet /\ up /\ up' /\ hash'.present
                => InitQuiet' /\ hash'.usageCount >= hash.usageCount]_vars
    BY WindowStep
  <1> QED
    BY <1>1, TypeCorrect, PTL DEF Spec, WindowCloses

=============================================================================
