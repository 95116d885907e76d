----------------------- MODULE ConversionServiceProofs -----------------------
(***************************************************************************)
(* Theorems of ConversionService for every set of sweeps and correlations, *)
(* every time to live and every bound.                                     *)
(***************************************************************************)
EXTENDS ConversionService, FiniteSetTheorems, SequenceTheorems, TLAPS

(* What remains of a list after the pops is a list of the same entries.    *)
LEMMA WithoutType ==
    ASSUME NEW S, NEW list \in Seq(S), NEW I, CanPop(list, I)
    PROVE  Without(list, I) \in Seq(S)
<1> DEFINE n == Len(list)
           PoppedBefore(j) == {i \in I : i - Cardinality({h \in I : h < i}) <= j}
<1>1. n \in Nat
  OBVIOUS
<1>2. IsFiniteSet(I) /\ Cardinality(I) \in Nat /\ Cardinality(I) <= n
  <2>1. IsFiniteSet(1..n) /\ Cardinality(1..n) = n
    <3>1. 1 \in Int /\ n \in Int
      BY <1>1
    <3> QED
      BY <1>1, <3>1, FS_Interval
  <2>2. I \in SUBSET (1..n)
    BY DEF CanPop
  <2>3. IsFiniteSet(I) /\ Cardinality(I) <= n
    BY <2>1, <2>2, FS_Subset
  <2> QED
    BY <2>3, FS_CardinalityType
<1>3. ASSUME NEW j \in 1..(n - Cardinality(I))
      PROVE  j + Cardinality(PoppedBefore(j)) \in 1..n
  <2>1. PoppedBefore(j) \in SUBSET I
    OBVIOUS
  <2>2. IsFiniteSet(PoppedBefore(j))
        /\ Cardinality(PoppedBefore(j)) <= Cardinality(I)
    BY <1>2, <2>1, FS_Subset
  <2>3. Cardinality(PoppedBefore(j)) \in Nat
    BY <2>2, FS_CardinalityType
  <2> QED
    BY <1>1, <1>2, <1>3, <2>2, <2>3
<1> DEFINE Rest == [j \in 1..(n - Cardinality(I)) |->
                       list[j + Cardinality(PoppedBefore(j))]]
<1>4. n - Cardinality(I) \in Nat
  BY <1>1, <1>2
<1>5. Rest \in [1..(n - Cardinality(I)) -> S]
  <2>1. ASSUME NEW j \in 1..(n - Cardinality(I))
        PROVE  list[j + Cardinality(PoppedBefore(j))] \in S
    <3> DEFINE p == j + Cardinality(PoppedBefore(j))
    <3>1. p \in 1..n
      BY <1>3
    <3> HIDE DEF p
    <3>2. list[p] \in S
      BY <3>1
    <3> QED
      BY <3>2 DEF p
  <2> HIDE DEF PoppedBefore
  <2> QED
    BY <2>1
<1>6. Rest \in Seq(S)
  <2> HIDE DEF n, Rest
  <2> QED
    BY <1>4, <1>5
<1>7. Without(list, I) = Rest
  BY Zenon DEF Without
<1> QED
  BY <1>6, <1>7

(* A task inside process_correlation_pair reads one of its own sweep ids.  *)
LEMMA IdsType ==
    ASSUME TypeOK, FrameOK, NEW t \in Task, pc[t] \in Processing
    PROVE  /\ frame[t].corr \in Correlations
           /\ Ids(t) \in Seq(Sweeps)
           /\ Len(Ids(t)) \in Nat \ {0}
           /\ frame[t].k \in 1..Len(Ids(t))
           /\ \A k \in 1..Len(Ids(t)) : Ids(t)[k] \in Sweeps
           /\ CurrentId(t) \in Sweeps
<1>1. frame[t].corr \in Correlations /\ frame[t].k <= Len(Ids(t))
  BY DEF FrameOK
<1>2. frame[t].k \in Nat \ {0}
  BY DEF TypeOK, Frames
<1>3. Ids(t) \in Seq(Sweeps) /\ Ids(t) # << >>
  BY <1>1, SweepsIdsAssumption DEF Ids
<1> QED
  BY <1>1, <1>2, <1>3 DEF CurrentId

LEMMA TypeInit == Init => TypeOK /\ FrameOK
<1> SUFFICES ASSUME Init PROVE TypeOK /\ FrameOK
  OBVIOUS
<1> USE TimesAssumption, BoundsAssumption DEF Init
<1>1. TypeOK
  BY DEF TypeOK, RawMessages, Task, Labels, Fresh, Frames
<1>2. FrameOK
  BY DEF FrameOK, Task, Processing
<1> QED
  BY <1>1, <1>2

LEMMA TypeEnvironment ==
    TypeOK /\ FrameOK /\ Environment => TypeOK' /\ FrameOK'
<1> SUFFICES ASSUME TypeOK, FrameOK, Environment
             PROVE  TypeOK' /\ FrameOK'
  OBVIOUS
<1> USE TimesAssumption, BoundsAssumption
        DEF topicVars, historyVars, TypeOK
<1>1. ASSUME NEW m \in RawMessages, SkipRaw(m)
      PROVE  TypeOK' /\ FrameOK'
  BY <1>1 DEF SkipRaw, FrameOK, Ids
<1>2. ASSUME NEW m \in RawMessages, ConsumeRaw(m)
      PROVE  TypeOK' /\ FrameOK'
  BY <1>2 DEF ConsumeRaw, FrameOK, Ids
<1>3. ASSUME NEW c \in Correlations, ConsumeCorr(c)
      PROVE  TypeOK' /\ FrameOK'
  BY <1>3 DEF ConsumeCorr, FrameOK, Ids
<1>4. CASE DropMessage
  BY <1>4 DEF DropMessage, Fault, FrameOK, Ids
<1>5. CASE Redeliver
  BY <1>5 DEF Redeliver, FrameOK, Ids
<1>6. CASE Tick
  <2>1. RETRY_LIMIT \in Nat
    BY DEF RETRY_LIMIT
  <2>2. redis' \in [Sweeps -> [msg : RawMessages, ttl : 1..REDIS_TTL] \cup {None}]
    <3>1. ASSUME NEW s \in Sweeps
          PROVE  Decayed(redis[s]) \in [msg : RawMessages, ttl : 1..REDIS_TTL]
                                         \cup {None}
      <4>1. redis[s] = None \/ (redis[s].msg \in RawMessages
                                /\ redis[s].ttl \in 1..REDIS_TTL
                                /\ redis[s] = [msg |-> redis[s].msg,
                                              ttl |-> redis[s].ttl])
        OBVIOUS
      <4> QED
        BY <4>1 DEF Decayed
    <3> QED
      BY <1>6, <3>1 DEF Tick
  <2>3. pending' \in Seq([corr : Correlations, age : 0..(RETRY_LIMIT + 1),
                          late : BOOLEAN])
    <3>1. ASSUME NEW i \in 1..Len(pending)
          PROVE  Older(pending[i]) \in [corr : Correlations,
                                        age : 0..(RETRY_LIMIT + 1), late : BOOLEAN]
      <4> DEFINE p == pending[i]
      <4>1. p \in [corr : Correlations, age : 0..(RETRY_LIMIT + 1), late : BOOLEAN]
        BY ElementOfSeq
      <4> HIDE DEF p
      <4>2. Older(p) \in [corr : Correlations, age : 0..(RETRY_LIMIT + 1),
                          late : BOOLEAN]
        <5>1. p.age \in Nat /\ p.age <= RETRY_LIMIT + 1
          BY <2>1, <4>1
        <5>2. (IF p.age > RETRY_LIMIT THEN p.age ELSE p.age + 1)
                 \in 0..(RETRY_LIMIT + 1)
          BY <2>1, <5>1
        <5> QED
          BY <4>1, <5>2 DEF Older
      <4> QED
        BY <4>2 DEF p
    <3> QED
      BY <1>6, <3>1 DEF Tick
  <2> QED
    BY <1>6, <2>2, <2>3 DEF Tick, FrameOK, Ids
<1> QED
  BY <1>1, <1>2, <1>3, <1>4, <1>5, <1>6 DEF Environment

LEMMA FrameType ==
    ASSUME NEW g \in Frames, NEW k \in Nat \ {0}, NEW m \in BOOLEAN,
           NEW e \in Seq(RawMessages)
    PROVE  /\ [g EXCEPT !.k = k] \in Frames
           /\ [g EXCEPT !.k = k, !.missing = m] \in Frames
           /\ [g EXCEPT !.k = k, !.elec = e] \in Frames
  BY DEF Frames

(* A step of one task to another label with other locals.                  *)
LEMMA FrameStep ==
    ASSUME TypeOK, FrameOK,
           NEW t \in Task, NEW label \in Labels \ {"store"}, NEW f \in Frames,
           Goto(t, label), frame' = [frame EXCEPT ![t] = f],
           rawItem' = rawItem \/ t = "main",
           label \in Processing =>
               f.corr \in Correlations /\ f.k <= Len(SweepsIds[f.corr])
    PROVE  pc' \in [Task -> Labels] /\ frame' \in [Task -> Frames] /\ FrameOK'
<1>1. pc' = [pc EXCEPT ![t] = label]
  BY DEF Goto
<1>2. pc \in [Task -> Labels] /\ frame \in [Task -> Frames]
  BY DEF TypeOK
<1>3. pc' \in [Task -> Labels] /\ frame' \in [Task -> Frames]
  BY <1>1, <1>2
<1>4. ASSUME NEW u \in Task, pc'[u] \in Processing
      PROVE  frame'[u].corr \in Correlations
             /\ frame'[u].k <= Len(SweepsIds[frame'[u].corr])
  BY <1>1, <1>2, <1>4 DEF FrameOK, Ids
<1>5. pc'["main"] = "store" => rawItem' \in RawMessages
  BY <1>1, <1>2 DEF FrameOK, Task
<1> QED
  BY <1>3, <1>4, <1>5 DEF FrameOK, Ids

LEMMA TypeProcess ==
    ASSUME NEW t \in Task
    PROVE  TypeOK /\ FrameOK /\ ProcessCorrelationPair(t) => TypeOK' /\ FrameOK'
<1> SUFFICES ASSUME TypeOK, FrameOK, ProcessCorrelationPair(t)
             PROVE  TypeOK' /\ FrameOK'
  OBVIOUS
<1> USE BoundsAssumption
<1>0. pc[t] \in Processing =>
           /\ frame[t].corr \in Correlations
           /\ Ids(t) \in Seq(Sweeps)
           /\ Len(Ids(t)) \in Nat \ {0}
           /\ frame[t].k \in 1..Len(Ids(t))
           /\ \A k \in 1..Len(Ids(t)) : Ids(t)[k] \in Sweeps
           /\ CurrentId(t) \in Sweeps
  BY IdsType
<1>1. frame[t] \in Frames /\ pc[t] \in Labels
  BY DEF TypeOK
<1>2. pc[t] \in Processing => NextK(t) \in 1..Len(Ids(t))
  BY <1>0 DEF NextK, LastId
<1>3. ASSUME NEW label \in Processing, Goto(t, label), frame' = frame,
             pc[t] \in Processing, UNCHANGED rawItem
      PROVE  pc' \in [Task -> Labels] /\ FrameOK'
  <2>1. /\ frame' = [frame EXCEPT ![t] = frame[t]]
        /\ rawItem' = rawItem \/ t = "main"
    BY <1>3 DEF TypeOK
  <2>2. label \in Labels \ {"store"}
    BY DEF Processing, Labels
  <2>3. frame[t].corr \in Correlations /\ frame[t].k <= Len(SweepsIds[frame[t].corr])
    BY <1>0, <1>3 DEF Ids
  <2> QED
    BY <1>1, <1>3, <2>1, <2>2, <2>3, FrameStep
<1>4. ASSUME NEW available \in BOOLEAN, pc[t] = "check", Checked(t, available),
             faults' \in 0..MAX_FAULTS,
             UNCHANGED <<callerVars, redis, historyVars>>
      PROVE  TypeOK' /\ FrameOK'
  <2> DEFINE missing == frame[t].missing \/ ~available
             label == IF ~LastId(t) THEN "check"
                      ELSE IF missing THEN "failure" ELSE "fetch"
             f == [frame[t] EXCEPT !.k = NextK(t), !.missing = missing]
  <2>1. Goto(t, label) /\ frame' = [frame EXCEPT ![t] = f]
    BY <1>4 DEF Checked, TypeOK
  <2>2. f.corr = frame[t].corr /\ f.k = NextK(t)
    BY <1>1 DEF Frames
  <2>3. f \in Frames
    <3>1. NextK(t) \in Nat \ {0} /\ missing \in BOOLEAN
      BY <1>0, <1>2, <1>4 DEF Processing
    <3>2. frame[t].elec \in Seq(RawMessages)
      BY <1>1 DEF Frames
    <3> QED
      BY <1>1, <3>1, <3>2, FrameType
  <2>4. label \in Labels \ {"store"}
    BY DEF Labels
  <2>5. f.corr \in Correlations /\ f.k <= Len(SweepsIds[f.corr])
    BY <1>0, <1>2, <1>4, <2>2 DEF Ids, Processing
  <2> HIDE DEF label, f
  <2>6. pc' \in [Task -> Labels] /\ frame' \in [Task -> Frames] /\ FrameOK'
    BY <1>4, <2>1, <2>3, <2>4, <2>5, FrameStep DEF callerVars
  <2> QED
    BY <1>4, <2>6 DEF TypeOK, callerVars, topicVars, historyVars
<1>5. CASE CheckAvailability(t)
  BY <1>4, <1>5 DEF CheckAvailability, TypeOK
<1>6. CASE CheckFails(t)
  <2>1. faults' \in 0..MAX_FAULTS
    BY <1>6 DEF CheckFails, Fault, TypeOK
  <2>2. /\ pc[t] = "check" /\ Checked(t, FALSE)
        /\ UNCHANGED <<callerVars, redis, historyVars>>
    BY <1>6 DEF CheckFails
  <2> QED
    BY <1>4, <2>1, <2>2
<1>7. CASE FetchRaw(t)
  <2> DEFINE label == IF LastId(t) THEN "compute" ELSE "fetch"
             f == [frame[t] EXCEPT !.k = NextK(t),
             !.elec = Append(frame[t].elec, redis[CurrentId(t)].msg)]
  <2>1. pc[t] \in Processing /\ redis[CurrentId(t)] # None
    BY <1>7 DEF FetchRaw, Processing
  <2>2. redis[CurrentId(t)].msg \in RawMessages
    BY <1>0, <2>1 DEF TypeOK
  <2>3. Goto(t, label) /\ frame' = [frame EXCEPT ![t] = f]
    BY <1>7 DEF FetchRaw, TypeOK
  <2>4. f.corr = frame[t].corr /\ f.k = NextK(t)
    BY <1>1 DEF Frames
  <2>5. f \in Frames
    <3>1. NextK(t) \in Nat \ {0}
      BY <1>0, <1>2, <2>1
    <3>2. Append(frame[t].elec, redis[CurrentId(t)].msg) \in Seq(RawMessages)
      BY <1>1, <2>2 DEF Frames
    <3> QED
      BY <1>1, <3>1, <3>2, FrameType
  <2>6. label \in Labels \ {"store"}
    BY DEF Labels
  <2>7. f.corr \in Correlations /\ f.k <= Len(SweepsIds[f.corr])
    BY <1>0, <1>2, <2>1, <2>4 DEF Ids, Processing
  <2> HIDE DEF label, f
  <2>8. pc' \in [Task -> Labels] /\ frame' \in [Task -> Frames] /\ FrameOK'
    BY <1>7, <2>3, <2>5, <2>6, <2>7, FrameStep DEF FetchRaw, callerVars
  <2> QED
    BY <1>7, <2>8 DEF FetchRaw, TypeOK, callerVars, topicVars, historyVars
<1>8. CASE FetchGone(t)
  BY <1>3, <1>8 DEF FetchGone, Processing, TypeOK, callerVars, topicVars,
     historyVars
<1>9. CASE FetchFails(t)
  BY <1>3, <1>9 DEF FetchFails, Fault, Processing, TypeOK, callerVars, topicVars,
     historyVars
<1>10. CASE CombineFails(t)
  <2> DEFINE label == IF t = "main" THEN "loop" ELSE "dead"
  <2>1. Goto(t, label) /\ frame' = [frame EXCEPT ![t] = Fresh(None)]
    BY <1>10 DEF CombineFails, Raise
  <2>2. /\ label \in Labels \ {"store"} /\ label \notin Processing
        /\ Fresh(None) \in Frames
    BY DEF Labels, Processing, Fresh, Frames
  <2>3. rawItem' = rawItem \/ t = "main"
    BY <1>10 DEF CombineFails, Raise
  <2> HIDE DEF label
  <2>4. pc' \in [Task -> Labels] /\ frame' \in [Task -> Frames] /\ FrameOK'
    BY <2>1, <2>2, <2>3, FrameStep
  <2> QED
    BY <1>10, <2>4 DEF CombineFails, Fault, Raise, TypeOK, topicVars, historyVars
<1>11. ASSUME pc[t] = "compute", Publish(t)
       PROVE  /\ conversionTopic' \subseteq [key : Sweeps, corr : Correlations,
                                             elec : Seq(RawMessages)]
              /\ published' \in [Sweeps -> Nat]
              /\ stored' \in [Sweeps -> Nat]
  BY <1>0, <1>1, <1>11 DEF Publish, TypeOK, Processing, Frames
<1>12. CASE ConvertAndPublish(t)
  BY <1>3, <1>11, <1>12 DEF ConvertAndPublish, Processing, TypeOK, callerVars,
     topicVars
<1>13. CASE PublishFails(t)
  BY <1>3, <1>13 DEF PublishFails, Fault, Processing, TypeOK, callerVars,
     topicVars, historyVars
<1>14. CASE PublishUnacknowledged(t)
  BY <1>3, <1>11, <1>14 DEF PublishUnacknowledged, Fault, Processing, TypeOK,
     callerVars, topicVars
<1>15. ASSUME pc[t] = "delete", Deleted(t), UNCHANGED callerVars
       PROVE  pc' \in [Task -> Labels] /\ frame' \in [Task -> Frames] /\ FrameOK'
  <2> DEFINE label == IF LastId(t) THEN "success" ELSE "delete"
             f == [frame[t] EXCEPT !.k = NextK(t)]
  <2>1. Goto(t, label) /\ frame' = [frame EXCEPT ![t] = f]
    BY <1>15 DEF Deleted, TypeOK
  <2>2. /\ label \in Labels \ {"store"}
        /\ f \in Frames /\ f.corr = frame[t].corr /\ f.k = NextK(t)
        /\ f.corr \in Correlations /\ f.k <= Len(SweepsIds[f.corr])
    BY <1>0, <1>1, <1>2, <1>15 DEF Frames, Processing, Labels, Ids
  <2> HIDE DEF label, f
  <2> QED
    BY <1>15, <2>1, <2>2, FrameStep DEF callerVars
<1>16. CASE DeleteRaw(t)
  BY <1>0, <1>15, <1>16 DEF DeleteRaw, TypeOK, callerVars, topicVars, historyVars
<1>17. CASE DeleteFails(t)
  BY <1>15, <1>17 DEF DeleteFails, Fault, TypeOK, callerVars, topicVars,
     historyVars
<1> QED
  BY <1>5, <1>6, <1>7, <1>8, <1>9, <1>10, <1>12, <1>13, <1>14, <1>16, <1>17
     DEF ProcessCorrelationPair

(* Both tasks call process_correlation_pair with fresh locals, and leave   *)
(* it with none.                                                           *)
LEMMA FreshFrame ==
    /\ Fresh(None) \in Frames
    /\ \A c \in Correlations :
          /\ Fresh(c) \in Frames
          /\ Fresh(c).corr = c
          /\ Fresh(c).k <= Len(SweepsIds[c])
<1>1. ASSUME NEW c \in Correlations
      PROVE  Len(SweepsIds[c]) \in Nat \ {0}
  BY SweepsIdsAssumption
<1> QED
  BY <1>1 DEF Fresh, Frames

LEMMA CallStep ==
    ASSUME TypeOK, FrameOK, NEW t \in Task, NEW c \in Correlations, Call(t, c),
           rawItem' = rawItem \/ t = "main"
    PROVE  pc' \in [Task -> Labels] /\ frame' \in [Task -> Frames] /\ FrameOK'
<1>1. "check" \in Labels \ {"store"}
  BY DEF Labels
<1> QED
  BY <1>1, FreshFrame, FrameStep DEF Call

LEMMA ReturnStep ==
    ASSUME TypeOK, FrameOK, NEW t \in Task, NEW label \in {"loop", "sleep", "dead"},
           Goto(t, label), frame' = [frame EXCEPT ![t] = Fresh(None)],
           rawItem' = rawItem \/ t = "main"
    PROVE  pc' \in [Task -> Labels] /\ frame' \in [Task -> Frames] /\ FrameOK'
<1>1. label \in Labels \ {"store"} /\ label \notin Processing
  BY DEF Labels, Processing
<1> QED
  BY <1>1, FreshFrame, FrameStep

LEMMA CorrBranchType ==
    ASSUME TypeOK, FrameOK, CorrBranch
    PROVE  /\ pc' \in [Task -> Labels] /\ frame' \in [Task -> Frames] /\ FrameOK'
           /\ corrQueue' \in Seq(Correlations) /\ Len(corrQueue') <= QUEUE_MAX
<1>1. "main" \in Task
  BY DEF Task
<1>2. CASE corrQueue = << >> /\ Goto("main", "loop") /\ UNCHANGED corrQueue
           /\ frame' = [frame EXCEPT !["main"] = Fresh(None)]
  BY <1>1, <1>2, ReturnStep DEF TypeOK
<1>3. CASE corrQueue # << >> /\ Call("main", Head(corrQueue))
           /\ corrQueue' = Tail(corrQueue)
  <2>1. corrQueue \in Seq(Correlations) /\ Len(corrQueue) <= QUEUE_MAX
    BY DEF TypeOK
  <2>2. /\ Head(corrQueue) \in Correlations
        /\ Tail(corrQueue) \in Seq(Correlations)
        /\ Len(Tail(corrQueue)) <= QUEUE_MAX
    BY <1>3, <2>1, BoundsAssumption, HeadTailProperties
  <2> QED
    BY <1>1, <1>3, <2>2, CallStep
<1> QED
  BY <1>2, <1>3 DEF CorrBranch

LEMMA ContinueScanType ==
    ASSUME TypeOK, FrameOK, NEW from \in Nat \ {0}, NEW processed \in SUBSET Nat,
           ContinueScan(from, processed),
           UNCHANGED <<topicVars, rawQueue, redis, historyVars, faults>>
    PROVE  TypeOK' /\ FrameOK'
<1> DEFINE Entry == [corr : Correlations, age : 0..(RETRY_LIMIT + 1),
                     late : BOOLEAN]
           matches == {j \in from..Len(pending) :
                         rawItem.sweeps_id \in Correlated(pending[j].corr)}
<1>1. "main" \in Task
  BY DEF Task
<1>2. pending \in Seq(Entry)
  BY DEF TypeOK
<1>3. ASSUME NEW j \in matches,
             at' = [at EXCEPT !["main"] = j],
             done' = [done EXCEPT !["main"] = processed],
             Call("main", pending[j].corr),
             UNCHANGED <<pending, rawItem, corrQueue>>
      PROVE  TypeOK' /\ FrameOK'
  <2>1. j \in 1..Len(pending) /\ j \in Nat
    BY <1>2
  <2>2. pending[j].corr \in Correlations
    <3>1. pending[j] \in Entry
      BY <1>2, <2>1, ElementOfSeq
    <3> QED
      BY <3>1
  <2>3. pc' \in [Task -> Labels] /\ frame' \in [Task -> Frames] /\ FrameOK'
    BY <1>1, <1>3, <2>2, CallStep
  <2> QED
    BY <1>3, <2>1, <2>3 DEF TypeOK, topicVars, historyVars
<1>4. ASSUME CanPop(pending, processed),
             pending' = Without(pending, processed),
             at' = [at EXCEPT !["main"] = 0],
             done' = [done EXCEPT !["main"] = {}],
             rawItem' = None,
             CorrBranch
      PROVE  TypeOK' /\ FrameOK'
  <2>1. pending' \in Seq(Entry)
    BY <1>2, <1>4, WithoutType
  <2>2. /\ pc' \in [Task -> Labels] /\ frame' \in [Task -> Frames] /\ FrameOK'
        /\ corrQueue' \in Seq(Correlations) /\ Len(corrQueue') <= QUEUE_MAX
    BY <1>4, CorrBranchType
  <2> QED
    BY <1>4, <2>1, <2>2 DEF TypeOK, topicVars, historyVars
<1>5. ASSUME Raise("main"), UNCHANGED <<pending, corrQueue>>
      PROVE  TypeOK' /\ FrameOK'
  <2>1. pc' \in [Task -> Labels] /\ frame' \in [Task -> Frames] /\ FrameOK'
    BY <1>1, <1>5, ReturnStep DEF Raise
  <2> QED
    BY <1>1, <1>5, <2>1 DEF Raise, TypeOK, topicVars, historyVars
<1> QED
  BY <1>3, <1>4, <1>5 DEF ContinueScan

LEMMA TypeMain ==
    TypeOK /\ FrameOK /\ Main => TypeOK' /\ FrameOK'
<1> SUFFICES ASSUME TypeOK, FrameOK, Main
             PROVE  TypeOK' /\ FrameOK'
  OBVIOUS
<1>1. "main" \in Task
  BY DEF Task
<1>2. CASE TakeRaw
  <2>1. /\ Head(rawQueue) \in RawMessages
        /\ Tail(rawQueue) \in Seq(RawMessages)
        /\ Len(Tail(rawQueue)) <= QUEUE_MAX
    BY <1>2, BoundsAssumption, HeadTailProperties DEF TakeRaw, TypeOK
  <2>2. FrameOK'
    BY <1>2, <2>1 DEF TakeRaw, Goto, FrameOK, TypeOK, Task, Processing, Ids
  <2> QED
    BY <1>2, <2>1, <2>2 DEF TakeRaw, Goto, TypeOK, Labels, topicVars, historyVars
<1>3. ASSUME pc["main"] = "store", Goto("main", "scan"),
             UNCHANGED <<callerVars, frame>>
      PROVE  pc' \in [Task -> Labels] /\ FrameOK'
  BY <1>3 DEF Goto, FrameOK, TypeOK, Task, Labels, Processing, Ids, callerVars
<1>4. CASE StoreRaw
  <2>1. pc' \in [Task -> Labels] /\ FrameOK'
    BY <1>3, <1>4 DEF StoreRaw
  <2>2. rawItem \in RawMessages /\ rawItem.sweeps_id \in Sweeps
    BY <1>4 DEF StoreRaw, FrameOK, RawMessages
  <2>3. [msg |-> rawItem, ttl |-> REDIS_TTL]
            \in [msg : RawMessages, ttl : 1..REDIS_TTL]
    BY <2>2, TimesAssumption
  <2>4. /\ redis' \in [Sweeps -> [msg : RawMessages, ttl : 1..REDIS_TTL] \cup {None}]
        /\ stored' \in [Sweeps -> Nat]
    BY <1>4, <2>2, <2>3 DEF StoreRaw, TypeOK
  <2> QED
    BY <1>4, <2>1, <2>4 DEF StoreRaw, TypeOK, callerVars, topicVars
<1>5. CASE StoreFails
  <2>1. pc' \in [Task -> Labels] /\ FrameOK'
    BY <1>3, <1>5 DEF StoreFails
  <2> QED
    BY <1>5, <2>1, BoundsAssumption
       DEF StoreFails, Fault, TypeOK, callerVars, topicVars, historyVars
<1>6. CASE ScanPending
  BY <1>6, ContinueScanType DEF ScanPending
<1>7. CASE MainReturnsRaw
  <2>1. at["main"] + 1 \in Nat \ {0} /\ Processed("main") \in SUBSET Nat
    BY <1>1 DEF TypeOK, Processed
  <2> QED
    BY <1>7, <2>1, ContinueScanType DEF MainReturnsRaw
<1>8. CASE TakeCorr
  <2>1. /\ pc' \in [Task -> Labels] /\ frame' \in [Task -> Frames] /\ FrameOK'
        /\ corrQueue' \in Seq(Correlations) /\ Len(corrQueue') <= QUEUE_MAX
    BY <1>8, CorrBranchType DEF TakeCorr
  <2> QED
    BY <1>8, <2>1 DEF TakeCorr, TypeOK, topicVars, historyVars
<1>9. CASE MainReturnsCorr
  <2>1. frame["main"].corr \in Correlations
    BY <1>1, <1>9 DEF MainReturnsCorr, FrameOK, Processing
  <2>2. Pending(frame["main"].corr)
            \in [corr : Correlations, age : 0..(RETRY_LIMIT + 1), late : BOOLEAN]
    BY <2>1, TimesAssumption DEF Pending, RETRY_LIMIT
  <2>3. pending' \in Seq([corr : Correlations, age : 0..(RETRY_LIMIT + 1),
                          late : BOOLEAN])
    BY <1>9, <2>2, AppendProperties DEF MainReturnsCorr, TypeOK
  <2>4. pc' \in [Task -> Labels] /\ frame' \in [Task -> Frames] /\ FrameOK'
    BY <1>1, <1>9, ReturnStep DEF MainReturnsCorr
  <2> QED
    BY <1>9, <2>3, <2>4 DEF MainReturnsCorr, TypeOK, topicVars, historyVars
<1>10. CASE ProcessCorrelationPair("main")
  BY <1>1, <1>10, TypeProcess
<1> QED
  BY <1>2, <1>4, <1>5, <1>6, <1>7, <1>8, <1>9, <1>10 DEF Main

LEMMA ContinueRetryType ==
    ASSUME TypeOK, FrameOK,
           NEW list \in Seq([corr : Correlations, age : 0..(RETRY_LIMIT + 1),
                             late : BOOLEAN]),
           NEW from \in Nat \ {0}, NEW processed \in SUBSET Nat,
           ContinueRetry(list, from, processed),
           UNCHANGED <<topicVars, rawQueue, corrQueue, redis, historyVars, faults>>
    PROVE  TypeOK' /\ FrameOK'
<1> DEFINE Entry == [corr : Correlations, age : 0..(RETRY_LIMIT + 1),
                     late : BOOLEAN]
           fresh == {j \in from..Len(list) : ~list[j].late}
           all == processed \cup (from..Len(list))
<1>1. "retry" \in Task
  BY DEF Task
<1>2. ASSUME NEW j \in fresh,
             at' = [at EXCEPT !["retry"] = j],
             done' = [done EXCEPT !["retry"] = processed \cup (from..(j - 1))],
             Call("retry", list[j].corr),
             pending' = list,
             UNCHANGED rawItem
      PROVE  TypeOK' /\ FrameOK'
  <2>1. j \in 1..Len(list) /\ j \in Nat
    OBVIOUS
  <2>2. list[j].corr \in Correlations
    <3>1. list[j] \in Entry
      BY <2>1, ElementOfSeq
    <3> QED
      BY <3>1
  <2>3. processed \cup (from..(j - 1)) \in SUBSET Nat
    BY <2>1
  <2>4. pc' \in [Task -> Labels] /\ frame' \in [Task -> Frames] /\ FrameOK'
    BY <1>1, <1>2, <2>2, CallStep
  <2> QED
    BY <1>2, <2>1, <2>3, <2>4 DEF TypeOK, topicVars, historyVars
<1>3. ASSUME CanPop(list, all),
             pending' = Without(list, all),
             at' = [at EXCEPT !["retry"] = 0],
             done' = [done EXCEPT !["retry"] = {}],
             Goto("retry", "sleep"),
             frame' = [frame EXCEPT !["retry"] = Fresh(None)],
             UNCHANGED rawItem
      PROVE  TypeOK' /\ FrameOK'
  <2>1. pending' \in Seq(Entry)
    BY <1>3, WithoutType
  <2>2. pc' \in [Task -> Labels] /\ frame' \in [Task -> Frames] /\ FrameOK'
    BY <1>1, <1>3, ReturnStep
  <2> QED
    BY <1>3, <2>1, <2>2 DEF TypeOK, topicVars, historyVars
<1>4. ASSUME Raise("retry"), pending' = list
      PROVE  TypeOK' /\ FrameOK'
  <2>1. pc' \in [Task -> Labels] /\ frame' \in [Task -> Frames] /\ FrameOK'
    BY <1>1, <1>4, ReturnStep DEF Raise
  <2> QED
    BY <1>1, <1>4, <2>1 DEF Raise, TypeOK, topicVars, historyVars
<1> QED
  BY <1>2, <1>3, <1>4 DEF ContinueRetry

LEMMA TypeRetry ==
    TypeOK /\ FrameOK /\ Retry => TypeOK' /\ FrameOK'
<1> SUFFICES ASSUME TypeOK, FrameOK, Retry
             PROVE  TypeOK' /\ FrameOK'
  OBVIOUS
<1> DEFINE Entry == [corr : Correlations, age : 0..(RETRY_LIMIT + 1),
                     late : BOOLEAN]
<1>1. "retry" \in Task
  BY DEF Task
<1>2. pending \in Seq(Entry)
  BY DEF TypeOK
<1>3. CASE RetryPass
  <2>1. ASSUME NEW e \in Entry, NEW b \in BOOLEAN
        PROVE  [e EXCEPT !.late = b] \in Entry
    OBVIOUS
  <2>2. ASSUME NEW i \in 1..Len(pending)
        PROVE  [pending[i] EXCEPT !.late = pending[i].age > RETRY_LIMIT] \in Entry
    <3>1. pending[i] \in Entry
      BY <1>2, ElementOfSeq
    <3>2. (pending[i].age > RETRY_LIMIT) \in BOOLEAN
      OBVIOUS
    <3> QED
      BY <2>1, <3>1, <3>2
  <2>3. Marked(pending) \in Seq(Entry)
    BY <1>2, <2>2 DEF Marked
  <2>4. 1 \in Nat \ {0} /\ {} \in SUBSET Nat
    OBVIOUS
  <2>5. /\ ContinueRetry(Marked(pending), 1, {})
        /\ UNCHANGED <<topicVars, rawQueue, corrQueue, redis, historyVars, faults>>
    BY <1>3 DEF RetryPass
  <2> HIDE DEF Entry
  <2> QED
    BY <2>3, <2>4, <2>5, ContinueRetryType DEF Entry
<1>4. CASE RetryReturns
  <2>1. at["retry"] + 1 \in Nat \ {0} /\ Processed("retry") \in SUBSET Nat
    BY <1>1 DEF TypeOK, Processed
  <2> QED
    BY <1>2, <1>4, <2>1, ContinueRetryType DEF RetryReturns
<1>5. CASE ProcessCorrelationPair("retry")
  BY <1>1, <1>5, TypeProcess
<1> QED
  BY <1>3, <1>4, <1>5 DEF Retry

LEMMA TypeStutter ==
    TypeOK /\ FrameOK /\ UNCHANGED vars => TypeOK' /\ FrameOK'
  BY DEF TypeOK, FrameOK, Ids, vars, topicVars, historyVars

(* Every reachable state has the types that the code's variables have, and *)
(* a task inside process_correlation_pair stands at one of its sweep ids.  *)
THEOREM TypeCorrect == Spec => [](TypeOK /\ FrameOK)
<1>1. TypeOK /\ FrameOK /\ [Next]_vars => (TypeOK /\ FrameOK)'
  BY TypeMain, TypeRetry, TypeEnvironment, TypeStutter DEF Next
<1> QED
  BY <1>1, TypeInit, PTL DEF Spec
-----------------------------------------------------------------------------
(* The safety properties.  The steps fall in two groups: those of the      *)
(* callers and of the environment are Quiet, they leave alone a task that  *)
(* is fetching, converting or deleting; those of process_correlation_pair  *)
(* leave the other task alone.                                             *)

Busy == {"fetch", "compute", "delete"}

CallerStep ==
    \/ TakeRaw \/ StoreRaw \/ StoreFails \/ ScanPending \/ MainReturnsRaw
    \/ TakeCorr \/ MainReturnsCorr \/ RetryPass \/ RetryReturns \/ Environment

Quiet(t) ==
    \/ pc'[t] = pc[t] /\ frame'[t] = frame[t]
    \/ /\ pc[t] \notin Busy /\ pc'[t] \notin Busy
       /\ pc'[t] = "check" => frame'[t].elec = << >>

LEMMA CallersQuiet ==
    ASSUME TypeOK, CallerStep, NEW t \in Task
    PROVE  Quiet(t)
<1> USE DEF Busy, Quiet, Goto, Task
<1>0. pc \in [Task -> Labels] /\ frame \in [Task -> Frames]
  BY DEF TypeOK
<1>1. ASSUME NEW u \in Task, NEW c, Call(u, c), pc[u] \notin Busy
      PROVE  Quiet(t)
  BY <1>0, <1>1 DEF Call, Fresh
<1>2. ASSUME NEW u \in Task, NEW label \in {"loop", "sleep", "dead"},
             Goto(u, label), frame' = [frame EXCEPT ![u] = Fresh(None)],
             pc[u] \notin Busy
      PROVE  Quiet(t)
  BY <1>0, <1>2
<1>3. ASSUME CorrBranch, pc["main"] \notin Busy
      PROVE  Quiet(t)
  BY <1>1, <1>2, <1>3 DEF CorrBranch
<1>4. ASSUME NEW u \in Task, Raise(u), pc[u] \notin Busy
      PROVE  Quiet(t)
  BY <1>2, <1>4 DEF Raise
<1>5. ASSUME NEW from, NEW processed, ContinueScan(from, processed),
             pc["main"] \notin Busy
      PROVE  Quiet(t)
  BY <1>1, <1>3, <1>4, <1>5 DEF ContinueScan
<1>6. ASSUME NEW list, NEW from, NEW processed, ContinueRetry(list, from, processed),
             pc["retry"] \notin Busy
      PROVE  Quiet(t)
  BY <1>1, <1>2, <1>4, <1>6 DEF ContinueRetry
<1>7. CASE TakeRaw
  BY <1>0, <1>7 DEF TakeRaw
<1>8. CASE StoreRaw
  BY <1>0, <1>8 DEF StoreRaw
<1>9. CASE StoreFails
  BY <1>0, <1>9 DEF StoreFails
<1>10. CASE ScanPending
  BY <1>5, <1>10 DEF ScanPending
<1>11. CASE MainReturnsRaw
  BY <1>5, <1>11 DEF MainReturnsRaw
<1>12. CASE TakeCorr
  BY <1>3, <1>12 DEF TakeCorr
<1>13. CASE MainReturnsCorr
  BY <1>2, <1>13 DEF MainReturnsCorr
<1>14. CASE RetryPass
  BY <1>6, <1>14 DEF RetryPass
<1>15. CASE RetryReturns
  BY <1>6, <1>15 DEF RetryReturns
<1>16. CASE Environment
  BY <1>16 DEF Environment, SkipRaw, ConsumeRaw, ConsumeCorr, DropMessage,
     Redeliver, Tick
<1> QED
  BY <1>7, <1>8, <1>9, <1>10, <1>11, <1>12, <1>13, <1>14, <1>15, <1>16
     DEF CallerStep

(* What the steps of the callers and of the environment do to the data.    *)
Kept(s) == redis'[s] = redis[s] /\ stored'[s] = stored[s]
Renewed(s) ==
    /\ pc["main"] = "store" /\ s = rawItem.sweeps_id
    /\ redis'[s] # None /\ redis'[s].msg = rawItem
    /\ stored'[s] = stored[s] + 1
Aged(s) ==
    /\ redis[s] # None /\ redis'[s] # None
    /\ redis'[s].msg = redis[s].msg
    /\ stored'[s] = stored[s]
Expired(s) ==
    /\ redis[s] # None /\ redis[s].ttl = 1 /\ redis'[s] = None
    /\ stored'[s] = stored[s]

LEMMA CallersData ==
    ASSUME TypeOK, FrameOK, CallerStep
    PROVE  /\ UNCHANGED <<conversionTopic, published>>
           /\ faults' \in Nat /\ faults' >= faults
           /\ \A s \in Sweeps : Kept(s) \/ Renewed(s) \/ Aged(s) \/ Expired(s)
<1> DEFINE Goal == /\ UNCHANGED <<conversionTopic, published>>
                   /\ faults' \in Nat /\ faults' >= faults
                   /\ \A s \in Sweeps :
                         Kept(s) \/ Renewed(s) \/ Aged(s) \/ Expired(s)
<1>1. faults \in Nat
  BY BoundsAssumption DEF TypeOK
<1>2. ASSUME UNCHANGED <<redis, historyVars>>, faults' = faults \/ Fault
      PROVE  Goal
  BY <1>1, <1>2 DEF Kept, historyVars, Fault
<1>3. CASE StoreRaw
  <2>1. rawItem \in RawMessages /\ rawItem.sweeps_id \in Sweeps
    BY <1>3 DEF StoreRaw, FrameOK, RawMessages
  <2>2. [msg |-> rawItem, ttl |-> REDIS_TTL]
            \in [msg : RawMessages, ttl : 1..REDIS_TTL]
    BY <2>1, TimesAssumption
  <2>3. [msg |-> rawItem, ttl |-> REDIS_TTL] # None
    BY <2>2, NoneAssumption DEF RawMessages
  <2>4. ASSUME NEW s \in Sweeps
        PROVE  Kept(s) \/ Renewed(s)
    BY <1>3, <2>1, <2>3 DEF StoreRaw, Kept, Renewed, TypeOK
  <2> QED
    BY <1>1, <1>3, <2>4 DEF StoreRaw
<1>4. CASE Tick
  <2>1. ASSUME NEW s \in Sweeps
        PROVE  Kept(s) \/ Aged(s) \/ Expired(s)
    <3>1. redis'[s] = Decayed(redis[s]) /\ stored'[s] = stored[s]
      BY <1>4 DEF Tick, historyVars
    <3>2. CASE redis[s] = None
      BY <3>1, <3>2 DEF Decayed, Kept
    <3>3. CASE redis[s] # None /\ redis[s].ttl = 1
      BY <3>1, <3>3 DEF Decayed, Expired
    <3>4. CASE redis[s] # None /\ redis[s].ttl # 1
      <4>1. redis[s] \in [msg : RawMessages, ttl : 1..REDIS_TTL]
        BY <3>4 DEF TypeOK
      <4>2. redis'[s] = [redis[s] EXCEPT !.ttl = redis[s].ttl - 1]
        BY <3>1, <3>4 DEF Decayed
      <4>3. redis[s].ttl - 1 \in 1..REDIS_TTL
        BY <3>4, <4>1, TimesAssumption
      <4>4. redis'[s] \in [msg : RawMessages, ttl : 1..REDIS_TTL]
        BY <4>1, <4>2, <4>3
      <4>5. redis'[s] # None
        BY <4>4, NoneAssumption DEF RawMessages
      <4> QED
        BY <3>1, <3>4, <4>1, <4>2, <4>5 DEF Aged
    <3> QED
      BY <3>2, <3>3, <3>4
  <2> QED
    BY <1>1, <1>4, <2>1 DEF Tick, historyVars
<1>5. CASE TakeRaw \/ StoreFails \/ ScanPending \/ MainReturnsRaw \/ TakeCorr
           \/ MainReturnsCorr \/ RetryPass \/ RetryReturns
  BY <1>2, <1>5 DEF TakeRaw, StoreFails, ScanPending, MainReturnsRaw, TakeCorr,
     MainReturnsCorr, RetryPass, RetryReturns
<1>6. CASE Environment
  BY <1>2, <1>4, <1>6 DEF Environment, SkipRaw, ConsumeRaw, ConsumeCorr,
     DropMessage, Redeliver
<1> QED
  BY <1>3, <1>5, <1>6 DEF CallerStep

(* A step of process_correlation_pair is a step of one task.               *)
LEMMA OtherTaskKept ==
    ASSUME TypeOK, NEW t \in Task, ProcessCorrelationPair(t),
           NEW u \in Task, u # t
    PROVE  pc'[u] = pc[u] /\ frame'[u] = frame[u]
<1>0. pc \in [Task -> Labels] /\ frame \in [Task -> Frames]
  BY DEF TypeOK
<1> USE DEF Goto
<1>1. CASE CheckAvailability(t) \/ CheckFails(t)
  BY <1>0, <1>1 DEF CheckAvailability, CheckFails, Checked
<1>2. CASE FetchRaw(t) \/ FetchGone(t) \/ FetchFails(t)
  BY <1>0, <1>2 DEF FetchRaw, FetchGone, FetchFails
<1>3. CASE CombineFails(t)
  BY <1>0, <1>3 DEF CombineFails, Raise
<1>4. CASE ConvertAndPublish(t) \/ PublishFails(t) \/ PublishUnacknowledged(t)
  BY <1>0, <1>4 DEF ConvertAndPublish, PublishFails, PublishUnacknowledged
<1>5. CASE DeleteRaw(t) \/ DeleteFails(t)
  BY <1>0, <1>5 DEF DeleteRaw, DeleteFails, Deleted
<1> QED
  BY <1>1, <1>2, <1>3, <1>4, <1>5 DEF ProcessCorrelationPair

LEMMA SplitNext ==
    Next => CallerStep \/ \E t \in Task : ProcessCorrelationPair(t)
  BY DEF Next, Main, Retry, CallerStep, Task

-----------------------------------------------------------------------------
(* A task deletes only what it has published.                              *)

LEMMA PublishCounts ==
    ASSUME TypeOK, FrameOK, NEW t \in Task, Publish(t),
           NEW s \in Sweeps
    PROVE  /\ s \in Correlated(frame[t].corr) => published'[s] = published[s] + 1
           /\ s \notin Correlated(frame[t].corr) => published'[s] = published[s]
           /\ published'[s] >= published[s]
  BY DEF Publish, TypeOK

LEMMA DeletesPublishedStep ==
    TypeOK /\ FrameOK /\ DeletesPublished /\ [Next]_vars => DeletesPublished'
<1> SUFFICES ASSUME TypeOK, FrameOK, DeletesPublished, [Next]_vars, NEW u \in Task
             PROVE  /\ pc'[u] = "compute" => frame'[u].k = 1
                    /\ pc'[u] = "delete" =>
                          \A s \in Correlated(frame'[u].corr) : published'[s] > 0
  BY DEF DeletesPublished
<1> DEFINE Goal == /\ pc'[u] = "compute" => frame'[u].k = 1
                   /\ pc'[u] = "delete" =>
                         \A s \in Correlated(frame'[u].corr) : published'[s] > 0
<1>0. /\ pc \in [Task -> Labels] /\ frame \in [Task -> Frames]
      /\ published \in [Sweeps -> Nat]
  BY DEF TypeOK
<1>1. pc[u] \in Processing => /\ frame[u].corr \in Correlations
                              /\ Correlated(frame[u].corr) \subseteq Sweeps
  BY SweepsIdsAssumption DEF FrameOK, Correlated
<1>2. ASSUME pc'[u] = pc[u], frame'[u] = frame[u],
             \A s \in Sweeps : published'[s] >= published[s],
             published' \in [Sweeps -> Nat]
      PROVE  Goal
  BY <1>0, <1>1, <1>2 DEF DeletesPublished, Processing
<1>3. CASE UNCHANGED vars
  BY <1>0, <1>2, <1>3 DEF vars, historyVars
<1>4. CASE CallerStep
  <2>1. UNCHANGED published
    BY <1>4, CallersData
  <2>2. Quiet(u)
    BY <1>4, CallersQuiet
  <2> QED
    BY <1>0, <1>2, <2>1, <2>2 DEF Quiet, Busy
<1>5. ASSUME NEW t \in Task, ProcessCorrelationPair(t)
      PROVE  Goal
  <2>1. published' \in [Sweeps -> Nat] /\ \A s \in Sweeps : published'[s] >= published[s]
    <3>1. published' \in [Sweeps -> Nat]
      BY <1>5, TypeProcess DEF TypeOK
    <3>2. UNCHANGED published \/ Publish(t)
      BY <1>5 DEF ProcessCorrelationPair, CheckAvailability, CheckFails, FetchRaw,
         FetchGone, FetchFails, CombineFails, ConvertAndPublish, PublishFails,
         PublishUnacknowledged, DeleteRaw, DeleteFails, historyVars
    <3> QED
      BY <1>0, <3>1, <3>2, PublishCounts
  <2>2. CASE u # t
    BY <1>2, <1>5, <2>1, <2>2, OtherTaskKept
  <2>3. CASE u = t
    <3> USE <2>3 DEF Goto
    <3>1. CASE CheckAvailability(t) \/ CheckFails(t)
      BY <1>0, <3>1 DEF CheckAvailability, CheckFails, Checked
    <3>2. CASE FetchRaw(t)
      BY <1>0, <3>2 DEF FetchRaw, NextK, Frames
    <3>3. CASE FetchGone(t) \/ FetchFails(t) \/ PublishFails(t)
               \/ PublishUnacknowledged(t)
      BY <1>0, <3>3 DEF FetchGone, FetchFails, PublishFails, PublishUnacknowledged
    <3>4. CASE CombineFails(t)
      BY <1>0, <3>4 DEF CombineFails, Raise
    <3>5. CASE ConvertAndPublish(t)
      <4>1. ASSUME NEW s \in Correlated(frame[t].corr)
            PROVE  published'[s] > 0
        <5>1. s \in Sweeps
          BY <1>1, <3>5 DEF ConvertAndPublish, Processing
        <5> QED
          BY <1>0, <3>5, <5>1, PublishCounts DEF ConvertAndPublish
      <4> QED
        BY <1>0, <3>5, <4>1 DEF ConvertAndPublish
    <3>6. CASE DeleteRaw(t) \/ DeleteFails(t)
      <4>1. pc[t] = "delete" /\ pc'[t] # "compute" /\ frame'[t].corr = frame[t].corr
        BY <1>0, <3>6 DEF DeleteRaw, DeleteFails, Deleted, Frames
      <4> QED
        BY <1>0, <1>1, <2>1, <4>1 DEF DeletesPublished, Processing
    <3> QED
      BY <1>5, <3>1, <3>2, <3>3, <3>4, <3>5, <3>6 DEF ProcessCorrelationPair
  <2> QED
    BY <2>2, <2>3
<1> QED
  BY <1>3, <1>4, <1>5, SplitNext

LEMMA DeletesPublishedInit == Init => DeletesPublished
  BY DEF Init, DeletesPublished, Task

LEMMA ReleaseStep ==
    ASSUME TypeOK, FrameOK, DeletesPublished, Next,
           NEW s \in Sweeps, redis[s] # None, redis'[s] = None
    PROVE  redis[s].ttl = 1 \/ published[s] > 0
<1>1. CASE CallerStep
  BY <1>1, CallersData DEF Kept, Renewed, Aged, Expired
<1>2. ASSUME NEW t \in Task, ProcessCorrelationPair(t)
      PROVE  published[s] > 0
  <2>1. DeleteRaw(t) \/ UNCHANGED redis
    BY <1>2 DEF ProcessCorrelationPair, CheckAvailability, CheckFails, FetchRaw,
       FetchGone, FetchFails, CombineFails, ConvertAndPublish, PublishFails,
       PublishUnacknowledged, DeleteFails
  <2>2. DeleteRaw(t) /\ s = CurrentId(t)
    BY <2>1 DEF DeleteRaw, TypeOK
  <2>3. CurrentId(t) \in Correlated(frame[t].corr)
    BY <2>2, IdsType DEF DeleteRaw, Processing, CurrentId, Correlated, Ids
  <2> QED
    BY <2>2, <2>3 DEF DeletesPublished, DeleteRaw
<1> QED
  BY <1>1, <1>2, SplitNext

(* Electrical data leaves Redis only when its time to live ends or after a *)
(* conversion that used it was published: delete_raw is reached only past  *)
(* the acknowledged send, in both tasks and whatever the other one does.   *)
THEOREM ReleasedAfterPublish == Spec => RawReleasedOnlyAfterPublish
<1>1. TypeOK /\ FrameOK /\ DeletesPublished /\ [Next]_vars
         => [\A s \in Sweeps : (redis[s] # None /\ redis'[s] = None)
                => redis[s].ttl = 1 \/ published[s] > 0]_vars
  BY ReleaseStep
<1> QED
  BY <1>1, TypeCorrect, DeletesPublishedInit, DeletesPublishedStep, PTL
     DEF Spec, RawReleasedOnlyAfterPublish

-----------------------------------------------------------------------------
(* Stored data is published at most twice.                                 *)

LEMMA HoldsQuiet ==
    ASSUME NEW t \in Task, Quiet(t), NEW s
    PROVE  /\ Holds(t, s)' <=> Holds(t, s)
           /\ Owes(t, s)' <=> Owes(t, s)
<1>1. CASE pc'[t] = pc[t] /\ frame'[t] = frame[t]
  BY <1>1 DEF Holds, Owes, Ids
<1>2. CASE pc[t] \notin Busy /\ pc'[t] \notin Busy
  BY <1>2 DEF Holds, Owes, Busy
<1> QED
  BY <1>1, <1>2 DEF Quiet

(* Bound(s, e) is what TwiceInv says of one sweep, with e publications     *)
(* that something else than a failure excuses.                             *)
Bound(s, e) ==
    IF redis[s] # None
    THEN /\ stored[s] > 0
         /\ published[s] <= 2 * (stored[s] - 1) + Owed(s) + faults + e
    ELSE published[s] + Held(s) <= 2 * stored[s] + faults + e

(* The counts of the two tasks, the moving one first.                      *)
LEMMA TaskCounts ==
    ASSUME NEW t \in Task, NEW s
    PROVE  \E u \in Task :
              /\ u # t /\ Task = {t, u}
              /\ Held(s) = Count(Holds(t, s)) + Count(Holds(u, s))
              /\ Owed(s) = Count(Owes(t, s)) + Count(Owes(u, s))
              /\ Held(s)' = Count(Holds(t, s))' + Count(Holds(u, s))'
              /\ Owed(s)' = Count(Owes(t, s))' + Count(Owes(u, s))'
<1> DEFINE om == Count(Owes("main", s))
           or == Count(Owes("retry", s))
           hm == Count(Holds("main", s))
           hr == Count(Holds("retry", s))
<1>1. /\ om \in {0, 1} /\ or \in {0, 1} /\ hm \in {0, 1} /\ hr \in {0, 1}
      /\ om' \in {0, 1} /\ or' \in {0, 1} /\ hm' \in {0, 1} /\ hr' \in {0, 1}
  BY DEF Count
<1>2. /\ Held(s) = hm + hr /\ Held(s)' = hm' + hr'
      /\ Owed(s) = om + or /\ Owed(s)' = om' + or'
  BY DEF Held, Owed
<1>3. CASE t = "main"
  BY <1>2, <1>3 DEF Task
<1>4. CASE t = "retry"
  <2> HIDE DEF om, or, hm, hr
  <2>1. /\ Held(s) = hr + hm /\ Held(s)' = hr' + hm'
        /\ Owed(s) = or + om /\ Owed(s)' = or' + om'
    BY <1>1, <1>2
  <2> USE DEF om, or, hm, hr
  <2>2. "main" # t /\ "main" \in Task /\ Task = {t, "main"}
    BY <1>4 DEF Task
  <2> QED
    BY <1>4, <2>1, <2>2
<1> QED
  BY <1>3, <1>4 DEF Task

(* Count is 0 or 1, and a task does not hold and owe the same data.        *)
LEMMA CountType ==
    ASSUME NEW t, NEW s
    PROVE  /\ Count(Holds(t, s)) \in {0, 1} /\ Count(Owes(t, s)) \in {0, 1}
           /\ Count(Holds(t, s)) + Count(Owes(t, s)) <= 1
           /\ Count(Holds(t, s))' \in {0, 1} /\ Count(Owes(t, s))' \in {0, 1}
           /\ Count(Holds(t, s))' + Count(Owes(t, s))' <= 1
<1>1. Count(Holds(t, s)) + Count(Owes(t, s)) <= 1
  BY DEF Count, Holds, Owes
<1>2. Count(Holds(t, s))' + Count(Owes(t, s))' <= 1
  BY DEF Count, Holds, Owes
<1> QED
  BY <1>1, <1>2 DEF Count

LEMMA BoundCaller ==
    ASSUME TypeOK, FrameOK, CallerStep, NEW s \in Sweeps,
           NEW e \in Nat, Bound(s, e)
    PROVE  Bound(s, e)'
<1>1. PICK u \in Task :
          /\ Held(s) = Count(Holds("main", s)) + Count(Holds(u, s))
          /\ Owed(s) = Count(Owes("main", s)) + Count(Owes(u, s))
          /\ Held(s)' = Count(Holds("main", s))' + Count(Holds(u, s))'
          /\ Owed(s)' = Count(Owes("main", s))' + Count(Owes(u, s))'
  BY TaskCounts DEF Task
<1> DEFINE ot == Count(Owes("main", s))
           ou == Count(Owes(u, s))
           ht == Count(Holds("main", s))
           hu == Count(Holds(u, s))
<1>2. ot' = ot /\ ou' = ou /\ ht' = ht /\ hu' = hu
  <2>1. Quiet("main") /\ Quiet(u)
    BY CallersQuiet DEF Task
  <2>2. /\ Holds("main", s)' <=> Holds("main", s)
        /\ Holds(u, s)' <=> Holds(u, s)
        /\ Owes("main", s)' <=> Owes("main", s)
        /\ Owes(u, s)' <=> Owes(u, s)
    BY <2>1, HoldsQuiet DEF Task
  <2> QED
    BY <2>2 DEF Count
<1>3. /\ ot \in {0, 1} /\ ou \in {0, 1} /\ ht \in {0, 1} /\ hu \in {0, 1}
      /\ ot + ht <= 1 /\ ou + hu <= 1
  BY DEF Count, Holds, Owes
<1>4. /\ published[s] \in Nat /\ stored[s] \in Nat /\ faults \in Nat
      /\ published'[s] = published[s] /\ faults' \in Nat /\ faults' >= faults
  BY CallersData, BoundsAssumption DEF TypeOK
<1>5. Kept(s) \/ Renewed(s) \/ Aged(s) \/ Expired(s)
  BY CallersData
<1> HIDE DEF ot, ou, ht, hu
<1>6. /\ Held(s) = ht + hu /\ Owed(s) = ot + ou
      /\ Held(s)' = ht + hu /\ Owed(s)' = ot + ou
  BY <1>1, <1>2 DEF ot, ou, ht, hu
<1> QED
  BY <1>3, <1>4, <1>5, <1>6 DEF Bound, Kept, Renewed, Aged, Expired

(* How a step of process_correlation_pair moves the counts of its task.    *)
LEMMA CountsOfProcess ==
    ASSUME TypeOK, FrameOK, DeletesPublished,
           NEW t \in Task, ProcessCorrelationPair(t), NEW s \in Sweeps
    PROVE  /\ stored'[s] = stored[s]
           /\ \/ (* nothing is published or deleted *)
                 /\ redis'[s] = redis[s] /\ published'[s] = published[s]
                 /\ faults' = faults \/ Fault
                 /\ Holds(t, s)' => Holds(t, s) \/ redis[s] # None
                 /\ ~Owes(t, s)
              \/ (* published *)
                 /\ redis'[s] = redis[s] /\ faults' = faults
                 /\ published'[s] = published[s] + Count(Holds(t, s))
                 /\ ~Holds(t, s)' /\ ~Owes(t, s)
                 /\ Owes(t, s)' <=> Holds(t, s)
              \/ (* published, but the answer is lost *)
                 /\ redis'[s] = redis[s] /\ Fault
                 /\ published'[s] = published[s] + Count(Holds(t, s))
                 /\ ~Holds(t, s)' /\ ~Owes(t, s)
              \/ (* deleted *)
                 /\ published'[s] = published[s] /\ faults' = faults
                 /\ ~Holds(t, s)'
                 /\ redis'[s] = None \/ (redis'[s] = redis[s]
                                         /\ (Owes(t, s) => Owes(t, s)'))
              \/ (* not deleted *)
                 /\ redis'[s] = redis[s] /\ published'[s] = published[s]
                 /\ Fault /\ ~Holds(t, s)'
<1> DEFINE Goal ==
           /\ stored'[s] = stored[s]
           /\ \/ /\ redis'[s] = redis[s] /\ published'[s] = published[s]
                 /\ faults' = faults \/ Fault
                 /\ Holds(t, s)' => Holds(t, s) \/ redis[s] # None
                 /\ ~Owes(t, s)
              \/ /\ redis'[s] = redis[s] /\ faults' = faults
                 /\ published'[s] = published[s] + Count(Holds(t, s))
                 /\ ~Holds(t, s)' /\ ~Owes(t, s)
                 /\ Owes(t, s)' <=> Holds(t, s)
              \/ /\ redis'[s] = redis[s] /\ Fault
                 /\ published'[s] = published[s] + Count(Holds(t, s))
                 /\ ~Holds(t, s)' /\ ~Owes(t, s)
              \/ /\ published'[s] = published[s] /\ faults' = faults
                 /\ ~Holds(t, s)'
                 /\ redis'[s] = None \/ (redis'[s] = redis[s]
                                         /\ (Owes(t, s) => Owes(t, s)'))
              \/ /\ redis'[s] = redis[s] /\ published'[s] = published[s]
                 /\ Fault /\ ~Holds(t, s)'
<1>0. /\ pc \in [Task -> Labels] /\ frame \in [Task -> Frames]
      /\ frame[t] \in Frames
      /\ published \in [Sweeps -> Nat]
  BY DEF TypeOK
<1>1. pc[t] \in Processing =>
           /\ frame[t].corr \in Correlations
           /\ Ids(t) \in Seq(Sweeps)
           /\ Len(Ids(t)) \in Nat \ {0}
           /\ frame[t].k \in 1..Len(Ids(t))
  BY IdsType
<1>2. CASE CheckAvailability(t) \/ CheckFails(t)
  <2>1. /\ ~Owes(t, s) /\ pc[t] = "check"
        /\ pc'[t] \in {"check", "failure"} \/ (pc'[t] = "fetch" /\ frame'[t].k = 1)
    <3>1. ASSUME NEW available, pc[t] = "check", Checked(t, available)
          PROVE  /\ ~Owes(t, s)
                 /\ \/ pc'[t] \in {"check", "failure"}
                    \/ pc'[t] = "fetch" /\ frame'[t].k = 1
      <4>1. ~Owes(t, s)
        BY <3>1 DEF Owes
      <4>2. pc'[t] = IF ~LastId(t) THEN "check"
                     ELSE IF frame[t].missing \/ ~available THEN "failure"
                     ELSE "fetch"
        BY <1>0, <3>1 DEF Checked, Goto
      <4>3. frame'[t].k = NextK(t)
        BY <1>0, <3>1 DEF Checked, Frames
      <4> QED
        BY <4>1, <4>2, <4>3 DEF NextK
    <3> QED
      BY <1>2, <3>1 DEF CheckAvailability, CheckFails
  <2>2. ~Holds(t, s)'
    BY <2>1 DEF Holds
  <2> QED
    BY <1>2, <2>1, <2>2 DEF CheckAvailability, CheckFails, historyVars
<1>3. CASE FetchRaw(t)
  <2>1. ~Owes(t, s) /\ redis' = redis /\ UNCHANGED historyVars /\ faults' = faults
    BY <1>3 DEF FetchRaw, Owes
  <2>2. /\ pc[t] = "fetch"
        /\ pc'[t] = (IF LastId(t) THEN "compute" ELSE "fetch")
        /\ frame'[t].corr = frame[t].corr /\ frame'[t].k = NextK(t)
        /\ Ids(t)' = Ids(t)
    <3>1. pc[t] = "fetch" /\ pc'[t] = (IF LastId(t) THEN "compute" ELSE "fetch")
      BY <1>0, <1>3 DEF FetchRaw, Goto
    <3>2. frame'[t].corr = frame[t].corr /\ frame'[t].k = NextK(t)
      BY <1>0, <1>3 DEF FetchRaw, Frames
    <3>3. Ids(t)' = Ids(t)
      BY <3>2 DEF Ids
    <3> QED
      BY <3>1, <3>2, <3>3
  <2>3. ASSUME Holds(t, s)'
        PROVE  Holds(t, s) \/ s = CurrentId(t)
    <3>1. PICK k \in 1..frame[t].k : Ids(t)[k] = s
      <4>1. CASE LastId(t)
        BY <1>1, <2>2, <2>3, <4>1 DEF Holds, Correlated, Ids, LastId, Processing
      <4>2. CASE ~LastId(t)
        BY <1>1, <2>2, <2>3, <4>2 DEF Holds, NextK, Processing
      <4> QED
        BY <4>1, <4>2
    <3> QED
      BY <1>1, <2>2, <3>1 DEF Holds, CurrentId, Processing
  <2>4. redis[CurrentId(t)] # None
    BY <1>3 DEF FetchRaw
  <2> QED
    BY <2>1, <2>3, <2>4 DEF historyVars
<1>4. CASE FetchGone(t) \/ FetchFails(t) \/ CombineFails(t) \/ PublishFails(t)
  <2>1. /\ UNCHANGED <<redis, historyVars>> /\ (faults' = faults \/ Fault)
        /\ ~Owes(t, s)
    BY <1>4 DEF FetchGone, FetchFails, CombineFails, PublishFails, Owes
  <2>2. pc'[t] \in {"failure", "loop", "dead"}
    BY <1>0, <1>4 DEF FetchGone, FetchFails, CombineFails, PublishFails, Raise, Goto
  <2>3. ~Holds(t, s)'
    BY <2>2 DEF Holds
  <2> QED
    BY <2>1, <2>3 DEF historyVars
<1>5. CASE ConvertAndPublish(t) \/ PublishUnacknowledged(t)
  <2>1. pc[t] = "compute" /\ Publish(t) /\ redis' = redis /\ frame' = frame
    BY <1>5 DEF ConvertAndPublish, PublishUnacknowledged
  <2>2. stored' = stored /\ ~Owes(t, s)
    BY <2>1 DEF Publish, Owes
  <2>3. Holds(t, s) <=> s \in Correlated(frame[t].corr)
    BY <2>1 DEF Holds
  <2>4. published'[s] = published[s] + Count(Holds(t, s))
    BY <1>0, <2>1, <2>3, PublishCounts DEF Count
  <2>5. CASE ConvertAndPublish(t)
    <3>1. pc'[t] = "delete" /\ faults' = faults
      BY <1>0, <2>5 DEF ConvertAndPublish, Goto
    <3>2. ~Holds(t, s)'
      BY <3>1 DEF Holds
    <3>3. Owes(t, s)' <=> Holds(t, s)
      BY <1>1, <2>1, <2>3, <3>1
         DEF Owes, DeletesPublished, Correlated, Ids, Processing
    <3> QED
      BY <2>1, <2>2, <2>4, <3>1, <3>2, <3>3
  <2>6. CASE PublishUnacknowledged(t)
    <3>1. pc'[t] = "failure" /\ Fault
      BY <1>0, <2>6 DEF PublishUnacknowledged, Goto
    <3>2. ~Holds(t, s)'
      BY <3>1 DEF Holds
    <3> QED
      BY <2>1, <2>2, <2>4, <3>1, <3>2
  <2> QED
    BY <1>5, <2>5, <2>6
<1>6. CASE DeleteRaw(t) \/ DeleteFails(t)
  <2>1. /\ pc[t] = "delete" /\ Deleted(t) /\ UNCHANGED historyVars
        /\ pc'[t] = (IF LastId(t) THEN "success" ELSE "delete")
        /\ frame'[t].corr = frame[t].corr /\ frame'[t].k = NextK(t)
        /\ Ids(t)' = Ids(t)
    <3>1. pc[t] = "delete" /\ Deleted(t) /\ UNCHANGED historyVars
      BY <1>6 DEF DeleteRaw, DeleteFails
    <3>2. pc'[t] = (IF LastId(t) THEN "success" ELSE "delete")
      BY <1>0, <3>1 DEF Deleted, Goto
    <3>3. frame'[t].corr = frame[t].corr /\ frame'[t].k = NextK(t)
      BY <1>0, <3>1 DEF Deleted, Frames
    <3>4. Ids(t)' = Ids(t)
      BY <3>3 DEF Ids
    <3> QED
      BY <3>1, <3>2, <3>3, <3>4
  <2>2. ~Holds(t, s)'
    BY <2>1 DEF Holds
  <2>3. ASSUME Owes(t, s), s # CurrentId(t)
        PROVE  Owes(t, s)'
    <3>1. PICK k \in frame[t].k..Len(Ids(t)) : Ids(t)[k] = s
      BY <2>3 DEF Owes
    <3>2. k # frame[t].k /\ ~LastId(t)
      BY <1>1, <2>1, <2>3, <3>1 DEF CurrentId, LastId, Processing
    <3> QED
      BY <1>1, <2>1, <3>1, <3>2 DEF Owes, NextK, Processing
  <2>4. CASE DeleteRaw(t)
    <3>1. redis' = [redis EXCEPT ![CurrentId(t)] = None] /\ faults' = faults
      BY <2>4 DEF DeleteRaw
    <3>2. redis'[s] = IF s = CurrentId(t) THEN None ELSE redis[s]
      BY <3>1 DEF TypeOK
    <3> QED
      BY <2>1, <2>2, <2>3, <3>1, <3>2 DEF historyVars
  <2>5. CASE DeleteFails(t)
    BY <2>1, <2>2, <2>5 DEF DeleteFails, historyVars
  <2> QED
    BY <1>6, <2>4, <2>5
<1> QED
  BY <1>2, <1>3, <1>4, <1>5, <1>6 DEF ProcessCorrelationPair

LEMMA BoundProcess ==
    ASSUME TypeOK, FrameOK, DeletesPublished,
           NEW t \in Task, ProcessCorrelationPair(t), NEW s \in Sweeps,
           NEW e \in Nat, Bound(s, e)
    PROVE  Bound(s, e)'
<1>1. PICK u \in Task :
          /\ u # t
          /\ Held(s) = Count(Holds(t, s)) + Count(Holds(u, s))
          /\ Owed(s) = Count(Owes(t, s)) + Count(Owes(u, s))
          /\ Held(s)' = Count(Holds(t, s))' + Count(Holds(u, s))'
          /\ Owed(s)' = Count(Owes(t, s))' + Count(Owes(u, s))'
  BY TaskCounts
<1> DEFINE ot == Count(Owes(t, s))
           ou == Count(Owes(u, s))
           ht == Count(Holds(t, s))
           hu == Count(Holds(u, s))
<1>2. ou' = ou /\ hu' = hu
  BY <1>1, OtherTaskKept DEF Count, Holds, Owes, Ids
<1>3. /\ ot \in {0, 1} /\ ou \in {0, 1} /\ ht \in {0, 1} /\ hu \in {0, 1}
      /\ ot' \in {0, 1} /\ ht' \in {0, 1}
      /\ ot + ht <= 1 /\ ou + hu <= 1
  BY CountType
<1>4. /\ published[s] \in Nat /\ stored[s] \in Nat /\ faults \in Nat
      /\ stored'[s] = stored[s]
  <2>1. published[s] \in Nat /\ stored[s] \in Nat
    BY DEF TypeOK
  <2>2. faults \in Nat
    BY BoundsAssumption DEF TypeOK
  <2>3. stored'[s] = stored[s]
    BY CountsOfProcess
  <2> QED
    BY <2>1, <2>2, <2>3
<1>5. \/ /\ redis'[s] = redis[s] /\ published'[s] = published[s]
         /\ faults' = faults \/ faults' = faults + 1
         /\ ht' <= ht \/ redis[s] # None
         /\ ot = 0
      \/ /\ redis'[s] = redis[s] /\ faults' = faults
         /\ published'[s] = published[s] + ht
         /\ ht' = 0 /\ ot = 0 /\ ot' = ht
      \/ /\ redis'[s] = redis[s] /\ faults' = faults + 1
         /\ published'[s] = published[s] + ht
         /\ ht' = 0 /\ ot = 0
      \/ /\ published'[s] = published[s] /\ faults' = faults
         /\ ht' = 0
         /\ redis'[s] = None \/ (redis'[s] = redis[s] /\ ot <= ot')
      \/ /\ redis'[s] = redis[s] /\ published'[s] = published[s]
         /\ faults' = faults + 1 /\ ht' = 0
  BY CountsOfProcess DEF Count, Fault
<1> HIDE DEF ot, ou, ht, hu
<1>6. /\ Held(s) = ht + hu /\ Owed(s) = ot + ou
      /\ Held(s)' = ht' + hu /\ Owed(s)' = ot' + ou
  BY <1>1, <1>2 DEF ot, ou, ht, hu
<1> QED
  BY <1>3, <1>4, <1>5, <1>6 DEF Bound

LEMMA BoundStep ==
    ASSUME TypeOK, FrameOK, DeletesPublished, [Next]_vars, NEW s \in Sweeps,
           NEW e \in Nat, Bound(s, e)
    PROVE  Bound(s, e)'
<1>1. CASE UNCHANGED vars
  BY <1>1 DEF vars, historyVars, Bound, Held, Owed, Holds, Owes, Ids
<1>2. CASE Next
  BY <1>2, SplitNext, BoundCaller, BoundProcess
<1> QED
  BY <1>1, <1>2

LEMMA CountsAreNat ==
    ASSUME TypeOK, NEW s \in Sweeps
    PROVE  /\ published[s] \in Nat /\ stored[s] \in Nat /\ faults \in Nat
           /\ Owed(s) \in 0..2 /\ Held(s) \in 0..2
<1>1. /\ published[s] \in Nat /\ stored[s] \in Nat /\ faults \in Nat
  BY BoundsAssumption DEF TypeOK
<1>2. Owed(s) \in 0..2 /\ Held(s) \in 0..2
  BY DEF Owed, Held, Count
<1> QED
  BY <1>1, <1>2

LEMMA TwiceIsBound ==
    TypeOK => (TwiceInv <=> \A s \in Sweeps : Bound(s, 0))
<1> SUFFICES ASSUME TypeOK
             PROVE  TwiceInv <=> \A s \in Sweeps : Bound(s, 0)
  OBVIOUS
<1>1. ASSUME NEW s \in Sweeps
      PROVE  Bound(s, 0) <=>
                IF redis[s] # None
                THEN /\ stored[s] > 0
                     /\ published[s] <= 2 * (stored[s] - 1) + Owed(s) + faults
                ELSE published[s] + Held(s) <= 2 * stored[s] + faults
  BY CountsAreNat DEF Bound
<1> QED
  BY <1>1 DEF TwiceInv

LEMMA TwiceStep ==
    TypeOK /\ FrameOK /\ DeletesPublished /\ TwiceInv /\ [Next]_vars /\ TypeOK'
        => TwiceInv'
<1> SUFFICES ASSUME TypeOK, FrameOK, DeletesPublished, TwiceInv, [Next]_vars, TypeOK'
             PROVE  TwiceInv'
  OBVIOUS
<1>1. \A s \in Sweeps : Bound(s, 0)
  BY TwiceIsBound
<1>2. \A s \in Sweeps : Bound(s, 0)'
  BY <1>1, BoundStep
<1>3. (TypeOK => (TwiceInv <=> \A s \in Sweeps : Bound(s, 0)))'
  BY TwiceIsBound, PTL
<1> QED
  BY <1>2, <1>3

LEMMA TwiceInit == Init => TwiceInv
  BY BoundsAssumption DEF Init, TwiceInv, Held, Holds, Count, Task

LEMMA TwiceImplies ==
    TypeOK /\ TwiceInv => AtMostTwice
<1> SUFFICES ASSUME TypeOK, TwiceInv, NEW s \in Sweeps
             PROVE  published[s] <= 2 * stored[s] + faults
  BY DEF AtMostTwice
<1> QED
  BY CountsAreNat DEF TwiceInv

(* However the two tasks interleave on the shared list, and whatever is    *)
(* redelivered or expires, the data of a sweep is published at most twice  *)
(* for each time it is stored, not counting failed commands and sends.     *)
THEOREM PublishedAtMostTwice == Spec => []AtMostTwice
<1>1. DeletesPublished /\ TwiceInv /\ TypeOK /\ FrameOK /\ [Next]_vars /\ TypeOK'
         => (DeletesPublished /\ TwiceInv)'
  BY DeletesPublishedStep, TwiceStep
<1>2. Init => DeletesPublished /\ TwiceInv
  BY DeletesPublishedInit, TwiceInit
<1> QED
  BY <1>1, <1>2, TypeCorrect, TwiceImplies, PTL DEF Spec

-----------------------------------------------------------------------------
(* What is published is the right join.                                    *)

LEMMA StoreOnlyAfterTake ==
    ASSUME TypeOK, FrameOK, Next, pc'["main"] = "store"
    PROVE  TakeRaw \/ (pc["main"] = "store" /\ rawItem' = rawItem)
<1>0. pc \in [Task -> Labels] /\ "main" \in Task /\ "retry" \in Task
  BY DEF TypeOK, Task
<1> USE DEF Goto
<1>1. CASE StoreRaw \/ StoreFails \/ MainReturnsCorr
  BY <1>0, <1>1 DEF StoreRaw, StoreFails, MainReturnsCorr
<1>2. ASSUME CorrBranch PROVE FALSE
  BY <1>0, <1>2 DEF CorrBranch, Call
<1>3. CASE ScanPending \/ MainReturnsRaw \/ TakeCorr
  BY <1>0, <1>2, <1>3
     DEF ScanPending, MainReturnsRaw, TakeCorr, ContinueScan, Call, Raise
<1>4. CASE RetryPass \/ RetryReturns
  <2>1. pc'["main"] = pc["main"]
    BY <1>0, <1>4 DEF RetryPass, RetryReturns, ContinueRetry, Call, Raise, TypeOK
  <2>2. rawItem' = rawItem
    BY <1>4 DEF RetryPass, RetryReturns, ContinueRetry, Raise
  <2> QED
    BY <2>1, <2>2
<1>5. CASE Environment
  BY <1>5 DEF Environment, SkipRaw, ConsumeRaw, ConsumeCorr, DropMessage,
     Redeliver, Tick
<1>6. CASE ProcessCorrelationPair("main")
  BY <1>0, <1>6 DEF ProcessCorrelationPair, CheckAvailability, CheckFails, Checked,
     FetchRaw, FetchGone, FetchFails, CombineFails, Raise, ConvertAndPublish,
     PublishFails, PublishUnacknowledged, DeleteRaw, DeleteFails, Deleted
<1>7. CASE ProcessCorrelationPair("retry")
  <2>1. pc'["main"] = pc["main"]
    BY <1>0, <1>7, OtherTaskKept
  <2>2. rawItem' = rawItem
    BY <1>7 DEF ProcessCorrelationPair, CheckAvailability, CheckFails,
       FetchRaw, FetchGone, FetchFails, CombineFails, Raise, ConvertAndPublish,
       PublishFails, PublishUnacknowledged, DeleteRaw, DeleteFails, callerVars
  <2> QED
    BY <2>1, <2>2
<1> QED
  BY <1>1, <1>3, <1>4, <1>5, <1>6, <1>7 DEF Next, Main, Retry

LEMMA ElecOnlyStep ==
    ASSUME TypeOK, FrameOK, ElecOnly, Next
    PROVE  ElecOnly'
<1>1. ASSUME NEW i \in 1..Len(rawQueue')
      PROVE  rawQueue'[i].type = "elec"
  <2>0. rawQueue \in Seq(RawMessages)
    BY DEF TypeOK
  <2>1. CASE UNCHANGED rawQueue
    BY <1>1, <2>1 DEF ElecOnly
  <2>2. ASSUME NEW m \in RawMessages, ConsumeRaw(m)
        PROVE  rawQueue'[i].type = "elec"
    BY <1>1, <2>0, <2>2, AppendProperties DEF ConsumeRaw, ElecOnly
  <2>3. CASE TakeRaw
    <3>1. rawQueue' = Tail(rawQueue) /\ rawQueue # << >>
      BY <2>3 DEF TakeRaw
    <3>2. i + 1 \in 1..Len(rawQueue) /\ rawQueue'[i] = rawQueue[i + 1]
      BY <1>1, <2>0, <3>1, HeadTailProperties
    <3> QED
      BY <3>2 DEF ElecOnly
  <2>4. (\E m \in RawMessages : ConsumeRaw(m)) \/ TakeRaw \/ UNCHANGED rawQueue
    <3>1. CASE Environment
      BY <3>1 DEF Environment, SkipRaw, ConsumeCorr, DropMessage, Redeliver, Tick
    <3>2. ASSUME NEW t \in Task, ProcessCorrelationPair(t)
          PROVE  UNCHANGED rawQueue
      BY <3>2 DEF ProcessCorrelationPair, CheckAvailability, CheckFails, FetchRaw,
         FetchGone, FetchFails, CombineFails, ConvertAndPublish, PublishFails,
         PublishUnacknowledged, DeleteRaw, DeleteFails, callerVars
    <3>3. CASE CallerStep /\ ~Environment
      BY <3>3 DEF CallerStep, StoreRaw, StoreFails, callerVars, ScanPending,
         MainReturnsRaw, TakeCorr, MainReturnsCorr, RetryPass, RetryReturns
    <3> QED
      BY <3>1, <3>2, <3>3, SplitNext
  <2> QED
    BY <2>1, <2>2, <2>3, <2>4
<1>2. ASSUME pc'["main"] = "store"
      PROVE  rawItem'.type = "elec"
  <2>1. CASE TakeRaw
    <3>1. rawQueue \in Seq(RawMessages) /\ rawQueue # << >>
      BY <2>1 DEF TakeRaw, TypeOK
    <3>2. 1 \in 1..Len(rawQueue) /\ Head(rawQueue) = rawQueue[1]
      BY <3>1
    <3> QED
      BY <2>1, <3>2 DEF TakeRaw, ElecOnly
  <2> QED
    BY <1>2, <2>1, StoreOnlyAfterTake DEF ElecOnly
<1>3. ASSUME NEW s \in Sweeps, redis'[s] # None
      PROVE  redis'[s].msg = Elec(s)
  <2>1. CASE CallerStep
    <3>1. CASE Renewed(s)
      <4>1. /\ rawItem \in RawMessages /\ rawItem.type = "elec"
            /\ rawItem.sweeps_id = s
        BY <3>1 DEF Renewed, FrameOK, ElecOnly
      <4>2. rawItem = Elec(s)
        BY <4>1 DEF RawMessages, Elec
      <4> QED
        BY <3>1, <4>2 DEF Renewed
    <3> QED
      BY <1>3, <2>1, <3>1, CallersData DEF Kept, Aged, Expired, ElecOnly
  <2>2. ASSUME NEW t \in Task, ProcessCorrelationPair(t)
        PROVE  redis'[s] = redis[s]
    <3>1. DeleteRaw(t) \/ UNCHANGED redis
      BY <2>2 DEF ProcessCorrelationPair, CheckAvailability, CheckFails, FetchRaw,
         FetchGone, FetchFails, CombineFails, ConvertAndPublish, PublishFails,
         PublishUnacknowledged, DeleteFails
    <3> QED
      BY <1>3, <3>1 DEF DeleteRaw, TypeOK
  <2> QED
    BY <1>3, <2>1, <2>2, SplitNext DEF ElecOnly
<1> QED
  BY <1>1, <1>2, <1>3 DEF ElecOnly

LEMMA FetchedStep ==
    ASSUME TypeOK, FrameOK, ElecOnly, FetchedInOrder, Next, NEW u \in Task
    PROVE  /\ pc'[u] = "check" => frame'[u].elec = << >>
           /\ pc'[u] = "fetch" => frame'[u].elec =
                 [k \in 1..(frame'[u].k - 1) |-> Elec(Ids(u)'[k])]
           /\ pc'[u] = "compute" => frame'[u].elec =
                 [k \in 1..Len(Ids(u)') |-> Elec(Ids(u)'[k])]
<1> DEFINE Goal == /\ pc'[u] = "check" => frame'[u].elec = << >>
                   /\ pc'[u] = "fetch" => frame'[u].elec =
                         [k \in 1..(frame'[u].k - 1) |-> Elec(Ids(u)'[k])]
                   /\ pc'[u] = "compute" => frame'[u].elec =
                         [k \in 1..Len(Ids(u)') |-> Elec(Ids(u)'[k])]
<1>0. /\ pc \in [Task -> Labels] /\ frame \in [Task -> Frames]
      /\ frame[u] \in Frames
  BY DEF TypeOK
<1>1. pc[u] \in Processing =>
           /\ frame[u].corr \in Correlations
           /\ Ids(u) \in Seq(Sweeps)
           /\ Len(Ids(u)) \in Nat \ {0}
           /\ frame[u].k \in 1..Len(Ids(u))
           /\ CurrentId(u) \in Sweeps
  BY IdsType
<1>2. CASE pc'[u] = pc[u] /\ frame'[u] = frame[u]
  BY <1>2 DEF FetchedInOrder, Ids
<1>3. CASE pc'[u] \notin {"check", "fetch", "compute"}
  BY <1>3
<1>4. CASE CallerStep
  BY <1>2, <1>3, <1>4, CallersQuiet DEF Quiet, Busy
<1>5. CASE CheckAvailability(u) \/ CheckFails(u)
  <2>1. ASSUME NEW available, pc[u] = "check", Checked(u, available)
        PROVE  Goal
    <3>1. pc'[u] = IF ~LastId(u) THEN "check"
                   ELSE IF frame[u].missing \/ ~available THEN "failure"
                   ELSE "fetch"
      BY <1>0, <2>1 DEF Checked, Goto
    <3>2. frame'[u].k = NextK(u) /\ frame'[u].elec = frame[u].elec
      BY <1>0, <2>1 DEF Checked, Frames
    <3>3. frame'[u].elec = << >>
      BY <2>1, <3>2 DEF FetchedInOrder
    <3>4. pc'[u] = "fetch" => frame'[u].k = 1
      BY <3>1, <3>2 DEF NextK
    <3>5. pc'[u] # "compute"
      BY <3>1
    <3>6. [k \in 1..(1 - 1) |-> Elec(Ids(u)'[k])] = << >>
      OBVIOUS
    <3> QED
      BY <3>3, <3>4, <3>5, <3>6
  <2> QED
    BY <1>5, <2>1 DEF CheckAvailability, CheckFails
<1>6. CASE FetchRaw(u)
  <2> DEFINE n == frame[u].k
  <2>1. /\ pc'[u] = (IF LastId(u) THEN "compute" ELSE "fetch")
        /\ frame'[u].k = NextK(u) /\ Ids(u)' = Ids(u)
        /\ frame'[u].elec = Append(frame[u].elec, redis[CurrentId(u)].msg)
    BY <1>0, <1>6 DEF FetchRaw, Goto, Ids, Frames
  <2>2. /\ pc[u] = "fetch" /\ redis[CurrentId(u)] # None
        /\ n \in 1..Len(Ids(u)) /\ Len(Ids(u)) \in Nat
    BY <1>1, <1>6 DEF FetchRaw, Processing
  <2>3. redis[CurrentId(u)].msg = Elec(Ids(u)[n])
    BY <1>1, <2>2 DEF ElecOnly, CurrentId, Processing
  <2>4. frame[u].elec = [k \in 1..(n - 1) |-> Elec(Ids(u)[k])]
    BY <2>2 DEF FetchedInOrder
  <2>5. frame'[u].elec = [k \in 1..n |-> Elec(Ids(u)[k])]
    <3> DEFINE e == [k \in 1..(n - 1) |-> Elec(Ids(u)[k])]
    <3>1. \A k \in 1..(n - 1) : Elec(Ids(u)[k]) \in RawMessages
      BY <1>1, <2>2 DEF Elec, RawMessages, Processing
    <3>2. Elec(Ids(u)[n]) \in RawMessages
      BY <1>1, <2>2 DEF Elec, RawMessages, Processing
    <3>3. n - 1 \in Nat
      BY <2>2
    <3>4. e \in Seq(RawMessages) /\ Len(e) = n - 1
      BY <3>1, <3>3
    <3>5. frame'[u].elec = Append(e, Elec(Ids(u)[n]))
      BY <2>1, <2>3, <2>4
    <3>6. Append(e, Elec(Ids(u)[n])) = [k \in 1..n |-> Elec(Ids(u)[k])]
      BY <2>2, <3>3, <3>4
    <3> QED
      BY <3>5, <3>6
  <2>6. CASE LastId(u)
    BY <2>1, <2>5, <2>6 DEF LastId
  <2>7. CASE ~LastId(u)
    <3>1. frame'[u].k - 1 = n
      BY <2>1, <2>2, <2>7 DEF NextK
    <3> QED
      BY <2>1, <2>5, <2>7, <3>1
  <2> QED
    BY <2>6, <2>7
<1>7. CASE \/ FetchGone(u) \/ FetchFails(u) \/ CombineFails(u)
           \/ ConvertAndPublish(u) \/ PublishFails(u) \/ PublishUnacknowledged(u)
           \/ DeleteRaw(u) \/ DeleteFails(u)
  BY <1>0, <1>3, <1>7 DEF FetchGone, FetchFails, CombineFails, Raise,
     ConvertAndPublish, PublishFails, PublishUnacknowledged, DeleteRaw, DeleteFails,
     Deleted, Goto
<1>8. ASSUME NEW t \in Task, ProcessCorrelationPair(t)
      PROVE  Goal
  <2>1. CASE t = u
    BY <1>5, <1>6, <1>7, <1>8, <2>1 DEF ProcessCorrelationPair
  <2>2. CASE t # u
    BY <1>2, <1>8, <2>2, OtherTaskKept
  <2> QED
    BY <2>1, <2>2
<1> QED
  BY <1>4, <1>8, SplitNext

LEMMA JoinCorrectStep ==
    ASSUME TypeOK, FrameOK, FetchedInOrder, JoinCorrect, Next
    PROVE  JoinCorrect'
<1>1. CASE UNCHANGED conversionTopic
  BY <1>1 DEF JoinCorrect
<1>2. ASSUME NEW t \in Task, pc[t] = "compute", Publish(t)
      PROVE  JoinCorrect'
  <2> DEFINE r == [key |-> Ids(t)[Len(Ids(t))], corr |-> frame[t].corr,
                   elec |-> frame[t].elec]
  <2>1. conversionTopic' = conversionTopic \cup {r}
    BY <1>2 DEF Publish
  <2>2. r.elec = [k \in 1..Len(SweepsIds[r.corr]) |-> Elec(SweepsIds[r.corr][k])]
    BY <1>2 DEF FetchedInOrder, Ids
  <2>3. r.key = SweepsIds[r.corr][Len(SweepsIds[r.corr])]
    BY DEF Ids
  <2> HIDE DEF r
  <2> QED
    BY <2>1, <2>2, <2>3 DEF JoinCorrect
<1>3. ASSUME NEW t \in Task, ProcessCorrelationPair(t)
      PROVE  (pc[t] = "compute" /\ Publish(t)) \/ UNCHANGED conversionTopic
  BY <1>3 DEF ProcessCorrelationPair, CheckAvailability, CheckFails, FetchRaw,
     FetchGone, FetchFails, CombineFails, ConvertAndPublish, PublishFails,
     PublishUnacknowledged, DeleteRaw, DeleteFails, historyVars
<1> QED
  BY <1>1, <1>2, <1>3, SplitNext, CallersData

LEMMA JoinStep ==
    TypeOK /\ FrameOK /\ JoinInv /\ [Next]_vars => JoinInv'
<1> SUFFICES ASSUME TypeOK, FrameOK, JoinInv, [Next]_vars
             PROVE  JoinInv'
  OBVIOUS
<1>1. CASE UNCHANGED vars
  BY <1>1 DEF vars, historyVars, JoinInv, ElecOnly, FetchedInOrder, JoinCorrect, Ids
<1>2. CASE Next
  <2>1. FetchedInOrder'
    BY <1>2, FetchedStep DEF JoinInv, FetchedInOrder
  <2> QED
    BY <1>2, <2>1, ElecOnlyStep, JoinCorrectStep DEF JoinInv
<1> QED
  BY <1>1, <1>2

LEMMA JoinInit == Init => JoinInv
  BY DEF Init, JoinInv, ElecOnly, FetchedInOrder, JoinCorrect, Task

(* Every published record joins a correlation with the electrical data of  *)
(* exactly the sweeps it names, in their order, under the last one's key.  *)
THEOREM PublishedJoinIsCorrect == Spec => []JoinCorrect
<1>1. JoinInv => JoinCorrect
  BY DEF JoinInv
<1> QED
  BY <1>1, JoinInit, JoinStep, TypeCorrect, PTL DEF Spec
-----------------------------------------------------------------------------
(* The conversion service implements StreamJoin.                           *)

(* What Redis holds was stored, and so was what a task has fetched.        *)
HoldsStored ==
    \A s \in Sweeps :
        /\ redis[s] # None => stored[s] > 0
        /\ \A t \in Task : Holds(t, s) => stored[s] > 0

LEMMA HoldsStoredInit == Init => HoldsStored
  BY DEF Init, HoldsStored, Holds, Task

LEMMA HoldsStoredStep ==
    TypeOK /\ FrameOK /\ DeletesPublished /\ HoldsStored /\ [Next]_vars => HoldsStored'
<1> SUFFICES ASSUME TypeOK, FrameOK, DeletesPublished, HoldsStored, [Next]_vars,
                    NEW s \in Sweeps
             PROVE  /\ redis'[s] # None => stored'[s] > 0
                    /\ \A t \in Task : Holds(t, s)' => stored'[s] > 0
  BY DEF HoldsStored
<1>0. /\ redis[s] # None => stored[s] > 0
      /\ \A t \in Task : Holds(t, s) => stored[s] > 0
      /\ stored[s] \in Nat
  BY DEF HoldsStored, TypeOK
<1>1. CASE UNCHANGED vars
  BY <1>0, <1>1 DEF vars, historyVars, Holds, Ids
<1>2. CASE CallerStep
  <2>1. \A t \in Task : Holds(t, s)' <=> Holds(t, s)
    BY <1>2, CallersQuiet, HoldsQuiet
  <2>2. Kept(s) \/ Renewed(s) \/ Aged(s) \/ Expired(s)
    BY <1>2, CallersData
  <2> QED
    BY <1>0, <2>1, <2>2 DEF Kept, Renewed, Aged, Expired
<1>3. ASSUME NEW t \in Task, ProcessCorrelationPair(t)
      PROVE  /\ redis'[s] # None => stored'[s] > 0
             /\ \A u \in Task : Holds(u, s)' => stored'[s] > 0
  <2>1. /\ stored'[s] = stored[s]
        /\ redis'[s] = redis[s] \/ redis'[s] = None
        /\ Holds(t, s)' => Holds(t, s) \/ redis[s] # None
    BY <1>3, CountsOfProcess
  <2>2. ASSUME NEW u \in Task, u # t
        PROVE  Holds(u, s)' <=> Holds(u, s)
    BY <1>3, <2>2, OtherTaskKept DEF Holds, Ids
  <2> QED
    BY <1>0, <2>1, <2>2
<1> QED
  BY <1>1, <1>2, <1>3, SplitNext

(* What is left of the life of each key, and the five things a step of the *)
(* service can be to someone who sees only the data and the results.       *)
KeyLife == [s \in Sweeps |-> IF redis[s] = None THEN 0 ELSE redis[s].ttl]

Unseen ==
    /\ UNCHANGED <<redis, historyVars>>
    /\ faults' \in {faults, faults + 1}
Arrives(s) ==
    /\ KeyLife' = [KeyLife EXCEPT ![s] = REDIS_TTL]
    /\ stored' = [stored EXCEPT ![s] = stored[s] + 1]
    /\ UNCHANGED <<published, conversionTopic, faults>>
Elapses ==
    /\ KeyLife' = [s \in Sweeps |-> IF KeyLife[s] = 0 THEN 0 ELSE KeyLife[s] - 1]
    /\ UNCHANGED <<historyVars, faults>>
Pairs(c) ==
    /\ \A s \in Correlated(c) : stored[s] > 0
    /\ faults' \in {faults, faults + 1}
    /\ published' = [s \in Sweeps |-> IF s \in Correlated(c) THEN published[s] + 1
                                      ELSE published[s]]
    /\ conversionTopic' = conversionTopic \cup
           {[key |-> SweepsIds[c][Len(SweepsIds[c])], corr |-> c,
             elec |-> [k \in 1..Len(SweepsIds[c]) |-> Elec(SweepsIds[c][k])]]}
    /\ UNCHANGED <<redis, stored>>
Frees(s) ==
    /\ published[s] > 0
    /\ KeyLife' = [KeyLife EXCEPT ![s] = 0]
    /\ UNCHANGED <<historyVars, faults>>

DataStep ==
    \/ Unseen \/ Elapses
    \/ \E s \in Sweeps : Arrives(s) \/ Frees(s)
    \/ \E c \in Correlations : Pairs(c)

LEMMA CallerDataStep ==
    ASSUME TypeOK, FrameOK, CallerStep
    PROVE  DataStep
<1>1. CASE StoreRaw
  <2> DEFINE s == rawItem.sweeps_id
             v == [msg |-> rawItem, ttl |-> REDIS_TTL]
  <2>1. rawItem \in RawMessages /\ s \in Sweeps
    BY <1>1 DEF StoreRaw, FrameOK, RawMessages
  <2>2. v \in [msg : RawMessages, ttl : 1..REDIS_TTL]
    BY <2>1, TimesAssumption
  <2>3. v # None /\ v.ttl = REDIS_TTL
    BY <2>2, NoneAssumption DEF RawMessages
  <2>4. /\ redis' = [redis EXCEPT ![s] = v] /\ stored' = [stored EXCEPT ![s] = stored[s] + 1]
        /\ UNCHANGED <<published, conversionTopic, faults>>
    BY <1>1 DEF StoreRaw
  <2> HIDE DEF s, v
  <2>5. KeyLife' = [KeyLife EXCEPT ![s] = REDIS_TTL]
    BY <2>1, <2>3, <2>4 DEF KeyLife, TypeOK
  <2> QED
    BY <2>1, <2>4, <2>5 DEF DataStep, Arrives
<1>2. CASE Tick
  <2>1. ASSUME NEW s \in Sweeps
        PROVE  KeyLife'[s] = IF KeyLife[s] = 0 THEN 0 ELSE KeyLife[s] - 1
    <3>1. redis'[s] = Decayed(redis[s])
      BY <1>2 DEF Tick
    <3>2. CASE redis[s] = None
      BY <3>1, <3>2 DEF Decayed, KeyLife
    <3>3. CASE redis[s] # None
      <4>1. redis[s] \in [msg : RawMessages, ttl : 1..REDIS_TTL]
        BY <3>3 DEF TypeOK
      <4>2. CASE redis[s].ttl = 1
        BY <3>1, <3>3, <4>2 DEF Decayed, KeyLife
      <4>3. CASE redis[s].ttl # 1
        <5>1. redis'[s] = [redis[s] EXCEPT !.ttl = redis[s].ttl - 1]
          BY <3>1, <3>3, <4>3 DEF Decayed
        <5>2. redis[s].ttl - 1 \in 1..REDIS_TTL
          BY <4>1, <4>3, TimesAssumption
        <5>3. redis'[s] \in [msg : RawMessages, ttl : 1..REDIS_TTL]
          BY <4>1, <5>1, <5>2
        <5>4. redis'[s] # None /\ redis'[s].ttl = redis[s].ttl - 1
          BY <4>1, <5>1, <5>3, NoneAssumption DEF RawMessages
        <5> QED
          BY <3>3, <4>1, <5>4 DEF KeyLife
      <4> QED
        BY <4>2, <4>3
    <3> QED
      BY <3>2, <3>3
  <2>2. KeyLife' = [s \in Sweeps |-> IF KeyLife[s] = 0 THEN 0 ELSE KeyLife[s] - 1]
    BY <2>1 DEF KeyLife
  <2> QED
    BY <1>2, <2>2 DEF Tick, DataStep, Elapses
<1>3. CASE \/ TakeRaw \/ StoreFails \/ ScanPending \/ MainReturnsRaw \/ TakeCorr
           \/ MainReturnsCorr \/ RetryPass \/ RetryReturns
  <2>1. Unseen
    BY <1>3 DEF TakeRaw, StoreFails, ScanPending, MainReturnsRaw, TakeCorr,
       MainReturnsCorr, RetryPass, RetryReturns, Unseen, Fault
  <2> QED
    BY <2>1 DEF DataStep
<1>4. CASE Environment
  <2>1. Unseen \/ Tick
    BY <1>4 DEF Environment, SkipRaw, ConsumeRaw, ConsumeCorr, DropMessage, Redeliver,
       Unseen, Fault
  <2> QED
    BY <1>2, <2>1 DEF DataStep
<1> QED
  BY <1>1, <1>3, <1>4 DEF CallerStep

LEMMA ProcessDataStep ==
    ASSUME TypeOK, FrameOK, FetchedInOrder, DeletesPublished, HoldsStored,
           NEW t \in Task, ProcessCorrelationPair(t)
    PROVE  DataStep
<1>1. CASE \/ CheckAvailability(t) \/ CheckFails(t) \/ FetchRaw(t) \/ FetchGone(t)
           \/ FetchFails(t) \/ CombineFails(t) \/ PublishFails(t) \/ DeleteFails(t)
  <2>1. Unseen
    BY <1>1 DEF CheckAvailability, CheckFails, FetchRaw, FetchGone, FetchFails,
       CombineFails, PublishFails, DeleteFails, Unseen, Fault
  <2> QED
    BY <2>1 DEF DataStep
<1>2. CASE ConvertAndPublish(t) \/ PublishUnacknowledged(t)
  <2> DEFINE c == frame[t].corr
  <2>1. /\ pc[t] = "compute" /\ Publish(t) /\ redis' = redis
        /\ faults' \in {faults, faults + 1}
    BY <1>2 DEF ConvertAndPublish, PublishUnacknowledged, Fault
  <2>2. c \in Correlations /\ Correlated(c) \subseteq Sweeps
    BY <2>1, IdsType DEF Processing, Correlated, Ids
  <2>3. \A s \in Correlated(c) : stored[s] > 0
    BY <2>1, <2>2 DEF HoldsStored, Holds
  <2>4. frame[t].elec = [k \in 1..Len(SweepsIds[c]) |-> Elec(SweepsIds[c][k])]
    BY <2>1 DEF FetchedInOrder, Ids
  <2>5. Pairs(c)
    BY <2>1, <2>3, <2>4 DEF Publish, Pairs, Ids
  <2> QED
    BY <2>2, <2>5 DEF DataStep
<1>3. CASE DeleteRaw(t)
  <2> DEFINE s == CurrentId(t)
  <2>1. pc[t] = "delete" /\ UNCHANGED <<historyVars, faults>>
        /\ redis' = [redis EXCEPT ![s] = None]
    BY <1>3 DEF DeleteRaw
  <2>2. s \in Sweeps /\ s \in Correlated(frame[t].corr)
    BY <2>1, IdsType DEF Processing, CurrentId, Correlated, Ids
  <2>3. published[s] > 0
    BY <2>1, <2>2 DEF DeletesPublished
  <2> HIDE DEF s
  <2>4. KeyLife' = [KeyLife EXCEPT ![s] = 0]
    BY <2>1, <2>2 DEF KeyLife, TypeOK
  <2> QED
    BY <2>1, <2>2, <2>3, <2>4 DEF DataStep, Frees
<1> QED
  BY <1>1, <1>2, <1>3 DEF ProcessCorrelationPair

(* Every step is a step of StreamJoin or none (all that                    *)
(* run_conversion_service and periodic_retry_correlations run): what is    *)
(* published pairs a correlation with data that has been stored, data is   *)
(* used twice at most, and it is let go by age or after its use.           *)
THEOREM ConversionImplements == Spec => ImplementsStreamJoin
<1>1. Init => Join!Init
  BY DEF Init, Join!Init
<1>2. ASSUME TypeOK, FrameOK, JoinInv, DeletesPublished, TwiceInv, HoldsStored,
             [Next]_vars, TypeOK', TwiceInv'
      PROVE  [Join!Next]_(Join!svars)
  <2> USE DEF Join!svars
  <2>1. CASE UNCHANGED vars
    BY <2>1 DEF vars, historyVars
  <2>2. CASE Unseen
    BY <2>2 DEF Unseen, historyVars, Join!Next, Join!Mishap
  <2>3. CASE Elapses
    BY <2>3 DEF Elapses, historyVars, KeyLife, Join!Next, Join!Elapse
  <2>4. ASSUME NEW s \in Sweeps, Arrives(s)
        PROVE  Join!Next
    BY <2>4 DEF Arrives, KeyLife, Join!Next, Join!Arrive
  <2>5. ASSUME NEW s \in Sweeps, Frees(s)
        PROVE  Join!Next
    BY <2>5 DEF Frees, historyVars, KeyLife, Join!Next, Join!Free
  <2>6. ASSUME NEW c \in Correlations, Pairs(c)
        PROVE  Join!Pair(c)
    <3>1. \A k \in 1..Len(SweepsIds[c]) : SweepsIds[c][k] \in Sweeps
      BY SweepsIdsAssumption
    <3>2. Join!Named(c) = Correlated(c) /\ Correlated(c) \subseteq Sweeps
      BY <3>1 DEF Join!Named, Correlated
    <3>3. Join!Paired(c) = [key |-> SweepsIds[c][Len(SweepsIds[c])], corr |-> c,
              elec |-> [k \in 1..Len(SweepsIds[c]) |-> Elec(SweepsIds[c][k])]]
      BY <3>1 DEF Join!Paired
    <3>4. \A s \in Correlated(c) : published'[s] <= 2 * stored'[s] + faults'
      <4>1. (TypeOK /\ TwiceInv => AtMostTwice)'
        BY TwiceImplies, PTL
      <4> QED
        BY <1>2, <3>2, <4>1 DEF AtMostTwice
    <3> QED
      BY <2>6, <3>2, <3>3, <3>4 DEF Pairs, KeyLife, Join!Pair
  <2>7. CASE Next
    <3>1. DataStep
      BY <1>2, <2>7, SplitNext, CallerDataStep, ProcessDataStep DEF JoinInv
    <3> QED
      BY <3>1, <2>2, <2>3, <2>4, <2>5, <2>6 DEF DataStep, Join!Next
  <2> QED
    BY <1>2, <2>1, <2>7
<1>3. Init => JoinInv /\ DeletesPublished /\ TwiceInv /\ HoldsStored
  BY JoinInit, DeletesPublishedInit, TwiceInit, HoldsStoredInit
<1> QED
  BY <1>1, <1>2, <1>3, TypeCorrect, JoinStep, DeletesPublishedStep, TwiceStep,
     HoldsStoredStep, PTL DEF Spec, ImplementsStreamJoin, Join!Spec
-----------------------------------------------------------------------------
(* No complete correlation is left waiting, if each names one sweep.       *)

SingleIdsOnly == \A c \in Correlations : Len(SweepsIds[c]) = 1
OneId(c) == SweepsIds[c][1]
Entries == [corr : Correlations, age : 0..(RETRY_LIMIT + 1), late : BOOLEAN]
Corrs(list) == {list[i].corr : i \in 1..Len(list)}

(* The main loop is on its way to a correlation that waits for the sweep:  *)
(* it has just stored the sweep, or is processing its first match.         *)
Searching(s) ==
    /\ rawItem.sweeps_id = s
    /\ \/ pc["main"] = "scan"
       \/ at["main"] > 0 /\ pc["main"] \in {"check", "fetch", "compute", "delete"}

(* What the main loop knows: whoever has been processed has no data left,  *)
(* and a scan is about the sweep that was stored.                          *)
MainKnows ==
    /\ pc["main"] \in {"success", "failure"} =>
          redis[OneId(frame["main"].corr)] = None
    /\ pc["main"] = "check" => ~frame["main"].missing
    /\ pc["main"] \in Processing /\ at["main"] > 0 =>
          rawItem.sweeps_id = OneId(frame["main"].corr)
    /\ pc["main"] \in {"loop", "store", "scan"} => at["main"] = 0
WaitsExplained ==
    \A c \in Corrs(pending) : redis[OneId(c)] # None => Searching(OneId(c))
MatchInv == faults = 0 => MainKnows /\ WaitsExplained

LEMMA OneIdType ==
    ASSUME SingleIdsOnly, NEW c \in Correlations
    PROVE  OneId(c) \in Sweeps /\ Correlated(c) = {OneId(c)}
<1>1. SweepsIds[c] \in Seq(Sweeps) /\ Len(SweepsIds[c]) = 1
  BY SweepsIdsAssumption DEF SingleIdsOnly
<1>2. QED  BY <1>1 DEF OneId, Correlated

(* Pops, marks and age take no new correlation into the list.              *)
LEMMA WithoutCorrs ==
    ASSUME NEW list \in Seq(Entries), NEW I, CanPop(list, I)
    PROVE  Corrs(Without(list, I)) \subseteq Corrs(list)
<1> DEFINE S == {e \in Entries : e.corr \in Corrs(list)}
<1>1. list \in Seq(S)
  <2>1. \A i \in 1..Len(list) : list[i] \in S
    BY ElementOfSeq DEF Corrs
  <2>2. QED  BY <2>1, SeqDef
<1>2. Without(list, I) \in Seq(S)
  BY <1>1, WithoutType
<1>3. \A i \in 1..Len(Without(list, I)) : Without(list, I)[i] \in S
  BY <1>2, ElementOfSeq
<1>4. QED  BY <1>3 DEF Corrs

LEMMA MarkedCorrs ==
    ASSUME NEW list \in Seq(Entries)
    PROVE  Marked(list) \in Seq(Entries) /\ Corrs(Marked(list)) = Corrs(list)
<1>1. Len(list) \in Nat /\ \A i \in 1..Len(list) : list[i] \in Entries
  BY ElementOfSeq
<1>2. ASSUME NEW i \in 1..Len(list)
      PROVE  /\ [list[i] EXCEPT !.late = list[i].age > RETRY_LIMIT] \in Entries
             /\ [list[i] EXCEPT !.late = list[i].age > RETRY_LIMIT].corr = list[i].corr
  <2>1. list[i] \in Entries /\ (list[i].age > RETRY_LIMIT) \in BOOLEAN
    BY <1>1
  <2>2. ASSUME NEW e \in Entries, NEW b \in BOOLEAN
        PROVE  [e EXCEPT !.late = b] \in Entries /\ [e EXCEPT !.late = b].corr = e.corr
    BY DEF Entries
  <2>3. QED  BY <2>1, <2>2, Zenon
<1>3. Marked(list) \in [1..Len(list) -> Entries]
  BY <1>2 DEF Marked
<1>4. Marked(list) \in Seq(Entries) /\ Len(Marked(list)) = Len(list)
  BY <1>1, <1>3, SeqDef
<1>5. \A i \in 1..Len(list) : Marked(list)[i].corr = list[i].corr
  BY <1>2 DEF Marked
<1>6. QED  BY <1>4, <1>5 DEF Corrs

LEMMA RetryCorrs ==
    ASSUME NEW list \in Seq(Entries), NEW from, NEW processed,
           ContinueRetry(list, from, processed)
    PROVE  Corrs(pending') \subseteq Corrs(list)
BY WithoutCorrs DEF ContinueRetry

(* A step that leaves the locals of the main loop alone, stores nothing and*)
(* adds nothing to the list.                                               *)
Elsewhere ==
    /\ pc'["main"] = pc["main"] /\ frame'["main"] = frame["main"]
    /\ at'["main"] = at["main"] /\ rawItem' = rawItem
    /\ \A s \in Sweeps : redis[s] = None => redis'[s] = None
    /\ Corrs(pending') \subseteq Corrs(pending)
    /\ faults' = faults \/ faults' = faults + 1

LEMMA ElsewhereKeeps ==
    ASSUME TypeOK, FrameOK, SingleIdsOnly, MatchInv, Elsewhere
    PROVE  MatchInv'
<1> SUFFICES ASSUME faults' = 0
             PROVE  MainKnows' /\ WaitsExplained'
  BY DEF MatchInv
<1>1. faults = 0
  BY BoundsAssumption DEF Elsewhere, TypeOK
<1>2. MainKnows /\ WaitsExplained
  BY <1>1 DEF MatchInv
<1>3. MainKnows'
  <2>1. pc["main"] \in {"success", "failure"} => frame["main"].corr \in Correlations
    BY DEF FrameOK, Processing, Task
  <2>2. pc["main"] \in {"success", "failure"} =>
            OneId(frame["main"].corr) \in Sweeps
    BY <2>1, OneIdType
  <2>3. QED  BY <1>2, <2>2 DEF MainKnows, Elsewhere
<1>4. WaitsExplained'
  <2> SUFFICES ASSUME NEW c \in Corrs(pending'), redis'[OneId(c)] # None
               PROVE  Searching(OneId(c))'
    BY DEF WaitsExplained
  <2>1. c \in Corrs(pending) /\ c \in Correlations
    <3>1. c \in Corrs(pending)
      BY DEF Elsewhere
    <3>2. pending \in Seq(Entries)
      BY DEF TypeOK, Entries
    <3>3. \A i \in 1..Len(pending) : pending[i] \in Entries
      BY <3>2, ElementOfSeq
    <3>4. QED  BY <3>1, <3>3 DEF Corrs, Entries
  <2>2. redis[OneId(c)] # None
    BY <2>1, OneIdType DEF Elsewhere
  <2>3. Searching(OneId(c))
    BY <1>2, <2>1, <2>2 DEF WaitsExplained
  <2>4. QED  BY <2>3 DEF Searching, Elsewhere
<1>5. QED  BY <1>3, <1>4

LEMMA ElsewhereSteps ==
    ASSUME TypeOK, FrameOK, Retry \/ Environment \/ UNCHANGED vars
    PROVE  Elsewhere
<1> USE DEF topicVars, historyVars
<1>s. /\ pc \in [Task -> Labels] /\ frame \in [Task -> Frames] /\ at \in [Task -> Nat]
      /\ pending \in Seq(Entries) /\ "main" \in Task /\ "retry" \in Task
      /\ redis \in [Sweeps -> [msg : RawMessages, ttl : 1..REDIS_TTL] \cup {None}]
  BY DEF TypeOK, Entries, Task
<1>1. CASE UNCHANGED vars
  BY <1>1 DEF vars, Elsewhere
<1>2. CASE Environment
  <2>1. CASE Tick
    <3>1. \A s \in Sweeps : redis[s] = None => redis'[s] = None
      BY <2>1 DEF Tick, Decayed
    <3>2. Corrs(pending') = Corrs(pending)
      <4>1. Len(pending) \in Nat /\ \A i \in 1..Len(pending) : pending[i] \in Entries
        BY <1>s, ElementOfSeq
      <4>2. pending' = [i \in 1..Len(pending) |-> Older(pending[i])]
        BY <2>1 DEF Tick
      <4>3. DOMAIN pending' = 1..Len(pending) /\ Len(pending') = Len(pending)
        <5>1. TypeOK'
          BY <1>2, TypeEnvironment
        <5>2. pending' \in Seq(Entries)
          BY <5>1 DEF TypeOK, Entries
        <5>3. QED  BY <4>1, <4>2, <5>2
      <4>4. \A i \in 1..Len(pending) : pending'[i].corr = pending[i].corr
        BY <4>1, <4>2 DEF Older, Entries
      <4>5. QED  BY <4>3, <4>4 DEF Corrs
    <3>3. QED  BY <2>1, <3>1, <3>2 DEF Tick, Elsewhere
  <2>2. CASE ~Tick
    BY <1>2, <2>2 DEF Environment, SkipRaw, ConsumeRaw, ConsumeCorr, DropMessage,
                      Redeliver, Fault, Elsewhere
  <2>3. QED  BY <2>1, <2>2
<1>3. CASE RetryPass \/ RetryReturns
  <2>1. PICK list \in Seq(Entries), from \in Nat, processed \in SUBSET Nat :
          /\ ContinueRetry(list, from, processed) /\ Corrs(list) = Corrs(pending)
          /\ UNCHANGED <<redis, faults>>
    <3>1. CASE RetryPass
      BY <1>s, <3>1, MarkedCorrs DEF RetryPass
    <3>2. CASE RetryReturns
      <4>1. at["retry"] + 1 \in Nat /\ Processed("retry") \in SUBSET Nat
        BY <1>s DEF TypeOK, Processed
      <4>2. QED  BY <1>s, <3>2, <4>1 DEF RetryReturns
    <3>3. QED  BY <1>3, <3>1, <3>2
  <2>2. Corrs(pending') \subseteq Corrs(pending)
    BY <2>1, RetryCorrs
  <2>3. /\ pc'["main"] = pc["main"] /\ frame'["main"] = frame["main"]
        /\ at'["main"] = at["main"] /\ rawItem' = rawItem
    BY <1>s, <2>1 DEF ContinueRetry, Call, Raise, Goto
  <2>4. QED  BY <2>1, <2>2, <2>3 DEF Elsewhere
<1>4. CASE ProcessCorrelationPair("retry")
  <2>1. pc'["main"] = pc["main"] /\ frame'["main"] = frame["main"]
    BY <1>4, <1>s, OtherTaskKept
  <2>2. /\ at'["main"] = at["main"] /\ rawItem' = rawItem /\ pending' = pending
        /\ faults' = faults \/ faults' = faults + 1
    BY <1>4, <1>s DEF ProcessCorrelationPair, CheckAvailability, CheckFails,
       FetchRaw, FetchGone, FetchFails, CombineFails, Raise, ConvertAndPublish,
       PublishFails, PublishUnacknowledged, DeleteRaw, DeleteFails, callerVars, Fault
  <2>3. \A s \in Sweeps : redis[s] = None => redis'[s] = None
    BY <1>4, <1>s DEF ProcessCorrelationPair, CheckAvailability, CheckFails,
       FetchRaw, FetchGone, FetchFails, CombineFails, ConvertAndPublish,
       PublishFails, PublishUnacknowledged, DeleteRaw, DeleteFails
  <2>4. QED  BY <2>1, <2>2, <2>3 DEF Elsewhere
<1>5. QED  BY <1>1, <1>2, <1>3, <1>4 DEF Retry

(* The steps of the main loop.  Outside a search no data waits.            *)
NoneWaits == \A c \in Corrs(pending) : redis[OneId(c)] = None

LEMMA EntriesType ==
    ASSUME TypeOK
    PROVE  /\ pending \in Seq(Entries) /\ Len(pending) \in Nat
           /\ \A i \in 1..Len(pending) : pending[i].corr \in Correlations
           /\ Corrs(pending) \subseteq Correlations
<1>1. pending \in Seq(Entries)
  BY DEF TypeOK, Entries
<1>2. \A i \in 1..Len(pending) : pending[i] \in Entries
  BY <1>1, ElementOfSeq
<1>3. QED  BY <1>1, <1>2 DEF Entries, Corrs

(* The main loop turns to the correlation queue, or goes to its beginning. *)
LEMMA LoopKnows ==
    ASSUME TypeOK, FrameOK, CorrBranch \/ Raise("main"), at'["main"] = 0
    PROVE  MainKnows'
<1>1. pc \in [Task -> Labels] /\ frame \in [Task -> Frames] /\ "main" \in Task
  BY DEF TypeOK, Task
<1>2. \/ pc'["main"] = "loop"
      \/ pc'["main"] = "check" /\ frame'["main"].missing = FALSE
  BY <1>1 DEF CorrBranch, Call, Goto, Raise, Fresh
<1>3. QED  BY <1>2 DEF MainKnows

LEMMA ScanKeeps ==
    ASSUME TypeOK, FrameOK, SingleIdsOnly, NEW from \in Nat \ {0}, NEW processed,
           ContinueScan(from, processed), redis' = redis,
           NoneWaits \/ (from = 1 /\ \A c \in Corrs(pending) :
                            redis[OneId(c)] # None => OneId(c) = rawItem.sweeps_id)
    PROVE  MainKnows' /\ WaitsExplained'
<1> DEFINE matches == {j \in from..Len(pending) :
                          rawItem.sweeps_id \in Correlated(pending[j].corr)}
<1>s. /\ pc \in [Task -> Labels] /\ frame \in [Task -> Frames] /\ at \in [Task -> Nat]
      /\ "main" \in Task
  BY DEF TypeOK, Task
<1>t. /\ pending \in Seq(Entries) /\ Len(pending) \in Nat
      /\ \A i \in 1..Len(pending) : pending[i].corr \in Correlations
      /\ Corrs(pending) \subseteq Correlations
  BY EntriesType
<1>1. ASSUME NEW j \in matches, at' = [at EXCEPT !["main"] = j],
             Call("main", pending[j].corr), UNCHANGED <<pending, rawItem>>
      PROVE  MainKnows' /\ WaitsExplained'
  <2>1. j \in 1..Len(pending) /\ j > 0
    BY <1>t
  <2>2. OneId(pending[j].corr) = rawItem.sweeps_id
    BY <1>1, <1>t, <2>1, OneIdType
  <2>3. /\ pc'["main"] = "check" /\ frame'["main"] = Fresh(pending[j].corr)
        /\ at'["main"] = j
    BY <1>1, <1>s DEF Call, Goto
  <2>4. MainKnows'
    BY <1>1, <2>2, <2>3 DEF MainKnows, Fresh
  <2>5. WaitsExplained'
    BY <1>1, <2>1, <2>3 DEF WaitsExplained, Searching, NoneWaits
  <2>6. QED  BY <2>4, <2>5
<1>2. ASSUME matches = {}, pending' = pending \/ (CanPop(pending, processed)
                                /\ pending' = Without(pending, processed)),
             CorrBranch \/ Raise("main"), at'["main"] = 0
      PROVE  MainKnows' /\ WaitsExplained'
  <2>1. MainKnows'
    BY <1>2, LoopKnows
  <2>2. NoneWaits
    <3> SUFFICES ASSUME from = 1,
                        \A c \in Corrs(pending) :
                            redis[OneId(c)] # None => OneId(c) = rawItem.sweeps_id
                 PROVE  NoneWaits
      OBVIOUS
    <3>1. ASSUME NEW i \in 1..Len(pending)
          PROVE  redis[OneId(pending[i].corr)] = None
      <4>1. rawItem.sweeps_id \notin Correlated(pending[i].corr)
        BY <1>2
      <4>2. OneId(pending[i].corr) # rawItem.sweeps_id
        BY <1>t, <4>1, OneIdType
      <4>3. pending[i].corr \in Corrs(pending)
        BY DEF Corrs
      <4>4. QED  BY <4>2, <4>3
    <3>2. QED  BY <3>1 DEF NoneWaits, Corrs
  <2>3. Corrs(pending') \subseteq Corrs(pending)
    BY <1>2, <1>t, WithoutCorrs
  <2>4. QED  BY <2>1, <2>2, <2>3 DEF WaitsExplained, NoneWaits
<1>3. QED
  BY <1>1, <1>2, <1>s DEF ContinueScan, Raise

LEMMA MainCallerKeeps ==
    ASSUME TypeOK, FrameOK, SingleIdsOnly, faults = 0, MainKnows, WaitsExplained,
           \/ TakeRaw \/ StoreRaw \/ ScanPending \/ MainReturnsRaw \/ TakeCorr
           \/ MainReturnsCorr
    PROVE  MainKnows' /\ WaitsExplained'
<1>s. /\ pc \in [Task -> Labels] /\ frame \in [Task -> Frames] /\ at \in [Task -> Nat]
      /\ "main" \in Task
  BY DEF TypeOK, Task
<1>t. /\ pending \in Seq(Entries) /\ Len(pending) \in Nat
      /\ \A i \in 1..Len(pending) : pending[i].corr \in Correlations
      /\ Corrs(pending) \subseteq Correlations
  BY EntriesType
<1>n. pc["main"] \in {"loop", "store", "success", "failure"} => NoneWaits
  BY DEF WaitsExplained, Searching, NoneWaits
<1>1. CASE TakeRaw
  <2>1. pc'["main"] = "store" /\ UNCHANGED <<pending, redis, at>> /\ pc["main"] = "loop"
    BY <1>1, <1>s DEF TakeRaw, Goto
  <2>2. QED
    BY <1>n, <2>1 DEF MainKnows, WaitsExplained, NoneWaits, Processing
<1>2. CASE StoreRaw
  <2>1. /\ pc["main"] = "store" /\ pc'["main"] = "scan"
        /\ UNCHANGED <<pending, at, rawItem>>
        /\ redis' = [redis EXCEPT ![rawItem.sweeps_id] =
                        [msg |-> rawItem, ttl |-> REDIS_TTL]]
    BY <1>2, <1>s DEF StoreRaw, Goto, callerVars
  <2>2. MainKnows'
    BY <2>1 DEF MainKnows, Processing
  <2>3. WaitsExplained'
    BY <1>n, <2>1 DEF WaitsExplained, Searching, NoneWaits, TypeOK
  <2>4. QED  BY <2>2, <2>3
<1>3. CASE ScanPending
  <2>1. pc["main"] = "scan" /\ ContinueScan(1, {}) /\ redis' = redis
    BY <1>3 DEF ScanPending
  <2>2. \A c \in Corrs(pending) : redis[OneId(c)] # None => OneId(c) = rawItem.sweeps_id
    BY DEF WaitsExplained, Searching
  <2>3. QED  BY <2>1, <2>2, ScanKeeps
<1>4. CASE MainReturnsRaw
  <2>1. NoneWaits /\ redis' = redis
        /\ ContinueScan(at["main"] + 1, Processed("main"))
    BY <1>4, <1>n DEF MainReturnsRaw
  <2>2. at["main"] + 1 \in Nat \ {0}
    BY <1>s
  <2>3. QED  BY <2>1, <2>2, ScanKeeps
<1>5. CASE TakeCorr
  <2>1. NoneWaits /\ UNCHANGED <<pending, redis>> /\ CorrBranch /\ at'["main"] = 0
    BY <1>5, <1>n DEF TakeCorr, MainKnows
  <2>2. MainKnows'
    BY <2>1, LoopKnows
  <2>3. QED  BY <2>1, <2>2 DEF WaitsExplained, NoneWaits
<1>6. CASE MainReturnsCorr
  <2>1. /\ NoneWaits /\ redis' = redis /\ at' = at /\ at["main"] = 0
        /\ pc'["main"] = "loop" /\ pc["main"] \in {"success", "failure"}
    BY <1>6, <1>n, <1>s DEF MainReturnsCorr, Goto
  <2>2. MainKnows'
    BY <2>1 DEF MainKnows, Processing
  <2>3. redis[OneId(frame["main"].corr)] = None
    BY <2>1 DEF MainKnows
  <2>4. Corrs(pending') \subseteq Corrs(pending) \cup {frame["main"].corr}
    <3>1. CASE pending' = pending
      BY <3>1
    <3>2. CASE pending' = Append(pending, Pending(frame["main"].corr))
      <4>1. frame["main"].corr \in Correlations
        BY <1>s, <2>1 DEF FrameOK, Processing
      <4>2. Pending(frame["main"].corr).corr = frame["main"].corr
        BY DEF Pending
      <4>3. /\ Len(pending') = Len(pending) + 1
            /\ pending'[Len(pending) + 1] = Pending(frame["main"].corr)
            /\ \A i \in 1..Len(pending) : pending'[i] = pending[i]
        BY <1>t, <3>2
      <4>4. QED  BY <1>t, <4>2, <4>3 DEF Corrs
    <3>3. QED  BY <1>6, <3>1, <3>2 DEF MainReturnsCorr
  <2>5. QED  BY <2>1, <2>2, <2>3, <2>4 DEF WaitsExplained, NoneWaits
<1>7. QED  BY <1>1, <1>2, <1>3, <1>4, <1>5, <1>6

(* With one id a call checks, fetches, converts and deletes in one round.  *)
LEMMA MainProcessKeeps ==
    ASSUME TypeOK, FrameOK, SingleIdsOnly, faults = 0, MainKnows, WaitsExplained,
           ProcessCorrelationPair("main"), faults' = 0
    PROVE  MainKnows' /\ WaitsExplained'
<1>s. /\ pc \in [Task -> Labels] /\ frame \in [Task -> Frames] /\ at \in [Task -> Nat]
      /\ "main" \in Task /\ redis \in [Sweeps -> [msg : RawMessages, ttl : 1..REDIS_TTL]
                                                 \cup {None}]
  BY DEF TypeOK, Task
<1>a. /\ \/ CheckAvailability("main") \/ FetchRaw("main") \/ FetchGone("main")
         \/ ConvertAndPublish("main") \/ DeleteRaw("main")
      /\ UNCHANGED <<pending, at, rawItem>>
  BY DEF ProcessCorrelationPair, CheckAvailability, CheckFails, FetchRaw, FetchGone,
     FetchFails, CombineFails, ConvertAndPublish, PublishFails, PublishUnacknowledged,
     DeleteRaw, DeleteFails, Fault, callerVars
<1>b. pc["main"] \in Processing
  BY <1>a DEF CheckAvailability, FetchRaw, FetchGone, ConvertAndPublish, DeleteRaw,
     Processing
<1>c. PICK c \in Correlations : c = frame["main"].corr
  BY <1>b, <1>s DEF FrameOK
<1>d. OneId(c) \in Sweeps /\ CurrentId("main") = OneId(c) /\ LastId("main")
  <2>1. frame["main"].k = 1 /\ Len(Ids("main")) = 1 /\ Ids("main") = SweepsIds[c]
    <3>1. Ids("main") = SweepsIds[c] /\ Len(SweepsIds[c]) = 1
      BY <1>c DEF Ids, SingleIdsOnly
    <3>2. frame["main"].k \in 1..Len(Ids("main"))
      BY <1>b, <1>s, IdsType
    <3>3. QED  BY <3>1, <3>2
  <2>2. QED  BY <2>1, OneIdType DEF CurrentId, LastId, OneId
<1>e. frame'["main"].corr = c
  BY <1>a, <1>c, <1>s DEF CheckAvailability, Checked, FetchRaw, FetchGone,
     ConvertAndPublish, DeleteRaw, Deleted, Frames
<1>f. pc'["main"] \in Processing /\ pc'["main"] # "check"
  BY <1>a, <1>d, <1>s DEF CheckAvailability, Checked, FetchRaw, FetchGone,
     ConvertAndPublish, DeleteRaw, Deleted, Processing, Goto
<1>g. /\ pc'["main"] \in {"success", "failure"} => redis'[OneId(c)] = None
      /\ \A s \in Sweeps : redis'[s] # None => redis[s] # None
  <2>1. CASE CheckAvailability("main")
    <3>1. redis' = redis /\ pc["main"] = "check" /\ ~frame["main"].missing
      BY <2>1 DEF CheckAvailability, MainKnows
    <3>2. pc'["main"] = IF redis[OneId(c)] = None THEN "failure" ELSE "fetch"
      BY <1>d, <1>s, <2>1, <3>1 DEF CheckAvailability, Checked, Goto
    <3>3. QED  BY <3>1, <3>2
  <2>2. CASE FetchRaw("main") \/ FetchGone("main") \/ ConvertAndPublish("main")
    BY <1>d, <1>s, <2>2 DEF FetchRaw, FetchGone, ConvertAndPublish, Goto
  <2>3. CASE DeleteRaw("main")
    BY <1>d, <1>s, <2>3 DEF DeleteRaw
  <2>4. QED  BY <1>a, <2>1, <2>2, <2>3
<1>1. MainKnows'
  <2>1. at["main"] > 0 => rawItem.sweeps_id = OneId(c)
    BY <1>b, <1>c DEF MainKnows
  <2>2. QED  BY <1>a, <1>e, <1>f, <1>g, <2>1 DEF MainKnows, Processing
<1>2. WaitsExplained'
  <2> SUFFICES ASSUME NEW x \in Corrs(pending), redis'[OneId(x)] # None
               PROVE  Searching(OneId(x))'
    BY <1>a DEF WaitsExplained
  <2>1. OneId(x) \in Sweeps
    BY EntriesType, OneIdType
  <2>2. Searching(OneId(x))
    BY <1>g, <2>1 DEF WaitsExplained
  <2>3. at["main"] > 0 /\ rawItem.sweeps_id = OneId(x)
    BY <1>b, <2>2 DEF Searching, Processing
  <2>4. OneId(x) = OneId(c)
    BY <1>b, <1>c, <2>3 DEF MainKnows
  <2>5. pc'["main"] \in {"fetch", "compute", "delete"}
    BY <1>f, <1>g, <2>4 DEF Processing
  <2>6. QED  BY <1>a, <2>3, <2>5 DEF Searching
<1>3. QED  BY <1>1, <1>2

LEMMA MatchStep ==
    ASSUME SingleIdsOnly
    PROVE  TypeOK /\ FrameOK /\ MatchInv /\ [Next]_vars => MatchInv'
<1> SUFFICES ASSUME TypeOK, FrameOK, MatchInv, [Next]_vars
             PROVE  MatchInv'
  OBVIOUS
<1>1. CASE Retry \/ Environment \/ UNCHANGED vars
  BY <1>1, ElsewhereSteps, ElsewhereKeeps
<1>2. CASE Main
  <2> SUFFICES ASSUME faults' = 0
               PROVE  MainKnows' /\ WaitsExplained'
    BY DEF MatchInv
  <2>1. faults \in Nat
    BY BoundsAssumption DEF TypeOK
  <2>2. faults = 0 /\ ~StoreFails
    <3>1. CASE TakeRaw \/ StoreRaw \/ ScanPending \/ MainReturnsRaw \/ TakeCorr
               \/ MainReturnsCorr
      BY <3>1, <2>1 DEF TakeRaw, StoreRaw, ScanPending, MainReturnsRaw, TakeCorr,
         MainReturnsCorr, StoreFails, Fault
    <3>2. CASE StoreFails
      BY <3>2, <2>1 DEF StoreFails, Fault
    <3>3. CASE ProcessCorrelationPair("main")
      <4>1. faults' = faults \/ faults' = faults + 1
        BY <3>3 DEF ProcessCorrelationPair, CheckAvailability, CheckFails, FetchRaw,
           FetchGone, FetchFails, CombineFails, ConvertAndPublish, PublishFails,
           PublishUnacknowledged, DeleteRaw, DeleteFails, Fault
      <4>2. QED  BY <4>1, <2>1 DEF StoreFails, Fault
    <3>4. QED  BY <1>2, <3>1, <3>2, <3>3 DEF Main
  <2>3. MainKnows /\ WaitsExplained
    BY <2>2 DEF MatchInv
  <2>4. QED  BY <1>2, <2>2, <2>3, MainCallerKeeps, MainProcessKeeps DEF Main
<1>3. QED  BY <1>1, <1>2 DEF Next

(* Where each correlation names one sweep, as the correlation service sends*)
(* them, no correlation waits while both tasks are idle although its data  *)
(* is in Redis (run_conversion_service: the scan after a store and the     *)
(* check before an append).                                                *)
THEOREM NoneMissed ==
    ASSUME SingleIdsOnly
    PROVE  Spec => []NoMissedMatch
<1>1. Init => MatchInv
  BY DEF Init, MatchInv, MainKnows, WaitsExplained, Corrs, Processing, Task
<1>2. TypeOK /\ MatchInv => NoMissedMatch
  <2> SUFFICES ASSUME TypeOK, MatchInv, faults = 0, Idle("main"),
                      NEW i \in 1..Len(pending)
               PROVE  \E s \in Correlated(pending[i].corr) : redis[s] = None
    BY DEF NoMissedMatch
  <2>1. pending[i].corr \in Corrs(pending) /\ pending[i].corr \in Correlations
    BY EntriesType DEF Corrs
  <2>2. ~Searching(OneId(pending[i].corr))
    BY DEF Searching, Idle
  <2>3. redis[OneId(pending[i].corr)] = None
    BY <2>1, <2>2 DEF MatchInv, WaitsExplained
  <2>4. QED  BY <2>1, <2>3, OneIdType
<1>3. QED  BY <1>1, <1>2, TypeCorrect, MatchStep, PTL DEF Spec

=============================================================================
