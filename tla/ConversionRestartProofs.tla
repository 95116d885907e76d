------------------------ MODULE ConversionRestartProofs ------------------------
(***************************************************************************)
(* Theorems of ConversionRestart: what the conversion service keeps of its *)
(* promise when its process ends at any step and starts again.             *)
(*                                                                         *)
(* A running service takes the steps of ConversionService, so the lemmas   *)
(* about those steps apply; an end of the process changes nothing that     *)
(* Redis and Kafka keep, and empties what the tasks hold.                  *)
(***************************************************************************)
EXTENDS ConversionRestart, ConversionServiceProofs

(* What ConversionServiceProofs shows of the service and a restart leaves.  *)
ServiceInv ==
    TypeOK /\ FrameOK /\ JoinInv /\ DeletesPublished /\ HoldsStored

(* Each end of the process excuses two publications of each sweep's data:  *)
(* of what the tasks had published and not yet deleted.  During the        *)
(* clean-up they never will delete it.                                     *)
StopBound ==
    \A s \in Sweeps :
        /\ Bound(s, 2 * stops)
        /\ (stage # "up" /\ redis[s] # None) =>
              published[s] <= 2 * (stored[s] - 1) + faults + 2 * stops

(* How far the clean-up is.                                                *)
CleanUpInv ==
    /\ stage = "up" => closed = {} /\ failed = {}
    /\ stage = "producer" => "retry" \notin failed
    /\ stage = "consumers" => "retry" \notin failed /\ "producer" \in closed \cup failed
    /\ stage = "redis" =>
          /\ "retry" \notin failed
          /\ {"producer", "raw"} \subseteq closed \cup failed
          /\ "corr" \in closed \cup failed \/ "raw" \in failed
    /\ stage = "down" => \A t \in Task : pc[t] = "dead"
    /\ StopsClean

RestartInv ==
    ServiceInv /\ RestartTypeOK /\ StopBound /\ CleanUpInv

-----------------------------------------------------------------------------
(* The end of the process.                                                 *)

LEMMA ForgetKeepsService ==
    ASSUME ServiceInv, Forget, UNCHANGED <<redeliveries, redis, historyVars, faults>>
    PROVE  /\ ServiceInv'
           /\ \A t \in Task : pc'[t] = "dead"
           /\ \A s \in Sweeps : Held(s)' = 0 /\ Owed(s)' = 0
<1> USE DEF ServiceInv, historyVars
<1>1. \A t \in Task : pc'[t] = "dead"
  BY DEF Forget
<1>2. ASSUME NEW t \in Task, NEW s
      PROVE  ~Holds(t, s)' /\ ~Owes(t, s)'
  BY <1>1 DEF Holds, Owes
<1>3. \A s \in Sweeps : Held(s)' = 0 /\ Owed(s)' = 0
  BY <1>2 DEF Held, Owed, Count, Task
<1>4. TypeOK'
  <2>1. rawTopic' \subseteq RawMessages /\ corrTopic' \subseteq Correlations
    <3>1. /\ MayWait.raw \subseteq RawMessages /\ MayWait.corr \subseteq Correlations
          /\ Consumed.raw \subseteq RawMessages /\ Consumed.corr \subseteq Correlations
      BY DEF MayWait, Consumed, Elec, RawMessages, TypeOK
    <3>2. \A c, m : \A again \in Again(c, m) : again \subseteq m
      BY DEF Again
    <3>3. PICK waiting \in SUBSET MayWait.raw :
              \E again \in Again("raw", Consumed.raw \cup waiting) :
                 rawTopic' = (rawTopic \ waiting) \cup again
      BY DEF Forget
    <3>4. PICK held \in SUBSET MayWait.corr :
              \E again \in Again("corr", Consumed.corr \cup held) :
                 corrTopic' = (corrTopic \ held) \cup again
      BY DEF Forget
    <3> QED
      BY <3>1, <3>2, <3>3, <3>4 DEF TypeOK
  <2>2. /\ rawQueue' \in Seq(RawMessages) /\ Len(rawQueue') <= QUEUE_MAX
        /\ corrQueue' \in Seq(Correlations) /\ Len(corrQueue') <= QUEUE_MAX
        /\ pending' \in Seq([corr : Correlations, age : 0..(RETRY_LIMIT + 1),
                             late : BOOLEAN])
    BY BoundsAssumption DEF Forget
  <2>3. /\ pc' \in [Task -> Labels] /\ frame' \in [Task -> Frames]
        /\ at' \in [Task -> Nat] /\ done' \in [Task -> SUBSET Nat]
        /\ rawItem' \in RawMessages \cup {None}
    <3>1. Fresh(None) \in Frames
      BY DEF Fresh, Frames
    <3> QED
      BY <3>1 DEF Forget, Labels
  <2> QED
    BY <2>1, <2>2, <2>3 DEF TypeOK
<1>5. FrameOK' /\ DeletesPublished'
  BY <1>1 DEF FrameOK, DeletesPublished, Processing, Task
<1>6. JoinInv'
  <2>1. ElecOnly'
    BY <1>1 DEF JoinInv, ElecOnly, Forget, Task
  <2>2. FetchedInOrder' /\ JoinCorrect'
    BY <1>1 DEF JoinInv, FetchedInOrder, JoinCorrect
  <2> QED
    BY <2>1, <2>2 DEF JoinInv
<1>7. HoldsStored'
  BY <1>2 DEF HoldsStored
<1> QED
  BY <1>1, <1>3, <1>4, <1>5, <1>6, <1>7

(* What changes nothing of the service keeps what is said of it.           *)
LEMMA ServiceStutter == ServiceInv /\ UNCHANGED vars => ServiceInv'
<1> SUFFICES ASSUME ServiceInv, UNCHANGED vars PROVE ServiceInv'
  OBVIOUS
<1>1. JoinInv' /\ DeletesPublished' /\ HoldsStored'
  BY JoinStep, DeletesPublishedStep, HoldsStoredStep DEF ServiceInv
<1> QED
  BY <1>1, TypeStutter DEF ServiceInv

LEMMA CountsStutter ==
    ASSUME UNCHANGED vars, NEW s
    PROVE  Owed(s)' = Owed(s) /\ Held(s)' = Held(s)
  BY DEF vars, Owed, Held, Owes, Holds, Ids

(* Bounds that hold in the middle of a task hold when the task has gone,   *)
(* with two more publications excused.                                     *)
LEMMA BoundForgotten ==
    ASSUME ServiceInv, RestartTypeOK, StopBound, NEW s \in Sweeps,
           UNCHANGED <<redis, historyVars, faults>>,
           Held(s)' = 0, Owed(s)' = 0,
           stops' = stops + 1 \/ (stage # "up" /\ stops' = stops)
    PROVE  /\ Bound(s, 2 * stops)'
           /\ redis'[s] # None => published'[s] <= 2 * (stored'[s] - 1) + faults' + 2 * stops'
<1>1. /\ published[s] \in Nat /\ stored[s] \in Nat /\ faults \in Nat
      /\ Owed(s) \in 0..2 /\ Held(s) \in 0..2
  BY CountsAreNat DEF ServiceInv
<1>2. stops \in Nat
  BY MishapsAssumption DEF RestartTypeOK
<1>3. /\ Bound(s, 2 * stops)
      /\ (stage # "up" /\ redis[s] # None) =>
            published[s] <= 2 * (stored[s] - 1) + faults + 2 * stops
  BY DEF StopBound
<1>4. /\ redis' = redis /\ published' = published /\ stored' = stored /\ faults' = faults
  BY DEF historyVars
<1> QED
  BY <1>1, <1>2, <1>3, <1>4 DEF Bound

LEMMA CrashStep ==
    RestartInv /\ Crash => RestartInv'
<1> SUFFICES ASSUME RestartInv, Crash PROVE RestartInv'
  OBVIOUS
<1> USE DEF RestartInv, Crash, outsideVars
<1>1. /\ ServiceInv'
      /\ \A t \in Task : pc'[t] = "dead"
      /\ \A s \in Sweeps : Held(s)' = 0 /\ Owed(s)' = 0
  BY ForgetKeepsService
<1>2. rawQueue' = << >> /\ corrQueue' = << >> /\ pending' = << >>
  BY DEF Forget
<1>3. RestartTypeOK'
  <2>1. stops \in Nat /\ faults \in Nat /\ stops' \in 0..MAX_MISHAPS
    BY MishapsAssumption, BoundsAssumption DEF ServiceInv, TypeOK, RestartTypeOK
  <2> QED
    BY <1>1, <1>2, <2>1 DEF RestartTypeOK, ServiceInv, Clients
<1>4. StopBound'
  BY <1>1, BoundForgotten DEF StopBound
<1>5. CleanUpInv'
  BY <1>1 DEF CleanUpInv, StopsClean, Clients
<1> QED
  BY <1>1, <1>3, <1>4, <1>5

LEMMA InterruptStep ==
    RestartInv /\ Interrupt => RestartInv'
<1> SUFFICES ASSUME RestartInv, Interrupt PROVE RestartInv'
  OBVIOUS
<1> USE DEF RestartInv
<1>1. /\ stage = "up" /\ stops' = stops + 1 /\ closed' = closed
      /\ UNCHANGED <<redis, historyVars, faults>>
      /\ stops \in Nat /\ faults \in Nat /\ stops' \in 0..MAX_MISHAPS
  BY MishapsAssumption, BoundsAssumption DEF Interrupt, ServiceInv, TypeOK, RestartTypeOK
<1>2. CASE /\ pc["retry"] # "dead" /\ stage' = "producer"
           /\ UNCHANGED <<topicVars, memoryVars, failed>>
  <2>1. UNCHANGED vars /\ failed' = failed
    BY <1>1, <1>2 DEF vars, memoryVars
  <2>2. ServiceInv'
    BY <2>1, ServiceStutter DEF ServiceInv
  <2>3. RestartTypeOK'
    BY <1>1, <1>2, <2>1, <2>2 DEF RestartTypeOK, ServiceInv
  <2>4. StopBound'
    <3> SUFFICES ASSUME NEW s \in Sweeps
                 PROVE  /\ Bound(s, 2 * stops)'
                        /\ redis'[s] # None =>
                              published'[s] <= 2 * (stored'[s] - 1) + faults' + 2 * stops'
      BY DEF StopBound
    <3>1. /\ published[s] \in Nat /\ stored[s] \in Nat /\ faults \in Nat
          /\ Owed(s) \in 0..2 /\ Held(s) \in 0..2
      BY CountsAreNat DEF ServiceInv
    <3>2. Bound(s, 2 * stops)
      BY DEF StopBound
    <3>3. Owed(s)' = Owed(s) /\ Held(s)' = Held(s)
      BY <2>1, CountsStutter
    <3>4. redis' = redis /\ published' = published /\ stored' = stored /\ faults' = faults
      BY <1>1 DEF historyVars
    <3> QED
      BY <1>1, <3>1, <3>2, <3>3, <3>4 DEF Bound
  <2>5. CleanUpInv'
    BY <1>1, <1>2, <2>1 DEF CleanUpInv, StopsClean
  <2> QED
    BY <2>2, <2>3, <2>4, <2>5
<1>3. CASE /\ pc["retry"] = "dead" /\ Forget /\ stage' = "down" /\ failed' = {"retry"}
           /\ UNCHANGED redeliveries
  <2>1. /\ ServiceInv'
        /\ \A t \in Task : pc'[t] = "dead"
        /\ \A s \in Sweeps : Held(s)' = 0 /\ Owed(s)' = 0
    BY <1>1, <1>3, ForgetKeepsService
  <2>2. rawQueue' = << >> /\ corrQueue' = << >> /\ pending' = << >>
    BY <1>3 DEF Forget
  <2>3. RestartTypeOK'
    BY <1>1, <1>3, <2>1, <2>2 DEF RestartTypeOK, ServiceInv, Clients
  <2>4. StopBound'
    BY <1>1, <2>1, BoundForgotten DEF StopBound
  <2>5. CleanUpInv'
    BY <1>3, <2>1 DEF CleanUpInv, StopsClean
  <2> QED
    BY <2>1, <2>3, <2>4, <2>5
<1> QED
  BY <1>2, <1>3 DEF Interrupt

(* The tries of the clean-up but the last.                                 *)
LEMMA CloseStep ==
    RestartInv /\ (CloseProducer \/ CloseConsumers) => RestartInv'
<1> SUFFICES ASSUME RestartInv, CloseProducer \/ CloseConsumers PROVE RestartInv'
  OBVIOUS
<1> USE DEF RestartInv
<1>1. /\ UNCHANGED vars /\ stops' = stops
      /\ stage \in {"producer", "consumers"} /\ stage' \in {"consumers", "redis"}
  BY DEF CloseProducer, CloseConsumers, vars, memoryVars
<1>2. closed' \subseteq Clients /\ failed' \subseteq Clients \cup {"retry"}
  BY DEF CloseProducer, CloseConsumers, Cleaned, Raised, RestartTypeOK, Clients
<1>3. ServiceInv'
  BY <1>1, ServiceStutter
<1>4. RestartTypeOK'
  BY <1>1, <1>2, <1>3 DEF RestartTypeOK, ServiceInv
<1>5. StopBound'
  <2>1. ASSUME NEW s \in Sweeps
        PROVE  Bound(s, 2 * stops)' <=> Bound(s, 2 * stops)
    <3>1. Owed(s)' = Owed(s) /\ Held(s)' = Held(s)
      BY <1>1, CountsStutter
    <3> QED
      BY <1>1, <3>1 DEF Bound, vars, historyVars
  <2> QED
    BY <1>1, <2>1 DEF StopBound, vars, historyVars
<1>6. CleanUpInv'
  <2>1. CASE CloseProducer
    BY <2>1 DEF CloseProducer, Cleaned, Raised, CleanUpInv, StopsClean
  <2>2. CASE CloseConsumers
    BY <2>2 DEF CloseConsumers, Cleaned, Raised, CleanUpInv, StopsClean
  <2> QED
    BY <2>1, <2>2
<1> QED
  BY <1>3, <1>4, <1>5, <1>6

LEMMA CloseRedisStep ==
    RestartInv /\ CloseRedis => RestartInv'
<1> SUFFICES ASSUME RestartInv, CloseRedis PROVE RestartInv'
  OBVIOUS
<1> USE DEF RestartInv, CloseRedis, outsideVars
<1>1. /\ ServiceInv'
      /\ \A t \in Task : pc'[t] = "dead"
      /\ \A s \in Sweeps : Held(s)' = 0 /\ Owed(s)' = 0
  BY ForgetKeepsService
<1>2. rawQueue' = << >> /\ corrQueue' = << >> /\ pending' = << >>
  BY DEF Forget
<1>3. RestartTypeOK'
  BY <1>1, <1>2 DEF RestartTypeOK, ServiceInv, Clients, Cleaned, Raised
<1>4. StopBound'
  BY <1>1, BoundForgotten DEF StopBound
<1>5. CleanUpInv'
  BY <1>1 DEF CleanUpInv, StopsClean, Cleaned, Raised
<1> QED
  BY <1>1, <1>3, <1>4, <1>5

LEMMA StartStep ==
    RestartInv /\ Start => RestartInv'
<1> SUFFICES ASSUME RestartInv, Start PROVE RestartInv'
  OBVIOUS
<1> USE DEF RestartInv, Start
<1>1. /\ \A t \in Task : pc[t] = "dead"
      /\ \A t \in Task : pc'[t] \in {"loop", "sleep"}
      /\ UNCHANGED <<redis, historyVars, faults, stops>>
  BY DEF CleanUpInv, Task
<1>2. ASSUME NEW t \in Task, NEW s
      PROVE  /\ ~Holds(t, s) /\ ~Owes(t, s)
             /\ ~Holds(t, s)' /\ ~Owes(t, s)'
  BY <1>1 DEF Holds, Owes
<1>3. ServiceInv'
  <2> USE DEF ServiceInv
  <2>1. TypeOK'
    BY DEF TypeOK, topicVars, historyVars, Labels
  <2>2. FrameOK' /\ DeletesPublished'
    BY <1>1 DEF FrameOK, DeletesPublished, Processing, Task
  <2>3. JoinInv'
    BY <1>1 DEF JoinInv, ElecOnly, FetchedInOrder, JoinCorrect, historyVars, Task
  <2>4. HoldsStored'
    BY <1>2 DEF HoldsStored, historyVars
  <2> QED
    BY <2>1, <2>2, <2>3, <2>4
<1>4. RestartTypeOK'
  BY <1>3 DEF RestartTypeOK, ServiceInv
<1>5. StopBound'
  <2>1. ASSUME NEW s \in Sweeps
        PROVE  Bound(s, 2 * stops)' <=> Bound(s, 2 * stops)
    <3>1. Owed(s)' = Owed(s) /\ Held(s)' = Held(s)
      BY <1>2 DEF Owed, Held, Count, Task
    <3> QED
      BY <3>1 DEF Bound, historyVars
  <2> QED
    BY <2>1 DEF StopBound
<1>6. CleanUpInv'
  BY DEF CleanUpInv, StopsClean
<1> QED
  BY <1>3, <1>4, <1>5, <1>6

-----------------------------------------------------------------------------
(* A step of the running service.                                          *)

LEMMA RunningStep ==
    RestartInv /\ Running => RestartInv'
<1> SUFFICES ASSUME RestartInv, Running PROVE RestartInv'
  OBVIOUS
<1> USE DEF RestartInv, Running
<1>1. /\ Next /\ stage = "up" /\ UNCHANGED <<stage, closed, failed, stops>>
  BY DEF restartVars, stopVars
<1>2. ServiceInv'
  <2>1. TypeOK' /\ FrameOK'
    BY <1>1, TypeMain, TypeRetry, TypeEnvironment DEF Next, ServiceInv
  <2>2. JoinInv' /\ DeletesPublished' /\ HoldsStored'
    BY <1>1, JoinStep, DeletesPublishedStep, HoldsStoredStep DEF ServiceInv
  <2> QED
    BY <2>1, <2>2 DEF ServiceInv
<1>3. RestartTypeOK'
  BY <1>1, <1>2 DEF RestartTypeOK, ServiceInv
<1>4. StopBound'
  <2>1. stops \in Nat
    BY MishapsAssumption DEF RestartTypeOK
  <2>2. PICK e \in Nat : e = 2 * stops
    BY <2>1
  <2>3. e = 2 * stops'
    BY <1>1, <2>2
  <2>4. ASSUME NEW s \in Sweeps
        PROVE  Bound(s, e)'
    <3>1. Bound(s, e)
      BY <2>2 DEF StopBound, Bound
    <3> QED
      BY <1>1, <3>1, BoundStep DEF ServiceInv
  <2>5. ASSUME NEW s \in Sweeps
        PROVE  Bound(s, 2 * stops)'
    BY <2>3, <2>4 DEF Bound
  <2> QED
    BY <1>1, <2>5 DEF StopBound
<1>5. CleanUpInv'
  BY <1>1 DEF CleanUpInv, StopsClean
<1> QED
  BY <1>2, <1>3, <1>4, <1>5

LEMMA RestartInitial == RestartInit => RestartInv
<1> SUFFICES ASSUME RestartInit PROVE RestartInv
  OBVIOUS
<1> USE DEF RestartInit
<1>1. ServiceInv
  BY TypeInit, JoinInit, DeletesPublishedInit, HoldsStoredInit DEF ServiceInv
<1>2. RestartTypeOK /\ CleanUpInv
  BY <1>1, MishapsAssumption DEF RestartTypeOK, CleanUpInv, StopsClean, ServiceInv
<1>3. StopBound
  <2>1. \A s \in Sweeps : Bound(s, 0)
    BY <1>1, TwiceInit, TwiceIsBound DEF ServiceInv
  <2> QED
    BY <2>1 DEF StopBound, Bound
<1> QED
  BY <1>1, <1>2, <1>3 DEF RestartInv

(* Across interrupts, crashes and restarts the service keeps its types and *)
(* its invariants.                                                         *)
THEOREM RestartCorrect == RestartSpec => []RestartInv
<1>1. RestartInv /\ [RestartNext]_allVars => RestartInv'
  <2> SUFFICES ASSUME RestartInv, [RestartNext]_allVars
               PROVE  RestartInv'
    OBVIOUS
  <2>1. CASE UNCHANGED allVars
    <3>1. UNCHANGED vars /\ UNCHANGED <<stage, closed, failed, stops>>
      BY <2>1 DEF allVars, restartVars, stopVars
    <3>2. ServiceInv'
      BY <3>1, ServiceStutter DEF RestartInv
    <3>3. StopBound'
      <4>1. ASSUME NEW s \in Sweeps
            PROVE  Owed(s)' = Owed(s) /\ Held(s)' = Held(s)
        BY <3>1, CountsStutter
      <4> QED
        BY <3>1, <4>1 DEF RestartInv, StopBound, Bound, vars, historyVars
    <3>4. RestartTypeOK' /\ CleanUpInv'
      BY <3>1, <3>2 DEF RestartInv, RestartTypeOK, CleanUpInv, StopsClean, ServiceInv, vars
    <3> QED
      BY <3>2, <3>3, <3>4 DEF RestartInv
  <2> QED
    BY <2>1, RunningStep, CrashStep, InterruptStep, CloseStep, CloseRedisStep, StartStep
       DEF RestartNext, CleanUp
<1> QED
  BY <1>1, RestartInitial, PTL DEF RestartSpec

(* The stage of the clean-up and what is closed and failed have their      *)
(* types, and a service that is down holds no queue and no pending list.   *)
THEOREM RestartTypeCorrect == RestartSpec => []RestartTypeOK
<1>1. RestartInv => RestartTypeOK
  BY DEF RestartInv
<1> QED
  BY <1>1, RestartCorrect, PTL

(* An electrical message leaves the topic for the queue, the queue for the *)
(* hands of the main loop, and these for Redis.                            *)
LEMMA KeptRunning ==
    ASSUME ServiceInv, Next, NEW s \in Sweeps, Elec(s) \in OnTheWay
    PROVE  Elec(s) \in OnTheWay' \/ stored'[s] > stored[s] \/ faults' > faults
<1> USE DEF ServiceInv
<1> DEFINE Goal == Elec(s) \in OnTheWay' \/ stored'[s] > stored[s] \/ faults' > faults
           Remembered ==
               Elements(rawQueue) \cup (IF pc["main"] = "store" THEN {rawItem} ELSE {})
<1> SUFFICES Goal
  OBVIOUS
<1>r. OnTheWay = rawTopic \cup Remembered /\ OnTheWay' = rawTopic' \cup Remembered'
  BY DEF OnTheWay
<1>0. /\ stored[s] \in Nat /\ faults \in Nat /\ rawQueue \in Seq(RawMessages)
      /\ stored \in [Sweeps -> Nat] /\ pc \in [Task -> Labels]
  BY BoundsAssumption DEF TypeOK
<1>1. ASSUME rawTopic \subseteq rawTopic' \cup Remembered', Remembered \subseteq Remembered'
      PROVE  Goal
  BY <1>1, <1>r
<1>2. ASSUME Fault PROVE Goal
  BY <1>0, <1>2 DEF Fault
<1>3. CASE TakeRaw
  <2>1. /\ rawQueue # << >> /\ rawItem' = Head(rawQueue) /\ rawQueue' = Tail(rawQueue)
        /\ pc["main"] = "loop" /\ pc'["main"] = "store"
        /\ UNCHANGED <<rawTopic, stored, faults>>
    BY <1>0, <1>3 DEF TakeRaw, Goto, Task, topicVars, historyVars
  <2>2. Elements(rawQueue) \subseteq {rawItem'} \cup Elements(rawQueue')
    <3> SUFFICES ASSUME NEW i \in 1..Len(rawQueue)
                 PROVE  rawQueue[i] \in {rawItem'} \cup Elements(rawQueue')
      BY DEF Elements
    <3>1. CASE i = 1
      BY <1>0, <2>1, <3>1
    <3>2. CASE i # 1
      <4>1. i - 1 \in 1..Len(rawQueue') /\ rawQueue'[i - 1] = rawQueue[i]
        BY <1>0, <2>1, <3>2, HeadTailProperties
      <4> QED
        BY <4>1 DEF Elements
    <3> QED
      BY <3>1, <3>2
  <2>3. Remembered = Elements(rawQueue) /\ Remembered' = Elements(rawQueue)' \cup {rawItem'}
    BY <2>1 DEF Remembered
  <2>4. Elements(rawQueue)' = Elements(rawQueue')
    BY DEF Elements
  <2> QED
    BY <1>1, <2>1, <2>2, <2>3, <2>4
<1>4. ASSUME NEW m \in RawMessages, ConsumeRaw(m)
      PROVE  Goal
  <2>1. /\ rawTopic' = rawTopic \ {m} /\ rawQueue' = Append(rawQueue, m)
        /\ UNCHANGED <<stored, faults, pc, rawItem>>
    BY <1>4 DEF ConsumeRaw, historyVars
  <2>2. Elements(rawQueue) \cup {m} \subseteq Elements(rawQueue')
    <3>1. /\ Len(rawQueue') = Len(rawQueue) + 1
          /\ rawQueue'[Len(rawQueue) + 1] = m
          /\ \A i \in 1..Len(rawQueue) : rawQueue'[i] = rawQueue[i]
      BY <1>0, <2>1, AppendProperties
    <3>2. Len(rawQueue) \in Nat
      BY <1>0
    <3> QED
      BY <3>1, <3>2 DEF Elements
  <2>3. Elements(rawQueue)' = Elements(rawQueue')
    BY DEF Elements
  <2> QED
    BY <1>1, <2>1, <2>2, <2>3 DEF Remembered
<1>5. CASE StoreRaw
  <2>1. rawItem = Elec(rawItem.sweeps_id) /\ rawItem.sweeps_id \in Sweeps
    BY <1>5 DEF StoreRaw, FrameOK, JoinInv, ElecOnly, RawMessages, Elec
  <2>2. /\ stored' = [stored EXCEPT ![rawItem.sweeps_id] = @ + 1]
        /\ UNCHANGED <<rawTopic, rawQueue, faults>>
    BY <1>5 DEF StoreRaw, callerVars, topicVars
  <2>3. CASE rawItem.sweeps_id = s
    BY <1>0, <2>2, <2>3
  <2>4. CASE rawItem.sweeps_id # s
    <3>1. Elec(s) # rawItem
      BY <2>4 DEF Elec
    <3>2. stored'[s] = stored[s] /\ Elements(rawQueue)' = Elements(rawQueue)
      BY <1>0, <2>1, <2>2, <2>4 DEF Elements
    <3> QED
      BY <1>r, <2>2, <3>1, <3>2
  <2> QED
    BY <2>3, <2>4
<1>6. ASSUME NEW m \in RawMessages, SkipRaw(m)
      PROVE  Goal
  <2>1. m # Elec(s) /\ rawTopic' = rawTopic \ {m}
        /\ UNCHANGED <<rawQueue, rawItem, pc, stored, faults>>
    BY <1>6 DEF SkipRaw, Elec, historyVars
  <2>2. Remembered' = Remembered
    BY <2>1 DEF Remembered, Elements
  <2> QED
    BY <1>r, <2>1, <2>2
<1>7. ASSUME rawTopic \subseteq rawTopic', UNCHANGED <<rawQueue, stored, faults>>,
             pc["main"] # "store" \/ (pc'["main"] = "store" /\ rawItem' = rawItem)
      PROVE  Goal
  BY <1>1, <1>7 DEF Remembered, Elements
<1>8. CASE Environment
  <2>1. ASSUME NEW c \in Correlations, ConsumeCorr(c)
        PROVE  Goal
    BY <1>7, <2>1 DEF ConsumeCorr, historyVars
  <2>2. ASSUME DropMessage PROVE Goal
    BY <1>2, <2>2 DEF DropMessage
  <2>3. CASE Redeliver \/ Tick
    BY <1>7, <2>3 DEF Redeliver, Tick, historyVars, topicVars
  <2> QED
    BY <1>4, <1>6, <1>8, <2>1, <2>2, <2>3 DEF Environment
<1>9. CASE ScanPending \/ MainReturnsRaw \/ TakeCorr \/ MainReturnsCorr
  <2>1. pc["main"] # "store" /\ UNCHANGED <<rawTopic, rawQueue, stored, faults>>
    BY <1>9 DEF ScanPending, MainReturnsRaw, TakeCorr, MainReturnsCorr, topicVars,
       historyVars
  <2> QED
    BY <1>7, <2>1
<1>10. CASE RetryPass \/ RetryReturns
  <2>1. UNCHANGED <<rawTopic, rawQueue, stored, faults>>
    BY <1>10 DEF RetryPass, RetryReturns, topicVars, historyVars
  <2>2. pc'["main"] = pc["main"] /\ rawItem' = rawItem
    BY <1>0, <1>10 DEF RetryPass, RetryReturns, ContinueRetry, Raise, Call, Goto, Task
  <2> QED
    BY <1>7, <2>1, <2>2
<1>11. ASSUME NEW t \in Task, ProcessCorrelationPair(t)
       PROVE  Goal
  <2>1. /\ UNCHANGED <<rawTopic, rawQueue, stored>> /\ (faults' = faults \/ Fault)
        /\ pc[t] \in {"check", "fetch", "compute", "delete"}
    BY <1>11 DEF ProcessCorrelationPair, CheckAvailability, CheckFails, FetchRaw, FetchGone,
       FetchFails, CombineFails, ConvertAndPublish, PublishFails, PublishUnacknowledged,
       Publish, DeleteRaw, DeleteFails, callerVars, topicVars, historyVars
  <2>2. CASE t = "main"
    BY <1>2, <1>7, <2>1, <2>2
  <2>3. CASE t = "retry"
    <3>1. pc'["main"] = pc["main"]
      BY <1>11, <2>3, OtherTaskKept DEF Task
    <3>2. rawItem' = rawItem
      BY <1>11, <2>3 DEF ProcessCorrelationPair, CheckAvailability, CheckFails, FetchRaw,
         FetchGone, FetchFails, CombineFails, Raise, ConvertAndPublish, PublishFails,
         PublishUnacknowledged, DeleteRaw, DeleteFails, callerVars
    <3> QED
      BY <1>2, <1>7, <2>1, <3>1, <3>2
  <2> QED
    BY <2>2, <2>3 DEF Task
<1>12. ASSUME StoreFails PROVE Goal
  BY <1>2, <1>12 DEF StoreFails
<1> QED
  BY <1>3, <1>5, <1>8, <1>9, <1>10, <1>11, <1>12, SplitNext DEF CallerStep

(* Whatever the queue and the clean-up do, each delivery of electrical     *)
(* data is stored before the service forgets it, but for failures and the  *)
(* end of the process.                                                     *)
THEOREM ElecForgottenOnlyAtStops == RestartSpec => OnlyStopsForget
<1>1. RestartInv /\ [RestartNext]_allVars => [ElecKept]_allVars
  <2> SUFFICES ASSUME RestartInv, RestartNext, NEW s \in Sweeps,
                      Elec(s) \in OnTheWay, Elec(s) \notin OnTheWay'
               PROVE  stored'[s] > stored[s] \/ faults' > faults \/ stage' = "down"
    BY DEF ElecKept
  <2>1. CASE Running
    BY <2>1, KeptRunning DEF Running, RestartInv
  <2>2. CASE Start
    BY <2>2 DEF Start, OnTheWay, Elements, RestartInv, CleanUpInv, Task, topicVars
  <2>3. ASSUME UNCHANGED <<topicVars, memoryVars>> PROVE FALSE
    BY <2>3 DEF topicVars, memoryVars, OnTheWay, Elements
  <2> QED
    BY <2>1, <2>2, <2>3 DEF RestartNext, CleanUp, Crash, Interrupt, CloseProducer,
       CloseConsumers, CloseRedis
<1> QED
  BY <1>1, RestartCorrect, PTL DEF RestartSpec, OnlyStopsForget

(* When the process has gone down, every client was closed or its closing  *)
(* failed.                                                                 *)
THEOREM CleanUpTriesAll == RestartSpec => []StopsClean
<1>1. RestartInv => StopsClean
  BY DEF RestartInv, CleanUpInv
<1> QED
  BY <1>1, RestartCorrect, PTL

-----------------------------------------------------------------------------
(* Every step of the restarted service is a step of StreamJoin or none: an *)
(* end of the process is a mishap of two, the rest of the clean-up and the *)
(* next start are nothing (the finally of run_conversion_service; Redis    *)
(* keeps what store_raw put there).                                        *)
THEOREM RestartImplements == RestartSpec => ImplementsStreamJoinAcrossStops
<1>1. RestartInit => Lives!Init
  BY DEF RestartInit, Init, Lives!Init
<1>2. ASSUME RestartInv, RestartInv', [RestartNext]_allVars
      PROVE  [Lives!Next]_(Lives!svars)
  <2> USE DEF Lives!svars
  <2>0. faults \in Nat /\ stops \in Nat
    BY <1>2, BoundsAssumption, MishapsAssumption
       DEF RestartInv, ServiceInv, TypeOK, RestartTypeOK
  <2>1. CASE UNCHANGED <<redis, historyVars, faults, stops>>
    BY <2>1 DEF historyVars
  <2>2. CASE UNCHANGED <<redis, historyVars, faults>> /\ stops' = stops + 1
    BY <2>0, <2>2 DEF historyVars, Lives!Next, Lives!Mishap
  <2>3. CASE Running
    <3>0. Next /\ stops' = stops
      BY <2>3 DEF Running, restartVars
    <3>1. DataStep
      BY <1>2, <3>0, SplitNext, CallerDataStep, ProcessDataStep
         DEF RestartInv, ServiceInv, JoinInv
    <3>2. CASE Unseen
      BY <2>0, <3>0, <3>2 DEF Unseen, historyVars, Lives!Next, Lives!Mishap
    <3>3. CASE Elapses
      BY <3>0, <3>3 DEF Elapses, historyVars, KeyLife, Lives!Next, Lives!Elapse
    <3>4. ASSUME NEW s \in Sweeps, Arrives(s)
          PROVE  Lives!Next
      BY <3>0, <3>4 DEF Arrives, KeyLife, Lives!Next, Lives!Arrive
    <3>5. ASSUME NEW s \in Sweeps, Frees(s)
          PROVE  Lives!Next
      BY <3>0, <3>5 DEF Frees, historyVars, KeyLife, Lives!Next, Lives!Free
    <3>6. ASSUME NEW c \in Correlations, Pairs(c)
          PROVE  Lives!Pair(c)
      <4>1. \A k \in 1..Len(SweepsIds[c]) : SweepsIds[c][k] \in Sweeps
        BY SweepsIdsAssumption
      <4>2. Lives!Named(c) = Correlated(c) /\ Correlated(c) \subseteq Sweeps
        BY <4>1 DEF Lives!Named, Correlated
      <4>3. Lives!Paired(c) = [key |-> SweepsIds[c][Len(SweepsIds[c])], corr |-> c,
                elec |-> [k \in 1..Len(SweepsIds[c]) |-> Elec(SweepsIds[c][k])]]
        BY <4>1 DEF Lives!Paired
      <4>4. \A s \in Correlated(c) :
                published'[s] <= 2 * stored'[s] + (faults' + 2 * stops')
        <5> SUFFICES ASSUME NEW s \in Sweeps
                     PROVE  published'[s] <= 2 * stored'[s] + (faults' + 2 * stops')
          BY <4>2
        <5>1. /\ Bound(s, 2 * stops)' /\ stops' \in Nat
          BY <1>2, <2>0, <3>0 DEF RestartInv, StopBound
        <5>2. /\ published'[s] \in Nat /\ stored'[s] \in Nat /\ faults' \in Nat
          BY <1>2, BoundsAssumption DEF RestartInv, ServiceInv, TypeOK
        <5>3. Owed(s)' \in 0..2 /\ Held(s)' \in 0..2
          BY DEF Owed, Held, Count
        <5> QED
          BY <5>1, <5>2, <5>3 DEF Bound
      <4>5. faults' + 2 * stops' \in {faults + 2 * stops, faults + 2 * stops + 1}
        <5>1. (faults' = faults \/ faults' = faults + 1) /\ stops' = stops
          BY <3>0, <3>6 DEF Pairs
        <5> QED
          BY <2>0, <5>1
      <4> QED
        BY <3>6, <4>2, <4>3, <4>4, <4>5 DEF Pairs, KeyLife, Lives!Pair
    <3> QED
      BY <3>1, <3>2, <3>3, <3>4, <3>5, <3>6 DEF DataStep, Lives!Next
  <2>4. CASE RestartNext /\ ~Running
    BY <2>1, <2>2, <2>4 DEF RestartNext, Crash, Interrupt, CleanUp, CloseProducer,
       CloseConsumers, CloseRedis, Start, outsideVars
  <2>5. CASE UNCHANGED allVars
    BY <2>1, <2>5 DEF allVars, vars, restartVars
  <2> QED
    BY <1>2, <2>3, <2>4, <2>5
<1> QED
  BY <1>1, <1>2, RestartCorrect, PTL
     DEF RestartSpec, ImplementsStreamJoinAcrossStops, Lives!Spec
=============================================================================
