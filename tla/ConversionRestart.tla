--------------------------- MODULE ConversionRestart ---------------------------
(***************************************************************************)
(* The conversion service with the end of its process: an interrupt, after *)
(* which run_conversion_service cleans up, or a crash, after which nothing *)
(* does; and the next start.  Redis and Kafka outlive the process; the two *)
(* queues, the pending correlations and the locals of the tasks do not.    *)
(*                                                                         *)
(* The consumers commit their offsets on their own, whether or not what    *)
(* they have handed to the event loop was processed, and once more when    *)
(* they are closed.  So any set of consumed messages may be uncommitted    *)
(* when the process crashes, and none is when its consumer was closed.     *)
(* A put that waits for room, or for its turn of the event loop, ends with *)
(* the process like the queue it waits for.                                *)
(***************************************************************************)
EXTENDS ConversionService

CONSTANT MAX_MISHAPS   \* bound: ends of the process and failures, together
ASSUME MishapsAssumption == MAX_MISHAPS \in Nat

VARIABLES
    stage,             \* "up", the next step of the clean-up, or "down"
    closed,            \* what the clean-up has closed
    failed,            \* what went wrong in the clean-up
    stops              \* ends of the process so far

stopVars == <<stage, closed, failed>>
restartVars == <<stopVars, stops>>
allVars == <<vars, restartVars>>

Clients == {"producer", "raw", "corr", "redis"}

RestartTypeOK ==
    /\ TypeOK
    /\ stage \in {"up", "producer", "consumers", "redis", "down"}
    /\ closed \subseteq Clients
    /\ failed \subseteq Clients \cup {"retry"}
    /\ stops \in 0..MAX_MISHAPS
    /\ stage = "down" => rawQueue = << >> /\ corrQueue = << >> /\ pending = << >>

RestartInit ==
    /\ Init
    /\ stage = "up"
    /\ closed = {}
    /\ failed = {}
    /\ stops = 0

(* Messages that were consumed and are handed on; one that is not          *)
(* electrical would only be skipped again.                                 *)
Consumed ==
    [raw |-> {Elec(s) : s \in Sweeps} \ rawTopic, corr |-> Correlations \ corrTopic]

(* Messages still counted in the topics may be consumed too: their put is  *)
(* scheduled, nobody awaits it.                                            *)
MayWait == [raw |-> {m \in rawTopic : m.type = "elec"}, corr |-> corrTopic]

(* What Kafka delivers again of the messages a consumer has consumed.      *)
Again(consumer, consumed) == IF consumer \in closed THEN {{}} ELSE SUBSET consumed

(* The process is gone, with the puts that wait.                           *)
Forget ==
    /\ \E waiting \in SUBSET MayWait.raw :
          \E again \in Again("raw", Consumed.raw \cup waiting) :
             rawTopic' = (rawTopic \ waiting) \cup again
    /\ \E waiting \in SUBSET MayWait.corr :
          \E again \in Again("corr", Consumed.corr \cup waiting) :
             corrTopic' = (corrTopic \ waiting) \cup again
    /\ rawQueue' = << >> /\ corrQueue' = << >> /\ pending' = << >>
    /\ rawItem' = None
    /\ pc' = [t \in Task |-> "dead"]
    /\ frame' = [t \in Task |-> Fresh(None)]
    /\ at' = [t \in Task |-> 0]
    /\ done' = [t \in Task |-> {}]

outsideVars == <<redeliveries, redis, historyVars>>
memoryVars == <<rawQueue, corrQueue, pending, pc, frame, at, done, rawItem>>

Crash ==
    /\ stage # "down" /\ stops + faults < MAX_MISHAPS
    /\ stops' = stops + 1
    /\ Forget
    /\ stage' = "down"
    /\ failed' = Clients \ closed
    /\ UNCHANGED <<outsideVars, closed, faults>>

(* The first Ctrl-C cancels the main task at the await where it is, and    *)
(* the clean-up cancels the retry task.  If that task is dead already,     *)
(* "await retry_task" raises what killed it and the clean-up ends there.   *)
Interrupt ==
    /\ stage = "up" /\ stops + faults < MAX_MISHAPS
    /\ stops' = stops + 1
    /\ \/ /\ pc["retry"] # "dead"
          /\ stage' = "producer"
          /\ UNCHANGED <<topicVars, memoryVars, failed>>
       \/ /\ pc["retry"] = "dead"
          /\ Forget
          /\ stage' = "down"
          /\ failed' = {"retry"}
          /\ UNCHANGED redeliveries
    /\ UNCHANGED <<redis, historyVars, closed, faults>>

(* One try of the clean-up that succeeds or raises; what it raises is      *)
(* swallowed.                                                              *)
Cleaned(clients) == closed' = closed \cup clients /\ UNCHANGED failed
Raised(clients, c) ==
    /\ closed' = closed \cup clients
    /\ failed' = failed \cup {c}

(* Mutant of CloseProducer: what the flush raises is not caught.           *)
CloseProducerRaises ==
    /\ stage = "producer"
    /\ \/ Cleaned({"producer"}) /\ stage' = "consumers"
          /\ UNCHANGED <<topicVars, memoryVars>>
       \/ Raised({}, "producer") /\ stage' = "down"
          /\ Forget /\ UNCHANGED redeliveries
    /\ UNCHANGED <<redis, historyVars, faults, stops>>

(* flush and close.  The shutdown of the process pool that follows always  *)
(* raises, for it takes no timeout; that is swallowed too.                 *)
CloseProducer ==
    /\ stage = "producer"
    /\ Cleaned({"producer"}) \/ Raised({}, "producer")
    /\ stage' = "consumers"
    /\ UNCHANGED <<topicVars, redis, historyVars, memoryVars, faults, stops>>

CloseConsumers ==
    /\ stage = "consumers"
    /\ Cleaned({"raw", "corr"}) \/ Raised({}, "raw") \/ Raised({"raw"}, "corr")
    /\ stage' = "redis"
    /\ UNCHANGED <<topicVars, redis, historyVars, memoryVars, faults, stops>>

(* The last step, outside any try.                                         *)
CloseRedis ==
    /\ stage = "redis"
    /\ Cleaned({"redis"}) \/ Raised({}, "redis")
    /\ stage' = "down"
    /\ Forget
    /\ UNCHANGED <<outsideVars, faults, stops>>

(* run_conversion_service begins again with empty queues and an empty list.*)
Start ==
    /\ stage = "down"
    /\ stage' = "up"
    /\ closed' = {}
    /\ failed' = {}
    /\ pc' = [t \in Task |-> IF t = "main" THEN "loop" ELSE "sleep"]
    /\ UNCHANGED <<topicVars, rawQueue, corrQueue, redis, pending, frame, at, done,
                   rawItem, historyVars, faults, stops>>

(* What a consumer thread hands over during the clean-up it could as well  *)
(* have handed over before it, and time that passes while the process is   *)
(* down can pass after its start: neither is a step of its own.            *)
Running ==
    /\ stage = "up"
    /\ Next
    /\ stops + faults' <= MAX_MISHAPS
    /\ UNCHANGED restartVars

CleanUp == CloseProducer \/ CloseConsumers \/ CloseRedis

RestartNext == Running \/ Crash \/ Interrupt \/ CleanUp \/ Start

RestartSpec == RestartInit /\ [][RestartNext]_allVars

-----------------------------------------------------------------------------
(* The promise of StreamJoin survives restarts: what is converted after    *)
(* one from data of before it is still the right pair, and each restart    *)
(* costs at most one more publication by each of the two tasks, which may  *)
(* have published without deleting (store_raw keeps the data in Redis, the *)
(* consumers read uncommitted messages again).                             *)
Lives == INSTANCE StreamJoin WITH
            Data <- [s \in Sweeps |-> Elec(s)],
            LIFE <- REDIS_TTL,
            life <- [s \in Sweeps |-> IF redis[s] = None THEN 0 ELSE redis[s].ttl],
            arrived <- stored,
            used <- published,
            mishaps <- faults + 2 * stops,
            output <- conversionTopic
ImplementsStreamJoinAcrossStops == Lives!Spec

Elements(q) == {q[i] : i \in 1..Len(q)}

(* Messages on the topic, in a put, in the queue or in the hands of the    *)
(* main loop.                                                              *)
OnTheWay ==
    rawTopic \cup Elements(rawQueue) \cup (IF pc["main"] = "store" THEN {rawItem} ELSE {})

(* Each delivery of electrical data stays on its way until it is stored:   *)
(* only a failure or the end of the process makes the service forget one,  *)
(* however full the queue is and whatever the clean-up is doing            *)
(* (consume_to_queue_in_thread, run_conversion_service, store_raw).        *)
ElecKept ==
    \A s \in Sweeps : Elec(s) \in OnTheWay /\ Elec(s) \notin OnTheWay' =>
        stored'[s] > stored[s] \/ faults' > faults \/ stage' = "down"
OnlyStopsForget == [][ElecKept]_allVars

(* Every client is closed when the process has gone down, unless its own   *)
(* close failed: one failing step of the clean-up does not keep the others *)
(* from being tried, but for the two consumers, which share a try, and for *)
(* a retry task that had died (the finally of run_conversion_service).     *)
StopsClean ==
    (stage = "down" /\ "retry" \notin failed) =>
        /\ {"producer", "raw", "redis"} \subseteq closed \cup failed
        /\ "corr" \in closed \cup failed \/ "raw" \in failed
=============================================================================
