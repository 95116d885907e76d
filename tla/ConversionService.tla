-------------------------- MODULE ConversionService --------------------------
(***************************************************************************)
(* The conversion service: it joins the electrical data of a sweep, which  *)
(* arrives on one Kafka topic and waits in Redis, with the correlation of  *)
(* that sweep, which arrives on another topic and waits in a Python list,  *)
(* and publishes the converted result.                                     *)
(*                                                                         *)
(* Two asyncio tasks share the list: "main" (run_conversion_service) and   *)
(* "retry" (periodic_retry_correlations).  They run on one event loop, so  *)
(* they interleave only at an await.  Every Redis command is an await, and *)
(* one action here is one command together with the task's own work up to  *)
(* the next await; the return to a caller that touches the shared list is  *)
(* an action of its own.                                                   *)
(***************************************************************************)
EXTENDS Integers, Sequences, FiniteSets

CONSTANTS
    Sweeps,            \* sweep identifiers
    Correlations,      \* correlation arrays, one Kafka message each
    SweepsIds,         \* the sweep ids in the headers of each correlation
    REDIS_TTL,         \* life of a key in Redis, in ticks
    EXPIRY_MARGIN,     \* the 60 s a pending correlation expires before a key
    QUEUE_MAX,         \* maxsize of the two asyncio queues
    MAX_REDELIVERIES,  \* bound: messages Kafka delivers again
    MAX_FAULTS,        \* bound: failed commands, sends and deserialisations
    None               \* Python's None

Correlated(c) == {SweepsIds[c][k] : k \in 1..Len(SweepsIds[c])}

ASSUME SweepsIdsAssumption ==
    /\ SweepsIds \in [Correlations -> Seq(Sweeps)]
    /\ \A c \in Correlations : SweepsIds[c] # << >>
ASSUME TimesAssumption ==
    /\ REDIS_TTL \in Nat \ {0}
    /\ EXPIRY_MARGIN \in 0..REDIS_TTL
ASSUME BoundsAssumption ==
    /\ QUEUE_MAX \in Nat \ {0}
    /\ MAX_REDELIVERIES \in Nat
    /\ MAX_FAULTS \in Nat
ASSUME NoneAssumption ==
    /\ None \notin Correlations
    /\ None \notin [type : {"raw", "elec"}, sweeps_id : Sweeps]
    /\ None \notin [msg : [type : {"raw", "elec"}, sweeps_id : Sweeps],
                    ttl : 1..REDIS_TTL]

Task == {"main", "retry"}

(* The DAQ producer sends two messages for each sweep, told apart by the   *)
(* header "type"; a message also stands for the array it carries.          *)
RawMessages == [type : {"raw", "elec"}, sweeps_id : Sweeps]
Elec(s) == [type |-> "elec", sweeps_id |-> s]

RETRY_LIMIT == REDIS_TTL - EXPIRY_MARGIN

VARIABLES
    rawTopic,         \* raw topic messages the service has not queued yet
    corrTopic,        \* correlation topic messages not queued yet
    redeliveries,     \* messages delivered again so far
    rawQueue,         \* asyncio queue filled by the raw consumer thread
    corrQueue,        \* asyncio queue filled by the correlation thread
    redis,            \* the key sweeps:<id>: its value and its ttl, or None
    pending,          \* pending_correlations
    pc,               \* where each task is suspended
    frame,            \* locals of each task's process_correlation_pair
    at,               \* the position of each task's enumerate; 0 outside it
    done,             \* each task's processed_indices
    rawItem,          \* the raw item the main loop is handling
    conversionTopic,  \* what has been published
    published,        \* history: publications of each sweep's data
    stored,           \* history: successful stores of each sweep's data
    faults            \* failures so far

topicVars == <<rawTopic, corrTopic, redeliveries>>
historyVars == <<conversionTopic, published, stored>>
vars == <<topicVars, rawQueue, corrQueue, redis, pending, pc, frame, at, done,
          rawItem, historyVars, faults>>

(* Locals of process_correlation_pair: the loop position k, whether some   *)
(* sweep was missing, and the arrays fetched so far.                       *)
Frames == [corr : Correlations \cup {None}, k : Nat \ {0}, missing : BOOLEAN,
           elec : Seq(RawMessages)]
Fresh(c) == [corr |-> c, k |-> 1, missing |-> FALSE, elec |-> << >>]

Ids(t) == SweepsIds[frame[t].corr]
LastId(t) == frame[t].k = Len(Ids(t))
NextK(t) == IF LastId(t) THEN 1 ELSE frame[t].k + 1
CurrentId(t) == Ids(t)[frame[t].k]

Labels == {"loop", "store", "scan", "sleep", "dead", "check", "fetch",
           "compute", "delete", "success", "failure"}

(* A pending correlation: its age, and whether it was past the limit when  *)
(* the current retry pass read the clock.                                  *)
Pending(c) == [corr |-> c, age |-> 0, late |-> FALSE]

TypeOK ==
    /\ rawTopic \subseteq RawMessages
    /\ corrTopic \subseteq Correlations
    /\ redeliveries \in 0..MAX_REDELIVERIES
    /\ rawQueue \in Seq(RawMessages) /\ Len(rawQueue) <= QUEUE_MAX
    /\ corrQueue \in Seq(Correlations) /\ Len(corrQueue) <= QUEUE_MAX
    /\ redis \in [Sweeps -> [msg : RawMessages, ttl : 1..REDIS_TTL] \cup {None}]
    /\ pending \in Seq([corr : Correlations, age : 0..(RETRY_LIMIT + 1),
                        late : BOOLEAN])
    /\ pc \in [Task -> Labels]
    /\ frame \in [Task -> Frames]
    /\ at \in [Task -> Nat]
    /\ done \in [Task -> SUBSET Nat]
    /\ rawItem \in RawMessages \cup {None}
    /\ conversionTopic \subseteq [key : Sweeps, corr : Correlations,
                                  elec : Seq(RawMessages)]
    /\ published \in [Sweeps -> Nat]
    /\ stored \in [Sweeps -> Nat]
    /\ faults \in 0..MAX_FAULTS

Init ==
    /\ rawTopic = RawMessages
    /\ corrTopic = Correlations
    /\ redeliveries = 0
    /\ rawQueue = << >>
    /\ corrQueue = << >>
    /\ redis = [s \in Sweeps |-> None]
    /\ pending = << >>
    /\ pc = [t \in Task |-> IF t = "main" THEN "loop" ELSE "sleep"]
    /\ frame = [t \in Task |-> Fresh(None)]
    /\ at = [t \in Task |-> 0]
    /\ done = [t \in Task |-> {}]
    /\ rawItem = None
    /\ conversionTopic = {}
    /\ published = [s \in Sweeps |-> 0]
    /\ stored = [s \in Sweeps |-> 0]
    /\ faults = 0

Fault == faults < MAX_FAULTS /\ faults' = faults + 1

-----------------------------------------------------------------------------
(* Kafka and the two consumer threads.  A thread never waits for the put   *)
(* it schedules, so a message whose put waits for room is still counted in *)
(* the topic; partitions and waiting puts impose no order between messages.*)

SkipRaw(m) ==
    /\ m \in rawTopic /\ m.type # "elec"
    /\ rawTopic' = rawTopic \ {m}
    /\ UNCHANGED <<corrTopic, redeliveries, rawQueue, corrQueue, redis, pending,
                   pc, frame, at, done, rawItem, historyVars, faults>>

(* Mutants of ConsumeRaw: no maxsize; no look at the header "type".        *)
ConsumeRawUnbounded(m) ==
    /\ m \in rawTopic /\ m.type = "elec"
    /\ rawTopic' = rawTopic \ {m}
    /\ rawQueue' = Append(rawQueue, m)
    /\ UNCHANGED <<corrTopic, redeliveries, corrQueue, redis, pending, pc,
                   frame, at, done, rawItem, historyVars, faults>>
ConsumeRawAnyType(m) ==
    /\ m \in rawTopic /\ Len(rawQueue) < QUEUE_MAX
    /\ rawTopic' = rawTopic \ {m}
    /\ rawQueue' = Append(rawQueue, m)
    /\ UNCHANGED <<corrTopic, redeliveries, corrQueue, redis, pending, pc,
                   frame, at, done, rawItem, historyVars, faults>>

(* Mutant of ConsumeRaw: the thread uses put_nowait, whose QueueFull is    *)
(* swallowed.                                                              *)
ConsumeRawNoWait(m) ==
    /\ m \in rawTopic /\ m.type = "elec"
    /\ rawTopic' = rawTopic \ {m}
    /\ rawQueue' = IF Len(rawQueue) < QUEUE_MAX THEN Append(rawQueue, m) ELSE rawQueue
    /\ UNCHANGED <<corrTopic, redeliveries, corrQueue, redis, pending, pc,
                   frame, at, done, rawItem, historyVars, faults>>

ConsumeRaw(m) ==
    /\ m \in rawTopic /\ m.type = "elec"
    /\ Len(rawQueue) < QUEUE_MAX
    /\ rawTopic' = rawTopic \ {m}
    /\ rawQueue' = Append(rawQueue, m)
    /\ UNCHANGED <<corrTopic, redeliveries, corrQueue, redis, pending, pc,
                   frame, at, done, rawItem, historyVars, faults>>

ConsumeCorr(c) ==
    /\ c \in corrTopic
    /\ Len(corrQueue) < QUEUE_MAX
    /\ corrTopic' = corrTopic \ {c}
    /\ corrQueue' = Append(corrQueue, c)
    /\ UNCHANGED <<rawTopic, redeliveries, rawQueue, redis, pending, pc, frame,
                   at, done, rawItem, historyVars, faults>>

(* deserialize_array raises: the message is logged and lost.               *)
DropMessage ==
    /\ Fault
    /\ \/ /\ \E m \in rawTopic : m.type = "elec" /\ rawTopic' = rawTopic \ {m}
          /\ UNCHANGED corrTopic
       \/ /\ \E c \in corrTopic : corrTopic' = corrTopic \ {c}
          /\ UNCHANGED rawTopic
    /\ UNCHANGED <<redeliveries, rawQueue, corrQueue, redis, pending, pc, frame,
                   at, done, rawItem, historyVars>>

(* A producer that retries a send, or a rebalance before the offsets are   *)
(* committed, makes Kafka deliver a message again.                         *)
Redeliver ==
    /\ redeliveries < MAX_REDELIVERIES
    /\ redeliveries' = redeliveries + 1
    /\ \/ /\ \E m \in RawMessages \ rawTopic : rawTopic' = rawTopic \cup {m}
          /\ UNCHANGED corrTopic
       \/ /\ \E c \in Correlations \ corrTopic : corrTopic' = corrTopic \cup {c}
          /\ UNCHANGED rawTopic
    /\ UNCHANGED <<rawQueue, corrQueue, redis, pending, pc, frame, at, done,
                   rawItem, historyVars, faults>>

(* A tick of time: keys of Redis come closer to their end and pending      *)
(* correlations age.  Ages stop at the first value past the limit.         *)
Older(p) == [p EXCEPT !.age = IF p.age > RETRY_LIMIT THEN p.age ELSE p.age + 1]
Decayed(v) == CASE v = None  -> None
                [] v # None /\ v.ttl = 1 -> None
                [] OTHER     -> [v EXCEPT !.ttl = v.ttl - 1]
Tick ==
    /\ redis' = [s \in Sweeps |-> Decayed(redis[s])]
    /\ pending' = [i \in 1..Len(pending) |-> Older(pending[i])]
    /\ UNCHANGED <<topicVars, rawQueue, corrQueue, pc, frame, at, done, rawItem,
                   historyVars, faults>>

-----------------------------------------------------------------------------
(* process_correlation_pair, run by either task.                           *)

Goto(t, label) == pc' = [pc EXCEPT ![t] = label]
Call(t, c) == Goto(t, "check") /\ frame' = [frame EXCEPT ![t] = Fresh(c)]
callerVars == <<topicVars, rawQueue, corrQueue, pending, at, done, rawItem>>

(* Mutant of Raise: the main loop has no outer "except Exception".         *)
RaiseUncaught(t) ==
    /\ Goto(t, "dead")
    /\ frame' = [frame EXCEPT ![t] = Fresh(None)]
    /\ at' = [at EXCEPT ![t] = 0]
    /\ done' = [done EXCEPT ![t] = {}]
    /\ rawItem' = IF t = "main" THEN None ELSE rawItem

(* An exception reaches the body of the task: the main loop catches it and *)
(* goes on with the next item, nothing catches it in the retry task.       *)
Raise(t) ==
    /\ Goto(t, IF t = "main" THEN "loop" ELSE "dead")
    /\ frame' = [frame EXCEPT ![t] = Fresh(None)]
    /\ at' = [at EXCEPT ![t] = 0]
    /\ done' = [done EXCEPT ![t] = {}]
    /\ rawItem' = IF t = "main" THEN None ELSE rawItem

(* check_availability asks for every sweep before it looks at the answers. *)
Checked(t, available) ==
    LET missing == frame[t].missing \/ ~available
    IN  /\ Goto(t, IF ~LastId(t) THEN "check"
                   ELSE IF missing THEN "failure" ELSE "fetch")
        /\ frame' = [frame EXCEPT ![t] = [frame[t] EXCEPT !.k = NextK(t),
                                                        !.missing = missing]]

CheckAvailability(t) ==
    /\ pc[t] = "check"
    /\ Checked(t, redis[CurrentId(t)] # None)
    /\ UNCHANGED <<callerVars, redis, historyVars, faults>>

CheckFails(t) ==
    /\ pc[t] = "check"
    /\ Fault
    /\ Checked(t, FALSE)
    /\ UNCHANGED <<callerVars, redis, historyVars>>

(* Mutant of FetchRaw: the value is taken out of Redis when it is read.    *)
FetchRawTakes(t) ==
    /\ pc[t] = "fetch"
    /\ redis[CurrentId(t)] # None
    /\ Goto(t, IF LastId(t) THEN "compute" ELSE "fetch")
    /\ frame' = [frame EXCEPT ![t] =
                   [frame[t] EXCEPT
                       !.k = NextK(t),
                       !.elec = Append(frame[t].elec, redis[CurrentId(t)].msg)]]
    /\ redis' = [redis EXCEPT ![CurrentId(t)] = None]
    /\ UNCHANGED <<callerVars, historyVars, faults>>

FetchRaw(t) ==
    /\ pc[t] = "fetch"
    /\ redis[CurrentId(t)] # None
    /\ Goto(t, IF LastId(t) THEN "compute" ELSE "fetch")
    /\ frame' = [frame EXCEPT ![t] =
                   [frame[t] EXCEPT
                       !.k = NextK(t),
                       !.elec = Append(frame[t].elec, redis[CurrentId(t)].msg)]]
    /\ UNCHANGED <<callerVars, redis, historyVars, faults>>

(* The key expired, or the other task deleted it, after the check.         *)
FetchGone(t) ==
    /\ pc[t] = "fetch"
    /\ redis[CurrentId(t)] = None
    /\ Goto(t, "failure")
    /\ UNCHANGED <<callerVars, frame, redis, historyVars, faults>>

FetchFails(t) ==
    /\ pc[t] = "fetch"
    /\ Fault
    /\ Goto(t, "failure")
    /\ UNCHANGED <<callerVars, frame, redis, historyVars>>

(* np.vstack stands outside the try of process_correlation_pair.           *)
CombineFails(t) ==
    /\ pc[t] = "compute" /\ Len(Ids(t)) > 1
    /\ Fault
    /\ Raise(t)
    /\ UNCHANGED <<topicVars, rawQueue, corrQueue, redis, pending, historyVars>>

(* Mutant of Publish: the first sweep is the key.                          *)
PublishUnderFirst(t) ==
    /\ conversionTopic' = conversionTopic \cup
           {[key |-> Ids(t)[1], corr |-> frame[t].corr, elec |-> frame[t].elec]}
    /\ published' = [s \in Sweeps |->
           IF s \in Correlated(frame[t].corr) THEN published[s] + 1
           ELSE published[s]]
    /\ UNCHANGED stored

Publish(t) ==
    /\ conversionTopic' = conversionTopic \cup
           {[key |-> Ids(t)[Len(Ids(t))], corr |-> frame[t].corr,
             elec |-> frame[t].elec]}
    /\ published' = [s \in Sweeps |->
           IF s \in Correlated(frame[t].corr) THEN published[s] + 1
           ELSE published[s]]
    /\ UNCHANGED stored

ConvertAndPublish(t) ==
    /\ pc[t] = "compute"
    /\ Publish(t)
    /\ Goto(t, "delete")
    /\ UNCHANGED <<callerVars, frame, redis, faults>>

(* The calculation raises, or the broker never gets the record.            *)
PublishFails(t) ==
    /\ pc[t] = "compute"
    /\ Fault
    /\ Goto(t, "failure")
    /\ UNCHANGED <<callerVars, frame, redis, historyVars>>

(* The broker has the record, but future.get times out or the answer is    *)
(* lost.                                                                   *)
PublishUnacknowledged(t) ==
    /\ pc[t] = "compute"
    /\ Fault
    /\ Publish(t)
    /\ Goto(t, "failure")
    /\ UNCHANGED <<callerVars, frame, redis>>

Deleted(t) ==
    /\ Goto(t, IF LastId(t) THEN "success" ELSE "delete")
    /\ frame' = [frame EXCEPT ![t] = [frame[t] EXCEPT !.k = NextK(t)]]

(* Mutant of DeleteRaw: the key stays.                                     *)
DeleteRawForgotten(t) ==
    /\ pc[t] = "delete"
    /\ Deleted(t)
    /\ UNCHANGED <<callerVars, redis, historyVars, faults>>

DeleteRaw(t) ==
    /\ pc[t] = "delete"
    /\ redis' = [redis EXCEPT ![CurrentId(t)] = None]
    /\ Deleted(t)
    /\ UNCHANGED <<callerVars, historyVars, faults>>

DeleteFails(t) ==
    /\ pc[t] = "delete"
    /\ Fault
    /\ Deleted(t)
    /\ UNCHANGED <<callerVars, redis, historyVars>>

ProcessCorrelationPair(t) ==
    \/ CheckAvailability(t) \/ CheckFails(t)
    \/ FetchRaw(t) \/ FetchGone(t) \/ FetchFails(t)
    \/ CombineFails(t) \/ ConvertAndPublish(t)
    \/ PublishFails(t) \/ PublishUnacknowledged(t)
    \/ DeleteRaw(t) \/ DeleteFails(t)

-----------------------------------------------------------------------------
(* "for i in reversed(processed_indices): pending_correlations.pop(i)".    *)
(* The first pop has the largest index; if that one is in range so are the *)
(* others, and if it is not IndexError leaves the list as it was.          *)
CanPop(list, I) == I \subseteq 1..Len(list)

(* Entry j of what remains is entry j + n of the list, where n counts the  *)
(* popped positions with fewer than j kept ones before them.               *)
Without(list, I) ==
    LET PoppedBefore(j) ==
          {i \in I : i - Cardinality({h \in I : h < i}) <= j}
    IN  [j \in 1..(Len(list) - Cardinality(I)) |->
            list[j + Cardinality(PoppedBefore(j))]]

(* The main loop. *)

TakeRaw ==
    /\ pc["main"] = "loop" /\ rawQueue # << >>
    /\ rawItem' = Head(rawQueue)
    /\ rawQueue' = Tail(rawQueue)
    /\ Goto("main", "store")
    /\ UNCHANGED <<topicVars, corrQueue, redis, pending, frame, at, done,
                   historyVars, faults>>

StoreRaw ==
    /\ pc["main"] = "store"
    /\ LET s == rawItem.sweeps_id
       IN  /\ redis' = [redis EXCEPT ![s] = [msg |-> rawItem, ttl |-> REDIS_TTL]]
           /\ stored' = [stored EXCEPT ![s] = @ + 1]
    /\ Goto("main", "scan")
    /\ UNCHANGED <<callerVars, frame, conversionTopic, published, faults>>

(* store_raw returns False, which its caller does not read.                *)
StoreFails ==
    /\ pc["main"] = "store"
    /\ Fault
    /\ Goto("main", "scan")
    /\ UNCHANGED <<callerVars, frame, redis, historyVars>>

(* The second half of an iteration: the correlation queue.                 *)
CorrBranch ==
    \/ /\ corrQueue = << >>
       /\ Goto("main", "loop")
       /\ frame' = [frame EXCEPT !["main"] = Fresh(None)]
       /\ UNCHANGED corrQueue
    \/ /\ corrQueue # << >>
       /\ Call("main", Head(corrQueue))
       /\ corrQueue' = Tail(corrQueue)

(* The enumerate over pending_correlations goes on from a position: it     *)
(* stops at the next correlation that names the sweep just stored, or      *)
(* ends, pops what was processed and turns to the correlation queue.       *)
ContinueScan(from, processed) ==
    LET matches == {j \in from..Len(pending) :
                      rawItem.sweeps_id \in Correlated(pending[j].corr)}
    IN  \/ \E j \in matches :
              /\ \A h \in matches : j <= h
              /\ at' = [at EXCEPT !["main"] = j]
              /\ done' = [done EXCEPT !["main"] = processed]
              /\ Call("main", pending[j].corr)
              /\ UNCHANGED <<pending, rawItem, corrQueue>>
        \/ /\ matches = {} /\ CanPop(pending, processed)
           /\ pending' = Without(pending, processed)
           /\ at' = [at EXCEPT !["main"] = 0]
           /\ done' = [done EXCEPT !["main"] = {}]
           /\ rawItem' = None
           /\ CorrBranch
        \/ /\ matches = {} /\ ~CanPop(pending, processed)
           /\ Raise("main")
           /\ UNCHANGED <<pending, corrQueue>>

(* Mutant of ScanPending: the stored sweep is left to the retry task.      *)
ScanPendingSkipped ==
    /\ pc["main"] = "scan"
    /\ rawItem' = None
    /\ CorrBranch
    /\ UNCHANGED <<topicVars, rawQueue, redis, pending, at, done, historyVars,
                   faults>>

ScanPending ==
    /\ pc["main"] = "scan"
    /\ ContinueScan(1, {})
    /\ UNCHANGED <<topicVars, rawQueue, redis, historyVars, faults>>

Processed(t) == IF pc[t] = "success" THEN done[t] \cup {at[t]} ELSE done[t]

MainReturnsRaw ==
    /\ pc["main"] \in {"success", "failure"} /\ at["main"] > 0
    /\ ContinueScan(at["main"] + 1, Processed("main"))
    /\ UNCHANGED <<topicVars, rawQueue, redis, historyVars, faults>>

TakeCorr ==
    /\ pc["main"] = "loop" /\ rawQueue = << >> /\ corrQueue # << >>
    /\ CorrBranch
    /\ UNCHANGED <<topicVars, rawQueue, redis, pending, at, done, rawItem,
                   historyVars, faults>>

MainReturnsCorr ==
    /\ pc["main"] \in {"success", "failure"} /\ at["main"] = 0
    /\ pending' = IF pc["main"] = "success" THEN pending
                  ELSE Append(pending, Pending(frame["main"].corr))
    /\ Goto("main", "loop")
    /\ frame' = [frame EXCEPT !["main"] = Fresh(None)]
    /\ UNCHANGED <<topicVars, rawQueue, corrQueue, redis, at, done, rawItem,
                   historyVars, faults>>

Main ==
    \/ TakeRaw \/ StoreRaw \/ StoreFails \/ ScanPending \/ MainReturnsRaw
    \/ TakeCorr \/ MainReturnsCorr
    \/ ProcessCorrelationPair("main")

-----------------------------------------------------------------------------
(* Mutant of Marked: nothing expires.                                      *)
MarkedNever(list) == [i \in 1..Len(list) |-> [list[i] EXCEPT !.late = FALSE]]

(* The retry task.  It reads the clock once a pass: the correlations that  *)
(* are past the limit at that moment are the ones it drops unprocessed.    *)
Marked(list) == [i \in 1..Len(list) |->
                    [list[i] EXCEPT !.late = list[i].age > RETRY_LIMIT]]

ContinueRetry(list, from, processed) ==
    LET fresh == {j \in from..Len(list) : ~list[j].late}
        all == processed \cup (from..Len(list))
    IN  \/ \E j \in fresh :
              /\ \A h \in fresh : j <= h
              /\ at' = [at EXCEPT !["retry"] = j]
              /\ done' = [done EXCEPT !["retry"] = processed \cup (from..(j - 1))]
              /\ Call("retry", list[j].corr)
              /\ pending' = list
              /\ UNCHANGED rawItem
        \/ /\ fresh = {} /\ CanPop(list, all)
           /\ pending' = Without(list, all)
           /\ at' = [at EXCEPT !["retry"] = 0]
           /\ done' = [done EXCEPT !["retry"] = {}]
           /\ Goto("retry", "sleep")
           /\ frame' = [frame EXCEPT !["retry"] = Fresh(None)]
           /\ UNCHANGED rawItem
        \/ /\ fresh = {} /\ ~CanPop(list, all)
           /\ Raise("retry")
           /\ pending' = list

RetryPass ==
    /\ pc["retry"] = "sleep" /\ pending # << >>
    /\ ContinueRetry(Marked(pending), 1, {})
    /\ UNCHANGED <<topicVars, rawQueue, corrQueue, redis, historyVars, faults>>

RetryReturns ==
    /\ pc["retry"] \in {"success", "failure"}
    /\ ContinueRetry(pending, at["retry"] + 1, Processed("retry"))
    /\ UNCHANGED <<topicVars, rawQueue, corrQueue, redis, historyVars, faults>>

Retry == RetryPass \/ RetryReturns \/ ProcessCorrelationPair("retry")

-----------------------------------------------------------------------------
Environment ==
    \/ \E m \in RawMessages : SkipRaw(m) \/ ConsumeRaw(m)
    \/ \E c \in Correlations : ConsumeCorr(c)
    \/ DropMessage \/ Redeliver \/ Tick

Next == Main \/ Retry \/ Environment

Spec == Init /\ [][Next]_vars

(* The event loop runs every task that is ready, and time passes.          *)
FairSpec == Spec /\ WF_vars(Main) /\ WF_vars(Retry) /\ WF_vars(Tick)

-----------------------------------------------------------------------------
Idle(t) == pc[t] \in {"loop", "sleep", "dead"}

(* What is published is the join of a correlation with the electrical data *)
(* of exactly the sweeps its headers name, in their order, under the last  *)
(* of them as key (process_correlation_pair, store_raw and the type filter *)
(* of the consumer loop).                                                  *)
JoinCorrect ==
    \A r \in conversionTopic :
        LET ids == SweepsIds[r.corr]
        IN  /\ r.key = ids[Len(ids)]
            /\ r.elec = [k \in 1..Len(ids) |-> Elec(ids[k])]

(* Electrical data leaves Redis in two ways only: its time to live ends,   *)
(* or a conversion that used it has been published.                        *)
RawReleasedOnlyAfterPublish ==
    [][\A s \in Sweeps :
          (redis[s] # None /\ redis'[s] = None)
              => redis[s].ttl = 1 \/ published[s] > 0]_vars

(* Both tasks may be converting the same correlation, so one stored array  *)
(* may be published twice; without failures it is never published a third  *)
(* time, whatever the interleaving, the redeliveries and the expiries.     *)
AtMostTwice ==
    \A s \in Sweeps : published[s] <= 2 * stored[s] + faults

(* The service implements its abstract promise: every step of a task, of   *)
(* Kafka or of time is a step of StreamJoin or none.  In one formula: what *)
(* is published pairs the right arrays, which have been stored before, one *)
(* store is used twice at most, and data ends by age or after its use      *)
(* (run_conversion_service with all it calls).                             *)
Join == INSTANCE StreamJoin WITH
            Data <- [s \in Sweeps |-> Elec(s)],
            LIFE <- REDIS_TTL,
            life <- [s \in Sweeps |-> IF redis[s] = None THEN 0 ELSE redis[s].ttl],
            arrived <- stored,
            used <- published,
            mishaps <- faults,
            output <- conversionTopic
ImplementsStreamJoin == Join!Spec

(* When both tasks are idle and nothing has failed, no correlation waits   *)
(* whose data is all in Redis: the scan that follows a store and the check *)
(* that precedes an append leave no gap between them.                      *)
NoMissedMatch ==
    (faults = 0 /\ Idle("main") /\ Idle("retry")) =>
        \A i \in 1..Len(pending) :
            \E s \in Correlated(pending[i].corr) : redis[s] = None

(* The comment "Remove processed correlations" at both pops: a correlation *)
(* leaves the list only if it was published or was dropped as expired.     *)
InPending(c) == \E i \in 1..Len(pending) : pending[i].corr = c
RemovesOnlyProcessed ==
    [][\A c \in Correlations :
          (InPending(c) /\ ~InPending(c)') =>
              \/ \E r \in conversionTopic : r.corr = c
              \/ \E i \in 1..Len(pending) :
                    /\ pending[i].corr = c
                    /\ pending[i].late \/ pending[i].age > RETRY_LIMIT]_vars

(* A pending correlation is eventually converted or dropped as expired, as *)
(* long as the retry task lives.                                           *)
PendingResolved ==
    \A c \in Correlations :
        InPending(c) ~> (~InPending(c) \/ pc["retry"] = "dead")

(* The main loop always comes back to empty queues: no exception of an     *)
(* iteration ends it and no item is left behind.                           *)
MainDrains == []<>(pc["main"] = "loop" /\ rawQueue = << >> /\ corrQueue = << >>)

-----------------------------------------------------------------------------
(* Inductive invariants behind the safety properties.                      *)

Processing == {"check", "fetch", "compute", "delete", "success", "failure"}

(* A task inside process_correlation_pair has a correlation and stands at  *)
(* one of its ids; a raw item is at hand when it is stored.                *)
FrameOK ==
    /\ \A t \in Task : pc[t] \in Processing =>
          frame[t].corr \in Correlations /\ frame[t].k <= Len(Ids(t))
    /\ pc["main"] = "store" => rawItem \in RawMessages

(* Only electrical messages pass the consumer loop, each is stored under   *)
(* its own sweep, and a task has fetched the arrays of the ids it passed.  *)
ElecOnly ==
    /\ \A i \in 1..Len(rawQueue) : rawQueue[i].type = "elec"
    /\ pc["main"] = "store" => rawItem.type = "elec"
    /\ \A s \in Sweeps : redis[s] # None => redis[s].msg = Elec(s)
FetchedInOrder ==
    \A t \in Task :
        /\ pc[t] = "check" => frame[t].elec = << >>
        /\ pc[t] = "fetch" => frame[t].elec =
              [k \in 1..(frame[t].k - 1) |-> Elec(Ids(t)[k])]
        /\ pc[t] = "compute" => frame[t].elec =
              [k \in 1..Len(Ids(t)) |-> Elec(Ids(t)[k])]
JoinInv == ElecOnly /\ FetchedInOrder /\ JoinCorrect

(* A task deletes only what it has published, from its first id on.        *)
DeletesPublished ==
    \A t \in Task :
        /\ pc[t] = "compute" => frame[t].k = 1
        /\ pc[t] = "delete" =>
              \A s \in Correlated(frame[t].corr) : published[s] > 0

(* Holds(t, s): t has fetched the data of s and may still publish it.      *)
(* Owes(t, s): t has published it and has still to delete it.              *)
Holds(t, s) ==
    \/ pc[t] = "fetch" /\ \E k \in 1..(frame[t].k - 1) : Ids(t)[k] = s
    \/ pc[t] = "compute" /\ s \in Correlated(frame[t].corr)
Owes(t, s) == pc[t] = "delete" /\ \E k \in frame[t].k..Len(Ids(t)) : Ids(t)[k] = s
Count(b) == IF b THEN 1 ELSE 0
Held(s) == Count(Holds("main", s)) + Count(Holds("retry", s))
Owed(s) == Count(Owes("main", s)) + Count(Owes("retry", s))

(* While the data of a sweep is stored, each task has published it at most *)
(* once since the store; once it is gone, only who holds it can publish.   *)
TwiceInv ==
    \A s \in Sweeps :
        IF redis[s] # None
        THEN /\ stored[s] > 0
             /\ published[s] <= 2 * (stored[s] - 1) + Owed(s) + faults
        ELSE published[s] + Held(s) <= 2 * stored[s] + faults

InductiveInv == FrameOK /\ JoinInv /\ DeletesPublished /\ TwiceInv
=============================================================================
