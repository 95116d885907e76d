----------------------------- MODULE Acquisition -----------------------------
(***************************************************************************)
(* The DAQ producer, the topic it creates and fills, and the correlation   *)
(* service that reads it.                                                  *)
(*                                                                         *)
(* For each pair of arrays read from the source files the producer makes a *)
(* new sweep and sends two messages, which a thread of the Kafka client    *)
(* delivers some time later; it waits for both answers before it goes on.  *)
(* The topic is created by whoever comes first: by the producer, with      *)
(* PARTITIONS partitions, or by the broker when a consumer asks for it.    *)
(***************************************************************************)
EXTENDS CorrelationService

CONSTANTS
    PARTITIONS,        \* the partitions the producer asks for
    DEFAULT_PARTITIONS,\* the partitions of a topic the broker creates
    MAX_FAILURES,      \* bound: failures of the producer and of its calls
    MAX_MISHAPS        \* bound: all that goes wrong, on both sides

ASSUME PartitionsAssumption ==
    /\ PARTITIONS \in Nat \ {0}
    /\ DEFAULT_PARTITIONS \in Nat \ {0}
    /\ MAX_FAILURES \in Nat
    /\ MAX_MISHAPS \in Nat

VARIABLES
    partitions,        \* of the raw topic; 0 while it does not exist
    step,              \* where produce_raw is
    unread,            \* sweeps still in the source files
    current,           \* the sweep in hand
    inFlight,          \* messages handed to the Kafka client, undelivered
    delivered,         \* history: messages that have reached the topic
    hit,               \* history: sweeps a failure has hit
    surprised,         \* history: "yes" if a consumer made the topic appear
                       \* after the producer had found it absent
    failures           \* failures so far

producerVars == <<partitions, step, unread, current, inFlight, delivered, hit,
                  surprised, failures>>
acquisitionVars == <<vars, producerVars>>

Elec(s) == [type |-> "elec", sweeps_id |-> s]

Steps == {"list", "describe", "create", "grow", "next", "raw", "elec",
          "raw answer", "elec answer", "stopped"}

AcquisitionTypeOK ==
    /\ TypeOK
    /\ partitions \in {0, DEFAULT_PARTITIONS, PARTITIONS}
    /\ step \in Steps
    /\ unread \subseteq Sweeps
    /\ current \in Sweeps \cup {None}
    /\ inFlight \subseteq RawMessages
    /\ rawTopic \subseteq delivered /\ delivered \subseteq RawMessages
    /\ hit \subseteq Sweeps
    /\ surprised \in {"no", "yes"}
    /\ failures \in 0..MAX_FAILURES

AcquisitionInit ==
    /\ ServiceInit
    /\ rawTopic = {}
    /\ partitions = 0
    /\ step = "list"
    /\ unread = Sweeps
    /\ current = None
    /\ inFlight = {}
    /\ delivered = {}
    /\ hit = {}
    /\ surprised = "no"
    /\ failures = 0

Failure == failures < MAX_FAILURES /\ failures' = failures + 1

-----------------------------------------------------------------------------
(* update_topic_partition, called once before the first sweep.             *)

topicStepVars == <<vars, unread, current, inFlight, delivered, hit>>

ListTopics ==
    /\ step = "list"
    /\ step' = IF partitions > 0 THEN "describe" ELSE "create"
    /\ UNCHANGED <<topicStepVars, partitions, surprised, failures>>

DescribeTopics ==
    /\ step = "describe"
    /\ step' = IF partitions < PARTITIONS THEN "grow" ELSE "next"
    /\ UNCHANGED <<topicStepVars, partitions, surprised, failures>>

(* Mutant of CreatePartitions: it never takes effect.                      *)
CreatePartitionsForgotten ==
    /\ step = "grow"
    /\ step' = "next"
    /\ UNCHANGED <<topicStepVars, partitions, surprised, failures>>

(* Whatever create_partitions raises is printed.                           *)
CreatePartitions ==
    /\ step = "grow"
    /\ \/ partitions' = PARTITIONS /\ UNCHANGED failures
       \/ Failure /\ UNCHANGED partitions
    /\ step' = "next"
    /\ UNCHANGED <<topicStepVars, surprised>>

(* TopicAlreadyExistsError is printed; the topic stays as the broker made  *)
(* it.                                                                     *)
CreateTopics ==
    /\ step = "create"
    /\ partitions' = IF partitions = 0 THEN PARTITIONS ELSE partitions
    /\ surprised' = IF partitions = 0 THEN "no" ELSE "yes"
    /\ step' = "next"
    /\ UNCHANGED <<topicStepVars, failures>>

(* Any other exception of the admin client leaves produce_raw.             *)
AdminFails ==
    /\ step \in {"list", "describe", "create"}
    /\ Failure
    /\ step' = "stopped"
    /\ UNCHANGED <<topicStepVars, partitions, surprised>>

(* A consumer that subscribes makes the broker create the topic.           *)
AutoCreate ==
    /\ partitions = 0
    /\ partitions' = DEFAULT_PARTITIONS
    /\ UNCHANGED <<topicStepVars, step, surprised, failures>>

-----------------------------------------------------------------------------
(* The loop of produce_raw over stream_raw_data. *)

topicVars == <<vars, partitions, surprised>>

(* A line that cannot be read is skipped with its partner of the other     *)
(* file, before there is a sweep.                                          *)
NextPair(s) ==
    /\ step = "next" /\ s \in unread
    /\ unread' = unread \ {s}
    /\ current' = s
    /\ step' = "raw"
    /\ UNCHANGED <<topicVars, inFlight, delivered, hit, failures>>

SendRaw ==
    /\ step = "raw"
    /\ inFlight' = inFlight \cup {Raw(current)}
    /\ step' = "elec"
    /\ UNCHANGED <<topicVars, unread, current, delivered, hit, failures>>

(* Mutants of SendElec: it is left out; nobody waits for the answers.      *)
SendElecForgotten ==
    /\ step = "elec"
    /\ step' = "next"
    /\ UNCHANGED <<topicVars, unread, current, inFlight, delivered, hit, failures>>

SendElecOnly ==
    /\ step = "elec"
    /\ inFlight' = inFlight \cup {Elec(current)}
    /\ step' = "next"
    /\ UNCHANGED <<topicVars, unread, current, delivered, hit, failures>>

SendElec ==
    /\ step = "elec"
    /\ inFlight' = inFlight \cup {Elec(current)}
    /\ step' = "raw answer"
    /\ UNCHANGED <<topicVars, unread, current, delivered, hit, failures>>

(* send raises: after the first one the second is never sent.              *)
SendRaises ==
    /\ step \in {"raw", "elec"}
    /\ Failure
    /\ step' = "next"
    /\ hit' = hit \cup {current}
    /\ UNCHANGED <<topicVars, unread, current, inFlight, delivered>>

(* future.get: the message has been delivered.                             *)
RawAnswer ==
    /\ step = "raw answer" /\ Raw(current) \in delivered
    /\ step' = "elec answer"
    /\ UNCHANGED <<topicVars, unread, current, inFlight, delivered, hit, failures>>

ElecAnswer ==
    /\ step = "elec answer" /\ Elec(current) \in delivered
    /\ step' = "next"
    /\ UNCHANGED <<topicVars, unread, current, inFlight, delivered, hit, failures>>

(* future.get raises: it timed out while the message goes on, or the       *)
(* message is lost.  The other answer is not waited for any more.          *)
NoAnswer ==
    /\ step \in {"raw answer", "elec answer"}
    /\ Failure
    /\ LET m == IF step = "raw answer" THEN Raw(current) ELSE Elec(current)
       IN  inFlight' \in {inFlight, inFlight \ {m}}
    /\ step' = "next"
    /\ hit' = hit \cup {current}
    /\ UNCHANGED <<topicVars, unread, current, delivered>>

(* The files cannot be read any more, or the process is stopped: what the  *)
(* Kafka client had not delivered is gone.                                 *)
ProducerStops ==
    /\ step \notin {"list", "describe", "create", "grow", "stopped"}
    /\ Failure
    /\ step' = "stopped"
    /\ inFlight' = {}
    /\ hit' = IF current = None THEN hit ELSE hit \cup {current}
    /\ UNCHANGED <<topicVars, unread, current, delivered>>

(* Mutant of Deliver: the client sends the message again without end.      *)
DeliverAgain(m) ==
    /\ m \in inFlight
    /\ rawTopic' = rawTopic \cup {m}
    /\ delivered' = delivered \cup {m}
    /\ UNCHANGED <<uncommitted, laser, serviceVars, historyVars, boundVars,
                   partitions, step, unread, current, inFlight, hit, surprised,
                   failures>>

Deliver(m) ==
    /\ m \in inFlight
    /\ inFlight' = inFlight \ {m}
    /\ rawTopic' = rawTopic \cup {m}
    /\ delivered' = delivered \cup {m}
    /\ UNCHANGED <<uncommitted, laser, serviceVars, historyVars, boundVars,
                   partitions, step, unread, current, hit, surprised, failures>>

Producer ==
    \/ ListTopics \/ DescribeTopics \/ CreatePartitions \/ CreateTopics
    \/ AdminFails
    \/ \E s \in Sweeps : NextPair(s)
    \/ SendRaw \/ SendElec \/ SendRaises \/ RawAnswer \/ ElecAnswer \/ NoAnswer
    \/ ProducerStops

-----------------------------------------------------------------------------
(* The rest of the system, where what has not been delivered cannot come   *)
(* twice, and the laser metadata come from an electrical message.          *)
Downstream ==
    /\ \/ Service \/ CommitOffsets \/ Crash
       \/ Redeliver /\ rawTopic' \subseteq delivered
       \/ InsertLaserMetadata /\ \E s \in Sweeps : Elec(s) \in delivered
    /\ UNCHANGED producerVars

AcquisitionNext ==
    /\ \/ Producer \/ AutoCreate
       \/ \E m \in RawMessages : Deliver(m)
       \/ Downstream
    /\ redeliveries' + crashes' + faults' + failures' <= MAX_MISHAPS

AcquisitionSpec == AcquisitionInit /\ [][AcquisitionNext]_acquisitionVars

(* The correlation service runs whenever it has something to do.           *)
FairAcquisition ==
    AcquisitionSpec /\ WF_acquisitionVars(Service /\ UNCHANGED producerVars)

-----------------------------------------------------------------------------
(* CorrelationService starts with every message on the topic.  That is     *)
(* sound: with a real producer the service behaves as if what is still to  *)
(* come were there already, so every property proved of it holds here      *)
(* (produce_raw, run_correlation_service).                                 *)
Correlating == INSTANCE CorrelationService WITH
                   rawTopic <- rawTopic \cup (RawMessages \ delivered)
ImplementsCorrelationService == Correlating!Spec

(* Once a sweep is over and nothing is on its way, both of its messages    *)
(* have been delivered or neither has, unless a failure has hit it: a sweep*)
(* with one message waits in Redis or in the pending list until it expires *)
(* (the two sends of produce_raw).                                         *)
Begun(s) == s \notin unread /\ (s = current => step \in {"next", "stopped"})
HalfSentExplained ==
    \A s \in Sweeps :
        Begun(s) /\ {Raw(s), Elec(s)} \cap inFlight = {} =>
            ({Raw(s), Elec(s)} \subseteq delivered \/ s \in hit)

(* The sweeps come one after the other: while a message of one is being    *)
(* sent, no message of another is on its way, unless a failure has hit the *)
(* other (the two future.get of produce_raw).                              *)
SweepsInTurn ==
    \A m \in inFlight : m.sweeps_id = current \/ m.sweeps_id \in hit

(* "50 partitions per topic": when the first sweep is sent the topic has   *)
(* them, unless create_partitions failed or a consumer made the broker     *)
(* create the topic between the look at the list and create_topics         *)
(* (update_topic_partition).                                               *)
PartitionsExplained ==
    unread # Sweeps =>
        partitions >= PARTITIONS \/ failures > 0 \/ surprised = "yes"
=============================================================================
