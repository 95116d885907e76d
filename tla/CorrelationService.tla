-------------------------- MODULE CorrelationService --------------------------
(***************************************************************************)
(* The correlation service: one loop over the raw topic that appends every *)
(* raw sweep to one growing array and publishes the correlation of the     *)
(* whole array, named by the sweep that was appended last.                 *)
(*                                                                         *)
(* The loop handles one message at a time.  What runs beside it is outside *)
(* the process: Kafka, the writer service, which inserts the laser         *)
(* metadata the calculation needs, and whatever stops and restarts the     *)
(* process.  An array is modelled by the sequence of the sweeps in it.     *)
(***************************************************************************)
EXTENDS Integers, Sequences, FiniteSets

CONSTANTS
    Sweeps,            \* sweep identifiers
    MAX_REDELIVERIES,  \* bound: messages Kafka delivers again by itself
    MAX_CRASHES,       \* bound: restarts of the process
    MAX_FAULTS,        \* bound: failed calls and deserialisations
    None               \* Python's None

ASSUME BoundsAssumption ==
    /\ MAX_REDELIVERIES \in Nat
    /\ MAX_CRASHES \in Nat
    /\ MAX_FAULTS \in Nat
ASSUME NoneAssumption == None \notin Sweeps

RawMessages == [type : {"raw", "elec"}, sweeps_id : Sweeps]
Raw(s) == [type |-> "raw", sweeps_id |-> s]

VARIABLES
    rawTopic,          \* messages of raw-electrical-data still to be read
    uncommitted,       \* messages read since the offsets were committed
    laser,             \* the laser metadata in MongoDB: "absent" or "present"
    pc,                \* "next", "query" or "send"
    sweeps_id,         \* the sweep in hand
    accumulated_data,  \* the sweeps of the array; << >> stands for None
    correlationTopic,  \* what has been published
    skipped,           \* history: sweeps handled without a correlation
    early,             \* history: messages that found no laser metadata
    redeliveries, crashes, faults

serviceVars == <<pc, sweeps_id, accumulated_data>>
historyVars == <<correlationTopic, skipped, early>>
boundVars == <<redeliveries, crashes, faults>>
vars == <<rawTopic, uncommitted, laser, serviceVars, historyVars, boundVars>>

(* A record on the correlation topic; "life" tells the process that sent   *)
(* it from those before and after a restart.                               *)
Correlation == [second_sweeps_id : Sweeps, data : Seq(Sweeps), life : Nat]

TypeOK ==
    /\ rawTopic \subseteq RawMessages
    /\ uncommitted \subseteq RawMessages
    /\ laser \in {"absent", "present"}
    /\ pc \in {"next", "query", "send"}
    /\ sweeps_id \in Sweeps \cup {None}
    /\ pc # "next" => sweeps_id \in Sweeps
    /\ accumulated_data \in Seq(Sweeps)
    /\ correlationTopic \subseteq Correlation
    /\ skipped \subseteq Sweeps
    /\ early \in Nat
    /\ redeliveries \in 0..MAX_REDELIVERIES
    /\ crashes \in 0..MAX_CRASHES
    /\ faults \in 0..MAX_FAULTS

ServiceInit ==
    /\ uncommitted = {}
    /\ laser = "absent"
    /\ pc = "next"
    /\ sweeps_id = None
    /\ accumulated_data = << >>
    /\ correlationTopic = {}
    /\ skipped = {}
    /\ early = 0
    /\ redeliveries = 0
    /\ crashes = 0
    /\ faults = 0

Init == rawTopic = RawMessages /\ ServiceInit

Fault == faults < MAX_FAULTS /\ faults' = faults + 1

-----------------------------------------------------------------------------
(* The loop. *)

Read(m) ==
    /\ pc = "next" /\ m \in rawTopic
    /\ rawTopic' = rawTopic \ {m}
    /\ uncommitted' = uncommitted \cup {m}

SkipElec(m) ==
    /\ Read(m) /\ m.type # "raw"
    /\ UNCHANGED <<laser, serviceVars, historyVars, boundVars>>

(* deserialize_array raises.                                               *)
DropMessage(m) ==
    /\ Read(m) /\ m.type = "raw"
    /\ Fault
    /\ skipped' = skipped \cup {m.sweeps_id}
    /\ UNCHANGED <<laser, serviceVars, correlationTopic, early, redeliveries,
                   crashes>>

(* The first array only starts the accumulation.                           *)
FirstChunk(m) ==
    /\ Read(m) /\ m.type = "raw"
    /\ accumulated_data = << >>
    /\ accumulated_data' = <<m.sweeps_id>>
    /\ skipped' = skipped \cup {m.sweeps_id}
    /\ UNCHANGED <<laser, pc, sweeps_id, correlationTopic, early, boundVars>>

(* Mutant of Accumulate: the new array is put in front of the old ones.    *)
AccumulateInFront(m) ==
    /\ Read(m) /\ m.type = "raw"
    /\ accumulated_data # << >>
    /\ accumulated_data' = <<m.sweeps_id>> \o accumulated_data
    /\ sweeps_id' = m.sweeps_id
    /\ pc' = "query"
    /\ UNCHANGED <<laser, historyVars, boundVars>>

Accumulate(m) ==
    /\ Read(m) /\ m.type = "raw"
    /\ accumulated_data # << >>
    /\ accumulated_data' = Append(accumulated_data, m.sweeps_id)
    /\ sweeps_id' = m.sweeps_id
    /\ pc' = "query"
    /\ UNCHANGED <<laser, historyVars, boundVars>>

(* Mutant of GiveUp: the handling goes on without a sweep.                 *)
GiveUpGoesOn ==
    /\ pc' = "send"
    /\ sweeps_id' = None
    /\ UNCHANGED <<rawTopic, uncommitted, laser, accumulated_data,
                   correlationTopic, skipped, redeliveries, crashes>>

(* An exception ends the handling of a message; its sweep stays in the     *)
(* array.                                                                  *)
GiveUp ==
    /\ pc' = "next"
    /\ sweeps_id' = None
    /\ skipped' = skipped \cup {sweeps_id}
    /\ UNCHANGED <<rawTopic, uncommitted, laser, accumulated_data,
                   correlationTopic, redeliveries, crashes>>

GetAcquisitionCharacteristics ==
    /\ pc = "query" /\ laser = "present"
    /\ pc' = "send"
    /\ UNCHANGED <<rawTopic, uncommitted, laser, sweeps_id, accumulated_data,
                   historyVars, boundVars>>

(* Mutant of NoCharacteristics: the query is repeated.                     *)
NoCharacteristicsYet == pc = "query" /\ laser = "absent" /\ UNCHANGED vars

(* No document: the method returns None, which cannot be unpacked.         *)
NoCharacteristics ==
    /\ pc = "query" /\ laser = "absent"
    /\ GiveUp
    /\ early' = early + 1
    /\ UNCHANGED faults

(* The query, the calculation, update_topic_partition or the send fails.   *)
CallFails ==
    /\ pc \in {"query", "send"}
    /\ Fault
    /\ GiveUp
    /\ UNCHANGED early

Publish ==
    correlationTopic' = correlationTopic \cup
        {[second_sweeps_id |-> sweeps_id, data |-> accumulated_data,
          life |-> crashes]}

(* Mutant of Send: each correlation starts a new accumulation.             *)
SendAndForget ==
    /\ pc = "send"
    /\ Publish
    /\ pc' = "next"
    /\ sweeps_id' = None
    /\ accumulated_data' = << >>
    /\ UNCHANGED <<rawTopic, uncommitted, laser, skipped, early, boundVars>>

Send ==
    /\ pc = "send"
    /\ Publish
    /\ pc' = "next"
    /\ sweeps_id' = None
    /\ UNCHANGED <<rawTopic, uncommitted, laser, accumulated_data, skipped, early,
                   boundVars>>

(* The record is on the topic, but future.get raises; it is only printed.  *)
SendUnacknowledged ==
    /\ pc = "send"
    /\ Fault
    /\ Publish
    /\ pc' = "next"
    /\ sweeps_id' = None
    /\ UNCHANGED <<rawTopic, uncommitted, laser, accumulated_data, skipped, early,
                   redeliveries, crashes>>

Service ==
    \/ \E m \in RawMessages :
          SkipElec(m) \/ DropMessage(m) \/ FirstChunk(m) \/ Accumulate(m)
    \/ GetAcquisitionCharacteristics \/ NoCharacteristics \/ CallFails
    \/ Send \/ SendUnacknowledged

-----------------------------------------------------------------------------
(* Outside the process. *)

(* The writer service stores the first electrical array it sees.           *)
InsertLaserMetadata ==
    /\ laser = "absent"
    /\ laser' = "present"
    /\ UNCHANGED <<rawTopic, uncommitted, serviceVars, historyVars, boundVars>>

(* The consumer commits on its own, but only when it polls for the next    *)
(* messages: never while one is in hand.                                   *)
CommitOffsets ==
    /\ pc = "next" /\ uncommitted # {}
    /\ uncommitted' = {}
    /\ UNCHANGED <<rawTopic, laser, serviceVars, historyVars, boundVars>>

Redeliver ==
    /\ redeliveries < MAX_REDELIVERIES
    /\ redeliveries' = redeliveries + 1
    /\ \E m \in RawMessages \ rawTopic : rawTopic' = rawTopic \cup {m}
    /\ UNCHANGED <<uncommitted, laser, serviceVars, historyVars, crashes, faults>>

(* The process stops anywhere and starts again with an empty array.        *)
Crash ==
    /\ crashes < MAX_CRASHES
    /\ crashes' = crashes + 1
    /\ rawTopic' = rawTopic \cup uncommitted
    /\ uncommitted' = {}
    /\ pc' = "next"
    /\ sweeps_id' = None
    /\ accumulated_data' = << >>
    /\ UNCHANGED <<laser, historyVars, redeliveries, faults>>

Environment == InsertLaserMetadata \/ CommitOffsets \/ Redeliver \/ Crash

Next == Service \/ Environment

Spec == Init /\ [][Next]_vars

(* The process runs whenever it has something to do.                       *)
FairSpec == Spec /\ WF_vars(Service)

-----------------------------------------------------------------------------
Correlated(s) == \E r \in correlationTopic : r.second_sweeps_id = s

(* The correlations of one life of the process extend one another: the     *)
(* data of one is the beginning of the data of the other, it has at least  *)
(* two sweeps and ends with the sweep that names the record.               *)
Begins(d, e) == Len(d) <= Len(e) /\ \A i \in 1..Len(d) : d[i] = e[i]
CorrelationsNest ==
    /\ \A r \in correlationTopic :
          Len(r.data) >= 2 /\ r.data[Len(r.data)] = r.second_sweeps_id
    /\ \A r, q \in correlationTopic :
          r.life = q.life => Begins(r.data, q.data) \/ Begins(q.data, r.data)

(* A raw sweep is on the topic, in hand, on the correlation topic, or was  *)
(* given up; neither a restart between any two steps nor a commit of the   *)
(* offsets loses one.                                                      *)
NoSweepLost ==
    \A s \in Sweeps :
        Raw(s) \in rawTopic \/ sweeps_id = s \/ Correlated(s) \/ s \in skipped

(* Only the first sweep of each life of the process, those that came       *)
(* before the laser metadata and those hit by a failure get no correlation.*)
OnlyFirstsSkipped ==
    Cardinality(skipped) <= 1 + crashes + early + faults

(* Every raw sweep on the topic is eventually correlated or given up.      *)
EverySweepHandled ==
    \A s \in Sweeps : Raw(s) \in rawTopic ~> (Correlated(s) \/ s \in skipped)

-----------------------------------------------------------------------------
(* Inductive invariants behind the safety properties.                      *)

(* While a sweep is in hand it is the last of at least two; what this life *)
(* has published is a beginning of the array it holds now.                 *)
ArrayInv ==
    /\ pc # "next" =>
          /\ Len(accumulated_data) >= 2
          /\ accumulated_data[Len(accumulated_data)] = sweeps_id
    /\ \A r \in correlationTopic :
          /\ r.life <= crashes
          /\ r.life = crashes => Begins(r.data, accumulated_data)
NestInv == ArrayInv /\ CorrelationsNest

(* The sweep in hand is still uncommitted.                                 *)
LossInv ==
    /\ pc = "next" => sweeps_id = None
    /\ pc # "next" => Raw(sweeps_id) \in uncommitted
    /\ NoSweepLost

(* Before its first sweep, a life has skipped nothing.                     *)
Excuses == crashes + early + faults
SkipInv ==
    /\ IsFiniteSet(skipped)
    /\ Cardinality(skipped) <= 1 + Excuses
    /\ accumulated_data = << >> => Cardinality(skipped) <= Excuses

InductiveInv == NestInv /\ LossInv /\ SkipInv
=============================================================================
