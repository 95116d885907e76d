--------------------------- MODULE AcquisitionProofs ---------------------------
(***************************************************************************)
(* Proofs about the acquisition.  First the correlation service by itself: *)
(* its type invariant, the nesting of the correlations of one life of the  *)
(* process, the fact that no raw sweep is lost, and the bound on the sweeps*)
(* that get no correlation.  Then the producer: what its messages and its  *)
(* topic are at each step, and that the correlation service, fed by it,    *)
(* implements the correlation service that starts with every message on    *)
(* its topic.                                                              *)
(*                                                                         *)
(* What the refinement needs to know of the producer is that it never sends*)
(* a message again: Deliver would then make the topic of the specification *)
(* grow, which only a redelivery may.                                      *)
(***************************************************************************)
EXTENDS Acquisition, FiniteSetTheorems, TLAPS

USE DEF serviceVars, historyVars, boundVars, Fault, Read, GiveUp, Publish

(* Every action of the correlation service preserves its type invariant.   *)
LEMMA TypeStep ==
    ASSUME TypeOK, [Next]_vars
    PROVE  TypeOK'
  <1> USE BoundsAssumption, NoneAssumption DEF TypeOK, RawMessages
  <1>1. ASSUME NEW m \in RawMessages,
               SkipElec(m) \/ DropMessage(m) \/ FirstChunk(m) \/ Accumulate(m)
        PROVE  TypeOK'
    <2>1. CASE SkipElec(m)
      BY <2>1 DEF SkipElec
    <2>2. CASE DropMessage(m)
      BY <2>2 DEF DropMessage
    <2>3. CASE FirstChunk(m)
      BY <2>3 DEF FirstChunk
    <2>4. CASE Accumulate(m)
      BY <2>4 DEF Accumulate
    <2> QED
      BY <1>1, <2>1, <2>2, <2>3, <2>4
  <1>2. CASE GetAcquisitionCharacteristics \/ NoCharacteristics \/ CallFails
    BY <1>2 DEF GetAcquisitionCharacteristics, NoCharacteristics, CallFails
  <1>3. CASE Send \/ SendUnacknowledged
    BY <1>3 DEF Send, SendUnacknowledged, Correlation
  <1>4. CASE InsertLaserMetadata \/ CommitOffsets \/ Redeliver
    BY <1>4 DEF InsertLaserMetadata, CommitOffsets, Redeliver
  <1>5. CASE Crash
    BY <1>5 DEF Crash
  <1>6. CASE UNCHANGED vars
    BY <1>6 DEF vars
  <1> QED
    BY <1>1, <1>2, <1>3, <1>4, <1>5, <1>6 DEF Next, Service, Environment

(* Type correctness of the correlation service.                            *)
THEOREM TypeCorrect == Spec => []TypeOK
  <1>1. Init => TypeOK
    BY BoundsAssumption DEF Init, ServiceInit, TypeOK
  <1>2. TypeOK /\ [Next]_vars => TypeOK'
    BY TypeStep
  <1> QED
    BY <1>1, <1>2, PTL DEF Spec

-----------------------------------------------------------------------------
(* What has been published stays nested when the array of the present life *)
(* only grows.                                                             *)
LEMMA GrowthKeepsNest ==
    ASSUME TypeOK, TypeOK', NestInv, pc' # "next" => pc = pc' \/ pc = "next",
           correlationTopic' = correlationTopic, crashes' = crashes,
           Begins(accumulated_data, accumulated_data'),
           pc' # "next" =>
              /\ Len(accumulated_data') >= 2
              /\ accumulated_data'[Len(accumulated_data')] = sweeps_id'
    PROVE  NestInv'
  <1>1. ASSUME NEW r \in correlationTopic, r.life = crashes
        PROVE  Begins(r.data, accumulated_data')
    <2>1. Begins(r.data, accumulated_data)
      BY <1>1 DEF NestInv, ArrayInv
    <2>2. r.data \in Seq(Sweeps)
      BY DEF TypeOK, Correlation
    <2> QED
      BY <2>1, <2>2 DEF Begins, TypeOK
  <1>2. ArrayInv'
    BY <1>1 DEF NestInv, ArrayInv
  <1>3. CorrelationsNest'
    BY DEF NestInv, CorrelationsNest
  <1> QED
    BY <1>2, <1>3 DEF NestInv

(* A send publishes the array itself, of which everything published before *)
(* is a beginning.                                                         *)
LEMMA PublishKeepsNest ==
    ASSUME TypeOK, TypeOK', NestInv, pc = "send", Publish, pc' = "next",
           accumulated_data' = accumulated_data, crashes' = crashes
    PROVE  NestInv'
  <1> DEFINE new == [second_sweeps_id |-> sweeps_id, data |-> accumulated_data,
                     life |-> crashes]
  <1>1. correlationTopic' = correlationTopic \cup {new}
    OBVIOUS
  <1>2. /\ new.data = accumulated_data /\ new.life = crashes
        /\ new.second_sweeps_id = sweeps_id
    OBVIOUS
  <1>3. accumulated_data \in Seq(Sweeps) /\ crashes \in Nat
    BY BoundsAssumption DEF TypeOK
  <1>4. Begins(accumulated_data, accumulated_data)
    BY <1>3 DEF Begins
  <1>5. Len(new.data) >= 2 /\ new.data[Len(new.data)] = new.second_sweeps_id
    BY <1>2 DEF NestInv, ArrayInv
  <1> HIDE DEF new
  <1>6. ASSUME NEW r \in correlationTopic', r.life = crashes
        PROVE  Begins(r.data, new.data)
    BY <1>1, <1>2, <1>4, <1>6 DEF NestInv, ArrayInv
  <1>7. ArrayInv'
    BY <1>1, <1>2, <1>3, <1>6 DEF NestInv, ArrayInv
  <1>8. ASSUME NEW r \in correlationTopic', NEW q \in correlationTopic',
               r.life = q.life
        PROVE  Begins(r.data, q.data) \/ Begins(q.data, r.data)
    <2>1. CASE r \in correlationTopic /\ q \in correlationTopic
      BY <1>8, <2>1 DEF NestInv, CorrelationsNest
    <2>2. CASE r = new
      BY <1>2, <1>6, <1>8, <2>2
    <2>3. CASE q = new
      BY <1>2, <1>6, <1>8, <2>3
    <2> QED
      BY <1>1, <2>1, <2>2, <2>3
  <1>9. CorrelationsNest'
    BY <1>1, <1>5, <1>8 DEF NestInv, CorrelationsNest
  <1> QED
    BY <1>7, <1>9 DEF NestInv

LEMMA NestStep ==
    ASSUME TypeOK, TypeOK', NestInv, [Next]_vars
    PROVE  NestInv'
  <1>0. accumulated_data \in Seq(Sweeps) /\ Begins(accumulated_data, accumulated_data)
    BY DEF TypeOK, Begins
  <1>1. ASSUME NEW m \in RawMessages, SkipElec(m) \/ DropMessage(m)
        PROVE  NestInv'
    BY <1>0, <1>1, GrowthKeepsNest DEF SkipElec, DropMessage, NestInv, ArrayInv
  <1>2. ASSUME NEW m \in RawMessages, FirstChunk(m)
        PROVE  NestInv'
    <2>1. Begins(accumulated_data, accumulated_data')
      BY <1>2 DEF FirstChunk, Begins
    <2> QED
      BY <1>2, <2>1, GrowthKeepsNest DEF FirstChunk, NestInv, ArrayInv
  <1>3. ASSUME NEW m \in RawMessages, Accumulate(m)
        PROVE  NestInv'
    <2>1. /\ accumulated_data' = Append(accumulated_data, m.sweeps_id)
          /\ accumulated_data # << >> /\ sweeps_id' = m.sweeps_id
      BY <1>3 DEF Accumulate
    <2>2. Begins(accumulated_data, accumulated_data')
      BY <1>0, <2>1 DEF Begins
    <2>3. /\ Len(accumulated_data') >= 2
          /\ accumulated_data'[Len(accumulated_data')] = sweeps_id'
      BY <1>0, <2>1
    <2> QED
      BY <1>3, <2>2, <2>3, GrowthKeepsNest DEF Accumulate
  <1>4. CASE GetAcquisitionCharacteristics \/ NoCharacteristics \/ CallFails
    <2>1. accumulated_data' = accumulated_data /\ correlationTopic' = correlationTopic
          /\ crashes' = crashes
      BY <1>4 DEF GetAcquisitionCharacteristics, NoCharacteristics, CallFails
    <2>2. pc' # "next" => pc # "next" /\ sweeps_id' = sweeps_id
      BY <1>4 DEF GetAcquisitionCharacteristics, NoCharacteristics, CallFails
    <2>3. ArrayInv'
      BY <2>1, <2>2 DEF NestInv, ArrayInv
    <2> QED
      BY <2>1, <2>3 DEF NestInv, CorrelationsNest
  <1>5. CASE Send \/ SendUnacknowledged
    BY <1>5, PublishKeepsNest DEF Send, SendUnacknowledged
  <1>6. CASE InsertLaserMetadata \/ CommitOffsets \/ Redeliver \/ UNCHANGED vars
    BY <1>6 DEF InsertLaserMetadata, CommitOffsets, Redeliver, vars, NestInv,
                ArrayInv, CorrelationsNest
  <1>7. CASE Crash
    <2>1. crashes \in Nat /\ crashes' = crashes + 1 /\ pc' = "next"
          /\ correlationTopic' = correlationTopic
      BY <1>7, BoundsAssumption DEF Crash, TypeOK
    <2>2. \A r \in correlationTopic : r.life \in Nat /\ r.life <= crashes
      BY DEF NestInv, ArrayInv, TypeOK, Correlation
    <2>3. ArrayInv'
      BY <2>1, <2>2 DEF ArrayInv
    <2> QED
      BY <2>1, <2>3 DEF NestInv, CorrelationsNest
  <1> QED
    BY <1>1, <1>2, <1>3, <1>4, <1>5, <1>6, <1>7 DEF Next, Service, Environment

(* The correlations of one life of the process extend one another.         *)
THEOREM PublishedNest == Spec => []CorrelationsNest
  <1>1. Init => NestInv
    BY DEF Init, ServiceInit, NestInv, ArrayInv, CorrelationsNest
  <1>2. TypeOK /\ TypeOK' /\ NestInv /\ [Next]_vars => NestInv'
    BY NestStep
  <1>3. NestInv => CorrelationsNest
    BY DEF NestInv
  <1> QED
    BY <1>1, <1>2, <1>3, TypeCorrect, PTL DEF Spec

-----------------------------------------------------------------------------
LEMMA LossStep ==
    ASSUME TypeOK, TypeOK', LossInv, [Next]_vars
    PROVE  LossInv'
  <1> USE NoneAssumption DEF LossInv, NoSweepLost, TypeOK, RawMessages, Raw
  <1>1. ASSUME NEW m \in RawMessages,
               SkipElec(m) \/ DropMessage(m) \/ FirstChunk(m) \/ Accumulate(m)
        PROVE  LossInv'
    BY <1>1 DEF SkipElec, DropMessage, FirstChunk, Accumulate, Correlated
  <1>2. CASE GetAcquisitionCharacteristics \/ NoCharacteristics \/ CallFails
    BY <1>2 DEF GetAcquisitionCharacteristics, NoCharacteristics, CallFails,
                Correlated
  <1>3. CASE Send \/ SendUnacknowledged
    <2>1. \A s \in Sweeps : Correlated(s) => Correlated(s)'
      BY <1>3 DEF Send, SendUnacknowledged, Correlated
    <2> DEFINE new == [second_sweeps_id |-> sweeps_id,
                       data |-> accumulated_data, life |-> crashes]
    <2>2. new \in correlationTopic' /\ new.second_sweeps_id = sweeps_id
      BY <1>3 DEF Send, SendUnacknowledged
    <2> QED
      BY <1>3, <2>1, <2>2 DEF Send, SendUnacknowledged, Correlated
  <1>4. CASE InsertLaserMetadata \/ CommitOffsets \/ Redeliver \/ UNCHANGED vars
    BY <1>4 DEF InsertLaserMetadata, CommitOffsets, Redeliver, vars, Correlated
  <1>5. CASE Crash
    <2>1. \A s \in Sweeps : sweeps_id = s => Raw(s) \in rawTopic'
      BY <1>5 DEF Crash
    <2> QED
      BY <1>5, <2>1 DEF Crash, Correlated
  <1> QED
    BY <1>1, <1>2, <1>3, <1>4, <1>5 DEF Next, Service, Environment

(* No raw sweep is lost between the topic and its correlation, whatever    *)
(* the restarts and the commits.                                           *)
THEOREM RawSweepsKept == Spec => []NoSweepLost
  <1>1. Init => LossInv
    BY DEF Init, ServiceInit, LossInv, NoSweepLost, RawMessages, Raw
  <1>2. TypeOK /\ TypeOK' /\ LossInv /\ [Next]_vars => LossInv'
    BY LossStep
  <1>3. LossInv => NoSweepLost
    BY DEF LossInv
  <1> QED
    BY <1>1, <1>2, <1>3, TypeCorrect, PTL DEF Spec

-----------------------------------------------------------------------------
(* One more sweep makes a finite set of sweeps larger by at most one.      *)
LEMMA OneMore ==
    ASSUME NEW S, IsFiniteSet(S), NEW x
    PROVE  /\ IsFiniteSet(S \cup {x})
           /\ Cardinality(S) \in Nat
           /\ Cardinality(S \cup {x}) \in {Cardinality(S), Cardinality(S) + 1}
  <1>1. Cardinality(S) \in Nat
    BY FS_CardinalityType
  <1>2. /\ IsFiniteSet(S \cup {x})
        /\ Cardinality(S \cup {x}) =
             IF x \in S THEN Cardinality(S) ELSE Cardinality(S) + 1
    BY FS_AddElement
  <1> QED
    BY <1>1, <1>2

LEMMA SkipStep ==
    ASSUME TypeOK, TypeOK', SkipInv, [Next]_vars
    PROVE  SkipInv'
  <1>1. crashes \in Nat /\ early \in Nat /\ faults \in Nat
    BY BoundsAssumption DEF TypeOK
  <1>2. Excuses \in Nat
    BY <1>1 DEF Excuses
  <1>3. /\ IsFiniteSet(skipped) /\ Cardinality(skipped) \in Nat
        /\ Cardinality(skipped) <= 1 + Excuses
        /\ accumulated_data = << >> => Cardinality(skipped) <= Excuses
    BY FS_CardinalityType DEF SkipInv
  <1>4. ASSUME skipped' = skipped, Excuses' \in {Excuses, Excuses + 1},
               accumulated_data' = << >> =>
                  accumulated_data = << >> \/ Excuses' = Excuses + 1
        PROVE  SkipInv'
    BY <1>2, <1>3, <1>4 DEF SkipInv
  <1>5. ASSUME NEW x, skipped' = skipped \cup {x},
               \/ /\ Excuses' = Excuses + 1
                  /\ accumulated_data' = accumulated_data
               \/ /\ Excuses' = Excuses
                  /\ accumulated_data = << >> /\ accumulated_data' # << >>
        PROVE  SkipInv'
    <2>1. /\ IsFiniteSet(skipped')
          /\ Cardinality(skipped') \in {Cardinality(skipped),
                                       Cardinality(skipped) + 1}
      BY <1>3, <1>5, OneMore
    <2> QED
      BY <1>2, <1>3, <1>5, <2>1 DEF SkipInv
  <1>6. ASSUME NEW m \in RawMessages,
               SkipElec(m) \/ DropMessage(m) \/ FirstChunk(m) \/ Accumulate(m)
        PROVE  SkipInv'
    <2>1. CASE SkipElec(m)
      BY <1>2, <1>4, <2>1 DEF SkipElec, Excuses
    <2>2. CASE DropMessage(m)
      <3>1. Excuses' = Excuses + 1
        BY <1>1, <2>2 DEF DropMessage, Excuses
      <3> QED
        BY <1>5, <2>2, <3>1 DEF DropMessage
    <2>3. CASE FirstChunk(m)
      <3>1. Excuses' = Excuses /\ accumulated_data' # << >>
        BY <2>3 DEF FirstChunk, Excuses
      <3> QED
        BY <1>5, <2>3, <3>1 DEF FirstChunk
    <2>4. CASE Accumulate(m)
      BY <1>1, <1>4, <2>4 DEF Accumulate, Excuses
    <2> QED
      BY <1>6, <2>1, <2>2, <2>3, <2>4
  <1>7. CASE GetAcquisitionCharacteristics
    BY <1>2, <1>4, <1>7 DEF GetAcquisitionCharacteristics, Excuses
  <1>8. CASE NoCharacteristics
    <2>1. Excuses' = Excuses + 1
      BY <1>1, <1>8 DEF NoCharacteristics, Excuses
    <2> QED
      BY <1>5, <1>8, <2>1 DEF NoCharacteristics
  <1>9. CASE CallFails
    <2>1. Excuses' = Excuses + 1
      BY <1>1, <1>9 DEF CallFails, Excuses
    <2> QED
      BY <1>5, <1>9, <2>1 DEF CallFails
  <1>10. CASE Send \/ SendUnacknowledged
    BY <1>1, <1>4, <1>10 DEF Send, SendUnacknowledged, Excuses
  <1>11. CASE InsertLaserMetadata \/ CommitOffsets \/ Redeliver \/ UNCHANGED vars
    BY <1>2, <1>4, <1>11 DEF InsertLaserMetadata, CommitOffsets, Redeliver, vars,
                           Excuses
  <1>12. CASE Crash
    BY <1>1, <1>4, <1>12 DEF Crash, Excuses
  <1> QED
    BY <1>6, <1>7, <1>8, <1>9, <1>10, <1>11, <1>12 DEF Next, Service, Environment

(* At most one sweep for each life of the process, one for each message    *)
(* that came before the laser metadata and one for each failure are left   *)
(* without a correlation.                                                  *)
THEOREM FewSkipped == Spec => []OnlyFirstsSkipped
  <1>1. Init => SkipInv
    BY FS_EmptySet DEF Init, ServiceInit, SkipInv, Excuses
  <1>2. TypeOK /\ TypeOK' /\ SkipInv /\ [Next]_vars => SkipInv'
    BY SkipStep
  <1>3. TypeOK /\ SkipInv => OnlyFirstsSkipped
    BY BoundsAssumption, FS_CardinalityType DEF SkipInv, OnlyFirstsSkipped, TypeOK, Excuses
  <1> QED
    BY <1>1, <1>2, <1>3, TypeCorrect, PTL DEF Spec

-----------------------------------------------------------------------------
(* The producer and its topic.                                             *)

(* Messages that exist.                                                    *)
Sent == inFlight \cup delivered

(* What is read was delivered, nothing is delivered twice, and no message  *)
(* of a sweep exists before its turn.                                      *)
DeliveryInv ==
    /\ rawTopic \subseteq delivered
    /\ uncommitted \subseteq delivered
    /\ delivered \subseteq RawMessages
    /\ inFlight \subseteq RawMessages
    /\ inFlight \cap delivered = {}
    /\ \A m \in Sent : m.sweeps_id \notin unread
    /\ step \in {"raw", "elec"} => current \in Sweeps \ unread
    /\ step = "raw" => \A m \in Sent : m.sweeps_id # current
    /\ step = "elec" => Elec(current) \notin Sent

USE DEF producerVars, Failure

(* The two messages of a sweep are of the topic, and are two.              *)
LEMMA MessagesOfSweep ==
    ASSUME NEW s \in Sweeps
    PROVE  /\ Raw(s) \in RawMessages /\ Elec(s) \in RawMessages
           /\ Raw(s).sweeps_id = s /\ Elec(s).sweeps_id = s
           /\ Raw(s) # Elec(s)
  BY DEF Raw, Elec, RawMessages

-----------------------------------------------------------------------------
(* The steps of the producer that send nothing.                            *)
LEMMA QuietStep ==
    ASSUME DeliveryInv,
           \/ ListTopics \/ DescribeTopics \/ CreatePartitions \/ CreateTopics
           \/ AdminFails \/ AutoCreate \/ SendRaises \/ RawAnswer \/ ElecAnswer
           \/ NoAnswer \/ ProducerStops
    PROVE  DeliveryInv'
  <1> USE DEF DeliveryInv, Sent, vars, topicStepVars, topicVars
  <1>1. CASE ListTopics \/ DescribeTopics \/ CreatePartitions \/ CreateTopics \/ AdminFails
    BY <1>1 DEF ListTopics, DescribeTopics, CreatePartitions, CreateTopics, AdminFails
  <1>2. CASE AutoCreate
    BY <1>2 DEF AutoCreate
  <1>3. CASE SendRaises \/ RawAnswer \/ ElecAnswer
    BY <1>3 DEF SendRaises, RawAnswer, ElecAnswer
  <1>4. CASE NoAnswer
    <2>1. inFlight' \subseteq inFlight /\ step' = "next"
      BY <1>4 DEF NoAnswer
    <2>2. UNCHANGED <<rawTopic, uncommitted, delivered, unread, current>>
      BY <1>4 DEF NoAnswer
    <2> QED
      BY <2>1, <2>2
  <1>5. CASE ProducerStops
    BY <1>5 DEF ProducerStops
  <1> QED
    BY <1>1, <1>2, <1>3, <1>4, <1>5

(* The steps that begin a sweep, send a message or deliver one.            *)
LEMMA SendingStep ==
    ASSUME DeliveryInv,
           \/ \E s \in Sweeps : NextPair(s)
           \/ SendRaw \/ SendElec
           \/ \E m \in RawMessages : Deliver(m)
    PROVE  DeliveryInv'
  <1> USE DEF DeliveryInv, Sent
  <1>1. ASSUME NEW s \in Sweeps, NextPair(s)
        PROVE  DeliveryInv'
    BY <1>1 DEF NextPair, vars, topicVars
  <1>2. CASE SendRaw
    <2>1. current \in Sweeps
      BY <1>2 DEF SendRaw
    <2>2. /\ Raw(current) \in RawMessages /\ Raw(current).sweeps_id = current
          /\ Elec(current).sweeps_id = current /\ Raw(current) # Elec(current)
      BY <2>1, MessagesOfSweep
    <2>3. Raw(current) \notin Sent /\ Elec(current) \notin Sent
      BY <1>2, <2>2 DEF SendRaw
    <2>4. /\ inFlight' = inFlight \cup {Raw(current)} /\ step' = "elec"
          /\ UNCHANGED <<rawTopic, uncommitted, delivered, unread, current>>
      BY <1>2 DEF SendRaw, vars, topicVars
    <2>5. (Elec(current))' = Elec(current)
      BY <2>4 DEF Elec
    <2>6. current \notin unread
      BY <1>2 DEF SendRaw
    <2> QED
      BY <2>1, <2>2, <2>3, <2>4, <2>5, <2>6
  <1>3. CASE SendElec
    <2>1. current \in Sweeps /\ current \notin unread
      BY <1>3 DEF SendElec
    <2>2. Elec(current) \in RawMessages /\ Elec(current).sweeps_id = current
      BY <2>1, MessagesOfSweep
    <2>3. Elec(current) \notin Sent
      BY <1>3 DEF SendElec
    <2>4. /\ inFlight' = inFlight \cup {Elec(current)} /\ step' = "raw answer"
          /\ UNCHANGED <<rawTopic, uncommitted, delivered, unread, current>>
      BY <1>3 DEF SendElec, vars, topicVars
    <2> QED
      BY <2>1, <2>2, <2>3, <2>4
  <1>4. ASSUME NEW m \in RawMessages, Deliver(m)
        PROVE  DeliveryInv'
    <2>1. /\ inFlight' = inFlight \ {m} /\ rawTopic' = rawTopic \cup {m}
          /\ delivered' = delivered \cup {m} /\ m \in inFlight
          /\ UNCHANGED <<uncommitted, unread, current, step>>
      BY <1>4 DEF Deliver
    <2>2. Sent' = Sent
      BY <2>1
    <2>3. (Elec(current))' = Elec(current)
      BY <2>1 DEF Elec
    <2> QED
      BY <2>1, <2>2, <2>3
  <1> QED
    BY <1>1, <1>2, <1>3, <1>4

(* The steps of the rest of the system take from the topic, or put back    *)
(* what had been delivered.                                                *)
LEMMA DownstreamStep ==
    ASSUME DeliveryInv, Downstream
    PROVE  DeliveryInv'
  <1>1. UNCHANGED <<inFlight, delivered, unread, current, step>>
    BY DEF Downstream
  <1>2. rawTopic' \subseteq delivered /\ uncommitted' \subseteq delivered
    <2> USE DEF DeliveryInv, serviceVars, historyVars, boundVars
    <2>1. ASSUME NEW m \in RawMessages,
                 SkipElec(m) \/ DropMessage(m) \/ FirstChunk(m) \/ Accumulate(m)
          PROVE  rawTopic' \subseteq delivered /\ uncommitted' \subseteq delivered
      BY <2>1 DEF SkipElec, DropMessage, FirstChunk, Accumulate, Read
    <2>2. CASE GetAcquisitionCharacteristics \/ NoCharacteristics \/ CallFails
               \/ Send \/ SendUnacknowledged
      BY <2>2 DEF GetAcquisitionCharacteristics, NoCharacteristics, CallFails,
                  Send, SendUnacknowledged, GiveUp
    <2>3. CASE CommitOffsets
      BY <2>3 DEF CommitOffsets
    <2>4. CASE Crash
      BY <2>4 DEF Crash
    <2>5. CASE Redeliver /\ rawTopic' \subseteq delivered
      BY <2>5 DEF Redeliver
    <2>6. CASE InsertLaserMetadata
      BY <2>6 DEF InsertLaserMetadata
    <2> QED
      BY <2>1, <2>2, <2>3, <2>4, <2>5, <2>6 DEF Downstream, Service
  <1>3. (Elec(current))' = Elec(current) /\ Sent' = Sent
    BY <1>1 DEF Elec, Sent
  <1> QED
    BY <1>1, <1>2, <1>3 DEF DeliveryInv

(* No message is on the topic that was not delivered, and none is delivered*)
(* twice (produce_raw sends each of its messages once).                    *)
THEOREM DeliveredOnce == AcquisitionSpec => []DeliveryInv
  <1>1. AcquisitionInit => DeliveryInv
    BY DEF AcquisitionInit, ServiceInit, DeliveryInv, Sent
  <1>2. DeliveryInv /\ [AcquisitionNext]_acquisitionVars => DeliveryInv'
    <2> SUFFICES ASSUME DeliveryInv, [AcquisitionNext]_acquisitionVars
                 PROVE  DeliveryInv'
      OBVIOUS
    <2>1. CASE Producer \/ AutoCreate \/ \E m \in RawMessages : Deliver(m)
      BY <2>1, QuietStep, SendingStep DEF Producer
    <2>2. CASE Downstream
      BY <2>2, DownstreamStep
    <2>3. CASE UNCHANGED acquisitionVars
      BY <2>3 DEF acquisitionVars, vars, DeliveryInv, Sent, Elec
    <2> QED
      BY <2>1, <2>2, <2>3 DEF AcquisitionNext
  <1> QED
    BY <1>1, <1>2, PTL DEF AcquisitionSpec

-----------------------------------------------------------------------------
(* The topic of the specification.                                         *)
Topic == rawTopic \cup (RawMessages \ delivered)

(* A message that is read leaves the topic of the specification too.       *)
LEMMA ReadImplements ==
    ASSUME DeliveryInv, NEW m \in RawMessages, Read(m), delivered' = delivered
    PROVE  Correlating!Read(m)
  BY DEF DeliveryInv, Read, Correlating!Read

(* What the producer, the broker and the Kafka client do is no step of the *)
(* specification.                                                          *)
LEMMA ProducerImplements ==
    ASSUME DeliveryInv, Producer \/ AutoCreate \/ \E m \in RawMessages : Deliver(m)
    PROVE  UNCHANGED Correlating!vars
  <1> USE DEF Correlating!vars, Correlating!serviceVars, Correlating!historyVars,
              Correlating!boundVars, vars, serviceVars, historyVars, boundVars
  <1>1. CASE \E m \in RawMessages : Deliver(m)
    BY <1>1 DEF Deliver, DeliveryInv
  <1>2. CASE Producer \/ AutoCreate
    <2>1. UNCHANGED <<vars, delivered>>
      BY <1>2 DEF Producer, ListTopics, DescribeTopics, CreatePartitions, CreateTopics,
                  AdminFails, AutoCreate, NextPair, SendRaw, SendElec, SendRaises,
                  RawAnswer, ElecAnswer, NoAnswer, ProducerStops, topicStepVars,
                  topicVars
    <2> QED
      BY <2>1
  <1> QED
    BY <1>1, <1>2

(* What the rest of the system does is the same step of the specification. *)
LEMMA DownstreamImplements ==
    ASSUME DeliveryInv, Downstream
    PROVE  Correlating!Next
  <1> USE DEF serviceVars, historyVars, boundVars, Correlating!serviceVars,
              Correlating!historyVars, Correlating!boundVars
  <1>1. delivered' = delivered
    BY DEF Downstream
  <1>2. rawTopic' = rawTopic => UNCHANGED Topic
    BY <1>1 DEF Topic
  <1>3. ASSUME NEW m \in RawMessages,
               SkipElec(m) \/ DropMessage(m) \/ FirstChunk(m) \/ Accumulate(m)
        PROVE  Correlating!Service
    <2>1. Correlating!Read(m)
      BY <1>1, <1>3, ReadImplements DEF SkipElec, DropMessage, FirstChunk, Accumulate
    <2>2. \/ Correlating!SkipElec(m) \/ Correlating!DropMessage(m)
          \/ Correlating!FirstChunk(m) \/ Correlating!Accumulate(m)
      BY <1>3, <2>1 DEF SkipElec, DropMessage, FirstChunk, Accumulate, Fault,
             Correlating!SkipElec, Correlating!DropMessage, Correlating!FirstChunk,
             Correlating!Accumulate, Correlating!Fault
    <2> QED
      BY <2>2 DEF Correlating!Service, Correlating!RawMessages, RawMessages
  <1>4. CASE GetAcquisitionCharacteristics \/ NoCharacteristics \/ CallFails
             \/ Send \/ SendUnacknowledged
    <2>1. UNCHANGED Topic
      BY <1>2, <1>4 DEF GetAcquisitionCharacteristics, NoCharacteristics, CallFails, Send,
             SendUnacknowledged, GiveUp
    <2> QED
      BY <1>4, <2>1 DEF Topic, GetAcquisitionCharacteristics, NoCharacteristics, CallFails,
             Send, SendUnacknowledged, GiveUp, Fault, Publish,
             Correlating!GetAcquisitionCharacteristics, Correlating!NoCharacteristics,
             Correlating!CallFails, Correlating!Send, Correlating!SendUnacknowledged,
             Correlating!GiveUp, Correlating!Fault, Correlating!Publish,
             Correlating!Service, Correlating!Next
  <1>5. CASE CommitOffsets \/ InsertLaserMetadata
    BY <1>1, <1>5 DEF CommitOffsets, InsertLaserMetadata, Correlating!CommitOffsets,
           Correlating!InsertLaserMetadata, Correlating!Environment, Correlating!Next
  <1>6. CASE Redeliver /\ rawTopic' \subseteq delivered
    <2>1. PICK m \in RawMessages \ rawTopic : rawTopic' = rawTopic \cup {m}
      BY <1>6 DEF Redeliver
    <2>2. m \notin Topic /\ Topic' = Topic \cup {m}
      BY <1>1, <1>6, <2>1 DEF Topic
    <2>3. Correlating!Redeliver
      BY <1>6, <2>1, <2>2 DEF Redeliver, Topic, Correlating!Redeliver, RawMessages,
             Correlating!RawMessages
    <2> QED
      BY <2>3 DEF Correlating!Environment, Correlating!Next
  <1>7. CASE Crash
    BY <1>1, <1>7 DEF Crash, Correlating!Crash, Correlating!Environment,
           Correlating!Next
  <1> QED
    BY <1>3, <1>4, <1>5, <1>6, <1>7 DEF Downstream, Service, Correlating!Next

(* The correlation service, fed by a producer that may be slow, fail or    *)
(* stop and through a topic that anybody may create, does nothing that it  *)
(* would not do on a topic that holds every message from the start.        *)
THEOREM AcquisitionImplements == AcquisitionSpec => ImplementsCorrelationService
  <1>1. AcquisitionInit => Correlating!Init
    BY DEF AcquisitionInit, ServiceInit, Correlating!Init, Correlating!ServiceInit,
           RawMessages, Correlating!RawMessages
  <1>2. DeliveryInv /\ [AcquisitionNext]_acquisitionVars
            => [Correlating!Next]_Correlating!vars
    <2> SUFFICES ASSUME DeliveryInv, [AcquisitionNext]_acquisitionVars
                 PROVE  Correlating!Next \/ UNCHANGED Correlating!vars
      OBVIOUS
    <2>1. CASE Producer \/ AutoCreate \/ \E m \in RawMessages : Deliver(m)
      BY <2>1, ProducerImplements
    <2>2. CASE Downstream
      BY <2>2, DownstreamImplements
    <2>3. CASE UNCHANGED acquisitionVars
      BY <2>3 DEF acquisitionVars, vars, serviceVars, historyVars, boundVars,
             Correlating!vars, Correlating!serviceVars, Correlating!historyVars,
             Correlating!boundVars
    <2> QED
      BY <2>1, <2>2, <2>3 DEF AcquisitionNext
  <1> QED
    BY <1>1, <1>2, DeliveredOnce, PTL DEF AcquisitionSpec,
       ImplementsCorrelationService, Correlating!Spec
-----------------------------------------------------------------------------
(* The types, and what the service promises when the producer feeds it.    *)

(* The variables of the producer, among AcquisitionTypeOK's.               *)
ProducerTypeOK ==
    /\ partitions \in {0, DEFAULT_PARTITIONS, PARTITIONS}
    /\ step \in Steps
    /\ unread \subseteq Sweeps
    /\ current \in Sweeps \cup {None}
    /\ hit \subseteq Sweeps
    /\ surprised \in {"no", "yes"}
    /\ failures \in 0..MAX_FAILURES
    /\ step \in {"raw", "elec", "raw answer", "elec answer"} => current \in Sweeps
    /\ step \in {"list", "describe", "create", "grow"} => current = None

LEMMA ProducerTypes ==
    ASSUME ProducerTypeOK, [AcquisitionNext]_acquisitionVars
    PROVE  ProducerTypeOK'
  <1>f. ASSUME Failure
        PROVE  failures' \in 0..MAX_FAILURES
    <2>1. MAX_FAILURES \in Nat /\ failures \in 0..MAX_FAILURES
      BY PartitionsAssumption DEF ProducerTypeOK
    <2> QED
      BY <1>f, <2>1
  <1> USE DEF ProducerTypeOK, Steps, topicStepVars, topicVars
  <1>1. CASE ListTopics \/ DescribeTopics \/ CreateTopics \/ AutoCreate
    BY <1>1 DEF ListTopics, DescribeTopics, CreateTopics, AutoCreate
  <1>2. CASE CreatePartitions \/ AdminFails
    BY <1>2, <1>f DEF CreatePartitions, AdminFails, Failure
  <1>3. CASE (\E s \in Sweeps : NextPair(s)) \/ SendRaw \/ SendElec
    BY <1>3 DEF NextPair, SendRaw, SendElec
  <1>4. CASE SendRaises \/ NoAnswer
    BY <1>4, <1>f DEF SendRaises, NoAnswer, Failure
  <1>5. CASE RawAnswer \/ ElecAnswer
    BY <1>5 DEF RawAnswer, ElecAnswer
  <1>6. CASE ProducerStops
    BY <1>6, <1>f DEF ProducerStops, Failure
  <1>7. CASE \/ \E m \in RawMessages : Deliver(m)
             \/ Downstream \/ UNCHANGED acquisitionVars
    BY <1>7 DEF Deliver, Downstream, acquisitionVars
  <1> QED
    BY <1>1, <1>2, <1>3, <1>4, <1>5, <1>6, <1>7 DEF AcquisitionNext, Producer

(* A step of the acquisition is one of the service, or one that leaves the *)
(* service alone but for a message that reaches its topic.                 *)
LEMMA ServiceStep ==
    ASSUME [AcquisitionNext]_acquisitionVars
    PROVE  \/ [Next]_vars
           \/ /\ \E m \in RawMessages : rawTopic' = rawTopic \cup {m}
              /\ UNCHANGED <<uncommitted, laser, serviceVars, historyVars, boundVars>>
  <1>1. CASE Producer \/ AutoCreate
    BY <1>1 DEF Producer, ListTopics, DescribeTopics, CreatePartitions, CreateTopics,
                AdminFails, AutoCreate, NextPair, SendRaw, SendElec, SendRaises,
                RawAnswer, ElecAnswer, NoAnswer, ProducerStops, topicStepVars, topicVars
  <1>2. CASE \E m \in RawMessages : Deliver(m)
    BY <1>2 DEF Deliver
  <1>3. CASE Downstream
    BY <1>3 DEF Downstream, Next, Environment
  <1>4. CASE UNCHANGED acquisitionVars
    BY <1>4 DEF acquisitionVars
  <1> QED
    BY <1>1, <1>2, <1>3, <1>4 DEF AcquisitionNext

FedInv == TypeOK /\ NestInv /\ SkipInv /\ ProducerTypeOK

LEMMA FedStep ==
    ASSUME FedInv, [AcquisitionNext]_acquisitionVars
    PROVE  FedInv'
  <1>1. ProducerTypeOK'
    BY ProducerTypes DEF FedInv
  <1>2. CASE [Next]_vars
    <2>1. TypeOK'
      BY <1>2, TypeStep DEF FedInv
    <2> QED
      BY <1>1, <1>2, <2>1, NestStep, SkipStep DEF FedInv
  <1>3. CASE /\ \E m \in RawMessages : rawTopic' = rawTopic \cup {m}
             /\ UNCHANGED <<uncommitted, laser, serviceVars, historyVars, boundVars>>
    <2>1. TypeOK'
      BY <1>3 DEF FedInv, TypeOK
    <2>2. NestInv' /\ SkipInv'
      BY <1>3 DEF FedInv, NestInv, ArrayInv, CorrelationsNest, SkipInv, Excuses
    <2> QED
      BY <1>1, <2>1, <2>2 DEF FedInv
  <1> QED
    BY <1>2, <1>3, ServiceStep

(* The invariant of the service, when what it reads comes from a producer. *)
THEOREM FedCorrect == AcquisitionSpec => []FedInv
  <1>1. AcquisitionInit => FedInv
    <2> SUFFICES ASSUME AcquisitionInit
                 PROVE  FedInv
      OBVIOUS
    <2>1. TypeOK
      BY BoundsAssumption DEF AcquisitionInit, ServiceInit, TypeOK
    <2>2. NestInv
      BY DEF AcquisitionInit, ServiceInit, NestInv, ArrayInv, CorrelationsNest
    <2>3. SkipInv
      BY FS_EmptySet DEF AcquisitionInit, ServiceInit, SkipInv, Excuses
    <2>4. ProducerTypeOK
      BY PartitionsAssumption DEF AcquisitionInit, ProducerTypeOK, Steps
    <2> QED
      BY <2>1, <2>2, <2>3, <2>4 DEF FedInv
  <1>2. FedInv /\ [AcquisitionNext]_acquisitionVars => FedInv'
    BY FedStep
  <1> QED
    BY <1>1, <1>2, PTL DEF AcquisitionSpec

(* The variables of the service, the topic and the producer keep their     *)
(* types, and nothing is on the topic that was not delivered to it.        *)
THEOREM AcquisitionTypeCorrect == AcquisitionSpec => []AcquisitionTypeOK
  <1>1. FedInv /\ DeliveryInv => AcquisitionTypeOK
    BY DEF FedInv, ProducerTypeOK, DeliveryInv, AcquisitionTypeOK
  <1> QED
    BY <1>1, FedCorrect, DeliveredOnce, PTL

(* The correlations of one life nest, whenever the messages of a sweep     *)
(* reach the topic.                                                        *)
THEOREM FedPublishedNest == AcquisitionSpec => []CorrelationsNest
  <1>1. FedInv => CorrelationsNest
    BY DEF FedInv, NestInv
  <1> QED
    BY <1>1, FedCorrect, PTL

(* A slow or failing producer costs no correlation but those that the      *)
(* service itself skips.                                                   *)
THEOREM FedFewSkipped == AcquisitionSpec => []OnlyFirstsSkipped
  <1>1. FedInv => OnlyFirstsSkipped
    BY BoundsAssumption, FS_CardinalityType
       DEF FedInv, SkipInv, OnlyFirstsSkipped, TypeOK, Excuses
  <1> QED
    BY <1>1, FedCorrect, PTL

-----------------------------------------------------------------------------
(* The sweeps of the producer.                                             *)

(* Of a sweep that is over both messages have been delivered, or a failure *)
(* has hit it.                                                             *)
SweepOver(s) == {Raw(s), Elec(s)} \subseteq delivered \/ s \in hit

(* produce_raw goes on to the next sweep, or ends, only when the one in    *)
(* hand is over; the first of the two answers says that the raw message    *)
(* has been delivered.                                                     *)
OverInv ==
    /\ \A s \in Sweeps \ unread : s # current => SweepOver(s)
    /\ step \in {"next", "stopped"} /\ current # None => SweepOver(current)
    /\ step = "elec answer" => Raw(current) \in delivered

TurnInv == OverInv /\ SweepsInTurn

LEMMA TurnStep ==
    ASSUME FedInv, DeliveryInv, TurnInv, [AcquisitionNext]_acquisitionVars
    PROVE  TurnInv'
  <1> USE DEF TurnInv, OverInv
  <1>n. None \notin Sweeps
    BY NoneAssumption
  <1>1. ASSUME UNCHANGED <<unread, current, delivered, hit>>, inFlight' \subseteq inFlight,
               step' \in {"next", "stopped"} =>
                   step \in {"next", "stopped"} \/ current = None \/ SweepOver(current),
               step' = "elec answer" => step = "elec answer" \/ Raw(current) \in delivered
        PROVE  TurnInv'
    BY <1>1 DEF SweepOver, SweepsInTurn, Raw, Elec
  <1>2. ASSUME hit' = hit \cup {current}, current \in Sweeps,
               UNCHANGED <<unread, current, delivered>>, inFlight' \subseteq inFlight,
               step' \in {"next", "stopped"}
        PROVE  TurnInv'
    BY <1>2 DEF SweepOver, SweepsInTurn, Raw, Elec
  <1>c. /\ step \in {"raw", "elec", "raw answer", "elec answer"} => current \in Sweeps
        /\ current \in Sweeps \cup {None}
    BY DEF FedInv, ProducerTypeOK
  <1>3. CASE CreatePartitions \/ CreateTopics \/ ListTopics \/ DescribeTopics
             \/ AdminFails
    <2>1. /\ UNCHANGED <<unread, current, delivered, hit, inFlight>>
          /\ step' # "elec answer"
      BY <1>3 DEF CreatePartitions, CreateTopics, ListTopics, DescribeTopics, AdminFails,
                  topicStepVars
    <2>2. current = None
      BY <1>3 DEF FedInv, ProducerTypeOK, CreatePartitions, CreateTopics, ListTopics,
                  DescribeTopics, AdminFails
    <2> QED
      BY <1>1, <2>1, <2>2
  <1>4. CASE AutoCreate \/ RawAnswer \/ ElecAnswer
    BY <1>1, <1>4 DEF AutoCreate, RawAnswer, ElecAnswer, SweepOver, topicStepVars
  <1>5. CASE SendRaises \/ NoAnswer
    <2>1. inFlight' \subseteq inFlight
      BY <1>5 DEF SendRaises, NoAnswer
    <2> QED
      BY <1>2, <1>5, <1>c, <2>1 DEF SendRaises, NoAnswer
  <1>6. CASE ProducerStops
    <2>1. CASE current = None
      BY <1>1, <1>6, <2>1 DEF ProducerStops
    <2>2. CASE current # None
      BY <1>2, <1>6, <1>c, <2>2 DEF ProducerStops
    <2> QED
      BY <2>1, <2>2
  <1>7. ASSUME NEW s \in Sweeps, NextPair(s)
        PROVE  TurnInv'
    <2>1. /\ step = "next" /\ step' = "raw" /\ current' = s /\ s \in unread
          /\ unread' = unread \ {s} /\ UNCHANGED <<inFlight, delivered, hit>>
      BY <1>7 DEF NextPair
    <2>2. \A r \in Sweeps \ unread : SweepOver(r)
      BY <1>n, <2>1
    <2>3. OverInv'
      BY <2>1, <2>2 DEF SweepOver, Raw, Elec
    <2>4. ASSUME NEW m \in inFlight
          PROVE  m.sweeps_id \in hit
      <3>1. m \in RawMessages /\ m.sweeps_id \notin unread /\ m \notin delivered
        BY DEF DeliveryInv, Sent
      <3>2. m.sweeps_id \in Sweeps /\ m \in {Raw(m.sweeps_id), Elec(m.sweeps_id)}
        BY <3>1 DEF RawMessages, Raw, Elec
      <3> QED
        BY <2>2, <3>1, <3>2 DEF SweepOver
    <2> QED
      BY <2>1, <2>3, <2>4 DEF SweepsInTurn
  <1>8. ASSUME NEW m, m.sweeps_id = current, inFlight' = inFlight \cup {m},
               UNCHANGED <<unread, current, delivered, hit>>,
               step' \in {"elec", "raw answer"}
        PROVE  TurnInv'
    BY <1>8 DEF SweepOver, SweepsInTurn, Raw, Elec
  <1>9. CASE SendRaw \/ SendElec
    <2>1. UNCHANGED <<unread, current, delivered, hit>> /\ step' \in {"elec", "raw answer"}
      BY <1>9 DEF SendRaw, SendElec
    <2>2. CASE inFlight' = inFlight \cup {Raw(current)}
      <3>1. Raw(current).sweeps_id = current
        BY DEF Raw
      <3> QED
        BY <1>8, <2>1, <2>2, <3>1
    <2>3. CASE inFlight' = inFlight \cup {Elec(current)}
      <3>1. Elec(current).sweeps_id = current
        BY DEF Elec
      <3> QED
        BY <1>8, <2>1, <2>3, <3>1
    <2> QED
      BY <1>9, <2>2, <2>3 DEF SendRaw, SendElec
  <1>10. ASSUME NEW m \in RawMessages, Deliver(m)
         PROVE  TurnInv'
    BY <1>10 DEF Deliver, SweepOver, SweepsInTurn, Raw, Elec
  <1>11. CASE Downstream \/ UNCHANGED acquisitionVars
    BY <1>11 DEF Downstream, acquisitionVars, SweepOver, SweepsInTurn, Raw, Elec
  <1> QED
    BY <1>3, <1>4, <1>5, <1>6, <1>7, <1>9, <1>10, <1>11 DEF AcquisitionNext, Producer

(* The invariant of the two loops of produce_raw.                          *)
THEOREM SweepsTakeTurns == AcquisitionSpec => []TurnInv
  <1>1. AcquisitionInit => TurnInv
    BY DEF AcquisitionInit, TurnInv, OverInv, SweepsInTurn
  <1>2. FedInv /\ DeliveryInv /\ TurnInv /\ [AcquisitionNext]_acquisitionVars => TurnInv'
    BY TurnStep
  <1> QED
    BY <1>1, <1>2, FedCorrect, DeliveredOnce, PTL DEF AcquisitionSpec

(* No message of a sweep is on its way while another sweep is being sent,  *)
(* unless a failure has hit it.                                            *)
THEOREM ProducerInTurn == AcquisitionSpec => []SweepsInTurn
  <1>1. TurnInv => SweepsInTurn
    BY DEF TurnInv
  <1> QED
    BY <1>1, SweepsTakeTurns, PTL

(* A sweep half of which has reached the topic, and no more is on its way, *)
(* has been hit by a failure.                                              *)
THEOREM HalfSentIsExplained == AcquisitionSpec => []HalfSentExplained
  <1>1. TurnInv => HalfSentExplained
    BY NoneAssumption DEF TurnInv, OverInv, HalfSentExplained, SweepOver, Begun
  <1> QED
    BY <1>1, SweepsTakeTurns, PTL

-----------------------------------------------------------------------------
(* The partitions.                                                         *)

(* update_topic_partition is over before the first sweep, and leaves too   *)
(* few partitions only for a reason.                                       *)
PartitionInv ==
    /\ step \in {"list", "describe", "create", "grow"} => unread = Sweeps
    /\ step \notin {"list", "describe", "create", "grow"} =>
           partitions >= PARTITIONS \/ failures > 0 \/ surprised = "yes"

(* The first sweep finds a topic with all its partitions, unless creating  *)
(* them failed or a consumer was faster.                                   *)
THEOREM PartitionsAreExplained == AcquisitionSpec => []PartitionsExplained
  <1>1. AcquisitionInit => PartitionInv
    BY DEF AcquisitionInit, PartitionInv
  <1>2. FedInv /\ PartitionInv /\ [AcquisitionNext]_acquisitionVars => PartitionInv'
    <2> SUFFICES ASSUME FedInv, PartitionInv, [AcquisitionNext]_acquisitionVars
                 PROVE  PartitionInv'
      OBVIOUS
    <2> USE DEF PartitionInv
    <2>0. /\ PARTITIONS \in Nat \ {0} /\ DEFAULT_PARTITIONS \in Nat \ {0}
          /\ MAX_FAILURES \in Nat /\ failures \in 0..MAX_FAILURES
          /\ partitions \in {0, DEFAULT_PARTITIONS, PARTITIONS}
      BY PartitionsAssumption DEF FedInv, ProducerTypeOK
    <2>1. /\ partitions \in Nat /\ PARTITIONS \in Nat /\ failures \in Nat
          /\ partitions = 0 => ~ partitions >= PARTITIONS
      BY <2>0
    <2>2. CASE ListTopics \/ DescribeTopics
      BY <2>1, <2>2 DEF ListTopics, DescribeTopics, topicStepVars
    <2>3. CASE CreatePartitions \/ CreateTopics \/ AdminFails
      BY <2>1, <2>3 DEF CreatePartitions, CreateTopics, AdminFails, topicStepVars
    <2>4. CASE AutoCreate
      <3>1. partitions = 0 /\ UNCHANGED <<step, surprised, failures, unread>>
        BY <2>4 DEF AutoCreate, topicStepVars
      <3> QED
        BY <2>1, <3>1
    <2>5. CASE (\E s \in Sweeps : NextPair(s)) \/ SendRaw \/ SendElec
      BY <2>5 DEF NextPair, SendRaw, SendElec, topicVars
    <2>6. CASE SendRaises \/ RawAnswer \/ ElecAnswer \/ NoAnswer \/ ProducerStops
      <3>1. /\ step \notin {"list", "describe", "create", "grow"}
            /\ step' \notin {"list", "describe", "create", "grow"}
            /\ UNCHANGED <<partitions, surprised>>
        BY <2>6 DEF SendRaises, RawAnswer, ElecAnswer, NoAnswer, ProducerStops, topicVars
      <3>2. failures' = failures \/ failures' = failures + 1
        BY <2>6 DEF SendRaises, RawAnswer, ElecAnswer, NoAnswer, ProducerStops
      <3>3. failures > 0 => failures' > 0
        BY <2>1, <3>2
      <3> QED
        BY <3>1, <3>3
    <2>7. CASE \/ \E m \in RawMessages : Deliver(m)
               \/ Downstream \/ UNCHANGED acquisitionVars
      BY <2>7 DEF Deliver, Downstream, acquisitionVars
    <2> QED
      BY <2>2, <2>3, <2>4, <2>5, <2>6, <2>7 DEF AcquisitionNext, Producer
  <1>3. PartitionInv => PartitionsExplained
    BY DEF PartitionInv, PartitionsExplained
  <1> QED
    BY <1>1, <1>2, <1>3, FedCorrect, PTL DEF AcquisitionSpec
=============================================================================
