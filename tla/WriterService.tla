----------------------------- MODULE WriterService -----------------------------
(***************************************************************************)
(* The writer service: three consumer threads fill three asyncio queues,   *)
(* one writer_task for each queue stores what it finds there in MongoDB,   *)
(* and the raw arrays are written to a file each and uploaded to S3 by     *)
(* tasks that nobody waits for.                                            *)
(*                                                                         *)
(* An action is what a task does between two awaits; a thread of the       *)
(* executor writes the file, so the writing of a file is two actions.  A   *)
(* document or a file is modelled by its sweep and, for a file and the     *)
(* object made of it, by whether it is whole.                              *)
(***************************************************************************)
EXTENDS Integers, Sequences, FiniteSets

CONSTANTS
    Sweeps,            \* sweep identifiers
    Messages,          \* the messages that are published on the topics
    MAX_REDELIVERIES,  \* bound: messages Kafka delivers again by itself
    MAX_CRASHES,       \* bound: restarts of the process
    MAX_FAULTS,        \* bound: failed inserts, uploads and deserialisations
    MAX_MISHAPS,       \* bound: all of these together
    None               \* Python's None

Kinds == {"raw", "elec", "correlation", "conversion"}

ASSUME MessagesAssumption == Messages \subseteq [type : Kinds, sweeps_id : Sweeps]
ASSUME NoneAssumption == None \notin Messages
ASSUME BoundsAssumption ==
    /\ MAX_REDELIVERIES \in Nat
    /\ MAX_CRASHES \in Nat
    /\ MAX_FAULTS \in Nat
    /\ MAX_MISHAPS \in Nat

Task == {"Raw", "Correlation", "Conversion"}
TopicOf(m) == CASE m.type \in {"raw", "elec"}  -> "Raw"
                [] m.type = "correlation" -> "Correlation"
                [] m.type = "conversion"  -> "Conversion"

Collections == {"trace", "elec", "correlation", "conversion"}

VARIABLES
    topics,       \* messages still to be read
    uncommitted,  \* messages read since the offsets of their topic were committed
    ended,        \* tasks whose consumer thread has ended
    queue,        \* the asyncio queue of each task
    pc,           \* where each task is suspended
    item,         \* the message each task has in hand
    laser,        \* number of laser metadata documents
    docs,         \* number of documents of each collection, by sweep
    file,         \* the temporary file of a sweep: "none", "torn" or "whole"
    uploads,      \* number of upload tasks: "new" ones and those that have read
    s3,           \* the object of a sweep: "none", "torn" or "whole"
    lost,         \* history: messages a failure or a restart has hit
    redeliveries, crashes, faults

kafkaVars == <<topics, uncommitted, ended>>
mongoVars == <<laser, docs>>
uploadVars == <<file, uploads, s3>>
boundVars == <<redeliveries, crashes>>
vars == <<kafkaVars, queue, pc, item, mongoVars, uploadVars, lost, boundVars, faults>>

Labels == {"get", "create", "write", "count", "laser"} \cup Collections
UploadStates == {"new", "torn", "whole"}

TypeOK ==
    /\ topics \subseteq Messages
    /\ uncommitted \subseteq Messages
    /\ ended \subseteq Task
    /\ queue \in [Task -> Seq(Messages)]
    /\ pc \in [Task -> Labels]
    /\ item \in [Task -> Messages \cup {None}]
    /\ \A t \in Task : pc[t] # "get" => item[t] \in Messages
    /\ laser \in Nat
    /\ docs \in [Collections -> [Sweeps -> Nat]]
    /\ file \in [Sweeps -> {"none", "torn", "whole"}]
    /\ uploads \in [Sweeps -> [UploadStates -> Nat]]
    /\ s3 \in [Sweeps -> {"none", "torn", "whole"}]
    /\ lost \subseteq Messages
    /\ redeliveries \in 0..MAX_REDELIVERIES
    /\ crashes \in 0..MAX_CRASHES
    /\ faults \in 0..MAX_FAULTS

Init ==
    /\ topics = Messages
    /\ uncommitted = {}
    /\ ended = {}
    /\ queue = [t \in Task |-> << >>]
    /\ pc = [t \in Task |-> "get"]
    /\ item = [t \in Task |-> None]
    /\ laser = 0
    /\ docs = [c \in Collections |-> [s \in Sweeps |-> 0]]
    /\ file = [s \in Sweeps |-> "none"]
    /\ uploads = [s \in Sweeps |-> [u \in UploadStates |-> 0]]
    /\ s3 = [s \in Sweeps |-> "none"]
    /\ lost = {}
    /\ redeliveries = 0
    /\ crashes = 0
    /\ faults = 0

Fault == faults < MAX_FAULTS /\ faults' = faults + 1

-----------------------------------------------------------------------------
(* The consumer threads. *)

Read(m) ==
    /\ m \in topics /\ TopicOf(m) \notin ended
    /\ topics' = topics \ {m}
    /\ uncommitted' = uncommitted \cup {m}
    /\ UNCHANGED ended

(* Mutant of Consume: a message that finds the queue taken is dropped.     *)
ConsumeIfRoom(m) ==
    /\ Read(m)
    /\ queue' = IF queue[TopicOf(m)] # << >> THEN queue
                ELSE [queue EXCEPT ![TopicOf(m)] = <<m>>]
    /\ UNCHANGED <<pc, item, mongoVars, uploadVars, lost, boundVars, faults>>

(* The queues have no maximum; a put that takes the loop more than the 5 s *)
(* the thread waits is still done.                                         *)
Consume(m) ==
    /\ Read(m)
    /\ queue' = [queue EXCEPT ![TopicOf(m)] = Append(queue[TopicOf(m)], m)]
    /\ UNCHANGED <<pc, item, mongoVars, uploadVars, lost, boundVars, faults>>

DropMessage(m) ==
    /\ Read(m)
    /\ Fault
    /\ lost' = lost \cup {m}
    /\ UNCHANGED <<queue, pc, item, mongoVars, uploadVars, boundVars>>

(* Offsets are committed for what was read, not for what was stored.       *)
Commit(t) == uncommitted' = {m \in uncommitted : TopicOf(m) # t}

(* An exception of the consumer itself leaves the "for": the consumer is   *)
(* closed, which commits the offsets if it can, and nothing starts the     *)
(* thread again while the process runs.                                    *)
ConsumerEnds(t) ==
    /\ t \notin ended
    /\ Fault
    /\ ended' = ended \cup {t}
    /\ Commit(t) \/ UNCHANGED uncommitted
    /\ UNCHANGED <<topics, queue, pc, item, mongoVars, uploadVars, lost, boundVars>>

-----------------------------------------------------------------------------
(* The writer tasks. *)

Goto(t, label) == pc' = [pc EXCEPT ![t] = label]
Done(t) == Goto(t, "get") /\ item' = [item EXCEPT ![t] = None]
Sweep(t) == item[t].sweeps_id

FirstLabel(m) == CASE m.type = "raw"  -> "create"
                   [] m.type = "elec" -> "count"
                   [] OTHER           -> m.type

Get(t) ==
    /\ pc[t] = "get" /\ queue[t] # << >>
    /\ item' = [item EXCEPT ![t] = Head(queue[t])]
    /\ queue' = [queue EXCEPT ![t] = Tail(queue[t])]
    /\ Goto(t, FirstLabel(Head(queue[t])))
    /\ UNCHANGED <<kafkaVars, mongoVars, uploadVars, lost, boundVars, faults>>

(* Mutant of GiveUp: no "except Exception" in writer_task.                 *)
GiveUpForGood(t) ==
    /\ Goto(t, "ended")
    /\ lost' = lost \cup {item[t]}
    /\ UNCHANGED <<kafkaVars, queue, item, mongoVars, boundVars>>

(* An exception that insert_elec_data, insert_correlation_data,            *)
(* insert_conversion_data or writer_task catches ends this message.        *)
GiveUp(t) ==
    /\ Done(t)
    /\ lost' = lost \cup {item[t]}
    /\ UNCHANGED <<kafkaVars, queue, mongoVars, boundVars>>

(* Mutant of CountDocuments: it counts the documents of the sweep.         *)
CountDocumentsOfSweep ==
    /\ pc["Raw"] = "count"
    /\ Goto("Raw", IF docs["trace"][Sweep("Raw")] = 0 THEN "laser" ELSE "trace")
    /\ UNCHANGED <<kafkaVars, queue, item, mongoVars, uploadVars, lost, boundVars,
                   faults>>

(* insert_elec_data counts the laser documents first.                      *)
CountDocuments ==
    /\ pc["Raw"] = "count"
    /\ Goto("Raw", IF laser = 0 THEN "laser" ELSE "trace")
    /\ UNCHANGED <<kafkaVars, queue, item, mongoVars, uploadVars, lost, boundVars,
                   faults>>

CountFails ==
    /\ pc["Raw"] = "count"
    /\ Fault
    /\ GiveUp("Raw")
    /\ UNCHANGED uploadVars

(* What follows an insert that returns.                                    *)
AfterInsert(t) ==
    \/ pc[t] = "laser" /\ Goto(t, "trace") /\ UNCHANGED item
    \/ pc[t] = "trace" /\ Goto(t, "elec") /\ UNCHANGED item
    \/ pc[t] \in Collections \ {"trace"} /\ Done(t)

Inserted(t) ==
    IF pc[t] = "laser"
    THEN laser' = laser + 1 /\ UNCHANGED docs
    ELSE /\ docs' = [docs EXCEPT ![pc[t]][Sweep(t)] = docs[pc[t]][Sweep(t)] + 1]
         /\ UNCHANGED laser

Inserting(t) == pc[t] \in {"laser"} \cup Collections

(* Mutant of InsertDocument: the trace is the last document.               *)
InsertDocumentTraceOnly(t) ==
    /\ Inserting(t)
    /\ IF pc[t] = "trace" THEN Done(t) ELSE AfterInsert(t)
    /\ Inserted(t)
    /\ UNCHANGED <<kafkaVars, queue, uploadVars, lost, boundVars, faults>>

InsertDocument(t) ==
    /\ Inserting(t)
    /\ AfterInsert(t)
    /\ Inserted(t)
    /\ UNCHANGED <<kafkaVars, queue, uploadVars, lost, boundVars, faults>>

(* The collection is full or the server cannot be reached: insert_document *)
(* prints and returns, and its caller goes on.                             *)
InsertSwallowed(t) ==
    /\ Inserting(t)
    /\ Fault
    /\ AfterInsert(t)
    /\ lost' = IF pc[t] = "laser" THEN lost ELSE lost \cup {item[t]}
    /\ UNCHANGED <<kafkaVars, queue, mongoVars, uploadVars, boundVars>>

(* Mutant of InsertUnacknowledged: the insert is tried again.              *)
InsertTriedAgain(t) ==
    /\ Inserting(t)
    /\ Fault
    /\ Inserted(t)
    /\ UNCHANGED <<kafkaVars, queue, pc, item, uploadVars, lost, boundVars>>

(* The document is stored but the answer is lost: the same as above for    *)
(* the caller.                                                             *)
InsertUnacknowledged(t) ==
    /\ Inserting(t)
    /\ Fault
    /\ AfterInsert(t)
    /\ Inserted(t)
    /\ UNCHANGED <<kafkaVars, queue, uploadVars, lost, boundVars>>

(* Another WriteError, or an array that is too large, is raised.           *)
InsertRaises(t) ==
    /\ Inserting(t)
    /\ Fault
    /\ GiveUp(t)
    /\ UNCHANGED uploadVars

-----------------------------------------------------------------------------
(* Raw arrays. *)

NewUpload(s) == uploads' = [uploads EXCEPT ![s]["new"] = uploads[s]["new"] + 1]

(* Mutant of OpenFile: the upload is scheduled before the file is written. *)
OpenFileAndUpload ==
    /\ pc["Raw"] = "create"
    /\ file' = [file EXCEPT ![Sweep("Raw")] = "torn"]
    /\ NewUpload(Sweep("Raw"))
    /\ Goto("Raw", "write")
    /\ UNCHANGED <<kafkaVars, queue, item, mongoVars, s3, lost, boundVars, faults>>

(* open(..., "wb") truncates what an earlier delivery has written.         *)
OpenFile ==
    /\ pc["Raw"] = "create"
    /\ file' = [file EXCEPT ![Sweep("Raw")] = "torn"]
    /\ Goto("Raw", "write")
    /\ UNCHANGED <<kafkaVars, queue, item, mongoVars, uploads, s3, lost, boundVars,
                   faults>>

WriteFile ==
    /\ pc["Raw"] = "write"
    /\ file' = [file EXCEPT ![Sweep("Raw")] = "whole"]
    /\ NewUpload(Sweep("Raw"))
    /\ Done("Raw")
    /\ UNCHANGED <<kafkaVars, queue, mongoVars, s3, lost, boundVars, faults>>

WriteFails ==
    /\ pc["Raw"] \in {"create", "write"}
    /\ Fault
    /\ GiveUp("Raw")
    /\ UNCHANGED uploadVars

UploadRead(s) ==
    /\ uploads[s]["new"] > 0
    /\ uploads' = [uploads EXCEPT
                      ![s]["new"] = uploads[s]["new"] - 1,
                      ![s][file[s]] = uploads[s][file[s]] + 1]
    /\ UNCHANGED <<kafkaVars, queue, pc, item, mongoVars, file, s3, lost, boundVars,
                   faults>>

UploadPost(s) ==
    /\ \E content \in {"torn", "whole"} :
          /\ uploads[s][content] > 0
          /\ uploads' = [uploads EXCEPT ![s][content] = uploads[s][content] - 1]
          /\ s3' = [s3 EXCEPT ![s] = content]
    /\ UNCHANGED <<kafkaVars, queue, pc, item, mongoVars, file, lost, boundVars,
                   faults>>

(* The upload is not tried again.                                          *)
UploadFails(s) ==
    /\ Fault
    /\ \E u \in UploadStates :
          /\ uploads[s][u] > 0
          /\ uploads' = [uploads EXCEPT ![s][u] = uploads[s][u] - 1]
    /\ lost' = lost \cup {[type |-> "raw", sweeps_id |-> s]}
    /\ UNCHANGED <<kafkaVars, queue, pc, item, mongoVars, file, s3, boundVars>>

-----------------------------------------------------------------------------
(* Outside the process. *)

(* A consumer thread commits when it polls again, whatever has become of   *)
(* the messages it has put on the queue.                                   *)
CommitOffsets(t) ==
    /\ t \notin ended
    /\ \E m \in uncommitted : TopicOf(m) = t
    /\ Commit(t)
    /\ UNCHANGED <<topics, ended, queue, pc, item, mongoVars, uploadVars, lost,
                   boundVars, faults>>

Redeliver ==
    /\ redeliveries < MAX_REDELIVERIES
    /\ redeliveries' = redeliveries + 1
    /\ \E m \in Messages \ topics : topics' = topics \cup {m}
    /\ UNCHANGED <<uncommitted, ended, queue, pc, item, mongoVars, uploadVars, lost,
                   crashes, faults>>

(* What the process holds of a message.                                    *)
InMemory(m) ==
    \/ \E t \in Task : item[t] = m \/ \E i \in 1..Len(queue[t]) : queue[t][i] = m
    \/ m.type = "raw" /\ \E u \in UploadStates : uploads[m.sweeps_id][u] > 0

(* Queues, tasks and uploads die with the process; the files stay, and what*)
(* was read but not committed is read again.                               *)
Crash ==
    /\ crashes < MAX_CRASHES
    /\ crashes' = crashes + 1
    /\ topics' = topics \cup uncommitted
    /\ uncommitted' = {}
    /\ ended' = {}
    /\ queue' = [t \in Task |-> << >>]
    /\ pc' = [t \in Task |-> "get"]
    /\ item' = [t \in Task |-> None]
    /\ uploads' = [s \in Sweeps |-> [u \in UploadStates |-> 0]]
    /\ lost' = lost \cup {m \in Messages \ uncommitted : InMemory(m)}
    /\ UNCHANGED <<mongoVars, file, s3, redeliveries, faults>>

WriterTask(t) ==
    \/ Get(t)
    \/ InsertDocument(t) \/ InsertSwallowed(t) \/ InsertUnacknowledged(t)
    \/ InsertRaises(t)

RawTask == CountDocuments \/ CountFails \/ OpenFile \/ WriteFile \/ WriteFails

Upload(s) == UploadRead(s) \/ UploadPost(s) \/ UploadFails(s)

Environment ==
    (\E t \in Task : CommitOffsets(t) \/ ConsumerEnds(t)) \/ Redeliver \/ Crash

Next ==
    /\ \/ \E m \in Messages : Consume(m) \/ DropMessage(m)
       \/ \E t \in Task : WriterTask(t)
       \/ RawTask
       \/ \E s \in Sweeps : Upload(s)
       \/ Environment
    /\ redeliveries' + crashes' + faults' <= MAX_MISHAPS

Spec == Init /\ [][Next]_vars

(* A thread polls while it runs (no step of an ended one is possible), and *)
(* the event loop runs every task that is ready.                           *)
FairSpec ==
    /\ Spec
    /\ \A m \in Messages : WF_vars(Consume(m) \/ DropMessage(m))
    /\ WF_vars(RawTask \/ WriterTask("Raw"))
    /\ \A t \in Task \ {"Raw"} : WF_vars(WriterTask(t))
    /\ \A s \in Sweeps : WF_vars(Upload(s))

-----------------------------------------------------------------------------
(* insert_elec_data counts before it inserts and only one task calls it:   *)
(* there is one laser metadata document, whatever fails or comes twice, and*)
(* without failures it is there before the first electrical data, as the   *)
(* correlation service needs it.                                           *)
LaserOnce ==
    /\ laser <= 1
    /\ (faults = 0 /\ \E s \in Sweeps : docs["trace"][s] + docs["elec"][s] > 0)
          => laser = 1

(* insert_elec_data makes two documents of one array.  A failure or a      *)
(* restart leaves at most one of them without the other; nothing else does.*)
BetweenTheTwo(s) == IF pc["Raw"] = "elec" /\ Sweep("Raw") = s THEN 1 ELSE 0
TraceWithElec ==
    \A s \in Sweeps :
        LET difference == docs["trace"][s] - docs["elec"][s] - BetweenTheTwo(s)
        IN  -(faults + crashes) <= difference /\ difference <= faults + crashes

(* A sweep gets one document in a collection for each delivery.            *)
DocumentPerDelivery ==
    \A c \in Collections, s \in Sweeps :
        docs[c][s] <= 1 + redeliveries + crashes

(* A raw array that is delivered once is uploaded whole, although nobody   *)
(* waits for the upload and a restart may leave half a file behind.        *)
UploadedWhole ==
    redeliveries = 0 => \A s \in Sweeps : s3[s] # "torn"

(* Every message is eventually stored, unless it is hit itself by a failure*)
(* that was reported, was in the memory of a process that stopped after its*)
(* offset was committed, or was still to be read when the consumer thread  *)
(* of its topic ended: neither a restart nor the failure of another message*)
(* loses it or holds it up, and a restart starts the threads again         *)
(* (_blocking_consumer_loop, writer_task).                                 *)
Stored(m) ==
    IF m.type = "raw" THEN s3[m.sweeps_id] # "none"
    ELSE docs[m.type][m.sweeps_id] > 0
NobodyReads(m) == m \in topics /\ TopicOf(m) \in ended
EventuallyStored ==
    \A m \in Messages : m \in topics ~> (Stored(m) \/ m \in lost \/ NobodyReads(m))
=============================================================================
