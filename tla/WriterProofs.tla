----------------------------- MODULE WriterProofs -----------------------------
(***************************************************************************)
(* Proofs about the writer service: its types, the single document of laser*)
(* metadata, the two documents of an electrical array, the number of       *)
(* documents a delivery can make, and the files that are uploaded whole.   *)
(* The last two rest on counting the copies of a message, on its topic, in *)
(* the queue of its task and in hand.                                      *)
(***************************************************************************)
EXTENDS WriterService, FiniteSetTheorems, SequenceTheorems, TLAPS

(* What a message is and whose it is.                                      *)
LEMMA MessageTopic ==
    ASSUME NEW m \in Messages
    PROVE  /\ m.type \in Kinds /\ m.sweeps_id \in Sweeps
           /\ m = [type |-> m.type, sweeps_id |-> m.sweeps_id]
           /\ TopicOf(m) \in Task
           /\ m.type \in {"raw", "elec"} <=> TopicOf(m) = "Raw"
           /\ m.type = "correlation" <=> TopicOf(m) = "Correlation"
           /\ m.type = "conversion" <=> TopicOf(m) = "Conversion"
<1>1. m \in [type : Kinds, sweeps_id : Sweeps]
  BY MessagesAssumption
<1>2. CASE m.type \in {"raw", "elec"}
  <2>1. TopicOf(m) = "Raw"
    BY <1>2 DEF TopicOf
  <2>2. QED  BY <1>1, <1>2, <2>1 DEF Task
<1>3. CASE m.type = "correlation"
  <2>1. TopicOf(m) = "Correlation"
    BY <1>3 DEF TopicOf
  <2>2. QED  BY <1>1, <1>3, <2>1 DEF Task
<1>4. CASE m.type = "conversion"
  <2>1. TopicOf(m) = "Conversion"
    BY <1>4 DEF TopicOf
  <2>2. QED  BY <1>1, <1>4, <2>1 DEF Task
<1>5. QED  BY <1>1, <1>2, <1>3, <1>4 DEF Kinds

(* Where a task can be with a message of each kind in hand.                *)
Stage(type, label) ==
    \/ type = "raw" /\ label \in {"create", "write"}
    \/ type = "elec" /\ label \in {"count", "laser", "trace", "elec"}
    \/ type \in {"correlation", "conversion"} /\ label = type

LEMMA FirstStage ==
    ASSUME NEW m \in Messages
    PROVE  Stage(m.type, FirstLabel(m)) /\ FirstLabel(m) \in {"create", "count", m.type}
<1>1. m.type \in Kinds
  BY MessageTopic
<1>2. CASE m.type = "raw"
  BY <1>2 DEF FirstLabel, Stage
<1>3. CASE m.type = "elec"
  BY <1>3 DEF FirstLabel, Stage
<1>4. CASE m.type \in {"correlation", "conversion"}
  <2>1. FirstLabel(m) = m.type
    BY <1>4 DEF FirstLabel
  <2>2. QED  BY <1>4, <2>1 DEF Stage
<1>5. QED  BY <1>1, <1>2, <1>3, <1>4 DEF Kinds

(* Each queue holds the messages of its topic, and each task is about one. *)
Busy(t) ==
    pc[t] # "get" =>
        item[t] \in Messages /\ TopicOf(item[t]) = t /\ Stage(item[t].type, pc[t])
Sorted(t) == \A i \in 1..Len(queue[t]) : TopicOf(queue[t][i]) = t

TasksInv == \A t \in Task : Busy(t) /\ Sorted(t)

(* An upload is of a raw array that was published.                         *)
RawOf(s) == [type |-> "raw", sweeps_id |-> s]
UploadsInv ==
    \A s \in Sweeps, u \in UploadStates : uploads[s][u] > 0 => RawOf(s) \in Messages

TypeInv == TypeOK /\ TasksInv /\ UploadsInv

(* A label tells the task and the kind of its message.                     *)
LEMMA TaskOfLabel ==
    ASSUME TypeInv, NEW t \in Task
    PROVE  /\ pc[t] \in {"create", "write"} => t = "Raw" /\ item[t].type = "raw"
           /\ pc[t] \in {"count", "laser", "trace", "elec"} =>
                  t = "Raw" /\ item[t].type = "elec"
           /\ pc[t] = "correlation" => t = "Correlation" /\ item[t].type = "correlation"
           /\ pc[t] = "conversion" => t = "Conversion" /\ item[t].type = "conversion"
           /\ pc[t] # "get" => item[t] \in Messages /\ Sweep(t) \in Sweeps
<1>1. Busy(t)
  BY DEF TypeInv, TasksInv
<1>2. pc[t] # "get" => Sweep(t) \in Sweeps
  BY <1>1, MessageTopic DEF Busy, Sweep
<1>3. QED  BY <1>1, <1>2, MessageTopic DEF Busy, Stage

-----------------------------------------------------------------------------
(* The types. *)

(* The parts of TypeOK a step of a task can disturb.                       *)
TaskTypes ==
    /\ queue \in [Task -> Seq(Messages)]
    /\ pc \in [Task -> Labels]
    /\ item \in [Task -> Messages \cup {None}]
    /\ TasksInv
StoreTypes ==
    /\ laser \in Nat
    /\ docs \in [Collections -> [Sweeps -> Nat]]
    /\ file \in [Sweeps -> {"none", "torn", "whole"}]
    /\ uploads \in [Sweeps -> [UploadStates -> Nat]]
    /\ s3 \in [Sweeps -> {"none", "torn", "whole"}]
    /\ UploadsInv
OtherTypes ==
    /\ topics \subseteq Messages
    /\ uncommitted \subseteq Messages
    /\ ended \subseteq Task
    /\ lost \subseteq Messages
    /\ redeliveries \in 0..MAX_REDELIVERIES
    /\ crashes \in 0..MAX_CRASHES
    /\ faults \in 0..MAX_FAULTS

LEMMA TypesByPart == TypeInv <=> TaskTypes /\ StoreTypes /\ OtherTypes
BY DEF TypeInv, TypeOK, TaskTypes, StoreTypes, OtherTypes, TasksInv, Busy

LEMMA FaultTypes ==
    ASSUME TypeInv, Fault
    PROVE  faults' \in 0..MAX_FAULTS
BY BoundsAssumption DEF TypeInv, TypeOK, Fault

(* A task ends its message, or goes on to another statement about it.      *)
LEMMA DoneTypes ==
    ASSUME TypeInv, NEW t \in Task, Done(t), queue' = queue
    PROVE  TaskTypes'
<1>1. pc' \in [Task -> Labels] /\ item' \in [Task -> Messages \cup {None}]
  BY DEF TypeInv, TypeOK, Done, Goto, Labels
<1>2. TasksInv'
  BY DEF TypeInv, TypeOK, TasksInv, Busy, Sorted, Done, Goto
<1>3. QED  BY <1>1, <1>2 DEF TaskTypes, TypeInv, TypeOK

LEMMA GotoTypes ==
    ASSUME TypeInv, NEW t \in Task, NEW label \in Labels, Goto(t, label),
           item[t] \in Messages, TopicOf(item[t]) = t, Stage(item[t].type, label),
           UNCHANGED <<queue, item>>
    PROVE  TaskTypes'
<1>1. pc' \in [Task -> Labels]
  BY DEF TypeInv, TypeOK, Goto
<1>2. TasksInv'
  BY DEF TypeInv, TypeOK, TasksInv, Busy, Sorted, Goto
<1>3. QED  BY <1>1, <1>2 DEF TaskTypes, TypeInv, TypeOK

LEMMA AfterInsertTypes ==
    ASSUME TypeInv, NEW t \in Task, Inserting(t), AfterInsert(t), queue' = queue
    PROVE  TaskTypes'
<1>1. CASE Done(t)
  BY <1>1, DoneTypes
<1>2. CASE pc[t] \in {"laser", "trace"} /\ UNCHANGED item
           /\ Goto(t, IF pc[t] = "laser" THEN "trace" ELSE "elec")
  <2>1. item[t] \in Messages /\ TopicOf(item[t]) = t /\ item[t].type = "elec"
    BY <1>2, TaskOfLabel DEF TypeInv, TasksInv, Busy
  <2>2. QED  BY <1>2, <2>1, GotoTypes DEF Labels, Collections, Stage
<1>3. QED  BY <1>1, <1>2 DEF AfterInsert

LEMMA InsertedTypes ==
    ASSUME TypeInv, NEW t \in Task, Inserting(t), Inserted(t)
    PROVE  laser' \in Nat /\ docs' \in [Collections -> [Sweeps -> Nat]]
<1>1. CASE pc[t] = "laser"
  BY <1>1 DEF Inserted, TypeInv, TypeOK
<1>2. CASE pc[t] # "laser"
  <2>1. PICK c \in Collections, s \in Sweeps : c = pc[t] /\ s = Sweep(t)
    BY <1>2, TaskOfLabel DEF Inserting, Collections
  <2>2. docs' = [docs EXCEPT ![c][s] = docs[c][s] + 1] /\ laser' = laser
    BY <1>2, <2>1 DEF Inserted
  <2>3. docs[c] \in [Sweeps -> Nat] /\ docs[c][s] + 1 \in Nat
    BY DEF TypeInv, TypeOK
  <2>4. [docs[c] EXCEPT ![s] = docs[c][s] + 1] \in [Sweeps -> Nat]
    BY <2>3
  <2>5. QED  BY <2>2, <2>4 DEF TypeInv, TypeOK
<1>3. QED  BY <1>1, <1>2

(* One more, or one less, upload of a sweep.                               *)
LEMMA UploadTypes ==
    ASSUME TypeInv, NEW s \in Sweeps, NEW f \in [UploadStates -> Nat],
           uploads' = [uploads EXCEPT ![s] = f],
           RawOf(s) \in Messages \/ \A u \in UploadStates : f[u] <= uploads[s][u]
    PROVE  uploads' \in [Sweeps -> [UploadStates -> Nat]] /\ UploadsInv'
<1>1. uploads \in [Sweeps -> [UploadStates -> Nat]] /\ UploadsInv
  BY DEF TypeInv, TypeOK
<1>2. ASSUME NEW r \in Sweeps, NEW u \in UploadStates, uploads'[r][u] > 0
      PROVE  RawOf(r) \in Messages
  <2>1. CASE r # s
    BY <1>1, <1>2, <2>1 DEF UploadsInv
  <2>2. CASE r = s /\ \A v \in UploadStates : f[v] <= uploads[s][v]
    <3>1. uploads'[s][u] = f[u] /\ uploads[s][u] \in Nat /\ f[u] \in Nat
      BY <1>1
    <3>2. f[u] <= uploads[s][u] /\ f[u] > 0
      BY <1>2, <2>2, <3>1
    <3>3. uploads[s][u] > 0
      BY <3>1, <3>2
    <3>4. QED  BY <1>1, <2>2, <3>3 DEF UploadsInv
  <2>3. QED  BY <2>1, <2>2
<1>3. QED  BY <1>1, <1>2 DEF UploadsInv

LEMMA NewUploadTypes ==
    ASSUME TypeInv, NEW s \in Sweeps, NewUpload(s), RawOf(s) \in Messages
    PROVE  uploads' \in [Sweeps -> [UploadStates -> Nat]] /\ UploadsInv'
<1>1. uploads[s] \in [UploadStates -> Nat]
  BY DEF TypeInv, TypeOK
<1>2. [uploads[s] EXCEPT !["new"] = uploads[s]["new"] + 1] \in [UploadStates -> Nat]
  BY <1>1 DEF UploadStates
<1>3. QED  BY <1>2, UploadTypes DEF NewUpload

LEMMA TypeInit == Init => TypeInv
<1> SUFFICES ASSUME Init
             PROVE  TypeInv
  OBVIOUS
<1>1. TypeOK
  BY BoundsAssumption DEF Init, TypeOK, Labels, Collections, UploadStates
<1>2. TasksInv /\ UploadsInv
  BY DEF Init, TasksInv, Busy, Sorted, UploadsInv
<1>3. QED  BY <1>1, <1>2 DEF TypeInv

(* The consumer threads and the tasks keep the types.                      *)
LEMMA TypeTasks ==
    ASSUME TypeInv,
           \/ \E m \in Messages : Consume(m) \/ DropMessage(m)
           \/ \E t \in Task : WriterTask(t)
           \/ RawTask
    PROVE  TypeInv'
<1> USE DEF kafkaVars, mongoVars, uploadVars, boundVars
<1>s. TaskTypes /\ StoreTypes /\ OtherTypes
  BY TypesByPart
<1>q. TaskTypes' /\ StoreTypes' /\ OtherTypes' => TypeInv'
  BY TypesByPart, PTL
<1>g. ASSUME NEW t \in Task, GiveUp(t), Fault, pc[t] # "get", UNCHANGED uploadVars
      PROVE  TypeInv'
  <2>1. TaskTypes'
    BY <1>g, DoneTypes DEF GiveUp
  <2>2. item[t] \in Messages
    BY <1>g, TaskOfLabel
  <2>3. OtherTypes' /\ StoreTypes'
    BY <1>g, <1>s, <2>2, FaultTypes DEF GiveUp, OtherTypes, StoreTypes, UploadsInv
  <2>4. QED  BY <1>q, <2>1, <2>3
<1>1. ASSUME NEW m \in Messages, Consume(m)
      PROVE  TypeInv'
  <2>1. TopicOf(m) \in Task
    BY MessageTopic
  <2>2. queue' = [queue EXCEPT ![TopicOf(m)] = Append(queue[TopicOf(m)], m)]
    BY <1>1 DEF Consume
  <2>3. queue' \in [Task -> Seq(Messages)]
    BY <1>s, <2>1, <2>2 DEF TaskTypes
  <2>4. ASSUME NEW t \in Task
        PROVE  Sorted(t)'
    <3>1. Sorted(t) /\ queue[t] \in Seq(Messages)
      BY <1>s DEF TaskTypes, TasksInv
    <3>2. CASE t = TopicOf(m)
      <4>1. queue'[t] = Append(queue[t], m)
        BY <1>s, <2>2, <3>2 DEF TaskTypes
      <4>2. QED  BY <3>1, <3>2, <4>1 DEF Sorted
    <3>3. CASE t # TopicOf(m)
      BY <1>s, <2>2, <3>1, <3>3 DEF TaskTypes, Sorted
    <3>4. QED  BY <3>2, <3>3
  <2>5. TaskTypes'
    BY <1>1, <1>s, <2>3, <2>4 DEF Consume, TaskTypes, TasksInv, Busy
  <2>6. QED
    BY <1>1, <1>s, <1>q, <2>5 DEF Consume, Read, StoreTypes, UploadsInv, OtherTypes
<1>2. ASSUME NEW m \in Messages, DropMessage(m)
      PROVE  TypeInv'
  <2>1. TaskTypes'
    BY <1>2, <1>s DEF DropMessage, TaskTypes, TasksInv, Busy, Sorted
  <2>2. OtherTypes' /\ StoreTypes'
    BY <1>2, <1>s, FaultTypes DEF DropMessage, Read, StoreTypes, UploadsInv, OtherTypes
  <2>3. QED  BY <1>q, <2>1, <2>2
<1>3. ASSUME NEW t \in Task, Get(t)
      PROVE  TypeInv'
  <2>1. /\ queue[t] \in Seq(Messages) /\ queue[t] # << >>
        /\ Head(queue[t]) \in Messages /\ Tail(queue[t]) \in Seq(Messages)
    BY <1>3, <1>s DEF Get, TaskTypes
  <2>2. TopicOf(Head(queue[t])) = t
    BY <1>s, <2>1 DEF TaskTypes, TasksInv, Sorted
  <2>3. PICK m \in Messages : m = Head(queue[t])
    BY <2>1
  <2>4. Stage(m.type, FirstLabel(m)) /\ FirstLabel(m) \in Labels
    BY MessageTopic, FirstStage DEF Labels, Collections, Stage
  <2>5. /\ queue' = [queue EXCEPT ![t] = Tail(queue[t])]
        /\ item' = [item EXCEPT ![t] = m] /\ pc' = [pc EXCEPT ![t] = FirstLabel(m)]
    BY <1>3, <2>3 DEF Get, Goto
  <2>6. /\ queue' \in [Task -> Seq(Messages)] /\ pc' \in [Task -> Labels]
        /\ item' \in [Task -> Messages \cup {None}]
    BY <1>s, <2>1, <2>4, <2>5 DEF TaskTypes
  <2>7. ASSUME NEW u \in Task
        PROVE  Busy(u)' /\ Sorted(u)'
    <3>1. CASE u = t
      <4>1. Busy(u)'
        BY <1>s, <2>2, <2>3, <2>4, <2>5, <3>1 DEF TaskTypes, Busy
      <4>2. queue'[u] = Tail(queue[t])
        BY <1>s, <2>5, <3>1 DEF TaskTypes
      <4>3. Sorted(t)
        BY <1>s DEF TaskTypes, TasksInv
      <4>4. QED  BY <2>1, <3>1, <4>1, <4>2, <4>3 DEF Sorted
    <3>2. CASE u # t
      BY <1>s, <2>5, <2>7, <3>2 DEF TaskTypes, TasksInv, Busy, Sorted
    <3>3. QED  BY <3>1, <3>2
  <2>8. TaskTypes'
    BY <2>6, <2>7 DEF TaskTypes, TasksInv
  <2>9. QED
    BY <1>3, <1>s, <1>q, <2>8 DEF Get, StoreTypes, UploadsInv, OtherTypes
<1>4. ASSUME NEW t \in Task,
             \/ InsertDocument(t) \/ InsertSwallowed(t) \/ InsertUnacknowledged(t)
      PROVE  TypeInv'
  <2>1. TaskTypes'
    BY <1>4, AfterInsertTypes
       DEF InsertDocument, InsertSwallowed, InsertUnacknowledged
  <2>2. StoreTypes'
    BY <1>4, <1>s, InsertedTypes
       DEF InsertDocument, InsertSwallowed, InsertUnacknowledged, StoreTypes,
           UploadsInv
  <2>3. item[t] \in Messages
    BY <1>4, TaskOfLabel DEF InsertDocument, InsertSwallowed, InsertUnacknowledged,
                             Inserting, Collections
  <2>4. OtherTypes'
    BY <1>4, <1>s, <2>3, FaultTypes
       DEF InsertDocument, InsertSwallowed, InsertUnacknowledged, OtherTypes
  <2>5. QED  BY <1>q, <2>1, <2>2, <2>4
<1>5. ASSUME NEW t \in Task, InsertRaises(t)
      PROVE  TypeInv'
  BY <1>5, <1>g DEF InsertRaises, Inserting, Collections
<1>6. CASE CountFails \/ WriteFails
  BY <1>6, <1>g DEF CountFails, WriteFails, Task
<1>r. /\ pc["Raw"] # "get" => item["Raw"] \in Messages /\ TopicOf(item["Raw"]) = "Raw"
      /\ pc["Raw"] # "get" => Sweep("Raw") \in Sweeps
      /\ pc["Raw"] = "count" => item["Raw"].type = "elec"
      /\ pc["Raw"] \in {"create", "write"} => item["Raw"].type = "raw"
  BY <1>s, TaskOfLabel DEF Task, TaskTypes, TasksInv, Busy
<1>7. CASE CountDocuments
  <2>1. TaskTypes'
    BY <1>7, <1>r, GotoTypes DEF CountDocuments, Task, Labels, Collections, Stage
  <2>2. QED
    BY <1>7, <1>s, <1>q, <2>1 DEF CountDocuments, StoreTypes, UploadsInv, OtherTypes
<1>8. CASE OpenFile
  <2>1. TaskTypes'
    BY <1>8, <1>r, GotoTypes DEF OpenFile, Task, Labels, Stage
  <2>2. QED  BY <1>8, <1>s, <1>q, <2>1 DEF OpenFile, StoreTypes, UploadsInv, OtherTypes
<1>9. CASE WriteFile
  <2>1. TaskTypes'
    BY <1>9, DoneTypes DEF WriteFile, Task
  <2>2. uploads' \in [Sweeps -> [UploadStates -> Nat]] /\ UploadsInv'
    <3>1. PICK s \in Sweeps : s = Sweep("Raw") /\ RawOf(s) \in Messages
      BY <1>9, <1>r, MessageTopic DEF WriteFile, Sweep, RawOf
    <3>2. NewUpload(s)
      BY <1>9, <3>1 DEF WriteFile, NewUpload
    <3>3. QED  BY <3>1, <3>2, NewUploadTypes
  <2>3. QED  BY <1>9, <1>s, <1>q, <2>1, <2>2 DEF WriteFile, StoreTypes, OtherTypes
<1>10. QED
  BY <1>1, <1>2, <1>3, <1>4, <1>5, <1>6, <1>7, <1>8, <1>9 DEF WriterTask, RawTask

LEMMA TypeOutside ==
    ASSUME TypeInv, (\E s \in Sweeps : Upload(s)) \/ Environment \/ UNCHANGED vars
    PROVE  TypeInv'
<1> USE DEF kafkaVars, mongoVars, uploadVars, boundVars
<1>s. TaskTypes /\ StoreTypes /\ OtherTypes
  BY TypesByPart
<1>q. TaskTypes' /\ StoreTypes' /\ OtherTypes' => TypeInv'
  BY TypesByPart, PTL
<1>k. ASSUME UNCHANGED <<queue, pc, item>>
      PROVE  TaskTypes'
  BY <1>k, <1>s DEF TaskTypes, TasksInv, Busy, Sorted
<1>1. ASSUME NEW s \in Sweeps, UploadRead(s)
      PROVE  TypeInv'
  <2>1. file[s] \in {"none", "torn", "whole"} /\ uploads[s] \in [UploadStates -> Nat]
        /\ uploads[s]["new"] > 0
    BY <1>1, <1>s DEF UploadRead, StoreTypes
  <2>2. PICK content : content = file[s]
    OBVIOUS
  <2>3. PICK f : f = [uploads[s] EXCEPT !["new"] = uploads[s]["new"] - 1,
                                        ![content] = uploads[s][content] + 1]
    OBVIOUS
  <2>4. uploads' = [uploads EXCEPT ![s] = f]
    BY <1>1, <1>s, <2>2, <2>3 DEF UploadRead, StoreTypes
  <2>5. f \in [UploadStates -> Nat]
    <3>1. uploads[s]["new"] - 1 \in Nat /\ uploads[s]["torn"] + 1 \in Nat
          /\ uploads[s]["whole"] + 1 \in Nat
      BY <2>1 DEF UploadStates
    <3>2. QED  BY <2>1, <2>2, <2>3, <3>1 DEF UploadStates
  <2>6. RawOf(s) \in Messages
    BY <1>s, <2>1 DEF StoreTypes, UploadsInv, UploadStates
  <2>7. QED
    BY <1>1, <1>s, <1>k, <1>q, <2>4, <2>5, <2>6, UploadTypes
       DEF UploadRead, StoreTypes, OtherTypes
<1>2. ASSUME NEW s \in Sweeps, UploadPost(s) \/ UploadFails(s)
      PROVE  TypeInv'
  <2>1. PICK u \in UploadStates :
          uploads[s][u] > 0 /\ uploads' = [uploads EXCEPT ![s][u] = uploads[s][u] - 1]
    BY <1>2 DEF UploadPost, UploadFails, UploadStates
  <2>2. uploads[s] \in [UploadStates -> Nat]
    BY <1>s DEF StoreTypes
  <2>3. uploads[s][u] - 1 \in Nat
    BY <2>1, <2>2
  <2>4. [uploads[s] EXCEPT ![u] = uploads[s][u] - 1] \in [UploadStates -> Nat]
    BY <2>2, <2>3
  <2>5. uploads' \in [Sweeps -> [UploadStates -> Nat]] /\ UploadsInv'
    <3>1. PICK f \in [UploadStates -> Nat] :
            f = [uploads[s] EXCEPT ![u] = uploads[s][u] - 1]
      BY <2>4
    <3>2. \A v \in UploadStates : f[v] <= uploads[s][v]
      BY <2>2, <3>1
    <3>3. QED  BY <2>1, <3>1, <3>2, UploadTypes
  <2>6. CASE UploadPost(s)
    BY <1>s, <1>k, <1>q, <2>5, <2>6 DEF UploadPost, StoreTypes, OtherTypes
  <2>7. CASE UploadFails(s)
    <3>1. RawOf(s) \in Messages
      BY <1>s, <2>1 DEF StoreTypes, UploadsInv
    <3>2. QED
      BY <1>s, <1>k, <1>q, <2>5, <2>7, <3>1, FaultTypes
         DEF UploadFails, StoreTypes, OtherTypes, RawOf
  <2>8. QED  BY <1>2, <2>6, <2>7
<1>3. CASE (\E t \in Task : CommitOffsets(t)) \/ UNCHANGED vars
  BY <1>3, <1>s, <1>k, <1>q
     DEF CommitOffsets, Commit, vars, StoreTypes, UploadsInv, OtherTypes
<1>e. ASSUME NEW t \in Task, ConsumerEnds(t)
      PROVE  TypeInv'
  BY <1>e, <1>s, <1>k, <1>q, FaultTypes
     DEF ConsumerEnds, Commit, StoreTypes, UploadsInv, OtherTypes
<1>4. CASE Redeliver
  BY <1>4, <1>s, <1>k, <1>q, BoundsAssumption
     DEF Redeliver, StoreTypes, UploadsInv, OtherTypes
<1>5. CASE Crash
  <2>1. TaskTypes'
    BY <1>5 DEF Crash, TaskTypes, Labels, TasksInv, Busy, Sorted
  <2>2. StoreTypes'
    BY <1>5, <1>s DEF Crash, StoreTypes, UploadStates, UploadsInv
  <2>3. OtherTypes'
    BY <1>5, <1>s, BoundsAssumption DEF Crash, OtherTypes
  <2>4. QED  BY <1>q, <2>1, <2>2, <2>3
<1>6. QED  BY <1>1, <1>2, <1>3, <1>e, <1>4, <1>5 DEF Upload, Environment

LEMMA TypeStep == TypeInv /\ [Next]_vars => TypeInv'
BY TypeTasks, TypeOutside DEF Next

(* The variables keep their types; a task has in hand, and in its queue,   *)
(* only messages of its topic, and is at a statement for them.             *)
THEOREM WriterTypeCorrect == Spec => []TypeInv
BY TypeInit, TypeStep, PTL DEF Spec

-----------------------------------------------------------------------------
(* The documents of an electrical array. *)

(* What an insert that reaches the server adds.                            *)
LEMMA InsertedAdds ==
    ASSUME TypeInv, NEW t \in Task, Inserting(t), Inserted(t), pc[t] # "laser"
    PROVE  /\ laser' = laser
           /\ \A c \in Collections, s \in Sweeps :
                  docs'[c][s] = docs[c][s] + IF c = pc[t] /\ s = Sweep(t) THEN 1 ELSE 0
<1>1. docs \in [Collections -> [Sweeps -> Nat]]
  BY DEF TypeInv, TypeOK
<1>2. PICK c \in Collections, s \in Sweeps : c = pc[t] /\ s = Sweep(t)
  BY TaskOfLabel DEF Inserting, Collections
<1>3. docs' = [docs EXCEPT ![c][s] = docs[c][s] + 1] /\ laser' = laser
  BY <1>2 DEF Inserted
<1>4. QED  BY <1>1, <1>2, <1>3

(* The statements of the raw task about an electrical array, and what is   *)
(* left as it was by every other step.                                     *)
ElecVars == <<laser, docs["trace"], docs["elec"], crashes>>
RawVars == <<pc["Raw"], item["Raw"]>>

(* The steps, as far as the documents of electrical arrays go: an insert   *)
(* that is made and seen; one with a fault; a message that is taken,       *)
(* counted or given up; a restart; and what has nothing to do with them.   *)
ElecInsert ==
    /\ pc["Raw"] \in {"laser", "trace", "elec"}
    /\ AfterInsert("Raw")
    /\ \/ Inserted("Raw") /\ faults' \in {faults, faults + 1}
       \/ UNCHANGED mongoVars /\ faults' = faults + 1
    /\ crashes' = crashes
ElecStart ==
    /\ pc["Raw"] \notin {"laser", "trace", "elec"}
    /\ \/ pc'["Raw"] \notin {"laser", "trace", "elec"}
       \/ pc["Raw"] = "count" /\ pc'["Raw"] = IF laser = 0 THEN "laser" ELSE "trace"
    /\ faults' \in {faults, faults + 1} /\ UNCHANGED ElecVars
ElecGiveUp ==
    pc'["Raw"] = "get" /\ faults' = faults + 1 /\ UNCHANGED ElecVars
ElecCrash ==
    /\ pc'["Raw"] = "get" /\ faults' = faults /\ crashes' = crashes + 1
    /\ UNCHANGED mongoVars
ElecNothing ==
    faults' \in {faults, faults + 1} /\ UNCHANGED <<ElecVars, RawVars>>

LEMMA ElecSteps ==
    ASSUME TypeInv, [Next]_vars
    PROVE  ElecInsert \/ ElecStart \/ ElecGiveUp \/ ElecCrash \/ ElecNothing
<1> USE DEF kafkaVars, mongoVars, uploadVars, boundVars, ElecVars, RawVars
<1>s. /\ pc \in [Task -> Labels] /\ item \in [Task -> Messages \cup {None}]
      /\ docs \in [Collections -> [Sweeps -> Nat]]
      /\ \A t \in Task : t # "Raw" => pc[t] \in {"get", "correlation", "conversion"}
      /\ "Raw" \in Task /\ {"trace", "elec"} \subseteq Collections
  <2>1. /\ pc \in [Task -> Labels] /\ item \in [Task -> Messages \cup {None}]
        /\ docs \in [Collections -> [Sweeps -> Nat]]
    BY DEF TypeInv, TypeOK
  <2>2. \A t \in Task : t # "Raw" => pc[t] \in {"get", "correlation", "conversion"}
    BY <2>1, TaskOfLabel DEF Labels, Collections
  <2>3. QED  BY <2>1, <2>2 DEF Task, Collections
<1>n. ASSUME faults' \in {faults, faults + 1}, UNCHANGED <<mongoVars, crashes>>,
             pc'["Raw"] = pc["Raw"], item'["Raw"] = item["Raw"]
      PROVE  ElecNothing
  BY <1>n DEF ElecNothing
<1>1. ASSUME NEW m \in Messages, Consume(m) \/ DropMessage(m)
      PROVE  ElecNothing
  BY <1>1, <1>n DEF Consume, DropMessage, Fault
<1>2. ASSUME NEW t \in Task, Get(t)
      PROVE  ElecStart \/ ElecNothing
  <2>1. CASE t = "Raw"
    <3>1. PICK m \in Messages : m = Head(queue[t])
      BY <1>2 DEF Get, TypeInv, TypeOK
    <3>2. m.type \in {"raw", "elec"}
      <4>1. queue[t] \in Seq(Messages) /\ queue[t] # << >> /\ Sorted(t)
        BY <1>2 DEF Get, TypeInv, TypeOK, TasksInv
      <4>2. TopicOf(m) = "Raw"
        BY <2>1, <3>1, <4>1 DEF Sorted
      <4>3. QED  BY <4>2, MessageTopic
    <3>3. FirstLabel(m) \in {"create", "count"}
      BY <3>2 DEF FirstLabel
    <3>4. pc["Raw"] = "get" /\ pc'["Raw"] = FirstLabel(m)
      BY <1>2, <1>s, <2>1, <3>1 DEF Get, Goto
    <3>5. QED  BY <1>2, <3>3, <3>4 DEF ElecStart, Get
  <2>2. CASE t # "Raw"
    BY <1>2, <1>s, <1>n, <2>2 DEF Get, Goto
  <2>3. QED  BY <2>1, <2>2
<1>3. ASSUME NEW t \in Task,
             \/ InsertDocument(t) \/ InsertSwallowed(t) \/ InsertUnacknowledged(t)
      PROVE  ElecInsert \/ ElecNothing
  <2>1. /\ Inserting(t) /\ AfterInsert(t) /\ crashes' = crashes
        /\ \/ Inserted(t) /\ faults' \in {faults, faults + 1}
           \/ UNCHANGED mongoVars /\ faults' = faults + 1
    BY <1>3 DEF InsertDocument, InsertSwallowed, InsertUnacknowledged, Fault
  <2>2. CASE t = "Raw"
    <3>1. pc["Raw"] \in {"laser", "trace", "elec"}
      BY <2>1, <2>2, TaskOfLabel, <1>s DEF Inserting, Collections
    <3>2. QED  BY <2>1, <2>2, <3>1 DEF ElecInsert
  <2>3. CASE t # "Raw"
    <3>1. pc[t] \in {"correlation", "conversion"}
      BY <1>s, <2>1, <2>3 DEF Inserting, Collections
    <3>2. pc'["Raw"] = pc["Raw"] /\ item'["Raw"] = item["Raw"]
      BY <1>s, <2>1, <2>3, <3>1 DEF AfterInsert, Done, Goto
    <3>3. laser' = laser /\ docs'["trace"] = docs["trace"] /\ docs'["elec"] = docs["elec"]
      BY <1>s, <2>1, <3>1 DEF Inserted
    <3>4. QED  BY <2>1, <3>2, <3>3 DEF ElecNothing
  <2>4. QED  BY <2>2, <2>3
<1>4. ASSUME NEW t \in Task, GiveUp(t), Fault
      PROVE  ElecGiveUp \/ ElecNothing
  BY <1>4, <1>s, <1>n DEF GiveUp, Done, Goto, Fault, ElecGiveUp
<1>5. CASE CountDocuments
  BY <1>5, <1>s DEF CountDocuments, Goto, ElecStart
<1>6. CASE OpenFile \/ WriteFile
  BY <1>6, <1>s DEF OpenFile, WriteFile, Done, Goto, ElecStart
<1>7. CASE RawTask
  BY <1>4, <1>5, <1>6, <1>7, <1>s DEF RawTask, CountFails, WriteFails
<1>8. CASE \E s \in Sweeps : Upload(s)
  BY <1>8, <1>n DEF Upload, UploadRead, UploadPost, UploadFails, Fault
<1>9. CASE \/ \E t \in Task : CommitOffsets(t) \/ ConsumerEnds(t)
           \/ Redeliver \/ UNCHANGED vars
  BY <1>9, <1>n DEF CommitOffsets, ConsumerEnds, Redeliver, vars, Fault
<1>10. CASE Crash
  BY <1>10, <1>s DEF Crash, ElecCrash
<1>11. QED
  BY <1>1, <1>2, <1>3, <1>4, <1>7, <1>8, <1>9, <1>10
     DEF Next, WriterTask, InsertRaises, Environment

(* The raw task inserts laser metadata only while there are none, and      *)
(* without a fault they are there before the documents of an array.        *)
LaserInv ==
    /\ laser \in {0, 1}
    /\ pc["Raw"] = "laser" => laser = 0
    /\ faults = 0 /\ pc["Raw"] \in {"trace", "elec"} => laser = 1
    /\ LaserOnce

LEMMA LaserStep == TypeInv /\ LaserInv /\ [Next]_vars => LaserInv'
<1> SUFFICES ASSUME TypeInv, LaserInv, [Next]_vars
             PROVE  LaserInv'
  OBVIOUS
<1>s. /\ pc \in [Task -> Labels] /\ faults \in Nat /\ "Raw" \in Task
      /\ docs["trace"] \in [Sweeps -> Nat] /\ docs["elec"] \in [Sweeps -> Nat]
  BY BoundsAssumption DEF TypeInv, TypeOK, Task, Collections
<1>1. CASE ElecInsert
  <2>1. pc'["Raw"] = CASE pc["Raw"] = "laser" -> "trace"
                       [] pc["Raw"] = "trace" -> "elec"
                       [] pc["Raw"] = "elec" -> "get"
    BY <1>1, <1>s DEF ElecInsert, AfterInsert, Done, Goto, Collections
  <2>2. CASE pc["Raw"] = "laser"
    <3>1. pc'["Raw"] = "trace" /\ laser = 0 /\ docs' = docs
          /\ laser' \in {0, 1} /\ (faults' = 0 => laser' = 1)
      BY <1>1, <1>s, <2>1, <2>2 DEF ElecInsert, Inserted, LaserInv, mongoVars
    <3>2. QED  BY <1>1, <1>s, <3>1 DEF LaserInv, LaserOnce
  <2>3. CASE pc["Raw"] \in {"trace", "elec"}
    <3>1. laser' = laser /\ pc'["Raw"] # "laser"
      BY <1>1, <2>1, <2>3 DEF ElecInsert, Inserted, mongoVars
    <3>2. faults' = 0 => faults = 0
      BY <1>1, <1>s DEF ElecInsert
    <3>3. QED  BY <2>3, <3>1, <3>2 DEF LaserInv, LaserOnce
  <2>4. QED  BY <1>1, <2>2, <2>3 DEF ElecInsert
<1>2. CASE ElecStart \/ ElecGiveUp \/ ElecNothing
  <2>1. faults' = 0 => faults = 0
    BY <1>2, <1>s DEF ElecStart, ElecGiveUp, ElecNothing
  <2>2. QED
    BY <1>2, <2>1 DEF ElecStart, ElecGiveUp, ElecNothing, ElecVars, RawVars, LaserInv,
                      LaserOnce
<1>3. CASE ElecCrash
  BY <1>3 DEF ElecCrash, mongoVars, LaserInv, LaserOnce
<1>4. QED  BY <1>1, <1>2, <1>3, ElecSteps

(* There is at most one document of laser metadata, and without failures it*)
(* is stored before the first document of an electrical array.             *)
THEOREM LaserStoredOnce == Spec => []LaserOnce
<1>1. Init => LaserInv
  BY DEF Init, LaserInv, LaserOnce, Collections, Task
<1>2. LaserInv => LaserOnce
  BY DEF LaserInv
<1>3. QED  BY <1>1, <1>2, WriterTypeCorrect, LaserStep, PTL DEF Spec

(* By how much the traces of a sweep exceed its electrical data, but for   *)
(* the array whose trace has been stored a moment ago.                     *)
Excess(s) == docs["trace"][s] - docs["elec"][s] - BetweenTheTwo(s)

LEMMA ExcessType ==
    ASSUME TypeInv, NEW s \in Sweeps
    PROVE  /\ docs["trace"][s] \in Nat /\ docs["elec"][s] \in Nat
           /\ BetweenTheTwo(s) \in {0, 1} /\ Excess(s) \in Int
<1>1. docs["trace"][s] \in Nat /\ docs["elec"][s] \in Nat
  BY DEF TypeInv, TypeOK, Collections
<1>2. BetweenTheTwo(s) \in {0, 1}
  BY DEF BetweenTheTwo
<1>3. QED  BY <1>1, <1>2 DEF Excess

(* Only a fault or a restart moves the excess, and by one.                 *)
LEMMA ExcessStep ==
    ASSUME TypeInv, TypeInv', [Next]_vars, NEW s \in Sweeps
    PROVE  \/ Excess(s)' = Excess(s) /\ faults' + crashes' >= faults + crashes
           \/ /\ Excess(s)' \in {Excess(s) - 1, Excess(s) + 1}
              /\ faults' + crashes' = faults + crashes + 1
<1> DEFINE between == pc["Raw"] = "elec" /\ Sweep("Raw") = s
<1>s. /\ pc \in [Task -> Labels] /\ item \in [Task -> Messages \cup {None}]
      /\ faults \in Nat /\ crashes \in Nat /\ "Raw" \in Task
      /\ {"trace", "elec"} \subseteq Collections
  BY BoundsAssumption DEF TypeInv, TypeOK, Task, Collections
<1>t. /\ docs["trace"][s] \in Nat /\ docs["elec"][s] \in Nat
      /\ BetweenTheTwo(s) \in {0, 1}
  BY ExcessType
<1>f. ASSUME crashes' = crashes, faults' = faults \/ faults' = faults + 1
      PROVE  faults' + crashes' >= faults + crashes
  BY <1>f, <1>s
<1>b. BetweenTheTwo(s) = IF between THEN 1 ELSE 0
  BY DEF BetweenTheTwo
<1>c. BetweenTheTwo(s)' = IF between' THEN 1 ELSE 0
  BY DEF BetweenTheTwo
<1>1. CASE ElecInsert
  <2>0. \/ Inserted("Raw") /\ faults' \in {faults, faults + 1}
        \/ UNCHANGED mongoVars /\ faults' = faults + 1
    BY <1>1 DEF ElecInsert
  <2>1. CASE pc["Raw"] = "laser"
    <3>1. pc'["Raw"] = "trace"
      BY <1>1, <1>s, <2>1 DEF ElecInsert, AfterInsert, Goto, Collections
    <3>4. docs' = docs
      BY <2>0, <2>1 DEF Inserted, mongoVars
    <3>2. Excess(s)' = Excess(s)
      BY <1>b, <1>c, <2>1, <3>1, <3>4 DEF Excess
    <3>3. QED  BY <1>1, <1>f, <3>2 DEF ElecInsert
  <2>2. CASE pc["Raw"] = "trace"
    <3>1. pc'["Raw"] = "elec" /\ item' = item
      BY <1>1, <1>s, <2>2 DEF ElecInsert, AfterInsert, Goto
    <3>2. ~ between /\ (between' <=> Sweep("Raw") = s)
      BY <2>2, <3>1 DEF Sweep
    <3>3. CASE Inserted("Raw") /\ faults' \in {faults, faults + 1}
      <4>1. /\ docs'["trace"][s] = docs["trace"][s] + IF Sweep("Raw") = s THEN 1 ELSE 0
            /\ docs'["elec"][s] = docs["elec"][s]
        <5>1. Inserting("Raw")
          BY <2>2 DEF Inserting, Collections
        <5>2. QED  BY <1>s, <1>t, <2>2, <3>3, <5>1, InsertedAdds
      <4>2. Excess(s)' = Excess(s)
        BY <1>b, <1>c, <1>t, <3>2, <4>1 DEF Excess
      <4>3. QED  BY <1>1, <1>f, <4>2 DEF ElecInsert
    <3>4. CASE UNCHANGED mongoVars /\ faults' = faults + 1
      <4>1. docs' = docs
        BY <3>4 DEF mongoVars
      <4>2. Excess(s)' \in {Excess(s), Excess(s) - 1}
        BY <1>b, <1>c, <1>t, <3>2, <4>1 DEF Excess
      <4>3. faults' + crashes' = faults + crashes + 1
        BY <1>1, <1>s, <3>4 DEF ElecInsert
      <4>4. QED  BY <1>s, <4>2, <4>3
    <3>5. QED  BY <2>0, <3>3, <3>4
  <2>3. CASE pc["Raw"] = "elec"
    <3>1. pc'["Raw"] = "get"
      BY <1>1, <1>s, <2>3 DEF ElecInsert, AfterInsert, Done, Goto
    <3>2. ~ between' /\ (between <=> Sweep("Raw") = s)
      BY <2>3, <3>1
    <3>3. CASE Inserted("Raw") /\ faults' \in {faults, faults + 1}
      <4>1. /\ docs'["elec"][s] = docs["elec"][s] + IF Sweep("Raw") = s THEN 1 ELSE 0
            /\ docs'["trace"][s] = docs["trace"][s]
        <5>1. Inserting("Raw")
          BY <2>3 DEF Inserting, Collections
        <5>2. QED  BY <1>s, <1>t, <2>3, <3>3, <5>1, InsertedAdds
      <4>2. Excess(s)' = Excess(s)
        BY <1>b, <1>c, <1>t, <3>2, <4>1 DEF Excess
      <4>3. QED  BY <1>1, <1>f, <4>2 DEF ElecInsert
    <3>4. CASE UNCHANGED mongoVars /\ faults' = faults + 1
      <4>1. docs' = docs
        BY <3>4 DEF mongoVars
      <4>2. Excess(s)' \in {Excess(s), Excess(s) + 1}
        BY <1>b, <1>c, <1>t, <3>2, <4>1 DEF Excess
      <4>3. faults' + crashes' = faults + crashes + 1
        BY <1>1, <1>s, <3>4 DEF ElecInsert
      <4>4. QED  BY <1>s, <4>2, <4>3
    <3>5. QED  BY <2>0, <3>3, <3>4
  <2>4. QED  BY <1>1, <2>1, <2>2, <2>3 DEF ElecInsert
<1>2. CASE ElecGiveUp \/ ElecCrash
  <2>1. /\ docs'["trace"] = docs["trace"] /\ docs'["elec"] = docs["elec"] /\ ~ between'
    BY <1>2 DEF ElecGiveUp, ElecCrash, ElecVars, mongoVars
  <2>2. faults' + crashes' = faults + crashes + 1
    BY <1>2, <1>s DEF ElecGiveUp, ElecCrash, ElecVars
  <2>3. Excess(s)' \in {Excess(s), Excess(s) + 1}
    BY <1>b, <1>c, <1>t, <2>1 DEF Excess
  <2>4. QED  BY <1>s, <2>2, <2>3
<1>3. CASE ElecStart \/ ElecNothing
  <2>1. /\ docs'["trace"] = docs["trace"] /\ docs'["elec"] = docs["elec"]
        /\ between' <=> between
    BY <1>3 DEF ElecStart, ElecNothing, ElecVars, RawVars, Sweep
  <2>2. Excess(s)' = Excess(s)
    BY <1>b, <1>c, <2>1 DEF Excess
  <2>3. crashes' = crashes /\ faults' \in {faults, faults + 1}
    BY <1>3 DEF ElecStart, ElecNothing, ElecVars
  <2>4. QED  BY <1>f, <2>2, <2>3
<1>4. QED  BY <1>1, <1>2, <1>3, ElecSteps

ExcessBound ==
    \A s \in Sweeps : -(faults + crashes) <= Excess(s) /\ Excess(s) <= faults + crashes

LEMMA ExcessBoundStep == TypeInv /\ TypeInv' /\ ExcessBound /\ [Next]_vars => ExcessBound'
<1> SUFFICES ASSUME TypeInv, TypeInv', ExcessBound, [Next]_vars, NEW s \in Sweeps
             PROVE  (-(faults + crashes) <= Excess(s) /\ Excess(s) <= faults + crashes)'
  BY DEF ExcessBound
<1>1. PICK n \in Nat : n = faults + crashes
  BY BoundsAssumption DEF TypeInv, TypeOK
<1>2. PICK e \in Int : e = Excess(s)
  BY ExcessType
<1>3. -n <= e /\ e <= n
  BY <1>1, <1>2 DEF ExcessBound
<1>4. CASE Excess(s)' = e /\ faults' + crashes' >= n
  <2>1. faults' + crashes' \in Int
    BY BoundsAssumption DEF TypeInv, TypeOK
  <2>2. QED  BY <1>3, <1>4, <2>1
<1>5. CASE Excess(s)' \in {e - 1, e + 1} /\ faults' + crashes' = n + 1
  BY <1>3, <1>5
<1>6. QED  BY <1>1, <1>2, <1>4, <1>5, ExcessStep

(* Of the two documents of an electrical array at most one per failure and *)
(* restart is without the other.                                           *)
THEOREM TracesWithElec == Spec => []TraceWithElec
<1>1. Init => ExcessBound
  BY DEF Init, ExcessBound, Excess, BetweenTheTwo, Collections, Task
<1>2. ExcessBound => TraceWithElec
  BY DEF ExcessBound, Excess, TraceWithElec
<1>3. QED  BY <1>1, <1>2, WriterTypeCorrect, ExcessBoundStep, PTL DEF Spec

-----------------------------------------------------------------------------
(* Copies of a message. *)

(* How often a message stands in a queue.                                  *)
Indices(q, m) == {i \in 1..Len(q) : q[i] = m}
Count(q, m) == Cardinality(Indices(q, m))
One(P) == IF P THEN 1 ELSE 0

LEMMA CountType ==
    ASSUME NEW q \in Seq(Messages), NEW m
    PROVE  IsFiniteSet(Indices(q, m)) /\ Count(q, m) \in Nat
<1>1. IsFiniteSet(1..Len(q))
  BY FS_Interval
<1>2. IsFiniteSet(Indices(q, m))
  BY <1>1, FS_Subset DEF Indices
<1>3. QED  BY <1>2, FS_CardinalityType DEF Count

LEMMA CountEmpty == \A m : Count(<< >>, m) = 0
<1> SUFFICES ASSUME NEW m
             PROVE  Count(<< >>, m) = 0
  OBVIOUS
<1>1. Indices(<< >>, m) = {}
  BY DEF Indices
<1>2. QED  BY <1>1, FS_EmptySet DEF Count

LEMMA CountAppend ==
    ASSUME NEW q \in Seq(Messages), NEW x \in Messages, NEW m
    PROVE  Count(Append(q, x), m) = Count(q, m) + One(x = m)
<1> DEFINE n == Len(q)
<1>1. /\ n \in Nat /\ Append(q, x)[n + 1] = x /\ Len(Append(q, x)) = n + 1
      /\ \A i \in 1..n : Append(q, x)[i] = q[i]
  OBVIOUS
<1>2. IsFiniteSet(Indices(q, m)) /\ Count(q, m) \in Nat
  BY CountType
<1>6. n + 1 \notin Indices(q, m)
  BY <1>1 DEF Indices
<1>3. CASE x = m
  <2>1. Indices(Append(q, x), m) = Indices(q, m) \cup {n + 1}
    BY <1>1, <1>3 DEF Indices
  <2>2. QED  BY <1>2, <1>3, <1>6, <2>1, FS_AddElement DEF Count, One
<1>4. CASE x # m
  <2>1. Indices(Append(q, x), m) = Indices(q, m)
    BY <1>1, <1>4 DEF Indices
  <2>2. QED  BY <1>2, <1>4, <2>1 DEF Count, One
<1>5. QED  BY <1>3, <1>4

LEMMA CountTail ==
    ASSUME NEW q \in Seq(Messages), q # << >>, NEW m
    PROVE  Count(q, m) = Count(Tail(q), m) + One(Head(q) = m)
<1> DEFINE n == Len(q)
           R == Indices(Tail(q), m)
           S == {i \in 2..n : q[i] = m}
           f == [i \in R |-> i + 1]
<1>1. /\ n \in Nat \ {0} /\ Len(Tail(q)) = n - 1 /\ Head(q) = q[1]
      /\ \A i \in 1..(n - 1) : Tail(q)[i] = q[i + 1]
      /\ Tail(q) \in Seq(Messages)
  OBVIOUS
<1>2. R = {i \in 1..(n - 1) : q[i + 1] = m}
  BY <1>1 DEF Indices
<1>3. f \in [R -> S] /\ \A i, j \in R : f[i] = f[j] => i = j
  BY <1>1, <1>2
<1>4. ASSUME NEW k \in S
      PROVE  \E i \in R : f[i] = k
  <2>1. k - 1 \in R
    BY <1>1, <1>2
  <2>2. f[k - 1] = k
    BY <2>1
  <2>3. QED  BY <2>1, <2>2
<1>5. f \in Bijection(R, S)
  BY <1>3, <1>4 DEF Bijection, Injection, Surjection, IsInjective
<1>6. ExistsBijection(R, S)
  BY <1>5 DEF ExistsBijection
<1>7. IsFiniteSet(R) /\ Count(Tail(q), m) \in Nat
  BY <1>1, CountType
<1>8. IsFiniteSet(S) /\ Cardinality(S) = Count(Tail(q), m)
  BY <1>6, <1>7, FS_Bijection DEF Count
<1>9. CASE Head(q) = m
  <2>1. Indices(q, m) = S \cup {1} /\ 1 \notin S
    BY <1>1, <1>9 DEF Indices
  <2>2. QED  BY <1>7, <1>8, <1>9, <2>1, FS_AddElement DEF Count, One
<1>10. CASE Head(q) # m
  <2>1. Indices(q, m) = S
    BY <1>1, <1>10 DEF Indices
  <2>2. QED  BY <1>7, <1>8, <1>10, <2>1 DEF Count, One
<1>11. QED  BY <1>9, <1>10

(* What may still be done for a message: its copies on the topic and in the*)
(* queue, and the one in hand as long as its task is at one of the labels. *)
Copies(m) == One(m \in topics) + Count(queue[TopicOf(m)], m)
InHand(m, labels) == One(pc[TopicOf(m)] \in labels /\ item[TopicOf(m)] = m)
Supply(m, labels) == Copies(m) + InHand(m, labels)

LEMMA SupplyType ==
    ASSUME TypeInv, NEW m, TopicOf(m) \in Task, NEW labels
    PROVE  /\ One(m \in topics) \in {0, 1} /\ Count(queue[TopicOf(m)], m) \in Nat
           /\ Copies(m) \in Nat /\ InHand(m, labels) \in {0, 1}
           /\ Supply(m, labels) \in Nat
<1>1. One(m \in topics) \in {0, 1} /\ InHand(m, labels) \in {0, 1}
  BY DEF One, InHand
<1>2. queue[TopicOf(m)] \in Seq(Messages)
  BY DEF TypeInv, TypeOK
<1>3. Count(queue[TopicOf(m)], m) \in Nat
  BY <1>2, CountType
<1>4. Copies(m) \in Nat
  BY <1>1, <1>3 DEF Copies
<1>5. QED  BY <1>1, <1>3, <1>4 DEF Supply

LEMMA SameCopies ==
    ASSUME NEW m, UNCHANGED <<topics, queue>>
    PROVE  Copies(m)' = Copies(m)
BY DEF Copies

LEMMA SameHand ==
    ASSUME TypeInv, NEW m, NEW labels, pc'[TopicOf(m)] = pc[TopicOf(m)],
           item'[TopicOf(m)] = item[TopicOf(m)]
    PROVE  InHand(m, labels)' = InHand(m, labels)
BY DEF InHand

(* Reading, taking, committing and the end of a thread add no copy, and a  *)
(* message that is taken from the queue is one copy less.                  *)
LEMMA KafkaSupply ==
    ASSUME TypeInv, NEW m, TopicOf(m) \in Task, NEW labels, "get" \notin labels,
           \/ \E x \in Messages : Consume(x) \/ DropMessage(x)
           \/ \E t \in Task : Get(t) \/ CommitOffsets(t) \/ ConsumerEnds(t)
    PROVE  Supply(m, labels)' <= Supply(m, labels)
<1> DEFINE d == TopicOf(m)
<1>s. /\ queue \in [Task -> Seq(Messages)] /\ pc \in [Task -> Labels]
      /\ item \in [Task -> Messages \cup {None}]
  BY DEF TypeInv, TypeOK
<1>t. /\ One(m \in topics) \in {0, 1} /\ Count(queue[d], m) \in Nat
      /\ Copies(m) \in Nat /\ InHand(m, labels) \in {0, 1}
  BY SupplyType
<1>h. ASSUME UNCHANGED <<pc, item>>, Copies(m)' <= Copies(m), Copies(m)' \in Int
      PROVE  Supply(m, labels)' <= Supply(m, labels)
  <2>1. InHand(m, labels)' = InHand(m, labels)
    BY <1>h, SameHand
  <2>2. QED  BY <1>h, <1>t, <2>1 DEF Supply
<1>1. ASSUME NEW x \in Messages, Consume(x)
      PROVE  Supply(m, labels)' <= Supply(m, labels)
  <2>1. /\ x \in topics /\ topics' = topics \ {x} /\ TopicOf(x) \in Task
        /\ queue' = [queue EXCEPT ![TopicOf(x)] = Append(queue[TopicOf(x)], x)]
        /\ UNCHANGED <<pc, item>>
    BY <1>1, MessageTopic DEF Consume, Read
  <2>2. CASE x = m
    <3>1. queue'[d] = Append(queue[d], x) /\ queue[d] \in Seq(Messages)
      BY <1>s, <2>1, <2>2
    <3>2. Count(queue'[d], m) = Count(queue[d], m) + 1
      BY <2>2, <3>1, CountAppend DEF One
    <3>3. m \in topics /\ m \notin topics'
      BY <2>1, <2>2
    <3>4. Copies(m)' = Copies(m)
      BY <1>t, <3>2, <3>3 DEF Copies, One
    <3>5. QED  BY <1>h, <1>t, <2>1, <3>4
  <2>3. CASE x # m
    <3>1. (m \in topics') = (m \in topics)
      BY <2>1, <2>3
    <3>2. CASE TopicOf(x) = d
      <4>1. queue'[d] = Append(queue[d], x) /\ queue[d] \in Seq(Messages)
        BY <1>s, <2>1, <3>2
      <4>2. Count(queue'[d], m) = Count(queue[d], m)
        BY <1>t, <2>3, <4>1, CountAppend DEF One
      <4>3. Copies(m)' = Copies(m)
        BY <3>1, <4>2 DEF Copies, One
      <4>4. QED  BY <1>h, <1>t, <2>1, <4>3
    <3>3. CASE TopicOf(x) # d
      <4>1. queue'[d] = queue[d]
        BY <1>s, <2>1, <3>3
      <4>2. Copies(m)' = Copies(m)
        BY <3>1, <4>1 DEF Copies, One
      <4>3. QED  BY <1>h, <1>t, <2>1, <4>2
    <3>4. QED  BY <3>2, <3>3
  <2>4. QED  BY <2>2, <2>3
<1>2. ASSUME NEW x \in Messages, DropMessage(x)
      PROVE  Supply(m, labels)' <= Supply(m, labels)
  <2>1. topics' = topics \ {x} /\ UNCHANGED <<queue, pc, item>>
    BY <1>2 DEF DropMessage, Read
  <2>2. One(m \in topics)' \in {0, 1} /\ One(m \in topics)' <= One(m \in topics)
    BY <2>1 DEF One
  <2>3. Copies(m)' <= Copies(m) /\ Copies(m)' \in Int
    BY <1>t, <2>1, <2>2 DEF Copies
  <2>4. QED  BY <1>h, <2>1, <2>3
<1>3. ASSUME NEW t \in Task, Get(t)
      PROVE  Supply(m, labels)' <= Supply(m, labels)
  <2>1. /\ pc[t] = "get" /\ queue[t] # << >> /\ UNCHANGED topics
        /\ item' = [item EXCEPT ![t] = Head(queue[t])]
        /\ queue' = [queue EXCEPT ![t] = Tail(queue[t])]
        /\ pc' = [pc EXCEPT ![t] = FirstLabel(Head(queue[t]))]
    BY <1>3 DEF Get, Goto, kafkaVars
  <2>2. CASE t = d
    <3>1. /\ queue[d] \in Seq(Messages) /\ queue[d] # << >>
          /\ queue'[d] = Tail(queue[d]) /\ item'[d] = Head(queue[d])
          /\ Tail(queue[d]) \in Seq(Messages)
      BY <1>s, <2>1, <2>2
    <3>2. Count(queue[d], m) = Count(queue'[d], m) + One(Head(queue[d]) = m)
      BY <3>1, CountTail
    <3>3. Count(Tail(queue[d]), m) \in Nat
      BY <3>1, CountType
    <3>4. InHand(m, labels) = 0
      BY <2>1, <2>2 DEF InHand, One
    <3>5. InHand(m, labels)' <= One(Head(queue[d]) = m)
      BY <3>1 DEF InHand, One
    <3>6. One(Head(queue[d]) = m) \in {0, 1} /\ InHand(m, labels)' \in {0, 1}
      BY DEF One, InHand
    <3>7. Copies(m)' = One(m \in topics) + Count(queue'[d], m)
      BY <2>1 DEF Copies, One
    <3>8. Copies(m) = One(m \in topics) + Count(queue[d], m)
      BY DEF Copies
    <3>9. QED
      BY <1>t, <3>1, <3>2, <3>3, <3>4, <3>5, <3>6, <3>7, <3>8 DEF Supply
  <2>3. CASE t # d
    <3>1. queue'[d] = queue[d] /\ item'[d] = item[d] /\ pc'[d] = pc[d]
      BY <1>s, <2>1, <2>3
    <3>2. Copies(m)' = Copies(m) /\ InHand(m, labels)' = InHand(m, labels)
      BY <2>1, <3>1 DEF Copies, InHand, One
    <3>3. QED  BY <1>t, <3>2 DEF Supply
  <2>4. QED  BY <2>2, <2>3
<1>4. ASSUME NEW t \in Task, CommitOffsets(t) \/ ConsumerEnds(t)
      PROVE  Supply(m, labels)' <= Supply(m, labels)
  <2>1. UNCHANGED <<topics, queue, pc, item>>
    BY <1>4 DEF CommitOffsets, ConsumerEnds
  <2>2. QED  BY <1>h, <1>t, <2>1, SameCopies
<1>5. QED  BY <1>1, <1>2, <1>3, <1>4

(* A redelivery, or a restart, makes at most one copy more.                *)
LEMMA RestartSupply ==
    ASSUME TypeInv, NEW m, TopicOf(m) \in Task, NEW labels, "get" \notin labels,
           Redeliver \/ Crash
    PROVE  /\ Supply(m, labels)' <= Supply(m, labels) + 1
           /\ redeliveries' + crashes' = redeliveries + crashes + 1
           /\ Crash => Supply(m, labels)' <= 1
<1> DEFINE d == TopicOf(m)
<1>t. /\ One(m \in topics) \in {0, 1} /\ Count(queue[d], m) \in Nat
      /\ Copies(m) \in Nat /\ InHand(m, labels) \in {0, 1}
      /\ Supply(m, labels) \in Nat
  BY SupplyType
<1>u. redeliveries \in Nat /\ crashes \in Nat
  BY BoundsAssumption DEF TypeInv, TypeOK
<1>v. One(m \in topics)' \in {0, 1}
  BY DEF One
<1>1. CASE Redeliver
  <2>1. UNCHANGED <<queue, pc, item>>
    BY <1>1 DEF Redeliver
  <2>2. Copies(m)' <= Copies(m) + 1 /\ Copies(m)' \in Int
    BY <1>t, <1>v, <2>1 DEF Copies
  <2>3. InHand(m, labels)' = InHand(m, labels)
    BY <2>1, SameHand
  <2>4. Supply(m, labels)' <= Supply(m, labels) + 1
    BY <1>t, <2>2, <2>3 DEF Supply
  <2>5. redeliveries' = redeliveries + 1 /\ crashes' = crashes
    BY <1>1 DEF Redeliver
  <2>6. crashes' # crashes + 1
    BY <1>u, <2>5
  <2>7. QED  BY <1>u, <2>4, <2>5, <2>6 DEF Crash
<1>2. CASE Crash
  <2>1. queue'[d] = << >> /\ pc'[d] = "get"
    BY <1>2 DEF Crash
  <2>2. Copies(m)' \in {0, 1}
    BY <1>v, <2>1, CountEmpty DEF Copies
  <2>3. InHand(m, labels)' = 0
    BY <2>1 DEF InHand, One
  <2>4. Supply(m, labels)' \in {0, 1}
    BY <2>2, <2>3 DEF Supply
  <2>5. redeliveries' = redeliveries /\ crashes' = crashes + 1
    BY <1>2 DEF Crash
  <2>6. QED  BY <1>t, <1>u, <2>4, <2>5
<1>3. QED  BY <1>1, <1>2

(* A step of a task moves only what it has in hand.                        *)
LEMMA TaskSupply ==
    ASSUME TypeInv, NEW m, TopicOf(m) \in Task, NEW labels, NEW t \in Task,
           UNCHANGED <<topics, queue>>, NEW label, Goto(t, label),
           \/ label \notin labels
           \/ item' = item /\ pc[t] \in labels
           \/ item' = item /\ item[t] # m
           \/ t # TopicOf(m),
           item' = item \/ item' = [item EXCEPT ![t] = None]
    PROVE  /\ InHand(m, labels)' <= InHand(m, labels)
           /\ Supply(m, labels)' <= Supply(m, labels)
<1> DEFINE d == TopicOf(m)
<1>s. pc \in [Task -> Labels] /\ item \in [Task -> Messages \cup {None}]
  BY DEF TypeInv, TypeOK
<1>1. Copies(m)' = Copies(m) /\ Copies(m) \in Nat /\ InHand(m, labels) \in {0, 1}
  BY SameCopies, SupplyType
<1>2. InHand(m, labels)' \in {0, 1} /\ InHand(m, labels)' <= InHand(m, labels)
  <2>1. CASE t # d
    <3>1. pc'[d] = pc[d] /\ item'[d] = item[d]
      BY <1>s, <2>1 DEF Goto
    <3>2. QED  BY <1>1, <3>1, SameHand
  <2>2. CASE t = d
    <3>1. pc'[d] = label
      BY <1>s, <2>2 DEF Goto
    <3>2. QED  BY <2>2, <3>1 DEF InHand, One
  <2>3. QED  BY <2>1, <2>2
<1>3. QED  BY <1>1, <1>2 DEF Supply

LEMMA SpentSupply ==
    ASSUME TypeInv, NEW m, TopicOf(m) \in Task, NEW labels,
           UNCHANGED <<topics, queue>>, NEW label, Goto(TopicOf(m), label),
           item[TopicOf(m)] = m, pc[TopicOf(m)] \in labels, label \notin labels
    PROVE  Supply(m, labels)' = Supply(m, labels) - 1
<1>1. Copies(m)' = Copies(m) /\ Copies(m) \in Nat
  BY SameCopies, SupplyType
<1>2. pc'[TopicOf(m)] = label
  BY DEF TypeInv, TypeOK, Goto
<1>3. InHand(m, labels) = 1 /\ InHand(m, labels)' = 0
  BY <1>2 DEF InHand, One
<1>4. QED  BY <1>1, <1>3 DEF Supply

-----------------------------------------------------------------------------
(* The documents a delivery makes. *)

(* The message a document is made of, and where its task stands before the *)
(* document is inserted.                                                   *)
Message(c, s) == [type |-> IF c = "trace" THEN "elec" ELSE c, sweeps_id |-> s]
Before(c) ==
    {c} \cup IF c = "trace" THEN {"count", "laser"}
             ELSE IF c = "elec" THEN {"count", "laser", "trace"} ELSE {}

(* The documents there are and those that can still be made of the copies  *)
(* of their message.                                                       *)
Owed(c, s) == docs[c][s] + Supply(Message(c, s), Before(c))

LEMMA MessageOfDocument ==
    ASSUME NEW c \in Collections, NEW s \in Sweeps
    PROVE  /\ TopicOf(Message(c, s)) \in Task /\ "get" \notin Before(c)
           /\ c \in {"trace", "elec"} => TopicOf(Message(c, s)) = "Raw"
           /\ c \in {"trace", "elec"} <=> Message(c, s).type = "elec"
           /\ Message(c, s).type # "raw" /\ Message(c, s).sweeps_id = s
<1> DEFINE m == Message(c, s)
<1>1. c \in {"trace", "elec"} => m.type = "elec" /\ TopicOf(m) = "Raw"
  BY DEF Message, TopicOf
<1>2. c = "correlation" => m.type = "correlation" /\ TopicOf(m) = "Correlation"
  BY DEF Message, TopicOf
<1>3. c = "conversion" => m.type = "conversion" /\ TopicOf(m) = "Conversion"
  BY DEF Message, TopicOf
<1>4. m.sweeps_id = s /\ "get" \notin Before(c)
  BY DEF Message, Before, Collections
<1>5. QED  BY <1>1, <1>2, <1>3, <1>4 DEF Collections, Task

SupplyNat == \A m, labels : TopicOf(m) \in Task => Supply(m, labels) \in Nat

LEMMA SupplyIsNat == TypeInv => SupplyNat
BY SupplyType DEF SupplyNat

LEMMA OwedType ==
    ASSUME TypeInv, NEW c \in Collections, NEW s \in Sweeps
    PROVE  docs[c][s] \in Nat /\ Supply(Message(c, s), Before(c)) \in Nat
           /\ Owed(c, s) \in Nat
<1>1. docs[c][s] \in Nat
  BY DEF TypeInv, TypeOK
<1>2. Supply(Message(c, s), Before(c)) \in Nat
  BY MessageOfDocument, SupplyType
<1>3. QED  BY <1>1, <1>2 DEF Owed

(* An insert uses up the copy it makes a document of.                      *)
LEMMA OwedInsert ==
    ASSUME TypeInv, TypeInv', NEW t \in Task, Inserting(t), AfterInsert(t),
           Inserted(t) \/ UNCHANGED mongoVars, UNCHANGED <<topics, queue>>,
           NEW c \in Collections, NEW s \in Sweeps
    PROVE  Owed(c, s)' <= Owed(c, s)
<1> DEFINE m == Message(c, s)
           next == CASE pc[t] = "laser" -> "trace"
                     [] pc[t] = "trace" -> "elec"
                     [] OTHER -> "get"
<1>t. /\ docs[c][s] \in Nat /\ Supply(m, Before(c)) \in Nat /\ TopicOf(m) \in Task
      /\ "get" \notin Before(c)
  BY OwedType, MessageOfDocument
<1>n. Supply(m, Before(c))' \in Nat
  <2>1. SupplyNat'
    BY SupplyIsNat, PTL
  <2>2. QED  BY <1>t, <2>1 DEF SupplyNat
<1>1. Goto(t, next) /\ (pc[t] \in {"laser", "trace"} => item' = item)
      /\ (item' = item \/ item' = [item EXCEPT ![t] = None])
  BY DEF AfterInsert, Done, Goto, Collections
<1>2. \/ docs'[c][s] = docs[c][s]
      \/ /\ docs'[c][s] = docs[c][s] + 1
         /\ c = pc[t] /\ s = Sweep(t)
  <2>1. CASE Inserted(t) /\ pc[t] # "laser"
    BY <1>t, <2>1, InsertedAdds
  <2>2. CASE Inserted(t) /\ pc[t] = "laser"
    BY <2>2 DEF Inserted
  <2>3. CASE UNCHANGED mongoVars
    BY <2>3 DEF mongoVars
  <2>4. QED  BY <2>1, <2>2, <2>3
<1>3. CASE docs'[c][s] = docs[c][s]
  <2>1. next \in Before(c) => pc[t] \in Before(c) /\ item' = item
    BY <1>t, <1>1 DEF Before, Collections
  <2>2. Supply(m, Before(c))' <= Supply(m, Before(c))
    BY <1>t, <1>1, <2>1, TaskSupply
  <2>3. QED  BY <1>t, <1>n, <1>3, <2>2 DEF Owed
<1>4. CASE docs'[c][s] = docs[c][s] + 1 /\ c = pc[t] /\ s = Sweep(t)
  <2>1. item[t] = m /\ TopicOf(m) = t
    <3>1. item[t] \in Messages /\ TopicOf(item[t]) = t
      BY <1>4 DEF TypeInv, TasksInv, Busy, Collections
    <3>2. item[t].type = m.type
      BY <1>4, TaskOfLabel DEF Collections, Message
    <3>3. item[t] = m
      BY <1>4, <3>1, <3>2, MessageTopic DEF Message, Sweep
    <3>4. QED  BY <3>1, <3>3
  <2>2. pc[t] \in Before(c) /\ next \notin Before(c)
    BY <1>4 DEF Before, Collections
  <2>3. Supply(m, Before(c))' = Supply(m, Before(c)) - 1
    BY <1>t, <1>1, <2>1, <2>2, SpentSupply
  <2>4. QED  BY <1>t, <1>4, <2>3 DEF Owed
<1>5. QED  BY <1>2, <1>3, <1>4

(* Only a redelivery or a restart adds to what is owed, and only one.      *)
LEMMA OwedStep ==
    ASSUME TypeInv, TypeInv', [Next]_vars, NEW c \in Collections, NEW s \in Sweeps
    PROVE  \/ Owed(c, s)' <= Owed(c, s) /\ UNCHANGED boundVars
           \/ /\ Owed(c, s)' <= Owed(c, s) + 1
              /\ redeliveries' + crashes' = redeliveries + crashes + 1
<1> DEFINE m == Message(c, s)
           Less == Owed(c, s)' <= Owed(c, s) /\ UNCHANGED boundVars
<1> USE DEF kafkaVars, mongoVars, boundVars
<1>t. /\ docs[c][s] \in Nat /\ Supply(m, Before(c)) \in Nat /\ TopicOf(m) \in Task
      /\ "get" \notin Before(c)
  BY OwedType, MessageOfDocument
<1>n. Supply(m, Before(c))' \in Nat
  <2>1. SupplyNat'
    BY SupplyIsNat, PTL
  <2>2. QED  BY <1>t, <2>1 DEF SupplyNat
<1>d. ASSUME docs' = docs, Supply(m, Before(c))' <= Supply(m, Before(c)),
             UNCHANGED boundVars
      PROVE  Less
  BY <1>d, <1>t, <1>n DEF Owed
<1>1. CASE \/ \E x \in Messages : Consume(x) \/ DropMessage(x)
           \/ \E t \in Task : Get(t) \/ CommitOffsets(t) \/ ConsumerEnds(t)
  <2>1. Supply(m, Before(c))' <= Supply(m, Before(c))
    BY <1>1, <1>t, KafkaSupply
  <2>2. docs' = docs /\ UNCHANGED boundVars
    BY <1>1 DEF Consume, DropMessage, Get, CommitOffsets, ConsumerEnds
  <2>3. QED  BY <1>d, <2>1, <2>2
<1>2. CASE Redeliver \/ Crash
  <2>1. /\ Supply(m, Before(c))' <= Supply(m, Before(c)) + 1
        /\ redeliveries' + crashes' = redeliveries + crashes + 1
    BY <1>2, <1>t, RestartSupply
  <2>2. docs' = docs
    BY <1>2 DEF Redeliver, Crash
  <2>3. QED  BY <1>t, <1>n, <2>1, <2>2 DEF Owed
<1>3. ASSUME NEW t \in Task,
             \/ InsertDocument(t) \/ InsertSwallowed(t) \/ InsertUnacknowledged(t)
      PROVE  Less
  <2>1. /\ Inserting(t) /\ AfterInsert(t) /\ (Inserted(t) \/ UNCHANGED mongoVars)
        /\ UNCHANGED <<topics, queue>> /\ UNCHANGED boundVars
    BY <1>3 DEF InsertDocument, InsertSwallowed, InsertUnacknowledged
  <2>2. Owed(c, s)' <= Owed(c, s)
    BY <1>3, <2>1, OwedInsert
       DEF InsertDocument, InsertSwallowed, InsertUnacknowledged
  <2>3. QED  BY <2>1, <2>2
<1>4. ASSUME NEW t \in Task, Done(t), UNCHANGED <<topics, queue, docs, boundVars>>
      PROVE  Less
  <2>1. Supply(m, Before(c))' <= Supply(m, Before(c))
    BY <1>4, <1>t, TaskSupply DEF Done
  <2>2. QED  BY <1>4, <1>d, <2>1
<1>5. CASE CountDocuments
  <2>1. PICK label : Goto("Raw", label) /\ label \in {"laser", "trace"}
    BY <1>5 DEF CountDocuments
  <2>2. UNCHANGED <<topics, queue, item, docs, boundVars>> /\ pc["Raw"] = "count"
    BY <1>5 DEF CountDocuments
  <2>3. label \in Before(c) => pc["Raw"] \in Before(c)
    BY <2>1, <2>2 DEF Before, Collections
  <2>4. "Raw" \in Task
    BY DEF Task
  <2>5. Supply(m, Before(c))' <= Supply(m, Before(c))
    BY <1>t, <2>1, <2>2, <2>3, <2>4, TaskSupply
  <2>6. QED  BY <1>d, <2>2, <2>5
<1>6. CASE OpenFile
  <2>1. Goto("Raw", "write") /\ UNCHANGED <<topics, queue, item, docs, boundVars>>
    BY <1>6 DEF OpenFile
  <2>2. "write" \notin Before(c) /\ "Raw" \in Task
    BY DEF Before, Collections, Task
  <2>3. Supply(m, Before(c))' <= Supply(m, Before(c))
    BY <1>t, <2>1, <2>2, TaskSupply
  <2>4. QED  BY <1>d, <2>1, <2>3
<1>7. CASE RawTask
  BY <1>4, <1>5, <1>6, <1>7
     DEF RawTask, CountFails, WriteFile, WriteFails, GiveUp, Task
<1>8. CASE (\E r \in Sweeps : Upload(r)) \/ UNCHANGED vars
  <2>1. UNCHANGED <<topics, queue, pc, item, docs, boundVars>>
    BY <1>8 DEF Upload, UploadRead, UploadPost, UploadFails, vars
  <2>2. Supply(m, Before(c))' = Supply(m, Before(c))
    BY <2>1, SameCopies, SameHand DEF Supply
  <2>3. QED  BY <1>d, <1>t, <2>1, <2>2
<1>9. CASE \E t \in Task : InsertRaises(t)
  BY <1>4, <1>9 DEF InsertRaises, GiveUp
<1>10. QED
  BY <1>1, <1>2, <1>3, <1>7, <1>8, <1>9 DEF Next, WriterTask, Environment

DeliveryInv ==
    \A c \in Collections, s \in Sweeps : Owed(c, s) <= 1 + redeliveries + crashes

LEMMA DeliveryInit == Init => DeliveryInv
<1> SUFFICES ASSUME Init, NEW c \in Collections, NEW s \in Sweeps
             PROVE  Owed(c, s) <= 1 + redeliveries + crashes
  BY DEF DeliveryInv
<1> DEFINE m == Message(c, s)
<1>1. TopicOf(m) \in Task /\ "get" \notin Before(c)
  BY MessageOfDocument
<1>2. Count(queue[TopicOf(m)], m) = 0
  BY <1>1, CountEmpty DEF Init
<1>3. InHand(m, Before(c)) = 0
  BY <1>1 DEF Init, InHand, One
<1>4. One(m \in topics) \in {0, 1}
  BY DEF One
<1>5. Supply(m, Before(c)) \in {0, 1}
  BY <1>2, <1>3, <1>4 DEF Supply, Copies
<1>6. docs[c][s] = 0 /\ redeliveries = 0 /\ crashes = 0
  BY DEF Init
<1>7. QED  BY <1>5, <1>6 DEF Owed

LEMMA DeliveryStep == TypeInv /\ DeliveryInv /\ [Next]_vars => DeliveryInv'
<1> SUFFICES ASSUME TypeInv, DeliveryInv, [Next]_vars,
                    NEW c \in Collections, NEW s \in Sweeps
             PROVE  (Owed(c, s) <= 1 + redeliveries + crashes)'
  BY DEF DeliveryInv
<1>1. redeliveries \in Nat /\ crashes \in Nat
  BY BoundsAssumption DEF TypeInv, TypeOK
<1>2. PICK n \in Nat : n = redeliveries + crashes
  BY <1>1
<1>3. Owed(c, s) \in Nat /\ Owed(c, s) <= 1 + n
  BY <1>1, <1>2, OwedType DEF DeliveryInv
<1>p. TypeInv'
  BY TypeStep
<1>4. redeliveries' \in Nat /\ crashes' \in Nat
  BY <1>p, BoundsAssumption DEF TypeInv, TypeOK
<1>5. Owed(c, s)' \in Nat
  <2>1. docs'[c][s] \in Nat
    BY <1>p DEF TypeInv, TypeOK
  <2>2. SupplyNat'
    BY <1>p, SupplyIsNat, PTL
  <2>3. Supply(Message(c, s), Before(c))' \in Nat
    BY <2>2, MessageOfDocument DEF SupplyNat
  <2>4. QED  BY <2>1, <2>3 DEF Owed
<1>6. CASE Owed(c, s)' <= Owed(c, s) /\ UNCHANGED boundVars
  BY <1>1, <1>2, <1>3, <1>5, <1>6 DEF boundVars
<1>7. CASE /\ Owed(c, s)' <= Owed(c, s) + 1
           /\ redeliveries' + crashes' = redeliveries + crashes + 1
  BY <1>2, <1>3, <1>4, <1>5, <1>7
<1>8. QED  BY <1>p, <1>6, <1>7, OwedStep

(* A sweep has one document in a collection, and one more for each message *)
(* Kafka delivers again and each restart: no failure makes a document      *)
(* twice (insert_document is not tried again).                             *)
THEOREM OneDocumentPerDelivery == Spec => []DocumentPerDelivery
<1>1. TypeInv /\ DeliveryInv => DocumentPerDelivery
  <2> SUFFICES ASSUME TypeInv, DeliveryInv, NEW c \in Collections, NEW s \in Sweeps
               PROVE  docs[c][s] <= 1 + redeliveries + crashes
    BY DEF DocumentPerDelivery
  <2>1. redeliveries \in Nat /\ crashes \in Nat
    BY BoundsAssumption DEF TypeInv, TypeOK
  <2>2. docs[c][s] \in Nat /\ Supply(Message(c, s), Before(c)) \in Nat
    BY OwedType
  <2>3. docs[c][s] + Supply(Message(c, s), Before(c)) <= 1 + redeliveries + crashes
    BY DEF DeliveryInv, Owed
  <2>4. QED  BY <2>1, <2>2, <2>3
<1>2. QED  BY <1>1, WriterTypeCorrect, DeliveryInit, DeliveryStep, PTL DEF Spec

-----------------------------------------------------------------------------
(* The files that are uploaded. *)

RawWork == {"create", "write"}

(* What there is of the raw array of a sweep: copies of the message, the   *)
(* one whose file is being written, and uploads of a whole file.           *)
Files(s) == Supply(RawOf(s), RawWork) + uploads[s]["new"] + uploads[s]["whole"]

(* With one delivery there is only one of these, so that no file is written*)
(* again while its upload has yet to read it.                              *)
OneFile(s) ==
    /\ Files(s) <= 1
    /\ uploads[s]["torn"] = 0
    /\ uploads[s]["new"] > 0 => file[s] = "whole"
    /\ s3[s] # "torn"
UploadInv == redeliveries = 0 => \A s \in Sweeps : OneFile(s)

LEMMA RawMessage ==
    ASSUME NEW s \in Sweeps
    PROVE  /\ TopicOf(RawOf(s)) = "Raw" /\ TopicOf(RawOf(s)) \in Task
           /\ "get" \notin RawWork /\ "Raw" \in Task
BY DEF RawOf, TopicOf, Task, RawWork

LEMMA FilesType ==
    ASSUME TypeInv, NEW s \in Sweeps
    PROVE  /\ Supply(RawOf(s), RawWork) \in Nat /\ InHand(RawOf(s), RawWork) \in {0, 1}
           /\ InHand(RawOf(s), RawWork) <= Supply(RawOf(s), RawWork)
           /\ uploads[s]["new"] \in Nat /\ uploads[s]["whole"] \in Nat
           /\ uploads[s]["torn"] \in Nat /\ uploads[s] \in [UploadStates -> Nat]
           /\ file[s] \in {"none", "torn", "whole"} /\ redeliveries \in Nat
<1>1. /\ Copies(RawOf(s)) \in Nat /\ InHand(RawOf(s), RawWork) \in {0, 1}
      /\ Supply(RawOf(s), RawWork) \in Nat
  BY RawMessage, SupplyType
<1>2. InHand(RawOf(s), RawWork) <= Supply(RawOf(s), RawWork)
  BY <1>1 DEF Supply
<1>3. uploads[s] \in [UploadStates -> Nat] /\ file[s] \in {"none", "torn", "whole"}
  BY DEF TypeInv, TypeOK
<1>4. redeliveries \in Nat
  BY BoundsAssumption DEF TypeInv, TypeOK
<1>5. QED  BY <1>1, <1>2, <1>3, <1>4 DEF UploadStates

(* The raw array in hand is the one whose file is written.                 *)
LEMMA RawTaskHolds ==
    ASSUME TypeInv, pc["Raw"] \in RawWork
    PROVE  Sweep("Raw") \in Sweeps /\ item["Raw"] = RawOf(Sweep("Raw"))
<1>1. "Raw" \in Task
  BY DEF Task
<1>2. item["Raw"].type = "raw" /\ item["Raw"] \in Messages /\ Sweep("Raw") \in Sweeps
  BY <1>1, TaskOfLabel DEF RawWork
<1>3. QED  BY <1>2, MessageTopic DEF RawOf, Sweep

(* A step that leaves the files, the uploads and the objects alone.        *)
LEMMA SameFiles ==
    ASSUME TypeInv, NEW s \in Sweeps, OneFile(s), UNCHANGED uploadVars,
           Supply(RawOf(s), RawWork)' \in Nat,
           Supply(RawOf(s), RawWork)' <= Supply(RawOf(s), RawWork)
    PROVE  OneFile(s)'
<1>1. UNCHANGED <<file, uploads, s3>>
  BY DEF uploadVars
<1>2. Files(s)' = Supply(RawOf(s), RawWork)' + uploads[s]["new"] + uploads[s]["whole"]
  BY <1>1 DEF Files
<1>3. Files(s)' <= 1
  BY <1>2, FilesType DEF OneFile, Files
<1>4. QED  BY <1>1, <1>3 DEF OneFile

(* The file is opened, written, and read by its upload.                    *)
LEMMA OpenFileStep ==
    ASSUME TypeInv, NEW s \in Sweeps, OneFile(s), OpenFile,
           Supply(RawOf(s), RawWork)' \in Nat
    PROVE  OneFile(s)'
<1>t. /\ Supply(RawOf(s), RawWork) \in Nat /\ uploads[s]["new"] \in Nat
      /\ uploads[s]["whole"] \in Nat
      /\ InHand(RawOf(s), RawWork) <= Supply(RawOf(s), RawWork)
  BY FilesType
<1>1. /\ pc["Raw"] = "create" /\ Goto("Raw", "write")
      /\ UNCHANGED <<topics, queue, item, uploads, s3>>
      /\ file' = [file EXCEPT ![Sweep("Raw")] = "torn"]
  BY DEF OpenFile, kafkaVars
<1>2. pc["Raw"] \in RawWork
  BY <1>1 DEF RawWork
<1>3. Supply(RawOf(s), RawWork)' <= Supply(RawOf(s), RawWork)
  BY <1>1, <1>2, RawMessage, TaskSupply
<1>4. Files(s)' <= 1
  <2>1. Files(s)' = Supply(RawOf(s), RawWork)' + uploads[s]["new"] + uploads[s]["whole"]
    BY <1>1 DEF Files
  <2>2. QED  BY <1>t, <1>3, <2>1 DEF OneFile, Files
<1>5. CASE Sweep("Raw") = s
  <2>1. InHand(RawOf(s), RawWork) = 1
    BY <1>2, <1>5, RawTaskHolds, RawMessage DEF InHand, One
  <2>2. uploads[s]["new"] = 0
    BY <1>t, <2>1 DEF OneFile, Files
  <2>3. QED  BY <1>1, <1>4, <2>2 DEF OneFile
<1>6. CASE Sweep("Raw") # s
  <2>1. file'[s] = file[s]
    BY <1>1, <1>6 DEF TypeInv, TypeOK
  <2>2. QED  BY <1>1, <1>4, <2>1 DEF OneFile
<1>7. QED  BY <1>5, <1>6

LEMMA WriteFileStep ==
    ASSUME TypeInv, NEW s \in Sweeps, OneFile(s), WriteFile,
           Supply(RawOf(s), RawWork)' \in Nat
    PROVE  OneFile(s)'
<1>t. /\ Supply(RawOf(s), RawWork) \in Nat /\ uploads[s]["new"] \in Nat
      /\ uploads[s]["whole"] \in Nat /\ uploads[s] \in [UploadStates -> Nat]
      /\ uploads \in [Sweeps -> [UploadStates -> Nat]]
      /\ file \in [Sweeps -> {"none", "torn", "whole"}]
  BY FilesType DEF TypeInv, TypeOK
<1>1. /\ pc["Raw"] = "write" /\ Goto("Raw", "get")
      /\ item' = [item EXCEPT !["Raw"] = None]
      /\ UNCHANGED <<topics, queue, s3>>
      /\ file' = [file EXCEPT ![Sweep("Raw")] = "whole"]
      /\ NewUpload(Sweep("Raw"))
  BY DEF WriteFile, Done, kafkaVars
<1>2. pc["Raw"] \in RawWork
  BY <1>1 DEF RawWork
<1>3. PICK r \in Sweeps : r = Sweep("Raw") /\ item["Raw"] = RawOf(r)
  BY <1>2, RawTaskHolds
<1>4. uploads' = [uploads EXCEPT ![r]["new"] = uploads[r]["new"] + 1]
  BY <1>1, <1>3 DEF NewUpload
<1>5. CASE r = s
  <2>1. Supply(RawOf(s), RawWork)' = Supply(RawOf(s), RawWork) - 1
    BY <1>1, <1>2, <1>3, <1>5, RawMessage, SpentSupply
  <2>2. /\ uploads'[s]["new"] = uploads[s]["new"] + 1
        /\ uploads'[s]["whole"] = uploads[s]["whole"]
        /\ uploads'[s]["torn"] = uploads[s]["torn"]
    BY <1>t, <1>4, <1>5 DEF UploadStates
  <2>3. Files(s)' <= 1
    <3>1. Files(s)' = Supply(RawOf(s), RawWork)' + uploads'[s]["new"]
                        + uploads'[s]["whole"]
      BY DEF Files
    <3>2. QED  BY <1>t, <2>1, <2>2, <3>1 DEF OneFile, Files
  <2>4. file'[s] = "whole"
    BY <1>t, <1>1, <1>3, <1>5
  <2>5. QED  BY <1>1, <2>2, <2>3, <2>4 DEF OneFile
<1>6. CASE r # s
  <2>1. Supply(RawOf(s), RawWork)' <= Supply(RawOf(s), RawWork)
    BY <1>1, RawMessage, TaskSupply
  <2>2. uploads'[s] = uploads[s] /\ file'[s] = file[s]
    BY <1>t, <1>1, <1>3, <1>4, <1>6
  <2>3. Files(s)' <= 1
    <3>1. Files(s)' = Supply(RawOf(s), RawWork)' + uploads[s]["new"]
                        + uploads[s]["whole"]
      BY <2>2 DEF Files
    <3>2. QED  BY <1>t, <2>1, <3>1 DEF OneFile, Files
  <2>4. QED  BY <1>1, <2>2, <2>3 DEF OneFile
<1>7. QED  BY <1>5, <1>6

LEMMA UploadStep ==
    ASSUME TypeInv, NEW s \in Sweeps, OneFile(s), NEW r \in Sweeps, Upload(r)
    PROVE  OneFile(s)'
<1>t. /\ Supply(RawOf(s), RawWork) \in Nat /\ uploads[s]["new"] \in Nat
      /\ uploads[s]["whole"] \in Nat /\ uploads[s]["torn"] \in Nat
      /\ uploads[s] \in [UploadStates -> Nat]
      /\ uploads \in [Sweeps -> [UploadStates -> Nat]]
      /\ s3 \in [Sweeps -> {"none", "torn", "whole"}]
  BY FilesType DEF TypeInv, TypeOK
<1>1. UNCHANGED <<topics, queue, pc, item, file>>
  BY DEF Upload, UploadRead, UploadPost, UploadFails, kafkaVars
<1>2. Supply(RawOf(s), RawWork)' = Supply(RawOf(s), RawWork)
  BY <1>1, SameCopies, SameHand DEF Supply
<1>3. Files(s)' = Supply(RawOf(s), RawWork) + uploads'[s]["new"] + uploads'[s]["whole"]
  BY <1>2 DEF Files
<1>4. CASE r # s
  <2>1. uploads'[s] = uploads[s] /\ s3'[s] = s3[s]
    BY <1>t, <1>4 DEF Upload, UploadRead, UploadPost, UploadFails
  <2>2. QED  BY <1>1, <1>3, <2>1 DEF OneFile, Files
<1>5. CASE r = s /\ UploadRead(s)
  <2>1. uploads[s]["new"] > 0 /\ file[s] = "whole"
    BY <1>5 DEF UploadRead, OneFile
  <2>2. uploads' = [uploads EXCEPT ![s]["new"] = uploads[s]["new"] - 1,
                                   ![s]["whole"] = uploads[s]["whole"] + 1]
    BY <1>5, <2>1 DEF UploadRead
  <2>3. /\ uploads'[s]["new"] = uploads[s]["new"] - 1
        /\ uploads'[s]["whole"] = uploads[s]["whole"] + 1
        /\ uploads'[s]["torn"] = uploads[s]["torn"]
    BY <1>t, <2>2 DEF UploadStates
  <2>4. Files(s)' <= 1
    BY <1>t, <1>3, <2>3 DEF OneFile, Files
  <2>5. s3' = s3
    BY <1>5 DEF UploadRead
  <2>6. QED  BY <1>1, <2>1, <2>3, <2>4, <2>5 DEF OneFile
<1>6. CASE r = s /\ (UploadPost(s) \/ UploadFails(s))
  <2>1. PICK u \in UploadStates :
          /\ uploads[s][u] > 0
          /\ uploads' = [uploads EXCEPT ![s][u] = uploads[s][u] - 1]
          /\ \/ s3' = s3
             \/ s3' = [s3 EXCEPT ![s] = u] /\ u \in {"torn", "whole"}
    BY <1>6 DEF UploadPost, UploadFails, UploadStates
  <2>2. u \in {"new", "whole"}
    BY <1>t, <2>1 DEF OneFile, UploadStates
  <2>3. s3'[s] # "torn"
    BY <1>t, <2>1, <2>2 DEF OneFile
  <2>4. /\ uploads'[s]["torn"] = uploads[s]["torn"]
        /\ uploads'[s]["new"] = uploads[s]["new"] - One(u = "new")
        /\ uploads'[s]["whole"] = uploads[s]["whole"] - One(u = "whole")
    BY <1>t, <2>1, <2>2 DEF UploadStates, One
  <2>5. One(u = "new") \in {0, 1} /\ One(u = "whole") \in {0, 1}
    BY DEF One
  <2>6. Files(s)' <= 1
    BY <1>t, <1>3, <2>4, <2>5 DEF OneFile, Files
  <2>7. uploads'[s]["new"] > 0 => uploads[s]["new"] > 0
    BY <1>t, <2>4, <2>5
  <2>8. QED  BY <1>1, <2>3, <2>4, <2>6, <2>7 DEF OneFile
<1>7. QED  BY <1>4, <1>5, <1>6 DEF Upload

LEMMA UploadInvStep == TypeInv /\ UploadInv /\ [Next]_vars => UploadInv'
<1> SUFFICES ASSUME TypeInv, UploadInv, [Next]_vars, redeliveries' = 0,
                    NEW s \in Sweeps
             PROVE  OneFile(s)'
  BY DEF UploadInv
<1> USE DEF kafkaVars, mongoVars, boundVars
<1>t. redeliveries \in Nat
  BY BoundsAssumption DEF TypeInv, TypeOK
<1>n. Supply(RawOf(s), RawWork)' \in Nat
  <2>1. SupplyNat'
    BY TypeStep, SupplyIsNat, PTL
  <2>2. QED  BY <2>1, RawMessage DEF SupplyNat
<1>k. ASSUME redeliveries = 0, UNCHANGED uploadVars,
             Supply(RawOf(s), RawWork)' <= Supply(RawOf(s), RawWork)
      PROVE  OneFile(s)'
  BY <1>k, <1>n, SameFiles DEF UploadInv
<1>g. ASSUME redeliveries = 0, UNCHANGED <<topics, queue, uploadVars>>, NEW t \in Task,
             NEW label, Goto(t, label), label \notin RawWork,
             item' = item \/ item' = [item EXCEPT ![t] = None]
      PROVE  OneFile(s)'
  <2>1. Supply(RawOf(s), RawWork)' <= Supply(RawOf(s), RawWork)
    BY <1>g, RawMessage, TaskSupply
  <2>2. QED  BY <1>g, <1>k, <2>1
<1>1. CASE \/ \E x \in Messages : Consume(x) \/ DropMessage(x)
           \/ \E t \in Task : Get(t) \/ CommitOffsets(t) \/ ConsumerEnds(t)
  <2>1. Supply(RawOf(s), RawWork)' <= Supply(RawOf(s), RawWork)
    BY <1>1, RawMessage, KafkaSupply
  <2>2. UNCHANGED uploadVars /\ redeliveries' = redeliveries
    BY <1>1 DEF Consume, DropMessage, Get, CommitOffsets, ConsumerEnds
  <2>3. QED  BY <1>k, <2>1, <2>2
<1>2. CASE Redeliver
  BY <1>2, <1>t DEF Redeliver
<1>3. CASE Crash
  <2>1. /\ UNCHANGED <<file, s3, redeliveries>>
        /\ uploads' = [r \in Sweeps |-> [u \in UploadStates |-> 0]]
    BY <1>3 DEF Crash
  <2>2. uploads'[s]["new"] = 0 /\ uploads'[s]["whole"] = 0 /\ uploads'[s]["torn"] = 0
    BY <2>1 DEF UploadStates
  <2>3. Supply(RawOf(s), RawWork)' <= 1
    BY <1>3, RawMessage, RestartSupply
  <2>4. Files(s)' <= 1
    BY <1>n, <2>2, <2>3 DEF Files
  <2>5. s3[s] # "torn"
    BY <2>1 DEF UploadInv, OneFile
  <2>6. QED  BY <2>1, <2>2, <2>4, <2>5 DEF OneFile
<1>4. ASSUME NEW t \in Task,
             \/ InsertDocument(t) \/ InsertSwallowed(t) \/ InsertUnacknowledged(t)
      PROVE  OneFile(s)'
  <2>1. /\ AfterInsert(t) /\ UNCHANGED <<topics, queue, uploadVars>>
        /\ redeliveries' = redeliveries
    BY <1>4 DEF InsertDocument, InsertSwallowed, InsertUnacknowledged
  <2>2. \E label \in {"trace", "elec", "get"} :
          Goto(t, label) /\ (item' = item \/ item' = [item EXCEPT ![t] = None])
    BY <2>1 DEF AfterInsert, Done
  <2>3. QED  BY <1>g, <2>1, <2>2 DEF RawWork
<1>5. ASSUME NEW t \in Task, GiveUp(t), UNCHANGED uploadVars
      PROVE  OneFile(s)'
  <2>1. /\ Goto(t, "get") /\ item' = [item EXCEPT ![t] = None]
        /\ UNCHANGED <<topics, queue, redeliveries>>
    BY <1>5 DEF GiveUp, Done
  <2>2. QED  BY <1>5, <1>g, <2>1, RawMessage
<1>6. CASE CountDocuments
  <2>1. \E label \in {"laser", "trace"} : Goto("Raw", label)
    BY <1>6 DEF CountDocuments
  <2>2. UNCHANGED <<topics, queue, item, uploadVars, redeliveries>>
    BY <1>6 DEF CountDocuments
  <2>3. QED  BY <1>g, <2>1, <2>2, RawMessage DEF RawWork
<1>7. CASE OpenFile
  <2>1. redeliveries' = redeliveries
    BY <1>7 DEF OpenFile
  <2>2. QED  BY <1>7, <1>n, <2>1, OpenFileStep DEF UploadInv
<1>8. CASE WriteFile
  <2>1. redeliveries' = redeliveries
    BY <1>8 DEF WriteFile
  <2>2. QED  BY <1>8, <1>n, <2>1, WriteFileStep DEF UploadInv
<1>9. CASE \E r \in Sweeps : Upload(r)
  <2>1. redeliveries' = redeliveries
    BY <1>9 DEF Upload, UploadRead, UploadPost, UploadFails
  <2>2. QED  BY <1>9, <2>1, UploadStep DEF UploadInv
<1>10. CASE UNCHANGED vars
  <2>1. UNCHANGED <<topics, queue, pc, item, uploadVars, redeliveries>>
    BY <1>10 DEF vars
  <2>2. Supply(RawOf(s), RawWork)' = Supply(RawOf(s), RawWork)
    BY <2>1, SameCopies, SameHand DEF Supply
  <2>3. QED  BY <1>k, <2>1, <2>2, FilesType
<1>11. CASE RawTask
  BY <1>5, <1>6, <1>7, <1>8, <1>11, RawMessage DEF RawTask, CountFails, WriteFails
<1>12. CASE \E t \in Task : InsertRaises(t)
  BY <1>5, <1>12 DEF InsertRaises
<1>13. QED
  BY <1>1, <1>2, <1>3, <1>4, <1>9, <1>10, <1>11, <1>12
     DEF Next, WriterTask, Environment

LEMMA UploadInvInit == Init => UploadInv
<1> SUFFICES ASSUME Init, NEW s \in Sweeps
             PROVE  OneFile(s)
  BY DEF UploadInv
<1>1. Count(queue[TopicOf(RawOf(s))], RawOf(s)) = 0
  BY RawMessage, CountEmpty DEF Init
<1>2. InHand(RawOf(s), RawWork) = 0
  BY RawMessage DEF Init, InHand, One
<1>3. One(RawOf(s) \in topics) \in {0, 1}
  BY DEF One
<1>4. Supply(RawOf(s), RawWork) \in {0, 1}
  BY <1>1, <1>2, <1>3 DEF Supply, Copies
<1>5. /\ uploads[s]["new"] = 0 /\ uploads[s]["whole"] = 0 /\ uploads[s]["torn"] = 0
      /\ s3[s] = "none"
  BY DEF Init, UploadStates
<1>6. QED  BY <1>4, <1>5 DEF OneFile, Files

(* While Kafka delivers no message again by itself, every object is whole: *)
(* a restart between the opening and the writing of a file ends its upload *)
(* too, and a file is not opened again before its upload has read it.      *)
THEOREM WholeUploads == Spec => []UploadedWhole
<1>1. UploadInv => UploadedWhole
  BY DEF UploadInv, OneFile, UploadedWhole
<1>2. QED  BY <1>1, WriterTypeCorrect, UploadInvInit, UploadInvStep, PTL DEF Spec

=============================================================================
