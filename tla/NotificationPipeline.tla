------------------------ MODULE NotificationPipeline ------------------------
(***************************************************************************)
(* How an event becomes a notification: the use cases of the other         *)
(* components publish it to a Kafka topic, and one worker of the process   *)
(* reads the topic and inserts a row.  Kafka is external: a write may be   *)
(* lost, or made twice by a retry of the writer; ReadMessage of a consumer *)
(* group fetches a record and commits its offset before it returns it.     *)
(***************************************************************************)
EXTENDS Naturals, Sequences

CONSTANTS
    Event,      \* what may be published
    Partition,  \* partitions of the topic
    MaxTopic    \* bound on the records of a partition, for checking

ASSUME TopicAssumption == MaxTopic \in Nat

VARIABLES
    topic,         \* the records of each partition
    committed,     \* the consumer group's offset in each partition
    position,      \* how far the running worker has read each partition
    worker,        \* the state of the worker
    notifications  \* the rows inserted; from where is history

pipelineVars == <<topic, committed, position, worker, notifications>>

Record == [event : Event, partition : Partition, offset : Nat]

Worker ==
    [at : {"down", "reading"}]
      \cup [at : {"committing", "persisting"}, record : Record]

PipelineTypeOK ==
    /\ topic \in [Partition -> Seq(Event)]
    /\ committed \in [Partition -> 0 .. MaxTopic]
    /\ position \in [Partition -> 0 .. MaxTopic]
    /\ worker \in Worker
    /\ notifications \in Seq(Record)

PipelineInit ==
    /\ topic = [p \in Partition |-> <<>>]
    /\ committed = [p \in Partition |-> 0]
    /\ position = [p \in Partition |-> 0]
    /\ worker = [at |-> "reading"]
    /\ notifications = <<>>

-----------------------------------------------------------------------------
\* The balancer takes any partition; the key of the message plays no part.
Publish(event) ==
    \/ \E p \in Partition, copies \in {<<event>>, <<event, event>>} :
         /\ Len(topic[p]) + Len(copies) <= MaxTopic
         /\ topic' = [topic EXCEPT ![p] = @ \o copies]
    \/ \* The error is logged by every caller.
       UNCHANGED topic

\* The first half of ReadMessage.
Fetch(p) ==
    /\ worker.at = "reading"
    /\ position[p] < Len(topic[p])
    /\ position' = [position EXCEPT ![p] = @ + 1]
    /\ worker' = [at |-> "committing",
                  record |-> [event |-> topic[p][position[p] + 1],
                              partition |-> p, offset |-> position[p] + 1]]
    /\ UNCHANGED <<topic, committed, notifications>>

BugCommitLater(record) == UNCHANGED committed

\* The broker has the offset.
CommitOffset(record) ==
    committed' = [committed EXCEPT ![record.partition] = record.offset]

\* The second half: an error is logged and the record given up, committed or
\* not.
Commit ==
    /\ worker.at = "committing"
    /\ \/ /\ CommitOffset(worker.record)
          /\ worker' = [worker EXCEPT !.at = "persisting"]
       \/ /\ CommitOffset(worker.record) \/ UNCHANGED committed
          /\ worker' = [at |-> "reading"]
    /\ UNCHANGED <<topic, position, notifications>>

\* Start returns, and nothing starts it again while the process runs.
BugReturn == [at |-> "returned"]
\* "logged and skipped, not retried"
AfterFailure == [at |-> "reading"]

Persist ==
    /\ worker.at = "persisting"
    /\ \/ /\ notifications' = Append(notifications, worker.record)
          /\ worker' = [at |-> "reading"]
       \/ /\ worker' = AfterFailure
          /\ UNCHANGED notifications
    /\ UNCHANGED <<topic, committed, position>>

\* The process stops, and starts again from the committed offsets.
WorkerStops ==
    /\ worker.at # "down"
    /\ worker' = [at |-> "down"]
    /\ UNCHANGED <<topic, committed, position, notifications>>

WorkerStarts ==
    /\ worker.at = "down"
    /\ worker' = [at |-> "reading"]
    /\ position' = committed
    /\ UNCHANGED <<topic, committed, notifications>>

Work == (\E p \in Partition : Fetch(p)) \/ Commit \/ Persist

-----------------------------------------------------------------------------
\* "Called only by the Kafka consumer worker, once per event it reads off the
\* topic" (notification/domain/repository.go:15): a record is never made into
\* two notifications, wherever the process stops.
StoredAtMostOnce ==
    \A i, j \in DOMAIN notifications :
        notifications[i] = notifications[j] => i = j

\* "not worth blocking every notification behind it" (consumer.go:39): when
\* the process no longer stops, the worker gets to the end of every partition,
\* whatever fails on the way.
NothingBlocksTheTopic ==
    <>[](worker.at # "down")
      => \A p \in Partition : []<>(position[p] = Len(topic[p]))
=============================================================================
