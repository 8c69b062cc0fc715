-------------------------- MODULE BadgeAwardProofs --------------------------
(***************************************************************************)
(* The safety properties of BadgeAward, for any number of users, requests, *)
(* partitions and records, and of the notification pipeline behind it.     *)
(***************************************************************************)
EXTENDS BadgeAward, TLAPS

-----------------------------------------------------------------------------
(* The pipeline: no record becomes two notifications, whatever is published. *)

\* What a partition holds bounds how far the worker has read, and that bounds
\* what it has committed.
OffsetsInTopic ==
    \A p \in Partition :
        /\ committed[p] <= position[p]
        /\ position[p] <= Len(topic[p])
        /\ Len(topic[p]) <= MaxTopic

\* The record in hand is the last one read: not yet committed, ...
CommittingIsNew ==
    worker.at = "committing" =>
        LET p == worker.record.partition
        IN  /\ worker.record.offset = position[p]
            /\ committed[p] < position[p]

\* ... or just committed, and in no notification.
PersistingIsNew ==
    worker.at = "persisting" =>
        /\ worker.record.offset = committed[worker.record.partition]
        /\ \A i \in DOMAIN notifications : notifications[i] # worker.record

\* Nothing is stored before it is committed.
StoredIsCommitted ==
    \A i \in DOMAIN notifications :
        notifications[i].offset <= committed[notifications[i].partition]

\* The record in hand is of the topic: so is what becomes of it.
RecordOfTopic ==
    worker.at \in {"committing", "persisting"} =>
        LET rec == worker.record
        IN  /\ rec.offset \in 1 .. Len(topic[rec.partition])
            /\ rec.event = topic[rec.partition][rec.offset]

PipelineInv ==
    /\ PipelineTypeOK
    /\ OffsetsInTopic
    /\ CommittingIsNew
    /\ PersistingIsNew
    /\ StoredIsCommitted
    /\ RecordOfTopic
    /\ StoredAtMostOnce

-----------------------------------------------------------------------------
\* The pipeline starts empty.
LEMMA PipelineInitInv ==
    ASSUME PipelineInit
    PROVE  PipelineInv
  <1>1. PipelineTypeOK
    <2>1. topic \in [Partition -> Seq(Event)]
      BY DEF PipelineInit
    <2>2. 0 \in 0 .. MaxTopic
      BY TopicAssumption
    <2>3. worker \in Worker
      BY DEF PipelineInit, Worker
    <2> QED
      BY <2>1, <2>2, <2>3 DEF PipelineInit, PipelineTypeOK
  <1>2. OffsetsInTopic
    BY TopicAssumption DEF PipelineInit, OffsetsInTopic
  <1>3. StoredIsCommitted /\ StoredAtMostOnce
    BY DEF PipelineInit, StoredIsCommitted, StoredAtMostOnce
  <1>4. CommittingIsNew /\ PersistingIsNew /\ RecordOfTopic
    BY DEF PipelineInit, CommittingIsNew, PersistingIsNew, RecordOfTopic
  <1> QED
    BY <1>1, <1>2, <1>3, <1>4 DEF PipelineInv

\* A worker with a record is one of the second kind.
LEMMA WorkerWithRecord ==
    ASSUME PipelineTypeOK, worker.at \in {"committing", "persisting"}
    PROVE  /\ worker \in [at : {"committing", "persisting"}, record : Record]
           /\ worker.record \in Record
           /\ worker.record.partition \in Partition
           /\ worker.record.offset \in Nat
  <1>1. worker \in [at : {"committing", "persisting"}, record : Record]
    BY DEF PipelineTypeOK, Worker
  <1> QED
    BY <1>1 DEF Record

\* Publishing only makes a partition longer.
LEMMA PublishInv ==
    ASSUME PipelineInv, NEW event \in Event, Publish(event),
           UNCHANGED <<committed, position, worker, notifications>>
    PROVE  PipelineInv'
  <1>1. CASE UNCHANGED topic
    BY <1>1 DEF PipelineInv, PipelineTypeOK, OffsetsInTopic, CommittingIsNew,
                PersistingIsNew, StoredIsCommitted, RecordOfTopic,
                StoredAtMostOnce
  <1>2. ASSUME NEW p \in Partition, NEW copies \in {<<event>>, <<event, event>>},
               Len(topic[p]) + Len(copies) <= MaxTopic,
               topic' = [topic EXCEPT ![p] = @ \o copies]
        PROVE  PipelineInv'
    <2>1. copies \in Seq(Event) /\ Len(copies) \in Nat
      <3>1. CASE copies = <<event>>
        BY <3>1
      <3>2. CASE copies = <<event, event>>
        BY <3>2
      <3> QED
        BY <1>2, <3>1, <3>2
    <2>2. topic[p] \in Seq(Event)
      BY DEF PipelineInv, PipelineTypeOK
    <2>3. /\ topic' \in [Partition -> Seq(Event)]
          /\ topic'[p] = topic[p] \o copies
          /\ \A q \in Partition \ {p} : topic'[q] = topic[q]
      BY <1>2, <2>1, <2>2 DEF PipelineInv, PipelineTypeOK
    <2>4. /\ Len(topic'[p]) = Len(topic[p]) + Len(copies)
          /\ \A k \in 1 .. Len(topic[p]) : topic'[p][k] = topic[p][k]
      BY <2>1, <2>2, <2>3
    <2>5. \A q \in Partition :
             /\ Len(topic[q]) \in Nat /\ Len(topic'[q]) \in Nat
             /\ Len(topic[q]) <= Len(topic'[q])
             /\ \A k \in 1 .. Len(topic[q]) : topic'[q][k] = topic[q][k]
      <3> SUFFICES ASSUME NEW q \in Partition
                   PROVE  /\ Len(topic[q]) \in Nat /\ Len(topic'[q]) \in Nat
                          /\ Len(topic[q]) <= Len(topic'[q])
                          /\ \A k \in 1 .. Len(topic[q]) :
                                topic'[q][k] = topic[q][k]
        OBVIOUS
      <3>1. topic[q] \in Seq(Event) /\ topic'[q] \in Seq(Event)
        BY <2>3 DEF PipelineInv, PipelineTypeOK
      <3>2. CASE q = p
        BY <2>1, <2>4, <3>1, <3>2
      <3>3. CASE q # p
        BY <2>3, <3>1, <3>3
      <3> QED
        BY <3>2, <3>3
    <2>6. PipelineTypeOK'
      BY <2>3 DEF PipelineInv, PipelineTypeOK
    <2>7. OffsetsInTopic'
      BY <1>2, <2>3, <2>4, <2>5
         DEF PipelineInv, PipelineTypeOK, OffsetsInTopic
    <2>8. RecordOfTopic'
      <3> SUFFICES ASSUME worker.at \in {"committing", "persisting"}
                   PROVE  LET rec == worker.record
                          IN  /\ rec.offset \in 1 .. Len(topic'[rec.partition])
                              /\ rec.event = topic'[rec.partition][rec.offset]
        BY DEF RecordOfTopic
      <3>1. worker.record.partition \in Partition
        BY WorkerWithRecord DEF PipelineInv
      <3>2. /\ worker.record.offset \in 1 .. Len(topic[worker.record.partition])
            /\ worker.record.event
                 = topic[worker.record.partition][worker.record.offset]
        BY DEF PipelineInv, RecordOfTopic
      <3> QED
        BY <2>5, <3>1, <3>2
    <2> QED
      BY <2>6, <2>7, <2>8
         DEF PipelineInv, CommittingIsNew, PersistingIsNew, StoredIsCommitted,
             StoredAtMostOnce
  <1> QED
    BY <1>1, <1>2 DEF Publish

\* Reading the next record takes it in hand.
LEMMA FetchInv ==
    ASSUME PipelineInv, NEW p \in Partition, Fetch(p)
    PROVE  PipelineInv'
  <1> DEFINE n == position[p] + 1
  <1>1. /\ topic[p] \in Seq(Event) /\ position[p] \in Nat
        /\ n \in 1 .. Len(topic[p]) /\ n \in 0 .. MaxTopic
    BY TopicAssumption
       DEF PipelineInv, PipelineTypeOK, OffsetsInTopic, Fetch
  <1>2. topic[p][n] \in Event
    BY <1>1
  <1>3. /\ worker' = [at |-> "committing",
                      record |-> [event |-> topic[p][n], partition |-> p,
                                  offset |-> n]]
        /\ position' = [position EXCEPT ![p] = n]
        /\ UNCHANGED <<topic, committed, notifications>>
    BY DEF Fetch
  <1>4. PipelineTypeOK'
    <2>1. worker' \in Worker
      BY <1>1, <1>2, <1>3 DEF Worker, Record
    <2> QED
      BY <1>1, <1>3, <2>1 DEF PipelineInv, PipelineTypeOK
  <1>5. OffsetsInTopic'
    BY <1>1, <1>3 DEF PipelineInv, PipelineTypeOK, OffsetsInTopic
  <1>6. CommittingIsNew'
    BY <1>1, <1>3
       DEF PipelineInv, PipelineTypeOK, OffsetsInTopic, CommittingIsNew
  <1>7. RecordOfTopic'
    BY <1>1, <1>3 DEF RecordOfTopic
  <1>8. PersistingIsNew'
    BY <1>3 DEF PersistingIsNew
  <1> QED
    BY <1>3, <1>4, <1>5, <1>6, <1>7, <1>8
       DEF PipelineInv, StoredIsCommitted, StoredAtMostOnce

\* Committing moves the offset to the record in hand; every notification is of
\* an earlier one.
LEMMA CommitInv ==
    ASSUME PipelineInv, Commit
    PROVE  PipelineInv'
  <1> DEFINE rec == worker.record
             p   == rec.partition
  <1>1. /\ worker \in [at : {"committing", "persisting"}, record : Record]
        /\ worker.at = "committing"
        /\ p \in Partition /\ rec \in Record /\ rec.offset \in Nat
        /\ UNCHANGED <<topic, position, notifications>>
    BY WorkerWithRecord DEF Commit, PipelineInv
  <1>2. /\ rec.offset = position[p] /\ committed[p] < rec.offset
        /\ rec.offset \in 0 .. MaxTopic
    BY <1>1 DEF PipelineInv, PipelineTypeOK, CommittingIsNew
  <1>3. CASE CommitOffset(rec)
    <2>1. /\ committed' \in [Partition -> 0 .. MaxTopic]
          /\ committed'[p] = rec.offset
          /\ \A q \in Partition \ {p} : committed'[q] = committed[q]
      BY <1>1, <1>2, <1>3 DEF CommitOffset, PipelineInv, PipelineTypeOK
    <2>2. OffsetsInTopic'
      BY <1>1, <1>2, <2>1 DEF PipelineInv, OffsetsInTopic
    <2>3. \A i \in DOMAIN notifications :
             /\ notifications[i] \in Record
             /\ notifications[i].partition \in Partition
             /\ notifications[i].offset \in Nat
      <3>1. \A i \in DOMAIN notifications : notifications[i] \in Record
        BY DEF PipelineInv, PipelineTypeOK
      <3> QED
        BY <3>1 DEF Record
    <2>4. StoredIsCommitted'
      <3> SUFFICES ASSUME NEW i \in DOMAIN notifications
                   PROVE  notifications[i].offset
                            <= committed'[notifications[i].partition]
        BY <1>1 DEF StoredIsCommitted
      <3>1. /\ committed[notifications[i].partition] \in Nat
            /\ notifications[i].offset
                 <= committed[notifications[i].partition]
        BY <2>3 DEF PipelineInv, PipelineTypeOK, StoredIsCommitted
      <3>2. CASE notifications[i].partition = p
        BY <1>1, <1>2, <2>1, <2>3, <3>1, <3>2
      <3>3. CASE notifications[i].partition # p
        BY <2>1, <2>3, <3>1, <3>3
      <3> QED
        BY <3>2, <3>3
    <2>5. \A i \in DOMAIN notifications : notifications[i] # rec
      BY <1>1, <1>2, <2>3
         DEF PipelineInv, PipelineTypeOK, StoredIsCommitted
    <2>6. CASE worker' = [worker EXCEPT !.at = "persisting"]
      <3>1. /\ worker' \in [at : {"committing", "persisting"}, record : Record]
            /\ worker'.at = "persisting" /\ worker'.record = rec
        BY <1>1, <2>6
      <3>2. PipelineTypeOK'
        BY <1>1, <2>1, <3>1 DEF PipelineInv, PipelineTypeOK, Worker
      <3>3. CommittingIsNew' /\ PersistingIsNew'
        BY <1>1, <2>1, <2>5, <3>1 DEF CommittingIsNew, PersistingIsNew
      <3>4. RecordOfTopic'
        BY <1>1, <3>1 DEF PipelineInv, RecordOfTopic
      <3> QED
        BY <1>1, <2>2, <2>4, <3>2, <3>3, <3>4
           DEF PipelineInv, StoredAtMostOnce
    <2>7. CASE worker' = [at |-> "reading"]
      <3>1. PipelineTypeOK'
        BY <1>1, <2>1, <2>7 DEF PipelineInv, PipelineTypeOK, Worker
      <3> QED
        BY <1>1, <2>2, <2>4, <2>7, <3>1
           DEF PipelineInv, CommittingIsNew, PersistingIsNew, RecordOfTopic,
               StoredAtMostOnce
    <2> QED
      BY <2>6, <2>7 DEF Commit
  <1>4. CASE worker' = [at |-> "reading"] /\ UNCHANGED committed
    <2>1. PipelineTypeOK'
      BY <1>1, <1>4 DEF PipelineInv, PipelineTypeOK, Worker
    <2> QED
      BY <1>1, <1>4, <2>1
         DEF PipelineInv, OffsetsInTopic, CommittingIsNew, PersistingIsNew,
             StoredIsCommitted, RecordOfTopic, StoredAtMostOnce
  <1> QED
    BY <1>3, <1>4 DEF Commit

\* Storing the record in hand is storing a new one.
LEMMA PersistInv ==
    ASSUME PipelineInv, Persist
    PROVE  PipelineInv'
  <1> DEFINE rec == worker.record
             p   == rec.partition
  <1>1. /\ worker \in [at : {"committing", "persisting"}, record : Record]
        /\ worker.at = "persisting"
        /\ p \in Partition /\ rec \in Record /\ rec.offset \in Nat
        /\ worker' = [at |-> "reading"]
        /\ UNCHANGED <<topic, committed, position>>
    BY WorkerWithRecord DEF Persist, AfterFailure, PipelineInv
  <1>2. worker' \in Worker
    BY <1>1 DEF Worker
  <1>3. /\ OffsetsInTopic'
        /\ CommittingIsNew' /\ PersistingIsNew' /\ RecordOfTopic'
    BY <1>1 DEF PipelineInv, OffsetsInTopic, CommittingIsNew, PersistingIsNew,
                RecordOfTopic
  <1>4. CASE UNCHANGED notifications
    BY <1>1, <1>2, <1>3, <1>4
       DEF PipelineInv, PipelineTypeOK, StoredIsCommitted, StoredAtMostOnce
  <1>5. CASE notifications' = Append(notifications, rec)
    <2> DEFINE n == Len(notifications)
    <2>1. notifications \in Seq(Record) /\ n \in Nat
      BY DEF PipelineInv, PipelineTypeOK
    <2>2. /\ notifications' \in Seq(Record)
          /\ DOMAIN notifications = 1 .. n
          /\ DOMAIN notifications' = 1 .. n + 1
          /\ \A i \in 1 .. n : notifications'[i] = notifications[i]
          /\ notifications'[n + 1] = rec
      BY <1>1, <1>5, <2>1
    <2>3. PipelineTypeOK'
      BY <1>1, <1>2, <2>2 DEF PipelineInv, PipelineTypeOK
    <2>4. /\ rec.offset = committed[p]
          /\ \A i \in 1 .. n : notifications[i] # rec
      BY <1>1, <2>2 DEF PipelineInv, PersistingIsNew
    <2>5. StoredIsCommitted'
      <3>1. committed[p] \in Nat
        BY <1>1 DEF PipelineInv, PipelineTypeOK
      <3>2. rec.offset <= committed[p]
        BY <1>1, <2>4, <3>1
      <3> SUFFICES ASSUME NEW i \in 1 .. n + 1
                   PROVE  notifications'[i].offset
                            <= committed[notifications'[i].partition]
        BY <1>1, <2>2 DEF StoredIsCommitted
      <3>3. CASE i \in 1 .. n
        BY <2>2, <3>3 DEF PipelineInv, StoredIsCommitted
      <3>4. CASE i = n + 1
        BY <2>2, <3>2, <3>4
      <3> QED
        BY <2>1, <3>3, <3>4
    <2>6. StoredAtMostOnce'
      <3> SUFFICES ASSUME NEW i \in 1 .. n + 1, NEW j \in 1 .. n + 1,
                          notifications'[i] = notifications'[j]
                   PROVE  i = j
        BY <2>2 DEF StoredAtMostOnce
      <3>1. CASE i \in 1 .. n /\ j \in 1 .. n
        BY <2>2, <3>1 DEF PipelineInv, StoredAtMostOnce
      <3>2. CASE i = n + 1 \/ j = n + 1
        BY <2>1, <2>2, <2>4, <3>2
      <3> QED
        BY <2>1, <3>1, <3>2
    <2> QED
      BY <1>3, <2>3, <2>5, <2>6 DEF PipelineInv
  <1> QED
    BY <1>4, <1>5 DEF Persist

\* A stop drops the record in hand, and a start goes back to what is committed.
LEMMA StopStartInv ==
    ASSUME PipelineInv, WorkerStops \/ WorkerStarts
    PROVE  PipelineInv'
  <1>1. /\ worker' \in {[at |-> "down"], [at |-> "reading"]}
        /\ position' = position \/ position' = committed
        /\ UNCHANGED <<topic, committed, notifications>>
    BY DEF WorkerStops, WorkerStarts
  <1>2. worker' \in Worker /\ worker'.at \in {"down", "reading"}
    BY <1>1 DEF Worker
  <1>3. PipelineTypeOK'
    BY <1>1, <1>2 DEF PipelineInv, PipelineTypeOK
  <1>4. OffsetsInTopic'
    <2> SUFFICES ASSUME NEW p \in Partition
                 PROVE  /\ committed[p] <= position'[p]
                        /\ position'[p] <= Len(topic[p])
                        /\ Len(topic[p]) <= MaxTopic
      BY <1>1 DEF OffsetsInTopic
    <2>1. /\ committed[p] \in Nat /\ position[p] \in Nat
          /\ Len(topic[p]) \in Nat
      BY DEF PipelineInv, PipelineTypeOK
    <2> QED
      BY <1>1, <2>1 DEF PipelineInv, OffsetsInTopic
  <1> QED
    BY <1>1, <1>2, <1>3, <1>4
       DEF PipelineInv, CommittingIsNew, PersistingIsNew, RecordOfTopic,
           StoredIsCommitted, StoredAtMostOnce

\* The worker's own steps.
LEMMA WorkInv ==
    ASSUME PipelineInv, Work
    PROVE  PipelineInv'
  BY FetchInv, CommitInv, PersistInv DEF Work

\* A step of something else.
LEMMA PipelineFrame ==
    ASSUME PipelineInv, UNCHANGED pipelineVars
    PROVE  PipelineInv'
  BY DEF pipelineVars, PipelineInv, PipelineTypeOK, OffsetsInTopic,
         CommittingIsNew, PersistingIsNew, StoredIsCommitted, RecordOfTopic,
         StoredAtMostOnce

-----------------------------------------------------------------------------
(* The requests in front of it *)

AwardTypeOK ==
    /\ code \in Req \cup {NoCode}
    /\ badge \in BOOLEAN
    /\ verified \subseteq User /\ awarded \subseteq User
    /\ req \in [Req -> Request]
    /\ returned \subseteq Req
    /\ failed \subseteq User

\* What a request has seen stays true: a scan is not undone, nor an award.
RequestsOK ==
    \A r \in Req :
        /\ req[r].at \in AwardAt => req[r].user \in verified
        /\ req[r].at = "award_publish" => req[r].user \in awarded

\* The part of ScanAwardsBadge that is not a consequence of the types.
Expecting(u) == \E r \in Req : req[r].at \in AwardAt /\ req[r].user = u

ScannedIsServed ==
    /\ awarded \subseteq verified
    /\ \A u \in verified \ (awarded \cup failed) : Expecting(u)

IInv ==
    /\ PipelineInv
    /\ AwardTypeOK
    /\ HostsSeeTheCode
    /\ RequestsOK
    /\ ScannedIsServed
    /\ BadgeNoticesTrue

-----------------------------------------------------------------------------
\* The invariant holds at first.
LEMMA InitInv ==
    ASSUME Init
    PROVE  IInv
  <1>1. PipelineInv
    BY PipelineInitInv DEF Init
  <1>2. AwardTypeOK
    BY DEF Init, AwardTypeOK, Request, Idle
  <1>3. RequestsOK
    BY DEF Init, RequestsOK, Idle, AwardAt
  <1>4. HostsSeeTheCode /\ ScannedIsServed
    BY DEF Init, HostsSeeTheCode, ScannedIsServed
  <1>5. BadgeNoticesTrue
    BY DEF Init, PipelineInit, BadgeNoticesTrue
  <1> QED
    BY <1>1, <1>2, <1>3, <1>4, <1>5 DEF IInv

\* A request that awards has a user.
LEMMA RequestWithUser ==
    ASSUME AwardTypeOK, NEW r \in Req,
           req[r].at \in {"scan_create", "award_publish"} \cup AwardAt
    PROVE  req[r].user \in User
  <1>1. req[r] \in Request
    BY DEF AwardTypeOK
  <1> QED
    BY <1>1 DEF Request, AwardAt

\* One request goes on to a state.  It may leave the award only with the badge
\* or with its user among the failed; it may bring in a user by a scan.
LEMMA RequestStep ==
    ASSUME IInv, NEW r \in Req, NEW state \in Request,
           req' = [req EXCEPT ![r] = state],
           verified \subseteq verified', awarded \subseteq awarded',
           failed \subseteq failed', awarded' \subseteq verified',
           \A u \in verified' \ verified :
              state.at \in AwardAt /\ state.user = u,
           state.at \in AwardAt => state.user \in verified',
           state.at = "award_publish" => state.user \in awarded',
           req[r].at \in AwardAt =>
              \/ state.at \in AwardAt /\ state.user = req[r].user
              \/ req[r].user \in awarded' \cup failed'
    PROVE  req' \in [Req -> Request] /\ RequestsOK' /\ ScannedIsServed'
  <1>1. /\ req' \in [Req -> Request]
        /\ req'[r] = state
        /\ \A q \in Req \ {r} : req'[q] = req[q]
    BY DEF IInv, AwardTypeOK
  <1>2. RequestsOK'
    BY <1>1 DEF IInv, RequestsOK
  <1>3. ScannedIsServed'
    <2> SUFFICES ASSUME NEW u \in verified' \ (awarded' \cup failed')
                 PROVE  \E q \in Req : req'[q].at \in AwardAt
                                       /\ req'[q].user = u
      BY DEF ScannedIsServed, Expecting
    <2>1. CASE u \notin verified
      BY <1>1, <2>1
    <2>2. CASE u \in verified
      <3>1. PICK q \in Req : req[q].at \in AwardAt /\ req[q].user = u
        BY <2>2 DEF IInv, ScannedIsServed, Expecting
      <3>2. CASE q = r
        BY <1>1, <3>1, <3>2
      <3>3. CASE q # r
        BY <1>1, <3>1, <3>3
      <3> QED
        BY <3>2, <3>3
    <2> QED
      BY <2>1, <2>2
  <1> QED
    BY <1>1, <1>2, <1>3

\* A step that leaves the pipeline alone.
LEMMA NoticesFrame ==
    ASSUME IInv, UNCHANGED pipelineVars, awarded \subseteq awarded'
    PROVE  PipelineInv' /\ BadgeNoticesTrue'
  <1>1. PipelineInv'
    BY PipelineFrame DEF IInv
  <1>2. BadgeNoticesTrue'
    BY DEF IInv, pipelineVars, BadgeNoticesTrue
  <1> QED
    BY <1>1, <1>2

-----------------------------------------------------------------------------
\* The first code returned is the one every later request returns.
LEMMA GenerateInv ==
    ASSUME IInv, NEW r \in Req, Generate(r)
    PROVE  IInv'
  <1>1. PipelineInv' /\ BadgeNoticesTrue'
    BY NoticesFrame DEF Generate, GenerateFind, GenerateCreate
  <1>2. CASE GenerateFind(r)
    <2>1. PICK state \in {Idle, [at |-> "code_create"]} :
             req' = [req EXCEPT ![r] = state]
      BY <1>2 DEF GenerateFind, Finish, Goto
    <2>2. state \in Request /\ state.at \notin AwardAt \cup {"award_publish"}
      BY DEF Idle, Request, AwardAt
    <2>3. req[r].at \notin AwardAt
      BY <1>2 DEF GenerateFind, Idle, AwardAt
    <2>4. req' \in [Req -> Request] /\ RequestsOK' /\ ScannedIsServed'
      BY <1>2, <2>1, <2>2, <2>3, RequestStep
         DEF GenerateFind, IInv, ScannedIsServed
    <2>5. HostsSeeTheCode' /\ AwardTypeOK'
      BY <1>2, <2>4
         DEF GenerateFind, IInv, AwardTypeOK, HostsSeeTheCode
    <2> QED
      BY <1>1, <2>4, <2>5 DEF IInv
  <1>3. CASE GenerateCreate(r)
    <2>1. req' = [req EXCEPT ![r] = Idle]
      BY <1>3 DEF GenerateCreate, Finish, Goto
    <2>2. Idle \in Request /\ Idle.at \notin AwardAt \cup {"award_publish"}
      BY DEF Idle, Request, AwardAt
    <2>3. req[r].at \notin AwardAt
      BY <1>3 DEF GenerateCreate, AwardAt
    <2>4. req' \in [Req -> Request] /\ RequestsOK' /\ ScannedIsServed'
      BY <1>3, <2>1, <2>2, <2>3, RequestStep
         DEF GenerateCreate, IInv, ScannedIsServed
    <2>5. HostsSeeTheCode' /\ AwardTypeOK'
      BY <1>3, <2>4, CodeAssumption
         DEF GenerateCreate, CodeTaken, IInv, AwardTypeOK, HostsSeeTheCode
    <2> QED
      BY <1>1, <2>4, <2>5 DEF IInv
  <1> QED
    BY <1>2, <1>3 DEF Generate

\* Setting up the badge awards nothing.
LEMMA SetUpBadgeInv ==
    ASSUME IInv, NEW r \in Req, SetUpBadge(r)
    PROVE  IInv'
  <1>1. PipelineInv' /\ BadgeNoticesTrue'
    BY NoticesFrame DEF SetUpBadge, BadgeFind, BadgeCreate
  <1>2. PICK state \in {Idle, [at |-> "badge_create"]} :
           req' = [req EXCEPT ![r] = state]
    BY DEF SetUpBadge, BadgeFind, BadgeCreate, Finish, Goto
  <1>3. state \in Request /\ state.at \notin AwardAt \cup {"award_publish"}
    BY DEF Idle, Request, AwardAt
  <1>4. req[r].at \notin AwardAt
    BY DEF SetUpBadge, BadgeFind, BadgeCreate, Idle, AwardAt
  <1>5. /\ badge' \in {badge, TRUE}
        /\ UNCHANGED <<code, verified, awarded, returned, failed>>
    BY DEF SetUpBadge, BadgeFind, BadgeCreate
  <1>6. req' \in [Req -> Request] /\ RequestsOK' /\ ScannedIsServed'
    BY <1>2, <1>3, <1>4, <1>5, RequestStep DEF IInv, ScannedIsServed
  <1>7. HostsSeeTheCode' /\ AwardTypeOK'
    BY <1>5, <1>6 DEF IInv, AwardTypeOK, HostsSeeTheCode
  <1> QED
    BY <1>1, <1>6, <1>7 DEF IInv

\* A request given up leaves its user among the failed.
LEMMA AbandonInv ==
    ASSUME IInv, NEW r \in Req, Abandon(r)
    PROVE  IInv'
  <1>1. PipelineInv' /\ BadgeNoticesTrue'
    BY NoticesFrame DEF Abandon
  <1>2. req' = [req EXCEPT ![r] = Idle]
    BY DEF Abandon, Finish, Goto
  <1>3. Idle \in Request /\ Idle.at \notin AwardAt \cup {"award_publish"}
    BY DEF Idle, Request, AwardAt
  <1>4. Lost(r) \subseteq User /\ failed' = failed \cup Lost(r)
    BY RequestWithUser DEF Abandon, Lost, IInv
  <1>5. req[r].at \in AwardAt => req[r].user \in failed'
    BY <1>4 DEF Lost
  <1>6. UNCHANGED <<code, badge, verified, awarded, returned>>
    BY DEF Abandon
  <1>7. req' \in [Req -> Request] /\ RequestsOK' /\ ScannedIsServed'
    BY <1>2, <1>3, <1>4, <1>5, <1>6, RequestStep DEF IInv, ScannedIsServed
  <1>8. HostsSeeTheCode' /\ AwardTypeOK'
    BY <1>4, <1>6, <1>7 DEF IInv, AwardTypeOK, HostsSeeTheCode
  <1> QED
    BY <1>1, <1>7, <1>8 DEF IInv

-----------------------------------------------------------------------------
\* The scan: looking for the record, and making it.
LEMMA ScanRecordInv ==
    ASSUME IInv, NEW r \in Req,
           (\E u \in User : ScanFind(r, u)) \/ ScanCreate(r)
    PROVE  IInv'
  <1>1. PipelineInv' /\ BadgeNoticesTrue'
    BY NoticesFrame DEF ScanFind, ScanCreate
  <1>2. UNCHANGED <<code, badge, awarded, returned, failed>>
    BY DEF ScanFind, ScanCreate
  <1>3. CASE \E u \in User : ScanFind(r, u)
    <2>1. PICK u \in User : ScanFind(r, u)
      BY <1>3
    <2> DEFINE state == [at |-> "scan_create", user |-> u]
    <2>2. state \in Request /\ state.at \notin AwardAt \cup {"award_publish"}
      BY DEF Request, AwardAt
    <2>3. req' = [req EXCEPT ![r] = state] /\ UNCHANGED verified
      BY <2>1 DEF ScanFind, Goto
    <2>4. req[r].at \notin AwardAt
      BY <2>1 DEF ScanFind, Idle, AwardAt
    <2>5. req' \in [Req -> Request] /\ RequestsOK' /\ ScannedIsServed'
      <3> HIDE DEF state
      <3> QED
        BY <1>2, <2>2, <2>3, <2>4, RequestStep DEF IInv, ScannedIsServed
    <2> QED
      BY <1>1, <1>2, <2>3, <2>5 DEF IInv, AwardTypeOK, HostsSeeTheCode
  <1>4. CASE ScanCreate(r)
    <2>1. req[r].at = "scan_create" /\ req[r].user \in User
      BY <1>4, RequestWithUser DEF ScanCreate, IInv
    <2>2. req[r].at \notin AwardAt
      BY <2>1 DEF AwardAt
    <2>3. CASE req[r].user \notin verified
      <3> DEFINE state == [at |-> "award_lookup", user |-> req[r].user]
      <3>1. /\ state \in Request /\ state.at \in AwardAt
            /\ state.at # "award_publish" /\ state.user = req[r].user
        BY <2>1 DEF Request, AwardAt
      <3>2. /\ req' = [req EXCEPT ![r] = state]
            /\ verified' = verified \cup {req[r].user}
        BY <1>4, <2>3 DEF ScanCreate, Continue, Goto
      <3>3. req' \in [Req -> Request] /\ RequestsOK' /\ ScannedIsServed'
        <4> HIDE DEF state
        <4> QED
          BY <1>2, <2>2, <3>1, <3>2, RequestStep DEF IInv, ScannedIsServed
      <3> QED
        BY <1>1, <1>2, <2>1, <3>2, <3>3 DEF IInv, AwardTypeOK, HostsSeeTheCode
    <2>4. CASE req[r].user \in verified
      <3>1. Idle \in Request /\ Idle.at \notin AwardAt \cup {"award_publish"}
        BY DEF Idle, Request, AwardAt
      <3>2. req' = [req EXCEPT ![r] = Idle] /\ UNCHANGED verified
        BY <1>4, <2>4 DEF ScanCreate, Finish, Goto
      <3>3. req' \in [Req -> Request] /\ RequestsOK' /\ ScannedIsServed'
        BY <1>2, <2>2, <3>1, <3>2, RequestStep DEF IInv, ScannedIsServed
      <3> QED
        BY <1>1, <1>2, <3>2, <3>3 DEF IInv, AwardTypeOK, HostsSeeTheCode
    <2> QED
      BY <2>3, <2>4
  <1> QED
    BY <1>3, <1>4

\* The award before its notice: every way out of it gives the user the badge or
\* counts them among the failed.
LEMMA AwardRowInv ==
    ASSUME IInv, NEW r \in Req,
           AwardLookup(r) \/ AwardFind(r) \/ AwardCreate(r)
    PROVE  IInv'
  <1> DEFINE u == req[r].user
  <1>1. /\ req[r].at \in AwardAt
        /\ UNCHANGED <<pipelineVars, code, badge, verified, returned>>
        /\ awarded \subseteq awarded' /\ awarded' \subseteq awarded \cup {u}
        /\ failed \subseteq failed' /\ failed' \subseteq failed \cup {u}
    BY DEF AwardLookup, AwardFind, AwardCreate, AwardAt
  <1>2. u \in User /\ u \in verified
    BY <1>1, RequestWithUser DEF IInv, RequestsOK
  <1>3. PICK state \in {Idle} \cup [at : {"award_find", "award_create",
                                          "award_publish"}, user : {u}] :
           /\ req' = [req EXCEPT ![r] = state]
           /\ state = Idle => u \in awarded' \cup failed'
           /\ state.at = "award_publish" => u \in awarded'
    <2> DEFINE next(at) == [at |-> at, user |-> u]
    <2>0. /\ Idle.at # "award_publish"
          /\ \A at \in {"award_find", "award_create", "award_publish"} :
                /\ next(at) \in [at : {"award_find", "award_create",
                                     "award_publish"}, user : {u}]
                /\ next(at).at = at /\ next(at) # Idle
      BY DEF Idle
    <2> HIDE DEF next
    <2>1. CASE AwardLookup(r)
      <3>1. CASE badge
        <4>1. req' = [req EXCEPT ![r] = next("award_find")]
          BY <2>1, <3>1 DEF AwardLookup, Continue, Goto, next
        <4> QED
          BY <2>0, <4>1
      <3>2. CASE ~badge
        <4>1. req' = [req EXCEPT ![r] = Idle] /\ u \in failed'
          BY <2>1, <3>2 DEF AwardLookup, Finish, Goto
        <4> QED
          BY <2>0, <4>1
      <3> QED
        BY <3>1, <3>2
    <2>2. CASE AwardFind(r)
      <3>1. CASE u \in awarded
        <4>1. req' = [req EXCEPT ![r] = Idle] /\ u \in awarded'
          BY <2>2, <3>1 DEF AwardFind, AlreadyHas, Finish, Goto
        <4> QED
          BY <2>0, <4>1
      <3>2. CASE u \notin awarded
        <4>1. req' = [req EXCEPT ![r] = next("award_create")]
          BY <2>2, <3>2 DEF AwardFind, AlreadyHas, Continue, Goto, next
        <4> QED
          BY <2>0, <4>1
      <3> QED
        BY <3>1, <3>2
    <2>3. CASE AwardCreate(r)
      <3>1. PICK created \in BOOLEAN :
               /\ awarded' = IF created THEN awarded \cup {u} ELSE awarded
               /\ failed'  = IF created THEN failed ELSE failed \cup {u}
               /\ IF created THEN Continue(r, "award_publish") ELSE Finish(r)
        BY <2>3 DEF AwardCreate, GoesOn
      <3>2. CASE created
        <4>1. req' = [req EXCEPT ![r] = next("award_publish")] /\ u \in awarded'
          BY <3>1, <3>2 DEF Continue, Goto, next
        <4> QED
          BY <2>0, <4>1
      <3>3. CASE ~created
        <4>1. req' = [req EXCEPT ![r] = Idle] /\ u \in failed'
          BY <3>1, <3>3 DEF Finish, Goto
        <4> QED
          BY <2>0, <4>1
      <3> QED
        BY <3>2, <3>3
    <2> QED
      BY <2>1, <2>2, <2>3
  <1>4. /\ state \in Request
        /\ state.at \in AwardAt \cup {"award_publish"} => state.user = u
    BY <1>2, <1>3 DEF Idle, Request, AwardAt
  <1>5. state.at \in AwardAt \/ u \in awarded' \cup failed'
    BY <1>3 DEF Idle, AwardAt
  <1>6. awarded' \subseteq verified'
    BY <1>1, <1>2 DEF IInv, ScannedIsServed
  <1>7. req' \in [Req -> Request] /\ RequestsOK' /\ ScannedIsServed'
    BY <1>1, <1>2, <1>3, <1>4, <1>5, <1>6, RequestStep
  <1>8. PipelineInv' /\ BadgeNoticesTrue'
    BY <1>1, NoticesFrame
  <1>9. HostsSeeTheCode' /\ AwardTypeOK'
    BY <1>1, <1>2, <1>7 DEF IInv, AwardTypeOK, HostsSeeTheCode
  <1> QED
    BY <1>7, <1>8, <1>9 DEF IInv

\* What is published is of a user who has the badge.
LEMMA AwardPublishInv ==
    ASSUME IInv, NEW r \in Req, AwardPublish(r)
    PROVE  IInv'
  <1> DEFINE u == req[r].user
  <1>1. /\ req[r].at = "award_publish"
        /\ Publish(u)
        /\ req' = [req EXCEPT ![r] = Idle]
        /\ UNCHANGED <<committed, position, worker, notifications>>
        /\ UNCHANGED <<code, badge, verified, awarded, returned, failed>>
    BY DEF AwardPublish, Finish, Goto
  <1>2. u \in Event /\ u \in awarded
    BY <1>1, RequestWithUser, EventAssumption DEF IInv, RequestsOK
  <1>3. PipelineInv'
    BY <1>1, <1>2, PublishInv DEF IInv
  <1>4. \A p \in Partition : \A i \in DOMAIN topic'[p] :
           topic'[p][i] \in awarded
    <2>1. CASE UNCHANGED topic
      BY <2>1 DEF IInv, BadgeNoticesTrue
    <2>2. ASSUME NEW p \in Partition, NEW copies \in {<<u>>, <<u, u>>},
                 topic' = [topic EXCEPT ![p] = @ \o copies]
          PROVE  \A q \in Partition : \A i \in DOMAIN topic'[q] :
                    topic'[q][i] \in awarded
      <3>1. /\ copies \in Seq(Event) /\ Len(copies) \in Nat
            /\ \A i \in 1 .. Len(copies) : copies[i] = u
        <4>1. CASE copies = <<u>>
          BY <1>2, <4>1
        <4>2. CASE copies = <<u, u>>
          BY <1>2, <4>2
        <4> QED
          BY <2>2, <4>1, <4>2
      <3>2. topic[p] \in Seq(Event)
        BY DEF IInv, PipelineInv, PipelineTypeOK
      <3>3. /\ topic'[p] = topic[p] \o copies
            /\ \A q \in Partition \ {p} : topic'[q] = topic[q]
        BY <2>2 DEF IInv, PipelineInv, PipelineTypeOK
      <3>4. ASSUME NEW i \in DOMAIN topic'[p]
            PROVE  topic'[p][i] \in awarded
        <4>1. /\ i \in 1 .. Len(topic[p]) + Len(copies)
              /\ Len(topic[p]) \in Nat
          BY <3>1, <3>2, <3>3, <3>4
        <4>2. CASE i <= Len(topic[p])
          <5>1. i \in DOMAIN topic[p] /\ topic'[p][i] = topic[p][i]
            BY <3>1, <3>2, <3>3, <4>1, <4>2
          <5> QED
            BY <5>1 DEF IInv, BadgeNoticesTrue
        <4>3. CASE i > Len(topic[p])
          <5>1. /\ i - Len(topic[p]) \in 1 .. Len(copies)
                /\ topic'[p][i] = copies[i - Len(topic[p])]
            BY <3>1, <3>2, <3>3, <4>1, <4>3
          <5> QED
            BY <1>2, <3>1, <5>1
        <4> QED
          BY <4>1, <4>2, <4>3
      <3>5. ASSUME NEW q \in Partition \ {p}, NEW i \in DOMAIN topic'[q]
            PROVE  topic'[q][i] \in awarded
        BY <3>3, <3>5 DEF IInv, BadgeNoticesTrue
      <3> QED
        BY <3>4, <3>5
    <2> QED
      BY <1>1, <2>1, <2>2 DEF Publish
  <1>5. BadgeNoticesTrue'
    BY <1>1, <1>4 DEF IInv, BadgeNoticesTrue
  <1>6. Idle \in Request /\ Idle.at \notin AwardAt \cup {"award_publish"}
    BY DEF Idle, Request, AwardAt
  <1>7. req' \in [Req -> Request] /\ RequestsOK' /\ ScannedIsServed'
    BY <1>1, <1>6, RequestStep DEF IInv, ScannedIsServed, AwardAt
  <1>8. HostsSeeTheCode' /\ AwardTypeOK'
    BY <1>1, <1>7 DEF IInv, AwardTypeOK, HostsSeeTheCode
  <1> QED
    BY <1>3, <1>5, <1>7, <1>8 DEF IInv

-----------------------------------------------------------------------------
\* A crash ends every award with its user among the failed.
LEMMA CrashInv ==
    ASSUME IInv, Crash
    PROVE  IInv'
  <1>1. /\ WorkerStops
        /\ failed' = failed \cup UNION {Lost(r) : r \in Req}
        /\ req' = [r \in Req |-> Idle]
        /\ UNCHANGED <<code, badge, verified, awarded, returned>>
    BY DEF Crash
  <1>2. PipelineInv'
    BY <1>1, StopStartInv DEF IInv
  <1>3. BadgeNoticesTrue'
    BY <1>1 DEF WorkerStops, IInv, BadgeNoticesTrue
  <1>4. \A r \in Req : Lost(r) \subseteq User
    BY RequestWithUser DEF Lost, IInv
  <1>5. AwardTypeOK'
    <2>1. Idle \in Request
      BY DEF Idle, Request
    <2>2. req' \in [Req -> Request] /\ failed' \subseteq User
      BY <1>1, <1>4, <2>1 DEF IInv, AwardTypeOK
    <2> QED
      BY <1>1, <2>2 DEF IInv, AwardTypeOK
  <1>6. RequestsOK'
    BY <1>1 DEF RequestsOK, Idle, AwardAt
  <1>7. ScannedIsServed'
    <2> SUFFICES ASSUME NEW u \in verified \ awarded, u \notin failed'
                 PROVE  FALSE
      BY <1>1 DEF IInv, ScannedIsServed
    <2>1. PICK q \in Req : req[q].at \in AwardAt /\ req[q].user = u
      BY <1>1 DEF IInv, ScannedIsServed, Expecting
    <2>2. u \in Lost(q)
      BY <2>1 DEF Lost
    <2> QED
      BY <1>1, <2>2
  <1>8. HostsSeeTheCode'
    BY <1>1 DEF IInv, HostsSeeTheCode
  <1> QED
    BY <1>2, <1>3, <1>5, <1>6, <1>7, <1>8 DEF IInv

\* The worker stores what it took from the topic, and changes nothing else of
\* the award.
LEMMA WorkerInv ==
    ASSUME IInv, Work \/ WorkerStarts, UNCHANGED awardVars
    PROVE  IInv'
  <1>1. PipelineInv'
    BY WorkInv, StopStartInv DEF IInv
  <1>2. UNCHANGED <<code, badge, verified, awarded, req, returned, failed>>
    BY DEF awardVars
  <1>3. UNCHANGED topic
    BY DEF Work, Fetch, Commit, Persist, WorkerStarts
  <1>4. \A i \in DOMAIN notifications' : notifications'[i].event \in awarded
    <2>1. CASE UNCHANGED notifications
      BY <2>1 DEF IInv, BadgeNoticesTrue
    <2>2. CASE /\ worker.at = "persisting"
               /\ notifications' = Append(notifications, worker.record)
      <3> DEFINE rec == worker.record
      <3>1. /\ rec.partition \in Partition
            /\ topic[rec.partition] \in Seq(Event)
            /\ notifications \in Seq(Record) /\ rec \in Record
        BY <2>2, WorkerWithRecord DEF IInv, PipelineInv, PipelineTypeOK
      <3>2. /\ rec.offset \in DOMAIN topic[rec.partition]
            /\ rec.event = topic[rec.partition][rec.offset]
        BY <2>2, <3>1 DEF IInv, PipelineInv, RecordOfTopic
      <3>3. rec.event \in awarded
        BY <3>1, <3>2 DEF IInv, BadgeNoticesTrue
      <3>4. \A i \in DOMAIN notifications' :
               \/ notifications'[i] = rec
               \/ i \in DOMAIN notifications
                  /\ notifications'[i] = notifications[i]
        BY <2>2, <3>1
      <3> QED
        BY <3>3, <3>4 DEF IInv, BadgeNoticesTrue
    <2> QED
      BY <2>1, <2>2 DEF Work, Fetch, Commit, Persist, WorkerStarts
  <1>5. BadgeNoticesTrue'
    BY <1>2, <1>3, <1>4 DEF IInv, BadgeNoticesTrue
  <1>6. AwardTypeOK' /\ RequestsOK' /\ HostsSeeTheCode'
    BY <1>2 DEF IInv, AwardTypeOK, RequestsOK, HostsSeeTheCode
  <1>7. ScannedIsServed'
    BY <1>2 DEF IInv, ScannedIsServed, Expecting
  <1> QED
    BY <1>1, <1>5, <1>6, <1>7 DEF IInv

\* A step that changes nothing.
LEMMA StutterInv ==
    ASSUME IInv, UNCHANGED vars
    PROVE  IInv'
  <1>1. PipelineInv' /\ BadgeNoticesTrue'
    BY NoticesFrame DEF vars, awardVars
  <1>2. UNCHANGED <<code, badge, verified, awarded, req, returned, failed>>
    BY DEF vars, awardVars
  <1> QED
    BY <1>1, <1>2 DEF IInv, AwardTypeOK, RequestsOK, HostsSeeTheCode,
                      ScannedIsServed, Expecting

\* Every step keeps the invariant.
LEMMA StepInv ==
    ASSUME IInv, [Next]_vars
    PROVE  IInv'
  <1>1. ASSUME NEW r \in Req, Generate(r)
        PROVE  IInv'
    BY <1>1, GenerateInv
  <1>2. ASSUME NEW r \in Req, SetUpBadge(r)
        PROVE  IInv'
    BY <1>2, SetUpBadgeInv
  <1>3. ASSUME NEW r \in Req, Scan(r)
        PROVE  IInv'
    BY <1>3, ScanRecordInv, AwardRowInv, AwardPublishInv DEF Scan, Award
  <1>4. ASSUME NEW r \in Req, Abandon(r)
        PROVE  IInv'
    BY <1>4, AbandonInv
  <1> QED
    BY <1>1, <1>2, <1>3, <1>4, CrashInv, WorkerInv, StutterInv DEF Next

-----------------------------------------------------------------------------
\* The inductive invariant: what is stored is committed, what is published is
\* awarded, and what a request has seen is still so.
THEOREM Invariant == Spec => []IInv
  <1>1. Init => IInv
    BY InitInv
  <1>2. IInv /\ [Next]_vars => IInv'
    BY StepInv
  <1> QED
    BY <1>1, <1>2, PTL DEF Spec

\* Every variable has its type, the offsets their bound, in every state.
THEOREM TypeCorrect == Spec => []TypeOK
  <1>1. IInv => TypeOK
    BY DEF IInv, PipelineInv, AwardTypeOK, TypeOK
  <1> QED
    BY <1>1, Invariant, PTL

\* No two hosts' screens of one activity show different codes, however their
\* requests interleave before there is one (GenerateQRCode.Execute).
THEOREM OneCode == Spec => []HostsSeeTheCode
  <1>1. IInv => HostsSeeTheCode
    BY DEF IInv
  <1> QED
    BY <1>1, Invariant, PTL

\* A badge is given to who scanned only, and to everyone who scanned when there
\* was one, but for an attempt cut short (ScanAttendance, AwardIfBadgeExists).
THEOREM ScanIsAwarded == Spec => []ScanAwardsBadge
  <1>1. IInv => ScanAwardsBadge
    BY DEF IInv, ScannedIsServed, Expecting, ScanAwardsBadge
  <1> QED
    BY <1>1, Invariant, PTL

\* Whoever is told of a badge has it, through any loss, doubling or delay in
\* the topic and any crash of the process (publish, Consumer.Start).
THEOREM NoticesAreTrue == Spec => []BadgeNoticesTrue
  <1>1. IInv => BadgeNoticesTrue
    BY DEF IInv
  <1> QED
    BY <1>1, Invariant, PTL

\* A record of the topic becomes one notification at most, wherever the process
\* stops between reading, committing and inserting (Consumer.Start).
THEOREM AtMostOnce == Spec => []StoredAtMostOnce
  <1>1. IInv => StoredAtMostOnce
    BY DEF IInv, PipelineInv
  <1> QED
    BY <1>1, Invariant, PTL
=============================================================================
