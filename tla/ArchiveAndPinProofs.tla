------------------------ MODULE ArchiveAndPinProofs -------------------------
(***************************************************************************)
(* The safety properties of Archive and of MeetupPin, the two components   *)
(* that run while the operations of HangoutLifecycle change the hangout    *)
(* and its participants: for any finite set of users and of object keys,   *)
(* any places to propose and any number of requests at once.               *)
(***************************************************************************)
EXTENDS Archive, MeetupPin, FiniteSetTheorems, TLAPS

-----------------------------------------------------------------------------
(* The archive: types *)

\* What a request holds in each of its states.
LEMMA Fields ==
    ASSUME TypeOK, NEW r \in Req
    PROVE  /\ req[r] \in Request
           /\ req[r].at = "create_insert" => req[r].log \in Seq(User)
           /\ req[r].at \in {"delete_member", "delete_mark", "purge_find",
                             "purge_list", "purge_count", "purge_media",
                             "purge_files", "delete_commit", "upload_member"}
                => req[r].user \in User
           /\ req[r].at = "purge_count" => req[r].participants \subseteq User
           /\ req[r].at = "purge_files" =>
                req[r].todo \subseteq Key /\ req[r].done \subseteq Key
           /\ req[r].at = "upload_insert" => req[r].key \in Key
  <1>1. req[r] \in Request
    BY DEF TypeOK
  <1> QED
    BY <1>1 DEF Request

\* The states in which a request knows the user and nothing else.
LEMMA UserStates ==
    ASSUME TypeOK, NEW r \in Req
    PROVE  req[r].at \in {"delete_member", "delete_mark", "purge_find",
                          "purge_list", "purge_media", "delete_commit",
                          "upload_member", "upload_store"}
             => \A at \in {"delete_mark", "purge_find", "purge_list",
                           "delete_commit", "upload_store"} :
                  [req[r] EXCEPT !.at = at] = [at |-> at, user |-> req[r].user]
  <1>1. req[r] \in Request
    BY DEF TypeOK
  <1> QED
    BY <1>1 DEF Request

\* A request goes on to a state; the others stay where they are.
LEMMA Moves ==
    ASSUME TypeOK, NEW r \in Req, NEW s, Goto(r, s)
    PROVE  /\ req'[r] = s
           /\ \A q \in Req \ {r} : req'[q] = req[q]
           /\ s \in Request => req' \in [Req -> Request]
  BY DEF TypeOK, Goto

LEMMA IdleIsRequest == Idle \in Request /\ Idle.at = "idle"
  BY DEF Idle, Request

\* The hangout keeps its types, its participants and, once final, its status.
LEMMA EnvironmentSteps ==
    ASSUME TypeOK, Environment
    PROVE  /\ LifecycleTypeOK'
           /\ Participants \subseteq Participants'
           /\ IsFinal(status) => status' = status
           /\ lateJoin' \in BOOLEAN
           /\ UNCHANGED <<archive, marks, media, objects, req, called,
                         overlapped, aborted, raced>>
           /\ ~lateJoin' => /\ ~lateJoin
                            /\ IsFinal(status) => Participants' = Participants
           /\ status' # "none" => Organizer \in Participants' \/ status # "none"
  <1>0. /\ invite \in [User -> InviteStatus \cup {"none"}]
        /\ messages \in Seq(User) /\ status \in HangoutStatus \cup {"none"}
        /\ Organizer \in User /\ lateJoin \in BOOLEAN
    BY UserAssumption DEF TypeOK, LifecycleTypeOK
  <1>1. /\ UNCHANGED <<archive, marks, media, objects, req, called,
                       overlapped, aborted, raced>>
        /\ lateJoin' = (lateJoin \/ (IsFinal(status) /\ invite' # invite))
        /\ lateJoin' \in BOOLEAN
    BY <1>0 DEF Environment
  <1>2. CASE Create
    BY <1>0, <1>1, <1>2 DEF Create, LifecycleTypeOK, HangoutStatus, InviteStatus,
       Participants, IsFinal
  <1>3. ASSUME NEW new \in HangoutStatus, ChangeStatus(new)
        PROVE  /\ LifecycleTypeOK'
               /\ Participants' = Participants
               /\ IsFinal(status) => status' = status
               /\ status # "none"
    BY <1>0, <1>3 DEF ChangeStatus, LifecycleTypeOK, HangoutStatus, MayBecome,
       Participants, IsFinal
  <1>4. ASSUME NEW u \in User, AddParticipant(u)
        PROVE  /\ LifecycleTypeOK'
               /\ Participants \subseteq Participants'
               /\ UNCHANGED status /\ invite' # invite
    BY <1>0, <1>4 DEF AddParticipant, LifecycleTypeOK, InviteStatus, Participants
  <1>5. ASSUME NEW u \in User, Post(u)
        PROVE  LifecycleTypeOK' /\ UNCHANGED <<invite, status>>
    BY <1>0, <1>5 DEF Post, LifecycleTypeOK
  <1>6. UNCHANGED invite => Participants' = Participants
    BY DEF Participants
  <1> QED
    BY <1>1, <1>2, <1>3, <1>4, <1>5, <1>6 DEF Environment

\* The snapshot has the messages of the chat.
LEMMA ReverseType ==
    ASSUME NEW s \in Seq(User)
    PROVE  Reverse(s) \in Seq(User)
  BY DEF Reverse

LEMMA CreateTypes ==
    ASSUME TypeOK, NEW r \in Req, CreateArchive(r)
    PROVE  TypeOK'
  <1>1. CASE CreateFind(r)
    <2>1. [at |-> "create_log"] \in Request
      BY DEF Request
    <2> QED
      BY <1>1, <2>1, Moves DEF CreateFind, TypeOK, LifecycleTypeOK, lifecycleVars
  <1>2. CASE CreateLog(r)
    <2>1. [at |-> "create_insert", log |-> Reverse(messages)] \in Request
      BY ReverseType DEF Request, TypeOK, LifecycleTypeOK
    <2> QED
      BY <1>2, <2>1, Moves
         DEF CreateLog, TypeOK, LifecycleTypeOK, lifecycleVars, history
  <1>3. CASE CreateInsert(r)
    <2>1. req[r].log \in Seq(User)
      BY <1>3, Fields DEF CreateInsert
    <2>2. req' \in [Req -> Request]
      BY <1>3, Moves, IdleIsRequest DEF CreateInsert, Finish
    <2> QED
      BY <1>3, <2>1, <2>2
         DEF CreateInsert, TypeOK, LifecycleTypeOK, lifecycleVars, history
  <1> QED
    BY <1>1, <1>2, <1>3 DEF CreateArchive

\* A step that leaves everything but the request alone.
Quiet == UNCHANGED <<archive, marks, media, objects, history, lifecycleVars>>

LEMMA QuietTypes ==
    ASSUME TypeOK, Quiet, req' \in [Req -> Request]
    PROVE  TypeOK'
  BY DEF TypeOK, LifecycleTypeOK, Quiet, history, lifecycleVars

LEMMA DeleteTypes ==
    ASSUME TypeOK, NEW r \in Req, Delete(r)
    PROVE  TypeOK'
  <1>1. ASSUME NEW u \in User, DeleteFind(r, u)
        PROVE  TypeOK'
    <2>1. [at |-> "delete_member", user |-> u] \in Request
      BY DEF Request
    <2> QED
      BY <1>1, <2>1, Moves, QuietTypes DEF DeleteFind, Quiet
  <1>2. CASE DeleteCheckMember(r) \/ PurgeFind(r)
    <2>1. req[r].user \in User
      BY <1>2, Fields DEF DeleteCheckMember, PurgeFind
    <2>2. \A at \in {"delete_mark", "delete_commit", "purge_list"} :
            [at |-> at, user |-> req[r].user] \in Request
      BY <2>1 DEF Request
    <2>3. \E s \in Request : Goto(r, s)
      BY <1>2, <2>2, UserStates, IdleIsRequest
         DEF DeleteCheckMember, PurgeFind, Finish
    <2> QED
      BY <1>2, <2>3, Moves, QuietTypes DEF DeleteCheckMember, PurgeFind, Quiet
  <1>3. CASE DeleteMark(r)
    <2>1. req[r].user \in User
      BY <1>3, Fields DEF DeleteMark
    <2>2. [at |-> "purge_find", user |-> req[r].user] \in Request
      BY <2>1 DEF Request
    <2>3. \E s \in Request : Goto(r, s)
      BY <1>3, <2>2, UserStates, IdleIsRequest DEF DeleteMark, Finish
    <2>4. req' \in [Req -> Request]
      BY <2>3, Moves
    <2>5. overlapped' \in BOOLEAN
      BY <1>3 DEF DeleteMark, TypeOK
    <2> QED
      BY <1>3, <2>4, <2>5 DEF DeleteMark, TypeOK, LifecycleTypeOK, lifecycleVars
  <1>4. CASE PurgeList(r) \/ PurgeCount(r) \/ PurgeMedia(r)
    <2>1. req[r].user \in User
      BY <1>4, Fields DEF PurgeList, PurgeCount, PurgeMedia
    <2>2. Participants \subseteq User /\ LiveMedia \subseteq Key
      BY DEF Participants, LiveMedia
    <2>3. /\ [at |-> "purge_count", user |-> req[r].user,
              participants |-> Participants] \in Request
          /\ \A at \in {"purge_media", "delete_commit"} :
               [at |-> at, user |-> req[r].user] \in Request
          /\ [at |-> "purge_files", user |-> req[r].user,
              todo |-> LiveMedia, done |-> {}] \in Request
      BY <2>1, <2>2 DEF Request
    <2>4. \E s \in Request : Goto(r, s)
      BY <1>4, <2>3 DEF PurgeList, PurgeCount, PurgeMedia
    <2> QED
      BY <1>4, <2>4, Moves, QuietTypes DEF PurgeList, PurgeCount, PurgeMedia, Quiet
  <1>5. ASSUME NEW k \in Key, PurgeFile(r, k)
        PROVE  TypeOK'
    <2>1. req[r].user \in User /\ req[r].todo \subseteq Key /\ req[r].done \subseteq Key
      BY <1>5, Fields DEF PurgeFile
    <2>2. [req[r] EXCEPT !.todo = @ \ {k}, !.done = @ \cup {k}] \in Request
      <3>1. req[r] \in [at : {"purge_files"}, user : User, todo : SUBSET Key,
                        done : SUBSET Key]
        BY <1>5, Fields DEF PurgeFile, Request
      <3>2. [req[r] EXCEPT !.todo = @ \ {k}, !.done = @ \cup {k}]
              \in [at : {"purge_files"}, user : User, todo : SUBSET Key,
                   done : SUBSET Key]
        BY <3>1
      <3> QED
        BY <3>2 DEF Request
    <2>3. req' \in [Req -> Request]
      BY <1>5, <2>2, Moves DEF PurgeFile
    <2> QED
      BY <1>5, <2>3 DEF PurgeFile, TypeOK, LifecycleTypeOK, lifecycleVars, history
  <1>6. CASE PurgeCommit(r) \/ DeleteCommit(r)
    <2>1. req[r].user \in User
      BY <1>6, Fields DEF PurgeCommit, DeleteCommit
    <2>2. req' \in [Req -> Request]
      BY <1>6, Moves, IdleIsRequest DEF PurgeCommit, DeleteCommit, Finish
    <2>3. /\ Purged \in [status : {"none", "purged"}, log : {<<>>}]
          /\ \A done : SoftDelete(done) \in [Key -> {"none", "live", "deleted"}]
      BY DEF Purged, SoftDelete, TypeOK
    <2> QED
      BY <1>6, <2>1, <2>2, <2>3
         DEF PurgeCommit, DeleteCommit, TypeOK, LifecycleTypeOK, lifecycleVars, history
  <1> QED
    BY <1>1, <1>2, <1>3, <1>4, <1>5, <1>6 DEF Delete

LEMMA UploadTypes ==
    ASSUME TypeOK, NEW r \in Req, Upload(r)
    PROVE  TypeOK'
  <1>1. ASSUME NEW u \in User, UploadFind(r, u)
        PROVE  TypeOK'
    <2>1. [at |-> "upload_member", user |-> u] \in Request
      BY DEF Request
    <2> QED
      BY <1>1, <2>1, Moves, QuietTypes DEF UploadFind, Quiet
  <1>2. CASE UploadCheckMember(r)
    <2>1. [at |-> "upload_store", user |-> req[r].user] \in Request
      BY <1>2, Fields DEF UploadCheckMember, Request
    <2>2. \E s \in Request : Goto(r, s)
      BY <1>2, <2>1, UserStates, IdleIsRequest DEF UploadCheckMember, Finish
    <2> QED
      BY <1>2, <2>2, Moves, QuietTypes DEF UploadCheckMember, Quiet
  <1>3. ASSUME NEW k \in Key, UploadStore(r, k)
        PROVE  TypeOK'
    <2>1. [at |-> "upload_insert", key |-> k] \in Request
      BY DEF Request
    <2>2. req' \in [Req -> Request]
      BY <1>3, <2>1, Moves DEF UploadStore
    <2> QED
      BY <1>3, <2>2 DEF UploadStore, TypeOK, LifecycleTypeOK, lifecycleVars, history
  <1>4. CASE UploadInsert(r)
    <2>1. req[r].key \in Key
      BY <1>4, Fields DEF UploadInsert
    <2>2. req' \in [Req -> Request]
      BY <1>4, Moves, IdleIsRequest DEF UploadInsert, Finish
    <2> QED
      BY <1>4, <2>1, <2>2 DEF UploadInsert, TypeOK, LifecycleTypeOK, lifecycleVars
  <1> QED
    BY <1>1, <1>2, <1>3, <1>4 DEF Upload

LEMMA AbandonTypes ==
    ASSUME TypeOK, NEW r \in Req, Abandon(r)
    PROVE  TypeOK'
  <1>1. req' \in [Req -> Request]
    BY Moves, IdleIsRequest DEF Abandon, Finish
  <1>2. aborted' \in BOOLEAN
    BY DEF Abandon, TypeOK
  <1> QED
    BY <1>1, <1>2 DEF Abandon, TypeOK, LifecycleTypeOK, lifecycleVars

LEMMA InitTypes == Init => TypeOK
  <1>1. LifecycleInit => LifecycleTypeOK
    BY DEF LifecycleInit, LifecycleTypeOK
  <1>2. Init => archive \in [status : {"none", "purged"}, log : {<<>>}]
    BY DEF Init
  <1>3. Init => media \in [Key -> {"none", "live", "deleted"}]
    BY DEF Init
  <1>4. Init => req \in [Req -> Request]
    BY IdleIsRequest DEF Init
  <1>5. Init => /\ marks \subseteq User /\ objects \subseteq Key
                /\ {called, lateJoin, overlapped, aborted} \subseteq BOOLEAN
                /\ raced \subseteq Key
    BY DEF Init
  <1>6. Init => LifecycleTypeOK
    BY <1>1 DEF Init
  <1> QED
    BY <1>2, <1>3, <1>4, <1>5, <1>6 DEF TypeOK

\* Every variable has its type in every state.
THEOREM TypeCorrect == Spec => []TypeOK
<1>1. TypeOK /\ [Next]_vars => TypeOK'
  <2> SUFFICES ASSUME TypeOK, [Next]_vars PROVE TypeOK'
    OBVIOUS
  <2>1. CASE Environment
    BY <2>1, EnvironmentSteps DEF TypeOK
  <2>2. CASE UNCHANGED vars
    BY <2>2 DEF vars, archiveVars, lifecycleVars, TypeOK, LifecycleTypeOK
  <2> QED
    BY <2>1, <2>2, CreateTypes, DeleteTypes, UploadTypes, AbandonTypes DEF Next
<1> QED
  BY <1>1, InitTypes, PTL DEF Spec

-----------------------------------------------------------------------------
(* The inductive invariant, in four parts. *)

Creating == {"create_log", "create_insert"}
Deleting == {"delete_mark", "purge_find", "purge_list", "purge_count",
             "purge_media", "purge_files", "delete_commit"}

\* There is one creation, of a final hangout, and it is over when the archive
\* is there; before that nobody deletes or uploads.
CreatedOnce ==
    /\ called => IsFinal(status)
    /\ status # "none" => Organizer \in Participants
    /\ archive.status # "none" => called /\ \A r \in Req : req[r].at \notin Creating
    /\ archive.status = "none" =>
         marks = {} /\ \A r \in Req : req[r].at \in {"idle"} \cup Creating
    /\ \A r \in Req : req[r].at \in Creating => called
    /\ \A r, s \in Req : req[r].at \in Creating /\ req[s].at \in Creating => r = s

\* Whoever has marked the archive, or is about to, takes part in the hangout:
\* participants are never removed.
MarkedByParticipants ==
    /\ marks \subseteq Participants
    /\ \A r \in Req : /\ req[r].at \in Deleting => req[r].user \in Participants
                      /\ req[r].at = "purge_count" =>
                           req[r].participants \subseteq Participants

\* As long as nobody joins late, the participants a deletion has listed are all
\* there are, and one that purges has found each of them to have marked.
PurgesForAll ==
    ~lateJoin => \A r \in Req :
        /\ req[r].at = "purge_count" => req[r].participants = Participants
        /\ req[r].at \in {"purge_media", "purge_files"} =>
             Participants \subseteq marks \cup {req[r].user}

\* As long as deletions do not overlap, no mark is committed between a count
\* and the commit, so a deletion that does not purge is not the last.
NotTheLast ==
    ~overlapped =>
        /\ \A r, s \in Req : HoldsMark(r) /\ HoldsMark(s) => r = s
        /\ archive.status = "active" =>
             \A r \in Req : req[r].at = "delete_commit" =>
                 ~(Participants \subseteq marks \cup {req[r].user})

\* The object of an upload is there, and known to nobody else, until its row is
\* inserted.
UploadOwnsKey ==
    \A r \in Req : req[r].at = "upload_insert" =>
        /\ req[r].key \in objects
        /\ media[req[r].key] = "none"
        /\ \A s \in Req \ {r} :
             req[s].at = "upload_insert" => req[s].key # req[r].key

\* A purge deletes files that have a row, and leaves none out but those whose
\* row came later.
PurgeHasListed ==
    \A r \in Req : req[r].at = "purge_files" =>
        /\ \A k \in req[r].todo \cup req[r].done : media[k] # "none"
        /\ LiveMedia \subseteq req[r].todo \cup req[r].done \cup raced

DeletionInv ==
    /\ CreatedOnce /\ MarkedByParticipants /\ PurgesForAll /\ NotTheLast
    /\ PurgedByAll /\ PurgedWhenAllAsked

MediaInv ==
    /\ UploadOwnsKey /\ PurgeHasListed
    /\ ListedMediaExist /\ PurgedHoldsOnlyRaced

-----------------------------------------------------------------------------
(* Deletion *)

\* A list of participants that is no longer than a set of participants who have
\* marked has nobody else on it.
LEMMA CountIsSound ==
    ASSUME NEW all \in SUBSET User, NEW marked \in SUBSET all,
           Cardinality(marked) >= Cardinality(all)
    PROVE  all \subseteq marked
  <1>1. IsFiniteSet(all)
    BY UserAssumption, FS_Subset
  <1>2. IsFiniteSet(marked) /\ Cardinality(marked) <= Cardinality(all)
    BY <1>1, FS_Subset
  <1>3. Cardinality(marked) \in Nat /\ Cardinality(all) \in Nat
    BY <1>1, <1>2, FS_CardinalityType
  <1>4. Cardinality(marked) = Cardinality(all)
    BY <1>2, <1>3
  <1> QED
    BY <1>1, <1>4, FS_Subset

\* A count below the number of participants listed leaves one of them out.
LEMMA CountIsComplete ==
    ASSUME NEW listed \in SUBSET User, NEW marked \in SUBSET User,
           ~(Cardinality(marked) >= Cardinality(listed))
    PROVE  ~(listed \subseteq marked)
  <1>1. IsFiniteSet(marked) /\ IsFiniteSet(listed)
    BY UserAssumption, FS_Subset
  <1>2. Cardinality(marked) \in Nat /\ Cardinality(listed) \in Nat
    BY <1>1, FS_CardinalityType
  <1>3. listed \subseteq marked => Cardinality(listed) <= Cardinality(marked)
    BY <1>1, FS_Subset
  <1> QED
    BY <1>2, <1>3

\* The state s fits into the deletion invariant as the next one of request r.
Fits(r, s) ==
    /\ archive.status # "none" => s.at \notin Creating
    /\ archive.status = "none" => s.at \in {"idle"} \cup Creating
    /\ s.at \in Creating => req[r].at \in Creating
    /\ s.at \in Deleting => s.user \in Participants
    /\ s.at = "purge_count" => /\ s.participants \subseteq Participants
                               /\ ~lateJoin => s.participants = Participants
    /\ s.at \in {"purge_media", "purge_files"} /\ ~lateJoin =>
         Participants \subseteq marks \cup {s.user}
    /\ s.at \in Deleting \ {"delete_mark"} => HoldsMark(r)
    /\ s.at = "delete_commit" /\ ~overlapped /\ archive.status = "active" =>
         ~(Participants \subseteq marks \cup {s.user})

\* A step that changes nothing the deletion invariant is about but the state of
\* one request keeps it if the new state fits.
LEMMA OneMoves ==
    ASSUME TypeOK, DeletionInv, NEW r \in Req, NEW s, Goto(r, s), Fits(r, s),
           UNCHANGED <<archive, marks, called, lateJoin, overlapped, lifecycleVars>>
    PROVE  DeletionInv'
  <1>1. req'[r] = s /\ \A q \in Req \ {r} : req'[q] = req[q]
    BY Moves
  <1>2. Participants' = Participants
    BY DEF Participants, lifecycleVars
  <1>3. CreatedOnce'
    BY <1>1, <1>2 DEF DeletionInv, CreatedOnce, Fits, lifecycleVars
  <1>4. MarkedByParticipants'
    BY <1>1, <1>2 DEF DeletionInv, MarkedByParticipants, Fits
  <1>5. PurgesForAll'
    BY <1>1, <1>2 DEF DeletionInv, PurgesForAll, Fits
  <1>6. NotTheLast'
    <2>1. \A q \in Req : HoldsMark(q)' => HoldsMark(q)
      BY <1>1 DEF Fits, HoldsMark, Deleting
    <2> QED
      BY <1>1, <1>2, <2>1 DEF DeletionInv, NotTheLast, Fits
  <1>7. PurgedByAll' /\ PurgedWhenAllAsked'
    BY <1>2 DEF DeletionInv, PurgedByAll, PurgedWhenAllAsked
  <1> QED
    BY <1>3, <1>4, <1>5, <1>6, <1>7 DEF DeletionInv

\* A request may always stop.
LEMMA IdleFits == \A r \in Req : Fits(r, Idle)
  BY DEF Fits, Idle, Creating, Deleting

LEMMA EnvironmentKeepsDeletion ==
    ASSUME TypeOK, DeletionInv, Environment
    PROVE  DeletionInv'
  <1>1. /\ Participants \subseteq Participants'
        /\ IsFinal(status) => status' = status
        /\ UNCHANGED <<archive, marks, req, called, overlapped>>
        /\ ~lateJoin' => ~lateJoin /\ (IsFinal(status) => Participants' = Participants)
        /\ status' # "none" => Organizer \in Participants' \/ status # "none"
    BY EnvironmentSteps
  <1>2. archive.status # "none" => IsFinal(status)
    BY DEF DeletionInv, CreatedOnce
  <1>3. CreatedOnce'
    BY <1>1 DEF DeletionInv, CreatedOnce
  <1>4. MarkedByParticipants'
    BY <1>1 DEF DeletionInv, MarkedByParticipants
  <1>5. PurgesForAll'
    <2>1. ASSUME NEW r \in Req,
                 req[r].at \in {"purge_count", "purge_media", "purge_files"}
          PROVE  IsFinal(status)
      BY <1>2, <2>1 DEF DeletionInv, CreatedOnce, Creating
    <2> QED
      BY <1>1, <2>1 DEF DeletionInv, PurgesForAll
  <1>6. NotTheLast'
    BY <1>1 DEF DeletionInv, NotTheLast, HoldsMark
  <1>7. PurgedByAll' /\ PurgedWhenAllAsked'
    BY <1>1, <1>2 DEF DeletionInv, PurgedByAll, PurgedWhenAllAsked
  <1> QED
    BY <1>3, <1>4, <1>5, <1>6, <1>7 DEF DeletionInv

LEMMA CreateKeepsDeletion ==
    ASSUME TypeOK, DeletionInv, NEW r \in Req, CreateArchive(r)
    PROVE  DeletionInv'
  <1>1. CASE CreateFind(r)
    <2>1. /\ req'[r] = [at |-> "create_log"]
          /\ \A q \in Req \ {r} : req'[q] = req[q]
      BY <1>1, Moves DEF CreateFind
    <2>2. /\ UNCHANGED <<archive, marks, lateJoin, overlapped, lifecycleVars>>
          /\ IsFinal(status) /\ ~called /\ called'
      BY <1>1 DEF CreateFind
    <2>3. /\ archive.status = "none" /\ marks = {}
          /\ \A q \in Req : req[q].at = "idle"
      BY <2>2 DEF DeletionInv, CreatedOnce
    <2>4. /\ req'[r].at = "create_log"
          /\ \A q \in Req \ {r} : req'[q].at = "idle"
      BY <2>1, <2>3
    <2>5. CreatedOnce'
      BY <2>2, <2>3, <2>4 DEF DeletionInv, CreatedOnce, Creating, Participants,
         lifecycleVars
    <2> QED
      BY <2>2, <2>3, <2>4, <2>5
         DEF DeletionInv, MarkedByParticipants, PurgesForAll, NotTheLast, Deleting,
             HoldsMark, PurgedByAll, PurgedWhenAllAsked, lifecycleVars
  <1>2. CASE CreateLog(r)
    <2>1. archive.status = "none"
      BY <1>2 DEF CreateLog, DeletionInv, CreatedOnce, Creating
    <2>2. Fits(r, [at |-> "create_insert", log |-> Reverse(messages)])
      BY <1>2, <2>1 DEF CreateLog, Fits, Creating, Deleting
    <2> QED
      BY <1>2, <2>2, OneMoves DEF CreateLog, history
  <1>3. CASE CreateInsert(r)
    <2>1. /\ req'[r] = Idle
          /\ \A q \in Req \ {r} : req'[q] = req[q]
      BY <1>3, Moves DEF CreateInsert, Finish
    <2>2. /\ UNCHANGED <<marks, called, lateJoin, overlapped, lifecycleVars>>
          /\ archive'.status = "active"
      BY <1>3 DEF CreateInsert, history
    <2>3. archive.status = "none" /\ called
      BY <1>3 DEF CreateInsert, DeletionInv, CreatedOnce, Creating
    <2>4. \A q \in Req : req'[q].at = "idle"
      BY <1>3, <2>1, <2>3, IdleIsRequest
         DEF CreateInsert, DeletionInv, CreatedOnce, Creating
    <2>5. Participants' = Participants /\ Organizer \in Participants /\ marks = {}
      BY <2>2, <2>3 DEF Participants, lifecycleVars, DeletionInv, CreatedOnce, IsFinal
    <2>6. CreatedOnce'
      BY <2>2, <2>3, <2>4, <2>5 DEF DeletionInv, CreatedOnce, Creating, lifecycleVars
    <2> QED
      BY <2>2, <2>4, <2>5, <2>6
         DEF DeletionInv, MarkedByParticipants, PurgesForAll, NotTheLast, Deleting,
             HoldsMark, PurgedByAll, PurgedWhenAllAsked
  <1> QED
    BY <1>1, <1>2, <1>3 DEF CreateArchive

LEMMA UploadKeepsDeletion ==
    ASSUME TypeOK, DeletionInv, NEW r \in Req, Upload(r)
    PROVE  DeletionInv'
  <1>1. ASSUME NEW u \in User, UploadFind(r, u)
        PROVE  DeletionInv'
    <2>1. Fits(r, [at |-> "upload_member", user |-> u])
      BY <1>1 DEF UploadFind, Fits, Creating, Deleting
    <2> QED
      BY <1>1, <2>1, OneMoves DEF UploadFind, history
  <1>2. CASE UploadCheckMember(r)
    <2>1. archive.status # "none"
      BY <1>2 DEF UploadCheckMember, DeletionInv, CreatedOnce, Creating
    <2>2. Fits(r, [at |-> "upload_store", user |-> req[r].user])
      BY <2>1 DEF Fits, Creating, Deleting
    <2>3. \E s : Goto(r, s) /\ Fits(r, s)
      BY <1>2, <2>2, UserStates, IdleFits DEF UploadCheckMember, Finish
    <2> QED
      BY <1>2, <2>3, OneMoves DEF UploadCheckMember, history
  <1>3. ASSUME NEW k \in Key, UploadStore(r, k)
        PROVE  DeletionInv'
    <2>1. archive.status # "none"
      BY <1>3 DEF UploadStore, DeletionInv, CreatedOnce, Creating
    <2>2. Fits(r, [at |-> "upload_insert", key |-> k])
      BY <2>1 DEF Fits, Creating, Deleting
    <2> QED
      BY <1>3, <2>2, OneMoves DEF UploadStore, history
  <1>4. CASE UploadInsert(r)
    BY <1>4, IdleFits, OneMoves DEF UploadInsert, Finish
  <1> QED
    BY <1>1, <1>2, <1>3, <1>4 DEF Upload

LEMMA AbandonKeepsDeletion ==
    ASSUME TypeOK, DeletionInv, NEW r \in Req, Abandon(r)
    PROVE  DeletionInv'
  BY IdleFits, OneMoves DEF Abandon, Finish

LEMMA MarkKeepsDeletion ==
    ASSUME TypeOK, DeletionInv, NEW r \in Req, DeleteMark(r)
    PROVE  DeletionInv'
  <1>1. CASE req[r].user \in marks
    BY <1>1, IdleFits, OneMoves DEF DeleteMark, Finish
  <1>2. CASE req[r].user \notin marks
    <2>1. /\ req[r].at = "delete_mark"
          /\ UNCHANGED <<archive, marks, called, lateJoin, lifecycleVars>>
          /\ overlapped' = (overlapped \/ \E s \in Req : HoldsMark(s))
      BY <1>2 DEF DeleteMark
    <2>2. /\ req'[r].at = "purge_find" /\ req'[r].user = req[r].user
          /\ \A q \in Req \ {r} : req'[q] = req[q]
      <3>1. Goto(r, [at |-> "purge_find", user |-> req[r].user])
        BY <1>2, UserStates DEF DeleteMark
      <3> QED
        BY <3>1, Moves
    <2>3. Participants' = Participants
      BY <2>1 DEF Participants, lifecycleVars
    <2>4. archive.status # "none" /\ req[r].user \in Participants
      BY <2>1 DEF DeletionInv, CreatedOnce, MarkedByParticipants, Creating, Deleting
    <2>5. CreatedOnce'
      BY <2>1, <2>2, <2>3, <2>4 DEF DeletionInv, CreatedOnce, Creating, lifecycleVars
    <2>6. MarkedByParticipants'
      BY <2>1, <2>2, <2>3, <2>4 DEF DeletionInv, MarkedByParticipants, Deleting
    <2>7. PurgesForAll'
      BY <2>1, <2>2, <2>3 DEF DeletionInv, PurgesForAll
    <2>8. NotTheLast'
      <3>1. ASSUME ~overlapped'
            PROVE  ~overlapped /\ \A q \in Req \ {r} : ~HoldsMark(q)'
        BY <2>1, <2>2, <3>1 DEF TypeOK, HoldsMark
      <3> QED
        BY <2>1, <2>2, <2>3, <3>1 DEF NotTheLast, HoldsMark
    <2>9. PurgedByAll' /\ PurgedWhenAllAsked'
      BY <2>1, <2>3 DEF DeletionInv, PurgedByAll, PurgedWhenAllAsked
    <2> QED
      BY <2>5, <2>6, <2>7, <2>8, <2>9 DEF DeletionInv
  <1> QED
    BY <1>1, <1>2

\* The commit of a deletion, which adds the mark and may purge.
LEMMA CommitKeepsDeletion ==
    ASSUME TypeOK, DeletionInv, NEW r \in Req, PurgeCommit(r) \/ DeleteCommit(r)
    PROVE  DeletionInv'
  <1>1. /\ req[r].at \in {"purge_files", "delete_commit"}
        /\ marks' = marks \cup {req[r].user}
        /\ UNCHANGED <<called, lateJoin, overlapped, lifecycleVars>>
    BY DEF PurgeCommit, DeleteCommit, history
  <1>2. req'[r].at = "idle" /\ \A q \in Req \ {r} : req'[q] = req[q]
    BY Moves, IdleIsRequest DEF PurgeCommit, DeleteCommit, Finish
  <1>3. Participants' = Participants
    BY <1>1 DEF Participants, lifecycleVars
  <1>4. archive.status # "none" /\ req[r].user \in Participants
    BY <1>1 DEF DeletionInv, CreatedOnce, MarkedByParticipants, Creating, Deleting
  <1>5. \/ req[r].at = "purge_files" /\ archive'.status = "purged"
        \/ req[r].at = "delete_commit" /\ archive' = archive
    BY DEF PurgeCommit, DeleteCommit, Purged
  <1>6. CreatedOnce'
    BY <1>1, <1>2, <1>3, <1>4, <1>5 DEF DeletionInv, CreatedOnce, Creating, lifecycleVars
  <1>7. MarkedByParticipants'
    BY <1>1, <1>2, <1>3, <1>4 DEF DeletionInv, MarkedByParticipants, Deleting
  <1>8. PurgesForAll'
    BY <1>1, <1>2, <1>3 DEF DeletionInv, PurgesForAll
  <1>9. NotTheLast'
    <2>1. ASSUME ~overlapped
          PROVE  \A q \in Req : ~HoldsMark(q)'
      BY <1>1, <1>2, <2>1 DEF DeletionInv, NotTheLast, HoldsMark
    <2> QED
      BY <1>1, <2>1 DEF NotTheLast, HoldsMark
  <1>10. PurgedByAll'
    BY <1>1, <1>3, <1>5 DEF DeletionInv, PurgedByAll, PurgesForAll
  <1>11. PurgedWhenAllAsked'
    BY <1>1, <1>3, <1>5 DEF DeletionInv, PurgedWhenAllAsked, NotTheLast
  <1> QED
    BY <1>6, <1>7, <1>8, <1>9, <1>10, <1>11 DEF DeletionInv

\* The count decides rightly whether the deletion is the last.
LEMMA CountFits ==
    ASSUME TypeOK, DeletionInv, NEW r \in Req, PurgeCount(r)
    PROVE  \E s : Goto(r, s) /\ Fits(r, s)
  <1>1. /\ req[r].at = "purge_count"
        /\ req[r].participants \subseteq Participants
        /\ req[r].user \in Participants /\ marks \subseteq Participants
        /\ ~lateJoin => req[r].participants = Participants
        /\ archive.status # "none"
    BY DEF PurgeCount, DeletionInv, CreatedOnce, MarkedByParticipants, PurgesForAll,
           Creating, Deleting
  <1>2. Participants \subseteq User
    BY DEF Participants
  <1> DEFINE marked == marks \cup {req[r].user}
             listed == req[r].participants
  <1>3. marked \in SUBSET Participants /\ listed \in SUBSET Participants
    BY <1>1
  <1>4. marked \in SUBSET User /\ listed \in SUBSET User
    BY <1>2, <1>3
  <1>5. CASE Cardinality(marked) >= Cardinality(listed)
    <2>1. ~lateJoin => Participants \subseteq marked
      <3>1. SUFFICES ASSUME ~lateJoin PROVE Participants \subseteq marked
        OBVIOUS
      <3>2. listed = Participants
        BY <1>1, <3>1
      <3> QED
        BY <1>2, <1>3, <1>5, <3>2, CountIsSound
    <2>2. Goto(r, [at |-> "purge_media", user |-> req[r].user])
      BY <1>5 DEF PurgeCount, Unanimous
    <2>3. Fits(r, [at |-> "purge_media", user |-> req[r].user])
      BY <1>1, <2>1 DEF Fits, Creating, Deleting, HoldsMark
    <2> QED
      BY <2>2, <2>3
  <1>6. CASE ~(Cardinality(marked) >= Cardinality(listed))
    <2>1. ~(listed \subseteq marked)
      BY <1>4, <1>6, CountIsComplete
    <2>2. ~(Participants \subseteq marked)
      BY <1>3, <2>1
    <2>3. Goto(r, [at |-> "delete_commit", user |-> req[r].user])
      BY <1>6 DEF PurgeCount, Unanimous
    <2>4. Fits(r, [at |-> "delete_commit", user |-> req[r].user])
      BY <1>1, <2>2 DEF Fits, Creating, Deleting, HoldsMark
    <2> QED
      BY <2>3, <2>4
  <1> QED
    BY <1>5, <1>6

LEMMA DeleteKeepsDeletion ==
    ASSUME TypeOK, DeletionInv, NEW r \in Req, Delete(r)
    PROVE  DeletionInv'
  <1>1. ASSUME NEW u \in User, DeleteFind(r, u)
        PROVE  DeletionInv'
    <2>1. Fits(r, [at |-> "delete_member", user |-> u])
      BY <1>1 DEF DeleteFind, Fits, Creating, Deleting
    <2> QED
      BY <1>1, <2>1, OneMoves DEF DeleteFind, history
  <1>2. CASE DeleteCheckMember(r)
    <2>1. archive.status # "none"
      BY <1>2 DEF DeleteCheckMember, DeletionInv, CreatedOnce, Creating
    <2>2. IsParticipant(req[r].user) =>
            Fits(r, [at |-> "delete_mark", user |-> req[r].user])
      BY <2>1 DEF Fits, Creating, Deleting, IsParticipant
    <2>3. \E s : Goto(r, s) /\ Fits(r, s)
      BY <1>2, <2>2, UserStates, IdleFits DEF DeleteCheckMember, Finish
    <2> QED
      BY <1>2, <2>3, OneMoves DEF DeleteCheckMember, history
  <1>3. CASE PurgeFind(r)
    <2>1. archive.status # "none" /\ req[r].user \in Participants /\ HoldsMark(r)
      BY <1>3 DEF PurgeFind, DeletionInv, CreatedOnce, MarkedByParticipants, Creating,
         Deleting, HoldsMark
    <2>2. /\ archive.status = "purged" =>
               Fits(r, [at |-> "delete_commit", user |-> req[r].user])
          /\ Fits(r, [at |-> "purge_list", user |-> req[r].user])
      BY <2>1 DEF Fits, Creating, Deleting
    <2>3. \E s : Goto(r, s) /\ Fits(r, s)
      BY <1>3, <2>2, UserStates DEF PurgeFind
    <2> QED
      BY <1>3, <2>3, OneMoves DEF PurgeFind, history
  <1>4. CASE PurgeList(r)
    <2>1. archive.status # "none" /\ req[r].user \in Participants /\ HoldsMark(r)
      BY <1>4 DEF PurgeList, DeletionInv, CreatedOnce, MarkedByParticipants, Creating,
         Deleting, HoldsMark
    <2>2. Fits(r, [at |-> "purge_count", user |-> req[r].user,
                   participants |-> Participants])
      BY <2>1 DEF Fits, Creating, Deleting
    <2> QED
      BY <1>4, <2>2, OneMoves DEF PurgeList, history
  <1>5. CASE PurgeCount(r)
    BY <1>5, CountFits, OneMoves DEF PurgeCount, history
  <1>6. CASE PurgeMedia(r)
    <2>1. /\ archive.status # "none" /\ req[r].user \in Participants /\ HoldsMark(r)
          /\ ~lateJoin => Participants \subseteq marks \cup {req[r].user}
      BY <1>6 DEF PurgeMedia, DeletionInv, CreatedOnce, MarkedByParticipants,
         PurgesForAll, Creating, Deleting, HoldsMark
    <2>2. Fits(r, [at |-> "purge_files", user |-> req[r].user,
                   todo |-> LiveMedia, done |-> {}])
      BY <2>1 DEF Fits, Creating, Deleting
    <2> QED
      BY <1>6, <2>2, OneMoves DEF PurgeMedia, history
  <1>7. ASSUME NEW k \in Key, PurgeFile(r, k)
        PROVE  DeletionInv'
    <2>1. /\ archive.status # "none" /\ req[r].user \in Participants /\ HoldsMark(r)
          /\ ~lateJoin => Participants \subseteq marks \cup {req[r].user}
      BY <1>7 DEF PurgeFile, DeletionInv, CreatedOnce, MarkedByParticipants,
         PurgesForAll, Creating, Deleting, HoldsMark
    <2>2. req[r] \in [at : {"purge_files"}, user : User, todo : SUBSET Key,
                      done : SUBSET Key]
      BY <1>7, Fields DEF PurgeFile, Request
    <2> DEFINE s == [req[r] EXCEPT !.todo = @ \ {k}, !.done = @ \cup {k}]
    <2>3. s.at = "purge_files" /\ s.user = req[r].user
      BY <2>2
    <2>4. Fits(r, s)
      BY <2>1, <2>3 DEF Fits, Creating, Deleting
    <2> QED
      BY <1>7, <2>4, OneMoves DEF PurgeFile, history
  <1> QED
    BY <1>1, <1>2, <1>3, <1>4, <1>5, <1>6, <1>7, MarkKeepsDeletion,
       CommitKeepsDeletion DEF Delete

\* The deletion invariant holds: one creation, marks by participants only, and a
\* count that is right as long as nobody joins late and deletions do not overlap.
THEOREM DeletionInvariant == Spec => [](TypeOK /\ DeletionInv)
<1>1. Init => DeletionInv
  <2> SUFFICES ASSUME Init PROVE DeletionInv
    OBVIOUS
  <2>1. /\ archive.status = "none" /\ marks = {} /\ called = FALSE
        /\ status = "none" /\ \A r \in Req : req[r].at = "idle"
    BY DEF Init, LifecycleInit, Idle
  <2>2. CreatedOnce
    BY <2>1 DEF CreatedOnce, Creating
  <2> QED
    BY <2>1, <2>2 DEF DeletionInv, MarkedByParticipants, PurgesForAll, NotTheLast,
       Deleting, HoldsMark, PurgedByAll, PurgedWhenAllAsked
<1>2. TypeOK /\ DeletionInv /\ [Next]_vars => DeletionInv'
  <2> SUFFICES ASSUME TypeOK, DeletionInv, [Next]_vars PROVE DeletionInv'
    OBVIOUS
  <2>1. CASE UNCHANGED vars
    BY <2>1 DEF vars, archiveVars, lifecycleVars, DeletionInv, CreatedOnce,
       MarkedByParticipants, PurgesForAll, NotTheLast, HoldsMark, PurgedByAll,
       PurgedWhenAllAsked, Participants
  <2> QED
    BY <2>1, EnvironmentKeepsDeletion, CreateKeepsDeletion, DeleteKeepsDeletion,
       UploadKeepsDeletion, AbandonKeepsDeletion DEF Next
<1> QED
  BY <1>1, <1>2, TypeCorrect, PTL DEF Spec

\* Nothing is purged against the will of a participant: an archive is purged
\* only when each of them has asked for it, unless somebody joined the hangout
\* after its end.
THEOREM PurgeIsUnanimous == Spec => []PurgedByAll
<1>1. DeletionInv => PurgedByAll
  BY DEF DeletionInv
<1> QED
  BY <1>1, DeletionInvariant, PTL

\* The last participant to ask finds the archive purged, unless two deletions
\* overlapped.
THEOREM LastOnePurges == Spec => []PurgedWhenAllAsked
<1>1. DeletionInv => PurgedWhenAllAsked
  BY DEF DeletionInv
<1> QED
  BY <1>1, DeletionInvariant, PTL

-----------------------------------------------------------------------------
(* The media *)

mediaState == <<archive, media, objects, aborted, raced>>

\* A request that has nothing to do with files, before and after the step.
LEMMA OtherMoves ==
    ASSUME TypeOK, MediaInv, NEW r \in Req, NEW s, Goto(r, s),
           req[r].at # "purge_files" \/ aborted,
           s.at \notin {"purge_files", "upload_insert"},
           UNCHANGED mediaState
    PROVE  MediaInv'
  <1>1. /\ req'[r] = s /\ \A q \in Req \ {r} : req'[q] = req[q]
        /\ UNCHANGED <<archive, media, objects, aborted, raced>>
    BY Moves DEF mediaState
  <1>2. LiveMedia' = LiveMedia
    BY <1>1 DEF LiveMedia
  <1>3. UploadOwnsKey'
    BY <1>1 DEF MediaInv, UploadOwnsKey
  <1>4. PurgeHasListed'
    BY <1>1, <1>2 DEF MediaInv, PurgeHasListed
  <1>5. ListedMediaExist' /\ PurgedHoldsOnlyRaced'
    BY <1>1, <1>2 DEF MediaInv, ListedMediaExist, PurgedHoldsOnlyRaced
  <1> QED
    BY <1>3, <1>4, <1>5 DEF MediaInv

LEMMA CreateKeepsMedia ==
    ASSUME TypeOK, MediaInv, NEW r \in Req, CreateArchive(r)
    PROVE  MediaInv'
  <1>1. CASE CreateFind(r) \/ CreateLog(r)
    <2>1. \E s : Goto(r, s) /\ s.at \in {"create_log", "create_insert"}
      BY <1>1 DEF CreateFind, CreateLog
    <2>2. UNCHANGED mediaState /\ req[r].at # "purge_files"
      BY <1>1, IdleIsRequest DEF CreateFind, CreateLog, mediaState, history
    <2> QED
      BY <2>1, <2>2, OtherMoves
  <1>2. CASE CreateInsert(r)
    <2>1. /\ req'[r].at = "idle" /\ \A q \in Req \ {r} : req'[q] = req[q]
          /\ req[r].at = "create_insert"
          /\ UNCHANGED <<media, objects, aborted, raced>>
          /\ archive'.status = "active"
      BY <1>2, Moves, IdleIsRequest DEF CreateInsert, Finish, history
    <2>2. LiveMedia' = LiveMedia
      BY <2>1 DEF LiveMedia
    <2>3. UploadOwnsKey' /\ PurgeHasListed'
      BY <2>1, <2>2 DEF MediaInv, UploadOwnsKey, PurgeHasListed
    <2>4. ListedMediaExist' /\ PurgedHoldsOnlyRaced'
      BY <2>1, <2>2 DEF MediaInv, ListedMediaExist, PurgedHoldsOnlyRaced
    <2> QED
      BY <2>3, <2>4 DEF MediaInv
  <1> QED
    BY <1>1, <1>2 DEF CreateArchive

\* A purge starts with every live file on its list.
LEMMA ListKeepsMedia ==
    ASSUME TypeOK, MediaInv, NEW r \in Req, PurgeMedia(r)
    PROVE  MediaInv'
  <1>1. /\ req[r].at = "purge_media"
        /\ req'[r] = [at |-> "purge_files", user |-> req[r].user,
                      todo |-> LiveMedia, done |-> {}]
        /\ \A q \in Req \ {r} : req'[q] = req[q]
        /\ UNCHANGED <<archive, media, objects, aborted, raced>>
    BY Moves DEF PurgeMedia, history
  <1>2. req'[r].at = "purge_files" /\ req'[r].todo = LiveMedia /\ req'[r].done = {}
    BY <1>1
  <1>3. LiveMedia' = LiveMedia
    BY <1>1 DEF LiveMedia
  <1>4. UploadOwnsKey'
    BY <1>1, <1>2 DEF MediaInv, UploadOwnsKey
  <1>5. PurgeHasListed'
    <2>1. \A k \in LiveMedia : media[k] # "none"
      BY DEF LiveMedia
    <2> QED
      BY <1>1, <1>2, <1>3, <2>1 DEF MediaInv, PurgeHasListed
  <1>6. ListedMediaExist' /\ PurgedHoldsOnlyRaced'
    BY <1>1, <1>3 DEF MediaInv, ListedMediaExist, PurgedHoldsOnlyRaced
  <1> QED
    BY <1>4, <1>5, <1>6 DEF MediaInv

\* A file that a purge has deleted is one it has listed.
LEMMA FileKeepsMedia ==
    ASSUME TypeOK, MediaInv, NEW r \in Req, NEW k \in Key, PurgeFile(r, k)
    PROVE  MediaInv'
  <1>1. /\ req[r].at = "purge_files" /\ k \in req[r].todo
        /\ objects' = objects \ {k}
        /\ UNCHANGED <<archive, media, aborted, raced>>
    BY DEF PurgeFile, history
  <1>2. /\ req'[r].at = "purge_files"
        /\ req'[r].todo = req[r].todo \ {k}
        /\ req'[r].done = req[r].done \cup {k}
        /\ \A q \in Req \ {r} : req'[q] = req[q]
    <2>1. req[r] \in [at : {"purge_files"}, user : User, todo : SUBSET Key,
                      done : SUBSET Key]
      BY <1>1, Fields DEF Request
    <2>2. req'[r] = [req[r] EXCEPT !.todo = @ \ {k}, !.done = @ \cup {k}]
      BY Moves DEF PurgeFile
    <2>3. \A q \in Req \ {r} : req'[q] = req[q]
      BY Moves DEF PurgeFile
    <2> QED
      BY <2>1, <2>2, <2>3
  <1>3. LiveMedia' = LiveMedia
    BY <1>1 DEF LiveMedia
  <1>4. media[k] # "none"
    BY <1>1 DEF MediaInv, PurgeHasListed
  <1>5. UploadOwnsKey'
    BY <1>1, <1>2, <1>4 DEF MediaInv, UploadOwnsKey
  <1>6. PurgeHasListed'
    <2>1. ASSUME NEW q \in Req, req'[q].at = "purge_files"
          PROVE  req[q].at = "purge_files" /\ req'[q].todo \cup req'[q].done =
                                              req[q].todo \cup req[q].done
      BY <1>1, <1>2, <2>1
    <2> QED
      BY <1>1, <1>3, <2>1 DEF MediaInv, PurgeHasListed
  <1>7. ListedMediaExist'
    BY <1>1, <1>2, <1>3 DEF MediaInv, ListedMediaExist
  <1>8. PurgedHoldsOnlyRaced'
    BY <1>1, <1>3 DEF MediaInv, PurgedHoldsOnlyRaced
  <1> QED
    BY <1>5, <1>6, <1>7, <1>8 DEF MediaInv

\* The commit of a purge soft-deletes the rows of exactly the files that it has
\* deleted, and leaves none of those that it has listed.
LEMMA PurgeKeepsMedia ==
    ASSUME TypeOK, MediaInv, NEW r \in Req, PurgeCommit(r)
    PROVE  MediaInv'
  <1>1. /\ req[r].at = "purge_files" /\ req[r].todo = {}
        /\ UNCHANGED <<objects, aborted, raced>>
    BY DEF PurgeCommit, history
  <1>2. req'[r].at = "idle" /\ \A q \in Req \ {r} : req'[q] = req[q]
    BY Moves, IdleIsRequest DEF PurgeCommit, Finish
  <1>3. \A k \in Key : media'[k] = IF k \in req[r].done THEN "deleted" ELSE media[k]
    BY DEF PurgeCommit, SoftDelete
  <1>4. LiveMedia' = LiveMedia \ req[r].done
    BY <1>3 DEF LiveMedia
  <1>5. \A k \in req[r].done : media[k] # "none"
    BY <1>1 DEF MediaInv, PurgeHasListed
  <1>6. UploadOwnsKey'
    <2>1. ASSUME NEW q \in Req, req'[q].at = "upload_insert"
          PROVE  /\ req[q].at = "upload_insert" /\ req'[q] = req[q]
                 /\ req[q].key \in Key /\ media'[req[q].key] = "none"
      BY <1>1, <1>2, <1>3, <1>5, <2>1, Fields DEF MediaInv, UploadOwnsKey
    <2> QED
      BY <1>1, <2>1 DEF MediaInv, UploadOwnsKey
  <1>7. PurgeHasListed'
    <2>1. ASSUME NEW q \in Req, req'[q].at = "purge_files"
          PROVE  /\ req[q].at = "purge_files" /\ req'[q] = req[q]
                 /\ req[q].todo \subseteq Key /\ req[q].done \subseteq Key
      BY <1>1, <1>2, <2>1, Fields
    <2> QED
      BY <1>1, <1>3, <1>4, <2>1 DEF MediaInv, PurgeHasListed
  <1>8. ListedMediaExist'
    BY <1>1, <1>2, <1>4 DEF MediaInv, ListedMediaExist
  <1>9. PurgedHoldsOnlyRaced'
    BY <1>1, <1>4 DEF MediaInv, PurgedHoldsOnlyRaced, PurgeHasListed
  <1> QED
    BY <1>6, <1>7, <1>8, <1>9 DEF MediaInv

LEMMA DeleteKeepsMedia ==
    ASSUME TypeOK, MediaInv, NEW r \in Req, Delete(r)
    PROVE  MediaInv'
  <1>1. CASE \/ \E u \in User : DeleteFind(r, u)
             \/ DeleteCheckMember(r) \/ DeleteMark(r) \/ PurgeFind(r)
             \/ PurgeList(r) \/ PurgeCount(r) \/ DeleteCommit(r)
    <2>1. UNCHANGED mediaState /\ req[r].at # "purge_files"
      BY <1>1, IdleIsRequest DEF DeleteFind, DeleteCheckMember, DeleteMark, PurgeFind,
         PurgeList, PurgeCount, DeleteCommit, mediaState, history
    <2>2. CASE \/ \E u \in User : DeleteFind(r, u)
               \/ PurgeList(r) \/ PurgeCount(r) \/ DeleteCommit(r)
      <3>1. \E s : Goto(r, s) /\ s.at \notin {"purge_files", "upload_insert"}
        <4>1. CASE \E u \in User : DeleteFind(r, u)
          BY <4>1 DEF DeleteFind
        <4>2. CASE PurgeList(r)
          BY <4>2 DEF PurgeList
        <4>3. CASE PurgeCount(r)
          BY <4>3 DEF PurgeCount
        <4>4. CASE DeleteCommit(r)
          BY <4>4, IdleIsRequest DEF DeleteCommit, Finish
        <4> QED
          BY <2>2, <4>1, <4>2, <4>3, <4>4
      <3> QED
        BY <2>1, <3>1, OtherMoves
    <2>3. CASE DeleteCheckMember(r) \/ DeleteMark(r) \/ PurgeFind(r)
      <3>1. \A at \in {"delete_mark", "purge_find", "purge_list", "delete_commit"} :
              [req[r] EXCEPT !.at = at] = [at |-> at, user |-> req[r].user]
        BY <2>3, UserStates DEF DeleteCheckMember, DeleteMark, PurgeFind
      <3>2. \/ Goto(r, Idle)
            \/ \E at \in {"delete_mark", "purge_find", "purge_list", "delete_commit"} :
                 Goto(r, [req[r] EXCEPT !.at = at])
        BY <2>3 DEF DeleteCheckMember, DeleteMark, PurgeFind, Finish
      <3>3. \/ Goto(r, Idle)
            \/ \E at \in {"delete_mark", "purge_find", "purge_list", "delete_commit"} :
                 Goto(r, [at |-> at, user |-> req[r].user])
        BY <3>1, <3>2
      <3>4. \E s : Goto(r, s) /\ s.at \notin {"purge_files", "upload_insert"}
        BY <3>3, IdleIsRequest
      <3> QED
        BY <2>1, <3>4, OtherMoves
    <2> QED
      BY <1>1, <2>2, <2>3
  <1> QED
    BY <1>1, ListKeepsMedia, FileKeepsMedia, PurgeKeepsMedia DEF Delete

\* The key of a new object belongs to no other upload.
LEMMA StoreKeepsMedia ==
    ASSUME TypeOK, MediaInv, NEW r \in Req, NEW k \in Key, UploadStore(r, k)
    PROVE  MediaInv'
  <1>1. /\ req[r].at = "upload_store" /\ k \notin objects /\ media[k] = "none"
        /\ objects' = objects \cup {k}
        /\ UNCHANGED <<archive, media, aborted, raced>>
    BY DEF UploadStore, history
  <1>2. /\ req'[r].at = "upload_insert" /\ req'[r].key = k
        /\ \A q \in Req \ {r} : req'[q] = req[q]
    BY Moves DEF UploadStore
  <1>3. LiveMedia' = LiveMedia
    BY <1>1 DEF LiveMedia
  <1>4. UploadOwnsKey'
    BY <1>1, <1>2 DEF MediaInv, UploadOwnsKey
  <1>5. PurgeHasListed'
    BY <1>1, <1>2, <1>3 DEF MediaInv, PurgeHasListed
  <1>6. ListedMediaExist' /\ PurgedHoldsOnlyRaced'
    BY <1>1, <1>2, <1>3 DEF MediaInv, ListedMediaExist, PurgedHoldsOnlyRaced
  <1> QED
    BY <1>4, <1>5, <1>6 DEF MediaInv

\* The row of an upload is that of an object that exists, and of a file that no
\* purge under way has listed.
LEMMA InsertKeepsMedia ==
    ASSUME TypeOK, MediaInv, NEW r \in Req, UploadInsert(r)
    PROVE  MediaInv'
  <1> DEFINE key == req[r].key
  <1>1. /\ req[r].at = "upload_insert"
        /\ media' = [media EXCEPT ![key] = "live"]
        /\ UNCHANGED <<archive, objects, aborted>>
        /\ raced \subseteq raced'
        /\ (\/ archive.status = "purged"
            \/ \E q \in Req : req[q].at = "purge_files") => key \in raced'
    BY DEF UploadInsert
  <1>2. req'[r].at = "idle" /\ \A q \in Req \ {r} : req'[q] = req[q]
    BY Moves, IdleIsRequest DEF UploadInsert, Finish
  <1>3. key \in Key /\ key \in objects
    BY <1>1, Fields DEF MediaInv, UploadOwnsKey
  <1>4. \A k \in Key : media'[k] = IF k = key THEN "live" ELSE media[k]
    BY <1>1, <1>3 DEF TypeOK
  <1>5. LiveMedia' = LiveMedia \cup {key}
    BY <1>3, <1>4 DEF LiveMedia
  <1>6. UploadOwnsKey'
    <2>1. ASSUME NEW q \in Req, req'[q].at = "upload_insert"
          PROVE  /\ req[q].at = "upload_insert" /\ req'[q] = req[q]
                 /\ req[q].key \in Key /\ req[q].key # key
      BY <1>1, <1>2, <2>1, Fields DEF MediaInv, UploadOwnsKey
    <2> QED
      BY <1>1, <1>4, <2>1 DEF MediaInv, UploadOwnsKey
  <1>7. PurgeHasListed'
    <2>1. ASSUME NEW q \in Req, req'[q].at = "purge_files"
          PROVE  /\ req[q].at = "purge_files" /\ req'[q] = req[q]
                 /\ req[q].todo \subseteq Key /\ req[q].done \subseteq Key
                 /\ key \in raced'
      BY <1>1, <1>2, <2>1, Fields
    <2> QED
      BY <1>1, <1>4, <1>5, <2>1 DEF MediaInv, PurgeHasListed
  <1>8. ListedMediaExist'
    BY <1>1, <1>2, <1>3, <1>5 DEF MediaInv, ListedMediaExist
  <1>9. PurgedHoldsOnlyRaced'
    BY <1>1, <1>5 DEF MediaInv, PurgedHoldsOnlyRaced
  <1> QED
    BY <1>6, <1>7, <1>8, <1>9 DEF MediaInv

LEMMA UploadKeepsMedia ==
    ASSUME TypeOK, MediaInv, NEW r \in Req, Upload(r)
    PROVE  MediaInv'
  <1>1. CASE UploadCheckMember(r) \/ \E u \in User : UploadFind(r, u)
    <2>1. UNCHANGED mediaState /\ req[r].at # "purge_files"
      BY <1>1, IdleIsRequest DEF UploadFind, UploadCheckMember, mediaState, history
    <2>2. \E s : Goto(r, s) /\ s.at \notin {"purge_files", "upload_insert"}
      <3>1. CASE \E u \in User : UploadFind(r, u)
        BY <3>1 DEF UploadFind
      <3>2. CASE UploadCheckMember(r)
        <4>1. Goto(r, Idle) \/ Goto(r, [at |-> "upload_store", user |-> req[r].user])
          BY <3>2, UserStates DEF UploadCheckMember, Finish
        <4> QED
          BY <4>1, IdleIsRequest
      <3> QED
        BY <1>1, <3>1, <3>2
    <2> QED
      BY <2>1, <2>2, OtherMoves
  <1> QED
    BY <1>1, StoreKeepsMedia, InsertKeepsMedia DEF Upload

\* A purge that is rolled back before it has deleted a file leaves all files.
LEMMA AbandonKeepsMedia ==
    ASSUME TypeOK, MediaInv, NEW r \in Req, Abandon(r)
    PROVE  MediaInv'
  <1>1. /\ UNCHANGED <<archive, media, objects, raced>>
        /\ aborted \in BOOLEAN
        /\ aborted' = (aborted \/ (req[r].at = "purge_files" /\ req[r].done # {}))
    BY DEF Abandon, TypeOK
  <1>2. req'[r].at = "idle" /\ \A q \in Req \ {r} : req'[q] = req[q]
    BY Moves, IdleIsRequest DEF Abandon, Finish
  <1>3. LiveMedia' = LiveMedia
    BY <1>1 DEF LiveMedia
  <1>4. UploadOwnsKey' /\ PurgeHasListed' /\ PurgedHoldsOnlyRaced'
    BY <1>1, <1>2, <1>3 DEF MediaInv, UploadOwnsKey, PurgeHasListed, PurgedHoldsOnlyRaced
  <1>5. ListedMediaExist'
    BY <1>1, <1>2, <1>3 DEF MediaInv, ListedMediaExist
  <1> QED
    BY <1>4, <1>5 DEF MediaInv

\* The media invariant holds: what a purge deletes it has listed, and what it
\* has listed is all there is but for uploads that came later.
THEOREM MediaInvariant == Spec => []MediaInv
<1>1. Init => MediaInv
  <2> SUFFICES ASSUME Init PROVE MediaInv
    OBVIOUS
  <2>1. LiveMedia = {} /\ \A r \in Req : req[r].at = "idle"
    BY DEF Init, Idle, LiveMedia
  <2> QED
    BY <2>1 DEF MediaInv, UploadOwnsKey, PurgeHasListed, ListedMediaExist,
       PurgedHoldsOnlyRaced
<1>2. TypeOK /\ MediaInv /\ [Next]_vars => MediaInv'
  <2> SUFFICES ASSUME TypeOK, MediaInv, [Next]_vars PROVE MediaInv'
    OBVIOUS
  <2>1. CASE Environment \/ UNCHANGED vars
    <3>1. UNCHANGED <<archive, media, objects, req, aborted, raced>>
      BY <2>1 DEF Environment, vars, archiveVars
    <3> QED
      BY <3>1 DEF MediaInv, UploadOwnsKey, PurgeHasListed, ListedMediaExist,
         PurgedHoldsOnlyRaced, LiveMedia
  <2> QED
    BY <2>1, CreateKeepsMedia, DeleteKeepsMedia, UploadKeepsMedia, AbandonKeepsMedia
       DEF Next
<1> QED
  BY <1>1, <1>2, TypeCorrect, PTL DEF Spec

\* Every file an archive lists can be opened, but for a purge under way or
\* rolled back half-way.
THEOREM ListedFilesExist == Spec => []ListedMediaExist
<1>1. MediaInv => ListedMediaExist
  BY DEF MediaInv
<1> QED
  BY <1>1, MediaInvariant, PTL

\* A purge leaves no file but those of uploads that overtook it.
THEOREM PurgeLeavesOnlyRaced == Spec => []PurgedHoldsOnlyRaced
<1>1. MediaInv => PurgedHoldsOnlyRaced
  BY DEF MediaInv
<1> QED
  BY <1>1, MediaInvariant, PTL

-----------------------------------------------------------------------------
(* The meetup pin: types *)

\* What a request on the pin holds in each of its states.
LEMMA PinFields ==
    ASSUME PinTypeOK, NEW r \in PinReq
    PROVE  /\ pinReq[r] \in PinRequest
           /\ pinReq[r].at \in {"propose_find", "propose_write",
                                "propose_notify"}
                => pinReq[r].accepted \subseteq User
           /\ pinReq[r].at \in {"propose_write", "propose_notify", "get_list"}
                => pinReq[r].version \in Nat
           /\ pinReq[r].at = "propose_notify" => pinReq[r].place \in Place
           /\ pinReq[r].at \in {"respond_pin", "respond_find",
                                "respond_update"}
                => pinReq[r].user \in User /\ pinReq[r].answer \in Answers
           /\ pinReq[r].at = "respond_update" => pinReq[r].id \in Nat
  <1>1. pinReq[r] \in PinRequest
    BY DEF PinTypeOK
  <1> QED
    BY <1>1 DEF PinRequest

\* A request on the pin goes on to a state; the others stay where they are.
LEMMA PinMoves ==
    ASSUME PinTypeOK, NEW r \in PinReq, NEW s, PinGoto(r, s)
    PROVE  /\ pinReq'[r] = s
           /\ \A q \in PinReq \ {r} : pinReq'[q] = pinReq[q]
           /\ s \in PinRequest => pinReq' \in [PinReq -> PinRequest]
  BY DEF PinTypeOK, PinGoto

LEMMA PinIdleIsRequest == PinIdle \in PinRequest /\ PinIdle.at = "idle"
  BY DEF PinIdle, PinRequest

\* The hangout keeps its types, and whoever has joined has joined for good.
LEMMA PinEnvironmentSteps ==
    ASSUME PinTypeOK, PinEnvironment
    PROVE  /\ LifecycleTypeOK'
           /\ \A u \in User : invite[u] = "accepted" => invite'[u] = "accepted"
           /\ UNCHANGED pinVars
  <1>0. LifecycleTypeOK /\ UNCHANGED pinVars
    BY DEF PinTypeOK, PinEnvironment
  <1>1. CASE Create
    BY <1>0, <1>1 DEF Create, LifecycleTypeOK, HangoutStatus, InviteStatus
  <1>2. CASE \E new \in HangoutStatus : ChangeStatus(new)
    BY <1>0, <1>2 DEF ChangeStatus, LifecycleTypeOK
  <1>3. CASE \E u \in User : AddParticipant(u)
    BY <1>0, <1>3 DEF AddParticipant, LifecycleTypeOK, InviteStatus
  <1>4. CASE \E u \in User, answer \in InviteStatus : Answer(u, answer)
    BY <1>0, <1>4 DEF Answer, LifecycleTypeOK, InviteStatus, IsAnswered
  <1> QED
    BY <1>0, <1>1, <1>2, <1>3, <1>4 DEF PinEnvironment

\* The notices handed over are of the types and to the users there are.
LEMMA PinNotices ==
    ASSUME PinTypeOK, NEW type \in NoticeType, NEW users \in SUBSET User,
           Notify(type, users)
    PROVE  notices' \subseteq [type : NoticeType, to : User]
  BY DEF PinTypeOK, Notify

\* A proposal keeps every variable in its type.
LEMMA ProposeTypes ==
    ASSUME PinTypeOK, NEW r \in PinReq, Propose(r)
    PROVE  PinTypeOK'
  <1> USE PinFields
  <1>0. LifecycleTypeOK' /\ UNCHANGED lifecycleVars
    BY DEF PinTypeOK, LifecycleTypeOK, lifecycleVars, Propose,
           ProposeFindHangout, ProposeList, ProposeFindPin, ProposeWrite,
           ProposeNotify, ProposeConflict
  <1>1. CASE ProposeFindHangout(r)
    <2>1. [at |-> "propose_list"] \in PinRequest
      BY DEF PinRequest
    <2> QED
      BY <1>0, <1>1, <2>1, PinMoves DEF ProposeFindHangout, PinTypeOK
  <1>2. CASE ProposeList(r)
    <2>1. [at |-> "propose_find",
           accepted |-> {u \in User : MustConfirm(u)}] \in PinRequest
      BY DEF PinRequest
    <2> QED
      BY <1>0, <1>2, <2>1, PinMoves DEF ProposeList, PinTypeOK
  <1>3. CASE ProposeFindPin(r)
    <2>1. [at |-> "propose_write", accepted |-> pinReq[r].accepted,
           version |-> pin.version] \in PinRequest
      BY <1>3 DEF PinRequest, PinTypeOK, ProposeFindPin
    <2> QED
      BY <1>0, <1>3, <2>1, PinMoves DEF ProposeFindPin, PinTypeOK
  <1>4. ASSUME NEW place \in Place, ProposeWrite(r, place)
        PROVE  PinTypeOK'
    <2>1. [at |-> "propose_notify", accepted |-> pinReq[r].accepted,
           version |-> pinReq[r].version + 1, place |-> place] \in PinRequest
      BY <1>4 DEF PinRequest, ProposeWrite
    <2>2. pin.version \in Nat
      BY DEF PinTypeOK
    <2>3. NewRow(pin.version + 1) \in Row
      BY <2>2 DEF NewRow, Row
    <2>4. rows' \in [User -> Row \cup {NoRow}]
      BY <1>4, <2>3 DEF ProposeWrite, ResetForPin
    <2>5. pin' \in [version : Nat, place : Place \cup {"none"}]
      BY <1>4, <2>2 DEF ProposeWrite
    <2>6. pinReq' \in [PinReq -> PinRequest] /\ UNCHANGED notices
      BY <1>4, <2>1, PinMoves DEF ProposeWrite
    <2> QED
      BY <1>0, <2>4, <2>5, <2>6 DEF PinTypeOK
  <1>5. CASE ProposeNotify(r)
    <2>1. notices' \subseteq [type : NoticeType, to : User]
      BY <1>5, PinNotices DEF ProposeNotify, NoticeType
    <2> QED
      BY <1>0, <1>5, <2>1, PinMoves, PinIdleIsRequest
         DEF ProposeNotify, PinFinish, PinTypeOK
  <1>6. CASE ProposeConflict(r)
    BY <1>0, <1>6, PinMoves, PinIdleIsRequest
       DEF ProposeConflict, PinFinish, PinTypeOK
  <1> QED
    BY <1>1, <1>2, <1>3, <1>4, <1>5, <1>6 DEF Propose

\* And so does an answer.
LEMMA RespondTypes ==
    ASSUME PinTypeOK, NEW r \in PinReq, Respond(r)
    PROVE  PinTypeOK'
  <1> USE PinFields
  <1>0. LifecycleTypeOK' /\ UNCHANGED lifecycleVars
    BY DEF PinTypeOK, LifecycleTypeOK, lifecycleVars, Respond,
           RespondFindHangout, RespondFindPin, RespondFindRow, RespondUpdate,
           RespondTooLate
  <1>1. ASSUME NEW u \in User, NEW answer \in Answers,
               RespondFindHangout(r, u, answer)
        PROVE  PinTypeOK'
    <2>1. [at |-> "respond_pin", user |-> u, answer |-> answer] \in PinRequest
      BY DEF PinRequest
    <2> QED
      BY <1>0, <1>1, <2>1, PinMoves DEF RespondFindHangout, PinTypeOK
  <1>2. CASE RespondFindPin(r)
    <2>1. [pinReq[r] EXCEPT !.at = "respond_find"] \in PinRequest
      BY <1>2 DEF PinRequest, RespondFindPin
    <2> QED
      BY <1>0, <1>2, <2>1, PinMoves, PinIdleIsRequest
         DEF RespondFindPin, PinFinish, PinTypeOK
  <1>3. CASE RespondFindRow(r)
    <2>1. pinReq[r].user \in User /\ pinReq[r].answer \in Answers
      BY <1>3 DEF RespondFindRow
    <2>2. rows[pinReq[r].user].version \in Nat
      BY <2>1 DEF PinTypeOK, Row, NoRow
    <2>3. [at |-> "respond_update", user |-> pinReq[r].user,
           answer |-> pinReq[r].answer,
           id |-> rows[pinReq[r].user].version] \in PinRequest
      BY <2>1, <2>2 DEF PinRequest
    <2> QED
      BY <1>0, <1>3, <2>3, PinMoves, PinIdleIsRequest
         DEF RespondFindRow, PinFinish, PinTypeOK
  <1>4. CASE RespondUpdate(r)
    <2>1. /\ pinReq[r].user \in User /\ pinReq[r].answer \in Answers
          /\ pinReq[r].id \in Nat
      BY <1>4 DEF RespondUpdate
    <2>2. rows[pinReq[r].user] \in Row
      BY <1>4, <2>1 DEF RespondUpdate, RowMatches, PinTypeOK
    <2>3. [version |-> rows[pinReq[r].user].version,
           status |-> pinReq[r].answer, found |-> pinReq[r].id] \in Row
      BY <2>1, <2>2 DEF Row
    <2>4. rows' \in [User -> Row \cup {NoRow}]
      BY <1>4, <2>1, <2>3 DEF RespondUpdate, PinTypeOK
    <2>5. notices' \subseteq [type : NoticeType, to : User]
      <3>1. CASE pinReq[r].answer = "confirmed"
        <4>1. {Organizer} \in SUBSET User
          BY UserAssumption
        <4> QED
          BY <1>4, <3>1, <4>1, PinNotices DEF RespondUpdate, NoticeType
      <3>2. CASE pinReq[r].answer # "confirmed"
        BY <1>4, <3>2 DEF RespondUpdate, PinTypeOK
      <3> QED
        BY <3>1, <3>2
    <2> QED
      BY <1>0, <1>4, <2>4, <2>5, PinMoves, PinIdleIsRequest
         DEF RespondUpdate, PinFinish, PinTypeOK
  <1>5. CASE RespondTooLate(r)
    BY <1>0, <1>5, PinMoves, PinIdleIsRequest
       DEF RespondTooLate, PinFinish, PinTypeOK
  <1> QED
    BY <1>1, <1>2, <1>3, <1>4, <1>5 DEF Respond

\* Reading the pin changes nothing but the request's own state.
LEMMA GetTypes ==
    ASSUME PinTypeOK, NEW r \in PinReq, Get(r) \/ PinAbandon(r)
    PROVE  /\ PinTypeOK'
           /\ UNCHANGED <<pin, rows, notices, lifecycleVars>>
           /\ \A q \in PinReq \ {r} : pinReq'[q] = pinReq[q]
           /\ pinReq'[r].at \in {"idle", "get_pin", "get_list", "get_return"}
  <1>0. UNCHANGED <<pin, rows, notices, lifecycleVars>> /\ LifecycleTypeOK'
    BY DEF Get, GetFindParticipant, GetFindPin, GetList, GetReturn,
           PinAbandon, PinTypeOK, LifecycleTypeOK, lifecycleVars
  <1> DEFINE Kept(s) == s \in PinRequest
               /\ s.at \in {"idle", "get_pin", "get_list", "get_return"}
  <1>1. \E s : Kept(s) /\ PinGoto(r, s)
    <2>1. CASE \E u \in User : GetFindParticipant(r, u)
      <3>1. Kept([at |-> "get_pin"])
        BY DEF PinRequest
      <3> QED
        BY <2>1, <3>1 DEF GetFindParticipant
    <2>2. CASE GetFindPin(r)
      <3>1. Kept([at |-> "get_list", version |-> pin.version])
        BY DEF PinRequest, PinTypeOK
      <3> QED
        BY <2>2, <3>1, PinIdleIsRequest DEF GetFindPin, PinFinish
    <2>3. CASE GetList(r)
      <3>1. \A u \in User : rows[u].version \in Nat
        BY DEF PinTypeOK, Row, NoRow
      <3>2. RowVersions \subseteq Nat
        BY <3>1 DEF RowVersions
      <3>3. pinReq[r].version \in Nat
        BY <2>3, PinFields DEF GetList
      <3>4. Kept(Summary(pinReq[r].version))
        BY <3>2, <3>3 DEF Summary, PinRequest
      <3> QED
        BY <2>3, <3>4 DEF GetList
    <2>4. CASE GetReturn(r) \/ PinAbandon(r)
      BY <2>4, PinIdleIsRequest DEF GetReturn, PinAbandon, PinFinish
    <2> QED
      BY <2>1, <2>2, <2>3, <2>4 DEF Get
  <1>2. PICK s : Kept(s) /\ PinGoto(r, s)
    BY <1>1
  <1>3. pinReq' \in [PinReq -> PinRequest]
    BY <1>2, PinMoves
  <1>4. PinTypeOK'
    BY <1>0, <1>3 DEF PinTypeOK
  <1> QED
    BY <1>0, <1>2, <1>4, PinMoves

\* Every variable of the pin keeps its type under every statement.
LEMMA PinTypeOKStep == PinTypeOK /\ [PinNext]_pinSystemVars => PinTypeOK'
  <1> SUFFICES ASSUME PinTypeOK, [PinNext]_pinSystemVars PROVE PinTypeOK'
    OBVIOUS
  <1>1. CASE PinEnvironment
    BY <1>1, PinEnvironmentSteps DEF PinTypeOK, pinVars
  <1>2. ASSUME NEW r \in PinReq,
               Propose(r) \/ Respond(r) \/ Get(r) \/ PinAbandon(r)
        PROVE  PinTypeOK'
    BY <1>2, ProposeTypes, RespondTypes, GetTypes
  <1>3. CASE UNCHANGED pinSystemVars
    BY <1>3 DEF PinTypeOK, LifecycleTypeOK, pinSystemVars, pinVars,
                lifecycleVars
  <1> QED
    BY <1>1, <1>2, <1>3 DEF PinNext

LEMMA PinInitTypes == PinInit => PinTypeOK
  <1> SUFFICES ASSUME PinInit PROVE PinTypeOK
    OBVIOUS
  <1>1. LifecycleTypeOK
    BY DEF PinInit, LifecycleInit, LifecycleTypeOK
  <1> QED
    BY <1>1, PinIdleIsRequest DEF PinInit, PinTypeOK

THEOREM PinTypeCorrect == PinSpec => []PinTypeOK
  BY PinInitTypes, PinTypeOKStep, PTL DEF PinSpec

-----------------------------------------------------------------------------
(* The meetup pin: whose answers count, and for which place *)

\* The participants that a proposal has listed have joined, and stay so.
ListedHaveJoined ==
    \A r \in PinReq :
        pinReq[r].at \in {"propose_find", "propose_write"} =>
            \A u \in pinReq[r].accepted : MustConfirm(u)

PinInv ==
    /\ PinTypeOK
    /\ ListedHaveJoined
    /\ AnswersCountForPlace
    /\ NoLostProposal

LEMMA PinInitInv == PinInit => PinInv
  BY PinInitTypes DEF PinInit, PinInv, ListedHaveJoined, AnswersCountForPlace,
     NoLostProposal, PinIdle

\* What a request does to its own state only.  A proposal that comes to its
\* write has listed those who joined, and nobody becomes a proposer who has
\* written by it.
PinWaits(r, s) ==
    /\ PinGoto(r, s)
    /\ UNCHANGED <<pin, rows, lifecycleVars>>
    /\ s.at # "propose_notify"
    /\ s.at \in {"propose_find", "propose_write"} =>
         \A u \in s.accepted : MustConfirm(u)

LEMMA PinWaitsKeepsInv ==
    ASSUME PinInv, NEW r \in PinReq, NEW s, PinWaits(r, s)
    PROVE  /\ ListedHaveJoined'
           /\ AnswersCountForPlace'
           /\ NoLostProposal'
  <1>1. /\ pinReq'[r] = s
        /\ \A q \in PinReq \ {r} : pinReq'[q] = pinReq[q]
        /\ UNCHANGED <<pin, rows, invite>>
    BY PinMoves DEF PinInv, PinWaits, lifecycleVars
  <1>2. s.at # "propose_notify"
    BY DEF PinWaits
  <1>3. ListedHaveJoined'
    BY <1>1 DEF PinInv, PinWaits, ListedHaveJoined, MustConfirm
  <1>4. AnswersCountForPlace'
    BY <1>1 DEF PinInv, AnswersCountForPlace
  <1>5. NoLostProposal'
    BY <1>1, <1>2 DEF PinInv, NoLostProposal
  <1> QED
    BY <1>3, <1>4, <1>5

\* The write: whoever has read the version that still stands makes the next
\* one, which nobody has been told of, and every row is a new one.
LEMMA WriteKeepsInv ==
    ASSUME PinInv, NEW r \in PinReq, NEW place \in Place,
           ProposeWrite(r, place)
    PROVE  /\ ListedHaveJoined'
           /\ AnswersCountForPlace'
           /\ NoLostProposal'
  <1>1. /\ pinReq[r].at = "propose_write"
        /\ pinReq[r].version = pin.version
        /\ pin.version \in Nat
        /\ pinReq[r].accepted \subseteq User
        /\ PinTypeOK
    BY PinFields DEF PinInv, PinTypeOK, ProposeWrite, PinUnchanged
  <1>2. pin' = [version |-> pin.version + 1, place |-> place]
    BY DEF ProposeWrite
  <1>3. UNCHANGED invite
    BY DEF ProposeWrite, lifecycleVars
  <1>4. /\ pinReq'[r] = [at |-> "propose_notify",
                         accepted |-> pinReq[r].accepted,
                         version |-> pin.version + 1, place |-> place]
        /\ \A q \in PinReq \ {r} : pinReq'[q] = pinReq[q]
    BY <1>1, PinMoves DEF ProposeWrite
  <1>5. ListedHaveJoined'
    BY <1>3, <1>4 DEF PinInv, ListedHaveJoined, MustConfirm
  <1>6. AnswersCountForPlace'
    <2>1. ASSUME NEW u \in User, rows'[u] # NoRow
          PROVE  /\ invite'[u] = "accepted"
                 /\ rows'[u] = NewRow(pin.version + 1)
      <3>1. u \in pinReq[r].accepted /\ rows'[u] = NewRow(pin.version + 1)
        BY <2>1 DEF ProposeWrite, ResetForPin
      <3> QED
        BY <1>1, <1>3, <3>1 DEF PinInv, ListedHaveJoined, MustConfirm
    <2> QED
      BY <1>2, <2>1 DEF AnswersCountForPlace, NewRow, Answers
  <1>7. NoLostProposal'
    <2>1. ASSUME NEW q \in PinReq \ {r}, pinReq[q].at = "propose_notify"
          PROVE  pinReq[q].version \in Nat /\ pinReq[q].version <= pin.version
      BY <1>1, <2>1, PinFields DEF PinInv, NoLostProposal
    <2> QED
      BY <1>1, <1>2, <1>4, <2>1 DEF PinInv, NoLostProposal
  <1> QED
    BY <1>5, <1>6, <1>7

\* An answer is stored in the row it was meant for, or nowhere.
LEMMA AnswerKeepsInv ==
    ASSUME PinInv, NEW r \in PinReq, RespondUpdate(r)
    PROVE  /\ ListedHaveJoined'
           /\ AnswersCountForPlace'
           /\ NoLostProposal'
  <1>1. /\ PinTypeOK /\ pinReq[r].user \in User
        /\ RowMatches(pinReq[r].user, pinReq[r].id)
        /\ UNCHANGED <<pin, invite>>
    BY PinFields DEF PinInv, RespondUpdate, lifecycleVars
  <1>2. /\ pinReq'[r] = PinIdle
        /\ \A q \in PinReq \ {r} : pinReq'[q] = pinReq[q]
    BY <1>1, PinMoves DEF RespondUpdate, PinFinish
  <1>3. ListedHaveJoined' /\ NoLostProposal'
    BY <1>1, <1>2, PinIdleIsRequest
       DEF PinInv, ListedHaveJoined, MustConfirm, NoLostProposal
  <1>4. ASSUME NEW u \in User, rows'[u] # NoRow
        PROVE  /\ rows[u] # NoRow
               /\ rows'[u].version = rows[u].version
               /\ \/ rows'[u] = rows[u]
                  \/ rows'[u].found = rows[u].version
    <2>1. u # pinReq[r].user => rows'[u] = rows[u]
      BY <1>1 DEF RespondUpdate, PinTypeOK
    <2>2. rows'[pinReq[r].user] =
            [version |-> rows[pinReq[r].user].version,
             status |-> pinReq[r].answer, found |-> pinReq[r].id]
      BY <1>1 DEF RespondUpdate, PinTypeOK
    <2> QED
      BY <1>1, <1>4, <2>1, <2>2 DEF RowMatches
  <1>5. AnswersCountForPlace'
    BY <1>1, <1>4 DEF PinInv, AnswersCountForPlace
  <1> QED
    BY <1>3, <1>5

\* The other statements of a request leave the pin and its rows alone.
LEMMA OthersWait ==
    ASSUME PinInv, NEW r \in PinReq,
           \/ Propose(r) /\ ~ \E place \in Place : ProposeWrite(r, place)
           \/ Respond(r) /\ ~ RespondUpdate(r)
           \/ Get(r) \/ PinAbandon(r)
    PROVE  \E s : PinWaits(r, s)
  <1> USE DEF PinWaits
  <1>0. PinTypeOK
    BY DEF PinInv
  <1>1. CASE ProposeFindHangout(r)
    BY <1>1 DEF ProposeFindHangout
  <1>2. CASE ProposeList(r)
    BY <1>2 DEF ProposeList
  <1>3. CASE ProposeFindPin(r)
    BY <1>3 DEF ProposeFindPin, PinInv, ListedHaveJoined
  <1>4. CASE ProposeNotify(r) \/ ProposeConflict(r)
    BY <1>4, PinIdleIsRequest DEF ProposeNotify, ProposeConflict, PinFinish
  <1>5. CASE \E u \in User, answer \in Answers :
               RespondFindHangout(r, u, answer)
    BY <1>5 DEF RespondFindHangout
  <1>6. CASE RespondFindPin(r)
    <2>1. pinReq[r] \in PinRequest /\ pinReq[r].at = "respond_pin"
      BY <1>0, <1>6, PinFields DEF RespondFindPin
    <2>2. [pinReq[r] EXCEPT !.at = "respond_find"].at = "respond_find"
      BY <2>1 DEF PinRequest
    <2> QED
      BY <1>6, <2>2, PinIdleIsRequest DEF RespondFindPin, PinFinish
  <1>7. CASE RespondFindRow(r)
    BY <1>7, PinIdleIsRequest DEF RespondFindRow, PinFinish
  <1>8. CASE RespondTooLate(r)
    BY <1>8, PinIdleIsRequest DEF RespondTooLate, PinFinish
  <1>9. CASE Get(r) \/ PinAbandon(r)
    BY <1>9, PinIdleIsRequest
       DEF Get, GetFindParticipant, GetFindPin, GetList, GetReturn, Summary,
           PinAbandon, PinFinish
  <1> QED
    BY <1>1, <1>2, <1>3, <1>4, <1>5, <1>6, <1>7, <1>8, <1>9
       DEF Propose, Respond

LEMMA PinInvStep == PinInv /\ [PinNext]_pinSystemVars => PinInv'
  <1> SUFFICES ASSUME PinInv, [PinNext]_pinSystemVars PROVE PinInv'
    OBVIOUS
  <1>0. PinTypeOK /\ PinTypeOK'
    BY PinTypeOKStep DEF PinInv
  <1>1. CASE PinEnvironment
    <2>1. /\ \A u \in User : invite[u] = "accepted" => invite'[u] = "accepted"
          /\ UNCHANGED <<pin, rows, pinReq>>
      BY <1>0, <1>1, PinEnvironmentSteps DEF pinVars
    <2>2. \A r \in PinReq :
            pinReq[r].at \in {"propose_find", "propose_write"} =>
              pinReq[r].accepted \subseteq User
      BY <1>0, PinFields
    <2>3. ListedHaveJoined'
      BY <2>1, <2>2 DEF PinInv, ListedHaveJoined, MustConfirm
    <2>4. AnswersCountForPlace' /\ NoLostProposal'
      BY <2>1 DEF PinInv, AnswersCountForPlace, NoLostProposal
    <2> QED
      BY <1>0, <2>3, <2>4 DEF PinInv
  <1>2. ASSUME NEW r \in PinReq,
               Propose(r) \/ Respond(r) \/ Get(r) \/ PinAbandon(r)
        PROVE  PinInv'
    <2>1. CASE \E place \in Place : ProposeWrite(r, place)
      BY <1>0, <2>1, WriteKeepsInv DEF PinInv
    <2>2. CASE RespondUpdate(r)
      BY <1>0, <2>2, AnswerKeepsInv DEF PinInv
    <2>3. CASE \E s : PinWaits(r, s)
      BY <1>0, <2>3, PinWaitsKeepsInv DEF PinInv
    <2> QED
      BY <1>2, <2>1, <2>2, <2>3, OthersWait
  <1>3. CASE UNCHANGED pinSystemVars
    BY <1>0, <1>3
       DEF PinInv, ListedHaveJoined, MustConfirm, AnswersCountForPlace,
           NoLostProposal, pinSystemVars, pinVars, lifecycleVars
  <1> QED
    BY <1>1, <1>2, <1>3 DEF PinNext

THEOREM PinInvariant == PinSpec => []PinInv
  BY PinInitInv, PinInvStep, PTL DEF PinSpec

\* However proposals, answers to them, answers to invites and changes of the
\* hangout interleave: a confirmation is of somebody who has joined, belongs to
\* the proposal that stands, and was meant for the place it is counted for.
THEOREM AnswersAreForThePlace == PinSpec => []AnswersCountForPlace
  <1>1. PinInv => AnswersCountForPlace
    BY DEF PinInv
  <1> QED
    BY <1>1, PinInvariant, PTL

\* Of the proposals that are answered with success no two have the same
\* version, and the one that has the stored version names the stored place.
THEOREM ProposalsAreNotLost == PinSpec => []NoLostProposal
  <1>1. PinInv => NoLostProposal
    BY DEF PinInv
  <1> QED
    BY <1>1, PinInvariant, PTL
=============================================================================
