------------------------------- MODULE Archive ------------------------------
(***************************************************************************)
(* The archive of one hangout: its creation when the hangout becomes       *)
(* final, uploads of media, and deletion, which takes effect once every    *)
(* participant has asked for it.  The hangout changes by the operations of *)
(* HangoutLifecycle; module Hangout shows that CreateArchive is called at  *)
(* most once for it.                                                       *)
(*                                                                         *)
(* A delete request runs in one READ COMMITTED transaction: it sees its    *)
(* own mark and what other transactions have committed, and what it writes *)
(* appears to others when it commits.  Until then the writes are in req.   *)
(* The object store takes no part in the transaction.                      *)
(***************************************************************************)
EXTENDS HangoutLifecycle, SequencesExt

CONSTANTS
    Req,   \* request slots: how many requests run at once
    Key    \* object keys: a bound on the number of uploads

ASSUME ArchiveAssumption == IsFiniteSet(Key)

VARIABLES
    archive,    \* archives row: its status and chat_snapshot
    marks,      \* archive_deletion_marks: the users who have a committed row
    media,      \* archive_media by key: "none", "live" or "deleted"
    objects,    \* the keys that exist in the object store
    req,        \* the state of each request
    called,     \* history: CreateArchive has been called
    lateJoin,   \* history: a participant was added after the hangout ended
    overlapped, \* history: two deletions have held uncommitted marks at once
    aborted,    \* history: a purge was rolled back after deleting objects
    raced       \* history: media whose row came after a purge had listed them

archiveVars == <<archive, marks, media, objects, req,
                 called, lateJoin, overlapped, aborted, raced>>
vars == <<archiveVars, lifecycleVars>>

Idle == [at |-> "idle"]

Request ==
    [at : {"idle", "create_log"}]
      \cup [at : {"create_insert"}, log : Seq(User)]
      \cup [at : {"delete_member", "delete_mark", "purge_find", "purge_list",
                  "purge_media", "delete_commit", "upload_member",
                  "upload_store"}, user : User]
      \cup [at : {"purge_count"}, user : User, participants : SUBSET User]
      \cup [at : {"purge_files"}, user : User, todo : SUBSET Key,
            done : SUBSET Key]
      \cup [at : {"upload_insert"}, key : Key]

TypeOK ==
    /\ LifecycleTypeOK
    /\ archive \in [status : {"none", "purged"}, log : {<<>>}]
                     \cup [status : {"active"}, log : Seq(User)]
    /\ marks \subseteq User
    /\ media \in [Key -> {"none", "live", "deleted"}]
    /\ objects \subseteq Key
    /\ req \in [Req -> Request]
    /\ {called, lateJoin, overlapped, aborted} \subseteq BOOLEAN
    /\ raced \subseteq Key

Init ==
    /\ LifecycleInit
    /\ archive = [status |-> "none", log |-> <<>>]
    /\ marks = {}
    /\ media = [k \in Key |-> "none"]
    /\ objects = {}
    /\ req = [r \in Req |-> Idle]
    /\ called = FALSE
    /\ lateJoin = FALSE
    /\ overlapped = FALSE
    /\ aborted = FALSE
    /\ raced = {}

-----------------------------------------------------------------------------
(* Helpers; Bug... are faults for the mutation runs, as in module Hangout. *)

history == <<called, lateJoin, overlapped, aborted, raced>>

Goto(r, state) == req' = [req EXCEPT ![r] = state]
Finish(r)      == Goto(r, Idle)

Participants == {u \in User : invite[u] # "none"}
LiveMedia    == {k \in Key : media[k] = "live"}

\* The transaction of request r has inserted a mark and is still open.
HoldsMark(r) ==
    req[r].at \in {"purge_find", "purge_list", "purge_count", "purge_media",
                   "purge_files", "delete_commit"}

BugAnybody(u) == TRUE
\* Whether u has a participant row, whatever the invite's status.
IsParticipant(u) == u \in Participants

BugOneMore(u, participants) ==
    Cardinality(marks \cup {u}) > Cardinality(participants)
\* As many marks as participants: those committed and the transaction's own.
Unanimous(u, participants) ==
    Cardinality(marks \cup {u}) >= Cardinality(participants)

\* The row a purge leaves: the audit trail without the chat.
Purged == [status |-> "purged", log |-> <<>>]

BugForgetSoftDelete(done) == media
\* The media rows after a purge that deleted these files.
SoftDelete(done) ==
    [k \in Key |-> IF k \in done THEN "deleted" ELSE media[k]]

-----------------------------------------------------------------------------
(* CreateArchive, called when the hangout has become completed or cancelled. *)

\* FindByHangoutID finds none, and GetResolved a final hangout.
CreateFind(r) ==
    /\ req[r] = Idle
    /\ IsFinal(status) /\ ~called
    /\ called' = TRUE
    /\ Goto(r, [at |-> "create_log"])
    /\ UNCHANGED <<archive, marks, media, objects, lateJoin, overlapped,
                   aborted, raced, lifecycleVars>>

\* ListChatLog passes ListMessages on, which lists the newest first.
CreateLog(r) ==
    /\ req[r].at = "create_log"
    /\ Goto(r, [at |-> "create_insert", log |-> Reverse(messages)])
    /\ UNCHANGED <<archive, marks, media, objects, history, lifecycleVars>>

CreateInsert(r) ==
    /\ req[r].at = "create_insert"
    /\ archive' = [status |-> "active", log |-> req[r].log]
    /\ Finish(r)
    /\ UNCHANGED <<marks, media, objects, history, lifecycleVars>>

-----------------------------------------------------------------------------
(* DELETE /archives/:id *)

\* The transaction begins.  On a purged archive it ends: ErrArchiveIsPurged.
DeleteFind(r, u) ==
    /\ req[r] = Idle
    /\ archive.status = "active"
    /\ Goto(r, [at |-> "delete_member", user |-> u])
    /\ UNCHANGED <<archive, marks, media, objects, history, lifecycleVars>>

\* Otherwise ErrNotArchiveParticipant.
DeleteCheckMember(r) ==
    /\ req[r].at = "delete_member"
    /\ IF IsParticipant(req[r].user)
         THEN Goto(r, [req[r] EXCEPT !.at = "delete_mark"])
         ELSE Finish(r)
    /\ UNCHANGED <<archive, marks, media, objects, history, lifecycleVars>>

\* The primary key makes the insert wait for another open transaction that
\* inserted the same mark, and fail once such a mark is committed:
\* ErrAlreadyMarkedDeleted.
DeleteMark(r) ==
    /\ req[r].at = "delete_mark"
    /\ \A s \in Req : HoldsMark(s) => req[s].user # req[r].user
    /\ IF req[r].user \in marks
         THEN /\ Finish(r)
              /\ UNCHANGED overlapped
         ELSE /\ Goto(r, [req[r] EXCEPT !.at = "purge_find"])
              /\ overlapped' = (overlapped \/ \E s \in Req : HoldsMark(s))
    /\ UNCHANGED <<archive, marks, media, objects, called, lateJoin, aborted,
                   raced, lifecycleVars>>

PurgeFind(r) ==
    /\ req[r].at = "purge_find"
    /\ Goto(r, [req[r] EXCEPT !.at = IF archive.status = "purged"
                                       THEN "delete_commit"
                                       ELSE "purge_list"])
    /\ UNCHANGED <<archive, marks, media, objects, history, lifecycleVars>>

\* GetResolved: the hangout is final for good, and lists its participants.
PurgeList(r) ==
    /\ req[r].at = "purge_list"
    /\ Goto(r, [at |-> "purge_count", user |-> req[r].user,
                participants |-> Participants])
    /\ UNCHANGED <<archive, marks, media, objects, history, lifecycleVars>>

PurgeCount(r) ==
    /\ req[r].at = "purge_count"
    /\ Goto(r, [at |-> IF Unanimous(req[r].user, req[r].participants)
                         THEN "purge_media" ELSE "delete_commit",
                user |-> req[r].user])
    /\ UNCHANGED <<archive, marks, media, objects, history, lifecycleVars>>

PurgeMedia(r) ==
    /\ req[r].at = "purge_media"
    /\ Goto(r, [at |-> "purge_files", user |-> req[r].user,
                todo |-> LiveMedia, done |-> {}])
    /\ UNCHANGED <<archive, marks, media, objects, history, lifecycleVars>>

\* The object is gone at once, the row when the transaction commits.
PurgeFile(r, k) ==
    /\ req[r].at = "purge_files" /\ k \in req[r].todo
    /\ objects' = objects \ {k}
    /\ Goto(r, [req[r] EXCEPT !.todo = @ \ {k}, !.done = @ \cup {k}])
    /\ UNCHANGED <<archive, marks, media, history, lifecycleVars>>

\* ArchiveRepository.Update and COMMIT of a purge.
PurgeCommit(r) ==
    /\ req[r].at = "purge_files" /\ req[r].todo = {}
    /\ archive' = Purged
    /\ marks' = marks \cup {req[r].user}
    /\ media' = SoftDelete(req[r].done)
    /\ Finish(r)
    /\ UNCHANGED <<objects, history, lifecycleVars>>

\* COMMIT of a deletion that is not the last.
DeleteCommit(r) ==
    /\ req[r].at = "delete_commit"
    /\ marks' = marks \cup {req[r].user}
    /\ Finish(r)
    /\ UNCHANGED <<archive, media, objects, history, lifecycleVars>>

-----------------------------------------------------------------------------
(* POST /archives/:id/media *)

UploadFind(r, u) ==
    /\ req[r] = Idle
    /\ archive.status = "active"
    /\ Goto(r, [at |-> "upload_member", user |-> u])
    /\ UNCHANGED <<archive, marks, media, objects, history, lifecycleVars>>

UploadCheckMember(r) ==
    /\ req[r].at = "upload_member"
    /\ IF IsParticipant(req[r].user)
         THEN Goto(r, [req[r] EXCEPT !.at = "upload_store"])
         ELSE Finish(r)
    /\ UNCHANGED <<archive, marks, media, objects, history, lifecycleVars>>

\* Every upload gets a new key.
UploadStore(r, k) ==
    /\ req[r].at = "upload_store"
    /\ k \notin objects /\ media[k] = "none"
    /\ objects' = objects \cup {k}
    /\ Goto(r, [at |-> "upload_insert", key |-> k])
    /\ UNCHANGED <<archive, marks, media, history, lifecycleVars>>

UploadInsert(r) ==
    /\ req[r].at = "upload_insert"
    /\ media' = [media EXCEPT ![req[r].key] = "live"]
    /\ raced' = IF \/ archive.status = "purged"
                  \/ \E s \in Req : req[s].at = "purge_files"
                  THEN raced \cup {req[r].key} ELSE raced
    /\ Finish(r)
    /\ UNCHANGED <<archive, marks, objects, called, lateJoin, overlapped,
                   aborted, lifecycleVars>>

-----------------------------------------------------------------------------
\* The process dies, a statement fails or the client goes away.  An open
\* transaction rolls back: its mark and soft deletes never were.
Abandon(r) ==
    /\ req[r] # Idle
    /\ Finish(r)
    /\ aborted' = (aborted \/ (req[r].at = "purge_files" /\ req[r].done # {}))
    /\ UNCHANGED <<archive, marks, media, objects, called, lateJoin,
                   overlapped, raced, lifecycleVars>>

\* The hangout meanwhile.  Answers to invites are left out, because a
\* participant counts whatever the answer.
Environment ==
    /\ \/ Create
       \/ \E new \in HangoutStatus : ChangeStatus(new)
       \/ \E u \in User : AddParticipant(u) \/ Post(u)
    /\ lateJoin' = (lateJoin \/ (IsFinal(status) /\ invite' # invite))
    /\ UNCHANGED <<archive, marks, media, objects, req, called, overlapped,
                   aborted, raced>>

CreateArchive(r) == CreateFind(r) \/ CreateLog(r) \/ CreateInsert(r)

Delete(r) ==
    \/ \E u \in User : DeleteFind(r, u)
    \/ DeleteCheckMember(r)
    \/ DeleteMark(r)
    \/ PurgeFind(r)
    \/ PurgeList(r)
    \/ PurgeCount(r)
    \/ PurgeMedia(r)
    \/ \E k \in Key : PurgeFile(r, k)
    \/ PurgeCommit(r)
    \/ DeleteCommit(r)

Upload(r) ==
    \/ \E u \in User : UploadFind(r, u)
    \/ UploadCheckMember(r)
    \/ \E k \in Key : UploadStore(r, k)
    \/ UploadInsert(r)

Next ==
    \/ Environment
    \/ \E r \in Req : CreateArchive(r) \/ Delete(r) \/ Upload(r) \/ Abandon(r)

Spec == Init /\ [][Next]_vars

-----------------------------------------------------------------------------
(* What concurrent creation, deletion and upload may never bring about. *)

\* Counting marks against participants is sound as long as nobody joins the
\* hangout after its end: an archive is purged only when every participant,
\* and not merely as many users, asked for it.  Marks and participants are
\* counted in different statements, so a late participant's mark can stand in
\* for that of one who wants to keep the archive.
PurgedByAll ==
    archive.status = "purged" /\ ~lateJoin => Participants \subseteq marks

\* When all participants have asked one at a time the archive is gone: no
\* deletion leaves the last mark without purging, and a purge that fails takes
\* its mark back so that it can be asked for again.
PurgedWhenAllAsked ==
    ~overlapped /\ archive.status = "active" =>
        ~(Participants \subseteq marks)

\* Every file an archive lists can be opened, except while a purge is deleting
\* it and after a purge that was rolled back half-way.
ListedMediaExist ==
    \A k \in LiveMedia :
        \/ k \in objects
        \/ aborted
        \/ \E r \in Req : req[r].at = "purge_files" /\ k \in req[r].done

\* "Without the transaction, two concurrent delete requests from the last two
\* participants could both read 'not unanimous yet'" (delete_archive.go, line
\* 12).  The code breaks it with the transaction, too: at READ COMMITTED
\* neither sees the other's mark, both commit, and nobody can mark again.
AllAskedIsPurged ==
    archive.status = "active" => ~(Participants \subseteq marks)

\* "every media file is removed from storage and the archive is flipped to
\* Purged" (purge_archive.go, line 37): of the media of a purged archive only
\* those are left whose row was inserted after the purge had listed the media,
\* by an upload that found the archive active.  Nothing removes those.
PurgedHoldsOnlyRaced == archive.status = "purged" => LiveMedia \subseteq raced
=============================================================================
