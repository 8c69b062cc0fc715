------------------------------ MODULE Hangout -------------------------------
(***************************************************************************)
(* One hangout under concurrent requests.  Every request of the hangout    *)
(* endpoints runs in its own goroutine and talks to PostgreSQL one         *)
(* autocommitted statement at a time, so each action below is one          *)
(* statement together with the code up to the next one, and the requests   *)
(* in Req interleave between statements.  What a request has read and      *)
(* still holds in local variables is in req[r]; it may be stale.  Only     *)
(* CreateHangout uses a transaction.                                       *)
(*                                                                         *)
(* A request may stop between any two statements (Abandon): the process    *)
(* dies, the statement fails, or the client goes away and cancels the      *)
(* request's context.  What it had committed stays.                        *)
(***************************************************************************)
EXTENDS Naturals, Sequences, FiniteSets

CONSTANTS
    User,             \* accounts
    Organizer,        \* the account that creates the hangout
    Req,              \* request slots: how many requests run at once
    MaxParticipants,  \* cap on pending and accepted participants (100)
    MaxMessages       \* bound on the chat, for model checking

ASSUME UserAssumption == IsFiniteSet(User) /\ Organizer \in User
ASSUME BoundsAssumption ==
    MaxParticipants \in Nat \ {0} /\ MaxMessages \in Nat

VARIABLES
    hangout,       \* the hangouts row: its status and version
    invite,        \* hangout_participants: invite_status by user
    messages,      \* hangout_messages: the senders, oldest first
    req,           \* the state of each request
    acked,         \* history: <<user, answer>> of every 200 to an invitee
    notices,       \* history: notifications handed to the notifier
    archiveCalls,  \* history: calls of ArchiveCreator.CreateArchive
    overlapped,    \* history: two invite requests have run at once
    unanswered     \* history: who was added by an INSERT that committed but
                   \* was answered with an error, its connection lost

vars == <<hangout, invite, messages, req,
          acked, notices, archiveCalls, overlapped, unanswered>>

Lifecycle == INSTANCE HangoutLifecycle WITH status <- hangout.status

IsFinal(s)    == Lifecycle!IsFinal(s)
IsAnswered(i) == Lifecycle!IsAnswered(i)
HangoutStatus == Lifecycle!HangoutStatus
Answers       == {"accepted", "rejected"}

Idle == [at |-> "idle"]

Request ==
    [at : {"idle", "cancel_list"}]
      \cup [at : {"invite_count", "cancel_notify"}, batch : SUBSET User]
      \cup [at : {"invite_add"}, batch : SUBSET User, active : Nat]
      \cup [at : {"respond_update"}, user : User, answer : Answers]
      \cup [at : {"status_update"}, version : Nat,
            new : {"ongoing", "completed", "cancelled"}]
      \cup [at : {"create_archive"}, new : {"completed", "cancelled"}]
      \cup [at : {"send_insert"}, user : User]

NoticeType ==
    {"hangout_invite", "hangout_invite_responded", "hangout_cancelled"}

TypeOK ==
    /\ hangout \in [status : HangoutStatus \cup {"none"}, version : Nat]
    /\ invite \in [User -> {"none", "pending"} \cup Answers]
    /\ messages \in Seq(User)
    /\ req \in [Req -> Request]
    /\ acked \subseteq User \X Answers
    /\ notices \subseteq [type : NoticeType, about : User]
    /\ archiveCalls \in Nat
    /\ overlapped \in BOOLEAN
    /\ unanswered \subseteq User

Init ==
    /\ hangout = [status |-> "none", version |-> 0]
    /\ invite = [u \in User |-> "none"]
    /\ messages = <<>>
    /\ req = [r \in Req |-> Idle]
    /\ acked = {}
    /\ notices = {}
    /\ archiveCalls = 0
    /\ overlapped = FALSE
    /\ unanswered = {}

-----------------------------------------------------------------------------
(* Helpers.  The definitions whose name starts with Bug are faults a change  *)
(* of the code could introduce; no action uses them, and the mutation runs   *)
(* put each in the place of the definition that follows it.                  *)

Goto(r, state) == req' = [req EXCEPT ![r] = state]
Finish(r)      == Goto(r, Idle)

\* Publishing is best-effort: an error is logged and the request goes on.
Notify(type, user) ==
    notices' \in {notices, notices \cup {[type |-> type, about |-> user]}}

ActiveUsers == {u \in User : invite[u] \in {"pending", "accepted"}}

\* SELECT COUNT(*) ... invite_status IN ('pending', 'accepted')
CountActive == Cardinality(ActiveUsers)

BugRoomForOneMore(active) == active <= MaxParticipants
HasRoom(active) == active < MaxParticipants

\* The WHERE clause of UpdateParticipant matches a row.
StillPending(u) == invite[u] = "pending"

BugActiveMayPost(u) == u \in ActiveUsers
MayPost(u) == invite[u] = "accepted"

BugNoVersionCheck(version) == TRUE
\* The WHERE clause of HangoutRepository.Update matches the row.
VersionMatches(version) == version = hangout.version

\* The one allowed forward step from each status that is not final.
validNextStatus(s) ==
    IF s = "planned" THEN "ongoing" ELSE "completed"

-----------------------------------------------------------------------------
(* POST /hangouts *)

\* One transaction inserts the hangout and the organizer's participation.
CreateHangout(r) ==
    /\ req[r] = Idle
    /\ hangout.status = "none"
    /\ hangout' = [status |-> "planned", version |-> 1]
    /\ invite' = [invite EXCEPT ![Organizer] = "accepted"]
    /\ UNCHANGED <<messages, req, acked, notices, archiveCalls, overlapped,
                   unanswered>>

-----------------------------------------------------------------------------
(* POST /hangouts/:id/invite.  A caller other than the organizer gets      *)
(* ErrNotOrganizer and changes nothing, so the caller is the organizer.    *)

InviteFind(r, batch) ==
    /\ req[r] = Idle
    /\ hangout.status # "none" /\ ~IsFinal(hangout.status)
    /\ Goto(r, [at |-> "invite_count", batch |-> batch])
    /\ UNCHANGED <<hangout, invite, messages, acked, notices, archiveCalls,
                   overlapped, unanswered>>

\* The count is read once and kept up to date locally from here on.
InviteCount(r) ==
    /\ req[r].at = "invite_count"
    /\ Goto(r, [at |-> "invite_add", batch |-> req[r].batch,
                active |-> CountActive])
    /\ overlapped' = (overlapped \/ \E s \in Req : req[s].at = "invite_add")
    /\ UNCHANGED <<hangout, invite, messages, acked, notices, archiveCalls,
                   unanswered>>

InviteAdd(r, u) ==
    /\ req[r].at = "invite_add" /\ u \in req[r].batch
    /\ HasRoom(req[r].active)
    /\ invite[u] = "none"
    /\ invite' = [invite EXCEPT ![u] = "pending"]
    /\ Goto(r, [at |-> "invite_add", batch |-> req[r].batch \ {u},
                active |-> req[r].active + 1])
    /\ Notify("hangout_invite", u)
    /\ UNCHANGED <<hangout, messages, acked, archiveCalls, overlapped,
                   unanswered>>

\* The INSERT commits, but its answer is lost with the connection: the next
\* statement has another one.  The invitee is neither counted nor notified.
InviteUnanswered(r, u) ==
    /\ req[r].at = "invite_add" /\ u \in req[r].batch
    /\ HasRoom(req[r].active)
    /\ invite[u] = "none"
    /\ invite' = [invite EXCEPT ![u] = "pending"]
    /\ unanswered' = unanswered \cup {u}
    /\ Goto(r, [req[r] EXCEPT !.batch = @ \ {u}])
    /\ UNCHANGED <<hangout, messages, acked, notices, archiveCalls,
                   overlapped>>

\* ErrParticipantLimit, ErrAlreadyParticipant or a failed INSERT: the outcome
\* of this invitee is an error and the rest of the batch goes on.
InviteSkip(r, u) ==
    /\ req[r].at = "invite_add" /\ u \in req[r].batch
    /\ Goto(r, [req[r] EXCEPT !.batch = @ \ {u}])
    /\ UNCHANGED <<hangout, invite, messages, acked, notices, archiveCalls,
                   overlapped, unanswered>>

InviteReturn(r) ==
    /\ req[r].at = "invite_add" /\ req[r].batch = {}
    /\ Finish(r)
    /\ UNCHANGED <<hangout, invite, messages, acked, notices, archiveCalls,
                   overlapped, unanswered>>

-----------------------------------------------------------------------------
(* POST /hangouts/:id/respond *)

RespondFind(r, u, answer) ==
    /\ req[r] = Idle
    /\ invite[u] # "none" /\ ~IsAnswered(invite[u])
    /\ Goto(r, [at |-> "respond_update", user |-> u, answer |-> answer])
    /\ UNCHANGED <<hangout, invite, messages, acked, notices, archiveCalls,
                   overlapped, unanswered>>

RespondUpdate(r) ==
    /\ req[r].at = "respond_update"
    /\ StillPending(req[r].user)
    /\ invite' = [invite EXCEPT ![req[r].user] = req[r].answer]
    /\ acked' = acked \cup {<<req[r].user, req[r].answer>>}
    /\ Notify("hangout_invite_responded", req[r].user)
    /\ Finish(r)
    /\ UNCHANGED <<hangout, messages, archiveCalls, overlapped, unanswered>>

\* ErrInviteAlreadyAnswered: no row was still pending.
RespondTooLate(r) ==
    /\ req[r].at = "respond_update"
    /\ ~StillPending(req[r].user)
    /\ Finish(r)
    /\ UNCHANGED <<hangout, invite, messages, acked, notices, archiveCalls,
                   overlapped, unanswered>>

-----------------------------------------------------------------------------
(* PATCH /hangouts/:id/status and POST /hangouts/:id/cancel.  The caller   *)
(* is again the organizer.                                                 *)

UpdateHangoutStatus(r, new) ==
    /\ req[r] = Idle
    /\ hangout.status # "none" /\ ~IsFinal(hangout.status)
    /\ new = validNextStatus(hangout.status)
    /\ Goto(r, [at |-> "status_update", version |-> hangout.version,
                new |-> new])
    /\ UNCHANGED <<hangout, invite, messages, acked, notices, archiveCalls,
                   overlapped, unanswered>>

CancelHangout(r) ==
    /\ req[r] = Idle
    /\ hangout.status # "none" /\ ~IsFinal(hangout.status)
    /\ Goto(r, [at |-> "status_update", version |-> hangout.version,
                new |-> "cancelled"])
    /\ UNCHANGED <<hangout, invite, messages, acked, notices, archiveCalls,
                   overlapped, unanswered>>

\* HangoutRepository.Update: compare and set on version, which the trigger
\* set_updated_at_and_bump_version then increments.
StatusUpdate(r) ==
    /\ req[r].at = "status_update"
    /\ VersionMatches(req[r].version)
    /\ hangout' = [status |-> req[r].new, version |-> hangout.version + 1]
    /\ IF IsFinal(req[r].new)
         THEN Goto(r, [at |-> "create_archive", new |-> req[r].new])
         ELSE Finish(r)
    /\ UNCHANGED <<invite, messages, acked, notices, archiveCalls,
                   overlapped, unanswered>>

BugConflictIgnored(r) ==
    /\ req[r].at = "status_update"
    /\ ~VersionMatches(req[r].version)
    /\ IF IsFinal(req[r].new)
         THEN Goto(r, [at |-> "create_archive", new |-> req[r].new])
         ELSE Finish(r)
    /\ UNCHANGED <<hangout, invite, messages, acked, notices, archiveCalls,
                   overlapped, unanswered>>
\* ErrVersionConflict: another request changed the hangout since it was read.
StatusConflict(r) ==
    /\ req[r].at = "status_update"
    /\ ~VersionMatches(req[r].version)
    /\ Finish(r)
    /\ UNCHANGED <<hangout, invite, messages, acked, notices, archiveCalls,
                   overlapped, unanswered>>

\* CreateArchive is best-effort: its error is only logged.  Module Archive
\* says what the call does.
CallCreateArchive(r) ==
    /\ req[r].at = "create_archive"
    /\ archiveCalls' = archiveCalls + 1
    /\ IF req[r].new = "cancelled"
         THEN Goto(r, [at |-> "cancel_list"])
         ELSE Finish(r)
    /\ UNCHANGED <<hangout, invite, messages, acked, notices, overlapped,
                   unanswered>>

CancelList(r) ==
    /\ req[r].at = "cancel_list"
    /\ Goto(r, [at |-> "cancel_notify",
                batch |-> {u \in User : invite[u] # "none"} \ {Organizer}])
    /\ UNCHANGED <<hangout, invite, messages, acked, notices, archiveCalls,
                   overlapped, unanswered>>

CancelNotify(r, u) ==
    /\ req[r].at = "cancel_notify" /\ u \in req[r].batch
    /\ Notify("hangout_cancelled", u)
    /\ Goto(r, [req[r] EXCEPT !.batch = @ \ {u}])
    /\ UNCHANGED <<hangout, invite, messages, acked, archiveCalls, overlapped,
                   unanswered>>

CancelReturn(r) ==
    /\ req[r].at = "cancel_notify" /\ req[r].batch = {}
    /\ Finish(r)
    /\ UNCHANGED <<hangout, invite, messages, acked, notices, archiveCalls,
                   overlapped, unanswered>>

-----------------------------------------------------------------------------
(* POST /hangouts/:id/messages and a frame on the chat socket *)

SendFind(r, u) ==
    /\ req[r] = Idle
    /\ MayPost(u)
    /\ Goto(r, [at |-> "send_insert", user |-> u])
    /\ UNCHANGED <<hangout, invite, messages, acked, notices, archiveCalls,
                   overlapped, unanswered>>

SendInsert(r) ==
    /\ req[r].at = "send_insert"
    /\ Len(messages) < MaxMessages
    /\ messages' = Append(messages, req[r].user)
    /\ Finish(r)
    /\ UNCHANGED <<hangout, invite, acked, notices, archiveCalls, overlapped,
                   unanswered>>

-----------------------------------------------------------------------------
Abandon(r) ==
    /\ req[r] # Idle
    /\ Finish(r)
    /\ UNCHANGED <<hangout, invite, messages, acked, notices, archiveCalls,
                   overlapped, unanswered>>

Invite(r) ==
    \/ \E batch \in SUBSET User : InviteFind(r, batch)
    \/ InviteCount(r)
    \/ \E u \in User : \/ InviteAdd(r, u)
                       \/ InviteUnanswered(r, u)
                       \/ InviteSkip(r, u)
    \/ InviteReturn(r)

Respond(r) ==
    \/ \E u \in User, answer \in Answers : RespondFind(r, u, answer)
    \/ RespondUpdate(r)
    \/ RespondTooLate(r)

Transition(r) ==
    \/ \E new \in HangoutStatus : UpdateHangoutStatus(r, new)
    \/ CancelHangout(r)
    \/ StatusUpdate(r)
    \/ StatusConflict(r)
    \/ CallCreateArchive(r)
    \/ CancelList(r)
    \/ \E u \in User : CancelNotify(r, u)
    \/ CancelReturn(r)

Send(r) ==
    \/ \E u \in User : SendFind(r, u)
    \/ SendInsert(r)

Next == \E r \in Req :
    \/ CreateHangout(r)
    \/ Invite(r)
    \/ Respond(r)
    \/ Transition(r)
    \/ Send(r)
    \/ Abandon(r)

Spec == Init /\ [][Next]_vars

-----------------------------------------------------------------------------
(* What concurrent requests may never bring about. *)

\* An invitee who was told that an answer was recorded finds that answer in
\* the database for ever after: a second tap, or two taps at once, never
\* overwrite it (respond_to_invite.go, participant_repository.go).
AckedAnswerIsStored ==
    \A u \in User, answer \in Answers :
        <<u, answer>> \in acked => invite[u] = answer

\* Every chat message is by somebody whose invite is accepted, although
\* send_message.go checks the invite in one statement and inserts the message
\* in a later one.
MessagesByAccepted ==
    \A i \in 1..Len(messages) : invite[messages[i]] = "accepted"

\* Nobody is told something that is not, or is no longer, so: a cancellation
\* notice means the hangout ended cancelled, whoever else was completing it at
\* the time, and a response notice means a recorded answer.
NoticesAreTrue ==
    \A n \in notices :
        /\ n.type = "hangout_cancelled" => hangout.status = "cancelled"
        /\ n.type = "hangout_invite_responded"  => IsAnswered(invite[n.about])
        /\ n.type = "hangout_invite"    => invite[n.about] # "none"

\* Of all the requests that complete or cancel a hangout at the same time one
\* reaches the archive component, and only once the status is final.
ArchiveCalledOnce ==
    /\ archiveCalls <= 1
    /\ archiveCalls = 1 => IsFinal(hangout.status)

\* Those whom the code knows to be participants when it counts.
KnownActive == ActiveUsers \ unanswered

\* invite_participants.go counts once and then trusts its own copy of the
\* count.  That is enough as long as no two invite requests ever worked on the
\* hangout at once, whatever answers arrive in between: a hangout never has
\* more than MaxParticipants active participants, except for those who were
\* added by an INSERT that was answered with an error.
CapUnlessOverlapped ==
    ~overlapped => Cardinality(KnownActive) <= MaxParticipants

\* The interleaved requests implement the atomic operations of
\* HangoutLifecycle: no lost update of the status, no answer twice, and every
\* operation's condition true when it takes effect.
LifecycleSpec == Lifecycle!LifecycleSpec
=============================================================================
