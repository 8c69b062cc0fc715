--------------------------- MODULE HangoutProofs ----------------------------
(***************************************************************************)
(* Proofs about module Hangout, for every set of users and request slots   *)
(* and every value of the bounds.                                          *)
(***************************************************************************)
EXTENDS Hangout, FiniteSetTheorems, TLAPS

USE DEF IsFinal, IsAnswered, HangoutStatus, Lifecycle!IsFinal,
        Lifecycle!IsAnswered, Lifecycle!HangoutStatus

-----------------------------------------------------------------------------
(* Type correctness *)

LEMMA CountActiveIsNat == TypeOK => CountActive \in Nat
<1>1. IsFiniteSet(ActiveUsers)
  BY UserAssumption, FS_Subset DEF ActiveUsers
<1>. QED
  BY <1>1, FS_CardinalityType DEF CountActive

\* Every variable keeps its type under every statement of every request.
LEMMA TypeOKStep == TypeOK /\ [Next]_vars => TypeOK'
<1>. SUFFICES ASSUME TypeOK, [Next]_vars PROVE TypeOK'
  OBVIOUS
<1>. USE DEF TypeOK, Request, Answers, Goto, Finish, Idle
<1>1. ASSUME NEW r \in Req, CreateHangout(r) PROVE TypeOK'
  BY <1>1, UserAssumption DEF CreateHangout
<1>2. ASSUME NEW r \in Req, Invite(r) PROVE TypeOK'
  <2>1. ASSUME NEW batch \in SUBSET User, InviteFind(r, batch) PROVE TypeOK'
    BY <2>1 DEF InviteFind
  <2>2. CASE InviteCount(r)
    BY <2>2, CountActiveIsNat DEF InviteCount
  <2>3. ASSUME NEW u \in User, InviteAdd(r, u) PROVE TypeOK'
    <3>1. req[r] \in [at : {"invite_add"}, batch : SUBSET User, active : Nat]
      BY <2>3 DEF InviteAdd
    <3>2. req' \in [Req -> Request]
      BY <2>3, <3>1 DEF InviteAdd
    <3>3. notices' \subseteq [type : NoticeType, about : User]
      BY <2>3 DEF InviteAdd, Notify, NoticeType
    <3>. QED
      BY <2>3, <3>2, <3>3 DEF InviteAdd
  <2>4. ASSUME NEW u \in User, InviteSkip(r, u) PROVE TypeOK'
    <3>1. req[r] \in [at : {"invite_add"}, batch : SUBSET User, active : Nat]
      BY <2>4 DEF InviteSkip
    <3>. QED
      BY <2>4, <3>1 DEF InviteSkip
  <2>5. ASSUME NEW u \in User, InviteUnanswered(r, u) PROVE TypeOK'
    <3>1. req[r] \in [at : {"invite_add"}, batch : SUBSET User, active : Nat]
      BY <2>5 DEF InviteUnanswered
    <3>. QED
      BY <2>5, <3>1 DEF InviteUnanswered
  <2>6. CASE InviteReturn(r)
    BY <2>6 DEF InviteReturn
  <2>. QED
    BY <1>2, <2>1, <2>2, <2>3, <2>4, <2>5, <2>6 DEF Invite
<1>3. ASSUME NEW r \in Req, Respond(r) PROVE TypeOK'
  <2>1. ASSUME NEW u \in User, NEW answer \in Answers,
               RespondFind(r, u, answer)
        PROVE  TypeOK'
    BY <2>1 DEF RespondFind
  <2>2. CASE RespondUpdate(r)
    <3>1. req[r].user \in User /\ req[r].answer \in Answers
      BY <2>2 DEF RespondUpdate
    <3>2. notices' \subseteq [type : NoticeType, about : User]
      BY <2>2, <3>1 DEF RespondUpdate, Notify, NoticeType
    <3>. QED
      BY <2>2, <3>1, <3>2 DEF RespondUpdate
  <2>3. CASE RespondTooLate(r)
    BY <2>3 DEF RespondTooLate
  <2>. QED
    BY <1>3, <2>1, <2>2, <2>3 DEF Respond
<1>4. ASSUME NEW r \in Req, Transition(r) PROVE TypeOK'
  <2>1. ASSUME NEW new \in HangoutStatus, UpdateHangoutStatus(r, new)
        PROVE  TypeOK'
    BY <2>1 DEF UpdateHangoutStatus, validNextStatus
  <2>2. CASE CancelHangout(r)
    BY <2>2 DEF CancelHangout
  <2>3. CASE StatusUpdate(r)
    BY <2>3 DEF StatusUpdate
  <2>4. CASE StatusConflict(r)
    BY <2>4 DEF StatusConflict
  <2>5. CASE CallCreateArchive(r)
    <3>1. req' \in [Req -> Request]
      BY <2>5 DEF CallCreateArchive
    <3>2. archiveCalls' \in Nat
      BY <2>5 DEF CallCreateArchive
    <3>. QED
      BY <2>5, <3>1, <3>2 DEF CallCreateArchive
  <2>6. CASE CancelList(r)
    <3>1. PICK batch \in SUBSET User :
                 batch = {u \in User : invite[u] # "none"} \ {Organizer}
      OBVIOUS
    <3>2. req' = [req EXCEPT ![r] = [at |-> "cancel_notify", batch |-> batch]]
      BY <2>6, <3>1 DEF CancelList
    <3>3. [at |-> "cancel_notify", batch |-> batch] \in Request
      OBVIOUS
    <3>. QED
      BY <2>6, <3>2, <3>3 DEF CancelList
  <2>7. ASSUME NEW u \in User, CancelNotify(r, u) PROVE TypeOK'
    <3>1. req[r] \in [at : {"invite_count", "cancel_notify"},
                      batch : SUBSET User]
      BY <2>7 DEF CancelNotify
    <3>2. notices' \subseteq [type : NoticeType, about : User]
      BY <2>7 DEF CancelNotify, Notify, NoticeType
    <3>3. req' \in [Req -> Request]
      BY <2>7, <3>1 DEF CancelNotify
    <3>. QED
      BY <2>7, <3>2, <3>3 DEF CancelNotify
  <2>8. CASE CancelReturn(r)
    BY <2>8 DEF CancelReturn
  <2>. QED
    BY <1>4, <2>1, <2>2, <2>3, <2>4, <2>5, <2>6, <2>7, <2>8 DEF Transition
<1>5. ASSUME NEW r \in Req, Send(r) PROVE TypeOK'
  <2>1. ASSUME NEW u \in User, SendFind(r, u) PROVE TypeOK'
    BY <2>1 DEF SendFind
  <2>2. CASE SendInsert(r)
    BY <2>2 DEF SendInsert
  <2>. QED
    BY <1>5, <2>1, <2>2 DEF Send
<1>6. ASSUME NEW r \in Req, Abandon(r) PROVE TypeOK'
  BY <1>6 DEF Abandon
<1>7. CASE UNCHANGED vars
  BY <1>7 DEF vars
<1>. QED
  BY <1>1, <1>2, <1>3, <1>4, <1>5, <1>6, <1>7 DEF Next

LEMMA InitTypeOK == Init => TypeOK
<1>. SUFFICES ASSUME Init PROVE TypeOK
  OBVIOUS
<1>1. Idle \in Request
  BY DEF Idle, Request
<1>2. /\ hangout \in [status : HangoutStatus \cup {"none"}, version : Nat]
      /\ invite \in [User -> {"none", "pending"} \cup Answers]
      /\ req \in [Req -> Request]
  BY <1>1 DEF Init
<1>3. messages \in Seq(User)
  BY DEF Init
<1>. QED
  BY <1>2, <1>3 DEF Init, TypeOK

\* Every variable of Hangout has its type in every reachable state.
THEOREM TypeCorrect == Spec => []TypeOK
  BY InitTypeOK, TypeOKStep, PTL DEF Spec

-----------------------------------------------------------------------------
(* The inductive invariant: what the local state of each request still says  *)
(* about the shared rows, however long ago it was read.                      *)

\* A request that holds the current version holds a transition the current
\* status still allows.
StatusRequestsOK ==
    \A r \in Req : req[r].at = "status_update" =>
        /\ req[r].version <= hangout.version
        /\ req[r].version = hangout.version =>
               req[r].new \in Lifecycle!MayBecome(hangout.status)

\* The one request that moved the hangout to a final status has yet to call
\* the archive, and nobody has called it before.
ArchiveRequestsOK ==
    \A r \in Req : req[r].at = "create_archive" =>
        /\ IsFinal(hangout.status) /\ req[r].new = hangout.status
        /\ archiveCalls = 0
        /\ \A s \in Req : req[s].at = "create_archive" => s = r

CancelRequestsOK ==
    \A r \in Req : req[r].at \in {"cancel_list", "cancel_notify"} =>
        hangout.status = "cancelled"

SendRequestsOK ==
    \A r \in Req : req[r].at = "send_insert" =>
        invite[req[r].user] = "accepted"

\* A request got this far only because it found the hangout.
FoundHangoutOK ==
    \A r \in Req :
        req[r].at \in {"invite_count", "invite_add", "status_update"} =>
            hangout.status # "none"

RequestsOK ==
    /\ StatusRequestsOK
    /\ ArchiveRequestsOK
    /\ CancelRequestsOK
    /\ SendRequestsOK
    /\ FoundHangoutOK

Safety ==
    /\ AckedAnswerIsStored
    /\ MessagesByAccepted
    /\ NoticesAreTrue
    /\ ArchiveCalledOnce

KnownCount == Cardinality(KnownActive)

\* While no two invite requests have overlapped, the count a request keeps is
\* never below the one in the database, but for those whose INSERT was answered
\* with an error.
CountIsKept ==
    /\ hangout.status = "none" => \A u \in User : invite[u] = "none"
    /\ ~overlapped => \A r \in Req : req[r].at = "invite_add" =>
           /\ KnownCount <= req[r].active
           /\ \A s \in Req : req[s].at = "invite_add" => s = r

IInv == TypeOK /\ RequestsOK /\ Safety /\ CountIsKept /\ CapUnlessOverlapped

-----------------------------------------------------------------------------
(* Every statement of every request preserves the invariant. *)

LEMMA SafetyStep == IInv /\ [Next]_vars => RequestsOK' /\ Safety'
<1>. SUFFICES ASSUME IInv, [Next]_vars PROVE RequestsOK' /\ Safety'
  OBVIOUS
<1>. USE DEF IInv, TypeOK, Goto, Finish, Idle, Lifecycle!MayBecome,
             RequestsOK, StatusRequestsOK, ArchiveRequestsOK,
             CancelRequestsOK, SendRequestsOK, FoundHangoutOK,
             Safety, AckedAnswerIsStored, MessagesByAccepted, NoticesAreTrue,
             ArchiveCalledOnce
<1>1. ASSUME NEW r \in Req, CreateHangout(r) PROVE RequestsOK' /\ Safety'
  <2>1. RequestsOK'
    BY <1>1 DEF CreateHangout
  <2>2. \A u \in User : invite[u] # "none" => invite'[u] = invite[u] \/ u = Organizer
    BY <1>1 DEF CreateHangout
  <2>3. invite[Organizer] = "none" /\ invite'[Organizer] = "accepted"
    BY <1>1, UserAssumption DEF CreateHangout, CountIsKept
  <2>4. AckedAnswerIsStored'
    BY <1>1, <2>2, <2>3, UserAssumption DEF CreateHangout, Answers
  <2>5. MessagesByAccepted' /\ NoticesAreTrue' /\ ArchiveCalledOnce'
    BY <1>1, <2>3 DEF CreateHangout, Answers
  <2>. QED
    BY <2>1, <2>4, <2>5
<1>2. ASSUME NEW r \in Req, Invite(r) PROVE RequestsOK' /\ Safety'
  <2>1. ASSUME NEW batch \in SUBSET User, InviteFind(r, batch)
        PROVE  RequestsOK' /\ Safety'
    BY <2>1 DEF InviteFind
  <2>2. CASE InviteCount(r)
    BY <2>2 DEF InviteCount
  <2>3. ASSUME NEW u \in User, InviteAdd(r, u)
        PROVE  RequestsOK' /\ Safety'
    <3>1. RequestsOK'
      BY <2>3 DEF InviteAdd
    <3>2. AckedAnswerIsStored'
      BY <2>3 DEF InviteAdd, Answers
    <3>3. MessagesByAccepted' /\ ArchiveCalledOnce'
      BY <2>3 DEF InviteAdd
    <3>4. NoticesAreTrue'
      BY <2>3 DEF InviteAdd, Notify
    <3>. QED
      BY <3>1, <3>2, <3>3, <3>4
  <2>4. ASSUME NEW u \in User, InviteSkip(r, u)
        PROVE  RequestsOK' /\ Safety'
    BY <2>4 DEF InviteSkip
  <2>5. ASSUME NEW u \in User, InviteUnanswered(r, u)
        PROVE  RequestsOK' /\ Safety'
    <3>1. RequestsOK'
      BY <2>5 DEF InviteUnanswered
    <3>2. AckedAnswerIsStored'
      BY <2>5 DEF InviteUnanswered, Answers
    <3>3. MessagesByAccepted' /\ ArchiveCalledOnce' /\ NoticesAreTrue'
      BY <2>5 DEF InviteUnanswered
    <3>. QED
      BY <3>1, <3>2, <3>3
  <2>6. CASE InviteReturn(r)
    BY <2>6 DEF InviteReturn
  <2>. QED
    BY <1>2, <2>1, <2>2, <2>3, <2>4, <2>5, <2>6 DEF Invite
<1>3. ASSUME NEW r \in Req, Respond(r) PROVE RequestsOK' /\ Safety'
  <2>1. ASSUME NEW u \in User, NEW answer \in Answers, RespondFind(r, u, answer)
        PROVE  RequestsOK' /\ Safety'
    BY <2>1 DEF RespondFind
  <2>2. CASE RespondUpdate(r)
    <3>1. req[r].user \in User /\ req[r].answer \in Answers
      BY <2>2 DEF RespondUpdate, Request
    <3>2. /\ invite[req[r].user] = "pending"
          /\ invite' = [invite EXCEPT ![req[r].user] = req[r].answer]
      BY <2>2 DEF RespondUpdate, StillPending
    <3>3. RequestsOK'
      <4>1. /\ req' = [req EXCEPT ![r] = Idle]
            /\ UNCHANGED <<hangout, archiveCalls>>
        BY <2>2 DEF RespondUpdate
      <4>2. \A s \in Req : req'[s] = req[s] \/ req'[s].at = "idle"
        BY <4>1
      <4>3. SendRequestsOK'
        BY <3>2, <4>2 DEF Request
      <4>4. StatusRequestsOK' /\ ArchiveRequestsOK' /\ CancelRequestsOK'
            /\ FoundHangoutOK'
        BY <4>1, <4>2
      <4>. QED
        BY <4>3, <4>4
    <3>4. AckedAnswerIsStored'
      <4>1. PICK u \in User, answer \in Answers :
                   u = req[r].user /\ answer = req[r].answer
        BY <3>1
      <4>2. /\ invite[u] = "pending" /\ acked' = acked \cup {<<u, answer>>}
            /\ invite' = [invite EXCEPT ![u] = answer]
        BY <2>2, <3>2, <4>1 DEF RespondUpdate
      <4>. QED
        BY <4>2 DEF Answers
    <3>5. MessagesByAccepted' /\ ArchiveCalledOnce'
      BY <2>2, <3>1, <3>2 DEF RespondUpdate
    <3>6. NoticesAreTrue'
      BY <2>2, <3>1, <3>2 DEF RespondUpdate, Notify, Answers
    <3>. QED
      BY <3>3, <3>4, <3>5, <3>6
  <2>3. CASE RespondTooLate(r)
    BY <2>3 DEF RespondTooLate
  <2>. QED
    BY <1>3, <2>1, <2>2, <2>3 DEF Respond
<1>4. ASSUME NEW r \in Req, Transition(r) PROVE RequestsOK' /\ Safety'
  <2>1. ASSUME NEW new \in HangoutStatus, UpdateHangoutStatus(r, new)
        PROVE  RequestsOK' /\ Safety'
    BY <2>1 DEF UpdateHangoutStatus, validNextStatus
  <2>2. CASE CancelHangout(r)
    BY <2>2 DEF CancelHangout
  <2>3. CASE StatusUpdate(r)
    <3>1. /\ hangout.version \in Nat
        /\ hangout'.status = req[r].new
        /\ hangout'.version = hangout.version + 1
        /\ \A s \in Req : s # r => req'[s] = req[s]
      BY <2>3 DEF StatusUpdate
    <3>2. req[r].new \in Lifecycle!MayBecome(hangout.status)
      BY <2>3 DEF StatusUpdate, VersionMatches
    <3>3. /\ ~IsFinal(hangout.status)
          /\ req[r].new \in {"ongoing", "completed", "cancelled"}
      BY <3>2
    <3>4. archiveCalls = 0
      BY <3>3, <2>3
    <3>5. IF IsFinal(req[r].new)
            THEN req'[r] = [at |-> "create_archive", new |-> req[r].new]
            ELSE req'[r] = [at |-> "idle"]
      BY <2>3 DEF StatusUpdate
    <3>6. ASSUME NEW s \in Req, req'[s].at = "status_update"
          PROVE  /\ req'[s].version <= hangout'.version
                 /\ req'[s].version # hangout'.version
      <4>1. s # r
        BY <3>5, <3>6
      <4>2. req[s] = req'[s] /\ req[s].version \in Nat
        BY <4>1, <3>1, <3>6 DEF Request
      <4>. QED
        BY <4>2, <3>1, <3>6
    <3>7. StatusRequestsOK'
      BY <3>6
    <3>8. ArchiveRequestsOK'
      <4>1. \A s \in Req : s # r => req'[s].at # "create_archive"
        BY <3>1, <3>3
      <4>2. archiveCalls' = 0
        BY <2>3, <3>4 DEF StatusUpdate
      <4>. QED
        BY <4>1, <4>2, <3>1, <3>5
    <3>9. CancelRequestsOK' /\ SendRequestsOK' /\ FoundHangoutOK'
      <4>1. CancelRequestsOK'
        BY <3>1, <3>3, <3>5
      <4>2. SendRequestsOK'
        BY <2>3, <3>1, <3>5 DEF StatusUpdate
      <4>3. FoundHangoutOK'
        BY <3>1, <3>3, <3>5
      <4>. QED
        BY <4>1, <4>2, <4>3
    <3>10. Safety'
      BY <2>3, <3>1, <3>3, <3>4 DEF StatusUpdate
    <3>. QED
      BY <3>7, <3>8, <3>9, <3>10
  <2>4. CASE StatusConflict(r)
    BY <2>4 DEF StatusConflict
  <2>5. CASE CallCreateArchive(r)
    BY <2>5 DEF CallCreateArchive
  <2>6. CASE CancelList(r)
    BY <2>6 DEF CancelList
  <2>7. ASSUME NEW u \in User, CancelNotify(r, u)
        PROVE  RequestsOK' /\ Safety'
    <3>1. RequestsOK'
      BY <2>7 DEF CancelNotify
    <3>2. Safety'
      BY <2>7 DEF CancelNotify, Notify
    <3>. QED
      BY <3>1, <3>2
  <2>8. CASE CancelReturn(r)
    BY <2>8 DEF CancelReturn
  <2>. QED
    BY <1>4, <2>1, <2>2, <2>3, <2>4, <2>5, <2>6, <2>7, <2>8 DEF Transition
<1>5. ASSUME NEW r \in Req, Send(r) PROVE RequestsOK' /\ Safety'
  <2>1. ASSUME NEW u \in User, SendFind(r, u)
        PROVE  RequestsOK' /\ Safety'
    BY <2>1 DEF SendFind, MayPost
  <2>2. CASE SendInsert(r)
    BY <2>2 DEF SendInsert
  <2>. QED
    BY <1>5, <2>1, <2>2 DEF Send
<1>6. ASSUME NEW r \in Req, Abandon(r) PROVE RequestsOK' /\ Safety'
  BY <1>6 DEF Abandon
<1>7. CASE UNCHANGED vars
  BY <1>7 DEF vars
<1>. QED
  BY <1>1, <1>2, <1>3, <1>4, <1>5, <1>6, <1>7 DEF Next

-----------------------------------------------------------------------------
(* The cap on active participants *)

LEMMA KnownIsFinite == IsFiniteSet(KnownActive) /\ KnownCount \in Nat
<1>1. IsFiniteSet(KnownActive)
  BY UserAssumption, FS_Subset DEF ActiveUsers, KnownActive
<1>. QED
  BY <1>1, FS_CardinalityType DEF KnownCount

\* A step that makes nobody active does not raise the count.
LEMMA CountDoesNotRise ==
    ASSUME KnownActive' \subseteq KnownActive
    PROVE  KnownCount' <= KnownCount /\ KnownCount' \in Nat
<1>. QED
  BY KnownIsFinite, FS_Subset, FS_CardinalityType DEF KnownCount

\* A step that makes one user active raises it by one at most.
LEMMA CountRisesByOne ==
    ASSUME NEW u, KnownActive' \subseteq KnownActive \cup {u}
    PROVE  KnownCount' <= KnownCount + 1 /\ KnownCount' \in Nat
<1>1. IsFiniteSet(KnownActive \cup {u})
      /\ Cardinality(KnownActive \cup {u}) <= KnownCount + 1
      /\ Cardinality(KnownActive \cup {u}) \in Nat
  <2>1. CASE u \in KnownActive
    <3>1. KnownActive \cup {u} = KnownActive
      BY <2>1
    <3>2. /\ IsFiniteSet(KnownActive)
          /\ Cardinality(KnownActive) <= KnownCount + 1
          /\ Cardinality(KnownActive) \in Nat
      BY KnownIsFinite DEF KnownCount
    <3>. QED
      BY <3>1, <3>2
  <2>2. CASE u \notin KnownActive
    BY <2>2, KnownIsFinite, FS_AddElement DEF KnownCount
  <2>. QED
    BY <2>1, <2>2
<1>2. KnownCount' <= Cardinality(KnownActive \cup {u}) /\ KnownCount' \in Nat
  BY <1>1, FS_Subset, FS_CardinalityType DEF KnownCount
<1>. QED
  BY <1>1, <1>2, KnownIsFinite

\* Who is known to be active is active.
LEMMA KnownIsActive == KnownCount <= CountActive
<1>1. IsFiniteSet(ActiveUsers) /\ KnownActive \subseteq ActiveUsers
  BY UserAssumption, FS_Subset DEF ActiveUsers, KnownActive
<1>. QED
  BY <1>1, FS_Subset DEF KnownCount, CountActive

\* Steps that neither add an active participant nor move a request to
\* "invite_add" keep the invariant of the count.
LEMMA CountFrame ==
    ASSUME TypeOK, CountIsKept, CapUnlessOverlapped,
           KnownActive' \subseteq KnownActive,
           overlapped' = overlapped,
           \A u \in User : invite'[u] # "none" => invite[u] # "none",
           hangout'.status = "none" => hangout.status = "none",
           \A r \in Req : req'[r].at = "invite_add" =>
               req[r].at = "invite_add" /\ req'[r].active = req[r].active
    PROVE  CountIsKept' /\ CapUnlessOverlapped'
<1>1. KnownCount' <= KnownCount /\ KnownCount \in Nat
      /\ KnownCount' \in Nat
  BY CountDoesNotRise, KnownIsFinite
<1>2. \A r \in Req : req[r].at = "invite_add" => req[r].active \in Nat
  BY DEF TypeOK, Request
<1>3. CapUnlessOverlapped'
  BY <1>1, BoundsAssumption DEF CapUnlessOverlapped, KnownCount
<1>4. hangout'.status = "none" => \A u \in User : invite'[u] = "none"
  BY DEF CountIsKept
<1>5. ASSUME ~overlapped', NEW r \in Req, req'[r].at = "invite_add"
      PROVE  /\ KnownCount' <= req'[r].active
             /\ \A s \in Req : req'[s].at = "invite_add" => s = r
  <2>1. KnownCount <= req[r].active /\ req[r].active \in Nat
    BY <1>2, <1>5 DEF CountIsKept
  <2>2. KnownCount' <= req'[r].active
    BY <1>1, <1>5, <2>1
  <2>. QED
    BY <1>5, <2>2 DEF CountIsKept
<1>. QED
  BY <1>3, <1>4, <1>5 DEF CountIsKept

LEMMA CountStep ==
    IInv /\ [Next]_vars => CountIsKept' /\ CapUnlessOverlapped'
<1>. SUFFICES ASSUME IInv, [Next]_vars
              PROVE  CountIsKept' /\ CapUnlessOverlapped'
  OBVIOUS
<1>0. TypeOK /\ CountIsKept /\ CapUnlessOverlapped
  BY DEF IInv
<1>. USE DEF TypeOK, Goto, Finish, Idle
<1>1. ASSUME NEW r \in Req, CreateHangout(r)
      PROVE  CountIsKept' /\ CapUnlessOverlapped'
  <2>1. KnownActive = {} /\ KnownActive' \subseteq {Organizer}
    BY <1>0, <1>1, UserAssumption
       DEF CreateHangout, CountIsKept, ActiveUsers, KnownActive
  <2>2. KnownCount' <= 1 /\ KnownCount' \in Nat
    <3>1. KnownCount = 0
      BY <2>1, FS_EmptySet DEF KnownCount
    <3>. QED
      BY <2>1, <3>1, CountRisesByOne
  <2>3. \A s \in Req : req'[s].at # "invite_add"
    BY <1>1 DEF IInv, RequestsOK, FoundHangoutOK, CreateHangout
  <2>. QED
    BY <1>1, <2>2, <2>3, BoundsAssumption
       DEF CreateHangout, CountIsKept, CapUnlessOverlapped, KnownCount
<1>2. ASSUME NEW r \in Req, Invite(r)
      PROVE  CountIsKept' /\ CapUnlessOverlapped'
  <2>1. ASSUME NEW batch \in SUBSET User, InviteFind(r, batch)
        PROVE  CountIsKept' /\ CapUnlessOverlapped'
    BY <1>0, <2>1, CountFrame DEF InviteFind, ActiveUsers, KnownActive
  <2>2. CASE InviteCount(r)
    <3>1. KnownCount' = KnownCount /\ KnownCount <= CountActive
      BY <1>0, <2>2, KnownIsActive
         DEF InviteCount, KnownCount, KnownActive, ActiveUsers
    <3>2. CapUnlessOverlapped'
      BY <1>0, <2>2, <3>1 DEF InviteCount, CapUnlessOverlapped, KnownCount
    <3>3. hangout'.status = "none" => \A u \in User : invite'[u] = "none"
      BY <1>0, <2>2 DEF InviteCount, CountIsKept
    <3>4. ~overlapped' =>
             \A s \in Req : s # r => req'[s].at # "invite_add"
      BY <1>0, <2>2 DEF InviteCount
    <3>5. req'[r].active = CountActive
      BY <1>0, <2>2 DEF InviteCount
    <3>. QED
      BY <3>1, <3>2, <3>3, <3>4, <3>5 DEF CountIsKept
  <2>3. ASSUME NEW u \in User, InviteAdd(r, u)
        PROVE  CountIsKept' /\ CapUnlessOverlapped'
    <3>1. KnownActive' \subseteq KnownActive \cup {u}
      BY <1>0, <2>3 DEF InviteAdd, ActiveUsers, KnownActive
    <3>2. /\ KnownCount' <= KnownCount + 1 /\ KnownCount \in Nat
          /\ KnownCount' \in Nat
      BY <3>1, CountRisesByOne, KnownIsFinite
    <3>3. /\ req[r].at = "invite_add" /\ req[r].active \in Nat
          /\ req[r].active < MaxParticipants
          /\ req'[r].active = req[r].active + 1
          /\ \A s \in Req : s # r => req'[s] = req[s]
          /\ overlapped' = overlapped
      BY <1>0, <2>3 DEF InviteAdd, HasRoom, Request
    <3>4. ~overlapped => KnownCount <= req[r].active
      BY <1>0, <3>3 DEF CountIsKept
    <3>5. CapUnlessOverlapped'
      BY <3>2, <3>3, <3>4, BoundsAssumption
         DEF CapUnlessOverlapped, KnownCount
    <3>6. hangout'.status # "none"
      BY <2>3, <3>3 DEF IInv, RequestsOK, FoundHangoutOK, InviteAdd
    <3>7. ASSUME ~overlapped', NEW s \in Req, req'[s].at = "invite_add"
          PROVE  /\ KnownCount' <= req'[s].active
                 /\ \A t \in Req : req'[t].at = "invite_add" => t = s
      <4>1. \A t \in Req : req'[t].at = "invite_add" => t = r
        BY <1>0, <3>3, <3>7 DEF CountIsKept
      <4>. QED
        BY <4>1, <3>2, <3>3, <3>4, <3>7
    <3>. QED
      BY <3>5, <3>6, <3>7 DEF CountIsKept
  <2>4. ASSUME NEW u \in User, InviteSkip(r, u)
        PROVE  CountIsKept' /\ CapUnlessOverlapped'
    <3>1. \A s \in Req : req'[s].at = "invite_add" =>
             req[s].at = "invite_add" /\ req'[s].active = req[s].active
      BY <2>4 DEF InviteSkip, Request
    <3>. QED
      BY <1>0, <2>4, <3>1, CountFrame DEF InviteSkip, ActiveUsers, KnownActive
  <2>5. ASSUME NEW u \in User, InviteUnanswered(r, u)
        PROVE  CountIsKept' /\ CapUnlessOverlapped'
    <3>1. KnownActive' \subseteq KnownActive
      BY <1>0, <2>5 DEF InviteUnanswered, ActiveUsers, KnownActive
    <3>2. KnownCount' <= KnownCount /\ KnownCount' \in Nat
          /\ KnownCount \in Nat
      BY <3>1, CountDoesNotRise, KnownIsFinite
    <3>3. hangout'.status # "none"
      BY <2>5 DEF IInv, RequestsOK, FoundHangoutOK, InviteUnanswered
    <3>4. /\ overlapped' = overlapped
          /\ \A s \in Req : req'[s].at = "invite_add" =>
               /\ req[s].at = "invite_add" /\ req'[s].active = req[s].active
               /\ req[s].active \in Nat
      <4>1. req[r] \in [at : {"invite_add"}, batch : SUBSET User, active : Nat]
        BY <1>0, <2>5 DEF InviteUnanswered, Request
      <4>2. /\ req'[r].active = req[r].active /\ overlapped' = overlapped
            /\ \A s \in Req : s # r => req'[s] = req[s]
        BY <1>0, <2>5, <4>1 DEF InviteUnanswered
      <4>3. \A s \in Req : req[s].at = "invite_add" => req[s].active \in Nat
        BY <1>0 DEF Request
      <4>. QED
        BY <2>5, <4>2, <4>3 DEF InviteUnanswered
    <3>5. CapUnlessOverlapped'
      BY <1>0, <3>2, <3>4, BoundsAssumption DEF CapUnlessOverlapped, KnownCount
    <3>6. CountIsKept'
      BY <1>0, <3>2, <3>3, <3>4 DEF CountIsKept
    <3>. QED
      BY <3>5, <3>6
  <2>6. CASE InviteReturn(r)
    BY <1>0, <2>6, CountFrame DEF InviteReturn, ActiveUsers, KnownActive
  <2>. QED
    BY <1>2, <2>1, <2>2, <2>3, <2>4, <2>5, <2>6 DEF Invite
<1>3. ASSUME NEW r \in Req, Respond(r)
      PROVE  CountIsKept' /\ CapUnlessOverlapped'
  <2>1. ASSUME NEW u \in User, NEW answer \in Answers,
               RespondFind(r, u, answer)
        PROVE  CountIsKept' /\ CapUnlessOverlapped'
    BY <1>0, <2>1, CountFrame DEF RespondFind, ActiveUsers, KnownActive
  <2>2. CASE RespondUpdate(r)
    <3>1. /\ invite[req[r].user] = "pending"
          /\ invite' = [invite EXCEPT ![req[r].user] = req[r].answer]
      BY <1>0, <2>2 DEF RespondUpdate, StillPending
    <3>2. KnownActive' \subseteq KnownActive
      BY <2>2, <3>1 DEF RespondUpdate, ActiveUsers, KnownActive
    <3>3. \A u \in User : invite'[u] # "none" => invite[u] # "none"
      BY <3>1
    <3>. QED
      BY <1>0, <2>2, <3>2, <3>3, CountFrame DEF RespondUpdate
  <2>3. CASE RespondTooLate(r)
    BY <1>0, <2>3, CountFrame DEF RespondTooLate, ActiveUsers, KnownActive
  <2>. QED
    BY <1>3, <2>1, <2>2, <2>3 DEF Respond
<1>4. ASSUME NEW r \in Req, Transition(r)
      PROVE  CountIsKept' /\ CapUnlessOverlapped'
  <2>1. /\ invite' = invite /\ overlapped' = overlapped
        /\ unanswered' = unanswered
        /\ hangout'.status = "none" => hangout.status = "none"
    <3>1. CASE StatusUpdate(r)
      BY <1>0, <3>1 DEF StatusUpdate, Request
    <3>2. CASE ~StatusUpdate(r)
      BY <1>0, <1>4, <3>2 DEF Transition, UpdateHangoutStatus, CancelHangout,
         StatusConflict, CallCreateArchive, CancelList, CancelNotify,
         CancelReturn
    <3>. QED
      BY <3>1, <3>2
  <2>2. \A s \in Req : req'[s].at = "invite_add" => req'[s] = req[s]
    <3>1. ASSUME NEW u \in User, CancelNotify(r, u)
          PROVE  req'[r].at = req[r].at /\ req[r].at # "invite_add"
                 /\ \A s \in Req : s # r => req'[s] = req[s]
      <4>1. req[r] \in [at : {"invite_count", "cancel_notify"},
                        batch : SUBSET User]
        BY <1>0, <3>1 DEF CancelNotify, Request
      <4>. QED
        BY <1>0, <3>1, <4>1 DEF CancelNotify
    <3>2. CASE \E u \in User : CancelNotify(r, u)
      BY <3>1, <3>2
    <3>3. CASE ~\E u \in User : CancelNotify(r, u)
      BY <1>0, <1>4, <3>3 DEF Transition, UpdateHangoutStatus, CancelHangout,
         StatusUpdate, StatusConflict, CallCreateArchive, CancelList,
         CancelReturn
    <3>. QED
      BY <3>2, <3>3
  <2>. QED
    BY <1>0, <2>1, <2>2, CountFrame DEF ActiveUsers, KnownActive
<1>5. ASSUME NEW r \in Req, Send(r)
      PROVE  CountIsKept' /\ CapUnlessOverlapped'
  BY <1>0, <1>5, CountFrame DEF Send, SendFind, SendInsert, ActiveUsers, KnownActive
<1>6. ASSUME NEW r \in Req, Abandon(r)
      PROVE  CountIsKept' /\ CapUnlessOverlapped'
  BY <1>0, <1>6, CountFrame DEF Abandon, ActiveUsers, KnownActive
<1>7. CASE UNCHANGED vars
  BY <1>0, <1>7, CountFrame DEF vars, ActiveUsers, KnownActive
<1>. QED
  BY <1>1, <1>2, <1>3, <1>4, <1>5, <1>6, <1>7 DEF Next

-----------------------------------------------------------------------------
(* The safety properties *)

LEMMA InitIInv == Init => IInv
<1>. SUFFICES ASSUME Init PROVE IInv
  OBVIOUS
<1>1. TypeOK
  BY InitTypeOK
<1>2. \A r \in Req : req[r].at = "idle"
  BY DEF Init, Idle
<1>3. RequestsOK
  BY <1>2 DEF RequestsOK, StatusRequestsOK, ArchiveRequestsOK,
     CancelRequestsOK, SendRequestsOK, FoundHangoutOK
<1>4. Safety
  BY DEF Init, Safety, AckedAnswerIsStored, MessagesByAccepted,
     NoticesAreTrue, ArchiveCalledOnce
<1>5. ActiveUsers = {}
  BY DEF Init, ActiveUsers
<1>6. KnownCount = 0
  BY <1>5, FS_EmptySet DEF KnownActive, KnownCount
<1>. QED
  BY <1>1, <1>2, <1>3, <1>4, <1>6, BoundsAssumption
     DEF IInv, CountIsKept, CapUnlessOverlapped, KnownCount, Init

LEMMA IInvStep == IInv /\ [Next]_vars => IInv'
  BY TypeOKStep, SafetyStep, CountStep DEF IInv

THEOREM Invariant == Spec => []IInv
  BY InitIInv, IInvStep, PTL DEF Spec

\* An answer that was acknowledged stays the stored one, whatever requests
\* race with it.
THEOREM AnswersAreKept == Spec => []AckedAnswerIsStored
<1>1. IInv => AckedAnswerIsStored
  BY DEF IInv, Safety
<1>. QED
  BY <1>1, Invariant, PTL

\* Checking the invite before the insert is enough to keep the chat to
\* accepted participants.
THEOREM ChatIsByAccepted == Spec => []MessagesByAccepted
<1>1. IInv => MessagesByAccepted
  BY DEF IInv, Safety
<1>. QED
  BY <1>1, Invariant, PTL

\* No notification announces what did not happen.
THEOREM NoticesNeverLie == Spec => []NoticesAreTrue
<1>1. IInv => NoticesAreTrue
  BY DEF IInv, Safety
<1>. QED
  BY <1>1, Invariant, PTL

\* The version check elects one request to call the archive.
THEOREM OneArchiveCall == Spec => []ArchiveCalledOnce
<1>1. IInv => ArchiveCalledOnce
  BY DEF IInv, Safety
<1>. QED
  BY <1>1, Invariant, PTL

\* Without overlapping invite requests the cap holds, but for those whose
\* INSERT was answered with an error, however large the hangout and whatever
\* answers interleave with the batch.
THEOREM CapHoldsUnlessOverlapped == Spec => []CapUnlessOverlapped
<1>1. IInv => CapUnlessOverlapped
  BY DEF IInv
<1>. QED
  BY <1>1, Invariant, PTL

-----------------------------------------------------------------------------
(* Refinement *)

LEMMA RefinementInit == Init => Lifecycle!LifecycleInit
  BY DEF Init, Lifecycle!LifecycleInit

LEMMA RefinementStep ==
    IInv /\ [Next]_vars =>
        [Lifecycle!LifecycleNext]_Lifecycle!lifecycleVars
<1>. DEFINE Refined == [Lifecycle!LifecycleNext]_Lifecycle!lifecycleVars
            Stutter == /\ hangout'.status = hangout.status
                       /\ invite' = invite /\ messages' = messages
<1>. SUFFICES ASSUME IInv, [Next]_vars PROVE Refined
  OBVIOUS
<1>0. TypeOK /\ RequestsOK
  BY DEF IInv
<1>s. ASSUME Stutter PROVE Refined
  BY <1>s DEF Lifecycle!lifecycleVars
<1>. HIDE DEF Refined
<1>1. ASSUME NEW r \in Req, CreateHangout(r) PROVE Refined
  <2>1. Lifecycle!Create
    BY <1>1 DEF CreateHangout, Lifecycle!Create
  <2>. QED
    BY <2>1 DEF Refined, Lifecycle!LifecycleNext
<1>2. ASSUME NEW r \in Req, Invite(r) PROVE Refined
  <2>1. ASSUME NEW u \in User, InviteAdd(r, u) PROVE Refined
    <3>1. Lifecycle!AddParticipant(u)
      BY <1>0, <2>1 DEF InviteAdd, RequestsOK, FoundHangoutOK,
         Lifecycle!AddParticipant
    <3>. QED
      BY <3>1 DEF Refined, Lifecycle!LifecycleNext
  <2>2. ASSUME NEW u \in User, InviteUnanswered(r, u) PROVE Refined
    <3>1. Lifecycle!AddParticipant(u)
      BY <1>0, <2>2 DEF InviteUnanswered, RequestsOK, FoundHangoutOK,
         Lifecycle!AddParticipant
    <3>. QED
      BY <3>1 DEF Refined, Lifecycle!LifecycleNext
  <2>3. CASE ~\E u \in User : InviteAdd(r, u) \/ InviteUnanswered(r, u)
    BY <1>2, <1>s, <2>3
       DEF Invite, InviteFind, InviteCount, InviteSkip, InviteReturn
  <2>. QED
    BY <2>1, <2>2, <2>3
<1>3. ASSUME NEW r \in Req, Respond(r) PROVE Refined
  <2>1. CASE RespondUpdate(r)
    <3>1. req[r].user \in User /\ req[r].answer \in Answers
      BY <1>0, <2>1 DEF RespondUpdate, TypeOK, Request
    <3>2. Lifecycle!Answer(req[r].user, req[r].answer)
      BY <2>1, <3>1 DEF RespondUpdate, StillPending, Answers,
         Lifecycle!Answer
    <3>. QED
      BY <3>1, <3>2
         DEF Refined, Lifecycle!LifecycleNext, Lifecycle!InviteStatus, Answers
  <2>2. CASE ~RespondUpdate(r)
    BY <1>3, <1>s, <2>2 DEF Respond, RespondFind, RespondTooLate
  <2>. QED
    BY <2>1, <2>2
<1>4. ASSUME NEW r \in Req, Transition(r) PROVE Refined
  <2>1. CASE StatusUpdate(r)
    <3>1. req[r].new \in Lifecycle!MayBecome(hangout.status)
      BY <1>0, <2>1 DEF StatusUpdate, VersionMatches, RequestsOK,
         StatusRequestsOK
    <3>2. Lifecycle!ChangeStatus(req[r].new)
      BY <2>1, <3>1 DEF StatusUpdate, Lifecycle!ChangeStatus
    <3>3. req[r].new \in Lifecycle!HangoutStatus
      BY <3>1 DEF Lifecycle!MayBecome
    <3>. QED
      BY <3>2, <3>3 DEF Refined, Lifecycle!LifecycleNext
  <2>2. CASE ~StatusUpdate(r)
    BY <1>4, <1>s, <2>2 DEF Transition, UpdateHangoutStatus, CancelHangout,
       StatusConflict, CallCreateArchive, CancelList, CancelNotify,
       CancelReturn
  <2>. QED
    BY <2>1, <2>2
<1>5. ASSUME NEW r \in Req, Send(r) PROVE Refined
  <2>1. CASE SendInsert(r)
    <3>1. req[r].user \in User /\ invite[req[r].user] = "accepted"
      BY <1>0, <2>1 DEF SendInsert, TypeOK, Request, RequestsOK,
         SendRequestsOK
    <3>2. Lifecycle!Post(req[r].user)
      BY <2>1, <3>1 DEF SendInsert, Lifecycle!Post
    <3>. QED
      BY <3>1, <3>2 DEF Refined, Lifecycle!LifecycleNext
  <2>2. CASE ~SendInsert(r)
    BY <1>5, <1>s, <2>2 DEF Send, SendFind
  <2>. QED
    BY <2>1, <2>2
<1>6. ASSUME NEW r \in Req, Abandon(r) PROVE Refined
  BY <1>6, <1>s DEF Abandon
<1>7. CASE UNCHANGED vars
  BY <1>7, <1>s DEF vars
<1>. QED
  BY <1>1, <1>2, <1>3, <1>4, <1>5, <1>6, <1>7 DEF Next

\* Interleaved statements behave like the atomic operations of
\* HangoutLifecycle.
THEOREM Refinement == Spec => LifecycleSpec
  BY RefinementInit, RefinementStep, Invariant, PTL
     DEF Spec, LifecycleSpec, Lifecycle!LifecycleSpec

=============================================================================
