----------------------------- MODULE MeetupPin ------------------------------
(***************************************************************************)
(* The meetup pin of one hangout: the proposed place, overwritten by every *)
(* proposal, and the confirmation each participant gives it.  As in module *)
(* Hangout a request is one goroutine whose statements interleave with     *)
(* those of the others.  The hangout and its participants change by the    *)
(* atomic operations of HangoutLifecycle, which module Hangout is shown to *)
(* implement.                                                              *)
(*                                                                         *)
(* A proposal writes the pin and replaces all confirmation rows in one     *)
(* transaction.  Proposals meet at the row lock of the pin (or at          *)
(* UNIQUE (hangout_id) when there is no pin yet) and an answer updates one *)
(* row by its id, so the transaction is one action.                        *)
(***************************************************************************)
EXTENDS HangoutLifecycle

CONSTANTS
    PinReq,      \* request slots: how many requests run at once
    Place,       \* what can be proposed
    MaxVersion   \* bound on the number of proposals, for model checking

ASSUME PinAssumption == MaxVersion \in Nat /\ "none" \notin Place

VARIABLES
    pin,     \* hangout_meetup_pins: place and version, 0 when there is none
    rows,    \* hangout_meetup_pin_confirmations by user
    pinReq,  \* the state of each request
    notices  \* history: notifications handed to the notifier

pinVars       == <<pin, rows, pinReq, notices>>
pinSystemVars == <<pinVars, lifecycleVars>>

Answers == {"confirmed", "declined"}

\* A row's id is a new UUID in every reset; the version of the reset stands
\* for it.  found is history: the id of the row the answer was meant for.
Row   == [version : Nat \ {0}, status : {"pending"} \cup Answers, found : Nat]
NoRow == [version |-> 0, status |-> "none", found |-> 0]
NewRow(version) == [version |-> version, status |-> "pending", found |-> 0]

PinIdle == [at |-> "idle"]

PinRequest ==
    [at : {"idle", "propose_list", "get_pin"}]
      \cup [at : {"propose_find"}, accepted : SUBSET User]
      \cup [at : {"propose_write"}, accepted : SUBSET User, version : Nat]
      \cup [at : {"propose_notify"}, accepted : SUBSET User, version : Nat,
            place : Place]
      \cup [at : {"respond_pin", "respond_find"}, user : User,
            answer : Answers]
      \cup [at : {"respond_update"}, user : User, answer : Answers, id : Nat]
      \cup [at : {"get_list"}, version : Nat]
      \cup [at : {"get_return"}, version : Nat, rows : SUBSET Nat]

NoticeType ==
    {"meetup_pin_proposed", "meetup_pin_changed", "meetup_pin_confirmed"}

PinTypeOK ==
    /\ LifecycleTypeOK
    /\ pin \in [version : Nat, place : Place \cup {"none"}]
    /\ rows \in [User -> Row \cup {NoRow}]
    /\ pinReq \in [PinReq -> PinRequest]
    /\ notices \subseteq [type : NoticeType, to : User]

PinInit ==
    /\ LifecycleInit
    /\ pin = [version |-> 0, place |-> "none"]
    /\ rows = [u \in User |-> NoRow]
    /\ pinReq = [r \in PinReq |-> PinIdle]
    /\ notices = {}

-----------------------------------------------------------------------------
(* Helpers; Bug... are faults for the mutation runs, as in module Hangout. *)

PinGoto(r, state) == pinReq' = [pinReq EXCEPT ![r] = state]
PinFinish(r)      == PinGoto(r, PinIdle)

HangoutIsOpen == status # "none" /\ ~IsFinal(status)

\* Publishing is best-effort: an error is logged and the request goes on.
Notify(type, users) ==
    \E told \in SUBSET users :
        notices' = notices \cup [type : {type}, to : told]

\* Who has to confirm a place: neither the invited nor the declined.
MustConfirm(u) == invite[u] = "accepted"

BugNoVersionCheck(version) == (version = 0) = (pin.version = 0)
\* The pin is still as the proposal found it: INSERT meets no row of the
\* hangout, or the WHERE clause of Update matches its version.
PinUnchanged(version) == version = pin.version

ResetForPin(accepted, version) ==
    [u \in User |-> IF u \in accepted THEN NewRow(version) ELSE NoRow]

BugMatchesUser(u, id) == rows[u] # NoRow
\* WHERE id = $4 still finds the row that FindConfirmation returned.
RowMatches(u, id) == rows[u] # NoRow /\ rows[u].version = id

RowVersions == {rows[u].version : u \in {v \in User : rows[v] # NoRow}}

\* The PinSummary: the pin as found first, the rows as listed afterwards.
Summary(version) ==
    [at |-> "get_return", version |-> version, rows |-> RowVersions]

-----------------------------------------------------------------------------
(* PUT /hangouts/:id/pin.  The caller is the organizer: anybody else gets    *)
(* ErrNotOrganizer.                                                          *)

ProposeFindHangout(r) ==
    /\ pinReq[r] = PinIdle
    /\ HangoutIsOpen
    /\ PinGoto(r, [at |-> "propose_list"])
    /\ UNCHANGED <<pin, rows, notices, lifecycleVars>>

ProposeList(r) ==
    /\ pinReq[r].at = "propose_list"
    /\ PinGoto(r, [at |-> "propose_find",
                   accepted |-> {u \in User : MustConfirm(u)}])
    /\ UNCHANGED <<pin, rows, notices, lifecycleVars>>

ProposeFindPin(r) ==
    /\ pinReq[r].at = "propose_find"
    /\ PinGoto(r, [at |-> "propose_write", accepted |-> pinReq[r].accepted,
                   version |-> pin.version])
    /\ UNCHANGED <<pin, rows, notices, lifecycleVars>>

\* The transaction; the trigger increments the version an Update matched on,
\* and the response carries the incremented value.
ProposeWrite(r, place) ==
    /\ pinReq[r].at = "propose_write"
    /\ PinUnchanged(pinReq[r].version) /\ pin.version < MaxVersion
    /\ pin' = [version |-> pin.version + 1, place |-> place]
    /\ rows' = ResetForPin(pinReq[r].accepted, pin.version + 1)
    /\ PinGoto(r, [at |-> "propose_notify", accepted |-> pinReq[r].accepted,
                   version |-> pinReq[r].version + 1, place |-> place])
    /\ UNCHANGED <<notices, lifecycleVars>>

\* Publishing, then the 200 with the version and place in pinReq[r].
ProposeNotify(r) ==
    /\ pinReq[r].at = "propose_notify"
    /\ Notify(IF pinReq[r].version = 1 THEN "meetup_pin_proposed"
                                    ELSE "meetup_pin_changed",
              pinReq[r].accepted \ {Organizer})
    /\ PinFinish(r)
    /\ UNCHANGED <<pin, rows, lifecycleVars>>

\* ErrPinVersionConflict, or the unique violation of a second first proposal.
ProposeConflict(r) ==
    /\ pinReq[r].at = "propose_write"
    /\ ~PinUnchanged(pinReq[r].version)
    /\ PinFinish(r)
    /\ UNCHANGED <<pin, rows, notices, lifecycleVars>>

-----------------------------------------------------------------------------
(* POST /hangouts/:id/pin/respond.  The request says confirm or decline, not *)
(* which version of the pin the user is looking at.                          *)

RespondFindHangout(r, u, answer) ==
    /\ pinReq[r] = PinIdle
    /\ HangoutIsOpen
    /\ PinGoto(r, [at |-> "respond_pin", user |-> u, answer |-> answer])
    /\ UNCHANGED <<pin, rows, notices, lifecycleVars>>

RespondFindPin(r) ==
    /\ pinReq[r].at = "respond_pin"
    /\ IF pin.version = 0
         THEN PinFinish(r)  \* ErrPinNotFound
         ELSE PinGoto(r, [pinReq[r] EXCEPT !.at = "respond_find"])
    /\ UNCHANGED <<pin, rows, notices, lifecycleVars>>

RespondFindRow(r) ==
    /\ pinReq[r].at = "respond_find"
    /\ LET u == pinReq[r].user IN
        IF rows[u] = NoRow
          THEN PinFinish(r)  \* ErrPinConfirmationNotFound
          ELSE PinGoto(r, [at |-> "respond_update", user |-> u,
                           answer |-> pinReq[r].answer,
                           id |-> rows[u].version])
    /\ UNCHANGED <<pin, rows, notices, lifecycleVars>>

RespondUpdate(r) ==
    /\ pinReq[r].at = "respond_update"
    /\ RowMatches(pinReq[r].user, pinReq[r].id)
    /\ rows' = [rows EXCEPT ![pinReq[r].user] =
                   [version |-> @.version, status |-> pinReq[r].answer,
                    found |-> pinReq[r].id]]
    /\ IF pinReq[r].answer = "confirmed"
         THEN Notify("meetup_pin_confirmed", {Organizer})
         ELSE UNCHANGED notices
    /\ PinFinish(r)
    /\ UNCHANGED <<pin, lifecycleVars>>

\* ErrPinConfirmationNotFound: the row was replaced since it was found.
RespondTooLate(r) ==
    /\ pinReq[r].at = "respond_update"
    /\ ~RowMatches(pinReq[r].user, pinReq[r].id)
    /\ PinFinish(r)
    /\ UNCHANGED <<pin, rows, notices, lifecycleVars>>

-----------------------------------------------------------------------------
(* GET /hangouts/:id/pin *)

GetFindParticipant(r, u) ==
    /\ pinReq[r] = PinIdle
    /\ invite[u] # "none"
    /\ PinGoto(r, [at |-> "get_pin"])
    /\ UNCHANGED <<pin, rows, notices, lifecycleVars>>

GetFindPin(r) ==
    /\ pinReq[r].at = "get_pin"
    /\ IF pin.version = 0
         THEN PinFinish(r)  \* ErrPinNotFound
         ELSE PinGoto(r, [at |-> "get_list", version |-> pin.version])
    /\ UNCHANGED <<pin, rows, notices, lifecycleVars>>

GetList(r) ==
    /\ pinReq[r].at = "get_list"
    /\ PinGoto(r, Summary(pinReq[r].version))
    /\ UNCHANGED <<pin, rows, notices, lifecycleVars>>

GetReturn(r) ==
    /\ pinReq[r].at = "get_return"
    /\ PinFinish(r)
    /\ UNCHANGED <<pin, rows, notices, lifecycleVars>>

-----------------------------------------------------------------------------
PinAbandon(r) ==
    /\ pinReq[r] # PinIdle
    /\ PinFinish(r)
    /\ UNCHANGED <<pin, rows, notices, lifecycleVars>>

\* The hangout and its participants meanwhile.
PinEnvironment ==
    /\ \/ Create
       \/ \E new \in HangoutStatus : ChangeStatus(new)
       \/ \E u \in User :
           \/ AddParticipant(u)
           \/ \E answer \in InviteStatus : Answer(u, answer)
    /\ UNCHANGED pinVars

Propose(r) ==
    \/ ProposeFindHangout(r)
    \/ ProposeList(r)
    \/ ProposeFindPin(r)
    \/ \E place \in Place : ProposeWrite(r, place)
    \/ ProposeNotify(r)
    \/ ProposeConflict(r)

Respond(r) ==
    \/ \E u \in User, answer \in Answers :
          RespondFindHangout(r, u, answer)
    \/ RespondFindPin(r)
    \/ RespondFindRow(r)
    \/ RespondUpdate(r)
    \/ RespondTooLate(r)

Get(r) ==
    \/ \E u \in User : GetFindParticipant(r, u)
    \/ GetFindPin(r)
    \/ GetList(r)
    \/ GetReturn(r)

PinNext ==
    \/ PinEnvironment
    \/ \E r \in PinReq : Propose(r) \/ Respond(r) \/ Get(r) \/ PinAbandon(r)

PinSpec == PinInit /\ [][PinNext]_pinSystemVars

-----------------------------------------------------------------------------
(* What concurrent proposals and answers may never bring about. *)

\* A confirmation row is one of a participant who joined, although the
\* participants are listed before the transaction and invites are answered
\* meanwhile.  It does not outlive the proposal it was asked for: "a new
\* proposal overwrites this row and bumps Version, which resets every
\* confirmation" (domain/meetup_pin.go), also when several proposals race.  And
\* an answer that was on its way while the place changed is refused instead of
\* being counted for the new place: it was meant for the row it is stored in.
AnswersCountForPlace ==
    \A u \in User : rows[u] # NoRow =>
        /\ invite[u] = "accepted"
        /\ rows[u].version = pin.version
        /\ rows[u].status \in Answers => rows[u].found = pin.version

\* No proposal is lost: two proposers are never told the same version for
\* different places, and the version a proposer is told describes the stored
\* pin unless that has moved on.
NoLostProposal ==
    \A r \in PinReq : pinReq[r].at = "propose_notify" =>
        /\ pinReq[r].version <= pin.version
        /\ pinReq[r].version = pin.version => pinReq[r].place = pin.place
        /\ \A s \in PinReq : pinReq[s].at = "propose_notify" /\ s # r =>
               pinReq[s].version # pinReq[r].version
=============================================================================
