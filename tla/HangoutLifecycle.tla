-------------------------- MODULE HangoutLifecycle --------------------------
(***************************************************************************)
(* What the hangout component promises the rest of the backend about one   *)
(* hangout: its status, the invite of every user and its chat, each        *)
(* changed by one atomic operation whose condition holds at the moment of  *)
(* the change.  Module Hangout, which interleaves the database statements  *)
(* of concurrent requests, implements this specification; the modules      *)
(* MeetupPin and Archive use it as their environment.                      *)
(*                                                                         *)
(* Two conditions a reader may expect are absent, because the code does    *)
(* not keep them: AddParticipant and Post also happen on a final hangout.  *)
(***************************************************************************)
EXTENDS Naturals, Sequences, FiniteSets

CONSTANTS
    User,          \* accounts that take part in the run
    Organizer,     \* the account that creates the hangout
    MaxMessages    \* bound on the chat, for model checking

ASSUME UserAssumption == IsFiniteSet(User) /\ Organizer \in User
ASSUME MaxMessagesAssumption == MaxMessages \in Nat

VARIABLES
    status,    \* hangouts.status, "none" before the row exists
    invite,    \* hangout_participants.invite_status by user, "none": no row
    messages   \* hangout_messages as the sequence of its senders

lifecycleVars == <<status, invite, messages>>

HangoutStatus == {"planned", "ongoing", "completed", "cancelled"}
InviteStatus  == {"pending", "accepted", "rejected"}

\* Whether a hangout in status s can no longer change.
IsFinal(s) == s \in {"completed", "cancelled"}

\* Whether an invite has been accepted or rejected.
IsAnswered(i) == i \in {"accepted", "rejected"}

\* The statuses a hangout in status s may be moved to: the one step forward of
\* the status endpoint, and cancellation.
MayBecome(s) ==
    CASE s = "planned" -> {"ongoing", "cancelled"}
      [] s = "ongoing" -> {"completed", "cancelled"}
      [] OTHER         -> {}

LifecycleTypeOK ==
    /\ status \in HangoutStatus \cup {"none"}
    /\ invite \in [User -> InviteStatus \cup {"none"}]
    /\ messages \in Seq(User)

LifecycleInit ==
    /\ status = "none"
    /\ invite = [u \in User |-> "none"]
    /\ messages = <<>>

\* The row and the organizer's accepted participation appear together.
Create ==
    /\ status = "none"
    /\ status' = "planned"
    /\ invite' = [invite EXCEPT ![Organizer] = "accepted"]
    /\ UNCHANGED messages

ChangeStatus(new) ==
    /\ new \in MayBecome(status)
    /\ status' = new
    /\ UNCHANGED <<invite, messages>>

AddParticipant(u) ==
    /\ status # "none"
    /\ invite[u] = "none"
    /\ invite' = [invite EXCEPT ![u] = "pending"]
    /\ UNCHANGED <<status, messages>>

Answer(u, answer) ==
    /\ IsAnswered(answer)
    /\ invite[u] = "pending"
    /\ invite' = [invite EXCEPT ![u] = answer]
    /\ UNCHANGED <<status, messages>>

Post(u) ==
    /\ invite[u] = "accepted"
    /\ Len(messages) < MaxMessages
    /\ messages' = Append(messages, u)
    /\ UNCHANGED <<status, invite>>

LifecycleNext ==
    \/ Create
    \/ \E new \in HangoutStatus : ChangeStatus(new)
    \/ \E u \in User :
        \/ AddParticipant(u)
        \/ \E answer \in InviteStatus : Answer(u, answer)
        \/ Post(u)

LifecycleSpec == LifecycleInit /\ [][LifecycleNext]_lifecycleVars
=============================================================================
