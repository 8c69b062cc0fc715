------------------------------- MODULE Circle -------------------------------
(***************************************************************************)
(* The relationship of two users in the circle component: their one        *)
(* connection row (a request, then a friendship) and the two blocks they   *)
(* can put on each other.  Every statement of the component names one      *)
(* pair, so pairs do not interact and one pair is the whole model.         *)
(*                                                                         *)
(* Block and Accept are transactions (for Block the implicit one of its    *)
(* INSERT, whose trigger deletes the connection).  What they have written  *)
(* and not committed is in req, and they hold the row lock of the          *)
(* connection: other writers of the row wait, readers still see the        *)
(* committed version.                                                      *)
(***************************************************************************)
EXTENDS Naturals, FiniteSets

CONSTANTS
    User,         \* the two users
    Req,          \* request slots: how many requests run at once
    MaxRequests   \* bound on connection rows ever inserted, for checking

ASSUME PairAssumption ==
    \E u \in User : \E v \in User \ {u} : User = {u, v}
ASSUME BoundAssumption == MaxRequests \in Nat

VARIABLES
    conn,     \* the circle_connections row of the pair
    blocks,   \* circle_blocks: the users who block the other
    lastId,   \* the id of the newest connection row
    req       \* the state of each request

vars == <<conn, blocks, lastId, req>>

Other(u) == CHOOSE v \in User : v # u

None == [status |-> "none"]
Idle == [at |-> "idle"]

\* by and late are history: who accepted the request, and whether it was
\* inserted when a block of the pair was committed or had already looked for
\* connections to delete.
Connection ==
    [id : Nat, from : User, status : {"pending"}, late : BOOLEAN]
      \cup [id : Nat, from : User, status : {"accepted"}, late : BOOLEAN,
            by : User]

Request ==
    [at : {"idle"}]
      \cup [at : {"send_check"}, user : User, blocked : BOOLEAN]
      \cup [at : {"send_find", "send_insert", "block_scan"}, user : User]
      \cup [at : {"accept_check_own", "accept_lock", "accept_exists",
                  "accept_update"}, user : User, id : Nat]
      \cup [at : {"accept_check_other"}, user : User, id : Nat,
            blocked : BOOLEAN]
      \cup [at : {"block_delete"}, user : User, target : Nat]
      \cup [at : {"block_commit"}, user : User, deleted : BOOLEAN]

TypeOK ==
    /\ conn \in Connection \cup {None}
    /\ blocks \subseteq User
    /\ lastId \in Nat
    /\ req \in [Req -> Request]

Init ==
    /\ conn = None
    /\ blocks = {}
    /\ lastId = 0
    /\ req = [r \in Req |-> Idle]

-----------------------------------------------------------------------------
(* Helpers; Bug... are faults for the mutation runs. *)

Goto(r, state) == req' = [req EXCEPT ![r] = state]
Finish(r)      == Goto(r, Idle)

\* A block whose transaction is still open has deleted the connection.
BeingDeleted == \E r \in Req : req[r].at = "block_commit" /\ req[r].deleted

\* An open transaction holds the row lock of the connection.
Locked ==
    \/ BeingDeleted
    \/ \E r \in Req : req[r].at \in {"accept_exists", "accept_update"}

Pending == conn # None /\ conn.status = "pending"

BugMatchPair(id, u) == Pending
\* WHERE id = $1 AND addressee_id = $2, and the row is still pending.
Matches(id, u) == Pending /\ conn.id = id /\ conn.from = Other(u)

BugOnlyPending == IF Pending THEN conn.id ELSE 0
\* What the trigger of a block deletes: the row in either direction.
BlockTarget == IF conn # None THEN conn.id ELSE 0

InsertIsLate ==
    \/ blocks # {}
    \/ \E r \in Req : req[r].at \in {"block_delete", "block_commit"}

NewRequest(u) ==
    [id |-> lastId + 1, from |-> u, status |-> "pending",
     late |-> InsertIsLate]

-----------------------------------------------------------------------------
(* POST /circle/requests *)

SendCheckOwn(r, u) ==
    /\ req[r] = Idle
    /\ Goto(r, [at |-> "send_check", user |-> u, blocked |-> u \in blocks])
    /\ UNCHANGED <<conn, blocks, lastId>>

\* ErrBlocked when either direction was found blocked.
SendCheckOther(r) ==
    /\ req[r].at = "send_check"
    /\ IF req[r].blocked \/ Other(req[r].user) \in blocks
         THEN Finish(r)
         ELSE Goto(r, [at |-> "send_find", user |-> req[r].user])
    /\ UNCHANGED <<conn, blocks, lastId>>

\* ErrAlreadyConnected or ErrRequestAlreadySent when the pair has a row.
SendFind(r) ==
    /\ req[r].at = "send_find"
    /\ IF conn # None
         THEN Finish(r)
         ELSE Goto(r, [at |-> "send_insert", user |-> req[r].user])
    /\ UNCHANGED <<conn, blocks, lastId>>

\* The unique pair makes the insert wait for an uncommitted deletion of the
\* old row, and fail when there is a row: ErrRequestAlreadySent.
SendInsert(r) ==
    /\ req[r].at = "send_insert"
    /\ ~BeingDeleted /\ lastId < MaxRequests
    /\ IF conn = None
         THEN conn' = NewRequest(req[r].user) /\ lastId' = lastId + 1
         ELSE UNCHANGED <<conn, lastId>>
    /\ Finish(r)
    /\ UNCHANGED blocks

-----------------------------------------------------------------------------
(* POST /circle/requests/:id/accept *)

\* Otherwise ErrRequestNotFound.
AcceptList(r, u) ==
    /\ req[r] = Idle
    /\ Pending /\ conn.from = Other(u)
    /\ Goto(r, [at |-> "accept_check_own", user |-> u, id |-> conn.id])
    /\ UNCHANGED <<conn, blocks, lastId>>

AcceptCheckOwn(r) ==
    /\ req[r].at = "accept_check_own"
    /\ Goto(r, [at |-> "accept_check_other", user |-> req[r].user,
                id |-> req[r].id, blocked |-> req[r].user \in blocks])
    /\ UNCHANGED <<conn, blocks, lastId>>

AcceptCheckOther(r) ==
    /\ req[r].at = "accept_check_other"
    /\ IF req[r].blocked \/ Other(req[r].user) \in blocks
         THEN Finish(r)
         ELSE Goto(r, [at |-> "accept_lock", user |-> req[r].user,
                       id |-> req[r].id])
    /\ UNCHANGED <<conn, blocks, lastId>>

\* SELECT ... FOR UPDATE; ErrRequestNotFound or ErrAlreadyConnected when the
\* request is no longer there to be accepted.
AcceptLock(r) ==
    /\ req[r].at = "accept_lock"
    /\ ~Locked
    /\ IF Matches(req[r].id, req[r].user)
         THEN Goto(r, [req[r] EXCEPT !.at = "accept_exists"])
         ELSE Finish(r)
    /\ UNCHANGED <<conn, blocks, lastId>>

\* The final block check, under the lock.
AcceptExists(r) ==
    /\ req[r].at = "accept_exists"
    /\ IF blocks # {}
         THEN Finish(r)
         ELSE Goto(r, [req[r] EXCEPT !.at = "accept_update"])
    /\ UNCHANGED <<conn, blocks, lastId>>

\* UPDATE and COMMIT.
AcceptUpdate(r) ==
    /\ req[r].at = "accept_update"
    /\ conn' = [id |-> conn.id, from |-> conn.from, status |-> "accepted",
                late |-> conn.late, by |-> req[r].user]
    /\ Finish(r)
    /\ UNCHANGED <<blocks, lastId>>

-----------------------------------------------------------------------------
(* Decline and sever: one DELETE each, of the row the caller names. *)

Decline(u) ==
    /\ ~Locked
    /\ Pending /\ conn.from = Other(u)
    /\ conn' = None
    /\ UNCHANGED <<blocks, lastId, req>>

Sever ==
    /\ ~Locked
    /\ conn # None /\ conn.status = "accepted"
    /\ conn' = None
    /\ UNCHANGED <<blocks, lastId, req>>

-----------------------------------------------------------------------------
(* POST /circle/blocks and DELETE /circle/blocks/:id *)

\* A second block waits for an open one of the same user, and fails once there
\* is one: ErrAlreadyBlocked.
BlockInsert(r, u) ==
    /\ req[r] = Idle
    /\ u \notin blocks
    /\ \A s \in Req : req[s].at \in {"block_scan", "block_delete",
                                     "block_commit"} => req[s].user # u
    /\ Goto(r, [at |-> "block_scan", user |-> u])
    /\ UNCHANGED <<conn, blocks, lastId>>

\* The trigger's DELETE finds the row in a snapshot of its own ...
BlockScan(r) ==
    /\ req[r].at = "block_scan"
    /\ Goto(r, [at |-> "block_delete", user |-> req[r].user,
                target |-> BlockTarget])
    /\ UNCHANGED <<conn, blocks, lastId>>

\* ... and waits for its lock.
BlockDelete(r) ==
    /\ req[r].at = "block_delete"
    /\ req[r].target # 0 => ~Locked
    /\ Goto(r, [at |-> "block_commit", user |-> req[r].user,
                deleted |-> conn # None /\ conn.id = req[r].target])
    /\ UNCHANGED <<conn, blocks, lastId>>

BlockCommit(r) ==
    /\ req[r].at = "block_commit"
    /\ blocks' = blocks \cup {req[r].user}
    /\ conn' = IF req[r].deleted THEN None ELSE conn
    /\ Finish(r)
    /\ UNCHANGED lastId

Unblock(u) ==
    /\ u \in blocks
    /\ blocks' = blocks \ {u}
    /\ UNCHANGED <<conn, lastId, req>>

-----------------------------------------------------------------------------
\* A request stops; its transaction, if it has one, rolls back.
Abandon(r) ==
    /\ req[r] # Idle
    /\ Finish(r)
    /\ UNCHANGED <<conn, blocks, lastId>>

Send(r) ==
    \/ \E u \in User : SendCheckOwn(r, u)
    \/ SendCheckOther(r)
    \/ SendFind(r)
    \/ SendInsert(r)

Accept(r) ==
    \/ \E u \in User : AcceptList(r, u)
    \/ AcceptCheckOwn(r)
    \/ AcceptCheckOther(r)
    \/ AcceptLock(r)
    \/ AcceptExists(r)
    \/ AcceptUpdate(r)

Block(r) ==
    \/ \E u \in User : BlockInsert(r, u)
    \/ BlockScan(r)
    \/ BlockDelete(r)
    \/ BlockCommit(r)

Next ==
    \/ \E r \in Req : Send(r) \/ Accept(r) \/ Block(r) \/ Abandon(r)
    \/ \E u \in User : Decline(u) \/ Unblock(u)
    \/ Sever

Spec == Init /\ [][Next]_vars

-----------------------------------------------------------------------------
(* What concurrent requests of the two users may never bring about. *)

\* Nobody is connected without consent: a friendship was accepted by the user
\* the request was addressed to, also when an accept meets another request
\* than the one it was meant for (declined and sent again, or crossed).
AcceptedByAddressee ==
    conn # None /\ conn.status = "accepted" => conn.by = Other(conn.from)

\* "When a block is inserted, delete any existing connection"
\* (migrations/0006, line 3), also one that is being accepted at that moment:
\* the only connection a block can leave is one whose request was inserted
\* after the block had looked.
BlockEndsConnection ==
    blocks # {} /\ conn # None => conn.late
=============================================================================
