---------------------------- MODULE CircleProofs ----------------------------
(***************************************************************************)
(* Proofs about module Circle, for every number of request slots and       *)
(* connection rows.                                                        *)
(***************************************************************************)
EXTENDS Circle, TLAPS

\* The other of two users is a user, and the way back is the same.
LEMMA OtherOfPair ==
    ASSUME NEW u \in User
    PROVE  /\ Other(u) \in User \ {u}
           /\ Other(Other(u)) = u
<1>1. PICK v \in User \ {u} : User = {u, v}
  BY PairAssumption
<1>2. Other(u) = v
  BY <1>1 DEF Other
<1>3. Other(v) = u
  BY <1>1 DEF Other
<1>. QED
  BY <1>1, <1>2, <1>3

-----------------------------------------------------------------------------
(* The inductive invariant: who holds the row lock of the connection, and    *)
(* what the open transactions know of the row.                               *)

HoldsLock(r) ==
    \/ req[r].at \in {"accept_exists", "accept_update"}
    \/ req[r].at = "block_commit" /\ req[r].deleted

\* The lock is exclusive.
LockIsExclusive ==
    \A r, s \in Req : HoldsLock(r) /\ HoldsLock(s) => r = s

\* While an accept holds the lock, the row stays the pending request to the
\* accepting user that the lock was taken on.
AcceptHasItsRow ==
    \A r \in Req : req[r].at \in {"accept_exists", "accept_update"} =>
        Matches(req[r].id, req[r].user)

\* A row is given an id when it is inserted.
IdIsPositive == conn # None => conn.id > 0

\* The row a block found is still the row, unless that is a late one.
BlockFindsRow ==
    \A r \in Req : req[r].at = "block_delete" =>
        (conn # None /\ ~conn.late => conn.id = req[r].target)

\* A block about to commit without a deletion leaves only a late row.
BlockLeavesLate ==
    \A r \in Req : req[r].at = "block_commit" /\ ~req[r].deleted =>
        (conn # None => conn.late)

IInv ==
    /\ TypeOK
    /\ LockIsExclusive
    /\ AcceptHasItsRow
    /\ IdIsPositive
    /\ BlockFindsRow
    /\ BlockLeavesLate
    /\ AcceptedByAddressee
    /\ BlockEndsConnection

-----------------------------------------------------------------------------
(* Type correctness *)

\* Every variable keeps its type under every step; an accept does because its
\* row is still there.
LEMMA TypeOKStep == TypeOK /\ AcceptHasItsRow /\ [Next]_vars => TypeOK'
<1>. SUFFICES ASSUME TypeOK, AcceptHasItsRow, [Next]_vars PROVE TypeOK'
  OBVIOUS
<1>. USE DEF TypeOK, Request, Connection, None, Goto, Finish, Idle
<1>1. ASSUME NEW r \in Req, Send(r) PROVE TypeOK'
  <2>1. ASSUME NEW u \in User, SendCheckOwn(r, u) PROVE TypeOK'
    BY <2>1 DEF SendCheckOwn
  <2>2. CASE SendCheckOther(r)
    BY <2>2 DEF SendCheckOther
  <2>3. CASE SendFind(r)
    BY <2>3 DEF SendFind
  <2>4. CASE SendInsert(r)
    <3>1. req[r].user \in User /\ InsertIsLate \in BOOLEAN
      BY <2>4 DEF SendInsert, InsertIsLate
    <3>2. NewRequest(req[r].user) \in Connection
      BY <3>1 DEF NewRequest
    <3>. QED
      BY <2>4, <3>2 DEF SendInsert
  <2>. QED
    BY <1>1, <2>1, <2>2, <2>3, <2>4 DEF Send
<1>2. ASSUME NEW r \in Req, Accept(r) PROVE TypeOK'
  <2>1. ASSUME NEW u \in User, AcceptList(r, u) PROVE TypeOK'
    BY <2>1 DEF AcceptList, Pending
  <2>2. CASE AcceptCheckOwn(r)
    BY <2>2 DEF AcceptCheckOwn
  <2>3. CASE AcceptCheckOther(r)
    BY <2>3 DEF AcceptCheckOther
  <2>4. CASE AcceptLock(r)
    BY <2>4 DEF AcceptLock
  <2>5. CASE AcceptExists(r)
    BY <2>5 DEF AcceptExists
  <2>6. CASE AcceptUpdate(r)
    <3>1. conn \in Connection /\ req[r].user \in User
      BY <2>6 DEF AcceptUpdate, AcceptHasItsRow, Matches, Pending
    <3>. QED
      BY <2>6, <3>1 DEF AcceptUpdate
  <2>. QED
    BY <1>2, <2>1, <2>2, <2>3, <2>4, <2>5, <2>6 DEF Accept
<1>3. ASSUME NEW r \in Req, Block(r) PROVE TypeOK'
  <2>1. ASSUME NEW u \in User, BlockInsert(r, u) PROVE TypeOK'
    BY <2>1 DEF BlockInsert
  <2>2. CASE BlockScan(r)
    BY <2>2 DEF BlockScan, BlockTarget
  <2>3. CASE BlockDelete(r)
    BY <2>3 DEF BlockDelete
  <2>4. CASE BlockCommit(r)
    BY <2>4 DEF BlockCommit
  <2>. QED
    BY <1>3, <2>1, <2>2, <2>3, <2>4 DEF Block
<1>4. ASSUME NEW r \in Req, Abandon(r) PROVE TypeOK'
  BY <1>4 DEF Abandon
<1>5. ASSUME NEW u \in User, Decline(u) PROVE TypeOK'
  BY <1>5 DEF Decline
<1>6. ASSUME NEW u \in User, Unblock(u) PROVE TypeOK'
  BY <1>6 DEF Unblock
<1>7. CASE Sever
  BY <1>7 DEF Sever
<1>8. CASE UNCHANGED vars
  BY <1>8 DEF vars
<1>. QED
  BY <1>1, <1>2, <1>3, <1>4, <1>5, <1>6, <1>7, <1>8 DEF Next

-----------------------------------------------------------------------------
(* The steps preserve the invariant. *)

\* Most steps leave the tables alone and take a request to a statement before
\* it holds the lock or has looked for the row to delete.
LEMMA QuietStep ==
    ASSUME IInv, TypeOK', NEW r \in Req, NEW state, Goto(r, state),
           state.at \notin {"accept_exists", "accept_update",
                            "block_delete", "block_commit"},
           UNCHANGED <<conn, blocks>>
    PROVE  IInv'
<1>1. \A s \in Req : s # r => req'[s] = req[s]
  BY DEF IInv, TypeOK, Goto
<1>2. req'[r] = state
  BY DEF IInv, TypeOK, Goto
<1>3. LockIsExclusive'
  BY <1>1, <1>2 DEF IInv, LockIsExclusive, HoldsLock
<1>4. AcceptHasItsRow'
  BY <1>1, <1>2 DEF IInv, AcceptHasItsRow, Matches, Pending
<1>5. BlockFindsRow' /\ BlockLeavesLate'
  BY <1>1, <1>2 DEF IInv, BlockFindsRow, BlockLeavesLate
<1>6. (IdIsPositive /\ AcceptedByAddressee /\ BlockEndsConnection)'
  BY DEF IInv, IdIsPositive, AcceptedByAddressee, BlockEndsConnection
<1>. QED
  BY <1>3, <1>4, <1>5, <1>6 DEF IInv

\* A deletion under no lock leaves no row for anything to go wrong with.
LEMMA DeleteStep ==
    ASSUME IInv, TypeOK', ~Locked, conn' = None, UNCHANGED <<blocks, req>>
    PROVE  IInv'
<1>1. AcceptHasItsRow'
  BY DEF AcceptHasItsRow, Locked
<1>2. LockIsExclusive'
  BY DEF IInv, LockIsExclusive, HoldsLock
<1>3. (IdIsPositive /\ BlockFindsRow /\ BlockLeavesLate)'
  BY DEF IdIsPositive, BlockFindsRow, BlockLeavesLate
<1>4. (AcceptedByAddressee /\ BlockEndsConnection)'
  BY DEF AcceptedByAddressee, BlockEndsConnection
<1>. QED
  BY <1>1, <1>2, <1>3, <1>4 DEF IInv

\* A new row is pending, and late if any block could have missed it.
LEMMA InsertStep ==
    ASSUME IInv, TypeOK', NEW r \in Req, SendInsert(r)
    PROVE  IInv'
<1>1. CASE conn # None
  BY <1>1, QuietStep DEF SendInsert, Finish, Idle
<1>2. CASE conn = None
  <2>. DEFINE new == NewRequest(req[r].user)
  <2>1. /\ conn' = new
        /\ req' = [req EXCEPT ![r] = Idle]
        /\ blocks' = blocks
    BY <1>2 DEF SendInsert, Finish, Goto
  <2>2. /\ \A s \in Req : s # r => req'[s] = req[s]
        /\ req'[r].at = "idle"
    BY <2>1 DEF IInv, TypeOK, Idle
  <2>3. /\ new # None /\ new.status = "pending" /\ new.id > 0
        /\ new.late = InsertIsLate
    BY DEF NewRequest, None, IInv, TypeOK
  <2>. HIDE DEF new
  <2>4. LockIsExclusive'
    BY <2>2 DEF IInv, LockIsExclusive, HoldsLock
  <2>5. AcceptHasItsRow'
    BY <1>2, <2>2 DEF IInv, AcceptHasItsRow, Matches, Pending
  <2>6. ASSUME NEW s \in Req, req'[s].at \in {"block_delete", "block_commit"}
        PROVE  conn'.late
    BY <2>1, <2>2, <2>3, <2>6 DEF InsertIsLate
  <2>7. BlockFindsRow' /\ BlockLeavesLate'
    BY <2>6 DEF BlockFindsRow, BlockLeavesLate
  <2>8. (IdIsPositive /\ AcceptedByAddressee)'
    BY <2>1, <2>3 DEF IdIsPositive, AcceptedByAddressee
  <2>9. BlockEndsConnection'
    BY <2>1, <2>3 DEF BlockEndsConnection, InsertIsLate
  <2>. QED
    BY <2>4, <2>5, <2>7, <2>8, <2>9 DEF IInv
<1>. QED
  BY <1>1, <1>2

\* An accept takes the lock of a row that matches, or gives up.
LEMMA AcceptLockStep ==
    ASSUME IInv, TypeOK', NEW r \in Req, AcceptLock(r)
    PROVE  IInv'
<1>1. CASE ~Matches(req[r].id, req[r].user)
  BY <1>1, QuietStep DEF AcceptLock, Finish, Idle
<1>2. CASE Matches(req[r].id, req[r].user)
  <2>1. /\ \A s \in Req : s # r => req'[s] = req[s]
        /\ req'[r].at = "accept_exists"
        /\ req'[r].id = req[r].id /\ req'[r].user = req[r].user
    <3>1. req[r] \in [at : {"accept_lock"}, user : User, id : Nat]
      BY DEF AcceptLock, IInv, TypeOK, Request
    <3>. QED
      BY <1>2, <3>1 DEF AcceptLock, Goto, IInv, TypeOK
  <2>2. ~Locked /\ UNCHANGED <<conn, blocks>>
    BY DEF AcceptLock
  <2>3. LockIsExclusive'
    BY <2>1, <2>2 DEF LockIsExclusive, HoldsLock, Locked, BeingDeleted
  <2>4. AcceptHasItsRow'
    BY <1>2, <2>1, <2>2 DEF IInv, AcceptHasItsRow, Matches, Pending
  <2>5. BlockFindsRow' /\ BlockLeavesLate'
    BY <2>1, <2>2 DEF IInv, BlockFindsRow, BlockLeavesLate
  <2>6. (IdIsPositive /\ AcceptedByAddressee /\ BlockEndsConnection)'
    BY <2>2 DEF IInv, IdIsPositive, AcceptedByAddressee, BlockEndsConnection
  <2>. QED
    BY <2>3, <2>4, <2>5, <2>6 DEF IInv
<1>. QED
  BY <1>1, <1>2

\* The final block check keeps the lock, or gives up.
LEMMA AcceptExistsStep ==
    ASSUME IInv, TypeOK', NEW r \in Req, AcceptExists(r)
    PROVE  IInv'
<1>1. CASE blocks # {}
  BY <1>1, QuietStep DEF AcceptExists, Finish, Idle
<1>2. CASE blocks = {}
  <2>1. /\ \A s \in Req : s # r => req'[s] = req[s]
        /\ req[r].at = "accept_exists" /\ req'[r].at = "accept_update"
        /\ req'[r].id = req[r].id /\ req'[r].user = req[r].user
    <3>1. req[r] \in [at : {"accept_exists"}, user : User, id : Nat]
      BY DEF AcceptExists, IInv, TypeOK, Request
    <3>. QED
      BY <1>2, <3>1 DEF AcceptExists, Goto, IInv, TypeOK
  <2>2. UNCHANGED <<conn, blocks>>
    BY DEF AcceptExists
  <2>3. LockIsExclusive'
    BY <2>1 DEF IInv, LockIsExclusive, HoldsLock
  <2>4. AcceptHasItsRow'
    BY <2>1, <2>2 DEF IInv, AcceptHasItsRow, Matches, Pending
  <2>5. BlockFindsRow' /\ BlockLeavesLate'
    BY <2>1, <2>2 DEF IInv, BlockFindsRow, BlockLeavesLate
  <2>6. (IdIsPositive /\ AcceptedByAddressee /\ BlockEndsConnection)'
    BY <2>2 DEF IInv, IdIsPositive, AcceptedByAddressee, BlockEndsConnection
  <2>. QED
    BY <2>3, <2>4, <2>5, <2>6 DEF IInv
<1>. QED
  BY <1>1, <1>2

\* The row that is accepted is the request to the accepting user.
LEMMA AcceptUpdateStep ==
    ASSUME IInv, TypeOK', NEW r \in Req, AcceptUpdate(r)
    PROVE  IInv'
<1>1. /\ \A s \in Req : s # r => req'[s] = req[s]
      /\ req[r].at = "accept_update" /\ req'[r].at = "idle"
  BY DEF AcceptUpdate, Finish, Goto, Idle, IInv, TypeOK
<1>2. req[r].user \in User
  BY <1>1 DEF IInv, TypeOK, Request
<1>3. conn # None /\ conn.from = Other(req[r].user)
  BY <1>1 DEF IInv, AcceptHasItsRow, Matches, Pending
<1>4. /\ conn'.id = conn.id /\ conn'.late = conn.late
      /\ conn'.from = conn.from /\ conn'.by = req[r].user
      /\ blocks' = blocks
  BY DEF AcceptUpdate
<1>5. HoldsLock(r)
  BY <1>1 DEF HoldsLock
<1>6. \A s \in Req : ~HoldsLock(s)'
  BY <1>1, <1>5 DEF HoldsLock, IInv, LockIsExclusive
<1>7. LockIsExclusive' /\ AcceptHasItsRow'
  BY <1>6 DEF LockIsExclusive, AcceptHasItsRow, HoldsLock
<1>8. BlockFindsRow' /\ BlockLeavesLate'
  BY <1>1, <1>3, <1>4 DEF IInv, BlockFindsRow, BlockLeavesLate
<1>9. AcceptedByAddressee'
  BY <1>2, <1>3, <1>4, OtherOfPair DEF AcceptedByAddressee
<1>10. (IdIsPositive /\ BlockEndsConnection)'
  BY <1>3, <1>4 DEF IInv, IdIsPositive, BlockEndsConnection
<1>. QED
  BY <1>7, <1>8, <1>9, <1>10 DEF IInv

\* A block takes the row there is as the one to delete.
LEMMA BlockScanStep ==
    ASSUME IInv, TypeOK', NEW r \in Req, BlockScan(r)
    PROVE  IInv'
<1>1. /\ \A s \in Req : s # r => req'[s] = req[s]
      /\ req'[r].at = "block_delete" /\ req'[r].target = BlockTarget
      /\ UNCHANGED <<conn, blocks>>
  BY DEF BlockScan, Goto, IInv, TypeOK
<1>2. LockIsExclusive'
  BY <1>1 DEF IInv, LockIsExclusive, HoldsLock
<1>3. AcceptHasItsRow'
  BY <1>1 DEF IInv, AcceptHasItsRow, Matches, Pending
<1>4. BlockFindsRow' /\ BlockLeavesLate'
  BY <1>1 DEF IInv, BlockFindsRow, BlockLeavesLate, BlockTarget
<1>5. (IdIsPositive /\ AcceptedByAddressee /\ BlockEndsConnection)'
  BY <1>1 DEF IInv, IdIsPositive, AcceptedByAddressee, BlockEndsConnection
<1>. QED
  BY <1>2, <1>3, <1>4, <1>5 DEF IInv

\* A block deletes, and locks, the row it found; another one is late.
LEMMA BlockDeleteStep ==
    ASSUME IInv, TypeOK', NEW r \in Req, BlockDelete(r)
    PROVE  IInv'
<1>. DEFINE found == conn # None /\ conn.id = req[r].target
<1>1. /\ \A s \in Req : s # r => req'[s] = req[s]
      /\ req[r].at = "block_delete" /\ req'[r].at = "block_commit"
      /\ req'[r].deleted = found
      /\ UNCHANGED <<conn, blocks>>
  BY DEF BlockDelete, Goto, IInv, TypeOK
<1>2. found => ~Locked
  BY DEF BlockDelete, IInv, IdIsPositive
<1>3. ~found => (conn # None => conn.late)
  BY <1>1 DEF IInv, TypeOK, Connection, BlockFindsRow
<1>. HIDE DEF found
<1>4. LockIsExclusive'
  BY <1>1, <1>2
  DEF IInv, LockIsExclusive, HoldsLock, Locked, BeingDeleted
<1>5. AcceptHasItsRow'
  BY <1>1 DEF IInv, AcceptHasItsRow, Matches, Pending
<1>6. BlockFindsRow' /\ BlockLeavesLate'
  BY <1>1, <1>3 DEF IInv, BlockFindsRow, BlockLeavesLate
<1>7. (IdIsPositive /\ AcceptedByAddressee /\ BlockEndsConnection)'
  BY <1>1 DEF IInv, IdIsPositive, AcceptedByAddressee, BlockEndsConnection
<1>. QED
  BY <1>4, <1>5, <1>6, <1>7 DEF IInv

\* A committed block has deleted the row, or the row is late.
LEMMA BlockCommitStep ==
    ASSUME IInv, TypeOK', NEW r \in Req, BlockCommit(r)
    PROVE  IInv'
<1>1. /\ \A s \in Req : s # r => req'[s] = req[s]
      /\ req[r].at = "block_commit" /\ req'[r].at = "idle"
      /\ conn' = IF req[r].deleted THEN None ELSE conn
  BY DEF BlockCommit, Finish, Goto, Idle, IInv, TypeOK
<1>2. LockIsExclusive'
  BY <1>1 DEF IInv, LockIsExclusive, HoldsLock
<1>3. AcceptHasItsRow'
  <2>1. CASE req[r].deleted
    BY <1>1, <2>1
    DEF IInv, LockIsExclusive, HoldsLock, AcceptHasItsRow
  <2>2. CASE ~req[r].deleted
    BY <1>1, <2>2 DEF IInv, AcceptHasItsRow, Matches, Pending
  <2>. QED
    BY <2>1, <2>2
<1>4. BlockFindsRow' /\ BlockLeavesLate'
  BY <1>1 DEF IInv, BlockFindsRow, BlockLeavesLate
<1>5. BlockEndsConnection'
  BY <1>1 DEF IInv, BlockLeavesLate, BlockEndsConnection
<1>6. (IdIsPositive /\ AcceptedByAddressee)'
  BY <1>1 DEF IInv, IdIsPositive, AcceptedByAddressee
<1>. QED
  BY <1>2, <1>3, <1>4, <1>5, <1>6 DEF IInv

\* Lifting a block tells nobody anything about the row.
LEMMA UnblockStep ==
    ASSUME IInv, TypeOK', NEW u \in User, Unblock(u)
    PROVE  IInv'
<1>1. UNCHANGED <<conn, req>> /\ blocks # {}
  BY DEF Unblock
<1>2. (LockIsExclusive /\ AcceptHasItsRow)'
  BY <1>1 DEF IInv, LockIsExclusive, HoldsLock, AcceptHasItsRow, Matches,
              Pending
<1>3. (BlockFindsRow /\ BlockLeavesLate)'
  BY <1>1 DEF IInv, BlockFindsRow, BlockLeavesLate
<1>4. (IdIsPositive /\ AcceptedByAddressee /\ BlockEndsConnection)'
  BY <1>1 DEF IInv, IdIsPositive, AcceptedByAddressee, BlockEndsConnection
<1>. QED
  BY <1>2, <1>3, <1>4 DEF IInv

\* Every step of every request preserves the invariant.
LEMMA InvariantStep == IInv /\ [Next]_vars => IInv'
<1>. SUFFICES ASSUME IInv, [Next]_vars PROVE IInv'
  OBVIOUS
<1>0. TypeOK'
  BY TypeOKStep DEF IInv
<1>1. ASSUME NEW r \in Req, Send(r) PROVE IInv'
  <2>1. ASSUME NEW u \in User, SendCheckOwn(r, u) PROVE IInv'
    BY <1>0, <2>1, QuietStep DEF SendCheckOwn
  <2>2. CASE SendCheckOther(r)
    BY <1>0, <2>2, QuietStep DEF SendCheckOther, Finish, Idle
  <2>3. CASE SendFind(r)
    BY <1>0, <2>3, QuietStep DEF SendFind, Finish, Idle
  <2>4. CASE SendInsert(r)
    BY <1>0, <2>4, InsertStep
  <2>. QED
    BY <1>1, <2>1, <2>2, <2>3, <2>4 DEF Send
<1>2. ASSUME NEW r \in Req, Accept(r) PROVE IInv'
  <2>1. ASSUME NEW u \in User, AcceptList(r, u) PROVE IInv'
    BY <1>0, <2>1, QuietStep DEF AcceptList
  <2>2. CASE AcceptCheckOwn(r)
    BY <1>0, <2>2, QuietStep DEF AcceptCheckOwn
  <2>3. CASE AcceptCheckOther(r)
    BY <1>0, <2>3, QuietStep DEF AcceptCheckOther, Finish, Idle
  <2>4. CASE AcceptLock(r)
    BY <1>0, <2>4, AcceptLockStep
  <2>5. CASE AcceptExists(r)
    BY <1>0, <2>5, AcceptExistsStep
  <2>6. CASE AcceptUpdate(r)
    BY <1>0, <2>6, AcceptUpdateStep
  <2>. QED
    BY <1>2, <2>1, <2>2, <2>3, <2>4, <2>5, <2>6 DEF Accept
<1>3. ASSUME NEW r \in Req, Block(r) PROVE IInv'
  <2>1. ASSUME NEW u \in User, BlockInsert(r, u) PROVE IInv'
    BY <1>0, <2>1, QuietStep DEF BlockInsert
  <2>2. CASE BlockScan(r)
    BY <1>0, <2>2, BlockScanStep
  <2>3. CASE BlockDelete(r)
    BY <1>0, <2>3, BlockDeleteStep
  <2>4. CASE BlockCommit(r)
    BY <1>0, <2>4, BlockCommitStep
  <2>. QED
    BY <1>3, <2>1, <2>2, <2>3, <2>4 DEF Block
<1>4. ASSUME NEW r \in Req, Abandon(r) PROVE IInv'
  BY <1>0, <1>4, QuietStep DEF Abandon, Finish, Idle
<1>5. ASSUME NEW u \in User, Decline(u) PROVE IInv'
  BY <1>0, <1>5, DeleteStep DEF Decline
<1>6. ASSUME NEW u \in User, Unblock(u) PROVE IInv'
  BY <1>0, <1>6, UnblockStep
<1>7. CASE Sever
  BY <1>0, <1>7, DeleteStep DEF Sever
<1>8. CASE UNCHANGED vars
  <2>1. UNCHANGED <<conn, blocks, req>>
    BY <1>8 DEF vars
  <2>2. (LockIsExclusive /\ AcceptHasItsRow)'
    BY <2>1 DEF IInv, LockIsExclusive, HoldsLock, AcceptHasItsRow, Matches,
                Pending
  <2>3. (BlockFindsRow /\ BlockLeavesLate)'
    BY <2>1 DEF IInv, BlockFindsRow, BlockLeavesLate
  <2>4. (IdIsPositive /\ AcceptedByAddressee /\ BlockEndsConnection)'
    BY <2>1 DEF IInv, IdIsPositive, AcceptedByAddressee, BlockEndsConnection
  <2>. QED
    BY <1>0, <2>2, <2>3, <2>4 DEF IInv
<1>. QED
  BY <1>1, <1>2, <1>3, <1>4, <1>5, <1>6, <1>7, <1>8 DEF Next

-----------------------------------------------------------------------------
(* The theorems *)

\* The inductive invariant holds: nobody ever holds the row lock together with
\* another, and an accept holding it has its row.
THEOREM Invariant == Spec => []IInv
<1>1. Init => IInv
  <2>. SUFFICES ASSUME Init PROVE IInv
    OBVIOUS
  <2>1. conn = None /\ blocks = {} /\ \A r \in Req : req[r].at = "idle"
    BY DEF Init, Idle
  <2>2. TypeOK
    BY DEF Init, TypeOK, Idle, Request
  <2>3. LockIsExclusive /\ AcceptHasItsRow
    BY <2>1 DEF LockIsExclusive, AcceptHasItsRow, HoldsLock
  <2>4. BlockFindsRow /\ BlockLeavesLate
    BY <2>1 DEF BlockFindsRow, BlockLeavesLate
  <2>5. IdIsPositive /\ AcceptedByAddressee /\ BlockEndsConnection
    BY <2>1 DEF IdIsPositive, AcceptedByAddressee, BlockEndsConnection
  <2>. QED
    BY <2>2, <2>3, <2>4, <2>5 DEF IInv
<1>. QED
  BY <1>1, InvariantStep, PTL DEF Spec

\* The row, the blocks, the ids and every request keep their types.
THEOREM TypeCorrect == Spec => []TypeOK
<1>1. IInv => TypeOK
  BY DEF IInv
<1>. QED
  BY <1>1, Invariant, PTL

\* Nobody is connected without consent: the friendship was accepted by the
\* user the request was addressed to, however the requests of the two users
\* interleave.
THEOREM ConsentIsNeeded == Spec => []AcceptedByAddressee
<1>1. IInv => AcceptedByAddressee
  BY DEF IInv
<1>. QED
  BY <1>1, Invariant, PTL

\* A block ends every connection, one being accepted meanwhile included, but
\* for a request inserted after the block had looked.
THEOREM BlocksEndConnections == Spec => []BlockEndsConnection
<1>1. IInv => BlockEndsConnection
  BY DEF IInv
<1>. QED
  BY <1>1, Invariant, PTL
=============================================================================
