--------------------- MODULE ProfileAndSuggestionProofs ---------------------
(***************************************************************************)
(* The safety properties of the two components that keep what is known of  *)
(* users: Profile, for any number of them, of requests, texts, keys and    *)
(* interests, and Recommendation, for any finite set of activities and any *)
(* number of requests and failures; both without the bounds.               *)
(***************************************************************************)
EXTENDS Profile, Recommendation, FiniteSetTheorems, TLAPS

\* The fields that a request has at each of its steps.
LEMMA Fields ==
    ASSUME TypeOK, NEW r \in Req
    PROVE  /\ req[r].at = "insert" =>
                req[r].owner \in Owner /\ req[r].text \in Text
           /\ req[r].at = "patch" => /\ req[r].owner \in User
                                     /\ req[r].read \in Row
                                     /\ req[r].text \in Text \cup {None}
                                     /\ req[r].picture \in Picture
           /\ req[r].at = "put" => req[r].owner \in User /\ req[r].read \in Row
           /\ req[r].at = "update" => /\ req[r].owner \in User
                                      /\ req[r].read \in Row
                                      /\ req[r].picture \in Key
           /\ req[r].at = "delete" => req[r].picture \in Key
           /\ req[r].at = "set_delete" =>
                req[r] \in [at : {"set_delete"}, asked : SUBSET Interest,
                            base : Nat, seen : [Interest -> Nat]]
           /\ req[r].at \in {"set_insert", "set_commit"} =>
                req[r] \in [at : {"set_insert", "set_commit"},
                            asked : SUBSET Interest, base : Nat,
                            gone : SUBSET Interest]
  <1>1. req[r] \in Request
    BY DEF TypeOK
  <1>2. /\ req[r].at = "insert" =>
             req[r].owner \in Owner /\ req[r].text \in Text
        /\ req[r].at = "patch" => /\ req[r].owner \in User
                                  /\ req[r].read \in Row
                                  /\ req[r].text \in Text \cup {None}
                                  /\ req[r].picture \in Picture
    BY <1>1 DEF Request, Idle
  <1>3. /\ req[r].at = "put" => req[r].owner \in User /\ req[r].read \in Row
        /\ req[r].at = "update" => /\ req[r].owner \in User
                                   /\ req[r].read \in Row
                                   /\ req[r].picture \in Key
        /\ req[r].at = "delete" => req[r].picture \in Key
    BY <1>1 DEF Request, Idle
  <1>4. req[r].at = "set_delete" =>
                req[r] \in [at : {"set_delete"}, asked : SUBSET Interest,
                            base : Nat, seen : [Interest -> Nat]]
    BY <1>1 DEF Request, Idle
  <1>5. req[r].at \in {"set_insert", "set_commit"} =>
                req[r] \in [at : {"set_insert", "set_commit"},
                            asked : SUBSET Interest, base : Nat,
                            gone : SUBSET Interest]
    BY <1>1 DEF Request, Idle
  <1> QED
    BY <1>2, <1>3, <1>4, <1>5

\* A row that is there is a Row, and the rows of users are among the rows.
LEMMA Rows ==
    ASSUME TypeOK
    PROVE  /\ \A o \in Owner : row[o] # None => row[o] \in Row
           /\ None \notin Row
           /\ User \subseteq Owner
  BY NoneAssumption, OwnerAssumption DEF TypeOK, Row, Picture

\* What an edit writes.
LEMMA UpdateTypes ==
    ASSUME TypeOK, NEW u \in User, NEW read \in Row,
           NEW t \in Text \cup {None}, NEW p \in Picture,
           row[u] # None, Update(u, read, t, p)
    PROVE  /\ row' \in [Owner -> Row \cup {None}]
           /\ meant' \in [Owner -> [text : Text \cup {None},
                                    picture : Picture]]
           /\ row'[u] = [text    |-> Or(t, read.text),
                         picture |-> Or(p, read.picture),
                         version |-> row[u].version + 1]
           /\ row'[u] \in Row
           /\ \A o \in Owner \ {u} : row'[o] = row[o] /\ meant'[o] = meant[o]
           /\ meant'[u].text = Or(t, meant[u].text)
           /\ meant'[u].picture = Or(p, meant[u].picture)
  <1> DEFINE new == [text    |-> Or(t, read.text),
                     picture |-> Or(p, read.picture),
                     version |-> row[u].version + 1]
             told == [text    |-> Or(t, meant[u].text),
                      picture |-> Or(p, meant[u].picture)]
  <1>0. u \in Owner /\ row[u] \in Row
    BY Rows
  <1>1. /\ row' = [row EXCEPT ![u] = new]
        /\ meant' = [meant EXCEPT ![u] = told]
    BY DEF Update
  <1>2. new \in Row
    BY <1>0 DEF Or, Row, Picture
  <1>3. told \in [text : Text \cup {None}, picture : Picture]
    BY <1>0 DEF TypeOK, Or, Picture
  <1>4. told.text = Or(t, meant[u].text)
        /\ told.picture = Or(p, meant[u].picture)
    OBVIOUS
  <1> HIDE DEF new, told
  <1>5. /\ row' \in [Owner -> Row \cup {None}]
        /\ meant' \in [Owner -> [text : Text \cup {None}, picture : Picture]]
        /\ row'[u] = new /\ meant'[u] = told
        /\ \A o \in Owner \ {u} : row'[o] = row[o] /\ meant'[o] = meant[o]
    BY <1>0, <1>1, <1>2, <1>3 DEF TypeOK
  <1> QED
    BY <1>2, <1>4, <1>5 DEF new

\* A request goes on to a state.
LEMMA RequestTypes ==
    ASSUME TypeOK, NEW r \in Req, NEW s \in Request, Goto(r, s)
    PROVE  /\ req' \in [Req -> Request]
           /\ req'[r] = s
           /\ \A q \in Req \ {r} : req'[q] = req[q]
  BY DEF TypeOK, Goto

-----------------------------------------------------------------------------
\* Types: creating a profile, and editing its text.
LEMMA CreateTypes ==
    ASSUME TypeOK, NEW r \in Req, Create(r) \/ Patch(r)
    PROVE  TypeOK'
  <1>0. Idle \in Request
    BY DEF Request
  <1>1. CASE \E o \in Owner, t \in Text : CreateFind(r, o, t)
    <2>1. PICK o \in Owner, t \in Text : CreateFind(r, o, t)
      BY <1>1
    <2>2. [at |-> "insert", owner |-> o, text |-> t] \in Request
      BY DEF Request
    <2>3. req' \in [Req -> Request]
      BY <2>1, <2>2, RequestTypes DEF CreateFind
    <2> QED
      BY <2>1, <2>3 DEF CreateFind, TypeOK, rowVars, interestVars
  <1>2. CASE CreateInsert(r)
    <2>1. req' \in [Req -> Request]
      BY <1>0, <1>2, RequestTypes DEF CreateInsert, Finish
    <2>2. req[r].owner \in Owner /\ req[r].text \in Text
      BY <1>2, Fields DEF CreateInsert
    <2>3. [text |-> req[r].text, picture |-> None, version |-> 1] \in Row
      BY <2>2 DEF Row, Picture
    <2>4. [text |-> req[r].text, picture |-> None]
            \in [text : Text \cup {None}, picture : Picture]
      BY <2>2 DEF Picture
    <2>5. /\ row' \in [Owner -> Row \cup {None}]
          /\ meant' \in [Owner -> [text : Text \cup {None}, picture : Picture]]
      <3>1. PICK new \in Row : new = [text |-> req[r].text, picture |-> None,
                                      version |-> 1]
        BY <2>3
      <3>2. PICK told \in [text : Text \cup {None}, picture : Picture] :
                   told = [text |-> req[r].text, picture |-> None]
        BY <2>4
      <3>3. \/ row' = [row EXCEPT ![req[r].owner] = new]
               /\ meant' = [meant EXCEPT ![req[r].owner] = told]
            \/ UNCHANGED <<row, meant>>
        BY <1>2, <3>1, <3>2 DEF CreateInsert
      <3> QED
        BY <2>2, <3>3 DEF TypeOK
    <2> QED
      BY <1>2, <2>1, <2>5 DEF CreateInsert, TypeOK, interestVars
  <1>3. CASE \E u \in User, t \in Text \cup {None}, p \in Picture :
               PatchFind(r, u, t, p)
    <2>1. PICK u \in User, t \in Text \cup {None}, p \in Picture :
                 PatchFind(r, u, t, p)
      BY <1>3
    <2>2. row[u] \in Row
      BY <2>1, Rows DEF PatchFind, Editable
    <2>3. [at |-> "patch", owner |-> u, read |-> row[u], text |-> t,
           picture |-> p] \in Request
      BY <2>2 DEF Request
    <2>4. req' \in [Req -> Request]
      BY <2>1, <2>3, RequestTypes DEF PatchFind
    <2> QED
      BY <2>1, <2>4 DEF PatchFind, TypeOK, rowVars, interestVars
  <1>4. CASE PatchUpdate(r)
    <2>1. req' \in [Req -> Request]
      BY <1>0, <1>4, RequestTypes DEF PatchUpdate, Finish
    <2>2. CASE Current(req[r].owner, req[r].read)
      <3>1. /\ req[r].owner \in User /\ req[r].read \in Row
            /\ req[r].text \in Text \cup {None} /\ req[r].picture \in Picture
        BY <1>4, Fields DEF PatchUpdate
      <3>2. /\ row[req[r].owner] # None
            /\ Update(req[r].owner, req[r].read, req[r].text, req[r].picture)
            /\ claimed' = claimed \cup ({req[r].picture} \ {None})
        BY <1>4, <2>2 DEF PatchUpdate, Current
      <3>3. /\ row' \in [Owner -> Row \cup {None}]
            /\ meant' \in [Owner -> [text : Text \cup {None},
                                     picture : Picture]]
        BY <3>1, <3>2, UpdateTypes
      <3>4. claimed' \subseteq Key
        BY <3>1, <3>2 DEF TypeOK, Picture
      <3> QED
        BY <1>4, <2>1, <3>3, <3>4 DEF PatchUpdate, TypeOK, interestVars
    <2>3. CASE ~Current(req[r].owner, req[r].read)
      BY <1>4, <2>1, <2>3 DEF PatchUpdate, TypeOK, interestVars
    <2> QED
      BY <2>2, <2>3
  <1> QED
    BY <1>1, <1>2, <1>3, <1>4 DEF Create, Patch

\* Types: the picture.
LEMMA UploadTypes ==
    ASSUME TypeOK, NEW r \in Req, Upload(r)
    PROVE  TypeOK'
  <1>0. Idle \in Request
    BY DEF Request
  <1>1. CASE \E u \in User : UploadFind(r, u)
    <2>0. PICK u \in User : UploadFind(r, u)
      BY <1>1
    <2>1. row[u] \in Row
      BY <2>0, Rows DEF UploadFind, Editable
    <2>2. [at |-> "put", owner |-> u, read |-> row[u]] \in Request
      BY <2>1 DEF Request
    <2>3. req' \in [Req -> Request]
      BY <2>0, <2>2, RequestTypes DEF UploadFind
    <2> QED
      BY <2>0, <2>3 DEF UploadFind, TypeOK, rowVars, interestVars
  <1>2. CASE \E p \in Key : UploadPut(r, p)
    <2>1. PICK p \in Key : UploadPut(r, p)
      BY <1>2
    <2>2. req[r].owner \in User /\ req[r].read \in Row
      BY <2>1, Fields DEF UploadPut
    <2>3. [at |-> "update", owner |-> req[r].owner, read |-> req[r].read,
           picture |-> p] \in Request
      BY <2>2 DEF Request
    <2>4. req' \in [Req -> Request]
      BY <2>1, <2>3, RequestTypes DEF UploadPut
    <2> QED
      BY <2>1, <2>4 DEF UploadPut, Stored, TypeOK, interestVars
  <1>3. CASE UploadUpdate(r)
    <2>1. /\ req[r].owner \in User /\ req[r].read \in Row
          /\ req[r].picture \in Key /\ req[r].picture \in Picture
      BY <1>3, Fields DEF UploadUpdate, Picture
    <2>2. req' \in [Req -> Request]
      <3>1. CASE Goto(r, [at |-> "delete", picture |-> req[r].read.picture])
                 /\ req[r].read.picture # None
        <4>1. [at |-> "delete", picture |-> req[r].read.picture] \in Request
          BY <2>1, <3>1 DEF Request, Row, Picture
        <4> QED
          BY <3>1, <4>1, RequestTypes
      <3>2. CASE Finish(r)
        BY <1>0, <3>2, RequestTypes DEF Finish
      <3> QED
        BY <1>3, <3>1, <3>2 DEF UploadUpdate
    <2>3. CASE Current(req[r].owner, req[r].read)
      <3>1. /\ Update(req[r].owner, req[r].read, None, req[r].picture)
            /\ row[req[r].owner] # None
        BY <1>3, <2>3 DEF UploadUpdate, Current
      <3>2. /\ row' \in [Owner -> Row \cup {None}]
            /\ meant' \in [Owner -> [text : Text \cup {None},
                                     picture : Picture]]
        BY <2>1, <3>1, UpdateTypes
      <3> QED
        BY <1>3, <2>2, <3>2 DEF UploadUpdate, TypeOK, interestVars
    <2>4. CASE ~Current(req[r].owner, req[r].read)
      BY <1>3, <2>2, <2>4 DEF UploadUpdate, TypeOK, interestVars
    <2> QED
      BY <2>3, <2>4
  <1>4. CASE UploadDelete(r)
    <2>1. req' \in [Req -> Request]
      BY <1>0, <1>4, RequestTypes DEF UploadDelete, Finish
    <2> QED
      BY <1>4, <2>1 DEF UploadDelete, TypeOK, interestVars
  <1> QED
    BY <1>1, <1>2, <1>3, <1>4 DEF Upload

\* Types: the interests.
LEMMA SetTypes ==
    ASSUME TypeOK, NEW r \in Req, SetInterests(r) \/ Abandon(r)
    PROVE  TypeOK'
  <1>0. Idle \in Request
    BY DEF Request
  <1>1. CASE \E asked \in SUBSET Interest : SetBegin(r, asked)
    <2>1. PICK asked \in SUBSET Interest : SetBegin(r, asked)
      BY <1>1
    <2>2. [at |-> "set_delete", asked |-> asked, base |-> sets,
           seen |-> interests] \in Request
      BY DEF Request, TypeOK
    <2>3. req' \in [Req -> Request]
      BY <2>1, <2>2, RequestTypes DEF SetBegin
    <2> QED
      BY <2>1, <2>3 DEF SetBegin, TypeOK, rowVars, interestVars
  <1>2. CASE SetDelete(r)
    <2>1. [at |-> "set_insert", asked |-> req[r].asked, base |-> req[r].base,
           gone |-> Doomed(req[r].seen)] \in Request
      BY <1>2, Fields DEF SetDelete, Doomed, Request
    <2>2. req' \in [Req -> Request]
      BY <1>2, <2>1, RequestTypes DEF SetDelete
    <2> QED
      BY <1>2, <2>2 DEF SetDelete, TypeOK, rowVars, interestVars
  <1>3. CASE SetInsert(r)
    <2>1. [req[r] EXCEPT !.at = "set_commit"] \in Request
      BY <1>3, Fields DEF SetInsert, Request
    <2>2. req' \in [Req -> Request]
      BY <1>0, <1>3, <2>1, RequestTypes DEF SetInsert, Finish
    <2> QED
      BY <1>3, <2>2 DEF SetInsert, TypeOK, rowVars, interestVars
  <1>4. CASE SetCommit(r)
    <2>1. req' \in [Req -> Request]
      BY <1>0, <1>4, RequestTypes DEF SetCommit, Finish
    <2>2. req[r].asked \subseteq Interest /\ req[r].gone \subseteq Interest
      BY <1>4, Fields DEF SetCommit
    <2> QED
      BY <1>4, <2>1, <2>2 DEF SetCommit, TypeOK, rowVars
  <1>5. CASE Abandon(r)
    <2>1. req' \in [Req -> Request]
      BY <1>0, <1>5, RequestTypes DEF Abandon, Finish
    <2> QED
      BY <1>5, <2>1 DEF Abandon, TypeOK, rowVars, interestVars
  <1> QED
    BY <1>1, <1>2, <1>3, <1>4, <1>5 DEF SetInterests

\* The initial state is of the types.
LEMMA InitTypes ==
    ASSUME Init
    PROVE  TypeOK
  <1>1. [text |-> None, picture |-> None]
          \in [text : Text \cup {None}, picture : Picture]
    BY DEF Picture
  <1>2. meant \in [Owner -> [text : Text \cup {None}, picture : Picture]]
    BY <1>1 DEF Init
  <1>3. req \in [Req -> Request]
    BY DEF Init, Request
  <1> QED
    BY <1>2, <1>3 DEF Init, TypeOK

\* Every variable of Profile keeps its type.
THEOREM TypeCorrect == Spec => []TypeOK
<1>1. Init => TypeOK
  BY InitTypes
<1>2. TypeOK /\ [Next]_vars => TypeOK'
  <2>1. TypeOK /\ Next => TypeOK'
    BY CreateTypes, UploadTypes, SetTypes DEF Next
  <2>2. TypeOK /\ UNCHANGED vars => TypeOK'
    BY DEF TypeOK, vars, rowVars, interestVars
  <2> QED
    BY <2>1, <2>2
<1> QED
  BY <1>1, <1>2, PTL DEF Spec

-----------------------------------------------------------------------------
(* Edits *)

\* What a request has read is the row itself as long as the version matches:
\* the version grows with every write, and a row never goes.
UpToDate(s) ==
    s.at \in {"patch", "put", "update"} =>
        /\ row[s.owner] # None
        /\ s.read.version <= row[s.owner].version
        /\ s.read.version = row[s.owner].version => s.read = row[s.owner]

ReadsHold == \A r \in Req : UpToDate(req[r])

EditInv == TypeOK /\ ReadsHold /\ NoLostEdit

\* A step that writes no row keeps what was read, if what the request that
\* takes it holds afterwards is up to date.
LEMMA ReadsFrame ==
    ASSUME TypeOK, ReadsHold, NEW r \in Req, NEW s \in Request, Goto(r, s),
           UNCHANGED row, UpToDate(s)
    PROVE  ReadsHold'
  <1>1. \A q \in Req : req'[q] = s \/ req'[q] = req[q]
    BY RequestTypes
  <1> QED
    BY <1>1 DEF ReadsHold, UpToDate

\* A request that only stops, or that has nothing to do with the row.
LEMMA OtherReads ==
    ASSUME TypeOK, ReadsHold, NEW r \in Req, NEW s \in Request, Goto(r, s),
           UNCHANGED row, s.at \notin {"patch", "put", "update"}
    PROVE  ReadsHold'
  BY ReadsFrame DEF UpToDate

\* A user's row that is read now is up to date.
LEMMA JustRead ==
    ASSUME TypeOK, NEW u \in User, row[u] # None, NEW s,
           s.owner = u, s.read = row[u]
    PROVE  UpToDate(s)
  <1>1. row[u].version \in Nat
    BY Rows DEF Row
  <1> QED
    BY <1>1 DEF UpToDate

\* The update of a row that is as it was read changes just what it is to
\* change, and makes everything read before out of date.
LEMMA UpdateKeeps ==
    ASSUME EditInv, NEW r \in Req, NEW s \in Request, Goto(r, s),
           s.at \notin {"patch", "put", "update"},
           req[r].at \in {"patch", "update"}, NEW u \in User,
           u = req[r].owner, Current(u, req[r].read),
           NEW t \in Text \cup {None}, NEW p \in Picture,
           Update(u, req[r].read, t, p)
    PROVE  ReadsHold' /\ NoLostEdit'
  <1>1. req[r].read \in Row /\ req[r].read = row[u] /\ row[u] # None
    BY Fields DEF EditInv, ReadsHold, UpToDate, Current
  <1>2. /\ row'[u] = [text    |-> Or(t, row[u].text),
                      picture |-> Or(p, row[u].picture),
                      version |-> row[u].version + 1]
        /\ row'[u] \in Row
        /\ \A o \in Owner \ {u} : row'[o] = row[o] /\ meant'[o] = meant[o]
        /\ meant'[u].text = Or(t, meant[u].text)
        /\ meant'[u].picture = Or(p, meant[u].picture)
    BY <1>1, UpdateTypes DEF EditInv
  <1>3. /\ row'[u].version = row[u].version + 1
        /\ row[u].version \in Nat
        /\ row'[u] # None
    BY <1>1, <1>2, Rows DEF EditInv, Row
  <1>4. ReadsHold'
    <2> SUFFICES ASSUME NEW q \in Req,
                        req'[q].at \in {"patch", "put", "update"}
                 PROVE  LET o == req'[q].owner
                        IN  /\ row'[o] # None
                            /\ req'[q].read.version <= row'[o].version
                            /\ req'[q].read.version = row'[o].version =>
                                 req'[q].read = row'[o]
      BY DEF ReadsHold, UpToDate
    <2>1. req'[q] = req[q]
      BY RequestTypes DEF EditInv
    <2>2. req[q].read \in Row /\ req[q].owner \in Owner
      BY <2>1, Fields, Rows DEF EditInv
    <2>3. UpToDate(req[q])
      BY DEF EditInv, ReadsHold
    <2>4. CASE req[q].owner = u
      <3>1. req[q].read.version <= row[u].version
        BY <2>1, <2>3, <2>4 DEF UpToDate
      <3> QED
        BY <1>3, <2>1, <2>2, <2>4, <3>1 DEF Row
    <2>5. CASE req[q].owner # u
      <3>1. row'[req[q].owner] = row[req[q].owner]
        BY <1>2, <2>2, <2>5
      <3> QED
        BY <2>1, <2>3, <3>1 DEF UpToDate
    <2> QED
      BY <2>4, <2>5
  <1>5. NoLostEdit'
    <2> SUFFICES ASSUME NEW o \in Owner
                 PROVE  IF row'[o] = None
                          THEN meant'[o].text = None
                          ELSE /\ row'[o].text = meant'[o].text
                               /\ row'[o].picture = meant'[o].picture
      BY DEF NoLostEdit
    <2>1. CASE o = u
      <3>1. /\ row[u].text = meant[u].text
            /\ row[u].picture = meant[u].picture
        BY <1>1, Rows DEF EditInv, NoLostEdit
      <3> QED
        BY <1>2, <1>3, <2>1, <3>1
    <2>2. CASE o # u
      BY <1>2, <2>2 DEF EditInv, NoLostEdit
    <2> QED
      BY <2>1, <2>2
  <1> QED
    BY <1>4, <1>5

\* An INSERT makes a row that nobody has read yet.
LEMMA InsertKeeps ==
    ASSUME EditInv, NEW r \in Req, CreateInsert(r)
    PROVE  ReadsHold' /\ NoLostEdit'
  <1> DEFINE o == req[r].owner
             new == [text |-> req[r].text, picture |-> None, version |-> 1]
             told == [text |-> req[r].text, picture |-> None]
  <1>1. o \in Owner /\ req[r].text \in Text
    BY Fields DEF EditInv, CreateInsert
  <1>2. Goto(r, Idle) /\ Idle \in Request /\ Idle.at = "idle"
    BY DEF CreateInsert, Finish, Idle, Request
  <1>3. CASE UNCHANGED <<row, meant>>
    BY <1>2, <1>3, OtherReads DEF EditInv, NoLostEdit
  <1>4. CASE row[o] = None /\ row' = [row EXCEPT ![o] = new]
                          /\ meant' = [meant EXCEPT ![o] = told]
    <2>1. /\ new # None /\ new.text = told.text /\ new.picture = told.picture
      BY <1>1, Rows DEF EditInv, Row, Picture
    <2> HIDE DEF new, told
    <2>2. /\ row'[o] = new /\ meant'[o] = told
          /\ \A j \in Owner \ {o} : row'[j] = row[j] /\ meant'[j] = meant[j]
      BY <1>1, <1>4 DEF EditInv, TypeOK
    <2>3. NoLostEdit'
      BY <2>1, <2>2 DEF EditInv, NoLostEdit
    <2>4. ReadsHold'
      <3> SUFFICES ASSUME NEW q \in Req,
                          req'[q].at \in {"patch", "put", "update"}
                   PROVE  /\ req'[q] = req[q]
                          /\ row'[req[q].owner] = row[req[q].owner]
        BY DEF ReadsHold, UpToDate, EditInv
      <3>1. req'[q] = req[q]
        BY <1>2, RequestTypes DEF EditInv
      <3>2. req[q].owner \in Owner /\ row[req[q].owner] # None
        BY <3>1, Fields, Rows DEF EditInv, ReadsHold, UpToDate
      <3>3. req[q].owner # o
        BY <1>4, <3>2
      <3> QED
        BY <2>2, <3>1, <3>2, <3>3
    <2> QED
      BY <2>3, <2>4
  <1> QED
    BY <1>3, <1>4 DEF CreateInsert

\* One step of a request.
LEMMA EditStep ==
    ASSUME EditInv, NEW r \in Req,
           Create(r) \/ Patch(r) \/ Upload(r) \/ SetInterests(r) \/ Abandon(r)
    PROVE  ReadsHold' /\ NoLostEdit'
  <1>0. Idle \in Request /\ Idle.at = "idle"
    BY DEF Request, Idle
  <1>1. CASE \E o \in Owner, t \in Text : CreateFind(r, o, t)
    <2>1. PICK o \in Owner, t \in Text : CreateFind(r, o, t)
      BY <1>1
    <2> DEFINE s == [at |-> "insert", owner |-> o, text |-> t]
    <2>2. s \in Request /\ s.at = "insert" /\ Goto(r, s)
      BY <2>1 DEF Request, CreateFind
    <2> QED
      BY <2>1, <2>2, OtherReads DEF CreateFind, rowVars, EditInv, NoLostEdit
  <1>2. CASE CreateInsert(r)
    BY <1>2, InsertKeeps
  <1>3. CASE \E u \in User, t \in Text \cup {None}, p \in Picture :
               PatchFind(r, u, t, p)
    <2>1. PICK u \in User, t \in Text \cup {None}, p \in Picture :
                 PatchFind(r, u, t, p)
      BY <1>3
    <2> DEFINE s == [at |-> "patch", owner |-> u, read |-> row[u], text |-> t,
                     picture |-> p]
    <2>2. row[u] \in Row /\ row[u] # None
      BY <2>1, Rows DEF PatchFind, Editable, EditInv
    <2>3. s \in Request /\ s.owner = u /\ s.read = row[u] /\ Goto(r, s)
      BY <2>1, <2>2 DEF Request, PatchFind
    <2> HIDE DEF s
    <2>4. UpToDate(s)
      BY <2>2, <2>3, JustRead DEF EditInv
    <2> QED
      BY <2>1, <2>3, <2>4, ReadsFrame
         DEF PatchFind, rowVars, EditInv, NoLostEdit
  <1>4. CASE PatchUpdate(r)
    <2>1. Goto(r, Idle) /\ req[r].at = "patch"
      BY <1>4 DEF PatchUpdate, Finish
    <2>2. /\ req[r].owner \in User /\ req[r].text \in Text \cup {None}
          /\ req[r].picture \in Picture
      BY <2>1, Fields DEF EditInv
    <2>3. CASE Current(req[r].owner, req[r].read)
      <3>1. Update(req[r].owner, req[r].read, req[r].text, req[r].picture)
        BY <1>4, <2>3 DEF PatchUpdate
      <3> QED
        BY <1>0, <2>1, <2>2, <2>3, <3>1, UpdateKeeps
    <2>4. CASE ~Current(req[r].owner, req[r].read)
      BY <1>0, <1>4, <2>1, <2>4, OtherReads
         DEF PatchUpdate, EditInv, NoLostEdit
    <2> QED
      BY <2>3, <2>4
  <1>5. CASE \E u \in User : UploadFind(r, u)
    <2>0. PICK u \in User : UploadFind(r, u)
      BY <1>5
    <2> DEFINE s == [at |-> "put", owner |-> u, read |-> row[u]]
    <2>1. row[u] \in Row /\ row[u] # None
      BY <2>0, Rows DEF UploadFind, Editable, EditInv
    <2>2. s \in Request /\ s.owner = u /\ s.read = row[u] /\ Goto(r, s)
      BY <2>0, <2>1 DEF Request, UploadFind
    <2> HIDE DEF s
    <2>3. UpToDate(s)
      BY <2>1, <2>2, JustRead DEF EditInv
    <2> QED
      BY <2>0, <2>2, <2>3, ReadsFrame
         DEF UploadFind, rowVars, EditInv, NoLostEdit
  <1>6. CASE \E p \in Key : UploadPut(r, p)
    <2>1. PICK p \in Key : UploadPut(r, p)
      BY <1>6
    <2> DEFINE s == [at |-> "update", owner |-> req[r].owner,
                     read |-> req[r].read, picture |-> p]
    <2>2. req[r].at = "put" /\ req[r].owner \in User /\ req[r].read \in Row
      BY <2>1, Fields DEF UploadPut, EditInv
    <2>3. s \in Request /\ s.owner = req[r].owner /\ s.read = req[r].read
          /\ Goto(r, s)
      BY <2>1, <2>2 DEF Request, UploadPut
    <2> HIDE DEF s
    <2>4. UpToDate(s)
      BY <2>2, <2>3 DEF EditInv, ReadsHold, UpToDate
    <2> QED
      BY <2>1, <2>3, <2>4, ReadsFrame DEF UploadPut, EditInv, NoLostEdit
  <1>7. CASE UploadUpdate(r)
    <2>1. /\ req[r].at = "update" /\ req[r].owner \in User
          /\ req[r].read \in Row
          /\ req[r].picture \in Picture
      BY <1>7, Fields DEF UploadUpdate, EditInv, Picture
    <2>2. CASE Current(req[r].owner, req[r].read)
      <3>1. Update(req[r].owner, req[r].read, None, req[r].picture)
        BY <1>7, <2>2 DEF UploadUpdate
      <3>2. PICK s \in Request : Goto(r, s) /\ s.at \in {"idle", "delete"}
        <4>1. CASE req[r].read.picture = None
          BY <1>0, <1>7, <2>2, <4>1 DEF UploadUpdate, Finish
        <4>2. CASE req[r].read.picture # None
          <5> DEFINE s == [at |-> "delete", picture |-> req[r].read.picture]
          <5>1. s \in Request /\ s.at = "delete" /\ Goto(r, s)
            BY <1>7, <2>1, <2>2, <4>2 DEF UploadUpdate, Request, Row, Picture
          <5> QED
            BY <5>1
        <4> QED
          BY <4>1, <4>2
      <3> QED
        BY <2>1, <2>2, <3>1, <3>2, UpdateKeeps
    <2>3. CASE ~Current(req[r].owner, req[r].read)
      BY <1>0, <1>7, <2>3, OtherReads
         DEF UploadUpdate, Finish, EditInv, NoLostEdit
    <2> QED
      BY <2>2, <2>3
  <1>8. CASE UploadDelete(r)
    BY <1>0, <1>8, OtherReads DEF UploadDelete, Finish, EditInv, NoLostEdit
  <1>9. CASE SetInterests(r) \/ Abandon(r)
    <2>1. UNCHANGED <<row, meant>>
      BY <1>9 DEF SetInterests, SetBegin, SetDelete, SetInsert, SetCommit,
                  Abandon, rowVars
    <2>2. req' \in [Req -> Request]
      BY <1>9, SetTypes DEF EditInv, TypeOK
    <2>3. PICK s : Goto(r, s) /\ s.at \notin {"patch", "put", "update"}
      <3>1. CASE SetInsert(r)
        <4>1. CASE Finish(r)
          BY <1>0, <4>1 DEF Finish
        <4>2. CASE Goto(r, [req[r] EXCEPT !.at = "set_commit"])
          <5>1. [req[r] EXCEPT !.at = "set_commit"].at = "set_commit"
            BY <3>1, Fields DEF SetInsert, EditInv
          <5> QED
            BY <4>2, <5>1
        <4> QED
          BY <3>1, <4>1, <4>2 DEF SetInsert
      <3>2. CASE SetDelete(r)
        BY <3>2 DEF SetDelete
      <3>3. CASE \E asked \in SUBSET Interest : SetBegin(r, asked)
        BY <3>3 DEF SetBegin
      <3>4. CASE SetCommit(r) \/ Abandon(r)
        BY <1>0, <3>4 DEF SetCommit, Abandon, Finish
      <3> QED
        BY <1>9, <3>1, <3>2, <3>3, <3>4 DEF SetInterests
    <2>4. s \in Request
      BY <2>2, <2>3 DEF Goto, EditInv, TypeOK
    <2> QED
      BY <2>1, <2>3, <2>4, OtherReads DEF EditInv, NoLostEdit
  <1> QED
    BY <1>1, <1>2, <1>3, <1>4, <1>5, <1>6, <1>7, <1>8, <1>9
       DEF Create, Patch, Upload

LEMMA EditInvariant == Spec => []EditInv
<1>1. Init => EditInv
  <2> SUFFICES ASSUME Init PROVE EditInv
    OBVIOUS
  <2>1. \A r \in Req : req[r].at = "idle"
    BY DEF Init, Idle
  <2>2. \A o \in Owner : row[o] = None /\ meant[o].text = None
    BY DEF Init
  <2> QED
    BY <2>1, <2>2, InitTypes DEF EditInv, ReadsHold, UpToDate, NoLostEdit
<1>2. EditInv /\ TypeOK' /\ [Next]_vars => EditInv'
  <2>1. EditInv /\ Next => ReadsHold' /\ NoLostEdit'
    BY EditStep DEF Next
  <2>2. EditInv /\ UNCHANGED vars => ReadsHold' /\ NoLostEdit'
    BY DEF EditInv, ReadsHold, UpToDate, NoLostEdit, vars, rowVars
  <2> QED
    BY <2>1, <2>2 DEF EditInv
<1> QED
  BY <1>1, <1>2, TypeCorrect, PTL DEF Spec

\* However the edits of the devices overlap, and whatever fails, a row says
\* what the edits that went through set it to.
THEOREM EditsAreKept == Spec => []NoLostEdit
<1>1. EditInv => NoLostEdit
  BY DEF EditInv
<1> QED
  BY <1>1, EditInvariant, PTL

-----------------------------------------------------------------------------
(* Pictures *)

\* A key that a row has because of an upload: no PATCH has put it anywhere.
Uploaded(p) == p # None /\ p \notin claimed

Names(u, p) == row[u] # None /\ row[u].picture = p

\* No two rows have an uploaded picture in common.
RowsApart ==
    \A u, v \in User, p \in Key :
        Uploaded(p) /\ u # v /\ Names(u, p) => ~Names(v, p)

\* A picture that an upload has stored and is about to put in the row is there,
\* in no row yet, and not what another upload stores or is about to delete.
StoredIsOwn ==
    \A r \in Req, p \in Key :
        Uploaded(p) /\ req[r].at = "update" /\ req[r].picture = p =>
            /\ p \in objects
            /\ \A u \in User : ~Names(u, p)
            /\ \A q \in Req \ {r} : req[q].at \in {"update", "delete"} =>
                                      req[q].picture # p

\* A picture that is about to be deleted is in no row.
DeletedIsOld ==
    \A r \in Req, p \in Key :
        Uploaded(p) /\ req[r].at = "delete" /\ req[r].picture = p =>
            p \in named /\ \A u \in User : ~Names(u, p)

PictureInv ==
    /\ objects \subseteq named
    /\ RowsApart
    /\ StoredIsOwn
    /\ DeletedIsOld
    /\ PictureExists

\* What the rows name is there if it was uploaded.
LEMMA NamedExists ==
    ASSUME PictureInv, NEW u \in User, NEW p, Uploaded(p), Names(u, p)
    PROVE  p \in objects /\ p \in named
  BY DEF PictureInv, PictureExists, Uploaded, Names

\* A step that changes no object, of a request that neither stores nor deletes
\* one, if no row gets a picture that was uploaded and that it has not had.
LEMMA PictureFrame ==
    ASSUME TypeOK, TypeOK', PictureInv, NEW r \in Req,
           \A q \in Req \ {r} : req'[q] = req[q],
           req'[r].at \notin {"update", "delete"},
           UNCHANGED <<objects, named>>, claimed \subseteq claimed',
           \A u \in User, p \in Key :
               Uploaded(p)' /\ Names(u, p)' => Names(u, p)
    PROVE  PictureInv'
  <1>1. \A q \in Req : req'[q].at \in {"update", "delete"} => req'[q] = req[q]
    OBVIOUS
  <1>2. \A p : Uploaded(p)' => Uploaded(p)
    BY DEF Uploaded
  <1>3. RowsApart'
    BY <1>2 DEF PictureInv, RowsApart
  <1>4. StoredIsOwn'
    <2> SUFFICES ASSUME NEW q \in Req, NEW x \in Key, Uploaded(x)',
                        req'[q].at = "update", req'[q].picture = x
                 PROVE  /\ x \in objects'
                        /\ \A u \in User : ~Names(u, x)'
                        /\ \A o \in Req \ {q} :
                              req'[o].at \in {"update", "delete"} =>
                                req'[o].picture # x
      BY DEF StoredIsOwn
    <2>1. req'[q] = req[q] /\ Uploaded(x)
      BY <1>1, <1>2
    <2>2. /\ x \in objects
          /\ \A u \in User : ~Names(u, x)
          /\ \A o \in Req \ {q} : req[o].at \in {"update", "delete"} =>
                                    req[o].picture # x
      BY <2>1 DEF PictureInv, StoredIsOwn
    <2>3. \A u \in User : ~Names(u, x)'
      BY <2>2
    <2> QED
      BY <1>1, <2>2, <2>3
  <1>5. DeletedIsOld'
    <2> SUFFICES ASSUME NEW q \in Req, NEW x \in Key, Uploaded(x)',
                        req'[q].at = "delete", req'[q].picture = x
                 PROVE  x \in named' /\ \A u \in User : ~Names(u, x)'
      BY DEF DeletedIsOld
    <2>1. req'[q] = req[q] /\ Uploaded(x)
      BY <1>1, <1>2
    <2>2. x \in named /\ \A u \in User : ~Names(u, x)
      BY <2>1 DEF PictureInv, DeletedIsOld
    <2> QED
      BY <2>2
  <1>6. PictureExists'
    <2> SUFFICES ASSUME NEW u \in User, row'[u] # None,
                        row'[u].picture # None, row'[u].picture \notin claimed'
                 PROVE  row'[u].picture \in objects'
      BY DEF PictureExists
    <2>1. row'[u] \in Row
      BY Rows DEF TypeOK
    <2>2. PICK p \in Key : p = row'[u].picture
      BY <2>1 DEF Row, Picture
    <2>3. Uploaded(p)' /\ Names(u, p)'
      BY <2>2 DEF Uploaded, Names
    <2> QED
      BY <1>2, <2>2, <2>3, NamedExists
  <1> QED
    BY <1>3, <1>4, <1>5, <1>6 DEF PictureInv

\* The same if no row changes.
LEMMA PictureSame ==
    ASSUME TypeOK, TypeOK', PictureInv, NEW r \in Req,
           \A q \in Req \ {r} : req'[q] = req[q],
           req'[r].at \notin {"update", "delete"},
           UNCHANGED <<row, objects, named, claimed>>
    PROVE  PictureInv'
  <1>1. \A u \in User, p \in Key : Names(u, p)' => Names(u, p)
    BY DEF Names
  <1> QED
    BY <1>1, PictureFrame

\* The row of a user that is made has no picture.
LEMMA InsertPictures ==
    ASSUME TypeOK, TypeOK', PictureInv, NEW r \in Req, CreateInsert(r)
    PROVE  PictureInv'
  <1>1. /\ req'[r].at = "idle" /\ \A q \in Req \ {r} : req'[q] = req[q]
        /\ UNCHANGED <<objects, named, claimed>>
    BY DEF CreateInsert, Finish, Goto, TypeOK, Idle
  <1>2. CASE UNCHANGED row
    BY <1>1, <1>2, PictureSame
  <1>3. CASE row' = [row EXCEPT ![req[r].owner] =
                       [text |-> req[r].text, picture |-> None, version |-> 1]]
    <2>1. \A u \in User : row'[u] = row[u] \/ row'[u].picture = None
      BY <1>3, Rows DEF TypeOK
    <2>2. \A u \in User, p \in Key : Names(u, p)' => Names(u, p)
      BY <2>1, NoneAssumption DEF Names
    <2> QED
      BY <1>1, <2>2, PictureFrame
  <1> QED
    BY <1>2, <1>3 DEF CreateInsert

\* A PATCH puts a picture in its row that is claimed from then on.
LEMMA PatchPictures ==
    ASSUME EditInv, TypeOK', PictureInv, NEW r \in Req, PatchUpdate(r)
    PROVE  PictureInv'
  <1>0. TypeOK
    BY DEF EditInv
  <1>1. /\ req'[r].at = "idle" /\ \A q \in Req \ {r} : req'[q] = req[q]
        /\ UNCHANGED <<objects, named>>
    BY <1>0 DEF PatchUpdate, Finish, Goto, TypeOK, Idle
  <1>2. /\ req[r].at = "patch" /\ req[r].owner \in User /\ req[r].read \in Row
        /\ req[r].text \in Text \cup {None} /\ req[r].picture \in Picture
    BY <1>0, Fields DEF PatchUpdate
  <1>3. CASE Current(req[r].owner, req[r].read)
    <2>1. PICK u \in User : u = req[r].owner
      BY <1>2
    <2>2. req[r].read = row[u] /\ row[u] # None
      BY <1>2, <1>3, <2>1 DEF EditInv, ReadsHold, UpToDate, Current
    <2>3. /\ Update(u, req[r].read, req[r].text, req[r].picture)
          /\ claimed' = claimed \cup ({req[r].picture} \ {None})
      BY <1>3, <2>1 DEF PatchUpdate
    <2>4. /\ row'[u] = [text    |-> Or(req[r].text, req[r].read.text),
                        picture |-> Or(req[r].picture, req[r].read.picture),
                        version |-> row[u].version + 1]
          /\ \A o \in Owner \ {u} : row'[o] = row[o]
      BY <1>0, <1>2, <2>2, <2>3, UpdateTypes
    <2>5. ASSUME NEW v \in User, NEW p \in Key, Uploaded(p)', Names(v, p)'
          PROVE  Names(v, p)
      <3>1. CASE v = u
        <4>1. row'[u].picture = p /\ p \notin claimed' /\ p # None
          BY <2>5, <3>1 DEF Uploaded, Names
        <4>2. row[u].picture = p
          BY <2>2, <2>3, <2>4, <4>1 DEF Or
        <4> QED
          BY <2>2, <3>1, <4>2 DEF Names
      <3>2. CASE v # u
        BY <1>0, <2>4, <2>5, <3>2, Rows DEF Names
      <3> QED
        BY <3>1, <3>2
    <2> QED
      BY <1>0, <1>1, <2>3, <2>5, PictureFrame
  <1>4. CASE ~Current(req[r].owner, req[r].read)
    BY <1>0, <1>1, <1>4, PictureSame DEF PatchUpdate
  <1> QED
    BY <1>3, <1>4

\* A picture is stored under a new key.
LEMMA PutPictures ==
    ASSUME TypeOK, PictureInv, NEW r \in Req, NEW p \in Key, UploadPut(r, p)
    PROVE  PictureInv'
  <1>1. /\ req'[r].at = "update" /\ req'[r].picture = p
        /\ \A q \in Req \ {r} : req'[q] = req[q]
        /\ p \notin named /\ UNCHANGED <<row, claimed>>
        /\ named' = named \cup {p} /\ objects' = objects \cup {p}
    BY DEF UploadPut, Stored, Goto, TypeOK
  <1>2. \A x : Uploaded(x)' <=> Uploaded(x)
    BY <1>1 DEF Uploaded
  <1>3. \A u, x : Names(u, x)' <=> Names(u, x)
    BY <1>1 DEF Names
  <1>4. Uploaded(p) => /\ \A u \in User : ~Names(u, p)
                       /\ \A q \in Req \ {r} :
                            req[q].at \in {"update", "delete"} =>
                              req[q].picture # p
    BY <1>1, NamedExists DEF PictureInv, StoredIsOwn, DeletedIsOld
  <1>5. RowsApart'
    BY <1>2, <1>3 DEF PictureInv, RowsApart
  <1>6. StoredIsOwn'
    <2> SUFFICES ASSUME NEW q \in Req, NEW x \in Key, Uploaded(x)',
                        req'[q].at = "update", req'[q].picture = x
                 PROVE  /\ x \in objects'
                        /\ \A u \in User : ~Names(u, x)'
                        /\ \A o \in Req \ {q} :
                              req'[o].at \in {"update", "delete"} =>
                                req'[o].picture # x
      BY DEF StoredIsOwn
    <2>1. CASE q = r
      <3>1. x = p /\ Uploaded(p)
        BY <1>1, <1>2, <2>1
      <3>2. \A u \in User : ~Names(u, p)'
        BY <1>3, <1>4, <3>1
      <3> QED
        BY <1>1, <1>4, <2>1, <3>1, <3>2
    <2>2. CASE q # r
      <3>1. req'[q] = req[q] /\ Uploaded(x)
        BY <1>1, <1>2, <2>2
      <3>2. /\ x \in objects
            /\ \A u \in User : ~Names(u, x)
            /\ \A o \in Req \ {q} : req[o].at \in {"update", "delete"} =>
                                      req[o].picture # x
        BY <3>1 DEF PictureInv, StoredIsOwn
      <3>3. p # x
        BY <1>1, <3>2 DEF PictureInv
      <3>4. \A u \in User : ~Names(u, x)'
        BY <1>3, <3>2
      <3> QED
        BY <1>1, <2>2, <3>1, <3>2, <3>3, <3>4
    <2> QED
      BY <2>1, <2>2
  <1>7. DeletedIsOld'
    BY <1>1, <1>2, <1>3 DEF PictureInv, DeletedIsOld
  <1>8. PictureExists'
    BY <1>1 DEF PictureInv, PictureExists
  <1>9. objects' \subseteq named'
    BY <1>1 DEF PictureInv
  <1> QED
    BY <1>5, <1>6, <1>7, <1>8, <1>9 DEF PictureInv

\* The row gets the picture that was stored, and the old one is to go.
LEMMA ReplacePictures ==
    ASSUME EditInv, TypeOK', PictureInv, NEW r \in Req, UploadUpdate(r),
           Current(req[r].owner, req[r].read)
    PROVE  PictureInv'
  <1>0. TypeOK
    BY DEF EditInv
  <1>1. /\ req[r].at = "update" /\ req[r].owner \in User
        /\ req[r].read \in Row /\ req[r].picture \in Key
        /\ UNCHANGED <<objects, named, claimed>>
    BY <1>0, Fields DEF UploadUpdate
  <1>2. PICK u \in User, p \in Key : u = req[r].owner /\ p = req[r].picture
    BY <1>1
  <1>3. req[r].read = row[u] /\ row[u] # None /\ row[u] \in Row
    BY <1>1, <1>2 DEF EditInv, ReadsHold, UpToDate, Current
  <1>4. PICK last \in Picture : last = row[u].picture
    BY <1>3 DEF Row
  <1>5. /\ row'[u].picture = p /\ row'[u] # None
        /\ \A o \in Owner \ {u} : row'[o] = row[o]
    <2>1. Update(u, req[r].read, None, p)
      BY <1>2 DEF UploadUpdate
    <2>2. p \in Picture /\ p # None /\ None \notin Row
      BY <1>0, NoneAssumption, Rows DEF Picture
    <2>3. /\ row'[u] = [text    |-> Or(None, req[r].read.text),
                        picture |-> Or(p, req[r].read.picture),
                        version |-> row[u].version + 1]
          /\ row'[u] \in Row
          /\ \A o \in Owner \ {u} : row'[o] = row[o]
      BY <1>0, <1>1, <1>3, <2>1, <2>2, UpdateTypes
    <2> QED
      BY <2>2, <2>3 DEF Or
  <1>6. /\ \A q \in Req \ {r} : req'[q] = req[q]
        /\ \/ req'[r].at = "idle"
           \/ req'[r].at = "delete" /\ req'[r].picture = last
    BY <1>0, <1>1, <1>2, <1>3, <1>4
       DEF UploadUpdate, Finish, Goto, TypeOK, Idle
  <1>7. \A x : Uploaded(x)' <=> Uploaded(x)
    BY <1>1 DEF Uploaded
  <1>8. ASSUME NEW v \in User, NEW x, Names(v, x)'
        PROVE  Names(v, x) \/ (v = u /\ x = p)
    <2>1. row'[v] # None /\ row'[v].picture = x
      BY <1>8 DEF Names
    <2>2. CASE v = u
      BY <1>5, <2>1, <2>2
    <2>3. CASE v # u
      <3>1. row'[v] = row[v]
        BY <1>5, <2>3, OwnerAssumption
      <3> QED
        BY <2>1, <3>1 DEF Names
    <2> QED
      BY <2>2, <2>3
  <1>9. Names(u, last)
    BY <1>3, <1>4 DEF Names
  <1>10. Uploaded(p) =>
           /\ p \in objects
           /\ \A v \in User : ~Names(v, p)
           /\ \A q \in Req \ {r} : req[q].at \in {"update", "delete"} =>
                                     req[q].picture # p
    BY <1>1, <1>2 DEF PictureInv, StoredIsOwn
  <1>11. Uploaded(last) => last # p
    BY <1>9, <1>10
  <1>12. Uploaded(last) => \A v \in User : ~Names(v, last)'
    <2> SUFFICES ASSUME Uploaded(last), NEW v \in User, Names(v, last)'
                 PROVE  FALSE
      OBVIOUS
    <2>1. CASE v = u
      <3>1. row'[u].picture = last
        BY <2>1 DEF Names
      <3> QED
        BY <1>5, <1>11, <3>1
    <2>2. CASE v # u
      <3>1. Names(v, last) /\ last \in Key
        BY <1>4, <1>8, <2>2 DEF Uploaded, Picture
      <3> QED
        BY <1>9, <2>2, <3>1 DEF PictureInv, RowsApart
    <2> QED
      BY <2>1, <2>2
  <1>13. RowsApart'
    <2> SUFFICES ASSUME NEW v \in User, NEW w \in User, NEW x \in Key,
                        Uploaded(x)', v # w, Names(v, x)', Names(w, x)'
                 PROVE  FALSE
      BY DEF RowsApart
    <2>1. Uploaded(x)
      BY <1>7
    <2>2. CASE Names(v, x) /\ Names(w, x)
      BY <2>1, <2>2 DEF PictureInv, RowsApart
    <2>3. CASE x = p
      BY <1>8, <1>10, <2>1, <2>3
    <2> QED
      BY <1>8, <2>2, <2>3
  <1>14. StoredIsOwn'
    <2> SUFFICES ASSUME NEW q \in Req, NEW x \in Key, Uploaded(x)',
                        req'[q].at = "update", req'[q].picture = x
                 PROVE  /\ x \in objects'
                        /\ \A v \in User : ~Names(v, x)'
                        /\ \A o \in Req \ {q} :
                              req'[o].at \in {"update", "delete"} =>
                                req'[o].picture # x
      BY DEF StoredIsOwn
    <2>1. q # r /\ req'[q] = req[q] /\ Uploaded(x)
      BY <1>6, <1>7
    <2>2. /\ x \in objects
          /\ \A v \in User : ~Names(v, x)
          /\ \A o \in Req \ {q} : req[o].at \in {"update", "delete"} =>
                                    req[o].picture # x
      BY <2>1 DEF PictureInv, StoredIsOwn
    <2>3. x # p /\ x # last
      BY <1>1, <1>2, <1>9, <2>1, <2>2
    <2>4. \A v \in User : ~Names(v, x)'
      BY <1>8, <2>2, <2>3
    <2> QED
      BY <1>1, <1>6, <2>1, <2>2, <2>3, <2>4
  <1>15. DeletedIsOld'
    <2> SUFFICES ASSUME NEW q \in Req, NEW x \in Key, Uploaded(x)',
                        req'[q].at = "delete", req'[q].picture = x
                 PROVE  x \in named' /\ \A v \in User : ~Names(v, x)'
      BY DEF DeletedIsOld
    <2>1. CASE q = r
      <3>1. x = last /\ Uploaded(last)
        BY <1>6, <1>7, <2>1
      <3>2. last \in named'
        BY <1>1, <1>9, <3>1, NamedExists
      <3> QED
        BY <1>12, <3>1, <3>2
    <2>2. CASE q # r
      <3>1. req'[q] = req[q] /\ Uploaded(x)
        BY <1>6, <1>7, <2>2
      <3>2. x \in named /\ \A v \in User : ~Names(v, x)
        BY <3>1 DEF PictureInv, DeletedIsOld
      <3>3. x # p
        BY <1>10, <2>2, <3>1
      <3>4. \A v \in User : ~Names(v, x)'
        BY <1>8, <3>2, <3>3
      <3> QED
        BY <1>1, <3>2, <3>4
    <2> QED
      BY <2>1, <2>2
  <1>16. PictureExists'
    <2> SUFFICES ASSUME NEW v \in User, row'[v] # None
                 PROVE  row'[v].picture \in objects' \cup claimed' \cup {None}
      BY DEF PictureExists
    <2>1. CASE v = u
      BY <1>1, <1>5, <1>10, <2>1, NoneAssumption DEF Uploaded
    <2>2. CASE v # u
      BY <1>0, <1>1, <1>5, <2>2, Rows DEF PictureInv, PictureExists
    <2> QED
      BY <2>1, <2>2
  <1> QED
    BY <1>1, <1>13, <1>14, <1>15, <1>16 DEF PictureInv

\* The old picture goes.
LEMMA DeletePictures ==
    ASSUME TypeOK, PictureInv, NEW r \in Req, UploadDelete(r)
    PROVE  PictureInv'
  <1>1. PICK p \in Key : p = req[r].picture
    BY Fields DEF UploadDelete
  <1>2. /\ req[r].at = "delete" /\ req'[r].at = "idle"
        /\ \A q \in Req \ {r} : req'[q] = req[q]
        /\ UNCHANGED <<row, named, claimed>> /\ objects' = objects \ {p}
    BY <1>1 DEF UploadDelete, Finish, Goto, TypeOK, Idle
  <1>3. \A x : Uploaded(x)' <=> Uploaded(x)
    BY <1>2 DEF Uploaded
  <1>4. \A u, x : Names(u, x)' <=> Names(u, x)
    BY <1>2 DEF Names
  <1>5. Uploaded(p) => \A u \in User : ~Names(u, p)
    BY <1>1, <1>2 DEF PictureInv, DeletedIsOld
  <1>6. PictureExists'
    <2> SUFFICES ASSUME NEW u \in User, row'[u] # None
                 PROVE  row'[u].picture \in objects' \cup claimed' \cup {None}
      BY DEF PictureExists
    <2>1. row[u].picture \in objects \cup claimed \cup {None}
      BY <1>2 DEF PictureInv, PictureExists
    <2>2. row[u].picture = p => p \in claimed
      BY <1>2, <1>5, NoneAssumption DEF Uploaded, Names
    <2> QED
      BY <1>2, <2>1, <2>2
  <1>7. RowsApart'
    BY <1>3, <1>4 DEF PictureInv, RowsApart
  <1>8. StoredIsOwn'
    <2> SUFFICES ASSUME NEW q \in Req, NEW x \in Key, Uploaded(x)',
                        req'[q].at = "update", req'[q].picture = x
                 PROVE  /\ x \in objects'
                        /\ \A u \in User : ~Names(u, x)'
                        /\ \A o \in Req \ {q} :
                              req'[o].at \in {"update", "delete"} =>
                                req'[o].picture # x
      BY DEF StoredIsOwn
    <2>1. q # r /\ req'[q] = req[q] /\ Uploaded(x)
      BY <1>2, <1>3
    <2>2. /\ x \in objects
          /\ \A u \in User : ~Names(u, x)
          /\ \A o \in Req \ {q} : req[o].at \in {"update", "delete"} =>
                                    req[o].picture # x
      BY <2>1 DEF PictureInv, StoredIsOwn
    <2>3. p # x
      BY <1>1, <1>2, <2>1, <2>2
    <2>4. \A u \in User : ~Names(u, x)'
      BY <1>4, <2>2
    <2> QED
      BY <1>2, <2>2, <2>3, <2>4
  <1>9. DeletedIsOld'
    BY <1>2, <1>3, <1>4 DEF PictureInv, DeletedIsOld
  <1>10. objects' \subseteq named'
    BY <1>2 DEF PictureInv
  <1> QED
    BY <1>6, <1>7, <1>8, <1>9, <1>10 DEF PictureInv

\* The interests have nothing to do with pictures.
LEMMA SetPictures ==
    ASSUME TypeOK, TypeOK', PictureInv, NEW r \in Req,
           SetInterests(r) \/ Abandon(r)
    PROVE  PictureInv'
  <1>0. Idle.at = "idle"
    BY DEF Idle
  <1>1. UNCHANGED <<row, objects, named, claimed>>
    BY DEF SetInterests, SetBegin, SetDelete, SetInsert, SetCommit,
           Abandon, rowVars
  <1>2. /\ \A q \in Req \ {r} : req'[q] = req[q]
        /\ req'[r].at \notin {"update", "delete"}
    <2>1. CASE SetInsert(r)
      <3>1. req[r] \in [at : {"set_insert", "set_commit"},
                        asked : SUBSET Interest, base : Nat,
                        gone : SUBSET Interest]
        BY <2>1, Fields DEF SetInsert
      <3>2. [req[r] EXCEPT !.at = "set_commit"].at = "set_commit"
        BY <3>1
      <3> QED
        BY <1>0, <2>1, <3>2 DEF SetInsert, Finish, Goto, TypeOK
    <2>2. CASE SetDelete(r)
      BY <2>2 DEF SetDelete, Goto, TypeOK
    <2>3. CASE \E asked \in SUBSET Interest : SetBegin(r, asked)
      BY <2>3 DEF SetBegin, Goto, TypeOK
    <2>4. CASE SetCommit(r) \/ Abandon(r)
      BY <1>0, <2>4 DEF SetCommit, Abandon, Finish, Goto, TypeOK
    <2> QED
      BY <2>1, <2>2, <2>3, <2>4 DEF SetInterests
  <1> QED
    BY <1>1, <1>2, PictureSame

LEMMA PictureStep ==
    ASSUME EditInv, TypeOK', PictureInv, NEW r \in Req,
           Create(r) \/ Patch(r) \/ Upload(r) \/ SetInterests(r) \/ Abandon(r)
    PROVE  PictureInv'
  <1>0. TypeOK
    BY DEF EditInv
  <1>1. CASE \/ \E o \in Owner, t \in Text : CreateFind(r, o, t)
             \/ \E u \in User, t \in Text \cup {None}, p \in Picture :
                  PatchFind(r, u, t, p)
             \/ \E u \in User : UploadFind(r, u)
    <2>1. /\ \A q \in Req \ {r} : req'[q] = req[q]
          /\ req'[r].at \in {"insert", "patch", "put"}
          /\ UNCHANGED <<row, objects, named, claimed>>
      BY <1>0, <1>1 DEF CreateFind, PatchFind, UploadFind, Goto, rowVars, TypeOK
    <2> QED
      BY <1>0, <2>1, PictureSame
  <1>2. CASE CreateInsert(r)
    BY <1>0, <1>2, InsertPictures
  <1>3. CASE PatchUpdate(r)
    BY <1>3, PatchPictures
  <1>4. CASE \E p \in Key : UploadPut(r, p)
    BY <1>0, <1>4, PutPictures
  <1>5. CASE UploadUpdate(r)
    <2>1. CASE Current(req[r].owner, req[r].read)
      BY <1>5, <2>1, ReplacePictures
    <2>2. CASE ~Current(req[r].owner, req[r].read)
      <3>1. /\ \A q \in Req \ {r} : req'[q] = req[q]
            /\ req'[r].at = "idle"
            /\ UNCHANGED <<row, objects, named, claimed>>
        BY <1>0, <1>5, <2>2 DEF UploadUpdate, Finish, Goto, TypeOK, Idle
      <3> QED
        BY <1>0, <3>1, PictureSame
    <2> QED
      BY <2>1, <2>2
  <1>6. CASE UploadDelete(r)
    BY <1>0, <1>6, DeletePictures
  <1>7. CASE SetInterests(r) \/ Abandon(r)
    BY <1>0, <1>7, SetPictures
  <1> QED
    BY <1>1, <1>2, <1>3, <1>4, <1>5, <1>6, <1>7 DEF Create, Patch, Upload

\* The picture that a row names is in the bucket, whichever upload wins and
\* wherever one stops, unless a client has named that key in a PATCH.
THEOREM PicturesExist == Spec => []PictureExists
<1>1. Init => PictureInv
  <2> SUFFICES ASSUME Init PROVE PictureInv
    OBVIOUS
  <2>1. \A r \in Req : req[r].at = "idle"
    BY DEF Init, Idle
  <2>2. objects = {} /\ \A u \in User : row[u] = None
    BY OwnerAssumption DEF Init
  <2> QED
    BY <2>1, <2>2 DEF PictureInv, RowsApart, StoredIsOwn, DeletedIsOld,
                      PictureExists, Names
<1>2. EditInv /\ TypeOK' /\ PictureInv /\ [Next]_vars => PictureInv'
  <2>1. EditInv /\ TypeOK' /\ PictureInv /\ Next => PictureInv'
    BY PictureStep DEF Next
  <2>2. PictureInv /\ UNCHANGED vars => PictureInv'
    BY DEF PictureInv, RowsApart, StoredIsOwn, DeletedIsOld, PictureExists,
           Uploaded, Names, vars, rowVars
  <2> QED
    BY <2>1, <2>2
<1>3. PictureInv => PictureExists
  BY DEF PictureInv
<1> QED
  BY <1>1, <1>2, <1>3, TypeCorrect, EditInvariant, PTL DEF Spec

-----------------------------------------------------------------------------
(* Interests *)

\* A replacement that no other one has committed in the middle of has seen
\* the rows that are there, and deletes them all.
SeesAll ==
    \A r \in Req :
        /\ req[r].at = "set_delete" =>
             /\ req[r].base <= sets
             /\ req[r].base = sets => req[r].seen = interests
        /\ req[r].at \in {"set_insert", "set_commit"} =>
             /\ req[r].base <= sets
             /\ req[r].base = sets => req[r].gone = {i \in Interest : Has(i)}

InterestInv == SeesAll /\ InterestsOfLastRequest

\* What SeesAll asks of a state of a request.
Sees(s) ==
    /\ s.at = "set_delete" =>
         /\ s.base <= sets
         /\ s.base = sets => s.seen = interests
    /\ s.at \in {"set_insert", "set_commit"} =>
         /\ s.base <= sets
         /\ s.base = sets => s.gone = {i \in Interest : Has(i)}

\* A step that leaves the rows of the interests alone.
LEMMA InterestFrame ==
    ASSUME TypeOK, InterestInv, UNCHANGED interestVars,
           NEW r \in Req, NEW s \in Request, Goto(r, s), Sees(s)
    PROVE  InterestInv'
  <1>1. \A q \in Req : req'[q] = s \/ req'[q] = req[q]
    BY RequestTypes
  <1>2. SeesAll'
    BY <1>1 DEF InterestInv, SeesAll, Sees, Has, interestVars
  <1>3. InterestsOfLastRequest'
    BY DEF InterestInv, InterestsOfLastRequest, Has, interestVars
  <1> QED
    BY <1>2, <1>3 DEF InterestInv

\* The requests that are about the rows of the profiles.
LEMMA OthersKeepInterests ==
    ASSUME TypeOK, InterestInv, NEW r \in Req,
           Create(r) \/ Patch(r) \/ Upload(r) \/ Abandon(r)
    PROVE  InterestInv'
  <1> DEFINE others == {"idle", "insert", "patch", "put", "update", "delete"}
  <1>1. \A s \in Request : s.at \in others => Sees(s)
    BY DEF Sees
  <1>2. Idle \in Request /\ Idle.at \in others
    BY DEF Request, Idle
  <1> HIDE DEF others
  <1>3. CASE \E o \in Owner, t \in Text : CreateFind(r, o, t)
    <2>1. PICK o \in Owner, t \in Text : CreateFind(r, o, t)
      BY <1>3
    <2> DEFINE s == [at |-> "insert", owner |-> o, text |-> t]
    <2>2. s \in Request /\ s.at \in others
      BY DEF Request, others
    <2>3. Goto(r, s) /\ UNCHANGED interestVars
      BY <2>1 DEF CreateFind, interestVars
    <2> QED
      BY <1>1, <2>2, <2>3, InterestFrame
  <1>4. CASE CreateInsert(r) \/ PatchUpdate(r) \/ UploadDelete(r) \/ Abandon(r)
    <2>1. Goto(r, Idle) /\ UNCHANGED interestVars
      BY <1>4 DEF CreateInsert, PatchUpdate, UploadDelete, Abandon, Finish,
                  interestVars
    <2> QED
      BY <1>1, <1>2, <2>1, InterestFrame
  <1>5. CASE \E u \in User, t \in Text \cup {None}, p \in Picture :
               PatchFind(r, u, t, p)
    <2>1. PICK u \in User, t \in Text \cup {None}, p \in Picture :
                 PatchFind(r, u, t, p)
      BY <1>5
    <2> DEFINE s == [at |-> "patch", owner |-> u, read |-> row[u], text |-> t,
                     picture |-> p]
    <2>2. s \in Request /\ s.at \in others
      BY <2>1, Rows DEF PatchFind, Editable, Request, others
    <2>3. Goto(r, s) /\ UNCHANGED interestVars
      BY <2>1 DEF PatchFind, interestVars
    <2> QED
      BY <1>1, <2>2, <2>3, InterestFrame
  <1>6. CASE \E u \in User : UploadFind(r, u)
    <2>1. PICK u \in User : UploadFind(r, u)
      BY <1>6
    <2> DEFINE s == [at |-> "put", owner |-> u, read |-> row[u]]
    <2>2. s \in Request /\ s.at \in others
      BY <2>1, Rows DEF UploadFind, Editable, Request, others
    <2>3. Goto(r, s) /\ UNCHANGED interestVars
      BY <2>1 DEF UploadFind, interestVars
    <2> QED
      BY <1>1, <2>2, <2>3, InterestFrame
  <1>7. CASE \E p \in Key : UploadPut(r, p)
    <2>1. PICK p \in Key : UploadPut(r, p)
      BY <1>7
    <2> DEFINE s == [at |-> "update", owner |-> req[r].owner,
                     read |-> req[r].read, picture |-> p]
    <2>2. s \in Request /\ s.at \in others
      BY <2>1, Fields DEF UploadPut, Request, others
    <2>3. Goto(r, s) /\ UNCHANGED interestVars
      BY <2>1 DEF UploadPut, interestVars
    <2> QED
      BY <1>1, <2>2, <2>3, InterestFrame
  <1>8. CASE UploadUpdate(r)
    <2>0. UNCHANGED interestVars
      BY <1>8 DEF UploadUpdate, interestVars
    <2> DEFINE s == [at |-> "delete", picture |-> req[r].read.picture]
    <2>1. CASE Goto(r, s) /\ req[r].read.picture # None
      <3>1. s \in Request /\ s.at \in others
        BY <1>8, <2>1, Fields DEF UploadUpdate, Request, Row, Picture, others
      <3> QED
        BY <1>1, <2>0, <2>1, <3>1, InterestFrame
    <2>2. CASE Goto(r, Idle)
      BY <1>1, <1>2, <2>0, <2>2, InterestFrame
    <2> QED
      BY <1>8, <2>1, <2>2 DEF UploadUpdate, Finish
  <1> QED
    BY <1>3, <1>4, <1>5, <1>6, <1>7, <1>8 DEF Create, Patch, Upload

\* The DELETE and the INSERTs of a replacement.
LEMMA SetsKeepInterests ==
    ASSUME TypeOK, InterestInv, NEW r \in Req,
           \/ \E asked \in SUBSET Interest : SetBegin(r, asked)
           \/ SetDelete(r) \/ SetInsert(r)
    PROVE  InterestInv'
  <1>1. CASE \E asked \in SUBSET Interest : SetBegin(r, asked)
    <2>1. PICK asked \in SUBSET Interest : SetBegin(r, asked)
      BY <1>1
    <2> DEFINE s == [at |-> "set_delete", asked |-> asked, base |-> sets,
                     seen |-> interests]
    <2>2. s \in Request /\ Sees(s)
      BY DEF Request, TypeOK, Sees
    <2>3. Goto(r, s) /\ UNCHANGED interestVars
      BY <2>1 DEF SetBegin
    <2> QED
      BY <2>2, <2>3, InterestFrame
  <1>2. CASE SetDelete(r)
    <2> DEFINE s == [at |-> "set_insert", asked |-> req[r].asked,
                     base |-> req[r].base, gone |-> Doomed(req[r].seen)]
    <2>1. s \in Request
      BY <1>2, Fields DEF SetDelete, Doomed, Request
    <2>2. /\ req[r].base <= sets
          /\ req[r].base = sets => req[r].seen = interests
      BY <1>2 DEF SetDelete, InterestInv, SeesAll
    <2>3. req[r].seen = interests => Doomed(req[r].seen) = {i \in Interest : Has(i)}
      BY DEF Doomed
    <2>4. Sees(s)
      BY <2>2, <2>3 DEF Sees
    <2>5. Goto(r, s) /\ UNCHANGED interestVars
      BY <1>2 DEF SetDelete
    <2> QED
      BY <2>1, <2>4, <2>5, InterestFrame
  <1>3. CASE SetInsert(r)
    <2>0. UNCHANGED interestVars
      BY <1>3 DEF SetInsert
    <2>1. CASE Goto(r, Idle)
      <3>1. Idle \in Request /\ Sees(Idle)
        BY DEF Request, Idle, Sees
      <3> QED
        BY <2>0, <2>1, <3>1, InterestFrame
    <2>2. CASE Goto(r, [req[r] EXCEPT !.at = "set_commit"])
      <3> DEFINE s == [req[r] EXCEPT !.at = "set_commit"]
      <3>1. req[r] \in [at : {"set_insert", "set_commit"},
                        asked : SUBSET Interest, base : Nat,
                        gone : SUBSET Interest]
        BY <1>3, Fields DEF SetInsert
      <3>2. s \in Request /\ s.base = req[r].base /\ s.gone = req[r].gone
            /\ s.at = "set_commit"
        BY <3>1 DEF Request
      <3>3. Sees(s)
        BY <1>3, <3>2 DEF SetInsert, InterestInv, SeesAll, Sees
      <3> QED
        BY <2>0, <2>2, <3>2, <3>3, InterestFrame
    <2> QED
      BY <1>3, <2>1, <2>2 DEF SetInsert, Finish
  <1> QED
    BY <1>1, <1>2, <1>3

\* A replacement commits: if it was alone its rows are all there is, and every
\* other one that runs has begun before.
LEMMA CommitKeepsInterests ==
    ASSUME TypeOK, InterestInv, NEW r \in Req, SetCommit(r)
    PROVE  InterestInv'
  <1>1. \A q \in Req : req'[q] = Idle \/ req'[q] = req[q]
    BY RequestTypes DEF SetCommit, Finish, Request
  <1>2. sets \in Nat /\ sets' = sets + 1
    BY DEF SetCommit, TypeOK
  <1>3. \A q \in Req : req[q].at \in {"set_delete", "set_insert", "set_commit"} =>
          req[q].base \in Nat /\ req[q].base <= sets
    BY Fields DEF InterestInv, SeesAll
  <1>4. SeesAll'
    <2>1. Idle.at = "idle"
      BY DEF Idle
    <2>2. ASSUME NEW q \in Req,
                 req'[q].at \in {"set_delete", "set_insert", "set_commit"}
          PROVE  req'[q].base \in Nat /\ req'[q].base < sets'
      <3>1. req'[q] = req[q]
        BY <1>1, <2>1, <2>2
      <3> QED
        BY <1>2, <1>3, <2>2, <3>1
    <2> QED
      BY <1>2, <2>2 DEF SeesAll
  <1>5. InterestsOfLastRequest'
    <2>1. CASE sets # req[r].base
      BY <2>1 DEF SetCommit, InterestsOfLastRequest
    <2>2. CASE sets = req[r].base
      <3>1. req[r].gone = {i \in Interest : Has(i)}
        BY <2>2 DEF SetCommit, InterestInv, SeesAll
      <3>2. \A i \in Interest :
              interests'[i] = IF i \in req[r].asked THEN sets + 1
                              ELSE IF i \in req[r].gone THEN 0 ELSE interests[i]
        BY DEF SetCommit
      <3>3. \A i \in Interest : interests'[i] # 0 <=> i \in req[r].asked
        BY <1>2, <3>1, <3>2 DEF Has
      <3>4. req[r].asked \subseteq Interest /\ chosen' = req[r].asked
        BY Fields DEF SetCommit
      <3>5. {i \in Interest : Has(i)'} = chosen'
        BY <3>3, <3>4 DEF Has
      <3> QED
        BY <3>5 DEF InterestsOfLastRequest, Has
    <2> QED
      BY <2>1, <2>2
  <1> QED
    BY <1>4, <1>5 DEF InterestInv

\* A replacement of the interests that no other one overtakes leaves just
\* those it was asked for, whatever else runs or fails.
THEOREM InterestsReplaced == Spec => []InterestsOfLastRequest
<1>1. Init => InterestInv
  <2> SUFFICES ASSUME Init PROVE InterestInv
    OBVIOUS
  <2>1. \A r \in Req : req[r].at = "idle"
    BY DEF Init, Idle
  <2>2. \A i \in Interest : ~Has(i)
    BY DEF Init, Has
  <2>3. {i \in Interest : Has(i)} = chosen
    BY <2>2 DEF Init
  <2> QED
    BY <2>1, <2>3 DEF InterestInv, SeesAll, InterestsOfLastRequest
<1>2. TypeOK /\ InterestInv /\ [Next]_vars => InterestInv'
  <2>1. TypeOK /\ InterestInv /\ Next => InterestInv'
    BY OthersKeepInterests, SetsKeepInterests, CommitKeepsInterests
       DEF Next, SetInterests
  <2>2. InterestInv /\ UNCHANGED vars => InterestInv'
    BY DEF InterestInv, SeesAll, InterestsOfLastRequest, Has, vars, interestVars
  <2> QED
    BY <2>1, <2>2
<1>3. InterestInv => InterestsOfLastRequest
  BY DEF InterestInv
<1> QED
  BY <1>1, <1>2, <1>3, TypeCorrect, PTL DEF Spec

-----------------------------------------------------------------------------
(* The suggestions: the rows of one computation *)

\* The rows that a computation stores.
RowsOf(best, gen) ==
    {[act |-> best[i], gen |-> gen, rank |-> i] : i \in DOMAIN best}

\* A ranking holds every candidate once.
LEMMA Ranking ==
    ASSUME NEW S \in SUBSET Activity, NEW best \in SetToSeqs(S)
    PROVE  /\ Cardinality(S) \in Nat
           /\ DOMAIN best = 1 .. Cardinality(S)
           /\ \A i \in DOMAIN best : i \in Nat /\ best[i] \in S
           /\ \A a \in S : \E i \in DOMAIN best : best[i] = a
           /\ best \in Seq(Activity)
  <1> DEFINE n == Cardinality(S)
  <1>1. IsFiniteSet(S)
    BY ActivityAssumption, FS_Subset
  <1>2. n \in Nat
    BY <1>1, FS_CardinalityType
  <1>3. /\ best \in [1 .. n -> S]
        /\ \A i, j \in 1 .. n : i # j => best[i] # best[j]
    BY DEF SetToSeqs
  <1>4. best \in Injection(1 .. n, S)
    BY <1>3 DEF Injection, IsInjective
  <1>5. IsFiniteSet(1 .. n) /\ Cardinality(1 .. n) = n
    BY <1>2, FS_Interval
  <1>6. best \in Surjection(1 .. n, S)
    BY <1>1, <1>4, <1>5, FS_Injection
  <1>7. \A a \in S : \E i \in 1 .. n : best[i] = a
    BY <1>6 DEF Surjection
  <1>8. best \in [1 .. n -> Activity]
    BY <1>3
  <1>9. best \in Seq(Activity)
    <2> HIDE DEF n
    <2> QED
      BY <1>2, <1>8
  <1> QED
    BY <1>2, <1>3, <1>7, <1>9

\* They are rows of that one computation, for the candidates it had.
LEMMA RowsOfRanking ==
    ASSUME NEW S \in SUBSET Activity, NEW best \in SetToSeqs(S), NEW gen \in Gen
    PROVE  /\ RowsOf(best, gen) \in SUBSET SuggestRow
           /\ Acts(RowsOf(best, gen)) = S
           /\ \A entry \in RowsOf(best, gen) : entry.gen = gen
           /\ S = {} => RowsOf(best, gen) = {}
  <1>1. /\ \A i \in DOMAIN best : i \in Nat /\ best[i] \in S
        /\ \A a \in S : \E i \in DOMAIN best : best[i] = a
    BY Ranking
  <1>2. RowsOf(best, gen) \in SUBSET SuggestRow
    BY <1>1 DEF RowsOf, SuggestRow
  <1>3. Acts(RowsOf(best, gen)) = S
    <2>1. ASSUME NEW a \in S
          PROVE  a \in Acts(RowsOf(best, gen))
      <3>1. PICK i \in DOMAIN best : best[i] = a
        BY <1>1
      <3>2. [act |-> best[i], gen |-> gen, rank |-> i] \in RowsOf(best, gen)
        BY DEF RowsOf
      <3> QED
        BY <3>1, <3>2 DEF Acts
    <2>2. ASSUME NEW a \in Acts(RowsOf(best, gen))
          PROVE  a \in S
      BY <1>1 DEF Acts, RowsOf
    <2> QED
      BY <2>1, <2>2
  <1>4. \A entry \in RowsOf(best, gen) : entry.gen = gen
    BY DEF RowsOf
  <1>5. S = {} => RowsOf(best, gen) = {}
    BY <1>1 DEF RowsOf
  <1> QED
    BY <1>2, <1>3, <1>4, <1>5

\* The rows are the result of one computation.
Listed(rows) ==
    \E best \in SetToSeqs(Acts(rows)), gen \in Gen : rows = RowsOf(best, gen)

CacheListed == cache = {} \/ Listed(cache)

ByRank(s) == \A i, j \in DOMAIN s : i < j => s[i].rank < s[j].rank

\* One computation's rows can be put in the order of their ranks.
LEMMA ListedIsOrdered ==
    ASSUME NEW rows \in SUBSET SuggestRow, Listed(rows)
    PROVE  \E s \in SetToSeqs(rows) : ByRank(s)
  <1>1. Acts(rows) \in SUBSET Activity
    BY DEF Acts, SuggestRow
  <1>2. PICK best \in SetToSeqs(Acts(rows)), gen \in Gen :
          rows = RowsOf(best, gen)
    BY DEF Listed
  <1>3. PICK n \in Nat : DOMAIN best = 1 .. n
    BY <1>1, Ranking
  <1> DEFINE s == [i \in 1 .. n |->
                     [act |-> best[i], gen |-> gen, rank |-> i]]
  <1>4. \A i \in 1 .. n : s[i] \in rows /\ s[i].rank = i
    BY <1>2, <1>3 DEF RowsOf
  <1>5. \A entry \in rows : \E i \in 1 .. n : s[i] = entry
    BY <1>2, <1>3 DEF RowsOf
  <1>6. s \in [1 .. n -> rows]
    BY <1>4
  <1> HIDE DEF s
  <1>7. s \in Bijection(1 .. n, rows)
    <2>1. s \in Injection(1 .. n, rows)
      BY <1>4, <1>6 DEF Injection, IsInjective
    <2>2. s \in Surjection(1 .. n, rows)
      BY <1>5, <1>6 DEF Surjection
    <2> QED
      BY <2>1, <2>2 DEF Bijection
  <1>8. IsFiniteSet(1 .. n) /\ Cardinality(1 .. n) = n
    BY <1>3, FS_Interval
  <1>9. Cardinality(rows) = n
    BY <1>7, <1>8, FS_Bijection DEF ExistsBijection
  <1>10. s \in SetToSeqs(rows)
    BY <1>4, <1>6, <1>9 DEF SetToSeqs
  <1>11. ByRank(s)
    BY <1>4, <1>6 DEF ByRank
  <1> QED
    BY <1>10, <1>11

\* What a GET reads back: the cached activities, best first.
LEMMA TopIsOrdered ==
    ASSUME cache \in SUBSET SuggestRow, Listed(cache)
    PROVE  /\ TopForUser \in Seq(Activity)
           /\ \E s \in SetToSeqs(cache) :
                ByRank(s) /\ TopForUser = [i \in DOMAIN s |-> s[i].act]
  <1> DEFINE rows == CHOOSE s \in SetToSeqs(cache) :
                       \A i, j \in DOMAIN s : i < j => s[i].rank < s[j].rank
  <1>1. rows \in SetToSeqs(cache) /\ ByRank(rows)
    <2>1. \E s \in SetToSeqs(cache) : ByRank(s)
      BY ListedIsOrdered
    <2> QED
      BY <2>1 DEF ByRank
  <1>2. TopForUser = [i \in DOMAIN rows |-> rows[i].act]
    BY DEF TopForUser
  <1> HIDE DEF rows
  <1>3. PICK s \in SetToSeqs(cache) :
          ByRank(s) /\ TopForUser = [i \in DOMAIN s |-> s[i].act]
    BY <1>1, <1>2
  <1>4. PICK n : n = Cardinality(cache)
    OBVIOUS
  <1>5. n \in Nat
    <2>1. PICK best \in SetToSeqs(Acts(cache)), gen \in Gen :
            cache = RowsOf(best, gen)
      BY DEF Listed
    <2>2. Acts(cache) \in SUBSET Activity
      BY DEF Acts, SuggestRow
    <2>3. PICK k \in Nat : DOMAIN best = 1 .. k
      BY <2>2, Ranking
    <2>4. IsFiniteSet(DOMAIN best)
      BY <2>3, FS_Interval
    <2> DEFINE listing == [i \in DOMAIN best |->
                             [act |-> best[i], gen |-> gen, rank |-> i]]
    <2>5. listing \in Surjection(DOMAIN best, cache)
      BY <2>1 DEF RowsOf, Surjection
    <2>6. IsFiniteSet(cache)
      BY <2>4, <2>5, FS_Surjection
    <2> QED
      BY <1>4, <2>6, FS_CardinalityType
  <1>6. s \in [1 .. n -> cache]
    BY <1>3, <1>4 DEF SetToSeqs
  <1>7. TopForUser \in [1 .. n -> Activity]
    BY <1>3, <1>6 DEF SuggestRow
  <1> QED
    BY <1>3, <1>5, <1>7

-----------------------------------------------------------------------------
(* The suggestions: types *)

InFlight == {"score", "deleting", "insert"}

\* A computation is the worker's or a request's, and only requests count.
Fits(r, q) ==
    /\ q.at \in {"generate"} \cup InFlight =>
         q.kind \in IF r = Worker THEN {"worker"} ELSE {"get", "refresh"}
    /\ q.at = "record" => r # Worker

KindsFit == \A r \in Runner : Fits(r, run[r])

\* A computation under way: its candidates are scored, and then replace the
\* rows that are cached.
Scoring   == [at : {"score"}, kind : SuggestKind, acts : SUBSET Activity,
              left : SUBSET Activity, fits : BOOLEAN]
Replacing == [at : {"deleting", "insert"}, kind : SuggestKind,
              acts : SUBSET Activity, fits : BOOLEAN,
              snap : SUBSET SuggestRow]

\* What a runner holds in each of its states.
LEMMA StepFields ==
    ASSUME SuggestTypeOK, NEW r \in Runner
    PROVE  /\ run[r] \in Step
           /\ run[r].at \in InFlight =>
                /\ run[r].kind \in SuggestKind
                /\ run[r].acts \in SUBSET Activity
                /\ run[r].fits \in BOOLEAN
           /\ run[r].at = "score" => run[r].left \in SUBSET Activity
           /\ run[r].at \in {"deleting", "insert"} =>
                run[r].snap \in SUBSET SuggestRow
           /\ run[r].at = "record" =>
                /\ run[r].feed \in Seq(Activity)
                /\ run[r].n \in Nat
                /\ run[r] \in [at : {"record"}, kind : SuggestKind,
                              feed : Seq(Activity), n : Nat]
           /\ run[r].at = "enrich" => run[r].feed \in Seq(Activity)
           /\ run[r].at = "accept" => run[r].act \in Activity
  <1>1. run[r] \in Step
    BY DEF SuggestTypeOK
  <1>2. /\ run[r].at = "enrich" => run[r].feed \in Seq(Activity)
        /\ run[r].at = "accept" => run[r].act \in Activity
    BY <1>1 DEF Step
  <1>3. /\ run[r].at = "score" => run[r] \in Scoring
        /\ run[r].at \in {"deleting", "insert"} => run[r] \in Replacing
    BY <1>1 DEF Step, Scoring, Replacing
  <1>4. run[r].at = "record" =>
          run[r] \in [at : {"record"}, kind : SuggestKind,
                     feed : Seq(Activity), n : Nat]
    BY <1>1 DEF Step
  <1>5. run[r].at = "score" =>
          /\ run[r].kind \in SuggestKind
          /\ run[r].acts \in SUBSET Activity
          /\ run[r].fits \in BOOLEAN
          /\ run[r].left \in SUBSET Activity
    BY <1>3 DEF Scoring
  <1>6. run[r].at \in {"deleting", "insert"} =>
          /\ run[r].kind \in SuggestKind
          /\ run[r].acts \in SUBSET Activity
          /\ run[r].fits \in BOOLEAN
          /\ run[r].snap \in SUBSET SuggestRow
    BY <1>3 DEF Replacing
  <1> QED
    BY <1>1, <1>2, <1>4, <1>5, <1>6 DEF InFlight

\* The states that a runner can be put into.
LEMMA StepStates ==
    /\ AfterFailure \in Step /\ [at |-> "wait"] \in Step
    /\ \A seen \in SUBSET Activity : [at |-> "done", seen |-> seen] \in Step
    /\ \A kind \in SuggestKind : [at |-> "generate", kind |-> kind] \in Step
    /\ \A kind \in SuggestKind, acts \in SUBSET Activity,
          left \in SUBSET Activity, fits \in BOOLEAN :
         [at |-> "score", kind |-> kind, acts |-> acts, left |-> left,
          fits |-> fits] \in Step
    /\ \A at \in {"deleting", "insert"}, kind \in SuggestKind,
          acts \in SUBSET Activity, fits \in BOOLEAN,
          snap \in SUBSET SuggestRow :
         [at |-> at, kind |-> kind, acts |-> acts, fits |-> fits,
          snap |-> snap] \in Step
    /\ \A kind \in SuggestKind, feed \in Seq(Activity), n \in Nat :
         [at |-> "record", kind |-> kind, feed |-> feed, n |-> n] \in Step
    /\ \A kind \in SuggestKind, feed \in Seq(Activity) :
         [at |-> "enrich", kind |-> kind, feed |-> feed] \in Step
    /\ \A kind \in SuggestKind, a \in Activity :
         [at |-> "accept", kind |-> kind, act |-> a] \in Step
  <1>1. AfterFailure \in Step /\ [at |-> "wait"] \in Step
    BY DEF AfterFailure, Step
  <1>2. \A seen \in SUBSET Activity : [at |-> "done", seen |-> seen] \in Step
    BY DEF Step
  <1>3. \A kind \in SuggestKind : [at |-> "generate", kind |-> kind] \in Step
    BY DEF Step
  <1>4. \A kind \in SuggestKind, acts \in SUBSET Activity,
          left \in SUBSET Activity, fits \in BOOLEAN :
         [at |-> "score", kind |-> kind, acts |-> acts, left |-> left,
          fits |-> fits] \in Step
    BY DEF Step
  <1>8. \A at \in {"deleting", "insert"}, kind \in SuggestKind,
          acts \in SUBSET Activity, fits \in BOOLEAN,
          snap \in SUBSET SuggestRow :
         [at |-> at, kind |-> kind, acts |-> acts, fits |-> fits,
          snap |-> snap] \in Step
    BY DEF Step
  <1>5. \A kind \in SuggestKind, feed \in Seq(Activity), n \in Nat :
         [at |-> "record", kind |-> kind, feed |-> feed, n |-> n] \in Step
    BY DEF Step
  <1>6. \A kind \in SuggestKind, feed \in Seq(Activity) :
         [at |-> "enrich", kind |-> kind, feed |-> feed] \in Step
    BY DEF Step
  <1>7. \A kind \in SuggestKind, a \in Activity :
         [at |-> "accept", kind |-> kind, act |-> a] \in Step
    BY DEF Step
  <1> QED
    BY <1>1, <1>2, <1>3, <1>4, <1>5, <1>6, <1>7, <1>8

-----------------------------------------------------------------------------
(* The suggestions: what a step does to its runner *)

LEMMA RunnerMoves ==
    ASSUME SuggestTypeOK, NEW r \in Runner, NEW q \in Step, SuggestGoto(r, q)
    PROVE  /\ run' \in [Runner -> Step]
           /\ run'[r] = q
           /\ \A p \in Runner : p # r => run'[p] = run[p]
  BY DEF SuggestTypeOK, SuggestGoto

LEMMA KindsStayFit ==
    ASSUME SuggestTypeOK, KindsFit, NEW r \in Runner, NEW q \in Step,
           SuggestGoto(r, q), Fits(r, q)
    PROVE  KindsFit'
  <1> SUFFICES ASSUME NEW p \in Runner
               PROVE  Fits(p, run'[p])
    BY DEF KindsFit
  <1>1. CASE p = r
    BY <1>1, RunnerMoves
  <1>2. CASE p # r
    <2>1. run'[p] = run[p]
      BY <1>2, RunnerMoves
    <2> QED
      BY <2>1 DEF KindsFit
  <1> QED
    BY <1>1, <1>2

\* The runner is past its computation and has shown the user nothing more.
Leaves(r, q) ==
    /\ q.at \in {"wait", "done", "record", "enrich", "accept"}
    /\ q.at = "record" => r # Worker
    /\ q.at = "done" => q.seen = {}
    /\ q.at = "enrich" => q.kind # "get"

LEMMA LeavesFits ==
    ASSUME NEW r, NEW q, Leaves(r, q)
    PROVE  Fits(r, q) /\ q.at \notin InFlight
  BY DEF Leaves, Fits, InFlight

LEMMA FailsMoves ==
    ASSUME NEW r \in Runner, Fails(r)
    PROVE  \E q \in Step : SuggestGoto(r, q) /\ Leaves(r, q)
  <1>1. CASE r = Worker
    <2>1. Leaves(r, AfterFailure)
      BY DEF Leaves, AfterFailure
    <2> QED
      BY <1>1, <2>1, StepStates DEF Fails
  <1>2. CASE r # Worker
    <2> DEFINE q == [at |-> "done", seen |-> {}]
    <2>1. q \in Step
      BY StepStates
    <2>2. Leaves(r, q)
      BY DEF Leaves
    <2> QED
      BY <1>2, <2>1, <2>2 DEF Fails, Answer
  <1> QED
    BY <1>1, <1>2

LEMMA ShowMoves ==
    ASSUME NEW r \in SuggestReq, NEW acts \in Seq(Activity), Show(r, acts)
    PROVE  \E q \in Step : SuggestGoto(r, q) /\ Leaves(r, q)
  <1>1. PICK limit \in 1 .. Cardinality(Activity) :
          SuggestGoto(r, [at |-> "record", kind |-> "get", n |-> 0,
                          feed |-> First(acts, limit)])
    BY DEF Show
  <1>2. First(acts, limit) \in Seq(Activity)
    <2>1. Cardinality(Activity) \in Nat
      BY ActivityAssumption, FS_CardinalityType
    <2>2. PICK k : k = IF limit < Len(acts) THEN limit ELSE Len(acts)
      OBVIOUS
    <2>3. k \in Nat /\ k <= Len(acts)
      BY <2>1, <2>2
    <2>4. SubSeq(acts, 1, k) \in Seq(Activity)
      BY <2>3
    <2> QED
      BY <2>2, <2>4 DEF First
  <1> DEFINE q == [at |-> "record", kind |-> "get",
                   feed |-> First(acts, limit), n |-> 0]
  <1>3. q \in Step
    <2>1. "get" \in SuggestKind /\ 0 \in Nat
      BY DEF SuggestKind
    <2> QED
      BY <1>2, <2>1, StepStates
  <1>4. Leaves(r, q)
    BY RunnerAssumption DEF Leaves
  <1>5. q = [at |-> "record", kind |-> "get", n |-> 0,
             feed |-> First(acts, limit)]
    OBVIOUS
  <1> QED
    BY <1>1, <1>3, <1>4, <1>5

LEMMA ContinueMoves ==
    ASSUME NEW r \in Runner, NEW acts \in Seq(Activity),
           Fits(r, run[r]), run[r].at \in InFlight, Continue(r, acts)
    PROVE  \E q \in Step : SuggestGoto(r, q) /\ Leaves(r, q)
  <1>1. CASE r = Worker
    <2> DEFINE q == [at |-> "wait"]
    <2>1. run[r].kind = "worker"
      BY <1>1 DEF Fits
    <2>2. SuggestGoto(r, q)
      BY <2>1 DEF Continue
    <2>3. q \in Step /\ Leaves(r, q)
      BY StepStates DEF Leaves
    <2> QED
      BY <2>2, <2>3
  <1>2. CASE r # Worker /\ run[r].kind = "refresh"
    <2> DEFINE q == [at |-> "enrich", kind |-> "refresh", feed |-> acts]
    <2>1. SuggestGoto(r, q)
      BY <1>2 DEF Continue
    <2>2. q \in Step
      BY StepStates DEF SuggestKind
    <2>3. Leaves(r, q)
      BY DEF Leaves
    <2> QED
      BY <2>1, <2>2, <2>3
  <1>3. CASE r # Worker /\ run[r].kind = "get"
    <2>1. r \in SuggestReq
      BY <1>3 DEF Runner
    <2>2. Show(r, acts)
      BY <1>3 DEF Continue
    <2> QED
      BY <2>1, <2>2, ShowMoves
  <1>4. r # Worker => run[r].kind \in {"get", "refresh"}
    BY DEF Fits
  <1> QED
    BY <1>1, <1>2, <1>3, <1>4

\* What an insert does: it fails, on a conflict or because of a score that
\* has no room, or adds the rows.
LEMMA InsertMoves ==
    ASSUME SuggestTypeOK, KindsFit, NEW r \in Runner, InsertRows(r)
    PROVE  /\ \E q \in Step : SuggestGoto(r, q) /\ Leaves(r, q)
           /\ \/ cache' = cache /\ old' = old
              \/ /\ ~ Collides(cache \ run[r].snap, run[r].acts)
                 /\ \E best \in SetToSeqs(run[r].acts), gen \in Gen \ Named :
                      /\ cache' = (cache \ run[r].snap) \cup RowsOf(best, gen)
                      /\ old' \in SUBSET old
  <1> DEFINE rest == cache \ run[r].snap
  <1>1. run[r].at = "insert"
    BY DEF InsertRows
  <1>2. CASE ~run[r].fits \/ Collides(rest, run[r].acts)
    <2>1. Fails(r) /\ cache' = cache /\ old' = old
      BY <1>2 DEF InsertRows
    <2> QED
      BY <2>1, FailsMoves
  <1>3. CASE run[r].fits /\ ~ Collides(rest, run[r].acts)
    <2>1. PICK gen \in Gen \ Named, best \in SetToSeqs(run[r].acts) :
            /\ cache' = rest \cup {[act |-> best[i], gen |-> gen,
                                    rank |-> i] : i \in DOMAIN best}
            /\ old' = old \cap Gens(rest)
            /\ Continue(r, best)
      BY <1>3 DEF InsertRows
    <2>2. run[r].acts \in SUBSET Activity
      BY <1>1, StepFields DEF InFlight
    <2>3. best \in Seq(Activity)
      BY <2>2, Ranking
    <2>4. \E q \in Step : SuggestGoto(r, q) /\ Leaves(r, q)
      BY <1>1, <2>1, <2>3, ContinueMoves DEF KindsFit, InFlight
    <2> QED
      BY <1>3, <2>1, <2>4 DEF RowsOf
  <1> QED
    BY <1>2, <1>3

LEMMA GenerateMoves ==
    ASSUME SuggestTypeOK, KindsFit, NEW r \in Runner, Generate(r)
    PROVE  \E q \in Step :
             /\ SuggestGoto(r, q) /\ Fits(r, q)
             /\ q.at = "score" /\ q.acts = approved
  <1>1. run[r].at = "generate" /\ Fits(r, run[r])
    BY DEF Generate, KindsFit
  <1>2. run[r].kind \in SuggestKind
    BY <1>1 DEF Fits, SuggestKind
  <1> DEFINE q == [at |-> "score", kind |-> run[r].kind, acts |-> approved,
                   left |-> approved, fits |-> TRUE]
  <1>3. q \in Step
    <2>1. approved \in SUBSET Activity /\ TRUE \in BOOLEAN
      BY DEF SuggestTypeOK
    <2> QED
      BY <1>2, <2>1, StepStates
  <1>4. Fits(r, q)
    BY <1>1 DEF Fits, InFlight
  <1>5. SuggestGoto(r, q)
    BY DEF Generate
  <1> QED
    BY <1>3, <1>4, <1>5

LEMMA ScoreMoves ==
    ASSUME SuggestTypeOK, KindsFit, NEW r \in Runner, Score(r)
    PROVE  \E q \in Step :
             /\ SuggestGoto(r, q) /\ Fits(r, q)
             /\ run[r].at = "score" /\ q.at = "score"
             /\ q.acts = run[r].acts
  <1>1. run[r].at = "score" /\ run[r].at \in InFlight /\ Fits(r, run[r])
    BY DEF Score, InFlight, KindsFit
  <1>2. PICK a \in run[r].left :
          SuggestGoto(r, [at |-> "score", kind |-> run[r].kind,
                          acts |-> run[r].acts, left |-> run[r].left \ {a},
                          fits |-> run[r].fits /\ ~TooOften(a)])
    BY DEF Score
  <1>3. PICK left, fits : /\ left = run[r].left \ {a}
                          /\ fits = (run[r].fits /\ ~TooOften(a))
    OBVIOUS
  <1>4. /\ run[r].kind \in SuggestKind /\ run[r].acts \in SUBSET Activity
        /\ left \in SUBSET Activity
    BY <1>1, <1>3, StepFields
  <1>5. fits \in BOOLEAN
    BY <1>3
  <1> DEFINE q == [at |-> "score", kind |-> run[r].kind,
                   acts |-> run[r].acts, left |-> left, fits |-> fits]
  <1>6. q \in Step
    BY <1>4, <1>5, StepStates
  <1>7. Fits(r, q)
    BY <1>1 DEF Fits, InFlight
  <1>8. SuggestGoto(r, q)
    BY <1>2, <1>3
  <1> QED
    BY <1>1, <1>6, <1>7, <1>8

LEMMA DeleteStartMoves ==
    ASSUME SuggestTypeOK, KindsFit, NEW r \in Runner, DeleteStart(r)
    PROVE  \E q \in Step :
             /\ SuggestGoto(r, q) /\ Fits(r, q)
             /\ run[r].at \in InFlight /\ q.at \in {"deleting", "insert"}
             /\ q.acts = run[r].acts /\ q.snap = cache
  <1>1. run[r].at = "score" /\ run[r].at \in InFlight /\ Fits(r, run[r])
    BY DEF DeleteStart, InFlight, KindsFit
  <1>2. PICK at \in {"deleting", "insert"} :
          SuggestGoto(r, [at |-> at, kind |-> run[r].kind,
                          acts |-> run[r].acts, fits |-> run[r].fits,
                          snap |-> cache])
    BY DEF DeleteStart
  <1>3. /\ run[r].kind \in SuggestKind /\ run[r].acts \in SUBSET Activity
        /\ run[r].fits \in BOOLEAN /\ cache \in SUBSET SuggestRow
    BY <1>1, StepFields DEF SuggestTypeOK
  <1> DEFINE q == [at |-> at, kind |-> run[r].kind, acts |-> run[r].acts,
                   fits |-> run[r].fits, snap |-> cache]
  <1>4. q \in Step
    BY <1>3, StepStates
  <1>5. Fits(r, q)
    BY <1>1, <1>2 DEF Fits, InFlight
  <1> QED
    BY <1>1, <1>2, <1>4, <1>5

LEMMA DeleteWaitedMoves ==
    ASSUME SuggestTypeOK, KindsFit, NEW r \in Runner, DeleteWaited(r)
    PROVE  \E q \in Step :
             /\ SuggestGoto(r, q) /\ Fits(r, q)
             /\ run[r].at = "deleting" /\ q.at = "insert"
             /\ q.acts = run[r].acts /\ q.snap = run[r].snap \cap cache
  <1>1. run[r].at = "deleting" /\ run[r].at \in InFlight /\ Fits(r, run[r])
    BY DEF DeleteWaited, InFlight, KindsFit
  <1>2. PICK there : there = run[r].snap \cap cache
    OBVIOUS
  <1>3. SuggestGoto(r, [at |-> "insert", kind |-> run[r].kind,
                        acts |-> run[r].acts, fits |-> run[r].fits,
                        snap |-> there])
    BY <1>2 DEF DeleteWaited
  <1>4. /\ run[r].kind \in SuggestKind /\ run[r].acts \in SUBSET Activity
        /\ run[r].fits \in BOOLEAN /\ there \in SUBSET SuggestRow
    BY <1>1, <1>2, StepFields DEF SuggestTypeOK
  <1> DEFINE q == [at |-> "insert", kind |-> run[r].kind,
                   acts |-> run[r].acts, fits |-> run[r].fits,
                   snap |-> there]
  <1>5. q \in Step
    BY <1>4, StepStates
  <1>6. Fits(r, q)
    BY <1>1 DEF Fits, InFlight
  <1> QED
    BY <1>1, <1>2, <1>3, <1>5, <1>6

LEMMA GetMoves ==
    ASSUME SuggestTypeOK, CacheListed, NEW r, Get(r)
    PROVE  /\ r \in SuggestReq
           /\ \E q \in Step : /\ SuggestGoto(r, q) /\ Fits(r, q)
                              /\ Leaves(r, q) \/ q.at = "generate"
  <1>1. r \in SuggestReq
    BY DEF Get
  <1>2. CASE cache # {}
    <2>1. TopForUser \in Seq(Activity)
      BY <1>2, TopIsOrdered DEF CacheListed, SuggestTypeOK
    <2>2. PICK q \in Step : SuggestGoto(r, q) /\ Leaves(r, q)
      BY <1>1, <1>2, <2>1, ShowMoves DEF Get
    <2> QED
      BY <1>1, <2>2, LeavesFits
  <1>3. CASE cache = {}
    <2> DEFINE q == [at |-> "generate", kind |-> "get"]
    <2>1. q \in Step
      BY StepStates DEF SuggestKind
    <2>2. Fits(r, q)
      BY <1>1, RunnerAssumption DEF Fits
    <2>3. SuggestGoto(r, q)
      BY <1>3 DEF Get
    <2> QED
      BY <1>1, <2>1, <2>2, <2>3
  <1> QED
    BY <1>2, <1>3

LEMMA RefreshMoves ==
    ASSUME NEW r, Refresh(r)
    PROVE  /\ r \in SuggestReq
           /\ \E q \in Step : /\ SuggestGoto(r, q) /\ Fits(r, q)
                              /\ q.at = "generate"
  <1> DEFINE q == [at |-> "generate", kind |-> "refresh"]
  <1>1. r \in SuggestReq /\ SuggestGoto(r, q)
    BY DEF Refresh
  <1>2. q \in Step
    BY StepStates DEF SuggestKind
  <1>3. Fits(r, q)
    BY <1>1, RunnerAssumption DEF Fits
  <1> QED
    BY <1>1, <1>2, <1>3

LEMMA CreateHangoutMoves ==
    ASSUME NEW r, NEW a \in Activity, CreateHangout(r, a)
    PROVE  /\ r \in SuggestReq
           /\ \E q \in Step : SuggestGoto(r, q) /\ Leaves(r, q)
  <1> DEFINE q == [at |-> "accept", kind |-> "hangout", act |-> a]
  <1>1. r \in SuggestReq /\ SuggestGoto(r, q)
    BY DEF CreateHangout
  <1>2. q \in Step
    BY StepStates DEF SuggestKind
  <1>3. Leaves(r, q)
    BY DEF Leaves
  <1> QED
    BY <1>1, <1>2, <1>3

LEMMA RecordNextMoves ==
    ASSUME SuggestTypeOK, KindsFit, NEW r \in Runner, RecordNext(r)
    PROVE  \E q \in Step : SuggestGoto(r, q) /\ Leaves(r, q)
  <1>1. run[r].at = "record" /\ r # Worker
    BY DEF RecordNext, KindsFit, Fits
  <1>2. PICK p : p = run[r]
    OBVIOUS
  <1>3. p \in [at : {"record"}, kind : SuggestKind, feed : Seq(Activity),
               n : Nat]
    BY <1>1, <1>2, StepFields
  <1>4. SuggestGoto(r, [p EXCEPT !.n = @ + 1])
    BY <1>2 DEF RecordNext
  <1>5. [p EXCEPT !.n = @ + 1]
          = [at |-> "record", kind |-> p.kind, feed |-> p.feed, n |-> p.n + 1]
    BY <1>3
  <1> DEFINE q == [at |-> "record", kind |-> p.kind, feed |-> p.feed,
                   n |-> p.n + 1]
  <1>6. q \in Step
    <2>1. /\ p.kind \in SuggestKind /\ p.feed \in Seq(Activity)
          /\ p.n + 1 \in Nat
      BY <1>3
    <2> QED
      BY <2>1, StepStates
  <1>7. Leaves(r, q)
    BY <1>1 DEF Leaves
  <1> QED
    BY <1>4, <1>5, <1>6, <1>7

LEMMA RecordCommitMoves ==
    ASSUME SuggestTypeOK, NEW r \in Runner, RecordCommit(r)
    PROVE  \E q \in Step :
             /\ SuggestGoto(r, q) /\ Fits(r, q)
             /\ q.at = "enrich" /\ q.kind = "get" /\ q.feed = run[r].feed
  <1> DEFINE q == [at |-> "enrich", kind |-> "get", feed |-> run[r].feed]
  <1>1. run[r].at = "record" /\ SuggestGoto(r, q)
    BY DEF RecordCommit
  <1>2. run[r].feed \in Seq(Activity)
    BY <1>1, StepFields
  <1>3. q \in Step
    BY <1>2, StepStates DEF SuggestKind
  <1>4. Fits(r, q)
    BY DEF Fits, InFlight
  <1> QED
    BY <1>1, <1>3, <1>4

LEMMA EnrichMoves ==
    ASSUME SuggestTypeOK, NEW r \in Runner, Enrich(r)
    PROVE  \E q \in Step :
             /\ SuggestGoto(r, q) /\ Fits(r, q)
             /\ run[r].at = "enrich" /\ q.at = "done"
             /\ \/ run[r].kind = "get" /\ q.seen \subseteq ToSet(run[r].feed)
                \/ q.seen = {}
  <1> DEFINE seen == IF run[r].kind = "get"
                       THEN ToSet(run[r].feed) \cap approved ELSE {}
             q == [at |-> "done", seen |-> seen]
  <1>1. run[r].at = "enrich" /\ SuggestGoto(r, q)
    BY DEF Enrich, Answer
  <1>2. seen \in SUBSET Activity
    BY DEF SuggestTypeOK
  <1>3. q \in Step
    <2> HIDE DEF seen
    <2> QED
      BY <1>2, StepStates
  <1>4. Fits(r, q)
    BY DEF Fits, InFlight
  <1> QED
    BY <1>1, <1>3, <1>4

LEMMA RecordAcceptedMoves ==
    ASSUME NEW r \in Runner, RecordAccepted(r)
    PROVE  \E q \in Step : SuggestGoto(r, q) /\ Leaves(r, q)
  <1> DEFINE q == [at |-> "done", seen |-> {}]
  <1>1. SuggestGoto(r, q)
    BY DEF RecordAccepted, Answer
  <1>2. q \in Step
    BY StepStates
  <1>3. Leaves(r, q)
    BY DEF Leaves
  <1> QED
    BY <1>1, <1>2, <1>3

LEMMA RunOnceMoves ==
    ASSUME RunOnce
    PROVE  \E q \in Step : /\ SuggestGoto(Worker, q) /\ Fits(Worker, q)
                           /\ q.at = "generate"
  <1> DEFINE q == [at |-> "generate", kind |-> "worker"]
  <1>1. SuggestGoto(Worker, q)
    BY DEF RunOnce
  <1>2. q \in Step
    BY StepStates DEF SuggestKind
  <1>3. Fits(Worker, q)
    BY DEF Fits
  <1> QED
    BY <1>1, <1>2, <1>3

-----------------------------------------------------------------------------
(* The suggestions: types *)

LEMMA UnlockedType ==
    ASSUME SuggestTypeOK, NEW r
    PROVE  Unlocked(r) \in [Activity -> SuggestReq \cup {NoOne}]
  BY DEF SuggestTypeOK, Unlocked

LEMMA SuggestTypesStep ==
    ASSUME SuggestTypeOK, KindsFit, CacheListed, [SuggestNext]_suggestVars
    PROVE  SuggestTypeOK' /\ KindsFit'
  <1> USE DEF SuggestTypeOK
  <1>0. \A r \in Runner, q \in Step :
          SuggestGoto(r, q) /\ Fits(r, q) =>
            run' \in [Runner -> Step] /\ KindsFit'
    BY RunnerMoves, KindsStayFit
  <1>1. \A r \in Runner, q \in Step :
          SuggestGoto(r, q) /\ Leaves(r, q) =>
            run' \in [Runner -> Step] /\ KindsFit'
    BY <1>0, LeavesFits
  <1> HIDE DEF SuggestTypeOK
  <1>2. ASSUME NEW r \in Runner, Generate(r)
        PROVE  SuggestTypeOK' /\ KindsFit'
    <2>1. run' \in [Runner -> Step] /\ KindsFit'
      BY <1>0, <1>2, GenerateMoves
    <2> QED
      BY <1>2, <2>1 DEF Generate, SuggestTypeOK
  <1>19. ASSUME NEW r \in Runner, Score(r)
         PROVE  SuggestTypeOK' /\ KindsFit'
    <2>1. run' \in [Runner -> Step] /\ KindsFit'
      BY <1>0, <1>19, ScoreMoves
    <2> QED
      BY <1>19, <2>1 DEF Score, SuggestTypeOK
  <1>3. ASSUME NEW r \in Runner, DeleteStart(r)
        PROVE  SuggestTypeOK' /\ KindsFit'
    <2>1. run' \in [Runner -> Step] /\ KindsFit'
      BY <1>0, <1>3, DeleteStartMoves
    <2> QED
      BY <1>3, <2>1 DEF DeleteStart, SuggestTypeOK
  <1>4. ASSUME NEW r \in Runner, DeleteWaited(r)
        PROVE  SuggestTypeOK' /\ KindsFit'
    <2>1. run' \in [Runner -> Step] /\ KindsFit'
      BY <1>0, <1>4, DeleteWaitedMoves
    <2> QED
      BY <1>4, <2>1 DEF DeleteWaited, SuggestTypeOK
  <1>5. ASSUME NEW r \in Runner, InsertRows(r)
        PROVE  SuggestTypeOK' /\ KindsFit'
    <2>1. run' \in [Runner -> Step] /\ KindsFit'
      BY <1>1, <1>5, InsertMoves
    <2>2. cache' \in SUBSET SuggestRow /\ old' \in SUBSET Gen
      <3>1. CASE cache' = cache /\ old' = old
        BY <3>1 DEF SuggestTypeOK
      <3>2. CASE \E best \in SetToSeqs(run[r].acts), gen \in Gen \ Named :
                   /\ cache' = (cache \ run[r].snap) \cup RowsOf(best, gen)
                   /\ old' \in SUBSET old
        <4>1. run[r].acts \in SUBSET Activity
          BY <1>5, StepFields DEF InsertRows, InFlight
        <4>2. PICK best \in SetToSeqs(run[r].acts), gen \in Gen :
                   /\ cache' = (cache \ run[r].snap) \cup RowsOf(best, gen)
                   /\ old' \in SUBSET old
          BY <3>2
        <4>3. RowsOf(best, gen) \in SUBSET SuggestRow
          BY <4>1, RowsOfRanking
        <4> QED
          BY <4>2, <4>3 DEF SuggestTypeOK
      <3> QED
        BY <1>5, <3>1, <3>2, InsertMoves
    <2> QED
      BY <1>5, <2>1, <2>2 DEF InsertRows, SuggestTypeOK
  <1>6. ASSUME NEW r \in Runner, RecordNext(r)
        PROVE  SuggestTypeOK' /\ KindsFit'
    <2>1. run' \in [Runner -> Step] /\ KindsFit'
      BY <1>1, <1>6, RecordNextMoves
    <2>2. r \in SuggestReq
      BY <1>6 DEF RecordNext, KindsFit, Fits, Runner
    <2>3. lock' \in [Activity -> SuggestReq \cup {NoOne}]
      BY <1>6, <2>2 DEF RecordNext, SuggestTypeOK
    <2> QED
      BY <1>6, <2>1, <2>3 DEF RecordNext, SuggestTypeOK
  <1>7. ASSUME NEW r \in Runner, RecordCommit(r)
        PROVE  SuggestTypeOK' /\ KindsFit'
    <2>1. run' \in [Runner -> Step] /\ KindsFit'
      BY <1>0, <1>7, RecordCommitMoves
    <2>2. suggested' \in [Activity -> Nat]
      BY <1>7 DEF RecordCommit, OneMore, SuggestTypeOK
    <2>3. lock' \in [Activity -> SuggestReq \cup {NoOne}]
      BY <1>7, UnlockedType DEF RecordCommit
    <2> QED
      BY <1>7, <2>1, <2>2, <2>3 DEF RecordCommit, SuggestTypeOK
  <1>8. ASSUME NEW r \in Runner, Enrich(r)
        PROVE  SuggestTypeOK' /\ KindsFit'
    <2>1. run' \in [Runner -> Step] /\ KindsFit'
      BY <1>0, <1>8, EnrichMoves
    <2> QED
      BY <1>8, <2>1 DEF Enrich, SuggestTypeOK
  <1>9. ASSUME NEW r \in Runner, Deadlocked(r)
        PROVE  SuggestTypeOK' /\ KindsFit'
    <2>1. run' \in [Runner -> Step] /\ KindsFit'
      BY <1>1, <1>9, FailsMoves DEF Deadlocked
    <2>2. lock' \in [Activity -> SuggestReq \cup {NoOne}]
      BY <1>9, UnlockedType DEF Deadlocked, RolledBack
    <2> QED
      BY <1>9, <2>1, <2>2 DEF Deadlocked, SuggestTypeOK
  <1>10. ASSUME NEW r \in Runner, RecordAccepted(r)
         PROVE  SuggestTypeOK' /\ KindsFit'
    <2>1. run' \in [Runner -> Step] /\ KindsFit'
      BY <1>1, <1>10, RecordAcceptedMoves
    <2>2. accepted' \in [Activity -> Nat]
      <3>1. run[r].act \in Activity
        BY <1>10, StepFields DEF RecordAccepted
      <3> QED
        BY <1>10, <3>1 DEF RecordAccepted, SuggestTypeOK
    <2> QED
      BY <1>10, <2>1, <2>2 DEF RecordAccepted, SuggestTypeOK
  <1>11. ASSUME NEW r \in Runner, Get(r)
         PROVE  SuggestTypeOK' /\ KindsFit'
    <2>1. run' \in [Runner -> Step] /\ KindsFit'
      <3>1. PICK q \in Step : SuggestGoto(r, q) /\ Fits(r, q)
        BY <1>11, GetMoves
      <3> QED
        BY <1>0, <3>1
    <2> QED
      BY <1>11, <2>1 DEF Get, SuggestTypeOK
  <1>12. ASSUME NEW r \in Runner, Refresh(r)
         PROVE  SuggestTypeOK' /\ KindsFit'
    <2>1. run' \in [Runner -> Step] /\ KindsFit'
      BY <1>0, <1>12, RefreshMoves
    <2> QED
      BY <1>12, <2>1 DEF Refresh, SuggestTypeOK
  <1>13. ASSUME NEW r \in Runner, NEW a \in Activity, CreateHangout(r, a)
         PROVE  SuggestTypeOK' /\ KindsFit'
    <2>1. run' \in [Runner -> Step] /\ KindsFit'
      BY <1>1, <1>13, CreateHangoutMoves
    <2> QED
      BY <1>13, <2>1 DEF CreateHangout, SuggestTypeOK
  <1>14. ASSUME NEW r \in Runner, Fault(r)
         PROVE  SuggestTypeOK' /\ KindsFit'
    <2>1. run' \in [Runner -> Step] /\ KindsFit'
      BY <1>1, <1>14, FailsMoves DEF Fault
    <2>2. lock' \in [Activity -> SuggestReq \cup {NoOne}]
      BY <1>14, UnlockedType DEF Fault, RolledBack
    <2>3. faults' \in 0 .. MaxFaults
      BY <1>14, FaultAssumption DEF Fault, SuggestTypeOK
    <2> QED
      BY <1>14, <2>1, <2>2, <2>3 DEF Fault, SuggestTypeOK
  <1>15. CASE RunOnce
    <2>1. run' \in [Runner -> Step] /\ KindsFit'
      BY <1>0, <1>15, RunOnceMoves DEF Runner
    <2> QED
      BY <1>15, <2>1 DEF RunOnce, SuggestTypeOK
  <1>16. CASE Age
    <2>1. old' \in SUBSET Gen /\ KindsFit'
      BY <1>16 DEF Age, Gens, SuggestRow, SuggestTypeOK, KindsFit
    <2> QED
      BY <1>16, <2>1 DEF Age, SuggestTypeOK
  <1>17. ASSUME NEW a \in Activity, Approve(a)
         PROVE  SuggestTypeOK' /\ KindsFit'
    BY <1>17 DEF Approve, SuggestTypeOK, KindsFit
  <1>18. CASE UNCHANGED suggestVars
    BY <1>18 DEF suggestVars, SuggestTypeOK, KindsFit
  <1> QED
    BY <1>2, <1>3, <1>4, <1>5, <1>6, <1>7, <1>8, <1>9, <1>10, <1>11, <1>12,
       <1>13, <1>14, <1>15, <1>16, <1>17, <1>18, <1>19
    DEF SuggestNext, Works, Asked

-----------------------------------------------------------------------------
(* The suggestions: one computation at a time fills the cache *)

\* What a DELETE has seen or deleted is what is cached, or gone from it.
SnapsApart ==
    \A r \in Runner :
        run[r].at \in {"deleting", "insert"} =>
            run[r].snap = cache \/ run[r].snap \cap cache = {}

Comparable(S, T) == S \subseteq T \/ T \subseteq S

\* Approvals are never taken back, so of two computations one has all the
\* candidates of the other: what is cached and what replaces it have a
\* candidate in common, and the INSERTs meet.
CandidatesGrow ==
    /\ Acts(cache) \subseteq approved
    /\ \A r \in Runner :
         run[r].at \in InFlight =>
            /\ run[r].acts \subseteq approved
            /\ Comparable(run[r].acts, Acts(cache))
            /\ \A q \in Runner : run[q].at \in InFlight =>
                                   Comparable(run[r].acts, run[q].acts)

RefreshInv == CacheListed /\ SnapsApart /\ CandidatesGrow

\* RefreshInv looks at computations, the cache and the approvals only.
LEMMA OthersGoOn ==
    ASSUME SuggestTypeOK, RefreshInv, NEW r \in Runner, NEW q \in Step,
           SuggestGoto(r, q), q.at \notin InFlight,
           cache' = cache, approved' = approved
    PROVE  RefreshInv'
  <1>1. \A p \in Runner : run'[p].at \in InFlight => run'[p] = run[p]
    BY RunnerMoves
  <1>2. \A p \in Runner :
          run'[p].at \in {"deleting", "insert"} => run'[p] = run[p]
    BY <1>1 DEF InFlight
  <1>3. CacheListed'
    BY DEF RefreshInv, CacheListed
  <1>4. SnapsApart'
    BY <1>2 DEF RefreshInv, SnapsApart
  <1>5. CandidatesGrow'
    <2>1. Acts(cache') \subseteq approved'
      BY DEF RefreshInv, CandidatesGrow
    <2>2. ASSUME NEW p \in Runner, run'[p].at \in InFlight
          PROVE  /\ run'[p].acts \subseteq approved'
                 /\ Comparable(run'[p].acts, Acts(cache'))
                 /\ \A s \in Runner : run'[s].at \in InFlight =>
                                        Comparable(run'[p].acts, run'[s].acts)
      BY <1>1, <2>2 DEF RefreshInv, CandidatesGrow
    <2> QED
      BY <2>1, <2>2 DEF CandidatesGrow
  <1> QED
    BY <1>3, <1>4, <1>5 DEF RefreshInv

\* A computation goes on with its candidates and another snapshot.
LEMMA ComputationGoesOn ==
    ASSUME SuggestTypeOK, RefreshInv, NEW r \in Runner, NEW q \in Step,
           SuggestGoto(r, q), cache' = cache, approved' = approved,
           run[r].at \in InFlight, q.acts = run[r].acts,
           q.at \in {"deleting", "insert"} =>
             q.snap = cache \/ q.snap \cap cache = {}
    PROVE  RefreshInv'
  <1>1. /\ run'[r] = q
        /\ \A p \in Runner : p # r => run'[p] = run[p]
    BY RunnerMoves
  <1>2. CacheListed'
    BY DEF RefreshInv, CacheListed
  <1>3. SnapsApart'
    BY <1>1 DEF RefreshInv, SnapsApart
  <1>4. \A p \in Runner : /\ run'[p].at \in InFlight => run[p].at \in InFlight
                         /\ run'[p].acts = run[p].acts
    BY <1>1
  <1>5. CandidatesGrow'
    <2>1. Acts(cache') \subseteq approved'
      BY DEF RefreshInv, CandidatesGrow
    <2>2. ASSUME NEW p \in Runner, run'[p].at \in InFlight
          PROVE  /\ run'[p].acts \subseteq approved'
                 /\ Comparable(run'[p].acts, Acts(cache'))
                 /\ \A s \in Runner : run'[s].at \in InFlight =>
                                        Comparable(run'[p].acts, run'[s].acts)
      BY <1>4, <2>2 DEF RefreshInv, CandidatesGrow
    <2> QED
      BY <2>1, <2>2 DEF CandidatesGrow
  <1> QED
    BY <1>2, <1>3, <1>5 DEF RefreshInv

\* A computation takes all that is approved, and so all that others took.
LEMMA GenerateTakesAll ==
    ASSUME SuggestTypeOK, KindsFit, RefreshInv, NEW r \in Runner, Generate(r)
    PROVE  RefreshInv'
  <1>1. PICK q \in Step : /\ SuggestGoto(r, q)
                          /\ q.at = "score" /\ q.acts = approved
    BY GenerateMoves
  <1>2. /\ run'[r] = q
        /\ \A p \in Runner : p # r => run'[p] = run[p]
    BY <1>1, RunnerMoves
  <1>3. cache' = cache /\ approved' = approved
    BY DEF Generate
  <1>4. CacheListed'
    BY <1>3 DEF RefreshInv, CacheListed
  <1>5. SnapsApart'
    BY <1>1, <1>2, <1>3 DEF RefreshInv, SnapsApart
  <1>6. CandidatesGrow'
    <2>1. Acts(cache') \subseteq approved'
      BY <1>3 DEF RefreshInv, CandidatesGrow
    <2>2. \A p \in Runner :
            run'[p].at \in InFlight => run'[p].acts \subseteq approved
      BY <1>1, <1>2 DEF RefreshInv, CandidatesGrow
    <2>3. ASSUME NEW p \in Runner, run'[p].at \in InFlight
          PROVE  Comparable(run'[p].acts, Acts(cache'))
      BY <1>1, <1>2, <1>3, <2>3 DEF RefreshInv, CandidatesGrow, Comparable
    <2>4. ASSUME NEW p \in Runner, run'[p].at \in InFlight,
                 NEW s \in Runner, run'[s].at \in InFlight
          PROVE  Comparable(run'[p].acts, run'[s].acts)
      <3>1. CASE p = r \/ s = r
        BY <1>1, <1>2, <2>2, <2>4, <3>1 DEF Comparable
      <3>2. CASE p # r /\ s # r
        BY <1>2, <2>4, <3>2 DEF RefreshInv, CandidatesGrow
      <3> QED
        BY <3>1, <3>2
    <2> QED
      BY <1>3, <2>1, <2>2, <2>3, <2>4 DEF CandidatesGrow
  <1> QED
    BY <1>4, <1>5, <1>6 DEF RefreshInv

\* The name of a new computation is in no row that is cached or deleted.
LEMMA NewRowsAreApart ==
    ASSUME NEW p \in Runner, run[p].at \in {"deleting", "insert"},
           NEW best, NEW gen \in Gen \ Named
    PROVE  run[p].snap \cap RowsOf(best, gen) = {}
  <1>1. Gens(run[p].snap) \subseteq Named
    BY DEF Named
  <1>2. ASSUME NEW entry \in run[p].snap \cap RowsOf(best, gen)
        PROVE  FALSE
    <2>1. entry.gen = gen
      BY DEF RowsOf
    <2>2. entry.gen \in Gens(run[p].snap)
      BY DEF Gens
    <2> QED
      BY <1>1, <2>1, <2>2
  <1> QED
    BY <1>2

\* The INSERTs of a computation that its DELETE did not make room for fail;
\* otherwise its rows are all that is cached.
LEMMA InsertReplaces ==
    ASSUME SuggestTypeOK, RefreshInv, NEW r \in Runner, run[r].at = "insert",
           NEW best \in SetToSeqs(run[r].acts), NEW gen \in Gen,
           ~ Collides(cache \ run[r].snap, run[r].acts)
    PROVE  \/ (cache \ run[r].snap) \cup RowsOf(best, gen) = RowsOf(best, gen)
           \/ (cache \ run[r].snap) \cup RowsOf(best, gen) = cache
  <1>1. run[r].snap = cache \/ run[r].snap \cap cache = {}
    BY DEF RefreshInv, SnapsApart
  <1>2. CASE cache \ run[r].snap = {}
    BY <1>2
  <1>3. CASE cache \ run[r].snap # {}
    <2>1. cache \ run[r].snap = cache /\ cache # {}
      BY <1>1, <1>3
    <2>2. Acts(cache) \cap run[r].acts = {} /\ Acts(cache) # {}
      BY <2>1 DEF Collides, Acts
    <2>3. Comparable(run[r].acts, Acts(cache))
      BY DEF RefreshInv, CandidatesGrow, InFlight
    <2>4. run[r].acts = {}
      BY <2>2, <2>3 DEF Comparable
    <2>5. RowsOf(best, gen) = {}
      BY <2>4, RowsOfRanking
    <2> QED
      BY <2>1, <2>5
  <1> QED
    BY <1>2, <1>3

LEMMA InsertKeepsApart ==
    ASSUME SuggestTypeOK, KindsFit, RefreshInv, NEW r \in Runner, InsertRows(r)
    PROVE  RefreshInv'
  <1>1. PICK q \in Step : SuggestGoto(r, q) /\ Leaves(r, q)
    BY InsertMoves
  <1>2. q.at \notin InFlight
    BY <1>1, LeavesFits
  <1>3. run[r].at = "insert" /\ approved' = approved
    BY DEF InsertRows
  <1>4. CASE cache' = cache
    BY <1>1, <1>2, <1>3, <1>4, OthersGoOn
  <1>5. CASE cache' # cache
    <2>1. PICK best \in SetToSeqs(run[r].acts), gen \in Gen \ Named :
            cache' = RowsOf(best, gen)
      <3>1. PICK best \in SetToSeqs(run[r].acts), gen \in Gen \ Named :
              /\ ~ Collides(cache \ run[r].snap, run[r].acts)
              /\ cache' = (cache \ run[r].snap) \cup RowsOf(best, gen)
        BY <1>5, InsertMoves
      <3>2. \/ cache' = RowsOf(best, gen)
            \/ cache' = cache
        BY <1>3, <3>1, InsertReplaces
      <3> QED
        BY <1>5, <3>1, <3>2
    <2>2. run[r].acts \in SUBSET Activity
      BY <1>3, StepFields DEF InFlight
    <2>3. Acts(cache') = run[r].acts
      BY <2>1, <2>2, RowsOfRanking
    <2>4. CacheListed'
      BY <2>1, <2>3 DEF CacheListed, Listed
    <2>5. \A p \in Runner : run'[p].at \in InFlight => run'[p] = run[p]
      BY <1>1, <1>2, RunnerMoves
    <2>6. SnapsApart'
      <3>1. ASSUME NEW p \in Runner, run'[p].at \in {"deleting", "insert"}
            PROVE  run'[p].snap \cap cache' = {}
        <4>1. run'[p] = run[p]
          BY <2>5, <3>1 DEF InFlight
        <4>2. run[p].at \in {"deleting", "insert"}
          BY <3>1, <4>1
        <4>3. run[p].snap \cap RowsOf(best, gen) = {}
          BY <4>2, NewRowsAreApart
        <4> QED
          BY <2>1, <4>1, <4>3
      <3> QED
        BY <3>1 DEF SnapsApart
    <2>7. CandidatesGrow'
      <3>1. run[r].at \in InFlight
        BY <1>3 DEF InFlight
      <3>2. Acts(cache') \subseteq approved'
        BY <1>3, <2>3, <3>1 DEF RefreshInv, CandidatesGrow
      <3>3. ASSUME NEW p \in Runner, run'[p].at \in InFlight
            PROVE  /\ run'[p].acts \subseteq approved'
                   /\ Comparable(run'[p].acts, Acts(cache'))
                   /\ \A s \in Runner : run'[s].at \in InFlight =>
                                          Comparable(run'[p].acts, run'[s].acts)
        BY <1>3, <2>3, <2>5, <3>1, <3>3 DEF RefreshInv, CandidatesGrow
      <3> QED
        BY <3>2, <3>3 DEF CandidatesGrow
    <2> QED
      BY <2>4, <2>6, <2>7 DEF RefreshInv
  <1> QED
    BY <1>4, <1>5

LEMMA RefreshInvStep ==
    ASSUME SuggestTypeOK, KindsFit, RefreshInv, [SuggestNext]_suggestVars
    PROVE  RefreshInv'
  <1>0. \A r \in Runner, q \in Step :
          /\ SuggestGoto(r, q) /\ (Leaves(r, q) \/ q.at \notin InFlight)
          /\ cache' = cache /\ approved' = approved
          => RefreshInv'
    BY LeavesFits, OthersGoOn
  <1>1. ASSUME NEW r \in Runner, DeleteStart(r)
        PROVE  RefreshInv'
    <2>1. PICK q \in Step : /\ SuggestGoto(r, q) /\ run[r].at \in InFlight
                            /\ q.acts = run[r].acts /\ q.snap = cache
      BY <1>1, DeleteStartMoves
    <2>2. cache' = cache /\ approved' = approved
      BY <1>1 DEF DeleteStart
    <2> QED
      BY <2>1, <2>2, ComputationGoesOn
  <1>15. ASSUME NEW r \in Runner, Score(r)
         PROVE  RefreshInv'
    <2>1. PICK q \in Step : /\ SuggestGoto(r, q) /\ run[r].at = "score"
                            /\ q.at = "score" /\ q.acts = run[r].acts
      BY <1>15, ScoreMoves
    <2>2. run[r].at \in InFlight /\ cache' = cache /\ approved' = approved
      BY <1>15, <2>1 DEF Score, InFlight
    <2> QED
      BY <2>1, <2>2, ComputationGoesOn
  <1>2. ASSUME NEW r \in Runner, DeleteWaited(r)
        PROVE  RefreshInv'
    <2>1. PICK q \in Step :
            /\ SuggestGoto(r, q) /\ run[r].at = "deleting"
            /\ q.acts = run[r].acts /\ q.snap = run[r].snap \cap cache
      BY <1>2, DeleteWaitedMoves
    <2>2. q.snap = cache \/ q.snap \cap cache = {}
      BY <2>1 DEF RefreshInv, SnapsApart
    <2>3. run[r].at \in InFlight /\ cache' = cache /\ approved' = approved
      BY <1>2, <2>1 DEF DeleteWaited, InFlight
    <2> QED
      BY <2>1, <2>2, <2>3, ComputationGoesOn
  <1>3. ASSUME NEW r \in Runner,
               Generate(r) \/ InsertRows(r)
        PROVE  RefreshInv'
    BY <1>3, GenerateTakesAll, InsertKeepsApart
  <1>4. ASSUME NEW r \in Runner, RecordNext(r)
        PROVE  RefreshInv'
    <2>1. cache' = cache /\ approved' = approved
      BY <1>4 DEF RecordNext
    <2> QED
      BY <1>0, <1>4, <2>1, RecordNextMoves
  <1>5. ASSUME NEW r \in Runner, RecordCommit(r)
        PROVE  RefreshInv'
    <2>1. cache' = cache /\ approved' = approved
      BY <1>5 DEF RecordCommit
    <2>2. PICK q \in Step : SuggestGoto(r, q) /\ q.at = "enrich"
      BY <1>5, RecordCommitMoves
    <2> QED
      BY <1>0, <2>1, <2>2 DEF InFlight
  <1>6. ASSUME NEW r \in Runner, Enrich(r)
        PROVE  RefreshInv'
    <2>1. cache' = cache /\ approved' = approved
      BY <1>6 DEF Enrich
    <2>2. PICK q \in Step : SuggestGoto(r, q) /\ q.at = "done"
      BY <1>6, EnrichMoves
    <2> QED
      BY <1>0, <2>1, <2>2 DEF InFlight
  <1>7. ASSUME NEW r \in Runner, Deadlocked(r) \/ Fault(r)
        PROVE  RefreshInv'
    <2>1. cache' = cache /\ approved' = approved /\ Fails(r)
      BY <1>7 DEF Deadlocked, Fault
    <2> QED
      BY <1>0, <2>1, FailsMoves
  <1>8. ASSUME NEW r \in Runner, RecordAccepted(r)
        PROVE  RefreshInv'
    <2>1. cache' = cache /\ approved' = approved
      BY <1>8 DEF RecordAccepted
    <2> QED
      BY <1>0, <1>8, <2>1, RecordAcceptedMoves
  <1>9. ASSUME NEW r \in Runner, Get(r)
        PROVE  RefreshInv'
    <2>1. cache' = cache /\ approved' = approved
      BY <1>9 DEF Get
    <2>2. PICK q \in Step : /\ SuggestGoto(r, q)
                            /\ Leaves(r, q) \/ q.at = "generate"
      BY <1>9, GetMoves DEF RefreshInv
    <2> QED
      BY <1>0, <2>1, <2>2 DEF InFlight
  <1>10. ASSUME NEW r \in Runner, Refresh(r)
         PROVE  RefreshInv'
    <2>1. cache' = cache /\ approved' = approved
      BY <1>10 DEF Refresh
    <2>2. PICK q \in Step : SuggestGoto(r, q) /\ q.at = "generate"
      BY <1>10, RefreshMoves
    <2> QED
      BY <1>0, <2>1, <2>2 DEF InFlight
  <1>11. ASSUME NEW r \in Runner, NEW a \in Activity, CreateHangout(r, a)
         PROVE  RefreshInv'
    <2>1. cache' = cache /\ approved' = approved
      BY <1>11 DEF CreateHangout
    <2> QED
      BY <1>0, <1>11, <2>1, CreateHangoutMoves
  <1>12. CASE RunOnce
    <2>1. cache' = cache /\ approved' = approved
      BY <1>12 DEF RunOnce
    <2>2. PICK q \in Step : SuggestGoto(Worker, q) /\ q.at = "generate"
      BY <1>12, RunOnceMoves
    <2> QED
      BY <1>0, <2>1, <2>2 DEF InFlight, Runner
  <1>13. CASE Age \/ UNCHANGED suggestVars
    <2>1. cache' = cache /\ approved' = approved /\ run' = run
      BY <1>13 DEF Age, suggestVars
    <2> QED
      BY <2>1 DEF RefreshInv, CacheListed, SnapsApart, CandidatesGrow
  <1>14. ASSUME NEW a \in Activity, Approve(a)
         PROVE  RefreshInv'
    <2>1. cache' = cache /\ approved \subseteq approved' /\ run' = run
      BY <1>14 DEF Approve
    <2>2. CacheListed' /\ SnapsApart'
      BY <2>1 DEF RefreshInv, CacheListed, SnapsApart
    <2>3. CandidatesGrow'
      BY <2>1 DEF RefreshInv, CandidatesGrow
    <2> QED
      BY <2>2, <2>3 DEF RefreshInv
  <1> QED
    BY <1>1, <1>2, <1>3, <1>4, <1>5, <1>6, <1>7, <1>8, <1>9, <1>10, <1>11,
       <1>12, <1>13, <1>14, <1>15
    DEF SuggestNext, Works, Asked

-----------------------------------------------------------------------------
(* The suggestions: what is shown has been counted *)

\* In this state a GET has counted activity a for its user.
Shows(q, a) ==
    \/ q.at = "done" /\ a \in q.seen
    \/ q.at = "enrich" /\ q.kind = "get" /\ a \in ToSet(q.feed)

Shown(a) == {r \in SuggestReq : Shows(run[r], a)}

ShownIsCounted ==
    \A a \in Activity :
        /\ IsFiniteSet(Shown(a))
        /\ Cardinality(Shown(a)) <= suggested[a]

LEMMA LeavesShowsNone ==
    ASSUME NEW r, NEW q, Leaves(r, q), NEW a
    PROVE  ~ Shows(q, a)
  BY DEF Leaves, Shows

\* A step after which no request shows more.
LEMMA NoMoreShown ==
    ASSUME SuggestTypeOK, ShownIsCounted, suggested' = suggested,
           \A p \in SuggestReq, a \in Activity :
              Shows(run'[p], a) => Shows(run[p], a)
    PROVE  ShownIsCounted'
  <1> SUFFICES ASSUME NEW a \in Activity
               PROVE  /\ IsFiniteSet(Shown(a)')
                      /\ Cardinality(Shown(a)') <= suggested'[a]
    BY DEF ShownIsCounted
  <1>1. PICK now, next : now = Shown(a) /\ next = Shown(a)'
    OBVIOUS
  <1>2. next \in SUBSET now
    BY <1>1 DEF Shown
  <1>3. IsFiniteSet(now) /\ Cardinality(now) <= suggested[a]
    BY <1>1 DEF ShownIsCounted
  <1>4. IsFiniteSet(next) /\ Cardinality(next) <= Cardinality(now)
    BY <1>2, <1>3, FS_Subset
  <1>5. Cardinality(now) \in Nat /\ Cardinality(next) \in Nat
    BY <1>3, <1>4, FS_CardinalityType
  <1>6. suggested[a] \in Nat
    BY DEF SuggestTypeOK
  <1> QED
    BY <1>1, <1>3, <1>4, <1>5, <1>6

\* One request moves, and shows no more than it did.
LEMMA MoveShowsNoMore ==
    ASSUME SuggestTypeOK, ShownIsCounted, suggested' = suggested,
           NEW r \in Runner, NEW q \in Step, SuggestGoto(r, q),
           \A a \in Activity : Shows(q, a) => Shows(run[r], a)
    PROVE  ShownIsCounted'
  <1>1. ASSUME NEW p \in SuggestReq, NEW a \in Activity, Shows(run'[p], a)
        PROVE  Shows(run[p], a)
    <2>1. p \in Runner
      BY DEF Runner
    <2>2. CASE p = r
      <3>1. run'[p] = q
        BY <2>2, RunnerMoves
      <3> QED
        BY <1>1, <2>2, <3>1
    <2>3. CASE p # r
      <3>1. run'[p] = run[p]
        BY <2>1, <2>3, RunnerMoves
      <3> QED
        BY <1>1, <3>1
    <2> QED
      BY <2>2, <2>3
  <1> QED
    BY <1>1, NoMoreShown

\* The commit counts every activity of the feed that is now shown.
LEMMA CommitCounts ==
    ASSUME SuggestTypeOK, ShownIsCounted, NEW r \in Runner, RecordCommit(r)
    PROVE  ShownIsCounted'
  <1> SUFFICES ASSUME NEW a \in Activity
               PROVE  /\ IsFiniteSet(Shown(a)')
                      /\ Cardinality(Shown(a)') <= suggested'[a]
    BY DEF ShownIsCounted
  <1>1. PICK q \in Step :
          /\ SuggestGoto(r, q)
          /\ q.at = "enrich" /\ q.kind = "get" /\ q.feed = run[r].feed
    BY RecordCommitMoves
  <1>2. run'[r] = q /\ \A p \in Runner : p # r => run'[p] = run[p]
    BY <1>1, RunnerMoves
  <1>3. PICK now, next : now = Shown(a) /\ next = Shown(a)'
    OBVIOUS
  <1>4. IsFiniteSet(now) /\ Cardinality(now) <= suggested[a]
    BY <1>3 DEF ShownIsCounted
  <1>5. Cardinality(now) \in Nat
    BY <1>4, FS_CardinalityType
  <1>6. suggested[a] \in Nat
    BY DEF SuggestTypeOK
  <1>7. suggested'[a] = IF a \in ToSet(run[r].feed) THEN suggested[a] + 1
                                                    ELSE suggested[a]
    BY DEF RecordCommit, OneMore
  <1>8. \A p \in SuggestReq :
          p # r /\ Shows(run'[p], a) => Shows(run[p], a)
    BY <1>2 DEF Runner
  <1>9. CASE a \in ToSet(run[r].feed)
    <2>1. next \in SUBSET (now \cup {r})
      BY <1>3, <1>8 DEF Shown
    <2>2. /\ IsFiniteSet(now \cup {r})
          /\ Cardinality(now \cup {r}) <= Cardinality(now) + 1
      <3>1. /\ IsFiniteSet(now \cup {r})
            /\ Cardinality(now \cup {r}) =
                 IF r \in now THEN Cardinality(now) ELSE Cardinality(now) + 1
        BY <1>4, FS_AddElement
      <3> QED
        BY <1>5, <3>1
    <2>3. /\ IsFiniteSet(next)
          /\ Cardinality(next) <= Cardinality(now \cup {r})
      BY <2>1, <2>2, FS_Subset
    <2>4. Cardinality(next) \in Nat /\ Cardinality(now \cup {r}) \in Nat
      BY <2>2, <2>3, FS_CardinalityType
    <2> QED
      BY <1>3, <1>4, <1>5, <1>6, <1>7, <1>9, <2>2, <2>3, <2>4
  <1>10. CASE a \notin ToSet(run[r].feed)
    <2>1. ~ Shows(run'[r], a)
      BY <1>1, <1>2, <1>10 DEF Shows
    <2>2. next \in SUBSET now
      BY <1>3, <1>8, <2>1 DEF Shown
    <2>3. IsFiniteSet(next) /\ Cardinality(next) <= Cardinality(now)
      BY <1>4, <2>2, FS_Subset
    <2>4. Cardinality(next) \in Nat
      BY <2>3, FS_CardinalityType
    <2> QED
      BY <1>3, <1>4, <1>5, <1>6, <1>7, <1>10, <2>3, <2>4
  <1> QED
    BY <1>9, <1>10

LEMMA ShownIsCountedStep ==
    ASSUME SuggestTypeOK, KindsFit, CacheListed, ShownIsCounted,
           [SuggestNext]_suggestVars
    PROVE  ShownIsCounted'
  <1>0. \A r \in Runner, q \in Step :
          SuggestGoto(r, q) /\ suggested' = suggested /\ Leaves(r, q)
            => ShownIsCounted'
    BY LeavesShowsNone, MoveShowsNoMore
  <1>1. \A r \in Runner, q \in Step :
          /\ SuggestGoto(r, q) /\ suggested' = suggested
          /\ q.at \notin {"done", "enrich"}
          => ShownIsCounted'
    BY MoveShowsNoMore DEF Shows
  <1>2. ASSUME NEW r \in Runner, Generate(r)
        PROVE  ShownIsCounted'
    <2>1. suggested' = suggested
      BY <1>2 DEF Generate
    <2> QED
      BY <1>1, <1>2, <2>1, GenerateMoves
  <1>16. ASSUME NEW r \in Runner, Score(r)
         PROVE  ShownIsCounted'
    <2>1. suggested' = suggested
      BY <1>16 DEF Score
    <2>2. PICK q \in Step : SuggestGoto(r, q) /\ q.at = "score"
      BY <1>16, ScoreMoves
    <2> QED
      BY <1>1, <2>1, <2>2
  <1>3. ASSUME NEW r \in Runner, DeleteStart(r)
        PROVE  ShownIsCounted'
    <2>1. suggested' = suggested
      BY <1>3 DEF DeleteStart
    <2>2. PICK q \in Step :
            SuggestGoto(r, q) /\ q.at \in {"deleting", "insert"}
      BY <1>3, DeleteStartMoves
    <2> QED
      BY <1>1, <2>1, <2>2
  <1>4. ASSUME NEW r \in Runner, DeleteWaited(r)
        PROVE  ShownIsCounted'
    <2>1. suggested' = suggested
      BY <1>4 DEF DeleteWaited
    <2> QED
      BY <1>1, <1>4, <2>1, DeleteWaitedMoves
  <1>5. ASSUME NEW r \in Runner, InsertRows(r)
        PROVE  ShownIsCounted'
    <2>1. suggested' = suggested
      BY <1>5 DEF InsertRows
    <2> QED
      BY <1>0, <1>5, <2>1, InsertMoves
  <1>6. ASSUME NEW r \in Runner, RecordNext(r)
        PROVE  ShownIsCounted'
    <2>1. suggested' = suggested
      BY <1>6 DEF RecordNext
    <2> QED
      BY <1>0, <1>6, <2>1, RecordNextMoves
  <1>7. ASSUME NEW r \in Runner, RecordCommit(r)
        PROVE  ShownIsCounted'
    BY <1>7, CommitCounts
  <1>8. ASSUME NEW r \in Runner, Enrich(r)
        PROVE  ShownIsCounted'
    <2>1. suggested' = suggested
      BY <1>8 DEF Enrich
    <2>2. PICK q \in Step :
            /\ SuggestGoto(r, q)
            /\ run[r].at = "enrich" /\ q.at = "done"
            /\ \/ run[r].kind = "get" /\ q.seen \subseteq ToSet(run[r].feed)
               \/ q.seen = {}
      BY <1>8, EnrichMoves
    <2>3. \A a \in Activity : Shows(q, a) => Shows(run[r], a)
      BY <2>2 DEF Shows
    <2> QED
      BY <2>1, <2>2, <2>3, MoveShowsNoMore
  <1>9. ASSUME NEW r \in Runner, Deadlocked(r) \/ Fault(r)
        PROVE  ShownIsCounted'
    <2>1. suggested' = suggested /\ Fails(r)
      BY <1>9 DEF Deadlocked, Fault
    <2> QED
      BY <1>0, <2>1, FailsMoves
  <1>10. ASSUME NEW r \in Runner, RecordAccepted(r)
         PROVE  ShownIsCounted'
    <2>1. suggested' = suggested
      BY <1>10 DEF RecordAccepted
    <2> QED
      BY <1>0, <1>10, <2>1, RecordAcceptedMoves
  <1>11. ASSUME NEW r \in Runner, Get(r)
         PROVE  ShownIsCounted'
    <2>1. suggested' = suggested
      BY <1>11 DEF Get
    <2>2. PICK q \in Step : /\ SuggestGoto(r, q)
                            /\ Leaves(r, q) \/ q.at = "generate"
      BY <1>11, GetMoves
    <2> QED
      BY <1>0, <1>1, <2>1, <2>2
  <1>12. ASSUME NEW r \in Runner, Refresh(r)
         PROVE  ShownIsCounted'
    <2>1. suggested' = suggested
      BY <1>12 DEF Refresh
    <2>2. PICK q \in Step : SuggestGoto(r, q) /\ q.at = "generate"
      BY <1>12, RefreshMoves
    <2> QED
      BY <1>1, <2>1, <2>2
  <1>13. ASSUME NEW r \in Runner, NEW a \in Activity, CreateHangout(r, a)
         PROVE  ShownIsCounted'
    <2>1. suggested' = suggested
      BY <1>13 DEF CreateHangout
    <2> QED
      BY <1>0, <1>13, <2>1, CreateHangoutMoves
  <1>14. CASE RunOnce
    <2>1. suggested' = suggested
      BY <1>14 DEF RunOnce
    <2>2. PICK q \in Step : SuggestGoto(Worker, q) /\ q.at = "generate"
      BY <1>14, RunOnceMoves
    <2> QED
      BY <1>1, <2>1, <2>2 DEF Runner
  <1>15. ASSUME \/ Age \/ UNCHANGED suggestVars
                \/ \E a \in Activity : Approve(a)
         PROVE  ShownIsCounted'
    <2>1. suggested' = suggested /\ run' = run
      BY <1>15 DEF Age, Approve, suggestVars
    <2> QED
      BY <2>1, NoMoreShown
  <1> QED
    BY <1>2, <1>3, <1>4, <1>5, <1>6, <1>7, <1>8, <1>9, <1>10, <1>11, <1>12,
       <1>13, <1>14, <1>15, <1>16
    DEF SuggestNext, Works, Asked

-----------------------------------------------------------------------------
(* The suggestions: the theorems *)

SuggestInv == SuggestTypeOK /\ KindsFit /\ RefreshInv /\ ShownIsCounted

LEMMA SuggestInitInv == SuggestInit => SuggestInv
  <1> SUFFICES ASSUME SuggestInit
               PROVE  SuggestInv
    OBVIOUS
  <1>1. SuggestTypeOK
    <2>1. \A at \in {"wait", "new"} : [at |-> at] \in Step
      BY DEF Step
    <2>2. run \in [Runner -> Step]
      BY <2>1 DEF SuggestInit
    <2> QED
      BY <2>2, FaultAssumption DEF SuggestInit, SuggestTypeOK
  <1>2. \A r \in Runner : run[r].at \in {"wait", "new"}
    BY DEF SuggestInit
  <1>3. KindsFit
    BY <1>2 DEF KindsFit, Fits, InFlight
  <1>4. RefreshInv
    <2>1. Acts(cache) = {} /\ CacheListed
      BY DEF SuggestInit, Acts, CacheListed
    <2> QED
      BY <1>2, <2>1 DEF RefreshInv, SnapsApart, CandidatesGrow, InFlight
  <1>5. ShownIsCounted
    <2>1. ASSUME NEW a \in Activity
          PROVE  Shown(a) = {} /\ suggested[a] = 0
      BY <1>2 DEF Shown, Shows, Runner, SuggestInit
    <2> QED
      BY <2>1, FS_EmptySet DEF ShownIsCounted
  <1> QED
    BY <1>1, <1>3, <1>4, <1>5 DEF SuggestInv

LEMMA SuggestInvStep == SuggestInv /\ [SuggestNext]_suggestVars => SuggestInv'
  <1> SUFFICES ASSUME SuggestInv, [SuggestNext]_suggestVars
               PROVE  SuggestInv'
    OBVIOUS
  <1>1. SuggestTypeOK /\ KindsFit /\ RefreshInv /\ ShownIsCounted
    BY DEF SuggestInv
  <1>2. CacheListed
    BY <1>1 DEF RefreshInv
  <1>3. SuggestTypeOK' /\ KindsFit'
    BY <1>1, <1>2, SuggestTypesStep
  <1>4. RefreshInv'
    BY <1>1, RefreshInvStep
  <1>5. ShownIsCounted'
    BY <1>1, <1>2, ShownIsCountedStep
  <1> QED
    BY <1>3, <1>4, <1>5 DEF SuggestInv

\* In every reachable state what is cached is the ranking of one computation,
\* a DELETE under way has taken all of it or nothing, of two computations
\* under way one has all the candidates of the other, and an activity is
\* counted for every GET that has shown it or is about to.
THEOREM SuggestInvariant == SuggestSpec => []SuggestInv
  BY SuggestInitInv, SuggestInvStep, PTL DEF SuggestSpec

\* The cached rows, the counters, the row locks and the state of every request
\* and of the worker always have their types.
THEOREM SuggestTypeCorrect == SuggestSpec => []SuggestTypeOK
  <1>1. SuggestInv => SuggestTypeOK
    BY DEF SuggestInv
  <1> QED
    BY <1>1, SuggestInvariant, PTL

\* A reader never sees rows of two computations, however many requests and
\* the worker recompute the same user's suggestions at the same time:
\* ReplaceCacheForUser relies on its DELETE and on the uniqueness of a user's
\* rows, and that is enough because approvals are never taken back.
THEOREM ReadersSeeOneRefresh == SuggestSpec => []CacheOfOneRefresh
  <1>1. SuggestInv => CacheOfOneRefresh
    <2> SUFFICES ASSUME SuggestInv
                 PROVE  Cardinality(Gens(cache)) <= 1
      BY DEF CacheOfOneRefresh
    <2>1. PICK gen : \A entry \in cache : entry.gen = gen
      <3>1. cache = {} \/ Listed(cache)
        BY DEF SuggestInv, RefreshInv, CacheListed
      <3>2. Listed(cache) => \E gen : \A entry \in cache : entry.gen = gen
        BY DEF Listed, RowsOf
      <3> QED
        BY <3>1, <3>2
    <2>2. Gens(cache) = {} \/ Gens(cache) = {gen}
      BY <2>1 DEF Gens
    <2>3. Cardinality({}) = 0 /\ Cardinality({gen}) = 1
      BY FS_EmptySet, FS_Singleton
    <2>4. Cardinality(Gens(cache)) = 0 \/ Cardinality(Gens(cache)) = 1
      BY <2>2, <2>3
    <2> QED
      BY <2>4
  <1> QED
    BY <1>1, SuggestInvariant, PTL

\* What GETs have shown is counted: times_suggested of an activity is at least
\* the number of answered GETs that held it, whatever statement of theirs or
\* of another request failed, waited or was ended by a deadlock.
THEOREM ShownSuggestionsAreCounted == SuggestSpec => []SeenIsCounted
  <1>1. SuggestInv => SeenIsCounted
    <2> SUFFICES ASSUME SuggestInv, NEW a \in Activity
                 PROVE  Cardinality({r \in SuggestReq :
                                       run[r].at = "done" /\ a \in run[r].seen})
                          <= suggested[a]
      BY DEF SeenIsCounted
    <2> DEFINE seen == {r \in SuggestReq :
                          run[r].at = "done" /\ a \in run[r].seen}
    <2>1. seen \in SUBSET Shown(a)
      BY DEF Shown, Shows
    <2> HIDE DEF seen
    <2>2. IsFiniteSet(Shown(a)) /\ Cardinality(Shown(a)) <= suggested[a]
      BY DEF SuggestInv, ShownIsCounted
    <2>3. IsFiniteSet(seen) /\ Cardinality(seen) <= Cardinality(Shown(a))
      BY <2>1, <2>2, FS_Subset
    <2>4. Cardinality(seen) \in Nat /\ Cardinality(Shown(a)) \in Nat
      BY <2>2, <2>3, FS_CardinalityType
    <2>5. suggested[a] \in Nat
      BY DEF SuggestInv, SuggestTypeOK
    <2>6. Cardinality(seen) <= suggested[a]
      BY <2>2, <2>3, <2>4, <2>5
    <2> QED
      BY <2>6 DEF seen
  <1> QED
    BY <1>1, SuggestInvariant, PTL
=============================================================================
