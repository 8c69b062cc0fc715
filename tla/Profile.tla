------------------------------ MODULE Profile ------------------------------
(***************************************************************************)
(* The profiles, the pictures of the user profiles and the interests of    *)
(* one user.  An account may have a row in each of the tables users, hosts *)
(* and moderators; only a users row can be edited.  A picture is an object *)
(* in MinIO, which a row names by its key; a client may name any key, also *)
(* that of another account.  Requests overlap, and any statement may fail. *)
(***************************************************************************)
EXTENDS Naturals

CONSTANTS
    Owner,      \* an account as a user, as a host or as a moderator: the
                \* primary key of a row in one of the three tables
    User,       \* those that are a user: account_id in users
    Me,         \* the user whose interests are looked at
    Text,       \* what the text columns of a row can say
    Key,        \* keys of pictures, those of objects and others
    Interest,   \* the catalog of interests
    Req,        \* request slots: how many requests run at once
    MaxVersion, \* bound on the version of a row
    MaxSets,    \* bound on the replacements of the interests: none begins
                \* after so many
    None        \* no row, no key, no text

ASSUME OwnerAssumption == User \subseteq Owner /\ Me \in User
ASSUME NoneAssumption ==
    /\ None \notin Key \cup Text
    /\ None \notin [text : Text, picture : Key \cup {None}, version : Nat]
ASSUME BoundAssumption == MaxVersion \in Nat /\ MaxSets \in Nat

VARIABLES
    row,       \* the rows of users, hosts and moderators
    objects,   \* the pictures in the bucket
    named,     \* the keys that uploads have drawn, each a new UUID
    interests, \* user_interests: for each interest, which replacement
               \* inserted its row; 0 if there is no row
    sets,      \* how many replacements have committed
    req,       \* the state of each request
    meant,     \* history: what the writes that went through set each row to
    claimed,   \* history: the keys that PATCHes have put in a row
    chosen,    \* history: the interests that the last replacement asked for
    mixed      \* history: whether another one committed while it ran

rowVars      == <<row, objects, named, meant, claimed>>
interestVars == <<interests, sets, chosen, mixed>>
vars         == <<rowVars, interestVars, req>>

Picture == Key \cup {None}
Row     == [text : Text, picture : Picture, version : Nat]
Idle    == [at |-> "idle"]

Request ==
    {Idle}
      \cup [at : {"insert"}, owner : Owner, text : Text]
      \cup [at : {"patch"}, owner : User, read : Row, text : Text \cup {None},
            picture : Picture]
      \cup [at : {"put"}, owner : User, read : Row]
      \cup [at : {"update"}, owner : User, read : Row, picture : Key]
      \cup [at : {"delete"}, picture : Key]
      \cup [at : {"set_delete"}, asked : SUBSET Interest, base : Nat,
            seen : [Interest -> Nat]]
      \cup [at : {"set_insert", "set_commit"}, asked : SUBSET Interest,
            base : Nat, gone : SUBSET Interest]

TypeOK ==
    /\ row \in [Owner -> Row \cup {None}]
    /\ objects \subseteq Key
    /\ named \subseteq Key
    /\ interests \in [Interest -> Nat]
    /\ sets \in Nat
    /\ req \in [Req -> Request]
    /\ meant \in [Owner -> [text : Text \cup {None}, picture : Picture]]
    /\ claimed \subseteq Key
    /\ chosen \subseteq Interest
    /\ mixed \in BOOLEAN

Init ==
    /\ row = [o \in Owner |-> None]
    /\ objects = {}
    /\ named = {}
    /\ interests = [i \in Interest |-> 0]
    /\ sets = 0
    /\ req = [r \in Req |-> Idle]
    /\ meant = [o \in Owner |-> [text |-> None, picture |-> None]]
    /\ claimed = {}
    /\ chosen = {}
    /\ mixed = FALSE

Goto(r, s) == req' = [req EXCEPT ![r] = s]
Finish(r)  == Goto(r, Idle)

-----------------------------------------------------------------------------
(* POST /user/profile, /host/profile, /moderator/profile *)

\* Otherwise "profile already exists".
CreateFind(r, o, t) ==
    /\ req[r] = Idle
    /\ row[o] = None
    /\ Goto(r, [at |-> "insert", owner |-> o, text |-> t])
    /\ UNCHANGED <<rowVars, interestVars>>

\* account_id is the primary key: the second INSERT is an error.  So is that
\* of a user whose handle another user has.
CreateInsert(r) ==
    LET o == req[r].owner
        t == req[r].text
    IN  /\ req[r].at = "insert"
        /\ \/ /\ row[o] = None
              /\ row' = [row EXCEPT ![o] =
                           [text |-> t, picture |-> None, version |-> 1]]
              /\ meant' = [meant EXCEPT ![o] = [text |-> t, picture |-> None]]
           \/ /\ row[o] # None \/ o \in User
              /\ UNCHANGED <<row, meant>>
        /\ Finish(r)
        /\ UNCHANGED <<objects, named, claimed, interestVars>>

-----------------------------------------------------------------------------
(* UserRepository.Update, which writes every column of the row it was given *)

BugUnchecked(u, read) == row[u] # None
\* WHERE account_id = $6 AND version = $7
Current(u, read) == row[u] # None /\ row[u].version = read.version

Or(x, y) == IF x = None THEN y ELSE x

\* The trigger bumps the version.
Update(u, read, t, p) ==
    /\ row' = [row EXCEPT ![u] =
                 [text    |-> Or(t, read.text),
                  picture |-> Or(p, read.picture),
                  version |-> row[u].version + 1]]
    /\ meant' = [meant EXCEPT ![u] =
                   [text |-> Or(t, @.text), picture |-> Or(p, @.picture)]]

Editable(u) == row[u] # None /\ row[u].version < MaxVersion

-----------------------------------------------------------------------------
(* PATCH /user/profile *)

\* profile_picture_key may be any string: nobody checks whose object it is.
PatchFind(r, u, t, p) ==
    /\ req[r] = Idle
    /\ Editable(u)
    /\ Goto(r, [at |-> "patch", owner |-> u, read |-> row[u], text |-> t,
                picture |-> p])
    /\ UNCHANGED <<rowVars, interestVars>>

\* A row that is not current any more is ErrVersionConflict, a 409.
PatchUpdate(r) ==
    LET u == req[r].owner
    IN  /\ req[r].at = "patch"
        /\ IF Current(u, req[r].read)
             THEN /\ Update(u, req[r].read, req[r].text, req[r].picture)
                  /\ claimed' = claimed \cup ({req[r].picture} \ {None})
             ELSE UNCHANGED <<row, meant, claimed>>
        /\ Finish(r)
        /\ UNCHANGED <<objects, named, interestVars>>

-----------------------------------------------------------------------------
(* POST /user/profile/picture *)

\* The file's type and size are checked before; nothing is stored if wrong.
UploadFind(r, u) ==
    /\ req[r] = Idle
    /\ Editable(u)
    /\ Goto(r, [at |-> "put", owner |-> u, read |-> row[u]])
    /\ UNCHANGED <<rowVars, interestVars>>

BugReplace(r, p) == (objects \ {req[r].read.picture}) \cup {p}
Stored(r, p) == objects \cup {p}

UploadPut(r, p) ==
    /\ req[r].at = "put"
    /\ p \notin named
    /\ named' = named \cup {p}
    /\ objects' = Stored(r, p)
    /\ Goto(r, [at |-> "update", owner |-> req[r].owner, read |-> req[r].read,
                picture |-> p])
    /\ UNCHANGED <<row, meant, claimed, interestVars>>

\* A conflict leaves the new object in the bucket, and answers 500.
UploadUpdate(r) ==
    LET u   == req[r].owner
        old == req[r].read.picture
    IN  /\ req[r].at = "update"
        /\ IF Current(u, req[r].read)
             THEN /\ Update(u, req[r].read, None, req[r].picture)
                  /\ IF old = None
                       THEN Finish(r)
                       ELSE Goto(r, [at |-> "delete", picture |-> old])
             ELSE Finish(r) /\ UNCHANGED <<row, meant>>
        /\ UNCHANGED <<objects, named, claimed, interestVars>>

\* RemoveObject, of whichever object the key names; there may be none.  An
\* error is only logged (Abandon).
UploadDelete(r) ==
    /\ req[r].at = "delete"
    /\ objects' = objects \ {req[r].picture}
    /\ Finish(r)
    /\ UNCHANGED <<row, named, meant, claimed, interestVars>>

-----------------------------------------------------------------------------
(* PUT /user/interests: ReplaceAll, one transaction at READ COMMITTED *)

Has(i) == interests[i] # 0

\* The DELETE sees the rows that are committed when it starts.
SetBegin(r, asked) ==
    /\ req[r] = Idle
    /\ sets < MaxSets
    /\ Goto(r, [at |-> "set_delete", asked |-> asked, base |-> sets,
                seen |-> interests])
    /\ UNCHANGED <<rowVars, interestVars>>

\* It waits for a transaction that has deleted one of them, and then leaves
\* out the rows that are gone; the rows that came instead it has not seen.
BugKeep(seen) == {}
Doomed(seen) == {i \in Interest : Has(i) /\ interests[i] = seen[i]}

Deleted(q) == IF req[q].at \in {"set_insert", "set_commit"}
                THEN req[q].gone ELSE {}
Inserted(q) == IF req[q].at = "set_commit" THEN req[q].asked ELSE {}

SetDelete(r) ==
    LET gone == Doomed(req[r].seen)
    IN  /\ req[r].at = "set_delete"
        /\ \A q \in Req : Deleted(q) \cap gone = {}
        /\ Goto(r, [at |-> "set_insert", asked |-> req[r].asked,
                    base |-> req[r].base, gone |-> gone])
        /\ UNCHANGED <<rowVars, interestVars>>

\* The INSERTs.  (user_id, interest_id) is unique and user_id is a foreign
\* key.  An INSERT waits for a transaction that has inserted or deleted its
\* row, and fails if the row is there.  INSERTs that wait for each other are
\* aborted by Postgres (Abandon).
SetInsert(r) ==
    LET asked == req[r].asked
        there == {i \in Interest : Has(i)} \ req[r].gone
    IN  /\ req[r].at = "set_insert"
        /\ \A q \in Req \ {r} : asked \cap (Deleted(q) \cup Inserted(q)) = {}
        /\ IF asked # {} /\ (row[Me] = None \/ asked \cap there # {})
             THEN Finish(r)
             ELSE Goto(r, [req[r] EXCEPT !.at = "set_commit"])
        /\ UNCHANGED <<rowVars, interestVars>>

SetCommit(r) ==
    /\ req[r].at = "set_commit"
    /\ sets' = sets + 1
    /\ interests' = [i \in Interest |->
                       IF i \in req[r].asked THEN sets + 1
                       ELSE IF i \in req[r].gone THEN 0 ELSE interests[i]]
    /\ chosen' = req[r].asked
    /\ mixed' = (sets # req[r].base)
    /\ Finish(r)
    /\ UNCHANGED rowVars

-----------------------------------------------------------------------------

\* A statement or a call to MinIO fails, or the process stops; a transaction
\* is rolled back.
Abandon(r) ==
    /\ req[r] # Idle
    /\ Finish(r)
    /\ UNCHANGED <<rowVars, interestVars>>

Create(r)       == \/ \E o \in Owner, t \in Text : CreateFind(r, o, t)
                   \/ CreateInsert(r)
Patch(r)        == \/ \E u \in User, t \in Text \cup {None}, p \in Picture :
                        PatchFind(r, u, t, p)
                   \/ PatchUpdate(r)
Upload(r)       == \/ \E u \in User : UploadFind(r, u)
                   \/ \E p \in Key : UploadPut(r, p)
                   \/ UploadUpdate(r) \/ UploadDelete(r)
SetInterests(r) == \/ \E asked \in SUBSET Interest : SetBegin(r, asked)
                   \/ SetDelete(r) \/ SetInsert(r) \/ SetCommit(r)

Next == \E r \in Req : \/ Create(r) \/ Patch(r) \/ Upload(r)
                       \/ SetInterests(r) \/ Abandon(r)

Spec == Init /\ [][Next]_vars

-----------------------------------------------------------------------------
(* Properties *)

\* "Update performs an optimistic-lock update" (user/domain/repository.go:15):
\* although every edit writes the whole row, it changes only the columns that
\* its request names; no edit, and no second creation, undoes another.
NoLostEdit ==
    \A o \in Owner :
        IF row[o] = None
          THEN meant[o].text = None
          ELSE row[o].text = meant[o].text /\ row[o].picture = meant[o].picture

\* GET /user/profile hands out the URL of an object that is there: the old
\* object goes last, and an upload that loses against another one, or stops
\* halfway, takes no row's picture.  Only a key that a client has named in a
\* PATCH may be of no object: an upload deletes the object of the key it
\* finds in its row (upload_profile_picture.go:52-60), whoever else has it.
PictureExists ==
    \A u \in User :
        row[u] # None => row[u].picture \in objects \cup claimed \cup {None}

\* "ReplaceAll deletes the user's existing interest selections and inserts the
\* given interest IDs, as a single transaction" (user/domain/repository.go:24):
\* the interests are those of the last request to replace them, unless another
\* request committed between that one's DELETE and its commit.
InterestsOfLastRequest == mixed \/ {i \in Interest : Has(i)} = chosen
=============================================================================
