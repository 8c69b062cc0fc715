----------------------------- MODULE BadgeAward -----------------------------
(***************************************************************************)
(* A host's activity: its QR code and badge, the users who scan the code,  *)
(* and the badges and notifications they get for it.  The components       *)
(* qrcode, badge, attendance and userbadge have one row each for it, and   *)
(* are called one after the other, each statement on its own.              *)
(***************************************************************************)
EXTENDS NotificationPipeline

CONSTANTS
    User,    \* users who may scan
    Req,     \* request slots: how many requests run at once
    NoCode   \* there is no QR code yet

\* The one event of these components is a badge earned, told to its user.
ASSUME EventAssumption == Event = User
ASSUME CodeAssumption == NoCode \notin Req

VARIABLES
    code,      \* qr_codes: the activity's code, named by the request that
               \* generated it
    badge,     \* badges: whether the host has set one up
    verified,  \* attendance_verifications
    awarded,   \* user_badges
    req,       \* the state of each request
    returned,  \* history: codes returned to the host
    failed     \* history: users whose award failed, or came before the badge

awardVars == <<code, badge, verified, awarded, req, returned, failed>>
vars      == <<pipelineVars, awardVars>>

Idle == [at |-> "idle"]

AwardAt == {"award_lookup", "award_find", "award_create"}

Request ==
    [at : {"idle", "code_create", "badge_create"}]
      \cup [at : {"scan_create", "award_publish"} \cup AwardAt, user : User]

TypeOK ==
    /\ PipelineTypeOK
    /\ code \in Req \cup {NoCode}
    /\ badge \in BOOLEAN
    /\ verified \subseteq User /\ awarded \subseteq User
    /\ req \in [Req -> Request]
    /\ returned \subseteq Req
    /\ failed \subseteq User

Init ==
    /\ PipelineInit
    /\ code = NoCode
    /\ badge = FALSE
    /\ verified = {} /\ awarded = {}
    /\ req = [r \in Req |-> Idle]
    /\ returned = {}
    /\ failed = {}

Goto(r, state) == req' = [req EXCEPT ![r] = state]
Finish(r)      == Goto(r, Idle)
Continue(r, at) == Goto(r, [at |-> at, user |-> req[r].user])

\* The process that runs the requests is the one that runs the worker.
Up == worker.at # "down"

-----------------------------------------------------------------------------
(* POST and GET /activities/:id/qrcode.  The activity is the host's, and     *)
(* stays so.                                                                 *)

GenerateFind(r) ==
    /\ Up /\ req[r] = Idle
    /\ IF code # NoCode
         THEN returned' = returned \cup {code} /\ Finish(r)
         ELSE Goto(r, [at |-> "code_create"]) /\ UNCHANGED returned
    /\ UNCHANGED <<pipelineVars, code, badge, verified, awarded, failed>>

BugKeepFirst(r) == returned' = returned \cup {r}
\* activity_id is unique: the second INSERT is an error for the host.
CodeTaken(r) == UNCHANGED returned

GenerateCreate(r) ==
    /\ req[r].at = "code_create"
    /\ IF code = NoCode
         THEN code' = r /\ returned' = returned \cup {r}
         ELSE CodeTaken(r) /\ UNCHANGED code
    /\ Finish(r)
    /\ UNCHANGED <<pipelineVars, badge, verified, awarded, failed>>

-----------------------------------------------------------------------------
(* POST /activities/:id/badge *)

\* Otherwise ErrBadgeAlreadyExists.
BadgeFind(r) ==
    /\ Up /\ req[r] = Idle
    /\ ~badge
    /\ Goto(r, [at |-> "badge_create"])
    /\ UNCHANGED <<pipelineVars, code, badge, verified, awarded, returned,
                   failed>>

\* activity_id is unique here too.
BadgeCreate(r) ==
    /\ req[r].at = "badge_create"
    /\ badge' = TRUE
    /\ Finish(r)
    /\ UNCHANGED <<pipelineVars, code, verified, awarded, returned, failed>>

-----------------------------------------------------------------------------
(* POST /attendance/scan *)

\* ErrInvalidQRCode without a code; the record already made, if there is one.
ScanFind(r, u) ==
    /\ Up /\ req[r] = Idle
    /\ code # NoCode /\ u \notin verified
    /\ Goto(r, [at |-> "scan_create", user |-> u])
    /\ UNCHANGED <<pipelineVars, code, badge, verified, awarded, returned,
                   failed>>

\* (activity_id, user_id) is unique: the second INSERT is an error.
ScanCreate(r) ==
    /\ req[r].at = "scan_create"
    /\ IF req[r].user \notin verified
         THEN /\ verified' = verified \cup {req[r].user}
              /\ Continue(r, "award_lookup")
         ELSE UNCHANGED verified /\ Finish(r)
    /\ UNCHANGED <<pipelineVars, code, badge, awarded, returned, failed>>

\* AwardIfBadgeExists: a no-op when the activity has no badge, ...
AwardLookup(r) ==
    /\ req[r].at = "award_lookup"
    /\ IF badge
         THEN Continue(r, "award_find") /\ UNCHANGED failed
         ELSE Finish(r) /\ failed' = failed \cup {req[r].user}
    /\ UNCHANGED <<pipelineVars, code, badge, verified, awarded, returned>>

BugHasScanned(u) == u \in verified
\* The row of the user and the badge.
AlreadyHas(u) == u \in awarded

\* ... or when the user already has it.
AwardFind(r) ==
    /\ req[r].at = "award_find"
    /\ IF AlreadyHas(req[r].user)
         THEN Finish(r)
         ELSE Continue(r, "award_create")
    /\ UNCHANGED <<pipelineVars, code, badge, verified, awarded, returned,
                   failed>>

BugPublishAnyway(created) == TRUE
\* An error of the INSERT ends the award.
GoesOn(created) == created

AwardCreate(r) ==
    /\ req[r].at = "award_create"
    /\ \E created \in BOOLEAN :
         /\ awarded' = IF created THEN awarded \cup {req[r].user}
                                  ELSE awarded
         /\ failed'  = IF created THEN failed ELSE failed \cup {req[r].user}
         /\ IF GoesOn(created) THEN Continue(r, "award_publish")
                               ELSE Finish(r)
    /\ UNCHANGED <<pipelineVars, code, badge, verified, returned>>

AwardPublish(r) ==
    /\ req[r].at = "award_publish"
    /\ Publish(req[r].user)
    /\ Finish(r)
    /\ UNCHANGED <<committed, position, worker, notifications, code, badge,
                   verified, awarded, returned, failed>>

-----------------------------------------------------------------------------
Lost(r) == IF req[r].at \in AwardAt THEN {req[r].user} ELSE {}

\* A request stops: a statement fails or the client goes away.
Abandon(r) ==
    /\ req[r] # Idle
    /\ failed' = failed \cup Lost(r)
    /\ Finish(r)
    /\ UNCHANGED <<pipelineVars, code, badge, verified, awarded, returned>>

\* The process stops, with its worker and all its requests.
Crash ==
    /\ WorkerStops
    /\ failed' = failed \cup UNION {Lost(r) : r \in Req}
    /\ req' = [r \in Req |-> Idle]
    /\ UNCHANGED <<code, badge, verified, awarded, returned>>

Generate(r) == GenerateFind(r) \/ GenerateCreate(r)

SetUpBadge(r) == BadgeFind(r) \/ BadgeCreate(r)

Award(r) ==
    AwardLookup(r) \/ AwardFind(r) \/ AwardCreate(r) \/ AwardPublish(r)

Scan(r) ==
    \/ \E u \in User : ScanFind(r, u)
    \/ ScanCreate(r)
    \/ Award(r)

Next ==
    \/ \E r \in Req : Generate(r) \/ SetUpBadge(r) \/ Scan(r) \/ Abandon(r)
    \/ Crash
    \/ (Work \/ WorkerStarts) /\ UNCHANGED awardVars

\* The worker's loop goes on, and the process is started again.
Fairness ==
    /\ WF_vars(Work /\ UNCHANGED awardVars)
    /\ WF_vars(WorkerStarts /\ UNCHANGED awardVars)

Spec == Init /\ [][Next]_vars /\ Fairness

-----------------------------------------------------------------------------
\* "it just returns the code made the first time" (generate_qr_code.go:39):
\* two hosts' screens never show different codes, also when both open before
\* there is one.
HostsSeeTheCode == returned \subseteq {code}

\* "Made right after a verified scan" (migrations/0018, line 94): a badge is
\* nobody's who did not scan, and whoever scanned when there was a badge to
\* earn has it, or is just getting it, unless the one attempt was cut short.
ScanAwardsBadge ==
    /\ awarded \subseteq verified
    /\ \A u \in verified \ (awarded \cup failed) :
         \E r \in Req : req[r].at \in AwardAt /\ req[r].user = u

\* Whoever is told of a badge has it: nothing is published, still in the topic
\* or stored for a badge that is not awarded.
BadgeNoticesTrue ==
    /\ \A p \in Partition : \A i \in DOMAIN topic[p] : topic[p][i] \in awarded
    /\ \A i \in DOMAIN notifications : notifications[i].event \in awarded
=============================================================================
