--------------------------- MODULE ActivityCache ---------------------------
(***************************************************************************)
(* One activity, its moderation and ratings, and what Redis has cached of  *)
(* them: the activity's detail, the list of approved activities (here:     *)
(* whether the activity is in it) and the summary of its ratings.          *)
(*                                                                         *)
(* Every read is cache-aside: take the entry, or read the table and store  *)
(* what was read.  Every write deletes the entries it makes stale, after   *)
(* it has committed.  Nothing orders the store of a reader with the        *)
(* deletion of a writer, and every call to Redis may fail, which is only   *)
(* logged.                                                                 *)
(***************************************************************************)
EXTENDS Naturals, Sequences

CONSTANTS
    Rater,     \* users who may rate the activity
    Score,     \* the scores they may give
    Miss,      \* what the cache holds for a key it does not have
    CacheReq,  \* request slots: how many requests run at once
    MaxRatings \* bound on ratings ever written, for checking

ASSUME RatingsAssumption == MaxRatings \in Nat

Source  == {"moderator", "host", "user"}
Verdict == {"approved", "rejected"}
Key     == {"detail", "list", "summary"}

VARIABLES
    activity,  \* the row: status and version
    attended,  \* raters with an accepted invite to a completed hangout
    ratings,   \* the ratings table: score by rater
    cache,     \* Redis, by key
    cacheReq,  \* the state of each request
    notices,   \* verdicts published to the activity's creator
    written,   \* how often a rating was written
    raced      \* history: cached keys that were stored late, or whose
               \* deletion was lost

cacheVars ==
    <<activity, attended, ratings, cache, cacheReq, notices, written, raced>>

CacheIdle == [at |-> "idle"]

Ratings == UNION {[R -> Score] : R \in SUBSET Rater}

\* What the database says now; the list is View("list") = TRUE when the
\* activity is in it.
View(k) ==
    CASE k = "detail"  -> activity.status
      [] k = "list"    -> activity.status = "approved"
      [] k = "summary" -> ratings

ViewSet(k) ==
    CASE k = "detail"  -> {"pending"} \cup Verdict
      [] k = "list"    -> BOOLEAN
      [] k = "summary" -> Ratings

ASSUME MissAssumption == \A k \in Key : Miss \notin ViewSet(k)

\* A reader that holds what the table said.
Fill == UNION {[at : {"fill"}, key : {k}, view : ViewSet(k)] : k \in Key}

CacheRequest ==
    [at : {"idle"}]
      \cup [at : {"read"}, key : Key]
      \cup Fill
      \cup [at : {"review"}, verdict : Verdict, version : Nat]
      \cup [at : {"rate"}, user : Rater, score : Score]
      \cup [at : {"invalidate"}, due : Seq(Key), tell : SUBSET Verdict]

CacheTypeOK ==
    /\ activity \in [status : {"none", "pending"} \cup Verdict, version : Nat]
    /\ attended \subseteq Rater
    /\ ratings \in Ratings
    /\ DOMAIN cache = Key
    /\ \A k \in Key : cache[k] \in ViewSet(k) \cup {Miss}
    /\ cacheReq \in [CacheReq -> CacheRequest]
    /\ notices \subseteq Verdict
    /\ written \in 0..MaxRatings
    /\ raced \subseteq Key

CacheInit ==
    /\ activity = [status |-> "none", version |-> 0]
    /\ attended = {}
    /\ ratings = <<>>
    /\ cache = [k \in Key |-> Miss]
    /\ cacheReq = [r \in CacheReq |-> CacheIdle]
    /\ notices = {}
    /\ written = 0
    /\ raced = {}

-----------------------------------------------------------------------------
(* Helpers; Bug... are faults for the mutation runs. *)

CacheGoto(r, state) == cacheReq' = [cacheReq EXCEPT ![r] = state]
CacheFinish(r)      == CacheGoto(r, CacheIdle)

\* After a write: the entries to delete, in this order, then the creator to
\* tell of a verdict, if that is due.
Invalidate(r, due, tell) ==
    CacheGoto(r, [at |-> "invalidate", due |-> due, tell |-> tell])

\* The deletion of k is still due.
Owes(r, k) == \E i \in DOMAIN cacheReq[r].due : cacheReq[r].due[i] = k

\* The trigger of the table.
BumpedVersion(version) == version + 1

BugAnyVersion(version) == TRUE
\* WHERE id = $9 AND version = $10
SameVersion(version) == activity.version = version

BugOnlyDetail(verdict) == <<"detail">>
\* A rejected activity was never in the list.
ReviewChanges(verdict) ==
    IF verdict = "approved" THEN <<"detail", "list">> ELSE <<"detail">>

\* ErrActivityNotFound: nothing to cache.
NotFound(k) == k = "detail" /\ activity.status = "none"

BugListStays == {"detail", "summary"}
\* The keys that are stored with a time to live.
Expiring == {"detail", "list", "summary"}

-----------------------------------------------------------------------------
(* POST /activities *)

\* A user's activity waits for a moderator, the others are listed at once.
CreateActivity(r, source) ==
    /\ cacheReq[r] = CacheIdle
    /\ activity.status = "none"
    /\ activity' = [status |-> IF source = "user" THEN "pending"
                                                  ELSE "approved",
                    version |-> 1]
    /\ IF source = "user" THEN CacheFinish(r)
                          ELSE Invalidate(r, <<"list">>, {})
    /\ UNCHANGED <<attended, ratings, cache, notices, written, raced>>

-----------------------------------------------------------------------------
(* GET /activities/:id, GET /activities and GET /activities/:id/rating *)

\* A hit is answered from the cache.  A miss, or an error, goes on to the
\* database.
GetCached(r, k) ==
    /\ cacheReq[r] = CacheIdle
    /\ CacheGoto(r, [at |-> "read", key |-> k])
    /\ UNCHANGED <<activity, attended, ratings, cache, notices, written,
                   raced>>

ReadTable(r) ==
    /\ cacheReq[r].at = "read"
    /\ LET k == cacheReq[r].key
       IN  IF NotFound(k)
             THEN CacheFinish(r)
             ELSE CacheGoto(r, [at |-> "fill", key |-> k, view |-> View(k)])
    /\ UNCHANGED <<activity, attended, ratings, cache, notices, written,
                   raced>>

SetCached(r) ==
    /\ cacheReq[r].at = "fill"
    /\ LET k == cacheReq[r].key
       IN  /\ cache' = [cache EXCEPT ![k] = cacheReq[r].view]
           /\ raced' = IF cacheReq[r].view = View(k) THEN raced \ {k}
                                                ELSE raced \cup {k}
    /\ CacheFinish(r)
    /\ UNCHANGED <<activity, attended, ratings, notices, written>>

-----------------------------------------------------------------------------
(* POST /activities/:id/approve and .../reject *)

\* Otherwise ErrActivityNotFound or ErrActivityNotPending.
ReviewFind(r, verdict) ==
    /\ cacheReq[r] = CacheIdle
    /\ activity.status = "pending"
    /\ CacheGoto(r, [at |-> "review", verdict |-> verdict,
                version |-> activity.version])
    /\ UNCHANGED <<activity, attended, ratings, cache, notices, written,
                   raced>>

\* Otherwise ErrVersionConflict.
ReviewUpdate(r) ==
    /\ cacheReq[r].at = "review"
    /\ IF SameVersion(cacheReq[r].version)
         THEN /\ activity' = [status |-> cacheReq[r].verdict,
                              version |-> BumpedVersion(activity.version)]
              /\ Invalidate(r, ReviewChanges(cacheReq[r].verdict),
                            {cacheReq[r].verdict})
         ELSE /\ CacheFinish(r)
              /\ UNCHANGED activity
    /\ UNCHANGED <<attended, ratings, cache, notices, written, raced>>

-----------------------------------------------------------------------------
(* POST /activities/:id/rating *)

\* Otherwise ErrNotAttendee.  An existing rating of the user only lends the
\* new one its id.
RateCheck(r, u, score) ==
    /\ cacheReq[r] = CacheIdle
    /\ u \in attended
    /\ CacheGoto(r, [at |-> "rate", user |-> u, score |-> score])
    /\ UNCHANGED <<activity, attended, ratings, cache, notices, written,
                   raced>>

\* INSERT ... ON CONFLICT (activity_id, user_id) DO UPDATE
RateUpsert(r) ==
    /\ cacheReq[r].at = "rate"
    /\ written < MaxRatings
    /\ written' = written + 1
    /\ ratings' = [u \in DOMAIN ratings \cup {cacheReq[r].user} |->
                     IF u = cacheReq[r].user THEN cacheReq[r].score
                                             ELSE ratings[u]]
    /\ Invalidate(r, <<"summary">>, {})
    /\ UNCHANGED <<activity, attended, cache, notices, raced>>

-----------------------------------------------------------------------------
(* After a write *)

InvalidateNext(r) ==
    /\ cacheReq[r].at = "invalidate"
    /\ cacheReq[r].due # <<>>
    /\ LET k == Head(cacheReq[r].due)
       IN  \/ /\ cache' = [cache EXCEPT ![k] = Miss]
              /\ raced' = raced \ {k}
           \/ \* The error is logged.
              /\ raced' = IF cache[k] = Miss THEN raced ELSE raced \cup {k}
              /\ UNCHANGED cache
    /\ CacheGoto(r, [cacheReq[r] EXCEPT !.due = Tail(@)])
    /\ UNCHANGED <<activity, attended, ratings, notices, written>>

\* The verdict is published, or the error is logged.
Publish(r) ==
    /\ cacheReq[r].at = "invalidate"
    /\ cacheReq[r].due = <<>>
    /\ notices' \in {notices, notices \cup cacheReq[r].tell}
    /\ CacheFinish(r)
    /\ UNCHANGED <<activity, attended, ratings, cache, written, raced>>

-----------------------------------------------------------------------------
\* A request stops, and with it the deletions it owes.
CacheAbandon(r) ==
    /\ cacheReq[r] # CacheIdle
    /\ CacheFinish(r)
    /\ raced' = IF cacheReq[r].at = "invalidate"
                  THEN raced \cup {k \in Key :
                         /\ cache[k] # Miss
                         /\ Owes(r, k)}
                  ELSE raced
    /\ UNCHANGED <<activity, attended, ratings, cache, notices, written>>

\* Redis lets an entry expire.
ExpireEntry(k) ==
    /\ k \in Expiring
    /\ cache[k] # Miss
    /\ cache' = [cache EXCEPT ![k] = Miss]
    /\ raced' = raced \ {k}
    /\ UNCHANGED <<activity, attended, ratings, cacheReq, notices, written>>

\* The hangout component: a hangout of the activity is completed.  It stays
\* so, and so does an accepted invite.
Attend(u) ==
    /\ activity.status # "none" /\ u \notin attended
    /\ attended' = attended \cup {u}
    /\ UNCHANGED <<activity, ratings, cache, cacheReq, notices, written,
                   raced>>

Get(r) ==
    \/ \E k \in Key : GetCached(r, k)
    \/ ReadTable(r)
    \/ SetCached(r)

Review(r) ==
    \/ \E verdict \in Verdict : ReviewFind(r, verdict)
    \/ ReviewUpdate(r)

Rate(r) ==
    \/ \E u \in Rater, score \in Score : RateCheck(r, u, score)
    \/ RateUpsert(r)

Serve(r) ==
    \/ \E source \in Source : CreateActivity(r, source)
    \/ Get(r) \/ Review(r) \/ Rate(r)
    \/ InvalidateNext(r)
    \/ Publish(r)
    \/ CacheAbandon(r)

CacheNext ==
    \/ \E r \in CacheReq : Serve(r)
    \/ \E k \in Key : ExpireEntry(k)
    \/ \E u \in Rater : Attend(u)

\* A request that has begun goes on or stops, and Redis keeps no entry beyond
\* its time to live.
Fairness ==
    /\ \A r \in CacheReq : WF_cacheVars(cacheReq[r] # CacheIdle /\ Serve(r))
    /\ \A k \in Key : WF_cacheVars(ExpireEntry(k))

CacheSpec == CacheInit /\ [][CacheNext]_cacheVars /\ Fairness

-----------------------------------------------------------------------------
(* What a reader of the cache may and may not see. *)

Stale(k) == cache[k] # Miss /\ cache[k] # View(k)

\* Every write deletes what it makes stale.  So a stale entry is about to be
\* deleted, or a deletion of it was lost, or the read it came from had been
\* overtaken when it was stored.
StaleOnlyByRace ==
    \A k \in Key : Stale(k) =>
        \/ k \in raced
        \/ \E r \in CacheReq : cacheReq[r].at = "invalidate" /\ Owes(r, k)

\* Whoever is told of a verdict is told of the one that stands: the creator by
\* a notice, and a reader by the cached detail or list, which may be late but
\* is never wrong about it, also when two moderators review at once.
VerdictsToldStand ==
    /\ \A verdict \in notices : activity.status = verdict
    /\ cache["detail"] \in Verdict => cache["detail"] = activity.status
    /\ cache["list"] = TRUE => activity.status = "approved"

\* "This just bounds how stale a missed invalidation could ever leave a value"
\* (summary_cache.go:16): when nothing is written any more, every entry is
\* fresh from some time on, whatever was lost or late.
CacheSettles == <>[](\A k \in Key : ~Stale(k))
=============================================================================
