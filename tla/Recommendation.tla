--------------------------- MODULE Recommendation ---------------------------
(***************************************************************************)
(* One user's suggestions: the cached rows of user_recommendation_cache,   *)
(* the counters of user_suggestion_stats, the requests that read or        *)
(* recompute them, the worker that recomputes a stale cache, and the       *)
(* hangouts that the user organizes around an activity.                    *)
(*                                                                         *)
(* Scores are abstract: ratings, interests and histories change all the    *)
(* time, so a computation ranks its candidates in any order.  What a score *)
(* owes to the counters is kept where it decides: too high a rate of       *)
(* acceptance leaves it no room in its column.  The limit of 500           *)
(* candidates is not reached.  Transactions run at READ COMMITTED.         *)
(***************************************************************************)
EXTENDS Naturals, FiniteSets, SequencesExt

CONSTANTS
    Activity,     \* activities
    SuggestReq,   \* the requests, each made once
    Worker,       \* the refresh worker
    Gen,          \* names of computations, reused once nothing mentions them
    NoOne,        \* holds no lock
    MaxRate,      \* acceptances per suggestion from which a score is too
                  \* large (61 to 67 in the code, with the other signals)
    MaxFaults     \* bound on the statements that fail

ASSUME RunnerAssumption == Worker \notin SuggestReq /\ NoOne \notin SuggestReq
ASSUME ActivityAssumption == IsFiniteSet(Activity)
ASSUME RateAssumption == MaxRate \in Nat \ {0}
ASSUME FaultAssumption == MaxFaults \in Nat

VARIABLES
    approved,   \* activities that are approved, and stay so
    cache,      \* the user's rows; rank is the order of the total_scores
    old,        \* computations whose generated_at is before the cutoff
    suggested,  \* times_suggested
    accepted,   \* times_accepted
    lock,       \* who holds the row lock of a counter
    run,        \* the state of each request and of the worker
    faults      \* statements that have failed

suggestVars == <<approved, cache, old, suggested, accepted, lock, run, faults>>

Runner      == SuggestReq \cup {Worker}
SuggestRow  == [act : Activity, gen : Gen, rank : Nat]
SuggestKind == {"get", "refresh", "hangout", "worker"}

Step ==
    [at : {"new", "wait", "stopped"}]
      \cup [at : {"done"}, seen : SUBSET Activity]
      \cup [at : {"generate"}, kind : SuggestKind]
      \cup [at : {"score"}, kind : SuggestKind, acts : SUBSET Activity,
            left : SUBSET Activity, fits : BOOLEAN]
      \cup [at : {"deleting", "insert"}, kind : SuggestKind,
            acts : SUBSET Activity, fits : BOOLEAN, snap : SUBSET SuggestRow]
      \cup [at : {"record"}, kind : SuggestKind, feed : Seq(Activity), n : Nat]
      \cup [at : {"enrich"}, kind : SuggestKind, feed : Seq(Activity)]
      \cup [at : {"accept"}, kind : SuggestKind, act : Activity]

SuggestTypeOK ==
    /\ approved \subseteq Activity
    /\ cache \subseteq SuggestRow
    /\ old \subseteq Gen
    /\ suggested \in [Activity -> Nat]
    /\ accepted \in [Activity -> Nat]
    /\ lock \in [Activity -> SuggestReq \cup {NoOne}]
    /\ run \in [Runner -> Step]
    /\ faults \in 0..MaxFaults

SuggestInit ==
    /\ approved = {}
    /\ cache = {}
    /\ old = {}
    /\ suggested = [a \in Activity |-> 0]
    /\ accepted = [a \in Activity |-> 0]
    /\ lock = [a \in Activity |-> NoOne]
    /\ run = [r \in Runner |-> [at |-> IF r = Worker THEN "wait" ELSE "new"]]
    /\ faults = 0

SuggestGoto(r, state) == run' = [run EXCEPT ![r] = state]
Acts(rows)  == {row.act : row \in rows}
Gens(rows)  == {row.gen : row \in rows}
First(s, n) == SubSeq(s, 1, IF n < Len(s) THEN n ELSE Len(s))

\* The first of them, as many as the GET's limit, to be counted.
Show(r, acts) ==
    \E limit \in 1..Cardinality(Activity) :
        SuggestGoto(r, [at |-> "record", kind |-> "get", n |-> 0,
                        feed |-> First(acts, limit)])

BugStops == [at |-> "stopped"]
\* runOnce logs one user's failure and the ticker goes on.
AfterFailure == [at |-> "wait"]

\* The request's answer, with what a GET has shown the user.
Answer(r, seen) == SuggestGoto(r, [at |-> "done", seen |-> seen])
Fails(r) == IF r = Worker THEN SuggestGoto(r, AfterFailure) ELSE Answer(r, {})

-----------------------------------------------------------------------------
(* GenerateSuggestions: every approved activity is scored, and the result    *)
(* replaces the cached rows.                                                 *)

Generate(r) ==
    /\ run[r].at = "generate"
    /\ SuggestGoto(r, [at |-> "score", kind |-> run[r].kind, acts |-> approved,
                       left |-> approved, fits |-> TRUE])
    /\ UNCHANGED <<approved, cache, old, suggested, accepted, lock, faults>>

\* AcceptanceRate: neutral if the activity has never been suggested.  Nothing
\* keeps an activity from being accepted more often than it was suggested.
TooOften(a) == suggested[a] > 0 /\ accepted[a] >= MaxRate * suggested[a]

\* The counters are read for one candidate after the other.
Score(r) ==
    /\ run[r].at = "score"
    /\ \E a \in run[r].left :
         SuggestGoto(r, [at |-> "score", kind |-> run[r].kind,
                         acts |-> run[r].acts, left |-> run[r].left \ {a},
                         fits |-> run[r].fits /\ ~TooOften(a)])
    /\ UNCHANGED <<approved, cache, old, suggested, accepted, lock, faults>>

\* Another transaction has deleted one of these rows and is not over.
Locked(r, rows) ==
    \E q \in Runner \ {r} :
        run[q].at = "insert" /\ run[q].snap \cap rows # {}

\* DELETE sees the rows that are committed when it starts, ...
DeleteStart(r) ==
    /\ run[r].at = "score" /\ run[r].left = {}
    /\ SuggestGoto(r, [at   |-> IF Locked(r, cache) THEN "deleting"
                                                   ELSE "insert",
                       kind |-> run[r].kind, acts |-> run[r].acts,
                       fits |-> run[r].fits, snap |-> cache])
    /\ UNCHANGED <<approved, cache, old, suggested, accepted, lock, faults>>

\* ... and, when it has waited, deletes those of them that are still there.
DeleteWaited(r) ==
    /\ run[r].at = "deleting"
    /\ LET there == run[r].snap \cap cache
       IN  /\ ~Locked(r, there)
           /\ SuggestGoto(r, [at |-> "insert", kind |-> run[r].kind,
                              acts |-> run[r].acts, fits |-> run[r].fits,
                              snap |-> there])
    /\ UNCHANGED <<approved, cache, old, suggested, accepted, lock, faults>>

\* What the user is shown next: a GET counts the first rows,
\* POST /refresh takes them all.
Continue(r, acts) ==
    CASE run[r].kind = "worker"  -> SuggestGoto(r, [at |-> "wait"])
      [] run[r].kind = "refresh" ->
           SuggestGoto(r, [at |-> "enrich", kind |-> "refresh", feed |-> acts])
      [] run[r].kind = "get" -> Show(r, acts)

BugOnConflictUpdate(rest, acts) == FALSE
\* user_id, activity_id is unique.
Collides(rest, acts) == Acts(rest) \cap acts # {}

\* Names of computations that some row still has.
Named == Gens(cache) \cup
    UNION {Gens(run[r].snap) :
             r \in {q \in Runner : run[q].at \in {"deleting", "insert"}}}

\* The INSERTs and the commit.  Nobody sees the rows before; an INSERT that
\* meets another's uncommitted row waits, and fails if that one commits.  So
\* does the INSERT of a score of 10 or more: total_score is NUMERIC(5,4).
InsertRows(r) ==
    /\ run[r].at = "insert"
    /\ LET rest == cache \ run[r].snap
       IN  IF ~run[r].fits \/ Collides(rest, run[r].acts)
             THEN Fails(r) /\ UNCHANGED <<cache, old>>
             ELSE \E gen \in Gen \ Named, best \in SetToSeqs(run[r].acts) :
                    /\ \A g \in Gen \ Named : gen <= g
                    /\ cache' = rest \cup {[act |-> best[i], gen |-> gen,
                                           rank |-> i] : i \in DOMAIN best}
                    /\ old' = old \cap Gens(rest)
                    /\ Continue(r, best)
    /\ UNCHANGED <<approved, suggested, accepted, lock, faults>>

-----------------------------------------------------------------------------
(* GET /recommendations and POST /recommendations/refresh *)

TopForUser ==
    LET rows == CHOOSE s \in SetToSeqs(cache) :
                    \A i, j \in DOMAIN s : i < j => s[i].rank < s[j].rank
    IN  [i \in DOMAIN rows |-> rows[i].act]

Get(r) ==
    /\ r \in SuggestReq /\ run[r].at = "new"
    /\ IF cache # {} THEN Show(r, TopForUser)
                     ELSE SuggestGoto(r, [at |-> "generate", kind |-> "get"])
    /\ UNCHANGED <<approved, cache, old, suggested, accepted, lock, faults>>

Refresh(r) ==
    /\ r \in SuggestReq /\ run[r].at = "new"
    /\ SuggestGoto(r, [at |-> "generate", kind |-> "refresh"])
    /\ UNCHANGED <<approved, cache, old, suggested, accepted, lock, faults>>

\* RecordSuggested: one upsert per activity, in the order of the feed, whose
\* row locks are kept until the commit.
RecordNext(r) ==
    /\ run[r].at = "record" /\ run[r].n < Len(run[r].feed)
    /\ lock[run[r].feed[run[r].n + 1]] = NoOne
    /\ lock' = [lock EXCEPT ![run[r].feed[run[r].n + 1]] = r]
    /\ SuggestGoto(r, [run[r] EXCEPT !.n = @ + 1])
    /\ UNCHANGED <<approved, cache, old, suggested, accepted, faults>>

BugOverwrite(n) == 1
\* ON CONFLICT DO UPDATE adds to the row there is.
OneMore(n) == n + 1

Unlocked(r) == [a \in Activity |-> IF lock[a] = r THEN NoOne ELSE lock[a]]

RecordCommit(r) ==
    /\ run[r].at = "record" /\ run[r].n = Len(run[r].feed)
    /\ suggested' = [a \in Activity |->
                       IF a \in ToSet(run[r].feed) THEN OneMore(suggested[a])
                                                   ELSE suggested[a]]
    /\ lock' = Unlocked(r)
    /\ SuggestGoto(r, [at |-> "enrich", kind |-> "get", feed |-> run[r].feed])
    /\ UNCHANGED <<approved, cache, old, accepted, faults>>

\* EnrichWithActivities leaves out what is no longer approved.
Enrich(r) ==
    /\ run[r].at = "enrich"
    /\ Answer(r, IF run[r].kind = "get" THEN ToSet(run[r].feed) \cap approved
                                       ELSE {})
    /\ UNCHANGED <<approved, cache, old, suggested, accepted, lock, faults>>

BugNoRollback(r) == lock
\* The deferred Rollback.
RolledBack(r) == Unlocked(r)

\* Postgres ends one of the transactions that wait for each other in a ring.
WaitsFor(r) ==
    IF run[r].at = "record" /\ run[r].n < Len(run[r].feed)
      THEN lock[run[r].feed[run[r].n + 1]]
      ELSE NoOne

InRing(r) ==
    \E ring \in SUBSET SuggestReq :
        r \in ring /\ {WaitsFor(q) : q \in ring} = ring

Deadlocked(r) ==
    /\ InRing(r)
    /\ lock' = RolledBack(r)
    /\ Fails(r)
    /\ UNCHANGED <<approved, cache, old, suggested, accepted, faults>>

\* A statement fails, or its client is gone.
Fault(r) ==
    /\ run[r].at \notin {"new", "wait", "stopped", "done"}
    /\ faults < MaxFaults /\ faults' = faults + 1
    /\ lock' = RolledBack(r)
    /\ Fails(r)
    /\ UNCHANGED <<approved, cache, old, suggested, accepted>>

-----------------------------------------------------------------------------
(* POST /hangouts with an activity: any approved one, suggested or not.  The *)
(* hangout is stored, and then the acceptance.                               *)

CreateHangout(r, a) ==
    /\ r \in SuggestReq /\ run[r].at = "new"
    /\ a \in approved
    /\ SuggestGoto(r, [at |-> "accept", kind |-> "hangout", act |-> a])
    /\ UNCHANGED <<approved, cache, old, suggested, accepted, lock, faults>>

\* A failure here is logged and the hangout answered all the same.
RecordAccepted(r) ==
    /\ run[r].at = "accept"
    /\ lock[run[r].act] = NoOne
    /\ accepted' = [accepted EXCEPT ![run[r].act] = @ + 1]
    /\ Answer(r, {})
    /\ UNCHANGED <<approved, cache, old, suggested, lock, faults>>

-----------------------------------------------------------------------------
(* The worker, time and moderators *)

\* StaleUserIDs: the newest row is before the cutoff.
Stale == cache # {} /\ Gens(cache) \subseteq old

RunOnce ==
    /\ run[Worker].at = "wait" /\ Stale
    /\ SuggestGoto(Worker, [at |-> "generate", kind |-> "worker"])
    /\ UNCHANGED <<approved, cache, old, suggested, accepted, lock, faults>>

\* staleAfter passes: longer than any request takes.
Age ==
    /\ ~ Gens(cache) \subseteq old
    /\ old' = Gens(cache)
    /\ UNCHANGED <<approved, cache, suggested, accepted, lock, run, faults>>

Approve(a) ==
    /\ a \notin approved
    /\ approved' = approved \cup {a}
    /\ UNCHANGED <<cache, old, suggested, accepted, lock, run, faults>>

-----------------------------------------------------------------------------

Works(r) ==
    \/ Generate(r) \/ Score(r)
    \/ DeleteStart(r) \/ DeleteWaited(r) \/ InsertRows(r)
    \/ RecordNext(r) \/ RecordCommit(r) \/ Enrich(r) \/ Deadlocked(r)
    \/ RecordAccepted(r)

Asked(r) ==
    \/ Get(r) \/ Refresh(r)
    \/ \E a \in Activity : CreateHangout(r, a)

SuggestNext ==
    \/ \E r \in Runner : Works(r) \/ Asked(r) \/ Fault(r)
    \/ RunOnce
    \/ Age
    \/ \E a \in Activity : Approve(a)

\* Goroutines are scheduled, Postgres finds deadlocks, and the ticker ticks.
Fairness ==
    /\ WF_suggestVars(RunOnce)
    /\ \A r \in Runner : WF_suggestVars(Works(r))

SuggestSpec == SuggestInit /\ [][SuggestNext]_suggestVars /\ Fairness

-----------------------------------------------------------------------------
(* Properties *)

\* "a reader never sees a half-written cache (all-old or all-new, never a
\* mix)" (recommendation_repository.go:23-25): also when two computations of
\* the same user's suggestions, or one and the worker's, overlap.
CacheOfOneRefresh == Cardinality(Gens(cache)) <= 1

\* The feeds that GETs have answered are counted: an activity has been
\* suggested at least as often as the user has been shown it by a GET,
\* whatever else fails or overlaps (get_suggestions.go:89-92).
SeenIsCounted ==
    \A a \in Activity :
        Cardinality({r \in SuggestReq :
                       run[r].at = "done" /\ a \in run[r].seen})
          <= suggested[a]

\* "RefreshWorker wakes up every Interval and recomputes the recommendation
\* cache for every user whose cache is older than StaleAfter"
\* (refresh_worker.go:16-18).
EveryStaleIsRefreshed == Stale ~> ~Stale

\* A cache that is stale is recomputed in the end: overlapping requests and
\* failed passes only delay the worker (refresh_worker.go:55-59).  Unless, that
\* is, some approved activity has been accepted so much more often than it was
\* suggested that its score has no room, and stays so: then every pass fails.
StaleIsRefreshed ==
    EveryStaleIsRefreshed \/ <>[] (\E a \in approved : TooOften(a))

\* Every request is answered: feeds that are counted in different orders make
\* their transactions wait for each other, never for good.
RequestsEnd ==
    \A r \in SuggestReq : run[r].at # "new" ~> run[r].at = "done"
=============================================================================
