------------------------------ MODULE Comments ------------------------------
(***************************************************************************)
(* The comments on one activity: moderation, votes, the ranked list, and   *)
(* the AI summary that every approval writes anew from what it lists then. *)
(* Nothing orders the summaries of two approvals: listing, calling the AI  *)
(* and writing the row are three steps, and the row has no version.        *)
(***************************************************************************)
EXTENDS Integers, Sequences, FiniteSets, SequencesExt

CONSTANTS
    Voter,       \* users who may vote
    Req,         \* request slots: how many requests run at once
    NotYet,      \* no summary has been generated
    MaxPrompt,   \* comments the AI is given at most
    MaxComments  \* bound on the comments ever made, for checking

ASSUME CommentsAssumption ==
    MaxComments \in Nat /\ MaxPrompt \in Nat \ {0} /\ IsFiniteSet(Voter)

\* Comments are named in the order of created_at.
Comment == 1 .. MaxComments
Verdict == {"approved", "rejected"}
VoteValue == {1, -1}

Summary == [covers : SUBSET Comment, count : 0 .. MaxComments]

ASSUME SummaryAssumption == NotYet \notin Summary

VARIABLES
    comments,  \* the rows, oldest first: status and version
    votes,     \* comment_votes: value by comment and voter
    attended,  \* comments whose author's attendance has been verified
    summary,   \* comment_summaries: the comments the text was made from, and
               \* comment_count
    req,       \* the state of each request
    notices,   \* verdicts published to the authors
    lost,      \* history: comments whose summary failed or was overwritten
    overtaken  \* history: requests that have listed the comments before
               \* another one wrote its summary

tables == <<comments, votes, attended, summary>>

vars == <<tables, req, notices, lost, overtaken>>

Idle == [at |-> "idle"]

Row == [status : {"pending"} \cup Verdict, version : 1 .. 2]

\* A RankedComment, without the score it is ranked by.
Ranked ==
    [comment : Comment, up : Nat, down : Nat, verified : BOOLEAN]

Request ==
    [at : {"idle"}]
      \cup [at : {"review"}, comment : Comment, verdict : Verdict,
            version : 1 .. 2]
      \cup [at : {"regenerate"}, comment : Comment]
      \cup [at : {"summarize"}, comment : Comment, listed : SUBSET Comment]
      \cup [at : {"upsert"}, comment : Comment, covers : SUBSET Comment,
            count : 0 .. MaxComments]
      \cup [at : {"publish"}, comment : Comment, verdict : Verdict]
      \cup [at : {"vote"}, comment : Comment, voter : Voter,
            value : VoteValue]
      \cup [at : {"tally"}, listed : SUBSET Comment]
      \cup [at : {"rank"}, todo : SUBSET Comment, ranked : SUBSET Ranked]
      \cup [at : {"return"}, shown : Seq(Ranked)]

TypeOK ==
    /\ comments \in Seq(Row) /\ Len(comments) <= MaxComments
    /\ votes \in [Comment \X Voter -> VoteValue \cup {0}]
    /\ attended \subseteq Comment
    /\ summary \in {NotYet} \cup Summary
    /\ req \in [Req -> Request]
    /\ notices \subseteq Comment \X Verdict
    /\ lost \subseteq Comment
    /\ overtaken \subseteq Req

Init ==
    /\ comments = <<>>
    /\ votes = [key \in Comment \X Voter |-> 0]
    /\ attended = {}
    /\ summary = NotYet
    /\ req = [r \in Req |-> Idle]
    /\ notices = {}
    /\ lost = {}
    /\ overtaken = {}

-----------------------------------------------------------------------------
(* Helpers; Bug... are faults for the mutation runs. *)

Goto(r, state) == req' = [req EXCEPT ![r] = state]
Finish(r)      == Goto(r, Idle)

Approved == {c \in DOMAIN comments : comments[c].status = "approved"}

StillPending(c) == comments[c].status = "pending"

BugAnyVersion(c, version) == TRUE
\* WHERE id = $7 AND version = $8
SameVersion(c, version) == comments[c].version = version

BugAnyComment(c) == TRUE
IsVisible(c) == c \in Approved

BugOnlyNew(c) == {c}
\* All of the activity's; the one just approved is among them.
ListApproved(c) == Approved

BugOldest(listed) ==
    {c \in listed : Cardinality({d \in listed : d < c}) < MaxPrompt}
\* buildPrompt keeps the first of the list, which are the newest.
Prompt(listed) ==
    {c \in listed : Cardinality({d \in listed : d > c}) < MaxPrompt}

\* Only an approval adds to what the summary should cover.
AfterReview(c, verdict) ==
    IF verdict = "approved"
      THEN [at |-> "regenerate", comment |-> c]
      ELSE [at |-> "publish", comment |-> c, verdict |-> verdict]

BugWeights(e) == 30 * (e.up - e.down) + IF e.verified THEN 70 ELSE 0
\* computeScore, in hundredths.
Score(e) == 70 * (e.up - e.down) + IF e.verified THEN 30 ELSE 0

RanksBefore(e, f) ==
    \/ Score(e) > Score(f)
    \/ Score(e) = Score(f) /\ e.comment > f.comment

\* sort.SliceStable, of entries no two of which rank alike.
Sorted(entries) ==
    CHOOSE s \in SetToSeqs(entries) :
        \A i, j \in DOMAIN s : i < j => RanksBefore(s[i], s[j])

Tally(c, value) == Cardinality({v \in Voter : votes[<<c, v>>] = value})

-----------------------------------------------------------------------------
(* POST /activities/:id/comment *)

CreateComment ==
    /\ Len(comments) < MaxComments
    /\ comments' = Append(comments, [status |-> "pending", version |-> 1])
    /\ UNCHANGED <<votes, attended, summary, req, notices, lost, overtaken>>

-----------------------------------------------------------------------------
(* POST /moderator/comment/:id/approve and .../reject *)

\* Otherwise ErrCommentNotPending.
ReviewFind(r, c, verdict) ==
    /\ req[r] = Idle
    /\ StillPending(c)
    /\ Goto(r, [at |-> "review", comment |-> c, verdict |-> verdict,
                version |-> comments[c].version])
    /\ UNCHANGED <<tables, notices, lost, overtaken>>

\* Otherwise ErrVersionConflict.  The trigger of the table bumps the version.
ReviewUpdate(r) ==
    /\ req[r].at = "review"
    /\ LET c == req[r].comment
       IN  IF SameVersion(c, req[r].version)
             THEN /\ comments' = [comments EXCEPT
                       ![c] = [status |-> req[r].verdict,
                               version |-> @.version + 1]]
                  /\ Goto(r, AfterReview(c, req[r].verdict))
             ELSE UNCHANGED comments /\ Finish(r)
    /\ UNCHANGED <<votes, attended, summary, notices, lost, overtaken>>

Regenerating == {"regenerate", "summarize", "upsert"}

\* RegenerateCommentSummary, first step.
RegenerateList(r) ==
    /\ req[r].at = "regenerate"
    /\ Goto(r, [at |-> "summarize", comment |-> req[r].comment,
                listed |-> ListApproved(req[r].comment)])
    /\ UNCHANGED <<tables, notices, lost, overtaken>>

Covered == IF summary = NotYet THEN {} ELSE summary.covers

\* c gave way to newer comments.
PushedOut(c, covers) == Cardinality({d \in covers : d > c}) >= MaxPrompt

\* What the summary has dealt with.
Heeded == Covered \cup {c \in Approved : PushedOut(c, Covered)}

Approval(r) ==
    [at |-> "publish", comment |-> req[r].comment, verdict |-> "approved"]

\* The AI answers.  The count is of the comments listed, ...
Summarize(r) ==
    /\ req[r].at = "summarize"
    /\ Goto(r, [at |-> "upsert", comment |-> req[r].comment,
                covers |-> Prompt(req[r].listed),
                count |-> Cardinality(req[r].listed)])
    /\ UNCHANGED <<tables, notices, lost, overtaken>>

\* ... and the row is written over whatever it holds.
SummaryUpsert(r) ==
    /\ req[r].at = "upsert"
    /\ summary' = [covers |-> req[r].covers, count |-> req[r].count]
    /\ lost' = (lost \cup {c \in Heeded : ~PushedOut(c, req[r].covers)})
                 \ req[r].covers
    /\ overtaken' = (overtaken \ {r})
                      \cup {q \in Req \ {r} :
                              req[q].at \in {"summarize", "upsert"}}
    /\ Goto(r, Approval(r))
    /\ UNCHANGED <<comments, votes, attended, notices>>

\* An error of any step of it is logged, and the approval goes on.
RegenerateFails(r) ==
    /\ req[r].at \in Regenerating
    /\ lost' = lost \cup {req[r].comment}
    /\ overtaken' = overtaken \ {r}
    /\ Goto(r, Approval(r))
    /\ UNCHANGED <<tables, notices>>

\* The author is told, or the error is logged.
Publish(r) ==
    /\ req[r].at = "publish"
    /\ notices' \in {notices,
                     notices \cup {<<req[r].comment, req[r].verdict>>}}
    /\ Finish(r)
    /\ UNCHANGED <<comments, votes, attended, summary, lost, overtaken>>

-----------------------------------------------------------------------------
(* POST /comment/:id/vote *)

\* Otherwise ErrCommentNotFound.
VoteFind(r, c, v, value) ==
    /\ req[r] = Idle
    /\ IsVisible(c)
    /\ Goto(r, [at |-> "vote", comment |-> c, voter |-> v, value |-> value])
    /\ UNCHANGED <<tables, notices, lost, overtaken>>

\* The primary key is the comment and the voter.
VoteUpsert(r) ==
    /\ req[r].at = "vote"
    /\ votes' = [votes EXCEPT
           ![<<req[r].comment, req[r].voter>>] = req[r].value]
    /\ Finish(r)
    /\ UNCHANGED <<comments, attended, summary, notices, lost,
                   overtaken>>

-----------------------------------------------------------------------------
(* GET /activities/:id/comment *)

\* Without a comment there is nothing to rank.
ListComments(r) ==
    /\ req[r] = Idle
    /\ Approved # {}
    /\ Goto(r, [at |-> "tally", listed |-> Approved])
    /\ UNCHANGED <<tables, notices, lost, overtaken>>

\* All tallies in one query.  Verified is filled in below.
ListTally(r) ==
    /\ req[r].at = "tally"
    /\ Goto(r, [at |-> "rank", todo |-> req[r].listed,
                ranked |-> {[comment |-> c, up |-> Tally(c, 1),
                             down |-> Tally(c, -1), verified |-> FALSE] :
                                c \in req[r].listed}])
    /\ UNCHANGED <<tables, notices, lost, overtaken>>

\* One query for each author; the order is not seen by anybody.
ListVerify(r) ==
    /\ req[r].at = "rank" /\ req[r].todo # {}
    /\ LET c == CHOOSE c \in req[r].todo : \A d \in req[r].todo : c >= d
           e == CHOOSE e \in req[r].ranked : e.comment = c
       IN  Goto(r, [at |-> "rank", todo |-> req[r].todo \ {c},
                    ranked |-> (req[r].ranked \ {e})
                      \cup {[e EXCEPT !.verified = c \in attended]}])
    /\ UNCHANGED <<tables, notices, lost, overtaken>>

ListSort(r) ==
    /\ req[r].at = "rank" /\ req[r].todo = {}
    /\ Goto(r, [at |-> "return", shown |-> Sorted(req[r].ranked)])
    /\ UNCHANGED <<tables, notices, lost, overtaken>>

ListReturn(r) ==
    /\ req[r].at = "return"
    /\ Finish(r)
    /\ UNCHANGED <<tables, notices, lost, overtaken>>

-----------------------------------------------------------------------------
\* A request stops: a statement fails or the process dies.
Abandon(r) ==
    /\ req[r] # Idle
    /\ lost' = IF req[r].at \in Regenerating
                 THEN lost \cup {req[r].comment} ELSE lost
    /\ overtaken' = overtaken \ {r}
    /\ Finish(r)
    /\ UNCHANGED <<tables, notices>>

\* The attendance component: an author scans the activity's code.
Attend(authored) ==
    /\ attended' = attended \cup authored
    /\ UNCHANGED <<comments, votes, summary, req, notices, lost, overtaken>>

Review(r) ==
    \/ \E c \in DOMAIN comments, verdict \in Verdict :
         ReviewFind(r, c, verdict)
    \/ ReviewUpdate(r)
    \/ Publish(r)

Regenerate(r) ==
    \/ RegenerateList(r)
    \/ Summarize(r)
    \/ SummaryUpsert(r)
    \/ RegenerateFails(r)

Vote(r) ==
    \/ \E c \in DOMAIN comments, v \in Voter, value \in VoteValue :
         VoteFind(r, c, v, value)
    \/ VoteUpsert(r)

List(r) ==
    \/ ListComments(r)
    \/ ListTally(r)
    \/ ListVerify(r)
    \/ ListSort(r)
    \/ ListReturn(r)

Next ==
    \/ CreateComment
    \/ \E r \in Req :
         Review(r) \/ Regenerate(r) \/ Vote(r) \/ List(r) \/ Abandon(r)
    \/ \E authored \in SUBSET Comment : Attend(authored)

Spec == Init /\ [][Next]_vars

-----------------------------------------------------------------------------
\* "Only approved comments can be voted on" (vote_comment.go:30): also a vote
\* whose check and insert are apart finds the comment as it was checked.
VotesOnVisible ==
    \A c \in Comment, v \in Voter : votes[<<c, v>>] # 0 => c \in Approved

\* An author is told of no verdict but the one that stands, also when two
\* moderators review the comment at once.
VerdictNoticesTrue ==
    \A n \in notices : comments[n[1]].status = n[2]

\* "from its currently-approved comments" (regenerate_summary.go:13): the
\* summary is made from approved comments only, and one it leaves out has given
\* way to newer ones, or its own approval is about to write it, or its writing
\* failed, or was overwritten.
SummaryMissesOnlyLost ==
    /\ Covered \subseteq Approved
    /\ \A c \in Approved \ (Covered \cup lost) :
         \/ PushedOut(c, Covered)
         \/ \E r \in Req : req[r].at \in Regenerating /\ req[r].comment = c

\* "the only event that can add a new comment to what the summary should
\* cover" (regenerate_summary.go:16), and no event removes one: the count never
\* falls and the summary never loses a comment but to newer ones, unless a
\* request writes it that another one has overtaken.
SummaryShrinksOnlyOvertaken ==
    [][\/ summary = NotYet
       \/ /\ summary'.count >= summary.count
          /\ \A c \in Covered \ Covered' : PushedOut(c, Covered')
       \/ \E r \in overtaken : req[r].at = "upsert" /\ SummaryUpsert(r)]_vars

\* Score is a weighted sum, and ranks by votes first: attendance decides only
\* between equal votes, and the date only between equal both.
RankedByVotesFirst ==
    \A r \in Req : req[r].at = "return" =>
        \A i, j \in DOMAIN req[r].shown : i < j =>
            LET e == req[r].shown[i]
                f == req[r].shown[j]
                net(x) == x.up - x.down
            IN  \/ net(e) > net(f)
                \/ /\ net(e) = net(f)
                   /\ f.verified => e.verified
                   /\ e.verified = f.verified => e.comment > f.comment
=============================================================================
